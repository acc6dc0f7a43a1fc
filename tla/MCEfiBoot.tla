------------------------------ MODULE MCEfiBoot ------------------------------
(***************************************************************************)
(* Small machines for EfiBoot: one in the middle, and others that differ   *)
(* from it in a part each.                                                 *)
(***************************************************************************)
EXTENDS EfiBoot

Entry(start, number, type) == [PhysicalStart |-> start, NumberOfPages |-> number, Type |-> type]

Mode(linear, depth, h, v) == [Linear |-> linear, ColorDepth |-> depth, HRes |-> h, VRes |-> v]

Middle ==
  [conin |-> TRUE, conout |-> TRUE,
   text |-> <<[Columns |-> 80, Rows |-> 25]>>,
   gop |-> <<TRUE>>, edid |-> "present", preferred |-> <<1024, 768>>,
   modes |-> <<Mode(TRUE, 24, 800, 600)>>,
   tables |-> <<"Acpi2">>,
   volumes |-> <<"kernel">>,
   map |-> <<Entry(0, 2, 7), Entry(2, 3, 2), Entry(5, 6, 7)>>,
   taken |-> {}]

TextModes == {<<>>, <<[Columns |-> 100, Rows |-> 31], [Columns |-> 80, Rows |-> 25], [Columns |-> 40, Rows |-> 90]>>}

SomeModes == {Mode(TRUE, 24, 640, 480), Mode(TRUE, 32, 640, 480), Mode(TRUE, 24, 1024, 768),
              Mode(TRUE, 15, 1024, 768), Mode(FALSE, 32, 1024, 768), Mode(TRUE, 30, 800, 600),
              Mode(TRUE, 32, 1280, 1024)}

Volumes == {"closed", "unreadable", "other", "kernel"}

Types == {2, 7}

\* Entries in any order, which may overlap as those of some firmware do.
Maps ==
  {<<Entry(a, 3, t), Entry(b, 4, u), Entry(c, n, 7)>> :
     a \in {0, 4, 5}, t \in Types, b \in {1, 2, 6}, u \in Types, c \in {3, 6}, n \in {1, 5}}
    \cup {<<Entry(4, 3, 7), Entry(0, 2, 7), Entry(2, 1, 7), Entry(3, 1, 7), Entry(8, 4, 7)>>,
          <<Entry(8, 5, 7), Entry(0, 4, 7), Entry(4, 4, 7)>>}

MCFirmwares ==
  {[Middle EXCEPT !.conin = i, !.conout = o, !.gop = g] : i, o \in BOOLEAN, g \in {<<>>, <<FALSE>>, <<TRUE>>}}
    \cup {[Middle EXCEPT !.text = t] : t \in TextModes}
    \cup {[Middle EXCEPT !.gop = g, !.edid = e] :
            g \in {<<FALSE, TRUE>>, <<TRUE, FALSE>>}, e \in {"none", "empty", "present"}}
    \cup {[Middle EXCEPT !.modes = <<a, b, c>>, !.edid = e] :
            a, b, c \in SomeModes, e \in {"none", "present"}}
    \cup {[Middle EXCEPT !.tables = <<a, b>>] : a, b \in {"Acpi", "Acpi2", "Smbios", "Smbios3"}}
    \cup {[Middle EXCEPT !.volumes = <<a, b, c>>] : a, b, c \in Volumes}
    \cup {[Middle EXCEPT !.volumes = <<>>]}
    \cup {[Middle EXCEPT !.map = m, !.taken = t] : m \in Maps, t \in {{}, {7}}}
=============================================================================
