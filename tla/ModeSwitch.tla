----------------------------- MODULE ModeSwitch -----------------------------
(***************************************************************************)
(* The assembly that changes the processor's mode, and what may interrupt  *)
(* it: RealMode(), which the second and third stages call BIOS services    *)
(* with (Boot/Legacy/Shared/Rm), the entry and the exit of the kernel      *)
(* (Stage3/Stub.asm), the kernel's own call of int 13h                     *)
(* (Common/Kernel/Disk/Bios/Int13.asm) and the handlers of interrupts and  *)
(* exceptions of the third stage (Stage3/Int).                             *)
(*                                                                         *)
(* The code is kept as code, one action for each kind of instruction, as   *)
(* its hazards are in its order.  Instructions that only matter together   *)
(* are one.  The rest of the loader, which is written in C, is at line 0.  *)
(***************************************************************************)
EXTENDS Integers, Sequences

CONSTANTS
  Exceptions,  \* The vectors of the exceptions that the third stage may raise.
  MaxNmis      \* Bounds how many NMIs there are.

ASSUME VectorsAssumption == Exceptions \subseteq (0 .. 31) \ {2} /\ MaxNmis \in Nat

VARIABLES
  at,           \* The instruction to execute: its routine and its line.
  cpu,          \* Control bits, CS (as the code that it is for), DS, IF (as Enabled), CF, and the tables in use.
  regs,
  stack,        \* Its top comes first.
  mem,          \* What the routines keep, realModeTable, and whether the space of the third stage was overwritten.
  outcome,      \* Whether the last BIOS service failed.
  pic,
  interrupted,  \* What is interrupted, last first.
  nmis,
  stopped       \* "no", or why nothing goes on.

rest == <<outcome, pic, interrupted, nmis>>
vars == <<at, cpu, regs, stack, mem, stopped, rest>>

\* The descriptors of a table: the width of code, or whether data is all memory or 64 KiB.
Gdt ==
  [flat |-> [s08 |-> "32", s10 |-> "data"],                 \* Bootsector.asm, Rm.asm and Stub.asm.
   real |-> [s08 |-> "16", s10 |-> "small"],                \* Rm.asm.
   long |-> [s08 |-> "64", s10 |-> "data"],                 \* Stub.asm.
   both |-> [s08 |-> "32", s10 |-> "data", s18 |-> "16", s20 |-> "small"]]  \* Int13.asm.

\* In the order in which pusha leaves them; and the others.
General == <<"di", "si", "bp", "bx", "dx", "cx", "ax">>
Registers == {General[i] : i \in DOMAIN General} \cup {"r12", "es"}

\* Vectors, by the macro that their handler is made with.
Aborts == {0, 6, 8, 18}
Logged == {2, 3, 15, 31} \cup (22 .. 27)
FaultsWithError == {10, 11, 12, 13, 14, 17, 21, 29, 30}

\* Vectors for which the processor pushes an error code.
ErrorCodes == FaultsWithError \cup {8}

StubOf(v) ==
  CASE v \in Aborts -> "IsrAbortStub"
    [] v \in Logged -> "IsrLogStub"
    [] v \in FaultsWithError -> "IsrFaultStubWithError"
    [] OTHER -> "IsrFaultStub"

-----------------------------------------------------------------------------
(***************************************************************************)
(* The code.  "far" jumps to the next line, and loads CS.                  *)
(***************************************************************************)
I(op, arg) == [op |-> op, arg |-> arg]

Assemble(bits, code) == [i \in DOMAIN code |-> [bits |-> bits, op |-> code[i].op, arg |-> code[i].arg]]

\* Rm.asm, up to the payload.
ToRealMode ==
  Assemble("32", <<I("interrupts", FALSE), I("pushf", ""), I("pusha", ""), I("save stack", "Rm"),
                   I("lgdt", "real"), I("far", "s08")>>)
  \o Assemble("16", <<I("segments", "s10"), I("lidt", "bios"), I("clear", "PE"), I("far", "zero"),
                      I("segments", "zero"), I("new stack", "")>>)

\* Exports only through DS, which `mov ds, ax' leaves as it is.
Payload ==
  Assemble("16", <<I("arguments", "registers"), I("load ds", ""), I("arguments", "es"), I("interrupts", TRUE),
                   I("int", ""), I("export", "registers"), I("export", "flags")>>)

\* A fault: interrupts stay on.
BackWithInterrupts ==
  Assemble("16", <<I("segments", "zero"), I("lgdt", "flat"), I("set", "PE"), I("far", "s08")>>)
  \o Assemble("32", <<I("segments", "s10"), I("restore stack", "Rm"), I("popa", ""), I("popf", ""),
                      I("interrupts", FALSE), I("ret", "")>>)

BackFromRealMode ==
  Assemble("16", <<I("interrupts", FALSE), I("segments", "zero"), I("lgdt", "flat"), I("set", "PE"), I("far", "s08")>>)
  \o Assemble("32", <<I("segments", "s10"), I("restore stack", "Rm"), I("popa", ""), I("popf", ""),
                      I("interrupts", FALSE), I("ret", "")>>)

\* The wrapper, with the SaveState() and RestoreState() of either stage.
RealModeOfStage2 == Assemble("32", <<I("call", "Rm"), I("ret", "")>>)

RealModeOfStage3 ==
  Assemble("32", <<I("interrupts", FALSE), I("call", "Rm"), I("lidt", "stage3"), I("interrupts", TRUE), I("ret", "")>>)

\* Stub.asm.
ToKernel ==
  Assemble("32", <<I("push", "bp"), I("frame", ""), I("interrupts", FALSE), I("pusha", ""), I("save stack", "Stub"),
                   I("set", "PAE"), I("set", "LME"), I("set", "PG"), I("lgdt", "long"), I("far", "s08")>>)
  \o Assemble("64", <<I("segments", "s10"), I("new stack", ""), I("push", "bp"), I("call", "Kernel")>>)

FromKernel ==
  Assemble("64", <<I("keep", "status"), I("interrupts", FALSE), I("lgdt", "flat"), I("far", "s08")>>)
  \o Assemble("32", <<I("segments", "s10"), I("clear", "PG"), I("clear", "LME"), I("restore stack", "Stub"),
                      I("popa", ""), I("interrupts", TRUE), I("recall", "status"), I("leave", ""), I("ret", "")>>)

\* Int13.asm, up to the service.
LeaveLongMode ==
  Assemble("64", <<I("interrupts", FALSE), I("push", "bx"), I("push", "bp"), I("push", "r12"), I("save stack", "Int13"),
                   I("save tables", ""), I("new stack", ""), I("lgdt", "both"), I("far", "s08")>>)
  \o Assemble("32", <<I("segments", "s10"), I("clear", "PG"), I("push", "dx"), I("clear", "LME"), I("pop", "dx"),
                      I("far", "s18")>>)
  \o Assemble("16", <<I("segments", "s20"), I("lidt", "bios"), I("clear", "PE"), I("far", "zero")>>)

Int13 ==
  Assemble("16", <<I("segments", "zero"), I("interrupts", TRUE), I("int", ""), I("outcome", ""), I("interrupts", FALSE),
                   I("set", "PE"), I("far", "s08")>>)

\* A fault: the outcome is in a register that is used.
OutcomeOverwritten ==
  Assemble("32", <<I("segments", "s10"), I("set", "LME"), I("set", "PG"), I("lgdt", "saved"), I("far", "s08")>>)
  \o Assemble("64", <<I("segments", "s10"), I("restore stack", "Int13"), I("pop", "r12"), I("pop", "bp"),
                      I("pop", "bx"), I("lidt", "saved"), I("ret", "")>>)

\* A fault: the registers are popped in the order in which they were pushed.
PoppedAsPushed ==
  Assemble("32", <<I("segments", "s10"), I("push", "ax"), I("set", "LME"), I("pop", "ax"), I("set", "PG"),
                      I("lgdt", "saved"), I("far", "s08")>>)
  \o Assemble("64", <<I("segments", "s10"), I("restore stack", "Int13"), I("pop", "bx"), I("pop", "bp"),
                      I("pop", "r12"), I("lidt", "saved"), I("ret", "")>>)

BackToLongMode ==
  Assemble("32", <<I("segments", "s10"), I("push", "ax"), I("set", "LME"), I("pop", "ax"), I("set", "PG"),
                      I("lgdt", "saved"), I("far", "s08")>>)
  \o Assemble("64", <<I("segments", "s10"), I("restore stack", "Int13"), I("pop", "r12"), I("pop", "bp"),
                      I("pop", "bx"), I("lidt", "saved"), I("ret", "")>>)

\* The first steps of the third stage, with InitPic(), whose first command clears the mask.
Stage3Begin ==
  Assemble("32", <<I("mask", TRUE), I("read mask", ""), I("mask", FALSE), I("vectors", 32), I("write mask", ""),
                   I("lidt", "stage3"), I("interrupts", TRUE), I("go on", "Stage3")>>)

\* What follows the kernel.
Stage3End == Assemble("32", <<I("lidt", "stage3"), I("interrupts", TRUE), I("go on", "After")>>)

-----------------------------------------------------------------------------
(***************************************************************************)
(* The handlers.                                                           *)
(***************************************************************************)
IsrFaultStub ==
  Assemble("32", <<I("push", "cx"), I("peek", <<"cx", 1>>), I("pusha", ""), I("vector", ""), I("push", "cx"),
                   I("push", "dx"), I("handle", ""), I("pop", "dx"), I("pop", "cx"), I("popa", ""),
                   I("pop", "cx"), I("iret", "")>>)

\* Neither pops the registers in the right order nor the error code.
IsrFaultStubWithError ==
  Assemble("32", <<I("push", "bx"), I("push", "cx"), I("peek", <<"bx", 3>>), I("peek", <<"cx", 2>>),
                   I("pusha", ""), I("vector", ""), I("push", "bx"), I("push", "cx"), I("push", "dx"),
                   I("handle", ""), I("pop", "dx"), I("pop", "cx"), I("pop", "bx"), I("popa", ""),
                   I("pop", "bx"), I("pop", "cx"), I("iret", "")>>)

IsrAbortStub ==
  Assemble("32", <<I("push", "cx"), I("peek", <<"cx", 1>>), I("pusha", ""), I("vector", ""), I("push", "cx"),
                   I("push", "dx"), I("abort", "")>>)

\* A fault: the argument of the handler stays on the stack.
ArgumentKept ==
  Assemble("32", <<I("pusha", ""), I("vector", ""), I("push", "dx"), I("handle", ""), I("popa", ""), I("iret", "")>>)

IsrLogStub ==
  Assemble("32", <<I("pusha", ""), I("vector", ""), I("push", "dx"), I("handle", ""), I("pop", "dx"),
                   I("popa", ""), I("iret", "")>>)

Code ==
  [Rm |-> ToRealMode \o Payload \o BackFromRealMode,
   RealMode2 |-> RealModeOfStage2, RealMode3 |-> RealModeOfStage3,
   Stub |-> ToKernel \o FromKernel,
   Int13 |-> LeaveLongMode \o Int13 \o BackToLongMode,
   Begin |-> Stage3Begin, End |-> Stage3End,
   IsrFaultStub |-> IsrFaultStub, IsrFaultStubWithError |-> IsrFaultStubWithError,
   IsrAbortStub |-> IsrAbortStub, IsrLogStub |-> IsrLogStub]

\* The parts that are written in C.
InC == {"Stage2", "Stage3", "After", "Kernel"}

C(part) == [routine |-> part, line |-> 0]

Handlers == {"IsrFaultStub", "IsrFaultStubWithError", "IsrAbortStub", "IsrLogStub"}

-----------------------------------------------------------------------------
(***************************************************************************)
(* Words, in registers and on the stack.  The C code keeps its Own values  *)
(* in registers.                                                           *)
(***************************************************************************)
Word(kind, of, n) == [kind |-> kind, of |-> of, n |-> n]

Own(r) == Word("own", r, 0)
OwnRegisters == [r \in Registers |-> Own(r)]
Junk == Word("junk", "", 0)
Argument(r) == Word("argument", r, 0)
Address(a) == Word("address", a.routine, a.line)
Flags(if) == Word("flags", IF if THEN "on" ELSE "off", 0)
Selector(cs) == Word("cs", cs, 0)
Vector(v) == Word("vector", "", v)
ErrorCode == Word("error", "", 0)
Frame(depth) == Word("frame", "", depth)
Status == Word("status", "", 0)
Result(failed) == Word("result", IF failed THEN "failed" ELSE "done", 0)

Instr == Code[at.routine][at.line]

Executes(ops) == stopped = "no" /\ at.line > 0 /\ Instr.op \in ops

Following == [at EXCEPT !.line = @ + 1]

Init ==
  /\ at = C("Stage2")
  /\ cpu = [PE |-> TRUE, PG |-> FALSE, PAE |-> FALSE, LME |-> FALSE, cs |-> "32", ds |-> "data",
            Enabled |-> FALSE, CF |-> FALSE, gdt |-> "flat", idt |-> "bios"]
  /\ regs = OwnRegisters
  /\ stack = <<>>
  /\ mem = [Rm |-> <<>>, Stub |-> <<>>, Int13 |-> <<>>, gdt |-> "flat", idt |-> "bios", status |-> Junk,
            ds |-> "zero", results |-> TRUE, carry |-> FALSE, overwritten |-> FALSE]
  /\ outcome = FALSE
  /\ pic = [mask |-> FALSE, vectors |-> 8, saved |-> FALSE]
  /\ interrupted = <<>>
  /\ nmis = 0
  /\ stopped = "no"

-----------------------------------------------------------------------------
(***************************************************************************)
(* Instructions.  Where the processor would raise an exception, as it has  *)
(* no handler for it or does not return, there is a "fault".               *)
(***************************************************************************)
\* LME is in a register of its own, which is changed by way of ax, cx and dx.
ChangedBy(bit) == IF bit = "LME" THEN {"ax", "cx", "dx"} ELSE {}

\* The bits that make long mode depend on each other.
MaySet(bit) == bit = "PG" => cpu.PE /\ (cpu.LME => cpu.PAE)

MayClear(bit) ==
  /\ bit = "PG" => cpu.cs # "64"
  /\ bit = "PE" => ~cpu.PG

ChangeControl ==
  /\ Executes({"set", "clear"})
  /\ LET bit == Instr.arg
         allowed == /\ IF Instr.op = "set" THEN MaySet(bit) ELSE MayClear(bit)
                    /\ bit = "LME" => ~cpu.PG
     IN /\ stopped' = IF allowed THEN "no" ELSE "fault"
        /\ cpu' = [cpu EXCEPT ![bit] = Instr.op = "set"]
        /\ regs' = [r \in Registers |-> IF r \in ChangedBy(bit) THEN Junk ELSE regs[r]]
  /\ at' = Following
  /\ UNCHANGED <<stack, mem, rest>>

InRealMode == ~cpu.PE /\ cpu.cs = "real"

Has(selector, kinds) ==
  /\ selector \in DOMAIN Gdt[cpu.gdt]
  /\ Gdt[cpu.gdt][selector] \in kinds

\* Leaving 64-bit code, the upper halves of the registers are lost.
FarJump ==
  /\ Executes({"far"})
  /\ IF ~cpu.PE
     THEN /\ cpu' = [cpu EXCEPT !.cs = "real"]
          /\ UNCHANGED <<regs, stopped>>
     ELSE IF Has(Instr.arg, {"16", "32"} \cup IF cpu.PG /\ cpu.LME THEN {"64"} ELSE {})
     THEN /\ cpu' = [cpu EXCEPT !.cs = Gdt[cpu.gdt][Instr.arg]]
          /\ regs' = [r \in Registers |->
                        IF cpu.cs = "64" /\ r \in {"bx", "bp", "r12"} THEN Junk ELSE regs[r]]
          /\ UNCHANGED stopped
     ELSE /\ stopped' = "fault"
          /\ UNCHANGED <<cpu, regs>>
  /\ at' = Following
  /\ UNCHANGED <<stack, mem, rest>>

\* All but CS, with a register that holds the selector.
LoadSegments ==
  /\ Executes({"segments"})
  /\ IF InRealMode
     THEN /\ cpu' = [cpu EXCEPT !.ds = "zero"]
          /\ UNCHANGED stopped
     ELSE IF Has(Instr.arg, {"data", "small"})
     THEN /\ cpu' = [cpu EXCEPT !.ds = Gdt[cpu.gdt][Instr.arg]]
          /\ UNCHANGED stopped
     ELSE /\ stopped' = "fault"
          /\ UNCHANGED cpu
  /\ regs' = [regs EXCEPT ![IF at.routine = "Int13" THEN "bx" ELSE "ax"] = Junk]
  /\ at' = Following
  /\ UNCHANGED <<stack, mem, rest>>

\* Whether labels are where they seem to be.
LabelsReachable == cpu.cs = "64" \/ cpu.ds \in (IF cpu.cs = "real" THEN {"zero"} ELSE {"data", "small"})

LoadTable ==
  /\ Executes({"lgdt", "lidt"})
  /\ cpu' = CASE Instr.op = "lgdt" -> [cpu EXCEPT !.gdt = IF Instr.arg = "saved" THEN mem.gdt ELSE Instr.arg]
              [] Instr.op = "lidt" -> [cpu EXCEPT !.idt = IF Instr.arg = "saved" THEN mem.idt ELSE Instr.arg]
  /\ stopped' = IF LabelsReachable THEN "no" ELSE "fault"
  /\ at' = Following
  /\ UNCHANGED <<regs, stack, mem, rest>>

SetInterrupts ==
  /\ Executes({"interrupts"})
  /\ cpu' = [cpu EXCEPT !.Enabled = Instr.arg]
  /\ at' = Following
  /\ UNCHANGED <<regs, stack, mem, stopped, rest>>

Push ==
  /\ Executes({"push", "pushf", "pusha"})
  /\ stack' = (CASE Instr.op = "push" -> <<regs[Instr.arg]>>
                 [] Instr.op = "pushf" -> <<Flags(cpu.Enabled)>>
                 [] Instr.op = "pusha" -> [i \in DOMAIN General |-> regs[General[i]]]) \o stack
  /\ at' = Following
  /\ UNCHANGED <<cpu, regs, mem, stopped, rest>>

Drop(n) == SubSeq(stack, n + 1, Len(stack))

Pop ==
  /\ \/ /\ Executes({"pop"})
        /\ regs' = [regs EXCEPT ![Instr.arg] = Head(stack)]
        /\ stack' = Drop(1)
        /\ UNCHANGED cpu
     \/ /\ Executes({"popf"})
        /\ cpu' = [cpu EXCEPT !.Enabled = Head(stack).of = "on"]
        /\ stack' = Drop(1)
        /\ UNCHANGED regs
     \/ /\ Executes({"popa"})
        /\ regs' = [r \in Registers |-> IF \E i \in DOMAIN General : General[i] = r
                                        THEN stack[CHOOSE i \in DOMAIN General : General[i] = r] ELSE regs[r]]
        /\ stack' = Drop(Len(General))
        /\ UNCHANGED cpu
  /\ at' = Following
  /\ UNCHANGED <<mem, stopped, rest>>

\* A register is copied from the stack, or made the frame pointer.
Move ==
  /\ Executes({"peek", "frame"})
  /\ regs' = CASE Instr.op = "peek" -> [regs EXCEPT ![Instr.arg[1]] = stack[Instr.arg[2] + 1]]
               [] Instr.op = "frame" -> [regs EXCEPT !.bp = Frame(Len(stack))]
  /\ at' = Following
  /\ UNCHANGED <<cpu, stack, mem, stopped, rest>>

\* The stack pointer is saved, in memory; and set.
SwitchStack ==
  /\ \/ /\ Executes({"save stack"})
        /\ mem' = [mem EXCEPT ![Instr.arg] = stack]
        /\ UNCHANGED <<regs, stack>>
     \/ /\ Executes({"new stack"})
        /\ stack' = <<>>
        /\ UNCHANGED <<regs, mem>>
     \/ /\ Executes({"restore stack"})
        /\ stack' = mem[Instr.arg]
        /\ UNCHANGED <<regs, mem>>
     \/ /\ Executes({"leave"})
        /\ stack' = SubSeq(stack, Len(stack) - regs.bp.n + 2, Len(stack))
        /\ regs' = [regs EXCEPT !.bp = stack[Len(stack) - regs.bp.n + 1]]
        /\ UNCHANGED mem
  /\ at' = Following
  /\ UNCHANGED <<cpu, stopped, rest>>

\* Tables, and what the kernel returned, are kept in memory.
Keep ==
  /\ \/ /\ Executes({"save tables"})
        /\ mem' = [mem EXCEPT !.gdt = cpu.gdt, !.idt = cpu.idt]
        /\ UNCHANGED regs
     \/ /\ Executes({"keep"})
        /\ mem' = [mem EXCEPT !.status = regs.ax]
        /\ UNCHANGED regs
     \/ /\ Executes({"recall"})
        /\ regs' = [regs EXCEPT !.ax = mem.status, !.dx = mem.status]
        /\ UNCHANGED mem
  /\ at' = Following
  /\ UNCHANGED <<cpu, stack, stopped, rest>>

\* realModeTable is where its label is only while DS is 0.
LoadArguments ==
  /\ \/ /\ Executes({"arguments"})
        /\ LET loaded == IF Instr.arg = "es" THEN {"es"} ELSE Registers \ {"es", "r12"}
           IN regs' = [r \in Registers |->
                         IF r \notin loaded THEN regs[r] ELSE IF cpu.ds = "zero" THEN Argument(r) ELSE Junk]
        /\ UNCHANGED cpu
     \/ /\ Executes({"load ds"})
        /\ cpu' = [cpu EXCEPT !.ds = mem.ds]
        /\ UNCHANGED regs
  /\ at' = Following
  /\ UNCHANGED <<stack, mem, stopped, rest>>

\* The BIOS leaves no register as it was.
Service ==
  /\ Executes({"int"})
  /\ outcome' \in BOOLEAN
  /\ cpu' = [cpu EXCEPT !.CF = outcome']
  /\ regs' = [r \in Registers |-> Junk]
  /\ at' = Following
  /\ UNCHANGED <<stack, mem, pic, interrupted, nmis, stopped>>

\* To AC00h in the segment that DS names.  If that is the stack, which ends at
\* 20000h, this is some AC00h bytes beyond, in the space of the third stage.
Export ==
  /\ Executes({"export"})
  /\ mem' = CASE cpu.ds = "stack" -> [mem EXCEPT !.overwritten = TRUE]
              [] cpu.ds = "zero" /\ Instr.arg = "registers" -> [mem EXCEPT !.results = TRUE]
              [] cpu.ds = "zero" /\ Instr.arg = "flags" -> [mem EXCEPT !.carry = cpu.CF]
  /\ at' = Following
  /\ UNCHANGED <<cpu, regs, stack, stopped, rest>>

TestOutcome ==
  /\ Executes({"outcome"})
  /\ regs' = [regs EXCEPT !.ax = Result(cpu.CF)]
  /\ at' = Following
  /\ UNCHANGED <<cpu, stack, mem, stopped, rest>>

Call ==
  /\ Executes({"call"})
  /\ stack' = <<Address(Following)>> \o stack
  /\ IF Instr.arg \in InC
     THEN /\ at' = C(Instr.arg)
          /\ regs' = OwnRegisters
     ELSE /\ at' = [routine |-> Instr.arg, line |-> 1]
          /\ UNCHANGED regs
  /\ UNCHANGED <<cpu, mem, stopped, rest>>

\* To whatever is on top of the stack.
Return ==
  /\ \/ /\ Executes({"ret"})
        /\ stack' = Drop(1)
        /\ UNCHANGED <<cpu, interrupted>>
     \/ /\ Executes({"iret"})
        /\ stack' = Drop(3)
        /\ cpu' = [cpu EXCEPT !.cs = IF stack[2].kind = "cs" THEN stack[2].of ELSE @, !.Enabled = stack[3].of = "on"]
        /\ interrupted' = Tail(interrupted)
  /\ IF Head(stack).kind = "address"
     THEN /\ at' = [routine |-> Head(stack).of, line |-> Head(stack).n]
          /\ UNCHANGED stopped
     ELSE /\ stopped' = "wild"
          /\ UNCHANGED at
  /\ UNCHANGED <<regs, mem, outcome, pic, nmis>>

\* The handlers that are written in C, and the vector that they are told.
Handle ==
  /\ \/ /\ Executes({"vector"})
        /\ regs' = [regs EXCEPT !.dx = Vector(Head(interrupted).vector)]
        /\ UNCHANGED stopped
     \/ /\ Executes({"handle"})
        /\ regs' = [regs EXCEPT !.ax = Junk, !.cx = Junk, !.dx = Junk]
        /\ UNCHANGED stopped
     \/ /\ Executes({"abort"})
        /\ stopped' = "panic"
        /\ UNCHANGED regs
  /\ at' = IF Instr.op = "abort" THEN at ELSE Following
  /\ UNCHANGED <<cpu, stack, mem, rest>>

ProgramPic ==
  /\ Executes({"mask", "read mask", "write mask", "vectors"})
  /\ pic' = CASE Instr.op = "mask" -> [pic EXCEPT !.mask = Instr.arg]
              [] Instr.op = "read mask" -> [pic EXCEPT !.saved = pic.mask]
              [] Instr.op = "write mask" -> [pic EXCEPT !.mask = pic.saved]
              [] Instr.op = "vectors" -> [pic EXCEPT !.vectors = Instr.arg]
  /\ at' = Following
  /\ UNCHANGED <<cpu, regs, stack, mem, outcome, interrupted, nmis, stopped>>

GoOn ==
  /\ Executes({"go on"})
  /\ at' = C(Instr.arg)
  /\ UNCHANGED <<cpu, regs, stack, mem, stopped, rest>>

Execute ==
  \/ ChangeControl \/ FarJump \/ LoadSegments \/ LoadTable \/ SetInterrupts
  \/ Push \/ Pop \/ Move \/ SwitchStack \/ Keep
  \/ LoadArguments \/ Service \/ Export \/ TestOutcome
  \/ Call \/ Return \/ Handle \/ ProgramPic \/ GoOn

-----------------------------------------------------------------------------
(***************************************************************************)
(* What the parts in C do.                                                 *)
(***************************************************************************)
\* A service is asked for with parameters in registers, or also in memory at DS.
CallRealMode(part, routine, segments) ==
  /\ stopped = "no" /\ at = C(part)
  /\ \E ds \in segments : mem' = [mem EXCEPT !.ds = ds, !.results = FALSE]
  /\ at' = [routine |-> routine, line |-> 1]
  /\ stack' = <<Address(C(part))>> \o stack
  /\ regs' = OwnRegisters
  /\ UNCHANGED <<cpu, stopped, rest>>

\* With a stack of its own.
EnterStage3 ==
  /\ stopped = "no" /\ at = C("Stage2")
  /\ at' = [routine |-> "Begin", line |-> 1]
  /\ stack' = <<>>
  /\ UNCHANGED <<cpu, regs, mem, stopped, rest>>

EnterKernel ==
  /\ stopped = "no" /\ at = C("Stage3")
  /\ at' = [routine |-> "Stub", line |-> 1]
  /\ stack' = <<Address([routine |-> "End", line |-> 1])>> \o stack
  /\ regs' = OwnRegisters
  /\ UNCHANGED <<cpu, mem, stopped, rest>>

KernelReads ==
  /\ stopped = "no" /\ at = C("Kernel")
  /\ at' = [routine |-> "Int13", line |-> 1]
  /\ stack' = <<Address(C("Kernel"))>> \o stack
  /\ regs' = OwnRegisters
  /\ UNCHANGED <<cpu, mem, stopped, rest>>

KernelReturns ==
  /\ stopped = "no" /\ at = C("Kernel")
  /\ at' = [routine |-> Head(stack).of, line |-> Head(stack).n]
  /\ stack' = Drop(1)
  /\ regs' = [r \in Registers |-> IF r \in {"ax", "dx"} THEN Status ELSE Junk]
  /\ UNCHANGED <<cpu, mem, stopped, rest>>

Halt ==
  /\ stopped = "no" /\ at = C("After")
  /\ stopped' = "halt"
  /\ UNCHANGED <<at, cpu, regs, stack, mem, rest>>

Proceed ==
  \/ CallRealMode("Stage2", "RealMode2", {"zero", "stack"})
  \/ CallRealMode("Stage3", "RealMode3", {"zero", "stack"})
  \/ CallRealMode("After", "RealMode3", {"zero"})
  \/ EnterStage3 \/ EnterKernel \/ KernelReads \/ KernelReturns \/ Halt

-----------------------------------------------------------------------------
(***************************************************************************)
(* What interrupts them.  A handler is entered by way of the tables, which *)
(* must be for the processor's mode: those of the third stage for 32-bit   *)
(* code, which needs all memory, and that of the BIOS for real mode, from  *)
(* which a return leads elsewhere unless CS has been loaded in it.         *)
(***************************************************************************)
HandledByStage3 == cpu.PE /\ ~(cpu.PG /\ cpu.LME) /\ cpu.idt = "stage3" /\ Has("s08", {"32"}) /\ cpu.ds = "data"

HandledByBios == InRealMode /\ cpu.idt = "bios"

\* Interrupts stay as they are: all entries are trap gates.
Interrupt(v) ==
  /\ stack' = (IF v \in ErrorCodes THEN <<ErrorCode>> ELSE <<>>)
                \o <<Address(at), Selector(cpu.cs), Flags(cpu.Enabled)>> \o stack
  /\ interrupted' = <<[vector |-> v, at |-> at, cpu |-> cpu, regs |-> regs, stack |-> stack]>> \o interrupted
  /\ at' = [routine |-> StubOf(v), line |-> 1]
  /\ cpu' = [cpu EXCEPT !.cs = "32"]
  /\ UNCHANGED <<regs, mem, outcome, pic, stopped>>

Raise ==
  /\ stopped = "no" /\ at \in {C("Stage3"), C("After")}
  /\ \E v \in Exceptions : Interrupt(v)
  /\ UNCHANGED nmis

\* None while another one is handled.
Nmi ==
  /\ stopped = "no" /\ nmis < MaxNmis
  /\ \A i \in DOMAIN interrupted : interrupted[i].vector # 2
  /\ nmis' = nmis + 1
  /\ IF HandledByStage3 THEN Interrupt(2)
     ELSE /\ stopped' = IF HandledByBios THEN "no" ELSE "nmi"
          /\ UNCHANGED <<at, cpu, regs, stack, mem, outcome, pic, interrupted>>

Irq ==
  /\ stopped = "no" /\ cpu.Enabled /\ ~pic.mask
  /\ stopped' = IF HandledByBios /\ pic.vectors = 8 THEN "no" ELSE "irq"
  /\ UNCHANGED <<at, cpu, regs, stack, mem, rest>>

Next == Execute \/ Proceed \/ Raise \/ Nmi \/ Irq

Spec == Init /\ [][Next]_vars

-----------------------------------------------------------------------------
(***************************************************************************)
(* Properties.                                                             *)
(***************************************************************************)
Places ==
  {C(part) : part \in InC}
    \cup UNION {{[routine |-> routine, line |-> n] : n \in DOMAIN Code[routine]} : routine \in DOMAIN Code}

Words ==
  {Own(r) : r \in Registers} \cup {Argument(r) : r \in Registers} \cup {Address(place) : place \in Places}
    \cup {Junk, Status, ErrorCode, Result(TRUE), Result(FALSE), Flags(TRUE), Flags(FALSE)}
    \cup {Selector(cs) : cs \in {"16", "32", "64", "real"}} \cup {Frame(n) : n \in 0 .. 8}
    \cup {Vector(v) : v \in Exceptions \cup {2}}

TypeOK ==
  /\ at \in Places
  /\ cpu \in [PE : BOOLEAN, PG : BOOLEAN, PAE : BOOLEAN, LME : BOOLEAN, Enabled : BOOLEAN, CF : BOOLEAN,
              cs : {"16", "32", "64", "real"}, ds : {"data", "small", "zero", "stack"},
              gdt : DOMAIN Gdt, idt : {"bios", "stage3"}]
  /\ \A r \in Registers : regs[r] \in Words
  /\ \A i \in DOMAIN stack : stack[i] \in Words
  /\ stopped \in {"no", "fault", "wild", "panic", "nmi", "irq", "halt"}

Bits == IF cpu.cs = "real" THEN "16" ELSE cpu.cs

(***************************************************************************)
(* Every instruction is executed by the mode that it was assembled for:    *)
(* the jumps between the parts of the code are where the mode changes, in  *)
(* all eight changes of mode.  (Rm.asm, Stub.asm, Int13.asm)               *)
(***************************************************************************)
DecodedAsAssembled ==
  stopped = "no" =>
    Bits = (IF at.line > 0 THEN Instr.bits ELSE IF at.routine = "Kernel" THEN "64" ELSE "32")

(***************************************************************************)
(* Nothing that the code does itself stops it: no change of mode is        *)
(* refused by the processor, labels are never used while DS is not for     *)
(* them, no interrupt request meets a table that is not for it, and only   *)
(* an NMI can come while none is handled.  (Rm.asm, Stub.asm, Int13.asm,   *)
(* Stage3/Bootloader.c:24)                                                 *)
(***************************************************************************)
OnlyNmisShutDown == stopped \notin {"fault", "irq"}

Mode(cs, long, extended, gdt, idt, if) ==
  [PE |-> TRUE, PG |-> long, PAE |-> extended, LME |-> long, cs |-> cs, ds |-> "data", Enabled |-> if, CF |-> cpu.CF,
   gdt |-> gdt, idt |-> idt]

(***************************************************************************)
(* Whenever code in C goes on, after whichever calls, the processor is as  *)
(* that code expects it: its mode, its descriptors and interrupts that are *)
(* enabled just if there are handlers.  The kernel runs with the table of  *)
(* the third stage, which is of no use to it, and without interrupts.      *)
(* (Stage3/Bootloader.c:31, Stub.asm:79, Int13.asm:280)                    *)
(***************************************************************************)
ModeIsRestored ==
  at.line = 0 /\ interrupted = <<>> =>
    cpu = CASE at.routine = "Stage2" -> Mode("32", FALSE, FALSE, "flat", "bios", FALSE)
            [] at.routine = "Stage3" -> Mode("32", FALSE, FALSE, "flat", "stage3", TRUE)
            [] at.routine = "Kernel" -> Mode("64", TRUE, TRUE, "long", "stage3", FALSE)
            [] at.routine = "After" -> Mode("32", FALSE, TRUE, "flat", "stage3", TRUE)

\* The registers that a function must leave as they were.
Preserved == [Stage2 |-> {"bx", "bp", "si", "di"}, Stage3 |-> {"bx", "bp", "si", "di"},
              After |-> {"bx", "bp", "si", "di"}, Kernel |-> {"bx", "bp", "r12"}]

(***************************************************************************)
(* The C code gets its stack and the registers that calls preserve back    *)
(* from each of them, although the BIOS, the changes of mode and the       *)
(* kernel use all registers and other stacks.                              *)
(* (Rm.asm:44, Stub.asm:31, Int13.asm:36)                                  *)
(***************************************************************************)
CallsAreTransparent ==
  at.line = 0 /\ stopped = "no" =>
    /\ \A r \in Preserved[at.routine] : regs[r] = Own(r)
    /\ at.routine # "Kernel" => stack = <<>>
    /\ at.routine = "Kernel" =>
         Len(stack) = 2 /\ Head(stack) = Address([routine |-> "Stub", line |-> Len(ToKernel) + 1])

(***************************************************************************)
(* A BIOS service that RealMode() calls gets the parameters that were put  *)
(* in realModeTable, but for ES if DS is also given; and int 13h gets the  *)
(* number of the drive from the kernel's call.                             *)
(* (Rm.asm:172, Int13.asm:103)                                             *)
(***************************************************************************)
ServiceGetsParameters ==
  Executes({"int"}) =>
    /\ at.routine = "Rm" =>
         \A r \in Registers \ {"r12"} : regs[r] = Argument(r) \/ (r = "es" /\ mem.ds # "zero")
    /\ at.routine = "Int13" => regs["dx"] = Own("dx")

(***************************************************************************)
(* The outcome of a service reaches its caller by way of realModeTable if  *)
(* no parameter was in another segment, and it never just fails to arrive: *)
(* if it is not in the table, it was written over the space that the       *)
(* layout gives to the third stage (Stage3/Bootloader.c:71).  That of int  *)
(* 13h always reaches the kernel, and what the kernel returns reaches the  *)
(* third stage.                                                            *)
(* (Rm.asm:223, Int13.asm:194, Stub.asm:136)                               *)
(***************************************************************************)
ResultsReachCaller ==
  stopped = "no" =>
    /\ at \in {C("Stage2"), C("Stage3")} /\ (mem.ds = "zero" \/ ~mem.overwritten) =>
         mem.results /\ mem.carry = outcome
    /\ at = C("Kernel") => regs.ax \in {Own("ax"), Result(outcome)}
    /\ at = [routine |-> "End", line |-> 1] => regs.ax = Status /\ regs.dx = Status

(***************************************************************************)
(* "Export data back to the realModeTable struct at (start + E00h),        *)
(* including eflags" (Rm.asm:223): after each service, the carry flag in   *)
(* the table is the one that the service returned.                         *)
(***************************************************************************)
OutcomeIsExported == stopped = "no" /\ at = C("Stage2") => mem.carry = outcome

(***************************************************************************)
(* Every handler is told which exception or interrupt it is called for,    *)
(* and, but for those of exceptions with an error code, where it occurred. *)
(* (Isr.s:104)                                                             *)
(***************************************************************************)
HandlerIsTold ==
  Executes({"handle", "abort"}) =>
    LET last == Head(interrupted)
    IN /\ Head(stack) = Vector(last.vector)
       /\ at.routine # "IsrLogStub" /\ last.vector \notin ErrorCodes => stack[2] = Address(last.at)

(***************************************************************************)
(* When a handler returns, what it interrupted goes on with the registers, *)
(* the stack and the mode that it had; but those of exceptions with an     *)
(* error code never do, as that is taken for the address.                  *)
(* (Isr.s:99, Isr.s:180, Isr.s:259)                                        *)
(***************************************************************************)
InterruptsAreTransparent ==
  [][Len(interrupted') < Len(interrupted) =>
       LET last == Head(interrupted)
       IN IF last.vector \in FaultsWithError THEN stopped' = "wild"
          ELSE at' = last.at /\ cpu' = last.cpu /\ regs' = last.regs /\ stack' = last.stack]_vars

(***************************************************************************)
(* The code runs to its end: in the right mode, and stopped by nothing but *)
(* an NMI at the wrong moment, or a handler that panics or returns to an   *)
(* error code.  (Rm.asm, Stub.asm, Int13.asm, Isr.s)                       *)
(***************************************************************************)
ExecutionIsSound == TypeOK /\ DecodedAsAssembled /\ OnlyNmisShutDown

(***************************************************************************)
(* Changing the mode, to 16-bit code or to the kernel, and back again, is  *)
(* a call like any other for the C code around it.  (Rm.asm, Stub.asm)     *)
(***************************************************************************)
CallersAreRestored == ModeIsRestored /\ CallsAreTransparent

(***************************************************************************)
(* Parameters and results pass through the changes of mode between them.   *)
(* (Rm.asm:171-261, Int13.asm:158-198)                                     *)
(***************************************************************************)
ValuesPassThrough == ServiceGetsParameters /\ ResultsReachCaller

(***************************************************************************)
(* Handlers know what they were called for, and leave no trace.            *)
(* (Isr.s:99-278)                                                          *)
(***************************************************************************)
HandlersAreSound == []HandlerIsTold /\ InterruptsAreTransparent
=============================================================================
