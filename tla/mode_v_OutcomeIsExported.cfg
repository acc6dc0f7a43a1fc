SPECIFICATION Spec
CONSTANTS
  Exceptions <- MCExceptions
  MaxNmis = 2
INVARIANT OutcomeIsExported
CHECK_DEADLOCK FALSE
