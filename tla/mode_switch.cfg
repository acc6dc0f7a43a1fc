SPECIFICATION Spec
INVARIANT ExecutionIsSound
INVARIANT CallersAreRestored
INVARIANT ValuesPassThrough
PROPERTY HandlersAreSound
CONSTANTS
  Exceptions <- MCExceptions
  MaxNmis = 2
CHECK_DEADLOCK FALSE
