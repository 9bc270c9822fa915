SPECIFICATION Spec
CONSTANTS
  Absent = Absent
  Torn = Torn
  NoTrace = NoTrace
  NL = NL
  Pending = Pending
  SelfMark = SelfMark
  Programs <- MCPrograms
  MaxRuns = 2
INVARIANTS SealedIsOneAttempt FailureVerifiesExactlyIf DigestsSettle RecordsMatchTrace VerifiesExactlyIf
CHECK_DEADLOCK FALSE
