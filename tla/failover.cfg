SPECIFICATION LiveSpec
CONSTANTS
  Callers = {a, b}
  NumHosts = 3
  BadTargets <- LastTargetIsBad
  Sizes <- NoneOrTwo
  MaxChanges = 2
  a = a
  b = b
INVARIANTS FailureIsTotal
PROPERTIES KeepsPromise CallsEnd CursorSettles
