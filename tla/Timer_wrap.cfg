CONSTANTS
  p = p
  q = q
  t1 = t1
  t2 = t2
  t3 = t3
  Isr = Isr
  Timer <- MCTimers
  Owner <- MCOwner
  Width = 3
  Time = {1, 2}
  Lag = 1
  RestartsOneShot = FALSE
SPECIFICATION Spec
VIEW LiveState
INVARIANTS
  ListInOrder
  RunningAreListed
PROPERTIES
  OnTime
