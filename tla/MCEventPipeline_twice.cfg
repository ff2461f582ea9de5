SPECIFICATION Spec
CONSTANTS
  Events = {e1}
  Notifying = {e1}
  Slots = {s1, s2}
  MaxAttempts = 2
  MaxStalls = 1
  Faults = TRUE
  Idle = Idle
  e1 = e1
  s1 = s1
  s2 = s2
INVARIANT NeverDeliveredTwice
