SPECIFICATION FairSpec
CONSTANTS
  Events = {e1}
  Notifying = {e1}
  Slots = {s1}
  MaxAttempts = 3
  MaxStalls = 1
  Faults = TRUE
  Idle = Idle
  e1 = e1
  s1 = s1
PROPERTIES EventsAreAudited NotificationsAreDelivered
