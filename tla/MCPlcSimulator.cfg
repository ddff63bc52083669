SPECIFICATION Spec
CONSTANTS
  Delays = {1, 3}
  Ticks = {1, 2}
  MaxUid = 7
INVARIANTS TypeOK PendingAhead NoEventLost ExpiredExact
PROPERTIES RunsAtMostOnce TimeNeverGoesBack RunTerminates
