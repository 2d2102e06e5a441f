SPECIFICATION Spec
CONSTANTS
  Handler = {h1, h2}
  Key = {k}
  Value = {v}
  Missing = Missing
  MaxTime = 1
  MaxClock = 1
  Message = {m1, m2, m3}
  Unwritable = {m3}
  Unreadable = {m1}
  Delays = {1}
  Unset = Unset
  Step = {s1, s2}
  MaxAttempts = 2
  MaxEvents = 3
  MaxLength = 2
  MaxTime_ = 1
  MaxI32 = 1
  MaxRows = 3
  MaxPrepared = 3
  MaxSafe = 7
  MaxCalls = 4
  MaxSafeRange = 3
INVARIANTS TypeOK MessagesKeepFaith BodiesKeepFaith ArgumentsArrive
PROPERTIES EnginesKeepOrder
CHECK_DEADLOCK FALSE
