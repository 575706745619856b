SPECIFICATION FairSpec
CONSTANTS
  Chars = {c1, c2}
  Writable = {c1}
  WithDesc = {c1}
  Slots = 2
  MaxReqs = 3
  MaxNotes = 2
  CanClose = TRUE
INVARIANTS NoLateNotification SubscriptionHeld
PROPERTIES LoopGoesOn
CHECK_DEADLOCK FALSE
