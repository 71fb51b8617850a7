CONSTANTS
  Requests = {r1, r2}
  MaxTouchContacts = 2
  MaxTargets = 2
SPECIFICATION Spec
INVARIANTS
  NoGhostTouch
  TargetSound
