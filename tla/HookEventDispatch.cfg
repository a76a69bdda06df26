CONSTANTS
  Events = {pre, post, both}
  Prefixed = {pre, both}
  Postfixed = {post, both}
  NoEvent = NoEvent
  Capacity = 3
SPECIFICATION Spec
INVARIANTS
  OnlyLiveEventsAreReachable
  PostfixesAreComplete
  OrigHasEveryConsent
PROPERTY DispatchEnds
