\* A client, a listener strand and an executor thread share the observers.
CONSTANTS
  Clients = {c1}
  Strands = {l1}
  Workers = {w1}
  Handles = {h1, h2}
  NoOne = none
  MaxCalls = 4
SPECIFICATION FairSpec
INVARIANTS EntriesOwned CallbacksSerialized NotificationComplete AnnouncedOnce
PROPERTIES EveryCallReturns
CHECK_DEADLOCK FALSE
