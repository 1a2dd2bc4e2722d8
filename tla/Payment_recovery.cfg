\* More pending attempts than a run loads; runs fail, miss pages, die with the
\* worker, and webhooks are lost.
SPECIFICATION FairRecSpec
CONSTANTS
  o1 = o1  o2 = o2
  Checkout = {o1, o2}
  PageSize = 1
  LatePayments = FALSE
  RecFaults = {"bulk", "pages", "store", "publish", "crash"}
  MaxRecFaults = 2
INVARIANTS RecTypeOK PaidNotAbandoned OrphansAreForeign 
PROPERTIES PaidIsRecovered EveryAttemptDecided
CHECK_DEADLOCK FALSE
