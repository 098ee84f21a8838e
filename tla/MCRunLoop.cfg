CONSTANTS
  s1 = s1
  s2 = s2
  s3 = s3
  Shares = {s1, s2, s3}
  head_ = head
  Free = free
  MaxPushes = 5
SPECIFICATION Spec
INVARIANTS
  ListIsFifo
  NothingAfterReturn
  OutcomeIsDelivered
PROPERTIES
  SyncWaitEnds
