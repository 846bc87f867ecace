SPECIFICATION MCSpec
CONSTANTS
  Sender = {s1, s2}
  Chan = {c1, c2}
  MaxSend = 1
  Buffer = 1
  Proc = {g1, g2, g3}
  p1 = p1
  p2 = p2
  p3 = p3
  p4 = p4
  kind = kind
INVARIANTS RemovalFindsCase Delivered MutualExclusion SubscriptionsSound
PROPERTIES SilentAfterUnsubscribe FeedReturns
