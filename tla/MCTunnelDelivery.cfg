SPECIFICATION FairSpec
CONSTANTS
  Requests = {r1}
  Tunnels = {t1, t2}
  Publics = {p1}
  NoSub = NoSub
  MaxSockets = 2
INVARIANTS WaitingHasTimer PendingIsServed
PROPERTIES SoleAnswerIsOwn DeliveriesSettleOnce EveryDeliverySettles
