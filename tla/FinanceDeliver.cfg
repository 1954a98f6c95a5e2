SPECIFICATION Spec
CONSTANTS
  Subscriptions      <- MCOneSubscription
  SubscriptionStates = {"active", "unborn"}
  Manifests          <- MCTwoEmbedded
  Standings          = {"open"}
  NoManifest         = NoManifest
  NoPayload          = NoPayload
  NoSnapshot         = NoSnapshot
  NoOne              = NoOne
  MaxVersion         = 2
  Callers            = {a1}
  Activations        = {a1}
  Workers            = {w1}
  Dispatchers        = {w1, a1}
  Operators          = {o1}
  BatchSize          = 2
  MaxOrphans         = 0
INVARIANTS TypeOK SucceededRunWasTaken IInv
PROPERTY KeepsContract
CHECK_DEADLOCK FALSE
