SPECIFICATION Spec
CONSTANTS
  Subscriptions      <- MCOneSubscription
  SubscriptionStates = {"active", "canceled"}
  Manifests          <- MCEmbeddedOnly
  Standings          = {"open"}
  NoManifest         = NoManifest
  NoPayload          = NoPayload
  NoSnapshot         = NoSnapshot
  NoOne              = NoOne
  MaxVersion         = 2
  Callers            = {c1}
  Activations        = {}
  Workers            = {w1}
  Dispatchers        = {w1}
  Operators          = {}
  BatchSize          = 2
  MaxOrphans         = 0
INVARIANT DeliveredRunSucceeded
