SPECIFICATION MCUnfailingSpec
CONSTANTS
  Subscriptions      <- MCTwoSubscriptions
  SubscriptionStates = {"active", "canceled"}
  Manifests          <- MCEmbeddedOnly
  Standings          = {"open", "inactive"}
  NoManifest         = NoManifest
  NoPayload          = NoPayload
  NoSnapshot         = NoSnapshot
  NoOne              = NoOne
  MaxVersion         = 3
  Callers            = {c1, c2}
  Activations        = {}
  Workers            = {}
  Dispatchers        = {}
  Operators          = {}
  BatchSize          = 2
  MaxOrphans         = 0
INVARIANT NewestEventIsCurrent
CHECK_DEADLOCK FALSE
