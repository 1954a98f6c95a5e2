SPECIFICATION MCProvisionedSpec
CONSTANTS
  Subscriptions      <- MCOneSubscription
  SubscriptionStates = {"active", "canceled"}
  Manifests          <- MCEmbeddedOnly
  Standings          = {"open"}
  NoManifest         = NoManifest
  NoPayload          = NoPayload
  NoSnapshot         = NoSnapshot
  NoOne              = NoOne
  MaxVersion         = 3
  Callers            = {a1}
  Activations        = {a1}
  Workers            = {w1}
  Dispatchers        = {w1, a1}
  Operators          = {}
  BatchSize          = 2
  MaxOrphans         = 0
PROPERTY NewestWins
