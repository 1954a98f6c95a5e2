SPECIFICATION MCProvisionedSpec
CONSTANTS
  Subscriptions      <- MCOneSubscription
  SubscriptionStates = {"active"}
  Manifests          <- MCTwoEmbedded
  Standings          = {"open"}
  NoManifest         = NoManifest
  NoPayload          = NoPayload
  NoSnapshot         = NoSnapshot
  NoOne              = NoOne
  MaxVersion         = 2
  Callers            = {c1}
  Activations        = {}
  Workers            = {}
  Dispatchers        = {}
  Operators          = {}
  BatchSize          = 2
  MaxOrphans         = 0
INVARIANT PublishingKeepsAccess
