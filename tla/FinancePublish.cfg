SPECIFICATION Spec
CONSTANTS
  Subscriptions      <- MCTwoSubscriptions
  SubscriptionStates = {"active"}
  Manifests          <- MCTwoManifests
  Standings          = {"open", "inactive"}
  NoManifest         = NoManifest
  NoPayload          = NoPayload
  NoSnapshot         = NoSnapshot
  NoOne              = NoOne
  MaxVersion         = 2
  Callers            = {c1, c2}
  Activations        = {}
  Workers            = {}
  Dispatchers        = {}
  Operators          = {}
  BatchSize          = 2
  MaxOrphans         = 0
INVARIANT ConsecutiveEventsDiffer
SYMMETRY MCCallerSymmetry
