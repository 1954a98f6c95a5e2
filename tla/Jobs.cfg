SPECIFICATION JobsSpec
CONSTANTS
  a = a
  b = b
  SyncRuns       = {1, 2}
  NoRun          = 0
  MaxUserActs    = 1
  LocalIds       = {1, 2}
  RemoteIds      = {1, 2}
  MappingIds     = {1, 2}
  Contents       = {a, b}
  Unused         = Unused
  Gone           = Gone
  NotRead        = NotRead
  MaxEdits       = 2
  MaxTick        = 4
  AppRuns        = {1, 2}
  Requests       = {q1, q2}
  NoAppRun       = 0
  MaxAppRevision = 2
  MaxClaims      = 2
  Notices        = {1, 2, 3}
  Recurring      = {3}
  Notifiers      = {1, 2}
  LastTime       = 2
  Window         = 1
  DueLimit       = 1
  BatchLimit     = 1
  MaxAttempts    = 2
  MaxNoticeActs  = 1
  MaxFaults      = 1
  Billers        = {1, 2}
  Clerks         = {1}
  Never          = Never
  Cadence        = 2
  Lead           = 1
  CycleLimits    = {2, Never}
  LastDay        = 3
  MaxClerkActs   = 1
  MaxBillFaults  = 1
INVARIANTS
  LeaseTypeOK SyncTypeOK WorksUnderLease CursorCovers QuietSyncConverges
  RunsTypeOK StepFollowsRun OneRunPerRevision
  OutboxTypeOK DeliveredOnce AttemptsBounded
PROPERTIES
  NoBlindOverwrite RunLifeCycle StaleRunsExpire SentWasNotified DueIsNotified BillingCatchesUp
CHECK_DEADLOCK FALSE
