---------------------- MODULE FinanceProvisioningProofs ----------------------
(***************************************************************************)
(* The safety of the finance provisioning plane, for every number of       *)
(* callers, workers, operators, subscriptions, manifests and versions.     *)
(* After lemmas about the operators of the modules, IInv is shown to be    *)
(* inductive: first the steps of the callers, then those of the            *)
(* dispatchers, of Billing and of the operators.  It gives the refinement  *)
(* of DeliveryContract.  Last comes what holds when the transactions of    *)
(* Billing do not overlap: versions never go back.                         *)
(***************************************************************************)
EXTENDS FinanceProvisioning, FiniteSetTheorems, WellFoundedInduction, TLAPS

-----------------------------------------------------------------------------
(* The operators the finance modules are built from *)

(* A nonempty set of numbers has a least one. *)
LEMMA LeastExists ==
  ASSUME NEW S \in SUBSET Nat, S # {}
  PROVE  \E x \in S : \A y \in S : x <= y
<1>1. PICK x \in S : \A y \in S : <<y, x>> \notin OpToRel(<, Nat)
  BY WFMin, NatLessThanWellFounded, Zenon
<1>2. \A y \in S : ~(y < x)
  BY <1>1, Zenon DEF OpToRel
<1>3. \A y \in S : x <= y
  BY <1>2
<1> QED BY <1>3

(* The "first row, by id" of a nonempty set of rows is one of them.          *)
LEMMA FirstIsMember ==
  ASSUME NEW S \in SUBSET Nat, S # {}
  PROVE  First(S) \in S
BY LeastExists, Zenon DEF First

(* The latest version is 0 exactly when no event exists; otherwise its row  *)
(* exists and no later one does.                                            *)
LEMMA LatestIsLast ==
  /\ Latest \in Versions \cup {0}
  /\ Latest # 0 => Published(Latest)
  /\ \A v \in Versions : Published(v) => v <= Latest
<1> DEFINE P == {v \in Versions : Published(v)}
           D == {MaxVersion - v : v \in P}
<1>1. CASE P = {}
  BY <1>1 DEF Latest
<1>2. CASE P # {}
  <2>1. D \in SUBSET Nat /\ D # {}
    BY <1>2, MaxVersionAssumption DEF Versions
  <2>2. PICK d \in D : \A e \in D : d <= e
    BY <2>1, LeastExists, Zenon
  <2>3. PICK m \in P : d = MaxVersion - m
    BY <2>2
  <2>4. \A v \in P : v <= m
    <3>1. \A v \in P : d <= MaxVersion - v
      BY <2>2
    <3>2. m \in Nat /\ MaxVersion \in Nat /\ P \subseteq Nat
      BY MaxVersionAssumption DEF Versions
    <3> HIDE DEF P
    <3> QED BY <3>1, <3>2, <2>3
  <2>5. \E v \in Versions :
          Published(v) /\ \A u \in Versions : Published(u) => u <= v
    BY <2>4
  <2>6. /\ Latest \in Versions
        /\ Published(Latest) /\ \A u \in Versions : Published(u) => u <= Latest
    BY <2>5, Zenon DEF Latest
  <2> QED BY <2>6
<1> QED BY <1>1, <1>2

-----------------------------------------------------------------------------
(* The desired state is a payload, whatever Core's tables say, as long as   *)
(* the pair has a subscription where one is needed.                         *)

LEMMA EffectiveStateType ==
  ASSUME NEW subscriptions, Rows(subscriptions) # {}
  PROVE  EffectiveSubscriptionState(subscriptions)
           \in [status : ConnectionStatus, reference : Subscriptions]
<1> DEFINE rows   == Rows(subscriptions)
           active == {s \in rows : subscriptions[s] \in ACTIVE_SUBSCRIPTION_STATES}
           live   == {s \in rows : subscriptions[s] \notin REVOKED_SUBSCRIPTION_STATES}
<1>1. rows \subseteq Subscriptions /\ rows \in SUBSET Nat
  BY SubscriptionsAssumption DEF Rows
<1>2. active # {} => First(active) \in Subscriptions
  BY <1>1, FirstIsMember
<1>3. live # {} => First(live) \in Subscriptions
  BY <1>1, FirstIsMember
<1>4. First(rows) \in Subscriptions
  BY <1>1, FirstIsMember
<1>5. EffectiveSubscriptionState(subscriptions) =
        CASE active # {} -> [status |-> "ACTIVE", reference |-> First(active)]
          [] active = {} /\ live # {} ->
               [status |-> "SUSPENDED", reference |-> First(live)]
          [] OTHER -> [status |-> "REVOKED", reference |-> First(rows)]
  BY Zenon DEF EffectiveSubscriptionState
<1> HIDE DEF rows, active, live
<1> QED
  BY <1>2, <1>3, <1>4, <1>5 DEF ConnectionStatus

LEMMA GrantedPayloadType ==
  ASSUME NEW snap \in Snapshot, NeedsFinance(snap.manifest), Derivable(snap)
  PROVE  GrantedPayload(snap) \in Payload
<1> DEFINE state == EffectiveSubscriptionState(snap.subs)
<1>1. state \in [status : ConnectionStatus, reference : Subscriptions]
  BY EffectiveStateType DEF Derivable
<1>2. OverriddenStatus(state.status, snap.standing) \in ConnectionStatus
  BY <1>1, StandingsAssumption DEF OverriddenStatus, ConnectionStatus, Snapshot
<1>3. snap.manifest \in Manifests
  BY DEF Snapshot, NeedsFinance
<1> QED
  BY <1>1, <1>2, <1>3 DEF GrantedPayload, Payload

LEMMA DesiredPayloadType ==
  ASSUME NEW snap \in Snapshot, Derivable(snap), NEW last \in Payload
  PROVE  DesiredPayload(snap, last) \in Payload
<1>1. CASE NeedsFinance(snap.manifest)
  BY <1>1, GrantedPayloadType DEF DesiredPayload
<1>2. CASE ~NeedsFinance(snap.manifest)
  <2>1. snap.manifest \in Manifests \cup {NoManifest}
    BY DEF Snapshot
  <2>2. RevokingPayload(snap, last) \in Payload
    BY <2>1 DEF RevokingPayload, Payload, ConnectionStatus
  <2> QED BY <1>2, <2>2 DEF DesiredPayload
<1> QED BY <1>1, <1>2

-----------------------------------------------------------------------------
(* The invariant *)

(* IInv in two halves: what the callers hold, and the plane they share;     *)
(* ActivationsInTurn ties them together.                                    *)
CallerInv == EnqueueTypeOK /\ CallersAreGrounded /\ ReadyWasTaken

PlaneTypeOK == OutboxTypeOK /\ BillingTypeOK /\ DispatchTypeOK

RowsInv == HistoryIsComplete /\ RunsHaveRows /\ RetriesHaveRows /\ ConsecutiveEventsDiffer

TrafficInv ==
  /\ BatchesHaveRows
  /\ RequestsCarryEvents
  /\ RequestsAreCurrent
  /\ RepliesAreProof
  /\ ConnectionHasReceipt
  /\ ConnectionIsAsPublished

SettledInv == DeliveredWasTaken /\ SucceededRunWasTaken

PlaneInv == PlaneTypeOK /\ RowsInv /\ TrafficInv /\ SettledInv

LEMMA IInvHalves == IInv <=> CallerInv /\ PlaneInv /\ ActivationsInTurn
BY DEF IInv, TypeOK, CallerInv, PlaneInv, PlaneTypeOK, RowsInv, TrafficInv, SettledInv

(* What every step leaves as it is: published payloads and receipts.        *)
HistoryGrows ==
  \A v \in Versions : Published(v) =>
    /\ outbox'[v].status # "absent"
    /\ outbox'[v].payload = outbox[v].payload

InboxGrows == \A v \in Versions : inbox[v] # "none" => inbox'[v] = inbox[v]

LEMMA InitInvariant == Init => IInv
<1> SUFFICES ASSUME Init PROVE IInv
  OBVIOUS
<1> USE DEF Init, EnqueueInit, OutboxInit, BillingInit, DispatchInit
<1>1. CallerInv
  <2>1. EnqueueTypeOK
    BY StandingsAssumption, MaxVersionAssumption
       DEF EnqueueTypeOK, IdleCaller, Caller, CallerSteps
  <2>2. CallersAreGrounded /\ ReadyWasTaken
    BY DEF CallersAreGrounded, Grounded, ReadyWasTaken, IdleCaller
  <2> QED BY <2>1, <2>2 DEF CallerInv
<1>2. PlaneTypeOK
  BY MaxVersionAssumption
     DEF PlaneTypeOK, OutboxTypeOK, BillingTypeOK, DispatchTypeOK, AbsentRow, Row,
         RowStatus, RunStatus, RetryStep, NoRetry, NoConnection, Connection, NoReply,
         Reply, IdleDispatch, Dispatch
<1>3. RowsInv
  BY DEF RowsInv, HistoryIsComplete, RunsHaveRows, RetriesHaveRows,
         ConsecutiveEventsDiffer, Published, AbsentRow, NoRetry
<1>4. TrafficInv
  BY DEF TrafficInv, BatchesHaveRows, RequestsCarryEvents, RequestsAreCurrent,
         RepliesAreProof, ConnectionHasReceipt, ConnectionIsAsPublished,
         IdleDispatch, NoReply, NoConnection
<1>5. SettledInv
  BY DEF SettledInv, DeliveredWasTaken, SucceededRunWasTaken, AbsentRow
<1>6. ActivationsInTurn
  BY DispatchersAssumption DEF ActivationsInTurn, IdleDispatch
<1> QED BY <1>1, <1>2, <1>3, <1>4, <1>5, <1>6, IInvHalves DEF PlaneInv

(* A step of somebody else does not disturb a caller.                       *)
LEMMA CallersUndisturbed ==
  ASSUME CallerInv, UNCHANGED enqueueVars, HistoryGrows, InboxGrows
  PROVE  CallerInv'
<1>1. EnqueueTypeOK'
  BY DEF CallerInv, EnqueueTypeOK, enqueueVars
<1>2. CallersAreGrounded'
  <2> SUFFICES ASSUME NEW c \in Callers
               PROVE  Grounded(caller[c])'
    BY DEF CallersAreGrounded
  <2>1. Grounded(caller[c]) /\ caller[c] \in Caller /\ caller'[c] = caller[c]
    BY DEF CallerInv, EnqueueTypeOK, CallersAreGrounded, enqueueVars
  <2>2. \A v \in Versions : Published(v) => Published(v)'
    BY DEF HistoryGrows, Published
  <2>3. ASSUME caller[c].pc \in {"stamp", "create"}, caller[c].version > 1
        PROVE  outbox'[caller[c].version - 1].payload # caller[c].payload
    <3>1. /\ caller[c].version - 1 \in Versions
          /\ caller[c].version - 1 < caller[c].version
      BY <2>1, <2>3, MaxVersionAssumption DEF Caller, Versions
    <3> QED BY <3>1, <2>1, <2>3 DEF HistoryGrows, Grounded
  <2> QED BY <2>1, <2>2, <2>3 DEF Grounded, Caller
<1>3. ReadyWasTaken'
  BY DEF CallerInv, EnqueueTypeOK, ReadyWasTaken, Caller, enqueueVars, InboxGrows
<1> QED BY <1>1, <1>2, <1>3 DEF CallerInv

(* A step on the callers' side alone does not disturb the plane.            *)
LEMMA PlaneUndisturbed ==
  ASSUME PlaneInv, UNCHANGED <<outboxVars, billingVars, dispatch>>
  PROVE  PlaneInv'
<1> USE DEF outboxVars, billingVars
<1>1. PlaneTypeOK'
  BY DEF PlaneInv, PlaneTypeOK, OutboxTypeOK, BillingTypeOK, DispatchTypeOK
<1>2. RowsInv'
  BY DEF PlaneInv, RowsInv, HistoryIsComplete, RunsHaveRows, RetriesHaveRows,
         ConsecutiveEventsDiffer, Published
<1>3. TrafficInv'
  BY DEF PlaneInv, TrafficInv, BatchesHaveRows, RequestsCarryEvents,
         RequestsAreCurrent, RepliesAreProof, ConnectionHasReceipt,
         ConnectionIsAsPublished, Published
<1>4. SettledInv'
  BY DEF PlaneInv, SettledInv, DeliveredWasTaken, SucceededRunWasTaken
<1> QED BY <1>1, <1>2, <1>3, <1>4 DEF PlaneInv

-----------------------------------------------------------------------------
(* The callers *)

CoreTypeOK ==
  /\ subs       \in [Subscriptions -> SubscriptionStates]
  /\ subVersion \in [Subscriptions -> 0 .. MaxVersion]
  /\ standing   \in Standings
  /\ manifest   \in Manifests \cup {NoManifest}
  /\ archived   \subseteq Manifests
  /\ appRuns    \subseteq Subscriptions \X {m.revision : m \in Manifests}

Ready(me) == me.pc = "ready" =>
  me.events # {} /\ \A v \in me.events : inbox[v] # "none"

(* A step of c keeps the callers' half when it leaves c in order.           *)
LEMMA CallerStep ==
  ASSUME CallerInv, NEW c \in Callers, HistoryGrows, InboxGrows, CoreTypeOK',
         caller' = [caller EXCEPT ![c] = caller'[c]],
         caller'[c] \in Caller, Grounded(caller[c])', Ready(caller[c])'
  PROVE  CallerInv'
<1>1. EnqueueTypeOK'
  BY DEF CallerInv, EnqueueTypeOK, CoreTypeOK
<1>2. \A b \in Callers \ {c} : caller'[b] = caller[b] /\ caller[b] \in Caller
  BY DEF CallerInv, EnqueueTypeOK
<1>3. CallersAreGrounded'
  <2> SUFFICES ASSUME NEW b \in Callers, b # c
               PROVE  Grounded(caller[b])'
    BY DEF CallersAreGrounded
  <2>1. Grounded(caller[b]) /\ caller[b] \in Caller /\ caller'[b] = caller[b]
    BY <1>2 DEF CallerInv, CallersAreGrounded
  <2>2. \A v \in Versions : Published(v) => Published(v)'
    BY DEF HistoryGrows, Published
  <2>3. ASSUME caller[b].pc \in {"stamp", "create"}, caller[b].version > 1
        PROVE  outbox'[caller[b].version - 1].payload # caller[b].payload
    <3>1. /\ caller[b].version - 1 \in Versions
          /\ caller[b].version - 1 < caller[b].version
      BY <2>1, <2>3, MaxVersionAssumption DEF Caller, Versions
    <3> QED BY <3>1, <2>1, <2>3 DEF HistoryGrows, Grounded
  <2> QED BY <2>1, <2>2, <2>3 DEF Grounded, Caller
<1>4. ReadyWasTaken'
  <2> SUFFICES ASSUME NEW b \in Callers, caller'[b].pc = "ready"
               PROVE  /\ caller'[b].events # {}
                      /\ \A v \in caller'[b].events : inbox'[v] # "none"
    BY DEF ReadyWasTaken
  <2>1. CASE b = c
    BY <2>1 DEF Ready
  <2>2. CASE b # c
    BY <1>2, <2>2 DEF CallerInv, ReadyWasTaken, InboxGrows, Caller
  <2> QED BY <2>1, <2>2
<1> QED BY <1>1, <1>3, <1>4 DEF CallerInv

LEMMA NothingChanges ==
  ASSUME UNCHANGED <<outboxVars, billingVars, dispatch>>
  PROVE  HistoryGrows /\ InboxGrows
BY DEF outboxVars, billingVars, HistoryGrows, InboxGrows, Published

LEMMA IdleKeeps ==
  ASSUME CallerInv, NEW c \in Callers, caller' = [caller EXCEPT ![c] = IdleCaller]
  PROVE  /\ caller' = [caller EXCEPT ![c] = caller'[c]]
         /\ caller'[c] \in Caller /\ Grounded(caller[c])' /\ Ready(caller[c])'
BY DEF CallerInv, EnqueueTypeOK, IdleCaller, Caller, CallerSteps, Grounded, Ready

LEMMA StartKeeps ==
  ASSUME CallerInv, NEW c \in Callers, StartReconcile(c)
  PROVE  /\ caller' = [caller EXCEPT ![c] = caller'[c]]
         /\ caller'[c] \in Caller /\ Grounded(caller[c])' /\ Ready(caller[c])'
<1>1. CASE Rows(subs) = {}
  <2>1. caller' = [caller EXCEPT ![c] = IdleCaller]
    BY <1>1 DEF StartReconcile
  <2> QED BY <2>1, IdleKeeps
<1>2. CASE Rows(subs) # {}
  <2>1. caller'[c] = [IdleCaller EXCEPT !.pc = "row", !.todo = Rows(subs)]
    BY <1>2 DEF StartReconcile, CallerInv, EnqueueTypeOK
  <2>2. Rows(subs) \subseteq Subscriptions
    BY DEF Rows
  <2> QED
    BY <1>2, <2>1, <2>2
       DEF StartReconcile, CallerInv, EnqueueTypeOK, IdleCaller, Caller, CallerSteps,
           Grounded, Ready
<1> QED BY <1>1, <1>2

LEMMA RowDoneKeeps ==
  ASSUME CallerInv, NEW c \in Callers, NEW events \in SUBSET Versions,
         RowDone(c, events)
  PROVE  /\ caller' = [caller EXCEPT ![c] = caller'[c]]
         /\ caller'[c] \in Caller /\ Grounded(caller[c])' /\ Ready(caller[c])'
<1> DEFINE todo == caller[c].todo \ {First(caller[c].todo)}
           all  == caller[c].events \cup events
<1>1. caller[c] \in Caller /\ caller \in [Callers -> Caller]
  BY DEF CallerInv, EnqueueTypeOK
<1>2. todo \in SUBSET Subscriptions /\ all \in SUBSET Versions
  BY <1>1 DEF Caller
<1>3. CASE todo # {}
  <2>1. caller' = [caller EXCEPT ![c] = [IdleCaller EXCEPT
                     !.pc = "row", !.todo = todo, !.events = all]]
    BY <1>3 DEF RowDone
  <2> HIDE DEF todo, all
  <2> QED
    BY <1>1, <1>2, <1>3, <2>1 DEF IdleCaller, Caller, CallerSteps, Grounded, Ready
<1>4. CASE todo = {} /\ c \in Activations /\ all # {}
  <2>1. caller' = [caller EXCEPT ![c] =
                     [IdleCaller EXCEPT !.pc = "claim", !.events = all]]
    BY <1>4 DEF RowDone
  <2> HIDE DEF todo, all
  <2> QED
    BY <1>1, <1>2, <1>4, <2>1 DEF IdleCaller, Caller, CallerSteps, Grounded, Ready
<1>5. CASE todo = {} /\ ~(c \in Activations /\ all # {})
  <2>1. caller' = [caller EXCEPT ![c] = IdleCaller]
    BY <1>5 DEF RowDone
  <2> QED BY <2>1, IdleKeeps
<1> QED BY <1>3, <1>4, <1>5

(* The steps of a caller that leave the plane alone.                        *)
LEMMA QuietStepKeeps ==
  ASSUME IInv, NEW c \in Callers, QuietStep(c),
         UNCHANGED <<outboxVars, billingVars, dispatch>>
  PROVE  CallerInv'
<1> USE DEF outboxVars, billingVars
<1>1. CallerInv /\ HistoryGrows /\ InboxGrows
  BY IInvHalves, NothingChanges
<1>2. caller[c] \in Caller /\ Grounded(caller[c]) /\ caller \in [Callers -> Caller]
  BY <1>1 DEF CallerInv, EnqueueTypeOK, CallersAreGrounded
<1>3. PlaneTypeOK /\ HistoryIsComplete
  BY IInvHalves DEF PlaneInv, RowsInv
<1>4. CoreTypeOK
  BY <1>1 DEF CallerInv, EnqueueTypeOK, CoreTypeOK
<1>5. CASE Reconcile(c)
  <2>1. StartReconcile(c) /\ CoreTypeOK'
    BY <1>4, <1>5 DEF Reconcile, CoreTypeOK
  <2> QED BY <1>1, <2>1, StartKeeps, CallerStep
<1>6. CASE UpdateOrganizationStatus(c)
  <2>1. StartReconcile(c) /\ CoreTypeOK'
    BY <1>4, <1>6 DEF UpdateOrganizationStatus, CoreTypeOK
  <2> QED BY <1>1, <2>1, StartKeeps, CallerStep
<1>7. CASE Activate(c)
  <2>1. StartReconcile(c) /\ CoreTypeOK'
    BY <1>4, <1>7 DEF Activate, CoreTypeOK
  <2> QED BY <1>1, <2>1, StartKeeps, CallerStep
<1>8. CASE ReadStanding(c)
  <2>1. CoreTypeOK' /\ caller[c].pc = "row"
    BY <1>4, <1>8 DEF ReadStanding, CoreTypeOK
  <2>2. CASE First(caller[c].todo) \notin Rows(subs)
    <3>1. RowDone(c, {})
      BY <1>8, <2>2 DEF ReadStanding
    <3> QED BY <1>1, <2>1, <3>1, RowDoneKeeps, CallerStep
  <2>3. CASE First(caller[c].todo) \in Rows(subs)
    <3> DEFINE snap == [subs     |-> [s \in Subscriptions |-> "unborn"],
                        standing |-> standing,
                        manifest |-> NoManifest]
    <3>1. snap \in Snapshot /\ snap # NoSnapshot
      BY <1>4, NoSnapshotAssumption DEF CoreTypeOK, Snapshot
    <3>2. caller' = [caller EXCEPT ![c] =
                       [caller[c] EXCEPT !.pc = "manifest", !.snap = snap]]
      BY <1>2, <1>8, <2>3 DEF ReadStanding, Caller
    <3>3. caller[c].todo # {}
      BY <1>2, <2>1 DEF Grounded
    <3> HIDE DEF snap
    <3>4. /\ caller' = [caller EXCEPT ![c] = caller'[c]]
          /\ caller'[c] \in Caller
      BY <1>2, <3>1, <3>2 DEF Caller, CallerSteps
    <3>5. Grounded(caller[c])' /\ Ready(caller[c])'
      BY <1>2, <3>1, <3>2, <3>3 DEF Caller, Grounded, Ready
    <3> QED BY <1>1, <2>1, <3>4, <3>5, CallerStep
  <2> QED BY <2>2, <2>3
<1>9. CASE ReadManifest(c)
  <2>1. CoreTypeOK' /\ caller[c].pc = "manifest"
    BY <1>4, <1>9 DEF ReadManifest, CoreTypeOK
  <2>2. CASE c \in Activations /\ ~NeedsFinance(manifest)
    <3>1. caller' = [caller EXCEPT ![c] = IdleCaller]
      BY <1>9, <2>2 DEF ReadManifest
    <3> QED BY <1>1, <2>1, <3>1, IdleKeeps, CallerStep
  <2>3. CASE ~(c \in Activations /\ ~NeedsFinance(manifest))
    <3> DEFINE snap == [caller[c].snap EXCEPT !.manifest = manifest]
    <3>1. caller[c].snap \in Snapshot /\ caller[c].todo # {}
      BY <1>2, <2>1 DEF Grounded, Caller
    <3>2. snap \in Snapshot /\ snap # NoSnapshot
      BY <1>4, <3>1, NoSnapshotAssumption DEF CoreTypeOK, Snapshot
    <3>3. caller' = [caller EXCEPT ![c] =
                       [caller[c] EXCEPT !.pc = "subs", !.snap = snap]]
      BY <1>2, <1>9, <2>3 DEF ReadManifest, Caller
    <3> HIDE DEF snap
    <3>4. /\ caller' = [caller EXCEPT ![c] = caller'[c]]
          /\ caller'[c] \in Caller
      BY <1>2, <3>2, <3>3 DEF Caller, CallerSteps
    <3>5. Grounded(caller[c])' /\ Ready(caller[c])'
      BY <1>2, <3>1, <3>2, <3>3 DEF Caller, Grounded, Ready
    <3> QED BY <1>1, <2>1, <3>4, <3>5, CallerStep
  <2> QED BY <2>2, <2>3
<1>10. CASE ReadSubscriptions(c)
  <2> DEFINE snap == [caller[c].snap EXCEPT !.subs = subs]
  <2>1. CoreTypeOK' /\ caller[c].pc = "subs"
    BY <1>4, <1>10 DEF ReadSubscriptions, CoreTypeOK
  <2>2. caller[c].snap \in Snapshot /\ caller[c].todo # {}
    BY <1>2, <2>1 DEF Grounded, Caller
  <2>3. snap \in Snapshot /\ snap # NoSnapshot
    <3>1. subs \in [Subscriptions -> SubscriptionStates \cup {"unborn"}]
      BY <1>4 DEF CoreTypeOK
    <3> QED BY <2>2, <3>1, NoSnapshotAssumption DEF Snapshot
  <2>4. caller' = [caller EXCEPT ![c] =
                     [caller[c] EXCEPT !.pc = "latest", !.snap = snap]]
    BY <1>2, <1>10 DEF ReadSubscriptions, Caller
  <2> HIDE DEF snap
  <2>5. /\ caller' = [caller EXCEPT ![c] = caller'[c]]
        /\ caller'[c] \in Caller
    BY <1>2, <2>3, <2>4 DEF Caller, CallerSteps
  <2>6. Grounded(caller[c])' /\ Ready(caller[c])'
    BY <1>2, <2>2, <2>3, <2>4 DEF Caller, Grounded, Ready
  <2> QED BY <1>1, <2>1, <2>5, <2>6, CallerStep
<1>11. CASE NothingToGrant(c)
  <2>1. caller[c].snap \in Snapshot /\ caller[c].todo # {} /\ caller[c].todo \subseteq Subscriptions
    BY <1>2, <1>11 DEF NothingToGrant, Grounded, Caller
  <2>2. First(caller[c].todo) \in Subscriptions
    BY <2>1, FirstIsMember, SubscriptionsAssumption
  <2>3. CoreTypeOK'
    BY <1>4, <1>11, <2>1, <2>2
       DEF NothingToGrant, CreateRunForApplication, CoreTypeOK, Snapshot
  <2>4. RowDone(c, {})
    BY <1>11 DEF NothingToGrant
  <2> QED BY <1>1, <2>3, <2>4, RowDoneKeeps, CallerStep
<1>12. CASE AlreadyPublished(c)
  <2>1. CoreTypeOK'
    BY <1>4, <1>12 DEF AlreadyPublished, CoreTypeOK
  <2>2. Latest \in Versions /\ Published(Latest)
    BY <1>12, LatestIsLast DEF AlreadyPublished
  <2>3. CASE outbox[Latest].linked
    <3>1. RowDone(c, {Latest})
      BY <1>12, <2>3 DEF AlreadyPublished
    <3> QED BY <1>1, <2>1, <2>2, <3>1, RowDoneKeeps, CallerStep
  <2>4. CASE ~outbox[Latest].linked
    <3>0. PICK v \in Versions : v = Latest
      BY <2>2
    <3>1. caller' = [caller EXCEPT ![c] = [caller[c] EXCEPT
                       !.pc = "run", !.version = v, !.snap = NoSnapshot]]
      BY <1>2, <1>12, <2>4, <3>0 DEF AlreadyPublished, Caller
    <3>2. caller[c].todo # {}
      BY <1>2, <1>12 DEF AlreadyPublished, Grounded
    <3>3. v # 0 /\ Published(v)'
      BY <2>2, <3>0, MaxVersionAssumption DEF Published, Versions
    <3>4. /\ caller' = [caller EXCEPT ![c] = caller'[c]]
          /\ caller'[c] \in Caller
      BY <1>2, <3>1, <3>3 DEF Caller, CallerSteps
    <3>5. Grounded(caller[c])' /\ Ready(caller[c])'
      BY <1>2, <3>1, <3>2, <3>3 DEF Caller, Grounded, Ready, Published
    <3> QED BY <1>1, <2>1, <3>4, <3>5, CallerStep
  <2> QED BY <2>3, <2>4
<1>13. CASE DecideNewEvent(c)
  <2> DEFINE new == IF Latest = 0 THEN GrantedPayload(caller[c].snap)
                    ELSE DesiredPayload(caller[c].snap, outbox[Latest].payload)
  <2>13. PICK v \in Versions \cup {0} : v = Latest
    BY LatestIsLast
  <2>14. PICK p : p = new
    OBVIOUS
  <2>1. CoreTypeOK'
    BY <1>4, <1>13 DEF DecideNewEvent, CoreTypeOK
  <2>2. /\ caller[c].snap \in Snapshot /\ caller[c].snap # NoSnapshot
        /\ caller[c].todo # {} /\ Derivable(caller[c].snap)
    BY <1>2, <1>13 DEF DecideNewEvent, Grounded, Caller
  <2>3. v \in 0 .. MaxVersion /\ v < MaxVersion
    BY <1>13, <2>13, MaxVersionAssumption DEF DecideNewEvent, Versions
  <2>4. ASSUME v = 0 PROVE p \in Payload
    BY <1>13, <2>2, <2>4, <2>13, <2>14, GrantedPayloadType DEF DecideNewEvent
  <2>5. ASSUME v # 0 PROVE p \in Payload /\ p # outbox[v].payload
    <3>1. v \in Versions /\ Published(v)
      BY <2>5, <2>13, LatestIsLast
    <3>2. outbox[v].payload \in Payload
      BY <1>3, <3>1 DEF PlaneTypeOK, OutboxTypeOK, Row, HistoryIsComplete
    <3>3. p = DesiredPayload(caller[c].snap, outbox[v].payload)
      BY <2>5, <2>13, <2>14
    <3>4. p \in Payload
      BY <2>2, <3>2, <3>3, DesiredPayloadType
    <3>5. p # outbox[v].payload
      BY <1>13, <2>5, <2>13, <3>3 DEF DecideNewEvent, Matches
    <3> QED BY <3>4, <3>5
  <2>6. p \in Payload /\ p # NoPayload
    BY <2>4, <2>5, NoPayloadAssumption
  <2>7. \A u \in Versions : u < v + 1 => Published(u)
    BY <1>3, <2>3, <2>13, LatestIsLast, MaxVersionAssumption DEF HistoryIsComplete, Versions
  <2>8. v + 1 > 1 => outbox[v].payload # p
    BY <2>3, <2>5
  <2>9. caller' = [caller EXCEPT ![c] = [caller[c] EXCEPT
                     !.pc = "stamp", !.version = v + 1, !.payload = p]]
    BY <1>2, <1>13, <2>13, <2>14 DEF DecideNewEvent, Caller
  <2>10. v + 1 \in Versions /\ v + 1 # 0 /\ (v + 1) - 1 = v
    BY <2>3, MaxVersionAssumption DEF Versions
  <2>11. /\ caller' = [caller EXCEPT ![c] = caller'[c]]
         /\ caller'[c] \in Caller
    BY <1>2, <2>6, <2>9, <2>10 DEF Caller, CallerSteps
  <2>12. Grounded(caller[c])' /\ Ready(caller[c])'
    BY <1>2, <2>2, <2>6, <2>7, <2>8, <2>9, <2>10 DEF Caller, Grounded, Ready, Published
  <2> QED BY <1>1, <2>1, <2>11, <2>12, CallerStep
<1>14. CASE StampSubscriptions(c)
  <2>1. CoreTypeOK'
    BY <1>2, <1>4, <1>14, MaxVersionAssumption
       DEF StampSubscriptions, CoreTypeOK, Caller, Versions
  <2>2. caller' = [caller EXCEPT ![c] = [caller[c] EXCEPT
                     !.pc = "create", !.snap = NoSnapshot]]
    BY <1>2, <1>14 DEF StampSubscriptions, Caller
  <2>3. caller[c].pc = "stamp"
    BY <1>14 DEF StampSubscriptions
  <2>4. /\ caller' = [caller EXCEPT ![c] = caller'[c]]
        /\ caller'[c] \in Caller
    BY <1>2, <2>2 DEF Caller, CallerSteps
  <2>5. Grounded(caller[c])' /\ Ready(caller[c])'
    BY <1>2, <2>2, <2>3 DEF Caller, Grounded, Ready, Published
  <2> QED BY <1>1, <2>1, <2>4, <2>5, CallerStep
<1>15. CASE EnqueueAborts(c)
  <2>1. CoreTypeOK' /\ caller' = [caller EXCEPT ![c] = IdleCaller]
    BY <1>4, <1>15 DEF EnqueueAborts, CoreTypeOK
  <2> QED BY <1>1, <2>1, IdleKeeps, CallerStep
<1> QED
  BY <1>5, <1>6, <1>7, <1>8, <1>11, <1>12, <1>13, <1>14, <1>15, <1>9,
     <1>10 DEF QuietStep

-----------------------------------------------------------------------------
(* The rows *)

(* A step that only adds to the history leaves what travels alone.          *)
LEMMA TrafficUndisturbed ==
  ASSUME PlaneInv, HistoryGrows, UNCHANGED <<billingVars, dispatch>>
  PROVE  TrafficInv'
<1> USE DEF billingVars
<1>1. BillingTypeOK /\ DispatchTypeOK /\ TrafficInv /\ HistoryIsComplete
  BY DEF PlaneInv, PlaneTypeOK, RowsInv
<1>2. \A v \in Versions : Published(v) =>
        Published(v)' /\ outbox'[v].payload = outbox[v].payload
  BY DEF HistoryGrows, Published
<1>3. BatchesHaveRows'
  BY <1>1, <1>2 DEF TrafficInv, BatchesHaveRows, DispatchTypeOK, Dispatch
<1>4. RequestsCarryEvents'
  BY <1>1, <1>2 DEF TrafficInv, RequestsCarryEvents, BillingTypeOK, Request
<1>5. RequestsAreCurrent' /\ RepliesAreProof' /\ ConnectionHasReceipt'
  BY <1>1 DEF TrafficInv, RequestsAreCurrent, RepliesAreProof, ConnectionHasReceipt
<1>6. ConnectionIsAsPublished'
  <2> SUFFICES ASSUME connection # NoConnection
               PROVE  /\ outbox'[connection.version].payload = connection.payload
                      /\ inbox[connection.version] = "applied"
    BY DEF ConnectionIsAsPublished
  <2>1. connection.version \in Versions /\ connection.payload # NoPayload
    BY <1>1, MaxVersionAssumption
       DEF TrafficInv, ConnectionHasReceipt, BillingTypeOK, Connection, Versions
  <2>2. Published(connection.version)
    BY <1>1, <2>1 DEF TrafficInv, ConnectionIsAsPublished, HistoryIsComplete
  <2> QED BY <1>1, <1>2, <2>1, <2>2 DEF TrafficInv, ConnectionIsAsPublished
<1> QED BY <1>3, <1>4, <1>5, <1>6 DEF TrafficInv

(* Steps that touch rows that exist, and neither their payload nor their    *)
(* existence, keep the history.                                             *)
LEMMA RowsKept ==
  ASSUME PlaneInv, OutboxTypeOK', UNCHANGED retry,
         \A v \in Versions : /\ outbox'[v].payload = outbox[v].payload
                             /\ Published(v)' <=> Published(v)
                             /\ runs'[v] # "none" => Published(v)
  PROVE  HistoryGrows /\ RowsInv'
<1>1. HistoryGrows
  BY DEF HistoryGrows, Published
<1>2. RowsInv /\ OutboxTypeOK
  BY DEF PlaneInv, PlaneTypeOK
<1>3. HistoryIsComplete'
  BY <1>2 DEF RowsInv, HistoryIsComplete
<1>4. RunsHaveRows'
  BY DEF RunsHaveRows
<1>5. RetriesHaveRows'
  BY <1>2, MaxVersionAssumption
     DEF RowsInv, RetriesHaveRows, OutboxTypeOK, RetryStep
<1>6. ConsecutiveEventsDiffer'
  BY <1>2, MaxVersionAssumption DEF RowsInv, ConsecutiveEventsDiffer, Versions
<1> QED BY <1>1, <1>3, <1>4, <1>5, <1>6 DEF RowsInv

LEMMA ClaimRowsKeeps ==
  ASSUME PlaneInv, NEW S \in SUBSET Versions, \A v \in S : Published(v),
         ClaimRows(S), UNCHANGED inbox
  PROVE  OutboxTypeOK' /\ HistoryGrows /\ RowsInv' /\ SettledInv'
<1>1. OutboxTypeOK /\ RowsInv /\ SettledInv
  BY DEF PlaneInv, PlaneTypeOK
<1>2. OutboxTypeOK'
  BY <1>1 DEF ClaimRows, OutboxTypeOK, Row, RowStatus, RunStatus
<1>3. \A v \in Versions :
        /\ outbox'[v].payload = outbox[v].payload
        /\ Published(v)' <=> Published(v)
        /\ runs'[v] # "none" => Published(v)
  BY <1>1 DEF ClaimRows, Published, RowsInv, RunsHaveRows, OutboxTypeOK, Row
<1>4. SettledInv'
  BY <1>1 DEF ClaimRows, SettledInv, DeliveredWasTaken, SucceededRunWasTaken,
              OutboxTypeOK, Row
<1>5. UNCHANGED retry
  BY DEF ClaimRows
<1> QED BY <1>2, <1>3, <1>4, <1>5, RowsKept

LEMMA MarkDeliveredKeeps ==
  ASSUME PlaneInv, NEW v \in Versions, MarkDelivered(v), inbox[v] # "none",
         UNCHANGED inbox
  PROVE  OutboxTypeOK' /\ HistoryGrows /\ RowsInv' /\ SettledInv'
<1>1. OutboxTypeOK /\ RowsInv /\ SettledInv
  BY DEF PlaneInv, PlaneTypeOK
<1>2. OutboxTypeOK'
  BY <1>1 DEF MarkDelivered, SettledRun, OutboxTypeOK, Row, RowStatus, RunStatus
<1>3. \A u \in Versions :
        /\ outbox'[u].payload = outbox[u].payload
        /\ Published(u)' <=> Published(u)
        /\ runs'[u] # "none" => Published(u)
  BY <1>1 DEF MarkDelivered, SettledRun, Published, RowsInv, RunsHaveRows,
              OutboxTypeOK, Row
<1>4. SettledInv'
  BY <1>1 DEF MarkDelivered, SettledRun, SettledInv, DeliveredWasTaken,
              SucceededRunWasTaken, OutboxTypeOK, Row
<1>5. UNCHANGED retry
  BY DEF MarkDelivered
<1> QED BY <1>2, <1>3, <1>4, <1>5, RowsKept

LEMMA MarkFailedKeeps ==
  ASSUME PlaneInv, NEW v \in Versions, MarkFailed(v), UNCHANGED inbox
  PROVE  OutboxTypeOK' /\ HistoryGrows /\ RowsInv' /\ SettledInv'
<1>1. OutboxTypeOK /\ RowsInv /\ SettledInv
  BY DEF PlaneInv, PlaneTypeOK
<1>2. OutboxTypeOK'
  BY <1>1 DEF MarkFailed, SettledRun, OutboxTypeOK, Row, RowStatus, RunStatus
<1>3. \A u \in Versions :
        /\ outbox'[u].payload = outbox[u].payload
        /\ Published(u)' <=> Published(u)
        /\ runs'[u] # "none" => Published(u)
  BY <1>1 DEF MarkFailed, SettledRun, Published, RowsInv, RunsHaveRows,
              OutboxTypeOK, Row
<1>4. SettledInv'
  BY <1>1 DEF MarkFailed, SettledRun, SettledInv, DeliveredWasTaken,
              SucceededRunWasTaken, OutboxTypeOK, Row
<1>5. UNCHANGED retry
  BY DEF MarkFailed
<1> QED BY <1>2, <1>3, <1>4, <1>5, RowsKept

LEMMA PlaneFacts ==
  ASSUME IInv
  PROVE  /\ CallerInv /\ PlaneInv /\ ActivationsInTurn /\ CoreTypeOK
         /\ PlaneTypeOK /\ RowsInv /\ TrafficInv /\ SettledInv
         /\ OutboxTypeOK /\ BillingTypeOK /\ DispatchTypeOK
         /\ caller \in [Callers -> Caller]
BY IInvHalves DEF PlaneInv, PlaneTypeOK, CallerInv, EnqueueTypeOK, CoreTypeOK

LEMMA CreateEventKeeps ==
  ASSUME IInv, NEW c \in Callers, CreateEvent(c), UNCHANGED <<billingVars, dispatch>>
  PROVE  CallerInv' /\ PlaneInv'
<1>1. PICK v : v = caller[c].version
  OBVIOUS
<1>2. caller[c] \in Caller /\ Grounded(caller[c]) /\ caller[c].pc = "create"
  BY PlaneFacts DEF CallerInv, CallersAreGrounded, CreateEvent
<1>3. v \in Versions /\ caller[c].payload \in Payload /\ caller[c].todo # {}
  BY <1>1, <1>2 DEF Caller, Grounded
<1>4. CoreTypeOK'
  BY PlaneFacts DEF CoreTypeOK, CreateEvent
<1>5. CASE Published(v)
  <2>1. /\ caller' = [caller EXCEPT ![c] = IdleCaller]
        /\ UNCHANGED <<outboxVars, billingVars, dispatch>>
    BY <1>1, <1>5 DEF CreateEvent, outboxVars
  <2> QED
    BY <1>4, <2>1, PlaneFacts, PlaneUndisturbed, NothingChanges, IdleKeeps, CallerStep
<1>6. CASE ~Published(v)
  <2> DEFINE row == [status |-> "pending", linked |-> FALSE, payload |-> caller[c].payload]
  <2>1. /\ outbox' = [outbox EXCEPT ![v] = row]
        /\ caller' = [caller EXCEPT ![c] =
                       [caller[c] EXCEPT !.pc = "run", !.payload = NoPayload]]
        /\ UNCHANGED <<runs, retry>>
    BY <1>1, <1>2, <1>6, PlaneFacts DEF CreateEvent, Caller
  <2>2. HistoryGrows /\ InboxGrows
    BY <1>3, <1>6, <2>1, PlaneFacts
       DEF HistoryGrows, InboxGrows, Published, OutboxTypeOK, billingVars
  <2>3. Published(v)' /\ outbox'[v].payload # NoPayload
    BY <1>3, <2>1, PlaneFacts, NoPayloadAssumption DEF Published, OutboxTypeOK
  <2>4. \A u \in Versions : u # v => outbox'[u] = outbox[u]
    BY <2>1, PlaneFacts DEF OutboxTypeOK
  <2>5. \A u \in Versions : u < v => Published(u)
    BY <1>1, <1>2 DEF Grounded
  <2>6. OutboxTypeOK'
    BY <1>3, <2>1, PlaneFacts DEF OutboxTypeOK, Row, RowStatus
  <2>7. HistoryIsComplete'
    BY <1>3, <1>6, <2>3, <2>4, <2>5, PlaneFacts, MaxVersionAssumption
       DEF RowsInv, HistoryIsComplete, Published, Versions
  <2>8. RunsHaveRows' /\ RetriesHaveRows'
    BY <1>3, <2>1, <2>3, <2>4, PlaneFacts, MaxVersionAssumption
       DEF RowsInv, RunsHaveRows, RetriesHaveRows, Published, OutboxTypeOK, RetryStep
  <2>9. ConsecutiveEventsDiffer'
    <3> SUFFICES ASSUME NEW u \in Versions, u + 1 \in Versions, Published(u + 1)'
                 PROVE  Published(u)' /\ outbox'[u].payload # outbox'[u + 1].payload
      BY DEF ConsecutiveEventsDiffer, Published
    <3>1. CASE u + 1 = v
      <4>1. u < v /\ u # v /\ v > 1 /\ u = v - 1
        BY <1>3, <3>1, MaxVersionAssumption DEF Versions
      <4>2. Published(u)' /\ outbox'[u] = outbox[u]
        BY <2>4, <2>5, <4>1 DEF Published
      <4>3. outbox[u].payload # caller[c].payload
        BY <1>1, <1>2, <4>1 DEF Grounded
      <4>4. outbox'[v].payload = caller[c].payload
        BY <1>3, <2>1, PlaneFacts DEF OutboxTypeOK
      <4> QED BY <3>1, <4>2, <4>3, <4>4
    <3>2. CASE u + 1 # v
      <4>1. Published(u + 1) /\ outbox'[u + 1] = outbox[u + 1]
        BY <2>4, <3>2 DEF Published
      <4>2. Published(u) /\ outbox[u].payload # outbox[u + 1].payload
        BY <4>1, PlaneFacts DEF RowsInv, ConsecutiveEventsDiffer
      <4>3. u # v
        BY <1>6, <4>2
      <4> QED BY <2>4, <4>1, <4>2, <4>3 DEF Published
    <3> QED BY <3>1, <3>2
  <2>10. TrafficInv'
    BY <2>2, PlaneFacts, TrafficUndisturbed
  <2>11. SettledInv'
    BY <1>3, <2>1, <2>4, PlaneFacts
       DEF SettledInv, DeliveredWasTaken, SucceededRunWasTaken, billingVars, OutboxTypeOK
  <2>12. BillingTypeOK' /\ DispatchTypeOK'
    BY PlaneFacts DEF BillingTypeOK, DispatchTypeOK, billingVars
  <2>13. PlaneInv'
    BY <2>6, <2>7, <2>8, <2>9, <2>10, <2>11, <2>12 DEF PlaneInv, PlaneTypeOK, RowsInv
  <2>14. /\ caller' = [caller EXCEPT ![c] = caller'[c]]
         /\ caller'[c] \in Caller
    BY <1>2, <2>1, PlaneFacts DEF Caller, CallerSteps
  <2>15. Grounded(caller[c])' /\ Ready(caller[c])'
    BY <1>1, <1>2, <1>3, <2>1, <2>3, PlaneFacts, MaxVersionAssumption
       DEF Caller, Grounded, Ready, Versions
  <2> QED BY <1>4, <2>2, <2>13, <2>14, <2>15, PlaneFacts, CallerStep
<1> QED BY <1>5, <1>6

LEMMA CreateRunKeeps ==
  ASSUME IInv, NEW c \in Callers, CreateRun(c), UNCHANGED <<billingVars, dispatch>>
  PROVE  CallerInv' /\ PlaneInv'
<1>1. caller[c] \in Caller /\ Grounded(caller[c]) /\ caller[c].pc = "run"
  BY PlaneFacts DEF CallerInv, CallersAreGrounded, CreateRun
<1>2. caller[c].version \in Versions /\ Published(caller[c].version)
  BY <1>1 DEF Caller, Grounded
<1>3. CoreTypeOK'
  BY PlaneFacts DEF CoreTypeOK, CreateRun
<1>4. OutboxTypeOK'
  BY <1>2, PlaneFacts DEF CreateRun, OutboxTypeOK, RunStatus
<1>5. \A u \in Versions : runs'[u] # "none" => Published(u)
  BY <1>2, PlaneFacts DEF CreateRun, RowsInv, RunsHaveRows, OutboxTypeOK
<1>6. HistoryGrows /\ RowsInv'
  BY <1>4, <1>5, PlaneFacts, RowsKept DEF CreateRun, Published
<1>7. TrafficInv'
  BY <1>6, PlaneFacts, TrafficUndisturbed
<1>8. SettledInv'
  BY <1>2, PlaneFacts
     DEF CreateRun, SettledInv, DeliveredWasTaken, SucceededRunWasTaken, billingVars,
         OutboxTypeOK
<1>9. PlaneInv'
  BY <1>4, <1>6, <1>7, <1>8, PlaneFacts
     DEF PlaneInv, PlaneTypeOK, BillingTypeOK, DispatchTypeOK, billingVars
<1>10. caller' = [caller EXCEPT ![c] = [caller[c] EXCEPT !.pc = "link"]]
  BY <1>1, PlaneFacts DEF CreateRun, Caller
<1>11. /\ caller' = [caller EXCEPT ![c] = caller'[c]]
       /\ caller'[c] \in Caller
  BY <1>1, <1>10, PlaneFacts DEF Caller, CallerSteps
<1>12. Grounded(caller[c])' /\ Ready(caller[c])'
  BY <1>1, <1>2, <1>10, PlaneFacts DEF CreateRun, Caller, Grounded, Ready, Published
<1>13. InboxGrows
  BY DEF InboxGrows, billingVars
<1> QED BY <1>3, <1>6, <1>9, <1>11, <1>12, <1>13, PlaneFacts, CallerStep

LEMMA LinkRunKeeps ==
  ASSUME IInv, NEW c \in Callers, LinkRun(c), UNCHANGED <<billingVars, dispatch>>
  PROVE  CallerInv' /\ PlaneInv'
<1>1. PICK v : v = caller[c].version
  OBVIOUS
<1>2. v \in Versions /\ Published(v)
  BY <1>1, PlaneFacts DEF LinkRun, CallerInv, CallersAreGrounded, Grounded, Caller
<1>3. CoreTypeOK'
  BY PlaneFacts DEF CoreTypeOK, LinkRun
<1>4. OutboxTypeOK'
  BY <1>1, <1>2, PlaneFacts DEF LinkRun, OutboxTypeOK, Row
<1>5. \A u \in Versions :
        /\ outbox'[u].payload = outbox[u].payload
        /\ Published(u)' <=> Published(u)
        /\ runs'[u] # "none" => Published(u)
  BY <1>1, <1>2, PlaneFacts
     DEF LinkRun, RowsInv, RunsHaveRows, OutboxTypeOK, Row, Published
<1>6. HistoryGrows /\ RowsInv'
  BY <1>4, <1>5, PlaneFacts, RowsKept DEF LinkRun
<1>7. TrafficInv'
  BY <1>6, PlaneFacts, TrafficUndisturbed
<1>8. SettledInv'
  BY <1>1, <1>2, PlaneFacts
     DEF LinkRun, SettledInv, DeliveredWasTaken, SucceededRunWasTaken, billingVars,
         OutboxTypeOK, Row
<1>9. PlaneInv'
  BY <1>4, <1>6, <1>7, <1>8, PlaneFacts
     DEF PlaneInv, PlaneTypeOK, BillingTypeOK, DispatchTypeOK, billingVars
<1>10. RowDone(c, {v})
  BY <1>1 DEF LinkRun
<1>11. InboxGrows
  BY DEF InboxGrows, billingVars
<1> QED BY <1>2, <1>3, <1>6, <1>9, <1>10, <1>11, PlaneFacts, RowDoneKeeps, CallerStep

-----------------------------------------------------------------------------
(* The dispatchers *)

(* Published events, receipts and the connection stay in step as long as no *)
(* request is altered.                                                      *)
LEMMA EventsUndisturbed ==
  ASSUME PlaneInv, HistoryGrows, UNCHANGED <<connection, inbox>>,
         \A r \in requests' : \E q \in requests :
            r.version = q.version /\ r.payload = q.payload /\ r.seen = q.seen
  PROVE  RequestsCarryEvents' /\ ConnectionHasReceipt' /\ ConnectionIsAsPublished'
<1>1. BillingTypeOK /\ TrafficInv /\ HistoryIsComplete
  BY DEF PlaneInv, PlaneTypeOK, RowsInv
<1>2. \A v \in Versions : Published(v) =>
        Published(v)' /\ outbox'[v].payload = outbox[v].payload
  BY DEF HistoryGrows, Published
<1>3. RequestsCarryEvents'
  BY <1>1, <1>2 DEF TrafficInv, RequestsCarryEvents, BillingTypeOK, Request
<1>4. ConnectionHasReceipt'
  BY <1>1 DEF TrafficInv, ConnectionHasReceipt
<1>5. ConnectionIsAsPublished'
  <2> SUFFICES ASSUME connection # NoConnection
               PROVE  /\ outbox'[connection.version].payload = connection.payload
                      /\ inbox[connection.version] = "applied"
    BY DEF ConnectionIsAsPublished
  <2>1. connection.version \in Versions /\ connection.payload # NoPayload
    BY <1>1, MaxVersionAssumption
       DEF TrafficInv, ConnectionHasReceipt, BillingTypeOK, Connection, Versions
  <2>2. Published(connection.version)
    BY <1>1, <2>1 DEF TrafficInv, ConnectionIsAsPublished, HistoryIsComplete
  <2> QED BY <1>1, <1>2, <2>1, <2>2 DEF TrafficInv, ConnectionIsAsPublished
<1> QED BY <1>3, <1>4, <1>5

(* A sender that does not wait has no request under way and no answer.      *)
LEMMA NotWaiting ==
  ASSUME PlaneInv, NEW d \in Dispatchers, dispatch[d].pc # "waiting"
  PROVE  replies[d] = NoReply /\ \A r \in requests : r.from # d
BY NoOneAssumption DEF PlaneInv, TrafficInv, RequestsAreCurrent, RepliesAreProof

LEMMA BeginKeeps ==
  ASSUME PlaneInv, NEW d \in Dispatchers, dispatch[d].pc = "idle",
         NEW batch \in SUBSET Versions, \A v \in batch : Published(v),
         Begin(d, batch), HistoryGrows, UNCHANGED billingVars
  PROVE  DispatchTypeOK' /\ BillingTypeOK' /\ TrafficInv'
<1> USE DEF billingVars
<1>1. DispatchTypeOK /\ BillingTypeOK /\ TrafficInv
  BY DEF PlaneInv, PlaneTypeOK
<1>2. replies[d] = NoReply /\ \A r \in requests : r.from # d
  BY NotWaiting
<1>3. DispatchTypeOK' /\ BillingTypeOK'
  BY <1>1 DEF Begin, DispatchTypeOK, Dispatch, BillingTypeOK
<1>4. BatchesHaveRows'
  BY <1>1 DEF Begin, TrafficInv, BatchesHaveRows, DispatchTypeOK, Dispatch,
              HistoryGrows, Published
<1>5. RequestsAreCurrent'
  BY <1>1, <1>2 DEF Begin, TrafficInv, RequestsAreCurrent, DispatchTypeOK,
                    BillingTypeOK, Request
<1>6. RepliesAreProof'
  BY <1>1, <1>2 DEF Begin, TrafficInv, RepliesAreProof, DispatchTypeOK, NoReply
<1>7. RequestsCarryEvents' /\ ConnectionHasReceipt' /\ ConnectionIsAsPublished'
  BY EventsUndisturbed
<1> QED BY <1>3, <1>4, <1>5, <1>6, <1>7 DEF TrafficInv

LEMMA ClaimBatchKeeps ==
  ASSUME IInv, NEW w \in Workers, NEW free \in SUBSET Versions,
         ClaimBatch(w, free)
  PROVE  PlaneInv' /\ HistoryGrows /\ InboxGrows
<1>1. NextBatch(free) \in SUBSET Versions /\ \A v \in NextBatch(free) : Published(v)
  BY DEF NextBatch, Claimable, Published
<1>2. /\ ClaimRows(NextBatch(free)) /\ Begin(w, NextBatch(free))
      /\ UNCHANGED billingVars /\ w \in Dispatchers /\ dispatch[w].pc = "idle"
  BY WorkersAssumption DEF ClaimBatch
<1>3. PICK S \in SUBSET Versions : S = NextBatch(free)
  BY <1>1
<1>4. OutboxTypeOK' /\ HistoryGrows /\ RowsInv' /\ SettledInv'
  BY <1>1, <1>2, <1>3, PlaneFacts, ClaimRowsKeeps DEF billingVars
<1>5. DispatchTypeOK' /\ BillingTypeOK' /\ TrafficInv'
  BY <1>1, <1>2, <1>3, <1>4, PlaneFacts, BeginKeeps
<1>6. InboxGrows
  BY <1>2 DEF InboxGrows, billingVars
<1> QED BY <1>4, <1>5, <1>6 DEF PlaneInv, PlaneTypeOK

(* A step of d that leaves the rows alone. *)
LEMMA RowsUndisturbed ==
  ASSUME PlaneInv, UNCHANGED <<outboxVars, inbox>>
  PROVE  OutboxTypeOK' /\ RowsInv' /\ SettledInv' /\ HistoryGrows /\ InboxGrows
BY DEF PlaneInv, PlaneTypeOK, OutboxTypeOK, RowsInv, HistoryIsComplete, RunsHaveRows,
       RetriesHaveRows, ConsecutiveEventsDiffer, SettledInv, DeliveredWasTaken,
       SucceededRunWasTaken, outboxVars, Published, HistoryGrows, InboxGrows

LEMMA SendEventKeeps ==
  ASSUME IInv, NEW d \in Dispatchers, NEW v \in Versions, SendEvent(d, v)
  PROVE  PlaneInv' /\ HistoryGrows /\ InboxGrows
<1> DEFINE new == [from |-> d, version |-> v, payload |-> outbox[v].payload,
                   phase |-> "sent", seen |-> NoConnection]
<1>1. OutboxTypeOK' /\ RowsInv' /\ SettledInv' /\ HistoryGrows /\ InboxGrows
  BY PlaneFacts, RowsUndisturbed DEF SendEvent
<1>2. replies[d] = NoReply /\ \A r \in requests : r.from # d
  BY PlaneFacts, NotWaiting DEF SendEvent
<1>3. /\ requests' = requests \cup {new} /\ v \in dispatch[d].batch
      /\ dispatch' = [dispatch EXCEPT ![d] =
                       [dispatch[d] EXCEPT !.pc = "waiting", !.current = v]]
      /\ UNCHANGED <<outbox, connection, inbox, replies>>
  BY PlaneFacts DEF SendEvent, outboxVars, DispatchTypeOK
<1>4. Published(v) /\ outbox[v].payload \in Payload
  BY <1>3, PlaneFacts
     DEF TrafficInv, BatchesHaveRows, RowsInv, HistoryIsComplete, OutboxTypeOK, Row
<1>5. new \in Request
  BY <1>4, MaxVersionAssumption DEF Request, NoConnection, Connection
<1> HIDE DEF new
<1>6. DispatchTypeOK' /\ BillingTypeOK'
  BY <1>3, <1>5, PlaneFacts DEF DispatchTypeOK, Dispatch, BillingTypeOK
<1>7. BatchesHaveRows'
  BY <1>3, PlaneFacts DEF TrafficInv, BatchesHaveRows, DispatchTypeOK, Dispatch, Published
<1>8. RequestsCarryEvents'
  <2>1. /\ new.version = v /\ new.payload = outbox[v].payload
        /\ new.seen = NoConnection
    BY DEF new
  <2> QED
    BY <1>3, <1>4, <2>1, PlaneFacts
       DEF TrafficInv, RequestsCarryEvents, Published
<1>9. RequestsAreCurrent'
  <2>1. new.version = v /\ new.from = d
    BY DEF new
  <2>2. \A r \in requests : r.from # NoOne => dispatch'[r.from] = dispatch[r.from]
    BY <1>2, <1>3, PlaneFacts DEF BillingTypeOK, Request, DispatchTypeOK
  <2>3. dispatch'[d].pc = "waiting" /\ dispatch'[d].current = v
    BY <1>3, PlaneFacts DEF DispatchTypeOK, Dispatch
  <2> QED
    BY <1>2, <1>3, <2>1, <2>2, <2>3, PlaneFacts DEF TrafficInv, RequestsAreCurrent
<1>10. RepliesAreProof'
  BY <1>2, <1>3, PlaneFacts DEF TrafficInv, RepliesAreProof, NoReply, DispatchTypeOK
<1>11. ConnectionHasReceipt' /\ ConnectionIsAsPublished'
  BY <1>3, PlaneFacts DEF TrafficInv, ConnectionHasReceipt, ConnectionIsAsPublished
<1> QED
  BY <1>1, <1>6, <1>7, <1>8, <1>9, <1>10, <1>11 DEF PlaneInv, PlaneTypeOK, TrafficInv

LEMMA LeaveRequestKeeps ==
  ASSUME BillingTypeOK, NEW d \in Dispatchers, LeaveRequest(d)
  PROVE  /\ requests' \subseteq Request
         /\ \A r \in requests' : r.from # NoOne => r \in requests /\ r.from # d
         /\ \A r \in requests' : \E q \in requests :
              r.version = q.version /\ r.payload = q.payload /\ r.seen = q.seen
BY NoOneAssumption DEF BillingTypeOK, LeaveRequest, Request

LEMMA TimeOutKeeps ==
  ASSUME IInv, NEW d \in Dispatchers, TimeOut(d)
  PROVE  PlaneInv' /\ HistoryGrows /\ InboxGrows
<1>1. OutboxTypeOK' /\ RowsInv' /\ SettledInv' /\ HistoryGrows /\ InboxGrows
  BY PlaneFacts, RowsUndisturbed DEF TimeOut
<1>2. /\ requests' \subseteq Request
      /\ \A r \in requests' : r.from # NoOne => r \in requests /\ r.from # d
      /\ \A r \in requests' : \E q \in requests :
           r.version = q.version /\ r.payload = q.payload /\ r.seen = q.seen
  BY PlaneFacts, LeaveRequestKeeps DEF TimeOut
<1>3. /\ replies' = [replies EXCEPT ![d] = ErrorReply] /\ dispatch[d].pc = "waiting"
      /\ UNCHANGED <<outbox, connection, inbox, dispatch>>
  BY DEF TimeOut, outboxVars
<1>4. DispatchTypeOK' /\ BillingTypeOK'
  BY <1>2, <1>3, PlaneFacts, MaxVersionAssumption
     DEF DispatchTypeOK, BillingTypeOK, ErrorReply, Reply
<1>5. BatchesHaveRows'
  BY <1>3, PlaneFacts DEF TrafficInv, BatchesHaveRows, Published
<1>6. RequestsAreCurrent'
  BY <1>2, <1>3, PlaneFacts
     DEF TrafficInv, RequestsAreCurrent, BillingTypeOK, Request
<1>7. RepliesAreProof'
  BY <1>3, PlaneFacts DEF TrafficInv, RepliesAreProof, BillingTypeOK, ErrorReply
<1>8. RequestsCarryEvents' /\ ConnectionHasReceipt' /\ ConnectionIsAsPublished'
  BY <1>1, <1>2, <1>3, PlaneFacts, EventsUndisturbed
<1> QED
  BY <1>1, <1>4, <1>5, <1>6, <1>7, <1>8 DEF PlaneInv, PlaneTypeOK, TrafficInv

(* d settles the row it was waiting for. *)
LEMMA AdvanceKeeps ==
  ASSUME PlaneInv, NEW d \in Dispatchers, dispatch[d].pc = "waiting",
         replies[d] # NoReply, Advance(d), HistoryGrows,
         UNCHANGED <<connection, inbox, requests>>
  PROVE  DispatchTypeOK' /\ BillingTypeOK' /\ TrafficInv'
<1>1. DispatchTypeOK /\ BillingTypeOK /\ TrafficInv
  BY DEF PlaneInv, PlaneTypeOK
<1>2. \A r \in requests : r.from # d
  BY <1>1, NoOneAssumption DEF TrafficInv, RequestsAreCurrent
<1>3. PICK next \in Dispatch :
        /\ dispatch' = [dispatch EXCEPT ![d] = next]
        /\ next.pc # "waiting" /\ next.batch \subseteq dispatch[d].batch
  <2> DEFINE batch == dispatch[d].batch \ {dispatch[d].current}
  <2>1. batch \in SUBSET Versions
    BY <1>1 DEF DispatchTypeOK, Dispatch
  <2> DEFINE following == IF batch = {} THEN IdleDispatch
                          ELSE [pc |-> "next", batch |-> batch, current |-> 0]
  <2>2. dispatch' = [dispatch EXCEPT ![d] = following]
    BY DEF Advance
  <2>3. following \in Dispatch /\ following.pc # "waiting"
    BY <2>1 DEF Dispatch, IdleDispatch
  <2>4. following.batch \subseteq dispatch[d].batch
    BY DEF IdleDispatch
  <2> HIDE DEF following
  <2> QED BY <2>2, <2>3, <2>4
<1>4. replies' = [replies EXCEPT ![d] = NoReply]
  BY DEF Advance
<1>5. DispatchTypeOK' /\ BillingTypeOK'
  BY <1>1, <1>3, <1>4, MaxVersionAssumption
     DEF DispatchTypeOK, BillingTypeOK, NoReply, Reply
<1>6. BatchesHaveRows'
  BY <1>1, <1>3
     DEF TrafficInv, BatchesHaveRows, DispatchTypeOK, Dispatch, HistoryGrows, Published
<1>7. RequestsAreCurrent'
  BY <1>1, <1>2, <1>3, <1>4
     DEF TrafficInv, RequestsAreCurrent, BillingTypeOK, Request, DispatchTypeOK
<1>8. RepliesAreProof'
  BY <1>1, <1>3, <1>4
     DEF TrafficInv, RepliesAreProof, DispatchTypeOK, BillingTypeOK, NoReply
<1>9. RequestsCarryEvents' /\ ConnectionHasReceipt' /\ ConnectionIsAsPublished'
  BY EventsUndisturbed
<1> QED BY <1>5, <1>6, <1>7, <1>8, <1>9 DEF TrafficInv

LEMMA WaitingFor ==
  ASSUME PlaneInv, NEW d \in Dispatchers, dispatch[d].pc = "waiting"
  PROVE  dispatch[d].current \in Versions
BY DEF PlaneInv, PlaneTypeOK, DispatchTypeOK, Dispatch, TrafficInv, BatchesHaveRows

LEMMA ConfirmDeliveryKeeps ==
  ASSUME IInv, NEW d \in Dispatchers, ConfirmDelivery(d)
  PROVE  PlaneInv' /\ HistoryGrows /\ InboxGrows
<1>1. PICK v \in Versions : v = dispatch[d].current
  BY PlaneFacts, WaitingFor DEF ConfirmDelivery
<1>2. /\ dispatch[d].pc = "waiting" /\ replies[d] # NoReply /\ replies[d].version >= v
      /\ MarkDelivered(v) /\ Advance(d) /\ UNCHANGED <<connection, inbox, requests>>
  BY <1>1 DEF ConfirmDelivery, Accepted, Proves
<1>3. inbox[v] # "none"
  <2>1. replies[d].version # 0
    BY <1>2, MaxVersionAssumption DEF Versions
  <2> QED BY <1>1, <2>1, PlaneFacts DEF TrafficInv, RepliesAreProof
<1>4. OutboxTypeOK' /\ HistoryGrows /\ RowsInv' /\ SettledInv'
  BY <1>2, <1>3, PlaneFacts, MarkDeliveredKeeps
<1>5. DispatchTypeOK' /\ BillingTypeOK' /\ TrafficInv'
  BY <1>2, <1>4, PlaneFacts, AdvanceKeeps
<1>6. InboxGrows
  BY <1>2 DEF InboxGrows
<1> QED BY <1>4, <1>5, <1>6 DEF PlaneInv, PlaneTypeOK

LEMMA RecordFailureKeeps ==
  ASSUME IInv, NEW d \in Dispatchers, RecordFailure(d)
  PROVE  PlaneInv' /\ HistoryGrows /\ InboxGrows
<1>1. PICK v \in Versions : v = dispatch[d].current
  BY PlaneFacts, WaitingFor DEF RecordFailure
<1>2. /\ dispatch[d].pc = "waiting" /\ replies[d] # NoReply
      /\ MarkFailed(v) /\ Advance(d) /\ UNCHANGED <<connection, inbox, requests>>
  BY <1>1 DEF RecordFailure
<1>3. OutboxTypeOK' /\ HistoryGrows /\ RowsInv' /\ SettledInv'
  BY <1>2, PlaneFacts, MarkFailedKeeps
<1>4. DispatchTypeOK' /\ BillingTypeOK' /\ TrafficInv'
  BY <1>2, <1>3, PlaneFacts, AdvanceKeeps
<1>5. InboxGrows
  BY <1>2 DEF InboxGrows
<1> QED BY <1>3, <1>4, <1>5 DEF PlaneInv, PlaneTypeOK

LEMMA ConfirmationThrowsKeeps ==
  ASSUME IInv, NEW d \in Dispatchers, ConfirmationThrows(d)
  PROVE  PlaneInv' /\ HistoryGrows /\ InboxGrows
<1>1. OutboxTypeOK' /\ RowsInv' /\ SettledInv' /\ HistoryGrows /\ InboxGrows
  BY PlaneFacts, RowsUndisturbed DEF ConfirmationThrows
<1>2. /\ replies' = [replies EXCEPT ![d] = ErrorReply] /\ dispatch[d].pc = "waiting"
      /\ replies[d] # NoReply
      /\ UNCHANGED <<outbox, connection, inbox, requests, dispatch>>
  BY DEF ConfirmationThrows, outboxVars, Accepted
<1>3. DispatchTypeOK' /\ BillingTypeOK'
  BY <1>2, PlaneFacts, MaxVersionAssumption
     DEF DispatchTypeOK, BillingTypeOK, ErrorReply, Reply
<1>4. BatchesHaveRows'
  BY <1>2, PlaneFacts DEF TrafficInv, BatchesHaveRows, Published
<1>5. \A r \in requests : r.from # d
  BY <1>2, PlaneFacts, NoOneAssumption DEF TrafficInv, RequestsAreCurrent
<1>6. RequestsAreCurrent'
  BY <1>2, <1>5, PlaneFacts DEF TrafficInv, RequestsAreCurrent, BillingTypeOK, Request
<1>7. RepliesAreProof'
  BY <1>2, PlaneFacts DEF TrafficInv, RepliesAreProof, BillingTypeOK, ErrorReply
<1>8. RequestsCarryEvents' /\ ConnectionHasReceipt' /\ ConnectionIsAsPublished'
  BY <1>1, <1>2, PlaneFacts, EventsUndisturbed
<1> QED
  BY <1>1, <1>3, <1>4, <1>6, <1>7, <1>8 DEF PlaneInv, PlaneTypeOK, TrafficInv

LEMMA AbandonBatchKeeps ==
  ASSUME IInv, NEW d \in Dispatchers, AbandonBatch(d)
  PROVE  PlaneInv' /\ HistoryGrows /\ InboxGrows
<1>1. OutboxTypeOK' /\ RowsInv' /\ SettledInv' /\ HistoryGrows /\ InboxGrows
  BY PlaneFacts, RowsUndisturbed DEF AbandonBatch
<1>2. /\ requests' \subseteq Request
      /\ \A r \in requests' : r.from # NoOne => r \in requests /\ r.from # d
      /\ \A r \in requests' : \E q \in requests :
           r.version = q.version /\ r.payload = q.payload /\ r.seen = q.seen
  BY PlaneFacts, LeaveRequestKeeps DEF AbandonBatch
<1>3. /\ replies' = [replies EXCEPT ![d] = NoReply]
      /\ dispatch' = [dispatch EXCEPT ![d] = IdleDispatch]
      /\ UNCHANGED <<outbox, connection, inbox>>
  BY DEF AbandonBatch, outboxVars
<1>4. DispatchTypeOK' /\ BillingTypeOK'
  BY <1>2, <1>3, PlaneFacts, MaxVersionAssumption
     DEF DispatchTypeOK, Dispatch, IdleDispatch, BillingTypeOK, NoReply, Reply
<1>5. BatchesHaveRows'
  BY <1>3, PlaneFacts DEF TrafficInv, BatchesHaveRows, IdleDispatch, DispatchTypeOK, Published
<1>6. RequestsAreCurrent'
  BY <1>2, <1>3, PlaneFacts
     DEF TrafficInv, RequestsAreCurrent, BillingTypeOK, Request, DispatchTypeOK
<1>7. RepliesAreProof'
  BY <1>3, PlaneFacts
     DEF TrafficInv, RepliesAreProof, BillingTypeOK, DispatchTypeOK, NoReply, IdleDispatch
<1>8. RequestsCarryEvents' /\ ConnectionHasReceipt' /\ ConnectionIsAsPublished'
  BY <1>1, <1>2, <1>3, PlaneFacts, EventsUndisturbed
<1> QED
  BY <1>1, <1>4, <1>5, <1>6, <1>7, <1>8 DEF PlaneInv, PlaneTypeOK, TrafficInv

-----------------------------------------------------------------------------
(* Billing *)

(* The transaction of r ends: its sender, if any, hears a reply that names  *)
(* a version only when r's event has a receipt.                             *)
LEMMA AnswerKeeps ==
  ASSUME PlaneInv, NEW r \in requests, NEW reply \in Reply, Answer(r, reply),
         UNCHANGED <<outboxVars, dispatch>>, InboxGrows,
         reply.version # 0 => inbox'[r.version] # "none"
  PROVE  /\ requests' \subseteq requests
         /\ replies' \in [Dispatchers -> Reply]
         /\ RequestsAreCurrent' /\ RepliesAreProof'
<1>1. BillingTypeOK /\ DispatchTypeOK /\ TrafficInv
  BY DEF PlaneInv, PlaneTypeOK
<1>2. r.from # NoOne => r.from \in Dispatchers
  BY <1>1 DEF BillingTypeOK, Request
<1>3. requests' = requests \ {r}
  BY DEF Answer
<1>4. replies' \in [Dispatchers -> Reply]
  BY <1>1, <1>2 DEF Answer, BillingTypeOK
<1>5. RequestsAreCurrent'
  BY <1>1, <1>2, <1>3
     DEF Answer, TrafficInv, RequestsAreCurrent, BillingTypeOK, Request
<1>6. RepliesAreProof'
  <2> SUFFICES ASSUME NEW d \in Dispatchers
               PROVE  /\ dispatch[d].pc # "waiting" => replies'[d] = NoReply
                      /\ replies'[d].version # 0 => inbox'[dispatch[d].current] # "none"
    BY DEF RepliesAreProof
  <2>1. CASE d = r.from
    <3>1. dispatch[d].pc = "waiting" /\ dispatch[d].current = r.version
      BY <1>1, <2>1, NoOneAssumption DEF TrafficInv, RequestsAreCurrent
    <3>2. replies'[d] = reply
      BY <1>1, <2>1, NoOneAssumption DEF Answer, BillingTypeOK
    <3> QED BY <3>1, <3>2
  <2>2. CASE d # r.from
    <3>1. replies'[d] = replies[d]
      BY <1>1, <2>2 DEF Answer, BillingTypeOK
    <3>2. ASSUME replies[d].version # 0
          PROVE  dispatch[d].current \in Versions
      <4>1. dispatch[d].pc = "waiting"
        BY <1>1, <3>2 DEF TrafficInv, RepliesAreProof, NoReply
      <4> QED BY <4>1, WaitingFor
    <3> QED BY <1>1, <3>1, <3>2 DEF TrafficInv, RepliesAreProof, InboxGrows
  <2> QED BY <2>1, <2>2
<1> QED BY <1>3, <1>4, <1>5, <1>6

(* Answers that write nothing: duplicates, rejections and roll-backs.       *)
LEMMA AnswerOnlyKeeps ==
  ASSUME IInv, NEW r \in requests, NEW reply \in Reply, Answer(r, reply),
         UNCHANGED <<outboxVars, dispatch, connection, inbox>>,
         reply.version # 0 => inbox[r.version] # "none"
  PROVE  PlaneInv' /\ HistoryGrows /\ InboxGrows
<1>1. OutboxTypeOK' /\ RowsInv' /\ SettledInv' /\ HistoryGrows /\ InboxGrows
  BY PlaneFacts, RowsUndisturbed
<1>2. /\ requests' \subseteq requests /\ replies' \in [Dispatchers -> Reply]
      /\ RequestsAreCurrent' /\ RepliesAreProof'
  BY <1>1, PlaneFacts, AnswerKeeps
<1>3. DispatchTypeOK' /\ BillingTypeOK' /\ BatchesHaveRows'
  BY <1>2, PlaneFacts
     DEF DispatchTypeOK, BillingTypeOK, TrafficInv, BatchesHaveRows, outboxVars, Published
<1>4. RequestsCarryEvents' /\ ConnectionHasReceipt' /\ ConnectionIsAsPublished'
  BY <1>1, <1>2, PlaneFacts, EventsUndisturbed
<1> QED BY <1>1, <1>2, <1>3, <1>4 DEF PlaneInv, PlaneTypeOK, TrafficInv

LEMMA ReceiptType ==
  ASSUME NEW con \in Connection, con.payload # NoPayload
  PROVE  Receipt(con) \in Reply /\ Receipt(con).version = con.version
BY DEF Connection, Receipt, Reply, Payload

LEMMA AnswerDuplicateKeeps ==
  ASSUME IInv, NEW r \in requests, AnswerDuplicate(r), UNCHANGED <<outboxVars, dispatch>>
  PROVE  PlaneInv' /\ HistoryGrows /\ InboxGrows
<1>1. r.version \in Versions /\ inbox[r.version] # "none" /\ connection \in Connection
  BY PlaneFacts DEF AnswerDuplicate, BillingTypeOK, Request
<1>2. connection.payload # NoPayload
  BY <1>1, PlaneFacts DEF TrafficInv, ConnectionHasReceipt
<1>3. PICK reply \in Reply : reply = Receipt(connection)
  BY <1>1, <1>2, ReceiptType
<1> QED
  BY <1>1, <1>3, PlaneFacts, AnswerOnlyKeeps DEF AnswerDuplicate

LEMMA RefusalKeeps ==
  ASSUME IInv, NEW r \in requests, RejectEvent(r) \/ RollBack(r),
         UNCHANGED <<outboxVars, dispatch>>
  PROVE  PlaneInv' /\ HistoryGrows /\ InboxGrows
<1>1. ErrorReply \in Reply /\ ErrorReply.version = 0
  BY MaxVersionAssumption DEF ErrorReply, Reply
<1>2. Answer(r, ErrorReply) /\ UNCHANGED <<connection, inbox>>
  BY DEF RejectEvent, RollBack
<1> QED BY <1>1, <1>2, PlaneFacts, AnswerOnlyKeeps

LEMMA ReadConnectionKeeps ==
  ASSUME IInv, NEW r \in requests, ReadConnection(r), UNCHANGED <<outboxVars, dispatch>>
  PROVE  PlaneInv' /\ HistoryGrows /\ InboxGrows
<1>1. OutboxTypeOK' /\ RowsInv' /\ SettledInv' /\ HistoryGrows /\ InboxGrows
  BY PlaneFacts, RowsUndisturbed DEF ReadConnection
<1>2. r \in Request /\ connection \in Connection
  BY PlaneFacts DEF BillingTypeOK
<1>3. PICK q \in Request :
        /\ q = [r EXCEPT !.phase = "read", !.seen = connection]
        /\ requests' = (requests \ {r}) \cup {q}
  BY <1>2 DEF ReadConnection, Request
<1>4. q.from = r.from /\ q.version = r.version /\ q.payload = r.payload /\ q.seen = connection
  BY <1>2, <1>3 DEF Request
<1>5. UNCHANGED <<outbox, connection, inbox, replies, dispatch>>
  BY DEF ReadConnection, outboxVars
<1>6. DispatchTypeOK' /\ BillingTypeOK' /\ BatchesHaveRows'
  BY <1>3, <1>5, PlaneFacts
     DEF DispatchTypeOK, BillingTypeOK, TrafficInv, BatchesHaveRows, Published
<1>7. RequestsCarryEvents'
  <2> SUFFICES ASSUME NEW x \in requests'
               PROVE  /\ Published(x.version) /\ outbox[x.version].payload = x.payload
                      /\ x.seen.payload = NoPayload => x.seen = NoConnection
                      /\ x.seen # NoConnection => connection # NoConnection
    BY <1>5 DEF RequestsCarryEvents, Published
  <2>1. CASE x = q
    BY <1>4, <2>1, PlaneFacts DEF TrafficInv, RequestsCarryEvents, ConnectionHasReceipt
  <2>2. CASE x \in requests
    BY <2>2, PlaneFacts DEF TrafficInv, RequestsCarryEvents
  <2> QED BY <1>3, <2>1, <2>2
<1>8. RequestsAreCurrent'
  <2>1. \A x \in requests' : x.from # NoOne =>
          /\ dispatch[x.from].pc = "waiting" /\ dispatch[x.from].current = x.version
          /\ replies[x.from] = NoReply
    <3>1. \A x \in requests' : \E y \in requests : x.from = y.from /\ x.version = y.version
      BY <1>3, <1>4
    <3>2. RequestsAreCurrent
      BY PlaneFacts DEF TrafficInv
    <3> QED BY <3>1, <3>2 DEF RequestsAreCurrent
  <2>2. ASSUME NEW x \in requests', NEW y \in requests', x.from = y.from, x.from # NoOne
        PROVE  x = y
    <3>1. \A z \in requests : z.from = r.from /\ r.from # NoOne => z = r
      BY PlaneFacts DEF TrafficInv, RequestsAreCurrent
    <3>2. CASE x = q \/ y = q
      BY <1>3, <1>4, <2>2, <3>1, <3>2
    <3>3. CASE x # q /\ y # q
      BY <1>3, <2>2, <3>3, PlaneFacts DEF TrafficInv, RequestsAreCurrent
    <3> QED BY <3>2, <3>3
  <2> QED BY <1>5, <2>1, <2>2 DEF RequestsAreCurrent
<1>9. RepliesAreProof' /\ ConnectionHasReceipt' /\ ConnectionIsAsPublished'
  BY <1>5, PlaneFacts
     DEF TrafficInv, RepliesAreProof, ConnectionHasReceipt, ConnectionIsAsPublished
<1> QED
  BY <1>1, <1>6, <1>7, <1>8, <1>9 DEF PlaneInv, PlaneTypeOK, TrafficInv

LEMMA CommitEventKeeps ==
  ASSUME IInv, NEW r \in requests, CommitEvent(r), UNCHANGED <<outboxVars, dispatch>>
  PROVE  PlaneInv' /\ HistoryGrows /\ InboxGrows
<1> DEFINE v == r.version
<1>1. /\ r \in Request /\ v \in Versions /\ r.payload \in Payload /\ v # 0
      /\ Published(v) /\ outbox[v].payload = r.payload /\ r.seen \in Connection
  BY PlaneFacts, MaxVersionAssumption
     DEF BillingTypeOK, Request, TrafficInv, RequestsCarryEvents, Versions
<1>2. inbox[v] = "none"
  BY DEF CommitEvent, BreaksUniqueness
<1>3. ~Newer(r) => r.seen # NoConnection /\ connection # NoConnection
  BY PlaneFacts DEF Newer, TrafficInv, RequestsCarryEvents
<1>4. /\ inbox' = [inbox EXCEPT ![v] = IF Newer(r) THEN "applied" ELSE "ignored"]
      /\ connection' = IF Newer(r) THEN [version |-> v, payload |-> r.payload]
                                   ELSE connection
      /\ Answer(r, Receipt(IF Newer(r) THEN connection' ELSE r.seen))
  BY DEF CommitEvent
<1>5. connection' \in Connection /\ inbox' \in [Versions -> {"none", "applied", "ignored"}]
  BY <1>1, <1>4, PlaneFacts, MaxVersionAssumption DEF BillingTypeOK, Connection, Versions
<1>6. /\ InboxGrows /\ inbox'[v] # "none"
      /\ \A u \in Versions : u # v => inbox'[u] = inbox[u]
      /\ Newer(r) => inbox'[v] = "applied"
  BY <1>1, <1>2, <1>4, PlaneFacts DEF InboxGrows, BillingTypeOK
<1>7. PICK reply \in Reply : reply = Receipt(IF Newer(r) THEN connection' ELSE r.seen)
  <2>1. CASE Newer(r)
    BY <1>1, <1>4, <1>5, <2>1, NoPayloadAssumption, ReceiptType
  <2>2. CASE ~Newer(r)
    <3>1. r.seen.payload # NoPayload
      BY <1>3, <2>2, PlaneFacts DEF TrafficInv, RequestsCarryEvents
    <3> QED BY <1>1, <2>2, <3>1, ReceiptType
  <2> QED BY <2>1, <2>2
<1>8. /\ requests' \subseteq requests /\ replies' \in [Dispatchers -> Reply]
      /\ RequestsAreCurrent' /\ RepliesAreProof'
  BY <1>4, <1>6, <1>7, PlaneFacts, AnswerKeeps
<1>9. connection' # NoConnection
  BY <1>1, <1>3, <1>4 DEF NoConnection
<1>10. OutboxTypeOK' /\ RowsInv' /\ HistoryGrows
  BY PlaneFacts
     DEF OutboxTypeOK, RowsInv, HistoryIsComplete, RunsHaveRows, RetriesHaveRows,
         ConsecutiveEventsDiffer, outboxVars, Published, HistoryGrows
<1>11. SettledInv'
  BY <1>6, PlaneFacts
     DEF SettledInv, DeliveredWasTaken, SucceededRunWasTaken, outboxVars
<1>12. DispatchTypeOK' /\ BillingTypeOK' /\ BatchesHaveRows'
  BY <1>5, <1>8, PlaneFacts
     DEF DispatchTypeOK, BillingTypeOK, TrafficInv, BatchesHaveRows, outboxVars, Published
<1>13. RequestsCarryEvents'
  BY <1>8, <1>9, PlaneFacts DEF TrafficInv, RequestsCarryEvents, outboxVars, Published
<1>14. ConnectionHasReceipt'
  BY <1>1, <1>4, <1>9, PlaneFacts, NoPayloadAssumption DEF TrafficInv, ConnectionHasReceipt
<1>15. ConnectionIsAsPublished'
  <2>1. CASE Newer(r)
    BY <1>1, <1>4, <1>6, <2>1 DEF ConnectionIsAsPublished, outboxVars
  <2>2. CASE ~Newer(r)
    <3>1. connection' = connection /\ connection # NoConnection
      BY <1>3, <1>4, <2>2
    <3>2. connection.version \in Versions /\ inbox[connection.version] = "applied"
      BY <3>1, PlaneFacts, MaxVersionAssumption
         DEF TrafficInv, ConnectionHasReceipt, ConnectionIsAsPublished, BillingTypeOK,
             Connection, Versions
    <3>3. inbox'[connection.version] = "applied"
      BY <1>2, <1>6, <3>2
    <3> QED BY <3>1, <3>3, PlaneFacts DEF TrafficInv, ConnectionIsAsPublished, outboxVars
  <2> QED BY <2>1, <2>2
<1> QED
  BY <1>6, <1>8, <1>10, <1>11, <1>12, <1>13, <1>14, <1>15
     DEF PlaneInv, PlaneTypeOK, TrafficInv

-----------------------------------------------------------------------------
(* The operators *)

LEMMA OperatorKeeps ==
  ASSUME IInv, NEW o \in Operators, OperatorMoves(o)
  PROVE  PlaneInv' /\ HistoryGrows /\ InboxGrows /\ UNCHANGED enqueueVars
<1> USE DEF billingVars
<1>1. UNCHANGED <<enqueueVars, billingVars, dispatch>>
  BY DEF OperatorMoves
<1>2. retry[o] \in RetryStep
  BY PlaneFacts DEF OutboxTypeOK
<1>3. /\ OutboxTypeOK'
      /\ \A v \in Versions : /\ outbox'[v].payload = outbox[v].payload
                             /\ Published(v)' <=> Published(v)
                             /\ runs'[v] # "none" => Published(v)
      /\ RetriesHaveRows'
      /\ SettledInv'
  <2>1. CASE \E v \in Versions : RetryRead(o, v)
    <3>1. PICK v \in Versions : RetryRead(o, v)
      BY <2>1
    <3>2. retry' = [retry EXCEPT ![o] = [pc |-> "event", version |-> v]]
          /\ UNCHANGED <<outbox, runs>> /\ Published(v) /\ v # 0
      BY <3>1, PlaneFacts, MaxVersionAssumption DEF RetryRead, RowsInv, RunsHaveRows, Versions
    <3> QED
      BY <1>1, <3>2, PlaneFacts
         DEF OutboxTypeOK, RetryStep, RowsInv, RunsHaveRows, RetriesHaveRows, Published,
             SettledInv, DeliveredWasTaken, SucceededRunWasTaken
  <2>2. CASE RetryEvent(o)
    <3>1. PICK v \in Versions : v = retry[o].version
      BY <1>2, <2>2, PlaneFacts DEF RetryEvent, RowsInv, RetriesHaveRows, RetryStep
    <3>2. /\ outbox' = [outbox EXCEPT ![v].status = "pending"]
          /\ retry' = [retry EXCEPT ![o] = [retry[o] EXCEPT !.pc = "run"]]
          /\ UNCHANGED runs /\ Published(v) /\ v # 0
      BY <2>2, <3>1, PlaneFacts DEF RetryEvent, RowsInv, RetriesHaveRows, OutboxTypeOK
    <3>3. OutboxTypeOK'
      BY <1>2, <3>2, PlaneFacts DEF OutboxTypeOK, Row, RowStatus, RetryStep
    <3>4. \A u \in Versions : /\ outbox'[u].payload = outbox[u].payload
                              /\ Published(u)' <=> Published(u)
                              /\ runs'[u] # "none" => Published(u)
      BY <3>2, PlaneFacts DEF OutboxTypeOK, Row, RowsInv, RunsHaveRows, Published
    <3>5. RetriesHaveRows'
      <4> SUFFICES ASSUME NEW p \in Operators, retry'[p].pc # "idle"
                   PROVE  /\ retry'[p].version # 0
                          /\ outbox'[retry'[p].version].status # "absent"
        BY DEF RetriesHaveRows, Published
      <4>1. retry'[p].version = retry[p].version /\ retry[p].pc # "idle"
        BY <1>2, <2>2, <3>2, PlaneFacts DEF OutboxTypeOK, RetryStep, RetryEvent
      <4>2. retry[p].version \in Versions /\ retry[p].version # 0 /\ Published(retry[p].version)
        BY <4>1, PlaneFacts DEF RowsInv, RetriesHaveRows, OutboxTypeOK, RetryStep
      <4> QED BY <3>4, <4>1, <4>2 DEF Published
    <3>6. SettledInv'
      BY <1>1, <3>2, PlaneFacts
         DEF OutboxTypeOK, Row, SettledInv, DeliveredWasTaken, SucceededRunWasTaken
    <3> QED BY <3>3, <3>4, <3>5, <3>6
  <2>3. CASE RetryRun(o)
    <3>1. PICK v \in Versions : v = retry[o].version
      BY <1>2, <2>3, PlaneFacts DEF RetryRun, RowsInv, RetriesHaveRows, RetryStep
    <3>2. /\ runs' = [runs EXCEPT ![v] = "queued"]
          /\ retry' = [retry EXCEPT ![o] = NoRetry]
          /\ UNCHANGED outbox /\ Published(v)
      BY <2>3, <3>1, PlaneFacts DEF RetryRun, RowsInv, RetriesHaveRows
    <3> QED
      BY <1>1, <3>2, PlaneFacts
         DEF OutboxTypeOK, RunStatus, RetryStep, NoRetry, RowsInv, RunsHaveRows,
             RetriesHaveRows, Published, SettledInv, DeliveredWasTaken,
             SucceededRunWasTaken
  <2>4. CASE RetryAborts(o)
    BY <1>1, <2>4, PlaneFacts
       DEF RetryAborts, OutboxTypeOK, RetryStep, NoRetry, RowsInv, RunsHaveRows,
           RetriesHaveRows, Published, SettledInv, DeliveredWasTaken,
           SucceededRunWasTaken
  <2> QED BY <2>1, <2>2, <2>3, <2>4 DEF OperatorMoves
<1>4. HistoryGrows /\ InboxGrows
  BY <1>1, <1>3 DEF HistoryGrows, InboxGrows, Published
<1>5. HistoryIsComplete' /\ RunsHaveRows' /\ ConsecutiveEventsDiffer'
  BY <1>3, PlaneFacts, MaxVersionAssumption
     DEF RowsInv, HistoryIsComplete, RunsHaveRows, ConsecutiveEventsDiffer, Versions
<1>6. TrafficInv'
  BY <1>1, <1>4, PlaneFacts, TrafficUndisturbed
<1>7. BillingTypeOK' /\ DispatchTypeOK'
  BY <1>1, PlaneFacts DEF BillingTypeOK, DispatchTypeOK
<1> QED
  BY <1>1, <1>3, <1>4, <1>5, <1>6, <1>7 DEF PlaneInv, PlaneTypeOK, RowsInv

-----------------------------------------------------------------------------
(* Activations: callers that dispatch *)

LEMMA ClaimByIdsKeeps ==
  ASSUME IInv, NEW c \in Activations, NEW free \in SUBSET caller[c].events,
         ClaimByIds(c, free)
  PROVE  CallerInv' /\ PlaneInv'
<1>1. c \in Callers /\ c \in Dispatchers
  BY CallersAssumption, DispatchersAssumption
<1>2. caller[c] \in Caller /\ caller[c].pc = "claim" /\ Grounded(caller[c])
  BY <1>1, PlaneFacts DEF ClaimByIds, CallerInv, CallersAreGrounded
<1>3. dispatch[c].pc = "idle"
  BY <1>2, PlaneFacts DEF ActivationsInTurn
<1>4. PICK S \in SUBSET Versions : S = {v \in caller[c].events : Claimable(v, free)}
  BY <1>2 DEF Caller
<1>5. /\ ClaimRows(S) /\ UNCHANGED billingVars
      /\ IF S = {} THEN UNCHANGED dispatch ELSE Begin(c, S)
      /\ caller' = [caller EXCEPT ![c].pc = "deliver"]
      /\ UNCHANGED <<subs, subVersion, standing, manifest, archived, appRuns>>
  BY <1>4 DEF ClaimByIds
<1>6. \A v \in S : Published(v)
  BY <1>4 DEF Claimable, Published
<1>7. OutboxTypeOK' /\ HistoryGrows /\ RowsInv' /\ SettledInv'
  BY <1>5, <1>6, PlaneFacts, ClaimRowsKeeps DEF billingVars
<1>8. DispatchTypeOK' /\ BillingTypeOK' /\ TrafficInv'
  <2>1. CASE S = {}
    <3>1. UNCHANGED <<billingVars, dispatch>>
      BY <1>5, <2>1
    <3>2. DispatchTypeOK' /\ BillingTypeOK'
      BY <3>1, PlaneFacts DEF DispatchTypeOK, BillingTypeOK, billingVars
    <3> QED BY <1>7, <3>1, <3>2, PlaneFacts, TrafficUndisturbed
  <2>2. CASE S # {}
    BY <1>1, <1>3, <1>5, <1>6, <1>7, <2>2, PlaneFacts, BeginKeeps
  <2> QED BY <2>1, <2>2
<1>9. PlaneInv'
  BY <1>7, <1>8 DEF PlaneInv, PlaneTypeOK
<1>10. InboxGrows
  BY <1>5 DEF InboxGrows, billingVars
<1>11. CoreTypeOK'
  BY <1>5, PlaneFacts DEF CoreTypeOK
<1>12. caller' = [caller EXCEPT ![c] = [caller[c] EXCEPT !.pc = "deliver"]]
  BY <1>1, <1>5, PlaneFacts
<1>13. /\ caller' = [caller EXCEPT ![c] = caller'[c]]
       /\ caller'[c] \in Caller /\ Grounded(caller[c])' /\ Ready(caller[c])'
  BY <1>1, <1>2, <1>12, PlaneFacts DEF Caller, CallerSteps, Grounded, Ready
<1> QED BY <1>1, <1>7, <1>9, <1>10, <1>11, <1>13, PlaneFacts, CallerStep

LEMMA CheckDeliveredKeeps ==
  ASSUME IInv, NEW c \in Callers, CheckDelivered(c)
  PROVE  CallerInv' /\ PlaneInv'
<1>1. UNCHANGED <<outboxVars, billingVars, dispatch>> /\ CoreTypeOK'
  BY PlaneFacts DEF CheckDelivered, CoreTypeOK
<1>2. PlaneInv' /\ HistoryGrows /\ InboxGrows
  BY <1>1, PlaneFacts, PlaneUndisturbed, NothingChanges
<1>3. caller[c] \in Caller /\ caller[c].pc = "deliver" /\ Grounded(caller[c])
  BY PlaneFacts DEF CheckDelivered, CallerInv, CallersAreGrounded
<1>4. CASE \A v \in caller[c].events : outbox[v].status = "delivered"
  <2>1. caller' = [caller EXCEPT ![c] = [caller[c] EXCEPT !.pc = "ready"]]
    BY <1>4, PlaneFacts DEF CheckDelivered
  <2>2. caller[c].events # {} /\ \A v \in caller[c].events : inbox[v] # "none"
    BY <1>3, <1>4, PlaneFacts DEF Grounded, Caller, SettledInv, DeliveredWasTaken
  <2>3. /\ caller' = [caller EXCEPT ![c] = caller'[c]]
        /\ caller'[c] \in Caller /\ Grounded(caller[c])' /\ Ready(caller[c])'
    BY <1>1, <1>3, <2>1, <2>2, PlaneFacts
       DEF Caller, CallerSteps, Grounded, Ready, billingVars
  <2> QED BY <1>1, <1>2, <2>3, PlaneFacts, CallerStep
<1>5. CASE ~ \A v \in caller[c].events : outbox[v].status = "delivered"
  <2>1. caller' = [caller EXCEPT ![c] = IdleCaller]
    BY <1>5 DEF CheckDelivered
  <2> QED BY <1>1, <1>2, <2>1, PlaneFacts, IdleKeeps, CallerStep
<1> QED BY <1>4, <1>5

LEMMA AnswerReadyKeeps ==
  ASSUME IInv, NEW c \in Callers, AnswerReady(c)
  PROVE  CallerInv' /\ PlaneInv'
<1>1. UNCHANGED <<outboxVars, billingVars, dispatch>> /\ CoreTypeOK'
  BY PlaneFacts DEF AnswerReady, CoreTypeOK
<1>2. PlaneInv' /\ HistoryGrows /\ InboxGrows
  BY <1>1, PlaneFacts, PlaneUndisturbed, NothingChanges
<1>3. caller' = [caller EXCEPT ![c] = IdleCaller]
  BY DEF AnswerReady
<1> QED BY <1>1, <1>2, <1>3, PlaneFacts, IdleKeeps, CallerStep

LEMMA ActivationDiesKeeps ==
  ASSUME IInv, NEW c \in Activations, ActivationDies(c)
  PROVE  CallerInv' /\ PlaneInv'
<1>1. c \in Callers /\ c \in Dispatchers
  BY CallersAssumption, DispatchersAssumption
<1>2. PlaneInv' /\ HistoryGrows /\ InboxGrows
  BY <1>1, AbandonBatchKeeps DEF ActivationDies
<1>3. CoreTypeOK' /\ caller' = [caller EXCEPT ![c] = IdleCaller]
  BY PlaneFacts DEF ActivationDies, CoreTypeOK
<1> QED BY <1>1, <1>2, <1>3, PlaneFacts, IdleKeeps, CallerStep

-----------------------------------------------------------------------------
(* The invariant *)

LEMMA CoreChangesKeeps ==
  ASSUME IInv, CoreChanges
  PROVE  CallerInv' /\ PlaneInv' /\ ActivationsInTurn'
<1>1. /\ UNCHANGED <<outboxVars, billingVars, dispatch, caller, appRuns>>
      /\ CoreTypeOK'
  <2>1. CASE \E s \in Subscriptions : ChangeSubscription(s)
    <3>1. PICK s \in Subscriptions : ChangeSubscription(s)
      BY <2>1
    <3>2. PICK status \in SubscriptionStates :
            /\ subs' = [subs EXCEPT ![s] = status]
            /\ \/ subVersion' = [subVersion EXCEPT ![s] = 0]
               \/ subVersion' = subVersion
      BY <3>1 DEF ChangeSubscription
    <3>3. subs \in [Subscriptions -> SubscriptionStates]
          /\ subVersion \in [Subscriptions -> 0 .. MaxVersion]
      BY PlaneFacts DEF CoreTypeOK
    <3>4. subs' \in [Subscriptions -> SubscriptionStates]
          /\ subVersion' \in [Subscriptions -> 0 .. MaxVersion]
      BY <3>2, <3>3, MaxVersionAssumption
    <3> QED BY <3>1, <3>4, PlaneFacts DEF CoreChanges, ChangeSubscription, CoreTypeOK
  <2>2. CASE ChangeStanding
    BY <2>2, PlaneFacts DEF CoreChanges, ChangeStanding, CoreTypeOK
  <2>3. CASE ArchivePublished
    BY <2>3, PlaneFacts DEF CoreChanges, ArchivePublished, CoreTypeOK
  <2>4. CASE PromoteDraft
    BY <2>4, PlaneFacts DEF CoreChanges, PromoteDraft, CoreTypeOK
  <2> QED BY <2>1, <2>2, <2>3, <2>4 DEF CoreChanges
<1>2. PlaneInv'
  BY <1>1, PlaneFacts, PlaneUndisturbed
<1>3. EnqueueTypeOK'
  BY <1>1, PlaneFacts DEF EnqueueTypeOK, CoreTypeOK
<1>4. CallersAreGrounded' /\ ReadyWasTaken' /\ ActivationsInTurn'
  BY <1>1, PlaneFacts
     DEF CallerInv, CallersAreGrounded, Grounded, ReadyWasTaken, ActivationsInTurn,
         outboxVars, billingVars, Published
<1> QED BY <1>2, <1>3, <1>4 DEF CallerInv

(* A caller that is not waiting for its events leaves the turn as it is.    *)
LEMMA TurnKept ==
  ASSUME IInv, NEW c \in Callers, caller[c].pc # "deliver", UNCHANGED dispatch,
         caller' = [caller EXCEPT ![c] = caller'[c]]
  PROVE  ActivationsInTurn'
BY PlaneFacts, CallersAssumption DEF ActivationsInTurn

LEMMA CallerMovesKeeps ==
  ASSUME IInv, NEW c \in Callers, CallerMoves(c)
  PROVE  CallerInv' /\ PlaneInv' /\ ActivationsInTurn'
<1>1. CallerInv' /\ PlaneInv'
  <2>1. CASE QuietStep(c) /\ UNCHANGED <<outboxVars, billingVars, dispatch>>
    BY <2>1, PlaneFacts, QuietStepKeeps, PlaneUndisturbed
  <2>2. CASE CreateEvent(c) /\ UNCHANGED <<billingVars, dispatch>>
    BY <2>2, CreateEventKeeps
  <2>3. CASE CreateRun(c) /\ UNCHANGED <<billingVars, dispatch>>
    BY <2>3, CreateRunKeeps
  <2>4. CASE LinkRun(c) /\ UNCHANGED <<billingVars, dispatch>>
    BY <2>4, LinkRunKeeps
  <2> QED BY <2>1, <2>2, <2>3, <2>4 DEF CallerMoves
<1>2. UNCHANGED dispatch
  BY DEF CallerMoves
<1>3. caller[c].pc # "deliver" /\ caller' = [caller EXCEPT ![c] = caller'[c]]
  <2>1. \E x : caller' = [caller EXCEPT ![c] = x]
    BY DEF CallerMoves, QuietStep, Reconcile, UpdateOrganizationStatus, Activate,
           StartReconcile, ReadStanding, ReadManifest, ReadSubscriptions,
           NothingToGrant, AlreadyPublished, RowDone,
           DecideNewEvent, StampSubscriptions, EnqueueAborts, CreateEvent, CreateRun,
           LinkRun
  <2>2. caller[c].pc # "deliver"
    BY DEF CallerMoves, QuietStep, Reconcile, UpdateOrganizationStatus, Activate,
           ReadStanding, ReadManifest, ReadSubscriptions, NothingToGrant,
           AlreadyPublished, DecideNewEvent,
           StampSubscriptions, EnqueueAborts, CreateEvent, CreateRun, LinkRun
  <2> QED BY <2>1, <2>2, PlaneFacts
<1>4. ActivationsInTurn'
  BY <1>2, <1>3, TurnKept
<1> QED BY <1>1, <1>4

LEMMA ActivationMovesKeeps ==
  ASSUME IInv, NEW c \in Activations, ActivationMoves(c)
  PROVE  CallerInv' /\ PlaneInv' /\ ActivationsInTurn'
<1>1. c \in Callers /\ c \in Dispatchers /\ caller \in [Callers -> Caller]
  BY CallersAssumption, DispatchersAssumption, PlaneFacts
<1>2. CASE \E free \in SUBSET caller[c].events : ClaimByIds(c, free)
  <2>1. CallerInv' /\ PlaneInv'
    BY <1>2, ClaimByIdsKeeps
  <2>2. \A b \in Activations : b # c =>
          dispatch'[b] = dispatch[b] /\ caller'[b] = caller[b]
    <3>1. PICK free \in SUBSET caller[c].events : ClaimByIds(c, free)
      BY <1>2
    <3>2. PICK S : S = {v \in caller[c].events : Claimable(v, free)}
      OBVIOUS
    <3>3. caller' = [caller EXCEPT ![c].pc = "deliver"] /\ (UNCHANGED dispatch \/ Begin(c, S))
      BY <3>1, <3>2 DEF ClaimByIds
    <3> QED
      BY <1>1, <3>3, CallersAssumption, DispatchersAssumption, PlaneFacts
         DEF Begin, DispatchTypeOK
  <2>3. caller'[c].pc = "deliver"
    BY <1>1, <1>2 DEF ClaimByIds, Caller
  <2> QED BY <2>1, <2>2, <2>3, PlaneFacts DEF ActivationsInTurn
<1>3. CASE CheckDelivered(c)
  <2>1. CallerInv' /\ PlaneInv'
    BY <1>1, <1>3, CheckDeliveredKeeps
  <2>2. /\ dispatch[c].pc = "idle" /\ UNCHANGED dispatch
        /\ \A b \in Activations : b # c => caller'[b] = caller[b]
    BY <1>1, <1>3, CallersAssumption DEF CheckDelivered
  <2> QED BY <2>1, <2>2, PlaneFacts DEF ActivationsInTurn
<1>4. CASE AnswerReady(c)
  <2>1. CallerInv' /\ PlaneInv'
    BY <1>1, <1>4, AnswerReadyKeeps
  <2>2. caller[c].pc # "deliver" /\ UNCHANGED dispatch
        /\ caller' = [caller EXCEPT ![c] = caller'[c]]
    BY <1>1, <1>4 DEF AnswerReady
  <2> QED BY <1>1, <2>1, <2>2, TurnKept
<1>5. CASE ActivationDies(c)
  <2>1. CallerInv' /\ PlaneInv'
    BY <1>5, ActivationDiesKeeps
  <2>2. /\ dispatch'[c].pc = "idle"
        /\ \A b \in Activations : b # c =>
             dispatch'[b] = dispatch[b] /\ caller'[b] = caller[b]
    BY <1>1, <1>5, CallersAssumption, PlaneFacts
       DEF ActivationDies, AbandonBatch, DispatchTypeOK, IdleDispatch
  <2> QED BY <2>1, <2>2, PlaneFacts DEF ActivationsInTurn
<1> QED BY <1>2, <1>3, <1>4, <1>5 DEF ActivationMoves

LEMMA DispatcherMovesKeeps ==
  ASSUME IInv, NEW d \in Dispatchers, DispatcherMoves(d)
  PROVE  CallerInv' /\ PlaneInv' /\ ActivationsInTurn'
<1>1. PlaneInv' /\ HistoryGrows /\ InboxGrows
  BY ClaimBatchKeeps, AbandonBatchKeeps, SendEventKeeps, TimeOutKeeps,
     ConfirmDeliveryKeeps, ConfirmationThrowsKeeps, RecordFailureKeeps
     DEF DispatcherMoves
<1>2. CallerInv' /\ UNCHANGED caller
  BY <1>1, PlaneFacts, CallersUndisturbed DEF DispatcherMoves, enqueueVars
<1>3. \A b \in Dispatchers : b # d => dispatch'[b] = dispatch[b]
  BY PlaneFacts
     DEF DispatcherMoves, ClaimBatch, Begin, AbandonBatch, SendEvent, TimeOut,
         ConfirmDelivery, ConfirmationThrows, RecordFailure, Advance, DispatchTypeOK
<1>4. d \in Workers \/ dispatch[d].pc # "idle"
  BY DEF DispatcherMoves, SendEvent, TimeOut, ConfirmDelivery, ConfirmationThrows,
         RecordFailure
<1>5. ActivationsInTurn'
  BY <1>2, <1>3, <1>4, PlaneFacts, DispatchersAssumption, CallersAssumption
     DEF ActivationsInTurn
<1> QED BY <1>1, <1>2, <1>5

LEMMA BillingMovesKeeps ==
  ASSUME IInv, BillingMoves, UNCHANGED enqueueVars
  PROVE  CallerInv' /\ PlaneInv' /\ ActivationsInTurn'
<1>1. PICK r \in requests : BillingStep(r)
  BY DEF BillingMoves
<1>2. UNCHANGED <<outboxVars, dispatch>>
  BY DEF BillingMoves
<1>3. PlaneInv' /\ HistoryGrows /\ InboxGrows
  BY <1>1, <1>2, AnswerDuplicateKeeps, ReadConnectionKeeps, CommitEventKeeps, RefusalKeeps
     DEF BillingStep
<1>4. CallerInv'
  BY <1>3, PlaneFacts, CallersUndisturbed
<1>5. ActivationsInTurn'
  BY <1>2, PlaneFacts DEF ActivationsInTurn, enqueueVars
<1> QED BY <1>3, <1>4, <1>5

LEMMA StutterKeeps ==
  ASSUME IInv, UNCHANGED vars
  PROVE  CallerInv' /\ PlaneInv' /\ ActivationsInTurn'
<1>1. UNCHANGED <<enqueueVars, outboxVars, billingVars, dispatch>>
  BY DEF vars
<1>2. PlaneInv' /\ HistoryGrows /\ InboxGrows
  BY <1>1, PlaneFacts, PlaneUndisturbed, NothingChanges
<1>3. CallerInv'
  BY <1>1, <1>2, PlaneFacts, CallersUndisturbed
<1>4. ActivationsInTurn'
  BY <1>1, PlaneFacts DEF ActivationsInTurn, enqueueVars
<1> QED BY <1>2, <1>3, <1>4

(* Every step keeps the invariant. *)
LEMMA StepInvariant == IInv /\ [Next]_vars => IInv'
<1> SUFFICES ASSUME IInv, [Next]_vars PROVE CallerInv' /\ PlaneInv' /\ ActivationsInTurn'
  BY DEF IInv, TypeOK, CallerInv, PlaneInv, PlaneTypeOK, RowsInv, TrafficInv, SettledInv
<1>1. CASE CoreChanges
  BY <1>1, CoreChangesKeeps
<1>2. CASE \E c \in Callers : CallerMoves(c)
  BY <1>2, CallerMovesKeeps
<1>3. CASE \E c \in Activations : ActivationMoves(c)
  BY <1>3, ActivationMovesKeeps
<1>4. CASE \E d \in Dispatchers : DispatcherMoves(d)
  BY <1>4, DispatcherMovesKeeps
<1>5. CASE BillingMoves /\ UNCHANGED enqueueVars
  BY <1>5, BillingMovesKeeps
<1>6. CASE \E o \in Operators : OperatorMoves(o)
  <2>1. PlaneInv' /\ HistoryGrows /\ InboxGrows /\ UNCHANGED enqueueVars
    BY <1>6, OperatorKeeps
  <2>2. UNCHANGED dispatch
    BY <1>6 DEF OperatorMoves
  <2> QED
    BY <2>1, <2>2, PlaneFacts, CallersUndisturbed DEF ActivationsInTurn, enqueueVars
<1>7. CASE UNCHANGED vars
  BY <1>7, StutterKeeps
<1> QED BY <1>1, <1>2, <1>3, <1>4, <1>5, <1>6, <1>7 DEF Next

(* The inductive invariant holds throughout.                                *)
THEOREM InvariantHolds == Spec => []IInv
<1>1. Init => IInv
  BY InitInvariant
<1>2. IInv /\ [Next]_vars => IInv'
  BY StepInvariant
<1> QED BY <1>1, <1>2, PTL DEF Spec

(* Every variable always has its type. *)
THEOREM TypesHold == Spec => []TypeOK
<1>1. IInv => TypeOK
  BY DEF IInv
<1> QED BY <1>1, InvariantHolds, PTL

(* Core never holds an event for delivered that Billing has no receipt for, *)
(* whatever is lost, duplicated, late or crashes.                           *)
THEOREM DeliveredWasTakenHolds == Spec => []DeliveredWasTaken
<1>1. IInv => DeliveredWasTaken
  BY DEF IInv
<1> QED BY <1>1, InvariantHolds, PTL

(* No run is reported succeeded for an event Billing has no receipt for.    *)
THEOREM SucceededRunWasTakenHolds == Spec => []SucceededRunWasTaken
<1>1. IInv => SucceededRunWasTaken
  BY DEF IInv
<1> QED BY <1>1, InvariantHolds, PTL

(* The connection in effect is an event exactly as Core published it.       *)
THEOREM ConnectionIsAsPublishedHolds == Spec => []ConnectionIsAsPublished
<1>1. IInv => ConnectionIsAsPublished
  BY DEF IInv
<1> QED BY <1>1, InvariantHolds, PTL

(* Concurrent reconciles never publish the same state twice in a row, and   *)
(* never leave a gap between two versions.                                  *)
THEOREM ConsecutiveEventsDifferHolds == Spec => []ConsecutiveEventsDiffer
<1>1. IInv => ConsecutiveEventsDiffer
  BY DEF IInv
<1> QED BY <1>1, InvariantHolds, PTL

(* An activation is told ready only when Billing took in all it waited for. *)
THEOREM ReadyWasTakenHolds == Spec => []ReadyWasTaken
<1>1. IInv => ReadyWasTaken
  BY DEF IInv
<1> QED BY <1>1, InvariantHolds, PTL

-----------------------------------------------------------------------------
(* The plane implements DeliveryContract: creating an outbox event is       *)
(* Publish, committing a Billing transaction is Take, a worker's or an      *)
(* activation's confirmation is Deliver, an operator's retry is Reopen, and *)
(* every other step changes nothing the contract sees.                      *)

(* What the contract sees of a step that only moves rows between the states *)
(* in which they are not delivered: nothing.                                *)
LEMMA Unseen ==
  ASSUME UNCHANGED <<inbox, connection>>,
         \A v \in Versions :
           /\ outbox'[v].payload = outbox[v].payload
           /\ outbox'[v].status = "delivered" <=> outbox[v].status = "delivered"
  PROVE  UNCHANGED Contract!contractVars
<1>1. [v \in Versions |-> outbox'[v].payload] = [v \in Versions |-> outbox[v].payload]
  OBVIOUS
<1>2. {v \in Versions : outbox'[v].status = "delivered"}
        = {v \in Versions : outbox[v].status = "delivered"}
  OBVIOUS
<1>3. {v \in Versions : inbox'[v] # "none"} = {v \in Versions : inbox[v] # "none"}
  OBVIOUS
<1> QED BY <1>1, <1>2, <1>3 DEF Contract!contractVars

LEMMA RowsUnseen ==
  ASSUME UNCHANGED <<outbox, inbox, connection>>
  PROVE  UNCHANGED Contract!contractVars
BY Unseen

LEMMA ContractInit == Init => Contract!Init
<1> SUFFICES ASSUME Init PROVE Contract!Init
  OBVIOUS
<1> USE DEF Init, OutboxInit, BillingInit, AbsentRow, NoConnection
<1>1. [v \in Versions |-> outbox[v].payload] = [v \in Versions |-> NoPayload]
  OBVIOUS
<1>2. {v \in Versions : outbox[v].status = "delivered"} = {}
  OBVIOUS
<1>3. {v \in Versions : inbox[v] # "none"} = {}
  OBVIOUS
<1> QED BY <1>1, <1>2, <1>3 DEF Contract!Init, Contract!Versions, Versions

LEMMA CreateEventPublishes ==
  ASSUME IInv, NEW c \in Callers, CreateEvent(c), UNCHANGED <<billingVars, dispatch>>
  PROVE  [Contract!Next]_(Contract!contractVars)
<1>1. PICK v : v = caller[c].version
  OBVIOUS
<1>2. caller[c] \in Caller /\ Grounded(caller[c]) /\ caller[c].pc = "create"
  BY PlaneFacts DEF CallerInv, CallersAreGrounded, CreateEvent
<1>3. v \in Versions /\ caller[c].payload \in Payload
  BY <1>1, <1>2 DEF Caller, Grounded
<1>4. CASE Published(v)
  BY <1>1, <1>4, RowsUnseen DEF CreateEvent, billingVars
<1>5. CASE ~Published(v)
  <2>0. PICK p \in Payload : p = caller[c].payload
    BY <1>3
  <2> DEFINE before == [u \in Versions |-> outbox[u].payload]
             after  == [u \in Versions |-> outbox'[u].payload]
  <2>1. /\ outbox'[v] = [status |-> "pending", linked |-> FALSE, payload |-> p]
        /\ \A u \in Versions : u # v => outbox'[u] = outbox[u]
    BY <1>1, <1>3, <1>5, <2>0, PlaneFacts DEF CreateEvent, OutboxTypeOK
  <2>2. before[v] = NoPayload /\ \A u \in Versions : u < v => before[u] # NoPayload
    BY <1>1, <1>2, <1>3, <1>5, PlaneFacts DEF RowsInv, HistoryIsComplete, Grounded
  <2>3. after = [before EXCEPT ![v] = p]
    <3>1. \A u \in Versions : outbox'[u].payload = IF u = v THEN p ELSE outbox[u].payload
      BY <2>1
    <3> QED BY <1>3, <3>1
  <2>4. {u \in Versions : outbox'[u].status = "delivered"}
          = {u \in Versions : outbox[u].status = "delivered"}
    BY <1>5, <2>1 DEF Published
  <2>5. UNCHANGED <<inbox, connection>>
    BY DEF billingVars
  <2>6. Contract!Publish(v, p)
    BY <2>2, <2>3, <2>4, <2>5 DEF Contract!Publish, Contract!Versions, Versions
  <2>7. v \in Contract!Versions
    BY <1>3 DEF Contract!Versions, Versions
  <2> QED BY <2>6, <2>7 DEF Contract!Next
<1> QED BY <1>4, <1>5

LEMMA CommitEventTakes ==
  ASSUME IInv, NEW r \in requests, CommitEvent(r), UNCHANGED <<outboxVars, dispatch>>
  PROVE  [Contract!Next]_(Contract!contractVars)
<1>1. PICK v : v = r.version
  OBVIOUS
<1>2. v \in Versions /\ Published(v) /\ inbox[v] = "none"
  BY <1>1, PlaneFacts
     DEF BillingTypeOK, Request, TrafficInv, RequestsCarryEvents, CommitEvent,
         BreaksUniqueness
<1>3. outbox[v].payload # NoPayload
  BY <1>2, PlaneFacts DEF RowsInv, HistoryIsComplete
<1>4. /\ inbox' = [inbox EXCEPT ![v] = IF Newer(r) THEN "applied" ELSE "ignored"]
      /\ connection' = IF Newer(r) THEN [version |-> v, payload |-> r.payload]
                                   ELSE connection
  BY <1>1 DEF CommitEvent
<1>5. {u \in Versions : inbox'[u] # "none"} = {u \in Versions : inbox[u] # "none"} \cup {v}
  BY <1>2, <1>4, PlaneFacts DEF BillingTypeOK
<1>6. \/ connection'.version = v
      \/ connection.version # 0 /\ connection'.version = connection.version
  <2>1. CASE Newer(r)
    BY <1>4, <2>1
  <2>2. CASE ~Newer(r)
    <3>1. connection # NoConnection
      BY <2>2, PlaneFacts DEF Newer, TrafficInv, RequestsCarryEvents
    <3> QED BY <1>4, <2>2, <3>1, PlaneFacts DEF TrafficInv, ConnectionHasReceipt
  <2> QED BY <2>1, <2>2
<1>7. UNCHANGED outbox
  BY DEF outboxVars
<1>8. Contract!Take(v)
  BY <1>2, <1>3, <1>5, <1>6, <1>7 DEF Contract!Take
<1> QED BY <1>2, <1>8 DEF Contract!Next, Contract!Versions, Versions

LEMMA BillingImplements ==
  ASSUME IInv, BillingMoves
  PROVE  [Contract!Next]_(Contract!contractVars)
<1>1. PICK r \in requests : BillingStep(r)
  BY DEF BillingMoves
<1>2. UNCHANGED <<outboxVars, dispatch>>
  BY DEF BillingMoves
<1>3. CASE CommitEvent(r)
  BY <1>2, <1>3, CommitEventTakes
<1>4. CASE AnswerDuplicate(r) \/ ReadConnection(r) \/ RejectEvent(r) \/ RollBack(r)
  BY <1>2, <1>4, RowsUnseen
     DEF AnswerDuplicate, ReadConnection, RejectEvent, RollBack, outboxVars
<1> QED BY <1>1, <1>3, <1>4 DEF BillingStep

(* Claimed rows were not delivered, and are not now.                        *)
LEMMA ClaimUnseen ==
  ASSUME IInv, NEW S \in SUBSET Versions,
         \A v \in S : outbox[v].status # "delivered",
         ClaimRows(S), UNCHANGED <<inbox, connection>>
  PROVE  UNCHANGED Contract!contractVars
<1>1. \A v \in Versions :
        /\ outbox'[v].payload = outbox[v].payload
        /\ outbox'[v].status = "delivered" <=> outbox[v].status = "delivered"
  BY PlaneFacts DEF ClaimRows, OutboxTypeOK, Row
<1> QED BY <1>1, Unseen

LEMMA ConfirmDeliveryDelivers ==
  ASSUME IInv, NEW d \in Dispatchers, ConfirmDelivery(d)
  PROVE  [Contract!Next]_(Contract!contractVars)
<1>1. PICK v \in Versions : v = dispatch[d].current
  BY PlaneFacts, WaitingFor DEF ConfirmDelivery
<1>2. MarkDelivered(v) /\ UNCHANGED <<connection, inbox>>
  BY <1>1 DEF ConfirmDelivery
<1>3. inbox[v] # "none"
  <2>1. replies[d].version # 0
    BY <1>1, MaxVersionAssumption, PlaneFacts
       DEF ConfirmDelivery, Accepted, Proves, Versions, BillingTypeOK, Reply
  <2> QED BY <1>1, <2>1, PlaneFacts DEF TrafficInv, RepliesAreProof
<1>4. CASE outbox[v].status = "processing"
  <2>1. outbox' = [outbox EXCEPT ![v].status = "delivered"]
    BY <1>2, <1>4 DEF MarkDelivered
  <2>2. [u \in Versions |-> outbox'[u].payload] = [u \in Versions |-> outbox[u].payload]
    BY <2>1, PlaneFacts DEF OutboxTypeOK, Row
  <2>3. {u \in Versions : outbox'[u].status = "delivered"}
          = {u \in Versions : outbox[u].status = "delivered"} \cup {v}
    BY <2>1, PlaneFacts DEF OutboxTypeOK, Row
  <2>4. Contract!Deliver(v)
    BY <1>2, <1>3, <2>2, <2>3 DEF Contract!Deliver
  <2> QED BY <2>4 DEF Contract!Next, Contract!Versions, Versions
<1>5. CASE outbox[v].status # "processing"
  BY <1>2, <1>5, RowsUnseen DEF MarkDelivered
<1> QED BY <1>4, <1>5

LEMMA DispatcherImplements ==
  ASSUME IInv, NEW d \in Dispatchers, DispatcherMoves(d)
  PROVE  [Contract!Next]_(Contract!contractVars)
<1>1. CASE \E free \in SUBSET Versions : ClaimBatch(d, free)
  <2>1. PICK free \in SUBSET Versions : ClaimBatch(d, free)
    BY <1>1
  <2>2. PICK S \in SUBSET Versions : S = NextBatch(free)
    BY DEF NextBatch
  <2>3. \A v \in S : outbox[v].status # "delivered"
    BY <2>2 DEF NextBatch, Claimable
  <2> QED BY <2>1, <2>2, <2>3, ClaimUnseen DEF ClaimBatch, billingVars
<1>2. CASE AbandonBatch(d) \/ TimeOut(d) \/ ConfirmationThrows(d)
           \/ \E v \in Versions : SendEvent(d, v)
  BY <1>2, RowsUnseen
     DEF AbandonBatch, TimeOut, ConfirmationThrows, SendEvent, outboxVars
<1>3. CASE ConfirmDelivery(d)
  BY <1>3, ConfirmDeliveryDelivers
<1>4. CASE RecordFailure(d)
  <2>1. PICK v \in Versions : v = dispatch[d].current
    BY <1>4, PlaneFacts, WaitingFor DEF RecordFailure
  <2>2. \A u \in Versions :
          /\ outbox'[u].payload = outbox[u].payload
          /\ outbox'[u].status = "delivered" <=> outbox[u].status = "delivered"
    BY <1>4, <2>1, PlaneFacts DEF RecordFailure, MarkFailed, OutboxTypeOK, Row
  <2> QED BY <1>4, <2>2, Unseen DEF RecordFailure
<1> QED BY <1>1, <1>2, <1>3, <1>4 DEF DispatcherMoves

LEMMA OperatorImplements ==
  ASSUME IInv, NEW o \in Operators, OperatorMoves(o)
  PROVE  [Contract!Next]_(Contract!contractVars)
<1>1. UNCHANGED <<inbox, connection>>
  BY DEF OperatorMoves, billingVars
<1>2. CASE RetryEvent(o)
  <2>1. PICK v \in Versions : v = retry[o].version
    BY <1>2, PlaneFacts
       DEF RetryEvent, RowsInv, RetriesHaveRows, OutboxTypeOK, RetryStep
  <2>2. outbox' = [outbox EXCEPT ![v].status = "pending"]
    BY <1>2, <2>1 DEF RetryEvent
  <2>3. [u \in Versions |-> outbox'[u].payload] = [u \in Versions |-> outbox[u].payload]
    BY <2>2, PlaneFacts DEF OutboxTypeOK, Row
  <2>4. {u \in Versions : outbox'[u].status = "delivered"}
          = {u \in Versions : outbox[u].status = "delivered"} \ {v}
    BY <2>2, PlaneFacts DEF OutboxTypeOK, Row
  <2>5. Contract!Reopen(v)
    BY <1>1, <2>3, <2>4 DEF Contract!Reopen
  <2> QED BY <2>5 DEF Contract!Next, Contract!Versions, Versions
<1>3. CASE (\E v \in Versions : RetryRead(o, v)) \/ RetryRun(o) \/ RetryAborts(o)
  BY <1>1, <1>3, RowsUnseen DEF RetryRead, RetryRun, RetryAborts
<1> QED BY <1>2, <1>3 DEF OperatorMoves

LEMMA CallerImplements ==
  ASSUME IInv, NEW c \in Callers, CallerMoves(c)
  PROVE  [Contract!Next]_(Contract!contractVars)
<1>1. CASE QuietStep(c) /\ UNCHANGED <<outboxVars, billingVars, dispatch>>
  BY <1>1, RowsUnseen DEF outboxVars, billingVars
<1>2. CASE CreateEvent(c) /\ UNCHANGED <<billingVars, dispatch>>
  BY <1>2, CreateEventPublishes
<1>3. CASE CreateRun(c) /\ UNCHANGED <<billingVars, dispatch>>
  BY <1>3, RowsUnseen DEF CreateRun, billingVars
<1>4. CASE LinkRun(c) /\ UNCHANGED <<billingVars, dispatch>>
  <2>1. \A u \in Versions :
          /\ outbox'[u].payload = outbox[u].payload
          /\ outbox'[u].status = "delivered" <=> outbox[u].status = "delivered"
    BY <1>4, PlaneFacts DEF LinkRun, OutboxTypeOK, Row
  <2> QED BY <1>4, <2>1, Unseen DEF billingVars
<1> QED BY <1>1, <1>2, <1>3, <1>4 DEF CallerMoves

LEMMA ActivationImplements ==
  ASSUME IInv, NEW c \in Activations, ActivationMoves(c)
  PROVE  [Contract!Next]_(Contract!contractVars)
<1>1. CASE \E free \in SUBSET caller[c].events : ClaimByIds(c, free)
  <2>1. PICK free \in SUBSET caller[c].events : ClaimByIds(c, free)
    BY <1>1
  <2>2. PICK S \in SUBSET Versions : S = {v \in caller[c].events : Claimable(v, free)}
    BY PlaneFacts, CallersAssumption DEF Caller
  <2>3. \A v \in S : outbox[v].status # "delivered"
    BY <2>2 DEF Claimable
  <2> QED BY <2>1, <2>2, <2>3, ClaimUnseen DEF ClaimByIds, billingVars
<1>2. CASE CheckDelivered(c) \/ AnswerReady(c) \/ ActivationDies(c)
  BY <1>2, RowsUnseen
     DEF CheckDelivered, AnswerReady, ActivationDies, AbandonBatch, outboxVars, billingVars
<1> QED BY <1>1, <1>2 DEF ActivationMoves

LEMMA StepImplements == IInv /\ [Next]_vars => [Contract!Next]_(Contract!contractVars)
<1> SUFFICES ASSUME IInv, [Next]_vars PROVE [Contract!Next]_(Contract!contractVars)
  OBVIOUS
<1>1. CASE CoreChanges \/ UNCHANGED vars
  BY <1>1, RowsUnseen DEF CoreChanges, vars, outboxVars, billingVars
<1>2. CASE \E c \in Callers : CallerMoves(c)
  BY <1>2, CallerImplements
<1>3. CASE \E c \in Activations : ActivationMoves(c)
  BY <1>3, ActivationImplements
<1>4. CASE \E d \in Dispatchers : DispatcherMoves(d)
  BY <1>4, DispatcherImplements
<1>5. CASE BillingMoves /\ UNCHANGED enqueueVars
  BY <1>5, BillingImplements
<1>6. CASE \E o \in Operators : OperatorMoves(o)
  BY <1>6, OperatorImplements
<1> QED BY <1>1, <1>2, <1>3, <1>4, <1>5, <1>6 DEF Next

(* The plane, with its overlaps, losses, crashes and retries, does nothing  *)
(* the delivery contract does not allow.                                    *)
THEOREM PlaneKeepsContract == Spec => KeepsContract
<1>1. Init => Contract!Init
  BY ContractInit
<1>2. IInv /\ [Next]_vars => [Contract!Next]_(Contract!contractVars)
  BY StepImplements
<1> QED BY <1>1, <1>2, InvariantHolds, PTL DEF Spec, KeepsContract, Contract!Spec

-----------------------------------------------------------------------------
(* When Billing's transactions do not overlap *)

(* Of the transactions that have read the connection and not written it,    *)
(* there is one at most.                                                    *)
OneTransaction == \A q, r \in requests : q.phase = "read" /\ r.phase = "read" => q = r

(* What was read is still so, and no answer says more than is in effect.    *)
ReadIsCurrent     == \A r \in requests : r.phase = "read" => r.seen = connection
AnswersAreCovered == \A d \in Dispatchers : replies[d].version <= connection.version

SerialInv == ReadIsCurrent /\ AnswersAreCovered /\ DeliveredIsInEffect

LEMMA SerialInit == Init => SerialInv
<1> SUFFICES ASSUME Init PROVE SerialInv
  OBVIOUS
<1>1. ReadIsCurrent /\ DeliveredIsInEffect
  BY DEF Init, BillingInit, OutboxInit, AbsentRow, ReadIsCurrent, DeliveredIsInEffect
<1>2. AnswersAreCovered
  BY DEF Init, BillingInit, NoReply, NoConnection, AnswersAreCovered
<1> QED BY <1>1, <1>2 DEF SerialInv

(* A step that leaves the connection, and brings no row to delivered and no *)
(* transaction to reading                                                   *)
LEMMA SerialUndisturbed ==
  ASSUME SerialInv, connection' = connection,
         \A r \in requests' : r.phase = "read" =>
           \E q \in requests : q.phase = "read" /\ q.seen = r.seen,
         \A d \in Dispatchers : replies'[d].version <= connection.version,
         \A v \in Versions :
           outbox'[v].status = "delivered" => outbox[v].status = "delivered"
  PROVE  SerialInv'
<1>1. ReadIsCurrent'
  BY DEF SerialInv, ReadIsCurrent
<1>2. AnswersAreCovered' /\ DeliveredIsInEffect'
  BY DEF SerialInv, AnswersAreCovered, DeliveredIsInEffect
<1> QED BY <1>1, <1>2 DEF SerialInv

LEMMA RowsSerial ==
  ASSUME SerialInv, UNCHANGED billingVars,
         \A v \in Versions :
           outbox'[v].status = "delivered" => outbox[v].status = "delivered"
  PROVE  SerialInv'
BY SerialUndisturbed DEF SerialInv, AnswersAreCovered, billingVars

LEMMA VersionsCounted ==
  ASSUME IInv
  PROVE  /\ connection.version \in 0..MaxVersion /\ MaxVersion \in Nat
         /\ \A d \in Dispatchers : replies[d].version \in 0..MaxVersion
BY PlaneFacts, MaxVersionAssumption DEF BillingTypeOK, Connection, Reply

(* No answer, or an error, says nothing.                                    *)
LEMMA NothingSaid ==
  ASSUME IInv, SerialInv, NEW d \in Dispatchers, NEW reply, reply.version <= connection.version,
         replies' = [replies EXCEPT ![d] = reply]
  PROVE  \A e \in Dispatchers : replies'[e].version <= connection.version
BY PlaneFacts DEF BillingTypeOK, SerialInv, AnswersAreCovered

LEMMA QuietReplies ==
  ASSUME IInv
  PROVE  NoReply.version <= connection.version /\ ErrorReply.version <= connection.version
BY VersionsCounted DEF NoReply, ErrorReply

LEMMA LeaveRequestSerial ==
  ASSUME IInv, NEW d \in Dispatchers, LeaveRequest(d), NEW r \in requests', r.phase = "read"
  PROVE  \E q \in requests : q.phase = "read" /\ q.seen = r.seen
<1>1. CASE r \in requests
  BY <1>1
<1>2. CASE r \notin requests
  <2>1. PICK q \in requests : r = [q EXCEPT !.from = NoOne]
    BY <1>2 DEF LeaveRequest
  <2>2. q \in Request
    BY PlaneFacts DEF BillingTypeOK
  <2>3. q.phase = r.phase /\ q.seen = r.seen
    BY <2>1, <2>2 DEF Request
  <2> QED BY <2>3
<1> QED BY <1>1, <1>2

LEMMA ConfirmDeliverySerial ==
  ASSUME IInv, SerialInv, NEW d \in Dispatchers, ConfirmDelivery(d)
  PROVE  SerialInv'
<1>1. PICK v \in Versions : v = dispatch[d].current
  BY PlaneFacts, WaitingFor DEF ConfirmDelivery
<1>2. /\ MarkDelivered(v) /\ UNCHANGED <<connection, inbox, requests>>
      /\ replies' = [replies EXCEPT ![d] = NoReply] /\ replies[d].version >= v
  BY <1>1 DEF ConfirmDelivery, Advance, Accepted, Proves
<1>3. connection.version >= v
  BY <1>1, <1>2, VersionsCounted DEF SerialInv, AnswersAreCovered, Versions
<1>4. \A u \in Versions : outbox'[u].status = "delivered" =>
        outbox[u].status = "delivered" \/ u = v
  BY <1>2, PlaneFacts DEF MarkDelivered, OutboxTypeOK
<1>5. ReadIsCurrent' /\ DeliveredIsInEffect'
  BY <1>2, <1>3, <1>4 DEF SerialInv, ReadIsCurrent, DeliveredIsInEffect
<1>6. AnswersAreCovered'
  BY <1>2, NothingSaid, QuietReplies DEF AnswersAreCovered
<1> QED BY <1>5, <1>6 DEF SerialInv

LEMMA DispatcherSerial ==
  ASSUME IInv, SerialInv, NEW d \in Dispatchers, DispatcherMoves(d)
  PROVE  SerialInv'
<1>1. CASE \E free \in SUBSET Versions : ClaimBatch(d, free)
  <2>1. PICK free \in SUBSET Versions : ClaimBatch(d, free)
    BY <1>1
  <2>2. PICK S : S = NextBatch(free)
    OBVIOUS
  <2>3. UNCHANGED billingVars /\ ClaimRows(S)
    BY <2>1, <2>2 DEF ClaimBatch
  <2>4. \A v \in Versions : outbox'[v].status = "delivered" => outbox[v].status = "delivered"
    BY <2>3, PlaneFacts DEF ClaimRows, OutboxTypeOK, Row
  <2> QED BY <2>3, <2>4, RowsSerial
<1>2. CASE AbandonBatch(d) \/ TimeOut(d)
  <2>1. /\ LeaveRequest(d) /\ UNCHANGED <<outbox, connection>>
        /\ \/ replies' = [replies EXCEPT ![d] = NoReply]
           \/ replies' = [replies EXCEPT ![d] = ErrorReply]
    BY <1>2 DEF AbandonBatch, TimeOut, outboxVars
  <2>2. \A e \in Dispatchers : replies'[e].version <= connection.version
    BY <2>1, NothingSaid, QuietReplies
  <2> QED BY <2>1, <2>2, LeaveRequestSerial, SerialUndisturbed
<1>3. CASE \E v \in Versions : SendEvent(d, v)
  <2>1. PICK v \in Versions : SendEvent(d, v)
    BY <1>3
  <2>2. /\ UNCHANGED <<outbox, connection, replies>>
        /\ \A r \in requests' : r \in requests \/ r.phase = "sent"
    BY <2>1 DEF SendEvent, outboxVars
  <2> QED BY <2>2, SerialUndisturbed DEF SerialInv, AnswersAreCovered
<1>4. CASE ConfirmDelivery(d)
  BY <1>4, ConfirmDeliverySerial
<1>5. CASE ConfirmationThrows(d) \/ RecordFailure(d)
  <2>1. /\ UNCHANGED <<connection, requests>>
        /\ \/ replies' = [replies EXCEPT ![d] = NoReply]
           \/ replies' = [replies EXCEPT ![d] = ErrorReply]
    BY <1>5 DEF ConfirmationThrows, RecordFailure, Advance
  <2>2. \A e \in Dispatchers : replies'[e].version <= connection.version
    BY <2>1, NothingSaid, QuietReplies
  <2>3. \A v \in Versions : outbox'[v].status = "delivered" => outbox[v].status = "delivered"
    BY <1>5, PlaneFacts
       DEF ConfirmationThrows, RecordFailure, MarkFailed, outboxVars, OutboxTypeOK, Row
  <2> QED BY <2>1, <2>2, <2>3, SerialUndisturbed
<1> QED BY <1>1, <1>2, <1>3, <1>4, <1>5 DEF DispatcherMoves

(* A transaction that is the only one to have read writes a newer version,  *)
(* or none, and answers with what is in effect.                             *)
LEMMA CommitSerial ==
  ASSUME IInv, SerialInv, OneTransaction, NEW r \in requests, CommitEvent(r)
  PROVE  /\ connection'.version >= connection.version
         /\ \A q \in requests' : q.phase # "read"
         /\ \A d \in Dispatchers : replies'[d].version <= connection'.version
<1>1. r \in Request /\ r.seen = connection /\ r.phase = "read"
  BY PlaneFacts DEF BillingTypeOK, SerialInv, ReadIsCurrent, CommitEvent
<1>2. r.version \in 0..MaxVersion /\ connection.version \in 0..MaxVersion /\ MaxVersion \in Nat
  BY <1>1, VersionsCounted DEF Request, Versions
<1>3. /\ connection' = IF Newer(r) THEN [version |-> r.version, payload |-> r.payload]
                                   ELSE connection
      /\ Answer(r, Receipt(IF Newer(r) THEN connection' ELSE connection))
  BY <1>1 DEF CommitEvent
<1>4. Newer(r) => r.version >= connection.version
  BY <1>1, <1>2 DEF Newer, NoConnection
<1>5. connection'.version >= connection.version /\ connection'.version \in 0..MaxVersion
  BY <1>2, <1>3, <1>4
<1>6. \A q \in requests' : q.phase # "read"
  BY <1>1, <1>3 DEF Answer, OneTransaction
<1>7. PICK a : a = Receipt(IF Newer(r) THEN connection' ELSE connection)
  OBVIOUS
<1>8. a.version <= connection'.version
  BY <1>2, <1>3, <1>5, <1>7 DEF Receipt
<1>9. ASSUME NEW d \in Dispatchers PROVE replies'[d].version <= connection'.version
  <2>1. replies'[d] = replies[d] \/ replies'[d] = a
    BY <1>3, <1>7, PlaneFacts DEF Answer, BillingTypeOK
  <2>2. replies[d].version <= connection'.version
    BY <1>2, <1>5, VersionsCounted DEF SerialInv, AnswersAreCovered
  <2> QED BY <1>8, <2>1, <2>2
<1> QED BY <1>5, <1>6, <1>9

LEMMA AnswerSerial ==
  ASSUME IInv, SerialInv, NEW r \in requests, NEW reply, Answer(r, reply),
         reply.version <= connection.version, UNCHANGED <<connection, outbox>>
  PROVE  SerialInv'
<1>1. \A d \in Dispatchers : replies'[d].version <= connection.version
  <2>1. CASE r.from = NoOne
    BY <2>1 DEF Answer, SerialInv, AnswersAreCovered
  <2>2. CASE r.from # NoOne
    <3>1. r.from \in Dispatchers
      BY <2>2, PlaneFacts DEF BillingTypeOK, Request
    <3> QED BY <2>2, <3>1, NothingSaid DEF Answer
  <2> QED BY <2>1, <2>2
<1>2. requests' \subseteq requests
  BY DEF Answer
<1> QED BY <1>1, <1>2, SerialUndisturbed

LEMMA BillingSerial ==
  ASSUME IInv, SerialInv, OneTransaction, BillingMoves
  PROVE  SerialInv'
<1>1. PICK r \in requests : BillingStep(r)
  BY DEF BillingMoves
<1>2. UNCHANGED outbox
  BY DEF BillingMoves, outboxVars
<1>3. CASE CommitEvent(r)
  <2>1. /\ connection'.version >= connection.version
        /\ \A q \in requests' : q.phase # "read"
        /\ \A d \in Dispatchers : replies'[d].version <= connection'.version
    BY <1>3, CommitSerial
  <2>2. IInv => connection.version \in Int
    BY VersionsCounted
  <2>3. connection'.version \in Int
    <3>1. r.version \in Int
      BY PlaneFacts, MaxVersionAssumption DEF BillingTypeOK, Request, Versions
    <3> QED BY <1>3, <2>2, <3>1 DEF CommitEvent
  <2>4. \A v \in Versions : v \in Int
    BY DEF Versions
  <2>5. DeliveredIsInEffect'
    BY <1>2, <2>1, <2>2, <2>3, <2>4 DEF SerialInv, DeliveredIsInEffect
  <2> QED BY <2>1, <2>5 DEF SerialInv, ReadIsCurrent, AnswersAreCovered
<1>4. CASE AnswerDuplicate(r)
  <2>1. Receipt(connection).version <= connection.version
    BY VersionsCounted DEF Receipt
  <2> QED BY <1>2, <1>4, <2>1, AnswerSerial DEF AnswerDuplicate
<1>5. CASE RejectEvent(r) \/ RollBack(r)
  BY <1>2, <1>5, QuietReplies, AnswerSerial DEF RejectEvent, RollBack
<1>6. CASE ReadConnection(r)
  <2>1. PICK q : q = [r EXCEPT !.phase = "read", !.seen = connection]
    OBVIOUS
  <2>2. r \in Request
    BY PlaneFacts DEF BillingTypeOK
  <2>3. q.seen = connection /\ UNCHANGED <<connection, replies>>
        /\ requests' = (requests \ {r}) \cup {q}
    BY <1>6, <2>1, <2>2 DEF ReadConnection, Request
  <2>4. ReadIsCurrent'
    BY <2>3 DEF SerialInv, ReadIsCurrent
  <2> QED BY <1>2, <2>3, <2>4 DEF SerialInv, AnswersAreCovered, DeliveredIsInEffect
<1> QED BY <1>1, <1>3, <1>4, <1>5, <1>6 DEF BillingStep

LEMMA OthersSerial ==
  ASSUME IInv, SerialInv,
         \/ CoreChanges
         \/ \E c \in Callers : CallerMoves(c)
         \/ \E c \in Activations : ActivationMoves(c)
         \/ \E o \in Operators : OperatorMoves(o)
         \/ UNCHANGED vars
  PROVE  SerialInv'
<1>1. CASE CoreChanges \/ UNCHANGED vars
  BY <1>1, RowsSerial DEF CoreChanges, vars, outboxVars
<1>2. ASSUME NEW c \in Callers, CallerMoves(c) PROVE SerialInv'
  <2>1. UNCHANGED billingVars
    BY <1>2 DEF CallerMoves
  <2>2. caller[c].version \in Versions \cup {0}
    BY PlaneFacts DEF CallerInv, EnqueueTypeOK, Caller
  <2>3. \A v \in Versions : outbox'[v].status = "delivered" => outbox[v].status = "delivered"
    BY <1>2, <2>2, PlaneFacts
       DEF CallerMoves, CreateEvent, CreateRun, LinkRun, outboxVars, OutboxTypeOK, Row
  <2> QED BY <2>1, <2>3, RowsSerial
<1>3. ASSUME NEW c \in Activations, ActivationMoves(c) PROVE SerialInv'
  <2>1. c \in Dispatchers
    BY DispatchersAssumption
  <2>2. CASE \E free \in SUBSET caller[c].events : ClaimByIds(c, free)
    <3>1. PICK S : ClaimRows(S) /\ UNCHANGED billingVars
      BY <2>2 DEF ClaimByIds
    <3>2. \A v \in Versions : outbox'[v].status = "delivered" => outbox[v].status = "delivered"
      BY <3>1, PlaneFacts DEF ClaimRows, OutboxTypeOK, Row
    <3> QED BY <3>1, <3>2, RowsSerial
  <2>3. CASE CheckDelivered(c) \/ AnswerReady(c)
    BY <2>3, RowsSerial DEF CheckDelivered, AnswerReady, outboxVars
  <2>4. CASE ActivationDies(c)
    <3>1. /\ LeaveRequest(c) /\ UNCHANGED <<outbox, connection>>
          /\ replies' = [replies EXCEPT ![c] = NoReply]
      BY <2>4 DEF ActivationDies, AbandonBatch, outboxVars
    <3>2. \A e \in Dispatchers : replies'[e].version <= connection.version
      BY <2>1, <3>1, NothingSaid, QuietReplies
    <3> QED BY <2>1, <3>1, <3>2, LeaveRequestSerial, SerialUndisturbed
  <2> QED BY <1>3, <2>2, <2>3, <2>4 DEF ActivationMoves
<1>4. ASSUME NEW o \in Operators, OperatorMoves(o) PROVE SerialInv'
  <2>1. UNCHANGED billingVars
    BY <1>4 DEF OperatorMoves
  <2>2. \A v \in Versions : outbox'[v].status = "delivered" => outbox[v].status = "delivered"
    BY <1>4, PlaneFacts
       DEF OperatorMoves, RetryRead, RetryEvent, RetryRun, RetryAborts, OutboxTypeOK, Row
  <2> QED BY <2>1, <2>2, RowsSerial
<1> QED BY <1>1, <1>2, <1>3, <1>4

LEMMA SerialStep == IInv /\ SerialInv /\ OneTransaction /\ [Next]_vars => SerialInv'
<1> SUFFICES ASSUME IInv, SerialInv, OneTransaction, [Next]_vars PROVE SerialInv'
  OBVIOUS
<1>1. CASE \E d \in Dispatchers : DispatcherMoves(d)
  BY <1>1, DispatcherSerial
<1>2. CASE BillingMoves /\ UNCHANGED enqueueVars
  BY <1>2, BillingSerial
<1> QED BY <1>1, <1>2, OthersSerial DEF Next

(* Only a commit writes the connection.                                     *)
LEMMA NewerStep ==
  IInv /\ SerialInv /\ OneTransaction /\ [Next]_vars
    => [connection'.version >= connection.version]_connection
<1> SUFFICES ASSUME IInv, SerialInv, OneTransaction, Next, connection' # connection
             PROVE  connection'.version >= connection.version
  BY DEF vars, billingVars
<1>1. BillingMoves
  BY DEF Next, CoreChanges, CallerMoves, ActivationMoves, DispatcherMoves, OperatorMoves,
         ClaimByIds, CheckDelivered, AnswerReady, ActivationDies, AbandonBatch, ClaimBatch,
         SendEvent, TimeOut, ConfirmDelivery, ConfirmationThrows, RecordFailure, billingVars
<1>2. PICK r \in requests : CommitEvent(r)
  BY <1>1 DEF BillingMoves, BillingStep, AnswerDuplicate, ReadConnection, RejectEvent, RollBack
<1> QED BY <1>2, CommitSerial

(* As long as no two transactions of Billing overlap, every row that counts *)
(* as delivered is in effect, or something newer is: whatever dispatchers   *)
(* overlap, whatever answers are lost, whoever dies.                        *)
THEOREM SerialDeliveriesTakeEffect == Spec /\ []OneTransaction => []DeliveredIsInEffect
<1>1. SerialInv => DeliveredIsInEffect
  BY DEF SerialInv
<1> QED BY <1>1, SerialInit, SerialStep, InvariantHolds, PTL DEF Spec

(* And a newer state is never replaced by an older one.                     *)
THEOREM SerialDeliveriesKeepNewest == Spec /\ []OneTransaction => NewestWins
<1> QED BY SerialInit, SerialStep, NewerStep, InvariantHolds, PTL DEF Spec, NewestWins

(* A single dispatcher whose requests do not outlive it                     *)
NobodyLeft == Orphans = {}
OneDispatcher == MaxOrphans = 0 /\ \A d, e \in Dispatchers : d = e

LEMMA NobodyLeftStep == MaxOrphans = 0 /\ IInv /\ NobodyLeft /\ [Next]_vars => NobodyLeft'
<1> SUFFICES ASSUME MaxOrphans = 0, IInv, NobodyLeft, [Next]_vars,
                    NEW r \in requests', r.from = NoOne
             PROVE  FALSE
  BY DEF NobodyLeft, Orphans
<1>1. \A q \in requests : q.from # NoOne /\ q \in Request
  BY PlaneFacts DEF NobodyLeft, Orphans, BillingTypeOK
<1>2. r \notin requests
  BY <1>1
<1>3. ASSUME NEW d \in Dispatchers, LeaveRequest(d) PROVE FALSE
  <2>1. ~ (Cardinality(Orphans) < MaxOrphans)
    BY FS_EmptySet DEF NobodyLeft
  <2> QED BY <1>2, <1>3, <2>1 DEF LeaveRequest
<1>4. ASSUME NEW d \in Dispatchers, NEW v \in Versions, SendEvent(d, v) PROVE FALSE
  <2>1. r.from = d
    BY <1>2, <1>4 DEF SendEvent
  <2> QED BY <2>1, NoOneAssumption
<1>5. ASSUME NEW q \in requests, BillingStep(q) PROVE FALSE
  <2>1. r = [q EXCEPT !.phase = "read", !.seen = connection]
    BY <1>2, <1>5 DEF BillingStep, AnswerDuplicate, ReadConnection, CommitEvent, RejectEvent,
                      RollBack, Answer
  <2> QED BY <1>1, <2>1 DEF Request
<1>6. Activations \subseteq Dispatchers
  BY DispatchersAssumption
<1>7. requests' # requests
  BY <1>2
<1>8. \/ \E d \in Dispatchers : LeaveRequest(d)
      \/ \E d \in Dispatchers, v \in Versions : SendEvent(d, v)
      \/ \E q \in requests : BillingStep(q)
  BY <1>6, <1>7 DEF Next, CoreChanges, CallerMoves, ActivationMoves, DispatcherMoves,
         OperatorMoves, ClaimByIds, CheckDelivered, AnswerReady, ActivationDies, AbandonBatch,
         ClaimBatch, TimeOut, ConfirmDelivery, ConfirmationThrows, RecordFailure,
         BillingMoves, billingVars, vars
<1> QED BY <1>3, <1>4, <1>5, <1>8

(* One worker, and nobody who activates: then transactions do not overlap,  *)
(* so that all of this holds without another hypothesis.                    *)
THEOREM OneDispatcherSuffices ==
  ASSUME OneDispatcher
  PROVE  Spec => []OneTransaction /\ []DeliveredIsInEffect /\ NewestWins
<1>1. Init => NobodyLeft
  BY DEF Init, BillingInit, NobodyLeft, Orphans
<1>2. IInv /\ NobodyLeft => OneTransaction
  <2> SUFFICES ASSUME IInv, NobodyLeft, NEW q \in requests, NEW r \in requests
               PROVE  q = r
    BY DEF OneTransaction
  <2>1. q.from \in Dispatchers /\ r.from \in Dispatchers /\ q.from # NoOne
    BY PlaneFacts DEF NobodyLeft, Orphans, BillingTypeOK, Request
  <2> QED BY <2>1, PlaneFacts DEF OneDispatcher, TrafficInv, RequestsAreCurrent
<1>3. IInv /\ NobodyLeft /\ [Next]_vars => NobodyLeft'
  BY NobodyLeftStep DEF OneDispatcher
<1>4. Spec => []OneTransaction
  BY <1>1, <1>2, <1>3, InvariantHolds, PTL DEF Spec
<1> QED BY <1>4, SerialDeliveriesTakeEffect, SerialDeliveriesKeepNewest, PTL
=============================================================================
