-------------------------- MODULE FinanceProvisioning ------------------------
(***************************************************************************)
(* The finance provisioning plane as a whole: callers that reconcile one   *)
(* <organization, application> pair, background workers that dispatch its  *)
(* outbox events, activations that do both and wait, Billing that applies  *)
(* the events, operators that retry, and failures throughout.              *)
(***************************************************************************)
EXTENDS FinanceEnqueue, FinanceDispatch

ASSUME DispatchersAssumption ==
  /\ Dispatchers = Workers \cup Activations
  /\ Workers \cap Callers = {}

vars == <<enqueueVars, outboxVars, billingVars, dispatch>>

TypeOK ==
  /\ EnqueueTypeOK
  /\ OutboxTypeOK
  /\ BillingTypeOK
  /\ DispatchTypeOK

Init == EnqueueInit /\ OutboxInit /\ BillingInit /\ DispatchInit

-----------------------------------------------------------------------------
(* ensureFinanceProvisioningDelivered, for an activation *)

ClaimByIds(c, free) ==
  LET claimed == {v \in caller[c].events : Claimable(v, free)} IN
  /\ caller[c].pc = "claim"
  /\ ClaimRows(claimed)
  /\ IF claimed = {} THEN UNCHANGED dispatch ELSE Begin(c, claimed)
  /\ caller' = [caller EXCEPT ![c].pc = "deliver"]
  /\ UNCHANGED <<subs, subVersion, standing, manifest, archived, appRuns, billingVars>>

(* Mutant: ready when no event has failed. *)
CheckNotFailed(c) ==
  /\ caller[c].pc = "deliver" /\ dispatch[c].pc = "idle"
  /\ caller' = [caller EXCEPT ![c] =
       IF \A v \in caller[c].events : outbox[v].status # "failed"
         THEN [@ EXCEPT !.pc = "ready"] ELSE IdleCaller]
  /\ UNCHANGED <<subs, subVersion, standing, manifest, archived, appRuns,
                 outboxVars, billingVars, dispatch>>

(* Every claimed row is settled: ready if all events are delivered, whoever *)
(* delivered them, else 503.                                                *)
CheckDelivered(c) ==
  /\ caller[c].pc = "deliver" /\ dispatch[c].pc = "idle"
  /\ caller' = [caller EXCEPT ![c] =
       IF \A v \in caller[c].events : outbox[v].status = "delivered"
         THEN [@ EXCEPT !.pc = "ready"] ELSE IdleCaller]
  /\ UNCHANGED <<subs, subVersion, standing, manifest, archived, appRuns,
                 outboxVars, billingVars, dispatch>>

AnswerReady(c) ==
  /\ caller[c].pc = "ready"
  /\ caller' = [caller EXCEPT ![c] = IdleCaller]
  /\ UNCHANGED <<subs, subVersion, standing, manifest, archived, appRuns,
                 outboxVars, billingVars, dispatch>>

ActivationDies(c) ==
  /\ AbandonBatch(c)
  /\ caller' = [caller EXCEPT ![c] = IdleCaller]
  /\ UNCHANGED <<subs, subVersion, standing, manifest, archived, appRuns>>

-----------------------------------------------------------------------------
CoreChanges ==
  /\ \/ \E s \in Subscriptions : ChangeSubscription(s)
     \/ ChangeStanding
     \/ ArchivePublished
     \/ PromoteDraft
  /\ UNCHANGED <<outboxVars, billingVars, dispatch>>

CallerMoves(c) ==
  \/ QuietStep(c) /\ UNCHANGED <<outboxVars, billingVars, dispatch>>
  \/ CreateEvent(c) /\ UNCHANGED <<billingVars, dispatch>>
  \/ CreateRun(c) /\ UNCHANGED <<billingVars, dispatch>>
  \/ LinkRun(c) /\ UNCHANGED <<billingVars, dispatch>>

ActivationMoves(c) ==
  \/ \E free \in SUBSET caller[c].events : ClaimByIds(c, free)
  \/ CheckDelivered(c)
  \/ AnswerReady(c)
  \/ ActivationDies(c)

DispatcherMoves(d) ==
  /\ \/ d \in Workers /\ \E free \in SUBSET Versions : ClaimBatch(d, free)
     \/ d \in Workers /\ AbandonBatch(d)
     \/ \E v \in Versions : SendEvent(d, v)
     \/ TimeOut(d)
     \/ ConfirmDelivery(d)
     \/ ConfirmationThrows(d)
     \/ RecordFailure(d)
  /\ UNCHANGED enqueueVars

OperatorMoves(o) ==
  /\ \/ \E v \in Versions : RetryRead(o, v)
     \/ RetryEvent(o)
     \/ RetryRun(o)
     \/ RetryAborts(o)
  /\ UNCHANGED <<enqueueVars, billingVars, dispatch>>

Next ==
  \/ CoreChanges
  \/ \E c \in Callers : CallerMoves(c)
  \/ \E c \in Activations : ActivationMoves(c)
  \/ \E d \in Dispatchers : DispatcherMoves(d)
  \/ BillingMoves /\ UNCHANGED enqueueVars
  \/ \E o \in Operators : OperatorMoves(o)

Spec == Init /\ [][Next]_vars

(* The worker's loop never ends and no attempt is the last: a claim that is *)
(* possible again and again is made, and of the attempts that follow not    *)
(* every one dies, is lost, is rolled back by Billing or fails to be noted. *)
(* Nothing is assumed of callers and operators.                             *)
Fairness ==
  \A w \in Workers :
    /\ SF_vars(ClaimBatch(w, Versions) /\ UNCHANGED enqueueVars)
    /\ WF_vars(RecordFailure(w) /\ UNCHANGED enqueueVars)
    /\ \A v \in Versions :
         /\ SF_vars(SendEvent(w, v) /\ UNCHANGED enqueueVars)
         /\ SF_vars(/\ \E r \in requests :
                         r.version = v /\ (ReadConnection(r) \/ AnswerDuplicate(r))
                    /\ UNCHANGED <<enqueueVars, outboxVars, dispatch>>)
         /\ SF_vars(/\ \E r \in requests : r.version = v /\ CommitEvent(r)
                    /\ UNCHANGED <<enqueueVars, outboxVars, dispatch>>)
         /\ SF_vars(/\ dispatch[w].current = v /\ ConfirmDelivery(w)
                    /\ UNCHANGED enqueueVars)

-----------------------------------------------------------------------------
(* Safety, whatever overlaps and whatever fails *)

(* Core never holds an event for delivered that Billing has no receipt for, *)
(* although answers get lost, locks expire under a live dispatcher, and two *)
(* dispatchers settle each other's claims.                                  *)
DeliveredWasTaken ==
  \A v \in Versions : outbox[v].status = "delivered" => inbox[v] # "none"

(* A run is reported succeeded only for an event Billing has a receipt for, *)
(* although runs are written beside their events and not with them.         *)
SucceededRunWasTaken ==
  \A v \in Versions : runs[v] = "succeeded" => inbox[v] # "none"

(* What is in effect at Billing is exactly what Core published under that   *)
(* version, and its receipt says it was applied: overlapping transactions   *)
(* may lose an update but never mix two events.                             *)
ConnectionIsAsPublished ==
  connection # NoConnection =>
    /\ outbox[connection.version].payload = connection.payload
    /\ inbox[connection.version] = "applied"

(* A new event is appended only when the desired state changed: concurrent  *)
(* reconciles of the same state never publish it twice in a row.            *)
ConsecutiveEventsDiffer ==
  \A v \in Versions : v + 1 \in Versions /\ Published(v + 1) =>
    Published(v) /\ outbox[v].payload # outbox[v + 1].payload

(* An activation is told ready only when Billing has a receipt for each     *)
(* event the activation waited for, whoever delivered it.                   *)
ReadyWasTaken ==
  \A c \in Callers : caller[c].pc = "ready" =>
    /\ caller[c].events # {}
    /\ \A v \in caller[c].events : inbox[v] # "none"

(* The plane implements its contract. *)
Contract == INSTANCE DeliveryContract WITH
  published <- [v \in Versions |-> outbox[v].payload],
  taken     <- {v \in Versions : inbox[v] # "none"},
  effective <- connection.version,
  delivered <- {v \in Versions : outbox[v].status = "delivered"}

KeepsContract == Contract!Spec

-----------------------------------------------------------------------------
(* Why safety holds: the inductive invariant of the proofs, part by part *)

(* A row has its payload from the moment it exists, and versions have no    *)
(* gaps: a request only creates a version above rows that exist.            *)
HistoryIsComplete ==
  /\ \A v \in Versions : Published(v) <=> outbox[v].payload # NoPayload
  /\ \A u, v \in Versions : u < v /\ Published(v) => Published(u)

(* What a handler carries from one statement to the next still fits the     *)
(* tables when it is used.                                                  *)
Grounded(me) ==
  /\ me.pc \in {"row", "manifest", "subs", "latest", "stamp", "create", "run", "link"} =>
       me.todo # {}
  /\ me.pc \in {"manifest", "subs", "latest", "stamp"} => me.snap # NoSnapshot
  /\ me.pc \in {"stamp", "create"} =>
       /\ me.version # 0 /\ me.payload # NoPayload
       /\ \A u \in Versions : u < me.version => Published(u)
       /\ me.version > 1 => outbox[me.version - 1].payload # me.payload
  /\ me.pc \in {"run", "link"} => me.version # 0 /\ Published(me.version)
  /\ me.pc \in {"claim", "deliver", "ready"} => me.events # {}

CallersAreGrounded == \A c \in Callers : Grounded(caller[c])

(* Runs, retries and batches only name rows that exist. *)
RunsHaveRows == \A v \in Versions : runs[v] # "none" => Published(v)

RetriesHaveRows ==
  \A o \in Operators :
    retry[o].pc # "idle" => retry[o].version # 0 /\ Published(retry[o].version)

BatchesHaveRows ==
  \A d \in Dispatchers :
    /\ \A v \in dispatch[d].batch : Published(v)
    /\ dispatch[d].pc = "waiting" => dispatch[d].current \in dispatch[d].batch

(* An activation dispatches only while it waits for its events.             *)
ActivationsInTurn ==
  \A c \in Activations : dispatch[c].pc # "idle" => caller[c].pc = "deliver"

(* A request carries a published event and what its transaction read.       *)
RequestsCarryEvents ==
  \A r \in requests :
    /\ Published(r.version) /\ outbox[r.version].payload = r.payload
    /\ r.seen.payload = NoPayload => r.seen = NoConnection
    /\ r.seen # NoConnection => connection # NoConnection

(* A dispatcher has one open request, about the row it is waiting for, so   *)
(* no answer is ever taken for the answer about another row.                *)
RequestsAreCurrent ==
  /\ \A r \in requests : r.from # NoOne =>
       /\ dispatch[r.from].pc = "waiting"
       /\ dispatch[r.from].current = r.version
       /\ replies[r.from] = NoReply
  /\ \A q, r \in requests : q.from = r.from /\ r.from # NoOne => q = r

RepliesAreProof ==
  \A d \in Dispatchers :
    /\ dispatch[d].pc # "waiting" => replies[d] = NoReply
    /\ replies[d].version # 0 => inbox[dispatch[d].current] # "none"

ConnectionHasReceipt ==
  /\ connection.payload = NoPayload => connection = NoConnection
  /\ connection.version = 0 => connection = NoConnection
  /\ \A v \in Versions : inbox[v] # "none" => connection # NoConnection

IInv ==
  /\ TypeOK
  /\ HistoryIsComplete
  /\ CallersAreGrounded
  /\ RunsHaveRows
  /\ RetriesHaveRows
  /\ BatchesHaveRows
  /\ ActivationsInTurn
  /\ RequestsCarryEvents
  /\ RequestsAreCurrent
  /\ RepliesAreProof
  /\ ConnectionHasReceipt
  /\ ConnectionIsAsPublished
  /\ DeliveredWasTaken
  /\ SucceededRunWasTaken
  /\ ConsecutiveEventsDiffer
  /\ ReadyWasTaken

-----------------------------------------------------------------------------
(* When deliveries do not overlap: one dispatcher, no orphaned request *)

(* A newer state is never replaced by an older one. *)
NewestWins == [][connection'.version >= connection.version]_connection

(* What counts as delivered is in effect, or something newer is. *)
DeliveredIsInEffect ==
  \A v \in Versions : outbox[v].status = "delivered" => connection.version >= v

(* Every published event is delivered for good, through crashes, lost       *)
(* answers and rollbacks.                                                   *)
EventsGetDelivered ==
  \A v \in Versions : Published(v) ~> [](outbox[v].status = "delivered")

-----------------------------------------------------------------------------
(* What the documents say and the code does not keep *)

(* ADR-007: claim, success and failure update the outbox and the run        *)
(* together, so a delivered event's run has succeeded.                      *)
DeliveredRunSucceeded ==
  \A v \in Versions :
    outbox[v].status = "delivered" /\ outbox[v].linked => runs[v] = "succeeded"

(* Foreground readiness requires the exact lifecycle, so that a superseding *)
(* state is not mistaken for a ready workspace: what an activation waited   *)
(* for was in effect at some time.                                          *)
ReadyWasInEffect ==
  \A c \in Callers : caller[c].pc = "ready" =>
    \A v \in caller[c].events : inbox[v] = "applied"

(* organizations.service.ts: the reconcile runs inline and its failure      *)
(* surfaces, so the connection is never silently diverged from the          *)
(* organization: when no handler is at work, the newest event asks for what *)
(* the tables say.  Meant for behaviours in which every change of the       *)
(* tables is a status change and no handler fails.                          *)
NewestEventIsCurrent ==
  (\A c \in Callers : caller[c].pc = "idle") /\ Latest # 0 =>
    Matches([subs |-> subs, standing |-> standing, manifest |-> manifest], Latest)

(* tenant-provisioning.md: publishing archives the prior revision and        *)
(* promotes the draft atomically.  So when every revision needs finance,     *)
(* every subscription is active and nothing is suspended or deleted, no      *)
(* reconcile takes finance away.                                            *)
PublishingKeepsAccess ==
  /\ \A m \in Manifests : NeedsFinance(m)
  /\ SubscriptionStates \subseteq ACTIVE_SUBSCRIPTION_STATES
  /\ Standings = {"open"}
  => \A v \in Versions : Published(v) => outbox[v].payload.status = "ACTIVE"
=============================================================================
