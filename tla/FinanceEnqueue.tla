---------------------------- MODULE FinanceEnqueue ---------------------------
(***************************************************************************)
(* reconcileFinanceConnections and enqueueFinanceConnectionEvent: a caller *)
(* walks over the pair's subscriptions and, for each, compares the desired *)
(* state with the latest outbox event and appends a new event when they    *)
(* differ.  No transaction spans the calls, so every database statement    *)
(* that other callers can see or disturb is a step of its own, and the     *)
(* request can die after any of them.                                      *)
(***************************************************************************)
EXTENDS FinanceOutbox

CONSTANTS
  Callers,       \* request handlers of Core that reconcile
  Activations    \* of those, the ones that activate the app: they wait for Billing

ASSUME CallersAssumption == Activations \subseteq Callers

VARIABLES
  subs,          \* subs[s]: status of subscription s
  subVersion,    \* subs' finance_lifecycle_version column
  standing,      \* of the organization and the app
  manifest,      \* the published revision of the pair's application profile
  archived,      \* the revisions that were published before it
  appRuns,       \* <<subscription, revision>> that got a run without an event
  caller         \* caller[c]: where handler c is

enqueueVars == <<subs, subVersion, standing, manifest, archived, appRuns, caller>>

Snapshot == [subs     : [Subscriptions -> SubscriptionStates \cup {"unborn"}],
             standing : Standings,
             manifest : Manifests \cup {NoManifest}]

CONSTANT NoSnapshot
ASSUME NoSnapshotAssumption == NoSnapshot \notin Snapshot

CallerSteps == {"idle", "row", "manifest", "subs", "latest", "stamp", "create", "run", "link",
                "claim", "deliver", "ready"}

Caller ==
  [pc      : CallerSteps,
   todo    : SUBSET Subscriptions,             \* rows still to reconcile
   snap    : Snapshot \cup {NoSnapshot},       \* what was read of Core's tables
   version : Versions \cup {0},                \* of the event being made or attached
   payload : Payload \cup {NoPayload},         \* what the new event asks for
   events  : SUBSET Versions]                  \* eventIds, reconcile's result

EnqueueTypeOK ==
  /\ subs       \in [Subscriptions -> SubscriptionStates]
  /\ subVersion \in [Subscriptions -> 0 .. MaxVersion]
  /\ standing   \in Standings
  /\ manifest   \in Manifests \cup {NoManifest}
  /\ archived   \subseteq Manifests
  /\ appRuns    \subseteq Subscriptions \X {m.revision : m \in Manifests}
  /\ caller     \in [Callers -> Caller]

IdleCaller == [pc |-> "idle", todo |-> {}, snap |-> NoSnapshot, version |-> 0,
               payload |-> NoPayload, events |-> {}]

EnqueueInit ==
  /\ subs       \in [Subscriptions -> SubscriptionStates]
  /\ subVersion = [s \in Subscriptions |-> 0]
  /\ standing   = "open"
  /\ manifest   \in Manifests \cup {NoManifest}
  /\ archived   = {}
  /\ appRuns    = {}
  /\ caller     = [c \in Callers |-> IdleCaller]

Latest == IF \E v \in Versions : Published(v)
            THEN CHOOSE v \in Versions :
                   Published(v) /\ \A u \in Versions : Published(u) => u <= v
            ELSE 0

-----------------------------------------------------------------------------
(* Core's tables change under the reconcilers.  Creating, changing or       *)
(* deleting a subscription, changing the app, deleting or restoring the     *)
(* organization, and publishing a revision all start no reconcile.  A row   *)
(* is canceled before it is deleted.                                        *)

ChangeSubscription(s) ==
  /\ subs[s] # "deleted"
  /\ \E status \in SubscriptionStates \ {subs[s], "unborn"} :
       /\ status = "deleted" => subs[s] = "canceled"
       /\ subs' = [subs EXCEPT ![s] = status]
       /\ subVersion' = IF subs[s] = "unborn" \/ status = "deleted"
                          THEN [subVersion EXCEPT ![s] = 0] ELSE subVersion
  /\ UNCHANGED <<standing, manifest, archived, appRuns, caller>>

ChangeStanding ==
  /\ standing' \in Standings \ {standing}
  /\ UNCHANGED <<subs, subVersion, manifest, archived, appRuns, caller>>

(* promoteDraft: two statements, no transaction.  Between them, or for good *)
(* if the publisher dies there, the profile has no published revision.      *)
ArchivePublished ==
  /\ manifest # NoManifest
  /\ manifest' = NoManifest
  /\ archived' = archived \cup {manifest}
  /\ UNCHANGED <<subs, subVersion, standing, appRuns, caller>>

PromoteDraft ==
  /\ manifest = NoManifest
  /\ \E draft \in Manifests :
       /\ \A old \in archived : old.revision < draft.revision
       /\ manifest' = draft
  /\ UNCHANGED <<subs, subVersion, standing, archived, appRuns, caller>>

-----------------------------------------------------------------------------
(* reconcileFinanceConnections *)

(* Without a row of the pair there is nothing to walk over.                 *)
StartReconcile(c) ==
  caller' = [caller EXCEPT ![c] =
    IF Rows(subs) = {} THEN IdleCaller
    ELSE [IdleCaller EXCEPT !.pc = "row", !.todo = Rows(subs)]]

(* Console's reconcile, and the reconcile of an organization status change, *)
(* whose handler writes the status first.                                   *)
Reconcile(c) ==
  /\ c \notin Activations /\ caller[c].pc = "idle"
  /\ StartReconcile(c)
  /\ UNCHANGED <<subs, subVersion, standing, manifest, archived, appRuns>>

UpdateOrganizationStatus(c) ==
  /\ c \notin Activations /\ caller[c].pc = "idle"
  /\ standing # "deleted"
  /\ standing' \in (Standings \cap {"open", "inactive"}) \ {standing}
  /\ StartReconcile(c)
  /\ UNCHANGED <<subs, subVersion, manifest, archived, appRuns>>

(* ensureAppReady: an app without embedded finance is ready at once.       *)
Activate(c) ==
  /\ c \in Activations /\ caller[c].pc = "idle"
  /\ NeedsFinance(manifest)
  /\ StartReconcile(c)
  /\ UNCHANGED <<subs, subVersion, standing, manifest, archived, appRuns>>

(* The current row is done, its event (if any) is among `events`: on to    *)
(* the next row, to delivering the events, or to the end of the request.   *)
RowDone(c, events) ==
  LET todo == caller[c].todo \ {First(caller[c].todo)}
      all  == caller[c].events \cup events
  IN caller' = [caller EXCEPT ![c] =
       CASE todo # {} -> [IdleCaller EXCEPT !.pc = "row", !.todo = todo,
                                            !.events = all]
         [] todo = {} /\ c \in Activations /\ all # {} ->
              [IdleCaller EXCEPT !.pc = "claim", !.events = all]
         [] OTHER -> IdleCaller]

-----------------------------------------------------------------------------
(* enqueueFinanceConnectionEvent *)

(* One read after the other: the row itself, which may be gone by now, with *)
(* the organization and the app; the published revision, on which an        *)
(* activation insists; the pair's rows.                                     *)
ReadStanding(c) ==
  /\ caller[c].pc = "row"
  /\ IF First(caller[c].todo) \notin Rows(subs)
       THEN RowDone(c, {})
       ELSE caller' = [caller EXCEPT
              ![c].pc   = "manifest",
              ![c].snap = [subs     |-> [s \in Subscriptions |-> "unborn"],
                           standing |-> standing,
                           manifest |-> NoManifest]]
  /\ UNCHANGED <<subs, subVersion, standing, manifest, archived, appRuns>>

ReadManifest(c) ==
  /\ caller[c].pc = "manifest"
  /\ caller' = [caller EXCEPT ![c] =
       IF c \in Activations /\ ~NeedsFinance(manifest)
         THEN IdleCaller
         ELSE [@ EXCEPT !.pc = "subs", !.snap.manifest = manifest]]
  /\ UNCHANGED <<subs, subVersion, standing, manifest, archived, appRuns>>

ReadSubscriptions(c) ==
  /\ caller[c].pc = "subs"
  /\ caller' = [caller EXCEPT ![c].pc = "latest", ![c].snap.subs = subs]
  /\ UNCHANGED <<subs, subVersion, standing, manifest, archived, appRuns>>

(* Mutant: only a live connection is compared. *)
MatchesWhenActive(snap, v) ==
  /\ outbox[v].payload.status = "ACTIVE"
  /\ DesiredPayload(snap, outbox[v].payload) = outbox[v].payload

(* eventMatches on the latest event, which exists. *)
Matches(snap, v) == DesiredPayload(snap, outbox[v].payload) = outbox[v].payload

(* createRunForApplication: once per subscription and revision. *)
CreateRunForApplication(s, revision) == appRuns' = appRuns \cup {<<s, revision>>}

(* Nothing was ever granted and nothing is to be: an application-owned run  *)
(* records the activation.                                                  *)
NothingToGrant(c) ==
  /\ caller[c].pc = "latest"
  /\ Latest = 0 /\ ~NeedsFinance(caller[c].snap.manifest)
  /\ IF caller[c].snap.manifest = NoManifest
       THEN UNCHANGED appRuns
       ELSE CreateRunForApplication(First(caller[c].todo), caller[c].snap.manifest.revision)
  /\ RowDone(c, {})
  /\ UNCHANGED <<subs, subVersion, standing, manifest, archived>>

AlreadyPublished(c) ==
  /\ caller[c].pc = "latest"
  /\ Derivable(caller[c].snap)
  /\ Latest # 0 /\ Matches(caller[c].snap, Latest)
  /\ IF outbox[Latest].linked
       THEN RowDone(c, {Latest})
       ELSE caller' = [caller EXCEPT ![c].pc = "run", ![c].version = Latest,
                                     ![c].snap = NoSnapshot]
  /\ UNCHANGED <<subs, subVersion, standing, manifest, archived, appRuns>>

DecideNewEvent(c) ==
  /\ caller[c].pc = "latest"
  /\ Derivable(caller[c].snap)
  /\ IF Latest = 0 THEN NeedsFinance(caller[c].snap.manifest)
                   ELSE ~Matches(caller[c].snap, Latest)
  /\ Latest < MaxVersion
  /\ caller' = [caller EXCEPT
        ![c].pc      = "stamp",
        ![c].version = Latest + 1,
        ![c].payload = IF Latest = 0 THEN GrantedPayload(caller[c].snap)
                       ELSE DesiredPayload(caller[c].snap, outbox[Latest].payload)]
  /\ UNCHANGED <<subs, subVersion, standing, manifest, archived, appRuns>>

(* updateSubscriptionsLifecycleVersion, of the rows read that still exist.  *)
StampSubscriptions(c) ==
  /\ caller[c].pc = "stamp"
  /\ subVersion' = [s \in Subscriptions |->
                      IF s \in Rows(caller[c].snap.subs) \cap Rows(subs)
                        THEN caller[c].version ELSE subVersion[s]]
  /\ caller' = [caller EXCEPT ![c].pc = "create", ![c].snap = NoSnapshot]
  /\ UNCHANGED <<subs, standing, manifest, archived, appRuns>>

(* createOutboxEvent: unique on <aggregate, lifecycle version>, so the      *)
(* second to use a version dies of the constraint.                          *)
CreateEvent(c) ==
  LET v == caller[c].version IN
  /\ caller[c].pc = "create"
  /\ IF Published(v)
       THEN /\ caller' = [caller EXCEPT ![c] = IdleCaller]
            /\ UNCHANGED outbox
       ELSE /\ outbox' = [outbox EXCEPT ![v] =
                 [status |-> "pending", linked |-> FALSE,
                  payload |-> caller[c].payload]]
            /\ caller' = [caller EXCEPT ![c].pc = "run", ![c].payload = NoPayload]
  /\ UNCHANGED <<subs, subVersion, standing, manifest, archived, appRuns, runs, retry>>

(* attachRun, first statement: createRunForEvent finds or creates the run.  *)
CreateRun(c) ==
  /\ caller[c].pc = "run"
  /\ runs' = IF runs[caller[c].version] = "none"
               THEN [runs EXCEPT ![caller[c].version] = "queued"] ELSE runs
  /\ caller' = [caller EXCEPT ![c].pc = "link"]
  /\ UNCHANGED <<subs, subVersion, standing, manifest, archived, appRuns, outbox, retry>>

(* attachRun, second statement: updateOutboxEventRunId. *)
LinkRun(c) ==
  /\ caller[c].pc = "link"
  /\ outbox' = [outbox EXCEPT ![caller[c].version].linked = TRUE]
  /\ RowDone(c, {caller[c].version})
  /\ UNCHANGED <<subs, subVersion, standing, manifest, archived, appRuns, runs, retry>>

(* A statement throws, or the process dies: the request ends where it is.   *)
EnqueueAborts(c) ==
  /\ caller[c].pc \in {"row", "manifest", "subs", "latest", "stamp", "create", "run",
                       "link", "claim"}
  /\ caller' = [caller EXCEPT ![c] = IdleCaller]
  /\ UNCHANGED <<subs, subVersion, standing, manifest, archived, appRuns>>

(* The steps of a caller that leave the outbox alone. *)
QuietStep(c) ==
  \/ Reconcile(c) \/ UpdateOrganizationStatus(c) \/ Activate(c)
  \/ ReadStanding(c) \/ ReadManifest(c) \/ ReadSubscriptions(c)
  \/ NothingToGrant(c) \/ AlreadyPublished(c)
  \/ DecideNewEvent(c) \/ StampSubscriptions(c) \/ EnqueueAborts(c)
=============================================================================
