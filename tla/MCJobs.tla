------------------------------- MODULE MCJobs -------------------------------
(* Instances, small enough for TLC, of the jobs that workers and schedulers *)
(* run: Work's calendar sync and notifications, Core's application runs and  *)
(* the sweep of Billing's subscriptions.                                     *)
(* They share no state, and each behaviour is one of one of them.           *)
EXTENDS CalendarSync, ApplicationRuns, NotificationOutbox, MCBilling

CONSTANTS a, b

(* Which of the instances a behaviour belongs to, chosen at its start.      *)
VARIABLE scope

MCSyncScopes == {"sync", "overlap", "lease"}
MCRunsScopes == {"runs", "two runs"}
MCOutboxScopes == {"two calls", "changes", "crowd", "recurring"}
MCSweepScopes == {"two sweeps", "retry"}

(* Ids are interchangeable: they are given out from the lowest.             *)
MCInOrder(S, Used(_)) == \A i, j \in S : i < j /\ Used(j) => Used(i)

MCSyncIds ==
  /\ MCInOrder(LocalIds, LAMBDA l : localEvents[l] # Unused)
  /\ MCInOrder(RemoteIds, LAMBDA x : remoteEvents[x].content # Unused)
  /\ MCInOrder(MappingIds, LAMBDA m : mappings[m] # Unused)
  /\ MCInOrder(SyncRuns, LAMBDA r : syncRuns[r].phase # "new")

(* "sync": one run after the other, all events, failures anywhere.          *)
(* "overlap": runs crash and lose the lease to each other over one event.   *)
(* "lease": heartbeats fail and the user acts, over an empty calendar.      *)
MCSyncInScope ==
  LET active == userActs = 0 /\ connection.status = "ACTIVE"
      beating == \A r \in SyncRuns : syncRuns[r].renewing /\ syncRuns[r].result # "threw"
  IN
  /\ MCSyncIds
  /\ scope = "sync" =>
       /\ Cardinality({r \in SyncRuns : Working(r)}) <= 1
       /\ active /\ beating /\ ~ connection.expired /\ (pullOnly => edits <= 1)
       /\ \A r \in SyncRuns : syncRuns[r].outcome \notin {"crashed", "skipped"}
  /\ scope = "overlap" =>
       /\ active /\ beating /\ edits <= 1 /\ tick \in 1..2 /\ ~ pullOnly
       /\ \A r \in SyncRuns : syncRuns[r].result # "error"
       /\ syncRuns[2].phase # "new" => syncRuns[1].phase = "over" \/ 1 \in lapsed
       /\ \A l \in LocalIds : localEvents[l] # Unused => l = 1
  /\ scope = "lease" =>
       /\ edits = 0 /\ tick = 0 /\ ~ pullOnly
       /\ userActs = 0 \/ beating

(* "runs": one run, claimed twice.  "two runs": two requests never meet on  *)
(* one run and no run goes stale.                                           *)
MCRunsInScope ==
  /\ MCInOrder(AppRuns, LAMBDA r : appRuns[r].status # "absent")
  /\ scope = "runs" => published = 1 /\ \A r \in AppRuns : r > 1 => appRuns[r] = AbsentAppRun
  /\ scope = "two runs" =>
       \A r \in AppRuns : appRuns[r].attempts <= 1 /\ ~ appRuns[r].stale /\ r \notin overtaken

(* Which notices there are, and how many calls overlap, is decided at the   *)
(* start; what users do and what fails is limited on the way.               *)
MCOutboxStart ==
  LET there == {s \in Notices : notices[s].status # "absent"}
      calls == {n \in Notifiers : notifiers[n].phase # "unused"}
  IN
  /\ MCInOrder(Notifiers, LAMBDA n : n \in calls)
  /\ calls = (IF scope = "two calls" THEN Notifiers
              ELSE IF scope \in MCOutboxScopes THEN {1} ELSE {})
  /\ there = CASE scope = "crowd"     -> Notices \ Recurring
               [] scope = "recurring" -> {1} \cup Recurring
               [] scope \in {"two calls", "changes"} -> {1}
               [] OTHER -> {}

MCOutboxInScope ==
  /\ scope \in {"two calls", "recurring"} => noticeActs = 0
  /\ scope = "crowd" => faults = 0

JobsVars == <<syncVars, runsVars, outboxVars, billingVars, scope>>

JobsInit ==
  /\ scope \in MCSyncScopes \cup MCRunsScopes \cup MCOutboxScopes \cup MCSweepScopes
  /\ SyncInit /\ MCSyncInScope /\ (\A l \in LocalIds : localEvents[l] \in {a, Unused})
  /\ (scope \notin MCSyncScopes => tick = 0 /\ ~ pullOnly)
  /\ RunsInit
  /\ OutboxInit /\ MCOutboxStart
  /\ BillingInit /\ MCBillingStart(scope)

JobsNext ==
  /\ UNCHANGED scope
  /\ \/ scope \in MCSyncScopes /\ SyncNext /\ MCSyncInScope'
        /\ UNCHANGED <<runsVars, outboxVars, billingVars>>
     \/ scope \in MCRunsScopes /\ RunsNext /\ MCRunsInScope'
        /\ UNCHANGED <<syncVars, outboxVars, billingVars>>
     \/ scope \in MCOutboxScopes /\ OutboxNext /\ MCOutboxInScope'
        /\ UNCHANGED <<syncVars, runsVars, billingVars>>
     \/ scope \in MCSweepScopes /\ BillingNext /\ MCBillingStep(scope)
        /\ UNCHANGED <<syncVars, runsVars, outboxVars>>

(* BillingFairness, of the steps that are in scope: a call that the scope    *)
(* never lets begin is not one that the scheduler keeps back.                *)
JobsSweepStep(w) ==
  /\ scope \in MCSweepScopes /\ UNCHANGED scope
  /\ SweepStep(w) /\ MCBillingStep(scope)

JobsSweepFairness == \A w \in Billers : WF_<<billingVars, scope>>(JobsSweepStep(w))

JobsSpec == JobsInit /\ [][JobsNext]_JobsVars /\ RunsFairness /\ OutboxFairness
            /\ JobsSweepFairness
=============================================================================
