--------------------------- MODULE ApplicationRuns ---------------------------
(***************************************************************************)
(* Application-owned provisioning runs of one subscription and app in      *)
(* Core: a reconcile creates a run for the published revision, the app's   *)
(* materializer claims it over HTTP and reports how it ended, an operator  *)
(* retries a failed one, and the dispatch worker fails those whose         *)
(* materializer went silent.                                               *)
(*                                                                         *)
(* Creating, claiming, completing and retrying are several statements in   *)
(* no transaction: each reads the run and then writes it by id, and then   *)
(* writes its step.  So each is a request that several requests may        *)
(* overtake.  The expiry is one transaction that locks the runs it fails.  *)
(*                                                                         *)
(* The revision has no steps of its own: a run gets the one default step.  *)
(***************************************************************************)
EXTENDS Integers, FiniteSets

CONSTANTS
  AppRuns,         \* runs that may ever be created
  Requests,        \* requests that may be served at a time
  NoAppRun,
  MaxAppRevision,  \* bound: revisions that are published
  MaxClaims        \* bound: claims of one run

ASSUME ApplicationRunsAssumption ==
  /\ NoAppRun \notin AppRuns
  /\ MaxAppRevision \in Nat \ {0}
  /\ MaxClaims \in Nat \ {0}

VARIABLES
  appRuns,    \* appRuns[r]: the row of run r
  appSteps,   \* appSteps[r]: status of its step
  published,  \* the revision a reconcile creates a run for
  requests,   \* requests[q]: how far request q has come
  overtaken,  \* history: runs that were written while another request had read them, or
              \* that a request left half written
  doubled     \* history: revisions for which two reconciles found no run at one time

runsVars == <<appRuns, appSteps, published, requests, overtaken, doubled>>

RunStatus == {"queued", "processing", "succeeded", "failed"}
AppRun  == [status : RunStatus \cup {"absent"}, revision : 0..MaxAppRevision,
            attempts : Nat,
            stale : BOOLEAN]        \* started_at lies five minutes back

(* What a request does next: it has read (find, claim, complete, retry) or *)
(* has written the run and not yet its step.                               *)
Doing   == {"nothing", "create", "create-step", "claim", "claim-step",
            "complete", "complete-step", "retry", "retry-step"}
Request == [doing : Doing, run : AppRuns \cup {NoAppRun},
            revision : 0..MaxAppRevision,           \* of a run to be created
            result : {"none", "succeeded", "failed"},
            step : RunStatus \cup {"absent"}]      \* as it was read with the run

AbsentAppRun == [status |-> "absent", revision |-> 0, attempts |-> 0, stale |-> FALSE]
NoRequest    == [doing |-> "nothing", run |-> NoAppRun, revision |-> 0, result |-> "none",
                 step |-> "absent"]

RunsTypeOK ==
  /\ appRuns  \in [AppRuns -> AppRun]
  /\ appSteps \in [AppRuns -> RunStatus \cup {"absent"}]
  /\ published \in 1..MaxAppRevision
  /\ requests \in [Requests -> Request]
  /\ overtaken \subseteq AppRuns
  /\ doubled \subseteq 1..MaxAppRevision
  /\ \A r \in AppRuns :
       /\ appRuns[r].status = "absent" => appRuns[r] = AbsentAppRun
       /\ appRuns[r].status \in {"processing", "succeeded", "failed"} => appRuns[r].attempts > 0
  /\ \A q \in Requests :
       requests[q].doing \notin {"nothing", "create"} => requests[q].run \in AppRuns

RunsInit ==
  /\ appRuns  = [r \in AppRuns |-> AbsentAppRun]
  /\ appSteps = [r \in AppRuns |-> "absent"]
  /\ published = 1
  /\ requests = [q \in Requests |-> NoRequest]
  /\ overtaken = {}
  /\ doubled = {}

(* Requests other than q that have read run r and are not through with it *)
OthersOn(r, q) == {p \in Requests \ {q} : requests[p].run = r}

(* Request q writes run r. *)
Overtake(r, q) ==
  overtaken' = overtaken \cup {x \in {r} : OthersOn(x, q) # {}}

Begin(q, doing, r, result) ==
  /\ requests[q] = NoRequest
  /\ requests' = [requests EXCEPT ![q] =
                    [NoRequest EXCEPT !.doing = doing, !.run = r, !.result = result]]
  /\ UNCHANGED <<appRuns, appSteps, published, overtaken, doubled>>

Then(q, doing) == requests' = [requests EXCEPT ![q].doing = doing]
End(q)         == requests' = [requests EXCEPT ![q] = NoRequest]

-----------------------------------------------------------------------------
(* Reconcile: createRunForApplication *)

PublishRevision ==
  /\ published < MaxAppRevision
  /\ published' = published + 1
  /\ UNCHANGED <<appRuns, appSteps, requests, overtaken, doubled>>

(* Mutant: a run that was completed does not count as the revision's run. *)
HasOpenRun(revision) ==
  \E r \in AppRuns : /\ appRuns[r].status \in {"queued", "processing", "failed"}
                     /\ appRuns[r].revision = revision

HasRun(revision) ==
  \E r \in AppRuns : appRuns[r].status # "absent" /\ appRuns[r].revision = revision

FindNoRun(q) ==
  /\ requests[q] = NoRequest
  /\ ~ HasRun(published)
  /\ requests' = [requests EXCEPT ![q] =
                    [NoRequest EXCEPT !.doing = "create", !.revision = published]]
  /\ doubled' = doubled \cup {v \in {published} : \E p \in Requests :
                                requests[p].doing = "create" /\ requests[p].revision = v}
  /\ UNCHANGED <<appRuns, appSteps, published, overtaken>>

CreateRun(q, r) ==
  /\ requests[q].doing = "create"
  /\ appRuns[r].status = "absent"
  /\ appRuns' = [appRuns EXCEPT ![r] = [status |-> "queued", revision |-> requests[q].revision,
                                        attempts |-> 0, stale |-> FALSE]]
  /\ requests' = [requests EXCEPT ![q].doing = "create-step", ![q].run = r]
  /\ UNCHANGED <<appSteps, published, overtaken, doubled>>

CreateStep(q) ==
  /\ requests[q].doing = "create-step"
  /\ appSteps' = [appSteps EXCEPT ![requests[q].run] = "queued"]
  /\ End(q)
  /\ Overtake(requests[q].run, q)
  /\ UNCHANGED <<appRuns, published, doubled>>

-----------------------------------------------------------------------------
(* The materializer: claimApplicationRun and completeApplicationRun *)

(* Mutant: a run that failed may be claimed without a retry. *)
ClaimableUnlessDone(r) == appRuns[r].status \in {"queued", "failed"}

(* Of several runs the oldest; two reconciles create theirs in any order.  *)
Claimable(r) == appRuns[r].status = "queued"

FindClaimable(q, r) ==
  /\ Claimable(r) /\ appRuns[r].attempts < MaxClaims
  /\ Begin(q, "claim", r, "none")

ClaimRun(q) ==
  LET r == requests[q].run IN
  /\ requests[q].doing = "claim"
  /\ appRuns' = [appRuns EXCEPT ![r].status = "processing", ![r].attempts = @ + 1,
                                ![r].stale = FALSE]
  /\ requests' = [requests EXCEPT ![q].doing = "claim-step", ![q].step = appSteps[r]]
  /\ Overtake(r, q)
  /\ UNCHANGED <<appSteps, published, doubled>>

(* The step as it was read when the run was written decides: one that had  *)
(* succeeded stays, and one that was not there yet is not claimed.         *)
ClaimStep(q) ==
  LET r == requests[q].run IN
  /\ requests[q].doing = "claim-step"
  /\ appSteps' = [appSteps EXCEPT ![r] =
                    IF requests[q].step \in {"absent", "succeeded"} THEN @ ELSE "processing"]
  /\ End(q)
  /\ Overtake(r, q)
  /\ UNCHANGED <<appRuns, published, doubled>>

(* Mutant: any run may be reported complete. *)
CompletableAlways(r) == appRuns[r].status # "absent"

Completable(r) == appRuns[r].status = "processing"

FindProcessing(q, r, result) ==
  /\ Completable(r)
  /\ Begin(q, "complete", r, result)

CompleteRun(q) ==
  LET r == requests[q].run IN
  /\ requests[q].doing = "complete"
  /\ appRuns' = [appRuns EXCEPT ![r].status = requests[q].result]
  /\ Then(q, "complete-step")
  /\ Overtake(r, q)
  /\ UNCHANGED <<appSteps, published, doubled>>

(* A failure leaves a step that succeeded. *)
CompleteStep(q) ==
  LET r == requests[q].run IN
  /\ requests[q].doing = "complete-step"
  /\ appSteps' = [appSteps EXCEPT ![r] =
                    IF @ = "absent" \/ (@ = "succeeded" /\ requests[q].result = "failed")
                    THEN @ ELSE requests[q].result]
  /\ End(q)
  /\ Overtake(r, q)
  /\ UNCHANGED <<appRuns, published, doubled>>

-----------------------------------------------------------------------------
(* The operator: retryRun *)

FindFailed(q, r) ==
  /\ appRuns[r].status = "failed"
  /\ Begin(q, "retry", r, "none")

RetryRun(q) ==
  LET r == requests[q].run IN
  /\ requests[q].doing = "retry"
  /\ appRuns' = [appRuns EXCEPT ![r].status = "queued"]
  /\ Then(q, "retry-step")
  /\ Overtake(r, q)
  /\ UNCHANGED <<appSteps, published, doubled>>

(* Mutant: a step is put back only when it failed by itself. *)
RetryStepUnlessFailed(q) ==
  /\ requests[q].doing = "retry-step"
  /\ End(q)
  /\ Overtake(requests[q].run, q)
  /\ UNCHANGED <<appRuns, appSteps, published, doubled>>

RetryStep(q) ==
  LET r == requests[q].run IN
  /\ requests[q].doing = "retry-step"
  /\ appSteps' = [appSteps EXCEPT ![r] = IF @ = "absent" THEN @ ELSE "queued"]
  /\ End(q)
  /\ Overtake(r, q)
  /\ UNCHANGED <<appRuns, published, doubled>>

(* A statement fails, or the process dies between two. *)
AbandonRequest(q) ==
  /\ requests[q] # NoRequest
  /\ End(q)
  /\ overtaken' = overtaken \cup {r \in AppRuns : requests[q].run = r}
  /\ UNCHANGED <<appRuns, appSteps, published, doubled>>

-----------------------------------------------------------------------------
(* The dispatch worker: expireStaleApplicationRuns *)

GoStale(r) ==
  /\ appRuns[r].status = "processing" /\ ~ appRuns[r].stale
  /\ appRuns' = [appRuns EXCEPT ![r].stale = TRUE]
  /\ UNCHANGED <<appSteps, published, requests, overtaken, doubled>>

(* Mutant: only a run that was claimed once expires. *)
ExpiringOnce == {r \in AppRuns : /\ appRuns[r].status = "processing" /\ appRuns[r].stale
                                 /\ appRuns[r].attempts = 1}

Expiring == {r \in AppRuns : appRuns[r].status = "processing" /\ appRuns[r].stale}

ExpireStale ==
  /\ Expiring # {}
  /\ appRuns' = [r \in AppRuns |-> IF r \in Expiring
                                   THEN [appRuns[r] EXCEPT !.status = "failed"]
                                   ELSE appRuns[r]]
  /\ appSteps' = [r \in AppRuns |->
                    IF r \in Expiring /\ appSteps[r] \notin {"absent", "succeeded"}
                    THEN "failed" ELSE appSteps[r]]
  /\ overtaken' = overtaken \cup {r \in Expiring : \E q \in Requests : requests[q].run = r}
  /\ UNCHANGED <<published, requests, doubled>>

RequestStep(q) ==
  \/ FindNoRun(q) \/ CreateStep(q)
  \/ \E r \in AppRuns :
       \/ CreateRun(q, r) \/ FindClaimable(q, r) \/ FindFailed(q, r)
       \/ \E result \in {"succeeded", "failed"} : FindProcessing(q, r, result)
  \/ ClaimRun(q) \/ ClaimStep(q)
  \/ CompleteRun(q) \/ CompleteStep(q)
  \/ RetryRun(q) \/ RetryStep(q)
  \/ AbandonRequest(q)

RunsNext ==
  \/ PublishRevision
  \/ \E q \in Requests : RequestStep(q)
  \/ \E r \in AppRuns : GoStale(r)
  \/ ExpireStale

(* The worker repeats the expiry with every round of its loop, and time    *)
(* passes.  Nobody has to claim, complete or retry anything.               *)
RunsFairness ==
  /\ \A r \in AppRuns : WF_runsVars(GoStale(r))
  /\ WF_runsVars(ExpireStale)

RunsSpec == RunsInit /\ [][RunsNext]_runsVars /\ RunsFairness

-----------------------------------------------------------------------------
(* Properties *)

Successor(old, new) ==
  \/ new.status = old.status /\ new.attempts = old.attempts
  \/ old.status = "absent" /\ new.status = "queued" /\ new.attempts = 0
  \/ old.status = "queued" /\ new.status = "processing" /\ new.attempts = old.attempts + 1
  \/ old.status = "processing" /\ new.status \in {"succeeded", "failed"}
       /\ new.attempts = old.attempts
  \/ old.status = "failed" /\ new.status = "queued" /\ new.attempts = old.attempts

(* A run goes queued, processing, succeeded or failed, and from failed     *)
(* back to queued; it is claimed once each time it was queued.  Since the  *)
(* writes do not repeat the test of the reads, this holds of a run only    *)
(* until two requests, or a request and the expiry, work on it at a time.  *)
RunLifeCycle ==
  [][ \A r \in AppRuns :
        Successor(appRuns[r], appRuns'[r]) \/ r \in overtaken' ]_runsVars

(* Between requests a run and its step tell the same, however often it was *)
(* claimed, failed, expired and retried: no half of a step is left behind. *)
StepFollowsRun ==
  \A r \in AppRuns :
    r \notin overtaken /\ (\A q \in Requests : requests[q].run # r)
      => appSteps[r] = appRuns[r].status

(* A revision gets one run, unless two reconciles looked at one time.      *)
OneRunPerRevision ==
  \A r, s \in AppRuns :
    /\ appRuns[r].status # "absent" /\ appRuns[s].status # "absent"
    /\ appRuns[r].revision = appRuns[s].revision
    => r = s \/ appRuns[r].revision \in doubled

(* No run stays in processing: a materializer that never reports does not  *)
(* keep the run from being retried.                                        *)
StaleRunsExpire ==
  \A r \in AppRuns : appRuns[r].status = "processing" ~> appRuns[r].status # "processing"
=============================================================================
