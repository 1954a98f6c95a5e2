------------------------ MODULE ApplicationRunsProofs ------------------------
(***************************************************************************)
(* What holds of application-owned runs, for any number of runs, requests, *)
(* revisions and claims.                                                   *)
(***************************************************************************)
EXTENDS ApplicationRuns, TLAPS

(* A request that writes a run has read one that exists, and one that       *)
(* completes it knows a result and found it claimed.                        *)
RequestsGrounded ==
  \A q \in Requests :
    /\ requests[q].doing \in {"nothing", "create"} <=> requests[q].run = NoAppRun
    /\ requests[q].run \in AppRuns => appRuns[requests[q].run].status # "absent"
    /\ requests[q].doing \in {"complete", "complete-step"} =>
         /\ requests[q].result \in {"succeeded", "failed"}
         /\ appRuns[requests[q].run].attempts > 0

TypeInv == RunsTypeOK /\ RequestsGrounded

LEMMA RunsInitType == RunsInit => TypeInv
BY ApplicationRunsAssumption
   DEF RunsInit, TypeInv, RunsTypeOK, RequestsGrounded, AppRun, RunStatus, Request, Doing,
       AbsentAppRun, NoRequest

(* What every step leaves of the rows: they are typed, and stay. *)
RowsGrow ==
  /\ appRuns' \in [AppRuns -> AppRun]
  /\ \A r \in AppRuns :
       /\ appRuns'[r].status = "absent" => appRuns'[r] = AbsentAppRun
       /\ appRuns'[r].status \in {"processing", "succeeded", "failed"}
            => appRuns'[r].attempts > 0
       /\ appRuns[r].status # "absent" => appRuns'[r].status # "absent"
       /\ appRuns'[r].attempts >= appRuns[r].attempts

LEMMA RowClaimed ==
  ASSUME NEW row \in AppRun, NEW n \in Nat
  PROVE  /\ [row EXCEPT !.status = "processing", !.attempts = n, !.stale = FALSE] \in AppRun
         /\ [row EXCEPT !.status = "processing", !.attempts = n, !.stale = FALSE].status
              = "processing"
         /\ [row EXCEPT !.status = "processing", !.attempts = n, !.stale = FALSE].attempts = n
BY DEF AppRun, RunStatus

(* A request's step, seen from its record and its run.                      *)
LEMMA RequestKept ==
  ASSUME TypeInv, NEW q \in Requests, NEW new \in Request,
         requests' = [requests EXCEPT ![q] = new],
         RowsGrow, appSteps' \in [AppRuns -> RunStatus \cup {"absent"}],
         published' \in 1..MaxAppRevision, overtaken' \subseteq AppRuns,
         doubled' \subseteq 1..MaxAppRevision,
         new.doing \in {"nothing", "create"} <=> new.run = NoAppRun,
         new.run \in AppRuns => appRuns'[new.run].status # "absent",
         new.doing \in {"complete", "complete-step"} =>
           new.result \in {"succeeded", "failed"} /\ appRuns'[new.run].attempts > 0
  PROVE  TypeInv'
<1>1. requests' \in [Requests -> Request] /\ requests'[q] = new
      /\ \A p \in Requests \ {q} : requests'[p] = requests[p]
  BY DEF TypeInv, RunsTypeOK
<1>2. RequestsGrounded'
  <2> SUFFICES ASSUME NEW p \in Requests
      PROVE /\ requests'[p].doing \in {"nothing", "create"} <=> requests'[p].run = NoAppRun
            /\ requests'[p].run \in AppRuns => appRuns'[requests'[p].run].status # "absent"
            /\ requests'[p].doing \in {"complete", "complete-step"} =>
                 /\ requests'[p].result \in {"succeeded", "failed"}
                 /\ appRuns'[requests'[p].run].attempts > 0
    BY DEF RequestsGrounded
  <2>1. CASE p = q
    BY <1>1, <2>1
  <2>2. CASE p # q
    <3>1. requests'[p] = requests[p] /\ requests[p] \in Request
      BY <1>1, <2>2 DEF TypeInv, RunsTypeOK
    <3>2. requests[p].doing \in {"complete", "complete-step"} => requests[p].run \in AppRuns
      BY DEF TypeInv, RunsTypeOK
    <3>3. \A r \in AppRuns : appRuns[r].attempts \in Nat /\ appRuns'[r].attempts \in Nat
      BY DEF TypeInv, RunsTypeOK, AppRun, RowsGrow
    <3> QED BY <3>1, <3>2, <3>3 DEF TypeInv, RequestsGrounded, RowsGrow
  <2> QED BY <2>1, <2>2
<1>3. RunsTypeOK'
  <2>1. \A p \in Requests :
          requests'[p].doing \notin {"nothing", "create"} => requests'[p].run \in AppRuns
    BY <1>1, <1>2 DEF RequestsGrounded, Request
  <2> QED BY <1>1, <2>1 DEF RunsTypeOK, RowsGrow
<1> QED BY <1>2, <1>3 DEF TypeInv

(* Run r gets a new row, or keeps the one it has. *)
LEMMA RowKept ==
  ASSUME TypeInv, NEW r \in AppRuns, NEW new \in AppRun,
         appRuns' = [appRuns EXCEPT ![r] = new], new.status # "absent",
         new.attempts >= appRuns[r].attempts, new.status # "queued" => new.attempts > 0
  PROVE  RowsGrow
BY DEF TypeInv, RunsTypeOK, AppRun, RowsGrow

LEMMA RowsUntouched ==
  ASSUME TypeInv, appRuns' = appRuns
  PROVE  RowsGrow
BY DEF TypeInv, RunsTypeOK, AppRun, RowsGrow

(* A request that ends. *)
LEMMA EndedKept ==
  ASSUME TypeInv, NEW q \in Requests, End(q), appRuns' = appRuns,
         appSteps' \in [AppRuns -> RunStatus \cup {"absent"}],
         published' = published, overtaken' \subseteq AppRuns, doubled' = doubled
  PROVE  TypeInv'
<1>1. NoRequest \in Request
  BY ApplicationRunsAssumption DEF NoRequest, Request, Doing
<1>2. NoAppRun \notin AppRuns
  BY ApplicationRunsAssumption
<1> QED BY <1>1, <1>2, RowsUntouched, RequestKept DEF End, NoRequest, TypeInv, RunsTypeOK

LEMMA RequestStepType ==
  ASSUME TypeInv, NEW q \in Requests, RequestStep(q)
  PROVE  TypeInv'
<1> DEFINE r == requests[q].run
<1>0. /\ requests[q] \in Request /\ RunsTypeOK /\ NoAppRun \notin AppRuns
      /\ NoRequest \in Request
      /\ requests[q].doing \notin {"nothing", "create"} => r \in AppRuns
  BY ApplicationRunsAssumption
     DEF TypeInv, RunsTypeOK, NoRequest, Request, Doing
<1>1. CASE FindNoRun(q)
  <2> DEFINE new == [NoRequest EXCEPT !.doing = "create", !.revision = published]
  <2>1. /\ new \in Request /\ new.doing = "create" /\ new.run = NoAppRun
    <3>1. published \in 0..MaxAppRevision
      BY <1>0, ApplicationRunsAssumption DEF RunsTypeOK
    <3> QED BY <3>1 DEF NoRequest, Request, Doing
  <2>2. requests' = [requests EXCEPT ![q] = new] /\ appRuns' = appRuns
        /\ doubled' \subseteq 1..MaxAppRevision
    BY <1>0, <1>1 DEF FindNoRun, RunsTypeOK
  <2> HIDE DEF new
  <2> QED BY <1>0, <1>1, <2>1, <2>2, RowsUntouched, RequestKept DEF FindNoRun, RunsTypeOK
<1>2. ASSUME NEW x \in AppRuns, CreateRun(q, x)
      PROVE  TypeInv'
  <2> DEFINE row == [status |-> "queued", revision |-> requests[q].revision,
                     attempts |-> 0, stale |-> FALSE]
             new == [requests[q] EXCEPT !.doing = "create-step", !.run = x]
  <2>1. /\ row \in AppRun /\ appRuns[x] = AbsentAppRun
        /\ row.status = "queued" /\ row.attempts = 0
    BY <1>0, <1>2 DEF CreateRun, AppRun, RunStatus, Request, RunsTypeOK
  <2>2. /\ new \in Request /\ new.doing = "create-step" /\ new.run = x
    BY <1>0 DEF Request, Doing
  <2>3. requests' = [requests EXCEPT ![q] = new] /\ appRuns' = [appRuns EXCEPT ![x] = row]
    BY <1>2 DEF CreateRun
  <2>4. row.attempts >= appRuns[x].attempts
    BY <2>1 DEF AbsentAppRun
  <2>5. appRuns'[x].status = "queued"
    BY <1>0, <2>3 DEF RunsTypeOK
  <2> HIDE DEF new, row
  <2>7. RowsGrow
    BY <2>1, <2>2, <2>3, <2>4, <2>5, RowKept
  <2> QED BY <1>0, <1>2, <2>1, <2>2, <2>3, <2>4, <2>5, <2>7, RequestKept DEF CreateRun, RunsTypeOK
<1>3. CASE CreateStep(q)
  <2>1. appSteps' \in [AppRuns -> RunStatus \cup {"absent"}]
    BY <1>0, <1>3 DEF CreateStep, RunsTypeOK, RunStatus
  <2> QED BY <1>0, <1>3, <2>1, EndedKept DEF CreateStep, Overtake, RunsTypeOK
<1>4. ASSUME NEW x \in AppRuns, NEW doing \in {"claim", "complete", "retry"},
             NEW result \in {"none", "succeeded", "failed"},
             Begin(q, doing, x, result), appRuns[x].status # "absent",
             doing = "complete" => appRuns[x].status = "processing" /\ result # "none"
      PROVE  TypeInv'
  <2> DEFINE new == [NoRequest EXCEPT !.doing = doing, !.run = x, !.result = result]
  <2>1. /\ new \in Request /\ new.doing = doing /\ new.run = x /\ new.result = result
    BY <1>0 DEF NoRequest, Request, Doing
  <2>2. requests' = [requests EXCEPT ![q] = new] /\ appRuns' = appRuns
    BY <1>4 DEF Begin
  <2>3. doing = "complete" => appRuns[x].attempts > 0
    BY <1>0, <1>4 DEF RunsTypeOK
  <2> HIDE DEF new
  <2>4. UNCHANGED <<appSteps, published, overtaken, doubled>>
    BY <1>4 DEF Begin
  <2>5. RowsGrow
    BY <2>2, RowsUntouched
  <2>6. appRuns'[x].status # "absent" /\ (doing = "complete" => appRuns'[x].attempts > 0)
    BY <1>4, <2>2, <2>3
  <2>7. x # NoAppRun
    BY <1>0
  <2> QED BY <1>0, <1>4, <2>1, <2>2, <2>4, <2>5, <2>6, <2>7, RequestKept DEF RunsTypeOK
<1>5. CASE ClaimRun(q)
  <2> DEFINE row == [appRuns[r] EXCEPT !.status = "processing",
                       !.attempts = appRuns[r].attempts + 1, !.stale = FALSE]
             new == [requests[q] EXCEPT !.doing = "claim-step", !.step = appSteps[r]]
  <2>1. r \in AppRuns /\ appRuns[r] \in AppRun
    BY <1>0, <1>5 DEF ClaimRun, RunsTypeOK
  <2>2. /\ row \in AppRun /\ row.status = "processing"
        /\ row.attempts >= appRuns[r].attempts /\ row.attempts > 0
    <3>1. appRuns[r].attempts \in Nat
      BY <2>1 DEF AppRun
    <3> DEFINE old == appRuns[r]
               n == appRuns[r].attempts + 1
    <3>2. row \in AppRun /\ row.status = "processing" /\ row.attempts = n
      <4>1. old \in AppRun /\ n \in Nat
        BY <2>1, <3>1
      <4> HIDE DEF old, n
      <4> QED BY <4>1, RowClaimed DEF old, n
    <3> HIDE DEF row
    <3> QED BY <3>1, <3>2
  <2>3. /\ new \in Request /\ new.doing = "claim-step" /\ new.run = r
    BY <1>0, <2>1 DEF Request, Doing, RunsTypeOK
  <2>4. requests' = [requests EXCEPT ![q] = new] /\ appRuns' = [appRuns EXCEPT ![r] = row]
    BY <1>5 DEF ClaimRun
  <2>5. appRuns'[r].status = "processing"
    BY <1>0, <2>1, <2>2, <2>4 DEF RunsTypeOK
  <2>6. overtaken' \subseteq AppRuns
    BY <1>0, <1>5, <2>1 DEF ClaimRun, Overtake, RunsTypeOK
  <2> HIDE DEF new, row
  <2>7. RowsGrow
    BY <2>1, <2>2, <2>3, <2>4, <2>5, <2>6, RowKept
  <2> QED BY <1>0, <1>5, <2>1, <2>2, <2>3, <2>4, <2>5, <2>6, <2>7, RequestKept DEF ClaimRun, RunsTypeOK
<1>6. CASE ClaimStep(q)
  <2>1. appSteps' \in [AppRuns -> RunStatus \cup {"absent"}]
    BY <1>0, <1>6 DEF ClaimStep, RunsTypeOK, RunStatus
  <2> QED BY <1>0, <1>6, <2>1, EndedKept DEF ClaimStep, Overtake, RunsTypeOK
<1>7. CASE CompleteRun(q)
  <2> DEFINE row == [appRuns[r] EXCEPT !.status = requests[q].result]
             new == [requests[q] EXCEPT !.doing = "complete-step"]
  <2>1. /\ r \in AppRuns /\ appRuns[r] \in AppRun /\ appRuns[r].attempts > 0
        /\ requests[q].result \in {"succeeded", "failed"}
    BY <1>0, <1>7 DEF CompleteRun, RunsTypeOK, TypeInv, RequestsGrounded
  <2>2. /\ row \in AppRun /\ row.status \in {"succeeded", "failed"}
        /\ row.attempts >= appRuns[r].attempts /\ row.attempts = appRuns[r].attempts
    BY <2>1 DEF AppRun, RunStatus
  <2>3. /\ new \in Request /\ new.doing = "complete-step" /\ new.run = r
        /\ new.result = requests[q].result
    BY <1>0 DEF Request, Doing
  <2>4. requests' = [requests EXCEPT ![q] = new] /\ appRuns' = [appRuns EXCEPT ![r] = row]
    BY <1>7 DEF CompleteRun, Then
  <2>5. appRuns'[r] = row
    BY <1>0, <2>1, <2>4 DEF RunsTypeOK
  <2>6. overtaken' \subseteq AppRuns
    BY <1>0, <1>7, <2>1 DEF CompleteRun, Overtake, RunsTypeOK
  <2> HIDE DEF new, row
  <2>7. RowsGrow
    BY <2>1, <2>2, <2>3, <2>4, <2>5, <2>6, RowKept
  <2> QED BY <1>0, <1>7, <2>1, <2>2, <2>3, <2>4, <2>5, <2>6, <2>7, RequestKept DEF CompleteRun, RunsTypeOK
<1>8. CASE CompleteStep(q)
  <2>1. requests[q].result \in {"succeeded", "failed"}
    BY <1>8 DEF CompleteStep, TypeInv, RequestsGrounded
  <2>2. appSteps' \in [AppRuns -> RunStatus \cup {"absent"}]
    BY <1>0, <1>8, <2>1 DEF CompleteStep, RunsTypeOK, RunStatus
  <2> QED BY <1>0, <1>8, <2>2, EndedKept DEF CompleteStep, Overtake, RunsTypeOK
<1>9. CASE RetryRun(q)
  <2> DEFINE row == [appRuns[r] EXCEPT !.status = "queued"]
             new == [requests[q] EXCEPT !.doing = "retry-step"]
  <2>1. r \in AppRuns /\ appRuns[r] \in AppRun
    BY <1>0, <1>9 DEF RetryRun, RunsTypeOK
  <2>2. row \in AppRun /\ row.status = "queued" /\ row.attempts >= appRuns[r].attempts
    BY <2>1 DEF AppRun, RunStatus
  <2>3. /\ new \in Request /\ new.doing = "retry-step" /\ new.run = r
    BY <1>0 DEF Request, Doing
  <2>4. requests' = [requests EXCEPT ![q] = new] /\ appRuns' = [appRuns EXCEPT ![r] = row]
    BY <1>9 DEF RetryRun, Then
  <2>5. appRuns'[r] = row
    BY <1>0, <2>1, <2>4 DEF RunsTypeOK
  <2>6. overtaken' \subseteq AppRuns
    BY <1>0, <1>9, <2>1 DEF RetryRun, Overtake, RunsTypeOK
  <2> HIDE DEF new, row
  <2>7. RowsGrow
    BY <2>1, <2>2, <2>3, <2>4, <2>5, <2>6, RowKept
  <2> QED BY <1>0, <1>9, <2>1, <2>2, <2>3, <2>4, <2>5, <2>6, <2>7, RequestKept DEF RetryRun, RunsTypeOK
<1>10. CASE RetryStep(q)
  <2>1. appSteps' \in [AppRuns -> RunStatus \cup {"absent"}]
    BY <1>0, <1>10 DEF RetryStep, RunsTypeOK, RunStatus
  <2> QED BY <1>0, <1>10, <2>1, EndedKept DEF RetryStep, Overtake, RunsTypeOK
<1>11. CASE AbandonRequest(q)
  BY <1>0, <1>11, EndedKept DEF AbandonRequest, RunsTypeOK
<1>12. ASSUME NEW x \in AppRuns,
              \/ FindClaimable(q, x) \/ FindFailed(q, x)
              \/ \E result \in {"succeeded", "failed"} : FindProcessing(q, x, result)
       PROVE  TypeInv'
  BY <1>4, <1>12 DEF FindClaimable, FindFailed, FindProcessing, Claimable, Completable
<1> QED BY <1>1, <1>2, <1>3, <1>5, <1>6, <1>7, <1>8, <1>9, <1>10, <1>11, <1>12 DEF RequestStep

LEMMA RunsStepType ==
  ASSUME TypeInv, [RunsNext]_runsVars
  PROVE  TypeInv'
<1>1. CASE PublishRevision
  BY <1>1, ApplicationRunsAssumption DEF PublishRevision, TypeInv, RunsTypeOK, RequestsGrounded
<1>2. ASSUME NEW q \in Requests, RequestStep(q)
      PROVE  TypeInv'
  BY <1>2, RequestStepType
<1>3. ASSUME NEW r \in AppRuns, GoStale(r)
      PROVE  TypeInv'
  <2>1. /\ appRuns' \in [AppRuns -> AppRun]
        /\ \A x \in AppRuns : /\ appRuns'[x].status = appRuns[x].status
                               /\ appRuns'[x].attempts = appRuns[x].attempts
                               /\ appRuns[x].status = "absent" => appRuns'[x] = appRuns[x]
    BY <1>3 DEF GoStale, TypeInv, RunsTypeOK, AppRun
  <2> QED BY <1>3, <2>1 DEF GoStale, TypeInv, RunsTypeOK, RequestsGrounded
<1>4. CASE ExpireStale
  <2>1. /\ appRuns' \in [AppRuns -> AppRun]
        /\ \A x \in AppRuns :
             /\ appRuns'[x] = appRuns[x] \/ (appRuns'[x].status = "failed"
                                             /\ appRuns[x].status = "processing")
             /\ appRuns'[x].attempts = appRuns[x].attempts
    BY <1>4 DEF ExpireStale, Expiring, TypeInv, RunsTypeOK, AppRun, RunStatus
  <2>2. appSteps' \in [AppRuns -> RunStatus \cup {"absent"}]
    BY <1>4 DEF ExpireStale, TypeInv, RunsTypeOK, RunStatus
  <2>3. overtaken' \subseteq AppRuns
    BY <1>4 DEF ExpireStale, Expiring, TypeInv, RunsTypeOK
  <2>4. \A x \in AppRuns :
          appRuns'[x].status = "failed" /\ appRuns[x].status = "processing"
            => appRuns'[x].attempts > 0
    BY <2>1 DEF TypeInv, RunsTypeOK
  <2>5. RunsTypeOK'
    <3>1. UNCHANGED <<published, requests, doubled>>
      BY <1>4 DEF ExpireStale
    <3> QED BY <2>1, <2>2, <2>3, <2>4, <3>1 DEF TypeInv, RunsTypeOK
  <2>6. RequestsGrounded'
    <3> SUFFICES ASSUME NEW q \in Requests
        PROVE /\ requests[q].doing \in {"nothing", "create"} <=> requests[q].run = NoAppRun
              /\ requests[q].run \in AppRuns => appRuns'[requests[q].run].status # "absent"
              /\ requests[q].doing \in {"complete", "complete-step"} =>
                   /\ requests[q].result \in {"succeeded", "failed"}
                   /\ appRuns'[requests[q].run].attempts > 0
      BY <1>4 DEF ExpireStale, RequestsGrounded
    <3>1. requests[q].doing \in {"complete", "complete-step"} => requests[q].run \in AppRuns
      BY DEF TypeInv, RunsTypeOK
    <3> QED BY <2>1, <3>1 DEF TypeInv, RequestsGrounded
  <2> QED BY <2>5, <2>6 DEF TypeInv
<1>5. CASE UNCHANGED runsVars
  BY <1>5 DEF runsVars, TypeInv, RunsTypeOK, RequestsGrounded
<1> QED BY <1>1, <1>2, <1>3, <1>4, <1>5 DEF RunsNext

(* Runs, steps and requests have their types; a run that was ever processed *)
(* was claimed, and no request writes a run that does not exist.            *)
THEOREM RunsTypeCorrect == RunsSpec => []RunsTypeOK
<1>1. TypeInv => RunsTypeOK
  BY DEF TypeInv
<1> QED BY <1>1, RunsInitType, RunsStepType, PTL DEF RunsSpec

-----------------------------------------------------------------------------
(* Runs of a revision *)

(* A reconcile that is about to create a run found none, and none has been  *)
(* created since, unless another reconcile looked at the same time.         *)
RevisionInv ==
  /\ OneRunPerRevision
  /\ \A q \in Requests : requests[q].doing = "create" =>
       \/ requests[q].revision \in doubled
       \/ \A r \in AppRuns : appRuns[r].status # "absent"
                            => appRuns[r].revision # requests[q].revision
  /\ \A p, q \in Requests :
       /\ p # q /\ requests[p].doing = "create" /\ requests[q].doing = "create"
       /\ requests[p].revision = requests[q].revision
       => requests[q].revision \in doubled

(* Neither rows nor the requests that create them change.                   *)
LEMMA RevisionsKept ==
  ASSUME RevisionInv, doubled' = doubled,
         \A r \in AppRuns : /\ appRuns'[r].status = "absent" <=> appRuns[r].status = "absent"
                            /\ appRuns'[r].revision = appRuns[r].revision,
         \A q \in Requests : requests'[q].doing = "create" => requests'[q] = requests[q]
  PROVE  RevisionInv'
BY DEF RevisionInv, OneRunPerRevision

LEMMA RequestStepRevision ==
  ASSUME TypeInv, RevisionInv, NEW q \in Requests, RequestStep(q)
  PROVE  RevisionInv'
<1> DEFINE r == requests[q].run
<1> USE DEF TypeInv, RunsTypeOK
<1>1. CASE FindNoRun(q)
  <2>1. /\ requests'[q].doing = "create" /\ requests'[q].revision = published
        /\ \A p \in Requests \ {q} : requests'[p] = requests[p]
        /\ appRuns' = appRuns
        /\ \A x \in AppRuns : appRuns[x].status # "absent" => appRuns[x].revision # published
    BY <1>1 DEF FindNoRun, HasRun, NoRequest
  <2>2. doubled \subseteq doubled'
    BY <1>1 DEF FindNoRun
  <2>3. \A p \in Requests : requests[p].doing = "create" /\ requests[p].revision = published
                             => published \in doubled'
    BY <1>1 DEF FindNoRun
  <2> QED BY <2>1, <2>2, <2>3 DEF RevisionInv, OneRunPerRevision
<1>2. ASSUME NEW x \in AppRuns, CreateRun(q, x)
      PROVE  RevisionInv'
  <2>1. /\ appRuns[x].status = "absent" /\ requests[q].doing = "create"
        /\ appRuns'[x].status = "queued" /\ appRuns'[x].revision = requests[q].revision
        /\ \A y \in AppRuns \ {x} : appRuns'[y] = appRuns[y]
        /\ requests'[q].doing = "create-step"
        /\ \A p \in Requests \ {q} : requests'[p] = requests[p]
        /\ doubled' = doubled
    BY <1>2 DEF CreateRun
  <2> QED BY <2>1 DEF RevisionInv, OneRunPerRevision
<1>3. CASE ClaimRun(q) \/ CompleteRun(q) \/ RetryRun(q)
  <2>1. /\ r \in AppRuns /\ appRuns[r] \in AppRun /\ doubled' = doubled
        /\ appRuns[r].status # "absent"
    BY <1>3 DEF ClaimRun, CompleteRun, RetryRun, RequestsGrounded
  <2>2. /\ appRuns'[r].status # "absent" /\ appRuns'[r].revision = appRuns[r].revision
        /\ \A y \in AppRuns \ {r} : appRuns'[y] = appRuns[y]
    <3>1. CASE ClaimRun(q)
      BY <2>1, <3>1 DEF ClaimRun, AppRun
    <3>2. CASE CompleteRun(q)
      <4>1. requests[q].result # "absent"
        BY <3>2 DEF CompleteRun, RequestsGrounded
      <4> QED BY <2>1, <3>2, <4>1 DEF CompleteRun, AppRun
    <3>3. CASE RetryRun(q)
      BY <2>1, <3>3 DEF RetryRun, AppRun
    <3> QED BY <1>3, <3>1, <3>2, <3>3
  <2>3. /\ requests'[q].doing \in {"claim-step", "complete-step", "retry-step"}
        /\ \A p \in Requests \ {q} : requests'[p] = requests[p]
    <3>1. requests[q] \in Request
      OBVIOUS
    <3> QED BY <1>3, <3>1 DEF ClaimRun, CompleteRun, RetryRun, Then, Request
  <2>4. \A p \in Requests : requests'[p].doing = "create" => requests'[p] = requests[p]
    BY <2>3
  <2> HIDE DEF r, TypeInv, RunsTypeOK
  <2> QED BY <2>1, <2>2, <2>4, RevisionsKept
<1>4. CASE CreateStep(q) \/ ClaimStep(q) \/ CompleteStep(q) \/ RetryStep(q) \/ AbandonRequest(q)
  <2>1. appRuns' = appRuns /\ doubled' = doubled /\ End(q)
    BY <1>4 DEF CreateStep, ClaimStep, CompleteStep, RetryStep, AbandonRequest
  <2>2. \A p \in Requests : requests'[p].doing = "create" => requests'[p] = requests[p]
    BY <2>1 DEF End, NoRequest
  <2> QED BY <2>1, <2>2, RevisionsKept
<1>5. ASSUME NEW x \in AppRuns,
             \/ FindClaimable(q, x) \/ FindFailed(q, x)
             \/ \E result \in {"succeeded", "failed"} : FindProcessing(q, x, result)
      PROVE  RevisionInv'
  <2>1. appRuns' = appRuns /\ doubled' = doubled
    BY <1>5 DEF FindClaimable, FindFailed, FindProcessing, Begin
  <2>2. \A p \in Requests : requests'[p].doing = "create" => requests'[p] = requests[p]
    BY <1>5 DEF FindClaimable, FindFailed, FindProcessing, Begin, NoRequest
  <2> QED BY <2>1, <2>2, RevisionsKept
<1> QED BY <1>1, <1>2, <1>3, <1>4, <1>5 DEF RequestStep

LEMMA RunsStepRevision ==
  ASSUME TypeInv, RevisionInv, [RunsNext]_runsVars
  PROVE  RevisionInv'
<1>1. ASSUME NEW q \in Requests, RequestStep(q)
      PROVE  RevisionInv'
  BY <1>1, RequestStepRevision
<1>2. CASE PublishRevision \/ UNCHANGED runsVars
  BY <1>2, RevisionsKept DEF PublishRevision, runsVars
<1>3. CASE (\E r \in AppRuns : GoStale(r)) \/ ExpireStale
  <2>1. /\ requests' = requests /\ doubled' = doubled
        /\ \A r \in AppRuns :
             /\ appRuns'[r].status = "absent" <=> appRuns[r].status = "absent"
             /\ appRuns'[r].revision = appRuns[r].revision
    BY <1>3 DEF GoStale, ExpireStale, Expiring, TypeInv, RunsTypeOK, AppRun
  <2> QED BY <2>1, RevisionsKept
<1> QED BY <1>1, <1>2, <1>3 DEF RunsNext

(* A revision gets one run, unless two reconciles looked for it at one time.*)
THEOREM RevisionsGetOneRun == RunsSpec => []OneRunPerRevision
<1>1. RunsInit => RevisionInv
  BY DEF RunsInit, RevisionInv, OneRunPerRevision, AbsentAppRun, NoRequest
<1>2. RevisionInv => OneRunPerRevision
  BY DEF RevisionInv
<1> QED BY <1>1, <1>2, RunsInitType, RunsStepType, RunsStepRevision, PTL DEF RunsSpec

-----------------------------------------------------------------------------
(* A run and its step *)

Half == {"create-step", "claim-step", "complete-step", "retry-step"}

(* The status a request relies on of its run, and the step it left behind   *)
(* when it wrote the run and not yet the step                               *)
Expected(req) ==
  IF req.doing \in {"claim", "create-step", "retry-step"} THEN "queued"
  ELSE IF req.doing \in {"claim-step", "complete"} THEN "processing"
  ELSE IF req.doing = "retry" THEN "failed"
  ELSE req.result

StepLeft(req) ==
  IF req.doing = "create-step" THEN "absent"
  ELSE IF req.doing = "claim-step" THEN "queued"
  ELSE IF req.doing = "complete-step" THEN "processing"
  ELSE "failed"

(* As long as a run is not overtaken, those that have read it find it as    *)
(* they read it, at most one of them has written it, and its step differs   *)
(* from it only meanwhile.                                                  *)
TurnInv ==
  /\ \A q \in Requests :
       requests[q].run \in AppRuns \ overtaken =>
         /\ appRuns[requests[q].run].status = Expected(requests[q])
         /\ requests[q].doing \in Half =>
              /\ appSteps[requests[q].run] = StepLeft(requests[q])
              /\ requests[q].doing = "claim-step" => requests[q].step = "queued"
              /\ \A p \in Requests \ {q} :
                   requests[p].run = requests[q].run => requests[p].doing \notin Half
  /\ \A r \in AppRuns \ overtaken :
       (\A q \in Requests : requests[q].run = r => requests[q].doing \notin Half)
         => appSteps[r] = appRuns[r].status

(* Request q writes its run, and has the step yet to write.                 *)
LEMMA RunWritten ==
  ASSUME TypeInv, TurnInv, NEW q \in Requests, requests[q].run \in AppRuns,
         requests[q].doing \notin Half, NEW new,
         requests' = [requests EXCEPT ![q] = new],
         new.run = requests[q].run, new.doing \in Half,
         Expected(requests[q]) = StepLeft(new),
         new.doing = "claim-step" => new.step = appSteps[requests[q].run],
         \A x \in AppRuns \ {requests[q].run} : appRuns'[x] = appRuns[x],
         appRuns'[requests[q].run].status = Expected(new),
         appSteps' = appSteps, Overtake(requests[q].run, q)
  PROVE  TurnInv'
<1> DEFINE r == requests[q].run
<1>1. requests'[q] = new /\ \A p \in Requests \ {q} : requests'[p] = requests[p]
  BY DEF TypeInv, RunsTypeOK
<1>2. overtaken' = IF OthersOn(r, q) # {} THEN overtaken \cup {r} ELSE overtaken
  BY DEF Overtake
<1>3. r \notin overtaken' =>
        /\ r \notin overtaken /\ \A p \in Requests \ {q} : requests[p].run # r
        /\ appSteps[r] = StepLeft(new)
  BY <1>2 DEF OthersOn, TurnInv
<1>4. \A p \in Requests \ {q} : requests'[p].run \in AppRuns \ overtaken' =>
        /\ requests[p].run \in AppRuns \ overtaken /\ requests[p].run # r
  BY <1>1, <1>2, <1>3
<1>5. \A p \in Requests : requests'[p].run \in AppRuns \ overtaken' =>
        /\ appRuns'[requests'[p].run].status = Expected(requests'[p])
        /\ requests'[p].doing \in Half =>
             /\ appSteps'[requests'[p].run] = StepLeft(requests'[p])
             /\ requests'[p].doing = "claim-step" => requests'[p].step = "queued"
             /\ \A s \in Requests \ {p} :
                  requests'[s].run = requests'[p].run => requests'[s].doing \notin Half
  <2> SUFFICES ASSUME NEW p \in Requests, requests'[p].run \in AppRuns \ overtaken'
      PROVE /\ appRuns'[requests'[p].run].status = Expected(requests'[p])
            /\ requests'[p].doing \in Half =>
                 /\ appSteps'[requests'[p].run] = StepLeft(requests'[p])
                 /\ requests'[p].doing = "claim-step" => requests'[p].step = "queued"
                 /\ \A s \in Requests \ {p} :
                      requests'[s].run = requests'[p].run => requests'[s].doing \notin Half
    OBVIOUS
  <2>1. CASE p = q
    BY <1>1, <1>3, <2>1 DEF StepLeft
  <2>2. CASE p # q
    BY <1>1, <1>4, <2>2 DEF TurnInv
  <2> QED BY <2>1, <2>2
<1>6. \A x \in AppRuns \ overtaken' :
        (\A p \in Requests : requests'[p].run = x => requests'[p].doing \notin Half)
          => appSteps'[x] = appRuns'[x].status
  <2> SUFFICES ASSUME NEW x \in AppRuns \ overtaken',
                      \A p \in Requests : requests'[p].run = x => requests'[p].doing \notin Half
               PROVE  appSteps'[x] = appRuns'[x].status
    OBVIOUS
  <2>1. x # r
    BY <1>1
  <2>2. x \in AppRuns \ overtaken
    BY <1>2
  <2> QED BY <1>1, <2>1, <2>2 DEF TurnInv
<1> QED BY <1>5, <1>6 DEF TurnInv

(* Request q ends, having made the step follow the run, or leaving the run  *)
(* overtaken.                                                               *)
LEMMA StepWritten ==
  ASSUME TypeInv, TurnInv, NEW q \in Requests, requests[q].run \in AppRuns, End(q),
         appRuns' = appRuns, overtaken \subseteq overtaken',
         \A x \in AppRuns \ {requests[q].run} : appSteps'[x] = appSteps[x],
         \/ requests[q].run \in overtaken'
         \/ /\ requests[q].doing \in Half
            /\ \A p \in Requests \ {q} : requests[p].run # requests[q].run
            /\ requests[q].run \notin overtaken =>
                 appSteps'[requests[q].run] = Expected(requests[q])
  PROVE  TurnInv'
<1> DEFINE r == requests[q].run
<1>1. /\ requests'[q].run \notin AppRuns /\ requests'[q].doing \notin Half
      /\ \A p \in Requests \ {q} : requests'[p] = requests[p]
  BY ApplicationRunsAssumption DEF End, NoRequest, Half, TypeInv, RunsTypeOK
<1>2. \A p \in Requests \ {q} : requests[p].run \in AppRuns \ overtaken' => requests[p].run # r
  OBVIOUS
<1>3. \A p \in Requests : requests'[p].run \in AppRuns \ overtaken' =>
        /\ appRuns'[requests'[p].run].status = Expected(requests'[p])
        /\ requests'[p].doing \in Half =>
             /\ appSteps'[requests'[p].run] = StepLeft(requests'[p])
             /\ requests'[p].doing = "claim-step" => requests'[p].step = "queued"
             /\ \A s \in Requests \ {p} :
                  requests'[s].run = requests'[p].run => requests'[s].doing \notin Half
  BY <1>1, <1>2 DEF TurnInv
<1>4. \A x \in AppRuns \ overtaken' :
        (\A p \in Requests : requests'[p].run = x => requests'[p].doing \notin Half)
          => appSteps'[x] = appRuns'[x].status
  <2> SUFFICES ASSUME NEW x \in AppRuns \ overtaken',
                      \A p \in Requests : requests'[p].run = x => requests'[p].doing \notin Half
               PROVE  appSteps'[x] = appRuns'[x].status
    OBVIOUS
  <2>1. CASE x = r
    BY <2>1 DEF TurnInv
  <2>2. CASE x # r
    <3>1. \A p \in Requests : requests[p].run = x => requests[p].doing \notin Half
      BY <1>1, <2>2
    <3> QED BY <2>2, <3>1 DEF TurnInv
  <2> QED BY <2>1, <2>2
<1> QED BY <1>3, <1>4 DEF TurnInv

(* Request q has read a run.                                                *)
LEMMA RunRead ==
  ASSUME TypeInv, TurnInv, NEW q \in Requests, requests[q].run \notin AppRuns, NEW new,
         requests' = [requests EXCEPT ![q] = new], new.doing \notin Half,
         new.run \in AppRuns => appRuns[new.run].status = Expected(new),
         UNCHANGED <<appRuns, appSteps, overtaken>>
  PROVE  TurnInv'
<1>1. requests'[q] = new /\ \A p \in Requests \ {q} : requests'[p] = requests[p]
  BY DEF TypeInv, RunsTypeOK
<1> QED BY <1>1 DEF TurnInv

LEMMA RequestStepTurn ==
  ASSUME TypeInv, TurnInv, NEW q \in Requests, RequestStep(q)
  PROVE  TurnInv'
<1> DEFINE r == requests[q].run
<1>0. /\ requests[q] \in Request /\ NoAppRun \notin AppRuns
      /\ requests[q].doing \notin {"nothing", "create"} => r \in AppRuns
      /\ requests[q].doing \in {"nothing", "create"} => r \notin AppRuns
      /\ DOMAIN appRuns = AppRuns /\ DOMAIN appSteps = AppRuns
  BY ApplicationRunsAssumption DEF TypeInv, RunsTypeOK, RequestsGrounded
<1>1. CASE FindNoRun(q)
  <2> DEFINE new == [NoRequest EXCEPT !.doing = "create", !.revision = published]
  <2>1. new.doing \notin Half /\ new.run \notin AppRuns /\ r \notin AppRuns
    BY <1>0, <1>1 DEF NoRequest, Half, FindNoRun
  <2>2. requests' = [requests EXCEPT ![q] = new] /\ UNCHANGED <<appRuns, appSteps, overtaken>>
    BY <1>1 DEF FindNoRun
  <2> HIDE DEF new
  <2> QED BY <2>1, <2>2, RunRead
<1>2. ASSUME NEW x \in AppRuns, CreateRun(q, x)
      PROVE  TurnInv'
  <2>1. /\ appRuns[x].status = "absent" /\ appRuns'[x].status = "queued"
        /\ \A y \in AppRuns \ {x} : appRuns'[y] = appRuns[y]
        /\ requests'[q].doing = "create-step" /\ requests'[q].run = x
        /\ \A p \in Requests \ {q} : requests'[p] = requests[p]
        /\ appSteps' = appSteps /\ overtaken' = overtaken
    BY <1>0, <1>2 DEF CreateRun, TypeInv, RunsTypeOK, Request
  <2>2. \A p \in Requests : requests[p].run # x
    BY <2>1 DEF TypeInv, RequestsGrounded
  <2>3. x \notin overtaken => appSteps[x] = "absent"
    BY <2>1, <2>2 DEF TurnInv
  <2>4. Expected(requests'[q]) = "queued" /\ StepLeft(requests'[q]) = "absent"
    BY <2>1 DEF Expected, StepLeft
  <2>5. r \notin AppRuns
    BY <1>0, <1>2 DEF CreateRun
  <2> QED BY <2>1, <2>2, <2>3, <2>4, <2>5 DEF TurnInv, Half
<1>3. ASSUME NEW doing \in {"claim", "complete", "retry"}, NEW x \in AppRuns, NEW result,
             Begin(q, doing, x, result),
             appRuns[x].status = Expected([NoRequest EXCEPT !.doing = doing, !.run = x,
                                                            !.result = result])
      PROVE  TurnInv'
  <2> DEFINE new == [NoRequest EXCEPT !.doing = doing, !.run = x, !.result = result]
  <2>1. new.doing \notin Half /\ r \notin AppRuns /\ new.run = x
    BY <1>0, <1>3 DEF NoRequest, Half, Begin
  <2>2. requests' = [requests EXCEPT ![q] = new] /\ UNCHANGED <<appRuns, appSteps, overtaken>>
    BY <1>3 DEF Begin
  <2> HIDE DEF new
  <2> QED BY <1>3, <2>1, <2>2, RunRead DEF new
<1>4. CASE ClaimRun(q)
  <2> DEFINE new == [requests[q] EXCEPT !.doing = "claim-step", !.step = appSteps[r]]
  <2>1. /\ new.run = r /\ new.doing = "claim-step" /\ new.step = appSteps[r]
        /\ Expected(new) = "processing"
        /\ Expected(requests[q]) = "queued" /\ StepLeft(new) = "queued"
    BY <1>0, <1>4 DEF ClaimRun, Request, Expected, StepLeft
  <2>2. /\ requests' = [requests EXCEPT ![q] = new] /\ appSteps' = appSteps /\ Overtake(r, q)
        /\ \A x \in AppRuns \ {r} : appRuns'[x] = appRuns[x]
    BY <1>0, <1>4 DEF ClaimRun
  <2>3. r \in AppRuns /\ requests[q].doing \notin Half
    BY <1>0, <1>4 DEF ClaimRun, Half
  <2>4. appRuns'[r].status = "processing"
    BY <1>0, <1>4, <2>3 DEF ClaimRun, TypeInv, RunsTypeOK, AppRun
  <2> HIDE DEF new
  <2> QED BY <2>1, <2>2, <2>3, <2>4, RunWritten DEF Half
<1>5. CASE CompleteRun(q)
  <2> DEFINE new == [requests[q] EXCEPT !.doing = "complete-step"]
  <2>1. /\ new.run = r /\ new.doing = "complete-step" /\ Expected(new) = requests[q].result
        /\ Expected(requests[q]) = "processing" /\ StepLeft(new) = "processing"
    BY <1>0, <1>5 DEF CompleteRun, Request, Expected, StepLeft
  <2>2. /\ requests' = [requests EXCEPT ![q] = new] /\ appSteps' = appSteps /\ Overtake(r, q)
        /\ \A x \in AppRuns \ {r} : appRuns'[x] = appRuns[x]
    BY <1>0, <1>5 DEF CompleteRun, Then
  <2>3. r \in AppRuns /\ requests[q].doing \notin Half
    BY <1>0, <1>5 DEF CompleteRun, Half
  <2>4. appRuns'[r].status = requests[q].result
    BY <1>0, <1>5, <2>3 DEF CompleteRun, TypeInv, RunsTypeOK, AppRun
  <2> HIDE DEF new
  <2> QED BY <2>1, <2>2, <2>3, <2>4, RunWritten DEF Half
<1>6. CASE RetryRun(q)
  <2> DEFINE new == [requests[q] EXCEPT !.doing = "retry-step"]
  <2>1. /\ new.run = r /\ new.doing = "retry-step" /\ Expected(new) = "queued"
        /\ Expected(requests[q]) = "failed" /\ StepLeft(new) = "failed"
    BY <1>0, <1>6 DEF RetryRun, Request, Expected, StepLeft
  <2>2. /\ requests' = [requests EXCEPT ![q] = new] /\ appSteps' = appSteps /\ Overtake(r, q)
        /\ \A x \in AppRuns \ {r} : appRuns'[x] = appRuns[x]
    BY <1>0, <1>6 DEF RetryRun, Then
  <2>3. r \in AppRuns /\ requests[q].doing \notin Half
    BY <1>0, <1>6 DEF RetryRun, Half
  <2>4. appRuns'[r].status = "queued"
    BY <1>0, <1>6, <2>3 DEF RetryRun, TypeInv, RunsTypeOK, AppRun
  <2> HIDE DEF new
  <2> QED BY <2>1, <2>2, <2>3, <2>4, RunWritten DEF Half
<1>7. CASE CreateStep(q) \/ ClaimStep(q) \/ CompleteStep(q) \/ RetryStep(q)
  <2>1. /\ requests[q].doing \in Half /\ End(q) /\ appRuns' = appRuns /\ Overtake(r, q)
        /\ \A x \in AppRuns \ {r} : appSteps'[x] = appSteps[x]
    BY <1>0, <1>7 DEF CreateStep, ClaimStep, CompleteStep, RetryStep, Half
  <2>2. r \in AppRuns
    BY <1>0, <2>1 DEF Half
  <2>3. /\ overtaken \subseteq overtaken'
        /\ r \in overtaken' \/ \A p \in Requests \ {q} : requests[p].run # r
    BY <2>1 DEF Overtake, OthersOn
  <2>4. r \notin overtaken => appSteps'[r] = Expected(requests[q])
    <3> SUFFICES ASSUME r \notin overtaken PROVE appSteps'[r] = Expected(requests[q])
      OBVIOUS
    <3>1. /\ appSteps[r] = StepLeft(requests[q])
          /\ requests[q].doing = "claim-step" => requests[q].step = "queued"
      BY <2>1, <2>2 DEF TurnInv
    <3>2. CASE CreateStep(q)
      BY <1>0, <2>2, <3>2 DEF CreateStep, Expected
    <3>3. CASE ClaimStep(q)
      BY <1>0, <2>2, <3>1, <3>3 DEF ClaimStep, Expected
    <3>4. CASE CompleteStep(q)
      BY <1>0, <2>2, <3>1, <3>4 DEF CompleteStep, Expected, StepLeft
    <3>5. CASE RetryStep(q)
      BY <1>0, <2>2, <3>1, <3>5 DEF RetryStep, Expected, StepLeft
    <3> QED BY <1>7, <3>2, <3>3, <3>4, <3>5
  <2> QED BY <2>1, <2>2, <2>3, <2>4, StepWritten
<1>8. CASE AbandonRequest(q) /\ r \in AppRuns
  BY <1>8, StepWritten DEF AbandonRequest
<1>9. CASE AbandonRequest(q) /\ r \notin AppRuns
  <2>1. NoRequest.doing \notin Half /\ NoRequest.run \notin AppRuns
    BY <1>0 DEF NoRequest, Half
  <2>2. /\ requests' = [requests EXCEPT ![q] = NoRequest]
        /\ UNCHANGED <<appRuns, appSteps, overtaken>>
    BY <1>9 DEF AbandonRequest, End, TypeInv, RunsTypeOK
  <2> QED BY <1>9, <2>1, <2>2, RunRead
<1>10. ASSUME NEW x \in AppRuns,
              \/ FindClaimable(q, x) \/ FindFailed(q, x)
              \/ \E result \in {"succeeded", "failed"} : FindProcessing(q, x, result)
       PROVE  TurnInv'
  BY <1>3, <1>10 DEF FindClaimable, FindFailed, FindProcessing, Claimable, Completable,
                     Expected, NoRequest
<1> QED BY <1>1, <1>2, <1>4, <1>5, <1>6, <1>7, <1>8, <1>9, <1>10 DEF RequestStep

LEMMA RunsStepTurn ==
  ASSUME TypeInv, TurnInv, [RunsNext]_runsVars
  PROVE  TurnInv'
<1>1. ASSUME NEW q \in Requests, RequestStep(q)
      PROVE  TurnInv'
  BY <1>1, RequestStepTurn
<1>2. CASE PublishRevision \/ UNCHANGED runsVars
  BY <1>2 DEF PublishRevision, runsVars, TurnInv
<1>3. ASSUME NEW r \in AppRuns, GoStale(r)
      PROVE  TurnInv'
  <2>1. /\ \A x \in AppRuns : appRuns'[x].status = appRuns[x].status
        /\ UNCHANGED <<appSteps, requests, overtaken>>
    BY <1>3 DEF GoStale, TypeInv, RunsTypeOK, AppRun
  <2> QED BY <2>1 DEF TurnInv
<1>4. CASE ExpireStale
  <2>1. /\ requests' = requests
        /\ overtaken' = overtaken \cup {r \in Expiring : \E q \in Requests : requests[q].run = r}
        /\ \A r \in AppRuns \ Expiring : appRuns'[r] = appRuns[r] /\ appSteps'[r] = appSteps[r]
    BY <1>4 DEF ExpireStale
  <2>2. \A r \in Expiring : /\ appRuns'[r].status = "failed" /\ appRuns[r].status = "processing"
                            /\ appSteps[r] = "processing" => appSteps'[r] = "failed"
    BY <1>4 DEF ExpireStale, Expiring, TypeInv, RunsTypeOK, AppRun
  <2>3. \A q \in Requests : requests[q].run \in AppRuns \ overtaken' =>
                              requests[q].run \in (AppRuns \ overtaken) \ Expiring
    BY <2>1
  <2>4. \A r \in AppRuns \ overtaken' : r \in Expiring => \A q \in Requests : requests[q].run # r
    BY <2>1
  <2> QED BY <2>1, <2>2, <2>3, <2>4 DEF TurnInv, Expiring
<1> QED BY <1>1, <1>2, <1>3, <1>4 DEF RunsNext

(* Between requests a run and its step tell the same, however often the run *)
(* was claimed, failed, expired and retried, unless two worked on it at a   *)
(* time or one left it half written.                                        *)
THEOREM StepsFollowRuns == RunsSpec => []StepFollowsRun
<1>1. RunsInit => TurnInv
  BY ApplicationRunsAssumption DEF RunsInit, TurnInv, AbsentAppRun, NoRequest
<1>2. TurnInv => StepFollowsRun
  BY DEF TurnInv, StepFollowsRun
<1> QED BY <1>1, <1>2, RunsInitType, RunsStepType, RunsStepTurn, PTL DEF RunsSpec

LEMMA TurnsKeepLifeCycle ==
  ASSUME TypeInv, TurnInv, [RunsNext]_runsVars, NEW r \in AppRuns, r \notin overtaken'
  PROVE  Successor(appRuns[r], appRuns'[r])
<1> USE DEF TypeInv, RunsTypeOK
<1>1. ASSUME NEW q \in Requests, ClaimRun(q) \/ CompleteRun(q) \/ RetryRun(q),
             requests[q].run = r
      PROVE  Successor(appRuns[r], appRuns'[r])
  <2>1. appRuns[r].status = Expected(requests[q])
    BY <1>1 DEF ClaimRun, CompleteRun, RetryRun, Overtake, TurnInv
  <2>2. appRuns[r] \in AppRun
    OBVIOUS
  <2>3. CASE ClaimRun(q)
    BY <1>1, <2>1, <2>2, <2>3 DEF ClaimRun, Expected, Successor, AppRun
  <2>4. CASE CompleteRun(q)
    <3>1. requests[q].result \in {"succeeded", "failed"}
      BY <2>4 DEF CompleteRun, RequestsGrounded
    <3> QED BY <1>1, <2>1, <2>2, <2>4, <3>1 DEF CompleteRun, Expected, Successor, AppRun
  <2>5. CASE RetryRun(q)
    BY <1>1, <2>1, <2>2, <2>5 DEF RetryRun, Expected, Successor, AppRun
  <2> QED BY <1>1, <2>3, <2>4, <2>5
<1>2. ASSUME NEW q \in Requests, ClaimRun(q) \/ CompleteRun(q) \/ RetryRun(q),
             requests[q].run # r
      PROVE  Successor(appRuns[r], appRuns'[r])
  <2>1. appRuns'[r] = appRuns[r]
    BY <1>2 DEF ClaimRun, CompleteRun, RetryRun
  <2> QED BY <2>1 DEF Successor
<1>3. ASSUME NEW q \in Requests, NEW x \in AppRuns, CreateRun(q, x)
      PROVE  Successor(appRuns[r], appRuns'[r])
  BY <1>3 DEF CreateRun, Successor
<1>4. CASE appRuns' = appRuns
  BY <1>4 DEF Successor
<1>5. CASE (\E x \in AppRuns : GoStale(x)) \/ ExpireStale
  BY <1>5 DEF GoStale, ExpireStale, Expiring, Successor, AppRun
<1>6. ASSUME NEW q \in Requests, RequestStep(q),
             ~ (ClaimRun(q) \/ CompleteRun(q) \/ RetryRun(q)),
             \A x \in AppRuns : ~ CreateRun(q, x)
      PROVE  appRuns' = appRuns
  BY <1>6 DEF RequestStep, FindNoRun, CreateStep, FindClaimable, FindFailed, FindProcessing,
              Begin, ClaimStep, CompleteStep, RetryStep, AbandonRequest
<1>7. CASE PublishRevision \/ UNCHANGED runsVars
  BY <1>4, <1>7 DEF PublishRevision, runsVars
<1> HIDE DEF TypeInv, RunsTypeOK
<1>8. ASSUME NEW q \in Requests, RequestStep(q)
      PROVE  Successor(appRuns[r], appRuns'[r])
  BY <1>1, <1>2, <1>3, <1>4, <1>6, <1>8
<1> QED BY <1>5, <1>7, <1>8 DEF RunsNext

(* A run goes through its life cycle step by step until two work on it at a *)
(* time: it is claimed once each time it was queued, completed only while   *)
(* it is processed, and retried only when it failed.                        *)
THEOREM RunsKeepLifeCycle == RunsSpec => RunLifeCycle
<1> DEFINE Inv == TypeInv /\ TurnInv
<1>1. RunsInit => Inv
  BY RunsInitType, ApplicationRunsAssumption
     DEF RunsInit, TurnInv, AbsentAppRun, NoRequest
<1>2. Inv /\ [RunsNext]_runsVars => Inv'
  BY RunsStepType, RunsStepTurn
<1>3. Inv /\ [RunsNext]_runsVars =>
        [\A r \in AppRuns :
           Successor(appRuns[r], appRuns'[r]) \/ r \in overtaken']_runsVars
  BY TurnsKeepLifeCycle
<1> HIDE DEF Inv
<1> QED BY <1>1, <1>2, <1>3, PTL DEF RunsSpec, RunLifeCycle
=============================================================================
