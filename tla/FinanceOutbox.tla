---------------------------- MODULE FinanceOutbox ----------------------------
(***************************************************************************)
(* Core's table finance_provisioning_outbox, the provisioning runs that    *)
(* shadow its rows, and the transactions of the dispatch repository and of *)
(* the console's retry on them.  A row is named by its lifecycle version,  *)
(* which is unique within the aggregate.                                   *)
(*                                                                         *)
(* Time and row locks are abstract.  A claim takes the rows whose backoff  *)
(* has elapsed, whose processing lock is older than LOCK_TIMEOUT_SECONDS   *)
(* and that no other transaction holds (SKIP LOCKED).  It is given the set *)
(* of these rows, `free`, as a parameter, and any set may be given.        *)
(* Attempt counters only choose a delay and are left out.                  *)
(***************************************************************************)
EXTENDS FinanceVocabulary

CONSTANT Operators     \* console operators who press "retry" on a failed run

VARIABLES
  outbox,   \* outbox[v]: the row of lifecycle version v
  runs,     \* runs[v]: status of the run whose outbox_event_id is v's row
  retry     \* retry[o]: progress of operator o's retry request

outboxVars == <<outbox, runs, retry>>

RowStatus == {"absent", "pending", "processing", "delivered", "failed"}
RunStatus == {"none", "queued", "processing", "succeeded", "failed"}

Row == [status  : RowStatus,
        linked  : BOOLEAN,                      \* run_id is set
        payload : Payload \cup {NoPayload}]

RetryStep == [pc : {"idle", "event", "run"}, version : Versions \cup {0}]

OutboxTypeOK ==
  /\ outbox \in [Versions -> Row]
  /\ runs   \in [Versions -> RunStatus]
  /\ retry  \in [Operators -> RetryStep]

AbsentRow == [status |-> "absent", linked |-> FALSE, payload |-> NoPayload]

NoRetry == [pc |-> "idle", version |-> 0]

OutboxInit ==
  /\ outbox = [v \in Versions |-> AbsentRow]
  /\ runs   = [v \in Versions |-> "none"]
  /\ retry  = [o \in Operators |-> NoRetry]

Published(v) == outbox[v].status # "absent"

-----------------------------------------------------------------------------
(* Claiming, settling *)

(* Mutant: a lock never expires. *)
ClaimableUnlocked(v, free) == v \in free /\ outbox[v].status \in {"pending", "failed"}

Claimable(v, free) ==
  v \in free /\ outbox[v].status \in {"pending", "failed", "processing"}

(* One transaction: the rows of S and the runs they point at turn          *)
(* processing, under a fresh lock.                                         *)
ClaimRows(S) ==
  /\ outbox' = [v \in Versions |->
                  IF v \in S THEN [outbox[v] EXCEPT !.status = "processing"]
                             ELSE outbox[v]]
  /\ runs' = [v \in Versions |->
                IF v \in S /\ outbox[v].linked THEN "processing" ELSE runs[v]]
  /\ UNCHANGED retry

SettledRun(v, status) ==
  runs' = IF outbox[v].linked THEN [runs EXCEPT ![v] = status] ELSE runs

(* A row that is not processing any more is left alone; nothing checks     *)
(* whose claim made it processing.                                         *)
MarkDelivered(v) ==
  /\ IF outbox[v].status = "processing"
       THEN /\ outbox' = [outbox EXCEPT ![v].status = "delivered"]
            /\ SettledRun(v, "succeeded")
       ELSE UNCHANGED <<outbox, runs>>
  /\ UNCHANGED retry

MarkFailed(v) ==
  /\ IF outbox[v].status = "processing"
       THEN /\ outbox' = [outbox EXCEPT ![v].status = "failed"]
            /\ SettledRun(v, "failed")
       ELSE UNCHANGED <<outbox, runs>>
  /\ UNCHANGED retry

-----------------------------------------------------------------------------
(* POST /provisioning/runs/:id/retry: three statements, no transaction.    *)

RetryRead(o, v) ==
  /\ retry[o].pc = "idle"
  /\ runs[v] = "failed"
  /\ retry' = [retry EXCEPT ![o] = [pc |-> "event", version |-> v]]
  /\ UNCHANGED <<outbox, runs>>

RetryEvent(o) ==
  /\ retry[o].pc = "event"
  /\ outbox' = [outbox EXCEPT ![retry[o].version].status = "pending"]
  /\ retry' = [retry EXCEPT ![o].pc = "run"]
  /\ UNCHANGED runs

(* Mutant: the event's status is written to the run. *)
RetryRunAsPending(o) ==
  /\ retry[o].pc = "run"
  /\ runs' = [runs EXCEPT ![retry[o].version] = "pending"]
  /\ retry' = [retry EXCEPT ![o] = NoRetry]
  /\ UNCHANGED outbox

RetryRun(o) ==
  /\ retry[o].pc = "run"
  /\ runs' = [runs EXCEPT ![retry[o].version] = "queued"]
  /\ retry' = [retry EXCEPT ![o] = NoRetry]
  /\ UNCHANGED outbox

(* The request dies between two statements. *)
RetryAborts(o) ==
  /\ retry[o].pc # "idle"
  /\ retry' = [retry EXCEPT ![o] = NoRetry]
  /\ UNCHANGED <<outbox, runs>>
=============================================================================
