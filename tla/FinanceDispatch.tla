---------------------------- MODULE FinanceDispatch --------------------------
(***************************************************************************)
(* The dispatch worker: claim a batch of outbox rows, send them to Billing *)
(* one after the other, and settle each row on Billing's answer.  The same *)
(* loop serves the background workers and, for the events of one request,  *)
(* the activations that wait for Billing (exactState).                     *)
(***************************************************************************)
EXTENDS FinanceOutbox, FinanceConnections

CONSTANTS
  Workers,      \* background dispatchers, one per Core process
  BatchSize,    \* FINANCE_PROVISIONING_BATCH_SIZE
  MaxOrphans    \* bound on requests that outlive their sender

ASSUME WorkersAssumption == Workers \subseteq Dispatchers
ASSUME BatchSizeAssumption == BatchSize \in Nat \ {0}
ASSUME MaxOrphansAssumption == MaxOrphans \in Nat

VARIABLE
  dispatch      \* dispatch[d]: the batch d works on

Dispatch == [pc      : {"idle", "next", "waiting"},
             batch   : SUBSET Versions,      \* claimed, not settled yet
             current : Versions \cup {0}]    \* sent, not settled yet

IdleDispatch == [pc |-> "idle", batch |-> {}, current |-> 0]

DispatchTypeOK == dispatch \in [Dispatchers -> Dispatch]

DispatchInit == dispatch = [d \in Dispatchers |-> IdleDispatch]

-----------------------------------------------------------------------------
(* Whether Billing's answer proves delivery of version v, whose event asks  *)
(* for `status`: parseFinanceProvisioningReceipt.                           *)
Proves(v, status, reply, exact) ==
  /\ reply.version >= v
  /\ exact => reply.version = v
  /\ reply.version = v => reply.status = status

(* Mutant: any answer counts, the status of the response is not looked at. *)
AcceptedOnAnyAnswer(d) == replies[d] # NoReply

Accepted(d) ==
  /\ replies[d] # NoReply
  /\ Proves(dispatch[d].current, outbox[dispatch[d].current].payload.status,
            replies[d], d \notin Workers)

(* ORDER BY created_at, lifecycle_version LIMIT BatchSize *)
NextBatch(free) ==
  LET claimable == {v \in Versions : Claimable(v, free)}
  IN {v \in claimable : Cardinality({u \in claimable : u < v}) < BatchSize}

Begin(d, batch) ==
  dispatch' = [dispatch EXCEPT ![d] =
                 [pc |-> "next", batch |-> batch, current |-> 0]]

ClaimBatch(w, free) ==
  /\ dispatch[w].pc = "idle"
  /\ NextBatch(free) # {}
  /\ ClaimRows(NextBatch(free))
  /\ Begin(w, NextBatch(free))
  /\ UNCHANGED billingVars

(* A worker sends in order; the rows an activation claimed by id come back  *)
(* in no particular order.                                                  *)
SendEvent(d, v) ==
  /\ dispatch[d].pc = "next"
  /\ v \in dispatch[d].batch
  /\ d \in Workers => v = First(dispatch[d].batch)
  /\ dispatch' = [dispatch EXCEPT ![d].pc = "waiting", ![d].current = v]
  /\ requests' = requests \cup {[from |-> d, version |-> v,
                                 payload |-> outbox[v].payload,
                                 phase |-> "sent", seen |-> NoConnection]}
  /\ UNCHANGED <<outboxVars, connection, inbox, replies>>

(* d stops waiting.  Its request is lost on the way, or lives on in Billing *)
(* with nobody listening.                                                   *)
Orphans == {r \in requests : r.from = NoOne}

(* Mutant: a late answer still reaches d. *)
LeaveRequestOpen(d) == UNCHANGED requests

LeaveRequest(d) ==
  LET mine == {r \in requests : r.from = d} IN
  \/ /\ \A r \in mine : r.phase = "sent"
     /\ requests' = requests \ mine
  \/ /\ mine # {}
     /\ Cardinality(Orphans) < MaxOrphans
     /\ requests' = (requests \ mine) \cup {[r EXCEPT !.from = NoOne] : r \in mine}

TimeOut(d) ==
  /\ dispatch[d].pc = "waiting" /\ replies[d] = NoReply
  /\ LeaveRequest(d)
  /\ replies' = [replies EXCEPT ![d] = ErrorReply]
  /\ UNCHANGED <<outboxVars, connection, inbox, dispatch>>

(* The row is settled: on to the next one of the batch. *)
Advance(d) ==
  LET batch == dispatch[d].batch \ {dispatch[d].current} IN
  /\ dispatch' = [dispatch EXCEPT ![d] =
                    IF batch = {} THEN IdleDispatch
                    ELSE [pc |-> "next", batch |-> batch, current |-> 0]]
  /\ replies' = [replies EXCEPT ![d] = NoReply]

ConfirmDelivery(d) ==
  /\ dispatch[d].pc = "waiting" /\ Accepted(d)
  /\ MarkDelivered(dispatch[d].current)
  /\ Advance(d)
  /\ UNCHANGED <<connection, inbox, requests>>

(* Marking the row delivered throws; the handler of delivery errors takes   *)
(* it for one of them.                                                      *)
ConfirmationThrows(d) ==
  /\ dispatch[d].pc = "waiting" /\ Accepted(d)
  /\ replies' = [replies EXCEPT ![d] = ErrorReply]
  /\ UNCHANGED <<outboxVars, connection, inbox, requests, dispatch>>

RecordFailure(d) ==
  /\ dispatch[d].pc = "waiting" /\ replies[d] # NoReply /\ ~Accepted(d)
  /\ MarkFailed(dispatch[d].current)
  /\ Advance(d)
  /\ UNCHANGED <<connection, inbox, requests>>

(* d's process dies, or recording a failure throws out of the loop: what it *)
(* had claimed stays processing until the lock times out.                   *)
AbandonBatch(d) ==
  /\ dispatch[d].pc # "idle"
  /\ LeaveRequest(d)
  /\ dispatch' = [dispatch EXCEPT ![d] = IdleDispatch]
  /\ replies'  = [replies EXCEPT ![d] = NoReply]
  /\ UNCHANGED <<outboxVars, connection, inbox>>

BillingMoves == /\ \E r \in requests : BillingStep(r)
                /\ UNCHANGED <<outboxVars, dispatch>>
=============================================================================
