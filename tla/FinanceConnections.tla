-------------------------- MODULE FinanceConnections -------------------------
(***************************************************************************)
(* Billing's side: POST /admin/finance-connections/ensure.  A request is   *)
(* one Billing transaction at Postgres' default isolation, READ COMMITTED: *)
(* it looks up the event's inbox receipt, reads the connection, and later  *)
(* writes the connection and the receipt.  Another transaction may commit  *)
(* between the read and the write, and the write does not repeat the       *)
(* version test: it updates the row by id.                                 *)
(***************************************************************************)
EXTENDS FinanceVocabulary

CONSTANTS
  Dispatchers,   \* those who send events and wait for an answer
  NoOne          \* the sender has stopped waiting

ASSUME NoOneAssumption == NoOne \notin Dispatchers

VARIABLES
  connection,    \* the row of billing_app_finance_connections
  inbox,         \* inbox[v]: the receipt of version v's event
  requests,      \* requests on their way to Billing or inside it
  replies        \* replies[d]: what Billing answered d

billingVars == <<connection, inbox, requests, replies>>

Connection == [version : 0 .. MaxVersion, payload : Payload \cup {NoPayload}]

NoConnection == [version |-> 0, payload |-> NoPayload]

Request == [from    : Dispatchers \cup {NoOne},
            version : Versions,
            payload : Payload,
            phase   : {"sent", "read"},
            seen    : Connection]

Reply == [version : 0 .. MaxVersion,
          status  : ConnectionStatus \cup {"ERROR", "NONE"}]

NoReply    == [version |-> 0, status |-> "NONE"]
ErrorReply == [version |-> 0, status |-> "ERROR"]

BillingTypeOK ==
  /\ connection \in Connection
  /\ inbox      \in [Versions -> {"none", "applied", "ignored"}]
  /\ requests   \subseteq Request
  /\ replies    \in [Dispatchers -> Reply]

BillingInit ==
  /\ connection = NoConnection
  /\ inbox      = [v \in Versions |-> "none"]
  /\ requests   = {}
  /\ replies    = [d \in Dispatchers |-> NoReply]

-----------------------------------------------------------------------------
Receipt(c) == [version |-> c.version, status |-> c.payload.status]

(* The transaction of r ends and its sender, if it still waits, hears reply. *)
Answer(r, reply) ==
  /\ requests' = requests \ {r}
  /\ replies'  = IF r.from = NoOne THEN replies
                                   ELSE [replies EXCEPT ![r.from] = reply]

(* The event was processed before: answer with the connection as it is.    *)
AnswerDuplicate(r) ==
  /\ r.phase = "sent"
  /\ inbox[r.version] # "none"
  /\ Answer(r, Receipt(connection))
  /\ UNCHANGED <<connection, inbox>>

ReadConnection(r) ==
  /\ r.phase = "sent"
  /\ inbox[r.version] = "none"
  /\ requests' = (requests \ {r}) \cup {[r EXCEPT !.phase = "read", !.seen = connection]}
  /\ UNCHANGED <<connection, inbox, replies>>

(* Mutant: no version test. *)
NewerAlways(r) == TRUE

(* Decided on the connection the transaction read, not on the one it writes. *)
Newer(r) == r.seen = NoConnection \/ r.version > r.seen.version

Conflicting(r) == r.version = r.seen.version /\ r.payload # r.seen.payload

(* A second receipt for the event, or a second connection for the tenant,  *)
(* breaks a unique constraint.                                             *)
BreaksUniqueness(r) ==
  \/ inbox[r.version] # "none"
  \/ r.seen = NoConnection /\ connection # NoConnection

(* Mutants: the receipt is not part of the transaction; only the version is *)
(* written to a connection that exists.                                     *)
CommitWithoutReceipt(r) ==
  /\ r.phase = "read"
  /\ ~BreaksUniqueness(r) /\ ~Conflicting(r)
  /\ connection' = IF Newer(r) THEN [version |-> r.version, payload |-> r.payload]
                               ELSE connection
  /\ Answer(r, Receipt(IF Newer(r) THEN connection' ELSE r.seen))
  /\ UNCHANGED inbox

CommitVersionOnly(r) ==
  /\ r.phase = "read"
  /\ ~BreaksUniqueness(r) /\ ~Conflicting(r)
  /\ connection' = IF r.seen = NoConnection
                     THEN [version |-> r.version, payload |-> r.payload]
                     ELSE [connection EXCEPT !.version = r.version]
  /\ inbox' = [inbox EXCEPT ![r.version] = "applied"]
  /\ Answer(r, Receipt(connection'))

CommitEvent(r) ==
  /\ r.phase = "read"
  /\ ~BreaksUniqueness(r) /\ ~Conflicting(r)
  /\ connection' = IF Newer(r) THEN [version |-> r.version, payload |-> r.payload]
                               ELSE connection
  /\ inbox' = [inbox EXCEPT ![r.version] = IF Newer(r) THEN "applied" ELSE "ignored"]
  /\ Answer(r, Receipt(IF Newer(r) THEN connection' ELSE r.seen))

RejectEvent(r) ==
  /\ r.phase = "read"
  /\ BreaksUniqueness(r) \/ Conflicting(r)
  /\ Answer(r, ErrorReply)
  /\ UNCHANGED <<connection, inbox>>

(* The transaction rolls back for a reason of its own. *)
RollBack(r) ==
  /\ Answer(r, ErrorReply)
  /\ UNCHANGED <<connection, inbox>>

BillingStep(r) ==
  \/ AnswerDuplicate(r)
  \/ ReadConnection(r)
  \/ CommitEvent(r)
  \/ RejectEvent(r)
  \/ RollBack(r)
=============================================================================
