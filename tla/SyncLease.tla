------------------------------ MODULE SyncLease ------------------------------
(***************************************************************************)
(* The lease under which Work synchronizes an external calendar: one row,  *)
(* the connection, names the run that may work and says until when.  A run *)
(* takes the lease when it is free or expired, renews it with a heartbeat  *)
(* while it works, and gives it back by its token.  Nothing stops a run    *)
(* that has lost the lease: it works on and learns of the loss at its end. *)
(*                                                                         *)
(* Meanwhile the user may pause, remove or authorize the connection again. *)
(* What a run does while it works is CalendarSync's subject.               *)
(***************************************************************************)
EXTENDS Integers, FiniteSets

CONSTANTS
  SyncRuns,       \* runs that may be started: a run's token is fresh, like the run
  NoRun,          \* no token in the connection
  MaxUserActs     \* bound: how often the user changes the connection

ASSUME SyncLeaseAssumption ==
  /\ NoRun \notin SyncRuns
  /\ MaxUserActs \in Nat

VARIABLES
  connection,   \* the connection's row: status, credential, token and whether it expired
  syncRuns,     \* syncRuns[r]: how far run r has come and how it ended
  lapsed,       \* history: runs whose lease expired or was taken off the row
  userActs      \* number of user changes so far

leaseVars == <<connection, syncRuns, lapsed, userActs>>

ConnectionStatus == {"ACTIVE", "PAUSED", "ERROR", "REVOKED"}
Connection == [status : ConnectionStatus, credential : BOOLEAN,
               token : SyncRuns \cup {NoRun}, expired : BOOLEAN]

Phase  == {"new", "checked", "working", "finished", "releasing", "over"}
SyncRun == [phase : Phase,
            result : {"none", "ok", "error", "threw"},   \* of the work it did
            renewing : BOOLEAN,                          \* no heartbeat has failed
            outcome : {"none", "skipped", "done", "failed", "crashed"}]

LeaseTypeOK ==
  /\ connection \in Connection
  /\ connection.expired => connection.token # NoRun
  /\ syncRuns \in [SyncRuns -> SyncRun]
  /\ lapsed \subseteq SyncRuns
  /\ userActs \in 0..MaxUserActs

LeaseInit ==
  /\ connection = [status |-> "ACTIVE", credential |-> TRUE,
                   token |-> NoRun, expired |-> FALSE]
  /\ syncRuns = [r \in SyncRuns |-> [phase |-> "new", result |-> "none",
                                     renewing |-> TRUE, outcome |-> "none"]]
  /\ lapsed = {}
  /\ userActs = 0

Working(r) == syncRuns[r].phase \in {"working", "finished"}

-----------------------------------------------------------------------------

(* rawConnection: read before the lease is asked for. *)
CheckConnection(r) ==
  /\ syncRuns[r].phase = "new"
  /\ IF connection.status = "ACTIVE" /\ connection.credential
     THEN syncRuns' = [syncRuns EXCEPT ![r].phase = "checked"]
     ELSE syncRuns' = [syncRuns EXCEPT ![r].phase = "over", ![r].outcome = "skipped"]
  /\ UNCHANGED <<connection, lapsed, userActs>>

(* Mutant: the lease is taken whether or not another run holds it. *)
AlwaysFree == TRUE

LeaseFree == connection.token = NoRun \/ connection.expired

AcquireLease(r) ==
  /\ syncRuns[r].phase = "checked"
  /\ IF LeaseFree
     THEN /\ connection' = [connection EXCEPT !.token = r, !.expired = FALSE]
          /\ syncRuns' = [syncRuns EXCEPT ![r].phase = "working"]
     ELSE /\ syncRuns' = [syncRuns EXCEPT ![r].phase = "over", ![r].outcome = "skipped"]
          /\ UNCHANGED connection
  /\ UNCHANGED <<lapsed, userActs>>

(* No heartbeat reached the row for as long as a lease lasts. *)
ExpireLease ==
  /\ connection.token # NoRun /\ ~ connection.expired
  /\ connection' = [connection EXCEPT !.expired = TRUE]
  /\ lapsed' = lapsed \cup {r \in SyncRuns : connection.token = r /\ Working(r)}
  /\ UNCHANGED <<syncRuns, userActs>>

(* A heartbeat renews the lease that still has the run's token, an expired *)
(* one too.  The first one that fails or finds another token is the last.  *)
(* One that is in flight when the work ends is awaited.                    *)
Heartbeat(r) ==
  /\ Working(r) /\ syncRuns[r].renewing
  /\ IF connection.token = r
     THEN connection' = [connection EXCEPT !.expired = FALSE] /\ UNCHANGED syncRuns
     ELSE syncRuns' = [syncRuns EXCEPT ![r].renewing = FALSE] /\ UNCHANGED connection
  /\ UNCHANGED <<lapsed, userActs>>

HeartbeatFails(r) ==
  /\ Working(r) /\ syncRuns[r].renewing
  /\ syncRuns' = [syncRuns EXCEPT ![r].renewing = FALSE]
  /\ \/ UNCHANGED connection
     \/ connection.token = r /\ connection' = [connection EXCEPT !.expired = FALSE]
  /\ UNCHANGED <<lapsed, userActs>>

(* The work is over: it returned a result or an error, or it threw.  Its   *)
(* last statements are recordSyncError's or the update of lastSyncedAt,    *)
(* which set the status of the row whatever it has become.                 *)
FinishWork(r, result, status) ==
  /\ syncRuns[r].phase = "working"
  /\ syncRuns' = [syncRuns EXCEPT ![r].phase = "finished", ![r].result = result]
  /\ status \in IF result = "ok" THEN {"ACTIVE"}
                ELSE IF result = "error" THEN {"ACTIVE", "ERROR"}
                ELSE {connection.status}
  /\ connection' = [connection EXCEPT !.status = status]
  /\ UNCHANGED <<lapsed, userActs>>

(* A failed heartbeat turns the result of the work into an exception. *)
Conclude(r) ==
  /\ syncRuns[r].phase = "finished"
  /\ syncRuns' = [syncRuns EXCEPT
       ![r].phase = "releasing",
       ![r].outcome = IF syncRuns[r].result = "ok" /\ syncRuns[r].renewing
                      THEN "done" ELSE "failed"]
  /\ UNCHANGED <<connection, lapsed, userActs>>

(* Mutant: the token is cleared and the date of expiry stays.              *)
ReleasedKeepingDate(r) ==
  IF connection.token = r THEN [connection EXCEPT !.token = NoRun] ELSE connection

(* releaseSyncLease: the row is cleared where it has the run's token. *)
Released(r) ==
  IF connection.token = r
  THEN [connection EXCEPT !.token = NoRun, !.expired = FALSE]
  ELSE connection

ReleaseLease(r) ==
  /\ syncRuns[r].phase = "releasing"
  /\ connection' = Released(r)
  /\ syncRuns' = [syncRuns EXCEPT ![r].phase = "over"]
  /\ UNCHANGED <<lapsed, userActs>>

(* The process dies, or the statement that releases the lease fails. *)
CrashRun(r) ==
  /\ syncRuns[r].phase \in {"checked", "working", "finished", "releasing"}
  /\ syncRuns' = [syncRuns EXCEPT
       ![r].phase = "over", ![r].outcome = "crashed"]
  /\ UNCHANGED <<connection, lapsed, userActs>>

-----------------------------------------------------------------------------
(* The user *)

ChangeStatus(status) ==
  /\ userActs < MaxUserActs
  /\ userActs' = userActs + 1
  /\ connection' = [connection EXCEPT !.status = status]
  /\ UNCHANGED <<syncRuns, lapsed>>

(* remove: the row stays, revoked, without credential and without lease. *)
RemoveConnection ==
  /\ userActs < MaxUserActs
  /\ userActs' = userActs + 1
  /\ connection' = [status |-> "REVOKED", credential |-> FALSE,
                    token |-> NoRun, expired |-> FALSE]
  /\ lapsed' = lapsed \cup {r \in SyncRuns : connection.token = r /\ Working(r)}
  /\ UNCHANGED syncRuns

(* completeOauth stores the credential and then activates the connection;  *)
(* when the second step fails the catch marks it ERROR.                    *)
AuthorizeAgain(status) ==
  /\ userActs < MaxUserActs
  /\ userActs' = userActs + 1
  /\ connection' = [connection EXCEPT !.status = status, !.credential = TRUE]
  /\ UNCHANGED <<syncRuns, lapsed>>

UserStep ==
  \/ \E status \in ConnectionStatus : ChangeStatus(status)
  \/ RemoveConnection
  \/ \E status \in {"ACTIVE", "ERROR"} : AuthorizeAgain(status)

LeaseStep(r) ==
  \/ CheckConnection(r) \/ AcquireLease(r)
  \/ Heartbeat(r) \/ HeartbeatFails(r)
  \/ Conclude(r) \/ ReleaseLease(r)

AnyWork(r) ==
  \E result \in {"ok", "error", "threw"}, status \in ConnectionStatus :
    FinishWork(r, result, status)

LeaseNext ==
  \/ \E r \in SyncRuns : LeaseStep(r) \/ AnyWork(r) \/ CrashRun(r)
  \/ ExpireLease \/ UserStep

(* A lease may expire at any time: how long a run is between two           *)
(* heartbeats is not bounded by the code.                                  *)
LeaseSpec == LeaseInit /\ [][LeaseNext]_leaseVars

-----------------------------------------------------------------------------
(* Properties *)

(* A run that works has the lease unless the lease lapsed while it worked: *)
(* it expired without a heartbeat, or the connection was removed.  So two  *)
(* runs work on one connection at a time only after one of them lapsed,    *)
(* and no run's end takes the lease from another.                          *)
WorksUnderLease ==
  \A r \in SyncRuns : Working(r) => connection.token = r \/ r \in lapsed
=============================================================================
