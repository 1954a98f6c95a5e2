-------------------------- MODULE NotificationOutbox --------------------------
(***************************************************************************)
(* Work's notification outbox.  A scheduler calls the worker now and then; *)
(* a call first materializes what is due (a row per notice and occurrence, *)
(* kept apart by a unique key) and then dispatches the rows that wait: it  *)
(* hands each to the gateway, marks the row, and marks the notice sent.    *)
(* Rows are not claimed, and the three statements are in no transaction.   *)
(*                                                                         *)
(* A notice stands for a reminder or an alert; it is due at a time, which  *)
(* is its occurrence too.  A recurring one is due at every later time.     *)
(* The gateway is external: it may accept a notification and never answer. *)
(***************************************************************************)
EXTENDS Integers, FiniteSets

CONSTANTS
  Notices,       \* naturals: among notices of one time the database sorts by id
  Recurring,     \* notices with a recurrence rule
  Notifiers,     \* calls of the worker that may overlap
  LastTime,      \* bound: the times 1..LastTime
  Window,        \* how far back occurrences are looked for: 25 hours
  DueLimit,      \* due notices that a call materializes: 500
  BatchLimit,    \* rows that a call dispatches: 100
  MaxAttempts,   \* attempts after which a row is given up: 10
  MaxNoticeActs, \* bound: changes by users
  MaxFaults      \* bound: failed statements and crashes

ASSUME NotificationOutboxAssumption ==
  /\ Notices \subseteq Nat /\ Recurring \subseteq Notices /\ IsFiniteSet(Notifiers)
  /\ LastTime \in Nat \ {0} /\ Window \in Nat
  /\ DueLimit \in Nat \ {0} /\ BatchLimit \in Nat \ {0} /\ MaxAttempts \in Nat \ {0}
  /\ MaxNoticeActs \in Nat /\ MaxFaults \in Nat

VARIABLES
  clock,       \* the time
  notices,     \* notices[s]: status and time of notice s
  outbox,      \* outbox[x]: row of a notice and an occurrence
  notifiers,   \* notifiers[n]: how far call n has come
  delivered,   \* history: delivered[x]: 0, 1 or more notifications of row x arrived
  unsettled,   \* history: rows that stayed open although their notification arrived
  contested,   \* history: rows that two calls had read to dispatch
  moved,       \* history: notices changed while a row of theirs was open
  noticeActs,  \* number of changes by users
  faults       \* number of faults

outboxVars == <<clock, notices, outbox, notifiers, delivered, unsettled, contested, moved,
                noticeActs, faults>>

Times == 1..LastTime
Rows  == Notices \X Times

NoticeStatus == {"SCHEDULED", "SENT", "DISMISSED", "CANCELLED"}
Notice    == [status : NoticeStatus \cup {"absent"}, at : Times]
OutboxRow == [status : {"absent", "PENDING", "FAILED", "DISPATCHED"}, attempts : Nat]
Notifier  == [phase : {"unused", "idle", "materialize", "dispatch", "accepted", "marked", "failed"},
              now : 0..LastTime,
              rows : SUBSET Rows]   \* still to be enqueued, or to be dispatched

Idle == [phase |-> "idle", now |-> 0, rows |-> {}]

OutboxTypeOK ==
  /\ clock \in 0..LastTime
  /\ notices \in [Notices -> Notice]
  /\ outbox \in [Rows -> OutboxRow]
  /\ notifiers \in [Notifiers -> Notifier]
  /\ delivered \in [Rows -> 0..2]
  /\ unsettled \subseteq Rows /\ contested \subseteq Rows /\ moved \subseteq Notices
  /\ noticeActs \in 0..MaxNoticeActs /\ faults \in 0..MaxFaults
  /\ \A n \in Notifiers : notifiers[n].phase \in {"accepted", "marked", "failed"}
                            => notifiers[n].rows # {}
  /\ \A x \in Rows : outbox[x].status = "absent" => outbox[x].attempts = 0 /\ delivered[x] = 0

OutboxInit ==
  /\ clock = 0
  /\ notices \in [Notices -> [status : {"SCHEDULED", "absent"}, at : {1}]]
  /\ outbox = [x \in Rows |-> [status |-> "absent", attempts |-> 0]]
  /\ notifiers \in [Notifiers -> {Idle, [Idle EXCEPT !.phase = "unused"]}]
  /\ delivered = [x \in Rows |-> 0]
  /\ unsettled = {} /\ contested = {} /\ moved = {}
  /\ noticeActs = 0 /\ faults = 0

(* The database sorts by time and then by id. *)
Before(x, y)  == x[2] < y[2] \/ (x[2] = y[2] /\ x[1] < y[1])
FirstOf(X, k) == {x \in X : Cardinality({y \in X : Before(y, x)}) < k}
Foremost(X)   == CHOOSE x \in X : \A y \in X : ~ Before(y, x)

Current(n) == Foremost(notifiers[n].rows)

(* Mutant: every row that was not dispatched counts as one that waits.     *)
OpenUnlessDispatched(x) == outbox[x].status # "DISPATCHED"

Open(x) == outbox[x].status \in {"PENDING", "FAILED"}

(* Rows that call n has read to dispatch and is not through with *)
InHand(n) == IF notifiers[n].phase \in {"dispatch", "accepted", "marked", "failed"}
             THEN notifiers[n].rows ELSE {}

-----------------------------------------------------------------------------
(* materialize *)

DueNotices ==
  FirstOf({<<s, notices[s].at>> : s \in {u \in Notices : /\ notices[u].status = "SCHEDULED"
                                                         /\ notices[u].at <= clock}},
          DueLimit)

(* reminderOccurrences *)
Occurrences(s, at) ==
  IF s \in Recurring THEN {<<s, t>> : t \in {u \in Times : u >= at /\ u <= clock
                                                           /\ u >= clock - Window}}
  ELSE {<<s, at>>}

Materialize(n) ==
  /\ notifiers[n].phase = "idle"
  /\ notifiers' = [notifiers EXCEPT ![n] =
       [phase |-> "materialize", now |-> clock,
        rows |-> UNION {Occurrences(x[1], x[2]) : x \in DueNotices}]]
  /\ UNCHANGED <<clock, notices, outbox, delivered, unsettled, contested, moved,
                 noticeActs, faults>>

(* Mutant: a row that is there is opened again. *)
Reopened(x) == [outbox EXCEPT ![x].status = "PENDING"]

(* The upsert by notice, occurrence and channel leaves a row's status.     *)
Upserted(x) == IF outbox[x].status = "absent"
               THEN [outbox EXCEPT ![x].status = "PENDING"] ELSE outbox

Enqueue(n) ==
  /\ notifiers[n].phase = "materialize" /\ notifiers[n].rows # {}
  /\ outbox' = Upserted(Current(n))
  /\ notifiers' = [notifiers EXCEPT ![n].rows = @ \ {Current(n)}]
  /\ UNCHANGED <<clock, notices, delivered, unsettled, contested, moved, noticeActs, faults>>

-----------------------------------------------------------------------------
(* dispatch *)

(* Mutant: a row that failed is not tried again. *)
PendingOnce(n) ==
  {x \in Rows : /\ outbox[x].status = "PENDING" /\ x[2] <= notifiers[n].now
                /\ outbox[x].attempts < MaxAttempts}

(* Mutant: the attempts are not looked at. *)
PendingForever(n) == {x \in Rows : Open(x) /\ x[2] <= notifiers[n].now}

Pending(n) == {x \in Rows : /\ Open(x) /\ x[2] <= notifiers[n].now
                            /\ outbox[x].attempts < MaxAttempts}

ReadPending(n) ==
  LET batch == FirstOf(Pending(n), BatchLimit) IN
  /\ notifiers[n].phase = "materialize" /\ notifiers[n].rows = {}
  /\ notifiers' = [notifiers EXCEPT ![n].phase = "dispatch", ![n].rows = batch]
  /\ contested' = contested \cup (batch \cap UNION {InHand(m) : m \in Notifiers \ {n}})
  /\ UNCHANGED <<clock, notices, outbox, delivered, unsettled, moved, noticeActs, faults>>

Arrives(x) == delivered' = [delivered EXCEPT ![x] = IF @ = 0 THEN 1 ELSE 2]

Goes(n, phase) == notifiers' = [notifiers EXCEPT ![n].phase = phase]
Passes(n)      == notifiers' = [notifiers EXCEPT ![n].phase = "dispatch",
                                                 ![n].rows = @ \ {Current(n)}]

(* Mutant: an answer that is not ok is taken for success.                  *)
SendIgnoringRefusal(n) ==
  /\ notifiers[n].phase = "dispatch" /\ notifiers[n].rows # {}
  /\ Goes(n, "accepted")
  /\ UNCHANGED <<clock, notices, outbox, delivered, unsettled, contested, moved,
                 noticeActs, faults>>

(* gateway.dispatch answers, refuses, or is not heard of in ten seconds.   *)
Send(n) ==
  /\ notifiers[n].phase = "dispatch" /\ notifiers[n].rows # {}
  /\ \/ Arrives(Current(n)) /\ Goes(n, "accepted") /\ UNCHANGED unsettled
     \/ Goes(n, "failed") /\ UNCHANGED <<delivered, unsettled>>
     \/ Arrives(Current(n)) /\ Goes(n, "failed") /\ unsettled' = unsettled \cup {Current(n)}
  /\ UNCHANGED <<clock, notices, outbox, contested, moved, noticeActs, faults>>

MarkDispatched(n) ==
  /\ notifiers[n].phase = "accepted"
  /\ outbox' = [outbox EXCEPT ![Current(n)] =
                  [status |-> "DISPATCHED", attempts |-> outbox[Current(n)].attempts + 1]]
  /\ Goes(n, "marked")
  /\ UNCHANGED <<clock, notices, delivered, unsettled, contested, moved, noticeActs, faults>>

MarkSourceDelivered(n) ==
  LET s == Current(n)[1] IN
  /\ notifiers[n].phase = "marked"
  /\ notices' = IF notices[s].status = "SCHEDULED" /\ s \notin Recurring
                THEN [notices EXCEPT ![s].status = "SENT"] ELSE notices
  /\ Passes(n)
  /\ UNCHANGED <<clock, outbox, delivered, unsettled, contested, moved, noticeActs, faults>>

(* The row's status is not looked at: it may be DISPATCHED by now. *)
MarkFailed(n) ==
  /\ notifiers[n].phase = "failed"
  /\ outbox' = [outbox EXCEPT ![Current(n)] =
                  [status |-> "FAILED", attempts |-> outbox[Current(n)].attempts + 1]]
  /\ Passes(n)
  /\ UNCHANGED <<clock, notices, delivered, unsettled, contested, moved, noticeActs, faults>>

EndCall(n) ==
  /\ notifiers[n].phase = "dispatch" /\ notifiers[n].rows = {}
  /\ notifiers' = [notifiers EXCEPT ![n] = Idle]
  /\ UNCHANGED <<clock, notices, outbox, delivered, unsettled, contested, moved,
                 noticeActs, faults>>

-----------------------------------------------------------------------------
(* Faults *)

(* After the gateway answered, an update throws: the catch marks the row   *)
(* failed, the one that was just marked dispatched too.                    *)
UpdateThrows(n) ==
  /\ notifiers[n].phase \in {"accepted", "marked"}
  /\ faults < MaxFaults /\ faults' = faults + 1
  /\ Goes(n, "failed")
  /\ unsettled' = unsettled \cup {Current(n)}
  /\ UNCHANGED <<clock, notices, outbox, delivered, contested, moved, noticeActs>>

(* Outside the try, and in the catch, a failed statement ends the call; so *)
(* does a crash.                                                           *)
CallFails(n) ==
  /\ notifiers[n].phase \notin {"unused", "idle"}
  /\ faults < MaxFaults /\ faults' = faults + 1
  /\ notifiers' = [notifiers EXCEPT ![n] = Idle]
  /\ unsettled' = unsettled \cup {x \in notifiers[n].rows :
                                    notifiers[n].phase = "accepted" /\ x = Current(n)}
  /\ UNCHANGED <<clock, notices, outbox, delivered, contested, moved, noticeActs>>

-----------------------------------------------------------------------------
(* Users and time *)

Unfinished(s) ==
  \/ \E t \in Times : Open(<<s, t>>)
  \/ \E n \in Notifiers, t \in Times : <<s, t>> \in notifiers[n].rows

UpdateNotice(s, status, at) ==
  /\ noticeActs < MaxNoticeActs /\ noticeActs' = noticeActs + 1
  /\ notices[s].status # "absent"
  /\ notices' = [notices EXCEPT ![s] = [status |-> status, at |-> at]]
  /\ moved' = moved \cup {u \in {s} : Unfinished(u)}
  /\ UNCHANGED <<clock, outbox, notifiers, delivered, unsettled, contested, faults>>

(* Its rows stay and are dispatched. *)
RemoveNotice(s) ==
  /\ noticeActs < MaxNoticeActs /\ noticeActs' = noticeActs + 1
  /\ notices[s].status # "absent"
  /\ notices' = [notices EXCEPT ![s].status = "absent"]
  /\ UNCHANGED <<clock, outbox, notifiers, delivered, unsettled, contested, moved, faults>>

Tick ==
  /\ clock < LastTime
  /\ clock' = clock + 1
  /\ UNCHANGED <<notices, outbox, notifiers, delivered, unsettled, contested, moved,
                 noticeActs, faults>>

CallStep(n) ==
  \/ Materialize(n) \/ Enqueue(n) \/ ReadPending(n)
  \/ Send(n) \/ MarkDispatched(n) \/ MarkSourceDelivered(n) \/ MarkFailed(n)
  \/ EndCall(n)

OutboxNext ==
  \/ \E n \in Notifiers : CallStep(n) \/ UpdateThrows(n) \/ CallFails(n)
  \/ \E s \in Notices : \/ \E status \in NoticeStatus, at \in Times : UpdateNotice(s, status, at)
                        \/ RemoveNotice(s)
  \/ Tick

(* The scheduler keeps calling, and a call goes on until it ends. *)
OutboxFairness == \A n \in Notifiers : WF_outboxVars(CallStep(n))

OutboxSpec == OutboxInit /\ [][OutboxNext]_outboxVars /\ OutboxFairness

-----------------------------------------------------------------------------
(* Properties *)

(* A notification arrives once, however often its notice is materialized   *)
(* and its row is read again.  It arrives again only after a delivery that *)
(* was not recorded (no answer, a failed update, a crash), or when two     *)
(* calls had read the row.                                                 *)
DeliveredOnce ==
  \A x \in Rows : delivered[x] = 2 => x \in unsettled \cup contested

(* A row is given up after MaxAttempts attempts; calls that had read it    *)
(* before may each add theirs, two when an update throws.                  *)
AttemptsBounded ==
  \A x \in Rows : outbox[x].attempts <= MaxAttempts - 1 + 2 * Cardinality(Notifiers)

(* A notice becomes sent, other than by its user, only when it arrived for *)
(* the time it has.  Excepted is a notice that was changed while a row of  *)
(* it was open: that row marks it sent, and the new time never comes.      *)
SentWasNotified ==
  [][ \A s \in Notices :
        /\ notices[s].status # "SENT" /\ notices'[s].status = "SENT"
        /\ noticeActs' = noticeActs
        => s \in moved \/ delivered[<<s, notices[s].at>>] > 0 ]_outboxVars

(* Notices that stay due whatever the worker does: the recurring ones, and *)
(* those whose row was dispatched or given up without their being marked.  *)
Clogging ==
  {s \in Notices : /\ notices[s].status = "SCHEDULED" /\ notices[s].at <= clock
                   /\ \/ s \in Recurring
                      \/ outbox[<<s, notices[s].at>>].status = "DISPATCHED"
                      \/ outbox[<<s, notices[s].at>>].attempts >= MaxAttempts}

(* A due notice is dispatched, or given up after MaxAttempts, or changed   *)
(* by its user; unless so many notices clog the list of due ones, which is *)
(* cut off at DueLimit, that it never gets its turn.                       *)
DueIsNotified ==
  \A s \in Notices \ Recurring, t \in Times :
    notices[s] = [status |-> "SCHEDULED", at |-> t] /\ t <= clock
      ~> \/ notices[s] # [status |-> "SCHEDULED", at |-> t]
         \/ outbox[<<s, t>>].status = "DISPATCHED"
         \/ outbox[<<s, t>>].attempts >= MaxAttempts
         \/ Cardinality(Clogging) >= DueLimit
=============================================================================
