----------------------- MODULE NotificationOutboxProofs -----------------------
(***************************************************************************)
(* What holds of Work's notification outbox for any number of notices and  *)
(* of calls that overlap.                                                  *)
(*                                                                         *)
(* A call works on the foremost row of those it has read; that there is    *)
(* one is a fact about sets of naturals, proved first.  DeliveredOnce is   *)
(* not inductive: the invariant says where a row that has arrived and is   *)
(* neither unsettled nor contested may be.  It was marked dispatched, or   *)
(* the one call that sent it is about to mark it.                          *)
(*                                                                         *)
(* That attempts are bounded is shown by counting: what a row has used up, *)
(* and what the calls that hold it may still add, one or two each, never   *)
(* exceeds the bound; a call that reads the row adds to the sum only while *)
(* the attempts themselves are few.                                        *)
(***************************************************************************)
EXTENDS NotificationOutbox, FiniteSetTheorems, WellFoundedInduction, TLAPS

-----------------------------------------------------------------------------
(* The foremost row *)

LEMMA Least ==
  ASSUME NEW T, T \subseteq Nat, T # {}
  PROVE  \E k \in T : \A j \in T : k <= j
<1> DEFINE Upto(k) == 0..k
           F == {Upto(k) : k \in T}
<1>1. F \subseteq FiniteSubsetsOf(Nat) /\ F # {}
  <2>1. \A k \in T : Upto(k) \in FiniteSubsetsOf(Nat)
    BY FS_Interval DEF FiniteSubsetsOf
  <2> QED BY <2>1
<1>2. PICK S \in F : \A U \in F : ~ (<<U, S>> \in StrictSubsetOrdering(Nat))
  <2> HIDE DEF F
  <2> QED BY <1>1, FS_StrictSubsetOrderingWellFounded, WFMin
<1>3. PICK k \in T : S = Upto(k)
  OBVIOUS
<1>4. ASSUME NEW j \in T, ~ (k <= j) PROVE FALSE
  <2>1. j \in Nat /\ k \in Nat /\ j < k
    BY <1>4
  <2>2. Upto(j) \subseteq Upto(k) /\ Upto(j) \in SUBSET Nat /\ Upto(k) \in SUBSET Nat
    BY <2>1
  <2>3. k \in Upto(k) /\ k \notin Upto(j)
    BY <2>1
  <2>4. <<Upto(j), Upto(k)>> \in StrictSubsetOrdering(Nat)
    <3> HIDE DEF Upto
    <3> QED BY <2>2, <2>3 DEF StrictSubsetOrdering
  <2>5. Upto(j) \in F
    BY <1>4
  <2> QED BY <1>2, <1>3, <2>4, <2>5
<1> QED BY <1>4

LEMMA ForemostIn ==
  ASSUME NEW X, X \subseteq Rows, X # {}
  PROVE  Foremost(X) \in X
<1>1. Notices \subseteq Nat /\ Times \subseteq Nat
  BY NotificationOutboxAssumption DEF Times
<1>2. \A x \in X : x[1] \in Nat /\ x[2] \in Nat
  <2>1. \A x \in Rows : x[1] \in Notices /\ x[2] \in Times
    BY DEF Rows
  <2> QED BY <1>1, <2>1
<1>3. PICK t \in {x[2] : x \in X} : \A u \in {x[2] : x \in X} : t <= u
  BY <1>2, Least
<1>4. PICK s \in {x[1] : x \in {y \in X : y[2] = t}} :
             \A u \in {x[1] : x \in {y \in X : y[2] = t}} : s <= u
  <2>1. {x[1] : x \in {y \in X : y[2] = t}} # {}
    BY <1>3
  <2>2. {x[1] : x \in {y \in X : y[2] = t}} \subseteq Nat
    BY <1>2
  <2> QED BY <2>1, <2>2, Least
<1>5. PICK x \in X : x[1] = s /\ x[2] = t
  BY <1>4
<1>6. \A y \in X : ~ Before(y, x)
  <2> TAKE y \in X
  <2>1. t <= y[2] /\ (y[2] = t => s <= y[1])
    BY <1>3, <1>4
  <2> QED BY <1>2, <1>5, <2>1 DEF Before
<1> QED BY <1>6 DEF Foremost

LEMMA FirstOfPart == ASSUME NEW X, NEW k PROVE FirstOf(X, k) \subseteq X
BY DEF FirstOf

-----------------------------------------------------------------------------
(* Types *)

Handling == {"dispatch", "accepted", "marked", "failed"}

Holds(n, x) == notifiers[n].phase \in Handling /\ x \in notifiers[n].rows

(* A row that some call holds was materialized. *)
HeldInv == \A n \in Notifiers, x \in Rows : Holds(n, x) => outbox[x].status # "absent"

TypeInv == OutboxTypeOK /\ HeldInv

LEMMA CurrentIn ==
  ASSUME OutboxTypeOK, NEW n \in Notifiers, notifiers[n].rows # {}
  PROVE  /\ Current(n) \in notifiers[n].rows /\ Current(n) \in Rows
         /\ Current(n)[1] \in Notices
<1>1. notifiers[n].rows \subseteq Rows
  BY DEF OutboxTypeOK, Notifier
<1>2. Current(n) \in notifiers[n].rows
  BY <1>1, ForemostIn DEF Current
<1> QED BY <1>1, <1>2 DEF Rows

(* What a call becomes *)
LEMMA NotifierTyped ==
  ASSUME OutboxTypeOK, NEW n \in Notifiers, NEW w \in Notifier,
         notifiers' = [notifiers EXCEPT ![n] = w],
         w.phase \in {"accepted", "marked", "failed"} => w.rows # {}
  PROVE  /\ notifiers' \in [Notifiers -> Notifier]
         /\ notifiers'[n] = w /\ \A m \in Notifiers \ {n} : notifiers'[m] = notifiers[m]
         /\ \A m \in Notifiers : notifiers'[m].phase \in {"accepted", "marked", "failed"}
                                   => notifiers'[m].rows # {}
BY DEF OutboxTypeOK

LEMMA GoesTyped ==
  ASSUME OutboxTypeOK, NEW n \in Notifiers, NEW p \in {"accepted", "marked", "failed"},
         notifiers[n].rows # {}, Goes(n, p)
  PROVE  /\ notifiers' \in [Notifiers -> Notifier]
         /\ notifiers'[n].phase = p /\ notifiers'[n].rows = notifiers[n].rows
         /\ \A m \in Notifiers \ {n} : notifiers'[m] = notifiers[m]
         /\ \A m \in Notifiers : notifiers'[m].phase \in {"accepted", "marked", "failed"}
                                   => notifiers'[m].rows # {}
<1> DEFINE w == [notifiers[n] EXCEPT !.phase = p]
<1>1. notifiers[n] \in Notifier
  BY DEF OutboxTypeOK
<1>2. w \in Notifier
  BY <1>1 DEF Notifier
<1>3. w.phase = p /\ w.rows = notifiers[n].rows
  BY <1>1 DEF Notifier
<1>4. notifiers' = [notifiers EXCEPT ![n] = w]
  BY DEF Goes
<1> HIDE DEF w
<1> QED BY <1>2, <1>3, <1>4, NotifierTyped

LEMMA PassesTyped ==
  ASSUME OutboxTypeOK, NEW n \in Notifiers, Passes(n)
  PROVE  /\ notifiers' \in [Notifiers -> Notifier]
         /\ notifiers'[n].phase = "dispatch"
         /\ notifiers'[n].rows = notifiers[n].rows \ {Current(n)}
         /\ \A m \in Notifiers \ {n} : notifiers'[m] = notifiers[m]
         /\ \A m \in Notifiers : notifiers'[m].phase \in {"accepted", "marked", "failed"}
                                   => notifiers'[m].rows # {}
<1> DEFINE w == [notifiers[n] EXCEPT !.phase = "dispatch",
                                     !.rows = notifiers[n].rows \ {Current(n)}]
<1>1. notifiers[n] \in Notifier
  BY DEF OutboxTypeOK
<1>2. w \in Notifier
  BY <1>1 DEF Notifier
<1>3. w.phase = "dispatch" /\ w.rows = notifiers[n].rows \ {Current(n)}
  BY <1>1 DEF Notifier
<1>4. notifiers' = [notifiers EXCEPT ![n] = w]
  BY DEF Passes
<1> HIDE DEF w
<1> QED BY <1>2, <1>3, <1>4, NotifierTyped

-----------------------------------------------------------------------------
(* Each step keeps the types, and keeps every held row materialized. *)

(* Conjuncts of OutboxTypeOK that most steps leave alone *)
LEMMA SameTyped ==
  ASSUME OutboxTypeOK,
         UNCHANGED <<clock, notices, outbox, delivered, moved, noticeActs>>,
         faults' \in 0..MaxFaults, unsettled' \subseteq Rows, contested' \subseteq Rows,
         notifiers' \in [Notifiers -> Notifier],
         \A m \in Notifiers : notifiers'[m].phase \in {"accepted", "marked", "failed"}
                              => notifiers'[m].rows # {}
  PROVE  OutboxTypeOK'
BY DEF OutboxTypeOK

LEMMA MaterializeTyped ==
  ASSUME TypeInv, NEW n \in Notifiers, Materialize(n)
  PROVE  TypeInv'
<1> DEFINE rows == UNION {Occurrences(x[1], x[2]) : x \in DueNotices}
           w == [phase |-> "materialize", now |-> clock, rows |-> rows]
<1>1. rows \subseteq Rows
  <2>1. DueNotices \subseteq Rows
    <3>1. \A s \in Notices : notices[s].at \in Times
      BY DEF TypeInv, OutboxTypeOK, Notice
    <3>2. {<<s, notices[s].at>> : s \in {u \in Notices : /\ notices[u].status = "SCHEDULED"
                                                        /\ notices[u].at <= clock}}
            \subseteq Rows
      BY <3>1 DEF Rows
    <3> QED BY <3>2, FirstOfPart DEF DueNotices
  <2>2. \A s \in Notices, t \in Times : Occurrences(s, t) \subseteq Rows
    BY DEF Occurrences, Rows
  <2>3. \A x \in Rows : x[1] \in Notices /\ x[2] \in Times
    BY DEF Rows
  <2> QED BY <2>1, <2>2, <2>3
<1>2. clock \in 0..LastTime /\ notifiers' = [notifiers EXCEPT ![n] = w]
  BY DEF Materialize, TypeInv, OutboxTypeOK
<1> HIDE DEF rows
<1>3. w \in Notifier /\ w.phase = "materialize"
  BY <1>1, <1>2 DEF Notifier
<1> HIDE DEF w
<1>4. OutboxTypeOK
  BY DEF TypeInv
<1>5. /\ notifiers' \in [Notifiers -> Notifier]
      /\ notifiers'[n] = w /\ \A m \in Notifiers \ {n} : notifiers'[m] = notifiers[m]
      /\ \A m \in Notifiers : notifiers'[m].phase \in {"accepted", "marked", "failed"}
                              => notifiers'[m].rows # {}
  BY <1>2, <1>3, <1>4, NotifierTyped
<1>6. UNCHANGED <<clock, notices, outbox, delivered, unsettled, contested, moved,
                  noticeActs, faults>>
  BY DEF Materialize
<1>7. faults' \in 0..MaxFaults /\ unsettled' \subseteq Rows /\ contested' \subseteq Rows
  BY <1>4, <1>6 DEF OutboxTypeOK
<1>8. OutboxTypeOK'
  BY <1>4, <1>5, <1>6, <1>7, SameTyped
<1>9. HeldInv'
  <2>1. \A m \in Notifiers, x \in Rows : Holds(m, x)' => Holds(m, x)
    BY <1>3, <1>5 DEF Holds, Handling
  <2> QED BY <1>6, <2>1 DEF TypeInv, HeldInv
<1> QED BY <1>8, <1>9 DEF TypeInv

LEMMA EnqueueTyped ==
  ASSUME TypeInv, NEW n \in Notifiers, Enqueue(n)
  PROVE  TypeInv'
<1> DEFINE x == Current(n)
           w == [notifiers[n] EXCEPT !.rows = notifiers[n].rows \ {x}]
<1>1. OutboxTypeOK /\ x \in Rows
  BY CurrentIn DEF TypeInv, Enqueue
<1>2. notifiers[n] \in Notifier /\ notifiers[n].phase = "materialize"
  BY <1>1 DEF OutboxTypeOK, Enqueue
<1>3. notifiers' = [notifiers EXCEPT ![n] = w]
  BY DEF Enqueue
<1>4. w \in Notifier /\ w.phase = "materialize"
  <2> HIDE DEF x
  <2> QED BY <1>2 DEF Notifier
<1>5. outbox' \in [Rows -> OutboxRow]
      /\ \A y \in Rows : /\ outbox[y].status # "absent" => outbox'[y].status # "absent"
                         /\ outbox'[y].status = "absent" =>
                              outbox'[y].attempts = 0 /\ delivered[y] = 0
  <2> DEFINE opened == [outbox[x] EXCEPT !.status = "PENDING"]
  <2>1. CASE outbox[x].status = "absent"
    <3>1. outbox[x] \in OutboxRow /\ outbox \in [Rows -> OutboxRow]
      BY <1>1 DEF OutboxTypeOK
    <3>2. opened \in OutboxRow /\ opened.status = "PENDING"
      <4> HIDE DEF x
      <4> QED BY <3>1 DEF OutboxRow
    <3>3. outbox' = [outbox EXCEPT ![x] = opened]
      BY <2>1 DEF Enqueue, Upserted
    <3> HIDE DEF x, opened
    <3> QED BY <1>1, <3>1, <3>2, <3>3 DEF OutboxTypeOK
  <2>2. CASE outbox[x].status # "absent"
    <3>1. outbox' = outbox
      BY <2>2 DEF Enqueue, Upserted
    <3> QED BY <1>1, <3>1 DEF OutboxTypeOK
  <2> QED BY <2>1, <2>2
<1>6. UNCHANGED <<clock, notices, delivered, unsettled, contested, moved, noticeActs, faults>>
  BY DEF Enqueue
<1> HIDE DEF x, w
<1>7. /\ notifiers' \in [Notifiers -> Notifier]
      /\ notifiers'[n] = w /\ \A m \in Notifiers \ {n} : notifiers'[m] = notifiers[m]
      /\ \A m \in Notifiers : notifiers'[m].phase \in {"accepted", "marked", "failed"}
                              => notifiers'[m].rows # {}
  BY <1>1, <1>3, <1>4, NotifierTyped
<1>8. OutboxTypeOK'
  BY <1>1, <1>5, <1>6, <1>7 DEF OutboxTypeOK
<1>9. HeldInv'
  <2>1. \A m \in Notifiers, y \in Rows : Holds(m, y)' => Holds(m, y)
    BY <1>4, <1>7 DEF Holds, Handling
  <2> QED BY <1>5, <2>1 DEF TypeInv, HeldInv
<1> QED BY <1>8, <1>9 DEF TypeInv

LEMMA ReadPendingTyped ==
  ASSUME TypeInv, NEW n \in Notifiers, ReadPending(n)
  PROVE  /\ TypeInv'
         /\ notifiers'[n].phase = "dispatch" /\ notifiers'[n].rows \subseteq Pending(n)
         /\ \A m \in Notifiers \ {n} : notifiers'[m] = notifiers[m]
<1> DEFINE batch == FirstOf(Pending(n), BatchLimit)
           w == [notifiers[n] EXCEPT !.phase = "dispatch", !.rows = batch]
<1>1. OutboxTypeOK /\ batch \subseteq Pending(n) /\ Pending(n) \subseteq Rows
  BY FirstOfPart DEF TypeInv, Pending
<1>2. notifiers' = [notifiers EXCEPT ![n] = w]
      /\ contested' = contested \cup (batch \cap UNION {InHand(m) : m \in Notifiers \ {n}})
  BY DEF ReadPending
<1> HIDE DEF batch
<1>3. w \in Notifier /\ w.phase = "dispatch" /\ w.rows = batch
  BY <1>1 DEF OutboxTypeOK, Notifier
<1> HIDE DEF w
<1>4. /\ notifiers' \in [Notifiers -> Notifier]
      /\ notifiers'[n] = w /\ \A m \in Notifiers \ {n} : notifiers'[m] = notifiers[m]
      /\ \A m \in Notifiers : notifiers'[m].phase \in {"accepted", "marked", "failed"}
                              => notifiers'[m].rows # {}
  BY <1>1, <1>2, <1>3, NotifierTyped
<1>5. UNCHANGED <<clock, notices, outbox, delivered, unsettled, moved, noticeActs, faults>>
  BY DEF ReadPending
<1>6. faults' \in 0..MaxFaults /\ unsettled' \subseteq Rows /\ contested' \subseteq Rows
  BY <1>1, <1>2, <1>5 DEF OutboxTypeOK
<1>7. OutboxTypeOK'
  BY <1>1, <1>4, <1>5, <1>6, SameTyped
<1>8. HeldInv'
  <2>1. \A m \in Notifiers \ {n}, y \in Rows : Holds(m, y)' => Holds(m, y)
    BY <1>4 DEF Holds
  <2>2. \A y \in Pending(n) : outbox[y].status # "absent"
    BY DEF Pending, Open
  <2> QED BY <1>1, <1>3, <1>4, <1>5, <2>1, <2>2 DEF TypeInv, HeldInv, Holds
<1> QED BY <1>1, <1>3, <1>4, <1>7, <1>8 DEF TypeInv

(* A call moves on with the rows it has, or passes its current row. *)
LEMMA FewerHeld ==
  ASSUME TypeInv, NEW n \in Notifiers, notifiers[n].phase \in Handling,
         notifiers'[n].rows \subseteq notifiers[n].rows,
         \A m \in Notifiers \ {n} : notifiers'[m] = notifiers[m],
         \A y \in Rows : outbox[y].status # "absent" => outbox'[y].status # "absent"
  PROVE  HeldInv'
<1>1. \A m \in Notifiers, y \in Rows : Holds(m, y)' => Holds(m, y)
  BY DEF Holds
<1> QED BY <1>1 DEF TypeInv, HeldInv

LEMMA SendTyped ==
  ASSUME TypeInv, NEW n \in Notifiers, Send(n)
  PROVE  TypeInv'
<1> DEFINE x == Current(n)
<1>1. OutboxTypeOK /\ x \in Rows /\ outbox[x].status # "absent"
  BY CurrentIn DEF TypeInv, Send, HeldInv, Holds, Handling
<1>2. PICK p \in {"accepted", "failed"} : Goes(n, p)
  BY DEF Send
<1>3. /\ notifiers' \in [Notifiers -> Notifier]
      /\ notifiers'[n].phase = p /\ notifiers'[n].rows = notifiers[n].rows
      /\ \A m \in Notifiers \ {n} : notifiers'[m] = notifiers[m]
      /\ \A m \in Notifiers : notifiers'[m].phase \in {"accepted", "marked", "failed"}
                              => notifiers'[m].rows # {}
  BY <1>1, <1>2, GoesTyped DEF Send
<1>4. /\ delivered' \in [Rows -> 0..2]
      /\ \A y \in Rows \ {x} : delivered'[y] = delivered[y]
  BY <1>1 DEF Send, Arrives, OutboxTypeOK
<1>5. unsettled' \subseteq Rows
  BY <1>1 DEF Send, OutboxTypeOK
<1>6. UNCHANGED <<clock, notices, outbox, contested, moved, noticeActs, faults>>
  BY DEF Send
<1> HIDE DEF x
<1>7. OutboxTypeOK'
  BY <1>1, <1>3, <1>4, <1>5, <1>6 DEF OutboxTypeOK
<1>8. HeldInv'
  BY <1>3, <1>6, FewerHeld DEF Send, Handling
<1> QED BY <1>7, <1>8 DEF TypeInv

(* A row is marked, in some way that is not absence. *)
LEMMA MarkTyped ==
  ASSUME OutboxTypeOK, NEW x \in Rows, NEW status \in {"DISPATCHED", "FAILED"},
         outbox' = [outbox EXCEPT ![x] =
                      [status |-> status, attempts |-> outbox[x].attempts + 1]],
         delivered' = delivered
  PROVE  /\ outbox' \in [Rows -> OutboxRow] /\ outbox'[x].status = status
         /\ \A y \in Rows \ {x} : outbox'[y] = outbox[y]
         /\ \A y \in Rows : outbox[y].status # "absent" => outbox'[y].status # "absent"
         /\ \A y \in Rows : outbox'[y].status = "absent" =>
                              outbox'[y].attempts = 0 /\ delivered'[y] = 0
<1> DEFINE row == [status |-> status, attempts |-> outbox[x].attempts + 1]
<1>1. outbox[x] \in OutboxRow /\ outbox \in [Rows -> OutboxRow]
  BY DEF OutboxTypeOK
<1>2. row \in OutboxRow /\ row.status = status /\ row.status # "absent"
  BY <1>1 DEF OutboxRow
<1>3. outbox' = [outbox EXCEPT ![x] = row]
  OBVIOUS
<1> HIDE DEF row
<1> QED BY <1>1, <1>2, <1>3 DEF OutboxTypeOK

LEMMA MarkDispatchedTyped ==
  ASSUME TypeInv, NEW n \in Notifiers, MarkDispatched(n)
  PROVE  TypeInv'
<1> DEFINE x == Current(n)
<1>1. OutboxTypeOK /\ notifiers[n].rows # {} /\ x \in Rows
  BY CurrentIn DEF TypeInv, OutboxTypeOK, MarkDispatched
<1>2. /\ outbox' = [outbox EXCEPT ![x] =
                      [status |-> "DISPATCHED", attempts |-> outbox[x].attempts + 1]]
      /\ UNCHANGED <<clock, notices, delivered, unsettled, contested, moved, noticeActs, faults>>
      /\ Goes(n, "marked") /\ notifiers[n].phase \in Handling
  BY DEF MarkDispatched, Handling
<1> HIDE DEF x
<1>3. /\ outbox' \in [Rows -> OutboxRow]
      /\ \A y \in Rows : outbox[y].status # "absent" => outbox'[y].status # "absent"
      /\ \A y \in Rows : outbox'[y].status = "absent" =>
                           outbox'[y].attempts = 0 /\ delivered'[y] = 0
  BY <1>1, <1>2, MarkTyped
<1>4. /\ notifiers' \in [Notifiers -> Notifier] /\ notifiers'[n].rows = notifiers[n].rows
      /\ \A m \in Notifiers \ {n} : notifiers'[m] = notifiers[m]
      /\ \A m \in Notifiers : notifiers'[m].phase \in {"accepted", "marked", "failed"}
                              => notifiers'[m].rows # {}
  BY <1>1, <1>2, GoesTyped
<1>5. OutboxTypeOK'
  BY <1>1, <1>2, <1>3, <1>4 DEF OutboxTypeOK
<1>6. HeldInv'
  BY <1>2, <1>3, <1>4, FewerHeld
<1> QED BY <1>5, <1>6 DEF TypeInv

LEMMA MarkFailedTyped ==
  ASSUME TypeInv, NEW n \in Notifiers, MarkFailed(n)
  PROVE  TypeInv'
<1> DEFINE x == Current(n)
<1>1. OutboxTypeOK /\ x \in Rows
  BY CurrentIn DEF TypeInv, OutboxTypeOK, MarkFailed
<1>2. /\ outbox' = [outbox EXCEPT ![x] =
                      [status |-> "FAILED", attempts |-> outbox[x].attempts + 1]]
      /\ UNCHANGED <<clock, notices, delivered, unsettled, contested, moved, noticeActs, faults>>
      /\ Passes(n) /\ notifiers[n].phase \in Handling
  BY DEF MarkFailed, Handling
<1>3. /\ notifiers' \in [Notifiers -> Notifier] /\ notifiers'[n].rows \subseteq notifiers[n].rows
      /\ \A m \in Notifiers \ {n} : notifiers'[m] = notifiers[m]
      /\ \A m \in Notifiers : notifiers'[m].phase \in {"accepted", "marked", "failed"}
                              => notifiers'[m].rows # {}
  BY <1>1, <1>2, PassesTyped
<1> HIDE DEF x
<1>4. /\ outbox' \in [Rows -> OutboxRow]
      /\ \A y \in Rows : outbox[y].status # "absent" => outbox'[y].status # "absent"
      /\ \A y \in Rows : outbox'[y].status = "absent" =>
                           outbox'[y].attempts = 0 /\ delivered'[y] = 0
  BY <1>1, <1>2, MarkTyped
<1>5. OutboxTypeOK'
  BY <1>1, <1>2, <1>3, <1>4 DEF OutboxTypeOK
<1>6. HeldInv'
  BY <1>2, <1>3, <1>4, FewerHeld
<1> QED BY <1>5, <1>6 DEF TypeInv

LEMMA MarkSourceTyped ==
  ASSUME TypeInv, NEW n \in Notifiers, MarkSourceDelivered(n)
  PROVE  TypeInv'
<1> DEFINE s == Current(n)[1]
           sent == [notices[s] EXCEPT !.status = "SENT"]
<1>1. OutboxTypeOK /\ s \in Notices
  BY CurrentIn DEF TypeInv, OutboxTypeOK, MarkSourceDelivered
<1>2. /\ UNCHANGED <<clock, outbox, delivered, unsettled, contested, moved, noticeActs, faults>>
      /\ Passes(n) /\ notifiers[n].phase \in Handling
      /\ notices' = [notices EXCEPT ![s] = sent] \/ notices' = notices
  BY DEF MarkSourceDelivered, Handling
<1>3. /\ notifiers' \in [Notifiers -> Notifier] /\ notifiers'[n].rows \subseteq notifiers[n].rows
      /\ \A m \in Notifiers \ {n} : notifiers'[m] = notifiers[m]
      /\ \A m \in Notifiers : notifiers'[m].phase \in {"accepted", "marked", "failed"}
                              => notifiers'[m].rows # {}
  BY <1>1, <1>2, PassesTyped
<1> HIDE DEF s
<1>4. sent \in Notice
  BY <1>1 DEF OutboxTypeOK, Notice, NoticeStatus
<1> HIDE DEF sent
<1>5. notices' \in [Notices -> Notice]
  BY <1>1, <1>2, <1>4 DEF OutboxTypeOK
<1>6. OutboxTypeOK'
  BY <1>1, <1>2, <1>3, <1>5 DEF OutboxTypeOK
<1>7. HeldInv'
  BY <1>2, <1>3, FewerHeld
<1> QED BY <1>6, <1>7 DEF TypeInv

(* A call becomes idle. *)
LEMMA IdleTyped ==
  ASSUME TypeInv, NEW n \in Notifiers, notifiers' = [notifiers EXCEPT ![n] = Idle],
         UNCHANGED <<clock, notices, outbox, delivered, contested, moved, noticeActs>>,
         faults' \in 0..MaxFaults, unsettled' \subseteq Rows
  PROVE  /\ TypeInv' /\ notifiers'[n] = Idle
         /\ \A m \in Notifiers \ {n} : notifiers'[m] = notifiers[m]
<1>1. Idle \in Notifier /\ Idle.phase = "idle"
  BY NotificationOutboxAssumption DEF Idle, Notifier
<1>2. OutboxTypeOK
  BY DEF TypeInv
<1>3. /\ notifiers' \in [Notifiers -> Notifier]
      /\ notifiers'[n] = Idle /\ \A m \in Notifiers \ {n} : notifiers'[m] = notifiers[m]
      /\ \A m \in Notifiers : notifiers'[m].phase \in {"accepted", "marked", "failed"}
                              => notifiers'[m].rows # {}
  BY <1>1, <1>2, NotifierTyped
<1>4. OutboxTypeOK'
  BY <1>2, <1>3, SameTyped DEF OutboxTypeOK
<1>5. HeldInv'
  <2>1. \A m \in Notifiers, x \in Rows : Holds(m, x)' => Holds(m, x)
    BY <1>1, <1>3 DEF Holds, Handling
  <2> QED BY <2>1 DEF TypeInv, HeldInv
<1> QED BY <1>3, <1>4, <1>5 DEF TypeInv

LEMMA EndCallTyped ==
  ASSUME TypeInv, NEW n \in Notifiers, EndCall(n)
  PROVE  TypeInv'
BY IdleTyped DEF EndCall, TypeInv, OutboxTypeOK

LEMMA CallFailsTyped ==
  ASSUME TypeInv, NEW n \in Notifiers, CallFails(n)
  PROVE  TypeInv'
<1>1. faults' \in 0..MaxFaults
  BY NotificationOutboxAssumption DEF CallFails, TypeInv, OutboxTypeOK
<1>2. unsettled' \subseteq Rows
  BY DEF CallFails, TypeInv, OutboxTypeOK, Notifier
<1> QED BY <1>1, <1>2, IdleTyped DEF CallFails

LEMMA UpdateThrowsTyped ==
  ASSUME TypeInv, NEW n \in Notifiers, UpdateThrows(n)
  PROVE  TypeInv'
<1>1. OutboxTypeOK /\ notifiers[n].rows # {} /\ Current(n) \in Rows
  BY CurrentIn DEF TypeInv, OutboxTypeOK, UpdateThrows
<1>2. faults' \in 0..MaxFaults
  BY <1>1, NotificationOutboxAssumption DEF UpdateThrows, OutboxTypeOK
<1>3. /\ unsettled' = unsettled \cup {Current(n)}
      /\ UNCHANGED <<clock, notices, outbox, delivered, contested, moved, noticeActs>>
      /\ Goes(n, "failed") /\ notifiers[n].phase \in Handling
  BY DEF UpdateThrows, Handling
<1>4. unsettled' \subseteq Rows /\ contested' \subseteq Rows
  BY <1>1, <1>3 DEF OutboxTypeOK
<1>5. /\ notifiers' \in [Notifiers -> Notifier] /\ notifiers'[n].rows = notifiers[n].rows
      /\ \A m \in Notifiers \ {n} : notifiers'[m] = notifiers[m]
      /\ \A m \in Notifiers : notifiers'[m].phase \in {"accepted", "marked", "failed"}
                              => notifiers'[m].rows # {}
  BY <1>1, <1>3, GoesTyped
<1>6. OutboxTypeOK'
  BY <1>1, <1>2, <1>3, <1>4, <1>5, SameTyped
<1>7. HeldInv'
  BY <1>3, <1>5, FewerHeld
<1> QED BY <1>6, <1>7 DEF TypeInv

LEMMA UserTyped ==
  ASSUME TypeInv, NEW s \in Notices,
         \/ \E status \in NoticeStatus, at \in Times : UpdateNotice(s, status, at)
         \/ RemoveNotice(s)
  PROVE  TypeInv'
<1>1. /\ UNCHANGED <<clock, outbox, notifiers, delivered, unsettled, contested, faults>>
      /\ noticeActs' = noticeActs + 1 /\ noticeActs < MaxNoticeActs
  BY DEF UpdateNotice, RemoveNotice
<1>2. OutboxTypeOK
  BY DEF TypeInv
<1>3. notices' \in [Notices -> Notice] /\ moved' \subseteq Notices
  <2>1. CASE RemoveNotice(s)
    <3> DEFINE row == [notices[s] EXCEPT !.status = "absent"]
    <3>1. notices' = [notices EXCEPT ![s] = row] /\ moved' = moved
      BY <2>1 DEF RemoveNotice
    <3>2. row \in Notice
      BY <1>2 DEF OutboxTypeOK, Notice
    <3> HIDE DEF row
    <3> QED BY <1>2, <3>1, <3>2 DEF OutboxTypeOK
  <2>2. ASSUME NEW status \in NoticeStatus, NEW at \in Times, UpdateNotice(s, status, at)
        PROVE  notices' \in [Notices -> Notice] /\ moved' \subseteq Notices
    <3> DEFINE row == [status |-> status, at |-> at]
    <3>1. notices' = [notices EXCEPT ![s] = row] /\ moved' \subseteq moved \cup {s}
      BY <2>2 DEF UpdateNotice
    <3>2. row \in Notice
      BY DEF Notice
    <3> HIDE DEF row
    <3> QED BY <1>2, <3>1, <3>2 DEF OutboxTypeOK
  <2> QED BY <2>1, <2>2
<1>4. noticeActs' \in 0..MaxNoticeActs
  BY <1>1, <1>2, NotificationOutboxAssumption DEF OutboxTypeOK
<1>5. OutboxTypeOK'
  BY <1>1, <1>2, <1>3, <1>4 DEF OutboxTypeOK
<1>6. HeldInv'
  BY <1>1 DEF TypeInv, HeldInv, Holds
<1> QED BY <1>5, <1>6 DEF TypeInv

LEMMA TickTyped == ASSUME TypeInv, Tick PROVE TypeInv'
<1>1. /\ UNCHANGED <<notices, outbox, notifiers, delivered, unsettled, contested, moved,
                     noticeActs, faults>>
      /\ clock' = clock + 1 /\ clock < LastTime
  BY DEF Tick
<1>2. clock' \in 0..LastTime
  BY <1>1, NotificationOutboxAssumption DEF TypeInv, OutboxTypeOK
<1>3. OutboxTypeOK'
  BY <1>1, <1>2 DEF TypeInv, OutboxTypeOK
<1> QED BY <1>1, <1>3 DEF TypeInv, HeldInv, Holds

LEMMA TypeInvInit == OutboxInit => TypeInv
<1> SUFFICES ASSUME OutboxInit PROVE TypeInv
  OBVIOUS
<1>1. Idle \in Notifier /\ Idle.phase = "idle"
  BY NotificationOutboxAssumption DEF Idle, Notifier
<1>2. [Idle EXCEPT !.phase = "unused"] \in Notifier
      /\ [Idle EXCEPT !.phase = "unused"].phase = "unused"
  BY NotificationOutboxAssumption DEF Idle, Notifier
<1>3. /\ notifiers \in [Notifiers -> Notifier]
      /\ \A n \in Notifiers : notifiers[n].phase \in {"idle", "unused"}
  BY <1>1, <1>2 DEF OutboxInit
<1>4. notices \in [Notices -> Notice]
  <2>1. [status : {"SCHEDULED", "absent"}, at : {1}] \subseteq Notice
    BY NotificationOutboxAssumption DEF Notice, NoticeStatus, Times
  <2> QED BY <2>1 DEF OutboxInit
<1>5. /\ outbox \in [Rows -> OutboxRow]
      /\ \A x \in Rows : outbox[x].status = "absent" /\ outbox[x].attempts = 0
  BY DEF OutboxInit, OutboxRow
<1>6. OutboxTypeOK
  BY <1>3, <1>4, <1>5, NotificationOutboxAssumption DEF OutboxInit, OutboxTypeOK
<1>7. HeldInv
  BY <1>3 DEF HeldInv, Holds, Handling
<1> QED BY <1>6, <1>7 DEF TypeInv

LEMMA TypeInvNext == TypeInv /\ [OutboxNext]_outboxVars => TypeInv'
<1> SUFFICES ASSUME TypeInv, [OutboxNext]_outboxVars PROVE TypeInv'
  OBVIOUS
<1>1. ASSUME NEW n \in Notifiers, CallStep(n) PROVE TypeInv'
  BY <1>1, MaterializeTyped, EnqueueTyped, ReadPendingTyped, SendTyped, MarkDispatchedTyped,
     MarkSourceTyped, MarkFailedTyped, EndCallTyped DEF CallStep
<1>2. CASE UNCHANGED outboxVars
  BY <1>2 DEF outboxVars, TypeInv, OutboxTypeOK, HeldInv, Holds
<1> QED BY <1>1, <1>2, UpdateThrowsTyped, CallFailsTyped, UserTyped, TickTyped DEF OutboxNext

-----------------------------------------------------------------------------
(* Where a row is that arrived *)

(* Two calls that hold a row contested it. *)
ContestInv ==
  \A n, m \in Notifiers : \A x \in Rows :
    n # m /\ Holds(n, x) /\ Holds(m, x) => x \in contested

(* What a call has just sent has arrived. *)
SentInv ==
  \A n \in Notifiers : notifiers[n].phase \in {"accepted", "marked"} => delivered[Current(n)] > 0

Smooth(x) == delivered[x] > 0 /\ x \notin unsettled /\ x \notin contested

OnceInv ==
  \A x \in Rows : Smooth(x) =>
    /\ delivered[x] = 1
    /\ \/ outbox[x].status = "DISPATCHED"
       \/ \E n \in Notifiers : notifiers[n].phase = "accepted" /\ Current(n) = x
    /\ \A n \in Notifiers : Holds(n, x) => /\ notifiers[n].phase \in {"accepted", "marked"}
                                          /\ Current(n) = x

(* Unless its notice was changed, a row that will yet be sent, or is being *)
(* sent, is for the time its notice has.                                   *)
Slated(s, t) == Open(<<s, t>>) \/ \E n \in Notifiers : <<s, t>> \in notifiers[n].rows

TimelyInv ==
  \A s \in Notices \ (Recurring \cup moved), t \in Times : Slated(s, t) => t = notices[s].at

HandInv == ContestInv /\ SentInv /\ OnceInv

LEMMA SameCurrent ==
  ASSUME NEW m, notifiers'[m].rows = notifiers[m].rows PROVE Current(m)' = Current(m)
BY DEF Current

(* A call that holds no row after the step; it may have crashed. *)
LEMMA LetGo ==
  ASSUME HandInv, NEW n \in Notifiers,
         notifiers'[n].phase \notin Handling,
         \A m \in Notifiers \ {n} : notifiers'[m] = notifiers[m],
         UNCHANGED <<delivered, contested>>, unsettled \subseteq unsettled',
         notifiers[n].phase = "accepted" => Current(n) \in unsettled',
         \A x \in Rows : outbox[x].status = "DISPATCHED" => outbox'[x].status = "DISPATCHED"
  PROVE  HandInv'
<1>1. /\ \A m \in Notifiers \ {n} : Current(m)' = Current(m) /\ notifiers'[m].phase = notifiers[m].phase
      /\ \A m \in Notifiers \ {n} : \A x : Holds(m, x)' <=> Holds(m, x)
      /\ \A x : ~ Holds(n, x)'
  BY SameCurrent DEF Holds
<1>2. ContestInv'
  BY <1>1 DEF HandInv, ContestInv
<1>3. SentInv'
  BY <1>1 DEF HandInv, SentInv, Handling
<1>4. \A x : Smooth(x)' => Smooth(x)
  BY DEF Smooth
<1>5. OnceInv'
  <2> SUFFICES ASSUME NEW x \in Rows, Smooth(x)'
               PROVE  /\ delivered'[x] = 1
                      /\ \/ outbox'[x].status = "DISPATCHED"
                         \/ \E m \in Notifiers : notifiers'[m].phase = "accepted" /\ Current(m)' = x
                      /\ \A m \in Notifiers : Holds(m, x)' =>
                           notifiers'[m].phase \in {"accepted", "marked"} /\ Current(m)' = x
    BY DEF OnceInv
  <2>1. Smooth(x) /\ x \notin unsettled'
    BY <1>4 DEF Smooth
  <2>2. delivered'[x] = 1
    BY <2>1 DEF HandInv, OnceInv
  <2>3. \/ outbox'[x].status = "DISPATCHED"
        \/ \E m \in Notifiers : notifiers'[m].phase = "accepted" /\ Current(m)' = x
    BY <1>1, <2>1 DEF HandInv, OnceInv
  <2>4. \A m \in Notifiers : Holds(m, x)' =>
          notifiers'[m].phase \in {"accepted", "marked"} /\ Current(m)' = x
    BY <1>1, <2>1 DEF HandInv, OnceInv
  <2> QED BY <2>2, <2>3, <2>4
<1> QED BY <1>2, <1>3, <1>5 DEF HandInv

LEMMA ReadPendingHand ==
  ASSUME TypeInv, HandInv, NEW n \in Notifiers, ReadPending(n)
  PROVE  HandInv'
<1> DEFINE batch == FirstOf(Pending(n), BatchLimit)
<1>1. /\ notifiers'[n].phase = "dispatch"
      /\ \A m \in Notifiers \ {n} : notifiers'[m] = notifiers[m]
      /\ notifiers'[n].rows \subseteq Pending(n)
  BY ReadPendingTyped
<1>2. /\ notifiers'[n].rows = batch /\ notifiers[n].phase = "materialize"
      /\ contested' = contested \cup (batch \cap UNION {InHand(m) : m \in Notifiers \ {n}})
      /\ UNCHANGED <<outbox, delivered, unsettled>>
  BY DEF ReadPending, TypeInv, OutboxTypeOK, Notifier
<1>3. \A m \in Notifiers : \A x : Holds(m, x) <=> x \in InHand(m)
  BY DEF Holds, InHand, Handling
<1> HIDE DEF batch
<1>4. /\ \A m \in Notifiers \ {n} : Current(m)' = Current(m) /\ notifiers'[m].phase = notifiers[m].phase
      /\ \A m \in Notifiers \ {n} : \A x : Holds(m, x)' <=> Holds(m, x)
      /\ \A x : Holds(n, x)' <=> x \in batch
  BY <1>1, <1>2, SameCurrent DEF Holds, Handling
<1>5. ASSUME NEW m \in Notifiers \ {n}, NEW x \in batch, Holds(m, x) PROVE x \in contested'
  BY <1>2, <1>3, <1>5
<1>6. contested \subseteq contested'
  BY <1>2
<1>7. ContestInv'
  <2> SUFFICES ASSUME NEW k \in Notifiers, NEW m \in Notifiers, NEW x \in Rows, k # m,
                      Holds(k, x)', Holds(m, x)'
               PROVE  x \in contested'
    BY DEF ContestInv
  <2>1. CASE k # n /\ m # n
    BY <1>4, <1>6, <2>1 DEF HandInv, ContestInv
  <2>2. CASE k = n \/ m = n
    BY <1>4, <1>5, <2>2
  <2> QED BY <2>1, <2>2
<1>8. SentInv'
  BY <1>1, <1>2, <1>4 DEF HandInv, SentInv
<1>9. ASSUME NEW x \in batch, Smooth(x)' PROVE FALSE
  <2>1. x \in Rows /\ outbox[x].status # "DISPATCHED" /\ Smooth(x)
    BY <1>1, <1>2, <1>6, <1>9 DEF Pending, Open, Smooth
  <2>2. PICK m \in Notifiers : notifiers[m].phase = "accepted" /\ Current(m) = x
    BY <2>1 DEF HandInv, OnceInv
  <2>3. m # n /\ Holds(m, x)
    BY <1>2, <2>2, CurrentIn DEF TypeInv, OutboxTypeOK, Holds, Handling
  <2>4. x \in contested'
    BY <1>5, <2>3
  <2> QED BY <1>9, <2>4 DEF Smooth
<1>10. OnceInv'
  <2> SUFFICES ASSUME NEW x \in Rows, Smooth(x)'
               PROVE  /\ delivered'[x] = 1
                      /\ \/ outbox'[x].status = "DISPATCHED"
                         \/ \E m \in Notifiers : notifiers'[m].phase = "accepted" /\ Current(m)' = x
                      /\ \A m \in Notifiers : Holds(m, x)' =>
                           notifiers'[m].phase \in {"accepted", "marked"} /\ Current(m)' = x
    BY DEF OnceInv
  <2>1. Smooth(x) /\ x \notin batch
    BY <1>2, <1>6, <1>9 DEF Smooth
  <2>2. \/ outbox'[x].status = "DISPATCHED"
        \/ \E m \in Notifiers : notifiers'[m].phase = "accepted" /\ Current(m)' = x
    BY <1>2, <1>4, <2>1 DEF HandInv, OnceInv
  <2>3. \A m \in Notifiers : Holds(m, x)' =>
          notifiers'[m].phase \in {"accepted", "marked"} /\ Current(m)' = x
    BY <1>4, <2>1 DEF HandInv, OnceInv
  <2> QED BY <1>2, <2>1, <2>2, <2>3 DEF HandInv, OnceInv
<1> QED BY <1>7, <1>8, <1>10 DEF HandInv

(* The row a call is on may be told apart from the others it holds.        *)
LEMMA HoldsCurrent ==
  ASSUME TypeInv, NEW n \in Notifiers, notifiers[n].phase \in Handling, notifiers[n].rows # {}
  PROVE  Holds(n, Current(n)) /\ Current(n) \in Rows
BY CurrentIn DEF TypeInv, Holds

LEMMA SendHand ==
  ASSUME TypeInv, HandInv, NEW n \in Notifiers, Send(n)
  PROVE  HandInv'
<1> DEFINE x == Current(n)
<1>1. /\ Holds(n, x) /\ x \in Rows /\ notifiers[n].phase = "dispatch"
  BY HoldsCurrent DEF Send, Handling
<1>2. ASSUME NEW y \in Rows, Holds(n, y) PROVE ~ Smooth(y)
  BY <1>1, <1>2 DEF HandInv, OnceInv
<1>3. PICK p \in {"accepted", "failed"} :
        /\ Goes(n, p)
        /\ \/ p = "accepted" /\ Arrives(x) /\ unsettled' = unsettled
           \/ p = "failed" /\ delivered' = delivered /\ unsettled' = unsettled
           \/ p = "failed" /\ Arrives(x) /\ unsettled' = unsettled \cup {x}
  BY DEF Send
<1>4. /\ notifiers'[n].phase = p /\ notifiers'[n].rows = notifiers[n].rows
      /\ \A m \in Notifiers \ {n} : notifiers'[m] = notifiers[m]
  BY <1>3, GoesTyped DEF TypeInv, Send
<1>5. UNCHANGED <<outbox, contested>>
  BY DEF Send
<1>6. /\ \A m \in Notifiers : Current(m)' = Current(m)
      /\ \A m \in Notifiers \ {n} : notifiers'[m].phase = notifiers[m].phase
      /\ \A m \in Notifiers : \A y : Holds(m, y)' <=> Holds(m, y)
  BY <1>1, <1>4, SameCurrent DEF Holds, Handling
<1>7. /\ delivered \in [Rows -> 0..2]
      /\ \A y \in Rows \ {x} : delivered'[y] = delivered[y]
      /\ Arrives(x) => delivered'[x] = IF delivered[x] = 0 THEN 1 ELSE 2
      /\ delivered'[x] >= delivered[x] /\ delivered[x] \in 0..2 /\ delivered'[x] \in 0..2
  BY <1>1, <1>3 DEF TypeInv, OutboxTypeOK, Arrives
<1> HIDE DEF x
<1>8. ContestInv'
  BY <1>5, <1>6 DEF HandInv, ContestInv
<1>9. SentInv'
  <2>1. ASSUME NEW m \in Notifiers, m # n, notifiers[m].phase \in {"accepted", "marked"}
        PROVE  delivered'[Current(m)] > 0
    <3>1. delivered[Current(m)] > 0 /\ Current(m) \in Rows
      BY <2>1, HoldsCurrent DEF HandInv, SentInv, TypeInv, OutboxTypeOK, Handling
    <3> DEFINE y == Current(m)
    <3>2. delivered[y] \in 0..2 /\ delivered'[y] \in 0..2 /\ delivered'[y] >= delivered[y]
      <4>1. CASE y = x
        BY <1>7, <4>1
      <4>2. CASE y # x
        <5>1. delivered'[y] = delivered[y] /\ delivered[y] \in 0..2
          BY <1>7, <3>1, <4>2
        <5> HIDE DEF y
        <5> QED BY <5>1
      <4> QED BY <4>1, <4>2
    <3>3. delivered[y] > 0
      BY <3>1
    <3> HIDE DEF y
    <3>4. delivered'[y] > 0
      BY <3>2, <3>3
    <3> QED BY <3>4 DEF y
  <2>2. notifiers'[n].phase \in {"accepted", "marked"} => delivered'[x] > 0
    BY <1>3, <1>4, <1>7
  <2> QED BY <1>6, <2>1, <2>2 DEF SentInv, x
<1>10. OnceInv'
  <2> SUFFICES ASSUME NEW y \in Rows, Smooth(y)'
               PROVE  /\ delivered'[y] = 1
                      /\ \/ outbox'[y].status = "DISPATCHED"
                         \/ \E m \in Notifiers : notifiers'[m].phase = "accepted" /\ Current(m)' = y
                      /\ \A m \in Notifiers : Holds(m, y)' =>
                           notifiers'[m].phase \in {"accepted", "marked"} /\ Current(m)' = y
    BY DEF OnceInv
  <2>1. CASE y = x
    <3>1. y \notin unsettled /\ y \notin contested /\ ~ Smooth(y)
      BY <1>1, <1>2, <1>3, <1>5, <2>1 DEF Smooth
    <3>2. delivered[x] = 0
      BY <1>7, <2>1, <3>1 DEF Smooth
    <3>3. p = "accepted" /\ delivered'[x] = 1
      BY <1>3, <1>7, <2>1, <3>2 DEF Smooth
    <3>4. \A m \in Notifiers \ {n} : ~ Holds(m, x)
      BY <1>1, <2>1, <3>1 DEF HandInv, ContestInv
    <3> QED BY <1>4, <1>6, <2>1, <3>3, <3>4 DEF x
  <2>2. CASE y # x
    <3>1. Smooth(y) /\ delivered'[y] = delivered[y]
      BY <1>3, <1>5, <1>7, <2>2 DEF Smooth
    <3>2. ~ Holds(n, y)
      BY <1>2, <3>1
    <3>3. \/ outbox[y].status = "DISPATCHED"
          \/ \E m \in Notifiers \ {n} : notifiers[m].phase = "accepted" /\ Current(m) = y
      BY <1>1, <3>1 DEF HandInv, OnceInv
    <3>4. delivered[y] = 1 /\ \A m \in Notifiers : Holds(m, y) =>
            notifiers[m].phase \in {"accepted", "marked"} /\ Current(m) = y
      BY <3>1 DEF HandInv, OnceInv
    <3> QED BY <1>5, <1>6, <3>1, <3>2, <3>3, <3>4
  <2> QED BY <2>1, <2>2
<1> QED BY <1>8, <1>9, <1>10 DEF HandInv

(* A call moves on with the rows it holds, and marks its current row.      *)
LEMMA MarkDispatchedHand ==
  ASSUME TypeInv, HandInv, NEW n \in Notifiers, MarkDispatched(n)
  PROVE  HandInv'
<1> DEFINE x == Current(n)
<1>1. notifiers[n].phase = "accepted" /\ Holds(n, x) /\ x \in Rows /\ notifiers[n].rows # {}
  BY HoldsCurrent DEF MarkDispatched, TypeInv, OutboxTypeOK, Handling
<1>2. /\ notifiers'[n].phase = "marked" /\ notifiers'[n].rows = notifiers[n].rows
      /\ \A m \in Notifiers \ {n} : notifiers'[m] = notifiers[m]
  BY <1>1, GoesTyped DEF TypeInv, MarkDispatched
<1>3. UNCHANGED <<delivered, unsettled, contested>>
  BY DEF MarkDispatched
<1>4. outbox'[x].status = "DISPATCHED" /\ \A y \in Rows \ {x} : outbox'[y] = outbox[y]
  BY <1>1, <1>3, MarkTyped DEF MarkDispatched, TypeInv
<1>5. /\ \A m \in Notifiers : Current(m)' = Current(m)
      /\ \A m \in Notifiers \ {n} : notifiers'[m].phase = notifiers[m].phase
      /\ \A m \in Notifiers : \A y : Holds(m, y)' <=> Holds(m, y)
  BY <1>1, <1>2, SameCurrent DEF Holds, Handling
<1> HIDE DEF x
<1>6. ContestInv'
  BY <1>3, <1>5 DEF HandInv, ContestInv
<1>7. SentInv'
  BY <1>1, <1>2, <1>3, <1>5 DEF HandInv, SentInv
<1>8. OnceInv'
  <2> SUFFICES ASSUME NEW y \in Rows, Smooth(y)'
               PROVE  /\ delivered'[y] = 1
                      /\ \/ outbox'[y].status = "DISPATCHED"
                         \/ \E m \in Notifiers : notifiers'[m].phase = "accepted" /\ Current(m)' = y
                      /\ \A m \in Notifiers : Holds(m, y)' =>
                           notifiers'[m].phase \in {"accepted", "marked"} /\ Current(m)' = y
    BY DEF OnceInv
  <2>1. Smooth(y)
    BY <1>3 DEF Smooth
  <2>2. delivered[y] = 1 /\ \A m \in Notifiers : Holds(m, y) =>
          notifiers[m].phase \in {"accepted", "marked"} /\ Current(m) = y
    BY <2>1 DEF HandInv, OnceInv
  <2>3. \/ outbox'[y].status = "DISPATCHED"
        \/ \E m \in Notifiers : notifiers'[m].phase = "accepted" /\ Current(m)' = y
    <3>1. CASE y = x
      BY <1>4, <3>1
    <3>2. CASE y # x
      <4>1. \/ outbox[y].status = "DISPATCHED"
            \/ \E m \in Notifiers : notifiers[m].phase = "accepted" /\ Current(m) = y
        BY <2>1 DEF HandInv, OnceInv
      <4>2. Current(n) # y
        BY <3>2 DEF x
      <4> QED BY <1>4, <1>5, <3>2, <4>1, <4>2
    <3> QED BY <3>1, <3>2
  <2> QED BY <1>2, <1>3, <1>5, <2>2, <2>3
<1> QED BY <1>6, <1>7, <1>8 DEF HandInv

(* An update throws: whatever the call had sent is unsettled from now on.  *)
LEMMA UpdateThrowsHand ==
  ASSUME TypeInv, HandInv, NEW n \in Notifiers, UpdateThrows(n)
  PROVE  HandInv'
<1> DEFINE x == Current(n)
<1>1. /\ notifiers[n].phase \in {"accepted", "marked"} /\ notifiers[n].rows # {}
      /\ Holds(n, x) /\ x \in Rows
  BY HoldsCurrent DEF UpdateThrows, TypeInv, OutboxTypeOK, Handling
<1>2. /\ notifiers'[n].phase = "failed" /\ notifiers'[n].rows = notifiers[n].rows
      /\ \A m \in Notifiers \ {n} : notifiers'[m] = notifiers[m]
  BY <1>1, GoesTyped DEF TypeInv, UpdateThrows
<1>3. UNCHANGED <<delivered, contested, outbox>> /\ unsettled' = unsettled \cup {x}
  BY DEF UpdateThrows
<1>4. /\ \A m \in Notifiers : Current(m)' = Current(m)
      /\ \A m \in Notifiers \ {n} : notifiers'[m].phase = notifiers[m].phase
      /\ \A m \in Notifiers : \A y : Holds(m, y)' <=> Holds(m, y)
  BY <1>1, <1>2, SameCurrent DEF Holds, Handling
<1> HIDE DEF x
<1>5. ContestInv'
  BY <1>3, <1>4 DEF HandInv, ContestInv
<1>6. SentInv'
  BY <1>2, <1>3, <1>4 DEF HandInv, SentInv
<1>7. OnceInv'
  <2> SUFFICES ASSUME NEW y \in Rows, Smooth(y)'
               PROVE  /\ delivered'[y] = 1
                      /\ \/ outbox'[y].status = "DISPATCHED"
                         \/ \E m \in Notifiers : notifiers'[m].phase = "accepted" /\ Current(m)' = y
                      /\ \A m \in Notifiers : Holds(m, y)' =>
                           notifiers'[m].phase \in {"accepted", "marked"} /\ Current(m)' = y
    BY DEF OnceInv
  <2>1. Smooth(y) /\ y # x
    BY <1>3 DEF Smooth
  <2>2. /\ delivered[y] = 1
        /\ \A m \in Notifiers : Holds(m, y) =>
              notifiers[m].phase \in {"accepted", "marked"} /\ Current(m) = y
        /\ \/ outbox[y].status = "DISPATCHED"
           \/ \E m \in Notifiers : notifiers[m].phase = "accepted" /\ Current(m) = y
    BY <2>1 DEF HandInv, OnceInv
  <2>3. Current(n) # y
    BY <2>1 DEF x
  <2> QED BY <1>3, <1>4, <2>2, <2>3
<1> QED BY <1>5, <1>6, <1>7 DEF HandInv

(* A call is through with its current row, which it marked as dispatched   *)
(* before, or marks as failed now.                                         *)
LEMMA PassHand ==
  ASSUME TypeInv, HandInv, NEW n \in Notifiers, Passes(n),
         notifiers[n].phase \in {"marked", "failed"},
         UNCHANGED <<delivered, unsettled, contested>>,
         \A y \in Rows :
           outbox'[y] = outbox[y] \/ (y = Current(n) /\ notifiers[n].phase = "failed")
  PROVE  HandInv'
<1> DEFINE x == Current(n)
<1>1. notifiers[n].rows # {} /\ Holds(n, x) /\ x \in Rows
  BY HoldsCurrent DEF TypeInv, OutboxTypeOK, Handling
<1>2. /\ notifiers'[n].phase = "dispatch" /\ notifiers'[n].rows = notifiers[n].rows \ {x}
      /\ \A m \in Notifiers \ {n} : notifiers'[m] = notifiers[m]
  BY PassesTyped DEF TypeInv
<1>3. /\ \A m \in Notifiers \ {n} : Current(m)' = Current(m)
      /\ \A m \in Notifiers \ {n} : notifiers'[m].phase = notifiers[m].phase
      /\ \A m \in Notifiers \ {n} : \A y : Holds(m, y)' <=> Holds(m, y)
      /\ \A y : Holds(n, y)' => Holds(n, y) /\ y # x
  BY <1>1, <1>2, SameCurrent DEF Holds, Handling
<1> HIDE DEF x
<1>4. ContestInv'
  BY <1>3 DEF HandInv, ContestInv
<1>5. SentInv'
  BY <1>2, <1>3 DEF HandInv, SentInv
<1>6. OnceInv'
  <2> SUFFICES ASSUME NEW y \in Rows, Smooth(y)'
               PROVE  /\ delivered'[y] = 1
                      /\ \/ outbox'[y].status = "DISPATCHED"
                         \/ \E m \in Notifiers : notifiers'[m].phase = "accepted" /\ Current(m)' = y
                      /\ \A m \in Notifiers : Holds(m, y)' =>
                           notifiers'[m].phase \in {"accepted", "marked"} /\ Current(m)' = y
    BY DEF OnceInv
  <2>1. Smooth(y)
    BY DEF Smooth
  <2>2. /\ delivered[y] = 1
        /\ \A m \in Notifiers : Holds(m, y) =>
              notifiers[m].phase \in {"accepted", "marked"} /\ Current(m) = y
        /\ \/ outbox[y].status = "DISPATCHED"
           \/ \E m \in Notifiers : notifiers[m].phase = "accepted" /\ Current(m) = y
    BY <2>1 DEF HandInv, OnceInv
  <2>3. ~ Holds(n, y)'
    BY <1>3, <2>2 DEF x
  <2>4. outbox'[y] = outbox[y]
    BY <1>1, <2>2 DEF x
  <2> QED BY <1>3, <2>2, <2>3, <2>4
<1> QED BY <1>4, <1>5, <1>6 DEF HandInv

LEMMA CallStepHand ==
  ASSUME TypeInv, HandInv, NEW n \in Notifiers, CallStep(n)
  PROVE  HandInv'
<1>1. ASSUME NEW w \in Notifier, notifiers' = [notifiers EXCEPT ![n] = w]
      PROVE  notifiers'[n] = w /\ \A m \in Notifiers \ {n} : notifiers'[m] = notifiers[m]
  BY <1>1 DEF TypeInv, OutboxTypeOK
<1>2. CASE Materialize(n)
  <2>1. /\ notifiers'[n].phase = "materialize"
        /\ \A m \in Notifiers \ {n} : notifiers'[m] = notifiers[m]
    BY <1>2 DEF Materialize, TypeInv, OutboxTypeOK
  <2>2. /\ UNCHANGED <<outbox, delivered, contested, unsettled>> /\ notifiers[n].phase = "idle"
    BY <1>2 DEF Materialize
  <2> QED BY <2>1, <2>2, LetGo DEF Handling
<1>3. CASE Enqueue(n)
  <2>1. /\ notifiers'[n].phase = notifiers[n].phase /\ notifiers[n].phase = "materialize"
        /\ \A m \in Notifiers \ {n} : notifiers'[m] = notifiers[m]
    BY <1>3 DEF Enqueue, TypeInv, OutboxTypeOK, Notifier
  <2>2. UNCHANGED <<delivered, contested, unsettled>>
    BY <1>3 DEF Enqueue
  <2>3. \A x \in Rows : outbox[x].status = "DISPATCHED" => outbox'[x].status = "DISPATCHED"
    BY <1>3 DEF Enqueue, Upserted, TypeInv, OutboxTypeOK
  <2> QED BY <2>1, <2>2, <2>3, LetGo DEF Handling
<1>4. CASE MarkSourceDelivered(n)
  <2>1. /\ Passes(n) /\ notifiers[n].phase = "marked" /\ outbox' = outbox
        /\ UNCHANGED <<delivered, unsettled, contested>>
    BY <1>4 DEF MarkSourceDelivered
  <2> QED BY <2>1, PassHand
<1>5. CASE MarkFailed(n)
  <2>1. \A y \in Rows \ {Current(n)} : outbox'[y] = outbox[y]
    BY <1>5 DEF MarkFailed, TypeInv, OutboxTypeOK
  <2> QED BY <1>5, <2>1, PassHand DEF MarkFailed
<1>6. CASE EndCall(n)
  <2>1. /\ notifiers'[n].phase = "idle" /\ notifiers[n].phase = "dispatch"
        /\ \A m \in Notifiers \ {n} : notifiers'[m] = notifiers[m]
        /\ UNCHANGED <<outbox, delivered, contested, unsettled>>
    BY <1>6 DEF EndCall, Idle, TypeInv, OutboxTypeOK
  <2> QED BY <2>1, LetGo DEF Handling
<1> QED BY <1>2, <1>3, <1>4, <1>5, <1>6, ReadPendingHand, SendHand, MarkDispatchedHand DEF CallStep

LEMMA CallFailsHand ==
  ASSUME TypeInv, HandInv, NEW n \in Notifiers, CallFails(n)
  PROVE  HandInv'
<1>1. /\ notifiers'[n].phase = "idle"
      /\ \A m \in Notifiers \ {n} : notifiers'[m] = notifiers[m]
      /\ UNCHANGED <<outbox, delivered, contested>> /\ unsettled \subseteq unsettled'
  BY DEF CallFails, Idle, TypeInv, OutboxTypeOK
<1>2. notifiers[n].phase = "accepted" => Current(n) \in unsettled'
  BY CurrentIn DEF CallFails, TypeInv, OutboxTypeOK
<1> QED BY <1>1, <1>2, LetGo DEF Handling

LEMMA HandInvNext == TypeInv /\ HandInv /\ [OutboxNext]_outboxVars => HandInv'
<1> SUFFICES ASSUME TypeInv, HandInv, [OutboxNext]_outboxVars PROVE HandInv'
  OBVIOUS
<1>1. CASE UNCHANGED <<outbox, notifiers, delivered, unsettled, contested>>
  BY <1>1 DEF HandInv, ContestInv, SentInv, OnceInv, Smooth, Holds, Current
<1>2. ASSUME NEW s \in Notices, NEW status, NEW at,
             UpdateNotice(s, status, at) \/ RemoveNotice(s) \/ Tick
      PROVE  HandInv'
  BY <1>1, <1>2 DEF UpdateNotice, RemoveNotice, Tick
<1>3. CASE Tick
  BY <1>1, <1>3 DEF Tick
<1>4. CASE UNCHANGED outboxVars
  BY <1>1, <1>4 DEF outboxVars
<1> QED BY <1>2, <1>3, <1>4, CallStepHand, CallFailsHand, UpdateThrowsHand DEF OutboxNext

LEMMA HandInvInit == OutboxInit => HandInv
<1> SUFFICES ASSUME OutboxInit PROVE HandInv
  OBVIOUS
<1>1. /\ \A n \in Notifiers : notifiers[n].phase \in {"idle", "unused"}
      /\ \A x \in Rows : delivered[x] = 0
  BY DEF OutboxInit, Idle
<1> QED BY <1>1 DEF HandInv, ContestInv, SentInv, OnceInv, Smooth, Holds, Handling

LEMMA HandInvAlways == OutboxSpec => [](TypeInv /\ HandInv)
<1>1. OutboxInit => TypeInv /\ HandInv
  BY TypeInvInit, HandInvInit
<1>2. TypeInv /\ HandInv /\ [OutboxNext]_outboxVars => (TypeInv /\ HandInv)'
  BY TypeInvNext, HandInvNext
<1> QED BY <1>1, <1>2, PTL DEF OutboxSpec

-----------------------------------------------------------------------------
(* Rows are for the time of their notice. *)

LEMMA KeptTimely ==
  ASSUME TimelyInv, \A s \in Notices : notices'[s].at = notices[s].at, moved \subseteq moved',
         \A s \in Notices, t \in Times : Slated(s, t)' => Slated(s, t)
  PROVE  TimelyInv'
BY DEF TimelyInv

LEMMA MaterializeTimely ==
  ASSUME TypeInv, TimelyInv, NEW n \in Notifiers, Materialize(n)
  PROVE  TimelyInv'
<1> SUFFICES ASSUME NEW s \in Notices \ (Recurring \cup moved), NEW t \in Times, Slated(s, t)'
             PROVE  t = notices[s].at
  BY DEF TimelyInv, Materialize
<1>1. /\ notifiers'[n].rows = UNION {Occurrences(x[1], x[2]) : x \in DueNotices}
      /\ \A m \in Notifiers \ {n} : notifiers'[m] = notifiers[m]
      /\ outbox' = outbox
  BY DEF Materialize, TypeInv, OutboxTypeOK
<1>2. CASE <<s, t>> \in notifiers'[n].rows
  <2>1. PICK x \in DueNotices : <<s, t>> \in Occurrences(x[1], x[2])
    BY <1>1, <1>2
  <2>2. PICK u \in Notices : x = <<u, notices[u].at>>
    BY <2>1, FirstOfPart DEF DueNotices
  <2>3. <<s, t>> \in Occurrences(u, notices[u].at)
    BY <2>1, <2>2
  <2> QED BY <2>3 DEF Occurrences
<1>3. CASE <<s, t>> \notin notifiers'[n].rows
  <2>1. Slated(s, t)
    BY <1>1, <1>3 DEF Slated, Open
  <2> QED BY <2>1 DEF TimelyInv
<1> QED BY <1>2, <1>3

LEMMA CallStepTimely ==
  ASSUME TypeInv, TimelyInv, NEW n \in Notifiers, CallStep(n)
  PROVE  TimelyInv'
<1>1. OutboxTypeOK /\ \A s \in Notices, t \in Times : <<s, t>> \in Rows
  BY DEF TypeInv, Rows
<1>2. ASSUME UNCHANGED <<notices, moved>>, notifiers'[n].rows \subseteq notifiers[n].rows,
             \A m \in Notifiers \ {n} : notifiers'[m] = notifiers[m],
             \A y \in Rows : Open(y)' => Open(y) \/ y \in notifiers[n].rows
      PROVE  TimelyInv'
  <2>1. \A s \in Notices, t \in Times : Slated(s, t)' => Slated(s, t)
    BY <1>1, <1>2 DEF Slated
  <2> QED BY <1>2, <2>1, KeptTimely
<1>3. CASE Enqueue(n)
  <2>1. Current(n) \in notifiers[n].rows
    BY <1>1, <1>3, CurrentIn DEF Enqueue
  <2>2. \A y \in Rows \ {Current(n)} : outbox'[y] = outbox[y]
    BY <1>1, <1>3 DEF Enqueue, Upserted, OutboxTypeOK
  <2>3. /\ notifiers'[n].rows \subseteq notifiers[n].rows
        /\ \A m \in Notifiers \ {n} : notifiers'[m] = notifiers[m]
        /\ UNCHANGED <<notices, moved>>
    BY <1>1, <1>3 DEF Enqueue, OutboxTypeOK, Notifier
  <2>4. \A y \in Rows : Open(y)' => Open(y) \/ y \in notifiers[n].rows
    BY <2>1, <2>2 DEF Open
  <2> QED BY <1>2, <2>3, <2>4
<1>4. CASE ReadPending(n)
  <2>1. /\ notifiers'[n].rows \subseteq Pending(n)
        /\ \A m \in Notifiers \ {n} : notifiers'[m] = notifiers[m]
        /\ UNCHANGED <<outbox, notices, moved>>
    BY <1>4, ReadPendingTyped DEF ReadPending
  <2>2. \A y \in Pending(n) : Open(y)
    BY DEF Pending
  <2>3. \A s \in Notices, t \in Times : Slated(s, t)' => Slated(s, t)
    BY <2>1, <2>2 DEF Slated, Open
  <2> QED BY <2>1, <2>3, KeptTimely
<1>5. CASE Send(n)
  <2>1. PICK p \in {"accepted", "failed"} : Goes(n, p)
    BY <1>5 DEF Send
  <2>2. /\ notifiers'[n].rows = notifiers[n].rows
        /\ \A m \in Notifiers \ {n} : notifiers'[m] = notifiers[m]
    BY <1>1, <1>5, <2>1, GoesTyped DEF Send
  <2>3. UNCHANGED <<outbox, notices, moved>>
    BY <1>5 DEF Send
  <2> QED BY <1>2, <2>2, <2>3 DEF Open
<1>6. CASE MarkDispatched(n)
  <2>1. notifiers[n].rows # {} /\ Current(n) \in Rows
    BY <1>1, <1>6, CurrentIn DEF MarkDispatched, OutboxTypeOK
  <2>2. /\ notifiers'[n].rows = notifiers[n].rows
        /\ \A m \in Notifiers \ {n} : notifiers'[m] = notifiers[m]
    BY <1>1, <1>6, <2>1, GoesTyped DEF MarkDispatched
  <2>3. UNCHANGED <<notices, moved>>
    BY <1>6 DEF MarkDispatched
  <2>4. \A y \in Rows \ {Current(n)} : outbox'[y] = outbox[y]
    BY <1>1, <1>6 DEF MarkDispatched, OutboxTypeOK
  <2>5. Current(n) \in notifiers[n].rows
    BY <1>1, <2>1, CurrentIn
  <2>6. \A y \in Rows : Open(y)' => Open(y) \/ y \in notifiers[n].rows
    BY <2>4, <2>5 DEF Open
  <2> QED BY <1>2, <2>2, <2>3, <2>6
<1>7. CASE MarkFailed(n) \/ MarkSourceDelivered(n)
  <2>1. Passes(n) /\ Current(n) \in notifiers[n].rows /\ moved' = moved
    BY <1>1, <1>7, CurrentIn DEF MarkFailed, MarkSourceDelivered, OutboxTypeOK
  <2>2. /\ notifiers'[n].rows \subseteq notifiers[n].rows
        /\ \A m \in Notifiers \ {n} : notifiers'[m] = notifiers[m]
    BY <1>1, <2>1, PassesTyped
  <2>3. \A y \in Rows \ {Current(n)} : outbox'[y] = outbox[y]
    BY <1>1, <1>7 DEF MarkFailed, MarkSourceDelivered, OutboxTypeOK
  <2>4. \A s \in Notices : notices'[s].at = notices[s].at
    BY <1>1, <1>7 DEF MarkFailed, MarkSourceDelivered, OutboxTypeOK, Notice
  <2>5. \A s \in Notices, t \in Times : Slated(s, t)' => Slated(s, t)
    BY <1>1, <2>1, <2>2, <2>3 DEF Slated, Open
  <2> QED BY <2>1, <2>4, <2>5, KeptTimely
<1>8. CASE EndCall(n)
  <2>1. notifiers'[n].rows = {} /\ \A m \in Notifiers \ {n} : notifiers'[m] = notifiers[m]
    BY <1>1, <1>8 DEF EndCall, Idle, OutboxTypeOK
  <2>2. UNCHANGED <<outbox, notices, moved>>
    BY <1>8 DEF EndCall
  <2> QED BY <1>2, <2>1, <2>2 DEF Open
<1> QED BY <1>3, <1>4, <1>5, <1>6, <1>7, <1>8, MaterializeTimely DEF CallStep

LEMMA FaultTimely ==
  ASSUME TypeInv, TimelyInv, NEW n \in Notifiers, UpdateThrows(n) \/ CallFails(n)
  PROVE  TimelyInv'
<1>1. OutboxTypeOK
  BY DEF TypeInv
<1>2. UNCHANGED <<outbox, notices, moved>>
  BY DEF UpdateThrows, CallFails
<1>3. CASE UpdateThrows(n)
  <2>1. notifiers[n].rows # {} /\ Goes(n, "failed")
    BY <1>1, <1>3 DEF UpdateThrows, OutboxTypeOK
  <2>2. /\ notifiers'[n].rows = notifiers[n].rows
        /\ \A m \in Notifiers \ {n} : notifiers'[m] = notifiers[m]
    BY <1>1, <2>1, GoesTyped
  <2> QED BY <1>2, <2>2, KeptTimely DEF Slated, Open
<1>4. CASE CallFails(n)
  <2>1. notifiers'[n].rows = {} /\ \A m \in Notifiers \ {n} : notifiers'[m] = notifiers[m]
    BY <1>1, <1>4 DEF CallFails, Idle, OutboxTypeOK
  <2> QED BY <1>2, <2>1, KeptTimely DEF Slated, Open
<1> QED BY <1>3, <1>4

LEMMA UpdateNoticeTimely ==
  ASSUME TypeInv, TimelyInv, NEW s \in Notices, NEW status \in NoticeStatus, NEW at \in Times,
         UpdateNotice(s, status, at)
  PROVE  TimelyInv'
<1>1. UNCHANGED <<outbox, notifiers>>
  BY DEF UpdateNotice
<1>2. \A u \in Notices \ {s} : notices'[u] = notices[u]
  BY DEF UpdateNotice, TypeInv, OutboxTypeOK
<1>3. moved' = moved \cup {u \in {s} : Unfinished(u)}
  BY DEF UpdateNotice
<1>4. \A t \in Times : Slated(s, t) => Unfinished(s)
  BY DEF Slated, Unfinished
<1>5. \A u \in Notices, t \in Times : Slated(u, t)' <=> Slated(u, t)
  BY <1>1 DEF Slated, Open
<1> QED BY <1>2, <1>3, <1>4, <1>5 DEF TimelyInv

LEMMA TimelyInvNext == TypeInv /\ TimelyInv /\ [OutboxNext]_outboxVars => TimelyInv'
<1> SUFFICES ASSUME TypeInv, TimelyInv, [OutboxNext]_outboxVars PROVE TimelyInv'
  OBVIOUS
<1>1. ASSUME NEW s \in Notices, RemoveNotice(s) PROVE TimelyInv'
  <2>1. \A u \in Notices : notices'[u].at = notices[u].at
    BY <1>1 DEF RemoveNotice, TypeInv, OutboxTypeOK, Notice
  <2>2. UNCHANGED <<outbox, notifiers, moved>>
    BY <1>1 DEF RemoveNotice
  <2> QED BY <2>1, <2>2, KeptTimely DEF Slated, Open
<1>2. CASE Tick \/ UNCHANGED outboxVars
  <2>1. UNCHANGED <<notices, outbox, notifiers, moved>>
    BY <1>2 DEF Tick, outboxVars
  <2> QED BY <2>1, KeptTimely DEF Slated, Open
<1> QED BY <1>1, <1>2, CallStepTimely, FaultTimely, UpdateNoticeTimely DEF OutboxNext

LEMMA TimelyInvInit == OutboxInit => TimelyInv
<1> SUFFICES ASSUME OutboxInit PROVE TimelyInv
  OBVIOUS
<1>1. \A n \in Notifiers : notifiers[n].rows = {}
  BY DEF OutboxInit, Idle
<1>2. \A s \in Notices, t \in Times : ~ Open(<<s, t>>)
  BY DEF OutboxInit, Open, Rows
<1> QED BY <1>1, <1>2 DEF TimelyInv, Slated

LEMMA TimelyInvAlways == OutboxSpec => [](TypeInv /\ TimelyInv)
<1>1. OutboxInit => TypeInv /\ TimelyInv
  BY TypeInvInit, TimelyInvInit
<1>2. TypeInv /\ TimelyInv /\ [OutboxNext]_outboxVars => (TypeInv /\ TimelyInv)'
  BY TypeInvNext, TimelyInvNext
<1> QED BY <1>1, <1>2, PTL DEF OutboxSpec

-----------------------------------------------------------------------------

(* The rows and the calls keep their types; a call that is about to mark a *)
(* row has one, and a row that is not there was not delivered.             *)
THEOREM OutboxTypeCorrect == OutboxSpec => []OutboxTypeOK
<1>1. TypeInv => OutboxTypeOK
  BY DEF TypeInv
<1> QED BY <1>1, HandInvAlways, PTL

(* Whatever the number of calls that overlap, a notification arrives again *)
(* only after a delivery that was not recorded, or when two calls had read *)
(* its row.                                                                *)
THEOREM NotificationsArriveOnce == OutboxSpec => []DeliveredOnce
<1>1. TypeInv /\ HandInv => DeliveredOnce
  BY DEF HandInv, OnceInv, Smooth, DeliveredOnce
<1> QED BY <1>1, HandInvAlways, PTL

(* The worker marks a notice sent only when it arrived for the time the    *)
(* notice has, unless its user changed it while a row of it was open.      *)
THEOREM SentNoticesArrived == OutboxSpec => SentWasNotified
<1>1. TypeInv /\ HandInv /\ TimelyInv /\ [OutboxNext]_outboxVars
      => \A s \in Notices :
           /\ notices[s].status # "SENT" /\ notices'[s].status = "SENT"
           /\ noticeActs' = noticeActs
           => s \in moved \/ delivered[<<s, notices[s].at>>] > 0
  <2> SUFFICES ASSUME TypeInv, HandInv, TimelyInv, [OutboxNext]_outboxVars, NEW s \in Notices,
                      notices[s].status # "SENT", notices'[s].status = "SENT",
                      noticeActs' = noticeActs, s \notin moved
               PROVE  delivered[<<s, notices[s].at>>] > 0
    OBVIOUS
  <2>1. OutboxTypeOK /\ notices' # notices
    BY DEF TypeInv
  <2>2. noticeActs + 1 # noticeActs
    BY <2>1, NotificationOutboxAssumption DEF OutboxTypeOK
  <2>3. \E n \in Notifiers : MarkSourceDelivered(n)
    <3>1. ASSUME NEW n \in Notifiers, CallStep(n) PROVE MarkSourceDelivered(n)
      BY <2>1, <3>1 DEF CallStep, Materialize, Enqueue, ReadPending, Send, MarkDispatched,
                        MarkFailed, EndCall
    <3>2. ASSUME NEW n \in Notifiers, UpdateThrows(n) \/ CallFails(n) PROVE FALSE
      BY <2>1, <3>2 DEF UpdateThrows, CallFails
    <3>3. ASSUME NEW u \in Notices, NEW status \in NoticeStatus, NEW at \in Times,
                 UpdateNotice(u, status, at)
          PROVE  FALSE
      BY <2>2, <3>3 DEF UpdateNotice
    <3>4. ASSUME NEW u \in Notices, RemoveNotice(u) PROVE FALSE
      BY <2>2, <3>4 DEF RemoveNotice
    <3>5. ~ Tick
      BY <2>1 DEF Tick
    <3>6. OutboxNext
      BY <2>1 DEF outboxVars
    <3>7. \/ \E n \in Notifiers : CallStep(n) \/ UpdateThrows(n) \/ CallFails(n)
          \/ \E u \in Notices : \/ \E status \in NoticeStatus, at \in Times :
                                     UpdateNotice(u, status, at)
                                \/ RemoveNotice(u)
      BY <3>5, <3>6 DEF OutboxNext
    <3>8. \E n \in Notifiers : CallStep(n) \/ UpdateThrows(n) \/ CallFails(n)
      BY <3>3, <3>4, <3>7
    <3> QED BY <3>1, <3>2, <3>8
  <2>4. PICK n \in Notifiers : MarkSourceDelivered(n)
    BY <2>3
  <2>5. /\ Current(n) \in notifiers[n].rows /\ Current(n) \in Rows
        /\ notifiers[n].phase = "marked"
    BY <2>1, <2>4, CurrentIn DEF MarkSourceDelivered, OutboxTypeOK
  <2>6. s = Current(n)[1] /\ s \notin Recurring
    <3> DEFINE u == Current(n)[1]
    <3>1. notices' = IF notices[u].status = "SCHEDULED" /\ u \notin Recurring
                     THEN [notices EXCEPT ![u].status = "SENT"] ELSE notices
      BY <2>4 DEF MarkSourceDelivered
    <3> HIDE DEF u
    <3>2. s = u /\ s \notin Recurring
      BY <2>1, <3>1 DEF OutboxTypeOK
    <3> QED BY <3>2 DEF u
  <2>7. delivered[Current(n)] > 0
    BY <2>5 DEF HandInv, SentInv
  <2>8. PICK t \in Times : Current(n) = <<s, t>>
    BY <2>5, <2>6 DEF Rows
  <2>9. t = notices[s].at
    BY <2>5, <2>6, <2>8 DEF TimelyInv, Slated
  <2> QED BY <2>7, <2>8, <2>9
<1>2. OutboxSpec => [][OutboxNext]_outboxVars
  BY PTL DEF OutboxSpec
<1> QED BY <1>1, <1>2, HandInvAlways, TimelyInvAlways, PTL DEF SentWasNotified

-----------------------------------------------------------------------------
(* How often a row is attempted *)

(* The calls that will yet mark the row x, and those among them that may    *)
(* mark it twice: dispatched, and failed when the next update throws.       *)
Holders(x) == {n \in Notifiers : Holds(n, x)}
Untried(x) == {n \in Holders(x) : ~ (notifiers[n].phase \in {"marked", "failed"} /\ Current(n) = x)}

Spent(x) == outbox[x].attempts + Cardinality(Untried(x)) + Cardinality(Holders(x))

AttemptsInv == \A x \in Rows : Spent(x) <= MaxAttempts - 1 + 2 * Cardinality(Notifiers)

LEMMA PartOfCalls ==
  ASSUME NEW S, S \subseteq Notifiers
  PROVE  IsFiniteSet(S) /\ Cardinality(S) \in Nat /\ Cardinality(S) <= Cardinality(Notifiers)
BY NotificationOutboxAssumption, FS_Subset, FS_CardinalityType

LEMMA PartOfPart ==
  ASSUME NEW S, NEW T, S \subseteq T, T \subseteq Notifiers
  PROVE  /\ Cardinality(S) \in Nat /\ Cardinality(T) \in Nat
         /\ Cardinality(S) <= Cardinality(T)
         /\ \A n \in T : n \notin S => Cardinality(S) <= Cardinality(T) - 1
<1>1. IsFiniteSet(T) /\ Cardinality(T) \in Nat /\ Cardinality(S) \in Nat
  BY PartOfCalls
<1>2. Cardinality(S) <= Cardinality(T)
  BY <1>1, FS_Subset
<1>3. ASSUME NEW n \in T, n \notin S PROVE Cardinality(S) <= Cardinality(T) - 1
  <2>1. S \subseteq T \ {n} /\ IsFiniteSet(T \ {n}) /\ Cardinality(T \ {n}) = Cardinality(T) - 1
    BY <1>1, <1>3, FS_RemoveElement
  <2> QED BY <2>1, FS_Subset
<1> QED BY <1>1, <1>2, <1>3

(* What a step may do to a row: leave it with the calls it had, or fewer;   *)
(* mark it once for a call that could mark it as often or more; or give it  *)
(* to another call while its attempts are not used up.                      *)
LEMMA AttemptPaid ==
  ASSUME TypeInv, TypeInv', AttemptsInv, NEW x \in Rows,
         \/ /\ outbox'[x].attempts = outbox[x].attempts
            /\ Untried(x)' \subseteq Untried(x) /\ Holders(x)' \subseteq Holders(x)
         \/ /\ outbox'[x].attempts = outbox[x].attempts + 1
            /\ Untried(x)' \subseteq Untried(x) /\ Holders(x)' \subseteq Holders(x)
            /\ (\E n \in Untried(x) : n \notin Untried(x)')
                 \/ (\E n \in Holders(x) : n \notin Holders(x)')
         \/ /\ outbox'[x].attempts = outbox[x].attempts
            /\ outbox[x].attempts < MaxAttempts
  PROVE  Spent(x)' <= MaxAttempts - 1 + 2 * Cardinality(Notifiers)
<1> DEFINE U == Untried(x)
           H == Holders(x)
<1>1. /\ U \subseteq Notifiers /\ H \subseteq Notifiers
      /\ U' \subseteq Notifiers /\ H' \subseteq Notifiers
  BY DEF Untried, Holders
<1>2. outbox[x].attempts \in Nat /\ MaxAttempts \in Nat /\ Cardinality(Notifiers) \in Nat
  BY NotificationOutboxAssumption, PartOfCalls DEF TypeInv, OutboxTypeOK, OutboxRow
<1>3. /\ Cardinality(U) \in Nat /\ Cardinality(H) \in Nat
      /\ Cardinality(U') \in Nat /\ Cardinality(H') \in Nat
      /\ Cardinality(U') <= Cardinality(Notifiers) /\ Cardinality(H') <= Cardinality(Notifiers)
  <2> HIDE DEF U, H
  <2> QED BY <1>1, PartOfCalls
<1>4. outbox[x].attempts + Cardinality(U) + Cardinality(H) <= MaxAttempts - 1 + 2 * Cardinality(Notifiers)
  BY DEF AttemptsInv, Spent
<1>5. U' \subseteq U => /\ Cardinality(U') <= Cardinality(U)
                        /\ (\E n \in U : n \notin U') => Cardinality(U') <= Cardinality(U) - 1
  <2> HIDE DEF U, H
  <2> QED BY <1>1, PartOfPart
<1>6. H' \subseteq H => /\ Cardinality(H') <= Cardinality(H)
                        /\ (\E n \in H : n \notin H') => Cardinality(H') <= Cardinality(H) - 1
  <2> HIDE DEF U, H
  <2> QED BY <1>1, PartOfPart
<1>7. outbox'[x].attempts + Cardinality(U') + Cardinality(H') <= MaxAttempts - 1 + 2 * Cardinality(Notifiers)
  <2> DEFINE a == outbox[x].attempts
  <2>1. CASE outbox'[x].attempts = a /\ U' \subseteq U /\ H' \subseteq H
    <3> HIDE DEF U, H
    <3> QED BY <1>2, <1>3, <1>4, <1>5, <1>6, <2>1
  <2>2. CASE /\ outbox'[x].attempts = a + 1 /\ U' \subseteq U /\ H' \subseteq H
             /\ (\E n \in U : n \notin U') \/ (\E n \in H : n \notin H')
    <3> HIDE DEF U, H
    <3> QED BY <1>2, <1>3, <1>4, <1>5, <1>6, <2>2
  <2>3. CASE outbox'[x].attempts = a /\ a < MaxAttempts
    <3> HIDE DEF U, H
    <3> QED BY <1>2, <1>3, <2>3
  <2> QED BY <2>1, <2>2, <2>3
<1> QED BY <1>7 DEF Spent

(* A call that holds no row after the step *)
LEMMA LetGoAttempts ==
  ASSUME TypeInv, TypeInv', AttemptsInv, NEW n \in Notifiers,
         notifiers'[n].phase \notin Handling,
         \A m \in Notifiers \ {n} : notifiers'[m] = notifiers[m],
         \A x \in Rows : outbox'[x].attempts = outbox[x].attempts
  PROVE  AttemptsInv'
<1>1. /\ \A m \in Notifiers \ {n} : Current(m)' = Current(m) /\ notifiers'[m].phase = notifiers[m].phase
      /\ \A m \in Notifiers \ {n} : \A x : Holds(m, x)' <=> Holds(m, x)
      /\ \A x : ~ Holds(n, x)'
  BY SameCurrent DEF Holds
<1>2. \A x \in Rows : Untried(x)' \subseteq Untried(x) /\ Holders(x)' \subseteq Holders(x)
  BY <1>1 DEF Untried, Holders
<1> QED BY <1>2, AttemptPaid DEF AttemptsInv

LEMMA ReadPendingAttempts ==
  ASSUME TypeInv, TypeInv', AttemptsInv, NEW n \in Notifiers, ReadPending(n)
  PROVE  AttemptsInv'
<1>1. /\ \A m \in Notifiers \ {n} : notifiers'[m] = notifiers[m]
      /\ notifiers'[n].rows \subseteq Pending(n) /\ outbox' = outbox
  BY ReadPendingTyped DEF ReadPending
<1>2. /\ \A m \in Notifiers \ {n} : Current(m)' = Current(m) /\ notifiers'[m].phase = notifiers[m].phase
      /\ \A m \in Notifiers \ {n} : \A x : Holds(m, x)' <=> Holds(m, x)
      /\ \A x : Holds(n, x)' => x \in Pending(n)
  BY <1>1, SameCurrent DEF Holds
<1>3. SUFFICES ASSUME NEW x \in Rows
               PROVE  Spent(x)' <= MaxAttempts - 1 + 2 * Cardinality(Notifiers)
  BY DEF AttemptsInv
<1>4. CASE outbox[x].attempts < MaxAttempts
  BY <1>1, <1>4, AttemptPaid
<1>5. CASE ~ (outbox[x].attempts < MaxAttempts)
  <2>1. ~ Holds(n, x)'
    BY <1>2, <1>5 DEF Pending
  <2>2. Untried(x)' \subseteq Untried(x) /\ Holders(x)' \subseteq Holders(x)
    BY <1>2, <2>1 DEF Untried, Holders
  <2> QED BY <1>1, <2>2, AttemptPaid
<1> QED BY <1>4, <1>5

(* A call goes on with the rows it has, and may mark its current row.       *)
LEMMA GoesAttempts ==
  ASSUME TypeInv, TypeInv', AttemptsInv, NEW n \in Notifiers,
         notifiers[n].phase \in Handling, notifiers'[n].phase \in Handling,
         notifiers'[n].rows = notifiers[n].rows,
         \A m \in Notifiers \ {n} : notifiers'[m] = notifiers[m],
         \/ /\ \A y \in Rows : outbox'[y].attempts = outbox[y].attempts
            /\ notifiers[n].phase \in {"marked", "failed"}
                 => notifiers'[n].phase \in {"marked", "failed"}
         \/ /\ \A y \in Rows \ {Current(n)} : outbox'[y].attempts = outbox[y].attempts
            /\ outbox'[Current(n)].attempts = outbox[Current(n)].attempts + 1
            /\ notifiers[n].rows # {}
            /\ notifiers[n].phase \notin {"marked", "failed"}
            /\ notifiers'[n].phase \in {"marked", "failed"}
  PROVE  AttemptsInv'
<1>1. /\ \A m \in Notifiers : Current(m)' = Current(m)
      /\ \A m \in Notifiers \ {n} : notifiers'[m].phase = notifiers[m].phase
      /\ \A m \in Notifiers : \A x : Holds(m, x)' <=> Holds(m, x)
  BY SameCurrent DEF Holds
<1>2. \A x \in Rows : Untried(x)' \subseteq Untried(x) /\ Holders(x)' \subseteq Holders(x)
  BY <1>1 DEF Untried, Holders
<1>3. CASE \A y \in Rows : outbox'[y].attempts = outbox[y].attempts
  BY <1>2, <1>3, AttemptPaid DEF AttemptsInv
<1>4. CASE /\ \A y \in Rows \ {Current(n)} : outbox'[y].attempts = outbox[y].attempts
           /\ outbox'[Current(n)].attempts = outbox[Current(n)].attempts + 1
           /\ notifiers[n].rows # {}
           /\ notifiers[n].phase \notin {"marked", "failed"}
           /\ notifiers'[n].phase \in {"marked", "failed"}
  <2>1. Holds(n, Current(n)) /\ Current(n) \in Rows
    BY <1>4, CurrentIn DEF TypeInv, Holds
  <2>2. n \in Untried(Current(n)) /\ n \notin Untried(Current(n))'
    BY <1>1, <1>4, <2>1 DEF Untried, Holders
  <2>3. SUFFICES ASSUME NEW x \in Rows
                 PROVE  Spent(x)' <= MaxAttempts - 1 + 2 * Cardinality(Notifiers)
    BY DEF AttemptsInv
  <2>4. CASE x = Current(n)
    <3>1. n \in Untried(x) /\ n \notin Untried(x)'
      BY <1>1, <1>4, <2>1, <2>4 DEF Untried, Holders
    <3> QED BY <1>2, <1>4, <2>4, <3>1, AttemptPaid
  <2>5. CASE x # Current(n)
    BY <1>2, <1>4, <2>5, AttemptPaid
  <2> QED BY <2>4, <2>5
<1> QED BY <1>3, <1>4

(* A call is through with its current row, and may mark it as failed.       *)
LEMMA PassAttempts ==
  ASSUME TypeInv, TypeInv', AttemptsInv, NEW n \in Notifiers, Passes(n),
         notifiers[n].phase \in {"marked", "failed"},
         \A y \in Rows \ {Current(n)} : outbox'[y].attempts = outbox[y].attempts,
         outbox'[Current(n)].attempts \in
           {outbox[Current(n)].attempts, outbox[Current(n)].attempts + 1}
  PROVE  AttemptsInv'
<1> DEFINE c == Current(n)
<1>1. notifiers[n].rows # {} /\ Holds(n, c) /\ c \in Rows
  BY HoldsCurrent DEF TypeInv, OutboxTypeOK, Handling
<1>2. /\ notifiers'[n].phase = "dispatch" /\ notifiers'[n].rows = notifiers[n].rows \ {c}
      /\ \A m \in Notifiers \ {n} : notifiers'[m] = notifiers[m]
  BY PassesTyped DEF TypeInv
<1>3. /\ \A m \in Notifiers \ {n} : Current(m)' = Current(m)
      /\ \A m \in Notifiers \ {n} : notifiers'[m].phase = notifiers[m].phase
      /\ \A m \in Notifiers \ {n} : \A y : Holds(m, y)' <=> Holds(m, y)
      /\ \A y : Holds(n, y)' => Holds(n, y) /\ y # c
  BY <1>1, <1>2, SameCurrent DEF Holds, Handling
<1>4. \A x \in Rows : Untried(x)' \subseteq Untried(x) /\ Holders(x)' \subseteq Holders(x)
  BY <1>3 DEF Untried, Holders
<1>5. SUFFICES ASSUME NEW x \in Rows
               PROVE  Spent(x)' <= MaxAttempts - 1 + 2 * Cardinality(Notifiers)
  BY DEF AttemptsInv
<1>6. CASE x # c
  BY <1>4, <1>6, AttemptPaid
<1>7. CASE x = c
  <2>1. n \in Holders(x) /\ n \notin Holders(x)'
    BY <1>1, <1>3, <1>7 DEF Holders
  <2> QED BY <1>4, <1>7, <2>1, AttemptPaid
<1> QED BY <1>6, <1>7

LEMMA CallStepAttempts ==
  ASSUME TypeInv, TypeInv', AttemptsInv, NEW n \in Notifiers,
         CallStep(n) \/ UpdateThrows(n) \/ CallFails(n)
  PROVE  AttemptsInv'
<1>1. CASE Materialize(n)
  <2>1. /\ notifiers'[n].phase = "materialize"
        /\ \A m \in Notifiers \ {n} : notifiers'[m] = notifiers[m] /\ outbox' = outbox
    BY <1>1 DEF Materialize, TypeInv, OutboxTypeOK
  <2>2. outbox' = outbox
    BY <1>1 DEF Materialize
  <2> QED BY <2>1, <2>2, LetGoAttempts DEF Handling
<1>2. CASE Enqueue(n)
  <2>1. /\ notifiers'[n].phase = notifiers[n].phase /\ notifiers[n].phase = "materialize"
        /\ \A m \in Notifiers \ {n} : notifiers'[m] = notifiers[m]
    BY <1>2 DEF Enqueue, TypeInv, OutboxTypeOK, Notifier
  <2>2. \A x \in Rows : outbox'[x].attempts = outbox[x].attempts
    BY <1>2 DEF Enqueue, Upserted, TypeInv, OutboxTypeOK, OutboxRow
  <2> QED BY <2>1, <2>2, LetGoAttempts DEF Handling
<1>3. CASE Send(n)
  <2>1. /\ notifiers[n].phase = "dispatch" /\ notifiers[n].rows # {} /\ outbox' = outbox
        /\ Goes(n, "accepted") \/ Goes(n, "failed")
    BY <1>3 DEF Send
  <2>2. /\ notifiers'[n].phase \in {"accepted", "failed"} /\ notifiers'[n].rows = notifiers[n].rows
        /\ \A m \in Notifiers \ {n} : notifiers'[m] = notifiers[m]
    BY <2>1, GoesTyped DEF TypeInv
  <2> QED BY <2>1, <2>2, GoesAttempts DEF Handling
<1>4. CASE MarkDispatched(n)
  <2>1. /\ notifiers[n].phase = "accepted" /\ notifiers[n].rows # {} /\ Goes(n, "marked")
    BY <1>4 DEF MarkDispatched, TypeInv, OutboxTypeOK
  <2>2. /\ notifiers'[n].phase = "marked" /\ notifiers'[n].rows = notifiers[n].rows
        /\ \A m \in Notifiers \ {n} : notifiers'[m] = notifiers[m]
    BY <2>1, GoesTyped DEF TypeInv
  <2>3. Current(n) \in Rows
    BY <2>1, CurrentIn DEF TypeInv
  <2>4. /\ \A y \in Rows \ {Current(n)} : outbox'[y].attempts = outbox[y].attempts
        /\ outbox'[Current(n)].attempts = outbox[Current(n)].attempts + 1
    BY <1>4, <2>3 DEF MarkDispatched, TypeInv, OutboxTypeOK
  <2> QED BY <2>1, <2>2, <2>4, GoesAttempts DEF Handling
<1>5. CASE MarkSourceDelivered(n)
  <2>1. Passes(n) /\ notifiers[n].phase = "marked" /\ outbox' = outbox
    BY <1>5 DEF MarkSourceDelivered
  <2> QED BY <2>1, PassAttempts
<1>6. CASE MarkFailed(n)
  <2>1. Passes(n) /\ notifiers[n].phase = "failed" /\ notifiers[n].rows # {}
    BY <1>6 DEF MarkFailed, TypeInv, OutboxTypeOK
  <2>2. Current(n) \in Rows
    BY <2>1, CurrentIn DEF TypeInv
  <2>3. /\ \A y \in Rows \ {Current(n)} : outbox'[y].attempts = outbox[y].attempts
        /\ outbox'[Current(n)].attempts = outbox[Current(n)].attempts + 1
    BY <1>6, <2>2 DEF MarkFailed, TypeInv, OutboxTypeOK
  <2> QED BY <2>1, <2>3, PassAttempts
<1>7. CASE EndCall(n) \/ CallFails(n)
  <2>1. /\ notifiers'[n].phase = "idle" /\ outbox' = outbox
        /\ \A m \in Notifiers \ {n} : notifiers'[m] = notifiers[m]
    BY <1>7 DEF EndCall, CallFails, Idle, TypeInv, OutboxTypeOK
  <2> QED BY <2>1, LetGoAttempts DEF Handling
<1>8. CASE UpdateThrows(n)
  <2>1. /\ notifiers[n].phase \in {"accepted", "marked"} /\ notifiers[n].rows # {}
        /\ outbox' = outbox /\ Goes(n, "failed")
    BY <1>8 DEF UpdateThrows, TypeInv, OutboxTypeOK
  <2>2. /\ notifiers'[n].phase = "failed" /\ notifiers'[n].rows = notifiers[n].rows
        /\ \A m \in Notifiers \ {n} : notifiers'[m] = notifiers[m]
    BY <2>1, GoesTyped DEF TypeInv
  <2> QED BY <2>1, <2>2, GoesAttempts DEF Handling
<1> QED BY <1>1, <1>2, <1>3, <1>4, <1>5, <1>6, <1>7, <1>8, ReadPendingAttempts DEF CallStep

LEMMA AttemptsInvNext == TypeInv /\ AttemptsInv /\ [OutboxNext]_outboxVars => AttemptsInv'
<1> SUFFICES ASSUME TypeInv, AttemptsInv, [OutboxNext]_outboxVars PROVE AttemptsInv'
  OBVIOUS
<1>1. TypeInv'
  BY TypeInvNext
<1>2. CASE UNCHANGED <<outbox, notifiers>>
  BY <1>2 DEF AttemptsInv, Spent, Untried, Holders, Holds, Current
<1>3. ASSUME NEW s \in Notices, NEW status, NEW at,
             UpdateNotice(s, status, at) \/ RemoveNotice(s)
      PROVE  AttemptsInv'
  BY <1>2, <1>3 DEF UpdateNotice, RemoveNotice
<1>4. CASE Tick \/ UNCHANGED outboxVars
  BY <1>2, <1>4 DEF Tick, outboxVars
<1> QED BY <1>1, <1>3, <1>4, CallStepAttempts DEF OutboxNext

LEMMA AttemptsInvInit == OutboxInit => AttemptsInv
<1> SUFFICES ASSUME OutboxInit, NEW x \in Rows
             PROVE  Spent(x) <= MaxAttempts - 1 + 2 * Cardinality(Notifiers)
  BY DEF AttemptsInv
<1>1. Holders(x) = {} /\ Untried(x) = {} /\ outbox[x].attempts = 0
  BY DEF OutboxInit, Idle, Holders, Untried, Holds, Handling
<1>2. Cardinality({}) = 0 /\ Cardinality(Notifiers) \in Nat /\ MaxAttempts \in Nat \ {0}
  BY NotificationOutboxAssumption, FS_EmptySet, PartOfCalls
<1>3. Spent(x) = 0
  BY <1>1, <1>2 DEF Spent
<1> QED BY <1>2, <1>3

(* However many calls overlap, a row that has been attempted MaxAttempts    *)
(* times is not read again, and the calls that had read it before add at    *)
(* most two attempts each.                                                  *)
THEOREM RowsAreGivenUp == OutboxSpec => []AttemptsBounded
<1>1. AttemptsInv /\ TypeInv => AttemptsBounded
  <2> SUFFICES ASSUME AttemptsInv, TypeInv, NEW x \in Rows
               PROVE  outbox[x].attempts <= MaxAttempts - 1 + 2 * Cardinality(Notifiers)
    BY DEF AttemptsBounded
  <2>1. outbox[x].attempts \in Nat /\ MaxAttempts \in Nat /\ Cardinality(Notifiers) \in Nat
    BY NotificationOutboxAssumption, PartOfCalls DEF TypeInv, OutboxTypeOK, OutboxRow
  <2>2. Cardinality(Untried(x)) \in Nat /\ Cardinality(Holders(x)) \in Nat
    BY PartOfCalls DEF Untried, Holders
  <2> QED BY <2>1, <2>2 DEF AttemptsInv, Spent
<1>2. TypeInv /\ AttemptsInv /\ [OutboxNext]_outboxVars => (TypeInv /\ AttemptsInv)'
  BY TypeInvNext, AttemptsInvNext
<1>3. OutboxInit => TypeInv /\ AttemptsInv
  BY TypeInvInit, AttemptsInvInit
<1> QED BY <1>1, <1>2, <1>3, PTL DEF OutboxSpec
===============================================================================
