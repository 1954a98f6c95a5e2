------------------------- MODULE SubscriptionBilling -------------------------
(***************************************************************************)
(* How Billing invoices a subscription, period after period.  A scheduler  *)
(* calls the sweep now and then; a sweep locks a due subscription, invoices *)
(* its current period and moves it to the next one in one Serializable     *)
(* transaction, and then applies the pauses, resumes and cancellations     *)
(* that are due.  A billing run per period, kept unique by a key, tells    *)
(* that the period is invoiced.  Users may bill by hand too, and pause,    *)
(* resume, cancel and keep the subscription: their requests check its      *)
(* status before their transaction, which is READ COMMITTED.  An invoice   *)
(* may be settled, that may be taken back, and it may be voided by hand.   *)
(*                                                                         *)
(* There is one subscription, because a sweep handles each in a            *)
(* transaction of its own.  Its prices, charges and discounts are left     *)
(* out: an invoice is one of a period.  A period starts at a time and is   *)
(* Cadence long (the calendar's arithmetic is left out).                   *)
(***************************************************************************)
EXTENDS Integers

CONSTANTS
  Billers,        \* calls of the sweep, or of billing by hand, that may overlap
  Clerks,         \* requests of users that may overlap
  Never,          \* no time; no row
  Cadence,        \* length of a period
  Lead,           \* advanceBillingDays
  CycleLimits,    \* numbers of periods a subscription may be made for; Never: no limit
  LastDay,        \* bound: the times 0..LastDay
  MaxClerkActs,   \* bound: requests by users
  MaxBillFaults   \* bound: failed transactions and crashes

ASSUME SubscriptionBillingAssumption ==
  /\ Never \notin Int
  /\ Cadence \in Nat \ {0} /\ Lead \in 1..Cadence
  /\ CycleLimits \subseteq Nat \cup {Never}
  /\ LastDay \in Nat /\ MaxClerkActs \in Nat /\ MaxBillFaults \in Nat

VARIABLES
  today,          \* the time
  terms,          \* billingTiming, and whether invoices are issued in advance
  subscription,   \* the subscription's row
  schedules,      \* the lifecycle schedules whose status is SCHEDULED
  billingRuns,    \* billingRuns[p]: the run of the period that starts at p
  issued,         \* issued[p]: number of invoices made for that period
  voided,         \* the invoices <<p, n>>, n-th of period p, whose status is VOID
  settled,        \* the invoices with live allocations of payments or credits
  billers,        \* billers[b]: how far call b has come
  clerks,         \* clerks[c]: how far request c has come
  voidedLate,     \* history: periods whose invoice a request voided after they had passed
  byHand,         \* history: invoices that were voided by hand
  reopened,       \* history: void invoices that the reversal of a payment reopened
  clerkActs,      \* number of requests
  billFaults      \* number of faults

billingVars == <<today, terms, subscription, schedules, billingRuns, issued, voided, settled,
                 billers, clerks, voidedLate, byHand, reopened, clerkActs, billFaults>>

Days   == 0..LastDay
Starts == 0..(LastDay + 2 * Cadence)
TimeOrNever  == Starts \cup {Never}

Over  == {"CANCELED", "ENDED"}
Alive == {"TRIALING", "ACTIVE"}

Subscription ==
  [status : Over \cup Alive \cup {"PAUSED"},
   anchor : Starts, completed : Nat,   \* billingCycleAnchor and the periods since
   from : Starts,                      \* currentPeriodStart
   serviceFrom : TimeOrNever, serviceTo : TimeOrNever,
   nextBillingAt : TimeOrNever, nextAdvanceAt : TimeOrNever,
   remaining : Nat \cup {Never}, cancelAtEnd : BOOLEAN]

Schedule == [action : {"PAUSE", "RESUME", "CANCEL"}, at : Days, resumeAt : Days \cup {Never},
             fresh : BOOLEAN]          \* START_NEW_PERIOD

(* status FAILED or SUCCEEDED; PROCESSING is never committed.              *)
BillingRun == [status : {"FAILED", "SUCCEEDED"}, advance : BOOLEAN, passed : BOOLEAN]

ASSUME NeverIsNoRun == Never \notin BillingRun

Biller == [phase : {"idle", "claiming", "billing", "failing", "recording", "draining", "picked"},
           manual : BOOLEAN, asOf : Days, advance : BOOLEAN,
           sub : Subscription \cup {Never},      \* the row as the transaction has it
           seen : SUBSET Schedule, plan : SUBSET Schedule, todo : SUBSET Schedule,
           runs : [Starts -> BillingRun \cup {Never}] \cup {Never},
           period : TimeOrNever,                       \* whose failure is recorded
           row : Schedule \cup {Never},
           status : Over \cup Alive \cup {"PAUSED", "unread"}]

Resting == [phase |-> "idle", manual |-> FALSE, asOf |-> 0, advance |-> FALSE, sub |-> Never,
            seen |-> {}, plan |-> {}, todo |-> {}, runs |-> Never, period |-> Never,
            row |-> Never, status |-> "unread"]

(* What reactivate asks for *)
Keep == [action |-> "KEEP", at |-> 0, resumeAt |-> Never, fresh |-> FALSE]

Clerk == [phase : {"idle", "checked", "found"}, wants : Schedule \cup {Keep, Never}, now : Days,
          status : Over \cup Alive \cup {"PAUSED", "unread"},   \* that was checked
          found : SUBSET (Starts \X Nat)]        \* the invoices to be voided

Away == [phase |-> "idle", wants |-> Never, now |-> 0, status |-> "unread", found |-> {}]

Documents == Starts \X Nat

Succeeded(run) == run # Never /\ run.status = "SUCCEEDED"

BillingTypeOK ==
  /\ today \in Days
  /\ terms \in [inAdvance : BOOLEAN, early : BOOLEAN]
  /\ subscription \in Subscription
  /\ schedules \subseteq Schedule
  /\ billingRuns \in [Starts -> BillingRun \cup {Never}]
  /\ issued \in [Starts -> Nat]
  /\ voided \subseteq Documents /\ settled \subseteq Documents
  /\ byHand \subseteq Documents /\ reopened \subseteq Documents
  /\ voidedLate \subseteq Starts
  /\ \A b \in Billers : billers[b] \in Biller
  /\ \A c \in Clerks : clerks[c] \in Clerk
  /\ clerkActs \in 0..MaxClerkActs /\ billFaults \in 0..MaxBillFaults

-----------------------------------------------------------------------------
(* What happens to the subscription's row *)

Later(t, u) == IF t > u THEN t ELSE u

DueAt(start) == IF terms.inAdvance THEN start ELSE start + Cadence

(* Mutant: the date may lie before the start.                              *)
InvoiceEarlyUnclamped(now, due) ==
  IF terms.early /\ due # Never THEN due - Lead ELSE Never

InvoiceEarlyAt(now, due) ==
  IF terms.early /\ due # Never THEN Later(now, due - Lead) ELSE Never

(* create, of a subscription that is invoiced from the time start          *)
Created(status, start, cycles) ==
  [status |-> status, anchor |-> start, completed |-> 0, from |-> start,
   serviceFrom |-> 0, serviceTo |-> IF status = "TRIALING" THEN start ELSE start + Cadence,
   nextBillingAt |-> DueAt(start), nextAdvanceAt |-> InvoiceEarlyAt(0, DueAt(start)),
   remaining |-> cycles, cancelAtEnd |-> FALSE]

(* advanceSubscriptionPeriod *)
Advanced(s, now) ==
  LET cycles    == IF s.remaining = Never THEN Never ELSE Later(s.remaining - 1, 0)
      ended     == cycles = 0
      next      == s.from + Cadence
      due       == IF ended THEN Never ELSE DueAt(next)
      served    == IF terms.inAdvance \/ ended THEN s.from ELSE next
  IN
  [s EXCEPT !.status = IF ended THEN "ENDED" ELSE "ACTIVE",
            !.from = IF ended THEN @ ELSE s.anchor + Cadence * (s.completed + 1),
            !.serviceFrom = served, !.serviceTo = served + Cadence,
            !.nextBillingAt = due, !.nextAdvanceAt = InvoiceEarlyAt(now, due),
            !.completed = @ + 1, !.remaining = cycles]

(* applyPause *)
Paused(s) ==
  [s EXCEPT !.status = "PAUSED", !.nextBillingAt = Never, !.nextAdvanceAt = Never]

(* applyResume *)
Resumed(s, at, fresh, now) ==
  LET serviceEnd == IF s.serviceTo = Never THEN s.from + Cadence ELSE s.serviceTo
      continues  == ~ fresh /\ at < serviceEnd
      start      == IF continues THEN s.from ELSE at
      serviced   == IF s.serviceFrom = Never THEN s.from ELSE s.serviceFrom
  IN
  [s EXCEPT !.status = "ACTIVE",
            !.serviceFrom = IF continues THEN serviced ELSE at,
            !.serviceTo = IF continues THEN serviceEnd ELSE at + Cadence,
            !.nextBillingAt = DueAt(start), !.nextAdvanceAt = InvoiceEarlyAt(now, DueAt(start)),
            !.from = start,
            !.anchor = IF continues THEN @ ELSE at,
            !.completed = IF continues THEN @ ELSE 0]

(* applyCancel *)
Canceled(s, at) ==
  LET started == s.serviceFrom # Never /\ s.serviceFrom <= at IN
  [s EXCEPT !.status = "CANCELED", !.cancelAtEnd = FALSE,
            !.nextBillingAt = Never, !.nextAdvanceAt = Never,
            !.serviceFrom = IF started THEN @ ELSE Never,
            !.serviceTo = IF started THEN at ELSE Never]

-----------------------------------------------------------------------------
(* applyDueLifecycleSchedule *)

(* A cancellation in arrears waits for the invoice of the final period.    *)
AwaitsBilling(s, r) ==
  /\ r.action = "CANCEL" /\ ~ terms.inAdvance /\ s.status \in Alive
  /\ s.nextBillingAt # Never /\ s.nextBillingAt <= r.at

CanApply(status, r) ==
  \/ r.action = "PAUSE"  /\ status = "ACTIVE"
  \/ r.action = "RESUME" /\ status = "PAUSED"
  \/ r.action = "CANCEL" /\ status \notin Over

Effected(s, r, now) ==
  CASE r.action = "PAUSE"  -> Paused(s)
    [] r.action = "RESUME" -> Resumed(s, r.at, r.fresh, now)
    [] r.action = "CANCEL" -> Canceled(s, r.at)

(* The resume that a pause schedules when it is applied *)
ResumeAfter(r) ==
  IF r.action = "PAUSE" /\ r.resumeAt # Never
  THEN {[action |-> "RESUME", at |-> r.resumeAt, resumeAt |-> Never, fresh |-> r.fresh]}
  ELSE {}

Earliest(r, R) == r \in R /\ \A q \in R : r.at <= q.at

-----------------------------------------------------------------------------
(* The sweep *)

BillingInit ==
  /\ today = 0
  /\ terms \in [inAdvance : BOOLEAN, early : BOOLEAN]
  /\ \E cycles \in CycleLimits :
       subscription \in {Created("ACTIVE", 0, cycles), Created("TRIALING", 1, cycles)}
  /\ schedules = {}
  /\ billingRuns = [p \in Starts |-> Never]
  /\ issued = [p \in Starts |-> 0] /\ voided = {} /\ settled = {}
  /\ voidedLate = {} /\ byHand = {} /\ reopened = {}
  /\ billers = [b \in Billers |-> Resting] /\ clerks = [c \in Clerks |-> Away]
  /\ clerkActs = 0 /\ billFaults = 0

Locked == \E b \in Billers : billers[b].phase = "billing"
Picked == {billers[b].row : b \in {d \in Billers : billers[d].phase = "picked"}}

BeginSweep(b) ==
  /\ billers[b].phase = "idle"
  /\ billers' = [billers EXCEPT ![b].phase = "claiming", ![b].asOf = today]
  /\ UNCHANGED <<today, terms, subscription, schedules, billingRuns, issued, voided, settled,
                 clerks, voidedLate, byHand, reopened, clerkActs, billFaults>>

(* Mutant: trials are not looked for. *)
DueUnlessTrialing(s, now) ==
  /\ s.status = "ACTIVE" /\ s.nextBillingAt # Never
  /\ \/ s.nextBillingAt <= now
     \/ /\ terms.early /\ s.nextAdvanceAt # Never /\ s.nextAdvanceAt <= now
        /\ s.nextBillingAt > now /\ ~ s.cancelAtEnd

(* What the sweep looks for: a due period, or one to invoice in advance    *)
Due(s, now) ==
  /\ s.status \in Alive /\ s.nextBillingAt # Never
  /\ \/ s.nextBillingAt <= now
     \/ /\ terms.early /\ s.nextAdvanceAt # Never /\ s.nextAdvanceAt <= now
        /\ s.nextBillingAt > now /\ ~ s.cancelAtEnd

(* The schedules that are applied before the period is billed *)
BeforeBilling(now) ==
  {r \in schedules : /\ r.at <= now
                     /\ \/ r.action # "CANCEL" \/ terms.inAdvance
                        \/ /\ subscription.nextBillingAt # Never
                           /\ r.at < subscription.nextBillingAt}

Takes(b, manual, now, advance) ==
  billers' = [billers EXCEPT ![b] =
    [Resting EXCEPT !.phase = "billing", !.manual = manual, !.asOf = now, !.advance = advance,
                    !.sub = subscription, !.seen = schedules, !.plan = schedules,
                    !.todo = BeforeBilling(now), !.runs = billingRuns]]

ClaimDue(b) ==
  LET now == billers[b].asOf IN
  /\ billers[b].phase = "claiming"
  /\ ~ Locked /\ Due(subscription, now)
  /\ Takes(b, FALSE, now, subscription.nextBillingAt > now)
  /\ UNCHANGED <<today, terms, subscription, schedules, billingRuns, issued, voided, settled,
                 clerks, voidedLate, byHand, reopened, clerkActs, billFaults>>

(* SKIP LOCKED: a subscription that another call has locked is left alone. *)
ClaimNothing(b) ==
  /\ billers[b].phase = "claiming"
  /\ Locked \/ ~ Due(subscription, billers[b].asOf)
  /\ billers' = [billers EXCEPT ![b].phase = "draining"]
  /\ UNCHANGED <<today, terms, subscription, schedules, billingRuns, issued, voided, settled,
                 clerks, voidedLate, byHand, reopened, clerkActs, billFaults>>

(* Billing by hand waits for the lock, and may bill before the time to.    *)
BillNow(b, advance) ==
  /\ billers[b].phase = "idle" /\ ~ Locked
  /\ clerkActs < MaxClerkActs /\ clerkActs' = clerkActs + 1
  /\ Takes(b, TRUE, today, advance)
  /\ UNCHANGED <<today, terms, subscription, schedules, billingRuns, issued, voided, settled,
                 clerks, voidedLate, byHand, reopened, billFaults>>

-----------------------------------------------------------------------------
(* billSubscription, between its lock and its commit *)

ApplyBeforeBilling(b) ==
  LET w == billers[b] IN
  /\ w.phase = "billing"
  /\ \E r \in w.todo :
       /\ Earliest(r, w.todo)
       /\ billers' = [billers EXCEPT
            ![b].todo = @ \ {r},
            ![b].plan = IF AwaitsBilling(w.sub, r) THEN @
                        ELSE (@ \ {r}) \cup (IF CanApply(w.sub.status, r) THEN ResumeAfter(r)
                                             ELSE {}),
            ![b].sub = IF ~ AwaitsBilling(w.sub, r) /\ CanApply(w.sub.status, r)
                       THEN Effected(@, r, w.asOf) ELSE @]
  /\ UNCHANGED <<today, terms, subscription, schedules, billingRuns, issued, voided, settled,
                 clerks, voidedLate, byHand, reopened, clerkActs, billFaults>>

Cancellations(w) == {r \in w.plan : r.action = "CANCEL" /\ r.at <= w.sub.nextBillingAt}

(* What the early returns let pass: a period that is due, or one to be     *)
(* invoiced in advance, that no cancellation takes away                    *)
Billable(w) ==
  /\ w.sub.status \in Alive /\ w.sub.nextBillingAt # Never
  /\ ~ (terms.inAdvance /\ Cancellations(w) # {})
  /\ IF w.advance
     THEN /\ w.sub.status = "ACTIVE"
          /\ w.sub.nextBillingAt > w.asOf
          /\ w.manual \/ (w.sub.nextAdvanceAt # Never /\ w.sub.nextAdvanceAt <= w.asOf)
     ELSE w.sub.nextBillingAt <= w.asOf

(* Mutant: a run that succeeded is not looked at. *)
NeverInvoiced(w) == FALSE

Invoiced(w) == Succeeded(w.runs[w.sub.from])

(* In arrears, the period of these is the last: they are applied with its  *)
(* invoice, and not before.                                                *)
Final(w) == IF terms.inAdvance THEN {} ELSE Cancellations(w)

(* Rows that the transaction updates, but another has updated since its    *)
(* snapshot or has locked: it cannot be serialized.                        *)
Conflict(w) ==
  \/ ~ (w.seen \ w.plan \subseteq schedules \ Picked)
  \/ Billable(w) /\ ~ (Final(w) \subseteq schedules \ Picked)
  \/ w.runs # billingRuns

AfterBilling(w) == IF w.manual THEN Resting
           ELSE [Resting EXCEPT !.phase = "draining", !.asOf = w.asOf]

(* What the transaction did to schedules, and the row as it leaves it      *)
Commits(b, sub, applied) ==
  LET w == billers[b] IN
  /\ w.phase = "billing" /\ w.todo = {} /\ ~ Conflict(w)
  /\ subscription' = sub
  /\ schedules' = (schedules \ ((w.seen \ w.plan) \cup applied)) \cup (w.plan \ w.seen)
  /\ billers' = [billers EXCEPT ![b] = AfterBilling(w)]
  /\ UNCHANGED <<today, terms, voided, settled, clerks, voidedLate, byHand, reopened,
                 clerkActs, billFaults>>

SkipBilling(b) ==
  LET w == billers[b] IN
  /\ w.phase = "billing"
  /\ \/ ~ Billable(w)
     \/ Invoiced(w) /\ (w.advance \/ w.runs[w.sub.from].passed)
  /\ Commits(b, w.sub, {})
  /\ UNCHANGED <<billingRuns, issued>>

(* The period was invoiced in advance: it only passes.                     *)
PassPeriod(b) ==
  LET w == billers[b] IN
  /\ w.phase = "billing"
  /\ Billable(w) /\ Invoiced(w) /\ ~ w.advance /\ ~ w.runs[w.sub.from].passed
  /\ Commits(b, Advanced(w.sub, w.asOf), {})
  /\ billingRuns' = [billingRuns EXCEPT ![w.sub.from].passed = TRUE]
  /\ UNCHANGED issued

(* Mutant: a run that failed before is closed without an invoice.          *)
InvoiceUnlessTried(w) ==
  IF w.runs[w.sub.from] = Never THEN [issued EXCEPT ![w.sub.from] = @ + 1] ELSE issued

InvoiceMade(w) == [issued EXCEPT ![w.sub.from] = @ + 1]

(* A run that failed before keeps its isAdvanceBilling.                    *)
RunOf(w) ==
  [status |-> "SUCCEEDED", passed |-> ~ w.advance,
   advance |-> IF w.runs[w.sub.from] = Never THEN w.advance ELSE w.runs[w.sub.from].advance]

InvoicePeriod(b) ==
  LET w == billers[b] IN
  /\ w.phase = "billing"
  /\ Billable(w) /\ ~ Invoiced(w)
  /\ \/ w.advance /\ Commits(b, [w.sub EXCEPT !.nextAdvanceAt = Never], {})
     \/ /\ ~ w.advance
        /\ \E r \in Final(w) : /\ Earliest(r, Final(w))
                               /\ Commits(b, Canceled(w.sub, r.at), {r})
     \/ ~ w.advance /\ Final(w) = {} /\ Commits(b, Advanced(w.sub, w.asOf), {})
  /\ billingRuns' = [billingRuns EXCEPT ![w.sub.from] = RunOf(w)]
  /\ issued' = InvoiceMade(w)

-----------------------------------------------------------------------------
(* recordBillingFailure *)

Fault == billFaults < MaxBillFaults /\ billFaults' = billFaults + 1

Fails(b) ==
  /\ billers[b].phase = "billing"
  /\ billers' = [billers EXCEPT ![b] =
       [Resting EXCEPT !.phase = "failing", !.manual = billers[b].manual,
                       !.asOf = billers[b].asOf]]
  /\ UNCHANGED <<today, terms, subscription, schedules, billingRuns, issued, voided, settled,
                 clerks, voidedLate, byHand, reopened, clerkActs>>

CannotSerialize(b) == Fails(b) /\ Conflict(billers[b]) /\ UNCHANGED billFaults

BillingFails(b) == Fails(b) /\ Fault

(* The period that is current now, which need not be the one that failed   *)
ReadFailedPeriod(b) ==
  /\ billers[b].phase = "failing"
  /\ billers' = [billers EXCEPT ![b] =
       IF subscription.nextBillingAt = Never THEN AfterBilling(@)
       ELSE [@ EXCEPT !.phase = "recording", !.period = subscription.from]]
  /\ UNCHANGED <<today, terms, subscription, schedules, billingRuns, issued, voided, settled,
                 clerks, voidedLate, byHand, reopened, clerkActs, billFaults>>

FailedRun(run) ==
  IF run = Never THEN [status |-> "FAILED", advance |-> FALSE, passed |-> FALSE] ELSE run

(* A new run refers to the subscription, so its row must not be locked.    *)
RecordFailure(b) ==
  LET p == billers[b].period IN
  /\ billers[b].phase = "recording"
  /\ billingRuns[p] = Never => ~ Locked
  /\ billingRuns' = [billingRuns EXCEPT ![p] = FailedRun(@)]
  /\ billers' = [billers EXCEPT ![b] = AfterBilling(@)]
  /\ UNCHANGED <<today, terms, subscription, schedules, issued, voided, settled,
                 clerks, voidedLate, byHand, reopened, clerkActs, billFaults>>

-----------------------------------------------------------------------------
(* processDueLifecycleSchedulesAcrossTenants *)

Drainable(b) ==
  {r \in schedules \ Picked : r.at <= billers[b].asOf /\ ~ AwaitsBilling(subscription, r)}

PickSchedule(b) ==
  /\ billers[b].phase = "draining"
  /\ \E r \in Drainable(b) :
       /\ Earliest(r, Drainable(b))
       /\ billers' = [billers EXCEPT ![b].phase = "picked", ![b].row = r,
                                     ![b].status = subscription.status]
  /\ UNCHANGED <<today, terms, subscription, schedules, billingRuns, issued, voided, settled,
                 clerks, voidedLate, byHand, reopened, clerkActs, billFaults>>

(* The status was read when the schedule was picked. *)
ApplyPicked(b) ==
  LET w == billers[b] IN
  /\ w.phase = "picked"
  /\ schedules' = (schedules \ {w.row}) \cup (IF CanApply(w.status, w.row)
                                              THEN ResumeAfter(w.row) ELSE {})
  /\ IF CanApply(w.status, w.row)
     THEN ~ Locked /\ subscription' = Effected(subscription, w.row, w.asOf)
     ELSE UNCHANGED subscription
  /\ billers' = [billers EXCEPT ![b] = AfterBilling(w)]
  /\ UNCHANGED <<today, terms, billingRuns, issued, voided, settled,
                 clerks, voidedLate, byHand, reopened, clerkActs, billFaults>>

(* Its status becomes FAILED, and nobody tries it again.                   *)
PickedFails(b) ==
  /\ billers[b].phase = "picked"
  /\ Fault
  /\ schedules' = schedules \ {billers[b].row}
  /\ billers' = [billers EXCEPT ![b] = AfterBilling(@)]
  /\ UNCHANGED <<today, terms, subscription, billingRuns, issued, voided, settled,
                 clerks, voidedLate, byHand, reopened, clerkActs>>

EndSweep(b) ==
  /\ billers[b].phase = "draining" /\ Drainable(b) = {}
  /\ billers' = [billers EXCEPT ![b] = Resting]
  /\ UNCHANGED <<today, terms, subscription, schedules, billingRuns, issued, voided, settled,
                 clerks, voidedLate, byHand, reopened, clerkActs, billFaults>>

(* The process dies: an open transaction is rolled back.                   *)
SweepDies(b) ==
  /\ billers[b].phase # "idle"
  /\ Fault
  /\ billers' = [billers EXCEPT ![b] = Resting]
  /\ UNCHANGED <<today, terms, subscription, schedules, billingRuns, issued, voided, settled,
                 clerks, voidedLate, byHand, reopened, clerkActs>>

-----------------------------------------------------------------------------
(* Requests of users *)

(* Mutant: the subscription's status is not checked.                       *)
AsksAnyhow(action, at) == clerkActs < MaxClerkActs /\ at >= today

(* What is checked before the transaction                                  *)
Asks(action, at) ==
  /\ clerkActs < MaxClerkActs
  /\ at >= today
  /\ CanApply(subscription.status, [action |-> action])

(* pause, resume and cancel: at once, at the end of the term, at a date    *)
Ask(c, r) ==
  /\ clerks[c].phase = "idle" /\ Asks(r.action, r.at)
  /\ r.resumeAt # Never => r.action = "PAUSE" /\ r.resumeAt > r.at
  /\ r.fresh => r.action = "RESUME" \/ r.resumeAt # Never
  /\ clerkActs' = clerkActs + 1
  /\ clerks' = [clerks EXCEPT ![c] = [Away EXCEPT !.phase = "checked", !.wants = r, !.now = today,
                                                  !.status = subscription.status]]
  /\ UNCHANGED <<today, terms, subscription, schedules, billingRuns, issued, voided, settled,
                 billers, voidedLate, byHand, reopened, billFaults>>

Ahead(p) ==
  billingRuns[p] = [status |-> "SUCCEEDED", advance |-> TRUE, passed |-> FALSE]

(* invalidateAdvanceInvoices reads the runs, and refuses if an invoice was *)
(* settled.  It does not look at the invoice's status.                     *)
ReadAdvanceInvoices(c) ==
  LET found == {<<p, issued[p]>> : p \in {q \in Starts : Ahead(q)}} IN
  /\ clerks[c].phase = "checked" /\ clerks[c].wants.action \in {"PAUSE", "CANCEL"}
  /\ clerks' = [clerks EXCEPT ![c] =
       IF found \cap settled # {} THEN Away
       ELSE [@ EXCEPT !.phase = "found", !.found = found]]
  /\ UNCHANGED <<today, terms, subscription, schedules, billingRuns, issued, voided, settled,
                 billers, voidedLate, byHand, reopened, clerkActs, billFaults>>

(* restoreAdvanceInvoiceSchedules *)
AheadAgain(s, now) ==
  [s EXCEPT !.nextAdvanceAt =
     IF s.status = "ACTIVE" /\ s.nextBillingAt # Never /\ s.nextBillingAt > now
     THEN InvoiceEarlyAt(now, s.nextBillingAt) ELSE Never]

(* The runs that were found are deleted by their ids: the request fails    *)
(* when one is gone.                                                       *)
StillThere(found) ==
  \A x \in found : Succeeded(billingRuns[x[1]]) /\ issued[x[1]] = x[2]

(* The invoices that a request found are voided and their runs deleted,    *)
(* with whatever was applied to them since.                                *)
InvalidatesAdvance(found) ==
  LET periods == {x[1] : x \in found} IN
  /\ voided' = voided \cup found
  /\ billingRuns' = [p \in Starts |-> IF p \in periods THEN Never ELSE billingRuns[p]]
  /\ voidedLate' = voidedLate \cup {p \in periods : billingRuns[p].passed}

(* The request's schedule, and those it replaces.  One that a sweep has    *)
(* picked is waited for.                                                   *)
Replaced(r) == {q \in schedules : q.action = r.action /\ r.action # "PAUSE"}

Reschedules(r, now) ==
  /\ Replaced(r) \cap Picked = {}
  /\ schedules' = (schedules \ Replaced(r)) \cup (IF r.at <= now THEN ResumeAfter(r) ELSE {r})

(* Its rows refer to the subscription, so that must not be locked.         *)
PauseOrCancel(c) ==
  LET q    == clerks[c]
      r    == q.wants
      base == IF q.found = {} THEN subscription ELSE AheadAgain(subscription, q.now)
  IN
  /\ q.phase = "found" /\ ~ Locked
  /\ StillThere(q.found)
  /\ InvalidatesAdvance(q.found)
  /\ Reschedules(r, q.now)
  /\ subscription' = IF r.at <= q.now THEN Effected(base, r, q.now)
                     ELSE IF r.action = "CANCEL" THEN [base EXCEPT !.cancelAtEnd = TRUE]
                     ELSE base
  /\ clerks' = [clerks EXCEPT ![c] = Away]
  /\ UNCHANGED <<today, terms, issued, settled, billers, byHand, reopened, clerkActs,
                 billFaults>>

RequestFails(c) ==
  /\ clerks[c].phase = "found" /\ ~ StillThere(clerks[c].found)
  /\ clerks' = [clerks EXCEPT ![c] = Away]
  /\ UNCHANGED <<today, terms, subscription, schedules, billingRuns, issued, voided, settled,
                 billers, voidedLate, byHand, reopened, clerkActs, billFaults>>

Resume(c) ==
  LET q == clerks[c]
      r == q.wants
  IN
  /\ q.phase = "checked" /\ r.action = "RESUME" /\ ~ Locked
  /\ Reschedules(r, q.now)
  /\ subscription' = IF r.at <= q.now THEN Effected(subscription, r, q.now) ELSE subscription
  /\ clerks' = [clerks EXCEPT ![c] = Away]
  /\ UNCHANGED <<today, terms, billingRuns, issued, voided, settled, billers,
                 voidedLate, byHand, reopened, clerkActs, billFaults>>

(* reactivate, of a subscription whose cancellation is still to come.      *)
(* (One that is over is replaced by another subscription.)                 *)
AskToKeep(c) ==
  /\ clerks[c].phase = "idle" /\ clerkActs < MaxClerkActs
  /\ subscription.cancelAtEnd /\ subscription.status # "CANCELED"
  /\ clerkActs' = clerkActs + 1
  /\ clerks' = [clerks EXCEPT ![c] = [Away EXCEPT !.phase = "checked", !.wants = Keep, !.now = today,
                                                  !.status = subscription.status]]
  /\ UNCHANGED <<today, terms, subscription, schedules, billingRuns, issued, voided, settled,
                 billers, voidedLate, byHand, reopened, billFaults>>

KeepSubscription(c) ==
  /\ clerks[c].phase = "checked" /\ clerks[c].wants = Keep
  /\ ~ Locked /\ ~ \E r \in Picked : r.action = "CANCEL"
  /\ subscription' = [subscription EXCEPT !.cancelAtEnd = FALSE]
  /\ schedules' = {r \in schedules : r.action # "CANCEL"}
  /\ clerks' = [clerks EXCEPT ![c] = Away]
  /\ UNCHANGED <<today, terms, billingRuns, issued, voided, settled, billers,
                 voidedLate, byHand, reopened, clerkActs, billFaults>>

-----------------------------------------------------------------------------
(* What users do to the invoices; the amounts are Settlement's *)

(* A payment or a credit note is applied to an invoice.                    *)
Settle(p, n) ==
  /\ n \in 1..issued[p] /\ <<p, n>> \notin voided
  /\ settled' = settled \cup {<<p, n>>}
  /\ UNCHANGED <<today, terms, subscription, schedules, billingRuns, issued, voided, billers,
                 clerks, voidedLate, byHand, reopened, clerkActs, billFaults>>

(* One is taken back, which need not be the last.  The invoice gets the    *)
(* status it had before, also if it was voided in the meantime.            *)
Unsettle(p, n) ==
  /\ <<p, n>> \in settled
  /\ settled' \in {settled, settled \ {<<p, n>>}}
  /\ voided' = voided \ {<<p, n>>}
  /\ reopened' = IF <<p, n>> \in voided THEN reopened \cup {<<p, n>>} ELSE reopened
  /\ UNCHANGED <<today, terms, subscription, schedules, billingRuns, issued, billers, clerks,
                 voidedLate, byHand, clerkActs, billFaults>>

(* voidInvoiceWorkflow.  The run of the invoice's period stays SUCCEEDED.  *)
VoidByHand(p, n) ==
  /\ n \in 1..issued[p] /\ <<p, n>> \notin voided \cup settled
  /\ voided' = voided \cup {<<p, n>>}
  /\ byHand' = byHand \cup {<<p, n>>}
  /\ reopened' = reopened \ {<<p, n>>}
  /\ UNCHANGED <<today, terms, subscription, schedules, billingRuns, issued, settled, billers,
                 clerks, voidedLate, clerkActs, billFaults>>

PassDay ==
  /\ today < LastDay
  /\ today' = today + 1
  /\ UNCHANGED <<terms, subscription, schedules, billingRuns, issued, voided, settled, billers,
                 clerks, voidedLate, byHand, reopened, clerkActs, billFaults>>

-----------------------------------------------------------------------------
SweepStep(b) ==
  \/ BeginSweep(b) \/ ClaimDue(b) \/ ClaimNothing(b)
  \/ ApplyBeforeBilling(b) \/ SkipBilling(b) \/ PassPeriod(b) \/ InvoicePeriod(b)
  \/ CannotSerialize(b) \/ ReadFailedPeriod(b) \/ RecordFailure(b)
  \/ PickSchedule(b) \/ ApplyPicked(b) \/ EndSweep(b)

ClerkStep(c) ==
  \/ \E r \in Schedule : Ask(c, r)
  \/ ReadAdvanceInvoices(c) \/ PauseOrCancel(c) \/ RequestFails(c) \/ Resume(c)
  \/ AskToKeep(c) \/ KeepSubscription(c)

BillingNext ==
  \/ \E b \in Billers : \/ SweepStep(b) \/ BillingFails(b) \/ PickedFails(b) \/ SweepDies(b)
                        \/ \E advance \in BOOLEAN : BillNow(b, advance)
  \/ \E c \in Clerks : ClerkStep(c)
  \/ \E p \in Starts : \E n \in 1..issued[p] :
       Settle(p, n) \/ Unsettle(p, n) \/ VoidByHand(p, n)
  \/ PassDay

(* The scheduler keeps calling, and a call goes on until it ends.          *)
BillingFairness == \A b \in Billers : WF_billingVars(SweepStep(b))

BillingSpec == BillingInit /\ [][BillingNext]_billingVars /\ BillingFairness

-----------------------------------------------------------------------------
(* Properties *)

(* A period has at most one invoice that is not void: the last one, and    *)
(* that exactly when the period's run succeeded, whatever sweeps overlap,  *)
(* fail or die, and however often a period is invoiced in advance, voided  *)
(* and invoiced again.  There are two exceptions.  An invoice voided by    *)
(* hand leaves the run as it was, so that the period has none; and the     *)
(* reversal of a payment reopens an invoice that a request voided without  *)
(* seeing the payment, so that it stands beside the period's next one.     *)
OneInvoicePerPeriod ==
  \A p \in Starts :
    /\ Succeeded(billingRuns[p]) => issued[p] > 0
    /\ \A n \in 1..issued[p] :
         <<p, n>> \notin voided
           <=> \/ n = issued[p] /\ Succeeded(billingRuns[p]) /\ <<p, n>> \notin byHand
               \/ <<p, n>> \in reopened

(* No period is skipped: each one since the billing anchor that has passed *)
(* was invoiced, and every later step leaves it invoiced.  Excepted are    *)
(* those whose run a request deleted, which had found it still ahead; and  *)
(* what was voided by hand is not invoiced again, be it that the period    *)
(* had passed or that it passes on the strength of the void invoice.       *)
PassedPeriodsAreInvoiced ==
  \A n \in 0..(subscription.completed - 1) :
    LET p == subscription.anchor + n * Cadence
        invoice == <<p, issued[p]>>
    IN
    p < subscription.from \/ (p = subscription.from /\ subscription.status = "ENDED")
      => \/ p \in voidedLate
         \/ /\ billingRuns[p] # Never /\ billingRuns[p].passed /\ issued[p] > 0
            /\ invoice \notin voided \/ invoice \in byHand

(* Somebody who had read the subscription before it was over               *)
ReadItAlive ==
  \/ \E c \in Clerks : clerks[c].phase # "idle" /\ clerks[c].status \notin Over
                       /\ clerks'[c] = Away
  \/ \E b \in Billers : billers[b].phase = "picked" /\ billers[b].status \notin Over
                        /\ billers'[b].phase # "picked"

(* A subscription that is over is not invoiced any more, and it stays over *)
(* unless a request or a schedule, which had checked its status before,    *)
(* pauses or resumes it.                                                   *)
OverIsFinal ==
  [][ subscription.status \in Over =>
        /\ issued' = issued
        /\ subscription'.status = subscription.status \/ ReadItAlive ]_billingVars

(* A period that is due and was not invoiced when it was due               *)
Overdue ==
  /\ subscription.status \in Alive
  /\ subscription.nextBillingAt # Never /\ subscription.nextBillingAt <= today
  /\ billingRuns[subscription.from] # Never => ~ billingRuns[subscription.from].passed

(* Billing catches up with the calendar: however many periods are due, and *)
(* whichever sweeps failed or died, a time comes when none is, be it that  *)
(* all were invoiced or that the subscription was paused or canceled.      *)
BillingCatchesUp == Overdue ~> ~ Overdue
=============================================================================
