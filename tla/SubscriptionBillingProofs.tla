---------------------- MODULE SubscriptionBillingProofs ----------------------
(***************************************************************************)
(* For any number of sweeps and requests that overlap, fail and die, any   *)
(* length of a period and any notice: no period has two invoices, a        *)
(* subscription that is over is not invoiced and stays over, its dates     *)
(* stay those of its terms, and no period passes without its invoice.      *)
(*                                                                         *)
(* The first two need little of the row: the lock lets one call at a time  *)
(* bill it, nobody else changes the row meanwhile, and the runs that a     *)
(* call decides by are those it replaces.  BInv says this; the dates need  *)
(* not be known.                                                           *)
(*                                                                         *)
(* The last two are about the dates.  TInv says of the stored row, and of  *)
(* the row a call has in hand, that its next invoice is due when its terms *)
(* say and that its period is the one after those that passed since the    *)
(* billing anchor.  PInv says that a period which passed has succeeded,    *)
(* and that all that lie behind the row, stored or in hand, were invoiced. *)
(***************************************************************************)
EXTENDS SubscriptionBilling, TLAPS

RowFields == {"status", "anchor", "completed", "from", "serviceFrom", "serviceTo",
              "nextBillingAt", "nextAdvanceAt", "remaining", "cancelAtEnd"}

Billing(b) == billers[b].phase = "billing"

(* As much of the types as the arguments need                               *)
BillerShape(w) ==
  /\ DOMAIN w = DOMAIN Resting
  /\ w.advance \in BOOLEAN
  /\ w.phase = "billing" => DOMAIN w.sub = RowFields

RowsInv ==
  /\ billingRuns \in [Starts -> BillingRun \cup {Never}]
  /\ issued \in [Starts -> Nat]
  /\ DOMAIN subscription = RowFields

(* Of each period: the invoices that are spoken of were made, one that was  *)
(* voided by hand stays void, because nothing is or gets applied to it, and *)
(* so the invoice of a run that stands was never reopened.                  *)
DocumentsInv ==
  /\ voided \cup settled \cup byHand \cup reopened
       \subseteq {x \in Documents : x[2] \in 1..issued[x[1]]}
  /\ byHand \subseteq voided /\ byHand \cap settled = {}
  /\ \A p \in Starts : Succeeded(billingRuns[p]) => <<p, issued[p]>> \notin reopened

InvoicesInv == OneInvoicePerPeriod /\ DocumentsInv

CallsInv ==
  /\ DOMAIN billers = Billers
  /\ \A b \in Billers : BillerShape(billers[b])

(* The lock: one call bills, and if it found the subscription over, its     *)
(* transaction has left it over.                                            *)
LockInv ==
  /\ \A b, d \in Billers : Billing(b) /\ Billing(d) => b = d
  /\ \A b \in Billers :
       Billing(b) /\ subscription.status \in Over => billers[b].sub.status = subscription.status

(* What a request checked: to pause, resume or cancel is for the living.    *)
Checked(q) ==
  /\ DOMAIN q = DOMAIN Away
  /\ \/ q.phase = "found"
     \/ q.phase = "checked" /\ q.wants.action \in {"PAUSE", "RESUME", "CANCEL"}
     => q.status \notin Over
  /\ q.phase = "found" => q.wants.action \in {"PAUSE", "CANCEL"} /\ q.found \subseteq Documents

RequestsInv ==
  /\ DOMAIN clerks = Clerks
  /\ \A c \in Clerks : Checked(clerks[c])

BInv == RowsInv /\ InvoicesInv /\ CallsInv /\ LockInv /\ RequestsInv

LEMMA BillingInitInvariant == BillingInit => BInv
<1> SUFFICES ASSUME BillingInit PROVE BInv
  OBVIOUS
<1>1. RowsInv
  <2>1. DOMAIN subscription = RowFields
    BY DEF BillingInit, Created, RowFields
  <2> QED BY <2>1 DEF BillingInit, RowsInv
<1>2. InvoicesInv
  BY DEF BillingInit, InvoicesInv, DocumentsInv, OneInvoicePerPeriod, Succeeded
<1>3. CallsInv /\ LockInv
  BY DEF BillingInit, CallsInv, LockInv, BillerShape, Billing, Resting
<1>4. RequestsInv
  BY DEF BillingInit, RequestsInv, Checked, Away
<1> QED BY <1>1, <1>2, <1>3, <1>4 DEF BInv

-----------------------------------------------------------------------------
(* The fields of the row stay the fields of the row. *)
LEMMA AdvancedRow ==
  ASSUME NEW s, NEW now, DOMAIN s = RowFields
  PROVE  DOMAIN Advanced(s, now) = RowFields
BY DEF Advanced

LEMMA CanceledRow ==
  ASSUME NEW s, NEW at, DOMAIN s = RowFields
  PROVE  DOMAIN Canceled(s, at) = RowFields
BY DEF Canceled

LEMMA EffectedRow ==
  ASSUME NEW s, NEW r, NEW now, DOMAIN s = RowFields, r.action \in {"PAUSE", "RESUME", "CANCEL"}
  PROVE  DOMAIN Effected(s, r, now) = RowFields
BY CanceledRow DEF Effected, Paused, Resumed

(* A call goes on, and neither takes the lock nor touches what is shared.   *)
LEMMA CallGoesOn ==
  ASSUME BInv, NEW b \in Billers, NEW w, BillerShape(w), w.phase # "billing",
         billers' = [billers EXCEPT ![b] = w],
         RowsInv', InvoicesInv', UNCHANGED clerks,
         subscription' = subscription \/ ~ Locked \/ Billing(b)
  PROVE  BInv'
<1> USE DEF BInv
<1>1. CallsInv'
  BY DEF CallsInv, BillerShape
<1>2. \A d \in Billers : Billing(d)' => d # b /\ Billing(d) /\ billers'[d] = billers[d]
  BY DEF CallsInv, Billing
<1>3. \A d \in Billers : Billing(d)' => subscription' = subscription
  BY <1>2 DEF LockInv, Locked, Billing, CallsInv
<1>4. LockInv'
  BY <1>2, <1>3 DEF LockInv, Billing
<1>5. RequestsInv'
  BY DEF RequestsInv
<1> QED BY <1>1, <1>4, <1>5

LEMMA SharedUntouched ==
  ASSUME BInv, UNCHANGED <<subscription, billingRuns, issued, voided, settled, byHand, reopened>>
  PROVE  RowsInv' /\ InvoicesInv'
BY DEF BInv, RowsInv, InvoicesInv, DocumentsInv, OneInvoicePerPeriod, Succeeded

LEMMA AfterBillingShape ==
  ASSUME NEW w
  PROVE  BillerShape(AfterBilling(w)) /\ AfterBilling(w).phase # "billing"
BY DEF BillerShape, AfterBilling, Resting

-----------------------------------------------------------------------------
(* Steps of a call that change nothing but how far it has come *)
LEMMA CallStepInvariant ==
  ASSUME BInv, NEW b \in Billers,
         \/ BeginSweep(b) \/ ClaimNothing(b) \/ ReadFailedPeriod(b) \/ PickSchedule(b)
         \/ EndSweep(b) \/ SweepDies(b) \/ Fails(b)
  PROVE  BInv'
<1>1. BillerShape(billers[b])
  BY DEF BInv, CallsInv
<1>2. UNCHANGED <<subscription, billingRuns, issued, voided, settled, byHand, reopened, clerks>>
  BY DEF BeginSweep, ClaimNothing, ReadFailedPeriod, PickSchedule, EndSweep, SweepDies, Fails
<1>3. RowsInv' /\ InvoicesInv'
  BY <1>2, SharedUntouched
<1>4. \E w : billers' = [billers EXCEPT ![b] = w] /\ BillerShape(w) /\ w.phase # "billing"
  <2>1. CASE BeginSweep(b)
    <3> DEFINE w == [billers[b] EXCEPT !.phase = "claiming", !.asOf = today]
    <3>1. BillerShape(w) /\ w.phase # "billing"
      BY <1>1 DEF BillerShape, Resting
    <3>2. billers' = [billers EXCEPT ![b] = w]
      BY <2>1 DEF BeginSweep
    <3> QED BY <3>1, <3>2
  <2>2. CASE ClaimNothing(b)
    <3> DEFINE w == [billers[b] EXCEPT !.phase = "draining"]
    <3>1. BillerShape(w) /\ w.phase # "billing"
      BY <1>1 DEF BillerShape, Resting
    <3>2. billers' = [billers EXCEPT ![b] = w]
      BY <2>2 DEF ClaimNothing
    <3> QED BY <3>1, <3>2
  <2>3. CASE ReadFailedPeriod(b)
    <3> DEFINE w == IF subscription.nextBillingAt = Never THEN AfterBilling(billers[b])
                    ELSE [billers[b] EXCEPT !.phase = "recording", !.period = subscription.from]
    <3>1. BillerShape(w) /\ w.phase # "billing"
      BY <1>1, AfterBillingShape DEF BillerShape, Resting
    <3>2. billers' = [billers EXCEPT ![b] = w]
      BY <2>3 DEF ReadFailedPeriod
    <3> HIDE DEF w
    <3> QED BY <3>1, <3>2
  <2>4. CASE PickSchedule(b)
    <3>1. PICK r : billers' = [billers EXCEPT ![b].phase = "picked", ![b].row = r,
                                              ![b].status = subscription.status]
      BY <2>4 DEF PickSchedule
    <3> DEFINE w == [billers[b] EXCEPT !.phase = "picked", !.row = r,
                                       !.status = subscription.status]
    <3>2. BillerShape(w) /\ w.phase # "billing"
      BY <1>1 DEF BillerShape, Resting
    <3>3. billers' = [billers EXCEPT ![b] = w]
      BY <3>1 DEF BInv, CallsInv
    <3> QED BY <3>2, <3>3
  <2>5. CASE EndSweep(b) \/ SweepDies(b)
    <3>1. BillerShape(Resting) /\ Resting.phase # "billing"
      BY DEF BillerShape, Resting
    <3> QED BY <2>5, <3>1 DEF EndSweep, SweepDies
  <2>6. CASE Fails(b)
    <3> DEFINE w == [Resting EXCEPT !.phase = "failing", !.manual = billers[b].manual,
                                    !.asOf = billers[b].asOf]
    <3>1. BillerShape(w) /\ w.phase # "billing"
      BY DEF BillerShape, Resting
    <3> QED BY <2>6, <3>1 DEF Fails
  <2> QED BY <2>1, <2>2, <2>3, <2>4, <2>5, <2>6
<1> QED BY <1>2, <1>3, <1>4, CallGoesOn

(* A call takes the lock, and has read the row.                             *)
LEMMA TakeInvariant ==
  ASSUME BInv, NEW b \in Billers, ~ Locked, NEW manual, NEW now, NEW advance \in BOOLEAN,
         Takes(b, manual, now, advance),
         UNCHANGED <<subscription, billingRuns, issued, voided, settled, byHand, reopened, clerks>>
  PROVE  BInv'
<1> USE DEF BInv
<1>1. RowsInv' /\ InvoicesInv'
  BY SharedUntouched
<1>2. /\ DOMAIN billers' = Billers
      /\ DOMAIN billers'[b] = DOMAIN Resting /\ billers'[b].advance = advance
      /\ billers'[b].sub = subscription
      /\ \A d \in Billers \ {b} : billers'[d] = billers[d]
  BY DEF Takes, CallsInv, Resting
<1>3. CallsInv'
  BY <1>2 DEF CallsInv, BillerShape, RowsInv
<1>4. LockInv'
  BY <1>2 DEF LockInv, Locked, Billing
<1>5. RequestsInv'
  BY DEF RequestsInv
<1> QED BY <1>1, <1>3, <1>4, <1>5

LEMMA ClaimInvariant ==
  ASSUME BInv, NEW b \in Billers, ClaimDue(b)
  PROVE  BInv'
<1>1. (subscription.nextBillingAt > billers[b].asOf) \in BOOLEAN
  OBVIOUS
<1> QED BY <1>1, TakeInvariant DEF ClaimDue

LEMMA BillNowInvariant ==
  ASSUME BInv, NEW b \in Billers, NEW advance \in BOOLEAN, BillNow(b, advance)
  PROVE  BInv'
BY TakeInvariant DEF BillNow

(* Still under its lock, it applies a schedule to its copy of the row.      *)
LEMMA ApplyBeforeInvariant ==
  ASSUME BInv, NEW b \in Billers, ApplyBeforeBilling(b)
  PROVE  BInv'
<1> USE DEF BInv
<1> DEFINE w   == billers[b]
           sub == billers'[b].sub
<1>1. Billing(b) /\ BillerShape(w)
  BY DEF ApplyBeforeBilling, CallsInv, Billing
<1>2. PICK r : billers' = [billers EXCEPT
        ![b].todo = @ \ {r},
        ![b].plan = IF AwaitsBilling(w.sub, r) THEN @
                    ELSE (@ \ {r}) \cup (IF CanApply(w.sub.status, r) THEN ResumeAfter(r)
                                         ELSE {}),
        ![b].sub = IF ~ AwaitsBilling(w.sub, r) /\ CanApply(w.sub.status, r)
                   THEN Effected(@, r, w.asOf) ELSE @]
  BY DEF ApplyBeforeBilling
<1>3. /\ DOMAIN billers' = Billers /\ DOMAIN billers'[b] = DOMAIN Resting
      /\ billers'[b].phase = w.phase /\ billers'[b].advance = w.advance
      /\ sub = IF ~ AwaitsBilling(w.sub, r) /\ CanApply(w.sub.status, r)
               THEN Effected(w.sub, r, w.asOf) ELSE w.sub
      /\ \A d \in Billers \ {b} : billers'[d] = billers[d]
  BY <1>1, <1>2 DEF CallsInv, BillerShape, Resting
<1>4. DOMAIN sub = RowFields
  BY <1>1, <1>3, EffectedRow DEF BillerShape, Billing, CanApply
<1>5. w.sub.status \in Over => sub = w.sub
  BY <1>3 DEF CanApply, Over
<1>6. UNCHANGED <<subscription, billingRuns, issued, voided, settled, byHand, reopened, clerks>>
  BY DEF ApplyBeforeBilling
<1>7. RowsInv' /\ InvoicesInv'
  BY <1>6, SharedUntouched
<1>8. CallsInv'
  BY <1>1, <1>3, <1>4 DEF CallsInv, BillerShape
<1>9. LockInv'
  BY <1>1, <1>3, <1>5, <1>6 DEF LockInv, Billing
<1>10. RequestsInv'
  BY <1>6 DEF RequestsInv
<1> QED BY <1>7, <1>8, <1>9, <1>10

LEMMA PickedInvariant ==
  ASSUME BInv, NEW b \in Billers, ApplyPicked(b) \/ PickedFails(b)
  PROVE  BInv'
<1> USE DEF BInv
<1>1. UNCHANGED <<billingRuns, issued, voided, settled, byHand, reopened, clerks>>
  BY DEF ApplyPicked, PickedFails
<1>2. billers' = [billers EXCEPT ![b] = AfterBilling(billers[b])]
  BY DEF ApplyPicked, PickedFails
<1>3. subscription' = subscription \/ ~ Locked
  BY DEF ApplyPicked, PickedFails
<1>4. DOMAIN subscription' = RowFields
  BY EffectedRow DEF RowsInv, ApplyPicked, PickedFails, CanApply
<1>5. RowsInv' /\ InvoicesInv'
  BY <1>1, <1>4 DEF RowsInv, InvoicesInv, DocumentsInv, OneInvoicePerPeriod, Succeeded
<1> QED BY <1>1, <1>2, <1>3, <1>5, AfterBillingShape, CallGoesOn

(* The failure of a run that succeeded meanwhile is not recorded.           *)
LEMMA RecordInvariant ==
  ASSUME BInv, NEW b \in Billers, RecordFailure(b)
  PROVE  BInv'
<1> USE DEF BInv
<1>1. PICK p : billingRuns' = [billingRuns EXCEPT ![p] = FailedRun(@)]
  BY DEF RecordFailure
<1>2. UNCHANGED <<subscription, issued, voided, settled, byHand, reopened, clerks>>
  BY DEF RecordFailure
<1>3. billers' = [billers EXCEPT ![b] = AfterBilling(billers[b])]
  BY DEF RecordFailure
<1>4. \A run \in BillingRun \cup {Never} :
        FailedRun(run) \in BillingRun \cup {Never} /\ (Succeeded(FailedRun(run)) <=> Succeeded(run))
  BY DEF FailedRun, BillingRun, Succeeded
<1>5. RowsInv'
  BY <1>1, <1>2, <1>4 DEF RowsInv
<1>6. \A q \in Starts : Succeeded(billingRuns'[q]) <=> Succeeded(billingRuns[q])
  BY <1>1, <1>4 DEF RowsInv
<1>7. InvoicesInv'
  BY <1>2, <1>6 DEF InvoicesInv, DocumentsInv, OneInvoicePerPeriod
<1> QED BY <1>2, <1>3, <1>5, <1>7, AfterBillingShape, CallGoesOn

-----------------------------------------------------------------------------
(* Commits: the runs that were read are those that are there. *)
LEMMA CommitInvariant ==
  ASSUME BInv, NEW b \in Billers, NEW sub, NEW applied, Commits(b, sub, applied),
         DOMAIN sub = RowFields, InvoicesInv',
         billingRuns' \in [Starts -> BillingRun \cup {Never}],
         issued' \in [Starts -> Nat]
  PROVE  BInv'
<1>1. /\ billers' = [billers EXCEPT ![b] = AfterBilling(billers[b])]
      /\ Billing(b) /\ subscription' = sub /\ UNCHANGED <<voided, settled, byHand, reopened, clerks>>
  BY DEF Commits, Billing
<1>2. RowsInv'
  BY <1>1 DEF BInv, RowsInv
<1> QED BY <1>1, <1>2, AfterBillingShape, CallGoesOn

LEMMA CommitReadsRuns ==
  ASSUME BInv, NEW b \in Billers, NEW sub, NEW applied, Commits(b, sub, applied)
  PROVE  /\ billers[b].runs = billingRuns /\ UNCHANGED <<voided, settled, byHand, reopened>>
         /\ BillerShape(billers[b]) /\ DOMAIN billers[b].sub = RowFields
BY DEF BInv, CallsInv, BillerShape, Commits, Conflict

LEMMA SkipInvariant ==
  ASSUME BInv, NEW b \in Billers, SkipBilling(b)
  PROVE  BInv'
<1>1. Commits(b, billers[b].sub, {}) /\ UNCHANGED <<billingRuns, issued>>
  BY DEF SkipBilling
<1>2. InvoicesInv'
  BY <1>1, CommitReadsRuns DEF BInv, InvoicesInv, DocumentsInv, OneInvoicePerPeriod, Succeeded
<1>3. billingRuns' \in [Starts -> BillingRun \cup {Never}] /\ issued' \in [Starts -> Nat]
  BY <1>1 DEF BInv, RowsInv
<1> QED BY <1>1, <1>2, <1>3, CommitReadsRuns, CommitInvariant

LEMMA PassInvariant ==
  ASSUME BInv, NEW b \in Billers, PassPeriod(b)
  PROVE  BInv'
<1> DEFINE w == billers[b]
           p == w.sub.from
<1>1. /\ Commits(b, Advanced(w.sub, w.asOf), {}) /\ Succeeded(w.runs[p])
      /\ billingRuns' = [billingRuns EXCEPT ![p].passed = TRUE] /\ UNCHANGED issued
  BY DEF PassPeriod, Invoiced
<1>2. w.runs = billingRuns /\ UNCHANGED <<voided, settled, byHand, reopened>> /\ DOMAIN w.sub = RowFields
  BY <1>1, CommitReadsRuns
<1> HIDE DEF p, w
<1>3. /\ billingRuns' \in [Starts -> BillingRun \cup {Never}]
      /\ \A q \in Starts : Succeeded(billingRuns'[q]) <=> Succeeded(billingRuns[q])
  <2>1. CASE p \notin Starts
    <3>1. billingRuns' = billingRuns
      BY <1>1, <2>1 DEF BInv, RowsInv
    <3> QED BY <3>1 DEF BInv, RowsInv
  <2>2. CASE p \in Starts
    <3> DEFINE run == [billingRuns[p] EXCEPT !.passed = TRUE]
    <3>1. billingRuns[p] \in BillingRun /\ Succeeded(billingRuns[p])
      BY <1>1, <1>2, <2>2 DEF BInv, RowsInv, Succeeded
    <3>2. run \in BillingRun /\ run.status = "SUCCEEDED"
      BY <3>1 DEF BillingRun, Succeeded
    <3>3. Succeeded(run)
      BY <3>2, NeverIsNoRun DEF Succeeded
    <3>4. billingRuns' = [billingRuns EXCEPT ![p] = run]
      BY <1>1
    <3> HIDE DEF run
    <3> QED BY <3>1, <3>2, <3>3, <3>4 DEF BInv, RowsInv
  <2> QED BY <2>1, <2>2
<1>4. InvoicesInv' /\ issued' \in [Starts -> Nat]
  BY <1>1, <1>2, <1>3 DEF BInv, RowsInv, InvoicesInv, DocumentsInv, OneInvoicePerPeriod
<1> QED BY <1>1, <1>2, <1>3, <1>4, AdvancedRow, CommitInvariant

LEMMA InvoiceInvariant ==
  ASSUME BInv, NEW b \in Billers, InvoicePeriod(b)
  PROVE  BInv'
<1> DEFINE w == billers[b]
           p == w.sub.from
<1>1. /\ ~ Succeeded(w.runs[p])
      /\ billingRuns' = [billingRuns EXCEPT ![p] = RunOf(w)]
      /\ issued' = [issued EXCEPT ![p] = @ + 1]
  BY DEF InvoicePeriod, Invoiced, InvoiceMade
<1>2. \E sub, applied :
        /\ Commits(b, sub, applied)
        /\ \/ sub = [w.sub EXCEPT !.nextAdvanceAt = Never]
           \/ \E r : sub = Canceled(w.sub, r.at)
           \/ sub = Advanced(w.sub, w.asOf)
  BY DEF InvoicePeriod
<1>3. /\ w.runs = billingRuns /\ UNCHANGED <<voided, settled, byHand, reopened>>
      /\ BillerShape(w) /\ DOMAIN w.sub = RowFields
  BY <1>2, CommitReadsRuns
<1>4. PICK sub, applied : Commits(b, sub, applied) /\ DOMAIN sub = RowFields
  BY <1>2, <1>3, CanceledRow, AdvancedRow
<1> HIDE DEF w, p
<1>5. CASE p \notin Starts
  <2>1. billingRuns' = billingRuns /\ issued' = issued
    BY <1>1, <1>5 DEF BInv, RowsInv
  <2>2. InvoicesInv'
    BY <1>3, <2>1 DEF BInv, InvoicesInv, DocumentsInv, OneInvoicePerPeriod, Succeeded
  <2> QED BY <1>4, <2>1, <2>2, CommitInvariant DEF BInv, RowsInv
<1>6. CASE p \in Starts
  <2>1. RunOf(w) \in BillingRun /\ RunOf(w).status = "SUCCEEDED"
    <3>1. p = w.sub.from
      BY DEF p
    <3>2. billingRuns[p] = Never \/ billingRuns[p].advance \in BOOLEAN
      BY <1>6 DEF BInv, RowsInv, BillingRun
    <3> QED BY <1>3, <3>1, <3>2 DEF RunOf, BillingRun, BillerShape
  <2>2. Succeeded(RunOf(w))
    BY <2>1, NeverIsNoRun DEF Succeeded
  <2>3. billingRuns' \in [Starts -> BillingRun \cup {Never}] /\ issued' \in [Starts -> Nat]
    BY <1>1, <1>6, <2>1 DEF BInv, RowsInv
  <2>4. InvoicesInv'
    BY <1>1, <1>3, <1>6, <2>2 DEF BInv, RowsInv, InvoicesInv, DocumentsInv, OneInvoicePerPeriod
  <2> QED BY <1>4, <2>3, <2>4, CommitInvariant
<1> QED BY <1>5, <1>6

-----------------------------------------------------------------------------
(* Requests *)
LEMMA RequestGoesOn ==
  ASSUME BInv, NEW c \in Clerks, NEW q, Checked(q),
         clerks' = [clerks EXCEPT ![c] = q],
         RowsInv', InvoicesInv', UNCHANGED billers,
         subscription' = subscription \/ ~ Locked
  PROVE  BInv'
<1> USE DEF BInv
<1>1. RequestsInv'
  BY DEF RequestsInv, Checked
<1>2. CallsInv'
  BY DEF CallsInv, BillerShape
<1>3. LockInv'
  BY DEF LockInv, Locked, Billing
<1> QED BY <1>1, <1>2, <1>3

LEMMA AwayChecked == Checked(Away)
BY DEF Checked, Away

LEMMA AskInvariant ==
  ASSUME BInv, NEW c \in Clerks, (\E r \in Schedule : Ask(c, r)) \/ AskToKeep(c)
  PROVE  BInv'
<1>1. UNCHANGED <<subscription, billingRuns, issued, voided, settled, byHand, reopened, billers>>
  BY DEF Ask, AskToKeep
<1>2. RowsInv' /\ InvoicesInv'
  BY <1>1, SharedUntouched
<1>3. CASE AskToKeep(c)
  <2> DEFINE q == [Away EXCEPT !.phase = "checked", !.wants = Keep, !.now = today,
                               !.status = subscription.status]
  <2>1. Checked(q)
    BY DEF Checked, Away, Keep
  <2>2. clerks' = [clerks EXCEPT ![c] = q]
    BY <1>3 DEF AskToKeep
  <2> QED BY <1>1, <1>2, <2>1, <2>2, RequestGoesOn
<1>4. ASSUME NEW r \in Schedule, Ask(c, r) PROVE BInv'
  <2> DEFINE q == [Away EXCEPT !.phase = "checked", !.wants = r, !.now = today,
                               !.status = subscription.status]
  <2>1. subscription.status \notin Over
    BY <1>4 DEF Ask, Asks, CanApply, Over
  <2>2. Checked(q)
    BY <2>1 DEF Checked, Away
  <2>3. clerks' = [clerks EXCEPT ![c] = q]
    BY <1>4 DEF Ask
  <2> QED BY <1>1, <1>2, <2>2, <2>3, RequestGoesOn
<1> QED BY <1>3, <1>4

LEMMA ReadAheadInvariant ==
  ASSUME BInv, NEW c \in Clerks, ReadAdvanceInvoices(c) \/ RequestFails(c)
  PROVE  BInv'
<1>1. UNCHANGED <<subscription, billingRuns, issued, voided, settled, byHand, reopened, billers>>
  BY DEF ReadAdvanceInvoices, RequestFails
<1>2. RowsInv' /\ InvoicesInv'
  BY <1>1, SharedUntouched
<1>3. \E q : clerks' = [clerks EXCEPT ![c] = q] /\ Checked(q)
  <2>1. CASE RequestFails(c)
    BY <2>1, AwayChecked DEF RequestFails
  <2>2. CASE ReadAdvanceInvoices(c)
    <3> DEFINE found == {<<p, issued[p]>> : p \in {q \in Starts : Ahead(q)}}
               q == [clerks[c] EXCEPT !.phase = "found", !.found = found]
    <3>1. clerks' = [clerks EXCEPT ![c] = IF found \cap settled # {} THEN Away ELSE q]
      BY <2>2 DEF ReadAdvanceInvoices
    <3>2. found \subseteq Documents
      BY DEF BInv, RowsInv, Documents
    <3>3. Checked(q)
      BY <2>2, <3>2 DEF BInv, RequestsInv, Checked, ReadAdvanceInvoices, Away
    <3> HIDE DEF found, q
    <3> QED BY <3>1, <3>3, AwayChecked
  <2> QED BY <2>1, <2>2
<1> QED BY <1>1, <1>2, <1>3, RequestGoesOn

(* What is voided was found again, and had succeeded.                       *)
LEMMA InvalidatesInvariant ==
  ASSUME BInv, NEW found, found \subseteq Documents, StillThere(found),
         InvalidatesAdvance(found), UNCHANGED <<issued, settled, byHand, reopened>>,
         DOMAIN subscription' = RowFields
  PROVE  RowsInv' /\ InvoicesInv'
<1> DEFINE periods == {x[1] : x \in found}
<1>1. /\ voided' = voided \cup found
      /\ billingRuns' = [p \in Starts |-> IF p \in periods THEN Never ELSE billingRuns[p]]
  BY DEF InvalidatesAdvance
<1>2. \A p \in periods : Succeeded(billingRuns[p]) /\ <<p, issued[p]>> \in found
  BY DEF StillThere, Documents
<1>3. \A x \in found : x[1] \in Starts /\ x[2] = issued[x[1]] /\ x[1] \in periods
                       /\ x = <<x[1], issued[x[1]]>>
  BY DEF StillThere, Documents
<1> HIDE DEF periods
<1>4. RowsInv'
  BY <1>1 DEF BInv, RowsInv
<1>5. \A p \in Starts : Succeeded(billingRuns'[p]) <=> Succeeded(billingRuns[p]) /\ p \notin periods
  BY <1>1 DEF Succeeded
<1>6. DocumentsInv'
  <2>1. \A x \in found : x[2] \in 1..issued[x[1]]
    BY <1>2, <1>3 DEF BInv, RowsInv, InvoicesInv, OneInvoicePerPeriod
  <2> QED BY <1>1, <1>5, <2>1 DEF BInv, InvoicesInv, DocumentsInv
<1>7. OneInvoicePerPeriod'
  <2> SUFFICES ASSUME NEW p \in Starts
      PROVE  /\ Succeeded(billingRuns'[p]) => issued[p] > 0
             /\ \A n \in 1..issued[p] :
                  <<p, n>> \notin voided'
                    <=> \/ n = issued[p] /\ Succeeded(billingRuns'[p]) /\ <<p, n>> \notin byHand
                        \/ <<p, n>> \in reopened
    BY DEF OneInvoicePerPeriod
  <2>1. CASE p \in periods
    BY <1>1, <1>2, <1>3, <1>5, <2>1 DEF BInv, InvoicesInv, OneInvoicePerPeriod, DocumentsInv
  <2>2. CASE p \notin periods
    <3>1. \A n : <<p, n>> \notin found
      BY <1>3, <2>2
    <3> QED BY <1>1, <1>5, <2>2, <3>1 DEF BInv, InvoicesInv, OneInvoicePerPeriod
  <2> QED BY <2>1, <2>2
<1> QED BY <1>4, <1>6, <1>7 DEF InvoicesInv

LEMMA PauseOrCancelInvariant ==
  ASSUME BInv, NEW c \in Clerks, PauseOrCancel(c)
  PROVE  BInv'
<1> DEFINE q    == clerks[c]
           r    == q.wants
           base == IF q.found = {} THEN subscription ELSE AheadAgain(subscription, q.now)
<1>1. /\ ~ Locked /\ q.phase = "found" /\ StillThere(q.found)
      /\ InvalidatesAdvance(q.found)
      /\ subscription' = IF r.at <= q.now THEN Effected(base, r, q.now)
                         ELSE IF r.action = "CANCEL" THEN [base EXCEPT !.cancelAtEnd = TRUE]
                         ELSE base
      /\ clerks' = [clerks EXCEPT ![c] = Away] /\ UNCHANGED <<issued, settled, byHand, reopened, billers>>
  BY DEF PauseOrCancel
<1>2. DOMAIN base = RowFields
  BY DEF BInv, RowsInv, AheadAgain
<1>3. r.action \in {"PAUSE", "CANCEL"} /\ q.found \subseteq Documents
  BY <1>1 DEF BInv, RequestsInv, Checked
<1> HIDE DEF base, r
<1>4. DOMAIN subscription' = RowFields
  BY <1>1, <1>2, <1>3, EffectedRow
<1>5. RowsInv' /\ InvoicesInv'
  BY <1>1, <1>3, <1>4, InvalidatesInvariant
<1> QED BY <1>1, <1>5, AwayChecked, RequestGoesOn

LEMMA ResumeOrKeepInvariant ==
  ASSUME BInv, NEW c \in Clerks, Resume(c) \/ KeepSubscription(c)
  PROVE  BInv'
<1>1. /\ ~ Locked /\ UNCHANGED <<billingRuns, issued, voided, settled, byHand, reopened, billers>>
      /\ clerks' = [clerks EXCEPT ![c] = Away]
  BY DEF Resume, KeepSubscription
<1>2. DOMAIN subscription' = RowFields
  <2>1. CASE Resume(c)
    BY <2>1, EffectedRow DEF Resume, BInv, RowsInv
  <2>2. CASE KeepSubscription(c)
    BY <2>2 DEF KeepSubscription, BInv, RowsInv
  <2> QED BY <2>1, <2>2
<1>3. RowsInv' /\ InvoicesInv'
  BY <1>1, <1>2 DEF BInv, RowsInv, InvoicesInv, DocumentsInv, OneInvoicePerPeriod, Succeeded
<1> QED BY <1>1, <1>3, AwayChecked, RequestGoesOn

-----------------------------------------------------------------------------
(* What users do to the invoices *)
LEMMA OnlyInvoices ==
  ASSUME BInv, RowsInv', InvoicesInv', UNCHANGED <<subscription, billers, clerks>>
  PROVE  BInv'
BY DEF BInv, CallsInv, BillerShape, LockInv, Billing, RequestsInv

LEMMA InvoiceTouched ==
  ASSUME BInv, NEW p \in Starts, NEW n \in 1..issued[p],
         Settle(p, n) \/ Unsettle(p, n) \/ VoidByHand(p, n)
  PROVE  BInv'
<1> DEFINE x == <<p, n>>
<1>1. /\ UNCHANGED <<subscription, billingRuns, issued, billers, clerks>>
      /\ RowsInv'
  BY DEF Settle, Unsettle, VoidByHand, BInv, RowsInv
<1>2. x \in Documents /\ x[1] = p /\ x[2] = n
  BY DEF Documents, BInv, RowsInv
<1>3. CASE Settle(p, n)
  <2>1. /\ x \notin voided /\ settled' = settled \cup {x}
        /\ UNCHANGED <<voided, byHand, reopened>>
    BY <1>3 DEF Settle
  <2> HIDE DEF x
  <2>2. OneInvoicePerPeriod'
    BY <1>1, <2>1 DEF BInv, InvoicesInv, OneInvoicePerPeriod
  <2>3. DocumentsInv'
    BY <1>1, <1>2, <2>1 DEF BInv, InvoicesInv, DocumentsInv
  <2> QED BY <1>1, <2>2, <2>3, OnlyInvoices DEF InvoicesInv
<1>4. CASE Unsettle(p, n)
  <2>1. /\ x \in settled /\ settled' \subseteq settled /\ voided' = voided \ {x}
        /\ reopened' = IF x \in voided THEN reopened \cup {x} ELSE reopened
        /\ UNCHANGED byHand
    BY <1>4 DEF Unsettle
  <2>2. x \notin byHand
    BY <2>1 DEF BInv, InvoicesInv, DocumentsInv
  <2>3. OneInvoicePerPeriod'
    BY <1>1, <2>1 DEF BInv, InvoicesInv, OneInvoicePerPeriod
  <2>4. x \in voided => ~ (n = issued[p] /\ Succeeded(billingRuns[p]))
    BY <2>2 DEF BInv, InvoicesInv, OneInvoicePerPeriod
  <2>5. \A q \in Starts : Succeeded(billingRuns[q]) => <<q, issued[q]>> \notin reopened'
    BY <2>1, <2>4 DEF BInv, InvoicesInv, DocumentsInv
  <2>6. DocumentsInv'
    BY <1>1, <1>2, <2>1, <2>2, <2>5 DEF BInv, InvoicesInv, DocumentsInv
  <2> QED BY <1>1, <2>3, <2>6, OnlyInvoices DEF InvoicesInv
<1>5. CASE VoidByHand(p, n)
  <2>1. /\ x \notin settled /\ voided' = voided \cup {x} /\ byHand' = byHand \cup {x}
        /\ reopened' = reopened \ {x} /\ UNCHANGED settled
    BY <1>5 DEF VoidByHand
  <2>2. OneInvoicePerPeriod'
    BY <1>1, <2>1 DEF BInv, InvoicesInv, OneInvoicePerPeriod
  <2> HIDE DEF x
  <2>3. DocumentsInv'
    BY <1>1, <1>2, <2>1 DEF BInv, InvoicesInv, DocumentsInv
  <2> QED BY <1>1, <2>2, <2>3, OnlyInvoices DEF InvoicesInv
<1> QED BY <1>3, <1>4, <1>5

LEMMA BillingStepInvariant ==
  ASSUME BInv, [BillingNext]_billingVars
  PROVE  BInv'
<1>1. ASSUME NEW b \in Billers, SweepStep(b) PROVE BInv'
  <2>1. CASE CannotSerialize(b)
    BY <2>1, CallStepInvariant DEF CannotSerialize
  <2>2. CASE ApplyBeforeBilling(b) \/ SkipBilling(b) \/ PassPeriod(b) \/ InvoicePeriod(b)
    BY <2>2, ApplyBeforeInvariant, SkipInvariant, PassInvariant, InvoiceInvariant
  <2>3. CASE ClaimDue(b) \/ RecordFailure(b) \/ ApplyPicked(b)
    BY <2>3, ClaimInvariant, RecordInvariant, PickedInvariant
  <2>4. CASE \/ BeginSweep(b) \/ ClaimNothing(b) \/ ReadFailedPeriod(b) \/ PickSchedule(b)
             \/ EndSweep(b)
    BY <2>4, CallStepInvariant
  <2> QED BY <1>1, <2>1, <2>2, <2>3, <2>4 DEF SweepStep
<1>2. ASSUME NEW b \in Billers, BillingFails(b) \/ PickedFails(b) \/ SweepDies(b) PROVE BInv'
  BY <1>2, CallStepInvariant, PickedInvariant DEF BillingFails
<1>3. ASSUME NEW b \in Billers, NEW advance \in BOOLEAN, BillNow(b, advance) PROVE BInv'
  BY <1>3, BillNowInvariant
<1>4. ASSUME NEW c \in Clerks, ClerkStep(c) PROVE BInv'
  BY <1>4, AskInvariant, ReadAheadInvariant, PauseOrCancelInvariant, ResumeOrKeepInvariant
     DEF ClerkStep
<1>5. ASSUME NEW p \in Starts, NEW n \in 1..issued[p],
             Settle(p, n) \/ Unsettle(p, n) \/ VoidByHand(p, n)
      PROVE  BInv'
  BY <1>5, InvoiceTouched
<1>6. CASE PassDay \/ UNCHANGED billingVars
  <2>1. UNCHANGED <<subscription, billingRuns, issued, voided, settled, byHand, reopened,
                    billers, clerks>>
    BY <1>6 DEF PassDay, billingVars
  <2>2. RowsInv' /\ InvoicesInv'
    BY <2>1, SharedUntouched
  <2> QED BY <2>1, <2>2, OnlyInvoices
<1> QED BY <1>1, <1>2, <1>3, <1>4, <1>5, <1>6 DEF BillingNext

LEMMA BillingInvariant == BillingSpec => []BInv
<1>1. BInv /\ [BillingNext]_billingVars => BInv'
  BY BillingStepInvariant
<1> QED BY BillingInitInvariant, <1>1, PTL DEF BillingSpec

-----------------------------------------------------------------------------
(* However many sweeps and requests overlap, and whatever fails or dies, a  *)
(* period has one invoice that is not void when its run succeeded, and none *)
(* otherwise; only an invoice voided by hand, and one that the reversal of  *)
(* a payment reopened, say otherwise.                                       *)
THEOREM PeriodsGetOneInvoice == BillingSpec => []OneInvoicePerPeriod
<1>1. BInv => OneInvoicePerPeriod
  BY DEF BInv, InvoicesInv
<1> QED BY <1>1, BillingInvariant, PTL

(* A call that finds the subscription over has nothing to invoice: what it  *)
(* commits leaves the status as it was when the row was locked, and since   *)
(* then nobody has changed it.                                              *)
LEMMA OverIsNotBilled ==
  ASSUME BInv, NEW b \in Billers, SkipBilling(b) \/ PassPeriod(b) \/ InvoicePeriod(b),
         subscription.status \in Over
  PROVE  issued' = issued /\ subscription'.status = subscription.status
<1>1. Billing(b)
  BY DEF SkipBilling, PassPeriod, InvoicePeriod, Billing
<1>2. billers[b].sub.status = subscription.status
  BY <1>1 DEF BInv, LockInv
<1>3. ~ Billable(billers[b])
  BY <1>2 DEF Billable, Over, Alive
<1>4. SkipBilling(b)
  BY <1>3 DEF PassPeriod, InvoicePeriod
<1> QED BY <1>2, <1>4 DEF SkipBilling, Commits

(* A schedule or a request that had checked the status before               *)
LEMMA OverUnlessReadAlive ==
  ASSUME BInv, subscription.status \in Over,
         \/ \E b \in Billers : ApplyPicked(b)
         \/ \E c \in Clerks : PauseOrCancel(c) \/ Resume(c) \/ KeepSubscription(c)
  PROVE  issued' = issued /\ (subscription'.status = subscription.status \/ ReadItAlive)
<1>1. ASSUME NEW b \in Billers, ApplyPicked(b)
      PROVE  issued' = issued /\ (subscription'.status = subscription.status \/ ReadItAlive)
  <2>1. CASE billers[b].status \in Over
    BY <1>1, <2>1 DEF ApplyPicked, CanApply, Over
  <2>2. CASE billers[b].status \notin Over
    <3>1. billers'[b].phase # "picked"
      BY <1>1 DEF ApplyPicked, AfterBilling, Resting, BInv, CallsInv
    <3> QED BY <1>1, <2>2, <3>1 DEF ApplyPicked, ReadItAlive
  <2> QED BY <2>1, <2>2
<1>2. ASSUME NEW c \in Clerks, PauseOrCancel(c) \/ Resume(c)
      PROVE  issued' = issued /\ ReadItAlive
  <2>1. clerks[c].status \notin Over
    BY <1>2 DEF PauseOrCancel, Resume, BInv, RequestsInv, Checked
  <2>2. clerks'[c] = Away /\ clerks[c].phase # "idle" /\ issued' = issued
    BY <1>2 DEF PauseOrCancel, Resume, BInv, RequestsInv
  <2> QED BY <2>1, <2>2 DEF ReadItAlive
<1>3. ASSUME NEW c \in Clerks, KeepSubscription(c)
      PROVE  issued' = issued /\ subscription'.status = subscription.status
  BY <1>3 DEF KeepSubscription, BInv, RowsInv, RowFields
<1> QED BY <1>1, <1>2, <1>3

(* A subscription that is over is not invoiced any more, and it stays over  *)
(* unless somebody pauses or resumes it who had read it while it was not.   *)
THEOREM OverStaysOver == BillingSpec => OverIsFinal
<1> DEFINE Stays == subscription.status \in Over =>
                      /\ issued' = issued
                      /\ subscription'.status = subscription.status \/ ReadItAlive
<1>1. ASSUME BInv, [BillingNext]_billingVars, subscription.status \in Over
      PROVE  /\ issued' = issued
             /\ subscription'.status = subscription.status \/ ReadItAlive
  <2>1. ASSUME NEW b \in Billers, SkipBilling(b) \/ PassPeriod(b) \/ InvoicePeriod(b)
        PROVE  issued' = issued /\ subscription'.status = subscription.status
    BY <1>1, <2>1, OverIsNotBilled
  <2>2. CASE \/ \E b \in Billers : ApplyPicked(b)
             \/ \E c \in Clerks : PauseOrCancel(c) \/ Resume(c) \/ KeepSubscription(c)
    BY <1>1, <2>2, OverUnlessReadAlive
  <2>3. ASSUME NEW b \in Billers,
               \/ BeginSweep(b) \/ ClaimDue(b) \/ ClaimNothing(b) \/ ApplyBeforeBilling(b)
               \/ CannotSerialize(b) \/ ReadFailedPeriod(b) \/ RecordFailure(b)
               \/ PickSchedule(b) \/ EndSweep(b) \/ BillingFails(b) \/ PickedFails(b)
               \/ SweepDies(b) \/ \E advance \in BOOLEAN : BillNow(b, advance)
        PROVE  UNCHANGED <<issued, subscription>>
    BY <2>3 DEF BeginSweep, ClaimDue, ClaimNothing, ApplyBeforeBilling, CannotSerialize,
                BillingFails, Fails, ReadFailedPeriod, RecordFailure, PickSchedule, EndSweep,
                PickedFails, SweepDies, BillNow
  <2>4. ASSUME NEW c \in Clerks,
               \/ \E r \in Schedule : Ask(c, r)
               \/ ReadAdvanceInvoices(c) \/ RequestFails(c) \/ AskToKeep(c)
        PROVE  UNCHANGED <<issued, subscription>>
    BY <2>4 DEF Ask, ReadAdvanceInvoices, RequestFails, AskToKeep
  <2>5. CASE \/ \E p \in Starts : \E n \in 1..issued[p] :
                  Settle(p, n) \/ Unsettle(p, n) \/ VoidByHand(p, n)
             \/ PassDay \/ UNCHANGED billingVars
    BY <2>5 DEF Settle, Unsettle, VoidByHand, PassDay, billingVars
  <2> QED BY <1>1, <2>1, <2>2, <2>3, <2>4, <2>5 DEF BillingNext, SweepStep, ClerkStep
<1>2. BInv /\ [BillingNext]_billingVars => [Stays]_billingVars
  BY <1>1
<1> QED BY <1>2, BillingInvariant, PTL DEF BillingSpec, OverIsFinal

-----------------------------------------------------------------------------
(* The dates *)

(* A row of which more is known than its type: the next invoice is due as   *)
(* the terms say, and its period is the next one after those that passed    *)
(* since the billing anchor, unless the last one has.                       *)
RowHolds(s) ==
  /\ s \in Subscription
  /\ s.from <= LastDay + Cadence
  /\ s.nextBillingAt # Never => s.nextBillingAt = DueAt(s.from)
  /\ s.from <= s.anchor + Cadence * s.completed
  /\ s.remaining = 0 \/ s.from = s.anchor + Cadence * s.completed

StoresTyped ==
  /\ today \in Days
  /\ terms \in [inAdvance : BOOLEAN, early : BOOLEAN]
  /\ RowHolds(subscription)
  /\ schedules \subseteq Schedule
  /\ billingRuns \in [Starts -> BillingRun \cup {Never}]
  /\ issued \in [Starts -> Nat]
  /\ voided \subseteq Documents /\ settled \subseteq Documents
  /\ byHand \subseteq Documents /\ reopened \subseteq Documents
  /\ voidedLate \subseteq Starts
  /\ clerkActs \in 0..MaxClerkActs /\ billFaults \in 0..MaxBillFaults

CallTyped(w) ==
  /\ w \in Biller
  /\ w.phase = "billing" => RowHolds(w.sub)
  /\ w.phase = "recording" => w.period \in Starts
  /\ w.phase = "picked" => w.row \in Schedule

RequestTyped(q) ==
  /\ q \in Clerk
  /\ q.phase # "idle" => q.wants \in Schedule \cup {Keep}

TInv ==
  /\ StoresTyped
  /\ DOMAIN billers = Billers /\ \A b \in Billers : CallTyped(billers[b])
  /\ DOMAIN clerks = Clerks /\ \A c \in Clerks : RequestTyped(clerks[c])

LEMMA Numbers ==
  /\ Cadence \in Nat \ {0} /\ Lead \in 1..Cadence /\ LastDay \in Nat
  /\ Days \subseteq Starts /\ Starts \subseteq Nat /\ Never \notin Int
  /\ \A p : p \in Starts <=> p \in Nat /\ p <= LastDay + 2 * Cadence
  /\ \A t : t \in Days <=> t \in Nat /\ t <= LastDay
BY SubscriptionBillingAssumption DEF Days, Starts

LEMMA EarlyTyped ==
  ASSUME NEW now \in Days, NEW due \in TimeOrNever
  PROVE  InvoiceEarlyAt(now, due) \in TimeOrNever
<1>1. CASE terms.early /\ due # Never
  <2>1. due \in Starts
    BY <1>1 DEF TimeOrNever
  <2>2. Later(now, due - Lead) \in Starts
    BY <2>1, Numbers DEF Later
  <2> QED BY <1>1, <2>2 DEF InvoiceEarlyAt, TimeOrNever
<1> QED BY <1>1 DEF InvoiceEarlyAt, TimeOrNever

LEMMA DueTyped ==
  ASSUME NEW p \in Starts, p <= LastDay + Cadence
  PROVE  DueAt(p) \in Starts /\ p + Cadence \in Starts
BY Numbers DEF DueAt

(* A row is due at the earliest when its period begins.                     *)
LEMMA DueRow ==
  ASSUME NEW s, RowHolds(s), NEW now \in Days, s.nextBillingAt # Never, s.nextBillingAt <= now
  PROVE  /\ s.from \in Starts /\ s.from <= now /\ s.from <= LastDay
         /\ ~ terms.inAdvance => s.from + Cadence <= now
BY Numbers DEF RowHolds, Subscription, DueAt

LEMMA AdvancedHolds ==
  ASSUME NEW s, RowHolds(s), NEW now \in Days, s.nextBillingAt # Never, s.nextBillingAt <= now
  PROVE  RowHolds(Advanced(s, now))
<1>1. /\ s.from \in Starts /\ s.from <= LastDay /\ s.anchor \in Starts /\ s.completed \in Nat
      /\ ~ terms.inAdvance => s.from + Cadence <= LastDay
      /\ s \in Subscription
  BY DueRow, Numbers DEF RowHolds, Subscription
<1>2. PICK k : k = Cadence * s.completed
  OBVIOUS
<1>3. k \in Nat /\ Cadence * (s.completed + 1) = k + Cadence
  BY <1>1, <1>2, Numbers
<1>4. /\ s.from <= s.anchor + k
      /\ s.remaining = 0 \/ s.from = s.anchor + k
  BY <1>2 DEF RowHolds
<1> DEFINE cycles == IF s.remaining = Never THEN Never ELSE Later(s.remaining - 1, 0)
           ended  == cycles = 0
           next   == s.from + Cadence
           due    == IF ended THEN Never ELSE DueAt(next)
           served == IF terms.inAdvance \/ ended THEN s.from ELSE next
<1>5. /\ cycles \in Nat \cup {Never}
      /\ s.remaining = 0 => ended
  BY <1>1, Numbers DEF Subscription, Later
<1>6. next \in Starts /\ next <= LastDay + Cadence
  BY <1>1, Numbers
<1>7. due \in TimeOrNever /\ InvoiceEarlyAt(now, due) \in TimeOrNever
  BY <1>6, DueTyped, EarlyTyped DEF TimeOrNever
<1>8. served \in Starts /\ served + Cadence \in Starts
  BY <1>1, <1>6, Numbers
<1>9. ~ ended => s.anchor + Cadence * (s.completed + 1) = next
  BY <1>1, <1>3, <1>4, <1>5, Numbers
<1>10. PICK t : t = Advanced(s, now)
  OBVIOUS
<1>11. /\ t.status = (IF ended THEN "ENDED" ELSE "ACTIVE")
       /\ t.from = (IF ended THEN s.from ELSE next)
       /\ t.serviceFrom = served /\ t.serviceTo = served + Cadence
       /\ t.nextBillingAt = due /\ t.nextAdvanceAt = InvoiceEarlyAt(now, due)
       /\ t.completed = s.completed + 1 /\ t.remaining = cycles
       /\ t.anchor = s.anchor /\ t.cancelAtEnd = s.cancelAtEnd
       /\ t = [s EXCEPT !.status = t.status, !.from = t.from, !.serviceFrom = t.serviceFrom,
                        !.serviceTo = t.serviceTo, !.nextBillingAt = t.nextBillingAt,
                        !.nextAdvanceAt = t.nextAdvanceAt, !.completed = t.completed,
                        !.remaining = t.remaining]
  BY <1>1, <1>9, <1>10 DEF Advanced, Subscription
<1> HIDE DEF cycles, ended, next, due, served
<1>12. t \in Subscription
  BY <1>1, <1>5, <1>6, <1>7, <1>8, <1>11 DEF Subscription, Over, Alive, TimeOrNever
<1>13. /\ t.from <= LastDay + Cadence
       /\ t.nextBillingAt # Never => t.nextBillingAt = DueAt(t.from)
       /\ t.from <= t.anchor + Cadence * t.completed
       /\ t.remaining = 0 \/ t.from = t.anchor + Cadence * t.completed
  <2>1. PICK j : j = Cadence * t.completed
    OBVIOUS
  <2>2. j = k + Cadence
    BY <1>3, <1>11, <2>1
  <2>3. ended => t.remaining = 0
    BY <1>11 DEF ended
  <2>4. ~ ended => t.from = t.anchor + j
    BY <1>3, <1>9, <1>11, <2>2
  <2>5. t.from <= t.anchor + j
    BY <1>1, <1>3, <1>4, <1>11, <2>2, <2>4, Numbers
  <2>6. t.nextBillingAt # Never => t.nextBillingAt = DueAt(t.from)
    BY <1>11 DEF due
  <2> QED BY <1>1, <1>6, <1>11, <2>1, <2>3, <2>4, <2>5, <2>6, Numbers
<1> QED BY <1>10, <1>12, <1>13 DEF RowHolds

LEMMA PausedHolds ==
  ASSUME NEW s, RowHolds(s)
  PROVE  RowHolds(Paused(s))
<1>1. PICK t : t = Paused(s)
  OBVIOUS
<1>2. t \in Subscription /\ t.from = s.from /\ t.anchor = s.anchor /\ t.completed = s.completed
      /\ t.remaining = s.remaining /\ t.nextBillingAt = Never
  BY <1>1 DEF RowHolds, Paused, Subscription, TimeOrNever
<1> QED BY <1>1, <1>2 DEF RowHolds

LEMMA ResumedHolds ==
  ASSUME NEW s, RowHolds(s), NEW at \in Days, NEW fresh, NEW now \in Days
  PROVE  RowHolds(Resumed(s, at, fresh, now))
<1> DEFINE serviceEnd == IF s.serviceTo = Never THEN s.from + Cadence ELSE s.serviceTo
           continues  == ~ fresh /\ at < serviceEnd
           start      == IF continues THEN s.from ELSE at
           serviced   == IF s.serviceFrom = Never THEN s.from ELSE s.serviceFrom
<1>1. /\ s \in Subscription /\ s.from \in Starts /\ s.from <= LastDay + Cadence
      /\ s.serviceTo \in TimeOrNever /\ s.serviceFrom \in TimeOrNever /\ s.anchor \in Starts
      /\ s.completed \in Nat
  BY DEF RowHolds, Subscription
<1>2. at \in Starts /\ at <= LastDay /\ at + Cadence \in Starts
  BY Numbers
<1>3. serviceEnd \in Starts /\ serviced \in Starts
  BY <1>1, DueTyped DEF TimeOrNever
<1>4. start \in Starts /\ start <= LastDay + Cadence
  BY <1>1, <1>2, Numbers
<1>5. DueAt(start) \in Starts /\ InvoiceEarlyAt(now, DueAt(start)) \in TimeOrNever
  <2>1. DueAt(start) \in Starts
    BY <1>4, DueTyped
  <2>2. DueAt(start) \in TimeOrNever
    BY <2>1 DEF TimeOrNever
  <2> HIDE DEF start
  <2> QED BY <2>1, <2>2, EarlyTyped
<1>6. PICK t : t = Resumed(s, at, fresh, now)
  OBVIOUS
<1>7. t = [s EXCEPT !.status = "ACTIVE",
            !.serviceFrom = IF continues THEN serviced ELSE at,
            !.serviceTo = IF continues THEN serviceEnd ELSE at + Cadence,
            !.nextBillingAt = DueAt(start), !.nextAdvanceAt = InvoiceEarlyAt(now, DueAt(start)),
            !.from = start,
            !.anchor = IF continues THEN @ ELSE at,
            !.completed = IF continues THEN @ ELSE 0]
  BY <1>6 DEF Resumed
<1>8. continues => start = s.from
  OBVIOUS
<1>9. ~ continues => start = at
  OBVIOUS
<1> HIDE DEF serviceEnd, continues, start, serviced
<1>10. t \in Subscription
  BY <1>1, <1>2, <1>3, <1>4, <1>5, <1>7 DEF Subscription, Alive, TimeOrNever
<1>11. /\ t.from = start /\ t.nextBillingAt = DueAt(start) /\ t.remaining = s.remaining
       /\ continues => t.anchor = s.anchor /\ t.completed = s.completed
       /\ ~ continues => t.anchor = at /\ t.completed = 0
  BY <1>1, <1>7 DEF Subscription
<1>12. /\ t.from <= t.anchor + Cadence * t.completed
       /\ t.remaining = 0 \/ t.from = t.anchor + Cadence * t.completed
  <2>1. CASE continues
    BY <1>8, <1>11, <2>1 DEF RowHolds
  <2>2. CASE ~ continues
    BY <1>2, <1>9, <1>11, <2>2, Numbers
  <2> QED BY <2>1, <2>2
<1> QED BY <1>4, <1>6, <1>10, <1>11, <1>12 DEF RowHolds

LEMMA CanceledHolds ==
  ASSUME NEW s, RowHolds(s), NEW at \in Days
  PROVE  RowHolds(Canceled(s, at))
<1>1. PICK t : t = Canceled(s, at)
  OBVIOUS
<1>2. at \in TimeOrNever
  BY Numbers DEF TimeOrNever
<1>3. t \in Subscription /\ t.from = s.from /\ t.anchor = s.anchor /\ t.completed = s.completed
      /\ t.remaining = s.remaining /\ t.nextBillingAt = Never
  BY <1>1, <1>2 DEF RowHolds, Canceled, Subscription, TimeOrNever, Over
<1> QED BY <1>1, <1>3 DEF RowHolds

LEMMA EffectedHolds ==
  ASSUME NEW s, RowHolds(s), NEW r \in Schedule, NEW now \in Days
  PROVE  RowHolds(Effected(s, r, now))
<1>1. r.action \in {"PAUSE", "RESUME", "CANCEL"} /\ r.at \in Days
  BY DEF Schedule
<1> QED BY <1>1, PausedHolds, ResumedHolds, CanceledHolds DEF Effected

(* A row that differs in what its dates do not depend on                    *)
LEMMA OtherRowHolds ==
  ASSUME NEW s, RowHolds(s), NEW t, t \in Subscription, t.from = s.from, t.anchor = s.anchor,
         t.completed = s.completed, t.remaining = s.remaining, t.nextBillingAt = s.nextBillingAt
  PROVE  RowHolds(t)
BY DEF RowHolds

LEMMA AheadAgainHolds ==
  ASSUME NEW s, RowHolds(s), NEW now \in Days
  PROVE  RowHolds(AheadAgain(s, now))
<1>1. PICK e : e = IF s.status = "ACTIVE" /\ s.nextBillingAt # Never /\ s.nextBillingAt > now
                   THEN InvoiceEarlyAt(now, s.nextBillingAt) ELSE Never
  OBVIOUS
<1>2. s \in Subscription /\ s.nextBillingAt \in TimeOrNever
  BY DEF RowHolds, Subscription
<1>3. e \in TimeOrNever
  BY <1>1, <1>2, EarlyTyped DEF TimeOrNever
<1>4. PICK t : t = [s EXCEPT !.nextAdvanceAt = e]
  OBVIOUS
<1>5. t \in Subscription /\ t.from = s.from /\ t.anchor = s.anchor /\ t.completed = s.completed
      /\ t.remaining = s.remaining /\ t.nextBillingAt = s.nextBillingAt
  BY <1>2, <1>3, <1>4 DEF Subscription
<1>6. AheadAgain(s, now) = t
  BY <1>1, <1>4 DEF AheadAgain
<1> QED BY <1>5, <1>6, OtherRowHolds

LEMMA CreatedHolds ==
  ASSUME NEW status \in {"ACTIVE", "TRIALING"}, NEW start \in {0, 1},
         NEW cycles \in Nat \cup {Never}
  PROVE  RowHolds(Created(status, start, cycles))
<1>1. /\ start \in Starts /\ start <= LastDay + Cadence /\ 0 \in Starts /\ 0 \in Days
  BY Numbers
<1>2. DueAt(start) \in Starts /\ start + Cadence \in Starts
  BY <1>1, DueTyped
<1>3. InvoiceEarlyAt(0, DueAt(start)) \in TimeOrNever
  BY <1>1, <1>2, EarlyTyped DEF TimeOrNever
<1>4. Created(status, start, cycles) \in Subscription
  BY <1>1, <1>2, <1>3 DEF Created, Subscription, Alive, TimeOrNever
<1> QED BY <1>1, <1>4, Numbers DEF Created, RowHolds

-----------------------------------------------------------------------------
LEMMA RowHoldsStill ==
  ASSUME UNCHANGED terms
  PROVE  /\ \A s : RowHolds(s)' <=> RowHolds(s)
         /\ \A w : CallTyped(w)' <=> CallTyped(w)
         /\ \A q : RequestTyped(q)' <=> RequestTyped(q)
BY DEF RowHolds, DueAt, CallTyped, RequestTyped

LEMMA CallGoesOnTyped ==
  ASSUME TInv, NEW b \in Billers, NEW w, CallTyped(w), billers' = [billers EXCEPT ![b] = w],
         StoresTyped', UNCHANGED <<terms, clerks>>
  PROVE  TInv'
<1>1. DOMAIN billers' = Billers /\ \A d \in Billers : CallTyped(billers'[d])
  BY DEF TInv
<1>2. \A d \in Billers : CallTyped(billers[d])'
  <2> SUFFICES ASSUME NEW d \in Billers PROVE CallTyped(billers[d])'
    OBVIOUS
  <2>1. PICK v : v = billers'[d]
    OBVIOUS
  <2>2. CallTyped(v)'
    BY <1>1, <2>1, RowHoldsStill
  <2> QED BY <2>1, <2>2 DEF CallTyped, RowHolds, DueAt
<1>3. \A c \in Clerks : RequestTyped(clerks[c])'
  BY DEF TInv, RequestTyped
<1> QED BY <1>1, <1>2, <1>3 DEF TInv

LEMMA RequestGoesOnTyped ==
  ASSUME TInv, NEW c \in Clerks, NEW q, RequestTyped(q), clerks' = [clerks EXCEPT ![c] = q],
         StoresTyped', UNCHANGED <<terms, billers>>
  PROVE  TInv'
<1>1. DOMAIN clerks' = Clerks /\ \A e \in Clerks : RequestTyped(clerks[e])'
  BY DEF TInv, RequestTyped
<1>2. \A d \in Billers : CallTyped(billers[d])'
  BY DEF TInv, CallTyped, RowHolds, DueAt
<1> QED BY <1>1, <1>2 DEF TInv

(* What is left as it was keeps its type.                                   *)
LEMMA StoresLeft ==
  ASSUME StoresTyped,
         UNCHANGED <<today, terms, subscription, schedules, billingRuns, issued, voided, settled,
                     voidedLate, byHand, reopened>>,
         clerkActs' = clerkActs \/ (clerkActs < MaxClerkActs /\ clerkActs' = clerkActs + 1),
         billFaults' = billFaults \/ Fault
  PROVE  StoresTyped'
<1>1. clerkActs' \in 0..MaxClerkActs
  BY SubscriptionBillingAssumption DEF StoresTyped
<1>2. billFaults' \in 0..MaxBillFaults
  BY SubscriptionBillingAssumption DEF StoresTyped, Fault
<1> QED BY <1>1, <1>2 DEF StoresTyped, RowHolds, DueAt

LEMMA RestingTyped ==
  /\ CallTyped(Resting)
  /\ \A w : w \in Biller => CallTyped(AfterBilling(w))
<1>1. 0 \in Days /\ Never \in TimeOrNever
  BY Numbers DEF TimeOrNever
<1>2. Resting \in Biller
  BY <1>1 DEF Resting, Biller
<1>3. ASSUME NEW w \in Biller
      PROVE  CallTyped(AfterBilling(w))
  <2>1. w.asOf \in Days
    BY DEF Biller
  <2>2. [Resting EXCEPT !.phase = "draining", !.asOf = w.asOf] \in Biller
    BY <1>2, <2>1 DEF Resting, Biller
  <2> QED BY <1>2, <2>2 DEF AfterBilling, CallTyped, Resting
<1> QED BY <1>2, <1>3 DEF CallTyped, Resting

LEMMA CallStepTyped ==
  ASSUME TInv, NEW b \in Billers,
         \/ BeginSweep(b) \/ ClaimNothing(b) \/ ReadFailedPeriod(b) \/ PickSchedule(b)
         \/ EndSweep(b) \/ SweepDies(b) \/ CannotSerialize(b) \/ BillingFails(b)
  PROVE  TInv'
<1>1. /\ StoresTyped /\ CallTyped(billers[b]) /\ DOMAIN billers = Billers
      /\ billers[b] \in Biller /\ today \in Days
  BY DEF TInv, CallTyped, StoresTyped
<1>2. /\ UNCHANGED <<today, terms, subscription, schedules, billingRuns, issued, voided, settled,
                     voidedLate, byHand, reopened, clerks, clerkActs>>
      /\ billFaults' = billFaults \/ Fault
  BY DEF BeginSweep, ClaimNothing, ReadFailedPeriod, PickSchedule, EndSweep, SweepDies,
         CannotSerialize, BillingFails, Fails
<1>3. StoresTyped'
  BY <1>1, <1>2, StoresLeft
<1>4. \E w : billers' = [billers EXCEPT ![b] = w] /\ CallTyped(w)
  <2>1. CASE BeginSweep(b)
    <3> DEFINE w == [billers[b] EXCEPT !.phase = "claiming", !.asOf = today]
    <3>1. w \in Biller /\ w.phase = "claiming"
      BY <1>1 DEF Biller
    <3>2. billers' = [billers EXCEPT ![b] = w]
      BY <2>1 DEF BeginSweep
    <3> HIDE DEF w
    <3> QED BY <3>1, <3>2 DEF CallTyped
  <2>2. CASE ClaimNothing(b)
    <3> DEFINE w == [billers[b] EXCEPT !.phase = "draining"]
    <3>1. w \in Biller /\ w.phase = "draining"
      BY <1>1 DEF Biller
    <3>2. billers' = [billers EXCEPT ![b] = w]
      BY <2>2 DEF ClaimNothing
    <3> HIDE DEF w
    <3> QED BY <3>1, <3>2 DEF CallTyped
  <2>3. CASE ReadFailedPeriod(b)
    <3> DEFINE w == [billers[b] EXCEPT !.phase = "recording", !.period = subscription.from]
    <3>1. subscription.from \in Starts
      BY <1>1 DEF StoresTyped, RowHolds, Subscription
    <3>2. w \in Biller /\ w.phase = "recording" /\ w.period \in Starts
      BY <1>1, <3>1 DEF Biller, TimeOrNever
    <3>3. billers' = [billers EXCEPT ![b] = IF subscription.nextBillingAt = Never
                                            THEN AfterBilling(billers[b]) ELSE w]
      BY <2>3 DEF ReadFailedPeriod
    <3>4. CallTyped(w)
      <4> HIDE DEF w
      <4> QED BY <3>2 DEF CallTyped
    <3> HIDE DEF w
    <3> QED BY <1>1, <3>3, <3>4, RestingTyped
  <2>4. CASE PickSchedule(b)
    <3>1. PICK r \in schedules : billers' = [billers EXCEPT ![b].phase = "picked", ![b].row = r,
                                              ![b].status = subscription.status]
      BY <2>4 DEF PickSchedule, Drainable
    <3> DEFINE w == [billers[b] EXCEPT !.phase = "picked", !.row = r,
                                       !.status = subscription.status]
    <3>2. r \in Schedule /\ subscription.status \in Over \cup Alive \cup {"PAUSED", "unread"}
      BY <1>1 DEF StoresTyped, RowHolds, Subscription
    <3>3. w \in Biller /\ w.phase = "picked" /\ w.row \in Schedule
      BY <1>1, <3>2 DEF Biller
    <3>4. billers' = [billers EXCEPT ![b] = w]
      BY <1>1, <3>1
    <3> HIDE DEF w
    <3> QED BY <3>3, <3>4 DEF CallTyped
  <2>5. CASE EndSweep(b) \/ SweepDies(b)
    BY <2>5, RestingTyped DEF EndSweep, SweepDies
  <2>6. CASE CannotSerialize(b) \/ BillingFails(b)
    <3> DEFINE w == [Resting EXCEPT !.phase = "failing", !.manual = billers[b].manual,
                                    !.asOf = billers[b].asOf]
    <3>1. Resting \in Biller
      BY RestingTyped DEF CallTyped
    <3>2. w \in Biller /\ w.phase = "failing"
      BY <1>1, <3>1 DEF Biller, Resting
    <3>3. billers' = [billers EXCEPT ![b] = w]
      BY <2>6 DEF CannotSerialize, BillingFails, Fails
    <3> HIDE DEF w
    <3> QED BY <3>2, <3>3 DEF CallTyped
  <2> QED BY <2>1, <2>2, <2>3, <2>4, <2>5, <2>6
<1> QED BY <1>2, <1>3, <1>4, CallGoesOnTyped

LEMMA TakesTyped ==
  ASSUME TInv, NEW b \in Billers, (\E advance \in BOOLEAN : BillNow(b, advance)) \/ ClaimDue(b)
  PROVE  TInv'
<1>1. /\ StoresTyped /\ CallTyped(billers[b])
      /\ billers[b] \in Biller /\ today \in Days
  BY DEF TInv, CallTyped, StoresTyped
<1>2. /\ UNCHANGED <<today, terms, subscription, schedules, billingRuns, issued, voided, settled,
                     voidedLate, byHand, reopened, clerks, billFaults>>
      /\ clerkActs' = clerkActs \/ (clerkActs < MaxClerkActs /\ clerkActs' = clerkActs + 1)
  BY DEF BillNow, ClaimDue
<1>3. StoresTyped'
  BY <1>1, <1>2, StoresLeft
<1>4. PICK manual \in BOOLEAN, now \in Days, advance \in BOOLEAN : Takes(b, manual, now, advance)
  <2>1. billers[b].asOf \in Days /\ (subscription.nextBillingAt > billers[b].asOf) \in BOOLEAN
    BY <1>1 DEF Biller
  <2> QED BY <1>1, <2>1 DEF BillNow, ClaimDue
<1> DEFINE w == [Resting EXCEPT !.phase = "billing", !.manual = manual, !.asOf = now,
                    !.advance = advance,
                    !.sub = subscription, !.seen = schedules, !.plan = schedules,
                    !.todo = BeforeBilling(now), !.runs = billingRuns]
<1>5. w \in Biller
  <2>1. Resting \in Biller
    BY RestingTyped DEF CallTyped
  <2>2. BeforeBilling(now) \in SUBSET Schedule
    BY <1>1 DEF BeforeBilling, StoresTyped
  <2>3. subscription \in Subscription /\ schedules \in SUBSET Schedule
        /\ billingRuns \in [Starts -> BillingRun \cup {Never}]
    BY <1>1 DEF StoresTyped, RowHolds
  <2> QED BY <2>1, <2>2, <2>3 DEF Biller, Resting
<1>6. w.phase = "billing" /\ w.sub = subscription
  BY DEF Resting
<1>7. RowHolds(subscription)
  BY <1>1 DEF StoresTyped
<1>8. billers' = [billers EXCEPT ![b] = w]
  BY <1>4 DEF Takes
<1> HIDE DEF w
<1>9. CallTyped(w)
  BY <1>5, <1>6, <1>7 DEF CallTyped
<1> QED BY <1>2, <1>3, <1>8, <1>9, CallGoesOnTyped

LEMMA ResumeAfterTyped ==
  ASSUME NEW r \in Schedule
  PROVE  ResumeAfter(r) \subseteq Schedule
BY DEF ResumeAfter, Schedule

LEMMA ApplyBeforeTyped ==
  ASSUME TInv, NEW b \in Billers, ApplyBeforeBilling(b)
  PROVE  TInv'
<1> DEFINE w == billers[b]
<1>1. /\ StoresTyped /\ CallTyped(w) /\ DOMAIN billers = Billers
      /\ w \in Biller /\ w.phase = "billing"
  BY DEF TInv, CallTyped, StoresTyped, ApplyBeforeBilling
<1>2. /\ RowHolds(w.sub) /\ w.asOf \in Days
      /\ w.plan \subseteq Schedule /\ w.todo \subseteq Schedule
  BY <1>1 DEF CallTyped, Biller
<1>3. PICK r \in w.todo : billers' = [billers EXCEPT
        ![b].todo = @ \ {r},
        ![b].plan = IF AwaitsBilling(w.sub, r) THEN @
                    ELSE (@ \ {r}) \cup (IF CanApply(w.sub.status, r) THEN ResumeAfter(r)
                                         ELSE {}),
        ![b].sub = IF ~ AwaitsBilling(w.sub, r) /\ CanApply(w.sub.status, r)
                   THEN Effected(@, r, w.asOf) ELSE @]
  BY DEF ApplyBeforeBilling
<1>4. PICK plan, sub :
        /\ plan = IF AwaitsBilling(w.sub, r) THEN w.plan
                  ELSE (w.plan \ {r}) \cup (IF CanApply(w.sub.status, r) THEN ResumeAfter(r)
                                            ELSE {})
        /\ sub = IF ~ AwaitsBilling(w.sub, r) /\ CanApply(w.sub.status, r)
                 THEN Effected(w.sub, r, w.asOf) ELSE w.sub
  OBVIOUS
<1>5. r \in Schedule /\ ResumeAfter(r) \subseteq Schedule
  BY <1>2, <1>3, ResumeAfterTyped
<1>6. plan \subseteq Schedule
  BY <1>2, <1>4, <1>5
<1>7. RowHolds(sub)
  BY <1>2, <1>4, <1>5, EffectedHolds
<1> DEFINE v == [w EXCEPT !.todo = @ \ {r}, !.plan = plan, !.sub = sub]
<1>8. billers' = [billers EXCEPT ![b] = v]
  BY <1>1, <1>3, <1>4 DEF Biller
<1>9. sub \in Subscription
  BY <1>7 DEF RowHolds
<1>10. v \in Biller /\ v.phase = "billing" /\ v.sub = sub
  <2> HIDE DEF w
  <2> QED BY <1>1, <1>2, <1>6, <1>9 DEF Biller
<1>11. CallTyped(v)
  <2> HIDE DEF v
  <2> QED BY <1>7, <1>10 DEF CallTyped
<1>12. /\ UNCHANGED <<today, terms, subscription, schedules, billingRuns, issued, voided, settled,
                     voidedLate, byHand, reopened, clerks, clerkActs, billFaults>>
  BY DEF ApplyBeforeBilling
<1>13. StoresTyped'
  BY <1>1, <1>12, StoresLeft
<1> HIDE DEF v
<1> QED BY <1>8, <1>11, <1>12, <1>13, CallGoesOnTyped

-----------------------------------------------------------------------------
LEMMA RunsTyped ==
  ASSUME billingRuns \in [Starts -> BillingRun \cup {Never}], NEW p
  PROVE  /\ FailedRun(billingRuns[p]) = billingRuns[p] \/ FailedRun(billingRuns[p]) \in BillingRun
BY DEF FailedRun, BillingRun

LEMMA RecordTyped ==
  ASSUME TInv, NEW b \in Billers, RecordFailure(b)
  PROVE  TInv'
<1>1. StoresTyped /\ CallTyped(billers[b]) /\ billers[b] \in Biller
  BY DEF TInv, CallTyped
<1>2. PICK p : billingRuns' = [billingRuns EXCEPT ![p] = FailedRun(@)]
  BY DEF RecordFailure
<1>3. billingRuns' \in [Starts -> BillingRun \cup {Never}]
  BY <1>1, <1>2, RunsTyped DEF StoresTyped
<1>4. UNCHANGED <<today, terms, subscription, schedules, issued, voided, settled,
                  voidedLate, byHand, reopened, clerks, clerkActs, billFaults>>
  BY DEF RecordFailure
<1>5. StoresTyped'
  BY <1>1, <1>3, <1>4 DEF StoresTyped, RowHolds, DueAt
<1>6. billers' = [billers EXCEPT ![b] = AfterBilling(billers[b])]
  BY DEF RecordFailure
<1> QED BY <1>1, <1>4, <1>5, <1>6, RestingTyped, CallGoesOnTyped

LEMMA PickedTyped ==
  ASSUME TInv, NEW b \in Billers, ApplyPicked(b) \/ PickedFails(b)
  PROVE  TInv'
<1> DEFINE w == billers[b]
<1>1. StoresTyped /\ CallTyped(w) /\ w \in Biller /\ w.row \in Schedule /\ w.asOf \in Days
  BY DEF TInv, CallTyped, Biller, ApplyPicked, PickedFails
<1>2. /\ UNCHANGED <<today, terms, billingRuns, issued, voided, settled, voidedLate, byHand, reopened, clerks, clerkActs>>
      /\ billFaults' = billFaults \/ Fault
      /\ billers' = [billers EXCEPT ![b] = AfterBilling(w)]
  BY DEF ApplyPicked, PickedFails
<1>3. schedules' \subseteq schedules \cup ResumeAfter(w.row)
  BY DEF ApplyPicked, PickedFails
<1>4. schedules' \subseteq Schedule
  BY <1>1, <1>3, ResumeAfterTyped DEF StoresTyped
<1>5. PICK s : s = subscription'
  OBVIOUS
<1>6. s = subscription \/ s = Effected(subscription, w.row, w.asOf)
  BY <1>5 DEF ApplyPicked, PickedFails
<1>7. RowHolds(s)
  BY <1>1, <1>6, EffectedHolds DEF StoresTyped
<1>8. RowHolds(s)'
  BY <1>2, <1>7, RowHoldsStill
<1>9. RowHolds(subscription)'
  BY <1>5, <1>8 DEF RowHolds, DueAt
<1>10. billFaults' \in 0..MaxBillFaults
  BY <1>1, <1>2, SubscriptionBillingAssumption DEF StoresTyped, Fault
<1>11. StoresTyped'
  BY <1>1, <1>2, <1>4, <1>9, <1>10 DEF StoresTyped
<1> QED BY <1>1, <1>2, <1>11, RestingTyped, CallGoesOnTyped

LEMMA CommitTyped ==
  ASSUME TInv, NEW b \in Billers, NEW sub, NEW applied, Commits(b, sub, applied), RowHolds(sub),
         billingRuns' \in [Starts -> BillingRun \cup {Never}], issued' \in [Starts -> Nat]
  PROVE  TInv'
<1> DEFINE w == billers[b]
<1>1. StoresTyped /\ CallTyped(w) /\ w \in Biller /\ w.plan \subseteq Schedule
  BY DEF TInv, CallTyped, Biller
<1>2. /\ UNCHANGED <<today, terms, voided, settled, voidedLate, byHand, reopened, clerks, clerkActs, billFaults>>
      /\ billers' = [billers EXCEPT ![b] = AfterBilling(w)]
      /\ subscription' = sub
      /\ schedules' \subseteq schedules \cup w.plan
  BY DEF Commits
<1>3. RowHolds(sub)'
  BY <1>2, RowHoldsStill
<1>4. RowHolds(subscription)'
  BY <1>2, <1>3 DEF RowHolds, DueAt
<1>5. StoresTyped'
  BY <1>1, <1>2, <1>4 DEF StoresTyped
<1> QED BY <1>1, <1>2, <1>5, RestingTyped, CallGoesOnTyped

(* What a call bills is its copy of the row, which holds as the row does,   *)
(* and was due.                                                             *)
LEMMA BilledRow ==
  ASSUME TInv, NEW b \in Billers, billers[b].phase = "billing"
  PROVE  LET w == billers[b] IN
         /\ RowHolds(w.sub) /\ w.sub.from \in Starts /\ w.asOf \in Days /\ w.advance \in BOOLEAN
         /\ Billable(w) /\ ~ w.advance => RowHolds(Advanced(w.sub, w.asOf))
<1> DEFINE w == billers[b]
<1>1. CallTyped(w)
  BY DEF TInv
<1>2. RowHolds(w.sub) /\ w.sub.from \in Starts /\ w.asOf \in Days /\ w.advance \in BOOLEAN
  BY <1>1 DEF CallTyped, Biller, RowHolds, Subscription
<1>3. Billable(w) /\ ~ w.advance => w.sub.nextBillingAt # Never /\ w.sub.nextBillingAt <= w.asOf
  BY DEF Billable
<1> HIDE DEF w
<1>4. Billable(w) /\ ~ w.advance => RowHolds(Advanced(w.sub, w.asOf))
  BY <1>2, <1>3, AdvancedHolds
<1> QED BY <1>2, <1>4 DEF w

LEMMA SkipTyped ==
  ASSUME TInv, NEW b \in Billers, SkipBilling(b)
  PROVE  TInv'
<1>1. RowHolds(billers[b].sub)
  BY BilledRow DEF SkipBilling
<1>2. Commits(b, billers[b].sub, {}) /\ UNCHANGED <<billingRuns, issued>>
  BY DEF SkipBilling
<1> QED BY <1>1, <1>2, CommitTyped DEF TInv, StoresTyped

LEMMA PassTyped ==
  ASSUME TInv, NEW b \in Billers, PassPeriod(b)
  PROVE  TInv'
<1> DEFINE w == billers[b]
           p == w.sub.from
<1>1. w.phase = "billing" /\ Billable(w) /\ ~ w.advance /\ Succeeded(w.runs[p])
      /\ Commits(b, Advanced(w.sub, w.asOf), {})
      /\ billingRuns' = [billingRuns EXCEPT ![p].passed = TRUE] /\ issued' = issued
  BY DEF PassPeriod, Invoiced
<1>2. RowHolds(Advanced(w.sub, w.asOf)) /\ p \in Starts
  BY <1>1, BilledRow
<1>3. w.runs = billingRuns
  BY <1>1 DEF Commits, Conflict
<1>4. issued \in [Starts -> Nat] /\ billingRuns \in [Starts -> BillingRun \cup {Never}]
  BY DEF TInv, StoresTyped
<1> HIDE DEF p, w
<1>5. billingRuns[p] \in BillingRun
  BY <1>1, <1>2, <1>3, <1>4 DEF Succeeded
<1>6. PICK run : run = [billingRuns[p] EXCEPT !.passed = TRUE]
  OBVIOUS
<1>7. run \in BillingRun /\ billingRuns' = [billingRuns EXCEPT ![p] = run]
  BY <1>1, <1>5, <1>6 DEF BillingRun
<1>8. billingRuns' \in [Starts -> BillingRun \cup {Never}]
  BY <1>4, <1>7
<1> QED BY <1>1, <1>2, <1>4, <1>8, CommitTyped

LEMMA InvoiceTyped ==
  ASSUME TInv, NEW b \in Billers, InvoicePeriod(b)
  PROVE  TInv'
<1> DEFINE w == billers[b]
           p == w.sub.from
<1>1. w.phase = "billing" /\ Billable(w) /\ ~ Succeeded(w.runs[p])
      /\ billingRuns' = [billingRuns EXCEPT ![p] = RunOf(w)]
      /\ issued' = [issued EXCEPT ![p] = @ + 1]
  BY DEF InvoicePeriod, Invoiced, InvoiceMade
<1>2. RowHolds(w.sub) /\ p \in Starts /\ w.advance \in BOOLEAN
      /\ (~ w.advance => RowHolds(Advanced(w.sub, w.asOf)))
  BY <1>1, BilledRow
<1>3. w \in Biller /\ w.plan \subseteq Schedule
  BY DEF TInv, CallTyped, Biller
<1>4. issued \in [Starts -> Nat] /\ billingRuns \in [Starts -> BillingRun \cup {Never}]
  BY DEF TInv, StoresTyped
<1>5. \E sub, applied : Commits(b, sub, applied) /\ RowHolds(sub)
  <2>1. CASE w.advance /\ Commits(b, [w.sub EXCEPT !.nextAdvanceAt = Never], {})
    <3>1. PICK t : t = [w.sub EXCEPT !.nextAdvanceAt = Never]
      OBVIOUS
    <3>2. w.sub \in Subscription
      BY <1>2 DEF RowHolds
    <3>3. t \in Subscription /\ t.from = w.sub.from /\ t.anchor = w.sub.anchor
          /\ t.completed = w.sub.completed /\ t.remaining = w.sub.remaining
          /\ t.nextBillingAt = w.sub.nextBillingAt
      <4> HIDE DEF w
      <4> QED BY <3>1, <3>2 DEF Subscription, TimeOrNever
    <3>4. RowHolds(t)
      BY <1>2, <3>3, OtherRowHolds
    <3> QED BY <2>1, <3>1, <3>4
  <2>2. ASSUME NEW r \in Final(w), Commits(b, Canceled(w.sub, r.at), {r})
        PROVE  \E sub, applied : Commits(b, sub, applied) /\ RowHolds(sub)
    <3>1. r.at \in Days
      BY <1>3, <2>2 DEF Final, Cancellations, Schedule
    <3>2. RowHolds(Canceled(w.sub, r.at))
      BY <1>2, <3>1, CanceledHolds
    <3> QED BY <2>2, <3>2
  <2>3. CASE ~ w.advance /\ Commits(b, Advanced(w.sub, w.asOf), {})
    BY <1>2, <2>3
  <2> QED BY <2>1, <2>2, <2>3 DEF InvoicePeriod
<1>6. w.runs = billingRuns
  BY <1>5 DEF Commits, Conflict
<1>7. RunOf(w) \in BillingRun
  BY <1>2, <1>4, <1>6 DEF RunOf, BillingRun
<1> HIDE DEF w, p
<1>8. billingRuns' \in [Starts -> BillingRun \cup {Never}] /\ issued' \in [Starts -> Nat]
  BY <1>1, <1>2, <1>4, <1>7
<1> QED BY <1>5, <1>8, CommitTyped

-----------------------------------------------------------------------------
(* Requests *)
LEMMA AwayTyped == RequestTyped(Away)
<1>1. 0 \in Days
  BY Numbers
<1> QED BY <1>1 DEF RequestTyped, Away, Clerk

LEMMA RequestStepTyped ==
  ASSUME TInv, NEW c \in Clerks,
         \/ \E r \in Schedule : Ask(c, r)
         \/ AskToKeep(c) \/ ReadAdvanceInvoices(c) \/ RequestFails(c)
  PROVE  TInv'
<1>1. StoresTyped /\ clerks[c] \in Clerk /\ RequestTyped(clerks[c])
  BY DEF TInv, RequestTyped
<1>2. /\ UNCHANGED <<today, terms, subscription, schedules, billingRuns, issued, voided, settled,
                     voidedLate, byHand, reopened, billers, billFaults>>
      /\ clerkActs' = clerkActs \/ (clerkActs < MaxClerkActs /\ clerkActs' = clerkActs + 1)
  BY DEF Ask, Asks, AskToKeep, ReadAdvanceInvoices, RequestFails
<1>3. StoresTyped'
  BY <1>1, <1>2, StoresLeft
<1>4. ASSUME NEW r \in Schedule \cup {Keep},
             clerks' = [clerks EXCEPT ![c] = [Away EXCEPT !.phase = "checked", !.wants = r,
                                                !.now = today, !.status = subscription.status]]
      PROVE  \E q : clerks' = [clerks EXCEPT ![c] = q] /\ RequestTyped(q)
  <2> DEFINE q == [Away EXCEPT !.phase = "checked", !.wants = r, !.now = today,
                               !.status = subscription.status]
  <2>1. today \in Days /\ subscription.status \in Over \cup Alive \cup {"PAUSED", "unread"}
    BY <1>1 DEF StoresTyped, RowHolds, Subscription
  <2>2. Away \in Clerk
    BY AwayTyped DEF RequestTyped
  <2>3. q \in Clerk /\ q.wants = r
    BY <2>1, <2>2 DEF Clerk, Away
  <2> HIDE DEF q
  <2>4. RequestTyped(q)
    BY <2>3 DEF RequestTyped
  <2> QED BY <1>4, <2>4 DEF q
<1>5. CASE ReadAdvanceInvoices(c)
  <2> DEFINE found == {<<p, issued[p]>> : p \in {v \in Starts : Ahead(v)}}
             q == [clerks[c] EXCEPT !.phase = "found", !.found = found]
  <2>1. clerks' = [clerks EXCEPT ![c] = IF found \cap settled # {} THEN Away ELSE q]
        /\ clerks[c].phase = "checked"
    BY <1>5 DEF ReadAdvanceInvoices
  <2>2. found \subseteq Starts \X Nat
    BY <1>1 DEF StoresTyped
  <2>3. q \in Clerk /\ q.wants = clerks[c].wants
    <3> HIDE DEF found
    <3> QED BY <1>1, <2>2 DEF Clerk
  <2> HIDE DEF q, found
  <2>4. RequestTyped(q)
    BY <1>1, <2>1, <2>3 DEF RequestTyped
  <2>5. \E v : clerks' = [clerks EXCEPT ![c] = v] /\ RequestTyped(v)
    BY <2>1, <2>4, AwayTyped
  <2> QED BY <1>2, <1>3, <2>5, RequestGoesOnTyped
<1>6. CASE RequestFails(c)
  BY <1>2, <1>3, <1>6, AwayTyped, RequestGoesOnTyped DEF RequestFails
<1> QED BY <1>2, <1>3, <1>4, <1>5, <1>6, RequestGoesOnTyped DEF Ask, AskToKeep

LEMMA InvalidatesTyped ==
  ASSUME StoresTyped, NEW found, found \subseteq Starts \X Nat, InvalidatesAdvance(found)
  PROVE  /\ billingRuns' \in [Starts -> BillingRun \cup {Never}]
         /\ voided' \subseteq Documents /\ voidedLate' \subseteq Starts
<1> DEFINE periods == {x[1] : x \in found}
<1>1. periods \subseteq Starts
  OBVIOUS
<1>2. /\ voided' = voided \cup found
      /\ billingRuns' = [p \in Starts |-> IF p \in periods THEN Never ELSE billingRuns[p]]
      /\ voidedLate' = voidedLate \cup {p \in periods : billingRuns[p].passed}
  BY DEF InvalidatesAdvance
<1> HIDE DEF periods
<1> QED BY <1>1, <1>2 DEF StoresTyped, Documents

LEMMA PauseOrCancelTyped ==
  ASSUME TInv, BInv, NEW c \in Clerks, PauseOrCancel(c)
  PROVE  TInv'
<1> DEFINE q    == clerks[c]
           r    == q.wants
           base == IF q.found = {} THEN subscription ELSE AheadAgain(subscription, q.now)
<1>1. StoresTyped /\ q \in Clerk /\ RequestTyped(q) /\ q.phase = "found"
  BY DEF TInv, RequestTyped, PauseOrCancel
<1>2. q.now \in Days /\ q.found \subseteq Starts \X Nat /\ r \in Schedule
  <2>1. r.action \in {"PAUSE", "CANCEL"}
    BY <1>1 DEF BInv, RequestsInv, Checked
  <2> QED BY <1>1, <2>1 DEF Clerk, RequestTyped, Keep
<1>3. /\ InvalidatesAdvance(q.found) /\ Reschedules(r, q.now)
      /\ subscription' = IF r.at <= q.now THEN Effected(base, r, q.now)
                         ELSE IF r.action = "CANCEL" THEN [base EXCEPT !.cancelAtEnd = TRUE]
                         ELSE base
      /\ clerks' = [clerks EXCEPT ![c] = Away]
      /\ UNCHANGED <<today, terms, issued, settled, billers, byHand, reopened, clerkActs,
                     billFaults>>
  BY DEF PauseOrCancel
<1>4. RowHolds(base)
  BY <1>1, <1>2, AheadAgainHolds DEF StoresTyped
<1>5. RowHolds([base EXCEPT !.cancelAtEnd = TRUE])
  <2> HIDE DEF base
  <2>1. PICK t : t = [base EXCEPT !.cancelAtEnd = TRUE]
    OBVIOUS
  <2>2. base \in Subscription
    BY <1>4 DEF RowHolds
  <2>3. t \in Subscription /\ t.from = base.from /\ t.anchor = base.anchor
        /\ t.completed = base.completed /\ t.remaining = base.remaining
        /\ t.nextBillingAt = base.nextBillingAt
    BY <2>1, <2>2 DEF Subscription
  <2> QED BY <1>4, <2>1, <2>3, OtherRowHolds
<1> HIDE DEF base
<1>6. PICK s : s = subscription'
  OBVIOUS
<1>7. RowHolds(s)
  BY <1>2, <1>3, <1>4, <1>5, <1>6, EffectedHolds
<1>8. RowHolds(s)'
  BY <1>3, <1>7, RowHoldsStill
<1>9. RowHolds(subscription)'
  BY <1>6, <1>8 DEF RowHolds, DueAt
<1>10. schedules' \subseteq schedules \cup ResumeAfter(r) \cup {r}
  BY <1>3 DEF Reschedules
<1>11. schedules' \subseteq Schedule
  BY <1>1, <1>2, <1>10, ResumeAfterTyped DEF StoresTyped
<1>12. /\ billingRuns' \in [Starts -> BillingRun \cup {Never}]
       /\ voided' \subseteq Documents /\ voidedLate' \subseteq Starts
  BY <1>1, <1>2, <1>3, InvalidatesTyped
<1>13. StoresTyped'
  BY <1>1, <1>3, <1>9, <1>11, <1>12 DEF StoresTyped
<1> QED BY <1>3, <1>13, AwayTyped, RequestGoesOnTyped

LEMMA ResumeOrKeepTyped ==
  ASSUME TInv, NEW c \in Clerks, Resume(c) \/ KeepSubscription(c)
  PROVE  TInv'
<1> DEFINE q == clerks[c]
           r == q.wants
<1>1. StoresTyped /\ q \in Clerk /\ RequestTyped(q) /\ q.phase = "checked" /\ q.now \in Days
      /\ RowHolds(subscription)
  BY DEF TInv, RequestTyped, Clerk, StoresTyped, Resume, KeepSubscription
<1>2. /\ clerks' = [clerks EXCEPT ![c] = Away]
      /\ UNCHANGED <<today, terms, billingRuns, issued, voided, settled, billers, voidedLate,
                     byHand, reopened, clerkActs, billFaults>>
  BY DEF Resume, KeepSubscription
<1>3. PICK s : s = subscription'
  OBVIOUS
<1>4. RowHolds(s) /\ schedules' \subseteq Schedule
  <2>1. CASE Resume(c)
    <3>1. r \in Schedule
      BY <1>1, <2>1 DEF Resume, RequestTyped, Keep
    <3>2. schedules' \subseteq schedules \cup ResumeAfter(r) \cup {r}
      BY <2>1 DEF Resume, Reschedules
    <3>3. schedules' \subseteq Schedule
      BY <1>1, <3>1, <3>2, ResumeAfterTyped DEF StoresTyped
    <3>4. s = subscription \/ s = Effected(subscription, r, q.now)
      BY <1>3, <2>1 DEF Resume
    <3> QED BY <1>1, <3>1, <3>3, <3>4, EffectedHolds
  <2>2. CASE KeepSubscription(c)
    <3>1. s = [subscription EXCEPT !.cancelAtEnd = FALSE] /\ subscription \in Subscription
      BY <1>1, <1>3, <2>2 DEF KeepSubscription, RowHolds
    <3>2. s \in Subscription /\ s.from = subscription.from /\ s.anchor = subscription.anchor
          /\ s.completed = subscription.completed /\ s.remaining = subscription.remaining
          /\ s.nextBillingAt = subscription.nextBillingAt
      BY <3>1 DEF Subscription
    <3>3. RowHolds(s)
      BY <1>1, <3>2, OtherRowHolds
    <3> QED BY <1>1, <2>2, <3>3 DEF KeepSubscription, StoresTyped
  <2> QED BY <2>1, <2>2
<1>5. RowHolds(s)'
  BY <1>2, <1>4, RowHoldsStill
<1>6. RowHolds(subscription)'
  BY <1>3, <1>5 DEF RowHolds, DueAt
<1>7. StoresTyped'
  BY <1>1, <1>2, <1>4, <1>6 DEF StoresTyped
<1> QED BY <1>2, <1>7, AwayTyped, RequestGoesOnTyped

LEMMA TypedInitially == BillingInit => TInv
<1> SUFFICES ASSUME BillingInit PROVE TInv
  OBVIOUS
<1>1. 0 \in Days /\ 0 \in 0..MaxClerkActs /\ 0 \in 0..MaxBillFaults
  BY Numbers, SubscriptionBillingAssumption
<1>2. RowHolds(subscription)
  BY CreatedHolds, SubscriptionBillingAssumption DEF BillingInit
<1>3. StoresTyped
  BY <1>1, <1>2 DEF BillingInit, StoresTyped
<1>4. DOMAIN billers = Billers /\ \A b \in Billers : CallTyped(billers[b])
  BY RestingTyped DEF BillingInit
<1>5. DOMAIN clerks = Clerks /\ \A c \in Clerks : RequestTyped(clerks[c])
  BY AwayTyped DEF BillingInit
<1> QED BY <1>3, <1>4, <1>5 DEF TInv

LEMMA TypedStep ==
  ASSUME TInv, BInv, [BillingNext]_billingVars
  PROVE  TInv'
<1>1. ASSUME NEW b \in Billers, SweepStep(b) PROVE TInv'
  <2>1. CASE ApplyBeforeBilling(b) \/ SkipBilling(b) \/ PassPeriod(b) \/ InvoicePeriod(b)
    BY <2>1, ApplyBeforeTyped, SkipTyped, PassTyped, InvoiceTyped
  <2>2. CASE ClaimDue(b) \/ RecordFailure(b) \/ ApplyPicked(b)
    BY <2>2, TakesTyped, RecordTyped, PickedTyped
  <2>3. CASE \/ BeginSweep(b) \/ ClaimNothing(b) \/ ReadFailedPeriod(b) \/ PickSchedule(b)
             \/ EndSweep(b) \/ CannotSerialize(b)
    BY <2>3, CallStepTyped
  <2> QED BY <1>1, <2>1, <2>2, <2>3 DEF SweepStep
<1>2. ASSUME NEW b \in Billers, BillingFails(b) \/ PickedFails(b) \/ SweepDies(b) PROVE TInv'
  BY <1>2, CallStepTyped, PickedTyped
<1>3. ASSUME NEW b \in Billers, \E advance \in BOOLEAN : BillNow(b, advance) PROVE TInv'
  BY <1>3, TakesTyped
<1>4. ASSUME NEW c \in Clerks, ClerkStep(c) PROVE TInv'
  BY <1>4, RequestStepTyped, PauseOrCancelTyped, ResumeOrKeepTyped DEF ClerkStep
<1>5. CASE \/ \E p \in Starts : \E n \in 1..issued[p] :
                Settle(p, n) \/ Unsettle(p, n) \/ VoidByHand(p, n)
           \/ PassDay \/ UNCHANGED billingVars
  <2>1. /\ UNCHANGED <<terms, subscription, schedules, billingRuns, issued, billers,
                       clerks, voidedLate, clerkActs, billFaults>>
        /\ voided' \subseteq Documents /\ settled' \subseteq Documents
        /\ byHand' \subseteq Documents /\ reopened' \subseteq Documents
        /\ today' = today \/ (today < LastDay /\ today' = today + 1)
    <3>1. \A p \in Starts : \A n \in 1..issued[p] : <<p, n>> \in Documents
      BY DEF TInv, StoresTyped, Documents
    <3>2. /\ voided \subseteq Documents /\ settled \subseteq Documents
          /\ byHand \subseteq Documents /\ reopened \subseteq Documents
      BY DEF TInv, StoresTyped
    <3>3. CASE PassDay \/ UNCHANGED billingVars
      BY <3>2, <3>3 DEF PassDay, billingVars
    <3>4. ASSUME NEW p \in Starts, NEW n \in 1..issued[p],
                 Settle(p, n) \/ Unsettle(p, n) \/ VoidByHand(p, n)
          PROVE  /\ UNCHANGED <<terms, subscription, schedules, billingRuns, issued, billers,
                              clerks, voidedLate, clerkActs, billFaults>>
                 /\ voided' \subseteq Documents /\ settled' \subseteq Documents
                 /\ byHand' \subseteq Documents /\ reopened' \subseteq Documents
                 /\ today' = today
      BY <3>1, <3>2, <3>4 DEF Settle, Unsettle, VoidByHand
    <3> QED BY <1>5, <3>3, <3>4
  <2>2. today' \in Days
    BY <2>1, Numbers DEF TInv, StoresTyped
  <2>3. StoresTyped'
    BY <2>1, <2>2 DEF TInv, StoresTyped, RowHolds, DueAt
  <2>4. /\ \A b \in Billers : CallTyped(billers[b])'
        /\ \A c \in Clerks : RequestTyped(clerks[c])'
    BY <2>1 DEF TInv, CallTyped, RequestTyped, RowHolds, DueAt
  <2> QED BY <2>1, <2>3, <2>4 DEF TInv
<1> QED BY <1>1, <1>2, <1>3, <1>4, <1>5 DEF BillingNext

LEMMA BillingTyped == BillingSpec => []TInv
<1>1. TInv /\ BInv /\ [BillingNext]_billingVars => TInv'
  BY TypedStep
<1> QED BY TypedInitially, BillingInvariant, <1>1, PTL DEF BillingSpec

(* The row's dates, and those of a call's copy of it, stay within the       *)
(* calendar: no sequence of sweeps, pauses, resumes and cancellations moves *)
(* a subscription more than two periods past the last day.  The proof has   *)
(* the reason, which TInv states: it is due when its terms say, and has     *)
(* counted the periods since its anchor.                                    *)
THEOREM BillingTypeCorrect == BillingSpec => []BillingTypeOK
<1>1. TInv => BillingTypeOK
  BY DEF TInv, StoresTyped, CallTyped, RequestTyped, RowHolds, BillingTypeOK
<1> QED BY <1>1, BillingTyped, PTL

-----------------------------------------------------------------------------
(* The periods that need no invoice any more.  No step takes one of them    *)
(* back: a request that voids the invoice of a passed period is noted.      *)
DoneWith ==
  {p \in Starts : \/ p \in voidedLate
                  \/ /\ billingRuns[p] # Never /\ billingRuns[p].passed /\ issued[p] > 0
                     /\ <<p, issued[p]>> \notin voided \/ <<p, issued[p]>> \in byHand}

(* Every period that has passed for the row s is one of the set done.       *)
PassedWithin(s, done) ==
  \A n \in 0..(s.completed - 1) :
    LET p == s.anchor + n * Cadence IN
    p < s.from \/ (p = s.from /\ s.status = "ENDED") => p \in done

PassedRunsSucceeded ==
  \A p \in Starts : billingRuns[p] # Never /\ billingRuns[p].passed => Succeeded(billingRuns[p])

PInv ==
  /\ PassedRunsSucceeded
  /\ PassedWithin(subscription, DoneWith)
  /\ \A b \in Billers : Billing(b) => PassedWithin(billers[b].sub, DoneWith)

LEMMA PassedWithinGrows ==
  ASSUME NEW s, NEW done, NEW more, done \subseteq more, PassedWithin(s, done)
  PROVE  PassedWithin(s, more)
BY DEF PassedWithin

(* A row from which as much, or nothing, has passed                         *)
LEMMA AsMuchPassed ==
  ASSUME NEW s, NEW done, PassedWithin(s, done), NEW t,
         \/ /\ t.from = s.from /\ t.anchor = s.anchor /\ t.completed = s.completed
            /\ t.status = "ENDED" => s.status = "ENDED"
         \/ t.completed = 0
  PROVE  PassedWithin(t, done)
BY DEF PassedWithin

LEMMA EffectedPassed ==
  ASSUME NEW s, RowHolds(s), NEW done, PassedWithin(s, done), NEW r \in Schedule, NEW now
  PROVE  PassedWithin(Effected(s, r, now), done)
<1>1. s \in Subscription /\ r.action \in {"PAUSE", "RESUME", "CANCEL"}
  BY DEF RowHolds, Schedule
<1>2. CASE r.action = "PAUSE"
  <2>1. PICK t : t = Paused(s)
    OBVIOUS
  <2>2. t.from = s.from /\ t.anchor = s.anchor /\ t.completed = s.completed /\ t.status = "PAUSED"
    BY <1>1, <2>1 DEF Paused, Subscription
  <2> QED BY <1>2, <2>1, <2>2, AsMuchPassed DEF Effected
<1>3. CASE r.action = "CANCEL"
  <2>1. PICK t : t = Canceled(s, r.at)
    OBVIOUS
  <2>2. t.from = s.from /\ t.anchor = s.anchor /\ t.completed = s.completed /\ t.status = "CANCELED"
    BY <1>1, <2>1 DEF Canceled, Subscription
  <2> QED BY <1>3, <2>1, <2>2, AsMuchPassed DEF Effected
<1>4. CASE r.action = "RESUME"
  <2>1. PICK t : t = Resumed(s, r.at, r.fresh, now)
    OBVIOUS
  <2>2. t.status = "ACTIVE"
        /\ \/ t.from = s.from /\ t.anchor = s.anchor /\ t.completed = s.completed
           \/ t.completed = 0
    BY <1>1, <2>1 DEF Resumed, Subscription
  <2> QED BY <1>4, <2>1, <2>2, AsMuchPassed DEF Effected
<1> QED BY <1>1, <1>2, <1>3, <1>4

(* A row moves on past a period that needs no invoice any more.             *)
LEMMA AdvancedPassed ==
  ASSUME NEW s, RowHolds(s), NEW done, PassedWithin(s, done), s.from \in done, NEW now
  PROVE  PassedWithin(Advanced(s, now), done)
<1> DEFINE cycles == IF s.remaining = Never THEN Never ELSE Later(s.remaining - 1, 0)
           ended  == cycles = 0
<1>1. s \in Subscription /\ s.completed \in Nat /\ s.anchor \in Int /\ s.from \in Int
  BY Numbers DEF RowHolds, Subscription
<1>2. PICK t : t = Advanced(s, now)
  OBVIOUS
<1>3. PICK next : next = s.anchor + Cadence * (s.completed + 1)
  OBVIOUS
<1>4. /\ t.completed = s.completed + 1 /\ t.anchor = s.anchor
      /\ t.status = (IF ended THEN "ENDED" ELSE "ACTIVE")
      /\ t.from = (IF ended THEN s.from ELSE next)
  BY <1>1, <1>2, <1>3 DEF Advanced, Subscription
<1>5. s.remaining = 0 => ended
  BY Numbers DEF Later
<1> HIDE DEF ended, cycles
<1>6. PICK k : k = Cadence * s.completed
  OBVIOUS
<1>7. k \in Nat /\ s.completed * Cadence = k /\ next = s.anchor + k + Cadence
      /\ s.from <= s.anchor + k /\ (~ ended => s.from = s.anchor + k)
  BY <1>1, <1>3, <1>5, <1>6, Numbers DEF RowHolds
<1>8. ASSUME NEW n \in 0..(t.completed - 1), NEW p, p = t.anchor + n * Cadence,
             p < t.from \/ (p = t.from /\ t.status = "ENDED")
      PROVE  p \in done
  <2>1. n \in 0..s.completed
    BY <1>1, <1>4, <1>8
  <2>2. CASE n = s.completed
    <3>1. p = s.anchor + k
      BY <1>4, <1>7, <1>8, <2>2
    <3>2. p = s.from
      BY <1>1, <1>4, <1>7, <1>8, <3>1
    <3> QED BY <3>2
  <2>3. CASE n # s.completed
    <3>1. n \in 0..(s.completed - 1)
      BY <1>1, <2>1, <2>3
    <3>2. PICK j : j = n * Cadence
      OBVIOUS
    <3>3. j \in Nat /\ j <= k - Cadence
      <4>1. n <= s.completed - 1 /\ n \in Nat /\ Cadence \in Nat
        BY <1>1, <3>1, Numbers
      <4>2. n * Cadence <= (s.completed - 1) * Cadence /\ n * Cadence \in Nat
        BY <1>1, <4>1
      <4>3. (s.completed - 1) * Cadence = s.completed * Cadence - Cadence
        BY <1>1, <4>1
      <4> QED BY <1>7, <3>2, <4>2, <4>3
    <3>4. p = s.anchor + j
      BY <1>4, <1>8, <3>2
    <3>5. p < s.from \/ p = s.from
      <4>1. CASE ended
        BY <1>1, <1>4, <1>8, <3>3, <3>4, <4>1
      <4>2. CASE ~ ended
        BY <1>1, <1>7, <3>3, <3>4, <4>2, Numbers
      <4> QED BY <4>1, <4>2
    <3>6. p < s.from => p \in done
      BY <3>1, <3>2, <3>4 DEF PassedWithin
    <3> QED BY <3>5, <3>6
  <2> QED BY <2>2, <2>3
<1> QED BY <1>2, <1>8 DEF PassedWithin

-----------------------------------------------------------------------------
(* No step takes back that a period needs no invoice any more.              *)
LEMMA DoneUntouched ==
  ASSUME PInv, UNCHANGED <<billingRuns, issued, voided, voidedLate, byHand>>
  PROVE  PassedRunsSucceeded' /\ DoneWith \subseteq DoneWith'
BY DEF PInv, PassedRunsSucceeded, DoneWith, Succeeded

LEMMA DoneThroughRecord ==
  ASSUME TInv, PInv, NEW b \in Billers, RecordFailure(b)
  PROVE  PassedRunsSucceeded' /\ DoneWith \subseteq DoneWith'
<1>1. PICK p : billingRuns' = [billingRuns EXCEPT ![p] = FailedRun(@)]
  BY DEF RecordFailure
<1>2. UNCHANGED <<issued, voided, voidedLate, byHand>>
  BY DEF RecordFailure
<1>3. \A q \in Starts : \/ billingRuns'[q] = billingRuns[q]
                        \/ billingRuns[q] = Never /\ ~ billingRuns'[q].passed
  BY <1>1 DEF FailedRun, TInv, StoresTyped
<1> QED BY <1>2, <1>3 DEF PInv, PassedRunsSucceeded, DoneWith, Succeeded

LEMMA DoneThroughInvalidation ==
  ASSUME TInv, PInv, NEW found, found \subseteq Starts \X Nat, InvalidatesAdvance(found),
         UNCHANGED <<issued, byHand>>
  PROVE  PassedRunsSucceeded' /\ DoneWith \subseteq DoneWith'
<1> DEFINE periods == {x[1] : x \in found}
<1>1. /\ voided' = voided \cup found
      /\ billingRuns' = [p \in Starts |-> IF p \in periods THEN Never ELSE billingRuns[p]]
      /\ voidedLate' = voidedLate \cup {p \in periods : billingRuns[p].passed}
  BY DEF InvalidatesAdvance
<1>2. \A p, n : <<p, n>> \in found => p \in periods
  OBVIOUS
<1> HIDE DEF periods
<1>3. ASSUME NEW p \in DoneWith
      PROVE  p \in DoneWith'
  BY <1>1, <1>2, <1>3 DEF DoneWith
<1> QED BY <1>1, <1>3 DEF PInv, PassedRunsSucceeded, Succeeded

(* What is voided by hand is marked so, and what is reopened is not void.   *)
LEMMA DoneThroughUsers ==
  ASSUME PInv, NEW p \in Starts, NEW n \in 1..issued[p],
         Settle(p, n) \/ Unsettle(p, n) \/ VoidByHand(p, n)
  PROVE  PassedRunsSucceeded' /\ DoneWith \subseteq DoneWith'
<1>1. /\ UNCHANGED <<billingRuns, issued, voidedLate>>
      /\ byHand \subseteq byHand'
      /\ voided' \subseteq voided \cup byHand'
  BY DEF Settle, Unsettle, VoidByHand
<1> QED BY <1>1 DEF PInv, PassedRunsSucceeded, DoneWith, Succeeded

(* The period a call passes or invoices needs no invoice when it commits,   *)
(* unless it was invoiced in advance.                                       *)
LEMMA DoneThroughPass ==
  ASSUME TInv, BInv, PInv, NEW b \in Billers, PassPeriod(b)
  PROVE  /\ PassedRunsSucceeded' /\ DoneWith \subseteq DoneWith'
         /\ billers[b].sub.from \in DoneWith'
<1> DEFINE w == billers[b]
<1>1. PICK p : p = w.sub.from
  OBVIOUS
<1>2. /\ Succeeded(w.runs[p]) /\ w.runs = billingRuns
      /\ billingRuns' = [billingRuns EXCEPT ![p].passed = TRUE]
      /\ UNCHANGED <<issued, voided, voidedLate, byHand>>
  BY <1>1 DEF PassPeriod, Invoiced, Commits, Conflict
<1>3. p \in Starts
  BY <1>1, BilledRow DEF PassPeriod
<1>4. billingRuns[p] \in BillingRun /\ billingRuns[p].status = "SUCCEEDED"
      /\ DOMAIN billingRuns = Starts
  BY <1>2, <1>3 DEF TInv, StoresTyped, Succeeded
<1>5. PICK run : run = [billingRuns[p] EXCEPT !.passed = TRUE]
  OBVIOUS
<1>6. run \in BillingRun /\ run.passed /\ run.status = "SUCCEEDED"
      /\ billingRuns' = [billingRuns EXCEPT ![p] = run]
  BY <1>2, <1>4, <1>5 DEF BillingRun
<1>7. Succeeded(run) /\ run # Never
  BY <1>6, NeverIsNoRun DEF Succeeded
<1>8. issued[p] > 0 /\ (<<p, issued[p]>> \notin voided \/ <<p, issued[p]>> \in byHand)
  <2>1. issued[p] > 0 /\ issued[p] \in Nat
    BY <1>2, <1>3 DEF TInv, StoresTyped, BInv, InvoicesInv, OneInvoicePerPeriod
  <2>2. issued[p] \in 1..issued[p]
    BY <2>1
  <2> QED BY <1>2, <1>3, <2>1, <2>2 DEF BInv, InvoicesInv, OneInvoicePerPeriod
<1>9. \A q \in Starts : q # p => billingRuns'[q] = billingRuns[q]
  BY <1>6, <1>4
<1>10. billingRuns'[p] = run
  BY <1>3, <1>4, <1>6
<1>11. p \in DoneWith'
  BY <1>2, <1>3, <1>6, <1>7, <1>8, <1>10 DEF DoneWith
<1>12. PassedRunsSucceeded'
  BY <1>6, <1>7, <1>9, <1>10 DEF PInv, PassedRunsSucceeded, Succeeded
<1>13. DoneWith \subseteq DoneWith'
  <2> SUFFICES ASSUME NEW q \in DoneWith, q # p PROVE q \in DoneWith'
    BY <1>11
  <2> QED BY <1>2, <1>9 DEF DoneWith
<1> QED BY <1>1, <1>11, <1>12, <1>13

LEMMA DoneThroughInvoice ==
  ASSUME TInv, BInv, PInv, NEW b \in Billers, InvoicePeriod(b)
  PROVE  /\ PassedRunsSucceeded' /\ DoneWith \subseteq DoneWith'
         /\ ~ billers[b].advance => billers[b].sub.from \in DoneWith'
<1> DEFINE w == billers[b]
<1>1. PICK p : p = w.sub.from
  OBVIOUS
<1>2. /\ ~ Succeeded(w.runs[p]) /\ w.runs = billingRuns
      /\ billingRuns' = [billingRuns EXCEPT ![p] = RunOf(w)]
      /\ issued' = [issued EXCEPT ![p] = @ + 1]
      /\ UNCHANGED <<voided, voidedLate, byHand>>
  BY <1>1 DEF InvoicePeriod, Invoiced, InvoiceMade, Commits, Conflict
<1>3. p \in Starts /\ w.advance \in BOOLEAN
  BY <1>1, BilledRow DEF InvoicePeriod
<1>4. PICK run : run = RunOf(w)
  OBVIOUS
<1>5. run.status = "SUCCEEDED" /\ run.passed = ~ w.advance
  BY <1>4 DEF RunOf
<1>6. Succeeded(run) /\ run # Never
  <2>1. billingRuns \in [Starts -> BillingRun \cup {Never}]
    BY DEF TInv, StoresTyped
  <2>2. run \in BillingRun
    BY <1>1, <1>2, <1>3, <1>4, <2>1 DEF RunOf, BillingRun
  <2> QED BY <1>5, <2>2, NeverIsNoRun DEF Succeeded
<1>7. DOMAIN billingRuns = Starts /\ issued \in [Starts -> Nat]
  BY DEF TInv, StoresTyped
<1>8. /\ billingRuns'[p] = run
      /\ \A q \in Starts : q # p => billingRuns'[q] = billingRuns[q] /\ issued'[q] = issued[q]
  BY <1>2, <1>3, <1>4, <1>7
<1>9. issued'[p] > 0 /\ <<p, issued'[p]>> \notin voided
  <2>1. issued'[p] = issued[p] + 1 /\ issued[p] \in Nat
    BY <1>2, <1>3, <1>7
  <2>2. \A x \in voided : x[2] \in 1..issued[x[1]]
    BY DEF BInv, InvoicesInv, DocumentsInv
  <2>3. <<p, issued'[p]>> \in voided => issued'[p] \in 1..issued[p]
    BY <2>2
  <2> QED BY <2>1, <2>3
<1>10. ~ w.advance => p \in DoneWith'
  BY <1>2, <1>3, <1>5, <1>6, <1>8, <1>9 DEF DoneWith
<1>11. PassedRunsSucceeded'
  BY <1>6, <1>8 DEF PInv, PassedRunsSucceeded, Succeeded
<1>12. p \in DoneWith => p \in voidedLate
  BY <1>2, <1>3 DEF PInv, PassedRunsSucceeded, DoneWith
<1>13. DoneWith \subseteq DoneWith'
  BY <1>2, <1>8, <1>12 DEF DoneWith
<1> QED BY <1>1, <1>10, <1>11, <1>13

-----------------------------------------------------------------------------
(* The rows, given that what is done with stays so                          *)
LEMMA PassedGoesOn ==
  ASSUME PInv, PassedRunsSucceeded', DoneWith \subseteq DoneWith',
         subscription' = subscription \/ PassedWithin(subscription', DoneWith'),
         \A b \in Billers : Billing(b)' =>
           \/ Billing(b) /\ billers'[b].sub = billers[b].sub
           \/ billers'[b].sub = subscription
           \/ PassedWithin(billers'[b].sub, DoneWith')
  PROVE  PInv'
<1>1. PassedWithin(subscription, DoneWith')
  BY PassedWithinGrows DEF PInv
<1>2. PassedWithin(subscription', DoneWith')
  BY <1>1
<1>3. \A b \in Billers : Billing(b)' => PassedWithin(billers'[b].sub, DoneWith')
  BY <1>1, PassedWithinGrows DEF PInv
<1> QED BY <1>2, <1>3 DEF PInv, PassedWithin

(* A call or a request goes on, and no call starts to bill.                 *)
LEMMA NobodyStarts ==
  ASSUME TInv, NEW b \in Billers, NEW w, w.phase # "billing", billers' = [billers EXCEPT ![b] = w]
  PROVE  \A d \in Billers : Billing(d)' => Billing(d) /\ billers'[d].sub = billers[d].sub
BY DEF TInv, Billing

LEMMA CallsStillPassed ==
  ASSUME TInv, BInv, PInv, NEW b \in Billers,
         \/ BeginSweep(b) \/ ClaimNothing(b) \/ ReadFailedPeriod(b) \/ PickSchedule(b)
         \/ EndSweep(b) \/ SweepDies(b) \/ CannotSerialize(b) \/ BillingFails(b) \/ PickedFails(b)
         \/ RecordFailure(b)
  PROVE  PInv'
<1>1. subscription' = subscription
  BY DEF BeginSweep, ClaimNothing, ReadFailedPeriod, PickSchedule, EndSweep, SweepDies,
         CannotSerialize, BillingFails, Fails, PickedFails, RecordFailure
<1>2. PassedRunsSucceeded' /\ DoneWith \subseteq DoneWith'
  <2>1. CASE RecordFailure(b)
    BY <2>1, DoneThroughRecord
  <2>2. CASE ~ RecordFailure(b)
    <3>1. UNCHANGED <<billingRuns, issued, voided, voidedLate, byHand>>
      BY <2>2 DEF BeginSweep, ClaimNothing, ReadFailedPeriod, PickSchedule, EndSweep, SweepDies,
                  CannotSerialize, BillingFails, Fails, PickedFails
    <3> QED BY <3>1, DoneUntouched
  <2> QED BY <2>1, <2>2
<1>3. \A w : AfterBilling(w).phase # "billing" /\ Resting.phase # "billing"
  BY DEF AfterBilling, Resting
<1>4. billers[b] \in Biller /\ DOMAIN billers = Billers
  BY DEF TInv, CallTyped
<1>5. \E w : w.phase # "billing" /\ billers' = [billers EXCEPT ![b] = w]
  <2>1. CASE BeginSweep(b) \/ ClaimNothing(b)
    <3>1. PICK w : billers' = [billers EXCEPT ![b] = w]
                   /\ w \in {[billers[b] EXCEPT !.phase = "claiming", !.asOf = today],
                             [billers[b] EXCEPT !.phase = "draining"]}
      BY <2>1 DEF BeginSweep, ClaimNothing
    <3>2. w.phase # "billing"
      BY <1>4, <3>1 DEF Biller
    <3> QED BY <3>1, <3>2
  <2>2. CASE ReadFailedPeriod(b)
    <3>1. PICK w : billers' = [billers EXCEPT ![b] = w]
                   /\ w \in {AfterBilling(billers[b]),
                             [billers[b] EXCEPT !.phase = "recording", !.period = subscription.from]}
      BY <2>2 DEF ReadFailedPeriod
    <3>2. w.phase # "billing"
      BY <1>3, <1>4, <3>1 DEF Biller
    <3> QED BY <3>1, <3>2
  <2>3. CASE PickSchedule(b)
    <3>1. PICK r : billers' = [billers EXCEPT ![b].phase = "picked", ![b].row = r,
                                              ![b].status = subscription.status]
      BY <2>3 DEF PickSchedule
    <3>2. PICK w : w = [billers[b] EXCEPT !.phase = "picked", !.row = r,
                                          !.status = subscription.status]
      OBVIOUS
    <3>3. w.phase = "picked" /\ billers' = [billers EXCEPT ![b] = w]
      BY <1>4, <3>1, <3>2 DEF Biller
    <3> QED BY <3>3
  <2>4. CASE CannotSerialize(b) \/ BillingFails(b)
    <3>1. PICK w : w = [Resting EXCEPT !.phase = "failing", !.manual = billers[b].manual,
                                       !.asOf = billers[b].asOf]
      OBVIOUS
    <3>2. w.phase = "failing" /\ billers' = [billers EXCEPT ![b] = w]
      BY <2>4, <3>1 DEF CannotSerialize, BillingFails, Fails, Resting
    <3> QED BY <3>2
  <2>5. CASE EndSweep(b) \/ SweepDies(b) \/ PickedFails(b) \/ RecordFailure(b)
    BY <1>3, <2>5 DEF EndSweep, SweepDies, PickedFails, RecordFailure
  <2> QED BY <2>1, <2>2, <2>3, <2>4, <2>5
<1>6. \A d \in Billers : Billing(d)' => Billing(d) /\ billers'[d].sub = billers[d].sub
  BY <1>5, NobodyStarts
<1> QED BY <1>1, <1>2, <1>6, PassedGoesOn

LEMMA TakesPassed ==
  ASSUME TInv, PInv, NEW b \in Billers, (\E advance \in BOOLEAN : BillNow(b, advance)) \/ ClaimDue(b)
  PROVE  PInv'
<1>1. UNCHANGED <<subscription, billingRuns, issued, voided, voidedLate, byHand>>
  BY DEF BillNow, ClaimDue
<1>2. PICK manual, now, advance : Takes(b, manual, now, advance)
  BY DEF BillNow, ClaimDue
<1>3. \A d \in Billers : billers'[d] = billers[d] \/ billers'[d].sub = subscription
  BY <1>2 DEF Takes, TInv, Resting
<1> QED BY <1>1, <1>3, DoneUntouched, PassedGoesOn DEF Billing

LEMMA ApplyBeforePassed ==
  ASSUME TInv, PInv, NEW b \in Billers, ApplyBeforeBilling(b)
  PROVE  PInv'
<1> DEFINE w == billers[b]
<1>1. /\ CallTyped(w) /\ DOMAIN billers = Billers /\ w.phase = "billing" /\ w \in Biller
  BY DEF TInv, CallTyped, ApplyBeforeBilling
<1>2. /\ RowHolds(w.sub) /\ w.asOf \in Days /\ w.todo \subseteq Schedule
  BY <1>1 DEF CallTyped, Biller
<1>3. PICK r \in w.todo : billers' = [billers EXCEPT
        ![b].todo = @ \ {r},
        ![b].plan = IF AwaitsBilling(w.sub, r) THEN @
                    ELSE (@ \ {r}) \cup (IF CanApply(w.sub.status, r) THEN ResumeAfter(r)
                                         ELSE {}),
        ![b].sub = IF ~ AwaitsBilling(w.sub, r) /\ CanApply(w.sub.status, r)
                   THEN Effected(@, r, w.asOf) ELSE @]
  BY DEF ApplyBeforeBilling
<1>4. UNCHANGED <<subscription, billingRuns, issued, voided, voidedLate, byHand>>
  BY DEF ApplyBeforeBilling
<1>5. billers'[b].sub = w.sub \/ billers'[b].sub = Effected(w.sub, r, w.asOf)
  BY <1>1, <1>3 DEF Biller
<1>6. \A d \in Billers : d # b => billers'[d] = billers[d]
  BY <1>1, <1>3
<1>7. PassedRunsSucceeded' /\ DoneWith \subseteq DoneWith'
  BY <1>4, DoneUntouched
<1>8. PassedWithin(w.sub, DoneWith)
  BY <1>1 DEF PInv, Billing
<1>9. PassedWithin(billers'[b].sub, DoneWith)
  BY <1>2, <1>3, <1>5, <1>8, EffectedPassed
<1>10. PassedWithin(billers'[b].sub, DoneWith')
  BY <1>7, <1>9, PassedWithinGrows
<1> QED BY <1>4, <1>6, <1>7, <1>10, PassedGoesOn DEF Billing

LEMMA PickedPassed ==
  ASSUME TInv, PInv, NEW b \in Billers, ApplyPicked(b)
  PROVE  PInv'
<1> DEFINE w == billers[b]
<1>1. CallTyped(w) /\ w.row \in Schedule /\ RowHolds(subscription)
  BY DEF TInv, StoresTyped, CallTyped, ApplyPicked
<1>2. UNCHANGED <<billingRuns, issued, voided, voidedLate, byHand>>
      /\ billers' = [billers EXCEPT ![b] = AfterBilling(w)]
      /\ (subscription' = subscription \/ subscription' = Effected(subscription, w.row, w.asOf))
  BY DEF ApplyPicked
<1>3. AfterBilling(w).phase # "billing"
  BY DEF AfterBilling, Resting
<1>4. PassedRunsSucceeded' /\ DoneWith \subseteq DoneWith'
  BY <1>2, DoneUntouched
<1>5. PassedWithin(Effected(subscription, w.row, w.asOf), DoneWith)
  BY <1>1, EffectedPassed DEF PInv
<1>6. PassedWithin(Effected(subscription, w.row, w.asOf), DoneWith')
  BY <1>4, <1>5, PassedWithinGrows
<1>7. \A d \in Billers : Billing(d)' => Billing(d) /\ billers'[d].sub = billers[d].sub
  BY <1>2, <1>3, NobodyStarts
<1> QED BY <1>2, <1>4, <1>6, <1>7, PassedGoesOn

LEMMA CommitPassed ==
  ASSUME TInv, PInv, NEW b \in Billers, NEW sub, NEW applied, Commits(b, sub, applied),
         PassedRunsSucceeded', DoneWith \subseteq DoneWith', PassedWithin(sub, DoneWith')
  PROVE  PInv'
<1>1. subscription' = sub /\ billers' = [billers EXCEPT ![b] = AfterBilling(billers[b])]
  BY DEF Commits
<1>2. AfterBilling(billers[b]).phase # "billing"
  BY DEF AfterBilling, Resting
<1>3. \A d \in Billers : Billing(d)' => Billing(d) /\ billers'[d].sub = billers[d].sub
  BY <1>1, <1>2, NobodyStarts
<1> QED BY <1>1, <1>3, PassedGoesOn

LEMMA BillingPassed ==
  ASSUME TInv, BInv, PInv, NEW b \in Billers, SkipBilling(b) \/ PassPeriod(b) \/ InvoicePeriod(b)
  PROVE  PInv'
<1> DEFINE w == billers[b]
<1>1. w.phase = "billing"
  BY DEF SkipBilling, PassPeriod, InvoicePeriod
<1>2. RowHolds(w.sub) /\ PassedWithin(w.sub, DoneWith)
  BY <1>1, BilledRow DEF PInv, Billing
<1>3. CASE SkipBilling(b)
  <2>1. Commits(b, w.sub, {}) /\ UNCHANGED <<billingRuns, issued, voided, voidedLate, byHand>>
    BY <1>3 DEF SkipBilling, Commits
  <2>2. PassedRunsSucceeded' /\ DoneWith \subseteq DoneWith'
    BY <2>1, DoneUntouched
  <2> QED BY <1>2, <2>1, <2>2, PassedWithinGrows, CommitPassed
<1>4. CASE PassPeriod(b)
  <2>1. Commits(b, Advanced(w.sub, w.asOf), {})
    BY <1>4 DEF PassPeriod
  <2>2. PassedRunsSucceeded' /\ DoneWith \subseteq DoneWith' /\ w.sub.from \in DoneWith'
    BY <1>4, DoneThroughPass
  <2>3. PassedWithin(w.sub, DoneWith')
    BY <1>2, <2>2, PassedWithinGrows
  <2>4. PassedWithin(Advanced(w.sub, w.asOf), DoneWith')
    BY <1>2, <2>2, <2>3, AdvancedPassed
  <2> QED BY <2>1, <2>2, <2>4, CommitPassed
<1>5. CASE InvoicePeriod(b)
  <2>1. /\ PassedRunsSucceeded' /\ DoneWith \subseteq DoneWith'
        /\ ~ w.advance => w.sub.from \in DoneWith'
    BY <1>5, DoneThroughInvoice
  <2>2. PassedWithin(w.sub, DoneWith')
    BY <1>2, <2>1, PassedWithinGrows
  <2>3. w.sub \in Subscription
    BY <1>2 DEF RowHolds
  <2>4. CASE Commits(b, [w.sub EXCEPT !.nextAdvanceAt = Never], {})
    <3>1. PICK t : t = [w.sub EXCEPT !.nextAdvanceAt = Never]
      OBVIOUS
    <3>2. t.from = w.sub.from /\ t.anchor = w.sub.anchor /\ t.completed = w.sub.completed
          /\ t.status = w.sub.status
      <4> HIDE DEF w
      <4> QED BY <2>3, <3>1 DEF Subscription
    <3>3. PassedWithin(t, DoneWith')
      BY <2>2, <3>2, AsMuchPassed
    <3> QED BY <2>1, <2>4, <3>1, <3>3, CommitPassed
  <2>5. ASSUME NEW r, Commits(b, Canceled(w.sub, r.at), {r})
        PROVE  PInv'
    <3>1. PICK t : t = Canceled(w.sub, r.at)
      OBVIOUS
    <3>2. t.from = w.sub.from /\ t.anchor = w.sub.anchor /\ t.completed = w.sub.completed
          /\ t.status = "CANCELED"
      <4> HIDE DEF w
      <4> QED BY <2>3, <3>1 DEF Subscription, Canceled
    <3>3. PassedWithin(t, DoneWith')
      BY <2>2, <3>2, AsMuchPassed
    <3> QED BY <2>1, <2>5, <3>1, <3>3, CommitPassed
  <2>6. CASE ~ w.advance /\ Commits(b, Advanced(w.sub, w.asOf), {})
    <3>1. PassedWithin(Advanced(w.sub, w.asOf), DoneWith')
      BY <1>2, <2>1, <2>2, <2>6, AdvancedPassed
    <3> QED BY <2>1, <2>6, <3>1, CommitPassed
  <2> QED BY <1>5, <2>4, <2>5, <2>6 DEF InvoicePeriod
<1> QED BY <1>3, <1>4, <1>5

LEMMA RequestsPassed ==
  ASSUME TInv, BInv, PInv, NEW c \in Clerks, ClerkStep(c)
  PROVE  PInv'
<1> DEFINE q == clerks[c]
           r == q.wants
<1>1. q \in Clerk /\ RequestTyped(q) /\ q.now \in Days /\ q.found \subseteq Starts \X Nat
      /\ RowHolds(subscription) /\ PassedWithin(subscription, DoneWith)
  BY DEF TInv, RequestTyped, Clerk, StoresTyped, PInv
<1>2. billers' = billers
  BY DEF ClerkStep, Ask, ReadAdvanceInvoices, PauseOrCancel, RequestFails, Resume, AskToKeep,
         KeepSubscription
<1>3. PassedRunsSucceeded' /\ DoneWith \subseteq DoneWith'
  <2>1. CASE PauseOrCancel(c)
    BY <1>1, <2>1, DoneThroughInvalidation DEF PauseOrCancel
  <2>2. CASE ~ PauseOrCancel(c)
    <3>1. UNCHANGED <<billingRuns, issued, voided, voidedLate, byHand>>
      BY <2>2 DEF ClerkStep, Ask, ReadAdvanceInvoices, RequestFails, Resume, AskToKeep,
                  KeepSubscription
    <3> QED BY <3>1, DoneUntouched
  <2> QED BY <2>1, <2>2
<1>4. subscription' = subscription \/ PassedWithin(subscription', DoneWith)
  <2>1. CASE PauseOrCancel(c)
    <3> DEFINE base == IF q.found = {} THEN subscription ELSE AheadAgain(subscription, q.now)
    <3>1. subscription' = IF r.at <= q.now THEN Effected(base, r, q.now)
                          ELSE IF r.action = "CANCEL" THEN [base EXCEPT !.cancelAtEnd = TRUE]
                          ELSE base
      BY <2>1 DEF PauseOrCancel
    <3>2. r \in Schedule
      <4>1. q.phase = "found" /\ r.action \in {"PAUSE", "CANCEL"}
        BY <2>1 DEF BInv, RequestsInv, Checked, PauseOrCancel
      <4> QED BY <1>1, <4>1 DEF RequestTyped, Keep
    <3>3. RowHolds(base) /\ base.from = subscription.from /\ base.anchor = subscription.anchor
          /\ base.completed = subscription.completed /\ base.status = subscription.status
      <4>1. RowHolds(base)
        BY <1>1, AheadAgainHolds
      <4> QED BY <1>1, <4>1 DEF AheadAgain, RowHolds, Subscription
    <3> HIDE DEF base
    <3>4. PassedWithin(base, DoneWith)
      BY <1>1, <3>3, AsMuchPassed
    <3>5. PICK t : t = [base EXCEPT !.cancelAtEnd = TRUE]
      OBVIOUS
    <3>6. t.from = base.from /\ t.anchor = base.anchor /\ t.completed = base.completed
          /\ t.status = base.status
      BY <3>3, <3>5 DEF RowHolds, Subscription
    <3>7. PassedWithin(t, DoneWith)
      BY <3>4, <3>6, AsMuchPassed
    <3>8. PassedWithin(Effected(base, r, q.now), DoneWith)
      BY <3>2, <3>3, <3>4, EffectedPassed
    <3> QED BY <3>1, <3>4, <3>5, <3>7, <3>8
  <2>2. CASE Resume(c)
    <3>1. r \in Schedule
      BY <1>1, <2>2 DEF Resume, RequestTyped, Keep
    <3>2. subscription' = subscription \/ subscription' = Effected(subscription, r, q.now)
      BY <2>2 DEF Resume
    <3> QED BY <1>1, <3>1, <3>2, EffectedPassed
  <2>3. CASE KeepSubscription(c)
    <3>1. subscription' = [subscription EXCEPT !.cancelAtEnd = FALSE]
      BY <2>3 DEF KeepSubscription
    <3>2. /\ subscription'.from = subscription.from /\ subscription'.anchor = subscription.anchor
          /\ subscription'.completed = subscription.completed
          /\ subscription'.status = subscription.status
      BY <1>1, <3>1 DEF RowHolds, Subscription
    <3> QED BY <1>1, <3>2, AsMuchPassed
  <2>4. CASE (\E s \in Schedule : Ask(c, s)) \/ ReadAdvanceInvoices(c) \/ RequestFails(c) \/ AskToKeep(c)
    BY <2>4 DEF Ask, ReadAdvanceInvoices, RequestFails, AskToKeep
  <2> QED BY <2>1, <2>2, <2>3, <2>4 DEF ClerkStep
<1>5. subscription' = subscription \/ PassedWithin(subscription', DoneWith')
  BY <1>3, <1>4, PassedWithinGrows
<1> QED BY <1>2, <1>3, <1>5, PassedGoesOn DEF Billing

LEMMA PassedInitially == BillingInit => PInv
<1> SUFFICES ASSUME BillingInit PROVE PInv
  OBVIOUS
<1>1. subscription.completed = 0
  BY DEF BillingInit, Created
<1>2. PassedWithin(subscription, DoneWith)
  BY <1>1 DEF PassedWithin
<1>3. PassedRunsSucceeded /\ \A b \in Billers : ~ Billing(b)
  BY DEF BillingInit, PassedRunsSucceeded, Billing, Resting
<1> QED BY <1>2, <1>3 DEF PInv

LEMMA PassedStep ==
  ASSUME TInv, BInv, PInv, [BillingNext]_billingVars
  PROVE  PInv'
<1>1. ASSUME NEW b \in Billers, SweepStep(b) PROVE PInv'
  <2>1. CASE ApplyBeforeBilling(b) \/ ApplyPicked(b) \/ ClaimDue(b)
    BY <2>1, ApplyBeforePassed, PickedPassed, TakesPassed
  <2>2. CASE SkipBilling(b) \/ PassPeriod(b) \/ InvoicePeriod(b)
    BY <2>2, BillingPassed
  <2>3. CASE \/ BeginSweep(b) \/ ClaimNothing(b) \/ ReadFailedPeriod(b) \/ PickSchedule(b)
             \/ EndSweep(b) \/ CannotSerialize(b) \/ RecordFailure(b)
    BY <2>3, CallsStillPassed
  <2> QED BY <1>1, <2>1, <2>2, <2>3 DEF SweepStep
<1>2. ASSUME NEW b \in Billers, BillingFails(b) \/ PickedFails(b) \/ SweepDies(b) PROVE PInv'
  BY <1>2, CallsStillPassed
<1>3. ASSUME NEW b \in Billers, \E advance \in BOOLEAN : BillNow(b, advance) PROVE PInv'
  BY <1>3, TakesPassed
<1>4. ASSUME NEW c \in Clerks, ClerkStep(c) PROVE PInv'
  BY <1>4, RequestsPassed
<1>5. CASE \E p \in Starts : \E n \in 1..issued[p] :
             Settle(p, n) \/ Unsettle(p, n) \/ VoidByHand(p, n)
  <2>1. UNCHANGED <<subscription, billers>>
    BY <1>5 DEF Settle, Unsettle, VoidByHand
  <2>2. PassedRunsSucceeded' /\ DoneWith \subseteq DoneWith'
    BY <1>5, DoneThroughUsers
  <2> QED BY <2>1, <2>2, PassedGoesOn DEF Billing
<1>6. CASE PassDay \/ UNCHANGED billingVars
  <2>1. UNCHANGED <<subscription, billingRuns, issued, voided, billers, voidedLate, byHand>>
    BY <1>6 DEF PassDay, billingVars
  <2> QED BY <2>1, DoneUntouched, PassedGoesOn DEF Billing
<1> QED BY <1>1, <1>2, <1>3, <1>4, <1>5, <1>6 DEF BillingNext

(* No period is skipped: whatever sweeps fail, die or overlap, and however  *)
(* often the subscription is paused and resumed in between, each period     *)
(* since the billing anchor that has passed was invoiced once and is so     *)
(* still, unless a request voided its invoice that had found it ahead, or   *)
(* the invoice was voided by hand.                                          *)
THEOREM NoPeriodIsSkipped == BillingSpec => []PassedPeriodsAreInvoiced
<1>1. TInv /\ BInv /\ PInv /\ [BillingNext]_billingVars => PInv'
  BY PassedStep
<1>2. PInv => PassedPeriodsAreInvoiced
  BY DEF PInv, PassedWithin, DoneWith, PassedPeriodsAreInvoiced
<1> QED BY <1>1, <1>2, PassedInitially, BillingTyped, BillingInvariant, PTL DEF BillingSpec
=============================================================================
