------------------------ MODULE SettlementLedgerProofs ------------------------
(***************************************************************************)
(* That the customer ledger and the rows of Settlement tell the same story *)
(* of every customer, and that the customer's columns follow the rows.     *)
(*                                                                         *)
(* What each operation does to the five sums of the story (outstanding,    *)
(* unused credits, ledger balance, what intents brought in, what write-    *)
(* offs and invalidations left out) is stated by one lemma per operation,  *)
(* ...Tells.  They rest on two invariants more than MoneyInv: BookInv says *)
(* what a ledger entry with a key says of its row, so that a key is new    *)
(* when it is written, and CustomersMatch that a source is applied to      *)
(* invoices of its own customer only.                                      *)
(***************************************************************************)
EXTENDS SettlementMoneyProofs

-----------------------------------------------------------------------------
(* The sums of the ledger, and how each write changes them *)

If(P, x) == IF P THEN x ELSE 0

(* What customer c owes on invoice i *)
Owed(invs, c, i) == If(InvoiceCustomer[i] = c /\ invs[i].status \in Collectible, invs[i].due)

LEMMA OutstandingAlike ==
  ASSUME NEW invs, NEW new, NEW c,
         \A i \in Invoices : InvoiceCustomer[i] = c => Owed(new, c, i) = Owed(invs, c, i),
         invs \in [Invoices -> Invoice], new \in [Invoices -> Invoice]
  PROVE  Outstanding(new, c) = Outstanding(invs, c)
<1>1. OwedBy(new, c) = OwedBy(invs, c)
  BY DEF OwedBy, Owed, If
<1> QED BY <1>1, OutstandingSum

LEMMA OutstandingUpdate ==
  ASSUME NEW invs \in [Invoices -> Invoice], NEW new \in [Invoices -> Invoice], NEW c,
         NEW i \in Invoices, \A j \in Invoices \ {i} : new[j] = invs[j]
  PROVE  /\ Outstanding(new, c) = Outstanding(invs, c) + Owed(new, c, i) - Owed(invs, c, i)
         /\ Outstanding(invs, c) \in Int /\ Owed(new, c, i) \in Nat /\ Owed(invs, c, i) \in Nat
<1> DEFINE f == OwedBy(invs, c)
           h == OwedBy(new, c)
<1>1. /\ Summable(f) /\ f \in [Invoices -> Nat] /\ h \in [Invoices -> Nat]
      /\ Outstanding(invs, c) = SumFunction(f) /\ Outstanding(new, c) = SumFunction(h)
  BY OutstandingSum
<1>2. \A j \in Invoices \ {i} : h[j] = f[j]
  BY DEF OwedBy
<1>3. h[i] = Owed(new, c, i) /\ f[i] = Owed(invs, c, i)
  BY DEF OwedBy, Owed, If
<1> HIDE DEF f, h
<1>4. DOMAIN f = Invoices /\ DOMAIN h = Invoices /\ h[i] \in Int
  BY <1>1
<1>5. SumFunction(h) = SumFunction(f) + h[i] - f[i]
  BY <1>1, <1>2, <1>4, SumUpdate
<1>6. SumFunction(f) \in Int
  BY <1>1, SumInt
<1> QED BY <1>1, <1>3, <1>5, <1>6

(* An allocation takes from what the customer owes.                        *)
LEMMA AllocationOutstanding ==
  ASSUME NEW invs, NEW lax, NEW gone, Sound(invs, lax, gone), NEW s \in Sources, NEW d,
         NEW alloc \in Allocations, LoadTargets(invs, d, alloc), NEW c
  PROVE  /\ Outstanding(InvoicesAfter(invs, s, alloc), c)
              = Outstanding(invs, c) - If(c = d, SumFunction(alloc))
         /\ Outstanding(invs, c) \in Int
<1> DEFINE new == InvoicesAfter(invs, s, alloc)
           f == OwedBy(invs, c)
           k == OwedBy(new, c)
           m == [i \in Invoices |-> IF i \in DOMAIN alloc /\ c = d THEN alloc[i] ELSE 0]
<1>1. /\ DOMAIN alloc \subseteq Invoices /\ \A i \in DOMAIN alloc : alloc[i] \in Nat \ {0}
      /\ SumFunction(alloc) \in Nat
  BY AllocAmounts
<1>2. invs \in [Invoices -> Invoice] /\ \A i \in Invoices : SoundRow(invs[i], i \in lax, gone[i])
  BY DEF Sound
<1>3. ASSUME NEW i \in DOMAIN alloc
      PROVE  /\ InvoiceCustomer[i] = d /\ invs[i].status \in Collectible
             /\ alloc[i] <= invs[i].due /\ i \in Invoices
             /\ new[i] \in Invoice /\ new[i].due = invs[i].due - alloc[i]
             /\ new[i].status \in Collectible \cup {"PAID"}
             /\ new[i].status = "PAID" => new[i].due = 0
  <2>1. /\ InvoiceCustomer[i] = d /\ invs[i].status \in Collectible
        /\ alloc[i] <= invs[i].due /\ i \in Invoices /\ alloc[i] \in Nat \ {0}
    BY <1>1, <1>3 DEF LoadTargets
  <2> DEFINE mid == Settled(invs[i], s, alloc[i])
  <2>2. new[i] = Reprojected(mid)
    BY <2>1, <1>3 DEF InvoicesAfter
  <2>3. SoundRow(Reprojected(mid), i \in lax, gone[i])
    BY <1>2, <2>1, SettledSound
  <2>4. DOMAIN mid = DOMAIN invs[i] /\ mid.due = invs[i].due - alloc[i]
    BY <1>2, <2>1 DEF Settled, Invoice
  <2>5. DOMAIN invs[i] = {"status", "total", "due", "paid", "credited", "writtenOff", "late",
                          "sent", "paidAt"}
    BY <1>2, <2>1 DEF Invoice
  <2> HIDE DEF mid
  <2>6. Reprojected(mid).due = mid.due /\ Reprojected(mid).status = Projected(mid)
    BY <2>4, <2>5 DEF Reprojected
  <2>7. Projected(mid) \in Collectible \cup {"PAID"} /\ (Projected(mid) = "PAID" => mid.due = 0)
    BY DEF Projected, Collectible
  <2>8. new[i] \in Invoice
    BY <2>2, <2>3 DEF SoundRow
  <2> HIDE DEF new
  <2> QED BY <2>1, <2>2, <2>4, <2>6, <2>7, <2>8
<1>4. \A i \in Invoices \ DOMAIN alloc : new[i] = invs[i]
  BY DEF InvoicesAfter
<1>5. new \in [Invoices -> Invoice]
  <2>1. \A i \in Invoices : new[i] \in Invoice
    BY <1>2, <1>3, <1>4
  <2>2. new = [i \in Invoices |-> new[i]]
    BY DEF InvoicesAfter
  <2> HIDE DEF new
  <2> QED BY <2>1, <2>2
<1>6. /\ Summable(f) /\ Summable(k) /\ f \in [Invoices -> Nat] /\ k \in [Invoices -> Nat]
      /\ Outstanding(invs, c) = SumFunction(f) /\ Outstanding(new, c) = SumFunction(k)
  BY <1>2, <1>5, OutstandingSum
<1>7. Summable(m) /\ DOMAIN m = Invoices
  BY <1>1, ReceivablesAssumption DEF Summable
<1>8. ASSUME NEW i \in Invoices PROVE f[i] = k[i] + m[i]
  <2>1. invs[i].due \in Nat /\ new[i].due \in Nat
    BY <1>2, <1>5 DEF Invoice
  <2>2. CASE i \in DOMAIN alloc /\ c = d
    <3>1. f[i] = invs[i].due /\ m[i] = alloc[i] /\ alloc[i] \in Nat
      BY <1>1, <1>3, <2>2 DEF OwedBy
    <3>2. k[i] = IF new[i].status \in Collectible THEN new[i].due ELSE 0
      BY <1>3, <2>2 DEF OwedBy
    <3>3. k[i] = new[i].due
      <4> HIDE DEF new, k
      <4> QED BY <1>3, <2>2, <3>2
    <3>4. new[i].due = invs[i].due - alloc[i]
      BY <1>3, <2>2
    <3> HIDE DEF f, k, m, new
    <3> QED BY <2>1, <3>1, <3>3, <3>4
  <2>3. CASE i \in DOMAIN alloc /\ c # d
    <3>1. f[i] = 0 /\ m[i] = 0 /\ k[i] = 0
      BY <1>3, <2>3 DEF OwedBy
    <3> QED BY <3>1
  <2>4. CASE i \notin DOMAIN alloc
    <3>1. new[i] = invs[i]
      BY <1>4, <2>4
    <3>2. f[i] = k[i]
      <4> HIDE DEF new
      <4> QED BY <3>1 DEF OwedBy
    <3>3. m[i] = 0 /\ k[i] \in Nat
      BY <1>6, <2>4
    <3> HIDE DEF f, k, m
    <3> QED BY <3>2, <3>3
  <2> QED BY <2>2, <2>3, <2>4
<1>9. SumFunction(m) = If(c = d, SumFunction(alloc))
  <2>1. CASE c = d
    <3>1. /\ \A i \in DOMAIN alloc : alloc[i] = m[i]
          /\ \A i \in DOMAIN m \ DOMAIN alloc : m[i] = 0
      BY <1>1, <2>1
    <3> HIDE DEF m
    <3>2. SumFunction(m) = SumFunction(alloc)
      BY <1>1, <1>7, <3>1, SumSupport
    <3> QED BY <2>1, <3>2 DEF If
  <2>2. CASE c # d
    <3>1. \A i \in DOMAIN m : m[i] = 0
      BY <2>2
    <3> HIDE DEF m
    <3>2. SumFunction(m) = 0
      BY <1>7, <3>1, SumZero, ReceivablesAssumption
    <3> QED BY <2>2, <3>2 DEF If
  <2> QED BY <2>1, <2>2
<1> HIDE DEF f, k, m, new
<1>10. SumFunction(f) = SumFunction(k) + SumFunction(m)
  <2>1. DOMAIN f = Invoices /\ DOMAIN k = Invoices
    BY <1>6
  <2> QED BY <1>6, <1>7, <1>8, <2>1, SumAdd
<1>11. SumFunction(k) \in Int /\ SumFunction(m) \in Int /\ SumFunction(f) \in Int
  BY <1>6, <1>7, SumInt
<1>12. Outstanding(new, c) = Outstanding(invs, c) - If(c = d, SumFunction(alloc))
  BY <1>6, <1>9, <1>10, <1>11
<1> QED BY <1>6, <1>11, <1>12 DEF new

(* A reversal puts back what was taken, if no invoice of the customer was  *)
(* rewritten since: a paid or written-off one may then owe something.      *)
LEMMA ReversalOutstanding ==
  ASSUME NEW invs, NEW lax, NEW gone, Sound(invs, lax, gone), NEW s \in Sources, NEW row \in Rows,
         Remembers(row, invs, lax, gone), Storable(invs, row, s), NEW last \in Restorations(row),
         NEW d, \A i \in Invoices : row[i].amount > 0 => InvoiceCustomer[i] = d,
         NEW c, c = d => \A i \in Invoices : InvoiceCustomer[i] = c => i \notin lax
  PROVE  /\ Outstanding(InvoicesRestored(invs, s, row, last), c)
              = Outstanding(invs, c) + If(c = d, Taken(row))
         /\ Outstanding(invs, c) \in Int
<1> DEFINE new == InvoicesRestored(invs, s, row, last)
           f == OwedBy(invs, c)
           k == OwedBy(new, c)
           t == [i \in Invoices |-> row[i].amount]
           m == [i \in Invoices |-> IF c = d THEN row[i].amount ELSE 0]
<1>1. \A i \in Invoices : row[i].amount \in Nat
  BY DEF Rows, Applied
<1>2. invs \in [Invoices -> Invoice] /\ \A i \in Invoices : SoundRow(invs[i], i \in lax, gone[i])
  BY DEF Sound
<1>3. Sound(new, lax, gone)
  BY ReversalSound
<1>4. new \in [Invoices -> Invoice]
  BY <1>3 DEF Sound
<1>5. ASSUME NEW i \in Invoices, row[i].amount > 0
      PROVE  /\ InvoiceCustomer[i] = d /\ invs[i].status \in Finalized
             /\ new[i].due = invs[i].due + row[i].amount
             /\ new[i].status \in Collectible
  <2>1. i \in Touched(row)
    BY <1>5 DEF Touched
  <2>2. last[i] \in Moment
    <3>1. last[i] \in row[i].before
      BY <2>1 DEF Restorations
    <3> QED BY <3>1 DEF Rows, Applied
  <2>3. SoundAllocation(row[i], invs[i], i \in lax, gone[i])
    BY DEF Remembers
  <2>4. new[i] = Restored(invs[i], s, row[i].amount, last[i])
    BY <2>1 DEF InvoicesRestored
  <2>5. new[i].due = invs[i].due + row[i].amount /\ new[i].status = last[i].status
    BY <1>2, <2>4 DEF Restored, Invoice
  <2> HIDE DEF new
  <2> QED BY <1>5, <2>2, <2>3, <2>5 DEF Moment, SoundAllocation, Backed
<1>6. \A i \in Invoices : ~ (row[i].amount > 0) => new[i] = invs[i]
  BY DEF InvoicesRestored, Touched
<1>7. /\ Summable(f) /\ Summable(k) /\ f \in [Invoices -> Nat] /\ k \in [Invoices -> Nat]
      /\ Outstanding(invs, c) = SumFunction(f) /\ Outstanding(new, c) = SumFunction(k)
  BY <1>2, <1>4, OutstandingSum
<1>8. Summable(m) /\ DOMAIN m = Invoices
  BY <1>1, ReceivablesAssumption DEF Summable
<1>9. ASSUME NEW i \in Invoices PROVE k[i] = f[i] + m[i]
  <2>1. invs[i].due \in Nat /\ row[i].amount \in Nat
    BY <1>1, <1>2 DEF Invoice
  <2>2. CASE row[i].amount > 0 /\ c = d
    <3>1. k[i] = new[i].due /\ m[i] = row[i].amount
      BY <1>5, <2>2 DEF OwedBy
    <3>2. f[i] = invs[i].due
      <4>1. i \notin lax /\ invs[i].status \in Finalized /\ InvoiceCustomer[i] = c
        BY <1>5, <2>2
      <4>2. SoundRow(invs[i], i \in lax, gone[i])
        BY <1>2
      <4>3. invs[i].status \in Collectible \/ invs[i].due = 0
        BY <2>1, <4>1, <4>2 DEF SoundRow
      <4> QED BY <4>1, <4>3 DEF OwedBy
    <3>3. new[i].due = invs[i].due + row[i].amount
      BY <1>5, <2>2
    <3> HIDE DEF f, k, m, new
    <3> QED BY <3>1, <3>2, <3>3
  <2>3. CASE row[i].amount > 0 /\ c # d
    <3>1. f[i] = 0 /\ m[i] = 0 /\ k[i] = 0
      BY <1>5, <2>3 DEF OwedBy
    <3> QED BY <3>1
  <2>4. CASE ~ (row[i].amount > 0)
    <3>1. new[i] = invs[i] /\ row[i].amount = 0
      BY <1>6, <2>1, <2>4
    <3>2. f[i] = k[i]
      <4> HIDE DEF new
      <4> QED BY <3>1 DEF OwedBy
    <3>3. m[i] = 0 /\ k[i] \in Nat
      BY <1>7, <3>1
    <3> HIDE DEF f, k, m
    <3> QED BY <3>2, <3>3
  <2> QED BY <2>2, <2>3, <2>4
<1>10. SumFunction(m) = If(c = d, Taken(row))
  <2>1. CASE c = d
    <3>1. m = t
      BY <2>1
    <3> QED BY <2>1, <3>1 DEF If, Taken
  <2>2. CASE c # d
    <3>1. \A i \in DOMAIN m : m[i] = 0
      BY <2>2
    <3> HIDE DEF m
    <3>2. SumFunction(m) = 0
      BY <1>8, <3>1, SumZero, ReceivablesAssumption
    <3> QED BY <2>2, <3>2 DEF If
  <2> QED BY <2>1, <2>2
<1> HIDE DEF f, k, m, new
<1>11. SumFunction(k) = SumFunction(f) + SumFunction(m)
  <2>1. DOMAIN f = Invoices /\ DOMAIN k = Invoices
    BY <1>7
  <2> QED BY <1>7, <1>8, <1>9, <2>1, SumAdd
<1>12. SumFunction(m) \in Int /\ SumFunction(f) \in Int
  BY <1>7, <1>8, SumInt
<1>13. Outstanding(new, c) = Outstanding(invs, c) + If(c = d, Taken(row))
  BY <1>7, <1>10, <1>11
<1> QED BY <1>7, <1>12, <1>13 DEF new

(* What is free of a payment, and what is left of a note                   *)
Free(pay, c)     == If(pay.customer = c /\ pay.status \in Available, pay.unapplied)
Left(n, note, c) == If(NoteCustomer[n] = c /\ note.status = "OPEN", note.balance)

LEMMA CreditsInt ==
  ASSUME NEW pays \in [Payments -> Payment], NEW nts \in [CreditNotes -> CreditNote], NEW c
  PROVE  UnusedCredits(pays, nts, c) \in Int
<1>1. SumFunction(UnappliedBy(pays, c)) \in Int /\ SumFunction(UnusedBy(nts, c)) \in Int
  BY CreditsSum, SumInt
<1> QED BY <1>1, CreditsSum

LEMMA PaymentCredits ==
  ASSUME NEW pays \in [Payments -> Payment], NEW nts \in [CreditNotes -> CreditNote], NEW c,
         NEW p \in Payments, NEW pay \in Payment
  PROVE  /\ UnusedCredits([pays EXCEPT ![p] = pay], nts, c)
              = UnusedCredits(pays, nts, c) + Free(pay, c) - Free(pays[p], c)
         /\ UnusedCredits(pays, nts, c) \in Int /\ Free(pay, c) \in Nat /\ Free(pays[p], c) \in Nat
<1> DEFINE new == [pays EXCEPT ![p] = pay]
           f == UnappliedBy(pays, c)
           h == UnappliedBy(new, c)
           g == UnusedBy(nts, c)
<1>1. new \in [Payments -> Payment] /\ new[p] = pay /\ \A q \in Payments \ {p} : new[q] = pays[q]
  OBVIOUS
<1>2. /\ Summable(f) /\ f \in [Payments -> Nat] /\ Summable(g) /\ h \in [Payments -> Nat]
      /\ UnusedCredits(pays, nts, c) = SumFunction(f) + SumFunction(g)
      /\ UnusedCredits(new, nts, c) = SumFunction(h) + SumFunction(g)
  BY <1>1, CreditsSum
<1>3. /\ h[p] = Free(pay, c) /\ f[p] = Free(pays[p], c)
      /\ \A q \in Payments \ {p} : h[q] = f[q]
  BY <1>1 DEF UnappliedBy, Free, If
<1> HIDE DEF new, f, h, g
<1>4. DOMAIN f = Payments /\ DOMAIN h = Payments /\ h[p] \in Int /\ f[p] \in Nat /\ h[p] \in Nat
  BY <1>2
<1>5. SumFunction(h) = SumFunction(f) + h[p] - f[p]
  BY <1>2, <1>3, <1>4, SumUpdate
<1>6. SumFunction(f) \in Int /\ SumFunction(g) \in Int
  BY <1>2, SumInt
<1>7. UnusedCredits(new, nts, c) = UnusedCredits(pays, nts, c) + Free(pay, c) - Free(pays[p], c)
  BY <1>2, <1>3, <1>4, <1>5, <1>6
<1> QED BY <1>2, <1>3, <1>4, <1>6, <1>7 DEF new

LEMMA NoteCredits ==
  ASSUME NEW pays \in [Payments -> Payment], NEW nts \in [CreditNotes -> CreditNote], NEW c,
         NEW n \in CreditNotes, NEW note \in CreditNote
  PROVE  /\ UnusedCredits(pays, [nts EXCEPT ![n] = note], c)
              = UnusedCredits(pays, nts, c) + Left(n, note, c) - Left(n, nts[n], c)
         /\ UnusedCredits(pays, nts, c) \in Int
         /\ Left(n, note, c) \in Nat /\ Left(n, nts[n], c) \in Nat
<1> DEFINE new == [nts EXCEPT ![n] = note]
           f == UnusedBy(nts, c)
           h == UnusedBy(new, c)
           g == UnappliedBy(pays, c)
<1>1. /\ new \in [CreditNotes -> CreditNote] /\ new[n] = note
      /\ \A q \in CreditNotes \ {n} : new[q] = nts[q]
  OBVIOUS
<1>2. /\ Summable(f) /\ f \in [CreditNotes -> Nat] /\ Summable(g) /\ h \in [CreditNotes -> Nat]
      /\ UnusedCredits(pays, nts, c) = SumFunction(g) + SumFunction(f)
      /\ UnusedCredits(pays, new, c) = SumFunction(g) + SumFunction(h)
  BY <1>1, CreditsSum
<1>3. /\ h[n] = Left(n, note, c) /\ f[n] = Left(n, nts[n], c)
      /\ \A q \in CreditNotes \ {n} : h[q] = f[q]
  BY <1>1 DEF UnusedBy, Left, If
<1> HIDE DEF new, f, h, g
<1>4. /\ DOMAIN f = CreditNotes /\ DOMAIN h = CreditNotes /\ h[n] \in Int
      /\ f[n] \in Nat /\ h[n] \in Nat
  BY <1>2
<1>5. SumFunction(h) = SumFunction(f) + h[n] - f[n]
  BY <1>2, <1>3, <1>4, SumUpdate
<1>6. SumFunction(f) \in Int /\ SumFunction(g) \in Int
  BY <1>2, SumInt
<1>7. UnusedCredits(pays, new, c) = UnusedCredits(pays, nts, c) + Left(n, note, c) - Left(n, nts[n], c)
  BY <1>2, <1>3, <1>4, <1>5, <1>6
<1> QED BY <1>2, <1>3, <1>4, <1>6, <1>7 DEF new

(* Finalizing draws on the credits of one customer.                        *)
LEMMA DrawnCredits ==
  ASSUME MoneyInv, SourcesSound', NEW i \in Invoices, NEW C, NEW D, Draws(i, C, D), NEW c
  PROVE  /\ UnusedCredits(payments', notes', c)
              = UnusedCredits(payments, notes, c)
                - If(c = InvoiceCustomer[i], SumFunction(C) + SumFunction(D))
         /\ UnusedCredits(payments, notes, c) \in Int
         /\ SumFunction(C) \in Int /\ SumFunction(D) \in Int
<1> DEFINE d == InvoiceCustomer[i]
           f == UnappliedBy(payments, c)
           k == UnappliedBy(payments', c)
           m == [p \in Payments |-> IF c = d THEN C[p] ELSE 0]
           g == UnusedBy(notes, c)
           h == UnusedBy(notes', c)
           w == [n \in CreditNotes |-> IF c = d THEN D[n] ELSE 0]
<1>1. /\ payments \in [Payments -> Payment] /\ payments' \in [Payments -> Payment]
      /\ notes \in [CreditNotes -> CreditNote] /\ notes' \in [CreditNotes -> CreditNote]
  BY DEF MoneyInv, SourcesSound
<1>2. /\ Summable(k) /\ k \in [Payments -> Nat] /\ Summable(h) /\ h \in [CreditNotes -> Nat]
      /\ f \in [Payments -> Nat] /\ g \in [CreditNotes -> Nat] /\ Summable(f) /\ Summable(g)
      /\ UnusedCredits(payments, notes, c) = SumFunction(f) + SumFunction(g)
      /\ UnusedCredits(payments', notes', c) = SumFunction(k) + SumFunction(h)
  BY <1>1, CreditsSum
<1>3. C \in [Payments -> Nat] /\ D \in [CreditNotes -> Nat] /\ Summable(C) /\ Summable(D)
  BY ReceivablesAssumption DEF Draws, Summable
<1>4. Summable(m) /\ DOMAIN m = Payments /\ Summable(w) /\ DOMAIN w = CreditNotes
  BY <1>3, ReceivablesAssumption DEF Summable
<1>5. ASSUME NEW p \in Payments PROVE f[p] = k[p] + m[p]
  <2>1. C[p] \in Nat /\ payments[p] \in Payment /\ payments[p].unapplied \in Nat
    BY <1>1, <1>3 DEF Payment
  <2>2. CASE C[p] > 0
    <3>1. /\ payments[p].customer = d /\ payments[p].status \in Available
          /\ payments'[p] = [payments[p] EXCEPT !.unapplied = payments[p].unapplied - C[p]]
      BY <2>2 DEF Draws, Gives
    <3>2. /\ payments'[p].customer = d /\ payments'[p].status \in Available
          /\ payments'[p].unapplied = payments[p].unapplied - C[p]
      BY <2>1, <3>1 DEF Payment
    <3>3. CASE c = d
      <4>1. f[p] = payments[p].unapplied /\ k[p] = payments[p].unapplied - C[p] /\ m[p] = C[p]
        BY <3>1, <3>2, <3>3 DEF UnappliedBy
      <4> HIDE DEF f, k, m
      <4> QED BY <2>1, <4>1
    <3>4. CASE c # d
      <4>1. f[p] = 0 /\ k[p] = 0 /\ m[p] = 0
        BY <3>1, <3>2, <3>4 DEF UnappliedBy
      <4> QED BY <4>1
    <3> QED BY <3>3, <3>4
  <2>3. CASE ~ (C[p] > 0)
    <3>1. payments'[p] = payments[p] /\ C[p] = 0
      BY <2>1, <2>3 DEF Draws
    <3>2. f[p] = k[p] /\ m[p] = 0 /\ k[p] \in Nat
      BY <1>2, <3>1 DEF UnappliedBy
    <3> HIDE DEF f, k, m
    <3> QED BY <3>2
  <2> QED BY <2>2, <2>3
<1>6. ASSUME NEW n \in CreditNotes PROVE g[n] = h[n] + w[n]
  <2>1. D[n] \in Nat /\ notes[n] \in CreditNote /\ notes[n].balance \in Nat
    BY <1>1, <1>3 DEF CreditNote
  <2>2. CASE D[n] > 0
    <3>1. /\ NoteCustomer[n] = d /\ notes[n].status = "OPEN" /\ D[n] <= notes[n].balance
          /\ notes'[n] = Drawn(notes[n], D[n])
      BY <2>2 DEF Draws, Credits
    <3>2. /\ notes'[n].balance = notes[n].balance - D[n]
          /\ notes'[n].status = (IF notes[n].balance = D[n] THEN "CLOSED" ELSE "OPEN")
      BY <2>1, <3>1 DEF CreditNote, Drawn
    <3>3. CASE c = d
      <4>1. /\ g[n] = notes[n].balance /\ w[n] = D[n]
            /\ h[n] = IF notes'[n].status = "OPEN" THEN notes'[n].balance ELSE 0
        BY <3>1, <3>3 DEF UnusedBy
      <4> HIDE DEF g, h, w
      <4>2. CASE notes[n].balance = D[n]
        BY <2>1, <3>2, <4>1, <4>2
      <4>3. CASE notes[n].balance # D[n]
        BY <2>1, <3>2, <4>1, <4>3
      <4> QED BY <4>2, <4>3
    <3>4. CASE c # d
      <4>1. g[n] = 0 /\ h[n] = 0 /\ w[n] = 0
        BY <3>1, <3>4 DEF UnusedBy
      <4> QED BY <4>1
    <3> QED BY <3>3, <3>4
  <2>3. CASE ~ (D[n] > 0)
    <3>1. notes'[n] = notes[n] /\ D[n] = 0
      BY <2>1, <2>3 DEF Draws
    <3>2. g[n] = h[n] /\ w[n] = 0 /\ h[n] \in Nat
      BY <1>2, <3>1 DEF UnusedBy
    <3> HIDE DEF g, h, w
    <3> QED BY <3>2
  <2> QED BY <2>2, <2>3
<1>7. SumFunction(m) = If(c = d, SumFunction(C)) /\ SumFunction(w) = If(c = d, SumFunction(D))
  <2>1. CASE c = d
    <3>1. m = C /\ w = D
      BY <1>3, <2>1
    <3> QED BY <2>1, <3>1 DEF If
  <2>2. CASE c # d
    <3>1. (\A p \in DOMAIN m : m[p] = 0) /\ \A n \in DOMAIN w : w[n] = 0
      BY <2>2
    <3> HIDE DEF m, w
    <3>2. SumFunction(m) = 0 /\ SumFunction(w) = 0
      BY <1>4, <3>1, SumZero, ReceivablesAssumption
    <3> QED BY <2>2, <3>2 DEF If
  <2> QED BY <2>1, <2>2
<1> HIDE DEF f, k, m, g, h, w, d
<1>8. SumFunction(f) = SumFunction(k) + SumFunction(m)
  <2>1. DOMAIN f = Payments /\ DOMAIN k = Payments
    BY <1>2
  <2> QED BY <1>2, <1>4, <1>5, <2>1, SumAdd
<1>9. SumFunction(g) = SumFunction(h) + SumFunction(w)
  <2>1. DOMAIN g = CreditNotes /\ DOMAIN h = CreditNotes
    BY <1>2
  <2> QED BY <1>2, <1>4, <1>6, <2>1, SumAdd
<1>10. /\ SumFunction(f) \in Int /\ SumFunction(g) \in Int /\ SumFunction(k) \in Int
       /\ SumFunction(h) \in Int /\ SumFunction(C) \in Int /\ SumFunction(D) \in Int
  BY <1>2, <1>3, SumInt
<1>11. UnusedCredits(payments', notes', c)
         = UnusedCredits(payments, notes, c) - If(c = d, SumFunction(C) + SumFunction(D))
  <2>1. CASE c = d
    BY <1>2, <1>7, <1>8, <1>9, <1>10, <2>1 DEF If
  <2>2. CASE c # d
    BY <1>2, <1>7, <1>8, <1>9, <1>10, <2>2 DEF If
  <2> QED BY <2>1, <2>2
<1> QED BY <1>2, <1>10, <1>11 DEF d

-----------------------------------------------------------------------------
(* The ledger *)

HasKey(book, key) == \E e \in book : e.key = key

LEMMA RecordedKeys ==
  ASSUME NEW book, IsFiniteSet(book), NEW key, NEW c, NEW amount \in Int
  PROVE  /\ book \subseteq Recorded(book, key, c, amount)
         /\ \A e \in Recorded(book, key, c, amount) : e \in book \/ e.key = key
         /\ IsFiniteSet(Recorded(book, key, c, amount))
         /\ amount # 0 => HasKey(Recorded(book, key, c, amount), key)
<1> DEFINE x == [key |-> key, customer |-> c, amount |-> amount]
<1>1. x.key = key /\ IsFiniteSet(book \cup {x})
  BY FS_AddElement
<1>2. \/ Recorded(book, key, c, amount) = book /\ (amount = 0 \/ HasKey(book, key))
      \/ Recorded(book, key, c, amount) = book \cup {x}
  BY DEF Recorded, HasKey
<1> HIDE DEF x
<1> QED BY <1>1, <1>2 DEF HasKey

LEMMA BalanceInt ==
  ASSUME NEW book, IsFiniteSet(book), book \subseteq LedgerEntry, NEW c
  PROVE  LET f == [e \in {x \in book : x.customer = c} |-> e.amount]
         IN  Summable(f) /\ Balance(book, c) = SumFunction(f) /\ Balance(book, c) \in Int
<1> DEFINE S == {x \in book : x.customer = c}
           f == [e \in S |-> e.amount]
<1>1. IsFiniteSet(S)
  <2>1. S \subseteq book
    OBVIOUS
  <2> HIDE DEF S
  <2> QED BY <2>1, FS_Subset
<1>2. \A e \in S : e.amount \in Int
  BY DEF LedgerEntry
<1>3. Summable(f)
  <2> HIDE DEF S
  <2> QED BY <1>1, <1>2 DEF Summable
<1>4. Balance(book, c) = SumFunction(f)
  BY DEF Balance
<1>5. SumFunction(f) \in Int
  <2> HIDE DEF f
  <2> QED BY <1>3, SumInt
<1> QED BY <1>3, <1>4, <1>5

(* A fresh entry counts for its customer, and none for another.            *)
LEMMA BalanceRecorded ==
  ASSUME NEW book, IsFiniteSet(book), book \subseteq LedgerEntry, NEW key, NEW d,
         NEW amount \in Int, NEW c, c = d => ~ HasKey(book, key)
  PROVE  Balance(Recorded(book, key, d, amount), c) = Balance(book, c) + If(c = d, amount)
<1> DEFINE x == [key |-> key, customer |-> d, amount |-> amount]
           S(b) == {e \in b : e.customer = c}
           f == [e \in S(book) |-> e.amount]
           new == Recorded(book, key, d, amount)
           h == [e \in S(new) |-> e.amount]
<1> SUFFICES Balance(new, c) = Balance(book, c) + If(c = d, amount)
  OBVIOUS
<1>1. Summable(f) /\ Balance(book, c) = SumFunction(f) /\ SumFunction(f) \in Int
  BY BalanceInt
<1>2. CASE amount = 0
  <2>1. new = book /\ If(c = d, amount) = 0
    BY <1>2 DEF Recorded, If
  <2> HIDE DEF new
  <2> QED BY <1>1, <2>1
<1>3. CASE amount # 0
  <2>1. /\ new = book \/ new = book \cup {x}
        /\ c = d => new = book \cup {x} /\ x \notin book
    BY <1>3 DEF Recorded, HasKey
  <2>2. x.customer = d /\ x.amount = amount
    OBVIOUS
  <2>3. Balance(new, c) = SumFunction(h)
    BY DEF Balance
  <2>4. CASE c = d
    <3>1. S(new) = S(book) \cup {x}
      <4> HIDE DEF x, new
      <4> QED BY <2>1, <2>2, <2>4
    <3>2. /\ DOMAIN h = DOMAIN f \cup {x} /\ x \notin DOMAIN f
          /\ h[x] = amount /\ \A e \in DOMAIN f : h[e] = f[e]
      <4> HIDE DEF x, new
      <4> QED BY <2>1, <2>2, <2>4, <3>1
    <3> HIDE DEF f, h, x, new
    <3>3. SumFunction(h) = SumFunction(f) + h[x]
      BY <1>1, <3>2, SumInsert
    <3> QED BY <1>1, <2>3, <2>4, <3>2, <3>3 DEF If
  <2>5. CASE c # d
    <3>1. S(new) = S(book)
      <4> HIDE DEF x, new
      <4> QED BY <2>1, <2>2, <2>5
    <3>2. h = f
      <4> HIDE DEF new, S
      <4> QED BY <3>1
    <3> HIDE DEF f, h, new
    <3> QED BY <1>1, <2>3, <2>5, <3>2 DEF If
  <2> QED BY <2>4, <2>5
<1> QED BY <1>2, <1>3

(* What the intents of a customer brought in                               *)
Brought(ints, c) == SumFunction([x \in {y \in ints : y.customer = c} |-> x.amount])

LEMMA BroughtInt ==
  ASSUME NEW ints, IsFiniteSet(ints), ints \subseteq Intent, NEW c
  PROVE  LET f == [x \in {y \in ints : y.customer = c} |-> x.amount]
         IN  Summable(f) /\ Brought(ints, c) = SumFunction(f) /\ Brought(ints, c) \in Int
<1> DEFINE S == {y \in ints : y.customer = c}
           f == [x \in S |-> x.amount]
<1>1. IsFiniteSet(S)
  <2>1. S \subseteq ints
    OBVIOUS
  <2> HIDE DEF S
  <2> QED BY <2>1, FS_Subset
<1>2. \A e \in S : e.amount \in Int
  BY DEF Intent
<1>3. Summable(f)
  <2> HIDE DEF S
  <2> QED BY <1>1, <1>2 DEF Summable
<1>4. Brought(ints, c) = SumFunction(f)
  BY DEF Brought
<1>5. SumFunction(f) \in Int
  <2> HIDE DEF f
  <2> QED BY <1>3, SumInt
<1> QED BY <1>3, <1>4, <1>5

LEMMA BroughtMore ==
  ASSUME NEW ints, IsFiniteSet(ints), ints \subseteq Intent, NEW x, x \notin ints,
         x.amount \in Int, NEW c
  PROVE  Brought(ints \cup {x}, c) = Brought(ints, c) + If(x.customer = c, x.amount)
<1> DEFINE S(b) == {y \in b : y.customer = c}
           f == [y \in S(ints) |-> y.amount]
           h == [y \in S(ints \cup {x}) |-> y.amount]
<1>1. Summable(f) /\ Brought(ints, c) = SumFunction(f) /\ SumFunction(f) \in Int
  BY BroughtInt
<1>2. Brought(ints \cup {x}, c) = SumFunction(h)
  BY DEF Brought
<1>3. CASE x.customer = c
  <2>1. S(ints \cup {x}) = S(ints) \cup {x}
    BY <1>3
  <2>2. /\ DOMAIN h = DOMAIN f \cup {x} /\ x \notin DOMAIN f
        /\ h[x] = x.amount /\ \A e \in DOMAIN f : h[e] = f[e]
    BY <2>1
  <2> HIDE DEF f, h
  <2>3. SumFunction(h) = SumFunction(f) + h[x]
    BY <1>1, <2>2, SumInsert
  <2> QED BY <1>1, <1>2, <1>3, <2>2, <2>3 DEF If
<1>4. CASE x.customer # c
  <2>1. S(ints \cup {x}) = S(ints)
    BY <1>4
  <2>2. h = f
    <3> HIDE DEF S
    <3> QED BY <2>1
  <2> HIDE DEF f, h
  <2> QED BY <1>1, <1>2, <1>4, <2>2 DEF If
<1> QED BY <1>3, <1>4

(* What the entries of a kind say of an invoice, and what write-offs and   *)
(* invalidations of a customer's invoices left out of the ledger           *)
EnteredIn(book, kind, i) ==
  SumFunction([e \in {x \in book : x.key = Key(kind, i, 0)} |-> e.amount])

Gap(book, inv, v, i) ==
  inv.writtenOff + EnteredIn(book, "write-off", i)
  + Struck(v) + EnteredIn(book, "advance-invalidated", i)

SwallowedBy(book, invs, gone, c) ==
  [i \in {j \in Invoices : InvoiceCustomer[j] = c} |-> Gap(book, invs[i], gone[i], i)]

Swallowed(book, invs, gone, c) == SumFunction(SwallowedBy(book, invs, gone, c))

LEMMA EnteredInt ==
  ASSUME NEW book, IsFiniteSet(book), book \subseteq LedgerEntry, NEW kind, NEW i
  PROVE  EnteredIn(book, kind, i) \in Int
<1> DEFINE S == {x \in book : x.key = Key(kind, i, 0)}
           f == [e \in S |-> e.amount]
<1>1. IsFiniteSet(S)
  <2>1. S \subseteq book
    OBVIOUS
  <2> HIDE DEF S
  <2> QED BY <2>1, FS_Subset
<1>2. \A e \in S : e.amount \in Int
  BY DEF LedgerEntry
<1>3. Summable(f)
  <2> HIDE DEF S
  <2> QED BY <1>1, <1>2 DEF Summable
<1>4. EnteredIn(book, kind, i) = SumFunction(f)
  BY DEF EnteredIn
<1> HIDE DEF f
<1> QED BY <1>3, <1>4, SumInt

LEMMA EnteredAlike ==
  ASSUME NEW book, NEW new, book \subseteq new, NEW kind, NEW i,
         \A e \in new : e \in book \/ e.key # Key(kind, i, 0)
  PROVE  EnteredIn(new, kind, i) = EnteredIn(book, kind, i)
<1>1. {x \in new : x.key = Key(kind, i, 0)} = {x \in book : x.key = Key(kind, i, 0)}
  OBVIOUS
<1> QED BY <1>1 DEF EnteredIn

(* The first entry of a kind                                               *)
LEMMA EnteredFirst ==
  ASSUME NEW book, NEW kind, NEW i, NEW d, NEW amount \in Int,
         ~ HasKey(book, Key(kind, i, 0))
  PROVE  /\ EnteredIn(book, kind, i) = 0
         /\ EnteredIn(Recorded(book, Key(kind, i, 0), d, amount), kind, i) = amount
<1> DEFINE key == Key(kind, i, 0)
           x == [key |-> key, customer |-> d, amount |-> amount]
           f == [e \in {y \in book : y.key = key} |-> e.amount]
           new == Recorded(book, key, d, amount)
           h == [e \in {y \in new : y.key = key} |-> e.amount]
<1>1. {y \in book : y.key = key} = {}
  BY DEF HasKey
<1>2. DOMAIN f = {}
  BY <1>1
<1>3. EnteredIn(book, kind, i) = SumFunction(f) /\ EnteredIn(new, kind, i) = SumFunction(h)
  BY DEF EnteredIn
<1>4. SumFunction(f) = 0
  <2> HIDE DEF f
  <2> QED BY <1>2, SumEmpty
<1>5. CASE amount = 0
  <2>1. new = book
    BY <1>5 DEF Recorded
  <2>2. h = f
    <3> HIDE DEF new
    <3> QED BY <2>1
  <2> HIDE DEF f, h
  <2> QED BY <1>3, <1>4, <1>5, <2>2
<1>6. CASE amount # 0
  <2>1. new = book \cup {x}
    BY <1>6 DEF Recorded, HasKey
  <2>2. {y \in new : y.key = key} = {x}
    BY <1>1, <2>1
  <2>3. DOMAIN h = {x} /\ h[x] = amount
    BY <2>2
  <2>4. Summable(h)
    BY <2>3, FS_Singleton DEF Summable
  <2> HIDE DEF f, h, x
  <2>5. SumFunction(h) = h[x]
    BY <2>3, <2>4, SumOne
  <2> QED BY <1>3, <1>4, <2>3, <2>5
<1> QED BY <1>5, <1>6

LEMMA GapInt ==
  ASSUME NEW book, IsFiniteSet(book), book \subseteq LedgerEntry,
         NEW inv \in Invoice, NEW v, Struck(v) \in Nat, NEW i
  PROVE  Gap(book, inv, v, i) \in Int
<1>1. /\ EnteredIn(book, "write-off", i) \in Int
      /\ EnteredIn(book, "advance-invalidated", i) \in Int /\ inv.writtenOff \in Nat
  BY EnteredInt DEF Invoice
<1> QED BY <1>1 DEF Gap

LEMMA SwallowedInt ==
  ASSUME NEW book, IsFiniteSet(book), book \subseteq LedgerEntry,
         NEW invs \in [Invoices -> Invoice], NEW gone,
         \A i \in Invoices : Struck(gone[i]) \in Nat, NEW c
  PROVE  /\ Summable(SwallowedBy(book, invs, gone, c))
         /\ Swallowed(book, invs, gone, c) \in Int
<1> DEFINE S == {j \in Invoices : InvoiceCustomer[j] = c}
           f == [i \in S |-> Gap(book, invs[i], gone[i], i)]
<1>1. IsFiniteSet(S)
  <2>1. S \subseteq Invoices
    OBVIOUS
  <2> HIDE DEF S
  <2> QED BY <2>1, FS_Subset, ReceivablesAssumption
<1>2. \A i \in S : Gap(book, invs[i], gone[i], i) \in Int
  BY GapInt
<1>3. Summable(f)
  <2> HIDE DEF S
  <2> QED BY <1>1, <1>2 DEF Summable
<1>4. f = SwallowedBy(book, invs, gone, c)
  BY DEF SwallowedBy
<1>5. SumFunction(f) \in Int
  <2> HIDE DEF f
  <2> QED BY <1>3, SumInt
<1> QED BY <1>3, <1>4, <1>5 DEF Swallowed

LEMMA SwallowedAlike ==
  ASSUME NEW book, NEW new, NEW invs, NEW newinvs, NEW gone, NEW newgone, NEW c,
         \A i \in Invoices : InvoiceCustomer[i] = c =>
           Gap(new, newinvs[i], newgone[i], i) = Gap(book, invs[i], gone[i], i)
  PROVE  Swallowed(new, newinvs, newgone, c) = Swallowed(book, invs, gone, c)
<1> DEFINE S == {j \in Invoices : InvoiceCustomer[j] = c}
<1>1. [i \in S |-> Gap(new, newinvs[i], newgone[i], i)]
        = [i \in S |-> Gap(book, invs[i], gone[i], i)]
  OBVIOUS
<1> QED BY <1>1 DEF Swallowed, SwallowedBy

(* The gap of one invoice widens, or narrows.                              *)
LEMMA SwallowedMore ==
  ASSUME NEW book, IsFiniteSet(book), book \subseteq LedgerEntry,
         NEW invs \in [Invoices -> Invoice], NEW gone,
         \A j \in Invoices : Struck(gone[j]) \in Nat,
         NEW new, NEW newinvs, NEW newgone, NEW i \in Invoices, NEW more \in Int,
         Gap(new, newinvs[i], newgone[i], i) = Gap(book, invs[i], gone[i], i) + more,
         \A j \in Invoices \ {i} :
           Gap(new, newinvs[j], newgone[j], j) = Gap(book, invs[j], gone[j], j),
         NEW c
  PROVE  Swallowed(new, newinvs, newgone, c)
           = Swallowed(book, invs, gone, c) + If(c = InvoiceCustomer[i], more)
<1> DEFINE f == SwallowedBy(book, invs, gone, c)
           h == SwallowedBy(new, newinvs, newgone, c)
<1>1. /\ Summable(f) /\ Swallowed(book, invs, gone, c) = SumFunction(f)
      /\ Swallowed(new, newinvs, newgone, c) = SumFunction(h) /\ SumFunction(f) \in Int
  BY SwallowedInt DEF Swallowed
<1>2. CASE c = InvoiceCustomer[i]
  <2>1. i \in DOMAIN f /\ DOMAIN h = DOMAIN f /\ \A j \in DOMAIN f \ {i} : h[j] = f[j]
    BY <1>2 DEF SwallowedBy
  <2>2. h[i] = f[i] + more /\ f[i] \in Int /\ h[i] \in Int
    <3>1. Gap(book, invs[i], gone[i], i) \in Int
      BY GapInt
    <3>2. f[i] = Gap(book, invs[i], gone[i], i) /\ h[i] = Gap(new, newinvs[i], newgone[i], i)
      BY <1>2 DEF SwallowedBy
    <3> HIDE DEF f, h
    <3> QED BY <3>1, <3>2
  <2> HIDE DEF f, h
  <2>3. SumFunction(h) = SumFunction(f) + h[i] - f[i]
    BY <1>1, <2>1, <2>2, SumUpdate
  <2> QED BY <1>1, <1>2, <2>2, <2>3 DEF If
<1>3. CASE c # InvoiceCustomer[i]
  <2>1. h = f
    BY <1>3 DEF SwallowedBy
  <2> HIDE DEF f, h
  <2> QED BY <1>1, <1>3, <2>1 DEF If
<1> QED BY <1>2, <1>3

-----------------------------------------------------------------------------
(* Why a key is new when it is written: what an entry with a key says of   *)
(* the row that it was written for.                                        *)

(* Nothing that was voided by hand, with nothing applied to it, comes back.*)
Dead(inv, v) == inv.status = "VOID" /\ ~ AddsUp(inv, v)

Explained(key, invs, pays, nts, lax, gone) ==
  /\ key.id \in Invoices =>
       /\ invs[key.id].status \in Finalized
       /\ key.kind = "voided" /\ key.id \notin lax => Dead(invs[key.id], gone[key.id])
       /\ key.kind = "advance-invalidated" => gone[key.id].phase = "done"
  /\ key.id \in Payments =>
       /\ pays[key.id].status # "absent"
       /\ key.kind = "received" => key.n <= pays[key.id].revision
       /\ key.kind = "reversed" => key.n < pays[key.id].revision
       /\ key.kind = "refund"   => key.n <= pays[key.id].refunded
  /\ key.id \in CreditNotes =>
       /\ nts[key.id].status # "absent"
       /\ key.kind = "voided" => nts[key.id].status = "VOID"
       /\ key.kind = "refund" => key.n <= nts[key.id].refunded

(* Nothing that an entry says of a row is ever unsaid.                     *)
Stands(old, new, lax, was, is) ==
  /\ old.status \in Finalized => new.status \in Finalized
  /\ ~ lax /\ Dead(old, was) => Dead(new, is)

SameStanding(old, new, lax, v) ==
  /\ old.status \in Finalized <=> new.status \in Finalized
  /\ new.status \in Missing => old.status \in Missing
  /\ new.total = old.total /\ new.writtenOff = old.writtenOff
  /\ ~ lax => (AddsUp(new, v) <=> AddsUp(old, v))
  /\ ~ lax /\ Dead(old, v) => new.status = "VOID"

(* What settles an invoice takes nothing from the sum of its amounts.      *)
LEMMA SameAmounts ==
  ASSUME NEW old \in Invoice, NEW new \in Invoice, NEW lax, NEW v, Struck(v) \in Nat,
         new.total = old.total, new.writtenOff = old.writtenOff,
         new.due + new.paid + new.credited = old.due + old.paid + old.credited,
         \/ new.status = old.status
         \/ /\ old.status \in Finalized /\ new.status \in Finalized
            /\ ~ lax => ~ Dead(old, v)
  PROVE  SameStanding(old, new, lax, v)
<1>1. /\ old.due \in Nat /\ old.paid \in Nat /\ old.credited \in Nat /\ old.writtenOff \in Nat
      /\ new.due \in Nat /\ new.paid \in Nat /\ new.credited \in Nat /\ old.total \in Nat
  BY DEF Invoice
<1>2. AddsUp(new, v) <=> AddsUp(old, v)
  BY <1>1 DEF AddsUp
<1>3. "absent" \notin Finalized /\ "deleted" \notin Finalized
  BY DEF Finalized, Collectible
<1> QED BY <1>2, <1>3 DEF SameStanding, Dead, Missing

PaymentsOnward ==
  \A p \in Payments : payments[p].status # "absent" =>
    /\ payments'[p].status # "absent"
    /\ payments'[p].revision >= payments[p].revision
    /\ payments'[p].refunded >= payments[p].refunded

NotesOnward ==
  \A n \in CreditNotes : notes[n].status # "absent" =>
    /\ notes'[n].status # "absent" /\ notes'[n].refunded >= notes[n].refunded
    /\ notes[n].status = "VOID" => notes'[n].status = "VOID"

(* A finalized invoice whose amounts add up, and a write-off, are in the   *)
(* ledger.                                                                 *)
InBook(book, inv, i, lax, v) ==
  /\ inv.status \in Missing => inv.total = 0
  /\ i \notin lax /\ inv.status \in Finalized /\ inv.total > 0 /\ AddsUp(inv, v) =>
       HasKey(book, Key("finalized", i, 0))
  /\ inv.writtenOff > 0 => HasKey(book, Key("write-off", i, 0))

BookInv ==
  /\ IsFiniteSet(ledger) /\ IsFiniteSet(intents)
  /\ \A e \in ledger : Explained(e.key, invoices, payments, notes, rewritten, invalidating)
  /\ \A y \in intents : payments[y.payment].status # "absent"
  /\ \A i \in Invoices : InBook(ledger, invoices[i], i, rewritten, invalidating[i])

LEMMA ExplainedKept ==
  ASSUME MoneyInv, MoneyInv', NEW key \in LedgerKey,
         Explained(key, invoices, payments, notes, rewritten, invalidating),
         key.id \in Invoices =>
           /\ Stands(invoices[key.id], invoices'[key.id], key.id \in rewritten',
                     invalidating[key.id], invalidating'[key.id])
           /\ invalidating[key.id].phase = "done" => invalidating'[key.id].phase = "done",
         rewritten \subseteq rewritten',
         PaymentsOnward, NotesOnward
  PROVE  Explained(key, invoices', payments', notes', rewritten', invalidating')
<1>0. /\ payments \in [Payments -> Payment] /\ payments' \in [Payments -> Payment]
      /\ notes \in [CreditNotes -> CreditNote] /\ notes' \in [CreditNotes -> CreditNote]
  BY DEF MoneyInv, SourcesSound
<1>1. key.n \in Nat
  BY DEF LedgerKey
<1>2. key.id \in Invoices =>
       /\ invoices'[key.id].status \in Finalized
       /\ key.kind = "voided" /\ key.id \notin rewritten' =>
            Dead(invoices'[key.id], invalidating'[key.id])
       /\ key.kind = "advance-invalidated" => invalidating'[key.id].phase = "done"
  BY DEF Explained, Stands
<1>3. ASSUME key.id \in Payments
      PROVE  /\ payments'[key.id].status # "absent"
             /\ key.kind = "received" => key.n <= payments'[key.id].revision
             /\ key.kind = "reversed" => key.n < payments'[key.id].revision
             /\ key.kind = "refund"   => key.n <= payments'[key.id].refunded
  <2>1. /\ payments[key.id].revision \in Nat /\ payments'[key.id].revision \in Nat
        /\ payments[key.id].refunded \in Nat /\ payments'[key.id].refunded \in Nat
    BY <1>0, <1>3 DEF Payment
  <2>2. /\ payments'[key.id].status # "absent"
        /\ payments'[key.id].revision >= payments[key.id].revision
        /\ payments'[key.id].refunded >= payments[key.id].refunded
    BY <1>3 DEF Explained, PaymentsOnward
  <2> QED BY <1>1, <1>3, <2>1, <2>2 DEF Explained
<1>4. ASSUME key.id \in CreditNotes
      PROVE  /\ notes'[key.id].status # "absent"
             /\ key.kind = "voided" => notes'[key.id].status = "VOID"
             /\ key.kind = "refund" => key.n <= notes'[key.id].refunded
  <2>1. notes[key.id].refunded \in Nat /\ notes'[key.id].refunded \in Nat
    BY <1>0, <1>4 DEF CreditNote
  <2>2. /\ notes'[key.id].status # "absent" /\ notes'[key.id].refunded >= notes[key.id].refunded
        /\ notes[key.id].status = "VOID" => notes'[key.id].status = "VOID"
    BY <1>4 DEF Explained, NotesOnward
  <2> QED BY <1>1, <1>4, <2>1, <2>2 DEF Explained
<1> QED BY <1>2, <1>3, <1>4 DEF Explained

(* How a step keeps the books                                              *)
Restated(i) ==
  /\ invalidating[i].phase = "done" => invalidating'[i].phase = "done"
  /\ \/ /\ SameStanding(invoices[i], invoices'[i], i \in rewritten, invalidating[i])
        /\ Struck(invalidating'[i]) = Struck(invalidating[i])
     \/ /\ InBook(ledger', invoices'[i], i, rewritten', invalidating'[i])
        /\ \/ Stands(invoices[i], invoices'[i], i \in rewritten',
                    invalidating[i], invalidating'[i])
           \/ \A e \in ledger : e.key.id # i

LEMMA BookStep ==
  ASSUME MoneyInv, MoneyInv', BookInv, \A i \in Invoices : Restated(i),
         PaymentsOnward, NotesOnward,
         rewritten \subseteq rewritten', ledger \subseteq ledger', IsFiniteSet(ledger'),
         \A e \in ledger' :
             e \in ledger \/ Explained(e.key, invoices', payments', notes', rewritten', invalidating'),
         IsFiniteSet(intents'),
         \A y \in intents' : y \in intents \/ payments'[y.payment].status # "absent"
  PROVE  BookInv'
<1>1. ledger \subseteq LedgerEntry /\ intents \subseteq Intent
  BY DEF MoneyInv, BooksTyped
<1>2. ASSUME NEW e \in ledger
      PROVE Explained(e.key, invoices', payments', notes', rewritten', invalidating')
  <2>1. e.key \in LedgerKey /\ Explained(e.key, invoices, payments, notes, rewritten, invalidating)
    BY <1>1 DEF LedgerEntry, BookInv
  <2>2. ASSUME NEW i \in Invoices, i = e.key.id
        PROVE  /\ Stands(invoices[i], invoices'[i], i \in rewritten',
                         invalidating[i], invalidating'[i])
               /\ invalidating[i].phase = "done" => invalidating'[i].phase = "done"
    BY <2>2 DEF Restated, SameStanding, Stands, Dead, AddsUp
  <2> QED BY <2>1, <2>2, ExplainedKept
<1>3. \A y \in intents : payments'[y.payment].status # "absent"
  BY <1>1 DEF BookInv, PaymentsOnward, Intent
<1>4. ASSUME NEW i \in Invoices PROVE InBook(ledger', invoices'[i], i, rewritten', invalidating'[i])
  <2>1. InBook(ledger, invoices[i], i, rewritten, invalidating[i])
    BY DEF BookInv
  <2> QED BY <2>1 DEF Restated, SameStanding, InBook, HasKey, AddsUp
<1> QED BY <1>2, <1>3, <1>4 DEF BookInv

(* Rows that nothing is written to, or one that is                         *)
LEMMA NoPaymentBack ==
  ASSUME MoneyInv, UNCHANGED payments PROVE PaymentsOnward
<1>1. \A p \in Payments : payments[p].revision \in Nat /\ payments[p].refunded \in Nat
  BY MoneyTypes DEF Payment
<1> QED BY <1>1 DEF PaymentsOnward

LEMMA NoNoteBack ==
  ASSUME MoneyInv, UNCHANGED notes PROVE NotesOnward
<1>1. \A n \in CreditNotes : notes[n].refunded \in Nat
  BY MoneyTypes DEF CreditNote
<1> QED BY <1>1 DEF NotesOnward

LEMMA PaymentOnward ==
  ASSUME MoneyInv, NEW p \in Payments, NEW pay,
         payments' = [payments EXCEPT ![p] = pay],
         payments[p].status # "absent" =>
           /\ pay.status # "absent" /\ pay.revision >= payments[p].revision
           /\ pay.refunded >= payments[p].refunded
  PROVE  PaymentsOnward
<1>1. \A q \in Payments : payments[q].revision \in Nat /\ payments[q].refunded \in Nat
  BY MoneyTypes DEF Payment
<1>2. payments'[p] = pay /\ \A q \in Payments \ {p} : payments'[q] = payments[q]
  BY MoneyTypes
<1> QED BY <1>1, <1>2 DEF PaymentsOnward

LEMMA NoteOnward ==
  ASSUME MoneyInv, NEW n \in CreditNotes, NEW note,
         notes' = [notes EXCEPT ![n] = note],
         notes[n].status # "absent" =>
           /\ note.status # "absent" /\ note.refunded >= notes[n].refunded
           /\ notes[n].status = "VOID" => note.status = "VOID"
  PROVE  NotesOnward
<1>1. \A m \in CreditNotes : notes[m].refunded \in Nat
  BY MoneyTypes DEF CreditNote
<1>2. notes'[n] = note /\ \A m \in CreditNotes \ {n} : notes'[m] = notes[m]
  BY MoneyTypes
<1> QED BY <1>1, <1>2 DEF NotesOnward

LEMMA NothingRestated ==
  ASSUME UNCHANGED <<invoices, invalidating>> PROVE \A i \in Invoices : Restated(i)
BY DEF Restated, SameStanding, Dead

(* Allocations and reversals keep an invoice's standing.                   *)
LEMMA AfterStanding ==
  ASSUME NEW invs, NEW lax, NEW gone, Sound(invs, lax, gone), NEW s \in Sources, NEW d,
         NEW alloc \in Allocations, LoadTargets(invs, d, alloc), NEW i \in Invoices
  PROVE  SameStanding(invs[i], InvoicesAfter(invs, s, alloc)[i], i \in lax, gone[i])
<1> DEFINE new == InvoicesAfter(invs, s, alloc)
<1>0. invs[i] \in Invoice /\ Struck(gone[i]) \in Nat
  BY DEF Sound, SoundRow
<1>1. CASE i \in DOMAIN alloc
  <2> DEFINE old == invs[i]
             mid == Settled(old, s, alloc[i])
  <2>1. old.status \in Collectible /\ alloc[i] <= old.due /\ alloc[i] \in Nat \ {0}
    BY <1>1, AllocAmounts DEF LoadTargets
  <2>2. new[i] = Reprojected(mid)
    BY <1>1 DEF InvoicesAfter
  <2>3. /\ DOMAIN mid = DOMAIN old /\ mid.total = old.total /\ mid.writtenOff = old.writtenOff
        /\ mid.due + mid.paid + mid.credited = old.due + old.paid + old.credited
    BY <1>0, <2>1 DEF Settled, Invoice
  <2>4. DOMAIN old = {"status", "total", "due", "paid", "credited", "writtenOff", "late",
                      "sent", "paidAt"}
    BY <1>0 DEF Invoice
  <2>5. SoundRow(Reprojected(mid), i \in lax, gone[i])
    BY <1>0, <2>1, SettledSound DEF Sound
  <2> HIDE DEF mid
  <2>6. /\ Reprojected(mid).status = Projected(mid) /\ Reprojected(mid).total = mid.total
        /\ Reprojected(mid).writtenOff = mid.writtenOff /\ Reprojected(mid).due = mid.due
        /\ Reprojected(mid).paid = mid.paid /\ Reprojected(mid).credited = mid.credited
    BY <2>3, <2>4 DEF Reprojected
  <2>7. Projected(mid) \in Collectible \cup {"PAID"}
    BY DEF Projected, Collectible
  <2>8. new[i] \in Invoice
    BY <2>2, <2>5 DEF SoundRow
  <2> HIDE DEF new, old
  <2>9. new[i].status \in Finalized /\ old.status \in Finalized /\ old.status # "VOID"
    BY <2>1, <2>2, <2>6, <2>7 DEF Finalized, Collectible
  <2>10. ~ Dead(old, gone[i])
    BY <2>9 DEF Dead
  <2>11. SameStanding(old, new[i], i \in lax, gone[i])
    BY <1>0, <2>2, <2>3, <2>6, <2>8, <2>9, <2>10, SameAmounts DEF old
  <2> QED BY <2>11 DEF old, new
<1>2. CASE i \notin DOMAIN alloc
  <2>1. new[i] = invs[i]
    BY <1>2 DEF InvoicesAfter
  <2> HIDE DEF new
  <2> QED BY <1>0, <2>1, SameAmounts DEF new
<1> QED BY <1>1, <1>2

LEMMA RestoredStanding ==
  ASSUME NEW invs, NEW lax, NEW gone, Sound(invs, lax, gone), NEW s \in Sources,
         NEW row \in Rows, Remembers(row, invs, lax, gone), Storable(invs, row, s),
         NEW last \in Restorations(row), NEW i \in Invoices
  PROVE  SameStanding(invs[i], InvoicesRestored(invs, s, row, last)[i], i \in lax, gone[i])
<1> DEFINE new == InvoicesRestored(invs, s, row, last)
<1>0. invs[i] \in Invoice /\ Struck(gone[i]) \in Nat /\ row[i].amount \in Nat
  BY DEF Sound, SoundRow, Rows, Applied
<1>1. new[i] \in Invoice
  <2>1. Sound(new, lax, gone)
    BY ReversalSound
  <2> HIDE DEF new
  <2> QED BY <2>1 DEF Sound
<1>2. CASE i \in Touched(row)
  <2> DEFINE old == invs[i]
  <2>1. Backed(old, i \in lax, gone[i])
    BY <1>2 DEF Touched, Remembers, SoundAllocation
  <2>2. last[i] \in Moment
    BY <1>2 DEF Restorations, Rows, Applied
  <2>3. new[i] = Restored(old, s, row[i].amount, last[i])
    BY <1>2 DEF InvoicesRestored
  <2>4. /\ new[i].status = last[i].status /\ new[i].total = old.total
        /\ new[i].writtenOff = old.writtenOff
        /\ new[i].due + new[i].paid + new[i].credited = old.due + old.paid + old.credited
    <3>1. /\ old.due \in Nat /\ old.paid \in Nat /\ old.credited \in Nat
      BY <1>0 DEF Invoice
    <3> HIDE DEF new
    <3> QED BY <1>0, <2>3, <3>1 DEF Restored, Invoice
  <2>5. last[i].status \in Collectible
    BY <2>2 DEF Moment
  <2> HIDE DEF new, old
  <2>6. new[i].status \in Finalized /\ old.status \in Finalized
    BY <2>1, <2>4, <2>5 DEF Finalized, Backed
  <2>7. i \notin lax => ~ Dead(old, gone[i])
    BY <2>1 DEF Dead, Backed
  <2>8. SameStanding(old, new[i], i \in lax, gone[i])
    BY <1>0, <1>1, <2>4, <2>6, <2>7, SameAmounts DEF old
  <2> QED BY <2>8 DEF old, new
<1>3. CASE i \notin Touched(row)
  <2>1. new[i] = invs[i]
    BY <1>3 DEF InvoicesRestored
  <2> HIDE DEF new
  <2> QED BY <1>0, <2>1, SameAmounts DEF new
<1> QED BY <1>2, <1>3

LEMMA StandingTransitive ==
  ASSUME NEW a, NEW b, NEW c, NEW lax, NEW v,
         SameStanding(a, b, lax, v), SameStanding(b, c, lax, v)
  PROVE  SameStanding(a, c, lax, v)
BY DEF SameStanding, Dead

(* A step that enters nothing, and one that writes a single entry          *)
LEMMA BookKept ==
  ASSUME MoneyInv, MoneyInv', BookInv, \A i \in Invoices : Restated(i),
         PaymentsOnward, NotesOnward, UNCHANGED <<ledger, intents>>,
         rewritten \subseteq rewritten'
  PROVE  BookInv'
<1>1. IsFiniteSet(ledger') /\ IsFiniteSet(intents')
  BY DEF BookInv
<1> QED BY <1>1, BookStep

LEMMA BookEntered ==
  ASSUME MoneyInv, MoneyInv', BookInv, \A i \in Invoices : Restated(i),
         PaymentsOnward, NotesOnward, UNCHANGED <<intents, rewritten>>,
         NEW key, NEW c, NEW amount \in Int, ledger' = Recorded(ledger, key, c, amount),
         Explained(key, invoices', payments', notes', rewritten', invalidating')
  PROVE  BookInv'
<1>1. IsFiniteSet(ledger) /\ IsFiniteSet(intents)
  BY DEF BookInv
<1>2. /\ ledger \subseteq ledger' /\ \A e \in ledger' : e \in ledger \/ e.key = key
      /\ IsFiniteSet(ledger')
  BY <1>1, RecordedKeys
<1> QED BY <1>1, <1>2, BookStep

(* An entry is about an invoice, a payment or a note.                      *)
LEMMA KeyParts ==
  ASSUME NEW kind, NEW id, NEW n
  PROVE  Key(kind, id, n).kind = kind /\ Key(kind, id, n).id = id /\ Key(kind, id, n).n = n
BY DEF Key

LEMMA InvoiceExplained ==
  ASSUME NEW kind, NEW i \in Invoices, NEW n, NEW invs, NEW pays, NEW nts, NEW lax, NEW gone,
         invs[i].status \in Finalized,
         kind = "voided" /\ i \notin lax => Dead(invs[i], gone[i]),
         kind = "advance-invalidated" => gone[i].phase = "done"
  PROVE  Explained(Key(kind, i, n), invs, pays, nts, lax, gone)
<1>1. i \notin Payments /\ i \notin CreditNotes
  BY ReceivablesAssumption DEF Sources
<1> QED BY <1>1, KeyParts DEF Explained

LEMMA PaymentExplained ==
  ASSUME NEW kind, NEW p \in Payments, NEW n, NEW invs, NEW pays, NEW nts, NEW lax, NEW gone,
         pays[p].status # "absent", kind = "received" => n <= pays[p].revision,
         kind = "reversed" => n < pays[p].revision, kind = "refund" => n <= pays[p].refunded
  PROVE  Explained(Key(kind, p, n), invs, pays, nts, lax, gone)
<1>1. p \notin Invoices /\ p \notin CreditNotes
  BY ReceivablesAssumption DEF Sources
<1> QED BY <1>1, KeyParts DEF Explained

LEMMA NoteExplained ==
  ASSUME NEW kind, NEW m \in CreditNotes, NEW n, NEW invs, NEW pays, NEW nts, NEW lax, NEW gone,
         nts[m].status # "absent", kind = "voided" => nts[m].status = "VOID",
         kind = "refund" => n <= nts[m].refunded
  PROVE  Explained(Key(kind, m, n), invs, pays, nts, lax, gone)
<1>1. m \notin Invoices /\ m \notin Payments
  BY ReceivablesAssumption DEF Sources
<1> QED BY <1>1, KeyParts DEF Explained

(* One invoice is written.                                                 *)
LEMMA OneRestated ==
  ASSUME MoneyInv, NEW i \in Invoices, NEW row, invoices' = [invoices EXCEPT ![i] = row],
         UNCHANGED invalidating,
         \/ SameStanding(invoices[i], row, i \in rewritten, invalidating[i])
         \/ /\ InBook(ledger', row, i, rewritten', invalidating'[i])
            /\ Stands(invoices[i], row, i \in rewritten', invalidating[i], invalidating'[i]) \/ \A e \in ledger : e.key.id # i
  PROVE  \A j \in Invoices : Restated(j)
<1>1. invoices'[i] = row /\ \A j \in Invoices \ {i} : invoices'[j] = invoices[j]
  BY MoneyTypes
<1> QED BY <1>1 DEF Restated, SameStanding, Dead

LEMMA DraftBook ==
  ASSUME MoneyInv, MoneyInv', BookInv, NEW i \in Invoices, NEW total,
         CreateDraft(i, total) \/ FallDue(i)
  PROVE  BookInv'
<1>1. /\ UNCHANGED <<payments, notes, ledger, intents, rewritten, invalidating>>
  BY DEF CreateDraft, FallDue, besides
<1>2. CASE CreateDraft(i, total)
  <2> DEFINE row == [AbsentInvoice EXCEPT !.status = "DRAFT", !.total = total, !.due = total]
  <2>1. invoices' = [invoices EXCEPT ![i] = row] /\ invoices[i].status = "absent"
    BY <1>2 DEF CreateDraft
  <2>2. row.status = "DRAFT" /\ row.writtenOff = 0
    BY DEF AbsentInvoice
  <2> HIDE DEF row
  <2>3. InBook(ledger', row, i, rewritten', invalidating'[i]) /\ Stands(invoices[i], row, i \in rewritten', invalidating[i], invalidating'[i])
    BY <2>1, <2>2 DEF InBook, Stands, Dead, Missing, Finalized, Collectible
  <2>4. \A j \in Invoices : Restated(j)
    BY <1>1, <2>1, <2>3, OneRestated
  <2> QED BY <1>1, <2>4, NoPaymentBack, NoNoteBack, BookKept
<1>3. CASE FallDue(i)
  <2> DEFINE row == [invoices[i] EXCEPT !.late = TRUE]
  <2>1. invoices' = [invoices EXCEPT ![i] = row]
    BY <1>3 DEF FallDue
  <2>2. SameStanding(invoices[i], row, i \in rewritten, invalidating[i])
    BY InvoiceFields DEF SameStanding, Dead, AddsUp, Invoice
  <2> HIDE DEF row
  <2>3. \A j \in Invoices : Restated(j)
    BY <1>1, <2>1, <2>2, OneRestated
  <2> QED BY <1>1, <2>3, NoPaymentBack, NoNoteBack, BookKept
<1> QED BY <1>2, <1>3

LEMMA EditBook ==
  ASSUME MoneyInv, MoneyInv', BookInv, EditStep
  PROVE  BookInv'
<1>0. \A e \in edits : e.invoice \in Invoices
  BY DEF MoneyInv, SettlementInv, EditInv, Edit
<1>1. /\ UNCHANGED <<payments, notes, ledger, intents, invalidating>>
      /\ rewritten \subseteq rewritten'
  BY DEF EditStep, BeginEdit, WriteLines, WriteDates, DeleteDraft, AbandonEdit
<1>2. ASSUME \A i \in Invoices : Restated(i) PROVE BookInv'
  BY <1>1, <1>2, NoPaymentBack, NoNoteBack, BookKept
<1>3. ASSUME NEW e \in edits, NEW total, WriteLines(e, total) PROVE BookInv'
  <2> DEFINE i == e.invoice
             row == [invoices[i] EXCEPT !.total = total, !.due = total]
  <2>1. /\ invoices' = [invoices EXCEPT ![i] = row] /\ i \in Invoices
        /\ rewritten' = IF invoices[i].status = "DRAFT" THEN rewritten
                        ELSE rewritten \cup {i}
    BY <1>0, <1>3, MoneyTypes DEF WriteLines
  <2>2. row.status = invoices[i].status /\ row.writtenOff = invoices[i].writtenOff
    BY <2>1, InvoiceFields DEF Invoice
  <2>3. InBook(ledger, invoices[i], i, rewritten, invalidating[i])
    BY <2>1 DEF BookInv
  <2> HIDE DEF row, i
  <2>4. InBook(ledger', row, i, rewritten', invalidating'[i]) /\ Stands(invoices[i], row, i \in rewritten', invalidating[i], invalidating'[i])
    <3>1. invoices[i].status \notin Missing
      BY <1>3 DEF WriteLines, i
    <3>2. invoices[i].status = "DRAFT" \/ i \in rewritten'
      BY <2>1
    <3> QED BY <1>1, <2>1, <2>2, <2>3, <3>1, <3>2 DEF InBook, Stands, Dead, Finalized, Collectible
  <2> QED BY <1>1, <1>2, <2>1, <2>4, OneRestated
<1>4. ASSUME NEW e \in edits, NEW late, WriteDates(e, late) PROVE BookInv'
  <2> DEFINE i == e.invoice
             row == [invoices[i] EXCEPT !.late = late]
  <2>1. invoices' = [invoices EXCEPT ![i] = row] /\ i \in Invoices
    BY <1>0, <1>4, MoneyTypes DEF WriteDates
  <2>2. SameStanding(invoices[i], row, i \in rewritten, invalidating[i])
    BY <2>1, InvoiceFields DEF SameStanding, Dead, AddsUp, Invoice
  <2> HIDE DEF row, i
  <2> QED BY <1>1, <1>2, <2>1, <2>2, OneRestated
<1>5. ASSUME NEW e \in edits, DeleteDraft(e) PROVE BookInv'
  <2> DEFINE i == e.invoice
             row == [AbsentInvoice EXCEPT !.status = "deleted"]
  <2>1. /\ invoices' = [invoices EXCEPT ![i] = row] /\ i \in Invoices
        /\ \A x \in ledger : x.key.id # i
    BY <1>0, <1>5 DEF DeleteDraft
  <2>2. row.status = "deleted" /\ row.writtenOff = 0 /\ row.total = 0
    BY DEF AbsentInvoice
  <2> HIDE DEF row, i
  <2>3. InBook(ledger', row, i, rewritten', invalidating'[i])
    BY <2>2 DEF InBook, Finalized, Collectible
  <2> QED BY <1>1, <1>2, <2>1, <2>3, OneRestated
<1>6. ASSUME UNCHANGED invoices PROVE BookInv'
  BY <1>1, <1>2, <1>6, NothingRestated
<1> QED BY <1>3, <1>4, <1>5, <1>6 DEF EditStep, BeginEdit, AbandonEdit

(* An invoice is voided or written off: nothing stays due on it.           *)
Closes(i, row, kind) ==
  /\ invoices[i].status \in Collectible
  /\ invoices' = [invoices EXCEPT ![i] = row] /\ row.status \in Finalized
  /\ kind = "voided" /\ i \notin rewritten => Dead(row, invalidating[i])
  /\ kind # "advance-invalidated"
  /\ ledger' = Credit(ledger, Key(kind, i, 0), InvoiceCustomer[i], invoices[i].due)
  /\ row.total = invoices[i].total
  /\ \/ row.writtenOff = invoices[i].writtenOff
     \/ kind = "write-off" /\ invoices[i].due # 0
  /\ UNCHANGED <<payments, notes>>

LEMMA InvoiceBook ==
  ASSUME MoneyInv, MoneyInv', BookInv, InvoiceStep
  PROVE  BookInv'
<1>0. UNCHANGED <<intents, rewritten, invalidating>>
  BY DEF InvoiceStep, FinalizeInvoice, FinalizeWithCredits, SendInvoice, VoidInvoice,
         WriteOffInvoice, MarkOverdue, besides
<1>1. ASSUME UNCHANGED <<payments, notes>> PROVE PaymentsOnward /\ NotesOnward
  BY <1>1, NoPaymentBack, NoNoteBack
<1>2. ASSUME NEW i \in Invoices, NEW row, invoices[i].status = "DRAFT",
             invoices' = [invoices EXCEPT ![i] = row],
             row.total = invoices[i].total, row.writtenOff = invoices[i].writtenOff,
             row.status \in Finalized, ledger' = FinalizedBook(i),
             PaymentsOnward, NotesOnward
      PROVE  BookInv'
  <2>1. /\ ledger' = Recorded(ledger, Key("finalized", i, 0), InvoiceCustomer[i], row.total)
        /\ invoices[i].total \in Nat /\ row.total \in Int /\ IsFiniteSet(ledger)
    BY <1>2, InvoiceFields DEF FinalizedBook, Debit, Invoice, BookInv
  <2>2. /\ ledger \subseteq ledger'
        /\ row.total # 0 => HasKey(ledger', Key("finalized", i, 0))
    BY <2>1, RecordedKeys
  <2>3. InBook(ledger, invoices[i], i, rewritten, invalidating[i])
    BY DEF BookInv
  <2>4. InBook(ledger', row, i, rewritten', invalidating'[i]) /\ Stands(invoices[i], row, i \in rewritten', invalidating[i], invalidating'[i])
    BY <1>0, <1>2, <2>1, <2>2, <2>3
       DEF InBook, HasKey, Stands, Dead, Missing, Finalized, Collectible
  <2>5. \A j \in Invoices : Restated(j)
    BY <1>0, <1>2, <2>4, OneRestated
  <2>6. invoices'[i] = row
    BY <1>2, MoneyTypes
  <2>7. Explained(Key("finalized", i, 0), invoices', payments', notes', rewritten', invalidating')
    BY <1>2, <2>6, InvoiceExplained
  <2> QED BY <1>0, <1>2, <2>1, <2>5, <2>7, BookEntered
<1>3. ASSUME NEW i \in Invoices, FinalizeInvoice(i) PROVE BookInv'
  <2> DEFINE row == MarkedFinalized(invoices[i])
  <2>1. /\ invoices' = [invoices EXCEPT ![i] = row] /\ invoices[i].status = "DRAFT"
        /\ ledger' = FinalizedBook(i) /\ UNCHANGED <<payments, notes>>
    BY <1>3 DEF FinalizeInvoice
  <2>2. /\ row.total = invoices[i].total /\ row.writtenOff = invoices[i].writtenOff
        /\ row.status \in {"PAID", "OPEN"}
    BY InvoiceFields DEF MarkedFinalized, Invoice
  <2> HIDE DEF row
  <2> QED BY <1>1, <1>2, <2>1, <2>2 DEF Finalized, Collectible
<1>4. ASSUME NEW i \in Invoices, FinalizeWithCredits(i) PROVE BookInv'
  <2>1. invoices[i].status = "DRAFT" /\ ledger' = FinalizedBook(i)
    BY <1>4 DEF FinalizeWithCredits
  <2>2. PICK C, D : Draws(i, C, D)
    BY <1>4, CreditsAreDrawn
  <2>3. /\ invoices'[i].total = invoices[i].total
        /\ invoices'[i].writtenOff = invoices[i].writtenOff
        /\ invoices'[i].status \in Collectible \cup {"PAID"}
        /\ \A j \in Invoices \ {i} : invoices'[j] = invoices[j]
    BY <2>1, <2>2, DrawnInvoice
  <2>4. invoices' = [invoices EXCEPT ![i] = invoices'[i]]
    BY <2>2, MoneyTypes DEF Draws
  <2>5. PaymentsOnward
    <3> SUFFICES ASSUME NEW p \in Payments, payments[p].status # "absent"
                 PROVE  /\ payments'[p].status = payments[p].status
                        /\ payments'[p].revision = payments[p].revision
                        /\ payments'[p].refunded = payments[p].refunded
                        /\ payments[p].revision \in Nat /\ payments[p].refunded \in Nat
      BY DEF PaymentsOnward
    <3>1. payments[p] \in Payment
      BY MoneyTypes
    <3>2. \/ payments'[p] = payments[p]
          \/ payments'[p] = [payments[p] EXCEPT !.unapplied = payments[p].unapplied - C[p]]
      BY <2>2 DEF Draws
    <3> QED BY <3>1, <3>2 DEF Payment
  <2>6. NotesOnward
    <3> SUFFICES ASSUME NEW n \in CreditNotes, notes[n].status # "absent"
                 PROVE  /\ notes'[n].status # "absent" /\ notes'[n].refunded = notes[n].refunded
                        /\ notes[n].refunded \in Nat
                        /\ notes[n].status = "VOID" => notes'[n].status = "VOID"
      BY DEF NotesOnward
    <3>1. notes[n] \in CreditNote
      BY MoneyTypes
    <3>2. \/ notes'[n] = notes[n]
          \/ notes'[n] = Drawn(notes[n], D[n]) /\ notes[n].status = "OPEN"
      BY <2>2 DEF Draws, Credits
    <3> QED BY <3>1, <3>2 DEF CreditNote, Drawn
  <2> QED BY <1>2, <2>1, <2>3, <2>4, <2>5, <2>6 DEF Finalized
<1>5. ASSUME NEW i \in Invoices, SendInvoice(i) PROVE BookInv'
  <2> DEFINE old == invoices[i]
             row == [old EXCEPT !.sent = TRUE,
                                !.status = IF old.status = "OPEN" THEN "SENT" ELSE old.status]
  <2>1. /\ invoices' = [invoices EXCEPT ![i] = row] /\ UNCHANGED <<payments, notes, ledger>>
        /\ old.status \in Collectible \cup {"PAID"}
    BY <1>5, MoneyTypes DEF SendInvoice
  <2>2. /\ row.total = old.total /\ row.writtenOff = old.writtenOff
        /\ row.due = old.due /\ row.paid = old.paid /\ row.credited = old.credited
        /\ row.status \in Collectible \cup {"PAID"}
    BY <2>1, InvoiceFields DEF Invoice, Collectible
  <2> HIDE DEF row, old
  <2>3. SameStanding(old, row, i \in rewritten, invalidating[i])
    BY <2>1, <2>2 DEF SameStanding, Dead, AddsUp, Missing, Finalized, Collectible
  <2>4. \A j \in Invoices : Restated(j)
    BY <1>0, <2>1, <2>3, OneRestated DEF old
  <2> QED BY <1>0, <1>1, <2>1, <2>4, BookKept
<1>6. ASSUME NEW i \in Invoices, NEW row, NEW kind, Closes(i, row, kind)
      PROVE  BookInv'
  <2>1. /\ invoices[i].due \in Nat /\ 0 - invoices[i].due \in Int /\ IsFiniteSet(ledger)
        /\ ledger' = Recorded(ledger, Key(kind, i, 0), InvoiceCustomer[i], 0 - invoices[i].due)
        /\ invoices[i].due # 0 => 0 - invoices[i].due # 0
    BY <1>6, InvoiceFields DEF Closes, Invoice, Credit, BookInv
  <2>2. /\ ledger \subseteq ledger'
        /\ invoices[i].due # 0 => HasKey(ledger', Key(kind, i, 0))
    BY <2>1, RecordedKeys
  <2>3. InBook(ledger, invoices[i], i, rewritten, invalidating[i])
    BY DEF BookInv
  <2>4. InBook(ledger', row, i, rewritten', invalidating'[i]) /\ Stands(invoices[i], row, i \in rewritten', invalidating[i], invalidating'[i])
    <3>1. invoices[i].status \in Finalized /\ invoices[i].status # "VOID"
      BY <1>6 DEF Closes, Finalized, Collectible
    <3>2. i \notin rewritten => AddsUp(invoices[i], invalidating[i])
      BY <3>1, InvoiceFields DEF SoundRow, Unvoided
    <3>3. row.status \in Finalized /\ row.status \notin Missing /\ row.total = invoices[i].total
      BY <1>6 DEF Closes, Missing, Finalized, Collectible
    <3>4. row.writtenOff > 0 => HasKey(ledger', Key("write-off", i, 0))
      BY <1>6, <2>2, <2>3 DEF Closes, InBook, HasKey
    <3>5. InBook(ledger', row, i, rewritten', invalidating'[i])
      BY <1>0, <2>2, <2>3, <3>1, <3>2, <3>3, <3>4 DEF InBook, HasKey
    <3> QED BY <3>1, <3>3, <3>5 DEF Stands, Dead
  <2>5. \A j \in Invoices : Restated(j)
    BY <1>0, <1>6, <2>4, OneRestated DEF Closes
  <2>6. invoices'[i] = row
    BY <1>6, MoneyTypes DEF Closes
  <2>7. Explained(Key(kind, i, 0), invoices', payments', notes', rewritten', invalidating')
    BY <1>0, <1>6, <2>6, InvoiceExplained DEF Closes
  <2> QED BY <1>0, <1>1, <1>6, <2>1, <2>5, <2>7, BookEntered DEF Closes
<1>7. ASSUME NEW i \in Invoices, VoidInvoice(i) PROVE BookInv'
  <2> DEFINE row == [invoices[i] EXCEPT !.status = "VOID", !.due = 0]
  <2>1. /\ invoices' = [invoices EXCEPT ![i] = row] /\ invoices[i].status \in Collectible
        /\ ledger' = Credit(ledger, Key("voided", i, 0), InvoiceCustomer[i], invoices[i].due)
        /\ UNCHANGED <<payments, notes>>
    BY <1>7, MoneyTypes DEF VoidInvoice
  <2>2. /\ row.total = invoices[i].total /\ row.writtenOff = invoices[i].writtenOff
        /\ row.status = "VOID" /\ row.due = 0 /\ row.paid = invoices[i].paid
        /\ row.credited = invoices[i].credited
    BY InvoiceFields DEF Invoice
  <2> HIDE DEF row
  <2>3. i \notin rewritten => Dead(row, invalidating[i])
    <3> SUFFICES ASSUME i \notin rewritten PROVE Dead(row, invalidating[i])
      OBVIOUS
    <3>1. /\ AddsUp(invoices[i], invalidating[i]) /\ invoices[i].due > 0
          /\ Struck(invalidating[i]) \in Nat
      BY <2>1, InvoiceFields DEF SoundRow, Unvoided, Finalized, Collectible
    <3>2. /\ invoices[i].due \in Nat /\ invoices[i].paid \in Nat /\ invoices[i].credited \in Nat
          /\ invoices[i].writtenOff \in Nat /\ invoices[i].total \in Nat
      BY InvoiceFields DEF Invoice
    <3> QED BY <2>2, <3>1, <3>2 DEF Dead, AddsUp
  <2>4. Closes(i, row, "voided")
    BY <2>1, <2>2, <2>3 DEF Finalized, Closes
  <2> QED BY <1>6, <2>4
<1>8. ASSUME NEW i \in Invoices, WriteOffInvoice(i) PROVE BookInv'
  <2> DEFINE old == invoices[i]
             row == [old EXCEPT !.status = "UNCOLLECTIBLE", !.due = 0, !.paidAt = FALSE,
                                !.writtenOff = old.writtenOff + old.due]
  <2>1. /\ invoices' = [invoices EXCEPT ![i] = row] /\ invoices[i].status \in Collectible
        /\ ledger' = Credit(ledger, Key("write-off", i, 0), InvoiceCustomer[i], invoices[i].due)
        /\ UNCHANGED <<payments, notes>> /\ invoices[i].due # 0
    BY <1>8, InvoiceFields DEF WriteOffInvoice, Invoice
  <2>2. row.total = invoices[i].total /\ row.status = "UNCOLLECTIBLE"
    BY InvoiceFields DEF Invoice
  <2> HIDE DEF row
  <2>3. Closes(i, row, "write-off")
    BY <2>1, <2>2 DEF Finalized, Closes
  <2> QED BY <1>6, <2>3
<1>9. CASE MarkOverdue
  <2>1. UNCHANGED <<payments, notes, ledger>>
    BY <1>9 DEF MarkOverdue
  <2>2. ASSUME NEW i \in Invoices PROVE Restated(i)
    <3>1. \/ invoices'[i] = invoices[i]
          \/ /\ invoices'[i] = [invoices[i] EXCEPT !.status = "OVERDUE"]
             /\ invoices[i].status \in Collectible
      BY <1>9 DEF MarkOverdue, OverdueCandidate
    <3>2. SameStanding(invoices[i], invoices'[i], i \in rewritten, invalidating[i])
      BY <3>1, InvoiceFields
         DEF SameStanding, Dead, AddsUp, Missing, Finalized, Collectible, Invoice
    <3> QED BY <1>0, <3>2 DEF Restated
  <2> QED BY <1>0, <1>1, <2>1, <2>2, BookKept
<1> QED BY <1>3, <1>4, <1>5, <1>7, <1>8, <1>9 DEF InvoiceStep

LEMMA AllocatedRestated ==
  ASSUME MoneyInv, NEW s \in Sources, NEW d, NEW alloc \in Allocations,
         LoadTargets(invoices, d, alloc), invoices' = InvoicesAfter(invoices, s, alloc),
         UNCHANGED invalidating
  PROVE  \A i \in Invoices : Restated(i)
<1>1. Sound(invoices, rewritten, invalidating)
  BY DEF MoneyInv, SettlementInv, InvoiceInv
<1>2. \A i \in Invoices :
        SameStanding(invoices[i], InvoicesAfter(invoices, s, alloc)[i],
                     i \in rewritten, invalidating[i])
  BY <1>1, AfterStanding
<1> QED BY <1>2 DEF Restated

LEMMA TakenBackRestated ==
  ASSUME MoneyInv, NEW s \in Sources, NEW last \in Restorations(applied[s]),
         Storable(invoices, applied[s], s),
         invoices' = InvoicesRestored(invoices, s, applied[s], last), UNCHANGED invalidating
  PROVE  \A i \in Invoices : Restated(i)
<1>1. /\ Sound(invoices, rewritten, invalidating) /\ applied[s] \in Rows
      /\ Remembers(applied[s], invoices, rewritten, invalidating)
  BY MoneyTypes DEF MoneyInv, SettlementInv, InvoiceInv
<1>2. \A i \in Invoices :
        SameStanding(invoices[i], InvoicesRestored(invoices, s, applied[s], last)[i],
                     i \in rewritten, invalidating[i])
  BY <1>1, RestoredStanding
<1> QED BY <1>2 DEF Restated

LEMMA CorrectedRestated ==
  ASSUME MoneyInv, NEW p \in Payments, NEW c, NEW amount, NEW alloc \in Allocations,
         UpdatePayment(p, c, amount, alloc)
  PROVE  \A i \in Invoices : Restated(i)
<1>1. Storable(invoices, applied[p], p) /\ p \in Sources /\ UNCHANGED invalidating
  BY MoneyTypes DEF UpdatePayment, besides
<1>2. PICK last \in Restorations(applied[p]) :
        LET back == InvoicesRestored(invoices, p, applied[p], last)
        IN  LoadTargets(back, c, alloc) /\ invoices' = InvoicesAfter(back, p, alloc)
  BY DEF UpdatePayment
<1> DEFINE back == InvoicesRestored(invoices, p, applied[p], last)
<1>3. /\ Sound(invoices, rewritten, invalidating) /\ applied[p] \in Rows
      /\ Remembers(applied[p], invoices, rewritten, invalidating)
  BY <1>1, MoneyTypes DEF MoneyInv, SettlementInv, InvoiceInv
<1>4. Sound(back, rewritten, invalidating)
  BY <1>1, <1>3, ReversalSound
<1>5. \A i \in Invoices :
        SameStanding(invoices[i], back[i], i \in rewritten, invalidating[i])
  BY <1>1, <1>3, RestoredStanding
<1>6. LoadTargets(back, c, alloc) /\ invoices' = InvoicesAfter(back, p, alloc)
  BY <1>2
<1> HIDE DEF back
<1>7. \A i \in Invoices :
        SameStanding(back[i], invoices'[i], i \in rewritten, invalidating[i])
  BY <1>1, <1>4, <1>6, AfterStanding
<1> QED BY <1>1, <1>5, <1>7, StandingTransitive DEF Restated

LEMMA PaymentBook ==
  ASSUME MoneyInv, MoneyInv', BookInv, PaymentStep
  PROVE  BookInv'
<1>1. ASSUME NEW p \in Payments
      PROVE  /\ p \in Sources /\ payments[p] \in Payment /\ payments[p].revision \in Nat
             /\ payments[p].refunded \in Nat /\ payments[p].amount \in Nat
             /\ \A pay : payments' = [payments EXCEPT ![p] = pay] => payments'[p] = pay
  BY MoneyTypes DEF Payment
<1>2. ASSUME NEW p \in Payments, NEW c, NEW amount \in Amounts, NEW alloc \in Allocations,
             CreatePayment(p, c, amount, alloc)
      PROVE  BookInv'
  <2> DEFINE pay == [status |-> "SUCCEEDED", customer |-> c, amount |-> amount,
                     unapplied |-> amount - SumFunction(alloc), refunded |-> 0, revision |-> 0]
  <2>1. /\ payments[p].status = "absent" /\ payments' = [payments EXCEPT ![p] = pay]
        /\ ledger' = Credit(ledger, Key("received", p, 0), c, amount)
        /\ LoadTargets(invoices, c, alloc) /\ invoices' = InvoicesAfter(invoices, p, alloc)
        /\ UNCHANGED <<notes, intents, rewritten, invalidating>>
    BY <1>2 DEF CreatePayment, besides
  <2>2. pay.status = "SUCCEEDED" /\ pay.revision = 0
    OBVIOUS
  <2> HIDE DEF pay
  <2>3. PaymentsOnward /\ NotesOnward
    BY <2>1, PaymentOnward, NoNoteBack
  <2>4. Explained(Key("received", p, 0), invoices', payments', notes', rewritten', invalidating')
    <3>1. payments'[p] = pay
      BY <1>1, <2>1
    <3> QED BY <2>2, <3>1, PaymentExplained
  <2>5. 0 - amount \in Int /\ ledger' = Recorded(ledger, Key("received", p, 0), c, 0 - amount)
    BY <2>1, AmountNat DEF Credit
  <2>6. \A i \in Invoices : Restated(i)
    BY <1>1, <2>1, AllocatedRestated
  <2> QED BY <2>1, <2>3, <2>4, <2>5, <2>6, BookEntered
<1>3. ASSUME NEW p \in Payments, NEW c, NEW amount, ConfirmIntent(p, c, amount)
      PROVE  BookInv'
  <2> DEFINE pay == [status |-> "SUCCEEDED", customer |-> c, amount |-> amount,
                     unapplied |-> amount, refunded |-> 0, revision |-> 0]
             x == [payment |-> p, customer |-> c, amount |-> amount]
  <2>1. /\ payments[p].status = "absent" /\ payments' = [payments EXCEPT ![p] = pay]
        /\ intents' = intents \cup {x} /\ UNCHANGED <<invoices, notes, ledger, rewritten, invalidating>>
    BY <1>3 DEF ConfirmIntent
  <2>2. pay.status = "SUCCEEDED" /\ x.payment = p
    OBVIOUS
  <2> HIDE DEF pay, x
  <2>3. PaymentsOnward /\ NotesOnward
    BY <2>1, PaymentOnward, NoNoteBack
  <2>4. IsFiniteSet(intents') /\ IsFiniteSet(ledger')
    BY <2>1, FS_AddElement DEF BookInv
  <2>5. payments'[p].status # "absent"
    BY <1>1, <2>1, <2>2
  <2> QED BY <2>1, <2>2, <2>3, <2>4, <2>5, NothingRestated, BookStep
<1>4. ASSUME NEW p \in Payments, NEW alloc \in Allocations, ApplyPayment(p, alloc)
      PROVE  BookInv'
  <2> DEFINE old == payments[p]
             pay == [old EXCEPT !.unapplied = old.unapplied - SumFunction(alloc)]
  <2>1. /\ payments' = [payments EXCEPT ![p] = pay]
        /\ LoadTargets(invoices, old.customer, alloc)
        /\ invoices' = InvoicesAfter(invoices, p, alloc)
        /\ UNCHANGED <<notes, ledger, intents, rewritten, invalidating>>
    BY <1>4, MoneyTypes DEF ApplyPayment, besides
  <2>2. pay.status = old.status /\ pay.revision = old.revision /\ pay.refunded = old.refunded
    BY <1>1 DEF Payment
  <2>3. old.revision >= old.revision /\ old.refunded >= old.refunded
    BY <1>1
  <2> HIDE DEF pay
  <2>4. PaymentsOnward /\ NotesOnward
    BY <2>1, <2>2, <2>3, PaymentOnward, NoNoteBack
  <2>5. \A i \in Invoices : Restated(i)
    BY <1>1, <2>1, AllocatedRestated
  <2> QED BY <2>1, <2>4, <2>5, BookKept
<1>5. ASSUME NEW p \in Payments, CancelPayment(p) PROVE BookInv'
  <2> DEFINE old == payments[p]
             pay == [old EXCEPT !.status = "CANCELED", !.unapplied = 0,
                                !.revision = old.revision + 1]
             key == Key("reversed", p, old.revision)
  <2>1. /\ payments' = [payments EXCEPT ![p] = pay]
        /\ Storable(invoices, applied[p], p)
        /\ \E last \in Restorations(applied[p]) :
             invoices' = InvoicesRestored(invoices, p, applied[p], last)
        /\ ledger' = Recorded(ledger, key, old.customer, old.amount)
        /\ UNCHANGED <<notes, intents, rewritten, invalidating>>
    BY <1>5, MoneyTypes DEF CancelPayment, besides, Debit
  <2>2. /\ pay.status = "CANCELED" /\ pay.revision = old.revision + 1
        /\ pay.refunded = old.refunded /\ old.amount \in Int
        /\ old.revision + 1 >= old.revision /\ old.refunded >= old.refunded
        /\ old.revision < old.revision + 1
    BY <1>1 DEF Payment
  <2> HIDE DEF pay
  <2>3. PaymentsOnward /\ NotesOnward
    BY <2>1, <2>2, PaymentOnward, NoNoteBack
  <2>4. Explained(key, invoices', payments', notes', rewritten', invalidating')
    <3>1. payments'[p] = pay
      BY <1>1, <2>1
    <3> QED BY <2>2, <3>1, PaymentExplained
  <2>5. \A i \in Invoices : Restated(i)
    BY <1>1, <2>1, TakenBackRestated
  <2> QED BY <2>1, <2>2, <2>3, <2>4, <2>5, BookEntered
<1>6. ASSUME NEW p \in Payments, NEW c, NEW amount \in Amounts, NEW alloc \in Allocations,
             UpdatePayment(p, c, amount, alloc)
      PROVE  BookInv'
  <2> DEFINE old == payments[p]
             pay == [old EXCEPT !.customer = c, !.amount = amount,
                                !.unapplied = amount - SumFunction(alloc),
                                !.revision = old.revision + 1]
             back == Key("reversed", p, old.revision)
             again == Key("received", p, old.revision + 1)
             mid == Recorded(ledger, back, old.customer, old.amount)
  <2>1. /\ payments' = [payments EXCEPT ![p] = pay]
        /\ ledger' = Recorded(mid, again, c, 0 - amount)
        /\ UNCHANGED <<notes, intents, rewritten, invalidating>> /\ old.status = "SUCCEEDED"
    BY <1>6 DEF UpdatePayment, besides, Debit, Credit, Correctable
  <2>2. /\ pay.status = old.status /\ pay.revision = old.revision + 1
        /\ pay.refunded = old.refunded /\ old.amount \in Int /\ 0 - amount \in Int
        /\ old.revision + 1 >= old.revision /\ old.refunded >= old.refunded
        /\ old.revision < old.revision + 1 /\ old.revision + 1 <= old.revision + 1
    BY <1>1, AmountNat DEF Payment
  <2> HIDE DEF pay
  <2>3. PaymentsOnward /\ NotesOnward
    BY <2>1, <2>2, PaymentOnward, NoNoteBack
  <2>4. payments'[p] = pay
    BY <1>1, <2>1
  <2>5. Explained(back, invoices', payments', notes', rewritten', invalidating')
    BY <2>1, <2>2, <2>4, PaymentExplained
  <2>6. Explained(again, invoices', payments', notes', rewritten', invalidating')
    BY <2>1, <2>2, <2>4, PaymentExplained
  <2>7. IsFiniteSet(ledger) /\ IsFiniteSet(intents)
    BY DEF BookInv
  <2>8. /\ ledger \subseteq mid /\ IsFiniteSet(mid) /\ \A e \in mid : e \in ledger \/ e.key = back
    BY <2>2, <2>7, RecordedKeys
  <2> HIDE DEF mid
  <2>9. /\ mid \subseteq ledger' /\ IsFiniteSet(ledger')
        /\ \A e \in ledger' : e \in mid \/ e.key = again
    BY <2>1, <2>2, <2>8, RecordedKeys
  <2>10. /\ ledger \subseteq ledger'
         /\ \A e \in ledger' :
                e \in ledger \/ Explained(e.key, invoices', payments', notes', rewritten', invalidating')
    BY <2>5, <2>6, <2>8, <2>9
  <2>11. \A i \in Invoices : Restated(i)
    BY <1>6, CorrectedRestated
  <2> QED BY <2>1, <2>3, <2>7, <2>9, <2>10, <2>11, BookStep
<1>7. ASSUME NEW p \in Payments, NEW amount \in Amounts, RefundPayment(p, amount)
      PROVE  BookInv'
  <2> DEFINE old == payments[p]
             refunded == old.refunded + amount
             pay == [old EXCEPT !.unapplied = old.unapplied - amount, !.refunded = refunded,
                                !.status = IF refunded = old.amount
                                           THEN "REFUNDED" ELSE "PARTIALLY_REFUNDED"]
             key == Key("refund", p, refunded)
  <2>1. /\ payments' = [payments EXCEPT ![p] = pay]
        /\ ledger' = Recorded(ledger, key, old.customer, amount)
        /\ UNCHANGED <<invoices, notes, intents, rewritten, invalidating>>
    BY <1>7 DEF RefundPayment, besides, Debit
  <2>2. /\ pay.status # "absent" /\ pay.revision = old.revision /\ pay.refunded = refunded
        /\ amount \in Int /\ old.revision >= old.revision /\ refunded >= old.refunded
        /\ refunded <= refunded
    BY <1>1, AmountNat DEF Payment
  <2> HIDE DEF pay, refunded
  <2>3. PaymentsOnward /\ NotesOnward
    BY <2>1, <2>2, PaymentOnward, NoNoteBack
  <2>4. Explained(key, invoices', payments', notes', rewritten', invalidating')
    <3>1. payments'[p] = pay
      BY <1>1, <2>1
    <3> QED BY <2>2, <3>1, PaymentExplained
  <2> QED BY <2>1, <2>2, <2>3, <2>4, NothingRestated, BookEntered
<1> QED BY <1>2, <1>3, <1>4, <1>5, <1>6, <1>7 DEF PaymentStep

LEMMA CreditNoteBook ==
  ASSUME MoneyInv, MoneyInv', BookInv, CreditNoteStep
  PROVE  BookInv'
<1>1. ASSUME NEW n \in CreditNotes
      PROVE  /\ n \in Sources /\ notes[n] \in CreditNote /\ notes[n].refunded \in Nat
             /\ notes[n].total \in Nat /\ notes[n].refunded >= notes[n].refunded
             /\ \A note : notes' = [notes EXCEPT ![n] = note] => notes'[n] = note
  BY MoneyTypes DEF CreditNote
<1>2. UNCHANGED <<payments, intents, rewritten, invalidating>> /\ PaymentsOnward
  <2>1. UNCHANGED <<payments, intents, rewritten, invalidating>>
    BY DEF CreditNoteStep, BeginIssue, CommitIssue, AbortIssue, ApplyCreditNote, VoidCreditNote,
           RefundCreditNote, besides
  <2> QED BY <2>1, NoPaymentBack
<1>3. ASSUME NEW n \in CreditNotes, NEW total, BeginIssue(n, total) \/ AbortIssue(n)
      PROVE  BookInv'
  <2>1. UNCHANGED <<invoices, notes, ledger>>
    BY <1>3 DEF BeginIssue, AbortIssue
  <2> QED BY <1>2, <2>1, NoNoteBack, NothingRestated, BookKept
<1>4. ASSUME NEW n \in CreditNotes, CommitIssue(n) PROVE BookInv'
  <2> DEFINE total == issuing[n].total
             note == [status |-> "OPEN", total |-> total, balance |-> total, refunded |-> 0]
             key == Key("issued", n, 0)
  <2>1. /\ notes' = [notes EXCEPT ![n] = note] /\ notes[n].status = "absent"
        /\ ledger' = Recorded(ledger, key, NoteCustomer[n], 0 - total)
        /\ 0 - total \in Int /\ UNCHANGED invoices
    BY <1>4 DEF CommitIssue, Credit, MoneyInv, BooksTyped
  <2>2. note.status = "OPEN"
    OBVIOUS
  <2> HIDE DEF note, total
  <2>3. NotesOnward
    BY <2>1, NoteOnward
  <2>4. Explained(key, invoices', payments', notes', rewritten', invalidating')
    <3>1. notes'[n] = note
      BY <1>1, <2>1
    <3> QED BY <2>2, <3>1, NoteExplained
  <2> QED BY <1>2, <2>1, <2>3, <2>4, NothingRestated, BookEntered
<1>5. ASSUME NEW n \in CreditNotes, NEW alloc \in Allocations, ApplyCreditNote(n, alloc)
      PROVE  BookInv'
  <2> DEFINE note == Drawn(notes[n], SumFunction(alloc))
  <2>1. /\ notes' = [notes EXCEPT ![n] = note] /\ notes[n].status = "OPEN"
        /\ LoadTargets(invoices, NoteCustomer[n], alloc)
        /\ invoices' = InvoicesAfter(invoices, n, alloc) /\ UNCHANGED ledger
    BY <1>5 DEF ApplyCreditNote
  <2>2. note.status \in {"OPEN", "CLOSED"} /\ note.refunded = notes[n].refunded
    BY <1>1 DEF Drawn, CreditNote
  <2> HIDE DEF note
  <2>3. NotesOnward
    BY <1>1, <2>1, <2>2, NoteOnward
  <2>4. \A i \in Invoices : Restated(i)
    BY <1>1, <1>2, <2>1, AllocatedRestated
  <2> QED BY <1>2, <2>1, <2>3, <2>4, BookKept
<1>6. ASSUME NEW n \in CreditNotes, VoidCreditNote(n) PROVE BookInv'
  <2> DEFINE note == [notes[n] EXCEPT !.status = "VOID", !.balance = 0]
             key == Key("voided", n, 0)
  <2>1. /\ notes' = [notes EXCEPT ![n] = note] /\ notes[n].status \in {"OPEN", "CLOSED"}
        /\ Storable(invoices, applied[n], n)
        /\ \E last \in Restorations(applied[n]) :
             invoices' = InvoicesRestored(invoices, n, applied[n], last)
        /\ ledger' = Recorded(ledger, key, NoteCustomer[n], notes[n].total)
    BY <1>6, MoneyTypes DEF VoidCreditNote, Debit
  <2>2. note.status = "VOID" /\ note.refunded = notes[n].refunded /\ notes[n].total \in Int
    BY <1>1 DEF CreditNote
  <2> HIDE DEF note
  <2>3. NotesOnward
    BY <1>1, <2>1, <2>2, NoteOnward
  <2>4. Explained(key, invoices', payments', notes', rewritten', invalidating')
    <3>1. notes'[n] = note
      BY <1>1, <2>1
    <3> QED BY <2>2, <3>1, NoteExplained
  <2>5. \A i \in Invoices : Restated(i)
    BY <1>1, <1>2, <2>1, TakenBackRestated
  <2> QED BY <1>2, <2>1, <2>2, <2>3, <2>4, <2>5, BookEntered
<1>7. ASSUME NEW n \in CreditNotes, NEW amount \in Amounts, RefundCreditNote(n, amount)
      PROVE  BookInv'
  <2> DEFINE refunded == notes[n].refunded + amount
             note == [Drawn(notes[n], amount) EXCEPT !.refunded = refunded]
             key == Key("refund", n, refunded)
  <2>1. /\ notes' = [notes EXCEPT ![n] = note] /\ notes[n].status = "OPEN"
        /\ ledger' = Recorded(ledger, key, NoteCustomer[n], amount) /\ UNCHANGED invoices
    BY <1>7 DEF RefundCreditNote, Debit
  <2>2. /\ note.status \in {"OPEN", "CLOSED"} /\ note.refunded = refunded
        /\ amount \in Int /\ refunded >= notes[n].refunded /\ refunded <= refunded
    BY <1>1, AmountNat DEF Drawn, CreditNote
  <2> HIDE DEF note, refunded
  <2>3. NotesOnward
    BY <2>1, <2>2, NoteOnward
  <2>4. Explained(key, invoices', payments', notes', rewritten', invalidating')
    <3>1. notes'[n] = note
      BY <1>1, <2>1
    <3> QED BY <2>2, <3>1, NoteExplained
  <2> QED BY <1>2, <2>1, <2>2, <2>3, <2>4, NothingRestated, BookEntered
<1> QED BY <1>3, <1>4, <1>5, <1>6, <1>7 DEF CreditNoteStep

(* Until it is committed an invalidation leaves no trace; then it leaves   *)
(* the invoice void and what was due on it struck out.                     *)
LEMMA AdvanceOpen ==
  ASSUME MoneyInv, NEW i \in Invoices,
         ReadAdvance(i) \/ WriteAdvance(i) \/ AbortAdvance(i)
  PROVE  /\ UNCHANGED <<invoices, payments, notes, applied, ledger, intents, rewritten>>
         /\ invalidating'[i].phase # invalidating[i].phase
         /\ \A j \in Invoices : /\ Struck(invalidating'[j]) = Struck(invalidating[j])
                                /\ invalidating[j].phase = "done" => invalidating'[j].phase = "done"
<1>1. UNCHANGED <<invoices, payments, notes, applied, ledger, intents, rewritten>>
  BY DEF ReadAdvance, WriteAdvance, AbortAdvance
<1>2. invalidating \in [Invoices -> Invalidation]
  BY DEF MoneyInv, BooksTyped
<1>3. \A j \in Invoices \ {i} : invalidating'[j] = invalidating[j]
  BY <1>2 DEF ReadAdvance, WriteAdvance, AbortAdvance
<1>4. /\ invalidating[i].phase # "done" /\ invalidating'[i].phase # "done"
      /\ invalidating'[i].phase # invalidating[i].phase
  <2>1. invalidating[i] \in Invalidation
    BY <1>2
  <2>2. CASE ReadAdvance(i)
    <3>1. /\ invalidating[i].phase = "none"
          /\ invalidating'[i] = [invalidating[i] EXCEPT !.phase = "read", !.row = invoices[i]]
      BY <1>2, <2>2 DEF ReadAdvance
    <3>2. invalidating'[i].phase = "read"
      BY <2>1, <3>1 DEF Invalidation
    <3> QED BY <3>1, <3>2
  <2>3. CASE WriteAdvance(i)
    <3>1. PICK column : invalidating' = [invalidating EXCEPT
            ![i] = [invalidating[i] EXCEPT !.phase = "written", !.column = column]]
      BY <2>3 DEF WriteAdvance
    <3>2. invalidating'[i] = [invalidating[i] EXCEPT !.phase = "written", !.column = column]
      BY <1>2, <3>1
    <3>3. invalidating'[i].phase = "written"
      BY <2>1, <3>2 DEF Invalidation
    <3>4. invalidating[i].phase = "read"
      BY <2>3 DEF WriteAdvance
    <3> QED BY <3>3, <3>4
  <2>4. CASE AbortAdvance(i)
    <3>1. /\ invalidating[i].phase \in {"read", "written"}
          /\ invalidating'[i] = NotInvalidating
      BY <1>2, <2>4 DEF AbortAdvance
    <3> QED BY <3>1 DEF NotInvalidating
  <2> QED BY <2>2, <2>3, <2>4
<1>5. Struck(invalidating'[i]) = 0 /\ Struck(invalidating[i]) = 0
  BY <1>4 DEF Struck
<1> QED BY <1>1, <1>3, <1>4, <1>5

LEMMA AdvanceCommitted ==
  ASSUME MoneyInv, NEW i \in Invoices, CommitAdvance(i)
  PROVE  /\ UNCHANGED <<payments, notes, applied, intents, rewritten>>
         /\ invoices'[i].status = "VOID" /\ invoices'[i].due = 0
         /\ invoices'[i].total = invoices[i].total /\ invoices'[i].paid = invoices[i].paid
         /\ invoices'[i].credited = invoices[i].credited
         /\ invoices'[i].writtenOff = invoices[i].writtenOff
         /\ invalidating[i].phase = "written" /\ Struck(invalidating[i]) = 0
         /\ invalidating'[i].phase = "done"
         /\ Struck(invalidating'[i]) = If(invoices[i].status \in Collectible, invoices[i].due)
         /\ \A j \in Invoices \ {i} : /\ invoices'[j] = invoices[j]
                                     /\ invalidating'[j] = invalidating[j]
         /\ \E m \in Int : ledger' = Recorded(ledger, Key("advance-invalidated", i, 0),
                                             InvoiceCustomer[i], m)
<1>1. UNCHANGED <<payments, notes, applied, intents, rewritten>>
  BY DEF CommitAdvance
<1>2. /\ invoices \in [Invoices -> Invoice] /\ invoices[i] \in Invoice
      /\ invalidating \in [Invoices -> Invalidation]
  BY MoneyTypes DEF MoneyInv, BooksTyped
<1>3. /\ invoices'[i] = Invalidated(invoices[i])
      /\ \A j \in Invoices \ {i} : invoices'[j] = invoices[j]
  BY <1>2 DEF CommitAdvance
<1>4. /\ invalidating'[i] = [invalidating[i] EXCEPT !.phase = "done", !.row = invoices[i]]
      /\ \A j \in Invoices \ {i} : invalidating'[j] = invalidating[j]
  BY <1>2 DEF CommitAdvance
<1>5. invalidating'[i].phase = "done" /\ invalidating'[i].row = invoices[i]
  BY <1>2, <1>4 DEF Invalidation
<1>6. invalidating[i].phase = "written"
  BY DEF CommitAdvance
<1>7. /\ Struck(invalidating[i]) = 0
      /\ Struck(invalidating'[i]) = If(invoices[i].status \in Collectible, invoices[i].due)
  BY <1>5, <1>6 DEF Struck, If
<1>8. \E m \in Int : ledger' = Recorded(ledger, Key("advance-invalidated", i, 0),
                                      InvoiceCustomer[i], m)
  <2> DEFINE read == invalidating[i].row
  <2>1. read.due \in Nat
    BY <1>2 DEF Invalidation, Invoice
  <2>2. CASE read.status = "DRAFT"
    <3>1. ledger' = ledger
      BY <2>2 DEF CommitAdvance
    <3>2. ledger' = Recorded(ledger, Key("advance-invalidated", i, 0), InvoiceCustomer[i], 0)
      BY <3>1 DEF Recorded
    <3> QED BY <3>2
  <2>3. CASE read.status # "DRAFT"
    <3>1. 0 - read.due \in Int
      BY <2>1
    <3>2. ledger' = Recorded(ledger, Key("advance-invalidated", i, 0), InvoiceCustomer[i],
                             0 - read.due)
      BY <2>3 DEF CommitAdvance, Credit
    <3> QED BY <3>1, <3>2
  <2> QED BY <2>2, <2>3
<1>9. /\ invoices'[i].status = "VOID" /\ invoices'[i].due = 0
      /\ invoices'[i].total = invoices[i].total /\ invoices'[i].paid = invoices[i].paid
      /\ invoices'[i].credited = invoices[i].credited
      /\ invoices'[i].writtenOff = invoices[i].writtenOff
  BY <1>2, <1>3 DEF Invalidated, Invoice
<1> QED BY <1>1, <1>3, <1>4, <1>5, <1>6, <1>7, <1>8, <1>9

LEMMA AdvanceBook ==
  ASSUME MoneyInv, MoneyInv', BookInv, AdvanceStep
  PROVE  BookInv'
<1>1. ASSUME NEW i \in Invoices, ReadAdvance(i) \/ WriteAdvance(i) \/ AbortAdvance(i)
      PROVE  BookInv'
  <2>1. UNCHANGED <<invoices, payments, notes, ledger, intents, rewritten>>
    BY <1>1, AdvanceOpen
  <2>2. \A j \in Invoices : Restated(j)
    BY <1>1, <2>1, AdvanceOpen DEF Restated, SameStanding, Dead
  <2> QED BY <2>1, <2>2, NoPaymentBack, NoNoteBack, BookKept
<1>2. ASSUME NEW i \in Invoices, CommitAdvance(i) PROVE BookInv'
  <2> DEFINE old == invoices[i]
             new == invoices'[i]
             v   == invalidating[i]
             w   == invalidating'[i]
  <2>1. /\ UNCHANGED <<payments, notes, intents, rewritten>>
        /\ new.status = "VOID" /\ new.due = 0 /\ new.total = old.total
        /\ new.paid = old.paid /\ new.credited = old.credited
        /\ new.writtenOff = old.writtenOff /\ v.phase = "written" /\ Struck(v) = 0
        /\ w.phase = "done" /\ Struck(w) = If(old.status \in Collectible, old.due)
        /\ \A j \in Invoices \ {i} : /\ invoices'[j] = invoices[j]
                                    /\ invalidating'[j] = invalidating[j]
    BY <1>2, AdvanceCommitted
  <2>2. PICK m \in Int : ledger' = Recorded(ledger, Key("advance-invalidated", i, 0),
                                         InvoiceCustomer[i], m)
    BY <1>2, AdvanceCommitted
  <2>3. ledger \subseteq ledger'
    BY <2>2, RecordedKeys DEF BookInv
  <2>4. /\ SoundRow(old, i \in rewritten, v) /\ old \in Invoice
        /\ InBook(ledger, old, i, rewritten, v)
    BY InvoiceFields DEF BookInv
  <2>5. /\ old.due \in Nat /\ old.paid \in Nat /\ old.credited \in Nat
        /\ old.total \in Nat /\ old.writtenOff \in Nat
        /\ old.status \in Missing \cup {"DRAFT"} \cup Finalized
    BY <2>4 DEF Invoice
  <2>6. Restated(i)
    <3> HIDE DEF old, new, v, w
    <3>1. Stands(old, new, i \in rewritten, v, w)
      <4> SUFFICES ASSUME i \notin rewritten, Dead(old, v) PROVE Dead(new, w)
        BY <2>1 DEF Stands, Finalized
      <4>1. old.status = "VOID" /\ old.due = 0 /\ Struck(w) = 0
        BY <2>1, <2>4, <2>5 DEF Dead, SoundRow, Finalized, Collectible, If
      <4> QED BY <2>1, <2>5, <4>1 DEF Dead, AddsUp
    <3>2. ASSUME i \notin rewritten, new.total > 0, AddsUp(new, w)
          PROVE  HasKey(ledger', Key("finalized", i, 0))
      <4>1. HasKey(ledger, Key("finalized", i, 0))
        <5>1. CASE old.status \in Unvoided
          BY <2>1, <2>4, <3>2, <5>1 DEF SoundRow, InBook, Unvoided
        <5>2. CASE old.status = "VOID"
          <6>1. old.due = 0 /\ Struck(w) = 0
            BY <2>1, <2>4, <2>5, <3>2, <5>2 DEF SoundRow, Finalized, Collectible, If
          <6>2. AddsUp(old, v)
            BY <2>1, <2>5, <3>2, <6>1 DEF AddsUp
          <6> QED BY <2>1, <2>4, <3>2, <5>2, <6>2 DEF InBook, Finalized
        <5>3. CASE old.status = "DRAFT"
          <6>1. Struck(w) = 0
            BY <2>1, <5>3 DEF If, Collectible
          <6>2. old.paid = 0 /\ old.credited = 0 /\ old.writtenOff = 0
            BY <2>4, <3>2, <5>3 DEF SoundRow
          <6> QED BY <2>1, <2>5, <3>2, <6>1, <6>2 DEF AddsUp
        <5>4. CASE old.status \in Missing
          BY <2>1, <2>4, <3>2, <5>4 DEF InBook
        <5> QED BY <2>5, <5>1, <5>2, <5>3, <5>4 DEF Unvoided
      <4> QED BY <2>3, <4>1 DEF HasKey
    <3>3. InBook(ledger', new, i, rewritten', w)
      BY <2>1, <2>3, <2>4, <3>2 DEF InBook, HasKey, Missing
    <3>4. v.phase = "done" => w.phase = "done"
      BY <2>1
    <3> QED BY <2>1, <3>1, <3>3, <3>4 DEF Restated, old, new, v, w
  <2>7. ASSUME NEW j \in Invoices \ {i} PROVE Restated(j)
    BY <2>1 DEF Restated, SameStanding, Dead
  <2>8. Explained(Key("advance-invalidated", i, 0), invoices', payments', notes', rewritten',
                  invalidating')
    BY <2>1, InvoiceExplained DEF Finalized
  <2>9. \A j \in Invoices : Restated(j)
    BY <2>6, <2>7
  <2> QED BY <2>1, <2>2, <2>8, <2>9, NoPaymentBack, NoNoteBack, BookEntered
<1> QED BY <1>1, <1>2 DEF AdvanceStep

LEMMA BookInvNext ==
  ASSUME MoneyInv, MoneyInv', BookInv, Next PROVE BookInv'
BY DraftBook, InvoiceBook, EditBook, PaymentBook, CreditNoteBook, AdvanceBook DEF Next

-----------------------------------------------------------------------------
(* A source is only ever applied to invoices of its customer.              *)

Owner(pays, s) == IF s \in Payments THEN pays[s].customer ELSE NoteCustomer[s]

CustomersMatch ==
  \A s \in Sources, i \in Invoices :
    applied[s][i].amount > 0 => InvoiceCustomer[i] = Owner(payments, s)

(* Why each live allocation of source s still is one of its owner's        *)
Matched(s) ==
  \A i \in Invoices : applied'[s][i].amount > 0 =>
    \/ applied[s][i].amount > 0 /\ Owner(payments', s) = Owner(payments, s)
    \/ InvoiceCustomer[i] = Owner(payments', s)

LEMMA MatchedAll ==
  ASSUME CustomersMatch, \A s \in Sources : Matched(s) PROVE CustomersMatch'
BY DEF CustomersMatch, Matched

(* A source that has nothing applied has no live allocation.               *)
LEMMA NothingTaken ==
  ASSUME MoneyInv, NEW s \in Sources, Taken(applied[s]) = 0, NEW i \in Invoices
  PROVE  ~ (applied[s][i].amount > 0)
<1>1. applied[s] \in Rows /\ applied[s][i].amount \in Nat
  BY MoneyTypes DEF Rows, Applied
<1>2. applied[s][i].amount <= Taken(applied[s])
  BY <1>1, TakenNat
<1> QED BY <1>1, <1>2

(* Nothing but one source's row, or a payment without allocations, changes.*)
LEMMA OthersMatched ==
  ASSUME MoneyInv, NEW s \in Sources, NEW row, applied' = [applied EXCEPT ![s] = row],
         \A u \in Sources \ {s} : Owner(payments', u) = Owner(payments, u),
         \A i \in Invoices : row[i].amount > 0 =>
           \/ applied[s][i].amount > 0 /\ Owner(payments', s) = Owner(payments, s)
           \/ InvoiceCustomer[i] = Owner(payments', s)
  PROVE  \A u \in Sources : Matched(u)
<1>1. applied'[s] = row /\ \A u \in Sources \ {s} : applied'[u] = applied[u]
  BY MoneyTypes
<1> QED BY <1>1 DEF Matched

LEMMA RowsKeptMatched ==
  ASSUME UNCHANGED applied,
         \A s \in Sources : \/ Owner(payments', s) = Owner(payments, s)
                            \/ \A i \in Invoices : ~ (applied[s][i].amount > 0)
  PROVE  \A s \in Sources : Matched(s)
BY DEF Matched

LEMMA SameOwners ==
  ASSUME UNCHANGED payments PROVE \A s \in Sources : Owner(payments', s) = Owner(payments, s)
BY DEF Owner

LEMMA OneOwner ==
  ASSUME MoneyInv, NEW p \in Payments, NEW pay, payments' = [payments EXCEPT ![p] = pay]
  PROVE  /\ Owner(payments', p) = pay.customer
         /\ \A s \in Sources \ {p} : Owner(payments', s) = Owner(payments, s)
<1>1. payments'[p] = pay /\ \A q \in Payments \ {p} : payments'[q] = payments[q]
  BY MoneyTypes
<1> QED BY <1>1 DEF Owner

LEMMA AllocatedMatched ==
  ASSUME NEW row, NEW invs, NEW alloc, NEW d, LoadTargets(invs, d, alloc), NEW i \in Invoices,
         AppliedAfter(row, invs, alloc)[i].amount > 0
  PROVE  row[i].amount > 0 \/ InvoiceCustomer[i] = d
BY DEF AppliedAfter, LoadTargets

LEMMA CustomersMatchNext ==
  ASSUME MoneyInv, CustomersMatch, Next PROVE CustomersMatch'
<1> SUFFICES \A s \in Sources : Matched(s)
  BY MatchedAll
<1>1. ASSUME UNCHANGED <<payments, applied>> PROVE \A s \in Sources : Matched(s)
  BY <1>1, SameOwners, RowsKeptMatched
<1>2. ASSUME NEW i \in Invoices, NEW total, CreateDraft(i, total) \/ FallDue(i)
      PROVE  \A s \in Sources : Matched(s)
  BY <1>1, <1>2 DEF CreateDraft, FallDue
<1>3. CASE EditStep
  BY <1>1, <1>3 DEF EditStep, BeginEdit, WriteLines, WriteDates, DeleteDraft, AbandonEdit
<1>4. CASE InvoiceStep
  <2>1. ASSUME NEW i \in Invoices, FinalizeWithCredits(i)
        PROVE  \A s \in Sources : Matched(s)
    <3>1. PICK C, D : Draws(i, C, D)
      BY <2>1, CreditsAreDrawn
    <3>2. ASSUME NEW s \in Sources PROVE Owner(payments', s) = Owner(payments, s)
      <4>1. CASE s \in Payments
        <5>1. \/ payments'[s] = payments[s]
              \/ payments'[s] = [payments[s] EXCEPT !.unapplied = payments[s].unapplied - C[s]]
          BY <3>1, <4>1 DEF Draws
        <5>2. payments[s] \in Payment
          BY <4>1, MoneyTypes
        <5> QED BY <4>1, <5>1, <5>2 DEF Owner, Payment
      <4> QED BY <4>1 DEF Owner
    <3>3. ASSUME NEW s \in Sources, NEW j \in Invoices, applied'[s][j].amount > 0
          PROVE  applied[s][j].amount > 0 \/ InvoiceCustomer[j] = Owner(payments, s)
      <4>0. applied[s] \in Rows /\ C \in [Payments -> Nat] /\ D \in [CreditNotes -> Nat]
        BY <3>1, MoneyTypes DEF Draws
      <4>1. CASE s \in Payments
        <5>1. CASE C[s] > 0
          <6>1. payments[s].customer = InvoiceCustomer[i]
            BY <3>1, <4>1, <5>1 DEF Draws, Gives
          <6>2. OneAllocation(s, i, C[s]) /\ C[s] # 0
            BY <3>1, <4>1, <5>1 DEF Draws
          <6>3. PICK a \in Applied : applied'[s] = [applied[s] EXCEPT ![i] = a]
            BY <6>2 DEF OneAllocation
          <6> QED BY <3>3, <4>0, <4>1, <6>1, <6>3 DEF Owner, Rows
        <5>2. CASE ~ (C[s] > 0)
          <6>1. C[s] = 0
            BY <4>0, <4>1, <5>2
          <6> QED BY <3>1, <3>3, <4>1, <6>1 DEF Draws, OneAllocation
        <5> QED BY <5>1, <5>2
      <4>2. CASE s \in CreditNotes
        <5>0. s \notin Payments
          BY <4>2, MoneyTypes
        <5>1. CASE D[s] > 0
          <6>1. NoteCustomer[s] = InvoiceCustomer[i]
            BY <3>1, <4>2, <5>1 DEF Draws, Credits
          <6>2. OneAllocation(s, i, D[s]) /\ D[s] # 0
            BY <3>1, <4>2, <5>1 DEF Draws
          <6>3. PICK a \in Applied : applied'[s] = [applied[s] EXCEPT ![i] = a]
            BY <6>2 DEF OneAllocation
          <6> QED BY <3>3, <4>0, <5>0, <6>1, <6>3 DEF Owner, Rows
        <5>2. CASE ~ (D[s] > 0)
          <6>1. D[s] = 0
            BY <4>0, <4>2, <5>2
          <6> QED BY <3>1, <3>3, <4>2, <6>1 DEF Draws, OneAllocation
        <5> QED BY <5>1, <5>2
      <4> QED BY <4>1, <4>2 DEF Sources
    <3> QED BY <3>2, <3>3 DEF Matched
  <2>2. ASSUME NEW i \in Invoices,
               FinalizeInvoice(i) \/ SendInvoice(i) \/ VoidInvoice(i) \/ WriteOffInvoice(i)
        PROVE  \A s \in Sources : Matched(s)
    BY <1>1, <2>2 DEF FinalizeInvoice, SendInvoice, VoidInvoice, WriteOffInvoice
  <2>3. CASE MarkOverdue
    BY <1>1, <2>3 DEF MarkOverdue
  <2> QED BY <1>4, <2>1, <2>2, <2>3 DEF InvoiceStep
<1>5. CASE PaymentStep
  <2>1. ASSUME NEW p \in Payments, NEW c, NEW amount, NEW alloc,
               CreatePayment(p, c, amount, alloc)
        PROVE  \A s \in Sources : Matched(s)
    <3> DEFINE pay == [status |-> "SUCCEEDED", customer |-> c, amount |-> amount,
                       unapplied |-> amount - SumFunction(alloc), refunded |-> 0, revision |-> 0]
               row == AppliedAfter(applied[p], invoices, alloc)
    <3>1. /\ payments' = [payments EXCEPT ![p] = pay] /\ payments[p].status = "absent"
          /\ applied' = [applied EXCEPT ![p] = row] /\ LoadTargets(invoices, c, alloc)
          /\ p \in Sources
      BY <2>1, MoneyTypes DEF CreatePayment
    <3>2. pay.customer = c
      OBVIOUS
    <3> HIDE DEF pay
    <3>3. Taken(applied[p]) = 0
      BY <3>1 DEF MoneyInv, SourcesSound, SoundPayment
    <3>4. /\ Owner(payments', p) = c
          /\ \A s \in Sources \ {p} : Owner(payments', s) = Owner(payments, s)
      BY <3>1, <3>2, OneOwner
    <3>5. \A i \in Invoices : row[i].amount > 0 => InvoiceCustomer[i] = Owner(payments', p)
      <4>1. \A i \in Invoices : ~ (applied[p][i].amount > 0)
        BY <3>1, <3>3, NothingTaken
      <4> QED BY <3>1, <3>4, <4>1, AllocatedMatched
    <3> HIDE DEF row
    <3> QED BY <3>1, <3>4, <3>5, OthersMatched
  <2>2. ASSUME NEW p \in Payments, NEW c, NEW amount, ConfirmIntent(p, c, amount)
        PROVE  \A s \in Sources : Matched(s)
    <3>1. /\ \E pay : payments' = [payments EXCEPT ![p] = pay]
          /\ payments[p].status = "absent" /\ UNCHANGED applied /\ p \in Sources
      BY <2>2, MoneyTypes DEF ConfirmIntent
    <3>2. \A i \in Invoices : ~ (applied[p][i].amount > 0)
      <4>1. Taken(applied[p]) = 0
        BY <3>1 DEF MoneyInv, SourcesSound, SoundPayment
      <4> QED BY <3>1, <4>1, NothingTaken
    <3> QED BY <3>1, <3>2, OneOwner, RowsKeptMatched
  <2>3. ASSUME NEW p \in Payments, NEW alloc, ApplyPayment(p, alloc)
        PROVE  \A s \in Sources : Matched(s)
    <3> DEFINE pay == [payments[p] EXCEPT !.unapplied = payments[p].unapplied - SumFunction(alloc)]
               row == AppliedAfter(applied[p], invoices, alloc)
    <3>1. /\ payments' = [payments EXCEPT ![p] = pay] /\ p \in Sources
          /\ applied' = [applied EXCEPT ![p] = row]
          /\ LoadTargets(invoices, payments[p].customer, alloc)
      BY <2>3, MoneyTypes DEF ApplyPayment
    <3>2. pay.customer = payments[p].customer /\ Owner(payments, p) = payments[p].customer
      BY MoneyTypes DEF Payment, Owner
    <3> HIDE DEF pay
    <3>3. Owner(payments', p) = Owner(payments, p)
      BY <3>1, <3>2, OneOwner
    <3>4. \A i \in Invoices : row[i].amount > 0 =>
            applied[p][i].amount > 0 \/ InvoiceCustomer[i] = Owner(payments', p)
      BY <3>1, <3>2, <3>3, AllocatedMatched
    <3> HIDE DEF row
    <3> QED BY <3>1, <3>3, <3>4, OneOwner, OthersMatched
  <2>4. ASSUME NEW p \in Payments, NEW c, NEW amount, NEW alloc,
               UpdatePayment(p, c, amount, alloc)
        PROVE  \A s \in Sources : Matched(s)
    <3>1. PICK back :
            /\ applied' = [applied EXCEPT ![p] = AppliedAfter(NothingApplied, back, alloc)]
            /\ LoadTargets(back, c, alloc)
      BY <2>4 DEF UpdatePayment
    <3> DEFINE pay == [payments[p] EXCEPT !.customer = c, !.amount = amount,
                                !.unapplied = amount - SumFunction(alloc),
                                !.revision = payments[p].revision + 1]
               row == AppliedAfter(NothingApplied, back, alloc)
    <3>2. payments' = [payments EXCEPT ![p] = pay] /\ p \in Sources
      BY <2>4, MoneyTypes DEF UpdatePayment
    <3>3. pay.customer = c
      BY MoneyTypes DEF Payment
    <3> HIDE DEF pay
    <3>6. /\ Owner(payments', p) = c
          /\ \A s \in Sources \ {p} : Owner(payments', s) = Owner(payments, s)
      BY <3>2, <3>3, OneOwner
    <3>4. \A i \in Invoices : row[i].amount > 0 => InvoiceCustomer[i] = Owner(payments', p)
      <4>1. \A i \in Invoices : ~ (NothingApplied[i].amount > 0)
        BY DEF NothingApplied
      <4> QED BY <3>1, <3>6, <4>1, AllocatedMatched
    <3>5. applied' = [applied EXCEPT ![p] = row]
      BY <3>1
    <3> HIDE DEF row
    <3> QED BY <3>2, <3>4, <3>5, <3>6, OthersMatched
  <2>5. ASSUME NEW p \in Payments, CancelPayment(p) PROVE \A s \in Sources : Matched(s)
    <3>1. applied' = [applied EXCEPT ![p] = NothingApplied] /\ p \in Sources
          /\ \E pay : payments' = [payments EXCEPT ![p] = pay]
      <4>1. payments' = [payments EXCEPT ![p] = [payments[p] EXCEPT !.status = "CANCELED",
                           !.unapplied = 0, !.revision = payments[p].revision + 1]]
        BY <2>5, MoneyTypes DEF CancelPayment
      <4> QED BY <2>5, <4>1, MoneyTypes DEF CancelPayment
    <3>2. \A i \in Invoices : ~ (NothingApplied[i].amount > 0)
      BY DEF NothingApplied
    <3> QED BY <3>1, <3>2, OneOwner, OthersMatched
  <2>6. ASSUME NEW p \in Payments, NEW amount, RefundPayment(p, amount)
        PROVE  \A s \in Sources : Matched(s)
    <3> DEFINE old == payments[p]
               refunded == old.refunded + amount
               pay == [old EXCEPT !.unapplied = old.unapplied - amount, !.refunded = refunded,
                                !.status = IF refunded = old.amount
                                           THEN "REFUNDED" ELSE "PARTIALLY_REFUNDED"]
    <3>1. payments' = [payments EXCEPT ![p] = pay] /\ UNCHANGED applied
      BY <2>6 DEF RefundPayment
    <3>2. pay.customer = payments[p].customer /\ Owner(payments, p) = payments[p].customer
      BY MoneyTypes DEF Payment, Owner
    <3> HIDE DEF pay
    <3> QED BY <3>1, <3>2, OneOwner, RowsKeptMatched
  <2> QED BY <1>5, <2>1, <2>2, <2>3, <2>4, <2>5, <2>6 DEF PaymentStep
<1>6. CASE CreditNoteStep
  <2>0. UNCHANGED payments
    BY <1>6 DEF CreditNoteStep, BeginIssue, CommitIssue, AbortIssue, ApplyCreditNote,
                VoidCreditNote, RefundCreditNote
  <2>1. ASSUME NEW n \in CreditNotes, NEW alloc, ApplyCreditNote(n, alloc)
        PROVE  \A s \in Sources : Matched(s)
    <3> DEFINE row == AppliedAfter(applied[n], invoices, alloc)
    <3>1. /\ applied' = [applied EXCEPT ![n] = row] /\ n \in Sources
          /\ LoadTargets(invoices, NoteCustomer[n], alloc)
      BY <2>1, MoneyTypes DEF ApplyCreditNote
    <3>2. Owner(payments', n) = NoteCustomer[n]
      BY MoneyTypes DEF Owner
    <3>3. \A i \in Invoices : row[i].amount > 0 =>
            applied[n][i].amount > 0 \/ InvoiceCustomer[i] = Owner(payments', n)
      BY <3>1, <3>2, AllocatedMatched
    <3> HIDE DEF row
    <3> QED BY <2>0, <3>1, <3>3, SameOwners, OthersMatched
  <2>2. ASSUME NEW n \in CreditNotes, VoidCreditNote(n)
        PROVE  \A s \in Sources : Matched(s)
    <3>1. applied' = [applied EXCEPT ![n] = NothingApplied] /\ n \in Sources
      BY <2>2, MoneyTypes DEF VoidCreditNote
    <3>2. \A i \in Invoices : ~ (NothingApplied[i].amount > 0)
      BY DEF NothingApplied
    <3> QED BY <2>0, <3>1, <3>2, SameOwners, OthersMatched
  <2>3. ASSUME NEW n \in CreditNotes, NEW x,
               BeginIssue(n, x) \/ CommitIssue(n) \/ AbortIssue(n) \/ RefundCreditNote(n, x)
        PROVE  \A s \in Sources : Matched(s)
    BY <1>1, <2>0, <2>3 DEF BeginIssue, CommitIssue, AbortIssue, RefundCreditNote
  <2> QED BY <1>6, <2>1, <2>2, <2>3 DEF CreditNoteStep
<1>7. CASE AdvanceStep
  BY <1>1, <1>7 DEF AdvanceStep, ReadAdvance, WriteAdvance, CommitAdvance, AbortAdvance
<1> QED BY <1>2, <1>3, <1>4, <1>5, <1>6, <1>7 DEF Next

-----------------------------------------------------------------------------
(* What a step adds to each side of the story that the ledger tells of a   *)
(* customer                                                                *)

Story(c) ==
  Balance(ledger, c) = Outstanding(invoices, c) - UnusedCredits(payments, notes, c)
                       + Brought(intents, c) + Swallowed(ledger, invoices, invalidating, c)

Moves(c, o, u, b, r, w) ==
  /\ Outstanding(invoices', c) = Outstanding(invoices, c) + o
  /\ UnusedCredits(payments', notes', c) = UnusedCredits(payments, notes, c) + u
  /\ Balance(ledger', c) = Balance(ledger, c) + b
  /\ Brought(intents', c) = Brought(intents, c) + r
  /\ Swallowed(ledger', invoices', invalidating', c) = Swallowed(ledger, invoices, invalidating, c) + w

(* The customers in C are those whose open balances the step may change.   *)
Tells(c, C) ==
  \E o, u, b, r, w \in Int :
    /\ Moves(c, o, u, b, r, w) /\ b = o - u + r + w
    /\ c \notin C => o = 0 /\ u = 0

(* No invoice of the customer was rewritten after it was finalized.        *)
Calm(c) == \A i \in Invoices : InvoiceCustomer[i] = c => i \notin rewritten

LedgerInv == MoneyInv /\ BookInv /\ CustomersMatch

LEMMA SumsInt ==
  ASSUME MoneyInv, BookInv, NEW c
  PROVE  /\ Outstanding(invoices, c) \in Int /\ UnusedCredits(payments, notes, c) \in Int
         /\ Balance(ledger, c) \in Int /\ Brought(intents, c) \in Int
         /\ Swallowed(ledger, invoices, invalidating, c) \in Int
<1>1. /\ ledger \subseteq LedgerEntry /\ intents \subseteq Intent
      /\ IsFiniteSet(ledger) /\ IsFiniteSet(intents)
  BY DEF MoneyInv, BooksTyped, BookInv
<1>2. Outstanding(invoices, c) \in Int
  <2>1. /\ Summable(OwedBy(invoices, c))
        /\ Outstanding(invoices, c) = SumFunction(OwedBy(invoices, c))
    BY MoneyTypes, OutstandingSum
  <2> QED BY <2>1, SumInt
<1>3. UnusedCredits(payments, notes, c) \in Int
  BY MoneyTypes, CreditsInt
<1>4. Balance(ledger, c) \in Int /\ Brought(intents, c) \in Int
  BY <1>1, BalanceInt, BroughtInt
<1>5. Swallowed(ledger, invoices, invalidating, c) \in Int
  <2>1. \A i \in Invoices : Struck(invalidating[i]) \in Nat
    BY InvoiceFields DEF SoundRow
  <2> QED BY <1>1, <2>1, MoneyTypes, SwallowedInt
<1> QED BY <1>2, <1>3, <1>4, <1>5

LEMMA StoryGoesOn ==
  ASSUME MoneyInv, BookInv, NEW c, NEW C, Story(c), Tells(c, C)
  PROVE  Story(c)'
<1>1. PICK o \in Int, u \in Int, b \in Int, r \in Int, w \in Int :
        Moves(c, o, u, b, r, w) /\ b = o - u + r + w
  BY DEF Tells
<1> QED BY <1>1, SumsInt DEF Story, Moves

(* A step that brings in no intent, writes nothing off and invalidates     *)
(* nothing                                                                 *)
GapKinds == {"write-off", "advance-invalidated"}

NoGap(c) ==
  /\ ledger \subseteq ledger'
  /\ \A e \in ledger' : e \in ledger \/ e.key.kind \notin GapKinds
  /\ \A i \in Invoices : InvoiceCustomer[i] = c =>
       /\ invoices'[i].writtenOff = invoices[i].writtenOff
       /\ Struck(invalidating'[i]) = Struck(invalidating[i])

Plainly(c, o, u, b) ==
  /\ o \in Int /\ u \in Int /\ b \in Int /\ b = o - u
  /\ Outstanding(invoices', c) = Outstanding(invoices, c) + o
  /\ UnusedCredits(payments', notes', c) = UnusedCredits(payments, notes, c) + u
  /\ Balance(ledger', c) = Balance(ledger, c) + b
  /\ NoGap(c)

LEMMA PlainTells ==
  ASSUME MoneyInv, BookInv, UNCHANGED intents, NEW c, NEW C, NEW o, NEW u, NEW b,
         Plainly(c, o, u, b), c \notin C => o = 0 /\ u = 0
  PROVE  Tells(c, C)
<1>1. \A i \in Invoices, kind \in GapKinds :
        EnteredIn(ledger', kind, i) = EnteredIn(ledger, kind, i)
  <2> SUFFICES ASSUME NEW i \in Invoices, NEW kind \in GapKinds
               PROVE  EnteredIn(ledger', kind, i) = EnteredIn(ledger, kind, i)
    OBVIOUS
  <2>1. \A e \in ledger' : e \in ledger \/ e.key # Key(kind, i, 0)
    BY KeyParts DEF Plainly, NoGap
  <2> QED BY <2>1, EnteredAlike DEF Plainly, NoGap
<1>2. Swallowed(ledger', invoices', invalidating', c) = Swallowed(ledger, invoices, invalidating, c)
  <2>1. \A i \in Invoices : InvoiceCustomer[i] = c =>
          Gap(ledger', invoices'[i], invalidating'[i], i) = Gap(ledger, invoices[i], invalidating[i], i)
    BY <1>1 DEF Plainly, NoGap, Gap, GapKinds
  <2> QED BY <2>1, SwallowedAlike
<1>3. Moves(c, o, u, b, 0, 0)
  BY <1>2, SumsInt DEF Plainly, Moves
<1>4. b = o - u + 0 + 0 /\ o \in Int /\ u \in Int /\ b \in Int
  BY DEF Plainly
<1> QED BY <1>3, <1>4 DEF Tells

(* A step that changes no balance of the customer                          *)
LEMMA QuietTells ==
  ASSUME MoneyInv, MoneyInv', BookInv, UNCHANGED <<payments, notes, ledger, intents, invalidating>>,
         NEW c, NEW C,
         \A i \in Invoices : InvoiceCustomer[i] = c =>
           /\ Owed(invoices', c, i) = Owed(invoices, c, i)
           /\ invoices'[i].writtenOff = invoices[i].writtenOff
  PROVE  Tells(c, C)
<1>0. invoices \in [Invoices -> Invoice] /\ invoices' \in [Invoices -> Invoice]
  BY DEF MoneyInv, SettlementInv, InvoiceInv, Sound
<1>1. Outstanding(invoices', c) = Outstanding(invoices, c)
  BY <1>0, OutstandingAlike
<1>2. NoGap(c)
  BY DEF NoGap
<1>3. /\ Outstanding(invoices', c) = Outstanding(invoices, c) + 0
      /\ UnusedCredits(payments', notes', c) = UnusedCredits(payments, notes, c) + 0
      /\ Balance(ledger', c) = Balance(ledger, c) + 0
  BY <1>1, SumsInt
<1>4. Plainly(c, 0, 0, 0)
  BY <1>2, <1>3 DEF Plainly
<1> QED BY <1>4, PlainTells

(* An entry that is new to the ledger                                      *)
LEMMA NewEntry ==
  ASSUME MoneyInv, BookInv, NEW key, NEW d, NEW amount \in Int,
         ledger' = Recorded(ledger, key, d, amount), NEW c, c = d => ~ HasKey(ledger, key)
  PROVE  /\ Balance(ledger', c) = Balance(ledger, c) + If(c = d, amount)
         /\ If(c = d, amount) \in Int
         /\ ledger \subseteq ledger' /\ \A e \in ledger' : e \in ledger \/ e.key = key
<1>1. ledger \subseteq LedgerEntry /\ IsFiniteSet(ledger)
  BY DEF MoneyInv, BooksTyped, BookInv
<1>2. Balance(ledger', c) = Balance(ledger, c) + If(c = d, amount)
  BY <1>1, BalanceRecorded
<1>3. ledger \subseteq ledger' /\ \A e \in ledger' : e \in ledger \/ e.key = key
  BY <1>1, RecordedKeys
<1> QED BY <1>2, <1>3 DEF If

LEMMA Unexplained ==
  ASSUME BookInv, NEW key, ~ Explained(key, invoices, payments, notes, rewritten, invalidating)
  PROVE  ~ HasKey(ledger, key)
BY DEF BookInv, HasKey

(* An invoice that is not finalized has nothing in the ledger.             *)
LEMMA NotInLedger ==
  ASSUME BookInv, NEW i \in Invoices, invoices[i].status \notin Finalized
  PROVE  \A kind, n : ~ HasKey(ledger, Key(kind, i, n))
<1> SUFFICES ASSUME NEW kind, NEW n PROVE ~ HasKey(ledger, Key(kind, i, n))
  OBVIOUS
<1>1. ~ Explained(Key(kind, i, n), invoices, payments, notes, rewritten, invalidating)
  BY KeyParts DEF Explained
<1> QED BY <1>1, Unexplained

LEMMA NeverWrittenOff ==
  ASSUME MoneyInv, BookInv, NEW i \in Invoices, ~ HasKey(ledger, Key("write-off", i, 0))
  PROVE  invoices[i].writtenOff = 0
<1>1. invoices[i].writtenOff \in Nat
  BY InvoiceFields DEF Invoice
<1> QED BY <1>1 DEF BookInv, InBook

(* What is free of a sound payment or left of a sound note                 *)
LEMMA FreeIs ==
  ASSUME NEW pay, NEW taken \in Nat, SoundPayment(pay, taken), NEW c
  PROVE  Free(pay, c) = If(c = pay.customer, pay.unapplied) /\ pay.unapplied \in Nat
<1>1. /\ pay \in Payment /\ pay.unapplied \in Nat /\ pay.refunded \in Nat /\ pay.amount \in Nat
      /\ pay.status \in {"absent", "SUCCEEDED", "PARTIALLY_REFUNDED", "REFUNDED", "CANCELED"}
  BY DEF SoundPayment, Payment
<1>2. pay.status \notin Available => pay.unapplied = 0
  <2>1. CASE pay.status \in {"absent", "CANCELED"}
    BY <2>1 DEF SoundPayment
  <2>2. CASE pay.status = "REFUNDED"
    <3>1. pay.refunded = pay.amount /\ pay.amount = pay.unapplied + pay.refunded + taken
      BY <2>2 DEF SoundPayment
    <3> QED BY <1>1, <3>1
  <2> QED BY <1>1, <2>1, <2>2 DEF Available
<1> QED BY <1>1, <1>2 DEF Free, If

LEMMA LeftIs ==
  ASSUME NEW note, NEW taken, SoundNote(note, taken)
  PROVE  /\ \A n, c : Left(n, note, c) = If(c = NoteCustomer[n], note.balance)
         /\ note.balance \in Nat
<1>1. note \in CreditNote /\ note.balance \in Nat
      /\ note.status \in {"absent", "OPEN", "CLOSED", "VOID"}
  BY DEF SoundNote, CreditNote
<1>2. note.status # "OPEN" => note.balance = 0
  BY <1>1 DEF SoundNote
<1> QED BY <1>1, <1>2 DEF Left, If

(* What was w of customer e becomes v of customer d                        *)
Credited(c, d, v, e, w) ==
  UnusedCredits(payments', notes', c)
    = UnusedCredits(payments, notes, c) + (If(c = d, v) - If(c = e, w))

LEMMA PaymentMoves ==
  ASSUME MoneyInv, MoneyInv', NEW p \in Payments, NEW pay,
         payments' = [payments EXCEPT ![p] = pay], UNCHANGED notes, NEW c
  PROVE  /\ Credited(c, pay.customer, pay.unapplied, payments[p].customer, payments[p].unapplied)
         /\ pay.unapplied \in Nat /\ payments[p].unapplied \in Nat
         /\ SoundPayment(payments[p], Taken(applied[p])) /\ Taken(applied[p]) \in Nat
<1>1. /\ p \in Sources /\ SoundPayment(payments[p], Taken(applied[p]))
      /\ Taken(applied[p]) \in Nat /\ payments \in [Payments -> Payment]
      /\ notes \in [CreditNotes -> CreditNote]
  BY MoneyTypes, TakenNat DEF MoneyInv, SourcesSound
<1>2. payments'[p] = pay
  BY <1>1
<1>3. SoundPayment(pay, Taken(applied'[p])) /\ Taken(applied'[p]) \in Nat
  <2>1. SoundPayment(payments'[p], Taken(applied'[p]))
    BY DEF MoneyInv, SourcesSound
  <2>2. applied'[p] \in Rows
    BY <1>1 DEF MoneyInv, SettlementInv, InvoiceInv, Rows
  <2> QED BY <1>2, <2>1, <2>2, TakenNat
<1>4. /\ Free(pay, c) = If(c = pay.customer, pay.unapplied) /\ pay.unapplied \in Nat
  BY <1>3, FreeIs
<1>5. /\ Free(payments[p], c) = If(c = payments[p].customer, payments[p].unapplied)
      /\ payments[p].unapplied \in Nat
  BY <1>1, FreeIs
<1>6. pay \in Payment
  BY <1>3 DEF SoundPayment
<1>7. /\ UnusedCredits(payments', notes, c)
           = UnusedCredits(payments, notes, c) + Free(pay, c) - Free(payments[p], c)
      /\ UnusedCredits(payments, notes, c) \in Int
      /\ Free(pay, c) \in Nat /\ Free(payments[p], c) \in Nat
  BY <1>1, <1>6, PaymentCredits
<1>8. UnusedCredits(payments', notes', c)
        = UnusedCredits(payments, notes, c) + (Free(pay, c) - Free(payments[p], c))
  BY <1>7
<1> QED BY <1>1, <1>4, <1>5, <1>8 DEF Credited

LEMMA NoteMoves ==
  ASSUME MoneyInv, MoneyInv', NEW n \in CreditNotes, NEW note,
         notes' = [notes EXCEPT ![n] = note], UNCHANGED payments, NEW c
  PROVE  /\ Credited(c, NoteCustomer[n], note.balance, NoteCustomer[n], notes[n].balance)
         /\ note.balance \in Nat /\ notes[n].balance \in Nat
<1>1. /\ SoundNote(notes[n], Taken(applied[n])) /\ payments \in [Payments -> Payment]
      /\ notes \in [CreditNotes -> CreditNote]
  BY NoteFacts, MoneyTypes
<1>2. notes'[n] = note
  BY <1>1
<1>3. SoundNote(note, Taken(applied'[n]))
  BY <1>2 DEF MoneyInv, SourcesSound
<1>4. Left(n, note, c) = If(c = NoteCustomer[n], note.balance) /\ note.balance \in Nat
  BY <1>3, LeftIs
<1>5. /\ Left(n, notes[n], c) = If(c = NoteCustomer[n], notes[n].balance)
      /\ notes[n].balance \in Nat
  BY <1>1, LeftIs
<1>6. note \in CreditNote
  BY <1>3 DEF SoundNote
<1>7. /\ UnusedCredits(payments, notes', c)
           = UnusedCredits(payments, notes, c) + Left(n, note, c) - Left(n, notes[n], c)
      /\ UnusedCredits(payments, notes, c) \in Int
      /\ Left(n, note, c) \in Nat /\ Left(n, notes[n], c) \in Nat
  BY <1>1, <1>6, NoteCredits
<1>8. UnusedCredits(payments', notes', c)
        = UnusedCredits(payments, notes, c) + (Left(n, note, c) - Left(n, notes[n], c))
  BY <1>7
<1> QED BY <1>4, <1>5, <1>8 DEF Credited

LEMMA SameCredits ==
  ASSUME MoneyInv, UNCHANGED <<payments, notes>>, NEW c
  PROVE  UnusedCredits(payments', notes', c) = UnusedCredits(payments, notes, c) + 0
BY MoneyTypes, CreditsInt

(* Drafts and edits move no balance that a customer's columns show, unless *)
(* an edit comes after the draft was finalized.                            *)
LEMMA DraftTells ==
  ASSUME MoneyInv, MoneyInv', BookInv, NEW i \in Invoices, NEW total,
         CreateDraft(i, total) \/ FallDue(i), NEW c
  PROVE  Tells(c, {})
<1>1. UNCHANGED <<payments, notes, ledger, intents, invalidating>>
  BY DEF CreateDraft, FallDue, besides
<1>2. \A j \in Invoices \ {i} : invoices'[j] = invoices[j]
  BY MoneyTypes DEF CreateDraft, FallDue
<1>3. /\ Owed(invoices', c, i) = Owed(invoices, c, i)
      /\ invoices'[i].writtenOff = invoices[i].writtenOff
  <2>1. CASE CreateDraft(i, total)
    <3>1. /\ invoices[i].status = "absent" /\ invoices'[i].status = "DRAFT"
          /\ invoices'[i].writtenOff = 0
      BY <2>1, MoneyTypes DEF CreateDraft, AbsentInvoice
    <3>2. invoices[i].writtenOff = 0
      BY <3>1, NotInLedger, NeverWrittenOff DEF Finalized, Collectible
    <3> QED BY <3>1, <3>2 DEF Owed, If, Collectible
  <2>2. CASE FallDue(i)
    <3>1. invoices'[i] = [invoices[i] EXCEPT !.late = TRUE]
      BY <2>2, MoneyTypes DEF FallDue
    <3> QED BY <3>1, InvoiceFields DEF Owed, Invoice
  <2> QED BY <2>1, <2>2
<1> QED BY <1>1, <1>2, <1>3, QuietTells DEF Owed

LEMMA EditTells ==
  ASSUME MoneyInv, MoneyInv', BookInv, EditStep, NEW c, Calm(c)'
  PROVE  Tells(c, {})
<1>0. /\ \A e \in edits : e.invoice \in Invoices
      /\ UNCHANGED <<payments, notes, ledger, intents, invalidating>> /\ Calm(c)
  <2>1. rewritten \subseteq rewritten' /\ UNCHANGED <<payments, notes, ledger, intents, invalidating>>
    BY DEF EditStep, BeginEdit, WriteLines, WriteDates, DeleteDraft, AbandonEdit
  <2> QED BY <2>1 DEF MoneyInv, SettlementInv, EditInv, Edit, Calm
<1>1. ASSUME NEW i \in Invoices, NEW row, invoices' = [invoices EXCEPT ![i] = row],
             InvoiceCustomer[i] = c =>
               /\ row.status \in Collectible <=> invoices[i].status \in Collectible
               /\ row.status \in Collectible => row.due = invoices[i].due
               /\ row.writtenOff = invoices[i].writtenOff
      PROVE  Tells(c, {})
  <2>1. invoices'[i] = row /\ \A j \in Invoices \ {i} : invoices'[j] = invoices[j]
    BY <1>1, MoneyTypes
  <2>2. \A j \in Invoices : InvoiceCustomer[j] = c =>
          /\ Owed(invoices', c, j) = Owed(invoices, c, j)
          /\ invoices'[j].writtenOff = invoices[j].writtenOff
    BY <1>1, <2>1 DEF Owed, If
  <2> QED BY <1>0, <2>2, QuietTells
<1>2. ASSUME NEW e \in edits, NEW total, WriteLines(e, total) PROVE Tells(c, {})
  <2> DEFINE i == e.invoice
             row == [invoices[i] EXCEPT !.total = total, !.due = total]
  <2>1. /\ invoices' = [invoices EXCEPT ![i] = row] /\ i \in Invoices
        /\ rewritten' = IF invoices[i].status = "DRAFT" THEN rewritten
                        ELSE rewritten \cup {i}
    BY <1>0, <1>2, MoneyTypes DEF WriteLines
  <2>2. row.status = invoices[i].status /\ row.writtenOff = invoices[i].writtenOff
    BY <2>1, InvoiceFields DEF Invoice
  <2> HIDE DEF row, i
  <2>3. InvoiceCustomer[i] = c => invoices[i].status = "DRAFT"
    BY <2>1 DEF Calm
  <2>4. "DRAFT" \notin Collectible
    BY DEF Collectible
  <2> QED BY <1>1, <2>1, <2>2, <2>3, <2>4
<1>3. ASSUME NEW e \in edits, NEW late, WriteDates(e, late) PROVE Tells(c, {})
  <2> DEFINE i == e.invoice
             row == [invoices[i] EXCEPT !.late = late]
  <2>1. invoices' = [invoices EXCEPT ![i] = row] /\ i \in Invoices
    BY <1>0, <1>3, MoneyTypes DEF WriteDates
  <2>2. /\ row.status = invoices[i].status /\ row.due = invoices[i].due
        /\ row.writtenOff = invoices[i].writtenOff
    BY <2>1, InvoiceFields DEF Invoice
  <2> HIDE DEF row, i
  <2> QED BY <1>1, <2>1, <2>2
<1>4. ASSUME NEW e \in edits, DeleteDraft(e) PROVE Tells(c, {})
  <2> DEFINE i == e.invoice
             row == [AbsentInvoice EXCEPT !.status = "deleted"]
  <2>1. /\ invoices' = [invoices EXCEPT ![i] = row] /\ i \in Invoices
        /\ \A x \in ledger : x.key.id # i
    BY <1>0, <1>4 DEF DeleteDraft
  <2>2. row.status = "deleted" /\ row.writtenOff = 0 /\ "deleted" \notin Collectible
    BY DEF AbsentInvoice, Collectible
  <2> HIDE DEF row, i
  <2>3. \A kind, n : ~ HasKey(ledger, Key(kind, i, n))
    BY <2>1, KeyParts DEF HasKey
  <2>4. invoices[i].writtenOff = 0
    BY <2>1, <2>3, NeverWrittenOff
  <2>5. InvoiceCustomer[i] = c => invoices[i].status \notin Collectible
    <3> SUFFICES ASSUME InvoiceCustomer[i] = c, invoices[i].status \in Collectible PROVE FALSE
      OBVIOUS
    <3>1. i \notin rewritten
      BY <1>0, <2>1 DEF Calm
    <3>2. SoundRow(invoices[i], i \in rewritten, invalidating[i])
      BY <2>1, InvoiceFields
    <3>3. /\ invoices[i].status \in Finalized /\ invoices[i].status \in Unvoided
      BY DEF Finalized, Unvoided, Collectible
    <3>4. /\ invoices[i].due > 0 /\ AddsUp(invoices[i], invalidating[i])
          /\ Struck(invalidating[i]) \in Nat
      BY <3>1, <3>2, <3>3 DEF SoundRow
    <3>5. /\ invoices[i].due \in Nat /\ invoices[i].paid \in Nat /\ invoices[i].credited \in Nat
          /\ invoices[i].total \in Nat
      BY <2>1, InvoiceFields DEF Invoice
    <3>6. invoices[i].total > 0
      BY <2>4, <3>4, <3>5 DEF AddsUp
    <3>7. HasKey(ledger, Key("finalized", i, 0))
      BY <2>1, <3>1, <3>3, <3>4, <3>6 DEF BookInv, InBook
    <3> QED BY <2>3, <3>7
  <2> QED BY <1>1, <2>1, <2>2, <2>4, <2>5
<1>5. ASSUME UNCHANGED invoices PROVE Tells(c, {})
  BY <1>0, <1>5, QuietTells
<1> QED BY <1>2, <1>3, <1>4, <1>5 DEF EditStep, BeginEdit, AbandonEdit

LEMMA OneOutstanding ==
  ASSUME MoneyInv, MoneyInv', NEW i \in Invoices,
         \A j \in Invoices \ {i} : invoices'[j] = invoices[j], NEW c
  PROVE  /\ Outstanding(invoices', c)
              = Outstanding(invoices, c) + (Owed(invoices', c, i) - Owed(invoices, c, i))
         /\ Owed(invoices', c, i) \in Nat /\ Owed(invoices, c, i) \in Nat
<1>1. invoices \in [Invoices -> Invoice] /\ invoices' \in [Invoices -> Invoice]
  BY DEF MoneyInv, SettlementInv, InvoiceInv, Sound
<1>2. /\ Outstanding(invoices', c)
           = Outstanding(invoices, c) + Owed(invoices', c, i) - Owed(invoices, c, i)
      /\ Outstanding(invoices, c) \in Int /\ Owed(invoices', c, i) \in Nat
      /\ Owed(invoices, c, i) \in Nat
  BY <1>1, OutstandingUpdate
<1> QED BY <1>2

(* What is due on a draft that no edit touched too late is its total.      *)
LEMMA DraftDue ==
  ASSUME MoneyInv, NEW i \in Invoices, invoices[i].status = "DRAFT", Calm(InvoiceCustomer[i])
  PROVE  invoices[i].due = invoices[i].total
BY InvoiceFields DEF SoundRow, Calm

LEMMA FinalizedTells ==
  ASSUME MoneyInv, MoneyInv', BookInv, NEW i \in Invoices, invoices[i].status = "DRAFT",
         NEW c, \A j \in Invoices \ {i} : invoices'[j] = invoices[j],
         invoices'[i].writtenOff = invoices[i].writtenOff,
         c = InvoiceCustomer[i] =>
           Calm(c) /\ (invoices'[i].status \in Collectible \/ invoices'[i].due = 0),
         ledger' = FinalizedBook(i), UNCHANGED <<intents, invalidating>>, NEW drawn \in Nat,
         invoices'[i].due = invoices[i].due - drawn,
         UnusedCredits(payments', notes', c)
           = UnusedCredits(payments, notes, c) - If(c = InvoiceCustomer[i], drawn)
  PROVE  Tells(c, {InvoiceCustomer[i]})
<1> DEFINE d == InvoiceCustomer[i]
           o == Owed(invoices', c, i) - Owed(invoices, c, i)
           u == 0 - If(c = d, drawn)
           b == If(c = d, invoices[i].total)
<1>1. /\ Outstanding(invoices', c) = Outstanding(invoices, c) + o
      /\ Owed(invoices', c, i) \in Nat /\ Owed(invoices, c, i) \in Nat
  BY OneOutstanding
<1>2. /\ invoices[i].total \in Nat /\ invoices[i].due \in Nat /\ invoices[i].total \in Int
  BY InvoiceFields DEF Invoice
<1>3. Owed(invoices, c, i) = 0
  BY DEF Owed, If, Collectible
<1>4. /\ Balance(ledger', c) = Balance(ledger, c) + b /\ b \in Int /\ ledger \subseteq ledger'
      /\ \A e \in ledger' : e \in ledger \/ e.key = Key("finalized", i, 0)
  <2>1. ~ HasKey(ledger, Key("finalized", i, 0))
    BY NotInLedger DEF Finalized, Collectible
  <2>2. ledger' = Recorded(ledger, Key("finalized", i, 0), d, invoices[i].total)
    BY DEF FinalizedBook, Debit
  <2> HIDE DEF d
  <2> QED BY <1>2, <2>1, <2>2, NewEntry
<1>5. NoGap(c)
  <2>1. \A e \in ledger' : e \in ledger \/ e.key.kind \notin GapKinds
    BY <1>4, KeyParts DEF GapKinds
  <2> QED BY <1>4, <2>1 DEF NoGap
<1>6. Owed(invoices', c, i) = If(c = d, invoices[i].due - drawn)
  BY DEF Owed, If
<1>7. /\ o \in Int /\ u \in Int /\ b = o - u /\ (c # d => o = 0 /\ u = 0)
  <2>1. CASE c = d
    <3>1. invoices[i].due = invoices[i].total
      BY <2>1, DraftDue
    <3>2. o = invoices[i].total - drawn /\ u = 0 - drawn /\ b = invoices[i].total
      BY <1>2, <1>3, <1>6, <2>1, <3>1 DEF If
    <3> HIDE DEF o, u, b
    <3> QED BY <1>2, <2>1, <3>2
  <2>2. CASE c # d
    <3>0. /\ Owed(invoices', c, i) = 0 /\ If(c = d, drawn) = 0
          /\ If(c = d, invoices[i].total) = 0
      <4> HIDE DEF d
      <4> QED BY <1>6, <2>2 DEF If
    <3>1. o = 0 /\ u = 0 /\ b = 0
      BY <1>3, <3>0
    <3> HIDE DEF o, u, b
    <3> QED BY <3>1
  <2> QED BY <2>1, <2>2
<1>8. UnusedCredits(payments', notes', c) = UnusedCredits(payments, notes, c) + u
  <2>1. UnusedCredits(payments, notes, c) \in Int /\ If(c = d, drawn) \in Int
    BY SumsInt DEF If
  <2> QED BY <2>1
<1> HIDE DEF o, u, b
<1>9. Plainly(c, o, u, b)
  BY <1>1, <1>4, <1>5, <1>7, <1>8 DEF Plainly
<1> QED BY <1>7, <1>9, PlainTells

LEMMA FinalizeTells ==
  ASSUME MoneyInv, MoneyInv', BookInv, NEW i \in Invoices, FinalizeInvoice(i),
         NEW c, c = InvoiceCustomer[i] => Calm(c)
  PROVE  Tells(c, {InvoiceCustomer[i]})
<1> DEFINE inv == invoices[i]
           row == MarkedFinalized(inv)
<1>1. /\ inv.status = "DRAFT" /\ invoices' = [invoices EXCEPT ![i] = row]
      /\ ledger' = FinalizedBook(i) /\ UNCHANGED <<payments, notes, intents, invalidating>>
  BY DEF FinalizeInvoice, besides
<1>2. /\ row.writtenOff = inv.writtenOff /\ row.due = inv.due /\ inv.due \in Nat
      /\ row.status = IF inv.total = 0 THEN "PAID" ELSE "OPEN"
  BY InvoiceFields DEF MarkedFinalized, Invoice
<1> HIDE DEF row
<1>3. invoices'[i] = row /\ \A j \in Invoices \ {i} : invoices'[j] = invoices[j]
  BY <1>1, MoneyTypes
<1>4. /\ invoices'[i].writtenOff = inv.writtenOff /\ invoices'[i].due = inv.due - 0
      /\ UnusedCredits(payments', notes', c)
           = UnusedCredits(payments, notes, c) - If(c = InvoiceCustomer[i], 0)
  BY <1>1, <1>2, <1>3, SumsInt DEF If
<1>5. ASSUME Calm(InvoiceCustomer[i])
      PROVE  invoices'[i].status \in Collectible \/ invoices'[i].due = 0
  <2>1. inv.due = inv.total
    BY <1>1, <1>5, DraftDue
  <2> QED BY <1>2, <1>3, <2>1 DEF Collectible
<1> QED BY <1>1, <1>3, <1>4, <1>5, FinalizedTells

(* A step that writes one entry, and one that writes none                  *)
Enters(c, d, kind, id, n, amount, o, u) ==
  /\ kind \notin GapKinds /\ (c = d => ~ HasKey(ledger, Key(kind, id, n)))
  /\ amount \in Int /\ ledger' = Recorded(ledger, Key(kind, id, n), d, amount)
  /\ \A i \in Invoices : invoices'[i].writtenOff = invoices[i].writtenOff
  /\ o \in Int /\ u \in Int /\ If(c = d, amount) = o - u /\ (c # d => o = 0 /\ u = 0)
  /\ Outstanding(invoices', c) = Outstanding(invoices, c) + o
  /\ UnusedCredits(payments', notes', c) = UnusedCredits(payments, notes, c) + u

LEMMA EnteredTells ==
  ASSUME MoneyInv, MoneyInv', BookInv, UNCHANGED <<intents, invalidating>>, NEW c, NEW d,
         NEW kind, NEW id, NEW n, NEW amount, NEW o, NEW u,
         Enters(c, d, kind, id, n, amount, o, u)
  PROVE  Tells(c, {d})
<1> DEFINE b == If(c = d, amount)
<1>1. /\ Balance(ledger', c) = Balance(ledger, c) + b /\ b \in Int /\ ledger \subseteq ledger'
      /\ \A e \in ledger' : e \in ledger \/ e.key = Key(kind, id, n)
  BY NewEntry DEF Enters
<1>2. \A e \in ledger' : e \in ledger \/ e.key.kind \notin GapKinds
  BY <1>1, KeyParts DEF Enters
<1>3. NoGap(c)
  BY <1>1, <1>2 DEF NoGap, Enters
<1>4. b = o - u
  BY DEF Enters
<1> HIDE DEF b
<1>5. Plainly(c, o, u, b)
  BY <1>1, <1>3, <1>4 DEF Plainly, Enters
<1>6. c \notin {d} => o = 0 /\ u = 0
  BY DEF Enters
<1> QED BY <1>5, <1>6, PlainTells

Shifts(c, d, o) ==
  /\ \A i \in Invoices : invoices'[i].writtenOff = invoices[i].writtenOff
  /\ o \in Int /\ (c # d => o = 0)
  /\ Outstanding(invoices', c) = Outstanding(invoices, c) + o
  /\ UnusedCredits(payments', notes', c) = UnusedCredits(payments, notes, c) + o

LEMMA ShiftTells ==
  ASSUME MoneyInv, MoneyInv', BookInv, UNCHANGED <<ledger, intents, invalidating>>, NEW c, NEW d, NEW o,
         Shifts(c, d, o)
  PROVE  Tells(c, {d})
<1>1. NoGap(c)
  BY DEF NoGap, Shifts
<1>2. Balance(ledger', c) = Balance(ledger, c) + 0 /\ 0 \in Int
  BY SumsInt
<1>3. 0 = o - o
  BY DEF Shifts
<1>4. Plainly(c, o, o, 0)
  BY <1>1, <1>2, <1>3 DEF Plainly, Shifts
<1>5. c \notin {d} => o = 0
  BY DEF Shifts
<1> QED BY <1>4, <1>5, PlainTells

LEMMA AllocationMoves ==
  ASSUME MoneyInv, NEW s \in Sources, NEW d, NEW alloc \in Allocations,
         LoadTargets(invoices, d, alloc), invoices' = InvoicesAfter(invoices, s, alloc), NEW c
  PROVE  /\ Outstanding(invoices', c)
              = Outstanding(invoices, c) + (0 - If(c = d, SumFunction(alloc)))
         /\ \A i \in Invoices : invoices'[i].writtenOff = invoices[i].writtenOff
         /\ SumFunction(alloc) \in Nat
<1>1. Sound(invoices, rewritten, invalidating)
  BY DEF MoneyInv, SettlementInv, InvoiceInv
<1>2. /\ Outstanding(invoices', c)
           = Outstanding(invoices, c) - If(c = d, SumFunction(alloc))
      /\ Outstanding(invoices, c) \in Int
  BY <1>1, AllocationOutstanding
<1>3. \A i \in Invoices :
        SameStanding(invoices[i], invoices'[i], i \in rewritten, invalidating[i])
  BY <1>1, AfterStanding
<1>4. SumFunction(alloc) \in Nat
  BY AllocAmounts
<1>5. If(c = d, SumFunction(alloc)) \in Int
  BY <1>4 DEF If
<1> QED BY <1>2, <1>3, <1>4, <1>5 DEF SameStanding

(* The invoices after source s of customer d was taken back               *)
TakenBack(s, back) ==
  /\ Storable(invoices, applied[s], s)
  /\ \E last \in Restorations(applied[s]) :
       back = InvoicesRestored(invoices, s, applied[s], last)

GivesBack(s, back, d, c) ==
  /\ Outstanding(back, c) = Outstanding(invoices, c) + If(c = d, Taken(applied[s]))
  /\ \A i \in Invoices :
       SameStanding(invoices[i], back[i], i \in rewritten, invalidating[i])

LEMMA ReversalMoves ==
  ASSUME MoneyInv, CustomersMatch, NEW s \in Sources, NEW back, TakenBack(s, back),
         NEW d, d = Owner(payments, s), NEW c, c = d => Calm(c)
  PROVE  GivesBack(s, back, d, c)
<1>0. PICK last \in Restorations(applied[s]) :
        back = InvoicesRestored(invoices, s, applied[s], last)
  BY DEF TakenBack
<1>1. Sound(invoices, rewritten, invalidating)
  BY DEF MoneyInv, SettlementInv, InvoiceInv
<1>2. applied[s] \in Rows /\ Remembers(applied[s], invoices, rewritten, invalidating)
  BY DEF MoneyInv, SettlementInv, InvoiceInv, Rows
<1>3. \A i \in Invoices : applied[s][i].amount > 0 => InvoiceCustomer[i] = Owner(payments, s)
  BY DEF CustomersMatch
<1>4. c = Owner(payments, s) =>
        \A i \in Invoices : InvoiceCustomer[i] = c => i \notin rewritten
  BY DEF Calm
<1>5. Outstanding(back, c)
        = Outstanding(invoices, c) + If(c = d, Taken(applied[s]))
  <2>1. ASSUME NEW row, row = applied[s]
        PROVE  Outstanding(back, c) = Outstanding(invoices, c) + If(c = d, Taken(row))
    <3>1. /\ row \in Rows /\ Remembers(row, invoices, rewritten, invalidating) /\ Storable(invoices, row, s)
          /\ last \in Restorations(row)
          /\ \A i \in Invoices : row[i].amount > 0 => InvoiceCustomer[i] = d
          /\ c = d => \A i \in Invoices : InvoiceCustomer[i] = c => i \notin rewritten
      BY <1>2, <1>3, <1>4, <2>1 DEF TakenBack
    <3>2. Outstanding(InvoicesRestored(invoices, s, row, last), c)
            = Outstanding(invoices, c) + If(c = d, Taken(row))
      BY <1>1, <3>1, ReversalOutstanding
    <3> QED BY <1>0, <2>1, <3>2
  <2> QED BY <2>1
<1>6. \A i \in Invoices :
        SameStanding(invoices[i], back[i], i \in rewritten, invalidating[i])
  <2>1. ASSUME NEW row, row = applied[s]
        PROVE  \A i \in Invoices :
                 SameStanding(invoices[i], back[i], i \in rewritten, invalidating[i])
    <3>1. /\ row \in Rows /\ Remembers(row, invoices, rewritten, invalidating)
          /\ Storable(invoices, row, s) /\ last \in Restorations(row)
          /\ back = InvoicesRestored(invoices, s, row, last)
      BY <1>0, <1>2, <2>1 DEF TakenBack
    <3> QED BY <1>1, <3>1, RestoredStanding
  <2> QED BY <2>1
<1> QED BY <1>5, <1>6 DEF GivesBack

LEMMA CreditsTell ==
  ASSUME MoneyInv, MoneyInv', BookInv, NEW i \in Invoices, FinalizeWithCredits(i),
         NEW c, c = InvoiceCustomer[i] => Calm(c)
  PROVE  Tells(c, {InvoiceCustomer[i]})
<1>1. /\ invoices[i].status = "DRAFT" /\ ledger' = FinalizedBook(i) /\ UNCHANGED <<intents, invalidating>>
  BY DEF FinalizeWithCredits, besides
<1>2. PICK C, D : Draws(i, C, D)
  BY CreditsAreDrawn
<1> DEFINE drawn == SumFunction(C) + SumFunction(D)
<1>3. /\ SumFunction(C) \in Nat /\ SumFunction(D) \in Nat
      /\ \A j \in Invoices \ {i} : invoices'[j] = invoices[j]
      /\ invoices'[i].due = invoices[i].due - SumFunction(C) - SumFunction(D)
      /\ invoices'[i].writtenOff = invoices[i].writtenOff
      /\ invoices'[i].status \in Collectible \cup {"PAID"}
      /\ invoices'[i].status = "PAID" <=> invoices'[i].due = 0
  BY <1>1, <1>2, DrawnInvoice
<1>4. invoices[i].due \in Nat
  BY InvoiceFields DEF Invoice
<1>5. drawn \in Nat /\ invoices'[i].due = invoices[i].due - drawn
  BY <1>3, <1>4
<1>6. SourcesSound'
  BY DEF MoneyInv
<1>7. UnusedCredits(payments', notes', c)
        = UnusedCredits(payments, notes, c) - If(c = InvoiceCustomer[i], drawn)
  BY <1>2, <1>6, DrawnCredits
<1>8. invoices'[i].status \in Collectible \/ invoices'[i].due = 0
  BY <1>3
<1> HIDE DEF drawn
<1> QED BY <1>1, <1>3, <1>5, <1>7, <1>8, FinalizedTells

LEMMA SendTells ==
  ASSUME MoneyInv, MoneyInv', BookInv, NEW i \in Invoices, SendInvoice(i), NEW c
  PROVE  Tells(c, {})
<1> DEFINE old == invoices[i]
           row == [old EXCEPT !.sent = TRUE,
                              !.status = IF old.status = "OPEN" THEN "SENT" ELSE old.status]
<1>1. /\ invoices' = [invoices EXCEPT ![i] = row]
      /\ UNCHANGED <<payments, notes, ledger, intents, invalidating>>
  BY MoneyTypes DEF SendInvoice, besides
<1>2. /\ row.due = old.due /\ row.writtenOff = old.writtenOff
      /\ row.status \in Collectible <=> old.status \in Collectible
  BY InvoiceFields DEF Invoice, Collectible
<1> HIDE DEF row
<1>3. invoices'[i] = row /\ \A j \in Invoices \ {i} : invoices'[j] = invoices[j]
  BY <1>1, MoneyTypes
<1>4. \A j \in Invoices : /\ Owed(invoices', c, j) = Owed(invoices, c, j)
                          /\ invoices'[j].writtenOff = invoices[j].writtenOff
  BY <1>2, <1>3 DEF Owed, If
<1> QED BY <1>1, <1>4, QuietTells

LEMMA OverdueTells ==
  ASSUME MoneyInv, MoneyInv', BookInv, MarkOverdue, NEW c
  PROVE  Tells(c, {})
<1>1. UNCHANGED <<payments, notes, ledger, intents, invalidating>>
  BY DEF MarkOverdue, besides
<1>2. ASSUME NEW j \in Invoices
      PROVE  /\ Owed(invoices', c, j) = Owed(invoices, c, j)
             /\ invoices'[j].writtenOff = invoices[j].writtenOff
  <2>1. CASE OverdueCandidate(j)
    <3>1. /\ invoices'[j] = [invoices[j] EXCEPT !.status = "OVERDUE"]
          /\ invoices[j].status \in Collectible
      BY <2>1 DEF MarkOverdue, OverdueCandidate
    <3>2. /\ invoices'[j].status = "OVERDUE" /\ invoices'[j].due = invoices[j].due
          /\ invoices'[j].writtenOff = invoices[j].writtenOff
      BY <3>1, InvoiceFields DEF Invoice
    <3> QED BY <3>1, <3>2 DEF Owed, If, Collectible
  <2>2. CASE ~ OverdueCandidate(j)
    <3>1. invoices'[j] = invoices[j]
      BY <2>2 DEF MarkOverdue
    <3> QED BY <3>1 DEF Owed
  <2> QED BY <2>1, <2>2
<1> QED BY <1>1, <1>2, QuietTells

(* A void and a write-off take what was due out of the receivable.         *)
LEMMA ClosedOutstanding ==
  ASSUME MoneyInv, MoneyInv', NEW i \in Invoices, NEW row, invoices[i].status \in Collectible,
         invoices' = [invoices EXCEPT ![i] = row], row.status \notin Collectible, NEW c
  PROVE  /\ Outstanding(invoices', c)
              = Outstanding(invoices, c) + (0 - If(c = InvoiceCustomer[i], invoices[i].due))
         /\ invoices'[i] = row /\ \A j \in Invoices \ {i} : invoices'[j] = invoices[j]
         /\ invoices[i].due \in Nat /\ invoices[i].writtenOff \in Nat
<1>1. invoices'[i] = row /\ \A j \in Invoices \ {i} : invoices'[j] = invoices[j]
  BY MoneyTypes
<1>2. Outstanding(invoices', c)
        = Outstanding(invoices, c) + (Owed(invoices', c, i) - Owed(invoices, c, i))
  BY <1>1, OneOutstanding
<1>3. Owed(invoices', c, i) = 0 /\ Owed(invoices, c, i) = If(c = InvoiceCustomer[i], invoices[i].due)
  BY <1>1 DEF Owed, If
<1>4. invoices[i].due \in Nat /\ invoices[i].writtenOff \in Nat
  BY InvoiceFields DEF Invoice
<1> QED BY <1>1, <1>2, <1>3, <1>4

LEMMA VoidTells ==
  ASSUME MoneyInv, MoneyInv', BookInv, NEW i \in Invoices, VoidInvoice(i), NEW c,
         c = InvoiceCustomer[i] => Calm(c)
  PROVE  Tells(c, {InvoiceCustomer[i]})
<1> DEFINE d == InvoiceCustomer[i]
           old == invoices[i]
           row == [old EXCEPT !.status = "VOID", !.due = 0]
           o == 0 - If(c = d, old.due)
<1>1. /\ invoices' = [invoices EXCEPT ![i] = row] /\ old.status \in Collectible
      /\ ledger' = Recorded(ledger, Key("voided", i, 0), d, 0 - old.due)
      /\ UNCHANGED <<payments, notes, intents, invalidating>>
  BY MoneyTypes DEF VoidInvoice, besides, Credit
<1>2. /\ row.status = "VOID" /\ row.writtenOff = old.writtenOff /\ "VOID" \notin Collectible
      /\ row.status \notin Collectible
  BY InvoiceFields DEF Invoice, Collectible
<1> HIDE DEF row
<1>3. /\ Outstanding(invoices', c) = Outstanding(invoices, c) + o
      /\ invoices'[i] = row /\ (\A j \in Invoices \ {i} : invoices'[j] = invoices[j])
      /\ old.due \in Nat
  BY <1>1, <1>2, ClosedOutstanding
<1>4. ASSUME c = d PROVE ~ HasKey(ledger, Key("voided", i, 0))
  <2>1. i \notin rewritten
    BY <1>4 DEF Calm
  <2>2. ~ Explained(Key("voided", i, 0), invoices, payments, notes, rewritten, invalidating)
    BY <1>1, <1>2, <2>1, KeyParts DEF Explained, Dead
  <2> QED BY <2>2, Unexplained
<1>5. /\ \A j \in Invoices : invoices'[j].writtenOff = invoices[j].writtenOff
      /\ "voided" \notin GapKinds
  BY <1>2, <1>3 DEF GapKinds
<1>6. /\ o \in Int /\ 0 - old.due \in Int /\ If(c = d, 0 - old.due) = o - 0
      /\ c # d => o = 0 /\ 0 = 0
  BY <1>3 DEF If
<1>7. UnusedCredits(payments', notes', c) = UnusedCredits(payments, notes, c) + 0
  BY <1>1, SameCredits
<1> HIDE DEF o, d, old
<1>8. Enters(c, d, "voided", i, 0, 0 - old.due, o, 0)
  BY <1>1, <1>3, <1>4, <1>5, <1>6, <1>7 DEF Enters
<1>9. Tells(c, {d})
  BY <1>1, <1>8, EnteredTells
<1> QED BY <1>9 DEF d

(* The first write-off of an invoice is entered, the key of the first one  *)
(* swallows the entry of a second.                                         *)
LEMMA WriteOffTells ==
  ASSUME MoneyInv, MoneyInv', BookInv, NEW i \in Invoices, WriteOffInvoice(i), NEW c
  PROVE  Tells(c, {InvoiceCustomer[i]})
<1> DEFINE d == InvoiceCustomer[i]
           old == invoices[i]
           key == Key("write-off", i, 0)
           row == [old EXCEPT !.status = "UNCOLLECTIBLE", !.due = 0, !.paidAt = FALSE,
                              !.writtenOff = old.writtenOff + old.due]
           o == 0 - If(c = d, old.due)
<1>1. /\ invoices' = [invoices EXCEPT ![i] = row] /\ old.status \in Collectible
      /\ ledger' = Recorded(ledger, key, d, 0 - old.due)
      /\ UNCHANGED <<payments, notes, intents, invalidating>> /\ old.due > 0
  BY MoneyTypes DEF WriteOffInvoice, besides, Credit
<1>2. /\ row.status = "UNCOLLECTIBLE" /\ row.writtenOff = old.writtenOff + old.due
      /\ row.status \notin Collectible
  BY InvoiceFields DEF Invoice, Collectible
<1> HIDE DEF row
<1>3. /\ Outstanding(invoices', c) = Outstanding(invoices, c) + o
      /\ invoices'[i] = row /\ \A j \in Invoices \ {i} : invoices'[j] = invoices[j]
      /\ old.due \in Nat /\ old.writtenOff \in Nat
  BY <1>1, <1>2, ClosedOutstanding
<1>4. /\ UnusedCredits(payments', notes', c) = UnusedCredits(payments, notes, c) + 0
      /\ Brought(intents', c) = Brought(intents, c) + 0
  BY <1>1, SameCredits, SumsInt
<1>5. /\ ledger \subseteq LedgerEntry /\ IsFiniteSet(ledger)
      /\ invoices \in [Invoices -> Invoice]
      /\ \A j \in Invoices : Struck(invalidating[j]) \in Nat
  BY InvoiceFields, MoneyTypes DEF MoneyInv, BooksTyped, BookInv, SoundRow
<1>6. o \in Int /\ 0 \in Int /\ (c # d => o = 0)
  BY <1>3 DEF If
<1>7. CASE ~ HasKey(ledger, key)
  <2>1. /\ Balance(ledger', c) = Balance(ledger, c) + If(c = d, 0 - old.due)
        /\ ledger \subseteq ledger' /\ \A e \in ledger' : e \in ledger \/ e.key = key
    <3> DEFINE b == 0 - old.due
    <3>1. b \in Int /\ ledger' = Recorded(ledger, key, d, b)
      BY <1>1, <1>3
    <3> HIDE DEF key, d, b
    <3>2. /\ Balance(ledger', c) = Balance(ledger, c) + If(c = d, b)
          /\ ledger \subseteq ledger' /\ \A e \in ledger' : e \in ledger \/ e.key = key
      BY <1>7, <3>1, NewEntry
    <3> QED BY <3>2 DEF b
  <2>2. If(c = d, 0 - old.due) = o
    BY <1>3 DEF If
  <2>3. old.writtenOff = 0
    BY <1>7, NeverWrittenOff
  <2>4. /\ EnteredIn(ledger, "write-off", i) = 0
        /\ EnteredIn(ledger', "write-off", i) = 0 - old.due
    <3>1. 0 - old.due \in Int
      BY <1>3
    <3> QED BY <1>1, <1>7, <3>1, EnteredFirst
  <2>5. ASSUME NEW j \in Invoices
        PROVE  Gap(ledger', invoices'[j], invalidating'[j], j)
                 = Gap(ledger, invoices[j], invalidating[j], j)
    <3>1. EnteredIn(ledger', "advance-invalidated", j) = EnteredIn(ledger, "advance-invalidated", j)
      <4>1. Key("advance-invalidated", j, 0) # key
        BY KeyParts
      <4> QED BY <2>1, <4>1, EnteredAlike
    <3>2. CASE j = i
      <4>1. invoices'[j].writtenOff + EnteredIn(ledger', "write-off", j)
              = invoices[j].writtenOff + EnteredIn(ledger, "write-off", j)
        BY <1>2, <1>3, <2>3, <2>4, <3>2
      <4> QED BY <1>1, <3>1, <4>1 DEF Gap
    <3>3. CASE j # i
      <4>1. Key("write-off", j, 0) # key
        BY <3>3, KeyParts
      <4>2. EnteredIn(ledger', "write-off", j) = EnteredIn(ledger, "write-off", j)
        BY <2>1, <4>1, EnteredAlike
      <4> QED BY <1>1, <1>3, <3>1, <3>3, <4>2 DEF Gap
    <3> QED BY <3>2, <3>3
  <2>6. Swallowed(ledger', invoices', invalidating', c) = Swallowed(ledger, invoices, invalidating, c) + 0
    <3>1. Swallowed(ledger', invoices', invalidating', c) = Swallowed(ledger, invoices, invalidating, c)
      BY <2>5, SwallowedAlike
    <3> QED BY <3>1, SumsInt
  <2>7. Moves(c, o, 0, o, 0, 0) /\ o = o - 0 + 0 + 0
    BY <1>3, <1>4, <1>6, <2>1, <2>2, <2>6 DEF Moves
  <2> HIDE DEF o
  <2> QED BY <1>6, <2>7 DEF Tells
<1>8. CASE HasKey(ledger, key)
  <2> DEFINE w == If(c = d, old.due)
  <2>1. ledger' = ledger
    BY <1>1, <1>8 DEF Recorded, HasKey
  <2>2. Balance(ledger', c) = Balance(ledger, c) + 0
    BY <2>1, SumsInt
  <2>3. Swallowed(ledger', invoices', invalidating', c) = Swallowed(ledger, invoices, invalidating, c) + w
    <3>1. Gap(ledger, invoices[i], invalidating[i], i) \in Int
      BY <1>5, GapInt
    <3>2. EnteredIn(ledger, "write-off", i) \in Int /\ EnteredIn(ledger, "advance-invalidated", i) \in Int
      BY <1>5, EnteredInt
    <3>3. Gap(ledger', invoices'[i], invalidating'[i], i)
            = Gap(ledger, invoices[i], invalidating[i], i) + old.due
      BY <1>1, <1>2, <1>3, <1>5, <2>1, <3>2 DEF Gap
    <3>4. \A j \in Invoices \ {i} : Gap(ledger', invoices'[j], invalidating'[j], j)
                                    = Gap(ledger, invoices[j], invalidating[j], j)
      BY <1>1, <1>3, <2>1
    <3>5. old.due \in Int
      BY <1>3
    <3> HIDE DEF old
    <3> QED BY <1>5, <3>3, <3>4, <3>5, SwallowedMore DEF d
  <2>4. w \in Int /\ 0 = o - 0 + 0 + w
    BY <1>3 DEF If
  <2>5. Moves(c, o, 0, 0, 0, w)
    BY <1>3, <1>4, <2>2, <2>3 DEF Moves
  <2> HIDE DEF o, w
  <2> QED BY <1>6, <2>4, <2>5 DEF Tells
<1> QED BY <1>7, <1>8

(* The keys that a payment or a note writes are new.                       *)
LEMMA NewPaymentKeys ==
  ASSUME MoneyInv, BookInv, NEW p \in Payments
  PROVE  /\ ~ HasKey(ledger, Key("reversed", p, payments[p].revision))
         /\ ~ HasKey(ledger, Key("received", p, payments[p].revision + 1))
         /\ \A amount \in Amounts : ~ HasKey(ledger, Key("refund", p, payments[p].refunded + amount))
         /\ payments[p].status = "absent" => ~ HasKey(ledger, Key("received", p, 0))
<1>1. payments[p].revision \in Nat /\ payments[p].refunded \in Nat
  BY MoneyTypes DEF Payment
<1>2. /\ ~ Explained(Key("reversed", p, payments[p].revision), invoices, payments, notes, rewritten, invalidating)
      /\ ~ Explained(Key("received", p, payments[p].revision + 1), invoices, payments, notes, rewritten, invalidating)
      /\ payments[p].status = "absent" =>
           ~ Explained(Key("received", p, 0), invoices, payments, notes, rewritten, invalidating)
  BY <1>1, KeyParts DEF Explained
<1>3. ASSUME NEW amount \in Amounts
      PROVE  ~ HasKey(ledger, Key("refund", p, payments[p].refunded + amount))
  <2>1. ~ (payments[p].refunded + amount <= payments[p].refunded)
    BY <1>1, ReceivablesAssumption
  <2>2. ~ Explained(Key("refund", p, payments[p].refunded + amount), invoices, payments, notes, rewritten, invalidating)
    BY <2>1, KeyParts DEF Explained
  <2> QED BY <2>2, Unexplained
<1> QED BY <1>2, <1>3, Unexplained

LEMMA NewNoteKeys ==
  ASSUME MoneyInv, BookInv, NEW n \in CreditNotes
  PROVE  /\ notes[n].status = "absent" => ~ HasKey(ledger, Key("issued", n, 0))
         /\ notes[n].status # "VOID" => ~ HasKey(ledger, Key("voided", n, 0))
         /\ \A amount \in Amounts : ~ HasKey(ledger, Key("refund", n, notes[n].refunded + amount))
<1>1. notes[n].refunded \in Nat
  BY MoneyTypes DEF CreditNote
<1>2. /\ notes[n].status = "absent" =>
           ~ Explained(Key("issued", n, 0), invoices, payments, notes, rewritten, invalidating)
      /\ notes[n].status # "VOID" =>
           ~ Explained(Key("voided", n, 0), invoices, payments, notes, rewritten, invalidating)
  BY KeyParts DEF Explained
<1>3. ASSUME NEW amount \in Amounts
      PROVE  ~ HasKey(ledger, Key("refund", n, notes[n].refunded + amount))
  <2>1. ~ (notes[n].refunded + amount <= notes[n].refunded)
    BY <1>1, ReceivablesAssumption
  <2>2. ~ Explained(Key("refund", n, notes[n].refunded + amount), invoices, payments, notes, rewritten, invalidating)
    BY <2>1, KeyParts DEF Explained
  <2> QED BY <2>2, Unexplained
<1> QED BY <1>2, <1>3, Unexplained

LEMMA PaymentFields ==
  ASSUME MoneyInv, NEW p \in Payments
  PROVE  /\ p \in Sources /\ payments[p] \in Payment /\ payments[p].revision \in Nat
         /\ payments[p].refunded \in Nat /\ payments[p].amount \in Nat
         /\ payments[p].unapplied \in Nat
BY MoneyTypes DEF Payment

LEMMA CreateTells ==
  ASSUME MoneyInv, MoneyInv', BookInv, NEW p \in Payments, NEW d \in Customers,
         NEW amount \in Amounts, NEW alloc \in Allocations, CreatePayment(p, d, amount, alloc),
         NEW c
  PROVE  Tells(c, {d})
<1> DEFINE S == SumFunction(alloc)
           pay == [status |-> "SUCCEEDED", customer |-> d, amount |-> amount,
                   unapplied |-> amount - S, refunded |-> 0, revision |-> 0]
           o == 0 - If(c = d, S)
           u == If(c = d, amount - S)
<1>1. /\ payments[p].status = "absent" /\ payments' = [payments EXCEPT ![p] = pay]
      /\ ledger' = Recorded(ledger, Key("received", p, 0), d, 0 - amount)
      /\ LoadTargets(invoices, d, alloc) /\ invoices' = InvoicesAfter(invoices, p, alloc)
      /\ UNCHANGED <<notes, intents, invalidating>>
  BY DEF CreatePayment, besides, Credit
<1>2. pay.customer = d /\ pay.unapplied = amount - S
  OBVIOUS
<1> HIDE DEF pay
<1>3. /\ Outstanding(invoices', c) = Outstanding(invoices, c) + o
      /\ \A i \in Invoices : invoices'[i].writtenOff = invoices[i].writtenOff
      /\ S \in Nat /\ amount \in Nat
  BY <1>1, PaymentFields, AllocationMoves, AmountNat
<1>4. /\ Credited(c, d, amount - S, payments[p].customer, payments[p].unapplied)
      /\ SoundPayment(payments[p], Taken(applied[p]))
  BY <1>1, <1>2, PaymentMoves
<1>5. If(c = payments[p].customer, payments[p].unapplied) = 0
  BY <1>1, <1>4 DEF SoundPayment, If
<1>6. UnusedCredits(payments', notes', c) = UnusedCredits(payments, notes, c) + u
  <2>1. u \in Int
    BY <1>3 DEF If
  <2>2. u - 0 = u
    BY <2>1
  <2> QED BY <1>4, <1>5, <2>2 DEF Credited
<1>7. /\ o \in Int /\ u \in Int /\ 0 - amount \in Int /\ If(c = d, 0 - amount) = o - u
      /\ c # d => o = 0 /\ u = 0
  BY <1>3 DEF If
<1>8. ~ HasKey(ledger, Key("received", p, 0)) /\ "received" \notin GapKinds
  BY <1>1, NewPaymentKeys DEF GapKinds
<1> HIDE DEF o, u, S
<1>9. Enters(c, d, "received", p, 0, 0 - amount, o, u)
  BY <1>1, <1>3, <1>6, <1>7, <1>8 DEF Enters
<1> QED BY <1>1, <1>9, EnteredTells

(* A confirmed intent brings in what no entry records.                     *)
LEMMA ConfirmTells ==
  ASSUME MoneyInv, MoneyInv', BookInv, NEW p \in Payments, NEW d \in Customers,
         NEW amount \in Amounts, ConfirmIntent(p, d, amount), NEW c
  PROVE  Tells(c, {d})
<1> DEFINE pay == [status |-> "SUCCEEDED", customer |-> d, amount |-> amount,
                   unapplied |-> amount, refunded |-> 0, revision |-> 0]
           x == [payment |-> p, customer |-> d, amount |-> amount]
           u == If(c = d, amount)
<1>1. /\ payments[p].status = "absent" /\ payments' = [payments EXCEPT ![p] = pay]
      /\ intents' = intents \cup {x} /\ UNCHANGED <<invoices, notes, ledger, invalidating>>
  BY DEF ConfirmIntent
<1>2. /\ pay.customer = d /\ pay.unapplied = amount /\ amount \in Nat
      /\ x.payment = p /\ x.customer = d /\ x.amount = amount
  BY AmountNat
<1> HIDE DEF pay, x
<1>3. /\ Credited(c, d, amount, payments[p].customer, payments[p].unapplied)
      /\ SoundPayment(payments[p], Taken(applied[p]))
  BY <1>1, <1>2, PaymentMoves
<1>4. If(c = payments[p].customer, payments[p].unapplied) = 0
  BY <1>1, <1>3 DEF SoundPayment, If
<1>5. u \in Int /\ (c # d => u = 0)
  BY <1>2 DEF If
<1>6. UnusedCredits(payments', notes', c) = UnusedCredits(payments, notes, c) + u
  <2>1. u - 0 = u
    BY <1>5
  <2> QED BY <1>3, <1>4, <2>1 DEF Credited
<1>7. Brought(intents', c) = Brought(intents, c) + u
  <2>1. x \notin intents
    BY <1>1, <1>2 DEF BookInv
  <2>2. IsFiniteSet(intents) /\ intents \subseteq Intent /\ x.amount \in Int
    BY <1>2 DEF BookInv, MoneyInv, BooksTyped
  <2>3. Brought(intents', c) = Brought(intents, c) + If(x.customer = c, x.amount)
    BY <1>1, <2>1, <2>2, BroughtMore
  <2> QED BY <1>2, <2>3 DEF If
<1>8. /\ Outstanding(invoices', c) = Outstanding(invoices, c) + 0
      /\ Balance(ledger', c) = Balance(ledger, c) + 0
      /\ Swallowed(ledger', invoices', invalidating', c) = Swallowed(ledger, invoices, invalidating, c) + 0
  BY <1>1, SumsInt
<1> HIDE DEF u
<1>9. Moves(c, 0, u, 0, u, 0) /\ 0 = 0 - u + u + 0
  BY <1>5, <1>6, <1>7, <1>8 DEF Moves
<1> QED BY <1>5, <1>9 DEF Tells

LEMMA ApplyTells ==
  ASSUME MoneyInv, MoneyInv', BookInv, NEW p \in Payments, NEW alloc \in Allocations,
         ApplyPayment(p, alloc), NEW c
  PROVE  Tells(c, {payments[p].customer})
<1> DEFINE old == payments[p]
           d == old.customer
           S == SumFunction(alloc)
           pay == [old EXCEPT !.unapplied = old.unapplied - S]
           o == 0 - If(c = d, S)
<1>1. /\ payments' = [payments EXCEPT ![p] = pay] /\ LoadTargets(invoices, d, alloc)
      /\ invoices' = InvoicesAfter(invoices, p, alloc) /\ UNCHANGED <<notes, ledger, intents, invalidating>>
  BY MoneyTypes DEF ApplyPayment, besides
<1>2. pay.customer = d /\ pay.unapplied = old.unapplied - S
  BY PaymentFields DEF Payment
<1> HIDE DEF pay
<1>3. /\ Outstanding(invoices', c) = Outstanding(invoices, c) + o
      /\ \A i \in Invoices : invoices'[i].writtenOff = invoices[i].writtenOff
      /\ S \in Nat
  <2> HIDE DEF d
  <2> QED BY <1>1, PaymentFields, AllocationMoves
<1>4. /\ Credited(c, d, old.unapplied - S, d, old.unapplied)
      /\ old.unapplied \in Nat
  BY <1>1, <1>2, PaymentMoves
<1>5. If(c = d, old.unapplied - S) - If(c = d, old.unapplied) = o
  <2> HIDE DEF d
  <2> QED BY <1>3, <1>4 DEF If
<1>6. o \in Int /\ (c # d => o = 0)
  BY <1>3 DEF If
<1> HIDE DEF o, d
<1>7. Shifts(c, d, o)
  BY <1>3, <1>4, <1>5, <1>6 DEF Shifts, Credited
<1>8. Tells(c, {d})
  BY <1>1, <1>7, ShiftTells
<1> QED BY <1>8 DEF d

LEMMA CorrectableFacts ==
  ASSUME MoneyInv, NEW p \in Payments, Correctable(p)
  PROVE  /\ payments[p].amount = payments[p].unapplied + Taken(applied[p])
         /\ Taken(applied[p]) \in Nat /\ Owner(payments, p) = payments[p].customer
         /\ p \in Sources
<1>1. /\ p \in Sources /\ SoundPayment(payments[p], Taken(applied[p]))
      /\ Taken(applied[p]) \in Nat
  BY MoneyTypes, TakenNat DEF MoneyInv, SourcesSound
<1> QED BY <1>1, PaymentFields DEF Correctable, SoundPayment, Owner

LEMMA CancelTells ==
  ASSUME MoneyInv, MoneyInv', BookInv, CustomersMatch, NEW p \in Payments, CancelPayment(p),
         NEW c, c = payments[p].customer => Calm(c)
  PROVE  Tells(c, {payments[p].customer})
<1> DEFINE old == payments[p]
           d == old.customer
           T == Taken(applied[p])
           pay == [old EXCEPT !.status = "CANCELED", !.unapplied = 0,
                              !.revision = old.revision + 1]
           o == If(c = d, T)
           u == 0 - If(c = d, old.unapplied)
<1>1. /\ payments' = [payments EXCEPT ![p] = pay] /\ Correctable(p)
      /\ Storable(invoices, applied[p], p)
      /\ ledger' = Recorded(ledger, Key("reversed", p, old.revision), d, old.amount)
      /\ UNCHANGED <<notes, intents, invalidating>>
  BY MoneyTypes DEF CancelPayment, besides, Debit
<1>2. TakenBack(p, invoices')
  BY DEF TakenBack, CancelPayment
<1>3. /\ pay.customer = d /\ pay.unapplied = 0 /\ old.unapplied \in Nat /\ old.amount \in Nat
  BY PaymentFields DEF Payment
<1> HIDE DEF pay
<1>4. old.amount = old.unapplied + T /\ T \in Nat /\ Owner(payments, p) = d /\ p \in Sources
  BY <1>1, CorrectableFacts
<1>5. /\ Outstanding(invoices', c) = Outstanding(invoices, c) + o
      /\ \A i \in Invoices : invoices'[i].writtenOff = invoices[i].writtenOff
  <2>1. GivesBack(p, invoices', d, c)
    BY <1>2, <1>4, ReversalMoves
  <2> QED BY <2>1 DEF GivesBack, SameStanding
<1>6. Credited(c, d, 0, d, old.unapplied)
  BY <1>1, <1>3, PaymentMoves
<1>7. If(c = d, 0) - If(c = d, old.unapplied) = u
  <2> HIDE DEF d
  <2> QED BY <1>3 DEF If
<1>8. /\ o \in Int /\ u \in Int /\ old.amount \in Int /\ If(c = d, old.amount) = o - u
      /\ c # d => o = 0 /\ u = 0
  <2> HIDE DEF d, T
  <2> QED BY <1>3, <1>4 DEF If
<1>9. ~ HasKey(ledger, Key("reversed", p, old.revision)) /\ "reversed" \notin GapKinds
  BY NewPaymentKeys DEF GapKinds
<1> HIDE DEF o, u, d
<1>10. Enters(c, d, "reversed", p, old.revision, old.amount, o, u)
  BY <1>1, <1>5, <1>6, <1>7, <1>8, <1>9 DEF Enters, Credited
<1>11. Tells(c, {d})
  BY <1>1, <1>10, EnteredTells
<1> QED BY <1>11 DEF d

(* A correction reverses the payment for one customer and receives it for  *)
(* another, or for the same.                                               *)
LEMMA UpdateTells ==
  ASSUME MoneyInv, MoneyInv', BookInv, CustomersMatch, NEW p \in Payments,
         NEW d \in Customers, NEW amount \in Amounts, NEW alloc \in Allocations,
         UpdatePayment(p, d, amount, alloc),
         NEW c, c \in {payments[p].customer, d} => Calm(c)
  PROVE  Tells(c, {payments[p].customer, d})
<1> DEFINE old == payments[p]
           e == old.customer
           T == Taken(applied[p])
           S == SumFunction(alloc)
           pay == [old EXCEPT !.customer = d, !.amount = amount, !.unapplied = amount - S,
                              !.revision = old.revision + 1]
           gone == Key("reversed", p, old.revision)
           again == Key("received", p, old.revision + 1)
           mid == Recorded(ledger, gone, e, old.amount)
           less == 0 - amount
           o == If(c = e, T) - If(c = d, S)
           u == If(c = d, amount - S) - If(c = e, old.unapplied)
           b == If(c = e, old.amount) + If(c = d, less)
<1>1. /\ payments' = [payments EXCEPT ![p] = pay] /\ Correctable(p)
      /\ Storable(invoices, applied[p], p)
      /\ ledger' = Recorded(mid, again, d, less)
      /\ UNCHANGED <<notes, intents, invalidating>>
  BY DEF UpdatePayment, besides, Debit, Credit
<1>2. PICK last \in Restorations(applied[p]) :
        LET back == InvoicesRestored(invoices, p, applied[p], last)
        IN  LoadTargets(back, d, alloc) /\ invoices' = InvoicesAfter(back, p, alloc)
  BY DEF UpdatePayment
<1> DEFINE back == InvoicesRestored(invoices, p, applied[p], last)
<1>3. /\ pay.customer = d /\ pay.unapplied = amount - S /\ old.unapplied \in Nat
      /\ old.amount \in Nat
  BY PaymentFields DEF Payment
<1> HIDE DEF pay
<1>4. /\ old.amount = old.unapplied + T /\ T \in Nat /\ Owner(payments, p) = e /\ p \in Sources
      /\ S \in Nat /\ amount \in Nat /\ less \in Int
  BY <1>1, CorrectableFacts, AllocAmounts, AmountNat
<1>5. LoadTargets(back, d, alloc) /\ invoices' = InvoicesAfter(back, p, alloc)
  BY <1>2
<1>6. /\ Outstanding(back, c) = Outstanding(invoices, c) + If(c = e, T)
      /\ \A i \in Invoices :
           SameStanding(invoices[i], back[i], i \in rewritten, invalidating[i])
  <2>1. TakenBack(p, back)
    BY <1>1 DEF TakenBack
  <2>2. GivesBack(p, back, e, c)
    <3> HIDE DEF back
    <3> QED BY <1>4, <2>1, ReversalMoves
  <2> QED BY <2>2 DEF GivesBack
<1>7. Sound(back, rewritten, invalidating)
  BY <1>1, <1>4, MoneyTypes, ReversalSound DEF MoneyInv, SettlementInv, InvoiceInv
<1> HIDE DEF back
<1>8. Outstanding(invoices', c) = Outstanding(back, c) - If(c = d, S)
  BY <1>4, <1>5, <1>7, AllocationOutstanding
<1>9. \A i \in Invoices : invoices'[i].writtenOff = invoices[i].writtenOff
  <2>1. \A i \in Invoices :
          SameStanding(back[i], invoices'[i], i \in rewritten, invalidating[i])
    BY <1>4, <1>5, <1>7, AfterStanding
  <2> QED BY <1>6, <2>1 DEF SameStanding
<1>10. Outstanding(invoices', c) = Outstanding(invoices, c) + o
  <2>1. Outstanding(invoices, c) \in Int /\ If(c = e, T) \in Int /\ If(c = d, S) \in Int
    BY <1>4, SumsInt DEF If
  <2> HIDE DEF e, T, S
  <2> QED BY <1>6, <1>8, <2>1
<1>11. Credited(c, d, amount - S, e, old.unapplied)
  BY <1>1, <1>3, PaymentMoves
<1>12. /\ Balance(ledger', c) = Balance(ledger, c) + b
       /\ ledger \subseteq ledger' /\ \A x \in ledger' : x \in ledger \/ x.key \in {gone, again}
  <2>1. ~ HasKey(ledger, gone) /\ ~ HasKey(ledger, again) /\ gone # again
    BY NewPaymentKeys, KeyParts
  <2>2. /\ IsFiniteSet(ledger) /\ ledger \subseteq LedgerEntry /\ old.amount \in Int
        /\ Balance(ledger, c) \in Int
    BY <1>3, SumsInt DEF BookInv, MoneyInv, BooksTyped
  <2>3. /\ ledger \subseteq mid /\ IsFiniteSet(mid) /\ \A x \in mid : x \in ledger \/ x.key = gone
    BY <2>2, RecordedKeys
  <2>4. Balance(mid, c) = Balance(ledger, c) + If(c = e, old.amount)
    BY <2>1, <2>2, BalanceRecorded
  <2>5. mid \subseteq LedgerEntry
    <3>1. e \in Customers
      BY <1>1 DEF MoneyInv, SourcesSound, SoundPayment, Correctable
    <3>2. gone \in LedgerKey
      BY PaymentFields DEF Key, LedgerKey
    <3> QED BY <2>2, <3>1, <3>2 DEF Recorded, LedgerEntry
  <2>6. ~ HasKey(mid, again)
    BY <2>1, <2>3 DEF HasKey
  <2> HIDE DEF mid, gone, again, less
  <2>7. Balance(ledger', c) = Balance(mid, c) + If(c = d, less)
    BY <1>1, <1>4, <2>3, <2>5, <2>6, BalanceRecorded
  <2>8. mid \subseteq ledger' /\ \A x \in ledger' : x \in mid \/ x.key = again
    BY <1>1, <1>4, <2>3, RecordedKeys
  <2>9. If(c = e, old.amount) \in Int /\ If(c = d, less) \in Int
    BY <1>4, <2>2 DEF If
  <2>10. Balance(ledger', c) = Balance(ledger, c) + b
    <3> HIDE DEF e
    <3> QED BY <2>2, <2>4, <2>7, <2>9
  <2> QED BY <2>3, <2>8, <2>10
<1>13. NoGap(c)
  <2>1. gone.kind = "reversed" /\ again.kind = "received"
    BY KeyParts
  <2> HIDE DEF gone, again
  <2>2. \A x \in ledger' : x \in ledger \/ x.key.kind \notin GapKinds
    BY <1>12, <2>1 DEF GapKinds
  <2> QED BY <1>1, <1>9, <1>12, <2>2 DEF NoGap
<1>14. /\ o \in Int /\ u \in Int /\ b \in Int /\ b = o - u
       /\ c \notin {e, d} => o = 0 /\ u = 0
  <2>1. less = 0 - amount
    OBVIOUS
  <2> HIDE DEF e, T, S, old, less
  <2>2. CASE c = e /\ c = d
    <3>1. o = T - S /\ u = (amount - S) - old.unapplied /\ b = old.amount + less
      BY <2>2 DEF If
    <3> HIDE DEF o, u, b
    <3> QED BY <1>3, <1>4, <2>1, <2>2, <3>1
  <2>3. CASE c = e /\ c # d
    <3>1. o = T - 0 /\ u = 0 - old.unapplied /\ b = old.amount + 0
      BY <2>3 DEF If
    <3> HIDE DEF o, u, b
    <3> QED BY <1>3, <1>4, <2>3, <3>1
  <2>4. CASE c # e /\ c = d
    <3>1. o = 0 - S /\ u = (amount - S) - 0 /\ b = 0 + less
      BY <2>4 DEF If
    <3> HIDE DEF o, u, b
    <3> QED BY <1>3, <1>4, <2>1, <2>4, <3>1
  <2>5. CASE c # e /\ c # d
    <3>1. o = 0 - 0 /\ u = 0 - 0 /\ b = 0 + 0
      BY <2>5 DEF If
    <3> HIDE DEF o, u, b
    <3> QED BY <3>1
  <2> QED BY <2>2, <2>3, <2>4, <2>5
<1>15. UnusedCredits(payments', notes', c) = UnusedCredits(payments, notes, c) + u
  BY <1>11 DEF Credited
<1> HIDE DEF o, u, b, e
<1>16. Plainly(c, o, u, b)
  BY <1>10, <1>12, <1>13, <1>14, <1>15 DEF Plainly
<1>17. Tells(c, {e, d})
  BY <1>1, <1>14, <1>16, PlainTells
<1> QED BY <1>17 DEF e

LEMMA RefundTells ==
  ASSUME MoneyInv, MoneyInv', BookInv, NEW p \in Payments, NEW amount \in Amounts,
         RefundPayment(p, amount), NEW c
  PROVE  Tells(c, {payments[p].customer})
<1> DEFINE old == payments[p]
           d == old.customer
           refunded == old.refunded + amount
           pay == [old EXCEPT !.unapplied = old.unapplied - amount, !.refunded = refunded,
                              !.status = IF refunded = old.amount
                                         THEN "REFUNDED" ELSE "PARTIALLY_REFUNDED"]
           u == 0 - If(c = d, amount)
<1>1. /\ payments' = [payments EXCEPT ![p] = pay]
      /\ ledger' = Recorded(ledger, Key("refund", p, refunded), d, amount)
      /\ UNCHANGED <<invoices, notes, intents, invalidating>>
  BY DEF RefundPayment, besides, Debit
<1>2. /\ pay.customer = d /\ pay.unapplied = old.unapplied - amount
      /\ old.unapplied \in Nat /\ amount \in Int
  BY PaymentFields, AmountNat DEF Payment
<1> HIDE DEF pay
<1>3. Credited(c, d, old.unapplied - amount, d, old.unapplied)
  BY <1>1, <1>2, PaymentMoves
<1>4. If(c = d, old.unapplied - amount) - If(c = d, old.unapplied) = u
  <2> HIDE DEF d
  <2> QED BY <1>2 DEF If
<1>5. /\ u \in Int /\ If(c = d, amount) = 0 - u /\ (c # d => u = 0) /\ 0 \in Int
  <2>1. If(c = d, amount) \in Int /\ (c # d => If(c = d, amount) = 0)
    BY <1>2 DEF If
  <2> QED BY <2>1
<1>6. ~ HasKey(ledger, Key("refund", p, refunded)) /\ "refund" \notin GapKinds
  BY NewPaymentKeys DEF GapKinds
<1>7. /\ Outstanding(invoices', c) = Outstanding(invoices, c) + 0
      /\ \A i \in Invoices : invoices'[i].writtenOff = invoices[i].writtenOff
  BY <1>1, SumsInt
<1> HIDE DEF u, d, refunded
<1>8. Enters(c, d, "refund", p, refunded, amount, 0, u)
  BY <1>1, <1>2, <1>3, <1>4, <1>5, <1>6, <1>7 DEF Enters, Credited
<1>9. Tells(c, {d})
  BY <1>1, <1>8, EnteredTells
<1> QED BY <1>9 DEF d

-----------------------------------------------------------------------------
(* Credit notes *)

LEMMA NoteFields ==
  ASSUME MoneyInv, NEW n \in CreditNotes
  PROVE  /\ n \in Sources /\ n \notin Payments /\ notes[n] \in CreditNote
         /\ notes[n].total \in Nat /\ notes[n].balance \in Nat /\ notes[n].refunded \in Nat
         /\ Owner(payments, n) = NoteCustomer[n]
BY MoneyTypes DEF CreditNote, Owner

LEMMA IssueTells ==
  ASSUME MoneyInv, MoneyInv', BookInv, NEW n \in CreditNotes, CommitIssue(n), NEW c
  PROVE  Tells(c, {NoteCustomer[n]})
<1> DEFINE d == NoteCustomer[n]
           total == issuing[n].total
           note == [status |-> "OPEN", total |-> total, balance |-> total, refunded |-> 0]
           u == If(c = d, total)
<1>1. /\ notes' = [notes EXCEPT ![n] = note] /\ notes[n].status = "absent" /\ total \in Nat
      /\ ledger' = Recorded(ledger, Key("issued", n, 0), d, 0 - total)
      /\ UNCHANGED <<invoices, payments, intents, invalidating>>
  BY DEF CommitIssue, Credit, MoneyInv, BooksTyped
<1>2. note.balance = total
  OBVIOUS
<1> HIDE DEF note, total
<1>3. Credited(c, d, total, d, notes[n].balance)
  BY <1>1, <1>2, NoteMoves
<1>4. notes[n].balance = 0
  BY <1>1, NoteFacts DEF SoundNote
<1>5. /\ u \in Int /\ 0 - total \in Int /\ If(c = d, 0 - total) = 0 - u
      /\ (c # d => u = 0) /\ 0 \in Int
  <2> HIDE DEF d
  <2> QED BY <1>1 DEF If
<1>6. If(c = d, total) - If(c = d, notes[n].balance) = u
  <2>1. If(c = d, notes[n].balance) = 0
    BY <1>4 DEF If
  <2> HIDE DEF d
  <2> QED BY <1>5, <2>1
<1>7. ~ HasKey(ledger, Key("issued", n, 0)) /\ "issued" \notin GapKinds
  BY <1>1, NewNoteKeys DEF GapKinds
<1>8. /\ Outstanding(invoices', c) = Outstanding(invoices, c) + 0
      /\ \A i \in Invoices : invoices'[i].writtenOff = invoices[i].writtenOff
  BY <1>1, SumsInt
<1> HIDE DEF u, d
<1>9. Enters(c, d, "issued", n, 0, 0 - total, 0, u)
  BY <1>1, <1>3, <1>5, <1>6, <1>7, <1>8 DEF Enters, Credited
<1>10. Tells(c, {d})
  BY <1>1, <1>9, EnteredTells
<1> QED BY <1>10 DEF d

LEMMA ApplyNoteTells ==
  ASSUME MoneyInv, MoneyInv', BookInv, NEW n \in CreditNotes, NEW alloc \in Allocations,
         ApplyCreditNote(n, alloc), NEW c
  PROVE  Tells(c, {NoteCustomer[n]})
<1> DEFINE d == NoteCustomer[n]
           S == SumFunction(alloc)
           note == Drawn(notes[n], S)
           o == 0 - If(c = d, S)
<1>1. /\ notes' = [notes EXCEPT ![n] = note] /\ LoadTargets(invoices, d, alloc)
      /\ invoices' = InvoicesAfter(invoices, n, alloc)
      /\ UNCHANGED <<payments, ledger, intents, invalidating>>
  BY DEF ApplyCreditNote, besides
<1>2. note.balance = notes[n].balance - S /\ notes[n].balance \in Nat
  BY NoteFields DEF Drawn, CreditNote
<1> HIDE DEF note
<1>3. /\ Outstanding(invoices', c) = Outstanding(invoices, c) + o
      /\ \A i \in Invoices : invoices'[i].writtenOff = invoices[i].writtenOff
      /\ S \in Nat
  <2> HIDE DEF d
  <2> QED BY <1>1, NoteFields, AllocationMoves
<1>4. Credited(c, d, notes[n].balance - S, d, notes[n].balance)
  BY <1>1, <1>2, NoteMoves
<1>5. If(c = d, notes[n].balance - S) - If(c = d, notes[n].balance) = o
  <2> HIDE DEF d, S
  <2> QED BY <1>2, <1>3 DEF If
<1>6. o \in Int /\ (c # d => o = 0)
  BY <1>3 DEF If
<1> HIDE DEF o, d
<1>7. Shifts(c, d, o)
  BY <1>3, <1>4, <1>5, <1>6 DEF Shifts, Credited
<1>8. Tells(c, {d})
  BY <1>1, <1>7, ShiftTells
<1> QED BY <1>8 DEF d

LEMMA VoidNoteTells ==
  ASSUME MoneyInv, MoneyInv', BookInv, CustomersMatch, NEW n \in CreditNotes,
         VoidCreditNote(n), NEW c, c = NoteCustomer[n] => Calm(c)
  PROVE  Tells(c, {NoteCustomer[n]})
<1> DEFINE d == NoteCustomer[n]
           old == notes[n]
           T == Taken(applied[n])
           note == [old EXCEPT !.status = "VOID", !.balance = 0]
           o == If(c = d, T)
           u == 0 - If(c = d, old.balance)
<1>1. /\ notes' = [notes EXCEPT ![n] = note] /\ old.status \in {"OPEN", "CLOSED"}
      /\ old.refunded = 0 /\ Storable(invoices, applied[n], n)
      /\ ledger' = Recorded(ledger, Key("voided", n, 0), d, old.total)
      /\ UNCHANGED <<payments, intents, invalidating>>
  BY MoneyTypes DEF VoidCreditNote, besides, Debit
<1>2. TakenBack(n, invoices')
  BY DEF TakenBack, VoidCreditNote
<1>3. note.balance = 0 /\ old.balance \in Nat /\ old.total \in Nat
  BY NoteFields DEF CreditNote
<1> HIDE DEF note
<1>4. old.total = old.balance + T /\ T \in Nat /\ Owner(payments, n) = d /\ n \in Sources
  BY <1>1, <1>3, NoteFacts, NoteFields DEF SoundNote
<1>5. /\ Outstanding(invoices', c) = Outstanding(invoices, c) + o
      /\ \A i \in Invoices : invoices'[i].writtenOff = invoices[i].writtenOff
  <2>1. GivesBack(n, invoices', d, c)
    BY <1>2, <1>4, ReversalMoves
  <2> QED BY <2>1 DEF GivesBack, SameStanding
<1>6. Credited(c, d, 0, d, old.balance)
  BY <1>1, <1>3, NoteMoves
<1>7. If(c = d, 0) - If(c = d, old.balance) = u
  <2> HIDE DEF d
  <2> QED BY <1>3 DEF If
<1>8. /\ o \in Int /\ u \in Int /\ old.total \in Int /\ If(c = d, old.total) = o - u
      /\ c # d => o = 0 /\ u = 0
  <2> HIDE DEF d, T
  <2> QED BY <1>3, <1>4 DEF If
<1>9. ~ HasKey(ledger, Key("voided", n, 0)) /\ "voided" \notin GapKinds
  BY <1>1, NewNoteKeys DEF GapKinds
<1> HIDE DEF o, u, d
<1>10. Enters(c, d, "voided", n, 0, old.total, o, u)
  BY <1>1, <1>5, <1>6, <1>7, <1>8, <1>9 DEF Enters, Credited
<1>11. Tells(c, {d})
  BY <1>1, <1>10, EnteredTells
<1> QED BY <1>11 DEF d

LEMMA RefundNoteTells ==
  ASSUME MoneyInv, MoneyInv', BookInv, NEW n \in CreditNotes, NEW amount \in Amounts,
         RefundCreditNote(n, amount), NEW c
  PROVE  Tells(c, {NoteCustomer[n]})
<1> DEFINE d == NoteCustomer[n]
           refunded == notes[n].refunded + amount
           note == [Drawn(notes[n], amount) EXCEPT !.refunded = refunded]
           u == 0 - If(c = d, amount)
<1>1. /\ notes' = [notes EXCEPT ![n] = note]
      /\ ledger' = Recorded(ledger, Key("refund", n, refunded), d, amount)
      /\ UNCHANGED <<invoices, payments, intents, invalidating>>
  BY DEF RefundCreditNote, besides, Debit
<1>2. note.balance = notes[n].balance - amount /\ notes[n].balance \in Nat /\ amount \in Int
  BY NoteFields, AmountNat DEF Drawn, CreditNote
<1> HIDE DEF note
<1>3. Credited(c, d, notes[n].balance - amount, d, notes[n].balance)
  BY <1>1, <1>2, NoteMoves
<1>4. If(c = d, notes[n].balance - amount) - If(c = d, notes[n].balance) = u
  <2> HIDE DEF d
  <2> QED BY <1>2 DEF If
<1>5. /\ u \in Int /\ If(c = d, amount) = 0 - u /\ (c # d => u = 0) /\ 0 \in Int
  <2>1. If(c = d, amount) \in Int /\ (c # d => If(c = d, amount) = 0)
    BY <1>2 DEF If
  <2> QED BY <2>1
<1>6. ~ HasKey(ledger, Key("refund", n, refunded)) /\ "refund" \notin GapKinds
  BY NewNoteKeys DEF GapKinds
<1>7. /\ Outstanding(invoices', c) = Outstanding(invoices, c) + 0
      /\ \A i \in Invoices : invoices'[i].writtenOff = invoices[i].writtenOff
  BY <1>1, SumsInt
<1> HIDE DEF u, d, refunded
<1>8. Enters(c, d, "refund", n, refunded, amount, 0, u)
  BY <1>1, <1>2, <1>3, <1>4, <1>5, <1>6, <1>7 DEF Enters, Credited
<1>9. Tells(c, {d})
  BY <1>1, <1>8, EnteredTells
<1> QED BY <1>9 DEF d

-----------------------------------------------------------------------------
(* Invalidations *)

LEMMA OpenAdvanceTells ==
  ASSUME MoneyInv, BookInv, NEW i \in Invoices,
         ReadAdvance(i) \/ WriteAdvance(i) \/ AbortAdvance(i), NEW c
  PROVE  Tells(c, {})
<1>1. /\ UNCHANGED <<invoices, payments, notes, ledger, intents>>
      /\ \A j \in Invoices : Struck(invalidating'[j]) = Struck(invalidating[j])
  BY AdvanceOpen
<1>2. NoGap(c)
  BY <1>1 DEF NoGap
<1>3. /\ Outstanding(invoices', c) = Outstanding(invoices, c) + 0
      /\ UnusedCredits(payments', notes', c) = UnusedCredits(payments, notes, c) + 0
      /\ Balance(ledger', c) = Balance(ledger, c) + 0
  BY <1>1, SumsInt
<1>4. Plainly(c, 0, 0, 0)
  BY <1>2, <1>3 DEF Plainly
<1> QED BY <1>1, <1>4, PlainTells

(* The gap is what was struck out beyond what was entered.                 *)
LEMMA InvalidatedTells ==
  ASSUME MoneyInv, MoneyInv', BookInv, NEW i \in Invoices, CommitAdvance(i), NEW c
  PROVE  Tells(c, {InvoiceCustomer[i]})
<1> DEFINE d == InvoiceCustomer[i]
           key == Key("advance-invalidated", i, 0)
           z == Struck(invalidating'[i])
           o == 0 - If(c = d, z)
<1>1. /\ UNCHANGED <<payments, notes, intents>>
      /\ invoices'[i].status = "VOID" /\ invoices'[i].writtenOff = invoices[i].writtenOff
      /\ invalidating[i].phase = "written" /\ Struck(invalidating[i]) = 0
      /\ z = If(invoices[i].status \in Collectible, invoices[i].due)
      /\ \A j \in Invoices \ {i} : /\ invoices'[j] = invoices[j]
                                  /\ invalidating'[j] = invalidating[j]
  BY AdvanceCommitted
<1>2. PICK m \in Int : ledger' = Recorded(ledger, key, d, m)
  BY AdvanceCommitted
<1> DEFINE b == If(c = d, m)
           w == If(c = d, z + m)
<1>3. /\ ledger \subseteq LedgerEntry /\ IsFiniteSet(ledger)
      /\ invoices \in [Invoices -> Invoice]
      /\ \A j \in Invoices : Struck(invalidating[j]) \in Nat
      /\ invoices[i].due \in Nat /\ invoices[i].writtenOff \in Nat
  BY InvoiceFields, MoneyTypes DEF MoneyInv, BooksTyped, BookInv, SoundRow, Invoice
<1>4. z \in Nat
  BY <1>1, <1>3 DEF If
<1>5. ~ HasKey(ledger, key)
  <2>1. ~ Explained(key, invoices, payments, notes, rewritten, invalidating)
    BY <1>1, KeyParts DEF Explained
  <2> QED BY <2>1, Unexplained
<1>6. Outstanding(invoices', c) = Outstanding(invoices, c) + o
  <2>1. Outstanding(invoices', c)
          = Outstanding(invoices, c) + (Owed(invoices', c, i) - Owed(invoices, c, i))
    BY <1>1, OneOutstanding
  <2>2. Owed(invoices', c, i) = 0 /\ Owed(invoices, c, i) = If(c = d, z)
    BY <1>1 DEF Owed, If, Collectible
  <2> QED BY <2>1, <2>2
<1>7. /\ Balance(ledger', c) = Balance(ledger, c) + b /\ b \in Int
      /\ ledger \subseteq ledger' /\ \A e \in ledger' : e \in ledger \/ e.key = key
  <2> HIDE DEF d, key
  <2> QED BY <1>2, <1>5, NewEntry
<1>8. Swallowed(ledger', invoices', invalidating', c)
        = Swallowed(ledger, invoices, invalidating, c) + w
  <2>1. /\ EnteredIn(ledger, "advance-invalidated", i) = 0
        /\ EnteredIn(ledger', "advance-invalidated", i) = m
    BY <1>2, <1>5, EnteredFirst
  <2>2. \A j \in Invoices :
          EnteredIn(ledger', "write-off", j) = EnteredIn(ledger, "write-off", j)
    <3> SUFFICES ASSUME NEW j \in Invoices
                 PROVE  EnteredIn(ledger', "write-off", j) = EnteredIn(ledger, "write-off", j)
      OBVIOUS
    <3>1. Key("write-off", j, 0) # key
      BY KeyParts
    <3> QED BY <1>7, <3>1, EnteredAlike
  <2>3. Gap(ledger', invoices'[i], invalidating'[i], i)
          = Gap(ledger, invoices[i], invalidating[i], i) + (z + m)
    <3>1. EnteredIn(ledger, "write-off", i) \in Int
      BY <1>3, EnteredInt
    <3> QED BY <1>1, <1>3, <1>4, <2>1, <2>2, <3>1 DEF Gap
  <2>4. ASSUME NEW j \in Invoices \ {i}
        PROVE  Gap(ledger', invoices'[j], invalidating'[j], j)
                 = Gap(ledger, invoices[j], invalidating[j], j)
    <3>1. Key("advance-invalidated", j, 0) # key
      BY KeyParts
    <3>2. EnteredIn(ledger', "advance-invalidated", j) = EnteredIn(ledger, "advance-invalidated", j)
      BY <1>7, <3>1, EnteredAlike
    <3> QED BY <1>1, <2>2, <3>2 DEF Gap
  <2>5. PICK more \in Int : more = z + m
    BY <1>4
  <2>6. Swallowed(ledger', invoices', invalidating', c)
          = Swallowed(ledger, invoices, invalidating, c) + If(c = InvoiceCustomer[i], more)
    BY <1>3, <2>3, <2>4, <2>5, SwallowedMore
  <2> QED BY <2>5, <2>6
<1>9. /\ UnusedCredits(payments', notes', c) = UnusedCredits(payments, notes, c) + 0
      /\ Brought(intents', c) = Brought(intents, c) + 0
  BY <1>1, SumsInt
<1>10. o \in Int /\ w \in Int /\ b = o - 0 + 0 + w /\ (c # d => o = 0)
  <2> HIDE DEF z, d
  <2>1. CASE c = d
    <3>1. o = 0 - z /\ b = m /\ w = z + m
      BY <2>1 DEF If
    <3> HIDE DEF o, b, w
    <3> QED BY <1>4, <2>1, <3>1
  <2>2. CASE c # d
    <3>1. o = 0 - 0 /\ b = 0 /\ w = 0
      BY <2>2 DEF If
    <3> HIDE DEF o, b, w
    <3> QED BY <2>2, <3>1
  <2> QED BY <2>1, <2>2
<1> HIDE DEF o, b, w
<1>11. Moves(c, o, 0, b, 0, w)
  BY <1>6, <1>7, <1>8, <1>9 DEF Moves
<1> QED BY <1>7, <1>10, <1>11 DEF Tells

-----------------------------------------------------------------------------
(* Every step *)

(* The step may change the open balances of the customers in C, and tells  *)
(* the story of the calm ones; of all others it tells it in any case.      *)
Accounts(C) == \A c : (c \in C => Calm(c)) => Tells(c, C)

(* Who is in C has its columns recomputed, except where an intent is       *)
(* confirmed, a note issued or an advance invoice invalidated.             *)
Follows(C) ==
  RecomputeCustomerAr(C) \/ C = {} \/ intents' # intents \/ issuing' # issuing
  \/ invalidating' # invalidating

LEMMA InvoiceStepAccounts ==
  ASSUME LedgerInv, MoneyInv', InvoiceStep PROVE \E C : Accounts(C) /\ Follows(C)
<1>1. ASSUME NEW i \in Invoices, FinalizeInvoice(i)
      PROVE  Accounts({InvoiceCustomer[i]}) /\ Follows({InvoiceCustomer[i]})
  <2>1. Accounts({InvoiceCustomer[i]})
    BY <1>1, FinalizeTells DEF Accounts, LedgerInv
  <2> QED BY <1>1, <2>1 DEF FinalizeInvoice, Follows
<1>2. ASSUME NEW i \in Invoices, FinalizeWithCredits(i)
      PROVE  Accounts({InvoiceCustomer[i]}) /\ Follows({InvoiceCustomer[i]})
  <2>1. Accounts({InvoiceCustomer[i]})
    BY <1>2, CreditsTell DEF Accounts, LedgerInv
  <2> QED BY <1>2, <2>1 DEF FinalizeWithCredits, Follows
<1>3. ASSUME NEW i \in Invoices, SendInvoice(i) PROVE Accounts({}) /\ Follows({})
  BY <1>3, SendTells DEF Accounts, LedgerInv, Follows
<1>4. ASSUME NEW i \in Invoices, VoidInvoice(i)
      PROVE  Accounts({InvoiceCustomer[i]}) /\ Follows({InvoiceCustomer[i]})
  <2>1. Accounts({InvoiceCustomer[i]})
    BY <1>4, VoidTells DEF Accounts, LedgerInv
  <2> QED BY <1>4, <2>1 DEF VoidInvoice, Follows
<1>5. ASSUME NEW i \in Invoices, WriteOffInvoice(i)
      PROVE  Accounts({InvoiceCustomer[i]}) /\ Follows({InvoiceCustomer[i]})
  <2>1. Accounts({InvoiceCustomer[i]})
    BY <1>5, WriteOffTells DEF Accounts, LedgerInv
  <2> QED BY <1>5, <2>1 DEF WriteOffInvoice, Follows
<1>6. CASE MarkOverdue
  <2>1. Accounts({}) /\ Follows({})
    BY <1>6, OverdueTells DEF Accounts, LedgerInv, Follows
  <2> QED BY <2>1
<1> QED BY <1>1, <1>2, <1>3, <1>4, <1>5, <1>6 DEF InvoiceStep

LEMMA PaymentStepAccounts ==
  ASSUME LedgerInv, MoneyInv', PaymentStep PROVE \E C : Accounts(C) /\ Follows(C)
<1>1. ASSUME NEW p \in Payments, NEW d \in Customers, NEW amount \in Amounts,
             NEW alloc \in Allocations, CreatePayment(p, d, amount, alloc)
      PROVE  Accounts({d}) /\ Follows({d})
  <2>1. Accounts({d})
    BY <1>1, CreateTells DEF Accounts, LedgerInv
  <2> QED BY <1>1, <2>1 DEF CreatePayment, Follows
<1>2. ASSUME NEW p \in Payments, NEW d \in Customers, NEW amount \in Amounts,
             NEW alloc \in Allocations, UpdatePayment(p, d, amount, alloc)
      PROVE  Accounts({payments[p].customer, d}) /\ Follows({payments[p].customer, d})
  <2>1. Accounts({payments[p].customer, d})
    BY <1>2, UpdateTells DEF Accounts, LedgerInv
  <2> QED BY <1>2, <2>1 DEF UpdatePayment, Follows
<1>3. ASSUME NEW p \in Payments, NEW d \in Customers, NEW amount \in Amounts,
             ConfirmIntent(p, d, amount)
      PROVE  Accounts({d}) /\ Follows({d})
  <2>1. Accounts({d})
    BY <1>3, ConfirmTells DEF Accounts, LedgerInv
  <2>2. /\ payments[p].status = "absent"
        /\ intents' = intents \cup {[payment |-> p, customer |-> d, amount |-> amount]}
    BY <1>3 DEF ConfirmIntent
  <2>3. [payment |-> p, customer |-> d, amount |-> amount] \notin intents
    BY <2>2 DEF LedgerInv, BookInv
  <2>4. intents' # intents
    BY <2>2, <2>3
  <2> QED BY <2>1, <2>4 DEF Follows
<1>4. ASSUME NEW p \in Payments, NEW alloc \in Allocations, ApplyPayment(p, alloc)
      PROVE  Accounts({payments[p].customer}) /\ Follows({payments[p].customer})
  <2>1. Accounts({payments[p].customer})
    BY <1>4, ApplyTells DEF Accounts, LedgerInv
  <2> QED BY <1>4, <2>1 DEF ApplyPayment, Follows
<1>5. ASSUME NEW p \in Payments, CancelPayment(p)
      PROVE  Accounts({payments[p].customer}) /\ Follows({payments[p].customer})
  <2>1. Accounts({payments[p].customer})
    BY <1>5, CancelTells DEF Accounts, LedgerInv
  <2> QED BY <1>5, <2>1 DEF CancelPayment, Follows
<1>6. ASSUME NEW p \in Payments, NEW amount \in Amounts, RefundPayment(p, amount)
      PROVE  Accounts({payments[p].customer}) /\ Follows({payments[p].customer})
  <2>1. Accounts({payments[p].customer})
    BY <1>6, RefundTells DEF Accounts, LedgerInv
  <2> QED BY <1>6, <2>1 DEF RefundPayment, Follows
<1> QED BY <1>1, <1>2, <1>3, <1>4, <1>5, <1>6 DEF PaymentStep

LEMMA CreditNoteStepAccounts ==
  ASSUME LedgerInv, MoneyInv', CreditNoteStep PROVE \E C : Accounts(C) /\ Follows(C)
<1>1. ASSUME NEW n \in CreditNotes, NEW total, BeginIssue(n, total) \/ AbortIssue(n)
      PROVE  Accounts({}) /\ Follows({})
  <2>1. UNCHANGED <<invoices, payments, notes, ledger, intents, invalidating>>
    BY <1>1 DEF BeginIssue, AbortIssue
  <2> QED BY <2>1, QuietTells DEF Accounts, LedgerInv, Follows
<1>2. ASSUME NEW n \in CreditNotes, CommitIssue(n)
      PROVE  Accounts({NoteCustomer[n]}) /\ Follows({NoteCustomer[n]})
  <2>1. Accounts({NoteCustomer[n]})
    BY <1>2, IssueTells DEF Accounts, LedgerInv
  <2>2. issuing' # issuing
    <3>1. issuing[n] # NotIssuing /\ issuing' = [issuing EXCEPT ![n] = NotIssuing]
      BY <1>2 DEF CommitIssue
    <3>2. issuing'[n] = NotIssuing
      BY <3>1 DEF LedgerInv, MoneyInv, BooksTyped
    <3> QED BY <3>1, <3>2
  <2> QED BY <2>1, <2>2 DEF Follows
<1>3. ASSUME NEW n \in CreditNotes, NEW alloc \in Allocations, ApplyCreditNote(n, alloc)
      PROVE  Accounts({NoteCustomer[n]}) /\ Follows({NoteCustomer[n]})
  <2>1. Accounts({NoteCustomer[n]})
    BY <1>3, ApplyNoteTells DEF Accounts, LedgerInv
  <2> QED BY <1>3, <2>1 DEF ApplyCreditNote, Follows
<1>4. ASSUME NEW n \in CreditNotes, VoidCreditNote(n)
      PROVE  Accounts({NoteCustomer[n]}) /\ Follows({NoteCustomer[n]})
  <2>1. Accounts({NoteCustomer[n]})
    BY <1>4, VoidNoteTells DEF Accounts, LedgerInv
  <2> QED BY <1>4, <2>1 DEF VoidCreditNote, Follows
<1>5. ASSUME NEW n \in CreditNotes, NEW amount \in Amounts, RefundCreditNote(n, amount)
      PROVE  Accounts({NoteCustomer[n]}) /\ Follows({NoteCustomer[n]})
  <2>1. Accounts({NoteCustomer[n]})
    BY <1>5, RefundNoteTells DEF Accounts, LedgerInv
  <2> QED BY <1>5, <2>1 DEF RefundCreditNote, Follows
<1> QED BY <1>1, <1>2, <1>3, <1>4, <1>5 DEF CreditNoteStep

LEMMA AdvanceStepAccounts ==
  ASSUME LedgerInv, MoneyInv', AdvanceStep PROVE \E C : Accounts(C) /\ Follows(C)
<1>1. ASSUME NEW i \in Invoices, ReadAdvance(i) \/ WriteAdvance(i) \/ AbortAdvance(i)
      PROVE  Accounts({}) /\ Follows({})
  BY <1>1, OpenAdvanceTells DEF Accounts, LedgerInv, Follows
<1>2. ASSUME NEW i \in Invoices, CommitAdvance(i)
      PROVE  Accounts({InvoiceCustomer[i]}) /\ Follows({InvoiceCustomer[i]})
  <2>1. Accounts({InvoiceCustomer[i]})
    BY <1>2, InvalidatedTells DEF Accounts, LedgerInv
  <2>2. invalidating' # invalidating
    <3>1. invalidating'[i].phase = "done" /\ invalidating[i].phase = "written"
      BY <1>2, AdvanceCommitted DEF LedgerInv
    <3> QED BY <3>1
  <2> QED BY <2>1, <2>2 DEF Follows
<1> QED BY <1>1, <1>2 DEF AdvanceStep

LEMMA StepAccounts ==
  ASSUME LedgerInv, MoneyInv', Next, ~ EditStep PROVE \E C : Accounts(C) /\ Follows(C)
<1>1. ASSUME NEW i \in Invoices, NEW total, CreateDraft(i, total) \/ FallDue(i)
      PROVE  Accounts({}) /\ Follows({})
  BY <1>1, DraftTells DEF Accounts, LedgerInv, Follows
<1> QED BY <1>1, InvoiceStepAccounts, PaymentStepAccounts, CreditNoteStepAccounts,
           AdvanceStepAccounts DEF Next

LEMMA LedgerInvAlways == Spec => []LedgerInv
<1>1. Init => LedgerInv
  <2> SUFFICES ASSUME Init PROVE LedgerInv
    OBVIOUS
  <2>1. MoneyInv
    BY MoneyInvInit
  <2>2. BookInv
    <3>1. /\ ledger = {} /\ intents = {} /\ IsFiniteSet({})
          /\ \A i \in Invoices : invoices[i] = AbsentInvoice
      BY FS_EmptySet DEF Init
    <3>2. /\ AbsentInvoice.status = "absent" /\ AbsentInvoice.writtenOff = 0
          /\ AbsentInvoice.total = 0
      BY DEF AbsentInvoice
    <3> QED BY <3>1, <3>2 DEF BookInv, InBook, Finalized, Collectible
  <2>3. CustomersMatch
    <3>1. \A s \in Sources, i \in Invoices : applied[s][i].amount = 0
      BY DEF Init, NothingApplied
    <3> QED BY <3>1 DEF CustomersMatch
  <2> QED BY <2>1, <2>2, <2>3 DEF LedgerInv
<1>2. LedgerInv /\ [Next]_vars => LedgerInv'
  <2> SUFFICES ASSUME LedgerInv, [Next]_vars PROVE LedgerInv'
    OBVIOUS
  <2>1. MoneyInv'
    BY MoneyInvNext DEF LedgerInv
  <2>2. CASE Next
    BY <2>1, <2>2, BookInvNext, CustomersMatchNext DEF LedgerInv
  <2>3. CASE UNCHANGED vars
    <3>1. UNCHANGED <<invoices, payments, notes, applied, ledger, intents, invalidating,
                      rewritten>>
      BY <2>3 DEF vars
    <3>2. BookInv'
      BY <3>1 DEF LedgerInv, BookInv, InBook, Explained, Dead, AddsUp
    <3>3. CustomersMatch'
      BY <3>1 DEF LedgerInv, CustomersMatch, Owner
    <3> QED BY <2>1, <3>2, <3>3 DEF LedgerInv
  <2> QED BY <2>2, <2>3
<1> QED BY <1>1, <1>2, PTL DEF Spec

-----------------------------------------------------------------------------
(* The ledger and the columns *)

StoryInv == \A c \in Customers : Calm(c) => Story(c)

LEMMA StoryInit == Init => StoryInv
<1> SUFFICES ASSUME Init, NEW c \in Customers PROVE Story(c)
  BY DEF StoryInv
<1>1. /\ ledger = {} /\ intents = {} /\ payments = [p \in Payments |-> AbsentPayment]
      /\ \A i \in Invoices : invoices[i] = AbsentInvoice
      /\ \A n \in CreditNotes : notes[n] = AbsentNote
  BY DEF Init
<1>2. Balance(ledger, c) = 0 /\ Brought(intents, c) = 0
  BY <1>1, SumEmpty DEF Balance, Brought
<1>3. Outstanding(invoices, c) = 0
  <2>1. {j \in Invoices : InvoiceCustomer[j] = c /\ invoices[j].status \in Collectible} = {}
    BY <1>1 DEF AbsentInvoice, Collectible
  <2> QED BY <2>1, SumEmpty DEF Outstanding
<1>4. UnusedCredits(payments, notes, c) = 0
  <2>1. {q \in Payments : payments[q].customer = c /\ payments[q].status \in Available} = {}
    BY <1>1 DEF AbsentPayment, Available
  <2>2. {m \in CreditNotes : NoteCustomer[m] = c /\ notes[m].status = "OPEN"} = {}
    BY <1>1 DEF AbsentNote
  <2> DEFINE f == [p \in {q \in Payments : payments[q].customer = c
                                         /\ payments[q].status \in Available}
                     |-> payments[p].unapplied]
             g == [n \in {m \in CreditNotes : NoteCustomer[m] = c /\ notes[m].status = "OPEN"}
                     |-> notes[n].balance]
  <2>3. DOMAIN f = {} /\ DOMAIN g = {} /\ UnusedCredits(payments, notes, c) = SumFunction(f) + SumFunction(g)
    BY <2>1, <2>2 DEF UnusedCredits
  <2> HIDE DEF f, g
  <2>4. SumFunction(f) = 0 /\ SumFunction(g) = 0
    BY <2>3, SumEmpty
  <2> QED BY <2>3, <2>4
<1>5. Swallowed(ledger, invoices, invalidating, c) = 0
  <2> DEFINE f == SwallowedBy(ledger, invoices, invalidating, c)
  <2>1. ASSUME NEW i \in Invoices PROVE Gap(ledger, invoices[i], invalidating[i], i) = 0
    <3>1. \A kind : EnteredIn(ledger, kind, i) = 0
      BY <1>1, SumEmpty DEF EnteredIn
    <3>2. Struck(invalidating[i]) = 0
      BY DEF Init, NotInvalidating, Struck
    <3> QED BY <1>1, <3>1, <3>2 DEF AbsentInvoice, Gap
  <2>2. /\ DOMAIN f \subseteq Invoices /\ \A i \in DOMAIN f : f[i] = 0
    BY <2>1 DEF SwallowedBy
  <2> HIDE DEF f
  <2>3. IsFiniteSet(DOMAIN f)
    BY <2>2, FS_Subset, ReceivablesAssumption
  <2>4. SumFunction(f) = 0
    BY <2>2, <2>3, SumZero
  <2> QED BY <2>4 DEF Swallowed, f
<1> QED BY <1>2, <1>3, <1>4, <1>5 DEF Story

LEMMA RewrittenGrows == ASSUME Next PROVE rewritten \subseteq rewritten'
<1>1. CASE InvoiceStep
  BY <1>1 DEF InvoiceStep, FinalizeInvoice, FinalizeWithCredits, SendInvoice, VoidInvoice,
              WriteOffInvoice, MarkOverdue, besides
<1>2. CASE EditStep
  BY <1>2 DEF EditStep, BeginEdit, WriteLines, WriteDates, DeleteDraft, AbandonEdit
<1>3. CASE PaymentStep
  <2>1. ASSUME NEW p, NEW c, NEW amount, NEW alloc, CreatePayment(p, c, amount, alloc)
        PROVE  UNCHANGED rewritten
    BY <2>1 DEF CreatePayment, besides
  <2>2. ASSUME NEW p, NEW c, NEW amount, NEW alloc, UpdatePayment(p, c, amount, alloc)
        PROVE  UNCHANGED rewritten
    BY <2>2 DEF UpdatePayment, besides
  <2>3. ASSUME NEW p, NEW c, NEW amount, ConfirmIntent(p, c, amount) PROVE UNCHANGED rewritten
    BY <2>3 DEF ConfirmIntent
  <2>4. ASSUME NEW p, NEW alloc, ApplyPayment(p, alloc) PROVE UNCHANGED rewritten
    BY <2>4 DEF ApplyPayment, besides
  <2>5. ASSUME NEW p, NEW amount, RefundPayment(p, amount) PROVE UNCHANGED rewritten
    BY <2>5 DEF RefundPayment, besides
  <2>6. ASSUME NEW p, CancelPayment(p) PROVE UNCHANGED rewritten
    BY <2>6 DEF CancelPayment, besides
  <2> QED BY <1>3, <2>1, <2>2, <2>3, <2>4, <2>5, <2>6 DEF PaymentStep
<1>4. CASE CreditNoteStep
  BY <1>4 DEF CreditNoteStep, BeginIssue, CommitIssue, AbortIssue, ApplyCreditNote,
              RefundCreditNote, VoidCreditNote, besides
<1>5. ASSUME NEW i \in Invoices, NEW total, CreateDraft(i, total) \/ FallDue(i)
      PROVE  rewritten \subseteq rewritten'
  BY <1>5 DEF CreateDraft, FallDue, besides
<1>6. CASE AdvanceStep
  BY <1>6 DEF AdvanceStep, ReadAdvance, WriteAdvance, CommitAdvance, AbortAdvance
<1> QED BY <1>1, <1>2, <1>3, <1>4, <1>5, <1>6 DEF Next

LEMMA StoryNext ==
  ASSUME LedgerInv, LedgerInv', StoryInv, [Next]_vars PROVE StoryInv'
<1> SUFFICES ASSUME NEW c \in Customers, Calm(c)' PROVE Story(c)'
  BY DEF StoryInv
<1>1. CASE Next
  <2>1. rewritten \subseteq rewritten'
    BY <1>1, RewrittenGrows
  <2>2. Calm(c) /\ Story(c)
    BY <2>1 DEF Calm, StoryInv
  <2>3. \E C : Tells(c, C)
    <3>1. CASE EditStep
      BY <3>1, EditTells DEF LedgerInv
    <3>2. CASE ~ EditStep
      BY <1>1, <2>2, <3>2, StepAccounts DEF LedgerInv, Accounts
    <3> QED BY <3>1, <3>2
  <2> QED BY <2>2, <2>3, StoryGoesOn DEF LedgerInv
<1>2. CASE UNCHANGED vars
  <2>1. UNCHANGED <<invoices, payments, notes, ledger, intents, invalidating, rewritten>>
    BY <1>2 DEF vars
  <2>2. Calm(c)
    BY <2>1 DEF Calm
  <2>3. Story(c)
    BY <2>2 DEF StoryInv
  <2> QED BY <2>1, <2>3 DEF Story
<1> QED BY <1>1, <1>2

LEMMA StoryInvAlways == Spec => []StoryInv
BY StoryInit, StoryNext, LedgerInvAlways, PTL DEF Spec

(* The ledger's balance of a customer is what is outstanding less the      *)
(* unused credits, and exceeds it by what manual intents brought in, by    *)
(* what second write-offs cleared and by what invalidations struck out but *)
(* did not enter, through every order of operations.                       *)
THEOREM LedgerTellsTheReceivable == Spec => []LedgerAccountsForReceivable
<1>1. LedgerInv /\ StoryInv => LedgerAccountsForReceivable
  <2> SUFFICES ASSUME LedgerInv, StoryInv, NEW c \in Customers,
                      \A i \in rewritten : InvoiceCustomer[i] # c
               PROVE  Story(c)
    BY DEF LedgerAccountsForReceivable, Story, Brought, Swallowed, SwallowedBy, Gap, EnteredIn,
           Entered
  <2>1. Calm(c)
    BY DEF Calm
  <2> QED BY <2>1 DEF StoryInv
<1> QED BY <1>1, LedgerInvAlways, StoryInvAlways, PTL

LEMMA FollowsNext ==
  LedgerInv /\ [Next]_vars =>
    [UNCHANGED <<intents, edits, issuing, invalidating>>
     => \A c \in Customers :
          \/ columns'[c] = Recomputed(invoices', payments', notes', c)
          \/ Recomputed(invoices', payments', notes', c)
               = Recomputed(invoices, payments, notes, c)]_vars
<1> SUFFICES ASSUME LedgerInv, [Next]_vars, ~ UNCHANGED vars,
                    UNCHANGED <<intents, edits, issuing, invalidating>>, NEW c \in Customers
             PROVE  \/ columns'[c] = Recomputed(invoices', payments', notes', c)
                    \/ Recomputed(invoices', payments', notes', c)
                         = Recomputed(invoices, payments, notes, c)
  OBVIOUS
<1>1. Next /\ MoneyInv'
  BY MoneyInvNext DEF LedgerInv
<1>2. ASSUME UNCHANGED <<invoices, payments, notes>>
      PROVE  Recomputed(invoices', payments', notes', c)
               = Recomputed(invoices, payments, notes, c)
  BY <1>2
<1>3. ASSUME NEW C, Tells(c, C), c \notin C
      PROVE  Recomputed(invoices', payments', notes', c)
               = Recomputed(invoices, payments, notes, c)
  <2>1. /\ Outstanding(invoices', c) = Outstanding(invoices, c) + 0
        /\ UnusedCredits(payments', notes', c) = UnusedCredits(payments, notes, c) + 0
    BY <1>3 DEF Tells, Moves
  <2>2. Outstanding(invoices, c) \in Int /\ UnusedCredits(payments, notes, c) \in Int
    BY SumsInt DEF LedgerInv
  <2> QED BY <2>1, <2>2 DEF Recomputed
<1>4. CASE EditStep
  <2>1. UNCHANGED <<invoices, payments, notes>>
    BY <1>4 DEF EditStep, BeginEdit, AbandonEdit, WriteLines, WriteDates, DeleteDraft
  <2> QED BY <1>2, <2>1
<1>5. CASE ~ EditStep
  <2>1. PICK C : Accounts(C) /\ Follows(C)
    BY <1>1, <1>5, StepAccounts
  <2>2. CASE c \in C
    <3>1. RecomputeCustomerAr(C)
      BY <2>1, <2>2 DEF Follows
    <3> QED BY <2>2, <3>1 DEF RecomputeCustomerAr
  <2>3. CASE c \notin C
    <3>1. Tells(c, C)
      BY <2>1, <2>3 DEF Accounts
    <3> QED BY <1>3, <2>3, <3>1
  <2> QED BY <2>2, <2>3
<1> QED BY <1>4, <1>5

(* A step that changes a customer's open balances or credits recomputes    *)
(* the customer's columns, unless it is the issue of a note, the           *)
(* invalidation of an advance invoice, the confirmation of an intent, or   *)
(* an edit.                                                                *)
THEOREM ColumnsFollow == Spec => ReceivableFollows
BY FollowsNext, LedgerInvAlways, PTL DEF Spec, ReceivableFollows
=============================================================================
