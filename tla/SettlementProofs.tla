--------------------------- MODULE SettlementProofs ---------------------------
(***************************************************************************)
(* What holds of an invoice in Settlement for every set of customers,      *)
(* invoices, payments, credit notes and amounts.  None of it depends on    *)
(* what the amounts of several rows add up to, so SumFunction is left      *)
(* unexpanded throughout.                                                  *)
(*                                                                         *)
(* The properties are not inductive as they stand.  A reversal puts an     *)
(* invoice back into the state that an allocation remembered, so the       *)
(* invariant speaks of these moments too: an allocation that is live       *)
(* belongs to an invoice whose total is accounted for (even to a void one, *)
(* when its invalidation met a payment), and remembers an invoice that     *)
(* could be collected and had no payment date.  And a draft, which         *)
(* finalizing turns into an invoice, owes what it adds up to.              *)
(***************************************************************************)
EXTENDS Settlement, TLAPS

Unvoided == Finalized \ {"VOID"}

(* lax: the invoice is in rewritten; v: its invalidation                   *)
AddsUp(inv, v) ==
  inv.total = inv.due + inv.paid + inv.credited + inv.writtenOff + Struck(v)

SoundRow(inv, lax, v) ==
  /\ inv \in Invoice
  /\ Struck(v) \in Nat
  /\ inv.status \in {"absent", "DRAFT"} => Struck(v) = 0
  /\ inv.status = "PAID" => inv.paidAt
  /\ inv.paidAt => \/ inv.status = "PAID"
                  \/ (inv.status = "VOID" /\ v.phase = "done" /\ v.row.status = "PAID")
  /\ ~ lax =>
       /\ inv.status = "DRAFT" =>
            inv.due = inv.total /\ inv.paid = 0 /\ inv.credited = 0 /\ inv.writtenOff = 0
       /\ inv.status \in Unvoided => AddsUp(inv, v)
       /\ inv.status \in Finalized => (inv.status \in Collectible <=> inv.due > 0)

Sound(invs, lax, gone) ==
  /\ invs \in [Invoices -> Invoice]
  /\ \A i \in Invoices : SoundRow(invs[i], i \in lax, gone[i])

(* What an invoice with a live allocation is, be it void or not            *)
Backed(inv, lax, v) == inv.status \in Finalized /\ (~ lax => AddsUp(inv, v))

SoundAllocation(a, inv, lax, v) ==
  /\ a \in Applied
  /\ \A m \in a.before : m.paidAt = FALSE
  /\ a.amount > 0 => Backed(inv, lax, v)

Remembers(row, invs, lax, gone) ==
  /\ row \in [Invoices -> Applied]
  /\ \A i \in Invoices : SoundAllocation(row[i], invs[i], i \in lax, gone[i])

(* Every invoice that can have an allocation keeps being such an invoice.  *)
KeepsBacked(new, old, lax, gone) ==
  \A i \in Invoices : Backed(old[i], i \in lax, gone[i]) => Backed(new[i], i \in lax, gone[i])

(* The row of an invalidation is a row, whatever its columns are.          *)
SoundAdvance(v) ==
  \E phase \in {"none", "read", "written", "done"}, row \in Invoice : \E column :
    v = [phase |-> phase, row |-> row, column |-> column]

InvoiceInv ==
  /\ Sound(invoices, rewritten, invalidating)
  /\ applied \in [Sources -> [Invoices -> Applied]]
  /\ \A s \in Sources : Remembers(applied[s], invoices, rewritten, invalidating)
  /\ invalidating = [i \in Invoices |-> invalidating[i]]
  /\ \A i \in Invoices : SoundAdvance(invalidating[i])

(* An edit names an invoice. *)
EditInv == edits \subseteq Edit

SettlementInv == InvoiceInv /\ EditInv

-----------------------------------------------------------------------------
(* The helpers *)

LEMMA SoundBacked ==
  ASSUME NEW inv, NEW i, NEW lax, NEW gone, SoundRow(inv, i \in lax, gone[i]),
         inv.status \in Unvoided
  PROVE  Backed(inv, i \in lax, gone[i])
BY DEF SoundRow, Backed, Unvoided

LEMMA KeptRemembers ==
  ASSUME NEW row, NEW old, NEW new, NEW lax, NEW gone,
         Remembers(row, old, lax, gone), KeepsBacked(new, old, lax, gone)
  PROVE  Remembers(row, new, lax, gone)
BY DEF Remembers, KeepsBacked, SoundAllocation

LEMMA NothingRemembered ==
  ASSUME NEW invs, NEW lax, NEW gone PROVE Remembers(NothingApplied, invs, lax, gone)
BY DEF Remembers, NothingApplied, SoundAllocation, Applied

LEMMA ReprojectedSound ==
  ASSUME NEW mid \in Invoice, NEW i, NEW lax, NEW gone,
         Struck(gone[i]) \in Nat, i \notin lax => AddsUp(mid, gone[i])
  PROVE  SoundRow(Reprojected(mid), i \in lax, gone[i]) /\ Reprojected(mid).status \in Unvoided
<1> DEFINE new == Reprojected(mid)
<1>1. mid.due \in Nat
  BY DEF Invoice
<1>2. Projected(mid) \in Collectible \cup {"PAID"}
      /\ (Projected(mid) = "PAID" <=> mid.due = 0)
  BY DEF Projected, Collectible
<1>3. /\ new \in Invoice /\ new.status = Projected(mid)
      /\ new.paidAt = (Projected(mid) = "PAID")
      /\ new.due = mid.due /\ new.paid = mid.paid /\ new.credited = mid.credited
      /\ new.total = mid.total /\ new.writtenOff = mid.writtenOff
  BY <1>1, <1>2 DEF Reprojected, Invoice, Finalized
<1> HIDE DEF new
<1>4. new.paidAt <=> new.status = "PAID"
  BY <1>3
<1>5. new.status \notin {"absent", "DRAFT"}
  BY <1>2, <1>3 DEF Collectible
<1>6. new.status \in Collectible <=> new.due > 0
  BY <1>1, <1>2, <1>3 DEF Collectible
<1>7. SoundRow(new, i \in lax, gone[i])
  <2>1. i \notin lax => AddsUp(new, gone[i])
    BY <1>3 DEF AddsUp
  <2> QED BY <1>3, <1>4, <1>5, <1>6, <2>1 DEF SoundRow
<1>8. new.status \in Unvoided
  BY <1>2, <1>3 DEF Unvoided, Finalized, Collectible
<1> QED BY <1>7, <1>8 DEF new

LEMMA SettledSound ==
  ASSUME NEW inv, NEW i, NEW lax, NEW gone, NEW s, NEW amount \in Nat \ {0},
         SoundRow(inv, i \in lax, gone[i]), inv.status \in Collectible, amount <= inv.due
  PROVE  LET new == Reprojected(Settled(inv, s, amount))
         IN  SoundRow(new, i \in lax, gone[i]) /\ new.status \in Unvoided
<1> DEFINE mid == Settled(inv, s, amount)
<1>1. /\ mid \in Invoice /\ mid.due = inv.due - amount
      /\ mid.paid + mid.credited = inv.paid + inv.credited + amount
      /\ mid.total = inv.total /\ mid.writtenOff = inv.writtenOff
  <2>1. inv \in Invoice
    BY DEF SoundRow
  <2>2. /\ inv.due \in Nat /\ inv.paid \in Nat /\ inv.credited \in Nat
        /\ inv.due - amount \in Nat /\ inv.paid + amount \in Nat
        /\ inv.credited + amount \in Nat
    BY <2>1 DEF Invoice
  <2>3. CASE s \in Payments
    <3>1. mid = [inv EXCEPT !.due = inv.due - amount, !.paid = inv.paid + amount]
      BY <2>3 DEF Settled
    <3> HIDE DEF mid
    <3>2. /\ mid.due = inv.due - amount /\ mid.paid = inv.paid + amount
          /\ mid.credited = inv.credited /\ mid.total = inv.total
          /\ mid.writtenOff = inv.writtenOff
      BY <2>1, <3>1 DEF Invoice
    <3>3. mid \in Invoice
      BY <2>1, <2>2, <3>1 DEF Invoice
    <3> QED BY <2>2, <3>2, <3>3
  <2>4. CASE s \notin Payments
    <3>1. mid = [inv EXCEPT !.due = inv.due - amount, !.credited = inv.credited + amount]
      BY <2>4 DEF Settled
    <3> HIDE DEF mid
    <3>2. /\ mid.due = inv.due - amount /\ mid.paid = inv.paid
          /\ mid.credited = inv.credited + amount /\ mid.total = inv.total
          /\ mid.writtenOff = inv.writtenOff
      BY <2>1, <3>1 DEF Invoice
    <3>3. mid \in Invoice
      BY <2>1, <2>2, <3>1 DEF Invoice
    <3> QED BY <2>2, <3>2, <3>3
  <2> QED BY <2>3, <2>4
<1>2. /\ Struck(gone[i]) \in Nat
      /\ i \notin lax => inv.total = inv.due + inv.paid + inv.credited + inv.writtenOff
                                   + Struck(gone[i])
  BY DEF SoundRow, AddsUp, Unvoided, Finalized, Collectible
<1>3. inv.due \in Nat /\ inv.paid \in Nat /\ inv.credited \in Nat /\ inv.writtenOff \in Nat
  BY DEF SoundRow, Invoice
<1>4. mid.due \in Nat /\ mid.paid \in Nat /\ mid.credited \in Nat
  BY <1>1 DEF Invoice
<1> HIDE DEF mid
<1>5. i \notin lax => AddsUp(mid, gone[i])
  BY <1>1, <1>2, <1>3, <1>4 DEF AddsUp
<1> QED BY <1>1, <1>2, <1>5, ReprojectedSound DEF mid

LEMMA RestoredSound ==
  ASSUME NEW inv, NEW i, NEW lax, NEW gone, NEW s, NEW a, NEW m \in a.before,
         SoundRow(inv, i \in lax, gone[i]), SoundAllocation(a, inv, i \in lax, gone[i]), a.amount > 0,
         a.amount <= IF s \in Payments THEN inv.paid ELSE inv.credited
  PROVE  LET new == Restored(inv, s, a.amount, m)
         IN  SoundRow(new, i \in lax, gone[i]) /\ new.status \in Unvoided
<1> DEFINE new == Restored(inv, s, a.amount, m)
<1>1. a.amount \in Nat /\ m.status \in Collectible /\ m.paidAt = FALSE
  BY DEF SoundAllocation, Applied, Moment
<1>2. inv \in Invoice /\ inv.due \in Nat /\ inv.paid \in Nat /\ inv.credited \in Nat
      /\ inv.writtenOff \in Nat /\ inv.total \in Nat
  BY DEF SoundRow, Invoice
<1>3. /\ new \in Invoice /\ new.status = m.status /\ new.paidAt = FALSE
      /\ new.due = inv.due + a.amount
      /\ new.paid + new.credited = inv.paid + inv.credited - a.amount
      /\ new.total = inv.total /\ new.writtenOff = inv.writtenOff
  <2>1. m.status \in Missing \cup {"DRAFT"} \cup Finalized /\ m.paidAt \in BOOLEAN
    BY <1>1 DEF Finalized
  <2>2. CASE s \in Payments
    <3>1. new = [inv EXCEPT !.due = inv.due + a.amount, !.paid = inv.paid - a.amount,
                            !.status = m.status, !.paidAt = m.paidAt]
      BY <2>2 DEF Restored
    <3>2. inv.due + a.amount \in Nat /\ inv.paid - a.amount \in Nat
      BY <1>1, <1>2, <2>2
    <3> HIDE DEF new
    <3>3. /\ new.due = inv.due + a.amount /\ new.paid = inv.paid - a.amount
          /\ new.status = m.status /\ new.paidAt = m.paidAt /\ new.credited = inv.credited
          /\ new.total = inv.total /\ new.writtenOff = inv.writtenOff
      BY <1>2, <3>1 DEF Invoice
    <3>4. new \in Invoice
      BY <1>2, <2>1, <3>1, <3>2 DEF Invoice
    <3> QED BY <1>1, <1>2, <3>3, <3>4
  <2>3. CASE s \notin Payments
    <3>1. new = [inv EXCEPT !.due = inv.due + a.amount, !.credited = inv.credited - a.amount,
                            !.status = m.status, !.paidAt = m.paidAt]
      BY <2>3 DEF Restored
    <3>2. inv.due + a.amount \in Nat /\ inv.credited - a.amount \in Nat
      BY <1>1, <1>2, <2>3
    <3> HIDE DEF new
    <3>3. /\ new.due = inv.due + a.amount /\ new.paid = inv.paid
          /\ new.status = m.status /\ new.paidAt = m.paidAt
          /\ new.credited = inv.credited - a.amount
          /\ new.total = inv.total /\ new.writtenOff = inv.writtenOff
      BY <1>2, <3>1 DEF Invoice
    <3>4. new \in Invoice
      BY <1>2, <2>1, <3>1, <3>2 DEF Invoice
    <3> QED BY <1>1, <1>2, <3>3, <3>4
  <2> QED BY <2>2, <2>3
<1>4. new.paid \in Nat /\ new.credited \in Nat
  BY <1>3 DEF Invoice
<1>5. /\ Struck(gone[i]) \in Nat
      /\ i \notin lax => inv.total = inv.due + inv.paid + inv.credited + inv.writtenOff
                                   + Struck(gone[i])
  BY DEF SoundRow, SoundAllocation, Backed, AddsUp
<1> HIDE DEF new
<1>6. /\ new.status \in Collectible /\ new.status # "PAID" /\ new.due > 0
      /\ new.status \notin {"absent", "DRAFT"}
  BY <1>1, <1>2, <1>3 DEF Collectible
<1>7. i \notin lax => AddsUp(new, gone[i])
  BY <1>1, <1>2, <1>3, <1>4, <1>5 DEF AddsUp
<1>8. SoundRow(new, i \in lax, gone[i])
  BY <1>3, <1>5, <1>6, <1>7 DEF SoundRow
<1> QED BY <1>6, <1>8 DEF new, Unvoided, Finalized, Collectible

(* An allocation request, made to invoices that are sound. *)
LEMMA AllocationSound ==
  ASSUME NEW invs, NEW lax, NEW gone, NEW row, NEW s, NEW c, NEW alloc \in Allocations,
         Sound(invs, lax, gone), Remembers(row, invs, lax, gone), LoadTargets(invs, c, alloc)
  PROVE  /\ Sound(InvoicesAfter(invs, s, alloc), lax, gone)
         /\ KeepsBacked(InvoicesAfter(invs, s, alloc), invs, lax, gone)
         /\ Remembers(AppliedAfter(row, invs, alloc), InvoicesAfter(invs, s, alloc), lax, gone)
<1> DEFINE new == InvoicesAfter(invs, s, alloc)
           rows == AppliedAfter(row, invs, alloc)
<1>1. DOMAIN alloc \subseteq Invoices /\ \A i \in DOMAIN alloc : alloc[i] \in Amounts
  BY DEF Allocations
<1>2. Amounts \subseteq Nat \ {0}
  BY ReceivablesAssumption
<1>3. ASSUME NEW i \in DOMAIN alloc
      PROVE  /\ SoundRow(new[i], i \in lax, gone[i]) /\ new[i].status \in Unvoided
             /\ invs[i].status \in Collectible
  <2>1. /\ i \in Invoices /\ SoundRow(invs[i], i \in lax, gone[i]) /\ invs[i].status \in Collectible
        /\ alloc[i] <= invs[i].due /\ alloc[i] \in Nat \ {0}
    BY <1>1, <1>2, <1>3 DEF Sound, LoadTargets
  <2>2. new[i] = Reprojected(Settled(invs[i], s, alloc[i]))
    BY <2>1, <1>3 DEF InvoicesAfter
  <2> QED BY <2>1, <2>2, SettledSound
<1>4. \A i \in Invoices \ DOMAIN alloc : new[i] = invs[i]
  BY DEF InvoicesAfter
<1>5. new = [i \in Invoices |-> new[i]]
  BY DEF InvoicesAfter
<1>6. /\ rows = [i \in Invoices |-> rows[i]]
      /\ \A i \in Invoices \ DOMAIN alloc : rows[i] = row[i]
      /\ \A i \in DOMAIN alloc :
           rows[i] = [amount |-> row[i].amount + alloc[i],
                      before |-> row[i].before \cup {[status |-> invs[i].status,
                                                     paidAt |-> invs[i].paidAt]}]
  BY <1>1 DEF AppliedAfter
<1> HIDE DEF new, rows
<1>7. \A i \in Invoices : SoundRow(new[i], i \in lax, gone[i])
  BY <1>3, <1>4 DEF Sound
<1>8. Sound(new, lax, gone)
  <2>1. \A i \in Invoices : new[i] \in Invoice
    BY <1>7 DEF SoundRow
  <2> QED BY <1>5, <1>7, <2>1 DEF Sound
<1>9. KeepsBacked(new, invs, lax, gone)
  BY <1>3, <1>4, SoundBacked DEF KeepsBacked
<1>10. ASSUME NEW i \in Invoices PROVE SoundAllocation(rows[i], new[i], i \in lax, gone[i])
  <2>1. CASE i \in DOMAIN alloc
    <3> DEFINE moment == [status |-> invs[i].status, paidAt |-> invs[i].paidAt]
    <3>1. invs[i].paidAt = FALSE /\ invs[i].status \in Collectible
      BY <1>3, <2>1 DEF Sound, SoundRow, Invoice, Collectible
    <3>2. moment \in Moment /\ moment.paidAt = FALSE
      BY <3>1 DEF Moment
    <3>3. row[i] \in Applied /\ \A m \in row[i].before : m.paidAt = FALSE
      BY DEF Remembers, SoundAllocation
    <3>4. row[i].amount + alloc[i] \in Nat
      <4>1. row[i].amount \in Nat
        BY <3>3 DEF Applied
      <4>2. alloc[i] \in Nat
        BY <1>1, <1>2, <2>1
      <4> QED BY <4>1, <4>2
    <3>5. rows[i] = [amount |-> row[i].amount + alloc[i], before |-> row[i].before \cup {moment}]
      BY <1>6, <2>1
    <3>6. Backed(new[i], i \in lax, gone[i])
      BY <1>3, <2>1, SoundBacked
    <3> HIDE DEF moment
    <3>7. rows[i] \in Applied
      BY <3>2, <3>3, <3>4, <3>5 DEF Applied
    <3>8. \A m \in rows[i].before : m.paidAt = FALSE
      BY <3>2, <3>3, <3>5
    <3> QED BY <3>6, <3>7, <3>8 DEF SoundAllocation
  <2>2. CASE i \notin DOMAIN alloc
    BY <1>4, <1>6, <2>2 DEF Remembers
  <2> QED BY <2>1, <2>2
<1>11. Remembers(rows, new, lax, gone)
  <2>1. \A i \in Invoices : rows[i] \in Applied
    BY <1>10 DEF SoundAllocation
  <2> QED BY <1>6, <1>10, <2>1 DEF Remembers
<1> QED BY <1>8, <1>9, <1>11 DEF new, rows

(* All allocations of a source are taken back. *)
LEMMA ReversalSound ==
  ASSUME NEW invs, NEW lax, NEW gone, NEW row, NEW s, NEW last \in Restorations(row),
         Sound(invs, lax, gone), Remembers(row, invs, lax, gone), Storable(invs, row, s)
  PROVE  /\ Sound(InvoicesRestored(invs, s, row, last), lax, gone)
         /\ KeepsBacked(InvoicesRestored(invs, s, row, last), invs, lax, gone)
<1> DEFINE new == InvoicesRestored(invs, s, row, last)
<1>1. ASSUME NEW i \in Touched(row)
      PROVE  SoundRow(new[i], i \in lax, gone[i]) /\ new[i].status \in Unvoided
  <2>1. /\ i \in Invoices /\ row[i].amount > 0 /\ last[i] \in row[i].before
        /\ row[i].amount <= IF s \in Payments THEN invs[i].paid ELSE invs[i].credited
        /\ SoundRow(invs[i], i \in lax, gone[i]) /\ SoundAllocation(row[i], invs[i], i \in lax, gone[i])
    BY <1>1 DEF Touched, Restorations, Storable, Sound, Remembers
  <2>2. new[i] = Restored(invs[i], s, row[i].amount, last[i])
    BY <1>1, <2>1 DEF InvoicesRestored
  <2> QED BY <2>1, <2>2, RestoredSound
<1>2. \A i \in Invoices \ Touched(row) : new[i] = invs[i]
  BY DEF InvoicesRestored
<1>3. new = [i \in Invoices |-> new[i]]
  BY DEF InvoicesRestored
<1> HIDE DEF new
<1>4. \A i \in Invoices : SoundRow(new[i], i \in lax, gone[i])
  BY <1>1, <1>2 DEF Sound
<1>5. \A i \in Invoices : new[i] \in Invoice
  BY <1>4 DEF SoundRow
<1>6. KeepsBacked(new, invs, lax, gone)
  BY <1>1, <1>2, SoundBacked DEF KeepsBacked
<1> QED BY <1>3, <1>4, <1>5, <1>6 DEF Sound, new

-----------------------------------------------------------------------------
(* The steps, by what they do to the invoices and the allocations *)

(* One invoice is written and perhaps its invalidation; no allocation. *)
LEMMA OneAdvanced ==
  ASSUME InvoiceInv, NEW i \in Invoices, NEW row,
         invoices' = [invoices EXCEPT ![i] = row],
         SoundRow(row, i \in rewritten', invalidating'[i]), rewritten \subseteq rewritten',
         invalidating' = [j \in Invoices |-> invalidating'[j]],
         \A j \in Invoices \ {i} : invalidating'[j] = invalidating[j],
         SoundAdvance(invalidating'[i]),
         Backed(invoices[i], i \in rewritten, invalidating[i]) =>
           \/ Backed(row, i \in rewritten', invalidating'[i])
           \/ \A s \in Sources : applied[s][i].amount = 0,
         UNCHANGED applied
  PROVE  InvoiceInv'
<1>1. row \in Invoice /\ invoices \in [Invoices -> Invoice]
  BY DEF SoundRow, InvoiceInv, Sound
<1>2. invoices' \in [Invoices -> Invoice] /\ invoices'[i] = row
  BY <1>1
<1>3. \A j \in Invoices \ {i} : invoices'[j] = invoices[j] /\ invalidating'[j] = invalidating[j]
  BY <1>1
<1>4. ASSUME NEW j \in Invoices PROVE SoundRow(invoices'[j], j \in rewritten', invalidating'[j])
  <2>1. CASE j = i BY <1>2, <2>1
  <2>2. CASE j # i
    <3>1. /\ invoices'[j] = invoices[j] /\ invalidating'[j] = invalidating[j]
          /\ SoundRow(invoices[j], j \in rewritten, invalidating[j])
      BY <1>3, <2>2 DEF InvoiceInv, Sound
    <3> QED BY <3>1 DEF SoundRow
  <2> QED BY <2>1, <2>2
<1>5. Sound(invoices', rewritten', invalidating')
  BY <1>2, <1>4 DEF Sound
<1>6. ASSUME NEW s \in Sources, NEW j \in Invoices
      PROVE  SoundAllocation(applied[s][j], invoices'[j], j \in rewritten', invalidating'[j])
  <2>1. SoundAllocation(applied[s][j], invoices[j], j \in rewritten, invalidating[j])
    BY DEF InvoiceInv, Remembers
  <2>2. CASE j = i
    <3>1. \/ Backed(row, i \in rewritten', invalidating'[i]) \/ applied[s][i].amount = 0
          \/ ~ Backed(invoices[i], i \in rewritten, invalidating[i])
      OBVIOUS
    <3> QED BY <1>2, <2>1, <2>2, <3>1 DEF SoundAllocation
  <2>3. CASE j # i
    <3>1. invoices'[j] = invoices[j] /\ invalidating'[j] = invalidating[j]
      BY <1>3, <2>3
    <3> QED BY <2>1, <3>1 DEF SoundAllocation, Backed
  <2> QED BY <2>2, <2>3
<1>7. applied' \in [Sources -> [Invoices -> Applied]]
  BY DEF InvoiceInv
<1>8. \A s \in Sources : Remembers(applied'[s], invoices', rewritten', invalidating')
  BY <1>6 DEF InvoiceInv, Remembers
<1>9. \A j \in Invoices : SoundAdvance(invalidating'[j])
  BY <1>3 DEF InvoiceInv
<1> QED BY <1>5, <1>7, <1>8, <1>9 DEF InvoiceInv

LEMMA OneWritten ==
  ASSUME InvoiceInv, NEW i \in Invoices, NEW row,
         invoices' = [invoices EXCEPT ![i] = row],
         SoundRow(row, i \in rewritten', invalidating[i]), rewritten \subseteq rewritten',
         Backed(invoices[i], i \in rewritten, invalidating[i]) =>
           \/ Backed(row, i \in rewritten', invalidating[i])
           \/ \A s \in Sources : applied[s][i] = [amount |-> 0, before |-> {}],
         UNCHANGED <<applied, invalidating>>
  PROVE  InvoiceInv'
<1>1. /\ invalidating' = [j \in Invoices |-> invalidating'[j]]
      /\ SoundAdvance(invalidating'[i])
  BY DEF InvoiceInv
<1>2. (\A s \in Sources : applied[s][i] = [amount |-> 0, before |-> {}])
        => \A s \in Sources : applied[s][i].amount = 0
  OBVIOUS
<1> QED BY <1>1, <1>2, OneAdvanced

(* The invoices change, and the allocations of one source with them. *)
LEMMA SourceWritten ==
  ASSUME InvoiceInv, NEW s \in Sources, NEW row,
         Sound(invoices', rewritten, invalidating), KeepsBacked(invoices', invoices, rewritten, invalidating),
         applied' = [applied EXCEPT ![s] = row], Remembers(row, invoices', rewritten, invalidating),
         UNCHANGED <<rewritten, invalidating>>
  PROVE  InvoiceInv'
<1>1. applied' \in [Sources -> [Invoices -> Applied]] /\ applied'[s] = row
      /\ \A u \in Sources \ {s} : applied'[u] = applied[u]
  BY DEF InvoiceInv, Remembers
<1>2. \A u \in Sources \ {s} : Remembers(applied'[u], invoices', rewritten, invalidating)
  BY <1>1, KeptRemembers DEF InvoiceInv
<1>3. \A u \in Sources : Remembers(applied'[u], invoices', rewritten', invalidating')
  BY <1>1, <1>2
<1>4. Sound(invoices', rewritten', invalidating')
  OBVIOUS
<1> QED BY <1>1, <1>3, <1>4 DEF InvoiceInv

LEMMA DraftStep ==
  ASSUME InvoiceInv, NEW i \in Invoices, NEW total \in Totals, CreateDraft(i, total)
  PROVE  InvoiceInv'
<1> DEFINE row == [AbsentInvoice EXCEPT !.status = "DRAFT", !.total = total, !.due = total]
<1>1. total \in Nat
  BY ReceivablesAssumption
<1>2. /\ row \in Invoice /\ row.status = "DRAFT" /\ row.paidAt = FALSE
      /\ row.total = total /\ row.due = total /\ row.paid = 0 /\ row.credited = 0
      /\ row.writtenOff = 0
  BY <1>1 DEF AbsentInvoice, Invoice
<1>3. /\ invoices' = [invoices EXCEPT ![i] = row] /\ UNCHANGED <<applied, rewritten, invalidating>>
      /\ invoices[i].status = "absent" /\ invoices[i].status \notin Finalized
  BY DEF CreateDraft, besides, Finalized, Collectible
<1> HIDE DEF row
<1>4. Struck(invalidating[i]) = 0
  BY <1>3 DEF InvoiceInv, Sound, SoundRow
<1>5. SoundRow(row, i \in rewritten', invalidating[i])
  BY <1>1, <1>2, <1>4 DEF SoundRow, Invoice, Unvoided, Finalized, Collectible
<1> QED BY <1>3, <1>5, OneWritten DEF Backed

(* A row that differs in what no clause of SoundRow speaks of *)
LEMMA SameMoney ==
  ASSUME NEW old, NEW new, NEW i, NEW lax, NEW gone, SoundRow(old, i \in lax, gone[i]), new \in Invoice,
         new.status = old.status, new.paidAt = old.paidAt, new.due = old.due,
         new.total = old.total, new.paid = old.paid, new.credited = old.credited,
         new.writtenOff = old.writtenOff
  PROVE  /\ SoundRow(new, i \in lax, gone[i])
         /\ Backed(old, i \in lax, gone[i]) => Backed(new, i \in lax, gone[i])
BY DEF SoundRow, AddsUp, Backed

LEMMA DatesStep ==
  ASSUME InvoiceInv, NEW i \in Invoices, NEW late \in BOOLEAN,
         invoices' = [invoices EXCEPT ![i].late = late], UNCHANGED <<applied, rewritten, invalidating>>
  PROVE  InvoiceInv'
<1> DEFINE row == [invoices[i] EXCEPT !.late = late]
<1>1. invoices[i] \in Invoice /\ SoundRow(invoices[i], i \in rewritten, invalidating[i])
  BY DEF InvoiceInv, Sound
<1>2. row \in Invoice
  BY <1>1 DEF Invoice
<1>3. /\ row.status = invoices[i].status /\ row.paidAt = invoices[i].paidAt
      /\ row.due = invoices[i].due /\ row.total = invoices[i].total
      /\ row.paid = invoices[i].paid /\ row.credited = invoices[i].credited
      /\ row.writtenOff = invoices[i].writtenOff
  BY <1>1 DEF Invoice
<1>4. invoices' = [invoices EXCEPT ![i] = row]
  OBVIOUS
<1> HIDE DEF row
<1>5. /\ SoundRow(row, i \in rewritten, invalidating[i])
      /\ Backed(invoices[i], i \in rewritten, invalidating[i])
           => Backed(row, i \in rewritten, invalidating[i])
  BY <1>1, <1>2, <1>3, SameMoney
<1> QED BY <1>3, <1>4, <1>5, OneWritten

(* New lines owe what they add up to, whatever was paid before: a draft's  *)
(* row stays sound, any other is excepted from now on.                     *)
LEMMA LinesStep ==
  ASSUME InvoiceInv, NEW e, e.invoice \in Invoices, NEW total \in Totals,
         WriteLines(e, total)
  PROVE  InvoiceInv'
<1> DEFINE i   == e.invoice
           old == invoices[i]
           row == [old EXCEPT !.total = total, !.due = total]
<1>1. /\ old \in Invoice /\ SoundRow(old, i \in rewritten, invalidating[i]) /\ total \in Nat
  BY ReceivablesAssumption DEF InvoiceInv, Sound
<1>2. row \in Invoice
  BY <1>1 DEF Invoice
<1>3. /\ row.status = old.status /\ row.paidAt = old.paidAt
      /\ row.due = total /\ row.total = total
      /\ row.paid = old.paid /\ row.credited = old.credited
      /\ row.writtenOff = old.writtenOff
  BY <1>1 DEF Invoice
<1>4. invoices' = [invoices EXCEPT ![i] = row] /\ UNCHANGED <<applied, invalidating>>
  BY DEF WriteLines
<1>5. /\ rewritten \subseteq rewritten'
      /\ i \notin rewritten' => old.status = "DRAFT" /\ i \notin rewritten
  BY DEF WriteLines
<1> HIDE DEF row, old, i
<1>6. SoundRow(row, i \in rewritten', invalidating[i])
  BY <1>1, <1>2, <1>3, <1>5 DEF SoundRow, Unvoided, Finalized, Collectible
<1>7. Backed(old, i \in rewritten, invalidating[i]) => Backed(row, i \in rewritten', invalidating[i])
  BY <1>3, <1>5 DEF Backed, Finalized, Collectible
<1> QED
  <2>1. i \in Invoices /\ old = invoices[i]
    BY DEF i, old
  <2> QED BY <1>3, <1>4, <1>5, <1>6, <1>7, <2>1, OneWritten

LEMMA DeleteStep ==
  ASSUME InvoiceInv, NEW e, e.invoice \in Invoices, DeleteDraft(e)
  PROVE  InvoiceInv'
<1> DEFINE row == [AbsentInvoice EXCEPT !.status = "deleted"]
<1>1. /\ row \in Invoice /\ row.status = "deleted" /\ row.paidAt = FALSE
  BY DEF AbsentInvoice, Invoice, Missing
<1>2. /\ invoices' = [invoices EXCEPT ![e.invoice] = row] /\ UNCHANGED <<applied, rewritten, invalidating>>
      /\ \A s \in Sources : applied[s][e.invoice] = [amount |-> 0, before |-> {}]
  BY DEF DeleteDraft
<1> HIDE DEF row
<1>3. SoundRow(row, e.invoice \in rewritten', invalidating[e.invoice])
  <2>1. Struck(invalidating[e.invoice]) \in Nat
    BY DEF InvoiceInv, Sound, SoundRow
  <2> QED BY <1>1, <2>1 DEF SoundRow, Invoice, Missing, Unvoided, Finalized, Collectible
<1> QED BY <1>2, <1>3, OneWritten

LEMMA MarkedSound ==
  ASSUME NEW inv, NEW i, NEW lax, NEW gone, SoundRow(inv, i \in lax, gone[i]), inv.status = "DRAFT"
  PROVE  /\ SoundRow(MarkedFinalized(inv), i \in lax, gone[i])
         /\ MarkedFinalized(inv).status \in {"PAID", "OPEN"}
<1> DEFINE new == MarkedFinalized(inv)
<1>1. inv \in Invoice /\ inv.total \in Nat /\ inv.due \in Nat
  BY DEF SoundRow, Invoice
<1>2. new \in Invoice
  BY <1>1 DEF MarkedFinalized, Invoice, Finalized, Collectible
<1>3. /\ new.status = (IF inv.total = 0 THEN "PAID" ELSE "OPEN")
      /\ new.paidAt = (inv.total = 0)
      /\ new.due = inv.due /\ new.total = inv.total /\ new.paid = inv.paid
      /\ new.credited = inv.credited /\ new.writtenOff = inv.writtenOff
  BY <1>1 DEF MarkedFinalized, Invoice
<1> HIDE DEF new
<1>4. /\ Struck(gone[i]) = 0
      /\ i \notin lax => /\ inv.due = inv.total /\ inv.paid = 0 /\ inv.credited = 0
                         /\ inv.writtenOff = 0
  BY DEF SoundRow
<1>5. new.paidAt <=> new.status = "PAID"
  BY <1>3
<1>6. new.status \in {"PAID", "OPEN"}
  BY <1>3
<1>7. i \notin lax => /\ AddsUp(new, gone[i])
                     /\ (new.status \in Collectible <=> new.due > 0)
  BY <1>1, <1>3, <1>4 DEF Collectible, AddsUp
<1>8. SoundRow(new, i \in lax, gone[i])
  BY <1>2, <1>4, <1>5, <1>6, <1>7 DEF SoundRow
<1> QED BY <1>6, <1>8 DEF new

LEMMA FinalizeStep ==
  ASSUME InvoiceInv, NEW i \in Invoices, FinalizeInvoice(i)
  PROVE  InvoiceInv'
<1> DEFINE row == MarkedFinalized(invoices[i])
<1>1. SoundRow(invoices[i], i \in rewritten, invalidating[i]) /\ invoices[i].status = "DRAFT"
  BY DEF InvoiceInv, Sound, FinalizeInvoice
<1>2. invoices' = [invoices EXCEPT ![i] = row] /\ UNCHANGED <<applied, rewritten, invalidating>>
  BY DEF FinalizeInvoice, besides
<1>3. SoundRow(row, i \in rewritten', invalidating[i]) /\ row.status \in {"PAID", "OPEN"}
  BY <1>1, <1>2, MarkedSound
<1> HIDE DEF row
<1>4. Backed(row, i \in rewritten', invalidating[i])
  BY <1>2, <1>3, SoundBacked DEF Unvoided, Finalized, Collectible
<1> QED BY <1>2, <1>3, <1>4, OneWritten

(* A row whose status alone becomes another one that can be collected *)
LEMMA Relabeled ==
  ASSUME NEW old, NEW new, NEW i, NEW lax, NEW gone, SoundRow(old, i \in lax, gone[i]), new \in Invoice,
         old.status \in Collectible, new.status \in Collectible,
         new.paidAt = old.paidAt, new.due = old.due,
         new.total = old.total, new.paid = old.paid, new.credited = old.credited,
         new.writtenOff = old.writtenOff
  PROVE  SoundRow(new, i \in lax, gone[i]) /\ new.status \in Unvoided
BY DEF SoundRow, AddsUp, Collectible, Unvoided, Finalized

LEMMA SendStep ==
  ASSUME InvoiceInv, NEW i \in Invoices, SendInvoice(i)
  PROVE  InvoiceInv'
<1> DEFINE old == invoices[i]
           row == [old EXCEPT !.sent = TRUE,
                              !.status = IF old.status = "OPEN" THEN "SENT" ELSE old.status]
<1>1. old \in Invoice /\ SoundRow(old, i \in rewritten, invalidating[i]) /\ invoices \in [Invoices -> Invoice]
  BY DEF InvoiceInv, Sound
<1>2. /\ invoices' = [invoices EXCEPT ![i] = row] /\ UNCHANGED <<applied, rewritten, invalidating>>
      /\ old.status \in Collectible \cup {"PAID"}
  BY <1>1 DEF SendInvoice, besides
<1>3. row \in Invoice
  BY <1>1 DEF Invoice, Finalized, Collectible
<1>4. /\ row.status = (IF old.status = "OPEN" THEN "SENT" ELSE old.status)
      /\ row.paidAt = old.paidAt
      /\ row.due = old.due /\ row.total = old.total
      /\ row.paid = old.paid /\ row.credited = old.credited
      /\ row.writtenOff = old.writtenOff
  BY <1>1 DEF Invoice
<1>5. SoundRow(row, i \in rewritten, invalidating[i]) /\ row.status \in Unvoided
  <2> HIDE DEF row, old
  <2>1. CASE old.status = "PAID"
    BY <1>1, <1>3, <1>4, <2>1, SameMoney DEF Unvoided, Finalized
  <2>2. CASE old.status # "PAID"
    <3>1. old.status \in Collectible /\ row.status \in Collectible
      BY <1>2, <1>4, <2>2 DEF Collectible
    <3> QED BY <1>1, <1>3, <1>4, <3>1, Relabeled
  <2> QED BY <2>1, <2>2
<1> HIDE DEF row
<1>6. Backed(row, i \in rewritten, invalidating[i])
  BY <1>5, SoundBacked
<1> QED BY <1>2, <1>5, <1>6, OneWritten

LEMMA OverdueStep ==
  ASSUME InvoiceInv, MarkOverdue
  PROVE  InvoiceInv'
<1>1. /\ invoices' = [i \in Invoices |-> invoices'[i]]
      /\ \A i \in Invoices : ~ OverdueCandidate(i) => invoices'[i] = invoices[i]
      /\ \A i \in Invoices : OverdueCandidate(i) =>
            invoices'[i] = [invoices[i] EXCEPT !.status = "OVERDUE"]
      /\ UNCHANGED <<applied, rewritten, invalidating>>
  BY DEF MarkOverdue, besides
<1>2. ASSUME NEW i \in Invoices, OverdueCandidate(i)
      PROVE  SoundRow(invoices'[i], i \in rewritten, invalidating[i]) /\ invoices'[i].status \in Unvoided
  <2> DEFINE old == invoices[i]
             row == [old EXCEPT !.status = "OVERDUE"]
  <2>1. /\ old \in Invoice /\ SoundRow(old, i \in rewritten, invalidating[i]) /\ old.status \in Collectible
    BY <1>2 DEF InvoiceInv, Sound, OverdueCandidate
  <2>2. row \in Invoice
    BY <2>1 DEF Invoice, Finalized, Collectible
  <2>3. /\ row.status = "OVERDUE" /\ row.paidAt = old.paidAt
        /\ row.due = old.due /\ row.total = old.total
        /\ row.paid = old.paid /\ row.credited = old.credited
        /\ row.writtenOff = old.writtenOff
    BY <2>1 DEF Invoice
  <2>4. invoices'[i] = row /\ "OVERDUE" \in Collectible
    BY <1>1, <1>2 DEF Collectible
  <2> HIDE DEF row, old
  <2> QED BY <2>1, <2>2, <2>3, <2>4, Relabeled
<1>3. \A i \in Invoices : SoundRow(invoices'[i], i \in rewritten, invalidating[i])
  BY <1>1, <1>2 DEF InvoiceInv, Sound
<1>4. \A i \in Invoices : invoices'[i] \in Invoice
  BY <1>3 DEF SoundRow
<1>5. Sound(invoices', rewritten', invalidating')
  BY <1>1, <1>3, <1>4 DEF Sound
<1>6. KeepsBacked(invoices', invoices, rewritten, invalidating)
  BY <1>1, <1>2, SoundBacked DEF KeepsBacked
<1>7. \A s \in Sources : Remembers(applied[s], invoices', rewritten, invalidating)
  BY <1>6, KeptRemembers DEF InvoiceInv
<1> QED BY <1>1, <1>5, <1>7 DEF InvoiceInv

LEMMA VoidStep ==
  ASSUME InvoiceInv, NEW i \in Invoices, VoidInvoice(i)
  PROVE  InvoiceInv'
<1> DEFINE old == invoices[i]
           row == [old EXCEPT !.status = "VOID", !.due = 0]
<1>1. /\ old \in Invoice /\ SoundRow(old, i \in rewritten, invalidating[i]) /\ old.status \in Collectible
      /\ \A s \in Sources : applied[s][i] = [amount |-> 0, before |-> {}]
      /\ UNCHANGED <<applied, rewritten, invalidating>>
  BY DEF InvoiceInv, Sound, VoidInvoice, besides
<1>2. invoices' = [invoices EXCEPT ![i] = row]
  BY DEF VoidInvoice, InvoiceInv, Sound
<1>3. row \in Invoice
  BY <1>1 DEF Invoice, Finalized
<1>4. row.status = "VOID" /\ row.due = 0 /\ row.paidAt = old.paidAt
  BY <1>1 DEF Invoice
<1> HIDE DEF row, old
<1>5. SoundRow(row, i \in rewritten', invalidating[i])
  BY <1>1, <1>3, <1>4 DEF SoundRow, Collectible, Finalized, Unvoided
<1> QED BY <1>1, <1>2, <1>5, OneWritten

LEMMA WriteOffStep ==
  ASSUME InvoiceInv, NEW i \in Invoices, WriteOffInvoice(i)
  PROVE  InvoiceInv'
<1> DEFINE old == invoices[i]
           row == [old EXCEPT !.status = "UNCOLLECTIBLE", !.due = 0, !.paidAt = FALSE,
                              !.writtenOff = old.writtenOff + old.due]
<1>1. /\ old \in Invoice /\ SoundRow(old, i \in rewritten, invalidating[i]) /\ old.status \in Collectible
      /\ UNCHANGED <<applied, rewritten, invalidating>>
  BY DEF InvoiceInv, Sound, WriteOffInvoice, besides
<1>2. invoices' = [invoices EXCEPT ![i] = row]
  BY DEF WriteOffInvoice
<1>3. /\ old.due \in Nat /\ old.writtenOff \in Nat /\ old.paid \in Nat /\ old.credited \in Nat
      /\ old.writtenOff + old.due \in Nat
  BY <1>1 DEF Invoice
<1>4. row \in Invoice
  BY <1>1, <1>3 DEF Invoice, Finalized
<1>5. /\ row.status = "UNCOLLECTIBLE" /\ row.due = 0 /\ row.paidAt = FALSE
      /\ row.writtenOff = old.writtenOff + old.due /\ row.paid = old.paid
      /\ row.credited = old.credited /\ row.total = old.total
  BY <1>1 DEF Invoice
<1> HIDE DEF row, old
<1>6. /\ Struck(invalidating[i]) \in Nat
      /\ i \notin rewritten => old.total = old.due + old.paid + old.credited + old.writtenOff
                                         + Struck(invalidating[i])
  BY <1>1 DEF SoundRow, AddsUp, Collectible, Finalized, Unvoided
<1>7. i \notin rewritten => AddsUp(row, invalidating[i])
  BY <1>3, <1>5, <1>6 DEF AddsUp
<1>8. SoundRow(row, i \in rewritten', invalidating[i]) /\ row.status \in Unvoided
  BY <1>1, <1>4, <1>5, <1>6, <1>7 DEF SoundRow, Collectible, Finalized, Unvoided
<1>9. Backed(row, i \in rewritten', invalidating[i])
  BY <1>1, <1>8, SoundBacked
<1> QED BY <1>1, <1>2, <1>8, <1>9, OneWritten

-----------------------------------------------------------------------------
(* The steps of an invalidation *)

(* What the steps make of an invalidation *)
LEMMA AdvanceRow ==
  ASSUME NEW v, SoundAdvance(v), NEW x, NEW y
  PROVE  [v EXCEPT !.phase = x, !.row = y] = [phase |-> x, row |-> y, column |-> v.column]
<1> DEFINE new == [v EXCEPT !.phase = x, !.row = y]
<1>1. /\ new = [f \in {"phase", "row", "column"} |-> new[f]]
      /\ new.phase = x /\ new.row = y /\ new.column = v.column
  BY DEF SoundAdvance
<1> HIDE DEF new
<1>2. new = [phase |-> x, row |-> y, column |-> v.column]
  BY <1>1
<1> QED BY <1>2 DEF new

LEMMA AdvanceColumn ==
  ASSUME NEW v, SoundAdvance(v), NEW x, NEW y
  PROVE  /\ [v EXCEPT !.phase = x, !.column = y] = [phase |-> x, row |-> v.row, column |-> y]
         /\ v.row \in Invoice
<1> DEFINE new == [v EXCEPT !.phase = x, !.column = y]
<1>1. /\ new = [f \in {"phase", "row", "column"} |-> new[f]]
      /\ new.phase = x /\ new.row = v.row /\ new.column = y
  BY DEF SoundAdvance
<1>2. v.row \in Invoice
  BY DEF SoundAdvance
<1> HIDE DEF new
<1>3. new = [phase |-> x, row |-> v.row, column |-> y]
  BY <1>1
<1> QED BY <1>2, <1>3 DEF new

(* An invalidation that is not done strikes out nothing. *)
LEMMA OpenAdvanceStep ==
  ASSUME InvoiceInv, NEW i \in Invoices,
         ReadAdvance(i) \/ WriteAdvance(i) \/ AbortAdvance(i)
  PROVE  InvoiceInv'
<1> DEFINE v == invalidating[i]
<1>1. /\ UNCHANGED <<invoices, applied, rewritten>> /\ v.phase \in {"none", "read", "written"}
      /\ \E phase \in {"none", "read", "written"}, row \in Invoice : \E column :
           invalidating' = [invalidating EXCEPT
                              ![i] = [phase |-> phase, row |-> row, column |-> column]]
  <2>1. SoundAdvance(v)
    BY DEF InvoiceInv
  <2>2. CASE ReadAdvance(i)
    <3>1. invoices[i] \in Invoice
      BY DEF InvoiceInv, Sound
    <3>2. invalidating' = [invalidating EXCEPT
             ![i] = [v EXCEPT !.phase = "read", !.row = invoices[i]]]
      BY <2>2 DEF ReadAdvance
    <3>3. invalidating' = [invalidating EXCEPT
             ![i] = [phase |-> "read", row |-> invoices[i], column |-> v.column]]
      BY <2>1, <3>2, AdvanceRow
    <3>4. UNCHANGED <<invoices, applied, rewritten>> /\ v.phase = "none"
      BY <2>2 DEF ReadAdvance
    <3> HIDE DEF v
    <3> QED BY <3>1, <3>3, <3>4
  <2>3. CASE WriteAdvance(i)
    <3>1. PICK column : invalidating' = [invalidating EXCEPT
             ![i] = [v EXCEPT !.phase = "written", !.column = column]]
      BY <2>3 DEF WriteAdvance
    <3>2. invalidating' = [invalidating EXCEPT
             ![i] = [phase |-> "written", row |-> v.row, column |-> column]]
      <4>1. [v EXCEPT !.phase = "written", !.column = column]
              = [phase |-> "written", row |-> v.row, column |-> column]
        <5> HIDE DEF v
        <5> QED BY <2>1, AdvanceColumn
      <4> QED BY <3>1, <4>1
    <3>3. UNCHANGED <<invoices, applied, rewritten>> /\ v.phase = "read"
      BY <2>3 DEF WriteAdvance
    <3>4. v.row \in Invoice
      BY <2>1, AdvanceColumn
    <3> HIDE DEF v
    <3> QED BY <3>2, <3>3, <3>4
  <2>4. CASE AbortAdvance(i)
    <3>1. AbsentInvoice \in Invoice
      BY DEF AbsentInvoice, Invoice, Missing
    <3> QED BY <2>4, <3>1 DEF AbortAdvance, NotInvalidating
  <2> QED BY <2>2, <2>3, <2>4
<1>2. PICK phase \in {"none", "read", "written"}, row \in Invoice : \E column :
        invalidating' = [invalidating EXCEPT
                           ![i] = [phase |-> phase, row |-> row, column |-> column]]
  BY <1>1
<1>3. PICK column : invalidating' = [invalidating EXCEPT
                      ![i] = [phase |-> phase, row |-> row, column |-> column]]
  BY <1>2
<1> DEFINE new == [phase |-> phase, row |-> row, column |-> column]
<1>4. /\ invalidating' = [j \in Invoices |-> invalidating'[j]]
      /\ invalidating'[i] = new
      /\ \A j \in Invoices \ {i} : invalidating'[j] = invalidating[j]
  <2> HIDE DEF new
  <2>1. invalidating = [j \in Invoices |-> invalidating[j]]
    BY DEF InvoiceInv
  <2>2. invalidating' = [invalidating EXCEPT ![i] = new]
    BY <1>3 DEF new
  <2> QED BY <2>1, <2>2
<1>5. SoundAdvance(new) /\ new.phase \in {"none", "read", "written"}
  BY DEF SoundAdvance
<1> HIDE DEF new
<1>6. Struck(new) = 0 /\ Struck(v) = 0
  BY <1>1, <1>5 DEF Struck
<1>7. /\ SoundRow(invoices[i], i \in rewritten', new)
      /\ Backed(invoices[i], i \in rewritten, v) => Backed(invoices[i], i \in rewritten', new)
  <2>1. SoundRow(invoices[i], i \in rewritten, v)
    BY DEF InvoiceInv, Sound
  <2> QED BY <1>1, <1>6, <2>1 DEF SoundRow, Backed, AddsUp
<1>8. invoices' = [invoices EXCEPT ![i] = invoices[i]]
  BY <1>1 DEF InvoiceInv, Sound
<1> QED BY <1>1, <1>4, <1>5, <1>7, <1>8, OneAdvanced

(* What was due is struck out; nothing else of the invoice moves. *)
LEMMA CommitAdvanceStep ==
  ASSUME InvoiceInv, NEW i \in Invoices, CommitAdvance(i)
  PROVE  InvoiceInv'
<1> DEFINE old == invoices[i]
           row == [old EXCEPT !.status = "VOID", !.due = 0]
           v   == invalidating[i]
           new == [phase |-> "done", row |-> old, column |-> v.column]
<1>1. /\ old \in Invoice /\ SoundRow(old, i \in rewritten, v) /\ v.phase = "written"
      /\ UNCHANGED <<applied, rewritten>>
  BY DEF InvoiceInv, Sound, CommitAdvance
<1>2. invoices' = [invoices EXCEPT ![i] = row]
  BY DEF CommitAdvance, Invalidated
<1>3. invalidating' = [invalidating EXCEPT ![i] = new]
  <2>1. SoundAdvance(v)
    BY DEF InvoiceInv
  <2>2. invalidating' = [invalidating EXCEPT ![i] = [v EXCEPT !.phase = "done", !.row = old]]
    BY DEF CommitAdvance
  <2> QED BY <2>1, <2>2, AdvanceRow
<1>4. row \in Invoice
  BY <1>1 DEF Invoice, Finalized
<1>5. /\ row.status = "VOID" /\ row.due = 0 /\ row.paidAt = old.paidAt
      /\ row.paid = old.paid /\ row.credited = old.credited
      /\ row.total = old.total /\ row.writtenOff = old.writtenOff
  BY <1>1 DEF Invoice
<1>6. /\ old.due \in Nat /\ old.writtenOff \in Nat /\ old.paid \in Nat /\ old.credited \in Nat
  BY <1>1 DEF Invoice
<1>7. SoundAdvance(new) /\ new.phase = "done" /\ new.row = old
  BY <1>1 DEF SoundAdvance
<1>8. /\ invalidating' = [j \in Invoices |-> invalidating'[j]] /\ invalidating'[i] = new
      /\ \A j \in Invoices \ {i} : invalidating'[j] = invalidating[j]
  <2> HIDE DEF new
  <2>1. invalidating = [j \in Invoices |-> invalidating[j]]
    BY DEF InvoiceInv
  <2> QED BY <1>3, <2>1
<1> HIDE DEF row, new, v, old
<1>9. Struck(v) = 0 /\ Struck(new) = IF old.status \in Collectible THEN old.due ELSE 0
  BY <1>1, <1>7 DEF Struck
<1>10. old.paidAt => old.status = "PAID"
  BY <1>1 DEF SoundRow
<1>11. SoundRow(row, i \in rewritten', new)
  BY <1>1, <1>4, <1>5, <1>6, <1>7, <1>9, <1>10 DEF SoundRow, Unvoided, Collectible
<1>12. Backed(old, i \in rewritten, v) => Backed(row, i \in rewritten', new)
  <2> SUFFICES ASSUME Backed(old, i \in rewritten, v)
               PROVE  Backed(row, i \in rewritten', new)
    OBVIOUS
  <2>1. i \notin rewritten =>
          old.due = Struck(new) /\ old.total = old.due + old.paid + old.credited + old.writtenOff
    BY <1>1, <1>6, <1>9 DEF SoundRow, Backed, AddsUp
  <2>2. i \notin rewritten => AddsUp(row, new)
    BY <1>5, <1>6, <2>1 DEF AddsUp
  <2> QED BY <1>1, <1>5, <2>2 DEF Backed, Finalized
<1> QED BY <1>1, <1>2, <1>8, <1>7, <1>11, <1>12, OneAdvanced DEF old, v

-----------------------------------------------------------------------------
(* The steps of payments and credit notes *)

LEMMA KeptFinalTransitive ==
  ASSUME NEW a, NEW b, NEW c, NEW lax, NEW gone,
         KeepsBacked(b, a, lax, gone), KeepsBacked(c, b, lax, gone)
  PROVE  KeepsBacked(c, a, lax, gone)
BY DEF KeepsBacked

(* An allocation made from a source, whatever else the step writes *)
LEMMA AllocateStep ==
  ASSUME InvoiceInv, NEW s \in Sources, NEW c, NEW alloc \in Allocations,
         LoadTargets(invoices, c, alloc),
         invoices' = InvoicesAfter(invoices, s, alloc),
         applied' = [applied EXCEPT ![s] = AppliedAfter(applied[s], invoices, alloc)],
         UNCHANGED <<rewritten, invalidating>>
  PROVE  InvoiceInv'
<1> DEFINE row == AppliedAfter(applied[s], invoices, alloc)
<1>1. Sound(invoices, rewritten, invalidating) /\ Remembers(applied[s], invoices, rewritten, invalidating)
  BY DEF InvoiceInv
<1>2. /\ Sound(invoices', rewritten, invalidating) /\ KeepsBacked(invoices', invoices, rewritten, invalidating)
      /\ Remembers(row, invoices', rewritten, invalidating)
  BY <1>1, AllocationSound
<1>3. applied' = [applied EXCEPT ![s] = row]
  OBVIOUS
<1> HIDE DEF row
<1> QED BY <1>2, <1>3, SourceWritten

(* A source whose allocations are all taken back *)
LEMMA TakeBackStep ==
  ASSUME InvoiceInv, NEW s \in Sources, Storable(invoices, applied[s], s),
         NEW last \in Restorations(applied[s]),
         invoices' = InvoicesRestored(invoices, s, applied[s], last),
         applied' = [applied EXCEPT ![s] = NothingApplied],
         UNCHANGED <<rewritten, invalidating>>
  PROVE  InvoiceInv'
<1>1. Sound(invoices, rewritten, invalidating) /\ Remembers(applied[s], invoices, rewritten, invalidating)
  BY DEF InvoiceInv
<1>2. Sound(invoices', rewritten, invalidating) /\ KeepsBacked(invoices', invoices, rewritten, invalidating)
  BY <1>1, ReversalSound
<1>3. Remembers(NothingApplied, invoices', rewritten, invalidating)
  BY NothingRemembered
<1> QED BY <1>2, <1>3, SourceWritten

(* A correction takes everything back and allocates anew. *)
LEMMA UpdatePaymentStep ==
  ASSUME InvoiceInv, NEW p \in Payments, NEW c, NEW amount, NEW alloc \in Allocations,
         UpdatePayment(p, c, amount, alloc)
  PROVE  InvoiceInv'
<1>1. PICK last \in Restorations(applied[p]) :
        /\ LoadTargets(InvoicesRestored(invoices, p, applied[p], last), c, alloc)
        /\ applied' = [applied EXCEPT ![p] = AppliedAfter(NothingApplied,
              InvoicesRestored(invoices, p, applied[p], last), alloc)]
        /\ invoices' = InvoicesAfter(InvoicesRestored(invoices, p, applied[p], last), p, alloc)
  BY DEF UpdatePayment
<1> DEFINE back == InvoicesRestored(invoices, p, applied[p], last)
           row  == AppliedAfter(NothingApplied, back, alloc)
<1>2. /\ p \in Sources /\ Storable(invoices, applied[p], p) /\ UNCHANGED <<rewritten, invalidating>>
  BY DEF UpdatePayment, besides, Sources
<1>3. Sound(invoices, rewritten, invalidating) /\ Remembers(applied[p], invoices, rewritten, invalidating)
  BY <1>2 DEF InvoiceInv
<1>4. Sound(back, rewritten, invalidating) /\ KeepsBacked(back, invoices, rewritten, invalidating)
  BY <1>2, <1>3, ReversalSound
<1>5. /\ LoadTargets(back, c, alloc) /\ invoices' = InvoicesAfter(back, p, alloc)
      /\ applied' = [applied EXCEPT ![p] = row]
  BY <1>1
<1> HIDE DEF back
<1>6. Remembers(NothingApplied, back, rewritten, invalidating)
  BY NothingRemembered
<1>7. /\ Sound(invoices', rewritten, invalidating) /\ KeepsBacked(invoices', back, rewritten, invalidating)
      /\ Remembers(row, invoices', rewritten, invalidating)
  BY <1>4, <1>5, <1>6, AllocationSound
<1>8. KeepsBacked(invoices', invoices, rewritten, invalidating)
  BY <1>4, <1>7, KeptFinalTransitive
<1> HIDE DEF row
<1> QED BY <1>2, <1>5, <1>7, <1>8, SourceWritten

LEMMA PaymentStepSound ==
  ASSUME InvoiceInv, PaymentStep
  PROVE  InvoiceInv'
<1>1. PICK p \in Payments :
        \/ \E c \in Customers, amount \in Amounts, alloc \in Allocations :
             CreatePayment(p, c, amount, alloc) \/ UpdatePayment(p, c, amount, alloc)
        \/ \E c \in Customers, amount \in Amounts : ConfirmIntent(p, c, amount)
        \/ \E alloc \in Allocations : ApplyPayment(p, alloc)
        \/ \E amount \in Amounts : RefundPayment(p, amount)
        \/ CancelPayment(p)
  BY DEF PaymentStep
<1>2. p \in Sources
  BY DEF Sources
<1>3. ASSUME NEW c \in Customers, NEW amount \in Amounts, NEW alloc \in Allocations,
             CreatePayment(p, c, amount, alloc)
      PROVE  InvoiceInv'
  BY <1>2, <1>3, AllocateStep DEF CreatePayment, besides
<1>4. ASSUME NEW alloc \in Allocations, ApplyPayment(p, alloc)
      PROVE  InvoiceInv'
  BY <1>2, <1>4, AllocateStep DEF ApplyPayment, besides
<1>5. CASE CancelPayment(p)
  <2>1. PICK last \in Restorations(applied[p]) :
          invoices' = InvoicesRestored(invoices, p, applied[p], last)
    BY <1>5 DEF CancelPayment
  <2>2. /\ Storable(invoices, applied[p], p) /\ UNCHANGED <<rewritten, invalidating>>
        /\ applied' = [applied EXCEPT ![p] = NothingApplied]
    BY <1>5 DEF CancelPayment, besides
  <2> QED BY <1>2, <2>1, <2>2, TakeBackStep
<1>6. ASSUME NEW c \in Customers, NEW amount \in Amounts,
             ConfirmIntent(p, c, amount) \/ RefundPayment(p, amount)
      PROVE  InvoiceInv'
  <2>1. UNCHANGED <<invoices, applied, rewritten, invalidating>>
    BY <1>6 DEF ConfirmIntent, RefundPayment, besides
  <2> QED BY <2>1 DEF InvoiceInv
<1>7. ASSUME NEW amount \in Amounts, RefundPayment(p, amount)
      PROVE  InvoiceInv'
  <2>1. UNCHANGED <<invoices, applied, rewritten, invalidating>>
    BY <1>7 DEF RefundPayment, besides
  <2> QED BY <2>1 DEF InvoiceInv
<1> QED BY <1>1, <1>3, <1>4, <1>5, <1>6, <1>7, UpdatePaymentStep

LEMMA CreditNoteStepSound ==
  ASSUME InvoiceInv, CreditNoteStep
  PROVE  InvoiceInv'
<1>1. PICK n \in CreditNotes :
        \/ \E total \in Amounts : BeginIssue(n, total)
        \/ CommitIssue(n) \/ AbortIssue(n)
        \/ \E alloc \in Allocations : ApplyCreditNote(n, alloc)
        \/ \E amount \in Amounts : RefundCreditNote(n, amount)
        \/ VoidCreditNote(n)
  BY DEF CreditNoteStep
<1>2. n \in Sources
  BY DEF Sources
<1>3. ASSUME NEW alloc \in Allocations, ApplyCreditNote(n, alloc)
      PROVE  InvoiceInv'
  BY <1>2, <1>3, AllocateStep DEF ApplyCreditNote, besides
<1>4. CASE VoidCreditNote(n)
  <2>1. PICK last \in Restorations(applied[n]) :
          invoices' = InvoicesRestored(invoices, n, applied[n], last)
    BY <1>4 DEF VoidCreditNote
  <2>2. /\ Storable(invoices, applied[n], n) /\ UNCHANGED <<rewritten, invalidating>>
        /\ applied' = [applied EXCEPT ![n] = NothingApplied]
    BY <1>4 DEF VoidCreditNote, besides
  <2> QED BY <1>2, <2>1, <2>2, TakeBackStep
<1>5. ASSUME NEW total \in Amounts,
             BeginIssue(n, total) \/ RefundCreditNote(n, total)
      PROVE  InvoiceInv'
  <2>1. UNCHANGED <<invoices, applied, rewritten, invalidating>>
    BY <1>5 DEF BeginIssue, RefundCreditNote, besides
  <2> QED BY <2>1 DEF InvoiceInv
<1>6. CASE CommitIssue(n) \/ AbortIssue(n)
  <2>1. UNCHANGED <<invoices, applied, rewritten, invalidating>>
    BY <1>6 DEF CommitIssue, AbortIssue
  <2> QED BY <2>1 DEF InvoiceInv
<1> QED BY <1>1, <1>3, <1>4, <1>5, <1>6

-----------------------------------------------------------------------------
(* Finalizing an invoice with the customer's credits *)

(* What a source's allocation on the finalized invoice may be *)
FirstAllocation(a) ==
  /\ a \in Applied
  /\ \A m \in a.before : m.paidAt = FALSE

LEMMA CreditsWritten ==
  ASSUME InvoiceInv, NEW i \in Invoices, NEW row,
         invoices' = [invoices EXCEPT ![i] = row], UNCHANGED <<rewritten, invalidating>>,
         SoundRow(row, i \in rewritten, invalidating[i]), row.status \in Unvoided,
         applied' = [s \in Sources |-> applied'[s]],
         \A s \in Sources :
           \/ applied'[s] = applied[s]
           \/ \E a : FirstAllocation(a) /\ applied'[s] = [applied[s] EXCEPT ![i] = a]
  PROVE  InvoiceInv'
<1>1. /\ row \in Invoice /\ invoices \in [Invoices -> Invoice]
      /\ applied \in [Sources -> [Invoices -> Applied]]
  BY DEF SoundRow, InvoiceInv, Sound
<1>2. /\ invoices' \in [Invoices -> Invoice] /\ invoices'[i] = row
      /\ \A j \in Invoices \ {i} : invoices'[j] = invoices[j]
  BY <1>1
<1>3. \A j \in Invoices : SoundRow(invoices'[j], j \in rewritten, invalidating[j])
  BY <1>2 DEF InvoiceInv, Sound
<1>4. KeepsBacked(invoices', invoices, rewritten, invalidating)
  BY <1>2, SoundBacked DEF KeepsBacked
<1>5. ASSUME NEW s \in Sources PROVE Remembers(applied'[s], invoices', rewritten, invalidating)
  <2>1. Remembers(applied[s], invoices', rewritten, invalidating)
    BY <1>4, KeptRemembers DEF InvoiceInv
  <2>2. CASE applied'[s] = applied[s]
    BY <2>1, <2>2
  <2>3. ASSUME NEW a, FirstAllocation(a), applied'[s] = [applied[s] EXCEPT ![i] = a]
        PROVE  Remembers(applied'[s], invoices', rewritten, invalidating)
    <3>1. /\ applied'[s] \in [Invoices -> Applied] /\ applied'[s][i] = a
          /\ \A j \in Invoices \ {i} : applied'[s][j] = applied[s][j]
      BY <1>1, <2>3 DEF FirstAllocation
    <3>2. SoundAllocation(a, invoices'[i], i \in rewritten, invalidating[i])
      BY <1>2, <2>3, SoundBacked DEF FirstAllocation, SoundAllocation
    <3>3. \A j \in Invoices : SoundAllocation(applied'[s][j], invoices'[j], j \in rewritten, invalidating[j])
      BY <2>1, <3>1, <3>2 DEF Remembers
    <3> QED BY <3>1, <3>3 DEF Remembers
  <2> QED BY <2>2, <2>3
<1>6. applied' \in [Sources -> [Invoices -> Applied]]
  <2>1. \A s \in Sources : applied'[s] \in [Invoices -> Applied]
    BY <1>5 DEF Remembers
  <2> QED BY <2>1
<1>7. Sound(invoices', rewritten', invalidating')
  BY <1>2, <1>3 DEF Sound
<1> QED BY <1>5, <1>6, <1>7 DEF InvoiceInv

(* The draft is finalized and drawn down by what was paid and credited.    *)
LEMMA DrawnSound ==
  ASSUME NEW inv, NEW i, NEW lax, NEW gone, SoundRow(inv, i \in lax, gone[i]), inv.status = "DRAFT",
         NEW paid \in 0..inv.due, NEW credited \in 0..inv.due, paid + credited <= inv.due
  PROVE  LET new == Reprojected([MarkedFinalized(inv) EXCEPT !.due = @ - paid - credited,
                                      !.paid = @ + paid, !.credited = @ + credited])
         IN  SoundRow(new, i \in lax, gone[i]) /\ new.status \in Unvoided
<1> DEFINE marked == MarkedFinalized(inv)
           mid == [marked EXCEPT !.due = marked.due - paid - credited,
                                 !.paid = marked.paid + paid,
                                 !.credited = marked.credited + credited]
<1>1. marked \in Invoice /\ marked.status \in {"PAID", "OPEN"}
  BY MarkedSound DEF SoundRow
<1>2. marked.due = inv.due
  BY DEF MarkedFinalized, SoundRow, Invoice
<1>3. /\ Struck(gone[i]) \in Nat
      /\ i \notin lax => marked.total = marked.due + marked.paid + marked.credited
                                       + marked.writtenOff + Struck(gone[i])
  <2>1. SoundRow(marked, i \in lax, gone[i])
    BY MarkedSound
  <2> QED
    <3> HIDE DEF marked
    <3> QED BY <1>1, <2>1 DEF SoundRow, AddsUp, Unvoided, Finalized, Collectible
<1>4. Reprojected(mid) = Reprojected([MarkedFinalized(inv) EXCEPT !.due = @ - paid - credited,
                                      !.paid = @ + paid, !.credited = @ + credited])
  OBVIOUS
<1> HIDE DEF marked
<1>5. /\ marked.due \in Nat /\ marked.paid \in Nat /\ marked.credited \in Nat
      /\ marked.total \in Nat /\ marked.writtenOff \in Nat
      /\ paid \in Nat /\ credited \in Nat
      /\ marked.due - paid - credited \in Nat
      /\ marked.paid + paid \in Nat /\ marked.credited + credited \in Nat
  <2>1. /\ marked.due \in Nat /\ marked.paid \in Nat /\ marked.credited \in Nat
        /\ marked.total \in Nat /\ marked.writtenOff \in Nat
    BY <1>1 DEF Invoice
  <2>2. paid \in Nat /\ credited \in Nat
    BY <1>2, <2>1
  <2> QED BY <1>2, <2>1, <2>2
<1>6. mid \in Invoice
  BY <1>1, <1>5 DEF Invoice
<1>7. /\ mid.due = marked.due - paid - credited /\ mid.paid = marked.paid + paid
      /\ mid.credited = marked.credited + credited /\ mid.total = marked.total
      /\ mid.writtenOff = marked.writtenOff
  BY <1>1 DEF Invoice
<1>8. SoundRow(Reprojected(mid), i \in lax, gone[i]) /\ Reprojected(mid).status \in Unvoided
  <2> HIDE DEF mid
  <2>1. i \notin lax => AddsUp(mid, gone[i])
    BY <1>3, <1>5, <1>7 DEF AddsUp
  <2> QED BY <1>3, <1>6, <2>1, ReprojectedSound
<1> QED BY <1>4, <1>8

LEMMA FinalizeWithCreditsStep ==
  ASSUME InvoiceInv, NEW i \in Invoices, FinalizeWithCredits(i)
  PROVE  InvoiceInv'
<1> DEFINE c   == InvoiceCustomer[i]
           inv == invoices[i]
<1>1. /\ inv \in Invoice /\ SoundRow(inv, i \in rewritten, invalidating[i]) /\ inv.status = "DRAFT"
      /\ inv.due \in Nat
  BY DEF InvoiceInv, Sound, FinalizeWithCredits, Invoice
<1>2. PICK cash \in Drawings(Offers(c), inv.due) :
      \E credit \in Drawings(NoteOffers(c), inv.due - SumFunction(cash)) :
      \E paid, credited \in 0..inv.due : \E first \in Sources :
        SettleWithCredits(i, cash, credit, paid, credited, first)
  BY DEF FinalizeWithCredits
<1>3. PICK credit \in Drawings(NoteOffers(c), inv.due - SumFunction(cash)),
           paid \in 0..inv.due, credited \in 0..inv.due, first \in Sources :
        SettleWithCredits(i, cash, credit, paid, credited, first)
  BY <1>2
<1> DEFINE payers  == {p \in DOMAIN cash : cash[p] > 0}
           givers  == {n \in DOMAIN credit : credit[n] > 0}
           row == Reprojected([MarkedFinalized(inv) EXCEPT !.due = @ - paid - credited,
                                 !.paid = @ + paid, !.credited = @ + credited])
           moment(s) ==
             [paidAt |-> FALSE,
              status |-> IF s = first THEN "OPEN"
                         ELSE IF inv.late THEN "OVERDUE" ELSE "PARTIALLY_PAID"]
           piece(s, amount) == [amount |-> amount, before |-> {moment(s)}]
<1>4. /\ SoundRow(row, i \in rewritten, invalidating[i]) /\ row.status \in Unvoided
  <2>1. paid + credited <= inv.due
    BY <1>3 DEF SettleWithCredits
  <2> HIDE DEF inv
  <2> QED BY <1>1, <2>1, DrawnSound
<1>5. /\ invoices' = [invoices EXCEPT ![i] = row] /\ UNCHANGED <<rewritten, invalidating>>
  BY <1>3 DEF FinalizeWithCredits, SettleWithCredits, besides
<1>6. applied' = [s \in Sources |->
                    IF s \in payers THEN [applied[s] EXCEPT ![i] = piece(s, cash[s])]
                    ELSE IF s \in givers THEN [applied[s] EXCEPT ![i] = piece(s, credit[s])]
                    ELSE applied[s]]
  BY <1>3 DEF SettleWithCredits
<1>7. \A p \in payers : cash[p] \in Nat
  BY <1>1 DEF Drawings
<1>8. \A n \in givers : credit[n] \in Nat
  <2>1. SumFunction(cash) \in Nat /\ inv.due - SumFunction(cash) \in Int
    <3>1. SumFunction(cash) \in 0..inv.due
      BY <1>3 DEF SettleWithCredits
    <3> HIDE DEF inv
    <3> QED BY <1>1, <3>1
  <2> QED BY <2>1 DEF Drawings
<1>9. ASSUME NEW s, NEW amount \in Nat PROVE FirstAllocation(piece(s, amount))
  <2>1. moment(s) \in Moment /\ moment(s).paidAt = FALSE
    BY DEF Moment, Collectible
  <2> QED BY <2>1 DEF FirstAllocation, Applied
<1>10. \A s \in Sources :
         \/ applied'[s] = applied[s]
         \/ \E a : FirstAllocation(a) /\ applied'[s] = [applied[s] EXCEPT ![i] = a]
  <2> TAKE s \in Sources
  <2>1. CASE s \in payers
    <3>1. applied'[s] = [applied[s] EXCEPT ![i] = piece(s, cash[s])]
      <4> HIDE DEF payers, givers, piece
      <4> QED BY <1>6, <2>1
    <3>2. FirstAllocation(piece(s, cash[s]))
      BY <1>7, <1>9, <2>1
    <3> HIDE DEF piece
    <3> QED BY <3>1, <3>2
  <2>2. CASE s \notin payers /\ s \in givers
    <3>1. applied'[s] = [applied[s] EXCEPT ![i] = piece(s, credit[s])]
      <4> HIDE DEF payers, givers, piece
      <4> QED BY <1>6, <2>2
    <3>2. FirstAllocation(piece(s, credit[s]))
      BY <1>8, <1>9, <2>2
    <3> HIDE DEF piece
    <3> QED BY <3>1, <3>2
  <2>3. CASE s \notin payers /\ s \notin givers
    <3> HIDE DEF payers, givers, piece
    <3> QED BY <1>6, <2>3
  <2> QED BY <2>1, <2>2, <2>3
<1>11. applied' = [s \in Sources |-> applied'[s]]
  <2> HIDE DEF payers, givers, piece
  <2> QED BY <1>6
<1> HIDE DEF row
<1> QED BY <1>4, <1>5, <1>10, <1>11, CreditsWritten

-----------------------------------------------------------------------------

LEMMA SettlementInvInit == Init => SettlementInv
<1> SUFFICES ASSUME Init PROVE SettlementInv
  OBVIOUS
<1>1. AbsentInvoice \in Invoice /\ AbsentInvoice.status = "absent" /\ AbsentInvoice.paidAt = FALSE
  BY DEF AbsentInvoice, Invoice, Missing
<1>2. SoundRow(AbsentInvoice, FALSE, NotInvalidating)
  <2>1. Struck(NotInvalidating) = 0
    BY DEF Struck, NotInvalidating
  <2> QED BY <1>1, <2>1 DEF SoundRow, Unvoided, Finalized, Collectible
<1>3. Sound(invoices, rewritten, invalidating)
  BY <1>1, <1>2 DEF Init, Sound, SoundRow
<1>4. Remembers(NothingApplied, invoices, rewritten, invalidating)
  BY NothingRemembered
<1>5. applied \in [Sources -> [Invoices -> Applied]]
  BY <1>4 DEF Init, Remembers
<1>6. \A s \in Sources : Remembers(applied[s], invoices, rewritten, invalidating)
  BY <1>4 DEF Init
<1>7. /\ invalidating = [i \in Invoices |-> invalidating[i]]
      /\ \A i \in Invoices : SoundAdvance(invalidating[i])
  <2>1. SoundAdvance(NotInvalidating)
    BY <1>1 DEF SoundAdvance, NotInvalidating
  <2> QED BY <2>1 DEF Init
<1> QED BY <1>3, <1>5, <1>6, <1>7 DEF Init, SettlementInv, InvoiceInv, EditInv

LEMMA EditInvNext ==
  ASSUME EditInv, Next PROVE EditInv'
<1>1. ASSUME NEW i \in Invoices, NEW what \in {"lines", "dates", "delete"}, BeginEdit(i, what)
      PROVE  EditInv'
  <2>1. [invoice |-> i, what |-> what] \in Edit
    BY DEF Edit
  <2>2. edits' = edits \cup {[invoice |-> i, what |-> what]}
    BY <1>1 DEF BeginEdit
  <2> QED BY <2>1, <2>2 DEF EditInv
<1>2. CASE EditStep
  <2>1. CASE edits' \subseteq edits
    BY <2>1 DEF EditInv
  <2>2. CASE \E i \in Invoices, what \in {"lines", "dates", "delete"} : BeginEdit(i, what)
    BY <1>1, <2>2
  <2>3. ASSUME NEW e \in edits, NEW total \in Totals, WriteLines(e, total) PROVE EditInv'
    BY <2>1, <2>3 DEF WriteLines
  <2>4. ASSUME NEW e \in edits, NEW late \in BOOLEAN, WriteDates(e, late) PROVE EditInv'
    BY <2>1, <2>4 DEF WriteDates
  <2>5. ASSUME NEW e \in edits, DeleteDraft(e) \/ AbandonEdit(e) PROVE EditInv'
    BY <2>1, <2>5 DEF DeleteDraft, AbandonEdit
  <2> QED BY <1>2, <2>2, <2>3, <2>4, <2>5 DEF EditStep
<1>3. CASE edits' = edits
  BY <1>3 DEF EditInv
<1>4. CASE InvoiceStep
  BY <1>3, <1>4 DEF InvoiceStep, FinalizeInvoice, FinalizeWithCredits, SendInvoice,
     VoidInvoice, WriteOffInvoice, MarkOverdue, besides
<1>5. CASE PaymentStep
  <2> SUFFICES edits' = edits
    BY <1>3
  <2>1. PICK p \in Payments :
        \/ \E c \in Customers, amount \in Amounts, alloc \in Allocations :
             CreatePayment(p, c, amount, alloc) \/ UpdatePayment(p, c, amount, alloc)
        \/ \E c \in Customers, amount \in Amounts : ConfirmIntent(p, c, amount)
        \/ \E alloc \in Allocations : ApplyPayment(p, alloc)
        \/ \E amount \in Amounts : RefundPayment(p, amount)
        \/ CancelPayment(p)
    BY <1>5 DEF PaymentStep
  <2>2. ASSUME NEW c, NEW amount, NEW alloc,
               \/ CreatePayment(p, c, amount, alloc) \/ UpdatePayment(p, c, amount, alloc)
               \/ ConfirmIntent(p, c, amount) \/ ApplyPayment(p, alloc)
               \/ RefundPayment(p, amount) \/ CancelPayment(p)
        PROVE  edits' = edits
    <3>1. CASE CreatePayment(p, c, amount, alloc)
      BY <3>1 DEF CreatePayment, besides
    <3>2. CASE UpdatePayment(p, c, amount, alloc)
      BY <3>2 DEF UpdatePayment, besides
    <3>3. CASE ConfirmIntent(p, c, amount) \/ ApplyPayment(p, alloc)
      BY <3>3 DEF ConfirmIntent, ApplyPayment, besides
    <3>4. CASE RefundPayment(p, amount) \/ CancelPayment(p)
      BY <3>4 DEF RefundPayment, CancelPayment, besides
    <3> QED BY <2>2, <3>1, <3>2, <3>3, <3>4
  <2> QED BY <2>1, <2>2
<1>6. CASE CreditNoteStep
  BY <1>3, <1>6 DEF CreditNoteStep, BeginIssue, CommitIssue, AbortIssue, ApplyCreditNote,
     RefundCreditNote, VoidCreditNote, besides
<1>7. ASSUME NEW i \in Invoices, NEW total, CreateDraft(i, total) \/ FallDue(i)
      PROVE  EditInv'
  BY <1>3, <1>7 DEF CreateDraft, FallDue, besides
<1>8. CASE AdvanceStep
  BY <1>3, <1>8 DEF AdvanceStep, ReadAdvance, WriteAdvance, CommitAdvance, AbortAdvance
<1> QED BY <1>2, <1>4, <1>5, <1>6, <1>7, <1>8 DEF Next

LEMMA EditStepSound ==
  ASSUME SettlementInv, EditStep PROVE InvoiceInv'
<1>1. InvoiceInv /\ \A e \in edits : e.invoice \in Invoices
  BY DEF SettlementInv, EditInv, Edit
<1>2. ASSUME NEW i \in Invoices, NEW what, BeginEdit(i, what) PROVE InvoiceInv'
  <2>1. UNCHANGED <<invoices, applied, rewritten, invalidating>>
    BY <1>2 DEF BeginEdit
  <2> QED BY <1>1, <2>1 DEF InvoiceInv
<1>3. ASSUME NEW e \in edits, NEW total \in Totals, WriteLines(e, total) PROVE InvoiceInv'
  BY <1>1, <1>3, LinesStep
<1>4. ASSUME NEW e \in edits, NEW late \in BOOLEAN, WriteDates(e, late) PROVE InvoiceInv'
  BY <1>1, <1>4, DatesStep DEF WriteDates
<1>5. ASSUME NEW e \in edits, DeleteDraft(e) PROVE InvoiceInv'
  BY <1>1, <1>5, DeleteStep
<1>6. ASSUME NEW e \in edits, AbandonEdit(e) PROVE InvoiceInv'
  <2>1. UNCHANGED <<invoices, applied, rewritten, invalidating>>
    BY <1>6 DEF AbandonEdit
  <2> QED BY <1>1, <2>1 DEF InvoiceInv
<1> QED BY <1>2, <1>3, <1>4, <1>5, <1>6 DEF EditStep

LEMMA SettlementInvNext == SettlementInv /\ [Next]_vars => SettlementInv'
<1> SUFFICES ASSUME SettlementInv, [Next]_vars PROVE SettlementInv'
  OBVIOUS
<1>1. InvoiceInv /\ EditInv
  BY DEF SettlementInv
<1>2. ASSUME Next PROVE InvoiceInv'
  <2>1. ASSUME NEW i \in Invoices, NEW total \in Totals, CreateDraft(i, total)
        PROVE  InvoiceInv'
    BY <1>1, <2>1, DraftStep
  <2>2. ASSUME NEW i \in Invoices, FallDue(i) PROVE InvoiceInv'
    BY <1>1, <2>2, DatesStep DEF FallDue, besides
  <2>3. CASE InvoiceStep
    BY <1>1, <2>3, FinalizeStep, FinalizeWithCreditsStep, SendStep, VoidStep, WriteOffStep,
       OverdueStep DEF InvoiceStep
  <2>4. CASE EditStep
    BY <2>4, EditStepSound
  <2>5. CASE PaymentStep
    BY <1>1, <2>5, PaymentStepSound
  <2>6. CASE CreditNoteStep
    BY <1>1, <2>6, CreditNoteStepSound
  <2>7. ASSUME NEW i \in Invoices,
               \/ ReadAdvance(i) \/ WriteAdvance(i)
               \/ CommitAdvance(i) \/ AbortAdvance(i)
        PROVE  InvoiceInv'
    BY <1>1, <2>7, OpenAdvanceStep, CommitAdvanceStep
  <2> QED BY <1>2, <2>1, <2>2, <2>3, <2>4, <2>5, <2>6, <2>7 DEF Next, AdvanceStep
<1>3. CASE UNCHANGED vars
  BY <1>1, <1>3 DEF vars, SettlementInv, InvoiceInv, EditInv
<1> QED BY <1>1, <1>2, <1>3, EditInvNext DEF SettlementInv

LEMMA SettlementInvAlways == Spec => []SettlementInv
BY SettlementInvInit, SettlementInvNext, PTL DEF Spec

-----------------------------------------------------------------------------

(* In every workspace, what an invoice's total is split into adds up to    *)
(* the total, in whatever order payments, credit notes, corrections,       *)
(* refunds, cancellations and write-offs of any number come, less exactly  *)
(* what an invalidation of the invoice, overlapping any of them, took off. *)
THEOREM InvoicesAreConserved == Spec => []InvoiceConserved
<1>1. SettlementInv => InvoiceConserved
  BY DEF SettlementInv, InvoiceInv, Sound, SoundRow, AddsUp, InvoiceConserved, Unvoided
<1> QED BY <1>1, SettlementInvAlways, PTL

(* An invoice can be collected exactly while something is due on it, also  *)
(* after a cancellation has put back the status it had long before.        *)
THEOREM OpenInvoicesAreOwed == Spec => []CollectibleIffOwed
<1>1. SettlementInv => CollectibleIffOwed
  BY DEF SettlementInv, InvoiceInv, Sound, SoundRow, CollectibleIffOwed
<1> QED BY <1>1, SettlementInvAlways, PTL

(* The payment date and the status never disagree, of edited invoices too, *)
(* unless the invoice was invalidated when it was paid already.            *)
THEOREM PaymentDatesTellPaid == Spec => []PaidAtTellsPaid
<1>1. SettlementInv => PaidAtTellsPaid
  BY DEF SettlementInv, InvoiceInv, Sound, SoundRow, PaidAtTellsPaid
<1> QED BY <1>1, SettlementInvAlways, PTL
==============================================================================
