----------------------------- MODULE Receivables -----------------------------
(***************************************************************************)
(* The vocabulary of Billing's settlement of invoices: the rows of         *)
(* invoices, payments and credit notes, what an allocation does to an      *)
(* invoice and what its reversal restores, the customer ledger and the     *)
(* two denormalized columns of a customer.  The state that these operators *)
(* are applied to is declared in Settlement.                               *)
(*                                                                         *)
(* One workspace and one currency.  Amounts are minor units.  Of the dates *)
(* only what a status depends on is kept: whether the due date has passed, *)
(* whether the invoice was sent, and whether it carries a payment date.    *)
(***************************************************************************)
EXTENDS Integers, FiniteSets, Functions

CONSTANTS
  Customers,
  Invoices,          \* the invoices that may ever exist
  Payments,
  CreditNotes,
  InvoiceCustomer,   \* the customer of an invoice, which never changes
  NoteCustomer,
  NoCustomer,        \* of a payment that does not exist yet
  Amounts,           \* amounts a caller may ask for: positive
  Totals             \* totals that the lines of a draft may add up to

Sources == Payments \cup CreditNotes

ASSUME ReceivablesAssumption ==
  /\ IsFiniteSet(Invoices) /\ IsFiniteSet(Payments) /\ IsFiniteSet(CreditNotes)
  /\ Payments \cap CreditNotes = {}
  /\ Invoices \cap Sources = {}
  /\ InvoiceCustomer \in [Invoices -> Customers]
  /\ NoteCustomer \in [CreditNotes -> Customers]
  /\ NoCustomer \notin Customers
  /\ Amounts \subseteq Nat \ {0}
  /\ Totals \subseteq Nat

Collectible == {"OPEN", "SENT", "PARTIALLY_PAID", "OVERDUE"}
Finalized   == Collectible \cup {"PAID", "UNCOLLECTIBLE", "VOID"}
Missing     == {"absent", "deleted"}

Invoice == [status : Missing \cup {"DRAFT"} \cup Finalized,
            total : Nat, due : Nat, paid : Nat, credited : Nat, writtenOff : Nat,
            late : BOOLEAN,      \* due_at lies in the past
            sent : BOOLEAN,      \* sent_at is set
            paidAt : BOOLEAN]    \* paid_at is set

Payment == [status : {"absent", "SUCCEEDED", "PARTIALLY_REFUNDED", "REFUNDED", "CANCELED"},
            customer : Customers \cup {NoCustomer},
            amount : Nat, unapplied : Nat, refunded : Nat, revision : Nat]

CreditNote == [status : {"absent", "OPEN", "CLOSED", "VOID"},
               total : Nat, balance : Nat, refunded : Nat]

(* What an allocation remembers of its invoice for a later reversal.       *)
Moment == [status : Collectible, paidAt : BOOLEAN]

(* All live allocations of one source on one invoice: they are made one at *)
(* a time and reversed together.                                           *)
Applied == [amount : Nat, before : SUBSET Moment]

Column == [receivable : Int, credits : Int]

LedgerKey == [kind : {"finalized", "voided", "write-off", "received", "reversed",
                      "issued", "refund", "advance-invalidated"},
              id : Invoices \cup Sources, n : Nat]
LedgerEntry == [key : LedgerKey, customer : Customers, amount : Int]

AbsentInvoice == [status |-> "absent", total |-> 0, due |-> 0, paid |-> 0,
                  credited |-> 0, writtenOff |-> 0,
                  late |-> FALSE, sent |-> FALSE, paidAt |-> FALSE]
AbsentPayment == [status |-> "absent", customer |-> NoCustomer, amount |-> 0,
                  unapplied |-> 0, refunded |-> 0, revision |-> 0]
AbsentNote    == [status |-> "absent", total |-> 0, balance |-> 0, refunded |-> 0]
NothingApplied == [i \in Invoices |-> [amount |-> 0, before |-> {}]]

-----------------------------------------------------------------------------
(* Allocation and reversal *)

(* projectCollectibleInvoiceStatus *)
Projected(inv) ==
  IF inv.due = 0 THEN "PAID"
  ELSE IF inv.late THEN "OVERDUE"
  ELSE IF inv.paid > 0 \/ inv.credited > 0 THEN "PARTIALLY_PAID"
  ELSE IF inv.sent THEN "SENT" ELSE "OPEN"

(* The allocations of one request: each invoice at most once.              *)
Allocations == UNION {[S -> Amounts] : S \in SUBSET Invoices}

(* Mutant: an allocation is compared with the invoice's total, not with    *)
(* what is still due.                                                      *)
LoadTargetsAgainstTotal(invs, c, alloc) ==
  \A i \in DOMAIN alloc : /\ InvoiceCustomer[i] = c
                          /\ invs[i].status \in Collectible
                          /\ alloc[i] <= invs[i].total

LoadTargets(invs, c, alloc) ==
  \A i \in DOMAIN alloc : /\ InvoiceCustomer[i] = c
                          /\ invs[i].status \in Collectible
                          /\ alloc[i] <= invs[i].due

(* Mutant: the status is projected and the date of payment is left alone.  *)
ReprojectedKeepingDate(inv) == [inv EXCEPT !.status = Projected(inv)]

Reprojected(inv) == [inv EXCEPT !.status = Projected(inv),
                                !.paidAt = (Projected(inv) = "PAID")]

Settled(inv, s, amount) ==
  IF s \in Payments
  THEN [inv EXCEPT !.due = @ - amount, !.paid = @ + amount]
  ELSE [inv EXCEPT !.due = @ - amount, !.credited = @ + amount]

InvoicesAfter(invs, s, alloc) ==
  [i \in Invoices |-> IF i \in DOMAIN alloc
                      THEN Reprojected(Settled(invs[i], s, alloc[i]))
                      ELSE invs[i]]

(* The moment comes from the invoices as they were read for the request.   *)
AppliedAfter(row, invs, alloc) ==
  [i \in Invoices |->
     IF i \in DOMAIN alloc
     THEN [amount |-> row[i].amount + alloc[i],
           before |-> row[i].before \cup {[status |-> invs[i].status,
                                           paidAt |-> invs[i].paidAt]}]
     ELSE row[i]]

Touched(row) == {i \in Invoices : row[i].amount > 0}

(* Rows come back in no stated order, so among several allocations of one  *)
(* source on one invoice any may be the last to write its moment.          *)
Restorations(row) ==
  {last \in [Touched(row) -> UNION {row[i].before : i \in Invoices}] :
     \A i \in Touched(row) : last[i] \in row[i].before}

(* Mutant: the balance is restored and the status is left alone.           *)
RestoredKeepingStatus(inv, s, amount, moment) ==
  IF s \in Payments
  THEN [inv EXCEPT !.due = @ + amount, !.paid = @ - amount]
  ELSE [inv EXCEPT !.due = @ + amount, !.credited = @ - amount]

(* Mutant: a credit note's reversal is booked against what was paid.       *)
RestoredAsPaid(inv, s, amount, moment) ==
  [inv EXCEPT !.due = @ + amount, !.paid = @ - amount,
              !.status = moment.status, !.paidAt = moment.paidAt]

Restored(inv, s, amount, moment) ==
  IF s \in Payments
  THEN [inv EXCEPT !.due = @ + amount, !.paid = @ - amount,
                   !.status = moment.status, !.paidAt = moment.paidAt]
  ELSE [inv EXCEPT !.due = @ + amount, !.credited = @ - amount,
                   !.status = moment.status, !.paidAt = moment.paidAt]

InvoicesRestored(invs, s, row, last) ==
  [i \in Invoices |-> IF i \in Touched(row)
                      THEN Restored(invs[i], s, row[i].amount, last[i])
                      ELSE invs[i]]

(* billing_invoices_amounts_check: the transaction fails otherwise.        *)
Storable(invs, row, s) ==
  \A i \in Touched(row) :
    row[i].amount <= IF s \in Payments THEN invs[i].paid ELSE invs[i].credited

-----------------------------------------------------------------------------
(* Ledger and columns *)

(* Mutant: the corrections of a payment share one key.                     *)
KeyOfFirst(kind, id, n) == [kind |-> kind, id |-> id, n |-> 0]

Key(kind, id, n) == [kind |-> kind, id |-> id, n |-> n]

(* recordLedgerEntry: an upsert by key that never updates. *)
Recorded(book, key, c, amount) ==
  IF amount = 0 \/ \E e \in book : e.key = key THEN book
  ELSE book \cup {[key |-> key, customer |-> c, amount |-> amount]}

Debit(book, key, c, amount)  == Recorded(book, key, c, amount)
Credit(book, key, c, amount) == Recorded(book, key, c, 0 - amount)

Balance(book, c) == SumFunction([e \in {x \in book : x.customer = c} |-> e.amount])

Outstanding(invs, c) ==
  SumFunction([i \in {j \in Invoices : /\ InvoiceCustomer[j] = c
                                       /\ invs[j].status \in Collectible}
                 |-> invs[i].due])

Available == {"SUCCEEDED", "PARTIALLY_REFUNDED"}

UnusedCredits(pays, nts, c) ==
  SumFunction([p \in {q \in Payments : pays[q].customer = c /\ pays[q].status \in Available}
                 |-> pays[p].unapplied])
  + SumFunction([n \in {m \in CreditNotes : NoteCustomer[m] = c /\ nts[m].status = "OPEN"}
                   |-> nts[n].balance])

(* What recomputeCustomerAr writes. *)
Recomputed(invs, pays, nts, c) ==
  [receivable |-> Outstanding(invs, c), credits |-> UnusedCredits(pays, nts, c)]
=============================================================================
