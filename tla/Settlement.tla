----------------------------- MODULE Settlement -----------------------------
(***************************************************************************)
(* How Billing settles invoices: drafting, finalizing (with or without the *)
(* customer's unused credits), sending, ageing, voiding and writing off an *)
(* invoice; receiving, correcting, applying, refunding and canceling a     *)
(* payment; issuing, applying, refunding and voiding a credit note; and    *)
(* confirming a manual payment intent.                                     *)
(*                                                                         *)
(* Most operations that move money between these rows are one transaction  *)
(* at isolation level Serializable, so each is one action here; a conflict *)
(* rolls it back and changes nothing.  The operations that are not         *)
(* Serializable take as many actions as a concurrent transaction can tell  *)
(* apart: an edit of a draft (read the status, later write), the issue of  *)
(* a credit note (aggregate the customer's columns, later write them), and *)
(* the invalidation of an advance invoice before a change of subscription  *)
(* (read it and its allocations, later void it, later write the columns).  *)
(***************************************************************************)
EXTENDS Receivables

CONSTANTS
  MaxRevision,   \* bound: corrections of one payment
  MaxEdits,      \* bound: edits of invoices in progress at a time
  NotIssuing

ASSUME SettlementAssumption ==
  /\ MaxRevision \in Nat
  /\ MaxEdits \in Nat
  /\ NotIssuing \notin [total : Nat, column : Column]

VARIABLES
  invoices,    \* invoices[i]: the row of invoice i
  payments,
  notes,
  applied,     \* applied[s][i]: live allocations of source s on invoice i
  ledger,      \* customer ledger entries
  columns,     \* columns[c]: outstanding_receivable and unused_credits of customer c
  intents,     \* manual payment intents that succeeded
  edits,       \* edits that have read their invoice and not yet written it
  issuing,     \* issuing[n]: open transaction that issues note n
  invalidating, \* invalidating[i]: transaction that invalidates advance invoice i
  rewritten    \* history: invoices whose lines were replaced after finalization

vars == <<invoices, payments, notes, applied, ledger, columns, intents, edits,
          issuing, invalidating, rewritten>>

(* Variables that only the operations without Serializable isolation touch *)
besides == <<intents, edits, issuing, invalidating, rewritten>>

Edit   == [invoice : Invoices, what : {"lines", "dates", "delete"}]
Intent == [payment : Payments, customer : Customers, amount : Nat]

(* The row as it was read; once done, the row as it was overwritten.       *)
Invalidation == [phase : {"none", "read", "written", "done"},
                 row : Invoice, column : Column]
NotInvalidating == [phase |-> "none", row |-> AbsentInvoice,
                    column |-> [receivable |-> 0, credits |-> 0]]

TypeOK ==
  /\ invoices \in [Invoices -> Invoice]
  /\ payments \in [Payments -> Payment]
  /\ notes    \in [CreditNotes -> CreditNote]
  /\ applied  \in [Sources -> [Invoices -> Applied]]
  /\ ledger   \subseteq LedgerEntry
  /\ columns  \in [Customers -> Column]
  /\ intents  \subseteq Intent
  /\ edits    \subseteq Edit
  /\ issuing  \in [CreditNotes -> [total : Nat, column : Column] \cup {NotIssuing}]
  /\ invalidating \in [Invoices -> Invalidation]
  /\ rewritten \subseteq Invoices

Init ==
  /\ invoices = [i \in Invoices |-> AbsentInvoice]
  /\ payments = [p \in Payments |-> AbsentPayment]
  /\ notes    = [n \in CreditNotes |-> AbsentNote]
  /\ applied  = [s \in Sources |-> NothingApplied]
  /\ ledger   = {}
  /\ columns  = [c \in Customers |-> [receivable |-> 0, credits |-> 0]]
  /\ intents  = {}
  /\ edits    = {}
  /\ issuing  = [n \in CreditNotes |-> NotIssuing]
  /\ invalidating = [i \in Invoices |-> NotInvalidating]
  /\ rewritten = {}

(* Mutant: the columns are computed from the rows as they were before.     *)
RecomputedBefore(C) ==
  columns' = [c \in Customers |-> IF c \in C
                                  THEN Recomputed(invoices, payments, notes, c)
                                  ELSE columns[c]]

(* Recompute the columns of the customers in C from the rows just written. *)
RecomputeCustomerAr(C) ==
  columns' = [c \in Customers |-> IF c \in C
                                  THEN Recomputed(invoices', payments', notes', c)
                                  ELSE columns[c]]

-----------------------------------------------------------------------------
(* Invoices *)

CreateDraft(i, total) ==
  /\ invoices[i].status = "absent"
  /\ invoices' = [invoices EXCEPT ![i] = [AbsentInvoice EXCEPT
                    !.status = "DRAFT", !.total = total, !.due = total]]
  /\ UNCHANGED <<payments, notes, applied, ledger, columns, besides>>

(* Time passes an invoice's due date. *)
FallDue(i) ==
  /\ invoices[i].status \notin Missing
  /\ invoices' = [invoices EXCEPT ![i].late = TRUE]
  /\ UNCHANGED <<payments, notes, applied, ledger, columns, besides>>

(* An edit checks the status first and writes in a transaction, or a       *)
(* statement, of its own.                                                  *)
BeginEdit(i, what) ==
  /\ Cardinality(edits) < MaxEdits
  /\ \/ invoices[i].status = "DRAFT"
     \/ invoices[i].status = "SENT" /\ what = "dates"   \* allowEditingSentInvoices
  /\ edits' = edits \cup {[invoice |-> i, what |-> what]}
  /\ UNCHANGED <<invoices, payments, notes, applied, ledger, columns, intents,
                 issuing, invalidating, rewritten>>

WriteLines(e, total) ==
  /\ e \in edits /\ e.what = "lines"
  /\ invoices[e.invoice].status \notin Missing
  /\ edits' = edits \ {e}
  /\ invoices' = [invoices EXCEPT ![e.invoice].total = total,
                                  ![e.invoice].due = total]
  /\ rewritten' = IF invoices[e.invoice].status = "DRAFT" THEN rewritten
                  ELSE rewritten \cup {e.invoice}
  /\ UNCHANGED <<payments, notes, applied, ledger, columns, intents, issuing,
                 invalidating>>

WriteDates(e, late) ==
  /\ e \in edits /\ e.what = "dates"
  /\ invoices[e.invoice].status \notin Missing
  /\ edits' = edits \ {e}
  /\ invoices' = [invoices EXCEPT ![e.invoice].late = late]
  /\ UNCHANGED <<payments, notes, applied, ledger, columns, intents, issuing,
                 invalidating, rewritten>>

(* Foreign keys keep an invoice that has allocations or ledger entries.    *)
DeleteDraft(e) ==
  /\ e \in edits /\ e.what = "delete"
  /\ invoices[e.invoice].status \notin Missing
  /\ \A s \in Sources : applied[s][e.invoice] = [amount |-> 0, before |-> {}]
  /\ \A x \in ledger : x.key.id # e.invoice
  /\ edits' = edits \ {e}
  /\ invoices' = [invoices EXCEPT ![e.invoice] = [AbsentInvoice EXCEPT !.status = "deleted"]]
  /\ UNCHANGED <<payments, notes, applied, ledger, columns, intents, issuing,
                 invalidating, rewritten>>

(* An edit fails: a constraint, a missing row, a crash. *)
AbandonEdit(e) ==
  /\ e \in edits
  /\ edits' = edits \ {e}
  /\ UNCHANGED <<invoices, payments, notes, applied, ledger, columns, intents,
                 issuing, invalidating, rewritten>>

(* markInvoiceFinalized *)
MarkedFinalized(inv) ==
  [inv EXCEPT !.status = IF inv.total = 0 THEN "PAID" ELSE "OPEN",
              !.paidAt = (inv.total = 0)]

FinalizedBook(i) ==
  Debit(ledger, Key("finalized", i, 0), InvoiceCustomer[i], invoices[i].total)

FinalizeInvoice(i) ==
  /\ invoices[i].status = "DRAFT"
  /\ invoices' = [invoices EXCEPT ![i] = MarkedFinalized(@)]
  /\ ledger' = FinalizedBook(i)
  /\ UNCHANGED <<payments, notes, applied, besides>>
  /\ RecomputeCustomerAr({InvoiceCustomer[i]})

(* What each source has to offer to an invoice of customer c *)
Offers(c) ==
  [p \in {q \in Payments : /\ payments[q].customer = c
                           /\ payments[q].status \in Available
                           /\ payments[q].unapplied > 0} |-> payments[p].unapplied]

NoteOffers(c) ==
  [n \in {m \in CreditNotes : /\ NoteCustomer[m] = c
                              /\ notes[m].status = "OPEN"
                              /\ notes[m].balance > 0} |-> notes[n].balance]

(* The outcomes of drawing `due` from the offers one after the other, in   *)
(* some order, each as far as it goes.                                     *)
Drawings(offers, due) ==
  {take \in [DOMAIN offers -> 0..due] :
     /\ \A s \in DOMAIN offers : take[s] <= offers[s]
     /\ SumFunction(take) = due \/ take = offers
     /\ Cardinality({s \in DOMAIN offers : take[s] \in 1..(offers[s] - 1)}) <= 1}

(* settleWithAvailableCredits: payments first, then credit notes.  The     *)
(* source that comes first finds the invoice OPEN, the later ones find it  *)
(* partly settled.                                                         *)
SettleWithCredits(i, cash, credit, paid, credited, first) ==
  LET inv     == invoices[i]
      payers  == {p \in DOMAIN cash : cash[p] > 0}
      givers  == {n \in DOMAIN credit : credit[n] > 0}
      settled == [MarkedFinalized(inv) EXCEPT !.due = @ - paid - credited,
                                         !.paid = @ + paid,
                                         !.credited = @ + credited]
      moment(s) ==
        [paidAt |-> FALSE,
         status |-> IF s = first THEN "OPEN"
                    ELSE IF inv.late THEN "OVERDUE" ELSE "PARTIALLY_PAID"]
      taken(s, amount) ==
        [applied[s] EXCEPT ![i] = [amount |-> amount, before |-> {moment(s)}]]
  IN
  /\ paid = SumFunction(cash) /\ credited = SumFunction(credit)
  /\ paid + credited <= inv.due
  /\ payers \cup givers # {}
  /\ first \in IF payers # {} THEN payers ELSE givers
  /\ first \in payers => cash[first] = payments[first].unapplied \/ payers = {first}
  /\ first \in givers => credit[first] = notes[first].balance \/ givers = {first}
  /\ invoices' = [invoices EXCEPT ![i] = Reprojected(settled)]
  /\ payments' = [p \in Payments |->
                    IF p \in payers THEN [payments[p] EXCEPT !.unapplied = @ - cash[p]]
                    ELSE payments[p]]
  /\ notes' = [n \in CreditNotes |->
                 IF n \in givers
                 THEN [notes[n] EXCEPT !.balance = @ - credit[n],
                         !.status = IF credit[n] = notes[n].balance THEN "CLOSED" ELSE "OPEN"]
                 ELSE notes[n]]
  /\ applied' = [s \in Sources |-> IF s \in payers THEN taken(s, cash[s])
                                   ELSE IF s \in givers THEN taken(s, credit[s])
                                   ELSE applied[s]]

FinalizeWithCredits(i) ==
  LET c   == InvoiceCustomer[i]
      inv == invoices[i]
  IN
  /\ inv.status = "DRAFT" /\ inv.total > 0
  /\ \E cash \in Drawings(Offers(c), inv.due) :
     \E credit \in Drawings(NoteOffers(c), inv.due - SumFunction(cash)) :
     \E paid, credited \in 0..inv.due : \E first \in Sources :
       SettleWithCredits(i, cash, credit, paid, credited, first)
  /\ ledger' = FinalizedBook(i)
  /\ UNCHANGED besides
  /\ RecomputeCustomerAr({c})

SendInvoice(i) ==
  /\ invoices[i].status \in Collectible \cup {"PAID"}
  /\ invoices' = [invoices EXCEPT ![i].sent = TRUE,
                    ![i].status = IF @ = "OPEN" THEN "SENT" ELSE @]
  /\ UNCHANGED <<payments, notes, applied, ledger, columns, besides>>

(* One statement over all invoices; a scheduler calls it. *)
OverdueCandidate(i) ==
  /\ invoices[i].late /\ invoices[i].due > 0
  /\ invoices[i].status \in Collectible \ {"OVERDUE"}

MarkOverdue ==
  /\ \E i \in Invoices : OverdueCandidate(i)
  /\ invoices' = [i \in Invoices |-> IF OverdueCandidate(i)
                                     THEN [invoices[i] EXCEPT !.status = "OVERDUE"]
                                     ELSE invoices[i]]
  /\ UNCHANGED <<payments, notes, applied, ledger, columns, besides>>

(* An invoice with live allocations must be corrected by a credit note. *)
VoidInvoice(i) ==
  /\ invoices[i].status \in Collectible
  /\ \A s \in Sources : applied[s][i] = [amount |-> 0, before |-> {}]
  /\ invoices' = [invoices EXCEPT ![i].status = "VOID", ![i].due = 0]
  /\ ledger' = Credit(ledger, Key("voided", i, 0), InvoiceCustomer[i], invoices[i].due)
  /\ UNCHANGED <<payments, notes, applied, besides>>
  /\ RecomputeCustomerAr({InvoiceCustomer[i]})

(* Mutant: what is written off replaces what was written off before.       *)
WriteOffReplacing(i) ==
  /\ invoices[i].status \in Collectible /\ invoices[i].due > 0
  /\ invoices' = [invoices EXCEPT ![i] =
                    [invoices[i] EXCEPT !.status = "UNCOLLECTIBLE", !.due = 0,
                                        !.paidAt = FALSE, !.writtenOff = invoices[i].due]]
  /\ ledger' = Credit(ledger, Key("write-off", i, 0), InvoiceCustomer[i], invoices[i].due)
  /\ UNCHANGED <<payments, notes, applied, besides>>
  /\ RecomputeCustomerAr({InvoiceCustomer[i]})

WriteOffInvoice(i) ==
  /\ invoices[i].status \in Collectible /\ invoices[i].due > 0
  /\ invoices' = [invoices EXCEPT ![i] =
                    [invoices[i] EXCEPT !.status = "UNCOLLECTIBLE", !.due = 0,
                                        !.paidAt = FALSE, !.writtenOff = @ + invoices[i].due]]
  /\ ledger' = Credit(ledger, Key("write-off", i, 0), InvoiceCustomer[i], invoices[i].due)
  /\ UNCHANGED <<payments, notes, applied, besides>>
  /\ RecomputeCustomerAr({InvoiceCustomer[i]})

-----------------------------------------------------------------------------
(* Payments *)

CreatePayment(p, c, amount, alloc) ==
  /\ payments[p].status = "absent"
  /\ SumFunction(alloc) <= amount
  /\ LoadTargets(invoices, c, alloc)
  /\ payments' = [payments EXCEPT ![p] =
                    [status |-> "SUCCEEDED", customer |-> c, amount |-> amount,
                     unapplied |-> amount - SumFunction(alloc),
                     refunded |-> 0, revision |-> 0]]
  /\ ledger' = Credit(ledger, Key("received", p, 0), c, amount)
  /\ applied' = [applied EXCEPT ![p] = AppliedAfter(@, invoices, alloc)]
  /\ invoices' = InvoicesAfter(invoices, p, alloc)
  /\ UNCHANGED <<notes, besides>>
  /\ RecomputeCustomerAr({c})

(* A manual payment intent is confirmed: a payment that is all unapplied.  *)
(* Neither the ledger nor the customer's columns are written.              *)
ConfirmIntent(p, c, amount) ==
  /\ payments[p].status = "absent"
  /\ payments' = [payments EXCEPT ![p] =
                    [status |-> "SUCCEEDED", customer |-> c, amount |-> amount,
                     unapplied |-> amount, refunded |-> 0, revision |-> 0]]
  /\ intents' = intents \cup {[payment |-> p, customer |-> c, amount |-> amount]}
  /\ UNCHANGED <<invoices, notes, applied, ledger, columns, edits, issuing,
                 invalidating, rewritten>>

ApplyPayment(p, alloc) ==
  /\ payments[p].status \in Available
  /\ DOMAIN alloc # {}
  /\ SumFunction(alloc) <= payments[p].unapplied
  /\ LoadTargets(invoices, payments[p].customer, alloc)
  /\ applied' = [applied EXCEPT ![p] = AppliedAfter(@, invoices, alloc)]
  /\ invoices' = InvoicesAfter(invoices, p, alloc)
  /\ payments' = [payments EXCEPT ![p].unapplied = @ - SumFunction(alloc)]
  /\ UNCHANGED <<notes, ledger, besides>>
  /\ RecomputeCustomerAr({payments[p].customer})

Correctable(p) == payments[p].status = "SUCCEEDED" /\ payments[p].refunded = 0

(* Mutant: a canceled payment keeps what was not applied.                  *)
CancelKeepingUnapplied(p) ==
  /\ Correctable(p)
  /\ Storable(invoices, applied[p], p)
  /\ \E last \in Restorations(applied[p]) :
       invoices' = InvoicesRestored(invoices, p, applied[p], last)
  /\ applied' = [applied EXCEPT ![p] = NothingApplied]
  /\ payments' = [payments EXCEPT ![p].status = "CANCELED", ![p].revision = @ + 1]
  /\ ledger' = Debit(ledger, Key("reversed", p, payments[p].revision),
                     payments[p].customer, payments[p].amount)
  /\ UNCHANGED <<notes, besides>>
  /\ RecomputeCustomerAr({payments[p].customer})

CancelPayment(p) ==
  /\ Correctable(p)
  /\ Storable(invoices, applied[p], p)
  /\ \E last \in Restorations(applied[p]) :
       invoices' = InvoicesRestored(invoices, p, applied[p], last)
  /\ applied' = [applied EXCEPT ![p] = NothingApplied]
  /\ payments' = [payments EXCEPT ![p].status = "CANCELED", ![p].unapplied = 0,
                                  ![p].revision = @ + 1]
  /\ ledger' = Debit(ledger, Key("reversed", p, payments[p].revision),
                     payments[p].customer, payments[p].amount)
  /\ UNCHANGED <<notes, besides>>
  /\ RecomputeCustomerAr({payments[p].customer})

(* A correction reverses the payment and records it again, perhaps for     *)
(* another customer, another amount and other invoices.                    *)
UpdatePayment(p, c, amount, alloc) ==
  LET old == payments[p] IN
  /\ Correctable(p) /\ old.revision < MaxRevision
  /\ SumFunction(alloc) <= amount
  /\ Storable(invoices, applied[p], p)
  /\ \E last \in Restorations(applied[p]) :
       LET back == InvoicesRestored(invoices, p, applied[p], last) IN
       /\ LoadTargets(back, c, alloc)
       /\ applied' = [applied EXCEPT ![p] = AppliedAfter(NothingApplied, back, alloc)]
       /\ invoices' = InvoicesAfter(back, p, alloc)
  /\ payments' = [payments EXCEPT ![p] =
                    [old EXCEPT !.customer = c, !.amount = amount,
                                !.unapplied = amount - SumFunction(alloc),
                                !.revision = @ + 1]]
  /\ ledger' = Credit(Debit(ledger, Key("reversed", p, old.revision),
                            old.customer, old.amount),
                      Key("received", p, old.revision + 1), c, amount)
  /\ UNCHANGED <<notes, besides>>
  /\ RecomputeCustomerAr({old.customer, c})

(* The key stands for the refund's id: a payment's total refunded grows.   *)
RefundPayment(p, amount) ==
  LET refunded == payments[p].refunded + amount IN
  /\ payments[p].status \in Available
  /\ amount <= payments[p].unapplied
  /\ payments' = [payments EXCEPT ![p] =
                    [payments[p] EXCEPT
                       !.unapplied = @ - amount, !.refunded = refunded,
                       !.status = IF refunded = payments[p].amount
                                  THEN "REFUNDED" ELSE "PARTIALLY_REFUNDED"]]
  /\ ledger' = Debit(ledger, Key("refund", p, refunded), payments[p].customer, amount)
  /\ UNCHANGED <<invoices, notes, applied, besides>>
  /\ RecomputeCustomerAr({payments[p].customer})

-----------------------------------------------------------------------------
(* Credit notes *)

(* The transaction that issues a note is not Serializable: it inserts the  *)
(* note, sums what is then committed, and writes the sums at its end.      *)
BeginIssue(n, total) ==
  /\ notes[n].status = "absent" /\ issuing[n] = NotIssuing
  /\ LET opened == [notes EXCEPT ![n] = [status |-> "OPEN", total |-> total,
                                         balance |-> total, refunded |-> 0]]
     IN issuing' = [issuing EXCEPT ![n] =
                      [total  |-> total,
                       column |-> Recomputed(invoices, payments, opened, NoteCustomer[n])]]
  /\ UNCHANGED <<invoices, payments, notes, applied, ledger, columns, intents,
                 edits, invalidating, rewritten>>

CommitIssue(n) ==
  /\ issuing[n] # NotIssuing
  /\ notes' = [notes EXCEPT ![n] = [status |-> "OPEN", total |-> issuing[n].total,
                                    balance |-> issuing[n].total, refunded |-> 0]]
  /\ ledger' = Credit(ledger, Key("issued", n, 0), NoteCustomer[n], issuing[n].total)
  /\ columns' = [columns EXCEPT ![NoteCustomer[n]] = issuing[n].column]
  /\ issuing' = [issuing EXCEPT ![n] = NotIssuing]
  /\ UNCHANGED <<invoices, payments, applied, intents, edits, invalidating, rewritten>>

AbortIssue(n) ==
  /\ issuing[n] # NotIssuing
  /\ issuing' = [issuing EXCEPT ![n] = NotIssuing]
  /\ UNCHANGED <<invoices, payments, notes, applied, ledger, columns, intents,
                 edits, invalidating, rewritten>>

Drawn(note, amount) ==
  [note EXCEPT !.balance = @ - amount,
               !.status = IF note.balance = amount THEN "CLOSED" ELSE "OPEN"]

ApplyCreditNote(n, alloc) ==
  /\ notes[n].status = "OPEN"
  /\ DOMAIN alloc # {}
  /\ SumFunction(alloc) <= notes[n].balance
  /\ LoadTargets(invoices, NoteCustomer[n], alloc)
  /\ applied' = [applied EXCEPT ![n] = AppliedAfter(@, invoices, alloc)]
  /\ invoices' = InvoicesAfter(invoices, n, alloc)
  /\ notes' = [notes EXCEPT ![n] = Drawn(@, SumFunction(alloc))]
  /\ UNCHANGED <<payments, ledger, besides>>
  /\ RecomputeCustomerAr({NoteCustomer[n]})

(* A note that was used up may be voided too, a refunded one may not. *)
VoidCreditNote(n) ==
  /\ notes[n].status \in {"OPEN", "CLOSED"} /\ notes[n].refunded = 0
  /\ Storable(invoices, applied[n], n)
  /\ \E last \in Restorations(applied[n]) :
       invoices' = InvoicesRestored(invoices, n, applied[n], last)
  /\ applied' = [applied EXCEPT ![n] = NothingApplied]
  /\ notes' = [notes EXCEPT ![n].status = "VOID", ![n].balance = 0]
  /\ ledger' = Debit(ledger, Key("voided", n, 0), NoteCustomer[n], notes[n].total)
  /\ UNCHANGED <<payments, besides>>
  /\ RecomputeCustomerAr({NoteCustomer[n]})

RefundCreditNote(n, amount) ==
  LET refunded == notes[n].refunded + amount IN
  /\ notes[n].status = "OPEN"
  /\ amount <= notes[n].balance
  /\ notes' = [notes EXCEPT ![n] = [Drawn(@, amount) EXCEPT !.refunded = refunded]]
  /\ ledger' = Debit(ledger, Key("refund", n, refunded), NoteCustomer[n], amount)
  /\ UNCHANGED <<invoices, payments, applied, besides>>
  /\ RecomputeCustomerAr({NoteCustomer[n]})

-----------------------------------------------------------------------------
(* Advance invoices: invalidateAdvanceInvoices, within a change of the     *)
(* subscription that made the invoice, at READ COMMITTED                   *)

(* The invoice and its live allocations are read together; no status is    *)
(* tested.                                                                 *)
ReadAdvance(i) ==
  /\ invalidating[i].phase = "none"
  /\ invoices[i].status \notin Missing
  /\ invoices[i].paid = 0 /\ invoices[i].credited = 0
  /\ \A s \in Sources : applied[s][i].amount = 0
  /\ invalidating' = [invalidating EXCEPT ![i] = [@ EXCEPT !.phase = "read",
                                                        !.row = invoices[i]]]
  /\ UNCHANGED <<invoices, payments, notes, applied, ledger, columns, intents,
                 edits, issuing, rewritten>>

Invalidated(inv) == [inv EXCEPT !.status = "VOID", !.due = 0]

(* The update by id locks the row; then the customer's columns are summed  *)
(* from what is committed and from this transaction's own write.           *)
WriteAdvance(i) ==
  /\ invalidating[i].phase = "read"
  /\ invoices[i].status \notin Missing
  /\ LET struck == [invoices EXCEPT ![i] = Invalidated(@)]
     IN invalidating' = [invalidating EXCEPT ![i] =
          [@ EXCEPT !.phase = "written",
                    !.column = Recomputed(struck, payments, notes, InvoiceCustomer[i])]]
  /\ UNCHANGED <<invoices, payments, notes, applied, ledger, columns, intents,
                 edits, issuing, rewritten>>

(* The void and its ledger entry, of what was due when the invoice was     *)
(* read, become visible; the billing run is gone with them.                *)
CommitAdvance(i) ==
  LET inv  == invoices[i]
      read == invalidating[i].row
      c    == InvoiceCustomer[i]
  IN
  /\ invalidating[i].phase = "written"
  /\ invoices' = [invoices EXCEPT ![i] = Invalidated(inv)]
  /\ ledger' = IF read.status = "DRAFT" THEN ledger
               ELSE Credit(ledger, Key("advance-invalidated", i, 0), c, read.due)
  /\ columns' = [columns EXCEPT ![c] = invalidating[i].column]
  /\ invalidating' = [invalidating EXCEPT ![i] = [@ EXCEPT !.phase = "done", !.row = inv]]
  /\ UNCHANGED <<payments, notes, applied, intents, edits, issuing, rewritten>>

(* The change of the subscription fails. *)
AbortAdvance(i) ==
  /\ invalidating[i].phase \in {"read", "written"}
  /\ invalidating' = [invalidating EXCEPT ![i] = NotInvalidating]
  /\ UNCHANGED <<invoices, payments, notes, applied, ledger, columns, intents,
                 edits, issuing, rewritten>>

(* What an invalidation has struck out of the amount due on its invoice    *)
Struck(v) ==
  IF v.phase = "done" /\ v.row.status \in Collectible THEN v.row.due ELSE 0

-----------------------------------------------------------------------------

InvoiceStep ==
  \/ \E i \in Invoices :
       \/ FinalizeInvoice(i) \/ FinalizeWithCredits(i)
       \/ SendInvoice(i) \/ VoidInvoice(i) \/ WriteOffInvoice(i)
  \/ MarkOverdue

EditStep ==
  \/ \E i \in Invoices, what \in {"lines", "dates", "delete"} : BeginEdit(i, what)
  \/ \E e \in edits, total \in Totals : WriteLines(e, total)
  \/ \E e \in edits, late \in BOOLEAN : WriteDates(e, late)
  \/ \E e \in edits : DeleteDraft(e) \/ AbandonEdit(e)

PaymentStep ==
  \E p \in Payments :
    \/ \E c \in Customers, amount \in Amounts, alloc \in Allocations :
         CreatePayment(p, c, amount, alloc) \/ UpdatePayment(p, c, amount, alloc)
    \/ \E c \in Customers, amount \in Amounts : ConfirmIntent(p, c, amount)
    \/ \E alloc \in Allocations : ApplyPayment(p, alloc)
    \/ \E amount \in Amounts : RefundPayment(p, amount)
    \/ CancelPayment(p)

CreditNoteStep ==
  \E n \in CreditNotes :
    \/ \E total \in Amounts : BeginIssue(n, total)
    \/ CommitIssue(n) \/ AbortIssue(n)
    \/ \E alloc \in Allocations : ApplyCreditNote(n, alloc)
    \/ \E amount \in Amounts : RefundCreditNote(n, amount)
    \/ VoidCreditNote(n)

AdvanceStep ==
  \E i \in Invoices :
    ReadAdvance(i) \/ WriteAdvance(i) \/ CommitAdvance(i) \/ AbortAdvance(i)

(* An open transaction keeps the row it has written from other writers.    *)
RowLocks ==
  \A i \in Invoices : invalidating[i].phase = "written" => invoices'[i] = invoices[i]

Next ==
  \/ \E i \in Invoices, total \in Totals : CreateDraft(i, total)
  \/ \E i \in Invoices : FallDue(i)
  \/ (InvoiceStep \/ EditStep \/ PaymentStep \/ CreditNoteStep) /\ RowLocks
  \/ AdvanceStep

Spec == Init /\ [][Next]_vars

-----------------------------------------------------------------------------
(* Properties *)

(* Nothing is lost or made up between an invoice's total and the amounts   *)
(* it is split into, whatever payments, credit notes, reversals and        *)
(* write-offs do in whatever order (a void gives up what was due).  What   *)
(* the invalidation of an advance invoice struck out stays lost when a     *)
(* payment that met it is canceled and the invoice reopens: exactly that   *)
(* amount, and no other, is missing.  An invoice whose lines were replaced *)
(* after it was finalized is excepted: the editor checks the status        *)
(* outside its transaction.                                                *)
InvoiceConserved ==
  \A i \in Invoices \ rewritten :
    invoices[i].status \in Finalized \ {"VOID"} =>
      invoices[i].total = invoices[i].due + invoices[i].paid
                          + invoices[i].credited + invoices[i].writtenOff
                          + Struck(invalidating[i])

(* An invoice can be collected exactly as long as something is due on it:  *)
(* no cancellation leaves a balance on a paid, void or written-off         *)
(* invoice, and none leaves an open invoice with nothing to pay, not even  *)
(* on an invoice that was invalidated while it was being paid.             *)
CollectibleIffOwed ==
  \A i \in Invoices \ rewritten :
    invoices[i].status \in Finalized =>
      (invoices[i].status \in Collectible <=> invoices[i].due > 0)

(* paid_at is set on every paid invoice, and on another only if that one   *)
(* is void because it was invalidated when it was paid already: nothing    *)
(* tests its status, and a payment may precede the update.  Canceling the  *)
(* payment clears the date.                                                *)
PaidAtTellsPaid ==
  \A i \in Invoices :
    /\ invoices[i].status = "PAID" => invoices[i].paidAt
    /\ invoices[i].paidAt =>
         \/ invoices[i].status = "PAID"
         \/ /\ invoices[i].status = "VOID"
            /\ invalidating[i].phase = "done" /\ invalidating[i].row.status = "PAID"

(* What an invoice says was paid and credited is what its live allocations *)
(* add up to; so the database's check never refuses a reversal.            *)
AllocationsAccountForInvoice ==
  \A i \in Invoices :
    /\ invoices[i].paid     = SumFunction([p \in Payments |-> applied[p][i].amount])
    /\ invoices[i].credited = SumFunction([n \in CreditNotes |-> applied[n][i].amount])

(* The money of a payment or credit note is in one place: applied,         *)
(* unapplied or refunded; of a canceled or void one nothing is left.       *)
SourceConserved ==
  LET live(s) == SumFunction([i \in Invoices |-> applied[s][i].amount]) IN
  /\ \A p \in Payments :
       IF payments[p].status \in {"absent", "CANCELED"}
       THEN live(p) = 0 /\ payments[p].unapplied = 0
       ELSE payments[p].amount = payments[p].unapplied + payments[p].refunded + live(p)
  /\ \A n \in CreditNotes :
       IF notes[n].status \in {"absent", "VOID"}
       THEN live(n) = 0 /\ notes[n].balance = 0
       ELSE notes[n].total = notes[n].balance + notes[n].refunded + live(n)

(* The amount of an invoice's entry of some kind in the ledger *)
Entered(kind, i) ==
  SumFunction([e \in {x \in ledger : x.key = Key(kind, i, 0)} |-> e.amount])

(* Every write-off of an invoice is in the customer ledger. *)
WriteOffsAreInLedger ==
  \A i \in Invoices : invoices[i].writtenOff = 0 - Entered("write-off", i)

(* The ledger and the rows tell the same story.  A customer's ledger       *)
(* balance is what is outstanding less the unused credits; it exceeds that *)
(* by exactly three things: what manual intents brought in, which is never *)
(* entered; what an invoice's second write-off cleared, whose entry the    *)
(* key of the first one swallows; and what the invalidation of an advance  *)
(* invoice struck out beyond the amount that it had read and entered (less *)
(* than nothing, when a payment came in between).                          *)
LedgerAccountsForReceivable ==
  \A c \in Customers :
    (\A i \in rewritten : InvoiceCustomer[i] # c) =>
      Balance(ledger, c) =
        Outstanding(invoices, c) - UnusedCredits(payments, notes, c)
        + SumFunction([x \in {y \in intents : y.customer = c} |-> x.amount])
        + SumFunction([i \in {j \in Invoices : InvoiceCustomer[j] = c} |->
                         invoices[i].writtenOff + Entered("write-off", i)
                         + Struck(invalidating[i]) + Entered("advance-invalidated", i)])

(* Whatever a Serializable transaction does to a customer's open balances  *)
(* or credits, the customer's columns are recomputed with it; the others   *)
(* here are the issue of a note, the invalidation of an advance invoice,   *)
(* the confirmation of an intent and the edits.                            *)
ReceivableFollows ==
  [][ /\ UNCHANGED <<intents, edits, issuing, invalidating>>
      => \A c \in Customers :
           \/ columns'[c] = Recomputed(invoices', payments', notes', c)
           \/ Recomputed(invoices', payments', notes', c)
                = Recomputed(invoices, payments, notes, c) ]_vars
=============================================================================
