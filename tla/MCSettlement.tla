---------------------------- MODULE MCSettlement ----------------------------
(* Instances small enough for TLC of how Billing makes invoices of a        *)
(* subscription and how invoices are settled.                               *)
EXTENDS Settlement, MCBilling, TLC

CONSTANTS c1, c2, MCScopes

(* All invoices and notes are c1's; payments may be moved to c2 and back.  *)
MCInvoiceCustomer == [i \in Invoices |-> c1]
MCNoteCustomer    == [n \in CreditNotes |-> c1]

(* How much of the system a behaviour may use, chosen at its start: one    *)
(* run explores several small instances instead of one large one.          *)
VARIABLE scope

MCScope(i, p, n, e, ages, intent) ==
  [invoices |-> i, payments |-> p, notes |-> n, edits |-> e, ages |-> ages,
   intents |-> intent, advance |-> 0, billing |-> "none"]

(* One of the invoices is an advance invoice whose subscription changes.   *)
MCAdvance(s) == [s EXCEPT !.advance = 1]

(* No document, and a scope of MCBilling                                    *)
MCSubscription(name) == [MCScope(0, 0, 0, 0, FALSE, 0) EXCEPT !.billing = name]

MCOnePayment == {MCScope(1, 1, 0, 0, FALSE, 0)}

MCAllScopes ==
  {MCScope(1, 2, 0, 0, FALSE, 0),   \* two payments on one invoice
   MCScope(1, 1, 1, 0, TRUE, 0),    \* a payment, a note and due dates
   MCScope(1, 1, 0, 1, FALSE, 0),   \* an edit that overlaps settlement
   MCScope(2, 1, 0, 0, FALSE, 0),   \* one payment on two invoices
   MCScope(2, 0, 1, 0, FALSE, 0),
   MCScope(1, 1, 0, 0, TRUE, 1),    \* the payment of a manual intent
   MCScope(1, 0, 0, 1, TRUE, 0),    \* edits of dates
   MCAdvance(MCScope(1, 1, 0, 0, FALSE, 0)),  \* a payment overlaps an invalidation
   MCAdvance(MCScope(1, 0, 1, 1, FALSE, 0))}  \* so do a note and an edit
  \cup {MCSubscription(name) : name \in MCBillingScopes}

MCInScope ==
  /\ Cardinality({i \in Invoices : invoices[i].status # "absent"}) <= scope.invoices
  /\ Cardinality({p \in Payments : payments[p].status # "absent"}) <= scope.payments
  /\ Cardinality({n \in CreditNotes : notes[n].status # "absent" \/ issuing[n] # NotIssuing})
       <= scope.notes
  /\ Cardinality(edits) <= scope.edits
  /\ Cardinality(intents) <= scope.intents
  /\ Cardinality({i \in Invoices : invalidating[i] # NotInvalidating}) <= scope.advance
  /\ (\E i \in Invoices : invoices[i].late) => scope.ages

MCVars == <<vars, billingVars, scope>>

MCInit == Init /\ BillingInit /\ scope \in MCScopes /\ MCBillingStart(scope.billing)

MCNext ==
  /\ UNCHANGED scope
  /\ \/ scope.billing = "none" /\ Next /\ MCInScope' /\ UNCHANGED billingVars
     \/ scope.billing # "none" /\ BillingNext /\ MCBillingStep(scope.billing)
        /\ UNCHANGED vars

MCSpec == MCInit /\ [][MCNext]_MCVars

MCSymmetry == Permutations(Invoices) \cup Permutations(Payments)
=============================================================================
