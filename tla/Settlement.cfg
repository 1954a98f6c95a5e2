SPECIFICATION MCSpec
CONSTANTS
  c1 = c1
  c2 = c2
  Customers       = {c1, c2}
  Invoices        = {i1, i2}
  Payments        = {p1, p2}
  CreditNotes     = {n1}
  InvoiceCustomer <- MCInvoiceCustomer
  NoteCustomer    <- MCNoteCustomer
  NoCustomer      = NoCustomer
  Amounts         = {1, 2}
  Totals          = {0, 2}
  MaxRevision     = 1
  MaxEdits        = 1
  NotIssuing      = NotIssuing
  MCScopes       <- MCAllScopes
  Billers         = {1, 2}
  Clerks          = {1, 2}
  Never           = Never
  Cadence         = 2
  Lead            = 1
  CycleLimits     = {2, Never}
  LastDay         = 3
  MaxClerkActs    = 2
  MaxBillFaults   = 1
SYMMETRY MCSymmetry
INVARIANTS TypeOK InvoiceConserved CollectibleIffOwed PaidAtTellsPaid
  AllocationsAccountForInvoice SourceConserved LedgerAccountsForReceivable
  BillingTypeOK OneInvoicePerPeriod PassedPeriodsAreInvoiced
PROPERTIES ReceivableFollows OverIsFinal
CHECK_DEADLOCK FALSE
