------------------------------ MODULE MCBilling ------------------------------
(* Instances of SubscriptionBilling small enough for TLC: each behaviour is  *)
(* of one scope, which says how much of the system it may use.               *)
EXTENDS SubscriptionBilling, FiniteSets

MCBillingScopes ==
  {"one sweep", "two sweeps", "retry", "two requests", "changed mind", "schedules",
   "invoices"}

(* "one sweep": one call at a time and one request.  "two sweeps": calls    *)
(* overlap and one of them fails.  "retry": a period billed in advance      *)
(* fails, and a request comes in between.  "two requests": requests that    *)
(* take effect at once overlap.  "changed mind": a cancellation is taken    *)
(* back.  "schedules": overlapping sweeps come upon a scheduled change.     *)
(* "invoices": what was invoiced is settled, reopened and voided by hand.   *)
(* In any other scope, billing rests and nothing is due.                    *)
MCBillingStart(scope) ==
  LET early   == [inAdvance |-> TRUE, early |-> TRUE]
      arrears == [inAdvance |-> FALSE, early |-> FALSE]
      plain   == subscription = Created("ACTIVE", 0, Never)
  IN
  /\ scope = "one sweep" => terms \in {early, arrears}
  /\ scope \in MCBillingScopes \ {"one sweep", "schedules"} => terms = early
  /\ scope \notin MCBillingScopes \/ scope = "schedules" => terms = arrears
  /\ scope \notin {"one sweep", "two sweeps"} => plain

(* Calls and requests are interchangeable: the first free one begins.       *)
MCFirstFree ==
  LET Begins(new, old)  == old.phase = "idle" /\ new.phase # "idle"
  IN
  /\ \A b, d \in Billers : d < b /\ Begins(billers'[b], billers[b]) => billers[d].phase # "idle"
  /\ \A c, e \in Clerks : e < c /\ Begins(clerks'[c], clerks[c]) => clerks[e].phase # "idle"

MCBillingInScope(scope) ==
  LET calls == {w \in Billers : billers[w].phase # "idle"}
      known == {c \in Clerks : clerks[c].phase # "idle"}
  IN
  /\ scope \notin {"two sweeps", "schedules"} => Cardinality(calls) <= 1
  /\ scope \notin {"two sweeps", "retry"} => billFaults = 0
  /\ clerkActs <= (CASE scope = "two sweeps" -> 0
                     [] scope \in {"two requests", "changed mind"} -> 2
                     [] OTHER -> 1)
  /\ scope \in {"retry", "changed mind", "schedules", "invoices"} => today <= 2
  /\ scope # "invoices" => byHand = {} /\ reopened = {}
  /\ scope = "invoices" =>
       /\ \A w \in calls : ~ billers[w].manual
       /\ \A c \in known : /\ clerks[c].wants.at \in {clerks[c].now, LastDay}
                            /\ clerks[c].wants.resumeAt = Never
  /\ scope = "two requests" =>
       /\ today <= 1 /\ schedules = {}
       /\ \A c \in known : clerks[c].wants.at = clerks[c].now /\ clerks[c].wants.resumeAt = Never
  /\ scope = "changed mind" =>
       \A c \in known : c = 1 /\ (clerks[c].wants = Keep \/ clerks[c].wants.action = "CANCEL")
  /\ scope = "schedules" => \A w \in calls : ~ billers[w].manual

(* What only "invoices" lets happen to an invoice that is not ahead         *)
MCSettlesAhead ==
  \A x \in settled' \ settled : Ahead(x[1]) /\ x[2] = issued[x[1]]

MCBillingStep(scope) ==
  /\ MCFirstFree /\ MCBillingInScope(scope)'
  /\ scope = "invoices" \/ MCSettlesAhead
=============================================================================
