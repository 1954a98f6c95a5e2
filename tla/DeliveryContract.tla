--------------------------- MODULE DeliveryContract --------------------------
(***************************************************************************)
(* What the finance provisioning plane promises, with the machinery left   *)
(* out: Core publishes a gapless history of desired states; Billing takes  *)
(* in each published state at most once, and what is in effect is always   *)
(* one of the states it took in; Core counts a state as delivered only     *)
(* after Billing took it in.  Delivery may be reopened by an operator.     *)
(*                                                                         *)
(* The contract does not promise that a newer state is never replaced by   *)
(* an older one: the code keeps that promise only when deliveries do not   *)
(* overlap (NewestWins in FinanceProvisioning).                            *)
(***************************************************************************)
EXTENDS Naturals

CONSTANTS MaxVersion, Payload, NoPayload

VARIABLES
  published,   \* published[v]: the state asked for by version v, or NoPayload
  taken,       \* versions Billing has a receipt for
  effective,   \* the version in effect at Billing, 0 before the first
  delivered    \* versions Core holds for delivered

contractVars == <<published, taken, effective, delivered>>

Versions == 1 .. MaxVersion

Init ==
  /\ published = [v \in Versions |-> NoPayload]
  /\ taken     = {}
  /\ effective = 0
  /\ delivered = {}

Publish(v, p) ==
  /\ published[v] = NoPayload
  /\ \A u \in Versions : u < v => published[u] # NoPayload
  /\ published' = [published EXCEPT ![v] = p]
  /\ UNCHANGED <<taken, effective, delivered>>

Take(v) ==
  /\ published[v] # NoPayload
  /\ v \notin taken
  /\ taken' = taken \cup {v}
  /\ \/ effective' = v
     \/ effective # 0 /\ effective' = effective
  /\ UNCHANGED <<published, delivered>>

Deliver(v) ==
  /\ v \in taken
  /\ delivered' = delivered \cup {v}
  /\ UNCHANGED <<published, taken, effective>>

Reopen(v) ==
  /\ delivered' = delivered \ {v}
  /\ UNCHANGED <<published, taken, effective>>

Next == \E v \in Versions :
  \/ \E p \in Payload : Publish(v, p)
  \/ Take(v)
  \/ Deliver(v)
  \/ Reopen(v)

Spec == Init /\ [][Next]_contractVars
=============================================================================
