------------------------------ MODULE MCFinance ------------------------------
(* Instances of FinanceProvisioning small enough for TLC. *)
EXTENDS FinanceProvisioning, TLC

MCOneSubscription  == {1}
MCTwoSubscriptions == {1, 2}

MCEmbedded == [revision |-> 1, dependency |-> "embedded", scopes |-> {"read"}]
MCWithout  == [revision |-> 2, dependency |-> "none", scopes |-> {}]

MCRenewed  == [revision |-> 2, dependency |-> "embedded", scopes |-> {"read", "write"}]

MCEmbeddedOnly  == {MCEmbedded}
MCTwoManifests  == {MCEmbedded, MCWithout}
MCTwoEmbedded   == {MCEmbedded, MCRenewed}

MCCallerSymmetry == Permutations(Callers)

(* A later moment of the same system: the first event has been delivered.  *)
MCGranted == [status |-> "ACTIVE", scopes |-> {"read"}, revision |-> 1, reference |-> 1]

MCProvisionedInit ==
  /\ subs       = [s \in Subscriptions |-> "active"]
  /\ subVersion = [s \in Subscriptions |-> 1]
  /\ standing   = "open"
  /\ manifest   = MCEmbedded
  /\ archived   = {}
  /\ appRuns    = {}
  /\ caller     = [c \in Callers |-> IdleCaller]
  /\ outbox     = [v \in Versions |->
                    IF v = 1 THEN [status |-> "delivered", linked |-> TRUE,
                                   payload |-> MCGranted] ELSE AbsentRow]
  /\ runs       = [v \in Versions |-> IF v = 1 THEN "succeeded" ELSE "none"]
  /\ retry      = [o \in Operators |-> NoRetry]
  /\ connection = [version |-> 1, payload |-> MCGranted]
  /\ inbox      = [v \in Versions |-> IF v = 1 THEN "applied" ELSE "none"]
  /\ requests   = {}
  /\ replies    = [d \in Dispatchers |-> NoReply]
  /\ DispatchInit

MCProvisionedSpec == MCProvisionedInit /\ [][Next]_vars

(* An earlier one: the first event is published and not delivered yet.    *)
MCPublishedInit ==
  /\ subs       = [s \in Subscriptions |-> "active"]
  /\ subVersion = [s \in Subscriptions |-> 1]
  /\ standing   = "open"
  /\ manifest   = MCEmbedded
  /\ archived   = {}
  /\ appRuns    = {}
  /\ caller     = [c \in Callers |-> IdleCaller]
  /\ outbox     = [v \in Versions |->
                    IF v = 1 THEN [status |-> "pending", linked |-> TRUE,
                                   payload |-> MCGranted] ELSE AbsentRow]
  /\ runs       = [v \in Versions |-> IF v = 1 THEN "queued" ELSE "none"]
  /\ retry      = [o \in Operators |-> NoRetry]
  /\ BillingInit
  /\ DispatchInit

MCPublishedSpec == MCPublishedInit /\ [][Next]_vars /\ Fairness

(* Status changes only, and no handler fails.                               *)
MCUnfailing(c) ==
  /\ \/ /\ \/ UpdateOrganizationStatus(c) \/ ReadStanding(c)
           \/ ReadManifest(c) \/ ReadSubscriptions(c)
           \/ AlreadyPublished(c) \/ DecideNewEvent(c) \/ StampSubscriptions(c)
        /\ UNCHANGED outboxVars
     \/ caller[c].pc = "create" /\ ~Published(caller[c].version) /\ CreateEvent(c)
     \/ CreateRun(c)
     \/ LinkRun(c)
  /\ UNCHANGED <<billingVars, dispatch>>

MCUnfailingSpec == MCProvisionedInit /\ [][\E c \in Callers : MCUnfailing(c)]_vars
=============================================================================
