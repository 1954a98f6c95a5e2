-------------------------- MODULE FinanceVocabulary --------------------------
(***************************************************************************)
(* The vocabulary of 876's finance provisioning plane: what Core asks      *)
(* Billing to grant one application of one organization, and how Core      *)
(* derives that desired state from the application's subscriptions.        *)
(*                                                                         *)
(* One aggregate is modelled: a pair <organization, application>.  Every   *)
(* row, version and connection of the plane is keyed by such a pair, so    *)
(* different aggregates share nothing but the dispatcher's batches.        *)
(***************************************************************************)
EXTENDS Naturals, FiniteSets

CONSTANTS
  Subscriptions,       \* ids of the pair's subscription rows, in id order
  SubscriptionStates,  \* what a subscription row can be (see Rows)
  Manifests,           \* application profile revisions that get published
  Standings,           \* the standings of organization and app that occur
  NoManifest,          \* no published revision
  NoPayload,           \* the event row does not exist
  MaxVersion           \* bound on the lifecycle versions of the pair

ASSUME SubscriptionsAssumption ==
  /\ Subscriptions \subseteq Nat
  /\ Subscriptions # {}
  /\ IsFiniteSet(Subscriptions)

ASSUME ManifestsAssumption ==
  /\ \A m \in Manifests :
       /\ DOMAIN m = {"revision", "dependency", "scopes"}
       /\ m.dependency \in {"none", "embedded"}
       /\ m.revision \in Nat
  /\ NoManifest \notin Manifests

(* "deleted" when organization or app is deleted, "inactive" when either is *)
(* not active.                                                              *)
ASSUME StandingsAssumption ==
  /\ "open" \in Standings
  /\ Standings \subseteq {"open", "inactive", "deleted"}

ASSUME MaxVersionAssumption == MaxVersion \in Nat \ {0}

Versions == 1 .. MaxVersion

ConnectionStatus == {"ACTIVE", "SUSPENDED", "REVOKED"}

(* What an outbox event asks for, less the organization's display data.    *)
Payload ==
  [status    : ConnectionStatus,
   scopes    : {m.scopes : m \in Manifests},
   revision  : {m.revision : m \in Manifests},
   reference : Subscriptions]

ASSUME NoPayloadAssumption == NoPayload \notin Payload

-----------------------------------------------------------------------------
(* The status sets of the source. *)

ACTIVE_SUBSCRIPTION_STATES  == {"active", "trialing"}
REVOKED_SUBSCRIPTION_STATES == {"canceled", "incomplete_expired"}

(* The rows that exist: neither not created yet nor deleted for good.       *)
Rows(subs) == {s \in Subscriptions : subs[s] \notin {"unborn", "deleted"}}

First(S) == CHOOSE s \in S : \A t \in S : s <= t

(* Any active subscription makes the pair ACTIVE, else any that is not     *)
(* over makes it SUSPENDED, else it is REVOKED; the entitlement reference  *)
(* is the first subscription, by id, of the deciding group.                *)
EffectiveSubscriptionState(subs) ==
  LET active == {s \in Rows(subs) : subs[s] \in ACTIVE_SUBSCRIPTION_STATES}
      live   == {s \in Rows(subs) : subs[s] \notin REVOKED_SUBSCRIPTION_STATES}
  IN CASE active # {} -> [status |-> "ACTIVE",    reference |-> First(active)]
       [] active = {} /\ live # {} ->
                         [status |-> "SUSPENDED", reference |-> First(live)]
       [] OTHER       -> [status |-> "REVOKED",   reference |-> First(Rows(subs))]

(* `standing` sums up the organization's and the app's own state.           *)
OverriddenStatus(status, standing) ==
  CASE standing = "deleted"  -> "REVOKED"
    [] standing = "inactive" -> "SUSPENDED"
    [] standing = "open"     -> status

NeedsFinance(manifest) == manifest # NoManifest /\ manifest.dependency # "none"

(* Without a subscription nothing can be granted: the source throws.        *)
Derivable(snap) == NeedsFinance(snap.manifest) => Rows(snap.subs) # {}

(* The payload for a snapshot of the database whose manifest needs finance. *)
GrantedPayload(snap) ==
  LET state == EffectiveSubscriptionState(snap.subs)
  IN [status    |-> OverriddenStatus(state.status, snap.standing),
      scopes    |-> snap.manifest.scopes,
      revision  |-> snap.manifest.revision,
      reference |-> state.reference]

(* Without a finance dependency what was granted last is revoked.           *)
RevokingPayload(snap, last) ==
  [last EXCEPT !.status   = "REVOKED",
               !.revision = IF snap.manifest = NoManifest
                              THEN last.revision ELSE snap.manifest.revision]

DesiredPayload(snap, last) ==
  IF NeedsFinance(snap.manifest)
    THEN GrantedPayload(snap) ELSE RevokingPayload(snap, last)
=============================================================================
