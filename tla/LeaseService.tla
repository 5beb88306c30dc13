----------------------------- MODULE LeaseService -----------------------------
(***************************************************************************)
(* What the credential broker promises about leases, without its callers,  *)
(* timers, drivers and critical sections: a secret is minted, listed as a  *)
(* lease, destroyed and only then shown as revoked.  CredentialBroker      *)
(* implements it.                                                          *)
(***************************************************************************)
CONSTANT Lease

VARIABLES
    secret,   \* at the backend: none yet, live or dropped
    listed,   \* none while the lease is unknown, then listed or revoked
    refused   \* leases whose backend refused to destroy the secret

vars == <<secret, listed, refused>>

\* The backend has answered a revocation of l.
Settled(l) == secret[l] = "dropped" \/ l \in refused

Init ==
    /\ secret = [l \in Lease |-> "none"]
    /\ listed = [l \in Lease |-> "none"]
    /\ refused = {}

Mint(l) ==
    /\ secret[l] = "none"
    /\ secret' = [secret EXCEPT ![l] = "live"]
    /\ UNCHANGED <<listed, refused>>

\* A new lease, or one that is renewed while it is revoked.
List(l) ==
    /\ secret[l] # "none"
    /\ listed' = [listed EXCEPT ![l] = "listed"]
    /\ UNCHANGED <<secret, refused>>

\* Only a lease that has been listed is destroyed, or refused to be.
Destroy(l) ==
    /\ listed[l] # "none"
    /\ secret[l] = "live"
    /\ secret' = [secret EXCEPT ![l] = "dropped"]
    /\ UNCHANGED <<listed, refused>>

Refuse(l) ==
    /\ listed[l] # "none"
    /\ refused' = refused \cup {l}
    /\ UNCHANGED <<secret, listed>>

Revoke(l) ==
    /\ listed[l] = "listed"
    /\ Settled(l)
    /\ listed' = [listed EXCEPT ![l] = "revoked"]
    /\ UNCHANGED <<secret, refused>>

Next == \E l \in Lease : Mint(l) \/ List(l) \/ Destroy(l) \/ Refuse(l) \/ Revoke(l)

Spec == Init /\ [][Next]_vars

===============================================================================
