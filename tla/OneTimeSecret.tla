---------------------------- MODULE OneTimeSecret ----------------------------
(***************************************************************************)
(* What a secret handoff promises: one actor, the addressee, gets hold of  *)
(* the secret at most once, an admin-class one only after an operator has  *)
(* approved it, and nobody once it has lapsed.                             *)
(***************************************************************************)
EXTENDS Sequences

CONSTANTS Actors, Secrets, Nobody

VARIABLES
    phase,      \* phase[k]: "absent", "sealed", "taken" or "lapsed"
    addressee,  \* addressee[k], Nobody while absent
    locked,     \* admin-class secrets no operator has approved yet
    delivered   \* delivered[k]: whom the envelope was handed to, in order

secretVars == <<phase, addressee, locked, delivered>>

Init ==
    /\ phase = [k \in Secrets |-> "absent"]
    /\ addressee = [k \in Secrets |-> Nobody]
    /\ locked = {}
    /\ delivered = [k \in Secrets |-> <<>>]

Seal(k, a) ==
    /\ phase[k] = "absent"
    /\ phase' = [phase EXCEPT ![k] = "sealed"]
    /\ addressee' = [addressee EXCEPT ![k] = a]
    /\ locked' \in {locked, locked \union {k}}
    /\ UNCHANGED delivered

Unlock(k) ==
    /\ k \in locked
    /\ locked' = locked \ {k}
    /\ UNCHANGED <<phase, addressee, delivered>>

\* From here on no other request can get the secret.
Take(k) ==
    /\ phase[k] = "sealed"
    /\ k \notin locked
    /\ phase' = [phase EXCEPT ![k] = "taken"]
    /\ UNCHANGED <<addressee, locked, delivered>>

\* The request that took it may still be lost, so this may never happen.
Deliver(k) ==
    /\ phase[k] = "taken"
    /\ delivered[k] = <<>>
    /\ delivered' = [delivered EXCEPT ![k] = <<addressee[k]>>]
    /\ UNCHANGED <<phase, addressee, locked>>

\* Expired blobs are swept together.
Lapse(K) ==
    /\ \A k \in K : phase[k] = "sealed"
    /\ phase' = [k \in Secrets |-> IF k \in K THEN "lapsed" ELSE phase[k]]
    /\ UNCHANGED <<addressee, locked, delivered>>

Next ==
    \/ \E k \in Secrets :
          \/ \E a \in Actors : Seal(k, a)
          \/ Unlock(k)
          \/ Take(k)
          \/ Deliver(k)
    \/ \E K \in SUBSET Secrets : Lapse(K)

Spec == Init /\ [][Next]_secretVars
==============================================================================
