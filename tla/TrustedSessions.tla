-------------------------- MODULE TrustedSessions --------------------------
(***************************************************************************)
(* What the session store and the identity store promise together, without *)
(* requests, bundles, rows or messages: trust on first use for as long as  *)
(* the process lives.  A session is established with the identity that is  *)
(* trusted for its address, or with the first one there is, which is       *)
(* trusted from then on; so is the first one that a message claims, even   *)
(* if no session comes of it.  A session that is deleted leaves the trust  *)
(* in its identity behind; a process that dies leaves the sessions behind. *)
(***************************************************************************)
CONSTANTS Address, Identity, None

VARIABLES
    session,   \* whom the session of each address was established with
    trusted    \* the identity that is trusted for each address

vars == <<session, trusted>>

Init ==
    /\ session = [a \in Address |-> None]
    /\ trusted = [a \in Address |-> None]

(* A session is established, or renewed. *)
Establish(a, i) ==
    /\ trusted[a] \in {None, i}
    /\ session' = [session EXCEPT ![a] = i]
    /\ trusted' = [trusted EXCEPT ![a] = i]

(* An identity is trusted for being the first, whatever session there is. *)
Remember(a, i) ==
    /\ trusted[a] \in {None, i}
    /\ trusted' = [trusted EXCEPT ![a] = i]
    /\ UNCHANGED session

(* Sessions are deleted; their identities stay trusted. *)
Delete(devices) ==
    /\ session' = [a \in Address |-> IF a \in devices THEN None ELSE session[a]]
    /\ UNCHANGED trusted

(* The process dies and another one starts: trust is forgotten. *)
Die ==
    /\ trusted' = [a \in Address |-> None]
    /\ UNCHANGED session

Next ==
    \/ \E a \in Address, i \in Identity : Establish(a, i) \/ Remember(a, i)
    \/ \E devices \in SUBSET Address : Delete(devices)
    \/ Die

Spec == Init /\ [][Next]_vars

=============================================================================
