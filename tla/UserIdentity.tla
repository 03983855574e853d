---------------------------- MODULE UserIdentity ----------------------------
(***************************************************************************)
(* What an installation promises about the identity of its user, without   *)
(* slots and loops: an identity is created, kept for the next start and    *)
(* given up as one, whenever the process dies.  There is no second one     *)
(* while it is kept, and one that was given up never comes back.  Only     *)
(* when the process dies more than once can a start find a mixture.        *)
(***************************************************************************)
EXTENDS Naturals

CONSTANTS KeySet, None, Mixed

VARIABLES
    kept,      \* the identity that the next start finds
    current,   \* the identity in use
    gone,      \* identities that will never be found again
    deaths     \* times the process has died

vars == <<kept, current, gone, deaths>>

Init ==
    /\ kept = None
    /\ current = None
    /\ gone = {}
    /\ deaths = 0

(* A new identity is created and kept at once, where there is none. *)
Create(k) ==
    /\ kept = None /\ current = None
    /\ k \notin gone
    /\ kept' = k /\ current' = k
    /\ UNCHANGED <<gone, deaths>>

(* A start takes up the identity that is kept. *)
Resume ==
    /\ kept # None
    /\ current \in {None, kept}
    /\ current' = kept
    /\ UNCHANGED <<kept, gone, deaths>>

(* The identity is given up for good; it is in use for a moment longer. *)
GiveUp ==
    /\ kept # None
    /\ kept' = None
    /\ gone' = gone \cup ({kept} \cap KeySet)
    /\ UNCHANGED <<current, deaths>>

Forget ==
    /\ kept = None
    /\ current' = None
    /\ UNCHANGED <<kept, gone, deaths>>

(* An identity that was being created is lost with the process, or mixed   *)
(* with what an earlier death has left behind.                             *)
Die ==
    /\ current' = None
    /\ kept' = kept \/ (kept = None /\ deaths > 0 /\ kept' = Mixed)
    /\ gone \subseteq gone' /\ gone' \subseteq KeySet \ {kept'}
    /\ deaths' = deaths + 1

Next ==
    \/ \E k \in KeySet : Create(k)
    \/ Resume \/ GiveUp \/ Forget \/ Die

Spec == Init /\ [][Next]_vars

=============================================================================
