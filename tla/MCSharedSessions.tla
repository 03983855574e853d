-------------------------- MODULE MCSharedSessions --------------------------
(* TLC instances of SharedSessions. *)
EXTENDS SharedSessions, TLC

CONSTANTS u, v,    \* two users
          d, e     \* and two device ids

(* Two users with other devices, so that rows are fetched by both. *)
Addresses == {<<u, d>>, <<v, e>>}

(* The two sessions can be exchanged, user and device together. *)
Exchange == {f \in Permutations({u, v, d, e}) :
                {<<f[a[1]], f[a[2]]>> : a \in Addresses} = Addresses}
=============================================================================
