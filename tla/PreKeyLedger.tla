---------------------------- MODULE PreKeyLedger ----------------------------
(***************************************************************************)
(* What the one-time prekeys of an installation promise to the peers that  *)
(* are given them by the server, without tables, dictionaries, batches or  *)
(* uploads: a prekey is held before it is published; one that is published *)
(* stays openable until a message opens it; nothing but the end of the ids *)
(* or the death of the process makes it go away, and a death takes only    *)
(* what was not saved, unless the next process cannot read what was: then  *)
(* it holds nothing, and the one after it holds what was saved again.      *)
(***************************************************************************)
CONSTANT PreKey

VARIABLES
    held,        \* prekeys that open a message
    saved,       \* prekeys that are held again after the process has died
    published,   \* prekeys that peers can be given
    opened,      \* published prekeys that opened a message
    lost,        \* prekeys a process died with, that none has held since
    exhausted    \* there is no id left: a new prekey takes the id of an old one

vars == <<held, saved, published, opened, lost, exhausted>>

Init ==
    /\ held = {}
    /\ saved = {}
    /\ published = {}
    /\ opened = {}
    /\ lost = {}
    /\ exhausted = FALSE

(***************************************************************************)
(* A prekey nobody has been given is held.  No other is given up for it,   *)
(* unless the ids have run out.  Saving writes everything that is held, or *)
(* fails and writes nothing.                                               *)
(***************************************************************************)
Keep(p) ==
    /\ p \notin published
    /\ p \in held' /\ held' \subseteq held \cup {p}
    /\ held \subseteq held' \/ exhausted
    /\ \/ saved' = saved
       \/ held' \subseteq saved' /\ saved' \subseteq saved \cup held' \cup opened
    /\ saved \subseteq saved' \/ exhausted
    /\ exhausted => exhausted'
    /\ UNCHANGED <<published, opened, lost>>

(* Only what is, or was, held is given to peers. *)
Publish ==
    /\ published \subseteq published' /\ published' \subseteq PreKey
    /\ published' \subseteq published \cup held \cup opened \cup lost \/ exhausted
    /\ UNCHANGED <<held, saved, opened, lost, exhausted>>

(* A message opens with the prekey, which opens no second one. *)
Open(p) ==
    /\ p \in (published \cap held) \ opened
    /\ held' = held \ {p}
    /\ opened' = opened \cup {p}
    /\ UNCHANGED <<saved, published, lost, exhausted>>

(* The process dies and another one starts with what was saved, or with    *)
(* nothing when that cannot be read.                                       *)
Die ==
    /\ held' = saved \/ held' = {}
    /\ lost' = (lost \cup held) \ held'
    /\ UNCHANGED <<saved, published, opened, exhausted>>

Next ==
    \/ \E p \in PreKey : Keep(p) \/ Open(p)
    \/ Publish
    \/ Die

Spec == Init /\ [][Next]_vars

(* What a peer relies on: the prekey he was given is held, unless he used  *)
(* it himself, it was lost with a process, or the ids have run out.        *)
Promise == ~exhausted => published \subseteq held \cup opened \cup lost

=============================================================================
