--------------------------- MODULE SharedSessions ---------------------------
(***************************************************************************)
(* The sessions of one installation in two processes: the application and  *)
(* an extension of it that is initiated with the same shared container.    *)
(* Each fills its iZSSessionStore from the shared RemoteSessions table     *)
(* when it starts and from then on reads its own copies only.  What the    *)
(* extension has done to sessions it notes, as a list of identifiers, in   *)
(* the shared user defaults; the application reads the note and calls      *)
(* refreshSessions, which reads the rows again.                            *)
(*                                                                         *)
(* Encrypting or decrypting replaces a session by the next state of its    *)
(* ratchet.  The states of a session are numbered as they come about; 0    *)
(* stands for no session.  No two messages may be encrypted from one       *)
(* state, so `advanced` records those that have been used.                 *)
(*                                                                         *)
(* Who calls needToRefreshSessions and refreshSessions, and with which     *)
(* identifiers, is up to the two processes, which are external.            *)
(*                                                                         *)
(* store tells nobody of a failure.  When its save throws, the context     *)
(* keeps the change of the row, and the next save carries it along.  When  *)
(* already its fetch of the row throws, nothing is kept but the copy; left *)
(* out is a fetch that throws for a row of which the context keeps a       *)
(* change from before.                                                     *)
(***************************************************************************)
EXTENDS Naturals

CONSTANTS
    Address,     \* pairs of a user and a device id
    MaxStates,   \* bound: states that all sessions go through
    Faults       \* which calls of Core Data may fail: "save", "fetch"

App       == "app"
Extension == "extension"
Process   == {App, Extension}
State     == 0..MaxStates
None      == 0
Saved     == MaxStates + 1   \* the context of a process holds no change of a row,
Gone      == MaxStates + 2   \* or a change of a row that is not in the table

ASSUME StatesAssumption == MaxStates \in Nat \ {0}
ASSUME FaultsAssumption == Faults \subseteq {"save", "fetch"}

VARIABLES
    table,      \* column session of RemoteSessions, None without a row
    copy,       \* iZSSessionStore.sessions of each process
    unsaved,    \* rows a context has failed to save: the state it had fetched
    note,       \* kneedToRefreshSession
    refresh,    \* where the application is in refreshSessions, and its addresses
    touched,    \* sessions that the extension has changed and not noted
    states,     \* states that have come about
    advanced,   \* history: states a session has left for a next one
    missed,     \* history: copies of the application that no note will refresh
    failed,     \* history: sessions whose last store has failed
    ahead       \* history: copies that not even a context has, for a failed fetch

shared   == <<table, note>>
memory   == <<copy, unsaved, refresh, touched>>
ratchets == <<states, advanced>>
history  == <<missed, failed, ahead>>
vars     == <<shared, memory, ratchets, history>>

Outside == [at |-> "outside", ids |-> {}]

TypeOK ==
    /\ table \in [Address -> State]
    /\ copy \in [Process -> [Address -> State]]
    /\ unsaved \in [Process -> [Address -> (1..MaxStates) \cup {Saved, Gone}]]
    /\ note \in SUBSET Address
    /\ refresh \in [at : {"outside", "fetch", "clear"}, ids : SUBSET Address]
    /\ touched \in SUBSET Address
    /\ states \in 1..MaxStates
    /\ advanced \in [Address -> SUBSET (1..MaxStates)]
    /\ missed \in SUBSET Address
    /\ failed \in SUBSET Address
    /\ ahead \in SUBSET (Process \X Address)

(* Both processes have started; some sessions have been built before. *)
Init ==
    /\ table \in [Address -> {None, 1}]
    /\ copy = [p \in Process |-> table]
    /\ unsaved = [p \in Process |-> [a \in Address |-> Saved]]
    /\ note = {}
    /\ refresh = Outside
    /\ touched = {}
    /\ states = 1
    /\ advanced = [a \in Address |-> {}]
    /\ missed = {}
    /\ failed = {}
    /\ ahead = {}

-----------------------------------------------------------------------------
(* The application uses no session in the middle of refreshSessions. *)
Ready(p) == p = App => refresh = Outside

Unsaved(p) == {a \in Address : unsaved[p][a] # Saved}

Touch(p, a) == touched' = IF p = Extension THEN touched \cup {a} ELSE touched

(* A save writes all that a context holds; it throws when one of the rows   *)
(* is no longer as the context has fetched it.                              *)
CanSave(p) == \A b \in Unsaved(p) : unsaved[p][b] = table[b]

(* Mutant: the last save wins. *)
SaveRegardless(p, a) ==
    LET saved == Unsaved(p) \cup {a}
    IN  /\ table' = [b \in Address |-> IF b \in saved THEN copy'[p][b] ELSE table[b]]
        /\ unsaved' = [unsaved EXCEPT ![p] = [b \in Address |-> Saved]]
        /\ failed' = failed \ saved
        /\ missed' = IF p = App THEN missed \ saved
                     ELSE missed \cup (Unsaved(p) \ touched)

SaveContext(p, a) ==
    LET saved == Unsaved(p) \cup {a}
    IN  /\ CanSave(p)
        /\ table' = [b \in Address |-> IF b \in saved THEN copy'[p][b] ELSE table[b]]
        /\ unsaved' = [unsaved EXCEPT ![p] = [b \in Address |-> Saved]]
        /\ failed' = failed \ saved
        /\ missed' = IF p = App THEN missed \ saved
                     ELSE missed \cup (Unsaved(p) \ touched)

SaveFails(p, a) ==
    /\ ~CanSave(p) \/ ("save" \in Faults /\ table[a] # None)
    /\ unsaved' = [unsaved EXCEPT ![p][a] =
                     IF @ # Saved THEN @ ELSE IF table[a] = None THEN Gone ELSE table[a]]
    /\ failed' = failed \cup {a}
    /\ UNCHANGED <<table, missed>>

FetchFails(p, a) ==
    /\ "fetch" \in Faults
    /\ a \notin Unsaved(p)
    /\ failed' = failed \cup {a}
    /\ UNCHANGED <<table, unsaved, missed>>

(* store fetches the row and overwrites it, whatever state it is in by now. *)
StoreSession(p, a, state) ==
    /\ copy' = [copy EXCEPT ![p][a] = state]
    /\ Touch(p, a)
    /\ \/ (SaveContext(p, a) \/ SaveFails(p, a)) /\ ahead' = ahead \ {<<p, a>>}
       \/ FetchFails(p, a) /\ ahead' = ahead \cup {<<p, a>>}

NextState ==
    /\ states < MaxStates
    /\ states' = states + 1

(* Mutant: the next state is kept in memory only. *)
UseInMemory(p, a) ==
    /\ Ready(p)
    /\ copy[p][a] # None
    /\ NextState
    /\ advanced' = [advanced EXCEPT ![a] = @ \cup {copy[p][a]}]
    /\ copy' = [copy EXCEPT ![p][a] = states']
    /\ Touch(p, a)
    /\ UNCHANGED <<shared, unsaved, refresh, history>>

(* Mutant: does not look for a session. *)
UseAnyway(p, a) ==
    /\ Ready(p)
    /\ NextState
    /\ advanced' = [advanced EXCEPT ![a] = @ \cup {copy[p][a]}]
    /\ StoreSession(p, a, states')
    /\ UNCHANGED <<note, refresh>>

(* A process encrypts or decrypts with the copy it has. *)
Use(p, a) ==
    /\ Ready(p)
    /\ copy[p][a] # None
    /\ NextState
    /\ advanced' = [advanced EXCEPT ![a] = @ \cup {copy[p][a]}]
    /\ StoreSession(p, a, states')
    /\ UNCHANGED <<note, refresh>>

(* A prekey message, or a bundle, builds a session. *)
Build(p, a) ==
    /\ Ready(p)
    /\ NextState
    /\ StoreSession(p, a, states')
    /\ UNCHANGED <<note, refresh, advanced>>

(* deleteSession deletes the row at once, and then saves the context, which *)
(* cannot succeed when that row is among its changes.                       *)
Delete(p, a) ==
    /\ Ready(p)
    /\ copy[p][a] # None \/ table[a] # None
    /\ copy' = [copy EXCEPT ![p][a] = None]
    /\ Touch(p, a)
    /\ \/ /\ a \notin Unsaved(p)
          /\ SaveContext(p, a)
       \/ /\ Unsaved(p) # {}
          /\ table' = [table EXCEPT ![a] = None]
          /\ unsaved' = [unsaved EXCEPT ![p][a] = IF @ = Saved THEN Saved ELSE Gone]
          /\ failed' = failed \ {a}
          /\ UNCHANGED missed
    /\ ahead' = ahead \ {<<p, a>>}
    /\ UNCHANGED <<note, refresh, ratchets>>

-----------------------------------------------------------------------------
(* needToRefreshSessions replaces the note: the extension names what it has *)
(* touched, and what the note says already if it has looked.  What is noted *)
(* while the application is in refreshSessions may be cleared unread.       *)
NeedToRefreshSessions(identifiers) ==
    /\ touched # {}
    /\ touched \subseteq identifiers
    /\ identifiers \subseteq touched \cup note
    /\ note' = identifiers
    /\ touched' = {}
    /\ missed' = missed \cup (note \ identifiers)
                        \cup (IF refresh = Outside THEN {} ELSE identifiers)
    /\ UNCHANGED <<table, copy, unsaved, refresh, ratchets, failed, ahead>>

(* The application reads the note, sessionsToRefresh, ... *)
SessionsToRefresh ==
    /\ refresh = Outside
    /\ note # {}
    /\ refresh' = [at |-> "fetch", ids |-> note]
    /\ UNCHANGED <<shared, copy, unsaved, touched, ratchets, history>>

(* Mutant: the rows of the users, on one of the devices only. *)
RowsOfOneDevice(ids) ==
    {a \in Address : \E i \in ids : a[1] = i[1] /\ \A j \in ids : a[2] = j[2]}

(* The rows of any of the users and any of the devices. *)
RowsFor(ids) ==
    {a \in Address : (\E i \in ids : a[1] = i[1]) /\ (\E i \in ids : a[2] = i[2])}

(* ... refreshSessions takes over the sessions of the rows there are: a     *)
(* copy without a row stays, and a row that the context has changed itself  *)
(* is read as changed; ...                                                  *)
RefreshSession ==
    LET fetched == {a \in RowsFor(refresh.ids) : table[a] # None /\ a \notin Unsaved(App)}
    IN  /\ refresh.at = "fetch"
        /\ refresh' = [refresh EXCEPT !.at = "clear"]
        /\ copy' = [copy EXCEPT ![App] =
                       [a \in Address |-> IF a \in fetched THEN table[a] ELSE @[a]]]
        /\ missed' = (missed \ fetched) \cup {a \in refresh.ids : table[a] = None}
        /\ ahead' = ahead \ ({App} \X fetched)
        /\ UNCHANGED <<shared, unsaved, touched, ratchets, failed>>

(* ... and it clears the note. *)
ClearNote ==
    /\ refresh.at = "clear"
    /\ refresh' = Outside
    /\ note' = {}
    /\ UNCHANGED <<table, copy, unsaved, touched, ratchets, history>>

(* A process dies, and starts anew with the rows of the table. *)
Restart(p) ==
    /\ copy' = [copy EXCEPT ![p] = table]
    /\ unsaved' = [unsaved EXCEPT ![p] = [a \in Address |-> Saved]]
    /\ \/ /\ p = App
          /\ refresh' = Outside
          /\ missed' = {}
          /\ UNCHANGED touched
       \/ /\ p = Extension
          /\ touched' = {}
          /\ missed' = missed \cup touched
          /\ UNCHANGED refresh
    /\ ahead' = ahead \ ({p} \X Address)
    /\ UNCHANGED <<shared, ratchets, failed>>

-----------------------------------------------------------------------------
Next ==
    \/ \E p \in Process, a \in Address : Use(p, a) \/ Build(p, a) \/ Delete(p, a)
    \/ \E identifiers \in SUBSET Address : NeedToRefreshSessions(identifiers)
    \/ SessionsToRefresh \/ RefreshSession \/ ClearNote
    \/ \E p \in Process : Restart(p)

Spec == Init /\ [][Next]_vars

-----------------------------------------------------------------------------
(***************************************************************************)
(* The session in the table has not been used, so that a process that has  *)
(* started, or refreshed, encrypts no second message from one state of the *)
(* ratchet; unless the last store of the session has failed, of which it   *)
(* tells nobody.                                                           *)
(***************************************************************************)
TableIsUnused == \A a \in Address : table[a] \in advanced[a] => a \in failed

(***************************************************************************)
(* The table is never behind a copy, but that of a process whose last      *)
(* store of it has failed: neither a refresh nor a restart of a process    *)
(* takes a session back, and no late save does.                            *)
(***************************************************************************)
TableIsLatest ==
    \A p \in Process, a \in Address :
        table[a] # None /\ a \notin Unsaved(p) /\ <<p, a>> \notin ahead =>
            copy[p][a] <= table[a]

(***************************************************************************)
(* What a save brings into the table is newer than what it replaces, and   *)
(* no message has been made from it: a save that was late, or that carries *)
(* a change of another session along, takes no ratchet back, even when     *)
(* saves before it have failed.                                            *)
(***************************************************************************)
TableAdvances ==
    [][\A a \in Address :
          table'[a] \notin {None, table[a]} =>
              table'[a] > table[a] /\ table'[a] \notin advanced'[a]]_vars

(***************************************************************************)
(* A copy of the application that is not what the table has is noted, or   *)
(* about to be, or being refreshed, unless the application has failed to   *)
(* store it.  What gets lost: a note that another replaces, or that is     *)
(* written while the application is in refreshSessions; the sessions of an *)
(* extension that dies before it writes one, or saves them after it; and   *)
(* sessions that it has deleted.                                           *)
(***************************************************************************)
StaleIsNoted ==
    \A a \in Address :
        copy[App][a] # table[a] /\ a \notin Unsaved(App) /\ <<App, a>> \notin ahead =>
            \/ a \in note /\ refresh.at # "clear"
            \/ a \in touched \cup missed
=============================================================================
