------------------------ MODULE SharedSessionsProofs ------------------------
(***************************************************************************)
(* Theorems about SharedSessions, for any sessions and any number of       *)
(* states they go through, whether saves fail or not.                      *)
(***************************************************************************)
EXTENDS SharedSessions, TLAPS

(* The states that exist are those that have been counted. *)
StatesExist ==
    /\ \A p \in Process, a \in Address : copy[p][a] <= states
    /\ \A a \in Address : table[a] <= states
    /\ \A a \in Address : \A s \in advanced[a] : s <= states

(* A change that is not saved is later than the row it was made to, ... *)
UnsavedIsLater ==
    \A p \in Process, a \in Address :
        unsaved[p][a] \in 1..MaxStates => unsaved[p][a] < copy[p][a]

(* ... and nobody else has seen it. *)
UnsavedIsOwn ==
    \A p \in Process, a \in Address :
        a \in Unsaved(p) /\ copy[p][a] # None =>
            /\ copy[p][a] \notin advanced[a]
            /\ copy[p][a] # table[a]
            /\ \A q \in Process : q # p => copy[q][a] # copy[p][a]

(* What has been noted since the application has read the note is missed. *)
NoteIsRead == refresh.at = "fetch" => note \subseteq refresh.ids \cup missed

States == StatesExist /\ UnsavedIsLater /\ UnsavedIsOwn /\ TableIsLatest /\ TableIsUnused
Inv    == TypeOK /\ States

-----------------------------------------------------------------------------
LEMMA Numbers ==
  /\ MaxStates \in Nat \ {0}
  /\ Saved \in Nat \ State /\ Gone \in Nat \ State /\ Saved # Gone
  /\ None \in State /\ None \notin 1..MaxStates
  /\ \A s \in State : s \in Nat /\ (s # None <=> s \in 1..MaxStates)
  /\ App \in Process /\ Extension \in Process /\ App # Extension
  BY StatesAssumption DEF Saved, Gone, State, None, App, Extension, Process

LEMMA Unsaveds ==
  ASSUME NEW p \in Process, NEW a \in Address
  PROVE  a \in Unsaved(p) <=> unsaved[p][a] # Saved
  BY DEF Unsaved

(* A copy is replaced. *)
LEMMA CopyReplaced ==
  ASSUME TypeOK, NEW p \in Process, NEW a \in Address, NEW s \in State,
         copy' = [copy EXCEPT ![p][a] = s]
  PROVE  /\ copy' \in [Process -> [Address -> State]]
         /\ \A q \in Process, b \in Address :
               copy'[q][b] = IF q = p /\ b = a THEN s ELSE copy[q][b]
  BY DEF TypeOK

(* What a save does that succeeds: it writes the copies of the context, and *)
(* none of them to a row that has changed since it was fetched.             *)
LEMMA Saves ==
  ASSUME TypeOK, NEW p \in Process, NEW a \in Address, SaveContext(p, a),
         copy' \in [Process -> [Address -> State]]
  PROVE  /\ table' \in [Address -> State]
         /\ \A b \in Address : table'[b] = IF b \in Unsaved(p) \cup {a} THEN copy'[p][b]
                                           ELSE table[b]
         /\ unsaved' \in [Process -> [Address -> (1..MaxStates) \cup {Saved, Gone}]]
         /\ \A q \in Process, b \in Address :
               unsaved'[q][b] = IF q = p THEN Saved ELSE unsaved[q][b]
         /\ \A b \in Unsaved(p) : unsaved[p][b] = table[b] /\ table[b] \in 1..MaxStates
         /\ failed' = failed \ (Unsaved(p) \cup {a})
         /\ missed' \in SUBSET Address
  <1>1. table' \in [Address -> State]
    <2>1. table \in [Address -> State]
      BY DEF TypeOK
    <2> QED BY <2>1 DEF SaveContext
  <1>2. \A b \in Address : table'[b] = IF b \in Unsaved(p) \cup {a} THEN copy'[p][b]
                                       ELSE table[b]
    BY DEF SaveContext
  <1>3. /\ unsaved' \in [Process -> [Address -> (1..MaxStates) \cup {Saved, Gone}]]
        /\ \A q \in Process, b \in Address :
              unsaved'[q][b] = IF q = p THEN Saved ELSE unsaved[q][b]
    BY DEF SaveContext, TypeOK
  <1>4. ASSUME NEW b \in Unsaved(p)
        PROVE  unsaved[p][b] = table[b] /\ table[b] \in 1..MaxStates
    <2>1. b \in Address /\ unsaved[p][b] # Saved /\ unsaved[p][b] = table[b]
      BY DEF SaveContext, CanSave, Unsaved
    <2>2. table[b] \in State /\ unsaved[p][b] \in (1..MaxStates) \cup {Saved, Gone}
      BY <2>1 DEF TypeOK
    <2> QED BY <2>1, <2>2, Numbers
  <1>5. failed' = failed \ (Unsaved(p) \cup {a})
    BY DEF SaveContext
  <1>6. missed' \in SUBSET Address
    BY DEF SaveContext, TypeOK, Unsaved
  <1> QED BY <1>1, <1>2, <1>3, <1>4, <1>5, <1>6

(* What it leaves when it fails. *)
LEMMA UnsavedAfter ==
  ASSUME TypeOK, NEW p \in Process, NEW a \in Address,
         unsaved' = [unsaved EXCEPT ![p][a] =
                       IF @ # Saved THEN @ ELSE IF table[a] = None THEN Gone ELSE table[a]]
  PROVE  /\ unsaved' \in [Process -> [Address -> (1..MaxStates) \cup {Saved, Gone}]]
         /\ \A q \in Process, b \in Address :
               ~(q = p /\ b = a) => unsaved'[q][b] = unsaved[q][b]
         /\ unsaved'[p][a] \in {unsaved[p][a], table[a], Gone}
         /\ unsaved'[p][a] # Saved
  <1> DEFINE u == IF unsaved[p][a] # Saved THEN unsaved[p][a]
                  ELSE IF table[a] = None THEN Gone ELSE table[a]
  <1>1. table[a] \in State /\ unsaved[p][a] \in (1..MaxStates) \cup {Saved, Gone}
    BY DEF TypeOK
  <1>2. /\ u \in (1..MaxStates) \cup {Saved, Gone}
        /\ u \in {unsaved[p][a], table[a], Gone} /\ u # Saved
    BY <1>1, Numbers
  <1>3. unsaved' = [unsaved EXCEPT ![p][a] = u]
    OBVIOUS
  <1> HIDE DEF u
  <1> QED BY <1>2, <1>3 DEF TypeOK

(* Whether a copy is ahead of the context changes for the one that is       *)
(* stored, or deleted, only.                                                *)
LEMMA AheadAfter ==
  ASSUME TypeOK, NEW p \in Process, NEW a \in Address,
         ahead' = ahead \ {<<p, a>>} \/ ahead' = ahead \cup {<<p, a>>}
  PROVE  /\ ahead' \in SUBSET (Process \X Address)
         /\ \A q \in Process, b \in Address :
               ~(q = p /\ b = a) => (<<q, b>> \in ahead' <=> <<q, b>> \in ahead)
  <1>1. <<p, a>> \in Process \X Address
    OBVIOUS
  <1> QED BY <1>1 DEF TypeOK

(* A store that does not save leaves the table as it is, and a change that  *)
(* the context keeps, or a copy that is ahead of the context.               *)
LEMMA StoreFails ==
  ASSUME TypeOK, NEW p \in Process, NEW a \in Address, NEW s,
         StoreSession(p, a, s), ~SaveContext(p, a)
  PROVE  /\ UNCHANGED <<table, missed>> /\ failed' = failed \cup {a}
         /\ unsaved' \in [Process -> [Address -> (1..MaxStates) \cup {Saved, Gone}]]
         /\ \A q \in Process, b \in Address :
               ~(q = p /\ b = a) => unsaved'[q][b] = unsaved[q][b]
         /\ unsaved'[p][a] \in {unsaved[p][a], table[a], Gone}
         /\ unsaved'[p][a] # Saved \/ <<p, a>> \in ahead'
  <1>1. CASE SaveFails(p, a)
    BY <1>1, UnsavedAfter DEF SaveFails
  <1>2. CASE FetchFails(p, a) /\ <<p, a>> \in ahead'
    BY <1>2 DEF FetchFails, TypeOK
  <1> QED BY <1>1, <1>2 DEF StoreSession

(* When a save can succeed, each change the context holds leaves a row for  *)
(* a later state, that no other process has and no message was made from.   *)
LEMMA PendingIsNew ==
  ASSUME Inv, NEW p \in Process, CanSave(p), NEW b \in Unsaved(p)
  PROVE  /\ b \in Address /\ copy[p][b] # None
         /\ table[b] \in 1..MaxStates /\ table[b] < copy[p][b]
         /\ copy[p][b] \notin advanced[b]
         /\ \A q \in Process : q # p => copy[q][b] # copy[p][b]
  <1>1. b \in Address /\ unsaved[p][b] # Saved /\ unsaved[p][b] = table[b]
    BY DEF CanSave, Unsaved
  <1>2. table[b] \in 1..MaxStates
    <2>1. table[b] \in State /\ unsaved[p][b] \in (1..MaxStates) \cup {Saved, Gone}
      BY <1>1 DEF Inv, TypeOK
    <2> QED BY <1>1, <2>1, Numbers
  <1>3. table[b] < copy[p][b]
    BY <1>1, <1>2 DEF Inv, States, UnsavedIsLater
  <1>4. copy[p][b] # None
    <2>1. table[b] \in Nat /\ table[b] >= 1
      BY <1>2, StatesAssumption
    <2> QED BY <1>3, <2>1 DEF None
  <1> QED BY <1>1, <1>2, <1>3, <1>4 DEF Inv, States, UnsavedIsOwn

-----------------------------------------------------------------------------
LEMMA InitInv == Init => Inv
  <1> SUFFICES ASSUME Init PROVE Inv
    OBVIOUS
  <1>1. /\ table \in [Address -> {None, 1}]
        /\ \A p \in Process, a \in Address : copy[p][a] = table[a]
        /\ \A p \in Process, a \in Address : unsaved[p][a] = Saved
        /\ states = 1 /\ advanced = [a \in Address |-> {}]
    BY DEF Init
  <1>2. TypeOK
    <2>1. 1 \in State /\ None \in State /\ 1 \in 1..MaxStates
      BY Numbers DEF State
    <2>2. table \in [Address -> State]
      BY <1>1, <2>1
    <2>3. copy \in [Process -> [Address -> State]]
      BY <2>2 DEF Init
    <2> QED BY <2>1, <2>2, <2>3 DEF Init, TypeOK, Outside
  <1>3. \A a \in Address : table[a] \in {0, 1}
    BY <1>1 DEF None
  <1>4. StatesExist
    BY <1>1, <1>3 DEF StatesExist
  <1>5. UnsavedIsLater /\ UnsavedIsOwn
    BY <1>1, Numbers, Unsaveds DEF UnsavedIsLater, UnsavedIsOwn, State
  <1>6. TableIsLatest /\ TableIsUnused
    BY <1>1, <1>3 DEF TableIsLatest, TableIsUnused
  <1> QED BY <1>2, <1>4, <1>5, <1>6 DEF Inv, States

(***************************************************************************)
(* A process replaces its copy by the next state, having used it or not,   *)
(* and stores it.                                                          *)
(***************************************************************************)
Advanced(p, a) ==
    \/ advanced' = advanced
    \/ copy[p][a] # None /\ advanced' = [advanced EXCEPT ![a] = @ \cup {copy[p][a]}]

LEMMA StoreType ==
  ASSUME Inv, NEW p \in Process, NEW a \in Address, NextState,
         StoreSession(p, a, states'), Advanced(p, a), UNCHANGED <<note, refresh>>
  PROVE  TypeOK'
  <1>1. states' = states + 1 /\ states' \in 1..MaxStates /\ states' \in State
    BY Numbers DEF NextState, Inv, TypeOK, State
  <1>2. copy' \in [Process -> [Address -> State]]
    BY <1>1, CopyReplaced DEF Inv, StoreSession
  <1>3. /\ table' \in [Address -> State] /\ missed' \in SUBSET Address
        /\ failed' \in SUBSET Address
        /\ unsaved' \in [Process -> [Address -> (1..MaxStates) \cup {Saved, Gone}]]
    <2>1. CASE SaveContext(p, a)
      <3>1. failed' = failed \ (Unsaved(p) \cup {a})
        BY <1>2, <2>1, Saves DEF Inv
      <3> QED BY <1>2, <2>1, <3>1, Saves DEF Inv, TypeOK
    <2>2. CASE ~SaveContext(p, a)
      <3>1. /\ UNCHANGED <<table, missed>> /\ failed' = failed \cup {a}
            /\ unsaved' \in [Process -> [Address -> (1..MaxStates) \cup {Saved, Gone}]]
        BY <2>2, StoreFails DEF Inv
      <3> QED BY <3>1 DEF Inv, TypeOK
    <2> QED BY <2>1, <2>2
  <1>4. touched' \in SUBSET Address
    BY DEF StoreSession, Touch, Inv, TypeOK
  <1>5. advanced' \in [Address -> SUBSET (1..MaxStates)]
    <2>1. copy[p][a] # None => copy[p][a] \in 1..MaxStates
      BY Numbers DEF Inv, TypeOK
    <2> QED BY <2>1 DEF Advanced, Inv, TypeOK
  <1>6. ahead' \in SUBSET (Process \X Address)
    BY AheadAfter DEF StoreSession, Inv
  <1> QED BY <1>1, <1>2, <1>3, <1>4, <1>5, <1>6 DEF Inv, TypeOK

(* What a process does to its copy of a, and to the row of a. *)
LEMMA StoreStates ==
  ASSUME Inv, NEW p \in Process, NEW a \in Address, NextState,
         StoreSession(p, a, states'), Advanced(p, a)
  PROVE  States'
  <1>1. /\ states' = states + 1 /\ states' \in State /\ states' # None
        /\ states \in Nat
    BY Numbers DEF NextState, Inv, TypeOK, State, None
  <1>2. /\ copy' \in [Process -> [Address -> State]]
        /\ \A q \in Process, b \in Address :
              copy'[q][b] = IF q = p /\ b = a THEN states' ELSE copy[q][b]
    BY <1>1, CopyReplaced DEF Inv, StoreSession
  <1>3. \A q \in Process, b \in Address :
           copy[q][b] \in State /\ table[b] \in State /\ copy[q][b] # states' /\ table[b] # states'
           /\ copy[q][b] <= states /\ table[b] <= states /\ states' \notin advanced[b]
    <2> SUFFICES ASSUME NEW q \in Process, NEW b \in Address
                 PROVE  copy[q][b] \in State /\ table[b] \in State /\ copy[q][b] # states'
                        /\ table[b] # states' /\ copy[q][b] <= states /\ table[b] <= states
                        /\ states' \notin advanced[b]
      OBVIOUS
    <2>1. copy[q][b] \in State /\ table[b] \in State
      BY DEF Inv, TypeOK
    <2>2. /\ copy[q][b] <= states /\ table[b] <= states
          /\ \A s \in advanced[b] : s <= states
      BY DEF Inv, States, StatesExist
    <2> QED BY <1>1, <2>1, <2>2, Numbers
  <1>4. /\ advanced' \in [Address -> SUBSET (1..MaxStates)]
        /\ \A b \in Address : b # a => advanced'[b] = advanced[b]
        /\ advanced'[a] \subseteq advanced[a] \cup {copy[p][a]}
    <2>1. advanced \in [Address -> SUBSET (1..MaxStates)]
      BY DEF Inv, TypeOK
    <2>2. CASE advanced' = advanced
      BY <2>1, <2>2
    <2>3. CASE copy[p][a] # None /\ advanced' = [advanced EXCEPT ![a] = @ \cup {copy[p][a]}]
      <3>1. copy[p][a] \in 1..MaxStates
        BY <1>3, <2>3, Numbers
      <3> QED BY <2>1, <2>3, <3>1
    <2> QED BY <2>2, <2>3 DEF Advanced
  <1>5. \A b \in Address : states' \notin advanced'[b]
    BY <1>3, <1>4
  <1>6. ASSUME NEW q \in Process, NEW b \in Address
        PROVE  copy'[q][b] \in Nat /\ copy'[q][b] <= states'
    <2>1. CASE q = p /\ b = a
      BY <1>1, <1>2, <2>1
    <2>2. CASE ~(q = p /\ b = a)
      <3>1. copy'[q][b] = copy[q][b]
        BY <1>2, <2>2
      <3>2. copy[q][b] \in Nat /\ copy[q][b] <= states
        BY <1>3, Numbers
      <3> QED BY <1>1, <3>1, <3>2
    <2> QED BY <2>1, <2>2
  <1>9. \A q \in Process, b \in Address :
           ~(q = p /\ b = a) => (<<q, b>> \in ahead' <=> <<q, b>> \in ahead)
    BY AheadAfter DEF StoreSession, Inv
  <1>7. CASE SaveContext(p, a)
    <2>1. /\ table' \in [Address -> State]
          /\ \A b \in Address : table'[b] = IF b \in Unsaved(p) \cup {a} THEN copy'[p][b]
                                            ELSE table[b]
          /\ \A q \in Process, b \in Address :
                unsaved'[q][b] = IF q = p THEN Saved ELSE unsaved[q][b]
          /\ \A b \in Unsaved(p) : unsaved[p][b] = table[b] /\ table[b] \in 1..MaxStates
          /\ failed' = failed \ (Unsaved(p) \cup {a})
      BY <1>2, <1>7, Saves DEF Inv
    <2>2. \A b \in Unsaved(p) : /\ b \in Address /\ copy[p][b] # None
                                /\ table[b] < copy[p][b]
                                /\ copy[p][b] \notin advanced[b]
                                /\ \A q \in Process : q # p => copy[q][b] # copy[p][b]
      <3>1. CanSave(p)
        BY <1>7 DEF SaveContext
      <3> QED BY <3>1, PendingIsNew
    <2>3. StatesExist'
      <3>1. \A b \in Address : table'[b] <= states'
        <4> SUFFICES ASSUME NEW b \in Address PROVE table'[b] <= states'
          OBVIOUS
        <4>1. table[b] \in Nat /\ table[b] <= states
          BY <1>3, Numbers
        <4>2. table'[b] \in {table[b], copy'[p][b]}
          BY <2>1
        <4>3. copy'[p][b] <= states'
          BY <1>6
        <4> QED BY <1>1, <4>1, <4>2, <4>3
      <3>2. \A b \in Address : \A s \in advanced'[b] : s <= states'
        <4> SUFFICES ASSUME NEW b \in Address, NEW s \in advanced'[b] PROVE s <= states'
          OBVIOUS
        <4>1. s \in Nat /\ (s \in advanced[b] \/ s = copy[p][a])
          BY <1>4, Numbers
        <4>2. s <= states
          BY <1>3, <4>1 DEF Inv, States, StatesExist
        <4> QED BY <1>1, <4>1, <4>2
      <3> QED BY <1>6, <3>1, <3>2 DEF StatesExist
    <2>4. UnsavedIsLater'
      <3> SUFFICES ASSUME NEW q \in Process, NEW b \in Address,
                          unsaved'[q][b] \in 1..MaxStates
                   PROVE  unsaved'[q][b] < copy'[q][b]
        BY DEF UnsavedIsLater
      <3>1. q # p
        BY <2>1, Numbers DEF State
      <3> QED BY <1>2, <2>1, <3>1 DEF Inv, States, UnsavedIsLater
    <2>5. UnsavedIsOwn'
      <3> SUFFICES ASSUME NEW q \in Process, NEW b \in Address,
                          unsaved'[q][b] # Saved, copy'[q][b] # None
                   PROVE  /\ copy'[q][b] \notin advanced'[b] /\ copy'[q][b] # table'[b]
                          /\ \A r \in Process : r # q => copy'[r][b] # copy'[q][b]
        BY DEF UnsavedIsOwn, Unsaved
      <3>1. q # p /\ copy'[q][b] = copy[q][b] /\ b \in Unsaved(q)
        BY <1>2, <2>1, Unsaveds
      <3>2. /\ copy[q][b] \notin advanced[b] /\ copy[q][b] # table[b]
            /\ \A r \in Process : r # q => copy[r][b] # copy[q][b]
        BY <3>1 DEF Inv, States, UnsavedIsOwn
      <3>3. \A r \in Process : r # q => copy'[r][b] # copy'[q][b]
        BY <1>2, <1>3, <3>1, <3>2
      <3>4. copy'[q][b] # table'[b]
        BY <2>1, <3>1, <3>2, <3>3
      <3>5. copy'[q][b] \notin advanced'[b]
        BY <1>4, <3>1, <3>2
      <3> QED BY <3>3, <3>4, <3>5
    <2>6. TableIsLatest'
      <3> SUFFICES ASSUME NEW q \in Process, NEW b \in Address, table'[b] # None,
                          unsaved'[q][b] = Saved, <<q, b>> \notin ahead'
                   PROVE  copy'[q][b] <= table'[b]
        BY DEF TableIsLatest, Unsaved
      <3>1. copy'[q][b] \in Nat /\ table'[b] \in Nat /\ copy[q][b] \in Nat
            /\ copy[p][b] \in Nat /\ table[b] \in Nat
        BY <1>2, <1>3, <2>1, Numbers
      <3>2. CASE b = a
        BY <1>1, <1>2, <1>3, <2>1, <3>1, <3>2
      <3>3. CASE b # a /\ b \notin Unsaved(p)
        <4>1. b \notin Unsaved(q)
          BY <2>1, <3>3, Unsaveds
        <4> QED BY <1>2, <1>9, <2>1, <3>3, <4>1 DEF Inv, States, TableIsLatest
      <3>4. CASE b # a /\ b \in Unsaved(p) /\ q # p
        <4>1. b \notin Unsaved(q) /\ table[b] # None
          BY <2>1, <3>4, Unsaveds, Numbers
        <4>2. copy[q][b] <= table[b]
          BY <1>9, <3>4, <4>1 DEF Inv, States, TableIsLatest
        <4> QED BY <1>2, <2>1, <2>2, <3>1, <3>4, <4>2
      <3>5. CASE b # a /\ b \in Unsaved(p) /\ q = p
        BY <2>1, <3>1, <3>5
      <3> QED BY <3>2, <3>3, <3>4, <3>5
    <2>7. TableIsUnused'
      <3> SUFFICES ASSUME NEW b \in Address, table'[b] \in advanced'[b]
                   PROVE  b \in failed'
        BY DEF TableIsUnused
      <3>1. b # a
        BY <1>2, <1>5, <2>1
      <3>2. b \notin Unsaved(p)
        BY <1>2, <1>4, <2>1, <2>2, <3>1
      <3> QED BY <1>4, <2>1, <3>1, <3>2 DEF Inv, States, TableIsUnused
    <2> QED BY <2>3, <2>4, <2>5, <2>6, <2>7 DEF States
  <1>8. CASE ~SaveContext(p, a)
    <2>1. table' = table /\ failed' = failed \cup {a}
      BY <1>8, StoreFails DEF Inv
    <2>2. /\ \A q \in Process, b \in Address :
                ~(q = p /\ b = a) => unsaved'[q][b] = unsaved[q][b]
          /\ unsaved'[p][a] \in {unsaved[p][a], table[a], Gone}
          /\ unsaved'[p][a] # Saved \/ <<p, a>> \in ahead'
      BY <1>8, StoreFails DEF Inv
    <2>3. StatesExist'
      <3>1. \A b \in Address : table'[b] <= states'
        <4> SUFFICES ASSUME NEW b \in Address PROVE table'[b] <= states'
          OBVIOUS
        <4>1. table[b] \in Nat /\ table[b] <= states
          BY <1>3, Numbers
        <4> QED BY <1>1, <2>1, <4>1
      <3>2. \A b \in Address : \A s \in advanced'[b] : s <= states'
        <4> SUFFICES ASSUME NEW b \in Address, NEW s \in advanced'[b] PROVE s <= states'
          OBVIOUS
        <4>1. s \in Nat /\ (s \in advanced[b] \/ s = copy[p][a])
          BY <1>4, Numbers
        <4>2. s <= states
          BY <1>3, <4>1 DEF Inv, States, StatesExist
        <4> QED BY <1>1, <4>1, <4>2
      <3> QED BY <1>6, <3>1, <3>2 DEF StatesExist
    <2>4. UnsavedIsLater'
      <3> SUFFICES ASSUME NEW q \in Process, NEW b \in Address,
                          unsaved'[q][b] \in 1..MaxStates
                   PROVE  unsaved'[q][b] < copy'[q][b]
        BY DEF UnsavedIsLater
      <3>1. CASE q = p /\ b = a
        <4>1. unsaved'[q][b] = table[a] \/ unsaved'[q][b] = unsaved[p][a]
          BY <2>2, <3>1, Numbers DEF State
        <4>2. unsaved'[q][b] = unsaved[p][a] => unsaved'[q][b] < copy[p][a]
          BY <3>1 DEF Inv, States, UnsavedIsLater
        <4>3. unsaved'[q][b] \in Nat /\ unsaved'[q][b] <= states
          <5>1. /\ copy[p][a] \in Nat /\ copy[p][a] <= states
                /\ table[a] \in Nat /\ table[a] <= states
            BY <1>3, Numbers
          <5> QED BY <1>1, <4>1, <4>2, <5>1
        <4> QED BY <1>1, <1>2, <3>1, <4>3
      <3>2. CASE ~(q = p /\ b = a)
        BY <1>2, <2>2, <3>2 DEF Inv, States, UnsavedIsLater
      <3> QED BY <3>1, <3>2
    <2>5. UnsavedIsOwn'
      <3> SUFFICES ASSUME NEW q \in Process, NEW b \in Address,
                          unsaved'[q][b] # Saved, copy'[q][b] # None
                   PROVE  /\ copy'[q][b] \notin advanced'[b] /\ copy'[q][b] # table'[b]
                          /\ \A r \in Process : r # q => copy'[r][b] # copy'[q][b]
        BY DEF UnsavedIsOwn, Unsaved
      <3>1. CASE q = p /\ b = a
        BY <1>2, <1>3, <1>5, <2>1, <3>1
      <3>2. CASE ~(q = p /\ b = a)
        <4>1. copy'[q][b] = copy[q][b] /\ b \in Unsaved(q)
          BY <1>2, <2>2, <3>2, Unsaveds
        <4>2. /\ copy[q][b] \notin advanced[b] /\ copy[q][b] # table[b]
              /\ \A r \in Process : r # q => copy[r][b] # copy[q][b]
          BY <4>1 DEF Inv, States, UnsavedIsOwn
        <4>3. \A r \in Process : r # q => copy'[r][b] # copy'[q][b]
          BY <1>2, <1>3, <4>1, <4>2
        <4>4. copy'[q][b] \notin advanced'[b]
          BY <1>4, <3>2, <4>1, <4>2
        <4> QED BY <2>1, <4>1, <4>2, <4>3, <4>4
      <3> QED BY <3>1, <3>2
    <2>6. TableIsLatest'
      <3> SUFFICES ASSUME NEW q \in Process, NEW b \in Address, table'[b] # None,
                          unsaved'[q][b] = Saved, <<q, b>> \notin ahead'
                   PROVE  copy'[q][b] <= table'[b]
        BY DEF TableIsLatest, Unsaved
      <3>1. ~(q = p /\ b = a)
        BY <2>2
      <3>2. b \notin Unsaved(q)
        BY <2>2, <3>1, Unsaveds
      <3> QED BY <1>2, <1>9, <2>1, <3>1, <3>2 DEF Inv, States, TableIsLatest
    <2>7. TableIsUnused'
      BY <1>4, <2>1 DEF Inv, States, TableIsUnused
    <2> QED BY <2>3, <2>4, <2>5, <2>6, <2>7 DEF States
  <1> QED BY <1>7, <1>8

LEMMA UseStep ==
  ASSUME Inv, NEW p \in Process, NEW a \in Address, Use(p, a) \/ Build(p, a)
  PROVE  Inv'
  <1>1. /\ NextState /\ StoreSession(p, a, states') /\ Advanced(p, a)
        /\ UNCHANGED <<note, refresh>>
    BY DEF Use, Build, Advanced
  <1> QED BY <1>1, StoreType, StoreStates DEF Inv

(***************************************************************************)
(* Deleting a session takes it out of the table, whether the changes of    *)
(* the context are saved with it or not.                                   *)
(***************************************************************************)
LEMMA DeleteFacts ==
  ASSUME Inv, NEW p \in Process, NEW a \in Address, Delete(p, a)
  PROVE  /\ copy' \in [Process -> [Address -> State]]
         /\ \A q \in Process, b \in Address :
               copy'[q][b] = IF q = p /\ b = a THEN None ELSE copy[q][b]
         /\ table' \in [Address -> State] /\ table'[a] = None
         /\ unsaved' \in [Process -> [Address -> (1..MaxStates) \cup {Saved, Gone}]]
         /\ \A q \in Process, b \in Address :
               ~(q = p) => unsaved'[q][b] = unsaved[q][b]
         /\ unsaved'[p][a] \in {Saved, Gone}
         /\ failed' \in SUBSET Address /\ missed' \in SUBSET Address
         /\ a \notin failed'
         /\ ahead' \in SUBSET (Process \X Address)
         /\ \A q \in Process, b \in Address :
               ~(q = p /\ b = a) => (<<q, b>> \in ahead' <=> <<q, b>> \in ahead)
         /\ UNCHANGED <<states, advanced>>
         /\ \/ /\ \A b \in Address : table'[b] = IF b \in Unsaved(p) \cup {a} THEN copy'[p][b]
                                                ELSE table[b]
               /\ \A b \in Address : unsaved'[p][b] = Saved
               /\ \A b \in Unsaved(p) : b # a /\ unsaved[p][b] = table[b] /\ table[b] \in 1..MaxStates
               /\ failed' = failed \ (Unsaved(p) \cup {a})
            \/ /\ \A b \in Address : b # a => table'[b] = table[b] /\ unsaved'[p][b] = unsaved[p][b]
               /\ failed' = failed \ {a}
               /\ missed' = missed
  <1>1. /\ copy' \in [Process -> [Address -> State]]
        /\ \A q \in Process, b \in Address :
              copy'[q][b] = IF q = p /\ b = a THEN None ELSE copy[q][b]
    <2>1. None \in State /\ TypeOK /\ copy' = [copy EXCEPT ![p][a] = None]
      BY Numbers DEF Inv, Delete
    <2>2. copy' \in [Process -> [Address -> State]]
      BY <2>1 DEF TypeOK
    <2>3. ASSUME NEW q \in Process, NEW b \in Address
          PROVE  copy'[q][b] = IF q = p /\ b = a THEN None ELSE copy[q][b]
      BY <2>1 DEF TypeOK
    <2> QED BY <2>2, <2>3
  <1>5. /\ ahead' \in SUBSET (Process \X Address)
        /\ \A q \in Process, b \in Address :
              ~(q = p /\ b = a) => (<<q, b>> \in ahead' <=> <<q, b>> \in ahead)
    BY AheadAfter DEF Delete, Inv
  <1>2. UNCHANGED <<states, advanced>>
    BY DEF Delete, ratchets
  <1>3. CASE a \notin Unsaved(p) /\ SaveContext(p, a)
    <2>1. /\ table' \in [Address -> State] /\ missed' \in SUBSET Address
          /\ \A b \in Address : table'[b] = IF b \in Unsaved(p) \cup {a} THEN copy'[p][b]
                                            ELSE table[b]
          /\ unsaved' \in [Process -> [Address -> (1..MaxStates) \cup {Saved, Gone}]]
          /\ \A q \in Process, b \in Address :
                unsaved'[q][b] = IF q = p THEN Saved ELSE unsaved[q][b]
          /\ \A b \in Unsaved(p) : unsaved[p][b] = table[b] /\ table[b] \in 1..MaxStates
          /\ failed' = failed \ (Unsaved(p) \cup {a})
      BY <1>1, <1>3, Saves DEF Inv
    <2>2. failed' \in SUBSET Address
      BY <2>1 DEF Inv, TypeOK
    <2> QED BY <1>1, <1>2, <1>3, <1>5, <2>1, <2>2
  <1>4. CASE ~(a \notin Unsaved(p) /\ SaveContext(p, a))
    <2>1. /\ table' = [table EXCEPT ![a] = None]
          /\ unsaved' = [unsaved EXCEPT ![p][a] = IF @ = Saved THEN Saved ELSE Gone]
          /\ failed' = failed \ {a} /\ missed' = missed
      BY <1>4 DEF Delete
    <2>2. /\ table' \in [Address -> State] /\ table'[a] = None
          /\ \A b \in Address : b # a => table'[b] = table[b]
      BY <2>1, Numbers DEF Inv, TypeOK
    <2>3. /\ unsaved' \in [Process -> [Address -> (1..MaxStates) \cup {Saved, Gone}]]
          /\ unsaved'[p][a] \in {Saved, Gone}
          /\ \A q \in Process, b \in Address :
                ~(q = p /\ b = a) => unsaved'[q][b] = unsaved[q][b]
      BY <2>1 DEF Inv, TypeOK
    <2>4. failed' \in SUBSET Address /\ missed' \in SUBSET Address
      BY <2>1 DEF Inv, TypeOK
    <2> QED BY <1>1, <1>2, <1>5, <2>1, <2>2, <2>3, <2>4
  <1> QED BY <1>3, <1>4

LEMMA DeleteStep ==
  ASSUME Inv, NEW p \in Process, NEW a \in Address, Delete(p, a)
  PROVE  Inv'
  <1>1. TypeOK'
    <2>1. UNCHANGED <<note, refresh, states, advanced>> /\ touched' \in SUBSET Address
      BY DEF Delete, Touch, ratchets, Inv, TypeOK
    <2>2. /\ copy' \in [Process -> [Address -> State]]
          /\ table' \in [Address -> State]
          /\ unsaved' \in [Process -> [Address -> (1..MaxStates) \cup {Saved, Gone}]]
          /\ failed' \in SUBSET Address /\ missed' \in SUBSET Address
          /\ ahead' \in SUBSET (Process \X Address)
      BY DeleteFacts
    <2> QED BY <2>1, <2>2 DEF Inv, TypeOK
  <1>2. /\ \A q \in Process, b \in Address :
              copy'[q][b] = IF q = p /\ b = a THEN None ELSE copy[q][b]
        /\ table'[a] = None
        /\ \A q \in Process, b \in Address : ~(q = p) => unsaved'[q][b] = unsaved[q][b]
        /\ unsaved'[p][a] \in {Saved, Gone}
        /\ UNCHANGED <<states, advanced>>
        /\ \A q \in Process, b \in Address :
              ~(q = p /\ b = a) => (<<q, b>> \in ahead' <=> <<q, b>> \in ahead)
    BY DeleteFacts
  <1>3. \A q \in Process, b \in Address :
           /\ copy[q][b] \in Nat /\ table[b] \in Nat
           /\ copy[q][b] <= states /\ table[b] <= states /\ 0 <= states
           /\ None \notin advanced[b]
    BY Numbers DEF Inv, TypeOK, States, StatesExist
  <1>4. \A q \in Process, b \in Address : copy'[q][b] <= states'
    BY <1>2, <1>3 DEF None
  <1>5. ASSUME \A b \in Address : b # a => table'[b] = copy'[p][b] \/ table'[b] = table[b]
        PROVE  StatesExist'
    <2>1. \A b \in Address : table'[b] <= states'
      BY <1>2, <1>3, <1>4, <1>5 DEF None
    <2> QED BY <1>2, <1>4, <2>1 DEF Inv, States, StatesExist
  <1>6. CASE /\ \A b \in Address : table'[b] = IF b \in Unsaved(p) \cup {a} THEN copy'[p][b]
                                                ELSE table[b]
             /\ \A b \in Address : unsaved'[p][b] = Saved
             /\ \A b \in Unsaved(p) : b # a /\ unsaved[p][b] = table[b] /\ table[b] \in 1..MaxStates
             /\ failed' = failed \ (Unsaved(p) \cup {a})
    <2>1. \A b \in Unsaved(p) : /\ b \in Address /\ table[b] < copy[p][b]
                                /\ copy[p][b] # None /\ copy[p][b] \notin advanced[b]
                                /\ \A q \in Process : q # p => copy[q][b] # copy[p][b]
      <3>1. CanSave(p)
        BY <1>6 DEF CanSave
      <3> QED BY <3>1, PendingIsNew
    <2>2. StatesExist'
      BY <1>5, <1>6
    <2>3. UnsavedIsLater'
      <3> SUFFICES ASSUME NEW q \in Process, NEW b \in Address,
                          unsaved'[q][b] \in 1..MaxStates
                   PROVE  unsaved'[q][b] < copy'[q][b]
        BY DEF UnsavedIsLater
      <3>1. q # p
        BY <1>6, Numbers DEF State
      <3> QED BY <1>2, <3>1 DEF Inv, States, UnsavedIsLater
    <2>4. UnsavedIsOwn'
      <3> SUFFICES ASSUME NEW q \in Process, NEW b \in Address,
                          unsaved'[q][b] # Saved, copy'[q][b] # None
                   PROVE  /\ copy'[q][b] \notin advanced'[b] /\ copy'[q][b] # table'[b]
                          /\ \A r \in Process : r # q => copy'[r][b] # copy'[q][b]
        BY DEF UnsavedIsOwn, Unsaved
      <3>1. q # p /\ copy'[q][b] = copy[q][b] /\ b \in Unsaved(q)
        BY <1>2, <1>6, Unsaveds
      <3>2. /\ copy[q][b] \notin advanced[b] /\ copy[q][b] # table[b]
            /\ \A r \in Process : r # q => copy[r][b] # copy[q][b]
        BY <3>1 DEF Inv, States, UnsavedIsOwn
      <3>3. \A r \in Process : r # q => copy'[r][b] # copy'[q][b]
        BY <1>2, <3>1, <3>2
      <3> QED BY <1>2, <1>6, <3>1, <3>2, <3>3
    <2>5. TableIsLatest'
      <3> SUFFICES ASSUME NEW q \in Process, NEW b \in Address, table'[b] # None,
                          unsaved'[q][b] = Saved, <<q, b>> \notin ahead'
                   PROVE  copy'[q][b] <= table'[b]
        BY DEF TableIsLatest, Unsaved
      <3>1. b # a /\ copy'[q][b] = copy[q][b] /\ copy'[p][b] = copy[p][b]
        BY <1>2
      <3>2. CASE b \notin Unsaved(p)
        <4>1. b \notin Unsaved(q)
          BY <1>2, <3>2, Unsaveds
        <4>2. <<q, b>> \notin ahead
          BY <1>2, <3>1
        <4> QED BY <1>6, <3>1, <3>2, <4>1, <4>2 DEF Inv, States, TableIsLatest
      <3>3. CASE b \in Unsaved(p) /\ q # p
        <4>1. b \notin Unsaved(q) /\ table[b] # None
          BY <1>2, <1>6, <3>3, Unsaveds, Numbers
        <4>2. copy[q][b] <= table[b]
          BY <1>2, <3>1, <4>1 DEF Inv, States, TableIsLatest
        <4> QED BY <1>3, <1>6, <2>1, <3>1, <3>3, <4>2
      <3>4. CASE b \in Unsaved(p) /\ q = p
        BY <1>3, <1>6, <3>1, <3>4
      <3> QED BY <3>2, <3>3, <3>4
    <2>6. TableIsUnused'
      <3> SUFFICES ASSUME NEW b \in Address, table'[b] \in advanced'[b]
                   PROVE  b \in failed'
        BY DEF TableIsUnused
      <3>1. b # a
        BY <1>2, <1>3
      <3>2. b \notin Unsaved(p)
        BY <1>2, <1>6, <2>1, <3>1
      <3> QED BY <1>2, <1>6, <3>1, <3>2 DEF Inv, States, TableIsUnused
    <2> QED BY <1>1, <2>2, <2>3, <2>4, <2>5, <2>6 DEF Inv, States
  <1>7. CASE /\ \A b \in Address : b # a => table'[b] = table[b] /\ unsaved'[p][b] = unsaved[p][b]
             /\ failed' = failed \ {a}
    <2>1. StatesExist'
      BY <1>5, <1>7
    <2>2. UnsavedIsLater'
      <3> SUFFICES ASSUME NEW q \in Process, NEW b \in Address,
                          unsaved'[q][b] \in 1..MaxStates
                   PROVE  unsaved'[q][b] < copy'[q][b]
        BY DEF UnsavedIsLater
      <3>1. ~(q = p /\ b = a)
        BY <1>2, Numbers DEF State
      <3>2. unsaved'[q][b] = unsaved[q][b] /\ copy'[q][b] = copy[q][b]
        BY <1>2, <1>7, <3>1
      <3> QED BY <3>2 DEF Inv, States, UnsavedIsLater
    <2>3. UnsavedIsOwn'
      <3> SUFFICES ASSUME NEW q \in Process, NEW b \in Address,
                          unsaved'[q][b] # Saved, copy'[q][b] # None
                   PROVE  /\ copy'[q][b] \notin advanced'[b] /\ copy'[q][b] # table'[b]
                          /\ \A r \in Process : r # q => copy'[r][b] # copy'[q][b]
        BY DEF UnsavedIsOwn, Unsaved
      <3>1. ~(q = p /\ b = a) /\ copy'[q][b] = copy[q][b]
        BY <1>2
      <3>2. b \in Unsaved(q)
        BY <1>2, <1>7, <3>1, Unsaveds
      <3>3. /\ copy[q][b] \notin advanced[b] /\ copy[q][b] # table[b]
            /\ \A r \in Process : r # q => copy[r][b] # copy[q][b]
        BY <3>1, <3>2 DEF Inv, States, UnsavedIsOwn
      <3>4. copy'[q][b] # table'[b]
        BY <1>2, <1>7, <3>1, <3>3
      <3> QED BY <1>2, <3>1, <3>3, <3>4
    <2>4. TableIsLatest'
      <3> SUFFICES ASSUME NEW q \in Process, NEW b \in Address, table'[b] # None,
                          unsaved'[q][b] = Saved, <<q, b>> \notin ahead'
                   PROVE  copy'[q][b] <= table'[b]
        BY DEF TableIsLatest, Unsaved
      <3>1. b # a
        BY <1>2
      <3>2. b \notin Unsaved(q)
        BY <1>2, <1>7, <3>1, Unsaveds
      <3> QED BY <1>2, <1>7, <3>1, <3>2 DEF Inv, States, TableIsLatest
    <2>5. TableIsUnused'
      BY <1>2, <1>3, <1>7 DEF Inv, States, TableIsUnused
    <2> QED BY <1>1, <2>1, <2>2, <2>3, <2>4, <2>5 DEF Inv, States
  <1> QED BY <1>6, <1>7, DeleteFacts

-----------------------------------------------------------------------------
(* A refresh, or a restart, brings copies that are in the table. *)
LEMMA RefreshStep ==
  ASSUME Inv, RefreshSession
  PROVE  Inv'
  <1> DEFINE fetched == {a \in RowsFor(refresh.ids) : table[a] # None /\ a \notin Unsaved(App)}
  <1>1. /\ copy' = [copy EXCEPT ![App] =
                       [a \in Address |-> IF a \in fetched THEN table[a] ELSE @[a]]]
        /\ missed' = (missed \ fetched) \cup {a \in refresh.ids : table[a] = None}
        /\ refresh' = [refresh EXCEPT !.at = "clear"]
        /\ ahead' = ahead \ ({App} \X fetched)
        /\ UNCHANGED <<shared, unsaved, touched, ratchets, failed>>
    BY DEF RefreshSession
  <1>2. \A a \in fetched : a \in Address /\ unsaved[App][a] = Saved
    BY DEF RowsFor, Unsaved
  <1> HIDE DEF fetched
  <1>3. TypeOK'
    <2>1. copy' \in [Process -> [Address -> State]]
      BY <1>1 DEF Inv, TypeOK
    <2>2. refresh' \in [at : {"outside", "fetch", "clear"}, ids : SUBSET Address]
      BY <1>1 DEF Inv, TypeOK
    <2>3. missed' \in SUBSET Address
      BY <1>1, <2>2 DEF Inv, TypeOK
    <2>4. ahead' \in SUBSET (Process \X Address)
      BY <1>1 DEF Inv, TypeOK
    <2> QED BY <1>1, <2>1, <2>2, <2>3, <2>4 DEF Inv, TypeOK, shared, ratchets
  <1>4. /\ UNCHANGED <<table, unsaved, states, advanced, failed>>
        /\ \A q \in Process, a \in Address :
              copy'[q][a] = copy[q][a] \/ (q = App /\ unsaved[q][a] = Saved /\ copy'[q][a] = table[a])
    BY <1>1, <1>2, Numbers DEF Inv, TypeOK, shared, ratchets
  <1>11. \A q \in Process, a \in Address :
            copy'[q][a] # table[a] => (<<q, a>> \in ahead' <=> <<q, a>> \in ahead)
    <2>1. \A a \in Address : a \in fetched => copy'[App][a] = table[a]
      BY <1>1, Numbers DEF Inv, TypeOK
    <2> QED BY <1>1, <2>1
  <1>5. \A a \in Address : table[a] \in Nat /\ table[a] <= states
    BY Numbers DEF Inv, TypeOK, States, StatesExist
  <1>6. StatesExist'
    BY <1>4, <1>5 DEF Inv, States, StatesExist
  <1>7. UnsavedIsLater'
    BY <1>4, Numbers DEF Inv, States, UnsavedIsLater, State
  <1>8. UnsavedIsOwn'
    BY <1>4 DEF Inv, States, UnsavedIsOwn, Unsaved
  <1>9. TableIsLatest'
    BY <1>4, <1>5, <1>11 DEF Inv, States, TableIsLatest, Unsaved
  <1>10. TableIsUnused'
    BY <1>4 DEF Inv, States, TableIsUnused
  <1> QED BY <1>3, <1>6, <1>7, <1>8, <1>9, <1>10 DEF Inv, States

LEMMA RestartStep ==
  ASSUME Inv, NEW p \in Process, Restart(p)
  PROVE  Inv'
  <1>1. /\ UNCHANGED <<table, note, states, advanced, failed>>
        /\ copy' = [copy EXCEPT ![p] = table]
        /\ unsaved' = [unsaved EXCEPT ![p] = [a \in Address |-> Saved]]
        /\ ahead' = ahead \ ({p} \X Address)
    BY DEF Restart, shared, ratchets
  <1>2. TypeOK'
    <2>1. copy' \in [Process -> [Address -> State]]
      BY <1>1 DEF Inv, TypeOK
    <2>2. unsaved' \in [Process -> [Address -> (1..MaxStates) \cup {Saved, Gone}]]
      BY <1>1 DEF Inv, TypeOK
    <2>3. /\ refresh' \in [at : {"outside", "fetch", "clear"}, ids : SUBSET Address]
          /\ touched' \in SUBSET Address /\ missed' \in SUBSET Address
      BY DEF Restart, Outside, Inv, TypeOK
    <2> QED BY <1>1, <2>1, <2>2, <2>3 DEF Inv, TypeOK
  <1>3. \A q \in Process, a \in Address :
           /\ copy'[q][a] = IF q = p THEN table[a] ELSE copy[q][a]
           /\ unsaved'[q][a] = IF q = p THEN Saved ELSE unsaved[q][a]
    BY <1>1 DEF Inv, TypeOK
  <1>10. \A q \in Process, a \in Address :
            q # p => (<<q, a>> \in ahead' <=> <<q, a>> \in ahead)
    BY <1>1
  <1>4. \A a \in Address : table[a] \in Nat /\ table[a] <= states
    BY Numbers DEF Inv, TypeOK, States, StatesExist
  <1>5. StatesExist'
    BY <1>1, <1>3, <1>4 DEF Inv, States, StatesExist
  <1>6. UnsavedIsLater'
    BY <1>3, Numbers DEF Inv, States, UnsavedIsLater, State
  <1>7. UnsavedIsOwn'
    BY <1>1, <1>3 DEF Inv, States, UnsavedIsOwn, Unsaved
  <1>8. TableIsLatest'
    BY <1>1, <1>3, <1>4, <1>10 DEF Inv, States, TableIsLatest, Unsaved
  <1>9. TableIsUnused'
    BY <1>1 DEF Inv, States, TableIsUnused
  <1> QED BY <1>2, <1>5, <1>6, <1>7, <1>8, <1>9 DEF Inv, States

(* The note is nothing to the sessions. *)
LEMMA NoteStep ==
  ASSUME Inv, \/ \E identifiers \in SUBSET Address : NeedToRefreshSessions(identifiers)
              \/ SessionsToRefresh \/ ClearNote \/ UNCHANGED vars
  PROVE  Inv'
  <1>1. UNCHANGED <<table, copy, unsaved, states, advanced, failed, ahead>>
    BY DEF NeedToRefreshSessions, SessionsToRefresh, ClearNote, vars, shared, memory,
           ratchets, history
  <1>2. States'
    BY <1>1 DEF Inv, States, StatesExist, UnsavedIsLater, UnsavedIsOwn, TableIsLatest,
               TableIsUnused, Unsaved
  <1>3. /\ note' \in SUBSET Address /\ touched' \in SUBSET Address
        /\ missed' \in SUBSET Address
    BY DEF NeedToRefreshSessions, SessionsToRefresh, ClearNote, vars, shared, memory, history,
           Inv, TypeOK
  <1>4. refresh' \in [at : {"outside", "fetch", "clear"}, ids : SUBSET Address]
    BY DEF NeedToRefreshSessions, SessionsToRefresh, ClearNote, vars, memory, Outside, Inv, TypeOK
  <1> QED BY <1>1, <1>2, <1>3, <1>4 DEF Inv, TypeOK

LEMMA NextInv == Inv /\ [Next]_vars => Inv'
  <1> SUFFICES ASSUME Inv, [Next]_vars PROVE Inv'
    OBVIOUS
  <1>1. CASE \E p \in Process, a \in Address : Use(p, a) \/ Build(p, a)
    BY <1>1, UseStep
  <1>2. CASE \E p \in Process, a \in Address : Delete(p, a)
    BY <1>2, DeleteStep
  <1>3. CASE RefreshSession
    BY <1>3, RefreshStep
  <1>4. CASE \E p \in Process : Restart(p)
    BY <1>4, RestartStep
  <1>5. CASE \/ \E identifiers \in SUBSET Address : NeedToRefreshSessions(identifiers)
             \/ SessionsToRefresh \/ ClearNote \/ UNCHANGED vars
    BY <1>5, NoteStep
  <1> QED BY <1>1, <1>2, <1>3, <1>4, <1>5 DEF Next

(* What there is to know of the states of the sessions is inductive. *)
THEOREM Invariance == Spec => []Inv
  BY InitInv, NextInv, PTL DEF Spec

(* Table, copies, notes and states keep their types. *)
THEOREM TypeCorrect == Spec => []TypeOK
  <1>1. Inv => TypeOK
    BY DEF Inv
  <1> QED BY <1>1, Invariance, PTL

(***************************************************************************)
(* The session in the table has never been used, unless its last save has  *)
(* failed: a process that has just read it encrypts no second message from *)
(* one state of the ratchet, whatever the other process has done.          *)
(***************************************************************************)
THEOREM Unused == Spec => []TableIsUnused
  <1>1. Inv => TableIsUnused
    BY DEF Inv, States
  <1> QED BY <1>1, Invariance, PTL

(***************************************************************************)
(* The table is not behind any copy that has been saved: reading it again  *)
(* takes no session back.                                                  *)
(***************************************************************************)
THEOREM Latest == Spec => []TableIsLatest
  <1>1. Inv => TableIsLatest
    BY DEF Inv, States
  <1> QED BY <1>1, Invariance, PTL

-----------------------------------------------------------------------------
NoteInv == StaleIsNoted /\ NoteIsRead

(* A row that a process writes is a copy of the application, or will be     *)
(* noted.                                                                   *)
LEMMA StoreNoted ==
  ASSUME Inv, NoteInv, NEW p \in Process, NEW a \in Address, Use(p, a) \/ Build(p, a)
  PROVE  NoteInv'
  <1>1. /\ NextState /\ StoreSession(p, a, states')
        /\ Ready(p) /\ UNCHANGED <<note, refresh>>
    BY DEF Use, Build
  <1>2. states' \in State
    BY <1>1, Numbers DEF NextState, Inv, TypeOK, State
  <1>3. /\ copy' \in [Process -> [Address -> State]]
        /\ \A q \in Process, b \in Address :
              copy'[q][b] = IF q = p /\ b = a THEN states' ELSE copy[q][b]
    <2>1. copy' = [copy EXCEPT ![p][a] = states'] /\ TypeOK
      BY <1>1 DEF StoreSession, Inv
    <2> QED BY <1>2, <2>1, CopyReplaced
  <1>4. touched' = IF p = Extension THEN touched \cup {a} ELSE touched
    BY <1>1 DEF StoreSession, Touch
  <1>7. /\ App \in Process
        /\ \A b \in Address :
              ~(App = p /\ b = a) => (<<App, b>> \in ahead' <=> <<App, b>> \in ahead)
    BY <1>1, AheadAfter, Numbers DEF StoreSession, Inv
  <1>5. CASE SaveContext(p, a)
    <2>1. /\ \A b \in Address : table'[b] = IF b \in Unsaved(p) \cup {a} THEN copy'[p][b]
                                            ELSE table[b]
          /\ \A q \in Process, b \in Address :
                unsaved'[q][b] = IF q = p THEN Saved ELSE unsaved[q][b]
      BY <1>3, <1>5, Saves DEF Inv
    <2>2. missed' = IF p = App THEN missed \ (Unsaved(p) \cup {a})
                    ELSE missed \cup (Unsaved(p) \ touched)
      BY <1>5 DEF SaveContext
    <2>3. StaleIsNoted'
      <3> SUFFICES ASSUME NEW b \in Address, copy'[App][b] # table'[b],
                          unsaved'[App][b] = Saved, <<App, b>> \notin ahead'
                   PROVE  \/ b \in note /\ refresh.at # "clear"
                          \/ b \in touched' \cup missed'
        BY <1>1 DEF StaleIsNoted, Unsaved
      <3>1. CASE p = App
        <4>1. b \notin Unsaved(p) \cup {a} /\ copy[App][b] # table[b]
          BY <1>3, <2>1, <3>1, Numbers
        <4>2. b \notin Unsaved(App)
          BY <3>1, <4>1
        <4>3. \/ b \in note /\ refresh.at # "clear"
              \/ b \in touched \cup missed
          BY <1>7, <3>1, <4>1, <4>2 DEF NoteInv, StaleIsNoted
        <4> QED BY <1>4, <2>2, <3>1, <4>1, <4>3, Numbers
      <3>2. CASE p # App /\ b \in Unsaved(p) \cup {a}
        <4>1. p = Extension
          BY <3>2 DEF Process
        <4> QED BY <1>4, <2>2, <3>2, <4>1
      <3>3. CASE p # App /\ b \notin Unsaved(p) \cup {a}
        <4>1. copy[App][b] # table[b] /\ b \notin Unsaved(App)
          BY <1>3, <2>1, <3>3, Numbers, Unsaveds
        <4>2. \/ b \in note /\ refresh.at # "clear"
              \/ b \in touched \cup missed
          BY <1>7, <3>3, <4>1 DEF NoteInv, StaleIsNoted
        <4> QED BY <1>4, <2>2, <3>3, <4>2
      <3> QED BY <3>1, <3>2, <3>3
    <2>4. NoteIsRead'
      <3>1. CASE p = App
        BY <1>1, <3>1 DEF Ready, Outside, NoteIsRead
      <3>2. CASE p # App
        BY <1>1, <2>2, <3>2 DEF NoteInv, NoteIsRead
      <3> QED BY <3>1, <3>2
    <2> QED BY <2>3, <2>4 DEF NoteInv
  <1>6. CASE ~SaveContext(p, a)
    <2>1. UNCHANGED <<table, missed>>
      BY <1>1, <1>6, StoreFails DEF Inv
    <2>2. /\ \A q \in Process, b \in Address :
                ~(q = p /\ b = a) => unsaved'[q][b] = unsaved[q][b]
          /\ unsaved'[p][a] # Saved \/ <<p, a>> \in ahead'
      BY <1>1, <1>6, StoreFails DEF Inv
    <2>3. StaleIsNoted'
      <3> SUFFICES ASSUME NEW b \in Address, copy'[App][b] # table'[b],
                          unsaved'[App][b] = Saved, <<App, b>> \notin ahead'
                   PROVE  \/ b \in note /\ refresh.at # "clear"
                          \/ b \in touched' \cup missed'
        BY <1>1 DEF StaleIsNoted, Unsaved
      <3>1. ~(App = p /\ b = a)
        BY <2>2
      <3>2. copy[App][b] # table[b] /\ b \notin Unsaved(App)
        BY <1>3, <2>1, <2>2, <3>1, Numbers, Unsaveds
      <3>3. \/ b \in note /\ refresh.at # "clear"
            \/ b \in touched \cup missed
        BY <1>7, <3>1, <3>2 DEF NoteInv, StaleIsNoted
      <3> QED BY <1>4, <2>1, <3>3
    <2> QED BY <1>1, <2>1, <2>3 DEF NoteInv, NoteIsRead
  <1> QED BY <1>5, <1>6

LEMMA DeleteNoted ==
  ASSUME Inv, NoteInv, NEW p \in Process, NEW a \in Address, Delete(p, a)
  PROVE  NoteInv'
  <1>1. /\ Ready(p) /\ UNCHANGED <<note, refresh>>
        /\ touched' = IF p = Extension THEN touched \cup {a} ELSE touched
    BY DEF Delete, Touch
  <1>2. /\ \A q \in Process, b \in Address :
              copy'[q][b] = IF q = p /\ b = a THEN None ELSE copy[q][b]
        /\ table'[a] = None
        /\ \A q \in Process, b \in Address : ~(q = p) => unsaved'[q][b] = unsaved[q][b]
    BY DeleteFacts
  <1>5. /\ App \in Process
        /\ \A b \in Address :
              ~(App = p /\ b = a) => (<<App, b>> \in ahead' <=> <<App, b>> \in ahead)
    BY DeleteFacts, Numbers
  <1>3. CASE a \notin Unsaved(p) /\ SaveContext(p, a)
    <2>1. copy' \in [Process -> [Address -> State]]
      BY DeleteFacts
    <2>2. /\ \A b \in Address : table'[b] = IF b \in Unsaved(p) \cup {a} THEN copy'[p][b]
                                            ELSE table[b]
          /\ missed' = IF p = App THEN missed \ (Unsaved(p) \cup {a})
                       ELSE missed \cup (Unsaved(p) \ touched)
      BY <1>3, <2>1, Saves DEF Inv, SaveContext
    <2>3. StaleIsNoted'
      <3> SUFFICES ASSUME NEW b \in Address, copy'[App][b] # table'[b],
                          unsaved'[App][b] = Saved, <<App, b>> \notin ahead'
                   PROVE  \/ b \in note /\ refresh.at # "clear"
                          \/ b \in touched' \cup missed'
        BY <1>1 DEF StaleIsNoted, Unsaved
      <3>1. CASE p = App
        <4>1. b \notin Unsaved(p) \cup {a} /\ copy[App][b] # table[b]
          BY <1>2, <2>2, <3>1, Numbers
        <4>2. \/ b \in note /\ refresh.at # "clear"
              \/ b \in touched \cup missed
          BY <1>5, <3>1, <4>1 DEF NoteInv, StaleIsNoted
        <4> QED BY <1>1, <2>2, <3>1, <4>1, <4>2, Numbers
      <3>2. CASE p # App /\ b \in Unsaved(p) \cup {a}
        <4>1. p = Extension
          BY <3>2 DEF Process
        <4> QED BY <1>1, <2>2, <3>2, <4>1
      <3>3. CASE p # App /\ b \notin Unsaved(p) \cup {a}
        <4>1. copy[App][b] # table[b] /\ b \notin Unsaved(App)
          BY <1>2, <2>2, <3>3, Numbers, Unsaveds
        <4>2. \/ b \in note /\ refresh.at # "clear"
              \/ b \in touched \cup missed
          BY <1>5, <3>3, <4>1 DEF NoteInv, StaleIsNoted
        <4> QED BY <1>1, <2>2, <3>3, <4>2
      <3> QED BY <3>1, <3>2, <3>3
    <2>4. NoteIsRead'
      <3>1. CASE p = App
        BY <1>1, <3>1 DEF Ready, Outside, NoteIsRead
      <3>2. CASE p # App
        BY <1>1, <2>2, <3>2 DEF NoteInv, NoteIsRead
      <3> QED BY <3>1, <3>2
    <2> QED BY <2>3, <2>4 DEF NoteInv
  <1>4. CASE ~(a \notin Unsaved(p) /\ SaveContext(p, a))
    <2>1. /\ table' = [table EXCEPT ![a] = None]
          /\ unsaved' = [unsaved EXCEPT ![p][a] = IF @ = Saved THEN Saved ELSE Gone]
          /\ missed' = missed
      BY <1>4 DEF Delete
    <2>2. \A b \in Address : b # a => table'[b] = table[b] /\ unsaved'[App][b] = unsaved[App][b]
      BY <2>1, Numbers DEF Inv, TypeOK
    <2>3. StaleIsNoted'
      <3> SUFFICES ASSUME NEW b \in Address, copy'[App][b] # table'[b],
                          unsaved'[App][b] = Saved, <<App, b>> \notin ahead'
                   PROVE  \/ b \in note /\ refresh.at # "clear"
                          \/ b \in touched' \cup missed'
        BY <1>1 DEF StaleIsNoted, Unsaved
      <3>1. CASE b = a
        <4>1. p = Extension
          BY <1>2, <3>1 DEF Process
        <4> QED BY <1>1, <3>1, <4>1
      <3>2. CASE b # a
        <4>1. copy[App][b] # table[b] /\ b \notin Unsaved(App)
          BY <1>2, <2>2, <3>2, Numbers, Unsaveds
        <4>2. \/ b \in note /\ refresh.at # "clear"
              \/ b \in touched \cup missed
          BY <1>5, <3>2, <4>1 DEF NoteInv, StaleIsNoted
        <4> QED BY <1>1, <2>1, <4>2
      <3> QED BY <3>1, <3>2
    <2> QED BY <1>1, <2>1, <2>3 DEF NoteInv, NoteIsRead
  <1> QED BY <1>3, <1>4

(* Whatever is noted is refreshed, or missed. *)
LEMMA RefreshNoted ==
  ASSUME Inv, NoteInv, RefreshSession
  PROVE  NoteInv'
  <1> DEFINE fetched == {a \in RowsFor(refresh.ids) : table[a] # None /\ a \notin Unsaved(App)}
  <1>1. /\ refresh.at = "fetch"
        /\ copy' = [copy EXCEPT ![App] =
                       [a \in Address |-> IF a \in fetched THEN table[a] ELSE @[a]]]
        /\ missed' = (missed \ fetched) \cup {a \in refresh.ids : table[a] = None}
        /\ ahead' = ahead \ ({App} \X fetched)
        /\ UNCHANGED <<table, note, unsaved, touched>>
    BY DEF RefreshSession, shared
  <1>2. refresh'.at = "clear"
    BY DEF RefreshSession, Inv, TypeOK
  <1>3. \A a \in Address : a \in refresh.ids /\ table[a] # None /\ a \notin Unsaved(App)
                              => a \in fetched
    BY DEF RowsFor
  <1> HIDE DEF fetched
  <1>4. \A a \in Address : copy'[App][a] = IF a \in fetched THEN table[a] ELSE copy[App][a]
    BY <1>1, Numbers DEF Inv, TypeOK
  <1>5. StaleIsNoted'
    <2> SUFFICES ASSUME NEW a \in Address, copy'[App][a] # table[a], a \notin Unsaved(App),
                        <<App, a>> \notin ahead'
                 PROVE  a \in touched \cup missed'
      BY <1>1, <1>2 DEF StaleIsNoted, Unsaved
    <2>1. a \notin fetched /\ copy[App][a] # table[a] /\ <<App, a>> \notin ahead
      BY <1>1, <1>4
    <2>2. a \in note \cup touched \cup missed
      BY <2>1 DEF NoteInv, StaleIsNoted
    <2>3. a \in refresh.ids \cup touched \cup missed
      BY <1>1, <2>2 DEF NoteInv, NoteIsRead
    <2> QED BY <1>1, <1>3, <2>1, <2>3
  <1>6. NoteIsRead'
    BY <1>2 DEF NoteIsRead
  <1> QED BY <1>5, <1>6 DEF NoteInv

LEMMA RestartNoted ==
  ASSUME Inv, NoteInv, NEW p \in Process, Restart(p)
  PROVE  NoteInv'
  <1>1. /\ UNCHANGED <<table, note>>
        /\ copy' = [copy EXCEPT ![p] = table]
        /\ unsaved' = [unsaved EXCEPT ![p] = [a \in Address |-> Saved]]
    BY DEF Restart, shared
  <1>2. \A q \in Process, a \in Address :
           /\ copy'[q][a] = IF q = p THEN table[a] ELSE copy[q][a]
           /\ unsaved'[q][a] = IF q = p THEN Saved ELSE unsaved[q][a]
    BY <1>1 DEF Inv, TypeOK
  <1>3. CASE p = App
    <2>1. refresh'.at = "outside"
      BY <1>3, Numbers DEF Restart, Outside
    <2>2. StaleIsNoted'
      BY <1>1, <1>2, <1>3, Numbers DEF StaleIsNoted
    <2> QED BY <2>1, <2>2 DEF NoteInv, NoteIsRead
  <1>4. CASE p # App
    <2>1. /\ touched' = {} /\ missed' = missed \cup touched /\ refresh' = refresh
      BY <1>4 DEF Restart
    <2>2. \A a \in Address : copy'[App][a] = copy[App][a] /\ unsaved'[App][a] = unsaved[App][a]
      BY <1>2, <1>4, Numbers
    <2>3. \A a \in Address : <<App, a>> \in ahead' <=> <<App, a>> \in ahead
      BY <1>4 DEF Restart
    <2> QED BY <1>1, <2>1, <2>2, <2>3 DEF NoteInv, NoteIsRead, StaleIsNoted, Unsaved
  <1> QED BY <1>3, <1>4

(* What a note no longer names is missed. *)
LEMMA NeedNoted ==
  ASSUME Inv, NoteInv, NEW identifiers \in SUBSET Address, NeedToRefreshSessions(identifiers)
  PROVE  NoteInv'
  <1>1. /\ UNCHANGED <<table, copy, unsaved, refresh, ahead>>
        /\ touched \subseteq identifiers /\ note' = identifiers /\ touched' = {}
        /\ missed' = missed \cup (note \ identifiers)
                            \cup (IF refresh = Outside THEN {} ELSE identifiers)
    BY DEF NeedToRefreshSessions
  <1>2. refresh.at # "outside" => refresh # Outside
    BY DEF Outside
  <1>3. NoteIsRead'
    BY <1>1, <1>2 DEF NoteIsRead
  <1>4. StaleIsNoted'
    <2> SUFFICES ASSUME NEW a \in Address, copy[App][a] # table[a], a \notin Unsaved(App),
                        <<App, a>> \notin ahead
                 PROVE  \/ a \in note' /\ refresh.at # "clear"
                        \/ a \in missed'
      BY <1>1 DEF StaleIsNoted, Unsaved
    <2>1. \/ a \in note /\ refresh.at # "clear"
          \/ a \in touched \cup missed
      BY DEF NoteInv, StaleIsNoted
    <2> QED BY <1>1, <1>2, <2>1
  <1> QED BY <1>3, <1>4 DEF NoteInv

LEMMA ReadNoted ==
  ASSUME Inv, NoteInv, SessionsToRefresh \/ ClearNote \/ UNCHANGED vars
  PROVE  NoteInv'
  <1>1. CASE SessionsToRefresh
    <2>1. /\ refresh.at = "outside" /\ refresh'.at = "fetch" /\ refresh'.ids = note
          /\ UNCHANGED <<table, note, copy, unsaved, touched, missed, ahead>>
      BY <1>1 DEF SessionsToRefresh, Outside, shared, history
    <2> QED BY <2>1 DEF NoteInv, NoteIsRead, StaleIsNoted, Unsaved
  <1>2. CASE ClearNote
    <2>1. /\ refresh.at = "clear" /\ refresh'.at = "outside"
          /\ UNCHANGED <<table, copy, unsaved, touched, missed, ahead>>
      BY <1>2 DEF ClearNote, Outside, history
    <2> QED BY <2>1 DEF NoteInv, NoteIsRead, StaleIsNoted, Unsaved
  <1>3. CASE UNCHANGED vars
    BY <1>3 DEF vars, shared, memory, history, NoteInv, NoteIsRead, StaleIsNoted, Unsaved
  <1> QED BY <1>1, <1>2, <1>3

LEMMA NextNoted == Inv /\ NoteInv /\ [Next]_vars => NoteInv'
  <1> SUFFICES ASSUME Inv, NoteInv, [Next]_vars PROVE NoteInv'
    OBVIOUS
  <1>1. CASE \E p \in Process, a \in Address : Use(p, a) \/ Build(p, a)
    BY <1>1, StoreNoted
  <1>2. CASE \E p \in Process, a \in Address : Delete(p, a)
    BY <1>2, DeleteNoted
  <1>3. CASE RefreshSession
    BY <1>3, RefreshNoted
  <1>4. CASE \E p \in Process : Restart(p)
    BY <1>4, RestartNoted
  <1>5. CASE \E identifiers \in SUBSET Address : NeedToRefreshSessions(identifiers)
    BY <1>5, NeedNoted
  <1>6. CASE SessionsToRefresh \/ ClearNote \/ UNCHANGED vars
    BY <1>6, ReadNoted
  <1> QED BY <1>1, <1>2, <1>3, <1>4, <1>5, <1>6 DEF Next

(***************************************************************************)
(* A stale copy of the application is noted, or about to be, unless it is  *)
(* one of those that no note will refresh: refreshSessions, which fetches  *)
(* the rows of any of the users and any of the devices, leaves none out.   *)
(***************************************************************************)
THEOREM StaleNoted == Spec => []StaleIsNoted
  <1>1. Init => NoteInv
    <2> SUFFICES ASSUME Init PROVE NoteInv
      OBVIOUS
    <2>1. /\ \A a \in Address : copy[App][a] = table[a]
          /\ refresh.at = "outside"
      BY Numbers DEF Init, Outside
    <2> QED BY <2>1 DEF NoteInv, StaleIsNoted, NoteIsRead
  <1>2. NoteInv => StaleIsNoted
    BY DEF NoteInv
  <1> QED BY <1>1, <1>2, InitInv, NextInv, NextNoted, PTL DEF Spec

-----------------------------------------------------------------------------
(* A save moves the rows it carries along on to states nobody has used. *)
LEMMA SaveAdvances ==
  ASSUME Inv, NEW p \in Process, NEW a \in Address, SaveContext(p, a),
         copy' \in [Process -> [Address -> State]],
         \A b \in Address : b # a => copy'[p][b] = copy[p][b] /\ advanced'[b] = advanced[b],
         NEW b \in Address, b # a, table'[b] # table[b]
  PROVE  table'[b] > table[b] /\ table'[b] \notin advanced'[b]
  <1>1. table'[b] = IF b \in Unsaved(p) \cup {a} THEN copy'[p][b] ELSE table[b]
    BY Saves DEF Inv
  <1>2. b \in Unsaved(p) /\ table'[b] = copy[p][b]
    BY <1>1
  <1>3. CanSave(p)
    BY DEF SaveContext
  <1>4. table[b] < copy[p][b] /\ copy[p][b] \notin advanced[b]
    BY <1>2, <1>3, PendingIsNew
  <1>5. table[b] \in Nat /\ copy[p][b] \in Nat
    BY Numbers DEF Inv, TypeOK
  <1> QED BY <1>2, <1>4, <1>5

(* Storing the next state of a session moves its row on, or fails. *)
LEMMA StoreAdvances ==
  ASSUME Inv, NEW p \in Process, NEW a \in Address, Use(p, a) \/ Build(p, a),
         NEW b \in Address, table'[b] # table[b]
  PROVE  table'[b] > table[b] /\ table'[b] \notin advanced'[b]
  <1>1. /\ NextState /\ StoreSession(p, a, states') /\ Advanced(p, a)
    BY DEF Use, Build, Advanced
  <1>2. SaveContext(p, a)
    BY <1>1, StoreFails DEF Inv
  <1>3. states' = states + 1 /\ states' \in State /\ states \in Nat
    BY <1>1, Numbers DEF NextState, Inv, TypeOK, State
  <1>4. /\ copy' \in [Process -> [Address -> State]]
        /\ \A x \in Address : copy'[p][x] = IF x = a THEN states' ELSE copy[p][x]
    BY <1>1, <1>3, CopyReplaced DEF Inv, StoreSession
  <1>5. /\ \A x \in Address : x # a => advanced'[x] = advanced[x]
        /\ advanced'[a] \subseteq advanced[a] \cup {copy[p][a]}
    BY <1>1 DEF Advanced, Inv, TypeOK
  <1>6. CASE b = a
    <2>1. table'[a] = states'
      BY <1>2, <1>4, Saves DEF Inv
    <2>2. table[a] \in Nat /\ copy[p][a] \in Nat
      BY Numbers DEF Inv, TypeOK
    <2>3. /\ table[a] <= states /\ copy[p][a] <= states
          /\ \A s \in advanced[a] : s <= states
      BY DEF Inv, States, StatesExist
    <2> QED BY <1>3, <1>5, <1>6, <2>1, <2>2, <2>3
  <1>7. CASE b # a
    BY <1>2, <1>4, <1>5, <1>7, SaveAdvances
  <1> QED BY <1>6, <1>7

(* Deleting a session takes its row, and a save it succeeds with moves on  *)
(* the others it carries along.                                            *)
LEMMA DeleteAdvances ==
  ASSUME Inv, NEW p \in Process, NEW a \in Address, Delete(p, a),
         NEW b \in Address, table'[b] \notin {None, table[b]}
  PROVE  table'[b] > table[b] /\ table'[b] \notin advanced'[b]
  <1>1. /\ copy' \in [Process -> [Address -> State]]
        /\ \A x \in Address : copy'[p][x] = IF x = a THEN None ELSE copy[p][x]
        /\ table'[a] = None /\ advanced' = advanced
    BY DeleteFacts
  <1>2. b # a
    BY <1>1
  <1>3. CASE SaveContext(p, a)
    BY <1>1, <1>2, <1>3, SaveAdvances
  <1>4. CASE table' = [table EXCEPT ![a] = None]
    BY <1>2, <1>4 DEF Inv, TypeOK
  <1> QED BY <1>3, <1>4 DEF Delete

(***************************************************************************)
(* No save takes a ratchet back, whichever process it comes from, however  *)
(* late it is and whatever else it carries: what it brings into the table  *)
(* is newer than what was there, and no message has been made from it.     *)
(***************************************************************************)
THEOREM Advances == Spec => TableAdvances
  <1> DEFINE A == \A a \in Address :
                    table'[a] \notin {None, table[a]} =>
                        table'[a] > table[a] /\ table'[a] \notin advanced'[a]
  <1>1. Inv /\ [Next]_vars => [A]_vars
    <2> SUFFICES ASSUME Inv, Next, NEW b \in Address, table'[b] \notin {None, table[b]}
                 PROVE  table'[b] > table[b] /\ table'[b] \notin advanced'[b]
      OBVIOUS
    <2>1. CASE \E p \in Process, a \in Address : Use(p, a) \/ Build(p, a)
      BY <2>1, StoreAdvances
    <2>2. CASE \E p \in Process, a \in Address : Delete(p, a)
      BY <2>2, DeleteAdvances
    <2>3. CASE \/ \E identifiers \in SUBSET Address : NeedToRefreshSessions(identifiers)
               \/ SessionsToRefresh \/ RefreshSession \/ ClearNote
               \/ \E p \in Process : Restart(p)
      BY <2>3 DEF NeedToRefreshSessions, SessionsToRefresh, RefreshSession, ClearNote,
                  Restart, shared
    <2> QED BY <2>1, <2>2, <2>3 DEF Next
  <1> QED BY <1>1, Invariance, PTL DEF Spec, TableAdvances
==================================================
