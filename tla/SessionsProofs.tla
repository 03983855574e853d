--------------------------- MODULE SessionsProofs ---------------------------
(***************************************************************************)
(* Theorems about Sessions, for any devices and any number of times they   *)
(* are set up anew.                                                        *)
(***************************************************************************)
EXTENDS Sessions, TLAPS

(* The row add(remoteUser:) has just created has no session until the      *)
(* session is built: nothing else touches sessions in between.             *)
AddingIsFresh ==
    adding # NoBundle => HasRow(adding.addr) /\ rows[adding.addr].session = None

IInv == TypeOK /\ SessionsBacked /\ TrustMatchesSession /\ AddingIsFresh

-----------------------------------------------------------------------------
(* Helpers of the model. *)

(* A device is set up anew by at least one and at most MaxInstalls          *)
(* installations.                                                           *)
LEMMA InstallationType ==
  /\ 1 \in Installation
  /\ Installation \subseteq 0..MaxInstalls
  /\ \A i \in Installation : i < MaxInstalls => i + 1 \in Installation
  /\ None \in 0..MaxInstalls
  /\ None \notin Installation
  BY BoundAssumption DEF Installation, None

(* A row that is there is a row. *)
LEMMA RowType ==
  ASSUME TypeOK, NEW a \in Address
  PROVE  /\ HasRow(a) => rows[a] \in Row
         /\ HasRow(a) => rows[a].session \in 0..MaxInstalls
         /\ HasRow(a) => rows[a].identity \in 0..MaxInstalls
         /\ RowSession(a) \in 0..MaxInstalls
  <1>1. HasRow(a) => rows[a] \in Row
    BY DEF TypeOK, HasRow
  <1> QED BY <1>1, InstallationType DEF Row, RowSession, HasRow

(* updateRemoteSession leaves a row with the session it was given. *)
LEMMA UpdatedRowType ==
  ASSUME TypeOK, NEW a \in Address, NEW peer \in Installation
  PROVE  /\ UpdatedRow(a, peer) \in Row
         /\ UpdatedRow(a, peer) # NoRow
         /\ UpdatedRow(a, peer).session = peer
  <1>1. UpdatedRow(a, peer) \in Row /\ UpdatedRow(a, peer).session = peer
    <2>1. peer \in 0..MaxInstalls
      BY InstallationType
    <2>2. CASE rows[a] = NoRow
      BY <2>1, <2>2, InstallationType DEF UpdatedRow, Row
    <2>3. CASE rows[a] # NoRow
      <3>1. rows[a] \in Row
        BY <2>3, RowType DEF HasRow
      <3> QED BY <2>1, <2>3, <3>1 DEF UpdatedRow, Row
    <2> QED BY <2>2, <2>3
  <1> QED BY <1>1, AbsentAssumption

(* The identifiers requestBundle excludes. *)
LEMMA UserIdentifiersType ==
  ASSUME TypeOK, NEW to \in SUBSET Address
  PROVE  UserIdentifiers(to) \subseteq Identifier
  BY RowType DEF UserIdentifiers, Identifier

(***************************************************************************)
(* iZSSessionStore.store writes dictionary and row, and the library saves  *)
(* the identity: three copies that agree before agree afterwards.          *)
(***************************************************************************)
LEMMA EstablishKeeps ==
  ASSUME TypeOK, SessionsBacked, TrustMatchesSession,
         NEW a \in Address, NEW peer \in Installation, Establish(a, peer)
  PROVE  /\ rows' \in [Address -> Row \cup {NoRow}]
         /\ sessions' \in [Address -> 0..MaxInstalls]
         /\ trusted' \in [Address -> 0..MaxInstalls]
         /\ unopened' \subseteq Address
         /\ SessionsBacked'
         /\ TrustMatchesSession'
  <1>1. peer \in 0..MaxInstalls
    BY InstallationType
  <1>2. /\ rows' \in [Address -> Row \cup {NoRow}]
        /\ sessions' \in [Address -> 0..MaxInstalls]
        /\ trusted' \in [Address -> 0..MaxInstalls]
        /\ unopened' \subseteq Address
    BY <1>1, UpdatedRowType DEF Establish, StoreSession, SaveIdentity, TypeOK
  <1>3. SessionsBacked'
    <2> SUFFICES ASSUME NEW x \in Address
                 PROVE  sessions'[x] = RowSession(x)'
      BY DEF SessionsBacked
    <2>1. CASE x = a
      <3>1. sessions'[x] = peer /\ rows'[x] = UpdatedRow(a, peer)
        BY <2>1 DEF Establish, StoreSession, TypeOK
      <3> QED BY <3>1, UpdatedRowType DEF RowSession
    <2>2. CASE x # a
      <3>1. sessions'[x] = sessions[x] /\ rows'[x] = rows[x]
        BY <2>2 DEF Establish, StoreSession, TypeOK
      <3> QED BY <3>1 DEF SessionsBacked, RowSession
    <2> QED BY <2>1, <2>2
  <1>4. TrustMatchesSession'
    <2> SUFFICES ASSUME NEW x \in Address, x \notin unopened',
                        sessions'[x] # None, trusted'[x] # None
                 PROVE  sessions'[x] = trusted'[x]
      BY DEF TrustMatchesSession
    <2>1. CASE x = a
      BY <2>1 DEF Establish, StoreSession, SaveIdentity, TypeOK
    <2>2. CASE x # a
      <3>1. sessions'[x] = sessions[x] /\ trusted'[x] = trusted[x] /\ x \notin unopened
        BY <2>2 DEF Establish, StoreSession, SaveIdentity, TypeOK
      <3> QED BY <3>1 DEF TrustMatchesSession
    <2> QED BY <2>1, <2>2
  <1> QED BY <1>2, <1>3, <1>4

-----------------------------------------------------------------------------
LEMMA InitInv == Init => IInv
  <1> SUFFICES ASSUME Init PROVE IInv
    OBVIOUS
  <1>1. TypeOK
    BY InstallationType DEF Init, TypeOK, NoRequest
  <1>2. SessionsBacked /\ TrustMatchesSession /\ AddingIsFresh
    BY DEF Init, SessionsBacked, RowSession, TrustMatchesSession, AddingIsFresh
  <1> QED BY <1>1, <1>2 DEF IInv

(* A step that leaves rows, sessions, identities and the bundle in hand as *)
(* they are keeps what relates them.                                       *)
LEMMA StoresUnchanged ==
  ASSUME SessionsBacked, TrustMatchesSession, AddingIsFresh,
         UNCHANGED <<stores, adding>>
  PROVE  SessionsBacked' /\ TrustMatchesSession' /\ AddingIsFresh'
  BY DEF stores, SessionsBacked, RowSession, TrustMatchesSession, AddingIsFresh, HasRow

LEMMA ReinstallStep ==
  ASSUME IInv, NEW a \in Address, Reinstall(a)
  PROVE  IInv'
  <1>1. TypeOK'
    BY InstallationType DEF IInv, TypeOK, Reinstall, stores, network, work
  <1>2. UNCHANGED <<stores, adding>>
    BY DEF Reinstall, work
  <1> QED BY <1>1, <1>2, StoresUnchanged DEF IInv

LEMMA RequestStep ==
  ASSUME IInv, NEW to \in SUBSET Address, RequestBundle(to)
  PROVE  IInv'
  <1>1. request' \in [state : {"none", "sent", "answered"}, to : SUBSET Address,
                      exclude : SUBSET Identifier, bundles : SUBSET Bundle]
    BY UserIdentifiersType DEF IInv, RequestBundle
  <1>2. TypeOK'
    BY <1>1 DEF IInv, TypeOK, RequestBundle, stores, work
  <1>3. UNCHANGED <<stores, adding>>
    BY DEF RequestBundle, work
  <1> QED BY <1>2, <1>3, StoresUnchanged DEF IInv

LEMMA AnswerStep ==
  ASSUME IInv, NEW valid \in [Address -> BOOLEAN], ServerAnswer(valid)
  PROVE  IInv'
  <1> DEFINE B == {[addr |-> a, peer |-> installed[a], valid |-> valid[a]] :
                     a \in {x \in request.to :
                              <<x, installed[x]>> \notin request.exclude}}
  <1>1. B \subseteq Bundle
    <2>1. request.to \subseteq Address
      BY DEF IInv, TypeOK
    <2>2. installed \in [Address -> Installation]
      BY DEF IInv, TypeOK
    <2>3. ASSUME NEW a \in Address
          PROVE  [addr |-> a, peer |-> installed[a], valid |-> valid[a]] \in Bundle
      BY <2>2 DEF Bundle
    <2> QED BY <2>1, <2>3
  <1>2. request' = [request EXCEPT !.state = "answered", !.bundles = B]
    BY DEF ServerAnswer
  <1>3. request' \in [state : {"none", "sent", "answered"}, to : SUBSET Address,
                      exclude : SUBSET Identifier, bundles : SUBSET Bundle]
    <2> HIDE DEF B
    <2> QED BY <1>1, <1>2 DEF IInv, TypeOK
  <1>4. TypeOK'
    BY <1>3 DEF IInv, TypeOK, ServerAnswer, stores, work
  <1>5. UNCHANGED <<stores, adding>>
    BY DEF ServerAnswer, work
  <1> QED BY <1>4, <1>5, StoresUnchanged DEF IInv

LEMMA CallbackStep ==
  ASSUME IInv, RequestCallback
  PROVE  IInv'
  <1>1. NoRequest \in [state : {"none", "sent", "answered"}, to : SUBSET Address,
                       exclude : SUBSET Identifier, bundles : SUBSET Bundle]
    BY DEF NoRequest
  <1>2. request' = NoRequest /\ UNCHANGED <<installed, stores, adding>>
    BY DEF RequestCallback, ReceiveBundles, ReceiveNothing, ReceiveFailure, work
  <1>3. items' \in SUBSET Bundle /\ answering' \in BOOLEAN /\ waiting' \in BOOLEAN
    BY DEF RequestCallback, ReceiveBundles, ReceiveNothing, ReceiveFailure, work, IInv, TypeOK
  <1>4. TypeOK'
    BY <1>1, <1>2, <1>3 DEF IInv, TypeOK, stores
  <1> QED BY <1>2, <1>4, StoresUnchanged DEF IInv

LEMMA ConflictStep ==
  ASSUME IInv, NEW valid \in [Address -> BOOLEAN], NEW devices \in SUBSET Address,
         NEW peer \in [Address -> Installation],
         ProcessConflictBundles(devices, peer, valid)
  PROVE  IInv'
  <1>1. items' \in SUBSET Bundle
    BY DEF ProcessConflictBundles, Bundle
  <1>2. TypeOK'
    BY <1>1 DEF IInv, TypeOK, ProcessConflictBundles, stores, network
  <1>3. UNCHANGED <<stores, adding>>
    BY DEF ProcessConflictBundles
  <1> QED BY <1>2, <1>3, StoresUnchanged DEF IInv

LEMMA PassOverStep ==
  ASSUME IInv, NEW b \in items, SkipUnreadable(b) \/ RefuseAdd(b)
  PROVE  IInv'
  <1>1. /\ items' = items \ {b}
        /\ UNCHANGED <<installed, stores, network, answering, adding>>
    BY DEF SkipUnreadable, RefuseAdd
  <1>2. TypeOK'
    BY <1>1 DEF IInv, TypeOK, stores, network
  <1> QED BY <1>1, <1>2, StoresUnchanged DEF IInv

LEMMA BeginAddStep ==
  ASSUME IInv, NEW b \in items, BeginAdd(b)
  PROVE  IInv'
  <1> DEFINE new == [session |-> None, identity |-> b.peer]
  <1>1. b \in Bundle /\ b.addr \in Address /\ b.peer \in Installation
    BY DEF IInv, TypeOK, Bundle
  <1>2. new \in Row /\ new # NoRow
    <2>1. b.peer \in 0..MaxInstalls
      BY <1>1, InstallationType
    <2>2. new \in Row
      BY <2>1, InstallationType DEF Row
    <2> QED BY <2>2, AbsentAssumption
  <1>3. /\ rows' = [rows EXCEPT ![b.addr] = new]
        /\ adding' = b
        /\ items' = items \ {b}
        /\ UNCHANGED <<installed, sessions, trusted, unopened, network, answering>>
    BY DEF BeginAdd
  <1>4. rows' \in [Address -> Row \cup {NoRow}]
    <2> HIDE DEF new
    <2> QED BY <1>1, <1>2, <1>3 DEF IInv, TypeOK
  <1>5. TypeOK'
    BY <1>1, <1>3, <1>4 DEF IInv, TypeOK, network
  <1>6. rows'[b.addr] = new /\ \A x \in Address \ {b.addr} : rows'[x] = rows[x]
    BY <1>1, <1>3 DEF IInv, TypeOK
  <1>7. SessionsBacked'
    <2> SUFFICES ASSUME NEW x \in Address
                 PROVE  sessions'[x] = RowSession(x)'
      BY DEF SessionsBacked
    <2>1. sessions'[x] = RowSession(x)
      BY <1>3 DEF IInv, SessionsBacked
    <2>2. CASE x = b.addr
      <3>1. RowSession(x) = None
        BY <2>2 DEF BeginAdd, HasRow, RowSession
      <3>2. RowSession(x)' = None
        BY <1>2, <1>6, <2>2 DEF RowSession
      <3> QED BY <2>1, <3>1, <3>2
    <2>3. CASE x # b.addr
      BY <1>6, <2>1, <2>3 DEF RowSession
    <2> QED BY <2>2, <2>3
  <1>8. TrustMatchesSession'
    BY <1>3 DEF IInv, TrustMatchesSession
  <1>9. AddingIsFresh'
    BY <1>2, <1>3, <1>6 DEF AddingIsFresh, HasRow
  <1> QED BY <1>5, <1>7, <1>8, <1>9 DEF IInv

LEMMA FinishAddStep ==
  ASSUME IInv, FinishAdd
  PROVE  IInv'
  <1>1. adding \in Bundle /\ adding.addr \in Address /\ adding.peer \in Installation
    BY DEF IInv, TypeOK, FinishAdd, Bundle
  <1>2. adding' = NoBundle /\ UNCHANGED <<installed, network, items, answering>>
    BY DEF FinishAdd
  <1>3. AddingIsFresh'
    BY <1>2 DEF AddingIsFresh
  <1>4. CASE Establish(adding.addr, adding.peer)
    <2>1. /\ rows' \in [Address -> Row \cup {NoRow}]
          /\ sessions' \in [Address -> 0..MaxInstalls]
          /\ trusted' \in [Address -> 0..MaxInstalls]
          /\ unopened' \subseteq Address
          /\ SessionsBacked'
          /\ TrustMatchesSession'
      BY <1>1, <1>4, EstablishKeeps DEF IInv
    <2> QED BY <1>2, <1>3, <2>1 DEF IInv, TypeOK, network
  <1>5. CASE UNCHANGED stores
    <2>1. SessionsBacked' /\ TrustMatchesSession'
      BY <1>5 DEF IInv, stores, SessionsBacked, RowSession, TrustMatchesSession
    <2> QED BY <1>2, <1>3, <1>5, <2>1 DEF IInv, TypeOK, stores, network
  <1> QED BY <1>4, <1>5 DEF FinishAdd

LEMMA CompleteStep ==
  ASSUME IInv, CompleteRequest
  PROVE  IInv'
  <1>1. TypeOK'
    BY DEF IInv, TypeOK, CompleteRequest, stores
  <1>2. UNCHANGED <<stores, adding>>
    BY DEF CompleteRequest
  <1> QED BY <1>1, <1>2, StoresUnchanged DEF IInv

LEMMA MessageStep ==
  ASSUME IInv, NEW a \in Address, NEW peer \in Installation, NEW opens \in BOOLEAN,
         ReceivePreKeyMessage(a, peer, opens)
  PROVE  IInv'
  <1>1. UNCHANGED <<installed, network, work>> /\ adding = NoBundle
    BY DEF ReceivePreKeyMessage, Busy
  <1>2. AddingIsFresh'
    BY <1>1 DEF AddingIsFresh, work
  <1>3. CASE Establish(a, peer)
    <2>1. /\ rows' \in [Address -> Row \cup {NoRow}]
          /\ sessions' \in [Address -> 0..MaxInstalls]
          /\ trusted' \in [Address -> 0..MaxInstalls]
          /\ unopened' \subseteq Address
          /\ SessionsBacked'
          /\ TrustMatchesSession'
      BY <1>3, EstablishKeeps DEF IInv
    <2> QED BY <1>1, <1>2, <2>1 DEF IInv, TypeOK, network, work
  <1>4. CASE /\ SaveIdentity(a, peer)
             /\ unopened' = IF trusted[a] = None THEN unopened \cup {a} ELSE unopened
             /\ UNCHANGED <<rows, sessions>>
    <2>1. peer \in 0..MaxInstalls
      BY InstallationType
    <2>2. TypeOK'
      BY <1>1, <1>4, <2>1 DEF IInv, TypeOK, SaveIdentity, network, work
    <2>3. SessionsBacked'
      BY <1>4 DEF IInv, SessionsBacked, RowSession
    <2>4. TrustMatchesSession'
      <3> SUFFICES ASSUME NEW x \in Address, x \notin unopened',
                          sessions'[x] # None, trusted'[x] # None
                   PROVE  sessions'[x] = trusted'[x]
        BY DEF TrustMatchesSession
      <3>1. CASE x = a
        <4>1. trusted[a] = peer /\ a \notin unopened
          BY <1>4, <3>1 DEF ReceivePreKeyMessage, IsTrusted
        <4>2. trusted'[x] = trusted[x]
          BY <1>4, <3>1, <4>1 DEF SaveIdentity, IInv, TypeOK
        <4> QED BY <1>4, <3>1, <4>1, <4>2 DEF IInv, TrustMatchesSession
      <3>2. CASE x # a
        <4>1. trusted'[x] = trusted[x] /\ x \notin unopened
          BY <1>4, <3>2 DEF SaveIdentity, IInv, TypeOK
        <4> QED BY <1>4, <4>1 DEF IInv, TrustMatchesSession
      <3> QED BY <3>1, <3>2
    <2> QED BY <1>2, <2>2, <2>3, <2>4 DEF IInv
  <1> QED BY <1>3, <1>4 DEF ReceivePreKeyMessage

LEMMA ClearStep ==
  ASSUME IInv, NEW devices \in SUBSET Address, ClearBundles(devices)
  PROVE  IInv'
  <1>1. /\ rows' = [a \in Address |-> IF a \in devices THEN NoRow ELSE rows[a]]
        /\ sessions' = [a \in Address |-> IF a \in devices THEN None ELSE sessions[a]]
        /\ UNCHANGED <<installed, trusted, unopened, network, work>>
        /\ adding = NoBundle
    BY DEF ClearBundles, DeleteRows, DeleteSessions, Busy
  <1>2. TypeOK'
    BY <1>1, InstallationType DEF IInv, TypeOK, network, work
  <1>3. SessionsBacked'
    BY <1>1 DEF IInv, SessionsBacked, RowSession
  <1>4. TrustMatchesSession'
    BY <1>1 DEF IInv, TrustMatchesSession
  <1>5. AddingIsFresh'
    BY <1>1 DEF AddingIsFresh, work
  <1> QED BY <1>2, <1>3, <1>4, <1>5 DEF IInv

LEMMA RestartStep ==
  ASSUME IInv, Restart
  PROVE  IInv'
  <1>1. TypeOK'
    <2>1. sessions' \in [Address -> 0..MaxInstalls]
      BY RowType DEF IInv, Restart
    <2>2. trusted' \in [Address -> 0..MaxInstalls]
      BY InstallationType DEF Restart
    <2> QED BY <2>1, <2>2 DEF IInv, TypeOK, Restart, NoRequest
  <1>2. SessionsBacked'
    BY DEF Restart, SessionsBacked, RowSession
  <1>3. TrustMatchesSession' /\ AddingIsFresh'
    BY DEF Restart, TrustMatchesSession, AddingIsFresh
  <1> QED BY <1>1, <1>2, <1>3 DEF IInv

LEMMA NextInv == IInv /\ [Next]_vars => IInv'
  <1> SUFFICES ASSUME IInv, [Next]_vars PROVE IInv'
    OBVIOUS
  <1>1. CASE \E a \in Address : Reinstall(a)
    BY <1>1, ReinstallStep
  <1>2. CASE \E to \in SUBSET Address \ {{}} : RequestBundle(to)
    BY <1>2, RequestStep
  <1>3. CASE \E valid \in [Address -> BOOLEAN] : ServerAnswer(valid)
    BY <1>3, AnswerStep
  <1>4. CASE \E valid \in [Address -> BOOLEAN] :
               \E devices \in SUBSET Address \ {{}}, peer \in [Address -> Installation] :
                  ProcessConflictBundles(devices, peer, valid)
    BY <1>4, ConflictStep
  <1>5. CASE RequestCallback
    BY <1>5, CallbackStep
  <1>6. CASE ProcessItem
    BY <1>6, PassOverStep, BeginAddStep, FinishAddStep, CompleteStep DEF ProcessItem
  <1>7. CASE \E a \in Address, peer \in Installation, opens \in BOOLEAN :
               ReceivePreKeyMessage(a, peer, opens)
    BY <1>7, MessageStep
  <1>8. CASE \E devices \in SUBSET Address \ {{}} : ClearBundles(devices)
    BY <1>8, ClearStep
  <1>9. CASE Restart
    BY <1>9, RestartStep
  <1>10. CASE UNCHANGED vars
    <2>1. UNCHANGED <<stores, adding>>
      BY <1>10 DEF vars, work
    <2>2. TypeOK'
      BY <1>10 DEF IInv, TypeOK, vars, stores, network, work
    <2> QED BY <2>1, <2>2, StoresUnchanged DEF IInv
  <1> QED BY <1>1, <1>2, <1>3, <1>4, <1>5, <1>6, <1>7, <1>8, <1>9, <1>10 DEF Next

(* The inductive invariant holds in every reachable state. *)
THEOREM Invariance == Spec => []IInv
  BY InitInv, NextInv, PTL DEF Spec

-----------------------------------------------------------------------------
(* Table, session store, identity store, requests and the loop of          *)
(* proccessBundle keep their types.                                        *)
THEOREM TypeCorrect == Spec => []TypeOK
  <1>1. IInv => TypeOK
    BY DEF IInv
  <1> QED BY <1>1, Invariance, PTL

(* Table and dictionary agree on every session, so that a restart neither  *)
(* loses one nor brings a deleted one back.                                *)
THEOREM Backed == Spec => []SessionsBacked
  <1>1. IInv => SessionsBacked
    BY DEF IInv
  <1> QED BY <1>1, Invariance, PTL

(***************************************************************************)
(* A session in use belongs to the identity that isTrusted would accept,   *)
(* whatever order bundles, messages, deletions and restarts come in, but   *)
(* for an address whose first identity came with a message that did not    *)
(* open.                                                                   *)
(***************************************************************************)
THEOREM Trust == Spec => []TrustMatchesSession
  <1>1. IInv => TrustMatchesSession
    BY DEF IInv
  <1> QED BY <1>1, Invariance, PTL

(***************************************************************************)
(* However late a bundle is processed, add(remoteUser:) never replaces a   *)
(* session: it builds one only where its own row has none.                 *)
(***************************************************************************)
THEOREM NeverReplaced == Spec => BundleNeverReplaces
  <1> DEFINE A == \A a \in Address :
                    adding # NoBundle /\ adding' = NoBundle /\ sessions[a] # None
                        => sessions'[a] = sessions[a]
  <1>1. IInv /\ [Next]_vars => A
    <2> SUFFICES ASSUME IInv, [Next]_vars, NEW a \in Address,
                        adding # NoBundle, adding' = NoBundle, sessions[a] # None
                 PROVE  sessions'[a] = sessions[a]
      OBVIOUS
    <2>1. FinishAdd \/ Restart
      BY DEF Next, vars, stores, network, work, Busy, Reinstall, RequestBundle, ServerAnswer,
             ProcessConflictBundles, RequestCallback, ReceiveBundles, ReceiveNothing,
             ReceiveFailure, ProcessItem, SkipUnreadable, BeginAdd, RefuseAdd,
             CompleteRequest, ReceivePreKeyMessage, ClearBundles
    <2>2. CASE FinishAdd
      <3>1. adding.addr \in Address
        BY DEF IInv, TypeOK, Bundle
      <3>2. sessions[adding.addr] = None
        BY <3>1 DEF IInv, AddingIsFresh, SessionsBacked, RowSession, HasRow
      <3>3. CASE Establish(adding.addr, adding.peer)
        BY <3>2, <3>3 DEF Establish, StoreSession, IInv, TypeOK
      <3>4. CASE UNCHANGED stores
        BY <3>4 DEF stores
      <3> QED BY <2>2, <3>3, <3>4 DEF FinishAdd
    <2>3. CASE Restart
      BY <2>3 DEF Restart, IInv, SessionsBacked
    <2> QED BY <2>1, <2>2, <2>3
  <1>2. IInv /\ [Next]_vars => [A]_vars
    BY <1>1
  <1> QED BY <1>2, Invariance, PTL DEF Spec, BundleNeverReplaces
-----------------------------------------------------------------------------
(***************************************************************************)
(* Sessions implements TrustedSessions.                                    *)
(***************************************************************************)
Establishes == \E a \in Address, peer \in Installation : Trusting!Establish(a, peer)
Remembers   == \E a \in Address, peer \in Installation : Trusting!Remember(a, peer)
Deletes     == \E devices \in SUBSET Address : Trusting!Delete(devices)

(* store(session:) and save(identity:) after isTrusted are Establish. *)
LEMMA StoreEstablishes ==
  ASSUME NEW a \in Address, NEW peer \in Installation,
         IsTrusted(a, peer), Establish(a, peer)
  PROVE  Establishes
  <1>1. Trusting!Establish(a, peer)
    BY DEF IsTrusted, Establish, StoreSession, SaveIdentity, Trusting!Establish
  <1> QED BY <1>1 DEF Establishes

(* A step of a process that lives on establishes sessions, trusts a first   *)
(* identity, deletes sessions, or leaves the stores as they are.            *)
LEMMA LiveStep ==
  ASSUME IInv, [Next]_vars, ~Restart
  PROVE  Establishes \/ Remembers \/ Deletes \/ UNCHANGED <<sessions, trusted>>
  <1>1. ASSUME NEW a \in Address, Reinstall(a)
        PROVE  UNCHANGED <<sessions, trusted>>
    BY <1>1 DEF Reinstall, stores
  <1>2. ASSUME NEW to \in SUBSET Address, RequestBundle(to)
        PROVE  UNCHANGED <<sessions, trusted>>
    BY <1>2 DEF RequestBundle, stores
  <1>3. ASSUME NEW valid \in [Address -> BOOLEAN], ServerAnswer(valid)
        PROVE  UNCHANGED <<sessions, trusted>>
    BY <1>3 DEF ServerAnswer, stores
  <1>4. ASSUME NEW valid \in [Address -> BOOLEAN], NEW devices \in SUBSET Address,
               NEW peer \in [Address -> Installation],
               ProcessConflictBundles(devices, peer, valid)
        PROVE  UNCHANGED <<sessions, trusted>>
    BY <1>4 DEF ProcessConflictBundles, stores
  <1>5. ASSUME RequestCallback
        PROVE  UNCHANGED <<sessions, trusted>>
    BY <1>5 DEF RequestCallback, ReceiveBundles, ReceiveNothing, ReceiveFailure, stores
  <1>6. ASSUME ProcessItem
        PROVE  Establishes \/ UNCHANGED <<sessions, trusted>>
    <2>1. CASE \E b \in items : SkipUnreadable(b) \/ BeginAdd(b) \/ RefuseAdd(b)
      BY <2>1 DEF SkipUnreadable, BeginAdd, RefuseAdd, stores
    <2>2. CASE FinishAdd
      <3>1. adding.addr \in Address /\ adding.peer \in Installation
        BY <2>2 DEF IInv, TypeOK, FinishAdd, Bundle
      <3>2. CASE adding.valid /\ IsTrusted(adding.addr, adding.peer)
        BY <2>2, <3>1, <3>2, StoreEstablishes DEF FinishAdd
      <3>3. CASE ~(adding.valid /\ IsTrusted(adding.addr, adding.peer))
        BY <2>2, <3>3 DEF FinishAdd, stores
      <3> QED BY <3>2, <3>3
    <2>3. CASE CompleteRequest
      BY <2>3 DEF CompleteRequest, stores
    <2> QED BY <1>6, <2>1, <2>2, <2>3 DEF ProcessItem
  <1>7. ASSUME NEW a \in Address, NEW peer \in Installation, NEW opens \in BOOLEAN,
               ReceivePreKeyMessage(a, peer, opens)
        PROVE  Establishes \/ Remembers
    <2>1. CASE Establish(a, peer)
      BY <1>7, <2>1, StoreEstablishes DEF ReceivePreKeyMessage
    <2>2. CASE SaveIdentity(a, peer) /\ UNCHANGED sessions
      <3>1. Trusting!Remember(a, peer)
        BY <1>7, <2>2 DEF ReceivePreKeyMessage, IsTrusted, SaveIdentity, Trusting!Remember
      <3> QED BY <3>1 DEF Remembers
    <2> QED BY <1>7, <2>1, <2>2 DEF ReceivePreKeyMessage
  <1>8. ASSUME NEW devices \in SUBSET Address, ClearBundles(devices)
        PROVE  Deletes
    <2>1. Trusting!Delete(devices)
      BY <1>8 DEF ClearBundles, DeleteSessions, Trusting!Delete
    <2> QED BY <2>1 DEF Deletes
  <1>9. CASE UNCHANGED vars
    BY <1>9 DEF vars, stores
  <1> QED
    BY <1>1, <1>2, <1>3, <1>4, <1>5, <1>6, <1>7, <1>8, <1>9 DEF Next

(* A restart forgets trust and, as the rows back every session, no session. *)
LEMMA RestartForgets ==
  ASSUME IInv, Restart
  PROVE  Trusting!Die
  <1>1. \A a \in Address : sessions'[a] = sessions[a]
    BY DEF Restart, IInv, SessionsBacked
  <1>2. /\ sessions' = [a \in Address |-> sessions'[a]]
        /\ sessions = [a \in Address |-> sessions[a]]
    BY DEF Restart, IInv, TypeOK
  <1>3. sessions' = sessions
    BY <1>1, <1>2
  <1> QED BY <1>3 DEF Restart, Trusting!Die

LEMMA TrustingStep == IInv /\ [Next]_vars => [Trusting!Next]_(Trusting!vars)
  <1> SUFFICES ASSUME IInv, [Next]_vars
               PROVE  Trusting!Next \/ UNCHANGED Trusting!vars
    BY DEF Trusting!vars
  <1>1. CASE Restart
    BY <1>1, RestartForgets DEF Trusting!Next
  <1>2. CASE ~Restart
    BY <1>2, LiveStep DEF Establishes, Remembers, Deletes, Trusting!Next, Trusting!vars
  <1> QED BY <1>1, <1>2

(***************************************************************************)
(* With requests, late answers, bundles, messages that open and that do    *)
(* not, rows and restarts the two stores do what TrustedSessions says:     *)
(* only a session whose identity is no longer trusted is replaced by one   *)
(* with another, and only a restart makes trust go, and it takes no        *)
(* session with it.                                                        *)
(***************************************************************************)
THEOREM ImplementsTrust == Spec => KeepsTrust
  <1>1. Init => Trusting!Init
    BY DEF Init, Trusting!Init
  <1> QED
    BY <1>1, Invariance, TrustingStep, PTL DEF Spec, KeepsTrust, Trusting!Spec

-----------------------------------------------------------------------------
(***************************************************************************)
(* Trust on first use, which a restart breaks.                             *)
(***************************************************************************)

(* Every session of a process that has not been restarted is trusted. *)
Remembered == \A a \in Address : sessions[a] # None => trusted[a] = sessions[a]

LEMMA RememberedStep ==
  ASSUME IInv, Remembered, [Next]_vars, ~Restart
  PROVE  /\ Remembered'
         /\ \A a \in Address :
               sessions[a] # None /\ sessions'[a] # None => sessions'[a] = sessions[a]
  <1> USE DEF IInv, TypeOK
  <1>1. ASSUME NEW a \in Address, NEW peer \in Installation, Trusting!Establish(a, peer)
        PROVE  /\ Remembered'
               /\ \A x \in Address :
                     sessions[x] # None /\ sessions'[x] # None => sessions'[x] = sessions[x]
    <2>1. /\ sessions' = [sessions EXCEPT ![a] = peer]
          /\ trusted' = [trusted EXCEPT ![a] = peer]
          /\ trusted[a] \in {None, peer}
      BY <1>1 DEF Trusting!Establish
    <2>2. sessions[a] # None => sessions[a] = peer
      BY <2>1 DEF Remembered
    <2> QED BY <2>1, <2>2 DEF Remembered
  <1>2. ASSUME NEW devices \in SUBSET Address, Trusting!Delete(devices)
        PROVE  /\ Remembered'
               /\ \A x \in Address :
                     sessions[x] # None /\ sessions'[x] # None => sessions'[x] = sessions[x]
    BY <1>2 DEF Trusting!Delete, Remembered
  <1>3. CASE UNCHANGED <<sessions, trusted>>
    BY <1>3 DEF Remembered
  <1>4. ASSUME NEW a \in Address, NEW peer \in Installation, Trusting!Remember(a, peer)
        PROVE  /\ Remembered'
               /\ \A x \in Address :
                     sessions[x] # None /\ sessions'[x] # None => sessions'[x] = sessions[x]
    <2>1. /\ sessions' = sessions
          /\ trusted' = [trusted EXCEPT ![a] = peer]
          /\ trusted[a] \in {None, peer}
      BY <1>4 DEF Trusting!Remember
    <2>2. sessions[a] # None => sessions[a] = peer
      BY <2>1 DEF Remembered
    <2> QED BY <2>1, <2>2 DEF Remembered
  <1> QED BY <1>1, <1>2, <1>3, <1>4, LiveStep DEF Establishes, Remembers, Deletes

(***************************************************************************)
(* iZSIdentityStore keeps its promise for the life of a process: as long   *)
(* as it is not restarted no session is replaced by one with another       *)
(* identity.  What breaks the promise is a restart, and nothing else.      *)
(***************************************************************************)
THEOREM TrustedUntilRestart == Spec /\ [][~Restart]_vars => TrustOnFirstUse
  <1> DEFINE A == \A a \in Address :
                    sessions[a] # None /\ sessions'[a] # None => sessions'[a] = sessions[a]
  <1>1. Init => Remembered
    BY DEF Init, Remembered
  <1>2. IInv /\ Remembered /\ [Next]_vars /\ [~Restart]_vars => Remembered' /\ [A]_vars
    <2>1. CASE UNCHANGED vars
      BY <2>1 DEF vars, stores, Remembered
    <2>2. CASE ~Restart
      BY <2>2, RememberedStep
    <2> QED BY <2>1, <2>2
  <1> QED BY <1>1, <1>2, Invariance, PTL DEF Spec, TrustOnFirstUse
==================================================
