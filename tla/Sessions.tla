------------------------------ MODULE Sessions ------------------------------
(***************************************************************************)
(* The sessions of one installation with the devices of other users.  A    *)
(* session is built from a prekey bundle the application has requested     *)
(* from the server, or from a prekey message a device has sent.  It is     *)
(* kept three times over: iZSSessionStore holds it in memory, its row of   *)
(* the RemoteSessions table outlives the process, and iZSIdentityStore     *)
(* remembers, in memory only, whose identity key it was built with.        *)
(*                                                                         *)
(* The device behind an address can be set up anew; it then has another    *)
(* identity key and registration id.  Both are represented by the number   *)
(* of the installation, 1, 2, ..., and so is a session, by the             *)
(* installation at its other end; 0 stands for none of them.               *)
(*                                                                         *)
(* Sessions are used and bundles processed on the main thread; the answer  *)
(* to a request comes on a thread of the delegate.                         *)
(***************************************************************************)
EXTENDS Naturals

CONSTANTS
    Address,      \* devices of other users: user id and device id
    NoRow,        \* an address without a row in the table
    NoBundle,     \* no bundle is being added
    Renewed,      \* bound: devices that are set up anew
    MaxInstalls   \* bound: installations of one device

Installation == 1..MaxInstalls
None         == 0
Bundle       == [addr : Address, peer : Installation, valid : BOOLEAN]
Row          == [session : 0..MaxInstalls, identity : 0..MaxInstalls]
Identifier   == Address \X (0..MaxInstalls)

ASSUME BoundAssumption  == MaxInstalls \in Nat \ {0} /\ Renewed \subseteq Address
ASSUME AbsentAssumption == NoRow \notin Row /\ NoBundle \notin Bundle

VARIABLES
    installed,   \* the installation each device runs
    rows,        \* RemoteSessions table
    sessions,    \* iZSSessionStore.sessions
    trusted,     \* iZSIdentityStore.keys
    unopened,    \* history: devices trusted for the sake of a message that did not open
    request,     \* state of a bundle request, its recipients and excludes, its answer
    waiting,     \* the application waits for the completion of requestBundle
    items,       \* bundles that proccessBundle has still to look at
    answering,   \* it will call that completion when it has looked at all of them
    adding       \* the bundle whose row add(remoteUser:) has created

stores  == <<rows, sessions, trusted, unopened>>
network == <<request, waiting>>
work    == <<items, answering, adding>>
vars    == <<installed, stores, network, work>>

NoRequest == [state |-> "none", to |-> {}, exclude |-> {}, bundles |-> {}]

TypeOK ==
    /\ installed \in [Address -> Installation]
    /\ rows \in [Address -> Row \cup {NoRow}]
    /\ sessions \in [Address -> 0..MaxInstalls]
    /\ trusted \in [Address -> 0..MaxInstalls]
    /\ unopened \in SUBSET Address
    /\ request \in [state : {"none", "sent", "answered"}, to : SUBSET Address,
                    exclude : SUBSET Identifier, bundles : SUBSET Bundle]
    /\ waiting \in BOOLEAN
    /\ items \in SUBSET Bundle
    /\ answering \in BOOLEAN
    /\ adding \in Bundle \cup {NoBundle}

Init ==
    /\ installed = [a \in Address |-> 1]
    /\ rows = [a \in Address |-> NoRow]
    /\ sessions = [a \in Address |-> None]
    /\ trusted = [a \in Address |-> None]
    /\ unopened = {}
    /\ request = NoRequest
    /\ waiting = FALSE
    /\ items = {}
    /\ answering = FALSE
    /\ adding = NoBundle

-----------------------------------------------------------------------------
(* The main thread is in the loop of proccessBundle. *)
Busy == items # {} \/ adding # NoBundle \/ answering

RowSession(a) == IF rows[a] = NoRow THEN None ELSE rows[a].session

(* canAddRemoteSession asks for a row of the address, which need not have  *)
(* a session.                                                              *)
HasRow(a) == rows[a] # NoRow

(* Mutant: every identity is trusted. *)
TrustsAnyone(a, peer) == TRUE

(* isTrusted: no identity is remembered for the address, or this one is. *)
IsTrusted(a, peer) == trusted[a] \in {None, peer}

(* Mutant: the row is written anew and its other columns are lost. *)
RowOfSessionOnly(a, peer) == [session |-> peer]

(* updateRemoteSession: the session goes into the row of the address; a    *)
(* new row has no registration id and no identity key.                     *)
UpdatedRow(a, peer) ==
    IF rows[a] = NoRow THEN [session |-> peer, identity |-> None]
                       ELSE [rows[a] EXCEPT !.session = peer]

(* iZSSessionStore.store: the session goes into memory and into the row. *)
StoreSession(a, peer) ==
    /\ sessions' = [sessions EXCEPT ![a] = peer]
    /\ rows' = [rows EXCEPT ![a] = UpdatedRow(a, peer)]

(* iZSIdentityStore.save *)
SaveIdentity(a, peer) == trusted' = [trusted EXCEPT ![a] = peer]

(***************************************************************************)
(* The library has a session: for a bundle it stores the session and then  *)
(* the identity, for a message the identity and then the session.  A       *)
(* process that dies in between has lost the identity in either case, so   *)
(* that nothing tells the order.                                           *)
(***************************************************************************)
Establish(a, peer) ==
    /\ StoreSession(a, peer)
    /\ SaveIdentity(a, peer)
    /\ unopened' = unopened \ {a}

-----------------------------------------------------------------------------
(* The device behind an address is set up anew. *)
Reinstall(a) ==
    /\ a \in Renewed
    /\ installed[a] < MaxInstalls
    /\ installed' = [installed EXCEPT ![a] = @ + 1]
    /\ UNCHANGED <<stores, network, work>>

(* A device is named by its user, registration and device id, as the row   *)
(* has them.                                                               *)
UserIdentifiers(to) == {<<a, rows[a].identity>> : a \in {x \in to : HasRow(x)}}

(***************************************************************************)
(* requestBundle excludes the devices it has a row of.  One request at a   *)
(* time is a bound of the model.                                           *)
(***************************************************************************)
RequestBundle(to) ==
    /\ ~Busy
    /\ request.state = "none"
    /\ request' = [state |-> "sent", to |-> to,
                   exclude |-> UserIdentifiers(to), bundles |-> {}]
    /\ waiting' = TRUE
    /\ UNCHANGED <<installed, stores, work>>

(* The server answers with a bundle of each recipient it was not told to   *)
(* leave out.  A bundle may not be valid: createRemoteUser cannot read it, *)
(* or its signature is bad.                                                *)
ServerAnswer(valid) ==
    /\ request.state = "sent"
    /\ request' = [request EXCEPT
                     !.state = "answered",
                     !.bundles = {[addr |-> a, peer |-> installed[a], valid |-> valid[a]] :
                                    a \in {x \in request.to :
                                             <<x, installed[x]>> \notin request.exclude}}]
    /\ UNCHANGED <<installed, stores, waiting, work>>

(* The answer arrives and has bundles: proccessBundle goes through them. *)
ReceiveBundles ==
    /\ ~Busy
    /\ request.state = "answered"
    /\ request.bundles # {}
    /\ items' = request.bundles
    /\ answering' = TRUE
    /\ request' = NoRequest
    /\ UNCHANGED <<installed, stores, waiting, adding>>

(* The answer arrives and has none: nothing is called. *)
ReceiveNothing ==
    /\ request.state = "answered"
    /\ request.bundles = {}
    /\ request' = NoRequest
    /\ UNCHANGED <<installed, stores, waiting, work>>

(* The request fails, before or after the server has answered it. *)
ReceiveFailure ==
    /\ request.state # "none"
    /\ request' = NoRequest
    /\ waiting' = FALSE
    /\ UNCHANGED <<installed, stores, work>>

(* The server rejects a message for lack of sessions and sends the bundles *)
(* along: processConflictBundles goes through them as well.  A device may  *)
(* have been set up anew since.                                            *)
ProcessConflictBundles(devices, peer, valid) ==
    /\ ~Busy
    /\ \A a \in devices : peer[a] <= installed[a]
    /\ items' = {[addr |-> a, peer |-> peer[a], valid |-> valid[a]] : a \in devices}
    /\ UNCHANGED <<installed, stores, network, answering, adding>>

(* Mutant: does not look for a row of the device. *)
BeginAddUnchecked(b) ==
    /\ adding = NoBundle
    /\ b \in items
    /\ rows' = [rows EXCEPT ![b.addr] = [session |-> None, identity |-> b.peer]]
    /\ adding' = b
    /\ items' = items \ {b}
    /\ UNCHANGED <<installed, sessions, trusted, unopened, network, answering>>

(* A bundle that createRemoteUser cannot read is passed over. *)
SkipUnreadable(b) ==
    /\ adding = NoBundle
    /\ b \in items
    /\ ~b.valid
    /\ items' = items \ {b}
    /\ UNCHANGED <<installed, stores, network, answering, adding>>

(* add(remoteUser:) creates the row of a device that has none. *)
BeginAdd(b) ==
    /\ adding = NoBundle
    /\ b \in items
    /\ ~HasRow(b.addr)
    /\ rows' = [rows EXCEPT ![b.addr] = [session |-> None, identity |-> b.peer]]
    /\ adding' = b
    /\ items' = items \ {b}
    /\ UNCHANGED <<installed, sessions, trusted, unopened, network, answering>>

(* canAddRemoteSession refuses a device that has one. *)
RefuseAdd(b) ==
    /\ adding = NoBundle
    /\ b \in items
    /\ HasRow(b.addr)
    /\ items' = items \ {b}
    /\ UNCHANGED <<installed, stores, network, answering, adding>>

(* Mutant: the session is stored before the identity is checked. *)
FinishAddUnchecked ==
    /\ adding # NoBundle
    /\ adding.valid
    /\ StoreSession(adding.addr, adding.peer)
    /\ IF IsTrusted(adding.addr, adding.peer)
       THEN SaveIdentity(adding.addr, adding.peer)
       ELSE UNCHANGED trusted
    /\ adding' = NoBundle
    /\ UNCHANGED <<installed, unopened, network, items, answering>>

(* SessionBuilder.process builds the session, or throws and leaves the row *)
(* as it is.                                                               *)
FinishAdd ==
    /\ adding # NoBundle
    /\ IF adding.valid /\ IsTrusted(adding.addr, adding.peer)
       THEN Establish(adding.addr, adding.peer)
       ELSE UNCHANGED stores
    /\ adding' = NoBundle
    /\ UNCHANGED <<installed, network, items, answering>>

(* Mutant: forgets the completion block. *)
CompleteSilently ==
    /\ answering
    /\ items = {}
    /\ adding = NoBundle
    /\ answering' = FALSE
    /\ UNCHANGED <<installed, stores, network, items, adding>>

(* All bundles of the answer have been looked at. *)
CompleteRequest ==
    /\ answering
    /\ items = {}
    /\ adding = NoBundle
    /\ answering' = FALSE
    /\ waiting' = FALSE
    /\ UNCHANGED <<installed, stores, request, items, adding>>

(***************************************************************************)
(* A prekey message, which an installation of the device has sent at some  *)
(* time, is decrypted.  An untrusted one is refused.  The library saves    *)
(* the identity before it decrypts; when the message does not open,        *)
(* preKeyCipherDecrypt swallows the error, and the identity stays.         *)
(***************************************************************************)
ReceivePreKeyMessage(a, peer, opens) ==
    /\ ~Busy
    /\ peer <= installed[a]
    /\ IsTrusted(a, peer)
    /\ \/ opens /\ Establish(a, peer)
       \/ /\ ~opens
          /\ SaveIdentity(a, peer)
          /\ unopened' = IF trusted[a] = None THEN unopened \cup {a} ELSE unopened
          /\ UNCHANGED <<rows, sessions>>
    /\ UNCHANGED <<installed, network, work>>

(* Mutant: deletes the sessions in memory only. *)
ClearBundlesInMemory(devices) ==
    /\ ~Busy
    /\ sessions' = [a \in Address |-> IF a \in devices THEN None ELSE sessions[a]]
    /\ UNCHANGED <<installed, rows, trusted, unopened, network, work>>

DeleteRows(devices)     == rows' = [a \in Address |-> IF a \in devices THEN NoRow ELSE rows[a]]
DeleteSessions(devices) == sessions' = [a \in Address |-> IF a \in devices THEN None ELSE sessions[a]]

(* clearBundles and RemoteSession.remove: the sessions are deleted, in     *)
(* memory and with their rows; the identity stays.  clearBundles stops at  *)
(* an identifier it cannot read; the devices are those it has come to.     *)
ClearBundles(devices) ==
    /\ ~Busy
    /\ DeleteSessions(devices)
    /\ DeleteRows(devices)
    /\ UNCHANGED <<installed, trusted, unopened, network, work>>

(* The process dies; initiate loads the sessions from the table again.  No *)
(* identity is remembered.                                                 *)
Restart ==
    /\ sessions' = [a \in Address |-> RowSession(a)]
    /\ trusted' = [a \in Address |-> None]
    /\ unopened' = {}
    /\ request' = NoRequest
    /\ waiting' = FALSE
    /\ items' = {}
    /\ answering' = FALSE
    /\ adding' = NoBundle
    /\ UNCHANGED <<installed, rows>>

-----------------------------------------------------------------------------
ProcessItem ==
    \/ \E b \in items : SkipUnreadable(b) \/ BeginAdd(b) \/ RefuseAdd(b)
    \/ FinishAdd
    \/ CompleteRequest

RequestCallback == ReceiveBundles \/ ReceiveNothing \/ ReceiveFailure

Next ==
    \/ \E a \in Address : Reinstall(a)
    \/ \E to \in SUBSET Address \ {{}} : RequestBundle(to)
    \/ \E valid \in [Address -> BOOLEAN] :
          ServerAnswer(valid)
          \/ \E devices \in SUBSET Address \ {{}}, peer \in [Address -> Installation] :
                ProcessConflictBundles(devices, peer, valid)
    \/ RequestCallback
    \/ ProcessItem
    \/ \E a \in Address, peer \in Installation, opens \in BOOLEAN :
          ReceivePreKeyMessage(a, peer, opens)
    \/ \E devices \in SUBSET Address \ {{}} : ClearBundles(devices)
    \/ Restart

Spec == Init /\ [][Next]_vars

(* The main thread goes on with a loop it has entered, and the delegate    *)
(* calls the completion block of each request, with an error if need be.   *)
FairSpec == Spec /\ WF_vars(ProcessItem) /\ WF_vars(RequestCallback)

-----------------------------------------------------------------------------
(* The rows and the dictionary agree on every session: a restart neither   *)
(* loses a session nor brings a deleted one back.                          *)
SessionsBacked == \A a \in Address : sessions[a] = RowSession(a)

(***************************************************************************)
(* The session in use was built with the identity that is trusted for its  *)
(* address, in whichever of the two ways either came about.  The one       *)
(* exception: the first identity of an address that this process has seen  *)
(* came with a prekey message that did not open, and no session has been   *)
(* built since.                                                            *)
(***************************************************************************)
TrustMatchesSession ==
    \A a \in Address \ unopened :
        sessions[a] # None /\ trusted[a] # None => sessions[a] = trusted[a]

(* A bundle adds a session where there is none; however late the answer,   *)
(* it never replaces a session that came about in the meantime.            *)
BundleNeverReplaces ==
    [][\A a \in Address :
          adding # NoBundle /\ adding' = NoBundle /\ sessions[a] # None
              => sessions'[a] = sessions[a]]_vars

(***************************************************************************)
(* iZSIdentityStore.isTrusted: "trust on first use": a session is not      *)
(* replaced by one with another identity, short of being deleted first.    *)
(***************************************************************************)
TrustOnFirstUse ==
    [][\A a \in Address :
          sessions[a] # None /\ sessions'[a] # None => sessions'[a] = sessions[a]]_vars

(***************************************************************************)
(* What trust on first use comes to: with the sessions and the identities  *)
(* in memory, every step establishes sessions with trusted identities,     *)
(* deletes sessions, comes to trust an identity where there was none, or   *)
(* forgets all trust and keeps the sessions.                               *)
(***************************************************************************)
Trusting == INSTANCE TrustedSessions WITH session <- sessions, Identity <- Installation

(* Requests, bundles, messages, rows and restarts keep that promise: a      *)
(* session is replaced by one with another identity only when the trust in  *)
(* the first one is gone, and only a restart makes it go.                   *)
KeepsTrust == Trusting!Spec

(* The completion is called for an answer that has bundles. *)
BundlesCompleted == answering ~> ~waiting

=============================================================================
