------------------------------- MODULE PreKeys -------------------------------
(***************************************************************************)
(* The life of the one-time prekeys of one installation: sendPreKeys       *)
(* generates a batch, saves every prekey in the SignalPreKeys table and in *)
(* the iZSPreKeyStore dictionary, and uploads the public halves; a prekey  *)
(* message of a peer consumes one of them; a restart rebuilds the          *)
(* dictionary from the table.                                              *)
(*                                                                         *)
(* A prekey is its id and its key material.  Two generated key pairs are   *)
(* never equal, so the material is represented by the number of the batch  *)
(* that generated it, 1, 2, ...; 0 stands for "no prekey under this id".   *)
(*                                                                         *)
(* Threads matter here.  sendPreKeys runs on whatever thread calls it: the *)
(* application's, or the one the delegate runs its completion blocks on.   *)
(* The saving of a prekey always runs on the main thread: at once when     *)
(* sendPreKeys is on it, as a block of the main queue otherwise.           *)
(*                                                                         *)
(* Core Data fails silently: a save that throws is swallowed, and a count  *)
(* that throws answers 0.  A row whose save failed stays a pending change  *)
(* of the context, which every later fetch and count sees and the next     *)
(* successful save writes out; a process that dies before loses it.  A     *)
(* load that throws answers no prekeys at all, and the dictionary stays    *)
(* empty until the next process.  Left out is the fetch of one row in      *)
(* save(preKey:): when it throws for an id that has a row already, a       *)
(* second row with that id is inserted.                                    *)
(***************************************************************************)
EXTENDS Naturals, FiniteSets, Sequences

CONSTANTS
    Main,          \* the main thread
    Background,    \* the other threads that call sendPreKeys
    BatchSize,     \* prekeys generated by one call (100 in the code)
    MaxPreKeyId,   \* largest prekey id of the signal library (16777214)
    MaxBatches,    \* bound: batches generated in one behaviour
    Faults         \* which calls of Core Data may fail: "save", "count", "load"

Threads == {Main} \cup Background

ASSUME ThreadsAssumption == Main \notin Background
ASSUME SizesAssumption ==
    /\ BatchSize \in Nat \ {0}
    /\ MaxPreKeyId \in Nat \ {0}
    /\ BatchSize <= MaxPreKeyId
    /\ MaxBatches \in Nat
ASSUME FaultsAssumption == Faults \subseteq {"save", "count", "load"}

PreKeyId == 1..MaxPreKeyId
NoKey    == 0
Key      == 1..MaxBatches
PreKey   == [id : PreKeyId, key : Key]

(***************************************************************************)
(* A batch that is being saved or uploaded: its first id, its key material *)
(* and how many of its prekeys have been handed to addPreKey.              *)
(***************************************************************************)
Batch == [start : 1..(MaxPreKeyId + 1), key : 0..MaxBatches, saved : 0..BatchSize]
NoBatch == [start |-> 1, key |-> 0, saved |-> 0]

VARIABLES
    rows,            \* SignalPreKeys in the context: the key under each id
    disk,            \* SignalPreKeys in the file, which a restart reads
    keys,            \* iZSPreKeyStore.keys: the key held in memory per id
    preKeysSending,  \* SecretChatAPIHandler.preKeysSending
    pc,              \* where each thread is in sendPreKeys
    batch,           \* the batch each thread is working on
    mainQueue,       \* prekeys of the addPreKey blocks waiting on the main queue
    generated,       \* batches generated so far
    wire,            \* uploads sent and not (yet) received by the server
    awaiting,        \* keys of the uploads whose completion block may still run
    published,       \* prekeys the server has received
    consumed,        \* published prekeys a peer's message has used up
    ranOut,          \* history: every id has been in use at some time
    lost             \* history: prekeys a process died with, and none has loaded since

store  == <<rows, disk, keys, ranOut, lost>>
local  == <<store, preKeysSending, pc, batch, mainQueue, generated>>
remote == <<wire, awaiting, published, consumed>>
vars   == <<local, remote>>

TypeOK ==
    /\ rows \in [PreKeyId -> 0..MaxBatches]
    /\ disk \in [PreKeyId -> 0..MaxBatches]
    /\ keys \in [PreKeyId -> 0..MaxBatches]
    /\ preKeysSending \in BOOLEAN
    /\ pc \in [Threads -> {"idle", "generate", "save"}]
    /\ batch \in [Threads -> Batch]
    /\ mainQueue \in Seq(PreKey)
    /\ generated \in 0..MaxBatches
    /\ wire \in SUBSET Batch
    /\ awaiting \in SUBSET Key
    /\ published \in SUBSET PreKey
    /\ consumed \in SUBSET published
    /\ ranOut \in BOOLEAN
    /\ lost \in SUBSET PreKey

-----------------------------------------------------------------------------
(* The prekeys that open a message: those of the dictionary. *)
Held == {p \in PreKey : keys[p.id] = p.key}

(* getPreKeysCount: the number of rows of the table. *)
RowCount == Cardinality({i \in PreKeyId : rows[i] # NoKey})

TableFull == RowCount = MaxPreKeyId

(* What getPreKeysCount may answer: 0 when the count throws. *)
Counted == {RowCount} \cup (IF "count" \in Faults THEN {0} ELSE {})

(* Mutant: counts on without going back to 1. *)
IdAtWithoutWrap(start, n) == start + n

(* The library numbers prekeys from a start id and goes back to 1 past the *)
(* largest id.                                                             *)
IdAt(start, n) ==
    IF start + n <= MaxPreKeyId THEN start + n ELSE start + n - MaxPreKeyId

PreKeyAt(b, n) == [id |-> IdAt(b.start, n), key |-> b.key]
PreKeysOf(b)   == {PreKeyAt(b, n) : n \in 0..(BatchSize - 1)}

Init ==
    /\ rows = [i \in PreKeyId |-> NoKey]
    /\ disk = [i \in PreKeyId |-> NoKey]
    /\ keys = [i \in PreKeyId |-> NoKey]
    /\ preKeysSending = FALSE
    /\ pc = [t \in Threads |-> "idle"]
    /\ batch = [t \in Threads |-> NoBatch]
    /\ mainQueue = <<>>
    /\ generated = 0
    /\ wire = {}
    /\ awaiting = {}
    /\ published = {}
    /\ consumed = {}
    /\ ranOut = FALSE
    /\ lost = {}

-----------------------------------------------------------------------------
(* Mutant: does not look whether an upload is running. *)
SendPreKeysAnyway(t) ==
    /\ pc[t] = "idle"
    /\ pc' = [pc EXCEPT ![t] = "generate"]
    /\ UNCHANGED <<store, preKeysSending, batch, mainQueue, generated, remote>>

(***************************************************************************)
(* sendPreKeys, called by the application or for a KEY_SHORTAGE event.  A  *)
(* call that finds an upload running returns at once, which changes        *)
(* nothing.                                                                *)
(***************************************************************************)
SendPreKeys(t) ==
    /\ pc[t] = "idle"
    /\ ~preKeysSending
    /\ pc' = [pc EXCEPT ![t] = "generate"]
    /\ UNCHANGED <<store, preKeysSending, batch, mainQueue, generated, remote>>

(* Mutant: skips an id after the last one in use. *)
GeneratePreKeysWithGap(t) ==
    /\ pc[t] = "generate"
    /\ generated < MaxBatches
    /\ RowCount < MaxPreKeyId
    /\ generated' = generated + 1
    /\ batch' = [batch EXCEPT ![t] =
                    [start |-> RowCount + 2, key |-> generated + 1, saved |-> 0]]
    /\ preKeysSending' = TRUE
    /\ pc' = [pc EXCEPT ![t] = "save"]
    /\ UNCHANGED <<store, mainQueue, remote>>

(***************************************************************************)
(* Helper.generatePreKeys counts the rows and generates BatchSize key      *)
(* pairs from the next id on; only then is the upload marked as running.   *)
(***************************************************************************)
GeneratePreKeys(t) ==
    /\ pc[t] = "generate"
    /\ generated < MaxBatches
    /\ generated' = generated + 1
    /\ \E n \in Counted :
          batch' = [batch EXCEPT ![t] =
                       [start |-> n + 1, key |-> generated + 1, saved |-> 0]]
    /\ preKeysSending' = TRUE
    /\ pc' = [pc EXCEPT ![t] = "save"]
    /\ UNCHANGED <<store, mainQueue, remote>>

(* The library fails and there is nothing to send: the call returns before *)
(* it marks the upload as running.                                         *)
GenerateNothing(t) ==
    /\ pc[t] = "generate"
    /\ pc' = [pc EXCEPT ![t] = "idle"]
    /\ UNCHANGED <<store, preKeysSending, batch, mainQueue, generated, remote>>

(* Mutant: inserts a row and never overwrites one. *)
InsertPreKey(p) ==
    /\ rows' = IF rows[p.id] = NoKey THEN [rows EXCEPT ![p.id] = p.key] ELSE rows
    /\ disk' = rows'
    /\ keys' = [keys EXCEPT ![p.id] = p.key]
    /\ ranOut' = (ranOut \/ TableFull')
    /\ UNCHANGED lost

(***************************************************************************)
(* The block of addPreKey: insert or overwrite the row of this id, save    *)
(* the context with all its pending changes, then put the key into the     *)
(* dictionary, whether the save has succeeded or not.                      *)
(***************************************************************************)
StorePreKey(p) ==
    /\ rows' = [rows EXCEPT ![p.id] = p.key]
    /\ disk' = rows' \/ ("save" \in Faults /\ disk' = disk)
    /\ keys' = [keys EXCEPT ![p.id] = p.key]
    /\ ranOut' = (ranOut \/ TableFull')
    /\ UNCHANGED lost

(* addPreKey on the main thread runs the block at once; elsewhere it       *)
(* queues it.                                                              *)
AddPreKey(t) ==
    /\ pc[t] = "save"
    /\ batch[t].saved < BatchSize
    /\ LET p == PreKeyAt(batch[t], batch[t].saved)
       IN  \/ t = Main /\ StorePreKey(p) /\ UNCHANGED mainQueue
           \/ t # Main /\ mainQueue' = Append(mainQueue, p) /\ UNCHANGED store
    /\ batch' = [batch EXCEPT ![t].saved = @ + 1]
    /\ UNCHANGED <<preKeysSending, pc, generated, remote>>

(* The main thread takes the next block when it is not inside sendPreKeys. *)
RunMainBlock ==
    /\ pc[Main] = "idle"
    /\ mainQueue # <<>>
    /\ StorePreKey(Head(mainQueue))
    /\ mainQueue' = Tail(mainQueue)
    /\ UNCHANGED <<preKeysSending, pc, batch, generated, remote>>

(* Mutant: does not wait for savePreKeys. *)
UploadUnsaved(t) ==
    /\ pc[t] = "save"
    /\ wire' = wire \cup {batch[t]}
    /\ awaiting' = awaiting \cup {batch[t].key}
    /\ pc' = [pc EXCEPT ![t] = "idle"]
    /\ batch' = [batch EXCEPT ![t] = NoBatch]
    /\ UNCHANGED <<store, preKeysSending, mainQueue, generated, published, consumed>>

(* The upload request leaves once savePreKeys has returned. *)
Upload(t) ==
    /\ pc[t] = "save"
    /\ batch[t].saved = BatchSize
    /\ wire' = wire \cup {batch[t]}
    /\ awaiting' = awaiting \cup {batch[t].key}
    /\ pc' = [pc EXCEPT ![t] = "idle"]
    /\ batch' = [batch EXCEPT ![t] = NoBatch]
    /\ UNCHANGED <<store, preKeysSending, mainQueue, generated, published, consumed>>

(* Mutant: only a success ends the upload. *)
UploadSuccessCallback(k) ==
    /\ k \in awaiting
    /\ awaiting' = awaiting \ {k}
    /\ preKeysSending' \in BOOLEAN
    /\ UNCHANGED <<store, pc, batch, mainQueue, generated, wire, published, consumed>>

(***************************************************************************)
(* The completion block of an upload, with a success, a failure or a       *)
(* timeout: all three end the upload and none of them retries.  A request  *)
(* that was reported as failed may still reach the server.                 *)
(***************************************************************************)
UploadCallback(k) ==
    /\ k \in awaiting
    /\ awaiting' = awaiting \ {k}
    /\ preKeysSending' = FALSE
    /\ UNCHANGED <<store, pc, batch, mainQueue, generated, wire, published, consumed>>

(* The server adds the prekeys of an upload to those it hands out to peers. *)
ServerReceive(b) ==
    /\ b \in wire
    /\ wire' = wire \ {b}
    /\ published' = published \cup PreKeysOf(b)
    /\ UNCHANGED <<local, awaiting, consumed>>

(* Mutant: removes a used prekey from the table too. *)
ReceiveAndDeleteRow(p) ==
    /\ p \in published \ consumed
    /\ keys[p.id] = p.key
    /\ keys' = [keys EXCEPT ![p.id] = NoKey]
    /\ rows' = [rows EXCEPT ![p.id] = NoKey]
    /\ disk' = rows'
    /\ consumed' = consumed \cup {p}
    /\ UNCHANGED <<ranOut, lost, preKeysSending, pc, batch, mainQueue, generated,
                   wire, awaiting, published>>

(***************************************************************************)
(* A peer that was given prekey p has its first message decrypted: the     *)
(* library loads the key by its id, and removes it when the message opens. *)
(* iZSPreKeyStore.remove takes it out of the dictionary.                   *)
(***************************************************************************)
ReceivePreKeyMessage(p) ==
    /\ p \in published \ consumed
    /\ keys[p.id] = p.key
    /\ keys' = [keys EXCEPT ![p.id] = NoKey]
    /\ consumed' = consumed \cup {p}
    /\ UNCHANGED <<rows, disk, ranOut, lost, preKeysSending, pc, batch, mainQueue, generated,
                   wire, awaiting, published>>

(***************************************************************************)
(* The process dies and initiate rebuilds the store: what was in memory,   *)
(* on the main queue or in a completion block is gone, the context has     *)
(* what the file has, and the dictionary is loaded from it, or stays empty *)
(* when the load throws.  Requests already sent stay on their way.         *)
(***************************************************************************)
Restart ==
    /\ rows' = disk
    /\ \/ keys' = disk
       \/ "load" \in Faults /\ keys' = [i \in PreKeyId |-> NoKey]
    /\ lost' = (lost \cup Held) \ Held'
    /\ preKeysSending' = FALSE
    /\ pc' = [t \in Threads |-> "idle"]
    /\ batch' = [t \in Threads |-> NoBatch]
    /\ mainQueue' = <<>>
    /\ awaiting' = {}
    /\ UNCHANGED <<disk, ranOut, generated, wire, published, consumed>>

-----------------------------------------------------------------------------
Step(t) == GeneratePreKeys(t) \/ GenerateNothing(t) \/ AddPreKey(t) \/ Upload(t)

Next ==
    \/ \E t \in Threads : SendPreKeys(t) \/ Step(t)
    \/ RunMainBlock
    \/ \E k \in awaiting : UploadCallback(k)
    \/ \E b \in wire : ServerReceive(b)
    \/ \E p \in published : ReceivePreKeyMessage(p)
    \/ Restart

Spec == Init /\ [][Next]_vars

(***************************************************************************)
(* Threads inside sendPreKeys keep running, the main queue is drained, and *)
(* the delegate calls every completion block, with an error if need be, as *)
(* URLSession does.  Nothing makes the server receive an upload, a peer    *)
(* write, the application call sendPreKeys or the process restart.         *)
(***************************************************************************)
Fairness ==
    /\ \A t \in Threads : WF_vars(Step(t))
    /\ WF_vars(RunMainBlock)
    /\ \A k \in Key : WF_vars(UploadCallback(k))

FairSpec == Spec /\ Fairness

-----------------------------------------------------------------------------
Queued(p) == \E n \in 1..Len(mainQueue) : mainQueue[n] = p

(***************************************************************************)
(* The dictionary never holds a key the table has not, and unless a save   *)
(* may fail the file has what the context has: a restart, which rebuilds   *)
(* the one from the other, loses no prekey.                                *)
(***************************************************************************)
MemoryBackedByTable ==
    /\ \A i \in PreKeyId : keys[i] # NoKey => keys[i] = rows[i]
    /\ "save" \notin Faults => disk = rows

(***************************************************************************)
(* The occupied ids are 1, 2, ..., RowCount.  This is what makes           *)
(* "count + 1" of generatePreKeys an id that no live prekey has, and it    *)
(* rests on prekeys never being deleted from the table one by one.         *)
(***************************************************************************)
IdsAreDense ==
    \A i \in PreKeyId : rows[i] # NoKey <=> i <= RowCount

(***************************************************************************)
(* Until the ids run out, every prekey the server can still give to a peer *)
(* opens with the key held under its id, is about to be stored there, or   *)
(* was lost with a process: its save failed and the process died before    *)
(* another one succeeded, or the next process could not load the table and *)
(* still runs.  An id that was lost is given out again, to a prekey that   *)
(* is usable like any other.                                               *)
(***************************************************************************)
PublishedIsUsable ==
    ~ranOut => \A p \in published \ (consumed \cup lost) :
                    keys[p.id] = p.key \/ Queued(p)

(***************************************************************************)
(* README: "RegistrationId, identityKeyPair, prekeys, signedPrekey will be *)
(* stored in local database": an uploaded prekey is in the table, or on    *)
(* its way into it, as long as the ids have not run out.                   *)
(***************************************************************************)
PublishedIsStored ==
    ~ranOut => \A p \in published : disk[p.id] = p.key \/ Queued(p)

(***************************************************************************)
(* preKeysSending tells the truth: it is set exactly while a call is       *)
(* saving its batch or the answer to an upload is awaited, and there is    *)
(* one such upload at most.                                                *)
(***************************************************************************)
SendingIsExact ==
    /\ preKeysSending <=> (awaiting # {} \/ \E t \in Threads : pc[t] = "save")
    /\ Cardinality(awaiting) + Cardinality({t \in Threads : pc[t] = "save"}) <= 1

(***************************************************************************)
(* iZSPreKeyStore.remove: "Delete a PreKey record from local storage": the *)
(* library does not find a prekey again that a message has used up.        *)
(***************************************************************************)
ConsumedIsGone == \A p \in consumed : keys[p.id] # p.key

(***************************************************************************)
(* The promise to the peers: with the prekeys held in the dictionary, and  *)
(* saved in the file, every step is one the ledger allows or leaves the    *)
(* ledger as it is.                                                        *)
(***************************************************************************)
Ledger == INSTANCE PreKeyLedger WITH
    held <- Held,
    saved <- {p \in PreKey : disk[p.id] = p.key},
    opened <- consumed,
    exhausted <- ranOut

(* Prekeys are kept, published, opened and lost as the ledger promises:    *)
(* none is published before it is held, and none that is published is      *)
(* given up for another before the ids run out.                            *)
KeepsLedger == Ledger!Spec

(* An upload that was started ends, so that a later key shortage is served. *)
SendingEnds == preKeysSending ~> ~preKeysSending

=============================================================================
