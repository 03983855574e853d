------------------------- MODULE PreKeyLedgerProofs -------------------------
(***************************************************************************)
(* PreKeys implements PreKeyLedger, for every batch size, id range and     *)
(* number of batches, when every call of sendPreKeys is on the main thread *)
(* and the count never fails.                                              *)
(***************************************************************************)
EXTENDS PreKeysProofs

OnDisk == {p \in PreKey : disk[p.id] = p.key}

(***************************************************************************)
(* What the mapping needs beyond the invariants of PreKeysProofs: the      *)
(* batch that is being saved has not been sent yet; a row whose key is not *)
(* in the dictionary is one of a prekey that was used, or is in the file   *)
(* already; and until the ids run out the file has nothing the context has *)
(* not.                                                                    *)
(***************************************************************************)
KeyIsFresh(k) == k <= generated /\ (pc[Main] = "save" => k # batch[Main].key)

BatchIsFresh ==
    /\ batch[Main].key <= generated
    /\ \A p \in published : KeyIsFresh(p.key)
    /\ \A b \in wire : KeyIsFresh(b.key)

MissingIsUsed ==
    \A p \in PreKey : rows[p.id] = p.key =>
        keys[p.id] = p.key \/ p \in consumed \/ disk[p.id] = p.key

DiskIsBehind ==
    ~ranOut => \A i \in PreKeyId : disk[i] # NoKey => rows[i] = disk[i]

LedgerInv == BatchIsFresh /\ MissingIsUsed /\ DiskIsBehind

AllInv == TypeInv /\ MemoryBackedByTable /\ DenseInv /\ UsableInv /\ LedgerInv

LEMMA LedgerInit == Init => LedgerInv
  <1> SUFFICES ASSUME Init PROVE LedgerInv
    OBVIOUS
  <1>1. batch[Main].key = 0 /\ generated = 0
    BY DEF Init, Threads, NoBatch
  <1>2. BatchIsFresh
    BY <1>1 DEF Init, BatchIsFresh
  <1>3. MissingIsUsed
    BY SizesAssumption DEF Init, MissingIsUsed, PreKey, Key, NoKey
  <1>4. DiskIsBehind
    BY DEF Init, DiskIsBehind
  <1> QED BY <1>2, <1>3, <1>4 DEF LedgerInv

(* Storing the next prekey of the batch. *)
LEMMA LedgerAdd ==
  ASSUME Background = {}, AllInv, AddPreKey(Main)
  PROVE  LedgerInv'
  <1> DEFINE p == PreKeyAt(batch[Main], batch[Main].saved)
  <1>1. Main \in Threads
    BY DEF Threads
  <1>2. p \in PreKey /\ batch'[Main].key = batch[Main].key
    BY <1>1, SavingType DEF AllInv
  <1>3. /\ StorePreKey(p) /\ pc' = pc /\ generated' = generated
        /\ published' = published /\ wire' = wire /\ consumed' = consumed
    BY DEF AddPreKey, remote
  <1>4. /\ rows' = [rows EXCEPT ![p.id] = p.key]
        /\ keys' = [keys EXCEPT ![p.id] = p.key]
        /\ disk' = rows' \/ disk' = disk
        /\ ranOut => ranOut'
    BY <1>3 DEF StorePreKey
  <1>5. /\ rows \in [PreKeyId -> 0..MaxBatches]
        /\ keys \in [PreKeyId -> 0..MaxBatches]
        /\ p.id \in PreKeyId
    BY <1>2 DEF AllInv, TypeInv, TypeOK, PreKey
  <1>6. BatchIsFresh'
    BY <1>2, <1>3 DEF AllInv, LedgerInv, BatchIsFresh, KeyIsFresh
  <1>7. MissingIsUsed'
    <2> SUFFICES ASSUME NEW q \in PreKey, rows'[q.id] = q.key
                 PROVE  keys'[q.id] = q.key \/ q \in consumed \/ disk'[q.id] = q.key
      BY <1>3 DEF MissingIsUsed
    <2>1. q.id \in PreKeyId
      BY DEF PreKey
    <2>2. CASE q.id = p.id
      BY <2>2, <1>4, <1>5
    <2>3. CASE q.id # p.id /\ disk' = disk
      <3>1. rows'[q.id] = rows[q.id] /\ keys'[q.id] = keys[q.id]
        BY <2>1, <2>3, <1>4, <1>5
      <3> QED BY <3>1, <2>3 DEF AllInv, LedgerInv, MissingIsUsed
    <2>4. CASE disk' = rows'
      BY <2>4
    <2> QED BY <2>2, <2>3, <2>4, <1>4
  <1>8. DiskIsBehind'
    <2> SUFFICES ASSUME ~ranOut', NEW i \in PreKeyId, disk'[i] # NoKey
                 PROVE  rows'[i] = disk'[i]
      BY DEF DiskIsBehind
    <2>1. CASE disk' = rows'
      BY <2>1
    <2>2. CASE disk' = disk
      <3>1. ~ranOut
        BY <1>4
      <3>2. rows[i] = disk[i]
        BY <3>1, <2>2 DEF AllInv, LedgerInv, DiskIsBehind
      <3>3. rows[p.id] = NoKey
        BY <3>1, NextRow DEF AllInv
      <3>4. i # p.id
        BY <3>2, <3>3, <2>2
      <3> QED BY <3>2, <3>4, <2>2, <1>4, <1>5
    <2> QED BY <2>1, <2>2, <1>4
  <1> QED BY <1>6, <1>7, <1>8 DEF LedgerInv

LEMMA LedgerInvStep ==
  ASSUME Background = {}
  PROVE  AllInv /\ [Next]_vars => LedgerInv'
  <1> SUFFICES ASSUME AllInv, [Next]_vars PROVE LedgerInv'
    OBVIOUS
  <1>1. Threads = {Main}
    BY DEF Threads
  <1>2. /\ pc \in [{Main} -> {"idle", "generate", "save"}]
        /\ batch \in [{Main} -> Batch]
        /\ generated \in Nat
        /\ published \subseteq PreKey
        /\ wire \subseteq Batch
    BY <1>1, SizesAssumption DEF AllInv, TypeInv, TypeOK
  <1>3. /\ \A p \in published : p.key \in Nat
        /\ \A b \in wire : b.key \in Nat
        /\ batch[Main].key \in Nat
    BY <1>2, SizesAssumption DEF PreKey, Key, Batch
  <1>4. BatchIsFresh /\ MissingIsUsed /\ DiskIsBehind
    BY DEF AllInv, LedgerInv
  (* Steps that leave both stores and what was used alone. *)
  <1>5. ASSUME UNCHANGED store, consumed' = consumed, BatchIsFresh' PROVE LedgerInv'
    BY <1>4, <1>5 DEF LedgerInv, MissingIsUsed, DiskIsBehind, store
  <1>6. CASE AddPreKey(Main)
    BY <1>6, LedgerAdd
  <1>7. CASE GeneratePreKeys(Main)
    <2>1. /\ batch'[Main].key = generated + 1 /\ generated' = generated + 1
          /\ published' = published /\ wire' = wire
      BY <1>2, <1>7 DEF GeneratePreKeys, remote
    <2>2. BatchIsFresh'
      BY <2>1, <1>2, <1>3, <1>4 DEF BatchIsFresh, KeyIsFresh
    <2> QED BY <2>2, <1>5, <1>7 DEF GeneratePreKeys, remote
  <1>8. CASE SendPreKeys(Main) \/ GenerateNothing(Main)
    <2>1. /\ batch' = batch /\ generated' = generated /\ pc'[Main] # "save"
          /\ published' = published /\ wire' = wire
      BY <1>2, <1>8 DEF SendPreKeys, GenerateNothing, remote
    <2>2. BatchIsFresh'
      BY <2>1, <1>4 DEF BatchIsFresh, KeyIsFresh
    <2> QED BY <2>2, <1>5, <1>8 DEF SendPreKeys, GenerateNothing, remote
  <1>9. CASE Upload(Main)
    <2>1. /\ batch'[Main].key = 0 /\ generated' = generated /\ pc'[Main] = "idle"
          /\ published' = published /\ wire' = wire \cup {batch[Main]}
      BY <1>2, <1>9 DEF Upload, NoBatch
    <2>2. BatchIsFresh'
      BY <2>1, <1>2, <1>4 DEF BatchIsFresh, KeyIsFresh
    <2> QED BY <2>2, <1>5, <1>9 DEF Upload
  <1>10. CASE RunMainBlock
    BY <1>10 DEF RunMainBlock, AllInv, UsableInv
  <1>11. ASSUME NEW k \in awaiting, UploadCallback(k) PROVE LedgerInv'
    <2>1. BatchIsFresh'
      BY <1>4, <1>11 DEF UploadCallback, BatchIsFresh, KeyIsFresh
    <2> QED BY <2>1, <1>5, <1>11 DEF UploadCallback
  <1>12. ASSUME NEW b \in wire, ServerReceive(b) PROVE LedgerInv'
    <2>1. \A p \in PreKeysOf(b) : p.key = b.key
      BY DEF PreKeysOf, PreKeyAt
    <2>2. BatchIsFresh'
      BY <2>1, <1>4, <1>12 DEF ServerReceive, local, BatchIsFresh, KeyIsFresh
    <2> QED BY <2>2, <1>5, <1>12 DEF ServerReceive, local
  <1>13. ASSUME NEW p \in published, ReceivePreKeyMessage(p) PROVE LedgerInv'
    <2>1. /\ rows' = rows /\ disk' = disk /\ ranOut' = ranOut
          /\ keys[p.id] = p.key /\ keys' = [keys EXCEPT ![p.id] = NoKey]
          /\ consumed' = consumed \cup {p}
      BY <1>13 DEF ReceivePreKeyMessage
    <2>2. BatchIsFresh'
      BY <1>4, <1>13 DEF ReceivePreKeyMessage, BatchIsFresh, KeyIsFresh
    <2>3. DiskIsBehind'
      BY <2>1, <1>4 DEF DiskIsBehind
    <2>4. MissingIsUsed'
      <3> SUFFICES ASSUME NEW q \in PreKey, rows[q.id] = q.key
                   PROVE  keys'[q.id] = q.key \/ q \in consumed' \/ disk[q.id] = q.key
        BY <2>1 DEF MissingIsUsed
      <3>1. keys[q.id] = q.key \/ q \in consumed \/ disk[q.id] = q.key
        BY <1>4 DEF MissingIsUsed
      <3>2. p \in PreKey /\ p.id \in PreKeyId /\ q.id \in PreKeyId
        BY <1>2 DEF PreKey
      <3>3. CASE q.id = p.id
        BY <3>1, <3>2, <3>3, <2>1, PreKeyEqual
      <3>4. CASE q.id # p.id
        BY <3>1, <3>2, <3>4, <2>1 DEF AllInv, TypeInv, TypeOK
      <3> QED BY <3>3, <3>4
    <2> QED BY <2>2, <2>3, <2>4 DEF LedgerInv
  <1>14. CASE Restart
    <2>1. /\ rows' = disk /\ disk' = disk
          /\ batch'[Main].key = 0 /\ pc'[Main] = "idle"
          /\ generated' = generated /\ published' = published /\ wire' = wire
      BY <1>1, <1>14 DEF Restart, NoBatch
    <2>2. BatchIsFresh'
      BY <2>1, <1>2, <1>4 DEF BatchIsFresh, KeyIsFresh
    <2>3. MissingIsUsed' /\ DiskIsBehind'
      BY <2>1 DEF MissingIsUsed, DiskIsBehind
    <2> QED BY <2>2, <2>3 DEF LedgerInv
  <1>15. CASE UNCHANGED vars
    <2>1. BatchIsFresh'
      BY <1>4, <1>15 DEF vars, local, remote, BatchIsFresh, KeyIsFresh
    <2> QED BY <2>1, <1>5, <1>15 DEF vars, local, remote
  <1> QED
    BY <1>1, <1>6, <1>7, <1>8, <1>9, <1>10, <1>11, <1>12, <1>13, <1>14, <1>15
    DEF Next, Step

-----------------------------------------------------------------------------
(* Saving a prekey is the ledger's Keep, whether the save fails or not. *)
LEMMA AddKeeps ==
  ASSUME Background = {}, AllInv, MemoryBackedByTable', LedgerInv', AddPreKey(Main)
  PROVE  Ledger!Next
  <1> DEFINE p == PreKeyAt(batch[Main], batch[Main].saved)
  <1>1. Main \in Threads
    BY DEF Threads
  <1>2. p \in PreKey /\ p.key = batch[Main].key /\ p.id \in PreKeyId
    BY <1>1, SavingType DEF AllInv, PreKeyAt, PreKey
  <1>3. /\ StorePreKey(p) /\ pc[Main] = "save"
        /\ published' = published /\ consumed' = consumed
    BY DEF AddPreKey, remote
  <1>4. /\ rows' = [rows EXCEPT ![p.id] = p.key]
        /\ keys' = [keys EXCEPT ![p.id] = p.key]
        /\ disk' = rows' \/ disk' = disk
        /\ ranOut => ranOut'
        /\ lost' = lost
    BY <1>3 DEF StorePreKey
  <1>5. /\ rows \in [PreKeyId -> 0..MaxBatches]
        /\ keys \in [PreKeyId -> 0..MaxBatches]
    BY DEF AllInv, TypeInv, TypeOK
  <1>6. \A q \in PreKey : q.id \in PreKeyId /\ q.key # NoKey
    BY SizesAssumption DEF PreKey, Key, NoKey
  <1>7. \A i \in PreKeyId : keys'[i] # NoKey => keys'[i] = rows'[i]
    BY DEF MemoryBackedByTable
  <1>8. p \notin published
    BY <1>2, <1>3 DEF AllInv, LedgerInv, BatchIsFresh, KeyIsFresh
  <1>9. p \in Held'
    BY <1>2, <1>4, <1>5 DEF Held
  <1>10. Held' \subseteq Held \cup {p}
    <2> SUFFICES ASSUME NEW q \in PreKey, keys'[q.id] = q.key, q # p
                 PROVE  keys[q.id] = q.key
      BY DEF Held
    <2>1. q.id # p.id
      BY <1>2, <1>4, <1>5, PreKeyEqual
    <2> QED BY <2>1, <1>4, <1>5, <1>6
  <1>11. ranOut \/ rows[p.id] = NoKey
    BY NextRow DEF AllInv
  <1>12. Held \subseteq Held' \/ ranOut
    <2> SUFFICES ASSUME ~ranOut, NEW q \in PreKey, keys[q.id] = q.key
                 PROVE  keys'[q.id] = q.key
      BY DEF Held
    <2>1. rows[q.id] = q.key /\ q.key # NoKey
      BY <1>6 DEF AllInv, MemoryBackedByTable
    <2>2. q.id # p.id
      BY <2>1, <1>11
    <2> QED BY <2>2, <1>4, <1>5, <1>6
  <1>13. \/ OnDisk' = OnDisk
         \/ Held' \subseteq OnDisk' /\ OnDisk' \subseteq OnDisk \cup Held' \cup consumed
    <2>1. CASE disk' = disk
      BY <2>1 DEF OnDisk
    <2>2. CASE disk' = rows'
      <3>1. Held' \subseteq OnDisk'
        BY <2>2, <1>6, <1>7 DEF Held, OnDisk
      <3>2. OnDisk' \subseteq OnDisk \cup Held' \cup consumed
        <4> SUFFICES ASSUME NEW q \in PreKey, rows'[q.id] = q.key
                     PROVE  keys'[q.id] = q.key \/ q \in consumed \/ disk[q.id] = q.key
          BY <2>2 DEF OnDisk, Held
        <4>1. CASE q.id = p.id
          BY <4>1, <1>2, <1>4, <1>5
        <4>2. CASE q.id # p.id
          <5>1. rows[q.id] = q.key /\ keys'[q.id] = keys[q.id]
            BY <4>2, <1>4, <1>5, <1>6
          <5> QED BY <5>1 DEF AllInv, LedgerInv, MissingIsUsed
        <4> QED BY <4>1, <4>2
      <3> QED BY <3>1, <3>2
    <2> QED BY <2>1, <2>2, <1>4
  <1>14. OnDisk \subseteq OnDisk' \/ ranOut
    <2>1. CASE disk' = disk
      BY <2>1 DEF OnDisk
    <2>2. CASE disk' = rows'
      <3> SUFFICES ASSUME ~ranOut, NEW q \in PreKey, disk[q.id] = q.key
                   PROVE  rows'[q.id] = q.key
        BY <2>2 DEF OnDisk
      <3>1. rows[q.id] = q.key /\ q.key # NoKey
        BY <1>6 DEF AllInv, LedgerInv, DiskIsBehind
      <3>2. q.id # p.id
        BY <3>1, <1>11
      <3> QED BY <3>1, <3>2, <1>4, <1>5, <1>6
    <2> QED BY <2>1, <2>2, <1>4
  <1>15. PICK q \in PreKey : q = p
    BY <1>2
  <1>16. q \notin published /\ q \in Held' /\ Held' \subseteq Held \cup {q}
    BY <1>8, <1>9, <1>10, <1>15
  <1> HIDE DEF p
  <1>17. Ledger!Keep(q)
    BY <1>3, <1>4, <1>12, <1>13, <1>14, <1>16 DEF Ledger!Keep, Held, OnDisk
  <1> QED BY <1>17 DEF Ledger!Next

(* A step that touches neither the dictionary nor the file nor the server. *)
LEMMA Stutter ==
  ASSUME UNCHANGED <<disk, keys, ranOut, lost, published, consumed>>
  PROVE  UNCHANGED Ledger!vars
  BY DEF Ledger!vars, Held

LEMMA LedgerStep ==
  ASSUME Background = {}
  PROVE  AllInv /\ MemoryBackedByTable' /\ LedgerInv' /\ [Next]_vars
            => [Ledger!Next]_(Ledger!vars)
  <1> SUFFICES ASSUME AllInv, MemoryBackedByTable', LedgerInv', [Next]_vars
               PROVE  Ledger!Next \/ UNCHANGED Ledger!vars
    BY DEF Ledger!vars
  <1>1. Threads = {Main}
    BY DEF Threads
  <1>2. CASE AddPreKey(Main)
    BY <1>2, AddKeeps
  <1>3. CASE \/ SendPreKeys(Main) \/ GeneratePreKeys(Main)
             \/ GenerateNothing(Main) \/ Upload(Main)
    BY <1>3, Stutter
    DEF SendPreKeys, GeneratePreKeys, GenerateNothing, Upload, store, remote
  <1>4. CASE RunMainBlock
    BY <1>4 DEF RunMainBlock, AllInv, UsableInv
  <1>5. ASSUME NEW k \in awaiting, UploadCallback(k) PROVE UNCHANGED Ledger!vars
    BY <1>5, Stutter DEF UploadCallback, store
  <1>6. ASSUME NEW b \in wire, ServerReceive(b) PROVE Ledger!Next
    <2>1. /\ published' = published \cup PreKeysOf(b)
          /\ UNCHANGED <<disk, keys, ranOut, lost, consumed>>
      BY <1>6 DEF ServerReceive, local, store
    <2>2. PreKeysOf(b) \subseteq Issued
      BY DEF Issued
    <2>3. Issued \subseteq PreKey
      BY IssuedType DEF AllInv, UsableInv
    <2>4. ranOut \/ Issued \subseteq Held \cup consumed \cup lost
      BY <2>3 DEF AllInv, UsableInv, IssuedIsHeld, Held
    <2>5. published \subseteq PreKey
      BY DEF AllInv, TypeInv, TypeOK
    <2>6. Ledger!Publish
      BY <2>1, <2>2, <2>3, <2>4, <2>5 DEF Ledger!Publish, Held
    <2> QED BY <2>6 DEF Ledger!Next
  <1>7. ASSUME NEW p \in published, ReceivePreKeyMessage(p) PROVE Ledger!Next
    <2>1. /\ p \in published \ consumed /\ keys[p.id] = p.key
          /\ keys' = [keys EXCEPT ![p.id] = NoKey]
          /\ consumed' = consumed \cup {p}
          /\ UNCHANGED <<disk, ranOut, lost, published>>
      BY <1>7 DEF ReceivePreKeyMessage
    <2>2. p \in PreKey /\ keys \in [PreKeyId -> 0..MaxBatches]
      BY DEF AllInv, TypeInv, TypeOK
    <2>3. \A q \in PreKey : q.id \in PreKeyId /\ q.key # NoKey
      BY SizesAssumption DEF PreKey, Key, NoKey
    <2>4. Held' = Held \ {p}
      <3> SUFFICES ASSUME NEW q \in PreKey
                   PROVE  keys'[q.id] = q.key <=> keys[q.id] = q.key /\ q # p
        BY DEF Held
      <3>1. CASE q.id = p.id
        BY <3>1, <2>1, <2>2, <2>3, PreKeyEqual
      <3>2. CASE q.id # p.id
        BY <3>2, <2>1, <2>2, <2>3
      <3> QED BY <3>1, <3>2
    <2>5. Ledger!Open(p)
      BY <2>1, <2>2, <2>4 DEF Ledger!Open, Held
    <2> QED BY <2>2, <2>5 DEF Ledger!Next
  <1>8. CASE Restart
    <2>1. /\ keys' = disk \/ keys' = [i \in PreKeyId |-> NoKey]
          /\ lost' = (lost \cup Held) \ Held'
          /\ UNCHANGED <<disk, ranOut, published, consumed>>
      BY <1>8 DEF Restart
    <2>2. Held' = OnDisk \/ Held' = {}
      <3>1. \A q \in PreKey : q.id \in PreKeyId /\ q.key # NoKey
        BY SizesAssumption DEF PreKey, Key, NoKey
      <3> QED BY <2>1, <3>1 DEF Held, OnDisk
    <2>3. Ledger!Die
      BY <2>1, <2>2 DEF Ledger!Die, OnDisk
    <2> QED BY <2>3 DEF Ledger!Next
  <1>9. CASE UNCHANGED vars
    BY <1>9, Stutter DEF vars, local, remote, store
  <1> QED
    BY <1>1, <1>2, <1>3, <1>4, <1>5, <1>6, <1>7, <1>8, <1>9 DEF Next, Step

(***************************************************************************)
(* With all calls on the main thread and a count that never fails, the     *)
(* table, the dictionary, the batches and the uploads keep the promise to  *)
(* the peers: a prekey is held before it is published, and held until it   *)
(* is opened, until the ids run out or a process dies before it is saved.  *)
(***************************************************************************)
THEOREM ImplementsLedger ==
  ASSUME Background = {}, "count" \notin Faults
  PROVE  Spec => KeepsLedger
  <1>1. Init => Ledger!Init
    <2> SUFFICES ASSUME Init PROVE Ledger!Init
      OBVIOUS
    <2>1. \A p \in PreKey : keys[p.id] # p.key /\ disk[p.id] # p.key
      BY SizesAssumption DEF Init, PreKey, Key, NoKey
    <2> QED BY <2>1 DEF Init, Ledger!Init, Held
  <1>2. Init => MemoryBackedByTable
    BY DEF Init, MemoryBackedByTable
  <1>3. Init => AllInv
    BY <1>2, TypeInit, DenseInit, UsableInit, LedgerInit DEF AllInv
  <1>4. AllInv /\ [Next]_vars => AllInv'
    BY TypeStep, BackedStep, DenseStep, UsableStep, LedgerInvStep DEF AllInv
  <1>5. AllInv /\ AllInv' /\ [Next]_vars => [Ledger!Next]_(Ledger!vars)
    BY LedgerStep DEF AllInv
  <1> QED BY <1>1, <1>3, <1>4, <1>5, PTL DEF Spec, KeepsLedger, Ledger!Spec

-----------------------------------------------------------------------------
(***************************************************************************)
(* The ledger says enough: whatever keeps it, by tables and batches like   *)
(* this code or otherwise, keeps the promise to the peers.                 *)
(***************************************************************************)
LEMMA PromiseStep == Ledger!Promise /\ [Ledger!Next]_(Ledger!vars) => Ledger!Promise'
  <1> SUFFICES ASSUME Ledger!Promise, [Ledger!Next]_(Ledger!vars) PROVE Ledger!Promise'
    OBVIOUS
  <1>1. ASSUME NEW p \in PreKey, Ledger!Keep(p) PROVE Ledger!Promise'
    BY <1>1 DEF Ledger!Keep, Ledger!Promise
  <1>2. ASSUME NEW p \in PreKey, Ledger!Open(p) PROVE Ledger!Promise'
    BY <1>2 DEF Ledger!Open, Ledger!Promise
  <1>3. CASE Ledger!Publish
    BY <1>3 DEF Ledger!Publish, Ledger!Promise
  <1>4. CASE Ledger!Die
    BY <1>4 DEF Ledger!Die, Ledger!Promise
  <1>5. CASE UNCHANGED Ledger!vars
    BY <1>5 DEF Ledger!vars, Ledger!Promise
  <1> QED BY <1>1, <1>2, <1>3, <1>4, <1>5 DEF Ledger!Next

(* A store of prekeys that does what the ledger allows has every prekey    *)
(* that the server can give to a peer, until the ids run out, unless it    *)
(* was lost with a process: what PublishedIsUsable says follows from the   *)
(* ledger alone.                                                           *)
THEOREM LedgerIsEnough == KeepsLedger => []PublishedIsUsable
  <1>1. Ledger!Init => Ledger!Promise
    BY DEF Ledger!Init, Ledger!Promise
  <1>2. Ledger!Promise => PublishedIsUsable
    BY DEF Ledger!Promise, PublishedIsUsable, Held
  <1> QED BY <1>1, <1>2, PromiseStep, PTL DEF KeepsLedger, Ledger!Spec

=============================================================================
