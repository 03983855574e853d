---------------------------- MODULE PreKeysProofs ----------------------------
(***************************************************************************)
(* Theorems about PreKeys, for every set of threads, batch size, id range  *)
(* and number of batches.                                                  *)
(***************************************************************************)
EXTENDS PreKeys, TLAPS, FiniteSetTheorems, SequenceTheorems

(* A batch that is being saved or is on its way has key material. *)
KeysGiven ==
    /\ \A t \in Threads : pc[t] = "save" => batch[t].key \in Key
    /\ \A b \in wire : b.key \in Key

TypeInv == TypeOK /\ KeysGiven

-----------------------------------------------------------------------------
(* Helpers of the model. *)

(* getPreKeysCount is a number of ids. *)
LEMMA CountType ==
  ASSUME NEW r
  PROVE  Cardinality({i \in PreKeyId : r[i] # NoKey}) \in 0..MaxPreKeyId
  <1> DEFINE S == {i \in PreKeyId : r[i] # NoKey}
  <1>1. IsFiniteSet(1..MaxPreKeyId) /\ Cardinality(1..MaxPreKeyId) = MaxPreKeyId
    BY FS_Interval, SizesAssumption
  <1>2. S \in SUBSET (1..MaxPreKeyId)
    BY DEF PreKeyId
  <1>3. IsFiniteSet(S) /\ Cardinality(S) <= MaxPreKeyId
    BY <1>1, <1>2, FS_Subset, Zenon
  <1>4. Cardinality(S) \in Nat
    BY <1>3, FS_CardinalityType
  <1> QED BY <1>3, <1>4, SizesAssumption

LEMMA RowCountType == RowCount \in 0..MaxPreKeyId
  BY CountType DEF RowCount

LEMMA CountedType == \A n \in Counted : n \in 0..MaxPreKeyId /\ n <= RowCount
  BY RowCountType, SizesAssumption DEF Counted

(* The ids the library gives are ids, wherever the count stands. *)
LEMMA IdAtType ==
  ASSUME NEW start \in 1..(MaxPreKeyId + 1), NEW n \in 0..(BatchSize - 1)
  PROVE  IdAt(start, n) \in PreKeyId
  BY SizesAssumption DEF IdAt, PreKeyId

LEMMA PreKeyAtType ==
  ASSUME NEW b \in Batch, b.key \in Key, NEW n \in 0..(BatchSize - 1)
  PROVE  PreKeyAt(b, n) \in PreKey
  <1>1. b.start \in 1..(MaxPreKeyId + 1)
    BY DEF Batch
  <1>2. IdAt(b.start, n) \in PreKeyId
    BY <1>1, IdAtType
  <1> QED BY <1>2 DEF PreKeyAt, PreKey

LEMMA PreKeysOfType ==
  ASSUME NEW b \in Batch, b.key \in Key
  PROVE  PreKeysOf(b) \subseteq PreKey
  BY PreKeyAtType DEF PreKeysOf

LEMMA NoBatchType == NoBatch \in Batch
  BY SizesAssumption DEF NoBatch, Batch

(* The block of addPreKey keeps both stores well typed. *)
LEMMA StoreType ==
  ASSUME TypeOK, NEW p \in PreKey, StorePreKey(p)
  PROVE  /\ rows' \in [PreKeyId -> 0..MaxBatches]
         /\ disk' \in [PreKeyId -> 0..MaxBatches]
         /\ keys' \in [PreKeyId -> 0..MaxBatches]
         /\ ranOut' \in BOOLEAN
         /\ lost' \in SUBSET PreKey
  <1>1. p.id \in PreKeyId /\ p.key \in 0..MaxBatches
    BY SizesAssumption DEF PreKey, Key
  <1>2. /\ rows' \in [PreKeyId -> 0..MaxBatches]
        /\ keys' \in [PreKeyId -> 0..MaxBatches]
        /\ lost' \in SUBSET PreKey
    BY <1>1 DEF TypeOK, StorePreKey
  <1>3. disk' \in [PreKeyId -> 0..MaxBatches]
    BY <1>2 DEF TypeOK, StorePreKey
  <1>4. ranOut' \in BOOLEAN
    <2>1. ranOut' = (ranOut \/ TableFull')
      BY DEF StorePreKey
    <2> QED BY <2>1 DEF TypeOK
  <1> QED BY <1>2, <1>3, <1>4

-----------------------------------------------------------------------------
(* Types. *)

LEMMA TypeInit == Init => TypeInv
  <1> SUFFICES ASSUME Init PROVE TypeInv
    OBVIOUS
  <1>1. <<>> \in Seq(PreKey)
    BY EmptySeq
  <1>2. NoBatch \in Batch
    BY NoBatchType
  <1>3. TypeOK
    <2>1. 0 \in 0..MaxBatches
      BY SizesAssumption
    <2>2. /\ rows \in [PreKeyId -> 0..MaxBatches]
          /\ disk \in [PreKeyId -> 0..MaxBatches]
          /\ keys \in [PreKeyId -> 0..MaxBatches]
          /\ generated \in 0..MaxBatches
      BY <2>1 DEF Init, NoKey
    <2>3. /\ preKeysSending \in BOOLEAN
          /\ pc \in [Threads -> {"idle", "generate", "save"}]
          /\ batch \in [Threads -> Batch]
          /\ mainQueue \in Seq(PreKey)
      BY <1>1, <1>2 DEF Init
    <2>4. /\ wire \in SUBSET Batch
          /\ awaiting \in SUBSET Key
          /\ published \in SUBSET PreKey
          /\ consumed \in SUBSET published
          /\ ranOut \in BOOLEAN /\ lost \in SUBSET PreKey
      BY DEF Init
    <2> QED BY <2>2, <2>3, <2>4 DEF TypeOK
  <1>4. KeysGiven
    BY DEF Init, KeysGiven
  <1> QED BY <1>3, <1>4 DEF TypeInv

LEMMA TypeStep == TypeInv /\ [Next]_vars => TypeInv'
  <1> SUFFICES ASSUME TypeInv, [Next]_vars PROVE TypeInv'
    OBVIOUS
  <1> USE SizesAssumption DEF TypeInv
  <1>1. ASSUME NEW t \in Threads, SendPreKeys(t) PROVE TypeInv'
    BY <1>1 DEF SendPreKeys, TypeOK, KeysGiven, remote, store
  <1>2. ASSUME NEW t \in Threads, GeneratePreKeys(t) PROVE TypeInv'
    <2>0. PICK n \in Counted : batch' = [batch EXCEPT ![t] =
                        [start |-> n + 1, key |-> generated + 1, saved |-> 0]]
      BY <1>2 DEF GeneratePreKeys
    <2> DEFINE b == [start |-> n + 1, key |-> generated + 1, saved |-> 0]
    <2>1. generated \in Nat /\ generated + 1 \in Key
      BY <1>2 DEF GeneratePreKeys, TypeOK, Key
    <2>2. b \in Batch /\ b.key \in Key
      BY <2>1, CountedType DEF Batch, Key
    <2>3. TypeOK'
      BY <1>2, <2>0, <2>1, <2>2 DEF GeneratePreKeys, TypeOK, remote, store, Key
    <2>4. KeysGiven'
      BY <1>2, <2>0, <2>2 DEF GeneratePreKeys, TypeOK, KeysGiven, remote, store
    <2> QED BY <2>3, <2>4
  <1>3. ASSUME NEW t \in Threads, GenerateNothing(t) PROVE TypeInv'
    BY <1>3 DEF GenerateNothing, TypeOK, KeysGiven, remote, store
  <1>4. ASSUME NEW t \in Threads, AddPreKey(t) PROVE TypeInv'
    <2> DEFINE p == PreKeyAt(batch[t], batch[t].saved)
    <2>1. batch[t] \in Batch /\ batch[t].key \in Key /\ batch[t].saved \in 0..(BatchSize - 1)
      BY <1>4 DEF AddPreKey, TypeOK, KeysGiven, Batch
    <2>2. p \in PreKey
      BY <2>1, PreKeyAtType
    <2>3. /\ rows' \in [PreKeyId -> 0..MaxBatches]
          /\ disk' \in [PreKeyId -> 0..MaxBatches]
          /\ keys' \in [PreKeyId -> 0..MaxBatches]
          /\ ranOut' \in BOOLEAN
          /\ lost' \in SUBSET PreKey
      <3>1. CASE StorePreKey(p)
        BY <3>1, <2>2, StoreType
      <3>2. CASE UNCHANGED store
        BY <3>2 DEF TypeOK, store
      <3> QED BY <3>1, <3>2, <1>4 DEF AddPreKey
    <2>4. mainQueue' \in Seq(PreKey)
      <3>1. Append(mainQueue, p) \in Seq(PreKey)
        BY <2>2, AppendProperties DEF TypeOK
      <3> QED BY <3>1, <1>4 DEF AddPreKey, TypeOK
    <2>5. batch' = [batch EXCEPT ![t].saved = @ + 1]
      BY <1>4 DEF AddPreKey
    <2>6. batch' \in [Threads -> Batch]
      <3> DEFINE nb == [batch[t] EXCEPT !.saved = @ + 1]
      <3>1. nb \in Batch
        BY <2>1 DEF Batch
      <3>2. batch' = [batch EXCEPT ![t] = nb]
        BY <2>5
      <3> QED BY <3>1, <3>2 DEF TypeOK
    <2>7. TypeOK'
      BY <1>4, <2>3, <2>4, <2>6 DEF AddPreKey, TypeOK, remote, store
    <2>8. \A u \in Threads : batch'[u].key = batch[u].key
      BY <2>5 DEF TypeOK, Batch
    <2>9. KeysGiven'
      BY <1>4, <2>8 DEF AddPreKey, KeysGiven, remote, store
    <2> QED BY <2>7, <2>9
  <1>5. ASSUME RunMainBlock PROVE TypeInv'
    <2>1. Head(mainQueue) \in PreKey /\ Tail(mainQueue) \in Seq(PreKey)
      BY <1>5, HeadTailProperties DEF RunMainBlock, TypeOK
    <2>2. /\ rows' \in [PreKeyId -> 0..MaxBatches]
          /\ disk' \in [PreKeyId -> 0..MaxBatches]
          /\ keys' \in [PreKeyId -> 0..MaxBatches]
          /\ ranOut' \in BOOLEAN
          /\ lost' \in SUBSET PreKey
      BY <1>5, <2>1, StoreType DEF RunMainBlock
    <2>3. TypeOK'
      BY <1>5, <2>1, <2>2 DEF RunMainBlock, TypeOK, remote, store
    <2>4. KeysGiven'
      BY <1>5 DEF RunMainBlock, KeysGiven, remote, store
    <2> QED BY <2>3, <2>4
  <1>6. ASSUME NEW t \in Threads, Upload(t) PROVE TypeInv'
    <2>1. batch[t] \in Batch /\ batch[t].key \in Key
      BY <1>6 DEF Upload, TypeOK, KeysGiven
    <2>2. TypeOK'
      BY <1>6, <2>1, NoBatchType DEF Upload, TypeOK, store
    <2>3. KeysGiven'
      BY <1>6, <2>1 DEF Upload, TypeOK, KeysGiven, store
    <2> QED BY <2>2, <2>3
  <1>7. ASSUME NEW k \in awaiting, UploadCallback(k) PROVE TypeInv'
    BY <1>7 DEF UploadCallback, TypeOK, KeysGiven, store
  <1>8. ASSUME NEW b \in wire, ServerReceive(b) PROVE TypeInv'
    <2>1. PreKeysOf(b) \subseteq PreKey
      BY PreKeysOfType DEF TypeOK, KeysGiven
    <2>2. TypeOK'
      BY <1>8, <2>1 DEF ServerReceive, TypeOK, local, store
    <2>3. KeysGiven'
      BY <1>8 DEF ServerReceive, KeysGiven, local, store
    <2> QED BY <2>2, <2>3
  <1>9. ASSUME NEW p \in published, ReceivePreKeyMessage(p) PROVE TypeInv'
    <2>1. p.id \in PreKeyId
      BY DEF TypeOK, PreKey
    <2>2. TypeOK'
      BY <1>9, <2>1 DEF ReceivePreKeyMessage, TypeOK, NoKey
    <2>3. KeysGiven'
      BY <1>9 DEF ReceivePreKeyMessage, KeysGiven
    <2> QED BY <2>2, <2>3
  <1>10. ASSUME Restart PROVE TypeInv'
    <2>1. <<>> \in Seq(PreKey)
      BY EmptySeq
    <2>4. Held' \subseteq PreKey /\ Held \subseteq PreKey
      BY DEF Held
    <2>5. keys' \in [PreKeyId -> 0..MaxBatches]
      BY <1>10, SizesAssumption DEF Restart, TypeOK, NoKey
    <2>6. lost' \in SUBSET PreKey
      BY <1>10, <2>4 DEF Restart, TypeOK
    <2>2. TypeOK'
      BY <1>10, <2>1, <2>5, <2>6, NoBatchType DEF Restart, TypeOK
    <2>3. KeysGiven'
      BY <1>10 DEF Restart, KeysGiven
    <2> QED BY <2>2, <2>3
  <1>11. CASE UNCHANGED vars
    BY <1>11 DEF vars, local, store, remote, TypeOK, KeysGiven
  <1> QED
    BY <1>1, <1>2, <1>3, <1>4, <1>5, <1>6, <1>7, <1>8, <1>9, <1>10, <1>11 DEF Next, Step

(* Every variable stays in its set: in particular every id the library     *)
(* gives after the wrap is one the table and the dictionary have.          *)
THEOREM TypeCorrect == Spec => []TypeOK
  <1>1. Spec => []TypeInv
    BY TypeInit, TypeStep, PTL DEF Spec
  <1>2. TypeInv => TypeOK
    BY DEF TypeInv
  <1> QED BY <1>1, <1>2, PTL

-----------------------------------------------------------------------------
(* The table backs the dictionary. *)

LEMMA BackedStep == TypeInv /\ MemoryBackedByTable /\ [Next]_vars => MemoryBackedByTable'
  <1> SUFFICES ASSUME TypeInv, MemoryBackedByTable, [Next]_vars PROVE MemoryBackedByTable'
    OBVIOUS
  <1>0. /\ rows \in [PreKeyId -> 0..MaxBatches] /\ keys \in [PreKeyId -> 0..MaxBatches]
        /\ "save" \notin Faults => disk = rows
    BY DEF TypeInv, TypeOK, MemoryBackedByTable
  <1>1. ASSUME NEW p \in PreKey, StorePreKey(p) PROVE MemoryBackedByTable'
    BY <1>0, <1>1 DEF StorePreKey, MemoryBackedByTable
  <1>2. CASE UNCHANGED store
    BY <1>2 DEF MemoryBackedByTable, store
  <1>3. ASSUME NEW t \in Threads, SendPreKeys(t) \/ Step(t) PROVE MemoryBackedByTable'
    <2>1. ASSUME AddPreKey(t) PROVE MemoryBackedByTable'
      <3>1. PreKeyAt(batch[t], batch[t].saved) \in PreKey
        <4>1. batch[t] \in Batch /\ batch[t].key \in Key /\ batch[t].saved \in 0..(BatchSize - 1)
          BY <2>1, SizesAssumption DEF AddPreKey, TypeInv, TypeOK, KeysGiven, Batch
        <4> QED BY <4>1, PreKeyAtType
      <3> QED BY <2>1, <3>1, <1>1, <1>2 DEF AddPreKey
    <2> QED
      BY <2>1, <1>3, <1>2 DEF Step, SendPreKeys, GeneratePreKeys, GenerateNothing, Upload
  <1>4. ASSUME RunMainBlock PROVE MemoryBackedByTable'
    <2>1. Head(mainQueue) \in PreKey
      BY <1>4, HeadTailProperties DEF RunMainBlock, TypeInv, TypeOK
    <2> QED BY <1>4, <2>1, <1>1 DEF RunMainBlock
  <1>5. ASSUME NEW k \in awaiting, UploadCallback(k) PROVE MemoryBackedByTable'
    BY <1>5, <1>2 DEF UploadCallback
  <1>6. ASSUME NEW b \in wire, ServerReceive(b) PROVE MemoryBackedByTable'
    BY <1>6, <1>2 DEF ServerReceive, local
  <1>7. ASSUME NEW p \in published, ReceivePreKeyMessage(p) PROVE MemoryBackedByTable'
    BY <1>7, <1>0 DEF ReceivePreKeyMessage, MemoryBackedByTable
  <1>8. ASSUME Restart PROVE MemoryBackedByTable'
    BY <1>8 DEF Restart, MemoryBackedByTable
  <1>9. CASE UNCHANGED vars
    BY <1>9, <1>2 DEF vars, local
  <1> QED BY <1>3, <1>4, <1>5, <1>6, <1>7, <1>8, <1>9 DEF Next

(* A restart never loses a prekey that could be used before it, on         *)
(* whatever threads prekeys are generated.                                 *)
THEOREM TableBacksMemory == Spec => []MemoryBackedByTable
  <1>1. Init => MemoryBackedByTable
    BY DEF Init, MemoryBackedByTable
  <1> QED BY <1>1, TypeInit, TypeStep, BackedStep, PTL DEF Spec

-----------------------------------------------------------------------------
(***************************************************************************)
(* The occupied ids.  That they are 1..RowCount survives the storing of a  *)
(* prekey only if its id is RowCount + 1 at most.  Prekeys wait in the     *)
(* main queue while others are stored, so the invariant says of each one   *)
(* that waits, and of the next one of each batch, that its id is already   *)
(* that small, or that its predecessor waits before it.                    *)
(***************************************************************************)
NextId(t) == IdAt(batch[t].start, batch[t].saved)

QueueClosed ==
    \A k \in 1..Len(mainQueue) :
        \/ mainQueue[k].id - 1 <= RowCount
        \/ \E j \in 1..(k - 1) : mainQueue[j].id + 1 = mainQueue[k].id

BatchesClosed ==
    \A t \in Threads : pc[t] = "save" /\ batch[t].saved < BatchSize =>
        \/ NextId(t) - 1 <= RowCount
        \/ t # Main /\ \E j \in 1..Len(mainQueue) : mainQueue[j].id + 1 = NextId(t)

(* What a restart finds has no gaps either. *)
DiskDense == \E n \in 0..MaxPreKeyId : \A i \in PreKeyId : disk[i] # NoKey <=> i <= n

DenseInv == IdsAreDense /\ DiskDense /\ QueueClosed /\ BatchesClosed

(* A table whose occupied ids are 1..n has n rows. *)
LEMMA CountOfDense ==
  ASSUME NEW r, NEW n \in 0..MaxPreKeyId,
         \A i \in PreKeyId : r[i] # NoKey <=> i <= n
  PROVE  Cardinality({i \in PreKeyId : r[i] # NoKey}) = n
  <1>1. {i \in PreKeyId : r[i] # NoKey} = 1..n
    BY SizesAssumption DEF PreKeyId
  <1>2. Cardinality(1..n) = n
    BY FS_Interval
  <1> QED BY <1>1, <1>2

(* Within a batch the ids are consecutive, up to the wrap to 1. *)
LEMMA IdAtNext ==
  ASSUME NEW start \in 1..(MaxPreKeyId + 1), NEW n \in Nat
  PROVE  IdAt(start, n + 1) = 1 \/ IdAt(start, n + 1) = IdAt(start, n) + 1
  BY SizesAssumption DEF IdAt

(* Storing a prekey whose id is not beyond RowCount + 1 leaves no gap. *)
LEMMA StoreDense ==
  ASSUME TypeInv, IdsAreDense, NEW p \in PreKey, p.id - 1 <= RowCount, StorePreKey(p)
  PROVE  /\ IdsAreDense'
         /\ DiskDense => DiskDense'
         /\ RowCount' \in Nat
         /\ RowCount <= RowCount'
         /\ p.id <= RowCount'
         /\ p.id = RowCount + 1 => RowCount' = p.id
  <1> DEFINE n == IF p.id = RowCount + 1 THEN p.id ELSE RowCount
  <1>1. RowCount \in 0..MaxPreKeyId /\ p.id \in 1..MaxPreKeyId /\ p.key # NoKey
    BY RowCountType, SizesAssumption DEF PreKey, PreKeyId, Key, NoKey
  <1>2. n \in 0..MaxPreKeyId /\ RowCount <= n /\ p.id <= n
    BY <1>1, SizesAssumption
  <1>3. \A i \in PreKeyId : rows'[i] # NoKey <=> i <= n
    <2> SUFFICES ASSUME NEW i \in PreKeyId PROVE rows'[i] # NoKey <=> i <= n
      OBVIOUS
    <2>1. rows[i] # NoKey <=> i <= RowCount
      BY DEF IdsAreDense
    <2>2. rows'[i] = IF i = p.id THEN p.key ELSE rows[i]
      BY DEF StorePreKey, TypeInv, TypeOK
    <2>3. i \in Nat
      BY DEF PreKeyId
    <2> QED BY <1>1, <2>1, <2>2, <2>3
  <1>4. RowCount' = n
    BY <1>2, <1>3, CountOfDense DEF RowCount
  <1>5. DiskDense => DiskDense'
    <2>1. CASE disk' = rows'
      BY <2>1, <1>2, <1>3 DEF DiskDense
    <2>2. CASE disk' = disk
      BY <2>2 DEF DiskDense
    <2> QED BY <2>1, <2>2 DEF StorePreKey
  <1> QED BY <1>2, <1>3, <1>4, <1>5 DEF IdsAreDense

LEMMA DenseInit == Init => DenseInv
  <1> SUFFICES ASSUME Init PROVE DenseInv
    OBVIOUS
  <1>1. \A i \in PreKeyId : rows[i] # NoKey <=> i <= 0
    BY SizesAssumption DEF Init, NoKey, PreKeyId
  <1>2. RowCount = 0
    BY <1>1, CountOfDense, SizesAssumption DEF RowCount
  <1>3. IdsAreDense
    BY <1>1, <1>2 DEF IdsAreDense
  <1>6. DiskDense
    <2>1. \A i \in PreKeyId : disk[i] # NoKey <=> i <= 0
      BY SizesAssumption DEF Init, NoKey, PreKeyId
    <2> QED BY <2>1, SizesAssumption DEF DiskDense
  <1>4. QueueClosed
    BY DEF Init, QueueClosed
  <1>5. BatchesClosed
    BY DEF Init, BatchesClosed
  <1> QED BY <1>3, <1>4, <1>5, <1>6 DEF DenseInv

(* What a thread in the middle of saving a batch hands to addPreKey. *)
LEMMA SavingType ==
  ASSUME TypeInv, NEW t \in Threads, AddPreKey(t)
  PROVE  /\ batch[t] \in Batch /\ batch[t].key \in Key
         /\ batch[t].start \in 1..(MaxPreKeyId + 1)
         /\ batch[t].saved \in 0..(BatchSize - 1)
         /\ PreKeyAt(batch[t], batch[t].saved) \in PreKey
         /\ PreKeyAt(batch[t], batch[t].saved).id = NextId(t)
         /\ NextId(t) \in PreKeyId
         /\ \A u \in Threads : u # t => batch'[u] = batch[u]
         /\ batch'[t].start = batch[t].start
         /\ batch'[t].key = batch[t].key
         /\ batch'[t].saved = batch[t].saved + 1
  <1>1. /\ batch[t] \in Batch /\ batch[t].key \in Key
        /\ batch[t].start \in 1..(MaxPreKeyId + 1)
        /\ batch[t].saved \in 0..(BatchSize - 1)
    BY SizesAssumption DEF AddPreKey, TypeInv, TypeOK, KeysGiven, Batch
  <1>2. /\ \A u \in Threads : u # t => batch'[u] = batch[u]
        /\ batch'[t] = [batch[t] EXCEPT !.saved = @ + 1]
    BY DEF AddPreKey, TypeInv, TypeOK
  <1>3. /\ batch'[t].start = batch[t].start
        /\ batch'[t].key = batch[t].key
        /\ batch'[t].saved = batch[t].saved + 1
    BY <1>1, <1>2 DEF Batch
  <1>4. /\ PreKeyAt(batch[t], batch[t].saved) \in PreKey
        /\ PreKeyAt(batch[t], batch[t].saved).id = NextId(t)
    BY <1>1, PreKeyAtType DEF PreKeyAt, NextId
  <1>5. NextId(t) \in PreKeyId
    BY <1>4 DEF PreKey
  <1> QED BY <1>1, <1>2, <1>3, <1>4, <1>5

LEMMA DenseAdd ==
  ASSUME TypeInv, DenseInv, NEW t \in Threads, AddPreKey(t)
  PROVE  DenseInv'
  <1> DEFINE p == PreKeyAt(batch[t], batch[t].saved)
             L == Len(mainQueue)
  <1>1. RowCount \in 0..MaxPreKeyId
    BY RowCountType
  <1>2. /\ p \in PreKey /\ p.id = NextId(t) /\ p.id \in Nat
        /\ batch[t].start \in 1..(MaxPreKeyId + 1)
        /\ batch[t].saved \in Nat
        /\ \A u \in Threads : u # t => batch'[u] = batch[u]
        /\ batch'[t].start = batch[t].start
        /\ batch'[t].saved = batch[t].saved + 1
    BY SavingType, SizesAssumption DEF PreKeyId
  <1>3. \/ NextId(t) - 1 <= RowCount
        \/ t # Main /\ \E j \in 1..L : mainQueue[j].id + 1 = NextId(t)
    BY DEF AddPreKey, DenseInv, BatchesClosed
  <1>4. NextId(t)' = 1 \/ NextId(t)' = p.id + 1
    BY <1>2, IdAtNext DEF NextId
  <1>5. \A u \in Threads : u # t => NextId(u)' = NextId(u)
    BY <1>2 DEF NextId
  <1>6. pc' = pc
    BY DEF AddPreKey
  <1>7. mainQueue \in Seq(PreKey) /\ L \in Nat /\ \A k \in 1..L : mainQueue[k].id \in Nat
    <2>1. mainQueue \in Seq(PreKey)
      BY DEF TypeInv, TypeOK
    <2>2. L \in Nat /\ \A k \in 1..L : mainQueue[k] \in PreKey
      BY <2>1, LenProperties
    <2> QED BY <2>1, <2>2, SizesAssumption DEF PreKey, PreKeyId
  <1>8. ASSUME t = Main PROVE DenseInv'
    <2>1. StorePreKey(p) /\ mainQueue' = mainQueue
      BY <1>8 DEF AddPreKey
    <2>2. /\ IdsAreDense' /\ DiskDense' /\ RowCount' \in Nat
          /\ RowCount <= RowCount' /\ p.id <= RowCount'
      BY <1>2, <1>3, <1>8, <2>1, StoreDense DEF DenseInv
    <2>3. QueueClosed'
      <3> SUFFICES ASSUME NEW k \in 1..L
                   PROVE  \/ mainQueue[k].id - 1 <= RowCount'
                          \/ \E j \in 1..(k - 1) : mainQueue[j].id + 1 = mainQueue[k].id
        BY <2>1 DEF QueueClosed
      <3>1. \/ mainQueue[k].id - 1 <= RowCount
            \/ \E j \in 1..(k - 1) : mainQueue[j].id + 1 = mainQueue[k].id
        BY DEF DenseInv, QueueClosed
      <3> QED BY <3>1, <1>1, <1>7, <2>2
    <2>4. BatchesClosed'
      <3> SUFFICES ASSUME NEW u \in Threads, (pc[u] = "save" /\ batch[u].saved < BatchSize)'
                   PROVE  \/ NextId(u)' - 1 <= RowCount'
                          \/ u # Main /\ \E j \in 1..Len(mainQueue') :
                                              mainQueue'[j].id + 1 = NextId(u)'
        BY DEF BatchesClosed
      <3>1. CASE u = t
        BY <3>1, <1>1, <1>2, <1>4, <2>2
      <3>2. CASE u # t
        <4>1. batch'[u] = batch[u] /\ NextId(u)' = NextId(u)
          BY <3>2, <1>2, <1>5
        <4>2. NextId(u) \in Nat
          <5>1. batch[u].start \in 1..(MaxPreKeyId + 1) /\ batch[u].saved \in Nat
            BY SizesAssumption DEF TypeInv, TypeOK, Batch
          <5> QED BY <5>1, SizesAssumption DEF NextId, IdAt
        <4>3. \/ NextId(u) - 1 <= RowCount
              \/ u # Main /\ \E j \in 1..L : mainQueue[j].id + 1 = NextId(u)
          BY <4>1, <1>6 DEF DenseInv, BatchesClosed
        <4> QED BY <4>1, <4>2, <4>3, <1>1, <2>1, <2>2
      <3> QED BY <3>1, <3>2
    <2> QED BY <2>2, <2>3, <2>4 DEF DenseInv
  <1>9. ASSUME t # Main PROVE DenseInv'
    <2>1. mainQueue' = Append(mainQueue, p) /\ rows' = rows /\ disk' = disk
      BY <1>9 DEF AddPreKey, store
    <2>2. RowCount' = RowCount
      BY <2>1 DEF RowCount
    <2>3. IdsAreDense' /\ DiskDense'
      BY <2>1, <2>2 DEF DenseInv, IdsAreDense, DiskDense
    <2>4. /\ Len(mainQueue') = L + 1
          /\ \A k \in 1..L : mainQueue'[k] = mainQueue[k]
          /\ mainQueue'[L + 1] = p
      BY <1>2, <1>7, <2>1, AppendProperties
    <2>5. QueueClosed'
      <3> SUFFICES ASSUME NEW k \in 1..(L + 1)
                   PROVE  \/ mainQueue'[k].id - 1 <= RowCount
                          \/ \E j \in 1..(k - 1) : mainQueue'[j].id + 1 = mainQueue'[k].id
        BY <2>2, <2>4 DEF QueueClosed
      <3>1. CASE k = L + 1
        BY <3>1, <1>2, <1>3, <1>7, <2>4
      <3>2. CASE k \in 1..L
        <4>1. \/ mainQueue[k].id - 1 <= RowCount
              \/ \E j \in 1..(k - 1) : mainQueue[j].id + 1 = mainQueue[k].id
          BY <3>2 DEF DenseInv, QueueClosed
        <4>2. \A j \in 1..(k - 1) : j \in 1..L
          BY <3>2, <1>7
        <4> QED BY <3>2, <4>1, <4>2, <2>4
      <3> QED BY <3>1, <3>2, <1>7
    <2>6. BatchesClosed'
      <3> SUFFICES ASSUME NEW u \in Threads, (pc[u] = "save" /\ batch[u].saved < BatchSize)'
                   PROVE  \/ NextId(u)' - 1 <= RowCount
                          \/ u # Main /\ \E j \in 1..(L + 1) :
                                              mainQueue'[j].id + 1 = NextId(u)'
        BY <2>2, <2>4 DEF BatchesClosed
      <3>1. CASE u = t
        BY <3>1, <1>1, <1>4, <1>7, <1>9, <2>4
      <3>2. CASE u # t
        <4>1. batch'[u] = batch[u] /\ NextId(u)' = NextId(u)
          BY <3>2, <1>2, <1>5
        <4>2. \/ NextId(u) - 1 <= RowCount
              \/ u # Main /\ \E j \in 1..L : mainQueue[j].id + 1 = NextId(u)
          BY <4>1, <1>6 DEF DenseInv, BatchesClosed
        <4> QED BY <4>1, <4>2, <1>7, <2>4
      <3> QED BY <3>1, <3>2
    <2> QED BY <2>3, <2>5, <2>6 DEF DenseInv
  <1> QED BY <1>8, <1>9

LEMMA DenseRunBlock ==
  ASSUME TypeInv, DenseInv, RunMainBlock
  PROVE  DenseInv'
  <1> DEFINE p == Head(mainQueue)
             L == Len(mainQueue)
  <1>1. RowCount \in Nat
    BY RowCountType, SizesAssumption
  <1>2. mainQueue \in Seq(PreKey) /\ mainQueue # <<>>
    BY DEF RunMainBlock, TypeInv, TypeOK
  <1>3. /\ L \in Nat /\ 1 \in 1..L
        /\ \A k \in 1..L : mainQueue[k].id \in Nat
    <2>1. L \in Nat /\ L # 0 /\ \A k \in 1..L : mainQueue[k] \in PreKey
      BY <1>2, LenProperties, EmptySeq
    <2> QED BY <2>1, SizesAssumption DEF PreKey, PreKeyId
  <1>4. /\ p = mainQueue[1] /\ p \in PreKey
        /\ mainQueue' = Tail(mainQueue) /\ Len(mainQueue') = L - 1
        /\ \A k \in 1..(L - 1) : mainQueue'[k] = mainQueue[k + 1]
    BY <1>2, HeadTailProperties DEF RunMainBlock
  <1>5. p.id - 1 <= RowCount
    BY <1>3, <1>4 DEF DenseInv, QueueClosed
  <1>6. /\ IdsAreDense' /\ DiskDense' /\ RowCount' \in Nat
        /\ RowCount <= RowCount' /\ p.id <= RowCount'
    BY <1>4, <1>5, StoreDense DEF RunMainBlock, DenseInv
  (* With the head stored, what waited for it has a small id, and what      *)
  (* waited for another one still does.                                     *)
  <1>7. ASSUME NEW x \in Nat, NEW m \in 1..(L + 1),
               x - 1 <= RowCount \/ \E j \in 1..(m - 1) : mainQueue[j].id + 1 = x
        PROVE  x - 1 <= RowCount' \/ \E j \in 1..(m - 2) : mainQueue'[j].id + 1 = x
    <2>1. PICK s \in Nat : s = RowCount'
      BY <1>6
    <2>2. RowCount <= s /\ p.id <= s
      BY <1>6, <2>1
    <2>3. CASE x - 1 <= RowCount
      <3>1. x - 1 <= s
        BY <1>1, <2>2, <2>3
      <3> QED BY <2>1, <3>1
    <2>4. ASSUME NEW j \in 1..(m - 1), mainQueue[j].id + 1 = x
          PROVE  x - 1 <= RowCount' \/ \E h \in 1..(m - 2) : mainQueue'[h].id + 1 = x
      <3>1. CASE j = 1
        <4>1. x - 1 <= s
          BY <3>1, <2>2, <2>4, <1>3, <1>4
        <4> QED BY <2>1, <4>1
      <3>2. CASE j # 1
        <4>1. j - 1 \in 1..(m - 2) /\ j - 1 \in 1..(L - 1)
          BY <3>2, <1>3
        <4>2. mainQueue'[j - 1] = mainQueue[j]
          BY <4>1, <1>4
        <4> QED BY <4>1, <4>2, <2>4
      <3> QED BY <3>1, <3>2
    <2> QED BY <2>3, <2>4, <1>7
  <1>8. QueueClosed'
    <2> SUFFICES ASSUME NEW k \in 1..(L - 1)
                 PROVE  \/ mainQueue'[k].id - 1 <= RowCount'
                        \/ \E j \in 1..(k - 1) : mainQueue'[j].id + 1 = mainQueue'[k].id
      BY <1>4 DEF QueueClosed
    <2>1. k + 1 \in 1..L /\ k + 1 \in 1..(L + 1) /\ mainQueue'[k] = mainQueue[k + 1]
      BY <1>3, <1>4
    <2>2. \/ mainQueue[k + 1].id - 1 <= RowCount
          \/ \E j \in 1..((k + 1) - 1) : mainQueue[j].id + 1 = mainQueue[k + 1].id
      BY <2>1 DEF DenseInv, QueueClosed
    <2>3. \/ mainQueue[k + 1].id - 1 <= RowCount'
          \/ \E j \in 1..((k + 1) - 2) : mainQueue'[j].id + 1 = mainQueue[k + 1].id
      BY <2>1, <2>2, <1>3, <1>7
    <2>4. (k + 1) - 2 = k - 1
      BY <1>3
    <2> QED BY <2>1, <2>3, <2>4
  <1>9. BatchesClosed'
    <2> SUFFICES ASSUME NEW u \in Threads, pc[u] = "save" /\ batch[u].saved < BatchSize
                 PROVE  \/ NextId(u) - 1 <= RowCount'
                        \/ u # Main /\ \E j \in 1..(L - 1) : mainQueue'[j].id + 1 = NextId(u)
      <3>1. pc' = pc /\ batch' = batch /\ \A u \in Threads : NextId(u)' = NextId(u)
        BY DEF RunMainBlock, NextId
      <3> QED BY <3>1, <1>4 DEF BatchesClosed
    <2>1. NextId(u) \in Nat
      <3>1. batch[u].start \in 1..(MaxPreKeyId + 1) /\ batch[u].saved \in Nat
        BY SizesAssumption DEF TypeInv, TypeOK, Batch
      <3> QED BY <3>1, SizesAssumption DEF NextId, IdAt
    <2>2. \/ NextId(u) - 1 <= RowCount
          \/ u # Main /\ \E j \in 1..((L + 1) - 1) : mainQueue[j].id + 1 = NextId(u)
      BY <1>3 DEF DenseInv, BatchesClosed
    <2>3. \/ NextId(u) - 1 <= RowCount'
          \/ \E j \in 1..((L + 1) - 2) : mainQueue'[j].id + 1 = NextId(u)
      <3>1. L + 1 \in 1..(L + 1)
        BY <1>3
      <3>2. \/ NextId(u) - 1 <= RowCount
            \/ \E j \in 1..((L + 1) - 1) : mainQueue[j].id + 1 = NextId(u)
        BY <2>2
      <3> QED BY <3>1, <3>2, <2>1, <1>7
    <2>4. (L + 1) - 2 = L - 1
      BY <1>3
    <2>5. u # Main
      BY DEF RunMainBlock
    <2> QED BY <2>3, <2>4, <2>5
  <1> QED BY <1>6, <1>8, <1>9 DEF DenseInv

(* A generated batch starts right after the occupied ids, or at 1. *)
LEMMA DenseGenerate ==
  ASSUME TypeInv, DenseInv, NEW t \in Threads, GeneratePreKeys(t)
  PROVE  DenseInv'
  <1>1. RowCount \in 0..MaxPreKeyId /\ RowCount' = RowCount
    BY RowCountType DEF GeneratePreKeys, RowCount, store
  <1>2. IdsAreDense' /\ DiskDense' /\ QueueClosed'
    BY <1>1 DEF DenseInv, IdsAreDense, DiskDense, QueueClosed, GeneratePreKeys, store
  <1>3. BatchesClosed'
    <2> SUFFICES ASSUME NEW u \in Threads, (pc[u] = "save" /\ batch[u].saved < BatchSize)'
                 PROVE  \/ NextId(u)' - 1 <= RowCount
                        \/ u # Main /\ \E j \in 1..Len(mainQueue) :
                                            mainQueue[j].id + 1 = NextId(u)'
      BY <1>1 DEF BatchesClosed, GeneratePreKeys
    <2>1. CASE u = t
      <3>1. PICK n \in Counted : batch'[t].start = n + 1 /\ batch'[t].saved = 0
        BY DEF GeneratePreKeys, TypeInv, TypeOK
      <3>2. NextId(t)' - 1 <= RowCount
        BY <3>1, <1>1, CountedType, SizesAssumption DEF NextId, IdAt
      <3> QED BY <2>1, <3>2
    <2>2. CASE u # t
      <3>1. batch'[u] = batch[u] /\ pc'[u] = pc[u]
        BY <2>2 DEF GeneratePreKeys, TypeInv, TypeOK
      <3> QED BY <3>1 DEF DenseInv, BatchesClosed, NextId
    <2> QED BY <2>1, <2>2
  <1> QED BY <1>2, <1>3 DEF DenseInv

LEMMA DenseStep == TypeInv /\ DenseInv /\ [Next]_vars => DenseInv'
  <1> SUFFICES ASSUME TypeInv, DenseInv, [Next]_vars PROVE DenseInv'
    OBVIOUS
  (* Steps that store nothing, queue nothing and start no batch. *)
  <1>1. ASSUME rows' = rows, disk' = disk, mainQueue' = mainQueue,
               \A t \in Threads : pc'[t] = "save" => pc[t] = "save" /\ batch'[t] = batch[t]
        PROVE  DenseInv'
    <2>1. RowCount' = RowCount
      BY <1>1 DEF RowCount
    <2>2. IdsAreDense' /\ DiskDense' /\ QueueClosed'
      BY <1>1, <2>1 DEF DenseInv, IdsAreDense, DiskDense, QueueClosed
    <2>3. BatchesClosed'
      BY <1>1, <2>1 DEF DenseInv, BatchesClosed, NextId
    <2> QED BY <2>2, <2>3 DEF DenseInv
  <1>2. ASSUME NEW t \in Threads, SendPreKeys(t) \/ Step(t) PROVE DenseInv'
    <2>1. CASE GeneratePreKeys(t)
      BY <2>1, DenseGenerate
    <2>2. CASE AddPreKey(t)
      BY <2>2, DenseAdd
    <2>3. CASE SendPreKeys(t)
      BY <2>3, <1>1 DEF SendPreKeys, TypeInv, TypeOK, store
    <2>4. CASE GenerateNothing(t)
      BY <2>4, <1>1 DEF GenerateNothing, TypeInv, TypeOK, store
    <2>5. CASE Upload(t)
      BY <2>5, <1>1 DEF Upload, TypeInv, TypeOK, store
    <2> QED BY <1>2, <2>1, <2>2, <2>3, <2>4, <2>5 DEF Step
  <1>3. ASSUME RunMainBlock PROVE DenseInv'
    BY <1>3, DenseRunBlock
  <1>4. ASSUME NEW k \in awaiting, UploadCallback(k) PROVE DenseInv'
    BY <1>4, <1>1 DEF UploadCallback, store
  <1>5. ASSUME NEW b \in wire, ServerReceive(b) PROVE DenseInv'
    BY <1>5, <1>1 DEF ServerReceive, local, store
  <1>6. ASSUME NEW p \in published, ReceivePreKeyMessage(p) PROVE DenseInv'
    BY <1>6, <1>1 DEF ReceivePreKeyMessage
  <1>7. ASSUME Restart PROVE DenseInv'
    <2>1. PICK n \in 0..MaxPreKeyId : \A i \in PreKeyId : disk[i] # NoKey <=> i <= n
      BY DEF DenseInv, DiskDense
    <2>2. rows' = disk /\ disk' = disk
      BY <1>7 DEF Restart
    <2>4. RowCount' = n
      <3>1. \A i \in PreKeyId : rows'[i] # NoKey <=> i <= n
        BY <2>1, <2>2
      <3> QED BY <3>1, CountOfDense DEF RowCount
    <2>5. IdsAreDense' /\ DiskDense'
      BY <2>1, <2>2, <2>4 DEF IdsAreDense, DiskDense
    <2>3. QueueClosed' /\ BatchesClosed'
      BY <1>7 DEF Restart, QueueClosed, BatchesClosed
    <2> QED BY <2>5, <2>3 DEF DenseInv
  <1>8. CASE UNCHANGED vars
    BY <1>8, <1>1 DEF vars, local, store
  <1> QED BY <1>2, <1>3, <1>4, <1>5, <1>6, <1>7, <1>8 DEF Next

(* The occupied ids are 1..RowCount, with any number of threads generating *)
(* prekeys, crashes at any point and the wrap of the ids included.         *)
THEOREM DenseIds == Spec => []IdsAreDense
  <1>1. Spec => [](TypeInv /\ DenseInv)
    BY TypeInit, TypeStep, DenseInit, DenseStep, PTL DEF Spec
  <1>2. DenseInv => IdsAreDense
    BY DEF DenseInv
  <1> QED BY <1>1, <1>2, PTL

-----------------------------------------------------------------------------
(***************************************************************************)
(* What the server hands out can be used, when sendPreKeys is only ever    *)
(* called on the main thread and the count never fails.  Every prekey      *)
(* saved from the current batch, on its way to the server or there, is in  *)
(* the table and in the dictionary, unless it was used up or lost; and the *)
(* next prekey to save gets the first free id, so that none of them is     *)
(* overwritten before the ids run out.                                     *)
(***************************************************************************)
Saved == {PreKeyAt(batch[Main], n) : n \in 0..(batch[Main].saved - 1)}

Issued == published \cup Saved \cup UNION {PreKeysOf(b) : b \in wire}

NextIsFree ==
    /\ pc[Main] = "save" /\ ~ranOut =>
          batch[Main].start + batch[Main].saved = RowCount + 1
    /\ pc[Main] # "save" => batch[Main].saved = 0

IssuedIsHeld ==
    ~ranOut => \A p \in Issued :
        p \in consumed \/ p \in lost \/ (rows[p.id] = p.key /\ keys[p.id] = p.key)

(* That the ids have run out is known as soon as the context, or the file, *)
(* has a row under each of them.                                           *)
FullIsKnown ==
    /\ TableFull => ranOut
    /\ (\A i \in PreKeyId : disk[i] # NoKey) => ranOut

UsableInv == mainQueue = <<>> /\ FullIsKnown /\ NextIsFree /\ IssuedIsHeld

LEMMA IssuedType ==
  ASSUME TypeInv, NextIsFree
  PROVE  Issued \subseteq PreKey
  <1>1. published \subseteq PreKey /\ \A b \in wire : PreKeysOf(b) \subseteq PreKey
    BY PreKeysOfType DEF TypeInv, TypeOK, KeysGiven
  <1>2. ASSUME NEW n \in 0..(batch[Main].saved - 1) PROVE PreKeyAt(batch[Main], n) \in PreKey
    <2>1. Main \in Threads
      BY DEF Threads
    <2>2. batch[Main] \in Batch /\ batch[Main].saved \in 0..BatchSize
      BY <2>1 DEF TypeInv, TypeOK, Batch
    <2>3. n \in 0..(BatchSize - 1) /\ batch[Main].saved # 0
      BY <1>2, <2>2, SizesAssumption
    <2>4. batch[Main].key \in Key
      BY <2>1, <2>3 DEF NextIsFree, TypeInv, KeysGiven
    <2> QED BY <2>2, <2>3, <2>4, PreKeyAtType
  <1>3. Saved \subseteq PreKey
    BY <1>2 DEF Saved
  <1> QED BY <1>1, <1>3 DEF Issued

(* A prekey is told apart by its id and its key. *)
LEMMA PreKeyEqual ==
  ASSUME NEW p \in PreKey, NEW q \in PreKey, p.id = q.id, p.key = q.key
  PROVE  p = q
  BY DEF PreKey

LEMMA UsableInit == Init => UsableInv
  <1> SUFFICES ASSUME Init PROVE UsableInv
    OBVIOUS
  <1>1. batch[Main].saved = 0 /\ pc[Main] = "idle"
    BY DEF Init, NoBatch, Threads
  <1>2. Issued = {}
    BY <1>1 DEF Init, Issued, Saved
  <1>3. ~TableFull
    <2>1. \A i \in PreKeyId : rows[i] # NoKey <=> i <= 0
      BY SizesAssumption DEF Init, NoKey, PreKeyId
    <2>2. RowCount = 0
      BY <2>1, CountOfDense, SizesAssumption DEF RowCount
    <2> QED BY <2>2, SizesAssumption DEF TableFull
  <1>4. ~ \A i \in PreKeyId : disk[i] # NoKey
    BY SizesAssumption DEF Init, PreKeyId
  <1>5. FullIsKnown
    BY <1>3, <1>4 DEF FullIsKnown
  <1> QED BY <1>1, <1>2, <1>5 DEF Init, UsableInv, NextIsFree, IssuedIsHeld

(* Steps that touch neither store and issue nothing new. *)
LEMMA UsableSame ==
  ASSUME UsableInv, mainQueue' = mainQueue, UNCHANGED store,
         consumed' = consumed, Issued' \subseteq Issued, NextIsFree'
  PROVE  UsableInv'
  <1>1. TableFull' = TableFull
    BY DEF TableFull, RowCount, store
  <1> QED BY <1>1 DEF UsableInv, FullIsKnown, IssuedIsHeld, store

(* Until the ids have run out, the prekey that is saved next takes the     *)
(* first free id.                                                          *)
LEMMA NextRow ==
  ASSUME Background = {}, TypeInv, DenseInv, UsableInv, AddPreKey(Main), ~ranOut
  PROVE  LET p == PreKeyAt(batch[Main], batch[Main].saved)
         IN  /\ p.id = batch[Main].start + batch[Main].saved
             /\ p.id = RowCount + 1
             /\ rows[p.id] = NoKey
  <1> DEFINE b == batch[Main]
             p == PreKeyAt(b, b.saved)
  <1>1. Main \in Threads
    BY DEF Threads
  <1>2. /\ p \in PreKey /\ p.id = NextId(Main) /\ p.id \in PreKeyId
        /\ b.start \in 1..(MaxPreKeyId + 1) /\ b.saved \in 0..(BatchSize - 1)
    BY <1>1, SavingType DEF PreKeyAt
  <1>3. RowCount \in 0..MaxPreKeyId
    BY RowCountType
  <1>4. b.start + b.saved = RowCount + 1 /\ RowCount + 1 <= MaxPreKeyId
    BY <1>3, SizesAssumption DEF UsableInv, FullIsKnown, NextIsFree, TableFull, AddPreKey
  <1>5. p.id = b.start + b.saved
    BY <1>2, <1>4 DEF NextId, IdAt
  <1>6. rows[p.id] = NoKey
    BY <1>2, <1>3, <1>4, <1>5 DEF DenseInv, IdsAreDense, PreKeyId
  <1> QED BY <1>4, <1>5, <1>6

(* A table without a free id has as many rows as there are ids. *)
LEMMA AllUsed ==
  ASSUME NEW r, \A i \in PreKeyId : r[i] # NoKey
  PROVE  Cardinality({i \in PreKeyId : r[i] # NoKey}) = MaxPreKeyId
  <1>1. \A i \in PreKeyId : r[i] # NoKey <=> i <= MaxPreKeyId
    BY SizesAssumption DEF PreKeyId
  <1>2. MaxPreKeyId \in 0..MaxPreKeyId
    BY SizesAssumption
  <1> QED BY <1>1, <1>2, CountOfDense

LEMMA FullIsKnownStore ==
  ASSUME NEW p, StorePreKey(p), FullIsKnown
  PROVE  FullIsKnown'
  <1>1. ranOut' = (ranOut \/ TableFull')
    BY DEF StorePreKey
  <1>2. TableFull' => ranOut'
    BY <1>1
  <1>3. ASSUME \A i \in PreKeyId : disk'[i] # NoKey PROVE ranOut'
    <2>1. CASE disk' = disk
      BY <2>1, <1>1, <1>3 DEF FullIsKnown
    <2>2. CASE disk' = rows'
      <3>1. \A i \in PreKeyId : rows'[i] # NoKey
        BY <2>2, <1>3
      <3>2. TableFull'
        BY <3>1, AllUsed DEF TableFull, RowCount
      <3> QED BY <3>2, <1>2
    <2> QED BY <2>1, <2>2 DEF StorePreKey
  <1> QED BY <1>2, <1>3 DEF FullIsKnown

LEMMA UsableAdd ==
  ASSUME Background = {}, TypeInv, DenseInv, UsableInv, AddPreKey(Main)
  PROVE  UsableInv'
  <1> DEFINE b == batch[Main]
             p == PreKeyAt(b, b.saved)
  <1>1. Main \in Threads
    BY DEF Threads
  <1>2. /\ p \in PreKey /\ p.id = NextId(Main) /\ p.key = b.key
        /\ b.start \in 1..(MaxPreKeyId + 1) /\ b.saved \in 0..(BatchSize - 1)
        /\ batch'[Main].start = b.start
        /\ batch'[Main].key = b.key
        /\ batch'[Main].saved = b.saved + 1
    BY <1>1, SavingType DEF PreKeyAt
  <1>3. StorePreKey(p) /\ mainQueue' = mainQueue /\ pc[Main] = "save" /\ pc' = pc
    BY DEF AddPreKey
  <1>4. ranOut' = (ranOut \/ TableFull')
    BY <1>3 DEF StorePreKey
  <1>5. FullIsKnown'
    BY <1>3, FullIsKnownStore DEF UsableInv
  <1>8. CASE ranOut
    <2>1. ranOut'
      BY <1>8, <1>4
    <2>2. NextIsFree' /\ IssuedIsHeld'
      BY <2>1, <1>3 DEF NextIsFree, IssuedIsHeld
    <2> QED BY <2>2, <1>3, <1>5 DEF UsableInv
  <1>9. CASE ~ranOut
    <2>1. p.id = b.start + b.saved /\ p.id = RowCount + 1 /\ rows[p.id] = NoKey
      BY <1>9, NextRow
    <2>2. RowCount \in Nat
      BY RowCountType, SizesAssumption
    <2>3. RowCount' = p.id
      <3>1. p.id - 1 <= RowCount
        BY <2>1, <2>2
      <3> QED BY <1>2, <1>3, <2>1, <3>1, StoreDense DEF DenseInv
    <2>4. NextIsFree'
      <3>1. batch'[Main].start + batch'[Main].saved = RowCount' + 1
        BY <1>2, <2>1, <2>2, <2>3
      <3>2. pc'[Main] = "save"
        BY <1>3
      <3> QED BY <3>1, <3>2 DEF NextIsFree
    <2>5. IssuedIsHeld'
      <3>1. Issued' \subseteq Issued \cup {p}
        <4>1. Saved' \subseteq Saved \cup {p}
          BY <1>2, SizesAssumption DEF Saved, PreKeyAt
        <4>2. published' = published /\ wire' = wire
          BY DEF AddPreKey, remote
        <4> QED BY <4>1, <4>2 DEF Issued, PreKeysOf, PreKeyAt
      <3>2. /\ rows'[p.id] = p.key /\ keys'[p.id] = p.key
            /\ \A i \in PreKeyId : i # p.id => rows'[i] = rows[i] /\ keys'[i] = keys[i]
        BY <1>2, <1>3 DEF StorePreKey, TypeInv, TypeOK, PreKey
      <3>4. consumed' = consumed /\ lost' = lost
        BY <1>3 DEF AddPreKey, remote, StorePreKey
      <3>3. ASSUME NEW q \in Issued
            PROVE  \/ q \in consumed' \/ q \in lost'
                   \/ rows'[q.id] = q.key /\ keys'[q.id] = q.key
        <4>1. q \in consumed \/ q \in lost \/ (rows[q.id] = q.key /\ keys[q.id] = q.key)
          BY <3>3, <1>9 DEF UsableInv, IssuedIsHeld
        <4>2. q.id \in PreKeyId /\ q.key # NoKey
          BY <3>3, IssuedType, SizesAssumption DEF UsableInv, PreKey, Key, NoKey
        <4>3. rows[q.id] = q.key => q.id # p.id
          BY <4>2, <2>1
        <4> QED BY <4>1, <4>2, <4>3, <3>2, <3>4
      <3> QED BY <3>1, <3>2, <3>3 DEF IssuedIsHeld
    <2> QED BY <2>4, <2>5, <1>3, <1>5 DEF UsableInv
  <1> QED BY <1>8, <1>9

LEMMA UsableStep ==
  ASSUME Background = {}, "count" \notin Faults
  PROVE  TypeInv /\ DenseInv /\ UsableInv /\ [Next]_vars => UsableInv'
  <1> SUFFICES ASSUME TypeInv, DenseInv, UsableInv, [Next]_vars PROVE UsableInv'
    OBVIOUS
  <1>1. Threads = {Main}
    BY DEF Threads
  <1>2. /\ pc \in [{Main} -> {"idle", "generate", "save"}]
        /\ batch \in [{Main} -> Batch]
    BY <1>1 DEF TypeInv, TypeOK
  <1>3. CASE AddPreKey(Main)
    BY <1>3, UsableAdd
  <1>4. CASE GeneratePreKeys(Main)
    <2>1. /\ batch'[Main].start = RowCount + 1 /\ batch'[Main].saved = 0
          /\ pc'[Main] = "save"
      BY <1>2, <1>4 DEF GeneratePreKeys, Counted
    <2>2. RowCount' = RowCount /\ RowCount \in Nat
      BY <1>4, RowCountType, SizesAssumption DEF GeneratePreKeys, RowCount, store
    <2>3. NextIsFree'
      BY <2>1, <2>2 DEF NextIsFree
    <2>4. Saved' = {}
      BY <2>1 DEF Saved
    <2>5. Issued' \subseteq Issued
      BY <2>4, <1>4 DEF Issued, GeneratePreKeys, remote, store
    <2> QED BY <2>3, <2>5, <1>4, UsableSame DEF GeneratePreKeys, remote, store
  <1>5. CASE SendPreKeys(Main)
    <2>1. batch' = batch /\ pc'[Main] = "generate" /\ pc[Main] = "idle"
      BY <1>2, <1>5 DEF SendPreKeys
    <2>2. NextIsFree'
      BY <2>1 DEF UsableInv, NextIsFree
    <2>3. Issued' = Issued
      BY <2>1, <1>5 DEF Issued, Saved, SendPreKeys, remote, store
    <2> QED BY <2>2, <2>3, <1>5, UsableSame DEF SendPreKeys, remote, store
  <1>6. CASE GenerateNothing(Main)
    <2>1. batch' = batch /\ pc'[Main] = "idle" /\ pc[Main] = "generate"
      BY <1>2, <1>6 DEF GenerateNothing
    <2>2. NextIsFree'
      BY <2>1 DEF UsableInv, NextIsFree
    <2>3. Issued' = Issued
      BY <2>1, <1>6 DEF Issued, Saved, GenerateNothing, remote, store
    <2> QED BY <2>2, <2>3, <1>6, UsableSame DEF GenerateNothing, remote, store
  <1>7. CASE Upload(Main)
    <2>1. /\ batch'[Main].saved = 0 /\ pc'[Main] = "idle"
          /\ batch[Main].saved = BatchSize /\ wire' = wire \cup {batch[Main]}
      BY <1>2, <1>7 DEF Upload, NoBatch
    <2>2. NextIsFree'
      BY <2>1 DEF NextIsFree
    <2>3. Saved' = {} /\ PreKeysOf(batch[Main]) = Saved
      BY <2>1 DEF Saved, PreKeysOf
    <2>4. Issued' \subseteq Issued
      BY <2>1, <2>3, <1>7 DEF Issued, Upload, PreKeysOf, PreKeyAt
    <2> QED BY <2>2, <2>4, <1>7, UsableSame DEF Upload
  <1>8. ASSUME RunMainBlock PROVE FALSE
    BY <1>8 DEF RunMainBlock, UsableInv
  <1>9. ASSUME NEW k \in awaiting, UploadCallback(k) PROVE UsableInv'
    <2>1. RowCount' = RowCount
      BY <1>9 DEF UploadCallback, RowCount, store
    <2>2. NextIsFree'
      BY <2>1, <1>9 DEF UsableInv, NextIsFree, UploadCallback, store
    <2>3. Issued' = Issued
      BY <1>9 DEF Issued, Saved, UploadCallback
    <2> QED BY <2>2, <2>3, <1>9, UsableSame DEF UploadCallback
  <1>10. ASSUME NEW b \in wire, ServerReceive(b) PROVE UsableInv'
    <2>1. RowCount' = RowCount
      BY <1>10 DEF ServerReceive, local, store, RowCount
    <2>2. NextIsFree'
      BY <2>1, <1>10 DEF UsableInv, NextIsFree, ServerReceive, local, store
    <2>3. Saved' = Saved
      BY <1>10 DEF Saved, ServerReceive, local, store
    <2>4. Issued' \subseteq Issued
      BY <2>3, <1>10 DEF Issued, ServerReceive
    <2> QED BY <2>2, <2>4, <1>10, UsableSame DEF ServerReceive, local, store
  <1>11. ASSUME NEW p \in published, ReceivePreKeyMessage(p) PROVE UsableInv'
    <2>1. RowCount' = RowCount /\ FullIsKnown'
      BY <1>11 DEF ReceivePreKeyMessage, RowCount, TableFull, UsableInv, FullIsKnown
    <2>2. NextIsFree'
      BY <2>1, <1>11 DEF UsableInv, NextIsFree, ReceivePreKeyMessage
    <2>3. Issued' = Issued
      BY <1>11 DEF Issued, Saved, ReceivePreKeyMessage
    <2>4. ASSUME NEW q \in Issued, ~ranOut
          PROVE  \/ q \in consumed' \/ q \in lost'
                 \/ rows'[q.id] = q.key /\ keys'[q.id] = q.key
      <3>1. q \in consumed \/ q \in lost \/ (rows[q.id] = q.key /\ keys[q.id] = q.key)
        BY <2>4 DEF UsableInv, IssuedIsHeld
      <3>2. q \in PreKey /\ p \in PreKey
        BY <2>4, IssuedType DEF UsableInv, TypeInv, TypeOK
      <3>3. /\ keys[p.id] = p.key /\ rows' = rows /\ consumed' = consumed \cup {p}
            /\ keys' = [keys EXCEPT ![p.id] = NoKey] /\ lost' = lost
        BY <1>11 DEF ReceivePreKeyMessage
      <3>4. CASE q.id = p.id
        <4>1. q \in consumed \/ q \in lost \/ q = p
          BY <3>1, <3>2, <3>3, <3>4, PreKeyEqual
        <4> QED BY <4>1, <3>3
      <3>5. CASE q.id # p.id
        <4>1. keys'[q.id] = keys[q.id]
          BY <3>2, <3>3, <3>5 DEF TypeInv, TypeOK, PreKey
        <4> QED BY <4>1, <3>1, <3>3
      <3> QED BY <3>4, <3>5
    <2>5. IssuedIsHeld'
      BY <2>3, <2>4, <1>11 DEF IssuedIsHeld, ReceivePreKeyMessage
    <2> QED BY <2>1, <2>2, <2>5, <1>11 DEF UsableInv, ReceivePreKeyMessage
  <1>12. ASSUME Restart PROVE UsableInv'
    <2>1. /\ batch'[Main].saved = 0 /\ pc'[Main] = "idle" /\ mainQueue' = <<>>
          /\ rows' = disk /\ consumed' = consumed /\ ranOut' = ranOut
          /\ published' = published /\ wire' = wire
          /\ keys' = disk \/ keys' = [i \in PreKeyId |-> NoKey]
          /\ lost' = (lost \cup Held) \ Held'
      BY <1>1, <1>12 DEF Restart, NoBatch
    <2>3. NextIsFree'
      BY <2>1 DEF NextIsFree
    <2>4. Saved' = {}
      BY <2>1 DEF Saved
    <2>5. Issued' \subseteq Issued
      BY <2>1, <2>4 DEF Issued
    <2>6. IssuedIsHeld'
      <3> SUFFICES ASSUME ~ranOut, NEW q \in Issued
                   PROVE  \/ q \in consumed' \/ q \in lost'
                          \/ rows'[q.id] = q.key /\ keys'[q.id] = q.key
        BY <2>1, <2>5 DEF IssuedIsHeld
      <3>1. q \in PreKey
        BY IssuedType DEF UsableInv
      <3>2. q \in consumed \/ q \in lost \/ (rows[q.id] = q.key /\ keys[q.id] = q.key)
        BY DEF UsableInv, IssuedIsHeld
      <3>3. q \in lost' \/ keys'[q.id] = q.key \/ q \in consumed
        BY <3>1, <3>2, <2>1 DEF Held
      <3>4. q.id \in PreKeyId /\ q.key # NoKey
        BY <3>1, SizesAssumption DEF PreKey, Key, NoKey
      <3> QED BY <3>3, <3>4, <2>1
    <2>2. FullIsKnown'
      <3>1. disk' = disk
        BY <1>12 DEF Restart
      <3>2. ASSUME TableFull' PROVE ranOut'
        <4>1. IdsAreDense'
          BY <1>12, DenseStep DEF Next, DenseInv
        <4>2. \A i \in PreKeyId : rows'[i] # NoKey
          BY <3>2, <4>1, SizesAssumption DEF TableFull, IdsAreDense, PreKeyId
        <4> QED BY <2>1, <4>2 DEF UsableInv, FullIsKnown
      <3> QED BY <2>1, <3>1, <3>2 DEF UsableInv, FullIsKnown
    <2> QED BY <2>1, <2>2, <2>3, <2>6 DEF UsableInv
  <1>13. CASE UNCHANGED vars
    <2>1. RowCount' = RowCount
      BY <1>13 DEF vars, local, store, RowCount
    <2>2. NextIsFree'
      BY <2>1, <1>13 DEF UsableInv, NextIsFree, vars, local, store
    <2>3. Issued' = Issued
      BY <1>13 DEF Issued, Saved, vars, local, store, remote
    <2> QED BY <2>2, <2>3, <1>13, UsableSame DEF vars, local, store, remote
  <1> QED
    BY <1>1, <1>3, <1>4, <1>5, <1>6, <1>7, <1>8, <1>9, <1>10, <1>11, <1>12, <1>13
    DEF Next, Step

(***************************************************************************)
(* When every call of sendPreKeys is on the main thread and the count      *)
(* never fails, a prekey the server can give to a peer can be used until   *)
(* the ids have run out, unless its save failed and the process died:      *)
(* whatever else is lost, fails or is late, and wherever the process dies. *)
(***************************************************************************)
THEOREM PublishedUsable ==
  ASSUME Background = {}, "count" \notin Faults
  PROVE  Spec => []PublishedIsUsable
  <1>1. Spec => [](TypeInv /\ DenseInv /\ UsableInv)
    BY TypeInit, TypeStep, DenseInit, DenseStep, UsableInit, UsableStep, PTL DEF Spec
  <1>2. UsableInv => PublishedIsUsable
    BY DEF UsableInv, IssuedIsHeld, Issued, PublishedIsUsable
  <1> QED BY <1>1, <1>2, PTL

(***************************************************************************)
(* If no save fails either, what was issued is in the table, used up or    *)
(* not: rows are only ever taken over by prekeys of another id.            *)
(***************************************************************************)
IssuedIsStored == ~ranOut => \A p \in Issued : rows[p.id] = p.key

StoredInv == UsableInv /\ IssuedIsStored

LEMMA StoredStep ==
  ASSUME Background = {}, Faults = {}
  PROVE  /\ TypeInv /\ MemoryBackedByTable /\ DenseInv /\ StoredInv
         /\ UsableInv' /\ [Next]_vars
         => StoredInv'
  <1> SUFFICES ASSUME TypeInv, MemoryBackedByTable, DenseInv, StoredInv,
                      UsableInv', [Next]_vars
               PROVE  IssuedIsStored'
    BY DEF StoredInv
  <1>1. Threads = {Main}
    BY DEF Threads
  <1>2. /\ pc \in [{Main} -> {"idle", "generate", "save"}]
        /\ batch \in [{Main} -> Batch]
    BY <1>1 DEF TypeInv, TypeOK
  (* Steps that leave the table alone and issue nothing new. *)
  <1>3. ASSUME rows' = rows, ranOut' = ranOut, Issued' \subseteq Issued
        PROVE  IssuedIsStored'
    BY <1>3 DEF StoredInv, IssuedIsStored
  <1>4. CASE AddPreKey(Main)
    <2> DEFINE p == PreKeyAt(batch[Main], batch[Main].saved)
    <2>1. /\ p \in PreKey /\ batch[Main].saved \in 0..(BatchSize - 1)
          /\ batch'[Main].start = batch[Main].start
          /\ batch'[Main].key = batch[Main].key
          /\ batch'[Main].saved = batch[Main].saved + 1
      BY <1>1, <1>4, SavingType
    <2>2. StorePreKey(p) /\ published' = published /\ wire' = wire
      BY <1>4 DEF AddPreKey, remote
    <2>3. Issued' \subseteq Issued \cup {p}
      <3>1. Saved' \subseteq Saved \cup {p}
        BY <2>1, SizesAssumption DEF Saved, PreKeyAt
      <3> QED BY <3>1, <2>2 DEF Issued, PreKeysOf, PreKeyAt
    <2>4. rows' = [rows EXCEPT ![p.id] = p.key] /\ (ranOut => ranOut')
      BY <2>2 DEF StorePreKey
    <2> SUFFICES ASSUME ~ranOut', NEW q \in Issued \cup {p}
                 PROVE  rows'[q.id] = q.key
      BY <2>3 DEF IssuedIsStored
    <2>5. rows \in [PreKeyId -> 0..MaxBatches] /\ p.id \in PreKeyId
      BY <2>1 DEF TypeInv, TypeOK, PreKey
    <2>6. CASE q = p
      BY <2>6, <2>4, <2>5
    <2>7. CASE q \in Issued
      <3>1. rows[q.id] = q.key
        BY <2>4, <2>7 DEF StoredInv, IssuedIsStored
      <3>2. q.id \in PreKeyId /\ q.key # NoKey
        BY <2>7, IssuedType, SizesAssumption DEF StoredInv, UsableInv, PreKey, Key, NoKey
      <3>3. rows[p.id] = NoKey
        BY <1>4, <2>4, NextRow DEF StoredInv
      <3> QED BY <3>1, <3>2, <3>3, <2>4, <2>5
    <2> QED BY <2>6, <2>7
  <1>5. CASE GeneratePreKeys(Main)
    <2>1. Saved' = {}
      BY <1>2, <1>5 DEF GeneratePreKeys, Saved
    <2> QED BY <2>1, <1>3, <1>5 DEF Issued, GeneratePreKeys, remote, store
  <1>6. CASE SendPreKeys(Main) \/ GenerateNothing(Main)
    BY <1>3, <1>6 DEF SendPreKeys, GenerateNothing, Issued, Saved, remote, store
  <1>7. CASE Upload(Main)
    <2>1. /\ batch'[Main].saved = 0 /\ batch[Main].saved = BatchSize
          /\ wire' = wire \cup {batch[Main]}
      BY <1>2, <1>7 DEF Upload, NoBatch
    <2>2. Saved' = {} /\ PreKeysOf(batch[Main]) = Saved
      BY <2>1 DEF Saved, PreKeysOf
    <2>3. Issued' \subseteq Issued
      BY <2>1, <2>2, <1>7 DEF Issued, Upload, PreKeysOf, PreKeyAt
    <2> QED BY <2>3, <1>3, <1>7 DEF Upload, store
  <1>8. CASE RunMainBlock
    BY <1>8 DEF RunMainBlock, StoredInv, UsableInv
  <1>9. ASSUME NEW k \in awaiting, UploadCallback(k) PROVE IssuedIsStored'
    BY <1>3, <1>9 DEF UploadCallback, Issued, Saved, store
  <1>10. ASSUME NEW b \in wire, ServerReceive(b) PROVE IssuedIsStored'
    <2>1. Saved' = Saved
      BY <1>10 DEF Saved, ServerReceive, local
    <2>2. Issued' \subseteq Issued
      BY <2>1, <1>10 DEF Issued, ServerReceive
    <2> QED BY <2>2, <1>3, <1>10 DEF ServerReceive, local, store
  <1>11. ASSUME NEW p \in published, ReceivePreKeyMessage(p) PROVE IssuedIsStored'
    BY <1>3, <1>11 DEF ReceivePreKeyMessage, Issued, Saved
  <1>12. CASE Restart
    <2>1. /\ batch'[Main].saved = 0 /\ rows' = disk /\ ranOut' = ranOut
          /\ published' = published /\ wire' = wire
      BY <1>1, <1>12 DEF Restart, NoBatch
    <2>2. disk = rows
      BY DEF MemoryBackedByTable
    <2>3. Saved' = {}
      BY <2>1 DEF Saved
    <2> QED BY <2>1, <2>2, <2>3, <1>3 DEF Issued
  <1>13. CASE UNCHANGED vars
    BY <1>3, <1>13 DEF vars, local, store, remote, Issued, Saved
  <1> QED
    BY <1>1, <1>4, <1>5, <1>6, <1>7, <1>8, <1>9, <1>10, <1>11, <1>12, <1>13
    DEF Next, Step

(***************************************************************************)
(* What the README says of the local database is true of every run whose   *)
(* calls are all on the main thread and in which neither a save nor a      *)
(* count fails: until the ids run out, a prekey that was uploaded is in    *)
(* the file.  With a second thread it is not: see MCPreKeys_stored.        *)
(***************************************************************************)
THEOREM PublishedStored ==
  ASSUME Background = {}, Faults = {}
  PROVE  Spec => []PublishedIsStored
  <1>1. Init => MemoryBackedByTable /\ StoredInv
    <2>1. Init => MemoryBackedByTable
      BY DEF Init, MemoryBackedByTable
    <2>2. Init => Issued = {}
      BY DEF Init, Issued, Saved, NoBatch, Threads
    <2> QED BY <2>1, <2>2, UsableInit DEF StoredInv, IssuedIsStored
  <1> DEFINE I == TypeInv /\ MemoryBackedByTable /\ DenseInv /\ StoredInv
  <1>2. "count" \notin Faults
    OBVIOUS
  <1>3. I /\ [Next]_vars => I'
    BY <1>2, TypeStep, BackedStep, DenseStep, UsableStep, StoredStep DEF StoredInv
  <1>4. I => PublishedIsStored
    BY DEF MemoryBackedByTable, StoredInv, IssuedIsStored, Issued, PublishedIsStored
  <1>5. Init => I
    BY <1>1, TypeInit, DenseInit
  <1> HIDE DEF I
  <1> QED BY <1>3, <1>4, <1>5, PTL DEF Spec

-----------------------------------------------------------------------------
(***************************************************************************)
(* preKeysSending, when every call is on the main thread.  The flag is     *)
(* read when a call begins and set when it has generated its batch; that   *)
(* nothing sets it in between is what keeps a second upload from starting. *)
(***************************************************************************)
SendingInv ==
    /\ preKeysSending <=> (awaiting # {} \/ pc[Main] = "save")
    /\ pc[Main] # "idle" => awaiting = {}
    /\ awaiting = {} \/ \E k \in Key : awaiting = {k}

LEMMA SendingStep ==
  ASSUME Background = {}
  PROVE  TypeInv /\ SendingInv /\ [Next]_vars => SendingInv'
  <1> SUFFICES ASSUME TypeInv, SendingInv, [Next]_vars PROVE SendingInv'
    OBVIOUS
  <1>1. Threads = {Main}
    BY DEF Threads
  <1>2. /\ pc \in [{Main} -> {"idle", "generate", "save"}]
        /\ batch \in [{Main} -> Batch]
    BY <1>1 DEF TypeInv, TypeOK
  <1>3. CASE SendPreKeys(Main)
    <2>1. pc[Main] = "idle" /\ ~preKeysSending /\ pc'[Main] = "generate"
      BY <1>2, <1>3 DEF SendPreKeys
    <2> QED BY <2>1, <1>3 DEF SendPreKeys, SendingInv, remote
  <1>4. CASE GeneratePreKeys(Main)
    <2>1. pc[Main] = "generate" /\ preKeysSending' /\ pc'[Main] = "save"
      BY <1>2, <1>4 DEF GeneratePreKeys
    <2> QED BY <2>1, <1>4 DEF GeneratePreKeys, SendingInv, remote
  <1>5. CASE GenerateNothing(Main)
    <2>1. pc[Main] = "generate" /\ pc'[Main] = "idle"
      BY <1>2, <1>5 DEF GenerateNothing
    <2> QED BY <2>1, <1>5 DEF GenerateNothing, SendingInv, remote
  <1>6. CASE AddPreKey(Main)
    BY <1>6 DEF AddPreKey, SendingInv, remote
  <1>7. CASE Upload(Main)
    <2>1. pc[Main] = "save" /\ pc'[Main] = "idle" /\ awaiting' = awaiting \cup {batch[Main].key}
      BY <1>2, <1>7 DEF Upload
    <2>2. batch[Main].key \in Key
      BY <2>1, <1>1 DEF TypeInv, KeysGiven
    <2>3. awaiting' = {batch[Main].key}
      BY <2>1 DEF SendingInv
    <2> QED BY <2>1, <2>2, <2>3, <1>7 DEF Upload, SendingInv
  <1>8. CASE RunMainBlock
    BY <1>8 DEF RunMainBlock, SendingInv, remote
  <1>9. ASSUME NEW k \in awaiting, UploadCallback(k) PROVE SendingInv'
    <2>1. awaiting' = {} /\ pc[Main] = "idle"
      BY <1>2, <1>9 DEF UploadCallback, SendingInv
    <2> QED BY <2>1, <1>9 DEF UploadCallback, SendingInv
  <1>10. ASSUME NEW b \in wire, ServerReceive(b) PROVE SendingInv'
    BY <1>10 DEF ServerReceive, SendingInv, local
  <1>11. ASSUME NEW p \in published, ReceivePreKeyMessage(p) PROVE SendingInv'
    BY <1>11 DEF ReceivePreKeyMessage, SendingInv
  <1>12. CASE Restart
    <2>1. pc'[Main] = "idle"
      BY <1>1, <1>12 DEF Restart
    <2> QED BY <2>1, <1>12 DEF Restart, SendingInv
  <1>13. CASE UNCHANGED vars
    BY <1>13 DEF vars, local, remote, SendingInv
  <1> QED
    BY <1>1, <1>3, <1>4, <1>5, <1>6, <1>7, <1>8, <1>9, <1>10, <1>11, <1>12, <1>13
    DEF Next, Step

(* When every call of sendPreKeys is on the main thread, preKeysSending is *)
(* set exactly while one upload is being saved or awaited, so that a       *)
(* shortage is neither served twice nor refused for an upload that is over. *)
THEOREM SendingExact ==
  ASSUME Background = {}
  PROVE  Spec => []SendingIsExact
  <1>1. Init => SendingInv
    BY DEF Init, SendingInv, Threads
  <1>2. SendingInv => SendingIsExact
    <2> SUFFICES ASSUME SendingInv PROVE SendingIsExact
      OBVIOUS
    <2> DEFINE S == {t \in Threads : pc[t] = "save"}
    <2>1. S = IF pc[Main] = "save" THEN {Main} ELSE {}
      BY DEF Threads
    <2>2. Cardinality({}) = 0 /\ Cardinality({Main}) = 1
      BY FS_EmptySet, FS_Singleton
    <2>3. \A k \in Key : Cardinality({k}) = 1
      BY FS_Singleton
    <2>4. Cardinality(awaiting) + Cardinality(S) <= 1
      <3>1. CASE pc[Main] = "save"
        <4>1. awaiting = {} /\ S = {Main}
          BY <3>1, <2>1 DEF SendingInv
        <4> QED BY <4>1, <2>2
      <3>2. CASE pc[Main] # "save"
        <4>1. S = {}
          BY <3>2, <2>1
        <4>2. Cardinality(awaiting) = 0 \/ Cardinality(awaiting) = 1
          BY <2>2, <2>3 DEF SendingInv
        <4> QED BY <4>1, <4>2, <2>2
      <3> QED BY <3>1, <3>2
    <2>5. preKeysSending <=> (awaiting # {} \/ \E t \in Threads : pc[t] = "save")
      BY DEF SendingInv, Threads
    <2> QED BY <2>4, <2>5 DEF SendingIsExact
  <1> QED BY <1>1, <1>2, TypeInit, TypeStep, SendingStep, PTL DEF Spec

=============================================================================
