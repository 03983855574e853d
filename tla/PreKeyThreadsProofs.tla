------------------------- MODULE PreKeyThreadsProofs -------------------------
(***************************************************************************)
(* Theorems about PreKeys when sendPreKeys is called on any threads, as it *)
(* is when the completion block of a registration calls it.                *)
(***************************************************************************)
EXTENDS PreKeysProofs

-----------------------------------------------------------------------------
(***************************************************************************)
(* A prekey that was used up, on any threads and with any faults.  It can  *)
(* come back in two ways only: it is stored a second time, or a restart    *)
(* loads its row.  The first does not happen, because each prekey is in    *)
(* one place: waiting in its batch, waiting on the main queue once, or     *)
(* stored.  A new batch has key material that is nowhere yet.              *)
(***************************************************************************)
HasBeenStored(p) == keys[p.id] = p.key \/ p \in consumed

KeysAreOld ==
    /\ \A i \in PreKeyId : keys[i] <= generated
    /\ \A p \in consumed : p.key <= generated
    /\ \A k \in 1..Len(mainQueue) : mainQueue[k].key <= generated
    /\ \A t \in Threads : batch[t].key <= generated

KeysDiffer ==
    \A s, t \in Threads :
        pc[s] = "save" /\ pc[t] = "save" /\ s # t => batch[s].key # batch[t].key

(* The prekeys of a batch that have not been handed to addPreKey. *)
Remaining(t) ==
    IF pc[t] = "save" THEN {PreKeyAt(batch[t], n) : n \in batch[t].saved..(BatchSize - 1)}
                      ELSE {}

BatchIsNew ==
    \A t \in Threads : \A p \in Remaining(t) : ~HasBeenStored(p) /\ ~Queued(p)

QueueIsNew ==
    \A k \in 1..Len(mainQueue) :
        /\ ~HasBeenStored(mainQueue[k])
        /\ \A j \in 1..Len(mainQueue) : j # k => mainQueue[j] # mainQueue[k]

OnceInv == KeysAreOld /\ KeysDiffer /\ BatchIsNew /\ QueueIsNew /\ ConsumedIsGone

(* The ids of one batch differ: it is never longer than the ids are many. *)
LEMMA IdsDiffer ==
  ASSUME NEW start \in 1..(MaxPreKeyId + 1),
         NEW m \in 0..(BatchSize - 1), NEW n \in 0..(BatchSize - 1), m # n
  PROVE  IdAt(start, m) # IdAt(start, n)
  BY SizesAssumption DEF IdAt

LEMMA OnceTypes ==
  ASSUME TypeInv
  PROVE  /\ keys \in [PreKeyId -> Nat] /\ generated \in Nat
         /\ \A p \in PreKey : p.id \in PreKeyId /\ p.key \in Nat /\ p.key # NoKey
         /\ consumed \subseteq PreKey
         /\ mainQueue \in Seq(PreKey) /\ Len(mainQueue) \in Nat
         /\ \A k \in 1..Len(mainQueue) : mainQueue[k] \in PreKey
         /\ \A t \in Threads : batch[t].key \in Nat
         /\ \A t \in Threads : Remaining(t) \subseteq PreKey
  <1>1. /\ keys \in [PreKeyId -> Nat] /\ generated \in Nat
        /\ \A p \in PreKey : p.id \in PreKeyId /\ p.key \in Nat /\ p.key # NoKey
        /\ consumed \subseteq PreKey /\ mainQueue \in Seq(PreKey)
    BY SizesAssumption DEF TypeInv, TypeOK, PreKey, Key, NoKey
  <1>2. Len(mainQueue) \in Nat /\ \A k \in 1..Len(mainQueue) : mainQueue[k] \in PreKey
    BY <1>1, LenProperties, ElementOfSeq
  <1>3. \A t \in Threads : batch[t] \in Batch
    BY DEF TypeInv, TypeOK
  <1>4. \A t \in Threads : batch[t].key \in Nat /\ batch[t].saved \in Nat
    BY <1>3, SizesAssumption DEF Batch
  <1>5. ASSUME NEW t \in Threads, pc[t] = "save",
               NEW n \in batch[t].saved..(BatchSize - 1)
        PROVE  PreKeyAt(batch[t], n) \in PreKey
    <2>1. batch[t].key \in Key /\ n \in 0..(BatchSize - 1)
      BY <1>4, <1>5, SizesAssumption DEF TypeInv, KeysGiven
    <2> QED BY <2>1, <1>3, PreKeyAtType
  <1>6. \A t \in Threads : Remaining(t) \subseteq PreKey
    BY <1>5 DEF Remaining
  <1> QED BY <1>1, <1>2, <1>4, <1>6

(* addPreKey takes the next prekey off its batch and no other. *)
LEMMA RemainingAdd ==
  ASSUME TypeInv, NEW t \in Threads, AddPreKey(t)
  PROVE  LET p == PreKeyAt(batch[t], batch[t].saved)
         IN  /\ p \in PreKey /\ p \in Remaining(t)
             /\ Remaining(t)' \subseteq Remaining(t) \ {p}
             /\ \A u \in Threads : u # t => Remaining(u)' = Remaining(u)
             /\ \A u \in Threads : batch'[u].key = batch[u].key
  <1> DEFINE b == batch[t]
             p == PreKeyAt(b, b.saved)
  <1>1. /\ p \in PreKey /\ b.start \in 1..(MaxPreKeyId + 1) /\ b.saved \in 0..(BatchSize - 1)
        /\ \A u \in Threads : u # t => batch'[u] = batch[u]
        /\ batch'[t].start = b.start
        /\ batch'[t].key = b.key
        /\ batch'[t].saved = b.saved + 1
    BY SavingType
  <1>2. pc' = pc /\ pc[t] = "save"
    BY DEF AddPreKey
  <1>3. p \in Remaining(t)
    BY <1>1, <1>2, SizesAssumption DEF Remaining
  <1>4. ASSUME NEW n \in (b.saved + 1)..(BatchSize - 1)
        PROVE  PreKeyAt(b, n) \in Remaining(t) /\ PreKeyAt(b, n) # p
    <2>1. n \in b.saved..(BatchSize - 1) /\ n \in 0..(BatchSize - 1) /\ n # b.saved
      BY <1>1, <1>4, SizesAssumption
    <2>2. IdAt(b.start, n) # IdAt(b.start, b.saved)
      BY <2>1, <1>1, IdsDiffer
    <2> QED BY <2>1, <2>2, <1>2 DEF Remaining, PreKeyAt
  <1>5. Remaining(t)' \subseteq Remaining(t) \ {p}
    <2>1. Remaining(t)' = {PreKeyAt(b, n) : n \in (b.saved + 1)..(BatchSize - 1)}
      BY <1>1, <1>2 DEF Remaining, PreKeyAt
    <2> QED BY <2>1, <1>4
  <1>6. \A u \in Threads : u # t => Remaining(u)' = Remaining(u)
    BY <1>1, <1>2 DEF Remaining, PreKeyAt
  <1> QED BY <1>1, <1>3, <1>5, <1>6

(* Storing a prekey for the first time brings back none that was used up,  *)
(* and stores no other.                                                    *)
LEMMA StoreOnce ==
  ASSUME TypeInv, OnceInv, NEW p \in PreKey, StorePreKey(p), consumed' = consumed,
         ~HasBeenStored(p), p.key <= generated, generated' = generated
  PROVE  /\ ConsumedIsGone'
         /\ \A q \in PreKey : q # p /\ ~HasBeenStored(q) => ~HasBeenStored(q)'
         /\ \A i \in PreKeyId : keys'[i] <= generated'
  <1>1. keys' = [keys EXCEPT ![p.id] = p.key]
    BY DEF StorePreKey
  <1>2. ASSUME NEW q \in PreKey, q # p
        PROVE  keys'[q.id] = q.key => keys[q.id] = q.key
    <2>1. CASE q.id = p.id
      BY <2>1, <1>1, <1>2, OnceTypes, PreKeyEqual
    <2>2. CASE q.id # p.id
      BY <2>2, <1>1, OnceTypes
    <2> QED BY <2>1, <2>2
  <1>3. ConsumedIsGone'
    <2> SUFFICES ASSUME NEW q \in consumed PROVE keys'[q.id] # q.key
      BY DEF ConsumedIsGone
    <2>1. q \in PreKey /\ q # p /\ keys[q.id] # q.key
      BY OnceTypes DEF HasBeenStored, OnceInv, ConsumedIsGone
    <2> QED BY <2>1, <1>2
  <1>4. \A q \in PreKey : q # p /\ ~HasBeenStored(q) => ~HasBeenStored(q)'
    BY <1>2 DEF HasBeenStored
  <1>5. \A i \in PreKeyId : keys'[i] <= generated'
    BY <1>1, OnceTypes DEF OnceInv, KeysAreOld
  <1> QED BY <1>3, <1>4, <1>5

(* A prekey that waits in a batch has the key material of the batch. *)
LEMMA RemainingKey ==
  ASSUME NEW t \in Threads
  PROVE  \A p \in Remaining(t) : p.key = batch[t].key /\ pc[t] = "save"
  BY DEF Remaining, PreKeyAt

LEMMA OnceAdd ==
  ASSUME TypeInv, OnceInv, NEW t \in Threads, AddPreKey(t)
  PROVE  OnceInv'
  <1> DEFINE p == PreKeyAt(batch[t], batch[t].saved)
             L == Len(mainQueue)
  <1>1. /\ p \in PreKey /\ p \in Remaining(t)
        /\ Remaining(t)' \subseteq Remaining(t) \ {p}
        /\ \A u \in Threads : u # t => Remaining(u)' = Remaining(u)
        /\ \A u \in Threads : batch'[u].key = batch[u].key
    BY RemainingAdd
  <1>2. pc' = pc /\ generated' = generated /\ consumed' = consumed
    BY DEF AddPreKey, remote
  <1>3. ~HasBeenStored(p) /\ ~Queued(p) /\ p.key = batch[t].key /\ pc[t] = "save"
    BY <1>1, RemainingKey DEF OnceInv, BatchIsNew
  <1>4. p.key <= generated
    BY <1>3 DEF OnceInv, KeysAreOld
  <1>5. ASSUME NEW u \in Threads
        PROVE  Remaining(u)' \subseteq Remaining(u) /\ p \notin Remaining(u)'
    <2>1. CASE u = t
      BY <2>1, <1>1
    <2>2. CASE u # t
      <3>1. pc[u] = "save" => batch[u].key # p.key
        BY <2>2, <1>3 DEF OnceInv, KeysDiffer
      <3> QED BY <3>1, <2>2, <1>1, RemainingKey
    <2> QED BY <2>1, <2>2
  <1>6. KeysDiffer'
    BY <1>1, <1>2 DEF OnceInv, KeysDiffer
  <1>7. L \in Nat /\ mainQueue \in Seq(PreKey) /\ \A k \in 1..L : mainQueue[k] \in PreKey
    BY OnceTypes
  <1>8. ASSUME t = Main PROVE OnceInv'
    <2>1. StorePreKey(p) /\ mainQueue' = mainQueue
      BY <1>8 DEF AddPreKey
    <2>2. /\ ConsumedIsGone'
          /\ \A q \in PreKey : q # p /\ ~HasBeenStored(q) => ~HasBeenStored(q)'
          /\ \A i \in PreKeyId : keys'[i] <= generated'
      BY <1>1, <1>2, <1>3, <1>4, <2>1, StoreOnce
    <2>3. KeysAreOld'
      BY <2>1, <2>2, <1>1, <1>2 DEF OnceInv, KeysAreOld
    <2>4. BatchIsNew'
      <3> SUFFICES ASSUME NEW u \in Threads, NEW q \in Remaining(u)'
                   PROVE  ~HasBeenStored(q)' /\ ~Queued(q)'
        BY DEF BatchIsNew
      <3>1. q \in Remaining(u) /\ q # p /\ q \in PreKey
        BY <1>5, OnceTypes
      <3> QED BY <3>1, <2>1, <2>2 DEF OnceInv, BatchIsNew, Queued
    <2>5. QueueIsNew'
      <3> SUFFICES ASSUME NEW k \in 1..L PROVE ~HasBeenStored(mainQueue[k])'
        BY <2>1 DEF OnceInv, QueueIsNew
      <3>1. mainQueue[k] \in PreKey /\ mainQueue[k] # p /\ ~HasBeenStored(mainQueue[k])
        BY <1>3, <1>7 DEF OnceInv, QueueIsNew, Queued
      <3>2. PICK q \in PreKey : q = mainQueue[k]
        BY <3>1
      <3>3. ~HasBeenStored(q)'
        BY <3>1, <3>2, <2>2
      <3> QED BY <3>2, <3>3, <2>1 DEF HasBeenStored
    <2> QED BY <1>6, <2>2, <2>3, <2>4, <2>5 DEF OnceInv
  <1>9. ASSUME t # Main PROVE OnceInv'
    <2>1. mainQueue' = Append(mainQueue, p) /\ keys' = keys
      BY <1>9 DEF AddPreKey, store
    <2>2. /\ Len(mainQueue') = L + 1
          /\ \A k \in 1..L : mainQueue'[k] = mainQueue[k]
          /\ mainQueue'[L + 1] = p
      BY <1>1, <1>7, <2>1, AppendProperties
    <2>3. \A q : HasBeenStored(q)' <=> HasBeenStored(q)
      BY <1>2, <2>1 DEF HasBeenStored
    <2>4. \A k \in 1..(L + 1) : k \in 1..L \/ k = L + 1
      BY <1>7
    <2>5. KeysAreOld'
      BY <1>1, <1>2, <1>4, <2>1, <2>2, <2>4 DEF OnceInv, KeysAreOld
    <2>6. BatchIsNew'
      <3> SUFFICES ASSUME NEW u \in Threads, NEW q \in Remaining(u)'
                   PROVE  ~HasBeenStored(q) /\ \A k \in 1..(L + 1) : mainQueue'[k] # q
        BY <2>2, <2>3 DEF BatchIsNew, Queued
      <3>1. q \in Remaining(u) /\ q # p
        BY <1>5
      <3>2. ~HasBeenStored(q) /\ ~Queued(q)
        BY <3>1 DEF OnceInv, BatchIsNew
      <3> QED BY <3>1, <3>2, <2>2, <2>4 DEF Queued
    <2>7. QueueIsNew'
      <3> SUFFICES ASSUME NEW k \in 1..(L + 1)
                   PROVE  /\ ~HasBeenStored(mainQueue[k])'
                          /\ \A j \in 1..(L + 1) : j # k => mainQueue'[j] # mainQueue'[k]
        BY <2>2 DEF QueueIsNew
      <3>1. ~HasBeenStored(mainQueue'[k])
        BY <1>3, <2>2, <2>4 DEF OnceInv, QueueIsNew
      <3>2. ~HasBeenStored(mainQueue[k])'
        BY <3>1, <1>2, <2>1 DEF HasBeenStored
      <3>3. \A j \in 1..L : mainQueue[j] # p
        BY <1>3 DEF Queued
      <3>4. \A j \in 1..L : k \in 1..L /\ j # k => mainQueue[j] # mainQueue[k]
        BY DEF OnceInv, QueueIsNew
      <3>5. ASSUME NEW j \in 1..(L + 1), j # k PROVE mainQueue'[j] # mainQueue'[k]
        BY <3>3, <3>4, <3>5, <2>2, <2>4
      <3> QED BY <3>2, <3>5
    <2>8. ConsumedIsGone'
      BY <1>2, <2>1 DEF OnceInv, ConsumedIsGone
    <2> QED BY <1>6, <2>5, <2>6, <2>7, <2>8 DEF OnceInv
  <1> QED BY <1>8, <1>9

LEMMA OnceRunBlock ==
  ASSUME TypeInv, OnceInv, RunMainBlock
  PROVE  OnceInv'
  <1> DEFINE p == Head(mainQueue)
             L == Len(mainQueue)
  <1>1. mainQueue \in Seq(PreKey) /\ mainQueue # <<>>
    BY DEF RunMainBlock, TypeInv, TypeOK
  <1>2. L \in Nat /\ L # 0 /\ 1 \in 1..L /\ \A k \in 1..L : mainQueue[k] \in PreKey
    <2>1. L \in Nat /\ L # 0
      BY <1>1, LenProperties, EmptySeq
    <2> QED BY <2>1, OnceTypes
  <1>3. /\ p = mainQueue[1] /\ p \in PreKey
        /\ mainQueue' = Tail(mainQueue) /\ Len(mainQueue') = L - 1
        /\ \A k \in 1..(L - 1) : mainQueue'[k] = mainQueue[k + 1]
    BY <1>1, HeadTailProperties DEF RunMainBlock
  <1>4. ~HasBeenStored(p) /\ p.key <= generated
    BY <1>2, <1>3 DEF OnceInv, QueueIsNew, KeysAreOld
  <1>5. /\ StorePreKey(p) /\ pc' = pc /\ batch' = batch
        /\ generated' = generated /\ consumed' = consumed
    BY DEF RunMainBlock, remote
  <1>6. /\ ConsumedIsGone'
        /\ \A q \in PreKey : q # p /\ ~HasBeenStored(q) => ~HasBeenStored(q)'
        /\ \A i \in PreKeyId : keys'[i] <= generated'
    BY <1>3, <1>4, <1>5, StoreOnce
  <1>7. \A k \in 1..(L - 1) : k + 1 \in 1..L /\ k + 1 # 1
    BY <1>2
  <1>8. KeysAreOld' /\ KeysDiffer'
    BY <1>3, <1>5, <1>6, <1>7 DEF OnceInv, KeysAreOld, KeysDiffer
  <1>9. BatchIsNew'
    <2> SUFFICES ASSUME NEW u \in Threads, NEW q \in Remaining(u)
                 PROVE  ~HasBeenStored(q)' /\ ~Queued(q)'
      BY <1>5 DEF BatchIsNew, Remaining
    <2>1. ~HasBeenStored(q) /\ ~Queued(q) /\ q \in PreKey
      BY OnceTypes DEF OnceInv, BatchIsNew
    <2>2. q # p
      BY <2>1, <1>2, <1>3 DEF Queued
    <2>3. ~Queued(q)'
      BY <2>1, <1>3, <1>7 DEF Queued
    <2> QED BY <2>1, <2>2, <2>3, <1>6
  <1>10. QueueIsNew'
    <2> SUFFICES ASSUME NEW k \in 1..(L - 1)
                 PROVE  /\ ~HasBeenStored(mainQueue[k])'
                        /\ \A j \in 1..(L - 1) : j # k => mainQueue'[j] # mainQueue'[k]
      BY <1>3 DEF QueueIsNew
    <2>1. mainQueue[k + 1] \in PreKey /\ mainQueue[k + 1] # p /\ ~HasBeenStored(mainQueue[k + 1])
      BY <1>2, <1>3, <1>7 DEF OnceInv, QueueIsNew
    <2>2. PICK q \in PreKey : q = mainQueue[k + 1]
      BY <2>1
    <2>3. ~HasBeenStored(q)' /\ mainQueue'[k] = q
      BY <2>1, <2>2, <1>3, <1>6
    <2>4. ~HasBeenStored(mainQueue[k])'
      BY <2>3 DEF HasBeenStored
    <2>5. ASSUME NEW j \in 1..(L - 1), j # k PROVE mainQueue'[j] # mainQueue'[k]
      <3>1. j + 1 # k + 1
        BY <2>5
      <3> QED BY <3>1, <1>3, <1>7 DEF OnceInv, QueueIsNew
    <2> QED BY <2>4, <2>5
  <1> QED BY <1>6, <1>8, <1>9, <1>10 DEF OnceInv

LEMMA OnceGenerate ==
  ASSUME TypeInv, OnceInv, NEW t \in Threads, GeneratePreKeys(t)
  PROVE  OnceInv'
  <1>1. /\ generated' = generated + 1 /\ keys' = keys
        /\ consumed' = consumed /\ mainQueue' = mainQueue
    BY DEF GeneratePreKeys, store, remote
  <1>2. /\ batch'[t].key = generated + 1
        /\ \A u \in Threads : u # t => batch'[u] = batch[u] /\ pc'[u] = pc[u]
    BY DEF GeneratePreKeys, TypeInv, TypeOK
  <1>3. \A q : HasBeenStored(q)' = HasBeenStored(q) /\ Queued(q)' = Queued(q)
    BY <1>1 DEF HasBeenStored, Queued
  <1>4. ConsumedIsGone' /\ QueueIsNew'
    BY <1>1, <1>3 DEF OnceInv, ConsumedIsGone, QueueIsNew
  <1>5. KeysAreOld'
    BY <1>1, <1>2, OnceTypes DEF OnceInv, KeysAreOld
  <1>6. KeysDiffer'
    <2>1. \A u \in Threads : u # t => batch[u].key # generated + 1
      BY OnceTypes DEF OnceInv, KeysAreOld
    <2> QED BY <2>1, <1>2 DEF OnceInv, KeysDiffer
  <1>7. BatchIsNew'
    <2> SUFFICES ASSUME NEW u \in Threads, NEW q \in Remaining(u)'
                 PROVE  ~HasBeenStored(q) /\ ~Queued(q)
      BY <1>3 DEF BatchIsNew
    <2>1. CASE u # t
      <3>1. Remaining(u)' = Remaining(u)
        BY <2>1, <1>2 DEF Remaining, PreKeyAt
      <3> QED BY <3>1 DEF OnceInv, BatchIsNew
    <2>2. CASE u = t
      <3>1. q.key = generated + 1
        BY <2>2, <1>2 DEF Remaining, PreKeyAt
      <3>2. TypeInv' => q \in PreKey
        <4> SUFFICES ASSUME TypeInv' PROVE q \in PreKey
          OBVIOUS
        <4>1. PICK n \in batch'[u].saved..(BatchSize - 1) : q = PreKeyAt(batch[u], n)'
          BY DEF Remaining
        <4>2. batch'[u] \in Batch /\ batch'[u].key \in Key
          BY <2>2 DEF TypeInv, TypeOK, KeysGiven, Remaining, GeneratePreKeys
        <4>3. n \in 0..(BatchSize - 1)
          BY <4>1, <4>2, SizesAssumption DEF Batch
        <4>4. q = PreKeyAt(batch'[u], n)
          BY <4>1 DEF PreKeyAt
        <4> QED BY <4>2, <4>3, <4>4, PreKeyAtType
      <3>3. TypeInv'
        BY TypeStep DEF Next, Step
      <3>4. q \in PreKey /\ q.id \in PreKeyId /\ keys[q.id] \in Nat
        BY <3>2, <3>3, OnceTypes
      <3>5. ~HasBeenStored(q)
        BY <3>1, <3>4, OnceTypes DEF OnceInv, KeysAreOld, HasBeenStored
      <3>6. ~Queued(q)
        BY <3>1, OnceTypes DEF OnceInv, KeysAreOld, Queued
      <3> QED BY <3>5, <3>6
    <2> QED BY <2>1, <2>2
  <1> QED BY <1>4, <1>5, <1>6, <1>7 DEF OnceInv

(* Steps that store nothing and leave the batches that wait as they are,   *)
(* or drop one.                                                            *)
LEMMA OnceSame ==
  ASSUME OnceInv, TypeInv, TypeInv', keys' = keys, consumed' = consumed,
         mainQueue' = mainQueue, generated' = generated,
         \A t \in Threads : pc'[t] = "save" => pc[t] = "save" /\ batch'[t] = batch[t],
         \A t \in Threads : batch'[t].key = batch[t].key \/ batch'[t].key = 0
  PROVE  OnceInv'
  <1>1. \A q : HasBeenStored(q)' = HasBeenStored(q) /\ Queued(q)' = Queued(q)
    BY DEF HasBeenStored, Queued
  <1>2. \A t \in Threads : Remaining(t)' \subseteq Remaining(t)
    BY DEF Remaining, PreKeyAt
  <1>3. KeysAreOld' /\ KeysDiffer'
    BY OnceTypes DEF OnceInv, KeysAreOld, KeysDiffer
  <1>4. BatchIsNew' /\ QueueIsNew' /\ ConsumedIsGone'
    BY <1>1, <1>2 DEF OnceInv, BatchIsNew, QueueIsNew, ConsumedIsGone
  <1> QED BY <1>3, <1>4 DEF OnceInv

LEMMA OnceStep == TypeInv /\ OnceInv /\ [Next]_vars /\ [~Restart]_vars => OnceInv'
  <1> SUFFICES ASSUME TypeInv, OnceInv, [Next]_vars, [~Restart]_vars PROVE OnceInv'
    OBVIOUS
  <1>0. TypeInv'
    BY TypeStep
  <1>1. ASSUME NEW t \in Threads, AddPreKey(t) PROVE OnceInv'
    BY <1>1, OnceAdd
  <1>2. ASSUME NEW t \in Threads, GeneratePreKeys(t) PROVE OnceInv'
    BY <1>2, OnceGenerate
  <1>3. ASSUME NEW t \in Threads, SendPreKeys(t) \/ GenerateNothing(t) PROVE OnceInv'
    <2>1. \A u \in Threads : pc'[u] = "save" => pc[u] = "save"
      BY <1>3 DEF SendPreKeys, GenerateNothing, TypeInv, TypeOK
    <2> QED BY <2>1, <1>0, <1>3, OnceSame DEF SendPreKeys, GenerateNothing, store, remote
  <1>4. ASSUME NEW t \in Threads, Upload(t) PROVE OnceInv'
    <2>1. \A u \in Threads : /\ pc'[u] = "save" => pc[u] = "save" /\ batch'[u] = batch[u]
                             /\ batch'[u].key = batch[u].key \/ batch'[u].key = 0
      BY <1>4 DEF Upload, TypeInv, TypeOK, NoBatch
    <2> QED BY <2>1, <1>0, <1>4, OnceSame DEF Upload, store
  <1>5. CASE RunMainBlock
    BY <1>5, OnceRunBlock
  <1>6. ASSUME NEW k \in awaiting, UploadCallback(k) PROVE OnceInv'
    BY <1>0, <1>6, OnceSame DEF UploadCallback, store
  <1>7. ASSUME NEW b \in wire, ServerReceive(b) PROVE OnceInv'
    BY <1>0, <1>7, OnceSame DEF ServerReceive, local, store
  <1>8. ASSUME NEW p \in published, ReceivePreKeyMessage(p) PROVE OnceInv'
    <2>1. /\ keys[p.id] = p.key /\ keys' = [keys EXCEPT ![p.id] = NoKey]
          /\ consumed' = consumed \cup {p}
          /\ mainQueue' = mainQueue /\ batch' = batch /\ pc' = pc /\ generated' = generated
      BY <1>8 DEF ReceivePreKeyMessage
    <2>2. p \in PreKey /\ HasBeenStored(p)
      BY <2>1 DEF HasBeenStored, TypeInv, TypeOK
    <2>3. ASSUME NEW q \in PreKey, HasBeenStored(q)' PROVE HasBeenStored(q)
      <3>1. keys'[q.id] = q.key => keys[q.id] = q.key
        BY <2>1, <2>2, OnceTypes
      <3> QED BY <3>1, <2>1, <2>2, <2>3 DEF HasBeenStored
    <2>4. KeysAreOld' /\ KeysDiffer'
      BY <2>1, <2>2, OnceTypes DEF OnceInv, KeysAreOld, KeysDiffer, NoKey
    <2>5. BatchIsNew'
      <3> SUFFICES ASSUME NEW u \in Threads, NEW q \in Remaining(u)
                   PROVE  ~HasBeenStored(q)' /\ ~Queued(q)
        BY <2>1 DEF BatchIsNew, Remaining, Queued
      <3> QED BY <2>3, OnceTypes DEF OnceInv, BatchIsNew
    <2>6. QueueIsNew'
      <3> SUFFICES ASSUME NEW k \in 1..Len(mainQueue) PROVE ~HasBeenStored(mainQueue[k])'
        BY <2>1 DEF OnceInv, QueueIsNew
      <3>1. PICK q \in PreKey : q = mainQueue[k]
        BY OnceTypes
      <3>2. ~HasBeenStored(q)'
        BY <3>1, <2>3 DEF OnceInv, QueueIsNew
      <3> QED BY <3>1, <3>2, <2>1 DEF HasBeenStored
    <2>7. ConsumedIsGone'
      BY <2>1, <2>2, OnceTypes DEF OnceInv, ConsumedIsGone
    <2> QED BY <2>4, <2>5, <2>6, <2>7 DEF OnceInv
  <1>9. CASE Restart
    <2>1. UNCHANGED vars
      BY <1>9
    <2> QED BY <2>1, <1>0, OnceSame DEF vars, local, store, remote
  <1>10. CASE UNCHANGED vars
    BY <1>10, <1>0, OnceSame DEF vars, local, store, remote
  <1> QED
    BY <1>1, <1>2, <1>3, <1>4, <1>5, <1>6, <1>7, <1>8, <1>9, <1>10 DEF Next, Step

(***************************************************************************)
(* A prekey that a message has used up stays gone for as long as the       *)
(* process lives: on any threads, with batches that share ids, and with    *)
(* any faults.  Only a restart, which loads the row that remove(preKey:)   *)
(* leaves behind, brings it back: see MCPreKeys_consumed.                  *)
(***************************************************************************)
THEOREM ConsumedGoneUntilRestart ==
  Spec /\ [][~Restart]_vars => []ConsumedIsGone
  <1>1. Init => OnceInv
    <2> SUFFICES ASSUME Init PROVE OnceInv
      OBVIOUS
    <2>1. KeysAreOld
      BY DEF Init, KeysAreOld, NoKey, NoBatch
    <2>2. KeysDiffer /\ BatchIsNew /\ QueueIsNew /\ ConsumedIsGone
      BY DEF Init, KeysDiffer, BatchIsNew, Remaining, QueueIsNew, ConsumedIsGone
    <2> QED BY <2>1, <2>2 DEF OnceInv
  <1>2. OnceInv => ConsumedIsGone
    BY DEF OnceInv
  <1> QED BY <1>1, <1>2, TypeInit, TypeStep, OnceStep, PTL DEF Spec

-----------------------------------------------------------------------------
(***************************************************************************)
(* What the server hands out, when a batch is generated only after all     *)
(* prekeys of the last one are stored, and no process dies before.  The    *)
(* prekeys that wait on the main queue are then those of one batch, whose  *)
(* ids follow the rows of the table in the order in which they wait.       *)
(***************************************************************************)
OneBatch ==
    (\E t \in Threads : GeneratePreKeys(t)) =>
        mainQueue = <<>> /\ \A u \in Threads : pc[u] # "save"

DiesStored == Restart => mainQueue = <<>>

Wrapped(n) == IF n <= MaxPreKeyId THEN n ELSE n - MaxPreKeyId

SavedBy(t) ==
    IF pc[t] = "save" THEN {PreKeyAt(batch[t], n) : n \in 0..(batch[t].saved - 1)} ELSE {}

GivenOut == published \cup (UNION {SavedBy(t) : t \in Threads})
                      \cup (UNION {PreKeysOf(b) : b \in wire})

OneSaver ==
    /\ \A s, t \in Threads : pc[s] = "save" /\ pc[t] = "save" => s = t
    /\ pc[Main] = "save" => mainQueue = <<>>

InTurn ==
    ~ranOut =>
        /\ \A k \in 1..Len(mainQueue) : mainQueue[k].id = Wrapped(RowCount + k)
        /\ \A t \in Threads : pc[t] = "save" =>
              batch[t].start + batch[t].saved = RowCount + Len(mainQueue) + 1

IsHeld(p) == rows[p.id] = p.key /\ keys[p.id] = p.key

GivenIsKept ==
    ~ranOut => \A p \in GivenOut : p \in consumed \/ p \in lost \/ Queued(p) \/ IsHeld(p)

GivenIsStored ==
    ~ranOut => \A p \in GivenOut : Queued(p) \/ rows[p.id] = p.key

TurnInv == FullIsKnown /\ OneSaver /\ InTurn /\ GivenIsKept
           /\ (Faults = {} => GivenIsStored)

Invs == TypeInv /\ MemoryBackedByTable /\ DenseInv

(* The id of the n-th prekey of a batch. *)
LEMMA WrappedId ==
  ASSUME NEW start \in Nat, NEW n \in Nat
  PROVE  IdAt(start, n) = Wrapped(start + n)
  BY SizesAssumption DEF IdAt, Wrapped

LEMMA GivenType ==
  ASSUME TypeInv
  PROVE  GivenOut \subseteq PreKey /\ \A p \in GivenOut : p.id \in PreKeyId /\ p.key # NoKey
  <1>1. published \subseteq PreKey /\ \A b \in wire : PreKeysOf(b) \subseteq PreKey
    BY PreKeysOfType DEF TypeInv, TypeOK, KeysGiven
  <1>2. ASSUME NEW t \in Threads, pc[t] = "save", NEW n \in 0..(batch[t].saved - 1)
        PROVE  PreKeyAt(batch[t], n) \in PreKey
    <2>1. batch[t] \in Batch /\ batch[t].key \in Key
      BY <1>2 DEF TypeInv, TypeOK, KeysGiven
    <2>2. n \in 0..(BatchSize - 1)
      BY <1>2, <2>1, SizesAssumption DEF Batch
    <2> QED BY <2>1, <2>2, PreKeyAtType
  <1>3. \A t \in Threads : SavedBy(t) \subseteq PreKey
    BY <1>2 DEF SavedBy
  <1>4. GivenOut \subseteq PreKey
    BY <1>1, <1>3 DEF GivenOut
  <1> QED BY <1>4, SizesAssumption DEF PreKey, Key, NoKey

LEMMA TurnInit == Init => TurnInv
  <1> SUFFICES ASSUME Init PROVE TurnInv
    OBVIOUS
  <1>1. FullIsKnown
    BY UsableInit DEF UsableInv
  <1>2. GivenOut = {}
    BY DEF Init, GivenOut, SavedBy
  <1> QED BY <1>1, <1>2 DEF Init, TurnInv, OneSaver, InTurn, GivenIsKept, GivenIsStored

(* Steps that store nothing, give out nothing and end no upload. *)
LEMMA TurnSame ==
  ASSUME TurnInv, UNCHANGED <<store, mainQueue, consumed>>,
         GivenOut' \subseteq GivenOut,
         \A t \in Threads : pc'[t] = "save" => pc[t] = "save" /\ batch'[t] = batch[t]
  PROVE  TurnInv'
  <1>1. RowCount' = RowCount /\ TableFull' = TableFull
    BY DEF RowCount, TableFull, store
  <1>2. \A p : IsHeld(p)' = IsHeld(p) /\ Queued(p)' = Queued(p)
    BY DEF IsHeld, Queued, store
  <1>3. FullIsKnown' /\ OneSaver'
    BY <1>1 DEF TurnInv, FullIsKnown, OneSaver, store, Threads
  <1>4. InTurn'
    BY <1>1 DEF TurnInv, InTurn, store
  <1>5. GivenIsKept' /\ (Faults = {} => GivenIsStored')
    BY <1>2 DEF TurnInv, GivenIsKept, GivenIsStored, store
  <1> QED BY <1>3, <1>4, <1>5 DEF TurnInv

(* Storing the prekey whose turn it is takes no row from another one. *)
LEMMA StoreInTurn ==
  ASSUME Invs, TurnInv, NEW p \in PreKey, StorePreKey(p),
         ~ranOut => p.id = Wrapped(RowCount + 1), UNCHANGED <<consumed>>
  PROVE  /\ FullIsKnown'
         /\ ranOut => ranOut'
         /\ ~ranOut => RowCount' = RowCount + 1
         /\ IsHeld(p)'
         /\ ~ranOut => \A q \in GivenOut : /\ IsHeld(q) => IsHeld(q)'
                                           /\ rows[q.id] = q.key => rows'[q.id] = q.key
         /\ lost' = lost
  <1>1. /\ rows' = [rows EXCEPT ![p.id] = p.key]
        /\ keys' = [keys EXCEPT ![p.id] = p.key]
        /\ ranOut' = (ranOut \/ TableFull')
        /\ lost' = lost
    BY DEF StorePreKey
  <1>2. /\ rows \in [PreKeyId -> 0..MaxBatches] /\ keys \in [PreKeyId -> 0..MaxBatches]
        /\ p.id \in PreKeyId
    BY DEF Invs, TypeInv, TypeOK, PreKey
  <1>3. FullIsKnown'
    BY FullIsKnownStore DEF TurnInv
  <1>4. IsHeld(p)'
    BY <1>1, <1>2 DEF IsHeld
  <1>5. ASSUME ~ranOut
        PROVE  /\ RowCount' = RowCount + 1
               /\ \A q \in GivenOut : /\ IsHeld(q) => IsHeld(q)'
                                      /\ rows[q.id] = q.key => rows'[q.id] = q.key
    <2>1. RowCount \in 0..MaxPreKeyId /\ RowCount # MaxPreKeyId
      BY <1>5, RowCountType DEF TurnInv, FullIsKnown, TableFull
    <2>2. p.id = RowCount + 1
      BY <1>5, <2>1, SizesAssumption DEF Wrapped
    <2>3. rows[p.id] = NoKey
      BY <1>2, <2>1, <2>2, SizesAssumption DEF Invs, DenseInv, IdsAreDense
    <2>4. RowCount' = p.id
      BY <2>1, <2>2, StoreDense, SizesAssumption DEF Invs, DenseInv
    <2>5. ASSUME NEW q \in GivenOut, rows[q.id] = q.key
          PROVE  rows'[q.id] = q.key /\ keys'[q.id] = keys[q.id]
      <3>1. q.id \in PreKeyId /\ q.id # p.id
        BY <2>3, <2>5, GivenType DEF Invs
      <3> QED BY <3>1, <2>5, <1>1, <1>2
    <2> QED BY <2>2, <2>4, <2>5 DEF IsHeld
  <1> QED BY <1>1, <1>3, <1>4, <1>5

(* The main queue at its two ends. *)
LEMMA QueuedAppend ==
  ASSUME mainQueue \in Seq(PreKey), NEW p \in PreKey, mainQueue' = Append(mainQueue, p)
  PROVE  Queued(p)' /\ \A q : Queued(q) => Queued(q)'
  <1> DEFINE L == Len(mainQueue)
  <1>1. L \in Nat /\ Len(mainQueue') = L + 1 /\ mainQueue'[L + 1] = p
        /\ \A k \in 1..L : mainQueue'[k] = mainQueue[k]
    BY LenProperties, AppendProperties
  <1>2. L + 1 \in 1..(L + 1) /\ \A k \in 1..L : k \in 1..(L + 1)
    BY <1>1
  <1>3. Queued(p)'
    BY <1>1, <1>2 DEF Queued
  <1>4. ASSUME NEW q, Queued(q) PROVE Queued(q)'
    <2>1. PICK k \in 1..L : mainQueue[k] = q
      BY <1>4 DEF Queued
    <2>2. k \in 1..(L + 1) /\ mainQueue'[k] = q
      BY <2>1, <1>1, <1>2
    <2> QED BY <2>2, <1>1 DEF Queued
  <1> QED BY <1>3, <1>4

LEMMA QueuedTail ==
  ASSUME mainQueue \in Seq(PreKey), mainQueue # <<>>, mainQueue' = Tail(mainQueue),
         NEW q, Queued(q)
  PROVE  q = Head(mainQueue) \/ Queued(q)'
  <1> DEFINE L == Len(mainQueue)
  <1>1. L \in Nat /\ Len(mainQueue') = L - 1 /\ Head(mainQueue) = mainQueue[1]
        /\ \A k \in 1..(L - 1) : mainQueue'[k] = mainQueue[k + 1]
    BY LenProperties, HeadTailProperties
  <1>2. PICK k \in 1..L : mainQueue[k] = q
    BY DEF Queued
  <1>3. CASE k = 1
    BY <1>1, <1>2, <1>3
  <1>4. CASE k # 1
    <2>1. k - 1 \in 1..(L - 1) /\ (k - 1) + 1 = k
      BY <1>1, <1>4
    <2>2. k - 1 \in 1..Len(mainQueue') /\ mainQueue'[k - 1] = q
      BY <2>1, <1>1, <1>2
    <2> QED BY <2>2 DEF Queued
  <1> QED BY <1>3, <1>4

(* What was given out is still there after a step that gives out p at most, *)
(* has it in the queue or in its row, and takes no row from another one.    *)
LEMMA GivenStep ==
  ASSUME TurnInv, NEW p, GivenOut' \subseteq GivenOut \cup {p},
         ranOut => ranOut', consumed' = consumed, lost' = lost,
         Queued(p)' \/ IsHeld(p)',
         \A q : Queued(q) => q = p \/ Queued(q)',
         ~ranOut => \A q \in GivenOut : /\ IsHeld(q) => IsHeld(q)'
                                        /\ rows[q.id] = q.key => rows'[q.id] = q.key
  PROVE  GivenIsKept' /\ (Faults = {} => GivenIsStored')
  <1>1. GivenIsKept'
    <2> SUFFICES ASSUME ~ranOut', NEW q \in GivenOut', q # p
                 PROVE  q \in consumed \/ q \in lost \/ Queued(q)' \/ IsHeld(q)'
      BY DEF GivenIsKept
    <2>1. ~ranOut /\ q \in GivenOut
      OBVIOUS
    <2>2. q \in consumed \/ q \in lost \/ Queued(q) \/ IsHeld(q)
      BY <2>1 DEF TurnInv, GivenIsKept
    <2> QED BY <2>1, <2>2
  <1>2. ASSUME Faults = {} PROVE GivenIsStored'
    <2> SUFFICES ASSUME ~ranOut', NEW q \in GivenOut', q # p
                 PROVE  Queued(q)' \/ rows'[q.id] = q.key
      BY DEF GivenIsStored, IsHeld
    <2>1. ~ranOut /\ q \in GivenOut
      OBVIOUS
    <2>2. Queued(q) \/ rows[q.id] = q.key
      BY <1>2, <2>1 DEF TurnInv, GivenIsStored
    <2> QED BY <2>1, <2>2
  <1> QED BY <1>1, <1>2

(* addPreKey gives out the next prekey of the batch, whose turn it is once *)
(* those that wait on the main queue are stored.                           *)
LEMMA TurnAddFacts ==
  ASSUME Invs, TurnInv, NEW t \in Threads, AddPreKey(t),
         NEW p, p = PreKeyAt(batch[t], batch[t].saved)
  PROVE  /\ p \in PreKey
         /\ ~ranOut => p.id = Wrapped(RowCount + Len(mainQueue) + 1)
         /\ GivenOut' \subseteq GivenOut \cup {p}
         /\ \A u \in Threads : u # t => pc[u] # "save"
         /\ batch'[t].start + batch'[t].saved = batch[t].start + batch[t].saved + 1
         /\ pc[t] = "save" /\ pc' = pc
  <1> DEFINE b == batch[t]
  <1>1. /\ p \in PreKey
        /\ b.start \in Nat /\ b.saved \in Nat
        /\ \A u \in Threads : u # t => batch'[u] = batch[u]
        /\ batch'[t].start = b.start
        /\ batch'[t].key = b.key
        /\ batch'[t].saved = b.saved + 1
    BY SavingType, SizesAssumption DEF Invs
  <1>2. pc[t] = "save" /\ pc' = pc /\ published' = published /\ wire' = wire
    BY DEF AddPreKey, remote
  <1>3. \A u \in Threads : u # t => pc[u] # "save"
    BY <1>2 DEF TurnInv, OneSaver
  <1>4. ~ranOut => p.id = Wrapped(RowCount + Len(mainQueue) + 1)
    <2>1. p.id = Wrapped(b.start + b.saved)
      BY <1>1, WrappedId DEF PreKeyAt
    <2> QED BY <2>1, <1>2 DEF TurnInv, InTurn
  <1>5. SavedBy(t)' \subseteq SavedBy(t) \cup {p}
    <2>1. SavedBy(t)' = {PreKeyAt(b, n) : n \in 0..b.saved}
      BY <1>1, <1>2 DEF SavedBy, PreKeyAt
    <2>2. \A n \in 0..b.saved : n \in 0..(b.saved - 1) \/ n = b.saved
      BY <1>1
    <2> QED BY <2>1, <2>2, <1>2 DEF SavedBy
  <1>6. \A u \in Threads : u # t => SavedBy(u)' = SavedBy(u)
    BY <1>1, <1>2 DEF SavedBy, PreKeyAt
  <1>7. GivenOut' \subseteq GivenOut \cup {p}
    BY <1>2, <1>5, <1>6 DEF GivenOut, PreKeysOf, PreKeyAt
  <1>8. batch'[t].start + batch'[t].saved = b.start + b.saved + 1
    BY <1>1
  <1> QED BY <1>1, <1>2, <1>3, <1>4, <1>7, <1>8

LEMMA TurnAdd ==
  ASSUME Invs, TurnInv, NEW t \in Threads, AddPreKey(t)
  PROVE  TurnInv'
  <1> DEFINE L == Len(mainQueue)
  <1>0. PICK p : p = PreKeyAt(batch[t], batch[t].saved)
    OBVIOUS
  <1>1. /\ p \in PreKey
        /\ ~ranOut => p.id = Wrapped(RowCount + L + 1)
        /\ GivenOut' \subseteq GivenOut \cup {p}
        /\ \A u \in Threads : u # t => pc[u] # "save"
        /\ batch'[t].start + batch'[t].saved = batch[t].start + batch[t].saved + 1
        /\ pc[t] = "save" /\ pc' = pc
    BY <1>0, TurnAddFacts
  <1>2. consumed' = consumed
    BY DEF AddPreKey, remote
  <1>3. mainQueue \in Seq(PreKey) /\ L \in Nat /\ RowCount \in Nat
    BY LenProperties, RowCountType, SizesAssumption DEF Invs, TypeInv, TypeOK
  <1>4. ASSUME t = Main PROVE TurnInv'
    <2>1. mainQueue = <<>> /\ mainQueue' = mainQueue /\ StorePreKey(p)
      BY <1>0, <1>1, <1>4 DEF AddPreKey, TurnInv, OneSaver
    <2>2. L = 0
      BY <2>1
    <2>3. ~ranOut => p.id = Wrapped(RowCount + 1)
      BY <1>1, <1>3, <2>2
    <2>4. /\ FullIsKnown'
          /\ ranOut => ranOut'
          /\ ~ranOut => RowCount' = RowCount + 1
          /\ IsHeld(p)'
          /\ ~ranOut => \A q \in GivenOut : /\ IsHeld(q) => IsHeld(q)'
                                            /\ rows[q.id] = q.key => rows'[q.id] = q.key
          /\ lost' = lost
      BY <1>1, <1>2, <2>1, <2>3, StoreInTurn
    <2>5. OneSaver'
      BY <1>1, <2>1 DEF TurnInv, OneSaver
    <2>6. InTurn'
      <3> SUFFICES ASSUME ~ranOut'
                   PROVE  batch'[t].start + batch'[t].saved = RowCount' + L + 1
        BY <1>1, <2>1, <2>2 DEF InTurn
      <3>1. batch[t].start + batch[t].saved = RowCount + L + 1
        BY <1>1, <2>4 DEF TurnInv, InTurn
      <3> QED BY <3>1, <1>1, <1>3, <2>2, <2>4
    <2>7. \A q : Queued(q) => Queued(q)'
      BY <2>1 DEF Queued
    <2>8. GivenIsKept' /\ (Faults = {} => GivenIsStored')
      BY <1>1, <1>2, <2>4, <2>7, GivenStep
    <2> QED BY <2>4, <2>5, <2>6, <2>8 DEF TurnInv
  <1>5. ASSUME t # Main PROVE TurnInv'
    <2>1. mainQueue' = Append(mainQueue, p) /\ UNCHANGED store
      BY <1>0, <1>5 DEF AddPreKey
    <2>2. /\ Len(mainQueue') = L + 1
          /\ \A k \in 1..L : mainQueue'[k] = mainQueue[k]
          /\ mainQueue'[L + 1] = p
      BY <1>1, <1>3, <2>1, AppendProperties
    <2>3. \A k \in 1..(L + 1) : k \in 1..L \/ k = L + 1
      BY <1>3
    <2>4. RowCount' = RowCount /\ TableFull' = TableFull
      BY <2>1 DEF RowCount, TableFull, store
    <2>5. FullIsKnown' /\ OneSaver'
      BY <1>1, <1>5, <2>1, <2>4 DEF TurnInv, FullIsKnown, OneSaver, store, Threads
    <2>6. InTurn'
      <3> SUFFICES ASSUME ~ranOut
                   PROVE  /\ \A k \in 1..(L + 1) : mainQueue'[k].id = Wrapped(RowCount + k)
                          /\ batch'[t].start + batch'[t].saved = RowCount + (L + 1) + 1
        BY <1>1, <2>1, <2>2, <2>4 DEF InTurn, store, Wrapped
      <3>1. \A k \in 1..L : mainQueue'[k].id = Wrapped(RowCount + k)
        BY <2>2 DEF TurnInv, InTurn
      <3>2. mainQueue'[L + 1].id = Wrapped(RowCount + (L + 1))
        BY <1>1, <1>3, <2>2
      <3>3. batch[t].start + batch[t].saved = RowCount + L + 1
        BY <1>1 DEF TurnInv, InTurn
      <3> QED BY <3>1, <3>2, <3>3, <1>1, <1>3, <2>3
    <2>7. Queued(p)' /\ \A q : Queued(q) => Queued(q)'
      BY <1>1, <1>3, <2>1, QueuedAppend
    <2>8. \A q : (IsHeld(q) => IsHeld(q)') /\ rows'[q.id] = rows[q.id]
      BY <2>1 DEF IsHeld, store
    <2>9. ranOut' = ranOut /\ lost' = lost
      BY <2>1 DEF store
    <2>10. GivenIsKept' /\ (Faults = {} => GivenIsStored')
      BY <1>1, <1>2, <2>7, <2>8, <2>9, GivenStep
    <2> QED BY <2>5, <2>6, <2>10 DEF TurnInv
  <1> QED BY <1>4, <1>5

LEMMA TurnRunBlock ==
  ASSUME Invs, TurnInv, RunMainBlock
  PROVE  TurnInv'
  <1> DEFINE L == Len(mainQueue)
  <1>0. PICK p : p = Head(mainQueue)
    OBVIOUS
  <1>1. mainQueue \in Seq(PreKey) /\ mainQueue # <<>> /\ RowCount \in Nat
    BY RowCountType, SizesAssumption DEF RunMainBlock, Invs, TypeInv, TypeOK
  <1>2. L \in Nat /\ L # 0 /\ 1 \in 1..L
    BY <1>1, LenProperties, EmptySeq
  <1>3. /\ p = mainQueue[1] /\ p \in PreKey
        /\ mainQueue' = Tail(mainQueue) /\ Len(mainQueue') = L - 1
        /\ \A k \in 1..(L - 1) : mainQueue'[k] = mainQueue[k + 1]
    BY <1>0, <1>1, HeadTailProperties DEF RunMainBlock
  <1>4. /\ StorePreKey(p) /\ pc[Main] = "idle" /\ pc' = pc /\ batch' = batch
        /\ consumed' = consumed /\ published' = published /\ wire' = wire
    BY <1>0 DEF RunMainBlock, remote
  <1>5. ~ranOut => p.id = Wrapped(RowCount + 1)
    BY <1>2, <1>3 DEF TurnInv, InTurn
  <1>6. /\ FullIsKnown'
        /\ ranOut => ranOut'
        /\ ~ranOut => RowCount' = RowCount + 1
        /\ IsHeld(p)'
        /\ ~ranOut => \A q \in GivenOut : /\ IsHeld(q) => IsHeld(q)'
                                          /\ rows[q.id] = q.key => rows'[q.id] = q.key
        /\ lost' = lost
    BY <1>3, <1>4, <1>5, StoreInTurn
  <1>7. \A k \in 1..(L - 1) : k + 1 \in 1..L
    BY <1>2
  <1>8. OneSaver'
    BY <1>4 DEF TurnInv, OneSaver
  <1>9. InTurn'
    <2> SUFFICES ASSUME ~ranOut'
                 PROVE  /\ \A k \in 1..(L - 1) : mainQueue'[k].id = Wrapped(RowCount' + k)
                        /\ \A t \in Threads : pc[t] = "save" =>
                              batch[t].start + batch[t].saved = RowCount' + (L - 1) + 1
      BY <1>3, <1>4 DEF InTurn, Wrapped
    <2>1. RowCount' = RowCount + 1 /\ ~ranOut
      BY <1>6
    <2>2. ASSUME NEW k \in 1..(L - 1)
          PROVE  mainQueue'[k].id = Wrapped(RowCount' + k)
      <3>1. mainQueue[k + 1].id = Wrapped(RowCount + (k + 1))
        BY <1>7, <2>1, <2>2 DEF TurnInv, InTurn
      <3>2. RowCount + (k + 1) = RowCount' + k
        BY <1>1, <2>1
      <3> QED BY <3>1, <3>2, <1>3
    <2>3. ASSUME NEW t \in Threads, pc[t] = "save"
          PROVE  batch[t].start + batch[t].saved = RowCount' + (L - 1) + 1
      <3>1. batch[t].start + batch[t].saved = RowCount + L + 1
        BY <2>1, <2>3 DEF TurnInv, InTurn
      <3> QED BY <3>1, <2>1, <1>1, <1>2
    <2> QED BY <2>2, <2>3
  <1>10. \A q : Queued(q) => q = p \/ Queued(q)'
    BY <1>0, <1>1, <1>3, QueuedTail
  <1>11. GivenOut' = GivenOut
    BY <1>4 DEF GivenOut, SavedBy, PreKeysOf, PreKeyAt
  <1>12. GivenIsKept' /\ (Faults = {} => GivenIsStored')
    BY <1>4, <1>6, <1>10, <1>11, GivenStep
  <1> QED BY <1>6, <1>8, <1>9, <1>12 DEF TurnInv

LEMMA TurnGenerate ==
  ASSUME "count" \notin Faults, Invs, TurnInv, NEW t \in Threads, GeneratePreKeys(t),
         mainQueue = <<>>, \A u \in Threads : pc[u] # "save"
  PROVE  TurnInv'
  <1>1. /\ batch'[t].start = RowCount + 1 /\ batch'[t].saved = 0 /\ pc'[t] = "save"
        /\ \A u \in Threads : u # t => pc'[u] = pc[u]
        /\ mainQueue' = mainQueue /\ UNCHANGED <<store, published, consumed, wire>>
    BY DEF GeneratePreKeys, Counted, remote, Invs, TypeInv, TypeOK
  <1>2. RowCount' = RowCount /\ TableFull' = TableFull /\ RowCount \in Nat
    BY <1>1, RowCountType, SizesAssumption DEF RowCount, TableFull, store
  <1>3. FullIsKnown' /\ OneSaver'
    BY <1>1, <1>2 DEF TurnInv, FullIsKnown, OneSaver, store
  <1>4. InTurn'
    BY <1>1, <1>2 DEF InTurn
  <1>5. \A u \in Threads : SavedBy(u)' = {}
    BY <1>1 DEF SavedBy
  <1>6. GivenOut' \subseteq GivenOut
    BY <1>1, <1>5 DEF GivenOut, PreKeysOf, PreKeyAt
  <1>7. \A p : IsHeld(p)' = IsHeld(p) /\ Queued(p)' = Queued(p)
    BY <1>1 DEF IsHeld, Queued, store
  <1>8. GivenIsKept' /\ (Faults = {} => GivenIsStored')
    BY <1>1, <1>6, <1>7 DEF TurnInv, GivenIsKept, GivenIsStored, store
  <1> QED BY <1>3, <1>4, <1>8 DEF TurnInv

LEMMA TurnReceive ==
  ASSUME Invs, TurnInv, NEW p \in published, ReceivePreKeyMessage(p)
  PROVE  TurnInv'
  <1>1. /\ keys[p.id] = p.key /\ keys' = [keys EXCEPT ![p.id] = NoKey]
        /\ consumed' = consumed \cup {p}
        /\ UNCHANGED <<rows, disk, ranOut, lost, pc, batch, mainQueue, wire, published>>
    BY DEF ReceivePreKeyMessage
  <1>2. RowCount' = RowCount /\ TableFull' = TableFull
    BY <1>1 DEF RowCount, TableFull
  <1>3. FullIsKnown' /\ OneSaver' /\ InTurn'
    BY <1>1, <1>2 DEF TurnInv, FullIsKnown, OneSaver, InTurn
  <1>4. GivenOut' = GivenOut
    BY <1>1 DEF GivenOut, SavedBy, PreKeysOf, PreKeyAt
  <1>5. \A q : Queued(q)' = Queued(q)
    BY <1>1 DEF Queued
  <1>6. ASSUME NEW q \in GivenOut, IsHeld(q) PROVE q = p \/ IsHeld(q)'
    <2>1. q \in PreKey /\ p \in PreKey /\ q.id \in PreKeyId
      BY GivenType DEF Invs, TypeInv, TypeOK
    <2>2. CASE q.id = p.id
      BY <2>1, <2>2, <1>1, <1>6, PreKeyEqual DEF IsHeld
    <2>3. CASE q.id # p.id
      BY <2>1, <2>3, <1>1, <1>6 DEF IsHeld, Invs, TypeInv, TypeOK
    <2> QED BY <2>2, <2>3
  <1>7. GivenIsKept' /\ (Faults = {} => GivenIsStored')
    BY <1>1, <1>4, <1>5, <1>6 DEF TurnInv, GivenIsKept, GivenIsStored
  <1> QED BY <1>3, <1>7 DEF TurnInv

LEMMA TurnRestart ==
  ASSUME Invs, TurnInv, Restart, mainQueue = <<>>
  PROVE  TurnInv'
  <1>1. /\ rows' = disk /\ disk' = disk /\ ranOut' = ranOut
        /\ keys' = disk \/ keys' = [i \in PreKeyId |-> NoKey]
        /\ consumed' = consumed /\ published' = published /\ wire' = wire
        /\ mainQueue' = <<>> /\ \A t \in Threads : pc'[t] = "idle"
        /\ lost' = (lost \cup Held) \ Held'
    BY DEF Restart
  <1>2. FullIsKnown'
    <2>1. ASSUME TableFull' PROVE ranOut'
      <3>1. IdsAreDense'
        BY DenseStep DEF Next, DenseInv, Invs
      <3>2. \A i \in PreKeyId : rows'[i] # NoKey
        BY <2>1, <3>1, SizesAssumption DEF TableFull, IdsAreDense, PreKeyId
      <3> QED BY <1>1, <3>2 DEF TurnInv, FullIsKnown
    <2> QED BY <2>1, <1>1 DEF TurnInv, FullIsKnown
  <1>3. Main \in Threads
    BY DEF Threads
  <1>4. OneSaver' /\ InTurn'
    BY <1>1, <1>3 DEF OneSaver, InTurn
  <1>5. GivenOut' \subseteq GivenOut
    BY <1>1 DEF GivenOut, SavedBy, PreKeysOf, PreKeyAt
  <1>6. \A q : ~Queued(q)
    BY DEF Queued
  <1>7. GivenIsKept'
    <2> SUFFICES ASSUME ~ranOut, NEW q \in GivenOut
                 PROVE  q \in consumed' \/ q \in lost' \/ IsHeld(q)'
      BY <1>1, <1>5 DEF GivenIsKept
    <2>1. q \in consumed \/ q \in lost \/ IsHeld(q)
      BY <1>6 DEF TurnInv, GivenIsKept
    <2>2. q \in PreKey
      BY GivenType DEF Invs
    <2>3. q \in lost' \/ keys'[q.id] = q.key \/ q \in consumed
      BY <2>1, <2>2, <1>1 DEF IsHeld, Held
    <2>4. q.id \in PreKeyId /\ q.key # NoKey
      BY <2>2, SizesAssumption DEF PreKey, Key, NoKey
    <2> QED BY <2>3, <2>4, <1>1 DEF IsHeld
  <1>8. ASSUME Faults = {} PROVE GivenIsStored'
    <2>1. disk = rows
      BY <1>8 DEF Invs, MemoryBackedByTable
    <2> QED BY <2>1, <1>1, <1>5, <1>6, <1>8 DEF TurnInv, GivenIsStored
  <1> QED BY <1>2, <1>4, <1>7, <1>8 DEF TurnInv

LEMMA TurnStep ==
  ASSUME "count" \notin Faults
  PROVE  Invs /\ TurnInv /\ [Next]_vars /\ [OneBatch /\ DiesStored]_vars => TurnInv'
  <1> SUFFICES ASSUME Invs, TurnInv, [Next]_vars, [OneBatch /\ DiesStored]_vars
               PROVE  TurnInv'
    OBVIOUS
  <1>1. CASE UNCHANGED vars
    BY <1>1, TurnSame DEF vars, local, remote, GivenOut, SavedBy
  <1>2. ASSUME NEW t \in Threads, AddPreKey(t) PROVE TurnInv'
    BY <1>2, TurnAdd
  <1>3. ASSUME NEW t \in Threads, GeneratePreKeys(t), ~UNCHANGED vars PROVE TurnInv'
    BY <1>3, TurnGenerate DEF OneBatch
  <1>4. ASSUME NEW t \in Threads, SendPreKeys(t) \/ GenerateNothing(t) PROVE TurnInv'
    <2>1. \A u \in Threads : pc'[u] = "save" <=> pc[u] = "save"
      BY <1>4 DEF SendPreKeys, GenerateNothing, Invs, TypeInv, TypeOK
    <2>2. batch' = batch /\ published' = published /\ wire' = wire
      BY <1>4 DEF SendPreKeys, GenerateNothing, remote
    <2>3. GivenOut' = GivenOut
      BY <2>1, <2>2 DEF GivenOut, SavedBy, PreKeysOf, PreKeyAt
    <2> QED BY <2>1, <2>2, <2>3, <1>4, TurnSame DEF SendPreKeys, GenerateNothing, remote
  <1>5. ASSUME NEW t \in Threads, Upload(t) PROVE TurnInv'
    <2>1. /\ pc'[t] = "idle" /\ \A u \in Threads : u # t => pc'[u] = pc[u] /\ batch'[u] = batch[u]
          /\ pc[t] = "save" /\ batch[t].saved = BatchSize
          /\ wire' = wire \cup {batch[t]} /\ published' = published
      BY <1>5 DEF Upload, Invs, TypeInv, TypeOK
    <2>2. PreKeysOf(batch[t]) = SavedBy(t) /\ SavedBy(t)' = {}
      BY <2>1 DEF SavedBy, PreKeysOf
    <2>3. \A u \in Threads : SavedBy(u)' \subseteq SavedBy(u)
      BY <2>1, <2>2 DEF SavedBy, PreKeyAt
    <2>4. \A b \in wire' : PreKeysOf(b) \subseteq GivenOut
      BY <2>1, <2>2 DEF GivenOut
    <2>5. GivenOut' \subseteq GivenOut
      BY <2>1, <2>3, <2>4 DEF GivenOut, PreKeysOf, PreKeyAt
    <2> QED BY <2>1, <2>5, <1>5, TurnSame DEF Upload
  <1>6. CASE RunMainBlock
    BY <1>6, TurnRunBlock
  <1>7. ASSUME NEW k \in awaiting, UploadCallback(k) PROVE TurnInv'
    BY <1>7, TurnSame DEF UploadCallback, GivenOut, SavedBy
  <1>8. ASSUME NEW b \in wire, ServerReceive(b) PROVE TurnInv'
    <2>1. GivenOut' \subseteq GivenOut
      BY <1>8 DEF ServerReceive, local, GivenOut, SavedBy
    <2> QED BY <2>1, <1>8, TurnSame DEF ServerReceive, local
  <1>9. ASSUME NEW p \in published, ReceivePreKeyMessage(p) PROVE TurnInv'
    BY <1>9, TurnReceive
  <1>10. CASE Restart /\ ~UNCHANGED vars
    BY <1>10, TurnRestart DEF DiesStored
  <1> QED
    BY <1>1, <1>2, <1>3, <1>4, <1>5, <1>6, <1>7, <1>8, <1>9, <1>10 DEF Next, Step

LEMMA TurnInvariance ==
  ASSUME "count" \notin Faults
  PROVE  Spec /\ [][OneBatch /\ DiesStored]_vars
            => [](TurnInv /\ MemoryBackedByTable)
  <1>1. Init => Invs /\ TurnInv
    <2>1. Init => MemoryBackedByTable
      BY DEF Init, MemoryBackedByTable
    <2> QED BY <2>1, TypeInit, DenseInit, TurnInit DEF Invs
  <1>2. Invs /\ [Next]_vars => Invs'
    BY TypeStep, BackedStep, DenseStep DEF Invs
  <1>3. Invs => MemoryBackedByTable
    BY DEF Invs
  <1> QED BY <1>1, <1>2, <1>3, TurnStep, PTL DEF Spec

(***************************************************************************)
(* On whatever threads sendPreKeys is called: if it generates no batch     *)
(* before the last one is stored, and no process dies before, every prekey *)
(* that the server can give to a peer can be used until the ids run out,   *)
(* or is about to be stored, unless its save failed and the process died.  *)
(***************************************************************************)
THEOREM UsableInTurn ==
  ASSUME "count" \notin Faults
  PROVE  Spec /\ [][OneBatch /\ DiesStored]_vars => []PublishedIsUsable
  <1>1. TurnInv => PublishedIsUsable
    BY DEF TurnInv, GivenIsKept, GivenOut, IsHeld, PublishedIsUsable
  <1> QED BY <1>1, TurnInvariance, PTL

(***************************************************************************)
(* And if no save fails either, it is in the file, or about to be.  So the *)
(* two steps that break PublishedIsStored in MCPreKeys_stored are the only *)
(* ones: a batch that is generated too early, and a death that is.         *)
(***************************************************************************)
THEOREM StoredInTurn ==
  ASSUME Faults = {}
  PROVE  Spec /\ [][OneBatch /\ DiesStored]_vars => []PublishedIsStored
  <1>1. TurnInv /\ MemoryBackedByTable => PublishedIsStored
    BY DEF TurnInv, GivenIsStored, GivenOut, PublishedIsStored, MemoryBackedByTable
  <1>2. "count" \notin Faults
    OBVIOUS
  <1> QED BY <1>1, <1>2, TurnInvariance, PTL

-----------------------------------------------------------------------------
(***************************************************************************)
(* preKeysSending on any threads, when no thread reads it between the      *)
(* moment another one has read it and the moment that one sets it.         *)
(***************************************************************************)
OneCaller ==
    (\E t \in Threads : SendPreKeys(t)) => \A u \in Threads : pc[u] # "generate"

OneSender ==
    /\ preKeysSending <=> (awaiting # {} \/ \E t \in Threads : pc[t] = "save")
    /\ \A s, t \in Threads : pc[s] # "idle" /\ pc[t] # "idle" => s = t
    /\ \A t \in Threads : pc[t] # "idle" => awaiting = {}
    /\ awaiting = {} \/ \E k \in Key : awaiting = {k}

LEMMA OneSenderStep ==
  ASSUME TypeInv, OneSender, [Next]_vars, [OneCaller]_vars
  PROVE  OneSender'
  <1>1. pc \in [Threads -> {"idle", "generate", "save"}]
    BY DEF TypeInv, TypeOK
  <1>2. ASSUME NEW t \in Threads, SendPreKeys(t) PROVE OneSender'
    <2>1. /\ pc' = [pc EXCEPT ![t] = "generate"] /\ pc[t] = "idle" /\ ~preKeysSending
          /\ awaiting' = awaiting /\ preKeysSending' = preKeysSending
      BY <1>2 DEF SendPreKeys, remote
    <2>2. pc' # pc
      BY <1>1, <2>1
    <2>3. \A u \in Threads : pc[u] # "generate"
      BY <1>2, <2>2 DEF OneCaller, vars, local
    <2>4. awaiting = {} /\ \A u \in Threads : pc[u] = "idle"
      BY <1>1, <2>1, <2>3 DEF OneSender
    <2> QED BY <1>1, <2>1, <2>4 DEF OneSender
  <1>3. ASSUME NEW t \in Threads, GeneratePreKeys(t) PROVE OneSender'
    <2>1. /\ pc' = [pc EXCEPT ![t] = "save"] /\ pc[t] = "generate"
          /\ awaiting' = awaiting /\ preKeysSending'
      BY <1>3 DEF GeneratePreKeys, remote
    <2> QED BY <1>1, <2>1 DEF OneSender
  <1>4. ASSUME NEW t \in Threads, GenerateNothing(t) PROVE OneSender'
    <2>1. /\ pc' = [pc EXCEPT ![t] = "idle"] /\ pc[t] = "generate"
          /\ awaiting' = awaiting /\ preKeysSending' = preKeysSending
      BY <1>4 DEF GenerateNothing, remote
    <2> QED BY <1>1, <2>1 DEF OneSender
  <1>5. ASSUME NEW t \in Threads, Upload(t) PROVE OneSender'
    <2>1. /\ pc' = [pc EXCEPT ![t] = "idle"] /\ pc[t] = "save"
          /\ awaiting' = awaiting \cup {batch[t].key} /\ preKeysSending' = preKeysSending
      BY <1>5 DEF Upload
    <2>2. batch[t].key \in Key /\ awaiting = {} /\ preKeysSending
      BY <2>1 DEF TypeInv, KeysGiven, OneSender
    <2>3. awaiting' = {batch[t].key}
      BY <2>1, <2>2
    <2>4. \A u \in Threads : pc'[u] = "idle"
      BY <1>1, <2>1 DEF OneSender
    <2> QED BY <2>1, <2>2, <2>3, <2>4 DEF OneSender
  <1>6. ASSUME NEW k \in awaiting, UploadCallback(k) PROVE OneSender'
    <2>1. awaiting' = {} /\ pc' = pc /\ preKeysSending' = FALSE
      BY <1>6 DEF UploadCallback, OneSender
    <2>2. \A u \in Threads : pc[u] = "idle"
      BY <1>6 DEF OneSender
    <2> QED BY <2>1, <2>2 DEF OneSender
  <1>7. CASE Restart
    <2>1. awaiting' = {} /\ preKeysSending' = FALSE /\ \A u \in Threads : pc'[u] = "idle"
      BY <1>7 DEF Restart
    <2> QED BY <2>1 DEF OneSender
  <1>8. ASSUME UNCHANGED <<pc, awaiting, preKeysSending>> PROVE OneSender'
    BY <1>8 DEF OneSender
  <1>9. ASSUME NEW t \in Threads, AddPreKey(t) PROVE OneSender'
    BY <1>8, <1>9 DEF AddPreKey, remote
  <1>10. CASE RunMainBlock
    BY <1>8, <1>10 DEF RunMainBlock, remote
  <1>11. ASSUME NEW b \in wire, ServerReceive(b) PROVE OneSender'
    BY <1>8, <1>11 DEF ServerReceive, local
  <1>12. ASSUME NEW p \in published, ReceivePreKeyMessage(p) PROVE OneSender'
    BY <1>8, <1>12 DEF ReceivePreKeyMessage
  <1>13. CASE UNCHANGED vars
    BY <1>8, <1>13 DEF vars, local, remote
  <1> QED
    BY <1>2, <1>3, <1>4, <1>5, <1>6, <1>7, <1>9, <1>10, <1>11, <1>12, <1>13 DEF Next, Step

(***************************************************************************)
(* The flag is exact on any threads as long as no call of sendPreKeys      *)
(* begins while another one generates its batch, that is, between the line *)
(* that reads the flag and the one that sets it.  It is that gap, and not  *)
(* the threads, the queue, the answers or the deaths, that lets a second   *)
(* upload start.                                                           *)
(***************************************************************************)
THEOREM SendingExactWithOneCaller ==
  Spec /\ [][OneCaller]_vars => []SendingIsExact
  <1>1. Init => OneSender
    BY DEF Init, OneSender
  <1>2. OneSender => SendingIsExact
    <2> SUFFICES ASSUME OneSender PROVE SendingIsExact
      OBVIOUS
    <2> DEFINE S == {t \in Threads : pc[t] = "save"}
    <2>1. Cardinality({}) = 0 /\ \A x : Cardinality({x}) = 1
      BY FS_EmptySet, FS_Singleton
    <2>2. CASE \E t \in Threads : pc[t] = "save"
      <3>1. PICK t \in Threads : pc[t] = "save"
        BY <2>2
      <3>2. S = {t} /\ awaiting = {}
        BY <3>1 DEF OneSender
      <3>3. Cardinality(awaiting) = 0 /\ Cardinality(S) = 1
        <4> HIDE DEF S
        <4> QED BY <2>1, <3>2
      <3>4. Cardinality(awaiting) + Cardinality(S) <= 1
        BY <3>3
      <3> QED BY <3>4 DEF SendingIsExact, OneSender
    <2>3. CASE ~\E t \in Threads : pc[t] = "save"
      <3>1. S = {}
        BY <2>3
      <3>2. Cardinality(awaiting) = 0 \/ Cardinality(awaiting) = 1
        BY <2>1 DEF OneSender
      <3>3. Cardinality(awaiting) + Cardinality(S) <= 1
        BY <2>1, <3>1, <3>2
      <3> QED BY <3>3 DEF SendingIsExact, OneSender
    <2> QED BY <2>2, <2>3
  <1> QED BY <1>1, <1>2, TypeInit, TypeStep, OneSenderStep, PTL DEF Spec

=============================================================================
