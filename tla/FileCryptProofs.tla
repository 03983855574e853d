-------------------------- MODULE FileCryptProofs ---------------------------
(***************************************************************************)
(* The properties of FileCrypt, for files of every length and for every    *)
(* chunk limit and block size.                                             *)
(***************************************************************************)
EXTENDS FileCrypt, SequenceTheorems, TLAPS

(***************************************************************************)
(* Runs of bytes.                                                          *)
(***************************************************************************)
LEMMA BytesAreASeq ==
    ASSUME NEW a \in Nat, NEW b \in Nat, a <= b
    PROVE  /\ Bytes(a, b) \in Seq(Nat)
           /\ Len(Bytes(a, b)) = b - a
           /\ \A i \in 1..(b - a) : Bytes(a, b)[i] = a + i - 1
  <1>1. b - a \in Nat
    OBVIOUS
  <1>2. \A i \in 1..(b - a) : a + i - 1 \in Nat
    OBVIOUS
  <1>3. Bytes(a, b) \in [1..(b - a) -> Nat]
    BY <1>2 DEF Bytes
  <1>4. Bytes(a, b) \in Seq(Nat)
    BY <1>1, <1>3
  <1>5. Len(Bytes(a, b)) = b - a
    BY <1>1, <1>3, <1>4
  <1> QED
    BY <1>4, <1>5 DEF Bytes

(* Adjacent runs make one. *)
LEMMA BytesJoin ==
    ASSUME NEW a \in Nat, NEW b \in Nat, NEW c \in Nat, a <= b, b <= c
    PROVE  Bytes(a, b) \o Bytes(b, c) = Bytes(a, c)
  <1> DEFINE ab == Bytes(a, b)
             bc == Bytes(b, c)
             ac == Bytes(a, c)
  <1>1. /\ ab \in Seq(Nat) /\ Len(ab) = b - a
        /\ \A i \in 1..(b - a) : ab[i] = a + i - 1
    BY BytesAreASeq
  <1>2. /\ bc \in Seq(Nat) /\ Len(bc) = c - b
        /\ \A i \in 1..(c - b) : bc[i] = b + i - 1
    BY BytesAreASeq
  <1>3. /\ ac \in Seq(Nat) /\ Len(ac) = c - a
        /\ \A i \in 1..(c - a) : ac[i] = a + i - 1
    BY BytesAreASeq
  <1> HIDE DEF ab, bc, ac
  <1>4. /\ ab \o bc \in Seq(Nat)
        /\ Len(ab \o bc) = c - a
        /\ \A i \in 1..(c - a) :
              (ab \o bc)[i] = IF i <= b - a THEN ab[i] ELSE bc[i - (b - a)]
    <2>1. /\ ab \o bc \in Seq(Nat)
          /\ Len(ab \o bc) = Len(ab) + Len(bc)
          /\ \A i \in 1..(Len(ab) + Len(bc)) :
                (ab \o bc)[i] = IF i <= Len(ab) THEN ab[i] ELSE bc[i - Len(ab)]
      BY <1>1, <1>2, ConcatProperties
    <2>2. Len(ab) + Len(bc) = c - a
      BY <1>1, <1>2
    <2> QED
      BY <1>1, <2>1, <2>2
  <1>5. ASSUME NEW i \in 1..(c - a)
        PROVE  (ab \o bc)[i] = ac[i]
    <2>1. CASE i <= b - a
      BY <1>1, <1>3, <1>4, <2>1
    <2>2. CASE ~(i <= b - a)
      <3>1. i - (b - a) \in 1..(c - b)
        BY <2>2
      <3>2. bc[i - (b - a)] = a + i - 1
        BY <3>1, <1>2
      <3> QED
        BY <2>2, <3>2, <1>3, <1>4
    <2> QED
      BY <2>1, <2>2
  <1>6. ab \o bc = ac
    BY <1>3, <1>4, <1>5, SeqEqual
  <1> QED
    BY <1>6 DEF ab, bc, ac

(* A run is cut in two runs. *)
LEMMA BytesCut ==
    ASSUME NEW a \in Nat, NEW c \in Nat, a <= c, NEW n \in 0..(c - a)
    PROVE  /\ SubSeq(Bytes(a, c), 1, n) = Bytes(a, a + n)
           /\ SubSeq(Bytes(a, c), n + 1, c - a) = Bytes(a + n, c)
  <1> DEFINE ac == Bytes(a, c)
             front == Bytes(a, a + n)
             rest == Bytes(a + n, c)
  <1>1. /\ ac \in Seq(Nat) /\ Len(ac) = c - a
        /\ \A i \in 1..(c - a) : ac[i] = a + i - 1
    BY BytesAreASeq
  <1>2. /\ front \in Seq(Nat) /\ Len(front) = n
        /\ \A i \in 1..n : front[i] = a + i - 1
    <2>1. a + n \in Nat /\ a <= a + n /\ (a + n) - a = n
      OBVIOUS
    <2> QED
      BY <2>1, BytesAreASeq
  <1>3. /\ rest \in Seq(Nat) /\ Len(rest) = c - (a + n)
        /\ \A i \in 1..(c - (a + n)) : rest[i] = a + n + i - 1
    <2>1. a + n \in Nat /\ a + n <= c
      OBVIOUS
    <2> QED
      BY <2>1, BytesAreASeq
  <1> HIDE DEF ac, front, rest
  <1>4. \A i \in 1..(c - a) : ac[i] \in Nat
    BY <1>1
  <1>5. SubSeq(ac, 1, n) = front
    <2>1. \A i \in 1..n : ac[i] \in Nat
      BY <1>4
    <2>2. /\ SubSeq(ac, 1, n) \in Seq(Nat)
          /\ Len(SubSeq(ac, 1, n)) = IF 1 <= n THEN n - 1 + 1 ELSE 0
          /\ \A i \in 1..(n - 1 + 1) : SubSeq(ac, 1, n)[i] = ac[1 + i - 1]
      BY <2>1, SubSeqProperties
    <2>3. Len(SubSeq(ac, 1, n)) = n
      BY <2>2
    <2>4. \A i \in 1..n : SubSeq(ac, 1, n)[i] = front[i]
      BY <2>2, <1>1, <1>2
    <2> QED
      BY <1>2, <2>2, <2>3, <2>4, SeqEqual
  <1>6. SubSeq(ac, n + 1, c - a) = rest
    <2>1. \A i \in (n + 1)..(c - a) : ac[i] \in Nat
      BY <1>4
    <2>2. /\ SubSeq(ac, n + 1, c - a) \in Seq(Nat)
          /\ Len(SubSeq(ac, n + 1, c - a)) =
                IF n + 1 <= c - a THEN (c - a) - (n + 1) + 1 ELSE 0
          /\ \A i \in 1..((c - a) - (n + 1) + 1) :
                SubSeq(ac, n + 1, c - a)[i] = ac[n + 1 + i - 1]
      BY <2>1, SubSeqProperties
    <2>3. Len(SubSeq(ac, n + 1, c - a)) = c - (a + n)
      BY <2>2
    <2>4. ASSUME NEW i \in 1..(c - (a + n))
          PROVE  SubSeq(ac, n + 1, c - a)[i] = rest[i]
      <3>1. SubSeq(ac, n + 1, c - a)[i] = ac[n + i]
        BY <2>2
      <3>2. n + i \in 1..(c - a)
        OBVIOUS
      <3> QED
        BY <3>1, <3>2, <1>1, <1>3
    <2> QED
      BY <1>3, <2>2, <2>3, <2>4, SeqEqual
  <1> QED
    BY <1>5, <1>6 DEF ac, front, rest

(* The whole blocks in n bytes: what is left is less than one. *)
LEMMA WholeBlocks ==
    ASSUME NEW n \in Nat, NEW b \in Nat \ {0}
    PROVE  /\ (n \div b) * b \in 0..n
           /\ n - (n \div b) * b < b
  OBVIOUS

LEMMA TagDueIsNat == TagDue \in Nat
  BY SizesAssumption DEF TagDue

(* Of n bytes, less than a block and a tag are held back. *)
LEMMA HeldBack ==
    ASSUME NEW n \in Nat
    PROVE  /\ WholeBlocksOf(n) \in 0..n
           /\ n - WholeBlocksOf(n) < BlockSize + TagDue
  <1> USE SizesAssumption, TagDueIsNat
  <1>1. CASE n < TagDue
    BY <1>1 DEF WholeBlocksOf
  <1>2. CASE ~(n < TagDue)
    <2> DEFINE m == n - TagDue
    <2>1. m \in Nat /\ n = m + TagDue
      BY <1>2
    <2> HIDE DEF m
    <2>2. /\ (m \div BlockSize) * BlockSize \in 0..m
          /\ m - (m \div BlockSize) * BlockSize < BlockSize
      BY <2>1, WholeBlocks
    <2>3. WholeBlocksOf(n) = (m \div BlockSize) * BlockSize
      BY <1>2 DEF WholeBlocksOf, m
    <2> DEFINE w == WholeBlocksOf(n)
    <2>4. w \in 0..m /\ m - w < BlockSize
      BY <2>2, <2>3
    <2> HIDE DEF w
    <2>5. w \in 0..n /\ n - w < BlockSize + TagDue
      BY <2>1, <2>4
    <2> QED
      BY <2>5 DEF w
  <1> QED
    BY <1>1, <1>2

-----------------------------------------------------------------------------
(* What comes out of the cryptor is read up to here. *)
Out == offset - Len(held)

(***************************************************************************)
(* The inductive invariant: what is held is the last bytes read and the    *)
(* output the bytes before them, from the first one that was not dropped.  *)
(* While there is no output file everything that came out was dropped.     *)
(***************************************************************************)
Places ==
    /\ offset <= length
    /\ Len(held) < BlockSize + TagDue
    /\ Out \in Nat
    /\ dropped <= Out

Runs ==
    /\ held = Bytes(Out, offset)
    /\ output = Bytes(dropped, Out)

Droppings ==
    /\ ~created => dropped = Out
    /\ ~refused => dropped = 0

Progress ==
    /\ pc = "begin" => offset = 0
    /\ pc \in {"finish", "done"} =>
          offset = length /\ (created \/ refused)
    /\ pc = "done" => Len(held) = TagDue

IInv == TypeOK /\ Places /\ Runs /\ Droppings /\ Progress

LEMMA EmptyRun ==
    ASSUME NEW a \in Nat
    PROVE  Bytes(a, a) = <<>>
  <1>1. Bytes(a, a) \in Seq(Nat) /\ Len(Bytes(a, a)) = 0
    BY BytesAreASeq
  <1> QED
    BY <1>1

LEMMA InitHolds == Init => IInv
  <1> SUFFICES ASSUME Init PROVE IInv
    OBVIOUS
  <1> USE SizesAssumption, TagDueIsNat
  <1>1. <<>> \in Seq(Nat) /\ Len(<<>>) = 0
    BY EmptySeq
  <1>2. held = <<>> /\ output = <<>>
    BY DEF Init
  <1>3. /\ held \in Seq(Nat) /\ output \in Seq(Nat)
        /\ Len(held) = 0
    BY <1>1, <1>2, Zenon
  <1>4. TypeOK
    <2>1. /\ action \in {"encrypt", "decrypt"} /\ fileSize \in Nat
          /\ length \in Nat /\ chunkSize \in 0..ChunkLimit
          /\ offset \in Nat /\ dropped \in Nat
      BY DEF Init
    <2>2. created \in BOOLEAN /\ refused \in BOOLEAN /\ pc = "begin"
      BY DEF Init
    <2> QED
      BY <1>3, <2>1, <2>2 DEF TypeOK
  <1>5. Len(held) = 0 /\ Out = 0
    <2>1. offset = 0
      BY DEF Init
    <2> QED
      BY <1>3, <2>1 DEF Out
  <1>6. Places
    BY <1>5, <1>4 DEF Init, Places, TypeOK
  <1>7. Runs
    BY <1>5, EmptyRun DEF Init, Runs
  <1>8. Droppings /\ Progress
    BY <1>5 DEF Init, Droppings, Progress
  <1> QED
    BY <1>4, <1>6, <1>7, <1>8 DEF IInv

LEMMA ChunkSizes ==
    ASSUME IInv
    PROVE  /\ ThisChunkSize \in 0..ChunkLimit
           /\ offset + ThisChunkSize \in offset..length
  BY SizesAssumption DEF IInv, TypeOK, Places, ThisChunkSize

LEMMA BeginHolds ==
    ASSUME IInv, Begin
    PROVE  IInv'
  <1> USE SizesAssumption
  <1>1. fileSize' \in Nat /\ chunkSize' \in 0..ChunkLimit
    <2>1. \A n \in Nat : ChunkSizeFor(n) \in 0..ChunkLimit
      BY DEF ChunkSizeFor
    <2>2. fileSize' \in Nat /\ chunkSize' = ChunkSizeFor(fileSize')
      BY DEF IInv, TypeOK, Begin
    <2> QED
      BY <2>1, <2>2
  <1>2. TypeOK'
    BY <1>1 DEF IInv, TypeOK, Begin, lost
  <1>3. Out' = Out /\ TagDue' = TagDue
    BY DEF Begin, Out, TagDue
  <1>4. Places' /\ Droppings'
    BY <1>3 DEF IInv, Begin, lost, Places, Droppings
  <1>5. Runs'
    BY <1>3 DEF IInv, Begin, lost, Runs, Bytes
  <1>6. Progress'
    BY DEF Begin, Progress
  <1> QED
    BY <1>2, <1>4, <1>5, <1>6 DEF IInv

LEMMA ChunkHolds ==
    ASSUME IInv, Chunk
    PROVE  IInv'
  <1> USE SizesAssumption
  <1> DEFINE end   == offset + ThisChunkSize
             in    == held \o Bytes(offset, end)
             whole == WholeBlocksOf(Len(in))
             out   == SubSeq(in, 1, whole)
             rest  == SubSeq(in, whole + 1, Len(in))
             upto  == Out + whole
  <1>1. /\ length \in Nat /\ offset \in Nat /\ dropped \in Nat
        /\ Out \in Nat /\ Out <= offset /\ dropped <= Out
        /\ held \in Seq(Nat) /\ output \in Seq(Nat)
    BY DEF IInv, TypeOK, Places, Out
  <1>2. end \in Nat /\ offset <= end /\ end <= length
    BY <1>1, ChunkSizes
  <1> HIDE DEF end
  <1>3. in = Bytes(Out, end)
    BY <1>1, <1>2, BytesJoin DEF IInv, Runs
  <1>4. Len(in) = end - Out /\ Len(in) \in Nat
    <2>1. Out <= end
      BY <1>1, <1>2
    <2>2. Len(Bytes(Out, end)) = end - Out
      BY <1>1, <1>2, <2>1, BytesAreASeq
    <2> QED
      BY <1>1, <1>2, <1>3, <2>1, <2>2
  <1> HIDE DEF in
  <1>5. whole \in 0..(end - Out) /\ (end - Out) - whole < BlockSize + TagDue
    BY <1>4, HeldBack
  <1> HIDE DEF whole
  <1>6. /\ out = Bytes(Out, upto)
        /\ rest = Bytes(upto, end)
    <2>1. Out <= end /\ Len(Bytes(Out, end)) = end - Out
      BY <1>1, <1>2, <1>3, <1>4
    <2>2. /\ SubSeq(Bytes(Out, end), 1, whole) = Bytes(Out, Out + whole)
          /\ SubSeq(Bytes(Out, end), whole + 1, end - Out) = Bytes(Out + whole, end)
      BY <1>1, <1>2, <1>5, <2>1, BytesCut
    <2> QED
      BY <1>3, <1>4, <2>2
  <1>7. upto \in Nat /\ Out <= upto /\ upto <= end
    BY <1>1, <1>2, <1>5
  <1>8. /\ out \in Seq(Nat) /\ Len(out) = upto - Out
        /\ rest \in Seq(Nat) /\ Len(rest) = end - upto
    <2> HIDE DEF upto
    <2>1. Bytes(Out, upto) \in Seq(Nat) /\ Len(Bytes(Out, upto)) = upto - Out
      BY <1>1, <1>7, BytesAreASeq
    <2>2. Bytes(upto, end) \in Seq(Nat) /\ Len(Bytes(upto, end)) = end - upto
      BY <1>2, <1>7, BytesAreASeq
    <2> HIDE DEF out, rest
    <2> QED
      BY <1>6, <2>1, <2>2
  <1>9. Len(rest) < BlockSize + TagDue
    BY <1>1, <1>2, <1>5, <1>8, TagDueIsNat
  <1> HIDE DEF out, rest, upto
  <1>10. /\ Write(out)
         /\ held' = rest
         /\ offset' = end
         /\ pc' = IF end < length THEN "loop" ELSE "finish"
         /\ UNCHANGED <<action, length, fileSize, chunkSize>>
         /\ TagDue' = TagDue
    BY DEF Chunk, LoopAgain, file, TagDue, out, rest, whole, in, end
  <1>11. Out' = upto
    BY <1>7, <1>8, <1>10, <1>2 DEF Out
  <1>12. /\ output' \in Seq(Nat) /\ created' \in BOOLEAN
         /\ refused' \in BOOLEAN /\ dropped' \in Nat
         /\ dropped' <= upto
         /\ output' = Bytes(dropped', upto)
         /\ ~created' => dropped' = upto
         /\ ~refused' => dropped' = 0
         /\ created' \/ refused'
    <2>1. CASE created' = TRUE /\ output' = output \o out /\ UNCHANGED lost
      <3>1. output' = Bytes(dropped, upto)
        BY <2>1, <1>1, <1>6, <1>7, BytesJoin DEF IInv, Runs
      <3>2. output' \in Seq(Nat)
        BY <3>1, <1>1, <1>7, BytesAreASeq
      <3> QED
        BY <2>1, <3>1, <3>2, <1>1, <1>7 DEF lost, IInv, TypeOK, Droppings
    <2>2. CASE /\ ~created
               /\ refused' = TRUE
               /\ dropped' = dropped + Len(out)
               /\ UNCHANGED <<created, output>>
      <3>1. dropped = Out
        BY <2>2 DEF IInv, Droppings
      <3>2. dropped' = upto
        BY <2>2, <3>1, <1>1, <1>7, <1>8
      <3>3. output = <<>>
        BY <3>1, <1>1, EmptyRun DEF IInv, Runs
      <3>4. output' = Bytes(dropped', upto)
        BY <2>2, <3>2, <3>3, <1>7, EmptyRun
      <3> QED
        BY <2>2, <3>2, <3>4, <1>1, <1>7 DEF IInv, TypeOK
    <2> QED
      BY <1>10, <2>1, <2>2 DEF Write
  <1>13. TypeOK'
    BY <1>2, <1>8, <1>10, <1>12 DEF IInv, TypeOK
  <1>14. Places'
    BY <1>2, <1>7, <1>9, <1>10, <1>11, <1>12 DEF Places
  <1>15. Runs'
    <2>1. held' = Bytes(Out', offset')
      BY <1>6, <1>10, <1>11 DEF rest
    <2> QED
      BY <2>1, <1>11, <1>12 DEF Runs, Bytes
  <1>16. Droppings'
    BY <1>11, <1>12 DEF Droppings
  <1>17. Progress'
    BY <1>1, <1>2, <1>10, <1>12 DEF Progress
  <1> QED
    BY <1>13, <1>14, <1>15, <1>16, <1>17 DEF IInv

LEMMA FinishHolds ==
    ASSUME IInv, Finish
    PROVE  IInv'
  <1> USE SizesAssumption
  <1>1. /\ offset \in Nat /\ dropped \in Nat
        /\ Out \in Nat /\ Out <= offset /\ dropped <= Out
        /\ held \in Seq(Nat) /\ Len(held) = offset - Out
    BY DEF IInv, TypeOK, Places, Out
  <1>2. offset = length /\ (created \/ refused)
    BY DEF IInv, Progress, Finish
  <1> DEFINE rest == Len(held) - TagDue
             tag  == offset - TagDue
  <1>3. /\ rest \in 0..(offset - Out) /\ tag \in Nat /\ tag = Out + rest
        /\ Out <= tag /\ tag <= offset
    BY <1>1, TagDueIsNat DEF Finish
  <1>4. /\ SubSeq(held, 1, rest) = Bytes(Out, tag)
        /\ SubSeq(held, rest + 1, Len(held)) = Bytes(tag, offset)
        /\ Len(Bytes(tag, offset)) = TagDue
        /\ Bytes(tag, offset) \in Seq(Nat)
    <2>1. held = Bytes(Out, offset)
      BY DEF IInv, Runs
    <2>2. /\ SubSeq(Bytes(Out, offset), 1, rest) = Bytes(Out, Out + rest)
          /\ SubSeq(Bytes(Out, offset), rest + 1, offset - Out)
                = Bytes(Out + rest, offset)
      <3> HIDE DEF rest
      <3> QED
        BY <1>1, <1>3, BytesCut
    <2>3. Bytes(tag, offset) \in Seq(Nat) /\ Len(Bytes(tag, offset)) = offset - tag
      <3> HIDE DEF tag
      <3> QED
        BY <1>1, <1>3, BytesAreASeq
    <2>4. offset - tag = TagDue
      BY <1>1, TagDueIsNat
    <2> HIDE DEF rest, tag
    <2> QED
      BY <1>1, <1>3, <2>1, <2>2, <2>3, <2>4
  <1>5. /\ held' = SubSeq(held, rest + 1, Len(held)) /\ pc' = "done"
        /\ UNCHANGED <<action, length, fileSize, chunkSize, offset, created>>
        /\ TagDue' = TagDue
        /\ \/ created /\ output' = output \o SubSeq(held, 1, rest) /\ UNCHANGED lost
           \/ /\ ~created
              /\ dropped' = dropped + rest
              /\ UNCHANGED <<output, refused>>
    BY DEF Finish, file, TagDue
  <1> HIDE DEF rest, tag
  <1>6. held' = Bytes(tag, offset) /\ Len(held') = TagDue /\ held' \in Seq(Nat)
    BY <1>4, <1>5
  <1>7. Out' = tag
    BY <1>1, <1>3, <1>5, <1>6, TagDueIsNat DEF Out, tag
  <1>8. /\ output' = Bytes(dropped', tag) /\ output' \in Seq(Nat)
        /\ dropped' \in Nat /\ dropped' <= tag
        /\ refused' = refused
        /\ ~created => dropped' = tag
        /\ ~refused => dropped' = 0
    <2>1. CASE created /\ output' = output \o SubSeq(held, 1, rest) /\ UNCHANGED lost
      <3>1. Bytes(dropped, Out) \o Bytes(Out, tag) = Bytes(dropped, tag)
        BY <1>1, <1>3, BytesJoin
      <3>2. output' = Bytes(dropped, tag)
        BY <2>1, <1>4, <3>1 DEF IInv, Runs
      <3>3. output' \in Seq(Nat)
        BY <3>2, <1>1, <1>3, BytesAreASeq
      <3>4. dropped' = dropped /\ refused' = refused /\ dropped <= tag
        BY <2>1, <1>1, <1>3 DEF lost
      <3>5. ~refused => dropped = 0
        BY DEF IInv, Droppings
      <3> QED
        BY <2>1, <3>2, <3>3, <3>4, <3>5, <1>1
    <2>2. CASE /\ ~created
               /\ dropped' = dropped + rest
               /\ UNCHANGED <<output, refused>>
      <3>1. dropped = Out /\ dropped' = tag
        BY <2>2, <1>1, <1>3 DEF IInv, Droppings
      <3>2. output = <<>>
        BY <3>1, <1>1, EmptyRun DEF IInv, Runs
      <3>3. output' = Bytes(dropped', tag)
        BY <2>2, <3>1, <3>2, <1>3, EmptyRun
      <3> QED
        BY <2>2, <3>1, <3>3, <1>1, <1>2, <1>3 DEF IInv, TypeOK
    <2> QED
      BY <2>1, <2>2, <1>5
  <1>9. TypeOK'
    BY <1>5, <1>6, <1>8 DEF IInv, TypeOK
  <1>10. Places'
    BY <1>1, <1>2, <1>3, <1>5, <1>6, <1>7, <1>8, TagDueIsNat DEF Places
  <1>11. Runs'
    <2>1. held' = Bytes(Out', offset')
      BY <1>5, <1>6, <1>7
    <2> QED
      BY <2>1, <1>7, <1>8 DEF Runs, Bytes
  <1>12. Droppings'
    BY <1>5, <1>7, <1>8 DEF Droppings
  <1>13. Progress'
    BY <1>2, <1>5, <1>6, <1>8 DEF Progress
  <1> QED
    BY <1>9, <1>10, <1>11, <1>12, <1>13 DEF IInv

(* A file whose tag is missing fails as one that throws. *)
LEMMA MissingTagThrows == TagIsMissing => Throws
  BY DEF TagIsMissing, Throws

LEMMA ThrowsHold ==
    ASSUME IInv, Throws
    PROVE  IInv'
  <1>1. TypeOK'
    BY DEF IInv, TypeOK, Throws, file, lost
  <1>2. Out' = Out /\ TagDue' = TagDue
    BY DEF Throws, file, Out, TagDue
  <1>3. Places' /\ Droppings'
    BY <1>2 DEF IInv, Throws, file, lost, Places, Droppings
  <1>4. Runs'
    BY <1>2 DEF IInv, Throws, file, lost, Runs, Bytes
  <1>5. Progress'
    BY DEF IInv, Throws, file, lost, Progress
  <1> QED
    BY <1>1, <1>3, <1>4, <1>5 DEF IInv

LEMMA Inductive == IInv /\ [Next]_vars => IInv'
  <1> SUFFICES ASSUME IInv, [Next]_vars
               PROVE  IInv'
    OBVIOUS
  <1>1. CASE Begin
    BY <1>1, BeginHolds
  <1>2. CASE Chunk
    BY <1>2, ChunkHolds
  <1>3. CASE Finish
    BY <1>3, FinishHolds
  <1>4. CASE Throws \/ TagIsMissing
    BY <1>4, ThrowsHold, MissingTagThrows
  <1>5. CASE UNCHANGED vars
    <2>1. TypeOK' /\ Out' = Out /\ TagDue' = TagDue
      BY <1>5 DEF IInv, TypeOK, vars, file, lost, Out, TagDue
    <2>2. Places' /\ Droppings' /\ Progress'
      BY <1>5, <2>1 DEF IInv, vars, file, lost, Places, Droppings, Progress
    <2>3. Runs'
      BY <1>5, <2>1 DEF IInv, vars, file, lost, Runs, Bytes
    <2> QED
      BY <2>1, <2>2, <2>3 DEF IInv
  <1> QED
    BY <1>1, <1>2, <1>3, <1>4, <1>5 DEF Next, GoOn

THEOREM Invariance == Spec => []IInv
  BY InitHolds, Inductive, PTL DEF Spec

-----------------------------------------------------------------------------
(* Type correctness. *)
THEOREM TypeCorrect == Spec => []TypeOK
  <1>1. IInv => TypeOK
    BY DEF IInv
  <1> QED
    BY <1>1, Invariance, PTL

(***************************************************************************)
(* What has been written and what is still in the cryptor are the bytes    *)
(* read, in order, but for those dropped before the file was created.      *)
(***************************************************************************)
THEOREM AllBytesKept == Spec => []NothingLost
  <1>1. ASSUME IInv PROVE NothingLost
    <2>1. /\ offset \in Nat /\ dropped \in Nat /\ Out \in Nat
          /\ Out <= offset /\ dropped <= Out
      BY <1>1 DEF IInv, TypeOK, Places, Out
    <2> QED
      BY <1>1, <2>1, BytesJoin DEF IInv, Runs, NothingLost
  <1> QED
    BY <1>1, Invariance, PTL

(* A file that is done is whole, unless its output could not be created. *)
THEOREM DoneIsWhole == Spec => []WholeFile
  <1>1. ASSUME IInv, pc = "done", ~refused
        PROVE  created /\ output = Bytes(0, length - TagDue)
    <2>1. Len(held) = TagDue /\ offset = length /\ created /\ dropped = 0
      BY <1>1 DEF IInv, Progress, Droppings
    <2>2. Out = length - TagDue
      BY <1>1, <2>1 DEF IInv, TypeOK, Out
    <2> QED
      BY <1>1, <2>1, <2>2 DEF IInv, Runs
  <1>2. IInv => WholeFile
    BY <1>1 DEF WholeFile
  <1> QED
    BY <1>2, Invariance, PTL

(* Less than a block and a tag is held back and no chunk is larger than the limit. *)
THEOREM BoundedMemory == Spec => []MemoryIsBounded
  <1>1. ASSUME IInv PROVE MemoryIsBounded
    <2>1. ThisChunkSize <= ChunkLimit
      BY <1>1, ChunkSizes, SizesAssumption
    <2> QED
      BY <1>1, <2>1 DEF IInv, Places, MemoryIsBounded
  <1> QED
    BY <1>1, Invariance, PTL
-----------------------------------------------------------------------------
(* The size of the chunks is the one the loop was entered with. *)
Chunked ==
    pc \in {"loop", "finish", "done"} =>
        fileSize \in {length, 0} /\ chunkSize = ChunkSizeFor(fileSize)

LEMMA ChunkedInit == Init => Chunked
  BY DEF Init, Chunked

LEMMA ChunkedStep == Chunked /\ [Next]_vars => Chunked'
  BY DEF Chunked, Next, GoOn, Begin, Chunk, Finish, TagIsMissing, Throws,
         vars, file, ChunkSizeFor

(* Half of what is read in halves is none for a file of one byte only. *)
LEMMA ChunkIsNotEmpty ==
    ASSUME NEW n \in Nat
    PROVE  /\ n > 1 => ChunkSizeFor(n) > 0
           /\ n <= 1 => ChunkSizeFor(n) = 0
  BY SizesAssumption DEF ChunkSizeFor

(***************************************************************************)
(* Every round of the loop that is followed by another reads at least a    *)
(* byte and less than the rest of the file, unless the file has one byte   *)
(* or its size could not be read: what is left to read is a bound on the   *)
(* number of rounds to come.                                               *)
(***************************************************************************)
THEOREM ReadsOn == Spec => RoundsReadOn
  <1> DEFINE A == HasChunks /\ pc = "loop" /\ pc' = "loop"
                      => offset < offset' /\ offset' < length
  <1>1. IInv /\ Chunked /\ [Next]_vars => [A]_vars
    <2> SUFFICES ASSUME IInv, Chunked, Next,
                        HasChunks, pc = "loop", pc' = "loop"
                 PROVE  offset < offset' /\ offset' < length
      OBVIOUS
    <2>1. Chunk
      BY DEF Next, GoOn, Begin, Finish, TagIsMissing, Throws
    <2>2. /\ offset' = offset + ThisChunkSize
          /\ offset' < length /\ length' = length
      BY <2>1 DEF Chunk, file, LoopAgain
    <2>3. length \in Nat /\ offset \in Nat /\ offset <= length
          /\ chunkSize = ChunkSizeFor(length) /\ chunkSize \in Nat
      BY SizesAssumption DEF IInv, TypeOK, Places, Chunked, HasChunks
    <2>4. ThisChunkSize \in Nat
      BY SizesAssumption, ChunkSizes
    <2>5. length > 1
      BY <2>2, <2>3, <2>4 DEF HasChunks
    <2>6. chunkSize > 0
      BY <2>3, <2>5, ChunkIsNotEmpty
    <2>7. ThisChunkSize > 0
      BY <2>2, <2>3, <2>4, <2>6 DEF ThisChunkSize
    <2> QED
      BY <2>2, <2>3, <2>4, <2>7
  <1> QED
    BY <1>1, Invariance, ChunkedInit, ChunkedStep, PTL DEF Spec, RoundsReadOn

(***************************************************************************)
(* The two exceptions are real: a file of one byte, and any file but the   *)
(* empty one whose size could not be read, is never done: the chunks it is *)
(* read in are empty, and crypt leaves the loop only by throwing.          *)
(***************************************************************************)
THEOREM NoChunksNeverDone ==
    Spec => [](pc # "begin" /\ length > 0 /\ ~HasChunks
                 => pc \notin {"finish", "done"})
  <1> DEFINE Stuck == pc # "begin" /\ length > 0 /\ ~HasChunks
                          => pc \in {"loop", "failed"} /\ (pc = "loop" => offset = 0)
  <1>1. Init => Stuck
    BY DEF Init
  <1>2. IInv /\ Chunked /\ Stuck /\ [Next]_vars => Stuck'
    <2> SUFFICES ASSUME IInv, Chunked, Stuck, [Next]_vars,
                        pc' # "begin", length' > 0, ~HasChunks'
                 PROVE  pc' \in {"loop", "failed"} /\ (pc' = "loop" => offset' = 0)
      OBVIOUS
    <2>1. length' = length
      BY DEF Next, GoOn, Begin, Chunk, Finish, TagIsMissing, Throws, vars, file
    <2>2. CASE Chunk
      <3>1. /\ pc = "loop" /\ fileSize' = fileSize
            /\ pc' = IF offset' < length' THEN "loop" ELSE "finish"
            /\ offset' = offset + ThisChunkSize
        BY <2>2 DEF Chunk, file, LoopAgain
      <3>2. ~HasChunks /\ offset = 0
        BY <2>1, <3>1 DEF HasChunks
      <3>3. fileSize <= 1 /\ fileSize \in Nat
        BY <3>1, <3>2 DEF Chunked, HasChunks, IInv, TypeOK
      <3>4. chunkSize = 0
        BY <3>1, <3>3, ChunkIsNotEmpty DEF Chunked
      <3>5. length \in Nat /\ length > 0
        BY <2>1 DEF IInv, TypeOK
      <3>6. ThisChunkSize = 0
        BY <3>2, <3>4, <3>5 DEF ThisChunkSize
      <3> QED
        BY <2>1, <3>1, <3>2, <3>5, <3>6
    <2>3. CASE Begin
      <3>1. pc = "begin" /\ pc' = "loop" /\ offset' = offset
        BY <2>3 DEF Begin
      <3>2. offset = 0
        BY <3>1 DEF IInv, Progress
      <3> QED
        BY <3>1, <3>2
    <2>4. CASE Finish
      BY <2>1, <2>4 DEF Finish, file, HasChunks
    <2>5. CASE TagIsMissing \/ Throws
      BY <2>5 DEF TagIsMissing, Throws
    <2>6. CASE UNCHANGED vars
      BY <2>6 DEF vars, file, HasChunks
    <2> QED
      BY <2>2, <2>3, <2>4, <2>5, <2>6 DEF Next, GoOn
  <1>3. Stuck => (pc # "begin" /\ length > 0 /\ ~HasChunks
                    => pc \notin {"finish", "done"})
    OBVIOUS
  <1> QED
    BY <1>1, <1>2, <1>3, Invariance, ChunkedInit, ChunkedStep, PTL DEF Spec
=============================================================================
