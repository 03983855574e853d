----------------------------- MODULE FileCrypt ------------------------------
(***************************************************************************)
(* SecretChatFileHandler.crypt: a large file is read in chunks, each chunk *)
(* is put through the cryptor and what comes out is appended to the output *)
(* file.  The cryptor works on whole blocks: it holds back the bytes after *)
(* the last one until the next chunk, or until it is finished.  A file to  *)
(* decrypt ends in its authentication tag, and since any byte may be the   *)
(* last, the decryptor holds back as many as the tag has besides.          *)
(*                                                                         *)
(* A byte is represented by its place in the file, 0, 1, ..., encrypted or *)
(* not; the tag that the encryptor appends when finished is not kept.      *)
(***************************************************************************)
EXTENDS Integers, Sequences

CONSTANTS
    Lengths,      \* lengths of the files
    ChunkLimit,   \* largest chunk (50 MB)
    BlockSize,    \* of the cipher (16)
    TagSize       \* of the authentication tag (16)

ASSUME SizesAssumption ==
    /\ Lengths \subseteq Nat
    /\ TagSize \in Nat
    /\ {ChunkLimit, BlockSize} \subseteq Nat \ {0}

VARIABLES
    action,      \* "encrypt", "decrypt"
    length,      \* of the file, where its handle finds the end
    fileSize,    \* of the file, as its attributes have it
    chunkSize,
    offset,      \* bytes read
    held,        \* bytes in the cryptor
    created,     \* the output file has been created
    output,      \* its bytes
    pc,          \* "begin", "loop", "finish", "done", "failed"
    refused,     \* history: the output file could not be created
    dropped      \* history: bytes that were not written for that reason

lost == <<refused, dropped>>
file == <<action, length, fileSize>>
vars == <<file, chunkSize, offset, held, created, output, pc, lost>>

TypeOK ==
    /\ action \in {"encrypt", "decrypt"}
    /\ length \in Nat
    /\ fileSize \in Nat
    /\ chunkSize \in 0..ChunkLimit
    /\ offset \in Nat
    /\ held \in Seq(Nat)
    /\ created \in BOOLEAN
    /\ output \in Seq(Nat)
    /\ pc \in {"begin", "loop", "finish", "done", "failed"}
    /\ refused \in BOOLEAN
    /\ dropped \in Nat

(* The bytes of the file from one place up to another. *)
Bytes(from, to) == [i \in 1..(to - from) |-> from + i - 1]

(* Mutant: every file is cut in two. *)
HalfOf(size) == size \div 2

(* Mutant: a file that is not larger than a chunk is read in quarters. *)
QuarterOf(size) == IF size <= ChunkLimit THEN size \div 4 ELSE ChunkLimit

(* A file that is not larger than a chunk is read in halves, of its size   *)
(* as the attributes have it.                                              *)
ChunkSizeFor(size) == IF size <= ChunkLimit THEN size \div 2 ELSE ChunkLimit

Init ==
    /\ action \in {"encrypt", "decrypt"}
    /\ length \in Lengths
    /\ fileSize = 0
    /\ chunkSize = ChunkLimit
    /\ offset = 0
    /\ held = <<>>
    /\ created = FALSE
    /\ output = <<>>
    /\ pc = "begin"
    /\ refused = FALSE
    /\ dropped = 0

-----------------------------------------------------------------------------
(* fileSize answers 0 when it cannot read the attributes; the length is    *)
(* taken from the file.                                                    *)
Begin ==
    /\ pc = "begin"
    /\ fileSize' \in {length, 0}
    /\ chunkSize' = ChunkSizeFor(fileSize')
    /\ pc' = "loop"
    /\ UNCHANGED <<action, length, offset, held, created, output, lost>>

(* Mutant: the last chunk is as long as the others. *)
WholeChunkSize == chunkSize

ThisChunkSize == IF length - offset > chunkSize THEN chunkSize ELSE length - offset

(* Mutant: goes round once more. *)
LoopOnceMore == offset' <= length

(* The condition of the loop. *)
LoopAgain == offset' < length

(* The first output is written by creating the file.  When that fails it is *)
(* dropped, and the next chunk is the first.                                *)
Write(out) ==
    \/ /\ created' = TRUE
       /\ output' = output \o out
       /\ UNCHANGED lost
    \/ /\ ~created
       /\ refused' = TRUE
       /\ dropped' = dropped + Len(out)
       /\ UNCHANGED <<created, output>>

(* What the decryptor holds back for the tag. *)
TagDue == IF action = "decrypt" THEN TagSize ELSE 0

(* Of n bytes, those in whole blocks that are not held back for the tag. *)
WholeBlocksOf(n) == IF n < TagDue THEN 0 ELSE ((n - TagDue) \div BlockSize) * BlockSize

(* One round of the loop. *)
Chunk ==
    /\ pc = "loop"
    /\ LET in    == held \o Bytes(offset, offset + ThisChunkSize)
           whole == WholeBlocksOf(Len(in))
       IN  /\ Write(SubSeq(in, 1, whole))
           /\ held' = SubSeq(in, whole + 1, Len(in))
    /\ offset' = offset + ThisChunkSize
    /\ pc' = IF LoopAgain THEN "loop" ELSE "finish"
    /\ UNCHANGED <<file, chunkSize>>

(* Mutant: what is held back when the loop ends is not written. *)
FinishWithoutRest ==
    /\ pc = "finish"
    /\ held' = <<>>
    /\ pc' = "done"
    /\ UNCHANGED <<file, chunkSize, offset, created, output, lost>>

(* finish gives out the rest, which is written if there is a file; the tag  *)
(* of a file to decrypt stays in the cryptor.                               *)
Finish ==
    /\ pc = "finish"
    /\ Len(held) >= TagDue
    /\ LET rest == Len(held) - TagDue
       IN  /\ \/ /\ created
                 /\ output' = output \o SubSeq(held, 1, rest)
                 /\ UNCHANGED lost
              \/ /\ ~created
                 /\ dropped' = dropped + rest
                 /\ UNCHANGED <<output, refused>>
           /\ held' = SubSeq(held, rest + 1, Len(held))
    /\ pc' = "done"
    /\ UNCHANGED <<file, chunkSize, offset, created>>

(* A file to decrypt that is shorter than a tag has none. *)
TagIsMissing ==
    /\ pc = "finish"
    /\ Len(held) < TagDue
    /\ pc' = "failed"
    /\ UNCHANGED <<file, chunkSize, offset, held, created, output, lost>>

(* The file or the output cannot be opened, the cryptor throws, or, at the *)
(* end of a file to decrypt, its tag does not fit.  What has been written  *)
(* stays.                                                                  *)
Throws ==
    /\ pc \in {"begin", "loop", "finish"}
    /\ pc' = "failed"
    /\ UNCHANGED <<file, chunkSize, offset, held, created, output, lost>>

GoOn == Begin \/ Chunk \/ Finish \/ TagIsMissing

Next == GoOn \/ Throws

Spec == Init /\ [][Next]_vars

(* crypt goes on; nothing needs to throw. *)
FairSpec == Spec /\ WF_vars(GoOn)

-----------------------------------------------------------------------------
(***************************************************************************)
(* The bytes in the output and in the cryptor are those read, in order and *)
(* none of them twice; those that are missing, because the output file     *)
(* could not be created, are the first ones of the file.                   *)
(***************************************************************************)
NothingLost == output \o held = Bytes(dropped, offset)

(* A file that has been put through is whole, unless its output file could *)
(* not be created at once.                                                 *)
WholeFile ==
    pc = "done" /\ ~refused => created /\ output = Bytes(0, length - TagDue)

(* Less than a block and a tag is held back, and a chunk is never longer   *)
(* than the limit, however large the file: that is what chunks are for.    *)
MemoryIsBounded == Len(held) < BlockSize + TagDue /\ ThisChunkSize <= ChunkLimit

(* The two ways to chunks of no bytes: the half of one byte is none, and   *)
(* so is the half of a size that could not be read.                        *)
HasChunks == fileSize = length /\ length # 1

(***************************************************************************)
(* A round that another one follows has read something and has not reached *)
(* the end, for every file whose size is known and is not one byte.        *)
(***************************************************************************)
RoundsReadOn ==
    [][HasChunks /\ pc = "loop" /\ pc' = "loop"
          => offset < offset' /\ offset' < length]_vars

(* Such a file is read to its end. *)
Terminates == (pc = "loop" /\ HasChunks) ~> (pc \in {"done", "failed"})
=============================================================================
