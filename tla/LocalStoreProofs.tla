-------------------------- MODULE LocalStoreProofs --------------------------
(***************************************************************************)
(* Theorems about LocalStore, for any number of sets of keys and of times  *)
(* the process dies.                                                       *)
(***************************************************************************)
EXTENDS LocalStore, TLAPS

Uniform(k) == \A s, t \in Slot : k[s] = k[t]

(* What the loop over the slots has done so far, and that what it makes    *)
(* fits the bounds.                                                        *)
LoopInv ==
    /\ op.name = "clear" =>
          wipes < MaxSets /\ \A s \in Slot : s < op.next => defaults[s] = Absent
    /\ op.name = "generate" =>
          generated # Absent /\ \A s \in Slot : s < op.next => defaults[s] = generated

(***************************************************************************)
(* Keys that a start can find.  They are of one set, or the last slot is   *)
(* empty: generating writes that slot last, and begins only when a slot    *)
(* was empty.  Dying in shut, which clears the first slot first, may leave *)
(* others that are not complete; the next death may then mix them.         *)
(***************************************************************************)
Fresh(k) == Uniform(k) \/ k[LastSlot] = Absent
Sound(k) == Complete(k) => Uniform(k)

DefaultsInv ==
    /\ crashes = 0 \/ ~cut =>
          /\ op.name = "idle" => Fresh(defaults)
          /\ op.name = "generate" => defaults[LastSlot] = Absent
          /\ op.name = "clear" /\ op.next = 1 => Fresh(defaults)
    /\ (crashes <= 1 \/ ~cut) /\ op.name = "idle" => Sound(defaults)

UserInv == user # NoKeys => Complete(user)

KeysInv == TypeOK /\ LoopInv /\ DefaultsInv /\ UserInv /\ KeysOfOneSet /\ IdentitySurvives

-----------------------------------------------------------------------------
(* Facts about slots and keys. *)

LEMMA KeysType ==
  /\ NoKeys \in Keys
  /\ Uniform(NoKeys)
  /\ ~Complete(NoKeys)
  /\ \A k \in Keys, s \in Slot, v \in 0..MaxSets : [k EXCEPT ![s] = v] \in Keys
  /\ 1 \in Slot /\ LastSlot \in Slot
  /\ \A s \in Slot : s # LastSlot => s + 1 \in Slot
  BY BoundsAssumption DEF NoKeys, Keys, Uniform, Complete, Slot, LastSlot, Absent

LEMMA FreshIsSound == \A k : Fresh(k) => Sound(k)
  BY KeysType DEF Fresh, Sound, Complete

LEMMA FreshIncomplete == \A k : Fresh(k) /\ ~Complete(k) => k[LastSlot] = Absent
  BY KeysType DEF Fresh, Uniform, Complete

(* When the loop writes the last slot, all of them have the same value. *)
LEMMA LastWrite ==
  ASSUME NEW k \in Keys, NEW v \in 0..MaxSets, \A s \in Slot : s < LastSlot => k[s] = v
  PROVE  \A s \in Slot : [k EXCEPT ![LastSlot] = v][s] = v
  BY DEF Keys, Slot, LastSlot

(* The loop goes on to the next slot. *)
LEMMA LoopWrite ==
  ASSUME NEW k \in Keys, NEW n \in Slot, NEW v \in 0..MaxSets, n # LastSlot,
         \A s \in Slot : s < n => k[s] = v
  PROVE  /\ \A s \in Slot : s < n + 1 => [k EXCEPT ![n] = v][s] = v
         /\ [k EXCEPT ![n] = v][LastSlot] = k[LastSlot]
  BY DEF Keys, Slot, LastSlot

LEMMA OpType ==
  ASSUME TypeOK
  PROVE  /\ op.next \in Slot
         /\ op.name \in {"idle", "generate", "clear"}
         /\ op = Idle => op.name = "idle"
  BY KeysType DEF TypeOK, Idle

LEMMA IdleType ==
  /\ Idle \in [name : {"idle", "generate", "clear"}, next : Slot]
  /\ Idle.name = "idle"
  BY KeysType DEF Idle

LEMMA EstablishType ==
  ASSUME TypeOK, Establish
  PROVE  established' = TRUE /\ loaded' \subseteq data \cup pending
  BY DEF TypeOK, Establish

-----------------------------------------------------------------------------
LEMMA KeysInit == Init => KeysInv
  <1> SUFFICES ASSUME Init PROVE KeysInv
    OBVIOUS
  <1>1. TypeOK
    <2>1. 0 \in 0..MaxSets /\ 0 \in 0..MaxCrashes
      BY BoundsAssumption
    <2> QED BY <2>1, KeysType, IdleType DEF Init, TypeOK
  <1>2. op.name = "idle" /\ Fresh(defaults) /\ Sound(defaults)
    BY KeysType, IdleType, FreshIsSound DEF Init, Fresh
  <1>3. LoopInv /\ DefaultsInv
    BY <1>2 DEF LoopInv, DefaultsInv
  <1>4. UserInv /\ KeysOfOneSet /\ IdentitySurvives
    BY KeysType DEF Init, UserInv, KeysOfOneSet, IdentitySurvives, Uniform
  <1> QED BY <1>1, <1>3, <1>4 DEF KeysInv

(* Steps that leave the keys and the loop as they are. *)
LEMMA KeysUnchanged ==
  ASSUME KeysInv, TypeOK', UNCHANGED <<defaults, op, generated, crashes>>,
         wipes' <= wipes, cut => cut', user' = user
  PROVE  KeysInv'
  <1>1. LoopInv'
    BY BoundsAssumption DEF KeysInv, TypeOK, LoopInv
  <1>2. DefaultsInv'
    BY DEF KeysInv, DefaultsInv
  <1>3. UserInv' /\ KeysOfOneSet' /\ IdentitySurvives'
    BY DEF KeysInv, UserInv, KeysOfOneSet, IdentitySurvives
  <1> QED BY <1>1, <1>2, <1>3 DEF KeysInv

LEMMA KeysInitiateWithKeys ==
  ASSUME KeysInv, InitiateWithKeys
  PROVE  KeysInv'
  <1>1. TypeOK'
    BY EstablishType DEF KeysInv, TypeOK, InitiateWithKeys, MayHurry, rows
  <1>2. /\ UNCHANGED <<defaults, op, generated, crashes, wipes>> /\ user' = defaults
        /\ op = Idle /\ Complete(defaults) /\ (cut => cut')
    BY DEF InitiateWithKeys, MayHurry
  <1>3. LoopInv' /\ DefaultsInv'
    BY <1>2 DEF KeysInv, LoopInv, DefaultsInv
  <1>4. crashes <= 1 \/ ~cut => Uniform(defaults)
    BY <1>2, OpType DEF KeysInv, DefaultsInv, Sound
  <1>5. UserInv' /\ KeysOfOneSet' /\ IdentitySurvives'
    BY <1>2, <1>4 DEF UserInv, Complete, KeysOfOneSet, IdentitySurvives, Uniform
  <1> QED BY <1>1, <1>3, <1>5 DEF KeysInv

LEMMA KeysBegin ==
  ASSUME KeysInv, BeginGenerate
  PROVE  KeysInv'
  <1>1. /\ op = Idle /\ ~Complete(defaults) /\ generated' = generated + 1
        /\ op' = [name |-> "generate", next |-> 1] /\ (cut => cut')
        /\ UNCHANGED <<defaults, rows, memory, wipes, crashes>>
    BY DEF BeginGenerate, MayHurry
  <1>2. op'.name = "generate" /\ op'.next = 1 /\ op' # Idle
    BY <1>1 DEF Idle
  <1>3. generated' \in 0..MaxSets /\ generated' # Absent
    BY BoundsAssumption DEF KeysInv, TypeOK, BeginGenerate, Absent
  <1>4. TypeOK'
    BY <1>1, <1>3, KeysType DEF KeysInv, TypeOK, BeginGenerate, MayHurry, rows, memory
  <1>5. LoopInv'
    BY <1>2, <1>3 DEF LoopInv, Slot
  <1>6. crashes = 0 \/ ~cut => defaults[LastSlot] = Absent
    BY <1>1, OpType, FreshIncomplete DEF KeysInv, DefaultsInv
  <1>7. DefaultsInv'
    BY <1>1, <1>2, <1>6 DEF DefaultsInv
  <1>8. UserInv' /\ KeysOfOneSet' /\ IdentitySurvives'
    BY <1>1, <1>2 DEF KeysInv, memory, past, UserInv, KeysOfOneSet, IdentitySurvives
  <1> QED BY <1>4, <1>5, <1>7, <1>8 DEF KeysInv

LEMMA KeysWrite ==
  ASSUME KeysInv, WriteKey
  PROVE  KeysInv'
  <1>1. /\ op.name = "generate" /\ op.next \in Slot /\ defaults \in Keys
        /\ generated \in 0..MaxSets /\ generated # Absent
        /\ \A s \in Slot : s < op.next => defaults[s] = generated
    BY OpType DEF KeysInv, TypeOK, WriteKey, LoopInv
  <1>2. /\ defaults' = [defaults EXCEPT ![op.next] = generated]
        /\ UNCHANGED <<rows, wipes, generated, crashes, past>>
    BY DEF WriteKey
  <1>3. defaults' \in Keys
    BY <1>1, <1>2, KeysType
  <1>4. CASE op.next = LastSlot
    <2>1. op' = Idle /\ user' = defaults' /\ Establish
      BY <1>4 DEF WriteKey
    <2>2. \A s \in Slot : defaults'[s] = generated
      BY <1>1, <1>2, <1>4, LastWrite
    <2>3. Uniform(defaults') /\ Complete(defaults')
      BY <1>1, <2>2 DEF Uniform, Complete
    <2>4. TypeOK'
      BY <1>2, <1>3, <2>1, IdleType, EstablishType DEF KeysInv, TypeOK, rows, past
    <2>5. op'.name = "idle"
      BY <2>1, IdleType
    <2>6. LoopInv' /\ DefaultsInv'
      BY <2>3, <2>5 DEF LoopInv, DefaultsInv, Fresh, Sound
    <2>7. UserInv' /\ KeysOfOneSet' /\ IdentitySurvives'
      BY <2>1, <2>3 DEF UserInv, Complete, Uniform, KeysOfOneSet, IdentitySurvives
    <2> QED BY <2>4, <2>6, <2>7 DEF KeysInv
  <1>5. CASE op.next # LastSlot
    <2>1. op' = [op EXCEPT !.next = @ + 1] /\ UNCHANGED memory
      BY <1>5 DEF WriteKey
    <2>2. op'.name = "generate" /\ op'.next = op.next + 1 /\ op' # Idle
          /\ op' \in [name : {"idle", "generate", "clear"}, next : Slot]
      BY <1>1, <1>5, <2>1, KeysType DEF KeysInv, TypeOK, Idle
    <2>3. TypeOK'
      BY <1>2, <1>3, <2>1, <2>2 DEF KeysInv, TypeOK, rows, past, memory
    <2>4. /\ \A s \in Slot : s < op.next + 1 => defaults'[s] = generated
          /\ defaults'[LastSlot] = defaults[LastSlot]
      BY <1>1, <1>2, <1>5, LoopWrite
    <2>5. LoopInv'
      BY <1>1, <1>2, <2>2, <2>4 DEF LoopInv
    <2>6. DefaultsInv'
      BY <1>1, <1>2, <2>2, <2>4 DEF KeysInv, DefaultsInv, past
    <2>7. UserInv' /\ KeysOfOneSet' /\ IdentitySurvives'
      BY <1>2, <2>1, <2>2 DEF KeysInv, memory, past, UserInv, KeysOfOneSet, IdentitySurvives
    <2> QED BY <2>3, <2>5, <2>6, <2>7 DEF KeysInv
  <1> QED BY <1>4, <1>5

LEMMA KeysShut ==
  ASSUME KeysInv, Shut
  PROVE  KeysInv'
  <1>1. /\ op = Idle /\ wipes < MaxSets /\ op' = [name |-> "clear", next |-> 1]
        /\ UNCHANGED <<defaults, rows, memory, wipes, generated, crashes, past>>
    BY DEF Shut
  <1>2. op'.name = "clear" /\ op'.next = 1 /\ op' # Idle
    BY <1>1 DEF Idle
  <1>3. TypeOK'
    BY <1>1, KeysType DEF KeysInv, TypeOK, rows, past, memory
  <1>4. LoopInv'
    BY <1>1, <1>2 DEF LoopInv, Slot
  <1>5. DefaultsInv'
    BY <1>1, <1>2, OpType DEF KeysInv, DefaultsInv, past
  <1>6. UserInv' /\ KeysOfOneSet' /\ IdentitySurvives'
    BY <1>1, <1>2 DEF KeysInv, memory, past, UserInv, KeysOfOneSet, IdentitySurvives
  <1> QED BY <1>3, <1>4, <1>5, <1>6 DEF KeysInv

LEMMA KeysClear ==
  ASSUME KeysInv, ClearKey
  PROVE  KeysInv'
  <1>1. /\ op.name = "clear" /\ op.next \in Slot /\ defaults \in Keys
        /\ Absent \in 0..MaxSets /\ wipes < MaxSets
        /\ \A s \in Slot : s < op.next => defaults[s] = Absent
    BY OpType, BoundsAssumption DEF KeysInv, TypeOK, ClearKey, LoopInv, Absent
  <1>2. /\ defaults' = [defaults EXCEPT ![op.next] = Absent]
        /\ UNCHANGED <<data, pending, generated, crashes, past>>
    BY DEF ClearKey
  <1>3. defaults' \in Keys
    BY <1>1, <1>2, KeysType
  <1>4. CASE op.next = LastSlot
    <2>1. op' = Idle /\ user' = NoKeys /\ established' = FALSE /\ loaded' = {}
          /\ wipes' = wipes + 1 /\ leftover' = leftover \cup pending
      BY <1>4 DEF ClearKey, ClearSession
    <2>2. \A s \in Slot : defaults'[s] = Absent
      BY <1>1, <1>2, <1>4, LastWrite
    <2>3. Uniform(defaults')
      BY <2>2 DEF Uniform
    <2>4. wipes' \in 0..MaxSets
      BY <1>1, <2>1, BoundsAssumption DEF KeysInv, TypeOK
    <2>5. TypeOK'
      BY <1>2, <1>3, <2>1, <2>4, IdleType, KeysType DEF KeysInv, TypeOK, past
    <2>6. op'.name = "idle"
      BY <2>1, IdleType
    <2>7. LoopInv' /\ DefaultsInv'
      BY <2>3, <2>6 DEF LoopInv, DefaultsInv, Fresh, Sound
    <2>8. UserInv' /\ KeysOfOneSet' /\ IdentitySurvives'
      BY <2>1, KeysType DEF UserInv, Uniform, KeysOfOneSet, IdentitySurvives
    <2> QED BY <2>5, <2>7, <2>8 DEF KeysInv
  <1>5. CASE op.next # LastSlot
    <2>1. op' = [op EXCEPT !.next = @ + 1] /\ UNCHANGED <<memory, wipes, leftover>>
      BY <1>5 DEF ClearKey
    <2>2. op'.name = "clear" /\ op'.next = op.next + 1 /\ op' # Idle /\ op'.next # 1
          /\ op' \in [name : {"idle", "generate", "clear"}, next : Slot]
      BY <1>1, <1>5, <2>1, KeysType DEF KeysInv, TypeOK, Idle, Slot
    <2>3. TypeOK'
      BY <1>2, <1>3, <2>1, <2>2 DEF KeysInv, TypeOK, past, memory
    <2>4. \A s \in Slot : s < op.next + 1 => defaults'[s] = Absent
      BY <1>1, <1>2, <1>5, LoopWrite
    <2>5. LoopInv'
      BY <1>1, <2>1, <2>2, <2>4 DEF LoopInv
    <2>6. DefaultsInv'
      BY <2>2 DEF DefaultsInv
    <2>7. UserInv' /\ KeysOfOneSet' /\ IdentitySurvives'
      BY <1>2, <2>1, <2>2 DEF KeysInv, memory, past, UserInv, KeysOfOneSet, IdentitySurvives
    <2> QED BY <2>3, <2>5, <2>6, <2>7 DEF KeysInv
  <1> QED BY <1>4, <1>5

(* Dying the first time, or outside shut, leaves keys a start may take. *)
LEMMA KeysCrash ==
  ASSUME KeysInv, Crash
  PROVE  KeysInv'
  <1>1. /\ crashes < MaxCrashes /\ crashes' = crashes + 1 /\ user' = NoKeys
        /\ established' = FALSE /\ loaded' = {} /\ wipes' = 0 /\ op' = Idle
        /\ pending' = {} /\ leftover' = leftover \cap data
        /\ cut' = (cut \/ op.name = "clear") /\ hurried' \in BOOLEAN
        /\ UNCHANGED <<defaults, data, generated>>
    BY DEF Crash
  <1>2. crashes' \in 0..MaxCrashes /\ crashes \in Nat /\ crashes' # 0
        /\ (crashes' <= 1 => crashes = 0)
    BY <1>1, BoundsAssumption DEF KeysInv, TypeOK
  <1>3. TypeOK'
    <2>1. cut' \in BOOLEAN
      BY <1>1
    <2>2. 0 \in 0..MaxSets
      BY BoundsAssumption
    <2> QED BY <1>1, <1>2, <2>1, <2>2, KeysType, IdleType DEF KeysInv, TypeOK
  <1>4. op'.name = "idle" /\ op.name \in {"idle", "generate", "clear"}
        /\ op.next \in Slot
    BY <1>1, OpType, IdleType DEF KeysInv
  <1>5. ~cut' => Fresh(defaults)
    BY <1>1, <1>4 DEF KeysInv, DefaultsInv, Fresh
  <1>6. crashes = 0 => Sound(defaults)
    <2> SUFFICES ASSUME crashes = 0 PROVE Sound(defaults)
      OBVIOUS
    <2>1. CASE op.name = "clear" /\ op.next # 1
      <3>1. 1 \in Slot /\ 1 < op.next
        BY <1>4, <2>1, KeysType DEF Slot
      <3>2. defaults[1] = Absent
        BY <2>1, <3>1 DEF KeysInv, LoopInv
      <3> QED BY <3>1, <3>2 DEF Sound, Complete
    <2>2. CASE ~(op.name = "clear" /\ op.next # 1)
      <3>1. Fresh(defaults)
        BY <1>4, <2>2 DEF KeysInv, DefaultsInv, Fresh
      <3> QED BY <3>1, FreshIsSound
    <2> QED BY <2>1, <2>2
  <1>7. LoopInv' /\ DefaultsInv'
    BY <1>1, <1>2, <1>4, <1>5, <1>6, FreshIsSound DEF LoopInv, DefaultsInv
  <1>8. UserInv' /\ KeysOfOneSet' /\ IdentitySurvives'
    BY <1>1, KeysType DEF UserInv, Uniform, KeysOfOneSet, IdentitySurvives
  <1> QED BY <1>3, <1>7, <1>8 DEF KeysInv

(* A row that is changed, saved or not, is one of the installation. *)
LEMMA ChangedRows ==
  ASSUME TypeOK, NEW k \in KeySet, SaveRow(k) \/ SaveFails(k)
  PROVE  /\ data' \subseteq data \cup pending \cup {k}
         /\ pending' \subseteq pending \cup {k}
         /\ loaded' = loaded \cup {k}
         /\ data' \cup pending' \subseteq KeySet /\ loaded' \subseteq KeySet
  BY DEF TypeOK, SaveRow, SaveFails, ChangeRow

LEMMA KeysNext == KeysInv /\ [Next]_vars => KeysInv'
  <1> SUFFICES ASSUME KeysInv, [Next]_vars PROVE KeysInv'
    OBVIOUS
  <1>1. CASE GenerateFails
    <2>1. TypeOK'
      BY <1>1, EstablishType DEF KeysInv, TypeOK, GenerateFails, MayHurry, rows
    <2> QED BY <1>1, <2>1, KeysUnchanged DEF GenerateFails, MayHurry, KeysInv, TypeOK
  <1>2. CASE \E k \in KeySet : SaveRow(k) \/ SaveFails(k)
    <2>1. TypeOK'
      BY <1>2, ChangedRows DEF KeysInv, TypeOK, SaveRow, SaveFails, ChangeRow, past
    <2> QED BY <1>2, <2>1, KeysUnchanged
            DEF SaveRow, SaveFails, ChangeRow, past, KeysInv, TypeOK
  <1>3. CASE Wipe \/ WipeFails
    <2>1. PICK left \in SUBSET data : WipeAllBut(left)
      BY <1>3 DEF Wipe, WipeFails
    <2>2. wipes' \in 0..MaxSets /\ wipes' <= wipes /\ data' \subseteq data
      BY <2>1, BoundsAssumption DEF KeysInv, TypeOK, WipeAllBut
    <2>3. leftover' \subseteq pending \cup data'
      BY <1>3 DEF Wipe, WipeFails
    <2>4. TypeOK'
      BY <2>1, <2>2, <2>3 DEF KeysInv, TypeOK, WipeAllBut, memory, past
    <2> QED BY <2>1, <2>2, <2>4, KeysUnchanged DEF WipeAllBut, memory, past
  <1>4. CASE UNCHANGED vars
    <2>1. TypeOK'
      BY <1>4 DEF KeysInv, TypeOK, vars, rows, past, memory
    <2> QED BY <1>4, <2>1, KeysUnchanged DEF vars, rows, past, memory, KeysInv, TypeOK
  <1> QED BY <1>1, <1>2, <1>3, <1>4, KeysInitiateWithKeys, KeysBegin, KeysWrite, KeysShut,
             KeysClear, KeysCrash DEF Next, Initiate, MainStep

(* What is said of the keys is inductive. *)
THEOREM KeysInvariance == Spec => []KeysInv
  BY KeysInit, KeysNext, PTL DEF Spec

(* User defaults, rows, stores and blocks keep their types. *)
THEOREM TypeCorrect == Spec => []TypeOK
  <1>1. KeysInv => TypeOK
    BY DEF KeysInv
  <1> QED BY <1>1, KeysInvariance, PTL

(* The user that initiate finds after a death is the one who was in memory. *)
THEOREM Survives == Spec => []IdentitySurvives
  <1>1. KeysInv => IdentitySurvives
    BY DEF KeysInv
  <1> QED BY <1>1, KeysInvariance, PTL

(***************************************************************************)
(* Keys written one by one are of one set all the same, if the process     *)
(* dies once at any point, or ever so often outside shut.                  *)
(***************************************************************************)
THEOREM OneSet == Spec => []KeysOfOneSet
  <1>1. KeysInv => KeysOfOneSet
    BY DEF KeysInv
  <1> QED BY <1>1, KeysInvariance, PTL

-----------------------------------------------------------------------------
(***************************************************************************)
(* The hand-over from one user to the next.  While nothing has come        *)
(* between a shut and the end of its block, no user is in memory as long   *)
(* as a block waits, and what the context has not saved is left over.      *)
(* Without a block the rows are those of the keys in the user defaults, or *)
(* left over: none but these, unless the keys are complete.                *)
(***************************************************************************)
KeysOf(k) == {k[s] : s \in Slot}

AllRows == data \cup pending \cup loaded

WaitInv ==
    /\ ~established => loaded = {}
    /\ Tidy /\ wipes > 0 =>
          /\ ~established /\ user = NoKeys /\ op.name # "generate"
          /\ pending \subseteq leftover

RowsInv ==
    Tidy /\ wipes = 0 =>
        /\ op.name = "idle" /\ Complete(defaults) =>
              AllRows \subseteq KeysOf(defaults) \cup leftover
        /\ op.name = "idle" /\ ~Complete(defaults) => AllRows \subseteq leftover
        /\ op.name = "generate" => AllRows \subseteq leftover

HandoverInv == WaitInv /\ RowsInv /\ CleanHandover

LEMMA HandoverInit == Init => HandoverInv
  BY DEF Init, HandoverInv, WaitInv, RowsInv, AllRows, CleanHandover

(* What initiate loads is what belongs to the keys it has found.  It comes *)
(* too early while a block waits.                                          *)
LEMMA HandoverInitiate ==
  ASSUME KeysInv, HandoverInv, Initiate
  PROVE  HandoverInv'
  <1>1. /\ op = Idle /\ op.name = "idle" /\ wipes \in 0..MaxSets
        /\ hurried' = (hurried \/ wipes > 0) /\ UNCHANGED cut
        /\ UNCHANGED <<defaults, data, pending, leftover, wipes>>
    BY OpType DEF KeysInv, TypeOK, Initiate, InitiateWithKeys, BeginGenerate, GenerateFails,
                  MayHurry, rows
  <1>2. Tidy' => Tidy /\ wipes = 0
    <2>1. ~cut' => ~cut
      BY <1>1
    <2>2. ~hurried' => ~hurried /\ ~(wipes > 0)
      BY <1>1, Zenon
    <2> QED BY <1>1, <2>1, <2>2, BoundsAssumption DEF Tidy
  <1>3. CASE InitiateWithKeys
    <2>1. Complete(defaults) /\ user' = defaults /\ op' = op
      BY <1>3 DEF InitiateWithKeys
    <2>2. established' = TRUE /\ loaded' \subseteq data \cup pending
      BY <1>3, EstablishType DEF InitiateWithKeys, KeysInv
    <2>3. Tidy' => AllRows' \subseteq KeysOf(defaults) \cup leftover
      BY <1>1, <1>2, <2>1, <2>2 DEF HandoverInv, RowsInv, AllRows
    <2>4. WaitInv' /\ RowsInv'
      BY <1>1, <1>2, <2>1, <2>2, <2>3 DEF WaitInv, RowsInv
    <2>5. CleanHandover'
      BY <1>1, <2>1, <2>3 DEF CleanHandover, KeysOf, AllRows
    <2> QED BY <2>4, <2>5 DEF HandoverInv
  <1>4. CASE BeginGenerate
    <2>1. ~Complete(defaults) /\ op'.name = "generate"
          /\ UNCHANGED <<user, established, loaded>>
      BY <1>4 DEF BeginGenerate, memory
    <2>2. WaitInv' /\ RowsInv'
      BY <1>1, <1>2, <2>1 DEF HandoverInv, WaitInv, RowsInv, AllRows
    <2>3. CleanHandover'
      BY <1>1, <1>2, <2>1 DEF HandoverInv, CleanHandover
    <2> QED BY <2>2, <2>3 DEF HandoverInv
  <1>5. CASE GenerateFails
    <2>1. ~Complete(defaults) /\ user' = user /\ op' = op
      BY <1>5 DEF GenerateFails
    <2>2. established' = TRUE /\ loaded' \subseteq data \cup pending
      BY <1>5, EstablishType DEF GenerateFails, KeysInv
    <2>3. Tidy' => AllRows' \subseteq leftover
      BY <1>1, <1>2, <2>1, <2>2 DEF HandoverInv, RowsInv, AllRows
    <2>4. WaitInv' /\ RowsInv'
      BY <1>1, <1>2, <2>1, <2>2, <2>3 DEF WaitInv, RowsInv
    <2>5. CleanHandover'
      BY <1>1, <2>3 DEF CleanHandover, AllRows
    <2> QED BY <2>4, <2>5 DEF HandoverInv
  <1> QED BY <1>3, <1>4, <1>5 DEF Initiate

LEMMA HandoverWrite ==
  ASSUME KeysInv, HandoverInv, WriteKey
  PROVE  HandoverInv'
  <1>1. /\ op.name = "generate" /\ wipes \in 0..MaxSets
        /\ UNCHANGED <<data, pending, leftover, wipes, cut, hurried>>
    BY DEF WriteKey, rows, past, KeysInv, TypeOK
  <1>2. (Tidy' => Tidy) /\ (Tidy => wipes = 0 /\ AllRows \subseteq leftover)
    BY <1>1, BoundsAssumption DEF HandoverInv, WaitInv, RowsInv, Tidy
  <1>3. CASE op.next = LastSlot
    <2>1. established' = TRUE /\ loaded' \subseteq data \cup pending
      BY <1>3, EstablishType DEF WriteKey, KeysInv
    <2>2. Tidy' => wipes' = 0 /\ AllRows' \subseteq leftover'
      BY <1>1, <1>2, <2>1 DEF AllRows
    <2>3. WaitInv' /\ RowsInv'
      BY <1>1, <2>1, <2>2 DEF WaitInv, RowsInv
    <2>4. CleanHandover'
      BY <2>2 DEF CleanHandover, AllRows
    <2> QED BY <2>3, <2>4 DEF HandoverInv
  <1>4. CASE op.next # LastSlot
    <2>1. UNCHANGED <<user, established, loaded>>
      BY <1>4 DEF WriteKey, memory
    <2>2. Tidy' => wipes' = 0 /\ AllRows' \subseteq leftover'
      BY <1>1, <1>2, <2>1 DEF AllRows
    <2>3. WaitInv' /\ RowsInv'
      BY <1>1, <2>1, <2>2 DEF HandoverInv, WaitInv, RowsInv
    <2>4. CleanHandover'
      BY <2>2 DEF CleanHandover, AllRows
    <2> QED BY <2>3, <2>4 DEF HandoverInv
  <1> QED BY <1>3, <1>4

LEMMA HandoverShut ==
  ASSUME KeysInv, HandoverInv, Shut
  PROVE  HandoverInv'
  <1>1. /\ op'.name = "clear"
        /\ UNCHANGED <<data, pending, leftover, user, established, loaded, wipes,
                       cut, hurried>>
    BY DEF Shut, rows, past, memory
  <1> QED BY <1>1 DEF HandoverInv, WaitInv, RowsInv, CleanHandover, Tidy

LEMMA HandoverClear ==
  ASSUME KeysInv, HandoverInv, ClearKey
  PROVE  HandoverInv'
  <1>1. /\ op.name = "clear" /\ wipes \in 0..MaxSets
        /\ UNCHANGED <<data, pending, cut, hurried>>
    BY DEF ClearKey, past, KeysInv, TypeOK
  <1>2. CASE op.next = LastSlot
    <2>1. op' = Idle /\ user' = NoKeys /\ established' = FALSE /\ loaded' = {}
          /\ wipes' = wipes + 1 /\ leftover' = leftover \cup pending
      BY <1>2 DEF ClearKey, ClearSession
    <2>2. wipes' # 0 /\ op'.name = "idle"
      BY <1>1, <2>1, IdleType, BoundsAssumption
    <2> QED BY <1>1, <2>1, <2>2 DEF HandoverInv, WaitInv, RowsInv, CleanHandover
  <1>3. CASE op.next # LastSlot
    <2>1. op'.name = "clear" /\ UNCHANGED <<user, established, loaded, wipes, leftover>>
      BY <1>1, <1>3 DEF ClearKey, memory, KeysInv, TypeOK
    <2> QED BY <1>1, <2>1 DEF HandoverInv, WaitInv, RowsInv, CleanHandover, Tidy
  <1> QED BY <1>2, <1>3

(* The block runs while no user is in memory; what a failing one leaves in *)
(* the database is left over.                                              *)
LEMMA HandoverWipe ==
  ASSUME KeysInv, HandoverInv, Wipe \/ WipeFails
  PROVE  HandoverInv'
  <1>1. /\ wipes > 0 /\ wipes \in 0..MaxSets /\ wipes' = wipes - 1
        /\ UNCHANGED <<pending, user, established, loaded, op, cut, hurried>>
    BY DEF Wipe, WipeFails, WipeAllBut, memory, past, KeysInv, TypeOK
  <1>2. data' \cup (leftover \cap pending) \subseteq leftover'
    BY DEF Wipe, WipeFails, WipeAllBut
  <1>3. Tidy' => /\ Tidy /\ ~established /\ loaded = {} /\ user = NoKeys
                 /\ op.name # "generate" /\ pending \subseteq leftover
    BY <1>1 DEF HandoverInv, WaitInv, Tidy
  <1>4. Tidy' => AllRows' \subseteq leftover' /\ pending' \subseteq leftover'
    BY <1>1, <1>2, <1>3 DEF AllRows
  <1>5. WaitInv' /\ RowsInv'
    BY <1>1, <1>3, <1>4 DEF HandoverInv, WaitInv, RowsInv
  <1>6. CleanHandover'
    BY <1>1, <1>3 DEF CleanHandover
  <1> QED BY <1>5, <1>6 DEF HandoverInv

(* A row is changed under the keys of the user, who is the one of the user *)
(* defaults, or was in memory.                                             *)
LEMMA HandoverSave ==
  ASSUME KeysInv, HandoverInv, NEW k \in KeySet, SaveRow(k) \/ SaveFails(k)
  PROVE  HandoverInv'
  <1>1. /\ op = Idle /\ op.name = "idle" /\ established /\ wipes \in 0..MaxSets
        /\ k \in loaded \/ (user # NoKeys /\ k = user[2])
        /\ UNCHANGED <<defaults, user, established, leftover, wipes, op, cut, hurried>>
    BY OpType DEF SaveRow, SaveFails, ChangeRow, past, KeysInv, TypeOK
  <1>2. AllRows' \subseteq AllRows \cup {k} /\ loaded' = loaded \cup {k}
    BY ChangedRows DEF KeysInv, AllRows
  <1>3. (Tidy' => Tidy) /\ (Tidy => wipes = 0)
    BY <1>1, BoundsAssumption DEF HandoverInv, WaitInv, Tidy
  <1>4. user # NoKeys => user = defaults /\ Complete(defaults) /\ user[2] \in KeysOf(user)
    BY <1>1 DEF KeysInv, UserInv, IdentitySurvives, KeysOf, Slot
  <1>5. WaitInv'
    BY <1>1, <1>3 DEF HandoverInv, WaitInv
  <1>6. RowsInv'
    <2>1. CASE k \in loaded
      <3>1. AllRows' \subseteq AllRows
        BY <1>2, <2>1 DEF AllRows
      <3> QED BY <1>1, <1>3, <3>1 DEF HandoverInv, RowsInv
    <2>2. CASE user # NoKeys /\ k = user[2]
      <3>1. k \in KeysOf(defaults) /\ Complete(defaults)
        BY <1>4, <2>2
      <3> QED BY <1>1, <1>2, <1>3, <3>1 DEF HandoverInv, RowsInv
    <2> QED BY <1>1, <2>1, <2>2
  <1>7. CleanHandover'
    BY <1>1, <1>2, <1>3, <1>4 DEF HandoverInv, CleanHandover, KeysOf
  <1> QED BY <1>5, <1>6, <1>7 DEF HandoverInv

LEMMA HandoverCrash ==
  ASSUME KeysInv, HandoverInv, Crash
  PROVE  HandoverInv'
  <1>1. /\ user' = NoKeys /\ established' = FALSE /\ loaded' = {} /\ wipes' = 0 /\ op' = Idle
        /\ pending' = {} /\ leftover' = leftover \cap data
        /\ cut' = (cut \/ op.name = "clear") /\ hurried' = (hurried \/ wipes > 0)
        /\ UNCHANGED <<defaults, data>>
    BY DEF Crash
  <1>2. op.name \in {"idle", "generate", "clear"} /\ wipes \in 0..MaxSets
    BY OpType DEF KeysInv, TypeOK
  <1>3. Tidy' => Tidy /\ wipes = 0 /\ op.name \in {"idle", "generate"}
    <2>1. ~cut' => ~cut /\ op.name # "clear"
      BY <1>1, Zenon
    <2>2. ~hurried' => ~hurried /\ ~(wipes > 0)
      BY <1>1, Zenon
    <2> QED BY <1>2, <2>1, <2>2, BoundsAssumption DEF Tidy
  <1>4. RowsInv'
    <2>1. AllRows' = data /\ Complete(defaults)' = Complete(defaults)
          /\ KeysOf(defaults)' = KeysOf(defaults) /\ op'.name = "idle"
      BY <1>1, IdleType DEF AllRows, Complete, KeysOf
    <2>2. Tidy' /\ Complete(defaults) => data \subseteq KeysOf(defaults) \cup leftover'
      BY <1>1, <1>3 DEF HandoverInv, RowsInv, AllRows
    <2>3. Tidy' /\ ~Complete(defaults) => data \subseteq leftover'
      BY <1>1, <1>3 DEF HandoverInv, RowsInv, AllRows
    <2> QED BY <2>1, <2>2, <2>3 DEF RowsInv
  <1>5. WaitInv' /\ CleanHandover'
    BY <1>1 DEF WaitInv, CleanHandover
  <1> QED BY <1>4, <1>5 DEF HandoverInv

LEMMA HandoverNext == KeysInv /\ HandoverInv /\ [Next]_vars => HandoverInv'
  <1> SUFFICES ASSUME KeysInv, HandoverInv, [Next]_vars PROVE HandoverInv'
    OBVIOUS
  <1>1. CASE UNCHANGED vars
    BY <1>1 DEF vars, rows, past, memory, HandoverInv, WaitInv, RowsInv, AllRows,
                CleanHandover, Tidy
  <1> QED BY <1>1, HandoverInitiate, HandoverWrite, HandoverShut, HandoverClear, HandoverWipe,
             HandoverSave, HandoverCrash DEF Next, MainStep

(***************************************************************************)
(* shut keeps its promise to an application that calls initiate when       *)
(* clearData is through: the next user is given no row of the last one but *)
(* those that a failed block or a failed save has left.                    *)
(***************************************************************************)
THEOREM Handover == Spec => []CleanHandover
  <1>1. HandoverInv => CleanHandover
    BY DEF HandoverInv
  <1> QED BY <1>1, KeysInvariance, HandoverInit, HandoverNext, PTL DEF Spec

(***************************************************************************)
(* What an application must not do, and must hope for: initiate has no     *)
(* block of clearData waiting, no process dies in shut or before the block *)
(* of one has run, and neither a save nor a block fails.                   *)
(***************************************************************************)
Waits == Initiate => wipes = 0
DiesTidily == Crash => wipes = 0 /\ op.name # "clear"
SavesAndWipes == ~WipeFails /\ \A k \in KeySet : ~SaveFails(k)

NothingLeft == Tidy /\ pending = {} /\ leftover = {}

LEMMA TidyStep ==
  ASSUME TypeOK, NothingLeft, [Next]_vars, [Waits /\ DiesTidily /\ SavesAndWipes]_vars
  PROVE  NothingLeft'
  <1> USE DEF NothingLeft, Tidy
  <1>1. CASE UNCHANGED vars
    BY <1>1 DEF vars, rows, past
  <1>2. wipes \in Nat
    BY BoundsAssumption DEF TypeOK
  <1>3. CASE Initiate
    <2>1. CASE vars' # vars
      <3>1. wipes = 0 /\ MayHurry /\ UNCHANGED rows
        BY <1>3, <2>1 DEF Initiate, InitiateWithKeys, BeginGenerate, GenerateFails, Waits
      <3>2. ~cut /\ ~(hurried \/ wipes > 0)
        BY <3>1
      <3>3. ~cut' /\ ~hurried'
        BY <3>1, <3>2, Zenon DEF MayHurry
      <3> QED BY <3>1, <3>3 DEF rows
    <2> QED BY <1>1, <2>1
  <1>4. CASE Crash
    <2>1. CASE vars' # vars
      <3>1. wipes = 0 /\ op.name # "clear"
        BY <1>4, <2>1 DEF DiesTidily
      <3>2. /\ cut' = (cut \/ op.name = "clear") /\ hurried' = (hurried \/ wipes > 0)
            /\ pending' = {} /\ leftover' = leftover \cap data
        BY <1>4 DEF Crash
      <3>3. ~(cut \/ op.name = "clear") /\ ~(hurried \/ wipes > 0)
        BY <3>1
      <3>4. ~cut' /\ ~hurried'
        BY <3>2, <3>3, Zenon
      <3> QED BY <3>2, <3>4
    <2> QED BY <1>1, <2>1
  <1>5. CASE WriteKey \/ ClearKey \/ Shut \/ Wipe
    BY <1>5 DEF WriteKey, ClearKey, ClearSession, Shut, Wipe, WipeAllBut, rows, past
  <1>6. CASE \E k \in KeySet : SaveRow(k)
    BY <1>6 DEF SaveRow, ChangeRow, past
  <1>7. CASE WipeFails \/ \E k \in KeySet : SaveFails(k)
    <2>1. CASE vars' # vars
      BY <1>7, <2>1 DEF SavesAndWipes
    <2> QED BY <1>1, <2>1
  <1> QED BY <1>1, <1>3, <1>4, <1>5, <1>6, <1>7 DEF Next, MainStep

(***************************************************************************)
(* To an application that waits for the block of clearData, in a process   *)
(* that lives that long and with a database that saves and deletes what it *)
(* is asked to, shut is the complete clean-up it is called: no user is     *)
(* given a row of another one, even where loads fail.                      *)
(***************************************************************************)
THEOREM OwnRowsWhenWaiting ==
  Spec /\ [][Waits /\ DiesTidily /\ SavesAndWipes]_vars => []StoresAreOwn
  <1>1. Init => NothingLeft
    BY DEF Init, NothingLeft, Tidy
  <1>2. CleanHandover /\ NothingLeft => StoresAreOwn
    BY DEF CleanHandover, NothingLeft, StoresAreOwn
  <1> QED BY <1>1, <1>2, TidyStep, TypeCorrect, Handover, PTL DEF Spec

-----------------------------------------------------------------------------
(***************************************************************************)
(* LocalStore implements UserIdentity.  The mapping needs to know that the *)
(* set that is being written is in no slot that has not been written yet,  *)
(* that what is there before the first write is not complete, and that no  *)
(* user is in memory meanwhile.                                            *)
(***************************************************************************)
NewestInv ==
    /\ \A s \in Slot : defaults[s] <= generated
    /\ op.name = "generate" =>
          /\ user = NoKeys
          /\ op.next = 1 => ~Complete(defaults)
          /\ \A s \in Slot : s >= op.next => defaults[s] # generated

LEMMA NewestInit == Init => NewestInv
  BY IdleType DEF Init, NewestInv, NoKeys, Absent

(* One slot is written; the others stay. *)
LEMMA OneWrite ==
  ASSUME NEW k \in Keys, NEW n \in Slot, NEW v
  PROVE  \A s \in Slot : [k EXCEPT ![n] = v][s] = IF s = n THEN v ELSE k[s]
  BY DEF Keys

LEMMA NewestNext == KeysInv /\ NewestInv /\ [Next]_vars => NewestInv'
  <1> SUFFICES ASSUME KeysInv, NewestInv, [Next]_vars PROVE NewestInv'
    OBVIOUS
  <1>1. /\ defaults \in Keys /\ op.next \in Slot /\ generated \in 0..MaxSets
        /\ \A s \in Slot : defaults[s] \in 0..MaxSets
        /\ op = Idle => op.name = "idle"
    BY OpType DEF KeysInv, TypeOK, Keys
  (* Steps that leave the keys and the loop as they are, or end the loop. *)
  <1>2. ASSUME defaults' = defaults, generated' = generated,
               op'.name # "generate" \/ (op' = op /\ user' = user)
        PROVE  NewestInv'
    BY <1>2 DEF NewestInv
  <1>3. CASE InitiateWithKeys \/ GenerateFails
    BY <1>1, <1>2, <1>3 DEF InitiateWithKeys, GenerateFails
  <1>4. CASE BeginGenerate
    <2>1. /\ op = Idle /\ ~Complete(defaults) /\ defaults' = defaults /\ user' = user
          /\ generated' = generated + 1
          /\ op' = [name |-> "generate", next |-> 1]
      BY <1>4 DEF BeginGenerate, memory
    <2>2. user = NoKeys
      BY <2>1 DEF KeysInv, UserInv, IdentitySurvives
    <2>3. \A s \in Slot : defaults'[s] <= generated' /\ defaults'[s] # generated'
      BY <1>1, <2>1, BoundsAssumption DEF NewestInv
    <2> QED BY <2>1, <2>2, <2>3 DEF NewestInv
  <1>5. CASE WriteKey
    <2>1. /\ op.name = "generate" /\ generated' = generated
          /\ defaults' = [defaults EXCEPT ![op.next] = generated]
          /\ \/ op'.name = "idle"
             \/ op' = [op EXCEPT !.next = @ + 1] /\ user' = user
      BY <1>5, IdleType DEF WriteKey, memory
    <2>2. \A s \in Slot : defaults'[s] <= generated'
      BY <1>1, <2>1, OneWrite, BoundsAssumption DEF NewestInv
    <2>3. CASE op'.name = "idle"
      BY <2>2, <2>3 DEF NewestInv
    <2>4. CASE op' = [op EXCEPT !.next = @ + 1] /\ user' = user
      <3>1. op'.next = op.next + 1 /\ op'.next # 1
        BY <1>1, <2>4 DEF KeysInv, TypeOK, Slot
      <3>2. \A s \in Slot : s >= op.next + 1 => s >= op.next /\ s # op.next
        BY <1>1 DEF Slot
      <3>3. \A s \in Slot : s >= op'.next => defaults'[s] # generated'
        BY <1>1, <2>1, <3>1, <3>2, OneWrite DEF NewestInv
      <3> QED BY <2>1, <2>2, <2>4, <3>1, <3>3 DEF NewestInv
    <2> QED BY <2>1, <2>3, <2>4
  <1>6. CASE Shut
    BY <1>1, <1>2, <1>6 DEF Shut, memory
  <1>7. CASE ClearKey
    <2>1. /\ op.name = "clear" /\ generated' = generated
          /\ defaults' = [defaults EXCEPT ![op.next] = Absent]
          /\ op'.name # "generate"
      BY <1>7, IdleType DEF ClearKey, KeysInv, TypeOK
    <2>2. \A s \in Slot : defaults'[s] <= generated'
      BY <1>1, <2>1, OneWrite, BoundsAssumption DEF NewestInv, Absent
    <2> QED BY <2>1, <2>2 DEF NewestInv
  <1>8. CASE Wipe \/ WipeFails \/ \E k \in KeySet : SaveRow(k) \/ SaveFails(k)
    BY <1>2, <1>8 DEF Wipe, WipeFails, WipeAllBut, SaveRow, SaveFails, ChangeRow, memory
  <1>9. CASE Crash
    BY <1>2, <1>9, IdleType DEF Crash
  <1>10. CASE UNCHANGED vars
    BY <1>2, <1>10 DEF vars, memory
  <1> QED
    BY <1>3, <1>4, <1>5, <1>6, <1>7, <1>8, <1>9, <1>10 DEF Next, Initiate, MainStep

-----------------------------------------------------------------------------
(* The identity in keys that are complete, and in keys that are not. *)
LEMMA IdentityFacts ==
  /\ \A k : ~Complete(k) => IdentityIn(k) = Absent
  /\ \A k : Complete(k) /\ Uniform(k) => IdentityIn(k) = k[1]
  /\ \A k : Complete(k) /\ ~Uniform(k) => IdentityIn(k) = Mixed
  /\ \A k \in Keys : Complete(k) => IdentityIn(k) # Absent
  /\ Mixed \notin KeySet /\ Mixed # Absent
  <1>1. Mixed \notin KeySet /\ Mixed # Absent
    BY BoundsAssumption DEF Mixed, KeySet, Absent
  <1>2. \A k : /\ ~Complete(k) => IdentityIn(k) = Absent
               /\ Complete(k) /\ Uniform(k) => IdentityIn(k) = k[1]
               /\ Complete(k) /\ ~Uniform(k) => IdentityIn(k) = Mixed
    BY DEF IdentityIn, Uniform
  <1>3. ASSUME NEW k \in Keys, Complete(k) PROVE IdentityIn(k) # Absent
    <2>1. k[1] # Absent
      BY <1>3, KeysType DEF Complete
    <2> QED BY <2>1, <1>1, <1>2, <1>3
  <1> QED BY <1>1, <1>2, <1>3

LEMMA IdentityStutter ==
  ASSUME UNCHANGED <<user, crashes>>, Kept' = Kept, Gone' = Gone
  PROVE  UNCHANGED Identity!vars
  BY DEF Identity!vars, IdentityIn, Complete

LEMMA WriteIsCreate ==
  ASSUME KeysInv, NewestInv, WriteKey
  PROVE  Identity!Next \/ UNCHANGED Identity!vars
  <1>1. /\ op.name = "generate" /\ op.next \in Slot /\ defaults \in Keys
        /\ generated \in 0..MaxSets /\ generated # Absent /\ generated \in KeySet
        /\ \A s \in Slot : s < op.next => defaults[s] = generated
        /\ user = NoKeys
    BY OpType DEF KeysInv, TypeOK, WriteKey, LoopInv, NewestInv, KeySet, Absent
  <1>2. /\ defaults' = [defaults EXCEPT ![op.next] = generated]
        /\ generated' = generated /\ crashes' = crashes
    BY DEF WriteKey
  <1>3. CASE op.next = LastSlot
    <2>1. op'.name = "idle" /\ user' = defaults'
      BY <1>3, IdleType DEF WriteKey
    <2>2. \A s \in Slot : defaults'[s] = generated
      BY <1>1, <1>2, <1>3, LastWrite
    <2>3. IdentityIn(defaults') = generated
      BY <1>1, <2>2, KeysType, IdentityFacts DEF Uniform, Complete
    <2>4. Kept = Absent /\ IdentityIn(user) = Absent
      BY <1>1, KeysType, IdentityFacts DEF Kept
    <2>5. Kept' = generated /\ IdentityIn(user)' = generated
      BY <2>1, <2>3 DEF Kept, IdentityIn, Complete
    <2>6. generated \notin Gone /\ Gone' = Gone
      BY <1>1, <1>2, <2>1, <2>4, <2>5 DEF Gone, Absent
    <2>7. PICK g \in KeySet : g = generated
      BY <1>1
    <2>8. Identity!Create(g)
      BY <1>2, <2>4, <2>5, <2>6, <2>7 DEF Identity!Create
    <2> QED BY <2>8 DEF Identity!Next
  <1>4. CASE op.next # LastSlot
    <2>1. op'.name = "generate" /\ user' = user
      BY <1>1, <1>4 DEF WriteKey, memory, KeysInv, TypeOK
    <2>2. Kept' = Kept
      BY <1>1, <2>1 DEF Kept
    <2>3. Gone' = Gone
      BY <1>1, <1>2, <2>1, <2>2 DEF Gone
    <2> QED BY <1>2, <2>1, <2>2, <2>3, IdentityStutter
  <1> QED BY <1>3, <1>4

LEMMA ClearGivesUp ==
  ASSUME KeysInv, NewestInv, ClearKey
  PROVE  Identity!Next \/ UNCHANGED Identity!vars
  <1>1. /\ op.name = "clear" /\ op.next \in Slot /\ defaults \in Keys
        /\ generated \in 0..MaxSets
        /\ \A s \in Slot : s < op.next => defaults[s] = Absent
    BY OpType DEF KeysInv, TypeOK, ClearKey, LoopInv
  <1>2. /\ defaults' = [defaults EXCEPT ![op.next] = Absent]
        /\ generated' = generated /\ crashes' = crashes /\ op'.name # "generate"
    BY <1>1, IdleType DEF ClearKey, KeysInv, TypeOK
  <1>3. Kept = IdentityIn(defaults) /\ Kept' = IdentityIn(defaults')
    BY <1>1, <1>2 DEF Kept, IdentityIn, Complete
  <1>4. defaults'[1] = Absent /\ Kept' = Absent
    <2>1. 1 \in Slot /\ (op.next # 1 => 1 < op.next)
      BY <1>1 DEF Slot
    <2>2. defaults'[1] = Absent
      BY <1>1, <1>2, <2>1, OneWrite
    <2> QED BY <1>3, <2>1, <2>2, IdentityFacts DEF Complete
  <1>5. Gone' = 1..generated /\ Gone = (1..generated) \ {Kept}
    BY <1>1, <1>2, <1>4 DEF Gone, Absent
  <1>6. CASE op.next = 1
    <2>1. user' = user
      BY <1>6 DEF ClearKey, memory, LastSlot
    <2>2. IdentityIn(user)' = IdentityIn(user)
      BY <2>1 DEF IdentityIn, Complete
    <2>3. CASE Kept = Absent
      <3>1. Gone' = Gone
        BY <1>5, <2>3 DEF Absent
      <3> QED BY <1>2, <1>4, <2>1, <2>3, <3>1, IdentityStutter
    <2>4. CASE Kept # Absent
      <3>1. Complete(defaults)
        BY <1>3, <2>4, IdentityFacts
      <3>2. Kept = Mixed \/ Kept \in 1..generated
        <4>1. CASE ~Uniform(defaults)
          BY <1>3, <3>1, <4>1, IdentityFacts
        <4>2. CASE Uniform(defaults)
          <5>1. Kept = defaults[1] /\ defaults[1] \in 0..MaxSets
            BY <1>1, <1>3, <3>1, <4>2, KeysType, IdentityFacts DEF Keys
          <5>2. defaults[1] <= generated
            BY KeysType DEF NewestInv
          <5> QED BY <1>1, <2>4, <5>1, <5>2, BoundsAssumption DEF Absent
        <4> QED BY <4>1, <4>2
      <3>3. 1..generated \subseteq KeySet
        BY <1>1, BoundsAssumption DEF KeySet
      <3>4. Gone' = Gone \cup ({Kept} \cap KeySet)
        BY <1>5, <3>2, <3>3, IdentityFacts
      <3>5. Identity!GiveUp
        BY <1>2, <1>4, <2>2, <2>4, <3>4 DEF Identity!GiveUp
      <3> QED BY <3>5 DEF Identity!Next
    <2> QED BY <2>3, <2>4
  <1>7. CASE op.next # 1
    <2>1. Kept = Absent
      <3>1. 1 \in Slot /\ 1 < op.next
        BY <1>1, <1>7 DEF Slot
      <3> QED BY <1>1, <1>3, <3>1, IdentityFacts DEF Complete
    <2>2. Kept' = Kept /\ Gone' = Gone
      BY <1>4, <1>5, <2>1 DEF Absent
    <2>3. CASE op.next # LastSlot
      BY <1>2, <2>2, <2>3, IdentityStutter DEF ClearKey, memory
    <2>4. CASE op.next = LastSlot
      <3>1. user' = NoKeys
        BY <2>4 DEF ClearKey, ClearSession
      <3>2. IdentityIn(user)' = Absent
        BY <3>1, KeysType, IdentityFacts DEF IdentityIn, Complete
      <3>3. Identity!Forget
        BY <1>2, <2>1, <2>2, <3>2 DEF Identity!Forget
      <3> QED BY <3>3 DEF Identity!Next
    <2> QED BY <2>3, <2>4
  <1> QED BY <1>6, <1>7

LEMMA CrashIsDie ==
  ASSUME KeysInv, NewestInv, Crash
  PROVE  Identity!Die
  <1>1. /\ op.next \in Slot /\ defaults \in Keys /\ generated \in 0..MaxSets
        /\ crashes \in Nat
    BY OpType, BoundsAssumption DEF KeysInv, TypeOK
  <1>2. /\ crashes' = crashes + 1 /\ user' = NoKeys /\ op'.name = "idle"
        /\ defaults' = defaults /\ generated' = generated
    BY IdleType DEF Crash
  <1>3. IdentityIn(user)' = Absent
    BY <1>2, KeysType, IdentityFacts DEF IdentityIn, Complete
  <1>4. Kept' = IdentityIn(defaults)
    BY <1>2 DEF Kept, IdentityIn, Complete
  <1>5. Kept' = Kept \/ (Kept = Absent /\ crashes > 0 /\ Kept' = Mixed)
    <2>1. CASE op.name # "generate"
      BY <1>4, <2>1 DEF Kept
    <2>2. CASE op.name = "generate"
      <3>1. Kept = Absent
        BY <2>2 DEF Kept
      <3>2. CASE ~Complete(defaults)
        BY <1>4, <3>1, <3>2, IdentityFacts
      <3>3. CASE Complete(defaults)
        <4>1. op.next # 1
          BY <2>2, <3>3 DEF NewestInv
        <4>2. defaults[1] = generated
          BY <1>1, <2>2, <4>1 DEF KeysInv, LoopInv, Slot
        <4>3. defaults[LastSlot] # generated
          BY <1>1, <2>2 DEF NewestInv, Slot, LastSlot
        <4>4. ~Uniform(defaults)
          BY <4>2, <4>3, KeysType DEF Uniform
        <4>5. defaults[LastSlot] # Absent
          BY <3>3, KeysType DEF Complete
        <4>6. crashes # 0
          BY <2>2, <4>5 DEF KeysInv, DefaultsInv
        <4> QED BY <1>1, <1>4, <3>1, <3>3, <4>4, <4>6, IdentityFacts
      <3> QED BY <3>2, <3>3
    <2> QED BY <2>1, <2>2
  <1>6. Gone' = (1..generated) \ {Kept'}
    BY <1>2 DEF Gone
  <1>7. Gone \subseteq Gone' /\ Gone' \subseteq KeySet \ {Kept'}
    <2>1. 1..generated \subseteq KeySet
      BY <1>1, BoundsAssumption DEF KeySet
    <2> QED BY <1>5, <1>6, <2>1, IdentityFacts DEF Gone
  <1> QED BY <1>2, <1>3, <1>5, <1>7 DEF Identity!Die

LEMMA IdentityStep ==
  KeysInv /\ NewestInv /\ [Next]_vars => [Identity!Next]_(Identity!vars)
  <1> SUFFICES ASSUME KeysInv, NewestInv, [Next]_vars
               PROVE  Identity!Next \/ UNCHANGED Identity!vars
    BY DEF Identity!vars
  <1>1. /\ defaults \in Keys /\ generated \in 0..MaxSets
        /\ op = Idle => op.name = "idle"
    BY OpType DEF KeysInv, TypeOK
  (* Steps that leave the keys alone and do not begin or end to write them. *)
  <1>2. ASSUME UNCHANGED <<user, crashes, defaults, generated>>,
               op' = op \/ (op.name # "generate" /\ op'.name # "generate")
        PROVE  UNCHANGED Identity!vars
    <2>1. Kept' = Kept
      BY <1>2 DEF Kept, IdentityIn, Complete
    <2>2. Gone' = Gone
      BY <1>2, <2>1 DEF Gone
    <2> QED BY <1>2, <2>1, <2>2, IdentityStutter
  <1>3. CASE InitiateWithKeys
    <2>1. /\ op = Idle /\ Complete(defaults) /\ user' = defaults
          /\ UNCHANGED <<defaults, op, generated, crashes>>
      BY <1>3 DEF InitiateWithKeys
    <2>2. Kept = IdentityIn(defaults) /\ Kept # Absent
      BY <1>1, <2>1, IdentityFacts DEF Kept
    <2>3. IdentityIn(user) \in {Absent, Kept} /\ IdentityIn(user)' = Kept
      <3>1. user = NoKeys \/ user = defaults
        BY <2>1 DEF KeysInv, IdentitySurvives
      <3>2. IdentityIn(user) \in {Absent, Kept}
        BY <2>2, <3>1, KeysType, IdentityFacts
      <3> QED BY <2>1, <2>2, <3>2 DEF IdentityIn, Complete
    <2>4. Kept' = Kept /\ Gone' = Gone
      BY <2>1 DEF Kept, Gone, IdentityIn, Complete
    <2>5. Identity!Resume
      BY <2>1, <2>2, <2>3, <2>4 DEF Identity!Resume
    <2> QED BY <2>5 DEF Identity!Next
  <1>4. CASE BeginGenerate
    <2>1. /\ op = Idle /\ ~Complete(defaults) /\ UNCHANGED <<defaults, user, crashes>>
          /\ generated' = generated + 1 /\ op'.name = "generate"
      BY <1>4 DEF BeginGenerate, memory
    <2>2. Kept = Absent /\ Kept' = Absent
      BY <1>1, <2>1, IdentityFacts DEF Kept
    <2>3. Gone' = Gone
      <3>1. Gone = 1..generated
        BY <1>1, <2>1, <2>2 DEF Gone, Absent
      <3>2. Gone' = {k \in 1..(generated + 1) : k # generated + 1}
        BY <2>1, <2>2 DEF Gone, Absent
      <3>3. generated \in Nat
        BY <1>1, BoundsAssumption
      <3> QED BY <3>1, <3>2, <3>3
    <2> QED BY <2>1, <2>2, <2>3, IdentityStutter
  <1>5. CASE GenerateFails \/ Wipe \/ WipeFails
           \/ \E k \in KeySet : SaveRow(k) \/ SaveFails(k)
    BY <1>2, <1>5 DEF GenerateFails, Wipe, WipeFails, WipeAllBut, SaveRow, SaveFails,
                      ChangeRow, memory
  <1>6. CASE Shut
    BY <1>1, <1>2, <1>6 DEF Shut, memory
  <1>7. CASE WriteKey
    BY <1>7, WriteIsCreate
  <1>8. CASE ClearKey
    BY <1>8, ClearGivesUp
  <1>9. CASE Crash
    BY <1>9, CrashIsDie DEF Identity!Next
  <1>10. CASE UNCHANGED vars
    BY <1>2, <1>10 DEF vars, memory
  <1> QED
    BY <1>3, <1>4, <1>5, <1>6, <1>7, <1>8, <1>9, <1>10 DEF Next, Initiate, MainStep

(***************************************************************************)
(* Keys that are written and cleared slot by slot, with deaths anywhere in *)
(* between, are created, kept and given up as one identity: one that was   *)
(* cleared by shut never comes back, none replaces another one, and a      *)
(* start finds a mixture only after a second death.                        *)
(***************************************************************************)
THEOREM ImplementsIdentity == Spec => KeepsIdentity
  <1>1. Init => Identity!Init
    <2> SUFFICES ASSUME Init PROVE Identity!Init
      OBVIOUS
    <2>1. Kept = Absent /\ IdentityIn(user) = Absent
      BY KeysType, IdentityFacts DEF Init, Kept
    <2>2. Gone = {}
      BY DEF Init, Gone
    <2> QED BY <2>1, <2>2 DEF Init, Identity!Init
  <1> QED BY <1>1, KeysInit, KeysNext, NewestInit, NewestNext, IdentityStep, PTL
          DEF Spec, KeepsIdentity, Identity!Spec

=============================================================================
