----------------------------- MODULE LocalStore -----------------------------
(***************************************************************************)
(* What one installation keeps of its user: the keys that initiate         *)
(* generates and writes, one after the other, into the user defaults; the  *)
(* rows of the prekeys and sessions in the database; what of both is in    *)
(* memory.  shut clears the keys, one after the other, and leaves the rows *)
(* to a block of a background context.                                     *)
(*                                                                         *)
(* A set of keys is generated together and belongs to one user of the      *)
(* installation; each key is represented by the number of its set.  A row  *)
(* is represented by the set of keys it was made under.                    *)
(*                                                                         *)
(* Core Data may fail, and the code swallows its errors: a row whose save  *)
(* fails stays in the context, where the next save and the next fetch find *)
(* it; a fetch that fails finds none; a block of clearData that fails      *)
(* leaves the rows it has not deleted.                                     *)
(***************************************************************************)
EXTENDS Naturals

CONSTANTS
    MaxSets,      \* bound: sets of keys generated
    MaxCrashes,   \* bound: times the process dies
    Faults        \* what may fail, of "load", "save" and "wipe"

ASSUME BoundsAssumption == MaxSets \in Nat \ {0} /\ MaxCrashes \in Nat
ASSUME FaultsAssumption == Faults \subseteq {"load", "save", "wipe"}

KeySet == 1..MaxSets
Absent == 0

(* Registration id, public and private identity key, signed prekey, in the *)
(* order in which they are written and cleared.                            *)
Slot     == 1..4
LastSlot == 4
Keys     == [Slot -> 0..MaxSets]
NoKeys   == [s \in Slot |-> Absent]

VARIABLES
    defaults,     \* the keys in the user defaults
    user,         \* SecretChatDataStore.localUser, NoKeys for nil
    data,         \* rows of the database
    pending,      \* rows that the context holds and has not saved
    established,  \* SecretSession.protocolStore is not nil
    loaded,       \* rows its stores hold in memory
    wipes,        \* blocks of clearData that have not run
    op,           \* the loop over the slots the main thread is in, and where
    generated,    \* sets of keys generated
    crashes,      \* times the process has died
    cut,          \* history: the process has died in shut
    hurried,      \* history: initiate or death has come before the block of a shut
    leftover      \* history: rows of earlier users that are there because of a fault

memory == <<user, established, loaded>>
rows   == <<data, pending, leftover>>
past   == <<cut, hurried>>
vars   == <<defaults, rows, memory, wipes, op, generated, crashes, past>>

Idle == [name |-> "idle", next |-> 1]

TypeOK ==
    /\ defaults \in Keys
    /\ user \in Keys
    /\ data \subseteq KeySet /\ pending \subseteq KeySet /\ leftover \subseteq KeySet
    /\ established \in BOOLEAN
    /\ loaded \in SUBSET KeySet
    /\ wipes \in 0..MaxSets
    /\ op \in [name : {"idle", "generate", "clear"}, next : Slot]
    /\ generated \in 0..MaxSets
    /\ crashes \in 0..MaxCrashes
    /\ cut \in BOOLEAN
    /\ hurried \in BOOLEAN

Init ==
    /\ defaults = NoKeys
    /\ user = NoKeys
    /\ data = {} /\ pending = {} /\ leftover = {}
    /\ established = FALSE
    /\ loaded = {}
    /\ wipes = 0
    /\ op = Idle
    /\ generated = 0
    /\ crashes = 0
    /\ cut = FALSE
    /\ hurried = FALSE

-----------------------------------------------------------------------------
(* Mutant: looks for the registration id only. *)
HasRegistrationId(k) == k[1] # Absent

Complete(k) == \A s \in Slot : k[s] # Absent

(* estabilish: the stores of a new protocolStore load the rows, those that *)
(* the context has not saved too; a fetch that fails finds none of a store. *)
Establish ==
    /\ established' = TRUE
    /\ \/ loaded' = data \cup pending
       \/ "load" \in Faults /\ loaded' \in SUBSET (data \cup pending)

(* Nothing keeps the application from calling initiate before the block of *)
(* clearData has run.                                                      *)
MayHurry ==
    /\ hurried' = (hurried \/ wipes > 0)
    /\ UNCHANGED cut

(* initiate finds the keys in the user defaults ... *)
InitiateWithKeys ==
    /\ op = Idle
    /\ MayHurry
    /\ Complete(defaults)
    /\ user' = defaults
    /\ Establish
    /\ UNCHANGED <<defaults, rows, wipes, op, generated, crashes>>

(* ... or misses one of them, generates all of them and writes them ... *)
BeginGenerate ==
    /\ op = Idle
    /\ ~Complete(defaults)
    /\ generated < MaxSets
    /\ generated' = generated + 1
    /\ op' = [name |-> "generate", next |-> 1]
    /\ MayHurry
    /\ UNCHANGED <<defaults, rows, memory, wipes, crashes>>

(* Mutant: goes on past the last slot. *)
WriteKeyPastLast ==
    /\ op.name = "generate"
    /\ defaults' = [defaults EXCEPT ![op.next] = generated]
    /\ IF op.next > LastSlot
       THEN op' = Idle /\ user' = defaults' /\ Establish
       ELSE op' = [op EXCEPT !.next = @ + 1] /\ UNCHANGED memory
    /\ UNCHANGED <<rows, wipes, generated, crashes, past>>

(* Mutant: writes only the keys that are missing. *)
WriteMissingKey ==
    /\ op.name = "generate"
    /\ defaults' = IF defaults[op.next] = Absent
                      THEN [defaults EXCEPT ![op.next] = generated] ELSE defaults
    /\ IF op.next = LastSlot
       THEN op' = Idle /\ user' = defaults' /\ Establish
       ELSE op' = [op EXCEPT !.next = @ + 1] /\ UNCHANGED memory
    /\ UNCHANGED <<rows, wipes, generated, crashes, past>>

WriteKey ==
    /\ op.name = "generate"
    /\ defaults' = [defaults EXCEPT ![op.next] = generated]
    /\ IF op.next = LastSlot
       THEN op' = Idle /\ user' = defaults' /\ Establish
       ELSE op' = [op EXCEPT !.next = @ + 1] /\ UNCHANGED memory
    /\ UNCHANGED <<rows, wipes, generated, crashes, past>>

(* ... or the library generates none: the stores are made all the same. *)
GenerateFails ==
    /\ op = Idle
    /\ ~Complete(defaults)
    /\ Establish
    /\ MayHurry
    /\ UNCHANGED <<defaults, user, rows, wipes, op, generated, crashes>>

-----------------------------------------------------------------------------
(* shut begins with clearKeys, which clears the slots. *)
Shut ==
    /\ op = Idle
    /\ wipes < MaxSets
    /\ op' = [name |-> "clear", next |-> 1]
    /\ UNCHANGED <<defaults, rows, memory, wipes, generated, crashes, past>>

(* Mutant: keeps the user in memory. *)
ClearKeyOnly ==
    /\ op.name = "clear"
    /\ defaults' = [defaults EXCEPT ![op.next] = Absent]
    /\ op' = IF op.next = LastSlot THEN Idle ELSE [op EXCEPT !.next = @ + 1]
    /\ UNCHANGED <<rows, memory, wipes, generated, crashes, past>>

(* clearSession and deEstabilish; the rows are left to a block, and those  *)
(* that the context has not saved to nobody.                               *)
ClearSession ==
    /\ leftover' = leftover \cup pending
    /\ user' = NoKeys
    /\ established' = FALSE
    /\ loaded' = {}
    /\ wipes' = wipes + 1

ClearKey ==
    /\ op.name = "clear"
    /\ defaults' = [defaults EXCEPT ![op.next] = Absent]
    /\ IF op.next = LastSlot
       THEN op' = Idle /\ ClearSession
       ELSE op' = [op EXCEPT !.next = @ + 1] /\ UNCHANGED <<memory, wipes, leftover>>
    /\ UNCHANGED <<data, pending, generated, crashes, past>>

(* The block of clearData ends and leaves these rows in the database. *)
WipeAllBut(left) ==
    /\ wipes > 0
    /\ data' = left
    /\ wipes' = wipes - 1
    /\ UNCHANGED <<defaults, pending, memory, op, generated, crashes, past>>

(* Mutant: the block deletes the rows of one entity only. *)
WipeOneEntity ==
    /\ \E left \in SUBSET data : WipeAllBut(left)
    /\ leftover' = leftover \cap pending

(* The block deletes the rows of all entities ... *)
Wipe ==
    /\ WipeAllBut({})
    /\ leftover' = leftover \cap pending

(* ... or a deletion fails, and those that are left are not tried. *)
WipeFails ==
    /\ "wipe" \in Faults
    /\ \E left \in SUBSET data : WipeAllBut(left)
    /\ leftover' = (leftover \cap pending) \cup data'

(* A prekey or a session is made under the keys of the user, or one in     *)
(* memory is used, which changes it.                                       *)
ChangeRow(k) ==
    /\ op = Idle
    /\ established
    /\ k \in loaded \/ (user # NoKeys /\ k = user[2])
    /\ loaded' = loaded \cup {k}
    /\ UNCHANGED <<defaults, user, established, leftover, wipes, op, generated, crashes,
                   past>>

(* The row is saved, and with it all that the context has not saved ... *)
SaveRow(k) ==
    /\ ChangeRow(k)
    /\ data' = data \cup pending \cup {k}
    /\ pending' = {}

(* ... or the save fails, or the fetch before it: then not even the context *)
(* has the row.                                                             *)
SaveFails(k) ==
    /\ "save" \in Faults
    /\ ChangeRow(k)
    /\ pending' \in {pending, pending \cup {k}}
    /\ UNCHANGED data

(* The process dies: what it had in memory, what its context had not saved *)
(* and the blocks that have not run are gone.                              *)
Crash ==
    /\ crashes < MaxCrashes
    /\ crashes' = crashes + 1
    /\ user' = NoKeys
    /\ established' = FALSE
    /\ loaded' = {}
    /\ wipes' = 0
    /\ op' = Idle
    /\ pending' = {}
    /\ leftover' = leftover \cap data
    /\ cut' = (cut \/ op.name = "clear")
    /\ hurried' = (hurried \/ wipes > 0)
    /\ UNCHANGED <<defaults, data, generated>>

-----------------------------------------------------------------------------
Initiate == InitiateWithKeys \/ BeginGenerate \/ GenerateFails
MainStep == WriteKey \/ ClearKey \/ \E k \in KeySet : SaveRow(k) \/ SaveFails(k)

Next == Initiate \/ MainStep \/ Shut \/ Wipe \/ WipeFails \/ Crash

Spec == Init /\ [][Next]_vars

-----------------------------------------------------------------------------
(* The user in memory is the one the next start finds. *)
IdentitySurvives == op = Idle /\ user # NoKeys => user = defaults

(* generateKeys: "This will generate fresh set of keys for current user":  *)
(* the keys in use have been generated together.  Dying once, wherever it  *)
(* is, does no harm to that, nor does dying ever so often outside shut.    *)
KeysOfOneSet == crashes <= 1 \/ ~cut => \A s, t \in Slot : user[s] = user[t]

(* shut: "Complete clean up of current user data": no prekey or session of *)
(* an earlier user of the installation is in the stores of the next one.   *)
StoresAreOwn == user # NoKeys => loaded \subseteq {user[s] : s \in Slot}

(***************************************************************************)
(* The promise shut keeps: if the application calls initiate only when the *)
(* block of clearData has run, and the process does not die before, a user *)
(* is given rows of his own, and besides only such as a fault has left: a  *)
(* block that failed, or a save that failed before shut.                   *)
(***************************************************************************)
Tidy == ~cut /\ ~hurried

CleanHandover ==
    Tidy /\ user # NoKeys => loaded \subseteq {user[s] : s \in Slot} \cup leftover

(***************************************************************************)
(* The identity in keys: none if one is missing, one that was never made   *)
(* if they are of several sets.  While keys are written none is kept yet,  *)
(* and their set is not one that is gone.                                  *)
(***************************************************************************)
Mixed == MaxSets + 1

IdentityIn(k) ==
    IF ~Complete(k) THEN Absent
    ELSE IF \A s, t \in Slot : k[s] = k[t] THEN k[1] ELSE Mixed

Kept == IF op.name = "generate" THEN Absent ELSE IdentityIn(defaults)

Gone == {k \in 1..generated : k # Kept /\ (op.name = "generate" => k # generated)}

Identity == INSTANCE UserIdentity WITH
    None <- Absent, kept <- Kept, current <- IdentityIn(user),
    gone <- Gone, deaths <- crashes

(* The keys, written and cleared slot by slot with deaths in between, are  *)
(* one identity to every start and every user: none comes back after shut, *)
(* none replaces another, and a single death mixes none.                   *)
KeepsIdentity == Identity!Spec

=============================================================================
