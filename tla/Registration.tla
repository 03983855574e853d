---------------------------- MODULE Registration ----------------------------
(***************************************************************************)
(* How an installation registers its keys with the server, and what it     *)
(* believes about that.  register and deRegister send requests through     *)
(* the delegate, whose completion blocks run on a thread of their own; the *)
(* flags they set live in the user defaults, the localUser and the flag    *)
(* registrationProcess in memory.  shut drops the user and his keys, one   *)
(* default after the other; the next initiate generates others.            *)
(*                                                                         *)
(* The application calls register, reRegister, shut and initiate on one    *)
(* thread, the main thread, so that no other call of register comes        *)
(* between the guard of one and its set of registrationProcess.            *)
(*                                                                         *)
(* A device is represented by its set of keys: this installation is device *)
(* 1, 2, ... after its first, second, ... generateKeys, and the others     *)
(* that the user has linked are in Other.                                  *)
(***************************************************************************)
EXTENDS Naturals, FiniteSets

CONSTANTS
    MaxDevices,   \* bound: times this installation generates its keys
    MaxRequests,  \* bound: requests on their way or being replied to
    Other         \* further devices of the user

Own      == 1..MaxDevices
Nobody   == 0
Device   == Own \cup Other

ASSUME BoundsAssumption == {MaxDevices, MaxRequests} \subseteq Nat \ {0}
ASSUME OtherAssumption == Other \cap (0..MaxDevices) = {}

(* answer is what the completion block is going to be given; live is FALSE *)
(* when the process that would have run the block has died.                *)
Request == [kind : {"register", "deregister"}, device : Device, sendPreKeys : BOOLEAN,
            answer : {"none", "success", "refused"}, live : BOOLEAN]

(* Where the main thread is in reRegister, and the flag it has read. *)
Outside == [at |-> "outside", sendPreKeys |-> FALSE]

VARIABLES
    keys,          \* the keys in the user defaults
    localUser,     \* SecretChatDataStore.localUser
    generated,     \* times the keys have been generated
    shutting,      \* what the main thread, in shut, clears next
    registered,    \* kSecretChatDidRegistered
    failed,        \* kSecretChatDidRegistationFailed
    maxLinked,     \* kSecretChatDidMaxLinkedDevices
    preKeysDue,    \* kSecretChatDidSendPreKeys
    registrationProcess,
    requests,      \* requests on their way or waiting for their block
    replying,      \* a registration whose block has passed its first line
    reRegister,    \* where the main thread is in reRegister
    server,        \* devices registered at the server
    dismissed,     \* history: devices a request to deregister was sent for
    crossed,       \* history: shut has cleared registered while a registration was awaited
    cut,           \* history: a death inside shut has left registered set
    owed           \* history: prekeys that a failed registration was to send

local == <<keys, localUser, generated, shutting>>
flags == <<registered, failed, maxLinked, preKeysDue>>
net   == <<requests, replying, server>>
past  == <<dismissed, crossed, cut, owed>>
vars  == <<local, flags, registrationProcess, reRegister, net, past>>

ShutStage == {"no", "preKeysDue", "registered", "rest"}

(* Prekeys are owed until a registration is asked to send them.  Two calls *)
(* of reRegister clear their note without that: one that another           *)
(* registration has overtaken, and one without a user, for which register  *)
(* does nothing.                                                           *)
Owed == {"no", "yes", "overtaken", "userless"}

TypeOK ==
    /\ keys \in 0..MaxDevices
    /\ localUser \in 0..MaxDevices
    /\ generated \in 0..MaxDevices
    /\ shutting \in ShutStage
    /\ {registered, failed, maxLinked, preKeysDue} \subseteq BOOLEAN
    /\ registrationProcess \in BOOLEAN
    /\ requests \in SUBSET Request
    /\ replying \in SUBSET Request
    /\ reRegister \in [at : {"outside", "register", "clear"}, sendPreKeys : BOOLEAN]
    /\ server \in SUBSET Device
    /\ dismissed \in SUBSET Device
    /\ crossed \in BOOLEAN
    /\ cut \in BOOLEAN
    /\ owed \in Owed

Init ==
    /\ keys = Nobody
    /\ localUser = Nobody
    /\ generated = 0
    /\ shutting = "no"
    /\ registered = FALSE /\ failed = FALSE /\ maxLinked = FALSE /\ preKeysDue = FALSE
    /\ registrationProcess = FALSE
    /\ reRegister = Outside
    /\ requests = {}
    /\ replying = {}
    /\ server = Other
    /\ dismissed = {}
    /\ crossed = FALSE
    /\ cut = FALSE
    /\ owed = "no"

-----------------------------------------------------------------------------
MainIsFree == reRegister = Outside /\ shutting = "no"

NewRequest(kind, device, send) ==
    [kind |-> kind, device |-> device, sendPreKeys |-> send, answer |-> "none", live |-> TRUE]

Pending(kind) == {r \in requests : r.live /\ r.kind = kind}

Send(new) ==
    /\ requests' = requests \cup new
    /\ Cardinality(requests') + Cardinality(replying) <= MaxRequests

(* initiate uses the keys there are, or generates others. *)
Initiate ==
    /\ MainIsFree
    /\ \/ keys # Nobody /\ UNCHANGED <<keys, generated>>
       \/ /\ keys = Nobody
          /\ generated < MaxDevices
          /\ generated' = generated + 1
          /\ keys' = generated'
    /\ localUser' = keys'
    /\ UNCHANGED <<shutting, flags, registrationProcess, reRegister, net, past>>

(* Mutant: does not look whether a registration is running. *)
CanRegisterAgain == ~registered /\ localUser # Nobody

(* Mutant: does not look for a user. *)
CanRegisterNobody == ~registrationProcess /\ ~registered

(* A call of register that finds a registration running, or done, returns. *)
CanRegister == ~registrationProcess /\ ~registered /\ localUser # Nobody

SendRegistration(send) ==
    /\ registrationProcess' = TRUE
    /\ Send({NewRequest("register", localUser, send)})
    /\ owed' = IF send THEN "no" ELSE owed

Register(send) ==
    /\ MainIsFree
    /\ CanRegister
    /\ SendRegistration(send)
    /\ UNCHANGED <<local, flags, reRegister, replying, server,
                   dismissed, crossed, cut>>

(* Mutant: clears the flag before it reads it. *)
ReRegisterCleared ==
    /\ MainIsFree
    /\ reRegister' = [at |-> "register", sendPreKeys |-> FALSE]
    /\ registered' = FALSE
    /\ failed' = FALSE
    /\ preKeysDue' = FALSE
    /\ cut' = FALSE
    /\ UNCHANGED <<local, maxLinked, registrationProcess, net, dismissed, crossed, owed>>

(* reRegister reads one flag and clears three, ... *)
ReRegister ==
    /\ MainIsFree
    /\ reRegister' = [at |-> "register", sendPreKeys |-> preKeysDue]
    /\ registered' = FALSE
    /\ failed' = FALSE
    /\ cut' = FALSE
    /\ UNCHANGED <<local, maxLinked, preKeysDue, registrationProcess, net,
                   dismissed, crossed, owed>>

(* ... calls register, ... *)
ReRegisterCall ==
    /\ reRegister.at = "register"
    /\ reRegister' = [reRegister EXCEPT !.at = "clear"]
    /\ \/ /\ CanRegister
          /\ SendRegistration(reRegister.sendPreKeys)
       \/ /\ ~CanRegister
          /\ owed' = IF owed = "no" THEN "no"
                     ELSE IF localUser = Nobody THEN "userless" ELSE "overtaken"
          /\ UNCHANGED <<registrationProcess, requests>>
    /\ UNCHANGED <<local, flags, replying, server, dismissed, crossed, cut>>

(* ... and clears the flag it has read. *)
ReRegisterReturn ==
    /\ reRegister.at = "clear"
    /\ reRegister' = Outside
    /\ preKeysDue' = FALSE
    /\ UNCHANGED <<local, registered, failed, maxLinked, registrationProcess, net, past>>

SendDismissals(devices) ==
    /\ Send({NewRequest("deregister", d, FALSE) : d \in devices})
    /\ dismissed' = dismissed \cup devices
    /\ UNCHANGED <<local, flags, registrationProcess, reRegister, replying, server,
                   crossed, cut, owed>>

DeRegisterCurrentDevice ==
    /\ MainIsFree
    /\ localUser # Nobody
    /\ registered
    /\ SendDismissals({localUser})

(* deRegisterAllDevices gets a list of devices that the server has, and    *)
(* skips this one when it is told to.                                      *)
DeRegisterAllDevices(list, exceptCurrentDevice) ==
    /\ MainIsFree
    /\ list \subseteq server
    /\ SendDismissals(IF exceptCurrentDevice THEN list \ {localUser} ELSE list)

(* shut clears the keys first, ... *)
Shut ==
    /\ MainIsFree
    /\ keys' = Nobody
    /\ shutting' = "preKeysDue"
    /\ UNCHANGED <<localUser, generated, flags, registrationProcess, reRegister, net, past>>

(* ... then the flags one after the other, ... *)
ShutPreKeysDue ==
    /\ shutting = "preKeysDue"
    /\ shutting' = "registered"
    /\ preKeysDue' = FALSE
    /\ owed' = "no"
    /\ UNCHANGED <<registered, failed, maxLinked, localUser, dismissed, crossed, cut>>

(* ... without regard to a registration that is running, ... *)
ShutRegistered ==
    /\ shutting = "registered"
    /\ shutting' = "rest"
    /\ registered' = FALSE
    /\ cut' = FALSE
    /\ crossed' = (crossed \/ Pending("register") \cup replying # {})
    /\ UNCHANGED <<failed, maxLinked, preKeysDue, localUser, dismissed, owed>>

(* ... and then the other flags and the user, whom no block looks at: what *)
(* a block does in between it might as well do before or after.            *)
ShutRest ==
    /\ shutting = "rest"
    /\ shutting' = "no"
    /\ failed' = FALSE /\ maxLinked' = FALSE
    /\ localUser' = Nobody
    /\ UNCHANGED <<registered, preKeysDue, past>>

ShutOn ==
    /\ ShutPreKeysDue \/ ShutRegistered \/ ShutRest
    /\ UNCHANGED <<keys, generated, registrationProcess, reRegister, net>>

(* shut has cleared the keys and not yet the flag registered. *)
KeysCleared == shutting \in {"preKeysDue", "registered"}

-----------------------------------------------------------------------------
(* The server handles a request; it refuses a device beyond the maximum. *)
ServerHandles(r) ==
    /\ r \in requests
    /\ r.answer = "none"
    /\ \/ /\ r.kind = "register"
          /\ server' = server \cup {r.device}
          /\ requests' = (requests \ {r}) \cup {[r EXCEPT !.answer = "success"]}
       \/ /\ r.kind = "register"
          /\ requests' = (requests \ {r}) \cup {[r EXCEPT !.answer = "refused"]}
          /\ UNCHANGED server
       \/ /\ r.kind = "deregister"
          /\ server' = server \ {r.device}
          /\ requests' = (requests \ {r}) \cup {[r EXCEPT !.answer = "success"]}
    /\ UNCHANGED <<local, flags, registrationProcess, reRegister, replying, past>>

(* A request is lost when nobody waits for its answer any more. *)
Lose(r) ==
    /\ r \in requests
    /\ ~r.live
    /\ requests' = requests \ {r}
    /\ UNCHANGED <<local, flags, registrationProcess, reRegister, replying, server, past>>

(* The completion block of r runs.  The delegate gives it the answer, or an *)
(* error, "none", at any time; the server may still get the request then.   *)
Replied(r) ==
    requests' = (requests \ {r})
                    \cup (IF r.answer = "none" THEN {[r EXCEPT !.live = FALSE]} ELSE {})

(* Mutant: ends the registration only when it has succeeded. *)
RegisterReplyOnSuccess(r, answer) ==
    /\ r \in Pending("register")
    /\ answer \in {"none", r.answer}
    /\ Replied(r)
    /\ registrationProcess' = (answer # "success")
    /\ replying' = replying \cup {[r EXCEPT !.answer = answer]}
    /\ UNCHANGED <<local, flags, reRegister, server, past>>

(* The block of register ends the registration first, ... *)
RegisterReply(r, answer) ==
    /\ r \in Pending("register")
    /\ answer \in {"none", r.answer}
    /\ Replied(r)
    /\ registrationProcess' = FALSE
    /\ replying' = replying \cup {[r EXCEPT !.answer = answer]}
    /\ UNCHANGED <<local, flags, reRegister, server, past>>

(* Mutant: any response counts as a success. *)
RecordAnyReply(r) ==
    /\ r \in replying
    /\ replying' = replying \ {r}
    /\ registered' = TRUE
    /\ UNCHANGED <<local, failed, maxLinked, preKeysDue, registrationProcess,
                   reRegister, requests, server, past>>

(* A registration that was to send prekeys has failed: this is noted for    *)
(* reRegister.                                                              *)
NotePreKeys(r) ==
    /\ preKeysDue' = (preKeysDue \/ r.sendPreKeys)
    /\ owed' = IF ~r.sendPreKeys THEN owed
               ELSE IF reRegister = Outside THEN "yes" ELSE "overtaken"

(* ... and sets the flags.  On success it calls sendPreKeys when that was   *)
(* asked for.                                                               *)
RecordReply(r) ==
    /\ r \in replying
    /\ replying' = replying \ {r}
    /\ \/ /\ r.answer = "success"
          /\ registered' = TRUE
          /\ maxLinked' = FALSE
          /\ UNCHANGED <<failed, preKeysDue, owed>>
       \/ /\ r.answer = "refused"
          /\ maxLinked' = TRUE
          /\ NotePreKeys(r)
          /\ UNCHANGED <<registered, failed>>
       \/ /\ r.answer = "none"
          /\ ~registered
          /\ failed' = TRUE
          /\ NotePreKeys(r)
          /\ UNCHANGED <<registered, maxLinked>>
       \/ /\ r.answer = "none"
          /\ registered
          /\ UNCHANGED <<flags, owed>>
    /\ UNCHANGED <<local, registrationProcess, reRegister, requests, server,
                   dismissed, crossed, cut>>

(* The block of deRegister clears the flag of this device on a success. *)
DeRegisterReply(r, answer) ==
    /\ r \in Pending("deregister")
    /\ answer \in {"none", r.answer}
    /\ Replied(r)
    /\ registered' = (registered /\ answer # "success")
    /\ cut' = (cut /\ answer # "success")
    /\ UNCHANGED <<local, failed, maxLinked, preKeysDue, registrationProcess,
                   reRegister, replying, server, dismissed, crossed, owed>>

(* The process dies.  A request the server has not seen may still reach it. *)
Restart ==
    /\ localUser' = Nobody
    /\ registrationProcess' = FALSE
    /\ reRegister' = Outside
    /\ requests' = {[r EXCEPT !.live = FALSE] : r \in {q \in requests : q.answer = "none"}}
    /\ replying' = {}
    /\ shutting' = "no"
    /\ cut' = (cut \/ (registered /\ KeysCleared))
    /\ UNCHANGED <<keys, generated, flags, server, dismissed, crossed, owed>>

-----------------------------------------------------------------------------
Answer == {"none", "success", "refused"}

RegistrationReply == \E r \in requests, answer \in Answer : RegisterReply(r, answer)
DismissalReply    == \E r \in requests, answer \in Answer : DeRegisterReply(r, answer)
RecordedReply     == \E r \in replying : RecordReply(r)

Use ==
    \/ Initiate
    \/ \E send \in BOOLEAN : Register(send)
    \/ ReRegister \/ ReRegisterCall \/ ReRegisterReturn
    \/ DeRegisterCurrentDevice
    \/ \E list \in SUBSET server \ {{}}, except \in BOOLEAN : DeRegisterAllDevices(list, except)
    \/ \E r \in requests : ServerHandles(r) \/ Lose(r)
    \/ RegistrationReply \/ DismissalReply \/ RecordedReply

Next == Use \/ Shut \/ ShutOn \/ Restart

Spec == Init /\ [][Next]_vars

(* The delegate calls the completion block of each request, with an error  *)
(* if need be, and a block that has begun is run to its end.               *)
FairSpec == Spec /\ WF_vars(RegistrationReply) /\ WF_vars(RecordedReply)

-----------------------------------------------------------------------------
(* registrationProcess tells the truth: it is set exactly while the block  *)
(* of a registration is awaited, and one is at most.                       *)
ProcessIsExact ==
    /\ registrationProcess <=> Pending("register") # {}
    /\ \A r, q \in Pending("register") : r = q

(***************************************************************************)
(* didDeviceRegistered: "Checking weather device registered with server    *)
(* - returns: true on success": the flag is set only for keys that the     *)
(* server has, unless it was asked to remove them.  While shut is on its   *)
(* way from the keys to the flag, the flag is about to be cleared.         *)
(***************************************************************************)
RegisteredAtServer == registered /\ ~KeysCleared => keys \in server \cup dismissed

(* The same, but for a flag that shut has not come to clear when the       *)
(* process died.                                                           *)
RegisteredAfterShut == ~cut => RegisteredAtServer

(***************************************************************************)
(* What the flag promises holds through every shut that no registration is *)
(* waiting across and that the process survives, whatever is lost, late or *)
(* answered after a restart.                                               *)
(***************************************************************************)
RegisteredIsTrue == ~crossed /\ ~cut => RegisteredAtServer

(***************************************************************************)
(* kSecretChatDidSendPreKeys: "with checking whether prekeys need to be    *)
(* send or not".  Prekeys that a failed registration did not send stay     *)
(* noted until another registration is asked to send them, with two        *)
(* exceptions: reRegister clears the note while another registration is    *)
(* running, has just succeeded, or is writing it in its block; or it is    *)
(* called when there is no user, and clears a note although register has   *)
(* had no keys to register.                                                *)
(***************************************************************************)
NoteIsKept == owed = "yes" => preKeysDue

(* A registration ends, so that a later one is not refused. *)
RegistrationEnds == registrationProcess ~> ~registrationProcess
=============================================================================
