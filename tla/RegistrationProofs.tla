------------------------- MODULE RegistrationProofs -------------------------
(***************************************************************************)
(* Theorems about Registration, for any number of sets of keys, of         *)
(* requests and of other devices.                                          *)
(***************************************************************************)
EXTENDS Registration, TLAPS

FlagsType == registered \in BOOLEAN /\ failed \in BOOLEAN
             /\ maxLinked \in BOOLEAN /\ preKeysDue \in BOOLEAN

Inv == TypeOK /\ ProcessIsExact

-----------------------------------------------------------------------------
(* Helpers of the model. *)

(* Nobody is a device. *)
LEMMA DeviceType ==
  /\ Nobody \notin Device
  /\ Nobody \in 0..MaxDevices
  /\ \A u \in 0..MaxDevices : u # Nobody => u \in Device
  BY BoundsAssumption, OtherAssumption DEF Device, Own, Nobody

(* Answering a request changes its answer, and giving it up that it is     *)
(* live, and no more.                                                      *)
LEMMA ChangedRequest ==
  ASSUME NEW r \in Request, NEW a \in Answer
  PROVE  /\ [r EXCEPT !.answer = a] \in Request
         /\ [r EXCEPT !.answer = a].kind = r.kind
         /\ [r EXCEPT !.answer = a].device = r.device
         /\ [r EXCEPT !.answer = a].live = r.live
         /\ [r EXCEPT !.answer = a].answer = a
         /\ [r EXCEPT !.live = FALSE] \in Request
         /\ [r EXCEPT !.live = FALSE].kind = r.kind
         /\ [r EXCEPT !.live = FALSE].device = r.device
         /\ [r EXCEPT !.live = FALSE].answer = r.answer
         /\ [r EXCEPT !.live = FALSE].live = FALSE
  BY DEF Request, Answer

LEMMA AnswerType ==
  /\ \A r \in Request : r.answer \in Answer
  /\ {"none", "success", "refused"} = Answer
  BY DEF Request, Answer

LEMMA FlagsAreFlags == TypeOK => FlagsType
  BY DEF TypeOK, FlagsType

(* What the completion block of a request leaves of it is not awaited.     *)
LEMMA RepliedType ==
  ASSUME requests \in SUBSET Request, NEW r \in requests, Replied(r)
  PROVE  /\ requests' \in SUBSET Request
         /\ \A q \in requests' : q \in requests \/ (~q.live /\ q.kind = r.kind
                                        /\ q.device = r.device /\ q.answer = r.answer)
         /\ \A kind : Pending(kind)' = Pending(kind) \ {r}
  <1>1. r \in Request /\ r.answer \in Answer
    BY AnswerType
  <1> DEFINE late == [r EXCEPT !.live = FALSE]
  <1>2. late \in Request /\ late.kind = r.kind /\ late.device = r.device
          /\ late.answer = r.answer /\ ~late.live
    BY <1>1, ChangedRequest
  <1>3. \/ requests' = (requests \ {r}) \cup {late}
        \/ requests' = requests \ {r}
    BY DEF Replied
  <1> HIDE DEF late
  <1>4. requests' \in SUBSET Request
    BY <1>2, <1>3
  <1>5. \A q \in requests' : q \in requests \/ (~q.live /\ q.kind = r.kind
                                        /\ q.device = r.device /\ q.answer = r.answer)
    BY <1>2, <1>3
  <1>6. ASSUME NEW kind PROVE Pending(kind)' = Pending(kind) \ {r}
    BY <1>2, <1>3 DEF Pending
  <1> QED BY <1>4, <1>5, <1>6

-----------------------------------------------------------------------------
LEMMA InitInv == Init => Inv
  <1> SUFFICES ASSUME Init PROVE Inv
    OBVIOUS
  <1>1. TypeOK
    <2>1. 0 \in 0..MaxDevices
      BY BoundsAssumption
    <2>2. FlagsType /\ registrationProcess \in BOOLEAN
      BY DEF Init, FlagsType
    <2>3. requests = {} /\ replying = {} /\ dismissed = {} /\ server \in SUBSET Device
      BY DEF Init, Device
    <2>4. reRegister \in [at : {"outside", "register", "clear"}, sendPreKeys : BOOLEAN]
      BY DEF Init, Outside
    <2>5. keys = 0 /\ localUser = 0 /\ generated = 0
      BY DEF Init, Nobody
    <2>6. crossed \in BOOLEAN /\ cut \in BOOLEAN /\ owed \in Owed /\ shutting \in ShutStage
      BY DEF Init, Owed, ShutStage
    <2> QED BY <2>1, <2>2, <2>3, <2>4, <2>5, <2>6 DEF TypeOK, FlagsType
  <1>2. ProcessIsExact
    BY DEF Init, ProcessIsExact, Pending
  <1> QED BY <1>1, <1>2 DEF Inv

(* Nothing that leaves the awaited registrations alone disturbs            *)
(* registrationProcess.                                                    *)
LEMMA SamePending ==
  ASSUME ProcessIsExact, registrationProcess' = registrationProcess,
         Pending("register")' = Pending("register")
  PROVE  ProcessIsExact'
  BY DEF ProcessIsExact

LEMMA SameRequests ==
  ASSUME requests' = requests
  PROVE  Pending("register")' = Pending("register")
  BY DEF Pending

LEMMA InitiateStep ==
  ASSUME Inv, Initiate
  PROVE  Inv'
  <1>1. keys' \in 0..MaxDevices /\ generated' \in 0..MaxDevices /\ localUser' = keys'
    BY BoundsAssumption DEF Inv, TypeOK, Initiate
  <1>2. TypeOK'
    BY <1>1 DEF Inv, TypeOK, Initiate, flags, net, past
  <1>3. ProcessIsExact'
    BY SamePending, SameRequests DEF Inv, Initiate, net
  <1> QED BY <1>2, <1>3 DEF Inv

(* A registration begins only when none is awaited. *)
LEMMA SendRegistrationStep ==
  ASSUME Inv, NEW send \in BOOLEAN, CanRegister, SendRegistration(send)
  PROVE  /\ registrationProcess' \in BOOLEAN
         /\ requests' \in SUBSET Request
         /\ owed' \in Owed
         /\ ProcessIsExact'
  <1> DEFINE new == NewRequest("register", localUser, send)
  <1>1. localUser \in Device
    BY DeviceType DEF Inv, TypeOK, CanRegister
  <1>2. new \in Request /\ new.kind = "register" /\ new.live
    BY <1>1 DEF NewRequest, Request
  <1>3. requests' = requests \cup {new} /\ registrationProcess' = TRUE
    BY DEF SendRegistration, Send
  <1> HIDE DEF new
  <1>4. requests' \in SUBSET Request
    BY <1>2, <1>3 DEF Inv, TypeOK
  <1>5. Pending("register") = {}
    BY DEF Inv, ProcessIsExact, CanRegister
  <1>6. Pending("register")' = {new}
    BY <1>2, <1>3, <1>5 DEF Pending
  <1>7. owed' \in Owed
    BY DEF Inv, TypeOK, SendRegistration, Owed
  <1> QED BY <1>3, <1>4, <1>6, <1>7 DEF ProcessIsExact

LEMMA RegisterStep ==
  ASSUME Inv, NEW send \in BOOLEAN, Register(send)
  PROVE  Inv'
  <1>1. /\ registrationProcess' \in BOOLEAN
        /\ requests' \in SUBSET Request
        /\ owed' \in Owed
        /\ ProcessIsExact'
    BY SendRegistrationStep DEF Register
  <1>2. TypeOK'
    BY <1>1 DEF Inv, TypeOK, Register, local, flags, past
  <1> QED BY <1>1, <1>2 DEF Inv

LEMMA ReRegisterStep ==
  ASSUME Inv, ReRegister \/ ReRegisterCall \/ ReRegisterReturn
  PROVE  Inv'
  <1>1. CASE ReRegister
    <2>1. reRegister' \in [at : {"outside", "register", "clear"}, sendPreKeys : BOOLEAN]
      BY <1>1, FlagsAreFlags DEF ReRegister, Inv, FlagsType
    <2>2. FlagsType'
      BY <1>1, FlagsAreFlags DEF ReRegister, Inv, FlagsType
    <2>3. TypeOK'
      BY <1>1, <2>1, <2>2 DEF Inv, TypeOK, ReRegister, local, net, FlagsType, past
    <2>4. ProcessIsExact'
      BY <1>1, SamePending, SameRequests DEF Inv, ReRegister, net
    <2> QED BY <2>3, <2>4 DEF Inv
  <1>2. CASE ReRegisterCall
    <2>1. reRegister' \in [at : {"outside", "register", "clear"}, sendPreKeys : BOOLEAN]
      BY <1>2 DEF ReRegisterCall, Inv, TypeOK
    <2>2. /\ registrationProcess' \in BOOLEAN
          /\ requests' \in SUBSET Request
          /\ owed' \in Owed
          /\ ProcessIsExact'
      <3>1. CASE CanRegister
        <4>1. reRegister.sendPreKeys \in BOOLEAN
          BY DEF Inv, TypeOK
        <4> QED BY <1>2, <3>1, <4>1, SendRegistrationStep DEF ReRegisterCall
      <3>2. CASE ~CanRegister
        BY <1>2, <3>2, SamePending, SameRequests DEF Inv, TypeOK, ReRegisterCall, Owed
      <3> QED BY <3>1, <3>2
    <2>3. TypeOK'
      BY <1>2, <2>1, <2>2 DEF Inv, TypeOK, ReRegisterCall, local, flags, past
    <2> QED BY <2>2, <2>3 DEF Inv
  <1>3. CASE ReRegisterReturn
    <2>1. reRegister' \in [at : {"outside", "register", "clear"}, sendPreKeys : BOOLEAN]
      BY <1>3 DEF ReRegisterReturn, Outside
    <2>2. FlagsType'
      BY <1>3, FlagsAreFlags DEF ReRegisterReturn, Inv, FlagsType
    <2>3. TypeOK'
      BY <1>3, <2>1, <2>2 DEF Inv, TypeOK, ReRegisterReturn, local, net, FlagsType, past
    <2>4. ProcessIsExact'
      BY <1>3, SamePending, SameRequests DEF Inv, ReRegisterReturn, net
    <2> QED BY <2>3, <2>4 DEF Inv
  <1> QED BY <1>1, <1>2, <1>3

(* Requests to remove devices are not registrations. *)
LEMMA DismissalsStep ==
  ASSUME Inv, NEW devices \in SUBSET Device, SendDismissals(devices)
  PROVE  Inv'
  <1> DEFINE new == {NewRequest("deregister", d, FALSE) : d \in devices}
  <1>1. \A q \in new : /\ q \in Request /\ q.kind = "deregister" /\ q.answer = "none"
                       /\ q.device \in devices
    <2> SUFFICES ASSUME NEW d \in devices
                 PROVE  LET q == NewRequest("deregister", d, FALSE)
                        IN  /\ q \in Request /\ q.kind = "deregister" /\ q.answer = "none"
                            /\ q.device \in devices
      OBVIOUS
    <2> QED BY DEF NewRequest, Request
  <1>2. requests' = requests \cup new
    BY DEF SendDismissals, Send
  <1>3. requests' \in SUBSET Request /\ Pending("register")' = Pending("register")
    <2> HIDE DEF new
    <2>1. \A q \in new : q.kind # "register"
      BY <1>1
    <2> QED BY <1>1, <1>2, <2>1 DEF Inv, TypeOK, Pending
  <1>4. TypeOK'
    BY <1>3 DEF Inv, TypeOK, SendDismissals, local, flags, past
  <1>5. ProcessIsExact'
    BY <1>3, SamePending DEF Inv, SendDismissals
  <1> QED BY <1>4, <1>5 DEF Inv

LEMMA DismissedDevices ==
  ASSUME Inv
  PROVE  /\ DeRegisterCurrentDevice =>
              \E devices \in SUBSET Device : SendDismissals(devices)
         /\ \A list \in SUBSET server, except \in BOOLEAN :
              DeRegisterAllDevices(list, except) =>
                 \E devices \in SUBSET Device : SendDismissals(devices)
  <1>1. ASSUME DeRegisterCurrentDevice
        PROVE  \E devices \in SUBSET Device : SendDismissals(devices)
    <2>1. {localUser} \in SUBSET Device
      BY <1>1, DeviceType DEF DeRegisterCurrentDevice, Inv, TypeOK
    <2> QED BY <1>1, <2>1 DEF DeRegisterCurrentDevice
  <1>2. ASSUME NEW list \in SUBSET server, NEW except \in BOOLEAN,
               DeRegisterAllDevices(list, except)
        PROVE  \E devices \in SUBSET Device : SendDismissals(devices)
    <2>1. list \in SUBSET Device /\ list \ {localUser} \in SUBSET Device
      BY DEF Inv, TypeOK
    <2>2. SendDismissals(list) \/ SendDismissals(list \ {localUser})
      BY <1>2 DEF DeRegisterAllDevices
    <2> QED BY <2>1, <2>2
  <1> QED BY <1>1, <1>2

LEMMA ServerStep ==
  ASSUME Inv, NEW r \in requests, ServerHandles(r)
  PROVE  Inv'
  <1>1. r \in Request /\ r.device \in Device
    BY DEF Inv, TypeOK, Request
  <1>2. PICK a \in Answer : requests' = (requests \ {r}) \cup {[r EXCEPT !.answer = a]}
    BY AnswerType DEF ServerHandles
  <1> DEFINE q == [r EXCEPT !.answer = a]
  <1>3. q \in Request /\ q.kind = r.kind /\ q.live = r.live
    BY <1>1, ChangedRequest
  <1>4. requests' = (requests \ {r}) \cup {q}
    BY <1>2
  <1> HIDE DEF q
  <1>5. server' \in SUBSET Device
    BY <1>1 DEF ServerHandles, Inv, TypeOK
  <1>6. TypeOK'
    BY <1>3, <1>4, <1>5 DEF Inv, TypeOK, ServerHandles, local, flags, past
  <1>7. ProcessIsExact'
    <2>1. CASE r \in Pending("register")
      <3>1. Pending("register") = {r}
        BY <2>1 DEF Inv, ProcessIsExact
      <3>2. Pending("register")' = {q}
        BY <1>3, <1>4, <2>1, <3>1 DEF Pending
      <3> QED BY <3>1, <3>2 DEF Inv, ProcessIsExact, ServerHandles
    <2>2. CASE r \notin Pending("register")
      <3>1. Pending("register")' = Pending("register")
        BY <1>3, <1>4, <2>2 DEF Pending
      <3> QED BY <3>1, SamePending DEF Inv, ServerHandles
    <2> QED BY <2>1, <2>2
  <1> QED BY <1>6, <1>7 DEF Inv

LEMMA LoseStep ==
  ASSUME Inv, NEW r \in requests, Lose(r)
  PROVE  Inv'
  <1>1. Pending("register")' = Pending("register")
    BY DEF Lose, Pending
  <1>2. TypeOK'
    BY DEF Inv, TypeOK, Lose, local, flags, past
  <1> QED BY <1>1, <1>2, SamePending DEF Inv, Lose

(* The first line of the completion block ends the only registration. *)
LEMMA RegisterReplyStep ==
  ASSUME Inv, NEW r \in requests, NEW answer \in Answer, RegisterReply(r, answer)
  PROVE  Inv'
  <1>1. r \in Request /\ Replied(r) /\ r \in Pending("register")
    BY DEF Inv, TypeOK, RegisterReply
  <1>2. requests' \in SUBSET Request /\ Pending("register")' = Pending("register") \ {r}
    BY <1>1, RepliedType DEF Inv, TypeOK
  <1>3. replying' \in SUBSET Request
    <2>1. [r EXCEPT !.answer = answer] \in Request
      BY <1>1, ChangedRequest
    <2>2. replying' = replying \cup {[r EXCEPT !.answer = answer]}
      BY DEF RegisterReply
    <2> QED BY <2>1, <2>2 DEF Inv, TypeOK
  <1>4. TypeOK'
    BY <1>2, <1>3 DEF Inv, TypeOK, RegisterReply, local, flags, past
  <1>5. Pending("register") = {r}
    BY <1>1 DEF Inv, ProcessIsExact
  <1>6. ProcessIsExact'
    BY <1>2, <1>5 DEF ProcessIsExact, RegisterReply
  <1> QED BY <1>4, <1>6 DEF Inv

LEMMA RecordStep ==
  ASSUME Inv, NEW r \in replying, RecordReply(r)
  PROVE  Inv'
  <1>1. r.sendPreKeys \in BOOLEAN
    BY DEF Inv, TypeOK, Request
  <1>2. FlagsType'
    BY <1>1, FlagsAreFlags DEF RecordReply, NotePreKeys, Inv, FlagsType, flags
  <1>3. TypeOK'
    BY <1>2 DEF Inv, TypeOK, RecordReply, FlagsType, NotePreKeys, Owed, local
  <1>4. ProcessIsExact'
    BY SamePending, SameRequests DEF Inv, RecordReply
  <1> QED BY <1>3, <1>4 DEF Inv

LEMMA DismissalReplyStep ==
  ASSUME Inv, NEW r \in requests, NEW answer \in Answer, DeRegisterReply(r, answer)
  PROVE  Inv'
  <1>1. Replied(r) /\ r.kind = "deregister"
    BY DEF DeRegisterReply, Pending
  <1>2. requests' \in SUBSET Request /\ Pending("register")' = Pending("register") \ {r}
    BY <1>1, RepliedType DEF Inv, TypeOK
  <1>3. Pending("register")' = Pending("register")
    BY <1>1, <1>2 DEF Pending
  <1>4. FlagsType'
    BY FlagsAreFlags DEF DeRegisterReply, Inv, FlagsType
  <1>5. TypeOK'
    BY <1>2, <1>4 DEF Inv, TypeOK, DeRegisterReply, FlagsType, local, past
  <1> QED BY <1>3, <1>5, SamePending DEF Inv, DeRegisterReply

LEMMA ShutStep ==
  ASSUME Inv, Shut \/ ShutOn
  PROVE  Inv'
  <1>1. /\ keys' \in 0..MaxDevices
        /\ localUser' \in 0..MaxDevices
        /\ shutting' \in ShutStage
        /\ crossed' \in BOOLEAN /\ cut' \in BOOLEAN /\ owed' \in Owed
    BY DeviceType DEF Inv, TypeOK, Shut, ShutOn, ShutPreKeysDue, ShutRegistered, ShutRest,
                      ShutStage, Owed, past
  <1>2. FlagsType'
    BY FlagsAreFlags DEF Inv, FlagsType, Shut, ShutOn, ShutPreKeysDue, ShutRegistered,
                         ShutRest, flags
  <1>3. UNCHANGED <<generated, registrationProcess, reRegister, net, dismissed>>
    BY DEF Shut, ShutOn, ShutPreKeysDue, ShutRegistered, ShutRest, past
  <1>4. TypeOK'
    BY <1>1, <1>2, <1>3 DEF Inv, TypeOK, FlagsType, net
  <1>5. ProcessIsExact'
    BY <1>3, SamePending, SameRequests DEF Inv, net
  <1> QED BY <1>4, <1>5 DEF Inv

(* What a restart leaves of the requests nobody waits for. *)
LEMMA RestartRequests ==
  ASSUME Inv, Restart
  PROVE  \A q \in requests' : /\ q \in Request /\ ~q.live /\ q.answer = "none"
                              /\ \E r \in requests : r.kind = q.kind /\ r.device = q.device
  <1> SUFFICES ASSUME NEW q \in requests'
               PROVE  /\ q \in Request /\ ~q.live /\ q.answer = "none"
                      /\ \E r \in requests : r.kind = q.kind /\ r.device = q.device
    OBVIOUS
  <1>1. PICK r \in requests : r.answer = "none" /\ q = [r EXCEPT !.live = FALSE]
    BY DEF Restart
  <1>2. r \in Request /\ r.answer \in Answer
    BY AnswerType DEF Inv, TypeOK
  <1> QED BY <1>1, <1>2, ChangedRequest

LEMMA RestartStep ==
  ASSUME Inv, Restart
  PROVE  Inv'
  <1>1. requests' \in SUBSET Request /\ Pending("register")' = {}
    BY RestartRequests DEF Pending
  <1>2. reRegister' \in [at : {"outside", "register", "clear"}, sendPreKeys : BOOLEAN]
    BY DEF Restart, Outside
  <1>3. TypeOK'
    BY <1>1, <1>2, DeviceType DEF Inv, TypeOK, Restart, ShutStage, flags
  <1>4. ProcessIsExact'
    BY <1>1 DEF ProcessIsExact, Restart
  <1> QED BY <1>3, <1>4 DEF Inv

LEMMA StutterStep ==
  ASSUME Inv, UNCHANGED vars
  PROVE  Inv'
  <1>1. TypeOK'
    BY DEF Inv, TypeOK, vars, local, flags, net, past
  <1>2. ProcessIsExact'
    BY SamePending, SameRequests DEF Inv, vars, net
  <1> QED BY <1>1, <1>2 DEF Inv

LEMMA NextInv == Inv /\ [Next]_vars => Inv'
  <1> SUFFICES ASSUME Inv, [Next]_vars PROVE Inv'
    OBVIOUS
  <1>1. CASE Use
    <2>1. CASE Initiate
      BY <2>1, InitiateStep
    <2>2. CASE \E send \in BOOLEAN : Register(send)
      BY <2>2, RegisterStep
    <2>3. CASE ReRegister \/ ReRegisterCall \/ ReRegisterReturn
      BY <2>3, ReRegisterStep
    <2>4. CASE DeRegisterCurrentDevice
      BY <2>4, DismissedDevices, DismissalsStep
    <2>5. CASE \E list \in SUBSET server \ {{}}, except \in BOOLEAN :
                  DeRegisterAllDevices(list, except)
      BY <2>5, DismissedDevices, DismissalsStep
    <2>6. CASE \E r \in requests : ServerHandles(r) \/ Lose(r)
      BY <2>6, ServerStep, LoseStep
    <2>7. CASE RegistrationReply
      BY <2>7, RegisterReplyStep DEF RegistrationReply
    <2>8. CASE DismissalReply
      BY <2>8, DismissalReplyStep DEF DismissalReply
    <2>9. CASE RecordedReply
      BY <2>9, RecordStep DEF RecordedReply
    <2> QED BY <1>1, <2>1, <2>2, <2>3, <2>4, <2>5, <2>6, <2>7, <2>8, <2>9 DEF Use
  <1>2. CASE Shut \/ ShutOn
    BY <1>2, ShutStep
  <1>3. CASE Restart
    BY <1>3, RestartStep
  <1>4. CASE UNCHANGED vars
    BY <1>4, StutterStep
  <1> QED BY <1>1, <1>2, <1>3, <1>4 DEF Next

(* The types and registrationProcess are inductive together. *)
THEOREM Invariance == Spec => []Inv
  BY InitInv, NextInv, PTL DEF Spec

-----------------------------------------------------------------------------
(* Flags, requests and answers keep their types. *)
THEOREM TypeCorrect == Spec => []TypeOK
  <1>1. Inv => TypeOK
    BY DEF Inv
  <1> QED BY <1>1, Invariance, PTL

(***************************************************************************)
(* registrationProcess is set exactly while the block of one registration  *)
(* is awaited: no call of register is refused for a registration that is   *)
(* over, and no two run at a time.                                         *)
(***************************************************************************)
THEOREM ProcessExact == Spec => []ProcessIsExact
  <1>1. Inv => ProcessIsExact
    BY DEF Inv
  <1> QED BY <1>1, Invariance, PTL

-----------------------------------------------------------------------------
(***************************************************************************)
(* Until shut is called while a registration is awaited, all that are      *)
(* awaited are of the keys there are.  A device that the server has        *)
(* confirmed is one it has, or was asked to remove: as the answer comes    *)
(* later than the request was handled, this is to hold of the answers on   *)
(* their way too.  On its way from the keys to the flag shut leaves        *)
(* answers to keys that are gone; a death there leaves the flag.           *)
(***************************************************************************)
Known == server \cup dismissed

OneUser ==
    /\ shutting # "no" => keys = Nobody /\ reRegister = Outside
    /\ ~crossed /\ ~KeysCleared =>
          /\ registered /\ ~cut => keys # Nobody
          /\ shutting = "no" => localUser \in {Nobody, keys}
          /\ \A r \in requests : r.kind = "register" /\ r.live => r.device = keys
          /\ \A r \in replying : r.device = keys

ConfirmedIsKnown ==
    /\ \A r \in requests : r.kind = "register" /\ r.answer = "success" => r.device \in Known
    /\ \A r \in replying : r.answer = "success" => r.device \in Known
    /\ \A r \in requests : r.kind = "deregister" => r.device \in dismissed

UserInv == Inv /\ OneUser /\ ConfirmedIsKnown /\ RegisteredIsTrue

LEMMA UserInit == Init => UserInv
  <1> SUFFICES ASSUME Init PROVE UserInv
    OBVIOUS
  <1>1. OneUser /\ ConfirmedIsKnown /\ RegisteredIsTrue
    BY DEF Init, OneUser, KeysCleared, ConfirmedIsKnown, RegisteredIsTrue, RegisteredAtServer
  <1> QED BY <1>1, InitInv DEF UserInv

(* The keys are generated before anything is sent. *)
LEMMA UserInitiate ==
  ASSUME UserInv, Initiate
  PROVE  OneUser' /\ ConfirmedIsKnown' /\ RegisteredIsTrue'
  <1>1. /\ UNCHANGED <<registered, requests, replying, server, dismissed, crossed, cut>>
        /\ localUser' = keys'
        /\ shutting = "no" /\ shutting' = "no"
        /\ ~KeysCleared
    BY DEF Initiate, MainIsFree, KeysCleared, flags, net, past
  <1>2. keys' = keys \/ keys = Nobody
    BY DEF Initiate
  <1>3. ConfirmedIsKnown'
    BY <1>1 DEF UserInv, ConfirmedIsKnown, Known
  <1>4. CASE crossed
    BY <1>1, <1>3, <1>4 DEF OneUser, RegisteredIsTrue
  <1>5. CASE ~crossed /\ keys' = keys
    BY <1>1, <1>3, <1>5 DEF UserInv, OneUser, RegisteredIsTrue, RegisteredAtServer
  <1>6. CASE ~crossed /\ keys = Nobody
    <2>1. registered => cut
      BY <1>1, <1>6 DEF UserInv, OneUser
    <2>2. \A r \in requests \cup replying : r.device # Nobody
      BY DeviceType DEF UserInv, Inv, TypeOK, Request
    <2>3. replying = {} /\ \A r \in requests : ~(r.kind = "register" /\ r.live)
      BY <1>1, <1>6, <2>2 DEF UserInv, OneUser
    <2> QED BY <1>1, <1>3, <2>1, <2>3 DEF OneUser, RegisteredIsTrue, RegisteredAtServer
  <1> QED BY <1>2, <1>4, <1>5, <1>6

LEMMA UserSend ==
  ASSUME UserInv, NEW send \in BOOLEAN, CanRegister, SendRegistration(send),
         shutting = "no",
         UNCHANGED <<local, flags, replying, server, dismissed, crossed, cut>>
  PROVE  OneUser' /\ ConfirmedIsKnown' /\ RegisteredIsTrue'
  <1> DEFINE new == NewRequest("register", localUser, send)
  <1>1. ~crossed => localUser = keys
    BY DEF UserInv, OneUser, CanRegister, KeysCleared
  <1>2. new.kind = "register" /\ new.device = localUser /\ new.answer = "none"
    BY DEF NewRequest
  <1>3. requests' = requests \cup {new}
    BY DEF SendRegistration, Send
  <1> HIDE DEF new
  <1>4. OneUser'
    BY <1>1, <1>2, <1>3 DEF UserInv, OneUser, KeysCleared, local, flags
  <1>5. ConfirmedIsKnown'
    BY <1>2, <1>3 DEF UserInv, ConfirmedIsKnown, Known
  <1>6. RegisteredIsTrue'
    BY DEF UserInv, RegisteredIsTrue, RegisteredAtServer, KeysCleared, local, flags
  <1> QED BY <1>4, <1>5, <1>6

LEMMA UserReRegister ==
  ASSUME UserInv, ReRegister \/ ReRegisterCall \/ ReRegisterReturn
  PROVE  OneUser' /\ ConfirmedIsKnown' /\ RegisteredIsTrue'
  <1>1. CASE ReRegisterCall /\ CanRegister
    <2>1. reRegister.sendPreKeys \in BOOLEAN
      BY DEF UserInv, Inv, TypeOK
    <2>2. shutting = "no"
      BY <1>1 DEF UserInv, OneUser, ReRegisterCall, Outside
    <2> QED BY <1>1, <2>1, <2>2, UserSend DEF ReRegisterCall
  <1>2. CASE ~(ReRegisterCall /\ CanRegister)
    <2>1. /\ UNCHANGED <<keys, localUser, shutting, requests, replying, server, dismissed, crossed>>
          /\ registered' /\ ~cut' => registered /\ ~cut
          /\ shutting = "no"
      BY <1>2 DEF ReRegister, ReRegisterCall, ReRegisterReturn, MainIsFree, Outside, UserInv,
                  OneUser, local, flags, net, past
    <2> QED BY <2>1 DEF UserInv, OneUser, KeysCleared, ConfirmedIsKnown, Known, RegisteredIsTrue,
                        RegisteredAtServer
  <1> QED BY <1>1, <1>2

LEMMA UserDismissals ==
  ASSUME UserInv, NEW devices \in SUBSET Device, SendDismissals(devices)
  PROVE  OneUser' /\ ConfirmedIsKnown' /\ RegisteredIsTrue'
  <1> DEFINE new == {NewRequest("deregister", d, FALSE) : d \in devices}
  <1>1. \A q \in new : q.kind = "deregister" /\ q.device \in devices
    BY DEF NewRequest
  <1>2. /\ requests' = requests \cup new
        /\ dismissed' = dismissed \cup devices
        /\ UNCHANGED <<local, flags, reRegister, replying, server, crossed, cut>>
    BY DEF SendDismissals, Send
  <1>3. \A q \in new : q.kind # "register"
    BY <1>1
  <1> HIDE DEF new
  <1>4. OneUser'
    BY <1>2, <1>3 DEF UserInv, OneUser, KeysCleared, local, flags
  <1>5. ConfirmedIsKnown'
    BY <1>1, <1>2, <1>3 DEF UserInv, ConfirmedIsKnown, Known
  <1>6. RegisteredIsTrue'
    BY <1>2 DEF UserInv, RegisteredIsTrue, RegisteredAtServer, KeysCleared, local, flags
  <1> QED BY <1>4, <1>5, <1>6

(* The server confirms what it has just stored. *)
LEMMA UserServer ==
  ASSUME UserInv, NEW r \in requests, ServerHandles(r)
  PROVE  OneUser' /\ ConfirmedIsKnown' /\ RegisteredIsTrue'
  <1>1. r \in Request
    BY DEF UserInv, Inv, TypeOK
  <1>2. PICK a \in Answer :
           /\ requests' = (requests \ {r}) \cup {[r EXCEPT !.answer = a]}
           /\ \/ r.kind = "register" /\ server' = server \cup {r.device}
              \/ r.kind = "register" /\ a = "refused" /\ server' = server
              \/ r.kind = "deregister" /\ server' = server \ {r.device}
    BY AnswerType DEF ServerHandles
  <1> DEFINE q == [r EXCEPT !.answer = a]
  <1>3. q.kind = r.kind /\ q.device = r.device /\ q.answer = a /\ q.live = r.live
    BY <1>1, ChangedRequest
  <1>4. requests' = (requests \ {r}) \cup {q}
    BY <1>2
  <1> HIDE DEF q
  <1>5. UNCHANGED <<local, flags, reRegister, replying, dismissed, crossed, cut>>
    BY DEF ServerHandles, past
  <1>6. Known \subseteq Known'
    BY <1>2, <1>5 DEF Known, UserInv, ConfirmedIsKnown
  <1>7. OneUser'
    BY <1>3, <1>4, <1>5 DEF UserInv, OneUser, KeysCleared, local, flags
  <1>8. RegisteredIsTrue'
    BY <1>5, <1>6 DEF UserInv, RegisteredIsTrue, RegisteredAtServer, KeysCleared, Known, local, flags
  <1>9. q.kind = "register" /\ q.answer = "success" => q.device \in Known'
    BY <1>2, <1>3 DEF Known
  <1>10. ConfirmedIsKnown'
    BY <1>3, <1>4, <1>5, <1>6, <1>9 DEF UserInv, ConfirmedIsKnown
  <1> QED BY <1>7, <1>8, <1>10

LEMMA UserLose ==
  ASSUME UserInv, NEW r \in requests, Lose(r)
  PROVE  OneUser' /\ ConfirmedIsKnown' /\ RegisteredIsTrue'
  <1>1. /\ requests' \subseteq requests
        /\ UNCHANGED <<keys, localUser, shutting, reRegister, registered, replying, server,
                       dismissed, crossed, cut>>
    BY DEF Lose, local, flags, past
  <1> QED
    BY <1>1 DEF UserInv, OneUser, KeysCleared, ConfirmedIsKnown, RegisteredIsTrue, RegisteredAtServer, Known

(* What the block of a request leaves behind is about the same device. *)
LEMMA RepliedRequests ==
  ASSUME UserInv, NEW r \in requests, Replied(r)
  PROVE  /\ \A p \in requests' : p \in requests \/ ~p.live
         /\ \A p \in requests' : \E o \in requests :
               p.kind = o.kind /\ p.device = o.device /\ p.answer = o.answer
  BY RepliedType DEF UserInv, Inv, TypeOK

LEMMA UserReply ==
  ASSUME UserInv, NEW r \in requests, NEW answer \in Answer, RegisterReply(r, answer)
  PROVE  OneUser' /\ ConfirmedIsKnown' /\ RegisteredIsTrue'
  <1> DEFINE q == [r EXCEPT !.answer = answer]
  <1>1. r \in Request /\ r.kind = "register" /\ r.live /\ Replied(r)
    BY DEF RegisterReply, UserInv, Inv, TypeOK, Pending
  <1>2. q.device = r.device /\ q.answer = answer
    BY <1>1, ChangedRequest
  <1>3. /\ replying' = replying \cup {q}
        /\ answer \in {"none", r.answer}
        /\ UNCHANGED <<local, flags, reRegister, server, dismissed, crossed, cut>>
    BY DEF RegisterReply, past
  <1> HIDE DEF q
  <1>4. /\ \A p \in requests' : p \in requests \/ ~p.live
        /\ \A p \in requests' : \E o \in requests :
              p.kind = o.kind /\ p.device = o.device /\ p.answer = o.answer
    BY <1>1, RepliedRequests
  <1>5. OneUser'
    BY <1>1, <1>2, <1>3, <1>4 DEF UserInv, OneUser, KeysCleared, local, flags
  <1>6. q.answer = "success" => q.device \in Known
    BY <1>1, <1>2, <1>3 DEF UserInv, ConfirmedIsKnown
  <1>7. ConfirmedIsKnown'
    BY <1>3, <1>4, <1>6 DEF UserInv, ConfirmedIsKnown, Known
  <1>8. RegisteredIsTrue'
    BY <1>3 DEF UserInv, RegisteredIsTrue, RegisteredAtServer, KeysCleared, local, flags
  <1> QED BY <1>5, <1>7, <1>8

LEMMA UserRecord ==
  ASSUME UserInv, NEW r \in replying, RecordReply(r)
  PROVE  OneUser' /\ ConfirmedIsKnown' /\ RegisteredIsTrue'
  <1>1. r.device # Nobody /\ (~crossed /\ ~KeysCleared => r.device = keys)
    BY DeviceType DEF UserInv, OneUser, Inv, TypeOK, Request
  <1>2. /\ replying' = replying \ {r}
        /\ UNCHANGED <<keys, localUser, shutting, reRegister, requests, server, dismissed,
                       crossed, cut>>
        /\ registered' => registered \/ r.answer = "success"
    BY DEF RecordReply, local, flags
  <1>3. r.answer = "success" => r.device \in Known
    BY <1>1 DEF UserInv, ConfirmedIsKnown
  <1>4. OneUser' /\ ConfirmedIsKnown'
    BY <1>1, <1>2 DEF UserInv, OneUser, KeysCleared, ConfirmedIsKnown, Known
  <1>5. RegisteredIsTrue'
    BY <1>1, <1>2, <1>3 DEF UserInv, RegisteredIsTrue, RegisteredAtServer, KeysCleared, Known
  <1> QED BY <1>4, <1>5

LEMMA UserDismissalReply ==
  ASSUME UserInv, NEW r \in requests, NEW answer \in Answer, DeRegisterReply(r, answer)
  PROVE  OneUser' /\ ConfirmedIsKnown' /\ RegisteredIsTrue'
  <1>1. /\ Replied(r)
        /\ registered' => registered
        /\ registered' /\ ~cut' => ~cut
        /\ UNCHANGED <<keys, localUser, shutting, reRegister, replying, server, dismissed, crossed>>
    BY DEF DeRegisterReply, local
  <1>2. /\ \A p \in requests' : p \in requests \/ ~p.live
        /\ \A p \in requests' : \E o \in requests :
              p.kind = o.kind /\ p.device = o.device /\ p.answer = o.answer
    BY <1>1, RepliedRequests
  <1>3. OneUser' /\ RegisteredIsTrue'
    BY <1>1, <1>2 DEF UserInv, OneUser, KeysCleared, RegisteredIsTrue, RegisteredAtServer
  <1>4. ConfirmedIsKnown'
    BY <1>1, <1>2 DEF UserInv, ConfirmedIsKnown, Known
  <1> QED BY <1>3, <1>4

LEMMA UserRestart ==
  ASSUME UserInv, Restart
  PROVE  OneUser' /\ ConfirmedIsKnown' /\ RegisteredIsTrue'
  <1>1. \A p \in requests' : /\ p.answer = "none" /\ ~p.live
                             /\ \E o \in requests : p.kind = o.kind /\ p.device = o.device
    BY RestartRequests DEF UserInv
  <1>2. /\ localUser' = Nobody /\ replying' = {} /\ shutting' = "no"
        /\ registered' /\ ~cut' => ~cut /\ ~KeysCleared
        /\ UNCHANGED <<keys, registered, server, dismissed, crossed>>
    BY DEF Restart, flags
  <1>3. OneUser' /\ RegisteredIsTrue'
    BY <1>1, <1>2 DEF UserInv, OneUser, RegisteredIsTrue, RegisteredAtServer
  <1>4. ConfirmedIsKnown'
    BY <1>1, <1>2 DEF UserInv, ConfirmedIsKnown, Known
  <1> QED BY <1>3, <1>4

(* A shut that nothing waits across leaves nobody registered. *)
LEMMA UserShut ==
  ASSUME UserInv, Shut \/ ShutOn
  PROVE  OneUser' /\ ConfirmedIsKnown' /\ RegisteredIsTrue'
  <1>1. UNCHANGED <<requests, replying, server, dismissed>>
    BY DEF Shut, ShutOn, ShutPreKeysDue, ShutRegistered, ShutRest, net, past
  <1>2. ConfirmedIsKnown'
    BY <1>1 DEF UserInv, ConfirmedIsKnown, Known
  <1>3. keys' = Nobody /\ reRegister' = Outside
    BY DEF UserInv, OneUser, Shut, ShutOn, ShutPreKeysDue, ShutRegistered, ShutRest, MainIsFree
  <1>4. CASE Shut \/ (ShutOn /\ ShutPreKeysDue)
    <2>1. KeysCleared'
      BY <1>4 DEF Shut, ShutPreKeysDue, KeysCleared
    <2> QED BY <1>2, <1>3, <2>1 DEF OneUser, RegisteredIsTrue, RegisteredAtServer
  <1>5. CASE ShutOn /\ ShutRegistered
    <2>1. /\ ~registered' /\ shutting' = "rest"
          /\ ~crossed' => Pending("register") \cup replying = {}
      BY <1>5 DEF ShutRegistered
    <2> QED
      BY <1>1, <1>2, <1>3, <2>1 DEF OneUser, Pending, RegisteredIsTrue, RegisteredAtServer
  <1>6. CASE ShutOn /\ ShutRest
    <2>1. /\ localUser' = Nobody /\ shutting' = "no" /\ ~KeysCleared
          /\ UNCHANGED <<keys, registered, crossed, cut>>
      BY <1>6 DEF ShutOn, ShutRest, KeysCleared, past
    <2> QED
      BY <1>1, <1>2, <1>3, <2>1 DEF UserInv, OneUser, RegisteredIsTrue, RegisteredAtServer
  <1> QED BY <1>4, <1>5, <1>6 DEF ShutOn

LEMMA UserNext == UserInv /\ [Next]_vars => UserInv'
  <1> SUFFICES ASSUME UserInv, [Next]_vars
               PROVE  Inv' /\ OneUser' /\ ConfirmedIsKnown' /\ RegisteredIsTrue'
    BY DEF UserInv
  <1>1. Inv'
    BY NextInv DEF UserInv
  <1>2. CASE Use
    <2>1. CASE Initiate
      BY <1>1, <2>1, UserInitiate
    <2>2. CASE \E send \in BOOLEAN : Register(send)
      BY <1>1, <2>2, UserSend DEF Register, MainIsFree
    <2>3. CASE ReRegister \/ ReRegisterCall \/ ReRegisterReturn
      BY <1>1, <2>3, UserReRegister
    <2>4. CASE DeRegisterCurrentDevice
      BY <1>1, <2>4, DismissedDevices, UserDismissals DEF UserInv
    <2>5. CASE \E list \in SUBSET server \ {{}}, except \in BOOLEAN :
                  DeRegisterAllDevices(list, except)
      BY <1>1, <2>5, DismissedDevices, UserDismissals DEF UserInv
    <2>6. CASE \E r \in requests : ServerHandles(r) \/ Lose(r)
      BY <1>1, <2>6, UserServer, UserLose
    <2>7. CASE RegistrationReply
      BY <1>1, <2>7, UserReply DEF RegistrationReply
    <2>8. CASE DismissalReply
      BY <1>1, <2>8, UserDismissalReply DEF DismissalReply
    <2>9. CASE RecordedReply
      BY <1>1, <2>9, UserRecord DEF RecordedReply
    <2> QED BY <1>2, <2>1, <2>2, <2>3, <2>4, <2>5, <2>6, <2>7, <2>8, <2>9 DEF Use
  <1>3. CASE Restart
    BY <1>1, <1>3, UserRestart
  <1>4. CASE Shut \/ ShutOn
    BY <1>1, <1>4, UserShut
  <1>5. CASE UNCHANGED vars
    BY <1>1, <1>5 DEF vars, local, flags, net, past, UserInv, OneUser, ConfirmedIsKnown,
                      KeysCleared, RegisteredIsTrue, RegisteredAtServer, Known
  <1> QED BY <1>2, <1>3, <1>4, <1>5 DEF Next

(***************************************************************************)
(* Until shut clears the flag while a registration is awaited, or the      *)
(* process dies between shut's clearing of the keys and of the flag,       *)
(* didDeviceRegistered says the truth: the flag is set only for keys the   *)
(* server has, or was asked to remove.                                     *)
(***************************************************************************)
THEOREM RegisteredTruly == Spec => []RegisteredIsTrue
  <1>1. UserInv => RegisteredIsTrue
    BY DEF UserInv
  <1> QED BY <1>1, UserInit, UserNext, PTL DEF Spec

(***************************************************************************)
(* An application that calls shut only when no registration is awaited,    *)
(* and a process that survives the way from the keys to the flag.          *)
(***************************************************************************)
Awaited    == Pending("register") \cup replying
CalmShut   == Shut => Awaited = {}
WholeShut  == Restart => ~KeysCleared

(* Nothing is registered while shut is on its way, and so neither history  *)
(* comes true.                                                             *)
Calm == ~crossed /\ ~cut /\ (KeysCleared => Awaited = {})

(* What the server does with a request makes nothing be awaited. *)
LEMMA CalmServer ==
  ASSUME UserInv, Calm, NEW r \in requests, ServerHandles(r)
  PROVE  Calm'
  <1>1. r \in Request
    BY DEF UserInv, Inv, TypeOK
  <1>2. PICK a \in Answer : requests' = (requests \ {r}) \cup {[r EXCEPT !.answer = a]}
    BY AnswerType DEF ServerHandles
  <1> DEFINE q == [r EXCEPT !.answer = a]
  <1>3. q.kind = r.kind /\ q.live = r.live
    BY <1>1, ChangedRequest
  <1>4. requests' = (requests \ {r}) \cup {q}
    BY <1>2
  <1> HIDE DEF q
  <1>5. UNCHANGED <<crossed, cut, shutting, replying>>
    BY DEF ServerHandles, local, past
  <1>6. Pending("register") = {} => Pending("register")' = {}
    BY <1>3, <1>4 DEF Pending
  <1> QED BY <1>5, <1>6 DEF Calm, KeysCleared, Awaited

LEMMA CalmStep ==
  ASSUME UserInv, Calm, [Next]_vars, [CalmShut]_vars, [WholeShut]_vars
  PROVE  Calm'
  <1>1. ASSUME UNCHANGED <<crossed, cut, shutting, requests, replying>> PROVE Calm'
    BY <1>1 DEF Calm, KeysCleared, Awaited, Pending
  <1>2. CASE UNCHANGED vars
    BY <1>1, <1>2 DEF vars, local, net, past
  <1>3. CASE Shut /\ ~UNCHANGED vars
    <2>1. Awaited = {} /\ UNCHANGED <<crossed, cut, requests, replying>>
      BY <1>3 DEF CalmShut, Shut, net, past
    <2> QED BY <2>1 DEF Calm, Awaited, Pending
  <1>4. CASE Restart /\ ~UNCHANGED vars
    <2>1. ~KeysCleared
      BY <1>4 DEF WholeShut
    <2>2. ~crossed' /\ ~cut' /\ shutting' = "no"
      BY <1>4, <2>1 DEF Restart, Calm
    <2> QED BY <2>2 DEF Calm, KeysCleared
  <1>5. CASE ShutOn
    <2>1. UNCHANGED <<requests, replying>>
      BY <1>5 DEF ShutOn, net
    <2>2. CASE ShutPreKeysDue
      BY <2>1, <2>2 DEF ShutPreKeysDue, Calm, KeysCleared, Awaited, Pending
    <2>3. CASE ShutRegistered
      BY <2>1, <2>3 DEF ShutRegistered, Calm, KeysCleared, Awaited
    <2>4. CASE ShutRest
      BY <2>1, <2>4 DEF ShutRest, Calm, KeysCleared, past
    <2> QED BY <1>5, <2>2, <2>3, <2>4 DEF ShutOn
  <1>6. CASE Use
    <2>1. CASE Initiate
      BY <1>1, <2>1 DEF Initiate, net, past
    <2>2. ASSUME NEW send \in BOOLEAN, Register(send) PROVE Calm'
      BY <2>2 DEF Register, MainIsFree, KeysCleared, Calm, local
    <2>3. CASE ReRegister \/ ReRegisterCall \/ ReRegisterReturn
      <3>1. ~crossed' /\ ~cut' /\ shutting' = "no"
        BY <2>3 DEF ReRegister, ReRegisterCall, ReRegisterReturn, MainIsFree, Outside, Calm,
                    UserInv, OneUser, local, past
      <3> QED BY <3>1 DEF Calm, KeysCleared
    <2>4. CASE \/ DeRegisterCurrentDevice
               \/ \E list \in SUBSET server \ {{}}, except \in BOOLEAN :
                     DeRegisterAllDevices(list, except)
      <3>1. shutting' = "no" /\ crossed' = crossed /\ cut' = cut
        BY <2>4 DEF DeRegisterCurrentDevice, DeRegisterAllDevices, SendDismissals, MainIsFree, local
      <3> QED BY <3>1 DEF Calm, KeysCleared
    <2>5. ASSUME NEW r \in requests, ServerHandles(r) PROVE Calm'
      BY <2>5, CalmServer
    <2>6. ASSUME NEW r \in requests, Lose(r) PROVE Calm'
      BY <2>6 DEF Lose, Calm, KeysCleared, Awaited, Pending, local, past
    <2>7. CASE RegistrationReply
      <3>1. Awaited # {} /\ UNCHANGED <<crossed, cut, shutting>>
        BY <2>7 DEF RegistrationReply, RegisterReply, Awaited, local, past
      <3> QED BY <3>1 DEF Calm, KeysCleared
    <2>8. ASSUME NEW r \in requests, NEW answer \in Answer, DeRegisterReply(r, answer)
          PROVE  Calm'
      <3>1. UNCHANGED <<shutting, crossed, replying>> /\ ~cut'
        BY <2>8 DEF DeRegisterReply, Calm, local
      <3>2. Pending("register")' \subseteq Pending("register")
        BY <2>8, RepliedType DEF DeRegisterReply, UserInv, Inv, TypeOK
      <3> QED BY <3>1, <3>2 DEF Calm, KeysCleared, Awaited
    <2>9. ASSUME NEW r \in replying, RecordReply(r) PROVE Calm'
      BY <2>9 DEF RecordReply, Calm, KeysCleared, Awaited, local
    <2> QED BY <1>6, <2>1, <2>2, <2>3, <2>4, <2>5, <2>6, <2>7, <2>8, <2>9
            DEF Use, DismissalReply, RecordedReply
  <1> QED BY <1>2, <1>3, <1>4, <1>5, <1>6 DEF Next

(***************************************************************************)
(* didDeviceRegistered keeps its promise to an application that calls shut *)
(* only when no registration is awaited, if the process does not die       *)
(* between shut's clearing of the keys and of the flag.  Nothing else      *)
(* breaks it: no lost, late or refused request, no other death and no      *)
(* deregistration.                                                         *)
(***************************************************************************)
THEOREM RegisteredUnlessCrossed ==
  Spec /\ [][CalmShut]_vars /\ [][WholeShut]_vars => []RegisteredAtServer
  <1>1. Init => Calm
    BY DEF Init, Calm, KeysCleared
  <1>2. RegisteredIsTrue /\ Calm => RegisteredAtServer
    BY DEF RegisteredIsTrue, Calm
  <1> QED BY <1>1, <1>2, CalmStep, UserInit, UserNext, RegisteredTruly, PTL DEF Spec

-----------------------------------------------------------------------------
(***************************************************************************)
(* The note of the prekeys that are due, between the reading and the       *)
(* clearing of it: reRegister has read it when they are owed, and they are *)
(* no longer owed when it has called register.                             *)
(***************************************************************************)
NoteInv ==
    /\ NoteIsKept
    /\ reRegister.at = "register" /\ owed = "yes" => reRegister.sendPreKeys
    /\ reRegister.at = "clear" => owed # "yes"

LEMMA NoteNext == Inv /\ NoteInv /\ [Next]_vars => NoteInv'
  <1> SUFFICES ASSUME Inv, NoteInv, [Next]_vars PROVE NoteInv'
    OBVIOUS
  <1>0. /\ reRegister \in [at : {"outside", "register", "clear"}, sendPreKeys : BOOLEAN]
        /\ Outside.at = "outside"
    BY DEF Inv, TypeOK, Outside
  <1>1. ASSUME UNCHANGED <<preKeysDue, owed, reRegister>> PROVE NoteInv'
    BY <1>1 DEF NoteInv, NoteIsKept
  <1>2. CASE Initiate
    BY <1>1, <1>2 DEF Initiate, flags, past
  <1>3. ASSUME NEW send \in BOOLEAN, Register(send) PROVE NoteInv'
    <2>1. preKeysDue' = preKeysDue /\ reRegister' = reRegister /\ owed' \in {"no", owed}
      BY <1>3 DEF Register, SendRegistration, flags
    <2> QED BY <2>1 DEF NoteInv, NoteIsKept
  <1>4. CASE ReRegister
    <2>1. /\ reRegister'.at = "register" /\ reRegister'.sendPreKeys = preKeysDue
          /\ preKeysDue' = preKeysDue /\ owed' = owed
      BY <1>4 DEF ReRegister, past
    <2> QED BY <2>1 DEF NoteInv, NoteIsKept
  <1>5. CASE ReRegisterCall
    <2>1. /\ reRegister.at = "register" /\ reRegister'.at = "clear"
          /\ preKeysDue' = preKeysDue
      BY <1>0, <1>5 DEF ReRegisterCall, flags
    <2>2. owed' # "yes"
      BY <1>5, <2>1 DEF ReRegisterCall, SendRegistration, NoteInv
    <2> QED BY <2>1, <2>2 DEF NoteInv, NoteIsKept
  <1>6. CASE ReRegisterReturn
    <2>1. owed' # "yes"
      BY <1>6 DEF ReRegisterReturn, past, NoteInv
    <2> QED BY <2>1 DEF NoteInv, NoteIsKept
  <1>7. ASSUME NEW devices, SendDismissals(devices) PROVE NoteInv'
    BY <1>1, <1>7 DEF SendDismissals, flags
  <1>8. CASE DeRegisterCurrentDevice
    BY <1>7, <1>8 DEF DeRegisterCurrentDevice
  <1>9. ASSUME NEW list, NEW except, DeRegisterAllDevices(list, except) PROVE NoteInv'
    BY <1>7, <1>9 DEF DeRegisterAllDevices
  <1>10. ASSUME NEW r \in requests, ServerHandles(r) \/ Lose(r) PROVE NoteInv'
    BY <1>1, <1>10 DEF ServerHandles, Lose, flags, past
  <1>11. CASE RegistrationReply
    BY <1>1, <1>11 DEF RegistrationReply, RegisterReply, flags, past
  <1>12. CASE DismissalReply
    BY <1>1, <1>12 DEF DismissalReply, DeRegisterReply, past
  <1>13. ASSUME NEW r \in replying, RecordReply(r) PROVE NoteInv'
    <2>1. reRegister' = reRegister
      BY <1>13 DEF RecordReply
    <2>2. CASE preKeysDue' = preKeysDue /\ owed' = owed
      BY <2>1, <2>2, <1>1
    <2>3. CASE NotePreKeys(r)
      <3>1. CASE r.sendPreKeys
        <4>1. preKeysDue' /\ (owed' = "yes" => reRegister = Outside)
          BY <2>3, <3>1 DEF NotePreKeys
        <4> QED BY <4>1, <2>1, <1>0 DEF NoteInv, NoteIsKept
      <3>2. CASE ~r.sendPreKeys
        <4>1. owed' = owed /\ (preKeysDue => preKeysDue')
          BY <2>3, <3>2 DEF NotePreKeys
        <4> QED BY <4>1, <2>1 DEF NoteInv, NoteIsKept
      <3> QED BY <3>1, <3>2
    <2> QED BY <1>13, <2>2, <2>3 DEF RecordReply, flags
  <1>14. CASE Shut \/ ShutOn
    <2>1. CASE ShutOn /\ ShutPreKeysDue
      BY <2>1 DEF ShutPreKeysDue, NoteInv, NoteIsKept
    <2>2. CASE ~ShutPreKeysDue
      BY <1>1, <1>14, <2>2 DEF Shut, ShutOn, ShutRegistered, ShutRest, flags, past
    <2> QED BY <1>14, <2>1, <2>2 DEF Shut, ShutOn, ShutPreKeysDue, MainIsFree
  <1>15. CASE Restart
    BY <1>0, <1>15 DEF Restart, flags, NoteInv, NoteIsKept
  <1>16. CASE UNCHANGED vars
    BY <1>1, <1>16 DEF vars, flags, past
  <1> QED
    BY <1>2, <1>3, <1>4, <1>5, <1>6, <1>8, <1>9, <1>10, <1>11, <1>12, <1>13, <1>14, <1>15, <1>16
    DEF Next, Use, RecordedReply

(* Prekeys that a failed registration did not send stay noted until a      *)
(* registration is asked to send them, unless reRegister is overtaken by   *)
(* another registration or called without a user.                          *)
THEOREM NoteKept == Spec => []NoteIsKept
  <1>1. Init => NoteInv
    BY DEF Init, NoteInv, NoteIsKept, Outside
  <1>2. NoteInv => NoteIsKept
    BY DEF NoteInv
  <1> QED BY <1>1, <1>2, InitInv, NextInv, NoteNext, PTL DEF Spec

=============================================================================
