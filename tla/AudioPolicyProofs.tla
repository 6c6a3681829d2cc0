------------------------- MODULE AudioPolicyProofs -------------------------
(***************************************************************************)
(* Proofs about AudioPolicy, for any device types and addresses.  Its      *)
(* properties are inductive together, once it is said what holds in the    *)
(* middle of a request too, and why the answers tell all there is to know: *)
(* they give the list of devices, and the requests the bitstream device.   *)
(***************************************************************************)
EXTENDS AudioPolicy, TLAPS

\* GrantedRoutable in the middle of a request as well.
GrantInv ==
    granted # None => mBitstreamDevice = granted /\ Target \in available

\* A bitstream connection that goes on after the base class failed has set the device.
DeviceSet ==
    pc = "device" /\ ForBitstream /\ req.state = "AVAILABLE" =>
        mBitstreamDevice = req.device

\* What was asked for last is the device, unless it is being dealt with.
AskedInv ==
    asked = IF pc = "bitstream" /\ ForBitstream /\ req.state = "AVAILABLE"
            THEN req.device ELSE mBitstreamDevice

ToldInv == told = available

IInv ==
    /\ TypeOK
    /\ AnswerTrue
    /\ GrantInv
    /\ DeviceSet
    /\ AskedInv
    /\ ToldInv

LEMMA InitInv == Init => IInv
  <1> SUFFICES ASSUME Init PROVE IInv
    OBVIOUS
  <1>1. req \in Request /\ req.device = Neither /\ Neither \notin Type
    BY DeviceAssumption DEF Init, NoRequest, Request, State
  <1>2. TypeOK
    BY <1>1 DEF Init, TypeOK
  <1>3. QED
    BY <1>1, <1>2
    DEF Init, IInv, AnswerTrue, GrantInv, DeviceSet, AskedInv, ToldInv

(* The base class leaves a list of devices.                                *)
LEMMA BaseType ==
    ASSUME TypeOK, pc # "idle", BaseSucceeds(req)
    PROVE  available' \subseteq Descriptor
  <1>1. DescriptorOf(req) \in Descriptor
    BY DEF TypeOK, Request, DescriptorOf, Descriptor
  <1>2. QED
    BY <1>1 DEF TypeOK, BaseSucceeds

(* What the history variable is after a request.                           *)
LEMMA GrantedCases ==
    ASSUME NEW ok \in BOOLEAN
    PROVE  LET dropped == [type |-> granted, address |-> BitstreamAddress] IN
           /\ ForBitstream /\ req.state = "AVAILABLE" =>
                 Granted(ok) = IF ok /\ req.address = BitstreamAddress
                               THEN req.device ELSE None
           /\ ~(ForBitstream /\ req.state = "AVAILABLE") =>
                 Granted(ok) = IF /\ ok /\ DescriptorOf(req) = dropped
                                  /\ req.state = "UNAVAILABLE"
                               THEN None ELSE granted
  BY Zenon DEF Granted

(* The history is kept right by whatever the base class did to the list.   *)
LEMMA GrantKept ==
    ASSUME TypeOK, GrantInv, pc # "idle", NEW ok \in BOOLEAN,
           granted' = Granted(ok),
           mBitstreamDevice' = mBitstreamDevice \/ (ForBitstream /\ mBitstreamDevice' = NewDevice),
           ForBitstream /\ req.state = "AVAILABLE" => mBitstreamDevice' = req.device,
           \/ ok /\ (BaseSucceeds(req) \/ (IsAlreadConnect(req) /\ UNCHANGED available))
           \/ ~ok /\ UNCHANGED available
    PROVE  GrantInv' /\ granted' \in Bitstream \cup {None}
  <1> DEFINE d == DescriptorOf(req)
             old == [type |-> granted, address |-> BitstreamAddress]
  <1>1. req.device \in Type /\ req \in Request /\ granted \in Bitstream \cup {None}
    BY DEF TypeOK
  <1>2. CASE ForBitstream /\ req.state = "AVAILABLE"
    <2>1. granted' = IF ok /\ req.address = BitstreamAddress THEN req.device ELSE None
      BY <1>2, GrantedCases
    <2>2. ok => d \in available'
      BY <1>2 DEF BaseSucceeds, IsAlreadConnect
    <2>3. mBitstreamDevice' = req.device /\ req.device \in Bitstream
      BY <1>2 DEF ForBitstream
    <2>4. ok /\ req.address = BitstreamAddress => Target' = d
      BY <2>3 DEF Target, DescriptorOf
    <2>5. QED
      BY <2>1, <2>2, <2>3, <2>4 DEF GrantInv
  <1>3. CASE ~(ForBitstream /\ req.state = "AVAILABLE")
    <2>1. granted' = IF ok /\ d = old /\ req.state = "UNAVAILABLE" THEN None ELSE granted
      BY <1>3, GrantedCases
    <2>2. mBitstreamDevice' = mBitstreamDevice
      BY <1>3 DEF NewDevice
    <2>3. Target' = Target
      BY <2>2 DEF Target
    <2>4. ASSUME granted' # None
          PROVE  granted' = granted /\ Target = old /\ old \in available
      BY <2>1, <2>4 DEF GrantInv, Target
    <2>5. ASSUME granted' # None
          PROVE  old \in available'
      <3>1. CASE UNCHANGED available
        BY <2>4, <2>5, <3>1
      <3>2. CASE ok /\ BaseSucceeds(req)
        <4>1. ~(d = old /\ req.state = "UNAVAILABLE")
          BY <2>1, <2>5, <3>2
        <4>2. QED
          BY <2>4, <2>5, <3>2, <4>1 DEF BaseSucceeds
      <3>3. QED
        BY <3>1, <3>2
    <2>6. QED
      BY <1>1, <2>1, <2>2, <2>3, <2>4, <2>5 DEF GrantInv
  <1>4. QED
    BY <1>2, <1>3

(* A request that is answered, truly.                                      *)
LEMMA AnswerKept ==
    ASSUME TypeOK, pc # "idle", UNCHANGED req,
           \/ /\ reply' = "NO_ERROR"
              /\ BaseSucceeds(req) \/ (IsAlreadConnect(req) /\ UNCHANGED available)
           \/ reply' = "ERROR" /\ ~IsAlreadConnect(req) /\ UNCHANGED available
    PROVE  AnswerTrue'
  BY DEF AnswerTrue, TypeOK, Request, State, BaseSucceeds, IsAlreadConnect, DescriptorOf

(* The answers say what the base class did to the list.                    *)
LEMMA ToldKept ==
    ASSUME TypeOK, ToldInv, pc # "idle", NEW ok \in BOOLEAN, told' = Told(ok),
           \/ ok /\ (BaseSucceeds(req) \/ (IsAlreadConnect(req) /\ UNCHANGED available))
           \/ ~ok /\ UNCHANGED available
    PROVE  ToldInv'
  <1>1. req.state \in State
    BY DEF TypeOK, Request
  <1>2. told' = IF ~ok THEN told
                ELSE IF req.state = "AVAILABLE" THEN told \cup {DescriptorOf(req)}
                ELSE told \ {DescriptorOf(req)}
    BY <1>1, Zenon DEF Told, State
  <1>3. QED
    BY <1>1, <1>2 DEF ToldInv, BaseSucceeds, IsAlreadConnect, State

LEMMA SetBitStreamDeviceInv ==
    ASSUME IInv, SetBitStreamDevice
    PROVE  IInv'
  <1>1. TypeOK /\ GrantInv /\ ToldInv /\ pc = "bitstream" /\ ForBitstream
    BY DEF IInv, SetBitStreamDevice
  <1>2. mBitstreamDevice' = NewDevice /\ mBitstreamDevice' \in Bitstream \cup {None}
    BY <1>1 DEF SetBitStreamDevice, NewDevice, ForBitstream, TypeOK
  <1>3. /\ UNCHANGED <<req, asked>>
        /\ pc' # "bitstream" => AskedInv'
    BY <1>1, <1>2 DEF SetBitStreamDevice, IInv, AskedInv, NewDevice, TypeOK, Request, State
  <1>4. CASE /\ IsAlreadConnect(req)
             /\ Return("NO_ERROR")
             /\ UNCHANGED available
    <2>1. GrantInv' /\ granted' \in Bitstream \cup {None}
      BY <1>1, <1>2, <1>4, GrantKept DEF Return, NewDevice
    <2>2. AnswerTrue' /\ ToldInv'
      BY <1>1, <1>3, <1>4, AnswerKept, ToldKept DEF Return
    <2>3. QED
      BY <1>1, <1>2, <1>3, <1>4, <2>1, <2>2
      DEF IInv, TypeOK, Return, DeviceSet, ToldInv
  <1>5. CASE /\ ~IsAlreadConnect(req)
             /\ BaseSucceeds(req) /\ Return("NO_ERROR")
    <2>1. GrantInv' /\ granted' \in Bitstream \cup {None}
      BY <1>1, <1>2, <1>5, GrantKept DEF Return, NewDevice
    <2>2. AnswerTrue' /\ ToldInv'
      BY <1>1, <1>3, <1>5, AnswerKept, ToldKept DEF Return
    <2>3. available' \subseteq Descriptor
      BY <1>1, <1>5, BaseType
    <2>4. QED
      BY <1>1, <1>2, <1>3, <1>5, <2>1, <2>2, <2>3
      DEF IInv, TypeOK, Return, DeviceSet, ToldInv
  <1>6. CASE /\ ~IsAlreadConnect(req)
             /\ pc' = "device" /\ granted' = Granted(FALSE)
             /\ UNCHANGED <<available, reply, told>>
    <2>1. GrantInv' /\ granted' \in Bitstream \cup {None}
      BY <1>1, <1>2, <1>6, GrantKept DEF NewDevice
    <2>2. QED
      BY <1>1, <1>2, <1>3, <1>6, <2>1
      DEF IInv, TypeOK, AnswerTrue, DeviceSet, ToldInv, ForBitstream, NewDevice
  <1>7. QED
    BY <1>4, <1>5, <1>6 DEF SetBitStreamDevice

LEMMA ConnectDeviceInv ==
    ASSUME IInv, ConnectDevice
    PROVE  IInv'
  <1>1. TypeOK /\ GrantInv /\ DeviceSet /\ ToldInv /\ pc = "device"
    BY DEF IInv, ConnectDevice
  <1>2. /\ UNCHANGED <<mBitstreamDevice, req, asked>>
        /\ pc' # "bitstream" => AskedInv'
    BY <1>1 DEF ConnectDevice, IInv, AskedInv
  <1>3. ForBitstream /\ req.state = "AVAILABLE" => mBitstreamDevice' = req.device
    BY <1>1, <1>2 DEF DeviceSet
  <1>4. CASE /\ IsAlreadConnect(req)
             /\ Return("NO_ERROR")
             /\ UNCHANGED available
    <2>1. GrantInv' /\ granted' \in Bitstream \cup {None}
      BY <1>1, <1>2, <1>3, <1>4, GrantKept DEF Return
    <2>2. AnswerTrue' /\ ToldInv'
      BY <1>1, <1>2, <1>4, AnswerKept, ToldKept DEF Return
    <2>3. QED
      BY <1>1, <1>2, <1>4, <2>1, <2>2
      DEF IInv, TypeOK, Return, DeviceSet, ToldInv
  <1>5. CASE /\ ~IsAlreadConnect(req)
             /\ BaseSucceeds(req) /\ Return("NO_ERROR")
    <2>1. GrantInv' /\ granted' \in Bitstream \cup {None}
      BY <1>1, <1>2, <1>3, <1>5, GrantKept DEF Return
    <2>2. AnswerTrue' /\ ToldInv'
      BY <1>1, <1>2, <1>5, AnswerKept, ToldKept DEF Return
    <2>3. available' \subseteq Descriptor
      BY <1>1, <1>5, BaseType
    <2>4. QED
      BY <1>1, <1>2, <1>5, <2>1, <2>2, <2>3
      DEF IInv, TypeOK, Return, DeviceSet, ToldInv
  <1>6. CASE /\ ~IsAlreadConnect(req)
             /\ Return("ERROR") /\ UNCHANGED available
    <2>1. GrantInv' /\ granted' \in Bitstream \cup {None}
      BY <1>1, <1>2, <1>3, <1>6, GrantKept DEF Return
    <2>2. AnswerTrue' /\ ToldInv'
      BY <1>1, <1>2, <1>6, AnswerKept, ToldKept DEF Return
    <2>3. QED
      BY <1>1, <1>2, <1>6, <2>1, <2>2
      DEF IInv, TypeOK, Return, DeviceSet, ToldInv
  <1>7. QED
    BY <1>4, <1>5, <1>6 DEF ConnectDevice

LEMMA RequestInv ==
    ASSUME IInv, NEW r \in Request, SetDeviceConnectionState(r)
    PROVE  IInv'
  <1>1. /\ req' = r /\ pc = "idle"
        /\ UNCHANGED <<available, mBitstreamDevice, granted, told>>
    BY DEF SetDeviceConnectionState
  <1>2. asked = mBitstreamDevice /\ TypeOK /\ ToldInv /\ GrantInv
    BY <1>1 DEF IInv, AskedInv
  <1>3. asked' = IF r.named /\ r.device \in Bitstream /\ r.state = "AVAILABLE"
                 THEN r.device ELSE asked
    BY DEF SetDeviceConnectionState
  <1>4. asked' \in Bitstream \cup {None} /\ ToldInv' /\ GrantInv'
    BY <1>1, <1>2, <1>3 DEF TypeOK, ToldInv, GrantInv, Target
  <1>5. CASE r.device \notin Type /\ reply' = "BAD_VALUE" /\ UNCHANGED pc
    <2>1. r.device \notin Bitstream
      BY <1>5, DeviceAssumption DEF Type
    <2>2. AskedInv' /\ DeviceSet' /\ AnswerTrue'
      BY <1>1, <1>2, <1>3, <1>5, <2>1 DEF AskedInv, DeviceSet, AnswerTrue
    <2>3. TypeOK'
      BY <1>1, <1>2, <1>4, <1>5 DEF TypeOK
    <2>4. QED
      BY <1>4, <2>2, <2>3 DEF IInv
  <1>6. CASE r.device \in Type /\ pc' = "bitstream" /\ UNCHANGED reply
    <2>1. AskedInv' /\ DeviceSet' /\ AnswerTrue'
      BY <1>1, <1>2, <1>3, <1>6 DEF AskedInv, DeviceSet, AnswerTrue, ForBitstream
    <2>2. TypeOK'
      BY <1>1, <1>2, <1>4, <1>6 DEF TypeOK
    <2>3. QED
      BY <1>4, <2>1, <2>2 DEF IInv
  <1>7. QED
    BY <1>5, <1>6 DEF SetDeviceConnectionState

LEMMA NoBitStreamDeviceInv ==
    ASSUME IInv, NoBitStreamDevice
    PROVE  IInv'
  BY DEF IInv, NoBitStreamDevice, TypeOK, AnswerTrue, GrantInv, history,
         Target, DeviceSet, AskedInv, ToldInv, ForBitstream

LEMMA NextInv == IInv /\ [Next]_vars => IInv'
  <1> SUFFICES ASSUME IInv, [Next]_vars PROVE IInv'
    OBVIOUS
  <1>1. CASE \E r \in Request : SetDeviceConnectionState(r)
    BY <1>1, RequestInv
  <1>2. CASE SetBitStreamDevice
    BY <1>2, SetBitStreamDeviceInv
  <1>3. CASE NoBitStreamDevice
    BY <1>3, NoBitStreamDeviceInv
  <1>4. CASE ConnectDevice
    BY <1>4, ConnectDeviceInv
  <1>5. CASE UNCHANGED vars
    BY <1>5
    DEF vars, history, IInv, TypeOK, AnswerTrue, GrantInv,
        Target, DeviceSet, AskedInv, ToldInv, ForBitstream, DescriptorOf
  <1>6. QED
    BY <1>1, <1>2, <1>3, <1>4, <1>5 DEF Next

LEMMA Invariance == Spec => []IInv
  BY InitInv, NextInv, PTL DEF Spec

(* A variable never leaves its type: above all, mBitstreamDevice is one of *)
(* the two bitstream devices or none.                                      *)
THEOREM TypeCorrect == Spec => []TypeOK
  <1>1. IInv => TypeOK
    BY DEF IInv
  <1>2. QED
    BY <1>1, Invariance, PTL

(* setDeviceConnectionState() answers what the list of devices shows.      *)
THEOREM AnswersAreTrue == Spec => []AnswerTrue
  <1>1. IInv => AnswerTrue
    BY DEF IInv
  <1>2. QED
    BY <1>1, Invariance, PTL

(* A granted bitstream device stays the one that bitstreams go to.         *)
THEOREM GrantedStaysRoutable == Spec => []GrantedRoutable
  <1>1. IInv => GrantedRoutable
    BY DEF IInv, GrantInv, GrantedRoutable
  <1>2. QED
    BY <1>1, Invariance, PTL

(* Where a bitstream goes follows from the requests and their answers.     *)
THEOREM RoutedAsAnswered == Spec => []RoutedAsTold
  <1>1. IInv => RoutedAsTold
    BY DEF IInv, AskedInv, ToldInv, RoutedAsTold, SelectedDevice, Target
  <1>2. QED
    BY <1>1, Invariance, PTL
=============================================================================
