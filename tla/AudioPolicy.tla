---------------------------- MODULE AudioPolicy ----------------------------
(***************************************************************************)
(* audio_policy/ATVAudioPolicyManager: connection requests of the audio    *)
(* service and of the audio settings, and the choice of the device that    *)
(* bitstreams (IEC61937) go to.  The service calls one method at a time.   *)
(* The base class AudioPolicyManager is external: its list of available    *)
(* devices, and setDeviceConnectionState(), which changes that list or     *)
(* fails, and fails at least for an output that is connected already and   *)
(* for the disconnection of a device that is not connected.                *)
(***************************************************************************)
CONSTANTS
    Output,             \* output device types
    Input,              \* input device types
    Address,            \* device addresses with their encoded format
    BitstreamAddress,   \* "RK_BITSTREAM_DEVICE_ADDRESS" with IEC61937
    Preferred           \* the selectedDeviceId a client comes with

Hdmi == "AUX_DIGITAL"
Spdif == "SPDIF"
Bitstream == {Hdmi, Spdif}
None == "NONE"
Neither == "neither"    \* a device that is no input and no output

Type == Output \cup Input
Descriptor == [type : Type, address : Address]
State == {"AVAILABLE", "UNAVAILABLE"}

\* named: device_name is "RK_BITSTREAM_DEVICE_NAME".
Request == [device : Type \cup {Neither}, state : State, named : BOOLEAN, address : Address]

ASSUME DeviceAssumption ==
    /\ Bitstream \subseteq Output
    /\ Output \cap Input = {}
    /\ {None, Neither} \cap Type = {}
    /\ BitstreamAddress \in Address
    /\ Preferred \notin Descriptor

VARIABLES
    available,          \* mAvailableOutputDevices, and the inputs
    mBitstreamDevice,
    pc,                 \* "idle", or the method that handles req
    req,                \* the connection request
    reply,              \* what setDeviceConnectionState() returned
    granted,            \* history: the bitstream device the settings can rely on
    asked,              \* history: the last one asked for, granted or refused
    told                \* history: the devices that are there by the answers

history == <<granted, asked, told>>
vars == <<available, mBitstreamDevice, pc, req, reply, history>>

NoRequest == [device |-> Neither, state |-> "UNAVAILABLE", named |-> FALSE,
              address |-> BitstreamAddress]

Init ==
    /\ available = {}
    /\ mBitstreamDevice = None
    /\ pc = "idle"
    /\ req = NoRequest
    /\ reply = "BAD_VALUE"
    /\ granted = None
    /\ asked = None
    /\ told = {}

-----------------------------------------------------------------------------
DescriptorOf(r) == [type |-> r.device, address |-> r.address]
Target == [type |-> mBitstreamDevice, address |-> BitstreamAddress]

\* Seeded fault: the state asked for is not looked at.
ConnectedWhatever(r) == r.device \in Output /\ DescriptorOf(r) \in available

\* isAlreadConnect(), for outputs only.
IsAlreadConnect(r) ==
    r.device \in Output /\ r.state = "AVAILABLE" /\ DescriptorOf(r) \in available

\* AudioPolicyManager::setDeviceConnectionState().
BaseSucceeds(r) ==
    LET d == DescriptorOf(r) IN
    \/ r.state = "AVAILABLE" /\ d \notin available /\ available' = available \cup {d}
    \/ r.state = "UNAVAILABLE" /\ d \in available /\ available' = available \ {d}

\* Seeded fault: any device may become the bitstream device.
ForBitstreamNamed == req.named

\* The conditions of setBitStreamDevice().
ForBitstream == req.named /\ req.device \in Bitstream

\* History: a granted bitstream request counts until the device is disconnected
\* or another bitstream connection is asked for.
Granted(ok) ==
    CASE ForBitstream /\ req.state = "AVAILABLE" ->
             IF ok /\ req.address = BitstreamAddress THEN req.device ELSE None
      [] ok /\ DescriptorOf(req) = [type |-> granted, address |-> BitstreamAddress]
            /\ req.state = "UNAVAILABLE" -> None
      [] OTHER -> granted

\* History: what an answer says of the device.
Told(ok) ==
    CASE ok /\ req.state = "AVAILABLE" -> told \cup {DescriptorOf(req)}
      [] ok /\ req.state = "UNAVAILABLE" -> told \ {DescriptorOf(req)}
      [] OTHER -> told

Return(status) ==
    /\ pc' = "idle"
    /\ reply' = status
    /\ granted' = Granted(status = "NO_ERROR")
    /\ told' = Told(status = "NO_ERROR")

\* A request comes in.
SetDeviceConnectionState(r) ==
    /\ pc = "idle"
    /\ req' = r
    /\ asked' = IF r.named /\ r.device \in Bitstream /\ r.state = "AVAILABLE"
                THEN r.device ELSE asked
    /\ IF r.device \notin Type
       THEN reply' = "BAD_VALUE" /\ UNCHANGED pc
       ELSE pc' = "bitstream" /\ UNCHANGED reply
    /\ UNCHANGED <<available, mBitstreamDevice, granted, told>>

\* Seeded fault: a disconnection forgets the bitstream device.
NewDeviceForgotten ==
    IF req.state = "AVAILABLE" THEN req.device ELSE None

NewDevice ==
    IF req.state = "AVAILABLE" THEN req.device ELSE mBitstreamDevice

\* Seeded fault: what the base class has answered is not passed on.
SetBitStreamDeviceAlways ==
    /\ pc = "bitstream" /\ ForBitstream
    /\ mBitstreamDevice' = NewDevice
    /\ Return("NO_ERROR")
    /\ BaseSucceeds(req) \/ UNCHANGED available
    /\ UNCHANGED <<req, asked>>

\* setBitStreamDevice() for HDMI or SPDIF: mBitstreamDevice is set before the
\* base class is asked.  When that fails, the caller goes on as if the request
\* had not been for a bitstream device.
SetBitStreamDevice ==
    /\ pc = "bitstream" /\ ForBitstream
    /\ mBitstreamDevice' = NewDevice
    /\ \/ /\ IsAlreadConnect(req)
          /\ Return("NO_ERROR")
          /\ UNCHANGED available
       \/ /\ ~IsAlreadConnect(req)
          /\ \/ BaseSucceeds(req) /\ Return("NO_ERROR")
             \/ /\ pc' = "device" /\ granted' = Granted(FALSE)
                /\ UNCHANGED <<available, reply, told>>
    /\ UNCHANGED <<req, asked>>

\* It returns -1 for any other request.
NoBitStreamDevice ==
    /\ pc = "bitstream" /\ ~ForBitstream
    /\ pc' = "device"
    /\ UNCHANGED <<available, mBitstreamDevice, req, reply, history>>

\* The rest of setDeviceConnectionState(), a second call of the base class when
\* the first has failed.
ConnectDevice ==
    /\ pc = "device"
    /\ \/ /\ IsAlreadConnect(req)
          /\ Return("NO_ERROR")
          /\ UNCHANGED available
       \/ /\ ~IsAlreadConnect(req)
          /\ \/ BaseSucceeds(req) /\ Return("NO_ERROR")
             \/ Return("ERROR") /\ UNCHANGED available
    /\ UNCHANGED <<mBitstreamDevice, req, asked>>

\* getOutputForAttr() changes nothing of the manager.  This is the device it
\* selects for a direct IEC61937 output; any other keeps the client's choice.
SelectedDevice == IF Target \in available THEN Target ELSE Preferred

Next ==
    \/ \E r \in Request : SetDeviceConnectionState(r)
    \/ SetBitStreamDevice
    \/ NoBitStreamDevice
    \/ ConnectDevice

Spec == Init /\ [][Next]_vars
-----------------------------------------------------------------------------
(* Properties.                                                             *)

TypeOK ==
    /\ available \subseteq Descriptor
    /\ mBitstreamDevice \in Bitstream \cup {None}
    /\ pc \in {"idle", "bitstream", "device"}
    /\ req \in Request
    /\ pc # "idle" => req.device \in Type
    /\ reply \in {"NO_ERROR", "ERROR", "BAD_VALUE"}
    /\ granted \in Bitstream \cup {None}
    /\ asked \in Bitstream \cup {None}
    /\ told \subseteq Descriptor

\* ATVAudioPolicyManager.cpp:137-140: an output that is connected already is
\* connected successfully.  Whichever way a request took, through one call of
\* the base class, two or none, the answer says what the device list shows.
AnswerTrue ==
    pc = "idle" /\ req.device \in Type =>
        /\ reply = "NO_ERROR" =>
               (DescriptorOf(req) \in available <=> req.state = "AVAILABLE")
        /\ reply = "ERROR" /\ req.state = "AVAILABLE" /\ req.device \in Output =>
               DescriptorOf(req) \notin available

\* setBitStreamDevice(): the device a bitstream request was granted stays the
\* one bitstreams go to, over any requests for other devices, until it is
\* disconnected or another bitstream connection is asked for, were that refused.
GrantedRoutable ==
    pc = "idle" /\ granted # None =>
        /\ mBitstreamDevice = granted
        /\ Target \in available

\* getOutputForAttr(): where a bitstream goes follows from the requests and the
\* answers alone, on whichever path they were answered.  It is the device last
\* asked for, if by the answers that is connected for bitstreams: one asked for
\* and refused takes the place of the one before all the same, and bitstreams
\* then go where the client says, until it is connected after all.
RoutedAsTold ==
    pc = "idle" =>
        LET device == [type |-> asked, address |-> BitstreamAddress] IN
        SelectedDevice = IF device \in told THEN device ELSE Preferred
=============================================================================
