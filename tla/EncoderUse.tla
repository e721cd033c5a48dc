----------------------------- MODULE EncoderUse -----------------------------
(***************************************************************************)
(* The threads of the host around one client's EncoderManager              *)
(* (common/session_manager.cpp): the thread that initializes it, the       *)
(* capture thread, which encodes, reads IsHEVC without m_encoderMutex and  *)
(* initializes again after a lost device, and the receiver thread, which   *)
(* lowers the tier and asks for keyframes.  The Direct3D device belongs to *)
(* the capture; the other threads keep pointers to it.                     *)
(*                                                                         *)
(* RequestKeyframe also runs without the mutex, but its only access is an  *)
(* atomic flag: a request that comes between EncodeFrame's test of the     *)
(* flag and its reset is met by the frame being encoded.                   *)
(***************************************************************************)
EXTENDS EncoderManager

CONSTANTS Hevc,          \* the codecs whose codec_id is HEVC
          UseHardware,   \* config.useHardwareEncoding
          NoFrame,
          MaxDevices     \* bound: devices the capture makes

ASSUME UseAssumption == /\ Hevc \subseteq ToSet(Preference) /\ UseHardware \in BOOLEAN
                        /\ MaxDevices \in Nat \ {0} /\ NoDevice \notin 1 .. MaxDevices

VARIABLES phase,   \* of the client: "starting", "preparing", "opened", "refused" (the init
                   \* thread), "joined" (in ctx->clients) or "gone"
          device,  \* the capture's device, counted; NoDevice after Cleanup
          made,    \* devices made so far
          capturing, \* the capture has its duplication
          frame,   \* the frame in the capture thread's packets, or NoFrame
          owed,    \* history: the client needs a keyframe and none has left for it
          thrown,  \* history: the keyframe that was made for it was not kept
          raced,   \* history: the client joined with another device than the capture's
          ended    \* the program has ended

captureVars == <<device, made, capturing>>
debtVars == <<owed, thrown>>
useVars == <<phase, captureVars, frame, debtVars, raced, ended>>
vars == <<managerVars, useVars>>

-----------------------------------------------------------------------------
UseInit == /\ ManagerInit
           /\ phase = "starting"
           /\ device = 1 /\ made = 1 /\ capturing = TRUE
           /\ frame = NoFrame
           /\ owed = FALSE /\ thrown = FALSE /\ raced = FALSE /\ ended = FALSE

\* A keyframe is forced anew, if this is so.
Owes(anew) == owed' = (owed \/ anew) /\ thrown' = (thrown /\ ~ anew)

\* A keyframe is owed, and the one made for it has not been thrown away.
Due == owed /\ ~ thrown

\* The sets of codecs that a call of Initialize can tell apart: what is detected,
\* the codec that passes the preflight test, and whether it and the software
\* encoder open.
Drivers == {driver \in (SUBSET Codecs) \X ({{}} \cup {{c} : c \in Codecs}) \X SUBSET Codecs :
               driver[3] \subseteq driver[2] \cup {Software}}

\* GetDevice, without a lock, while the capture thread may be making a new device.
Prepare == /\ phase = "starting"
           /\ phase' = "preparing"
           /\ m_d3d11Device' = device
           /\ UNCHANGED <<m_state, m_currentTier, m_capabilities, m_sessionLocked, m_lockedCodecName,
                          m_encoder, captureVars, frame, debtVars, raced, ended>>

\* The init thread's Initialize: the client is admitted, or refused.
Initialize(driver) ==
    /\ phase = "preparing"
    /\ \/ /\ InitializeFails(UseHardware, m_d3d11Device, driver[1], driver[2])
          /\ phase' = "refused"
       \/ /\ InitializeRuns(UseHardware, m_d3d11Device, driver[1], driver[2], driver[3])
          /\ phase' = IF IsOpen(m_encoder') THEN "opened" ELSE "refused"
    /\ UNCHANGED <<captureVars, frame, debtVars, raced, ended>>

\* push_back; RequestKeyframe follows (the flag is set already, the encoder being new).
Join == /\ phase = "opened"
        /\ phase' = "joined"
        /\ Owes(TRUE)
        /\ raced' = (m_d3d11Device # device)
        /\ UNCHANGED <<managerVars, captureVars, frame, ended>>

\* A refused client's state goes with its thread: ~EncoderManager.
Destroy == /\ phase = "refused"
           /\ Shutdown
           /\ phase' = "gone"
           /\ UNCHANGED <<captureVars, frame, debtVars, raced, ended>>

\* The capture thread's EncodeFrame.  The encoder makes a keyframe when it is
\* forced to and when it likes; a frame that finds packetPool empty, or that is too
\* long for a packet, is not kept, and with it goes the keyframe that was forced.
\* An encoder that holds frames back is left out: one frame in, one frame out.
Encode(opens, key, kept, scaled) ==
    /\ phase = "joined" /\ frame = NoFrame /\ capturing
    /\ EncodeSucceeds(opens, scaled)
    /\ IsForced(Ready(opens).encoder) => key
    /\ frame' = IF kept THEN [codec |-> m_encoder'.codec, key |-> key, replaced |-> FALSE,
                              shows |-> Shows(Ready(opens).encoder, device, scaled)]
                ELSE NoFrame
    /\ owed' = ((owed \/ ~ IsOpen(m_encoder)) /\ ~ (key /\ kept))
    /\ thrown' = (owed' /\ (thrown \/ key))
    /\ UNCHANGED <<phase, captureVars, raced, ended>>

\* A failed EncodeFrame.  It returns true when the software encoder opened, and an
\* empty vector is pushed: no frame leaves.
EncodeLost(opens, forced) ==
    /\ phase = "joined" /\ frame = NoFrame /\ capturing
    /\ EncodeFails(opens, forced) \/ CannotEncode(opens)
    /\ Owes(IsOpen(m_encoder'))
    /\ UNCHANGED <<phase, captureVars, frame, raced, ended>>

\* mutant of IsHEVC: the best codec of the host is asked
IsHEVCOfHost == m_capabilities # {} /\ Best(m_capabilities) \in Hevc

IsHEVC == IF m_encoder # NoEncoder THEN m_encoder.codec \in Hevc
          ELSE m_lockedCodecName \in Hevc

\* The capture thread marks the frame with IsHEVC and pushes it.
Push == /\ frame # NoFrame
        /\ frame' = NoFrame
        /\ UNCHANGED <<managerVars, phase, captureVars, debtVars, raced, ended>>

\* AcquireFrame has lost the access or the device: Cleanup.
CaptureLost == /\ frame = NoFrame /\ capturing
               /\ capturing' = FALSE /\ device' = NoDevice
               /\ UNCHANGED <<managerVars, phase, made, frame, debtVars, raced, ended>>

MakeDevice == IF device = NoDevice THEN made < MaxDevices /\ made' = made + 1 /\ device' = made'
              ELSE UNCHANGED <<made, device>>

\* capture.Initialize fails, with a device or without one.
CaptureFails == /\ frame = NoFrame /\ ~capturing /\ device = NoDevice
                /\ MakeDevice
                /\ UNCHANGED <<managerVars, phase, capturing, frame, debtVars, raced, ended>>

\* capture.Initialize succeeds, after a loss or another error, and the client's
\* encoder is initialized with the capture's device.  The result is not looked at.
DeviceLost(driver) ==
    /\ frame = NoFrame
    /\ MakeDevice
    /\ capturing' = TRUE
    /\ \/ /\ phase = "joined"
          /\ InitializeFails(UseHardware, device', driver[1], driver[2])
          /\ UNCHANGED debtVars
       \/ /\ phase = "joined"
          /\ InitializeRuns(UseHardware, device', driver[1], driver[2], driver[3])
          /\ Owes(IsOpen(m_encoder'))
       \/ phase # "joined" /\ UNCHANGED <<managerVars, debtVars>>
    /\ raced' = FALSE
    /\ UNCHANGED <<phase, frame, ended>>

\* RequestKeyframe, which follows in a step of its own: other threads run between.
AskedKeyframe == /\ phase = "joined"
                 /\ RequestKeyframe
                 /\ Owes(TRUE)
                 /\ UNCHANGED <<phase, captureVars, frame, raced, ended>>

\* The receiver thread's UpdatePerformanceMetrics.
Lowered(opens) ==
    /\ phase = "joined"
    /\ Downgrade(opens)
    /\ LET kept == KeepsEncoder(m_currentTier, m_currentTier + 1)
       IN  /\ Owes(~ kept /\ IsOpen(m_encoder'))
           /\ frame' = IF frame = NoFrame THEN NoFrame ELSE [frame EXCEPT !.replaced = @ \/ ~ kept]
    /\ UNCHANGED <<phase, captureVars, raced, ended>>

\* The capture thread drops a client that has been silent.  Its audio callback keeps
\* its state alive: the manager is not shut down.
TimedOut == /\ phase = "joined" /\ frame = NoFrame
            /\ phase' = "gone"
            /\ owed' = FALSE /\ thrown' = FALSE
            /\ UNCHANGED <<managerVars, captureVars, frame, raced, ended>>

\* The client tries again: a new manager.
TryAgain == /\ phase = "gone"
            /\ phase' = "starting"
            /\ m_state' = "IDLE"
            /\ m_currentTier' = 0
            /\ m_capabilities' = {}
            /\ m_sessionLocked' = FALSE
            /\ m_lockedCodecName' = NoCodec
            /\ m_d3d11Device' = NoDevice
            /\ m_encoder' = NoEncoder
            /\ raced' = FALSE
            /\ UNCHANGED <<captureVars, frame, debtVars, ended>>

\* An encoder without a device, or one that is opened with a device the capture has
\* released: undefined, and the program may end.
Crash == /\ \/ /\ phase = "joined" /\ frame = NoFrame /\ capturing
               /\ \E opens \in SUBSET Codecs : EncodeCrashes(opens)
            \/ phase \in {"preparing", "joined"} /\ m_d3d11Device \notin {device, NoDevice}
         /\ ended' = TRUE
         /\ UNCHANGED <<managerVars, phase, captureVars, frame, debtVars, raced>>

\* The codecs that open, as far as EncodeFrame and UpdatePerformanceMetrics tell.
Opening == SUBSET (Codecs \cap {m_lockedCodecName, Software, Best(m_capabilities)})

CaptureThread ==
    \/ Push \/ TimedOut \/ CaptureLost \/ CaptureFails
    \/ \E opens \in Opening :
          \/ \E key, kept, scaled \in BOOLEAN : Encode(opens, key, kept, scaled)
          \/ \E forced \in BOOLEAN : EncodeLost(opens, forced)
    \/ \E driver \in Drivers : DeviceLost(driver)

InitThread == Prepare \/ Join \/ Destroy \/ \E driver \in Drivers : Initialize(driver)

ReceiverThread == AskedKeyframe \/ \E opens \in Opening : Lowered(opens)

UseNext == \/ ~ ended /\ (CaptureThread \/ InitThread \/ ReceiverThread \/ TryAgain \/ Crash)
           \/ ended /\ UNCHANGED vars

\* The capture thread keeps running, and the software encoder opens and takes a
\* frame again and again if it is asked to again and again.
UseFairness ==
    /\ WF_vars(~ ended /\ Push)
    /\ SF_vars(~ ended /\ \E key, kept, scaled \in BOOLEAN : Encode({Software}, key, kept, scaled))

UseSpec == UseInit /\ [][UseNext]_vars
FairUseSpec == UseSpec /\ UseFairness

-----------------------------------------------------------------------------
\* Type correctness.  A client in ctx->clients has an encoder object and a codec.
EncoderTypeOK ==
    /\ m_state \in DOMAIN Allowed
    /\ m_currentTier \in Tiers
    /\ m_capabilities \subseteq Codecs
    /\ m_sessionLocked \in BOOLEAN
    /\ m_lockedCodecName \in Codecs \cup {NoCodec}
    /\ m_d3d11Device \in 1 .. made \cup {NoDevice}
    /\ m_encoder \in Encoders(Codecs \cup {NoCodec}, 1 .. made \cup {NoDevice}) \cup {NoEncoder}
    /\ phase = "joined" => m_encoder # NoEncoder /\ m_lockedCodecName \in Codecs
    /\ frame # NoFrame => phase = "joined" /\ capturing
    /\ capturing => device # NoDevice

\* While the session is locked, the encoder that runs is the one the manager
\* believes it runs: the locked codec, at the resolution of the current tier.
\* SelectAndInitEncoder, EmergencyEncoderFallback, AdjustTier and Initialize each
\* change one side of it.
EncoderAgrees ==
    phase = "joined" /\ m_sessionLocked /\ IsOpen(m_encoder)
       => m_encoder.codec = m_lockedCodecName /\ m_encoder.size = Size(m_currentTier)

\* What m_state tells of a joined client: EMERGENCY_FALLBACK means the session
\* goes on in software, and a session that lost its lock (a second Initialize
\* failed) is SHUTDOWN.
StateTells ==
    /\ m_state = "EMERGENCY_FALLBACK" => m_lockedCodecName = Software
    /\ phase = "joined" /\ ~ m_sessionLocked => m_state = "SHUTDOWN"

\* A frame never shows an old picture because its encoder copies on a device that
\* is not the capture's: Initialize follows every new device, in whatever state the
\* session is.  Left out are a client that joined while the device was replaced, and
\* one whose second Initialize failed in the preflight test and left the encoder open.
PictureCurrent ==
    frame # NoFrame /\ m_sessionLocked /\ ~ raced => frame.shows # "old"

\* Once the session has fallen back to software, no tier change, failure or
\* frame brings a hardware encoder back; only a lost device starts the choice anew.
SoftwareIsFinal ==
    [][ phase = "joined" /\ m_sessionLocked /\ m_lockedCodecName = Software
          => \/ m_lockedCodecName' = Software /\ m_encoder' # NoEncoder
                  /\ m_encoder'.codec \in {Software, NoCodec}
             \/ phase' = "gone"
             \/ \E driver \in Drivers : DeviceLost(driver)
      ]_vars

\* A frame that leaves the encoder after it was opened again, or after a keyframe
\* was asked for, is a keyframe: ForceKeyframe is called on every path, and neither
\* an encoder that fails nor one that is replaced in between loses the request.  Left
\* out by name is the request whose keyframe was encoded and thrown away (packetPool
\* empty, or too long): nothing remembers it.
KeyframeWhenOwed ==
    [][frame = NoFrame /\ frame' # NoFrame /\ (Due \/ ~ IsOpen(m_encoder)) => frame'.key]_vars

\* The flag that says how to decode a frame is that of the codec that encoded it,
\* unless the receiver thread replaced the encoder between EncodeFrame and IsHEVC:
\* the mutex is free between the two.
CodecFlagRight == [][frame # NoFrame /\ frame' = NoFrame /\ ~ frame.replaced
                       => (IsHEVC <=> frame.codec \in Hevc)]_vars

\* The capture or the client is gone, or the encoder has no device of the capture.
Interrupted == raced \/ NoStaging(m_encoder) \/ ended \/ ~ capturing \/ phase # "joined"

\* A locked session left with no open encoder (the fallback failed too) opens one
\* again at one of the next frames.
EncoderComesBack ==
    (phase = "joined" /\ m_sessionLocked /\ ~ IsOpen(m_encoder))
       ~> (IsOpen(m_encoder) \/ ~ m_sessionLocked \/ Interrupted)

\* A keyframe that is owed is encoded, while the session can encode at all; a new
\* device, after which one is owed again, starts the wait anew.  It leaves for the
\* client, or it is thrown away and the client has to ask again.
KeyframeComes ==
    (phase = "joined" /\ owed)
       ~> (~ owed \/ thrown \/ (~ m_sessionLocked /\ ~ IsOpen(m_encoder)) \/ Interrupted)
=============================================================================
