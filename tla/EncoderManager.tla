--------------------------- MODULE EncoderManager ---------------------------
(***************************************************************************)
(* Host::EncoderManager (host/encoder_manager.cpp): the encoder of one     *)
(* client, chosen by a preflight test, locked for the session, moved down  *)
(* through the quality tiers, and replaced by the software encoder when it *)
(* fails.  Every public method but RequestKeyframe and IsHEVC takes        *)
(* m_encoderMutex for its whole body, so each is one action.               *)
(*                                                                         *)
(* Which codecs can be opened is up to the driver and may change with      *)
(* every call: the actions take the set of codecs that open during it.     *)
(* Bit rates are left out, and so is the time between two changes of tier. *)
(* Software stands for libx264, which the build is taken to contain.       *)
(***************************************************************************)
EXTENDS EncoderHW, Integers, Sequences, SequencesExt

CONSTANTS Preference,     \* hardware codecs in the order of DetectCapabilities
          Software,       \* libx264
          BaseSize        \* the screen: "720p" and "480p" are the sizes of tiers C and D

ASSUME EncoderAssumption == /\ BaseSize \in {"base", "720p", "480p"}
                            /\ Preference \in Seq(ToSet(Preference))
                            /\ Software \notin ToSet(Preference)
                            /\ NoCodec \notin ToSet(Preference) \cup {Software}
                            /\ NoEncoder \notin Encoders(ToSet(Preference) \cup {Software, NoCodec},
                                                         Nat \cup {NoDevice})

VARIABLES m_state,
          m_currentTier,       \* 0 .. 3 for TierA .. TierD
          m_capabilities,      \* codecs found by DetectCapabilities; Preference is their order
          m_sessionLocked,
          m_lockedCodecName,
          m_d3d11Device,       \* given to Initialize
          m_encoder            \* an encoder of EncoderHW, or NoEncoder

managerVars == <<m_state, m_currentTier, m_capabilities, m_sessionLocked, m_lockedCodecName,
                 m_d3d11Device, m_encoder>>

Codecs == ToSet(Preference) \cup {Software}
Tiers == 0 .. 3

-----------------------------------------------------------------------------
\* SetState: a transition that is not allowed is logged and not made.

Allowed == [IDLE                 |-> {"STARTING"},
            STARTING             |-> {"PREFLIGHT_VALIDATION", "SHUTDOWN"},
            PREFLIGHT_VALIDATION |-> {"READY", "SHUTDOWN"},
            READY                |-> {"STREAMING", "SHUTDOWN"},
            STREAMING            |-> {"DEGRADED", "RECOVERING", "EMERGENCY_FALLBACK", "SHUTDOWN"},
            DEGRADED             |-> {"STREAMING", "RECOVERING", "EMERGENCY_FALLBACK", "SHUTDOWN"},
            RECOVERING           |-> {"STREAMING", "EMERGENCY_FALLBACK", "SHUTDOWN"},
            EMERGENCY_FALLBACK   |-> {"STREAMING", "SHUTDOWN"},
            SHUTDOWN             |-> {"IDLE"}]

Moved(state, new) == IF new \in Allowed[state] THEN new ELSE state

-----------------------------------------------------------------------------
\* Width and height of GetProfileForTier.
Size(tier) == IF tier <= 1 THEN BaseSize ELSE IF tier = 2 THEN "720p" ELSE "480p"

Detected(useHardware, opens) ==
    LET found == opens \cap (IF useHardware THEN Codecs ELSE {Software})
    IN  IF found = {} THEN {Software} ELSE found

\* The first of these codecs in the order of DetectCapabilities.
Best(codecs) ==
    IF codecs \subseteq {Software} THEN Software
    ELSE CHOOSE c \in codecs : \E i \in DOMAIN Preference :
            c = Preference[i] /\ \A j \in 1 .. i - 1 : Preference[j] \notin codecs

\* mutant of Opened: no ForceKeyframe
OpenedQuietly(encoder, codec, tier, device, opens) ==
    InitializeHW(encoder, codec, Size(tier), device, opens)

\* m_encoder->Initialize, followed by ForceKeyframe when it succeeded.
Opened(encoder, codec, tier, device, opens) ==
    LET result == InitializeHW(encoder, codec, Size(tier), device, opens)
    IN  IF IsOpen(result) THEN [result EXCEPT !.forceKeyframe = TRUE] ELSE result

\* EmergencyEncoderFallback and, when the locked encoder does not open,
\* SelectAndInitEncoder: what they leave, given the codecs that open.
Attempt(tier, state, locked, encoder) ==
    [tier |-> tier, state |-> state, locked |-> locked, encoder |-> encoder]

Emergency(tier, state, encoder, device, opens) ==
    Attempt(tier, Moved(state, "EMERGENCY_FALLBACK"), Software,
            Opened(encoder, Software, tier, device, opens))

\* The codec tried first: the locked one, or (in a new FFmpegHardwareEncoder)
\* the first capability.
Candidate(isLocked, locked, capabilities) == IF isLocked THEN locked ELSE Best(capabilities)

SelectAndInit(isLocked, locked, capabilities, tier, state, encoder, device, opens) ==
    LET old    == IF isLocked THEN encoder ELSE NoEncoder
        opened == Opened(old, Candidate(isLocked, locked, capabilities), tier, device, opens)
    IN  IF IsOpen(opened) THEN Attempt(tier, state, locked, opened)
        ELSE Emergency(tier, state, opened, device, opens)

\* Makes the outcome r of an attempt the manager's.
Adopt(r) == /\ m_currentTier' = r.tier
            /\ m_state' = r.state
            /\ m_lockedCodecName' = r.locked
            /\ m_encoder' = r.encoder

-----------------------------------------------------------------------------
ManagerInit == /\ m_state = "IDLE"
               /\ m_currentTier = 0
               /\ m_capabilities = {}
               /\ m_sessionLocked = FALSE
               /\ m_lockedCodecName = NoCodec
               /\ m_d3d11Device = NoDevice
               /\ m_encoder = NoEncoder

\* Initialize.  detected opens during DetectCapabilities, tested during the
\* preflight test, opens when the encoder itself is opened.
Started == Moved(Moved(m_state, "STARTING"), "PREFLIGHT_VALIDATION")

InitializeFails(useHardware, device, detected, tested) ==
    /\ m_d3d11Device' = device
    /\ m_capabilities' = Detected(useHardware, detected)
    /\ m_capabilities' \cap tested = {}
    /\ m_state' = Moved(Started, "SHUTDOWN")
    /\ m_currentTier' = 0
    /\ m_sessionLocked' = FALSE
    /\ UNCHANGED <<m_lockedCodecName, m_encoder>>

PreflightChoice(capabilities, tested) == Best(capabilities \cap tested)

InitializeRuns(useHardware, device, detected, tested, opens) ==
    /\ m_d3d11Device' = device
    /\ m_capabilities' = Detected(useHardware, detected)
    /\ m_capabilities' \cap tested # {}
    /\ m_sessionLocked' = TRUE
    /\ LET codec == PreflightChoice(m_capabilities', tested)
           r == SelectAndInit(m_sessionLocked', codec, m_capabilities', 0, Moved(Started, "READY"),
                              m_encoder, device, opens)
       IN  Adopt([r EXCEPT !.state =
                     Moved(@, IF IsOpen(r.encoder) THEN "STREAMING" ELSE "SHUTDOWN")])

\* EncodeFrame, when the encoder is not open and cannot be opened.
CannotEncode(opens) ==
    /\ ~ IsOpen(m_encoder)
    /\ \/ /\ ~ m_sessionLocked
          /\ UNCHANGED managerVars
       \/ /\ m_sessionLocked
          /\ LET r == SelectAndInit(m_sessionLocked, m_lockedCodecName, m_capabilities, m_currentTier,
                                    m_state, m_encoder, m_d3d11Device, opens)
             IN  /\ ~ IsOpen(r.encoder)
                 /\ Adopt(r)
          /\ UNCHANGED <<m_capabilities, m_sessionLocked, m_d3d11Device>>

\* What EncodeFrame starts from: the open encoder, or the one it opens.
Ready(opens) ==
    IF IsOpen(m_encoder) THEN Attempt(m_currentTier, m_state, m_lockedCodecName, m_encoder)
    ELSE SelectAndInit(m_sessionLocked, m_lockedCodecName, m_capabilities, m_currentTier,
                       m_state, m_encoder, m_d3d11Device, opens)

MayEncodeIfOpen(opens) == IsOpen(m_encoder)    \* mutant: a closed encoder is not retried
MayEncode(opens) == /\ IsOpen(m_encoder) \/ m_sessionLocked
                    /\ IsOpen(Ready(opens).encoder)

\* EncodeFrame, when the encoder takes the frame, and when there is no staging
\* texture to be had: that ends the program.
EncodeSucceeds(opens, made) ==
    /\ MayEncode(opens)
    /\ ~NoStaging(Ready(opens).encoder)
    /\ Adopt([Ready(opens) EXCEPT !.encoder = Encoded(@, made)])
    /\ UNCHANGED <<m_capabilities, m_sessionLocked, m_d3d11Device>>

EncodeCrashes(opens) == MayEncode(opens) /\ NoStaging(Ready(opens).encoder)

\* EncodeFrame, when the encoder fails, before (forced) or after it looked at
\* forceKeyframe: the frame is lost and the software encoder takes over.
EncodeFails(opens, forced) ==
    /\ MayEncode(opens)
    /\ ~NoStaging(Ready(opens).encoder)
    /\ LET r == Ready(opens)
       IN  Adopt(Emergency(r.tier, r.state,
                           [r.encoder EXCEPT !.forceKeyframe = forced /\ @], m_d3d11Device, opens))
    /\ UNCHANGED <<m_capabilities, m_sessionLocked, m_d3d11Device>>

\* UpdatePerformanceMetrics, when it lowers the tier.  m_capabilities is never
\* empty by then.
KeepsEncoderAlways(old, new) == m_encoder # NoEncoder      \* mutant: the size is not looked at
KeepsEncoder(old, new) == m_encoder # NoEncoder /\ Size(old) = Size(new)

Downgrade(opens) ==
    /\ m_currentTier < 3
    /\ LET state == Moved(m_state, "DEGRADED")
           lower == m_currentTier + 1
       IN  Adopt(IF KeepsEncoder(m_currentTier, lower)
                 THEN Attempt(lower, state, m_lockedCodecName, m_encoder)
                 ELSE SelectAndInit(m_sessionLocked, m_lockedCodecName, m_capabilities, lower,
                                    state, m_encoder, m_d3d11Device, opens))
    /\ UNCHANGED <<m_capabilities, m_sessionLocked, m_d3d11Device>>

RequestKeyframeDropped == UNCHANGED managerVars   \* mutant: m_encoder is not told
RequestKeyframe ==
    /\ m_encoder' = IF m_encoder = NoEncoder THEN NoEncoder
                    ELSE [m_encoder EXCEPT !.forceKeyframe = TRUE]
    /\ UNCHANGED <<m_state, m_currentTier, m_capabilities, m_sessionLocked, m_lockedCodecName,
                   m_d3d11Device>>

Shutdown == /\ m_state' = Moved(m_state, "SHUTDOWN")
            /\ m_encoder' = NoEncoder
            /\ UNCHANGED <<m_currentTier, m_capabilities, m_sessionLocked, m_lockedCodecName,
                           m_d3d11Device>>
=============================================================================
