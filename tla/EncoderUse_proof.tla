-------------------------- MODULE EncoderUse_proof --------------------------
(***************************************************************************)
(* EncoderUse for every list of hardware codecs, every driver and any      *)
(* number of devices.                                                      *)
(*                                                                         *)
(* EncoderInv adds to the checked invariants what they need from step to   *)
(* step: the device of the running encoder is the manager's (Agrees),      *)
(* which is the capture's (OnDevice); a client that is about to join is    *)
(* locked, open and forced (StateIs); a keyframe that is owed is forced    *)
(* (Forced); the frame in hand is of the encoder there is (InHand).        *)
(* OpenedIs, EmergencyIs and OutcomeIs say what the manager's ways to an   *)
(* encoder leave; one lemma per step follows.                              *)
(***************************************************************************)
EXTENDS EncoderUse, WellFoundedInduction, TLAPS

\* A set of numbers that is not empty has a least one.
LEMMA LeastNumber ==
    ASSUME NEW T \in SUBSET Nat, T # {}
    PROVE  \E x \in T : \A y \in T : x <= y
  <1> DEFINE R == OpToRel(<, Nat)
  <1>1. IsWellFoundedOn(R, Nat)
    BY NatLessThanWellFounded
  <1>2. \A x, y \in Nat : <<y, x>> \in R <=> y < x
    BY DEF OpToRel
  <1> HIDE DEF R
  <1>3. PICK x \in T : \A y \in T : ~ (<<y, x>> \in R)
    BY <1>1, WFMin
  <1>4. ASSUME NEW y \in T PROVE x <= y
    <2>1. x \in Nat /\ y \in Nat
      OBVIOUS
    <2>2. ~ (y < x)
      BY <1>2, <1>3, <2>1
    <2> QED
      BY <2>1, <2>2
  <1> QED
    BY <1>4

LEMMA PreferenceIs ==
    /\ DOMAIN Preference \in SUBSET Nat
    /\ \A i \in DOMAIN Preference : 0 < i /\ 1 .. i - 1 \subseteq DOMAIN Preference
    /\ ToSet(Preference) = {Preference[i] : i \in DOMAIN Preference}
    /\ Software \notin ToSet(Preference)
    /\ NoCodec \notin Codecs
  <1>1. Preference \in Seq(ToSet(Preference))
    BY EncoderAssumption
  <1>2. DOMAIN Preference = 1 .. Len(Preference) /\ Len(Preference) \in Nat
    BY <1>1
  <1>3. ToSet(Preference) = {Preference[i] : i \in DOMAIN Preference}
    BY DEF ToSet
  <1>4. PICK n \in Nat : DOMAIN Preference = 1 .. n
    BY <1>2
  <1>5. ASSUME NEW i \in 1 .. n PROVE 0 < i /\ 1 .. i - 1 \subseteq 1 .. n
    OBVIOUS
  <1>6. DOMAIN Preference \in SUBSET Nat
    BY <1>4
  <1>7. Software \notin ToSet(Preference) /\ NoCodec \notin Codecs
    BY EncoderAssumption DEF Codecs
  <1> QED
    BY <1>3, <1>4, <1>5, <1>6, <1>7

\* The choice among codecs that are not none is one of them.
LEMMA BestIs ==
    ASSUME NEW codecs \in SUBSET Codecs, codecs # {}
    PROVE  Best(codecs) \in codecs
  <1>1. CASE codecs \subseteq {Software}
    BY <1>1 DEF Best
  <1>2. CASE ~ (codecs \subseteq {Software})
    <2> DEFINE T == {i \in DOMAIN Preference : Preference[i] \in codecs}
    <2>1. T \in SUBSET Nat /\ T # {}
      BY <1>2, PreferenceIs DEF Codecs
    <2>2. PICK i \in T : \A j \in T : i <= j
      BY <2>1, LeastNumber
    <2>3. ASSUME NEW j \in 1 .. i - 1 PROVE Preference[j] \notin codecs
      <3>1. j \in DOMAIN Preference /\ i \in Nat /\ j \in Nat /\ j < i
        BY <2>1, PreferenceIs
      <3> QED
        BY <2>2, <3>1
    <2>4. \E c \in codecs : \E k \in DOMAIN Preference :
            c = Preference[k] /\ \A j \in 1 .. k - 1 : Preference[j] \notin codecs
      BY <2>3
    <2> QED
      BY <1>2, <2>4 DEF Best
  <1> QED
    BY <1>1, <1>2

-----------------------------------------------------------------------------
\* The inductive invariant.

States  == DOMAIN Allowed
Phases  == {"starting", "preparing", "opened", "refused", "joined", "gone"}
Served  == phase \in {"opened", "joined"}
Locked  == Served /\ m_sessionLocked
Running == Locked /\ IsOpen(m_encoder)

\* Types, with those of the history variables.  A client that is served has an
\* encoder object and a codec.
Typed ==
    /\ m_state \in States
    /\ m_currentTier \in Tiers
    /\ m_capabilities \subseteq Codecs
    /\ m_sessionLocked \in BOOLEAN
    /\ m_lockedCodecName \in Codecs \cup {NoCodec}
    /\ made \in Nat
    /\ m_d3d11Device \in 1 .. made \cup {NoDevice}
    /\ device \in 1 .. made \cup {NoDevice}
    /\ m_encoder \in Encoders(Codecs \cup {NoCodec}, 1 .. made \cup {NoDevice}) \cup {NoEncoder}
    /\ phase \in Phases
    /\ Served => m_encoder # NoEncoder /\ m_lockedCodecName \in Codecs
    /\ frame # NoFrame => phase = "joined" /\ capturing
    /\ capturing => device # NoDevice
    /\ made <= MaxDevices

\* The open encoder of a locked session is the one the manager believes it is,
\* on the device the manager was given.
Agrees ==
    Running => /\ m_encoder.codec = m_lockedCodecName
               /\ m_encoder.size = Size(m_currentTier)
               /\ m_encoder.device = m_d3d11Device

\* Fallback is in software; a client is served unlocked only after it was shut down.
StateIs ==
    /\ m_state = "EMERGENCY_FALLBACK" => m_lockedCodecName = Software
    /\ phase = "opened" => m_sessionLocked /\ IsOpen(m_encoder) /\ m_encoder.forceKeyframe
    /\ phase = "joined" /\ ~ m_sessionLocked => m_state = "SHUTDOWN"

\* The manager's device is the capture's, but for a client that joined with another.
OnDevice == phase = "joined" /\ m_sessionLocked /\ capturing /\ ~ raced => m_d3d11Device = device

\* A keyframe that is owed is the next frame of the encoder.
Forced == phase = "joined" /\ Due /\ IsOpen(m_encoder) => m_encoder.forceKeyframe

\* The frame in hand.
InHand ==
    frame # NoFrame =>
        /\ frame.replaced \in BOOLEAN
        /\ "replaced" \in DOMAIN frame
        /\ ~ frame.replaced => m_encoder.codec = frame.codec
        /\ m_sessionLocked /\ ~ raced => frame.shows # "old"

EncoderInv == Typed /\ Agrees /\ StateIs /\ OnDevice /\ Forced /\ InHand

-----------------------------------------------------------------------------
LEMMA Names ==
    /\ Software \in Codecs
    /\ NoCodec \notin Codecs
    /\ \A codecs \in SUBSET Codecs : Best(codecs) \in Codecs
  <1>1. ASSUME NEW codecs \in SUBSET Codecs PROVE Best(codecs) \in Codecs
    <2>1. CASE codecs = {}
      BY <2>1 DEF Best, Codecs
    <2>2. CASE codecs # {}
      BY <2>2, BestIs
    <2> QED
      BY <2>1, <2>2
  <1> QED
    BY <1>1, PreferenceIs DEF Codecs

\* A transition is made or is not.
LEMMA MovedIs ==
    ASSUME NEW s \in States, NEW n \in States
    PROVE  Moved(s, n) \in {s, n}
  BY DEF Moved

LEMMA StatesAre ==
    States = {"IDLE", "STARTING", "PREFLIGHT_VALIDATION", "READY", "STREAMING", "DEGRADED",
              "RECOVERING", "EMERGENCY_FALLBACK", "SHUTDOWN"}
  BY DEF States, Allowed

\* Where the sequences of transitions of Initialize lead, from every state.
LEMMA MovesOfInitialize ==
    ASSUME NEW s \in States
    PROVE  LET t == Moved(Moved(s, "STARTING"), "PREFLIGHT_VALIDATION")
           IN  /\ t \in States
               /\ Moved(t, "SHUTDOWN") = "SHUTDOWN"
               /\ Moved(t, "READY") \in States
  BY StatesAre DEF Moved, Allowed

LEMMA MovesAtTheEnd ==
    /\ Moved("EMERGENCY_FALLBACK", "STREAMING") = "STREAMING"
    /\ Moved("EMERGENCY_FALLBACK", "SHUTDOWN") = "SHUTDOWN"
    /\ Moved("SHUTDOWN", "DEGRADED") = "SHUTDOWN"
    /\ Moved("SHUTDOWN", "EMERGENCY_FALLBACK") = "SHUTDOWN"
    /\ \A s \in States : /\ Moved(s, "DEGRADED") \in States
                         /\ Moved(s, "DEGRADED") = "EMERGENCY_FALLBACK" => s = "EMERGENCY_FALLBACK"
                         /\ Moved(s, "EMERGENCY_FALLBACK") \in States
                         /\ Moved(s, "STREAMING") \in States \ {"EMERGENCY_FALLBACK"}
                         /\ Moved(s, "SHUTDOWN") \in States \ {"EMERGENCY_FALLBACK"}
  BY StatesAre DEF Moved, Allowed

LEMMA SizeIs == \A tier \in Tiers : Size(tier) \in {"base", "720p", "480p"}
  BY EncoderAssumption DEF Size, Tiers

-----------------------------------------------------------------------------
\* What an attempt to open an encoder leaves, on a set of devices D.

Devices(D) == NoDevice \in D /\ D \subseteq Nat \cup {NoDevice}
Typical(D) == Encoders(Codecs \cup {NoCodec}, D)

LEMMA NoEncoderIsNone ==
    ASSUME NEW D, Devices(D)
    PROVE  NoEncoder \notin Typical(D)
  <1>1. Typical(D) \subseteq Encoders(ToSet(Preference) \cup {Software, NoCodec},
                                     Nat \cup {NoDevice})
    BY DEF Typical, Devices, Encoders, Codecs
  <1> QED
    BY <1>1, EncoderAssumption

LEMMA OpenedIs ==
    ASSUME NEW D, Devices(D), NEW e \in Typical(D) \cup {NoEncoder}, NEW codec \in Codecs,
           NEW tier \in Tiers, NEW d \in D, NEW opens, NEW r, r = Opened(e, codec, tier, d, opens)
    PROVE  /\ r \in Typical(D)
           /\ r # NoEncoder
           /\ IsOpen(r) => r.codec = codec /\ r.size = Size(tier) /\ r.device = d /\ r.forceKeyframe
           /\ ~ IsOpen(r) => r.codec = NoCodec
  <1> DEFINE c == Closed(e)
  <1>1. c \in Typical(D) /\ c.codec = NoCodec
    BY DEF Closed, Typical, Encoders, IsForced, Devices
  <1>2. Size(tier) \in {"base", "720p", "480p", "none"}
    BY SizeIs
  <1>3. CASE codec \in opens
    <2>1. PICK i : i = InitializeHW(e, codec, Size(tier), d, opens)
      OBVIOUS
    <2>2. i = [c EXCEPT !.codec = codec, !.size = Size(tier), !.device = d]
      BY <1>3, <2>1 DEF InitializeHW
    <2>3. i \in Typical(D) /\ i.codec = codec /\ i.size = Size(tier) /\ i.device = d
      BY <1>1, <1>2, <2>2 DEF Typical, Encoders
    <2>4. IsOpen(i)
      BY <2>3, NoEncoderIsNone, Names DEF IsOpen
    <2>5. r = [i EXCEPT !.forceKeyframe = TRUE]
      BY <2>1, <2>4 DEF Opened
    <2>6. /\ r \in Typical(D) /\ r.codec = codec /\ r.size = Size(tier) /\ r.device = d
          /\ r.forceKeyframe
      BY <2>3, <2>5 DEF Typical, Encoders
    <2> QED
      BY <2>6, NoEncoderIsNone, Names DEF IsOpen
  <1>4. CASE codec \notin opens
    <2>1. ~ IsOpen(c)
      BY <1>1 DEF IsOpen
    <2>2. r = c
      BY <1>4, <2>1 DEF Opened, InitializeHW
    <2> QED
      BY <1>1, <2>1, <2>2, NoEncoderIsNone
  <1> QED
    BY <1>3, <1>4

\* An outcome: the encoder is open with what the outcome says, or closed.
Sound(r, D, tier, d) ==
    /\ r.tier = tier
    /\ r.state \in States
    /\ r.locked \in Codecs \cup {NoCodec}
    /\ r.encoder \in Typical(D)
    /\ r.encoder # NoEncoder
    /\ IsOpen(r.encoder) => /\ r.encoder.size = Size(tier)
                            /\ r.encoder.device = d
                            /\ r.encoder.forceKeyframe

LEMMA EmergencyIs ==
    ASSUME NEW D, Devices(D), NEW e \in Typical(D) \cup {NoEncoder}, NEW tier \in Tiers,
           NEW state \in States, NEW d \in D, NEW opens, NEW r,
           r = Emergency(tier, state, e, d, opens)
    PROVE  /\ Sound(r, D, tier, d)
           /\ r.locked = Software
           /\ r.state = Moved(state, "EMERGENCY_FALLBACK")
           /\ IsOpen(r.encoder) => r.encoder.codec = Software
           /\ ~ IsOpen(r.encoder) => r.encoder.codec = NoCodec
  <1>1. PICK o : o = Opened(e, Software, tier, d, opens)
    OBVIOUS
  <1>2. /\ r.tier = tier /\ r.locked = Software /\ r.encoder = o
        /\ r.state = Moved(state, "EMERGENCY_FALLBACK")
    BY <1>1 DEF Emergency, Attempt
  <1>3. r.state \in States
    BY <1>2, MovesAtTheEnd
  <1>4. Software \in Codecs
    BY Names
  <1>5. /\ o \in Typical(D)
        /\ o # NoEncoder
        /\ IsOpen(o) => o.codec = Software /\ o.size = Size(tier) /\ o.device = d /\ o.forceKeyframe
        /\ ~ IsOpen(o) => o.codec = NoCodec
    BY <1>1, <1>4, OpenedIs
  <1> QED
    BY <1>2, <1>3, <1>4, <1>5 DEF Sound

\* SelectAndInit with the codec that is tried first and the encoder it is tried in.
Outcome(codec, locked, tier, state, old, d, opens) ==
    IF IsOpen(Opened(old, codec, tier, d, opens))
    THEN Attempt(tier, state, locked, Opened(old, codec, tier, d, opens))
    ELSE Emergency(tier, state, Opened(old, codec, tier, d, opens), d, opens)

LEMMA OutcomeIs ==
    ASSUME NEW D, Devices(D), NEW e \in Typical(D) \cup {NoEncoder}, NEW tier \in Tiers,
           NEW state \in States, NEW d \in D, NEW opens, NEW codec \in Codecs,
           NEW locked \in Codecs \cup {NoCodec},
           NEW r, r = Outcome(codec, locked, tier, state, e, d, opens)
    PROVE  /\ Sound(r, D, tier, d)
           /\ codec = locked /\ IsOpen(r.encoder) => r.encoder.codec = r.locked
           /\ ~ IsOpen(r.encoder) => r.encoder.codec = NoCodec
           /\ \/ r.locked = locked /\ r.state = state /\ IsOpen(r.encoder)
              \/ r.locked = Software /\ r.state = Moved(state, "EMERGENCY_FALLBACK")
  <1>4. PICK o : o = Opened(e, codec, tier, d, opens)
    OBVIOUS
  <1>5. /\ o \in Typical(D)
        /\ o # NoEncoder
        /\ IsOpen(o) => /\ o.codec = codec /\ o.size = Size(tier) /\ o.device = d
                        /\ o.forceKeyframe
    BY <1>4, OpenedIs
  <1>6. CASE IsOpen(o)
    <2>1. r = Attempt(tier, state, locked, o)
      BY <1>4, <1>6 DEF Outcome
    <2>2. r.tier = tier /\ r.state = state /\ r.locked = locked /\ r.encoder = o
      BY <2>1 DEF Attempt
    <2> QED
      BY <1>5, <1>6, <2>2 DEF Sound
  <1>7. CASE ~ IsOpen(o)
    <2>1. r = Emergency(tier, state, o, d, opens)
      BY <1>4, <1>7 DEF Outcome
    <2>2. /\ Sound(r, D, tier, d)
          /\ r.locked = Software
          /\ r.state = Moved(state, "EMERGENCY_FALLBACK")
          /\ IsOpen(r.encoder) => r.encoder.codec = Software
          /\ ~ IsOpen(r.encoder) => r.encoder.codec = NoCodec
      BY <1>5, <2>1, EmergencyIs
    <2> QED
      BY <2>2
  <1> QED
    BY <1>6, <1>7

-----------------------------------------------------------------------------
D == 1 .. made \cup {NoDevice}

\* What the invariant says of the manager of a served client.
LEMMA ServedIs ==
    ASSUME EncoderInv
    PROVE  /\ Devices(D)
           /\ m_encoder \in Typical(D) \cup {NoEncoder}
           /\ m_d3d11Device \in D
           /\ m_currentTier \in Tiers
           /\ m_state \in States
           /\ m_lockedCodecName \in Codecs \cup {NoCodec}
           /\ m_capabilities \in SUBSET Codecs
           /\ m_sessionLocked \in BOOLEAN
           /\ phase = "joined" => m_lockedCodecName \in Codecs /\ m_encoder # NoEncoder
  BY DEF EncoderInv, Typed, Devices, D, Typical, Served

\* What EncodeFrame starts from.
LEMMA ReadyIs ==
    ASSUME EncoderInv, phase = "joined", NEW opens, MayEncode(opens), NEW r, r = Ready(opens)
    PROVE  /\ r.tier = m_currentTier
           /\ r.state \in States
           /\ r.locked \in Codecs
           /\ r.encoder \in Typical(D)
           /\ r.encoder # NoEncoder
           /\ IsOpen(r.encoder)
           /\ m_sessionLocked => /\ r.encoder.codec = r.locked
                                 /\ r.encoder.size = Size(m_currentTier)
                                 /\ r.encoder.device = m_d3d11Device
           /\ ~ m_sessionLocked => r.state = "SHUTDOWN"
           /\ r.state = "EMERGENCY_FALLBACK" => r.locked = Software
           /\ ~ IsOpen(m_encoder) \/ Due => r.encoder.forceKeyframe
           /\ m_lockedCodecName = Software => r.locked = Software
  <1>0. IsOpen(r.encoder) /\ (IsOpen(m_encoder) \/ m_sessionLocked)
    BY DEF MayEncode
  <1>1. CASE IsOpen(m_encoder)
    <2>1. r = Attempt(m_currentTier, m_state, m_lockedCodecName, m_encoder)
      BY <1>1 DEF Ready
    <2>2. /\ r.tier = m_currentTier /\ r.state = m_state
          /\ r.locked = m_lockedCodecName /\ r.encoder = m_encoder
      BY <2>1 DEF Attempt
    <2>3. m_encoder # NoEncoder
      BY <1>1 DEF IsOpen
    <2> QED
      BY <1>0, <1>1, <2>2, <2>3, ServedIs
         DEF EncoderInv, Agrees, Running, Locked, Served, StateIs, Forced
  <1>2. CASE ~ IsOpen(m_encoder)
    <2>1. m_sessionLocked /\ m_lockedCodecName \in Codecs
      BY <1>0, <1>2, ServedIs
    <2>2. r = Outcome(m_lockedCodecName, m_lockedCodecName, m_currentTier, m_state, m_encoder,
                      m_d3d11Device, opens)
      BY <1>2, <2>1 DEF Ready, SelectAndInit, Candidate, Outcome
    <2>5. /\ Devices(D) /\ m_encoder \in Typical(D) \cup {NoEncoder} /\ m_currentTier \in Tiers
          /\ m_state \in States /\ m_d3d11Device \in D /\ m_capabilities \in SUBSET Codecs
      BY ServedIs
    <2>3. /\ Sound(r, D, m_currentTier, m_d3d11Device)
          /\ IsOpen(r.encoder) => r.encoder.codec = r.locked
          /\ \/ r.locked = m_lockedCodecName /\ r.state = m_state /\ IsOpen(r.encoder)
             \/ r.locked = Software /\ r.state = Moved(m_state, "EMERGENCY_FALLBACK")
      BY <2>5, <2>1, <2>2, OutcomeIs
    <2>4. r.locked \in Codecs
      BY <2>1, <2>3, Names
    <2> QED
      BY <1>0, <1>2, <2>1, <2>3, <2>4 DEF Sound, EncoderInv, StateIs
  <1> QED
    BY <1>1, <1>2

\* EncodeFrame takes the frame.
LEMMA EncodeKeeps ==
    ASSUME EncoderInv, NEW opens, NEW key \in BOOLEAN, NEW kept \in BOOLEAN,
           NEW scaled \in BOOLEAN, Encode(opens, key, kept, scaled)
    PROVE  EncoderInv'
  <1>1. PICK r : r = Ready(opens)
    OBVIOUS
  <1>2. phase = "joined" /\ frame = NoFrame /\ capturing /\ MayEncode(opens)
    BY DEF Encode, EncodeSucceeds
  <1>3. PICK e : e = Encoded(r.encoder, scaled)
    OBVIOUS
  <1>4. /\ r.tier = m_currentTier /\ r.state \in States /\ r.locked \in Codecs
        /\ r.encoder \in Typical(D) /\ r.encoder # NoEncoder /\ IsOpen(r.encoder)
        /\ m_sessionLocked => /\ r.encoder.codec = r.locked
                              /\ r.encoder.size = Size(m_currentTier)
                              /\ r.encoder.device = m_d3d11Device
        /\ ~ m_sessionLocked => r.state = "SHUTDOWN"
        /\ r.state = "EMERGENCY_FALLBACK" => r.locked = Software
        /\ ~ IsOpen(m_encoder) \/ Due => r.encoder.forceKeyframe
    BY <1>1, <1>2, ReadyIs
  <1>5. /\ e \in Typical(D) /\ e.codec = r.encoder.codec /\ e.size = r.encoder.size
        /\ e.device = r.encoder.device
    BY <1>3, <1>4 DEF Encoded, Scaled, Typical, Encoders
  <1>6. e # NoEncoder
    BY <1>5, ServedIs, NoEncoderIsNone
  <1>7. /\ m_currentTier' = r.tier /\ m_state' = r.state /\ m_lockedCodecName' = r.locked
        /\ m_encoder' = e
    BY <1>1, <1>3 DEF Encode, EncodeSucceeds, Adopt
  <1>8. UNCHANGED <<m_capabilities, m_sessionLocked, m_d3d11Device, phase, made, device,
                    capturing, raced>>
    BY DEF Encode, EncodeSucceeds, captureVars
  <1>9. ~ Due'
    <2>1. IsForced(r.encoder) => key
      BY <1>1 DEF Encode
    <2>2. /\ owed' = ((owed \/ ~ IsOpen(m_encoder)) /\ ~ (key /\ kept))
          /\ thrown' = (owed' /\ (thrown \/ key))
      BY DEF Encode
    <2>3. ~ IsOpen(m_encoder) \/ Due => key
      BY <1>4, <2>1 DEF IsForced
    <2> QED
      BY <2>2, <2>3 DEF Due
  <1>10. Typed'
    BY <1>2, <1>4, <1>5, <1>6, <1>7, <1>8, ServedIs
       DEF EncoderInv, Typed, D, Typical, Served
  <1>11. Agrees' /\ StateIs' /\ OnDevice' /\ Forced'
    BY <1>2, <1>4, <1>5, <1>6, <1>7, <1>8, <1>9
       DEF EncoderInv, Agrees, Running, Locked, Served, StateIs, OnDevice, Forced
  <1>12. InHand'
    <2>1. CASE kept
      <3>1. frame' = [codec |-> e.codec, key |-> key, replaced |-> FALSE,
                      shows |-> Shows(r.encoder, device, scaled)]
        BY <1>1, <1>7, <2>1 DEF Encode
      <3>2. m_sessionLocked /\ ~ raced => Shows(r.encoder, device, scaled) # "old"
        BY <1>2, <1>4 DEF Shows, EncoderInv, OnDevice
      <3> QED
        BY <1>7, <1>8, <3>1, <3>2 DEF InHand
    <2>2. CASE ~ kept
      BY <2>2 DEF Encode, InHand
    <2> QED
      BY <2>1, <2>2
  <1> QED
    BY <1>10, <1>11, <1>12 DEF EncoderInv

\* The manager of a joined client takes over an outcome.
LEMMA AdoptKeeps ==
    ASSUME EncoderInv, phase = "joined", NEW r, Adopt(r),
           UNCHANGED <<m_capabilities, m_sessionLocked, m_d3d11Device, phase, captureVars, raced>>,
           r.tier \in Tiers, r.state \in States, r.locked \in Codecs,
           r.encoder \in Typical(D), r.encoder # NoEncoder,
           m_sessionLocked /\ IsOpen(r.encoder)
             => /\ r.encoder.codec = r.locked
                /\ r.encoder.size = Size(r.tier)
                /\ r.encoder.device = m_d3d11Device,
           r.state = "EMERGENCY_FALLBACK" => r.locked = Software,
           ~ m_sessionLocked => r.state = "SHUTDOWN",
           frame' # NoFrame => frame # NoFrame,
           Due' /\ IsOpen(r.encoder) => r.encoder.forceKeyframe,
           InHand'
    PROVE  EncoderInv'
  <1>1. /\ m_currentTier' = r.tier /\ m_state' = r.state /\ m_lockedCodecName' = r.locked
        /\ m_encoder' = r.encoder
    BY DEF Adopt
  <1>2. Typed'
    BY <1>1 DEF EncoderInv, Typed, captureVars, D, Typical, Served
  <1>3. Agrees' /\ StateIs'
    BY <1>1 DEF Agrees, StateIs, Running, Locked, Served, IsOpen
  <1>4. OnDevice' /\ Forced'
    BY <1>1 DEF EncoderInv, OnDevice, Forced, captureVars, IsOpen
  <1> QED
    BY <1>2, <1>3, <1>4 DEF EncoderInv

\* EncodeFrame fails, and the software encoder takes over if it can.
LEMMA EncodeLostKeeps ==
    ASSUME EncoderInv, NEW opens, NEW forced \in BOOLEAN, EncodeLost(opens, forced)
    PROVE  EncoderInv'
  <1>1. /\ phase = "joined" /\ frame = NoFrame /\ frame' = NoFrame
        /\ UNCHANGED <<phase, captureVars, raced>>
        /\ Owes(IsOpen(m_encoder'))
    BY DEF EncodeLost
  <1>2. InHand'
    BY <1>1 DEF InHand
  <1>3. CASE EncodeFails(opens, forced)
    <2>1. PICK q : q = Ready(opens)
      OBVIOUS
    <2>2. PICK e : e = [q.encoder EXCEPT !.forceKeyframe = forced /\ q.encoder.forceKeyframe]
      OBVIOUS
    <2>3. PICK r : r = Emergency(q.tier, q.state, e, m_d3d11Device, opens)
      OBVIOUS
    <2>4. Adopt(r) /\ UNCHANGED <<m_capabilities, m_sessionLocked, m_d3d11Device>>
      BY <1>3, <2>1, <2>2, <2>3 DEF EncodeFails
    <2>5. /\ q.tier = m_currentTier /\ q.state \in States /\ q.encoder \in Typical(D)
          /\ ~ m_sessionLocked => q.state = "SHUTDOWN"
      BY <1>1, <1>3, <2>1, ReadyIs DEF EncodeFails
    <2>6. e \in Typical(D)
      BY <2>2, <2>5 DEF Typical, Encoders
    <2>7. Devices(D) /\ m_d3d11Device \in D /\ m_currentTier \in Tiers
      BY ServedIs
    <2>8. /\ Sound(r, D, m_currentTier, m_d3d11Device)
          /\ r.locked = Software
          /\ r.state = Moved(q.state, "EMERGENCY_FALLBACK")
          /\ IsOpen(r.encoder) => r.encoder.codec = Software
      BY <2>3, <2>5, <2>6, <2>7, EmergencyIs
    <2>9. ~ m_sessionLocked => r.state = "SHUTDOWN"
      BY <2>5, <2>8, MovesAtTheEnd
    <2> QED
      BY <1>1, <1>2, <2>4, <2>7, <2>8, <2>9, Names, AdoptKeeps DEF Sound
  <1>4. CASE CannotEncode(opens) /\ ~ m_sessionLocked
    <2>1. UNCHANGED managerVars /\ ~ IsOpen(m_encoder)
      BY <1>4 DEF CannotEncode
    <2> QED
      BY <1>1, <2>1 DEF managerVars, captureVars, EncoderInv, Typed, Agrees, StateIs, OnDevice,
                        Forced, InHand, Running, Locked, Served, IsOpen
  <1>5. CASE CannotEncode(opens) /\ m_sessionLocked
    <2>1. PICK r : r = Outcome(m_lockedCodecName, m_lockedCodecName, m_currentTier, m_state,
                               m_encoder, m_d3d11Device, opens)
      OBVIOUS
    <2>2. /\ Adopt(r) /\ ~ IsOpen(r.encoder)
          /\ UNCHANGED <<m_capabilities, m_sessionLocked, m_d3d11Device>>
      BY <1>5, <2>1 DEF CannotEncode, SelectAndInit, Candidate, Outcome
    <2>3. /\ Devices(D) /\ m_encoder \in Typical(D) \cup {NoEncoder} /\ m_currentTier \in Tiers
          /\ m_state \in States /\ m_d3d11Device \in D /\ m_lockedCodecName \in Codecs
      BY <1>1, ServedIs
    <2>4. /\ Sound(r, D, m_currentTier, m_d3d11Device)
          /\ r.locked = Software /\ r.state = Moved(m_state, "EMERGENCY_FALLBACK")
      BY <2>1, <2>2, <2>3, OutcomeIs
    <2> QED
      BY <1>1, <1>2, <1>5, <2>2, <2>3, <2>4, Names, AdoptKeeps DEF Sound
  <1> QED
    BY <1>3, <1>4, <1>5 DEF EncodeLost

\* UpdatePerformanceMetrics lowers the tier, with the encoder there is or another.
LEMMA LoweredKeeps ==
    ASSUME EncoderInv, NEW opens, Lowered(opens)
    PROVE  EncoderInv'
  <1> DEFINE lower == m_currentTier + 1
             state == Moved(m_state, "DEGRADED")
  <1>1. /\ phase = "joined" /\ Downgrade(opens)
        /\ UNCHANGED <<phase, captureVars, raced>>
    BY DEF Lowered
  <1>2. /\ Devices(D) /\ m_encoder \in Typical(D) /\ m_encoder # NoEncoder
        /\ m_state \in States /\ m_d3d11Device \in D /\ m_lockedCodecName \in Codecs
        /\ m_capabilities \in SUBSET Codecs
    BY <1>1, ServedIs
  <1>3. lower \in Tiers
    BY <1>1, ServedIs DEF Downgrade, Tiers
  <1>4. /\ state \in States
        /\ state = "EMERGENCY_FALLBACK" => m_lockedCodecName = Software
        /\ ~ m_sessionLocked => state = "SHUTDOWN"
    BY <1>1, <1>2, MovesAtTheEnd DEF EncoderInv, StateIs
  <1>5. UNCHANGED <<m_capabilities, m_sessionLocked, m_d3d11Device>>
    BY <1>1 DEF Downgrade
  <1>6. frame' = IF frame = NoFrame THEN NoFrame
                 ELSE [frame EXCEPT !.replaced = frame.replaced
                                                   \/ ~ KeepsEncoder(m_currentTier, lower)]
    BY DEF Lowered
  <1>7. Owes(~ KeepsEncoder(m_currentTier, lower) /\ IsOpen(m_encoder'))
    BY DEF Lowered
  <1> HIDE DEF lower, state
  <1>8. CASE KeepsEncoder(m_currentTier, lower)
    <2>1. PICK r : r = Attempt(lower, state, m_lockedCodecName, m_encoder)
      OBVIOUS
    <2>2. Adopt(r)
      BY <1>1, <1>8, <2>1 DEF Downgrade, lower, state
    <2>3. r.tier = lower /\ r.state = state /\ r.locked = m_lockedCodecName /\ r.encoder = m_encoder
      BY <2>1 DEF Attempt
    <2>4. InHand'
      BY <1>1, <1>5, <1>6, <1>8, <2>2, <2>3 DEF EncoderInv, InHand, Adopt
    <2>5. Size(lower) = Size(m_currentTier)
      BY <1>8 DEF KeepsEncoder
    <2>6. m_sessionLocked /\ IsOpen(m_encoder)
             => /\ m_encoder.codec = m_lockedCodecName
                /\ m_encoder.size = Size(lower)
                /\ m_encoder.device = m_d3d11Device
      BY <1>1, <2>5 DEF EncoderInv, Agrees, Running, Locked, Served
    <2>7. Due' /\ IsOpen(m_encoder) => m_encoder.forceKeyframe
      BY <1>1, <1>7, <1>8 DEF EncoderInv, Forced, Owes, Due
    <2> QED
      BY <1>1, <1>2, <1>3, <1>4, <1>5, <1>6, <2>2, <2>3, <2>4, <2>6, <2>7, AdoptKeeps
  <1>9. CASE ~ KeepsEncoder(m_currentTier, lower)
    <2>1. PICK codec \in Codecs :
             codec = Candidate(m_sessionLocked, m_lockedCodecName, m_capabilities)
      BY <1>2, Names DEF Candidate
    <2>2. PICK old \in Typical(D) \cup {NoEncoder} :
             old = IF m_sessionLocked THEN m_encoder ELSE NoEncoder
      BY <1>2
    <2>3. PICK r : r = Outcome(codec, m_lockedCodecName, lower, state, old, m_d3d11Device, opens)
      OBVIOUS
    <2>4. Adopt(r)
      BY <1>1, <1>9, <2>1, <2>2, <2>3 DEF Downgrade, SelectAndInit, Outcome, lower, state
    <2>5. m_sessionLocked => codec = m_lockedCodecName
      BY <2>1 DEF Candidate
    <2>6. /\ Sound(r, D, lower, m_d3d11Device)
          /\ codec = m_lockedCodecName /\ IsOpen(r.encoder) => r.encoder.codec = r.locked
          /\ \/ r.locked = m_lockedCodecName /\ r.state = state /\ IsOpen(r.encoder)
             \/ r.locked = Software /\ r.state = Moved(state, "EMERGENCY_FALLBACK")
      <3>1. /\ Devices(D) /\ old \in Typical(D) \cup {NoEncoder} /\ lower \in Tiers
            /\ state \in States /\ m_d3d11Device \in D /\ codec \in Codecs
            /\ m_lockedCodecName \in Codecs \cup {NoCodec}
        BY <1>2, <1>3, <1>4
      <3> QED
        BY <3>1, <2>3, OutcomeIs
    <2>7. InHand'
      <3>1. CASE frame = NoFrame
        BY <1>6, <3>1 DEF InHand
      <3>2. CASE frame # NoFrame
        <4>1. /\ frame.replaced \in BOOLEAN /\ "replaced" \in DOMAIN frame
              /\ m_sessionLocked /\ ~ raced => frame.shows # "old"
          BY <3>2 DEF EncoderInv, InHand
        <4>2. frame' = [frame EXCEPT !.replaced = TRUE]
          BY <1>6, <1>9, <3>2, <4>1
        <4>3. /\ frame'.replaced = TRUE /\ DOMAIN frame' = DOMAIN frame
              /\ frame'.shows = frame.shows
          BY <4>1, <4>2
        <4> QED
          BY <1>1, <1>5, <4>1, <4>3 DEF InHand
      <3> QED
        BY <3>1, <3>2
    <2>8. ~ m_sessionLocked => r.state = "SHUTDOWN"
      BY <1>4, <2>6, MovesAtTheEnd
    <2>9. /\ r.tier \in Tiers /\ r.state \in States /\ r.locked \in Codecs
          /\ r.encoder \in Typical(D) /\ r.encoder # NoEncoder
          /\ IsOpen(r.encoder) => r.encoder.forceKeyframe
          /\ r.state = "EMERGENCY_FALLBACK" => r.locked = Software
      BY <1>2, <1>3, <1>4, <2>6, Names DEF Sound
    <2>10. m_sessionLocked /\ IsOpen(r.encoder)
             => /\ r.encoder.codec = r.locked
                /\ r.encoder.size = Size(r.tier)
                /\ r.encoder.device = m_d3d11Device
      BY <2>5, <2>6 DEF Sound
    <2> QED
      BY <1>1, <1>5, <1>6, <2>4, <2>7, <2>8, <2>9, <2>10, AdoptKeeps
  <1> QED
    BY <1>8, <1>9

-----------------------------------------------------------------------------
\* Initialize, on a device of a set X that contains those of D.

LEMMA InitializeFailsIs ==
    ASSUME EncoderInv, NEW d, NEW detected, NEW tested,
           InitializeFails(UseHardware, d, detected, tested)
    PROVE  /\ m_state' = "SHUTDOWN" /\ m_currentTier' = 0 /\ m_sessionLocked' = FALSE
           /\ m_capabilities' \in SUBSET Codecs
           /\ m_d3d11Device' = d
           /\ UNCHANGED <<m_lockedCodecName, m_encoder>>
  <1>1. Detected(UseHardware, detected) \subseteq Codecs
    BY Names DEF Detected
  <1>2. Moved(Started, "SHUTDOWN") = "SHUTDOWN"
    BY ServedIs, MovesOfInitialize DEF Started
  <1> QED
    BY <1>1, <1>2 DEF InitializeFails

\* The codec of the preflight test is tried first, and locked.
LEMMA PreferredOutcomeIs ==
    ASSUME NEW X, Devices(X), NEW e \in Typical(X) \cup {NoEncoder}, NEW d \in X, NEW opens,
           NEW codec \in Codecs, NEW state \in States,
           NEW r, r = Outcome(codec, codec, 0, state, e, d, opens)
    PROVE  /\ Sound(r, X, 0, d)
           /\ IsOpen(r.encoder) => r.encoder.codec = r.locked
           /\ r.locked = codec \/ r.locked = Software
  <1>1. PICK tier \in Tiers : tier = 0
    BY DEF Tiers
  <1>2. PICK locked \in Codecs \cup {NoCodec} : locked = codec
    OBVIOUS
  <1>3. r = Outcome(codec, locked, tier, state, e, d, opens)
    BY <1>1, <1>2
  <1>4. /\ Sound(r, X, tier, d)
        /\ codec = locked /\ IsOpen(r.encoder) => r.encoder.codec = r.locked
        /\ \/ r.locked = locked /\ r.state = state /\ IsOpen(r.encoder)
           \/ r.locked = Software /\ r.state = Moved(state, "EMERGENCY_FALLBACK")
    BY <1>3, OutcomeIs
  <1> QED
    BY <1>1, <1>2, <1>4

LEMMA InitializeRunsIs ==
    ASSUME EncoderInv, NEW X, Devices(X), m_encoder \in Typical(X) \cup {NoEncoder},
           NEW d \in X, NEW detected, NEW tested, NEW opens,
           InitializeRuns(UseHardware, d, detected, tested, opens)
    PROVE  /\ m_state' \in States \ {"EMERGENCY_FALLBACK"}
           /\ m_currentTier' = 0 /\ m_sessionLocked' = TRUE
           /\ m_capabilities' \in SUBSET Codecs
           /\ m_d3d11Device' = d
           /\ m_lockedCodecName' \in Codecs
           /\ m_encoder' \in Typical(X) /\ m_encoder' # NoEncoder
           /\ IsOpen(m_encoder') => /\ m_encoder'.codec = m_lockedCodecName'
                                    /\ m_encoder'.size = Size(0)
                                    /\ m_encoder'.device = d
                                    /\ m_encoder'.forceKeyframe
  <1>1. /\ m_capabilities' \in SUBSET Codecs /\ m_sessionLocked' = TRUE /\ m_d3d11Device' = d
        /\ m_capabilities' \cap tested # {}
    BY Names DEF InitializeRuns, Detected
  <1>2. PICK codec \in Codecs : codec = PreflightChoice(m_capabilities', tested)
    BY <1>1, Names DEF PreflightChoice
  <1>3. PICK state \in States : state = Moved(Started, "READY")
    BY ServedIs, MovesOfInitialize DEF Started
  <1>4. PICK r : r = Outcome(codec, codec, 0, state, m_encoder, d, opens)
    OBVIOUS
  <1>5. PICK q : q = [r EXCEPT !.state =
                        Moved(r.state, IF IsOpen(r.encoder) THEN "STREAMING" ELSE "SHUTDOWN")]
    OBVIOUS
  <1>6. Adopt(q)
    <2>1. SelectAndInit(m_sessionLocked', codec, m_capabilities', 0, state, m_encoder, d, opens) = r
      BY <1>1, <1>4 DEF SelectAndInit, Candidate, Outcome
    <2>2. LET t == SelectAndInit(m_sessionLocked', codec, m_capabilities', 0, state, m_encoder, d,
                                 opens)
          IN  Adopt([t EXCEPT !.state =
                        Moved(t.state, IF IsOpen(t.encoder) THEN "STREAMING" ELSE "SHUTDOWN")])
      BY <1>2, <1>3 DEF InitializeRuns
    <2> QED
      BY <1>5, <2>1, <2>2
  <1>7. 0 \in Tiers
    BY DEF Tiers
  <1>8. /\ Sound(r, X, 0, d)
        /\ IsOpen(r.encoder) => r.encoder.codec = r.locked
        /\ r.locked = codec \/ r.locked = Software
    <2>1. PICK e \in Typical(X) \cup {NoEncoder} : e = m_encoder
      OBVIOUS
    <2> QED
      BY <1>4, <2>1, PreferredOutcomeIs
  <1>9. DOMAIN r = {"tier", "state", "locked", "encoder"}
    BY <1>4 DEF Outcome, Emergency, Attempt
  <1>10. /\ q.tier = r.tier /\ q.locked = r.locked /\ q.encoder = r.encoder
         /\ q.state = Moved(r.state, IF IsOpen(r.encoder) THEN "STREAMING" ELSE "SHUTDOWN")
    BY <1>5, <1>9
  <1>11. q.state \in States \ {"EMERGENCY_FALLBACK"}
    BY <1>8, <1>10, MovesAtTheEnd DEF Sound
  <1> QED
    BY <1>1, <1>6, <1>8, <1>10, <1>11, Names DEF Adopt, Sound

\* The first Initialize of a client, by its own thread.
LEMMA InitializeKeepsInv ==
    ASSUME EncoderInv, NEW driver, Initialize(driver)
    PROVE  EncoderInv'
  <1>1. /\ phase = "preparing" /\ frame = NoFrame /\ frame' = NoFrame
        /\ UNCHANGED <<captureVars, owed, thrown, raced>>
    BY DEF Initialize, debtVars, EncoderInv, Typed
  <1>2. CASE /\ InitializeFails(UseHardware, m_d3d11Device, driver[1], driver[2])
             /\ phase' = "refused"
    <2>1. /\ m_state' = "SHUTDOWN" /\ m_currentTier' = 0 /\ m_sessionLocked' = FALSE
          /\ m_capabilities' \in SUBSET Codecs
          /\ UNCHANGED <<m_lockedCodecName, m_encoder, m_d3d11Device>>
      BY <1>2, InitializeFailsIs
    <2>2. "SHUTDOWN" \in States /\ 0 \in Tiers
      BY StatesAre DEF Tiers
    <2> QED
      BY <1>1, <1>2, <2>1, <2>2 DEF EncoderInv, Typed, Agrees, StateIs, OnDevice, Forced, InHand,
                                    Running, Locked, Served, captureVars, Phases
  <1>3. CASE /\ InitializeRuns(UseHardware, m_d3d11Device, driver[1], driver[2], driver[3])
             /\ phase' = IF IsOpen(m_encoder') THEN "opened" ELSE "refused"
    <2>1. /\ m_state' \in States \ {"EMERGENCY_FALLBACK"}
          /\ m_currentTier' = 0 /\ m_sessionLocked' = TRUE
          /\ m_capabilities' \in SUBSET Codecs
          /\ m_d3d11Device' = m_d3d11Device
          /\ m_lockedCodecName' \in Codecs
          /\ m_encoder' \in Typical(D) /\ m_encoder' # NoEncoder
          /\ IsOpen(m_encoder') => /\ m_encoder'.codec = m_lockedCodecName'
                                   /\ m_encoder'.size = Size(0)
                                   /\ m_encoder'.device = m_d3d11Device
                                   /\ m_encoder'.forceKeyframe
      BY <1>3, ServedIs, InitializeRunsIs
    <2>2. 0 \in Tiers
      BY DEF Tiers
    <2>3. Typed'
      BY <1>1, <1>3, <2>1, <2>2 DEF EncoderInv, Typed, captureVars, D, Typical, Served, Phases
    <2>4. Agrees'
      BY <2>1 DEF Agrees, Running, IsOpen
    <2>5. StateIs' /\ OnDevice' /\ Forced' /\ InHand'
      BY <1>1, <1>3, <2>1 DEF StateIs, OnDevice, Forced, InHand, IsOpen
    <2> QED
      BY <2>3, <2>4, <2>5 DEF EncoderInv
  <1> QED
    BY <1>2, <1>3 DEF Initialize

\* The capture has a device again, and Initialize follows for a joined client.
LEMMA DeviceLostKeeps ==
    ASSUME EncoderInv, NEW driver, DeviceLost(driver)
    PROVE  EncoderInv'
  <1>1. /\ frame = NoFrame /\ frame' = NoFrame /\ phase' = phase /\ capturing' = TRUE
        /\ raced' = FALSE /\ MakeDevice
    BY DEF DeviceLost
  <1>2. /\ made' \in Nat /\ made <= made' /\ made' <= MaxDevices
        /\ device' \in 1 .. made' /\ device' # NoDevice
    <2>1. /\ made \in Nat /\ made <= MaxDevices /\ device \in 1 .. made \cup {NoDevice}
          /\ MaxDevices \in Nat /\ NoDevice \notin 1 .. MaxDevices
      BY UseAssumption DEF EncoderInv, Typed
    <2>2. CASE device = NoDevice
      <3>1. made < MaxDevices /\ made' = made + 1 /\ device' = made'
        BY <1>1, <2>2 DEF MakeDevice
      <3>2. made' \in 1 .. made' /\ made' \in 1 .. MaxDevices
        BY <2>1, <3>1
      <3> QED
        BY <2>1, <3>1, <3>2
    <2>3. CASE device # NoDevice
      BY <1>1, <2>1, <2>3 DEF MakeDevice
    <2> QED
      BY <2>2, <2>3
  <1>3. PICK X : X = 1 .. made' \cup {NoDevice}
    OBVIOUS
  <1>4. /\ Devices(X) /\ D \subseteq X
        /\ m_encoder \in Typical(X) \cup {NoEncoder} /\ m_d3d11Device \in X
    <2>1. made \in Nat
      BY DEF EncoderInv, Typed
    <2>2. 1 .. made \subseteq 1 .. made'
      BY <1>2, <2>1
    <2>3. Devices(X) /\ D \subseteq X
      BY <1>2, <1>3, <2>2 DEF Devices, D
    <2>4. Typical(D) \subseteq Typical(X)
      BY <2>3 DEF Typical, Encoders
    <2> QED
      BY <2>3, <2>4, ServedIs
  <1>5. PICK d \in X : d = device'
    BY <1>2, <1>3
  <1>6. CASE phase = "joined" /\ InitializeFails(UseHardware, device', driver[1], driver[2])
             /\ UNCHANGED <<owed, thrown>>
    <2>1. InitializeFails(UseHardware, d, driver[1], driver[2])
      BY <1>5, <1>6
    <2>2. /\ m_state' = "SHUTDOWN" /\ m_currentTier' = 0 /\ m_sessionLocked' = FALSE
          /\ m_capabilities' \in SUBSET Codecs
          /\ m_d3d11Device' = d
          /\ UNCHANGED <<m_lockedCodecName, m_encoder>>
      BY <2>1, InitializeFailsIs
    <2>3. "SHUTDOWN" \in States /\ 0 \in Tiers
      BY StatesAre DEF Tiers
    <2>4. Typed'
      BY <1>1, <1>2, <1>3, <1>4, <1>5, <2>2, <2>3 DEF EncoderInv, Typed, Typical, Served
    <2>5. Agrees' /\ StateIs' /\ OnDevice' /\ InHand'
      BY <1>1, <1>6, <2>2 DEF Agrees, Running, Locked, StateIs, OnDevice, InHand
    <2>6. Forced'
      BY <1>1, <1>6, <2>2 DEF EncoderInv, Forced, Due, IsOpen
    <2> QED
      BY <2>4, <2>5, <2>6 DEF EncoderInv
  <1>7. CASE /\ phase = "joined"
             /\ InitializeRuns(UseHardware, device', driver[1], driver[2], driver[3])
             /\ Owes(IsOpen(m_encoder'))
    <2>1. InitializeRuns(UseHardware, d, driver[1], driver[2], driver[3])
      BY <1>5, <1>7
    <2>2. /\ m_state' \in States \ {"EMERGENCY_FALLBACK"}
          /\ m_currentTier' = 0 /\ m_sessionLocked' = TRUE
          /\ m_capabilities' \in SUBSET Codecs
          /\ m_d3d11Device' = d
          /\ m_lockedCodecName' \in Codecs
          /\ m_encoder' \in Typical(X) /\ m_encoder' # NoEncoder
          /\ IsOpen(m_encoder') => /\ m_encoder'.codec = m_lockedCodecName'
                                   /\ m_encoder'.size = Size(0)
                                   /\ m_encoder'.device = d
                                   /\ m_encoder'.forceKeyframe
      BY <1>4, <2>1, InitializeRunsIs
    <2>3. 0 \in Tiers
      BY DEF Tiers
    <2>4. Typed'
      BY <1>1, <1>2, <1>3, <1>5, <1>7, <2>2, <2>3 DEF EncoderInv, Typed, Typical, Served
    <2>5. Agrees'
      BY <2>2 DEF Agrees, Running, IsOpen
    <2>6. StateIs' /\ OnDevice' /\ Forced' /\ InHand'
      BY <1>1, <1>5, <1>7, <2>2 DEF StateIs, OnDevice, Forced, InHand, IsOpen
    <2> QED
      BY <2>4, <2>5, <2>6 DEF EncoderInv
  <1>8. CASE phase # "joined" /\ UNCHANGED <<managerVars, owed, thrown>>
    <2>1. Typed'
      BY <1>1, <1>2, <1>3, <1>4, <1>8 DEF EncoderInv, Typed, Typical, Served, managerVars
    <2>2. Agrees' /\ StateIs' /\ OnDevice' /\ Forced' /\ InHand'
      BY <1>1, <1>8 DEF EncoderInv, Agrees, StateIs, OnDevice, Forced, Due, InHand, Running, Locked,
                        Served, IsOpen, managerVars
    <2> QED
      BY <2>1, <2>2 DEF EncoderInv
  <1> QED
    BY <1>6, <1>7, <1>8 DEF DeviceLost, debtVars

\* capture.Initialize fails; it may have made a device.
LEMMA CaptureFailsKeeps ==
    ASSUME EncoderInv, CaptureFails
    PROVE  EncoderInv'
  <1>1. /\ UNCHANGED <<managerVars, phase, capturing, frame, owed, thrown, raced>> /\ ~ capturing
        /\ made < MaxDevices /\ made' = made + 1 /\ device' = made' /\ frame = NoFrame
    BY DEF CaptureFails, MakeDevice, debtVars
  <1>2. made \in Nat /\ MaxDevices \in Nat
    BY UseAssumption DEF EncoderInv, Typed
  <1>3. /\ made' \in Nat /\ made' <= MaxDevices /\ device' \in 1 .. made'
        /\ 1 .. made \subseteq 1 .. made'
    BY <1>1, <1>2
  <1>4. Encoders(Codecs \cup {NoCodec}, 1 .. made \cup {NoDevice})
          \subseteq Encoders(Codecs \cup {NoCodec}, 1 .. made' \cup {NoDevice})
    BY <1>3 DEF Encoders
  <1>5. Typed'
    BY <1>1, <1>3, <1>4 DEF EncoderInv, Typed, Served, managerVars
  <1>6. Agrees' /\ StateIs' /\ OnDevice' /\ Forced' /\ InHand'
    BY <1>1 DEF EncoderInv, Agrees, StateIs, OnDevice, Forced, Due, InHand, Running, Locked, Served,
                IsOpen, managerVars
  <1> QED
    BY <1>5, <1>6 DEF EncoderInv

\* The steps of the init thread around Initialize.
LEMMA InitThreadKeeps ==
    ASSUME EncoderInv, Prepare \/ Join \/ Destroy
    PROVE  EncoderInv'
  <1>1. CASE Prepare
    BY <1>1 DEF Prepare, EncoderInv, Typed, Agrees, StateIs, OnDevice, Forced, InHand, Running,
                Locked, Served, Phases, captureVars, debtVars, Due
  <1>2. CASE Join
    BY <1>2 DEF Join, EncoderInv, Typed, Agrees, StateIs, OnDevice, Forced, InHand, Running,
                Locked, Served, Phases, IsOpen, captureVars, managerVars, debtVars, Due
  <1>3. CASE Destroy
    <2>1. /\ Moved(m_state, "SHUTDOWN") \in States \ {"EMERGENCY_FALLBACK"}
      BY ServedIs, MovesAtTheEnd
    <2> QED
      BY <1>3, <2>1 DEF Destroy, Shutdown, EncoderInv, Typed, Agrees, StateIs, OnDevice, Forced,
                        InHand, Running, Locked, Served, Phases, captureVars, debtVars, Due
  <1> QED
    BY <1>1, <1>2, <1>3

\* A keyframe is asked for.
LEMMA AskedKeeps ==
    ASSUME EncoderInv, AskedKeyframe
    PROVE  EncoderInv'
  <1>1. /\ m_encoder \in Typical(D) /\ m_encoder # NoEncoder /\ Devices(D) /\ phase = "joined"
    BY ServedIs DEF AskedKeyframe
  <1>2. m_encoder' = [m_encoder EXCEPT !.forceKeyframe = TRUE]
    BY <1>1 DEF AskedKeyframe, RequestKeyframe
  <1>3. /\ m_encoder' \in Typical(D) /\ m_encoder'.codec = m_encoder.codec
        /\ m_encoder'.size = m_encoder.size /\ m_encoder'.device = m_encoder.device
        /\ m_encoder'.forceKeyframe
    BY <1>1, <1>2 DEF Typical, Encoders
  <1>4. m_encoder' # NoEncoder
    BY <1>1, <1>3, NoEncoderIsNone
  <1>5. UNCHANGED <<m_state, m_currentTier, m_capabilities, m_sessionLocked, m_lockedCodecName,
                    m_d3d11Device, phase, captureVars, frame, raced>>
    BY DEF AskedKeyframe, RequestKeyframe
  <1>6. Typed'
    BY <1>1, <1>3, <1>4, <1>5 DEF EncoderInv, Typed, D, Typical, Served, captureVars
  <1>7. Agrees' /\ StateIs' /\ OnDevice' /\ Forced' /\ InHand'
    BY <1>1, <1>3, <1>4, <1>5 DEF EncoderInv, Agrees, StateIs, OnDevice, Forced, InHand, Running,
                                  Locked, Served, IsOpen, captureVars
  <1> QED
    BY <1>6, <1>7 DEF EncoderInv

\* The steps that leave the manager alone.
LEMMA QuietKeeps ==
    ASSUME EncoderInv, Push \/ TimedOut \/ CaptureLost \/ Crash \/ UNCHANGED vars
    PROVE  EncoderInv'
  <1>1. CASE Push
    BY <1>1 DEF Push, EncoderInv, Typed, Agrees, StateIs, OnDevice, Forced, InHand, Running,
                Locked, Served, Phases, IsOpen, captureVars, managerVars, debtVars, Due
  <1>2. CASE TimedOut
    BY <1>2 DEF TimedOut, EncoderInv, Typed, Agrees, StateIs, OnDevice, Forced, InHand, Running,
                Locked, Served, Phases, IsOpen, captureVars, managerVars, debtVars, Due
  <1>3. CASE CaptureLost
    BY <1>3 DEF CaptureLost, EncoderInv, Typed, Agrees, StateIs, OnDevice, Forced, InHand, Running,
                Locked, Served, Phases, IsOpen, captureVars, managerVars, debtVars, Due
  <1>4. CASE Crash \/ UNCHANGED vars
    <2>1. UNCHANGED <<managerVars, phase, captureVars, frame, owed, thrown, raced>>
      BY <1>4 DEF Crash, vars, useVars, debtVars
    <2> QED
      BY <2>1 DEF EncoderInv, Typed, Agrees, StateIs, OnDevice, Forced, InHand, Running,
                  Locked, Served, Phases, IsOpen, captureVars, managerVars, debtVars, Due
  <1> QED
    BY <1>1, <1>2, <1>3, <1>4

\* The client comes back with a new manager.
LEMMA TryAgainKeeps ==
    ASSUME EncoderInv, TryAgain
    PROVE  EncoderInv'
  <1>1. "IDLE" \in States /\ 0 \in Tiers
    BY StatesAre DEF Tiers
  <1> QED
    BY <1>1 DEF TryAgain, EncoderInv, Typed, Agrees, StateIs, OnDevice, Forced, InHand, Running,
                Locked, Served, Phases, captureVars, debtVars, Due

-----------------------------------------------------------------------------
\* The kinds of step, each with what it is made with.
LEMMA StepKinds ==
    ASSUME [UseNext]_vars
    PROVE  \/ Push \/ TimedOut \/ CaptureLost \/ Crash \/ UNCHANGED vars
           \/ CaptureFails
           \/ \E opens : \E key, kept, scaled \in BOOLEAN : Encode(opens, key, kept, scaled)
           \/ \E opens : \E forced \in BOOLEAN : EncodeLost(opens, forced)
           \/ \E driver \in Drivers : DeviceLost(driver)
           \/ Prepare \/ Join \/ Destroy
           \/ \E driver : Initialize(driver)
           \/ AskedKeyframe
           \/ \E opens : Lowered(opens)
           \/ TryAgain
  BY DEF UseNext, CaptureThread, InitThread, ReceiverThread

LEMMA InitiallyInv == UseInit => EncoderInv
  <1>1. "IDLE" \in States /\ 0 \in Tiers
    BY StatesAre DEF Tiers
  <1>2. 1 <= MaxDevices /\ NoDevice # 1
    BY UseAssumption
  <1> SUFFICES ASSUME UseInit PROVE EncoderInv
    OBVIOUS
  <1>3. made = 1 /\ device = 1 /\ 1 \in Nat /\ 1 \in 1 .. 1 /\ 1 <= MaxDevices
    BY <1>2 DEF UseInit
  <1>4. Typed
    BY <1>1, <1>2, <1>3 DEF UseInit, ManagerInit, Typed, Served, Phases
  <1>5. Agrees /\ StateIs /\ OnDevice /\ Forced /\ InHand
    BY DEF UseInit, ManagerInit, Agrees, StateIs, OnDevice, Forced, InHand, Running, Locked, Served
  <1> QED
    BY <1>4, <1>5 DEF EncoderInv

LEMMA StepKeepsInv == EncoderInv /\ [UseNext]_vars => EncoderInv'
  <1> SUFFICES ASSUME EncoderInv, [UseNext]_vars
               PROVE  EncoderInv'
    OBVIOUS
  <1>1. CASE Push \/ TimedOut \/ CaptureLost \/ Crash \/ UNCHANGED vars
    BY <1>1, QuietKeeps
  <1>2. CASE CaptureFails
    BY <1>2, CaptureFailsKeeps
  <1>3. CASE \E opens : \E key, kept, scaled \in BOOLEAN : Encode(opens, key, kept, scaled)
    BY <1>3, EncodeKeeps
  <1>4. CASE \E opens : \E forced \in BOOLEAN : EncodeLost(opens, forced)
    BY <1>4, EncodeLostKeeps
  <1>5. CASE \E driver \in Drivers : DeviceLost(driver)
    BY <1>5, DeviceLostKeeps
  <1>6. CASE Prepare \/ Join \/ Destroy
    BY <1>6, InitThreadKeeps
  <1>7. CASE \E driver : Initialize(driver)
    BY <1>7, InitializeKeepsInv
  <1>8. CASE AskedKeyframe
    BY <1>8, AskedKeeps
  <1>9. CASE \E opens : Lowered(opens)
    BY <1>9, LoweredKeeps
  <1>10. CASE TryAgain
    BY <1>10, TryAgainKeeps
  <1> QED
    BY <1>1, <1>2, <1>3, <1>4, <1>5, <1>6, <1>7, <1>8, <1>9, <1>10, StepKinds

\* The invariant of the manager and the three threads around it, whatever codecs
\* there are and whatever the driver opens.
THEOREM EncoderInvariant == UseSpec => []EncoderInv
  BY InitiallyInv, StepKeepsInv, PTL DEF UseSpec

\* The manager's fields, the encoder and the frame keep their types; a client in
\* ctx->clients has an encoder object and a codec.
THEOREM EncoderTypeCorrect == UseSpec => []EncoderTypeOK
  <1>1. EncoderInv => EncoderTypeOK
    BY DEF EncoderInv, Typed, EncoderTypeOK, Served, States
  <1> QED
    BY <1>1, EncoderInvariant, PTL

\* The encoder of a locked session runs the locked codec at the current tier's size.
THEOREM ManagerAgrees == UseSpec => []EncoderAgrees
  <1>1. EncoderInv => EncoderAgrees
    BY DEF EncoderInv, Agrees, EncoderAgrees, Running, Locked, Served
  <1> QED
    BY <1>1, EncoderInvariant, PTL

\* m_state tells of the fallback and of the lost lock.
THEOREM StateIsTold == UseSpec => []StateTells
  <1>1. EncoderInv => StateTells
    BY DEF EncoderInv, StateIs, StateTells
  <1> QED
    BY <1>1, EncoderInvariant, PTL

\* No frame shows an old picture for want of the capture's device.
THEOREM PicturesCurrent == UseSpec => []PictureCurrent
  <1>1. EncoderInv => PictureCurrent
    BY DEF EncoderInv, InHand, PictureCurrent
  <1> QED
    BY <1>1, EncoderInvariant, PTL

\* A frame is marked with the codec that encoded it, unless the receiver thread
\* replaced the encoder before it was.
THEOREM FlagRight == UseSpec => CodecFlagRight
  <1>1. EncoderInv /\ [UseNext]_vars
          => [frame # NoFrame /\ frame' = NoFrame /\ ~ frame.replaced
                => (IsHEVC <=> frame.codec \in Hevc)]_vars
    <2> SUFFICES ASSUME EncoderInv, frame # NoFrame, ~ frame.replaced
                 PROVE  IsHEVC <=> frame.codec \in Hevc
      OBVIOUS
    <2>1. m_encoder # NoEncoder /\ m_encoder.codec = frame.codec
      BY DEF EncoderInv, Typed, Served, InHand
    <2> QED
      BY <2>1 DEF IsHEVC
  <1> QED
    BY <1>1, EncoderInvariant, PTL DEF UseSpec, CodecFlagRight

\* The first frame that leaves after an encoder was opened or a keyframe was asked for is
\* one, unless a keyframe was made for the request and thrown away (packetPool empty, or
\* too long for a packet).
THEOREM OwedKeyframe == UseSpec => KeyframeWhenOwed
  <1>1. EncoderInv /\ [UseNext]_vars
          => [frame = NoFrame /\ frame' # NoFrame /\ (Due \/ ~ IsOpen(m_encoder))
                => frame'.key]_vars
    <2> SUFFICES ASSUME EncoderInv, [UseNext]_vars, frame = NoFrame, frame' # NoFrame,
                        Due \/ ~ IsOpen(m_encoder)
                 PROVE  frame'.key
      OBVIOUS
    <2>1. PICK opens : \E key, kept, scaled \in BOOLEAN : Encode(opens, key, kept, scaled)
      BY StepKinds DEF Push, TimedOut, CaptureLost, Crash, vars, useVars, CaptureFails, EncodeLost,
                       DeviceLost, Prepare, Join, Destroy, Initialize, AskedKeyframe, Lowered,
                       TryAgain
    <2>2. PICK key \in BOOLEAN, kept \in BOOLEAN, scaled \in BOOLEAN :
             Encode(opens, key, kept, scaled)
      BY <2>1
    <2>3. PICK r : r = Ready(opens)
      OBVIOUS
    <2>4. r.encoder # NoEncoder /\ r.encoder.forceKeyframe
      BY <2>2, <2>3, ReadyIs DEF Encode, EncodeSucceeds
    <2>5. key
      BY <2>2, <2>3, <2>4 DEF Encode, IsForced
    <2>6. frame'.key = key
      BY <2>2 DEF Encode
    <2> QED
      BY <2>5, <2>6
  <1> QED
    BY <1>1, EncoderInvariant, PTL DEF UseSpec, KeyframeWhenOwed

\* Whatever is tried first, the codec is locked as it was, or software.
LEMMA OnlySoftwareTakesOver ==
    ASSUME NEW codec, NEW locked, NEW tier, NEW state, NEW e, NEW d, NEW opens, NEW r,
           r = Outcome(codec, locked, tier, state, e, d, opens)
    PROVE  r.locked \in {locked, Software}
  BY DEF Outcome, Emergency, Attempt

SoftwareOnly ==
    phase = "joined" /\ m_sessionLocked /\ m_lockedCodecName = Software
      => m_encoder # NoEncoder /\ m_encoder.codec \in {Software, NoCodec}

\* After the fallback no tier change, failure or frame brings a hardware encoder back.
THEOREM SoftwareFinal == UseSpec => SoftwareIsFinal
  <1> DEFINE Stays == \/ /\ m_lockedCodecName' = Software /\ m_encoder' # NoEncoder
                         /\ m_encoder'.codec \in {Software, NoCodec}
                      \/ phase' = "gone"
                      \/ \E driver \in Drivers : DeviceLost(driver)
  <1>1. ASSUME EncoderInv, [UseNext]_vars, phase = "joined", m_sessionLocked,
               m_lockedCodecName = Software, phase' # "gone",
               ~ \E driver \in Drivers : DeviceLost(driver)
        PROVE  phase' = "joined" /\ m_sessionLocked' /\ m_lockedCodecName' = Software
    <2>1. CASE Push \/ TimedOut \/ CaptureLost \/ Crash \/ UNCHANGED vars
      BY <1>1, <2>1 DEF Push, TimedOut, CaptureLost, Crash, vars, useVars, managerVars
    <2>2. CASE CaptureFails \/ AskedKeyframe
      BY <1>1, <2>2 DEF CaptureFails, AskedKeyframe, RequestKeyframe, managerVars
    <2>3. ASSUME NEW opens, NEW key \in BOOLEAN, NEW kept \in BOOLEAN, NEW scaled \in BOOLEAN,
                 Encode(opens, key, kept, scaled)
          PROVE  phase' = "joined" /\ m_sessionLocked' /\ m_lockedCodecName' = Software
      <3>1. PICK r : r = Ready(opens)
        OBVIOUS
      <3>2. r.locked = Software
        BY <1>1, <2>3, <3>1, ReadyIs DEF Encode, EncodeSucceeds
      <3>3. m_lockedCodecName' = r.locked
        BY <2>3, <3>1 DEF Encode, EncodeSucceeds, Adopt
      <3> QED
        BY <1>1, <2>3, <3>2, <3>3 DEF Encode, EncodeSucceeds
    <2>4. ASSUME NEW opens, NEW forced \in BOOLEAN, EncodeLost(opens, forced)
          PROVE  phase' = "joined" /\ m_sessionLocked' /\ m_lockedCodecName' = Software
      <3>1. CASE EncodeFails(opens, forced)
        <4>1. PICK q : q = Ready(opens)
          OBVIOUS
        <4>5. PICK e : e = [q.encoder EXCEPT !.forceKeyframe = forced /\ q.encoder.forceKeyframe]
          OBVIOUS
        <4>2. PICK r : r = Emergency(q.tier, q.state, e, m_d3d11Device, opens)
          OBVIOUS
        <4>3. Adopt(r)
          BY <3>1, <4>1, <4>2, <4>5 DEF EncodeFails
        <4>4. r.locked = Software
          BY <4>2 DEF Emergency, Attempt
        <4> QED
          BY <1>1, <2>4, <3>1, <4>3, <4>4 DEF EncodeLost, EncodeFails, Adopt
      <3>2. CASE CannotEncode(opens)
        <4>1. PICK r : r = Outcome(m_lockedCodecName, m_lockedCodecName, m_currentTier, m_state,
                                   m_encoder, m_d3d11Device, opens)
          OBVIOUS
        <4>2. Adopt(r)
          BY <1>1, <3>2, <4>1 DEF CannotEncode, SelectAndInit, Candidate, Outcome
        <4>3. r.locked = Software
          BY <1>1, <4>1, OnlySoftwareTakesOver
        <4> QED
          BY <1>1, <2>4, <3>2, <4>2, <4>3 DEF EncodeLost, CannotEncode, Adopt
      <3> QED
        BY <2>4, <3>1, <3>2 DEF EncodeLost
    <2>5. ASSUME NEW opens, Lowered(opens)
          PROVE  phase' = "joined" /\ m_sessionLocked' /\ m_lockedCodecName' = Software
      <3>1. CASE KeepsEncoder(m_currentTier, m_currentTier + 1)
        <4>1. PICK r : r = Attempt(m_currentTier + 1, Moved(m_state, "DEGRADED"),
                                   m_lockedCodecName, m_encoder)
          OBVIOUS
        <4>2. Adopt(r)
          BY <2>5, <3>1, <4>1 DEF Lowered, Downgrade
        <4>3. r.locked = Software
          BY <1>1, <4>1 DEF Attempt
        <4> QED
          BY <1>1, <2>5, <4>2, <4>3 DEF Lowered, Downgrade, Adopt
      <3>2. CASE ~ KeepsEncoder(m_currentTier, m_currentTier + 1)
        <4>1. PICK r : r = Outcome(m_lockedCodecName, m_lockedCodecName, m_currentTier + 1,
                                   Moved(m_state, "DEGRADED"), m_encoder, m_d3d11Device, opens)
          OBVIOUS
        <4>2. Adopt(r)
          BY <1>1, <2>5, <3>2, <4>1 DEF Lowered, Downgrade, SelectAndInit, Candidate, Outcome
        <4>3. r.locked = Software
          BY <1>1, <4>1, OnlySoftwareTakesOver
        <4> QED
          BY <1>1, <2>5, <4>2, <4>3 DEF Lowered, Downgrade, Adopt
      <3> QED
        BY <3>1, <3>2
    <2>6. CASE Prepare \/ Join \/ Destroy \/ TryAgain \/ \E driver : Initialize(driver)
      BY <1>1, <2>6 DEF Prepare, Join, Destroy, TryAgain, Initialize
    <2> QED
      BY <1>1, <2>1, <2>2, <2>3, <2>4, <2>5, <2>6, StepKinds
  <1>2. EncoderInv' => SoftwareOnly'
    <2>1. EncoderInv => SoftwareOnly
      BY DEF EncoderInv, Typed, Agrees, Running, Locked, Served, IsOpen, SoftwareOnly
    <2> QED
      BY <2>1, PTL
  <1>3. ASSUME EncoderInv, EncoderInv', [UseNext]_vars, phase = "joined", m_sessionLocked,
               m_lockedCodecName = Software
        PROVE  Stays
    BY <1>1, <1>2, <1>3 DEF SoftwareOnly
  <1>4. EncoderInv /\ EncoderInv' /\ [UseNext]_vars
          => [phase = "joined" /\ m_sessionLocked /\ m_lockedCodecName = Software => Stays]_vars
    BY <1>3
  <1> QED
    BY <1>4, EncoderInvariant, PTL DEF UseSpec, SoftwareIsFinal

=============================================================================
