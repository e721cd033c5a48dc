----------------------------- MODULE DecoderHW -----------------------------
(***************************************************************************)
(* Client::DecoderHW: the FFmpeg decoder of the client, built on the       *)
(* Direct3D device of the renderer.  A device is its generation, 0 is the  *)
(* null pointer.  refs[g] counts the COM references that exist to device   *)
(* g: FFmpeg takes over the reference the code adds for the hardware       *)
(* context and drops it with the last reference to that context.           *)
(*                                                                         *)
(* codec   "none"   codecCtx is null                                       *)
(*         "broken" codecCtx is set, but opening it failed: no packet      *)
(*         "open"   initialised                                            *)
(*                                                                         *)
(* A decoded picture is a texture and a slice of it.  The textures of one  *)
(* hardware decoder are one array (sw = FALSE); the fallback converts into *)
(* swTexture.  inst tells the decoder's incarnations apart.                *)
(*                                                                         *)
(* fallback  "none"   the conversion is to be set up for the next picture  *)
(*           "ready"  context, buffer and texture exist                    *)
(*           "stuck"  context and buffer exist, the texture does not: as   *)
(*                    only the first two are tested, it is not made again  *)
(***************************************************************************)
EXTENDS Integers

CONSTANTS MaxDevices,   \* bound: devices created during a session
          Slices,       \* slices of the decoder's texture array
          MaxInits      \* bound: incarnations of the decoder

ASSUME DecoderAssumption == MaxDevices \in Nat /\ MaxInits \in Nat

VARIABLES codec, hwDevice, device, lastD3D11Device, isHEVC, inst,
          fallback,     \* the conversion of software pictures
          fits,         \* the stream's pictures have the size of the back buffer
          frame,        \* the picture m_internal->frame refers to
          undrained,    \* the last receive loop ended with an error
          refs          \* references to each device

decoderVars == <<codec, hwDevice, device, lastD3D11Device, isHEVC, inst, fallback,
                 fits, frame, undrained>>

Devices   == 1 .. MaxDevices
NoPicture == [inst |-> 0, sw |-> FALSE, fits |-> FALSE, slice |-> 0, dev |-> 0]
Pictures  == [inst : 0 .. MaxInits, sw : BOOLEAN, fits : BOOLEAN,
              slice : {0} \cup Slices, dev : 0 .. MaxDevices]

\* What avcodec_receive_frame can return: slices of the hardware array when the
\* codec has a hardware context, else software pictures.
Decodable ==
    IF hwDevice # 0
    THEN [inst : {inst}, sw : {FALSE}, fits : {FALSE}, slice : Slices, dev : {hwDevice}]
    ELSE {[inst |-> inst, sw |-> TRUE, fits |-> fits, slice |-> 0, dev |-> device]}

\* References to device d are n more (or -n fewer); the null pointer is none.
AddRef(r, d, n) == [g \in DOMAIN r |-> IF g = d THEN r[g] + n ELSE r[g]]

DecoderInit ==
    /\ codec = "none" /\ hwDevice = 0 /\ device = 0 /\ lastD3D11Device = 0
    /\ isHEVC = FALSE /\ inst = 0 /\ fallback = "none" /\ fits = FALSE
    /\ frame = NoPicture /\ undrained = FALSE

-----------------------------------------------------------------------------
\* What Shutdown leaves of the references r: the decoder's own one and, with
\* the last reference to the hardware context, FFmpeg's.
Released(r) == AddRef(AddRef(r, device, -1), hwDevice, -1)

\* mutant of Shutdown: the codec context stays
ShutdownButCodec ==
    /\ hwDevice' = 0 /\ device' = 0
    /\ fallback' = "none" /\ frame' = NoPicture /\ undrained' = FALSE
    /\ UNCHANGED <<codec, lastD3D11Device, isHEVC, inst, fits>>

\* Shutdown: every resource, in one call; the caller applies Released.
Shutdown ==
    /\ codec' = "none" /\ hwDevice' = 0 /\ device' = 0
    /\ fallback' = "none" /\ frame' = NoPicture /\ undrained' = FALSE
    /\ UNCHANGED <<lastD3D11Device, isHEVC, inst, fits>>

\* Initialize(d, useHardware), for the codec hevc: how
\* far it gets is FFmpeg's choice.  What an attempt that fails has acquired
\* stays until the next Shutdown.
Initialize(d, hevc, result) ==
    /\ inst < MaxInits
    /\ inst' = inst + 1 /\ fits' \in BOOLEAN
    /\ lastD3D11Device' = d
    /\ isHEVC' = hevc
    /\ fallback' = "none" /\ frame' = NoPicture /\ undrained' = FALSE
    /\ \E hwContext \in IF d = 0 THEN {FALSE} ELSE BOOLEAN :
         LET gone == Released(refs)
             hw   == IF hwContext THEN d ELSE 0
         IN  /\ hwDevice' = IF result = "none" THEN 0 ELSE hw
             /\ codec' = result
             /\ device' = IF result = "open" THEN d ELSE 0
             /\ refs' = AddRef(AddRef(gone, hwDevice', 1), device', 1)

\* The picture p becomes the caller's texture: the slice of the array, or the
\* fallback texture, which needs the device and, for the first picture, the
\* resources of the conversion (their size is constant in an incarnation).
Output(p, out) ==
    IF ~p.sw THEN out = p /\ UNCHANGED fallback
    ELSE /\ fallback' \in IF device # 0 /\ fallback = "none" /\ fits = FALSE
                          THEN {"none", "ready", "stuck"} ELSE {fallback}
         /\ out = IF device # 0 /\ fallback' = "ready" THEN p ELSE NoPicture

\* The decoder's part of DecodeFrame once a packet has been made: it is refused,
\* or the loop receives none or some pictures (the last one stays in frame),
\* and ends because there are no more or with an error.  out is what the caller
\* gets, NoPicture when DecodeFrame returns false.  A refusal with EAGAIN, which
\* needs pictures left from before, first drains them into frame.
Receive(out) ==
    /\ UNCHANGED <<codec, hwDevice, device, lastD3D11Device, isHEVC, inst, fits, refs>>
    /\ \/ /\ out = NoPicture
          /\ \/ UNCHANGED <<frame, undrained>>
             \/ undrained /\ frame' = NoPicture /\ undrained' = FALSE
          /\ UNCHANGED fallback
       \/ \E p \in Decodable :
            /\ frame' = p
            /\ Output(p, out)
            /\ undrained' \in BOOLEAN

\* DecodeFrame up to the packet: the frame is refused.
DecodeRefused == codec # "open" /\ UNCHANGED <<decoderVars, refs>>

\* DecodeFrame with another codec than the last frame's starts over, on the
\* device of the last Initialize.
CodecChange(hevc) == codec # "none" /\ hevc # isHEVC
ReInitialize(result) == Initialize(lastD3D11Device, ~isHEVC, result)

DecoderTypeOK ==
    /\ codec \in {"none", "broken", "open"}
    /\ {hwDevice, device, lastD3D11Device} \subseteq 0 .. MaxDevices
    /\ isHEVC \in BOOLEAN /\ inst \in 0 .. MaxInits
    /\ fallback \in {"none", "ready", "stuck"} /\ frame \in Pictures
    /\ undrained \in BOOLEAN /\ fits \in BOOLEAN
    /\ refs \in [Devices -> Int]
=============================================================================
