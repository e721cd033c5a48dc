------------------------------- MODULE EncoderHW -------------------------------
(***************************************************************************)
(* Host::FFmpegHardwareEncoder: one encoder with the Direct3D device it    *)
(* was given, the staging texture it copies a captured picture into and    *)
(* the scaler that converts it.                                            *)
(*                                                                         *)
(* Captured pictures are BGRA, so each goes through the staging texture,   *)
(* whether the codec takes Direct3D frames or not.  A copy between two     *)
(* devices does nothing and reports nothing: the picture encoded is then   *)
(* whatever was there.  The same holds of a picture that was not scaled.   *)
(* References to the device are not counted.                               *)
(***************************************************************************)
EXTENDS Naturals

CONSTANTS NoCodec, NoEncoder, NoDevice

\* An encoder: codec (NoCodec when it is shut down), size, device, whether swsCtx
\* was made, and m_forceKeyframe.
Encoders(codecs, devices) ==
    [codec : codecs, size : {"base", "720p", "480p", "none"}, device : devices,
     scaler : BOOLEAN, forceKeyframe : BOOLEAN]

IsForced(encoder) == encoder # NoEncoder /\ encoder.forceKeyframe

\* Shutdown; m_forceKeyframe survives.
Closed(encoder) == [codec |-> NoCodec, size |-> "none", device |-> NoDevice, scaler |-> FALSE,
                    forceKeyframe |-> IsForced(encoder)]

\* mutant of InitializeHW: an encoder that is open with the codec is kept
InitializeKeeps(encoder, codec, size, device, opens) ==
    IF encoder # NoEncoder /\ encoder.codec = codec /\ encoder.size = size THEN encoder
    ELSE IF codec \in opens THEN [Closed(encoder) EXCEPT !.codec = codec, !.size = size, !.device = device]
    ELSE Closed(encoder)

\* Initialize shuts down first.  codec is there by name, so that the search through
\* the other codecs is not reached; whether it opens is up to the driver.
InitializeHW(encoder, codec, size, device, opens) ==
    IF codec \in opens
    THEN [Closed(encoder) EXCEPT !.codec = codec, !.size = size, !.device = device]
    ELSE Closed(encoder)

IsOpen(encoder) == encoder # NoEncoder /\ encoder.codec # NoCodec

\* Without a device the staging texture is created through a null pointer.
NoStaging(encoder) == IsOpen(encoder) /\ encoder.device = NoDevice

\* The scaler is made with the first picture, or was.
Scaled(encoder, made) == encoder.scaler \/ made

\* What the picture that is encoded shows of one captured on this device.
Shows(encoder, device, made) ==
    IF encoder.device # device THEN "old"
    ELSE IF Scaled(encoder, made) THEN "captured" ELSE "unscaled"

\* EncodeFrame, when the codec takes the picture: a keyframe is forced once.
Encoded(encoder, made) ==
    [encoder EXCEPT !.forceKeyframe = FALSE, !.scaler = Scaled(encoder, made)]
=============================================================================
