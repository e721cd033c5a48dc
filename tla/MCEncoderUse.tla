---------------------------- MODULE MCEncoderUse ----------------------------
(***************************************************************************)
(* Model checking of EncoderUse with one HEVC and one H.264 hardware codec *)
(* and libx264; the capture loses its device once.                        *)
(***************************************************************************)
EXTENDS EncoderUse

MCPreference == <<"hevc_nvenc", "h264_nvenc">>
MCHevc == {"hevc_nvenc"}
=============================================================================
