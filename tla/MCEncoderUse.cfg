CONSTANTS
    Preference <- MCPreference
    Hevc <- MCHevc
    Software = "libx264"
    BaseSize = "720p"
    UseHardware = TRUE
    NoCodec = "none"
    NoEncoder = NoEncoder
    NoDevice = NoDevice
    NoFrame = NoFrame
    MaxDevices = 2
SPECIFICATION FairUseSpec
INVARIANT EncoderAgrees
INVARIANT PictureCurrent
PROPERTY KeyframeWhenOwed
PROPERTY CodecFlagRight
PROPERTY EncoderComesBack
PROPERTY KeyframeComes
