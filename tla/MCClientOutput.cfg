SPECIFICATION Spec
CONSTANTS
    MaxDevices = 2
    MaxInits = 4
    Slices <- MCSlices
    Buffers <- MCBuffers
INVARIANT DevicesSound
PROPERTY ScreenRight
