--------------------------- MODULE MCClientOutput ---------------------------
\* Two devices (one recovery), four incarnations of the decoder and a texture
\* array of two slices.
EXTENDS ClientOutput

MCSlices  == {1, 2}
MCBuffers == {0, 1}
=============================================================================
