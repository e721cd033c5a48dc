------------------------------ MODULE CaptureDXGI ------------------------------
(***************************************************************************)
(* Host::CaptureDXGI: the desktop duplication of the host and the Direct3D *)
(* device it belongs to.  A frame that AcquireNextFrame has handed out     *)
(* stays with the duplication until it is released; while it does, the     *)
(* next AcquireNextFrame is an invalid call.  Direct3D and DXGI answer as  *)
(* they like.                                                              *)
(***************************************************************************)
EXTENDS Naturals

CONSTANT MaxLosses          \* bound: how often the device is removed

VARIABLES device,           \* m_device: "none", "live" or "removed"
          dupl,             \* m_dupl # nullptr
          held,             \* a frame is handed out
          losses

dxgiVars == <<device, dupl, held, losses>>

CaptureDXGIInit == device = "none" /\ dupl = FALSE /\ held = FALSE /\ losses = 0

Cleanup == device' = "none" /\ dupl' = FALSE /\ held' = FALSE

\* The device is removed, or the driver is restarted, at any time.
DeviceRemoved ==
    /\ device = "live" /\ losses < MaxLosses
    /\ device' = "removed" /\ losses' = losses + 1
    /\ UNCHANGED <<dupl, held>>

\* The old duplication goes first, and with it the frame it has handed out; a
\* removed device is given up.  Each of the calls that follow may fail, before
\* or after a new device was made.
Initialize(ok) ==
    /\ held' = FALSE /\ dupl' = ok
    /\ IF ok THEN device' = "live"
             ELSE device' \in {IF device = "live" THEN "live" ELSE "none", "live"}

\* AcquireFrame: what it returns is one of "ok", "timeout" and "failed".
AcquireFrame(hr) ==
    \/ ~dupl /\ hr = "failed" /\ UNCHANGED <<device, dupl, held>>
    \/ dupl /\ device = "removed" /\ hr = "failed" /\ Cleanup
    \/ /\ dupl /\ device = "live"
       /\ \/ hr = "failed" /\ Cleanup                                     \* access lost
          \/ hr = "failed" /\ UNCHANGED <<device, dupl, held>>            \* another error
          \/ hr = "failed" /\ held' = TRUE /\ UNCHANGED <<device, dupl>>  \* no texture in it
          \/ hr = "timeout" /\ ~held /\ UNCHANGED <<device, dupl, held>>
          \/ hr = "ok" /\ ~held /\ held' = TRUE /\ UNCHANGED <<device, dupl>>

ReleaseFrame == held' = FALSE /\ UNCHANGED <<device, dupl>>
=============================================================================
