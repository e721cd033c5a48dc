--------------------------- MODULE RendererD3D11 ---------------------------
(***************************************************************************)
(* Client::RendererD3D11: the device with its swap chain, the Dear ImGui   *)
(* context drawn over the picture, the video processor that converts and   *)
(* scales it, and the cached input picture that is shown again when no     *)
(* new one has come.  Device pointers are generations, 0 is null; refs is  *)
(* the decoder's count of references.                                      *)
(*                                                                         *)
(* imgui   "none"  no context        "ready" between two frames            *)
(*         "frame" inside NewFrame and Render                              *)
(* processor, the two pointers m_videoProcessor and m_videoEnumerator:     *)
(*         "none", "enum" (the processor could not be made), "made"        *)
(*                                                                         *)
(* fault names the first use the libraries do not allow: the assertion of  *)
(* Dear ImGui that fails, or "video" for a video interface used after its  *)
(* release (the pointers stay set in Shutdown).  What follows is undefined *)
(* and ends the program here.                                              *)
(***************************************************************************)
EXTENDS DecoderHW, FiniteSets

CONSTANTS Buffers       \* back buffers whose index the swap chain may report

ASSUME RendererAssumption == Buffers \subseteq Nat /\ Buffers # {}

VARIABLES created,      \* devices created so far
          mDevice,      \* m_device, m_context and m_swapChain
          removed,      \* GetDeviceRemovedReason fails on that device
          imgui, videoDevice, processor,
          inputView,    \* picture of m_inputView, or NoPicture
          outputViews,  \* back buffers that have an output view
          lastInput,    \* m_lastInputTexture and m_lastInputArrayIndex
          bufferIndex,
          shown,        \* picture last drawn into a back buffer
          fault

rendererVars == <<created, mDevice, removed, imgui, videoDevice, processor, inputView,
                  outputViews, lastInput, bufferIndex, shown, fault>>

RendererInit ==
    /\ created = 0 /\ mDevice = 0 /\ removed = FALSE /\ imgui = "none"
    /\ videoDevice = 0 /\ processor = "none"
    /\ inputView = NoPicture /\ outputViews = {} /\ lastInput = NoPicture
    /\ bufferIndex = CHOOSE i \in Buffers : \A j \in Buffers : i <= j
    /\ shown = NoPicture /\ fault = "none"

-----------------------------------------------------------------------------
\* The references the renderer and its Dear ImGui backend hold to d.
RendererRefs == 1 + (IF imgui = "none" THEN 0 ELSE 1)

Fail(f) == fault' = f

\* Initialize: one of the swap chains is created and the device with it, as
\* the next generation; a back buffer or its view may still fail, which leaves
\* the device without a Dear ImGui context.  ok is the result.
InitRenderer(r, ok) ==
    /\ removed' = FALSE
    /\ shown' = NoPicture
    /\ \/ /\ ~ok /\ mDevice' = 0 /\ imgui' = "none"
          /\ refs' = r /\ UNCHANGED created
       \/ /\ created < MaxDevices
          /\ created' = created + 1
          /\ mDevice' = created'
          /\ imgui' = IF ok THEN "ready" ELSE "none"
          /\ refs' = AddRef(r, mDevice', IF ok THEN 2 ELSE 1)

\* A pointer of the video processor that a Shutdown released but did not clear.
StaleVideo == videoDevice \notin {0, mDevice}

\* Shutdown, also called by the destructor: Dear ImGui asserts that its backend
\* exists, and the interfaces of the video processor are released though they
\* may have been before; their pointers stay.
ShutdownFault == IF imgui = "none" THEN "Shutdown" ELSE IF StaleVideo THEN "video" ELSE "none"
AfterShutdown == AddRef(AddRef(refs, mDevice, -RendererRefs), videoDevice, -1)
ShutdownClears ==
    /\ inputView' = NoPicture /\ lastInput' = NoPicture /\ outputViews' = {}
    /\ UNCHANGED <<videoDevice, processor, bufferIndex>>

\* NewFrame, with the index of the current back buffer.
NewFrame ==
    /\ UNCHANGED <<created, mDevice, removed, videoDevice, processor, inputView,
                   outputViews, lastInput, shown, refs>>
    /\ IF mDevice = 0 \/ removed
       THEN UNCHANGED <<imgui, bufferIndex, fault>>
       ELSE /\ bufferIndex' \in Buffers
            /\ IF imgui = "none" THEN Fail("NewFrame") /\ UNCHANGED imgui
                                 ELSE imgui' = "frame" /\ UNCHANGED fault

\* EndFrame returns TRUE: the interface is drawn and the buffer presented.
EndFrameDraws ==
    /\ mDevice # 0 /\ ~removed
    /\ imgui' = IF imgui = "frame" THEN "ready" ELSE imgui
    /\ IF imgui = "frame" THEN UNCHANGED fault ELSE Fail("Render")
    /\ UNCHANGED <<created, mDevice, removed, videoDevice, processor, inputView,
                   outputViews, lastInput, bufferIndex, shown, refs>>

-----------------------------------------------------------------------------
\* SetupVideoProcessor, up to the first thing that fails; same tells that the
\* processor that exists is for these dimensions.  The interfaces of the device
\* are asked for when their pointers are null.
SetupVideo(same, ok) ==
    /\ videoDevice' \in IF videoDevice # 0 THEN {videoDevice}
                        ELSE IF ok THEN {mDevice} ELSE {0, mDevice}
    /\ refs' = IF videoDevice' # videoDevice THEN AddRef(refs, mDevice, 1) ELSE refs
    /\ IF videoDevice' = 0 \/ (processor = "made" /\ same)
       THEN UNCHANGED processor /\ (ok <=> videoDevice' # 0)
       ELSE processor' \in IF ok THEN {"made"} ELSE {"none", "enum"}

\* SetupVideoProcessor releases the views, and the cached picture with them,
\* before it makes another processor.
Resets(same) == processor = "made" /\ ~same

\* mutant of Changed: only the texture is compared
ChangedTexture(p, cached) == p.inst # cached.inst \/ p.sw # cached.sw

\* A view is made again for another texture or another slice of it.
Changed(p, cached) == p # cached

\* Pictures of one incarnation have one size.
SameSize(p) == IF p.inst = lastInput.inst THEN {TRUE} ELSE BOOLEAN

\* The picture p goes through the video processor: views are made when the
\* picture or the back buffer is not the one of the last time, and the result
\* is drawn if both exist; a software picture is else copied, cropped.
VideoBlit(p) ==
    \E ok, in, out, blt \in BOOLEAN, same \in SameSize(p) :
      LET cached  == IF Resets(same) THEN NoPicture ELSE lastInput
          kept    == IF Resets(same) THEN NoPicture ELSE inputView
          views   == IF Resets(same) THEN {} ELSE outputViews
          isNew   == Changed(p, cached)
          makes   == bufferIndex \notin views
      IN  /\ SetupVideo(same, ok)
          /\ inputView' = IF ~ok \/ ~isNew THEN kept ELSE IF in THEN p ELSE NoPicture
          /\ outputViews' = IF ok /\ makes /\ out THEN views \cup {bufferIndex} ELSE views
          /\ LET drawn == ok /\ inputView' # NoPicture /\ bufferIndex \in outputViews' /\ blt
             IN shown' = IF drawn THEN inputView' ELSE IF p.sw THEN p ELSE shown

\* Render(p) returns TRUE: nothing to show yet, or p drawn and cached.  A
\* software picture of the size of the back buffer is copied, any other picture
\* goes through the video processor.
RenderDraws(new) ==
    LET p == IF new = NoPicture THEN lastInput ELSE new IN
    /\ mDevice # 0 /\ ~removed
    /\ UNCHANGED <<created, mDevice, removed, imgui, bufferIndex>>
    /\ \/ /\ p = NoPicture
          /\ UNCHANGED <<videoDevice, processor, inputView, outputViews, lastInput,
                         shown, fault, refs>>
       \/ /\ p # NoPicture
          /\ lastInput' = p
          /\ \/ /\ p.fits
                /\ shown' = p
                /\ UNCHANGED <<videoDevice, processor, inputView, outputViews, fault, refs>>
             \/ ~p.fits /\ ~StaleVideo /\ VideoBlit(p) /\ UNCHANGED fault
             \/ /\ ~p.fits /\ StaleVideo
                /\ Fail("video")
                /\ UNCHANGED <<videoDevice, processor, inputView, outputViews, shown, refs>>

RendererTypeOK ==
    /\ created \in 0 .. MaxDevices /\ mDevice \in 0 .. created /\ removed \in BOOLEAN
    /\ imgui \in {"none", "ready", "frame"}
    /\ videoDevice \in 0 .. MaxDevices /\ processor \in {"none", "enum", "made"}
    /\ {inputView, lastInput, shown} \subseteq Pictures
    /\ outputViews \subseteq Buffers /\ bufferIndex \in Buffers
    /\ fault \in {"none", "Shutdown", "NewFrame", "Render", "video"}
=============================================================================
