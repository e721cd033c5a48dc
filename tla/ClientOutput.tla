---------------------------- MODULE ClientOutput ----------------------------
(***************************************************************************)
(* The end of the client's main loop in SessionManager::runClient: the     *)
(* decoder and the renderer share a Direct3D device that the system may    *)
(* remove at any time.  Render and EndFrame report the loss, and the loop  *)
(* then shuts both down and builds them again on a new device.  A client   *)
(* without a window decodes without a device and owns a renderer it never  *)
(* initialises.                                                            *)
(***************************************************************************)
EXTENDS RendererD3D11

VARIABLES pc,
          useRenderer,
          out,          \* texture DecodeFrame has returned, or NoPicture
          requestKeyframe,
          next          \* where the loop goes on after a recovery

vars == <<decoderVars, refs, rendererVars, pc, useRenderer, out, requestKeyframe, next>>
loopVars == <<useRenderer, out, requestKeyframe, next>>

OutputInit ==
    /\ DecoderInit
    /\ RendererInit
    /\ refs = [g \in Devices |-> 0]
    /\ useRenderer \in BOOLEAN
    /\ pc = IF useRenderer THEN "start" ELSE "headless"
    /\ out = NoPicture /\ requestKeyframe = FALSE /\ next = "new"

Results == {"none", "broken", "open"}
At(p) == pc = p /\ fault = "none"

-----------------------------------------------------------------------------
\* runClient's start: the session is left when either cannot be initialised.
StartRenderer ==
    /\ At("start")
    /\ \E ok \in BOOLEAN : InitRenderer(refs, ok) /\ pc' = IF ok THEN "startDecoder" ELSE "leave"
    /\ UNCHANGED <<decoderVars, videoDevice, processor, inputView, outputViews,
                   lastInput, bufferIndex, fault, loopVars>>

StartDecoder ==
    /\ At("startDecoder") \/ At("headless")
    /\ \E r \in Results : Initialize(mDevice, FALSE, r) /\ pc' = IF r = "open" THEN "new" ELSE "leave"
    /\ UNCHANGED <<rendererVars, loopVars>>

\* renderer.NewFrame() at the head of an iteration, or the end of the session.
LoopHead ==
    /\ At("new")
    /\ \/ useRenderer /\ NewFrame /\ pc' = "pop"
       \/ ~useRenderer /\ pc' = "pop" /\ UNCHANGED <<rendererVars, refs>>
       \/ pc' = "leave" /\ UNCHANGED <<rendererVars, refs>>
    /\ UNCHANGED <<decoderVars, loopVars>>

\* No frame to play: the cached picture is drawn again.
Idle ==
    /\ At("pop")
    /\ out' = NoPicture /\ pc' = "render"
    /\ UNCHANGED <<decoderVars, refs, rendererVars, useRenderer, requestKeyframe, next>>

\* A frame of another codec than the last one.
ChangeCodec ==
    /\ At("pop")
    /\ CodecChange(~isHEVC)
    /\ inst + (MaxDevices - created) < MaxInits     \* bound: leave one for each recovery
    /\ \E r \in Results :
         /\ ReInitialize(r)
         /\ out' = NoPicture
         /\ pc' = IF r = "open" THEN "receive" ELSE "render"
         /\ requestKeyframe' = (requestKeyframe \/ r # "open")
    /\ UNCHANGED <<rendererVars, useRenderer, next>>

\* A frame of the same codec, or the rest of DecodeFrame after the change.
Decode ==
    /\ At("pop") \/ At("receive")
    /\ \E o \in {NoPicture} \cup Decodable :
         /\ out' = o
         /\ IF codec = "open" THEN Receive(o) ELSE DecodeRefused /\ o = NoPicture
         /\ requestKeyframe' = (requestKeyframe \/ o = NoPicture)
    /\ pc' = "render"
    /\ UNCHANGED <<rendererVars, useRenderer, next>>

\* renderer.Render with the new texture or without one: drawn, or the device,
\* the swap chain or the buffer is lost.
Draw ==
    /\ At("render")
    /\ IF useRenderer THEN RenderDraws(out) ELSE UNCHANGED <<rendererVars, refs>>
    /\ pc' = "end"
    /\ UNCHANGED <<decoderVars, loopVars>>

Lost(from, to) ==
    /\ At(from) /\ useRenderer
    /\ pc' = "recover" /\ next' = to
    /\ UNCHANGED <<decoderVars, refs, rendererVars, useRenderer, out, requestKeyframe>>

DrawFails == Lost("render", "end")
EndFails  == Lost("end", "new") /\ (mDevice = 0 \/ removed)

\* renderer.EndFrame, and the feedback that carries the keyframe request.
EndFrame ==
    /\ At("end")
    /\ IF useRenderer THEN EndFrameDraws ELSE UNCHANGED <<rendererVars, refs>>
    /\ pc' = "new" /\ requestKeyframe' = FALSE
    /\ UNCHANGED <<decoderVars, useRenderer, out, next>>

-----------------------------------------------------------------------------
\* renderer.Shutdown, decoder.Shutdown, renderer.Initialize; the decoder is only
\* initialised if the renderer is, and its result is ignored.
Recover ==
    /\ At("recover")
    /\ UNCHANGED <<useRenderer, out, requestKeyframe, next>>
    /\ IF ShutdownFault # "none"
       THEN Fail(ShutdownFault) /\ UNCHANGED <<pc, decoderVars, refs, created, mDevice, removed,
              imgui, videoDevice, processor, inputView, outputViews, lastInput, bufferIndex, shown>>
       ELSE /\ ShutdownClears
            /\ Shutdown
            /\ \E ok \in BOOLEAN : /\ InitRenderer(Released(AfterShutdown), ok)
                                   /\ pc' = IF ok THEN "redecode" ELSE next
            /\ UNCHANGED fault

ReDecode ==
    /\ At("redecode")
    /\ \E r \in Results : Initialize(mDevice, isHEVC, r)
    /\ pc' = next
    /\ UNCHANGED <<rendererVars, loopVars>>

\* runClient returns: the destructors of the renderer and the decoder.
Leave ==
    /\ At("leave")
    /\ UNCHANGED <<created, imgui, removed, shown, useRenderer, out, requestKeyframe, next>>
    /\ IF ShutdownFault # "none"
       THEN Fail(ShutdownFault) /\ UNCHANGED <<pc, decoderVars, refs, mDevice, videoDevice,
              processor, inputView, outputViews, lastInput, bufferIndex>>
       ELSE /\ ShutdownClears
            /\ Shutdown
            /\ refs' = Released(AfterShutdown)
            /\ mDevice' = 0 /\ pc' = "closed"
            /\ UNCHANGED fault

\* The environment: the device is removed or reset.
DeviceRemoved ==
    /\ mDevice # 0 /\ ~removed /\ pc # "closed" /\ fault = "none"
    /\ removed' = TRUE
    /\ UNCHANGED <<decoderVars, refs, created, mDevice, imgui, videoDevice, processor, inputView,
                   outputViews, lastInput, bufferIndex, shown, fault, pc, loopVars>>

Stopped == (pc = "closed" \/ fault # "none") /\ UNCHANGED vars

Next == StartRenderer \/ StartDecoder \/ LoopHead \/ Idle \/ ChangeCodec \/ Decode
        \/ Draw \/ DrawFails \/ EndFails \/ EndFrame \/ Recover \/ ReDecode \/ Leave
        \/ DeviceRemoved \/ Stopped

Spec == OutputInit /\ [][Next]_vars

-----------------------------------------------------------------------------
OutputTypeOK ==
    /\ DecoderTypeOK /\ RendererTypeOK
    /\ pc \in {"start", "startDecoder", "headless", "new", "pop", "receive", "render", "end",
               "recover", "redecode", "leave", "closed"}
    /\ useRenderer \in BOOLEAN /\ out \in Pictures /\ requestKeyframe \in BOOLEAN
    /\ next \in {"new", "end"}

\* The decoder works on the renderer's device or does not work at all: whatever
\* fails or is lost on either side, no decoder, no texture in hand and no cached
\* texture belongs to a device the renderer has given up, and a change of codec
\* (which uses the device of the last Initialize) cannot bring one back.
OneDevice ==
    /\ codec # "none" => {device, hwDevice} \subseteq {0, mDevice} /\ lastD3D11Device = mDevice
    /\ pc = "render" /\ out # NoPicture => out.dev = mDevice
    /\ \A p \in {lastInput, inputView} : p # NoPicture => p.dev = mDevice

\* Every COM reference to a device has one living owner, over failed
\* initialisations, changes of codec and recoveries: none is leaked and none is
\* released twice, as long as nothing undefined has happened.
RefsBalanced ==
    \A g \in Devices :
      refs[g] = Cardinality({o \in {"renderer", "imgui", "video", "decoder", "hw"} :
                   CASE o = "renderer" -> mDevice = g
                     [] o = "imgui"    -> mDevice = g /\ imgui # "none"
                     [] o = "video"    -> mDevice = g /\ videoDevice = g
                     [] o = "decoder"  -> device = g
                     [] OTHER          -> hwDevice = g})

\* The cached slice, which Render draws again while nothing new comes, is the
\* decoder's newest picture or one it has let go of, never one it has replaced.
RedrawsNewest ==
    pc \in {"new", "pop"} /\ lastInput # NoPicture /\ ~lastInput.sw /\ lastInput.inst = inst
        /\ frame # NoPicture => lastInput = frame

\* What Render puts on the screen is the picture it was asked for, the new one
\* or else the cached one: a view that was kept is never of another slice.
ShowsWhatIsAsked ==
    [][shown' \notin {shown, NoPicture} => shown' = (IF out = NoPicture THEN lastInput ELSE out)]_vars

\* The decoder and the renderer share the device and its references as they should,
\* through whatever fails in Initialize, ReinitDecoder and the loss of a device.
DevicesSound == OutputTypeOK /\ OneDevice /\ RefsBalanced

\* The screen never shows another picture than it should: Render draws what it was
\* asked to draw, and what it draws again is not a slice the decoder has replaced.
ScreenRight == []RedrawsNewest /\ ShowsWhatIsAsked
=============================================================================
