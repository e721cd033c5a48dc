--------------------------- MODULE ClientOutput_proof ---------------------------
(***************************************************************************)
(* Decoder and renderer share one device and every reference has an owner, *)
(* for any number of devices, incarnations of the decoder and buffers, and *)
(* the screen shows what Render was asked to draw.                         *)
(***************************************************************************)
EXTENDS ClientOutput, FiniteSetTheorems, WellFoundedInduction, TLAPS

\* The references to device g that have an owner.
Owned(g) ==
    (IF mDevice = g THEN 1 ELSE 0)
      + (IF mDevice = g /\ imgui # "none" THEN 1 ELSE 0)
      + (IF mDevice = g /\ videoDevice = g THEN 1 ELSE 0)
      + (IF device = g THEN 1 ELSE 0)
      + (IF hwDevice = g THEN 1 ELSE 0)

Balanced == \A g \in Devices : refs[g] = Owned(g)

\* No pointer names a device that was not created, and nothing has happened before
\* the renderer is initialised.
Generations ==
    /\ {device, hwDevice, videoDevice} \subseteq 0 .. created
    /\ pc = "start" => /\ mDevice = 0 /\ codec = "none" /\ hwDevice = 0 /\ device = 0
                       /\ lastInput = NoPicture /\ inputView = NoPicture

\* The inductive invariant.
OutputInv == OutputTypeOK /\ OneDevice /\ Balanced /\ Generations

-----------------------------------------------------------------------------
(***************************************************************************)
(* Counting.                                                               *)
(***************************************************************************)
LEMMA OneMore ==
    ASSUME NEW S, NEW x, NEW n \in Nat, IsFiniteSet(S), Cardinality(S) = n, x \notin S
    PROVE  IsFiniteSet(S \cup {x}) /\ Cardinality(S \cup {x}) = n + 1
  BY FS_AddElement

OwnerNames == {"renderer", "imgui", "video", "decoder", "hw"}
OwnersOf(g) ==
    {o \in OwnerNames :
        CASE o = "renderer" -> mDevice = g
          [] o = "imgui"    -> mDevice = g /\ imgui # "none"
          [] o = "video"    -> mDevice = g /\ videoDevice = g
          [] o = "decoder"  -> device = g
          [] OTHER          -> hwDevice = g}

\* The set of the owners of a device has as many members as Owned counts.
LEMMA OwnersCounted == ASSUME NEW g PROVE Cardinality(OwnersOf(g)) = Owned(g)
<1> DEFINE r == IF mDevice = g THEN 1 ELSE 0
           i == IF mDevice = g /\ imgui # "none" THEN 1 ELSE 0
           v == IF mDevice = g /\ videoDevice = g THEN 1 ELSE 0
           d == IF device = g THEN 1 ELSE 0
           h == IF hwDevice = g THEN 1 ELSE 0
           R == IF mDevice = g THEN {"renderer"} ELSE {}
           I == IF mDevice = g /\ imgui # "none" THEN R \cup {"imgui"} ELSE R
           V == IF mDevice = g /\ videoDevice = g THEN I \cup {"video"} ELSE I
           D == IF device = g THEN V \cup {"decoder"} ELSE V
           H == IF hwDevice = g THEN D \cup {"hw"} ELSE D
<1>1. IsFiniteSet(R) /\ Cardinality(R) = r /\ R \subseteq {"renderer"} /\ r \in Nat
  BY FS_EmptySet, FS_Singleton
<1> HIDE DEF r, R
<1>2. IsFiniteSet(I) /\ Cardinality(I) = r + i /\ I \subseteq {"renderer", "imgui"} /\ r + i \in Nat
  <2>1. CASE mDevice = g /\ imgui # "none"
    <3>1. "imgui" \notin R
      BY <1>1
    <3>2. IsFiniteSet(R \cup {"imgui"}) /\ Cardinality(R \cup {"imgui"}) = r + 1
      BY <1>1, <3>1, OneMore
    <3> QED BY <1>1, <2>1, <3>2
  <2>2. CASE ~(mDevice = g /\ imgui # "none")
    BY <1>1, <2>2
  <2> QED BY <2>1, <2>2
<1>3. I = {o \in R \cup {"imgui"} : o = "imgui" => mDevice = g /\ imgui # "none"}
  BY <1>1
<1> HIDE DEF i, I
<1>4. IsFiniteSet(V) /\ Cardinality(V) = r + i + v /\ V \subseteq {"renderer", "imgui", "video"}
      /\ r + i + v \in Nat
  <2>1. CASE mDevice = g /\ videoDevice = g
    <3>1. "video" \notin I
      BY <1>2
    <3>2. IsFiniteSet(I \cup {"video"}) /\ Cardinality(I \cup {"video"}) = r + i + 1
      BY <1>2, <3>1, OneMore
    <3> QED BY <1>2, <2>1, <3>2
  <2>2. CASE ~(mDevice = g /\ videoDevice = g)
    BY <1>2, <2>2
  <2> QED BY <2>1, <2>2
<1>5. V = {o \in I \cup {"video"} : o = "video" => mDevice = g /\ videoDevice = g}
  BY <1>2
<1> HIDE DEF v, V
<1>6. IsFiniteSet(D) /\ Cardinality(D) = r + i + v + d /\ r + i + v + d \in Nat
      /\ D \subseteq {"renderer", "imgui", "video", "decoder"}
  <2>1. CASE device = g
    <3>1. "decoder" \notin V
      BY <1>4
    <3>2. IsFiniteSet(V \cup {"decoder"}) /\ Cardinality(V \cup {"decoder"}) = r + i + v + 1
      BY <1>4, <3>1, OneMore
    <3> QED BY <1>4, <2>1, <3>2
  <2>2. CASE device # g
    BY <1>4, <2>2
  <2> QED BY <2>1, <2>2
<1>7. D = {o \in V \cup {"decoder"} : o = "decoder" => device = g}
  BY <1>4
<1> HIDE DEF d, D
<1>8. Cardinality(H) = r + i + v + d + h
  <2>1. CASE hwDevice = g
    <3>1. "hw" \notin D
      BY <1>6
    <3>2. IsFiniteSet(D \cup {"hw"}) /\ Cardinality(D \cup {"hw"}) = r + i + v + d + 1
      BY <1>6, <3>1, OneMore
    <3> QED BY <1>6, <2>1, <3>2
  <2>2. CASE hwDevice # g
    BY <1>6, <2>2
  <2> QED BY <2>1, <2>2
<1>9. H = {o \in D \cup {"hw"} : o = "hw" => hwDevice = g}
  BY <1>6
<1> HIDE DEF h, H
<1>10. OwnersOf(g) = H
  <2>1. "renderer" \in R <=> mDevice = g
    BY DEF R
  <2> QED BY <1>1, <1>2, <1>3, <1>4, <1>5, <1>6, <1>7, <1>9, <2>1 DEF OwnersOf, OwnerNames
<1> QED BY <1>8, <1>10 DEF Owned, r, i, v, d, h

LEMMA BalancedMeans == Balanced <=> RefsBalanced
  BY OwnersCounted DEF Balanced, RefsBalanced, OwnersOf, OwnerNames

-----------------------------------------------------------------------------
(***************************************************************************)
(* References.                                                             *)
(***************************************************************************)
LEMMA RefAdded ==
    ASSUME NEW r \in [Devices -> Int], NEW d, NEW n \in Int
    PROVE  /\ AddRef(r, d, n) \in [Devices -> Int]
           /\ \A g \in Devices : AddRef(r, d, n)[g] = IF g = d THEN r[g] + n ELSE r[g]
  BY DEF AddRef

NoRefs == [g \in Devices |-> 0]

\* The destructors and Shutdown release every reference, unless a library's rule
\* is broken first.
LEMMA AllReleased ==
    ASSUME OutputInv, ShutdownFault = "none"
    PROVE  Released(AfterShutdown) = NoRefs
<1>1. refs \in [Devices -> Int] /\ RendererRefs = 2 /\ imgui # "none" /\ videoDevice \in {0, mDevice}
  BY DEF OutputInv, OutputTypeOK, DecoderTypeOK, ShutdownFault, RendererRefs, StaleVideo
<1> DEFINE a == AddRef(refs, mDevice, -RendererRefs)
           b == AddRef(a, videoDevice, -1)
           c == AddRef(b, device, -1)
           e == AddRef(c, hwDevice, -1)
<1>2. a \in [Devices -> Int] /\ \A g \in Devices : a[g] = IF g = mDevice THEN refs[g] - 2 ELSE refs[g]
  BY <1>1, RefAdded, -RendererRefs = -2
<1> HIDE DEF a
<1>3. b \in [Devices -> Int] /\ \A g \in Devices : b[g] = IF g = videoDevice THEN a[g] - 1 ELSE a[g]
  BY <1>2, RefAdded, -1 \in Int
<1> HIDE DEF b
<1>4. c \in [Devices -> Int] /\ \A g \in Devices : c[g] = IF g = device THEN b[g] - 1 ELSE b[g]
  BY <1>3, RefAdded, -1 \in Int
<1> HIDE DEF c
<1>5. e \in [Devices -> Int] /\ \A g \in Devices : e[g] = IF g = hwDevice THEN c[g] - 1 ELSE c[g]
  BY <1>4, RefAdded, -1 \in Int
<1>6. ASSUME NEW g \in Devices PROVE e[g] = 0
  <2>1. refs[g] = Owned(g) /\ refs[g] \in Int /\ g # 0
    BY <1>1 DEF OutputInv, Balanced, Devices
  <2> HIDE DEF e
  <2> QED BY <1>1, <1>2, <1>3, <1>4, <1>5, <2>1 DEF Owned
<1>7. Released(AfterShutdown) = e
  BY DEF Released, AfterShutdown, a, b, c
<1> HIDE DEF e
<1> QED BY <1>5, <1>6, <1>7 DEF NoRefs

\* What Initialize of the decoder does on device d, in whatever codec.
Opens(d, result) ==
    /\ inst < MaxInits /\ inst' = inst + 1 /\ fits' \in BOOLEAN
    /\ lastD3D11Device' = d /\ isHEVC' \in BOOLEAN
    /\ fallback' = "none" /\ frame' = NoPicture /\ undrained' = FALSE
    /\ codec' = result /\ hwDevice' \in {0, d} /\ device' \in {0, d}
    /\ refs' = AddRef(AddRef(Released(refs), hwDevice', 1), device', 1)

LEMMA InitializeOpens ==
    ASSUME NEW d, NEW hevc \in BOOLEAN, NEW result, Initialize(d, hevc, result)
    PROVE  Opens(d, result)
  BY DEF Initialize, Opens

\* It moves the decoder's references from its old device to d.
LEMMA OpensKeeps ==
    ASSUME OutputInv, NEW d \in 0 .. created, NEW result \in Results, Opens(d, result),
           UNCHANGED <<created, mDevice, imgui, videoDevice>>
    PROVE  DecoderTypeOK' /\ Balanced' /\ {device', hwDevice'} \subseteq {0, d}
<1>1. /\ refs \in [Devices -> Int] /\ created \in 0 .. MaxDevices /\ inst \in 0 .. MaxInits
      /\ MaxDevices \in Nat /\ MaxInits \in Nat
  BY DecoderAssumption DEF OutputInv, OutputTypeOK, DecoderTypeOK, RendererTypeOK
<1> DEFINE a == AddRef(refs, device, -1)
           b == AddRef(a, hwDevice, -1)
           c == AddRef(b, hwDevice', 1)
           e == AddRef(c, device', 1)
<1>2. a \in [Devices -> Int] /\ \A g \in Devices : a[g] = IF g = device THEN refs[g] - 1 ELSE refs[g]
  BY <1>1, RefAdded, -1 \in Int
<1> HIDE DEF a
<1>3. b \in [Devices -> Int] /\ \A g \in Devices : b[g] = IF g = hwDevice THEN a[g] - 1 ELSE a[g]
  BY <1>2, RefAdded, -1 \in Int
<1> HIDE DEF b
<1>4. c \in [Devices -> Int] /\ \A g \in Devices : c[g] = IF g = hwDevice' THEN b[g] + 1 ELSE b[g]
  BY <1>3, RefAdded
<1> HIDE DEF c
<1>5. e \in [Devices -> Int] /\ \A g \in Devices : e[g] = IF g = device' THEN c[g] + 1 ELSE c[g]
  BY <1>4, RefAdded
<1> HIDE DEF e
<1>6. refs' = e
  BY DEF Opens, Released, a, b, c, e
<1>7. Balanced'
  <2> SUFFICES ASSUME NEW g \in Devices PROVE refs'[g] = Owned(g)'
    BY DEF Balanced
  <2>1. refs[g] = Owned(g) /\ refs[g] \in Int
    BY <1>1 DEF OutputInv, Balanced
  <2> QED BY <1>2, <1>3, <1>4, <1>5, <1>6, <2>1 DEF Owned
<1>8. NoPicture \in Pictures
  BY <1>1 DEF NoPicture, Pictures
<1>9. DecoderTypeOK'
  <2>1. isHEVC' \in BOOLEAN /\ undrained' \in BOOLEAN /\ fits' \in BOOLEAN
    BY DEF Opens
  <2>2. /\ codec' \in {"none", "broken", "open"} /\ inst' \in 0 .. MaxInits
        /\ {hwDevice', device', lastD3D11Device'} \subseteq 0 .. MaxDevices
    BY <1>1 DEF Opens, Results
  <2>3. fallback' \in {"none", "ready", "stuck"} /\ frame' \in Pictures
    BY <1>8 DEF Opens
  <2>4. refs' \in [Devices -> Int]
    BY <1>5, <1>6
  <2> QED BY <2>1, <2>2, <2>3, <2>4 DEF DecoderTypeOK, Devices, Pictures
<1> QED BY <1>7, <1>9 DEF Opens

\* What Initialize of the renderer does when nobody holds a reference.
Renews ==
    /\ removed' = FALSE /\ shown' = NoPicture
    /\ \/ mDevice' = 0 /\ imgui' = "none" /\ refs' = NoRefs /\ UNCHANGED created
       \/ /\ created < MaxDevices /\ created' = created + 1 /\ mDevice' = created'
          /\ \/ imgui' = "ready" /\ refs' = AddRef(NoRefs, mDevice', 2)
             \/ imgui' = "none" /\ refs' = AddRef(NoRefs, mDevice', 1)

LEMMA InitRendererRenews ==
    ASSUME NEW ok \in BOOLEAN, InitRenderer(NoRefs, ok)
    PROVE  Renews
  BY DEF InitRenderer, Renews

LEMMA RenewsKeeps ==
    ASSUME OutputInv, Renews, hwDevice' = 0, device' = 0, UNCHANGED videoDevice
    PROVE  /\ Balanced' /\ refs' \in [Devices -> Int]
           /\ created' \in 0 .. MaxDevices /\ mDevice' \in 0 .. created'
           /\ imgui' \in {"none", "ready"} /\ created <= created'
<1>1. /\ created \in 0 .. MaxDevices /\ MaxDevices \in Nat /\ NoRefs \in [Devices -> Int]
      /\ videoDevice \in 0 .. created /\ \A g \in Devices : NoRefs[g] = 0 /\ g # 0
  BY DecoderAssumption DEF OutputInv, OutputTypeOK, RendererTypeOK, Generations, NoRefs, Devices
<1>2. CASE mDevice' = 0
  <2>1. refs' = NoRefs /\ imgui' = "none" /\ created' = created
    BY <1>1, <1>2 DEF Renews
  <2>2. Balanced'
    BY <1>1, <1>2, <2>1 DEF Balanced, Owned
  <2> QED BY <1>1, <1>2, <2>1, <2>2
<1>3. CASE mDevice' # 0
  <2>1. created < MaxDevices /\ created' = created + 1 /\ mDevice' = created'
    BY <1>3 DEF Renews
  <2>2. CASE imgui' = "ready"
    <3>1. refs' = AddRef(NoRefs, mDevice', 2)
      BY <1>3, <2>2 DEF Renews
    <3>2. refs' \in [Devices -> Int]
          /\ \A g \in Devices : refs'[g] = IF g = mDevice' THEN 2 ELSE 0
      BY <1>1, <3>1, RefAdded
    <3>3. Balanced'
      BY <1>1, <2>1, <2>2, <3>2 DEF Balanced, Owned
    <3> QED BY <1>1, <2>1, <2>2, <3>2, <3>3
  <2>3. CASE imgui' = "none"
    <3>1. refs' = AddRef(NoRefs, mDevice', 1)
      BY <1>3, <2>3 DEF Renews
    <3>2. refs' \in [Devices -> Int]
          /\ \A g \in Devices : refs'[g] = IF g = mDevice' THEN 1 ELSE 0
      BY <1>1, <3>1, RefAdded
    <3>3. Balanced'
      BY <1>1, <2>1, <2>3, <3>2 DEF Balanced, Owned
    <3> QED BY <1>1, <2>1, <2>3, <3>2, <3>3
  <2> QED BY <1>3, <2>2, <2>3 DEF Renews
<1> QED BY <1>2, <1>3

-----------------------------------------------------------------------------
(***************************************************************************)
(* Drawing.                                                                *)
(***************************************************************************)
\* What drawing the picture p through the video processor changes.
Blits(p) ==
    /\ videoDevice' = videoDevice \/ (videoDevice = 0 /\ videoDevice' = mDevice)
    /\ refs' = IF videoDevice' # videoDevice THEN AddRef(refs, mDevice, 1) ELSE refs
    /\ processor' \in {processor, "made", "none", "enum"}
    /\ inputView' \in {inputView, NoPicture, p}
    /\ outputViews' \subseteq outputViews \cup {bufferIndex}
    /\ shown' \in {inputView', p, shown}

LEMMA SetsUp ==
    ASSUME NEW same \in BOOLEAN, NEW ok \in BOOLEAN, SetupVideo(same, ok)
    PROVE  /\ videoDevice' = videoDevice \/ (videoDevice = 0 /\ videoDevice' = mDevice)
           /\ refs' = IF videoDevice' # videoDevice THEN AddRef(refs, mDevice, 1) ELSE refs
           /\ processor' \in {processor, "made", "none", "enum"}
<1>9. refs' = IF videoDevice' # videoDevice THEN AddRef(refs, mDevice, 1) ELSE refs
  BY Zenon DEF SetupVideo
<1>1. CASE ok
  <2>1. /\ videoDevice' \in IF videoDevice # 0 THEN {videoDevice} ELSE {mDevice}
        /\ processor' \in {processor, "made"}
    BY <1>1, Zenon DEF SetupVideo
  <2>2. videoDevice' = videoDevice \/ (videoDevice = 0 /\ videoDevice' = mDevice)
    BY <2>1, Zenon
  <2> QED BY <1>9, <2>1, <2>2, Zenon
<1>2. CASE ~ok
  <2>1. /\ videoDevice' \in IF videoDevice # 0 THEN {videoDevice} ELSE {0, mDevice}
        /\ processor' \in {processor, "none", "enum"}
    BY <1>2, Zenon DEF SetupVideo
  <2>2. videoDevice' = videoDevice \/ (videoDevice = 0 /\ videoDevice' = mDevice)
    BY <2>1, Zenon
  <2> QED BY <1>9, <2>1, <2>2, Zenon
<1> QED BY <1>1, <1>2

LEMMA VideoBlits ==
    ASSUME NEW p, VideoBlit(p)
    PROVE  Blits(p)
<1>1. \E ok, same \in BOOLEAN : SetupVideo(same, ok)
  BY DEF VideoBlit, SameSize
<1>2. inputView' \in {inputView, NoPicture, p}
  BY DEF VideoBlit
<1>3. outputViews' \subseteq outputViews \cup {bufferIndex}
  BY DEF VideoBlit
<1>4. shown' \in {inputView', p, shown}
  BY DEF VideoBlit
<1> QED BY <1>1, <1>2, <1>3, <1>4, SetsUp DEF Blits

\* The video device is asked for on the renderer's device, which then has one more owner.
LEMMA BlitsKeeps ==
    ASSUME OutputInv, NEW p \in Pictures, p.dev = mDevice, mDevice # 0, Blits(p),
           UNCHANGED <<created, mDevice, imgui, device, hwDevice, bufferIndex>>
    PROVE  /\ Balanced' /\ refs' \in [Devices -> Int] /\ videoDevice' \in 0 .. created
           /\ processor' \in {"none", "enum", "made"}
           /\ inputView' \in Pictures /\ (inputView' # NoPicture => inputView'.dev = mDevice)
           /\ outputViews' \subseteq Buffers /\ shown' \in Pictures
<1>1. /\ refs \in [Devices -> Int] /\ created \in 0 .. MaxDevices /\ mDevice \in 0 .. created
      /\ MaxDevices \in Nat /\ MaxInits \in Nat /\ videoDevice \in 0 .. created
      /\ processor \in {"none", "enum", "made"}
      /\ inputView \in Pictures /\ shown \in Pictures /\ outputViews \subseteq Buffers
      /\ bufferIndex \in Buffers
  BY DecoderAssumption
     DEF OutputInv, OutputTypeOK, DecoderTypeOK, RendererTypeOK, Generations
<1>2. NoPicture \in Pictures
  BY <1>1 DEF NoPicture, Pictures
<1>3. CASE videoDevice' = videoDevice
  <2>1. refs' = refs
    BY <1>3 DEF Blits
  <2>2. Balanced'
    BY <1>3, <2>1 DEF OutputInv, Balanced, Owned
  <2>3. inputView' # NoPicture => inputView'.dev = mDevice
    BY DEF OutputInv, OneDevice, Blits
  <2> QED BY <1>1, <1>2, <1>3, <2>1, <2>2, <2>3 DEF Blits
<1>4. CASE videoDevice' # videoDevice
  <2>1. videoDevice = 0 /\ videoDevice' = mDevice /\ refs' = AddRef(refs, mDevice, 1)
    BY <1>4 DEF Blits
  <2>2. /\ refs' \in [Devices -> Int]
        /\ \A g \in Devices : refs'[g] = IF g = mDevice THEN refs[g] + 1 ELSE refs[g]
    BY <1>1, <2>1, RefAdded
  <2>3. Balanced'
    <3> SUFFICES ASSUME NEW g \in Devices PROVE refs'[g] = Owned(g)'
      BY DEF Balanced
    <3>1. refs[g] = Owned(g) /\ refs[g] \in Int /\ g # 0
      BY <1>1 DEF OutputInv, Balanced, Devices
    <3> QED BY <2>1, <2>2, <3>1 DEF Owned
  <2>4. inputView' # NoPicture => inputView'.dev = mDevice
    BY DEF OutputInv, OneDevice, Blits
  <2> QED BY <1>1, <1>2, <2>1, <2>2, <2>3, <2>4 DEF Blits
<1> QED BY <1>3, <1>4

\* A picture of the decoder is a slice of the hardware array or a software picture.
LEMMA DecodableIs ==
    ASSUME OutputInv, NEW p \in Decodable
    PROVE  /\ p \in Pictures
           /\ p.sw => p.dev = device
           /\ ~p.sw => hwDevice # 0 /\ p.dev = hwDevice
<1>1. /\ inst \in 0 .. MaxInits /\ fits \in BOOLEAN
      /\ hwDevice \in 0 .. MaxDevices /\ device \in 0 .. MaxDevices
  BY DEF OutputInv, OutputTypeOK, DecoderTypeOK
<1>2. CASE hwDevice # 0
  <2>1. p \in [inst : {inst}, sw : {FALSE}, fits : {FALSE}, slice : Slices, dev : {hwDevice}]
    BY <1>2 DEF Decodable
  <2> QED BY <1>1, <1>2, <2>1 DEF Pictures
<1>3. CASE hwDevice = 0
  <2>1. p = [inst |-> inst, sw |-> TRUE, fits |-> fits, slice |-> 0, dev |-> device]
    BY <1>3 DEF Decodable
  <2> QED BY <1>1, <2>1 DEF Pictures
<1> QED BY <1>2, <1>3

\* What a decoder that is open delivers is on the renderer's device.
LEMMA PictureOnDevice ==
    ASSUME OutputInv, codec = "open", NEW o, Receive(o)
    PROVE  /\ o \in Pictures /\ (o # NoPicture => o.dev = mDevice)
           /\ frame' \in Pictures /\ fallback' \in {"none", "ready", "stuck"}
           /\ undrained' \in BOOLEAN
<1>1. /\ hwDevice \in {0, mDevice} /\ device \in {0, mDevice}
      /\ frame \in Pictures /\ fallback \in {"none", "ready", "stuck"} /\ undrained \in BOOLEAN
      /\ MaxInits \in Nat /\ MaxDevices \in Nat
  BY DecoderAssumption DEF OutputInv, OneDevice, OutputTypeOK, DecoderTypeOK
<1>2. NoPicture \in Pictures
  BY <1>1 DEF NoPicture, Pictures
<1>3. CASE /\ o = NoPicture
           /\ \/ UNCHANGED <<frame, undrained>>
              \/ undrained /\ frame' = NoPicture /\ undrained' = FALSE
           /\ UNCHANGED fallback
  BY <1>1, <1>2, <1>3
<1>4. ASSUME NEW p \in Decodable, frame' = p, Output(p, o), undrained' \in BOOLEAN
      PROVE  /\ o \in Pictures /\ (o # NoPicture => o.dev = mDevice)
             /\ frame' \in Pictures /\ fallback' \in {"none", "ready", "stuck"}
             /\ undrained' \in BOOLEAN
  <2>1. /\ p \in Pictures /\ (p.sw => p.dev = device)
        /\ (~p.sw => hwDevice # 0 /\ p.dev = hwDevice)
    BY DecodableIs
  <2>2. CASE p.sw
    BY <1>1, <1>2, <1>4, <2>1, <2>2 DEF Output
  <2>3. CASE ~p.sw
    BY <1>1, <1>2, <1>4, <2>1, <2>3 DEF Output
  <2> QED BY <2>2, <2>3
<1> QED BY <1>3, <1>4 DEF Receive

-----------------------------------------------------------------------------
(***************************************************************************)
(* The initial state, and the steps that leave a component alone.          *)
(***************************************************************************)
\* A set of numbers that is not empty has a least one.
LEMMA LeastNumber ==
    ASSUME NEW T \in SUBSET Nat, T # {}
    PROVE  \E x \in T : \A y \in T : x <= y
<1> DEFINE R == OpToRel(<, Nat)
<1>1. \A x, y \in Nat : <<y, x>> \in R <=> y < x
  BY DEF OpToRel
<1>2. IsWellFoundedOn(R, Nat)
  BY NatLessThanWellFounded
<1> HIDE DEF R
<1>3. PICK x \in T : \A y \in T : ~ (<<y, x>> \in R)
  BY <1>2, WFMin
<1>4. ASSUME NEW y \in T PROVE x <= y
  <2>1. x \in Nat /\ y \in Nat
    OBVIOUS
  <2>2. ~ (y < x)
    BY <1>1, <1>3, <2>1
  <2> QED BY <2>1, <2>2
<1> QED BY <1>4

LEMMA InitOutput == OutputInit => OutputInv
<1> SUFFICES ASSUME OutputInit PROVE OutputInv
  OBVIOUS
<1>1. MaxDevices \in Nat /\ MaxInits \in Nat /\ NoPicture \in Pictures
  BY DecoderAssumption DEF NoPicture, Pictures
<1>2. bufferIndex \in Buffers
  BY RendererAssumption, LeastNumber DEF OutputInit, RendererInit
<1>3. DecoderTypeOK
  <2>1. isHEVC \in BOOLEAN /\ undrained \in BOOLEAN /\ fits \in BOOLEAN
    BY DEF OutputInit, DecoderInit
  <2> QED BY <1>1, <2>1 DEF OutputInit, DecoderInit, DecoderTypeOK
<1>4. RendererTypeOK
  <2>1. removed \in BOOLEAN
    BY DEF OutputInit, RendererInit
  <2> QED BY <1>1, <1>2, <2>1 DEF OutputInit, RendererInit, RendererTypeOK
<1>5. OutputTypeOK
  <2>1. useRenderer \in BOOLEAN /\ requestKeyframe \in BOOLEAN
    BY DEF OutputInit
  <2> QED BY <1>1, <1>3, <1>4, <2>1 DEF OutputInit, OutputTypeOK
<1>6. OneDevice
  BY DEF OutputInit, DecoderInit, RendererInit, OneDevice
<1>7. Balanced
  BY <1>1 DEF OutputInit, DecoderInit, RendererInit, Balanced, Owned, Devices
<1>8. Generations
  BY <1>1 DEF OutputInit, DecoderInit, RendererInit, Generations
<1> QED BY <1>5, <1>6, <1>7, <1>8 DEF OutputInv

LEMMA DecoderSame ==
    ASSUME OutputInv, UNCHANGED decoderVars, refs' \in [Devices -> Int]
    PROVE  DecoderTypeOK'
  BY DEF OutputInv, OutputTypeOK, decoderVars, DecoderTypeOK

LEMMA RendererSame == ASSUME OutputInv, UNCHANGED rendererVars PROVE RendererTypeOK'
  BY DEF OutputInv, OutputTypeOK, rendererVars, RendererTypeOK

LEMMA BalanceSame ==
    ASSUME OutputInv, UNCHANGED <<refs, mDevice, imgui, videoDevice, device, hwDevice>>
    PROVE  Balanced'
  BY DEF OutputInv, Balanced, Owned

-----------------------------------------------------------------------------
(***************************************************************************)
(* The steps.                                                              *)
(***************************************************************************)
LEMMA StartRendererKeeps == OutputInv /\ StartRenderer => OutputInv'
<1> SUFFICES ASSUME OutputInv, StartRenderer PROVE OutputInv'
  OBVIOUS
<1>1. /\ pc = "start" /\ pc' \in {"startDecoder", "leave"}
      /\ UNCHANGED <<decoderVars, videoDevice, processor, inputView, outputViews,
                     lastInput, bufferIndex, fault, loopVars>>
  BY DEF StartRenderer, At
<1>2. /\ mDevice = 0 /\ codec = "none" /\ hwDevice = 0 /\ device = 0
      /\ lastInput = NoPicture /\ inputView = NoPicture
  BY <1>1 DEF OutputInv, Generations
<1>3. refs = NoRefs
  <2>1. refs \in [Devices -> Int]
    BY DEF OutputInv, OutputTypeOK, DecoderTypeOK
  <2>2. ASSUME NEW g \in Devices PROVE refs[g] = 0
    <3>1. refs[g] = Owned(g) /\ g # 0
      BY DEF OutputInv, Balanced, Devices
    <3> QED BY <1>2, <3>1 DEF Owned
  <2> QED BY <2>1, <2>2 DEF NoRefs
<1>4. Renews
  BY <1>3, InitRendererRenews DEF StartRenderer
<1>5. /\ Balanced' /\ refs' \in [Devices -> Int]
      /\ created' \in 0 .. MaxDevices /\ mDevice' \in 0 .. created'
      /\ imgui' \in {"none", "ready"} /\ created <= created'
  BY <1>1, <1>2, <1>4, RenewsKeeps DEF decoderVars
<1>6. RendererTypeOK'
  <2>1. removed' \in BOOLEAN /\ shown' = NoPicture
    BY <1>4 DEF Renews
  <2>2. NoPicture \in Pictures
    BY DecoderAssumption DEF NoPicture, Pictures
  <2> QED BY <1>1, <1>5, <2>1, <2>2 DEF OutputInv, OutputTypeOK, RendererTypeOK
<1>7. OutputTypeOK'
  BY <1>1, <1>5, <1>6, DecoderSame DEF OutputInv, OutputTypeOK, loopVars
<1>8. OneDevice'
  BY <1>1, <1>2 DEF OneDevice, decoderVars
<1>9. Generations'
  BY <1>1, <1>5, DecoderAssumption DEF OutputInv, OutputTypeOK, RendererTypeOK, Generations, decoderVars
<1> QED BY <1>5, <1>7, <1>8, <1>9 DEF OutputInv

\* The decoder is opened on the renderer's device.
LEMMA OpenedKeeps ==
    ASSUME OutputInv, NEW result \in Results, Opens(mDevice, result),
           UNCHANGED <<rendererVars, useRenderer, next>>, requestKeyframe' \in BOOLEAN,
           out' \in Pictures, pc' \in {"new", "leave", "end", "receive", "render"},
           pc' = "render" => out' = NoPicture
    PROVE  OutputInv'
<1>1. mDevice \in 0 .. created
  BY DEF OutputInv, OutputTypeOK, RendererTypeOK
<1>2. DecoderTypeOK' /\ Balanced' /\ {device', hwDevice'} \subseteq {0, mDevice}
  BY <1>1, OpensKeeps DEF rendererVars
<1>3. OutputTypeOK'
  BY <1>2, RendererSame DEF OutputInv, OutputTypeOK
<1>4. OneDevice'
  BY <1>2 DEF OutputInv, OneDevice, Opens, rendererVars
<1>5. Generations'
  BY <1>1, <1>2, DecoderAssumption
     DEF OutputInv, OutputTypeOK, RendererTypeOK, Generations, rendererVars
<1> QED BY <1>2, <1>3, <1>4, <1>5 DEF OutputInv

LEMMA StartDecoderKeeps == OutputInv /\ StartDecoder => OutputInv'
<1> SUFFICES ASSUME OutputInv, StartDecoder PROVE OutputInv'
  OBVIOUS
<1>1. PICK r \in Results : Initialize(mDevice, FALSE, r) /\ pc' = IF r = "open" THEN "new" ELSE "leave"
  BY DEF StartDecoder
<1>2. Opens(mDevice, r)
  BY <1>1 DEF Initialize, Opens
<1>3. UNCHANGED <<rendererVars, loopVars>>
  BY DEF StartDecoder
<1>4. out' \in Pictures /\ requestKeyframe' \in BOOLEAN
  BY <1>3 DEF OutputInv, OutputTypeOK, loopVars
<1> QED BY <1>1, <1>2, <1>3, <1>4, OpenedKeeps DEF loopVars

LEMMA ReDecodeKeeps == OutputInv /\ ReDecode => OutputInv'
<1> SUFFICES ASSUME OutputInv, ReDecode PROVE OutputInv'
  OBVIOUS
<1>1. PICK r \in Results : Initialize(mDevice, isHEVC, r)
  BY DEF ReDecode
<1>2. isHEVC \in BOOLEAN
  BY DEF OutputInv, OutputTypeOK, DecoderTypeOK
<1>3. Opens(mDevice, r)
  BY <1>1, <1>2, InitializeOpens
<1>4. UNCHANGED <<rendererVars, loopVars>> /\ pc' = next
  BY DEF ReDecode
<1>5. out' \in Pictures /\ requestKeyframe' \in BOOLEAN /\ next \in {"new", "end"}
  BY <1>4 DEF OutputInv, OutputTypeOK, loopVars
<1> QED BY <1>3, <1>4, <1>5, OpenedKeeps DEF loopVars

\* A change of codec uses the device of the last Initialize, which is the renderer's.
LEMMA ChangeCodecKeeps == OutputInv /\ ChangeCodec => OutputInv'
<1> SUFFICES ASSUME OutputInv, ChangeCodec PROVE OutputInv'
  OBVIOUS
<1>1. PICK r \in Results : /\ ReInitialize(r) /\ out' = NoPicture
                            /\ pc' = IF r = "open" THEN "receive" ELSE "render"
  BY Zenon DEF ChangeCodec
<1>2. lastD3D11Device = mDevice
  <2>1. codec # "none"
    BY DEF ChangeCodec, CodecChange
  <2> QED BY <2>1 DEF OutputInv, OneDevice
<1>3. Opens(mDevice, r)
  BY <1>1, <1>2 DEF ReInitialize, Initialize, Opens
<1>4. UNCHANGED <<rendererVars, useRenderer, next>>
  BY Zenon DEF ChangeCodec
<1>5. out' \in Pictures
  BY <1>1, DecoderAssumption DEF NoPicture, Pictures
<1>6. requestKeyframe' \in BOOLEAN
  BY Zenon DEF ChangeCodec
<1> QED BY <1>1, <1>3, <1>4, <1>5, <1>6, OpenedKeeps

\* Steps that open, close and draw nothing: the pointers and the references stay.
LEMMA QuietKeeps ==
    ASSUME OutputInv, OutputTypeOK', pc' # "start", pc' # "render",
           UNCHANGED <<codec, device, hwDevice, lastD3D11Device, refs, created, mDevice,
                       videoDevice, inputView, lastInput>>,
           imgui' = imgui \/ (imgui # "none" /\ imgui' # "none")
    PROVE  OutputInv'
<1>1. OneDevice'
  BY DEF OutputInv, OneDevice
<1>2. Balanced'
  BY DEF OutputInv, Balanced, Owned
<1>3. Generations'
  BY DEF OutputInv, Generations
<1> QED BY <1>1, <1>2, <1>3 DEF OutputInv

LEMMA LoopHeadKeeps == OutputInv /\ LoopHead => OutputInv'
<1> SUFFICES ASSUME OutputInv, LoopHead PROVE OutputInv'
  OBVIOUS
<1>1. UNCHANGED <<decoderVars, loopVars, refs>> /\ pc' \in {"pop", "leave"}
  BY DEF LoopHead, NewFrame
<1>2. DecoderTypeOK'
  BY <1>1, DecoderSame DEF OutputInv, OutputTypeOK, DecoderTypeOK
<1>3. CASE UNCHANGED rendererVars
  <2>1. OutputTypeOK'
    BY <1>1, <1>2, <1>3, RendererSame DEF OutputInv, OutputTypeOK, loopVars
  <2> QED BY <1>1, <1>3, <2>1, QuietKeeps DEF decoderVars, rendererVars
<1>4. CASE NewFrame
  <2>1. UNCHANGED <<created, mDevice, removed, videoDevice, processor, inputView,
                    outputViews, lastInput, shown>>
    BY <1>4 DEF NewFrame
  <2>2. imgui' = imgui \/ (imgui # "none" /\ imgui' = "frame")
    BY <1>4 DEF NewFrame
  <2>3. bufferIndex' \in Buffers /\ fault' \in {fault, "NewFrame"}
    BY <1>4 DEF NewFrame, Fail, OutputInv, OutputTypeOK, RendererTypeOK
  <2>4. RendererTypeOK'
    BY <2>1, <2>2, <2>3 DEF OutputInv, OutputTypeOK, RendererTypeOK
  <2>5. OutputTypeOK'
    BY <1>1, <1>2, <2>4 DEF OutputInv, OutputTypeOK, loopVars
  <2> QED BY <1>1, <2>1, <2>2, <2>5, QuietKeeps DEF decoderVars
<1> QED BY <1>3, <1>4 DEF LoopHead

LEMMA IdleKeeps == OutputInv /\ Idle => OutputInv'
<1> SUFFICES ASSUME OutputInv, Idle PROVE OutputInv'
  OBVIOUS
<1>1. /\ out' = NoPicture /\ pc' = "render"
      /\ UNCHANGED <<decoderVars, refs, rendererVars, useRenderer, requestKeyframe, next>>
  BY DEF Idle
<1>2. NoPicture \in Pictures
  BY DecoderAssumption DEF NoPicture, Pictures
<1>3. DecoderTypeOK' /\ RendererTypeOK'
  BY <1>1, DecoderSame, RendererSame DEF OutputInv, OutputTypeOK, DecoderTypeOK
<1>4. OutputTypeOK'
  BY <1>1, <1>2, <1>3 DEF OutputInv, OutputTypeOK
<1>5. OneDevice'
  BY <1>1 DEF OutputInv, OneDevice, decoderVars, rendererVars
<1>6. Balanced' /\ Generations'
  BY <1>1, BalanceSame DEF OutputInv, Generations, decoderVars, rendererVars
<1> QED BY <1>4, <1>5, <1>6 DEF OutputInv

\* What the decoder hands over is on the device the renderer has.
LEMMA DecodeKeeps == OutputInv /\ Decode => OutputInv'
<1> SUFFICES ASSUME OutputInv, Decode PROVE OutputInv'
  OBVIOUS
<1>1. PICK o \in {NoPicture} \cup Decodable :
         out' = o /\ IF codec = "open" THEN Receive(o) ELSE DecodeRefused /\ o = NoPicture
  BY Zenon DEF Decode
<1>2. pc' = "render" /\ UNCHANGED <<rendererVars, useRenderer, next>>
  BY Zenon DEF Decode
<1>3. requestKeyframe' \in BOOLEAN
  BY Zenon DEF Decode
<1>4. /\ out' \in Pictures /\ (out' # NoPicture => out'.dev = mDevice)
      /\ UNCHANGED <<codec, hwDevice, device, lastD3D11Device, isHEVC, inst, fits, refs>>
      /\ frame' \in Pictures /\ fallback' \in {"none", "ready", "stuck"}
      /\ undrained' \in BOOLEAN
  <2>1. CASE codec = "open"
    <3>1. Receive(o)
      BY <1>1, <2>1
    <3>2. UNCHANGED <<codec, hwDevice, device, lastD3D11Device, isHEVC, inst, fits, refs>>
      BY <3>1 DEF Receive
    <3> QED BY <1>1, <2>1, <3>1, <3>2, PictureOnDevice
  <2>2. CASE codec # "open"
    <3>1. UNCHANGED <<decoderVars, refs>> /\ o = NoPicture
      BY <1>1, <2>2 DEF DecodeRefused
    <3>2. NoPicture \in Pictures
      BY DecoderAssumption DEF NoPicture, Pictures
    <3>3. frame \in Pictures /\ fallback \in {"none", "ready", "stuck"} /\ undrained \in BOOLEAN
      BY DEF OutputInv, OutputTypeOK, DecoderTypeOK
    <3> QED BY <1>1, <3>1, <3>2, <3>3 DEF decoderVars
  <2> QED BY <2>1, <2>2
<1>5. DecoderTypeOK' /\ RendererTypeOK'
  BY <1>2, <1>4, RendererSame DEF OutputInv, OutputTypeOK, DecoderTypeOK
<1>6. OutputTypeOK'
  BY <1>2, <1>3, <1>4, <1>5 DEF OutputInv, OutputTypeOK
<1>7. OneDevice'
  BY <1>2, <1>4 DEF OutputInv, OneDevice, rendererVars
<1>8. Balanced' /\ Generations'
  BY <1>2, <1>4, BalanceSame DEF OutputInv, Generations, rendererVars
<1> QED BY <1>6, <1>7, <1>8 DEF OutputInv

\* A picture that is drawn and cached is on the renderer's device.
LEMMA DrawKeeps == OutputInv /\ Draw => OutputInv'
<1> SUFFICES ASSUME OutputInv, Draw PROVE OutputInv'
  OBVIOUS
<1>1. pc = "render" /\ pc' = "end" /\ UNCHANGED <<decoderVars, loopVars>>
  BY DEF Draw, At
<1>2. CASE UNCHANGED <<rendererVars, refs>>
  <2>1. DecoderTypeOK' /\ RendererTypeOK'
    BY <1>1, <1>2, DecoderSame, RendererSame DEF OutputInv, OutputTypeOK, DecoderTypeOK
  <2>2. OutputTypeOK'
    BY <1>1, <2>1 DEF OutputInv, OutputTypeOK, loopVars
  <2> QED BY <1>1, <1>2, <2>2, QuietKeeps DEF decoderVars, rendererVars
<1>3. CASE RenderDraws(out)
  <2> DEFINE p == IF out = NoPicture THEN lastInput ELSE out
  <2>1. mDevice # 0 /\ UNCHANGED <<created, mDevice, removed, imgui, bufferIndex>>
    BY <1>3 DEF RenderDraws
  <2>2. p \in Pictures /\ (p # NoPicture => p.dev = mDevice)
    BY <1>1 DEF OutputInv, OutputTypeOK, RendererTypeOK, OneDevice
  <2>3. lastInput' = lastInput \/ (lastInput' = p /\ p # NoPicture)
    BY <1>3 DEF RenderDraws
  <2>4. \/ UNCHANGED <<videoDevice, processor, inputView, outputViews, refs>>
              /\ shown' \in {shown, p}
        \/ Blits(p) /\ p # NoPicture
    BY <1>3, VideoBlits DEF RenderDraws
  <2>5. fault' \in {fault, "video"}
    BY <1>3 DEF RenderDraws, Fail
  <2> HIDE DEF p
  <2>6. /\ Balanced' /\ refs' \in [Devices -> Int] /\ videoDevice' \in 0 .. created
        /\ processor' \in {"none", "enum", "made"}
        /\ inputView' \in Pictures /\ (inputView' # NoPicture => inputView'.dev = mDevice)
        /\ outputViews' \subseteq Buffers /\ shown' \in Pictures
    <3>1. CASE UNCHANGED <<videoDevice, processor, inputView, outputViews, refs>>
                  /\ shown' \in {shown, p}
      <4>1. Balanced'
        BY <1>1, <2>1, <3>1, BalanceSame DEF decoderVars
      <4>2. shown' \in Pictures
        BY <2>2, <3>1 DEF OutputInv, OutputTypeOK, RendererTypeOK
      <4> QED BY <3>1, <4>1, <4>2
              DEF OutputInv, OutputTypeOK, DecoderTypeOK, RendererTypeOK, OneDevice, Generations
    <3>2. CASE Blits(p) /\ p # NoPicture
      BY <1>1, <2>1, <2>2, <3>2, BlitsKeeps DEF decoderVars
    <3> QED BY <2>4, <3>1, <3>2
  <2>7. DecoderTypeOK'
    BY <1>1, <2>6, DecoderSame
  <2>8. created \in 0 .. MaxDevices /\ MaxDevices \in Nat
    BY DecoderAssumption DEF OutputInv, OutputTypeOK, RendererTypeOK
  <2>9. RendererTypeOK'
    BY <2>1, <2>2, <2>3, <2>5, <2>6, <2>8 DEF OutputInv, OutputTypeOK, RendererTypeOK
  <2>10. OutputTypeOK'
    BY <1>1, <2>7, <2>9 DEF OutputInv, OutputTypeOK, loopVars
  <2>11. OneDevice'
    BY <1>1, <2>1, <2>2, <2>3, <2>6 DEF OutputInv, OneDevice, decoderVars
  <2>12. Generations'
    BY <1>1, <2>1, <2>6 DEF OutputInv, Generations, decoderVars
  <2> QED BY <2>6, <2>10, <2>11, <2>12 DEF OutputInv
<1> QED BY <1>2, <1>3 DEF Draw

LEMMA LostKeeps ==
    ASSUME OutputInv, NEW from, NEW to \in {"new", "end"}, Lost(from, to)
    PROVE  OutputInv'
<1>1. /\ pc' = "recover" /\ next' = to
      /\ UNCHANGED <<decoderVars, refs, rendererVars, useRenderer, out, requestKeyframe>>
  BY DEF Lost
<1>2. DecoderTypeOK' /\ RendererTypeOK'
  BY <1>1, DecoderSame, RendererSame DEF OutputInv, OutputTypeOK, DecoderTypeOK
<1>3. OutputTypeOK'
  BY <1>1, <1>2 DEF OutputInv, OutputTypeOK
<1> QED BY <1>1, <1>3, QuietKeeps DEF decoderVars, rendererVars

LEMMA EndFrameKeeps == OutputInv /\ EndFrame => OutputInv'
<1> SUFFICES ASSUME OutputInv, EndFrame PROVE OutputInv'
  OBVIOUS
<1>1. pc' = "new" /\ UNCHANGED <<decoderVars, useRenderer, out, next>>
  BY DEF EndFrame
<1>2. requestKeyframe' \in BOOLEAN
  BY DEF EndFrame
<1>3. /\ UNCHANGED <<created, mDevice, removed, videoDevice, processor, inputView,
                      outputViews, lastInput, bufferIndex, shown, refs>>
      /\ imgui' = imgui \/ (imgui # "none" /\ imgui' = "ready")
      /\ fault' \in {fault, "Render"}
  BY DEF EndFrame, EndFrameDraws, rendererVars, Fail
<1>4. DecoderTypeOK'
  BY <1>1, <1>3, DecoderSame DEF OutputInv, OutputTypeOK, DecoderTypeOK
<1>5. RendererTypeOK'
  BY <1>3 DEF OutputInv, OutputTypeOK, RendererTypeOK
<1>6. OutputTypeOK'
  BY <1>1, <1>2, <1>4, <1>5 DEF OutputInv, OutputTypeOK
<1> QED BY <1>1, <1>3, <1>6, QuietKeeps DEF decoderVars

LEMMA DeviceRemovedKeeps == OutputInv /\ DeviceRemoved => OutputInv'
<1> SUFFICES ASSUME OutputInv, DeviceRemoved PROVE OutputInv'
  OBVIOUS
<1>1. UNCHANGED <<decoderVars, refs, created, mDevice, imgui, videoDevice, processor, inputView,
                  outputViews, lastInput, bufferIndex, shown, fault, pc, loopVars>>
  BY DEF DeviceRemoved
<1>2. removed' \in BOOLEAN
  BY DEF DeviceRemoved
<1>3. DecoderTypeOK'
  BY <1>1, DecoderSame DEF OutputInv, OutputTypeOK, DecoderTypeOK
<1>4. RendererTypeOK'
  BY <1>1, <1>2 DEF OutputInv, OutputTypeOK, RendererTypeOK
<1>5. OutputTypeOK'
  BY <1>1, <1>3, <1>4 DEF OutputInv, OutputTypeOK, loopVars
<1>6. OneDevice' /\ Generations'
  BY <1>1 DEF OutputInv, OneDevice, Generations, decoderVars, loopVars
<1>7. Balanced'
  BY <1>1, BalanceSame DEF decoderVars
<1> QED BY <1>5, <1>6, <1>7 DEF OutputInv

\* A rule of a library was broken: nothing else happens.
LEMMA FaultKeeps ==
    ASSUME OutputInv, fault' \in {"Shutdown", "video"}, UNCHANGED <<removed, loopVars>>,
           UNCHANGED <<pc, decoderVars, refs, created, mDevice, imgui, videoDevice, processor,
                       inputView, outputViews, lastInput, bufferIndex, shown>>
    PROVE  OutputInv'
<1>1. DecoderTypeOK'
  BY DecoderSame DEF OutputInv, OutputTypeOK, DecoderTypeOK
<1>2. RendererTypeOK'
  BY DEF OutputInv, OutputTypeOK, RendererTypeOK
<1>3. OutputTypeOK'
  BY <1>1, <1>2 DEF OutputInv, OutputTypeOK, loopVars
<1>4. OneDevice' /\ Generations'
  BY DEF OutputInv, OneDevice, Generations, decoderVars, loopVars
<1>5. Balanced'
  BY BalanceSame DEF decoderVars
<1> QED BY <1>3, <1>4, <1>5 DEF OutputInv

\* Decoder and renderer hold nothing after Shutdown, whatever device comes next.
LEMMA ShutdownKeeps ==
    ASSUME OutputInv, ShutdownClears, Shutdown, Balanced', refs' \in [Devices -> Int],
           UNCHANGED <<fault, loopVars>>,
           removed' \in BOOLEAN, shown' \in Pictures, imgui' \in {"none", "ready", "frame"},
           created' \in 0 .. MaxDevices, mDevice' \in 0 .. created', created <= created',
           pc' \in {"redecode", "new", "end", "closed"}
    PROVE  OutputInv'
<1>1. /\ NoPicture \in Pictures /\ MaxDevices \in Nat
  BY DecoderAssumption DEF NoPicture, Pictures
<1>2. DecoderTypeOK'
  <2>1. isHEVC' \in BOOLEAN /\ undrained' \in BOOLEAN /\ fits' \in BOOLEAN
    BY DEF Shutdown, OutputInv, OutputTypeOK, DecoderTypeOK
  <2> QED BY <1>1, <2>1 DEF Shutdown, OutputInv, OutputTypeOK, DecoderTypeOK
<1>3. RendererTypeOK'
  BY <1>1 DEF ShutdownClears, OutputInv, OutputTypeOK, RendererTypeOK
<1>4. OutputTypeOK'
  BY <1>2, <1>3 DEF OutputInv, OutputTypeOK, loopVars
<1>5. OneDevice'
  BY DEF Shutdown, ShutdownClears, OneDevice
<1>6. Generations'
  BY <1>1 DEF Shutdown, ShutdownClears, OutputInv, OutputTypeOK, RendererTypeOK, Generations
<1> QED BY <1>4, <1>5, <1>6 DEF OutputInv

LEMMA RecoverKeeps == OutputInv /\ Recover => OutputInv'
<1> SUFFICES ASSUME OutputInv, Recover PROVE OutputInv'
  OBVIOUS
<1>1. UNCHANGED loopVars
  BY DEF Recover, loopVars
<1>2. CASE ShutdownFault # "none"
  <2>1. /\ fault' = ShutdownFault
        /\ UNCHANGED <<pc, decoderVars, refs, created, mDevice, removed, imgui, videoDevice,
                       processor, inputView, outputViews, lastInput, bufferIndex, shown>>
    BY <1>2 DEF Recover, Fail
  <2>2. ShutdownFault \in {"Shutdown", "video"}
    BY <1>2 DEF ShutdownFault
  <2> QED BY <1>1, <2>1, <2>2, FaultKeeps
<1>3. CASE ShutdownFault = "none"
  <2>1. ShutdownClears /\ Shutdown /\ UNCHANGED fault
    BY <1>3 DEF Recover
  <2>2. PICK ok \in BOOLEAN : /\ InitRenderer(Released(AfterShutdown), ok)
                              /\ pc' = IF ok THEN "redecode" ELSE next
    BY <1>3 DEF Recover
  <2>3. Renews
    BY <1>3, <2>2, AllReleased, InitRendererRenews
  <2>4. /\ Balanced' /\ refs' \in [Devices -> Int]
        /\ created' \in 0 .. MaxDevices /\ mDevice' \in 0 .. created'
        /\ imgui' \in {"none", "ready"} /\ created <= created'
    BY <2>1, <2>3, RenewsKeeps DEF Shutdown, ShutdownClears
  <2>5. pc' \in {"redecode", "new", "end"}
    <3>1. next \in {"new", "end"}
      BY DEF OutputInv, OutputTypeOK
    <3> QED BY <2>2, <3>1
  <2>6. removed' \in BOOLEAN
    BY <2>3 DEF Renews
  <2>7. shown' \in Pictures
    BY <2>3, DecoderAssumption DEF Renews, NoPicture, Pictures
  <2> QED BY <1>1, <2>1, <2>4, <2>5, <2>6, <2>7, ShutdownKeeps
<1> QED BY <1>2, <1>3

LEMMA LeaveKeeps == OutputInv /\ Leave => OutputInv'
<1> SUFFICES ASSUME OutputInv, Leave PROVE OutputInv'
  OBVIOUS
<1>1. UNCHANGED <<created, imgui, removed, shown, loopVars>>
  BY DEF Leave, loopVars
<1>2. CASE ShutdownFault # "none"
  <2>1. /\ fault' = ShutdownFault
        /\ UNCHANGED <<pc, decoderVars, refs, mDevice, videoDevice, processor, inputView,
                       outputViews, lastInput, bufferIndex>>
    BY <1>2 DEF Leave, Fail
  <2>2. ShutdownFault \in {"Shutdown", "video"}
    BY <1>2 DEF ShutdownFault
  <2> QED BY <1>1, <2>1, <2>2, FaultKeeps
<1>3. CASE ShutdownFault = "none"
  <2>1. ShutdownClears /\ Shutdown /\ mDevice' = 0 /\ pc' = "closed" /\ UNCHANGED fault
    BY <1>3 DEF Leave
  <2>2. refs' = NoRefs
    BY <1>3, AllReleased DEF Leave
  <2>3. Balanced' /\ refs' \in [Devices -> Int]
    BY <2>1, <2>2 DEF Shutdown, Balanced, Owned, NoRefs, Devices
  <2>4. /\ created \in 0 .. MaxDevices /\ MaxDevices \in Nat /\ shown \in Pictures
        /\ imgui \in {"none", "ready", "frame"}
    BY DecoderAssumption DEF OutputInv, OutputTypeOK, RendererTypeOK
  <2>5. removed' \in BOOLEAN
    BY <1>1 DEF OutputInv, OutputTypeOK, RendererTypeOK
  <2>6. created' \in 0 .. MaxDevices /\ mDevice' \in 0 .. created' /\ created <= created'
    BY <1>1, <2>1, <2>4
  <2> QED BY <1>1, <2>1, <2>3, <2>4, <2>5, <2>6, ShutdownKeeps
<1> QED BY <1>2, <1>3

LEMMA StepOutput == OutputInv /\ [Next]_vars => OutputInv'
<1> SUFFICES ASSUME OutputInv, [Next]_vars PROVE OutputInv'
  OBVIOUS
<1>1. CASE UNCHANGED vars
  <2>1. DecoderTypeOK' /\ RendererTypeOK'
    BY <1>1, DecoderSame, RendererSame DEF vars, OutputInv, OutputTypeOK, DecoderTypeOK
  <2>2. OutputTypeOK'
    BY <1>1, <2>1 DEF vars, OutputInv, OutputTypeOK
  <2>3. OneDevice' /\ Generations'
    BY <1>1 DEF vars, decoderVars, rendererVars, OutputInv, OneDevice, Generations
  <2>4. Balanced'
    BY <1>1, BalanceSame DEF vars, decoderVars, rendererVars
  <2> QED BY <2>2, <2>3, <2>4 DEF OutputInv
<1>2. CASE DrawFails \/ EndFails
  BY <1>2, LostKeeps DEF DrawFails, EndFails
<1> QED BY <1>1, <1>2, StartRendererKeeps, StartDecoderKeeps, LoopHeadKeeps, IdleKeeps,
           ChangeCodecKeeps, DecodeKeeps, DrawKeeps, EndFrameKeeps, RecoverKeeps, ReDecodeKeeps,
           LeaveKeeps, DeviceRemovedKeeps DEF Next, Stopped

-----------------------------------------------------------------------------
\* The invariant: the references are those of the owners, and the decoder, the
\* pictures and the views are on the device the renderer has.
THEOREM OutputInvariant == Spec => []OutputInv
<1> QED BY InitOutput, StepOutput, PTL DEF Spec

\* Through removed devices, initialisations that fail half way, changes of codec and
\* recoveries, decoder and renderer work on one device and no reference to any is
\* leaked or released twice.
THEOREM DevicesAreSound == Spec => []DevicesSound
<1>1. OutputInv => DevicesSound
  BY BalancedMeans DEF OutputInv, DevicesSound
<1> QED BY <1>1, OutputInvariant, PTL

-----------------------------------------------------------------------------
(***************************************************************************)
(* What is on the screen.                                                  *)
(***************************************************************************)
\* A view that is kept belongs to a processor that will not be made again, and is of
\* the cached picture, unless a picture was copied past the processor since.
ViewKept ==
    inputView # NoPicture => /\ processor = "made" /\ videoDevice # 0 /\ videoDevice = mDevice
                             /\ inputView = lastInput \/ lastInput.fits

\* A picture comes from an incarnation of the decoder up to the current one; a slice
\* of the current one comes from a hardware decoder.
FromDecoder(p) ==
    p # NoPicture => /\ p.inst <= inst
                     /\ ~p.sw /\ p.inst = inst /\ codec = "open" => hwDevice # 0

\* A slice of the current incarnation is the newest picture.
Newest(p) == p # NoPicture /\ ~p.sw /\ p.inst = inst /\ frame # NoPicture => p = frame

\* Between Decode and Render the picture to be drawn is the newest, else the cached
\* one is; a recovery forgets it.
CachedNewest ==
    /\ pc \notin {"render", "recover"} => Newest(lastInput)
    /\ pc = "render" => Newest(IF out = NoPicture THEN lastInput ELSE out)

ScreenInv ==
    /\ ViewKept /\ FromDecoder(lastInput) /\ FromDecoder(out) /\ CachedNewest
    /\ ~useRenderer => lastInput = NoPicture

LEMMA ScreenTypes ==
    ASSUME OutputInv
    PROVE  /\ inst \in Nat /\ lastInput \in Pictures /\ out \in Pictures /\ inputView \in Pictures
           /\ \A p \in Pictures : p.inst \in Nat /\ p.sw \in BOOLEAN /\ p.fits \in BOOLEAN
           /\ useRenderer \in BOOLEAN
<1>1. inst \in Nat /\ lastInput \in Pictures /\ out \in Pictures /\ inputView \in Pictures
      /\ useRenderer \in BOOLEAN
  BY DecoderAssumption DEF OutputInv, OutputTypeOK, DecoderTypeOK, RendererTypeOK
<1>2. \A p \in Pictures : p.inst \in Nat /\ p.sw \in BOOLEAN /\ p.fits \in BOOLEAN
  BY DecoderAssumption DEF Pictures
<1> QED BY <1>1, <1>2

\* A step that leaves the decoder and the cached picture alone.
LEMMA CacheStays ==
    ASSUME ScreenInv,
           UNCHANGED <<inst, codec, hwDevice, frame, useRenderer>>,
           UNCHANGED <<lastInput, inputView, processor, videoDevice>>,
           mDevice' = mDevice \/ inputView = NoPicture,
           \/ out' = out /\ pc' = pc
           \/ out' = out /\ pc' = "recover"
           \/ out' = out /\ pc \notin {"render", "recover"} /\ pc' \notin {"render", "recover"}
           \/ out' = NoPicture /\ pc \notin {"render", "recover"} /\ pc' = "render"
    PROVE  ScreenInv'
<1>1. ViewKept' /\ FromDecoder(lastInput)' /\ (~useRenderer => lastInput = NoPicture)'
  BY DEF ScreenInv, ViewKept, FromDecoder
<1>2. FromDecoder(out)'
  BY DEF ScreenInv, FromDecoder
<1>3. CachedNewest'
  BY DEF ScreenInv, CachedNewest, Newest
<1> QED BY <1>1, <1>2, <1>3 DEF ScreenInv

\* A new incarnation of the decoder: no picture is of it yet.
LEMMA OpensScreen ==
    ASSUME OutputInv, ScreenInv, NEW d, NEW r, Opens(d, r),
           UNCHANGED <<lastInput, inputView, processor, videoDevice, mDevice, useRenderer>>,
           out' = out \/ out' = NoPicture
    PROVE  ScreenInv'
<1>1. inst' = inst + 1 /\ frame' = NoPicture
  BY DEF Opens
<1>2. ViewKept' /\ (~useRenderer => lastInput = NoPicture)'
  BY DEF ScreenInv, ViewKept
<1>3. ASSUME NEW p \in Pictures, FromDecoder(p)
      PROVE  p # NoPicture => p.inst <= inst' /\ p.inst # inst'
  BY <1>1, <1>3, ScreenTypes DEF FromDecoder
<1>4. FromDecoder(lastInput)'
  BY <1>3, ScreenTypes DEF ScreenInv, FromDecoder
<1>5. FromDecoder(out)'
  BY <1>3, ScreenTypes DEF ScreenInv, FromDecoder
<1>6. CachedNewest'
  BY <1>1 DEF CachedNewest, Newest
<1> QED BY <1>2, <1>4, <1>5, <1>6 DEF ScreenInv

\* What comes out of Receive is the newest picture, or nothing, and then a slice
\* of the current incarnation that is cached is still the newest.
LEMMA DecodeScreen == OutputInv /\ ScreenInv /\ Decode => ScreenInv'
<1> SUFFICES ASSUME OutputInv, ScreenInv, Decode PROVE ScreenInv'
  OBVIOUS
<1>1. PICK o \in {NoPicture} \cup Decodable :
         out' = o /\ IF codec = "open" THEN Receive(o) ELSE DecodeRefused /\ o = NoPicture
  BY Zenon DEF Decode
<1>2. pc' = "render" /\ UNCHANGED <<rendererVars, useRenderer, next>> /\ pc \in {"pop", "receive"}
  BY Zenon DEF Decode, At
<1>3. Newest(lastInput)
  BY <1>2 DEF ScreenInv, CachedNewest
<1>4. UNCHANGED <<inst, codec, hwDevice>>
  <2>1. CASE codec = "open"
    BY <1>1, <2>1 DEF Receive
  <2>2. CASE codec # "open"
    BY <1>1, <2>2 DEF DecodeRefused, decoderVars
  <2> QED BY <2>1, <2>2
<1>5. ViewKept' /\ FromDecoder(lastInput)' /\ (~useRenderer => lastInput = NoPicture)'
  BY <1>2, <1>4 DEF ScreenInv, ViewKept, FromDecoder, rendererVars
<1>6. ASSUME NEW p \in Decodable
      PROVE  p.inst = inst /\ (~p.sw <=> hwDevice # 0)
  <2>1. CASE hwDevice # 0
    <3>1. p \in [inst : {inst}, sw : {FALSE}, fits : {FALSE}, slice : Slices, dev : {hwDevice}]
      BY <2>1 DEF Decodable
    <3> QED BY <2>1, <3>1
  <2>2. CASE hwDevice = 0
    <3>1. p = [inst |-> inst, sw |-> TRUE, fits |-> fits, slice |-> 0, dev |-> device]
      BY <2>2 DEF Decodable
    <3> QED BY <2>2, <3>1
  <2> QED BY <2>1, <2>2
<1>7. FromDecoder(out)'
  <2>1. CASE o = NoPicture
    BY <1>1, <2>1 DEF FromDecoder
  <2>2. CASE o \in Decodable
    <3>1. o.inst = inst /\ (~o.sw => hwDevice # 0) /\ inst \in Nat
      BY <1>6, <2>2, ScreenTypes
    <3> QED BY <1>1, <1>4, <3>1 DEF FromDecoder
  <2> QED BY <2>1, <2>2
<1>8. Newest(IF out = NoPicture THEN lastInput ELSE out)'
  <2>1. CASE frame' = frame /\ o = NoPicture
    BY <1>1, <1>2, <1>3, <1>4, <2>1 DEF Newest, rendererVars
  <2>2. CASE frame' = NoPicture
    BY <2>2 DEF Newest
  <2>3. ASSUME NEW p \in Decodable, codec = "open", frame' = p, Output(p, o)
        PROVE  Newest(IF out = NoPicture THEN lastInput ELSE out)'
    <3>1. CASE o = NoPicture
      <4>1. CASE p.sw
        <5>1. hwDevice = 0
          BY <1>6, <4>1
        <5>2. ~(lastInput # NoPicture /\ ~lastInput.sw /\ lastInput.inst = inst)
          BY <2>3, <5>1 DEF ScreenInv, FromDecoder
        <5> QED BY <1>1, <1>2, <1>4, <3>1, <5>2 DEF Newest, rendererVars
      <4>2. CASE ~p.sw
        <5>1. o = p
          BY <2>3, <4>2 DEF Output
        <5> QED BY <2>3, <3>1, <5>1 DEF Newest
      <4> QED BY <4>1, <4>2
    <3>2. CASE o # NoPicture
      <4>1. o = p
        BY <2>3, <3>2 DEF Output
      <4> QED BY <1>1, <2>3, <3>2, <4>1 DEF Newest
    <3> QED BY <3>1, <3>2
  <2>4. CASE codec = "open"
    <3>1. Receive(o)
      BY <1>1, <2>4
    <3> QED BY <2>1, <2>2, <2>3, <2>4, <3>1 DEF Receive
  <2>5. CASE codec # "open"
    <3>1. frame' = frame /\ o = NoPicture
      BY <1>1, <2>5 DEF DecodeRefused, decoderVars
    <3> QED BY <2>1, <3>1
  <2> QED BY <2>4, <2>5
<1>9. CachedNewest'
  BY <1>2, <1>8 DEF CachedNewest
<1> QED BY <1>5, <1>7, <1>9 DEF ScreenInv

\* The view that is drawn through the video processor is of the picture p.
LEMMA BlitShows ==
    ASSUME OutputInv, ViewKept, NEW p \in Pictures, p # NoPicture, ~p.fits, VideoBlit(p),
           ~StaleVideo, mDevice # 0, lastInput' = p, mDevice' = mDevice
    PROVE  /\ ViewKept' /\ shown' \in {shown, p, NoPicture}
<1>1. PICK ok, in, outp, blt \in BOOLEAN, same \in SameSize(p) :
        LET cached  == IF Resets(same) THEN NoPicture ELSE lastInput
            kept    == IF Resets(same) THEN NoPicture ELSE inputView
            views   == IF Resets(same) THEN {} ELSE outputViews
            isNew   == Changed(p, cached)
            makes   == bufferIndex \notin views
        IN  /\ SetupVideo(same, ok)
            /\ inputView' = IF ~ok \/ ~isNew THEN kept ELSE IF in THEN p ELSE NoPicture
            /\ outputViews' = IF ok /\ makes /\ outp THEN views \cup {bufferIndex} ELSE views
            /\ LET drawn == ok /\ inputView' # NoPicture /\ bufferIndex \in outputViews' /\ blt
               IN shown' = IF drawn THEN inputView' ELSE IF p.sw THEN p ELSE shown
  BY Zenon DEF VideoBlit
<1> DEFINE cached == IF Resets(same) THEN NoPicture ELSE lastInput
           kept   == IF Resets(same) THEN NoPicture ELSE inputView
<1>2. /\ SetupVideo(same, ok)
      /\ inputView' = IF ~ok \/ ~Changed(p, cached) THEN kept ELSE IF in THEN p ELSE NoPicture
      /\ shown' \in {shown, p} \/ (ok /\ shown' = inputView')
  BY <1>1
<1>3. /\ videoDevice # 0 => videoDevice' = videoDevice
      /\ ok /\ videoDevice' # 0 => processor' = "made"
      /\ ok => videoDevice' # 0
      /\ processor = "made" /\ same /\ videoDevice # 0 => ok
  <2>1. /\ videoDevice' \in IF videoDevice # 0 THEN {videoDevice}
                            ELSE IF ok THEN {mDevice} ELSE {0, mDevice}
        /\ IF videoDevice' = 0 \/ (processor = "made" /\ same)
           THEN UNCHANGED processor /\ (ok <=> videoDevice' # 0)
           ELSE processor' \in IF ok THEN {"made"} ELSE {"none", "enum"}
    BY <1>2, Zenon DEF SetupVideo
  <2> QED BY <2>1
<1>4. inputView' # NoPicture => ok /\ inputView' = p
  <2>1. CASE ~ok
    <3>1. inputView' = kept
      BY <1>2, <2>1
    <3>2. ASSUME kept # NoPicture PROVE FALSE
      <4>1. inputView # NoPicture /\ ~Resets(same)
        BY <3>2
      <4>2. processor = "made" /\ videoDevice # 0 /\ same
        BY <4>1 DEF ViewKept, Resets
      <4> QED BY <1>3, <2>1, <4>2
    <3> QED BY <3>1, <3>2
  <2>2. CASE ok /\ Changed(p, cached)
    BY <1>2, <2>2
  <2>3. CASE ok /\ ~Changed(p, cached)
    <3>1. inputView' = kept /\ p = cached
      BY <1>2, <2>3 DEF Changed
    <3>2. ~Resets(same) /\ p = lastInput /\ inputView' = inputView
      BY <3>1
    <3>3. inputView # NoPicture => inputView = p
      BY <3>2 DEF ViewKept
    <3> QED BY <2>3, <3>2, <3>3
  <2> QED BY <2>1, <2>2, <2>3
<1>5. videoDevice' # 0 => videoDevice' = mDevice
  <2>1. videoDevice = 0 => videoDevice' \in {0, mDevice}
    BY <1>2, Zenon DEF SetupVideo
  <2> QED BY <1>3, <2>1 DEF StaleVideo
<1>6. ViewKept'
  BY <1>3, <1>4, <1>5 DEF ViewKept
<1> QED BY <1>2, <1>4, <1>6

\* Render caches what it was asked to draw, and draws nothing else.
LEMMA RenderShows ==
    ASSUME OutputInv, ScreenInv, RenderDraws(out)
    PROVE  /\ ViewKept'
           /\ lastInput' = IF out = NoPicture THEN lastInput ELSE out
           /\ shown' \in {shown, lastInput', NoPicture}
<1> DEFINE p == IF out = NoPicture THEN lastInput ELSE out
<1>1. p \in Pictures /\ ViewKept
  BY ScreenTypes DEF ScreenInv
<1>4. mDevice # 0 /\ mDevice' = mDevice
  BY DEF RenderDraws
<1>2. CASE /\ p = NoPicture
           /\ UNCHANGED <<videoDevice, processor, inputView, outputViews, lastInput, shown, fault, refs>>
  BY <1>1, <1>2, <1>4 DEF ViewKept
<1>3. CASE p # NoPicture /\ lastInput' = p
  <2>1. CASE p.fits /\ shown' = p /\ UNCHANGED <<videoDevice, processor, inputView>>
    BY <1>1, <1>3, <1>4, <2>1 DEF ViewKept
  <2>2. CASE ~p.fits /\ ~StaleVideo /\ VideoBlit(p)
    <3>1. ViewKept' /\ shown' \in {shown, p, NoPicture}
      BY <1>1, <1>3, <1>4, <2>2, BlitShows
    <3> QED BY <1>3, <3>1
  <2>3. CASE ~p.fits /\ StaleVideo /\ UNCHANGED <<videoDevice, processor, inputView, shown>>
    BY <1>1, <1>3, <1>4, <2>3 DEF ViewKept, StaleVideo
  <2> QED BY <1>3, <2>1, <2>2, <2>3 DEF RenderDraws
<1> QED BY <1>2, <1>3 DEF RenderDraws

LEMMA DrawScreen == OutputInv /\ ScreenInv /\ Draw => ScreenInv'
<1> SUFFICES ASSUME OutputInv, ScreenInv, Draw PROVE ScreenInv'
  OBVIOUS
<1>1. /\ pc = "render" /\ pc' = "end" /\ UNCHANGED <<decoderVars, loopVars>>
      /\ IF useRenderer THEN RenderDraws(out) ELSE UNCHANGED <<rendererVars, refs>>
  BY DEF Draw, At
<1>2. UNCHANGED <<inst, codec, hwDevice, frame, useRenderer, out>>
  BY <1>1 DEF decoderVars, loopVars
<1>3. CASE useRenderer
  <2>1. ViewKept' /\ lastInput' = IF out = NoPicture THEN lastInput ELSE out
    BY <1>1, <1>3, RenderShows
  <2>2. FromDecoder(lastInput)'
    BY <1>2, <2>1 DEF ScreenInv, FromDecoder
  <2>3. FromDecoder(out)'
    BY <1>2 DEF ScreenInv, FromDecoder
  <2>4. CachedNewest'
    BY <1>1, <1>2, <2>1 DEF ScreenInv, CachedNewest, Newest
  <2> QED BY <1>2, <1>3, <2>1, <2>2, <2>3, <2>4 DEF ScreenInv
<1>4. CASE ~useRenderer
  <2>1. UNCHANGED rendererVars /\ lastInput = NoPicture /\ lastInput' = NoPicture
    BY <1>1, <1>4 DEF ScreenInv, rendererVars
  <2>2. ViewKept' /\ FromDecoder(lastInput)' /\ FromDecoder(out)'
    BY <1>2, <2>1 DEF ScreenInv, ViewKept, FromDecoder, rendererVars
  <2>3. CachedNewest'
    BY <1>1, <2>1 DEF CachedNewest, Newest
  <2> QED BY <2>1, <2>2, <2>3 DEF ScreenInv
<1> QED BY <1>3, <1>4

\* Recovery and the end of the session forget the pictures.
LEMMA ForgetScreen ==
    ASSUME ScreenInv, ShutdownClears, codec' = "none", frame' = NoPicture, UNCHANGED <<inst, out>>
    PROVE  ScreenInv'
<1>1. inputView' = NoPicture /\ lastInput' = NoPicture
  BY DEF ShutdownClears
<1>2. FromDecoder(out)'
  BY DEF ScreenInv, FromDecoder
<1> QED BY <1>1, <1>2 DEF ScreenInv, ViewKept, FromDecoder, CachedNewest, Newest

LEMMA StepScreen == OutputInv /\ ScreenInv /\ [Next]_vars => ScreenInv'
<1> SUFFICES ASSUME OutputInv, ScreenInv, [Next]_vars PROVE ScreenInv'
  OBVIOUS
<1> USE DEF At
<1>1. CASE StartRenderer
  <2>1. pc = "start" /\ pc' \in {"startDecoder", "leave"} /\ inputView = NoPicture
        /\ UNCHANGED <<decoderVars, videoDevice, processor, inputView, lastInput, loopVars>>
    BY <1>1 DEF StartRenderer, OutputInv, Generations
  <2> QED BY <2>1, CacheStays DEF decoderVars, loopVars
<1>2. CASE StartDecoder
  <2>1. PICK r \in Results : Initialize(mDevice, FALSE, r)
    BY <1>2, Zenon DEF StartDecoder
  <2>2. UNCHANGED <<rendererVars, loopVars>>
    BY <1>2 DEF StartDecoder
  <2> QED BY <2>1, <2>2, InitializeOpens, OpensScreen DEF rendererVars, loopVars
<1>3. CASE LoopHead
  <2>1. pc = "new" /\ pc' \in {"pop", "leave"} /\ UNCHANGED <<decoderVars, loopVars>>
    BY <1>3 DEF LoopHead
  <2>2. UNCHANGED <<lastInput, inputView, processor, videoDevice, mDevice>>
    BY <1>3 DEF LoopHead, NewFrame, rendererVars
  <2> QED BY <2>1, <2>2, CacheStays DEF decoderVars, loopVars
<1>4. CASE Idle
  <2>1. pc = "pop" /\ pc' = "render" /\ out' = NoPicture
        /\ UNCHANGED <<decoderVars, rendererVars, useRenderer>>
    BY <1>4 DEF Idle
  <2> QED BY <2>1, CacheStays DEF decoderVars, rendererVars
<1>5. CASE ChangeCodec
  <2>1. PICK r \in Results : ReInitialize(r)
    BY <1>5, Zenon DEF ChangeCodec
  <2>2. UNCHANGED <<rendererVars, useRenderer>> /\ out' = NoPicture
    BY <1>5, Zenon DEF ChangeCodec
  <2>3. (~isHEVC) \in BOOLEAN
    OBVIOUS
  <2>4. Opens(lastD3D11Device, r)
    BY <2>1, <2>3, InitializeOpens DEF ReInitialize
  <2> QED BY <2>2, <2>4, OpensScreen DEF rendererVars
<1>6. CASE DrawFails \/ EndFails
  <2>1. pc' = "recover" /\ UNCHANGED <<decoderVars, rendererVars, useRenderer, out>>
    BY <1>6 DEF DrawFails, EndFails, Lost
  <2> QED BY <2>1, CacheStays DEF decoderVars, rendererVars
<1>7. CASE EndFrame
  <2>1. pc = "end" /\ pc' = "new" /\ UNCHANGED <<decoderVars, useRenderer, out>>
    BY <1>7 DEF EndFrame
  <2>2. UNCHANGED <<lastInput, inputView, processor, videoDevice, mDevice>>
    BY <1>7 DEF EndFrame, EndFrameDraws, rendererVars
  <2> QED BY <2>1, <2>2, CacheStays DEF decoderVars
<1>8. CASE Recover
  <2>1. UNCHANGED <<useRenderer, out>>
    BY <1>8, Zenon DEF Recover
  <2>2. CASE ShutdownFault # "none"
    <3>1. UNCHANGED <<pc, decoderVars, mDevice, videoDevice, processor, inputView, lastInput>>
      BY <1>8, <2>2, Zenon DEF Recover
    <3> QED BY <2>1, <3>1, CacheStays DEF decoderVars
  <2>3. CASE ShutdownFault = "none"
    <3>1. ShutdownClears /\ Shutdown
      BY <1>8, <2>3, Zenon DEF Recover
    <3> QED BY <2>1, <3>1, ForgetScreen DEF Shutdown
  <2> QED BY <2>2, <2>3
<1>9. CASE ReDecode
  <2>1. PICK r \in Results : Initialize(mDevice, isHEVC, r)
    BY <1>9, Zenon DEF ReDecode
  <2>2. UNCHANGED <<rendererVars, loopVars>>
    BY <1>9, Zenon DEF ReDecode
  <2>3. isHEVC \in BOOLEAN
    BY DEF OutputInv, OutputTypeOK, DecoderTypeOK
  <2> QED BY <2>1, <2>2, <2>3, InitializeOpens, OpensScreen DEF rendererVars, loopVars
<1>10. CASE Leave
  <2>1. UNCHANGED <<useRenderer, out>>
    BY <1>10, Zenon DEF Leave
  <2>2. CASE ShutdownFault # "none"
    <3>1. UNCHANGED <<pc, decoderVars, mDevice, videoDevice, processor, inputView, lastInput>>
      BY <1>10, <2>2, Zenon DEF Leave
    <3> QED BY <2>1, <3>1, CacheStays DEF decoderVars
  <2>3. CASE ShutdownFault = "none"
    <3>1. ShutdownClears /\ Shutdown
      BY <1>10, <2>3, Zenon DEF Leave
    <3> QED BY <2>1, <3>1, ForgetScreen DEF Shutdown
  <2> QED BY <2>2, <2>3
<1>11. CASE DeviceRemoved \/ UNCHANGED vars
  <2>1. UNCHANGED <<decoderVars, mDevice, videoDevice, processor, inputView, lastInput, useRenderer,
                    out, pc>>
    BY <1>11 DEF DeviceRemoved, vars, rendererVars, loopVars
  <2> QED BY <2>1, CacheStays DEF decoderVars
<1> QED BY <1>1, <1>2, <1>3, <1>4, <1>5, <1>6, <1>7, <1>8, <1>9, <1>10, <1>11, DecodeScreen, DrawScreen
        DEF Next, Stopped

\* A back buffer gets the picture Render was asked for.
LEMMA StepShows ==
    OutputInv /\ ScreenInv /\ [Next]_vars =>
      (shown' \notin {shown, NoPicture} => shown' = (IF out = NoPicture THEN lastInput ELSE out))
<1> SUFFICES ASSUME OutputInv, ScreenInv, [Next]_vars, shown' \notin {shown, NoPicture}
             PROVE  shown' = (IF out = NoPicture THEN lastInput ELSE out)
  OBVIOUS
<1>1. CASE Draw
  <2>1. IF useRenderer THEN RenderDraws(out) ELSE UNCHANGED <<rendererVars, refs>>
    BY <1>1 DEF Draw
  <2>2. CASE useRenderer
    BY <2>1, <2>2, RenderShows
  <2>3. CASE ~useRenderer
    BY <2>1, <2>3 DEF rendererVars
  <2> QED BY <2>2, <2>3
<1>2. CASE StartRenderer
  BY <1>2 DEF StartRenderer, InitRenderer
<1>3. CASE Recover
  <2>1. CASE ShutdownFault # "none"
    BY <1>3, <2>1, Zenon DEF Recover
  <2>2. CASE ShutdownFault = "none"
    <3>1. \E r, ok : InitRenderer(r, ok)
      BY <1>3, <2>2, Zenon DEF Recover
    <3> QED BY <3>1 DEF InitRenderer
  <2> QED BY <2>1, <2>2
<1>4. CASE StartDecoder \/ LoopHead \/ Idle \/ EndFrame \/ DrawFails \/ EndFails \/ DeviceRemoved
           \/ UNCHANGED vars
  BY <1>4 DEF StartDecoder, LoopHead, NewFrame, Idle, EndFrame, EndFrameDraws, DrawFails, EndFails, Lost,
              DeviceRemoved, vars, rendererVars
<1>5. CASE ChangeCodec \/ Decode \/ ReDecode
  <2>1. UNCHANGED rendererVars
    BY <1>5, Zenon DEF ChangeCodec, Decode, ReDecode
  <2> QED BY <2>1 DEF rendererVars
<1>6. CASE Leave
  BY <1>6, Zenon DEF Leave
<1> QED BY <1>1, <1>2, <1>3, <1>4, <1>5, <1>6 DEF Next, Stopped

LEMMA InitScreen == OutputInit => ScreenInv
<1> SUFFICES ASSUME OutputInit PROVE ScreenInv
  OBVIOUS
<1>1. lastInput = NoPicture /\ inputView = NoPicture /\ out = NoPicture
  BY DEF OutputInit, RendererInit
<1> QED BY <1>1 DEF ScreenInv, ViewKept, FromDecoder, CachedNewest, Newest

\* What the invariant says of the pictures.
THEOREM ScreenInvariant == Spec => [](OutputInv /\ ScreenInv)
<1> QED BY InitScreen, StepScreen, OutputInvariant, PTL DEF Spec

\* The screen shows what Render was asked to draw, through kept views, a video processor
\* that is made again and lost devices, and never draws a slice again that the decoder has replaced.
THEOREM ScreenStaysRight == Spec => ScreenRight
<1>1. OutputInv /\ ScreenInv => RedrawsNewest
  <2> SUFFICES ASSUME ScreenInv, pc \in {"new", "pop"}, lastInput # NoPicture, ~lastInput.sw,
                      lastInput.inst = inst, frame # NoPicture
               PROVE  lastInput = frame
    BY DEF RedrawsNewest
  <2> QED BY DEF ScreenInv, CachedNewest, Newest
<1>2. OutputInv /\ ScreenInv /\ [Next]_vars =>
        [shown' \notin {shown, NoPicture} => shown' = (IF out = NoPicture THEN lastInput ELSE out)]_vars
  BY StepShows
<1>3. Spec => ShowsWhatIsAsked
  BY <1>2, ScreenInvariant, PTL DEF Spec, ShowsWhatIsAsked
<1>4. Spec => []RedrawsNewest
  BY <1>1, ScreenInvariant, PTL
<1> QED BY <1>3, <1>4 DEF ScreenRight
=============================================================================
