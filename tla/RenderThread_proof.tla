------------------------- MODULE RenderThread_proof -------------------------
(***************************************************************************)
(* Proofs about RenderThread, for any number of requests and saved images. *)
(***************************************************************************)
EXTENDS RenderThread, SequenceTheorems, TLAPS

USE MaxRequestsAssumption, MaxSavesAssumption

\* What the thread knows of its drawing and of the request, by its position.
\* A cut drawing means that restart_ is up until the loop has looked at it; and
\* once the request is taken, a newer one can only be there with restart_ up.
Follows ==
  /\ run = "check" /\ job.state = "cut" => restart
  /\ run \in {"clear", "emit"} => job.state # "cut"
  /\ run \in {"draw", "drawing", "check", "clear", "emit", "abort", "lock"}
       => job.rect = draw_rect \/ restart
  /\ run = "draw" => job.state = "loading"

IInv == TypeOK /\ NoCutImage /\ NoRequestLost /\ Follows

-----------------------------------------------------------------------------
\* Emitting an image that is not cut keeps what NoCutImage says.
LEMMA EmitsNoCut ==
  ASSUME TypeOK, NoCutImage, job.state # "cut", Emits(job)
  PROVE  emitted' \in Seq(Image) /\ NoCutImage'
PROOF
  <1>1. emitted \in Seq(Image) /\ job \in Image
    BY DEF TypeOK
  <1>2. emitted' = Append(emitted, job)
    BY DEF Emits
  <1>3. /\ emitted' \in Seq(Image)
        /\ Len(emitted') = Len(emitted) + 1
        /\ \A k \in 1..Len(emitted) : emitted'[k] = emitted[k]
        /\ emitted'[Len(emitted) + 1] = job
    BY <1>1, <1>2
  <1>4. ASSUME NEW k \in 1..Len(emitted') PROVE emitted'[k].state # "cut"
    <2>1. Len(emitted) \in Nat
      BY <1>1
    <2>2. CASE k \in 1..Len(emitted)
      BY <1>3, <2>2 DEF NoCutImage
    <2>3. CASE k = Len(emitted) + 1
      BY <1>3, <2>3
    <2> QED BY <1>3, <2>1, <2>2, <2>3
  <1> QED BY <1>3, <1>4 DEF NoCutImage

\* Delivering the first image leaves the others.
LEMMA DeliveryNoCut ==
  ASSUME TypeOK, NoCutImage, UpdatePixmap
  PROVE  emitted' \in Seq(Image) /\ shown' \in Image /\ NoCutImage'
PROOF
  <1>1. emitted \in Seq(Image) /\ emitted # <<>>
    BY DEF TypeOK, UpdatePixmap
  <1>2. emitted' = Tail(emitted) /\ shown' = Head(emitted)
    BY DEF UpdatePixmap
  <1>3. /\ emitted' \in Seq(Image) /\ shown' \in Image
        /\ Len(emitted') = Len(emitted) - 1
        /\ \A k \in 1..(Len(emitted) - 1) : emitted'[k] = emitted[k + 1]
    BY <1>1, <1>2, HeadTailProperties
  <1>4. ASSUME NEW k \in 1..Len(emitted') PROVE emitted'[k].state # "cut"
    <2>1. Len(emitted) \in Nat
      BY <1>1
    <2>2. k + 1 \in 1..Len(emitted) /\ emitted'[k] = emitted[k + 1]
      BY <1>3, <2>1
    <2> QED BY <2>2 DEF NoCutImage
  <1> QED BY <1>3, <1>4 DEF NoCutImage

-----------------------------------------------------------------------------
\* The steps of the GUI thread keep the invariant.  Handing over a request is
\* where NoRequestLost is at stake: a thread that waits is woken, and one that
\* is under way finds restart_ up.
LEMMA GuiKeepsIInv ==
  ASSUME IInv, RenderBegin \/ SaveImage \/ ExitBegin \/ GuiGoesOn
  PROVE  IInv'
PROOF
  <1>1. CASE RenderBegin
    <2>1. requested' \in 0..MaxRequests
      BY <1>1 DEF IInv, TypeOK, RenderBegin
    <2> QED BY <1>1, <2>1 DEF IInv, TypeOK, NoCutImage, NoRequestLost, Follows, RenderBegin
  <1>2. CASE SaveImage
    <2>1. saves' \in 0..MaxSaves
      BY <1>2 DEF IInv, TypeOK, SaveImage
    <2> QED BY <1>2, <2>1 DEF IInv, TypeOK, NoCutImage, NoRequestLost, Follows, SaveImage, flags
  <1>3. CASE ExitBegin
    BY <1>3 DEF IInv, TypeOK, NoCutImage, NoRequestLost, Follows, ExitBegin, Wake, viewer
  <1>4. CASE RenderLocked
    <2>1. CASE run = "none"
      BY <1>4, <2>1 DEF IInv, TypeOK, NoCutImage, NoRequestLost, Follows, RenderLocked, viewer
    <2>2. CASE run # "none"
      BY <1>4, <2>2
         DEF IInv, TypeOK, NoCutImage, NoRequestLost, Follows, RenderLocked, Wake, viewer
    <2> QED BY <2>1, <2>2
  <1>5. CASE UpdatePixmap
    <2>1. emitted' \in Seq(Image) /\ shown' \in Image /\ NoCutImage'
      BY <1>5, DeliveryNoCut DEF IInv
    <2> QED BY <1>5, <2>1 DEF IInv, TypeOK, NoRequestLost, Follows, UpdatePixmap, flags
  <1>6. CASE HandleLoadingIndication
    BY <1>6 DEF IInv, TypeOK, NoCutImage, NoRequestLost, Follows, HandleLoadingIndication, flags
  <1>7. CASE SaveDraw
    BY <1>7 DEF IInv, TypeOK, NoCutImage, NoRequestLost, Follows, SaveDraw, flags, viewer
  <1>8. CASE ExitEnd
    BY <1>8 DEF IInv, TypeOK, NoCutImage, NoRequestLost, Follows, ExitEnd, flags, viewer
  <1> QED BY <1>1, <1>2, <1>3, <1>4, <1>5, <1>6, <1>7, <1>8 DEF GuiGoesOn

\* The steps of the render thread keep it.  A drawing is emitted only from
\* "clear" on, which it reaches with restart_ down, hence not cut; and the
\* thread goes to sleep only with restart_ down, hence with the latest request.
LEMMA RunKeepsIInv ==
  ASSUME IInv, Run
  PROVE  IInv'
PROOF
  <1>1. CASE RunTake
    <2>1. job' \in Image /\ job'.rect = draw_rect /\ job'.state = "loading"
      BY <1>1 DEF IInv, TypeOK, RunTake, Image
    <2> QED BY <1>1, <2>1
         DEF IInv, TypeOK, NoCutImage, NoRequestLost, Follows, RunTake, flags, viewer
  <1>2. CASE DrawBegin
    <2>1. job.state # "cut"
      BY <1>2 DEF IInv, Follows, DrawBegin
    <2>2. emitted' \in Seq(Image) /\ NoCutImage'
      <3>1. CASE Emits(job)
        BY <2>1, <3>1, EmitsNoCut DEF IInv
      <3>2. CASE UNCHANGED emitted
        BY <3>2 DEF IInv, TypeOK, NoCutImage
      <3> QED BY <1>2, <3>1, <3>2 DEF DrawBegin
    <2> QED BY <1>2, <2>2 DEF IInv, TypeOK, NoRequestLost, Follows, DrawBegin, flags
  <1>3. CASE DrawEnd
    <2>1. PICK state \in {"whole", "thrown"} \cup (IF restart THEN {"cut"} ELSE {}) :
            job' = [job EXCEPT !.state = state]
      BY <1>3 DEF DrawEnd
    <2>2. /\ job' \in Image /\ job'.rect = job.rect
          /\ job'.state = "cut" => restart
      BY <2>1 DEF IInv, TypeOK, Image
    <2> QED BY <1>3, <2>2
         DEF IInv, TypeOK, NoCutImage, NoRequestLost, Follows, DrawEnd, flags, viewer
  <1>4. CASE RunCheck
    BY <1>4 DEF IInv, TypeOK, NoCutImage, NoRequestLost, Follows, RunCheck, flags, viewer
  <1>5. CASE RunClear
    BY <1>5 DEF IInv, TypeOK, NoCutImage, NoRequestLost, Follows, RunClear, viewer
  <1>6. CASE RunEmit
    <2>1. job.state # "cut" /\ Emits(job)
      BY <1>6 DEF IInv, Follows, RunEmit
    <2>2. emitted' \in Seq(Image) /\ NoCutImage'
      BY <2>1, EmitsNoCut DEF IInv
    <2> QED BY <1>6, <2>2 DEF IInv, TypeOK, NoRequestLost, Follows, RunEmit
  <1>7. CASE RunAbort
    BY <1>7 DEF IInv, TypeOK, NoCutImage, NoRequestLost, Follows, RunAbort, flags, viewer
  <1>8. CASE RunLock
    BY <1>8 DEF IInv, TypeOK, NoCutImage, NoRequestLost, Follows, RunLock, viewer
  <1>9. CASE RunWoken
    BY <1>9 DEF IInv, TypeOK, NoCutImage, NoRequestLost, Follows, RunWoken, viewer
  <1> QED BY <1>1, <1>2, <1>3, <1>4, <1>5, <1>6, <1>7, <1>8, <1>9 DEF Run

\* The three invariants hold only together with what the thread's position
\* says of its drawing, Follows.
LEMMA SpecIInv == Spec => []IInv
PROOF
  <1>1. Init => IInv
    <2> SUFFICES ASSUME Init PROVE IInv
      OBVIOUS
    <2>1. Nothing \in Image
      BY DEF Nothing, Image
    <2>2. emitted = <<>> /\ emitted \in Seq(Image) /\ Len(emitted) = 0
      BY DEF Init
    <2>3. NoCutImage
      BY <2>2 DEF NoCutImage
    <2>4. TypeOK
      <3>1. 0 \in 0..MaxRequests /\ 0 \in 0..MaxSaves
        OBVIOUS
      <3>2. /\ restart \in BOOLEAN /\ abort \in BOOLEAN /\ is_rendering \in BOOLEAN
            /\ first_render_done \in BOOLEAN /\ loading_timer \in BOOLEAN
        BY Zenon DEF Init
      <3>3. job \in Image /\ shown \in Image
        BY <2>1, Zenon DEF Init
      <3>4. /\ draw_rect \in 0..MaxRequests /\ sets \in 0..MaxRequests
            /\ requested \in 0..MaxRequests /\ saves \in 0..MaxSaves
        BY <3>1 DEF Init
      <3>5. gui = "idle" /\ run = "none" /\ drawing = "nobody"
        BY Zenon DEF Init
      <3> QED BY <2>2, <3>2, <3>3, <3>4, <3>5 DEF TypeOK
    <2>5. NoRequestLost /\ Follows
      BY DEF Init, NoRequestLost, Follows
    <2> QED BY <2>3, <2>4, <2>5 DEF IInv
  <1>2. IInv /\ [Next]_vars => IInv'
    <2>1. ASSUME IInv, Next PROVE IInv'
      BY <2>1, GuiKeepsIInv, RunKeepsIInv DEF Next
    <2>2. ASSUME IInv, UNCHANGED vars PROVE IInv'
      BY <2>2 DEF IInv, TypeOK, NoCutImage, NoRequestLost, Follows, vars, flags, viewer
    <2> QED BY <2>1, <2>2
  <1> QED BY <1>1, <1>2, PTL DEF Spec

-----------------------------------------------------------------------------
\* The flags, the positions and the drawing mutex stay what TypeOK says: the
\* two threads never draw at once.
THEOREM RenderTypeOK == Spec => []TypeOK
PROOF BY SpecIInv, PTL DEF IInv

\* An image that RenderThread::run emits was not interrupted by a request.
THEOREM NeverCut == Spec => []NoCutImage
PROOF BY SpecIInv, PTL DEF IInv

\* RenderThread::run waits for a request only when it has taken the latest one.
THEOREM NeverLost == Spec => []NoRequestLost
PROOF BY SpecIInv, PTL DEF IInv

-----------------------------------------------------------------------------
(***************************************************************************)
(* Whose selection an image has.  The request's sets leave it together     *)
(* with its rectangle, and are gone from then on.                          *)
(***************************************************************************)
OwnSets(image) == image.sets \in {0, image.rect}

SetsInv ==
  /\ sets \in {0, draw_rect}
  /\ OwnSets(job) /\ OwnSets(shown)
  /\ \A k \in 1..Len(emitted) : OwnSets(emitted[k])

LEMMA SetsStay ==
  ASSUME SetsInv, UNCHANGED <<sets, draw_rect, job, shown, emitted>>
  PROVE  SetsInv'
BY DEF SetsInv, OwnSets

LEMMA EmitsOwnSets ==
  ASSUME TypeOK, SetsInv, Emits(job)
  PROVE  \A k \in 1..Len(emitted') : OwnSets(emitted'[k])
PROOF
  <1>1. emitted \in Seq(Image) /\ job \in Image
    BY DEF TypeOK
  <1>2. emitted' = Append(emitted, job)
    BY DEF Emits
  <1>3. /\ Len(emitted') = Len(emitted) + 1 /\ Len(emitted) \in Nat
        /\ \A k \in 1..Len(emitted) : emitted'[k] = emitted[k]
        /\ emitted'[Len(emitted) + 1] = job
    BY <1>1, <1>2
  <1>4. ASSUME NEW k \in 1..Len(emitted') PROVE OwnSets(emitted'[k])
    <2>1. CASE k \in 1..Len(emitted)
      BY <1>3, <2>1 DEF SetsInv
    <2>2. CASE k = Len(emitted) + 1
      BY <1>3, <2>2 DEF SetsInv
    <2> QED BY <1>3, <2>1, <2>2
  <1> QED BY <1>4

LEMMA StepKeepsSets ==
  ASSUME TypeOK, SetsInv, Next
  PROVE  SetsInv'
PROOF
  <1>1. CASE RenderLocked
    BY <1>1 DEF RenderLocked, SetsInv, OwnSets, viewer
  <1>2. CASE UpdatePixmap
    <2>1. emitted \in Seq(Image) /\ emitted # <<>>
      BY <1>2 DEF TypeOK, UpdatePixmap
    <2>2. emitted' = Tail(emitted) /\ shown' = Head(emitted)
      BY <1>2 DEF UpdatePixmap
    <2>3. /\ Len(emitted') = Len(emitted) - 1 /\ Len(emitted) \in Nat \ {0}
          /\ \A k \in 1..(Len(emitted) - 1) : emitted'[k] = emitted[k + 1]
          /\ shown' = emitted[1]
      BY <2>1, <2>2, HeadTailProperties
    <2>4. OwnSets(shown') /\ \A k \in 1..Len(emitted') : OwnSets(emitted'[k])
      BY <2>3 DEF SetsInv
    <2> QED BY <1>2, <2>4 DEF UpdatePixmap, SetsInv, OwnSets
  <1>3. CASE RunTake
    <2>1. job'.rect = draw_rect /\ job'.sets = sets
      BY <1>3 DEF RunTake
    <2> QED BY <1>3, <2>1 DEF RunTake, SetsInv, OwnSets, viewer
  <1>4. CASE DrawBegin
    <2>1. CASE Emits(job)
      BY <1>4, <2>1, EmitsOwnSets DEF DrawBegin, SetsInv, OwnSets
    <2>2. CASE UNCHANGED emitted
      BY <1>4, <2>2, SetsStay DEF DrawBegin
    <2> QED BY <1>4, <2>1, <2>2 DEF DrawBegin
  <1>5. CASE DrawEnd
    <2>1. job'.rect = job.rect /\ job'.sets = job.sets
      BY <1>5 DEF DrawEnd, TypeOK, Image
    <2> QED BY <1>5, <2>1 DEF DrawEnd, SetsInv, OwnSets, viewer
  <1>6. CASE RunEmit
    BY <1>6, EmitsOwnSets DEF RunEmit, SetsInv, OwnSets
  <1>7. CASE RenderBegin \/ SaveImage \/ ExitBegin \/ HandleLoadingIndication \/ SaveDraw \/ ExitEnd
    BY <1>7, SetsStay
       DEF RenderBegin, SaveImage, ExitBegin, HandleLoadingIndication, SaveDraw, ExitEnd, viewer
  <1>8. CASE RunCheck \/ RunClear \/ RunAbort \/ RunLock \/ RunWoken
    BY <1>8, SetsStay DEF RunCheck, RunClear, RunAbort, RunLock, RunWoken, viewer
  <1> QED BY <1>1, <1>2, <1>3, <1>4, <1>5, <1>6, <1>7, <1>8 DEF Next, GuiGoesOn, Run

\* An image never shows the selection of another request than its own, however
\* requests replace each other between the two threads.
THEOREM SetsAreTheRequests == Spec => []SetsOfRequest
PROOF
  <1>1. Init => SetsInv
    BY DEF Init, SetsInv, OwnSets, Nothing
  <1>2. TypeOK /\ SetsInv /\ [Next]_vars => SetsInv'
    <2>1. ASSUME SetsInv, UNCHANGED vars PROVE SetsInv'
      BY <2>1, SetsStay DEF vars, viewer
    <2> QED BY <2>1, StepKeepsSets
  <1>3. SetsInv => SetsOfRequest
    BY DEF SetsInv, OwnSets, SetsOfRequest
  <1> QED BY <1>1, <1>2, <1>3, RenderTypeOK, PTL DEF Spec
=============================================================================
