---------------------------- MODULE RenderThread ----------------------------
(***************************************************************************)
(* The GUI's render thread (src/src/gui/src/renderThread.cpp): the GUI     *)
(* thread asks for a picture with render(), the render thread draws the    *)
(* latest request and emits the image, which the GUI thread's event loop   *)
(* delivers to the viewer.  A new request interrupts the drawing of an     *)
(* older one through a flag that drawing polls, restart_.                  *)
(*                                                                         *)
(* The flags are read and written outside the mutex too; what a thread     *)
(* does while it holds the mutex is one step, all else is a step per       *)
(* access.  A request is its number: its rectangle, and its selection,     *)
(* highlights and rulers, which the render thread swaps out of the request *)
(* (0 stands for empty sets).  MaxRequests and MaxSaves bound the model.   *)
(***************************************************************************)
EXTENDS Naturals, Sequences

CONSTANTS MaxRequests, MaxSaves

ASSUME MaxRequestsAssumption == MaxRequests \in Nat
ASSUME MaxSavesAssumption == MaxSaves \in Nat

VARIABLES
  gui,            \* position of the GUI thread
  run,            \* position of the render thread
  draw_rect, sets,  \* the request, guarded by mutex_
  restart, abort, is_rendering, first_render_done,
  drawing,        \* who holds drawing_mutex_
  job,            \* the render thread's locals: what it draws, and how it went
  emitted,        \* images on their way to the viewer
  shown,          \* the viewer's image
  loading_timer,  \* the viewer's timer is running
  requested,      \* number of requests made
  saves           \* number of images saved to files (bound)

flags == <<restart, abort, is_rendering, first_render_done>>
viewer == <<emitted, shown, loading_timer, requested, saves>>
vars == <<gui, run, draw_rect, sets, flags, drawing, job, viewer>>

Image == [rect: 0..MaxRequests, sets: 0..MaxRequests,
          state: {"loading", "whole", "cut", "thrown"}]

Nothing == [rect |-> 0, sets |-> 0, state |-> "whole"]

-----------------------------------------------------------------------------
(***************************************************************************)
(* The GUI thread.                                                         *)
(***************************************************************************)

\* condition_.wakeOne()
Wake == run' = IF run = "waiting" THEN "woken" ELSE run

\* fullRepaint() starts the timer of the busy indicator and calls render(),
\* which raises its flag before it takes the mutex ...
RenderBegin ==
  /\ gui = "idle" /\ requested < MaxRequests
  /\ gui' = "render"
  /\ requested' = requested + 1
  /\ loading_timer' = TRUE
  /\ is_rendering' = TRUE
  /\ UNCHANGED <<run, draw_rect, sets, restart, abort, first_render_done, drawing, job,
                 emitted, shown, saves>>

\* Faulty: sets that nobody has taken yet are kept.
RenderLockedKeepsSets ==
  /\ gui = "render" /\ gui' = "idle"
  /\ draw_rect' = requested /\ sets' = IF sets = 0 THEN requested ELSE sets
  /\ IF run = "none" THEN run' = "take" /\ UNCHANGED restart
     ELSE restart' = TRUE /\ Wake
  /\ UNCHANGED <<abort, is_rendering, first_render_done, drawing, job, viewer>>

\* ... and then hands the request over.  The first one starts the thread.
RenderLocked ==
  /\ gui = "render" /\ gui' = "idle"
  /\ draw_rect' = requested /\ sets' = requested
  /\ IF run = "none" THEN run' = "take" /\ UNCHANGED restart
     ELSE restart' = TRUE /\ Wake
  /\ UNCHANGED <<abort, is_rendering, first_render_done, drawing, job, viewer>>

\* The event loop delivers an image.
UpdatePixmap ==
  /\ gui = "idle" /\ emitted # <<>>
  /\ shown' = Head(emitted) /\ emitted' = Tail(emitted)
  /\ UNCHANGED <<gui, run, draw_rect, sets, flags, drawing, job, loading_timer, requested,
                 saves>>

\* The timer finds that nothing is being rendered, and stops.
HandleLoadingIndication ==
  /\ gui = "idle" /\ loading_timer /\ ~is_rendering
  /\ loading_timer' = FALSE
  /\ UNCHANGED <<gui, run, draw_rect, sets, flags, drawing, job, emitted, shown, requested,
                 saves>>

\* saveImage() draws in the GUI thread, under the same drawing mutex.
SaveImage ==
  /\ gui = "idle" /\ saves < MaxSaves
  /\ gui' = "save" /\ saves' = saves + 1
  /\ UNCHANGED <<run, draw_rect, sets, flags, drawing, job, emitted, shown, loading_timer,
                 requested>>

SaveDraw ==
  /\ \/ gui = "save" /\ drawing = "nobody" /\ gui' = "saving" /\ drawing' = "gui"
     \/ gui = "saving" /\ gui' = "idle" /\ drawing' = "nobody"
  /\ UNCHANGED <<run, draw_rect, sets, flags, job, viewer>>

\* The viewer goes: exit() wakes the thread and waits for its end.
ExitBegin ==
  /\ gui = "idle" /\ gui' = "wait"
  /\ abort' = TRUE /\ Wake
  /\ UNCHANGED <<draw_rect, sets, restart, is_rendering, first_render_done, drawing, job,
                 viewer>>

ExitEnd ==
  /\ gui = "wait" /\ run \in {"none", "ended"}
  /\ gui' = "gone"
  /\ UNCHANGED <<run, draw_rect, sets, flags, drawing, job, viewer>>

-----------------------------------------------------------------------------
(***************************************************************************)
(* The render thread: the loop of run().                                   *)
(***************************************************************************)
Emits(image) == emitted' = Append(emitted, image)

\* Under the mutex: the rectangle is copied, the sets are swapped with the
\* empty ones of this round of the loop.
RunTake ==
  /\ run = "take" /\ run' = "draw"
  /\ job' = [rect |-> draw_rect, sets |-> sets, state |-> "loading"]
  /\ sets' = 0
  /\ UNCHANGED <<gui, draw_rect, flags, drawing, viewer>>

\* Before the first image there is one that says that the design is loading.
DrawBegin ==
  /\ run = "draw" /\ run' = "drawing"
  /\ drawing = "nobody" /\ drawing' = "run"
  /\ IF ~first_render_done /\ ~restart THEN Emits(job) ELSE UNCHANGED emitted
  /\ UNCHANGED <<gui, draw_rect, sets, flags, job, shown, loading_timer, requested, saves>>

\* Drawing polls restart_ and breaks off when it sees it set; an exception
\* ends it too, and what has been drawn is kept.
DrawEnd ==
  /\ run = "drawing" /\ run' = "check"
  /\ drawing' = "nobody"
  /\ \E state \in {"whole", "thrown"} \cup (IF restart THEN {"cut"} ELSE {}) :
       job' = [job EXCEPT !.state = state]
  /\ UNCHANGED <<gui, draw_rect, sets, flags, viewer>>

\* Faulty: what has been drawn is shown in any case.
RunCheckNothing ==
  /\ run = "check" /\ run' = "clear"
  /\ UNCHANGED <<gui, draw_rect, sets, flags, drawing, job, viewer>>

RunCheck ==
  /\ run = "check"
  /\ run' = IF restart THEN "abort" ELSE "clear"
  /\ UNCHANGED <<gui, draw_rect, sets, flags, drawing, job, viewer>>

\* Faulty: the flag goes down after the first image only.
RunClearFirst ==
  /\ run = "clear" /\ run' = "emit"
  /\ is_rendering' = (is_rendering /\ first_render_done)
  /\ UNCHANGED <<gui, draw_rect, sets, restart, abort, first_render_done, drawing, job, viewer>>

RunClear ==
  /\ run = "clear" /\ run' = "emit"
  /\ is_rendering' = FALSE
  /\ UNCHANGED <<gui, draw_rect, sets, restart, abort, first_render_done, drawing, job, viewer>>

RunEmit ==
  /\ run = "emit" /\ run' = "abort"
  /\ Emits(job)
  /\ first_render_done' = TRUE
  /\ UNCHANGED <<gui, draw_rect, sets, restart, abort, is_rendering, drawing, job, shown,
                 loading_timer, requested, saves>>

RunAbort ==
  /\ run = "abort"
  /\ run' = IF abort THEN "ended" ELSE "lock"
  /\ UNCHANGED <<gui, draw_rect, sets, flags, drawing, job, viewer>>

\* Faulty: the thread waits although a request came while it was drawing.
RunLockWaits ==
  /\ run = "lock" /\ run' = "waiting"
  /\ UNCHANGED <<gui, draw_rect, sets, flags, drawing, job, viewer>>

\* Under the mutex: a request that came while drawing is not waited for.
RunLock ==
  /\ run = "lock"
  /\ run' = IF restart THEN "take" ELSE "waiting"
  /\ restart' = FALSE
  /\ UNCHANGED <<gui, draw_rect, sets, abort, is_rendering, first_render_done, drawing, job,
                 viewer>>

\* The thread was woken and has the mutex again.
RunWoken ==
  /\ run = "woken" /\ run' = "take"
  /\ restart' = FALSE
  /\ UNCHANGED <<gui, draw_rect, sets, abort, is_rendering, first_render_done, drawing, job,
                 viewer>>

Init ==
  /\ gui = "idle" /\ run = "none" /\ drawing = "nobody"
  /\ draw_rect = 0 /\ sets = 0
  /\ restart = FALSE /\ abort = FALSE /\ is_rendering = FALSE /\ first_render_done = FALSE
  /\ job = Nothing /\ emitted = <<>> /\ shown = Nothing
  /\ loading_timer = FALSE /\ requested = 0 /\ saves = 0

Run ==
  \/ RunTake \/ DrawBegin \/ DrawEnd \/ RunCheck \/ RunClear \/ RunEmit
  \/ RunAbort \/ RunLock \/ RunWoken

\* The GUI thread goes on with what it has begun, and with its events.
GuiGoesOn ==
  RenderLocked \/ UpdatePixmap \/ HandleLoadingIndication \/ SaveDraw \/ ExitEnd

Next == RenderBegin \/ SaveImage \/ ExitBegin \/ GuiGoesOn \/ Run

Spec == Init /\ [][Next]_vars

\* Both threads run.  Events are handled in some order, none is left aside.
FairSpec ==
  /\ Spec
  /\ WF_vars(Run) /\ WF_vars(RenderLocked \/ SaveDraw \/ ExitEnd)
  /\ WF_vars(UpdatePixmap) /\ WF_vars(HandleLoadingIndication)

-----------------------------------------------------------------------------
(***************************************************************************)
(* Properties.                                                             *)
(***************************************************************************)

\* The variables have the types their declarations give them, and the drawing
\* mutex is held by the thread that draws.
TypeOK ==
  /\ gui \in {"idle", "render", "save", "saving", "wait", "gone"}
  /\ run \in {"none", "take", "draw", "drawing", "check", "clear", "emit", "abort", "lock",
              "waiting", "woken", "ended"}
  /\ draw_rect \in 0..MaxRequests /\ sets \in 0..MaxRequests
  /\ restart \in BOOLEAN /\ abort \in BOOLEAN /\ is_rendering \in BOOLEAN
  /\ first_render_done \in BOOLEAN
  /\ drawing \in {"nobody", "run", "gui"}
  /\ (drawing = "run") <=> (run = "drawing")
  /\ (drawing = "gui") <=> (gui = "saving")
  /\ job \in Image /\ emitted \in Seq(Image) /\ shown \in Image
  /\ loading_timer \in BOOLEAN
  /\ requested \in 0..MaxRequests /\ saves \in 0..MaxSaves

\* A drawing that a new request interrupted is never shown: the flag that
\* drawing saw is still up when the loop decides whether to emit the image.
NoCutImage == \A k \in 1..Len(emitted) : emitted[k].state # "cut"

\* The thread sleeps only when the latest request handed over is the one it has
\* drawn: a request that comes between any two of its steps wakes it, or is
\* seen before it sleeps.
NoRequestLost == run = "waiting" => job.rect = draw_rect


\* The busy indicator goes out in the end, although the flag it looks at is
\* raised and lowered by two threads without a lock.
IndicatorStops == loading_timer ~> ~loading_timer \/ abort

\* The selection, highlights and rulers of an image are those of its request;
\* or they are gone, where the request was drawn a second time.
SetsOfRequest == shown.sets \in {0, shown.rect}
=============================================================================
