----------------------------- MODULE SearchIndex ----------------------------
(***************************************************************************)
(* The GUI's search index (src/src/gui/src/search.cpp) and the repaints    *)
(* that follow changes of the database.  For each kind of object there is  *)
(* a tree, built at the first search after a change.  Callbacks of OpenDB  *)
(* clear the flag that says the tree is built, some before the change they *)
(* announce and some after; some changes have none.                        *)
(*                                                                         *)
(* Commands, changes, clicks, timers and save_image run in the GUI thread, *)
(* drawing in the render thread (see RenderThread, abstracted here to a    *)
(* request that waits and a drawing that breaks off for the next one).     *)
(* The contents of a kind are the number of its changes.                   *)
(* MaxChanges, of each kind, and MaxCommands (saved images among them)     *)
(* bound the model.                                                        *)
(***************************************************************************)
EXTENDS Naturals

CONSTANTS
  Kind,        \* instances, fills, ...
  Callback,    \* when the callbacks of a kind come: "before", "after", "silent"
  MaxChanges, MaxCommands,
  NoKind, Torn

ASSUME CallbackAssumption == Callback \in [Kind -> SUBSET {"before", "after", "silent"}]
ASSUME NoKindAssumption == NoKind \notin Kind
ASSUME TornAssumption == Torn \notin Nat
ASSUME BoundsAssumption == MaxChanges \in [Kind -> Nat] /\ MaxCommands \in Nat

VARIABLES
  db,          \* contents of each kind
  init,        \* insts_init_, fills_init_, ...
  index,       \* contents each tree was built from
  build,       \* holder of the kind's init mutex, and what it met
  task,        \* what the users of the index search for
  change,      \* a change between its callback and its write
  executing, paused, commands,
  retry,       \* fullRepaint's timer is running
  wanted,      \* a request waits for the render thread
  drawing,     \* holder of drawing_mutex_
  seen,        \* what the drawing has met so far
  picture,     \* what is on the screen
  missed       \* history: kinds whose last change the index was not told of
               \* in time

viewer == <<executing, paused, commands>>
paint == <<retry, wanted, drawing, seen, picture>>
vars == <<db, init, index, build, task, change, viewer, paint, missed>>

\* Those who search: the render thread, and, both in the GUI thread,
\* save_image and clicks of the mouse.
User == {"render", "save", "click"}
NoBuild == [by |-> "nobody", from |-> 0]
NoTask == [at |-> "none", kind |-> NoKind, left |-> {}]
NoChange == [at |-> "none", kind |-> NoKind]

-----------------------------------------------------------------------------
(***************************************************************************)
(* search*: the tree is built when the flag is down, and then read.        *)
(***************************************************************************)
Searches(p, k) == task[p].at = "search" /\ k \in task[p].left
Turns(p, at, k) == task' = [task EXCEPT ![p] = [at |-> at, kind |-> k, left |-> @.left \ {k}]]

ReadBegin(p, k) ==
  /\ Searches(p, k) /\ init[k]
  /\ Turns(p, "read", k)
  /\ seen' = IF p = "render" THEN [seen EXCEPT ![k] = index[k]] ELSE seen
  /\ UNCHANGED <<db, init, index, build, change, viewer, retry, wanted, drawing, picture, missed>>

BuildBegin(p, k) ==
  /\ Searches(p, k) /\ ~init[k]
  /\ build[k] = NoBuild
  /\ build' = [build EXCEPT ![k] = [by |-> p, from |-> db[k]]]
  /\ Turns(p, "build", k)
  /\ missed' = missed \ {k}
  /\ UNCHANGED <<db, init, index, change, viewer, paint>>

\* What a build meets while the database changes is of no use.
Met(k) == IF build[k].from = db[k] THEN db[k] ELSE Torn

BuildEnd(p) ==
  /\ task[p].at = "build"
  /\ LET k == task[p].kind IN
     /\ index' = [index EXCEPT ![k] = Met(k)]
     /\ init' = [init EXCEPT ![k] = TRUE]
     /\ build' = [build EXCEPT ![k] = NoBuild]
     /\ seen' = IF p = "render" THEN [seen EXCEPT ![k] = Met(k)] ELSE seen
  /\ task' = [task EXCEPT ![p].at = "read"]
  /\ UNCHANGED <<db, change, viewer, retry, wanted, drawing, picture, missed>>

ReadEnd(p) ==
  /\ task[p].at = "read"
  /\ task' = [task EXCEPT ![p].at = "search", ![p].kind = NoKind]
  /\ UNCHANGED <<db, init, index, build, change, viewer, paint, missed>>

-----------------------------------------------------------------------------
(***************************************************************************)
(* The render thread.                                                      *)
(***************************************************************************)
DrawBegin ==
  /\ wanted /\ task["render"] = NoTask /\ drawing = "nobody"
  /\ wanted' = FALSE /\ drawing' = "render"
  /\ task' = [task EXCEPT !["render"] = [at |-> "search", kind |-> NoKind, left |-> Kind]]
  /\ UNCHANGED <<db, init, index, build, change, viewer, retry, seen, picture, missed>>

\* An image is shown unless a request has come meanwhile.
DrawEnd ==
  /\ task["render"].at = "search" /\ task["render"].left = {}
  /\ task' = [task EXCEPT !["render"] = NoTask]
  /\ drawing' = "nobody"
  /\ picture' = IF wanted THEN picture ELSE seen
  /\ UNCHANGED <<db, init, index, build, change, viewer, retry, wanted, seen, missed>>

\* A drawing polls restart_ between searches and while it reads; so does the
\* one of save_image, which the request does not concern.
DrawBreak(p) ==
  /\ task[p].at \in {"search", "read"} /\ wanted
  /\ task' = [task EXCEPT ![p] = NoTask]
  /\ drawing' = IF drawing = p THEN "nobody" ELSE drawing
  /\ UNCHANGED <<db, init, index, build, change, viewer, retry, wanted, seen, picture, missed>>

-----------------------------------------------------------------------------
(***************************************************************************)
(* The GUI thread.                                                         *)
(***************************************************************************)
GuiFree == change = NoChange /\ task["save"] = NoTask /\ task["click"] = NoTask
Gated == executing /\ ~paused

\* Faulty: while a command runs, a repaint is dropped.
FullRepaintDrops ==
  IF Gated THEN UNCHANGED <<retry, wanted>> ELSE wanted' = TRUE /\ retry' = FALSE

\* LayoutViewer::fullRepaint
FullRepaint ==
  IF Gated THEN retry' = TRUE /\ UNCHANGED wanted ELSE wanted' = TRUE /\ retry' = FALSE

\* The timer fires whenever events are processed, during commands, too.
Retry ==
  /\ retry /\ GuiFree
  /\ FullRepaint
  /\ UNCHANGED <<db, init, index, build, task, change, viewer, drawing, seen, picture, missed>>

CommandBegin ==
  /\ GuiFree /\ ~executing /\ commands < MaxCommands
  /\ executing' = TRUE /\ paused' = FALSE /\ commands' = commands + 1
  /\ UNCHANGED <<db, init, index, build, task, change, paint, missed>>

CommandEnd ==
  /\ GuiFree /\ Gated
  /\ executing' = FALSE
  /\ UNCHANGED <<db, init, index, build, task, change, paused, commands, paint, missed>>

\* Gui::pause, and its end, which announces the command again.
CommandPause ==
  /\ GuiFree /\ Gated
  /\ paused' = TRUE
  /\ UNCHANGED <<db, init, index, build, task, change, executing, commands, paint, missed>>

CommandContinue ==
  /\ GuiFree /\ executing /\ paused
  /\ paused' = FALSE
  /\ UNCHANGED <<db, init, index, build, task, change, executing, commands, paint, missed>>

\* Faulty: the flag stays up.
AnnounceKeeps(k) ==
  /\ UNCHANGED init
  /\ IF init[k] THEN FullRepaint ELSE UNCHANGED <<retry, wanted>>

\* announceModified
Announce(k) ==
  /\ init' = [init EXCEPT ![k] = FALSE]
  /\ IF init[k] THEN FullRepaint ELSE UNCHANGED <<retry, wanted>>

Write(k) == db' = [db EXCEPT ![k] = @ + 1]

\* Changes come from commands, and from the GUI's own editors whenever events
\* are processed: without a command, and during one that pauses.
MayChange(k, when) ==
  /\ GuiFree
  /\ when \in Callback[k] /\ db[k] < MaxChanges[k]

\* A change whose callback comes first: a destroy, a new placement status.
ChangeAnnounced(k) ==
  /\ MayChange(k, "before")
  /\ Announce(k)
  /\ change' = [at |-> "write", kind |-> k]
  /\ UNCHANGED <<db, index, build, task, viewer, drawing, seen, picture, missed>>

\* The flag is up again, or about to be.
Rebuilt(k) == init[k] \/ build[k] # NoBuild

ChangeWrite ==
  /\ change.at = "write"
  /\ Write(change.kind)
  /\ missed' = IF Rebuilt(change.kind) THEN missed \cup {change.kind} ELSE missed
  /\ change' = NoChange
  /\ UNCHANGED <<init, index, build, task, viewer, paint>>

\* A change whose callback comes last: a create, a move.
ChangeWritten(k) ==
  /\ MayChange(k, "after")
  /\ Write(k)
  /\ change' = [at |-> "announce", kind |-> k]
  /\ UNCHANGED <<init, index, build, task, viewer, paint, missed>>

\* The announcement is lost on a build that began before the write.
ChangeAnnounce ==
  /\ change.at = "announce"
  /\ LET k == change.kind IN
     /\ Announce(k)
     /\ missed' = IF build[k] # NoBuild /\ build[k].from # db[k] THEN missed \cup {k} ELSE missed
  /\ change' = NoChange
  /\ UNCHANGED <<db, index, build, task, viewer, drawing, seen, picture>>

\* A change without a callback: dbFill::destroy, all changes of child blocks.
ChangeSilent(k) ==
  /\ MayChange(k, "silent")
  /\ Write(k)
  /\ missed' = missed \cup {k}
  /\ UNCHANGED <<init, index, build, task, change, viewer, paint>>

\* selectAt and searchNearestEdge, for one kind.
Click(k) ==
  /\ GuiFree /\ ~Gated
  /\ task' = [task EXCEPT !["click"] = [at |-> "search", kind |-> NoKind, left |-> {k}]]
  /\ UNCHANGED <<db, init, index, build, change, viewer, paint, missed>>

\* Faulty: drawing_mutex_ is not taken.
SaveBeginNoLock ==
  /\ GuiFree /\ commands < MaxCommands
  /\ commands' = commands + 1
  /\ task' = [task EXCEPT !["save"] = [at |-> "search", kind |-> NoKind, left |-> Kind]]
  /\ UNCHANGED <<db, init, index, build, change, executing, paused, paint, missed>>

\* save_image draws in the GUI thread.
SaveBegin ==
  /\ GuiFree /\ drawing = "nobody" /\ commands < MaxCommands
  /\ drawing' = "save" /\ commands' = commands + 1
  /\ task' = [task EXCEPT !["save"] = [at |-> "search", kind |-> NoKind, left |-> Kind]]
  /\ UNCHANGED <<db, init, index, build, change, executing, paused, retry, wanted, seen, picture, missed>>

SearchEnd(p) ==
  /\ task[p].at = "search" /\ task[p].left = {}
  /\ task' = [task EXCEPT ![p] = NoTask]
  /\ drawing' = IF drawing = p THEN "nobody" ELSE drawing
  /\ UNCHANGED <<db, init, index, build, change, viewer, retry, wanted, seen, picture, missed>>

-----------------------------------------------------------------------------
Init ==
  /\ db = [k \in Kind |-> 0] /\ init = [k \in Kind |-> FALSE]
  /\ index = [k \in Kind |-> 0] /\ build = [k \in Kind |-> NoBuild]
  /\ task = [p \in User |-> NoTask] /\ change = NoChange
  /\ executing = FALSE /\ paused = FALSE /\ commands = 0
  /\ retry = FALSE /\ wanted = TRUE /\ drawing = "nobody"
  /\ seen = [k \in Kind |-> 0] /\ picture = [k \in Kind |-> Torn]
  /\ missed = {}

Search(p) ==
  \/ \E k \in Kind : ReadBegin(p, k) \/ BuildBegin(p, k)
  \/ BuildEnd(p) \/ ReadEnd(p)

Render == DrawBegin \/ DrawEnd \/ DrawBreak("render") \/ Search("render")

\* What the GUI thread has begun, or must do when events are processed.
GuiGoesOn ==
  \/ ChangeWrite \/ ChangeAnnounce
  \/ \E p \in {"save", "click"} : Search(p) \/ SearchEnd(p)
  \/ DrawBreak("save")

Gui ==
  \/ CommandBegin \/ CommandPause \/ CommandContinue \/ SaveBegin
  \/ \E k \in Kind : ChangeAnnounced(k) \/ ChangeWritten(k) \/ ChangeSilent(k) \/ Click(k)

Next == Render \/ GuiGoesOn \/ Retry \/ CommandEnd \/ Gui

Spec == Init /\ [][Next]_vars

\* Threads go on, the event loop serves its timer among clicks, and commands
\* end, however often they pause.
FairSpec ==
  /\ Spec
  /\ WF_vars(Render) /\ WF_vars(GuiGoesOn) /\ SF_vars(Retry) /\ SF_vars(CommandEnd)

-----------------------------------------------------------------------------
(***************************************************************************)
(* Properties.                                                             *)
(***************************************************************************)

\* The variables have their types; a thread that builds a tree holds the
\* kind's mutex, and one that draws the drawing mutex.
TypeOK ==
  /\ db \in [Kind -> Nat] /\ init \in [Kind -> BOOLEAN]
  /\ index \in [Kind -> Nat \cup {Torn}]
  /\ build \in [Kind -> [by: User \cup {"nobody"}, from: Nat]]
  /\ task \in [User -> [at: {"none", "search", "build", "read"},
                          kind: Kind \cup {NoKind}, left: SUBSET Kind]]
  /\ change \in [at: {"none", "write", "announce"}, kind: Kind \cup {NoKind}]
  /\ executing \in BOOLEAN /\ paused \in BOOLEAN /\ commands \in Nat
  /\ retry \in BOOLEAN /\ wanted \in BOOLEAN
  /\ drawing \in {"render", "save", "nobody"}
  /\ seen \in [Kind -> Nat \cup {Torn}] /\ picture \in [Kind -> Nat \cup {Torn}]
  /\ missed \in SUBSET Kind
  /\ \A p \in User : task[p].at = "build" => build[task[p].kind].by = p
  /\ task["render"].at # "none" => drawing = "render"

\* A tree that counts as built shows the database, except while a change is
\* between callback and write, and unless the index was told too early, or in
\* the middle of a build, or not at all.
IndexFresh ==
  \A k \in Kind :
    init[k] /\ k \notin missed /\ change.kind # k => index[k] = db[k]

\* "Prevent a paintEvent and a save_image call from interfering (eg search
\* RTree construction)": neither builds a tree while the other reads it.
\* (A click does: it takes no drawing_mutex_.)
RebuildAlone ==
  \A p, q \in {"render", "save"} :
    p # q /\ task[p].at = "build" /\ task[q].at = "read" => task[p].kind # task[q].kind

\* A screen that does not show the database will be painted again: a request
\* or a timer is on its way, or a drawing that has yet to look.  This is what
\* lets announceModified keep quiet when the flag is down already.
RepaintComing ==
  \A k \in Kind :
    picture[k] # db[k] /\ k \notin missed /\ change.kind # k =>
      \/ wanted \/ retry
      \/ task["render"].at # "none"
           /\ \/ k \in task["render"].left
              \/ task["render"].at = "build" /\ task["render"].kind = k
              \/ seen[k] = db[k]

\* Once nothing changes any more the screen shows the database.
PictureCatchesUp == <>[](\A k \in Kind : picture[k] = db[k] \/ k \in missed)
=============================================================================
