-------------------------- MODULE SearchIndex_proof -------------------------
(***************************************************************************)
(* Proofs about SearchIndex, for any kinds of objects, any mix of          *)
(* callbacks and any number of changes and commands.                       *)
(***************************************************************************)
EXTENDS SearchIndex, TLAPS

USE CallbackAssumption, NoKindAssumption, TornAssumption, BoundsAssumption

\* Tasks and changes that are under way have a kind; the two drawings hold
\* the drawing mutex.
Tasks ==
  /\ \A p \in User :
       /\ task[p].at \in {"build", "read"} => task[p].kind \in Kind
       /\ task[p].at = "none" => task[p].left = {}
  /\ change.at # "none" => change.kind \in Kind
  /\ \A p \in {"render", "save"} : task[p].at # "none" <=> drawing = p

\* A change of which the index will still be told.
Announcing(k) == change.at = "announce" /\ change.kind = k

\* A tree shows the database, and so will one that is being built.
Fresh ==
  \A k \in Kind : k \notin missed /\ ~Announcing(k) =>
    /\ init[k] => index[k] = db[k]
    /\ build[k] # NoBuild => build[k].from = db[k]

\* A flag that is down has been seen to: the render thread will search this
\* kind.  This is what RepaintComing rests on.
Searched ==
  \A k \in Kind : ~init[k] =>
    \/ wanted \/ retry \/ k \in task["render"].left
    \/ task["render"].at = "build" /\ task["render"].kind = k

\* What a drawing has met is what the database shows, or it will be repeated.
DrawsFresh ==
  \A k \in Kind : k \notin missed /\ change.kind # k =>
    \/ wanted \/ retry \/ task["render"].at = "none" \/ k \in task["render"].left
    \/ task["render"].at = "build" /\ task["render"].kind = k
    \/ seen[k] = db[k]

IInv == TypeOK /\ Tasks /\ Fresh /\ Searched /\ DrawsFresh /\ RepaintComing

-----------------------------------------------------------------------------
\* What is proved implies what the runs check.
LEMMA IInvImplies == IInv => IndexFresh /\ RebuildAlone
PROOF
  <1>1. IInv => IndexFresh
    BY DEF IInv, TypeOK, Tasks, Fresh, IndexFresh, Announcing
  <1>2. IInv => RebuildAlone
    BY DEF IInv, Tasks, RebuildAlone
  <1> QED BY <1>1, <1>2

LEMMA InitIInv == Init => IInv
PROOF
  <1> SUFFICES ASSUME Init PROVE IInv
    OBVIOUS
  <1>1. TypeOK
    BY DEF Init, TypeOK, NoTask, NoBuild, NoChange, User
  <1>2. Tasks
    BY DEF Init, Tasks, NoTask, NoChange, User
  <1>3. Fresh /\ Searched /\ DrawsFresh /\ RepaintComing
    BY DEF Init, Fresh, Searched, DrawsFresh, RepaintComing
  <1> QED BY <1>1, <1>2, <1>3 DEF IInv

\* Searches, whoever's they are.  A build may take k out of missed, since its
\* flag is down, and Searched then owes the repaint; its end is fresh because
\* only it holds the mutex.
LEMMA SearchKeepsIInv ==
  ASSUME IInv, NEW p \in User, NEW k \in Kind,
         ReadBegin(p, k) \/ BuildBegin(p, k) \/ BuildEnd(p) \/ ReadEnd(p)
  PROVE  IInv'
PROOF
  <1>1. CASE ReadBegin(p, k)
    <2>1. TypeOK'
      BY <1>1 DEF IInv, TypeOK, Tasks, User, ReadBegin, Searches, Turns, viewer
    <2>2. Tasks'
      BY <1>1 DEF IInv, TypeOK, Tasks, User, ReadBegin, Searches, Turns, viewer
    <2>3. Fresh'
      BY <1>1
         DEF IInv, TypeOK, Tasks, Fresh, Announcing, User, ReadBegin, Searches, Turns,
             viewer
    <2>4. Searched'
      BY <1>1 DEF IInv, TypeOK, Tasks, Searched, User, ReadBegin, Searches, Turns, viewer
    <2>5. DrawsFresh'
      BY <1>1
         DEF IInv, TypeOK, Tasks, DrawsFresh, User, ReadBegin, Searches, Turns, viewer,
             Fresh, Announcing
    <2>6. RepaintComing'
      BY <1>1
         DEF IInv, TypeOK, Tasks, RepaintComing, User, ReadBegin, Searches, Turns, viewer,
             Fresh, Announcing
    <2> QED BY <2>1, <2>2, <2>3, <2>4, <2>5, <2>6 DEF IInv
  <1>2. CASE BuildBegin(p, k)
    <2>1. TypeOK'
      BY <1>2 DEF IInv, TypeOK, Tasks, User, BuildBegin, Searches, Turns, NoBuild, viewer, paint
    <2>2. Tasks'
      BY <1>2 DEF IInv, TypeOK, Tasks, User, BuildBegin, Searches, Turns, NoBuild, viewer, paint
    <2>3. Fresh'
      BY <1>2
         DEF IInv, TypeOK, Tasks, Fresh, Announcing, User, BuildBegin, Searches, Turns,
             NoBuild, viewer, paint
    <2>4. Searched'
      BY <1>2
         DEF IInv, TypeOK, Tasks, Searched, User, BuildBegin, Searches, Turns, NoBuild,
             viewer, paint
    <2>5. DrawsFresh'
      BY <1>2
         DEF IInv, TypeOK, Tasks, DrawsFresh, User, BuildBegin, Searches, Turns, NoBuild,
             viewer, paint, Searched
    <2>6. RepaintComing'
      BY <1>2
         DEF IInv, TypeOK, Tasks, RepaintComing, User, BuildBegin, Searches, Turns, NoBuild,
             viewer, paint, Searched
    <2> QED BY <2>1, <2>2, <2>3, <2>4, <2>5, <2>6 DEF IInv
  <1>3. CASE BuildEnd(p)
    <2>1. TypeOK'
      BY <1>3 DEF IInv, TypeOK, Tasks, User, BuildEnd, Met, NoBuild, viewer
    <2>2. Tasks'
      BY <1>3 DEF IInv, TypeOK, Tasks, User, BuildEnd, Met, NoBuild, viewer
    <2>3. Fresh'
      BY <1>3 DEF IInv, TypeOK, Tasks, Fresh, Announcing, User, BuildEnd, Met, NoBuild, viewer
    <2>4. Searched'
      BY <1>3 DEF IInv, TypeOK, Tasks, Searched, User, BuildEnd, Met, NoBuild, viewer
    <2>5. DrawsFresh'
      BY <1>3
         DEF IInv, TypeOK, Tasks, DrawsFresh, User, BuildEnd, Met, NoBuild, viewer, Searched,
             Fresh, Announcing
    <2>6. RepaintComing'
      BY <1>3
         DEF IInv, TypeOK, Tasks, RepaintComing, User, BuildEnd, Met, NoBuild, viewer,
             Searched, Fresh, Announcing
    <2> QED BY <2>1, <2>2, <2>3, <2>4, <2>5, <2>6 DEF IInv
  <1>4. CASE ReadEnd(p)
    <2>1. TypeOK'
      BY <1>4 DEF IInv, TypeOK, Tasks, User, ReadEnd, viewer, paint
    <2>2. Tasks'
      BY <1>4 DEF IInv, TypeOK, Tasks, User, ReadEnd, viewer, paint
    <2>3. Fresh'
      BY <1>4 DEF IInv, TypeOK, Tasks, Fresh, Announcing, User, ReadEnd, viewer, paint
    <2>4. Searched'
      BY <1>4 DEF IInv, TypeOK, Tasks, Searched, User, ReadEnd, viewer, paint
    <2>5. DrawsFresh'
      BY <1>4 DEF IInv, TypeOK, Tasks, DrawsFresh, User, ReadEnd, viewer, paint
    <2>6. RepaintComing'
      BY <1>4 DEF IInv, TypeOK, Tasks, RepaintComing, User, ReadEnd, viewer, paint
    <2> QED BY <2>1, <2>2, <2>3, <2>4, <2>5, <2>6 DEF IInv
  <1> QED BY <1>1, <1>2, <1>3, <1>4

\* The render thread's requests, and drawings that break off: they leave the
\* request that broke them.
LEMMA DrawKeepsIInv ==
  ASSUME IInv, DrawBegin \/ DrawEnd \/ DrawBreak("render") \/ DrawBreak("save")
  PROVE  IInv'
PROOF
  <1>1. CASE DrawBegin
    <2>1. TypeOK'
      BY <1>1 DEF IInv, TypeOK, Tasks, User, DrawBegin, NoTask, viewer
    <2>2. Tasks'
      BY <1>1 DEF IInv, TypeOK, Tasks, User, DrawBegin, NoTask, viewer
    <2>3. Fresh'
      BY <1>1 DEF IInv, TypeOK, Tasks, Fresh, Announcing, User, DrawBegin, NoTask, viewer
    <2>4. Searched'
      BY <1>1 DEF IInv, TypeOK, Tasks, Searched, User, DrawBegin, NoTask, viewer
    <2>5. DrawsFresh'
      BY <1>1 DEF IInv, TypeOK, Tasks, DrawsFresh, User, DrawBegin, NoTask, viewer
    <2>6. RepaintComing'
      BY <1>1 DEF IInv, TypeOK, Tasks, RepaintComing, User, DrawBegin, NoTask, viewer
    <2> QED BY <2>1, <2>2, <2>3, <2>4, <2>5, <2>6 DEF IInv
  <1>2. CASE DrawEnd
    <2>1. TypeOK'
      BY <1>2 DEF IInv, TypeOK, Tasks, User, DrawEnd, NoTask, viewer
    <2>2. Tasks'
      BY <1>2 DEF IInv, TypeOK, Tasks, User, DrawEnd, NoTask, viewer
    <2>3. Fresh'
      BY <1>2 DEF IInv, TypeOK, Tasks, Fresh, Announcing, User, DrawEnd, NoTask, viewer
    <2>4. Searched'
      BY <1>2 DEF IInv, TypeOK, Tasks, Searched, User, DrawEnd, NoTask, viewer
    <2>5. DrawsFresh'
      BY <1>2 DEF IInv, TypeOK, Tasks, DrawsFresh, User, DrawEnd, NoTask, viewer
    <2>6. RepaintComing'
      BY <1>2 DEF IInv, TypeOK, Tasks, RepaintComing, User, DrawEnd, NoTask, viewer, DrawsFresh
    <2> QED BY <2>1, <2>2, <2>3, <2>4, <2>5, <2>6 DEF IInv
  <1>3. CASE DrawBreak("render")
    <2>1. TypeOK'
      BY <1>3 DEF IInv, TypeOK, Tasks, User, DrawBreak, NoTask, viewer
    <2>2. Tasks'
      BY <1>3 DEF IInv, TypeOK, Tasks, User, DrawBreak, NoTask, viewer
    <2>3. Fresh'
      BY <1>3 DEF IInv, TypeOK, Tasks, Fresh, Announcing, User, DrawBreak, NoTask, viewer
    <2>4. Searched'
      BY <1>3 DEF IInv, TypeOK, Tasks, Searched, User, DrawBreak, NoTask, viewer
    <2>5. DrawsFresh'
      BY <1>3 DEF IInv, TypeOK, Tasks, DrawsFresh, User, DrawBreak, NoTask, viewer
    <2>6. RepaintComing'
      BY <1>3 DEF IInv, TypeOK, Tasks, RepaintComing, User, DrawBreak, NoTask, viewer
    <2> QED BY <2>1, <2>2, <2>3, <2>4, <2>5, <2>6 DEF IInv
  <1>4. CASE DrawBreak("save")
    <2>1. TypeOK'
      BY <1>4 DEF IInv, TypeOK, Tasks, User, DrawBreak, NoTask, viewer
    <2>2. Tasks'
      BY <1>4 DEF IInv, TypeOK, Tasks, User, DrawBreak, NoTask, viewer
    <2>3. Fresh'
      BY <1>4 DEF IInv, TypeOK, Tasks, Fresh, Announcing, User, DrawBreak, NoTask, viewer
    <2>4. Searched'
      BY <1>4 DEF IInv, TypeOK, Tasks, Searched, User, DrawBreak, NoTask, viewer
    <2>5. DrawsFresh'
      BY <1>4 DEF IInv, TypeOK, Tasks, DrawsFresh, User, DrawBreak, NoTask, viewer
    <2>6. RepaintComing'
      BY <1>4 DEF IInv, TypeOK, Tasks, RepaintComing, User, DrawBreak, NoTask, viewer
    <2> QED BY <2>1, <2>2, <2>3, <2>4, <2>5, <2>6 DEF IInv
  <1> QED BY <1>1, <1>2, <1>3, <1>4

\* Changes and their announcements.  A flag that goes down asks for a repaint;
\* one that was down already has Searched.
LEMMA ChangeKeepsIInv ==
  ASSUME IInv, \/ ChangeWrite \/ ChangeAnnounce
         \/ \E k \in Kind : ChangeAnnounced(k) \/ ChangeWritten(k) \/ ChangeSilent(k)
  PROVE  IInv'
PROOF
  <1>1. CASE \E k \in Kind : ChangeAnnounced(k)
    <2>1. TypeOK'
      <3> PICK k \in Kind : ChangeAnnounced(k)
        BY <1>1
      <3>1. init' \in [Kind -> BOOLEAN] /\ wanted' \in BOOLEAN /\ retry' \in BOOLEAN
        BY DEF IInv, TypeOK, ChangeAnnounced, Announce, FullRepaint
      <3>2. change' \in [at: {"none", "write", "announce"}, kind: Kind \cup {NoKind}]
        BY DEF ChangeAnnounced
      <3> QED BY <3>1, <3>2 DEF IInv, TypeOK, ChangeAnnounced, viewer
    <2>2. Tasks'
      BY <1>1
         DEF IInv, TypeOK, Tasks, User, ChangeAnnounced, MayChange, Announce, FullRepaint,
             GuiFree, NoChange, viewer
    <2>3. Fresh'
      BY <1>1
         DEF IInv, TypeOK, Tasks, Fresh, Announcing, User, ChangeAnnounced, MayChange,
             Announce, FullRepaint, GuiFree, NoChange, viewer
    <2>4. Searched'
      BY <1>1
         DEF IInv, TypeOK, Tasks, Searched, User, ChangeAnnounced, MayChange, Announce,
             FullRepaint, GuiFree, NoChange, viewer
    <2>5. DrawsFresh'
      BY <1>1
         DEF IInv, TypeOK, Tasks, DrawsFresh, User, ChangeAnnounced, MayChange, Announce,
             FullRepaint, GuiFree, NoChange, viewer, Searched
    <2>6. RepaintComing'
      BY <1>1
         DEF IInv, TypeOK, Tasks, RepaintComing, User, ChangeAnnounced, MayChange, Announce,
             FullRepaint, GuiFree, NoChange, viewer, Searched
    <2> QED BY <2>1, <2>2, <2>3, <2>4, <2>5, <2>6 DEF IInv
  <1>2. CASE ChangeWrite
    <2>1. TypeOK'
      BY <1>2
         DEF IInv, TypeOK, Tasks, User, ChangeWrite, Write, Rebuilt, NoChange, viewer, paint
    <2>2. Tasks'
      BY <1>2
         DEF IInv, TypeOK, Tasks, User, ChangeWrite, Write, Rebuilt, NoChange, viewer, paint
    <2>3. Fresh'
      BY <1>2
         DEF IInv, TypeOK, Tasks, Fresh, Announcing, User, ChangeWrite, Write, Rebuilt,
             NoChange, viewer, paint
    <2>4. Searched'
      BY <1>2
         DEF IInv, TypeOK, Tasks, Searched, User, ChangeWrite, Write, Rebuilt, NoChange,
             viewer, paint
    <2>5. DrawsFresh'
      BY <1>2
         DEF IInv, TypeOK, Tasks, DrawsFresh, User, ChangeWrite, Write, Rebuilt, NoChange,
             viewer, paint, Searched
    <2>6. RepaintComing'
      BY <1>2
         DEF IInv, TypeOK, Tasks, RepaintComing, User, ChangeWrite, Write, Rebuilt, NoChange,
             viewer, paint, Searched
    <2> QED BY <2>1, <2>2, <2>3, <2>4, <2>5, <2>6 DEF IInv
  <1>3. CASE \E k \in Kind : ChangeWritten(k)
    <2>1. TypeOK'
      BY <1>3
         DEF IInv, TypeOK, Tasks, User, ChangeWritten, MayChange, Write, GuiFree, NoChange,
             viewer, paint
    <2>2. Tasks'
      BY <1>3
         DEF IInv, TypeOK, Tasks, User, ChangeWritten, MayChange, Write, GuiFree, NoChange,
             viewer, paint
    <2>3. Fresh'
      BY <1>3
         DEF IInv, TypeOK, Tasks, Fresh, Announcing, User, ChangeWritten, MayChange, Write,
             GuiFree, NoChange, viewer, paint
    <2>4. Searched'
      BY <1>3
         DEF IInv, TypeOK, Tasks, Searched, User, ChangeWritten, MayChange, Write, GuiFree,
             NoChange, viewer, paint
    <2>5. DrawsFresh'
      BY <1>3
         DEF IInv, TypeOK, Tasks, DrawsFresh, User, ChangeWritten, MayChange, Write, GuiFree,
             NoChange, viewer, paint
    <2>6. RepaintComing'
      BY <1>3
         DEF IInv, TypeOK, Tasks, RepaintComing, User, ChangeWritten, MayChange, Write,
             GuiFree, NoChange, viewer, paint
    <2> QED BY <2>1, <2>2, <2>3, <2>4, <2>5, <2>6 DEF IInv
  <1>4. CASE ChangeAnnounce
    <2>1. TypeOK'
      BY <1>4
         DEF IInv, TypeOK, Tasks, User, ChangeAnnounce, Announce, FullRepaint, NoChange,
             viewer
    <2>2. Tasks'
      BY <1>4
         DEF IInv, TypeOK, Tasks, User, ChangeAnnounce, Announce, FullRepaint, NoChange,
             viewer
    <2>3. Fresh'
      BY <1>4
         DEF IInv, TypeOK, Tasks, Fresh, Announcing, User, ChangeAnnounce, Announce,
             FullRepaint, NoChange, viewer
    <2>4. Searched'
      BY <1>4
         DEF IInv, TypeOK, Tasks, Searched, User, ChangeAnnounce, Announce, FullRepaint,
             NoChange, viewer
    <2>5. DrawsFresh'
      BY <1>4
         DEF IInv, TypeOK, Tasks, DrawsFresh, User, ChangeAnnounce, Announce, FullRepaint,
             NoChange, viewer, Searched
    <2>6. RepaintComing'
      BY <1>4
         DEF IInv, TypeOK, Tasks, RepaintComing, User, ChangeAnnounce, Announce, FullRepaint,
             NoChange, viewer, Searched
    <2> QED BY <2>1, <2>2, <2>3, <2>4, <2>5, <2>6 DEF IInv
  <1>5. CASE \E k \in Kind : ChangeSilent(k)
    <2>1. TypeOK'
      BY <1>5
         DEF IInv, TypeOK, Tasks, User, ChangeSilent, MayChange, Write, GuiFree, NoChange,
             viewer, paint
    <2>2. Tasks'
      BY <1>5
         DEF IInv, TypeOK, Tasks, User, ChangeSilent, MayChange, Write, GuiFree, NoChange,
             viewer, paint
    <2>3. Fresh'
      BY <1>5
         DEF IInv, TypeOK, Tasks, Fresh, Announcing, User, ChangeSilent, MayChange, Write,
             GuiFree, NoChange, viewer, paint
    <2>4. Searched'
      BY <1>5
         DEF IInv, TypeOK, Tasks, Searched, User, ChangeSilent, MayChange, Write, GuiFree,
             NoChange, viewer, paint
    <2>5. DrawsFresh'
      BY <1>5
         DEF IInv, TypeOK, Tasks, DrawsFresh, User, ChangeSilent, MayChange, Write, GuiFree,
             NoChange, viewer, paint
    <2>6. RepaintComing'
      BY <1>5
         DEF IInv, TypeOK, Tasks, RepaintComing, User, ChangeSilent, MayChange, Write,
             GuiFree, NoChange, viewer, paint
    <2> QED BY <2>1, <2>2, <2>3, <2>4, <2>5, <2>6 DEF IInv
  <1> QED BY <1>1, <1>2, <1>3, <1>4, <1>5

\* The other steps of the GUI thread.
LEMMA GuiKeepsIInv ==
  ASSUME IInv, \/ Retry \/ CommandBegin \/ CommandEnd \/ CommandPause \/ CommandContinue
         \/ SaveBegin \/ (\E k \in Kind : Click(k))
         \/ (\E p \in {"save", "click"} : SearchEnd(p))
  PROVE  IInv'
PROOF
  <1>1. CASE Retry
    <2>1. TypeOK'
      BY <1>1 DEF IInv, TypeOK, Tasks, User, Retry, FullRepaint, viewer
    <2>2. Tasks'
      BY <1>1 DEF IInv, TypeOK, Tasks, User, Retry, FullRepaint, viewer
    <2>3. Fresh'
      BY <1>1 DEF IInv, TypeOK, Tasks, Fresh, Announcing, User, Retry, FullRepaint, viewer
    <2>4. Searched'
      BY <1>1 DEF IInv, TypeOK, Tasks, Searched, User, Retry, FullRepaint, viewer
    <2>5. DrawsFresh'
      BY <1>1 DEF IInv, TypeOK, Tasks, DrawsFresh, User, Retry, FullRepaint, viewer
    <2>6. RepaintComing'
      BY <1>1 DEF IInv, TypeOK, Tasks, RepaintComing, User, Retry, FullRepaint, viewer
    <2> QED BY <2>1, <2>2, <2>3, <2>4, <2>5, <2>6 DEF IInv
  <1>2. CASE CommandBegin
    <2>1. TypeOK'
      <3>1. commands' \in Nat
        BY <1>2 DEF IInv, TypeOK, CommandBegin
      <3>2. UNCHANGED <<db, init, index, build, task, change, paint, missed>>
        BY <1>2 DEF CommandBegin
      <3>3. executing' = TRUE /\ paused' = FALSE
        BY <1>2 DEF CommandBegin
      <3> QED BY <3>1, <3>2, <3>3 DEF IInv, TypeOK, paint
    <2>2. Tasks'
      BY <1>2 DEF IInv, TypeOK, Tasks, User, CommandBegin, paint
    <2>3. Fresh'
      BY <1>2 DEF IInv, TypeOK, Tasks, Fresh, Announcing, User, CommandBegin, paint
    <2>4. Searched'
      BY <1>2 DEF IInv, TypeOK, Tasks, Searched, User, CommandBegin, paint
    <2>5. DrawsFresh'
      BY <1>2 DEF IInv, TypeOK, Tasks, DrawsFresh, User, CommandBegin, paint
    <2>6. RepaintComing'
      BY <1>2 DEF IInv, TypeOK, Tasks, RepaintComing, User, CommandBegin, paint
    <2> QED BY <2>1, <2>2, <2>3, <2>4, <2>5, <2>6 DEF IInv
  <1>3. CASE CommandEnd
    <2>1. TypeOK'
      BY <1>3 DEF IInv, TypeOK, Tasks, User, CommandEnd, paint
    <2>2. Tasks'
      BY <1>3 DEF IInv, TypeOK, Tasks, User, CommandEnd, paint
    <2>3. Fresh'
      BY <1>3 DEF IInv, TypeOK, Tasks, Fresh, Announcing, User, CommandEnd, paint
    <2>4. Searched'
      BY <1>3 DEF IInv, TypeOK, Tasks, Searched, User, CommandEnd, paint
    <2>5. DrawsFresh'
      BY <1>3 DEF IInv, TypeOK, Tasks, DrawsFresh, User, CommandEnd, paint
    <2>6. RepaintComing'
      BY <1>3 DEF IInv, TypeOK, Tasks, RepaintComing, User, CommandEnd, paint
    <2> QED BY <2>1, <2>2, <2>3, <2>4, <2>5, <2>6 DEF IInv
  <1>4. CASE CommandPause
    <2>1. TypeOK'
      BY <1>4 DEF IInv, TypeOK, Tasks, User, CommandPause, paint
    <2>2. Tasks'
      BY <1>4 DEF IInv, TypeOK, Tasks, User, CommandPause, paint
    <2>3. Fresh'
      BY <1>4 DEF IInv, TypeOK, Tasks, Fresh, Announcing, User, CommandPause, paint
    <2>4. Searched'
      BY <1>4 DEF IInv, TypeOK, Tasks, Searched, User, CommandPause, paint
    <2>5. DrawsFresh'
      BY <1>4 DEF IInv, TypeOK, Tasks, DrawsFresh, User, CommandPause, paint
    <2>6. RepaintComing'
      BY <1>4 DEF IInv, TypeOK, Tasks, RepaintComing, User, CommandPause, paint
    <2> QED BY <2>1, <2>2, <2>3, <2>4, <2>5, <2>6 DEF IInv
  <1>5. CASE CommandContinue
    <2>1. TypeOK'
      BY <1>5 DEF IInv, TypeOK, Tasks, User, CommandContinue, paint
    <2>2. Tasks'
      BY <1>5 DEF IInv, TypeOK, Tasks, User, CommandContinue, paint
    <2>3. Fresh'
      BY <1>5 DEF IInv, TypeOK, Tasks, Fresh, Announcing, User, CommandContinue, paint
    <2>4. Searched'
      BY <1>5 DEF IInv, TypeOK, Tasks, Searched, User, CommandContinue, paint
    <2>5. DrawsFresh'
      BY <1>5 DEF IInv, TypeOK, Tasks, DrawsFresh, User, CommandContinue, paint
    <2>6. RepaintComing'
      BY <1>5 DEF IInv, TypeOK, Tasks, RepaintComing, User, CommandContinue, paint
    <2> QED BY <2>1, <2>2, <2>3, <2>4, <2>5, <2>6 DEF IInv
  <1>6. CASE \E k \in Kind : Click(k)
    <2>1. TypeOK'
      BY <1>6 DEF IInv, TypeOK, Tasks, User, Click, GuiFree, NoTask, viewer, paint
    <2>2. Tasks'
      BY <1>6 DEF IInv, TypeOK, Tasks, User, Click, GuiFree, NoTask, viewer, paint
    <2>3. Fresh'
      BY <1>6
         DEF IInv, TypeOK, Tasks, Fresh, Announcing, User, Click, GuiFree, NoTask, viewer,
             paint
    <2>4. Searched'
      BY <1>6 DEF IInv, TypeOK, Tasks, Searched, User, Click, GuiFree, NoTask, viewer, paint
    <2>5. DrawsFresh'
      BY <1>6 DEF IInv, TypeOK, Tasks, DrawsFresh, User, Click, GuiFree, NoTask, viewer, paint
    <2>6. RepaintComing'
      BY <1>6
         DEF IInv, TypeOK, Tasks, RepaintComing, User, Click, GuiFree, NoTask, viewer, paint
    <2> QED BY <2>1, <2>2, <2>3, <2>4, <2>5, <2>6 DEF IInv
  <1>7. CASE SaveBegin
    <2>1. TypeOK'
      BY <1>7 DEF IInv, TypeOK, Tasks, User, SaveBegin, GuiFree, NoTask
    <2>2. Tasks'
      BY <1>7 DEF IInv, TypeOK, Tasks, User, SaveBegin, GuiFree, NoTask
    <2>3. Fresh'
      BY <1>7 DEF IInv, TypeOK, Tasks, Fresh, Announcing, User, SaveBegin, GuiFree, NoTask
    <2>4. Searched'
      BY <1>7 DEF IInv, TypeOK, Tasks, Searched, User, SaveBegin, GuiFree, NoTask
    <2>5. DrawsFresh'
      BY <1>7 DEF IInv, TypeOK, Tasks, DrawsFresh, User, SaveBegin, GuiFree, NoTask
    <2>6. RepaintComing'
      BY <1>7 DEF IInv, TypeOK, Tasks, RepaintComing, User, SaveBegin, GuiFree, NoTask
    <2> QED BY <2>1, <2>2, <2>3, <2>4, <2>5, <2>6 DEF IInv
  <1>8. CASE \E p \in {"save", "click"} : SearchEnd(p)
    <2>1. TypeOK'
      BY <1>8 DEF IInv, TypeOK, Tasks, User, SearchEnd, NoTask, viewer
    <2>2. Tasks'
      BY <1>8 DEF IInv, TypeOK, Tasks, User, SearchEnd, NoTask, viewer
    <2>3. Fresh'
      BY <1>8 DEF IInv, TypeOK, Tasks, Fresh, Announcing, User, SearchEnd, NoTask, viewer
    <2>4. Searched'
      BY <1>8 DEF IInv, TypeOK, Tasks, Searched, User, SearchEnd, NoTask, viewer
    <2>5. DrawsFresh'
      BY <1>8 DEF IInv, TypeOK, Tasks, DrawsFresh, User, SearchEnd, NoTask, viewer
    <2>6. RepaintComing'
      BY <1>8 DEF IInv, TypeOK, Tasks, RepaintComing, User, SearchEnd, NoTask, viewer
    <2> QED BY <2>1, <2>2, <2>3, <2>4, <2>5, <2>6 DEF IInv
  <1> QED BY <1>1, <1>2, <1>3, <1>4, <1>5, <1>6, <1>7, <1>8

LEMMA StutterKeepsIInv == IInv /\ UNCHANGED vars => IInv'
PROOF BY
   DEF IInv, TypeOK, Tasks, Fresh, Announcing, Searched, DrawsFresh, RepaintComing, vars,
       viewer, paint

LEMMA NextKeepsIInv == IInv /\ [Next]_vars => IInv'
PROOF
  <1> SUFFICES ASSUME IInv, [Next]_vars PROVE IInv'
    OBVIOUS
  <1>1. CASE Render
    <2>1. ASSUME NEW k \in Kind, ReadBegin("render", k) \/ BuildBegin("render", k) PROVE IInv'
      BY <2>1, SearchKeepsIInv DEF User
    <2>2. CASE BuildEnd("render") \/ ReadEnd("render")
      <3>1. Kind # {}
        BY <2>2 DEF IInv, Tasks, BuildEnd, ReadEnd, User
      <3> QED BY <2>2, <3>1, SearchKeepsIInv DEF User
    <2> QED BY <1>1, <2>1, <2>2, DrawKeepsIInv DEF Render, Search
  <1>2. CASE GuiGoesOn
    <2>1. ASSUME NEW p \in {"save", "click"}, Search(p) PROVE IInv'
      <3>1. ASSUME NEW k \in Kind, ReadBegin(p, k) \/ BuildBegin(p, k) PROVE IInv'
        BY <3>1, SearchKeepsIInv DEF User
      <3>2. CASE BuildEnd(p) \/ ReadEnd(p)
        <4>1. Kind # {}
          BY <3>2 DEF IInv, Tasks, BuildEnd, ReadEnd, User
        <4> QED BY <3>2, <4>1, SearchKeepsIInv DEF User
      <3> QED BY <2>1, <3>1, <3>2 DEF Search
    <2>2. CASE ChangeWrite \/ ChangeAnnounce
      BY <2>2, ChangeKeepsIInv
    <2>3. ASSUME NEW p \in {"save", "click"}, SearchEnd(p) PROVE IInv'
      BY <2>3, GuiKeepsIInv
    <2> QED BY <1>2, <2>1, <2>2, <2>3, DrawKeepsIInv DEF GuiGoesOn
  <1>3. CASE Retry \/ CommandEnd
    BY <1>3, GuiKeepsIInv
  <1>4. CASE Gui
    BY <1>4, GuiKeepsIInv, ChangeKeepsIInv DEF Gui
  <1>5. CASE UNCHANGED vars
    BY <1>5, StutterKeepsIInv
  <1> QED BY <1>1, <1>2, <1>3, <1>4, <1>5 DEF Next

-----------------------------------------------------------------------------
LEMMA SpecIInv == Spec => []IInv
PROOF BY InitIInv, NextKeepsIInv, PTL DEF Spec

\* Everything keeps its type, and a thread that builds or draws holds the
\* mutex for it.
THEOREM TypeCorrect == Spec => []TypeOK
PROOF
  <1>1. IInv => TypeOK
    BY DEF IInv
  <1> QED BY <1>1, SpecIInv, PTL

\* A tree that counts as built shows the database, unless announceModified
\* came too early, in the middle of a build, or not at all.
THEOREM IndexIsFresh == Spec => []IndexFresh
PROOF BY IInvImplies, SpecIInv, PTL

\* What RenderThread::draw's comment on drawing_mutex_ promises: save_image
\* and the render thread do not build what the other reads.
THEOREM RebuildsAlone == Spec => []RebuildAlone
PROOF BY IInvImplies, SpecIInv, PTL

\* No change is lost between announceModified's silence for a flag that is
\* down already, fullRepaint's timer, and drawings that break off.
THEOREM RepaintIsComing == Spec => []RepaintComing
PROOF
  <1>1. IInv => RepaintComing
    BY DEF IInv
  <1> QED BY <1>1, SpecIInv, PTL
=============================================================================
