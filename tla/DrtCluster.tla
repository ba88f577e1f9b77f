----------------------------- MODULE DrtCluster -----------------------------
(***************************************************************************)
(* Detailed routing on a cluster: the leader (src/src/drt/src: TritonRoute,*)
(* FlexDR) sends its design, then the changes to it, to all workers, and   *)
(* lets them route batches of boxes.  A design is the sequence of changes  *)
(* that made it.  Changes travel as names of files on a shared volume.     *)
(*                                                                         *)
(* The leader's main thread posts some broadcasts to a pool of one thread, *)
(* which runs beside it.  Of the balancer, LoadBalancer has the details;   *)
(* here a broadcast is one step: all listed workers apply it, those that   *)
(* fail are removed, one found later gets all broadcasts again.            *)
(* The leader's connection to the balancer is not lost, and the cloud has  *)
(* more than one worker.  MaxBatches bounds the model, and MaxFaults the    *)
(* workers that end or restart, and the connections that break.            *)
(***************************************************************************)
EXTENDS Naturals, Sequences, FiniteSets, SequencesExt, TLC

CONSTANTS
  Worker, Late,      \* workers the balancer starts with, and finds later
  NumBoxes, CloudSize,
  DoPA,              \* DO_PA: pin access is part of the run
  LateAny,           \* workers may be found at any time
  MAX_TRIES, MaxBatches, MaxFaults

ASSUME CloudAssumption == CloudSize \in Nat /\ CloudSize > 1
ASSUME WorkersAssumption == Worker \cap Late = {} /\ IsFiniteSet(Worker \cup Late)
ASSUME LimitsAssumption == NumBoxes \in Nat /\ MaxFaults \in Nat

Box == 1..NumBoxes
Group == 0..(CloudSize - 1)
Node == Worker \cup Late

VARIABLES
  main,       \* position of the leader's main thread
  pool,       \* tasks of pa_pool, and later of dist_pool_
  made,       \* the leader's design
  unsent,     \* design_->updates_
  file,       \* contents of the updates_<i>.bin
  version, batches,
  iter,       \* the iteration: 0, 1, or 2 for any later one
  todo,       \* boxes of this iteration that are still to be routed
  batch,      \* boxes of the batch that are routed remotely
  job,        \* what each sending thread does
  results,    \* workers_results_
  markers,    \* boxes where the leader knows of violations
  listed,     \* the balancer's workers_
  broadcasts, \* the balancer's broadcastData; with, as history, what the files
              \* that a message names held when it was sent
  up,         \* workers that run
  copy,       \* the design each worker has, and its via data
  unclean,    \* history: boxes with violations, or not routed yet
  ran,        \* history: the design that a job met, and the one it was for
  faults, resets  \* workers that ended or restarted, connections that broke

leader == <<main, pool, made, unsent, file, version, iter, batches, todo, batch>>
jobs == <<job, results, resets>>
design == <<markers, unclean>>
cloud == <<listed, broadcasts, up, copy, faults>>
vars == <<leader, jobs, design, cloud, ran>>

Blank == [log |-> <<>>, via |-> FALSE]
NoJob == [state |-> "none", to |-> 0, tries |-> 0]

\* The bound: something may go wrong.
MayFail == faults + resets < MaxFaults

-----------------------------------------------------------------------------
(***************************************************************************)
(* The workers' handlers, and the balancer.                                *)
(***************************************************************************)

\* RoutingCallBack: the design is read, or what the message brings applied.
Apply(m, c, content) ==
  CASE m = "design"  -> [c EXCEPT !.log = <<"design">>]
    [] m = "updates" -> [c EXCEPT !.log = @ \o content]
    [] m = "globals" -> [c EXCEPT !.via = TRUE]
    [] OTHER         -> [c EXCEPT !.log = Append(@, m)]

\* Without a design a worker ends at the first message that needs one.
Ends(m, c) == c.log = <<>> /\ m \notin {"design", "globals"}

\* Workers that do not answer are removed.  The end of a worker that had the
\* message is taken for an answer.
Broadcast(m, content) ==
  \E failed \in SUBSET listed :
    /\ {w \in listed : ~up[w]} \subseteq failed
    /\ Cardinality({w \in failed : up[w]}) + faults + resets <= MaxFaults
    /\ faults' = faults + Cardinality({w \in failed : up[w]})
    /\ listed' = listed \ failed
    /\ broadcasts' = Append(broadcasts, [msg |-> m, content |-> content])
    /\ copy' = [w \in Node |-> IF w \in listed' /\ ~Ends(m, copy[w])
                               THEN Apply(m, copy[w], content) ELSE copy[w]]
    /\ up' = [w \in Node |-> up[w] /\ ~(w \in listed' /\ Ends(m, copy[w]))]

\* What a worker has after some messages, from its start on.
Replayed(messages) ==
  LET had[k \in 0..Len(messages)] ==
        IF k = 0 THEN Blank ELSE Apply(messages[k].msg, had[k - 1], messages[k].content)
  IN had[Len(messages)]

\* The messages bring what is in the files now.
BringsNow(m) == IF m.msg = "updates" THEN [m EXCEPT !.content = file] ELSE m

\* A worker that is found gets all broadcasts there have been.  LateAny = FALSE:
\* nobody is found when the files have other contents already.
AddWorker(w) ==
  /\ w \in Late \ listed /\ up[w] /\ copy[w] = Blank
  /\ LateAny \/ \A k \in DOMAIN broadcasts : BringsNow(broadcasts[k]) = broadcasts[k]
  /\ listed' = listed \cup {w}
  /\ copy' = [copy EXCEPT ![w] =
                Replayed([k \in DOMAIN broadcasts |-> BringsNow(broadcasts[k])])]
  /\ UNCHANGED <<leader, jobs, design, broadcasts, up, faults, ran>>

\* A worker ends at any time, and may be started again with nothing.
Die(w) ==
  /\ up[w] /\ MayFail
  /\ main = "stuck" => \E v \in listed \ {w} : up[v]   \* one that waits: RowsWaitEnds
  /\ up' = [up EXCEPT ![w] = FALSE] /\ faults' = faults + 1
  /\ UNCHANGED <<leader, jobs, design, listed, broadcasts, copy, ran>>

Restart(w) ==
  /\ ~up[w] /\ MayFail
  /\ up' = [up EXCEPT ![w] = TRUE] /\ copy' = [copy EXCEPT ![w] = Blank]
  /\ faults' = faults + 1
  /\ UNCHANGED <<leader, jobs, design, listed, broadcasts, ran>>

-----------------------------------------------------------------------------
(***************************************************************************)
(* The leader's pool thread.                                               *)
(***************************************************************************)
PoolSend ==
  /\ pool # <<>> /\ Head(pool) \in {"design", "init_pa", "guides"}
  /\ Broadcast(Head(pool), <<>>)
  /\ pool' = (IF Head(pool) = "design" THEN <<"clear">> ELSE <<>>) \o Tail(pool)
  /\ UNCHANGED <<main, made, unsent, file, version, iter, batches, todo, batch, jobs, design, ran>>

\* sendDesignUpdates
PoolSendUpdates ==
  /\ pool # <<>> /\ Head(pool) = "updates" /\ unsent # <<>>
  /\ file' = unsent
  /\ Broadcast("updates", unsent)
  /\ pool' = <<"clear">> \o Tail(pool)
  /\ UNCHANGED <<main, made, unsent, version, iter, batches, todo, batch, jobs, design, ran>>

\* The task's last step: what has been sent is forgotten.
PoolClear ==
  /\ pool # <<>>
  /\ Head(pool) = "clear" \/ (Head(pool) = "updates" /\ unsent = <<>>)
  /\ unsent' = <<>> /\ pool' = Tail(pool)
  /\ UNCHANGED <<main, made, file, version, iter, batches, todo, batch, jobs, design, cloud, ran>>

Pool == PoolSend \/ PoolSendUpdates \/ PoolClear
-----------------------------------------------------------------------------
(***************************************************************************)
(* The leader's main thread.                                               *)
(***************************************************************************)
Goes(from, to) == main = from /\ main' = to
Routing == <<version, iter, batches, todo, batch, jobs, design>>

\* TritonRoute::main
MainStart ==
  /\ Goes("start", IF DoPA THEN "join_pa" ELSE "ta")
  /\ pool' = IF DoPA THEN <<"design", "init_pa">> ELSE <<"design">>
  /\ made' = pool'
  /\ UNCHANGED <<unsent, file, Routing, cloud, ran>>

JoinPA ==
  /\ Goes("join_pa", "pa1") /\ pool = <<>>
  /\ UNCHANGED <<pool, made, unsent, file, Routing, cloud, ran>>

\* FlexPA: access points, then patterns, then the choices for the rows, which
\* the workers make; the last task of pin access lets the workers go on alone.
PASend ==
  /\ main \in {"pa1", "pa2", "pa3"}
  /\ main' = CASE main = "pa1" -> "pa2" [] main = "pa2" -> "rows" [] OTHER -> "ta"
  /\ Broadcast(main, <<>>)
  /\ pool' = IF main = "pa3" THEN <<"guides">> ELSE <<>>
  /\ made' = Append(made, main) \o pool'
  /\ UNCHANGED <<unsent, file, Routing, ran>>

\* FlexPA::prepPatternInstRows.  The job for the rows is relayed by the balancer,
\* and a failure that reaches the leader ends it.
RowsAnswered ==
  /\ Goes("rows", "pa3")
  /\ \E w \in listed :
       /\ up[w] /\ ~Ends("rows", copy[w])
       /\ ran' = [met |-> copy[w], due |-> [log |-> made, via |-> FALSE]]
  /\ UNCHANGED <<pool, made, unsent, file, Routing, cloud>>

\* Nobody is there, or the workers that are asked refuse.
RowsRefused ==
  /\ Goes("rows", "stopped")
  /\ listed = {} \/ \E w \in listed : ~up[w]
  /\ UNCHANGED <<pool, made, unsent, file, Routing, cloud, ran>>

\* The worker that has the job ends: the leader gets an empty answer and asks
\* again, or has done so MAX_TRIES times (they are not counted here).  Or its end
\* resets the connection: the balancer tries again, but what it writes is empty.
RowsWorkerEnds ==
  /\ main = "rows"
  /\ \E w \in listed :
       /\ up[w] /\ up' = [up EXCEPT ![w] = FALSE]
       /\ \/ /\ Ends("rows", copy[w]) /\ UNCHANGED faults
             /\ main' \in {"rows", "stopped"}
          \/ /\ MayFail /\ faults' = faults + 1
             /\ main' \in {"rows", "stopped", "emptied"}
  /\ UNCHANGED <<pool, made, unsent, file, Routing, listed, broadcasts, copy, ran>>

\* A worker that gets the empty request waits, and so do all behind it.
RowsEmptied ==
  /\ main = "emptied"
  /\ \E w \in listed : main' = IF up[w] THEN "stuck" ELSE "stopped"
  /\ UNCHANGED <<pool, made, unsent, file, Routing, cloud, ran>>

RowsJob == RowsAnswered \/ RowsRefused \/ RowsWorkerEnds \/ RowsEmptied

\* The wait is over when the worker that waits ends.
RowsWaitEnds(w) ==
  /\ main = "stuck" /\ main' \in {"rows", "stopped", "emptied"}
  /\ w \in listed /\ up[w] /\ MayFail
  /\ up' = [up EXCEPT ![w] = FALSE] /\ faults' = faults + 1
  /\ UNCHANGED <<pool, made, unsent, file, Routing, listed, broadcasts, copy, ran>>

\* Track assignment changes the design; sending it is posted.
TA ==
  /\ Goes("ta", "join")
  /\ made' = Append(made, "ta") /\ unsent' = Append(unsent, "ta")
  /\ pool' = Append(pool, "updates")
  /\ UNCHANGED <<file, Routing, cloud, ran>>

\* Faulty: the pool's tasks are not waited for.
BatchWriteAtOnce ==
  /\ Goes("join", "send") /\ todo # {}
  /\ file' = IF unsent = <<>> THEN file ELSE unsent
  /\ UNCHANGED <<pool, made, unsent, Routing, cloud, ran>>

\* processWorkersBatchDistributed: the pool is joined; files are written ...
BatchWrite ==
  /\ Goes("join", "send") /\ todo # {}
  /\ pool = <<>>
  /\ file' = IF unsent = <<>> THEN file ELSE unsent
  /\ UNCHANGED <<pool, made, unsent, Routing, cloud, ran>>

\* Boxes without markers, from the third iteration on.  They are routed all the
\* same where a check is due.
Skippable == IF iter < 2 THEN {} ELSE Box \ markers

\* ... and named to the workers.  The first batch of an iteration that has no
\* changes to send brings the via data and globals; then there are boxes for
\* the cloud.
BatchSend ==
  /\ Goes("send", "route")
  /\ IF unsent # <<>> THEN Broadcast("updates", file)
     ELSE IF version = 0 THEN Broadcast("globals", <<>>)
     ELSE UNCHANGED cloud
  /\ unsent' = <<>> /\ version' = 1 /\ batches' = batches + 1
  /\ \E last \in todo :
       /\ todo' = {b \in todo : b > last}
       /\ \E skipped \in SUBSET Skippable : batch' = {b \in todo : b <= last} \ skipped
  /\ job' = [g \in Group |-> [NoJob EXCEPT !.state = "ask"]]
  /\ UNCHANGED <<pool, made, file, iter, results, resets, design, ran>>

\* Boxes are dealt out to the sending threads in turn.
BoxesOf(g) ==
  {b \in batch : (Cardinality({c \in batch : c < b}) % CloudSize) = g}

\* FlexDR::sendWorkers: the balancer names a worker.  With none left, the
\* leader fails.
Ask(g) ==
  /\ main = "route" /\ job[g].state = "ask"
  /\ \/ /\ BoxesOf(g) = {}
        /\ job' = [job EXCEPT ![g].state = "done"] /\ UNCHANGED main
     \/ /\ BoxesOf(g) # {}
        /\ \E w \in listed :
             job' = [job EXCEPT ![g].state = "sent", ![g].to = w]
        /\ UNCHANGED main
     \/ /\ BoxesOf(g) # {} /\ listed = {}
        /\ main' = "stopped" /\ UNCHANGED job
  /\ UNCHANGED <<pool, made, unsent, file, version, iter, batches, todo, batch, results, resets,
                 design, cloud, ran>>

Got(boxes) == results \o SetToSeq({[box |-> b, batch |-> batches] : b \in boxes})

\* sendJobMultiResult: the worker that was named routes the boxes and answers in
\* parts; the parts there are when it ends are taken for the whole.
Answer(g) ==
  /\ main = "route" /\ job[g].state = "sent"
  /\ LET w == job[g].to IN
     /\ up[w] /\ ~Ends("route", copy[w])
     /\ ran' = [met |-> copy[w], due |-> [log |-> made, via |-> TRUE]]
     /\ \/ results' = Got(BoxesOf(g)) /\ UNCHANGED <<up, faults>>
        \/ /\ MayFail /\ faults' = faults + 1
           /\ up' = [up EXCEPT ![w] = FALSE]
           /\ \E part \in SUBSET BoxesOf(g) : results' = Got(part)
  /\ job' = [job EXCEPT ![g].state = "done"]
  /\ UNCHANGED <<leader, resets, design, listed, broadcasts, copy>>

\* The connection breaks before the end: all is asked for again.
AnswerBreaks(g) ==
  /\ main = "route" /\ job[g].state = "sent" /\ MayFail
  /\ up[job[g].to] /\ ~Ends("route", copy[job[g].to])
  /\ resets' = resets + 1
  /\ IF job[g].tries + 1 < MAX_TRIES
     THEN job' = [job EXCEPT ![g].tries = @ + 1] /\ UNCHANGED main
     ELSE main' = "stopped" /\ UNCHANGED job
  /\ UNCHANGED <<pool, made, unsent, file, version, iter, batches, todo, batch, results, design,
                 cloud, ran>>

\* Faulty: a worker is asked for again, without an end.
NoAnswerAsksAgain(g) ==
  /\ main = "route" /\ job[g].state = "sent"
  /\ ~up[job[g].to] \/ Ends("route", copy[job[g].to])
  /\ job' = [job EXCEPT ![g].state = "ask"]
  /\ up' = [up EXCEPT ![job[g].to] = FALSE]
  /\ UNCHANGED <<leader, results, resets, design, listed, broadcasts, copy, faults, ran>>

\* The worker cannot be reached, or has no design and ends without an answer
\* and cannot be reached then.
NoAnswer(g) ==
  /\ main = "route" /\ job[g].state = "sent"
  /\ ~up[job[g].to] \/ Ends("route", copy[job[g].to])
  /\ main' = "stopped"
  /\ up' = [up EXCEPT ![job[g].to] = FALSE]
  /\ UNCHANGED <<pool, made, unsent, file, version, iter, batches, todo, batch, jobs, design,
                 listed, broadcasts, copy, faults, ran>>

Answered == {results[k].box : k \in 1..Len(results)}

\* Faulty: the results of this batch are still there in the next.
MergeKeeps ==
  /\ Goes("route", "next") /\ \A g \in Group : job[g].state = "done"
  /\ \E bad \in SUBSET Answered :
       /\ markers' = (markers \ batch) \cup bad
       /\ unclean' = (unclean \ Answered) \cup bad
  /\ made' = Append(made, ToString(batches)) /\ unsent' = Append(unsent, ToString(batches))
  /\ UNCHANGED <<pool, file, version, iter, batches, todo, batch, jobs, cloud, ran>>

\* Faulty: markers are removed also where the result is worse and is not kept.
MergeRemovesMarkers ==
  /\ Goes("route", "next") /\ \A g \in Group : job[g].state = "done"
  /\ \E worse \in SUBSET (IF iter = 0 THEN {} ELSE batch \cap Answered) :
       LET written == batch \ worse IN
       /\ \E bad \in SUBSET (written \cap Answered) :
            /\ markers' = (markers \ batch) \cup bad
            /\ unclean' = (unclean \ (written \cap Answered)) \cup bad
       /\ IF written = {} THEN UNCHANGED <<made, unsent>>
          ELSE /\ made' = Append(made, ToString(batches))
               /\ unsent' = Append(unsent, ToString(batches))
  /\ results' = <<>> /\ job' = [g \in Group |-> NoJob]
  /\ UNCHANGED <<pool, file, version, iter, batches, todo, batch, resets, cloud, ran>>

\* The results are taken over, and FlexDRWorker::end writes each box back: its
\* markers are replaced by those of its result, unless these are more.  A box
\* without a result has none.
Merge ==
  /\ Goes("route", "next") /\ \A g \in Group : job[g].state = "done"
  /\ \E worse \in SUBSET (IF iter = 0 THEN {} ELSE batch \cap Answered) :
       LET written == batch \ worse IN
       /\ \E bad \in SUBSET (written \cap Answered) :
            /\ markers' = (markers \ written) \cup bad
            /\ unclean' = (unclean \ (written \cap Answered)) \cup bad
       /\ IF written = {} THEN UNCHANGED <<made, unsent>>
          ELSE /\ made' = Append(made, ToString(batches))
               /\ unsent' = Append(unsent, ToString(batches))
  /\ results' = <<>> /\ job' = [g \in Group |-> NoJob]
  /\ UNCHANGED <<pool, file, version, iter, batches, todo, batch, resets, cloud, ran>>

\* stubbornTilesFlow: with few markers left, the leader routes around them by
\* itself.
StubbornTiles ==
  /\ Goes("join", "next") /\ iter = 2 /\ todo = Box /\ markers # {}
  /\ todo' = {} /\ batches' = batches + 1
  /\ \E bad \in SUBSET markers :
       /\ markers' = bad
       /\ unclean' = (unclean \ markers) \cup bad
       /\ IF bad = markers THEN UNCHANGED <<made, unsent>>
          ELSE /\ made' = Append(made, ToString(batches'))
               /\ unsent' = Append(unsent, ToString(batches'))
  /\ UNCHANGED <<pool, file, version, iter, batch, jobs, cloud, ran>>

\* The next batch, or, after the check of connectivity, the next iteration,
\* until no markers are left.
NextBatch ==
  /\ main = "next" /\ batch' = {}
  /\ IF todo # {} /\ batches < MaxBatches
     THEN main' = "join" /\ UNCHANGED <<version, iter, todo>>
     ELSE /\ main' = IF iter = 0 /\ ~(unclean \subseteq markers) THEN "stopped"
                     ELSE IF markers = {} \/ batches = MaxBatches THEN "done" ELSE "join"
          /\ version' = 0 /\ iter' = (IF iter < 2 THEN iter + 1 ELSE 2) /\ todo' = Box
  /\ UNCHANGED <<pool, made, unsent, file, batches, jobs, design, cloud, ran>>

Init ==
  /\ main = "start" /\ pool = <<>> /\ made = <<>> /\ unsent = <<>> /\ file = <<>>
  /\ version = 0 /\ iter = 0 /\ batches = 0 /\ todo = Box /\ batch = {}
  /\ job = [g \in Group |-> NoJob] /\ results = <<>> /\ resets = 0
  /\ markers = {} /\ unclean = Box
  /\ listed = Worker /\ broadcasts = <<>>
  /\ up = [w \in Node |-> TRUE] /\ copy = [w \in Node |-> Blank] /\ faults = 0
  /\ ran = [met |-> Blank, due |-> Blank]

Main ==
  \/ MainStart \/ JoinPA \/ PASend \/ RowsJob \/ TA
  \/ BatchWrite \/ BatchSend \/ Merge \/ StubbornTiles \/ NextBatch

Job(g) == Ask(g) \/ Answer(g) \/ AnswerBreaks(g) \/ NoAnswer(g)

Running == main \notin {"done", "stopped"}

Next ==
  \/ Running /\ (Main \/ Pool \/ \E g \in Group : Job(g))
  \/ Running /\ \E w \in Node : AddWorker(w) \/ Die(w) \/ Restart(w) \/ RowsWaitEnds(w)

Spec == Init /\ [][Next]_vars

\* The leader's threads go on, and a worker that runs answers.
FairSpec ==
  /\ Spec
  /\ WF_vars(Running /\ Main) /\ WF_vars(Running /\ Pool)
  /\ \A g \in Group : WF_vars(Running /\ Job(g))

-----------------------------------------------------------------------------
(***************************************************************************)
(* Properties.                                                             *)
(***************************************************************************)

\* A job is done on the design the leader has: every change, each once and in
\* order, has reached the worker by then, through the pool or from the main
\* thread, and so have the via data.
JobsOnLeadersDesign ==
  /\ ran.met.log = ran.due.log
  /\ ran.due.via => ran.met.via

\* The results that are merged are those of this batch, one for a box.
ResultsFitBatch ==
  /\ \A k \in 1..Len(results) : results[k].batch = batches /\ results[k].box \in batch
  /\ Cardinality(Answered) = Len(results)

\* Whatever workers do, the leader comes to an end; or it waits for ever for the
\* job that the balancer relays, behind a worker that got an empty request.
Waits == main = "stuck" /\ \E w \in listed : up[w]
RouterEnds == <>[](main \in {"done", "stopped"} \/ Waits)

\* When the leader has no markers left there are no violations, unless a worker
\* or a connection failed.
NoViolationForgotten ==
  main = "done" /\ markers = {} /\ faults = 0 => unclean = {}
=============================================================================
