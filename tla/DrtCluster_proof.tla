-------------------------- MODULE DrtCluster_proof --------------------------
(***************************************************************************)
(* Proofs about DrtCluster, for any workers, boxes and sending threads, and *)
(* any number of batches, faults and broken connections.                   *)
(***************************************************************************)
EXTENDS DrtCluster, FiniteSetTheorems, SequenceTheorems, WellFoundedInduction, TLAPS

-----------------------------------------------------------------------------
(***************************************************************************)
(* What a worker has after some messages.                                  *)
(***************************************************************************)

\* Induction over the naturals: the set of numbers that are wrong is empty, as
\* it has no smallest member.
LEMMA NothingWrong ==
  ASSUME NEW Wrong \in SUBSET Nat, 0 \notin Wrong,
         \A n \in Nat : n \notin Wrong => n + 1 \notin Wrong
  PROVE  Wrong = {}
PROOF
  <1> SUFFICES ASSUME Wrong # {} PROVE FALSE
    OBVIOUS
  <1>1. PICK x \in Wrong : \A y \in Wrong : ~ (<<y, x>> \in OpToRel(<, Nat))
    BY WFMin, NatLessThanWellFounded
  <1>2. x \in Nat /\ x # 0 /\ x - 1 \in Nat
    OBVIOUS
  <1>3. x - 1 \in Wrong
    BY <1>2
  <1>4. <<x - 1, x>> \in Nat \X Nat /\ x - 1 < x
    BY <1>2
  <1>5. <<x - 1, x>> \in OpToRel(<, Nat)
    BY <1>4, Zenon DEF OpToRel
  <1> QED BY <1>1, <1>3, <1>5

\* had is what a worker has after each of the first n messages.
Has(messages, n, had) ==
  had = [k \in 0..n |-> IF k = 0 THEN Blank
                        ELSE Apply(messages[k].msg, had[k - 1], messages[k].content)]

LEMMA HasGrows ==
  ASSUME NEW messages, NEW n \in Nat, NEW had, Has(messages, n, had),
         NEW more, more = [k \in 0..(n + 1) |->
                             IF k <= n THEN had[k]
                             ELSE Apply(messages[n + 1].msg, had[n], messages[n + 1].content)]
  PROVE  Has(messages, n + 1, more)
PROOF
  <1> DEFINE then == [k \in 0..(n + 1) |-> IF k = 0 THEN Blank
                        ELSE Apply(messages[k].msg, more[k - 1], messages[k].content)]
  <1>1. ASSUME NEW k \in 0..(n + 1) PROVE more[k] = then[k]
    <2>1. CASE k = 0
      BY <2>1 DEF Has
    <2>2. CASE k # 0 /\ k <= n
      <3>1. k - 1 \in 0..n /\ k - 1 \in 0..(n + 1) /\ k \in 0..n
        BY <2>2
      <3>2. more[k] = had[k] /\ more[k - 1] = had[k - 1]
        BY <2>2, <3>1
      <3>3. had[k] = Apply(messages[k].msg, had[k - 1], messages[k].content)
        BY <2>2, <3>1 DEF Has
      <3> QED BY <2>2, <3>2, <3>3
    <2>3. CASE k = n + 1
      <3>1. k - 1 = n /\ more[n] = had[n]
        BY <2>3
      <3> QED BY <2>3, <3>1
    <2> QED BY <2>1, <2>2, <2>3
  <1>2. more = then
    BY <1>1, Zenon
  <1> QED BY <1>2 DEF Has

LEMMA HasExists ==
  ASSUME NEW messages, NEW n \in Nat
  PROVE  \E had : Has(messages, n, had)
PROOF
  <1> DEFINE Wrong == {k \in Nat : ~ \E had : Has(messages, k, had)}
  <1>1. 0 \notin Wrong
    <2> DEFINE h == [k \in 0..0 |-> Blank]
    <2>1. h = [k \in 0..0 |-> IF k = 0 THEN Blank
                        ELSE Apply(messages[k].msg, h[k - 1], messages[k].content)]
      OBVIOUS
    <2>2. Has(messages, 0, h)
      BY <2>1 DEF Has
    <2> QED BY <2>2
  <1>2. ASSUME NEW k \in Nat, k \notin Wrong PROVE k + 1 \notin Wrong
    <2>1. PICK had : Has(messages, k, had)
      BY <1>2
    <2> DEFINE more == [j \in 0..(k + 1) |->
                          IF j <= k THEN had[j]
                          ELSE Apply(messages[k + 1].msg, had[k], messages[k + 1].content)]
    <2>2. Has(messages, k + 1, more)
      BY <2>1, HasGrows
    <2> QED BY <2>2
  <1> HIDE DEF Wrong
  <1>3. Wrong = {}
    <2>1. Wrong \in SUBSET Nat
      BY DEF Wrong
    <2> QED BY <1>1, <1>2, <2>1, NothingWrong
  <1> QED BY <1>3 DEF Wrong

\* Two lists of messages that begin alike leave the same.
Alike(messages, others, n) == \A k \in 1..n : messages[k] = others[k]

LEMMA HasUnique ==
  ASSUME NEW messages, NEW others, NEW n \in Nat, NEW m \in Nat, n <= m,
         Alike(messages, others, n),
         NEW had, NEW has, Has(messages, n, had), Has(others, m, has)
  PROVE  had[n] = has[n]
PROOF
  <1> DEFINE Wrong == {k \in 0..n : had[k] # has[k]}
  <1>1. 0 \notin Wrong
    BY DEF Has
  <1>2. ASSUME NEW k \in Nat, k \notin Wrong PROVE k + 1 \notin Wrong
    <2> SUFFICES ASSUME k + 1 \in 0..n PROVE had[k + 1] = has[k + 1]
      OBVIOUS
    <2>1. k \in 0..n /\ k + 1 \in 1..n /\ k + 1 \in 0..m /\ (k + 1) - 1 = k /\ k + 1 # 0
      OBVIOUS
    <2>2. had[k] = has[k]
      BY <1>2, <2>1
    <2>3. had[k + 1] = Apply(messages[k + 1].msg, had[k], messages[k + 1].content)
      BY <2>1 DEF Has
    <2>4. has[k + 1] = Apply(others[k + 1].msg, has[k], others[k + 1].content)
      BY <2>1 DEF Has
    <2> QED BY <2>1, <2>2, <2>3, <2>4 DEF Alike
  <1>3. Wrong \in SUBSET Nat
    OBVIOUS
  <1> HIDE DEF Wrong
  <1>4. Wrong = {}
    BY <1>1, <1>2, <1>3, NothingWrong
  <1> QED BY <1>4 DEF Wrong

LEMMA ReplayedIs ==
  ASSUME NEW messages, Len(messages) \in Nat
  PROVE  \E had : Has(messages, Len(messages), had) /\ Replayed(messages) = had[Len(messages)]
PROOF
  <1> DEFINE had == CHOOSE h : Has(messages, Len(messages), h)
  <1>1. Has(messages, Len(messages), had)
    BY HasExists
  <1>2. Replayed(messages) = had[Len(messages)]
    BY DEF Replayed, Has
  <1> QED BY <1>1, <1>2

LEMMA ReplayedNothing == Replayed(<<>>) = Blank
PROOF
  <1>1. Len(<<>>) = 0
    OBVIOUS
  <1>2. PICK had : Has(<<>>, 0, had) /\ Replayed(<<>>) = had[0]
    BY <1>1, ReplayedIs
  <1> QED BY <1>2 DEF Has

\* One message more is one more step of the worker.
LEMMA ReplayedGrows ==
  ASSUME NEW messages, NEW more, NEW n \in Nat, NEW p \in Nat, Len(messages) = n, p = n + 1,
         Len(more) = p, \A k \in 1..n : messages[k] = more[k]
  PROVE  Replayed(more) = Apply(more[p].msg, Replayed(messages), more[p].content)
PROOF
  <1>1. PICK had : Has(messages, n, had) /\ Replayed(messages) = had[n]
    BY ReplayedIs
  <1>2. PICK has : Has(more, p, has) /\ Replayed(more) = has[p]
    BY ReplayedIs
  <1>3. n <= p /\ n \in 0..n /\ p \in 0..p /\ p # 0 /\ p - 1 = n
    OBVIOUS
  <1>4. had[n] = has[n]
    <2>1. Alike(messages, more, n)
      BY DEF Alike
    <2> QED BY <1>1, <1>2, <1>3, <2>1, HasUnique
  <1>5. has[p] = Apply(more[p].msg, has[n], more[p].content)
    BY <1>2, <1>3 DEF Has
  <1> QED BY <1>1, <1>2, <1>3, <1>4, <1>5

\* One message more is one more step of the worker.
LEMMA ReplayedAppend ==
  ASSUME NEW S, NEW messages \in Seq(S), NEW m \in S
  PROVE  Replayed(Append(messages, m)) = Apply(m.msg, Replayed(messages), m.content)
PROOF
  <1>1. PICK n, p, more : n = Len(messages) /\ p = n + 1 /\ more = Append(messages, m)
    OBVIOUS
  <1>2. /\ n \in Nat /\ p \in Nat /\ Len(more) = p /\ more[p] = m
        /\ \A k \in 1..n : messages[k] = more[k]
    BY <1>1
  <1>3. Replayed(more) = Apply(more[p].msg, Replayed(messages), more[p].content)
    BY <1>1, <1>2, ReplayedGrows
  <1> QED BY <1>1, <1>2, <1>3

-----------------------------------------------------------------------------
(***************************************************************************)
(* The results of a batch, and the boxes with violations.                  *)
(***************************************************************************)

\* What a sending thread gets: each of its boxes once, after what is there.
Result == [box : Box, batch : Nat]

Lists(s, boxes, n) ==
  /\ s \in Seq(Result)
  /\ \A k \in 1..Len(s) : s[k].batch = n /\ s[k].box \in boxes
  /\ \A j, k \in 1..Len(s) : s[j].box = s[k].box => j = k
  /\ \A b \in boxes : \E k \in 1..Len(s) : s[k].box = b

LEMMA SequenceOfSet ==
  ASSUME NEW S, IsFiniteSet(S)
  PROVE  /\ SetToSeq(S) \in Seq(S) /\ Len(SetToSeq(S)) = Cardinality(S)
         /\ \A j, k \in 1..Cardinality(S) : SetToSeq(S)[j] = SetToSeq(S)[k] => j = k
         /\ \A x \in S : \E k \in 1..Cardinality(S) : SetToSeq(S)[k] = x
PROOF
  <1>1. PICK n : n = Cardinality(S)
    OBVIOUS
  <1>2. n \in Nat /\ ExistsBijection(1..n, S)
    BY <1>1, FS_CardinalityType
  <1>3. \E f \in [1..n -> S] : IsInjective(f)
    BY <1>2 DEF ExistsBijection, Bijection, Injection
  <1>4. PICK f : f = SetToSeq(S)
    OBVIOUS
  <1>5. f \in [1..n -> S] /\ IsInjective(f)
    BY <1>1, <1>3, <1>4 DEF SetToSeq
  <1>6. f \in Seq(S) /\ Len(f) = n
    BY <1>2, <1>5
  <1>7. \A j, k \in 1..n : f[j] = f[k] => j = k
    BY <1>5 DEF IsInjective
  <1>8. \A x \in S : \E k \in 1..n : f[k] = x
    <2>1. f \in Injection(1..n, S)
      BY <1>5 DEF Injection
    <2>2. Cardinality(1..n) = n
      BY <1>2, FS_Interval
    <2>3. f \in Surjection(1..n, S)
      BY <1>1, <2>1, <2>2, FS_Injection
    <2> QED BY <2>3 DEF Surjection
  <1> QED BY <1>1, <1>4, <1>6, <1>7, <1>8

LEMMA BoxesFinite ==
  ASSUME NEW boxes \in SUBSET Box
  PROVE  IsFiniteSet(boxes)
PROOF
  <1>1. IsFiniteSet(Box)
    BY LimitsAssumption, FS_Interval DEF Box
  <1> QED BY <1>1, FS_Subset

LEMMA GotIs ==
  ASSUME NEW boxes \in SUBSET Box, batches \in Nat
  PROVE  \E s : Lists(s, boxes, batches) /\ Got(boxes) = results \o s
PROOF
  <1> DEFINE S == {[box |-> b, batch |-> batches] : b \in boxes}
  <1>1. IsFiniteSet(S)
    <2>1. PICK f : f = [b \in boxes |-> [box |-> b, batch |-> batches]]
      OBVIOUS
    <2>2. f \in [boxes -> S] /\ \A t \in S : \E b \in boxes : f[b] = t
      BY <2>1
    <2>3. f \in Surjection(boxes, S)
      BY <2>2, Zenon DEF Surjection
    <2> QED BY <2>3, BoxesFinite, FS_Surjection
  <1>2. S \subseteq Result
    BY DEF Result
  <1>3. \A r \in S : r.batch = batches /\ r.box \in boxes /\ r = [box |-> r.box, batch |-> batches]
    OBVIOUS
  <1>4. \A b \in boxes : \E r \in S : r.box = b
    <2> TAKE b \in boxes
    <2>1. [box |-> b, batch |-> batches] \in S /\ [box |-> b, batch |-> batches].box = b
      OBVIOUS
    <2> QED BY <2>1
  <1>5. Got(boxes) = results \o SetToSeq(S)
    BY DEF Got
  <1> HIDE DEF S
  <1>6. PICK s, n : s = SetToSeq(S) /\ n = Cardinality(S)
    OBVIOUS
  <1>7. /\ s \in Seq(S) /\ Len(s) = n
        /\ \A j, k \in 1..n : s[j] = s[k] => j = k
        /\ \A x \in S : \E k \in 1..n : s[k] = x
    BY <1>1, <1>6, SequenceOfSet
  <1>8. s \in Seq(Result)
    BY <1>2, <1>7
  <1>9. \A k \in 1..n : s[k] \in S
    BY <1>7
  <1>10. \A j, k \in 1..n : s[j].box = s[k].box => j = k
    <2> TAKE j, k \in 1..n
    <2> HAVE s[j].box = s[k].box
    <2>1. s[j] = s[k]
      BY <1>3, <1>9
    <2> QED BY <1>7, <2>1
  <1>11. \A b \in boxes : \E k \in 1..n : s[k].box = b
    BY <1>4, <1>7
  <1>12. Lists(s, boxes, batches)
    BY <1>3, <1>7, <1>8, <1>9, <1>10, <1>11 DEF Lists
  <1> QED BY <1>5, <1>6, <1>12

\* The sending thread that a box of a batch is dealt to.
GroupOf(B, b) == Cardinality({c \in B : c < b}) % CloudSize

LEMMA GroupOfABox ==
  ASSUME NEW B \in SUBSET Box, NEW b
  PROVE  GroupOf(B, b) \in Group
PROOF
  <1>1. PICK n : n = Cardinality({c \in B : c < b})
    OBVIOUS
  <1>2. n \in Nat
    <2>1. IsFiniteSet({c \in B : c < b})
      BY BoxesFinite
    <2> QED BY <1>1, <2>1, FS_CardinalityType
  <1>3. n % CloudSize \in 0..(CloudSize - 1)
    BY <1>2, CloudAssumption
  <1> QED BY <1>1, <1>3 DEF GroupOf, Group

LEMMA BoxesAre ==
  ASSUME NEW b \in batch, NEW g
  PROVE  b \in BoxesOf(g) <=> GroupOf(batch, b) = g
BY DEF GroupOf, BoxesOf

JobRec == [state : {"none", "ask", "sent", "done"}, to : Node \cup {0}, tries : Nat]

Early == {"start", "join_pa", "pa1", "pa2", "rows", "emptied", "stuck", "pa3", "ta", "join", "send"}

TypeOK ==
  /\ main \in Early \cup {"route", "next", "done", "stopped"}
  /\ iter \in {0, 1, 2} /\ batches \in Nat /\ faults \in Nat
  /\ todo \subseteq Box /\ batch \subseteq Box
  /\ markers \subseteq Box /\ unclean \subseteq Box
  /\ job \in [Group -> JobRec] /\ results \in Seq(Result)
  /\ listed \subseteq Node

\* There are results of this batch only, one for a box, of sending threads that
\* are done.
Fits ==
  /\ \A k \in 1..Len(results) :
       /\ results[k].batch = batches /\ results[k].box \in batch
       /\ job[GroupOf(batch, results[k].box)].state = "done"
  /\ \A j, k \in 1..Len(results) : results[j].box = results[k].box => j = k

\* Between batches there are no boxes out, and no results.
Between ==
  /\ main \notin {"route", "stopped"} => results = <<>>
  /\ main \in Early \cup {"done"} => batch = {}
  /\ main = "done" => iter # 0

\* Without a failure a sending thread that is done has brought all its boxes.
Complete ==
  main = "route" /\ faults = 0 =>
    \A b \in batch : job[GroupOf(batch, b)].state = "done" => b \in Answered

\* Without a failure the boxes with violations are known, but for those that
\* the first iteration has still to route.
Unrouted == IF iter = 0 THEN todo \cup (IF main = "route" THEN batch ELSE {}) ELSE {}

Known == main # "stopped" /\ faults = 0 => unclean \subseteq markers \cup Unrouted

BatchInv == TypeOK /\ Fits /\ Between /\ Complete /\ Known

LEMMA InitBatch ==
  ASSUME Init
  PROVE  BatchInv
PROOF
  <1>1. NoJob \in JobRec
    BY DEF NoJob, JobRec
  <1>2. results = <<>> /\ results \in Seq(Result) /\ Len(results) = 0
    BY DEF Init
  <1>3. TypeOK
    <2>1. job \in [Group -> JobRec]
      BY <1>1 DEF Init
    <2>2. /\ main = "start" /\ iter = 0 /\ batches = 0 /\ faults = 0 /\ todo = Box /\ batch = {}
          /\ markers = {} /\ unclean = Box /\ listed = Worker
      BY DEF Init
    <2>3. listed \subseteq Node
      BY <2>2 DEF Node
    <2> HIDE DEF Box
    <2> QED BY <1>2, <2>1, <2>2, <2>3 DEF TypeOK, Early
  <1>4. Fits
    BY <1>2 DEF Fits
  <1>5. Between /\ Complete
    BY DEF Init, Between, Complete, Early
  <1>6. Known
    BY DEF Init, Known, Unrouted
  <1> QED BY <1>3, <1>4, <1>5, <1>6 DEF BatchInv

\* Steps that are about the design, the pool, or the workers.
Quiet ==
  /\ UNCHANGED <<iter, batches, todo, batch, results, markers, unclean>>
  /\ main' = main \/ (main \in Early /\ main' \in Early) \/ main' = "stopped"
  /\ faults' \in Nat /\ (faults' = 0 => faults = 0)
  /\ listed' \subseteq Node

LEMMA QuietBatch ==
  ASSUME BatchInv, Quiet, UNCHANGED job
  PROVE  BatchInv'
PROOF
  <1>1. TypeOK'
    BY DEF BatchInv, TypeOK, Quiet
  <1>2. Fits'
    BY DEF BatchInv, Fits, Quiet
  <1>3. Between'
    BY DEF BatchInv, Between, Quiet, Early
  <1>4. Complete'
    BY DEF BatchInv, Complete, Quiet, Answered, Early
  <1>5. Known'
    BY DEF BatchInv, Known, Unrouted, Quiet, Early
  <1> QED BY <1>1, <1>2, <1>3, <1>4, <1>5 DEF BatchInv

\* What a broadcast leaves of the workers' number and of the failures.
LEMMA BroadcastFaults ==
  ASSUME BatchInv, NEW m, NEW content, Broadcast(m, content)
  PROVE  faults' \in Nat /\ (faults' = 0 => faults = 0) /\ listed' \subseteq Node
PROOF
  <1>1. PICK failed \in SUBSET listed :
          faults' = faults + Cardinality({w \in failed : up[w]}) /\ listed' = listed \ failed
    BY DEF Broadcast
  <1>2. IsFiniteSet({w \in failed : up[w]})
    BY <1>1, WorkersAssumption, FS_Subset DEF BatchInv, TypeOK, Node
  <1>3. PICK n : n = Cardinality({w \in failed : up[w]})
    OBVIOUS
  <1>4. n \in Nat
    BY <1>2, <1>3, FS_CardinalityType
  <1> QED BY <1>1, <1>3, <1>4 DEF BatchInv, TypeOK

LEMMA PoolBatch ==
  ASSUME BatchInv, Pool
  PROVE  BatchInv'
PROOF
  <1>1. UNCHANGED <<main, iter, batches, todo, batch, results, markers, unclean, job>>
    BY DEF Pool, PoolSend, PoolSendUpdates, PoolClear, jobs, design
  <1>2. faults' \in Nat /\ (faults' = 0 => faults = 0) /\ listed' \subseteq Node
    <2>1. CASE PoolSend
      BY <2>1, BroadcastFaults DEF PoolSend
    <2>2. CASE PoolSendUpdates
      BY <2>2, BroadcastFaults DEF PoolSendUpdates
    <2>3. CASE PoolClear
      BY <2>3 DEF PoolClear, cloud, BatchInv, TypeOK
    <2> QED BY <2>1, <2>2, <2>3 DEF Pool
  <1>3. Quiet
    BY <1>1, <1>2 DEF Quiet
  <1> QED BY <1>1, <1>3, QuietBatch

\* What the main thread does outside the batches.
LEMMA EarlyBatch ==
  ASSUME BatchInv, MainStart \/ JoinPA \/ PASend \/ RowsJob \/ TA \/ BatchWrite
  PROVE  BatchInv'
PROOF
  <1>1. UNCHANGED <<iter, batches, todo, batch, results, markers, unclean, job>>
    BY DEF MainStart, JoinPA, PASend, RowsJob, RowsAnswered, RowsRefused, RowsWorkerEnds, RowsEmptied,
           TA, BatchWrite, Routing, jobs, design
  <1>2. (main \in Early /\ main' \in Early) \/ main' = main \/ main' = "stopped"
    BY DEF MainStart, JoinPA, PASend, RowsJob, RowsAnswered, RowsRefused, RowsWorkerEnds, RowsEmptied,
           TA, BatchWrite, Goes, Early
  <1>3. faults' \in Nat /\ (faults' = 0 => faults = 0) /\ listed' \subseteq Node
    <2>1. CASE PASend
      BY <2>1, BroadcastFaults DEF PASend
    <2>2. CASE MainStart \/ JoinPA \/ RowsJob \/ TA \/ BatchWrite
      BY <2>2 DEF MainStart, JoinPA, RowsJob, RowsAnswered, RowsRefused, RowsWorkerEnds, RowsEmptied,
                  TA, BatchWrite, cloud, BatchInv, TypeOK
    <2> QED BY <2>1, <2>2
  <1>4. Quiet
    BY <1>1, <1>2, <1>3 DEF Quiet
  <1> QED BY <1>1, <1>4, QuietBatch

LEMMA WorkersBatch ==
  ASSUME BatchInv, NEW w \in Node, AddWorker(w) \/ Die(w) \/ Restart(w) \/ RowsWaitEnds(w)
  PROVE  BatchInv'
PROOF
  <1>1. /\ UNCHANGED <<iter, batches, todo, batch, results, markers, unclean, job>>
        /\ main' = main \/ (main \in Early /\ main' \in Early) \/ main' = "stopped"
    BY DEF AddWorker, Die, Restart, RowsWaitEnds, Routing, leader, jobs, design, Early
  <1>2. faults' \in Nat /\ (faults' = 0 => faults = 0) /\ listed' \subseteq Node
    BY DEF AddWorker, Die, Restart, RowsWaitEnds, BatchInv, TypeOK, Node
  <1>3. Quiet
    BY <1>1, <1>2 DEF Quiet
  <1> QED BY <1>1, <1>3, QuietBatch

\* The boxes of the next batch are dealt out.
LEMMA SendBatch ==
  ASSUME BatchInv, BatchSend
  PROVE  BatchInv'
PROOF
  <1>1. /\ main = "send" /\ main' = "route" /\ batches' = batches + 1
        /\ UNCHANGED <<iter, results, markers, unclean>>
    BY DEF BatchSend, Goes, design
  <1>2. PICK last \in todo, skipped \in SUBSET Skippable :
          /\ todo' = {b \in todo : b > last}
          /\ batch' = {b \in todo : b <= last} \ skipped
    BY DEF BatchSend
  <1>3. job' = [g \in Group |-> [NoJob EXCEPT !.state = "ask"]]
    BY DEF BatchSend
  <1>4. \A g \in Group : job'[g] \in JobRec /\ job'[g].state = "ask"
    BY <1>3 DEF NoJob, JobRec
  <1>5. faults' \in Nat /\ (faults' = 0 => faults = 0) /\ listed' \subseteq Node
    <2>1. CASE UNCHANGED cloud
      BY <2>1 DEF cloud, BatchInv, TypeOK
    <2>2. CASE Broadcast("updates", file) \/ Broadcast("globals", <<>>)
      BY <2>2, BroadcastFaults
    <2> QED BY <2>1, <2>2 DEF BatchSend
  <1>6. results = <<>> /\ batch = {}
    BY <1>1 DEF BatchInv, Between, Early
  <1>7. batch' \subseteq Box
    BY <1>2 DEF BatchInv, TypeOK
  <1>8. TypeOK'
    <2>1. job' \in [Group -> JobRec]
      BY <1>3, <1>4
    <2> QED BY <1>1, <1>2, <1>5, <1>7, <2>1 DEF BatchInv, TypeOK
  <1>9. Fits'
    BY <1>1, <1>6 DEF Fits
  <1>10. Between'
    BY <1>1 DEF Between, Early
  <1>11. Complete'
    <2>1. ASSUME NEW b \in batch' PROVE job'[GroupOf(batch', b)].state # "done"
      <3>1. GroupOf(batch', b) \in Group
        BY <1>7, GroupOfABox DEF BatchInv, TypeOK
      <3> QED BY <1>4, <3>1
    <2> QED BY <2>1 DEF Complete
  <1>12. Known'
    <2> SUFFICES ASSUME faults' = 0, NEW u \in unclean' PROVE u \in markers' \cup Unrouted'
      BY DEF Known
    <2>1. u \in markers \cup (IF iter = 0 THEN todo ELSE {})
      BY <1>1, <1>5 DEF BatchInv, Known, Unrouted
    <2>2. CASE iter = 0
      <3>1. u \in todo => u \in todo' \cup batch'
        BY <1>2, <2>2 DEF Skippable, BatchInv, TypeOK, Box
      <3> QED BY <1>1, <2>1, <2>2, <3>1 DEF Unrouted
    <2>3. CASE iter # 0
      BY <1>1, <2>1, <2>3
    <2> QED BY <2>2, <2>3
  <1> QED BY <1>8, <1>9, <1>10, <1>11, <1>12 DEF BatchInv

\* A sending thread whose boxes did not come yet goes on, or has none.
LEMMA JobGoesOn ==
  ASSUME BatchInv, NEW g \in Group, NEW rec \in JobRec, job[g].state # "done",
         job' = [job EXCEPT ![g] = rec], rec.state = "done" => BoxesOf(g) = {},
         UNCHANGED <<main, iter, batches, todo, batch, results, markers, unclean, faults, listed>>
  PROVE  BatchInv'
PROOF
  <1>1. job' \in [Group -> JobRec]
    BY DEF BatchInv, TypeOK
  <1>2. \A h \in Group : h # g => job'[h] = job[h]
    BY DEF BatchInv, TypeOK
  <1>3. job'[g] = rec
    BY DEF BatchInv, TypeOK
  <1>4. TypeOK'
    BY <1>1 DEF BatchInv, TypeOK
  <1>5. Fits'
    <2>1. ASSUME NEW k \in 1..Len(results) PROVE job'[GroupOf(batch, results[k].box)].state = "done"
      <3>1. results[k].box \in batch /\ job[GroupOf(batch, results[k].box)].state = "done"
        BY DEF BatchInv, Fits
      <3>2. GroupOf(batch, results[k].box) \in Group
        BY <3>1, GroupOfABox DEF BatchInv, TypeOK
      <3> QED BY <1>2, <3>1, <3>2
    <2> QED BY <2>1 DEF BatchInv, Fits
  <1>6. Between'
    BY DEF BatchInv, Between
  <1>7. Complete'
    <2> SUFFICES ASSUME main = "route", faults = 0, NEW b \in batch, job'[GroupOf(batch, b)].state = "done"
                 PROVE  b \in Answered
      BY DEF Complete, Answered
    <2>1. GroupOf(batch, b) \in Group /\ (b \in BoxesOf(g) <=> GroupOf(batch, b) = g)
      BY GroupOfABox, BoxesAre DEF BatchInv, TypeOK
    <2>2. GroupOf(batch, b) # g
      BY <1>3, <2>1
    <2> QED BY <1>2, <2>1, <2>2 DEF BatchInv, Complete
  <1>8. Known'
    BY DEF BatchInv, Known, Unrouted
  <1> QED BY <1>4, <1>5, <1>6, <1>7, <1>8 DEF BatchInv

LEMMA AskBatch ==
  ASSUME BatchInv, NEW g \in Group, Ask(g)
  PROVE  BatchInv'
PROOF
  <1>1. /\ job[g].state = "ask" /\ job \in [Group -> JobRec] /\ job[g] \in JobRec
        /\ UNCHANGED <<iter, batches, todo, batch, results, markers, unclean, faults, listed>>
    BY DEF Ask, design, cloud, BatchInv, TypeOK
  <1>2. CASE BoxesOf(g) = {} /\ job' = [job EXCEPT ![g].state = "done"] /\ UNCHANGED main
    <2>1. PICK rec : rec = [job[g] EXCEPT !.state = "done"]
      OBVIOUS
    <2>2. rec \in JobRec /\ job' = [job EXCEPT ![g] = rec]
      BY <1>1, <1>2, <2>1 DEF JobRec
    <2> QED BY <1>1, <1>2, <2>2, JobGoesOn
  <1>3. ASSUME NEW w \in listed, job' = [job EXCEPT ![g].state = "sent", ![g].to = w],
               UNCHANGED main
        PROVE  BatchInv'
    <2>1. PICK rec : rec = [job[g] EXCEPT !.state = "sent", !.to = w]
      OBVIOUS
    <2>2. rec \in JobRec /\ rec.state = "sent" /\ job' = [job EXCEPT ![g] = rec]
      BY <1>1, <1>3, <2>1 DEF JobRec, BatchInv, TypeOK
    <2> QED BY <1>1, <1>3, <2>2, JobGoesOn
  <1>4. CASE main' = "stopped" /\ UNCHANGED job
    <2>1. Quiet
      BY <1>1, <1>4 DEF Quiet, BatchInv, TypeOK
    <2> QED BY <1>4, <2>1, QuietBatch
  <1> QED BY <1>2, <1>3, <1>4 DEF Ask

LEMMA BreaksBatch ==
  ASSUME BatchInv, NEW g \in Group, AnswerBreaks(g) \/ NoAnswer(g)
  PROVE  BatchInv'
PROOF
  <1>1. /\ job[g].state = "sent" /\ job \in [Group -> JobRec] /\ job[g] \in JobRec
        /\ UNCHANGED <<iter, batches, todo, batch, results, markers, unclean, faults, listed>>
    BY DEF AnswerBreaks, NoAnswer, jobs, design, cloud, BatchInv, TypeOK
  <1>2. CASE job' = [job EXCEPT ![g].tries = @ + 1] /\ UNCHANGED main
    <2>1. PICK rec : rec = [job[g] EXCEPT !.tries = @ + 1]
      OBVIOUS
    <2>2. rec \in JobRec /\ rec.state = "sent" /\ job' = [job EXCEPT ![g] = rec]
      BY <1>1, <1>2, <2>1 DEF JobRec
    <2> QED BY <1>1, <1>2, <2>2, JobGoesOn
  <1>3. CASE main' = "stopped" /\ UNCHANGED job
    <2>1. Quiet
      BY <1>1, <1>3 DEF Quiet, BatchInv, TypeOK
    <2> QED BY <1>3, <2>1, QuietBatch
  <1> QED BY <1>2, <1>3 DEF AnswerBreaks, NoAnswer, jobs

\* The results of a sending thread are added to those of the others, which are
\* of other boxes.
LEMMA AddedFits ==
  ASSUME BatchInv, NEW g \in Group, job[g].state = "sent", NEW part \in SUBSET BoxesOf(g),
         NEW s, Lists(s, part, batches), results' = results \o s,
         job' = [job EXCEPT ![g].state = "done"], UNCHANGED <<batches, batch>>
  PROVE  /\ job' \in [Group -> JobRec] /\ results' \in Seq(Result) /\ Fits'
         /\ Answered' = Answered \cup part
         /\ \A h \in Group : h # g => job'[h] = job[h]
         /\ job'[g].state = "done"
PROOF
  <1>1. job \in [Group -> JobRec] /\ results \in Seq(Result) /\ batch \subseteq Box
    BY DEF BatchInv, TypeOK
  <1>2. /\ job' \in [Group -> JobRec] /\ job'[g].state = "done"
        /\ \A h \in Group : h # g => job'[h] = job[h]
    BY <1>1 DEF JobRec
  <1>3. PICK n, m : n = Len(results) /\ m = Len(s)
    OBVIOUS
  <1>4. /\ n \in Nat /\ m \in Nat /\ results' \in Seq(Result) /\ Len(results') = n + m
        /\ \A k \in 1..n : results'[k] = results[k]
        /\ \A k \in 1..m : results'[n + k] = s[k]
    BY <1>1, <1>3 DEF Lists
  <1>5. ASSUME NEW k \in 1..n
        PROVE  /\ results[k].batch = batches /\ results[k].box \in batch
               /\ GroupOf(batch, results[k].box) \in Group \ {g}
               /\ job[GroupOf(batch, results[k].box)].state = "done"
    <2>1. /\ results[k].batch = batches /\ results[k].box \in batch
          /\ job[GroupOf(batch, results[k].box)].state = "done"
      BY <1>3 DEF BatchInv, Fits
    <2>2. GroupOf(batch, results[k].box) \in Group
      BY <1>1, <2>1, GroupOfABox
    <2> QED BY <2>1, <2>2
  <1>6. ASSUME NEW k \in 1..m
        PROVE  s[k].batch = batches /\ s[k].box \in batch /\ GroupOf(batch, s[k].box) = g
    <2>1. s[k].batch = batches /\ s[k].box \in BoxesOf(g)
      BY <1>3 DEF Lists
    <2>2. s[k].box \in batch
      BY <2>1 DEF BoxesOf
    <2> QED BY <2>1, <2>2, BoxesAre
  <1>7. \A k \in 1..(n + m) : k \in 1..n \/ (k - n \in 1..m /\ results'[k] = s[k - n])
    <2> TAKE k \in 1..(n + m)
    <2>1. CASE k \in 1..n
      BY <2>1
    <2>2. CASE k \notin 1..n
      <3>1. k - n \in 1..m /\ n + (k - n) = k
        BY <1>4, <2>2
      <3> QED BY <1>4, <3>1
    <2> QED BY <2>1, <2>2
  <1>8. ASSUME NEW k \in 1..(n + m)
        PROVE  /\ results'[k].batch = batches /\ results'[k].box \in batch
               /\ GroupOf(batch, results'[k].box) \in Group
               /\ job'[GroupOf(batch, results'[k].box)].state = "done"
    <2>1. CASE k \in 1..n
      BY <1>2, <1>4, <1>5, <2>1
    <2>2. CASE k - n \in 1..m /\ results'[k] = s[k - n]
      BY <1>2, <1>6, <2>2
    <2> QED BY <1>7, <2>1, <2>2
  <1>9. ASSUME NEW j \in 1..(n + m), NEW k \in 1..(n + m), results'[j].box = results'[k].box
        PROVE  j = k
    <2>1. CASE j \in 1..n /\ k \in 1..n
      BY <1>3, <1>4, <1>9, <2>1 DEF BatchInv, Fits
    <2>2. CASE /\ j - n \in 1..m /\ results'[j] = s[j - n]
               /\ k - n \in 1..m /\ results'[k] = s[k - n]
      <3>1. j - n = k - n
        BY <1>3, <1>9, <2>2 DEF Lists
      <3> QED BY <1>4, <3>1
    <2>3. ASSUME NEW i \in 1..n, NEW l \in 1..m, results[i].box = s[l].box
          PROVE  FALSE
      <3>1. GroupOf(batch, results[i].box) # g
        BY <1>5
      <3>2. GroupOf(batch, s[l].box) = g
        BY <1>6
      <3> QED BY <2>3, <3>1, <3>2
    <2> QED BY <1>4, <1>7, <1>9, <2>1, <2>2, <2>3
  <1>10. Fits'
    <2>1. \A k \in 1..Len(results') :
            /\ results'[k].batch = batches' /\ results'[k].box \in batch'
            /\ job'[GroupOf(batch', results'[k].box)].state = "done"
      BY <1>4, <1>8
    <2>2. \A j, k \in 1..Len(results') : results'[j].box = results'[k].box => j = k
      BY <1>4, <1>9
    <2> QED BY <2>1, <2>2, Zenon DEF Fits
  <1>11. Answered' = Answered \cup part
    <2>1. ASSUME NEW b PROVE b \in Answered' <=> b \in Answered \cup part
      <3>1. ASSUME b \in Answered' PROVE b \in Answered \cup part
        <4>1. PICK k \in 1..(n + m) : b = results'[k].box
          BY <1>4, <3>1 DEF Answered
        <4>2. CASE k \in 1..n
          BY <1>3, <1>4, <4>1, <4>2 DEF Answered
        <4>3. CASE k - n \in 1..m /\ results'[k] = s[k - n]
          BY <1>3, <4>1, <4>3 DEF Lists
        <4> QED BY <1>7, <4>2, <4>3
      <3>2. ASSUME b \in Answered PROVE b \in Answered'
        <4>1. PICK k \in 1..n : b = results[k].box
          BY <1>3, <3>2 DEF Answered
        <4>2. k \in 1..Len(results') /\ b = results'[k].box
          BY <1>4, <4>1
        <4> QED BY <4>2 DEF Answered
      <3>3. ASSUME b \in part PROVE b \in Answered'
        <4>1. PICK k \in 1..m : b = s[k].box
          BY <1>3, <3>3 DEF Lists
        <4>2. n + k \in 1..Len(results') /\ b = results'[n + k].box
          BY <1>4, <4>1
        <4> QED BY <4>2 DEF Answered
      <3> QED BY <3>1, <3>2, <3>3
    <2> QED BY <2>1
  <1> QED BY <1>2, <1>4, <1>10, <1>11

LEMMA AnswerBatch ==
  ASSUME BatchInv, NEW g \in Group, Answer(g)
  PROVE  BatchInv'
PROOF
  <1>1. /\ main = "route" /\ job[g].state = "sent" /\ job' = [job EXCEPT ![g].state = "done"]
        /\ UNCHANGED <<main, iter, batches, todo, batch, markers, unclean, listed>>
    BY DEF Answer, leader, design
  <1>2. PICK part \in SUBSET BoxesOf(g) :
          /\ results' = Got(part) /\ faults' \in Nat
          /\ faults' = 0 => faults = 0 /\ part = BoxesOf(g)
    <2>1. faults \in Nat
      BY DEF BatchInv, TypeOK
    <2>2. CASE results' = Got(BoxesOf(g)) /\ UNCHANGED faults
      BY <2>1, <2>2
    <2>3. CASE faults' = faults + 1 /\ \E part \in SUBSET BoxesOf(g) : results' = Got(part)
      BY <2>1, <2>3
    <2> QED BY <2>2, <2>3 DEF Answer
  <1>3. part \in SUBSET Box /\ batches \in Nat
    BY DEF BoxesOf, BatchInv, TypeOK
  <1>4. PICK s : Lists(s, part, batches) /\ results' = results \o s
    BY <1>2, <1>3, GotIs
  <1>5. /\ job' \in [Group -> JobRec] /\ results' \in Seq(Result) /\ Fits'
        /\ Answered' = Answered \cup part
        /\ \A h \in Group : h # g => job'[h] = job[h]
    BY <1>1, <1>4, AddedFits
  <1>6. TypeOK'
    BY <1>1, <1>2, <1>5 DEF BatchInv, TypeOK
  <1>7. Between'
    BY <1>1 DEF Between, Early
  <1>8. Complete'
    <2> SUFFICES ASSUME faults' = 0, NEW b \in batch, job'[GroupOf(batch, b)].state = "done"
                 PROVE  b \in Answered'
      BY <1>1 DEF Complete
    <2>1. GroupOf(batch, b) \in Group /\ (b \in BoxesOf(g) <=> GroupOf(batch, b) = g)
      BY GroupOfABox, BoxesAre DEF BatchInv, TypeOK
    <2>2. CASE GroupOf(batch, b) = g
      BY <1>2, <1>5, <2>1, <2>2
    <2>3. CASE GroupOf(batch, b) # g
      BY <1>1, <1>2, <1>5, <2>1, <2>3 DEF BatchInv, Complete
    <2> QED BY <2>2, <2>3
  <1>9. Known'
    BY <1>1, <1>2 DEF BatchInv, Known, Unrouted
  <1> QED BY <1>5, <1>6, <1>7, <1>8, <1>9 DEF BatchInv

\* Where all sending threads are done and nothing failed, every box of the batch
\* is there to be written back.
LEMMA MergeBatch ==
  ASSUME BatchInv, Merge
  PROVE  BatchInv'
PROOF
  <1>1. /\ main = "route" /\ main' = "next" /\ \A g \in Group : job[g].state = "done"
        /\ results' = <<>> /\ job' = [g \in Group |-> NoJob]
        /\ UNCHANGED <<iter, batches, todo, batch, faults, listed>>
    BY DEF Merge, Goes, cloud
  <1>2. PICK worse \in SUBSET (IF iter = 0 THEN {} ELSE batch \cap Answered) :
          \E bad \in SUBSET ((batch \ worse) \cap Answered) :
             /\ markers' = (markers \ (batch \ worse)) \cup bad
             /\ unclean' = (unclean \ ((batch \ worse) \cap Answered)) \cup bad
    BY Zenon DEF Merge
  <1>3. PICK bad \in SUBSET ((batch \ worse) \cap Answered) :
             /\ markers' = (markers \ (batch \ worse)) \cup bad
             /\ unclean' = (unclean \ ((batch \ worse) \cap Answered)) \cup bad
    BY <1>2
  <1>4. results' \in Seq(Result) /\ Len(results') = 0
    BY <1>1
  <1>5. job' \in [Group -> JobRec]
    BY <1>1 DEF NoJob, JobRec
  <1>6. TypeOK'
    BY <1>1, <1>3, <1>4, <1>5 DEF BatchInv, TypeOK
  <1>7. Fits'
    BY <1>4 DEF Fits
  <1>8. Between' /\ Complete'
    BY <1>1 DEF Between, Complete, Early
  <1>9. Known'
    <2> SUFFICES ASSUME faults = 0, NEW u \in unclean' PROVE u \in markers' \cup Unrouted'
      BY <1>1 DEF Known
    <2>1. batch \subseteq Answered
      BY <1>1, GroupOfABox DEF BatchInv, TypeOK, Complete
    <2>2. unclean \subseteq markers \cup (IF iter = 0 THEN todo \cup batch ELSE {})
      BY <1>1 DEF BatchInv, Known, Unrouted
    <2>3. CASE iter = 0
      <3>1. worse = {}
        BY <2>3
      <3>2. u \in bad \/ u \in unclean \ batch
        BY <1>3, <2>1, <3>1
      <3>3. u \in markers' \cup todo
        BY <1>3, <2>2, <2>3, <3>1, <3>2
      <3> QED BY <1>1, <2>3, <3>3 DEF Unrouted
    <2>4. CASE iter # 0
      BY <1>3, <2>1, <2>2, <2>4
    <2> QED BY <2>3, <2>4
  <1> QED BY <1>6, <1>7, <1>8, <1>9 DEF BatchInv

LEMMA StubbornBatch ==
  ASSUME BatchInv, StubbornTiles
  PROVE  BatchInv'
PROOF
  <1>1. /\ main = "join" /\ main' = "next" /\ iter = 2 /\ todo' = {} /\ batches' = batches + 1
        /\ UNCHANGED <<iter, batch, job, results, faults, listed>>
    BY DEF StubbornTiles, Goes, jobs, cloud
  <1>2. PICK bad \in SUBSET markers : markers' = bad /\ unclean' = (unclean \ markers) \cup bad
    BY DEF StubbornTiles
  <1>3. results = <<>> /\ Len(results) = 0
    BY <1>1 DEF BatchInv, Between, Early
  <1>4. TypeOK'
    BY <1>1, <1>2 DEF BatchInv, TypeOK
  <1>5. Fits'
    BY <1>1, <1>3 DEF Fits
  <1>6. Between' /\ Complete'
    BY <1>1, <1>3 DEF Between, Complete, Early
  <1>7. Known'
    BY <1>1, <1>2 DEF BatchInv, Known, Unrouted
  <1> QED BY <1>4, <1>5, <1>6, <1>7 DEF BatchInv

LEMMA NextBatchBatch ==
  ASSUME BatchInv, NextBatch
  PROVE  BatchInv'
PROOF
  <1>1. /\ main = "next" /\ batch' = {}
        /\ UNCHANGED <<batches, job, results, markers, unclean, faults, listed>>
    BY DEF NextBatch, jobs, design, cloud
  <1>2. results = <<>> /\ Len(results) = 0
    BY <1>1 DEF BatchInv, Between, Early
  <1>3. \/ main' = "join" /\ UNCHANGED <<iter, todo>>
        \/ /\ main' \in {"stopped", "done", "join"} /\ iter' \in {1, 2} /\ todo' = Box
           /\ main' = "stopped" \/ iter # 0 \/ unclean \subseteq markers
    BY DEF NextBatch, BatchInv, TypeOK
  <1>4. TypeOK'
    BY <1>1, <1>3 DEF BatchInv, TypeOK, Early
  <1>5. Fits'
    BY <1>1, <1>2 DEF Fits
  <1>6. Between' /\ Complete'
    BY <1>1, <1>2, <1>3 DEF Between, Complete, Early
  <1>7. Known'
    <2>1. faults = 0 => unclean \subseteq markers \cup (IF iter = 0 THEN todo ELSE {})
      BY <1>1 DEF BatchInv, Known, Unrouted
    <2> QED BY <1>1, <1>3, <2>1 DEF Known, Unrouted, BatchInv, TypeOK
  <1> QED BY <1>4, <1>5, <1>6, <1>7 DEF BatchInv

LEMMA BatchInvHolds == Spec => []BatchInv
PROOF
  <1>1. Init => BatchInv
    BY InitBatch
  <1>2. BatchInv /\ [Next]_vars => BatchInv'
    <2> SUFFICES ASSUME BatchInv, [Next]_vars PROVE BatchInv'
      OBVIOUS
    <2>1. CASE Main
      BY <2>1, EarlyBatch, SendBatch, MergeBatch, StubbornBatch, NextBatchBatch DEF Main
    <2>2. CASE Pool
      BY <2>2, PoolBatch
    <2>3. ASSUME NEW g \in Group, Job(g) PROVE BatchInv'
      BY <2>3, AskBatch, AnswerBatch, BreaksBatch DEF Job
    <2>4. ASSUME NEW w \in Node, AddWorker(w) \/ Die(w) \/ Restart(w) \/ RowsWaitEnds(w)
          PROVE  BatchInv'
      BY <2>4, WorkersBatch
    <2>5. CASE UNCHANGED vars
      <3>1. Quiet /\ UNCHANGED job
        BY <2>5 DEF vars, leader, jobs, design, cloud, Quiet, BatchInv, TypeOK
      <3> QED BY <3>1, QuietBatch
    <2> QED BY <2>1, <2>2, <2>3, <2>4, <2>5 DEF Next
  <1> QED BY <1>1, <1>2, PTL DEF Spec

\* FlexDR merges, after each batch, results of this batch only and one for a
\* box, though connections break in the middle of an answer and all is asked
\* for again.
THEOREM ResultsAreTheBatchs == Spec => []ResultsFitBatch
PROOF
  <1>1. BatchInv => ResultsFitBatch
    <2> SUFFICES ASSUME BatchInv PROVE Cardinality(Answered) = Len(results)
      BY DEF ResultsFitBatch, BatchInv, Fits
    <2>1. PICK n : n = Len(results)
      OBVIOUS
    <2>2. n \in Nat
      BY <2>1 DEF BatchInv, TypeOK
    <2>3. PICK f : f = [k \in 1..n |-> results[k].box]
      OBVIOUS
    <2>4. f \in [1..n -> Answered] /\ \A b \in Answered : \E k \in 1..n : f[k] = b
      BY <2>1, <2>3 DEF Answered
    <2>5. \A j, k \in 1..n : f[j] = f[k] => j = k
      BY <2>1, <2>3 DEF BatchInv, Fits
    <2>6. f \in Bijection(1..n, Answered)
      BY <2>4, <2>5, Zenon DEF Bijection, Injection, Surjection, IsInjective
    <2>7. ExistsBijection(1..n, Answered)
      BY <2>6 DEF ExistsBijection
    <2> QED BY <2>1, <2>2, <2>7, FS_CountingElements
  <1> QED BY <1>1, BatchInvHolds, PTL

\* A leader that ends without markers, and whose workers did not fail, has left
\* no violation.
THEOREM NothingIsForgotten == Spec => []NoViolationForgotten
PROOF
  <1>1. BatchInv => NoViolationForgotten
    BY DEF BatchInv, Known, Unrouted, Between, NoViolationForgotten
  <1> QED BY <1>1, BatchInvHolds, PTL

-----------------------------------------------------------------------------
(***************************************************************************)
(* The design of the workers: the leader's design is what has been         *)
(* broadcast and what is still to be sent, and a worker has nothing or all *)
(* that has been broadcast.                                                *)
(***************************************************************************)

Change ==
  {"design", "init_pa", "guides", "pa1", "pa2", "pa3", "ta"} \cup {ToString(n) : n \in Nat}
Name == {"design", "init_pa", "guides", "pa1", "pa2", "pa3", "updates", "globals"}
Copy == [log : Seq(Change), via : BOOLEAN]
Message == [msg : Name, content : Seq(Change)]

\* What a worker has that got all broadcasts.
Ideal == Replayed(broadcasts)

Typed ==
  /\ made \in Seq(Change) /\ unsent \in Seq(Change) /\ file \in Seq(Change)
  /\ broadcasts \in Seq(Message)
  /\ copy \in [Node -> Copy]
  /\ Ideal \in Copy

Copies ==
  /\ \A w \in listed : copy[w].log = <<>> \/ copy[w] = Ideal
  /\ broadcasts = <<>> => \A w \in listed : copy[w] = Blank

\* A worker that has a job was listed, and nobody is removed while boxes are routed.
Asked == main = "route" => \A g \in Group : job[g].state = "sent" => job[g].to \in listed

\* What the leader's design has that is not broadcast yet, for each state of
\* the pool.
FirstDesign ==
  /\ main = "join_pa" /\ pool = <<"design", "init_pa">>
  /\ broadcasts = <<>> /\ made = <<"design", "init_pa">>
FirstPA ==
  /\ main = "join_pa" /\ (pool = <<"clear", "init_pa">> \/ pool = <<"init_pa">>)
  /\ made = Append(Ideal.log, "init_pa")
Guides == main = "ta" /\ pool = <<"guides">> /\ made = Append(Ideal.log, "guides")
GuidesTA ==
  main = "join" /\ pool = <<"guides", "updates">> /\ made = Append(Ideal.log, "guides") \o unsent
SendsTA == main = "join" /\ pool = <<"updates">> /\ made = Ideal.log \o unsent
SentTA == main = "join" /\ pool = <<"clear">> /\ made = Ideal.log
Settled == pool = <<>> /\ made = Ideal.log \o unsent

Phase ==
  \/ FirstDesign \/ FirstPA \/ Guides \/ GuidesTA \/ SendsTA \/ SentTA \/ Settled

Before == {"start", "join_pa", "pa1", "pa2", "rows", "emptied", "stuck", "pa3", "ta"}

\* How far the leader is: no changes are there to be sent before track
\* assignment; the via data are sent before boxes are routed.
Position ==
  /\ main = "start" => pool = <<>> /\ broadcasts = <<>> /\ made = <<>>
  /\ main \in Before => version = 0 /\ unsent = <<>> /\ iter = 0
  /\ main \in {"join", "send"} /\ ~Ideal.via => version = 0 /\ (pool = <<>> => unsent = <<>>)
  /\ main \in {"route", "next"} => Ideal.via
  /\ main = "route" => unsent = <<>>
  /\ iter # 0 => Ideal.via /\ pool = <<>>
  /\ main = "send" /\ unsent # <<>> => file = unsent

DesignInv == Typed /\ Copies /\ Asked /\ Phase /\ Position /\ JobsOnLeadersDesign

\* Lists of tasks, and of changes.
LEMMA TasksAre ==
  ASSUME NEW a, NEW b
  PROVE  /\ Head(<<a, b>>) = a /\ Tail(<<a, b>>) = <<b>>
         /\ Head(<<a>>) = a /\ Tail(<<a>>) = <<>>
         /\ <<a>> \o <<b>> = <<a, b>> /\ <<a>> \o <<>> = <<a>>
         /\ <<>> \o <<a>> = <<a>> /\ <<>> \o <<>> = <<>>
         /\ Append(<<a>>, b) = <<a, b>> /\ Append(<<>>, a) = <<a>>
         /\ <<a, b>> # <<>> /\ <<a>> # <<>>
PROOF
  <1>1. Head(<<a, b>>) = a /\ Head(<<a>>) = a
    OBVIOUS
  <1>2. Tail(<<a>>) = <<>>
    OBVIOUS
  <1>3. Tail(<<a, b>>) = <<b>>
    OBVIOUS
  <1>4. <<a>> \o <<>> = <<a>> /\ <<>> \o <<a>> = <<a>> /\ <<>> \o <<>> = <<>>
    <2>1. <<a>> \in Seq({a}) /\ <<>> \in Seq({a})
      OBVIOUS
    <2> QED BY <2>1, ConcatEmptySeq
  <1> DEFINE S == {a, b}
  <1>5. <<a>> \in Seq(S) /\ <<b>> \in Seq(S) /\ <<a, b>> \in Seq(S) /\ <<>> \in Seq(S)
    OBVIOUS
  <1>6. Len(<<a, b>>) = 2 /\ Len(<<a>>) = 1 /\ Len(<<b>>) = 1 /\ Len(<<>>) = 0
    OBVIOUS
  <1>8. <<a>> \o <<b>> = <<a, b>>
    <2>1. <<a>> \o <<b>> \in Seq(S) /\ Len(<<a>> \o <<b>>) = 2
      BY <1>5, <1>6, ConcatProperties
    <2>2. \A i \in 1..2 : (<<a>> \o <<b>>)[i] = <<a, b>>[i]
      BY <1>5, <1>6
    <2> QED BY <1>5, <1>6, <2>1, <2>2, SeqEqual
  <1>9. Append(<<a>>, b) = <<a, b>>
    <2>1. Append(<<a>>, b) \in Seq(S) /\ Len(Append(<<a>>, b)) = 2
      BY <1>5, <1>6
    <2>2. \A i \in 1..2 : Append(<<a>>, b)[i] = <<a, b>>[i]
      BY <1>5, <1>6
    <2> QED BY <1>5, <1>6, <2>1, <2>2, SeqEqual
  <1>10. Append(<<>>, a) = <<a>>
    <2>1. Append(<<>>, a) \in Seq(S) /\ Len(Append(<<>>, a)) = 1
      BY <1>5, <1>6
    <2>2. \A i \in 1..1 : Append(<<>>, a)[i] = <<a>>[i]
      BY <1>5, <1>6
    <2> QED BY <1>5, <1>6, <2>1, <2>2, SeqEqual
  <1>7. <<a, b>> # <<>> /\ <<a>> # <<>>
    OBVIOUS
  <1> QED BY <1>1, <1>2, <1>3, <1>4, <1>7, <1>8, <1>9, <1>10

LEMMA ChangesAre ==
  ASSUME NEW s \in Seq(Change), NEW t \in Seq(Change), NEW e \in Change
  PROVE  /\ Append(s, e) \in Seq(Change) /\ Append(s, e) # <<>>
         /\ s \o t \in Seq(Change) /\ s \o <<>> = s /\ <<>> \o s = s
         /\ s \o <<e>> = Append(s, e)
PROOF
  <1>1. Append(s, e) \in Seq(Change) /\ Append(s, e) # <<>>
    OBVIOUS
  <1>2. s \o t \in Seq(Change) /\ s \o <<>> = s /\ <<>> \o s = s
    BY ConcatProperties, ConcatEmptySeq
  <1>3. \A u \in Seq(Change) : u \o <<e>> = Append(u, e)
    <2> SUFFICES ASSUME NEW u \in Seq(Change) PROVE u \o <<e>> = Append(u, e)
      OBVIOUS
    <2>1. <<e>> \in Seq(Change) /\ Len(<<e>>) = 1 /\ <<e>>[1] = e
      OBVIOUS
    <2>2. /\ u \o <<e>> \in Seq(Change) /\ Len(u \o <<e>>) = Len(u) + 1
          /\ \A i \in 1..(Len(u) + 1) :
               (u \o <<e>>)[i] = IF i <= Len(u) THEN u[i] ELSE <<e>>[i - Len(u)]
      BY <2>1, ConcatProperties
    <2>3. /\ Append(u, e) \in Seq(Change) /\ Len(Append(u, e)) = Len(u) + 1
          /\ \A i \in 1..(Len(u) + 1) : Append(u, e)[i] = IF i <= Len(u) THEN u[i] ELSE e
      OBVIOUS
    <2>4. \A i \in 1..(Len(u) + 1) : (u \o <<e>>)[i] = Append(u, e)[i]
      BY <2>1, <2>2, <2>3
    <2> QED BY <2>2, <2>3, <2>4, SeqEqual
  <1> QED BY <1>1, <1>2, <1>3

LEMMA AppendLast ==
  ASSUME NEW s \in Seq(Change), NEW t \in Seq(Change), NEW e \in Change
  PROVE  Append(s \o t, e) = s \o Append(t, e)
PROOF
  <1>1. s \o t \in Seq(Change) /\ <<e>> \in Seq(Change)
    BY ConcatProperties
  <1>2. (s \o t) \o <<e>> = s \o (t \o <<e>>)
    BY <1>1, ConcatAssociative
  <1>3. (s \o t) \o <<e>> = Append(s \o t, e)
    BY <1>1, ChangesAre
  <1>4. t \o <<e>> = Append(t, e)
    BY ChangesAre
  <1> QED BY <1>2, <1>3, <1>4

\* What a message brings.
LEMMA ApplyIs ==
  ASSUME NEW m \in Name, NEW c \in Copy, NEW content \in Seq(Change)
  PROVE  /\ Apply(m, c, content) \in Copy
         /\ m = "design" => Apply(m, c, content) = [log |-> <<"design">>, via |-> c.via]
         /\ m = "updates" => Apply(m, c, content) = [log |-> c.log \o content, via |-> c.via]
         /\ m = "globals" => Apply(m, c, content) = [log |-> c.log, via |-> TRUE]
         /\ m \notin {"design", "updates", "globals"} =>
              Apply(m, c, content) = [log |-> Append(c.log, m), via |-> c.via]
PROOF
  <1> DEFINE a == Apply(m, c, content)
  <1>1. c = [log |-> c.log, via |-> c.via] /\ c.log \in Seq(Change) /\ c.via \in BOOLEAN
    BY DEF Copy
  <1>2. CASE m = "design"
    <2>1. a = [log |-> <<"design">>, via |-> c.via]
      BY <1>1, <1>2 DEF Apply
    <2>2. <<"design">> \in Seq(Change)
      BY DEF Change
    <2>3. a \in Copy
      BY <1>1, <2>1, <2>2 DEF Copy
    <2> QED BY <1>2, <2>1, <2>3
  <1>3. CASE m = "updates"
    <2>1. a = [log |-> c.log \o content, via |-> c.via]
      BY <1>1, <1>3 DEF Apply
    <2>2. c.log \o content \in Seq(Change)
      BY <1>1, ConcatProperties
    <2>3. a \in Copy
      BY <1>1, <2>1, <2>2 DEF Copy
    <2> QED BY <1>3, <2>1, <2>3
  <1>4. CASE m = "globals"
    <2>1. a = [log |-> c.log, via |-> TRUE]
      BY <1>1, <1>4 DEF Apply
    <2>2. a \in Copy
      BY <1>1, <2>1 DEF Copy
    <2> QED BY <1>4, <2>1, <2>2
  <1>5. CASE m \notin {"design", "updates", "globals"}
    <2>1. a = [log |-> Append(c.log, m), via |-> c.via]
      BY <1>1, <1>5 DEF Apply
    <2>2. Append(c.log, m) \in Seq(Change)
      BY <1>1, <1>5 DEF Name, Change
    <2>3. a \in Copy
      BY <1>1, <2>1, <2>2 DEF Copy
    <2> QED BY <1>5, <2>1, <2>3
  <1> QED BY <1>2, <1>3, <1>4, <1>5

\* A broadcast: a worker that had all has all again, as nobody that does not
\* take it stays.
LEMMA BroadcastIdeal ==
  ASSUME Typed, Copies, listed \subseteq Node, NEW m \in Name, NEW content \in Seq(Change),
         Broadcast(m, content), m = "design" => broadcasts = <<>>
  PROVE  /\ Ideal' = Apply(m, Ideal, content) /\ Ideal' \in Copy
         /\ broadcasts' \in Seq(Message) /\ broadcasts' # <<>>
         /\ copy' \in [Node -> Copy]
         /\ Copies'
PROOF
  <1>1. PICK new : new = [msg |-> m, content |-> content]
    OBVIOUS
  <1>2. new \in Message /\ new.msg = m /\ new.content = content
    BY <1>1 DEF Message
  <1>3. broadcasts' = Append(broadcasts, new) /\ broadcasts \in Seq(Message)
    BY <1>1 DEF Broadcast, Typed
  <1>4. broadcasts' \in Seq(Message) /\ broadcasts' # <<>>
    BY <1>2, <1>3
  <1>5. Ideal' = Apply(m, Ideal, content)
    <2>1. Replayed(Append(broadcasts, new)) = Apply(new.msg, Replayed(broadcasts), new.content)
      BY <1>2, <1>3, ReplayedAppend
    <2> QED BY <1>2, <1>3, <2>1 DEF Ideal
  <1>6. Ideal' \in Copy
    BY <1>5, ApplyIs DEF Typed
  <1>7. /\ listed' \subseteq listed
        /\ copy' = [w \in Node |-> IF w \in listed' /\ ~Ends(m, copy[w])
                                   THEN Apply(m, copy[w], content) ELSE copy[w]]
    BY DEF Broadcast
  <1>8. \A w \in Node : copy[w] \in Copy
    BY DEF Typed
  <1>9. copy' \in [Node -> Copy]
    BY <1>7, <1>8, ApplyIs
  <1>10. ASSUME NEW w \in listed' PROVE copy'[w].log = <<>> \/ copy'[w] = Ideal'
    <2>1. w \in Node /\ w \in listed /\ (copy[w].log = <<>> \/ copy[w] = Ideal)
      BY <1>7 DEF Copies
    <2>2. CASE Ends(m, copy[w])
      BY <1>7, <2>1, <2>2 DEF Ends
    <2>3. CASE ~Ends(m, copy[w])
      <3>1. copy'[w] = Apply(m, copy[w], content)
        BY <1>7, <2>1, <2>3
      <3>2. CASE copy[w] = Ideal
        BY <1>5, <3>1, <3>2
      <3>3. CASE m = "design"
        <4>1. copy[w] = Blank /\ Ideal = Blank
          BY <2>1, <3>3, ReplayedNothing DEF Copies, Ideal
        <4> QED BY <1>5, <3>1, <4>1
      <3>4. CASE m = "globals" /\ copy[w].log = <<>>
        BY <1>8, <2>1, <3>1, <3>4, ApplyIs
      <3> QED BY <2>1, <2>3, <3>2, <3>3, <3>4 DEF Ends
    <2> QED BY <2>2, <2>3
  <1> QED BY <1>4, <1>5, <1>6, <1>9, <1>10 DEF Copies

\* Steps that leave the workers alone.
LEMMA CloudKept ==
  ASSUME Typed, Copies, UNCHANGED <<listed, broadcasts, copy>>
  PROVE  /\ Ideal' = Ideal /\ Ideal' \in Copy
         /\ broadcasts' \in Seq(Message) /\ copy' \in [Node -> Copy]
         /\ Copies'
PROOF
  <1>1. Ideal' = Ideal
    BY DEF Ideal
  <1> QED BY <1>1 DEF Typed, Copies

LEMMA InitDesign ==
  ASSUME Init
  PROVE  DesignInv
PROOF
  <1>1. Ideal = Blank
    BY ReplayedNothing DEF Init, Ideal
  <1>2. <<>> \in Seq(Change) /\ <<>> \in Seq(Message)
    OBVIOUS
  <1>3. Blank \in Copy /\ Blank.log = <<>>
    BY <1>2 DEF Blank, Copy
  <1>4. Typed
    BY <1>1, <1>2, <1>3 DEF Init, Typed
  <1>5. Copies
    <2>1. \A w \in listed : copy[w] = Blank
      BY DEF Init, Node
    <2> QED BY <1>3, <2>1 DEF Copies
  <1>6. Asked
    BY DEF Init, Asked
  <1>7. Phase
    <2>1. Ideal.log \o <<>> = <<>>
      BY <1>1, <1>2, <1>3, ConcatEmptySeq
    <2> QED BY <2>1 DEF Init, Phase, Settled
  <1>8. Position
    BY DEF Init, Position, Before
  <1>9. JobsOnLeadersDesign
    BY DEF Init, JobsOnLeadersDesign, Blank
  <1> QED BY <1>4, <1>5, <1>6, <1>7, <1>8, <1>9 DEF DesignInv

\* The pool works while the main thread is in pin access or waits for it.
Posted == FirstDesign \/ FirstPA \/ Guides \/ GuidesTA \/ SendsTA \/ SentTA

LEMMA PoolPhase ==
  ASSUME Phase, pool # <<>>
  PROVE  Posted /\ main \in {"join_pa", "ta", "join"}
PROOF
  BY DEF Phase, Posted, Settled, FirstDesign, FirstPA, Guides, GuidesTA, SendsTA, SentTA

LEMMA PoolSendDesign ==
  ASSUME BatchInv, DesignInv, PoolSend
  PROVE  DesignInv'
PROOF
  <1> DEFINE m == Head(pool)
  <1>1. Posted /\ main \in {"join_pa", "ta", "join"} /\ pool # <<>>
    BY PoolPhase DEF DesignInv, PoolSend
  <1>2. m \in Name /\ Broadcast(m, <<>>) /\ m \in {"design", "init_pa", "guides"}
    BY DEF PoolSend, Name
  <1>3. <<>> \in Seq(Change)
    OBVIOUS
  <1>4. UNCHANGED <<main, made, unsent, file, version, iter, job, ran>>
    BY DEF PoolSend, jobs
  <1>5. m = "design" <=> FirstDesign
    BY <1>1, <1>2, TasksAre
       DEF Posted, FirstDesign, FirstPA, Guides, GuidesTA, SendsTA, SentTA
  <1>6. m = "design" => broadcasts = <<>>
    BY <1>5 DEF FirstDesign
  <1>7. /\ Ideal' = Apply(m, Ideal, <<>>) /\ Ideal' \in Copy
        /\ broadcasts' \in Seq(Message) /\ copy' \in [Node -> Copy]
        /\ Copies'
    <2>1. Typed /\ Copies /\ listed \subseteq Node
      BY DEF DesignInv, BatchInv, TypeOK
    <2> HIDE DEF m
    <2> QED BY <1>2, <1>3, <1>6, <2>1, BroadcastIdeal
  <1>8. Ideal \in Copy /\ Ideal.log \in Seq(Change) /\ made \in Seq(Change)
    BY DEF DesignInv, Typed, Copy
  <1>9. /\ m = "design" => Ideal' = [log |-> <<"design">>, via |-> Ideal.via]
        /\ m # "design" => Ideal' = [log |-> Append(Ideal.log, m), via |-> Ideal.via]
    <2> HIDE DEF m
    <2> QED BY <1>2, <1>3, <1>7, <1>8, ApplyIs
  <1>10. Typed'
    BY <1>4, <1>7 DEF DesignInv, Typed
  <1>11. Asked'
    BY <1>1, <1>4 DEF Asked
  <1>12. Phase' /\ (pool' = <<>> => main \in Before)
    <2>1. CASE FirstDesign
      <3>1. pool' = <<"clear">> \o <<"init_pa">>
        BY <1>5, <2>1, TasksAre DEF PoolSend, FirstDesign
      <3>2. pool' = <<"clear", "init_pa">>
        BY <3>1, TasksAre
      <3>3. made' = Append(Ideal'.log, "init_pa")
        <4>1. Ideal'.log = <<"design">> /\ made' = <<"design", "init_pa">>
          BY <1>4, <1>5, <1>9, <2>1 DEF FirstDesign
        <4>2. Append(<<"design">>, "init_pa") = <<"design", "init_pa">>
          BY TasksAre
        <4> QED BY <4>1, <4>2
      <3> QED BY <1>4, <2>1, <3>2, <3>3, TasksAre DEF Phase, FirstPA, FirstDesign
    <2>2. CASE FirstPA
      <3>1. pool = <<"init_pa">> /\ m = "init_pa"
        BY <1>2, <2>2, TasksAre DEF FirstPA
      <3>2. pool' = <<>>
        BY <3>1, TasksAre DEF PoolSend
      <3>3. unsent' = <<>>
        BY <1>4, <2>2 DEF FirstPA, DesignInv, Position, Before
      <3>4. made' = Ideal'.log \o unsent' /\ main \in Before
        BY <1>4, <1>8, <1>9, <2>2, <3>1, <3>3, ConcatEmptySeq DEF FirstPA, Before
      <3> QED BY <3>2, <3>4 DEF Phase, Settled
    <2>3. CASE Guides
      <3>1. pool = <<"guides">> /\ m = "guides"
        BY <2>3, TasksAre DEF Guides
      <3>2. pool' = <<>>
        BY <3>1, TasksAre DEF PoolSend
      <3>3. unsent' = <<>>
        BY <1>4, <2>3 DEF Guides, DesignInv, Position, Before
      <3>4. made' = Ideal'.log \o unsent' /\ main \in Before
        BY <1>4, <1>8, <1>9, <2>3, <3>1, <3>3, ConcatEmptySeq DEF Guides, Before
      <3> QED BY <3>2, <3>4 DEF Phase, Settled
    <2>4. CASE GuidesTA
      <3>1. pool = <<"guides", "updates">> /\ m = "guides"
        BY <2>4, TasksAre DEF GuidesTA
      <3>2. pool' = <<"updates">> /\ pool' # <<>>
        BY <3>1, TasksAre DEF PoolSend
      <3>3. made' = Ideal'.log \o unsent'
        <4>1. Ideal'.log = Append(Ideal.log, "guides")
          BY <1>9, <3>1
        <4>2. made' = Append(Ideal.log, "guides") \o unsent'
          BY <1>4, <2>4 DEF GuidesTA
        <4> QED BY <4>1, <4>2
      <3> QED BY <1>4, <2>4, <3>2, <3>3 DEF Phase, SendsTA, GuidesTA
    <2>5. CASE SendsTA \/ SentTA
      BY <1>2, <2>5, TasksAre DEF SendsTA, SentTA
    <2> QED BY <1>1, <2>1, <2>2, <2>3, <2>4, <2>5 DEF Posted
  <1>13. Position'
    <2>1. Ideal'.via = Ideal.via
      BY <1>9
    <2>2. iter = 0
      BY <1>1 DEF DesignInv, Position
    <2> QED BY <1>1, <1>4, <1>12, <2>1, <2>2 DEF DesignInv, Position, Before
  <1>14. JobsOnLeadersDesign'
    BY <1>4 DEF DesignInv, JobsOnLeadersDesign
  <1> QED BY <1>7, <1>10, <1>11, <1>12, <1>13, <1>14 DEF DesignInv

LEMMA PoolUpdatesDesign ==
  ASSUME BatchInv, DesignInv, PoolSendUpdates
  PROVE  DesignInv'
PROOF
  <1>1. Posted /\ main \in {"join_pa", "ta", "join"} /\ pool # <<>>
    BY PoolPhase DEF DesignInv, PoolSendUpdates
  <1>2. "updates" \in Name /\ Broadcast("updates", unsent)
    BY DEF PoolSendUpdates, Name
  <1>3. unsent \in Seq(Change) /\ file' = unsent
    BY DEF DesignInv, Typed, PoolSendUpdates
  <1>4. UNCHANGED <<main, made, unsent, version, iter, job, ran>>
    BY DEF PoolSendUpdates, jobs
  <1>5. SendsTA
    BY <1>1, TasksAre
       DEF PoolSendUpdates, Posted, FirstDesign, FirstPA, Guides, GuidesTA, SendsTA, SentTA
  <1>6. /\ Ideal' = Apply("updates", Ideal, unsent) /\ Ideal' \in Copy
        /\ broadcasts' \in Seq(Message) /\ copy' \in [Node -> Copy]
        /\ Copies'
    <2>1. Typed /\ Copies /\ listed \subseteq Node
      BY DEF DesignInv, BatchInv, TypeOK
    <2> QED BY <1>2, <1>3, <2>1, BroadcastIdeal
  <1>7. Ideal' = [log |-> Ideal.log \o unsent, via |-> Ideal.via]
    <2>1. Ideal \in Copy
      BY DEF DesignInv, Typed
    <2> QED BY <1>2, <1>3, <1>6, <2>1, ApplyIs
  <1>8. Typed'
    BY <1>3, <1>4, <1>6 DEF DesignInv, Typed
  <1>9. Asked'
    BY <1>1, <1>4 DEF Asked
  <1>10. Phase' /\ pool' # <<>>
    <2>1. pool' = <<"clear">> \o <<>>
      BY <1>5, TasksAre DEF PoolSendUpdates, SendsTA
    <2>2. pool' = <<"clear">> /\ pool' # <<>>
      BY <2>1, TasksAre
    <2>3. made' = Ideal'.log
      BY <1>4, <1>5, <1>7 DEF SendsTA
    <2> QED BY <1>4, <1>5, <2>2, <2>3 DEF Phase, SentTA, SendsTA
  <1>11. Position'
    <2>1. Ideal'.via = Ideal.via /\ main = "join"
      BY <1>5, <1>7 DEF SendsTA
    <2>2. iter = 0
      BY <1>1 DEF DesignInv, Position
    <2> QED BY <1>4, <1>10, <2>1, <2>2 DEF DesignInv, Position, Before
  <1>12. JobsOnLeadersDesign'
    BY <1>4 DEF DesignInv, JobsOnLeadersDesign
  <1> QED BY <1>6, <1>8, <1>9, <1>10, <1>11, <1>12 DEF DesignInv

\* What the task forgets at its end has been broadcast.
LEMMA PoolClearDesign ==
  ASSUME BatchInv, DesignInv, PoolClear
  PROVE  DesignInv'
PROOF
  <1>1. Posted /\ main \in {"join_pa", "ta", "join"} /\ pool # <<>>
    BY PoolPhase DEF DesignInv, PoolClear
  <1>2. UNCHANGED <<main, made, file, version, iter, job, ran>> /\ unsent' = <<>>
    BY DEF PoolClear, jobs
  <1>3. /\ Ideal' = Ideal /\ Ideal' \in Copy
        /\ broadcasts' \in Seq(Message) /\ copy' \in [Node -> Copy]
        /\ Copies'
    BY CloudKept DEF PoolClear, cloud, DesignInv
  <1>4. Typed'
    BY <1>2, <1>3 DEF DesignInv, Typed
  <1>5. Asked'
    BY <1>1, <1>2 DEF Asked
  <1>6. Ideal.log \in Seq(Change) /\ Ideal.log \o <<>> = Ideal.log
    BY ConcatEmptySeq DEF DesignInv, Typed, Copy
  <1>7. Phase'
    <2>1. CASE FirstPA
      <3>1. pool = <<"clear", "init_pa">>
        BY <2>1, TasksAre DEF PoolClear, FirstPA
      <3>2. pool' = <<"init_pa">>
        BY <3>1, TasksAre DEF PoolClear
      <3> QED BY <1>2, <1>3, <2>1, <3>2 DEF Phase, FirstPA
    <2>2. CASE SentTA \/ (SendsTA /\ unsent = <<>>)
      <3>1. pool' = <<>>
        BY <2>2, TasksAre DEF PoolClear, SentTA, SendsTA
      <3>2. made' = Ideal'.log \o unsent'
        BY <1>2, <1>3, <1>6, <2>2 DEF SentTA, SendsTA
      <3> QED BY <3>1, <3>2 DEF Phase, Settled
    <2>3. CASE FirstDesign \/ Guides \/ GuidesTA \/ (SendsTA /\ unsent # <<>>)
      BY <2>3, TasksAre DEF PoolClear, FirstDesign, Guides, GuidesTA, SendsTA
    <2> QED BY <1>1, <2>1, <2>2, <2>3 DEF Posted
  <1>8. Position'
    <2>1. iter = 0
      BY <1>1 DEF DesignInv, Position
    <2> QED BY <1>1, <1>2, <1>3, <2>1 DEF DesignInv, Position, Before
  <1>9. JobsOnLeadersDesign'
    BY <1>2 DEF DesignInv, JobsOnLeadersDesign
  <1> QED BY <1>3, <1>4, <1>5, <1>7, <1>8, <1>9 DEF DesignInv

LEMMA StartDesign ==
  ASSUME DoPA, BatchInv, DesignInv, MainStart
  PROVE  DesignInv'
PROOF
  <1>1. /\ main = "start" /\ main' = "join_pa"
        /\ pool' = <<"design", "init_pa">> /\ made' = pool'
        /\ UNCHANGED <<unsent, file, version, iter, job, ran>>
    BY DEF MainStart, Goes, Routing, jobs
  <1>2. broadcasts = <<>> /\ version = 0 /\ unsent = <<>> /\ iter = 0
    BY <1>1 DEF DesignInv, Position, Before
  <1>3. /\ Ideal' = Ideal /\ Ideal' \in Copy
        /\ broadcasts' \in Seq(Message) /\ copy' \in [Node -> Copy]
        /\ Copies' /\ broadcasts' = broadcasts
    BY CloudKept DEF MainStart, cloud, DesignInv
  <1>4. made' \in Seq(Change)
    <2>1. "design" \in Change /\ "init_pa" \in Change
      BY DEF Change
    <2> QED BY <1>1, <2>1
  <1>5. Typed'
    BY <1>1, <1>3, <1>4 DEF DesignInv, Typed
  <1>6. Asked'
    BY <1>1 DEF Asked
  <1>7. Phase'
    BY <1>1, <1>2, <1>3 DEF Phase, FirstDesign
  <1>8. Position'
    BY <1>1, <1>2, <1>3 DEF Position, Before
  <1>9. JobsOnLeadersDesign'
    BY <1>1 DEF DesignInv, JobsOnLeadersDesign
  <1> QED BY <1>3, <1>5, <1>6, <1>7, <1>8, <1>9 DEF DesignInv

\* The choices for the rows, and the waits that are part of them.
Rows == {"rows", "emptied", "stuck"}

\* The main thread's steps that change neither the design nor the workers.
LEMMA OnwardDesign ==
  ASSUME BatchInv, DesignInv,
         UNCHANGED <<pool, made, unsent, version, iter, listed, broadcasts, copy>>,
         file' \in Seq(Change), JobsOnLeadersDesign',
         \/ main = "join_pa" /\ main' = "pa1" /\ pool = <<>>
         \/ main \in Rows /\ main' \in Rows \cup {"pa3"}
         \/ main = "join" /\ main' = "send" /\ pool = <<>> /\ (unsent = <<>> \/ file' = unsent)
         \/ main' = main /\ main # "route" /\ file' = file
         \/ main' = "stopped" /\ pool = <<>>
  PROVE  DesignInv'
PROOF
  <1>1. /\ Ideal' = Ideal /\ Ideal' \in Copy
        /\ broadcasts' \in Seq(Message) /\ copy' \in [Node -> Copy]
        /\ Copies'
    BY CloudKept DEF DesignInv
  <1>2. Typed'
    BY <1>1 DEF DesignInv, Typed
  <1>3. Asked'
    BY DEF DesignInv, Asked, Rows
  <1>4. Phase'
    <2>1. CASE pool # <<>>
      <3>1. Posted /\ main' = main
        BY <2>1, PoolPhase DEF DesignInv, Rows
      <3> QED BY <1>1, <3>1
              DEF Phase, Posted, FirstDesign, FirstPA, Guides, GuidesTA, SendsTA, SentTA
    <2>2. CASE pool = <<>>
      <3>1. Settled
        BY <2>2, TasksAre DEF DesignInv, Phase, FirstDesign, FirstPA, Guides, GuidesTA, SendsTA, SentTA
      <3> QED BY <1>1, <3>1 DEF Phase, Settled
    <2> QED BY <2>1, <2>2
  <1>5. Position'
    BY <1>1 DEF DesignInv, Position, Before, Rows
  <1> QED BY <1>1, <1>2, <1>3, <1>4, <1>5 DEF DesignInv

LEMMA SettledPool ==
  ASSUME Phase, pool = <<>>
  PROVE  Settled
PROOF
  BY TasksAre DEF Phase, FirstDesign, FirstPA, Guides, GuidesTA, SendsTA, SentTA

LEMMA PASendDesign ==
  ASSUME BatchInv, DesignInv, PASend
  PROVE  DesignInv'
PROOF
  <1>1. /\ main \in {"pa1", "pa2", "pa3"} /\ main' \in {"pa2", "rows", "ta"}
        /\ (main' = "ta" <=> main = "pa3")
        /\ Broadcast(main, <<>>) /\ main \in Name /\ main # "design"
        /\ pool' = (IF main = "pa3" THEN <<"guides">> ELSE <<>>)
        /\ made' = Append(made, main) \o pool'
        /\ UNCHANGED <<unsent, file, version, iter, job, ran>>
    BY DEF PASend, Routing, jobs, Name
  <1>2. /\ version = 0 /\ unsent = <<>> /\ iter = 0 /\ pool = <<>>
        /\ Settled
    <2>1. pool = <<>>
      BY <1>1, PoolPhase DEF DesignInv
    <2> QED BY <1>1, <2>1, SettledPool DEF DesignInv, Position, Before
  <1>3. <<>> \in Seq(Change) /\ main \in Change /\ "guides" \in Change
    BY <1>1 DEF Change
  <1>4. /\ Ideal' = Apply(main, Ideal, <<>>) /\ Ideal' \in Copy
        /\ broadcasts' \in Seq(Message) /\ copy' \in [Node -> Copy]
        /\ Copies'
    <2>1. Typed /\ Copies /\ listed \subseteq Node
      BY DEF DesignInv, BatchInv, TypeOK
    <2> QED BY <1>1, <1>3, <2>1, BroadcastIdeal
  <1>5. Ideal \in Copy /\ Ideal.log \in Seq(Change)
    BY DEF DesignInv, Typed, Copy
  <1>6. Ideal' = [log |-> Append(Ideal.log, main), via |-> Ideal.via]
    BY <1>1, <1>3, <1>4, <1>5, ApplyIs
  <1>7. made = Ideal.log
    BY <1>2, <1>5, ConcatEmptySeq DEF Settled
  <1>8. PICK l : l = Append(Ideal.log, main)
    OBVIOUS
  <1>9. l \in Seq(Change) /\ Ideal'.log = l /\ made' = l \o pool'
    BY <1>1, <1>3, <1>5, <1>6, <1>7, <1>8
  <1>10. made' \in Seq(Change) /\ Phase'
    <2>1. CASE main = "pa3"
      <3>1. pool' = <<"guides">> /\ main' = "ta"
        BY <1>1, <2>1
      <3>2. made' = Append(l, "guides") /\ made' \in Seq(Change)
        BY <1>3, <1>9, <3>1, ChangesAre
      <3> QED BY <1>9, <3>1, <3>2 DEF Phase, Guides
    <2>2. CASE main # "pa3"
      <3>1. pool' = <<>> /\ unsent' = <<>> /\ made' = l \o <<>>
        BY <1>1, <1>2, <1>9, <2>2
      <3>2. made' = l
        BY <1>9, <3>1, ConcatEmptySeq
      <3> QED BY <1>9, <3>1, <3>2 DEF Phase, Settled
    <2> QED BY <2>1, <2>2
  <1>11. Typed'
    BY <1>1, <1>4, <1>10 DEF DesignInv, Typed
  <1>12. Asked'
    BY <1>1 DEF Asked
  <1>13. Position'
    BY <1>1, <1>2 DEF Position, Before
  <1>14. JobsOnLeadersDesign'
    BY <1>1 DEF DesignInv, JobsOnLeadersDesign
  <1> QED BY <1>4, <1>10, <1>11, <1>12, <1>13, <1>14 DEF DesignInv

\* The rows are given to a worker that has the leader's design, or one that ends.
LEMMA RowsDesign ==
  ASSUME BatchInv, DesignInv, RowsJob \/ \E w \in Node : RowsWaitEnds(w)
  PROVE  DesignInv'
PROOF
  <1>1. /\ main \in Rows
        /\ UNCHANGED <<pool, made, unsent, file, version, iter, listed, broadcasts, copy>>
        /\ main' \in Rows \cup {"pa3", "stopped"}
    BY DEF RowsJob, RowsAnswered, RowsRefused, RowsWorkerEnds, RowsEmptied, RowsWaitEnds,
           Goes, Routing, cloud, Rows
  <1>2. pool = <<>> /\ unsent = <<>> /\ Settled
    <2>1. pool = <<>>
      BY <1>1, PoolPhase DEF DesignInv, Rows
    <2> QED BY <1>1, <2>1, SettledPool DEF DesignInv, Position, Before, Rows
  <1>3. made = Ideal.log
    BY <1>2, ConcatEmptySeq DEF Settled, DesignInv, Typed, Copy
  <1>4. JobsOnLeadersDesign'
    <2>1. CASE ran' = ran
      BY <2>1 DEF DesignInv, JobsOnLeadersDesign
    <2>2. ASSUME NEW w \in listed, ~Ends("rows", copy[w]),
                 ran' = [met |-> copy[w], due |-> [log |-> made, via |-> FALSE]]
          PROVE  JobsOnLeadersDesign'
      <3>1. copy[w] = Ideal
        BY <2>2 DEF Ends, DesignInv, Copies
      <3> QED BY <1>3, <2>2, <3>1 DEF JobsOnLeadersDesign
    <2> QED BY <2>1, <2>2 DEF RowsJob, RowsAnswered, RowsRefused, RowsWorkerEnds, RowsEmptied, RowsWaitEnds
  <1>5. file' \in Seq(Change)
    BY <1>1 DEF DesignInv, Typed
  <1> QED BY <1>1, <1>2, <1>4, <1>5, OnwardDesign

LEMMA TADesign ==
  ASSUME BatchInv, DesignInv, TA
  PROVE  DesignInv'
PROOF
  <1>1. /\ main = "ta" /\ main' = "join"
        /\ made' = Append(made, "ta") /\ unsent' = Append(unsent, "ta")
        /\ pool' = Append(pool, "updates")
        /\ UNCHANGED <<file, version, iter, job, ran>>
    BY DEF TA, Goes, Routing, jobs
  <1>2. version = 0 /\ unsent = <<>> /\ iter = 0
    BY <1>1 DEF DesignInv, Position, Before
  <1>3. /\ Ideal' = Ideal /\ Ideal' \in Copy
        /\ broadcasts' \in Seq(Message) /\ copy' \in [Node -> Copy]
        /\ Copies'
    BY CloudKept DEF TA, cloud, DesignInv
  <1>4. /\ Ideal.log \in Seq(Change) /\ made \in Seq(Change) /\ unsent \in Seq(Change)
        /\ "ta" \in Change /\ "guides" \in Change
    BY DEF DesignInv, Typed, Copy, Change
  <1>5. made' = made \o unsent' /\ made' \in Seq(Change) /\ unsent' \in Seq(Change)
    <2>1. unsent' = <<"ta">>
      BY <1>1, <1>2, TasksAre
    <2>2. made \o <<"ta">> = Append(made, "ta") /\ Append(made, "ta") \in Seq(Change)
      BY <1>4, ChangesAre
    <2>3. unsent' \in Seq(Change)
      BY <1>1, <1>4
    <2> QED BY <1>1, <2>1, <2>2, <2>3
  <1>6. Typed'
    BY <1>1, <1>3, <1>5 DEF DesignInv, Typed
  <1>7. Asked'
    BY <1>1 DEF Asked
  <1>8. Phase' /\ pool' # <<>>
    <2>1. CASE pool # <<>>
      <3>1. Guides
        BY <1>1, <2>1, PoolPhase
           DEF DesignInv, Posted, FirstDesign, FirstPA, Guides, GuidesTA, SendsTA, SentTA
      <3>2. pool' = <<"guides", "updates">> /\ pool' # <<>>
        <4>1. pool' = Append(<<"guides">>, "updates")
          BY <1>1, <3>1 DEF Guides
        <4>2. Append(<<"guides">>, "updates") = <<"guides", "updates">>
          BY TasksAre
        <4>3. <<"guides", "updates">> # <<>>
          BY TasksAre
        <4> QED BY <4>1, <4>2, <4>3
      <3>3. made' = Append(Ideal'.log, "guides") \o unsent'
        BY <1>3, <1>5, <3>1 DEF Guides
      <3> QED BY <1>1, <3>2, <3>3 DEF Phase, GuidesTA
    <2>2. CASE pool = <<>>
      <3>1. made = Ideal.log
        BY <1>2, <1>4, <2>2, SettledPool, ConcatEmptySeq DEF DesignInv, Settled
      <3>2. pool' = <<"updates">> /\ pool' # <<>>
        BY <1>1, <2>2, TasksAre
      <3>3. made' = Ideal'.log \o unsent'
        BY <1>3, <1>5, <3>1
      <3> QED BY <1>1, <3>2, <3>3 DEF Phase, SendsTA
    <2> QED BY <2>1, <2>2
  <1>9. Position'
    BY <1>1, <1>2, <1>8 DEF Position, Before
  <1>10. JobsOnLeadersDesign'
    BY <1>1 DEF DesignInv, JobsOnLeadersDesign
  <1> QED BY <1>3, <1>6, <1>7, <1>8, <1>9, <1>10 DEF DesignInv

\* Boxes are routed with all changes and the via data broadcast.
LEMMA SendDesign ==
  ASSUME BatchInv, DesignInv, BatchSend
  PROVE  DesignInv'
PROOF
  <1>1. /\ main = "send" /\ main' = "route" /\ unsent' = <<>>
        /\ job' = [g \in Group |-> [NoJob EXCEPT !.state = "ask"]]
        /\ UNCHANGED <<pool, made, file, iter, ran>>
    BY DEF BatchSend, Goes
  <1>2. pool = <<>> /\ Settled
    <2>1. pool = <<>>
      BY <1>1, PoolPhase DEF DesignInv
    <2> QED BY <1>1, <2>1, SettledPool DEF DesignInv
  <1>3. /\ Typed /\ Copies /\ listed \subseteq Node
        /\ file \in Seq(Change) /\ <<>> \in Seq(Change)
        /\ "updates" \in Name /\ "globals" \in Name
    BY DEF DesignInv, Typed, BatchInv, TypeOK, Name
  <1>4. Ideal \in Copy /\ Ideal.log \in Seq(Change) /\ Ideal.via \in BOOLEAN
    BY DEF DesignInv, Typed, Copy
  <1>5. /\ Ideal'.via /\ Ideal'.log = made /\ Ideal' \in Copy
        /\ broadcasts' \in Seq(Message) /\ copy' \in [Node -> Copy]
        /\ Copies'
    <2>1. CASE unsent # <<>>
      <3>1. Broadcast("updates", file) /\ file = unsent /\ Ideal.via
        BY <1>1, <1>2, <2>1 DEF BatchSend, DesignInv, Position
      <3>2. /\ Ideal' = Apply("updates", Ideal, file) /\ Ideal' \in Copy
            /\ broadcasts' \in Seq(Message) /\ copy' \in [Node -> Copy]
            /\ Copies'
        BY <1>3, <3>1, BroadcastIdeal
      <3>3. Ideal' = [log |-> Ideal.log \o file, via |-> Ideal.via]
        BY <1>3, <1>4, <3>2, ApplyIs
      <3> QED BY <1>2, <3>1, <3>2, <3>3 DEF Settled
    <2>2. CASE unsent = <<>>
      <3>1. made = Ideal.log
        BY <1>2, <1>4, <2>2, ConcatEmptySeq DEF Settled
      <3>2. CASE version = 0
        <4>1. Broadcast("globals", <<>>)
          BY <2>2, <3>2 DEF BatchSend
        <4>2. /\ Ideal' = Apply("globals", Ideal, <<>>) /\ Ideal' \in Copy
              /\ broadcasts' \in Seq(Message) /\ copy' \in [Node -> Copy]
              /\ Copies'
          BY <1>3, <4>1, BroadcastIdeal
        <4>3. Ideal' = [log |-> Ideal.log, via |-> TRUE]
          BY <1>3, <1>4, <4>2, ApplyIs
        <4> QED BY <3>1, <4>2, <4>3
      <3>3. CASE version # 0
        <4>1. /\ Ideal' = Ideal /\ Ideal' \in Copy
              /\ broadcasts' \in Seq(Message) /\ copy' \in [Node -> Copy]
              /\ Copies'
          BY <1>3, <2>2, <3>3, CloudKept DEF BatchSend, cloud
        <4>2. Ideal.via
          BY <1>1, <3>3 DEF DesignInv, Position
        <4> QED BY <3>1, <4>1, <4>2
      <3> QED BY <3>2, <3>3
    <2> QED BY <2>1, <2>2
  <1>6. Typed'
    BY <1>1, <1>3, <1>5 DEF DesignInv, Typed
  <1>7. Asked'
    BY <1>1 DEF Asked, NoJob
  <1>8. Phase'
    <2>1. Ideal'.log \o <<>> = Ideal'.log
      BY <1>5, ConcatEmptySeq DEF Copy
    <2> QED BY <1>1, <1>2, <1>5, <2>1 DEF Phase, Settled
  <1>9. Position'
    BY <1>1, <1>2, <1>5 DEF Position, Before
  <1>10. JobsOnLeadersDesign'
    BY <1>1 DEF DesignInv, JobsOnLeadersDesign
  <1> QED BY <1>5, <1>6, <1>7, <1>8, <1>9, <1>10 DEF DesignInv

\* A sending thread asks for a worker, and gets its answer.
LEMMA JobDesign ==
  ASSUME BatchInv, DesignInv, NEW g \in Group, Job(g)
  PROVE  DesignInv'
PROOF
  <1>1. /\ main = "route" /\ main' \in {"route", "stopped"}
        /\ UNCHANGED <<pool, made, unsent, file, version, iter, listed, broadcasts, copy>>
    BY DEF Job, Ask, Answer, AnswerBreaks, NoAnswer, leader, jobs, design, cloud
  <1>2. pool = <<>> /\ unsent = <<>> /\ Settled
    <2>1. pool = <<>>
      BY <1>1, PoolPhase DEF DesignInv
    <2> QED BY <1>1, <2>1, SettledPool DEF DesignInv, Position
  <1>3. made = Ideal.log /\ Ideal.via
    <2>1. Ideal.log \in Seq(Change)
      BY DEF DesignInv, Typed, Copy
    <2> QED BY <1>1, <1>2, <2>1, ConcatEmptySeq DEF Settled, DesignInv, Position
  <1>4. JobsOnLeadersDesign'
    <2>1. CASE ran' = ran
      BY <2>1 DEF DesignInv, JobsOnLeadersDesign
    <2>2. CASE Answer(g)
      <3>1. PICK w : w = job[g].to
        OBVIOUS
      <3>2. /\ job[g].state = "sent" /\ ~Ends("route", copy[w])
            /\ ran' = [met |-> copy[w], due |-> [log |-> made, via |-> TRUE]]
        BY <2>2, <3>1 DEF Answer
      <3>3. w \in listed
        BY <1>1, <3>1, <3>2 DEF DesignInv, Asked
      <3>4. copy[w] = Ideal
        BY <3>2, <3>3 DEF Ends, DesignInv, Copies
      <3> QED BY <1>3, <3>2, <3>4 DEF JobsOnLeadersDesign
    <2> QED BY <2>1, <2>2 DEF Job, Ask, AnswerBreaks, NoAnswer
  <1>5. CASE main' = "stopped"
    <2>1. file' \in Seq(Change)
      BY <1>1 DEF DesignInv, Typed
    <2> QED BY <1>1, <1>2, <1>4, <1>5, <2>1, OnwardDesign
  <1>6. CASE main' = main
    <2>1. /\ Ideal' = Ideal /\ Ideal' \in Copy
          /\ broadcasts' \in Seq(Message) /\ copy' \in [Node -> Copy]
          /\ Copies'
      BY <1>1, CloudKept DEF DesignInv
    <2>2. Typed'
      BY <1>1, <2>1 DEF DesignInv, Typed
    <2>3. Asked'
      <3>1. job \in [Group -> JobRec]
        BY DEF BatchInv, TypeOK
      <3>2. job' = job \/ \E r : job' = [job EXCEPT ![g] = r] /\ (r.state = "sent" => r.to \in listed)
        <4>1. CASE Ask(g)
          <5>1. CASE job' = job
            BY <5>1
          <5>2. CASE job' = [job EXCEPT ![g].state = "done"]
            <6>1. job' = [job EXCEPT ![g] = [job[g] EXCEPT !.state = "done"]]
              BY <5>2
            <6>2. [job[g] EXCEPT !.state = "done"].state = "done"
              BY <3>1 DEF JobRec
            <6> QED BY <6>1, <6>2
          <5>3. ASSUME NEW w \in listed, job' = [job EXCEPT ![g].state = "sent", ![g].to = w]
                PROVE \E r : job' = [job EXCEPT ![g] = r] /\ (r.state = "sent" => r.to \in listed)
            <6>1. job' = [job EXCEPT ![g] = [job[g] EXCEPT !.state = "sent", !.to = w]]
              BY <3>1, <5>3 DEF JobRec
            <6>2. [job[g] EXCEPT !.state = "sent", !.to = w].to = w
              BY <3>1 DEF JobRec
            <6> QED BY <5>3, <6>1, <6>2
          <5> QED BY <4>1, <5>1, <5>2, <5>3 DEF Ask
        <4>2. CASE Answer(g)
          <5>1. job' = [job EXCEPT ![g] = [job[g] EXCEPT !.state = "done"]]
            BY <4>2 DEF Answer
          <5>2. [job[g] EXCEPT !.state = "done"].state = "done"
            BY <3>1 DEF JobRec
          <5> QED BY <5>1, <5>2
        <4>3. CASE AnswerBreaks(g)
          <5>1. CASE job' = job
            BY <5>1
          <5>2. CASE job' = [job EXCEPT ![g].tries = @ + 1]
            <6>1. PICK r : r = [job[g] EXCEPT !.tries = @ + 1]
              OBVIOUS
            <6>2. job' = [job EXCEPT ![g] = r]
              BY <5>2, <6>1
            <6>3. r.to = job[g].to /\ r.state = job[g].state
              BY <3>1, <6>1 DEF JobRec
            <6>4. r.state = "sent" => r.to \in listed
              BY <1>1, <6>3 DEF DesignInv, Asked
            <6> QED BY <6>2, <6>4
          <5> QED BY <4>3, <5>1, <5>2 DEF AnswerBreaks
        <4>4. CASE NoAnswer(g)
          BY <4>4 DEF NoAnswer, jobs
        <4> QED BY <4>1, <4>2, <4>3, <4>4 DEF Job
      <3> QED BY <1>1, <1>6, <3>1, <3>2 DEF DesignInv, Asked
    <2>4. Phase'
      BY <1>1, <1>2, <2>1 DEF Phase, Settled
    <2>5. Position'
      BY <1>1, <1>6, <2>1 DEF DesignInv, Position, Before
    <2> QED BY <1>4, <2>1, <2>2, <2>3, <2>4, <2>5 DEF DesignInv
  <1> QED BY <1>1, <1>5, <1>6

\* A batch written back, or tiles routed by the leader: at most one change, that
\* is still to be sent.
LEMMA MergedDesign ==
  ASSUME BatchInv, DesignInv, Merge \/ StubbornTiles
  PROVE  DesignInv'
PROOF
  <1>1. /\ main' = "next" /\ main \in {"route", "join"} /\ (main = "join" => iter # 0)
        /\ UNCHANGED <<pool, file, version, iter, ran, cloud>>
        /\ \/ UNCHANGED <<made, unsent>>
           \/ \E n : made' = Append(made, ToString(n)) /\ unsent' = Append(unsent, ToString(n))
                     /\ (n = batches \/ n = batches')
    BY DEF Merge, StubbornTiles, Goes, jobs
  <1>2. batches \in Nat /\ batches' \in Nat
    BY DEF Merge, StubbornTiles, BatchInv, TypeOK
  <1>3. pool = <<>> /\ Ideal.via /\ Settled
    <2>1. pool = <<>> /\ Ideal.via
      BY <1>1, PoolPhase DEF DesignInv, Position
    <2> QED BY <2>1, SettledPool DEF DesignInv
  <1>4. /\ Ideal' = Ideal /\ Ideal' \in Copy
        /\ broadcasts' \in Seq(Message) /\ copy' \in [Node -> Copy]
        /\ Copies'
    BY <1>1, CloudKept DEF DesignInv, cloud
  <1>5. Ideal.log \in Seq(Change) /\ made \in Seq(Change) /\ unsent \in Seq(Change)
    BY DEF DesignInv, Typed, Copy
  <1>6. made' \in Seq(Change) /\ unsent' \in Seq(Change) /\ made' = Ideal.log \o unsent'
    <2>1. CASE UNCHANGED <<made, unsent>>
      BY <1>3, <1>5, <2>1 DEF Settled
    <2>2. CASE ~UNCHANGED <<made, unsent>>
      <3>1. PICK e \in Change : made' = Append(made, e) /\ unsent' = Append(unsent, e)
        <4>1. PICK n \in Nat : made' = Append(made, ToString(n)) /\ unsent' = Append(unsent, ToString(n))
          BY <1>1, <1>2, <2>2
        <4>2. ToString(n) \in Change
          BY DEF Change
        <4> QED BY <4>1, <4>2
      <3>2. made' \in Seq(Change) /\ unsent' \in Seq(Change)
        BY <1>5, <3>1
      <3>3. Append(Ideal.log \o unsent, e) = Ideal.log \o Append(unsent, e)
        <4>1. PICK s : s = Ideal.log
          OBVIOUS
        <4>2. s \in Seq(Change) /\ e \in Change
          BY <1>5, <3>1, <4>1
        <4>3. Append(s \o unsent, e) = s \o Append(unsent, e)
          BY <1>5, <4>2, AppendLast
        <4> QED BY <4>1, <4>3
      <3> QED BY <1>3, <3>1, <3>2, <3>3 DEF Settled
    <2> QED BY <2>1, <2>2
  <1>7. Typed'
    BY <1>1, <1>4, <1>6 DEF DesignInv, Typed
  <1>8. Asked'
    BY <1>1 DEF Asked
  <1>9. Phase'
    BY <1>1, <1>3, <1>4, <1>6 DEF Phase, Settled
  <1>10. Position'
    BY <1>1, <1>3, <1>4 DEF DesignInv, Position, Before
  <1>11. JobsOnLeadersDesign'
    BY <1>1 DEF DesignInv, JobsOnLeadersDesign
  <1> QED BY <1>4, <1>7, <1>8, <1>9, <1>10, <1>11 DEF DesignInv

LEMMA NextBatchDesign ==
  ASSUME BatchInv, DesignInv, NextBatch
  PROVE  DesignInv'
PROOF
  <1>1. /\ main = "next" /\ main' \in {"join", "stopped", "done"}
        /\ UNCHANGED <<pool, made, unsent, file, ran, cloud>>
        /\ (version' = version /\ iter' = iter) \/ iter' # 0
    BY DEF NextBatch, BatchInv, TypeOK
  <1>2. pool = <<>> /\ Ideal.via /\ Settled
    <2>1. pool = <<>> /\ Ideal.via
      BY <1>1, PoolPhase DEF DesignInv, Position
    <2> QED BY <2>1, SettledPool DEF DesignInv
  <1>3. /\ Ideal' = Ideal /\ Ideal' \in Copy
        /\ broadcasts' \in Seq(Message) /\ copy' \in [Node -> Copy]
        /\ Copies'
    BY <1>1, CloudKept DEF DesignInv, cloud
  <1>4. Typed'
    BY <1>1, <1>3 DEF DesignInv, Typed
  <1>5. Asked'
    BY <1>1 DEF Asked
  <1>6. Phase'
    BY <1>1, <1>2, <1>3 DEF Phase, Settled
  <1>7. Position'
    BY <1>1, <1>2, <1>3 DEF Position, Before
  <1>8. JobsOnLeadersDesign'
    BY <1>1 DEF DesignInv, JobsOnLeadersDesign
  <1> QED BY <1>3, <1>4, <1>5, <1>6, <1>7, <1>8 DEF DesignInv

\* A worker that is found gets all there has been, one that is started again
\* nothing.
LEMMA WorkersDesign ==
  ASSUME ~LateAny, BatchInv, DesignInv, NEW w \in Node, AddWorker(w) \/ Die(w) \/ Restart(w)
  PROVE  DesignInv'
PROOF
  <1>1. /\ UNCHANGED <<main, pool, made, unsent, file, version, iter, job, ran, broadcasts>>
        /\ listed \subseteq listed'
    BY DEF AddWorker, Die, Restart, leader, jobs
  <1>2. Ideal' = Ideal /\ Ideal \in Copy /\ broadcasts \in Seq(Message) /\ copy \in [Node -> Copy]
    BY <1>1 DEF DesignInv, Typed, Ideal
  <1>3. Blank \in Copy /\ Blank.log = <<>>
    BY DEF Blank, Copy
  <1>4. /\ copy' \in [Node -> Copy]
        /\ \A v \in listed' : \/ v \in listed /\ copy'[v] = copy[v]
                              \/ copy'[v] = Blank
                              \/ copy'[v] = Ideal
    <2>1. CASE AddWorker(w)
      <3>1. \A k \in DOMAIN broadcasts : BringsNow(broadcasts[k]) = broadcasts[k]
        BY <2>1 DEF AddWorker
      <3>2. [k \in DOMAIN broadcasts |-> BringsNow(broadcasts[k])] = [k \in DOMAIN broadcasts |-> broadcasts[k]]
        BY <3>1
      <3>3. [k \in DOMAIN broadcasts |-> broadcasts[k]] = broadcasts
        BY <1>2
      <3>4. copy' = [copy EXCEPT ![w] = Ideal] /\ listed' = listed \cup {w}
        BY <2>1, <3>2, <3>3 DEF AddWorker, Ideal
      <3> QED BY <1>2, <3>4
    <2>2. CASE Die(w)
      BY <1>2, <2>2 DEF Die
    <2>3. CASE Restart(w)
      <3>1. copy' = [copy EXCEPT ![w] = Blank] /\ listed' = listed
        BY <2>3 DEF Restart
      <3>2. listed \subseteq Node
        BY DEF BatchInv, TypeOK
      <3> QED BY <1>2, <1>3, <3>1, <3>2
    <2> QED BY <2>1, <2>2, <2>3
  <1>5. Copies'
    <2>1. \A v \in listed' : copy'[v].log = <<>> \/ copy'[v] = Ideal
      BY <1>3, <1>4 DEF DesignInv, Copies
    <2>2. broadcasts = <<>> => Ideal = Blank
      BY ReplayedNothing DEF Ideal
    <2>3. broadcasts = <<>> => \A v \in listed' : copy'[v] = Blank
      BY <1>4, <2>2 DEF DesignInv, Copies
    <2> QED BY <1>1, <1>2, <2>1, <2>3 DEF Copies
  <1>6. Typed'
    BY <1>1, <1>2, <1>4 DEF DesignInv, Typed
  <1>7. Asked'
    BY <1>1 DEF DesignInv, Asked
  <1>8. Phase'
    BY <1>1, <1>2
       DEF DesignInv, Phase, FirstDesign, FirstPA, Guides, GuidesTA, SendsTA, SentTA, Settled
  <1>9. Position'
    BY <1>1, <1>2 DEF DesignInv, Position
  <1>10. JobsOnLeadersDesign'
    BY <1>1 DEF DesignInv, JobsOnLeadersDesign
  <1> QED BY <1>5, <1>6, <1>7, <1>8, <1>9, <1>10 DEF DesignInv

\* With pin access, whose tasks are joined before track assignment changes the
\* design, and with workers found only while the files hold what was sent, every
\* job meets the leader's design: FlexPA's rows and FlexDR's boxes are routed on
\* a copy that has each change once and in order.
THEOREM JobsMeetTheDesign == DoPA /\ ~LateAny /\ Spec => []JobsOnLeadersDesign
PROOF
  <1> SUFFICES ASSUME DoPA, ~LateAny PROVE Spec => []JobsOnLeadersDesign
    OBVIOUS
  <1>1. Init => DesignInv
    BY InitDesign
  <1>2. BatchInv /\ DesignInv /\ [Next]_vars => DesignInv'
    <2> SUFFICES ASSUME BatchInv, DesignInv, [Next]_vars PROVE DesignInv'
      OBVIOUS
    <2>1. CASE BatchWrite
      <3>1. /\ main = "join" /\ main' = "send" /\ pool = <<>>
            /\ UNCHANGED <<pool, made, unsent, version, iter, listed, broadcasts, copy, ran>>
            /\ file' = IF unsent = <<>> THEN file ELSE unsent
        BY <2>1 DEF BatchWrite, Goes, Routing, cloud
      <3>2. file' \in Seq(Change) /\ JobsOnLeadersDesign'
        BY <3>1 DEF DesignInv, Typed, JobsOnLeadersDesign
      <3> QED BY <3>1, <3>2, OnwardDesign
    <2>2. CASE JoinPA
      <3>1. /\ main = "join_pa" /\ main' = "pa1" /\ pool = <<>>
            /\ UNCHANGED <<pool, made, unsent, file, version, iter, listed, broadcasts, copy, ran>>
        BY <2>2 DEF JoinPA, Goes, Routing, cloud
      <3>2. file' \in Seq(Change) /\ JobsOnLeadersDesign'
        BY <3>1 DEF DesignInv, Typed, JobsOnLeadersDesign
      <3> QED BY <3>1, <3>2, OnwardDesign
    <2>3. CASE Main
      BY <2>1, <2>2, <2>3, StartDesign, PASendDesign, RowsDesign, TADesign, SendDesign,
         MergedDesign, NextBatchDesign DEF Main
    <2>4. CASE Pool
      BY <2>4, PoolSendDesign, PoolUpdatesDesign, PoolClearDesign DEF Pool
    <2>5. ASSUME NEW g \in Group, Job(g) PROVE DesignInv'
      BY <2>5, JobDesign
    <2>6. ASSUME NEW w \in Node, AddWorker(w) \/ Die(w) \/ Restart(w) \/ RowsWaitEnds(w)
          PROVE  DesignInv'
      BY <2>6, WorkersDesign, RowsDesign
    <2>7. CASE UNCHANGED vars
      <3>1. UNCHANGED <<main, pool, made, unsent, file, version, iter, job, ran, listed,
                        broadcasts, copy>>
        BY <2>7 DEF vars, leader, jobs, cloud
      <3>2. /\ Ideal' = Ideal /\ Ideal' \in Copy
            /\ broadcasts' \in Seq(Message) /\ copy' \in [Node -> Copy]
            /\ Copies'
        BY <3>1, CloudKept DEF DesignInv
      <3> QED BY <3>1, <3>2
              DEF DesignInv, Typed, Asked, Phase, FirstDesign, FirstPA, Guides, GuidesTA, SendsTA,
                  SentTA, Settled, Position, JobsOnLeadersDesign
    <2> QED BY <2>3, <2>4, <2>5, <2>6, <2>7 DEF Next
  <1>3. DesignInv => JobsOnLeadersDesign
    BY DEF DesignInv
  <1> QED BY <1>1, <1>2, <1>3, BatchInvHolds, PTL DEF Spec
=============================================================================
