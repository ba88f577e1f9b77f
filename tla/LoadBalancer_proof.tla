------------------------- MODULE LoadBalancer_proof -------------------------
(***************************************************************************)
(* Proofs about LoadBalancer, for any sets of workers and connections, any *)
(* faults, and any number of requests and lost connections.                *)
(***************************************************************************)
EXTENDS LoadBalancer, SequenceTheorems, TLAPS

USE BalancerAssumption

Unicast == {IdleConn} \cup Unplaced \cup Placed

ConnState == Unicast \cup Locking \cup Sending
LookupState == {Waiting} \cup Adding \cup Replaying

-----------------------------------------------------------------------------
(***************************************************************************)
(* Types.                                                                  *)
(***************************************************************************)

\* By its position a thread is in one of the sets that ConnState is made of.
LEMMA ThreadStates ==
  ASSUME NEW r \in ConnState
  PROVE  /\ r.pc = "idle" => r = IdleConn
         /\ r.pc \in {"relay", "stuck", "punish"} => r \in Placed
         /\ r.pc = "next" => r \in Placed \/ (r \in Unplaced /\ r.trials = 0)
         /\ r.pc = "lock" => r \in Locking
         /\ r.pc = "send" => r \in Sending
         /\ r.pc \in {"idle", "relay", "stuck", "punish", "next", "lock", "send"}
PROOF
  <1>1. CASE r = IdleConn
    BY <1>1 DEF IdleConn
  <1>2. CASE r \in Unplaced
    BY <1>2 DEF Unplaced
  <1>3. CASE r \in Placed
    BY <1>3 DEF Placed
  <1>4. CASE r \in Locking
    BY <1>4 DEF Locking
  <1>5. CASE r \in Sending
    BY <1>5 DEF Sending
  <1> QED BY <1>1, <1>2, <1>3, <1>4, <1>5 DEF ConnState, Unicast

LEMMA LookupStates ==
  ASSUME NEW r \in LookupState
  PROVE  /\ r.pc = "wait" => r = Waiting
         /\ r.pc = "add" => r \in Adding
         /\ r.pc = "replay" => r \in Replaying
         /\ r.pc \in {"wait", "add", "replay"}
PROOF
  BY DEF LookupState, Waiting, Adding, Replaying

\* A worker that is punished keeps a priority that fits.
LEMMA PunishedFits ==
  ASSUME NEW p \in 0..(PriorityMod - 1)
  PROVE  Punished(p) \in 0..(PriorityMod - 1)
PROOF
  BY DEF Punished

\* What comes of sending a broadcast: the worker has it at the end of its
\* history, or has not and the sender knows.
LEMMA DeliveriesProperties ==
  ASSUME TypeOK, NEW a \in Addr, NEW b \in Nat, NEW d \in Deliveries(a, b)
  PROVE  /\ d[1] \in Seq(Nat) /\ d[2] \in BOOLEAN
         /\ d[1] = Append(received[a], b) \/ (d[1] = received[a] /\ d[2])
PROOF
  <1>1. received[a] \in Seq(Nat)
    BY DEF TypeOK
  <1>2. Append(received[a], b) \in Seq(Nat)
    BY <1>1
  <1>3. CASE d = <<Append(received[a], b), FALSE>>
    BY <1>2, <1>3
  <1>4. ASSUME NEW f \in Faults,
               d = <<IF f = "unanswered" THEN Append(received[a], b) ELSE received[a], TRUE>>
        PROVE  /\ d[1] \in Seq(Nat) /\ d[2] \in BOOLEAN
               /\ d[1] = Append(received[a], b) \/ (d[1] = received[a] /\ d[2])
    BY <1>1, <1>2, <1>4
  <1> QED BY <1>3, <1>4 DEF Deliveries

\* A step of a UNICAST thread.
LEMMA UnicastType ==
  ASSUME TypeOK, NEW c \in Conn,
         NoWorker(c) \/ GetNextWorker(c) \/ ReplyAddress(c) \/ RelayJob(c)
           \/ RelayFails(c) \/ PunishWorker(c)
  PROVE  /\ TypeOK'
         /\ conn[c].pc \in {"next", "relay", "punish"}
         /\ conn'[c].pc \in {"idle", "next", "relay", "stuck", "punish"}
         /\ conn' = [conn EXCEPT ![c] = conn'[c]]
         /\ Listed' = Listed /\ Relays
         /\ conn'[c].pc # "idle" => conn'[c].watched = conn[c].watched
                                    /\ conn'[c].seen = conn[c].seen
PROOF
  <1>1. conn[c] \in ConnState
    BY DEF TypeOK, ConnState, Unicast
  <1>2. CASE NoWorker(c)
    <2>1. CASE conn[c].trials = 0
      BY <1>1, <1>2, <2>1 DEF NoWorker, TypeOK, Relays, client, IdleConn, Listed
    <2>2. CASE conn[c].trials # 0
      <3>1. conn[c] \in Placed
        BY <1>1, <1>2, <2>2, ThreadStates DEF NoWorker
      <3>2. [conn[c] EXCEPT !.pc = "relay"] \in Placed
        BY <3>1 DEF Placed
      <3> QED BY <1>1, <1>2, <2>2, <3>1, <3>2 DEF NoWorker, TypeOK, Relays, client, Listed, Placed
    <2> QED BY <2>1, <2>2
  <1>3. CASE GetNextWorker(c)
    <2>1. PICK a \in LeastLoaded(workers) :
            /\ workers' = PopAndPush(a)
            /\ conn' = [conn EXCEPT ![c] =
                 [pc |-> "relay", addr |-> a, watched |-> @.watched, job |-> @.job,
                  seen |-> @.seen, trials |-> @.trials, written |-> @.written]]
      BY <1>3 DEF GetNextWorker
    <2>2. a \in Addr
      BY <2>1 DEF LeastLoaded, TypeOK, Listed
    <2>3. conn[c] \in Placed \/ conn[c] \in Unplaced
      BY <1>1, <1>3, ThreadStates DEF GetNextWorker
    <2>4. [pc |-> "relay", addr |-> a, watched |-> conn[c].watched, job |-> conn[c].job,
           seen |-> conn[c].seen, trials |-> conn[c].trials,
           written |-> conn[c].written] \in Placed
      <3>1. /\ conn[c].watched \in BOOLEAN /\ conn[c].job \in Job /\ conn[c].seen \in Nat
            /\ conn[c].trials \in Nat /\ conn[c].written \in BOOLEAN
        <4>1. CASE conn[c] \in Placed
          BY <4>1 DEF Placed
        <4>2. CASE conn[c] \in Unplaced
          <5>1. /\ conn[c].watched \in BOOLEAN /\ conn[c].job \in Job
                /\ conn[c].seen \in Nat /\ conn[c].trials = 0
            BY <4>2 DEF Unplaced
          <5>2. conn[c].written \in {FALSE}
            BY <4>2, Zenon DEF Unplaced
          <5>3. conn[c].written \in BOOLEAN
            BY <5>2, Zenon
          <5> QED BY <5>1, <5>3
        <4> QED BY <2>3, <4>1, <4>2
      <3> QED BY <2>2, <3>1 DEF Placed
    <2>5. workers' \in [Listed -> 0..(PriorityMod - 1)]
      <3>1. a \in Listed
        BY <2>1 DEF LeastLoaded, Listed
      <3>2. workers[a] \in 0..(PriorityMod - 1)
        BY <3>1 DEF TypeOK
      <3>3. (IF workers[a] # PriorityMod - 1 THEN workers[a] + 1 ELSE workers[a])
              \in 0..(PriorityMod - 1)
        BY <3>2
      <3> QED BY <2>1, <3>1, <3>3 DEF PopAndPush, TypeOK
    <2> QED BY <1>3, <2>1, <2>4, <2>5 DEF GetNextWorker, TypeOK, Relays, client, Listed
  <1>4. CASE ReplyAddress(c)
    BY <1>4 DEF ReplyAddress, TypeOK, Relays, client, IdleConn, Listed
  <1>5. CASE RelayJob(c) \/ RelayFails(c) \/ PunishWorker(c)
    <2>1. conn[c] \in Placed
      BY <1>1, <1>5, ThreadStates DEF RelayJob, RelayFails, PunishWorker
    <2>2. [conn[c] EXCEPT !.pc = "stuck"] \in Placed
      BY <2>1 DEF Placed
    <2>3. ASSUME NEW f PROVE [conn[c] EXCEPT !.pc = "punish",
                                           !.written = @ \/ f # "refused"] \in Placed
      <3> DEFINE w == conn[c].written \/ f # "refused"
      <3>1. w \in BOOLEAN
        OBVIOUS
      <3>2. ASSUME NEW x \in BOOLEAN
            PROVE  [conn[c] EXCEPT !.pc = "punish", !.written = x] \in Placed
        BY <2>1, <3>2 DEF Placed
      <3>3. [conn[c] EXCEPT !.pc = "punish", !.written = w] \in Placed
        BY <3>1, <3>2
      <3> QED BY <3>3
    <2>4. [conn[c] EXCEPT !.pc = "next", !.trials = conn[c].trials + 1] \in Placed
      <3>1. conn[c].trials + 1 \in Nat
        BY <2>1 DEF Placed
      <3>2. ASSUME NEW x \in Nat
            PROVE  [conn[c] EXCEPT !.pc = "next", !.trials = x] \in Placed
        BY <2>1, <3>2 DEF Placed
      <3> QED BY <3>1, <3>2
    <2>5. CASE RelayJob(c)
      BY <2>1, <2>2, <2>5 DEF RelayJob, TypeOK, Relays, client, IdleConn, Listed, Placed
    <2>6. CASE RelayFails(c)
      <3>1. PICK f \in Faults :
              conn' = [conn EXCEPT ![c].pc = "punish", ![c].written = @ \/ f # "refused"]
        BY <2>6 DEF RelayFails
      <3>2. conn' = [conn EXCEPT ![c] = [conn[c] EXCEPT !.pc = "punish",
                                                     !.written = @ \/ f # "refused"]]
        BY <3>1, <2>1 DEF TypeOK, Placed
      <3>3. conn'[c] \in Placed /\ conn'[c].pc = "punish"
            /\ conn'[c].watched = conn[c].watched /\ conn'[c].seen = conn[c].seen
        <4> DEFINE q == [conn[c] EXCEPT !.pc = "punish", !.written = @ \/ f # "refused"]
        <4>1. conn'[c] = q
          BY <3>2 DEF TypeOK
        <4>2. q \in Placed
          BY <2>3
        <4>3. q.pc = "punish" /\ q.watched = conn[c].watched /\ q.seen = conn[c].seen
          BY <2>1 DEF Placed
        <4> QED BY <4>1, <4>2, <4>3
      <3> QED BY <2>6, <3>2, <3>3 DEF RelayFails, TypeOK, Relays, client, Listed
    <2>7. CASE PunishWorker(c)
      <3>1. workers' \in [Listed -> 0..(PriorityMod - 1)]
        BY <2>7, PunishedFits DEF PunishWorker, TypeOK
      <3>2. conn' = [conn EXCEPT ![c] =
              IF conn[c].trials + 1 = MAX_FAILED_WORKERS_TRIALS THEN IdleConn
              ELSE [conn[c] EXCEPT !.pc = "next", !.trials = conn[c].trials + 1]]
        BY <2>7 DEF PunishWorker
      <3>3. /\ conn'[c] \in {IdleConn} \cup Placed /\ conn'[c].pc \in {"idle", "next"}
            /\ conn'[c].pc # "idle" => conn'[c].watched = conn[c].watched
                                       /\ conn'[c].seen = conn[c].seen
        <4> DEFINE q == [conn[c] EXCEPT !.pc = "next", !.trials = conn[c].trials + 1]
        <4>1. conn'[c] = IdleConn \/ conn'[c] = q
          BY <3>2 DEF TypeOK
        <4>2. q \in Placed /\ q.pc = "next" /\ q.watched = conn[c].watched
              /\ q.seen = conn[c].seen
          BY <2>1, <2>4 DEF Placed
        <4> HIDE DEF q
        <4> QED BY <4>1, <4>2 DEF IdleConn
      <3>4. Listed' = Listed
        BY <2>7 DEF PunishWorker, Listed
      <3> QED BY <2>7, <3>1, <3>2, <3>3, <3>4 DEF PunishWorker, TypeOK, Relays, client
    <2> QED BY <1>5, <2>5, <2>6, <2>7
  <1> QED BY <1>2, <1>3, <1>4, <1>5

\* A step of the client.
LEMMA ClientType ==
  ASSUME TypeOK, NEW c \in Conn, SendBroadcast(c) \/ SendUnicast(c) \/ LoseConnection(c)
  PROVE  TypeOK'
PROOF
  <1>1. conn[c] \in ConnState
    BY DEF TypeOK, ConnState, Unicast
  <1>2. CASE SendBroadcast(c)
    <2>1. [pc |-> "lock", watched |-> TRUE, msg |-> acked + 1] \in Locking
      BY DEF TypeOK, Locking
    <2> QED BY <1>2, <2>1 DEF SendBroadcast, Opens, TypeOK, balancer, Listed
  <1>3. CASE SendUnicast(c)
    <2>1. ASSUME NEW j \in Job
          PROVE  [pc |-> "next", watched |-> TRUE, job |-> j, seen |-> acked,
                  trials |-> 0, written |-> FALSE] \in Unplaced
      BY DEF TypeOK, Unplaced
    <2>2. PICK j \in Job :
            conn' = [conn EXCEPT ![c] = [pc |-> "next", watched |-> TRUE, job |-> j,
                                         seen |-> acked, trials |-> 0, written |-> FALSE]]
      BY <1>3 DEF SendUnicast, Job
    <2>3. conn' \in [Conn -> {IdleConn} \cup Unplaced \cup Placed \cup Locking \cup Sending]
      BY <2>1, <2>2 DEF TypeOK
    <2> QED BY <1>3, <2>3 DEF SendUnicast, Opens, TypeOK, balancer, Listed
  <1>4. CASE LoseConnection(c)
    <2>1. conn[c] # IdleConn
      BY <1>4 DEF LoseConnection, Outstanding, Busy, IdleConn
    <2>2. conn' = [conn EXCEPT ![c] = [conn[c] EXCEPT !.watched = FALSE]]
      BY <1>4 DEF LoseConnection, TypeOK
    <2>3. CASE conn[c] \in Unplaced
      <3>1. [conn[c] EXCEPT !.watched = FALSE] \in Unplaced
        BY <2>3 DEF Unplaced
      <3> QED BY <1>4, <2>2, <3>1 DEF LoseConnection, TypeOK, balancer, Listed
    <2>4. CASE conn[c] \in Placed
      <3>1. [conn[c] EXCEPT !.watched = FALSE] \in Placed
        BY <2>4 DEF Placed
      <3> QED BY <1>4, <2>2, <3>1 DEF LoseConnection, TypeOK, balancer, Listed
    <2>5. CASE conn[c] \in Locking
      <3>1. [conn[c] EXCEPT !.watched = FALSE] \in Locking
        BY <2>5 DEF Locking
      <3> QED BY <1>4, <2>2, <3>1 DEF LoseConnection, TypeOK, balancer, Listed
    <2>6. CASE conn[c] \in Sending
      <3>1. [conn[c] EXCEPT !.watched = FALSE] \in Sending
        BY <2>6 DEF Sending
      <3> QED BY <1>4, <2>2, <3>1 DEF LoseConnection, TypeOK, balancer, Listed
    <2> QED BY <1>1, <2>1, <2>3, <2>4, <2>5, <2>6 DEF ConnState, Unicast
  <1> QED BY <1>2, <1>3, <1>4

\* A step of a BROADCAST thread.
LEMMA BroadcastType ==
  ASSUME TypeOK, NEW c \in Conn,
         BroadcastBegin(c) \/ (\E a \in Addr : BroadcastSend(c, a)) \/ BroadcastEnd(c)
  PROVE  TypeOK'
PROOF
  <1>1. conn[c] \in ConnState
    BY DEF TypeOK, ConnState, Unicast
  <1>2. CASE BroadcastBegin(c)
    <2>1. conn[c] \in Locking
      BY <1>1, <1>2, ThreadStates DEF BroadcastBegin
    <2>2. [pc |-> "send", watched |-> conn[c].watched, msg |-> conn[c].msg,
           todo |-> Listed, failed |-> {}] \in Sending
      BY <2>1 DEF Locking, Sending, TypeOK
    <2>3. Append(broadcastData, conn[c].msg) \in Seq(Nat)
      BY <2>1 DEF Locking, TypeOK
    <2> QED BY <1>2, <2>2, <2>3 DEF BroadcastBegin, TypeOK, Listed, client
  <1>3. ASSUME NEW a \in Addr, BroadcastSend(c, a)
        PROVE  TypeOK'
    <2>1. conn[c] \in Sending
      BY <1>1, <1>3, ThreadStates DEF BroadcastSend
    <2>2. conn[c].msg \in Nat
      BY <2>1 DEF Sending
    <2>3. PICK d \in Deliveries(a, conn[c].msg) :
            /\ received' = [received EXCEPT ![a] = d[1]]
            /\ conn' = [conn EXCEPT ![c].todo = @ \ {a},
                                    ![c].failed = IF d[2] THEN @ \cup {a} ELSE @]
      BY <1>3 DEF BroadcastSend
    <2>4. d[1] \in Seq(Nat)
      BY <2>2, <2>3, DeliveriesProperties
    <2>5. [conn[c] EXCEPT !.todo = @ \ {a}, !.failed = IF d[2] THEN @ \cup {a} ELSE @] \in Sending
      BY <2>1 DEF Sending
    <2>6. conn' = [conn EXCEPT ![c] = [conn[c] EXCEPT !.todo = @ \ {a},
                                         !.failed = IF d[2] THEN @ \cup {a} ELSE @]]
      BY <2>1, <2>3 DEF TypeOK, Sending
    <2>7. conn' \in [Conn -> {IdleConn} \cup Unplaced \cup Placed \cup Locking \cup Sending]
      BY <2>5, <2>6 DEF TypeOK
    <2>8. received' \in [Addr -> Seq(Nat)]
      BY <2>3, <2>4 DEF TypeOK
    <2> QED BY <1>3, <2>7, <2>8 DEF BroadcastSend, TypeOK, balancer, Listed, client
  <1>4. CASE BroadcastEnd(c)
    <2>1. workers' \in [Listed' -> 0..(PriorityMod - 1)] /\ Listed' \subseteq Listed
      BY <1>4 DEF BroadcastEnd, TypeOK, Without, Listed
    <2>2. conn' \in [Conn -> {IdleConn} \cup Unplaced \cup Placed \cup Locking \cup Sending]
      BY <1>4 DEF BroadcastEnd, TypeOK
    <2>3. acked' \in Nat
      BY <1>4 DEF BroadcastEnd, TypeOK
    <2> QED BY <1>4, <2>1, <2>2, <2>3 DEF BroadcastEnd, TypeOK
  <1> QED BY <1>2, <1>3, <1>4

\* A replay does not run beyond the broadcasts there are.
Within == lookup.pc = "replay" => lookup.upto <= Len(broadcastData)

\* A step of the thread that looks for workers.
LEMMA LookupType ==
  ASSUME TypeOK, Within, Resolve \/ LookupThread
  PROVE  TypeOK'
PROOF
  <1>1. lookup \in LookupState
    BY DEF TypeOK, LookupState
  <1>2. CASE Resolve
    <2>1. PICK S \in SUBSET (Domain \ known) \ {{}} :
            known' = known \cup S /\ lookup' = [pc |-> "add", todo |-> S]
      BY <1>2 DEF Resolve
    <2>2. lookup' \in Adding /\ known' \in SUBSET Domain
      BY <2>1 DEF Adding, TypeOK
    <2> QED BY <1>2, <2>2 DEF Resolve, Looks, client, TypeOK, Listed
  <1>3. CASE AddWorkerBegin
    <2>1. lookup \in Adding
      BY <1>1, <1>3, LookupStates DEF AddWorkerBegin
    <2>2. lookup' \in Replaying
      BY <1>3, <2>1 DEF AddWorkerBegin, Adding, Replaying, TypeOK
    <2> QED BY <1>3, <2>2 DEF AddWorkerBegin, Looks, client, TypeOK, Listed
  <1>4. CASE AddWorkerReplay
    <2>1. lookup \in Replaying
      BY <1>1, <1>4, LookupStates DEF AddWorkerReplay
    <2>2. lookup.addr \in Addr /\ lookup.k \in Nat
      BY <2>1 DEF Replaying, Addr
    <2>3. PICK d \in Deliveries(lookup.addr, broadcastData[lookup.k + 1]) :
            /\ received' = [received EXCEPT ![lookup.addr] = d[1]]
            /\ lookup' = [lookup EXCEPT !.k = @ + 1, !.valid = ~d[2]]
      BY <1>4 DEF AddWorkerReplay
    <2>4. d[1] \in Seq(Nat) /\ d[2] \in BOOLEAN
      <3>1. broadcastData[lookup.k + 1] \in Nat
        <4>1. broadcastData \in Seq(Nat) /\ lookup.upto \in Nat
          BY <2>1 DEF TypeOK, Replaying
        <4>2. lookup.k + 1 \in 1..Len(broadcastData)
          BY <1>4, <2>2, <4>1 DEF AddWorkerReplay, Within
        <4> QED BY <4>1, <4>2, ElementOfSeq
      <3> QED BY <2>2, <2>3, <3>1, DeliveriesProperties
    <2>5. lookup' \in Replaying
      <3>1. ASSUME NEW x \in BOOLEAN
            PROVE  [lookup EXCEPT !.k = @ + 1, !.valid = x] \in Replaying
        <4>1. lookup.k + 1 \in Nat
          BY <2>2
        <4>2. ASSUME NEW y \in Nat
              PROVE  [lookup EXCEPT !.k = y, !.valid = x] \in Replaying
          BY <2>1, <3>1, <4>2 DEF Replaying
        <4> QED BY <4>1, <4>2
      <3>2. (~d[2]) \in BOOLEAN
        OBVIOUS
      <3> QED BY <2>3, <3>1, <3>2
    <2>6. received' \in [Addr -> Seq(Nat)]
      BY <2>2, <2>3, <2>4 DEF TypeOK
    <2> QED BY <1>4, <2>5, <2>6 DEF AddWorkerReplay, Looks, client, TypeOK, Listed
  <1>5. CASE AddWorkerEnd
    <2>1. lookup \in Replaying
      BY <1>1, <1>5, LookupStates DEF AddWorkerEnd
    <2>2. lookup' \in {Waiting} \cup Adding
      BY <1>5, <2>1 DEF AddWorkerEnd, Replaying, Adding
    <2>3. lookup.addr \in Addr
      BY <2>1 DEF Replaying, Addr
    <2>4. Listed' \subseteq Addr /\ workers' \in [Listed' -> 0..(PriorityMod - 1)]
      BY <1>5, <2>3 DEF AddWorkerEnd, TypeOK, Listed
    <2> QED BY <1>5, <2>2, <2>4 DEF AddWorkerEnd, Looks, client, TypeOK
  <1> QED BY <1>2, <1>3, <1>4, <1>5 DEF LookupThread

LEMMA TypeStep ==
  ASSUME TypeOK, Within, [Next]_vars
  PROVE  TypeOK' /\ Within'
PROOF
  <1>1. CASE UNCHANGED vars
    BY <1>1 DEF vars, TypeOK, Listed, Within
  <1>2. ASSUME NEW c \in Conn,
               SendBroadcast(c) \/ SendUnicast(c) \/ LoseConnection(c) \/ Thread(c)
        PROVE  TypeOK' /\ Within'
    <2>1. TypeOK'
      BY <1>2, UnicastType, ClientType, BroadcastType DEF Thread
    <2>2. CASE BroadcastBegin(c)
      <3>1. conn[c] \in Locking
        <4>1. conn[c] \in ConnState
          BY DEF TypeOK, ConnState, Unicast
        <4> QED BY <2>2, <4>1, ThreadStates DEF BroadcastBegin
      <3>2. broadcastData \in Seq(Nat) /\ conn[c].msg \in Nat
        BY <3>1 DEF TypeOK, Locking
      <3>3. Len(Append(broadcastData, conn[c].msg)) = Len(broadcastData) + 1
        BY <3>2
      <3>4. lookup.pc = "replay" => lookup.upto \in Nat
        <4>1. lookup \in LookupState
          BY DEF TypeOK, LookupState
        <4> QED BY <4>1, LookupStates DEF Replaying
      <3> QED BY <2>1, <2>2, <3>2, <3>3, <3>4 DEF BroadcastBegin, Within
    <2>3. CASE ~BroadcastBegin(c)
      <3>1. broadcastData' = broadcastData /\ lookup' = lookup
        BY <1>2, <2>3
           DEF SendBroadcast, SendUnicast, Opens, LoseConnection, Thread, NoWorker,
               GetNextWorker, ReplyAddress, RelayJob, RelayFails, PunishWorker, Relays,
               BroadcastSend, BroadcastEnd, balancer
      <3> QED BY <2>1, <3>1 DEF Within
    <2> QED BY <2>2, <2>3
  <1>3. CASE Resolve \/ LookupThread
    <2>1. TypeOK'
      BY <1>3, LookupType
    <2>2. CASE AddWorkerReplay
      <3>1. lookup \in Replaying
        <4>1. lookup \in LookupState
          BY DEF TypeOK, LookupState
        <4> QED BY <2>2, <4>1, LookupStates DEF AddWorkerReplay
      <3>2. lookup'.pc = "replay" /\ lookup'.upto = lookup.upto
        BY <2>2, <3>1 DEF AddWorkerReplay, Replaying
      <3> QED BY <2>1, <2>2, <3>2 DEF AddWorkerReplay, Looks, Within
    <2>3. CASE Resolve \/ AddWorkerBegin \/ AddWorkerEnd
      <3>1. lookup'.pc = "replay" => AddWorkerBegin /\ lookup'.upto = Len(broadcastData)
        BY <2>3 DEF Resolve, AddWorkerBegin, AddWorkerEnd, Waiting
      <3> QED BY <2>1, <2>3, <3>1 DEF Within, AddWorkerBegin, Looks, TypeOK
    <2> QED BY <1>3, <2>2, <2>3 DEF LookupThread
  <1> QED BY <1>1, <1>2, <1>3 DEF Next

\* The variables have the types their declarations give them, whatever the
\* client, the workers and the threads do.
THEOREM TypeCorrect == Spec => []TypeOK
PROOF
  <1>1. Init => TypeOK /\ Within
    BY DEF Init, TypeOK, Listed, Addr, Waiting, Within
  <1>2. TypeOK /\ Within /\ [Next]_vars => TypeOK' /\ Within'
    BY TypeStep
  <1> QED BY <1>1, <1>2, PTL DEF Spec

-----------------------------------------------------------------------------
(***************************************************************************)
(* Histories.  While the mutex is free, the workers in the queue have all  *)
(* broadcasts.  The invariant says what holds while it is taken.           *)
(***************************************************************************)

\* Who holds the mutex is in the middle of talking to workers.
Locks ==
  /\ \A c \in Conn : conn[c].pc = "send" <=> mutex = c
  /\ lookup.pc = "replay" <=> mutex = Lookup

\* Addresses that were not tried yet.
ToAdd == IF lookup.pc = "wait" THEN {} ELSE lookup.todo
Unseen == (Domain \ known) \cup ToAdd

\* They are addresses of the workers' domain.
LEMMA UnseenAddr ==
  ASSUME TypeOK
  PROVE  Unseen \subseteq Domain /\ Unseen \subseteq Addr
PROOF
  <1>1. lookup \in LookupState
    BY DEF TypeOK, LookupState
  <1>2. ToAdd \subseteq Domain
    BY <1>1, LookupStates DEF ToAdd, Adding, Replaying
  <1> QED BY <1>2 DEF Unseen, Addr

\* They have received nothing and are not in the queue, nor is the worker that
\* is being added.
Fresh ==
  /\ ToAdd \subseteq known
  /\ \A a \in Unseen : received[a] = <<>> /\ a \notin Listed
  /\ lookup.pc = "replay" => lookup.addr \notin Unseen \cup Listed

\* A sequence is the beginning of another.
Begins(s, t) == Len(s) <= Len(t) /\ \A i \in 1..Len(s) : s[i] = t[i]

Complete(a) == Len(received[a]) = Len(broadcastData)

\* Every worker has the beginning of the broadcasts.  One in the queue has all
\* of them, but for the last while it is being sent to it, or after it failed;
\* the one that is being added has as many as were replayed to it.
Delivered ==
  /\ \A a \in Addr : Begins(received[a], broadcastData)
  /\ mutex \in {Free, Lookup} => \A a \in Listed : Complete(a)
  /\ \A c \in Conn : conn[c].pc = "send" =>
       /\ conn[c].todo \subseteq Listed
       /\ Len(broadcastData) > 0 /\ broadcastData[Len(broadcastData)] = conn[c].msg
       /\ \A a \in conn[c].todo : Len(received[a]) + 1 = Len(broadcastData)
       /\ \A a \in Listed \ (conn[c].todo \cup conn[c].failed) : Complete(a)
  /\ lookup.pc = "replay" =>
       /\ lookup.upto = Len(broadcastData) /\ lookup.k <= lookup.upto
       /\ lookup.valid => Len(received[lookup.addr]) = lookup.k

HInv == TypeOK /\ Within /\ Locks /\ Fresh /\ Delivered

\* What comes after a broadcast has been added to the end of a history.
LEMMA AppendBegins ==
  ASSUME NEW s \in Seq(Nat), NEW t \in Seq(Nat), NEW b \in Nat
  PROVE  /\ Append(t, b) \in Seq(Nat) /\ Len(Append(t, b)) = Len(t) + 1
         /\ Append(t, b)[Len(t) + 1] = b
         /\ Begins(s, t) => Begins(s, Append(t, b))
         /\ Begins(s, t) /\ Len(s) < Len(t) /\ t[Len(s) + 1] = b
              => Begins(Append(s, b), t) /\ Len(Append(s, b)) = Len(s) + 1
PROOF
  <1>1. Len(s) \in Nat /\ Len(t) \in Nat
    OBVIOUS
  <1>2. /\ Append(t, b) \in Seq(Nat) /\ Len(Append(t, b)) = Len(t) + 1
        /\ Append(t, b)[Len(t) + 1] = b
        /\ \A i \in 1..Len(t) : Append(t, b)[i] = t[i]
    OBVIOUS
  <1>3. /\ Append(s, b) \in Seq(Nat) /\ Len(Append(s, b)) = Len(s) + 1
        /\ Append(s, b)[Len(s) + 1] = b
        /\ \A i \in 1..Len(s) : Append(s, b)[i] = s[i]
    OBVIOUS
  <1>4. Begins(s, t) => Begins(s, Append(t, b))
    BY <1>1, <1>2 DEF Begins
  <1>5. ASSUME Begins(s, t), Len(s) < Len(t), t[Len(s) + 1] = b
        PROVE  Begins(Append(s, b), t)
    <2>1. ASSUME NEW i \in 1..Len(Append(s, b)) PROVE Append(s, b)[i] = t[i]
      <3>1. i \in 1..Len(s) \/ i = Len(s) + 1
        BY <1>1, <1>3
      <3> QED BY <1>3, <1>5, <3>1 DEF Begins
    <2> QED BY <1>1, <1>3, <1>5, <2>1 DEF Begins
  <1> QED BY <1>2, <1>3, <1>4, <1>5

\* Steps that touch neither the queue nor what the workers have, of threads
\* that hold no mutex before or after.
LEMMA OutsideKeepsHInv ==
  ASSUME HInv, TypeOK', NEW c \in Conn,
         conn[c].pc # "send", conn'[c].pc # "send",
         conn' = [conn EXCEPT ![c] = conn'[c]],
         Listed' = Listed,
         UNCHANGED <<mutex, broadcastData, known, lookup, received>>
  PROVE  HInv'
PROOF
  <1>1. \A d \in Conn : d # c => conn'[d] = conn[d]
    BY DEF HInv, TypeOK
  <1>2. Within'
    BY DEF HInv, Within
  <1>3. Locks'
    BY <1>1 DEF HInv, Locks
  <1>4. Fresh'
    BY DEF HInv, Fresh, Unseen, ToAdd
  <1>5. Delivered'
    BY <1>1 DEF HInv, Delivered, Complete
  <1> QED BY <1>2, <1>3, <1>4, <1>5 DEF HInv

LEMMA ClientKeepsHInv ==
  ASSUME HInv, NEW c \in Conn, SendBroadcast(c) \/ SendUnicast(c) \/ LoseConnection(c)
  PROVE  HInv'
PROOF
  <1>1. TypeOK'
    BY ClientType DEF HInv
  <1>2. conn[c] \in ConnState
    BY DEF HInv, TypeOK, ConnState, Unicast
  <1>3. CASE SendBroadcast(c) \/ SendUnicast(c)
    <2>1. conn[c].pc # "send" /\ conn'[c].pc # "send"
          /\ conn' = [conn EXCEPT ![c] = conn'[c]]
      BY <1>3 DEF SendBroadcast, SendUnicast, Opens, Busy, HInv, TypeOK
    <2> QED BY <1>1, <1>3, <2>1, OutsideKeepsHInv
            DEF SendBroadcast, SendUnicast, Opens, balancer, Listed
  <1>4. CASE LoseConnection(c)
    <2>1. \A d \in Conn : /\ conn'[d].pc = conn[d].pc
                          /\ conn[d].pc = "send" => /\ conn'[d].msg = conn[d].msg
                                                    /\ conn'[d].todo = conn[d].todo
                                                    /\ conn'[d].failed = conn[d].failed
      BY <1>2, <1>4, ThreadStates DEF LoseConnection, HInv, TypeOK, Sending
    <2>2. Within' /\ Locks' /\ Fresh'
      BY <1>4, <2>1 DEF LoseConnection, balancer, HInv, Within, Locks, Fresh, Unseen, ToAdd, Listed
    <2>3. Delivered'
      BY <1>4, <2>1 DEF LoseConnection, balancer, HInv, Delivered, Complete, Listed
    <2> QED BY <1>1, <2>2, <2>3 DEF HInv
  <1> QED BY <1>3, <1>4

LEMMA UnicastKeepsHInv ==
  ASSUME HInv, NEW c \in Conn,
         NoWorker(c) \/ GetNextWorker(c) \/ ReplyAddress(c) \/ RelayJob(c)
           \/ RelayFails(c) \/ PunishWorker(c)
  PROVE  HInv'
PROOF
  BY UnicastType, OutsideKeepsHInv DEF HInv, Relays

LEMMA BroadcastKeepsHInv ==
  ASSUME HInv, NEW c \in Conn,
         BroadcastBegin(c) \/ (\E a \in Addr : BroadcastSend(c, a)) \/ BroadcastEnd(c)
  PROVE  HInv'
PROOF
  <1>1. TypeOK' /\ Within'
    BY TypeStep DEF HInv, Next, Thread
  <1>2. conn[c] \in ConnState
    BY DEF HInv, TypeOK, ConnState, Unicast
  <1>3. CASE BroadcastBegin(c)
    <2>1. conn[c] \in Locking
      BY <1>2, <1>3, ThreadStates DEF BroadcastBegin
    <2>2. conn[c].msg \in Nat /\ broadcastData \in Seq(Nat)
      BY <2>1 DEF Locking, HInv, TypeOK
    <2>3. \A d \in Conn : d # c => conn'[d] = conn[d]
      BY <1>3 DEF BroadcastBegin, HInv, TypeOK
    <2>4. /\ conn'[c].pc = "send" /\ conn'[c].msg = conn[c].msg
          /\ conn'[c].todo = Listed /\ conn'[c].failed = {}
      BY <1>3 DEF BroadcastBegin, HInv, TypeOK
    <2>5. /\ broadcastData' = Append(broadcastData, conn[c].msg)
          /\ Len(broadcastData') = Len(broadcastData) + 1
          /\ broadcastData'[Len(broadcastData')] = conn[c].msg
      BY <1>3, <2>2, AppendBegins DEF BroadcastBegin
    <2>6. \A d \in Conn : conn[d].pc # "send"
      BY <1>3 DEF BroadcastBegin, HInv, Locks
    <2>7. lookup.pc # "replay"
      BY <1>3 DEF BroadcastBegin, HInv, Locks
    <2>8. Locks'
      BY <1>3, <2>3, <2>4, <2>6, <2>7 DEF BroadcastBegin, Locks
    <2>9. Fresh'
      BY <1>3 DEF BroadcastBegin, HInv, Fresh, Unseen, ToAdd, Listed
    <2>10. \A a \in Addr : Begins(received'[a], broadcastData')
      BY <1>3, <2>2, <2>5, AppendBegins DEF BroadcastBegin, HInv, TypeOK, Delivered
    <2>11. mutex' \notin {Free, Lookup} /\ Listed' = Listed /\ received' = received
      BY <1>3 DEF BroadcastBegin, Listed
    <2>12. \A a \in Listed : Len(received[a]) = Len(broadcastData)
      BY <1>3 DEF BroadcastBegin, HInv, Delivered, Complete
    <2>13. Len(broadcastData) \in Nat
      BY <2>2
    <2>14. Delivered'
      BY <1>3, <2>3, <2>4, <2>5, <2>6, <2>7, <2>10, <2>11, <2>12, <2>13
         DEF BroadcastBegin, Delivered, Complete
    <2> QED BY <1>1, <2>8, <2>9, <2>14 DEF HInv
  <1>4. ASSUME NEW a \in Addr, BroadcastSend(c, a)
        PROVE  HInv'
    <2>1. conn[c] \in Sending
      BY <1>2, <1>4, ThreadStates DEF BroadcastSend
    <2>2. conn[c].msg \in Nat /\ broadcastData \in Seq(Nat) /\ received[a] \in Seq(Nat)
      BY <2>1 DEF Sending, HInv, TypeOK
    <2>3. PICK d \in Deliveries(a, conn[c].msg) :
            /\ received' = [received EXCEPT ![a] = d[1]]
            /\ conn' = [conn EXCEPT ![c].todo = @ \ {a},
                                    ![c].failed = IF d[2] THEN @ \cup {a} ELSE @]
      BY <1>4 DEF BroadcastSend
    <2>4. /\ d[1] = Append(received[a], conn[c].msg) \/ (d[1] = received[a] /\ d[2])
      BY <2>2, <2>3, DeliveriesProperties DEF HInv
    <2>5. /\ \A e \in Conn : e # c => conn'[e] = conn[e]
          /\ conn'[c].pc = "send" /\ conn'[c].msg = conn[c].msg
          /\ conn'[c].todo = conn[c].todo \ {a}
          /\ conn'[c].failed = IF d[2] THEN conn[c].failed \cup {a} ELSE conn[c].failed
      BY <1>4, <2>1, <2>3 DEF HInv, TypeOK, Sending, BroadcastSend
    <2>6. received'[a] = d[1] /\ \A b \in Addr : b # a => received'[b] = received[b]
      BY <2>3 DEF HInv, TypeOK
    <2>7. UNCHANGED <<workers, mutex, broadcastData, known, lookup>> /\ Listed' = Listed
      BY <1>4 DEF BroadcastSend, balancer, Listed
    <2>8. /\ a \in conn[c].todo /\ a \in Listed /\ mutex = c
          /\ Len(received[a]) + 1 = Len(broadcastData)
          /\ broadcastData[Len(broadcastData)] = conn[c].msg
          /\ Begins(received[a], broadcastData)
      BY <1>4 DEF BroadcastSend, HInv, Delivered, Locks
    <2>9. conn[c].pc = "send" /\ \A e \in Conn : e # c => conn[e].pc # "send"
      BY <1>4, <2>8 DEF BroadcastSend, HInv, Locks
    <2>10. lookup.pc # "replay" /\ mutex \notin {Free, Lookup}
      BY <2>8 DEF HInv, Locks
    <2>11. Locks'
      BY <2>5, <2>7, <2>9, <2>8, <2>10 DEF Locks
    <2>12. Fresh'
      <3>1. Unseen' = Unseen /\ ToAdd' = ToAdd
        BY <2>7 DEF Unseen, ToAdd
      <3>2. Unseen \subseteq Addr
        BY UnseenAddr DEF HInv
      <3>3. a \notin Unseen
        BY <2>8 DEF HInv, Fresh
      <3>4. \A b \in Unseen : received'[b] = <<>> /\ b \notin Listed'
        BY <2>6, <2>7, <3>2, <3>3 DEF HInv, Fresh
      <3> QED BY <2>7, <2>10, <3>1, <3>4 DEF HInv, Fresh
    <2>13. Len(received[a]) \in Nat /\ Len(broadcastData) \in Nat
      BY <2>2
    <2>14. /\ Begins(d[1], broadcastData)
           /\ ~d[2] => Len(d[1]) = Len(broadcastData)
      <3>1. Begins(Append(received[a], conn[c].msg), broadcastData)
            /\ Len(Append(received[a], conn[c].msg)) = Len(broadcastData)
        <4>1. Len(received[a]) < Len(broadcastData)
              /\ broadcastData[Len(received[a]) + 1] = conn[c].msg
          BY <2>8, <2>13
        <4> QED BY <2>2, <2>8, <4>1, AppendBegins
      <3>2. CASE d[1] = Append(received[a], conn[c].msg)
        BY <3>1, <3>2
      <3>3. CASE d[1] = received[a] /\ d[2]
        BY <2>8, <3>3
      <3> QED BY <2>4, <3>2, <3>3
    <2>15. \A b \in Addr : Begins(received'[b], broadcastData')
      BY <2>6, <2>7, <2>14 DEF HInv, Delivered
    <2>16. Listed \subseteq Addr
      BY DEF HInv, TypeOK
    <2>17. \A b \in conn'[c].todo : Len(received'[b]) + 1 = Len(broadcastData')
      BY <2>5, <2>6, <2>7, <2>9, <2>16 DEF HInv, Delivered
    <2>18. \A b \in Listed' \ (conn'[c].todo \cup conn'[c].failed) : Complete(b)'
      BY <2>5, <2>6, <2>7, <2>9, <2>14, <2>16 DEF HInv, Delivered, Complete
    <2>19. Delivered'
      BY <2>5, <2>7, <2>9, <2>10, <2>15, <2>17, <2>18 DEF HInv, Delivered
    <2> QED BY <1>1, <2>11, <2>12, <2>19 DEF HInv
  <1>5. CASE BroadcastEnd(c)
    <2>1. \A d \in Conn : d # c => conn'[d] = conn[d]
      BY <1>5 DEF BroadcastEnd, HInv, TypeOK
    <2>2. conn'[c].pc = "idle"
      BY <1>5 DEF BroadcastEnd, HInv, TypeOK, IdleConn
    <2>3. mutex = c /\ mutex' = Free /\ conn[c].pc = "send" /\ conn[c].todo = {}
      BY <1>5 DEF BroadcastEnd, HInv, Locks
    <2>4. /\ \A d \in Conn : conn'[d].pc # "send"
          /\ lookup.pc # "replay" /\ lookup' = lookup
      BY <1>5, <2>1, <2>2, <2>3 DEF BroadcastEnd, HInv, Locks
    <2>5. Listed' = Listed \ conn[c].failed
      BY <1>5 DEF BroadcastEnd, Without, Listed
    <2>6. UNCHANGED <<broadcastData, known, received>>
      BY <1>5 DEF BroadcastEnd
    <2>7. Locks'
      BY <2>3, <2>4 DEF Locks
    <2>8. Fresh'
      BY <2>4, <2>5, <2>6 DEF HInv, Fresh, Unseen, ToAdd
    <2>9. Delivered'
      BY <2>3, <2>4, <2>5, <2>6 DEF HInv, Delivered, Complete
    <2> QED BY <1>1, <2>7, <2>8, <2>9 DEF HInv
  <1> QED BY <1>3, <1>4, <1>5

LEMMA LookupKeepsHInv ==
  ASSUME HInv, Resolve \/ LookupThread
  PROVE  HInv'
PROOF
  <1>1. TypeOK' /\ Within'
    BY TypeStep DEF HInv, Next
  <1>2. lookup \in LookupState
    BY DEF HInv, TypeOK, LookupState
  <1>3. conn' = conn /\ broadcastData' = broadcastData
    BY DEF Resolve, LookupThread, AddWorkerBegin, AddWorkerReplay, AddWorkerEnd, Looks
  <1>4. CASE Resolve
    <2>1. PICK S \in SUBSET (Domain \ known) :
            known' = known \cup S /\ lookup' = [pc |-> "add", todo |-> S]
      BY <1>4 DEF Resolve
    <2>2. lookup.pc = "wait" /\ lookup'.pc = "add" /\ ToAdd = {} /\ ToAdd' = S
      BY <1>4, <2>1 DEF Resolve, ToAdd
    <2>3. UNCHANGED <<workers, mutex, received>> /\ Listed' = Listed
      BY <1>4 DEF Resolve, Listed
    <2>4. Unseen' = Unseen
      BY <2>1, <2>2 DEF Unseen
    <2>5. Fresh'
      BY <2>1, <2>2, <2>3, <2>4 DEF HInv, Fresh
    <2>6. Locks'
      BY <1>3, <2>2, <2>3 DEF HInv, Locks
    <2>7. Delivered'
      BY <1>3, <2>2, <2>3 DEF HInv, Delivered, Complete
    <2> QED BY <1>1, <2>5, <2>6, <2>7 DEF HInv
  <1>5. CASE AddWorkerBegin
    <2>1. lookup \in Adding
      BY <1>2, <1>5, LookupStates DEF AddWorkerBegin
    <2>2. PICK a \in lookup.todo :
            lookup' = [pc |-> "replay", todo |-> lookup.todo \ {a}, addr |-> a,
                       upto |-> Len(broadcastData), k |-> 0, valid |-> TRUE]
      BY <1>5 DEF AddWorkerBegin
    <2>3. /\ mutex = Free /\ mutex' = Lookup /\ lookup.pc = "add"
          /\ UNCHANGED <<workers, known, received>> /\ Listed' = Listed
      BY <1>5 DEF AddWorkerBegin, Listed
    <2>4. ToAdd = lookup.todo /\ ToAdd' = lookup.todo \ {a}
      BY <2>2, <2>3 DEF ToAdd
    <2>5. a \in Unseen /\ Unseen' = Unseen \ {a}
      BY <2>2, <2>3, <2>4 DEF HInv, Fresh, Unseen
    <2>6. Fresh'
      BY <2>2, <2>3, <2>4, <2>5 DEF HInv, Fresh
    <2>7. \A c \in Conn : conn[c].pc # "send"
      BY <2>3 DEF HInv, Locks
    <2>8. Locks'
      BY <1>3, <2>2, <2>3, <2>7 DEF Locks
    <2>9. Len(received[a]) = 0 /\ Len(broadcastData) \in Nat
      BY <2>5 DEF HInv, Fresh, TypeOK
    <2>10. Delivered'
      BY <1>3, <2>2, <2>3, <2>7, <2>9 DEF HInv, Delivered, Complete
    <2> QED BY <1>1, <2>6, <2>8, <2>10 DEF HInv
  <1>6. CASE AddWorkerReplay
    <2> DEFINE a == lookup.addr
               m == broadcastData[lookup.k + 1]
    <2>1. lookup \in Replaying
      BY <1>2, <1>6, LookupStates DEF AddWorkerReplay
    <2>2. a \in Addr /\ lookup.k \in Nat /\ lookup.upto \in Nat
      BY <2>1 DEF Replaying, Addr
    <2>3. PICK d \in Deliveries(a, m) :
            /\ received' = [received EXCEPT ![a] = d[1]]
            /\ lookup' = [lookup EXCEPT !.k = @ + 1, !.valid = ~d[2]]
      BY <1>6 DEF AddWorkerReplay
    <2>4. /\ UNCHANGED <<workers, mutex, known>> /\ Listed' = Listed
          /\ lookup.pc = "replay" /\ lookup.valid /\ lookup.k < lookup.upto
      BY <1>6 DEF AddWorkerReplay, Listed
    <2>5. /\ mutex = Lookup /\ lookup.upto = Len(broadcastData)
          /\ Len(received[a]) = lookup.k /\ Begins(received[a], broadcastData)
      BY <2>2, <2>4 DEF HInv, Locks, Delivered
    <2>6. /\ broadcastData \in Seq(Nat) /\ received[a] \in Seq(Nat)
          /\ lookup.k + 1 \in 1..Len(broadcastData)
      BY <2>2, <2>4, <2>5 DEF HInv, TypeOK
    <2>7. m \in Nat
      BY <2>6, ElementOfSeq
    <2>8. d[1] = Append(received[a], m) \/ (d[1] = received[a] /\ d[2])
      BY <2>2, <2>3, <2>7, DeliveriesProperties DEF HInv
    <2>9. /\ lookup'.pc = "replay" /\ lookup'.todo = lookup.todo /\ lookup'.addr = a
          /\ lookup'.upto = lookup.upto /\ lookup'.k = lookup.k + 1
          /\ lookup'.valid = ~d[2]
      BY <2>1, <2>3, <2>4 DEF Replaying
    <2>10. received'[a] = d[1] /\ \A b \in Addr : b # a => received'[b] = received[b]
      BY <2>2, <2>3 DEF HInv, TypeOK
    <2>11. a \notin Unseen \cup Listed
      BY <2>4 DEF HInv, Fresh
    <2>12. Fresh'
      <3>1. Unseen' = Unseen /\ ToAdd' = ToAdd
        BY <2>4, <2>9 DEF Unseen, ToAdd
      <3>2. \A b \in Unseen : received'[b] = <<>> /\ b \notin Listed'
        BY <2>4, <2>10, <2>11, UnseenAddr DEF HInv, Fresh
      <3> QED BY <2>4, <2>9, <2>11, <3>1, <3>2 DEF HInv, Fresh
    <2>13. Locks'
      BY <1>3, <2>4, <2>9 DEF HInv, Locks
    <2>14. /\ Begins(Append(received[a], m), broadcastData)
           /\ Len(Append(received[a], m)) = lookup.k + 1
      <3>1. Len(received[a]) < Len(broadcastData) /\ broadcastData[Len(received[a]) + 1] = m
        BY <2>4, <2>5
      <3> QED BY <2>5, <2>6, <2>7, <3>1, AppendBegins
    <2>15. Begins(d[1], broadcastData) /\ (~d[2] => Len(d[1]) = lookup.k + 1)
      <3>1. CASE d[1] = Append(received[a], m)
        BY <2>14, <3>1
      <3>2. CASE d[1] = received[a] /\ d[2]
        BY <2>5, <3>2
      <3> QED BY <2>8, <3>1, <3>2
    <2>16. \A b \in Addr : Begins(received'[b], broadcastData')
      BY <1>3, <2>10, <2>15 DEF HInv, Delivered
    <2>17. \A b \in Listed' : Complete(b)'
      <3>1. Listed \subseteq Addr
        BY DEF HInv, TypeOK
      <3> QED BY <1>3, <2>4, <2>5, <2>10, <2>11, <3>1 DEF HInv, Delivered, Complete
    <2>18. \A c \in Conn : conn[c].pc # "send"
      BY <2>5 DEF HInv, Locks
    <2>19. lookup'.k <= lookup'.upto
      BY <2>2, <2>4, <2>9
    <2>20. lookup'.valid => Len(received'[lookup'.addr]) = lookup'.k
      BY <2>9, <2>10, <2>15
    <2>21. lookup'.upto = Len(broadcastData')
      BY <1>3, <2>5, <2>9
    <2>22. Delivered'
      BY <1>3, <2>16, <2>17, <2>18, <2>19, <2>20, <2>21 DEF Delivered
    <2> QED BY <1>1, <2>12, <2>13, <2>22 DEF HInv
  <1>7. CASE AddWorkerEnd
    <2>1. lookup \in Replaying
      BY <1>2, <1>7, LookupStates DEF AddWorkerEnd
    <2>2. /\ lookup.pc = "replay" /\ (lookup.valid => lookup.k = lookup.upto)
          /\ mutex = Lookup /\ mutex' = Free
          /\ UNCHANGED <<known, received>>
      BY <1>7 DEF AddWorkerEnd, HInv, Locks
    <2>3. Listed' = Listed \/ (lookup.valid /\ Listed' = Listed \cup {lookup.addr})
      BY <1>7 DEF AddWorkerEnd, Listed
    <2>4. lookup'.pc # "replay" /\ ToAdd = lookup.todo /\ ToAdd' = lookup.todo
      BY <1>7, <2>2 DEF AddWorkerEnd, ToAdd, Waiting
    <2>5. Unseen' = Unseen
      BY <2>2, <2>4 DEF Unseen
    <2>6. Fresh'
      BY <2>2, <2>3, <2>4, <2>5 DEF HInv, Fresh
    <2>7. \A c \in Conn : conn[c].pc # "send"
      BY <2>2 DEF HInv, Locks
    <2>8. Locks'
      BY <1>3, <2>2, <2>4, <2>7 DEF Locks, HInv
    <2>9. lookup.valid => Complete(lookup.addr)
      BY <2>2 DEF HInv, Delivered, Complete
    <2>10. \A a \in Listed' : Complete(a)'
      BY <1>3, <2>2, <2>3, <2>9 DEF HInv, Delivered, Complete
    <2>11. Delivered'
      BY <1>3, <2>2, <2>4, <2>7, <2>10 DEF HInv, Delivered
    <2> QED BY <1>1, <2>6, <2>8, <2>11 DEF HInv
  <1> QED BY <1>4, <1>5, <1>6, <1>7 DEF LookupThread

LEMMA InitHInv ==
  ASSUME Init
  PROVE  HInv
PROOF
  <1>1. TypeOK /\ Within
    BY DEF Init, TypeOK, Listed, Addr, Waiting, Within
  <1>2. Locks
    BY DEF Init, Locks, IdleConn, Waiting
  <1>3. Fresh
    BY DEF Init, Fresh, Unseen, ToAdd, Addr, Listed, Waiting
  <1>4. Delivered
    BY DEF Init, Delivered, Complete, Begins, IdleConn, Waiting, Listed, Addr
  <1> QED BY <1>1, <1>2, <1>3, <1>4 DEF HInv

LEMMA HInvHolds == Spec => []HInv
PROOF
  <1>1. Init => HInv
    BY InitHInv
  <1>2. HInv /\ [Next]_vars => HInv'
    <2> SUFFICES ASSUME HInv, [Next]_vars PROVE HInv'
      OBVIOUS
    <2>1. CASE UNCHANGED vars
      BY <2>1 DEF vars, HInv, TypeOK, Within, Locks, Fresh, Unseen, ToAdd, Delivered,
                  Complete, Listed
    <2>2. ASSUME NEW c \in Conn,
                 SendBroadcast(c) \/ SendUnicast(c) \/ LoseConnection(c) \/ Thread(c)
          PROVE  HInv'
      BY <2>2, ClientKeepsHInv, UnicastKeepsHInv, BroadcastKeepsHInv DEF Thread
    <2>3. CASE Resolve \/ LookupThread
      BY <2>3, LookupKeepsHInv
    <2> QED BY <2>1, <2>2, <2>3 DEF Next
  <1> QED BY <1>1, <1>2, PTL DEF Spec

LEMMA FreeHistory ==
  ASSUME HInv, mutex = Free, NEW a \in Listed
  PROVE  received[a] = broadcastData
PROOF
  <1>1. received[a] \in Seq(Nat) /\ broadcastData \in Seq(Nat)
    BY DEF HInv, TypeOK
  <1>2. Begins(received[a], broadcastData) /\ Complete(a)
    BY DEF HInv, TypeOK, Delivered
  <1> QED BY <1>1, <1>2, SeqEqual DEF Begins, Complete

\* The workers that the balancer may choose have every broadcast, in order,
\* whenever the mutex that broadcasts and replays hold is free: however the
\* broadcasts, their failures and the late workers interleave.
THEOREM HistoriesKept == Spec => []ListedHaveHistory
PROOF
  <1>1. HInv => ListedHaveHistory
    BY FreeHistory DEF ListedHaveHistory
  <1> QED BY <1>1, HInvHolds, PTL

-----------------------------------------------------------------------------
(***************************************************************************)
(* Requests.  What a client knows to be broadcast has been saved, and the  *)
(* worker a thread has chosen has it.  A client that has lost no           *)
(* connection has its broadcasts saved once, in the order of their numbers.*)
(***************************************************************************)

Has(s, m) == \E k \in 1..Len(s) : s[k] = m

Jobs(c) == conn[c].pc \in {"next", "relay", "stuck", "punish"}
HasChosen(c) == \/ conn[c].pc \in {"relay", "stuck", "punish"}
                \/ conn[c].pc = "next" /\ conn[c].trials # 0

Saved == \A m \in 1..acked : Has(broadcastData, m)

Chosen ==
  \A c \in Conn :
    /\ Jobs(c) => conn[c].seen <= acked
    /\ HasChosen(c) => \A m \in 1..conn[c].seen : Has(received[conn[c].addr], m)

\* The client waits for nothing else while it waits for a broadcast.
Alone ==
  \A c \in Conn : Broadcasting(c) /\ conn[c].watched =>
    /\ conn[c].msg = acked + 1
    /\ \A d \in Conn : Outstanding(d) => d = c

Counted ==
  lost = 0 =>
    /\ \A c \in Conn : Busy(c) => conn[c].watched
    /\ \A k \in 1..Len(broadcastData) : broadcastData[k] = k
    /\ Len(broadcastData) = IF mutex \in Conn THEN acked + 1 ELSE acked

CInv == HInv /\ Saved /\ Chosen /\ Alone /\ Counted

LEMMA HasMore ==
  ASSUME NEW s \in Seq(Nat), NEW t \in Seq(Nat), Begins(s, t), NEW m, Has(s, m)
  PROVE  Has(t, m)
PROOF
  <1>1. Len(s) \in Nat /\ Len(t) \in Nat
    OBVIOUS
  <1> QED BY <1>1 DEF Has, Begins

LEMMA ClientKeepsCInv ==
  ASSUME CInv, NEW c \in Conn, SendBroadcast(c) \/ SendUnicast(c) \/ LoseConnection(c)
  PROVE  CInv'
PROOF
  <1>1. HInv'
    BY ClientKeepsHInv DEF CInv
  <1>2. UNCHANGED <<workers, mutex, broadcastData, received, acked>>
    BY DEF SendBroadcast, SendUnicast, LoseConnection, Opens, balancer
  <1>3. acked \in Nat /\ lost \in Nat
    BY DEF CInv, HInv, TypeOK
  <1>4. Saved'
    BY <1>2 DEF CInv, Saved
  <1>5. CASE SendBroadcast(c) \/ SendUnicast(c)
    <2>1. /\ \A d \in Conn : d # c => conn'[d] = conn[d]
          /\ lost' = lost /\ conn'[c].watched
      BY <1>5 DEF SendBroadcast, SendUnicast, Opens, CInv, HInv, TypeOK
    <2>2. /\ SendBroadcast(c) => conn'[c].pc = "lock" /\ conn'[c].msg = acked + 1
          /\ SendUnicast(c) => /\ conn'[c].pc = "next" /\ conn'[c].seen = acked
                               /\ conn'[c].trials = 0
      BY <1>5 DEF SendBroadcast, SendUnicast, CInv, HInv, TypeOK
    <2>3. Chosen'
      BY <1>2, <1>3, <1>5, <2>1, <2>2 DEF CInv, Chosen, Jobs, HasChosen
    <2>4. Counted'
      BY <1>2, <2>1 DEF CInv, Counted, Busy
    <2>5. Alone'
      <3>1. CASE SendBroadcast(c)
        BY <1>2, <2>1, <2>2, <3>1
           DEF CInv, Alone, Broadcasting, Outstanding, Busy, SendBroadcast
      <3>2. CASE SendUnicast(c)
        BY <1>2, <2>1, <2>2, <3>2
           DEF CInv, Alone, Broadcasting, Outstanding, Busy, SendUnicast
      <3> QED BY <1>5, <3>1, <3>2
    <2> QED BY <1>1, <1>4, <2>3, <2>4, <2>5 DEF CInv
  <1>6. CASE LoseConnection(c)
    <2>1. lost' # 0
      BY <1>3, <1>6 DEF LoseConnection
    <2>2. /\ \A d \in Conn : d # c => conn'[d] = conn[d]
          /\ conn' = [conn EXCEPT ![c] = [conn[c] EXCEPT !.watched = FALSE]]
      BY <1>6 DEF LoseConnection, CInv, HInv, TypeOK
    <2>3. conn[c] \in ConnState /\ conn[c] # IdleConn
      BY <1>6 DEF LoseConnection, Outstanding, Busy, IdleConn, CInv, HInv, TypeOK,
                  ConnState, Unicast
    <2>4. conn'[c].pc = conn[c].pc /\ ~conn'[c].watched
          /\ (Jobs(c) => conn'[c].seen = conn[c].seen)
          /\ (HasChosen(c)' => HasChosen(c) /\ conn'[c].addr = conn[c].addr)
      <3>1. conn'[c] = [conn[c] EXCEPT !.watched = FALSE]
        BY <2>2 DEF CInv, HInv, TypeOK
      <3>2. CASE conn[c] \in Placed
        BY <3>1, <3>2 DEF Placed, Jobs, HasChosen
      <3>3. CASE conn[c] \in Unplaced
        BY <3>1, <3>3 DEF Unplaced, Jobs, HasChosen
      <3>4. CASE conn[c] \in Locking
        BY <3>1, <3>4 DEF Locking, Jobs, HasChosen
      <3>5. CASE conn[c] \in Sending
        BY <3>1, <3>5 DEF Sending, Jobs, HasChosen
      <3> QED BY <2>3, <3>2, <3>3, <3>4, <3>5 DEF ConnState, Unicast
    <2>5. Chosen'
      <3>1. \A d \in Conn : d # c => (Jobs(d)' <=> Jobs(d)) /\ (HasChosen(d)' <=> HasChosen(d))
        BY <2>2 DEF Jobs, HasChosen
      <3>2. (Jobs(c)' <=> Jobs(c)) /\ (HasChosen(c) => Jobs(c))
        BY <2>4 DEF Jobs, HasChosen
      <3> QED BY <1>2, <2>2, <2>4, <3>1, <3>2 DEF CInv, Chosen
    <2>6. Alone'
      BY <1>2, <2>2, <2>4 DEF CInv, Alone, Broadcasting, Outstanding, Busy
    <2> QED BY <1>1, <1>4, <2>1, <2>5, <2>6 DEF CInv, Counted
  <1> QED BY <1>5, <1>6

LEMMA UnicastKeepsCInv ==
  ASSUME CInv, NEW c \in Conn,
         NoWorker(c) \/ GetNextWorker(c) \/ ReplyAddress(c) \/ RelayJob(c)
           \/ RelayFails(c) \/ PunishWorker(c)
  PROVE  CInv'
PROOF
  <1>1. HInv'
    BY UnicastKeepsHInv DEF CInv
  <1>2. /\ conn[c].pc \in {"next", "relay", "punish"}
        /\ conn'[c].pc \in {"idle", "next", "relay", "stuck", "punish"}
        /\ conn' = [conn EXCEPT ![c] = conn'[c]]
        /\ Relays
        /\ conn'[c].pc # "idle" => conn'[c].watched = conn[c].watched
                                   /\ conn'[c].seen = conn[c].seen
    BY UnicastType DEF CInv, HInv
  <1>3. UNCHANGED <<mutex, broadcastData, received, acked, lost>>
    BY <1>2 DEF Relays, client
  <1>4. \A d \in Conn : d # c => conn'[d] = conn[d]
    BY <1>2 DEF CInv, HInv, TypeOK
  <1>5. Saved'
    BY <1>3 DEF CInv, Saved
  <1>6. Alone'
    BY <1>2, <1>3, <1>4 DEF CInv, Alone, Broadcasting, Outstanding, Busy
  <1>7. Counted'
    BY <1>2, <1>3, <1>4 DEF CInv, Counted, Busy
  <1>8. conn[c] \in ConnState
    BY DEF CInv, HInv, TypeOK, ConnState, Unicast
  <1>9. HasChosen(c)' => \/ HasChosen(c) /\ conn'[c].addr = conn[c].addr
                         \/ mutex = Free /\ conn'[c].addr \in Listed
    <2>1. CASE ReplyAddress(c) \/ NoWorker(c)
      <3>1. conn'[c] = IdleConn
              \/ (conn'[c] = [conn[c] EXCEPT !.pc = "relay"] /\ conn[c].trials # 0
                  /\ conn[c].pc = "next")
        BY <2>1 DEF ReplyAddress, NoWorker, CInv, HInv, TypeOK
      <3>2. conn[c].trials # 0 /\ conn[c].pc = "next" => conn[c] \in Placed
        BY <1>8, ThreadStates
      <3> QED BY <3>1, <3>2 DEF HasChosen, IdleConn, Placed
    <2>2. CASE GetNextWorker(c)
      <3>1. PICK a \in LeastLoaded(workers) :
              conn' = [conn EXCEPT ![c] =
                [pc |-> "relay", addr |-> a, watched |-> @.watched, job |-> @.job,
                 seen |-> @.seen, trials |-> @.trials, written |-> @.written]]
        BY <2>2 DEF GetNextWorker
      <3>2. conn'[c].addr = a
        BY <3>1 DEF CInv, HInv, TypeOK
      <3>3. a \in Listed
        BY DEF LeastLoaded, Listed
      <3> QED BY <2>2, <3>2, <3>3 DEF GetNextWorker
    <2>3. CASE RelayJob(c) \/ RelayFails(c) \/ PunishWorker(c)
      <3>1. conn[c] \in Placed /\ HasChosen(c)
        BY <1>8, <2>3, ThreadStates DEF RelayJob, RelayFails, PunishWorker, HasChosen
      <3>2. CASE RelayJob(c)
        BY <3>1, <3>2 DEF RelayJob, CInv, HInv, TypeOK, HasChosen, IdleConn, Placed
      <3>3. CASE RelayFails(c)
        <4>1. PICK f \in Faults :
                conn' = [conn EXCEPT ![c].pc = "punish", ![c].written = @ \/ f # "refused"]
          BY <3>3 DEF RelayFails
        <4>2. conn'[c] = [conn[c] EXCEPT !.pc = "punish", !.written = @ \/ f # "refused"]
          BY <3>1, <4>1 DEF CInv, HInv, TypeOK, Placed
        <4> QED BY <3>1, <4>2 DEF Placed
      <3>4. CASE PunishWorker(c)
        <4> DEFINE q == [conn[c] EXCEPT !.pc = "next", !.trials = conn[c].trials + 1]
        <4>1. conn'[c] = IdleConn \/ conn'[c] = q
          BY <3>4 DEF PunishWorker, CInv, HInv, TypeOK
        <4>2. q.addr = conn[c].addr
          BY <3>1 DEF Placed
        <4> HIDE DEF q
        <4> QED BY <3>1, <4>1, <4>2 DEF HasChosen, IdleConn
      <3> QED BY <2>3, <3>2, <3>3, <3>4
    <2> QED BY <2>1, <2>2, <2>3
  <1>10. Chosen'
    <2>1. Jobs(c) /\ conn[c].seen <= acked
      BY <1>2 DEF CInv, Chosen, Jobs
    <2>2. Jobs(c)' => conn'[c].seen = conn[c].seen
      BY <1>2 DEF Jobs
    <2>3. ASSUME HasChosen(c)', NEW m \in 1..conn[c].seen
          PROVE  Has(received'[conn'[c].addr], m)
      <3>1. CASE HasChosen(c) /\ conn'[c].addr = conn[c].addr
        BY <1>3, <2>3, <3>1 DEF CInv, Chosen
      <3>2. CASE mutex = Free /\ conn'[c].addr \in Listed
        <4>1. received[conn'[c].addr] = broadcastData
          BY <3>2, FreeHistory DEF CInv
        <4>2. conn[c].seen \in Nat /\ acked \in Nat
          <5>1. conn[c] \in Placed \/ conn[c] \in Unplaced
            BY <1>2, <1>8, ThreadStates
          <5> QED BY <5>1 DEF CInv, HInv, TypeOK, Placed, Unplaced
        <4>3. m \in 1..acked
          BY <2>1, <2>3, <4>2
        <4> QED BY <1>3, <4>1, <4>3 DEF CInv, Saved
      <3> QED BY <1>9, <2>3, <3>1, <3>2
    <2>4. \A d \in Conn : d # c => (Jobs(d)' <=> Jobs(d)) /\ (HasChosen(d)' <=> HasChosen(d))
      BY <1>4 DEF Jobs, HasChosen
    <2>5. HasChosen(c)' => Jobs(c)'
      BY DEF HasChosen, Jobs
    <2> QED BY <1>3, <1>4, <2>1, <2>2, <2>3, <2>4, <2>5 DEF CInv, Chosen
  <1> QED BY <1>1, <1>5, <1>6, <1>7, <1>10 DEF CInv

LEMMA GrownBegins ==
  ASSUME TypeOK, NEW a \in Addr, NEW m \in Nat, NEW t,
         t = Append(received[a], m) \/ t = received[a],
         received' = [received EXCEPT ![a] = t]
  PROVE  \A b \in Addr : Begins(received[b], received'[b])
PROOF
  <1> SUFFICES ASSUME NEW b \in Addr PROVE Begins(received[b], received'[b])
    OBVIOUS
  <1>1. received[b] \in Seq(Nat)
    BY DEF TypeOK
  <1>2. Len(received[b]) \in Nat
    BY <1>1
  <1>3. Begins(received[b], received[b])
    BY <1>2 DEF Begins
  <1>4. Begins(received[b], Append(received[b], m))
    BY <1>1, <1>3, AppendBegins
  <1>5. received'[b] = received[b] \/ (b = a /\ received'[b] = t)
    BY DEF TypeOK
  <1> QED BY <1>3, <1>4, <1>5

\* What a worker has, it keeps.
LEMMA GrowKeepsChosen ==
  ASSUME CInv, HInv', acked' = acked \/ (acked' = acked + 1),
         \A a \in Addr : Begins(received[a], received'[a]),
         \A c \in Conn : Jobs(c)' => conn'[c] = conn[c]
  PROVE  Chosen'
PROOF
  <1> SUFFICES ASSUME NEW c \in Conn, Jobs(c)'
               PROVE  /\ conn'[c].seen <= acked'
                      /\ HasChosen(c)' =>
                           \A m \in 1..conn'[c].seen : Has(received'[conn'[c].addr], m)
    BY DEF Chosen, HasChosen, Jobs
  <1>1. conn'[c] = conn[c] /\ Jobs(c) /\ (HasChosen(c)' <=> HasChosen(c))
    BY DEF Jobs, HasChosen
  <1>2. conn[c] \in ConnState
    BY DEF CInv, HInv, TypeOK, ConnState, Unicast
  <1>3. conn[c].seen \in Nat /\ acked \in Nat
    <2>1. conn[c] \in Placed \/ conn[c] \in Unplaced
      BY <1>1, <1>2, ThreadStates DEF Jobs
    <2> QED BY <2>1 DEF CInv, HInv, TypeOK, Placed, Unplaced
  <1>4. conn[c].seen <= acked
    BY <1>1 DEF CInv, Chosen
  <1>5. ASSUME HasChosen(c), NEW m \in 1..conn[c].seen
        PROVE  Has(received'[conn[c].addr], m)
    <2>1. conn[c] \in Placed
      BY <1>2, <1>5, ThreadStates DEF HasChosen
    <2>2. conn[c].addr \in Addr
      BY <2>1 DEF Placed
    <2>3. Has(received[conn[c].addr], m)
      BY <1>5 DEF CInv, Chosen
    <2>4. received[conn[c].addr] \in Seq(Nat) /\ received'[conn[c].addr] \in Seq(Nat)
      BY <2>2 DEF CInv, HInv, TypeOK
    <2> QED BY <2>2, <2>3, <2>4, HasMore
  <1> QED BY <1>1, <1>3, <1>4, <1>5

LEMMA BroadcastKeepsCInv ==
  ASSUME CInv, NEW c \in Conn,
         BroadcastBegin(c) \/ (\E a \in Addr : BroadcastSend(c, a)) \/ BroadcastEnd(c)
  PROVE  CInv'
PROOF
  <1>1. HInv'
    BY BroadcastKeepsHInv DEF CInv
  <1>2. conn[c] \in ConnState /\ acked \in Nat /\ broadcastData \in Seq(Nat)
    BY DEF CInv, HInv, TypeOK, ConnState, Unicast
  <1>3. Len(broadcastData) \in Nat
    BY <1>2
  <1>4. ASSUME received' = received
        PROVE  \A a \in Addr : Begins(received[a], received'[a])
    <2> SUFFICES ASSUME NEW a \in Addr PROVE Begins(received[a], received[a])
      BY <1>4
    <2>1. received[a] \in Seq(Nat)
      BY DEF CInv, HInv, TypeOK
    <2>2. Len(received[a]) \in Nat
      BY <2>1
    <2> QED BY <2>2 DEF Begins
  <1>5. CASE BroadcastBegin(c)
    <2>1. conn[c] \in Locking
      BY <1>2, <1>5, ThreadStates DEF BroadcastBegin
    <2>2. conn[c].msg \in Nat
      BY <2>1 DEF Locking
    <2>3. /\ \A d \in Conn : d # c => conn'[d] = conn[d]
          /\ conn'[c].pc = "send" /\ conn'[c].msg = conn[c].msg
          /\ conn'[c].watched = conn[c].watched /\ conn[c].pc = "lock"
      BY <1>5 DEF BroadcastBegin, CInv, HInv, TypeOK
    <2>4. /\ mutex = Free /\ mutex' = c /\ UNCHANGED <<received, acked, lost>>
          /\ broadcastData' = Append(broadcastData, conn[c].msg)
      BY <1>5 DEF BroadcastBegin, client
    <2>5. /\ broadcastData' \in Seq(Nat) /\ Len(broadcastData') = Len(broadcastData) + 1
          /\ broadcastData'[Len(broadcastData) + 1] = conn[c].msg
          /\ \A k \in 1..Len(broadcastData) : broadcastData'[k] = broadcastData[k]
      BY <1>2, <2>2, <2>4
    <2>6. Begins(broadcastData, broadcastData')
      BY <1>3, <2>5 DEF Begins
    <2>7. Saved'
      BY <1>2, <2>4, <2>5, <2>6, HasMore DEF CInv, Saved
    <2>8. Alone'
      BY <2>3, <2>4 DEF CInv, Alone, Broadcasting, Outstanding, Busy
    <2>9. Counted'
      <3> SUFFICES ASSUME lost = 0
                   PROVE  /\ \A d \in Conn : Busy(d)' => conn'[d].watched
                          /\ \A k \in 1..Len(broadcastData') : broadcastData'[k] = k
                          /\ Len(broadcastData') = acked + 1
        BY <2>4 DEF Counted
      <3>1. \A d \in Conn : Busy(d)' => conn'[d].watched
        BY <2>3 DEF CInv, Counted, Busy
      <3>2. conn[c].msg = acked + 1
        BY <2>3 DEF CInv, Counted, Busy, Alone, Broadcasting
      <3>3. Len(broadcastData) = acked /\ \A k \in 1..acked : broadcastData[k] = k
        BY <2>4 DEF CInv, Counted
      <3> QED BY <1>2, <2>5, <3>1, <3>2, <3>3
    <2>10. \A d \in Conn : Jobs(d)' => conn'[d] = conn[d]
      BY <2>3 DEF Jobs
    <2>11. Chosen'
      BY <1>1, <1>4, <2>4, <2>10, GrowKeepsChosen
    <2> QED BY <1>1, <2>7, <2>8, <2>9, <2>11 DEF CInv
  <1>6. ASSUME NEW a \in Addr, BroadcastSend(c, a)
        PROVE  CInv'
    <2>1. conn[c] \in Sending
      BY <1>2, <1>6, ThreadStates DEF BroadcastSend
    <2>2. conn[c].msg \in Nat /\ conn[c].pc = "send"
      BY <1>6, <2>1 DEF BroadcastSend, Sending
    <2>3. PICK d \in Deliveries(a, conn[c].msg) :
            /\ received' = [received EXCEPT ![a] = d[1]]
            /\ conn' = [conn EXCEPT ![c].todo = @ \ {a},
                                    ![c].failed = IF d[2] THEN @ \cup {a} ELSE @]
      BY <1>6 DEF BroadcastSend
    <2>4. /\ \A e \in Conn : e # c => conn'[e] = conn[e]
          /\ conn'[c].pc = "send" /\ conn'[c].msg = conn[c].msg
          /\ conn'[c].watched = conn[c].watched
      BY <2>1, <2>2, <2>3 DEF CInv, HInv, TypeOK, Sending
    <2>5. UNCHANGED <<mutex, broadcastData, acked, lost>>
      BY <1>6 DEF BroadcastSend, balancer, client
    <2>6. d[1] = Append(received[a], conn[c].msg) \/ d[1] = received[a]
      BY <2>2, <2>3, DeliveriesProperties DEF CInv, HInv
    <2>7. \A b \in Addr : Begins(received[b], received'[b])
      BY <2>2, <2>3, <2>6, GrownBegins DEF CInv, HInv
    <2>8. \A e \in Conn : Jobs(e)' => conn'[e] = conn[e]
      BY <2>4 DEF Jobs
    <2>9. Chosen'
      BY <1>1, <2>5, <2>7, <2>8, GrowKeepsChosen
    <2>10. Saved' /\ Alone' /\ Counted'
      BY <2>2, <2>4, <2>5 DEF CInv, Saved, Alone, Counted, Broadcasting, Outstanding, Busy
    <2> QED BY <1>1, <2>9, <2>10 DEF CInv
  <1>7. CASE BroadcastEnd(c)
    <2>1. conn[c] \in Sending
      BY <1>2, <1>7, ThreadStates DEF BroadcastEnd
    <2>2. /\ \A d \in Conn : d # c => conn'[d] = conn[d]
          /\ conn'[c].pc = "idle" /\ conn[c].pc = "send"
      BY <1>7 DEF BroadcastEnd, CInv, HInv, TypeOK, IdleConn
    <2>3. /\ mutex = c /\ mutex' = Free /\ UNCHANGED <<broadcastData, received, lost>>
          /\ acked' = IF conn[c].watched THEN acked + 1 ELSE acked
      BY <1>7 DEF BroadcastEnd, CInv, HInv, Locks
    <2>4. Len(broadcastData) > 0 /\ broadcastData[Len(broadcastData)] = conn[c].msg
      BY <2>2 DEF CInv, HInv, Delivered
    <2>5. conn[c].watched => /\ conn[c].msg = acked + 1
                             /\ \A d \in Conn : Outstanding(d) => d = c
      BY <2>2 DEF CInv, Alone, Broadcasting
    <2>6. Saved'
      <3>1. Has(broadcastData, conn[c].msg)
        BY <1>3, <2>4 DEF Has
      <3> QED BY <1>2, <2>3, <2>5, <3>1 DEF CInv, Saved
    <2>7. Alone'
      <3>1. CASE conn[c].watched
        BY <2>2, <2>5, <3>1 DEF Alone, Broadcasting, Outstanding, Busy
      <3>2. CASE ~conn[c].watched
        BY <2>2, <2>3, <3>2 DEF CInv, Alone, Broadcasting, Outstanding, Busy
      <3> QED BY <3>1, <3>2
    <2>8. Counted'
      BY <2>2, <2>3 DEF CInv, Counted, Busy
    <2>9. \A d \in Conn : Jobs(d)' => conn'[d] = conn[d]
      BY <2>2 DEF Jobs
    <2>10. Chosen'
      BY <1>1, <1>4, <2>3, <2>9, GrowKeepsChosen
    <2> QED BY <1>1, <2>6, <2>7, <2>8, <2>10 DEF CInv
  <1> QED BY <1>5, <1>6, <1>7

LEMMA LookupKeepsCInv ==
  ASSUME CInv, Resolve \/ LookupThread
  PROVE  CInv'
PROOF
  <1>1. HInv'
    BY LookupKeepsHInv DEF CInv
  <1>2. UNCHANGED <<conn, broadcastData, acked, lost>>
    BY DEF Resolve, LookupThread, AddWorkerBegin, AddWorkerReplay, AddWorkerEnd, Looks, client
  <1>3. mutex' = mutex \/ (mutex \notin Conn /\ mutex' \notin Conn)
    BY DEF Resolve, LookupThread, AddWorkerBegin, AddWorkerReplay, AddWorkerEnd,
           CInv, HInv, Locks
  <1>4. Saved' /\ Alone' /\ Counted'
    BY <1>2, <1>3 DEF CInv, Saved, Alone, Counted, Broadcasting, Outstanding, Busy
  <1>5. \A b \in Addr : Begins(received[b], received'[b])
    <2>1. CASE received' = received
      <3> SUFFICES ASSUME NEW b \in Addr PROVE Begins(received[b], received[b])
        BY <2>1
      <3>1. received[b] \in Seq(Nat)
        BY DEF CInv, HInv, TypeOK
      <3>2. Len(received[b]) \in Nat
        BY <3>1
      <3> QED BY <3>2 DEF Begins
    <2>2. CASE AddWorkerReplay
      <3> DEFINE a == lookup.addr
                 m == broadcastData[lookup.k + 1]
      <3>1. lookup \in LookupState
        BY DEF CInv, HInv, TypeOK, LookupState
      <3>2. lookup \in Replaying
        BY <2>2, <3>1, LookupStates DEF AddWorkerReplay
      <3>3. a \in Addr /\ lookup.k \in Nat /\ lookup.upto \in Nat
        BY <3>2 DEF Replaying, Addr
      <3>4. broadcastData \in Seq(Nat) /\ lookup.k + 1 \in 1..Len(broadcastData)
        <4>1. broadcastData \in Seq(Nat) /\ Len(broadcastData) \in Nat
          BY DEF CInv, HInv, TypeOK
        <4>2. lookup.k < lookup.upto /\ lookup.upto <= Len(broadcastData)
          BY <2>2 DEF AddWorkerReplay, CInv, HInv, Within
        <4> QED BY <3>3, <4>1, <4>2
      <3>5. m \in Nat
        BY <3>4, ElementOfSeq
      <3>6. PICK d \in Deliveries(a, m) : received' = [received EXCEPT ![a] = d[1]]
        BY <2>2 DEF AddWorkerReplay
      <3>7. d[1] = Append(received[a], m) \/ d[1] = received[a]
        BY <3>3, <3>5, <3>6, DeliveriesProperties DEF CInv, HInv
      <3> QED BY <3>3, <3>5, <3>6, <3>7, GrownBegins DEF CInv, HInv
    <2> QED BY <2>1, <2>2 DEF Resolve, LookupThread, AddWorkerBegin, AddWorkerEnd
  <1>6. Chosen'
    BY <1>1, <1>2, <1>5, GrowKeepsChosen
  <1> QED BY <1>1, <1>4, <1>6 DEF CInv

LEMMA CInvHolds == Spec => []CInv
PROOF
  <1>1. Init => CInv
    BY InitHInv DEF Init, CInv, Saved, Chosen, Alone, Counted, Jobs, HasChosen,
       Broadcasting, Outstanding, Busy, IdleConn
  <1>2. CInv /\ [Next]_vars => CInv'
    <2> SUFFICES ASSUME CInv, [Next]_vars PROVE CInv'
      OBVIOUS
    <2>1. CASE UNCHANGED vars
      <3>1. HInv'
        BY <2>1 DEF vars, CInv, HInv, TypeOK, Within, Locks, Fresh, Unseen, ToAdd,
                    Delivered, Complete, Listed
      <3> QED BY <2>1, <3>1 DEF vars, CInv, Saved, Chosen, Alone, Counted, Jobs,
                 HasChosen, Broadcasting, Outstanding, Busy
    <2>2. ASSUME NEW c \in Conn,
                 SendBroadcast(c) \/ SendUnicast(c) \/ LoseConnection(c) \/ Thread(c)
          PROVE  CInv'
      BY <2>2, ClientKeepsCInv, UnicastKeepsCInv, BroadcastKeepsCInv DEF Thread
    <2>3. CASE Resolve \/ LookupThread
      BY <2>3, LookupKeepsCInv
    <2> QED BY <2>1, <2>2, <2>3 DEF Next
  <1> QED BY <1>1, <1>2, PTL DEF Spec

\* The worker that a job goes to has every broadcast that was done when the
\* client sent the job, though it may have left the queue since.
THEOREM JobsHaveHistory == Spec => []JobsSeeHistory
PROOF
  <1>1. CInv => JobsSeeHistory
    BY DEF CInv, Chosen, HasChosen, Has, JobsSeeHistory
  <1> QED BY <1>1, CInvHolds, PTL

\* A client that has lost no connection has each of its broadcasts applied at
\* most once by any worker, by replays or by the broadcast itself.
THEOREM BroadcastsAppliedOnce == Spec => []AppliedOnce
PROOF
  <1>1. CInv => AppliedOnce
    <2> SUFFICES ASSUME CInv, lost = 0, NEW a \in Addr,
                        NEW j \in 1..Len(received[a]), NEW k \in 1..Len(received[a]),
                        received[a][j] = received[a][k]
                 PROVE  j = k
      BY DEF AppliedOnce
    <2>1. Begins(received[a], broadcastData)
      BY DEF CInv, HInv, Delivered
    <2>2. received[a] \in Seq(Nat) /\ broadcastData \in Seq(Nat)
      BY DEF CInv, HInv, TypeOK
    <2>3. Len(received[a]) \in Nat /\ Len(broadcastData) \in Nat
      BY <2>2
    <2>4. j \in 1..Len(broadcastData) /\ k \in 1..Len(broadcastData)
      BY <2>1, <2>3 DEF Begins
    <2>5. received[a][j] = j /\ received[a][k] = k
      BY <2>1, <2>4 DEF Begins, CInv, Counted
    <2> QED BY <2>5
  <1> QED BY <1>1, CInvHolds, PTL
=============================================================================
