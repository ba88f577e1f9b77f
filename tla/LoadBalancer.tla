----------------------------- MODULE LoadBalancer ---------------------------
(***************************************************************************)
(* The load balancer of distributed detailed routing (src/src/dst).  Every *)
(* connection a client opens gets a thread of its own, which relays one    *)
(* request: a UNICAST job to the least loaded worker, with retries, or a   *)
(* BROADCAST of a design update to every worker.  Another thread looks for *)
(* new workers and replays to them the broadcasts they missed.             *)
(*                                                                         *)
(* The threads share the queue of workers and the broadcasts so far, both  *)
(* under workers_mutex_.  A broadcast and an addWorker hold it while they  *)
(* talk to workers; a UNICAST takes it only to choose or to punish a       *)
(* worker, and uses the address it chose afterwards.                       *)
(*                                                                         *)
(* The client is the router.  It sends a broadcast when none of its        *)
(* requests is open, and jobs when no broadcast of its is open; when a     *)
(* connection is lost it sends the request again while the thread behind   *)
(* the lost connection goes on.  The router does not look at the job type  *)
(* of a broadcast's answer, so that is left out.                           *)
(*                                                                         *)
(* Left out: malformed messages, which are refused before any state is     *)
(* touched, and a worker that restarts and forgets what it has received,   *)
(* which nothing here notices.  Each worker is registered once.            *)
(***************************************************************************)
EXTENDS Naturals, Sequences

CONSTANTS
  Static,         \* the workers registered before the balancer starts
  Domain,         \* the addresses the workers' domain name may resolve to
  Conn,           \* connections open at a time
  Faults,         \* what may go wrong with a worker: a subset of Fault
  PriorityMod,    \* a priority is an unsigned short: 2^16
  MAX_FAILED_WORKERS_TRIALS,
  MaxRequests, MaxLost,     \* bounds: requests, and connections lost
  Free, Lookup    \* nobody, and the thread that looks for workers

Addr == Static \cup Domain

\* The connection is refused; or it breaks after the request was written,
\* before or after the worker handled it.
Fault == {"refused", "unhandled", "unanswered"}

ASSUME BalancerAssumption ==
  /\ Static = {} \/ Domain = {}
  /\ Faults \subseteq Fault
  /\ PriorityMod \in Nat \ {0, 1}
  /\ MAX_FAILED_WORKERS_TRIALS \in Nat \ {0}
  /\ MaxRequests \in Nat /\ MaxLost \in Nat
  /\ Free \notin Conn /\ Lookup \notin Conn /\ Free # Lookup

VARIABLES
  workers,        \* workers_: the priorities of the workers in the queue
  mutex,          \* who holds workers_mutex_
  broadcastData,  \* the broadcasts so far
  known,          \* workers_set of lookUpWorkers
  lookup,         \* position of lookUpWorkers
  conn,           \* position of each connection's handle_read
  received,       \* the broadcasts each worker has handled
  acked,          \* the client: broadcasts answered; they are numbered 1, 2, ...
  requests, lost  \* bounds

vars == <<workers, mutex, broadcastData, known, lookup, conn, received, acked,
          requests, lost>>

balancer == <<workers, mutex, broadcastData>>
client   == <<acked, requests, lost>>

Listed == DOMAIN workers

IdleConn == [pc |-> "idle"]
Waiting  == [pc |-> "wait"]

Busy(c) == conn[c].pc # "idle"
Outstanding(c) == Busy(c) /\ conn[c].watched
Broadcasting(c) == conn[c].pc \in {"lock", "send"}

\* workers_ without some of its entries.
Without(q, A) == [a \in DOMAIN q \ A |-> q[a]]

LeastLoaded(q) == {a \in DOMAIN q : \A b \in DOMAIN q : q[a] <= q[b]}

-----------------------------------------------------------------------------
(***************************************************************************)
(* The client.                                                             *)
(***************************************************************************)

Opens(c) ==
  /\ ~Busy(c)
  /\ requests < MaxRequests /\ requests' = requests + 1
  /\ UNCHANGED <<balancer, known, lookup, received, acked, lost>>

\* sendJob of a broadcast: the same one until it is answered.
SendBroadcast(c) ==
  /\ Opens(c)
  /\ \A d \in Conn : ~Outstanding(d)
  /\ conn' = [conn EXCEPT ![c] = [pc |-> "lock", watched |-> TRUE, msg |-> acked + 1]]

\* sendJob of a job; seen is what the client knows to be broadcast.
SendUnicast(c) ==
  /\ Opens(c)
  /\ \A d \in Conn : Outstanding(d) => ~Broadcasting(d)
  /\ \E job \in {"BALANCER", "ROUTING"} :
       conn' = [conn EXCEPT ![c] = [pc |-> "next", watched |-> TRUE, job |-> job,
                                    seen |-> acked, trials |-> 0, written |-> FALSE]]

\* The connection between the client and the balancer breaks: the client is
\* free to send again, the thread does not notice.
LoseConnection(c) ==
  /\ Outstanding(c)
  /\ lost < MaxLost /\ lost' = lost + 1
  /\ conn' = [conn EXCEPT ![c].watched = FALSE]
  /\ UNCHANGED <<balancer, known, lookup, received, acked, requests>>

-----------------------------------------------------------------------------
(***************************************************************************)
(* handle_read of a UNICAST request.                                       *)
(***************************************************************************)

\* What a step of a UNICAST leaves alone.
Relays == UNCHANGED <<broadcastData, mutex, known, lookup, received, client>>

\* A worker goes back into the queue with one more job, up to the largest
\* unsigned short.
PopAndPush(a) ==
  [workers EXCEPT ![a] = IF @ # PriorityMod - 1 THEN @ + 1 ELSE @]

\* getNextWorker finds no worker.  The first time the connection is closed
\* without an answer; later the thread keeps the address it had.
NoWorker(c) ==
  /\ conn[c].pc = "next" /\ mutex = Free
  /\ Listed = {}
  /\ conn' = [conn EXCEPT ![c] = IF conn[c].trials = 0 THEN IdleConn
                                 ELSE [@ EXCEPT !.pc = "relay"]]
  /\ UNCHANGED workers /\ Relays

\* getNextWorker; a BALANCER job is answered with the address.
GetNextWorker(c) ==
  /\ conn[c].pc = "next" /\ mutex = Free
  /\ \E a \in LeastLoaded(workers) :
       /\ workers' = PopAndPush(a)
       /\ conn' = [conn EXCEPT ![c] =
            [pc |-> "relay", addr |-> a, watched |-> @.watched, job |-> @.job,
             seen |-> @.seen, trials |-> @.trials, written |-> @.written]]
  /\ Relays

\* A BALANCER job is answered with the worker's address.
ReplyAddress(c) ==
  /\ conn[c].pc = "relay" /\ conn[c].job = "BALANCER"
  /\ conn' = [conn EXCEPT ![c] = IdleConn]
  /\ UNCHANGED workers /\ Relays

\* The worker handles the job and its answer is passed on.  The request is
\* written from in_packet_, which writing empties: a second write sends
\* nothing, and the worker waits for a request that never comes.
RelayJob(c) ==
  /\ conn[c].pc = "relay" /\ conn[c].job = "ROUTING"
  /\ conn' = [conn EXCEPT ![c] = IF @.written THEN [@ EXCEPT !.pc = "stuck"]
                                 ELSE IdleConn]
  /\ UNCHANGED workers /\ Relays

RelayFails(c) ==
  /\ conn[c].pc = "relay" /\ conn[c].job = "ROUTING"
  /\ \E f \in Faults :
       conn' = [conn EXCEPT ![c].pc = "punish", ![c].written = @ \/ f # "refused"]
  /\ UNCHANGED workers /\ Relays

\* Doubling a priority wraps around at the width of an unsigned short.
Punished(p) == IF p = 0 THEN 2 % PriorityMod ELSE (p * 2) % PriorityMod

\* Faulty: the trials are not counted.
PunishWorkerForever(c) ==
  /\ conn[c].pc = "punish" /\ mutex = Free
  /\ workers' = [a \in Listed |-> IF a = conn[c].addr THEN Punished(workers[a])
                                  ELSE workers[a]]
  /\ conn' = [conn EXCEPT ![c].pc = "next"]
  /\ Relays

\* punishWorker, if the worker is still in the queue; the last trial that
\* fails is answered with an ERROR.
PunishWorker(c) ==
  /\ conn[c].pc = "punish" /\ mutex = Free
  /\ workers' = [a \in Listed |-> IF a = conn[c].addr THEN Punished(workers[a])
                                  ELSE workers[a]]
  /\ LET trials == conn[c].trials + 1
     IN conn' = [conn EXCEPT ![c] =
                   IF trials = MAX_FAILED_WORKERS_TRIALS THEN IdleConn
                   ELSE [@ EXCEPT !.pc = "next", !.trials = trials]]
  /\ Relays

-----------------------------------------------------------------------------
(***************************************************************************)
(* handle_read of a BROADCAST request.                                     *)
(***************************************************************************)

\* What sending a broadcast to a worker can come to: its new history, and
\* whether the sender sees a failure.
Deliveries(a, m) ==
  {<<Append(received[a], m), FALSE>>}
  \cup {<<IF f = "unanswered" THEN Append(received[a], m) ELSE received[a], TRUE>> :
          f \in Faults}

BroadcastBegin(c) ==
  /\ conn[c].pc = "lock" /\ mutex = Free
  /\ mutex' = c
  /\ broadcastData' = Append(broadcastData, conn[c].msg)
  /\ conn' = [conn EXCEPT ![c] = [pc |-> "send", watched |-> @.watched, msg |-> @.msg,
                                  todo |-> Listed, failed |-> {}]]
  /\ UNCHANGED <<workers, known, lookup, received, client>>

\* The pool's threads send it to all workers at once, in any order.
BroadcastSend(c, a) ==
  /\ conn[c].pc = "send" /\ a \in conn[c].todo
  /\ \E d \in Deliveries(a, conn[c].msg) :
       /\ received' = [received EXCEPT ![a] = d[1]]
       /\ conn' = [conn EXCEPT ![c].todo = @ \ {a},
                               ![c].failed = IF d[2] THEN @ \cup {a} ELSE @]
  /\ UNCHANGED <<balancer, known, lookup, client>>

\* Faulty: the failed workers stay.
BroadcastEndKeepsFailed(c) ==
  /\ conn[c].pc = "send" /\ conn[c].todo = {}
  /\ workers' = workers
  /\ acked' = IF conn[c].watched THEN acked + 1 ELSE acked
  /\ conn' = [conn EXCEPT ![c] = IdleConn]
  /\ mutex' = Free
  /\ UNCHANGED <<broadcastData, known, lookup, received, requests, lost>>

\* Failed workers are removed.
BroadcastEnd(c) ==
  /\ conn[c].pc = "send" /\ conn[c].todo = {}
  /\ workers' = Without(workers, conn[c].failed)
  /\ acked' = IF conn[c].watched THEN acked + 1 ELSE acked
  /\ conn' = [conn EXCEPT ![c] = IdleConn]
  /\ mutex' = Free
  /\ UNCHANGED <<broadcastData, known, lookup, received, requests, lost>>

-----------------------------------------------------------------------------
(***************************************************************************)
(* lookUpWorkers, and addWorker as it calls it.                            *)
(***************************************************************************)

Looks == UNCHANGED <<broadcastData, conn, client>>

\* Faulty: addresses are added whenever they are found.
ResolveAgain ==
  /\ lookup.pc = "wait"
  /\ \E S \in SUBSET Domain \ {{}} :
       /\ known' = known \cup S
       /\ lookup' = [pc |-> "add", todo |-> S]
  /\ UNCHANGED <<workers, mutex, received>> /\ Looks

\* Addresses never seen before are added one after the other.
Resolve ==
  /\ lookup.pc = "wait"
  /\ \E S \in SUBSET (Domain \ known) \ {{}} :
       /\ known' = known \cup S
       /\ lookup' = [pc |-> "add", todo |-> S]
  /\ UNCHANGED <<workers, mutex, received>> /\ Looks

\* Faulty: the mutex is taken for the push only.
AddWorkerBeginNoLock ==
  /\ lookup.pc = "add"
  /\ \E a \in lookup.todo :
       lookup' = [pc |-> "replay", todo |-> lookup.todo \ {a}, addr |-> a,
                  upto |-> Len(broadcastData), k |-> 0, valid |-> TRUE]
  /\ UNCHANGED <<workers, mutex, known, received>> /\ Looks

AddWorkerBegin ==
  /\ lookup.pc = "add" /\ mutex = Free
  /\ mutex' = Lookup
  /\ \E a \in lookup.todo :
       lookup' = [pc |-> "replay", todo |-> lookup.todo \ {a}, addr |-> a,
                  upto |-> Len(broadcastData), k |-> 0, valid |-> TRUE]
  /\ UNCHANGED <<workers, known, received>> /\ Looks

\* One saved broadcast; the first failure ends the replay.
AddWorkerReplay ==
  /\ lookup.pc = "replay" /\ lookup.valid /\ lookup.k < lookup.upto
  /\ \E d \in Deliveries(lookup.addr, broadcastData[lookup.k + 1]) :
       /\ received' = [received EXCEPT ![lookup.addr] = d[1]]
       /\ lookup' = [lookup EXCEPT !.k = @ + 1, !.valid = ~d[2]]
  /\ UNCHANGED <<workers, mutex, known>> /\ Looks

\* The worker enters the queue if it has every broadcast.  It is not looked
\* for again if it has not.
AddWorkerEnd ==
  /\ lookup.pc = "replay" /\ (lookup.valid => lookup.k = lookup.upto)
  /\ workers' = IF lookup.valid
                THEN [a \in Listed \cup {lookup.addr} |->
                        IF a = lookup.addr THEN 0 ELSE workers[a]]
                ELSE workers
  /\ mutex' = Free
  /\ lookup' = IF lookup.todo = {} THEN Waiting
               ELSE [pc |-> "add", todo |-> lookup.todo]
  /\ UNCHANGED <<known, received>> /\ Looks

-----------------------------------------------------------------------------
Init ==
  /\ workers = [a \in Static |-> 0]
  /\ mutex = Free
  /\ broadcastData = <<>>
  /\ known = {} /\ lookup = Waiting
  /\ conn = [c \in Conn |-> IdleConn]
  /\ received = [a \in Addr |-> <<>>]
  /\ acked = 0 /\ requests = 0 /\ lost = 0

Thread(c) ==
  \/ NoWorker(c) \/ GetNextWorker(c) \/ ReplyAddress(c)
  \/ RelayJob(c) \/ RelayFails(c) \/ PunishWorker(c)
  \/ BroadcastBegin(c) \/ (\E a \in Addr : BroadcastSend(c, a)) \/ BroadcastEnd(c)

LookupThread == AddWorkerBegin \/ AddWorkerReplay \/ AddWorkerEnd

Next ==
  \/ \E c \in Conn :
       SendBroadcast(c) \/ SendUnicast(c) \/ LoseConnection(c) \/ Thread(c)
  \/ Resolve \/ LookupThread

Spec == Init /\ [][Next]_vars

\* Every thread runs, and every attempt to talk to a worker comes to an end.
FairSpec == Spec /\ (\A c \in Conn : WF_vars(Thread(c))) /\ WF_vars(LookupThread)

-----------------------------------------------------------------------------
(***************************************************************************)
(* Properties.                                                             *)
(***************************************************************************)

Job == {"BALANCER", "ROUTING"}

\* What a thread knows: a UNICAST before it has chosen a worker and after, a
\* BROADCAST before it has the mutex and with it.
Unplaced == [pc : {"next"}, watched : BOOLEAN, job : Job, seen : Nat, trials : {0},
             written : {FALSE}]
Placed == [pc : {"next", "relay", "stuck", "punish"}, addr : Addr, watched : BOOLEAN,
           job : Job, seen : Nat, trials : Nat, written : BOOLEAN]
Locking == [pc : {"lock"}, watched : BOOLEAN, msg : Nat]
Sending == [pc : {"send"}, watched : BOOLEAN, msg : Nat, todo : SUBSET Addr,
            failed : SUBSET Addr]

\* The same of lookUpWorkers, before and while it adds a worker.
Adding == [pc : {"add"}, todo : SUBSET Domain]
Replaying == [pc : {"replay"}, todo : SUBSET Domain, addr : Domain, upto : Nat, k : Nat,
              valid : BOOLEAN]

\* The variables have the types their declarations give them; a priority keeps
\* to the width of an unsigned short.
TypeOK ==
  /\ Listed \subseteq Addr /\ workers \in [Listed -> 0..(PriorityMod - 1)]
  /\ mutex \in Conn \cup {Free, Lookup}
  /\ broadcastData \in Seq(Nat)
  /\ known \in SUBSET Domain
  /\ lookup \in {Waiting} \cup Adding \cup Replaying
  /\ conn \in [Conn -> {IdleConn} \cup Unplaced \cup Placed \cup Locking \cup Sending]
  /\ received \in [Addr -> Seq(Nat)]
  /\ acked \in Nat /\ requests \in Nat /\ lost \in Nat

\* A worker in the queue has handled every broadcast, in order, each as often
\* as it was sent, whenever the mutex is free; a worker without them would
\* "have invalid state".  Broadcasts, failed deliveries and late workers may
\* interleave in any order.
ListedHaveHistory ==
  mutex = Free => \A a \in Listed : received[a] = broadcastData

\* The worker a thread has chosen has every broadcast the client knew to be
\* done when it sent the job, even when a broadcast that is still running has
\* removed that worker from the queue meanwhile.
JobsSeeHistory ==
  \A c \in Conn : conn[c].pc = "relay" =>
    \A m \in 1..conn[c].seen : \E k \in 1..Len(received[conn[c].addr]) :
      received[conn[c].addr][k] = m

\* A client that never has to send a broadcast twice has it applied at most
\* once by any worker, replays to late workers included.
AppliedOnce ==
  lost = 0 =>
    \A a \in Addr : \A j, k \in 1..Len(received[a]) : received[a][j] = received[a][k] => j = k

\* Every request comes to an end, its connection answered or closed, although
\* the search for workers holds the mutex while it replays, workers fail in
\* every way and a retry is counted against those of before; but for a thread
\* that has written its request twice, which waits for ever.
RequestsMove == \A c \in Conn : Busy(c) ~> ~Busy(c) \/ conn[c].pc = "stuck"

\* Every request comes to an end: its connection is answered or closed.
RequestsEnd == \A c \in Conn : Busy(c) ~> ~Busy(c)
=============================================================================
