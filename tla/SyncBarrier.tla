---------------------------- MODULE SyncBarrier ----------------------------
(***************************************************************************)
(* The SyncTimer barrier of the Rust Timpani-O (timpani_rust/timpani-o).    *)
(*                                                                         *)
(* AddSchedInfo stores a WorkloadState in the mutex-protected WorkloadStore *)
(* and broadcasts Cancelled on the watch channel of the one it replaces.    *)
(* Each SyncTimer call is a tokio task: under the store lock it subscribes, *)
(* registers its node and possibly broadcasts Released; it then races the   *)
(* channel against its own timer without the lock.  A section that runs     *)
(* under the lock without an await is one action; every await separates two *)
(* actions.                                                                 *)
(*                                                                         *)
(* tokio's watch channel: a receiver remembers the version it has seen, so  *)
(* `unseen` is the set of receivers behind; send() leaves the value alone   *)
(* when the channel has no receiver; changed() reports an unseen value even *)
(* after the sender is gone and fails only when there is none.              *)
(***************************************************************************)
EXTENDS Integers

CONSTANTS Nodes,          \* node identifiers of node_configurations.yaml
          Calls,          \* SyncTimer calls in flight at one time
          MaxWorkloads,   \* bound: workloads accepted in one behaviour
          Clock,          \* readings of CLOCK_REALTIME, in nanoseconds
          NANOS_PER_SEC,
          SYNC_START_OFFSET_NS

ASSUME BoundAssumption == MaxWorkloads \in Nat
ASSUME ClockAssumption == /\ Clock \subseteq Nat
                          /\ NANOS_PER_SEC \in Nat \ {0}
                          /\ SYNC_START_OFFSET_NS \in Nat

VARIABLES cur,       \* the stored workload, 0 for None
          made,      \* workloads stored so far; the next one is made + 1
          active,    \* WorkloadState.active_nodes
          synced,    \* WorkloadState.synced_nodes
          barrier,   \* BarrierStatus held by the watch channel
          start,     \* start_time_sec/nsec carried by Released
          pc,        \* where the handler of a call stands
          on,        \* the workload whose channel the call subscribed to
          unseen,    \* calls whose receiver has not seen the channel's value
          answer,    \* what the call returned
          ackStart   \* the start time an acknowledged call returned

storeVars == <<cur, made, active, synced, barrier, start>>
callVars == <<pc, on, unseen, answer, ackStart>>
vars == <<storeVars, callVars>>

Workloads == 1..MaxWorkloads

BarrierStatus == {"waiting", "released", "cancelled", "timedout"}

Answers == {"none", "ack", "not_found", "failed_precondition", "aborted",
            "closed", "deadline_exceeded", "dropped"}

Timespec == Nat \X (0 .. NANOS_PER_SEC - 1)

compute_start_time(now) ==
    LET start_ns == now + SYNC_START_OFFSET_NS
    IN  <<start_ns \div NANOS_PER_SEC, start_ns % NANOS_PER_SEC>>

Live(c) == pc[c] # "idle"

Receivers(w) == {c \in Calls : Live(c) /\ on[c] = w}

AllSynced(w) == active[w] \subseteq synced[w]

----------------------------------------------------------------------------

Init ==
    /\ cur = 0
    /\ made = 0
    /\ active = [w \in Workloads |-> {}]
    /\ synced = [w \in Workloads |-> {}]
    /\ barrier = [w \in Workloads |-> "waiting"]
    /\ start = [w \in Workloads |-> <<0, 0>>]
    /\ pc = [c \in Calls |-> "idle"]
    /\ on = [c \in Calls |-> 0]
    /\ unseen = {}
    /\ answer = [c \in Calls |-> "none"]
    /\ ackStart = [c \in Calls |-> <<0, 0>>]

(* watch::Sender::send(status) on the channel of w: nothing happens without *)
(* a receiver, otherwise the value changes and every receiver has it unseen *)
Send(w, status) ==
    IF Receivers(w) = {}
    THEN UNCHANGED <<barrier, unseen>>
    ELSE /\ barrier' = [barrier EXCEPT ![w] = status]
         /\ unseen' = unseen \union Receivers(w)

(* Mutation: the replaced workload is dropped without a broadcast           *)
AddSchedInfo_Silent(nodes) ==
    /\ made < MaxWorkloads
    /\ nodes # {}
    /\ made' = made + 1
    /\ cur' = made + 1
    /\ active' = [active EXCEPT ![made + 1] = nodes]
    /\ UNCHANGED <<synced, barrier, start, pc, on, unseen, answer, ackStart>>

(* add_sched_info, accepted: the lock section that cancels the previous     *)
(* barrier and stores the new WorkloadState.  The schedule of an accepted   *)
(* request assigns at least one task, so it has at least one node.          *)
AddSchedInfo(nodes) ==
    /\ made < MaxWorkloads
    /\ nodes # {}
    /\ IF cur = 0 THEN UNCHANGED <<barrier, unseen>> ELSE Send(cur, "cancelled")
    /\ made' = made + 1
    /\ cur' = made + 1
    /\ active' = [active EXCEPT ![made + 1] = nodes]
    /\ UNCHANGED <<synced, start, pc, on, answer, ackStart>>

Return(c, result) ==
    /\ pc' = [pc EXCEPT ![c] = "idle"]
    /\ answer' = [answer EXCEPT ![c] = result]

(* The early returns of sync_timer's first phase, "none" when it registers  *)
Refusal(n) ==
    IF cur = 0 THEN "not_found"
    ELSE IF active[cur] = {} THEN "failed_precondition"
    ELSE IF n \notin active[cur] THEN "not_found"
    ELSE "none"

SyncTimerRefused(c, n) ==
    /\ ~Live(c)
    /\ Refusal(n) # "none"
    /\ on' = [on EXCEPT ![c] = 0]
    /\ answer' = [answer EXCEPT ![c] = Refusal(n)]
    /\ UNCHANGED <<storeVars, pc, unseen, ackStart>>

RegisterWith(c, n, fires) ==
    /\ ~Live(c)
    /\ Refusal(n) = "none"
    /\ on' = [on EXCEPT ![c] = cur]
    /\ pc' = [pc EXCEPT ![c] = "poll"]
    /\ answer' = [answer EXCEPT ![c] = "none"]
    /\ synced' = [synced EXCEPT ![cur] = @ \union {n}]
    /\ IF fires
       THEN /\ barrier' = [barrier EXCEPT ![cur] = "released"]
            /\ \E now \in Clock :
                   start' = [start EXCEPT ![cur] = compute_start_time(now)]
            /\ unseen' = unseen \union Receivers(cur) \union {c}
       ELSE /\ unseen' = unseen \ {c}
            /\ UNCHANGED <<barrier, start>>
    /\ UNCHANGED <<cur, made, active, ackStart>>

(* Mutations: all_synced is computed before the insert; some instead of all *)
SyncTimerRegister_EarlyTest(c, n) == RegisterWith(c, n, active[cur] \subseteq synced[cur])
SyncTimerRegister_Any(c, n) == RegisterWith(c, n, n \in active[cur])

(* sync_timer, first phase: subscribe, register, fire when the set is full. *)
(* The new receiver counts as one when Released is sent.                    *)
SyncTimerRegister(c, n) ==
    RegisterWith(c, n, active[cur] \subseteq synced[cur] \union {n})

(* Mutation: each handler reads the clock for itself                        *)
SyncTimerPoll_OwnClock(c) ==
    /\ pc[c] = "poll"
    /\ barrier[on[c]] = "released"
    /\ Return(c, "ack")
    /\ \E now \in Clock : ackStart' = [ackStart EXCEPT ![c] = compute_start_time(now)]
    /\ unseen' = unseen \ {c}
    /\ UNCHANGED <<storeVars, on>>

(* Mutation: a cancelled handler still acknowledges if all nodes synced     *)
SyncTimerPoll_LateAck(c) ==
    /\ pc[c] = "poll"
    /\ barrier[on[c]] \in {"released", "cancelled"} /\ AllSynced(on[c])
    /\ Return(c, "ack")
    /\ ackStart' = [ackStart EXCEPT ![c] = start[on[c]]]
    /\ unseen' = unseen \ {c}
    /\ UNCHANGED <<storeVars, on>>

(* sync_timer, second phase, top of the loop: borrow_and_update and match   *)
SyncTimerPoll(c) ==
    LET w == on[c] IN
    /\ pc[c] = "poll"
    /\ unseen' = unseen \ {c}
    /\ \/ /\ barrier[w] = "released"
          /\ Return(c, "ack")
          /\ ackStart' = [ackStart EXCEPT ![c] = start[w]]
       \/ /\ barrier[w] = "cancelled"
          /\ Return(c, "aborted")
          /\ UNCHANGED ackStart
       \/ /\ barrier[w] = "timedout"
          /\ Return(c, "deadline_exceeded")
          /\ UNCHANGED ackStart
       \/ /\ barrier[w] = "waiting"
          /\ pc' = [pc EXCEPT ![c] = "select"]
          /\ UNCHANGED <<answer, ackStart>>
    /\ UNCHANGED <<storeVars, on>>

(* changed() resolves: Ok for an unseen value, Err once the sender is gone  *)
SyncTimerChanged(c) ==
    /\ pc[c] = "select"
    /\ c \in unseen \/ on[c] # cur
    /\ unseen' = unseen \ {c}
    /\ IF c \in unseen
       THEN /\ pc' = [pc EXCEPT ![c] = "poll"]
            /\ UNCHANGED answer
       ELSE Return(c, "closed")
    /\ UNCHANGED <<storeVars, on, ackStart>>

(* Mutation: the timer is only looked at after a change                      *)
SyncTimerExpire_AfterChange(c) ==
    /\ pc[c] = "select"
    /\ c \in unseen
    /\ pc' = [pc EXCEPT ![c] = "expired"]
    /\ UNCHANGED <<storeVars, on, unseen, answer, ackStart>>

(* timeout_sleep resolves: select! may pick it although changed() is ready  *)
SyncTimerExpire(c) ==
    /\ pc[c] = "select"
    /\ pc' = [pc EXCEPT ![c] = "expired"]
    /\ UNCHANGED <<storeVars, on, unseen, answer, ackStart>>

(* The timeout arm, once it has the lock: TimedOut goes to the barrier of   *)
(* whatever workload the store holds now.                                   *)
SyncTimerBroadcast(c) ==
    /\ pc[c] = "expired"
    /\ IF cur = 0 THEN UNCHANGED <<barrier, unseen>> ELSE Send(cur, "timedout")
    /\ Return(c, "deadline_exceeded")
    /\ UNCHANGED <<cur, made, active, synced, start, on, ackStart>>

(* The client goes away: tonic drops the handler at one of its awaits       *)
Disconnect(c) ==
    /\ pc[c] \in {"select", "expired"}
    /\ Return(c, "dropped")
    /\ UNCHANGED <<storeVars, on, unseen, ackStart>>

(* Timpani-O stops and starts again: the store is memory only               *)
Restart ==
    /\ cur # 0
    /\ cur' = 0
    /\ pc' = [c \in Calls |-> "idle"]
    /\ answer' = [c \in Calls |-> IF Live(c) THEN "dropped" ELSE answer[c]]
    /\ UNCHANGED <<made, active, synced, barrier, start, on, unseen, ackStart>>

Handler(c) ==
    \/ SyncTimerPoll(c)
    \/ SyncTimerChanged(c)
    \/ SyncTimerExpire(c)
    \/ SyncTimerBroadcast(c)

Next ==
    \/ \E nodes \in SUBSET Nodes : AddSchedInfo(nodes)
    \/ \E c \in Calls, n \in Nodes : SyncTimerRefused(c, n)
    \/ \E c \in Calls, n \in Nodes : SyncTimerRegister(c, n)
    \/ \E c \in Calls : Handler(c)
    \/ \E c \in Calls : Disconnect(c)
    \/ Restart

Spec == Init /\ [][Next]_vars

(* Every handler task is polled again when it can run: its timer is armed,  *)
(* the tokio mutex is first-come first-served and its holders never await   *)
FairSpec == Spec /\ \A c \in Calls : WF_vars(Handler(c))

----------------------------------------------------------------------------

TypeOK ==
    /\ cur \in 0..made
    /\ made \in 0..MaxWorkloads
    /\ active \in [Workloads -> SUBSET Nodes]
    /\ synced \in [Workloads -> SUBSET Nodes]
    /\ barrier \in [Workloads -> BarrierStatus]
    /\ start \in [Workloads -> Timespec]
    /\ pc \in [Calls -> {"idle", "poll", "select", "expired"}]
    /\ on \in [Calls -> 0..made]
    /\ unseen \subseteq Calls
    /\ answer \in [Calls -> Answers]
    /\ ackStart \in [Calls -> Timespec]

(* A handler that sleeps in changed() with nothing unseen waits for a       *)
(* barrier that is still the stored workload's, still Waiting and still     *)
(* short of a node: subscribing under the lock makes every release,         *)
(* replacement and timeout reach it.                                        *)
NoMissedWakeup ==
    \A c \in Calls : pc[c] = "select" /\ c \notin unseen =>
        /\ on[c] = cur
        /\ cur # 0
        /\ barrier[cur] = "waiting"
        /\ ~AllSynced(cur)

(* The "sync barrier channel closed unexpectedly" return is dead code: a    *)
(* dropped sender always left an unseen Cancelled behind.                   *)
NeverClosed == \A c \in Calls : answer[c] # "closed"

(* A start time is handed out only for a workload all of whose active nodes *)
(* have called SyncTimer, whatever timed out, left or was retried before.   *)
AckOnlyWhenAllSynced ==
    \A c \in Calls : answer[c] = "ack" => on[c] # 0 /\ AllSynced(on[c])

(* A handler that still holds a receiver of a replaced workload will read    *)
(* Cancelled from it: no release or timeout of an earlier or later moment   *)
(* can be what it returns.                                                  *)
ReplacedMeansCancelled ==
    \A c \in Calls : Live(c) /\ on[c] # cur => on[c] # 0 /\ barrier[on[c]] = "cancelled"

(* The channel of the stored workload tells the truth about its node sets,  *)
(* and a workload that is not stored yet has a fresh channel.               *)
BarrierTellsTheTruth ==
    /\ cur # 0 => /\ barrier[cur] # "cancelled"
                  /\ barrier[cur] = "waiting" => ~AllSynced(cur)
    /\ \A w \in Workloads : barrier[w] = "released" => AllSynced(w)
    /\ \A w \in Workloads : w > made => barrier[w] = "waiting" /\ synced[w] = {}

(* The inductive invariant behind the theorems of NodeStartupProofs         *)
IInv ==
    /\ TypeOK
    /\ ReplacedMeansCancelled
    /\ BarrierTellsTheTruth
    /\ \A c \in Calls : Live(c) => on[c] # 0
    /\ \A c \in Calls : pc[c] = "select" /\ c \notin unseen => barrier[on[c]] = "waiting"
    /\ NeverClosed
    /\ AckOnlyWhenAllSynced

(* A barrier that told its waiters that the workload was replaced never     *)
(* says anything else afterwards, although late timeouts still broadcast.   *)
CancelledIsFinal ==
    [][\A w \in Workloads : barrier[w] = "cancelled" => barrier'[w] = "cancelled"]_vars

(* Every SyncTimer call returns: released, cancelled, timed out or dropped. *)
EveryCallReturns == \A c \in Calls : Live(c) ~> ~Live(c)

(* What a node sees of the barrier, without channel, versions and timers    *)
R == INSTANCE Rendezvous WITH
         Parties <- Calls,
         MaxRounds <- MaxWorkloads,
         open <- cur,
         opened <- made,
         members <- IF cur = 0 THEN {} ELSE active[cur],
         arrived <- IF cur = 0 THEN {} ELSE synced[cur],
         at <- [c \in Calls |-> IF Live(c) THEN on[c] ELSE 0],
         out <- [c \in Calls |-> IF Live(c) \/ answer[c] = "none" THEN "none"
                                 ELSE IF answer[c] = "ack" THEN "go" ELSE "left"]

(* SyncTimer and AddSchedInfo implement the rendezvous: a caller goes only  *)
(* in the round that is open, and only when all its members have arrived.   *)
RefinesRendezvous == R!Spec

----------------------------------------------------------------------------
(* What the documentation says of the barrier, and the code does not do     *)

(* "Late joiner: If barrier already fired, returns past `start_time`        *)
(* immediately": the calls acknowledged for one workload carry one start    *)
(* time.  A call after the release computes and broadcasts a new one.       *)
OneStartTimePerWorkload ==
    \A c, d \in Calls :
        answer[c] = "ack" /\ answer[d] = "ack" /\ on[c] = on[d] =>
            ackStart[c] = ackStart[d]

(* "Wake all other handlers that are waiting on this barrier": a timeout    *)
(* touches the barrier its handler waited on and no other.  The store may   *)
(* hold another workload by the time the handler has the lock.              *)
TimeoutStaysOnItsBarrier ==
    [][\A c \in Calls : pc[c] = "expired" /\ answer'[c] = "deadline_exceeded" =>
           \A w \in Workloads : barrier'[w] # barrier[w] => w = on[c]]_vars

=============================================================================
