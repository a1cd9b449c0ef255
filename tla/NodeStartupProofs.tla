------------------------- MODULE NodeStartupProofs -------------------------
(***************************************************************************)
(* Proofs about the barrier and the nodes that start over it.              *)
(*  - The barrier's safety properties, for any nodes, calls, clock and      *)
(*  - The barrier's safety properties, for any nodes, calls, clock and     *)
(*  - A node that runs was released by a complete barrier of a workload it *)
(*    belongs to, for any nodes, calls, deployments and workloads.         *)
(***************************************************************************)
EXTENDS NodeStartup, TLAPS

---------------------------------------------------------------------------
(* The barrier                                                             *)

(* A clock reading plus the offset splits into a normalised timespec.       *)
LEMMA StartIsTimespec ==
    ASSUME NEW now \in Clock
    PROVE  compute_start_time(now) \in Timespec
<1> DEFINE s == now + SYNC_START_OFFSET_NS
<1>1. s \in Nat
  BY ClockAssumption
<1>2. s \div NANOS_PER_SEC \in Nat /\ s % NANOS_PER_SEC \in 0 .. NANOS_PER_SEC - 1
  <2> HIDE DEF s
  <2> QED BY <1>1, ClockAssumption
<1> QED
  BY <1>2 DEF compute_start_time, Timespec

(* No workload is stored, no call is in flight: the invariant holds.        *)
LEMMA InitEstablishes == Init => IInv
<1> SUFFICES ASSUME Init PROVE IInv
  OBVIOUS
<1>1. <<0, 0>> \in Timespec
  BY ClockAssumption DEF Timespec
<1>2. TypeOK
  BY <1>1, BoundAssumption DEF Init, TypeOK, BarrierStatus, Answers, Workloads
<1> QED
  BY <1>2 DEF Init, IInv, ReplacedMeansCancelled, BarrierTellsTheTruth, NeverClosed,
     AckOnlyWhenAllSynced, Live, AllSynced, Workloads

(* Storing a workload: its channel is fresh, and the receivers of the       *)
(* replaced one have Cancelled unseen.                                      *)
LEMMA AddSchedInfoPreserves ==
    ASSUME IInv, NEW nodes \in SUBSET Nodes, AddSchedInfo(nodes)
    PROVE  IInv'
<1> USE BoundAssumption DEF IInv, Live
<1>1. made + 1 \in Workloads /\ made' = made + 1 /\ cur' = made + 1
  BY DEF AddSchedInfo, TypeOK, Workloads
<1>2. CASE cur = 0
  <2>1. UNCHANGED <<barrier, unseen>>
    BY <1>2 DEF AddSchedInfo
  <2>2. TypeOK'
    BY <1>1, <2>1 DEF AddSchedInfo, TypeOK, Workloads
  <2>3. ReplacedMeansCancelled'
    BY <1>1, <1>2, <2>1 DEF AddSchedInfo, TypeOK, ReplacedMeansCancelled
  <2> QED
    BY <1>1, <2>1, <2>2, <2>3 DEF AddSchedInfo, TypeOK, BarrierTellsTheTruth, NeverClosed,
       AckOnlyWhenAllSynced, AllSynced, Workloads
<1>3. CASE cur # 0
  <2>1. cur \in Workloads /\ Send(cur, "cancelled")
    BY <1>3 DEF AddSchedInfo, TypeOK, Workloads
  <2>2. TypeOK'
    BY <1>1, <2>1 DEF AddSchedInfo, TypeOK, Workloads, Send, Receivers, BarrierStatus
  <2>3. ReplacedMeansCancelled'
    BY <1>1, <1>3, <2>1 DEF AddSchedInfo, TypeOK, ReplacedMeansCancelled, Send, Receivers,
       Workloads
  <2>4. BarrierTellsTheTruth'
    BY <1>1, <2>1 DEF AddSchedInfo, TypeOK, BarrierTellsTheTruth, AllSynced, Workloads, Send
  <2>5. \A c \in Calls : pc'[c] = "select" /\ c \notin unseen' => barrier'[on'[c]] = "waiting"
    <3>1. UNCHANGED <<pc, on>>
      BY DEF AddSchedInfo
    <3>2. \A c \in Calls : pc[c] = "select" /\ c \notin unseen' => on[c] # cur /\ c \notin unseen
      <4>1. \A c \in Calls : pc[c] = "select" /\ on[c] = cur => c \in Receivers(cur)
        BY DEF Receivers
      <4> QED
        BY <2>1, <4>1 DEF Send
    <3>3. \A w \in Workloads : w # cur => barrier'[w] = barrier[w]
      BY <2>1 DEF Send, TypeOK
    <3>4. \A c \in Calls : pc[c] = "select" => on[c] \in Workloads
      BY DEF TypeOK, Workloads
    <3> QED
      BY <3>1, <3>2, <3>3, <3>4
  <2> QED
    BY <1>1, <2>2, <2>3, <2>4, <2>5 DEF AddSchedInfo, TypeOK, NeverClosed,
       AckOnlyWhenAllSynced, AllSynced, Workloads
<1> QED
  BY <1>2, <1>3

(* A refused call touches neither the store nor a live handler.             *)
LEMMA RefusedPreserves ==
    ASSUME IInv, NEW c \in Calls, NEW n \in Nodes, SyncTimerRefused(c, n)
    PROVE  IInv'
BY DEF IInv, SyncTimerRefused, Refusal, storeVars, TypeOK, ReplacedMeansCancelled,
   BarrierTellsTheTruth, NeverClosed, AckOnlyWhenAllSynced, AllSynced, Live, Answers, Workloads

(* Registering a node: Released is broadcast exactly when the set is full.  *)
LEMMA RegisterPreserves ==
    ASSUME IInv, NEW c \in Calls, NEW n \in Nodes, SyncTimerRegister(c, n)
    PROVE  IInv'
<1> USE DEF IInv, Live
<1>1. cur \in Workloads /\ cur # 0
  BY BoundAssumption DEF SyncTimerRegister, RegisterWith, Refusal, TypeOK, Workloads
<1>2. /\ UNCHANGED <<cur, made, active, ackStart>>
      /\ on' = [on EXCEPT ![c] = cur]
      /\ pc' = [pc EXCEPT ![c] = "poll"]
      /\ answer' = [answer EXCEPT ![c] = "none"]
      /\ synced' = [synced EXCEPT ![cur] = @ \union {n}]
  BY DEF SyncTimerRegister, RegisterWith
<1>3. NeverClosed' /\ AckOnlyWhenAllSynced' /\ \A d \in Calls : pc'[d] # "idle" => on'[d] # 0
  BY <1>1, <1>2 DEF TypeOK, NeverClosed, AckOnlyWhenAllSynced, AllSynced
<1>4. CASE active[cur] \subseteq synced[cur] \union {n}
  <2>1. /\ barrier' = [barrier EXCEPT ![cur] = "released"]
        /\ unseen' = unseen \union Receivers(cur) \union {c}
    BY <1>4 DEF SyncTimerRegister, RegisterWith
  <2>2. PICK now \in Clock : start' = [start EXCEPT ![cur] = compute_start_time(now)]
    BY <1>4 DEF SyncTimerRegister, RegisterWith
  <2>3. TypeOK'
    BY <1>1, <1>2, <2>1, <2>2, StartIsTimespec DEF TypeOK, BarrierStatus, Answers, Receivers
  <2>4. BarrierTellsTheTruth'
    BY <1>1, <1>2, <1>4, <2>1 DEF TypeOK, BarrierTellsTheTruth, AllSynced, Workloads
  <2>5. ReplacedMeansCancelled'
    BY <1>1, <1>2, <2>1 DEF TypeOK, ReplacedMeansCancelled
  <2>6. \A d \in Calls : pc'[d] = "select" /\ d \notin unseen' => barrier'[on'[d]] = "waiting"
    BY <1>1, <1>2, <2>1 DEF TypeOK, Receivers
  <2> QED
    BY <1>3, <2>3, <2>4, <2>5, <2>6
<1>5. CASE ~(active[cur] \subseteq synced[cur] \union {n})
  <2>1. UNCHANGED <<barrier, start>> /\ unseen' = unseen \ {c}
    BY <1>5 DEF SyncTimerRegister, RegisterWith
  <2>2. TypeOK'
    BY <1>1, <1>2, <2>1 DEF TypeOK, Answers
  <2>3. BarrierTellsTheTruth'
    BY <1>1, <1>2, <1>5, <2>1 DEF TypeOK, BarrierTellsTheTruth, AllSynced, Workloads
  <2>4. ReplacedMeansCancelled'
    BY <1>1, <1>2, <2>1, Zenon DEF TypeOK, ReplacedMeansCancelled
  <2> QED
    BY <1>2, <1>3, <2>1, <2>2, <2>3, <2>4 DEF TypeOK
<1> QED
  BY <1>4, <1>5

(* The handler's own steps: only a broadcast writes to a channel, and it    *)
(* writes to the stored workload's.                                         *)
LEMMA PollPreserves ==
    ASSUME IInv, NEW c \in Calls, SyncTimerPoll(c)
    PROVE  IInv'
<1> USE DEF IInv, Live
<1>1. UNCHANGED <<cur, made, active, synced, barrier, start, on>> /\ unseen' = unseen \ {c}
  BY DEF SyncTimerPoll, storeVars
<1>2. on[c] \in Workloads /\ pc[c] = "poll"
  BY BoundAssumption DEF SyncTimerPoll, TypeOK, Workloads
<1>3. CASE barrier[on[c]] = "waiting"
  <2>1. UNCHANGED <<answer, ackStart>> /\ pc' = [pc EXCEPT ![c] = "select"]
    BY <1>3, Zenon DEF SyncTimerPoll
  <2> QED
    BY <1>1, <1>2, <1>3, <2>1 DEF TypeOK, ReplacedMeansCancelled, BarrierTellsTheTruth,
       NeverClosed, AckOnlyWhenAllSynced, AllSynced
<1>4. CASE barrier[on[c]] # "waiting"
  <2>1. PICK result \in {"ack", "aborted", "deadline_exceeded"} :
           /\ Return(c, result)
           /\ result = "ack" <=> barrier[on[c]] = "released"
           /\ \/ ackStart' = [ackStart EXCEPT ![c] = start[on[c]]]
              \/ UNCHANGED ackStart
    BY <1>4 DEF SyncTimerPoll
  <2>2. TypeOK'
    BY <1>1, <1>2, <2>1 DEF TypeOK, Return, Answers
  <2>3. AckOnlyWhenAllSynced' /\ NeverClosed'
    BY <1>1, <1>2, <2>1 DEF TypeOK, Return, AckOnlyWhenAllSynced, NeverClosed, AllSynced,
       BarrierTellsTheTruth
  <2> QED
    BY <1>1, <2>1, <2>2, <2>3, ZenonT(60) DEF TypeOK, Return, ReplacedMeansCancelled,
       BarrierTellsTheTruth, AllSynced
<1> QED
  BY <1>3, <1>4, Zenon

(* changed() never fails: a receiver with nothing unseen has a live sender. *)
LEMMA ChangedPreserves ==
    ASSUME IInv, NEW c \in Calls, SyncTimerChanged(c)
    PROVE  IInv'
<1> USE DEF IInv, Live
<1>1. c \in unseen
  BY DEF SyncTimerChanged, TypeOK, ReplacedMeansCancelled
<1>2. /\ UNCHANGED <<cur, made, active, synced, barrier, start, on, answer, ackStart>>
      /\ unseen' = unseen \ {c}
      /\ pc' = [pc EXCEPT ![c] = "poll"]
      /\ pc[c] = "select"
  BY <1>1 DEF SyncTimerChanged, storeVars
<1> QED
  BY <1>2 DEF TypeOK, ReplacedMeansCancelled, BarrierTellsTheTruth, NeverClosed,
     AckOnlyWhenAllSynced, AllSynced

(* A timer that elapses changes nothing but its own handler.                *)
LEMMA ExpirePreserves ==
    ASSUME IInv, NEW c \in Calls, SyncTimerExpire(c)
    PROVE  IInv'
BY Zenon DEF IInv, Live, SyncTimerExpire, storeVars, TypeOK, ReplacedMeansCancelled,
   BarrierTellsTheTruth, NeverClosed, AckOnlyWhenAllSynced, AllSynced

(* A timeout broadcast reaches the stored workload only, and wakes all its  *)
(* receivers.                                                               *)
LEMMA BroadcastPreserves ==
    ASSUME IInv, NEW c \in Calls, SyncTimerBroadcast(c)
    PROVE  IInv'
<1> USE DEF IInv, Live
<1>1. /\ UNCHANGED <<cur, made, active, synced, start, on, ackStart>>
      /\ pc' = [pc EXCEPT ![c] = "idle"]
      /\ answer' = [answer EXCEPT ![c] = "deadline_exceeded"]
  BY Zenon DEF SyncTimerBroadcast, Return
<1>2. NeverClosed' /\ AckOnlyWhenAllSynced' /\ \A d \in Calls : pc'[d] # "idle" => on'[d] # 0
  BY <1>1, Zenon DEF TypeOK, NeverClosed, AckOnlyWhenAllSynced, AllSynced
<1>3. CASE UNCHANGED <<barrier, unseen>>
  BY <1>1, <1>2, <1>3, Zenon DEF TypeOK, Answers, ReplacedMeansCancelled, BarrierTellsTheTruth,
     AllSynced
<1>4. CASE /\ cur # 0
           /\ barrier' = [barrier EXCEPT ![cur] = "timedout"]
           /\ unseen' = unseen \union Receivers(cur)
  <2>1. cur \in Workloads
    BY <1>4, BoundAssumption DEF TypeOK, Workloads
  <2>2. TypeOK'
    BY <1>1, <1>4, <2>1 DEF TypeOK, Answers, BarrierStatus, Receivers
  <2>3. ReplacedMeansCancelled' /\ BarrierTellsTheTruth'
    BY <1>1, <1>4, <2>1 DEF TypeOK, ReplacedMeansCancelled, BarrierTellsTheTruth, AllSynced,
       Workloads
  <2>4. \A d \in Calls : pc'[d] = "select" /\ d \notin unseen' => barrier'[on'[d]] = "waiting"
    BY <1>1, <1>4, <2>1 DEF TypeOK, Receivers
  <2> QED
    BY <1>2, <2>2, <2>3, <2>4
<1> QED
  BY <1>3, <1>4, Zenon DEF SyncTimerBroadcast, Send

(* A dropped handler leaves store and channels as they are.                 *)
LEMMA DisconnectPreserves ==
    ASSUME IInv, NEW c \in Calls, Disconnect(c)
    PROVE  IInv'
BY ZenonT(60) DEF IInv, Live, Disconnect, Return, storeVars, TypeOK, ReplacedMeansCancelled, Answers,
   BarrierTellsTheTruth, NeverClosed, AckOnlyWhenAllSynced, AllSynced

(* After a restart no handler is left, and the store is empty.              *)
LEMMA RestartPreserves ==
    ASSUME IInv, Restart
    PROVE  IInv'
BY DEF IInv, Live, Restart, TypeOK, ReplacedMeansCancelled, Answers,
   BarrierTellsTheTruth, NeverClosed, AckOnlyWhenAllSynced, AllSynced

(* The invariant is inductive.                                              *)
LEMMA NextPreserves == IInv /\ [Next]_vars => IInv'
<1> SUFFICES ASSUME IInv, [Next]_vars PROVE IInv'
  OBVIOUS
<1>1. CASE Next
  BY <1>1, AddSchedInfoPreserves, RefusedPreserves, RegisterPreserves, PollPreserves,
     ChangedPreserves, ExpirePreserves, BroadcastPreserves, DisconnectPreserves,
     RestartPreserves, Zenon DEF Next, Handler
<1>2. CASE UNCHANGED vars
  BY <1>2, Zenon DEF vars, storeVars, callVars, IInv, Live, TypeOK, ReplacedMeansCancelled,
     BarrierTellsTheTruth, NeverClosed, AckOnlyWhenAllSynced, AllSynced
<1> QED
  BY <1>1, <1>2, Zenon

----------------------------------------------------------------------------

(* Every reachable state satisfies the inductive invariant.                 *)
THEOREM Invariance == Spec => []IInv
BY InitEstablishes, NextPreserves, PTL DEF Spec

(* The store, the channels and the calls keep their types; start times are  *)
(* normalised timespecs.                                                    *)
THEOREM TypeCorrect == Spec => []TypeOK
<1>1. IInv => TypeOK
  BY DEF IInv
<1> QED
  BY <1>1, Invariance, PTL

(* No handler sleeps through a release, a replacement or a timeout.         *)
THEOREM NoMissedWakeupHolds == Spec => []NoMissedWakeup
<1>1. IInv => NoMissedWakeup
  BY BoundAssumption DEF IInv, NoMissedWakeup, ReplacedMeansCancelled, BarrierTellsTheTruth,
     Live, TypeOK
<1> QED
  BY <1>1, Invariance, PTL

(* sync_timer never returns "sync barrier channel closed unexpectedly".     *)
THEOREM NeverClosedHolds == Spec => []NeverClosed
<1>1. IInv => NeverClosed
  BY DEF IInv
<1> QED
  BY <1>1, Invariance, PTL

(* A start time is only handed out once all active nodes have checked in.   *)
THEOREM AckSound == Spec => []AckOnlyWhenAllSynced
<1>1. IInv => AckOnlyWhenAllSynced
  BY DEF IInv
<1> QED
  BY <1>1, Invariance, PTL

(* A handler left over from a replaced workload finds Cancelled.            *)
THEOREM ReplacedSound == Spec => []ReplacedMeansCancelled
<1>1. IInv => ReplacedMeansCancelled
  BY DEF IInv
<1> QED
  BY <1>1, Invariance, PTL

(* Nothing overwrites the Cancelled of a replaced workload.                 *)
THEOREM CancelledStays == Spec => CancelledIsFinal
<1> DEFINE Stays == \A w \in Workloads : barrier[w] = "cancelled" => barrier'[w] = "cancelled"
<1>1. ASSUME IInv, [Next]_vars
      PROVE  Stays
  <2> SUFFICES ASSUME NEW w \in Workloads, barrier[w] = "cancelled"
               PROVE  barrier'[w] = "cancelled"
    OBVIOUS
  <2>1. w # cur
    BY <1>1 DEF IInv, BarrierTellsTheTruth, Workloads
  <2>2. CASE \E nodes \in SUBSET Nodes : AddSchedInfo(nodes)
    BY <1>1, <2>1, <2>2 DEF AddSchedInfo, Send, IInv, TypeOK
  <2>3. CASE \E c \in Calls, n \in Nodes : SyncTimerRegister(c, n)
    BY <1>1, <2>1, <2>3 DEF SyncTimerRegister, RegisterWith, IInv, TypeOK
  <2>4. CASE \E c \in Calls : SyncTimerBroadcast(c)
    BY <1>1, <2>1, <2>4 DEF SyncTimerBroadcast, Send, IInv, TypeOK
  <2>5. CASE UNCHANGED barrier
    BY <2>5
  <2> QED
    BY <1>1, <2>2, <2>3, <2>4, <2>5, Zenon DEF Next, Handler, SyncTimerRefused, SyncTimerPoll,
       SyncTimerChanged, SyncTimerExpire, Disconnect, Restart, storeVars, vars
<1>2. [][Stays]_vars <=> CancelledIsFinal
  BY PTL DEF CancelledIsFinal
<1> QED
  BY <1>1, <1>2, Invariance, PTL DEF Spec

----------------------------------------------------------------------------
(* The rendezvous seen through the barrier                                  *)

Members == IF cur = 0 THEN {} ELSE active[cur]

Arrived == IF cur = 0 THEN {} ELSE synced[cur]

At == [c \in Calls |-> IF Live(c) THEN on[c] ELSE 0]

Out == [c \in Calls |-> IF Live(c) \/ answer[c] = "none" THEN "none"
                        ELSE IF answer[c] = "ack" THEN "go" ELSE "left"]

absVars == <<cur, made, Members, Arrived, At, Out>>

(* Storing a workload opens the next round of the rendezvous.               *)
LEMMA AddSchedInfoOpens ==
    ASSUME IInv, NEW nodes \in SUBSET Nodes, AddSchedInfo(nodes)
    PROVE  R!Open(nodes)
<1>1. made + 1 \in Workloads /\ made' = made + 1 /\ cur' = made + 1 /\ cur' # 0
  BY BoundAssumption DEF AddSchedInfo, IInv, TypeOK, Workloads
<1>2. Members' = nodes
  BY <1>1 DEF AddSchedInfo, Members, IInv, TypeOK
<1>3. Arrived' = {}
  BY <1>1 DEF AddSchedInfo, Arrived, IInv, TypeOK, BarrierTellsTheTruth
<1>4. UNCHANGED <<At, Out>>
  BY Zenon DEF AddSchedInfo, At, Out, Live
<1> QED
  BY <1>1, <1>2, <1>3, <1>4 DEF AddSchedInfo, R!Open, Members, Arrived, At, Out

(* A refused SyncTimer call is a refusal of the rendezvous.                 *)
LEMMA RefusedRefuses ==
    ASSUME IInv, NEW c \in Calls, NEW n \in Nodes, SyncTimerRefused(c, n)
    PROVE  R!Refuse(c, n)
<1>1. n \notin Members /\ At[c] = 0
  BY DEF SyncTimerRefused, Refusal, Members, At
<1>2. UNCHANGED <<cur, made, Members, Arrived, At>>
  BY DEF SyncTimerRefused, storeVars, Members, Arrived, At, Live, IInv, TypeOK
<1>3. Out' = [Out EXCEPT ![c] = "left"]
  BY Zenon DEF SyncTimerRefused, Refusal, Out, Live, IInv, TypeOK
<1> QED
  BY <1>1, <1>2, <1>3, Zenon DEF R!Refuse, Members, Arrived, At, Out

(* Registering a node is an arrival in the open round.                      *)
LEMMA RegisterArrives ==
    ASSUME IInv, NEW c \in Calls, NEW n \in Nodes, SyncTimerRegister(c, n)
    PROVE  R!Arrive(c, n)
<1>1. cur \in Workloads /\ cur # 0 /\ n \in active[cur] /\ ~Live(c)
  BY BoundAssumption DEF SyncTimerRegister, RegisterWith, Refusal, IInv, TypeOK, Workloads
<1>2. /\ UNCHANGED <<cur, made, active>>
      /\ on' = [on EXCEPT ![c] = cur]
      /\ pc' = [pc EXCEPT ![c] = "poll"]
      /\ answer' = [answer EXCEPT ![c] = "none"]
      /\ synced' = [synced EXCEPT ![cur] = @ \union {n}]
  BY DEF SyncTimerRegister, RegisterWith
<1>3. n \in Members /\ UNCHANGED Members
  BY <1>1, <1>2 DEF Members
<1>4. Arrived' = Arrived \union {n}
  BY <1>1, <1>2 DEF Arrived, IInv, TypeOK
<1>5. At[c] = 0 /\ At' = [At EXCEPT ![c] = cur]
  BY <1>1, <1>2, Zenon DEF At, Live, IInv, TypeOK
<1>6. Out' = [Out EXCEPT ![c] = "none"]
  BY <1>1, <1>2, Zenon DEF Out, Live, IInv, TypeOK
<1> QED
  BY <1>2, <1>3, <1>4, <1>5, <1>6, Zenon DEF R!Arrive, Members, Arrived, At, Out

(* A handler that returns leaves the rendezvous, unless it returns an ack.  *)
LEMMA ReturnLeaves ==
    ASSUME IInv, NEW c \in Calls, Live(c), NEW result \in Answers \ {"none", "ack"},
           Return(c, result), UNCHANGED <<cur, made, active, synced, on>>
    PROVE  R!Leave(c)
<1>1. At[c] # 0 /\ At' = [At EXCEPT ![c] = 0]
  BY Zenon DEF At, Live, Return, IInv, TypeOK
<1>2. Out' = [Out EXCEPT ![c] = "left"]
  BY Zenon DEF Out, Live, Return, IInv, TypeOK
<1>3. UNCHANGED <<Members, Arrived>>
  BY Zenon DEF Members, Arrived
<1> QED
  BY <1>1, <1>2, <1>3, Zenon DEF R!Leave, Members, Arrived, At, Out

(* Reading the channel goes, leaves or stutters: Released is only read in   *)
(* the open round.                                                          *)
LEMMA PollGoes ==
    ASSUME IInv, NEW c \in Calls, SyncTimerPoll(c)
    PROVE  R!Go(c) \/ R!Leave(c) \/ UNCHANGED absVars
<1>1. UNCHANGED <<cur, made, active, synced, barrier, on>> /\ Live(c)
  BY Zenon DEF SyncTimerPoll, storeVars, Live
<1>2. CASE barrier[on[c]] = "released" /\ Return(c, "ack")
  <2>1. on[c] = cur /\ cur # 0 /\ cur \in Workloads
    BY <1>1, <1>2, BoundAssumption DEF IInv, ReplacedMeansCancelled, TypeOK, Workloads
  <2>2. Members \subseteq Arrived
    BY <1>2, <2>1 DEF Members, Arrived, IInv, BarrierTellsTheTruth, AllSynced
  <2>3. At[c] = cur /\ At' = [At EXCEPT ![c] = 0]
    BY <1>1, <1>2, <2>1, Zenon DEF At, Live, Return, IInv, TypeOK
  <2>4. Out' = [Out EXCEPT ![c] = "go"]
    BY <1>1, <1>2, Zenon DEF Out, Live, Return, IInv, TypeOK
  <2>5. UNCHANGED <<Members, Arrived>>
    BY <1>1 DEF Members, Arrived
  <2> QED
    BY <1>1, <2>1, <2>2, <2>3, <2>4, <2>5, Zenon DEF R!Go, Members, Arrived, At, Out
<1>3. CASE Return(c, "aborted") \/ Return(c, "deadline_exceeded")
  BY <1>1, <1>3, ReturnLeaves DEF Answers
<1>4. CASE pc' = [pc EXCEPT ![c] = "select"] /\ UNCHANGED answer
  BY <1>1, <1>4 DEF absVars, Members, Arrived, At, Out, Live, IInv, TypeOK
<1> QED
  BY <1>2, <1>3, <1>4, Zenon DEF SyncTimerPoll

(* changed() and the timer are invisible in the rendezvous.                 *)
LEMMA ChangedStutters ==
    ASSUME IInv, NEW c \in Calls, SyncTimerChanged(c) \/ SyncTimerExpire(c)
    PROVE  UNCHANGED absVars
<1>1. SyncTimerChanged(c) => c \in unseen
  BY Zenon DEF SyncTimerChanged, IInv, TypeOK, ReplacedMeansCancelled, Live
<1>2. /\ UNCHANGED <<cur, made, active, synced, on, answer>>
      /\ pc[c] # "idle"
      /\ \E p \in {"poll", "expired"} : pc' = [pc EXCEPT ![c] = p]
  BY <1>1, Zenon DEF SyncTimerChanged, SyncTimerExpire, storeVars
<1> QED
  BY <1>2 DEF absVars, Members, Arrived, At, Out, Live, IInv, TypeOK

(* A restart of Timpani-O closes the round.                                 *)
LEMMA RestartCloses ==
    ASSUME IInv, Restart
    PROVE  R!Close
<1>1. Members' = {} /\ Arrived' = {}
  BY DEF Restart, Members, Arrived
<1>2. At' = [c \in Calls |-> 0]
  BY DEF Restart, At, Live
<1>3. Out' = [c \in Calls |-> IF At[c] = 0 THEN Out[c] ELSE "left"]
  BY DEF Restart, At, Out, Live, IInv, TypeOK
<1> QED
  BY <1>1, <1>2, <1>3, Zenon DEF Restart, R!Close, Members, Arrived, At, Out

(* The SyncTimer barrier implements the rendezvous.                         *)
THEOREM Refinement == Spec => RefinesRendezvous
<1>1. Init => R!Init
  BY DEF Init, R!Init, Live
<1>2. ASSUME IInv, [Next]_vars
      PROVE  [R!Next]_(R!vars)
  <2>1. absVars = R!vars
    BY DEF absVars, R!vars, Members, Arrived, At, Out
  <2>2. CASE \E c \in Calls : SyncTimerBroadcast(c) \/ Disconnect(c)
    <3>1. PICK c \in Calls : SyncTimerBroadcast(c) \/ Disconnect(c)
      BY <2>2
    <3>2. R!Leave(c)
      BY <1>2, <3>1, ReturnLeaves, Zenon DEF SyncTimerBroadcast, Disconnect, storeVars, Live, Answers
    <3> QED
      BY <3>2 DEF R!Next
  <2>3. CASE \E c \in Calls : SyncTimerPoll(c)
    BY <1>2, <2>3, <2>1, PollGoes, Zenon DEF R!Next, R!vars, absVars, Members, Arrived, At, Out
  <2>4. CASE \E c \in Calls : SyncTimerChanged(c) \/ SyncTimerExpire(c)
    BY <1>2, <2>4, ChangedStutters, Zenon DEF R!vars, absVars, Members, Arrived, At, Out
  <2>5. CASE UNCHANGED vars
    BY <2>5, Zenon DEF vars, storeVars, callVars, R!vars, Live
  <2> QED
    BY <1>2, <2>2, <2>3, <2>4, <2>5, AddSchedInfoOpens, RefusedRefuses, RegisterArrives,
       RestartCloses, Zenon DEF Next, Handler, R!Next
<1> QED
  BY <1>1, <1>2, Invariance, PTL DEF Spec, RefinesRendezvous, R!Spec

---------------------------------------------------------------------------
(* The nodes                                                               *)

NodeTypeOK ==
    /\ site \in Sites
    /\ DOMAIN phase = Nodes
    /\ call \in [Nodes -> Calls \union {NoCall}]
    /\ sync_from \in [Nodes -> 0..made]

(* A call that a node awaits is its own, and was registered, if at all, for *)
(* a workload the node belongs to                                           *)
CallsAreOwn ==
    /\ \A n \in Nodes : phase[n] = "awaiting" => call[n] \in Calls
    /\ \A n \in Nodes : call[n] \in Calls /\ on[call[n]] # 0 => n \in active[on[call[n]]]
    /\ \A m, n \in Nodes : m # n /\ call[m] \in Calls => call[m] # call[n]

(* RunningNodesWereReleased, with the calls under way and the barrier's own *)
(* invariant, is inductive                                                  *)
NodeInv ==
    /\ IInv
    /\ NodeTypeOK
    /\ CallsAreOwn
    /\ RunningNodesWereReleased

(* What a step of the store may do to a workload that exists: its members   *)
(* stay, its arrivals grow                                                  *)
Grows ==
    /\ made' \in Nat /\ made <= made'
    /\ \A w \in 1..made : active'[w] = active[w] /\ synced[w] \subseteq synced'[w]

(* At the start there is no process and no workload.                        *)
LEMMA NodeInitEstablishes == NodeInit => NodeInv
<1> SUFFICES ASSUME NodeInit PROVE NodeInv
  OBVIOUS
<1>1. IInv
  BY InitEstablishes DEF NodeInit
<1>2. NodeTypeOK /\ CallsAreOwn /\ RunningNodesWereReleased
  BY SiteAssumption DEF NodeInit, Init, NodeTypeOK, CallsAreOwn, RunningNodesWereReleased
<1> QED
  BY <1>1, <1>2 DEF NodeInv

(* The store's steps keep the members of a workload and its arrivals.       *)
LEMMA StoreGrows ==
    ASSUME IInv, [Next]_vars
    PROVE  Grows
<1> USE BoundAssumption DEF Grows, IInv, TypeOK, Workloads
<1>1. CASE \E nodes \in SUBSET Nodes : AddSchedInfo(nodes)
  BY <1>1 DEF AddSchedInfo
<1>2. CASE \E c \in Calls, n \in Nodes : SyncTimerRegister(c, n)
  BY <1>2 DEF SyncTimerRegister, RegisterWith
<1>3. CASE UNCHANGED <<made, active, synced>>
  BY <1>3
<1>4. CASE \E c \in Calls, n \in Nodes : SyncTimerRefused(c, n)
  BY <1>3, <1>4, Zenon DEF SyncTimerRefused, storeVars
<1>5. CASE \E c \in Calls : Handler(c)
  BY <1>3, <1>5, Zenon DEF Handler, SyncTimerPoll, SyncTimerChanged, SyncTimerExpire, SyncTimerBroadcast, storeVars
<1>6. CASE (\E c \in Calls : Disconnect(c)) \/ Restart \/ UNCHANGED vars
  BY <1>3, <1>6, Zenon DEF Disconnect, Restart, storeVars, callVars, vars
<1> QED
  BY <1>1, <1>2, <1>4, <1>5, <1>6, Zenon DEF Next

(* Nodes that ran keep their release while the store grows.                 *)
LEMMA RunningStaysReleased ==
    ASSUME NodeInv, Grows, NEW n \in Nodes, phase[n] = "running", n \in site.sync
    PROVE  /\ sync_from[n] # 0
           /\ n \in active'[sync_from[n]]
           /\ active'[sync_from[n]] \subseteq synced'[sync_from[n]]
<1>1. sync_from[n] \in 1..made
  BY DEF NodeInv, NodeTypeOK, RunningNodesWereReleased, IInv, TypeOK
<1> QED
  BY <1>1, Zenon DEF NodeInv, RunningNodesWereReleased, AllSynced, Grows

(* A process that ends takes its call and its release with it.              *)
LEMMA ExitPreserves ==
    ASSUME NodeInv, IInv', NEW n \in Nodes, Exit(n), UNCHANGED vars, site' = site
    PROVE  NodeInv'
<1>1. UNCHANGED <<made, on, active, synced>>
  BY Zenon DEF vars, storeVars, callVars
<1>2. NodeTypeOK'
  BY <1>1 DEF Exit, Goto, NodeInv, NodeTypeOK, IInv, TypeOK
<1>3. CallsAreOwn'
  BY <1>1, SiteAssumption, Zenon DEF Exit, Goto, NodeInv, NodeTypeOK, CallsAreOwn
<1>4. RunningNodesWereReleased'
  BY <1>1 DEF Exit, Goto, NodeInv, NodeTypeOK, RunningNodesWereReleased, AllSynced
<1> QED
  BY <1>2, <1>3, <1>4, Zenon DEF NodeInv

(* A step of one process that leaves the server and the awaited call alone. *)
LEMMA MovePreserves ==
    ASSUME NodeInv, IInv', NEW n \in Nodes, NEW p \in {"connect", "connect_sleep", "get", "get_sleep", "sync", "running"},
           Goto(n, p), p = "running" => n \notin site.sync,
           UNCHANGED <<vars, call, sync_from>>, site' = site
    PROVE  NodeInv'
<1>1. UNCHANGED <<made, on, active, synced>>
  BY DEF vars, storeVars, callVars
<1>2. NodeTypeOK' /\ CallsAreOwn'
  BY <1>1 DEF Goto, NodeInv, NodeTypeOK, CallsAreOwn
<1>3. RunningNodesWereReleased'
  BY <1>1 DEF Goto, NodeInv, NodeTypeOK, RunningNodesWereReleased, AllSynced
<1> QED
  BY <1>2, <1>3 DEF NodeInv

(* A call that reaches the server is registered for the stored workload, of *)
(* which the node is a member, or refused.                                  *)
LEMMA SyncTimerPreserves ==
    ASSUME NodeInv, NEW n \in Nodes, NEW c \in Calls, SyncTimer(n, c), site' = site
    PROVE  NodeInv'
<1>1. SyncTimerRegister(c, n) \/ SyncTimerRefused(c, n)
  BY DEF SyncTimer
<1>2. IInv' /\ Grows
  BY <1>1, NextPreserves, StoreGrows, Zenon DEF NodeInv, Next
<1>3. \/ on' = [on EXCEPT ![c] = 0]
      \/ on' = [on EXCEPT ![c] = cur] /\ n \in active[cur]
  BY <1>1, Zenon DEF SyncTimerRegister, RegisterWith, SyncTimerRefused, Refusal
<1>4. active' = active /\ made' = made
  BY <1>1, Zenon DEF SyncTimerRegister, RegisterWith, SyncTimerRefused, storeVars
<1>5. NodeTypeOK'
  BY <1>4, Zenon DEF SyncTimer, Goto, NodeInv, NodeTypeOK
<1>6. CallsAreOwn'
  <2>1. \A m \in Nodes : call[m] # c
    BY DEF SyncTimer, Awaited
  <2>2. \A m \in Nodes : call'[m] = IF m = n THEN c ELSE call[m]
    BY Zenon DEF SyncTimer, NodeInv, NodeTypeOK
  <2>3. \A m \in Nodes : phase'[m] = "awaiting" => call'[m] \in Calls
    BY <2>2, Zenon DEF SyncTimer, Goto, NodeInv, NodeTypeOK, CallsAreOwn
  <2>4. \A m \in Nodes : call'[m] \in Calls /\ on'[call'[m]] # 0 => m \in active'[on'[call'[m]]]
    BY <1>3, <1>4, <2>1, <2>2 DEF NodeInv, CallsAreOwn, IInv, TypeOK
  <2> QED
    BY <2>1, <2>2, <2>3, <2>4, Zenon DEF NodeInv, CallsAreOwn
<1>7. RunningNodesWereReleased'
  BY <1>2, RunningStaysReleased, Zenon DEF SyncTimer, Goto, NodeInv, NodeTypeOK, RunningNodesWereReleased,
     AllSynced
<1> QED
  BY <1>2, <1>5, <1>6, <1>7 DEF NodeInv

(* An ack is the answer to a call registered for a workload of the node,    *)
(* all of whose nodes have arrived.                                         *)
LEMMA SyncReturnPreserves ==
    ASSUME NodeInv, IInv', NEW n \in Nodes, SyncReturn(n), site' = site
    PROVE  NodeInv'
<1>1. UNCHANGED vars /\ UNCHANGED <<made, on, active, synced>>
  BY Zenon DEF SyncReturn, vars, storeVars, callVars
<1>2. CASE answer[call[n]] # "ack"
  BY <1>1, <1>2, ExitPreserves, Zenon DEF SyncReturn
<1>3. CASE answer[call[n]] = "ack"
  <2>1. call[n] \in Calls
    BY Zenon DEF SyncReturn, NodeInv, CallsAreOwn
  <2>2. on[call[n]] # 0 /\ on[call[n]] \in 0..made /\ n \in active[on[call[n]]] /\ AllSynced(on[call[n]])
    BY <1>3, <2>1, Zenon DEF NodeInv, CallsAreOwn, IInv, TypeOK, AckOnlyWhenAllSynced
  <2>3. /\ Goto(n, "running")
        /\ call' = [call EXCEPT ![n] = NoCall]
        /\ sync_from' = [sync_from EXCEPT ![n] = on[call[n]]]
    BY <1>3, Zenon DEF SyncReturn
  <2>4. NodeTypeOK'
    BY <1>1, <2>2, <2>3, Zenon DEF Goto, NodeInv, NodeTypeOK
  <2>5. CallsAreOwn'
    BY <1>1, <2>3, SiteAssumption, Zenon DEF Goto, NodeInv, NodeTypeOK, CallsAreOwn
  <2>6. RunningNodesWereReleased'
    BY <1>1, <2>2, <2>3, Zenon DEF Goto, NodeInv, NodeTypeOK, RunningNodesWereReleased, AllSynced
  <2> QED
    BY <2>4, <2>5, <2>6, Zenon DEF NodeInv
<1> QED
  BY <1>2, <1>3, Zenon

(* The server's own steps touch no process and no call's subscription.      *)
LEMMA ServerPreserves ==
    ASSUME NodeInv, Server, UNCHANGED nodeVars
    PROVE  NodeInv'
<1>1. Next /\ on' = on
  BY SiteAssumption, Zenon DEF Server, Next, NodeInv, NodeTypeOK, AddSchedInfo, Handler, SyncTimerPoll,
     SyncTimerChanged, SyncTimerExpire, SyncTimerBroadcast, Disconnect, Restart
<1>2. IInv' /\ Grows
  BY <1>1, NextPreserves, StoreGrows DEF NodeInv
<1>3. NodeTypeOK'
  BY <1>2 DEF nodeVars, NodeInv, NodeTypeOK, Grows, IInv, TypeOK
<1>4. CallsAreOwn'
  <2>1. \A n \in Nodes : call[n] \in Calls /\ on[call[n]] # 0 => on[call[n]] \in 1..made
    BY DEF NodeInv, IInv, TypeOK
  <2> QED
    BY <1>1, <1>2, <2>1, Zenon DEF nodeVars, NodeInv, CallsAreOwn, Grows
<1>5. RunningNodesWereReleased'
  BY <1>2, RunningStaysReleased, Zenon DEF nodeVars, NodeInv, RunningNodesWereReleased, AllSynced
<1> QED
  BY <1>2, <1>3, <1>4, <1>5 DEF NodeInv

(* The invariant is inductive.                                              *)
LEMMA NodeNextPreserves == NodeInv /\ [NodeNext]_allVars => NodeInv'
<1> SUFFICES ASSUME NodeInv, [NodeNext]_allVars PROVE NodeInv'
  OBVIOUS
<1>1. UNCHANGED vars => IInv'
  BY NextPreserves, Zenon DEF NodeInv
<1>2. ASSUME NEW n \in Nodes, Launch(n) \/ Signal(n) \/ RunApp(n), site' = site
      PROVE  NodeInv'
  <2>1. CASE Launch(n)
    BY <1>1, <1>2, <2>1, MovePreserves, Zenon DEF Launch
  <2>2. CASE Signal(n)
    BY <1>1, <1>2, <2>2, Zenon DEF Signal, NodeInv, NodeTypeOK, CallsAreOwn, RunningNodesWereReleased,
       AllSynced, vars, storeVars, callVars
  <2>3. CASE Connect(n)
    BY <1>1, <1>2, <2>3, ExitPreserves, MovePreserves, Zenon DEF Connect
  <2>4. CASE RetrySleep(n)
    BY <1>1, <1>2, <2>4, ExitPreserves, MovePreserves, Zenon DEF RetrySleep
  <2>5. CASE GetSchedInfo(n)
    BY <1>1, <1>2, <2>5, ExitPreserves, MovePreserves, Zenon DEF GetSchedInfo
  <2>6. CASE \E c \in site.calls : SyncTimer(n, c)
    BY <1>2, <2>6, SyncTimerPreserves, SiteAssumption, Zenon DEF NodeInv, NodeTypeOK
  <2>7. CASE SyncReturn(n)
    BY <1>1, <1>2, <2>7, SyncReturnPreserves, Zenon DEF SyncReturn
  <2>8. CASE SyncClientTimeout(n) \/ Shutdown(n)
    BY <1>1, <1>2, <2>8, ExitPreserves, Zenon DEF SyncClientTimeout, Shutdown
  <2> QED
    BY <1>2, <2>1, <2>2, <2>3, <2>4, <2>5, <2>6, <2>7, <2>8, Zenon DEF RunApp
<1>3. CASE UNCHANGED allVars
  BY <1>1, <1>3, Zenon DEF allVars, nodeVars, NodeInv, NodeTypeOK, CallsAreOwn, RunningNodesWereReleased,
     AllSynced, vars, storeVars, callVars
<1> QED
  BY <1>2, <1>3, ServerPreserves DEF NodeNext, Step

(* Whatever clients, timeouts, replacements and restarts do, a node that    *)
(* runs after SyncTimer was released by the complete barrier of a workload  *)
(* it is a member of.                                                       *)
THEOREM ReleasedHolds == NodeSpec => []RunningNodesWereReleased
<1>1. NodeInv => RunningNodesWereReleased
  BY DEF NodeInv
<1> QED
  BY <1>1, NodeInitEstablishes, NodeNextPreserves, PTL DEF NodeSpec

(* Calls under way and calls that were answered are not forgotten.          *)
LEMMA MoveKeepsCalm ==
    ASSUME CalmInv, UNCHANGED <<vars, site, sync_from, sync_start>>,
           \A m \in Nodes : phase[m] \in {"awaiting", "running"} => phase'[m] \in {"awaiting", "running"},
           synced \in [Workloads -> SUBSET Nodes]
    PROVE  CalmInv'
<1>1. UNCHANGED <<active, synced, start, on, answer, ackStart, site, sync_from, sync_start>>
  BY Zenon DEF vars, storeVars, callVars
<1>2. \A w \in Workloads : synced[w] \subseteq Nodes
  BY Zenon
<1> QED
  BY <1>1, <1>2, Zenon DEF CalmInv, AllSynced

(* In a calm start a node that checks in has not called before: no barrier  *)
(* that has released its nodes gets another start time.                     *)
LEMMA CallKeepsCalm ==
    ASSUME NodeInv, CalmInv, site.calm, NEW n \in Nodes, NEW c \in Calls, SyncTimer(n, c), site' = site
    PROVE  CalmInv'
<1>0. /\ synced \in [Workloads -> SUBSET Nodes] /\ on \in [Calls -> 0..made] /\ start \in [Workloads -> Timespec]
      /\ answer \in [Calls -> Answers] /\ made \in 0..MaxWorkloads /\ cur \in 0..made
      /\ DOMAIN phase = Nodes /\ sync_from \in [Nodes -> 0..made]
  BY Zenon DEF NodeInv, IInv, TypeOK, NodeTypeOK
<1>1. phase[n] = "sync" /\ UNCHANGED <<sync_from, sync_start>> /\ phase' = [phase EXCEPT ![n] = "awaiting"]
      /\ (SyncTimerRegister(c, n) \/ SyncTimerRefused(c, n))
  BY Zenon DEF SyncTimer, Goto
<1>2. Grows
  BY <1>1, StoreGrows, Zenon DEF NodeInv, Next
<1>3. active' = active /\ ackStart' = ackStart /\ made' = made
  BY <1>1, Zenon DEF SyncTimerRegister, RegisterWith, SyncTimerRefused, storeVars
<1>4. \A w \in Workloads : synced'[w] \subseteq synced[w] \union {n}
  BY <1>0, <1>1, Zenon DEF SyncTimerRegister, RegisterWith, SyncTimerRefused, storeVars
<1>5. \A w \in Workloads : n \notin synced[w]
  BY <1>1, Zenon DEF CalmInv
<1>6. \A w \in Workloads : AllSynced(w) => start'[w] = start[w]
  <2>1. CASE SyncTimerRefused(c, n)
    BY <2>1 DEF SyncTimerRefused, storeVars
  <2>2. CASE SyncTimerRegister(c, n)
    <3>1. cur # 0 /\ n \in active[cur]
      BY <2>2, Zenon DEF SyncTimerRegister, RegisterWith, Refusal
    <3>2. cur \in Workloads
      BY <1>0, <3>1, BoundAssumption DEF Workloads
    <3>3. ~AllSynced(cur)
      BY <1>5, <3>1, <3>2, Zenon DEF AllSynced
    <3>4. \A w \in Workloads : w # cur => start'[w] = start[w]
      BY <1>0, <2>2, Zenon DEF SyncTimerRegister, RegisterWith
    <3> QED
      BY <3>3, <3>4, Zenon
  <2> QED
    BY <1>1, <2>1, <2>2, Zenon
<1>7. \A d \in Calls : answer'[d] = "ack" => answer[d] = "ack" /\ on'[d] = on[d]
  BY <1>0, <1>1, Zenon DEF SyncTimerRegister, RegisterWith, SyncTimerRefused, Refusal
<1>8. \A d \in Calls : answer[d] = "ack" => on[d] \in Workloads /\ AllSynced(on[d])
  BY <1>0, BoundAssumption DEF NodeInv, IInv, AckOnlyWhenAllSynced, Workloads
<1>9. \A m \in Nodes : sync_from[m] # 0 => sync_from[m] \in Workloads
  BY <1>0, BoundAssumption DEF Workloads
<1>10. \A w \in Workloads : w <= made /\ AllSynced(w) => active'[w] \subseteq synced'[w]
  BY <1>2, <1>3 DEF Grows, AllSynced, Workloads
<1>11. \A w \in Workloads : \A m \in synced'[w] : phase'[m] \in {"awaiting", "running"}
  <2>1. \A w \in Workloads : synced[w] \subseteq Nodes
    BY <1>0, Zenon
  <2> QED
    BY <1>0, <1>1, <1>4, <2>1 DEF CalmInv
<1>12. \A d \in Calls : answer'[d] = "ack" => ackStart'[d] = start'[on'[d]]
  <2> SUFFICES ASSUME NEW d \in Calls, answer'[d] = "ack"
               PROVE  ackStart'[d] = start'[on'[d]]
    BY Zenon
  <2>1. answer[d] = "ack" /\ on'[d] = on[d]
    BY <1>7, Zenon
  <2>2. on[d] \in Workloads /\ start'[on[d]] = start[on[d]]
    BY <1>6, <1>8, <2>1, Zenon
  <2>3. ackStart'[d] = ackStart[d] /\ ackStart[d] = start[on[d]]
    BY <1>3, <2>1, Zenon DEF CalmInv
  <2> QED
    BY <2>1, <2>2, <2>3, Zenon
<1>13. ASSUME NEW m \in Nodes, sync_from[m] # 0
       PROVE  active'[sync_from[m]] \subseteq synced'[sync_from[m]] /\ sync_start[m] = start'[sync_from[m]]
  <2>1. AllSynced(sync_from[m]) /\ sync_start[m] = start[sync_from[m]]
    BY <1>13, Zenon DEF CalmInv
  <2>2. sync_from[m] \in Workloads /\ sync_from[m] <= made
    BY <1>0, <1>9, <1>13
  <2> QED
    BY <1>6, <1>10, <2>1, <2>2, Zenon
<1> QED
  BY <1>1, <1>11, <1>12, <1>13, Zenon DEF CalmInv, AllSynced

(* A handler that acknowledges copies the start time of its barrier.        *)
LEMMA ServerKeepsCalm ==
    ASSUME NodeInv, CalmInv, Server, UNCHANGED nodeVars
    PROVE  CalmInv'
<1>0. /\ answer \in [Calls -> Answers] /\ ackStart \in [Calls -> Timespec] /\ made \in 0..MaxWorkloads
      /\ sync_from \in [Nodes -> 0..made]
  BY Zenon DEF NodeInv, IInv, TypeOK, NodeTypeOK
<1>1. Next /\ on' = on /\ synced' = synced /\ start' = start
  BY SiteAssumption, Zenon DEF Server, Next, NodeInv, NodeTypeOK, AddSchedInfo, Handler, SyncTimerPoll,
     SyncTimerChanged, SyncTimerExpire, SyncTimerBroadcast, Disconnect, Restart, storeVars
<1>2. Grows
  BY <1>1, StoreGrows DEF NodeInv
<1>3. \A c \in Calls : answer'[c] = "ack" =>
        (answer[c] = "ack" /\ ackStart'[c] = ackStart[c]) \/ ackStart'[c] = start[on[c]]
  <2>1. CASE \E nodes \in SUBSET site.nodes : AddSchedInfo(nodes)
    BY <2>1, Zenon DEF AddSchedInfo
  <2>2. ASSUME NEW c \in Calls, Handler(c)
        PROVE  \A d \in Calls : answer'[d] = "ack" =>
                 (answer[d] = "ack" /\ ackStart'[d] = ackStart[d]) \/ ackStart'[d] = start[on[d]]
    BY <1>0, <2>2, Zenon DEF Handler, SyncTimerPoll, SyncTimerChanged, SyncTimerExpire, SyncTimerBroadcast, Return
  <2>3. ASSUME NEW c \in Calls, Disconnect(c)
        PROVE  \A d \in Calls : answer'[d] = "ack" => answer[d] = "ack" /\ ackStart'[d] = ackStart[d]
    BY <1>0, <2>3, Zenon DEF Disconnect, Return
  <2>4. CASE Restart
    BY <2>4, Zenon DEF Restart
  <2> QED
    BY <2>1, <2>2, <2>3, <2>4, Zenon DEF Server
<1>4. \A n \in Nodes : sync_from[n] # 0 => sync_from[n] \in 1..made
  BY <1>0
<1>5. \A w \in 1..made : AllSynced(w) => active'[w] \subseteq synced'[w]
  BY <1>2 DEF Grows, AllSynced
<1>6. UNCHANGED <<site, phase, sync_from, sync_start>>
  BY DEF nodeVars
<1> QED
  BY <1>1, <1>3, <1>4, <1>5, <1>6, Zenon DEF CalmInv, AllSynced

(* Nobody leaves a calm start, and nobody in it calls twice.                *)
LEMMA CalmIsKept == NodeInv /\ CalmInv /\ [NodeNext]_allVars => CalmInv'
<1> SUFFICES ASSUME NodeInv, CalmInv, [NodeNext]_allVars PROVE CalmInv'
  OBVIOUS
<1>0. /\ synced \in [Workloads -> SUBSET Nodes] /\ DOMAIN phase = Nodes /\ site \in Sites
  BY Zenon DEF NodeInv, IInv, TypeOK, NodeTypeOK
<1>1. CASE ~site.calm
  <2>1. site' = site
    BY DEF NodeNext, Step, allVars, nodeVars
  <2> QED
    BY <1>1, <2>1, Zenon DEF CalmInv
<1>2. CASE UNCHANGED allVars
  BY <1>0, <1>2, MoveKeepsCalm DEF allVars, nodeVars
<1>3. CASE Step(Server /\ UNCHANGED nodeVars)
  BY <1>3, ServerKeepsCalm, Zenon DEF Step
<1>4. ASSUME NEW n \in Nodes, Step(Launch(n) \/ Signal(n) \/ RunApp(n)), site.calm
      PROVE  CalmInv'
  <2>1. site' = site /\ Calm /\ (Launch(n) \/ Signal(n) \/ RunApp(n))
    BY <1>4, Zenon DEF Step
  <2>2. ~(phase[n] # "off" /\ Exit(n))
    BY <1>0, <2>1, Zenon DEF Calm, Exit, Goto
  <2>3. CASE Launch(n) \/ Signal(n) \/ Connect(n) \/ RetrySleep(n) \/ GetSchedInfo(n)
    <3>1. UNCHANGED <<vars, sync_from, sync_start>>
      BY <2>2, <2>3, Zenon DEF Launch, Signal, Connect, RetrySleep, GetSchedInfo
    <3>2. phase' = phase \/ \E p : phase' = [phase EXCEPT ![n] = p] /\ phase[n] \notin {"awaiting", "running"}
      BY <2>2, <2>3, Zenon DEF Launch, Signal, Connect, RetrySleep, GetSchedInfo, Goto
    <3> QED
      BY <1>0, <2>1, <3>1, <3>2, MoveKeepsCalm
  <2>4. CASE \E c \in site.calls : SyncTimer(n, c)
    <3>1. site.calls \subseteq Calls
      BY <1>0, SiteAssumption
    <3> QED
      BY <1>4, <2>1, <2>4, <3>1, CallKeepsCalm, Zenon
  <2>5. CASE SyncReturn(n)
    <3>1. phase[n] = "awaiting" /\ UNCHANGED vars /\ call[n] \in Calls
      BY <2>5, Zenon DEF SyncReturn, NodeInv, CallsAreOwn
    <3>2. answer[call[n]] = "ack"
      BY <2>2, <2>5, <3>1, Zenon DEF SyncReturn
    <3>3. /\ phase' = [phase EXCEPT ![n] = "running"]
          /\ sync_from' = [sync_from EXCEPT ![n] = on[call[n]]]
          /\ sync_start' = [sync_start EXCEPT ![n] = ackStart[call[n]]]
      BY <2>5, <3>2, Zenon DEF SyncReturn, Goto
    <3>4. AllSynced(on[call[n]]) /\ ackStart[call[n]] = start[on[call[n]]]
      BY <1>4, <3>1, <3>2, Zenon DEF NodeInv, IInv, AckOnlyWhenAllSynced, CalmInv
    <3>5. UNCHANGED <<active, synced, start, on, answer, ackStart>>
      BY <3>1, Zenon DEF vars, storeVars, callVars
    <3>6. DOMAIN sync_start = Nodes /\ DOMAIN sync_from = Nodes /\ \A w \in Workloads : synced[w] \subseteq Nodes
      BY <1>0, <1>4, Zenon DEF CalmInv, NodeInv, NodeTypeOK
    <3>7. \A w \in Workloads : \A m \in synced[w] : phase'[m] \in {"awaiting", "running"}
      BY <1>0, <1>4, <3>3, <3>6, Zenon DEF CalmInv
    <3>8. \A m \in Nodes : sync_from'[m] # 0 => AllSynced(sync_from'[m]) /\ sync_start'[m] = start[sync_from'[m]]
      BY <1>4, <3>3, <3>4, <3>6, Zenon DEF CalmInv
    <3> QED
      BY <1>4, <2>1, <3>3, <3>5, <3>6, <3>7, <3>8, Zenon DEF CalmInv, AllSynced
  <2>6. CASE SyncClientTimeout(n) \/ Shutdown(n)
    BY <2>2, <2>6 DEF SyncClientTimeout, Shutdown
  <2> QED
    BY <2>1, <2>3, <2>4, <2>5, <2>6, Zenon DEF RunApp
<1> QED
  BY <1>1, <1>2, <1>3, <1>4 DEF NodeNext

(* In a calm start, however many nodes there are and whenever they check    *)
(* in, all that one barrier released start at one time.                     *)
THEOREM CalmStartIsTogether == NodeSpec => []StartTogether
<1>1. NodeInit => CalmInv
  BY Zenon DEF NodeInit, Init, CalmInv
<1>2. CalmInv => StartTogether
  BY Zenon DEF CalmInv, StartTogether
<1> QED
  BY <1>1, <1>2, CalmIsKept, NodeInitEstablishes, NodeNextPreserves, PTL DEF NodeSpec

=============================================================================
