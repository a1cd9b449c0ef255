---------------------------- MODULE ServerProofs ----------------------------
(***************************************************************************)
(* Proofs about what the nodes and Timpani-O tell each other.              *)
(*  - C++: the schedule buffer and the polled barrier, for any nodes,      *)
(*    schedules and bounds.  StaleBufferIsFlagged is not inductive: a      *)
(*    callback that copied the map serialises the copy later, so the       *)
(*    invariant also says that a copy which is no longer the stored        *)
(*    schedule is flagged.  For the barrier a second invariant says whose  *)
(*    nodes node_sync_map holds and who of them polled.                    *)
(*  - Rust: a deadline miss is sent once and in order, never vanishes and  *)
(*    is never blamed on an older workload, for any queue depth and number *)
(*    of misses and workloads.                                             *)
(***************************************************************************)
EXTENDS DBusServer, DMissReport, TLAPS

---------------------------------------------------------------------------
(* The C++ server                                                          *)

Copies == [at : {"serialize", "notify"}, node : Nodes \union {"gone"}, map : Nat]

StoreOK ==
    /\ calls \in Nat
    /\ sched_info_map \in Nat /\ sched_info_map <= calls
    /\ sched_info_changed \in BOOLEAN

BufferOK ==
    /\ sched_info_buf \in [ver : Nat, torn : BOOLEAN]
    /\ sched_info_buf.ver <= calls
    /\ sched_info_buf.ver = 0 => sched_info_buf = None

CopyOK ==
    /\ cb \in {Idle} \union Copies
    /\ cb.at = "serialize" =>
           /\ cb.map <= calls
           /\ cb.map # 0 /\ cb.map # sched_info_map => sched_info_changed

IInv == StoreOK /\ BufferOK /\ CopyOK /\ StaleBufferIsFlagged /\ AnswersWhatItCopied

bufferVars == <<storeVars, sched_info_buf, cb>>

(* A step that leaves store, buffer and callback alone keeps the invariant. *)
LEMMA Frame == IInv /\ UNCHANGED bufferVars => IInv'
BY DEF IInv, StoreOK, BufferOK, CopyOK, StaleBufferIsFlagged, AnswersWhatItCopied,
       bufferVars, storeVars, Copies, Idle, None

(* Nothing is stored, serialised or copied before the first call.           *)
LEMMA InitIInv == Init => IInv
<1> SUFFICES ASSUME Init PROVE IInv
    OBVIOUS
<1>1. StoreOK
    <2>1. sched_info_changed \in BOOLEAN
        BY Zenon DEF Init
    <2>2. calls = 0 /\ sched_info_map = 0
        BY Zenon DEF Init
    <2> QED
        BY <2>1, <2>2 DEF StoreOK
<1>2. BufferOK
    BY DEF Init, BufferOK, None
<1>3. CopyOK
    BY DEF Init, CopyOK, Idle
<1>4. StaleBufferIsFlagged /\ AnswersWhatItCopied
    BY DEF Init, StaleBufferIsFlagged, AnswersWhatItCopied
<1> QED
    BY <1>1, <1>2, <1>3, <1>4 DEF IInv

(* AddSchedInfo flags every buffer and every copy of the schedule it        *)
(* removes, whether it then stores a new one or fails.                      *)
LEMMA AddSchedInfoKeeps == IInv /\ AddSchedInfo => IInv'
<1> SUFFICES ASSUME IInv, AddSchedInfo PROVE IInv'
    OBVIOUS
<1> USE DEF IInv, AddSchedInfo
<1>1. StoreOK'
    BY DEF StoreOK
<1>2. BufferOK'
    BY DEF StoreOK, BufferOK, None
<1>3. CopyOK'
    <2>1. cb' = cb /\ cb \in {Idle} \union Copies
        BY DEF CopyOK
    <2>2. ASSUME cb.at = "serialize"
          PROVE  /\ cb.map <= calls'
                 /\ cb.map # 0 /\ cb.map # sched_info_map' => sched_info_changed'
        <3>1. cb.map \in Nat /\ cb.map <= calls
            BY <2>1, <2>2 DEF CopyOK, Copies, Idle
        <3>2. cb.map <= calls'
            BY <3>1 DEF StoreOK
        <3>3. ASSUME cb.map # 0 PROVE sched_info_changed'
            BY <2>2, <3>3, Zenon DEF CopyOK, StoreOK
        <3> QED
            BY <3>2, <3>3
    <2> QED
        BY <2>1, <2>2 DEF CopyOK
<1>4. StaleBufferIsFlagged'
    BY Zenon DEF StoreOK, BufferOK, StaleBufferIsFlagged, None
<1>5. AnswersWhatItCopied'
    BY DEF AnswersWhatItCopied, None
<1> QED
    BY <1>1, <1>2, <1>3, <1>4, <1>5

(* SchedInfoCallback takes the flag and frees what was flagged.             *)
LEMMA SchedInfoCallbackKeeps ==
    ASSUME NEW n \in Nodes, IInv, SchedInfoCallback(n)
    PROVE  IInv'
<1> USE DEF IInv, SchedInfoCallback, GetSchedInfoMap
<1>1. StoreOK'
    BY Zenon DEF StoreOK
<1>2. BufferOK'
    BY DEF StoreOK, BufferOK, None
<1>3. CopyOK'
    BY DEF StoreOK, CopyOK, Copies
<1>4. StaleBufferIsFlagged'
    BY DEF StoreOK, StaleBufferIsFlagged
<1>5. AnswersWhatItCopied'
    BY DEF StoreOK, StaleBufferIsFlagged, AnswersWhatItCopied
<1> QED
    BY <1>1, <1>2, <1>3, <1>4, <1>5

(* The buffer made from a copy is the stored schedule's, or it is flagged.  *)
LEMMA SchedInfoReplyKeeps == IInv /\ SchedInfoReply => IInv'
<1> SUFFICES ASSUME IInv, SchedInfoReply PROVE IInv'
    OBVIOUS
<1>0. /\ cb.at = "serialize" /\ cb \in Copies /\ cb' = Idle
      /\ sched_info_buf' \in SerializeSchedInfo(cb.map)
      /\ UNCHANGED storeVars
    BY DEF IInv, CopyOK, SchedInfoReply, Idle
<1>1. StoreOK'
    BY <1>0 DEF IInv, StoreOK, storeVars
<1>2. CopyOK' /\ AnswersWhatItCopied'
    BY <1>0 DEF CopyOK, AnswersWhatItCopied, Idle
<1>3. CASE sched_info_buf # None \/ cb.map = 0
    <2>1. sched_info_buf' = sched_info_buf
        BY <1>0, <1>3, Zenon DEF SerializeSchedInfo
    <2> QED
        BY <1>0, <1>1, <1>2, <2>1 DEF IInv, BufferOK, StaleBufferIsFlagged, storeVars, None
<1>4. CASE sched_info_buf = None /\ cb.map # 0
    <2>1. /\ sched_info_buf' \in [ver : Nat, torn : BOOLEAN]
          /\ sched_info_buf'.ver = cb.map
          /\ cb.map = sched_info_map => sched_info_buf'.torn = FALSE
        BY <1>0, <1>4, Zenon DEF SerializeSchedInfo, Copies
    <2>2. BufferOK'
        BY <1>0, <1>4, <2>1 DEF IInv, BufferOK, CopyOK, storeVars
    <2>3. StaleBufferIsFlagged'
        BY <1>0, <1>4, <2>1 DEF IInv, CopyOK, StaleBufferIsFlagged, storeVars
    <2> QED
        BY <1>1, <1>2, <2>2, <2>3 DEF IInv
<1> QED
    BY <1>3, <1>4

(* The other steps that touch the callback or empty the store.              *)
LEMMA OthersKeep ==
    ASSUME IInv,
           \/ NotifyReturn \/ Restart
           \/ \E n \in Nodes : DMissCallback(n) \/ Exit(n)
    PROVE  IInv'
<1>1. CASE NotifyReturn
    BY <1>1 DEF NotifyReturn, IInv, StoreOK, BufferOK, CopyOK, StaleBufferIsFlagged,
                AnswersWhatItCopied, storeVars, Idle, None
<1>2. CASE Restart
    <2>1. StoreOK'
        <3>1. sched_info_changed' \in BOOLEAN
            BY <1>2, Zenon DEF Restart
        <3>2. sched_info_map' = 0 /\ calls' = calls
            BY <1>2, Zenon DEF Restart
        <3> QED
            BY <3>1, <3>2 DEF IInv, StoreOK
    <2>2. BufferOK'
        BY <1>2 DEF Restart, IInv, StoreOK, BufferOK, None
    <2>3. CopyOK'
        BY <1>2 DEF Restart, CopyOK, Idle
    <2>4. StaleBufferIsFlagged' /\ AnswersWhatItCopied'
        BY <1>2 DEF Restart, StaleBufferIsFlagged, AnswersWhatItCopied
    <2> QED
        BY <2>1, <2>2, <2>3, <2>4 DEF IInv
<1>3. ASSUME NEW n \in Nodes, DMissCallback(n) PROVE IInv'
    BY <1>3 DEF DMissCallback, IInv, StoreOK, BufferOK, CopyOK, StaleBufferIsFlagged,
                AnswersWhatItCopied, storeVars, Copies, None
<1>4. ASSUME NEW n \in Nodes, Exit(n) PROVE IInv'
    <2>1. CASE cb' = cb
        BY <1>4, <2>1, Frame DEF Exit, bufferVars
    <2>2. CASE cb # Idle /\ cb' = [cb EXCEPT !.node = "gone"]
        <3>1. cb \in Copies /\ cb' \in Copies /\ cb'.at = cb.at /\ cb'.map = cb.map
            BY <2>2 DEF IInv, CopyOK, Copies
        <3> QED
            BY <1>4, <3>1 DEF Exit, IInv, StoreOK, BufferOK, CopyOK, StaleBufferIsFlagged,
                              AnswersWhatItCopied, storeVars, None
    <2> QED
        BY <1>4, <2>1, <2>2 DEF Exit
<1> QED
    BY <1>1, <1>2, <1>3, <1>4

(* Every step of the server and of the nodes keeps the invariant.           *)
LEMMA NextKeeps == IInv /\ [Next]_vars => IInv'
<1> SUFFICES ASSUME IInv, [Next]_vars PROVE IInv'
    OBVIOUS
<1>1. CASE UNCHANGED vars
    BY <1>1, Frame DEF vars, bufferVars
<1>2. CASE StartThread \/ StartDone \/ EventLoop
    BY <1>2, Frame DEF StartThread, StartDone, EventLoop, bufferVars
<1>3. ASSUME NEW n \in Nodes,
             \/ server_handler(n) \/ SyncCallback(n) \/ Launch(n) \/ get_sched_info(n)
             \/ sync_timer_internal(n) \/ report_deadline_miss(n)
      PROVE  IInv'
    BY <1>3, Frame DEF server_handler, SyncCallback, Launch, get_sched_info, sync_timer_internal,
                       report_deadline_miss, bufferVars
<1> QED
    BY <1>1, <1>2, <1>3, AddSchedInfoKeeps, SchedInfoCallbackKeeps, SchedInfoReplyKeeps,
       OthersKeep DEF Next

(* The buffer's invariant holds in every reachable state.                   *)
THEOREM Invariance == Spec => []IInv
BY InitIInv, NextKeeps, PTL DEF Spec

(* A buffer of a replaced, removed or torn schedule is flagged: what        *)
(* sched_info_changed_ is for.                                              *)
THEOREM StaleFlagged == Spec => []StaleBufferIsFlagged
<1>1. IInv => StaleBufferIsFlagged
    BY DEF IInv
<1> QED
    BY <1>1, Invariance, PTL

(* SchedInfoCallback never answers from a buffer older than its copy.       *)
THEOREM AnswersCopied == Spec => []AnswersWhatItCopied
<1>1. IInv => AnswersWhatItCopied
    BY DEF IInv
<1> QED
    BY <1>1, Invariance, PTL

----------------------------------------------------------------------------
(* The barrier.  BarrierOfItsWorkload is not inductive: the sync map must   *)
(* be that of syncOf with only pollers ready, and while it is empty no      *)
(* running node may have pulled the schedule it is going to be made from.   *)

SyncTypes ==
    /\ calls <= MaxCalls /\ syncOf \in 0..calls
    /\ node_sync_map \in [Nodes -> {"absent", "waiting", "ready"}]
    /\ DOMAIN phase = Nodes /\ DOMAIN pulled = Nodes
    /\ \A n \in Nodes : pulled[n].ver \in 0..calls

MapIsOf(map, v) == \A n \in Nodes : map[n] # "absent" <=> v # 0 /\ n \in Members[v]

ReadyPolled(map, who) == \A n \in Nodes : map[n] = "ready" => n \in who

NoneAhead ==
    node_sync_map = NoMap =>
        \A n \in Nodes : phase[n] = "run" /\ sched_info_map # 0 => pulled[n].ver < sched_info_map

SyncInv ==
    /\ SyncTypes /\ MapIsOf(node_sync_map, syncOf) /\ ReadyPolled(node_sync_map, polled)
    /\ NoneAhead /\ BarrierOfItsWorkload

(* A step that makes no node run and leaves store and sync map alone.       *)
LEMMA SyncFrame ==
    ASSUME SyncInv, StoreOK, UNCHANGED syncVars, calls' = calls, sched_info_map' = sched_info_map,
           DOMAIN phase' = Nodes, DOMAIN pulled' = Nodes,
           \A n \in Nodes : phase'[n] = "run" => phase[n] = "run" /\ pulled'[n] = pulled[n],
           \A n \in Nodes : pulled'[n].ver \in 0..calls
    PROVE  SyncInv'
<1>1. UNCHANGED <<node_sync_map, syncOf, polled>>
    BY DEF syncVars
<1>2. SyncTypes'
    BY <1>1 DEF SyncInv, SyncTypes
<1>3. MapIsOf(node_sync_map, syncOf)' /\ ReadyPolled(node_sync_map, polled)'
    BY <1>1 DEF SyncInv, MapIsOf, ReadyPolled
<1>4. NoneAhead'
    BY <1>1 DEF SyncInv, NoneAhead, NoMap
<1>5. BarrierOfItsWorkload'
    BY <1>1 DEF SyncInv, BarrierOfItsWorkload
<1> QED
    BY <1>2, <1>3, <1>4, <1>5 DEF SyncInv

(* AddSchedInfo stores a schedule that no node has pulled.                  *)
LEMMA AddSchedInfoKeepsSync == SyncInv /\ StoreOK /\ AddSchedInfo => SyncInv'
<1> SUFFICES ASSUME SyncInv, StoreOK, AddSchedInfo PROVE SyncInv'
    OBVIOUS
<1>1. /\ calls < MaxCalls /\ calls' = calls + 1 /\ sched_info_map' \in {0, calls + 1}
      /\ UNCHANGED <<node_sync_map, syncOf, polled, phase, pulled>>
    BY DEF AddSchedInfo, syncVars, nodeVars
<1>2. calls \in Nat /\ MaxCalls \in Nat
    BY BoundAssumption DEF StoreOK
<1>3. SyncTypes'
    BY <1>1, <1>2 DEF SyncInv, SyncTypes
<1>4. MapIsOf(node_sync_map, syncOf)' /\ ReadyPolled(node_sync_map, polled)'
    BY <1>1 DEF SyncInv, MapIsOf, ReadyPolled
<1>5. NoneAhead'
    <2>1. \A n \in Nodes : pulled'[n].ver \in 0..calls
        BY <1>1 DEF SyncInv, SyncTypes
    <2> QED
        BY <1>1, <1>2, <2>1 DEF NoneAhead
<1>6. BarrierOfItsWorkload'
    BY <1>1 DEF SyncInv, BarrierOfItsWorkload
<1> QED
    BY <1>3, <1>4, <1>5, <1>6 DEF SyncInv

(* SyncCallback lets a node run when all nodes of the map have polled.      *)
LEMMA SyncCallbackKeepsSync ==
    ASSUME SyncInv, StoreOK, NEW n \in Nodes, SyncCallback(n)
    PROVE  SyncInv'
<1> DEFINE map == SyncMap
           of == IF node_sync_map = NoMap THEN sched_info_map ELSE syncOf
<1>1. /\ node_sync_map' = Mark(map, n) /\ syncOf' = of /\ polled' = polled \union {n}
      /\ phase' = [phase EXCEPT ![n] =
             IF node_sync_map'[n] # "absent" /\ AllReady(node_sync_map') THEN "run" ELSE "sync"]
      /\ UNCHANGED <<calls, sched_info_map, pulled>>
    BY DEF SyncCallback, storeVars
<1>2. /\ calls \in Nat /\ calls <= MaxCalls /\ MaxCalls \in Nat /\ sched_info_map \in 0..calls /\ syncOf \in 0..calls
      /\ node_sync_map \in [Nodes -> {"absent", "waiting", "ready"}]
      /\ DOMAIN phase = Nodes /\ DOMAIN pulled = Nodes
    BY BoundAssumption DEF SyncInv, SyncTypes, StoreOK
<1>3. of \in 0..calls
    BY <1>2
<1>4. of # 0 => Members[of] \subseteq Nodes
    <2>1. of # 0 => of \in 1..MaxCalls
        BY <1>2, <1>3
    <2> HIDE DEF of
    <2> QED
        BY <2>1, BoundAssumption
<1>5. map \in [Nodes -> {"absent", "waiting", "ready"}] /\ MapIsOf(map, of) /\ ReadyPolled(map, polled)
    <2>1. CASE node_sync_map = NoMap /\ sched_info_map # 0
        <3>1. map = [m \in Nodes |-> IF m \in Members[sched_info_map] THEN "waiting" ELSE "absent"] /\ of = sched_info_map
            BY <2>1 DEF SyncMap
        <3> HIDE DEF map, of
        <3> QED
            BY <2>1, <3>1 DEF MapIsOf, ReadyPolled
    <2>2. CASE ~(node_sync_map = NoMap /\ sched_info_map # 0)
        <3>1. map = node_sync_map
            BY <2>2 DEF SyncMap
        <3>2. MapIsOf(node_sync_map, of)
            <4>1. CASE node_sync_map = NoMap
                <5>1. of = 0 /\ \A m \in Nodes : node_sync_map[m] = "absent"
                    BY <2>2, <4>1 DEF NoMap
                <5> QED
                    BY <5>1 DEF MapIsOf
            <4>2. CASE node_sync_map # NoMap
                BY <4>2 DEF SyncInv
            <4> QED
                BY <4>1, <4>2
        <3> HIDE DEF map, of
        <3> QED
            BY <1>2, <3>1, <3>2 DEF SyncInv
    <2> QED
        BY <2>1, <2>2
<1> HIDE DEF map, of
<1>6. /\ node_sync_map' \in [Nodes -> {"absent", "waiting", "ready"}]
      /\ \A m \in Nodes : node_sync_map'[m] = "absent" <=> map[m] = "absent"
      /\ \A m \in Nodes : node_sync_map'[m] = "ready" => m = n \/ map[m] = "ready"
    BY <1>1, <1>5 DEF Mark
<1>7. MapIsOf(node_sync_map, syncOf)' /\ ReadyPolled(node_sync_map, polled)'
    <2>1. MapIsOf(node_sync_map', of)
        BY <1>5, <1>6 DEF MapIsOf
    <2>2. ReadyPolled(node_sync_map', polled \union {n})
        BY <1>5, <1>6 DEF ReadyPolled
    <2> QED
        BY <1>1, <2>1, <2>2 DEF MapIsOf, ReadyPolled
<1>8. SyncTypes'
    <2>1. DOMAIN phase' = Nodes /\ \A m \in Nodes : pulled'[m].ver \in 0..calls'
        BY <1>1, <1>2, Zenon DEF SyncInv, SyncTypes
    <2> QED
        BY <1>1, <1>2, <1>3, <1>6, <2>1, Zenon DEF SyncTypes
<1>9. NoneAhead'
    <2> SUFFICES ASSUME node_sync_map' = NoMap, NEW m \in Nodes, phase'[m] = "run", sched_info_map' # 0
                 PROVE  pulled'[m].ver < sched_info_map'
        BY DEF NoneAhead, NoMap
    <2>1. \A k \in Nodes : node_sync_map'[k] = "absent" /\ map[k] = "absent"
        BY <1>6 DEF NoMap
    <2>2. m # n /\ phase[m] = "run"
        BY <1>1, <1>2, <2>1
    <2>3. node_sync_map = NoMap
        <3>1. CASE node_sync_map # NoMap
            <4>1. map = node_sync_map
                BY <3>1 DEF map, SyncMap
            <4> QED
                BY <1>2, <2>1, <4>1 DEF NoMap
        <3> QED
            BY <3>1
    <2> QED
        BY <1>1, <2>2, <2>3, Zenon DEF SyncInv, NoneAhead
<1>10. BarrierOfItsWorkload'
    <2> SUFFICES ASSUME NEW m \in Nodes, phase'[m] = "run", syncOf' # 0, pulled'[m].ver = syncOf'
                 PROVE  Members[syncOf'] \subseteq polled'
        BY DEF BarrierOfItsWorkload
    <2>1. CASE AllReady(node_sync_map')
        <3>1. \A k \in Nodes : k \in Members[syncOf'] => k \in polled'
            BY <1>6, <1>7, <2>1 DEF AllReady, MapIsOf, ReadyPolled
        <3> QED
            BY <1>1, <1>4, <3>1
    <2>2. CASE ~AllReady(node_sync_map')
        <3>1. phase[m] = "run" /\ pulled[m].ver = of
            BY <1>1, <1>2, <2>2
        <3>2. CASE node_sync_map = NoMap
            <4>1. of = sched_info_map
                BY <3>2, Zenon DEF of
            <4>2. pulled[m].ver < sched_info_map
                BY <1>1, <3>1, <3>2, <4>1, Zenon DEF SyncInv, NoneAhead
            <4> QED
                BY <1>2, <3>1, <4>1, <4>2
        <3>3. CASE node_sync_map # NoMap
            <4>1. of = syncOf
                BY <3>3 DEF of
            <4> QED
                BY <1>1, <3>1, <4>1, Zenon DEF SyncInv, BarrierOfItsWorkload
        <3> QED
            BY <3>2, <3>3
    <2> QED
        BY <2>1, <2>2
<1> QED
    BY <1>7, <1>8, <1>9, <1>10 DEF SyncInv

(* A pull ends with the node in the barrier, or with no change of phase.    *)
LEMMA SchedInfoReplyKeepsSync == SyncInv /\ IInv /\ IInv' /\ SchedInfoReply => SyncInv'
<1> SUFFICES ASSUME SyncInv, IInv, IInv', SchedInfoReply PROVE SyncInv'
    OBVIOUS
<1>1. UNCHANGED syncVars /\ calls' = calls /\ sched_info_map' = sched_info_map
    BY DEF SchedInfoReply, storeVars
<1>2. DOMAIN phase = Nodes /\ DOMAIN pulled = Nodes /\ \A n \in Nodes : pulled[n].ver \in 0..calls
    BY DEF SyncInv, SyncTypes
<1>3. StoreOK /\ sched_info_buf'.ver \in 0..calls
    BY <1>1 DEF IInv, BufferOK
<1>4. CASE UNCHANGED <<phase, pulled>>
    BY <1>1, <1>2, <1>3, <1>4, SyncFrame
<1>5. CASE ~UNCHANGED <<phase, pulled>>
    <2>1. PICK n : /\ pulled' = [pulled EXCEPT ![n] = sched_info_buf']
                   /\ phase' = [phase EXCEPT ![n] = IF n \in Members[sched_info_buf'.ver] THEN "sync" ELSE "off"]
        BY <1>5 DEF SchedInfoReply
    <2>2. DOMAIN phase' = Nodes /\ DOMAIN pulled' = Nodes
        BY <1>2, <2>1
    <2>3. \A m \in Nodes : /\ phase'[m] = "run" => phase[m] = "run" /\ pulled'[m] = pulled[m]
                           /\ pulled'[m].ver \in 0..calls
        BY <1>2, <1>3, <2>1
    <2> QED
        BY <1>1, <1>3, <2>2, <2>3, SyncFrame
<1> QED
    BY <1>4, <1>5

(* After a restart the nodes that still run have pulled older schedules.    *)
LEMMA RestartKeepsSync == SyncInv /\ StoreOK /\ Restart => SyncInv'
<1> SUFFICES ASSUME SyncInv, StoreOK, Restart PROVE SyncInv'
    OBVIOUS
<1>1. /\ sched_info_map' = 0 /\ node_sync_map' = NoMap /\ syncOf' = 0 /\ polled' = {}
      /\ phase' = [n \in Nodes |-> IF phase[n] = "sync" THEN "off" ELSE phase[n]]
      /\ UNCHANGED <<calls, pulled>>
    BY DEF Restart
<1>2. SyncTypes'
    BY <1>1 DEF SyncInv, SyncTypes, StoreOK, NoMap
<1>3. MapIsOf(node_sync_map, syncOf)' /\ ReadyPolled(node_sync_map, polled)'
    BY <1>1 DEF MapIsOf, ReadyPolled, NoMap
<1> QED
    BY <1>1, <1>2, <1>3 DEF SyncInv, NoneAhead, BarrierOfItsWorkload

(* Every step of the server and of the nodes keeps the barrier's invariant. *)
LEMMA NextKeepsSync == SyncInv /\ IInv /\ IInv' /\ [Next]_vars => SyncInv'
<1> SUFFICES ASSUME SyncInv, IInv, IInv', [Next]_vars PROVE SyncInv'
    OBVIOUS
<1>1. StoreOK
    BY DEF IInv
<1>2. DOMAIN phase = Nodes /\ DOMAIN pulled = Nodes /\ \A n \in Nodes : pulled[n].ver \in 0..calls
    BY DEF SyncInv, SyncTypes
<1>3. ASSUME UNCHANGED syncVars, UNCHANGED storeVars, UNCHANGED <<phase, pulled>> PROVE SyncInv'
    BY <1>1, <1>2, <1>3, SyncFrame DEF storeVars
<1>4. CASE UNCHANGED vars
    BY <1>3, <1>4 DEF vars, nodeVars
<1>5. CASE StartThread \/ StartDone \/ EventLoop \/ NotifyReturn
    BY <1>3, <1>5, Zenon DEF StartThread, StartDone, EventLoop, NotifyReturn, nodeVars
<1>6. ASSUME NEW n \in Nodes,
             server_handler(n) \/ DMissCallback(n) \/ get_sched_info(n) \/ sync_timer_internal(n)
             \/ report_deadline_miss(n)
      PROVE  SyncInv'
    BY <1>3, <1>6, Zenon DEF server_handler, DMissCallback, get_sched_info, sync_timer_internal,
                             report_deadline_miss, nodeVars
<1>7. ASSUME NEW n \in Nodes, SchedInfoCallback(n) PROVE SyncInv'
    <2>1. UNCHANGED syncVars /\ UNCHANGED <<phase, pulled>> /\ calls' = calls /\ sched_info_map' = sched_info_map
        BY <1>7 DEF SchedInfoCallback, GetSchedInfoMap, nodeVars
    <2> QED
        BY <1>1, <1>2, <2>1, SyncFrame
<1>8. ASSUME NEW n \in Nodes, Launch(n) PROVE SyncInv'
    <2>1. /\ UNCHANGED syncVars /\ calls' = calls /\ sched_info_map' = sched_info_map
          /\ pulled' = pulled /\ phase' = [phase EXCEPT ![n] = "pull"]
        BY <1>8 DEF Launch, storeVars
    <2>2. DOMAIN phase' = Nodes /\ \A m \in Nodes : phase'[m] = "run" => phase[m] = "run"
        BY <1>2, <2>1
    <2> QED
        BY <1>1, <1>2, <2>1, <2>2, SyncFrame
<1>9. ASSUME NEW n \in Nodes, Exit(n) PROVE SyncInv'
    <2>1. /\ UNCHANGED syncVars /\ calls' = calls /\ sched_info_map' = sched_info_map
          /\ pulled' = [pulled EXCEPT ![n] = None] /\ phase' = [phase EXCEPT ![n] = "off"]
        BY <1>9 DEF Exit, storeVars
    <2>2. /\ DOMAIN phase' = Nodes /\ DOMAIN pulled' = Nodes
          /\ \A m \in Nodes : phase'[m] = "run" => phase[m] = "run" /\ pulled'[m] = pulled[m]
        BY <1>2, <2>1
    <2>3. \A m \in Nodes : pulled'[m].ver \in 0..calls
        BY <1>1, <1>2, <2>1 DEF None, StoreOK
    <2> QED
        BY <1>1, <2>1, <2>2, <2>3, SyncFrame
<1> QED
    BY <1>1, <1>4, <1>5, <1>6, <1>7, <1>8, <1>9, AddSchedInfoKeepsSync, SyncCallbackKeepsSync,
       SchedInfoReplyKeepsSync, RestartKeepsSync DEF Next

(* No node runs with the schedule of the sync map before all nodes of that  *)
(* schedule have polled SyncCallback, whatever AddSchedInfo replaces, and   *)
(* through exits of nodes and restarts of Timpani-O.                        *)
THEOREM BarrierHolds == Spec => []BarrierOfItsWorkload
<1>1. Init => SyncInv
    <2> SUFFICES ASSUME Init PROVE SyncInv
        OBVIOUS
    <2>1. /\ calls = 0 /\ syncOf = 0 /\ node_sync_map = NoMap /\ polled = {} /\ sched_info_map = 0
          /\ phase = [n \in Nodes |-> "off"] /\ pulled = [n \in Nodes |-> None]
        BY DEF Init
    <2>2. SyncTypes
        BY <2>1, BoundAssumption DEF SyncTypes, NoMap, None
    <2> QED
        BY <2>1, <2>2 DEF SyncInv, MapIsOf, ReadyPolled, NoneAhead, BarrierOfItsWorkload, NoMap
<1>2. SyncInv => BarrierOfItsWorkload
    BY DEF SyncInv
<1> QED
    BY <1>1, <1>2, NextKeepsSync, Invariance, PTL DEF Spec

---------------------------------------------------------------------------
(* Deadline misses of the Rust port                                        *)

Queued == {queue[i] : i \in DOMAIN queue}

Fates == {"none", "queued", "closed", "full", "lost", "rpc", "delivered", "refused", "failed"}

Handlers == {"none", "lock", "notify", "ok", "error", "gone"}

MissTypeOK ==
    /\ reported \in 0..MaxMisses
    /\ queue \in Seq(1..reported)
    /\ reporter \in {"recv", "rpc", "stopped"}
    /\ current \in 0..reported
    /\ fate \in [Misses -> Fates]
    /\ ran \in [Misses -> 0..store.made]
    /\ handler \in [Misses -> Handlers]
    /\ blamed \in [Misses -> Nat]
    /\ received \in [Misses -> Nat]
    /\ store \in [cur : Nat, made : 0..MaxWorkloads]

(* The queue holds exactly the misses with the fate "queued"; a miss is     *)
(* with the reporter exactly while its RPC is pending                       *)
FatesAreTrue ==
    /\ \A k \in Misses : fate[k] = "queued" <=> k \in Queued
    /\ \A k \in Misses : fate[k] = "rpc" <=> reporter = "rpc" /\ current = k
    /\ reporter = "rpc" => current # 0
    /\ \A k \in Misses : fate[k] = "none" <=> k > reported

(* Nothing happens on the server before a miss is sent, and Pullpiri is     *)
(* notified at the end of a handler                                         *)
HandlersAreOnce ==
    /\ \A k \in Misses : k > reported \/ fate[k] = "queued" => handler[k] = "none"
    /\ \A k \in Misses : handler[k] = "none" => blamed[k] = 0
    /\ \A k \in Misses : handler[k] \in {"none", "lock", "notify"} => received[k] = 0
    /\ store.cur \in {0, store.made}

(* The inductive invariant                                                  *)
MissInv == MissTypeOK /\ FatesAreTrue /\ HandlersAreOnce /\ SentOnceInOrder /\ NeverBlamedOnOlder

Sent == {"rpc", "delivered", "refused", "failed"}

(* Nothing is reported, queued or stored at the start.                      *)
LEMMA MissInitEstablishes == MissInit => MissInv
<1> SUFFICES ASSUME MissInit PROVE MissInv
  OBVIOUS
<1>1. MissTypeOK
  BY MissAssumption DEF MissInit, MissTypeOK, Misses, Fates, Handlers
<1>2. Queued = {}
  BY DEF MissInit, Queued
<1> QED
  BY <1>1, <1>2, MissAssumption DEF MissInit, MissInv, FatesAreTrue, HandlersAreOnce, SentOnceInOrder,
     NeverBlamedOnOlder, Misses

(* The newest miss is younger than all others, and goes to the end.         *)
LEMMA ReportPreserves ==
    ASSUME MissInv, NEW w \in 1..store.made, report_dmiss(w)
    PROVE  MissInv'
<1> DEFINE k == reported + 1
<1>1. /\ k \in Misses /\ reported \in Nat /\ reported' = k
      /\ ran' = [ran EXCEPT ![k] = w]
      /\ UNCHANGED <<reporter, current, handler, blamed, received, store>>
  BY MissAssumption DEF report_dmiss, serverVars, Misses, MissInv, MissTypeOK
<1>2. PICK f \in {"queued", "closed", "full"} :
         /\ fate' = [fate EXCEPT ![k] = f]
         /\ f = "queued" => queue' = Append(queue, k)
         /\ f # "queued" => queue' = queue
  BY DEF report_dmiss
<1>3. fate \in [Misses -> Fates] /\ \A m \in Misses : fate'[m] = IF m = k THEN f ELSE fate[m]
  BY <1>1, <1>2 DEF MissInv, MissTypeOK
<1>4. queue \in Seq(1..reported)
  BY DEF MissInv, MissTypeOK
<1> HIDE DEF k
<1>5. /\ Len(queue) \in Nat /\ DOMAIN queue = 1..Len(queue)
      /\ \A i \in 1..Len(queue) : queue[i] \in Nat /\ queue[i] <= reported
  BY <1>1, <1>4
<1>6. /\ f = "queued" => DOMAIN queue' = 1..(Len(queue) + 1) /\ queue'[Len(queue) + 1] = k
      /\ \A i \in 1..Len(queue) : i \in DOMAIN queue' /\ queue'[i] = queue[i]
      /\ f # "queued" => DOMAIN queue' = DOMAIN queue
  BY <1>2, <1>4, <1>5
<1>7. k > reported /\ k \in Nat
  BY <1>1 DEF k
<1>8. \A m \in Misses : m # k => (m > k <=> m > reported)
  BY <1>1 DEF k, Misses
<1>9. MissTypeOK'
  <2>1. queue' \in Seq(1..k)
    <3>1. queue \in Seq(1..k) /\ k \in 1..k
      BY <1>1, <1>4, <1>5, <1>7
    <3>2. Append(queue, k) \in Seq(1..k)
      BY <3>1
    <3> QED
      BY <1>2, <3>1, <3>2, Zenon
  <2>2. ran' \in [Misses -> 0..store'.made]
    BY <1>1 DEF MissInv, MissTypeOK
  <2>3. fate' \in [Misses -> Fates]
    BY <1>2, <1>3, Zenon DEF Fates
  <2>4. k \in 0..MaxMisses /\ current \in 0..k
    BY <1>1, <1>7 DEF Misses, MissInv, MissTypeOK
  <2> QED
    BY <1>1, <2>1, <2>2, <2>3, <2>4, Zenon DEF MissInv, MissTypeOK
<1>10. FatesAreTrue'
  <2>1. Queued' = IF f = "queued" THEN Queued \cup {k} ELSE Queued
    <3>1. CASE f # "queued"
      BY <1>2, <3>1, Zenon DEF Queued
    <3>2. CASE f = "queued"
      <4>1. DOMAIN queue' = 1..Len(queue) \cup {Len(queue) + 1}
        BY <1>5, <1>6, <3>2
      <4> QED
        BY <1>5, <1>6, <3>2, <4>1 DEF Queued
    <3> QED
      BY <3>1, <3>2
  <2>2. k \notin Queued
    BY <1>1, <1>5, <1>7 DEF Queued
  <2>3. fate[k] = "none" /\ (reporter = "rpc" => current # k)
    BY <1>1, <1>7, Zenon DEF MissInv, FatesAreTrue
  <2>4. \A m \in Misses : fate'[m] = "queued" <=> m \in Queued'
    BY <1>1, <1>2, <1>3, <2>1, <2>2, Zenon DEF MissInv, FatesAreTrue
  <2>5. \A m \in Misses : fate'[m] = "rpc" <=> reporter' = "rpc" /\ current' = m
    BY <1>1, <1>2, <1>3, <2>3 DEF MissInv, FatesAreTrue
  <2>6. \A m \in Misses : fate'[m] = "none" <=> m > reported'
    <3>1. ~(k > k)
      BY <1>7
    <3> QED
      BY <1>1, <1>2, <1>3, <1>8, <3>1 DEF MissInv, FatesAreTrue
  <2> QED
    BY <1>1, <2>4, <2>5, <2>6 DEF MissInv, FatesAreTrue
<1>11. HandlersAreOnce'
  BY <1>1, <1>3, <1>7, <1>8 DEF MissInv, HandlersAreOnce
<1>12. SentOnceInOrder'
  <2>1. \A i, j \in DOMAIN queue' : i < j => queue'[i] < queue'[j]
    <3>1. CASE f # "queued"
      BY <1>2, <3>1 DEF MissInv, SentOnceInOrder
    <3>2. CASE f = "queued"
      <4>1. \A i \in 1..Len(queue) : queue'[i] < k
        BY <1>1, <1>5, <1>6, <1>7
      <4>2. \A i, j \in 1..Len(queue) : i < j => queue'[i] < queue'[j]
        <5>1. \A i, j \in 1..Len(queue) : i < j => queue[i] < queue[j]
          BY <1>5 DEF MissInv, SentOnceInOrder
        <5>2. \A i \in 1..Len(queue) : queue'[i] = queue[i]
          BY <1>6
        <5> QED
          BY <5>1, <5>2, Zenon
      <4> QED
        BY <1>5, <1>6, <3>2, <4>1, <4>2
    <3> QED
      BY <3>1, <3>2
  <2>2. ASSUME NEW m \in Misses, NEW i \in DOMAIN queue', fate'[m] \in Sent
        PROVE  m < queue'[i]
    <3>1. m # k /\ fate[m] \in Sent
      BY <1>2, <1>3, <2>2 DEF Sent
    <3>2. m <= reported /\ m < k
      BY <1>1, <1>7, <3>1 DEF MissInv, FatesAreTrue, Sent, Misses
    <3>3. CASE i \in DOMAIN queue
      BY <1>5, <1>6, <3>1, <3>3 DEF MissInv, SentOnceInOrder, Sent
    <3>4. CASE i \notin DOMAIN queue
      <4>1. queue'[i] = k
        BY <1>5, <1>6, <3>4
      <4> QED
        BY <3>2, <4>1
    <3> QED
      BY <3>3, <3>4
  <2> QED
    BY <1>1, <2>1, <2>2 DEF MissInv, SentOnceInOrder, Sent
<1>13. NeverBlamedOnOlder'
  BY <1>1, <1>7, Zenon DEF MissInv, MissTypeOK, NeverBlamedOnOlder, HandlersAreOnce
<1> QED
  BY <1>9, <1>10, <1>11, <1>12, <1>13 DEF MissInv

(* What was queued is lost with the reporter.                               *)
LEMMA StopPreserves ==
    ASSUME MissInv, ReporterStop
    PROVE  MissInv'
<1> USE DEF MissInv
<1>1. /\ reporter = "recv" /\ reporter' = "stopped" /\ queue' = <<>>
      /\ fate' = [k \in Misses |-> IF fate[k] = "queued" THEN "lost" ELSE fate[k]]
      /\ UNCHANGED <<reported, current, ran, handler, blamed, received, store>>
  BY DEF ReporterStop, Stop, serverVars
<1>2. Queued' = {}
  BY <1>1 DEF Queued
<1> QED
  BY <1>1, <1>2 DEF MissTypeOK, Fates, Handlers, FatesAreTrue, HandlersAreOnce, SentOnceInOrder, NeverBlamedOnOlder

(* The oldest miss is taken, and no handler has seen it before.             *)
LEMMA RecvPreserves ==
    ASSUME MissInv, ReporterRecv
    PROVE  MissInv'
<1>0. MissTypeOK /\ FatesAreTrue /\ HandlersAreOnce /\ SentOnceInOrder /\ NeverBlamedOnOlder
  BY Zenon DEF MissInv
<1>1. PICK k : k = Head(queue)
  OBVIOUS
<1>2. /\ reporter = "recv" /\ reporter' = "rpc" /\ queue # <<>> /\ queue' = Tail(queue)
      /\ current' = k /\ fate' = [fate EXCEPT ![k] = "rpc"]
      /\ handler' \in {handler, [handler EXCEPT ![k] = "lock"]}
      /\ UNCHANGED <<reported, ran, blamed, received, store>>
  BY <1>1 DEF ReporterRecv
<1>3. /\ queue \in Seq(1..reported) /\ reported \in Nat /\ reported <= MaxMisses /\ MaxMisses \in Nat
      /\ fate \in [Misses -> Fates] /\ handler \in [Misses -> Handlers]
  BY <1>0, MissAssumption DEF MissTypeOK
<1>4. PICK l \in Nat : l = Len(queue)
  BY <1>3
<1>5. /\ l > 0 /\ DOMAIN queue = 1..l /\ DOMAIN queue' = 1..(l - 1) /\ queue[1] = k
      /\ \A i \in 1..(l - 1) : queue'[i] = queue[i + 1]
      /\ queue' \in Seq(1..reported)
  BY <1>1, <1>2, <1>3, <1>4
<1>6. \A i \in 1..l : queue[i] \in Nat /\ queue[i] >= 1 /\ queue[i] <= reported
  BY <1>3, <1>4
<1>7. k \in 1..reported /\ k \in Nat /\ k \in Misses /\ k # 0
  BY <1>3, <1>5, <1>6 DEF Misses
<1>8. k \in Queued
  BY <1>5 DEF Queued
<1>9. \A i \in 1..(l - 1) : i + 1 \in 1..l /\ queue'[i] = queue[i + 1] /\ k < queue'[i]
  <2> SUFFICES ASSUME NEW i \in 1..(l - 1)
               PROVE  i + 1 \in 1..l /\ queue'[i] = queue[i + 1] /\ k < queue'[i]
    OBVIOUS
  <2>1. 1 \in 1..l /\ i + 1 \in 1..l /\ 1 < i + 1
    OBVIOUS
  <2>2. queue[1] < queue[i + 1]
    BY <1>0, <1>5, <2>1 DEF SentOnceInOrder
  <2> QED
    BY <1>5, <2>1, <2>2
<1>10. Queued' = Queued \ {k}
  <2>1. ASSUME NEW i \in DOMAIN queue' PROVE queue'[i] \in Queued \ {k}
    <3>1. i \in 1..(l - 1)
      BY <1>5, <2>1
    <3>2. i + 1 \in DOMAIN queue /\ queue'[i] = queue[i + 1] /\ k < queue[i + 1] /\ queue[i + 1] \in Nat
      BY <1>5, <1>6, <1>9, <3>1
    <3>3. queue[i + 1] # k
      BY <1>7, <3>2
    <3> QED
      BY <3>2, <3>3 DEF Queued
  <2>2. ASSUME NEW i \in DOMAIN queue, queue[i] # k
        PROVE  queue[i] \in Queued'
    <3>1. i \in 1..l /\ i # 1
      BY <1>5, <2>2
    <3>2. i - 1 \in 1..(l - 1) /\ (i - 1) + 1 = i
      BY <3>1
    <3>3. i - 1 \in DOMAIN queue' /\ queue'[i - 1] = queue[i]
      BY <1>5, <3>2
    <3> QED
      BY <3>3 DEF Queued
  <2> QED
    BY <2>1, <2>2 DEF Queued
<1>11. /\ fate' \in [Misses -> Fates] /\ fate'[k] = "rpc" /\ \A m \in Misses : m # k => fate'[m] = fate[m]
  BY <1>2, <1>3, <1>7 DEF Fates
<1>12. /\ handler' \in [Misses -> Handlers] /\ handler'[k] \in {"lock", handler[k]}
       /\ \A m \in Misses : m # k => handler'[m] = handler[m]
  BY <1>2, <1>3, <1>7, Zenon DEF Handlers
<1>13. MissTypeOK'
  <2>1. current' \in 0..reported
    BY <1>2, <1>3, <1>7
  <2> QED
    BY <1>0, <1>2, <1>5, <1>11, <1>12, <2>1, Zenon DEF MissTypeOK
<1>14. FatesAreTrue'
  <2>1. \A m \in Misses : fate'[m] = "queued" <=> m \in Queued'
    BY <1>0, <1>10, <1>11 DEF FatesAreTrue
  <2>2. \A m \in Misses : fate'[m] = "rpc" <=> m = k
    BY <1>0, <1>2, <1>11 DEF FatesAreTrue
  <2>3. \A m \in Misses : fate'[m] = "none" <=> m > reported
    BY <1>0, <1>3, <1>7, <1>11 DEF FatesAreTrue
  <2> QED
    BY <1>2, <1>7, <2>1, <2>2, <2>3 DEF FatesAreTrue
<1>15. HandlersAreOnce'
  <2>1. fate[k] = "queued" /\ handler[k] = "none" /\ blamed[k] = 0 /\ received[k] = 0
    BY <1>0, <1>7, <1>8 DEF FatesAreTrue, HandlersAreOnce
  <2>2. \A m \in Misses : m > reported \/ fate'[m] = "queued" => m # k
    BY <1>3, <1>7, <1>11
  <2> QED
    BY <1>0, <1>2, <1>11, <1>12, <2>1, <2>2, Zenon DEF HandlersAreOnce
<1>16. SentOnceInOrder'
  <2>1. \A i, j \in 1..(l - 1) : i < j => queue'[i] < queue'[j]
    <3>1. ASSUME NEW i \in 1..(l - 1), NEW j \in 1..(l - 1), i < j
          PROVE  queue[i + 1] < queue[j + 1]
      <4>1. i + 1 \in 1..l /\ j + 1 \in 1..l /\ i + 1 < j + 1
        BY <3>1
      <4> QED
        BY <1>0, <1>5, <4>1, Zenon DEF SentOnceInOrder
    <3> QED
      BY <1>5, <3>1
  <2>2. ASSUME NEW m \in Misses, NEW i \in 1..(l - 1), fate'[m] \in Sent
        PROVE  m < queue'[i]
    <3>1. CASE m = k
      BY <1>9, <3>1
    <3>2. CASE m # k
      <4>1. fate[m] \in Sent
        BY <1>11, <2>2, <3>2
      <4>2. i + 1 \in DOMAIN queue /\ queue'[i] = queue[i + 1]
        BY <1>5, <1>9, Zenon
      <4> QED
        BY <1>0, <4>1, <4>2 DEF SentOnceInOrder, Sent
    <3> QED
      BY <3>1, <3>2
  <2> QED
    BY <1>0, <1>2, <1>5, <2>1, <2>2 DEF SentOnceInOrder, Sent
<1>17. NeverBlamedOnOlder'
  BY <1>0, <1>2, Zenon DEF NeverBlamedOnOlder
<1> QED
  BY <1>13, <1>14, <1>15, <1>16, <1>17 DEF MissInv

(* An RPC that ends, in whatever way, has been sent.                        *)
LEMMA FinishPreserves ==
    ASSUME MissInv, RpcReturn \/ RpcFail
    PROVE  MissInv'
<1>0. MissTypeOK /\ FatesAreTrue /\ HandlersAreOnce /\ SentOnceInOrder /\ NeverBlamedOnOlder
  BY Zenon DEF MissInv
<1>1. PICK k : k = current
  BY Zenon
<1>2. /\ reporter = "rpc" /\ reporter' = "recv" /\ current' = 0
      /\ \E r \in {"delivered", "refused", "failed"} : fate' = [fate EXCEPT ![k] = r]
      /\ \/ handler' = handler
         \/ handler[k] \in {"ok", "error"} /\ handler' = [handler EXCEPT ![k] = "gone"]
      /\ UNCHANGED <<reported, queue, ran, blamed, received, store>>
  BY <1>1, Zenon DEF RpcReturn, RpcFail, Finish, serverVars
<1>3. k \in Misses /\ fate[k] = "rpc" /\ k <= reported /\ reported \in Nat /\ k \in Nat
  BY <1>0, <1>1, <1>2, MissAssumption DEF MissTypeOK, FatesAreTrue, Misses
<1>4. UNCHANGED Queued
  BY <1>2, Zenon DEF Queued
<1>5. fate \in [Misses -> Fates] /\ handler \in [Misses -> Handlers]
  BY <1>0 DEF MissTypeOK
<1>6. /\ fate' \in [Misses -> Fates] /\ fate'[k] \in {"delivered", "refused", "failed"}
      /\ \A m \in Misses : m # k => fate'[m] = fate[m]
  BY <1>2, <1>3, <1>5, Zenon DEF Fates
<1>7. /\ handler' \in [Misses -> Handlers] /\ \A m \in Misses : m # k => handler'[m] = handler[m]
      /\ handler'[k] = handler[k] \/ (handler[k] \in {"ok", "error"} /\ handler'[k] = "gone")
  BY <1>2, <1>3, <1>5, Zenon DEF Handlers
<1>8. MissTypeOK'
  <2>1. current' \in 0..reported
    BY <1>2, <1>3
  <2> QED
    BY <1>0, <1>2, <1>6, <1>7, <2>1, Zenon DEF MissTypeOK
<1>9. FatesAreTrue'
  <2>1. \A m \in Misses : fate'[m] = "queued" <=> m \in Queued
    BY <1>0, <1>3, <1>6 DEF FatesAreTrue
  <2>2. \A m \in Misses : fate'[m] # "rpc"
    BY <1>0, <1>1, <1>6 DEF FatesAreTrue
  <2>3. \A m \in Misses : fate'[m] = "none" <=> m > reported
    BY <1>0, <1>3, <1>6, Zenon DEF FatesAreTrue
  <2> QED
    BY <1>2, <1>4, <2>1, <2>2, <2>3 DEF FatesAreTrue
<1>10. HandlersAreOnce'
  <2>1. \A m \in Misses : m > reported \/ fate'[m] = "queued" => m # k
    BY <1>3, <1>6
  <2> QED
    BY <1>0, <1>2, <1>6, <1>7, <2>1, Zenon DEF HandlersAreOnce
<1>11. SentOnceInOrder'
  <2>1. \A m \in Misses : fate'[m] \in Sent => fate[m] \in Sent
    BY <1>3, <1>6, Zenon DEF Sent
  <2> QED
    BY <1>0, <1>2, <2>1, Zenon DEF SentOnceInOrder, Sent
<1>12. NeverBlamedOnOlder'
  BY <1>0, <1>2, Zenon DEF NeverBlamedOnOlder
<1> QED
  BY <1>8, <1>9, <1>10, <1>11, <1>12 DEF MissInv

(* Steps that only the server sees.                                         *)
LEMMA ServerPreserves ==
    ASSUME MissInv, UNCHANGED reporterVars,
           \/ \E k \in Misses : HandlerResolve(k) \/ HandlerNotify(k) \/ HandlerDropped(k)
           \/ Replace \/ ServerRestart
    PROVE  MissInv'
<1> USE DEF MissInv
<1>1. UNCHANGED <<reported, queue, reporter, current, fate, ran, Queued>>
  BY Zenon DEF reporterVars, Queued
<1>2. FatesAreTrue'
  BY <1>1, Zenon DEF FatesAreTrue
<1>3. CASE \E k \in Misses : HandlerResolve(k)
  <2>1. PICK k \in Misses : HandlerResolve(k)
    BY <1>3
  <2>2. /\ handler[k] = "lock" /\ received[k] = 0
        /\ \E h \in {"error", "notify"} : handler' = [handler EXCEPT ![k] = h]
        /\ blamed' = [blamed EXCEPT ![k] = store.cur]
        /\ UNCHANGED <<received, store>>
    BY <2>1, Zenon DEF HandlerResolve, HandlersAreOnce
  <2>3. MissTypeOK'
    BY <1>1, <2>2, Zenon DEF MissTypeOK, Handlers
  <2>4. HandlersAreOnce' /\ SentOnceInOrder'
    BY <1>1, <2>2, Zenon DEF MissTypeOK, HandlersAreOnce, SentOnceInOrder
  <2>5. NeverBlamedOnOlder'
    <3>1. store.made \in Nat /\ store.cur \in Nat /\ ran[k] \in 0..store.made
      BY MissAssumption DEF MissTypeOK
    <3>2. store.cur # 0 => ran[k] <= store.cur
      BY <3>1 DEF HandlersAreOnce
    <3> QED
      BY <1>1, <2>2, <3>2, Zenon DEF NeverBlamedOnOlder, MissTypeOK
  <2> QED
    BY <1>2, <2>3, <2>4, <2>5
<1>4. CASE \E k \in Misses : HandlerNotify(k)
  <2>1. PICK k \in Misses : HandlerNotify(k)
    BY <1>4, Zenon
  <2>2. handler[k] = "notify" /\ received[k] = 0 /\ UNCHANGED <<blamed, store>>
    BY <2>1, Zenon DEF HandlerNotify, HandlersAreOnce
  <2>3. \E r \in {"ok", "error"} : handler' = [handler EXCEPT ![k] = r]
    BY <2>1, Zenon DEF HandlerNotify
  <2>4. received' = received \/ received' = [received EXCEPT ![k] = 1]
    BY <2>1, <2>2 DEF HandlerNotify, notify_fault, MissTypeOK
  <2>5. MissTypeOK'
    <3>1. handler' \in [Misses -> Handlers]
      BY <2>3, Zenon DEF MissTypeOK, Handlers
    <3>2. received' \in [Misses -> Nat]
      <4>1. received \in [Misses -> Nat]
        BY DEF MissTypeOK
      <4>2. [received EXCEPT ![k] = 1] \in [Misses -> Nat]
        BY <4>1, Zenon
      <4> QED
        BY <2>4, <4>1, <4>2
    <3> QED
      BY <1>1, <2>2, <3>1, <3>2, Zenon DEF MissTypeOK
  <2>6. HandlersAreOnce'
    BY <1>1, <2>2, <2>3, <2>4, Zenon DEF MissTypeOK, HandlersAreOnce
  <2>7. SentOnceInOrder' /\ NeverBlamedOnOlder'
    <3>1. \A m \in Misses : received'[m] = received[m] \/ received'[m] = 1
      BY <2>4 DEF MissTypeOK
    <3>2. \A m \in Misses : received'[m] <= 1
      BY <3>1 DEF SentOnceInOrder
    <3> QED
      BY <1>1, <2>2, <3>2, Zenon DEF SentOnceInOrder, NeverBlamedOnOlder
  <2> QED
    BY <1>2, <2>5, <2>6, <2>7
<1>5. CASE \E k \in Misses : HandlerDropped(k)
  BY <1>1, <1>2, <1>5, ZenonT(60) DEF HandlerDropped, MissTypeOK, Fates, Handlers, HandlersAreOnce, SentOnceInOrder, NeverBlamedOnOlder
<1>6. CASE Replace
  BY <1>1, <1>2, <1>6, MissAssumption DEF Replace, MissTypeOK, Fates, Handlers, HandlersAreOnce, SentOnceInOrder,
     NeverBlamedOnOlder
<1>7. CASE ServerRestart
  BY <1>1, <1>2, <1>7, Zenon DEF ServerRestart, MissTypeOK, Fates, Handlers, HandlersAreOnce, SentOnceInOrder, NeverBlamedOnOlder
<1> QED
  BY <1>3, <1>4, <1>5, <1>6, <1>7, Zenon

(* The invariant is inductive.                                              *)
LEMMA MissNextPreserves == MissInv /\ [MissNext]_missVars => MissInv'
<1> SUFFICES ASSUME MissInv, [MissNext]_missVars PROVE MissInv'
  OBVIOUS
<1>1. CASE Signal \/ DropClient \/ UNCHANGED missVars
  <2>1. UNCHANGED <<reported, queue, reporter, current, fate, ran, handler, blamed, received, store>>
    BY <1>1, Zenon DEF Signal, DropClient, missVars, reporterVars, serverVars
  <2> QED
    BY <2>1 DEF MissInv, MissTypeOK, FatesAreTrue, HandlersAreOnce, SentOnceInOrder, NeverBlamedOnOlder, Queued
<1>2. CASE \/ \E k \in Misses : HandlerResolve(k) \/ HandlerNotify(k) \/ HandlerDropped(k)
           \/ Replace \/ ServerRestart
  BY <1>2, ServerPreserves, Zenon DEF HandlerResolve, HandlerNotify, HandlerDropped, Replace, ServerRestart
<1> QED
  BY <1>1, <1>2, ReportPreserves, StopPreserves, RecvPreserves, FinishPreserves, Zenon DEF MissNext

----------------------------------------------------------------------------

(* Every reachable state satisfies the inductive invariant.                 *)
THEOREM MissInvariance == MissSpec => []MissInv
BY MissInitEstablishes, MissNextPreserves, PTL DEF MissSpec

(* No miss reaches Pullpiri twice, and none overtakes another.              *)
THEOREM OnceInOrder == MissSpec => []SentOnceInOrder
<1>1. MissInv => SentOnceInOrder
  BY DEF MissInv
<1> QED
  BY <1>1, MissInvariance, PTL

(* No miss vanishes between the RT loop and the end its report has.         *)
THEOREM NoneVanishes == MissSpec => []NothingVanishes
<1>1. MissInv => NothingVanishes
  <2> SUFFICES ASSUME MissInv, NEW k \in 1..reported
               PROVE  /\ fate[k] = "queued" => \E i \in DOMAIN queue : queue[i] = k
                      /\ fate[k] = "rpc" => current = k
                      /\ fate[k] # "none"
    BY Zenon DEF NothingVanishes
  <2>1. k \in Misses /\ ~(k > reported)
    BY MissAssumption DEF MissInv, MissTypeOK, Misses
  <2> QED
    BY <2>1, Zenon DEF MissInv, FatesAreTrue, Queued
<1> QED
  BY <1>1, MissInvariance, PTL

(* A miss is blamed on the workload it happened in or on a later one.       *)
THEOREM BlameIsNotOlder == MissSpec => []NeverBlamedOnOlder
<1>1. MissInv => NeverBlamedOnOlder
  BY DEF MissInv
<1> QED
  BY <1>1, MissInvariance, PTL
=============================================================================
