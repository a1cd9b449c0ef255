------------------------- MODULE TimeTriggerProofs -------------------------
(***************************************************************************)
(* Proofs about the C Timpani-N, for any tasks, schedule, handler threads   *)
(* and ring-buffer size: what start-up took is given back whichever step    *)
(* failed, and once the ring-buffer thread is done with a task its node     *)
(* tells the truth about it.  The invariant IInv has two halves: the list   *)
(* holds everything the clean-up has to find, and the last event of a       *)
(* traced task, wherever it is on its way to the node, is true.             *)
(***************************************************************************)
EXTENDS TimeTrigger, TLAPS

Events == [t : Tasks, ts : Nat, enter : BOOLEAN]

RbPcs == {"off", "poll", "write", "exited"}
Early == {"initialize", "task_list", "insert"}

TypeOK ==
    /\ rest \in Seq(Tasks) /\ tt_list \in Seq(Tasks)
    /\ node \in [Tasks -> {"none", "live", "freed"}]
    /\ timer \in [Tasks -> {"none", "created", "armed", "deleted"}]
    /\ hp_timer \in {"none", "created", "deleted"}
    /\ pidfd \subseteq Tasks /\ filter \subseteq Tasks
    /\ ring \in Seq([t : Tasks, ts : Nat, enter : BOOLEAN])
    /\ rb.pc \in RbPcs /\ (rb.pc = "write" => rb.t \in Tasks /\ rb.enter \in BOOLEAN)
    /\ seen \in [Tasks -> [ts : Nat, prev : Nat, enter : BOOLEAN]]
    /\ proc \in [Tasks -> [at : {"sigwait", "running", "dead"}, pending : Nat]]
    /\ clock \in [Tasks -> Nat]
    /\ main = "insert" => rest # <<>>
    /\ main \in {"timer_delete", "free"} => tt_list # <<>>

(* What init_task_list, start_timers and the BPF filter took for a task is  *)
(* in the list, or about to be, so that cleanup_tasks finds it              *)
Held == Range(tt_list) \union (IF main = "insert" THEN {Head(rest)} ELSE {})

ListInv ==
    /\ pidfd \subseteq Held /\ filter \subseteq Held
    /\ \A t \in Tasks : /\ node[t] = "live" => t \in Held
                        /\ timer[t] \in {"created", "armed"} => t \in Range(tt_list)
                        /\ node[t] = "freed" => t \notin filter
    /\ main \in Early => \A t \in Tasks : node[t] # "freed"
    /\ main = "initialize" => tt_list = <<>>
    /\ main = "timers" => Range(rest) \subseteq Range(tt_list)
    /\ main \in {"timer_delete", "free"} => Head(tt_list) \notin pidfd \union filter
    /\ main = "free" => timer[Head(tt_list)] \in {"none", "deleted"}
    /\ main \in {"join", "exit"} => tt_list = <<>> /\ hp_timer # "created"
    /\ main = "exit" => rb.pc \in {"off", "exited"}

(* An event of a task: in the ring, or in the hands of the thread           *)
InRing(t) == \E i \in DOMAIN ring : ring[i].t = t
Taken(t) == rb.pc = "write" /\ rb.t = t

True(t, ts, enter) == ts = clock[t] /\ (enter <=> proc[t].at = "sigwait")

(* The last event of a traced task tells the truth: the one in the ring, or *)
(* else the one the thread holds, or else the one in the node               *)
LastIsTrue(t) ==
    /\ \A i \in DOMAIN ring :
           ring[i].t = t /\ (\A j \in DOMAIN ring : j > i => ring[j].t # t) => True(t, ring[i].ts, ring[i].enter)
    /\ ~InRing(t) /\ Taken(t) => True(t, seen[t].ts, rb.enter)
    /\ ~InRing(t) /\ ~Taken(t) /\ seen[t].ts # 0 => True(t, seen[t].ts, seen[t].enter)

Untraced(t) == seen[t].ts = 0 /\ ~Taken(t)

EventInv ==
    \A t \in Tasks :
        /\ main \in Early /\ t \notin filter => Untraced(t) /\ ~InRing(t)
        /\ t \in filter \ Range(tt_list) => Untraced(t)
        /\ t \in filter \ lost /\ proc[t].at # "dead" => LastIsTrue(t)

IInv == TypeOK /\ ListInv /\ EventInv

---------------------------------------------------------------------------

(* A sequence is its head and its tail.                                     *)
LEMMA RangeOfTail ==
    ASSUME NEW S, NEW s \in Seq(S), s # <<>>
    PROVE  /\ Head(s) \in S /\ Tail(s) \in Seq(S)
           /\ Range(s) = {Head(s)} \union Range(Tail(s))
           /\ Range(s) \subseteq S
<1>1. /\ Head(s) = s[1] /\ 1 \in DOMAIN s /\ DOMAIN s = 1..Len(s) /\ Len(s) \in Nat
      /\ DOMAIN Tail(s) = 1..(Len(s) - 1) /\ \A i \in 1..(Len(s) - 1) : Tail(s)[i] = s[i + 1]
  OBVIOUS
<1>2. ASSUME NEW x \in Range(s) PROVE x \in {Head(s)} \union Range(Tail(s))
  <2>1. PICK i \in DOMAIN s : x = s[i]
    BY DEF Range
  <2>2. CASE i = 1
    BY <1>1, <2>1, <2>2
  <2>3. CASE i # 1
    <3>1. i - 1 \in DOMAIN Tail(s) /\ Tail(s)[i - 1] = s[i]
      BY <1>1, <2>1, <2>3
    <3> QED
      BY <2>1, <3>1 DEF Range
  <2> QED
    BY <2>2, <2>3
<1>3. ASSUME NEW x \in Range(Tail(s)) PROVE x \in Range(s)
  <2>1. PICK i \in DOMAIN Tail(s) : x = Tail(s)[i]
    BY DEF Range
  <2>2. i + 1 \in DOMAIN s /\ s[i + 1] = x
    BY <1>1, <2>1
  <2> QED
    BY <2>2 DEF Range
<1>4. Head(s) \in Range(s)
  BY <1>1 DEF Range
<1>5. Range(s) \subseteq S
  BY <1>1 DEF Range
<1> QED
  BY <1>2, <1>3, <1>4, <1>5

(* LIST_INSERT_HEAD adds one.                                               *)
LEMMA RangeOfInsert ==
    ASSUME NEW S, NEW s \in Seq(S), NEW x \in S
    PROVE  <<x>> \o s \in Seq(S) /\ Range(<<x>> \o s) = {x} \union Range(s)
<1>1. PICK t : t = <<x>> \o s
  BY Zenon
<1>2. t \in Seq(S) /\ t # <<>> /\ Head(t) = x /\ Tail(t) = s
  BY <1>1
<1> QED
  BY <1>1, <1>2, RangeOfTail, Zenon

(* Nothing of a task has been traced, so whatever is said of its last event *)
(* holds.                                                                   *)
LEMMA NothingTraced ==
    ASSUME NEW t, Untraced(t), ~InRing(t)
    PROVE  LastIsTrue(t)
BY DEF Untraced, InRing, LastIsTrue

(* Nothing is there at the start.                                           *)
LEMMA InitEstablishes == Init => IInv
<1> SUFFICES ASSUME Init PROVE IInv
  OBVIOUS
<1>1. TypeOK
  <2>1. <<>> \in Seq(Tasks) /\ <<>> \in Seq(Events)
    OBVIOUS
  <2>2. Unseen \in [ts : Nat, prev : Nat, enter : BOOLEAN]
    BY DEF Unseen
  <2>3. proc \in [Tasks -> [at : {"sigwait", "running", "dead"}, pending : Nat]]
    BY DEF Init
  <2>4. rb.pc = "off"
    BY DEF Init, NoThread
  <2> QED
    BY <2>1, <2>2, <2>3, <2>4 DEF Init, TypeOK, RbPcs, Events
<1>2. ListInv
  BY DEF Init, ListInv, Held, Range, Early
<1>3. EventInv
  BY DEF Init, EventInv, Untraced, Taken, InRing, Unseen, NoThread
<1> QED
  BY <1>1, <1>2, <1>3 DEF IInv

(* The tracing of the tasks does not hang on where main stands, but for the *)
(* start.                                                                   *)
LEMMA EventsKept ==
    ASSUME EventInv, UNCHANGED <<tt_list, filter, ring, lost, rb, seen, procVars>>, main' \in Early => main \in Early
    PROVE  EventInv'
<1>1. \A t \in Tasks : InRing(t)' = InRing(t) /\ Untraced(t)' = Untraced(t) /\ LastIsTrue(t)' = LastIsTrue(t)
  BY DEF procVars, InRing, Untraced, Taken, LastIsTrue, True
<1> QED
  BY <1>1 DEF EventInv, procVars

(* A step that touches none of what the invariant is about keeps it.        *)
LEMMA NothingChanged ==
    ASSUME IInv, UNCHANGED <<mainVars, bpfVars, seen, procVars>>
    PROVE  IInv'
<1>1. /\ UNCHANGED <<main, rest, tt_list, node, timer, hp_timer, pidfd>>
      /\ UNCHANGED <<filter, ring, lost, rb>> /\ UNCHANGED <<seen, proc, clock>>
  BY Zenon DEF mainVars, bpfVars, procVars
<1>2. Held' = Held
  BY <1>1, Zenon DEF Held
<1>3. TypeOK'
  BY <1>1, ZenonT(60) DEF IInv, TypeOK
<1>4. ListInv'
  BY <1>1, <1>2, ZenonT(60) DEF IInv, ListInv
<1>5. EventInv'
  BY <1>1, EventsKept DEF IInv, procVars
<1> QED
  BY <1>3, <1>4, <1>5 DEF IInv

---------------------------------------------------------------------------
(* main                                                                    *)

(* From the barrier to the end of the epoll loop, and the joins: main goes  *)
(* on, and takes nothing but timers of tasks in the list.                   *)
LEMMA MovesOn ==
    ASSUME IInv, InitDone \/ Sync \/ EpollTest \/ EpollEnter \/ EpollWake \/ SignalHandler \/ Join
    PROVE  IInv'
<1>1. /\ UNCHANGED <<tt_list, node, timer, hp_timer, pidfd, bpfVars, seen, procVars>>
      /\ \/ main' = main /\ rest' = rest
         \/ main \notin Early \ {"task_list"} /\ main' \in {"cleanup", "sync", "test", "enter", "epoll_wait"}
         \/ main = "sync" /\ main' = "timers" /\ rest' = tt_list
         \/ main = "join" /\ main' = "exit" /\ rb.pc \in {"off", "exited"}
      /\ rest' \in {rest, tt_list}
  BY DEF InitDone, Sync, EpollTest, EpollEnter, EpollWake, SignalHandler, Join, Goto, Early
<1>2. TypeOK'
  BY <1>1, Zenon DEF IInv, TypeOK, bpfVars, procVars
<1>3. Held' = Held
  BY <1>1 DEF Held, Early
<1>4. ListInv'
  BY <1>1, <1>3 DEF IInv, ListInv, Early, bpfVars
<1>5. EventInv'
  BY <1>1, EventsKept DEF IInv, Early, bpfVars
<1> QED
  BY <1>2, <1>4, <1>5 DEF IInv

(* Timers are started for tasks in the list and deleted before their node   *)
(* is freed.                                                                *)
LEMMA TimersAreListed ==
    ASSUME IInv, StartTimer \/ StartHyperperiodTimer \/ TimerDelete \/ CleanupRest
    PROVE  IInv'
<1>1. UNCHANGED <<tt_list, node, pidfd, filter, ring, lost, rb, seen, procVars>>
  BY DEF StartTimer, StartHyperperiodTimer, TimerDelete, CleanupRest, bpfVars
<1>2. main \notin Early /\ main' \notin Early
  BY DEF StartTimer, StartHyperperiodTimer, TimerDelete, CleanupRest, Goto, Early
<1>3. EventInv'
  BY <1>1, <1>2, EventsKept DEF IInv
<1>4. Held = Range(tt_list) /\ Held' = Held
  BY <1>1, <1>2 DEF Held, Early
<1>5. TypeOK /\ ListInv
  BY DEF IInv
<1>6. CASE StartTimer
  <2>1. rest # <<>> /\ main = "timers" /\ main' \in {"timers", "cleanup"} /\ rest' \in {Tail(rest), <<>>}
        /\ hp_timer' = hp_timer
    BY <1>6 DEF StartTimer, Goto
  <2>2. Head(rest) \in Tasks /\ Head(rest) \in Range(tt_list) /\ Tail(rest) \in Seq(Tasks)
        /\ Range(Tail(rest)) \subseteq Range(tt_list)
    BY <1>5, <2>1, RangeOfTail DEF TypeOK, ListInv
  <2>3. timer' = timer \/ timer' = [timer EXCEPT ![Head(rest)] = "armed"]
        \/ timer' = [timer EXCEPT ![Head(rest)] = "created"]
    BY <1>6 DEF StartTimer
  <2>4. TypeOK'
    <3>1. <<>> \in Seq(Tasks)
      OBVIOUS
    <3>2. rest' \in Seq(Tasks)
      BY <2>1, <2>2, <3>1, Zenon
    <3>3. timer' \in [Tasks -> {"none", "created", "armed", "deleted"}]
      BY <1>5, <2>2, <2>3, Zenon DEF TypeOK
    <3> QED
      BY <1>1, <1>5, <2>1, <3>2, <3>3, Zenon DEF TypeOK, procVars
  <2>5. \A t \in Tasks : timer'[t] \in {"created", "armed"} => t \in Range(tt_list)
    <3>1. /\ timer \in [Tasks -> {"none", "created", "armed", "deleted"}]
          /\ \A t \in Tasks : timer[t] \in {"created", "armed"} => t \in Range(tt_list)
      BY <1>5, Zenon DEF ListInv, TypeOK
    <3> QED
      BY <2>2, <2>3, <3>1
  <2>6. Range(<<>>) = {}
    BY DEF Range
  <2>7. ListInv'
    BY <1>1, <1>2, <1>4, <1>5, <2>1, <2>2, <2>5, <2>6, Zenon DEF ListInv
  <2> QED
    BY <1>3, <2>4, <2>7 DEF IInv
<1>7. CASE TimerDelete
  <2>1. main = "timer_delete" /\ main' = "free" /\ UNCHANGED <<rest, hp_timer>>
    BY <1>7 DEF TimerDelete, Goto
  <2>2. Head(tt_list) \in Tasks
    BY <1>5, <2>1, RangeOfTail DEF TypeOK
  <2>3. PICK h : h = Head(tt_list)
    OBVIOUS
  <2>4. timer' = [timer EXCEPT ![h] = IF timer[h] = "none" THEN timer[h] ELSE "deleted"]
    BY <1>7, <2>3 DEF TimerDelete
  <2>5. TypeOK' /\ timer'[h] \in {"none", "deleted"} /\ \A t \in Tasks : t # h => timer'[t] = timer[t]
    <3>1. timer \in [Tasks -> {"none", "created", "armed", "deleted"}]
      BY <1>5, Zenon DEF TypeOK
    <3>2. /\ timer' \in [Tasks -> {"none", "created", "armed", "deleted"}] /\ timer'[h] \in {"none", "deleted"}
          /\ \A t \in Tasks : t # h => timer'[t] = timer[t]
      BY <2>2, <2>3, <2>4, <3>1
    <3>3. main' = "insert" \/ main' = "timer_delete" => FALSE
      BY <2>1
    <3>4. tt_list # <<>>
      BY <1>5, <2>1, Zenon DEF TypeOK
    <3>5. TypeOK'
      BY <1>1, <1>5, <2>1, <3>2, <3>3, <3>4, ZenonT(60) DEF TypeOK, procVars
    <3> QED
      BY <3>2, <3>5
  <2>6. ListInv'
    BY <1>1, <1>2, <1>4, <1>5, <2>1, <2>3, <2>5 DEF ListInv
  <2> QED
    BY <1>3, <2>5, <2>6 DEF IInv
<1>8. CASE StartHyperperiodTimer \/ CleanupRest
  <2>1. /\ main' \in {"test", "cleanup", "join"} /\ UNCHANGED <<rest, timer>>
        /\ hp_timer' \in {"none", "created", "deleted"}
        /\ main' = "join" => tt_list = <<>> /\ hp_timer' # "created"
    BY <1>5, <1>8 DEF StartHyperperiodTimer, CleanupRest, Goto, TypeOK
  <2>2. TypeOK'
    BY <1>1, <1>5, <2>1, Zenon DEF TypeOK, procVars
  <2>3. ListInv'
    BY <1>1, <1>2, <1>4, <1>5, <2>1 DEF ListInv
  <2> QED
    BY <1>3, <2>2, <2>3 DEF IInv
<1> QED
  BY <1>6, <1>7, <1>8

(* start_sigwait_bpf comes before the first task.                           *)
LEMMA BpfStarts == ASSUME IInv, BpfOn PROVE IInv'
<1>1. /\ main = "initialize" /\ main' \in {"cleanup", "task_list"}
      /\ UNCHANGED <<tt_list, node, timer, hp_timer, pidfd, filter, ring, lost, seen, procVars>>
      /\ rest' \in {rest, Schedule}
  BY DEF BpfOn, Goto
<1>2. main' = "task_list" => rb'.pc \in {"off", "poll"}
  BY <1>1 DEF BpfOn, start_sigwait_bpf, NoThread, Goto
<1>3. main' = "cleanup" => rb' = rb
  BY DEF BpfOn, Goto
<1>4. TypeOK /\ ListInv /\ EventInv
  BY DEF IInv
<1>5. TypeOK'
  <2>1. rest' \in Seq(Tasks)
    BY <1>1, <1>4, BoundAssumption DEF TypeOK
  <2>2. rb'.pc \in RbPcs /\ (rb'.pc = "write" => rb'.t \in Tasks /\ rb'.enter \in BOOLEAN)
    BY <1>1, <1>2, <1>3, <1>4 DEF TypeOK, RbPcs
  <2> QED
    BY <1>1, <1>4, <2>1, <2>2, Zenon DEF TypeOK, procVars
<1>6. Held' = Held /\ Held = Range(tt_list)
  BY <1>1 DEF Held
<1>7. ListInv'
  BY <1>1, <1>4, <1>6 DEF ListInv, Early
<1>8. filter = {}
  <2>1. Range(<<>>) = {}
    BY DEF Range
  <2> QED
    BY <1>1, <1>4, <1>6, <2>1 DEF ListInv
<1>9. EventInv'
  <2>1. \A t \in Tasks : seen[t].ts = 0 /\ ~InRing(t) /\ InRing(t)' = InRing(t)
    BY <1>1, <1>4, <1>8 DEF EventInv, Untraced, InRing, Early
  <2>2. main' = "task_list" => \A t \in Tasks : ~Taken(t)'
    BY <1>2 DEF Taken
  <2>3. filter' = {} /\ (main' \in Early => main' = "task_list")
    BY <1>1, <1>8 DEF Early
  <2> QED
    BY <1>1, <2>1, <2>2, <2>3 DEF EventInv, Untraced
<1> QED
  BY <1>5, <1>7, <1>9 DEF IInv

(* A task is held from the moment anything is taken for it; its first event *)
(* can only come after.                                                     *)
LEMMA TaskIsHeld == ASSUME IInv, InitTask PROVE IInv'
<1>1. /\ main = "task_list" /\ rest # <<>>
      /\ UNCHANGED <<tt_list, timer, hp_timer, ring, lost, rb, seen, procVars>>
  BY DEF InitTask
<1>2. PICK t : t = Head(rest)
  OBVIOUS
<1>3. TypeOK /\ ListInv /\ EventInv /\ rest \in Seq(Tasks)
  BY Zenon DEF IInv, TypeOK
<1>4. t \in Tasks /\ Tail(rest) \in Seq(Tasks)
  BY <1>1, <1>2, <1>3, RangeOfTail
<1>5. CASE rest' = Tail(rest) /\ UNCHANGED <<main, node, pidfd, filter>>
  <2>1. TypeOK'
    BY <1>1, <1>3, <1>4, <1>5, Zenon DEF TypeOK, procVars
  <2>2. Held' = Held
    BY <1>1, <1>5 DEF Held
  <2>3. ListInv'
    BY <1>1, <1>3, <1>5, <2>2 DEF ListInv
  <2>4. EventInv'
    BY <1>1, <1>3, <1>5, EventsKept DEF Early
  <2> QED
    BY <2>1, <2>3, <2>4 DEF IInv
<1>6. CASE /\ node' = [node EXCEPT ![t] = "live"] /\ pidfd' = pidfd \union {t}
           /\ filter' \in {filter, filter \union {t}} /\ main' = "insert" /\ rest' = rest
  <2>1. TypeOK'
    BY <1>1, <1>3, <1>4, <1>6, Zenon DEF TypeOK, procVars
  <2>2. Held' = Range(tt_list) \union {t} /\ Held = Range(tt_list)
    BY <1>1, <1>2, <1>6 DEF Held
  <2>3. node'[t] = "live" /\ \A u \in Tasks : u # t => node'[u] = node[u]
    BY <1>3, <1>4, <1>6 DEF TypeOK
  <2>4. \A u \in Tasks : node'[u] # "freed"
    BY <1>1, <1>3, <2>3, Zenon DEF ListInv, Early
  <2>5. ListInv'
    BY <1>1, <1>3, <1>6, <2>2, <2>3, <2>4, Zenon DEF ListInv
  <2>6. \A u \in Tasks : InRing(u)' = InRing(u) /\ Untraced(u)' = Untraced(u) /\ LastIsTrue(u)' = LastIsTrue(u)
    BY <1>1 DEF procVars, InRing, Untraced, Taken, LastIsTrue, True
  <2>7. \A u \in Tasks : u \notin filter => Untraced(u) /\ ~InRing(u) /\ LastIsTrue(u)
    BY <1>1, <1>3, NothingTraced, Zenon DEF EventInv, Early
  <2>8. EventInv'
    BY <1>1, <1>3, <1>6, <2>6, <2>7, Zenon DEF EventInv, procVars
  <2> QED
    BY <2>1, <2>5, <2>8 DEF IInv
<1> QED
  BY <1>2, <1>5, <1>6 DEF InitTask, Goto

(* The list takes over what was held for the task.                          *)
LEMMA TaskIsListed == ASSUME IInv, InsertTask PROVE IInv'
<1>1. /\ main = "insert" /\ main' = "task_list" /\ rest' = Tail(rest) /\ tt_list' = <<Head(rest)>> \o tt_list
      /\ UNCHANGED <<node, timer, hp_timer, pidfd, filter, ring, lost, rb, seen, procVars>>
  BY DEF InsertTask, bpfVars, Goto
<1>2. TypeOK /\ ListInv /\ EventInv /\ rest \in Seq(Tasks) /\ rest # <<>> /\ tt_list \in Seq(Tasks)
  BY <1>1, Zenon DEF IInv, TypeOK
<1>3. Head(rest) \in Tasks /\ Tail(rest) \in Seq(Tasks)
  BY <1>2, RangeOfTail
<1>4. tt_list' \in Seq(Tasks) /\ Range(tt_list)' = {Head(rest)} \union Range(tt_list)
  BY <1>1, <1>2, <1>3, RangeOfInsert
<1>5. Held' = Held /\ Range(tt_list) \subseteq Range(tt_list)'
  BY <1>1, <1>4 DEF Held
<1>6. TypeOK'
  BY <1>1, <1>2, <1>3, <1>4, Zenon DEF TypeOK, procVars
<1>7. ListInv'
  BY <1>1, <1>2, <1>5, ZenonT(60) DEF ListInv, Early
<1>8. \A u \in Tasks : InRing(u)' = InRing(u) /\ Untraced(u)' = Untraced(u) /\ LastIsTrue(u)' = LastIsTrue(u)
  BY <1>1, ZenonT(60) DEF procVars, InRing, Untraced, Taken, LastIsTrue, True
<1>9. EventInv'
  BY <1>1, <1>2, <1>5, <1>8, Zenon DEF EventInv, Early, procVars
<1> QED
  BY <1>6, <1>7, <1>9 DEF IInv

(* cleanup_tasks gives back the pid and the pidfd of the head of the list.  *)
LEMMA PidIsDropped == ASSUME IInv, CleanupTask PROVE IInv'
<1>1. /\ main = "cleanup" /\ main' = "timer_delete" /\ tt_list # <<>>
      /\ UNCHANGED <<rest, tt_list, node, timer, hp_timer, ring, rb, seen, procVars>>
  BY DEF CleanupTask, Goto
<1>2. PICK h : /\ h = Head(tt_list) /\ filter' = filter \ {h} /\ lost' = lost \ {h} /\ pidfd' = pidfd \ {h}
  BY DEF CleanupTask
<1>3. TypeOK /\ ListInv /\ EventInv
  BY DEF IInv
<1>4. TypeOK'
  <2>1. filter' \subseteq Tasks /\ pidfd' \subseteq Tasks
    BY <1>2, <1>3, Zenon DEF TypeOK
  <2>2. main' # "insert"
    BY <1>1
  <2> QED
    BY <1>1, <1>3, <2>1, <2>2, ZenonT(60) DEF TypeOK, procVars
<1>5. Held' = Held
  BY <1>1, Zenon DEF Held
<1>6. ListInv'
  BY <1>1, <1>2, <1>3, <1>5, Zenon DEF ListInv, Early
<1>7. \A u \in Tasks : Untraced(u)' = Untraced(u) /\ LastIsTrue(u)' = LastIsTrue(u)
  BY <1>1, ZenonT(60) DEF procVars, InRing, Untraced, Taken, LastIsTrue, True
<1>8. EventInv'
  BY <1>1, <1>2, <1>3, <1>7, Zenon DEF EventInv, Early, procVars
<1> QED
  BY <1>4, <1>6, <1>8 DEF IInv

(* The head of the list goes, and nothing is held for it any more.          *)
LEMMA NodeIsFreed == ASSUME IInv, FreeNode PROVE IInv'
<1>1. /\ main = "free" /\ main' = "cleanup" /\ tt_list' = Tail(tt_list)
      /\ UNCHANGED <<rest, timer, hp_timer, pidfd, filter, ring, lost, rb, procVars>>
  BY DEF FreeNode, bpfVars, Goto
<1>2. PICK h : h = Head(tt_list) /\ node' = [node EXCEPT ![h] = "freed"] /\ seen' = [seen EXCEPT ![h] = Unseen]
  BY Zenon DEF FreeNode
<1>3. TypeOK /\ ListInv /\ EventInv /\ tt_list \in Seq(Tasks) /\ tt_list # <<>>
  BY <1>1, ZenonT(60) DEF IInv, TypeOK
<1>4. h \in Tasks /\ tt_list' \in Seq(Tasks) /\ Range(tt_list) = {h} \union Range(tt_list)'
  BY <1>1, <1>2, <1>3, RangeOfTail
<1>5. h \notin pidfd /\ h \notin filter /\ timer[h] \in {"none", "deleted"}
  BY <1>1, <1>2, <1>3 DEF ListInv
<1>6. Held = Range(tt_list) /\ Held' = Range(tt_list)'
  BY <1>1 DEF Held
<1>7. TypeOK'
  <2>1. Unseen \in [ts : Nat, prev : Nat, enter : BOOLEAN]
    BY DEF Unseen
  <2>2. seen' \in [Tasks -> [ts : Nat, prev : Nat, enter : BOOLEAN]] /\ node' \in [Tasks -> {"none", "live", "freed"}]
    BY <1>2, <1>3, <1>4, <2>1, Zenon DEF TypeOK
  <2> QED
    BY <1>1, <1>3, <1>4, <2>2, Zenon DEF TypeOK, procVars
<1>8. node'[h] = "freed" /\ \A u \in Tasks : u # h => node'[u] = node[u]
  BY <1>2, <1>3, <1>4, Zenon DEF TypeOK
<1>9. ListInv'
  BY <1>1, <1>3, <1>4, <1>5, <1>6, <1>8, Zenon DEF ListInv, Early
<1>10. \A u \in Tasks : u # h => seen'[u] = seen[u]
  BY <1>2, <1>3, Zenon DEF TypeOK
<1>11. \A u \in Tasks : u # h => Untraced(u)' = Untraced(u) /\ LastIsTrue(u)' = LastIsTrue(u)
  BY <1>1, <1>10, ZenonT(60) DEF procVars, InRing, Untraced, Taken, LastIsTrue, True
<1>12. filter \subseteq Range(tt_list)'
  BY <1>3, <1>4, <1>5, <1>6, Zenon DEF ListInv
<1>13. EventInv'
  BY <1>1, <1>3, <1>5, <1>11, <1>12, Zenon DEF EventInv, Early, procVars
<1> QED
  BY <1>7, <1>9, <1>13 DEF IInv

---------------------------------------------------------------------------
(* The other threads                                                       *)

(* A thread that gets hold of a freed node may end the program, and only    *)
(* after start-up.                                                          *)
LEMMA FreedIsLate ==
    ASSUME IInv, UseFreed, ~Ended, NEW t \in Tasks, node[t] = "freed",
           UNCHANGED <<filter, ring, lost, seen, procVars>>, rb' = rb \/ rb'.pc = "poll"
    PROVE  TypeOK' /\ ListInv' /\ (rb' = rb => EventInv') /\ main \notin Early /\ main' \notin Early
<1>1. main \notin Early /\ TypeOK /\ ListInv
  BY Zenon DEF IInv, ListInv
<1>2. main' \in {main, "crashed"} /\ UNCHANGED <<rest, tt_list, node, timer, hp_timer, pidfd>>
  BY Zenon DEF UseFreed
<1>3. main' \notin Early /\ Held' = Held
  BY <1>1, <1>2 DEF Early, Held
<1>4. TypeOK'
  BY <1>1, <1>2, Zenon DEF TypeOK, procVars, RbPcs
<1>5. ListInv'
  BY <1>1, <1>2, <1>3, Zenon DEF ListInv, Ended
<1>6. rb' = rb => EventInv'
  BY <1>2, <1>3, EventsKept DEF IInv
<1> QED
  BY <1>1, <1>3, <1>4, <1>5, <1>6, Zenon

(* The timer threads write sigwait_ts_prev and queue a signal.              *)
LEMMA HandlersPreserve ==
    ASSUME IInv, NEW h \in Threads,
           \/ Expire(h[1]) \/ HandlerCheck(h) \/ HandlerCompare(h) \/ HandlerReport(h) \/ HandlerMark(h)
           \/ HandlerSend(h) \/ HandlerFreed(h)
    PROVE  IInv'
<1>1. h[1] \in Tasks /\ TypeOK /\ ListInv /\ EventInv
  BY DEF Threads, IInv
<1>2. CASE Expire(h[1]) \/ HandlerCheck(h) \/ HandlerCompare(h) \/ HandlerReport(h)
  <2>1. UNCHANGED <<mainVars, bpfVars, seen, procVars>>
    BY <1>2, Zenon DEF Expire, HandlerCheck, HandlerCompare, HandlerReport
  <2> QED
    BY <2>1, NothingChanged, Zenon
<1>3. CASE HandlerMark(h) \/ HandlerSend(h)
  <2>1. UNCHANGED <<mainVars, bpfVars, clock>>
    BY <1>3 DEF HandlerMark, HandlerSend, procVars
  <2>2. \/ proc' = proc /\ \E v \in Nat : seen' = [seen EXCEPT ![h[1]] = [@ EXCEPT !.prev = v]]
        \/ seen' = seen /\ proc' = proc
        \/ seen' = seen /\ proc' = [proc EXCEPT ![h[1]].pending = @ + 1]
    BY <1>1, <1>3, Zenon DEF HandlerMark, HandlerSend, procVars, TypeOK
  <2>3. /\ seen' \in [Tasks -> [ts : Nat, prev : Nat, enter : BOOLEAN]]
        /\ \A t \in Tasks : seen'[t].ts = seen[t].ts /\ seen'[t].enter = seen[t].enter
    <3>1. ASSUME NEW t \in Tasks, NEW v \in Nat, seen' = [seen EXCEPT ![t] = [@ EXCEPT !.prev = v]]
          PROVE  /\ seen' \in [Tasks -> [ts : Nat, prev : Nat, enter : BOOLEAN]]
                 /\ \A u \in Tasks : seen'[u].ts = seen[u].ts /\ seen'[u].enter = seen[u].enter
      <4>1. seen \in [Tasks -> [ts : Nat, prev : Nat, enter : BOOLEAN]]
        BY <1>1, Zenon DEF TypeOK
      <4> DEFINE x == [seen[t] EXCEPT !.prev = v]
      <4>2. x \in [ts : Nat, prev : Nat, enter : BOOLEAN] /\ x.ts = seen[t].ts /\ x.enter = seen[t].enter
        BY <4>1
      <4>3. seen' = [seen EXCEPT ![t] = x]
        BY <3>1
      <4> HIDE DEF x
      <4> QED
        BY <4>1, <4>2, <4>3, Zenon
    <3>2. seen \in [Tasks -> [ts : Nat, prev : Nat, enter : BOOLEAN]]
      BY <1>1 DEF TypeOK
    <3> QED
      BY <1>1, <2>2, <3>1, <3>2, Zenon
  <2>4. /\ proc' \in [Tasks -> [at : {"sigwait", "running", "dead"}, pending : Nat]]
        /\ \A t \in Tasks : proc'[t].at = proc[t].at
    <3>1. ASSUME NEW t \in Tasks, proc' = [proc EXCEPT ![t].pending = @ + 1]
          PROVE  /\ proc' \in [Tasks -> [at : {"sigwait", "running", "dead"}, pending : Nat]]
                 /\ \A u \in Tasks : proc'[u].at = proc[u].at
      <4>1. proc \in [Tasks -> [at : {"sigwait", "running", "dead"}, pending : Nat]]
        BY <1>1 DEF TypeOK
      <4> DEFINE x == [proc[t] EXCEPT !.pending = proc[t].pending + 1]
      <4>2. x \in [at : {"sigwait", "running", "dead"}, pending : Nat] /\ x.at = proc[t].at
        BY <4>1
      <4>3. proc' = [proc EXCEPT ![t] = x]
        BY <3>1
      <4> HIDE DEF x
      <4> QED
        BY <4>1, <4>2, <4>3
    <3>2. proc \in [Tasks -> [at : {"sigwait", "running", "dead"}, pending : Nat]]
      BY <1>1 DEF TypeOK
    <3> QED
      BY <1>1, <2>2, <3>1, <3>2, Zenon
  <2>5. Held' = Held
    BY <2>1 DEF Held, mainVars
  <2>6. TypeOK' /\ ListInv'
    <3>1. /\ UNCHANGED <<main, rest, tt_list, node, timer, hp_timer, pidfd>>
          /\ UNCHANGED <<filter, ring, rb, clock>>
      BY <2>1, Zenon DEF mainVars, bpfVars
    <3>2. TypeOK'
      BY <1>1, <2>3, <2>4, <3>1, ZenonT(60) DEF TypeOK
    <3>3. ListInv'
      BY <1>1, <2>5, <3>1, ZenonT(60) DEF ListInv
    <3> QED
      BY <3>2, <3>3
  <2>7. \A t \in Tasks : InRing(t)' = InRing(t) /\ Untraced(t)' = Untraced(t) /\ (LastIsTrue(t) => LastIsTrue(t)')
    <3>1. \A t \in Tasks : InRing(t)' = InRing(t) /\ Taken(t)' = Taken(t) /\ Untraced(t)' = Untraced(t)
      BY <2>1, <2>3, Zenon DEF bpfVars, InRing, Taken, Untraced
    <3>2. \A t \in Tasks : \A ts, enter : True(t, ts, enter)' = True(t, ts, enter)
      BY <2>1, <2>4, Zenon DEF True
    <3> QED
      BY <2>1, <2>3, <3>1, <3>2 DEF LastIsTrue, bpfVars
  <2>8. EventInv'
    BY <1>1, <2>1, <2>4, <2>7, Zenon DEF EventInv, mainVars, bpfVars
  <2> QED
    BY <2>6, <2>8 DEF IInv
<1>4. CASE HandlerFreed(h)
  <2>1. UseFreed /\ ~Ended /\ node[h[1]] = "freed" /\ UNCHANGED <<bpfVars, seen, procVars>>
    BY <1>4, Zenon DEF HandlerFreed
  <2> QED
    BY <1>1, <2>1, FreedIsLate, Zenon DEF bpfVars, IInv
<1> QED
  BY <1>2, <1>3, <1>4

(* What holds of the events in the ring holds of the rest of it.            *)
LEMMA RestOfRing ==
    ASSUME NEW r \in Seq(Events), r # <<>>
    PROVE  /\ Head(r) = r[1] /\ Head(r) \in Events /\ 1 \in DOMAIN r /\ Tail(r) \in Seq(Events)
           /\ \A i \in DOMAIN Tail(r) : i + 1 \in DOMAIN r /\ Tail(r)[i] = r[i + 1]
           /\ \A i \in DOMAIN r : i # 1 => \E j \in DOMAIN Tail(r) : i = j + 1
<1>1. /\ DOMAIN r = 1..Len(r) /\ Len(r) \in Nat /\ Len(r) >= 1 /\ DOMAIN Tail(r) = 1..(Len(r) - 1)
      /\ \A i \in DOMAIN Tail(r) : Tail(r)[i] = r[i + 1]
      /\ Head(r) = r[1] /\ Head(r) \in Events /\ Tail(r) \in Seq(Events)
  OBVIOUS
<1>2. ASSUME NEW i \in DOMAIN r, i # 1 PROVE \E j \in DOMAIN Tail(r) : i = j + 1
  <2>1. i - 1 \in DOMAIN Tail(r) /\ i = (i - 1) + 1
    BY <1>1, <1>2
  <2> QED
    BY <2>1
<1>3. 1 \in DOMAIN r /\ \A i \in DOMAIN Tail(r) : i + 1 \in DOMAIN r
  BY <1>1
<1> QED
  BY <1>1, <1>2, <1>3

(* The thread takes an event: if it was the last of its task, the two       *)
(* fields are true once both are written.                                   *)
LEMMA TakePreserves == ASSUME IInv, RbTake PROVE IInv'
<1>1. /\ rb.pc = "poll" /\ ring # <<>> /\ ring' = Tail(ring)
      /\ UNCHANGED <<mainVars, filter, lost, procVars>> /\ ~Ended
  BY DEF RbTake
<1>2. PICK e : /\ e = Head(ring)
               /\ IF e.t \in Range(tt_list)
                  THEN /\ seen' = [seen EXCEPT ![e.t].ts = e.ts]
                       /\ rb' = [pc |-> "write", t |-> e.t, enter |-> e.enter]
                  ELSE UNCHANGED <<seen, rb>>
  BY Zenon DEF RbTake
<1>3. TypeOK /\ ListInv /\ EventInv /\ ring \in Seq(Events)
  BY Zenon DEF IInv, TypeOK, Events
<1>4. /\ e = ring[1] /\ e \in Events /\ 1 \in DOMAIN ring /\ ring' \in Seq(Events)
      /\ \A i \in DOMAIN ring' : i + 1 \in DOMAIN ring /\ ring'[i] = ring[i + 1]
      /\ \A i \in DOMAIN ring : i # 1 => \E j \in DOMAIN ring' : i = j + 1
  BY <1>1, <1>2, <1>3, RestOfRing
<1>5. e.t \in Tasks /\ e.ts \in Nat /\ e.enter \in BOOLEAN
  BY <1>4, Zenon DEF Events
<1>6. /\ rb' = rb \/ (rb'.pc = "write" /\ rb'.t = e.t /\ rb'.enter = e.enter)
      /\ e.t \notin Range(tt_list) => UNCHANGED <<seen, rb>>
      /\ e.t \in Range(tt_list) => rb'.pc = "write" /\ rb'.t = e.t /\ rb'.enter = e.enter /\ seen'[e.t].ts = e.ts
      /\ \A u \in Tasks : u # e.t => seen'[u] = seen[u]
      /\ seen' \in [Tasks -> [ts : Nat, prev : Nat, enter : BOOLEAN]]
  <2>1. CASE e.t \in Range(tt_list)
    <3>1. seen' = [seen EXCEPT ![e.t].ts = e.ts] /\ rb' = [pc |-> "write", t |-> e.t, enter |-> e.enter]
      BY <1>2, <2>1
    <3>2. rb'.pc = "write" /\ rb'.t = e.t /\ rb'.enter = e.enter
      BY <3>1
    <3>3. /\ seen'[e.t].ts = e.ts /\ \A u \in Tasks : u # e.t => seen'[u] = seen[u]
          /\ seen' \in [Tasks -> [ts : Nat, prev : Nat, enter : BOOLEAN]]
      <4> DEFINE x == [seen[e.t] EXCEPT !.ts = e.ts]
      <4>1. seen \in [Tasks -> [ts : Nat, prev : Nat, enter : BOOLEAN]]
        BY <1>3, Zenon DEF TypeOK
      <4>2. x \in [ts : Nat, prev : Nat, enter : BOOLEAN] /\ x.ts = e.ts
        BY <1>5, <4>1
      <4>3. seen' = [seen EXCEPT ![e.t] = x]
        BY <3>1
      <4> HIDE DEF x
      <4> QED
        BY <1>5, <4>1, <4>2, <4>3
    <3> QED
      BY <2>1, <3>2, <3>3, Zenon
  <2>2. CASE e.t \notin Range(tt_list)
    BY <1>2, <1>3, <2>2, Zenon DEF TypeOK
  <2> QED
    BY <2>1, <2>2, Zenon
<1>7. TypeOK'
  BY <1>1, <1>3, <1>4, <1>5, <1>6, Zenon DEF TypeOK, mainVars, procVars, RbPcs, Events
<1>8. ListInv'
  <2>1. Held' = Held
    BY <1>1 DEF Held, mainVars
  <2> QED
    BY <1>1, <1>3, <2>1, Zenon DEF ListInv, mainVars, Ended
<1>9. \A u \in Tasks : ~Taken(u) /\ (u # e.t => ~Taken(u)') /\ (e.t \notin Range(tt_list) => ~Taken(u)')
  BY <1>1, <1>6, Zenon DEF Taken
<1>10. \A u \in Tasks : u # e.t => InRing(u)' = InRing(u) /\ Untraced(u)' = Untraced(u)
  <2>1. \A u \in Tasks : InRing(u)' => InRing(u)
    BY <1>4 DEF InRing
  <2>2. ASSUME NEW u \in Tasks, u # e.t, InRing(u) PROVE InRing(u)'
    <3>1. PICK i \in DOMAIN ring : ring[i].t = u
      BY <2>2 DEF InRing
    <3>2. i # 1
      BY <1>4, <2>2, <3>1, Zenon
    <3>3. PICK j \in DOMAIN ring' : i = j + 1
      BY <1>4, <3>2, Zenon
    <3> QED
      BY <1>4, <3>1, <3>3 DEF InRing
  <2>3. \A u \in Tasks : u # e.t => (InRing(u)' <=> InRing(u)) /\ (Untraced(u)' <=> Untraced(u))
    BY <1>6, <1>9, <2>1, <2>2, Zenon DEF Untraced
  <2> QED
    BY <2>3, Zenon DEF InRing, Untraced, Taken
<1>11. \A u \in Tasks : \A ts, enter : True(u, ts, enter)' = True(u, ts, enter)
  BY <1>1 DEF True, procVars
<1>12. InRing(e.t)
  BY <1>4 DEF InRing
<1>13. ASSUME NEW u \in Tasks, LastIsTrue(u), u \in filter PROVE LastIsTrue(u)'
  <2>1. ASSUME NEW i \in DOMAIN ring', ring'[i].t = u, \A j \in DOMAIN ring' : j > i => ring'[j].t # u
        PROVE  True(u, ring'[i].ts, ring'[i].enter)
    <3>1. PICK k \in DOMAIN ring : k = i + 1 /\ ring'[i] = ring[k]
      BY <1>4, Zenon
    <3>2. ASSUME NEW j \in DOMAIN ring, j > k PROVE ring[j].t # u
      <4>1. j # 1 /\ i \in Nat /\ i >= 1
        BY <1>3, <1>4, <3>1, <3>2
      <4>2. PICK l \in DOMAIN ring' : j = l + 1
        BY <1>4, <4>1
      <4>3. l > i
        BY <1>4, <3>1, <3>2, <4>1, <4>2
      <4> QED
        BY <1>4, <2>1, <4>2, <4>3, Zenon
    <3> QED
      BY <1>13, <2>1, <3>1, <3>2, Zenon DEF LastIsTrue
  <2>2. CASE u # e.t
    <3>1. seen'[u] = seen[u] /\ ~Taken(u) /\ ~Taken(u)' /\ InRing(u)' = InRing(u)
      BY <1>6, <1>9, <1>10, <2>2, Zenon
    <3> QED
      BY <1>11, <1>13, <2>1, <3>1, ZenonT(60) DEF LastIsTrue
  <2>3. CASE u = e.t /\ u \in Range(tt_list)
    <3>1. ~InRing(u)' => True(u, e.ts, e.enter)
      <4> SUFFICES ASSUME ~InRing(u)' PROVE True(u, e.ts, e.enter)
        OBVIOUS
      <4>1. ASSUME NEW j \in DOMAIN ring, j > 1 PROVE ring[j].t # u
        <5>1. PICK l \in DOMAIN ring' : j = l + 1
          BY <1>3, <1>4, <4>1
        <5> QED
          BY <1>4, <5>1 DEF InRing
      <4> QED
        BY <1>4, <1>13, <2>3, <4>1, Zenon DEF LastIsTrue
    <3>2. seen'[u].ts = e.ts /\ rb'.enter = e.enter /\ Taken(u)'
      BY <1>6, <2>3, Zenon DEF Taken
    <3> QED
      BY <1>11, <2>1, <3>1, <3>2, Zenon DEF LastIsTrue
  <2>4. CASE u = e.t /\ u \notin Range(tt_list)
    <3>1. seen'[u].ts = 0 /\ ~Taken(u)'
      BY <1>3, <1>6, <1>9, <1>13, <2>4, Zenon DEF EventInv, Untraced
    <3> QED
      BY <1>11, <2>1, <3>1, Zenon DEF LastIsTrue
  <2> QED
    BY <2>2, <2>3, <2>4, Zenon
<1>14. EventInv'
  <2>1. \A u \in Tasks : main \in Early /\ u \notin filter => u # e.t
    BY <1>3, <1>12, Zenon DEF EventInv
  <2>2. \A u \in Tasks : u \in filter \ Range(tt_list) => Untraced(u)'
    BY <1>3, <1>5, <1>6, <1>9, <1>10, Zenon DEF EventInv, Untraced
  <2> QED
    BY <1>1, <1>3, <1>10, <1>13, <2>1, <2>2, Zenon DEF EventInv, mainVars, procVars
<1> QED
  BY <1>7, <1>8, <1>14 DEF IInv

(* The thread writes the second field, or is done.                          *)
LEMMA WritePreserves == ASSUME IInv, RbWrite \/ RbExit \/ RbFail PROVE IInv'
<1>1. /\ UNCHANGED <<filter, ring, lost, procVars>> /\ ~Ended /\ rb'.pc \in {"poll", "exited"} /\ rb.pc \in {"poll", "write"}
      /\ rb.pc = "poll" => UNCHANGED <<mainVars, seen>>
  BY DEF RbWrite, RbExit, RbFail, NoThread
<1>2. TypeOK /\ ListInv /\ EventInv
  BY DEF IInv
<1>3. \A u \in Tasks : ~Taken(u)' /\ InRing(u)' = InRing(u)
  BY <1>1, Zenon DEF Taken, InRing
<1>4. \A u \in Tasks : \A ts, enter : True(u, ts, enter)' = True(u, ts, enter)
  BY <1>1, Zenon DEF True, procVars
<1>5. CASE rb.pc = "write" /\ node[rb.t] = "freed"
  <2>1. UseFreed /\ seen' = seen /\ rb'.pc = "poll" /\ rb.t \in Tasks
    BY <1>2, <1>5, Zenon DEF RbWrite, RbExit, RbFail, NoThread, TypeOK
  <2>2. TypeOK' /\ ListInv' /\ main' \notin Early
    BY <1>1, <1>5, <2>1, FreedIsLate, Zenon
  <2>3. tt_list' = tt_list
    BY <2>1 DEF UseFreed
  <2>4. \A u \in filter : ~Taken(u)
    BY <1>2, <1>5, <2>1, Zenon DEF ListInv, Taken
  <2>5. \A u \in Tasks : u \in filter /\ LastIsTrue(u) => LastIsTrue(u)'
    BY <1>1, <1>3, <1>4, <2>1, <2>4 DEF LastIsTrue
  <2>6. \A u \in Tasks : Untraced(u) => Untraced(u)'
    BY <1>3, <2>1, Zenon DEF Untraced
  <2>7. EventInv'
    BY <1>1, <1>2, <2>2, <2>3, <2>5, <2>6, Zenon DEF EventInv, procVars
  <2> QED
    BY <2>2, <2>7 DEF IInv
<1>6. CASE rb.pc = "write" /\ node[rb.t] # "freed"
  <2>1. PICK t, n : t = rb.t /\ n = rb.enter /\ seen' = [seen EXCEPT ![t].enter = n]
    BY <1>6 DEF RbWrite, RbExit, RbFail
  <2>2. UNCHANGED mainVars /\ t \in Tasks /\ n \in BOOLEAN
    BY <1>2, <1>6, <2>1 DEF RbWrite, RbExit, RbFail, TypeOK
  <2>3. /\ seen' \in [Tasks -> [ts : Nat, prev : Nat, enter : BOOLEAN]]
        /\ \A u \in Tasks : seen'[u].ts = seen[u].ts /\ (u # t => seen'[u] = seen[u])
        /\ seen'[t].enter = n
    <3>1. seen \in [Tasks -> [ts : Nat, prev : Nat, enter : BOOLEAN]]
      BY <1>2 DEF TypeOK
    <3> DEFINE x == [seen[t] EXCEPT !.enter = n]
    <3>2. x \in [ts : Nat, prev : Nat, enter : BOOLEAN] /\ x.ts = seen[t].ts /\ x.enter = n
      BY <2>2, <3>1
    <3>3. seen' = [seen EXCEPT ![t] = x]
      BY <2>1
    <3> HIDE DEF x
    <3> QED
      BY <2>2, <3>1, <3>2, <3>3
  <2>4. TypeOK'
    BY <1>1, <1>2, <2>2, <2>3, Zenon DEF TypeOK, mainVars, procVars, RbPcs
  <2>5. ListInv'
    <3>1. Held' = Held
      BY <2>2 DEF Held, mainVars
    <3> QED
      BY <1>1, <1>2, <2>2, <3>1, Zenon DEF ListInv, mainVars, Ended
  <2>6. \A u \in Tasks : Taken(u) <=> u = t
    BY <1>6, <2>1 DEF Taken
  <2>7. \A u \in Tasks : LastIsTrue(u) => LastIsTrue(u)'
    <3>1. ASSUME NEW u \in Tasks, LastIsTrue(u) PROVE LastIsTrue(u)'
      <4>1. CASE u = t
        BY <1>1, <1>3, <1>4, <2>1, <2>2, <2>3, <2>6, <3>1, <4>1 DEF LastIsTrue
      <4>2. CASE u # t
        BY <1>1, <1>3, <1>4, <2>3, <2>6, <3>1, <4>2 DEF LastIsTrue
      <4> QED
        BY <4>1, <4>2
    <3> QED
      BY <3>1
  <2>8. \A u \in Tasks : Untraced(u) => Untraced(u)'
    BY <1>3, <2>3, Zenon DEF Untraced
  <2>9. EventInv'
    BY <1>1, <1>2, <1>3, <2>2, <2>7, <2>8, Zenon DEF EventInv, mainVars, procVars
  <2> QED
    BY <2>4, <2>5, <2>9 DEF IInv
<1>7. CASE rb.pc = "poll"
  <2>1. TypeOK'
    BY <1>1, <1>2, <1>7, Zenon DEF TypeOK, mainVars, procVars, RbPcs
  <2>2. ListInv'
    <3>1. Held' = Held
      BY <1>1, <1>7 DEF Held, mainVars
    <3> QED
      BY <1>1, <1>2, <1>7, <3>1, Zenon DEF ListInv, mainVars, Ended
  <2>3. \A u \in Tasks : ~Taken(u)
    BY <1>7 DEF Taken
  <2>4. \A u \in Tasks : (LastIsTrue(u) => LastIsTrue(u)') /\ (Untraced(u) => Untraced(u)')
    BY <1>1, <1>3, <1>4, <1>7, <2>3, ZenonT(60) DEF LastIsTrue, Untraced
  <2>5. EventInv'
    BY <1>1, <1>2, <1>3, <1>7, <2>4, Zenon DEF EventInv, mainVars, procVars
  <2> QED
    BY <2>1, <2>2, <2>5 DEF IInv
<1> QED
  BY <1>1, <1>5, <1>6, <1>7, Zenon

---------------------------------------------------------------------------
(* The task processes                                                      *)

(* A new event is the last of its task, and true, if it fits in the ring.   *)
LEMMA EventPreserves ==
    ASSUME IInv, NEW t \in Tasks, TaskWake(t) \/ TaskDone(t)
    PROVE  IInv'
<1>1. TypeOK /\ ListInv /\ EventInv /\ ring \in Seq(Events) /\ clock[t] \in Nat
  BY Zenon DEF IInv, TypeOK, Events
<1>2. UNCHANGED <<mainVars, filter, rb, seen>>
  BY Zenon DEF TaskWake, TaskDone
<1>3. PICK enter \in BOOLEAN : Trace(t, enter) /\ (enter <=> proc'[t].at = "sigwait")
  <2>0. proc \in [Tasks -> [at : {"sigwait", "running", "dead"}, pending : Nat]]
    BY <1>1 DEF TypeOK
  <2>1. TaskWake(t) => Trace(t, FALSE) /\ proc'[t].at # "sigwait"
    <3> SUFFICES ASSUME TaskWake(t) PROVE Trace(t, FALSE) /\ proc'[t].at # "sigwait"
      BY Zenon
    <3>1. proc' = [proc EXCEPT ![t] = [at |-> "running", pending |-> proc[t].pending - 1]] /\ Trace(t, FALSE)
      BY Zenon DEF TaskWake
    <3>2. proc'[t] = [at |-> "running", pending |-> proc[t].pending - 1]
      BY <2>0, <3>1, Zenon
    <3>3. proc'[t].at = "running"
      BY <3>2
    <3> QED
      BY <3>1, <3>3, Zenon
  <2>2. TaskDone(t) => Trace(t, TRUE) /\ proc'[t].at = "sigwait"
    <3> SUFFICES ASSUME TaskDone(t) PROVE Trace(t, TRUE) /\ proc'[t].at = "sigwait"
      BY Zenon
    <3> DEFINE p == [proc[t] EXCEPT !.at = "sigwait"]
    <3>1. proc' = [proc EXCEPT ![t] = p] /\ Trace(t, TRUE)
      BY Zenon DEF TaskDone
    <3>2. p.at = "sigwait"
      BY <2>0
    <3> HIDE DEF p
    <3> QED
      BY <2>0, <3>1, <3>2, Zenon
  <2> QED
    BY <2>1, <2>2, Zenon
<1>4. PICK x \in Events : /\ x = [t |-> t, ts |-> clock[t] + 1, enter |-> enter]
                          /\ x.t = t /\ x.ts = clock[t] + 1 /\ x.enter = enter
  <2> DEFINE x == [t |-> t, ts |-> clock[t] + 1, enter |-> enter]
  <2>1. x \in Events /\ x.t = t /\ x.ts = clock[t] + 1 /\ x.enter = enter
    BY <1>1 DEF Events
  <2> QED
    BY <2>1, Zenon
<1>5. /\ clock' = [clock EXCEPT ![t] = clock[t] + 1]
      /\ \/ t \in filter /\ ring' = Append(ring, x) /\ lost' = lost \ {t}
         \/ t \in filter /\ ring' = ring /\ lost' = lost \union {t}
         \/ t \notin filter /\ ring' = ring /\ lost' = lost
  BY <1>3, <1>4, Zenon DEF Trace
<1>6. /\ clock' \in [Tasks -> Nat] /\ clock'[t] = clock[t] + 1 /\ \A u \in Tasks : u # t => clock'[u] = clock[u]
  <2>1. clock \in [Tasks -> Nat]
    BY <1>1, Zenon DEF TypeOK
  <2> QED
    BY <1>5, <2>1
<1>7. /\ proc' \in [Tasks -> [at : {"sigwait", "running", "dead"}, pending : Nat]]
      /\ \A u \in Tasks : u # t => proc'[u] = proc[u]
  <2>1. proc \in [Tasks -> [at : {"sigwait", "running", "dead"}, pending : Nat]]
    BY <1>1, Zenon DEF TypeOK
  <2>2. PICK p \in [at : {"sigwait", "running", "dead"}, pending : Nat] : proc' = [proc EXCEPT ![t] = p]
    <3>1. CASE TaskWake(t)
      <4>1. proc[t].pending \in Nat /\ proc[t].pending > 0 /\ proc' = [proc EXCEPT ![t] = [at |-> "running", pending |-> proc[t].pending - 1]]
        BY <2>1, <3>1, Zenon DEF TaskWake
      <4>2. proc[t].pending - 1 \in Nat
        BY <4>1
      <4> QED
        BY <4>1, <4>2, Zenon
    <3>2. CASE TaskDone(t)
      <4>1. proc' = [proc EXCEPT ![t] = [proc[t] EXCEPT !.at = "sigwait"]]
        BY <3>2 DEF TaskDone
      <4>2. [proc[t] EXCEPT !.at = "sigwait"] \in [at : {"sigwait", "running", "dead"}, pending : Nat]
        BY <2>1
      <4> QED
        BY <4>1, <4>2, Zenon
    <3> QED
      BY <3>1, <3>2
  <2> QED
    BY <2>1, <2>2, Zenon
<1>8. TypeOK'
  <2>1. ring' \in Seq(Events)
    BY <1>1, <1>5
  <2> QED
    BY <1>1, <1>2, <1>6, <1>7, <2>1, Zenon DEF TypeOK, mainVars, Events
<1>9. ListInv'
  <2>1. Held' = Held
    BY <1>2 DEF Held, mainVars
  <2> QED
    BY <1>1, <1>2, <2>1, Zenon DEF ListInv, mainVars
<1>10. /\ \A i \in DOMAIN ring : i \in DOMAIN ring' /\ ring'[i] = ring[i]
       /\ \A i \in DOMAIN ring' : i \in DOMAIN ring \/ (t \in filter /\ ring'[i] = x /\ i = Len(ring) + 1)
       /\ ring' = Append(ring, x) => Len(ring) + 1 \in DOMAIN ring' /\ ring'[Len(ring) + 1] = x
       /\ \A i \in DOMAIN ring' : i \in Nat /\ (ring' = Append(ring, x) => i <= Len(ring) + 1)
  <2>1. CASE ring' = Append(ring, x) /\ t \in filter
    BY <1>1, <2>1
  <2>2. CASE ring' = ring
    <3>1. (\A i \in DOMAIN ring : i \in Nat) /\ ring # Append(ring, x)
      BY <1>1
    <3> QED
      BY <2>2, <3>1, Zenon
  <2> QED
    BY <1>5, <2>1, <2>2, Zenon
<1>11. \A u \in Tasks : Taken(u)' = Taken(u) /\ Untraced(u)' = Untraced(u)
  BY <1>2, Zenon DEF Taken, Untraced
<1>12. ASSUME NEW u \in Tasks, u # t
       PROVE  (InRing(u)' <=> InRing(u)) /\ (LastIsTrue(u) => LastIsTrue(u)')
  <2>1. InRing(u)' <=> InRing(u)
    BY <1>4, <1>10, <1>12, Zenon DEF InRing
  <2>2. \A ts, n : True(u, ts, n)' <=> True(u, ts, n)
    BY <1>6, <1>7, <1>12, Zenon DEF True
  <2>3. ASSUME LastIsTrue(u), NEW i \in DOMAIN ring', ring'[i].t = u, \A j \in DOMAIN ring' : j > i => ring'[j].t # u
        PROVE  True(u, ring'[i].ts, ring'[i].enter)
    <3>1. i \in DOMAIN ring /\ ring[i] = ring'[i]
      BY <1>4, <1>10, <1>12, <2>3, Zenon
    <3>2. \A j \in DOMAIN ring : j > i => ring[j].t # u
      BY <1>10, <2>3, Zenon
    <3> QED
      BY <2>3, <3>1, <3>2, Zenon DEF LastIsTrue
  <2> QED
    BY <1>2, <1>11, <2>1, <2>2, <2>3, Zenon DEF LastIsTrue
<1>13. t \in filter \ lost' => LastIsTrue(t)'
  <2> SUFFICES ASSUME t \in filter \ lost' PROVE LastIsTrue(t)'
    OBVIOUS
  <2>1. ring' = Append(ring, x)
    BY <1>5, Zenon
  <2>2. InRing(t)'
    BY <1>4, <1>10, <2>1, Zenon DEF InRing
  <2>3. ASSUME NEW i \in DOMAIN ring', \A j \in DOMAIN ring' : j > i => ring'[j].t # t
        PROVE  ring'[i] = x
    <3>1. PICK l \in DOMAIN ring' : l = Len(ring) + 1 /\ ring'[l] = x /\ i <= l /\ i \in Nat /\ l \in Nat
      BY <1>10, <2>1, Zenon
    <3>2. ~(l > i)
      BY <1>4, <2>3, <3>1, Zenon
    <3> QED
      BY <3>1, <3>2
  <2>4. True(t, x.ts, x.enter)'
    BY <1>3, <1>4, <1>6, Zenon DEF True
  <2> QED
    BY <2>2, <2>3, <2>4, Zenon DEF LastIsTrue
<1>14. EventInv'
  <2>1. \A u \in Tasks : u \notin filter => (InRing(u)' <=> InRing(u))
    BY <1>5, <1>12, Zenon DEF InRing
  <2>2. \A u \in Tasks : u \in filter \ lost' /\ proc'[u].at # "dead" => LastIsTrue(u)'
    BY <1>1, <1>5, <1>7, <1>12, <1>13, Zenon DEF EventInv
  <2> QED
    BY <1>1, <1>2, <1>11, <2>1, <2>2, Zenon DEF EventInv, mainVars
<1> QED
  BY <1>8, <1>9, <1>14 DEF IInv

(* Of a dead task nothing is said.                                          *)
LEMMA DeathPreserves ==
    ASSUME IInv, NEW t \in Tasks, TaskDie(t)
    PROVE  IInv'
<1>1. TypeOK /\ ListInv /\ EventInv /\ UNCHANGED <<mainVars, bpfVars, seen, clock>>
  BY DEF IInv, TaskDie
<1>2. /\ proc' \in [Tasks -> [at : {"sigwait", "running", "dead"}, pending : Nat]]
      /\ proc'[t].at = "dead" /\ \A u \in Tasks : u # t => proc'[u] = proc[u]
  <2>1. proc \in [Tasks -> [at : {"sigwait", "running", "dead"}, pending : Nat]]
    BY <1>1 DEF TypeOK
  <2> DEFINE p == [proc[t] EXCEPT !.at = "dead"]
  <2>2. p \in [at : {"sigwait", "running", "dead"}, pending : Nat] /\ p.at = "dead"
    BY <2>1
  <2>3. proc' = [proc EXCEPT ![t] = p]
    BY DEF TaskDie
  <2> HIDE DEF p
  <2> QED
    BY <2>1, <2>2, <2>3
<1>3. TypeOK'
  BY <1>1, <1>2, Zenon DEF TypeOK, mainVars, bpfVars
<1>4. ListInv'
  <2>1. Held' = Held
    BY <1>1, Zenon DEF Held, mainVars
  <2> QED
    BY <1>1, <2>1, Zenon DEF ListInv, mainVars, bpfVars
<1>5. \A u \in Tasks : InRing(u)' = InRing(u) /\ Taken(u)' = Taken(u) /\ Untraced(u)' = Untraced(u)
  BY <1>1, Zenon DEF InRing, Taken, Untraced, bpfVars
<1>6. \A u \in Tasks : u # t => (LastIsTrue(u) => LastIsTrue(u)')
  <2> SUFFICES ASSUME NEW u \in Tasks, u # t, LastIsTrue(u) PROVE LastIsTrue(u)'
    BY Zenon
  <2>1. \A ts, n : True(u, ts, n) => True(u, ts, n)'
    BY <1>1, <1>2, Zenon DEF True
  <2>2. ring' = ring /\ rb' = rb /\ seen' = seen
    BY <1>1, Zenon DEF bpfVars
  <2>3. \A i \in DOMAIN ring' :
          ring'[i].t = u /\ (\A j \in DOMAIN ring' : j > i => ring'[j].t # u) => True(u, ring[i].ts, ring[i].enter)
    BY <2>2, Zenon DEF LastIsTrue
  <2>4. \A i \in DOMAIN ring' :
          ring'[i].t = u /\ (\A j \in DOMAIN ring' : j > i => ring'[j].t # u) => True(u, ring[i].ts, ring[i].enter)'
    BY <2>1, <2>2, <2>3, Zenon
  <2>5. /\ ~InRing(u)' /\ Taken(u)' => True(u, seen[u].ts, rb.enter)'
        /\ ~InRing(u)' /\ ~Taken(u)' /\ seen'[u].ts # 0 => True(u, seen[u].ts, seen[u].enter)'
    BY <1>5, <2>1, <2>2, Zenon DEF LastIsTrue
  <2> QED
    BY <2>4, <2>5, Zenon DEF LastIsTrue
<1>7. EventInv'
  BY <1>1, <1>2, <1>5, <1>6, Zenon DEF EventInv, mainVars, bpfVars
<1> QED
  BY <1>3, <1>4, <1>7 DEF IInv

---------------------------------------------------------------------------

(* Every step keeps the invariant.                                          *)
LEMMA NextPreserves == IInv /\ [Next]_vars => IInv'
<1> SUFFICES ASSUME IInv, [Next]_vars PROVE IInv'
  OBVIOUS
<1>1. CASE UNCHANGED vars
  <2>1. UNCHANGED <<mainVars, bpfVars, seen, procVars>>
    BY <1>1 DEF vars
  <2> QED
    BY <2>1, NothingChanged
<1>2. ASSUME NEW t \in Tasks, Expire(t) PROVE IInv'
  <2>1. <<t, 1>> \in Threads /\ <<t, 1>>[1] = t
    BY BoundAssumption DEF Threads
  <2> QED
    BY <1>2, <2>1, HandlersPreserve
<1>3. ASSUME NEW h \in Threads,
             \/ HandlerCheck(h) \/ HandlerCompare(h) \/ HandlerReport(h) \/ HandlerMark(h)
             \/ HandlerSend(h) \/ HandlerFreed(h)
      PROVE  IInv'
  BY <1>3, HandlersPreserve
<1> QED
  BY <1>1, <1>2, <1>3, MovesOn, TimersAreListed, BpfStarts, TaskIsHeld, TaskIsListed, PidIsDropped, NodeIsFreed,
     TakePreserves, WritePreserves, EventPreserves, DeathPreserves, ZenonT(60) DEF Next

(* It holds in every state.                                                 *)
LEMMA Invariance == Spec => []IInv
BY InitEstablishes, NextPreserves, PTL DEF Spec

(* cleanup_context gives back everything that initialize and run took,      *)
(* whichever of their steps failed and whatever the threads did meanwhile:  *)
(* when main returns no timer is armed, no pidfd is open, no node is left,  *)
(* no pid is in the filter and the ring-buffer thread is gone.              *)
THEOREM CleanupIsComplete == Spec => []NothingLeftBehind
<1>1. IInv => NothingLeftBehind
  <2> SUFFICES ASSUME IInv, main = "exit"
               PROVE  /\ \A t \in Tasks : timer[t] \in {"none", "deleted"} /\ node[t] # "live"
                      /\ hp_timer # "created" /\ pidfd = {} /\ filter = {} /\ rb.pc \in {"off", "exited"}
    BY Zenon DEF NothingLeftBehind
  <2>1. tt_list = <<>> /\ hp_timer # "created" /\ rb.pc \in {"off", "exited"}
    BY Zenon DEF IInv, ListInv
  <2>2. Range(tt_list) = {} /\ Held = {}
    BY <2>1 DEF Held, Range
  <2>3. \A t \in Tasks : timer[t] \in {"none", "deleted"} /\ node[t] # "live"
    BY <2>2, Zenon DEF IInv, ListInv, TypeOK
  <2>4. pidfd = {} /\ filter = {}
    BY <2>2, Zenon DEF IInv, ListInv
  <2> QED
    BY <2>1, <2>3, <2>4
<1> QED
  BY <1>1, Invariance, PTL

(* Once the ring-buffer thread has nothing of a task any more, sigwait_ts   *)
(* and sigwait_enter tell its deadline handler the truth, although they are *)
(* written one after the other and tasks come and go meanwhile.             *)
THEOREM SettledIsTrue == Spec => []SettledEventsAreTrue
<1>1. IInv => SettledEventsAreTrue
  <2> SUFFICES ASSUME IInv, NEW t \in filter \cap Range(tt_list), \A i \in DOMAIN ring : ring[i].t # t,
                      rb.t # t, t \notin lost, proc[t].at # "dead", seen[t].ts # 0
               PROVE  seen[t].ts = clock[t] /\ (seen[t].enter <=> proc[t].at = "sigwait")
    BY Zenon DEF SettledEventsAreTrue
  <2>1. t \in Tasks
    BY Zenon DEF IInv, TypeOK
  <2>2. LastIsTrue(t) /\ ~InRing(t) /\ ~Taken(t)
    BY <2>1, Zenon DEF IInv, EventInv, InRing, Taken
  <2> QED
    BY <2>2, Zenon DEF LastIsTrue, True
<1> QED
  BY <1>1, Invariance, PTL
=============================================================================
