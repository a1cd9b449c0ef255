---------------------------- MODULE TimeTrigger ----------------------------
(***************************************************************************)
(* The C Timpani-N: main's way from initialize to cleanup_context, the      *)
(* SIGEV_THREAD threads of the task timers, the ring-buffer thread of the   *)
(* BPF tracing, the shutdown signal, and the task processes, which are      *)
(* external.  Time stamps of a task are numbered by its own sigwait events: *)
(* the deadline a handler reads is the number of events so far.  The miss   *)
(* counters and the hyperperiod cycle feed only log lines and are left out. *)
(***************************************************************************)
EXTENDS Naturals, Sequences, Functions

CONSTANTS Tasks,
          Schedule,     \* the tasks of the schedule, in its order
          Own,          \* the tasks with this node's node_id
          hyperperiod_us,
          MaxThreads,   \* bound: handler threads of one timer at a time
          MaxEvents,    \* bound: sigwait events per task
          MaxPending,   \* RLIMIT_SIGPENDING
          RingSize      \* room for events in the ring buffer

ASSUME BoundAssumption ==
    /\ Schedule \in Seq(Tasks) /\ Own \subseteq Tasks /\ hyperperiod_us \in Nat
    /\ {MaxThreads, MaxEvents, MaxPending, RingSize} \subseteq Nat \ {0}

VARIABLES main,        \* where the main thread stands
          rest,        \* what is left of the loop it is in
          tt_list,     \* tt_list
          node,        \* the memory of each time_trigger
          timer,       \* the timer of each task
          hp_timer,    \* the hyperperiod timer
          pidfd,       \* tasks whose pidfd is open
          watched,     \* tasks whose pidfd epoll watches
          shutdown_requested,
          raced,       \* a signal came between the test and epoll_wait
          filter,      \* pid_filter_map
          ring,        \* the BPF ring buffer
          lost,        \* tasks whose last event found the ring full
          rb,          \* the ring-buffer thread and the event it handles
          need_exit,
          seen,        \* sigwait_ts, sigwait_ts_prev, sigwait_enter
          handler,     \* the timer threads
          proc,        \* the task processes
          clock        \* events of each task so far

mainVars == <<main, rest, tt_list, node, timer, hp_timer, pidfd, watched>>
sigVars == <<shutdown_requested, raced>>
bpfVars == <<filter, ring, lost, rb, need_exit>>
procVars == <<proc, clock>>
vars == <<mainVars, sigVars, bpfVars, seen, handler, procVars>>

Threads == Tasks \X (1..MaxThreads)
IdleThread == [pc |-> "idle", before |-> 0]
Unseen == [ts |-> 0, prev |-> 0, enter |-> FALSE]
NoThread == [pc |-> "off", t |-> 0]

Ended == main \in {"exit", "crashed"}

Init ==
    /\ main = "initialize" /\ rest = <<>> /\ tt_list = <<>>
    /\ node = [t \in Tasks |-> "none"]
    /\ timer = [t \in Tasks |-> "none"]
    /\ hp_timer = "none"
    /\ pidfd = {} /\ watched = {}
    /\ shutdown_requested = FALSE /\ raced = FALSE
    /\ filter = {} /\ ring = <<>> /\ lost = {}
    /\ rb = NoThread /\ need_exit = FALSE
    /\ seen = [t \in Tasks |-> Unseen]
    /\ handler = [h \in Threads |-> IdleThread]
    /\ proc \in [Tasks -> [at : {"sigwait", "running"}, pending : {0}]]
    /\ clock = [t \in Tasks |-> 0]

----------------------------------------------------------------------------
(* initialize and run                                                       *)

Goto(at) == main' = at

(* The ring-buffer thread runs, or nothing of the tracer is left            *)
start_sigwait_bpf == rb' \in {NoThread, [NoThread EXCEPT !.pc = "poll"]}

(* init_trpc gave the schedule; bpf_on starts the thread or degrades.  An   *)
(* error goes to cleanup_context.                                           *)
BpfOn ==
    /\ main = "initialize"
    /\ \/ Goto("cleanup") /\ UNCHANGED <<rest, rb>>
       \/ /\ Goto("task_list")
          /\ rest' = Schedule
          /\ start_sigwait_bpf
    /\ UNCHANGED <<tt_list, node, timer, hp_timer, pidfd, watched, sigVars,
                   filter, ring, lost, need_exit, seen, handler, procVars>>

(* init_task_list: tasks of other nodes and tasks whose set-up fails are    *)
(* skipped.  The pid is in the filter before the node is in the list.       *)
InitTask ==
    /\ main = "task_list" /\ rest # <<>>
    /\ LET t == Head(rest) IN
       \/ rest' = Tail(rest) /\ UNCHANGED <<main, node, pidfd, filter>>
       \/ /\ t \in Own /\ proc[t].at # "dead"
          /\ node' = [node EXCEPT ![t] = "live"]
          /\ pidfd' = pidfd \union {t}
          /\ filter' \in {filter, IF rb.pc = "off" THEN filter ELSE filter \union {t}}
          /\ Goto("insert") /\ UNCHANGED rest
    /\ UNCHANGED <<tt_list, timer, hp_timer, watched, sigVars, ring, lost, rb, need_exit,
                   seen, handler, procVars>>

(* LIST_INSERT_HEAD                                                         *)
InsertTask ==
    /\ main = "insert"
    /\ tt_list' = <<Head(rest)>> \o tt_list
    /\ rest' = Tail(rest)
    /\ Goto("task_list")
    /\ UNCHANGED <<node, timer, hp_timer, pidfd, watched, sigVars, bpfVars, seen, handler, procVars>>

(* No task at all, or no Apex.OS socket, is an error                        *)
InitDone ==
    /\ main = "task_list" /\ rest = <<>>
    /\ \/ Goto("cleanup")
       \/ tt_list # <<>> /\ Goto("sync")
    /\ UNCHANGED <<rest, tt_list, node, timer, hp_timer, pidfd, watched, sigVars, bpfVars,
                   seen, handler, procVars>>

(* sync_timer_internal polls until the server acks; it never looks at the   *)
(* shutdown flag                                                            *)
Sync ==
    /\ main = "sync"
    /\ \/ Goto("cleanup") /\ UNCHANGED rest
       \/ Goto("timers") /\ rest' = tt_list
    /\ UNCHANGED <<tt_list, node, timer, hp_timer, pidfd, watched, sigVars, bpfVars,
                   seen, handler, procVars>>

(* start_timers: timer_create or timer_settime may fail                     *)
StartTimer ==
    /\ main = "timers" /\ rest # <<>>
    /\ LET t == Head(rest) IN
       \/ /\ timer' = [timer EXCEPT ![t] = "armed"]
          /\ rest' = Tail(rest) /\ UNCHANGED main
       \/ /\ timer' \in {timer, [timer EXCEPT ![t] = "created"]}
          /\ Goto("cleanup") /\ rest' = <<>>
    /\ UNCHANGED <<tt_list, node, hp_timer, pidfd, watched, sigVars, bpfVars,
                   seen, handler, procVars>>

(* start_hyperperiod_timer, which does nothing without a hyperperiod, and   *)
(* the set-up of epoll_loop                                                 *)
StartHyperperiodTimer ==
    /\ main = "timers" /\ rest = <<>>
    /\ \/ /\ hp_timer' = IF hyperperiod_us = 0 THEN "none" ELSE "created"
          /\ Goto("test")
          /\ watched' = Range(tt_list)
       \/ /\ hp_timer' \in {"none"} \union (IF hyperperiod_us = 0 THEN {} ELSE {"created"})
          /\ Goto("cleanup")
          /\ UNCHANGED watched
    /\ UNCHANGED <<rest, tt_list, node, timer, pidfd, sigVars, bpfVars, seen, handler, procVars>>

(* The loop condition, and then the call of epoll_wait                      *)
EpollTest ==
    /\ main = "test"
    /\ IF shutdown_requested
       THEN Goto("cleanup") /\ watched' = {}
       ELSE Goto("enter") /\ UNCHANGED watched
    /\ UNCHANGED <<rest, tt_list, node, timer, hp_timer, pidfd, sigVars, bpfVars,
                   seen, handler, procVars>>

EpollEnter ==
    /\ main = "enter"
    /\ Goto("epoll_wait")
    /\ UNCHANGED <<rest, tt_list, node, timer, hp_timer, pidfd, watched, sigVars, bpfVars,
                   seen, handler, procVars>>

(* A task has ended, an Apex.OS datagram came, or epoll_wait fails          *)
EpollWake ==
    /\ main = "epoll_wait"
    /\ \/ \E t \in watched : proc[t].at = "dead" /\ watched' = watched \ {t} /\ Goto("test")
       \/ UNCHANGED watched /\ Goto("test")
       \/ watched' = {} /\ Goto("cleanup")
    /\ UNCHANGED <<rest, tt_list, node, timer, hp_timer, pidfd, sigVars, bpfVars,
                   seen, handler, procVars>>

(* Mutation: the handler is installed with SA_RESTART                       *)
SignalHandler_Restart ==
    /\ ~Ended /\ ~shutdown_requested
    /\ shutdown_requested' = TRUE
    /\ raced' = (main = "enter")
    /\ UNCHANGED <<mainVars, bpfVars, seen, handler, procVars>>

(* signal_handler; epoll_wait is interrupted                                *)
SignalHandler ==
    /\ ~Ended
    /\ ~shutdown_requested \/ main = "epoll_wait"
    /\ shutdown_requested' = TRUE
    /\ raced' = (raced \/ main = "enter")
    /\ main' = IF main = "epoll_wait" THEN "test" ELSE main
    /\ UNCHANGED <<rest, tt_list, node, timer, hp_timer, pidfd, watched, bpfVars,
                   seen, handler, procVars>>

----------------------------------------------------------------------------
(* cleanup_context                                                          *)

(* cleanup_tasks, first half of its loop: bpf_del_pid and close             *)
CleanupTask ==
    /\ main = "cleanup" /\ tt_list # <<>>
    /\ filter' = filter \ {Head(tt_list)}
    /\ lost' = lost \ {Head(tt_list)}
    /\ pidfd' = pidfd \ {Head(tt_list)}
    /\ Goto("timer_delete")
    /\ UNCHANGED <<rest, tt_list, node, timer, hp_timer, watched, sigVars, ring, rb,
                   need_exit, seen, handler, procVars>>

(* Mutation: the timer is only disarmed if the task still runs              *)
TimerDelete_IfAlive ==
    /\ main = "timer_delete"
    /\ timer' = IF proc[Head(tt_list)].at = "dead" THEN timer
                ELSE [timer EXCEPT ![Head(tt_list)] = "deleted"]
    /\ Goto("free")
    /\ UNCHANGED <<rest, tt_list, node, hp_timer, pidfd, watched, sigVars, bpfVars,
                   seen, handler, procVars>>

(* A timer that start_timers did not reach stays as it is                   *)
TimerDelete ==
    /\ main = "timer_delete"
    /\ timer' = [timer EXCEPT ![Head(tt_list)] = IF @ = "none" THEN @ ELSE "deleted"]
    /\ Goto("free")
    /\ UNCHANGED <<rest, tt_list, node, hp_timer, pidfd, watched, sigVars, bpfVars,
                   seen, handler, procVars>>

(* LIST_REMOVE and TT_FREE, whatever threads still hold the node            *)
FreeNode ==
    /\ main = "free"
    /\ tt_list' = Tail(tt_list)
    /\ node' = [node EXCEPT ![Head(tt_list)] = "freed"]
    /\ seen' = [seen EXCEPT ![Head(tt_list)] = Unseen]
    /\ Goto("cleanup")
    /\ UNCHANGED <<rest, timer, hp_timer, pidfd, watched, sigVars, bpfVars, handler, procVars>>

(* cleanup_communication and cleanup_hyperperiod, then bpf_off asks the     *)
(* thread to leave                                                          *)
CleanupRest ==
    /\ main = "cleanup" /\ tt_list = <<>>
    /\ hp_timer' = IF hp_timer = "none" THEN "none" ELSE "deleted"
    /\ need_exit' = (rb.pc # "off")
    /\ Goto("join")
    /\ UNCHANGED <<rest, tt_list, node, timer, pidfd, watched, sigVars, filter, ring, lost, rb,
                   seen, handler, procVars>>

(* pthread_join, and main returns                                           *)
Join ==
    /\ main = "join"
    /\ rb.pc \in {"off", "exited"}
    /\ Goto("exit")
    /\ UNCHANGED <<rest, tt_list, node, timer, hp_timer, pidfd, watched, sigVars, bpfVars,
                   seen, handler, procVars>>

----------------------------------------------------------------------------
(* timer_expired_handler: one thread per expiry                             *)

(* Reading or writing a freed node: nothing visible, or the process dies    *)
UseFreed ==
    /\ main' \in {main, "crashed"}
    /\ UNCHANGED <<rest, tt_list, node, timer, hp_timer, pidfd, watched>>

Expire(t) ==
    /\ ~Ended /\ timer[t] = "armed"
    /\ \E i \in 1..MaxThreads :
           /\ handler[<<t, i>>] = IdleThread
           /\ handler' = [handler EXCEPT ![<<t, i>>] = [pc |-> "check", before |-> clock[t]]]
    /\ UNCHANGED <<mainVars, sigVars, bpfVars, seen, procVars>>

(* before is not read after the comparison                                  *)
Step(h, pc) ==
    handler' = [handler EXCEPT ![h] = [pc |-> pc, before |-> IF pc = "compare" THEN @.before ELSE 0]]

(* After the sleep for the release time: still running?                     *)
HandlerCheck(h) ==
    /\ ~Ended /\ handler[h].pc = "check" /\ node[h[1]] = "live"
    /\ LET s == seen[h[1]] IN
       Step(h, IF s.ts = 0 THEN "send" ELSE IF ~s.enter THEN "report" ELSE "compare")
    /\ UNCHANGED <<mainVars, sigVars, bpfVars, seen, procVars>>

(* Mutation: the test for a task stuck in the kernel is missing             *)
HandlerCompare_LateOnly(h) ==
    /\ ~Ended /\ handler[h].pc = "compare" /\ node[h[1]] = "live"
    /\ Step(h, IF seen[h[1]].ts > handler[h].before THEN "report" ELSE "mark")
    /\ UNCHANGED <<mainVars, sigVars, bpfVars, seen, procVars>>

(* Back too late, or not woken since the last expiry?                       *)
HandlerCompare(h) ==
    /\ ~Ended /\ handler[h].pc = "compare" /\ node[h[1]] = "live"
    /\ LET s == seen[h[1]] IN
       Step(h, IF s.ts > handler[h].before \/ s.ts = s.prev THEN "report" ELSE "mark")
    /\ UNCHANGED <<mainVars, sigVars, bpfVars, seen, procVars>>

(* report_deadline_miss returns, with success or not                        *)
HandlerReport(h) ==
    /\ ~Ended /\ handler[h].pc = "report" /\ node[h[1]] = "live"
    /\ Step(h, "mark")
    /\ UNCHANGED <<mainVars, sigVars, bpfVars, seen, procVars>>

(* sigwait_ts_prev takes the time stamp of now, not the one compared        *)
HandlerMark(h) ==
    /\ ~Ended /\ handler[h].pc = "mark" /\ node[h[1]] = "live"
    /\ Step(h, "send")
    /\ seen' = [seen EXCEPT ![h[1]] = [@ EXCEPT !.prev = seen[h[1]].ts]]
    /\ UNCHANGED <<mainVars, sigVars, bpfVars, procVars>>

(* send_signal_pidfd: SIGNO_TT is a real-time signal and is queued          *)
HandlerSend(h) ==
    LET t == h[1] IN
    /\ ~Ended /\ handler[h].pc = "send" /\ node[t] = "live"
    /\ Step(h, "idle")
    /\ proc' = IF t \in pidfd /\ proc[t].at # "dead" /\ proc[t].pending < MaxPending
               THEN [proc EXCEPT ![t].pending = @ + 1] ELSE proc
    /\ UNCHANGED <<mainVars, sigVars, bpfVars, seen, clock>>

HandlerFreed(h) ==
    /\ ~Ended /\ handler[h].pc # "idle" /\ node[h[1]] = "freed"
    /\ Step(h, "idle")
    /\ UseFreed
    /\ UNCHANGED <<sigVars, bpfVars, seen, procVars>>

----------------------------------------------------------------------------
(* The ring-buffer thread: handle_sigwait_bpf_event writes two fields       *)

RbTake ==
    /\ ~Ended /\ rb.pc = "poll" /\ ring # <<>>
    /\ LET e == Head(ring) IN
       IF e.t \in Range(tt_list)
       THEN /\ seen' = [seen EXCEPT ![e.t].ts = e.ts]
            /\ rb' = [pc |-> "write", t |-> e.t, enter |-> e.enter]
       ELSE UNCHANGED <<seen, rb>>
    /\ ring' = Tail(ring)
    /\ UNCHANGED <<mainVars, sigVars, filter, lost, need_exit, handler, procVars>>

RbWrite ==
    /\ ~Ended /\ rb.pc = "write"
    /\ rb' = [NoThread EXCEPT !.pc = "poll"]
    /\ IF node[rb.t] = "freed"
       THEN UseFreed /\ UNCHANGED seen
       ELSE seen' = [seen EXCEPT ![rb.t].enter = rb.enter] /\ UNCHANGED mainVars
    /\ UNCHANGED <<sigVars, filter, ring, lost, need_exit, handler, procVars>>

(* Mutation: the thread looks at need_exit only after an event              *)
RbExit_AfterEvent ==
    /\ ~Ended /\ rb.pc = "poll" /\ need_exit /\ ring # <<>>
    /\ rb' = [NoThread EXCEPT !.pc = "exited"]
    /\ UNCHANGED <<mainVars, sigVars, filter, ring, lost, need_exit, seen, handler, procVars>>

(* ring_buffer__poll returns after RB_TIMEOUT_MS at the latest              *)
RbExit ==
    /\ ~Ended /\ rb.pc = "poll" /\ need_exit
    /\ rb' = [NoThread EXCEPT !.pc = "exited"]
    /\ UNCHANGED <<mainVars, sigVars, filter, ring, lost, need_exit, seen, handler, procVars>>

(* ring_buffer__poll fails                                                  *)
RbFail ==
    /\ ~Ended /\ rb.pc = "poll"
    /\ rb' = [NoThread EXCEPT !.pc = "exited"]
    /\ UNCHANGED <<mainVars, sigVars, filter, ring, lost, need_exit, seen, handler, procVars>>

----------------------------------------------------------------------------
(* The task processes and the tracepoints of sigwait.bpf.c                  *)

(* Mutation: the exit of sigwait is not traced                              *)
Trace_EnterOnly(t, enter) ==
    /\ clock' = [clock EXCEPT ![t] = @ + 1]
    /\ IF t \in filter /\ enter /\ Len(ring) < RingSize
       THEN ring' = Append(ring, [t |-> t, ts |-> clock[t] + 1, enter |-> TRUE]) /\ lost' = lost \ {t}
       ELSE UNCHANGED <<ring, lost>>

Trace(t, enter) ==
    /\ clock' = [clock EXCEPT ![t] = @ + 1]
    /\ IF t \in filter
       THEN IF Len(ring) < RingSize
            THEN /\ ring' = Append(ring, [t |-> t, ts |-> clock[t] + 1, enter |-> enter])
                 /\ lost' = lost \ {t}
            ELSE lost' = lost \union {t} /\ UNCHANGED ring
       ELSE UNCHANGED <<ring, lost>>

TaskWake(t) ==
    /\ ~Ended /\ proc[t].at = "sigwait" /\ proc[t].pending > 0 /\ clock[t] < MaxEvents
    /\ proc' = [proc EXCEPT ![t] = [at |-> "running", pending |-> @.pending - 1]]
    /\ Trace(t, FALSE)
    /\ UNCHANGED <<mainVars, sigVars, filter, rb, need_exit, seen, handler>>

TaskDone(t) ==
    /\ ~Ended /\ proc[t].at = "running" /\ clock[t] < MaxEvents
    /\ proc' = [proc EXCEPT ![t].at = "sigwait"]
    /\ Trace(t, TRUE)
    /\ UNCHANGED <<mainVars, sigVars, filter, rb, need_exit, seen, handler>>

TaskDie(t) ==
    /\ ~Ended /\ proc[t].at # "dead"
    /\ proc' = [proc EXCEPT ![t].at = "dead"]
    /\ UNCHANGED <<mainVars, sigVars, bpfVars, seen, handler, clock>>

----------------------------------------------------------------------------

MainStep ==
    \/ BpfOn \/ InitTask \/ InsertTask \/ InitDone \/ StartTimer \/ StartHyperperiodTimer
    \/ EpollTest \/ EpollEnter \/ CleanupTask \/ TimerDelete \/ FreeNode \/ CleanupRest \/ Join

HandlerStep(h) ==
    \/ HandlerCheck(h) \/ HandlerCompare(h) \/ HandlerReport(h) \/ HandlerMark(h)
    \/ HandlerSend(h) \/ HandlerFreed(h)

RbStep == RbTake \/ RbWrite \/ RbExit

Next ==
    \/ BpfOn \/ InitTask \/ InsertTask \/ InitDone \/ Sync \/ StartTimer \/ StartHyperperiodTimer
    \/ EpollTest \/ EpollEnter \/ EpollWake \/ SignalHandler
    \/ CleanupTask \/ TimerDelete \/ FreeNode \/ CleanupRest \/ Join
    \/ RbTake \/ RbWrite \/ RbExit \/ RbFail
    \/ \E t \in Tasks : Expire(t) \/ TaskWake(t) \/ TaskDone(t) \/ TaskDie(t)
    \/ \E h \in Threads :
           \/ HandlerCheck(h) \/ HandlerCompare(h) \/ HandlerReport(h) \/ HandlerMark(h)
           \/ HandlerSend(h) \/ HandlerFreed(h)

Spec == Init /\ [][Next]_vars

(* The kernel runs every thread and every armed timer expires again and     *)
(* again; a D-Bus call of a handler times out.  Nothing is assumed of the   *)
(* barrier, of epoll's events, of signals and of the task processes.        *)
FairSpec ==
    /\ Spec
    /\ WF_vars(MainStep) /\ WF_vars(RbStep)
    /\ \A h \in Threads : WF_vars(HandlerStep(h))
    /\ \A t \in Tasks : WF_vars(Expire(t))

----------------------------------------------------------------------------

(* What the deadline check relies on: once the ring-buffer thread has       *)
(* handled all events of a task, the two fields say whether the task is in  *)
(* sigwait and since which event, however the fields were written.          *)
SettledEventsAreTrue ==
    \A t \in filter \cap Range(tt_list) :
        (/\ \A i \in DOMAIN ring : ring[i].t # t
         /\ rb.t # t
         /\ t \notin lost
         /\ proc[t].at # "dead"
         /\ seen[t].ts # 0) =>
            /\ seen[t].ts = clock[t]
            /\ seen[t].enter <=> proc[t].at = "sigwait"

(* Nothing is left behind, whichever step of start-up failed: when main     *)
(* returns no timer is armed, no pidfd open, no node allocated and the      *)
(* ring-buffer thread has been joined.                                      *)
NothingLeftBehind ==
    main = "exit" =>
        /\ \A t \in Tasks : timer[t] \in {"none", "deleted"} /\ node[t] # "live"
        /\ hp_timer # "created"
        /\ pidfd = {} /\ filter = {}
        /\ rb.pc \in {"off", "exited"}

(* A task that overruns for ever is reported again and again while the      *)
(* loop runs, whether or not its last event got lost.                       *)
OverrunIsReported ==
    \A t \in Tasks :
        <>[](/\ main \in {"test", "enter", "epoll_wait"}
             /\ t \in Range(tt_list) /\ proc[t].at = "running" /\ seen[t].ts # 0) =>
            []<><<\E i \in 1..MaxThreads : HandlerReport(<<t, i>>)>>_vars

(* A signal ends the program, unless it comes between the test of the flag  *)
(* and epoll_wait or while main polls the barrier.                          *)
ShutdownStops == shutdown_requested /\ ~raced ~> Ended \/ main = "sync"

(* Clean-up comes to its end: the join does not wait for an event.          *)
CleanupEnds == main = "cleanup" ~> Ended

=============================================================================
