----------------------------- MODULE SchedStat -----------------------------
(***************************************************************************)
(* The scheduling statistics of a C Timpani-N: the two BPF programs of      *)
(* schedstat.bpf.c on the kernel's sched_waking and sched_switch            *)
(* tracepoints, their maps and ring buffer, and the thread that hands the   *)
(* events to handle_schedstat_bpf_event.  The kernel's scheduler is         *)
(* external: it runs any ready task on any CPU, and preempts and wakes as   *)
(* it likes.  A tracepoint is one step, and takes one tick.                 *)
(***************************************************************************)
EXTENDS Integers, Sequences

CONSTANTS Pids, Cpus,
          RingSize,   \* events the ring buffer has room for
          MaxTicks    \* bound

ASSUME StatAssumption == RingSize \in Nat /\ MaxTicks \in Nat /\ 0 \notin Pids

VARIABLES ticks,             \* bpf_ktime_get_ns
          task,              \* "asleep", "ready" or "running" for every pid
          on,                \* the pid on every CPU; 0 is the idle task
          cleanup,           \* cleanup_tasks has begun
          pid_filter_map, sched_waking_map, sched_switch_map,
          buffer,            \* the ring buffer
          handled,           \* events the handler had
          began,             \* history: when the run of every pid began
          loss               \* history: an event found no room

kernelVars == <<ticks, task, on, began>>
statVars == <<kernelVars, cleanup, pid_filter_map, sched_waking_map, sched_switch_map, buffer, handled, loss>>

StatInit ==
  /\ ticks = 0 /\ task = [p \in Pids |-> "asleep"] /\ on = [c \in Cpus |-> 0]
  /\ cleanup = FALSE /\ pid_filter_map = {} /\ sched_waking_map = <<>> /\ sched_switch_map = <<>>
  /\ buffer = <<>> /\ handled = {} /\ began = [p \in Pids |-> 0] /\ loss = FALSE

\* bpf_map_update_elem and bpf_map_delete_elem
Update(map, p, data) == [q \in DOMAIN map \cup {p} |-> IF q = p THEN data ELSE map[q]]
Delete(map, p) == [q \in DOMAIN map \ {p} |-> map[q]]

ts == ticks + 1

---------------------------------------------------------------------------
(* trace_bpf.c                                                             *)

\* A map that is full, or that cannot be reached, only gives a warning.
bpf_add_pid(p) ==
  /\ p \notin pid_filter_map /\ ~cleanup
  /\ pid_filter_map' = pid_filter_map \cup {p}
  /\ UNCHANGED <<kernelVars, cleanup, sched_waking_map, sched_switch_map, buffer, handled, loss>>

bpf_del_pid(p) ==
  /\ p \in pid_filter_map
  /\ pid_filter_map' = pid_filter_map \ {p} /\ cleanup' = TRUE
  /\ UNCHANGED <<kernelVars, sched_waking_map, sched_switch_map, buffer, handled, loss>>

\* ring_buffer__poll and handle_schedstat_bpf_event.
PollSchedstat ==
  /\ buffer # <<>>
  /\ handled' = handled \cup {Head(buffer)}
  /\ buffer' = Tail(buffer)
  /\ UNCHANGED <<kernelVars, cleanup, pid_filter_map, sched_waking_map, sched_switch_map, loss>>

---------------------------------------------------------------------------
(* schedstat.bpf.c                                                         *)

\* A task may be woken before it is off its CPU.
sched_waking(p) ==
  /\ ticks < MaxTicks /\ ticks' = ts
  /\ task[p] # "ready"
  /\ task' = [task EXCEPT ![p] = IF @ = "asleep" THEN "ready" ELSE @]
  /\ sched_waking_map' = IF p \in pid_filter_map THEN Update(sched_waking_map, p, [ts_wakeup |-> ts])
                                                 ELSE sched_waking_map
  /\ UNCHANGED <<on, began, cleanup, pid_filter_map, sched_switch_map, buffer, handled, loss>>

\* What the kernel does at the tracepoint: prev goes to sleep or stays ready,
\* next runs.
Switches(c, next, state) ==
  /\ ticks < MaxTicks /\ ticks' = ts
  /\ on[c] # next /\ (next # 0 => task[next] = "ready")
  /\ on' = [on EXCEPT ![c] = next]
  /\ task' = [p \in Pids |-> IF p = on[c] THEN state ELSE IF p = next THEN "running" ELSE task[p]]
  /\ began' = [p \in Pids |-> IF p = next THEN ts ELSE began[p]]

\* The second half: a task that is scheduled in moves from one map to the other.
ScheduledIn(next, waking, switch) ==
  IF next \in pid_filter_map /\ next \in DOMAIN waking
  THEN /\ sched_switch_map' = Update(switch, next, [ts_start |-> ts, ts_wakeup |-> waking[next].ts_wakeup])
       /\ sched_waking_map' = Delete(waking, next)
  ELSE sched_switch_map' = switch /\ sched_waking_map' = waking

Event_Swapped(prev, c) ==
  [pid |-> prev, ts_wakeup |-> sched_switch_map[prev].ts_start,
   ts_start |-> sched_switch_map[prev].ts_wakeup, ts_stop |-> ts, cpu |-> c]

Event(prev, c) ==
  [pid |-> prev, ts_wakeup |-> sched_switch_map[prev].ts_wakeup,
   ts_start |-> sched_switch_map[prev].ts_start, ts_stop |-> ts, cpu |-> c]

SwitchTraced_KeepsEntry(c, next, preempted) ==
  LET prev == on[c] IN
  /\ prev \in DOMAIN sched_switch_map /\ Len(buffer) < RingSize
  /\ buffer' = Append(buffer, Event(prev, c))
  /\ ScheduledIn(next, IF preempted THEN Update(sched_waking_map, prev, [ts_wakeup |-> sched_switch_map[prev].ts_wakeup])
                                    ELSE sched_waking_map,
                 sched_switch_map)
  /\ UNCHANGED loss

\* prev is traced, and its event fits.
SwitchTraced(c, next, preempted) ==
  LET prev == on[c] IN
  /\ prev \in DOMAIN sched_switch_map /\ Len(buffer) < RingSize
  /\ buffer' = Append(buffer, Event(prev, c))
  /\ ScheduledIn(next, IF preempted THEN Update(sched_waking_map, prev, [ts_wakeup |-> sched_switch_map[prev].ts_wakeup])
                                    ELSE sched_waking_map,
                 Delete(sched_switch_map, prev))
  /\ UNCHANGED loss

\* prev is traced and there is no room: the entry stays, next is not looked at.
SwitchLost(c) ==
  /\ on[c] \in DOMAIN sched_switch_map /\ Len(buffer) = RingSize
  /\ loss' = TRUE
  /\ UNCHANGED <<buffer, sched_waking_map, sched_switch_map>>

SwitchUntraced(c, next) ==
  /\ on[c] \notin DOMAIN sched_switch_map
  /\ ScheduledIn(next, sched_waking_map, sched_switch_map)
  /\ UNCHANGED <<buffer, loss>>

\* A task that is preempted on its way to sleep is ready but not TASK_RUNNING.
sched_switch(c, next) ==
  /\ \E state \in {"asleep", "ready"}, preempted \in BOOLEAN :
       /\ preempted => state = "ready"
       /\ Switches(c, next, state)
       /\ SwitchTraced(c, next, preempted) \/ SwitchLost(c) \/ SwitchUntraced(c, next)
  /\ UNCHANGED <<cleanup, pid_filter_map, handled>>

StatNext ==
  \/ \E p \in Pids : bpf_add_pid(p) \/ bpf_del_pid(p) \/ sched_waking(p)
  \/ \E c \in Cpus, next \in Pids \cup {0} : sched_switch(c, next)
  \/ PollSchedstat

StatSpec == StatInit /\ [][StatNext]_statVars

---------------------------------------------------------------------------
(* Properties                                                              *)

Events == handled \cup {buffer[i] : i \in DOMAIN buffer}

\* Neither difference that handle_schedstat_bpf_event computes on uint64_t
\* wraps, and the intervals of one task do not overlap, even after the ring
\* buffer lost events.
IntervalsAreOrdered ==
  \A e \in Events :
    /\ e.ts_wakeup <= e.ts_start /\ e.ts_start <= e.ts_stop
    /\ \A f \in Events : e.pid = f.pid /\ e # f => e.ts_stop <= f.ts_start \/ f.ts_stop <= e.ts_start

\* As long as no event was lost, tasks do not overlap on a CPU, and the interval
\* that is being measured is the run the task is in.
ExactUntilFirstLoss ==
  ~loss =>
    /\ \A e, f \in Events : e.cpu = f.cpu /\ e # f => e.ts_stop <= f.ts_start \/ f.ts_stop <= e.ts_start
    /\ \A p \in DOMAIN sched_switch_map : task[p] = "running" /\ sched_switch_map[p].ts_start = began[p]
=============================================================================
