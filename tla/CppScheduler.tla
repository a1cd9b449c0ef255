---------------------------- MODULE CppScheduler ----------------------------
(***************************************************************************)
(* AddSchedInfo of the C++ Timpani-O, with the GlobalScheduler class it     *)
(* calls, on the workload that the Rust port of GlobalScheduler.tla was     *)
(* given before: the Rust port was written from this code.  The two share   *)
(* the configuration and nothing else, so they run one after the other.     *)
(*                                                                          *)
(* The service asks for target_node_priority; the model also asks for the   *)
(* other algorithms of the class.  One step places one task.                *)
(***************************************************************************)
EXTENDS GlobalScheduler

CONSTANTS CpuOrder,       \* available_cpus of every node in configuration order
          max_memory_mb,  \* of every node
          memory_mb,      \* of every task: ConvertTaskInfoToTasks sets 256
          MaskBits        \* the width of uint32_t

ASSUME CppConfigAssumption ==
  /\ CpuOrder \in [Nodes -> Seq(Nat)]
  /\ \A n \in Nodes : Range(CpuOrder[n]) = Cpus[n] /\ Len(CpuOrder[n]) = Cardinality(Cpus[n])
  /\ max_memory_mb \in [Nodes -> Nat]
  /\ memory_mb \in Nat
  /\ MaskBits \in Nat \ {0, 1}

VARIABLES
  workload_id,                \* of the request
  given,                      \* its tasks
  status,                     \* "idle", "placing", then what AddSchedInfo found
  tasks_, pos,                \* the tasks, and the one to place next
  available_cpus_per_node_,
  cpu_utilization_per_node_,
  sched_info_map_             \* node -> the tasks of its schedule

cppVars == <<workload_id, given, status, tasks_, pos, available_cpus_per_node_,
             cpu_utilization_per_node_, sched_info_map_>>
request == <<workload_id, given>>

CppInit ==
  /\ Init
  /\ workload_id \in IF named THEN {"w", "Apex.OS"} ELSE {""}
  /\ given = tasks
  /\ status = "idle" /\ tasks_ = <<>> /\ pos = 1
  /\ available_cpus_per_node_ = <<>> /\ cpu_utilization_per_node_ = <<>>
  /\ sched_info_map_ = <<>>

---------------------------------------------------------------------------
(* SchedInfoServiceImpl                                                    *)

PinnedCpu_OffByOne(mask) == IF mask = {} THEN NoCpu ELSE Min(mask) + 1

\* The affinity string: "any" is NoCpu, else the highest set bit of the mask
\* cut to 32 bits; nothing left is CPU 0.
PinnedCpu(mask) ==
  LET low == mask \cap 0..(MaskBits - 1)
  IN  IF mask = {} \/ mask = 0..(MaskBits - 1) THEN NoCpu
      ELSE IF low = {} THEN 0 ELSE Max(low)

\* The Task made of task k of the request, once it is on a node and a CPU.
CppTask(k, node, cpu) ==
  [id |-> k, runtime |-> given[k].runtime, period |-> given[k].period,
   target |-> given[k].target, affinity |-> PinnedCpu(given[k].affinity),
   node |-> node, cpu |-> cpu]

ConvertTaskInfoToTasks == [k \in DOMAIN given |-> CppTask(k, NoNode, NoCpu)]

\* CalculateHyperperiod finds a period; that Lcm may wrap is in Hyperperiod.tla.
HasHyperperiod == \E k \in DOMAIN given : given[k].period > 0

kNsToUs == 1000

\* sched_task_t, with the fields nobody computes with left to the wire format.
sched_task(k, period_us, runtime_us, cpu, node) ==
  [id |-> k, period_ns |-> kNsToUs * period_us, runtime_ns |-> kNsToUs * runtime_us, cpu |-> cpu, node |-> node]

\* The items of a list by node.  An item keeps its position in the list: the
\* array of a node holds its items in that order.
GroupByNode(items) ==
  [n \in {items[k].node : k \in DOMAIN items} |->
     Restrict(items, {k \in DOMAIN items : items[k].node = n})]

\* The Apex.OS workload by-passes the scheduler: the mask goes to the node as
\* it came, and node_id is not looked up in the configuration.
ApexSchedule ==
  GroupByNode([k \in DOMAIN given |->
                 sched_task(k, given[k].period, 0, given[k].affinity, given[k].target)])

(* GlobalScheduler                                                         *)

CppTaskUtilization == [k \in DOMAIN tasks_ |-> utilization(tasks_[k])]

CppUtil(n) == SumFunctionOnSet(CppTaskUtilization, {k \in DOMAIN tasks_ : tasks_[k].node = n})

Free(n) == Range(available_cpus_per_node_[n])

is_task_schedulable_on_node(t, n) ==
  /\ n \in Nodes
  /\ memory_mb <= max_memory_mb[n]
  /\ t.affinity # NoCpu => t.affinity \in Free(n)

\* The nodes both node searches look at.
Open(t) == {n \in Nodes : Free(n) # {} /\ is_task_schedulable_on_node(t, n)}

\* Least utilisation below one full CPU, first name on a tie; NoNode if none.
find_best_node_least_loaded(t) ==
  LET best == {n \in Open(t) : CppUtil(n) < Scale /\
                 \A m \in Open(t) : CppUtil(n) < CppUtil(m) \/ (CppUtil(n) = CppUtil(m) /\ n <= m)}
  IN  IF best = {} THEN NoNode ELSE Min(best)

\* Highest utilisation that stays within one full CPU with the task.
find_best_node_best_fit_decreasing(t) ==
  LET fit == {n \in Open(t) : CppUtil(n) + utilization(t) <= Scale}
      best == {n \in fit : \A m \in fit : CppUtil(m) <= CppUtil(n)}
  IN  IF best = {} THEN NoNode ELSE Min(best)

find_best_cpu_for_task_NoSum(t, n) ==
  LET fits == {c \in Free(n) : utilization(t) <= CPU_UTILIZATION_THRESHOLD}
  IN  IF t.affinity \in fits THEN t.affinity ELSE IF fits = {} THEN NoCpu ELSE Max(fits)

\* The pinned CPU if the task fits there, else the highest that has room.
find_best_cpu_for_task(t, n) ==
  LET fits == {c \in Free(n) : cpu_utilization_per_node_[<<n, c>>] + utilization(t)
                                 <= CPU_UTILIZATION_THRESHOLD}
  IN  IF t.affinity \in fits THEN t.affinity ELSE IF fits = {} THEN NoCpu ELSE Max(fits)

SortedByRuntime(p) ==
  /\ \A j, k \in DOMAIN p : j # k => p[j] # p[k]
  /\ \A j, k \in DOMAIN p : j < k => given[p[k]].runtime <= given[p[j]].runtime

---------------------------------------------------------------------------
(* AddSchedInfo                                                            *)

RustDone == outcome \notin {"called", "placing"}

\* Apex.OS, or no hyperperiod, or schedule() refuses: no tasks can no longer
\* be a reason, but a configuration that is not loaded or an unknown algorithm.
AddSchedInfoEnds ==
  /\ RustDone /\ status = "idle"
  /\ \/ workload_id = "Apex.OS" /\ status' = "stored" /\ sched_info_map_' = ApexSchedule
     \/ /\ workload_id # "Apex.OS" /\ ~HasHyperperiod
        /\ status' = "no hyperperiod" /\ UNCHANGED sched_info_map_
     \/ /\ workload_id # "Apex.OS" /\ HasHyperperiod
        /\ ~loaded \/ algorithm \notin Algorithms
        /\ status' = "not scheduled" /\ UNCHANGED sched_info_map_
  /\ UNCHANGED <<vars, request, tasks_, pos, available_cpus_per_node_, cpu_utilization_per_node_>>

\* set_tasks, initialize_available_cpus, initialize_cpu_utilization_tracking,
\* and std::sort, which leaves tasks of equal runtime in any order.
AddSchedInfo ==
  /\ RustDone /\ status = "idle"
  /\ workload_id # "Apex.OS" /\ HasHyperperiod
  /\ loaded /\ algorithm \in Algorithms
  /\ status' = "placing"
  /\ \E p \in [DOMAIN given -> DOMAIN given] :
       /\ IF algorithm = "best_fit_decreasing" THEN SortedByRuntime(p)
                                               ELSE \A k \in DOMAIN p : p[k] = k
       /\ tasks_' = [k \in DOMAIN given |-> ConvertTaskInfoToTasks[p[k]]]
  /\ available_cpus_per_node_' = CpuOrder
  /\ cpu_utilization_per_node_' = [p \in Places |-> 0]
  /\ UNCHANGED <<vars, request, pos, sched_info_map_>>

CppPlacing(a) == status = "placing" /\ algorithm = a /\ pos <= Len(tasks_)

\* The node is set before a CPU is looked for, and stays when there is none.
assign_task_to_node_cpu(n, c) ==
  /\ tasks_' = [tasks_ EXCEPT ![pos] = CppTask(@.id, n, c)]
  /\ cpu_utilization_per_node_' =
       IF c = NoCpu THEN cpu_utilization_per_node_
       ELSE [cpu_utilization_per_node_ EXCEPT ![<<n, c>>] = @ + utilization(tasks_[pos])]

schedule_with_target_node_priority ==
  /\ CppPlacing("target_node_priority")
  /\ LET t == tasks_[pos] IN
       IF workload_id # "" /\ t.target \in Nodes /\ Free(t.target) # {}
       THEN assign_task_to_node_cpu(t.target, find_best_cpu_for_task(t, t.target))
       ELSE UNCHANGED <<tasks_, cpu_utilization_per_node_>>
  /\ pos' = pos + 1
  /\ UNCHANGED <<vars, request, status, available_cpus_per_node_, sched_info_map_>>

\* The task gets CPU c, which leaves the list of the node.
TakeCpu(n, c) ==
  /\ tasks_' = [tasks_ EXCEPT ![pos] = CppTask(@.id, n, c)]
  /\ available_cpus_per_node_' = [available_cpus_per_node_ EXCEPT ![n] = SelectSeq(@, LAMBDA d : d # c)]

\* available_cpus_per_node_[n].front()
FirstCpu(n) == available_cpus_per_node_[n][1]

\* The affinity limits the nodes and is not looked at for the CPU.
schedule_with_least_loaded ==
  /\ CppPlacing("least_loaded")
  /\ LET n == find_best_node_least_loaded(tasks_[pos]) IN
       IF n # NoNode THEN TakeCpu(n, FirstCpu(n)) ELSE UNCHANGED <<tasks_, available_cpus_per_node_>>
  /\ pos' = pos + 1
  /\ UNCHANGED <<vars, request, status, cpu_utilization_per_node_, sched_info_map_>>

schedule_with_best_fit_decreasing ==
  /\ CppPlacing("best_fit_decreasing")
  /\ LET t == tasks_[pos]
         n == IF t.target = NoNode THEN find_best_node_best_fit_decreasing(t)
              ELSE IF t.target \in Open(t) THEN t.target ELSE NoNode
     IN  IF n = NoNode THEN UNCHANGED <<tasks_, available_cpus_per_node_>>
         ELSE TakeCpu(n, IF t.affinity \in Free(n) THEN t.affinity ELSE FirstCpu(n))
  /\ pos' = pos + 1
  /\ UNCHANGED <<vars, request, status, cpu_utilization_per_node_, sched_info_map_>>

\* generate_schedules: every task with a node, whether it has a CPU or not.
generate_schedules ==
  GroupByNode([k \in {j \in DOMAIN tasks_ : tasks_[j].node # NoNode} |->
                 sched_task(tasks_[k].id, tasks_[k].period, tasks_[k].runtime,
                            tasks_[k].cpu, tasks_[k].node)])

\* The loop is over; an empty map makes schedule() fail.
AddSchedInfoReturns ==
  /\ status = "placing" /\ pos > Len(tasks_)
  /\ sched_info_map_' = generate_schedules
  /\ status' = IF sched_info_map_' = <<>> THEN "not scheduled" ELSE "stored"
  /\ UNCHANGED <<vars, request, tasks_, pos, available_cpus_per_node_, cpu_utilization_per_node_>>

CppNext ==
  \/ AddSchedInfoEnds \/ AddSchedInfo \/ schedule_with_target_node_priority
  \/ schedule_with_least_loaded \/ schedule_with_best_fit_decreasing \/ AddSchedInfoReturns

---------------------------------------------------------------------------
(* Properties                                                              *)

Placed == {k \in DOMAIN tasks_ : tasks_[k].cpu # NoCpu}

\* Under target_node_priority the utilisation the C++ scheduler books on a CPU
\* is that of the tasks it put there, and within the threshold.
CppBooksWhatItPlaces ==
  algorithm = "target_node_priority" /\ status = "placing" =>
    \A p \in Places :
      /\ cpu_utilization_per_node_[p] =
           SumFunctionOnSet(CppTaskUtilization, {k \in Placed : <<tasks_[k].node, tasks_[k].cpu>> = p})
      /\ cpu_utilization_per_node_[p] <= CPU_UTILIZATION_THRESHOLD

\* No mask names more than one CPU, nor one that uint32_t cannot hold.
OneCpuMasks ==
  \A k \in DOMAIN given : Cardinality(given[k].affinity) <= 1 /\ given[k].affinity \subseteq 0..(MaskBits - 1)

\* Where masks name one CPU, the Rust port changes nothing for a workload it
\* accepts: the C++ scheduler puts every task on the same node and CPU.  (It
\* differs in what it accepts, and for masks of several CPUs.)
PortPlacesAlike ==
  /\ algorithm = "target_node_priority" /\ outcome = "ok"
  /\ status \in {"stored", "not scheduled"} /\ workload_id # "Apex.OS"
  /\ OneCpuMasks
  => /\ status = "stored"
     /\ \A k \in DOMAIN tasks_ : <<tasks_[k].node, tasks_[k].cpu>> = assigned[k]

---------------------------------------------------------------------------
(* The inductive invariant of the proofs, for target_node_priority.        *)

\* What the Rust scheduler had booked on a CPU when it came to task k, and
\* whether there was room for that task.
BookedBefore(k, p) == SumFunctionOnSet(TaskUtilization, {j \in 1..(k - 1) : assigned[j] = p})

RoomBefore(k, n, c) ==
  c \in Cpus[n] /\ BookedBefore(k, <<n, c>>) + utilization(tasks[k]) <= CPU_UTILIZATION_THRESHOLD

\* Every task has the CPU that find_best_cpu_for_task preferred then.
WasBest(k, n, c) ==
  /\ RoomBefore(k, n, c)
  /\ \A p \in Cpus[n] : Pins(tasks[k], p) /\ RoomBefore(k, n, p) => c = p
  /\ ~Pins(tasks[k], c) => \A d \in Cpus[n] : RoomBefore(k, n, d) => d <= c

ChosenInOrder ==
  \A k \in 1..Len(tasks) : assigned[k] # Unassigned =>
    /\ named /\ assigned[k][1] = tasks[k].target
    /\ WasBest(k, assigned[k][1], assigned[k][2])

RustInv ==
  /\ outcome \in {"placing", "ok"} => loaded /\ algorithm \in Algorithms
  /\ algorithm = "target_node_priority" => tasks = given /\ ChosenInOrder

\* The tasks are those of the request, in its order; the first ones have been
\* placed, on their target node.
PlacedOnTarget ==
  \A k \in DOMAIN given :
    /\ tasks_[k] = CppTask(k, tasks_[k].node, tasks_[k].cpu)
    /\ tasks_[k].node \in {NoNode, given[k].target}
    /\ k >= pos => tasks_[k].node = NoNode /\ tasks_[k].cpu = NoCpu
    /\ tasks_[k].cpu # NoCpu => <<tasks_[k].node, tasks_[k].cpu>> \in Places

Books ==
  /\ cpu_utilization_per_node_ \in [Places -> Nat]
  /\ \A p \in Places :
       /\ cpu_utilization_per_node_[p] =
            SumFunctionOnSet(CppTaskUtilization, {k \in Placed : <<tasks_[k].node, tasks_[k].cpu>> = p})
       /\ cpu_utilization_per_node_[p] <= CPU_UTILIZATION_THRESHOLD

CppTasks == [id : Nat, runtime : Nat, period : Nat, target : Nat, affinity : Int, node : Nat, cpu : Int]

\* The loop of the C++ scheduler, from its first task on.
LoopInv ==
  /\ workload_id # "Apex.OS"
  /\ tasks_ \in Seq(CppTasks) /\ Len(tasks_) = Len(given)
  /\ pos \in 1..(Len(given) + 1)
  /\ status \in {"placing", "stored", "not scheduled"}
  /\ status # "placing" => pos = Len(given) + 1
  /\ available_cpus_per_node_ = CpuOrder
  /\ PlacedOnTarget /\ Books
  /\ outcome = "ok" /\ OneCpuMasks =>
       /\ \A k \in 1..(pos - 1) : <<tasks_[k].node, tasks_[k].cpu>> = assigned[k]
       /\ status # "placing" => status = "stored"

Requested ==
  /\ given \in Seq(TaskSpace)
  /\ named <=> workload_id # ""
  /\ status # "idle" => RustDone
  /\ status \in {"idle", "placing", "stored", "no hyperperiod", "not scheduled"}

CppInv ==
  /\ Requested /\ RustInv
  /\ tasks_ = <<>> =>
       /\ status # "placing" /\ pos = 1
       /\ status = "stored" => workload_id = "Apex.OS"
       /\ status = "not scheduled" => ~loaded \/ algorithm \notin Algorithms
  /\ tasks_ # <<>> => status # "idle"
  /\ algorithm = "target_node_priority" =>
       /\ tasks_ # <<>> => LoopInv
       /\ status = "stored" =>
            sched_info_map_ = IF workload_id = "Apex.OS" THEN ApexSchedule ELSE generate_schedules
=============================================================================
