-------------------------- MODULE GlobalScheduler --------------------------
(***************************************************************************)
(* One call of GlobalScheduler::schedule of the Rust Timpani-O: a list of  *)
(* tasks and the name of an algorithm go in, a node -> tasks map or an     *)
(* error comes out.  One step of the model places one task.                *)
(*                                                                         *)
(* Utilisations are integers, Scale being one full CPU; the code computes  *)
(* them in f64, and the rounding of f64 is not modelled.  Node names are   *)
(* numbers so that BTreeMap's alphabetical order is <.  Task memory is     *)
(* left out: task_from_proto always sets it to 0, which check_admission    *)
(* reads as "no constraint".                                               *)
(***************************************************************************)
EXTENDS Integers, Sequences, FiniteSetsExt

CONSTANTS Nodes,      \* names in the node configuration
          Cpus,       \* available_cpus of every configured node
          TaskSpace,  \* the tasks a workload may hold
          MaxTasks,   \* bound: tasks in one workload
          Scale,      \* the utilisation of a fully used CPU
          CPU_UTILIZATION_THRESHOLD

\* The empty target_node, and a lookup that found no CPU.
NoNode == 0
NoCpu == -1

ASSUME ConfigAssumption ==
  /\ Nodes \subseteq Nat \ {NoNode}
  /\ Cpus \in [Nodes -> SUBSET Nat] /\ \A n \in Nodes : IsFiniteSet(Cpus[n])
  /\ MaxTasks \in Nat
  /\ Scale \in Nat \ {0}
  /\ CPU_UTILIZATION_THRESHOLD \in 0..Scale

\* A mask has 64 bits, so an affinity is finite.
ASSUME TaskAssumption ==
  /\ TaskSpace \subseteq [runtime : Nat, period : Nat, target : Nat, affinity : SUBSET Nat]
  /\ \A t \in TaskSpace : IsFiniteSet(t.affinity)

Algorithms == {"target_node_priority", "least_loaded", "best_fit_decreasing"}

Errors == {"NoTasks", "ConfigNotLoaded", "UnknownAlgorithm", "MissingWorkloadId",
           "MissingTargetNode", "AdmissionRejected", "NoSchedulableNode"}

\* Every (node, CPU) pair of the configuration.
Places == {p \in Nodes \X UNION {Cpus[n] : n \in Nodes} : p[2] \in Cpus[p[1]]}

Unassigned == <<NoNode, NoCpu>>

VARIABLES
  algorithm,    \* argument: the algorithm asked for
  named,        \* argument: the tasks carry a non-empty workload_id
  loaded,       \* node_config_manager.is_loaded()
  tasks,        \* the task list, reordered by best_fit_decreasing
  next,         \* the position of the task to place next
  util,         \* CpuUtil: the utilisation booked on every CPU
  assigned,     \* assigned_node and assigned_cpu of every task
  outcome,      \* "called", "placing", "ok" or an error
  sched         \* the NodeSchedMap returned: node -> positions of its tasks

vars == <<algorithm, named, loaded, tasks, next, util, assigned, outcome, sched>>

call == <<algorithm, named, loaded>>

---------------------------------------------------------------------------
(* Helpers.                                                                *)

utilization(t) == IF t.period = 0 THEN 0 ELSE (Scale * t.runtime) \div t.period

TaskUtilization == [k \in DOMAIN tasks |-> utilization(tasks[k])]

\* mask.trailing_zeros() = c; an empty affinity stands for CpuAffinity::Any.
Pins(t, c) == c \in t.affinity /\ \A d \in t.affinity : c <= d

\* check_admission
Admitted(t, n) == n \in Nodes /\ \A c \in t.affinity : Pins(t, c) => c \in Cpus[n]

Fits(t, n, c) ==
  c \in Cpus[n] /\ util[<<n, c>>] + utilization(t) <= CPU_UTILIZATION_THRESHOLD

HasCpu(t, n) == \E c \in Cpus[n] : Fits(t, n, c)

find_best_cpu_Unchecked(t, n, c) ==
  IF \E p \in t.affinity : Pins(t, p) /\ p \in Cpus[n]
    THEN Pins(t, c)
    ELSE IF HasCpu(t, n) THEN Fits(t, n, c) /\ \A d \in Cpus[n] : Fits(t, n, d) => d <= c
                         ELSE c = NoCpu

find_best_cpu_LowestFirst(t, n, c) ==
  IF \E p \in t.affinity : Pins(t, p) /\ Fits(t, n, p)
    THEN Pins(t, c)
    ELSE IF HasCpu(t, n) THEN Fits(t, n, c) /\ \A d \in Cpus[n] : Fits(t, n, d) => c <= d
                         ELSE c = NoCpu

\* find_best_cpu_for_task returns c: the pinned CPU if the task still fits
\* there, else the highest CPU of the node on which it fits.
find_best_cpu(t, n, c) ==
  IF \E p \in t.affinity : Pins(t, p) /\ Fits(t, n, p)
    THEN Pins(t, c)
    ELSE IF HasCpu(t, n) THEN Fits(t, n, c) /\ \A d \in Cpus[n] : Fits(t, n, d) => d <= c
                         ELSE c = NoCpu

calculate_node_utilization(n) == SumFunctionOnSet([c \in Cpus[n] |-> util[<<n, c>>]], Cpus[n])

\* The nodes both searches consider.
Eligible(t, n) == Cpus[n] # {} /\ Admitted(t, n) /\ HasCpu(t, n)

least_loaded_Heaviest(t, n) ==
  /\ Eligible(t, n)
  /\ \A m \in Nodes : Eligible(t, m) =>
       \/ calculate_node_utilization(m) < calculate_node_utilization(n)
       \/ calculate_node_utilization(m) = calculate_node_utilization(n) /\ n <= m

\* find_best_node_least_loaded returns n: least utilisation, first name on a tie.
least_loaded(t, n) ==
  /\ Eligible(t, n)
  /\ \A m \in Nodes : Eligible(t, m) =>
       \/ calculate_node_utilization(n) < calculate_node_utilization(m)
       \/ calculate_node_utilization(n) = calculate_node_utilization(m) /\ n <= m

\* The node's booked utilisation stays within its number of CPUs.
UnderCpuCount(t, n) ==
  calculate_node_utilization(n) + utilization(t) <= Scale * Cardinality(Cpus[n])

HintWorks_NoCpuTest(t) == t.target # NoNode /\ Admitted(t, t.target)

HintWorks(t) == t.target # NoNode /\ Admitted(t, t.target) /\ HasCpu(t, t.target)

BestFitCandidate(t, n) == Eligible(t, n) /\ UnderCpuCount(t, n)

\* find_best_node_best_fit_decreasing returns n: the hint if it can take the
\* task, else the fullest node, first name on a tie.
best_fit(t, n) ==
  IF HintWorks(t)
    THEN n = t.target
    ELSE /\ BestFitCandidate(t, n)
         /\ \A m \in Nodes : BestFitCandidate(t, m) =>
              \/ calculate_node_utilization(m) < calculate_node_utilization(n)
              \/ calculate_node_utilization(m) = calculate_node_utilization(n) /\ n <= m

\* p is the order in which the tasks are taken: by decreasing runtime for
\* best_fit_decreasing, equal runtimes in no particular order (sort_unstable).
Order(p) ==
  IF algorithm = "best_fit_decreasing"
    THEN /\ \A j, k \in DOMAIN p : j # k => p[j] # p[k]
         /\ \A j, k \in DOMAIN p : j < k => tasks[p[k]].runtime <= tasks[p[j]].runtime
    ELSE \A k \in DOMAIN p : p[k] = k

\* build_sched_map: tasks without an assignment are dropped.
build_sched_map(a) ==
  [n \in {a[k][1] : k \in DOMAIN a} \ {NoNode} |-> {k \in DOMAIN a : a[k][1] = n}]

---------------------------------------------------------------------------
(* The call.                                                               *)

Init ==
  /\ algorithm \in Algorithms \cup {"other"}
  /\ named \in BOOLEAN
  /\ loaded \in BOOLEAN
  /\ tasks \in UNION {[1..k -> TaskSpace] : k \in 0..MaxTasks}
  /\ next = 1
  /\ util = [p \in Places |-> 0]
  /\ assigned = [k \in 1..Len(tasks) |-> Unassigned]
  /\ outcome = "called"
  /\ sched = <<>>

Fail(error) ==
  /\ outcome' = error
  /\ UNCHANGED <<call, tasks, next, util, assigned, sched>>

\* The preconditions and the dispatch of schedule().
Refuse ==
  /\ outcome = "called"
  /\ \/ tasks = <<>> /\ Fail("NoTasks")
     \/ tasks # <<>> /\ ~loaded /\ Fail("ConfigNotLoaded")
     \/ tasks # <<>> /\ loaded /\ algorithm \notin Algorithms /\ Fail("UnknownAlgorithm")

\* build_available_cpus, build_cpu_utilization, and the sort that opens
\* schedule_best_fit_decreasing.
Begin ==
  /\ outcome = "called"
  /\ tasks # <<>> /\ loaded /\ algorithm \in Algorithms
  /\ \E p \in [1..Len(tasks) -> 1..Len(tasks)] :
       Order(p) /\ tasks' = [k \in 1..Len(tasks) |-> tasks[p[k]]]
  /\ outcome' = "placing"
  /\ UNCHANGED <<call, next, util, assigned, sched>>

assign_cpu_Overwrite(n, c) ==
  /\ assigned' = [assigned EXCEPT ![next] = IF c = NoCpu THEN @ ELSE <<n, c>>]
  /\ util' = [p \in Places |-> IF p = <<n, c>> THEN utilization(tasks[next]) ELSE util[p]]
  /\ next' = next + 1
  /\ UNCHANGED <<call, tasks, outcome, sched>>

\* assign_cpu_to_task when a CPU was found; otherwise the task is skipped with
\* a warning.  Either way the loop goes on.
assign_cpu(n, c) ==
  /\ assigned' = [assigned EXCEPT ![next] = IF c = NoCpu THEN @ ELSE <<n, c>>]
  /\ util' = [p \in Places |-> IF p = <<n, c>> THEN util[p] + utilization(tasks[next])
                                               ELSE util[p]]
  /\ next' = next + 1
  /\ UNCHANGED <<call, tasks, outcome, sched>>

Placing(a) == outcome = "placing" /\ algorithm = a /\ next <= Len(tasks)

\* The errors of one iteration before a CPU is looked for.
TargetRefused(t) ==
  \/ ~named /\ Fail("MissingWorkloadId")
  \/ named /\ t.target = NoNode /\ Fail("MissingTargetNode")
  \/ named /\ t.target # NoNode /\ ~Admitted(t, t.target) /\ Fail("AdmissionRejected")

\* One iteration of schedule_target_node_priority.
TargetNodePriority ==
  /\ Placing("target_node_priority")
  /\ LET t == tasks[next] IN
       \/ TargetRefused(t)
       \/ /\ named /\ Admitted(t, t.target)
          /\ \E c \in Cpus[t.target] : find_best_cpu(t, t.target, c) /\ assign_cpu(t.target, c)
       \/ named /\ Admitted(t, t.target) /\ ~HasCpu(t, t.target) /\ Fail("AdmissionRejected")

\* One iteration of schedule_least_loaded.
LeastLoaded ==
  /\ Placing("least_loaded")
  /\ LET t == tasks[next] IN
       \/ \E n \in Nodes : /\ least_loaded(t, n)
                           /\ \E c \in Cpus[n] \cup {NoCpu} :
                                find_best_cpu(t, n, c) /\ assign_cpu(n, c)
       \/ (\A n \in Nodes : ~Eligible(t, n)) /\ Fail("NoSchedulableNode")

\* One iteration of schedule_best_fit_decreasing.
BestFitDecreasing ==
  /\ Placing("best_fit_decreasing")
  /\ LET t == tasks[next] IN
       \/ \E n \in Nodes : /\ best_fit(t, n)
                           /\ \E c \in Cpus[n] \cup {NoCpu} :
                                find_best_cpu(t, n, c) /\ assign_cpu(n, c)
       \/ /\ ~HintWorks(t) /\ \A n \in Nodes : ~BestFitCandidate(t, n)
          /\ Fail("NoSchedulableNode")

\* The loop is over: build_sched_map and return Ok.
Finish ==
  /\ outcome = "placing" /\ next > Len(tasks)
  /\ outcome' = "ok"
  /\ sched' = build_sched_map(assigned)
  /\ UNCHANGED <<call, tasks, next, util, assigned>>

Next == Refuse \/ Begin \/ TargetNodePriority \/ LeastLoaded \/ BestFitDecreasing \/ Finish

Spec == Init /\ [][Next]_vars

---------------------------------------------------------------------------
(* Properties.                                                             *)

\* Type invariant of one schedule() call: at most one assignment per task, to
\* a configured CPU.
TypeOK ==
  /\ algorithm \in Algorithms \cup {"other"}
  /\ named \in BOOLEAN
  /\ loaded \in BOOLEAN
  /\ tasks \in Seq(TaskSpace)
  /\ next \in 1..(Len(tasks) + 1)
  /\ util \in [Places -> Nat]
  /\ assigned \in [1..Len(tasks) -> Places \cup {Unassigned}]
  /\ outcome \in {"called", "placing", "ok"} \cup Errors

\* No CPU is ever booked beyond CPU_UTILIZATION_THRESHOLD, whichever algorithm
\* runs and however many tasks share the CPU.
NoCpuOverloaded == \A p \in Places : util[p] <= CPU_UTILIZATION_THRESHOLD

\* The utilisation booked on a CPU is exactly the sum over the tasks assigned
\* to it: assign_cpu_to_task loses and double-counts nothing.
UtilIsTheSumOfTasks ==
  \A p \in Places :
    util[p] = SumFunctionOnSet(TaskUtilization, {k \in DOMAIN assigned : assigned[k] = p})

\* An Ok answer schedules the whole workload: every task is in the list of the
\* node it was assigned to.  The "skipping" branches and the silent drop of
\* build_sched_map never lose a task.
OkSchedulesEveryTask ==
  outcome = "ok" =>
    \A k \in 1..Len(tasks) : /\ assigned[k] \in Places
                             /\ assigned[k][1] \in DOMAIN sched
                             /\ k \in sched[assigned[k][1]]

\* target_node_priority never moves a task to another node than the one the
\* workload asked for.
TargetIsHonoured ==
  algorithm = "target_node_priority" =>
    \A k \in 1..Len(tasks) : assigned[k] # Unassigned => assigned[k][1] = tasks[k].target

\* The CPU chosen was the preferred one, and later placements never open a
\* better one: the pinned CPU of a task placed elsewhere has no room for it,
\* and neither has any CPU above one that was chosen by packing.
NoBetterCpu ==
  \A k \in 1..Len(tasks) : assigned[k] # Unassigned =>
    LET n == assigned[k][1]
        c == assigned[k][2]
        Full(d) == util[<<n, d>>] + utilization(tasks[k]) > CPU_UTILIZATION_THRESHOLD
    IN  /\ \A p \in Cpus[n] : Pins(tasks[k], p) /\ c # p => Full(p)
        /\ ~Pins(tasks[k], c) => \A d \in Cpus[n] : d > c => Full(d)

\* Greedy balance: while no CPU limit can be met (the whole workload would fit
\* on one CPU), least_loaded keeps any two nodes within one task of each other.
LeastLoadedBalances ==
  /\ algorithm = "least_loaded"
  /\ \A k \in DOMAIN tasks : tasks[k].affinity = {}
  /\ SumFunction(TaskUtilization) <= CPU_UTILIZATION_THRESHOLD
  => \A m, n \in Nodes : Cpus[m] # {} /\ Cpus[n] # {} =>
       \/ calculate_node_utilization(m) <= calculate_node_utilization(n)
       \/ \E k \in DOMAIN tasks :
            calculate_node_utilization(m) <= calculate_node_utilization(n) + utilization(tasks[k])

---------------------------------------------------------------------------
(* The inductive invariant of the proofs.                                  *)

\* The tasks before the current one are placed, the others are not.
PlacedInOrder ==
  /\ outcome \in {"placing", "ok"} => \A k \in 1..(next - 1) : assigned[k] \in Places
  /\ \A k \in next..Len(tasks) : assigned[k] = Unassigned
  /\ outcome = "called" => next = 1
  /\ outcome = "ok" => next = Len(tasks) + 1 /\ sched = build_sched_map(assigned)

IInv == TypeOK /\ NoCpuOverloaded /\ TargetIsHonoured /\ NoBetterCpu /\ PlacedInOrder
=============================================================================
