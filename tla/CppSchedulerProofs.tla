------------------------- MODULE CppSchedulerProofs -------------------------
(***************************************************************************)
(* Proofs about both global schedulers serving the same request            *)
(***************************************************************************)
EXTENDS ScheduleWire, GlobalSchedulerProofs

\* The three parts take turns: what is proved about a call of the Rust
\* scheduler holds of the whole system.
LEMMA RustRunsAlone == AllSpec => Spec
<1>1. WireInit => Init
  BY Zenon DEF WireInit, CppInit
<1>2. ASSUME [AllNext]_allVars PROVE [Next]_vars
  <2>1. CASE CppNext
    BY <2>1, Zenon DEF CppNext, AddSchedInfoEnds, AddSchedInfo, schedule_with_target_node_priority,
               schedule_with_least_loaded, schedule_with_best_fit_decreasing, AddSchedInfoReturns
  <2>2. CASE WireNext
    <3>1. CASE SerializeSchedInfo \/ SerializeTask \/ SerializeEnd \/ get_sched_info \/ DecodeTask \/ DecodeEnd
      BY <3>1, Zenon DEF SerializeSchedInfo, SerializeTask, SerializeEnd, get_sched_info, DecodeTask, DecodeEnd
    <3>2. CASE \E n \in Nodes : init_task_list(n) \/ init_apex_list(n)
      BY <3>2 DEF init_task_list, init_apex_list
    <3> QED  BY <2>2, <3>1, <3>2, Zenon DEF WireNext
  <2> QED  BY <1>2, <2>1, <2>2 DEF AllNext, allVars
<1> QED  BY <1>1, <1>2, PTL DEF AllSpec, Spec

\* The inductive invariant of the Rust scheduler, and its books, in the whole system.
LEMMA RustInvariance == AllSpec => [](IInv /\ UtilIsTheSumOfTasks)
BY RustRunsAlone, Invariance, BooksBalance, PTL

---------------------------------------------------------------------------
(* The Rust scheduler, task by task                                        *)

\* What was booked before task k depends on the tasks before it only.
LEMMA BookedBeforeIsKept ==
  ASSUME NEW k, NEW p, tasks' = tasks, \A j \in 1..(k - 1) : assigned'[j] = assigned[j]
  PROVE  BookedBefore(k, p)' = BookedBefore(k, p)
<1>1. TaskUtilization' = TaskUtilization
  BY DEF TaskUtilization, utilization
<1>2. {j \in 1..(k - 1) : assigned'[j] = p} = {j \in 1..(k - 1) : assigned[j] = p}
  OBVIOUS
<1> QED  BY <1>1, <1>2 DEF BookedBefore

\* When the scheduler comes to a task, all that is booked was booked before.
LEMMA BookedBeforeIsUtil ==
  ASSUME IInv, UtilIsTheSumOfTasks, next \in 1..Len(tasks), NEW p \in Places
  PROVE  BookedBefore(next, p) = util[p]
<1>1. {j \in DOMAIN assigned : assigned[j] = p} = {j \in 1..(next - 1) : assigned[j] = p}
  <2>1. DOMAIN assigned = 1..Len(tasks) /\ \A j \in next..Len(tasks) : assigned[j] # p
    BY AssignedOrNot DEF IInv, TypeOK, PlacedInOrder
  <2> QED  BY <2>1 DEF IInv, TypeOK
<1> QED  BY <1>1 DEF BookedBefore, UtilIsTheSumOfTasks

\* target_node_priority leaves the tasks in the order of the request.
LEMMA BeginKeepsTheOrder ==
  ASSUME IInv, Begin, algorithm = "target_node_priority"
  PROVE  tasks' = tasks
<1>1. tasks = [k \in 1..Len(tasks) |-> tasks[k]]
  BY DEF IInv, TypeOK
<1>2. PICK p \in [1..Len(tasks) -> 1..Len(tasks)] :
        Order(p) /\ tasks' = [k \in 1..Len(tasks) |-> tasks[p[k]]]
  BY DEF Begin
<1>3. \A k \in 1..Len(tasks) : p[k] = k
  BY <1>2 DEF Order
<1> QED  BY <1>1, <1>2, <1>3

\* A placement of target_node_priority is the preferred one among the CPUs with
\* room, and leaves the earlier ones what they are.
LEMMA PlacementIsChosen ==
  ASSUME IInv, UtilIsTheSumOfTasks, ChosenInOrder, named,
         next \in 1..Len(tasks), NEW n \in Nodes, NEW c \in Cpus[n], n = tasks[next].target,
         Fits(tasks[next], n, c), find_best_cpu(tasks[next], n, c), assign_cpu(n, c)
  PROVE  ChosenInOrder'
<1> DEFINE t == tasks[next]
<1>1. /\ UNCHANGED <<named, tasks>> /\ c # NoCpu /\ DOMAIN assigned = 1..Len(tasks)
      /\ next \in Nat /\ Len(tasks) \in Nat /\ t \in TaskSpace
  <2>1. Cpus[n] \subseteq Nat
    BY ConfigAssumption
  <2> QED  BY <2>1 DEF assign_cpu, call, NoCpu, IInv, TypeOK
<1>2. assigned' = [assigned EXCEPT ![next] = <<n, c>>]
  BY <1>1 DEF assign_cpu
<1>3. \A k \in 1..next : \A q : BookedBefore(k, q)' = BookedBefore(k, q)
  <2> SUFFICES ASSUME NEW k \in 1..next, NEW q PROVE BookedBefore(k, q)' = BookedBefore(k, q)
    OBVIOUS
  <2>1. \A j \in 1..(k - 1) : assigned'[j] = assigned[j]
    BY <1>1, <1>2
  <2> QED  BY <1>1, <2>1, BookedBeforeIsKept
<1>4. \A k \in 1..next : \A m, d : RoomBefore(k, m, d)' = RoomBefore(k, m, d)
  BY <1>1, <1>3, ZenonT(60) DEF RoomBefore, utilization
<1>5. \A d : RoomBefore(next, n, d) <=> Fits(t, n, d)
  <2>1. \A d \in Cpus[n] : <<n, d>> \in Places
    BY Zenon DEF Places
  <2> QED  BY <2>1, BookedBeforeIsUtil, Zenon DEF RoomBefore, Fits
<1>6. \A k \in 1..next : \A m, d : WasBest(k, m, d)' = WasBest(k, m, d)
  BY <1>1, <1>4 DEF WasBest, Pins
<1>7. WasBest(next, n, c)
  <2>1. HasCpu(t, n) /\ c \in Cpus[n] \cup {NoCpu}
    BY Zenon DEF HasCpu
  <2>2. /\ \A p \in Cpus[n] : Pins(t, p) /\ c # p => ~Fits(t, n, p)
        /\ ~Pins(t, c) => \A d \in Cpus[n] : d > c => ~Fits(t, n, d)
    BY <1>1, <2>1, BestCpuFits, ZenonT(60)
  <2>3. Cpus[n] \subseteq Nat
    BY ConfigAssumption
  <2> QED  BY <1>5, <2>2, <2>3 DEF WasBest
<1> SUFFICES ASSUME NEW k \in 1..Len(tasks), assigned'[k] # Unassigned
             PROVE  assigned'[k][1] = tasks[k].target /\ WasBest(k, assigned[k][1], assigned[k][2])'
  BY <1>1, Zenon DEF ChosenInOrder
<1>8. CASE k = next
  BY <1>1, <1>2, <1>6, <1>7, <1>8
<1>9. CASE k < next
  <2>1. assigned'[k] = assigned[k] /\ assigned[k] # Unassigned /\ k \in 1..next
    BY <1>1, <1>2, <1>9
  <2>2. assigned[k][1] = tasks[k].target /\ WasBest(k, assigned[k][1], assigned[k][2])
    BY <2>1, Zenon DEF ChosenInOrder
  <2> QED  BY <1>6, <2>1, <2>2
<1>10. CASE k > next
  <2>1. assigned'[k] = Unassigned
    BY <1>1, <1>2, <1>10 DEF IInv, TypeOK, PlacedInOrder
  <2> QED  BY <2>1, Zenon
<1> QED  BY <1>1, <1>8, <1>9, <1>10

\* What was chosen stays chosen while tasks and assignments stay.
LEMMA ChosenIsKept ==
  ASSUME UNCHANGED <<named, tasks, assigned>>
  PROVE  ChosenInOrder' = ChosenInOrder
<1>1. \A k : \A q : BookedBefore(k, q)' = BookedBefore(k, q)
  BY BookedBeforeIsKept
<1>2. \A k : \A m, d : RoomBefore(k, m, d)' = RoomBefore(k, m, d)
  BY <1>1 DEF RoomBefore, utilization
<1>3. \A k : \A m, d : WasBest(k, m, d)' = WasBest(k, m, d)
  BY <1>2 DEF WasBest, Pins
<1> QED  BY <1>3 DEF ChosenInOrder

---------------------------------------------------------------------------
(* The C++ scheduler                                                       *)

\* A finite set of integers that is not empty has a maximum.
LEMMA HasMaximum ==
  ASSUME NEW S, IsFiniteSet(S)
  PROVE  S \subseteq Int /\ S # {} => \E x \in S : \A y \in S : y <= x
<1> DEFINE HasMax(s) == \E x \in s : \A y \in s : y <= x
           Bad == {s \in SUBSET S : s \subseteq Int /\ s # {} /\ ~HasMax(s)}
<1>1. Bad = {}
  <2> SUFFICES ASSUME Bad # {} PROVE FALSE
    OBVIOUS
  <2>1. Bad \subseteq SUBSET S
    OBVIOUS
  <2>2. PICK s \in Bad : \A u \in Bad : u \subseteq s => u = s
    <3> HIDE DEF Bad
    <3> QED  BY <2>1, MinimalSubset
  <2>3. /\ s \in SUBSET S /\ s \subseteq Int /\ s # {} /\ ~HasMax(s)
        /\ \A u \in SUBSET s : u # s /\ u # {} => HasMax(u)
    BY <2>2
  <2>4. PICK x \in s : TRUE
    BY <2>3, Zenon
  <2>5. s \ {x} # {}
    BY <2>3
  <2>6. PICK z \in s \ {x} : \A y \in s \ {x} : y <= z
    BY <2>3, <2>5, Zenon
  <2> QED  BY <2>3, <2>6
<1>2. S \subseteq Int /\ S # {} => HasMax(S)
  BY <1>1
<1> QED  BY <1>2

\* Max of the library is that maximum.
LEMMA MaxIsMax ==
  ASSUME NEW S, IsFiniteSet(S), S \subseteq Int, S # {}
  PROVE  Max(S) \in S /\ \A y \in S : y <= Max(S)
<1>1. PICK x \in S : \A y \in S : y <= x
  BY HasMaximum, Zenon
<1>2. \E x1 \in S : \A y \in S : x1 >= y
  BY <1>1
<1> QED  BY <1>2, Zenon DEF Max

\* For masks of one CPU, the CPU in the affinity string is the lowest set bit
\* that the Rust port takes.
LEMMA PinnedIsPin ==
  ASSUME NEW t \in TaskSpace, Cardinality(t.affinity) <= 1, t.affinity \subseteq 0..(MaskBits - 1),
         NEW c \in Nat
  PROVE  PinnedCpu(t.affinity) = c <=> Pins(t, c)
<1> DEFINE mask == t.affinity
<1>1. IsFiniteSet(mask) /\ mask \cap 0..(MaskBits - 1) = mask /\ MaskBits \in Nat \ {0, 1}
  BY TaskAssumption, CppConfigAssumption
<1>2. CASE mask = {}
  BY <1>2 DEF PinnedCpu, Pins, NoCpu
<1>3. CASE mask # {}
  <2>1. PICK x \in mask : TRUE
    BY <1>3
  <2>2. IsFiniteSet({x}) /\ Cardinality({x}) = 1 /\ {x} \subseteq mask
    BY FS_Singleton, Zenon
  <2>3. mask = {x}
    <3>1. Cardinality({x}) <= Cardinality(mask) /\ (Cardinality({x}) = Cardinality(mask) => {x} = mask)
      BY <1>1, <2>2, FS_Subset
    <3>2. Cardinality(mask) \in Nat
      BY <1>1, FS_CardinalityType
    <3> QED  BY <2>2, <3>1, <3>2
  <2>4. x \in Nat /\ mask # 0..(MaskBits - 1)
    <3>1. 0 \in 0..(MaskBits - 1) /\ 1 \in 0..(MaskBits - 1) /\ x \in 0..(MaskBits - 1)
      BY <1>1
    <3> QED  BY <2>3, <3>1
  <2>5. Max(mask) = x
    BY <2>3, <2>4 DEF Max
  <2>6. PinnedCpu(mask) = x
    BY <1>1, <1>3, <2>4, <2>5, Zenon DEF PinnedCpu
  <2> QED  BY <2>3, <2>4, <2>6 DEF Pins
<1> QED  BY <1>2, <1>3

\* The affinity string of any mask is a CPU or NoCpu.
LEMMA PinnedIsInt ==
  ASSUME NEW mask \in SUBSET Nat
  PROVE  PinnedCpu(mask) \in Int
<1> DEFINE low == mask \cap 0..(MaskBits - 1)
<1>1. IsFiniteSet(0..(MaskBits - 1))
  <2>1. 0 \in Int /\ MaskBits - 1 \in Int
    BY CppConfigAssumption
  <2> QED  BY <2>1, FS_Interval, Zenon
<1>2. IsFiniteSet(low) /\ low \in SUBSET Int
  <2>1. low \subseteq 0..(MaskBits - 1)
    OBVIOUS
  <2>2. low \in SUBSET Int
    OBVIOUS
  <2> HIDE DEF low
  <2> QED  BY <1>1, <2>1, <2>2, FS_Subset, Zenon
<1>3. low # {} => Max(low) \in Int
  <2> HIDE DEF low
  <2> QED  BY <1>2, MaxIsMax, Zenon
<1> QED  BY <1>3 DEF PinnedCpu, NoCpu

\* What is needed of the tasks of the C++ scheduler.
LEMMA LoopFacts ==
  ASSUME Requested, LoopInv
  PROVE  /\ DOMAIN tasks_ = 1..Len(given) /\ DOMAIN given = 1..Len(given) /\ Len(given) \in Nat
         /\ IsFiniteSet(1..Len(given))
         /\ \A k \in 1..Len(given) :
              /\ given[k] \in TaskSpace /\ utilization(given[k]) \in Nat
              /\ utilization(tasks_[k]) = utilization(given[k])
              /\ CppTaskUtilization[k] = utilization(given[k])
              /\ tasks_[k].target = given[k].target /\ tasks_[k].affinity = PinnedCpu(given[k].affinity)
              /\ tasks_[k].id = k
<1>1. /\ DOMAIN tasks_ = 1..Len(given) /\ DOMAIN given = 1..Len(given) /\ Len(given) \in Nat
      /\ \A k \in 1..Len(given) : given[k] \in TaskSpace
  <2>1. given \in Seq(TaskSpace) /\ tasks_ \in Seq(CppTasks) /\ Len(tasks_) = Len(given)
    BY Zenon DEF Requested, LoopInv
  <2> QED  BY <2>1
<1>2. IsFiniteSet(1..Len(given))
  BY <1>1, FS_Interval
<1> SUFFICES ASSUME NEW k \in 1..Len(given)
             PROVE  /\ utilization(given[k]) \in Nat
                    /\ utilization(tasks_[k]) = utilization(given[k])
                    /\ CppTaskUtilization[k] = utilization(given[k])
                    /\ tasks_[k].target = given[k].target /\ tasks_[k].affinity = PinnedCpu(given[k].affinity)
                    /\ tasks_[k].id = k
  BY <1>1, <1>2, Zenon
<1>3. tasks_[k] = CppTask(k, tasks_[k].node, tasks_[k].cpu)
  BY <1>1, Zenon DEF LoopInv, PlacedOnTarget
<1>4. /\ tasks_[k].runtime = given[k].runtime /\ tasks_[k].period = given[k].period
      /\ tasks_[k].target = given[k].target /\ tasks_[k].affinity = PinnedCpu(given[k].affinity)
      /\ tasks_[k].id = k
  BY <1>3 DEF CppTask
<1> QED  BY <1>1, <1>4, UtilizationIsNat, ZenonT(60) DEF utilization, CppTaskUtilization

\* find_best_cpu_for_task of the C++ scheduler returns a CPU with room, if any.
LEMMA CppBestFits ==
  ASSUME NEW n \in Nodes, available_cpus_per_node_ = CpuOrder,
         cpu_utilization_per_node_ \in [Places -> Nat], NEW t, NEW r, r = find_best_cpu_for_task(t, n),
         r # NoCpu
  PROVE  /\ r \in Cpus[n] /\ <<n, r>> \in Places
         /\ cpu_utilization_per_node_[<<n, r>>] + utilization(t) <= CPU_UTILIZATION_THRESHOLD
<1> DEFINE fits == {c \in Free(n) : cpu_utilization_per_node_[<<n, c>>] + utilization(t)
                                      <= CPU_UTILIZATION_THRESHOLD}
<1>1. Free(n) = Cpus[n] /\ IsFiniteSet(Cpus[n]) /\ Cpus[n] \subseteq Nat
  BY CppConfigAssumption, ConfigAssumption, ZenonT(60) DEF Free
<1>2. IsFiniteSet(fits) /\ fits \in SUBSET Int /\ fits \subseteq Cpus[n]
  <2>1. fits \subseteq Cpus[n] /\ Cpus[n] \subseteq Int
    BY <1>1
  <2> HIDE DEF fits
  <2> QED  BY <1>1, <2>1, FS_Subset, Zenon
<1>3. r \in fits
  <2>1. r = IF t.affinity \in fits THEN t.affinity ELSE IF fits = {} THEN NoCpu ELSE Max(fits)
    BY Zenon DEF find_best_cpu_for_task
  <2> HIDE DEF fits
  <2> QED  BY <1>2, <2>1, MaxIsMax, Zenon
<1> QED  BY <1>1, <1>3, ZenonT(60) DEF Places

\* For masks of one CPU, a task that the Rust port placed gets the same CPU
\* from the C++ scheduler, once the tasks before it have theirs.
LEMMA CppChoosesAlike ==
  ASSUME IInv, Requested, RustInv, LoopInv, algorithm = "target_node_priority", outcome = "ok", OneCpuMasks,
         pos <= Len(given)
  PROVE  LET t == tasks_[pos] IN
         /\ workload_id # "" /\ t.target \in Nodes /\ Free(t.target) # {}
         /\ assigned[pos] = <<t.target, find_best_cpu_for_task(t, t.target)>>
<1> DEFINE t == tasks_[pos]
           n == assigned[pos][1]
           c == assigned[pos][2]
<1>1. /\ pos \in 1..Len(given) /\ pos \in Nat /\ tasks = given
      /\ DOMAIN tasks_ = 1..Len(given) /\ IsFiniteSet(1..Len(given)) /\ Len(given) \in Nat
      /\ given[pos] \in TaskSpace /\ DOMAIN given = 1..Len(given)
      /\ t.target = given[pos].target /\ t.affinity = PinnedCpu(given[pos].affinity)
      /\ utilization(t) = utilization(given[pos]) /\ utilization(given[pos]) \in Nat
  <2>1. /\ DOMAIN tasks_ = 1..Len(given) /\ IsFiniteSet(1..Len(given)) /\ Len(given) \in Nat
        /\ DOMAIN given = 1..Len(given)
    BY LoopFacts, ZenonT(60)
  <2>2. pos \in 1..Len(given) /\ pos \in Nat /\ tasks = given
    <3>1. pos \in 1..(Len(given) + 1)
      BY Zenon DEF LoopInv
    <3>2. tasks = given
      BY Zenon DEF RustInv
    <3> QED  BY <2>1, <3>1, <3>2
  <2> QED  BY <2>1, <2>2, LoopFacts, ZenonT(60)
<1>2. assigned[pos] \in Places /\ DOMAIN assigned = 1..Len(given)
  BY <1>1 DEF IInv, TypeOK, PlacedInOrder
<1>3. assigned[pos] = <<n, c>> /\ assigned[pos] # Unassigned /\ n \in Nodes /\ c \in Cpus[n] /\ c \in Nat
  BY <1>2, AssignedOrNot, Zenon
<1>4. named /\ n = t.target /\ WasBest(pos, n, c)
  BY <1>1, <1>3, ZenonT(60) DEF RustInv, ChosenInOrder
<1>5. Free(n) = Cpus[n] /\ Cpus[n] \subseteq Nat /\ IsFiniteSet(Cpus[n])
  BY <1>3, CppConfigAssumption, ConfigAssumption, Zenon DEF Free, LoopInv
<1>6. ASSUME NEW d \in Cpus[n]
      PROVE  BookedBefore(pos, <<n, d>>) = cpu_utilization_per_node_[<<n, d>>]
  <2> DEFINE S == {j \in 1..(pos - 1) : assigned[j] = <<n, d>>}
             T == {k \in Placed : <<tasks_[k].node, tasks_[k].cpu>> = <<n, d>>}
  <2>1. <<n, d>> \in Places /\ d # NoCpu
    BY <1>3, <1>5 DEF Places, NoCpu
  <2>2. cpu_utilization_per_node_[<<n, d>>] = SumFunctionOnSet(CppTaskUtilization, T)
    BY <2>1, Zenon DEF LoopInv, Books
  <2>3. S = T
    <3>1. \A k \in 1..(pos - 1) : <<tasks_[k].node, tasks_[k].cpu>> = assigned[k]
      BY Zenon DEF LoopInv
    <3>2. \A k \in 1..Len(given) : k >= pos => tasks_[k].cpu = NoCpu
      BY <1>1, Zenon DEF LoopInv, PlacedOnTarget
    <3> QED  BY <1>1, <2>1, <3>1, <3>2 DEF Placed
  <2>4. IsFiniteSet(S) /\ S \subseteq 1..Len(given)
    <3>1. S \subseteq 1..Len(given)
      BY <1>1
    <3> HIDE DEF S
    <3> QED  BY <1>1, <3>1, FS_Subset, Zenon
  <2>5. \A k \in S : TaskUtilization[k] = CppTaskUtilization[k]
    <3>1. \A k \in 1..Len(given) : TaskUtilization[k] = utilization(given[k])
      BY <1>1, Zenon DEF TaskUtilization
    <3>2. \A k \in 1..Len(given) : CppTaskUtilization[k] = utilization(given[k])
      BY LoopFacts, Zenon
    <3> HIDE DEF S
    <3> QED  BY <2>4, <3>1, <3>2, Zenon
  <2>6. SumFunctionOnSet(TaskUtilization, S) = SumFunctionOnSet(CppTaskUtilization, S)
    <3> HIDE DEF S
    <3> QED  BY <2>4, <2>5, SumSame, Zenon
  <2> QED  BY <2>2, <2>3, <2>6, Zenon DEF BookedBefore
<1> DEFINE fits == {d \in Free(n) : cpu_utilization_per_node_[<<n, d>>] + utilization(t)
                                      <= CPU_UTILIZATION_THRESHOLD}
<1>7. \A d : d \in fits <=> RoomBefore(pos, n, d)
  BY <1>1, <1>5, <1>6, Zenon DEF RoomBefore
<1>8. IsFiniteSet(fits) /\ fits \subseteq Int /\ c \in fits
  <2>1. fits \subseteq Cpus[n] /\ c \in fits
    BY <1>4, <1>5, <1>7, Zenon DEF WasBest
  <2> HIDE DEF fits
  <2> QED  BY <1>5, <2>1, FS_Subset
<1>9. Max(fits) \in fits /\ \A y \in fits : y <= Max(fits)
  <2> HIDE DEF fits
  <2> QED  BY <1>8, MaxIsMax, Zenon
<1>10. \A d \in Nat : t.affinity = d <=> Pins(given[pos], d)
  <2>1. Cardinality(given[pos].affinity) <= 1 /\ given[pos].affinity \subseteq 0..(MaskBits - 1)
    BY <1>1, Zenon DEF OneCpuMasks
  <2> QED  BY <1>1, <2>1, PinnedIsPin, Zenon
<1>11. find_best_cpu_for_task(t, n) =
         IF t.affinity \in fits THEN t.affinity ELSE IF fits = {} THEN NoCpu ELSE Max(fits)
  BY Zenon DEF find_best_cpu_for_task
<1> HIDE DEF fits, n, c, t
<1>12. CASE t.affinity \in fits
  <2>1. t.affinity \in Cpus[n] /\ t.affinity \in Nat
    BY <1>5, <1>7, <1>12, Zenon DEF RoomBefore
  <2>2. Pins(tasks[pos], t.affinity) /\ RoomBefore(pos, n, t.affinity)
    BY <1>1, <1>7, <1>10, <1>12, <2>1, Zenon
  <2>3. c = t.affinity
    BY <1>4, <2>1, <2>2, Zenon DEF WasBest
  <2> QED  BY <1>3, <1>4, <1>5, <1>11, <1>12, <2>3, <1>1, Zenon DEF t, Requested
<1>13. CASE t.affinity \notin fits
  <2>1. ~Pins(tasks[pos], c)
    BY <1>1, <1>3, <1>8, <1>10, <1>13, Zenon
  <2>2. Max(fits) <= c
    BY <1>4, <1>5, <1>7, <1>9, <2>1, Zenon DEF WasBest, RoomBefore
  <2>3. Max(fits) = c
    <3>1. Max(fits) \in Int /\ c \in Int /\ c <= Max(fits)
      BY <1>8, <1>9, Zenon
    <3> QED  BY <2>2, <3>1
  <2> QED  BY <1>3, <1>4, <1>5, <1>8, <1>11, <1>13, <2>3, Zenon DEF t, Requested
<1> QED  BY <1>12, <1>13, Zenon

\* Writing the place of a task into the list.
LEMMA PlaceIsWritten ==
  ASSUME Requested, LoopInv, pos <= Len(given), NEW n \in Nat, NEW c \in Int,
         tasks_' = [tasks_ EXCEPT ![pos] = CppTask(@.id, n, c)]
  PROVE  /\ tasks_' \in Seq(CppTasks) /\ Len(tasks_') = Len(given)
         /\ \A k \in 1..Len(given) : k # pos => tasks_'[k] = tasks_[k]
         /\ tasks_'[pos] = CppTask(pos, n, c) /\ tasks_'[pos].node = n /\ tasks_'[pos].cpu = c
<1>1. /\ tasks_ \in Seq(CppTasks) /\ Len(tasks_) = Len(given) /\ Len(given) \in Nat
      /\ DOMAIN tasks_ = 1..Len(given) /\ pos \in 1..Len(given)
  <2>1. pos \in 1..(Len(given) + 1) /\ tasks_ \in Seq(CppTasks) /\ Len(tasks_) = Len(given)
    BY Zenon DEF LoopInv
  <2> QED  BY <2>1
<1>2. tasks_[pos] = CppTask(pos, tasks_[pos].node, tasks_[pos].cpu) /\ tasks_[pos] \in CppTasks
  <2>1. DOMAIN given = 1..Len(given) /\ PlacedOnTarget
    BY LoopFacts, Zenon DEF LoopInv
  <2>2. tasks_[pos] = CppTask(pos, tasks_[pos].node, tasks_[pos].cpu)
    BY <1>1, <2>1, Zenon DEF PlacedOnTarget
  <2>3. tasks_[pos] \in CppTasks
    BY <1>1
  <2> QED  BY <2>2, <2>3
<1>3. \A k \in 1..Len(given) : k # pos => tasks_'[k] = tasks_[k]
  BY <1>1
<1>4. tasks_'[pos] = CppTask(pos, n, c)
  <2>1. tasks_[pos].id = pos
    BY <1>1, LoopFacts, Zenon
  <2> QED  BY <1>1, <2>1
<1>5. CppTask(pos, n, c) \in CppTasks
  BY <1>2 DEF CppTask, CppTasks
<1>6. tasks_' = [k \in 1..Len(given) |-> IF k = pos THEN CppTask(pos, n, c) ELSE tasks_[k]]
  BY <1>1, <1>3, <1>4, Zenon
<1>7. \A k \in 1..Len(given) : (IF k = pos THEN CppTask(pos, n, c) ELSE tasks_[k]) \in CppTasks
  BY <1>1, <1>5
<1>8. tasks_' \in Seq(CppTasks) /\ Len(tasks_') = Len(given)
  <2>1. tasks_' \in [1..Len(given) -> CppTasks]
    BY <1>6, <1>7, Zenon
  <2> QED  BY <1>1, <2>1
<1> QED  BY <1>3, <1>4, <1>8 DEF CppTask

\* One iteration of the target_node_priority loop of the C++ scheduler.
LEMMA TargetStepPreserves ==
  ASSUME IInv, Requested, RustInv, LoopInv, schedule_with_target_node_priority
  PROVE  LoopInv'
<1> DEFINE t == tasks_[pos]
           n == t.target
           c == find_best_cpu_for_task(t, n)
           goes == workload_id # "" /\ n \in Nodes /\ Free(n) # {}
<1>1. /\ UNCHANGED <<algorithm, outcome, assigned, workload_id, given, status, available_cpus_per_node_>>
      /\ status = "placing" /\ algorithm = "target_node_priority"
      /\ pos' = pos + 1
  BY Zenon DEF schedule_with_target_node_priority, CppPlacing, vars, request
<1>2. /\ pos \in 1..Len(given) /\ pos \in Nat /\ Len(given) \in Nat
      /\ DOMAIN tasks_ = 1..Len(given) /\ DOMAIN given = 1..Len(given)
      /\ n = given[pos].target /\ given[pos] \in TaskSpace
      /\ utilization(t) = utilization(given[pos]) /\ utilization(given[pos]) \in Nat
      /\ tasks_ \in Seq(CppTasks) /\ Len(tasks_) = Len(given)
      /\ available_cpus_per_node_ = CpuOrder
  <2>1. /\ pos \in 1..(Len(given) + 1) /\ pos <= Len(tasks_) /\ tasks_ \in Seq(CppTasks)
        /\ Len(tasks_) = Len(given) /\ available_cpus_per_node_ = CpuOrder
    BY Zenon DEF LoopInv, schedule_with_target_node_priority, CppPlacing
  <2>2. Len(given) \in Nat /\ pos \in 1..Len(given) /\ pos \in Nat
    BY <2>1
  <2> QED  BY <2>1, <2>2, LoopFacts, Zenon
<1>3. outcome = "ok" /\ OneCpuMasks => goes /\ assigned[pos] = <<n, c>>
  <2>1. pos <= Len(given)
    BY <1>2
  <2> QED  BY <1>1, <2>1, CppChoosesAlike, Zenon
<1>4. OneCpuMasks' = OneCpuMasks
  BY <1>1, Zenon DEF OneCpuMasks
<1>5. PlacedOnTarget /\ Books
  BY Zenon DEF LoopInv
<1>6. CASE ~goes
  <2>1. UNCHANGED <<tasks_, cpu_utilization_per_node_>>
    BY <1>6, Zenon DEF schedule_with_target_node_priority
  <2>2. PlacedOnTarget'
    BY <1>1, <1>2, <1>5, <2>1 DEF PlacedOnTarget, CppTask
  <2>3. Books'
    BY <1>1, <1>5, <2>1, Zenon DEF Books, CppTaskUtilization, utilization, Placed
  <2>4. ~(outcome = "ok" /\ OneCpuMasks)
    BY <1>3, <1>6, Zenon
  <2> HIDE DEF goes
  <2> QED  BY <1>1, <1>2, <1>4, <2>1, <2>2, <2>3, <2>4 DEF LoopInv
<1>7. CASE goes
  <2>1. assign_task_to_node_cpu(n, c)
    BY <1>7, Zenon DEF schedule_with_target_node_priority
  <2>2. n \in Nat /\ n \in Nodes /\ cpu_utilization_per_node_ \in [Places -> Nat]
    BY <1>2, <1>5, <1>7, ConfigAssumption, Zenon DEF Books
  <2>3. /\ c # NoCpu => /\ c \in Cpus[n] /\ <<n, c>> \in Places
                        /\ cpu_utilization_per_node_[<<n, c>>] + utilization(t) <= CPU_UTILIZATION_THRESHOLD
    <3>1. PICK u : u = t
      BY Zenon
    <3>2. available_cpus_per_node_ = CpuOrder /\ c = find_best_cpu_for_task(u, n)
      BY <1>2, <1>7, <3>1, Zenon
    <3>3. c # NoCpu => /\ c \in Cpus[n] /\ <<n, c>> \in Places
                       /\ cpu_utilization_per_node_[<<n, c>>] + utilization(u) <= CPU_UTILIZATION_THRESHOLD
      BY <2>2, <3>2, CppBestFits, Zenon
    <3> QED  BY <3>1, <3>3, Zenon
  <2>4. c \in Int
    <3>1. Cpus[n] \subseteq Nat
      BY <2>2, ConfigAssumption, Zenon
    <3> QED  BY <2>3, <3>1 DEF NoCpu
  <2> HIDE DEF c, goes
  <2>5. /\ tasks_' \in Seq(CppTasks) /\ Len(tasks_') = Len(given)
        /\ \A k \in 1..Len(given) : k # pos => tasks_'[k] = tasks_[k]
        /\ tasks_'[pos] = CppTask(pos, n, c) /\ tasks_'[pos].node = n /\ tasks_'[pos].cpu = c
    <3>1. tasks_' = [tasks_ EXCEPT ![pos] = CppTask(@.id, n, c)] /\ pos <= Len(given)
      BY <1>2, <2>1 DEF assign_task_to_node_cpu
    <3> HIDE DEF n, t
    <3> QED  BY <2>2, <2>4, <3>1, PlaceIsWritten, Zenon
  <2> HIDE DEF n
  <2>6. tasks_[pos].cpu = NoCpu /\ tasks_[pos].node = NoNode
    <3>1. pos \in DOMAIN given /\ pos >= pos
      BY <1>2
    <3> QED  BY <1>5, <3>1, Zenon DEF PlacedOnTarget
  <2>7. PlacedOnTarget'
    <3> SUFFICES ASSUME NEW k \in 1..Len(given)
                 PROVE  /\ tasks_'[k] = CppTask(k, tasks_'[k].node, tasks_'[k].cpu)
                        /\ tasks_'[k].node \in {NoNode, given[k].target}
                        /\ k >= pos + 1 => tasks_'[k].node = NoNode /\ tasks_'[k].cpu = NoCpu
                        /\ tasks_'[k].cpu # NoCpu => <<tasks_'[k].node, tasks_'[k].cpu>> \in Places
      BY <1>1, <1>2, Zenon DEF PlacedOnTarget, CppTask
    <3>1. CASE k = pos
      <4>1. ~(pos >= pos + 1)
        BY <1>2
      <4> HIDE DEF t
      <4> QED  BY <1>2, <2>3, <2>5, <3>1, <4>1, Zenon
    <3>2. CASE k # pos
      <4>1. tasks_'[k] = tasks_[k]
        BY <2>5, <3>2, Zenon
      <4>2. /\ tasks_[k] = CppTask(k, tasks_[k].node, tasks_[k].cpu)
            /\ tasks_[k].node \in {NoNode, given[k].target}
            /\ k >= pos => tasks_[k].node = NoNode /\ tasks_[k].cpu = NoCpu
            /\ tasks_[k].cpu # NoCpu => <<tasks_[k].node, tasks_[k].cpu>> \in Places
        BY <1>2, <1>5, Zenon DEF PlacedOnTarget
      <4>3. k >= pos + 1 => k >= pos
        BY <1>2
      <4> QED  BY <4>1, <4>2, <4>3, Zenon
    <3> QED  BY <3>1, <3>2, Zenon
  <2>8. /\ DOMAIN CppTaskUtilization = 1..Len(given) /\ DOMAIN CppTaskUtilization' = 1..Len(given)
        /\ \A k \in 1..Len(given) : /\ CppTaskUtilization'[k] = utilization(given[k])
                                    /\ CppTaskUtilization[k] = utilization(given[k])
                                    /\ utilization(given[k]) \in Nat
    <3>1. DOMAIN tasks_' = 1..Len(given)
      BY <1>2, <2>5
    <3>2. \A k \in 1..Len(given) : utilization(tasks_'[k]) = utilization(given[k])
      <4>1. utilization(CppTask(pos, n, c)) = utilization(given[pos])
        BY Zenon DEF utilization, CppTask
      <4> QED  BY <2>5, <4>1, LoopFacts, Zenon
    <3>3. CppTaskUtilization' = [k \in DOMAIN tasks_' |-> utilization(tasks_'[k])]
      BY Zenon DEF CppTaskUtilization
    <3> QED  BY <1>2, <3>1, <3>2, <3>3, LoopFacts, ZenonT(60) DEF CppTaskUtilization
  <2>9. Books'
    <3> DEFINE S(p) == {k \in Placed : <<tasks_[k].node, tasks_[k].cpu>> = p}
               T(p) == {k \in Placed' : <<tasks_'[k].node, tasks_'[k].cpu>> = p}
               u == CppTaskUtilization
               v == CppTaskUtilization'
    <3>1. /\ Placed = {k \in 1..Len(given) : tasks_[k].cpu # NoCpu}
          /\ Placed' = {k \in 1..Len(given) : tasks_'[k].cpu # NoCpu}
      BY <1>2, <2>5 DEF Placed
    <3>2. ASSUME NEW p \in Places
          PROVE  /\ IsFiniteSet(S(p)) /\ IsFiniteSet(T(p)) /\ pos \notin S(p)
                 /\ S(p) \subseteq 1..Len(given) /\ T(p) \subseteq 1..Len(given)
                 /\ c # NoCpu /\ p = <<n, c>> => T(p) = S(p) \cup {pos}
                 /\ c = NoCpu \/ p # <<n, c>> => T(p) = S(p)
      <4>1. S(p) \subseteq 1..Len(given) /\ T(p) \subseteq 1..Len(given)
        BY <3>1, Zenon
      <4>2. IsFiniteSet(S(p)) /\ IsFiniteSet(T(p))
        <5> DEFINE A == S(p)
                   B == T(p)
        <5>1. A \subseteq 1..Len(given) /\ B \subseteq 1..Len(given)
          BY <4>1, Zenon
        <5> HIDE DEF A, B
        <5>2. IsFiniteSet(A) /\ IsFiniteSet(B)
          BY <5>1, LoopFacts, FS_Subset, Zenon
        <5> QED  BY <5>2, Zenon DEF A, B
      <4>3. pos \notin S(p)
        BY <2>6, <3>1, Zenon
      <4>4. c # NoCpu /\ p = <<n, c>> => T(p) = S(p) \cup {pos}
        BY <1>2, <2>5, <2>6, <3>1, ZenonT(60)
      <4>5. c = NoCpu \/ p # <<n, c>> => T(p) = S(p)
        BY <1>2, <2>5, <2>6, <3>1, Zenon
      <4> QED  BY <4>1, <4>2, <4>3, <4>4, <4>5, Zenon
    <3>3. ASSUME NEW p \in Places
          PROVE  /\ cpu_utilization_per_node_[p] = SumFunctionOnSet(u, S(p))
                 /\ cpu_utilization_per_node_[p] \in Nat
                 /\ cpu_utilization_per_node_[p] <= CPU_UTILIZATION_THRESHOLD
      BY <1>5, Zenon DEF Books
    <3>4. cpu_utilization_per_node_' =
            IF c = NoCpu THEN cpu_utilization_per_node_
            ELSE [cpu_utilization_per_node_ EXCEPT ![<<n, c>>] = @ + utilization(t)]
      BY <2>1, Zenon DEF assign_task_to_node_cpu
    <3>5. ASSUME NEW p \in Places
          PROVE  /\ cpu_utilization_per_node_'[p] = SumFunctionOnSet(v, T(p))
                 /\ cpu_utilization_per_node_'[p] \in Nat
                 /\ cpu_utilization_per_node_'[p] <= CPU_UTILIZATION_THRESHOLD
      <4> DEFINE A == S(p)
                 B == T(p)
      <4>1. /\ IsFiniteSet(A) /\ IsFiniteSet(B) /\ pos \notin A /\ A \subseteq 1..Len(given) /\ B \subseteq 1..Len(given)
            /\ c # NoCpu /\ p = <<n, c>> => B = A \cup {pos}
            /\ c = NoCpu \/ p # <<n, c>> => B = A
        BY <3>2, Zenon
      <4>2. /\ cpu_utilization_per_node_[p] = SumFunctionOnSet(u, A)
            /\ cpu_utilization_per_node_[p] \in Nat
            /\ cpu_utilization_per_node_[p] <= CPU_UTILIZATION_THRESHOLD
        BY <3>3, Zenon
      <4> HIDE DEF A, B, S, T, u, v, t
      <4>3. SumFunctionOnSet(v, B) = SumFunctionOnSet(u, B)
        <5>1. \A k \in B : v[k] = u[k]
          BY <2>8, <4>1, Zenon DEF u, v
        <5>2. IsFiniteSet(B)
          BY <4>1, Zenon
        <5> QED  BY <5>1, <5>2, SumSame, Zenon
      <4>4. CASE c # NoCpu /\ p = <<n, c>>
        <5>1. \A k \in A \cup {pos} : u[k] \in Nat
          BY <1>2, <2>8, <4>1, Zenon DEF u
        <5>2. SumFunctionOnSet(u, A \cup {pos}) = u[pos] + SumFunctionOnSet(u, A)
          BY <4>1, <5>1, SumAdd, Zenon
        <5>3. u[pos] = utilization(t) /\ utilization(t) \in Nat
          BY <1>2, <2>8, Zenon DEF u
        <5>4. cpu_utilization_per_node_'[p] = cpu_utilization_per_node_[p] + utilization(t)
          BY <2>2, <3>4, <4>4, Zenon
        <5>5. cpu_utilization_per_node_[p] + utilization(t) <= CPU_UTILIZATION_THRESHOLD
          BY <2>3, <4>4, Zenon
        <5>6. SumFunctionOnSet(v, B) = u[pos] + SumFunctionOnSet(u, A)
          BY <4>1, <4>3, <4>4, <5>2, Zenon
        <5>7. /\ cpu_utilization_per_node_'[p] = SumFunctionOnSet(v, B)
              /\ cpu_utilization_per_node_'[p] \in Nat
              /\ cpu_utilization_per_node_'[p] <= CPU_UTILIZATION_THRESHOLD
          BY <4>2, <5>3, <5>4, <5>5, <5>6
        <5> QED  BY <5>7, Zenon DEF B
      <4>5. CASE c = NoCpu \/ p # <<n, c>>
        <5>1. cpu_utilization_per_node_'[p] = cpu_utilization_per_node_[p]
          BY <2>2, <3>4, <4>5, Zenon
        <5>2. cpu_utilization_per_node_'[p] = SumFunctionOnSet(v, B)
          BY <4>1, <4>2, <4>3, <4>5, <5>1, ZenonT(60)
        <5> QED  BY <4>2, <5>1, <5>2, Zenon DEF B
      <4> QED  BY <4>4, <4>5, Zenon
    <3>6. cpu_utilization_per_node_' \in [Places -> Nat]
      <4>1. cpu_utilization_per_node_' = [p \in Places |-> cpu_utilization_per_node_'[p]]
        BY <2>2, <3>4, Zenon
      <4> QED  BY <3>5, <4>1, Zenon
    <3> QED  BY <3>5, <3>6, Zenon DEF Books
  <2>10. outcome = "ok" /\ OneCpuMasks =>
           \A k \in 1..(pos' - 1) : <<tasks_'[k].node, tasks_'[k].cpu>> = assigned[k]
    <3> SUFFICES ASSUME outcome = "ok", OneCpuMasks, NEW k \in 1..pos
                 PROVE  <<tasks_'[k].node, tasks_'[k].cpu>> = assigned[k]
      BY <1>1, <1>2
    <3>1. CASE k = pos
      BY <1>3, <2>5, <3>1, Zenon
    <3>2. CASE k # pos
      <4>1. k \in 1..(pos - 1) /\ k \in 1..Len(given)
        BY <1>2, <3>2
      <4>2. <<tasks_[k].node, tasks_[k].cpu>> = assigned[k]
        BY <4>1, Zenon DEF LoopInv
      <4> QED  BY <2>5, <3>2, <4>1, <4>2, Zenon
    <3> QED  BY <3>1, <3>2, Zenon
  <2>11. /\ workload_id' # "Apex.OS" /\ tasks_' \in Seq(CppTasks) /\ Len(tasks_') = Len(given')
         /\ pos' \in 1..(Len(given') + 1) /\ status' = "placing" /\ available_cpus_per_node_' = CpuOrder
    <3>1. workload_id # "Apex.OS"
      BY Zenon DEF LoopInv
    <3> QED  BY <1>1, <1>2, <2>5, <3>1
  <2>12. outcome' = "ok" /\ OneCpuMasks' =>
           \A k \in 1..(pos' - 1) : <<tasks_'[k].node, tasks_'[k].cpu>> = assigned'[k]
    BY <1>1, <1>4, <2>10, Zenon
  <2> QED  BY <2>7, <2>9, <2>11, <2>12, Zenon DEF LoopInv
<1> QED  BY <1>6, <1>7, Zenon

\* Nothing is placed in the beginning, by either scheduler.
LEMMA InitCpp == WireInit => CppInv
<1> SUFFICES ASSUME WireInit PROVE CppInv
  OBVIOUS
<1>1. /\ Init /\ given = tasks /\ status = "idle" /\ tasks_ = <<>> /\ pos = 1
      /\ workload_id \in IF named THEN {"w", "Apex.OS"} ELSE {""}
  BY Zenon DEF WireInit, CppInit
<1>2. tasks \in Seq(TaskSpace) /\ named \in BOOLEAN
  BY <1>1, InitEstablishes, Zenon DEF IInv, TypeOK
<1>3. Requested
  BY <1>1, <1>2, Zenon DEF Requested
<1>4. ChosenInOrder
  BY <1>1, <1>2, Zenon DEF Init, ChosenInOrder
<1>5. RustInv
  BY <1>1, <1>4, Zenon DEF Init, RustInv
<1> QED  BY <1>1, <1>3, <1>5, Zenon DEF CppInv

\* A step of the Rust scheduler: the C++ scheduler has not started.
LEMMA RustStepPreserves ==
  ASSUME IInv, UtilIsTheSumOfTasks, CppInv, Next, UNCHANGED cppVars
  PROVE  CppInv'
<1>1. UNCHANGED <<workload_id, given, status, tasks_, pos, algorithm, named, loaded>>
  BY Zenon DEF cppVars, Next, Refuse, Fail, call, Begin, TargetNodePriority, TargetRefused, LeastLoaded,
         BestFitDecreasing, assign_cpu, Finish
<1>2. outcome \in {"called", "placing"}
  BY Zenon DEF Next, Refuse, Begin, TargetNodePriority, LeastLoaded, BestFitDecreasing, Placing, Finish
<1>3. status = "idle" /\ tasks_ = <<>>
  BY <1>2, Zenon DEF CppInv, Requested, RustDone
<1>4. Requested'
  BY <1>1, <1>3, Zenon DEF CppInv, Requested
<1>5. outcome' \in {"placing", "ok"} => loaded /\ algorithm \in Algorithms
  <2>1. CASE outcome = "placing"
    BY <2>1, Zenon DEF CppInv, RustInv
  <2>2. CASE outcome = "called"
    BY <2>2, Zenon DEF Next, Refuse, Fail, Begin, TargetNodePriority, LeastLoaded, BestFitDecreasing, Placing, Finish
  <2> QED  BY <1>2, <2>1, <2>2
<1>6. ASSUME algorithm = "target_node_priority" PROVE tasks' = given /\ ChosenInOrder'
  <2>1. tasks = given /\ ChosenInOrder
    BY <1>6, Zenon DEF CppInv, RustInv
  <2>2. CASE UNCHANGED <<algorithm, named, tasks, util, assigned>>
    BY <2>1, <2>2, ChosenIsKept
  <2>3. CASE Begin
    <3>1. tasks' = tasks
      BY <1>6, <2>3, BeginKeepsTheOrder
    <3>2. UNCHANGED <<named, assigned>>
      BY <2>3 DEF Begin, call
    <3> QED  BY <2>1, <3>1, <3>2, ChosenIsKept
  <2>4. ASSUME NEW n \in Nodes, NEW c \in Cpus[n], next \in 1..Len(tasks), Fits(tasks[next], n, c),
               find_best_cpu(tasks[next], n, c), named, n = tasks[next].target, assign_cpu(n, c)
        PROVE  tasks' = given /\ ChosenInOrder'
    <3>1. tasks' = tasks
      BY <2>4, Zenon DEF assign_cpu
    <3>2. ChosenInOrder'
      BY <2>1, <2>4, PlacementIsChosen, Zenon
    <3> QED  BY <2>1, <3>1, <3>2, Zenon
  <2> QED  BY <1>6, <2>2, <2>3, <2>4, WhatAStepDoes, Zenon
<1>7. RustInv'
  BY <1>1, <1>5, <1>6 DEF RustInv
<1> QED  BY <1>1, <1>3, <1>4, <1>7, ZenonT(60) DEF CppInv

\* What the Rust scheduler left is left alone by the C++ one and by the wire.
LEMMA RequestIsKept ==
  ASSUME CppInv, UNCHANGED <<vars, request>>, status' \in {"idle", "placing", "stored", "no hyperperiod", "not scheduled"},
         RustDone \/ status' = "idle"
  PROVE  Requested' /\ RustInv'
<1>1. UNCHANGED <<algorithm, named, loaded, tasks, assigned, outcome, workload_id, given>>
  BY Zenon DEF vars, request
<1>2. ChosenInOrder' = ChosenInOrder
  BY <1>1, ChosenIsKept, Zenon
<1>3. RustInv'
  BY <1>1, <1>2, Zenon DEF CppInv, RustInv
<1>4. Requested'
  BY <1>1, Zenon DEF CppInv, Requested, RustDone
<1> QED  BY <1>3, <1>4, Zenon

\* A request that by-passes the scheduler or that it refuses.
LEMMA EndPreserves == CppInv /\ AddSchedInfoEnds => CppInv'
<1> SUFFICES ASSUME CppInv, AddSchedInfoEnds PROVE CppInv'
  OBVIOUS
<1>1. /\ UNCHANGED <<vars, request, tasks_, pos>> /\ RustDone /\ status = "idle" /\ tasks_ = <<>>
      /\ \/ workload_id = "Apex.OS" /\ status' = "stored" /\ sched_info_map_' = ApexSchedule
         \/ status' = "no hyperperiod"
         \/ status' = "not scheduled" /\ (~loaded \/ algorithm \notin Algorithms)
  BY Zenon DEF AddSchedInfoEnds, CppInv
<1>2. Requested' /\ RustInv'
  BY <1>1, RequestIsKept, Zenon
<1>3. ApexSchedule' = ApexSchedule
  BY <1>1, Zenon DEF ApexSchedule, request
<1>4. UNCHANGED <<algorithm, loaded, workload_id>>
  BY <1>1, Zenon DEF vars, request
<1> QED  BY <1>1, <1>2, <1>3, <1>4, Zenon DEF CppInv

\* The start of the loop.
LEMMA StartPreserves == IInv /\ CppInv /\ AddSchedInfo => CppInv'
<1> SUFFICES ASSUME IInv, CppInv, AddSchedInfo PROVE CppInv'
  OBVIOUS
<1>1. /\ UNCHANGED <<vars, request, pos>> /\ RustDone /\ status' = "placing" /\ pos = 1
      /\ workload_id # "Apex.OS" /\ HasHyperperiod
      /\ available_cpus_per_node_' = CpuOrder /\ cpu_utilization_per_node_' = [p \in Places |-> 0]
  BY Zenon DEF AddSchedInfo, CppInv
<1>2. Requested' /\ RustInv'
  BY <1>1, RequestIsKept
<1>3. UNCHANGED <<algorithm, loaded, workload_id, given, outcome, assigned>>
  BY <1>1, Zenon DEF vars, request
<1>4. /\ given \in Seq(TaskSpace) /\ DOMAIN given = 1..Len(given) /\ Len(given) \in Nat /\ given # <<>>
      /\ \A k \in 1..Len(given) : given[k] \in TaskSpace
  <2>1. given \in Seq(TaskSpace)
    BY Zenon DEF CppInv, Requested
  <2> QED  BY <1>1, <2>1 DEF HasHyperperiod
<1>5. \A k \in 1..Len(given) : CppTask(k, NoNode, NoCpu) \in CppTasks
  <2> SUFFICES ASSUME NEW k \in 1..Len(given) PROVE CppTask(k, NoNode, NoCpu) \in CppTasks
    OBVIOUS
  <2>1. given[k] \in [runtime : Nat, period : Nat, target : Nat, affinity : SUBSET Nat]
    BY <1>4, TaskAssumption
  <2>2. PinnedCpu(given[k].affinity) \in Int
    BY <2>1, PinnedIsInt, Zenon
  <2> QED  BY <1>4, <2>1, <2>2 DEF CppTask, CppTasks, NoNode, NoCpu
<1>6. PICK p \in [DOMAIN given -> DOMAIN given] :
        /\ algorithm # "best_fit_decreasing" => \A k \in DOMAIN p : p[k] = k
        /\ tasks_' = [k \in DOMAIN given |-> ConvertTaskInfoToTasks[p[k]]]
  BY Zenon DEF AddSchedInfo
<1>7. \A k \in 1..Len(given) : ConvertTaskInfoToTasks[k] = CppTask(k, NoNode, NoCpu)
  BY <1>4, Zenon DEF ConvertTaskInfoToTasks
<1>8. tasks_' \in Seq(CppTasks) /\ Len(tasks_') = Len(given) /\ tasks_' # <<>>
  <2>1. \A k \in 1..Len(given) : ConvertTaskInfoToTasks[p[k]] \in CppTasks
    BY <1>4, <1>5, <1>7, Zenon
  <2>2. tasks_' \in [1..Len(given) -> CppTasks]
    BY <1>4, <1>6, <2>1
  <2>3. tasks_' \in Seq(CppTasks) /\ Len(tasks_') = Len(given) /\ Len(given) # 0
    BY <1>4, <2>2
  <2> QED  BY <2>3
<1>9. ASSUME algorithm = "target_node_priority" PROVE LoopInv'
  <2>1. \A k \in 1..Len(given) : tasks_'[k] = CppTask(k, NoNode, NoCpu)
    BY <1>4, <1>6, <1>7, <1>9, ZenonT(60)
  <2>2. \A k \in 1..Len(given) : tasks_'[k].node = NoNode /\ tasks_'[k].cpu = NoCpu
    <3>1. \A k : CppTask(k, NoNode, NoCpu).node = NoNode /\ CppTask(k, NoNode, NoCpu).cpu = NoCpu
      BY Zenon DEF CppTask
    <3> QED  BY <2>1, <3>1, Zenon
  <2>3. PlacedOnTarget'
    <3> SUFFICES ASSUME NEW k \in 1..Len(given)
                 PROVE  /\ tasks_'[k] = CppTask(k, tasks_'[k].node, tasks_'[k].cpu)
                        /\ tasks_'[k].node = NoNode /\ tasks_'[k].cpu = NoCpu
      BY <1>3, <1>4, Zenon DEF PlacedOnTarget, CppTask
    <3> QED  BY <2>1, <2>2, Zenon
  <2>4. Books'
    <3>1. Placed' = {}
      <4>1. DOMAIN tasks_' = 1..Len(given)
        BY <1>8
      <4> QED  BY <2>2, <4>1 DEF Placed
    <3> SUFFICES ASSUME NEW q \in Places
                 PROVE  0 = SumFunctionOnSet(CppTaskUtilization', {k \in Placed' : <<tasks_'[k].node, tasks_'[k].cpu>> = q})
      BY <1>1, ConfigAssumption DEF Books
    <3>2. {k \in Placed' : <<tasks_'[k].node, tasks_'[k].cpu>> = q} = {}
      BY <3>1, Zenon
    <3> QED  BY <3>2, SumEmpty
  <2>5. pos' = 1 /\ pos' \in 1..(Len(given) + 1) /\ 1..(pos' - 1) = {}
    BY <1>1, <1>4
  <2> QED  BY <1>1, <1>3, <1>8, <2>3, <2>4, <2>5, ZenonT(60) DEF LoopInv
<1> QED  BY <1>1, <1>2, <1>3, <1>8, <1>9, Zenon DEF CppInv

\* The end of the loop: the map is not empty when a task has been placed.
LEMMA ReturnPreserves == IInv /\ CppInv /\ AddSchedInfoReturns => CppInv'
<1> SUFFICES ASSUME IInv, CppInv, AddSchedInfoReturns PROVE CppInv'
  OBVIOUS
<1>1. /\ UNCHANGED <<vars, request, tasks_, pos, available_cpus_per_node_, cpu_utilization_per_node_>>
      /\ status = "placing" /\ pos > Len(tasks_) /\ tasks_ # <<>> /\ RustDone
      /\ sched_info_map_' = generate_schedules
      /\ status' = IF generate_schedules = <<>> THEN "not scheduled" ELSE "stored"
  BY Zenon DEF AddSchedInfoReturns, CppInv, Requested
<1>2. Requested' /\ RustInv'
  BY <1>1, RequestIsKept, Zenon
<1>3. UNCHANGED <<algorithm, loaded, workload_id, given, outcome, assigned, tasks_, pos, available_cpus_per_node_,
                  cpu_utilization_per_node_>>
  BY <1>1, Zenon DEF vars, request
<1>4. generate_schedules' = generate_schedules
  BY <1>3, Zenon DEF generate_schedules
<1>5. ASSUME algorithm = "target_node_priority" PROVE LoopInv' /\ workload_id # "Apex.OS"
  <2>1. LoopInv
    BY <1>1, <1>5, Zenon DEF CppInv
  <2>2. PlacedOnTarget' /\ Books'
    <3>1. PlacedOnTarget /\ Books
      BY <2>1, Zenon DEF LoopInv
    <3>2. PlacedOnTarget'
      BY <1>3, <3>1, Zenon DEF PlacedOnTarget, CppTask
    <3>3. Books'
      BY <1>3, <3>1, Zenon DEF Books, CppTaskUtilization, utilization, Placed
    <3> QED  BY <3>2, <3>3
  <2>3. pos = Len(given) + 1
    <3>1. pos \in 1..(Len(given) + 1) /\ Len(tasks_) = Len(given)
      BY <2>1, Zenon DEF LoopInv
    <3>2. Len(given) \in Nat
      BY <2>1, LoopFacts, Zenon DEF CppInv
    <3>3. pos > Len(tasks_)
      BY <1>1, Zenon
    <3> QED  BY <3>1, <3>2, <3>3
  <2>4. OneCpuMasks' = OneCpuMasks
    BY <1>3, Zenon DEF OneCpuMasks
  <2>5. outcome = "ok" /\ OneCpuMasks => generate_schedules # <<>>
    <3> SUFFICES ASSUME outcome = "ok", OneCpuMasks PROVE generate_schedules # <<>>
      OBVIOUS
    <3>1. DOMAIN tasks_ = 1..Len(given) /\ Len(given) \in Nat /\ 1 \in 1..Len(given)
      <4>1. Len(given) \in Nat /\ DOMAIN tasks_ = 1..Len(given) /\ tasks_ \in Seq(CppTasks) /\ Len(tasks_) = Len(given)
        BY <2>1, LoopFacts, Zenon DEF CppInv, LoopInv
      <4>2. Len(tasks_) # 0
        <5>1. tasks_ # <<>>
          BY <1>1, Zenon
        <5> QED  BY <4>1, <5>1
      <4> QED  BY <4>1, <4>2
    <3>2. <<tasks_[1].node, tasks_[1].cpu>> = assigned[1]
      <4>1. \A k \in 1..(pos - 1) : <<tasks_[k].node, tasks_[k].cpu>> = assigned[k]
        BY <2>1, Zenon DEF LoopInv
      <4>2. 1 \in 1..(pos - 1)
        BY <2>3, <3>1
      <4> QED  BY <4>1, <4>2, Zenon
    <3>3. assigned[1] \in Places
      <4>1. tasks = given
        BY <1>5, Zenon DEF CppInv, RustInv
      <4> QED  BY <3>1, <4>1 DEF IInv, PlacedInOrder
    <3>4. tasks_[1].node \in Nodes
      BY <3>2, <3>3, AssignedOrNot, Zenon
    <3>5. tasks_[1].node # NoNode
      BY <3>4, ConfigAssumption, Zenon
    <3> DEFINE items == [k \in {j \in DOMAIN tasks_ : tasks_[j].node # NoNode} |->
                           sched_task(tasks_[k].id, tasks_[k].period, tasks_[k].runtime, tasks_[k].cpu, tasks_[k].node)]
    <3>6. 1 \in DOMAIN items
      BY <3>1, <3>5, Zenon
    <3>7. generate_schedules = GroupByNode(items)
      BY Zenon DEF generate_schedules
    <3> HIDE DEF items
    <3>8. DOMAIN generate_schedules = {items[k].node : k \in DOMAIN items}
      BY <3>7, Zenon DEF GroupByNode
    <3>9. DOMAIN generate_schedules # {}
      BY <3>6, <3>8, Zenon
    <3> QED  BY <3>9
  <2>6. status' \in {"stored", "not scheduled"} /\ (generate_schedules # <<>> => status' = "stored")
    BY <1>1, Zenon
  <2> QED  BY <1>3, <2>1, <2>2, <2>3, <2>4, <2>5, <2>6, Zenon DEF LoopInv
<1> QED  BY <1>1, <1>2, <1>3, <1>4, <1>5, Zenon DEF CppInv

\* The loops of the other algorithms: nothing is claimed about their books.
LEMMA OtherStepPreserves ==
  CppInv /\ (schedule_with_least_loaded \/ schedule_with_best_fit_decreasing) => CppInv'
<1> SUFFICES ASSUME CppInv, schedule_with_least_loaded \/ schedule_with_best_fit_decreasing PROVE CppInv'
  OBVIOUS
<1>1. /\ UNCHANGED <<vars, request, status>> /\ status = "placing" /\ algorithm # "target_node_priority"
      /\ RustDone /\ tasks_ # <<>>
  BY Zenon DEF schedule_with_least_loaded, schedule_with_best_fit_decreasing, CppPlacing, CppInv, Requested
<1>2. Requested' /\ RustInv'
  BY <1>1, RequestIsKept
<1>3. algorithm' = algorithm /\ status' = "placing"
  BY <1>1 DEF vars
<1>4. tasks_' # <<>>
  <2>1. tasks_' = tasks_ \/ \E v : tasks_' = [tasks_ EXCEPT ![pos] = v]
    BY Zenon DEF schedule_with_least_loaded, schedule_with_best_fit_decreasing, TakeCpu
  <2>2. DOMAIN tasks_' = DOMAIN tasks_
    BY <2>1
  <2> QED  BY <1>1, <2>2
<1> QED  BY <1>1, <1>2, <1>3, <1>4, Zenon DEF CppInv

\* Steps that leave both schedulers alone.
LEMMA CppIsKept ==
  ASSUME CppInv, UNCHANGED <<vars, cppVars>>
  PROVE  CppInv'
<1>1. UNCHANGED <<algorithm, named, loaded, tasks, util, assigned, outcome, workload_id, given, status, tasks_, pos,
                  available_cpus_per_node_, cpu_utilization_per_node_, sched_info_map_, vars, request>>
  BY Zenon DEF vars, cppVars, request
<1>2. Requested' /\ RustInv'
  BY <1>1, RequestIsKept, Zenon DEF CppInv, Requested, RustDone
<1>3. generate_schedules' = generate_schedules /\ ApexSchedule' = ApexSchedule
  BY <1>1, Zenon DEF generate_schedules, ApexSchedule
<1>4. LoopInv => LoopInv'
  <2> SUFFICES ASSUME LoopInv PROVE LoopInv'
    OBVIOUS
  <2>1. PlacedOnTarget' /\ Books' /\ OneCpuMasks' = OneCpuMasks
    <3>1. PlacedOnTarget /\ Books
      BY Zenon DEF LoopInv
    <3>2. PlacedOnTarget'
      BY <1>1, <3>1, Zenon DEF PlacedOnTarget, CppTask
    <3>3. Books'
      BY <1>1, <3>1, Zenon DEF Books, CppTaskUtilization, utilization, Placed
    <3>4. OneCpuMasks' = OneCpuMasks
      BY <1>1, Zenon DEF OneCpuMasks
    <3> QED  BY <3>2, <3>3, <3>4
  <2> QED  BY <1>1, <2>1, Zenon DEF LoopInv
<1> QED  BY <1>1, <1>2, <1>3, <1>4, Zenon DEF CppInv

\* The invariant of both schedulers holds throughout.
LEMMA CppInvariance == AllSpec => []CppInv
<1>1. WireInit => CppInv
  BY InitCpp
<1>2. IInv /\ UtilIsTheSumOfTasks /\ CppInv /\ [AllNext]_allVars => CppInv'
  <2> SUFFICES ASSUME IInv, UtilIsTheSumOfTasks, CppInv, [AllNext]_allVars PROVE CppInv'
    OBVIOUS
  <2>1. CASE Next /\ UNCHANGED <<cppVars, wireVars>>
    BY <2>1, RustStepPreserves
  <2>2. CASE schedule_with_target_node_priority
    <3>1. /\ status = "placing" /\ algorithm = "target_node_priority" /\ UNCHANGED <<vars, request, status>>
      BY <2>2, Zenon DEF schedule_with_target_node_priority, CppPlacing
    <3>2. tasks_ # <<>> /\ LoopInv /\ Requested /\ RustInv /\ RustDone
      BY <3>1, Zenon DEF CppInv, Requested
    <3>3. LoopInv'
      BY <2>2, <3>2, TargetStepPreserves
    <3>4. Requested' /\ RustInv'
      BY <3>1, <3>2, RequestIsKept
    <3>5. algorithm' = algorithm /\ status' = "placing"
      BY <3>1 DEF vars
    <3>6. tasks_' # <<>>
      <4>1. DOMAIN tasks_' = DOMAIN tasks_
        BY <2>2, Zenon DEF schedule_with_target_node_priority, assign_task_to_node_cpu
      <4> QED  BY <3>2, <4>1
    <3> QED  BY <3>3, <3>4, <3>5, <3>6, Zenon DEF CppInv
  <2>3. CASE WireNext \/ UNCHANGED allVars
    <3>1. UNCHANGED <<vars, cppVars>>
      BY <2>3, Zenon DEF WireNext, SerializeSchedInfo, SerializeTask, SerializeEnd, get_sched_info, DecodeTask,
                 DecodeEnd, init_task_list, init_apex_list, allVars
    <3> QED  BY <3>1, CppIsKept
  <2> QED  BY <2>1, <2>2, <2>3, EndPreserves, StartPreserves, ReturnPreserves, OtherStepPreserves, ZenonT(60)
              DEF AllNext, CppNext
<1> QED  BY <1>1, <1>2, RustInvariance, PTL DEF AllSpec

\* Under target_node_priority the C++ scheduler books exactly the tasks it
\* places, and no CPU beyond the threshold, for any workload.
THEOREM CppBooksBalance == AllSpec => []CppBooksWhatItPlaces
<1>1. CppInv => CppBooksWhatItPlaces
  BY Zenon DEF CppInv, LoopInv, Books, CppBooksWhatItPlaces
<1> QED  BY <1>1, CppInvariance, PTL

\* For masks of one CPU, the C++ scheduler stores every workload that the Rust
\* port accepts, with every task on the same node and CPU.
THEOREM PortAgrees == AllSpec => []PortPlacesAlike
<1>1. CppInv => PortPlacesAlike
  <2> SUFFICES ASSUME CppInv, algorithm = "target_node_priority", outcome = "ok",
                      status \in {"stored", "not scheduled"}, workload_id # "Apex.OS", OneCpuMasks
               PROVE  /\ status = "stored"
                      /\ \A k \in DOMAIN tasks_ : <<tasks_[k].node, tasks_[k].cpu>> = assigned[k]
    BY Zenon DEF PortPlacesAlike
  <2>1. tasks_ # <<>>
    BY Zenon DEF CppInv, RustInv
  <2>2. LoopInv /\ Requested
    BY <2>1, Zenon DEF CppInv
  <2>3. DOMAIN tasks_ = 1..Len(given) /\ Len(given) \in Nat
    BY <2>2, LoopFacts, Zenon
  <2>4. status = "stored" /\ pos = Len(given) + 1 /\ \A k \in 1..(pos - 1) : <<tasks_[k].node, tasks_[k].cpu>> = assigned[k]
    BY <2>2, Zenon DEF LoopInv
  <2>5. 1..(pos - 1) = 1..Len(given)
    BY <2>3, <2>4
  <2> QED  BY <2>3, <2>4, <2>5, Zenon
<1> QED  BY <1>1, CppInvariance, PTL
=============================================================================
