---------------------------- MODULE ScheduleWire ----------------------------
(***************************************************************************)
(* The way of a schedule from the C++ Timpani-O to the processes of a C     *)
(* Timpani-N: SerializeSchedInfo packs it into a libtrpc buffer, which is a *)
(* stack, the node pops it again and sets up the tasks that are its own.    *)
(*                                                                          *)
(* A cell of the buffer is one serialised value with its type and what it   *)
(* is; the bytes carry neither, so a read that does not mirror the write    *)
(* shows as a cell of another kind.  Values keep their 32 and 64 bits: the  *)
(* periods come from an int32, and a CPU of -1 that travels as uint64_t is  *)
(* -1 again when set_affinity gets it as an int.                            *)
(***************************************************************************)
EXTENDS CppScheduler

CONSTANTS InitialSize,  \* the size new_serial_buf is called with
          NameLength,   \* of task names, node names and the workload id
          num_cpus      \* CPUs online on every node

ASSUME WireAssumption ==
  InitialSize \in Nat \ {0} /\ NameLength \in Nat /\ num_cpus \in [Nodes -> Nat \ {0}]

VARIABLES stage,   \* of the buffer: "none", "packing", "sent", "decoding", ...
          buf,     \* serial_buf_t: its cells, and pos and size in bytes
          todo,    \* the entries of the map still to pack
          left,    \* the number of tasks still to pop
          tinfos,  \* sched_info.tasks of a node: all nodes decode the same
          tt_list, \* of every node: its processes, with the CPU they are bound to
          ready    \* the nodes that have set up their tasks

wireVars == <<stage, buf, todo, left, tinfos, tt_list, ready>>
allVars == <<vars, cppVars, wireVars>>

WireInit ==
  /\ CppInit
  /\ stage = "none" /\ todo = {} /\ left = 0 /\ tinfos = <<>>
  /\ buf = [cells |-> <<>>, pos |-> 0, size |-> InitialSize]
  /\ tt_list = [n \in Nodes |-> {}] /\ ready = {}

---------------------------------------------------------------------------
(* libtrpc: serialize.c                                                    *)

Cell(type, what, value) == [type |-> type, is |-> <<what, value>>]

\* A string is cut to the array of the receiver, and its length follows it.
Str(what, value, max) ==
  [type |-> "str", is |-> <<what, value>>, len |-> IF NameLength < max THEN NameLength ELSE max - 1]

Bytes(cell) ==
  CASE cell.type = "str" -> cell.len + 4 [] cell.type = "int32" -> 4 [] OTHER -> 8

BytesOf(cells) == SumFunction([i \in DOMAIN cells |-> Bytes(cells[i])])

reserve_space_DoubleOnly(b, bytes) ==
  IF b.pos + bytes > b.size THEN 2 * b.size ELSE b.size

\* The size of the buffer once there is room for that many bytes.
reserve_space(b, bytes) ==
  IF b.pos + bytes <= b.size THEN b.size
  ELSE IF b.pos + bytes > 2 * b.size THEN 2 * b.size + bytes ELSE 2 * b.size

\* serialize_int32_t, serialize_int64_t, serialize_str
Push(b, cell) ==
  [cells |-> Append(b.cells, cell), pos |-> b.pos + Bytes(cell), size |-> reserve_space(b, Bytes(cell))]

PushAll(b, cells) ==
  LET pushed[i \in 0..Len(cells)] == IF i = 0 THEN b ELSE Push(pushed[i - 1], cells[i])
  IN  pushed[Len(cells)]

\* The cells of one task from bottom to top.
TaskCells(t) ==
  << Str("name", t.id, 16), Cell("int32", "priority", t.id), Cell("int32", "policy", t.id),
     Cell("int32", "period", t.period_ns \div kNsToUs), Cell("int32", "release", t.id), Cell("int32", "runtime", t.runtime_ns \div kNsToUs),
     Cell("int32", "deadline", t.id), Cell("int64", "cpu", t.cpu), Cell("int32", "dmiss", t.id),
     Str("node", t.node, 64) >>

\* The types the node pops for one task, the first one from the top.
PopTypes == <<"str", "int32", "int64", "int32", "int32", "int32", "int32", "int32", "int32", "str">>

PopTask_SwappedTimes(cells) ==
  LET at(i) == cells[Len(cells) + 1 - i].is
  IN  [node |-> at(1), dmiss |-> at(2), cpu |-> at(3), deadline |-> at(5), runtime |-> at(4),
       release |-> at(6), period |-> at(7), policy |-> at(8), priority |-> at(9), name |-> at(10)]

\* The task_info that these pops fill.
PopTask(cells) ==
  LET at(i) == cells[Len(cells) + 1 - i].is
  IN  [node |-> at(1), dmiss |-> at(2), cpu |-> at(3), deadline |-> at(4), runtime |-> at(5),
       release |-> at(6), period |-> at(7), policy |-> at(8), priority |-> at(9), name |-> at(10)]

---------------------------------------------------------------------------
(* Timpani-O: SerializeSchedInfo, called for the first request             *)

\* The tasks in the map: a node, and the position of a task in its array.
Entries == UNION {{n} \X DOMAIN sched_info_map_[n] : n \in DOMAIN sched_info_map_}

Entry(x) == sched_info_map_[x[1]][x[2]]

\* The map is walked in the order of node names, an array from its start.
Before(x, y) == x[1] < y[1] \/ (x[1] = y[1] /\ x[2] < y[2])

SerializeSchedInfo ==
  /\ status = "stored" /\ algorithm = "target_node_priority" /\ stage = "none"
  /\ stage' = "packing"
  /\ buf' = PushAll(buf, <<Cell("int64", "hyperperiod", workload_id), Str("workload", workload_id, 64)>>)
  /\ todo' = Entries
  /\ UNCHANGED <<vars, cppVars, left, tinfos, tt_list, ready>>

SerializeTask ==
  /\ stage = "packing"
  /\ \E x \in todo : /\ \A y \in todo \ {x} : Before(x, y)
                     /\ buf' = PushAll(buf, TaskCells(Entry(x)))
                     /\ todo' = todo \ {x}
  /\ UNCHANGED <<vars, cppVars, stage, left, tinfos, tt_list, ready>>

SerializeEnd ==
  /\ stage = "packing" /\ todo = {}
  /\ buf' = Push(buf, Cell("int32", "nr_tasks", Cardinality(Entries)))
  /\ stage' = "sent"
  /\ UNCHANGED <<vars, cppVars, todo, left, tinfos, tt_list, ready>>

---------------------------------------------------------------------------
(* Timpani-N: get_sched_info                                               *)

\* trpc_client_schedinfo copies pos bytes, make_serial_buf takes them as they
\* are, and deserialize_sched_info begins with nr_tasks.
get_sched_info ==
  /\ stage = "sent"
  /\ stage' = "decoding"
  /\ LET top == Len(buf.cells) IN
       /\ left' = buf.cells[top].is[2]
       /\ buf' = [cells |-> SubSeq(buf.cells, 1, top - 1), pos |-> buf.pos - Bytes(buf.cells[top]), size |-> buf.pos]
  /\ UNCHANGED <<vars, cppVars, todo, tinfos, tt_list, ready>>

\* One turn of the loop.  The list grows at its head, so that the stack order
\* is undone.
DecodeTask ==
  /\ stage = "decoding" /\ left > 0
  /\ left' = left - 1
  /\ LET top == Len(buf.cells)
         taken == SubSeq(buf.cells, top - 9, top)
     IN  IF top >= 10 /\ \A i \in 1..10 : taken[11 - i].type = PopTypes[i]
         THEN /\ tinfos' = <<PopTask(taken)>> \o tinfos
              /\ buf' = [cells |-> SubSeq(buf.cells, 1, top - 10), pos |-> buf.pos - BytesOf(taken),
                         size |-> buf.size]
              /\ UNCHANGED stage
         ELSE stage' = "garbled" /\ UNCHANGED <<tinfos, buf>>
  /\ UNCHANGED <<vars, cppVars, todo, tt_list, ready>>

\* workload_id and hyperperiod_us, init_hyperperiod.
DecodeEnd ==
  /\ stage = "decoding" /\ left = 0
  /\ stage' = IF buf.cells = <<Cell("int64", "hyperperiod", workload_id), Str("workload", workload_id, 64)>>
              THEN "decoded" ELSE "garbled"
  /\ buf' = [cells |-> <<>>, pos |-> buf.pos - BytesOf(buf.cells), size |-> buf.size]
  /\ UNCHANGED <<vars, cppVars, todo, left, tinfos, tt_list, ready>>

Own(n) == {i \in DOMAIN tinfos : tinfos[i].node = <<"node", n>>}

set_affinity_ExcludesTheLast(n, cpu) == IF cpu \in 0..(num_cpus[n] - 2) THEN cpu ELSE 0

\* A CPU the node does not have becomes CPU 0.
set_affinity(n, cpu) == IF cpu \in 0..(num_cpus[n] - 1) THEN cpu ELSE 0

\* init_task_list: the processes that are found are bound to their CPUs, but
\* for those sched_setaffinity refuses.  A node that finds none gives up.
init_task_list(n) ==
  /\ stage = "decoded" /\ workload_id # "Apex.OS" /\ n \notin ready
  /\ ready' = ready \cup {n}
  /\ \E found \in SUBSET Own(n) : \E bound \in SUBSET found :
       tt_list' = [tt_list EXCEPT ![n] =
         {[id |-> tinfos[i].name[2],
           cpu |-> IF i \in bound THEN set_affinity(n, tinfos[i].cpu[2]) ELSE NoCpu] : i \in found}]
  /\ UNCHANGED <<vars, cppVars, stage, buf, todo, left, tinfos>>

\* init_apex_list: no process is looked for, and none is bound yet.
init_apex_list(n) ==
  /\ stage = "decoded" /\ workload_id = "Apex.OS" /\ n \notin ready
  /\ ready' = ready \cup {n}
  /\ UNCHANGED <<vars, cppVars, stage, buf, todo, left, tinfos, tt_list>>

WireNext ==
  \/ SerializeSchedInfo \/ SerializeTask \/ SerializeEnd
  \/ get_sched_info \/ DecodeTask \/ DecodeEnd
  \/ \E n \in Nodes : init_task_list(n) \/ init_apex_list(n)

AllNext ==
  \/ Next /\ UNCHANGED <<cppVars, wireVars>>
  \/ CppNext /\ UNCHANGED wireVars
  \/ WireNext

AllSpec == WireInit /\ [][AllNext]_allVars

---------------------------------------------------------------------------
(* Properties                                                              *)

\* What a buffer holds never exceeds what reserve_space allocated, from
\* whatever size it started and however long the strings are.
BufferIsLargeEnough == buf.pos <= buf.size

\* The position of an entry in the walk through the map.
Rank(x) == Cardinality({y \in Entries : y = x \/ Before(y, x)})

\* A node decodes exactly the stored schedule, every field from the field it
\* was written from, the times as they were requested and the tasks in their
\* order, and reads the whole buffer.
NodeDecodesTheSchedule ==
  /\ stage # "garbled"
  /\ stage = "decoded" =>
       /\ buf.pos = 0
       /\ Len(tinfos) = Cardinality(Entries)
       /\ \A x \in Entries : LET t == Entry(x)
                                i == tinfos[Rank(x)] IN
            /\ i.name = <<"name", t.id>> /\ i.node = <<"node", t.node>> /\ i.cpu = <<"cpu", t.cpu>>
            /\ i.period = <<"period", given[t.id].period>>
            /\ i.runtime = <<"runtime", IF workload_id = "Apex.OS" THEN 0 ELSE given[t.id].runtime>>
            /\ \A f \in {"priority", "policy", "release", "deadline", "dmiss"} : i[f] = <<f, t.id>>

\* The load that the processes of a node put on one of its CPUs.
NodeLoad(n, c) ==
  SumFunctionOnSet([k \in DOMAIN given |-> utilization(given[k])],
                   {b.id : b \in {x \in tt_list[n] : x.cpu = c}})

\* "90% max CPU utilization": what the scheduler sends puts no more than the
\* threshold on a CPU once set_affinity has bound the processes.  A task without
\* a CPU is sent too, and bound to CPU 0.
NodeLoadBelowThreshold ==
  \A n \in Nodes : \A c \in 0..(num_cpus[n] - 1) : NodeLoad(n, c) <= CPU_UTILIZATION_THRESHOLD

\* From end to end, no CPU of a node gets more than the threshold, as long as
\* the configuration names CPUs that the nodes have, which nobody looks at, and
\* the scheduler found a CPU for every task it sent.
PlacedLoadBelowThreshold ==
  /\ \A n \in Nodes : Cpus[n] \subseteq 0..(num_cpus[n] - 1)
  /\ \A k \in DOMAIN tasks_ : tasks_[k].node # NoNode => tasks_[k].cpu # NoCpu
  => NodeLoadBelowThreshold
---------------------------------------------------------------------------
(* The inductive invariant of the proofs.                                  *)

Header == <<Cell("int64", "hyperperiod", workload_id), Str("workload", workload_id, 64)>>

\* A buffer accounts for its cells.
IsBuffer(b) ==
  /\ b = [cells |-> b.cells, pos |-> b.pos, size |-> b.size]
  /\ b.cells \in Seq(Range(b.cells))
  /\ \A i \in 1..Len(b.cells) : Bytes(b.cells[i]) \in Nat
  /\ b.pos = BytesOf(b.cells)
  /\ b.pos \in Nat /\ b.size \in Nat /\ b.pos <= b.size

\* Above the header lie the first m entries of the walk, ten cells each.
Holds(m) ==
  /\ Len(buf.cells) >= 2 + 10 * m
  /\ buf.cells[1] = Header[1] /\ buf.cells[2] = Header[2]
  /\ \A i \in 1..m : \E x \in Entries :
       /\ Rank(x) = i
       /\ \A j \in 1..10 : buf.cells[2 + 10 * (i - 1) + j] = TaskCells(Entry(x))[j]

\* The node has popped all entries but those.
Popped(m) ==
  /\ tinfos \in Seq(Range(tinfos)) /\ Len(tinfos) = Cardinality(Entries) - m
  /\ \A i \in 1..Len(tinfos) : \E x \in Entries :
       Rank(x) = m + i /\ tinfos[i] = PopTask(TaskCells(Entry(x)))

Packed == Cardinality(Entries \ todo)

\* The processes of a node are entries of its own, bound to their CPU or not.
BoundAsSent ==
  /\ DOMAIN tt_list = Nodes
  /\ \A n \in Nodes : \A b \in tt_list[n] : \E x \in Entries :
       x[1] = n /\ b.id = x[2] /\ b.cpu \in {NoCpu, set_affinity(n, Entry(x).cpu)}

WireInv ==
  /\ stage \in {"none", "packing", "sent", "decoding", "decoded"}
  /\ IsBuffer(buf)
  /\ stage = "none" => buf.cells = <<>> /\ tinfos = <<>>
  /\ stage # "none" => status = "stored" /\ algorithm = "target_node_priority"
  /\ stage = "packing" =>
       /\ todo \subseteq Entries /\ \A x \in Entries \ todo, y \in todo : Before(x, y)
       /\ Len(buf.cells) = 2 + 10 * Packed /\ Holds(Packed) /\ tinfos = <<>>
  /\ stage = "sent" =>
       /\ Len(buf.cells) = 3 + 10 * Cardinality(Entries) /\ Holds(Cardinality(Entries)) /\ tinfos = <<>>
       /\ buf.cells[Len(buf.cells)] = Cell("int32", "nr_tasks", Cardinality(Entries))
  /\ stage = "decoding" =>
       /\ left \in 0..Cardinality(Entries)
       /\ Len(buf.cells) = 2 + 10 * left /\ Holds(left) /\ Popped(left)
  /\ stage = "decoded" => buf.pos = 0 /\ Popped(0)
  /\ stage # "decoded" \/ workload_id = "Apex.OS" => tt_list = [n \in Nodes |-> {}]
  /\ BoundAsSent
=============================================================================
