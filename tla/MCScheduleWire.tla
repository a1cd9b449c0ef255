--------------------------- MODULE MCScheduleWire ---------------------------
(* Small configurations and workloads for both schedulers and the wire.    *)
EXTENDS ScheduleWire, TLC

\* Two nodes: one with two CPUs, one whose only CPU has an id both share; and
\* a node that is configured without CPUs.
MCNodes == {1, 2, 3}
MCCpus == (1 :> {0, 1}) @@ (2 :> {1}) @@ (3 :> {})
MCCpuOrder == (1 :> <<0, 1>>) @@ (2 :> <<1>>) @@ (3 :> <<>>)
MCMemory == (1 :> 4096) @@ (2 :> 128) @@ (3 :> 4096)
MCOnline == (1 :> 2) @@ (2 :> 2) @@ (3 :> 1)

Task(runtime, period, target, affinity) ==
  [runtime |-> runtime, period |-> period, target |-> target, affinity |-> affinity]

\* Node 9 is not configured; CPU 5 exists on no node; a period of 0 means no
\* utilisation; 45 + 45 meets the threshold exactly; CPU 33 is beyond uint32_t.
MCTasks ==
  {Task(45, 100, 1, {}), Task(45, 100, 2, {1}), Task(30, 50, 0, {}), Task(6, 10, 1, {0, 1}),
   Task(95, 100, 1, {}), Task(20, 100, 9, {}), Task(7, 0, 2, {}), Task(60, 100, 1, {0}),
   Task(30, 100, 1, {5}), Task(10, 100, 0, {33})}
=============================================================================
