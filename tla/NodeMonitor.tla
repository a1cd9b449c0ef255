---------------------------- MODULE NodeMonitor ----------------------------
(***************************************************************************)
(* What a C Timpani-N watches depends on the workload it was given: of      *)
(* Apex.OS the datagrams of the applications, of any other workload the     *)
(* scheduling of its tasks.                                                 *)
(***************************************************************************)
EXTENDS ApexMonitor, SchedStat

VARIABLE workload_id

monitorVars == <<workload_id, apexVars, statVars>>

\* initialize of main.c, without enable_apex
MonitorInit ==
  /\ workload_id \in {"Apex.OS", "w"}
  /\ ApexInit /\ StatInit
  /\ workload_id # "Apex.OS" => \A p \in Procs : life[p] = "gone"

Apex(A) == workload_id = "Apex.OS" /\ A /\ UNCHANGED <<workload_id, statVars>>

MonitorNext ==
  \/ Apex(ApexNext)
  \/ workload_id # "Apex.OS" /\ StatNext /\ UNCHANGED <<workload_id, apexVars>>

\* epoll_loop returns to epoll_wait, timers expire and time passes.
MonitorFairness ==
  /\ WF_monitorVars(Apex(Tick)) /\ WF_monitorVars(Apex(MainStep))
  /\ \A i \in Timers : WF_monitorVars(Apex(TimerStep(i)))

MonitorSpec == MonitorInit /\ [][MonitorNext]_monitorVars /\ MonitorFairness
=============================================================================
