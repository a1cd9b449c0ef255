---------------------------- MODULE ApexMonitor ----------------------------
(***************************************************************************)
(* The Apex.OS side of a C Timpani-N: the main thread, which handles the    *)
(* datagrams of the applications in epoll_loop, and the SIGEV_THREAD        *)
(* threads of the coredata timers, which share dmiss_count and              *)
(* dmiss_time_us with it and no lock.  Each atomic load or store of the two *)
(* is a step.                                                               *)
(*                                                                          *)
(* Processes are external: each is started at most once, may be in a pid    *)
(* namespace, and dies with a DOWN or without.  A timer_t is the address of *)
(* a block that timer_delete frees, so an id is used again: deleting a      *)
(* stale id deletes whatever timer has it now, or nothing.                  *)
(***************************************************************************)
EXTENDS Integers, Sequences, FiniteSetsExt

CONSTANTS apex_list,    \* the applications, in list order
          Procs, AppOf, PidOf, NsPidOf,
          period, allowable_deadline_misses,
          Scenarios,    \* bounds: the processes that start, the FAULTs and RESETs they send
          MaxTime, MaxMail,
          MaxTimers     \* RLIMIT_SIGPENDING

Apps == {apex_list[k] : k \in DOMAIN apex_list}
NoApp == "none"
Timers == 1..MaxTimers

ASSUME ApexAssumption ==
  /\ apex_list \in Seq(Apps) /\ NoApp \notin Apps
  /\ AppOf \in [Procs -> Apps]
  /\ PidOf \in [Procs -> Nat \ {0}] /\ NsPidOf \in [Procs -> Nat \ {0}]
  /\ \A p, q \in Procs : PidOf[p] = PidOf[q] => p = q
  /\ allowable_deadline_misses \in [Apps -> Nat] /\ {period, MaxTime, MaxMail, MaxTimers} \subseteq Nat
  /\ Scenarios \subseteq [starts : SUBSET Procs, sends : Nat]

VARIABLES now,      \* CLOCK_MONOTONIC; 0 never occurs
          life,     \* of the processes
          mail,     \* datagrams in the socket
          sends,    \* FAULTs and RESETs still to be sent
          apex,     \* the apex_info of every application
          live,     \* the timers: whose, or NoApp
          main,     \* the main thread in handle_apex_fault_event
          thread,   \* the thread of every timer
          hits,     \* history: times of the FAULTs counted since the last reset or report
          opened,   \* history: the first of them in the current window
          failedUp  \* history: an UP did not get as far as a timer

procVars == <<life, mail, sends>>
apexVars == <<now, procVars, apex, live, main, thread, hits, opened, failedUp>>

Idle == [at |-> "idle"]

ApexInit ==
  /\ now = 1 /\ mail = <<>> /\ main = Idle
  /\ \E s \in Scenarios :
       life = [p \in Procs |-> IF p \in s.starts THEN "off" ELSE "gone"] /\ sends = s.sends
  /\ apex = [a \in Apps |-> [pid |-> 0, nspid |-> 0, coredata_timer |-> 0,
                             dmiss_time_us |-> 0, dmiss_count |-> 0]]
  /\ live = [i \in Timers |-> NoApp] /\ thread = [i \in Timers |-> Idle]
  /\ hits = [a \in Apps |-> <<>>] /\ opened = [a \in Apps |-> 1]
  /\ failedUp = FALSE

---------------------------------------------------------------------------
(* The applications and the clock                                          *)

\* Late in the run it waits for the FAULTs that are under way.
Tick ==
  /\ now < MaxTime /\ (now + period + 1 < MaxTime \/ (mail = <<>> /\ main = Idle))
  /\ now' = now + 1
  /\ UNCHANGED <<procVars, apex, live, main, thread, hits, opened, failedUp>>

Send(type, p) ==
  /\ Len(mail) < MaxMail
  /\ mail' = Append(mail, [type |-> type, app |-> AppOf[p], nspid |-> NsPidOf[p]])

\* The UP of a process is lost when it starts before the socket exists.
Launch(p) ==
  /\ life[p] = "off" /\ \A q \in Procs : AppOf[q] = AppOf[p] => life[q] # "run"
  /\ life' = [life EXCEPT ![p] = "run"]
  /\ Send("UP", p) \/ UNCHANGED mail
  /\ UNCHANGED <<now, sends, apex, live, main, thread, hits, opened, failedUp>>

\* Late in the run nobody misses, so that the last window can expire.
Miss(p) ==
  /\ life[p] = "run" /\ sends > 0 /\ now + period + 1 < MaxTime
  /\ Send("FAULT", p) /\ sends' = sends - 1
  /\ UNCHANGED <<now, life, apex, live, main, thread, hits, opened, failedUp>>

\* A process that crashes sends no DOWN.
Exit(p) ==
  /\ life[p] = "run"
  /\ \/ life' = [life EXCEPT ![p] = "gone"] /\ Send("DOWN", p)
     \/ life' = [life EXCEPT ![p] = "crashed"] /\ UNCHANGED mail
  /\ UNCHANGED <<now, sends, apex, live, main, thread, hits, opened, failedUp>>

\* The demo's RESET.
SendReset ==
  /\ sends > 0 /\ sends' = sends - 1
  /\ \E p \in Procs : Send("RESET", p)
  /\ UNCHANGED <<now, life, apex, live, main, thread, hits, opened, failedUp>>

---------------------------------------------------------------------------
(* sched.c                                                                 *)

Running(pid) == {p \in Procs : life[p] = "run" /\ PidOf[p] = pid}

\* A thread of that name anywhere in /proc, or -1
get_pid_by_name(a) ==
  LET found == {PidOf[p] : p \in {q \in Procs : life[q] = "run" /\ AppOf[q] = a}}
  IN  IF found = {} THEN -1 ELSE Min(found)

\* The process of that name with that pid in its namespace.  A process that is
\* in no namespace of its own has no second number in its NSpid line.
get_pid_by_nspid(a, nspid) ==
  LET found == {PidOf[p] : p \in {q \in Procs : /\ life[q] = "run" /\ AppOf[q] = a
                                                /\ NsPidOf[q] = nspid /\ PidOf[q] # nspid}}
  IN  IF found = {} THEN -1 ELSE Min(found)

\* Whether the mask of a process could be set: it has to be there.  Which CPUs
\* are in the mask decides nothing here.
set_affinity_cpumask_all_threads(pid) == pid > 0 /\ Running(pid) # {}

---------------------------------------------------------------------------
(* apex_monitor.c: the coredata timers                                     *)

\* timer_create and timer_settime; no timer is left at the limit.
coredata_create_timer(a, entry) ==
  LET free == {i \in Timers : live[i] = NoApp}
  IN  \/ /\ free = {} /\ apex' = [apex EXCEPT ![a] = entry]
         /\ failedUp' = TRUE /\ UNCHANGED live
      \/ \E i \in free : /\ live' = [live EXCEPT ![i] = a]
                         /\ apex' = [apex EXCEPT ![a] = [entry EXCEPT !.coredata_timer = i]]
                         /\ UNCHANGED failedUp

coredata_delete_timer_Keep(a) == live

coredata_delete_timer(a) ==
  LET i == apex[a].coredata_timer
  IN  IF i = 0 THEN live ELSE [live EXCEPT ![i] = NoApp]

\* coredata_timer_handler: the load.  What coredata_client_send tells the
\* provider is read off dmiss_count and changes nothing here.
TimerExpires(i) ==
  /\ live[i] # NoApp /\ thread[i] = Idle
  /\ apex[live[i]].dmiss_time_us # 0
  /\ thread' = [thread EXCEPT ![i] = [at |-> "loaded", app |-> live[i],
                                     time |-> apex[live[i]].dmiss_time_us]]
  /\ UNCHANGED <<now, procVars, apex, live, main, hits, opened, failedUp>>

TimerTests_Never(i) ==
  /\ thread[i].at = "loaded"
  /\ thread' = [thread EXCEPT ![i] = Idle]
  /\ UNCHANGED <<now, procVars, apex, live, main, hits, opened, failedUp>>

\* ... the clock and the test
TimerTests(i) ==
  /\ thread[i].at = "loaded"
  /\ thread' = [thread EXCEPT ![i] = IF now - @.time > period THEN [@ EXCEPT !.at = "expired"] ELSE Idle]
  /\ UNCHANGED <<now, procVars, apex, live, main, hits, opened, failedUp>>

\* ... the two stores
TimerClearsCount(i) ==
  /\ thread[i].at = "expired"
  /\ apex' = [apex EXCEPT ![thread[i].app].dmiss_count = 0]
  /\ thread' = [thread EXCEPT ![i].at = "cleared"]
  /\ UNCHANGED <<now, procVars, live, main, hits, opened, failedUp>>

TimerClearsTime_Keeps(i) ==
  /\ thread[i].at = "cleared"
  /\ thread' = [thread EXCEPT ![i] = Idle]
  /\ UNCHANGED <<now, procVars, apex, live, main, hits, opened, failedUp>>

TimerClearsTime(i) ==
  /\ thread[i].at = "cleared"
  /\ apex' = [apex EXCEPT ![thread[i].app].dmiss_time_us = 0]
  /\ thread' = [thread EXCEPT ![i] = Idle]
  /\ UNCHANGED <<now, procVars, live, main, hits, opened, failedUp>>

---------------------------------------------------------------------------
(* core.c: the handlers of the main thread                                 *)

Received(type) == main = Idle /\ mail # <<>> /\ Head(mail).type = type /\ mail' = Tail(mail)

handle_apex_up_event ==
  /\ Received("UP")
  /\ LET m == Head(mail)
         found == get_pid_by_nspid(m.app, m.nspid)
         pid == IF found = -1 THEN m.nspid ELSE found
         entry == [apex[m.app] EXCEPT !.pid = pid, !.nspid = m.nspid]
     IN  IF set_affinity_cpumask_all_threads(pid)
         THEN coredata_create_timer(m.app, entry)
         ELSE apex' = [apex EXCEPT ![m.app] = entry] /\ failedUp' = TRUE /\ UNCHANGED live
  /\ UNCHANGED <<now, life, sends, main, thread, hits, opened>>

\* The first application with that nspid; its timer id stays.
handle_apex_down_event ==
  /\ Received("DOWN")
  /\ LET at == {k \in DOMAIN apex_list : apex[apex_list[k]].nspid = Head(mail).nspid}
         a == apex_list[Min(at)]
     IN  IF at = {} THEN UNCHANGED <<apex, live>>
         ELSE /\ live' = coredata_delete_timer(a)
              /\ apex' = [apex EXCEPT ![a].pid = 0, ![a].nspid = 0]
  /\ UNCHANGED <<now, life, sends, main, thread, hits, opened, failedUp>>

\* The applications before the first whose mask cannot be set are reset.  One
\* step: a timer thread only stores zeros too, so it cannot tell the two stores
\* apart.
handle_apex_reset_event ==
  /\ Received("RESET")
  /\ LET bad == {k \in DOMAIN apex_list : LET pid == apex[apex_list[k]].pid IN
                                            pid # 0 /\ ~set_affinity_cpumask_all_threads(pid)}
         end == IF bad = {} THEN Len(apex_list) + 1 ELSE Min(bad)
         done == {a \in Apps : apex[a].pid # 0 /\ \E k \in 1..(end - 1) : apex_list[k] = a}
     IN  /\ apex' = [a \in Apps |-> IF a \in done THEN [apex[a] EXCEPT !.dmiss_count = 0, !.dmiss_time_us = 0]
                                                  ELSE apex[a]]
         /\ hits' = [a \in Apps |-> IF a \in done THEN <<>> ELSE hits[a]]
         /\ opened' = [a \in Apps |-> IF a \in done THEN 1 ELSE opened[a]]
  /\ UNCHANGED <<now, life, sends, live, main, thread, failedUp>>

\* handle_apex_fault_event: the pid and the clock.  A lookup that fails leaves
\* -1 in the entry.
FaultBegins ==
  /\ Received("FAULT")
  /\ LET a == Head(mail).app
         pid == IF apex[a].pid = 0 THEN get_pid_by_name(a) ELSE apex[a].pid
     IN  /\ apex' = [apex EXCEPT ![a].pid = pid]
         /\ IF apex[a].pid = 0 /\ pid = -1 THEN UNCHANGED main
            ELSE main' = [at |-> "clock", app |-> a, now |-> now]
  /\ UNCHANGED <<now, life, sends, live, thread, hits, opened, failedUp>>

FaultLoads_NoExpiry ==
  /\ main.at = "clock"
  /\ main' = [main EXCEPT !.at = IF apex[main.app].dmiss_time_us = 0 THEN "restart" ELSE "add"]
  /\ UNCHANGED <<now, procVars, apex, live, thread, hits, opened, failedUp>>

FaultLoads ==
  /\ main.at = "clock"
  /\ LET time == apex[main.app].dmiss_time_us IN
       main' = [main EXCEPT !.at = IF time = 0 \/ main.now - time > period THEN "restart" ELSE "add"]
  /\ UNCHANGED <<now, procVars, apex, live, thread, hits, opened, failedUp>>

\* A new window: the count, then the time
FaultRestarts ==
  /\ main.at = "restart"
  /\ apex' = [apex EXCEPT ![main.app].dmiss_count = 1]
  /\ main' = [main EXCEPT !.at = "stamp"]
  /\ hits' = [hits EXCEPT ![main.app] = Append(@, main.now)]
  /\ opened' = [opened EXCEPT ![main.app] = Len(hits'[main.app])]
  /\ UNCHANGED <<now, procVars, live, thread, failedUp>>

FaultStamps ==
  /\ main.at = "stamp"
  /\ apex' = [apex EXCEPT ![main.app].dmiss_time_us = main.now]
  /\ main' = [main EXCEPT !.at = "counted"]
  /\ UNCHANGED <<now, procVars, live, thread, hits, opened, failedUp>>

\* atomic_fetch_add
FaultAdds ==
  /\ main.at = "add"
  /\ apex' = [apex EXCEPT ![main.app].dmiss_count = @ + 1]
  /\ main' = [main EXCEPT !.at = "counted"]
  /\ hits' = [hits EXCEPT ![main.app] = Append(@, main.now)]
  /\ UNCHANGED <<now, procVars, live, thread, opened, failedUp>>

\* coredata_client_send, and report_deadline_miss when the count is reached
FaultTests ==
  /\ main.at = "counted"
  /\ main' = IF apex[main.app].dmiss_count >= allowable_deadline_misses[main.app]
             THEN [main EXCEPT !.at = "reported"] ELSE Idle
  /\ UNCHANGED <<now, procVars, apex, live, thread, hits, opened, failedUp>>

FaultClearsCount ==
  /\ main.at = "reported"
  /\ apex' = [apex EXCEPT ![main.app].dmiss_count = 0]
  /\ main' = [main EXCEPT !.at = "recover"]
  /\ hits' = [hits EXCEPT ![main.app] = <<>>] /\ opened' = [opened EXCEPT ![main.app] = 1]
  /\ UNCHANGED <<now, procVars, live, thread, failedUp>>

\* The time; the other CPUs are tried for the recovery and nothing follows from
\* the answer.
FaultRecovers ==
  /\ main.at = "recover"
  /\ apex' = [apex EXCEPT ![main.app].dmiss_time_us = 0]
  /\ main' = Idle
  /\ UNCHANGED <<now, procVars, live, thread, hits, opened, failedUp>>

---------------------------------------------------------------------------

MainStep ==
  \/ handle_apex_up_event \/ handle_apex_down_event \/ handle_apex_reset_event
  \/ FaultBegins \/ FaultLoads \/ FaultRestarts \/ FaultStamps \/ FaultAdds
  \/ FaultTests \/ FaultClearsCount \/ FaultRecovers

TimerStep(i) == TimerExpires(i) \/ TimerTests(i) \/ TimerClearsCount(i) \/ TimerClearsTime(i)

ApexNext ==
  \/ Tick \/ SendReset \/ MainStep
  \/ \E p \in Procs : Launch(p) \/ Miss(p) \/ Exit(p)
  \/ \E i \in Timers : TimerStep(i)

ApexSpec == ApexInit /\ [][ApexNext]_apexVars

---------------------------------------------------------------------------
(* Properties                                                              *)

\* A deadline miss is reported only when that many FAULTs came within one
\* period, none of them counted for an earlier report or before a RESET, however
\* the timer threads get between the loads and stores.
ReportsAreBacked ==
  main.at = "reported" =>
    LET recent == {k \in DOMAIN hits[main.app] : main.now - hits[main.app][k] <= period}
    IN  recent # {} /\ Cardinality(recent) >= allowable_deadline_misses[main.app]

Quiet(a) == main = Idle /\ \A i \in Timers : thread[i] = Idle \/ thread[i].app # a

\* When nobody is in a handler, an open window has counted every FAULT since it
\* opened, but for one: a timer that closes the last window may clear the count
\* between the two stores that open the next.
AtMostOneMissIsLost ==
  \A a \in Apps : Quiet(a) /\ apex[a].dmiss_time_us # 0 =>
    LET since == Len(hits[a]) - opened[a] + 1
    IN  apex[a].dmiss_count \in {since - 1, since}

\* A DOWN names a process by its nspid alone.
OwnNsPids == \A p, q \in Procs : NsPidOf[p] = NsPidOf[q] => AppOf[p] = AppOf[q]

\* While every UP gets its timer, an application that is up has its timer.  If no
\* two applications share an nspid, the timers nobody will delete are those of
\* processes that died without DOWN.
TimersFollowApps ==
  /\ ~failedUp =>
       \A a \in Apps : apex[a].nspid # 0 => live[apex[a].coredata_timer] = a
  /\ OwnNsPids => \A i \in Timers : live[i] # NoApp /\ apex[live[i]].coredata_timer # i =>
       \E p \in Procs : AppOf[p] = live[i] /\ life[p] = "crashed"

\* A window does not stay open: while a timer of the application is alive, one of
\* its threads closes it.  The count need not go with the window: what FAULTs add
\* between the two stores of that thread is told to the provider until the next
\* FAULT.
WindowsClose ==
  \A a \in Apps : apex[a].dmiss_time_us # 0 ~>
                    (apex[a].dmiss_time_us = 0 \/ \A i \in Timers : live[i] # a)
=============================================================================
