------------------------- MODULE ApexMonitorProofs -------------------------
(***************************************************************************)
(* Proofs about the deadline misses a C Timpani-N counts for Apex.OS: one  *)
(* is only reported for FAULTs that happened, for any applications,        *)
(* periods, limits and timers.  The timer threads only store 0, so what    *)
(* they do between two steps of the main thread can make it count less, and*)
(* never more.  The invariant relates the count and the start of the window*)
(* to the FAULTs since the window opened.  A second one says how much less *)
(* it may count: one miss, while the window stays open.                    *)
(***************************************************************************)
EXTENDS ApexMonitor, FiniteSetTheorems, TLAPS

---------------------------------------------------------------------------
(* Apex.OS                                                                 *)

Messages == [type : {"UP", "DOWN", "FAULT", "RESET"}, app : Apps, nspid : Nat]
Steps == {"clock", "restart", "stamp", "add", "counted", "reported", "recover"}
Busy == [at : Steps, app : Apps, now : Nat]

Fields == {"pid", "nspid", "coredata_timer", "dmiss_time_us", "dmiss_count"}
EntryOK(e) == DOMAIN e = Fields /\ e.dmiss_time_us \in Nat /\ e.dmiss_count \in Nat
EntriesOK == DOMAIN apex = Apps /\ \A a \in Apps : EntryOK(apex[a])

MainOK == now \in Nat /\ main \in {Idle} \cup Busy /\ mail \in Seq(Messages)

HitsOK == hits \in [Apps -> Seq(Nat)] /\ opened \in [Apps -> Nat \ {0}]

(* No FAULT is from the future or later than the one being handled          *)
PastOK ==
  /\ main \in Busy => main.now <= now
  /\ \A a \in Apps : \A k \in DOMAIN hits[a] :
       hits[a][k] <= now /\ (main \in Busy /\ main.app = a => hits[a][k] <= main.now)

(* The window of an application: it began with the FAULT opened, all later  *)
(* ones came later, and they are all it may have counted                    *)
WindowOK(a) ==
  /\ opened[a] <= Len(hits[a]) + 1
  /\ apex[a].dmiss_count <= Len(hits[a]) - opened[a] + 1
  /\ \A k \in opened[a]..Len(hits[a]) : hits[a][opened[a]] <= hits[a][k]
  /\ apex[a].dmiss_time_us # 0 /\ ~(main \in Busy /\ main.app = a /\ main.at \in {"stamp", "recover"}) =>
       opened[a] <= Len(hits[a]) /\ apex[a].dmiss_time_us = hits[a][opened[a]]

(* What the main thread knows of the window while it handles a FAULT        *)
FaultOK ==
  main \in Busy =>
    LET a == main.app IN
    /\ main.at \in {"stamp", "add", "counted", "reported"} =>
         opened[a] <= Len(hits[a]) /\ main.now - hits[a][opened[a]] <= period
    /\ main.at = "stamp" => hits[a][opened[a]] = main.now
    /\ main.at = "reported" => allowable_deadline_misses[a] <= Len(hits[a]) - opened[a] + 1

ApexInv == EntriesOK /\ MainOK /\ HitsOK /\ PastOK /\ (\A a \in Apps : WindowOK(a)) /\ FaultOK

(* The invariant is what a report needs: the FAULTs of the window are all   *)
(* recent.                                                                  *)
LEMMA ReportIsBacked == ApexInv => ReportsAreBacked
<1> SUFFICES ASSUME ApexInv, main.at = "reported" PROVE ReportsAreBacked
  BY DEF ReportsAreBacked
<1> DEFINE a == main.app
           H == hits[a]
           o == opened[a]
           recent == {k \in DOMAIN H : main.now - H[k] <= period}
<1>1. main \in Busy /\ a \in Apps /\ main.now \in Nat
  BY DEF ApexInv, MainOK, Idle, Busy
<1>2. H \in Seq(Nat) /\ o \in Nat \ {0} /\ Len(H) \in Nat /\ DOMAIN H = 1..Len(H)
  BY <1>1 DEF ApexInv, HitsOK
<1>3. /\ o <= Len(H) /\ main.now - H[o] <= period
      /\ allowable_deadline_misses[a] <= Len(H) - o + 1
  BY <1>1 DEF ApexInv, FaultOK
<1>4. \A k \in o..Len(H) : H[o] <= H[k]
  BY <1>1 DEF ApexInv, WindowOK
<1>5. period \in Nat /\ allowable_deadline_misses[a] \in Nat
  BY <1>1, ApexAssumption
<1> HIDE DEF a, H, o
<1>6. o..Len(H) \in SUBSET recent /\ o \in recent
  <2>1. ASSUME NEW k \in o..Len(H)
        PROVE  k \in DOMAIN H /\ main.now - H[k] <= period
    <3>1. k \in 1..Len(H) /\ H[k] \in Nat /\ H[o] \in Nat
      BY <1>2, <1>3
    <3>2. H[o] <= H[k] /\ main.now - H[o] <= period /\ main.now \in Nat /\ period \in Nat
      BY <1>1, <1>3, <1>4, <1>5, Zenon
    <3>3. \A t, p, x, y \in Nat : x <= y /\ t - x <= p => t - y <= p
      OBVIOUS
    <3> QED
      BY <1>2, <3>1, <3>2, <3>3, Zenon
  <2>2. o \in o..Len(H)
    BY <1>2, <1>3
  <2> QED
    BY <2>1, <2>2
<1>7. IsFiniteSet(recent)
  <2>1. IsFiniteSet(1..Len(H)) /\ recent \in SUBSET (1..Len(H))
    BY <1>2, FS_Interval
  <2> QED
    BY <2>1, FS_Subset
<1>8. Cardinality(o..Len(H)) = Len(H) - o + 1
  BY <1>2, <1>3, FS_Interval
<1>9. Cardinality(o..Len(H)) <= Cardinality(recent) /\ Cardinality(recent) \in Nat
  BY <1>6, <1>7, FS_Subset, FS_CardinalityType
<1>10. recent # {} /\ Cardinality(recent) >= allowable_deadline_misses[a]
  <2>1. PICK r, c : r = Cardinality(recent) /\ c = Cardinality(o..Len(H))
    BY Zenon
  <2>2. r \in Nat /\ c <= r /\ c = Len(H) - o + 1
    BY <1>8, <1>9, <2>1, Zenon
  <2>3. r >= allowable_deadline_misses[a]
    <3>1. \A l, q, x, y, z \in Nat : q <= l /\ x <= l - q + 1 /\ y <= z /\ y = l - q + 1 => z >= x
      OBVIOUS
    <3>2. Len(H) \in Nat /\ o \in Nat /\ c \in Nat /\ allowable_deadline_misses[a] \in Nat
      BY <1>2, <1>3, <1>5, <2>2
    <3> QED
      BY <1>3, <2>2, <3>1, <3>2, Zenon
  <2> QED
    BY <1>6, <2>1, <2>3, Zenon
<1> QED
  BY <1>10 DEF ReportsAreBacked, a, H

(* No application has missed anything at the start.                         *)
LEMMA ApexInitEstablishes == ApexInit => ApexInv
<1> SUFFICES ASSUME ApexInit PROVE ApexInv
  OBVIOUS
<1>1. main = Idle /\ main \notin Busy
  BY DEF ApexInit, Idle, Busy
<1>2. EntriesOK
  BY DEF ApexInit, EntriesOK, EntryOK, Fields
<1>3. MainOK /\ HitsOK
  BY <1>1 DEF ApexInit, MainOK, HitsOK
<1>4. PastOK /\ FaultOK
  BY <1>1 DEF ApexInit, PastOK, FaultOK
<1>5. \A a \in Apps : WindowOK(a)
  BY <1>1 DEF ApexInit, WindowOK
<1> QED
  BY <1>2, <1>3, <1>4, <1>5 DEF ApexInv

(* A step that leaves the main thread alone and may only clear counts and   *)
(* times.                                                                   *)
LEMMA ClearingPreserves ==
  ASSUME ApexInv, MainOK', EntriesOK', now <= now', UNCHANGED <<main, hits, opened>>,
         \A a \in Apps : /\ apex'[a].dmiss_count \in {0, apex[a].dmiss_count}
                         /\ apex'[a].dmiss_time_us \in {0, apex[a].dmiss_time_us}
  PROVE  ApexInv'
<1>1. now \in Nat /\ now' \in Nat
  BY DEF ApexInv, MainOK
<1>2. HitsOK' /\ FaultOK'
  BY DEF ApexInv, HitsOK, FaultOK
<1>3. PastOK'
  <2>1. main \in Busy => main.now \in Nat /\ main.now <= now'
    BY <1>1 DEF ApexInv, PastOK, Busy
  <2>2. ASSUME NEW a \in Apps, NEW k \in DOMAIN hits[a]
        PROVE  hits[a][k] <= now'
    <3>1. hits[a][k] \in Nat /\ hits[a][k] <= now
      BY DEF ApexInv, HitsOK, PastOK
    <3> QED
      BY <1>1, <3>1
  <2> QED
    BY <2>1, <2>2 DEF ApexInv, PastOK
<1>4. ASSUME NEW a \in Apps PROVE WindowOK(a)'
  <2>1. opened[a] \in Nat /\ Len(hits[a]) \in Nat
    BY DEF ApexInv, HitsOK
  <2>2. WindowOK(a)
    BY DEF ApexInv
  <2>3. apex'[a].dmiss_count <= Len(hits[a]) - opened[a] + 1
    <3>1. opened[a] <= Len(hits[a]) + 1 /\ apex[a].dmiss_count <= Len(hits[a]) - opened[a] + 1
      BY <2>2 DEF WindowOK
    <3>2. CASE apex'[a].dmiss_count = 0
      BY <2>1, <3>1, <3>2
    <3> QED
      BY <3>1, <3>2
  <2> QED
    BY <2>2, <2>3 DEF WindowOK
<1> QED
  BY <1>2, <1>3, <1>4 DEF ApexInv

(* Applications, the clock: nothing of the monitor but its mail changes.    *)
LEMMA OutsidePreserves ==
  ASSUME ApexInv, Tick \/ SendReset \/ (\E p \in Procs : Launch(p) \/ Miss(p) \/ Exit(p))
  PROVE  ApexInv'
<1>1. UNCHANGED <<apex, main, hits, opened>> /\ now' \in {now, now + 1}
  BY DEF Tick, SendReset, Launch, Miss, Exit
<1>2. \A p \in Procs, t \in {"UP", "DOWN", "FAULT", "RESET"} : Send(t, p) => mail' \in Seq(Messages)
  <2> SUFFICES ASSUME NEW p \in Procs, NEW t \in {"UP", "DOWN", "FAULT", "RESET"}, Send(t, p)
               PROVE  mail' \in Seq(Messages)
    OBVIOUS
  <2>1. [type |-> t, app |-> AppOf[p], nspid |-> NsPidOf[p]] \in Messages
    BY ApexAssumption DEF Messages
  <2> QED
    BY <2>1 DEF Send, ApexInv, MainOK
<1>3. mail' \in Seq(Messages)
  BY <1>2 DEF Tick, SendReset, Launch, Miss, Exit, procVars, ApexInv, MainOK
<1>4. MainOK' /\ now <= now'
  BY <1>1, <1>3 DEF ApexInv, MainOK
<1>5. EntriesOK'
  BY <1>1 DEF ApexInv, EntriesOK, EntryOK, Fields
<1> QED
  BY <1>1, <1>4, <1>5, ClearingPreserves

(* A timer thread stores nothing but 0.                                     *)
LEMMA TimerPreserves ==
  ASSUME ApexInv, NEW i \in Timers, TimerStep(i)
  PROVE  ApexInv'
<1>1. UNCHANGED <<now, mail, main, hits, opened>>
  BY DEF TimerStep, TimerExpires, TimerTests, TimerClearsCount, TimerClearsTime, procVars
<1>2. MainOK' /\ now <= now' /\ EntriesOK
  BY <1>1 DEF ApexInv, MainOK
<1>3. CASE TimerExpires(i) \/ TimerTests(i)
  <2>1. apex' = apex
    BY <1>3 DEF TimerExpires, TimerTests
  <2>2. EntriesOK'
    BY <1>2, <2>1 DEF EntriesOK, EntryOK, Fields
  <2> QED
    BY <1>1, <1>2, <2>1, <2>2, ClearingPreserves
<1>4. CASE TimerClearsCount(i)
  <2> DEFINE b == thread[i].app
  <2>1. apex' = [apex EXCEPT ![b].dmiss_count = 0]
    BY <1>4 DEF TimerClearsCount
  <2>2. /\ EntriesOK'
        /\ \A a \in Apps : /\ apex'[a].dmiss_count \in {0, apex[a].dmiss_count}
                           /\ apex'[a].dmiss_time_us \in {0, apex[a].dmiss_time_us}
    <3> HIDE DEF b
    <3> QED
      BY <1>2, <2>1 DEF EntriesOK, EntryOK, Fields
  <2> QED
    BY <1>1, <1>2, <2>2, ClearingPreserves
<1>5. CASE TimerClearsTime(i)
  <2> DEFINE b == thread[i].app
  <2>1. apex' = [apex EXCEPT ![b].dmiss_time_us = 0]
    BY <1>5 DEF TimerClearsTime
  <2>2. /\ EntriesOK'
        /\ \A a \in Apps : /\ apex'[a].dmiss_count \in {0, apex[a].dmiss_count}
                           /\ apex'[a].dmiss_time_us \in {0, apex[a].dmiss_time_us}
    <3> HIDE DEF b
    <3> QED
      BY <1>2, <2>1 DEF EntriesOK, EntryOK, Fields
  <2> QED
    BY <1>1, <1>2, <2>2, ClearingPreserves
<1> QED
  BY <1>3, <1>4, <1>5 DEF TimerStep

(* What is taken out of the socket.                                         *)
LEMMA ReceivedType ==
  ASSUME MainOK, NEW t, Received(t)
  PROVE  /\ main = Idle /\ main \notin Busy /\ mail' \in Seq(Messages)
         /\ Head(mail) \in Messages /\ Head(mail).app \in Apps
<1>1. main = Idle /\ mail # <<>> /\ mail' = Tail(mail) /\ mail \in Seq(Messages)
  BY DEF MainOK, Received
<1>2. main \notin Busy
  BY <1>1 DEF Idle, Busy, Steps
<1>3. Head(mail) \in Messages /\ mail' \in Seq(Messages)
  BY <1>1
<1> QED
  BY <1>1, <1>2, <1>3 DEF Messages

(* UP and DOWN set the pids and the timer of one entry.                     *)
LEMMA CountersKept ==
  ASSUME ApexInv, handle_apex_up_event \/ handle_apex_down_event
  PROVE  /\ EntriesOK'
         /\ \A a \in Apps : /\ apex'[a].dmiss_count = apex[a].dmiss_count
                            /\ apex'[a].dmiss_time_us = apex[a].dmiss_time_us
<1>0. EntriesOK /\ Head(mail).app \in Apps
  <2>1. Received("UP") \/ Received("DOWN")
    BY Zenon DEF handle_apex_up_event, handle_apex_down_event
  <2> QED
    BY <2>1, ReceivedType DEF ApexInv
<1>1. CASE handle_apex_up_event
  <2> DEFINE m == Head(mail)
             found == get_pid_by_nspid(m.app, m.nspid)
             pid == IF found = -1 THEN m.nspid ELSE found
             entry == [apex[m.app] EXCEPT !.pid = pid, !.nspid = m.nspid]
  <2>1. \/ apex' = [apex EXCEPT ![m.app] = entry]
        \/ \E i \in Timers : apex' = [apex EXCEPT ![m.app] = [entry EXCEPT !.coredata_timer = i]]
    BY <1>1, Zenon DEF handle_apex_up_event, coredata_create_timer
  <2>2. /\ EntryOK(entry) /\ entry.dmiss_count = apex[m.app].dmiss_count
        /\ entry.dmiss_time_us = apex[m.app].dmiss_time_us
    <3> HIDE DEF pid, m
    <3> QED
      BY <1>0 DEF EntriesOK, EntryOK, Fields, m
  <2> HIDE DEF entry
  <2>3. ASSUME NEW i \in Timers, apex' = [apex EXCEPT ![m.app] = [entry EXCEPT !.coredata_timer = i]]
        PROVE  \E e : /\ apex' = [apex EXCEPT ![m.app] = e] /\ EntryOK(e)
                      /\ e.dmiss_count = entry.dmiss_count /\ e.dmiss_time_us = entry.dmiss_time_us
    <3> DEFINE e == [entry EXCEPT !.coredata_timer = i]
    <3>1. EntryOK(e) /\ e.dmiss_count = entry.dmiss_count /\ e.dmiss_time_us = entry.dmiss_time_us
      BY <2>2 DEF EntryOK, Fields
    <3> HIDE DEF e
    <3>2. apex' = [apex EXCEPT ![m.app] = e]
      BY <2>3 DEF e
    <3> QED
      BY <3>1, <3>2, Zenon
  <2>4. PICK e : /\ apex' = [apex EXCEPT ![m.app] = e] /\ EntryOK(e)
                 /\ e.dmiss_count = entry.dmiss_count /\ e.dmiss_time_us = entry.dmiss_time_us
    BY <2>1, <2>2, <2>3, Zenon
  <2>5. e.dmiss_count = apex[m.app].dmiss_count /\ e.dmiss_time_us = apex[m.app].dmiss_time_us
    BY <2>2, <2>4
  <2> HIDE DEF m
  <2> QED
    BY <1>0, <2>4, <2>5 DEF EntriesOK
<1>2. CASE handle_apex_down_event
  <2>1. PICK b : apex' = apex \/ apex' = [apex EXCEPT ![b].pid = 0, ![b].nspid = 0]
    BY <1>2, Zenon DEF handle_apex_down_event
  <2> QED
    BY <1>0, <2>1 DEF EntriesOK, EntryOK, Fields
<1> QED
  BY <1>1, <1>2

(* So they leave every window as it is.                                     *)
LEMMA UpDownPreserves ==
  ASSUME ApexInv, handle_apex_up_event \/ handle_apex_down_event
  PROVE  ApexInv'
<1>1. UNCHANGED <<now, main, hits, opened>> /\ (Received("UP") \/ Received("DOWN"))
  BY Zenon DEF handle_apex_up_event, handle_apex_down_event
<1>2. MainOK' /\ now <= now' /\ Head(mail).app \in Apps
  BY <1>1, ReceivedType DEF ApexInv, MainOK
<1> QED
  BY <1>1, <1>2, CountersKept, ClearingPreserves

(* RESET forgets the count, the window and the FAULTs of an application     *)
(* together.                                                                *)
LEMMA ResetPreserves ==
  ASSUME ApexInv, handle_apex_reset_event
  PROVE  ApexInv'
<1>1. PICK done \in SUBSET Apps :
        /\ apex' = [a \in Apps |-> IF a \in done THEN [apex[a] EXCEPT !.dmiss_count = 0, !.dmiss_time_us = 0]
                                                 ELSE apex[a]]
        /\ hits' = [a \in Apps |-> IF a \in done THEN <<>> ELSE hits[a]]
        /\ opened' = [a \in Apps |-> IF a \in done THEN 1 ELSE opened[a]]
  BY Zenon DEF handle_apex_reset_event
<1>2. UNCHANGED <<now, main>> /\ main \notin Busy /\ MainOK'
  BY ReceivedType, Zenon DEF handle_apex_reset_event, ApexInv, MainOK
<1>3. /\ EntriesOK'
      /\ \A a \in Apps : IF a \in done THEN apex'[a].dmiss_count = 0 /\ apex'[a].dmiss_time_us = 0
                                        ELSE apex'[a] = apex[a]
  BY <1>1, Zenon DEF ApexInv, EntriesOK, EntryOK, Fields
<1>4. HitsOK'
  <2>1. <<>> \in Seq(Nat) /\ 1 \in Nat \ {0}
    OBVIOUS
  <2> QED
    BY <1>1, <2>1, Zenon DEF ApexInv, HitsOK
<1>5. PastOK' /\ FaultOK'
  <2>1. main' \notin Busy'
    BY <1>2 DEF Busy
  <2>2. ASSUME NEW a \in Apps, NEW k \in DOMAIN hits'[a] PROVE hits'[a][k] <= now'
    <3>1. a \notin done
      <4>1. DOMAIN <<>> = {}
        OBVIOUS
      <4> QED
        BY <1>1, <2>2, <4>1, Zenon
    <3>2. hits'[a] = hits[a]
      BY <1>1, <3>1, Zenon
    <3> QED
      BY <1>2, <2>2, <3>2 DEF ApexInv, PastOK
  <2> QED
    BY <2>1, <2>2 DEF PastOK, FaultOK
<1>6. ASSUME NEW a \in Apps PROVE WindowOK(a)'
  <2>1. CASE a \in done
    <3>1. /\ opened'[a] = 1 /\ Len(hits'[a]) = 0
          /\ apex'[a].dmiss_count = 0 /\ apex'[a].dmiss_time_us = 0
      BY <1>1, <1>3, <2>1, Zenon
    <3> QED
      BY <3>1 DEF WindowOK
  <2>2. CASE a \notin done
    BY <1>1, <1>2, <1>3, <2>2, Zenon DEF ApexInv, WindowOK
  <2> QED
    BY <2>1, <2>2
<1> QED
  BY <1>2, <1>3, <1>4, <1>5, <1>6 DEF ApexInv

(* The state of the main thread in the middle of a FAULT.                   *)
LEMMA BusyType ==
  ASSUME MainOK, main.at \in Steps
  PROVE  main \in Busy /\ main.app \in Apps /\ main.now \in Nat
BY DEF MainOK, Idle, Busy, Steps

(* A step that touches neither the window of b nor what is done about it.   *)
LEMMA WindowFrame ==
  ASSUME NEW b, WindowOK(b), hits'[b] = hits[b], opened'[b] = opened[b],
         apex'[b].dmiss_count = apex[b].dmiss_count, apex'[b].dmiss_time_us = apex[b].dmiss_time_us,
         main \in Busy /\ main.app = b /\ main.at \in {"stamp", "recover"} =>
           main' \in Busy' /\ main'.app = b /\ main'.at \in {"stamp", "recover"}
  PROVE  WindowOK(b)'
BY DEF WindowOK

(* A FAULT of the main thread: the entry's pid and the clock.               *)
LEMMA FaultBeginsPreserves ==
  ASSUME ApexInv, FaultBegins
  PROVE  ApexInv'
<1>1. main = Idle /\ main \notin Busy /\ mail' \in Seq(Messages) /\ Head(mail).app \in Apps
  BY ReceivedType DEF FaultBegins, ApexInv
<1>2. UNCHANGED <<now, hits, opened>>
  BY DEF FaultBegins
<1>3. main' = Idle \/ main' = [at |-> "clock", app |-> Head(mail).app, now |-> now]
  BY <1>1 DEF FaultBegins
<1>4. MainOK'
  BY <1>1, <1>2, <1>3 DEF ApexInv, MainOK, Busy, Steps
<1>5. /\ EntriesOK'
      /\ \A a \in Apps : /\ apex'[a].dmiss_count = apex[a].dmiss_count
                         /\ apex'[a].dmiss_time_us = apex[a].dmiss_time_us
  <2> DEFINE a == Head(mail).app
             pid == IF apex[a].pid = 0 THEN get_pid_by_name(a) ELSE apex[a].pid
  <2>1. apex' = [apex EXCEPT ![a].pid = pid]
    BY DEF FaultBegins
  <2> HIDE DEF a, pid
  <2> QED
    BY <2>1 DEF ApexInv, EntriesOK, EntryOK, Fields
<1>6. HitsOK'
  BY <1>2 DEF ApexInv, HitsOK
<1>7. (main' \in Busy => main'.at = "clock" /\ main'.now = now) /\ now \in Nat
  BY <1>1, <1>3 DEF ApexInv, MainOK
<1>8. PastOK' /\ FaultOK'
  BY <1>2, <1>7 DEF ApexInv, PastOK, FaultOK, Busy
<1>9. ASSUME NEW b \in Apps PROVE WindowOK(b)'
  BY <1>1, <1>2, <1>5, WindowFrame, Zenon DEF ApexInv
<1> QED
  BY <1>4, <1>5, <1>6, <1>8, <1>9 DEF ApexInv

(* A later step of the main thread concerns the application of the FAULT    *)
(* alone.                                                                   *)
LEMMA FaultFrame ==
  ASSUME ApexInv, main \in Busy, NEW a \in Apps, a = main.app, now' = now,
         EntriesOK', MainOK', HitsOK', WindowOK(a)', FaultOK',
         main' \in Busy' => main'.app = a /\ main'.now = main.now,
         \A k \in DOMAIN hits'[a] : hits'[a][k] <= main.now,
         \A b \in Apps \ {a} : hits'[b] = hits[b] /\ opened'[b] = opened[b] /\ apex'[b] = apex[b]
  PROVE  ApexInv'
<1>1. main.now \in Nat /\ now \in Nat /\ main.now <= now
  BY DEF ApexInv, MainOK, PastOK, Busy
<1>2. PastOK'
  <2>1. ASSUME NEW b \in Apps, NEW k \in DOMAIN hits'[b]
        PROVE  hits'[b][k] <= now' /\ (main' \in Busy' /\ main'.app = b => hits'[b][k] <= main'.now)
    <3>1. CASE b = a
      <4>1. hits'[b][k] \in Nat /\ hits'[b][k] <= main.now
        BY <3>1 DEF HitsOK
      <4> QED
        BY <1>1, <4>1
    <3>2. CASE b # a
      BY <3>2 DEF ApexInv, PastOK
    <3> QED
      BY <3>1, <3>2
  <2> QED
    BY <1>1, <2>1 DEF PastOK
<1>3. ASSUME NEW b \in Apps PROVE WindowOK(b)'
  <2>1. CASE b # a
    <3>1. /\ WindowOK(b) /\ hits'[b] = hits[b] /\ opened'[b] = opened[b]
          /\ apex'[b].dmiss_count = apex[b].dmiss_count /\ apex'[b].dmiss_time_us = apex[b].dmiss_time_us
          /\ main.app # b
      BY <2>1, Zenon DEF ApexInv
    <3> QED
      BY <3>1, WindowFrame, Zenon
  <2> QED
    BY <2>1
<1> QED
  BY <1>2, <1>3, Zenon DEF ApexInv

(* What the steps of a FAULT start from.                                    *)
LEMMA FaultTypes ==
  ASSUME ApexInv, main.at \in Steps, NEW a, a = main.app
  PROVE  /\ main \in Busy /\ a \in Apps /\ main.now \in Nat /\ now \in Nat
         /\ hits[a] \in Seq(Nat) /\ opened[a] \in Nat \ {0} /\ Len(hits[a]) \in Nat
         /\ DOMAIN hits[a] = 1..Len(hits[a])
         /\ apex[a].dmiss_count \in Nat /\ apex[a].dmiss_time_us \in Nat
         /\ \A k \in DOMAIN hits[a] : hits[a][k] <= main.now
         /\ period \in Nat /\ allowable_deadline_misses[a] \in Nat
<1>1. main \in Busy /\ a \in Apps /\ main.now \in Nat /\ now \in Nat
  BY BusyType DEF ApexInv, MainOK
<1>2. hits[a] \in Seq(Nat) /\ opened[a] \in Nat \ {0}
  BY <1>1 DEF ApexInv, HitsOK
<1>3. Len(hits[a]) \in Nat /\ DOMAIN hits[a] = 1..Len(hits[a])
  BY <1>2
<1>4. apex[a].dmiss_count \in Nat /\ apex[a].dmiss_time_us \in Nat
  BY <1>1 DEF ApexInv, EntriesOK, EntryOK
<1>5. \A k \in DOMAIN hits[a] : hits[a][k] <= main.now
  BY <1>1 DEF ApexInv, PastOK
<1>6. period \in Nat /\ allowable_deadline_misses[a] \in Nat
  BY <1>1, ApexAssumption
<1> QED
  BY <1>1, <1>2, <1>3, <1>4, <1>5, <1>6

(* Steps of the main thread that only look.                                 *)
LEMMA LooksPreserve ==
  ASSUME ApexInv, FaultLoads \/ FaultTests
  PROVE  ApexInv'
<1>0. PICK a : a = main.app
  OBVIOUS
<1>1. main.at \in Steps /\ main.at \in {"clock", "counted"}
  BY DEF FaultLoads, FaultTests, Steps
<1>2. UNCHANGED <<now, mail, apex, hits, opened>>
  BY Zenon DEF FaultLoads, FaultTests, procVars
<1>3. /\ main \in Busy /\ a \in Apps /\ main.now \in Nat /\ now \in Nat
      /\ opened[a] \in Nat \ {0} /\ Len(hits[a]) \in Nat
      /\ apex[a].dmiss_count \in Nat /\ apex[a].dmiss_time_us \in Nat
      /\ \A k \in DOMAIN hits[a] : hits[a][k] <= main.now
      /\ period \in Nat /\ allowable_deadline_misses[a] \in Nat
  BY <1>0, <1>1, FaultTypes, Zenon
<1>4. WindowOK(a)
  BY <1>3 DEF ApexInv
<1>5. \/ main' = Idle
      \/ main' = [main EXCEPT !.at = "restart"] /\ main.at = "clock"
      \/ main' = [main EXCEPT !.at = "add"] /\ main.at = "clock"
           /\ apex[a].dmiss_time_us # 0 /\ ~(main.now - apex[a].dmiss_time_us > period)
      \/ main' = [main EXCEPT !.at = "reported"] /\ main.at = "counted"
           /\ apex[a].dmiss_count >= allowable_deadline_misses[a]
  BY <1>0 DEF FaultLoads, FaultTests
<1>6. /\ main' \in {Idle} \cup Busy
      /\ main' \in Busy => /\ main'.app = a /\ main'.now = main.now
                           /\ main'.at \in {"restart", "add", "reported"}
  BY <1>0, <1>3, <1>5 DEF Busy, Steps, Idle
<1>7. MainOK' /\ EntriesOK' /\ HitsOK'
  BY <1>2, <1>6 DEF ApexInv, MainOK, EntriesOK, EntryOK, HitsOK
<1>8. WindowOK(a)'
  BY <1>1, <1>2, <1>4, Zenon DEF WindowOK
<1>9. FaultOK'
  <2>1. CASE main' \in Busy /\ main'.at = "add"
    <3>1. apex[a].dmiss_time_us # 0 /\ ~(main.now - apex[a].dmiss_time_us > period) /\ main.at = "clock"
      BY <1>3, <1>5, <2>1 DEF Busy, Idle
    <3>2. opened[a] <= Len(hits[a]) /\ apex[a].dmiss_time_us = hits[a][opened[a]]
      BY <1>4, <3>1 DEF WindowOK
    <3>3. main.now - hits[a][opened[a]] <= period
      BY <1>3, <3>1, <3>2
    <3> QED
      BY <1>2, <1>6, <2>1, <3>2, <3>3 DEF FaultOK
  <2>2. CASE main' \in Busy /\ main'.at = "reported"
    <3>1. apex[a].dmiss_count >= allowable_deadline_misses[a] /\ main.at = "counted"
      BY <1>3, <1>5, <2>2 DEF Busy, Idle
    <3>2. opened[a] <= Len(hits[a]) /\ main.now - hits[a][opened[a]] <= period
      BY <1>0, <1>3, <3>1, Zenon DEF ApexInv, FaultOK
    <3>3. allowable_deadline_misses[a] <= Len(hits[a]) - opened[a] + 1
      BY <1>3, <1>4, <3>1 DEF WindowOK
    <3> QED
      BY <1>2, <1>6, <2>2, <3>2, <3>3 DEF FaultOK
  <2> QED
    BY <1>6, <2>1, <2>2, Zenon DEF FaultOK, Busy
<1> QED
  <2>1. \A b \in Apps \ {a} : hits'[b] = hits[b] /\ opened'[b] = opened[b] /\ apex'[b] = apex[b]
    BY <1>2
  <2>2. \A k \in DOMAIN hits'[a] : hits'[a][k] <= main.now
    BY <1>2, <1>3
  <2>3. main' \in Busy' => main'.app = a /\ main'.now = main.now
    BY <1>6 DEF Busy
  <2> QED
    BY <1>0, <1>2, <1>3, <1>7, <1>8, <1>9, <2>1, <2>2, <2>3, FaultFrame

(* One more FAULT, not earlier than the others.                             *)
LEMMA HitAppended ==
  ASSUME NEW s \in Seq(Nat), NEW v \in Nat, \A k \in DOMAIN s : s[k] <= v, NEW t, t = Append(s, v)
  PROVE  /\ t \in Seq(Nat) /\ Len(t) = Len(s) + 1 /\ t[Len(t)] = v
         /\ \A k \in DOMAIN t : t[k] <= v
         /\ \A o \in 1..Len(s) :
              /\ t[o] = s[o]
              /\ (\A k \in o..Len(s) : s[o] <= s[k]) => \A k \in o..Len(t) : t[o] <= t[k]
<1>1. Len(s) \in Nat /\ DOMAIN s = 1..Len(s)
  OBVIOUS
<1>2. t \in Seq(Nat) /\ Len(t) = Len(s) + 1 /\ t[Len(s) + 1] = v /\ \A k \in 1..Len(s) : t[k] = s[k]
  OBVIOUS
<1>3. DOMAIN t = 1..(Len(s) + 1) /\ \A k \in 1..Len(s) : s[k] \in Nat
  BY <1>1, <1>2
<1>4. \A k \in DOMAIN t : k \in 1..Len(s) \/ k = Len(s) + 1
  BY <1>1, <1>3
<1>5. \A k \in DOMAIN t : t[k] <= v
  BY <1>1, <1>2, <1>4
<1>6. ASSUME NEW o \in 1..Len(s), NEW k \in o..Len(t), \A j \in o..Len(s) : s[o] <= s[j]
      PROVE  t[o] <= t[k]
  <2>0. Len(s) \in Nat /\ Len(t) = Len(s) + 1 /\ o \in 1..Len(s) /\ k \in o..Len(t)
    BY <1>1, <1>2, <1>6
  <2>1. k \in o..Len(s) \/ k = Len(s) + 1
    <3>1. \A l \in Nat : \A i \in 1..l : \A j \in i..(l + 1) : j \in i..l \/ j = l + 1
      OBVIOUS
    <3> QED  BY <2>0, <3>1
  <2>2. o \in Nat /\ s[o] <= v /\ t[o] = s[o]
    <3>1. o \in DOMAIN s
      BY <1>1, <2>0
    <3> QED
      BY <1>2, <2>0, <3>1
  <2>3. CASE k \in o..Len(s)
    <3>1. k \in 1..Len(s) /\ s[o] <= s[k]
      BY <1>1, <1>6, <2>2, <2>3
    <3> QED
      BY <1>2, <2>2, <3>1
  <2> QED
    BY <1>2, <2>1, <2>2, <2>3
<1> QED
  BY <1>1, <1>2, <1>5, <1>6

(* The FAULT that opens a window is the only one in it.                     *)
LEMMA FaultRestartsPreserves ==
  ASSUME ApexInv, FaultRestarts, NEW a, a = main.app
  PROVE  ApexInv'
<1>1. main.at \in Steps
  BY DEF FaultRestarts, Steps
<1>2. /\ main \in Busy /\ a \in Apps /\ main.now \in Nat /\ now \in Nat
      /\ hits[a] \in Seq(Nat) /\ opened[a] \in Nat \ {0} /\ Len(hits[a]) \in Nat
      /\ DOMAIN hits[a] = 1..Len(hits[a])
      /\ apex[a].dmiss_count \in Nat /\ \A k \in DOMAIN hits[a] : hits[a][k] <= main.now
      /\ period \in Nat
  BY <1>1, FaultTypes
<1>3. WindowOK(a)
  BY <1>2 DEF ApexInv
<1>4. now' = now /\ mail' = mail
  BY DEF FaultRestarts, procVars
<1>5. /\ EntriesOK' /\ apex'[a].dmiss_count = 1 /\ apex'[a].dmiss_time_us = apex[a].dmiss_time_us
      /\ \A b \in Apps \ {a} : apex'[b] = apex[b]
  <2>1. apex' = [apex EXCEPT ![a].dmiss_count = 1]
    BY DEF FaultRestarts
  <2> QED
    BY <1>2, <2>1 DEF ApexInv, EntriesOK, EntryOK, Fields
<1>6. /\ main' \in Busy' /\ main'.at = "stamp" /\ main'.app = a /\ main'.now = main.now
      /\ MainOK'
  <2>1. main' = [main EXCEPT !.at = "stamp"]
    BY DEF FaultRestarts
  <2>2. main' \in Busy /\ main'.at = "stamp" /\ main'.app = a /\ main'.now = main.now
    BY <1>2, <2>1 DEF Busy, Steps
  <2> QED
    BY <1>4, <2>2 DEF ApexInv, MainOK, Busy
<1>7. PICK t : t = Append(hits[a], main.now)
  BY Zenon
<1>8. /\ t \in Seq(Nat) /\ Len(t) = Len(hits[a]) + 1 /\ t[Len(t)] = main.now
      /\ \A k \in DOMAIN t : t[k] <= main.now
      /\ \A o \in 1..Len(hits[a]) :
           /\ t[o] = hits[a][o]
           /\ (\A k \in o..Len(hits[a]) : hits[a][o] <= hits[a][k]) => \A k \in o..Len(t) : t[o] <= t[k]
  <2>1. PICK s, v : s = hits[a] /\ v = main.now
    BY Zenon
  <2>2. s \in Seq(Nat) /\ v \in Nat /\ (\A k \in DOMAIN s : s[k] <= v) /\ t = Append(s, v)
    BY <1>2, <1>7, <2>1, Zenon
  <2>3. /\ t \in Seq(Nat) /\ Len(t) = Len(s) + 1 /\ t[Len(t)] = v
        /\ \A k \in DOMAIN t : t[k] <= v
        /\ \A o \in 1..Len(s) :
             /\ t[o] = s[o]
             /\ (\A k \in o..Len(s) : s[o] <= s[k]) => \A k \in o..Len(t) : t[o] <= t[k]
    BY <2>2, HitAppended
  <2> QED
    BY <2>1, <2>3, Zenon
<1>9. /\ HitsOK' /\ hits'[a] = t /\ opened'[a] = Len(hits[a]) + 1
      /\ \A b \in Apps \ {a} : hits'[b] = hits[b] /\ opened'[b] = opened[b]
  <2>1. hits' = [hits EXCEPT ![a] = t]
    BY <1>7 DEF FaultRestarts
  <2>2. hits' \in [Apps -> Seq(Nat)] /\ hits'[a] = t /\ \A b \in Apps \ {a} : hits'[b] = hits[b]
    BY <1>2, <1>8, <2>1 DEF ApexInv, HitsOK
  <2>3. opened' \in [Apps -> Nat \ {0}] /\ opened'[a] = Len(hits[a]) + 1 /\ \A b \in Apps \ {a} : opened'[b] = opened[b]
    BY <1>2, <1>8, <2>2 DEF ApexInv, HitsOK, FaultRestarts
  <2> QED
    BY <2>2, <2>3 DEF HitsOK
<1>10. WindowOK(a)' /\ FaultOK'
  <2>1. opened'[a] = Len(t) /\ Len(t) \in Nat \ {0} /\ main.now - main.now <= period
    BY <1>2, <1>8, <1>9
  <2>2. WindowOK(a)'
    <3>1. opened'[a] = Len(t) /\ hits'[a] = t /\ apex'[a].dmiss_count = 1 /\ Len(t) \in Nat
      BY <1>5, <1>9, <2>1, Zenon
    <3>2. opened'[a] <= Len(hits'[a]) + 1 /\ apex'[a].dmiss_count <= Len(hits'[a]) - opened'[a] + 1
      BY <3>1
    <3>3. Len(t)..Len(t) = {Len(t)} /\ t[Len(t)] <= t[Len(t)]
      BY <1>2, <1>8, <3>1
    <3>4. \A k \in opened'[a]..Len(hits'[a]) : hits'[a][opened'[a]] <= hits'[a][k]
      BY <3>1, <3>3, Zenon
    <3>5. main' \in Busy' /\ main'.app = a /\ main'.at = "stamp"
      BY <1>6
    <3> QED
      BY <3>2, <3>4, <3>5, Zenon DEF WindowOK
  <2> QED
    BY <1>6, <1>8, <1>9, <2>1, <2>2 DEF FaultOK
<1>11. main' \in Busy' => main'.app = a /\ main'.now = main.now
  BY <1>6, Zenon
<1> QED
  BY <1>2, <1>4, <1>5, <1>6, <1>8, <1>9, <1>10, <1>11, FaultFrame, Zenon

(* Its time is that of the window.                                          *)
LEMMA FaultStampsPreserves ==
  ASSUME ApexInv, FaultStamps, NEW a, a = main.app
  PROVE  ApexInv'
<1>1. main.at \in Steps
  BY DEF FaultStamps, Steps
<1>2. /\ main \in Busy /\ a \in Apps /\ main.now \in Nat /\ now \in Nat
      /\ hits[a] \in Seq(Nat) /\ opened[a] \in Nat \ {0} /\ Len(hits[a]) \in Nat
      /\ DOMAIN hits[a] = 1..Len(hits[a])
      /\ apex[a].dmiss_count \in Nat /\ \A k \in DOMAIN hits[a] : hits[a][k] <= main.now
      /\ period \in Nat
  BY <1>1, FaultTypes
<1>3. WindowOK(a)
  BY <1>2 DEF ApexInv
<1>4. now' = now /\ mail' = mail
  BY DEF FaultStamps, procVars
<1>5. /\ EntriesOK' /\ apex'[a].dmiss_time_us = main.now /\ apex'[a].dmiss_count = apex[a].dmiss_count
      /\ \A b \in Apps \ {a} : apex'[b] = apex[b]
  <2>1. apex' = [apex EXCEPT ![a].dmiss_time_us = main.now]
    BY DEF FaultStamps
  <2> QED
    BY <1>2, <2>1 DEF ApexInv, EntriesOK, EntryOK, Fields
<1>6. /\ main' \in Busy' /\ main'.at = "counted" /\ main'.app = a /\ main'.now = main.now
      /\ MainOK'
  <2>1. main' = [main EXCEPT !.at = "counted"]
    BY DEF FaultStamps
  <2>2. main' \in Busy /\ main'.at = "counted" /\ main'.app = a /\ main'.now = main.now
    BY <1>2, <2>1 DEF Busy, Steps
  <2> QED
    BY <1>4, <2>2 DEF ApexInv, MainOK, Busy
<1>7. /\ HitsOK' /\ hits' = hits /\ opened' = opened
      /\ \A b \in Apps \ {a} : hits'[b] = hits[b] /\ opened'[b] = opened[b]
  BY DEF FaultStamps, ApexInv, HitsOK
<1>8. \A k \in DOMAIN hits'[a] : hits'[a][k] <= main.now
  BY <1>2, <1>7, Zenon
<1>9. WindowOK(a)' /\ FaultOK'
  <2>1. /\ opened[a] <= Len(hits[a]) /\ main.now - hits[a][opened[a]] <= period
        /\ hits[a][opened[a]] = main.now
    BY <1>2, Zenon DEF ApexInv, FaultOK, FaultStamps
  <2>2. WindowOK(a)'
    BY <1>3, <1>5, <1>6, <1>7, <2>1, Zenon DEF WindowOK
  <2> QED
    BY <1>6, <1>7, <2>1, <2>2 DEF FaultOK
<1>10. main' \in Busy' => main'.app = a /\ main'.now = main.now
  BY <1>6, Zenon
<1> QED
  BY <1>2, <1>4, <1>5, <1>6, <1>7, <1>8, <1>9, <1>10, FaultFrame, Zenon


(* A further FAULT is counted once and is in the window.                    *)
LEMMA FaultAddsPreserves ==
  ASSUME ApexInv, FaultAdds, NEW a, a = main.app
  PROVE  ApexInv'
<1>1. main.at \in Steps
  BY DEF FaultAdds, Steps
<1>2. /\ main \in Busy /\ a \in Apps /\ main.now \in Nat /\ now \in Nat
      /\ hits[a] \in Seq(Nat) /\ opened[a] \in Nat \ {0} /\ Len(hits[a]) \in Nat
      /\ DOMAIN hits[a] = 1..Len(hits[a])
      /\ apex[a].dmiss_count \in Nat /\ \A k \in DOMAIN hits[a] : hits[a][k] <= main.now
      /\ period \in Nat
  BY <1>1, FaultTypes
<1>3. WindowOK(a)
  BY <1>2 DEF ApexInv
<1>4. now' = now /\ mail' = mail
  BY DEF FaultAdds, procVars
<1>5. /\ EntriesOK' /\ apex'[a].dmiss_count = apex[a].dmiss_count + 1 /\ apex'[a].dmiss_time_us = apex[a].dmiss_time_us
      /\ \A b \in Apps \ {a} : apex'[b] = apex[b]
  <2>1. apex' = [apex EXCEPT ![a].dmiss_count = apex[a].dmiss_count + 1]
    BY DEF FaultAdds
  <2> QED
    BY <1>2, <2>1 DEF ApexInv, EntriesOK, EntryOK, Fields
<1>6. /\ main' \in Busy' /\ main'.at = "counted" /\ main'.app = a /\ main'.now = main.now
      /\ MainOK'
  <2>1. main' = [main EXCEPT !.at = "counted"]
    BY DEF FaultAdds
  <2>2. main' \in Busy /\ main'.at = "counted" /\ main'.app = a /\ main'.now = main.now
    BY <1>2, <2>1 DEF Busy, Steps
  <2> QED
    BY <1>4, <2>2 DEF ApexInv, MainOK, Busy
<1>7. PICK t : t = Append(hits[a], main.now)
  BY Zenon
<1>8. /\ t \in Seq(Nat) /\ Len(t) = Len(hits[a]) + 1 /\ t[Len(t)] = main.now
      /\ \A k \in DOMAIN t : t[k] <= main.now
      /\ \A o \in 1..Len(hits[a]) :
           /\ t[o] = hits[a][o]
           /\ (\A k \in o..Len(hits[a]) : hits[a][o] <= hits[a][k]) => \A k \in o..Len(t) : t[o] <= t[k]
  <2>1. PICK s, v : s = hits[a] /\ v = main.now
    BY Zenon
  <2>2. s \in Seq(Nat) /\ v \in Nat /\ (\A k \in DOMAIN s : s[k] <= v) /\ t = Append(s, v)
    BY <1>2, <1>7, <2>1, Zenon
  <2>3. /\ t \in Seq(Nat) /\ Len(t) = Len(s) + 1 /\ t[Len(t)] = v
        /\ \A k \in DOMAIN t : t[k] <= v
        /\ \A o \in 1..Len(s) :
             /\ t[o] = s[o]
             /\ (\A k \in o..Len(s) : s[o] <= s[k]) => \A k \in o..Len(t) : t[o] <= t[k]
    BY <2>2, HitAppended
  <2> QED
    BY <2>1, <2>3, Zenon
<1>9. /\ HitsOK' /\ hits'[a] = t /\ opened'[a] = opened[a]
      /\ \A b \in Apps \ {a} : hits'[b] = hits[b] /\ opened'[b] = opened[b]
  <2>1. hits' = [hits EXCEPT ![a] = t]
    BY <1>7 DEF FaultAdds
  <2>2. hits' \in [Apps -> Seq(Nat)] /\ hits'[a] = t /\ \A b \in Apps \ {a} : hits'[b] = hits[b]
    BY <1>2, <1>8, <2>1 DEF ApexInv, HitsOK
  <2>3. opened' \in [Apps -> Nat \ {0}] /\ opened'[a] = opened[a] /\ \A b \in Apps \ {a} : opened'[b] = opened[b]
    BY <1>2, <1>8, <2>2, Zenon DEF ApexInv, HitsOK, FaultAdds
  <2> QED
    BY <2>2, <2>3, Zenon DEF HitsOK
<1>10. WindowOK(a)' /\ FaultOK'
  <2>1. opened[a] <= Len(hits[a]) /\ main.now - hits[a][opened[a]] <= period /\ main.at = "add"
    BY <1>2, Zenon DEF ApexInv, FaultOK, FaultAdds
  <2>2. /\ apex[a].dmiss_count <= Len(hits[a]) - opened[a] + 1
        /\ \A k \in opened[a]..Len(hits[a]) : hits[a][opened[a]] <= hits[a][k]
        /\ apex[a].dmiss_time_us # 0 => apex[a].dmiss_time_us = hits[a][opened[a]]
    BY <1>3, <2>1, Zenon DEF WindowOK
  <2>3. opened[a] \in 1..Len(hits[a])
    BY <1>2, <2>1
  <2>4. t[opened[a]] = hits[a][opened[a]] /\ \A k \in opened[a]..Len(t) : t[opened[a]] <= t[k]
    BY <1>8, <2>2, <2>3, Zenon
  <2>5. opened[a] <= Len(t) /\ apex[a].dmiss_count + 1 <= Len(t) - opened[a] + 1
    <3>1. /\ Len(t) = Len(hits[a]) + 1 /\ opened[a] <= Len(hits[a])
          /\ apex[a].dmiss_count <= Len(hits[a]) - opened[a] + 1
      BY <1>8, <2>1, <2>2, Zenon
    <3>2. Len(hits[a]) \in Nat /\ opened[a] \in Nat /\ apex[a].dmiss_count \in Nat
      BY <1>2, Zenon
    <3>3. \A l, o, c \in Nat : o <= l /\ c <= l - o + 1 => o <= l + 1 /\ c + 1 <= (l + 1) - o + 1
      OBVIOUS
    <3> QED
      BY <3>1, <3>2, <3>3, Zenon
  <2>6. opened[a] <= Len(t) + 1
    <3>1. \A l, o \in Nat : o <= l => o <= l + 1
      OBVIOUS
    <3>2. opened[a] \in Nat /\ Len(t) \in Nat
      BY <1>2, <1>8
    <3> QED
      BY <2>5, <3>1, <3>2, Zenon
  <2>7. WindowOK(a)'
    BY <1>5, <1>9, <2>2, <2>4, <2>5, <2>6, Zenon DEF WindowOK
  <2> QED
    BY <1>6, <1>9, <2>1, <2>4, <2>5, <2>7, Zenon DEF FaultOK
<1>11. main' \in Busy' => main'.app = a /\ main'.now = main.now
  BY <1>6
<1> QED
  BY <1>2, <1>4, <1>5, <1>6, <1>8, <1>9, <1>10, <1>11, FaultFrame, Zenon

(* After a report both are cleared: nothing is counted twice.               *)
LEMMA ReportPreserves ==
  ASSUME ApexInv, FaultClearsCount \/ FaultRecovers, NEW a, a = main.app
  PROVE  ApexInv'
<1>1. main.at \in Steps
  BY Zenon DEF FaultClearsCount, FaultRecovers, Steps
<1>2. main \in Busy /\ a \in Apps /\ main.now \in Nat /\ hits[a] \in Seq(Nat)
      /\ \A k \in DOMAIN hits[a] : hits[a][k] <= main.now
  BY <1>1, FaultTypes, Zenon
<1>3. now' = now /\ mail' = mail
  BY Zenon DEF FaultClearsCount, FaultRecovers, procVars
<1>4. CASE FaultClearsCount
  <2>1. /\ EntriesOK' /\ apex'[a].dmiss_count = 0
        /\ \A b \in Apps \ {a} : apex'[b] = apex[b]
    <3>1. apex' = [apex EXCEPT ![a].dmiss_count = 0]
      BY <1>4 DEF FaultClearsCount
    <3> QED
      BY <1>2, <3>1 DEF ApexInv, EntriesOK, EntryOK, Fields
  <2>2. /\ main' \in Busy' /\ main'.at = "recover" /\ main'.app = a /\ main'.now = main.now
        /\ MainOK'
    <3>1. main' = [main EXCEPT !.at = "recover"]
      BY <1>4 DEF FaultClearsCount
    <3>2. main' \in Busy /\ main'.at = "recover" /\ main'.app = a /\ main'.now = main.now
      BY <1>2, <3>1 DEF Busy, Steps
    <3> QED
      BY <1>3, <3>2 DEF ApexInv, MainOK, Busy
  <2>3. /\ HitsOK' /\ opened'[a] = 1 /\ hits'[a] = <<>>
        /\ \A b \in Apps \ {a} : hits'[b] = hits[b] /\ opened'[b] = opened[b]
    <3>1. <<>> \in Seq(Nat) /\ 1 \in Nat \ {0}
      OBVIOUS
    <3> QED
      BY <1>2, <1>4, <3>1 DEF ApexInv, HitsOK, FaultClearsCount
  <2>4. Len(hits'[a]) = 0 /\ \A k \in DOMAIN hits'[a] : hits'[a][k] <= main.now
    BY <2>3
  <2>5. WindowOK(a)' /\ FaultOK'
    BY <2>1, <2>2, <2>3, <2>4 DEF WindowOK, FaultOK
  <2>6. main' \in Busy' => main'.app = a /\ main'.now = main.now
    BY <2>2
  <2> QED
    BY <1>2, <1>3, <2>1, <2>2, <2>3, <2>4, <2>5, <2>6, FaultFrame, Zenon
<1>5. CASE FaultRecovers
  <2>1. /\ EntriesOK' /\ apex'[a].dmiss_time_us = 0 /\ apex'[a].dmiss_count = apex[a].dmiss_count
        /\ \A b \in Apps \ {a} : apex'[b] = apex[b]
    <3>1. apex' = [apex EXCEPT ![a].dmiss_time_us = 0]
      BY <1>5 DEF FaultRecovers
    <3> QED
      BY <1>2, <3>1 DEF ApexInv, EntriesOK, EntryOK, Fields
  <2>2. main' \notin Busy' /\ MainOK'
    BY <1>3, <1>5 DEF FaultRecovers, ApexInv, MainOK, Idle, Busy
  <2>3. /\ HitsOK' /\ hits' = hits /\ opened' = opened
        /\ \A b \in Apps \ {a} : hits'[b] = hits[b] /\ opened'[b] = opened[b]
    BY <1>5 DEF FaultRecovers, ApexInv, HitsOK
  <2>4. \A k \in DOMAIN hits'[a] : hits'[a][k] <= main.now
    BY <1>2, <2>3
  <2>5. WindowOK(a)' /\ FaultOK'
    <3>1. WindowOK(a)
      BY <1>2, Zenon DEF ApexInv
    <3>2. WindowOK(a)'
      BY <2>1, <2>3, <3>1, Zenon DEF WindowOK
    <3>3. FaultOK'
      BY <2>2, Zenon DEF FaultOK
    <3> QED
      BY <3>2, <3>3
  <2>6. main' \in Busy' => main'.app = a /\ main'.now = main.now
    BY <2>2
  <2> QED
    BY <1>2, <1>3, <2>1, <2>2, <2>3, <2>4, <2>5, <2>6, FaultFrame
<1> QED
  BY <1>4, <1>5

(* Every step of the system keeps the invariant.                            *)
LEMMA ApexNextPreserves == ApexInv /\ [ApexNext]_apexVars => ApexInv'
<1> SUFFICES ASSUME ApexInv, [ApexNext]_apexVars PROVE ApexInv'
  OBVIOUS
<1>1. CASE UNCHANGED apexVars
  BY <1>1, Zenon DEF apexVars, procVars, ApexInv, EntriesOK, EntryOK, MainOK, HitsOK, PastOK, WindowOK, FaultOK, Busy
<1>2. CASE ApexNext
  <2>1. PICK a : a = main.app
    OBVIOUS
  <2>2. CASE MainStep
    BY <2>1, <2>2, UpDownPreserves, ResetPreserves, FaultBeginsPreserves, LooksPreserve,
       FaultRestartsPreserves, FaultStampsPreserves, FaultAddsPreserves, ReportPreserves DEF MainStep
  <2> QED
    BY <1>2, <2>2, OutsidePreserves, TimerPreserves DEF ApexNext
<1> QED
  BY <1>1, <1>2

(* It holds in every state.                                                 *)
LEMMA ApexInvariance == ApexSpec => []ApexInv
BY ApexInitEstablishes, ApexNextPreserves, PTL DEF ApexSpec

(* handle_apex_fault_event reports a deadline miss only when as many FAULTs *)
(* as the application is allowed came within one period, whatever the       *)
(* threads of coredata_timer_handler do between its loads and stores, for   *)
(* any number of applications, processes and timers.                        *)
THEOREM ReportsBacked == ApexSpec => []ReportsAreBacked
BY ApexInvariance, ReportIsBacked, PTL

---------------------------------------------------------------------------
(* How much it may count less                                              *)

(* A timer thread has cleared the count and not yet the time; the main      *)
(* thread has stored the count of a new window and not yet its time.        *)
Clearing(a) == \E i \in Timers : thread[i].at = "cleared" /\ thread[i].app = a
Opening(a) == main.at = "stamp" /\ main.app = a

CountOK(a) ==
  /\ Opening(a) => apex[a].dmiss_count <= 1 /\ opened[a] = Len(hits[a])
  /\ apex[a].dmiss_time_us # 0 /\ ~Clearing(a) /\ ~Opening(a) =>
       Len(hits[a]) - opened[a] <= apex[a].dmiss_count

CountInv == DOMAIN thread = Timers /\ \A a \in Apps : CountOK(a)

(* A step that leaves the window alone and finishes no pair of stores.      *)
LEMMA CountFrame ==
  ASSUME NEW a, CountOK(a), hits'[a] = hits[a], opened'[a] = opened[a],
         apex'[a].dmiss_count = apex[a].dmiss_count, apex'[a].dmiss_time_us = apex[a].dmiss_time_us,
         Opening(a)' <=> Opening(a), Clearing(a) => Clearing(a)'
  PROVE  CountOK(a)'
<1>1. Opening(a)' => apex'[a].dmiss_count <= 1 /\ opened'[a] = Len(hits'[a])
  BY Zenon DEF CountOK
<1>2. apex'[a].dmiss_time_us # 0 /\ ~Clearing(a)' /\ ~Opening(a)' => Len(hits'[a]) - opened'[a] <= apex'[a].dmiss_count
  BY Zenon DEF CountOK
<1> QED
  BY <1>1, <1>2, Zenon DEF CountOK

(* Steps outside, UP, DOWN and the steps that only look.                    *)
LEMMA CountKept ==
  ASSUME ApexInv, CountInv, thread' = thread, UNCHANGED <<hits, opened>>,
         \A a \in Apps : apex'[a].dmiss_count = apex[a].dmiss_count /\ apex'[a].dmiss_time_us = apex[a].dmiss_time_us,
         main.at = "stamp" \/ main'.at = "stamp" => main' = main
  PROVE  CountInv'
<1>1. ASSUME NEW a \in Apps PROVE CountOK(a)'
  <2>1. Opening(a)' <=> Opening(a)
    BY DEF Opening
  <2>2. Clearing(a) => Clearing(a)'
    BY DEF Clearing
  <2>3. CountOK(a)
    BY DEF CountInv
  <2> QED
    BY <2>1, <2>2, <2>3, CountFrame, Zenon
<1> QED
  BY <1>1, Zenon DEF CountInv

(* A timer thread between its load and its last store.                      *)
LEMMA TimerKeepsCount ==
  ASSUME ApexInv, CountInv, NEW i \in Timers, TimerStep(i)
  PROVE  CountInv'
<1>1. UNCHANGED <<main, hits, opened>> /\ DOMAIN thread = Timers /\ EntriesOK
  BY DEF TimerStep, TimerExpires, TimerTests, TimerClearsCount, TimerClearsTime, CountInv, ApexInv
<1>2. \A a : Opening(a)' <=> Opening(a)
  BY <1>1 DEF Opening
<1>3. ASSUME NEW e, thread' = [thread EXCEPT ![i] = e],
             NEW a \in Apps, thread[i].at = "cleared" => thread[i].app # a
      PROVE  Clearing(a) => Clearing(a)'
  <2> SUFFICES ASSUME Clearing(a) PROVE Clearing(a)'
    OBVIOUS
  <2>1. PICK j \in Timers : thread[j].at = "cleared" /\ thread[j].app = a
    BY DEF Clearing
  <2>2. thread'[j] = thread[j]
    BY <1>1, <1>3, <2>1
  <2> QED
    BY <2>1, <2>2 DEF Clearing
<1>4. CASE TimerExpires(i) \/ TimerTests(i)
  <2>1. apex' = apex /\ (\E e : thread' = [thread EXCEPT ![i] = e]) /\ thread[i].at # "cleared"
    BY <1>4 DEF TimerExpires, TimerTests, Idle
  <2>2. PICK e : thread' = [thread EXCEPT ![i] = e]
    BY <2>1, Zenon
  <2>3. ASSUME NEW a \in Apps PROVE CountOK(a)'
    <3>1. CountOK(a)
      BY DEF CountInv
    <3> QED
      BY <1>1, <1>2, <1>3, <2>1, <2>2, <3>1, CountFrame, Zenon
  <2> QED
    BY <1>1, <2>2, <2>3 DEF CountInv
<1>5. CASE TimerClearsCount(i)
  <2>0. PICK b, e : /\ b = thread[i].app /\ e = [thread[i] EXCEPT !.at = "cleared"]
                    /\ thread[i].at = "expired"
                    /\ apex' = [apex EXCEPT ![b].dmiss_count = 0] /\ thread' = [thread EXCEPT ![i] = e]
    BY <1>5, Zenon DEF TimerClearsCount
  <2>1. ASSUME NEW a \in Apps PROVE CountOK(a)'
    <3>1. CountOK(a)
      BY DEF CountInv
    <3>2. CASE a = b
      <4>1. apex'[a].dmiss_count = 0
        BY <1>1, <2>0, <3>2 DEF EntriesOK, EntryOK, Fields
      <4>2. thread'[i].at = "cleared" /\ thread'[i].app = a
        <5>1. e.at = "cleared" /\ e.app = a
          BY <2>0, <3>2
        <5> QED
          BY <1>1, <2>0, <5>1
      <4>3. Clearing(a)'
        BY <4>2 DEF Clearing
      <4>4. Opening(a) => opened[a] = Len(hits[a])
        BY <3>1, Zenon DEF CountOK
      <4>5. Opening(a)' => apex'[a].dmiss_count <= 1 /\ opened'[a] = Len(hits'[a])
        BY <1>1, <1>2, <4>1, <4>4
      <4> QED
        BY <4>3, <4>5, Zenon DEF CountOK
    <3>3. CASE a # b
      <4>1. apex'[a] = apex[a]
        BY <1>1, <2>0, <3>3 DEF EntriesOK
      <4> QED
        BY <1>1, <1>2, <1>3, <2>0, <3>1, <4>1, CountFrame, Zenon
    <3> QED
      BY <3>2, <3>3
  <2> QED
    BY <1>1, <2>0, <2>1 DEF CountInv
<1>6. CASE TimerClearsTime(i)
  <2>0. PICK b : /\ b = thread[i].app /\ apex' = [apex EXCEPT ![b].dmiss_time_us = 0]
                 /\ thread' = [thread EXCEPT ![i] = Idle]
    BY <1>6, Zenon DEF TimerClearsTime
  <2>1. ASSUME NEW a \in Apps PROVE CountOK(a)'
    <3>1. CountOK(a)
      BY DEF CountInv
    <3>2. CASE a = b
      <4>1. apex'[a].dmiss_time_us = 0 /\ apex'[a].dmiss_count = apex[a].dmiss_count
        BY <1>1, <2>0, <3>2 DEF EntriesOK, EntryOK, Fields
      <4>2. Opening(a) => apex[a].dmiss_count <= 1 /\ opened[a] = Len(hits[a])
        BY <3>1, Zenon DEF CountOK
      <4>3. Opening(a)' => apex'[a].dmiss_count <= 1 /\ opened'[a] = Len(hits'[a])
        BY <1>1, <1>2, <4>1, <4>2
      <4> QED
        BY <4>1, <4>3, Zenon DEF CountOK
    <3>3. CASE a # b
      <4>1. apex'[a] = apex[a]
        BY <1>1, <2>0, <3>3 DEF EntriesOK
      <4> QED
        BY <1>1, <1>2, <1>3, <2>0, <3>1, <3>3, <4>1, CountFrame, Zenon
    <3> QED
      BY <3>2, <3>3
  <2> QED
    BY <1>1, <2>0, <2>1 DEF CountInv
<1> QED
  BY <1>4, <1>5, <1>6 DEF TimerStep

(* RESET forgets the window.                                                *)
LEMMA ResetKeepsCount ==
  ASSUME ApexInv, CountInv, handle_apex_reset_event
  PROVE  CountInv'
<1>1. PICK done \in SUBSET Apps :
        /\ apex' = [a \in Apps |-> IF a \in done THEN [apex[a] EXCEPT !.dmiss_count = 0, !.dmiss_time_us = 0]
                                                 ELSE apex[a]]
        /\ hits' = [a \in Apps |-> IF a \in done THEN <<>> ELSE hits[a]]
        /\ opened' = [a \in Apps |-> IF a \in done THEN 1 ELSE opened[a]]
  BY Zenon DEF handle_apex_reset_event
<1>2. main = Idle /\ main' = Idle /\ thread' = thread
  BY ReceivedType, Zenon DEF handle_apex_reset_event, ApexInv
<1>3. \A a : ~Opening(a) /\ ~Opening(a)' /\ (Clearing(a) => Clearing(a)')
  BY <1>2 DEF Opening, Clearing, Idle
<1>4. ASSUME NEW a \in Apps PROVE CountOK(a)'
  <2>1. CASE a \in done
    <3>1. apex'[a].dmiss_time_us = 0
      BY <1>1, <2>1, Zenon DEF ApexInv, EntriesOK, EntryOK, Fields
    <3> QED
      BY <1>3, <3>1, Zenon DEF CountOK
  <2>2. CASE a \notin done
    <3>1. CountOK(a) /\ apex'[a] = apex[a] /\ hits'[a] = hits[a] /\ opened'[a] = opened[a]
      BY <1>1, <2>2, Zenon DEF CountInv
    <3> QED
      BY <1>3, <3>1, CountFrame, Zenon
  <2> QED
    BY <2>1, <2>2
<1> QED
  BY <1>2, <1>4 DEF CountInv

(* A step of a FAULT leaves the other applications alone.                   *)
LEMMA FaultKeepsOthers ==
  ASSUME ApexInv, CountInv, NEW a \in Apps, main.app = a, thread' = thread,
         main'.at = "stamp" => main'.app = a,
         \A b \in Apps \ {a} : hits'[b] = hits[b] /\ opened'[b] = opened[b] /\ apex'[b] = apex[b],
         CountOK(a)'
  PROVE  CountInv'
<1>1. ASSUME NEW b \in Apps PROVE CountOK(b)'
  <2>1. CASE b # a
    <3>1. (Opening(b)' <=> Opening(b)) /\ (Clearing(b) => Clearing(b)')
      BY <2>1, Zenon DEF Opening, Clearing
    <3>2. CountOK(b) /\ hits'[b] = hits[b] /\ opened'[b] = opened[b] /\ apex'[b] = apex[b]
      BY <2>1, Zenon DEF CountInv
    <3> QED
      BY <3>1, <3>2, CountFrame, Zenon
  <2> QED
    BY <2>1, Zenon
<1> QED
  BY <1>1, Zenon DEF CountInv

(* A new window has counted its first FAULT or nothing when it gets its     *)
(* time, and what is added later is not cleared without closing it.         *)
LEMMA FaultKeepsCount ==
  ASSUME ApexInv, ApexInv', CountInv,
         FaultRestarts \/ FaultStamps \/ FaultAdds \/ FaultClearsCount \/ FaultRecovers, NEW a, a = main.app
  PROVE  CountInv'
<1>1. main.at \in Steps
  BY Zenon DEF FaultRestarts, FaultStamps, FaultAdds, FaultClearsCount, FaultRecovers, Steps
<1>2. /\ main \in Busy /\ a \in Apps /\ main.now \in Nat /\ hits[a] \in Seq(Nat)
      /\ opened[a] \in Nat \ {0} /\ Len(hits[a]) \in Nat
      /\ apex[a].dmiss_count \in Nat
  BY <1>1, FaultTypes, Zenon
<1>3. CountOK(a) /\ EntriesOK /\ HitsOK
  BY <1>2, Zenon DEF CountInv, ApexInv
<1>4. thread' = thread /\ (Clearing(a)' <=> Clearing(a))
  BY Zenon DEF FaultRestarts, FaultStamps, FaultAdds, FaultClearsCount, FaultRecovers, Clearing
<1>5. CASE FaultRestarts
  <2>1. /\ apex' = [apex EXCEPT ![a].dmiss_count = 1] /\ main' = [main EXCEPT !.at = "stamp"]
        /\ hits' = [hits EXCEPT ![a] = Append(@, main.now)]
        /\ opened' = [opened EXCEPT ![a] = Len(hits'[a])]
    BY <1>5 DEF FaultRestarts
  <2>2. main'.at = "stamp" /\ main'.app = a
    BY <1>2, <2>1 DEF Busy
  <2>3. apex'[a].dmiss_count = 1 /\ opened'[a] = Len(hits'[a])
    BY <1>2, <1>3, <2>1 DEF EntriesOK, EntryOK, Fields, HitsOK
  <2>4. \A b \in Apps \ {a} : hits'[b] = hits[b] /\ opened'[b] = opened[b] /\ apex'[b] = apex[b]
    BY <1>3, <2>1, Zenon DEF EntriesOK, HitsOK
  <2>5. CountOK(a)'
    BY <2>2, <2>3 DEF CountOK, Opening
  <2> QED
    BY <1>2, <1>4, <2>2, <2>4, <2>5, FaultKeepsOthers, Zenon
<1>6. CASE FaultStamps
  <2>1. /\ apex' = [apex EXCEPT ![a].dmiss_time_us = main.now] /\ main' = [main EXCEPT !.at = "counted"]
        /\ UNCHANGED <<hits, opened>> /\ main.at = "stamp"
    BY <1>6 DEF FaultStamps
  <2>2. main'.at = "counted" /\ apex'[a].dmiss_count = apex[a].dmiss_count
    BY <1>2, <1>3, <2>1 DEF Busy, EntriesOK, EntryOK, Fields
  <2>3. \A b \in Apps \ {a} : hits'[b] = hits[b] /\ opened'[b] = opened[b] /\ apex'[b] = apex[b]
    BY <1>3, <2>1 DEF EntriesOK
  <2>4. opened[a] = Len(hits[a])
    BY <1>3, <2>1 DEF CountOK, Opening
  <2>5. Len(hits'[a]) - opened'[a] <= apex'[a].dmiss_count /\ ~Opening(a)'
    BY <1>2, <2>1, <2>2, <2>4 DEF Opening
  <2>6. CountOK(a)'
    BY <2>5, Zenon DEF CountOK
  <2> QED
    BY <1>2, <1>4, <2>2, <2>3, <2>6, FaultKeepsOthers, Zenon
<1>7. CASE FaultAdds
  <2>1. /\ apex' = [apex EXCEPT ![a].dmiss_count = @ + 1] /\ main' = [main EXCEPT !.at = "counted"]
        /\ hits' = [hits EXCEPT ![a] = Append(@, main.now)] /\ opened' = opened /\ main.at = "add"
    BY <1>7 DEF FaultAdds
  <2>2. main'.at = "counted" /\ apex'[a].dmiss_count = apex[a].dmiss_count + 1
        /\ apex'[a].dmiss_time_us = apex[a].dmiss_time_us
    BY <1>2, <1>3, <2>1 DEF Busy, EntriesOK, EntryOK, Fields
  <2>3. \A b \in Apps \ {a} : hits'[b] = hits[b] /\ opened'[b] = opened[b] /\ apex'[b] = apex[b]
    BY <1>3, <2>1 DEF EntriesOK, HitsOK
  <2>4. Len(hits'[a]) = Len(hits[a]) + 1
    <3>1. hits'[a] = Append(hits[a], main.now)
      BY <1>2, <1>3, <2>1 DEF HitsOK
    <3> QED
      BY <1>2, <3>1
  <2>5. ~Opening(a) /\ ~Opening(a)'
    BY <2>1, <2>2 DEF Opening
  <2>6. apex[a].dmiss_time_us # 0 /\ ~Clearing(a) => Len(hits[a]) - opened[a] <= apex[a].dmiss_count
    BY <1>3, <2>5, Zenon DEF CountOK
  <2>7. apex'[a].dmiss_time_us # 0 /\ ~Clearing(a)' => Len(hits'[a]) - opened'[a] <= apex'[a].dmiss_count
    BY <1>2, <1>4, <2>1, <2>2, <2>4, <2>6
  <2>8. CountOK(a)'
    BY <2>5, <2>7, Zenon DEF CountOK
  <2> QED
    BY <1>2, <1>4, <2>2, <2>3, <2>8, FaultKeepsOthers, Zenon
<1>8. CASE FaultClearsCount
  <2>1. /\ apex' = [apex EXCEPT ![a].dmiss_count = 0] /\ main' = [main EXCEPT !.at = "recover"]
        /\ hits' = [hits EXCEPT ![a] = <<>>] /\ opened' = [opened EXCEPT ![a] = 1]
    BY <1>8 DEF FaultClearsCount
  <2>2. main'.at = "recover" /\ apex'[a].dmiss_count = 0
    BY <1>2, <1>3, <2>1 DEF Busy, EntriesOK, EntryOK, Fields
  <2>3. \A b \in Apps \ {a} : hits'[b] = hits[b] /\ opened'[b] = opened[b] /\ apex'[b] = apex[b]
    BY <1>3, <2>1 DEF EntriesOK, HitsOK
  <2>4. Len(hits'[a]) = 0 /\ opened'[a] = 1
    BY <1>2, <1>3, <2>1 DEF HitsOK
  <2>5. Len(hits'[a]) - opened'[a] <= apex'[a].dmiss_count /\ ~Opening(a)'
    BY <2>2, <2>4 DEF Opening
  <2>6. CountOK(a)'
    BY <2>5, Zenon DEF CountOK
  <2> QED
    BY <1>2, <1>4, <2>2, <2>3, <2>6, FaultKeepsOthers, Zenon
<1>9. CASE FaultRecovers
  <2>1. /\ apex' = [apex EXCEPT ![a].dmiss_time_us = 0] /\ main' = Idle /\ UNCHANGED <<hits, opened>>
    BY <1>9 DEF FaultRecovers
  <2>2. main'.at # "stamp" /\ apex'[a].dmiss_time_us = 0
    BY <1>2, <1>3, <2>1 DEF Idle, EntriesOK, EntryOK, Fields
  <2>3. \A b \in Apps \ {a} : hits'[b] = hits[b] /\ opened'[b] = opened[b] /\ apex'[b] = apex[b]
    BY <1>3, <2>1 DEF EntriesOK
  <2>4. CountOK(a)'
    BY <2>2 DEF CountOK, Opening
  <2> QED
    BY <1>2, <1>4, <2>2, <2>3, <2>4, FaultKeepsOthers, Zenon
<1> QED
  BY <1>5, <1>6, <1>7, <1>8, <1>9, Zenon

(* UP, DOWN and the first load of a FAULT change no counter.                *)
LEMMA LooksKeepCount ==
  ASSUME ApexInv, CountInv,
         handle_apex_up_event \/ handle_apex_down_event \/ FaultBegins \/ FaultLoads \/ FaultTests
  PROVE  CountInv'
<1>1. UNCHANGED <<thread, hits, opened>>
  BY Zenon DEF handle_apex_up_event, handle_apex_down_event, FaultBegins, FaultLoads, FaultTests
<1>2. \A a \in Apps : /\ apex'[a].dmiss_count = apex[a].dmiss_count
                      /\ apex'[a].dmiss_time_us = apex[a].dmiss_time_us
  <2>1. CASE handle_apex_up_event \/ handle_apex_down_event
    BY <2>1, CountersKept, Zenon
  <2>2. CASE FaultBegins
    <3>1. PICK b, pid : apex' = [apex EXCEPT ![b].pid = pid]
      BY <2>2, Zenon DEF FaultBegins
    <3> QED
      BY <3>1 DEF ApexInv, EntriesOK, EntryOK, Fields
  <2>3. CASE FaultLoads \/ FaultTests
    BY <2>3 DEF FaultLoads, FaultTests
  <2> QED
    BY <2>1, <2>2, <2>3, Zenon
<1>3. main.at = "stamp" \/ main'.at = "stamp" => main' = main
  <2>1. CASE handle_apex_up_event \/ handle_apex_down_event
    BY <2>1, Zenon DEF handle_apex_up_event, handle_apex_down_event
  <2>2. CASE FaultBegins
    <3>1. main = Idle /\ (main' = main \/ \E a : main' = [at |-> "clock", app |-> a, now |-> now])
      BY <2>2, Zenon DEF FaultBegins, Received
    <3> QED
      BY <3>1 DEF Idle
  <2>3. CASE FaultLoads \/ FaultTests
    <3>1. /\ main.at \in {"clock", "counted"} /\ main.at \in Steps
          /\ main' = Idle \/ \E x \in {"restart", "add", "reported"} : main' = [main EXCEPT !.at = x]
      BY <2>3 DEF FaultLoads, FaultTests, Steps
    <3>2. main \in Busy
      BY <3>1, BusyType DEF ApexInv
    <3> QED
      BY <3>1, <3>2 DEF Idle, Busy
  <2> QED
    BY <2>1, <2>2, <2>3
<1> QED
  BY <1>1, <1>2, <1>3, CountKept

(* Every step keeps what is known of the counts.                            *)
LEMMA CountInvariance == ApexSpec => []CountInv
<1>1. ApexInit => CountInv
  <2> SUFFICES ASSUME ApexInit PROVE CountInv
    OBVIOUS
  <2>1. /\ main = Idle /\ DOMAIN thread = Timers
        /\ apex = [a \in Apps |-> [pid |-> 0, nspid |-> 0, coredata_timer |-> 0,
                                   dmiss_time_us |-> 0, dmiss_count |-> 0]]
    BY Zenon DEF ApexInit
  <2>2. \A a \in Apps : apex[a].dmiss_time_us = 0 /\ ~Opening(a)
    BY <2>1, Zenon DEF Opening, Idle
  <2> QED
    BY <2>1, <2>2, Zenon DEF CountInv, CountOK
<1>2. ApexInv /\ ApexInv' /\ CountInv /\ [ApexNext]_apexVars => CountInv'
  <2> SUFFICES ASSUME ApexInv, ApexInv', CountInv, [ApexNext]_apexVars PROVE CountInv'
    OBVIOUS
  <2>0. PICK a : a = main.app
    OBVIOUS
  <2>1. CASE Tick \/ SendReset \/ (\E p \in Procs : Launch(p) \/ Miss(p) \/ Exit(p)) \/ UNCHANGED apexVars
    <3>1. UNCHANGED <<thread, hits, opened, apex, main>>
      BY <2>1, Zenon DEF Tick, SendReset, Launch, Miss, Exit, apexVars
    <3> QED
      BY <3>1, CountKept, Zenon
  <2>2. CASE MainStep
    BY <2>0, <2>2, LooksKeepCount, ResetKeepsCount, FaultKeepsCount DEF MainStep
  <2> QED
    BY <2>1, <2>2, TimerKeepsCount DEF ApexNext
<1> QED
  BY <1>1, <1>2, ApexInvariance, PTL DEF ApexSpec

(* When nobody is in a handler, an open window has counted every FAULT      *)
(* since it opened, but for at most one, whatever the timer threads did.    *)
THEOREM OneMissLost == ApexSpec => []AtMostOneMissIsLost
<1>1. ApexInv /\ CountInv => AtMostOneMissIsLost
  <2> SUFFICES ASSUME ApexInv, CountInv, NEW a \in Apps, Quiet(a), apex[a].dmiss_time_us # 0
               PROVE  apex[a].dmiss_count \in {(Len(hits[a]) - opened[a] + 1) - 1, Len(hits[a]) - opened[a] + 1}
    BY Zenon DEF AtMostOneMissIsLost
  <2>1. ~Opening(a)
    BY Zenon DEF Opening, Quiet, Idle
  <2>2. ~Clearing(a)
    BY DEF Clearing, Quiet, Idle
  <2>3. Len(hits[a]) - opened[a] <= apex[a].dmiss_count
    BY <2>1, <2>2, Zenon DEF CountInv, CountOK
  <2>4. apex[a].dmiss_count <= Len(hits[a]) - opened[a] + 1
    BY Zenon DEF ApexInv, WindowOK
  <2>5. apex[a].dmiss_count \in Nat /\ opened[a] \in Nat /\ hits[a] \in Seq(Nat)
    BY DEF ApexInv, EntriesOK, EntryOK, HitsOK
  <2>6. Len(hits[a]) \in Nat
    BY <2>5
  <2>7. PICK c \in Nat, l \in Nat, o \in Nat : c = apex[a].dmiss_count /\ l = Len(hits[a]) /\ o = opened[a]
    BY <2>5, <2>6, Zenon
  <2>8. c = (l - o + 1) - 1 \/ c = l - o + 1
    BY <2>3, <2>4, <2>7
  <2> QED
    BY <2>7, <2>8, Zenon
<1> QED
  BY <1>1, ApexInvariance, CountInvariance, PTL
=============================================================================
