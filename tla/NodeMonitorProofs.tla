------------------------- MODULE NodeMonitorProofs -------------------------
(***************************************************************************)
(* Proofs about what a C Timpani-N watches, for any tasks, CPUs, processes *)
(* and bounds.                                                             *)
(*  - The scheduling statistics: for IntervalsAreOrdered the invariant says*)
(*    that what the maps hold began after all that was reported.           *)
(*  - The coredata timers of Apex.OS, for UPs, DOWNs and crashes in any    *)
(*    order: what is still in the socket decides whose DOWN comes next.    *)
(***************************************************************************)
EXTENDS NodeMonitor, WellFoundedInduction, TLAPS

(* A node runs one of the two and leaves the state of the other alone, so   *)
(* what is proved of either holds of the node.                              *)
THEOREM RunsEither == MonitorSpec => ApexSpec /\ StatSpec
<1>1. MonitorInit => ApexInit /\ StatInit
  BY Zenon DEF MonitorInit
<1>2. [MonitorNext]_monitorVars => [ApexNext]_apexVars /\ [StatNext]_statVars
  BY Zenon DEF MonitorNext, Apex, monitorVars
<1> QED
  BY <1>1, <1>2, PTL DEF MonitorSpec, ApexSpec, StatSpec

Messages == [type : {"UP", "DOWN", "FAULT", "RESET"}, app : Apps, nspid : Nat]
Fields == {"pid", "nspid", "coredata_timer", "dmiss_time_us", "dmiss_count"}

ShapeOK == mail \in Seq(Messages) /\ DOMAIN apex = Apps /\ \A a \in Apps : DOMAIN apex[a] = Fields

(* The steps of the main thread and the timer threads but UP and DOWN.      *)
OtherThreads ==
  \/ Tick \/ handle_apex_reset_event \/ \E i \in Timers : TimerStep(i)
  \/ FaultBegins \/ FaultLoads \/ FaultRestarts \/ FaultStamps \/ FaultAdds
  \/ FaultTests \/ FaultClearsCount \/ FaultRecovers \/ UNCHANGED apexVars

(* They store at most the pid, the count or the time of an entry.           *)
LEMMA OthersStore ==
  ASSUME OtherThreads
  PROVE  \/ apex' = apex
         \/ \E b, v : apex' = [apex EXCEPT ![b].dmiss_count = v]
         \/ \E b, v : apex' = [apex EXCEPT ![b].dmiss_time_us = v]
         \/ \E b, v : apex' = [apex EXCEPT ![b].pid = v]
         \/ \E D : apex' = [a \in Apps |-> IF a \in D THEN [apex[a] EXCEPT !.dmiss_count = 0, !.dmiss_time_us = 0]
                                                      ELSE apex[a]]
<1>1. Tick \/ FaultLoads \/ FaultTests \/ UNCHANGED apexVars => apex' = apex
  BY Zenon DEF Tick, FaultLoads, FaultTests, apexVars
<1>2. ASSUME NEW i \in Timers, TimerStep(i)
      PROVE  \/ apex' = apex
             \/ \E b, v : apex' = [apex EXCEPT ![b].dmiss_count = v]
             \/ \E b, v : apex' = [apex EXCEPT ![b].dmiss_time_us = v]
  BY <1>2, Zenon DEF TimerStep, TimerExpires, TimerTests, TimerClearsCount, TimerClearsTime
<1>3. FaultRestarts \/ FaultAdds \/ FaultClearsCount => \E b, v : apex' = [apex EXCEPT ![b].dmiss_count = v]
  BY Zenon DEF FaultRestarts, FaultAdds, FaultClearsCount
<1>4. FaultStamps \/ FaultRecovers => \E b, v : apex' = [apex EXCEPT ![b].dmiss_time_us = v]
  BY Zenon DEF FaultStamps, FaultRecovers
<1>5. FaultBegins => \E b, v : apex' = [apex EXCEPT ![b].pid = v]
  BY Zenon DEF FaultBegins
<1>6. handle_apex_reset_event =>
        \E D : apex' = [a \in Apps |-> IF a \in D THEN [apex[a] EXCEPT !.dmiss_count = 0, !.dmiss_time_us = 0]
                                                  ELSE apex[a]]
  BY Zenon DEF handle_apex_reset_event
<1> QED
  BY <1>1, <1>2, <1>3, <1>4, <1>5, <1>6, Zenon DEF OtherThreads

(* So they leave the nspids and the timers.                                 *)
LEMMA OthersLeaveNsPids ==
  ASSUME ShapeOK, OtherThreads
  PROVE  /\ DOMAIN apex' = Apps
         /\ \A a \in Apps : /\ DOMAIN apex'[a] = Fields
                            /\ apex'[a].nspid = apex[a].nspid /\ apex'[a].coredata_timer = apex[a].coredata_timer
<1>1. DOMAIN apex = Apps /\ \A a \in Apps : DOMAIN apex[a] = Fields
  BY DEF ShapeOK
<1> DEFINE Same(e, f) == DOMAIN f = Fields /\ f.nspid = e.nspid /\ f.coredata_timer = e.coredata_timer
<1>2. ASSUME NEW b, NEW f, b \in Apps => Same(apex[b], f), apex' = [apex EXCEPT ![b] = f]
      PROVE  DOMAIN apex' = Apps /\ \A a \in Apps : Same(apex[a], apex'[a])
  BY <1>1, <1>2
<1>3. \A e, v : DOMAIN e = Fields => /\ Same(e, [e EXCEPT !.dmiss_count = v])
                                    /\ Same(e, [e EXCEPT !.dmiss_time_us = v])
                                    /\ Same(e, [e EXCEPT !.pid = v])
                                    /\ Same(e, [e EXCEPT !.dmiss_count = 0, !.dmiss_time_us = 0])
  BY DEF Fields
<1> HIDE DEF Same
<1>4. ASSUME NEW D, apex' = [a \in Apps |-> IF a \in D THEN [apex[a] EXCEPT !.dmiss_count = 0, !.dmiss_time_us = 0]
                                                      ELSE apex[a]]
      PROVE  DOMAIN apex' = Apps /\ \A a \in Apps : Same(apex[a], apex'[a])
  <2>1. \A e : DOMAIN e = Fields => Same(e, e)
    BY DEF Same
  <2> QED
    BY <1>1, <1>3, <1>4, <2>1, Zenon
<1>5. \/ apex' = apex
      \/ \E b, v : apex' = [apex EXCEPT ![b] = [apex[b] EXCEPT !.dmiss_count = v]]
      \/ \E b, v : apex' = [apex EXCEPT ![b] = [apex[b] EXCEPT !.dmiss_time_us = v]]
      \/ \E b, v : apex' = [apex EXCEPT ![b] = [apex[b] EXCEPT !.pid = v]]
      \/ \E D : apex' = [a \in Apps |-> IF a \in D THEN [apex[a] EXCEPT !.dmiss_count = 0, !.dmiss_time_us = 0]
                                                   ELSE apex[a]]
  BY OthersStore, Zenon
<1>6. apex' = apex => DOMAIN apex' = Apps /\ \A a \in Apps : Same(apex[a], apex'[a])
  BY <1>1 DEF Same
<1>7. DOMAIN apex' = Apps /\ \A a \in Apps : Same(apex[a], apex'[a])
  BY <1>1, <1>2, <1>3, <1>4, <1>5, <1>6, ZenonT(60)
<1> QED
  BY <1>7 DEF Same

(* What UP and DOWN do to an entry.                                         *)
LEMMA UpDownStore ==
  ASSUME ShapeOK, handle_apex_up_event \/ handle_apex_down_event
  PROVE  DOMAIN apex' = Apps /\ \A a \in Apps : DOMAIN apex'[a] = Fields
<1>1. DOMAIN apex = Apps /\ \A a \in Apps : DOMAIN apex[a] = Fields
  BY DEF ShapeOK
<1>2. ASSUME NEW b, NEW f, b \in Apps => DOMAIN f = Fields, apex' = [apex EXCEPT ![b] = f]
      PROVE  DOMAIN apex' = Apps /\ \A a \in Apps : DOMAIN apex'[a] = Fields
  BY <1>1, <1>2
<1>3. CASE handle_apex_up_event
  <2>1. PICK b, v, w : LET entry == [apex[b] EXCEPT !.pid = v, !.nspid = w] IN
          coredata_create_timer(b, entry) \/ apex' = [apex EXCEPT ![b] = entry]
    BY <1>3, Zenon DEF handle_apex_up_event
  <2> DEFINE entry == [apex[b] EXCEPT !.pid = v, !.nspid = w]
  <2>2. b \in Apps => DOMAIN entry = Fields
    BY <1>1
  <2>3. apex' = [apex EXCEPT ![b] = entry] \/ \E i : apex' = [apex EXCEPT ![b] = [entry EXCEPT !.coredata_timer = i]]
    BY <2>1, Zenon DEF coredata_create_timer
  <2> HIDE DEF entry
  <2>4. \A i : b \in Apps => DOMAIN [entry EXCEPT !.coredata_timer = i] = Fields
    BY <2>2
  <2> QED
    BY <1>2, <2>2, <2>3, <2>4, Zenon
<1>4. CASE handle_apex_down_event
  <2>1. PICK b : apex' = apex \/ apex' = [apex EXCEPT ![b].pid = 0, ![b].nspid = 0]
    BY <1>4, Zenon DEF handle_apex_down_event
  <2> QED
    BY <1>1, <2>1
<1> QED
  BY <1>3, <1>4

(* The shape of the entries and of the datagrams, which no step changes.    *)
LEMMA ShapeIsKept ==
  ASSUME ShapeOK, [ApexNext]_apexVars
  PROVE  ShapeOK'
<1>1. mail' \in Seq(Messages)
  <2>1. \/ mail' = mail
        \/ mail # <<>> /\ mail' = Tail(mail)
        \/ \E p \in Procs, t \in {"UP", "DOWN", "FAULT", "RESET"} : Send(t, p)
    <3>1. OtherThreads \/ handle_apex_up_event \/ handle_apex_down_event =>
            mail' = mail \/ (mail # <<>> /\ mail' = Tail(mail))
      BY ZenonT(60) DEF OtherThreads, Received, handle_apex_up_event, handle_apex_down_event, handle_apex_reset_event,
           Tick, TimerStep, TimerExpires, TimerTests, TimerClearsCount, TimerClearsTime,
           FaultBegins, FaultLoads, FaultRestarts, FaultStamps, FaultAdds, FaultTests, FaultClearsCount,
           FaultRecovers, apexVars, procVars
    <3>2. ASSUME NEW p \in Procs, Launch(p) \/ Miss(p) \/ Exit(p) \/ Send("RESET", p)
          PROVE  mail' = mail \/ \E t \in {"UP", "DOWN", "FAULT", "RESET"} : Send(t, p)
      BY <3>2, Zenon DEF Launch, Miss, Exit
    <3> QED
      BY <3>1, <3>2, Zenon DEF ApexNext, MainStep, SendReset, OtherThreads
  <2>2. ASSUME NEW p \in Procs, NEW t \in {"UP", "DOWN", "FAULT", "RESET"}, Send(t, p)
        PROVE  mail' \in Seq(Messages)
    <3>1. [type |-> t, app |-> AppOf[p], nspid |-> NsPidOf[p]] \in Messages
      BY ApexAssumption DEF Messages
    <3> QED
      BY <2>2, <3>1 DEF Send, ShapeOK
  <2>3. mail # <<>> /\ mail' = Tail(mail) => mail' \in Seq(Messages)
    BY DEF ShapeOK
  <2> QED
    BY <2>1, <2>2, <2>3 DEF ShapeOK
<1>2. DOMAIN apex' = Apps /\ \A a \in Apps : DOMAIN apex'[a] = Fields
  <2>1. SendReset \/ (\E p \in Procs : Launch(p) \/ Miss(p) \/ Exit(p)) => apex' = apex
    BY Zenon DEF SendReset, Launch, Miss, Exit
  <2>2. OtherThreads \/ handle_apex_up_event \/ handle_apex_down_event \/ apex' = apex
    BY <2>1, Zenon DEF ApexNext, MainStep, OtherThreads
  <2> QED
    BY <2>2, OthersLeaveNsPids, UpDownStore DEF ShapeOK
<1> QED
  BY <1>1, <1>2 DEF ShapeOK

(* What is taken out of the socket.                                         *)
LEMMA ReceivedType ==
  ASSUME ShapeOK, NEW t, Received(t)
  PROVE  /\ mail # <<>> /\ mail' = Tail(mail) /\ 1 \in DOMAIN mail
         /\ Head(mail) = mail[1] /\ mail[1].type = t /\ mail[1].app \in Apps
<1>1. mail \in Seq(Messages) /\ mail # <<>> /\ mail' = Tail(mail) /\ Head(mail).type = t
  BY DEF ShapeOK, Received
<1>2. Head(mail) = mail[1] /\ mail[1] \in Messages /\ 1 \in DOMAIN mail
  BY <1>1
<1> QED
  BY <1>1, <1>2 DEF Messages

(* What a process leaves in the socket: after the message at k the next UP  *)
(* or DOWN of its application is its own DOWN, or there is none and it      *)
(* still runs.  R are the nspids of the running processes.                  *)
LifeMsg(m, a) == m.type \in {"UP", "DOWN"} /\ m.app = a
Down(a, ns) == [type |-> "DOWN", app |-> a, nspid |-> ns]

Ends(s, k, a, ns, R) ==
  \/ \E j \in DOMAIN s : /\ j > k /\ s[j] = Down(a, ns)
                         /\ \A h \in DOMAIN s : k < h /\ h < j => ~LifeMsg(s[h], a)
  \/ ns \in R /\ \A h \in DOMAIN s : k < h => ~LifeMsg(s[h], a)

UpsEnd(s, a, R) == \A k \in DOMAIN s : s[k].type = "UP" /\ s[k].app = a => Ends(s, k, a, s[k].nspid, R)

Alive(a) == {NsPidOf[p] : p \in {q \in Procs : AppOf[q] = a /\ life[q] = "run"}}
Crashed(a) == \E p \in Procs : AppOf[p] = a /\ life[p] = "crashed"
Named(a, ns) == \E p \in Procs : AppOf[p] = a /\ NsPidOf[p] = ns

TimerTypes ==
  /\ live \in [Timers -> Apps \cup {NoApp}]
  /\ \A a \in Apps : /\ apex[a].coredata_timer \in Timers \cup {0}
                     /\ apex[a].nspid # 0 => Named(a, apex[a].nspid)

LivesOK ==
  /\ \A k \in DOMAIN mail : Named(mail[k].app, mail[k].nspid)
  /\ DOMAIN life = Procs
  /\ \A p, q \in Procs : life[p] = "run" /\ life[q] = "run" /\ AppOf[p] = AppOf[q] => p = q

UpHasTimer ==
  ~failedUp => \A a \in Apps : apex[a].nspid # 0 =>
                 apex[a].coredata_timer \in Timers /\ live[apex[a].coredata_timer] = a

(* The one timer of an application without crash is that of the process     *)
(* that is up                                                               *)
Owned(a) ==
  \A i \in Timers : live[i] = a =>
    apex[a].coredata_timer = i /\ apex[a].nspid # 0 /\ Ends(mail, 0, a, apex[a].nspid, Alive(a))

TimersOK(a) == Crashed(a) \/ (Owned(a) /\ UpsEnd(mail, a, Alive(a)))

TimerInv == ShapeOK /\ TimerTypes /\ LivesOK /\ UpHasTimer /\ (OwnNsPids => \A a \in Apps : TimersOK(a))

(* A message is taken out of the socket.                                    *)
LEMMA EndsTail ==
  ASSUME NEW s \in Seq(Messages), s # <<>>, NEW k \in Nat, NEW l \in Nat, NEW a, NEW ns, NEW R,
         Ends(s, k, a, ns, R), k = l + 1 \/ (k = 0 /\ l = 0 /\ ~LifeMsg(s[1], a))
  PROVE  Ends(Tail(s), l, a, ns, R)
<1> DEFINE t == Tail(s)
<1>1. /\ DOMAIN s = 1..Len(s) /\ Len(s) \in Nat /\ Len(s) >= 1 /\ DOMAIN t = 1..(Len(s) - 1)
      /\ \A h \in DOMAIN t : h + 1 \in DOMAIN s /\ t[h] = s[h + 1]
  OBVIOUS
<1> HIDE DEF t
<1>2. \A h \in DOMAIN t : h \in Nat /\ (l < h => k < h + 1)
  BY <1>1
<1>3. CASE ns \in R /\ \A h \in DOMAIN s : k < h => ~LifeMsg(s[h], a)
  <2>1. \A h \in DOMAIN t : l < h => ~LifeMsg(t[h], a)
    BY <1>1, <1>2, <1>3
  <2> QED
    BY <1>3, <2>1 DEF Ends, t
<1>4. CASE \E j \in DOMAIN s : /\ j > k /\ s[j] = Down(a, ns)
                               /\ \A h \in DOMAIN s : k < h /\ h < j => ~LifeMsg(s[h], a)
  <2>1. PICK j \in DOMAIN s : /\ j > k /\ s[j] = Down(a, ns)
                              /\ \A h \in DOMAIN s : k < h /\ h < j => ~LifeMsg(s[h], a)
    BY <1>4
  <2>2. LifeMsg(s[j], a)
    BY <2>1 DEF LifeMsg, Down
  <2>3. PICK i \in DOMAIN t : j = i + 1 /\ i > l
    <3>1. j - 1 \in DOMAIN t /\ j = (j - 1) + 1 /\ j - 1 > l
      BY <1>1, <2>1, <2>2
    <3> QED
      BY <3>1
  <2>4. t[i] = Down(a, ns)
    BY <1>1, <2>1, <2>3
  <2>5. ASSUME NEW h \in DOMAIN t, l < h, h < i PROVE ~LifeMsg(t[h], a)
    <3>1. k < h + 1 /\ h + 1 < j /\ h + 1 \in DOMAIN s
      BY <1>1, <1>2, <2>3, <2>5
    <3> QED
      BY <1>1, <2>1, <3>1
  <2> QED
    BY <2>3, <2>4, <2>5 DEF Ends, t
<1> QED
  BY <1>3, <1>4 DEF Ends

(* A message is sent: a DOWN of the running process, or no UP or DOWN of    *)
(* its application.                                                         *)
LEMMA EndsAppend ==
  ASSUME NEW s \in Seq(Messages), NEW x \in Messages, NEW k \in 0..Len(s), NEW a, NEW ns, NEW R, NEW S,
         Ends(s, k, a, ns, R),
         ns \in R => IF LifeMsg(x, a) THEN x = Down(a, ns) ELSE ns \in S
  PROVE  Ends(Append(s, x), k, a, ns, S)
<1> DEFINE t == Append(s, x)
<1>1. /\ DOMAIN s = 1..Len(s) /\ Len(s) \in Nat /\ DOMAIN t = 1..(Len(s) + 1) /\ t[Len(s) + 1] = x
      /\ \A h \in DOMAIN s : h \in DOMAIN t /\ t[h] = s[h]
  OBVIOUS
<1> HIDE DEF t
<1>2. CASE \E j \in DOMAIN s : /\ j > k /\ s[j] = Down(a, ns)
                               /\ \A h \in DOMAIN s : k < h /\ h < j => ~LifeMsg(s[h], a)
  <2>1. PICK j \in DOMAIN s : /\ j > k /\ s[j] = Down(a, ns)
                              /\ \A h \in DOMAIN s : k < h /\ h < j => ~LifeMsg(s[h], a)
    BY <1>2
  <2>2. j \in DOMAIN t /\ t[j] = Down(a, ns)
    BY <1>1, <2>1
  <2>3. \A h \in DOMAIN t : h < j => h \in DOMAIN s
    BY <1>1
  <2>4. \A h \in DOMAIN t : k < h /\ h < j => ~LifeMsg(t[h], a)
    BY <1>1, <2>1, <2>3
  <2> QED
    BY <2>1, <2>2, <2>4 DEF Ends, t
<1>3. CASE ns \in R /\ \A h \in DOMAIN s : k < h => ~LifeMsg(s[h], a)
  <2>1. \A h \in DOMAIN t : h \in DOMAIN s \/ h = Len(s) + 1
    BY <1>1
  <2>2. CASE LifeMsg(x, a)
    <3>1. PICK j \in DOMAIN t : j = Len(s) + 1 /\ j > k /\ t[j] = Down(a, ns)
      BY <1>1, <1>3, <2>2
    <3>2. \A h \in DOMAIN t : h < j => h \in DOMAIN s
      BY <1>1, <3>1
    <3>3. \A h \in DOMAIN t : k < h /\ h < j => ~LifeMsg(t[h], a)
      BY <1>1, <1>3, <3>2
    <3> QED
      BY <3>1, <3>3 DEF Ends, t
  <2>3. CASE ~LifeMsg(x, a)
    <3>1. \A h \in DOMAIN t : k < h => ~LifeMsg(t[h], a)
      BY <1>1, <1>3, <2>1, <2>3
    <3>2. ns \in S
      BY <1>3, <2>3
    <3> QED
      BY <3>1, <3>2 DEF Ends, t
  <2> QED
    BY <2>2, <2>3
<1> QED
  BY <1>2, <1>3 DEF Ends

(* The first UP or DOWN of an application that is up is the DOWN of its     *)
(* process.                                                                 *)
LEMMA EndsFirst ==
  ASSUME NEW s \in Seq(Messages), s # <<>>, NEW a, NEW ns, NEW R, Ends(s, 0, a, ns, R), LifeMsg(s[1], a)
  PROVE  s[1] = Down(a, ns)
<1>1. 1 \in DOMAIN s /\ \A j \in DOMAIN s : j \in Nat /\ j >= 1
  OBVIOUS
<1>2. PICK j \in DOMAIN s : /\ s[j] = Down(a, ns)
                            /\ \A h \in DOMAIN s : 0 < h /\ h < j => ~LifeMsg(s[h], a)
  BY <1>1 DEF Ends
<1>3. j = 1
  BY <1>1, <1>2
<1> QED
  BY <1>2, <1>3

(* The same for all UPs in the socket.                                      *)
LEMMA UpsTail ==
  ASSUME NEW s \in Seq(Messages), s # <<>>, NEW a, NEW R, UpsEnd(s, a, R)
  PROVE  UpsEnd(Tail(s), a, R)
<1> SUFFICES ASSUME NEW k \in DOMAIN Tail(s), Tail(s)[k].type = "UP", Tail(s)[k].app = a
             PROVE  Ends(Tail(s), k, a, Tail(s)[k].nspid, R)
  BY DEF UpsEnd
<1>1. k \in Nat /\ k + 1 \in Nat /\ k + 1 \in DOMAIN s /\ Tail(s)[k] = s[k + 1]
  OBVIOUS
<1>2. Ends(s, k + 1, a, s[k + 1].nspid, R)
  BY <1>1 DEF UpsEnd
<1>3. PICK n, ns : n = k + 1 /\ n \in Nat /\ ns = s[k + 1].nspid /\ Ends(s, n, a, ns, R)
  BY <1>1, <1>2
<1>4. Ends(Tail(s), k, a, ns, R)
  BY <1>1, <1>3, EndsTail
<1> QED
  BY <1>1, <1>3, <1>4

(* ... and when a message is sent.                                          *)
LEMMA UpsAppend ==
  ASSUME NEW s \in Seq(Messages), NEW x \in Messages, NEW a, NEW R, NEW S, UpsEnd(s, a, R),
         \A ns \in R : IF LifeMsg(x, a) THEN x = Down(a, ns) ELSE ns \in S,
         x.type = "UP" /\ x.app = a => x.nspid \in S
  PROVE  UpsEnd(Append(s, x), a, S)
<1>0. PICK t : t = Append(s, x)
  BY Zenon
<1>1. /\ DOMAIN s = 1..Len(s) /\ Len(s) \in Nat /\ DOMAIN t = 1..(Len(s) + 1) /\ t[Len(s) + 1] = x
      /\ \A h \in DOMAIN s : t[h] = s[h]
  BY <1>0
<1>2. ASSUME NEW k \in DOMAIN t, t[k].type = "UP", t[k].app = a PROVE Ends(t, k, a, t[k].nspid, S)
  <2>1. CASE k \in DOMAIN s
    <3>1. PICK ns : ns = s[k].nspid /\ ns = t[k].nspid /\ Ends(s, k, a, ns, R) /\ k \in 0..Len(s)
      BY <1>1, <1>2, <2>1 DEF UpsEnd
    <3>2. ns \in R => IF LifeMsg(x, a) THEN x = Down(a, ns) ELSE ns \in S
      OBVIOUS
    <3>3. Ends(Append(s, x), k, a, ns, S)
      BY <3>1, <3>2, EndsAppend
    <3> QED
      BY <1>0, <3>1, <3>3
  <2>2. CASE k = Len(s) + 1
    <3>1. t[k].nspid \in S /\ \A h \in DOMAIN t : ~(k < h)
      BY <1>1, <1>2, <2>2
    <3> QED
      BY <3>1 DEF Ends
  <2> QED
    BY <1>1, <2>1, <2>2
<1> QED
  BY <1>0, <1>2 DEF UpsEnd

(* A process that starts changes nothing for the others.                    *)
LEMMA EndsMono ==
  ASSUME NEW s, NEW a, NEW R, NEW S, R \subseteq S
  PROVE  /\ \A k, ns : Ends(s, k, a, ns, R) => Ends(s, k, a, ns, S)
         /\ UpsEnd(s, a, R) => UpsEnd(s, a, S)
<1>1. \A k, ns : Ends(s, k, a, ns, R) => Ends(s, k, a, ns, S)
  BY DEF Ends
<1> QED
  BY <1>1 DEF UpsEnd

(* What a process does, seen from an application: a crash, no message, or   *)
(* one that ends what ran.                                                  *)
LEMMA AppSends ==
  ASSUME NEW a \in Apps, mail \in Seq(Messages), TimersOK(a), UNCHANGED <<apex, live>>,
         Crashed(a) => Crashed(a)',
         \/ Crashed(a)'
         \/ mail' = mail /\ Alive(a) \subseteq Alive(a)'
         \/ \E x \in Messages : /\ mail' = Append(mail, x)
                                /\ \A ns \in Alive(a) : IF LifeMsg(x, a) THEN x = Down(a, ns) ELSE ns \in Alive(a)'
                                /\ x.type = "UP" /\ x.app = a => x.nspid \in Alive(a)'
  PROVE  TimersOK(a)'
<1> SUFFICES ASSUME ~Crashed(a)' PROVE Owned(a)' /\ UpsEnd(mail, a, Alive(a))'
  BY DEF TimersOK
<1>1. Owned(a) /\ UpsEnd(mail, a, Alive(a))
  BY DEF TimersOK
<1>2. PICK R, S : R = Alive(a) /\ S = Alive(a)'
  OBVIOUS
<1>3. UpsEnd(mail', a, S) /\ \A ns : Ends(mail, 0, a, ns, R) => Ends(mail', 0, a, ns, S)
  <2>1. CASE mail' = mail /\ R \subseteq S
    BY <1>1, <1>2, <2>1, EndsMono
  <2>2. CASE ~(mail' = mail /\ R \subseteq S)
    <3>1. PICK x \in Messages : /\ mail' = Append(mail, x)
                                /\ \A ns \in R : IF LifeMsg(x, a) THEN x = Down(a, ns) ELSE ns \in S
                                /\ x.type = "UP" /\ x.app = a => x.nspid \in S
      BY <1>2, <2>2
    <3>2. UpsEnd(mail, a, R)
      BY <1>1, <1>2
    <3>3. UpsEnd(Append(mail, x), a, S)
      BY <3>1, <3>2, UpsAppend
    <3>4. ASSUME NEW ns, Ends(mail, 0, a, ns, R) PROVE Ends(Append(mail, x), 0, a, ns, S)
      <4>1. 0 \in 0..Len(mail) /\ (ns \in R => IF LifeMsg(x, a) THEN x = Down(a, ns) ELSE ns \in S)
        BY <3>1
      <4> QED
        BY <3>4, <4>1, EndsAppend
    <3> QED
      BY <3>1, <3>3, <3>4
  <2> QED
    BY <2>1, <2>2
<1>4. UpsEnd(mail, a, Alive(a))'
  BY <1>2, <1>3, Zenon
<1>5. Owned(a)'
  BY <1>1, <1>2, <1>3, Zenon DEF Owned
<1> QED
  BY <1>4, <1>5

(* The processes send their UPs and DOWNs in the order of their lives.      *)
LEMMA ProcessKeepsTimers ==
  ASSUME TimerInv, ShapeOK', SendReset \/ \E p \in Procs : Launch(p) \/ Miss(p) \/ Exit(p)
  PROVE  TimerInv'
<1>1. PICK p \in Procs : (SendReset /\ Send("RESET", p)) \/ Launch(p) \/ Miss(p) \/ Exit(p)
  BY DEF SendReset
<1>2. UNCHANGED <<apex, live, failedUp>> /\ mail \in Seq(Messages) /\ DOMAIN life = Procs /\ AppOf[p] \in Apps
  <2>1. UNCHANGED <<apex, live, failedUp>>
    BY <1>1, Zenon DEF SendReset, Launch, Miss, Exit
  <2>2. mail \in Seq(Messages) /\ DOMAIN life = Procs
    BY DEF ShapeOK, TimerInv, LivesOK
  <2>3. AppOf[p] \in Apps
    BY ApexAssumption
  <2> QED
    BY <2>1, <2>2, <2>3
<1>3. ASSUME NEW t \in {"UP", "DOWN", "FAULT", "RESET"}, Send(t, p)
      PROVE  \E x \in Messages : /\ x.type = t /\ x.app = AppOf[p] /\ x.nspid = NsPidOf[p]
                                 /\ x = [type |-> t, app |-> AppOf[p], nspid |-> NsPidOf[p]]
                                 /\ mail' = Append(mail, x)
  <2>1. [type |-> t, app |-> AppOf[p], nspid |-> NsPidOf[p]] \in Messages
    BY <1>2, ApexAssumption DEF Messages
  <2> QED
    BY <1>3, <2>1 DEF Send
<1>4. \/ mail' = mail
      \/ \E x \in Messages : mail' = Append(mail, x) /\ x.app = AppOf[p] /\ x.nspid = NsPidOf[p]
  <2>1. mail' = mail \/ \E t \in {"UP", "DOWN", "FAULT", "RESET"} : Send(t, p)
    BY <1>1, Zenon DEF Launch, Miss, Exit
  <2> QED
    BY <1>3, <2>1, Zenon
<1>5. \A k \in DOMAIN mail' : Named(mail'[k].app, mail'[k].nspid)
  <2>1. \A k \in DOMAIN mail : Named(mail[k].app, mail[k].nspid)
    BY DEF TimerInv, LivesOK
  <2>2. ASSUME NEW x \in Messages, mail' = Append(mail, x), x.app = AppOf[p], x.nspid = NsPidOf[p]
        PROVE  \A k \in DOMAIN mail' : Named(mail'[k].app, mail'[k].nspid)
    <3>1. Named(x.app, x.nspid)
      BY <2>2 DEF Named
    <3>2. \A k \in DOMAIN Append(mail, x) : (k \in DOMAIN mail /\ Append(mail, x)[k] = mail[k]) \/ Append(mail, x)[k] = x
      BY <1>2
    <3> QED
      BY <2>1, <2>2, <3>1, <3>2
  <2> QED
    BY <1>4, <2>1, <2>2
<1>6. /\ \A q, r \in Procs : life[q] = "run" /\ life[r] = "run" /\ AppOf[q] = AppOf[r] => q = r
  BY DEF TimerInv, LivesOK
<1>7. DOMAIN life' = Procs /\ \A q \in Procs : q # p => life'[q] = life[q]
  BY <1>1, <1>2, Zenon DEF SendReset, Launch, Miss, Exit
<1>8. LivesOK'
  <2>1. life'[p] = "run" => life[p] = "run" \/ \A q \in Procs : AppOf[q] = AppOf[p] => life[q] # "run"
    BY <1>1, <1>2, Zenon DEF SendReset, Launch, Miss, Exit
  <2>2. \A q, r \in Procs : life'[q] = "run" /\ life'[r] = "run" /\ AppOf[q] = AppOf[r] => q = r
    BY <1>6, <1>7, <2>1, ZenonT(60)
  <2> QED
    BY <1>5, <1>7, <2>2, Zenon DEF LivesOK
<1>9. TimerTypes' /\ UpHasTimer'
  BY <1>2, Zenon DEF TimerInv, TimerTypes, UpHasTimer
<1>10. ASSUME OwnNsPids, NEW a \in Apps PROVE TimersOK(a)'
  <2>1. TimersOK(a)
    BY <1>10 DEF TimerInv
  <2>2. Crashed(a) => Crashed(a)'
    <3>1. \A q \in Procs : life[q] = "crashed" => life'[q] = "crashed" \/ q = p
      BY <1>7, Zenon
    <3>2. life[p] = "crashed" => life'[p] = "crashed"
      BY <1>1, <1>2, Zenon DEF SendReset, Launch, Miss, Exit
    <3> QED
      BY <3>1, <3>2, Zenon DEF Crashed
  <2>3. a # AppOf[p] \/ life' = life => Alive(a)' = Alive(a)
    BY <1>7 DEF Alive
  <2>4. CASE a # AppOf[p] \/ life' = life
    <3>1. mail' = mail => TimersOK(a)'
      BY <1>2, <2>1, <2>2, <2>3, <2>4, AppSends, Zenon
    <3>2. ASSUME NEW x \in Messages, mail' = Append(mail, x), ~LifeMsg(x, a) PROVE TimersOK(a)'
      <4>1. x.type = "UP" => x.app # a
        BY <3>2 DEF LifeMsg
      <4> QED
        BY <1>2, <2>1, <2>2, <2>3, <2>4, <3>2, <4>1, AppSends, Zenon
    <3>3. mail' = mail \/ \E x \in Messages : mail' = Append(mail, x) /\ ~LifeMsg(x, a)
      <4>1. CASE a # AppOf[p]
        BY <1>4, <4>1 DEF LifeMsg
      <4>2. CASE life' = life
        <5>1. Send("RESET", p) \/ Send("FAULT", p)
          BY <1>1, <1>2, <4>2, Zenon DEF Launch, Miss, Exit
        <5>2. PICK x \in Messages : mail' = Append(mail, x) /\ x.type \in {"RESET", "FAULT"}
          BY <1>3, <5>1
        <5> QED
          BY <5>2, Zenon DEF LifeMsg
      <4> QED
        BY <2>4, <4>1, <4>2
    <3> QED
      BY <3>1, <3>2, <3>3, Zenon
  <2>5. CASE a = AppOf[p] /\ life' # life
    <3>1. Launch(p) \/ Exit(p)
      BY <1>1, <2>5, Zenon DEF SendReset, Miss
    <3>2. CASE Launch(p)
      <4>1. Alive(a) = {} /\ NsPidOf[p] \in Alive(a)'
        BY <1>2, <2>5, <3>2, Zenon DEF Launch, Alive
      <4>2. mail' = mail => TimersOK(a)'
        BY <1>2, <2>1, <2>2, <4>1, AppSends, Zenon
      <4>3. ASSUME Send("UP", p) PROVE TimersOK(a)'
        <5>1. PICK x \in Messages : mail' = Append(mail, x) /\ x.nspid = NsPidOf[p]
          BY <1>3, <4>3, Zenon
        <5> QED
          BY <1>2, <2>1, <2>2, <4>1, <5>1, AppSends, Zenon
      <4> QED
        BY <3>2, <4>2, <4>3, Zenon DEF Launch
    <3>3. CASE Exit(p)
      <4>1. CASE life' = [life EXCEPT ![p] = "crashed"]
        <5>1. Crashed(a)'
          BY <1>2, <2>5, <4>1, Zenon DEF Crashed
        <5> QED
          BY <5>1 DEF TimersOK
      <4>2. CASE Send("DOWN", p)
        <5>1. \A ns \in Alive(a) : ns = NsPidOf[p]
          BY <1>6, <2>5, <3>3, Zenon DEF Exit, Alive
        <5>2. PICK x \in Messages : mail' = Append(mail, x) /\ x = Down(a, NsPidOf[p]) /\ x.type = "DOWN" /\ x.app = a
          BY <1>3, <2>5, <4>2, Zenon DEF Down
        <5>3. LifeMsg(x, a) /\ x.type # "UP" /\ \A ns \in Alive(a) : x = Down(a, ns)
          BY <5>1, <5>2 DEF LifeMsg
        <5> QED
          BY <1>2, <2>1, <2>2, <5>2, <5>3, AppSends, Zenon
      <4> QED
        BY <3>3, <4>1, <4>2 DEF Exit
    <3> QED
      BY <3>1, <3>2, <3>3, Zenon
  <2> QED
    BY <2>4, <2>5
<1> QED
  BY <1>8, <1>9, <1>10 DEF TimerInv

(* What is left in the socket when a message is taken out, for an           *)
(* application it is not about.                                             *)
LEMMA TakenFromOthers ==
  ASSUME mail \in Seq(Messages), mail # <<>>, mail' = Tail(mail), UNCHANGED life,
         NEW a \in Apps, ~Crashed(a)', TimersOK(a)
  PROVE  /\ Alive(a)' = Alive(a) /\ ~Crashed(a) /\ Owned(a) /\ UpsEnd(mail, a, Alive(a))
         /\ UpsEnd(mail, a, Alive(a))'
         /\ ~LifeMsg(mail[1], a) => \A ns : Ends(mail, 0, a, ns, Alive(a)) => Ends(mail, 0, a, ns, Alive(a))'
<1>1. Alive(a)' = Alive(a) /\ ~Crashed(a)
  BY DEF Alive, Crashed
<1>2. Owned(a) /\ UpsEnd(mail, a, Alive(a))
  BY <1>1 DEF TimersOK
<1>3. PICK R : R = Alive(a)
  OBVIOUS
<1>4. UpsEnd(Tail(mail), a, R)
  BY <1>2, <1>3, UpsTail
<1>5. ~LifeMsg(mail[1], a) => \A ns : Ends(mail, 0, a, ns, R) => Ends(Tail(mail), 0, a, ns, R)
  BY EndsTail, Zenon
<1> QED
  BY <1>1, <1>2, <1>3, <1>4, <1>5, Zenon

(* What is left was in it before.                                           *)
LEMMA TakenKeepsLives ==
  ASSUME mail \in Seq(Messages), mail # <<>>, mail' = Tail(mail), UNCHANGED life, LivesOK
  PROVE  LivesOK'
<1>1. \A k \in DOMAIN Tail(mail) : k + 1 \in DOMAIN mail /\ Tail(mail)[k] = mail[k + 1]
  OBVIOUS
<1>2. \A k \in DOMAIN mail' : Named(mail'[k].app, mail'[k].nspid)
  BY <1>1, Zenon DEF LivesOK
<1> QED
  BY <1>2, Zenon DEF LivesOK

(* A step that is no UP and no DOWN leaves the nspids and timers alone.     *)
LEMMA OthersKeepTimers ==
  ASSUME TimerInv, ShapeOK', UNCHANGED <<live, life, failedUp>>,
         \A a \in Apps : apex'[a].nspid = apex[a].nspid /\ apex'[a].coredata_timer = apex[a].coredata_timer,
         \/ mail' = mail
         \/ mail # <<>> /\ mail' = Tail(mail) /\ mail[1].type \notin {"UP", "DOWN"}
  PROVE  TimerInv'
<1>1. TimerTypes'
  BY Zenon DEF TimerInv, TimerTypes
<1>2. UpHasTimer'
  BY Zenon DEF TimerInv, UpHasTimer
<1>3. LivesOK'
  <2>1. mail' = mail => LivesOK'
    BY Zenon DEF TimerInv, LivesOK
  <2> QED
    BY <2>1, TakenKeepsLives, Zenon DEF TimerInv, ShapeOK
<1>4. ASSUME OwnNsPids, NEW a \in Apps PROVE TimersOK(a)'
  <2>1. TimersOK(a)
    BY <1>4, Zenon DEF TimerInv
  <2>2. CASE mail' = mail
    <3>1. Alive(a)' = Alive(a) /\ Crashed(a)' = Crashed(a)
      BY Zenon DEF Alive, Crashed
    <3>2. Owned(a) => Owned(a)'
      BY <2>2, <3>1, Zenon DEF Owned
    <3> QED
      BY <2>1, <2>2, <3>1, <3>2, Zenon DEF TimersOK
  <2>3. CASE mail # <<>> /\ mail' = Tail(mail) /\ ~LifeMsg(mail[1], a) /\ ~Crashed(a)'
    <3>1. /\ Owned(a) /\ UpsEnd(mail, a, Alive(a))'
          /\ \A ns : Ends(mail, 0, a, ns, Alive(a)) => Ends(mail, 0, a, ns, Alive(a))'
      BY <2>1, <2>3, TakenFromOthers, Zenon DEF TimerInv, ShapeOK
    <3>2. Owned(a)'
      BY <3>1, Zenon DEF Owned
    <3> QED
      BY <3>1, <3>2, Zenon DEF TimersOK
  <2> QED
    BY <2>2, <2>3, Zenon DEF LifeMsg, TimersOK
<1> QED
  BY <1>1, <1>2, <1>3, <1>4, Zenon DEF TimerInv

(* Those are all steps of the main thread and the timer threads but two.    *)
LEMMA ThreadsKeepTimers ==
  ASSUME TimerInv, ShapeOK', OtherThreads
  PROVE  TimerInv'
<1>1. UNCHANGED <<live, life, failedUp>>
  BY ZenonT(60) DEF OtherThreads, Tick, handle_apex_reset_event,
         TimerStep, TimerExpires, TimerTests, TimerClearsCount, TimerClearsTime,
         FaultBegins, FaultLoads, FaultRestarts, FaultStamps, FaultAdds, FaultTests, FaultClearsCount,
         FaultRecovers, apexVars, procVars
<1>2. ShapeOK
  BY DEF TimerInv
<1>3. \/ mail' = mail
      \/ mail # <<>> /\ mail' = Tail(mail) /\ mail[1].type \notin {"UP", "DOWN"}
  <2>1. UNCHANGED mail \/ Received("RESET") \/ Received("FAULT")
    BY ZenonT(60) DEF OtherThreads, Tick, handle_apex_reset_event,
           TimerStep, TimerExpires, TimerTests, TimerClearsCount, TimerClearsTime,
           FaultBegins, FaultLoads, FaultRestarts, FaultStamps, FaultAdds, FaultTests, FaultClearsCount,
           FaultRecovers, apexVars, procVars
  <2> QED
    BY <1>2, <2>1, ReceivedType
<1>4. \A a \in Apps : apex'[a].nspid = apex[a].nspid /\ apex'[a].coredata_timer = apex[a].coredata_timer
  BY <1>2, OthersLeaveNsPids, Zenon
<1> QED
  BY <1>1, <1>3, <1>4, OthersKeepTimers, Zenon

(* An UP gives a timer to an application that had none.                     *)
LEMMA UpKeepsTimers ==
  ASSUME TimerInv, ShapeOK', handle_apex_up_event
  PROVE  TimerInv'
<1>0. PICK a, ns0, pid :
        /\ a = Head(mail).app /\ ns0 = Head(mail).nspid
        /\ LET entry == [apex[a] EXCEPT !.pid = pid, !.nspid = ns0] IN
           \/ coredata_create_timer(a, entry)
           \/ apex' = [apex EXCEPT ![a] = entry] /\ failedUp' = TRUE /\ UNCHANGED live
  BY Zenon DEF handle_apex_up_event
<1> DEFINE entry == [apex[a] EXCEPT !.pid = pid, !.nspid = ns0]
<1>1. Received("UP") /\ UNCHANGED life
  BY DEF handle_apex_up_event
<1>2. /\ mail \in Seq(Messages) /\ mail # <<>> /\ mail' = Tail(mail) /\ 1 \in DOMAIN mail
      /\ mail[1].type = "UP" /\ mail[1].app = a /\ mail[1].nspid = ns0 /\ a \in Apps /\ ShapeOK
  BY <1>0, <1>1, ReceivedType, Zenon DEF TimerInv, ShapeOK
<1>3. Named(a, ns0) /\ ns0 # 0
  <2>1. Named(a, ns0)
    BY <1>2 DEF TimerInv, LivesOK
  <2> QED
    BY <2>1, ApexAssumption, Zenon DEF Named
<1>4. /\ DOMAIN entry = Fields /\ entry.nspid = ns0 /\ entry.coredata_timer = apex[a].coredata_timer
      /\ \A i : [entry EXCEPT !.coredata_timer = i].nspid = ns0
      /\ \A i : [entry EXCEPT !.coredata_timer = i].coredata_timer = i
  BY <1>2 DEF ShapeOK, Fields
<1>5. \/ /\ failedUp' = TRUE /\ UNCHANGED live /\ apex' = [apex EXCEPT ![a] = entry]
      \/ \E i \in Timers : /\ live[i] = NoApp /\ live' = [live EXCEPT ![i] = a] /\ failedUp' = failedUp
                           /\ apex' = [apex EXCEPT ![a] = [entry EXCEPT !.coredata_timer = i]]
  BY <1>0, Zenon DEF coredata_create_timer
<1> HIDE DEF entry
<1>6. \/ /\ failedUp' = TRUE /\ live' = live
         /\ apex'[a].nspid = ns0 /\ apex'[a].coredata_timer = apex[a].coredata_timer
      \/ \E i \in Timers : /\ live[i] = NoApp /\ live' = [live EXCEPT ![i] = a] /\ failedUp' = failedUp
                           /\ apex'[a].nspid = ns0 /\ apex'[a].coredata_timer = i
  <2>1. DOMAIN apex = Apps
    BY <1>2 DEF ShapeOK
  <2>2. ASSUME NEW e, apex' = [apex EXCEPT ![a] = e] PROVE apex'[a] = e
    BY <1>2, <2>1, <2>2
  <2>3. ASSUME NEW i, apex' = [apex EXCEPT ![a] = [entry EXCEPT !.coredata_timer = i]]
        PROVE  apex'[a].nspid = ns0 /\ apex'[a].coredata_timer = i
    <3>1. apex'[a] = [entry EXCEPT !.coredata_timer = i]
      BY <2>2, <2>3, Zenon
    <3> QED
      BY <1>4, <3>1
  <2>4. apex' = [apex EXCEPT ![a] = entry] =>
          apex'[a].nspid = ns0 /\ apex'[a].coredata_timer = apex[a].coredata_timer
    BY <1>4, <2>2, Zenon
  <2> QED
    BY <1>5, <2>3, <2>4
<1>7. \A b \in Apps : b # a => apex'[b] = apex[b]
  BY <1>2, <1>5 DEF ShapeOK
<1>8. TimerTypes
  BY DEF TimerInv
<1>9. NoApp \notin Apps
  BY ApexAssumption
<1>10. TimerTypes'
  BY <1>2, <1>3, <1>6, <1>7, <1>8, Zenon DEF TimerTypes
<1>11. LivesOK'
  BY <1>1, <1>2, TakenKeepsLives DEF TimerInv
<1>12. UpHasTimer'
  <2> SUFFICES ASSUME ~failedUp', NEW b \in Apps, apex'[b].nspid # 0
               PROVE  apex'[b].coredata_timer \in Timers /\ live'[apex'[b].coredata_timer] = b
    BY Zenon DEF UpHasTimer
  <2>1. PICK i \in Timers : /\ live[i] = NoApp /\ live' = [live EXCEPT ![i] = a] /\ failedUp' = failedUp
                            /\ apex'[a].coredata_timer = i
    BY <1>6, Zenon
  <2>2. DOMAIN live = Timers
    BY <1>8, Zenon DEF TimerTypes
  <2>3. CASE b = a
    BY <2>1, <2>2, <2>3
  <2>4. CASE b # a
    <3>1. PICK j : j = apex[b].coredata_timer /\ j = apex'[b].coredata_timer /\ j \in Timers /\ live[j] = b
      BY <1>7, <2>1, <2>4, Zenon DEF TimerInv, UpHasTimer
    <3>2. j # i
      BY <1>9, <2>1, <3>1
    <3> QED
      BY <2>1, <2>2, <3>1, <3>2, Zenon
  <2> QED
    BY <2>3, <2>4
<1>13. ASSUME OwnNsPids, NEW b \in Apps PROVE TimersOK(b)'
  <2> SUFFICES ASSUME ~Crashed(b)' PROVE Owned(b)' /\ UpsEnd(mail, b, Alive(b))'
    BY Zenon DEF TimersOK
  <2>1. /\ Alive(b)' = Alive(b) /\ Owned(b) /\ UpsEnd(mail, b, Alive(b)) /\ UpsEnd(mail, b, Alive(b))'
        /\ ~LifeMsg(mail[1], b) => \A ns : Ends(mail, 0, b, ns, Alive(b)) => Ends(mail, 0, b, ns, Alive(b))'
    <3>1. TimersOK(b)
      BY <1>13 DEF TimerInv
    <3> QED
      BY <1>1, <1>2, <3>1, TakenFromOthers, Zenon
  <2>2. DOMAIN live = Timers
    BY <1>8, Zenon DEF TimerTypes
  <2>3. CASE b = a
    <3>1. \A i \in Timers : live[i] # a
      <4> SUFFICES ASSUME NEW i \in Timers, live[i] = a PROVE FALSE
        OBVIOUS
      <4>1. PICK ns, R : Ends(mail, 0, a, ns, R)
        BY <2>1, <2>3, Zenon DEF Owned
      <4>2. mail[1] = Down(a, ns)
        <5>1. LifeMsg(mail[1], a)
          BY <1>2 DEF LifeMsg
        <5> QED
          BY <1>2, <4>1, <5>1, EndsFirst, Zenon
      <4> QED
        BY <1>2, <4>2 DEF Down
    <3>2. Ends(mail, 0, a, ns0, Alive(b))'
      <4>1. PICK R, ns, one : R = Alive(b) /\ ns = ns0 /\ one = 1 /\ one \in Nat /\ Ends(mail, one, a, ns, R)
        BY <1>2, <2>1, <2>3, Zenon DEF UpsEnd
      <4>2. Ends(Tail(mail), 0, a, ns, R)
        <5>1. one = 0 + 1 /\ 0 \in Nat
          BY <4>1
        <5> QED
          BY <1>2, <4>1, <5>1, EndsTail, Zenon
      <4> QED
        BY <1>2, <2>1, <4>1, <4>2, Zenon
    <3>3. ASSUME NEW i \in Timers, live'[i] = a
          PROVE  apex'[a].coredata_timer = i /\ apex'[a].nspid = ns0
      BY <1>6, <2>2, <3>1, <3>3, Zenon
    <3> QED
      BY <1>3, <2>1, <2>3, <3>2, <3>3, Zenon DEF Owned
  <2>4. CASE b # a
    <3>1. ~LifeMsg(mail[1], b)
      BY <1>2, <2>4, Zenon DEF LifeMsg
    <3>2. \A i \in Timers : live'[i] = b => live[i] = b
      BY <1>6, <2>2, <2>4, Zenon
    <3>3. \A i \in Timers : live'[i] = b => apex'[b].coredata_timer = i /\ apex'[b].nspid # 0
                                            /\ Ends(mail, 0, b, apex[b].nspid, Alive(b))
      BY <1>7, <2>1, <2>4, <3>2, Zenon DEF Owned
    <3>4. \A ns : Ends(mail, 0, b, ns, Alive(b)) => Ends(mail, 0, b, ns, Alive(b))'
      BY <2>1, <3>1
    <3> QED
      BY <1>7, <2>1, <2>4, <3>3, <3>4, Zenon DEF Owned
  <2> QED
    BY <2>3, <2>4
<1> QED
  BY <1>10, <1>11, <1>12, <1>13 DEF TimerInv

(* The first entry of the list with a property is one of them.              *)
LEMMA FirstIsOne ==
  ASSUME NEW S, S \subseteq Nat, S # {}
  PROVE  Min(S) \in S
<1>1. PICK x \in S : \A y \in S : ~(<<y, x>> \in OpToRel(<, Nat))
  BY NatLessThanWellFounded, WFMin, Zenon
<1>2. \A y \in S : ~(y < x)
  BY <1>1, Zenon DEF OpToRel
<1>3. \E z \in S : \A y \in S : z <= y
  BY <1>2
<1> QED
  BY <1>3, Zenon DEF Min

(* A DOWN deletes the timer of the application that is up with that nspid;  *)
(* where nspids are not shared, that is the one that sent it.               *)
LEMMA DownKeepsTimers ==
  ASSUME TimerInv, ShapeOK', handle_apex_down_event
  PROVE  TimerInv'
<1>0. PICK a, ns0 : a = Head(mail).app /\ ns0 = Head(mail).nspid
  OBVIOUS
<1>1. Received("DOWN") /\ UNCHANGED <<life, failedUp>>
  BY Zenon DEF handle_apex_down_event
<1>2. /\ mail \in Seq(Messages) /\ mail # <<>> /\ mail' = Tail(mail) /\ 1 \in DOMAIN mail
      /\ mail[1].type = "DOWN" /\ mail[1].app = a /\ mail[1].nspid = ns0 /\ a \in Apps /\ ShapeOK
  BY <1>0, <1>1, ReceivedType, Zenon DEF TimerInv, ShapeOK
<1>3. Named(a, ns0) /\ ns0 # 0
  <2>1. Named(a, ns0)
    BY <1>2, Zenon DEF TimerInv, LivesOK
  <2> QED
    BY <2>1, ApexAssumption DEF Named
<1>4. \/ UNCHANGED <<apex, live>> /\ \A b \in Apps : apex[b].nspid # ns0
      \/ \E c \in Apps : /\ apex[c].nspid = ns0 /\ live' = coredata_delete_timer(c)
                         /\ apex' = [apex EXCEPT ![c].pid = 0, ![c].nspid = 0]
  <2> DEFINE at == {k \in DOMAIN apex_list : apex[apex_list[k]].nspid = ns0}
  <2>1. IF at = {} THEN UNCHANGED <<apex, live>>
        ELSE /\ live' = coredata_delete_timer(apex_list[Min(at)])
             /\ apex' = [apex EXCEPT ![apex_list[Min(at)]].pid = 0, ![apex_list[Min(at)]].nspid = 0]
    BY <1>0, Zenon DEF handle_apex_down_event
  <2>2. at = {} => \A b \in Apps : apex[b].nspid # ns0
    BY Zenon DEF Apps
  <2>3. at \subseteq Nat
    BY ApexAssumption
  <2>4. at # {} => Min(at) \in at
    <3> HIDE DEF at
    <3> QED
      BY <2>3, FirstIsOne, Zenon
  <2>5. \A k \in at : apex_list[k] \in Apps /\ apex[apex_list[k]].nspid = ns0
    BY Zenon DEF Apps
  <2> HIDE DEF at
  <2> QED
    BY <2>1, <2>2, <2>4, <2>5, Zenon
<1>5. TimerTypes /\ DOMAIN live = Timers /\ NoApp \notin Apps
  BY ApexAssumption, Zenon DEF TimerInv, TimerTypes
<1>6. \/ UNCHANGED <<apex, live>> /\ \A b \in Apps : apex[b].nspid # ns0
      \/ \E c \in Apps : /\ apex[c].nspid = ns0 /\ apex'[c].nspid = 0
                         /\ apex'[c].coredata_timer = apex[c].coredata_timer
                         /\ \A b \in Apps : b # c => apex'[b] = apex[b]
                         /\ live' \in [Timers -> Apps \cup {NoApp}]
                         /\ \A i \in Timers : live'[i] = IF i = apex[c].coredata_timer THEN NoApp ELSE live[i]
  <2>1. ASSUME NEW c \in Apps, apex[c].nspid = ns0, live' = coredata_delete_timer(c),
               apex' = [apex EXCEPT ![c].pid = 0, ![c].nspid = 0]
        PROVE  /\ apex'[c].nspid = 0 /\ apex'[c].coredata_timer = apex[c].coredata_timer
               /\ \A b \in Apps : b # c => apex'[b] = apex[b]
               /\ live' \in [Timers -> Apps \cup {NoApp}]
               /\ \A i \in Timers : live'[i] = IF i = apex[c].coredata_timer THEN NoApp ELSE live[i]
    <3>1. DOMAIN apex = Apps /\ DOMAIN apex[c] = Fields
      BY <1>2 DEF ShapeOK
    <3>2. apex'[c].nspid = 0 /\ apex'[c].coredata_timer = apex[c].coredata_timer
      BY <2>1, <3>1 DEF Fields
    <3>3. \A b \in Apps : b # c => apex'[b] = apex[b]
      BY <2>1, <3>1, Zenon
    <3>4. PICK t : t = apex[c].coredata_timer /\ t \in Timers \cup {0}
      BY <1>5, Zenon DEF TimerTypes
    <3>5. live' = IF t = 0 THEN live ELSE [live EXCEPT ![t] = NoApp]
      BY <2>1, <3>4, Zenon DEF coredata_delete_timer
    <3>6. live \in [Timers -> Apps \cup {NoApp}] /\ 0 \notin Timers
      BY <1>5 DEF TimerTypes, Timers
    <3>7. /\ live' \in [Timers -> Apps \cup {NoApp}]
          /\ \A i \in Timers : live'[i] = IF i = t THEN NoApp ELSE live[i]
      BY <3>4, <3>5, <3>6, Zenon
    <3> QED
      BY <3>2, <3>3, <3>4, <3>7, Zenon
  <2> QED
    BY <1>4, <2>1, Zenon
<1>7. TimerTypes'
  BY <1>5, <1>6, Zenon DEF TimerTypes
<1>8. LivesOK'
  BY <1>1, <1>2, TakenKeepsLives, Zenon DEF TimerInv
<1>9. UpHasTimer'
  <2> SUFFICES ASSUME ~failedUp', NEW b \in Apps, apex'[b].nspid # 0
               PROVE  apex'[b].coredata_timer \in Timers /\ live'[apex'[b].coredata_timer] = b
    BY DEF UpHasTimer
  <2>1. \A c \in Apps : apex[c].nspid # 0 => apex[c].coredata_timer \in Timers /\ live[apex[c].coredata_timer] = c
    BY <1>1, Zenon DEF TimerInv, UpHasTimer
  <2> QED
    BY <1>3, <1>6, <2>1
<1>10. ASSUME OwnNsPids, NEW b \in Apps PROVE TimersOK(b)'
  <2> SUFFICES ASSUME ~Crashed(b)' PROVE Owned(b)' /\ UpsEnd(mail, b, Alive(b))'
    BY DEF TimersOK
  <2>1. /\ Alive(b)' = Alive(b) /\ Owned(b) /\ UpsEnd(mail, b, Alive(b))'
        /\ ~LifeMsg(mail[1], b) => \A ns : Ends(mail, 0, b, ns, Alive(b)) => Ends(mail, 0, b, ns, Alive(b))'
    <3>1. TimersOK(b)
      BY <1>10 DEF TimerInv
    <3> QED
      BY <1>1, <1>2, <3>1, TakenFromOthers, Zenon
  <2>2. \A c \in Apps : apex[c].nspid = ns0 => c = a
    BY <1>3, <1>5, <1>10 DEF TimerTypes, Named, OwnNsPids
  <2>3. CASE b = a
    <3> SUFFICES ASSUME NEW i \in Timers, live'[i] = a PROVE FALSE
      BY <2>1, <2>3, Zenon DEF Owned
    <3>1. live[i] = a
      BY <1>5, <1>6, <1>2, Zenon
    <3>2. PICK ns, R : ns = apex[a].nspid /\ Ends(mail, 0, a, ns, R)
      BY <2>1, <2>3, <3>1, Zenon DEF Owned
    <3>3. LifeMsg(mail[1], a)
      BY <1>2, Zenon DEF LifeMsg
    <3>4. mail[1] = Down(a, ns)
      BY <1>2, <3>2, <3>3, EndsFirst, Zenon
    <3>5. apex[a].nspid = ns0
      BY <1>2, <3>2, <3>4 DEF Down
    <3>6. live'[i] = NoApp
      <4>1. apex[a].coredata_timer = i
        BY <2>1, <2>3, <3>1, Zenon DEF Owned
      <4>2. \A j \in Timers : live'[j] = IF j = apex[a].coredata_timer THEN NoApp ELSE live[j]
        BY <1>2, <1>6, <2>2, <3>5, Zenon
      <4> QED
        BY <4>1, <4>2, Zenon
    <3> QED
      BY <1>2, <1>5, <3>6, Zenon
  <2>4. CASE b # a
    <3>1. ~LifeMsg(mail[1], b)
      BY <1>2, <2>4 DEF LifeMsg
    <3>2. apex'[b] = apex[b] /\ \A i \in Timers : live'[i] = b => live[i] = b
      BY <1>5, <1>6, <2>2, <2>4, ZenonT(60)
    <3>3. \A i \in Timers : live'[i] = b => apex'[b].coredata_timer = i /\ apex'[b].nspid # 0
                                            /\ Ends(mail, 0, b, apex[b].nspid, Alive(b))
      BY <2>1, <3>2, Zenon DEF Owned
    <3>4. \A ns : Ends(mail, 0, b, ns, Alive(b)) => Ends(mail, 0, b, ns, Alive(b))'
      BY <2>1, <3>1
    <3> QED
      BY <2>1, <3>2, <3>3, <3>4, Zenon DEF Owned
  <2> QED
    BY <2>3, <2>4, Zenon
<1> QED
  BY <1>7, <1>8, <1>9, <1>10 DEF TimerInv

(* No timer exists at the start.                                            *)
LEMMA TimerInvariance == ApexSpec => []TimerInv
<1>1. ApexInit => TimerInv
  <2> SUFFICES ASSUME ApexInit PROVE TimerInv
    BY Zenon
  <2>1. /\ mail = <<>> /\ live = [i \in Timers |-> NoApp] /\ DOMAIN life = Procs
        /\ \A p \in Procs : life[p] # "run"
        /\ \A a \in Apps : apex[a].nspid = 0 /\ apex[a].coredata_timer = 0
    BY Zenon DEF ApexInit
  <2>2. TimerTypes /\ UpHasTimer /\ LivesOK
    BY <2>1 DEF TimerTypes, UpHasTimer, LivesOK
  <2>4. ShapeOK
    BY DEF ApexInit, ShapeOK, Fields
  <2>3. \A a \in Apps : Owned(a) /\ UpsEnd(mail, a, Alive(a))
    BY <2>1, ApexAssumption DEF Owned, UpsEnd
  <2> QED
    BY <2>2, <2>3, <2>4 DEF TimerInv, TimersOK
<1>2. TimerInv /\ [ApexNext]_apexVars => TimerInv'
  <2> SUFFICES ASSUME TimerInv, [ApexNext]_apexVars PROVE TimerInv'
    OBVIOUS
  <2>1. ShapeOK'
    BY ShapeIsKept DEF TimerInv
  <2> QED
    BY <2>1, ProcessKeepsTimers, ThreadsKeepTimers, UpKeepsTimers, DownKeepsTimers, Zenon
       DEF ApexNext, MainStep, OtherThreads
<1> QED
  BY <1>1, <1>2, PTL DEF ApexSpec

(* The coredata timers follow the applications: whatever order UPs, DOWNs   *)
(* and crashes come in, an application that is up has its own timer unless  *)
(* an UP failed, and a timer nobody can delete any more is left only by a   *)
(* process that crashed.                                                    *)
THEOREM TimersFollow == ApexSpec => []TimersFollowApps
<1>1. TimerInv => TimersFollowApps
  <2> SUFFICES ASSUME TimerInv PROVE TimersFollowApps
    OBVIOUS
  <2>1. ~failedUp => \A a \in Apps : apex[a].nspid # 0 => live[apex[a].coredata_timer] = a
    BY Zenon DEF TimerInv, UpHasTimer
  <2>2. ASSUME OwnNsPids, NEW i \in Timers, live[i] # NoApp, apex[live[i]].coredata_timer # i
        PROVE  \E p \in Procs : AppOf[p] = live[i] /\ life[p] = "crashed"
    <3>1. PICK a \in Apps : a = live[i] /\ TimersOK(a)
      BY <2>2, Zenon DEF TimerInv, TimerTypes
    <3> QED
      BY <2>2, <3>1, Zenon DEF TimersOK, Owned, Crashed
  <2> QED
    BY <2>1, <2>2, Zenon DEF TimersFollowApps
<1> QED
  BY <1>1, TimerInvariance, PTL

---------------------------------------------------------------------------
(* The scheduling of the tasks                                             *)

EventType == [pid : Pids, ts_wakeup : Nat, ts_start : Nat, ts_stop : Nat, cpu : Cpus]

StatTypeOK ==
  /\ ticks \in Nat
  /\ task \in [Pids -> {"asleep", "ready", "running"}]
  /\ on \in [Cpus -> Pids \cup {0}]
  /\ began \in [Pids -> Nat]
  /\ DOMAIN sched_waking_map \subseteq Pids
  /\ \A p \in DOMAIN sched_waking_map : sched_waking_map[p].ts_wakeup \in Nat
  /\ DOMAIN sched_switch_map \subseteq Pids
  /\ \A p \in DOMAIN sched_switch_map :
       sched_switch_map[p].ts_wakeup \in Nat /\ sched_switch_map[p].ts_start \in Nat
  /\ buffer \in Seq(EventType) /\ handled \subseteq EventType

(* Nothing in the maps or the buffer is from the future, and what a task has *)
(* in sched_switch_map began after all its events                            *)
StatPastOK ==
  /\ \A p \in DOMAIN sched_waking_map : sched_waking_map[p].ts_wakeup <= ticks
  /\ \A p \in DOMAIN sched_switch_map :
       /\ sched_switch_map[p].ts_wakeup <= sched_switch_map[p].ts_start
       /\ sched_switch_map[p].ts_start <= ticks
       /\ \A e \in Events : e.pid = p => e.ts_stop <= sched_switch_map[p].ts_start
  /\ \A e \in Events : e.ts_stop <= ticks
  /\ \A p \in Pids : began[p] <= ticks

(* What is on a CPU began after all events of the CPU                        *)
CpuOK == \A e \in Events : on[e.cpu] # 0 => e.ts_stop <= began[on[e.cpu]]

StatInv == StatTypeOK /\ StatPastOK /\ CpuOK /\ IntervalsAreOrdered /\ ExactUntilFirstLoss

(* Nothing is traced at the start.                                          *)
LEMMA StatInitEstablishes == StatInit => StatInv
<1> SUFFICES ASSUME StatInit PROVE StatInv
  OBVIOUS
<1>1. Events = {} /\ DOMAIN sched_switch_map = {} /\ DOMAIN sched_waking_map = {}
  BY DEF StatInit, Events
<1>2. StatTypeOK
  BY <1>1 DEF StatInit, StatTypeOK
<1> QED
  BY <1>1, <1>2 DEF StatInit, StatInv, StatPastOK, CpuOK, IntervalsAreOrdered, ExactUntilFirstLoss

(* The times of an event are numbers.                                       *)
LEMMA EventTypes ==
  ASSUME StatTypeOK
  PROVE  \A e \in Events : e \in EventType /\ e.ts_wakeup \in Nat /\ e.ts_start \in Nat /\ e.ts_stop \in Nat
                           /\ e.cpu \in Cpus
<1>1. \A e \in Events : e \in EventType
  BY DEF StatTypeOK, Events
<1> QED
  BY <1>1, Zenon DEF EventType

(* The handler takes an event out of the buffer: it stays an event.         *)
LEMMA PollKeepsEvents ==
  ASSUME StatTypeOK, PollSchedstat
  PROVE  Events' = Events /\ buffer' \in Seq(EventType) /\ handled' \subseteq EventType
<1>1. /\ Len(buffer) \in Nat /\ Len(buffer) > 0 /\ DOMAIN buffer = 1..Len(buffer)
      /\ DOMAIN buffer' = 1..(Len(buffer) - 1)
      /\ \A i \in 1..(Len(buffer) - 1) : buffer'[i] = buffer[i + 1]
      /\ handled' = handled \cup {buffer[1]}
      /\ buffer' \in Seq(EventType) /\ buffer[1] \in EventType
  BY DEF StatTypeOK, PollSchedstat
<1>2. Events' \subseteq Events
  BY <1>1 DEF Events
<1>3. ASSUME NEW i \in DOMAIN buffer
      PROVE  buffer[i] \in Events'
  <2>1. CASE i = 1
    BY <1>1, <2>1 DEF Events
  <2>2. CASE i # 1
    <3>1. i - 1 \in DOMAIN buffer' /\ buffer'[i - 1] = buffer[i]
      BY <1>1, <2>2
    <3> QED
      BY <3>1 DEF Events
  <2> QED
    BY <2>1, <2>2
<1> QED
  BY <1>1, <1>2, <1>3 DEF Events, StatTypeOK

(* Steps that move nothing but the filter, the handler and the clock.       *)
LEMMA QuietPreserves ==
  ASSUME StatInv, StatTypeOK', Events' = Events, ticks <= ticks',
         UNCHANGED <<on, began, sched_switch_map, loss>>,
         \A p \in Pids : task[p] = "running" => task'[p] = "running",
         \A p \in DOMAIN sched_waking_map' : sched_waking_map'[p].ts_wakeup <= ticks'
  PROVE  StatInv'
<1>1. StatPastOK'
  <2>1. ticks \in Nat /\ ticks' \in Nat
    BY Zenon DEF StatInv, StatTypeOK
  <2>2. \A e \in Events : e.ts_stop <= ticks'
    BY <2>1, EventTypes DEF StatInv, StatPastOK
  <2>3. \A p \in Pids : began[p] <= ticks'
    BY <2>1 DEF StatInv, StatTypeOK, StatPastOK
  <2>4. \A p \in DOMAIN sched_switch_map : sched_switch_map[p].ts_start <= ticks'
    BY <2>1 DEF StatInv, StatTypeOK, StatPastOK
  <2> QED
    BY <2>2, <2>3, <2>4, Zenon DEF StatInv, StatPastOK
<1>2. CpuOK' /\ IntervalsAreOrdered'
  BY Zenon DEF StatInv, CpuOK, IntervalsAreOrdered
<1>3. ExactUntilFirstLoss'
  BY Zenon DEF StatInv, StatTypeOK, ExactUntilFirstLoss
<1> QED
  BY <1>1, <1>2, <1>3, Zenon DEF StatInv

(* A wake-up is stamped with the present.                                   *)
LEMMA WakingPreserves ==
  ASSUME StatInv, NEW p \in Pids, sched_waking(p)
  PROVE  StatInv'
<1>1. ticks \in Nat /\ ticks' = ticks + 1 /\ ts = ticks + 1
  BY Zenon DEF sched_waking, StatInv, StatTypeOK, ts
<1>2. /\ UNCHANGED <<on, began, sched_switch_map, buffer, handled, loss>>
      /\ Events' = Events
  BY Zenon DEF sched_waking, Events
<1>3. \A q \in DOMAIN sched_waking_map' :
        \/ q \in DOMAIN sched_waking_map /\ sched_waking_map'[q] = sched_waking_map[q]
        \/ q = p /\ sched_waking_map'[q].ts_wakeup = ticks + 1
  BY <1>1, Zenon DEF sched_waking, Update
<1>4. StatTypeOK'
  <2>1. \A q \in DOMAIN sched_waking_map' : q \in Pids /\ sched_waking_map'[q].ts_wakeup \in Nat
    BY <1>1, <1>3 DEF StatInv, StatTypeOK
  <2>2. task' \in [Pids -> {"asleep", "ready", "running"}]
    BY Zenon DEF sched_waking, StatInv, StatTypeOK
  <2> QED
    BY <1>1, <1>2, <2>1, <2>2 DEF StatInv, StatTypeOK
<1>5. \A q \in DOMAIN sched_waking_map' : sched_waking_map'[q].ts_wakeup <= ticks'
  <2>1. ticks \in Nat /\ ticks' = ticks + 1
    BY <1>1, Zenon DEF StatInv, StatTypeOK
  <2>2. \A q \in DOMAIN sched_waking_map :
          sched_waking_map[q].ts_wakeup \in Nat /\ sched_waking_map[q].ts_wakeup <= ticks
    BY Zenon DEF StatInv, StatTypeOK, StatPastOK
  <2>3. \A x \in Nat : x <= ticks => x <= ticks'
    BY <2>1
  <2>4. ticks + 1 <= ticks'
    BY <2>1
  <2> QED
    BY <1>3, <2>2, <2>3, <2>4, Zenon
<1>6. \A q \in Pids : task[q] = "running" => task'[q] = "running"
  BY Zenon DEF sched_waking, StatInv, StatTypeOK
<1> QED
  BY <1>1, <1>2, <1>4, <1>5, <1>6, QuietPreserves

(* What the second half of sched_switch leaves in the maps.                 *)
MapsAfter(next, waking, switch) ==
  /\ \A p \in DOMAIN sched_waking_map' : p \in DOMAIN waking /\ sched_waking_map'[p] = waking[p]
  /\ \A p \in DOMAIN sched_switch_map' :
       \/ p \in DOMAIN switch /\ sched_switch_map'[p] = switch[p]
       \/ /\ p = next /\ p \in DOMAIN waking
          /\ sched_switch_map'[p].ts_start = ts
          /\ sched_switch_map'[p].ts_wakeup = waking[p].ts_wakeup

(* The branches of ScheduledIn: next is looked at, or it is not.            *)
LEMMA ScheduledInEffect ==
  ASSUME NEW next, NEW waking, NEW switch, ScheduledIn(next, waking, switch)
  PROVE  MapsAfter(next, waking, switch)
BY DEF ScheduledIn, Update, Delete, MapsAfter

(* What a switch does to the maps and the events: prev's entry, if it had    *)
(* one, is gone and became an event, or there was no room.                  *)
SwitchEffect(c, next, state, room) ==
  /\ Switches(c, next, state)
  /\ buffer' \in Seq(EventType) /\ handled' = handled
  /\ ~loss' => ~loss /\ room
  /\ \A p \in DOMAIN sched_waking_map' :
       p \in Pids /\ sched_waking_map'[p].ts_wakeup \in Nat /\ sched_waking_map'[p].ts_wakeup <= ticks
  /\ \A p \in DOMAIN sched_switch_map' :
       \/ /\ p \in DOMAIN sched_switch_map /\ (room => p # on[c])
          /\ sched_switch_map'[p] = sched_switch_map[p]
       \/ /\ p = next /\ p \in Pids
          /\ sched_switch_map'[p].ts_start = ts
          /\ sched_switch_map'[p].ts_wakeup \in Nat /\ sched_switch_map'[p].ts_wakeup <= ticks
  /\ \/ Events' = Events
     \/ room /\ on[c] \in DOMAIN sched_switch_map /\ Events' = Events \cup {Event(on[c], c)}

(* Such a step keeps the invariant.                                         *)
LEMMA SwitchPreserves ==
  ASSUME StatInv, NEW c \in Cpus, NEW next \in Pids \cup {0}, NEW state \in {"asleep", "ready"},
         NEW room \in BOOLEAN, SwitchEffect(c, next, state, room)
  PROVE  StatInv'
<1> DEFINE prev == on[c]
           ev == Event(prev, c)
<1> Switches(c, next, state) /\ buffer' \in Seq(EventType) /\ handled' = handled
  BY Zenon DEF SwitchEffect
<1>1. ticks \in Nat /\ ticks' = ticks + 1 /\ ts = ticks + 1
  BY Zenon DEF Switches, StatInv, StatTypeOK, ts
<1>0. ticks + 1 \in Nat /\ ticks + 1 <= ticks + 1 /\ \A x \in Nat : x <= ticks => x <= ticks + 1
  BY <1>1
<1>2. /\ on' = [on EXCEPT ![c] = next]
      /\ next # prev /\ (next # 0 => task[next] = "ready")
      /\ \A p \in Pids : task'[p] = IF p = prev THEN state ELSE IF p = next THEN "running" ELSE task[p]
      /\ \A p \in Pids : began'[p] = IF p = next THEN ticks + 1 ELSE began[p]
      /\ task' \in [Pids -> {"asleep", "ready", "running"}]
      /\ began' \in [Pids -> Nat]
  <2>1. on' = [on EXCEPT ![c] = next] /\ next # prev /\ (next # 0 => task[next] = "ready")
    BY Zenon DEF Switches
  <2>2. task' = [p \in Pids |-> IF p = prev THEN state ELSE IF p = next THEN "running" ELSE task[p]]
    BY Zenon DEF Switches
  <2>3. began' = [p \in Pids |-> IF p = next THEN ticks + 1 ELSE began[p]]
    BY <1>1, Zenon DEF Switches
  <2>4. task \in [Pids -> {"asleep", "ready", "running"}] /\ began \in [Pids -> Nat]
    BY Zenon DEF StatInv, StatTypeOK
  <2> HIDE DEF prev
  <2>5. task' \in [Pids -> {"asleep", "ready", "running"}]
    BY <2>2, <2>4
  <2>6. began' \in [Pids -> Nat]
    BY <1>0, <2>3, <2>4, Zenon
  <2> QED
    BY <2>1, <2>2, <2>3, <2>5, <2>6, Zenon
<1>3. StatTypeOK'
  <2>1. on' \in [Cpus -> Pids \cup {0}]
    BY <1>2, Zenon DEF StatInv, StatTypeOK
  <2>2. \A p \in DOMAIN sched_switch_map' :
          p \in Pids /\ sched_switch_map'[p].ts_wakeup \in Nat /\ sched_switch_map'[p].ts_start \in Nat
    BY <1>0, <1>1, Zenon DEF StatInv, StatTypeOK, SwitchEffect
  <2> QED
    BY <1>1, <1>2, <2>1, <2>2 DEF StatInv, StatTypeOK, SwitchEffect
<1>4. \A e \in Events : e.ts_stop \in Nat /\ e.ts_start \in Nat /\ e.cpu \in Cpus /\ e.ts_stop <= ticks
  BY EventTypes, Zenon DEF StatInv, StatPastOK
<1>5. prev \in DOMAIN sched_switch_map =>
        /\ ev.pid = prev /\ ev.cpu = c /\ ev.ts_stop = ticks + 1
        /\ ev.ts_start \in Nat /\ ev.ts_wakeup \in Nat
        /\ ev.ts_start = sched_switch_map[prev].ts_start
        /\ ev.ts_wakeup <= ev.ts_start /\ ev.ts_start <= ticks
        /\ \A e \in Events : e.pid = prev => e.ts_stop <= ev.ts_start
  BY <1>1, Zenon DEF Event, StatInv, StatTypeOK, StatPastOK
<1> HIDE DEF ev, prev
<1>6. \A e \in Events' : e \in Events \/ (room /\ prev \in DOMAIN sched_switch_map /\ e = ev)
  BY Zenon DEF ev, prev, SwitchEffect
<1>7. \A p \in DOMAIN sched_switch_map' :
        \/ /\ p \in DOMAIN sched_switch_map /\ (room => p # prev)
           /\ sched_switch_map'[p] = sched_switch_map[p]
        \/ /\ p = next /\ p \in Pids
           /\ sched_switch_map'[p].ts_start = ticks + 1
           /\ sched_switch_map'[p].ts_wakeup \in Nat /\ sched_switch_map'[p].ts_wakeup <= ticks
  BY <1>1, Zenon DEF prev, SwitchEffect
<1>8. StatPastOK'
  <2>1. \A p \in DOMAIN sched_waking_map' : sched_waking_map'[p].ts_wakeup <= ticks'
    BY <1>0, <1>1, Zenon DEF SwitchEffect
  <2>2. \A e \in Events' : e.ts_stop <= ticks'
    BY <1>0, <1>1, <1>4, <1>5, <1>6, Zenon
  <2>3. \A p \in Pids : began'[p] <= ticks'
    <3>1. \A p \in Pids : began[p] \in Nat /\ began[p] <= ticks
      BY Zenon DEF StatInv, StatTypeOK, StatPastOK
    <3> QED
      BY <1>0, <1>1, <1>2, <3>1, Zenon
  <2>4. ASSUME NEW p \in DOMAIN sched_switch_map'
        PROVE  /\ sched_switch_map'[p].ts_wakeup <= sched_switch_map'[p].ts_start
               /\ sched_switch_map'[p].ts_start <= ticks'
               /\ \A e \in Events' : e.pid = p => e.ts_stop <= sched_switch_map'[p].ts_start
    <3>1. CASE p \in DOMAIN sched_switch_map /\ (room => p # prev) /\ sched_switch_map'[p] = sched_switch_map[p]
      <4>1. /\ sched_switch_map[p].ts_wakeup <= sched_switch_map[p].ts_start
            /\ sched_switch_map[p].ts_start \in Nat /\ sched_switch_map[p].ts_start <= ticks
            /\ \A e \in Events : e.pid = p => e.ts_stop <= sched_switch_map[p].ts_start
        BY <3>1, Zenon DEF StatInv, StatTypeOK, StatPastOK
      <4> QED
        BY <1>0, <1>1, <1>5, <1>6, <3>1, <4>1, Zenon
    <3>2. CASE /\ sched_switch_map'[p].ts_start = ticks + 1
               /\ sched_switch_map'[p].ts_wakeup \in Nat /\ sched_switch_map'[p].ts_wakeup <= ticks
      BY <1>0, <1>1, <3>2, <2>2, Zenon
    <3> QED
      BY <1>7, <3>1, <3>2, Zenon
  <2> QED
    BY <2>1, <2>2, <2>3, <2>4, Zenon DEF StatPastOK
<1>9. CpuOK'
  <2> SUFFICES ASSUME NEW e \in Events', on'[e.cpu] # 0
               PROVE  e.ts_stop <= began'[on'[e.cpu]]
    BY Zenon DEF CpuOK
  <2>1. e.cpu \in Cpus /\ e.ts_stop \in Nat /\ e.ts_stop <= ticks + 1
    BY <1>0, <1>4, <1>5, <1>6, Zenon
  <2>2. CASE on'[e.cpu] = next
    BY <1>1, <1>2, <2>1, <2>2, ZenonT(60)
  <2>3. CASE on'[e.cpu] # next
    <3>1. e.cpu # c /\ on'[e.cpu] = on[e.cpu]
      BY <1>2, <2>1, <2>3, Zenon DEF StatInv, StatTypeOK
    <3>2. e \in Events /\ on[e.cpu] \in Pids
      BY <1>5, <1>6, <2>1, <3>1, Zenon DEF StatInv, StatTypeOK
    <3> QED
      BY <1>2, <2>3, <3>1, <3>2, Zenon DEF StatInv, CpuOK
  <2> QED
    BY <2>2, <2>3, Zenon
<1>10. IntervalsAreOrdered'
  <2>1. \A e \in Events' : e.ts_wakeup <= e.ts_start /\ e.ts_start <= e.ts_stop
    BY <1>0, <1>5, <1>6, Zenon DEF StatInv, IntervalsAreOrdered
  <2>2. \A e, f \in Events' : e.pid = f.pid /\ e # f => e.ts_stop <= f.ts_start \/ f.ts_stop <= e.ts_start
    BY <1>5, <1>6, ZenonT(60) DEF StatInv, IntervalsAreOrdered
  <2> QED
    BY <2>1, <2>2, Zenon DEF IntervalsAreOrdered
<1>11. ExactUntilFirstLoss'
  <2> SUFFICES ASSUME ~loss, room
               PROVE  /\ \A e, f \in Events' : e.cpu = f.cpu /\ e # f => e.ts_stop <= f.ts_start \/ f.ts_stop <= e.ts_start
                      /\ \A p \in DOMAIN sched_switch_map' :
                           task'[p] = "running" /\ sched_switch_map'[p].ts_start = began'[p]
    BY Zenon DEF ExactUntilFirstLoss, SwitchEffect
  <2>1. \A p \in DOMAIN sched_switch_map :
          p \in Pids /\ task[p] = "running" /\ sched_switch_map[p].ts_start = began[p]
    BY Zenon DEF StatInv, StatTypeOK, ExactUntilFirstLoss
  <2>2. prev \in DOMAIN sched_switch_map => \A e \in Events : e.cpu = c => e.ts_stop <= ev.ts_start
    <3>1. prev \in DOMAIN sched_switch_map => prev # 0
      BY <2>1, StatAssumption, Zenon
    <3> QED
      BY <1>5, <2>1, <3>1, Zenon DEF StatInv, CpuOK, prev
  <2>3. \A e, f \in Events' : e.cpu = f.cpu /\ e # f => e.ts_stop <= f.ts_start \/ f.ts_stop <= e.ts_start
    BY <1>5, <1>6, <2>2, ZenonT(60) DEF StatInv, ExactUntilFirstLoss
  <2>4. \A p \in DOMAIN sched_switch_map' :
          task'[p] = "running" /\ sched_switch_map'[p].ts_start = began'[p]
    BY <1>2, <1>7, <2>1, StatAssumption, Zenon
  <2> QED
    BY <2>3, <2>4, Zenon
<1> QED
  BY <1>3, <1>8, <1>9, <1>10, <1>11, Zenon DEF StatInv

(* Every outcome of the tracepoint is such a switch.                        *)
LEMMA TracepointPreserves ==
  ASSUME StatInv, NEW c \in Cpus, NEW next \in Pids \cup {0}, sched_switch(c, next)
  PROVE  StatInv'
<1>1. PICK state \in {"asleep", "ready"}, preempted \in BOOLEAN :
         /\ Switches(c, next, state)
         /\ SwitchTraced(c, next, preempted) \/ SwitchLost(c) \/ SwitchUntraced(c, next)
  BY Zenon DEF sched_switch
<1>2. handled' = handled /\ buffer \in Seq(EventType)
  BY Zenon DEF sched_switch, StatInv, StatTypeOK
<1>3. \A p \in DOMAIN sched_waking_map :
        p \in Pids /\ sched_waking_map[p].ts_wakeup \in Nat /\ sched_waking_map[p].ts_wakeup <= ticks
  BY Zenon DEF StatInv, StatTypeOK, StatPastOK
<1>4. ticks \in Nat /\ ts \in Nat
  <2>1. ticks \in Nat
    BY Zenon DEF StatInv, StatTypeOK
  <2> QED
    BY <2>1 DEF ts
<1>5. CASE SwitchLost(c)
  <2>1. loss' = TRUE /\ UNCHANGED <<buffer, sched_waking_map, sched_switch_map>> /\ Events' = Events
    BY <1>2, <1>5, Zenon DEF SwitchLost, Events
  <2>2. SwitchEffect(c, next, state, FALSE)
    BY <1>1, <1>2, <1>3, <2>1, Zenon DEF SwitchEffect
  <2> QED
    BY <2>2, SwitchPreserves, Zenon
<1>6. CASE SwitchUntraced(c, next)
  <2> DEFINE room == TRUE
  <2>1. /\ on[c] \notin DOMAIN sched_switch_map /\ UNCHANGED <<buffer, loss>> /\ Events' = Events
        /\ ScheduledIn(next, sched_waking_map, sched_switch_map)
    BY <1>2, <1>6, Zenon DEF SwitchUntraced, Events
  <2>7. MapsAfter(next, sched_waking_map, sched_switch_map)
    BY <2>1, ScheduledInEffect, Zenon
  <2>2. \A p \in DOMAIN sched_waking_map' :
          p \in Pids /\ sched_waking_map'[p].ts_wakeup \in Nat /\ sched_waking_map'[p].ts_wakeup <= ticks
    BY <1>3, <2>7, Zenon DEF MapsAfter
  <2>3. \A p \in DOMAIN sched_switch_map' :
          \/ p \in DOMAIN sched_switch_map /\ (room => p # on[c]) /\ sched_switch_map'[p] = sched_switch_map[p]
          \/ /\ p = next /\ p \in Pids
             /\ sched_switch_map'[p].ts_start = ts
             /\ sched_switch_map'[p].ts_wakeup \in Nat /\ sched_switch_map'[p].ts_wakeup <= ticks
    BY <1>3, <2>1, <2>7, Zenon DEF MapsAfter
  <2>4. ~loss' => ~loss /\ room
    BY <2>1, Zenon
  <2>5. Switches(c, next, state) /\ buffer' \in Seq(EventType) /\ handled' = handled
    BY <1>1, <1>2, <2>1, Zenon
  <2>6. Events' = Events \/ (room /\ on[c] \in DOMAIN sched_switch_map /\ Events' = Events \cup {Event(on[c], c)})
    BY <2>1, Zenon
  <2>8. SwitchEffect(c, next, state, room)
    BY <2>2, <2>3, <2>4, <2>5, <2>6, Zenon DEF SwitchEffect
  <2> QED
    BY <2>8, SwitchPreserves, Zenon
<1>7. CASE SwitchTraced(c, next, preempted)
  <2> DEFINE room == TRUE
  <2> DEFINE prev == on[c]
             waking == IF preempted THEN Update(sched_waking_map, prev, [ts_wakeup |-> sched_switch_map[prev].ts_wakeup])
                                    ELSE sched_waking_map
             switch == Delete(sched_switch_map, prev)
  <2>1. /\ prev \in DOMAIN sched_switch_map /\ buffer' = Append(buffer, Event(prev, c)) /\ loss' = loss
        /\ ScheduledIn(next, waking, switch)
    BY <1>7, Zenon DEF SwitchTraced
  <2>2. /\ prev \in Pids /\ sched_switch_map[prev].ts_wakeup \in Nat /\ sched_switch_map[prev].ts_start \in Nat
        /\ sched_switch_map[prev].ts_wakeup <= ticks
    <3>1. /\ prev \in Pids /\ sched_switch_map[prev].ts_wakeup \in Nat /\ sched_switch_map[prev].ts_start \in Nat
          /\ sched_switch_map[prev].ts_wakeup <= sched_switch_map[prev].ts_start
          /\ sched_switch_map[prev].ts_start <= ticks
      BY <2>1, Zenon DEF StatInv, StatTypeOK, StatPastOK
    <3>2. \A x, y \in Nat : x <= y /\ y <= ticks => x <= ticks
      BY <1>4
    <3> QED
      BY <3>1, <3>2, Zenon
  <2>3. Event(prev, c) \in EventType
    BY <1>4, <2>2, Zenon DEF Event, EventType
  <2>4. buffer' \in Seq(EventType) /\ Events' = Events \cup {Event(prev, c)}
    <3> DEFINE ev == Event(prev, c)
    <3> HIDE DEF ev
    <3>1. buffer' = Append(buffer, ev) /\ ev \in EventType
      BY <2>1, <2>3, Zenon DEF ev
    <3>2. buffer' \in Seq(EventType)
      BY <1>2, <3>1
    <3>3. /\ DOMAIN buffer' = DOMAIN buffer \cup {Len(buffer) + 1}
          /\ \A i \in DOMAIN buffer : buffer'[i] = buffer[i]
          /\ buffer'[Len(buffer) + 1] = ev
      BY <1>2, <3>1
    <3>4. Events' = Events \cup {ev}
      <4>1. {buffer'[i] : i \in DOMAIN buffer'} = {buffer[i] : i \in DOMAIN buffer} \cup {ev}
        BY <3>3, ZenonT(60)
      <4> QED
        BY <1>2, <4>1, Zenon DEF Events
    <3> QED
      BY <3>2, <3>4 DEF ev
  <2>5. \A p \in DOMAIN waking : p \in Pids /\ waking[p].ts_wakeup \in Nat /\ waking[p].ts_wakeup <= ticks
    BY <1>3, <2>2, Zenon DEF Update
  <2>6. \A p \in DOMAIN switch : p \in DOMAIN sched_switch_map /\ p # prev /\ switch[p] = sched_switch_map[p]
    BY Zenon DEF Delete
  <2> HIDE DEF waking, switch
  <2>12. MapsAfter(next, waking, switch)
    BY <2>1, ScheduledInEffect, Zenon
  <2>7. \A p \in DOMAIN sched_waking_map' :
          p \in Pids /\ sched_waking_map'[p].ts_wakeup \in Nat /\ sched_waking_map'[p].ts_wakeup <= ticks
    BY <2>5, <2>12, Zenon DEF MapsAfter
  <2>8. \A p \in DOMAIN sched_switch_map' :
          \/ p \in DOMAIN sched_switch_map /\ (room => p # on[c]) /\ sched_switch_map'[p] = sched_switch_map[p]
          \/ /\ p = next /\ p \in Pids
             /\ sched_switch_map'[p].ts_start = ts
             /\ sched_switch_map'[p].ts_wakeup \in Nat /\ sched_switch_map'[p].ts_wakeup <= ticks
    BY <2>5, <2>6, <2>12, Zenon DEF MapsAfter
  <2>9. ~loss' => ~loss /\ room
    BY <2>1, Zenon
  <2>10. Switches(c, next, state) /\ buffer' \in Seq(EventType) /\ handled' = handled
    BY <1>1, <1>2, <2>4, Zenon
  <2>11. Events' = Events \/ (room /\ on[c] \in DOMAIN sched_switch_map /\ Events' = Events \cup {Event(on[c], c)})
    BY <2>1, <2>4, Zenon
  <2>13. SwitchEffect(c, next, state, room)
    BY <2>7, <2>8, <2>9, <2>10, <2>11, Zenon DEF SwitchEffect
  <2> QED
    BY <2>13, SwitchPreserves, Zenon
<1> QED
  BY <1>1, <1>5, <1>6, <1>7

(* The invariant is inductive.                                              *)
LEMMA StatNextPreserves == StatInv /\ [StatNext]_statVars => StatInv'
<1> SUFFICES ASSUME StatInv, [StatNext]_statVars PROVE StatInv'
  OBVIOUS
<1>1. CASE UNCHANGED <<kernelVars, sched_waking_map, sched_switch_map, loss>>
           /\ Events' = Events /\ buffer' \in Seq(EventType) /\ handled' \subseteq EventType
  BY <1>1, Zenon DEF StatInv, StatTypeOK, StatPastOK, CpuOK, IntervalsAreOrdered, ExactUntilFirstLoss, kernelVars
<1>2. CASE (\E p \in Pids : bpf_add_pid(p) \/ bpf_del_pid(p)) \/ UNCHANGED statVars
  BY <1>1, <1>2, Zenon DEF bpf_add_pid, bpf_del_pid, statVars, Events, StatInv, StatTypeOK
<1>3. CASE PollSchedstat
  <2>1. UNCHANGED <<kernelVars, sched_waking_map, sched_switch_map, loss>>
    BY <1>3 DEF PollSchedstat
  <2> QED
    BY <1>1, <1>3, <2>1, PollKeepsEvents DEF StatInv
<1> QED
  BY <1>2, <1>3, WakingPreserves, TracepointPreserves, Zenon DEF StatNext

----------------------------------------------------------------------------

(* No interval is negative and no two of a task overlap, although the ring  *)
(* buffer may lose any event.                                               *)
THEOREM IntervalsOrdered == StatSpec => []IntervalsAreOrdered
<1>1. StatInv => IntervalsAreOrdered
  BY DEF StatInv
<1> QED
  BY <1>1, StatInitEstablishes, StatNextPreserves, PTL DEF StatSpec

(* Until the first loss the intervals of a CPU do not overlap and are the   *)
(* runs of the tasks.                                                       *)
THEOREM ExactBeforeLoss == StatSpec => []ExactUntilFirstLoss
<1>1. StatInv => ExactUntilFirstLoss
  BY DEF StatInv
<1> QED
  BY <1>1, StatInitEstablishes, StatNextPreserves, PTL DEF StatSpec
=============================================================================
