---------------------------- MODULE Hyperperiod ----------------------------
(***************************************************************************)
(* HyperperiodManager of both Timpani-O: the least common multiple of the   *)
(* periods of a workload, kept in a map per workload.  The Rust port checks *)
(* every multiplication and refuses a result above its limit; the C++ one   *)
(* multiplies modulo 2^64 and only warns.  `port' says which one runs.      *)
(* A call is three steps (its arguments, its work, its return) so that a    *)
(* property can relate arguments and answer.                                *)
(***************************************************************************)
EXTENDS Naturals, FiniteSets, SequencesExt

CONSTANTS Workloads,
          Periods,    \* the values of period_us, 0 among them
          MaxTasks,   \* bound: tasks in one call
          MaxU64,     \* the largest u64
          LimitUs     \* limit_us of the Rust manager

ASSUME ValueAssumption == Periods \subseteq 0..MaxU64 /\ MaxTasks \in Nat /\ LimitUs \in 0..MaxU64

VARIABLES port,   \* "rust" or "cpp"
          map,    \* map, hyperperiod_map_
          call    \* the call being made, with its answer

vars == <<port, map, call>>

Tasks == [workload_id : Workloads, period_us : Periods]

Idle == [at |-> "idle"]

(* A u64 that is not there                                                  *)
Overflow == MaxU64 + 1

----------------------------------------------------------------------------
(* math.rs, and Gcd, Lcm, CalculateLcm of hyperperiod_manager.cpp           *)

gcd[a \in Nat, b \in Nat] == IF b = 0 THEN a ELSE gcd[b, a % b]

(* checked_mul after the division                                           *)
Checked(n) == IF n > MaxU64 THEN Overflow ELSE n

(* Mutation: saturation instead of an error                                 *)
lcm_Saturating(a, b) ==
    IF a * b = 0 THEN 0
    ELSE LET n == (a \div gcd[a, b]) * b IN IF n > MaxU64 THEN MaxU64 ELSE n

lcm(a, b) ==
    IF a = Overflow THEN Overflow
    ELSE IF a = 0 \/ b = 0 THEN 0
    ELSE Checked((a \div gcd[a, b]) * b)

lcm_of_slice(values) == FoldLeft(lcm, values[1], Tail(values))

(* Mutation: multiply first, then divide                                    *)
Lcm_MultiplyFirst(a, b) ==
    IF a = 0 \/ b = 0 THEN 0 ELSE ((a * b) % (MaxU64 + 1)) \div gcd[a, b]

Lcm(a, b) ==
    IF a = 0 \/ b = 0 THEN 0 ELSE ((a \div gcd[a, b]) * b) % (MaxU64 + 1)

CalculateLcm(periods) == IF periods = <<>> THEN 0 ELSE FoldLeft(Lcm, periods[1], Tail(periods))

----------------------------------------------------------------------------
(* The managers                                                             *)

OfWorkload(w, tasks) == SelectSeq(tasks, LAMBDA t : t.workload_id = w)

WithPeriod(tasks) == SelectSeq(tasks, LAMBDA t : t.period_us > 0)

(* Sorted and without duplicates: sort_unstable and dedup, or std::set      *)
unique_periods(tasks) ==
    SetToSortSeq({tasks[i].period_us : i \in DOMAIN tasks}, LAMBDA a, b : a < b)

Info(hyperperiod_us, periods, task_count) ==
    [hyperperiod_us |-> hyperperiod_us, periods |-> periods, task_count |-> task_count]

Insert(w, info) == [v \in DOMAIN map \union {w} |-> IF v = w THEN info ELSE map[v]]

Init ==
    /\ port \in {"rust", "cpp"}
    /\ map = <<>>
    /\ call = Idle

Call ==
    /\ call = Idle
    /\ \E w \in Workloads, tasks \in SeqOf(Tasks, MaxTasks) :
           call' = [at |-> "called", workload_id |-> w, tasks |-> tasks]
    /\ UNCHANGED <<port, map>>

Finish(result) ==
    call' = [at |-> "done", workload_id |-> call.workload_id, tasks |-> call.tasks, answer |-> result]

(* HyperperiodManager::calculate_hyperperiod of the Rust port: an error     *)
(* leaves the map as it was                                                 *)
calculate_hyperperiod ==
    LET w == call.workload_id
        matching == WithPeriod(OfWorkload(w, call.tasks))
        periods == unique_periods(matching)
        hyperperiod_us == lcm_of_slice(periods)
    IN
    /\ port = "rust" /\ call.at = "called"
    /\ \/ /\ matching = <<>>
          /\ Finish("NoValidPeriods")
          /\ UNCHANGED map
       \/ /\ matching # <<>>
          /\ hyperperiod_us = Overflow
          /\ Finish("Overflow")
          /\ UNCHANGED map
       \/ /\ matching # <<>>
          /\ hyperperiod_us \in (LimitUs + 1)..MaxU64
          /\ Finish("TooLarge")
          /\ UNCHANGED map
       \/ /\ matching # <<>>
          /\ hyperperiod_us <= LimitUs
          /\ Finish("Ok")
          /\ map' = Insert(w, Info(hyperperiod_us, periods, Len(matching)))
    /\ UNCHANGED port

(* CalculateHyperperiod of the C++ manager: 0 stands for every failure, and *)
(* task_count counts the tasks without a period too                         *)
CalculateHyperperiod ==
    LET w == call.workload_id
        workload_tasks == OfWorkload(w, call.tasks)
        periods == unique_periods(WithPeriod(workload_tasks))
    IN
    /\ port = "cpp" /\ call.at = "called"
    /\ \/ /\ periods = <<>>
          /\ Finish("0")
          /\ UNCHANGED map
       \/ /\ periods # <<>>
          /\ Finish("Ok")
          /\ map' = Insert(w, Info(CalculateLcm(periods), periods, Len(workload_tasks)))
    /\ UNCHANGED port

Return ==
    /\ call.at = "done"
    /\ call' = Idle
    /\ UNCHANGED <<port, map>>

(* clear_workload and clear_all, ClearWorkload and Clear                    *)
clear_workload ==
    /\ call = Idle
    /\ \E w \in DOMAIN map : map' = [v \in DOMAIN map \ {w} |-> map[v]]
    /\ UNCHANGED <<port, call>>

clear_all ==
    /\ call = Idle
    /\ map # <<>>
    /\ map' = <<>>
    /\ UNCHANGED <<port, call>>

Next == Call \/ calculate_hyperperiod \/ CalculateHyperperiod \/ Return \/ clear_workload \/ clear_all

Spec == Init /\ [][Next]_vars

----------------------------------------------------------------------------
(* The reference: h is the least positive common multiple of S              *)

Divides(d, n) == n % d = 0

IsLcm(h, S) ==
    /\ h > 0 /\ \A p \in S : Divides(p, h)
    /\ \A g \in 1..(h - 1) : \E p \in S : ~Divides(p, g)

(* Multiples of S up to n                                                   *)
HasMultipleUpTo(n, S) == \E h \in 1..n : \A p \in S : Divides(p, h)

PeriodsOf(w, tasks) == {tasks[i].period_us : i \in {j \in DOMAIN tasks : tasks[j].workload_id = w}} \ {0}

(* The Rust port is exact: it errs with Overflow if and only if no common   *)
(* multiple of this workload's periods is a u64, with TooLarge if and only  *)
(* if one is but none within the limit, and otherwise stores the least      *)
(* common multiple of them, although it folds them pair by pair.            *)
RustIsExact ==
    port = "rust" /\ call.at = "done" =>
        LET S == PeriodsOf(call.workload_id, call.tasks) IN
        /\ call.answer = IF S = {} THEN "NoValidPeriods"
                         ELSE IF ~HasMultipleUpTo(MaxU64, S) THEN "Overflow"
                         ELSE IF ~HasMultipleUpTo(LimitUs, S) THEN "TooLarge" ELSE "Ok"
        /\ call.answer = "Ok" => IsLcm(map[call.workload_id].hyperperiod_us, S)

(* The C++ manager is wrong only where a u64 cannot be right: whenever the  *)
(* least common multiple of this workload's periods fits, that is what it   *)
(* stores, although its multiplication is not checked.                      *)
WrongOnlyByWrapping ==
    port = "cpp" /\ call.at = "done" =>
        LET S == PeriodsOf(call.workload_id, call.tasks) IN
        S # {} /\ HasMultipleUpTo(MaxU64, S) =>
            call.answer = "Ok" /\ IsLcm(map[call.workload_id].hyperperiod_us, S)

=============================================================================
