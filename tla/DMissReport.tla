---------------------------- MODULE DMissReport ----------------------------
(***************************************************************************)
(* The way of a deadline miss in the Rust port: the RT loop puts it into a  *)
(* bounded queue (report_dmiss), a background task sends one ReportDMiss    *)
(* RPC at a time (run_dmiss_reporter), Timpani-O's handler looks up the     *)
(* workload under the store lock and forwards a fault to Pullpiri           *)
(* (report_d_miss, notify_fault).  The RPC has the 500 ms timeout of the    *)
(* node's channel; notify_fault has none, so a handler may outlive its RPC. *)
(* Misses are numbered in the order in which the RT loop reports them.      *)
(***************************************************************************)
EXTENDS Naturals, Sequences

CONSTANTS MaxMisses,          \* bound: misses reported in one behaviour
          MaxWorkloads,       \* bound: workloads stored in one behaviour
          DMISS_QUEUE_DEPTH

ASSUME MissAssumption == MaxMisses \in Nat /\ MaxWorkloads \in Nat /\ DMISS_QUEUE_DEPTH \in Nat \ {0}

VARIABLES reported,   \* misses reported so far
          queue,      \* the mpsc channel
          tx_open,    \* the NodeClient that owns dmiss_tx exists
          cancel,     \* the CancellationToken
          reporter,   \* "recv", "rpc" or "stopped"
          current,    \* the miss the reporter is busy with, 0 for none
          fate,       \* what became of every miss on the node
          ran,        \* the workload the node ran when it reported the miss
          handler,    \* where the server's handler of a miss stands
          blamed,     \* the workload the handler resolved
          received,   \* how often Pullpiri got a fault for the miss
          store       \* the workload Timpani-O stores, 0 for none, and the
                      \* number stored so far

reporterVars == <<reported, queue, tx_open, cancel, reporter, current, fate, ran>>
serverVars == <<handler, blamed, received, store>>
missVars == <<reporterVars, serverVars>>

Misses == 1..MaxMisses

MissInit ==
    /\ reported = 0
    /\ queue = <<>>
    /\ tx_open = TRUE
    /\ cancel = FALSE
    /\ reporter = "recv"
    /\ current = 0
    /\ fate = [k \in Misses |-> "none"]
    /\ ran = [k \in Misses |-> 0]
    /\ handler = [k \in Misses |-> "none"]
    /\ blamed = [k \in Misses |-> 0]
    /\ received = [k \in Misses |-> 0]
    /\ store = [cur |-> 0, made |-> 0]

----------------------------------------------------------------------------
(* The node                                                                 *)

(* The RT loop reports a miss of a task of workload w, which its node once  *)
(* pulled.  try_send fails without waiting when the reporter is gone or the *)
(* queue is full.                                                           *)
report_dmiss(w) ==
    LET k == reported + 1 IN
    /\ reported < MaxMisses /\ tx_open
    /\ reported' = k
    /\ ran' = [ran EXCEPT ![k] = w]
    /\ IF reporter = "stopped" \/ Len(queue) = DMISS_QUEUE_DEPTH
       THEN /\ fate' = [fate EXCEPT ![k] = IF reporter = "stopped" THEN "closed" ELSE "full"]
            /\ UNCHANGED queue
       ELSE /\ fate' = [fate EXCEPT ![k] = "queued"]
            /\ queue' = Append(queue, k)
    /\ UNCHANGED <<tx_open, cancel, reporter, current, serverVars>>

(* The reporter leaves its loop: the receiver and what it holds are dropped *)
Stop ==
    /\ reporter' = "stopped"
    /\ queue' = <<>>
    /\ fate' = [k \in Misses |-> IF fate[k] = "queued" THEN "lost" ELSE fate[k]]
    /\ UNCHANGED <<reported, tx_open, cancel, current, ran, serverVars>>

(* Mutation: only the closed queue ends the loop                            *)
ReporterStop_Deaf ==
    /\ reporter = "recv"
    /\ ~tx_open /\ queue = <<>>
    /\ Stop

(* The biased select: the token first, then the queue, which reports that   *)
(* it is closed only once it is empty                                       *)
ReporterStop ==
    /\ reporter = "recv"
    /\ cancel \/ (~tx_open /\ queue = <<>>)
    /\ Stop

(* Mutation: a miss is taken from the queue before the token is looked at   *)
ReporterRecv_Unbiased ==
    /\ reporter = "recv"
    /\ queue # <<>>
    /\ queue' = Tail(queue)
    /\ IF cancel
       THEN /\ reporter' = "stopped"
            /\ UNCHANGED <<current, fate, handler>>
       ELSE /\ reporter' = "rpc"
            /\ current' = Head(queue)
            /\ fate' = [fate EXCEPT ![Head(queue)] = "rpc"]
            /\ handler' = [handler EXCEPT ![Head(queue)] = "lock"]
    /\ UNCHANGED <<reported, tx_open, cancel, ran, blamed, received, store>>

(* A miss is taken and the RPC sent; it reaches the server or it does not   *)
ReporterRecv ==
    /\ reporter = "recv"
    /\ ~cancel
    /\ queue # <<>>
    /\ LET k == Head(queue) IN
       /\ current' = k
       /\ fate' = [fate EXCEPT ![k] = "rpc"]
       /\ handler' \in {handler, [handler EXCEPT ![k] = "lock"]}
    /\ queue' = Tail(queue)
    /\ reporter' = "rpc"
    /\ UNCHANGED <<reported, tx_open, cancel, ran, blamed, received, store>>

Finish(result) ==
    /\ fate' = [fate EXCEPT ![current] = result]
    /\ reporter' = "recv"
    /\ current' = 0

(* The response arrives: status 0 or not, nothing is tried again            *)
RpcReturn ==
    /\ reporter = "rpc"
    /\ handler[current] \in {"ok", "error"}
    /\ Finish(IF handler[current] = "ok" THEN "delivered" ELSE "refused")
    /\ handler' = [handler EXCEPT ![current] = "gone"]
    /\ UNCHANGED <<reported, queue, tx_open, cancel, ran, blamed, received, store>>

(* Mutation: the failed RPC is sent again at once                           *)
RpcFail_Resend ==
    /\ reporter = "rpc"
    /\ handler' = [handler EXCEPT ![current] = "lock"]
    /\ UNCHANGED <<reporterVars, blamed, received, store>>

(* The RPC fails or times out: the miss is dropped on the node, a handler   *)
(* that has started may go on                                               *)
RpcFail ==
    /\ reporter = "rpc"
    /\ Finish("failed")
    /\ UNCHANGED <<reported, queue, tx_open, cancel, ran, serverVars>>

(* SIGINT or SIGTERM                                                        *)
Signal ==
    /\ ~cancel
    /\ cancel' = TRUE
    /\ UNCHANGED <<reported, queue, tx_open, reporter, current, fate, ran, serverVars>>

(* run_app returns: the NodeClient and its dmiss_tx are dropped             *)
DropClient ==
    /\ tx_open
    /\ tx_open' = FALSE
    /\ UNCHANGED <<reported, queue, cancel, reporter, current, fate, ran, serverVars>>

Reporter == ReporterStop \/ ReporterRecv \/ RpcReturn \/ RpcFail

----------------------------------------------------------------------------
(* Timpani-O                                                                *)

(* Mutation: the workload of the first request is remembered                *)
HandlerResolve_Cached(k) ==
    /\ handler[k] = "lock"
    /\ handler' = [handler EXCEPT ![k] = IF store.cur = 0 THEN "error" ELSE "notify"]
    /\ blamed' = [blamed EXCEPT ![k] = IF store.cur = 0 THEN 0 ELSE 1]
    /\ UNCHANGED <<reporterVars, received, store>>

(* report_d_miss under the lock: no workload is an answer, and a task the   *)
(* stored schedule does not know is blamed on the stored workload all the   *)
(* same                                                                     *)
HandlerResolve(k) ==
    /\ handler[k] = "lock"
    /\ handler' = [handler EXCEPT ![k] = IF store.cur = 0 THEN "error" ELSE "notify"]
    /\ blamed' = [blamed EXCEPT ![k] = store.cur]
    /\ UNCHANGED <<reporterVars, received, store>>

(* notify_fault: Pullpiri gets the fault and its status comes back, or the  *)
(* call fails on its way there or on its way back                           *)
notify_fault(k, result) ==
    \/ received' = [received EXCEPT ![k] = @ + 1]
    \/ result = "error" /\ UNCHANGED received

(* report_d_miss answers what notify_fault returned                         *)
HandlerNotify(k) ==
    /\ handler[k] = "notify"
    /\ \E result \in {"ok", "error"} :
          /\ notify_fault(k, result)
          /\ handler' = [handler EXCEPT ![k] = result]
    /\ UNCHANGED <<reporterVars, blamed, store>>

(* tonic drops a handler at its await once its client has given up          *)
HandlerDropped(k) ==
    /\ handler[k] \in {"lock", "notify"}
    /\ k # current
    /\ handler' = [handler EXCEPT ![k] = "gone"]
    /\ UNCHANGED <<reporterVars, blamed, received, store>>

(* A workload is stored; Timpani-O restarts without one                     *)
Replace ==
    /\ store.made < MaxWorkloads
    /\ store' = [cur |-> store.made + 1, made |-> store.made + 1]
    /\ UNCHANGED <<reporterVars, handler, blamed, received>>

ServerRestart ==
    /\ store.cur # 0
    /\ store' = [store EXCEPT !.cur = 0]
    /\ handler' = [k \in Misses |-> IF handler[k] = "none" THEN "none" ELSE "gone"]
    /\ UNCHANGED <<reporterVars, blamed, received>>

MissNext ==
    \/ \E w \in 1..store.made : report_dmiss(w)
    \/ ReporterStop \/ ReporterRecv \/ RpcReturn \/ RpcFail
    \/ Signal \/ DropClient
    \/ \E k \in Misses : HandlerResolve(k) \/ HandlerNotify(k) \/ HandlerDropped(k)
    \/ Replace \/ ServerRestart

MissSpec == MissInit /\ [][MissNext]_missVars

(* tokio polls the reporter and its request timeout elapses.  Nothing is    *)
(* assumed of Timpani-O and Pullpiri.                                       *)
FairMissSpec == MissSpec /\ WF_missVars(Reporter)

----------------------------------------------------------------------------

(* Pullpiri gets at most one fault per miss, although RPCs fail, time out   *)
(* and leave handlers behind, and misses leave the node in the order in     *)
(* which the RT loop reported them: what is queued is in order and younger  *)
(* than all that was ever sent.                                             *)
SentOnceInOrder ==
    /\ \A k \in Misses : received[k] <= 1
    /\ \A i, j \in DOMAIN queue : i < j => queue[i] < queue[j]
    /\ \A k \in Misses, i \in DOMAIN queue :
           fate[k] \in {"rpc", "delivered", "refused", "failed"} => k < queue[i]

(* No miss vanishes: one that was accepted is in the queue, with the        *)
(* reporter, or has an end that was logged.                                 *)
NothingVanishes ==
    \A k \in 1..reported :
        /\ fate[k] = "queued" => \E i \in DOMAIN queue : queue[i] = k
        /\ fate[k] = "rpc" => current = k
        /\ fate[k] # "none"

(* A miss is never blamed on a workload older than the one the node ran;    *)
(* it may be blamed on a newer one, which replaced it in the meantime.      *)
NeverBlamedOnOlder == \A k \in Misses : blamed[k] # 0 => ran[k] <= blamed[k]

(* A signal stops the reporter, also while an RPC is pending.               *)
ReporterStops == cancel ~> reporter = "stopped"

=============================================================================
