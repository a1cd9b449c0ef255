---------------------------- MODULE NodeStartup ----------------------------
(***************************************************************************)
(* The start-up of the Rust Timpani-N (run_app) against the Timpani-O of    *)
(* SyncBarrier: connect with retries, GetSchedInfo with retries, SyncTimer, *)
(* then wait for a shutdown signal.  Every RPC of the client has the        *)
(* endpoint's 500 ms timeout; a handler whose client has left stays on the  *)
(* server until tonic drops it.  A node that exited may be launched again   *)
(* by its supervisor.                                                       *)
(***************************************************************************)
EXTENDS SyncBarrier

CONSTANTS max_retries,  \* --max-retries of a node
          Sites,        \* the deployments
          NoCall

(* A deployment: its nodes, the calls that bound it, the nodes started with *)
(* enable_sync, and whether its start is calm (see Calm)                    *)
ASSUME SiteAssumption ==
    /\ max_retries \in Nat /\ NoCall \notin Calls
    /\ Sites \subseteq [nodes : SUBSET Nodes, calls : SUBSET Calls, sync : SUBSET Nodes, calm : BOOLEAN]

VARIABLES site,        \* the deployment
          phase,       \* where run_app stands, "off" when there is no process
          attempt,     \* retries used in the current loop
          cancel,      \* nodes whose CancellationToken is cancelled
          sched_info,  \* workload of the schedule pulled, 0 before
          call,        \* the SyncTimer call awaited
          sync_from,   \* workload whose barrier gave sync_start, 0 for none
          sync_start   \* RuntimeState.sync_start

nodeVars == <<site, phase, attempt, cancel, sched_info, call, sync_from, sync_start>>
allVars == <<vars, nodeVars>>

NodeInit ==
    /\ Init
    /\ site \in Sites
    /\ phase = [n \in Nodes |-> "off"]
    /\ attempt = [n \in Nodes |-> 0]
    /\ cancel = {}
    /\ sched_info = [n \in Nodes |-> 0]
    /\ call = [n \in Nodes |-> NoCall]
    /\ sync_from = [n \in Nodes |-> 0]
    /\ sync_start = [n \in Nodes |-> <<0, 0>>]

Goto(n, p) == phase' = [phase EXCEPT ![n] = p]

(* run_app returns: the process and its state are gone, the SyncTimer call  *)
(* it awaited stays on the server                                           *)
Exit(n) ==
    /\ Goto(n, "off")
    /\ attempt' = [attempt EXCEPT ![n] = 0]
    /\ cancel' = cancel \ {n}
    /\ sched_info' = [sched_info EXCEPT ![n] = 0]
    /\ call' = [call EXCEPT ![n] = NoCall]
    /\ sync_from' = [sync_from EXCEPT ![n] = 0]
    /\ sync_start' = [sync_start EXCEPT ![n] = <<0, 0>>]

(* A process has installed its signal handlers and initialised its context; *)
(* one whose affinity or priority is refused stays off                      *)
Launch(n) ==
    /\ n \in site.nodes
    /\ phase[n] = "off"
    /\ Goto(n, "connect")
    /\ UNCHANGED <<vars, attempt, cancel, sched_info, call, sync_from, sync_start>>

(* SIGINT or SIGTERM                                                        *)
Signal(n) ==
    /\ phase[n] # "off"
    /\ n \notin cancel
    /\ cancel' = cancel \union {n}
    /\ UNCHANGED <<vars, phase, attempt, sched_info, call, sync_from, sync_start>>

(* One turn of the connect loop: cancelled, connected, failed with retries  *)
(* left, failed for the last time                                           *)
Connect(n) ==
    /\ phase[n] = "connect"
    /\ \/ /\ n \in cancel
          /\ Exit(n)
       \/ /\ n \notin cancel
          /\ Goto(n, "get")
          /\ attempt' = [attempt EXCEPT ![n] = 0]
          /\ UNCHANGED <<cancel, sched_info, call, sync_from, sync_start>>
       \/ /\ n \notin cancel
          /\ attempt[n] < max_retries
          /\ Goto(n, "connect_sleep")
          /\ UNCHANGED <<attempt, cancel, sched_info, call, sync_from, sync_start>>
       \/ /\ n \notin cancel
          /\ attempt[n] = max_retries
          /\ Exit(n)
    /\ UNCHANGED vars

(* Mutation: the sleep between two attempts ignores the token               *)
RetrySleep_Deaf(n) ==
    /\ phase[n] \in {"connect_sleep", "get_sleep"}
    /\ Goto(n, IF phase[n] = "get_sleep" THEN "get" ELSE "connect")
    /\ UNCHANGED <<vars, attempt, cancel, sched_info, call, sync_from, sync_start>>

(* The biased select of a retry: the token first, then the one second sleep *)
RetrySleep(n) ==
    /\ \/ /\ phase[n] \in {"connect_sleep", "get_sleep"}
          /\ n \in cancel
          /\ Exit(n)
       \/ /\ phase[n] = "connect_sleep"
          /\ n \notin cancel
          /\ Goto(n, "connect")
          /\ attempt' = [attempt EXCEPT ![n] = @ + 1]
          /\ UNCHANGED <<cancel, sched_info, call, sync_from, sync_start>>
       \/ /\ phase[n] = "get_sleep"
          /\ n \notin cancel
          /\ Goto(n, "get")
          /\ UNCHANGED <<attempt, cancel, sched_info, call, sync_from, sync_start>>
    /\ UNCHANGED vars

(* The server's answer: the stored workload, 0 for NOT_FOUND                *)
get_sched_info == cur

(* GetSchedInfo: the stored workload whatever its nodes, NOT_FOUND without  *)
(* one, or a failed RPC                                                     *)
GetSchedInfo(n) ==
    /\ phase[n] = "get"
    /\ \/ /\ get_sched_info # 0
          /\ sched_info' = [sched_info EXCEPT ![n] = get_sched_info]
          /\ Goto(n, IF n \in site.sync THEN "sync" ELSE "running")
          /\ UNCHANGED <<attempt, cancel, call, sync_from, sync_start>>
       \/ /\ get_sched_info = 0
          /\ attempt[n] < max_retries
          /\ attempt' = [attempt EXCEPT ![n] = @ + 1]
          /\ Goto(n, "get_sleep")
          /\ UNCHANGED <<cancel, sched_info, call, sync_from, sync_start>>
       \/ /\ get_sched_info = 0
          /\ attempt[n] >= max_retries
          /\ Exit(n)
       \/ Exit(n)
    /\ UNCHANGED vars

Awaited(c) == \E n \in Nodes : call[n] = c

(* SyncTimer is sent and reaches the server's lock section                  *)
SyncTimer(n, c) ==
    /\ phase[n] = "sync"
    /\ ~Awaited(c)
    /\ SyncTimerRegister(c, n) \/ SyncTimerRefused(c, n)
    /\ call' = [call EXCEPT ![n] = c]
    /\ Goto(n, "awaiting")
    /\ UNCHANGED <<attempt, cancel, sched_info, sync_from, sync_start>>

(* The response arrives: ack starts the node, any status is fatal           *)
SyncReturn(n) ==
    LET c == call[n] IN
    /\ phase[n] = "awaiting"
    /\ ~Live(c)
    /\ IF answer[c] = "ack"
       THEN /\ Goto(n, "running")
            /\ call' = [call EXCEPT ![n] = NoCall]
            /\ sync_from' = [sync_from EXCEPT ![n] = on[c]]
            /\ sync_start' = [sync_start EXCEPT ![n] = ackStart[c]]
            /\ UNCHANGED <<attempt, cancel, sched_info>>
       ELSE Exit(n)
    /\ UNCHANGED vars

(* The endpoint's request timeout: fatal as well                            *)
SyncClientTimeout(n) ==
    /\ phase[n] = "awaiting"
    /\ Exit(n)
    /\ UNCHANGED vars

(* Mutation: only a node with a start time looks at the token               *)
Shutdown_AfterStart(n) ==
    /\ phase[n] = "running"
    /\ n \in cancel
    /\ sync_from[n] # 0
    /\ Exit(n)
    /\ UNCHANGED vars

(* cancel.cancelled().await, cleanup, Ok                                    *)
Shutdown(n) ==
    /\ phase[n] = "running"
    /\ n \in cancel
    /\ Exit(n)
    /\ UNCHANGED vars

RunApp(n) ==
    \/ Connect(n) \/ RetrySleep(n) \/ GetSchedInfo(n)
    \/ \E c \in site.calls : SyncTimer(n, c)
    \/ SyncReturn(n) \/ SyncClientTimeout(n) \/ Shutdown(n)

Server ==
    \/ \E nodes \in SUBSET site.nodes : AddSchedInfo(nodes)
    \/ \E c \in Calls : Handler(c) \/ Disconnect(c)
    \/ Restart

(* A calm start: the RPCs succeed at once, nobody is signalled or gives up, *)
(* no timer elapses, nothing is dropped or replaced                         *)
Calm ==
    /\ cancel' = {}
    /\ cur' >= cur /\ (cur # 0 => cur' = cur)
    /\ \A n \in Nodes : phase'[n] \notin {"connect_sleep", "get_sleep"} /\ (phase'[n] = "off" => phase[n] = "off")
    /\ \A c \in Calls : pc'[c] # "expired" /\ answer'[c] # "dropped"

Step(A) == A /\ site' = site /\ (site.calm => Calm)

HandlerStep(c) == Step(Handler(c) /\ UNCHANGED nodeVars)

NodeNext ==
    \/ \E n \in Nodes : Step(Launch(n) \/ Signal(n) \/ RunApp(n))
    \/ Step(Server /\ UNCHANGED nodeVars)

NodeSpec == NodeInit /\ [][NodeNext]_allVars

(* The tokio runtimes poll every task; sleeps and request timeouts elapse.  *)
(* The pool Calls bounds the model, not the server: a node that wants to    *)
(* call is not starved of a slot.  In a calm start every node is launched.  *)
FairNodeSpec ==
    /\ NodeSpec
    /\ \A c \in Calls : WF_allVars(HandlerStep(c))
    /\ \A n \in Nodes : WF_allVars(Step(RunApp(n)))
    /\ \A n \in Nodes : SF_allVars(Step(\E c \in site.calls : SyncTimer(n, c)))
    /\ WF_allVars(site.calm /\ \E n \in Nodes : Step(Launch(n)))

----------------------------------------------------------------------------

(* A node that runs after SyncTimer is one of the nodes of the workload     *)
(* whose barrier released it, every one of which had checked in, although   *)
(* clients left, came back and workloads were replaced in between.          *)
RunningNodesWereReleased ==
    \A n \in Nodes : phase[n] = "running" /\ n \in site.sync =>
        /\ sync_from[n] # 0
        /\ n \in active[sync_from[n]]
        /\ AllSynced(sync_from[n])

(* Start-up ends: a launched node runs or its run_app returns, whatever     *)
(* Timpani-O and the other nodes do.  (In a calm start nobody gives up.)    *)
StartupTerminates ==
    \A n \in Nodes : ~site.calm /\ phase[n] # "off" ~> phase[n] \in {"off", "running"}

(* A signalled node returns from run_app wherever the signal finds it,      *)
(* although the token is not looked at while an RPC is pending.             *)
SignalStops ==
    \A n \in Nodes : n \in cancel ~> phase[n] = "off"

(* In a calm start every node of the stored workload gets to run: the last  *)
(* one to check in wakes all the others.                                    *)
EveryoneStarts ==
    \A n \in Nodes : site.calm /\ cur # 0 /\ n \in active[cur] ~> phase[n] = "running"

(* In a calm start the nodes released by one barrier have one start time.   *)
StartTogether ==
    \A m, n \in Nodes : site.calm /\ phase[m] = "running" /\ phase[n] = "running" /\ sync_from[m] # 0
        /\ sync_from[m] = sync_from[n] => sync_start[m] = sync_start[n]

----------------------------------------------------------------------------
(* The inductive invariant behind StartTogether: in a calm start nobody     *)
(* calls twice, so a barrier that released its nodes is not fired again     *)
CalmInv ==
    site.calm =>
      /\ DOMAIN sync_start = Nodes
      /\ \A w \in Workloads : \A n \in synced[w] : phase[n] \in {"awaiting", "running"}
      /\ \A c \in Calls : answer[c] = "ack" => ackStart[c] = start[on[c]]
      /\ \A n \in Nodes : sync_from[n] # 0 =>
           AllSynced(sync_from[n]) /\ sync_start[n] = start[sync_from[n]]

----------------------------------------------------------------------------
(* What the protocol description says of start-up, and the code does not do *)

(* "receive its task list", then "block until all active nodes in the       *)
(* workload have checked in": the workload may be replaced between the two  *)
(* calls, and the node starts the old schedule on the new barrier.          *)
ScheduleMatchesBarrier ==
    \A n \in Nodes : phase[n] = "running" /\ n \in site.sync => sched_info[n] = sync_from[n]

=============================================================================
