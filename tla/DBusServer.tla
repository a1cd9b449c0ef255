----------------------------- MODULE DBusServer -----------------------------
(***************************************************************************)
(* The C++ Timpani-O: SchedInfoServiceImpl, whose AddSchedInfo runs on gRPC *)
(* threads, and DBusServer, whose callbacks run one after the other on the  *)
(* event-loop thread, with the C Timpani-N of each node as their callers.   *)
(* Schedules are numbered by the AddSchedInfo call that brought them.  The  *)
(* task arrays of a schedule are freed when the next one replaces it: a     *)
(* callback that still reads them serialises them intact or torn.           *)
(***************************************************************************)
EXTENDS Naturals

CONSTANTS Nodes,
          MaxCalls,     \* bound: AddSchedInfo calls
          Members,      \* the nodes of each call's schedule
          MaxRestarts,  \* bound: restarts of Timpani-O
          MaxExits      \* bound: exits of nodes

ASSUME BoundAssumption ==
    /\ {MaxCalls, MaxRestarts, MaxExits} \subseteq Nat
    /\ Members \in [1..MaxCalls -> SUBSET Nodes]

VARIABLES sched_info_map,      \* the stored schedule, 0 for none
          sched_info_changed,
          calls,
          sched_info_buf,      \* the serialised schedule, None if not allocated
          node_sync_map,
          syncOf, polled,      \* history: whose map it is, who polled
          running,             \* running_
          thread,              \* the event-loop thread
          listening,           \* the event source of the listening socket is enabled
          cb,                  \* the callback it is in
          phase, request,      \* of each node: where it stands, what it asks
          pulled,              \* and the schedule it works with
          connected,           \* the nodes with a connection to this process
          accepted,            \* those of them that server_handler took
          restarts, exits

storeVars == <<sched_info_map, sched_info_changed, calls>>
syncVars == <<node_sync_map, syncOf, polled>>
threadVars == <<running, thread, listening>>
linkVars == <<connected, accepted>>
nodeVars == <<phase, request, pulled, linkVars, exits>>
vars == <<storeVars, sched_info_buf, syncVars, threadVars, cb, nodeVars, restarts>>

None == [ver |-> 0, torn |-> FALSE]
Idle == [at |-> "idle"]
NoMap == [n \in Nodes |-> "absent"]

Init ==
    /\ sched_info_map = 0 /\ sched_info_changed = FALSE
    /\ sched_info_buf = None
    /\ node_sync_map = NoMap /\ syncOf = 0 /\ polled = {}
    /\ running = FALSE /\ thread = "none" /\ listening = FALSE /\ cb = Idle
    /\ calls = 0 /\ restarts = 0 /\ exits = 0
    /\ phase = [n \in Nodes |-> "off"]
    /\ request = [n \in Nodes |-> "none"]
    /\ pulled = [n \in Nodes |-> None]
    /\ connected = {} /\ accepted = {}

----------------------------------------------------------------------------
(* SchedInfoServiceImpl                                                     *)

(* Mutation: the flag is raised only when a new schedule is stored          *)
AddSchedInfo_FlagOnSuccess ==
    /\ calls < MaxCalls
    /\ calls' = calls + 1
    /\ sched_info_map' \in {0, calls + 1}
    /\ sched_info_changed' = (sched_info_changed \/ (sched_info_map # 0 /\ sched_info_map' # 0))
    /\ UNCHANGED <<sched_info_buf, syncVars, threadVars, cb, nodeVars, restarts>>

(* The old schedule goes first; hyperperiod or scheduling may fail then     *)
AddSchedInfo ==
    /\ calls < MaxCalls
    /\ calls' = calls + 1
    /\ sched_info_changed' = (sched_info_changed \/ sched_info_map # 0)
    /\ sched_info_map' \in {0, calls + 1}
    /\ UNCHANGED <<sched_info_buf, syncVars, threadVars, cb, nodeVars, restarts>>

(* GetSchedInfoMap(&changed): reading the flag resets it                    *)
GetSchedInfoMap == sched_info_changed' = FALSE /\ UNCHANGED <<sched_info_map, calls>>

----------------------------------------------------------------------------
(* DBusServer: Start and EventLoop                                          *)

(* trpc_server_create, then the thread                                      *)
StartThread ==
    /\ thread = "none"
    /\ thread' = "new"
    /\ listening' = TRUE
    /\ UNCHANGED <<storeVars, sched_info_buf, syncVars, running, cb, nodeVars, restarts>>

StartDone ==
    /\ thread # "none" /\ ~running
    /\ running' = TRUE
    /\ UNCHANGED <<storeVars, sched_info_buf, syncVars, thread, listening, cb, nodeVars, restarts>>

(* The first test of running_, which Start sets after it made the thread    *)
EventLoop ==
    /\ thread = "new"
    /\ thread' = IF running THEN "loop" ELSE "exited"
    /\ UNCHANGED <<storeVars, sched_info_buf, syncVars, running, listening, cb, nodeVars, restarts>>

(* A handler that returns an error is disabled by sd-event: when accept4 or *)
(* init_dbus_server fails once, no later connection is taken either.        *)
server_handler(n) ==
    /\ thread = "loop" /\ cb = Idle /\ listening
    /\ n \in connected \ accepted
    /\ \/ accepted' = accepted \union {n} /\ UNCHANGED listening
       \/ listening' = FALSE /\ UNCHANGED accepted
    /\ UNCHANGED <<storeVars, sched_info_buf, syncVars, running, thread, cb, phase, request,
                   pulled, connected, exits, restarts>>

Ready(n, kind) == thread = "loop" /\ cb = Idle /\ n \in accepted /\ request[n] = kind

Answer(n) == request' = [request EXCEPT ![n] = "none"]

(* The callbacks                                                            *)

(* Mutation: the flag is not read, a filled buffer is taken as it is        *)
SchedInfoCallback_KeepsBuffer(n) ==
    /\ Ready(n, "schedinfo")
    /\ cb' = [at |-> "serialize", node |-> n, map |-> sched_info_map]
    /\ UNCHANGED <<storeVars, sched_info_buf, syncVars, threadVars, nodeVars, restarts>>

(* SchedInfoCallback: copies the map and takes the flag; a changed map      *)
(* frees the buffer                                                         *)
SchedInfoCallback(n) ==
    /\ Ready(n, "schedinfo")
    /\ cb' = [at |-> "serialize", node |-> n, map |-> sched_info_map]
    /\ GetSchedInfoMap
    /\ sched_info_buf' = IF sched_info_changed THEN None ELSE sched_info_buf
    /\ UNCHANGED <<syncVars, threadVars, nodeVars, restarts>>

(* The buffer SerializeSchedInfo may leave: the one there is, or a new one  *)
SerializeSchedInfo(map) ==
    IF sched_info_buf # None \/ map = 0 THEN {sched_info_buf}
    ELSE [ver : {map}, torn : IF map = sched_info_map THEN {FALSE} ELSE BOOLEAN]

(* The rest of SchedInfoCallback, without the lock, and the node's use of   *)
(* the answer: no schedule means a retry, no task of its own means exit     *)
SchedInfoReply ==
    /\ cb.at = "serialize"
    /\ cb' = Idle
    /\ sched_info_buf' \in SerializeSchedInfo(cb.map)
    /\ LET n == cb.node IN
       IF n = "gone" THEN UNCHANGED <<phase, request, pulled>>
       ELSE /\ Answer(n)
            /\ IF cb.map = 0 THEN UNCHANGED <<phase, pulled>>
               ELSE /\ pulled' = [pulled EXCEPT ![n] = sched_info_buf']
                    /\ phase' = [phase EXCEPT ![n] =
                           IF n \in Members[sched_info_buf'.ver] THEN "sync" ELSE "off"]
    /\ UNCHANGED <<storeVars, syncVars, threadVars, linkVars, exits, restarts>>

(* Mutation: nodes enter the map as they call                               *)
SyncMap_Callers ==
    IF node_sync_map = NoMap /\ sched_info_map # 0
    THEN [n \in Nodes |-> IF n \in Members[sched_info_map] /\ request[n] = "sync"
                          THEN "waiting" ELSE "absent"]
    ELSE node_sync_map

(* SyncCallback's map, initialised from the stored schedule while empty     *)
SyncMap ==
    IF node_sync_map = NoMap /\ sched_info_map # 0
    THEN [n \in Nodes |-> IF n \in Members[sched_info_map] THEN "waiting" ELSE "absent"]
    ELSE node_sync_map

Mark(map, n) == IF map[n] = "absent" THEN map ELSE [map EXCEPT ![n] = "ready"]

AllReady(map) == \A n \in Nodes : map[n] # "waiting"

(* Mutation: the answer is held back until all nodes are ready              *)
SyncCallback_Blocks(n) ==
    /\ Ready(n, "sync")
    /\ node_sync_map' = Mark(SyncMap, n)
    /\ syncOf' = IF node_sync_map = NoMap THEN sched_info_map ELSE syncOf
    /\ polled' = polled \union {n}
    /\ IF node_sync_map'[n] # "absent" /\ AllReady(node_sync_map')
       THEN Answer(n) /\ phase' = [phase EXCEPT ![n] = "run"]
       ELSE UNCHANGED <<phase, request>>
    /\ UNCHANGED <<storeVars, sched_info_buf, threadVars, cb, pulled, linkVars, exits, restarts>>

(* Without an ack the node polls again                                      *)
SyncCallback(n) ==
    /\ Ready(n, "sync")
    /\ node_sync_map' = Mark(SyncMap, n)
    /\ syncOf' = IF node_sync_map = NoMap THEN sched_info_map ELSE syncOf
    /\ polled' = polled \union {n}
    /\ Answer(n)
    /\ phase' = [phase EXCEPT ![n] =
           IF node_sync_map'[n] # "absent" /\ AllReady(node_sync_map') THEN "run" ELSE "sync"]
    /\ UNCHANGED <<storeVars, sched_info_buf, threadVars, cb, pulled, linkVars, exits, restarts>>

(* DMissCallback: whether the task is found or not, the fault is blamed on  *)
(* the one workload of the copied map.  NotifyFault has no deadline.        *)
DMissCallback(n) ==
    /\ Ready(n, "dmiss")
    /\ cb' = [at |-> "notify", node |-> n, map |-> sched_info_map]
    /\ UNCHANGED <<storeVars, sched_info_buf, syncVars, threadVars, nodeVars, restarts>>

NotifyReturn ==
    /\ cb.at = "notify"
    /\ cb' = Idle
    /\ IF cb.node = "gone" THEN UNCHANGED request ELSE Answer(cb.node)
    /\ UNCHANGED <<storeVars, sched_info_buf, syncVars, threadVars, phase, pulled, linkVars, exits, restarts>>

----------------------------------------------------------------------------
(* The nodes, and the process                                               *)

Ask(n, kind) ==
    /\ request[n] = "none"
    /\ request' = [request EXCEPT ![n] = kind]

Launch(n) ==
    /\ phase[n] = "off"
    /\ phase' = [phase EXCEPT ![n] = "pull"]
    /\ UNCHANGED <<storeVars, sched_info_buf, syncVars, threadVars, cb, request, pulled,
                   linkVars, exits, restarts>>

(* Every attempt makes a connection of its own; later calls use it.  While  *)
(* there is no socket the attempt fails and is repeated.                    *)
get_sched_info(n) ==
    /\ phase[n] = "pull" /\ thread # "none" /\ Ask(n, "schedinfo")
    /\ connected' = connected \union {n} /\ accepted' = accepted \ {n}
    /\ UNCHANGED <<storeVars, sched_info_buf, syncVars, threadVars, cb, phase, pulled,
                   exits, restarts>>

sync_timer_internal(n) ==
    /\ phase[n] = "sync" /\ Ask(n, "sync")
    /\ UNCHANGED <<storeVars, sched_info_buf, syncVars, threadVars, cb, phase, pulled,
                   linkVars, exits, restarts>>

report_deadline_miss(n) ==
    /\ phase[n] = "run" /\ n \in connected /\ Ask(n, "dmiss")
    /\ UNCHANGED <<storeVars, sched_info_buf, syncVars, threadVars, cb, phase, pulled,
                   linkVars, exits, restarts>>

(* A node ends: a signal, a crash, a call that failed or timed out          *)
Exit(n) ==
    /\ exits < MaxExits /\ phase[n] # "off"
    /\ exits' = exits + 1
    /\ phase' = [phase EXCEPT ![n] = "off"]
    /\ Answer(n)
    /\ pulled' = [pulled EXCEPT ![n] = None]
    /\ connected' = connected \ {n} /\ accepted' = accepted \ {n}
    /\ cb' = IF cb # Idle /\ cb.node = n THEN [cb EXCEPT !.node = "gone"] ELSE cb
    /\ UNCHANGED <<storeVars, sched_info_buf, syncVars, threadVars, restarts>>

(* Timpani-O ends and starts again; calls under way fail and their nodes    *)
(* end, the running ones go on                                              *)
Restart ==
    /\ restarts < MaxRestarts
    /\ restarts' = restarts + 1
    /\ sched_info_map' = 0 /\ sched_info_changed' = FALSE
    /\ sched_info_buf' = None
    /\ node_sync_map' = NoMap /\ syncOf' = 0 /\ polled' = {}
    /\ running' = FALSE /\ thread' = "none" /\ listening' = FALSE /\ cb' = Idle
    /\ request' = [n \in Nodes |-> "none"]
    /\ phase' = [n \in Nodes |-> IF phase[n] = "sync" THEN "off" ELSE phase[n]]
    /\ connected' = {} /\ accepted' = {}
    /\ UNCHANGED <<calls, pulled, exits>>

----------------------------------------------------------------------------

Next ==
    \/ AddSchedInfo \/ StartThread \/ StartDone \/ EventLoop
    \/ SchedInfoReply \/ NotifyReturn \/ Restart
    \/ \E n \in Nodes :
           \/ server_handler(n) \/ SchedInfoCallback(n) \/ SyncCallback(n) \/ DMissCallback(n)
           \/ Launch(n) \/ get_sched_info(n) \/ sync_timer_internal(n)
           \/ report_deadline_miss(n) \/ Exit(n)

Spec == Init /\ [][Next]_vars

(* The threads run, sd-event does not starve a connection, and Pullpiri     *)
(* answers.  Nothing is assumed of the nodes and of AddSchedInfo.           *)
FairSpec ==
    /\ Spec
    /\ WF_vars(StartThread) /\ WF_vars(StartDone) /\ WF_vars(EventLoop)
    /\ WF_vars(SchedInfoReply) /\ WF_vars(NotifyReturn)
    /\ \A n \in Nodes :
           /\ SF_vars(server_handler(n))
           /\ SF_vars(SchedInfoCallback(n) \/ SyncCallback(n) \/ DMissCallback(n))

----------------------------------------------------------------------------

(* A buffer serialised from a schedule that has been replaced or removed,   *)
(* torn or not, is always flagged: the next SchedInfoCallback frees it.     *)
StaleBufferIsFlagged ==
    sched_info_buf # None /\ (sched_info_buf.ver # sched_info_map \/ sched_info_buf.torn) =>
        sched_info_changed

(* SchedInfoCallback never answers from an older buffer than the map it     *)
(* copied, although copy and answer are not one lock section.               *)
AnswersWhatItCopied ==
    cb.at = "serialize" /\ sched_info_buf # None => sched_info_buf.ver = cb.map

(* Of the nodes that pulled the schedule the sync map was made from, none   *)
(* runs before all nodes of that schedule have polled SyncCallback.         *)
BarrierOfItsWorkload ==
    \A n \in Nodes :
        phase[n] = "run" /\ syncOf # 0 /\ pulled[n].ver = syncOf => Members[syncOf] \subseteq polled

(* Every call of a node is answered: no callback waits for another node.    *)
(* The exceptions are an event loop that saw running_ before Start set it,  *)
(* and a new connection after server_handler has failed.                    *)
EveryCallIsAnswered ==
    \A n \in Nodes : request[n] # "none" ~>
        request[n] = "none" \/ thread = "exited" \/ (~listening /\ n \notin accepted)

=============================================================================
