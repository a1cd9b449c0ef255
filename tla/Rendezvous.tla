----------------------------- MODULE Rendezvous -----------------------------
(***************************************************************************)
(* What the SyncTimer barrier promises the nodes.  Rounds are opened one    *)
(* after the other, each with the set of members that have to arrive.  A    *)
(* party waits in the open round; it may leave empty-handed at any time,    *)
(* and it goes only while its round is open and complete.                   *)
(***************************************************************************)
EXTENDS Naturals

CONSTANTS Nodes, Parties, MaxRounds

VARIABLES open,      \* the open round, 0 when there is none
          opened,    \* rounds opened so far
          members,   \* nodes that have to arrive in the open round
          arrived,   \* nodes that arrived in the open round
          at,        \* the round a party waits in, 0 when it waits in none
          out        \* how a party's last wait ended

vars == <<open, opened, members, arrived, at, out>>

Init ==
    /\ open = 0 /\ opened = 0
    /\ members = {} /\ arrived = {}
    /\ at = [p \in Parties |-> 0]
    /\ out = [p \in Parties |-> "none"]

Open(nodes) ==
    /\ opened < MaxRounds
    /\ nodes # {}
    /\ open' = opened + 1 /\ opened' = opened + 1
    /\ members' = nodes /\ arrived' = {}
    /\ UNCHANGED <<at, out>>

Close ==
    /\ open # 0
    /\ open' = 0 /\ members' = {} /\ arrived' = {}
    /\ at' = [p \in Parties |-> 0]
    /\ out' = [p \in Parties |-> IF at[p] = 0 THEN out[p] ELSE "left"]
    /\ UNCHANGED opened

Arrive(p, n) ==
    /\ at[p] = 0
    /\ n \in members
    /\ at' = [at EXCEPT ![p] = open]
    /\ arrived' = arrived \union {n}
    /\ out' = [out EXCEPT ![p] = "none"]
    /\ UNCHANGED <<open, opened, members>>

Refuse(p, n) ==
    /\ at[p] = 0
    /\ n \notin members
    /\ out' = [out EXCEPT ![p] = "left"]
    /\ UNCHANGED <<open, opened, members, arrived, at>>

Go(p) ==
    /\ at[p] # 0
    /\ at[p] = open
    /\ members \subseteq arrived
    /\ at' = [at EXCEPT ![p] = 0]
    /\ out' = [out EXCEPT ![p] = "go"]
    /\ UNCHANGED <<open, opened, members, arrived>>

Leave(p) ==
    /\ at[p] # 0
    /\ at' = [at EXCEPT ![p] = 0]
    /\ out' = [out EXCEPT ![p] = "left"]
    /\ UNCHANGED <<open, opened, members, arrived>>

Next ==
    \/ \E nodes \in SUBSET Nodes : Open(nodes)
    \/ Close
    \/ \E p \in Parties, n \in Nodes : Arrive(p, n) \/ Refuse(p, n)
    \/ \E p \in Parties : Go(p) \/ Leave(p)

Spec == Init /\ [][Next]_vars

=============================================================================
