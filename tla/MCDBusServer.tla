---------------------------- MODULE MCDBusServer ----------------------------
(* DBusServer with two nodes: both in the first and third schedule, one in  *)
(* the second                                                               *)
EXTENDS DBusServer

CONSTANTS n1, n2

MCNodes == {n1, n2}
MCMembers == <<{n1, n2}, {n2}, {n1, n2}>>

=============================================================================
