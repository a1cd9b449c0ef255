--------------------------- MODULE MCHyperperiod ---------------------------
(* Five-bit integers: 6 and 9 give 18, 10 alone fits the limit of 20, 6 and *)
(* 10 exceed it, 9 and 10 give 90, which is no u64                          *)
EXTENDS Hyperperiod

CONSTANTS w1, w2

MCWorkloads == {w1, w2}
MCPeriods == {0, 6, 9, 10}
MCMaxTasks == 3
MCMaxU64 == 31
MCLimitUs == 20

=============================================================================
