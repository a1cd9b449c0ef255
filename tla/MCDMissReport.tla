--------------------------- MODULE MCDMissReport ---------------------------
(* DMissReport with a queue of two and one miss more than it holds          *)
EXTENDS DMissReport

MCMisses == 3
MCDepth == 2
MCWorkloads == 2

=============================================================================
