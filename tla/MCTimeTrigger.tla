--------------------------- MODULE MCTimeTrigger ---------------------------
(* TimeTrigger with one task                                               *)
EXTENDS TimeTrigger

CONSTANTS t1

MCTasks == {t1}
MCSchedule == <<t1>>
MCOwn == {t1}

=============================================================================
