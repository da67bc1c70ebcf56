---------------------------- MODULE MCScheduler ----------------------------
(* Small instances of Scheduler for TLC.                                   *)
EXTENDS Scheduler

CONSTANTS w1, w2, main, t1, t2, any, own, none

MCWorkers == {w1, w2}
MCTwoTasks == {t1, t2}
MCPinsMain == {any, main}
YieldOwn == {own}
YieldAny == {any}
=============================================================================
