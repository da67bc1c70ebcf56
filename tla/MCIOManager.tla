---------------------------- MODULE MCIOManager ----------------------------
(* Small instances of IOManager for TLC.                                   *)
EXTENDS IOManager, TLC

CONSTANTS w1, w2, main, t1, t2, any, own, none, fd1, nofd

MCOneWorker == {w1}
MCWorkers == {w1, w2}
MCTwoTasks == {t1, t2}
MCFds == {fd1}
NoFds == {}
PinsAny == {any}
YieldAny == {any}

Symmetry2 == Permutations(MCTwoTasks) \cup Permutations(MCWorkers)
=============================================================================
