----------------------------- MODULE MCReactor ------------------------------
(***************************************************************************)
(* Small instances of FdContext and TimerManager for TLC.  The two parts of*)
(* IOManager share no state, so a behaviour is of one or of the other.     *)
(*                                                                         *)
(* Both threads share socket 2, which is beyond the table at first; p2 has *)
(* socket 1 for itself.                                                    *)
(***************************************************************************)
EXTENDS FdContext, TimerManager, TLC

CONSTANTS p1, p2, i1, i2, x1, x2

VARIABLE scene

MCThreads == {p1, p2}
MCFds == 1..2
MCUses == {<<p1, 2>>, <<p2, 2>>, <<p2, 1>>}
MCStray == {<<p2, 1>>}

TwoIdlers == {i1, i2}
TwoTimers == {x1, x2}
MCPeriods == {0, 2}

Symmetry == Permutations(TwoIdlers) \cup Permutations(TwoTimers)

MCInit == scene \in {"contexts", "timers"} /\ FdInit /\ Init

MCNext ==
    /\ UNCHANGED scene
    /\ \/ scene = "contexts" /\ FdNext /\ UNCHANGED vars
       \/ scene = "timers" /\ Next /\ UNCHANGED fdVars

MCSpec == MCInit /\ [][MCNext]_<<scene, fdVars, vars>>
=============================================================================
