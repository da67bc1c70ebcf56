----------------------------- MODULE MCService ------------------------------
(***************************************************************************)
(* Small instances of ConnectionPool and HttpServer for TLC.  A handler    *)
(* uses the pool only inside process, so the two are checked apart: a      *)
(* behaviour is of one or of the other.                                    *)
(***************************************************************************)
EXTENDS ConnectionPool, HttpServer

CONSTANTS c1, c2, a1, a2, prod, scan, none, nobody, k1, k2, l1, l2, Scenes

VARIABLE scene

TwoConsumers == {c1, c2}
TwoConns == {a1, a2}
Connects == {TRUE}
MayFail == BOOLEAN

MCClients == {k1, k2}
MCAddrs == {l1, l2}
MCFds == 1..4
AllResults == {"data", "again", "closed"}

PoolOnly == {"pool"}
ServerOnly == {"server"}
BothScenes == {"pool", "server"}

all == <<scene, vars, serverVars>>

MCInit ==
    /\ scene \in Scenes /\ Init /\ ServerInit
    /\ scene = "server" => m_connectionQueue[1] = a1 /\ broken = {}

MCNext ==
    /\ UNCHANGED scene
    /\ \/ scene = "pool" /\ Next /\ UNCHANGED serverVars
       \/ scene = "server" /\ ServerNext /\ UNCHANGED vars

MCSpec ==
    /\ MCInit /\ [][MCNext]_all
    /\ (scene = "pool" /\ Fairness) \/ (scene = "server" /\ ServerFairness)
=============================================================================
