----------------------------- MODULE HttpServer -----------------------------
(***************************************************************************)
(* HttpServer, TcpServer, HttpConn and Socket: who owns a file descriptor. *)
(*                                                                         *)
(* startAccept runs as one task per listening socket and handleClient as a *)
(* task per connection, on several threads.  A descriptor has two owners   *)
(* in the program: the Socket object, whose destructor closes it when the  *)
(* handler's task ends, and users_[fd], the HttpConn under that number,    *)
(* which closes it after a failed read, is used again by the next          *)
(* connection with the number, and is destroyed with the server.  The      *)
(* kernel gives the lowest free number, and the rest of the process (log   *)
(* files, database connections) takes its numbers from the same set.       *)
(***************************************************************************)
EXTENDS Integers, FiniteSets

CONSTANTS
    Clients,        \* client connections, in all
    Addrs,        \* addresses that bind is given
    Fds,          \* numbers that the kernel gives
    NoClient,
    Listening,    \* what is open under the number of a listening socket
    Other,        \* what is open under a number of the rest of the process
    ReadResults   \* what readv may return: "data", "again" (EAGAIN), "closed" (0, or an error)

ASSUME ServerAssumption ==
    /\ IsFiniteSet(Clients) /\ IsFiniteSet(Addrs)
    /\ NoClient # Listening /\ NoClient # Other /\ Listening # Other
    /\ {NoClient, Listening, Other} \cap Clients = {}
    /\ IsFiniteSet(Fds) /\ Fds \subseteq Nat \ {0}
    /\ ReadResults \subseteq {"data", "again", "closed"}

VARIABLES
    kernel,     \* what is open under a number
    m_sock,     \* of the Socket of a connection; 0 stands for -1
    users_,     \* for each number: isClose_, and the connection that init was called for
    userCount,
    stage,         \* how far a connection has come
    m_socks,    \* number of the listening socket of an address, or 0
    m_isStop,
    acceptor,   \* where startAccept of an address is
    client,     \* and the connection it is at, its local variable
    server,     \* what has been called: "bind", "start", "run", "closing", "closed", "destroyed"
    other,      \* number that the rest of the process has opened, or 0
    failed      \* ghost: the connections whose read failed

conns == <<m_sock, users_, userCount, stage, failed>>
tcp == <<m_socks, m_isStop, acceptor, client, server>>
serverVars == <<kernel, conns, tcp, other>>

\* From accept until handleClient returns.
Serving == {"init", "schedule", "read", "process", "empty", "write"}

ServerInit ==
    /\ kernel = [f \in Fds |-> NoClient]
    /\ m_sock = [c \in Clients |-> 0]
    /\ users_ = [f \in Fds |-> [isClose_ |-> TRUE, conn |-> NoClient]]
    /\ userCount = 0
    /\ stage = [c \in Clients |-> "new"]
    /\ m_socks = [a \in Addrs |-> 0]
    /\ m_isStop = TRUE
    /\ acceptor = [a \in Addrs |-> "off"]
    /\ client = [a \in Addrs |-> NoClient]
    /\ server = "bind"
    /\ other = 0
    /\ failed = {}

Free == {f \in Fds : kernel[f] = NoClient}

\* The number that the kernel gives next, when there is one.
Lowest == {f \in Free : \A g \in Free : f <= g}

\* close(2) on each number of a set, whatever is open under it.
ClosedAll(S) == [f \in Fds |-> IF f \in S THEN NoClient ELSE kernel[f]]

StageTo(c, p) == stage' = [stage EXCEPT ![c] = p]

AcceptorTo(a, p) == acceptor' = [acceptor EXCEPT ![a] = p]

-----------------------------------------------------------------------------
(* TcpServer: bind, start and stop.                                        *)

\* One turn of the loop of bind: CreateTCP, Socket::bind and listen succeed.
bind(a) ==
    /\ server = "bind" /\ m_socks[a] = 0
    /\ \E f \in Lowest :
        /\ kernel' = [kernel EXCEPT ![f] = Listening]
        /\ m_socks' = [m_socks EXCEPT ![a] = f]
    /\ UNCHANGED <<conns, m_isStop, acceptor, client, server, other>>

\* An address failed: every socket goes and bind returns false.  The caller tries again.
bindFailed ==
    /\ server = "bind" /\ \E a \in Addrs : m_socks[a] = 0
    /\ kernel' = ClosedAll({m_socks[a] : a \in Addrs})
    /\ m_socks' = [a \in Addrs |-> 0]
    /\ UNCHANGED <<conns, m_isStop, acceptor, client, server, other>>

bound ==
    /\ server = "bind" /\ \A a \in Addrs : m_socks[a] # 0
    /\ server' = "start"
    /\ UNCHANGED <<kernel, conns, m_socks, m_isStop, acceptor, client, other>>

start ==
    /\ server = "start" /\ m_isStop
    /\ m_isStop' = FALSE
    /\ acceptor' = [a \in Addrs |-> "test"]
    /\ server' = "run"
    /\ UNCHANGED <<kernel, conns, m_socks, client, other>>

\* Mutant: the flag is left alone and only the sockets are closed.
stopNoFlag ==
    /\ server = "run"
    /\ server' = "closing"
    /\ UNCHANGED <<kernel, conns, m_isStop, m_socks, acceptor, client, other>>

\* stop: the flag at once, the sockets in a task of the accept worker.
stop ==
    /\ server = "run"
    /\ m_isStop' = TRUE
    /\ server' = "closing"
    /\ UNCHANGED <<kernel, conns, m_socks, acceptor, client, other>>

CloseListeners ==
    /\ server = "closing"
    /\ kernel' = ClosedAll({m_socks[a] : a \in Addrs})
    /\ m_socks' = [a \in Addrs |-> 0]
    /\ server' = "closed"
    /\ UNCHANGED <<conns, m_isStop, acceptor, client, other>>

\* The tasks held the last references: users_ is destroyed, and ~HttpConn closes
\* every number whose HttpConn was never closed.
ServerDestroyed ==
    /\ server = "closed"
    /\ \A a \in Addrs : acceptor[a] = "ended"
    /\ \A c \in Clients : stage[c] \in {"new", "done"}
    /\ kernel' = ClosedAll({f \in Fds : ~users_[f].isClose_})
    /\ users_' = [f \in Fds |-> [isClose_ |-> TRUE, conn |-> NoClient]]
    /\ userCount' = userCount - Cardinality({f \in Fds : ~users_[f].isClose_})
    /\ server' = "destroyed"
    /\ UNCHANGED <<m_sock, stage, failed, m_socks, m_isStop, acceptor, client, other>>

-----------------------------------------------------------------------------
(* startAccept.                                                            *)

testStop(a) ==
    /\ acceptor[a] = "test"
    /\ AcceptorTo(a, IF m_isStop THEN "ended" ELSE "enter")
    /\ UNCHANGED <<kernel, conns, m_socks, m_isStop, client, server, other>>

\* accept(2) on m_sock, which is -1 once the socket is closed.
enter(a) ==
    /\ acceptor[a] = "enter"
    /\ AcceptorTo(a, IF m_socks[a] = 0 THEN "test" ELSE "blocked")
    /\ UNCHANGED <<kernel, conns, m_socks, m_isStop, client, server, other>>

\* A client comes.  A close of the listening number meanwhile does not end the call.
accept(a, c) ==
    /\ acceptor[a] = "blocked" /\ stage[c] = "new"
    /\ \E f \in Lowest :
        /\ kernel' = [kernel EXCEPT ![f] = c]
        /\ m_sock' = [m_sock EXCEPT ![c] = f]
    /\ StageTo(c, "init")
    /\ AcceptorTo(a, "init")
    /\ client' = [client EXCEPT ![a] = c]
    /\ UNCHANGED <<users_, userCount, failed, m_socks, m_isStop, server, other>>

\* No number is free, or the client has gone: Socket::accept returns nullptr.
acceptFailed(a) ==
    /\ acceptor[a] = "blocked"
    /\ AcceptorTo(a, "test")
    /\ UNCHANGED <<kernel, conns, m_socks, m_isStop, client, server, other>>

\* HttpConn::init of users_[client_socket].
init(a) ==
    /\ acceptor[a] = "init"
    /\ users_' = [users_ EXCEPT ![m_sock[client[a]]] = [isClose_ |-> FALSE, conn |-> client[a]]]
    /\ userCount' = userCount + 1
    /\ StageTo(client[a], "schedule")
    /\ AcceptorTo(a, "schedule")
    /\ UNCHANGED <<kernel, m_sock, failed, m_socks, m_isStop, client, server, other>>

\* handleClient becomes a task and the local client goes.
schedule(a) ==
    /\ acceptor[a] = "schedule"
    /\ StageTo(client[a], "read")
    /\ AcceptorTo(a, "test")
    /\ client' = [client EXCEPT ![a] = NoClient]
    /\ UNCHANGED <<kernel, m_sock, users_, userCount, failed, m_socks, m_isStop, server, other>>

startAccept(a) == testStop(a) \/ enter(a) \/ init(a) \/ schedule(a)

-----------------------------------------------------------------------------
(* handleClient.                                                           *)

\* HttpConn::Close on users_[f]: once only.
Close(f) ==
    IF users_[f].isClose_ THEN UNCHANGED <<kernel, users_, userCount>>
    ELSE /\ kernel' = ClosedAll({f})
         /\ users_' = [users_ EXCEPT ![f].isClose_ = TRUE]
         /\ userCount' = userCount - 1

read(c) ==
    /\ stage[c] = "read"
    /\ \E r \in ReadResults :
        IF r = "closed"
        THEN Close(m_sock[c]) /\ StageTo(c, "return") /\ failed' = failed \cup {c}
        ELSE /\ StageTo(c, IF r = "data" THEN "process" ELSE "empty")
             /\ UNCHANGED <<kernel, users_, userCount, failed>>
    /\ UNCHANGED <<m_sock, tcp, other>>

\* FALSE without any bytes to parse (init has emptied readBuff_), and nothing is
\* written then.
process(c) ==
    /\ stage[c] \in {"process", "empty"}
    /\ StageTo(c, IF stage[c] = "process" THEN "write" ELSE "return")
    /\ UNCHANGED <<kernel, m_sock, users_, userCount, failed, tcp, other>>

\* Mutant: the response sent, the HttpConn is closed as well.
writeAndClose(c) ==
    /\ stage[c] = "write"
    /\ Close(m_sock[c])
    /\ StageTo(c, "return")
    /\ UNCHANGED <<m_sock, failed, tcp, other>>

write(c) ==
    /\ stage[c] = "write"
    /\ StageTo(c, "return")
    /\ UNCHANGED <<kernel, m_sock, users_, userCount, failed, tcp, other>>

\* Mutant: the Socket goes without closing.
SocketLeaked(c) ==
    /\ stage[c] = "return"
    /\ m_sock' = [m_sock EXCEPT ![c] = 0]
    /\ StageTo(c, "done")
    /\ UNCHANGED <<kernel, users_, userCount, failed, tcp, other>>

\* The task ends and with it the last Socket::ptr: ~Socket closes its number,
\* whatever is open under it by now.
SocketDestroyed(c) ==
    /\ stage[c] = "return"
    /\ kernel' = ClosedAll({m_sock[c]})
    /\ m_sock' = [m_sock EXCEPT ![c] = 0]
    /\ StageTo(c, "done")
    /\ UNCHANGED <<users_, userCount, failed, tcp, other>>

handleClient(c) == read(c) \/ process(c) \/ write(c) \/ SocketDestroyed(c)

-----------------------------------------------------------------------------
\* A log file or a database connection is opened.
OtherOpens ==
    /\ other = 0
    /\ \E f \in Lowest :
        /\ kernel' = [kernel EXCEPT ![f] = Other]
        /\ other' = f
    /\ UNCHANGED <<conns, tcp>>

\* Nothing is left to do.
Ended == server = "destroyed" /\ UNCHANGED serverVars

Tcp == bound \/ start \/ CloseListeners \/ ServerDestroyed

ServerNext ==
    \/ Tcp \/ bindFailed \/ stop \/ OtherOpens \/ Ended
    \/ \E a \in Addrs : bind(a) \/ startAccept(a) \/ acceptFailed(a) \/ \E c \in Clients : accept(a, c)
    \/ \E c \in Clients : handleClient(c)

ServerSpec == ServerInit /\ [][ServerNext]_serverVars

\* The scheduler runs every task (EveryTaskEnds of Scheduler) and readv returns within
\* SO_RCVTIMEO.  Nobody has to connect, and an accept may wait for ever.
ServerFairness ==
    /\ WF_serverVars(Tcp)
    /\ \A a \in Addrs : WF_serverVars(startAccept(a))
    /\ \A c \in Clients : WF_serverVars(handleClient(c))

-----------------------------------------------------------------------------
\* "Every http object has its own fd" (httpconn.h), and so has the rest of the
\* process: while a connection is served its number is open and stands for it, in the
\* kernel and, once initialised, in users_.
OwnFd ==
    \A c \in Clients :
        /\ stage[c] \in Serving => kernel[m_sock[c]] = c
        /\ stage[c] \in Serving \ {"init"} => users_[m_sock[c]].conn = c

\* The two owners of a number do not get in each other's way as long as no read has
\* failed: every connection, every listening socket and the rest of the process keep
\* what they have opened until they close it, whatever the order of accepts, handlers
\* and stop.
NumbersKept ==
    failed = {} =>
        /\ OwnFd
        /\ \A a \in Addrs : m_socks[a] # 0 => kernel[m_socks[a]] = Listening
        /\ other # 0 /\ server # "destroyed" => kernel[other] = Other

\* "Closed after one request": once every handler has ended no HttpConn counts as
\* a user any more.
NoUsersLeft == (\A c \in Clients : stage[c] \in {"new", "done"}) => userCount = 0

\* Every descriptor that was accepted is given back to the kernel, also when its read
\* fails and when the server is stopped meanwhile: as the clients are finitely many, in
\* the end no number stands for one of them.
FdReleased == <>[](\A f \in Fds : kernel[f] \notin Clients)

\* After stop every startAccept comes to rest: it has ended, or still waits in an accept
\* for a client that has not come.
StopDrains ==
    (server = "closing") ~> [](\A a \in Addrs : acceptor[a] \in {"blocked", "ended"})
=============================================================================
