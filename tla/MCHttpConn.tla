----------------------------- MODULE MCHttpConn -----------------------------
(***************************************************************************)
(* Small instances of HttpConn, and of Buffer by itself.                   *)
(***************************************************************************)
EXTENDS HttpConn

CONSTANTS h1, h2

\* Two different bytes and strings that tell order and loss apart.
MCByte == {"0", "1", "2"}
MCStrings == {<<>>, <<"1">>, <<"1", "2">>, <<"2", "1", "1">>}

Get == [method |-> <<"GET">>, path |-> <<"/">>, version |-> <<"1.1">>,
        connection |-> <<"keep-alive">>, form |-> <<>>]
Post(path, name, pwd) ==
    [method |-> <<"POST">>, path |-> path, version |-> <<"1.1">>, connection |-> <<>>,
     form |-> <<<<"username", name>>, <<"password", pwd>>>>]

\* A page, a login with the right and one with a wrong password, and two registrations of
\* the same name with different passwords.
MCMessages ==
    {Get, Post(<<"/login">>, <<"ann">>, <<"one", "+", "two">>),
     Post(<<"/register">>, <<"bob">>, <<"one">>), Post(Page("/register"), <<"bob">>, <<"two">>),
     Post(<<"/login">>, <<"ann">>, <<"%", "A", "1">>)}
MCRows == {[name |-> <<"ann">>, pwd |-> <<"one", "SP", "two">>]}
MCPaths == {Page("/index"), Page("/404")}

VARIABLE scene       \* what is looked at closely

\* "parts": one connection after the other in one handler, requests that come in parts,
\* files that change, responses that are sent in parts, the database out of reach.  "table": two handlers at once,
\* each reads a whole request and sends the whole response or nothing.  "buffer": any use
\* of a Buffer, and no connection.
Whole ==
    /\ files' = files
    /\ \A h \in Handlers : /\ pc'[h] = "process" /\ pc[h] = "read" => message'[h] # <<>>
                           /\ sent'[h] \in {<<>>, whole'[h]}

Parts == pc'[h2] = "idle" /\ pc'[h1] # "select"

MCInit ==
    /\ Init /\ ConnInit /\ scene \in {"parts", "table", "buffer"}
    /\ scene # "parts" => iov_[h1][2].len = 0 /\ \A p \in Paths : files[p].size > 0

MCNext ==
    /\ UNCHANGED scene
    /\ \/ scene = "buffer" /\ Next /\ UNCHANGED connVars
       \/ scene = "parts" /\ ConnNext /\ Parts /\ UNCHANGED vars
       \/ scene = "table" /\ ConnNext /\ Whole /\ UNCHANGED vars

MCSpec == MCInit /\ [][MCNext]_<<vars, connVars, scene>>
=============================================================================
