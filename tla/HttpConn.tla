------------------------------ MODULE HttpConn ------------------------------
(***************************************************************************)
(* HttpConn with its HttpRequest, its HttpResponse and HttpRequest's use of*)
(* the database: what HttpServer::handleClient does with one connection.   *)
(* A handler h owns the HttpConn of one descriptor, which the next         *)
(* connection with that number uses again as it was left.  Handlers run on *)
(* their own threads and meet in the user table and in the files.          *)
(*                                                                         *)
(* readBuff_ is the queue that a Buffer is (ByteQueue); writeBuff_ is the  *)
(* Buffer itself, as iov_[0] points into it.                               *)
(***************************************************************************)
EXTENDS Buffer, HttpRequest

CONSTANTS
    Handlers,
    Messages,      \* requests that clients send (Message of HttpRequest)
    Paths,         \* paths under srcDir
    Sizes,         \* sizes of files
    DirSize,       \* what stat says of a directory
    Rows,          \* the rows of the user table at the start
    UniqueNames,   \* whether the table refuses a second row for a name
    IntLimit,      \* INT_MAX + 1
    Garbage,       \* what an iov_len that was never set may hold
    MaxRequests,   \* bound: connections in all
    MaxChanges     \* bound: changes of the files

ASSUME ConnAssumption ==
    /\ Sizes \subseteq Nat /\ DirSize \in Nat /\ UniqueNames \in BOOLEAN
    /\ IntLimit \in Nat \ {0} /\ Garbage \subseteq Nat
    /\ MaxRequests \in Nat /\ MaxChanges \in Nat
    /\ \A row \in Rows : row = [name |-> row.name, pwd |-> row.pwd]

VARIABLES
    pc,            \* of a handler
    readBuff_, writeBuff_, response_,
    request_,      \* what is used of it after parse: path_, IsKeepAlive, what to verify
    iov_, iovCnt_,
    isClose_,
    files,         \* what stat says of a path
    table,         \* the user table: names and passwords
    mapped,        \* bytes that are mapped for a handler, in the kernel
    sent, whole,   \* history: bytes the socket has taken; the response they are to make up
    message,       \* history: what the client sent, when all of it is in readBuff_
    failed,        \* history: the INSERT of this request failed
    returned,      \* how the last write ended: "none", "error", "ok"
    served, changes

ioVars == <<iov_, iovCnt_, sent, whole, returned>>
connVars == <<pc, readBuff_, writeBuff_, request_, response_, isClose_, files, table, mapped,
              message, failed, served, changes, ioVars>>

NoStat == [is |-> "none", size |-> 0]
NoFile == [len |-> 0, size |-> 0]           \* mmFile_ = nullptr
Root == <<>>
CODE_PATH == (400 :> Page("/400")) @@ (403 :> Page("/403")) @@ (404 :> Page("/404"))
NoRequest == [path_ |-> Root, keep |-> FALSE, verify |-> <<>>]
NewResponse == [code_ |-> -1, isKeepAlive_ |-> FALSE, path_ |-> Root, mmFile_ |-> NoFile,
                mmFileStat_ |-> NoStat]

Absent == [is |-> "absent", size |-> 0]
Directory == [is |-> "dir", size |-> DirSize]
Stats == [is : {"file", "secret"}, size : Sizes] \cup {Absent, Directory}

ConnInit ==
    /\ pc = [h \in Handlers |-> "idle"]
    /\ readBuff_ = [h \in Handlers |-> <<>>]
    /\ writeBuff_ = [h \in Handlers |-> NewBuffer]
    /\ request_ = [h \in Handlers |-> NoRequest]
    /\ response_ = [h \in Handlers |-> NewResponse]
    /\ \E g \in Garbage :
         iov_ = [h \in Handlers |-> <<[base |-> 0, len |-> 0], [base |-> 0, len |-> g]>>]
    /\ iovCnt_ = [h \in Handlers |-> 1]
    /\ isClose_ = [h \in Handlers |-> TRUE]
    /\ files \in {f \in [Paths -> Stats] : \A p \in Paths : f[p].is = "file"}
    /\ table = Rows
    /\ mapped = [h \in Handlers |-> 0]
    /\ sent = [h \in Handlers |-> <<>>] /\ whole = [h \in Handlers |-> <<>>]
    /\ message = [h \in Handlers |-> <<>>]
    /\ failed = [h \in Handlers |-> FALSE] /\ returned = [h \in Handlers |-> "none"]
    /\ served = 0 /\ changes = 0

\* A component v of handler h becomes x.
Is(v, h, x) == [v EXCEPT ![h] = x]

Goto(h, p) == pc' = Is(pc, h, p)

\* The environment: a file is replaced, removed, or turned into something else.
FileChange ==
    /\ changes < MaxChanges /\ changes' = changes + 1
    /\ \E p \in Paths, s \in Stats : s # files[p] /\ files' = [files EXCEPT ![p] = s]
    /\ UNCHANGED <<pc, readBuff_, writeBuff_, request_, response_, isClose_, table, mapped,
                   message, failed, served, ioVars>>

\* stat of a path that is not there leaves the buffer as it was.
StatOf(p) == IF p = Root THEN Directory ELSE IF p \in Paths THEN files[p] ELSE Absent
Filled(old, p) == IF StatOf(p) = Absent THEN old ELSE StatOf(p)

-----------------------------------------------------------------------------
(* The response.                                                           *)

\* munmap: of a part of the file only what is given.
Unmapped(n, r) == IF r.mmFile_ = NoFile THEN n ELSE n - r.mmFileStat_.size

\* Mutant: the size is reset before the mapping is given back.
ResponseInitSizeFirst(h, r, path, keep, code) ==
    /\ mapped' = Is(mapped, h, mapped[h])
    /\ response_' = Is(response_, h, [code_ |-> code, isKeepAlive_ |-> keep, path_ |-> path,
                                      mmFile_ |-> NoFile, mmFileStat_ |-> NoStat])

\* HttpResponse::Init.
ResponseInit(h, r, path, keep, code) ==
    /\ mapped' = Is(mapped, h, Unmapped(mapped[h], r))
    /\ response_' = Is(response_, h, [code_ |-> code, isKeepAlive_ |-> keep, path_ |-> path,
                                      mmFile_ |-> NoFile, mmFileStat_ |-> NoStat])

GetFileType_(path) == IF path # <<>> /\ path[Len(path)] = ".html" THEN "text/html" ELSE "text/plain"

AddStateLine_(c, r) == Appended(c, <<ToString(r.code_)>>)

AddHeader_(c, r) ==
    Appended(Appended(c, IF r.isKeepAlive_ THEN <<"keep-alive", "max=6">> ELSE <<"close">>),
             <<GetFileType_(r.path_)>>)

\* The line that announces n bytes, and the empty line.
Length(n) == "length" \o ToString(n)
ContentLength(c, n) == Appended(c, <<Length(n)>>)
ErrorPage == <<"error", "page">>
ErrorContent(c) == Appended(ContentLength(c, Len(ErrorPage)), ErrorPage)

\* Mutant: the file is handed over whether it could be mapped or not.
UseFileLenOnly(r) == r.mmFileStat_.size > 0

\* Whether there is a second area to send.
UseFile(r) == r.mmFileStat_.size > 0 /\ r.mmFile_ # NoFile

\* What a mapped file reads as: behind its end there is nothing.
FileByte(r, k) == IF k < r.mmFile_.size THEN "byte" \o ToString(k) ELSE "hole"
FileBytes(r, from, n) == [k \in 1..n |-> FileByte(r, from + k - 1)]

\* The rest of process: the two areas.
Ready(h, c, r) ==
    /\ writeBuff_' = Is(writeBuff_, h, c)
    /\ response_' = Is(response_, h, r)
    /\ iov_' = Is(iov_, h, <<[base |-> c.readPos_, len |-> ReadableBytes(c)],
                             IF UseFile(r) THEN [base |-> 0, len |-> r.mmFileStat_.size]
                             ELSE iov_[h][2]>>)
    /\ iovCnt_' = Is(iovCnt_, h, IF UseFile(r) THEN 2 ELSE 1)
    /\ whole' = Is(whole, h, Contents(c) \o IF UseFile(r) THEN FileBytes(r, 0, r.mmFileStat_.size)
                                            ELSE <<>>)
    /\ UNCHANGED <<sent, returned>>
    /\ Goto(h, "write")

\* The state line and the headers, which say nothing of the file yet.
Headed(c, r) == AddHeader_(AddStateLine_(c, r), r)

\* MakeResponse: the code, from the first stat.  Nothing reads request_ any more.
MakeResponse(h) ==
    LET st == Filled(response_[h].mmFileStat_, response_[h].path_)
        code == IF StatOf(response_[h].path_) = Absent \/ st.is = "dir" THEN 404
                ELSE IF st.is = "secret" THEN 403
                ELSE IF response_[h].code_ = -1 THEN 200 ELSE response_[h].code_
        r == [response_[h] EXCEPT !.code_ = code, !.mmFileStat_ = st]
    IN  /\ pc[h] = "stat"
        /\ response_' = Is(response_, h, r)
        /\ IF code \in DOMAIN CODE_PATH
           THEN Goto(h, "error") /\ UNCHANGED writeBuff_
           ELSE /\ Goto(h, "content")
                /\ writeBuff_' = Is(writeBuff_, h, Headed(writeBuff_[h], r))
        /\ request_' = Is(request_, h, NoRequest) /\ failed' = Is(failed, h, FALSE)
        /\ UNCHANGED <<readBuff_, isClose_, files, table, mapped, message, served, changes, ioVars>>

\* ErrorHtml_: a second stat, of the page for the code.
ErrorHtml_(h) ==
    LET path == CODE_PATH[response_[h].code_]
        r == [response_[h] EXCEPT !.path_ = path, !.mmFileStat_ = Filled(@, path)]
    IN  /\ pc[h] = "error"
        /\ response_' = Is(response_, h, r)
        /\ writeBuff_' = Is(writeBuff_, h, Headed(writeBuff_[h], r))
        /\ Goto(h, "content")
        /\ UNCHANGED <<readBuff_, request_, isClose_, files, table, mapped, message, failed,
                       served, changes, ioVars>>

\* AddContent_, and what follows it in process.  open fails, or mmap does (always for a
\* directory), or the file is mapped with the size that stat told earlier.
AddContent_(h) ==
    LET r == response_[h]
        c == writeBuff_[h]
        now == StatOf(r.path_)
        size == r.mmFileStat_.size
    IN  /\ pc[h] = "content"
        /\ \/ /\ now.is \in {"absent", "secret"}
              /\ Ready(h, ErrorContent(c), r) /\ UNCHANGED mapped
           \/ /\ now # Absent /\ size = 0
              /\ Ready(h, ContentLength(c, 0), [r EXCEPT !.mmFile_ = NoFile]) /\ UNCHANGED mapped
           \/ /\ now # Absent /\ size > 0           \* mmap fails
              /\ Ready(h, ErrorContent(c), r) /\ UNCHANGED mapped
           \/ /\ now.is \in {"file", "secret"} /\ size > 0
              /\ Ready(h, ContentLength(c, size),
                       [r EXCEPT !.mmFile_ = [len |-> size, size |-> now.size]])
              /\ mapped' = Is(mapped, h, mapped[h] + size)
        /\ UNCHANGED <<readBuff_, request_, isClose_, files, table, message, failed, served,
                       changes>>

-----------------------------------------------------------------------------
(* The connection.                                                         *)

\* HttpConn::init, for the next connection with this number.
init(h) ==
    /\ pc[h] = "idle" /\ served < MaxRequests /\ served' = served + 1
    /\ writeBuff_' = Is(writeBuff_, h, Cleared(writeBuff_[h]))
    /\ readBuff_' = Is(readBuff_, h, <<>>)
    /\ isClose_' = Is(isClose_, h, FALSE)
    /\ returned' = Is(returned, h, "none") /\ sent' = Is(sent, h, <<>>) /\ whole' = Is(whole, h, <<>>)
    /\ Goto(h, "read")
    /\ UNCHANGED <<request_, response_, files, table, mapped, message, failed, changes, iov_, iovCnt_>>

Text == [m \in Messages |-> Message(m)]

\* One read takes what has arrived: all of a request or the beginning of it.  The end of
\* the stream and an error other than EAGAIN close the connection.
read(h) ==
    /\ pc[h] = "read"
    /\ \/ /\ \E m \in Messages : \E n \in 1..Len(Text[m]) :
               /\ readBuff_' = Is(readBuff_, h, SubSeq(Text[m], 1, n))
               /\ message' = Is(message, h, IF n = Len(Text[m]) THEN <<m>> ELSE <<>>)
          /\ Goto(h, "process") /\ UNCHANGED <<response_, mapped, isClose_>>
       \/ /\ Goto(h, "process")                           \* EAGAIN
          /\ UNCHANGED <<response_, mapped, isClose_, readBuff_, message>>
       \/ /\ Goto(h, "idle")                              \* Close
          /\ mapped' = Is(mapped, h, Unmapped(mapped[h], response_[h]))
          /\ response_' = [response_ EXCEPT ![h].mmFile_ = NoFile]
          /\ isClose_' = Is(isClose_, h, TRUE)
          /\ UNCHANGED <<readBuff_, message>>
    /\ UNCHANGED <<writeBuff_, request_, files, table, failed, served, changes, ioVars>>

\* After parse, with result p: the response, or first UserVerify.
Parsed(h, p, keep) ==
    /\ request_' = Is(request_, h, [path_ |-> p.request.path_, keep |-> keep,
                                    verify |-> p.request.verify])
    /\ readBuff_' = Is(readBuff_, h, p.rest)
    /\ IF p.request.verify # <<>>
       THEN Goto(h, "verify") /\ UNCHANGED <<response_, mapped>>
       ELSE /\ Goto(h, "stat")
            /\ ResponseInit(h, response_[h], p.request.path_, keep, IF p.ok THEN 200 ELSE 400)

process(h) ==
    /\ pc[h] = "process"
    /\ IF readBuff_[h] = <<>>
       THEN request_' = Is(request_, h, NoRequest) /\ Goto(h, "idle")
            /\ UNCHANGED <<readBuff_, response_, mapped>>
       ELSE \E p \in {parse(readBuff_[h])} : Parsed(h, p, p.ok /\ IsKeepAlive(p.request))
    /\ message' = Is(message, h, <<>>)
    /\ UNCHANGED <<writeBuff_, isClose_, files, table, failed, served, changes, ioVars>>

\* UserVerify returns flag: the page to show, and the response to it.
Verified(h, flag) ==
    LET r == [request_[h] EXCEPT !.path_ = Page(IF flag THEN "/welcome" ELSE "/error")]
    IN  /\ request_' = Is(request_, h, r)
        /\ ResponseInit(h, response_[h], r.path_, r.keep, 200)
        /\ Goto(h, "stat")

\* A connection to the database, or none in time.
GetConnection(h) ==
    LET v == request_[h].verify
    IN  /\ pc[h] = "verify"
        /\ \/ v.name # <<>> /\ v.pwd # <<>> /\ Goto(h, "select")
             /\ UNCHANGED <<request_, response_, mapped>>
           \/ Verified(h, FALSE)
        /\ UNCHANGED <<readBuff_, writeBuff_, isClose_, files, table, message, failed, served,
                       changes, ioVars>>

RowsOf(name) == {row \in table : row.name = name}

\* Mutant: the result of the comparison of the passwords is the wrong way round.
FlagSwapped(v, row) == IF row = <<>> THEN ~v.isLogin ELSE v.isLogin /\ row.pwd # v.pwd

\* What the row of the name, if there is one, says to a login or to a registration.
Flag(v, row) == IF row = <<>> THEN ~v.isLogin ELSE v.isLogin /\ row.pwd = v.pwd

\* SELECT ... LIMIT 1.
Select(h) ==
    LET v == request_[h].verify
    IN  /\ pc[h] = "select"
        /\ \/ Verified(h, FALSE)                           \* the query fails
           \/ \E row \in IF RowsOf(v.name) = {} THEN {<<>>} ELSE RowsOf(v.name) :
                IF ~v.isLogin /\ Flag(v, row)
                THEN Goto(h, "insert") /\ UNCHANGED <<request_, response_, mapped>>
                ELSE Verified(h, Flag(v, row))
        /\ UNCHANGED <<readBuff_, writeBuff_, isClose_, files, table, message, failed, served,
                       changes, ioVars>>

\* INSERT; flag is true afterwards whether it succeeded or not.
Insert(h) ==
    LET v == request_[h].verify
    IN  /\ pc[h] = "insert"
        /\ \/ /\ ~UniqueNames \/ RowsOf(v.name) = {}
              /\ table' = table \cup {[name |-> v.name, pwd |-> v.pwd]} /\ UNCHANGED failed
           \/ failed' = Is(failed, h, TRUE) /\ UNCHANGED table
        /\ Verified(h, TRUE)
        /\ UNCHANGED <<readBuff_, writeBuff_, isClose_, files, message, served, changes, ioVars>>

-----------------------------------------------------------------------------
(* write.                                                                  *)

\* The first n bytes of the areas v, in buffer c and in the file of response r.
Gathered(c, r, v, n) ==
    LET k == IF n < v[1].len THEN n ELSE v[1].len
    IN  [i \in 1..k |-> c.buffer_[v[1].base + i - 1]] \o FileBytes(r, v[2].base, n - k)

\* int remainLen = iov_[0].iov_len + iov_[1].iov_len.
ToInt(n) == LET m == n % (2 * IntLimit) IN IF m < IntLimit THEN m ELSE m - 2 * IntLimit

\* Mutant: the second area moves by all that was written.
AdvancedByAll(v, len) ==
    IF len > v[1].len
    THEN <<[base |-> v[1].base, len |-> 0], [base |-> v[2].base + len, len |-> v[2].len - len]>>
    ELSE <<[base |-> v[1].base + len, len |-> v[1].len - len], v[2]>>

\* The areas after len bytes were written.
Advanced(v, len) ==
    IF len > v[1].len
    THEN <<[base |-> v[1].base, len |-> 0],
           [base |-> v[2].base + len - v[1].len, len |-> v[2].len - (len - v[1].len)]>>
    ELSE <<[base |-> v[1].base + len, len |-> v[1].len - len], v[2]>>

\* One turn of the loop: writev takes some of the bytes, or fails; with nothing to take it
\* returns 0.
write(h) ==
    LET v == iov_[h]
        all == v[1].len + IF iovCnt_[h] = 2 THEN v[2].len ELSE 0
        stop(how) == Goto(h, "idle") /\ returned' = Is(returned, h, how)
    IN  /\ pc[h] = "write"
        /\ \/ /\ all > 0 /\ stop("error") /\ UNCHANGED <<iov_, sent, writeBuff_>>
           \/ /\ all = 0 /\ stop("ok") /\ UNCHANGED <<iov_, sent, writeBuff_>>
           \/ \E len \in 1..all :
                /\ sent' = Is(sent, h, sent[h] \o Gathered(writeBuff_[h], response_[h], v, len))
                /\ iov_' = Is(iov_, h, Advanced(v, len))
                /\ writeBuff_' = Is(writeBuff_, h,
                      IF len <= v[1].len THEN Retrieved(writeBuff_[h], len)
                      ELSE IF v[1].len > 0 THEN Cleared(writeBuff_[h]) ELSE writeBuff_[h])
                /\ IF ToInt(iov_'[h][1].len + iov_'[h][2].len) > 0
                   THEN UNCHANGED <<pc, returned>> ELSE stop("ok")
        /\ UNCHANGED <<readBuff_, request_, response_, isClose_, files, table, mapped, message,
                       failed, served, changes, iovCnt_, whole>>

Handle(h) ==
    \/ init(h) \/ read(h) \/ process(h) \/ GetConnection(h) \/ Select(h) \/ Insert(h)
    \/ MakeResponse(h) \/ ErrorHtml_(h) \/ AddContent_(h) \/ write(h)

\* Every connection has been served.
AllServed ==
    /\ served = MaxRequests /\ \A h \in Handlers : pc[h] = "idle"
    /\ UNCHANGED connVars

ConnNext == (\E h \in Handlers : Handle(h)) \/ FileChange \/ AllServed

ConnSpec == ConnInit /\ [][ConnNext]_connVars

-----------------------------------------------------------------------------
\* A request that was read as a whole is understood as the client means it.
RequestParsed ==
    \A h \in Handlers :
        pc[h] = "process" /\ message[h] # <<>> =>
          \A p \in {parse(readBuff_[h])} : p.ok /\ Means(p.request, Head(message[h]))

\* The welcome page is the answer to a login only with the password of the account, and to
\* a registration only when there is such an account afterwards, unless the INSERT failed.
AccountBacked ==
    \A h \in Handlers :
        LET v == request_[h].verify
        IN  pc[h] = "stat" /\ v # <<>> /\ request_[h].path_ = Page("/welcome") =>
              [name |-> v.name, pwd |-> v.pwd] \in table \/ failed[h]

\* What Content-length announces is what follows the header, whatever became of the file
\* since it was looked at.
LengthTrue ==
    \A h \in Handlers :
        whole[h] # <<>> => \E i \in DOMAIN whole[h] : whole[h][i] = Length(Len(whole[h]) - i)

\* However writev splits the response, and whatever an earlier connection left in iov_, the
\* socket takes the bytes of the response in order, none twice; and when write ends without
\* an error it has taken all of them, as long as ToWriteBytes fits an int.
ResponseSent ==
    \A h \in Handlers :
        /\ pc[h] = "write" \/ returned[h] # "none" =>
             Len(sent[h]) <= Len(whole[h]) /\ sent[h] = SubSeq(whole[h], 1, Len(sent[h]))
        /\ returned[h] = "ok" /\ iov_[h][1].len + iov_[h][2].len < IntLimit => sent[h] = whole[h]

\* A connection has at most one file mapped, the one its response points to, with the
\* length it will be unmapped with, also while the next one uses the object.
MappingExact ==
    \A h \in Handlers :
        /\ mapped[h] = response_[h].mmFile_.len
        /\ response_[h].mmFile_ # NoFile => response_[h].mmFileStat_.size = response_[h].mmFile_.len
=============================================================================
