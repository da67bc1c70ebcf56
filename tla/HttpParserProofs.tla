-------------------------- MODULE HttpParserProofs --------------------------
(***************************************************************************)
(* What http_parser_execute keeps from pass to pass, for every way to cut  *)
(* the stream into calls and every answer of the callbacks.  The inductive *)
(* invariant says, for each state of the switch, what the callbacks have   *)
(* told when the parser is in it, which flags and which length it may      *)
(* find, and which mark is set.                                            *)
(***************************************************************************)
EXTENDS HttpParser, TLAPS

\* The states of the first line: before, in and after the URL or the status.
BegunState ==
    {"s_res_or_resp_H", "s_res_H", "s_res_HT", "s_res_HTT", "s_res_HTTP", "s_res_http_major",
     "s_res_http_dot", "s_res_http_minor", "s_res_http_end", "s_res_first_status_code",
     "s_res_status_code", "s_res_status_start", "s_req_method", "s_req_spaces_before_url"}
FirstElement == SchemaState \cup UrlState \cup {"s_res_status"}
LineState ==
    {"s_res_line_almost_done", "s_req_http_start", "s_req_http_H", "s_req_http_HT",
     "s_req_http_HTT", "s_req_http_I", "s_req_http_IC", "s_req_http_HTTP", "s_req_http_major",
     "s_req_http_dot", "s_req_http_minor", "s_req_http_end", "s_req_line_almost_done"}

\* The states of a header line: between two lines, before a value, after one.
BetweenLines == {"s_header_field_start", "s_headers_almost_done"}
BeforeValue == {"s_header_value_discard_ws", "s_header_value_discard_ws_almost_done",
                "s_header_value_discard_lws"}
AfterValue == {"s_header_almost_done", "s_header_value_lws", "s_header_value_start"}
HeaderState == BegunState \cup FirstElement \cup LineState \cup BetweenLines \cup BeforeValue
                 \cup AfterValue \cup {"s_header_field", "s_header_value", "s_headers_done"}

\* The states of a chunk: its size, its bytes.
SizeRead == {"s_chunk_size", "s_chunk_parameters", "s_chunk_size_almost_done"}
SizeState == SizeRead \cup {"s_chunk_size_start"}
DataState == {"s_chunk_data", "s_chunk_data_almost_done"}
ChunkState == SizeState \cup DataState \cup {"s_chunk_data_done"}

\* The words that may be under way inside a value.
ValueWords ==
    {"h_general", "h_content_length_num", "h_content_length_ws",
     "h_matching_transfer_encoding_chunked", "h_transfer_encoding_chunked",
     "h_matching_connection_token_start", "h_matching_connection_token",
     "h_matching_connection_keep_alive", "h_matching_connection_close",
     "h_matching_connection_upgrade", "h_connection_keep_alive", "h_connection_close",
     "h_connection_upgrade"}

\* What has been told at the end of the first line or of the last chunk, of a field and of
\* a value; the lines after the last chunk are told apart by F_TRAILING.
LineTold(fl) == IF "F_TRAILING" \in fl THEN "trailer" ELSE "line"
FieldTold(fl) == IF "F_TRAILING" \in fl THEN "tfield" ELSE "field"
ValueTold(fl) == IF "F_TRAILING" \in fl THEN "tvalue" ELSE "value"

\* What the callbacks have told when the parser is in state s with the flags fl.
StoryAt(s, fl, o) ==
    /\ s \in StartState \cup {"s_dead"} => o = "idle"
    /\ s \in BegunState => o = "begun"
    /\ s \in FirstElement => o \in {"begun", "line"}
    /\ s \in LineState => o = "line"
    /\ s \in BetweenLines => o \in {LineTold(fl), ValueTold(fl)}
    /\ s = "s_header_field" => o \in {LineTold(fl), ValueTold(fl), FieldTold(fl)}
    /\ s \in BeforeValue => o = FieldTold(fl)
    /\ s = "s_header_value" => o \in {FieldTold(fl), ValueTold(fl)}
    /\ s \in AfterValue => o = ValueTold(fl)
    /\ s = "s_headers_done" => o = "headers"
    /\ s \in {"s_body_identity", "s_body_identity_eof"} => o \in {"headers", "body"}
    /\ s = "s_message_done" => o = IF "F_TRAILING" \in fl THEN "all" ELSE "body"
    /\ s \in SizeState => o \in {"headers", "chunk_end"}
    /\ s \in DataState => o \in {"chunk", "data"}
    /\ s = "s_chunk_data_done" => o = "data"

\* The flags a state may find.
FlagsAt(s, fl) ==
    /\ s \in BegunState \cup FirstElement \cup LineState \cup ChunkState
             \cup {"s_headers_done", "s_body_identity", "s_body_identity_eof"} =>
         "F_TRAILING" \notin fl
    /\ s \in ChunkState => "F_CHUNKED" \in fl /\ "F_CONTENTLENGTH" \notin fl
    /\ s = "s_headers_done" => ~({"F_CHUNKED", "F_CONTENTLENGTH"} \subseteq fl)

\* The length a state may find, and the bytes that are announced and handed over.
LengthAt(s, fl, len, b) ==
    /\ s \in HeaderState /\ "F_CONTENTLENGTH" \in fl =>
         b.announced = len /\ b.got = 0 /\ b.pend = 0
    /\ s \in HeaderState /\ "F_CONTENTLENGTH" \notin fl /\ "F_TRAILING" \notin fl =>
         len = ULLONG_MAX
    /\ s \in SizeRead => b.announced = len /\ b.got = 0 /\ b.pend = 0 /\ len < ULLONG_MAX
    /\ s \in {"s_body_identity", "s_chunk_data"} =>
         b.announced = b.got + b.pend + len /\ len \in 1..(ULLONG_MAX - 1)
    /\ s = "s_chunk_data_almost_done" => b.announced = b.got + b.pend /\ len = 0
    /\ s = "s_chunk_data_done" => b.got = b.announced
    /\ s = "s_message_done" /\ "F_TRAILING" \notin fl => b.got = b.announced

\* The word under way inside a value; its digits are those of the length.
WordAt(s, h, fl) ==
    s = "s_header_value" => h \in ValueWords /\ (h = "h_content_length_num" => "F_CONTENTLENGTH" \in fl)

\* The marks inside a call; bytes wait only at the mark, and a chunk of which nothing
\* has been handed over has its bytes there.
MarksAt(s, m) ==
    /\ m \ {"body"} = OpenElement(s)
    /\ "body" \in m => s \in DataState \cup {"s_body_identity", "s_body_identity_eof"}
PendAt(s, m, b, o) ==
    /\ s \in DataState /\ "body" \notin m => b.pend = 0
    /\ s = "s_chunk_data_almost_done" /\ "body" \notin m => o = "data"

States == StartState \cup HeaderState \cup ChunkState
            \cup {"s_dead", "s_body_identity", "s_body_identity_eof", "s_message_done"}
Words == ValueWords \cup {"h_C", "h_matching_transfer_encoding", "h_matching_upgrade",
                          "h_connection", "h_content_length", "h_transfer_encoding", "h_upgrade"}
Flags == {"F_CHUNKED", "F_CONNECTION_KEEP_ALIVE", "F_CONNECTION_CLOSE", "F_CONNECTION_UPGRADE",
          "F_TRAILING", "F_UPGRADE", "F_SKIPBODY", "F_CONTENTLENGTH"}
Errors == {"CB", "STRICT", "HEADER_OVERFLOW", "INVALID_EOF_STATE", "CLOSED_CONNECTION",
           "INVALID_CONSTANT", "INVALID_METHOD", "INVALID_VERSION", "INVALID_STATUS",
           "INVALID_URL", "LF_EXPECTED", "INVALID_HEADER_TOKEN", "INVALID_CONTENT_LENGTH",
           "UNEXPECTED_CONTENT_LENGTH", "INVALID_CHUNK_SIZE"}
ParserRec ==
    [type : {"REQUEST", "RESPONSE", "BOTH"}, flags : SUBSET Flags, header_state : Words,
     index : 0..2, nread : 0..Many, state : States, content_length : 0..ULLONG_MAX,
     http_major : 0..9, http_minor : 0..9, status_code : StatusCodes \cup {0},
     method : InMethods \cup {"DELETE", "HEAD"}, errno : Errors \cup {"OK", "PAUSED"},
     upgrade : BOOLEAN]
BodyRec == [announced : Nat, got : Nat, pend : Nat]

\* One pass leaves the struct p and the body b right when the callbacks have told o.
Sound(p, b, o) ==
    /\ p \in ParserRec /\ b \in BodyRec /\ o # "wrong"
    /\ FlagsAt(p.state, p.flags)
    /\ LengthAt(p.state, p.flags, p.content_length, b)
    /\ WordAt(p.state, p.header_state, p.flags)

\* A chunk size is the first thing counted after the reset.
Counted ==
    parser.state = "s_chunk_size_start" =>
      IF incall THEN nread = (IF ch \in {None, End} THEN 0 ELSE 1)
      ELSE parser.errno \in {"OK", "PAUSED"} => parser.nread = 0 /\ again = None

ParserInv ==
    /\ Sound(parser, body, mon)
    /\ eof \/ StoryAt(parser.state, parser.flags, mon)
    /\ nread \in 0..Many /\ incall \in BOOLEAN /\ eof \in BOOLEAN
    /\ eof => ~incall
    /\ incall => again = None
    /\ IF incall THEN MarksAt(parser.state, marks) ELSE marks = {}
    /\ incall \/ parser.errno \in {"OK", "PAUSED"} => PendAt(parser.state, marks, body, mon)
    /\ Counted

\* The same, of a frame, with the place in the story.
Fine(f, o) ==
    Sound(f.p, f.b, o) /\ StoryAt(f.p.state, f.p.flags, o) /\ f.n \in 0..Many

-----------------------------------------------------------------------------
(* The frames.                                                             *)

LEMMA ToFields ==
    \A s : /\ To(s).p = [parser EXCEPT !.state = s]
           /\ To(s).n = nread /\ To(s).m = marks /\ To(s).b = body
  BY Zenon DEF To, Here

LEMMA HereFields == Here.p = parser /\ Here.n = nread /\ Here.m = marks /\ Here.b = body
  BY Zenon DEF Here

\* Where each callback leads, when it comes where it may.
LEMMA ToldIs ==
    /\ mon = "idle" => Told("message_begin") = "begun"
    /\ mon \in {"begun", "line"} => Told("url") = "line" /\ Told("status") = "line"
    /\ mon \in {"line", "value", "field"} => Told("header_field") = "field"
    /\ mon \in {"trailer", "tvalue", "tfield"} => Told("header_field") = "tfield"
    /\ mon \in {"field", "value"} => Told("header_value") = "value"
    /\ mon \in {"tfield", "tvalue"} => Told("header_value") = "tvalue"
    /\ mon \in {"line", "value"} => Told("headers_complete") = "headers"
    /\ mon \in {"headers", "body"} => Told("body") = "body"
    /\ mon \in {"chunk", "data"} => Told("body") = "data"
    /\ mon \in {"headers", "chunk_end"} =>
         Told("chunk_header") = "chunk" /\ Told("last_chunk") = "trailer"
    /\ mon = "data" => Told("chunk_complete") = "chunk_end"
    /\ mon \in {"trailer", "tvalue"} => Told("chunk_complete") = "all"
    /\ mon \in {"headers", "body", "all"} => Told("message_complete") = "idle"
<1>1. /\ mon = "idle" => Told("message_begin") = "begun"
      /\ mon \in {"begun", "line"} => Told("url") = "line" /\ Told("status") = "line"
    BY SMTT(30) DEF Told, Story
<1>2. /\ mon \in {"line", "value", "field"} => Told("header_field") = "field"
      /\ mon \in {"trailer", "tvalue", "tfield"} => Told("header_field") = "tfield"
    BY SMTT(30) DEF Told, Story
<1>3. /\ mon \in {"field", "value"} => Told("header_value") = "value"
      /\ mon \in {"tfield", "tvalue"} => Told("header_value") = "tvalue"
      /\ mon \in {"line", "value"} => Told("headers_complete") = "headers"
    BY SMTT(30) DEF Told, Story
<1>4. /\ mon \in {"headers", "body"} => Told("body") = "body"
      /\ mon \in {"chunk", "data"} => Told("body") = "data"
    BY SMTT(30) DEF Told, Story
<1>5. mon \in {"headers", "chunk_end"} =>
        Told("chunk_header") = "chunk" /\ Told("last_chunk") = "trailer"
    BY SMTT(30) DEF Told, Story
<1>6. /\ mon = "data" => Told("chunk_complete") = "chunk_end"
      /\ mon \in {"trailer", "tvalue"} => Told("chunk_complete") = "all"
    BY SMTT(30) DEF Told, Story
<1>7. mon \in {"headers", "body", "all"} => Told("message_complete") = "idle"
    BY SMTT(30) DEF Told, Story
<1> QED BY Zenon, <1>1, <1>2, <1>3, <1>4, <1>5, <1>6, <1>7

\* The fields of the struct, one at a time.
LEMMA PutState == \A p \in ParserRec, s \in States : [p EXCEPT !.state = s] \in ParserRec
  BY DEF ParserRec

LEMMA PutErrno ==
    \A p \in ParserRec, e \in Errors \cup {"OK", "PAUSED"} : [p EXCEPT !.errno = e] \in ParserRec
  BY DEF ParserRec

LEMMA PutNread == \A p \in ParserRec, n \in 0..Many : [p EXCEPT !.nread = n] \in ParserRec
  BY DEF ParserRec

LEMMA PutType ==
    \A p \in ParserRec, v \in {"REQUEST", "RESPONSE"} : [p EXCEPT !.type = v] \in ParserRec
  BY DEF ParserRec

LEMMA PutMethod ==
    \A p \in ParserRec, v \in InMethods \cup {"HEAD"} : [p EXCEPT !.method = v] \in ParserRec
  BY DEF ParserRec

LEMMA PutIndex == \A p \in ParserRec, v \in 0..2 : [p EXCEPT !.index = v] \in ParserRec
  BY DEF ParserRec

LEMMA PutMajor == \A p \in ParserRec, v \in 0..9 : [p EXCEPT !.http_major = v] \in ParserRec
  BY DEF ParserRec

LEMMA PutMinor == \A p \in ParserRec, v \in 0..9 : [p EXCEPT !.http_minor = v] \in ParserRec
  BY DEF ParserRec

LEMMA PutStatus == \A p \in ParserRec, v \in StatusCodes : [p EXCEPT !.status_code = v] \in ParserRec
  BY DEF ParserRec

LEMMA PutFlags == \A p \in ParserRec, fl \in SUBSET Flags : [p EXCEPT !.flags = fl] \in ParserRec
  BY DEF ParserRec

LEMMA PutWord == \A p \in ParserRec, h \in Words : [p EXCEPT !.header_state = h] \in ParserRec
  BY DEF ParserRec

LEMMA PutLength ==
    \A p \in ParserRec, n \in 0..ULLONG_MAX : [p EXCEPT !.content_length = n] \in ParserRec
  BY DEF ParserRec

\* errno and nread of the struct play no part in Sound.
Returned(p, e, n) == [p EXCEPT !.errno = e, !.nread = n]
Paused(p) == [p EXCEPT !.errno = "PAUSED"]

LEMMA SoundReturn ==
    ASSUME NEW p, NEW b, NEW o, Sound(p, b, o), NEW e \in Errors \cup {"OK", "PAUSED"},
           NEW n \in 0..Many
    PROVE  /\ Sound(Returned(p, e, n), b, o)
           /\ Returned(p, e, n).state = p.state /\ Returned(p, e, n).flags = p.flags
           /\ Returned(p, e, n).errno = e /\ Returned(p, e, n).nread = n
<1> DEFINE q == Returned(p, e, n)
<1>0. p \in ParserRec
    BY Zenon DEF Sound
<1>1. q \in ParserRec
    BY Zenon, <1>0, PutErrno, PutNread DEF Returned
<1>2. /\ q.state = p.state /\ q.flags = p.flags /\ q.errno = e /\ q.nread = n
      /\ q.content_length = p.content_length /\ q.header_state = p.header_state
    BY ONLY Zenon, <1>0 DEF ParserRec, Returned
<1> HIDE DEF q
<1>3. Sound(q, b, o)
    BY Zenon, <1>1, <1>2 DEF Sound
<1> QED BY Zenon, <1>2, <1>3 DEF q

LEMMA SoundPaused ==
    ASSUME NEW p, NEW b, NEW o, Sound(p, b, o)
    PROVE  /\ Sound(Paused(p), b, o) /\ Paused(p).state = p.state /\ Paused(p).flags = p.flags
           /\ Paused(p).errno = "PAUSED" /\ Paused(p).nread = p.nread
<1> DEFINE q == Paused(p)
<1>0. p \in ParserRec
    BY Zenon DEF Sound
<1>1. q \in ParserRec
    BY Zenon, <1>0, PutErrno DEF Paused
<1>2. /\ q.state = p.state /\ q.flags = p.flags /\ q.errno = "PAUSED" /\ q.nread = p.nread
      /\ q.content_length = p.content_length /\ q.header_state = p.header_state
    BY ONLY Zenon, <1>0 DEF ParserRec, Paused
<1> HIDE DEF q
<1>3. Sound(q, b, o)
    BY Zenon, <1>1, <1>2 DEF Sound
<1> QED BY Zenon, <1>2, <1>3 DEF q

\* A pass that stays in the call.
LEMMA StepKeeps ==
    ASSUME ParserInv, incall, NEW f, Fine(f, mon'), MarksAt(f.p.state, f.m),
           PendAt(f.p.state, f.m, f.b, mon'), Set(f), UNCHANGED <<incall, again, eof>>,
           f.p.state # "s_chunk_size_start" \/ (f.n = 0 /\ ch' = None)
    PROVE  ParserInv'
<1>1. /\ parser' = f.p /\ nread' = f.n /\ marks' = f.m /\ body' = f.b
      /\ incall' = incall /\ eof' = eof /\ ~eof /\ again' = None
    BY Zenon DEF Set, ParserInv
<1>2. Sound(parser', body', mon') /\ StoryAt(parser'.state, parser'.flags, mon')
    BY Zenon, <1>1 DEF Fine
<1>3. MarksAt(parser'.state, marks') /\ PendAt(parser'.state, marks', body', mon')
    BY Zenon, <1>1
<1>4. nread' \in 0..Many /\ incall' \in BOOLEAN /\ eof' \in BOOLEAN
    BY Zenon, <1>1 DEF ParserInv, Fine
<1>5. Counted'
    BY <1>1 DEF Counted
<1> QED BY <1>1, <1>2, <1>3, <1>4, <1>5 DEF ParserInv

\* A pass that ends the call.
LEMMA LeaveKeeps ==
    ASSUME ParserInv, incall, NEW p, NEW b, NEW left, Leave(p, b, left),
           Sound(p, b, mon'), StoryAt(p.state, p.flags, mon'),
           p.errno \in {"OK", "PAUSED"} =>
             /\ PendAt(p.state, {}, b, mon')
             /\ p.state = "s_chunk_size_start" => p.nread = 0 /\ left = None
    PROVE  ParserInv'
<1>1. /\ parser' = p /\ nread' = 0 /\ marks' = {} /\ body' = b
      /\ incall' = FALSE /\ again' = left /\ eof' = eof /\ ~eof
    BY Zenon DEF Leave, ParserInv
<1>2. Sound(parser', body', mon') /\ StoryAt(parser'.state, parser'.flags, mon')
    BY Zenon, <1>1
<1>3. parser'.errno \in {"OK", "PAUSED"} => PendAt(parser'.state, marks', body', mon')
    BY Zenon, <1>1
<1>4. nread' \in 0..Many
    BY <1>1 DEF Many
<1>6. incall' \in BOOLEAN /\ eof' \in BOOLEAN
    BY Zenon, <1>1 DEF ParserInv
<1>5. Counted'
    BY Zenon, <1>1 DEF Counted
<1> QED BY Zenon, <1>1, <1>2, <1>3, <1>4, <1>5, <1>6 DEF ParserInv

LEMMA FailKeeps ==
    ASSUME ParserInv, incall, NEW e \in Errors, Fail(e)
    PROVE  ParserInv'
<1> DEFINE q == Returned(parser, e, nread)
<1>1. Sound(parser, body, mon) /\ StoryAt(parser.state, parser.flags, mon) /\ nread \in 0..Many
    BY Zenon DEF ParserInv
<1>2. Sound(q, body, mon) /\ q.state = parser.state /\ q.flags = parser.flags /\ q.errno = e
    BY <1>1, SoundReturn
<1>3. Leave(q, body, None) /\ mon' = mon
    BY Zenon DEF Fail, Returned
<1> HIDE DEF q
<1>4. q.errno \notin {"OK", "PAUSED"}
    BY Zenon, <1>2 DEF Errors
<1> QED BY Zenon, <1>1, <1>2, <1>3, <1>4, LeaveKeeps

\* The passes with a callback.  Nothing is left at a mark when it runs.
LEMMA CallbackKeeps ==
    ASSUME ParserInv, incall, NEW cb, NEW f, NEW after, Callback(cb, f, after),
           Fine(f, Told(cb)), PendAt(f.p.state, {}, f.b, Told(cb)),
           f.m = {} /\ (after # "return" => OpenElement(f.p.state) = {}),
           f.p.state # "s_chunk_size_start" \/ (f.n = 0 /\ f.p.nread = 0 /\ after = "advance")
           \/ (f.n = 0 /\ after = "return" /\ f.p.nread = 0)
    PROVE  ParserInv'
<1> DEFINE o == Told(cb)
<1> HIDE DEF o
<1>1. mon' = o /\ Fine(f, o) /\ PendAt(f.p.state, {}, f.b, o)
    BY Zenon DEF Callback, o
<1>2. Sound(f.p, f.b, o) /\ StoryAt(f.p.state, f.p.flags, o) /\ f.n \in 0..Many
    BY Zenon, <1>1 DEF Fine
<1>3. CASE /\ after # "return" /\ Set(f) /\ ch' = (IF after = "stay" THEN ch ELSE None)
           /\ UNCHANGED <<incall, again, eof, lines>>
  <2>1. MarksAt(f.p.state, f.m)
      BY Zenon, <1>3 DEF MarksAt
  <2> QED BY Zenon, <1>1, <1>3, <2>1, StepKeeps
<1>4. CASE Leave([f.p EXCEPT !.nread = f.n], f.b, None)
  <2> DEFINE q == [f.p EXCEPT !.nread = f.n]
  <2>0. f.p \in ParserRec
      BY Zenon, <1>2 DEF Sound
  <2>1. q \in ParserRec
      BY Zenon, <1>2, <2>0, PutNread
  <2>2. /\ q.state = f.p.state /\ q.flags = f.p.flags /\ q.nread = f.n
        /\ q.content_length = f.p.content_length /\ q.header_state = f.p.header_state
      BY ONLY Zenon, <2>0 DEF ParserRec
  <2>3. Leave(q, f.b, None)
      BY Zenon, <1>4
  <2> HIDE DEF q
  <2>4. Sound(q, f.b, o)
      BY Zenon, <1>2, <2>1, <2>2 DEF Sound
  <2> QED BY Zenon, <1>1, <1>2, <2>2, <2>3, <2>4, LeaveKeeps
<1>5. CASE Leave([f.p EXCEPT !.errno = "PAUSED"], f.b, IF after = "stay" THEN ch ELSE None)
  <2>1. Leave(Paused(f.p), f.b, IF after = "stay" THEN ch ELSE None)
      BY Zenon, <1>5 DEF Paused
  <2> QED BY <1>1, <1>2, <2>1, SoundPaused, LeaveKeeps
<1>6. CASE Leave([f.p EXCEPT !.errno = "CB", !.nread = f.n], f.b, None)
  <2>1. Leave(Returned(f.p, "CB", f.n), f.b, None)
      BY Zenon, <1>6 DEF Returned
  <2>2. "CB" \in Errors
      BY Zenon DEF Errors
  <2> QED BY <1>1, <1>2, <2>1, <2>2, SoundReturn, LeaveKeeps
<1> QED BY Zenon, <1>3, <1>4, <1>5, <1>6 DEF Callback

-----------------------------------------------------------------------------
(* Passes that change the state and what no property looks at.             *)

\* f is in state s; the flags, the length, the word, the marks and the body are as before.
MovesOnly(f, s) ==
    /\ f.p \in ParserRec /\ f.p.state = s /\ f.p.flags = parser.flags
    /\ f.p.content_length = parser.content_length /\ f.p.header_state = parser.header_state
    /\ f.n = nread /\ f.m = marks /\ f.b = body

LEMMA ToMovesOnly == ASSUME parser \in ParserRec, NEW s \in States PROVE MovesOnly(To(s), s)
<1> DEFINE q == To(s).p
<1>1. q = [parser EXCEPT !.state = s]
    BY Zenon, ToFields
<1>2. q \in ParserRec
    BY Zenon, <1>1, PutState
<1>3. /\ q.state = s /\ q.flags = parser.flags
      /\ q.content_length = parser.content_length /\ q.header_state = parser.header_state
    BY ONLY Zenon, <1>1, parser \in ParserRec DEF ParserRec
<1> QED BY Zenon, <1>2, <1>3, ToFields DEF MovesOnly

LEMMA MoveKeeps ==
    ASSUME ParserInv, incall, NEW f, NEW s \in States, MovesOnly(f, s),
           s \notin DataState \cup {"s_chunk_size_start"},
           StoryAt(s, parser.flags, mon), FlagsAt(s, parser.flags),
           LengthAt(s, parser.flags, parser.content_length, body),
           WordAt(s, parser.header_state, parser.flags), MarksAt(s, marks),
           Break(f) \/ Reexecute(f)
    PROVE  ParserInv'
<1>1. Set(f) /\ mon' = mon /\ UNCHANGED <<incall, again, eof>>
    BY Zenon DEF Break, Reexecute
<1>2. Fine(f, mon)
    BY Zenon DEF Fine, Sound, ParserInv, MovesOnly
<1>3. PendAt(s, f.m, f.b, mon)
    BY Zenon DEF PendAt, DataState
<1> QED BY Zenon, <1>1, <1>2, <1>3, StepKeeps DEF MovesOnly

\* break in the same state.
LEMMA HereKeeps ==
    ASSUME ParserInv, incall, parser.state \notin DataState \cup {"s_chunk_size_start"},
           Break(Here)
    PROVE  ParserInv'
<1>1. parser \in ParserRec /\ parser.state \in States
    BY Zenon DEF ParserInv, Sound, ParserRec
<1>2. MovesOnly(Here, parser.state)
    BY Zenon, <1>1, HereFields DEF MovesOnly
<1>3. /\ StoryAt(parser.state, parser.flags, mon) /\ FlagsAt(parser.state, parser.flags)
      /\ LengthAt(parser.state, parser.flags, parser.content_length, body)
      /\ WordAt(parser.state, parser.header_state, parser.flags) /\ MarksAt(parser.state, marks)
    BY Zenon DEF ParserInv, Sound
<1> QED BY Zenon, <1>1, <1>2, <1>3, MoveKeeps

\* Between two states of the first line.
LEMMA BegunKeeps ==
    ASSUME ParserInv, incall, parser.state \in BegunState, NEW f, NEW s \in BegunState,
           MovesOnly(f, s), Break(f) \/ Reexecute(f)
    PROVE  ParserInv'
<1>1. s \in States /\ s \notin DataState \cup {"s_chunk_size_start"}
    BY Zenon DEF States, HeaderState, DataState, BegunState
<1>2. /\ StoryAt(parser.state, parser.flags, mon) /\ FlagsAt(parser.state, parser.flags)
      /\ LengthAt(parser.state, parser.flags, parser.content_length, body)
      /\ MarksAt(parser.state, marks)
    BY Zenon DEF ParserInv, Sound
<1>3. StoryAt(s, parser.flags, mon)
  <2>1. mon = "begun"
      BY Zenon, <1>2 DEF StoryAt
  <2> QED BY Zenon, <2>1 DEF StoryAt, BegunState, StartState, FirstElement, SchemaState, UrlState,
            LineState, BetweenLines, BeforeValue, AfterValue, SizeState, SizeRead, DataState
<1>4. FlagsAt(s, parser.flags)
    BY Zenon, <1>2 DEF FlagsAt, BegunState, ChunkState, SizeState, SizeRead, DataState
<1>5. LengthAt(s, parser.flags, parser.content_length, body)
    BY Zenon, <1>2 DEF LengthAt, HeaderState, BegunState, SizeRead
<1>6. WordAt(s, parser.header_state, parser.flags)
    BY Zenon DEF WordAt, BegunState
<1>7. MarksAt(s, marks)
    BY <1>2 DEF MarksAt, OpenElement, SchemaState, UrlState, BegunState, DataState
<1> QED BY Zenon, <1>1, <1>3, <1>4, <1>5, <1>6, <1>7, MoveKeeps

LEMMA LineKeeps ==
    ASSUME ParserInv, incall, parser.state \in LineState, NEW f,
           NEW s \in LineState \cup {"s_header_field_start"},
           MovesOnly(f, s), Break(f) \/ Reexecute(f)
    PROVE  ParserInv'
<1>1. s \in States /\ s \notin DataState \cup {"s_chunk_size_start"}
    BY Zenon DEF States, HeaderState, BetweenLines, DataState, LineState
<1>2. /\ StoryAt(parser.state, parser.flags, mon) /\ FlagsAt(parser.state, parser.flags)
      /\ LengthAt(parser.state, parser.flags, parser.content_length, body)
      /\ MarksAt(parser.state, marks)
    BY Zenon DEF ParserInv, Sound
<1>3. StoryAt(s, parser.flags, mon)
  <2>1. mon = "line" /\ "F_TRAILING" \notin parser.flags
      BY Zenon, <1>2 DEF StoryAt, FlagsAt
  <2> QED BY Zenon, <2>1 DEF StoryAt, BegunState, StartState, FirstElement, SchemaState, UrlState,
            LineState, BetweenLines, BeforeValue, AfterValue, SizeState, SizeRead, DataState,
            LineTold
<1>4. FlagsAt(s, parser.flags)
    BY Zenon, <1>2 DEF FlagsAt, LineState, BegunState, FirstElement, SchemaState, UrlState, ChunkState,
                SizeState, SizeRead, DataState
<1>5. LengthAt(s, parser.flags, parser.content_length, body)
    BY Zenon, <1>2 DEF LengthAt, HeaderState, LineState, BetweenLines, SizeRead
<1>6. WordAt(s, parser.header_state, parser.flags)
    BY Zenon DEF WordAt, LineState
<1>7. MarksAt(s, marks)
    BY <1>2 DEF MarksAt, OpenElement, SchemaState, UrlState, LineState, DataState
<1> QED BY Zenon, <1>1, <1>3, <1>4, <1>5, <1>6, <1>7, MoveKeeps

-----------------------------------------------------------------------------
(* The first line.                                                         *)

\* f is in state s of a new message.
Begins(f, s) ==
    /\ f.p \in ParserRec /\ f.p.state = s /\ f.p.flags = {} /\ f.p.content_length = ULLONG_MAX
    /\ f.n = nread /\ f.m = marks /\ f.b = NoBody

LEMMA FreshBegins == ASSUME parser \in ParserRec, NEW s \in States PROVE Begins(Fresh(To(s)), s)
<1>1. /\ Fresh(To(s)).p = [parser EXCEPT !.state = s, !.flags = {}, !.content_length = ULLONG_MAX]
      /\ Fresh(To(s)).n = nread /\ Fresh(To(s)).m = marks /\ Fresh(To(s)).b = NoBody
    BY Zenon DEF Fresh, To, Here
<1>2. ULLONG_MAX \in 0..ULLONG_MAX /\ {} \in SUBSET Flags
    BY ParserAssumption
<1>3. Fresh(To(s)).p \in ParserRec
  <2>1. [parser EXCEPT !.state = s] \in ParserRec
      BY Zenon, PutState
  <2>2. [parser EXCEPT !.state = s, !.flags = {}] \in ParserRec
      BY Zenon, <1>2, <2>1, PutFlags
  <2> QED BY Zenon, <1>1, <1>2, <2>2, PutLength
<1>4. /\ Fresh(To(s)).p.state = s /\ Fresh(To(s)).p.flags = {}
      /\ Fresh(To(s)).p.content_length = ULLONG_MAX
    BY ONLY Zenon, <1>1, parser \in ParserRec DEF ParserRec
<1> QED BY Zenon, <1>1, <1>3, <1>4 DEF Begins

LEMMA BeginKeeps ==
    ASSUME ParserInv, incall, parser.state \in StartState, NEW f, NEW s \in BegunState,
           Begins(f, s), Callback("message_begin", f, "advance")
    PROVE  ParserInv'
<1>1. /\ StoryAt(parser.state, parser.flags, mon) /\ MarksAt(parser.state, marks)
      /\ nread \in 0..Many
    BY Zenon DEF ParserInv
<1>2. Told("message_begin") = "begun"
    BY Zenon, <1>1, ToldIs DEF StoryAt
<1>3. marks = {}
    BY Zenon, <1>1 DEF MarksAt, OpenElement, SchemaState, UrlState, StartState, DataState
<1>4. StoryAt(s, {}, "begun")
    BY Zenon DEF StoryAt, BegunState, StartState, FirstElement, SchemaState, UrlState,
            LineState, BetweenLines, BeforeValue, AfterValue, SizeState, SizeRead, DataState
<1>5. FlagsAt(s, {})
    BY Zenon DEF FlagsAt, BegunState, ChunkState, SizeState, SizeRead, DataState
<1>6. LengthAt(s, {}, ULLONG_MAX, NoBody)
    BY Zenon DEF LengthAt, HeaderState, BegunState, SizeRead
<1>7. WordAt(s, f.p.header_state, {})
    BY Zenon DEF WordAt, BegunState
<1>8. NoBody \in BodyRec
    BY Zenon DEF NoBody, BodyRec
<1>9. Fine(f, "begun")
    BY Zenon, <1>1, <1>4, <1>5, <1>6, <1>7, <1>8 DEF Fine, Sound, Begins
<1>10. PendAt(s, {}, f.b, "begun") /\ s # "s_chunk_size_start" /\ OpenElement(s) = {}
    BY Zenon DEF PendAt, DataState, BegunState, OpenElement, SchemaState, UrlState
<1> QED BY Zenon, <1>2, <1>3, <1>9, <1>10, CallbackKeeps DEF Begins

LEMMA DeadKeeps == ParserInv /\ Dead => ParserInv'
  BY Zenon, HereKeeps, FailKeeps DEF Dead, At_, Errors, DataState

LEMMA StartReqOrResKeeps == ParserInv /\ StartReqOrRes => ParserInv'
<1> SUFFICES ASSUME ParserInv, StartReqOrRes PROVE ParserInv'
    BY Zenon
<1>1. /\ incall /\ parser.state = "s_start_req_or_res" /\ parser \in ParserRec
      /\ parser.state \in StartState
    BY Zenon DEF StartReqOrRes, At_, ParserInv, Sound, StartState
<1>2. CASE Break(Here)
    BY Zenon, <1>1, <1>2, HereKeeps DEF DataState
<1>3. CASE Callback("message_begin", Fresh(To("s_res_or_resp_H")), "advance")
  <2>1. "s_res_or_resp_H" \in BegunState /\ "s_res_or_resp_H" \in States
      BY Zenon DEF BegunState, States, HeaderState
  <2>2. Begins(Fresh(To("s_res_or_resp_H")), "s_res_or_resp_H")
      BY Zenon, <1>1, <2>1, FreshBegins
  <2> QED BY Zenon, <1>1, <1>3, <2>1, <2>2, BeginKeeps
<1>4. CASE Reexecute([Fresh(To("s_start_req")) EXCEPT !.p.type = "REQUEST"])
  <2> DEFINE g == Fresh(To("s_start_req"))
             f == [g EXCEPT !.p.type = "REQUEST"]
  <2>1. "s_start_req" \in States
      BY Zenon DEF States, StartState
  <2>2. Begins(g, "s_start_req")
      BY Zenon, <1>1, <2>1, FreshBegins
  <2>3. f.p = [g.p EXCEPT !.type = "REQUEST"] /\ f.n = g.n /\ f.m = g.m /\ f.b = g.b
      BY Zenon DEF Fresh, To, Here
  <2>4. Reexecute(f)
      BY Zenon, <1>4
  <2> HIDE DEF f, g
  <2>5. Begins(f, "s_start_req")
    <3>1. f.p \in ParserRec
        BY Zenon, <2>2, <2>3, PutType DEF Begins
    <3> QED BY <2>2, <2>3, <3>1 DEF Begins, ParserRec
  <2>6. /\ StoryAt("s_start_req", {}, mon) /\ FlagsAt("s_start_req", {}) /\ mon # "wrong"
        /\ LengthAt("s_start_req", {}, ULLONG_MAX, NoBody) /\ MarksAt("s_start_req", marks)
      BY Zenon, <1>1 DEF StoryAt, BegunState, StartState, FirstElement, SchemaState, UrlState,
            LineState, BetweenLines, BeforeValue, AfterValue, SizeState, SizeRead, DataState,
            FlagsAt, ChunkState, LengthAt, HeaderState, MarksAt, OpenElement, ParserInv, Sound
  <2>7. NoBody \in BodyRec /\ nread \in 0..Many
      BY Zenon DEF NoBody, BodyRec, ParserInv
  <2>8. Fine(f, mon)
      BY Zenon, <2>5, <2>6, <2>7 DEF Fine, Sound, Begins, WordAt
  <2>9. Set(f) /\ UNCHANGED <<mon, incall, again, eof>>
      BY Zenon, <2>4 DEF Reexecute
  <2>10. PendAt("s_start_req", f.m, f.b, mon)
      BY Zenon DEF PendAt, DataState
  <2> QED BY Zenon, <1>1, <2>5, <2>6, <2>8, <2>9, <2>10, StepKeeps DEF Begins
<1> QED BY Zenon, <1>1, <1>2, <1>3, <1>4 DEF StartReqOrRes

LEMMA ResOrRespHKeeps == ParserInv /\ ResOrRespH => ParserInv'
<1> SUFFICES ASSUME ParserInv, ResOrRespH PROVE ParserInv'
    BY Zenon
<1>1. incall /\ parser.state = "s_res_or_resp_H" /\ parser \in ParserRec
    BY Zenon DEF ResOrRespH, At_, ParserInv, Sound
<1>2. /\ {"s_res_or_resp_H", "s_res_HT", "s_req_method"} \subseteq BegunState
      /\ {"s_res_HT", "s_req_method"} \subseteq States
    BY Zenon DEF BegunState, States, HeaderState
<1>3. CASE Break([To("s_res_HT") EXCEPT !.p.type = "RESPONSE"])
  <2> DEFINE q == [parser EXCEPT !.state = "s_res_HT"]
             f == [To("s_res_HT") EXCEPT !.p.type = "RESPONSE"]
  <2>1. /\ f.p = [q EXCEPT !.type = "RESPONSE"] /\ f.n = nread /\ f.m = marks /\ f.b = body
        /\ Break(f)
      BY Zenon, <1>3 DEF To, Here
  <2>2. q \in ParserRec
      BY Zenon, <1>1, <1>2, PutState
  <2>3. f.p \in ParserRec
    <3> HIDE DEF f, q
    <3> QED BY Zenon, <2>1, <2>2, PutType
  <2>4. MovesOnly(f, "s_res_HT")
    <3> HIDE DEF f
    <3> QED BY <1>1, <2>1, <2>3 DEF MovesOnly, ParserRec
  <2> HIDE DEF f
  <2> QED BY Zenon, <1>1, <1>2, <2>1, <2>4, BegunKeeps
<1>4. CASE Break([To("s_req_method") EXCEPT !.p.type = "REQUEST", !.p.method = "HEAD",
                                            !.p.index = 1])
  <2> DEFINE q == [parser EXCEPT !.state = "s_req_method"]
             r == [q EXCEPT !.type = "REQUEST"]
             u == [r EXCEPT !.method = "HEAD"]
             f == [To("s_req_method") EXCEPT !.p.type = "REQUEST", !.p.method = "HEAD",
                                             !.p.index = 1]
  <2>1. /\ f.p = [u EXCEPT !.index = 1] /\ f.n = nread /\ f.m = marks /\ f.b = body
        /\ Break(f)
      BY Zenon, <1>4 DEF To, Here
  <2>2. q \in ParserRec
      BY Zenon, <1>1, <1>2, PutState
  <2>3. r \in ParserRec
    <3> HIDE DEF q
    <3> QED BY Zenon, <2>2, PutType
  <2>4. u \in ParserRec
    <3> HIDE DEF r
    <3> QED BY Zenon, <2>3, PutMethod
  <2>5. f.p \in ParserRec
    <3>1. 1 \in 0..2
        OBVIOUS
    <3> HIDE DEF f, u
    <3> QED BY Zenon, <2>1, <2>4, <3>1, PutIndex
  <2>6. MovesOnly(f, "s_req_method")
    <3> HIDE DEF f
    <3> QED BY <1>1, <2>1, <2>5 DEF MovesOnly, ParserRec
  <2> HIDE DEF f
  <2> QED BY Zenon, <1>1, <1>2, <2>1, <2>6, BegunKeeps
<1>5. CASE Fail("INVALID_CONSTANT")
    BY Zenon, <1>1, <1>5, FailKeeps DEF Errors
<1> QED BY Zenon, <1>3, <1>4, <1>5 DEF ResOrRespH

LEMMA StartResKeeps == ParserInv /\ StartRes => ParserInv'
<1> SUFFICES ASSUME ParserInv, StartRes PROVE ParserInv'
    BY Zenon
<1>1. /\ incall /\ parser.state = "s_start_res" /\ parser \in ParserRec
      /\ parser.state \in StartState
    BY Zenon DEF StartRes, At_, ParserInv, Sound, StartState
<1>2. CASE Break(Here)
    BY Zenon, <1>1, <1>2, HereKeeps DEF DataState
<1>3. CASE Callback("message_begin", Fresh(To("s_res_H")), "advance")
  <2>1. "s_res_H" \in BegunState /\ "s_res_H" \in States
      BY Zenon DEF BegunState, States, HeaderState
  <2>2. Begins(Fresh(To("s_res_H")), "s_res_H")
      BY Zenon, <1>1, <2>1, FreshBegins
  <2> QED BY Zenon, <1>1, <1>3, <2>1, <2>2, BeginKeeps
<1>4. CASE Fail("INVALID_CONSTANT")
    BY Zenon, <1>1, <1>4, FailKeeps DEF Errors
<1> QED BY Zenon, <1>2, <1>3, <1>4 DEF StartRes

LEMMA StartReqKeeps == ParserInv /\ StartReq => ParserInv'
<1> SUFFICES ASSUME ParserInv, StartReq PROVE ParserInv'
    BY Zenon
<1>1. /\ incall /\ parser.state = "s_start_req" /\ parser \in ParserRec
      /\ parser.state \in StartState
    BY Zenon DEF StartReq, At_, ParserInv, Sound, StartState
<1>2. CASE Break(Here)
    BY Zenon, <1>1, <1>2, HereKeeps DEF DataState
<1>3. CASE /\ ch \in InMethods
           /\ Callback("message_begin",
                [Fresh(To("s_req_method")) EXCEPT !.p.method = ch, !.p.index = 1], "advance")
  <2> DEFINE g == Fresh(To("s_req_method"))
             q == [g.p EXCEPT !.method = ch]
             f == [Fresh(To("s_req_method")) EXCEPT !.p.method = ch, !.p.index = 1]
  <2>1. "s_req_method" \in BegunState /\ "s_req_method" \in States
      BY Zenon DEF BegunState, States, HeaderState
  <2>2. Begins(g, "s_req_method")
      BY Zenon, <1>1, <2>1, FreshBegins
  <2>3. f.p = [q EXCEPT !.index = 1] /\ f.n = g.n /\ f.m = g.m /\ f.b = g.b
      BY DEF Fresh, To, Here
  <2>4. Callback("message_begin", f, "advance")
      BY Zenon, <1>3
  <2> HIDE DEF f, g
  <2>5. Begins(f, "s_req_method")
    <3>1. q \in ParserRec
        BY Zenon, <1>3, <2>2, PutMethod DEF Begins
    <3>2. f.p \in ParserRec
      <4>1. 1 \in 0..2
          OBVIOUS
      <4> HIDE DEF q
      <4> QED BY Zenon, <2>3, <3>1, <4>1, PutIndex
    <3> QED BY <2>2, <2>3, <3>2 DEF Begins, ParserRec
  <2> QED BY Zenon, <1>1, <2>1, <2>4, <2>5, BeginKeeps
<1>4. CASE Fail("INVALID_METHOD")
    BY Zenon, <1>1, <1>4, FailKeeps DEF Errors
<1> QED BY Zenon, <1>2, <1>3, <1>4 DEF StartReq

LEMMA ReqMethodKeeps == ParserInv /\ ReqMethod => ParserInv'
<1> SUFFICES ASSUME ParserInv, ReqMethod PROVE ParserInv'
    BY Zenon
<1>1. incall /\ parser.state = "s_req_method" /\ parser \in ParserRec
    BY Zenon DEF ReqMethod, At_, ParserInv, Sound
<1>2. /\ {"s_req_method", "s_req_spaces_before_url"} \subseteq BegunState
      /\ {"s_req_method", "s_req_spaces_before_url"} \subseteq States
      /\ 0 \in 0..2 /\ 2 \in 0..2
    BY DEF BegunState, States, HeaderState
<1>3. CASE Break([Here EXCEPT !.p.index = 2])
  <2> DEFINE f == [Here EXCEPT !.p.index = 2]
  <2>1. /\ f.p = [parser EXCEPT !.index = 2] /\ f.n = nread /\ f.m = marks /\ f.b = body
        /\ Break(f)
      BY Zenon, <1>3 DEF Here
  <2> HIDE DEF f
  <2>2. f.p \in ParserRec
      BY Zenon, <1>1, <1>2, <2>1, PutIndex
  <2>3. MovesOnly(f, "s_req_method")
      BY <1>1, <2>1, <2>2 DEF MovesOnly, ParserRec
  <2> QED BY Zenon, <1>1, <1>2, <2>1, <2>3, BegunKeeps
<1>4. CASE Break([To("s_req_spaces_before_url") EXCEPT !.p.index = 0])
  <2> DEFINE q == [parser EXCEPT !.state = "s_req_spaces_before_url"]
             f == [To("s_req_spaces_before_url") EXCEPT !.p.index = 0]
  <2>1. /\ f.p = [q EXCEPT !.index = 0] /\ f.n = nread /\ f.m = marks /\ f.b = body /\ Break(f)
      BY Zenon, <1>4 DEF To, Here
  <2> HIDE DEF f
  <2>2. q \in ParserRec
      BY Zenon, <1>1, <1>2, PutState
  <2>3. f.p \in ParserRec
    <3> HIDE DEF q
    <3> QED BY Zenon, <1>2, <2>1, <2>2, PutIndex
  <2>4. MovesOnly(f, "s_req_spaces_before_url")
      BY <1>1, <2>1, <2>3 DEF MovesOnly, ParserRec
  <2> QED BY Zenon, <1>1, <1>2, <2>1, <2>4, BegunKeeps
<1>5. CASE Fail("INVALID_METHOD")
    BY Zenon, <1>1, <1>5, FailKeeps DEF Errors
<1> QED BY Zenon, <1>3, <1>4, <1>5 DEF ReqMethod

\* A fixed character leads from a state to one of the same part of the message.
LEMMA LiteralMoves ==
    \A s \in DOMAIN Literal :
      /\ Literal[s][3] \in Errors /\ Literal[s][2] \in States
      /\ \/ s \in BegunState /\ Literal[s][2] \in BegunState
         \/ s \in LineState /\ Literal[s][2] \in LineState \cup {"s_header_field_start"}
         \/ s = "s_header_almost_done" /\ Literal[s][2] = "s_header_value_lws"
         \/ /\ s = "s_header_value_discard_ws_almost_done"
            /\ Literal[s][2] = "s_header_value_discard_lws"
  BY SMTT(60) DEF Literal, Errors, States, HeaderState, BegunState, LineState, BetweenLines,
            BeforeValue, AfterValue

\* Between two states of a header line at which the same has been told.
LEMMA LineEndKeeps ==
    ASSUME ParserInv, incall, NEW f, NEW s, MovesOnly(f, s), Break(f) \/ Reexecute(f),
           \/ parser.state \in BeforeValue /\ s \in BeforeValue
           \/ parser.state \in AfterValue /\ s \in AfterValue \cup {"s_header_field_start"}
           \/ parser.state \in BetweenLines /\ s \in BetweenLines
    PROVE  ParserInv'
<1>1. s \in States /\ s \notin DataState \cup {"s_chunk_size_start"}
    BY Zenon DEF States, HeaderState, BeforeValue, AfterValue, BetweenLines, DataState
<1>2. /\ StoryAt(parser.state, parser.flags, mon) /\ FlagsAt(parser.state, parser.flags)
      /\ LengthAt(parser.state, parser.flags, parser.content_length, body)
      /\ MarksAt(parser.state, marks)
    BY Zenon DEF ParserInv, Sound
<1>3. StoryAt(s, parser.flags, mon)
    BY Zenon, <1>2 DEF StoryAt, BegunState, StartState, FirstElement, SchemaState, UrlState,
            LineState, BetweenLines, BeforeValue, AfterValue, SizeState, SizeRead, DataState
<1>4. FlagsAt(s, parser.flags)
    BY Zenon DEF FlagsAt, LineState, BegunState, FirstElement, SchemaState, UrlState, ChunkState,
                SizeState, SizeRead, DataState, BetweenLines, BeforeValue, AfterValue
<1>5. LengthAt(s, parser.flags, parser.content_length, body)
    BY Zenon, <1>2 DEF LengthAt, HeaderState, BetweenLines, BeforeValue, AfterValue, SizeRead
<1>6. WordAt(s, parser.header_state, parser.flags)
    BY Zenon DEF WordAt, BetweenLines, BeforeValue, AfterValue
<1>7. MarksAt(s, marks)
    BY Zenon, <1>2 DEF MarksAt, OpenElement, SchemaState, UrlState, BetweenLines, BeforeValue,
                AfterValue, DataState
<1> QED BY Zenon, <1>1, <1>3, <1>4, <1>5, <1>6, <1>7, MoveKeeps

LEMMA LiteralByteKeeps == ParserInv /\ LiteralByte => ParserInv'
<1> SUFFICES ASSUME ParserInv, LiteralByte PROVE ParserInv'
    BY Zenon
<1> DEFINE l == Literal[parser.state]
<1>1. incall /\ parser.state \in DOMAIN Literal /\ parser \in ParserRec
    BY Zenon DEF LiteralByte, In, ParserInv, Sound
<1>2. Break(To(l[2])) \/ Fail(l[3])
    BY Zenon DEF LiteralByte
<1>3. /\ l[3] \in Errors /\ l[2] \in States
      /\ \/ parser.state \in BegunState /\ l[2] \in BegunState
         \/ parser.state \in LineState /\ l[2] \in LineState \cup {"s_header_field_start"}
         \/ parser.state = "s_header_almost_done" /\ l[2] = "s_header_value_lws"
         \/ /\ parser.state = "s_header_value_discard_ws_almost_done"
            /\ l[2] = "s_header_value_discard_lws"
    BY Zenon, <1>1, LiteralMoves
<1> HIDE DEF l
<1>4. CASE Fail(l[3])
    BY Zenon, <1>1, <1>3, <1>4, FailKeeps
<1>5. CASE Break(To(l[2]))
  <2>1. MovesOnly(To(l[2]), l[2])
      BY Zenon, <1>1, <1>3, ToMovesOnly
  <2>2. CASE parser.state \in BegunState /\ l[2] \in BegunState
      BY Zenon, <1>1, <1>5, <2>1, <2>2, BegunKeeps
  <2>3. CASE parser.state \in LineState /\ l[2] \in LineState \cup {"s_header_field_start"}
      BY Zenon, <1>1, <1>5, <2>1, <2>3, LineKeeps
  <2>4. CASE parser.state = "s_header_almost_done" /\ l[2] = "s_header_value_lws"
      BY Zenon, <1>1, <1>5, <2>1, <2>4, LineEndKeeps DEF AfterValue
  <2>5. CASE /\ parser.state = "s_header_value_discard_ws_almost_done"
             /\ l[2] = "s_header_value_discard_lws"
      BY Zenon, <1>1, <1>5, <2>1, <2>5, LineEndKeeps DEF BeforeValue
  <2> QED BY Zenon, <1>3, <2>2, <2>3, <2>4, <2>5
<1> QED BY Zenon, <1>2, <1>4, <1>5

\* The digits.
LEMMA DigitType == \A d \in Num : DigitValue[d] \in 0..9
<1> SUFFICES ASSUME NEW d \in Num PROVE DigitValue[d] \in 0..9
    BY Zenon
<1>1. \E n \in 0..9 : Numerals[n + 1] = d
  <2>1. /\ Numerals[0 + 1] = "0" /\ Numerals[1 + 1] = "1" /\ Numerals[2 + 1] = "2"
        /\ Numerals[3 + 1] = "3" /\ Numerals[4 + 1] = "4" /\ Numerals[5 + 1] = "5"
        /\ Numerals[6 + 1] = "6" /\ Numerals[7 + 1] = "7" /\ Numerals[8 + 1] = "8"
        /\ Numerals[9 + 1] = "9"
      BY DEF Numerals
  <2> QED BY <2>1 DEF Num
<1>2. DigitValue[d] = CHOOSE n \in 0..9 : Numerals[n + 1] = d
    BY Zenon DEF DigitValue
<1> QED BY Zenon, <1>1, <1>2

LEMMA VersionKeeps == ParserInv /\ Version => ParserInv'
<1> SUFFICES ASSUME ParserInv, Version PROVE ParserInv'
    BY Zenon
<1>1. incall /\ parser \in ParserRec
    BY Zenon DEF Version, In, ParserInv, Sound
<1>2. CASE Fail("INVALID_VERSION")
    BY Zenon, <1>1, <1>2, FailKeeps DEF Errors
<1>3. ASSUME ch \in Num, NEW s, NEW t, NEW f, parser.state = s, Break(f),
             \/ s \in BegunState /\ t \in BegunState
             \/ s \in LineState /\ t \in LineState,
             \/ f = [To(t) EXCEPT !.p.http_major = DigitValue[ch]]
             \/ f = [To(t) EXCEPT !.p.http_minor = DigitValue[ch]]
      PROVE  ParserInv'
  <2> DEFINE q == [parser EXCEPT !.state = t]
  <2>1. /\ f.n = nread /\ f.m = marks /\ f.b = body
        /\ \/ f.p = [q EXCEPT !.http_major = DigitValue[ch]]
           \/ f.p = [q EXCEPT !.http_minor = DigitValue[ch]]
      BY Zenon, <1>3 DEF To, Here
  <2>2. t \in States
      BY Zenon, <1>3 DEF States, HeaderState
  <2>3. q \in ParserRec
      BY Zenon, <1>1, <2>2, PutState
  <2>4. f.p \in ParserRec
    <3> HIDE DEF q
    <3> QED BY ZenonT(60), <1>3, <2>1, <2>3, DigitType, PutMajor, PutMinor
  <2>5. MovesOnly(f, t)
      BY Zenon, <1>1, <2>1, <2>4 DEF MovesOnly, ParserRec
  <2> QED BY Zenon, <1>1, <1>3, <2>5, BegunKeeps, LineKeeps
<1>4. CASE ch \in Num /\ parser.state = "s_res_http_major"
  <2>1. Break([To("s_res_http_dot") EXCEPT !.p.http_major = DigitValue[ch]])
      BY Zenon, <1>4 DEF Version
  <2>2. "s_res_http_major" \in BegunState /\ "s_res_http_dot" \in BegunState
      BY Zenon DEF BegunState
  <2> QED BY Zenon, <1>3, <1>4, <2>1, <2>2
<1>5. CASE ch \in Num /\ parser.state = "s_res_http_minor"
  <2>1. Break([To("s_res_http_end") EXCEPT !.p.http_minor = DigitValue[ch]])
      BY Zenon, <1>5 DEF Version
  <2>2. "s_res_http_minor" \in BegunState /\ "s_res_http_end" \in BegunState
      BY Zenon DEF BegunState
  <2> QED BY Zenon, <1>3, <1>5, <2>1, <2>2
<1>6. CASE ch \in Num /\ parser.state = "s_req_http_major"
  <2>1. Break([To("s_req_http_dot") EXCEPT !.p.http_major = DigitValue[ch]])
      BY Zenon, <1>6 DEF Version
  <2>2. "s_req_http_major" \in LineState /\ "s_req_http_dot" \in LineState
      BY Zenon DEF LineState
  <2> QED BY Zenon, <1>3, <1>6, <2>1, <2>2
<1>7. CASE ch \in Num /\ parser.state = "s_req_http_minor"
  <2>1. Break([To("s_req_http_end") EXCEPT !.p.http_minor = DigitValue[ch]])
      BY Zenon, <1>7 DEF Version
  <2>2. "s_req_http_minor" \in LineState /\ "s_req_http_end" \in LineState
      BY Zenon DEF LineState
  <2> QED BY Zenon, <1>3, <1>7, <2>1, <2>2
<1> QED BY Zenon, <1>2, <1>4, <1>5, <1>6, <1>7 DEF Version, In

LEMMA StatusCodeKeeps == ParserInv /\ StatusCode => ParserInv'
<1> SUFFICES ASSUME ParserInv, StatusCode PROVE ParserInv'
    BY Zenon
<1>1. /\ incall /\ parser \in ParserRec
      /\ parser.state \in {"s_res_first_status_code", "s_res_status_code"}
    BY Zenon DEF StatusCode, At_, ParserInv, Sound
<1>2. /\ {"s_res_first_status_code", "s_res_status_code", "s_res_status_start"} \subseteq BegunState
      /\ {"s_res_first_status_code", "s_res_status_code", "s_res_status_start"} \subseteq States
      /\ parser.state \in BegunState /\ parser.state \notin DataState \cup {"s_chunk_size_start"}
    BY Zenon, <1>1 DEF BegunState, States, HeaderState, DataState
<1>3. CASE Break(Here)
    BY Zenon, <1>1, <1>2, <1>3, HereKeeps
<1>4. CASE Fail("INVALID_STATUS")
    BY Zenon, <1>1, <1>4, FailKeeps DEF Errors
<1>5. CASE Break(To("s_res_status_start")) \/ Reexecute(To("s_res_status_start"))
    BY Zenon, <1>1, <1>2, <1>5, ToMovesOnly, BegunKeeps
<1>6. ASSUME NEW n \in StatusCodes, Break([To("s_res_status_code") EXCEPT !.p.status_code = n])
      PROVE  ParserInv'
  <2> DEFINE q == [parser EXCEPT !.state = "s_res_status_code"]
             f == [To("s_res_status_code") EXCEPT !.p.status_code = n]
  <2>1. /\ f.p = [q EXCEPT !.status_code = n] /\ f.n = nread /\ f.m = marks /\ f.b = body
        /\ Break(f)
      BY Zenon, <1>6 DEF To, Here
  <2> HIDE DEF f
  <2>2. q \in ParserRec
      BY Zenon, <1>1, <1>2, PutState
  <2>3. f.p \in ParserRec
    <3> HIDE DEF q
    <3> QED BY Zenon, <1>6, <2>1, <2>2, PutStatus
  <2>4. MovesOnly(f, "s_res_status_code")
      BY <1>1, <2>1, <2>3 DEF MovesOnly, ParserRec
  <2> QED BY Zenon, <1>1, <1>2, <2>1, <2>4, BegunKeeps
<1> QED BY Zenon, <1>3, <1>4, <1>5, <1>6 DEF StatusCode

-----------------------------------------------------------------------------
(* An element begins, goes on and is handed over.                          *)

IsFrame(f) == f = [p |-> f.p, n |-> f.n, m |-> f.m, b |-> f.b]

LEMMA ToFrame == IsFrame(Here) /\ \A s : IsFrame(To(s))
  BY DEF IsFrame, To, Here

LEMMA PutFrame ==
    \A f, q : IsFrame(f) =>
      /\ IsFrame([f EXCEPT !.p = q]) /\ IsFrame([f EXCEPT !.n = q])
      /\ IsFrame([f EXCEPT !.m = q]) /\ IsFrame([f EXCEPT !.b = q])
  BY DEF IsFrame

LEMMA MarkFrame == \A s, kind : IsFrame(MARK(To(s), kind))
  BY Zenon, ToFrame, PutFrame DEF MARK

\* CALLBACK_DATA for an element other than the body: the mark is set, and is cleared.
LEMMA ElementKeeps ==
    ASSUME ParserInv, incall, NEW kind, kind # "body", OpenElement(parser.state) = {kind},
           NEW f, IsFrame(f), NEW s \in States, MovesOnly(f, s),
           NEW after, DataCallback(kind, f, after), after = "return" \/ OpenElement(s) = {},
           s \notin DataState \cup {"s_chunk_size_start"},
           Told(kind) # "wrong", StoryAt(s, parser.flags, Told(kind)), FlagsAt(s, parser.flags),
           LengthAt(s, parser.flags, parser.content_length, body),
           WordAt(s, parser.header_state, parser.flags)
    PROVE  ParserInv'
<1>1. marks = {kind}
  <2>1. MarksAt(parser.state, marks)
      BY Zenon DEF ParserInv
  <2> QED BY Zenon, <2>1 DEF MarksAt, OpenElement, SchemaState, UrlState, DataState
<1> DEFINE g == [f EXCEPT !.m = @ \ {kind}, !.b = IF kind = "body" THEN Handed(@) ELSE @]
<1>2. Callback(kind, g, after)
    BY Zenon, <1>1 DEF DataCallback, MovesOnly
<1>3. g.p = f.p /\ g.n = f.n /\ g.m = f.m \ {kind} /\ g.b = f.b
    BY Zenon DEF IsFrame
<1> HIDE DEF g
<1>4. g.m = {} /\ g.n = nread /\ nread \in 0..Many /\ body \in BodyRec
    BY Zenon, <1>1, <1>3 DEF MovesOnly, ParserInv, Sound
<1>5. Fine(g, Told(kind))
    BY Zenon, <1>3, <1>4 DEF Fine, Sound, MovesOnly
<1>6. g.p.state = s
    BY Zenon, <1>3 DEF MovesOnly
<1>7. PendAt(s, {}, g.b, Told(kind))
    BY Zenon DEF PendAt, DataState
<1> QED BY Zenon, <1>2, <1>4, <1>5, <1>6, <1>7, CallbackKeeps

\* An element of the first line ends it.
LEMMA FirstElementKeeps ==
    ASSUME ParserInv, incall, parser.state \in FirstElement,
           NEW kind, kind \in {"url", "status"}, OpenElement(parser.state) = {kind},
           NEW f, IsFrame(f), NEW s \in LineState \cup {"s_header_field_start"}, MovesOnly(f, s),
           DataCallback(kind, f, "advance")
    PROVE  ParserInv'
<1>1. /\ s \in States /\ s \notin DataState \cup {"s_chunk_size_start"} /\ OpenElement(s) = {}
    BY Zenon DEF States, HeaderState, BetweenLines, DataState, LineState, OpenElement, SchemaState, UrlState
<1>2. /\ StoryAt(parser.state, parser.flags, mon) /\ FlagsAt(parser.state, parser.flags)
      /\ LengthAt(parser.state, parser.flags, parser.content_length, body)
    BY Zenon DEF ParserInv, Sound
<1>3. "F_TRAILING" \notin parser.flags
    BY Zenon, <1>2 DEF FlagsAt
<1>4. Told(kind) = "line"
  <2>1. mon \in {"begun", "line"}
      BY Zenon, <1>2 DEF StoryAt
  <2> QED BY Zenon, <2>1, ToldIs
<1>5. StoryAt(s, parser.flags, "line")
    BY Zenon, <1>3 DEF StoryAt, BegunState, StartState, FirstElement, SchemaState, UrlState,
            LineState, BetweenLines, BeforeValue, AfterValue, SizeState, SizeRead, DataState,
            LineTold
<1>6. FlagsAt(s, parser.flags)
    BY Zenon, <1>3 DEF FlagsAt, LineState, BegunState, FirstElement, SchemaState, UrlState, ChunkState,
                SizeState, SizeRead, DataState
<1>7. LengthAt(s, parser.flags, parser.content_length, body)
    BY <1>2 DEF LengthAt, HeaderState, LineState, BetweenLines, SizeRead, FirstElement, SchemaState,
                UrlState
<1>8. WordAt(s, parser.header_state, parser.flags)
    BY Zenon DEF WordAt, LineState
<1> QED BY Zenon, <1>1, <1>4, <1>5, <1>6, <1>7, <1>8, ElementKeeps

\* The mark of an element is set at its first byte, and stays set inside it.
LEMMA FirstMarkKeeps ==
    ASSUME ParserInv, incall, parser.state \in BegunState \cup FirstElement,
           NEW s \in FirstElement,
           parser.state \in FirstElement => OpenElement(parser.state) = OpenElement(s),
           NEW f, f.p = [parser EXCEPT !.state = s], f.n = nread, f.b = body,
           f.m = marks \cup OpenElement(s), Break(f) \/ Reexecute(f)
    PROVE  ParserInv'
<1>1. /\ StoryAt(parser.state, parser.flags, mon) /\ FlagsAt(parser.state, parser.flags)
      /\ LengthAt(parser.state, parser.flags, parser.content_length, body)
      /\ MarksAt(parser.state, marks) /\ parser \in ParserRec /\ body \in BodyRec
      /\ nread \in 0..Many /\ mon # "wrong"
    BY Zenon DEF ParserInv, Sound
<1>2. s \in States
    BY Zenon DEF States, HeaderState
<1>3. f.p \in ParserRec
    BY Zenon, <1>1, <1>2, PutState
<1>4. /\ f.p.state = s /\ f.p.flags = parser.flags
      /\ f.p.content_length = parser.content_length
    BY ONLY Zenon, <1>1, f.p = [parser EXCEPT !.state = s] DEF ParserRec
<1>5. StoryAt(s, parser.flags, mon)
  <2>1. mon \in {"begun", "line"}
      BY Zenon, <1>1 DEF StoryAt
  <2> QED BY Zenon, <2>1 DEF StoryAt, BegunState, StartState, FirstElement, SchemaState, UrlState,
            LineState, BetweenLines, BeforeValue, AfterValue, SizeState, SizeRead, DataState
<1>6. FlagsAt(s, parser.flags)
    BY Zenon, <1>1 DEF FlagsAt, FirstElement, SchemaState, UrlState, ChunkState, SizeState, SizeRead,
                DataState
<1>7. LengthAt(s, parser.flags, parser.content_length, body)
    BY Zenon, <1>1 DEF LengthAt, HeaderState, SizeRead, FirstElement, SchemaState, UrlState
<1>8. WordAt(s, f.p.header_state, parser.flags)
    BY Zenon DEF WordAt, FirstElement, SchemaState, UrlState
<1>9. Fine(f, mon)
    BY Zenon, <1>1, <1>3, <1>4, <1>5, <1>6, <1>7, <1>8 DEF Fine, Sound
<1>10. MarksAt(s, f.m)
    BY <1>1 DEF MarksAt, OpenElement, BegunState, FirstElement, SchemaState, UrlState, DataState
<1>11. PendAt(s, f.m, f.b, mon) /\ s # "s_chunk_size_start"
    BY Zenon DEF PendAt, FirstElement, SchemaState, UrlState, DataState
<1>12. Set(f) /\ mon' = mon /\ UNCHANGED <<incall, again, eof>>
    BY Zenon DEF Break, Reexecute
<1> QED BY Zenon, <1>4, <1>9, <1>10, <1>11, <1>12, StepKeeps

LEMMA StatusKeeps == ParserInv /\ Status => ParserInv'
<1> SUFFICES ASSUME ParserInv, Status PROVE ParserInv'
    BY Zenon
<1>1. /\ incall /\ parser \in ParserRec
      /\ parser.state \in {"s_res_status_start", "s_res_status"}
    BY Zenon DEF Status, At_, ParserInv, Sound
<1>2. /\ "s_res_status_start" \in BegunState /\ "s_res_status" \in FirstElement
      /\ {"s_res_line_almost_done", "s_header_field_start"}
           \subseteq LineState \cup {"s_header_field_start"}
      /\ {"s_res_line_almost_done", "s_header_field_start", "s_res_status"} \subseteq States
      /\ OpenElement("s_res_status") = {"status"}
    BY DEF BegunState, FirstElement, LineState, OpenElement, SchemaState, UrlState, States,
           HeaderState, BetweenLines
<1>3. CASE /\ parser.state = "s_res_status_start"
           /\ \/ Reexecute(MARK(To("s_res_status"), "status"))
              \/ Break(MARK(To("s_res_status"), "status"))
  <2> DEFINE f == MARK(To("s_res_status"), "status")
  <2>1. /\ f.p = [parser EXCEPT !.state = "s_res_status"] /\ f.n = nread /\ f.b = body
        /\ f.m = marks \cup OpenElement("s_res_status")
      BY Zenon, <1>2 DEF MARK, To, Here
  <2>2. Break(f) \/ Reexecute(f)
      BY Zenon, <1>3
  <2>3. parser.state \in BegunState /\ parser.state \notin FirstElement
      BY Zenon, <1>2, <1>3 DEF FirstElement, SchemaState, UrlState
  <2> HIDE DEF f
  <2> QED BY Zenon, <1>1, <1>2, <2>1, <2>2, <2>3, FirstMarkKeeps
<1>4. ASSUME NEW s \in {"s_res_line_almost_done", "s_header_field_start"},
             parser.state = "s_res_status", DataCallback("status", To(s), "advance")
      PROVE  ParserInv'
  <2>1. MovesOnly(To(s), s) /\ IsFrame(To(s))
      BY Zenon, <1>1, <1>2, ToMovesOnly, ToFrame
  <2> QED BY Zenon, <1>1, <1>2, <1>4, <2>1, FirstElementKeeps
<1>5. CASE Break(Here)
    BY Zenon, <1>1, <1>5, HereKeeps DEF DataState
<1> QED BY Zenon, <1>3, <1>4, <1>5 DEF Status, At_

\* Where parse_url_char leads.
LEMMA UrlMovesTo == \A m \in UrlMoves : m[3] \in SchemaState \cup UrlState
  BY DEF UrlMoves, SchemaState, UrlState, ServerState

LEMMA ParseUrlTo ==
    \A s, c : parse_url_char(s, c) = "s_dead" \/ parse_url_char(s, c) \in SchemaState \cup UrlState
  BY Zenon, UrlMovesTo DEF parse_url_char

LEMMA UrlByteKeeps ==
    ASSUME ParserInv, incall,
           parser.state \in SchemaState \cup UrlState \cup {"s_req_spaces_before_url"},
           NEW s, s = "s_dead" \/ s \in SchemaState \cup UrlState,
           NEW f, f = Here \/ f = MARK(Here, "url"),
           f = Here => parser.state \in SchemaState \cup UrlState, UrlByteTo(s, f)
    PROVE  ParserInv'
<1>1. CASE s = "s_dead"
    BY Zenon, <1>1, FailKeeps DEF UrlByteTo, Errors
<1>2. CASE s # "s_dead"
  <2> DEFINE g == [f EXCEPT !.p.state = s]
  <2>1. s \in FirstElement /\ OpenElement(s) = {"url"} /\ Break(g)
      BY Zenon, <1>2 DEF UrlByteTo, FirstElement, OpenElement
  <2>2. /\ parser.state \in BegunState \cup FirstElement
        /\ parser.state \in FirstElement => OpenElement(parser.state) = {"url"}
      BY Zenon DEF BegunState, FirstElement, OpenElement, SchemaState, UrlState
  <2>3. f.p = parser /\ f.n = nread /\ f.b = body /\ f.m \in {marks, marks \cup {"url"}}
        /\ g.p = [parser EXCEPT !.state = s] /\ g.n = nread /\ g.b = body /\ g.m = f.m
      BY DEF MARK, Here
  <2>4. MarksAt(parser.state, marks)
      BY Zenon DEF ParserInv
  <2>5. g.m = marks \cup {"url"}
    <3>1. CASE f = MARK(Here, "url")
        BY Zenon, <2>3, <3>1 DEF MARK, Here
    <3>2. CASE f = Here
      <4>1. "url" \in marks
          BY Zenon, <3>2, <2>4 DEF MarksAt, OpenElement
      <4> QED BY <2>3, <4>1
    <3> QED BY Zenon, <3>1, <3>2
  <2> HIDE DEF g
  <2> QED BY Zenon, <2>1, <2>2, <2>3, <2>5, FirstMarkKeeps
<1> QED BY Zenon, <1>1, <1>2

LEMMA SpacesBeforeUrlKeeps == ParserInv /\ SpacesBeforeUrl => ParserInv'
<1> SUFFICES ASSUME ParserInv, SpacesBeforeUrl PROVE ParserInv'
    BY Zenon
<1>1. incall /\ parser.state = "s_req_spaces_before_url"
    BY Zenon DEF SpacesBeforeUrl, At_
<1>2. CASE Break(Here)
    BY Zenon, <1>1, <1>2, HereKeeps DEF DataState
<1>3. CASE UrlByteTo(parse_url_char(IF parser.method = "CONNECT" THEN "s_req_server_start"
                                    ELSE "s_req_spaces_before_url", ch), MARK(Here, "url"))
  <2>1. MARK(Here, "url") # Here
    <3>1. MarksAt(parser.state, marks)
        BY Zenon, <1>1 DEF ParserInv
    <3>2. "url" \notin marks
        BY <1>1, <3>1 DEF MarksAt, OpenElement, SchemaState, UrlState
    <3>3. MARK(Here, "url").m = marks \cup {"url"} /\ Here.m = marks
        BY Zenon DEF MARK, Here
    <3> QED BY Zenon, <3>2, <3>3
  <2> QED BY Zenon, <1>1, <1>3, <2>1, ParseUrlTo, UrlByteKeeps
<1> QED BY Zenon, <1>2, <1>3 DEF SpacesBeforeUrl

LEMMA UrlSchemaKeeps == ParserInv /\ UrlSchema => ParserInv'
  BY Zenon, ParseUrlTo, UrlByteKeeps DEF UrlSchema, In

LEMMA UrlKeeps == ParserInv /\ Url => ParserInv'
<1> SUFFICES ASSUME ParserInv, Url PROVE ParserInv'
    BY Zenon
<1>1. incall /\ parser \in ParserRec /\ parser.state \in UrlState
    BY Zenon DEF Url, In, ParserInv, Sound
<1>2. /\ parser.state \in FirstElement /\ OpenElement(parser.state) = {"url"}
      /\ {"s_req_http_start", "s_req_line_almost_done"} \subseteq LineState
      /\ {"s_req_http_start", "s_req_line_almost_done", "s_header_field_start"} \subseteq States
    BY Zenon, <1>1 DEF FirstElement, OpenElement, LineState, States, HeaderState, BetweenLines
<1>3. CASE DataCallback("url", To("s_req_http_start"), "advance")
  <2>1. MovesOnly(To("s_req_http_start"), "s_req_http_start") /\ IsFrame(To("s_req_http_start"))
      BY Zenon, <1>1, <1>2, ToMovesOnly, ToFrame
  <2> QED BY Zenon, <1>1, <1>2, <1>3, <2>1, FirstElementKeeps
<1>4. ASSUME NEW s \in {"s_req_line_almost_done", "s_header_field_start"},
             DataCallback("url", [To(s) EXCEPT !.p.http_major = 0, !.p.http_minor = 9], "advance")
      PROVE  ParserInv'
  <2> DEFINE q == [parser EXCEPT !.state = s]
             r == [q EXCEPT !.http_major = 0]
             f == [To(s) EXCEPT !.p.http_major = 0, !.p.http_minor = 9]
  <2>1. f.p = [r EXCEPT !.http_minor = 9] /\ f.n = nread /\ f.m = marks /\ f.b = body
      BY Zenon DEF To, Here
  <2>7. IsFrame(f)
      BY Zenon, ToFrame, PutFrame
  <2>8. DataCallback("url", f, "advance")
      BY Zenon, <1>4
  <2>2. q \in ParserRec
      BY Zenon, <1>1, <1>2, <1>4, PutState
  <2>3. 0 \in 0..9 /\ 9 \in 0..9
      OBVIOUS
  <2>4. r \in ParserRec
    <3> HIDE DEF q
    <3> QED BY Zenon, <2>2, <2>3, PutMajor
  <2>5. f.p \in ParserRec
    <3> HIDE DEF f, r
    <3> QED BY ZenonT(60), <2>1, <2>3, <2>4, PutMinor
  <2>6. MovesOnly(f, s)
    <3> HIDE DEF f
    <3> QED BY Zenon, <1>1, <2>1, <2>5 DEF MovesOnly, ParserRec
  <2> HIDE DEF f
  <2> QED BY Zenon, <1>1, <1>2, <1>4, <2>6, <2>7, <2>8, FirstElementKeeps
<1>5. CASE UrlByteTo(parse_url_char(parser.state, ch), Here)
    BY Zenon, <1>1, <1>5, ParseUrlTo, UrlByteKeeps
<1> QED BY Zenon, <1>3, <1>4, <1>5 DEF Url

LEMMA ReqHttpStartKeeps == ParserInv /\ ReqHttpStart => ParserInv'
<1> SUFFICES ASSUME ParserInv, ReqHttpStart PROVE ParserInv'
    BY Zenon
<1>1. /\ incall /\ parser \in ParserRec /\ parser.state = "s_req_http_start"
      /\ parser.state \in LineState
    BY Zenon DEF ReqHttpStart, At_, ParserInv, Sound, LineState
<1>2. ASSUME NEW s \in {"s_req_http_H", "s_req_http_I"}, Break(To(s)) PROVE ParserInv'
  <2>1. s \in LineState /\ s \in States
      BY Zenon DEF LineState, States, HeaderState
  <2> QED BY Zenon, <1>1, <1>2, <2>1, ToMovesOnly, LineKeeps
<1> QED BY Zenon, <1>1, <1>2, HereKeeps, FailKeeps DEF ReqHttpStart, Errors, DataState

LEMMA ReqHttpEndKeeps == ParserInv /\ ReqHttpEnd => ParserInv'
<1> SUFFICES ASSUME ParserInv, ReqHttpEnd PROVE ParserInv'
    BY Zenon
<1>1. /\ incall /\ parser \in ParserRec /\ parser.state = "s_req_http_end"
      /\ parser.state \in LineState
    BY Zenon DEF ReqHttpEnd, At_, ParserInv, Sound, LineState
<1>2. ASSUME NEW s \in {"s_req_line_almost_done", "s_header_field_start"}, Break(To(s))
      PROVE  ParserInv'
  <2>1. s \in LineState \cup {"s_header_field_start"} /\ s \in States
      BY Zenon DEF LineState, States, HeaderState, BetweenLines
  <2> QED BY Zenon, <1>1, <1>2, <2>1, ToMovesOnly, LineKeeps
<1> QED BY Zenon, <1>1, <1>2, FailKeeps DEF ReqHttpEnd, Errors

-----------------------------------------------------------------------------
(* The header lines.                                                       *)

FieldState == BetweenLines \cup BeforeValue \cup AfterValue \cup {"s_header_field", "s_header_value"}

\* What the callbacks have told in a header line.
LineStory(s, fl, o) ==
    /\ s \in BetweenLines => o \in {LineTold(fl), ValueTold(fl)}
    /\ s = "s_header_field" => o \in {LineTold(fl), ValueTold(fl), FieldTold(fl)}
    /\ s \in BeforeValue => o = FieldTold(fl)
    /\ s = "s_header_value" => o \in {FieldTold(fl), ValueTold(fl)}
    /\ s \in AfterValue => o = ValueTold(fl)

LEMMA FieldStateFacts ==
    \A s \in FieldState :
      /\ s \in States /\ s \in HeaderState
      /\ s \notin DataState /\ s \notin SizeRead /\ s \notin {"s_body_identity", "s_message_done",
             "s_chunk_size_start", "s_chunk_data", "s_chunk_data_almost_done", "s_chunk_data_done"}
  BY Zenon DEF FieldState, BetweenLines, BeforeValue, AfterValue, States, HeaderState, DataState, SizeRead

LEMMA FieldStory ==
    ASSUME NEW s \in FieldState, NEW fl, NEW o
    PROVE  StoryAt(s, fl, o) <=> LineStory(s, fl, o)
<1>1. /\ s \notin StartState \cup {"s_dead"} /\ s \notin BegunState /\ s \notin FirstElement
      /\ s \notin LineState
    BY Zenon DEF FieldState, BetweenLines, BeforeValue, AfterValue, StartState, BegunState, FirstElement,
           SchemaState, UrlState, LineState
<1>2. /\ s \notin SizeState /\ s \notin DataState
      /\ s \notin {"s_headers_done", "s_body_identity", "s_body_identity_eof", "s_message_done",
                   "s_chunk_data_done"}
    BY Zenon DEF FieldState, BetweenLines, BeforeValue, AfterValue, SizeState, SizeRead, DataState
<1> QED BY Zenon, <1>1, <1>2 DEF StoryAt, LineStory

LEMMA FieldFlags == \A s \in FieldState : \A fl : FlagsAt(s, fl)
  BY DEF FlagsAt, FieldState, BetweenLines, BeforeValue, AfterValue, BegunState, FirstElement,
         SchemaState, UrlState, LineState, ChunkState, SizeState, SizeRead, DataState

\* The length in a header line.
LineLength(fl, len, b) ==
    /\ "F_CONTENTLENGTH" \in fl => b.announced = len /\ b.got = 0 /\ b.pend = 0
    /\ "F_CONTENTLENGTH" \notin fl /\ "F_TRAILING" \notin fl => len = ULLONG_MAX

LEMMA FieldLength ==
    ASSUME NEW s \in FieldState, NEW fl, NEW len, NEW b
    PROVE  LengthAt(s, fl, len, b) <=> LineLength(fl, len, b)
  BY Zenon, FieldStateFacts DEF LengthAt, LineLength

LEMMA FieldMarks ==
    ASSUME ParserInv, incall, parser.state \in FieldState
    PROVE  /\ marks = OpenElement(parser.state) /\ parser \in ParserRec /\ body \in BodyRec
           /\ LineStory(parser.state, parser.flags, mon) /\ nread \in 0..Many /\ mon # "wrong"
           /\ LineLength(parser.flags, parser.content_length, body)
<1>1. /\ MarksAt(parser.state, marks) /\ StoryAt(parser.state, parser.flags, mon)
      /\ LengthAt(parser.state, parser.flags, parser.content_length, body)
      /\ parser \in ParserRec /\ body \in BodyRec /\ nread \in 0..Many /\ mon # "wrong"
    BY Zenon DEF ParserInv, Sound
<1>2. marks = OpenElement(parser.state)
    BY Zenon, <1>1 DEF MarksAt, FieldState, BetweenLines, BeforeValue, AfterValue, DataState
<1> QED BY Zenon, <1>1, <1>2, FieldStory, FieldLength

\* A pass from a state of a header line to another, without a callback.
LEMMA FieldKeeps ==
    ASSUME ParserInv, incall, NEW f, NEW s \in FieldState,
           f.p \in ParserRec, f.p.state = s, f.n = nread, f.b \in BodyRec,
           f.m = OpenElement(s), LineStory(s, f.p.flags, mon),
           LineLength(f.p.flags, f.p.content_length, f.b),
           WordAt(s, f.p.header_state, f.p.flags), Break(f) \/ Reexecute(f)
    PROVE  ParserInv'
<1>1. nread \in 0..Many /\ mon # "wrong"
    BY Zenon DEF ParserInv, Sound
<1>2. Fine(f, mon)
    BY Zenon, <1>1, FieldStory, FieldFlags, FieldLength DEF Fine, Sound
<1>3. MarksAt(s, f.m)
    BY DEF MarksAt, OpenElement
<1>4. PendAt(s, f.m, f.b, mon) /\ s # "s_chunk_size_start"
    BY Zenon, FieldStateFacts DEF PendAt
<1>5. Set(f) /\ mon' = mon /\ UNCHANGED <<incall, again, eof>>
    BY Zenon DEF Break, Reexecute
<1> QED BY Zenon, <1>2, <1>3, <1>4, <1>5, StepKeeps

\* The same when only the state changes.
LEMMA FieldMoveKeeps ==
    ASSUME ParserInv, incall, parser.state \in FieldState, NEW s \in FieldState,
           s # "s_header_value", OpenElement(parser.state) = OpenElement(s),
           LineStory(s, parser.flags, mon), Break(To(s)) \/ Reexecute(To(s))
    PROVE  ParserInv'
<1>1. MovesOnly(To(s), s)
    BY Zenon, ToMovesOnly, FieldStateFacts DEF ParserInv, Sound
<1> DEFINE f == To(s)
<1>2. MovesOnly(f, s) /\ (Break(f) \/ Reexecute(f))
    BY Zenon, <1>1
<1> HIDE DEF f
<1> QED BY Zenon, <1>2, FieldMarks, FieldKeeps DEF MovesOnly, WordAt

LEMMA HeaderFieldStartKeeps == ParserInv /\ HeaderFieldStart => ParserInv'
<1> SUFFICES ASSUME ParserInv, HeaderFieldStart PROVE ParserInv'
    BY Zenon
<1>1. /\ incall /\ parser.state = "s_header_field_start" /\ parser.state \in FieldState
      /\ "s_header_field" \in FieldState /\ "s_headers_almost_done" \in FieldState
    BY Zenon DEF HeaderFieldStart, At_, FieldState, BetweenLines
<1>2. /\ OpenElement("s_header_field_start") = {} /\ OpenElement("s_headers_almost_done") = {}
      /\ OpenElement("s_header_field") = {"header_field"}
    BY Zenon DEF OpenElement, SchemaState, UrlState
<1>3. /\ marks = {} /\ parser \in ParserRec /\ body \in BodyRec
      /\ mon \in {LineTold(parser.flags), ValueTold(parser.flags)}
      /\ LineLength(parser.flags, parser.content_length, body)
    BY Zenon, <1>1, <1>2, FieldMarks DEF LineStory, BetweenLines
<1>4. CASE Break(To("s_headers_almost_done")) \/ Reexecute(To("s_headers_almost_done"))
  <2>1. LineStory("s_headers_almost_done", parser.flags, mon)
      BY Zenon, <1>3 DEF LineStory, BetweenLines, BeforeValue, AfterValue
  <2> QED BY Zenon, <1>1, <1>2, <1>4, <2>1, FieldMoveKeeps
<1>5. CASE /\ ch \in {"c", "t", "u", "x"}
           /\ Break([MARK(To("s_header_field"), "header_field")
                       EXCEPT !.p.header_state = s_header_field_start(ch).header_state])
  <2> DEFINE h == s_header_field_start(ch).header_state
             q == [parser EXCEPT !.state = "s_header_field"]
             f == [MARK(To("s_header_field"), "header_field") EXCEPT !.p.header_state = h]
  <2>1. h \in Words
      BY Zenon, <1>5 DEF s_header_field_start, Words, ValueWords
  <2>2. Break(f)
      BY Zenon, <1>5
  <2> HIDE DEF h
  <2>3. /\ f.p = [q EXCEPT !.header_state = h] /\ f.n = nread /\ f.b = body
        /\ f.m = marks \cup {"header_field"}
      BY Zenon DEF MARK, To, Here
  <2> HIDE DEF f
  <2>4. q \in ParserRec
      BY Zenon, <1>1, <1>3, PutState, FieldStateFacts
  <2>5. f.p \in ParserRec
    <3> HIDE DEF q
    <3> QED BY Zenon, <2>1, <2>3, <2>4, PutWord
  <2>6. /\ f.p.state = "s_header_field" /\ f.p.flags = parser.flags
        /\ f.p.content_length = parser.content_length
      BY ONLY Zenon, <1>3, <2>3 DEF ParserRec
  <2>7. LineStory("s_header_field", parser.flags, mon)
      BY Zenon, <1>3 DEF LineStory, BetweenLines, BeforeValue, AfterValue
  <2> QED BY ZenonT(60), <1>1, <1>2, <1>3, <2>2, <2>3, <2>5, <2>6, <2>7, FieldKeeps DEF WordAt
<1> QED BY Zenon, <1>1, <1>4, <1>5, FailKeeps DEF HeaderFieldStart, Errors

\* A field or a value has come to its end.
LEMMA FieldEndKeeps ==
    ASSUME ParserInv, incall, parser.state \in {"s_header_field", "s_header_value"},
           NEW kind, OpenElement(parser.state) = {kind},
           NEW s \in {"s_header_value_discard_ws", "s_header_almost_done"},
           s = "s_header_value_discard_ws" <=> kind = "header_field",
           NEW after, after # "return", DataCallback(kind, To(s), after)
    PROVE  ParserInv'
<1>1. parser.state \in FieldState /\ s \in FieldState
    BY Zenon DEF FieldState, BeforeValue, AfterValue
<1>2. /\ LineStory(parser.state, parser.flags, mon) /\ parser \in ParserRec
      /\ LineLength(parser.flags, parser.content_length, body)
    BY Zenon, <1>1, FieldMarks
<1>3. IsFrame(To(s)) /\ MovesOnly(To(s), s) /\ s \in States
    BY Zenon, <1>1, <1>2, ToFrame, ToMovesOnly, FieldStateFacts
<1>4. /\ kind \in {"header_field", "header_value"}
      /\ parser.state = "s_header_field" <=> kind = "header_field"
    BY Zenon DEF OpenElement, SchemaState, UrlState
<1>5. Told(kind) = IF kind = "header_field" THEN FieldTold(parser.flags) ELSE ValueTold(parser.flags)
  <2>1. CASE "F_TRAILING" \in parser.flags
      BY <1>2, <1>4, <2>1, ToldIs DEF LineStory, LineTold, FieldTold, ValueTold
  <2>2. CASE "F_TRAILING" \notin parser.flags
      BY <1>2, <1>4, <2>2, ToldIs DEF LineStory, LineTold, FieldTold, ValueTold
  <2> QED BY Zenon, <2>1, <2>2
<1>6. Told(kind) # "wrong"
    BY Zenon, <1>5 DEF FieldTold, ValueTold
<1>7. LineStory(s, parser.flags, Told(kind))
    BY Zenon, <1>4, <1>5 DEF LineStory, BetweenLines, BeforeValue, AfterValue
<1>8. OpenElement(s) = {} /\ s \notin DataState \cup {"s_chunk_size_start"}
    BY Zenon DEF OpenElement, SchemaState, UrlState, DataState
<1>9. WordAt(s, parser.header_state, parser.flags)
    BY Zenon DEF WordAt
<1>10. /\ StoryAt(s, parser.flags, Told(kind)) /\ FlagsAt(s, parser.flags)
       /\ LengthAt(s, parser.flags, parser.content_length, body)
    BY Zenon, <1>1, <1>2, <1>7, FieldStory, FieldFlags, FieldLength
<1>11. kind # "body"
    BY Zenon, <1>4
<1> QED BY Zenon, <1>3, <1>6, <1>8, <1>9, <1>10, <1>11, ElementKeeps

\* A byte inside a field or a value that is more of its word.
LEMMA WordKeeps ==
    ASSUME ParserInv, incall, parser.state \in {"s_header_field", "s_header_value"},
           NEW h \in Words, WordAt(parser.state, h, parser.flags),
           Break([Here EXCEPT !.p.header_state = h])
    PROVE  ParserInv'
<1>1. parser.state \in FieldState
    BY Zenon DEF FieldState
<1> DEFINE f == [Here EXCEPT !.p.header_state = h]
<1>2. /\ f.p = [parser EXCEPT !.header_state = h] /\ f.n = nread /\ f.b = body /\ f.m = marks
      /\ Break(f)
    BY Zenon DEF Here
<1> HIDE DEF f
<1>3. parser \in ParserRec
    BY Zenon, <1>1, FieldMarks
<1>4. f.p \in ParserRec
    BY Zenon, <1>2, <1>3, PutWord
<1>5. /\ f.p.state = parser.state /\ f.p.flags = parser.flags /\ f.p.header_state = h
      /\ f.p.content_length = parser.content_length
    BY ONLY Zenon, <1>2, <1>3 DEF ParserRec
<1> QED BY Zenon, <1>1, <1>2, <1>4, <1>5, FieldMarks, FieldKeeps

LEMMA HeaderFieldKeeps == ParserInv /\ HeaderField => ParserInv'
<1> SUFFICES ASSUME ParserInv, HeaderField PROVE ParserInv'
    BY Zenon
<1>1. incall /\ parser.state = "s_header_field" /\ OpenElement(parser.state) = {"header_field"}
    BY Zenon DEF HeaderField, At_, OpenElement, SchemaState, UrlState
<1>2. CASE DataCallback("header_field", To("s_header_value_discard_ws"), "advance")
    BY Zenon, <1>1, <1>2, FieldEndKeeps
<1>3. CASE Fail("INVALID_HEADER_TOKEN")
    BY Zenon, <1>1, <1>3, FailKeeps DEF Errors
<1>4. ASSUME NEW h \in Words, Break([Here EXCEPT !.p.header_state = h]) PROVE ParserInv'
    BY Zenon, <1>1, <1>4, WordKeeps DEF WordAt
<1> DEFINE h == parser.header_state
           next == CASE h = "h_C" /\ ch = "onnection" -> "h_connection"
                     [] h = "h_C" /\ ch = "ontent-length" -> "h_content_length"
                     [] h \in DOMAIN Complete /\ ch = "rest" -> Complete[h]
                     [] OTHER -> "h_general"
<1>5. next \in Words
    BY DEF Complete, Words, ValueWords
<1>6. \/ DataCallback("header_field", To("s_header_value_discard_ws"), "advance")
      \/ Fail("INVALID_HEADER_TOKEN") \/ Break([Here EXCEPT !.p.header_state = next])
    BY Zenon DEF HeaderField
<1> HIDE DEF next
<1> QED BY Zenon, <1>2, <1>3, <1>4, <1>5, <1>6

\* The flags a header line sets leave F_TRAILING and F_CONTENTLENGTH alone.
LEMMA FlagOfIs ==
    \A h : FlagOf(h) \subseteq Flags /\ "F_TRAILING" \notin FlagOf(h) /\ "F_CONTENTLENGTH" \notin FlagOf(h)
  BY Zenon DEF FlagOf, Flags

LEMMA SameLine ==
    ASSUME NEW fl, NEW g, "F_TRAILING" \notin g, "F_CONTENTLENGTH" \notin g, NEW s, NEW o,
           NEW len, NEW b
    PROVE  /\ LineStory(s, fl \cup g, o) <=> LineStory(s, fl, o)
           /\ LineLength(fl \cup g, len, b) <=> LineLength(fl, len, b)
           /\ LineTold(fl \cup g) = LineTold(fl) /\ FieldTold(fl \cup g) = FieldTold(fl)
           /\ ValueTold(fl \cup g) = ValueTold(fl)
<1>1. /\ LineTold(fl \cup g) = LineTold(fl) /\ FieldTold(fl \cup g) = FieldTold(fl)
      /\ ValueTold(fl \cup g) = ValueTold(fl)
    BY Zenon DEF LineTold, FieldTold, ValueTold
<1>2. LineLength(fl \cup g, len, b) <=> LineLength(fl, len, b)
    BY Zenon DEF LineLength
<1> QED BY Zenon, <1>1, <1>2 DEF LineStory

\* A new word and more flags, in state s of a header line.
LEMMA WordFlagsKeeps ==
    ASSUME ParserInv, incall, parser.state \in FieldState, NEW s \in FieldState, NEW h \in Words,
           NEW g \in SUBSET Flags, "F_TRAILING" \notin g, "F_CONTENTLENGTH" \notin g,
           LineStory(s, parser.flags, mon), WordAt(s, h, parser.flags \cup g),
           NEW f, f.p = [parser EXCEPT !.state = s, !.header_state = h, !.flags = @ \cup g],
           f.n = nread, f.b = body, f.m = OpenElement(s), Break(f) \/ Reexecute(f)
    PROVE  ParserInv'
<1>1. /\ parser \in ParserRec /\ body \in BodyRec
      /\ LineLength(parser.flags, parser.content_length, body)
    BY Zenon, FieldMarks
<1> DEFINE q == [parser EXCEPT !.state = s]
           r == [q EXCEPT !.header_state = h]
<1>2. q \in ParserRec
    BY Zenon, <1>1, PutState, FieldStateFacts
<1>3. r \in ParserRec
  <2> HIDE DEF q
  <2> QED BY Zenon, <1>2, PutWord
<1>4. f.p = [r EXCEPT !.flags = parser.flags \cup g] /\ parser.flags \cup g \in SUBSET Flags
    BY Zenon, <1>1 DEF ParserRec
<1>5. f.p \in ParserRec
  <2> HIDE DEF r
  <2> QED BY ZenonT(60), <1>3, <1>4, PutFlags
<1>6. /\ f.p.state = s /\ f.p.header_state = h /\ f.p.flags = parser.flags \cup g
      /\ f.p.content_length = parser.content_length
    BY ONLY Zenon, <1>1, <1>4 DEF ParserRec
<1>7. LineStory(s, f.p.flags, mon) /\ LineLength(f.p.flags, f.p.content_length, f.b)
    BY Zenon, <1>1, <1>6, SameLine
<1> QED BY Zenon, <1>1, <1>5, <1>6, <1>7, FieldKeeps

LEMMA TokenStartIs ==
    \A c, other : other \in ValueWords \ {"h_content_length_num"} =>
      TokenStart(c, other) \in ValueWords \ {"h_content_length_num"}
  BY DEF TokenStart, ValueWords

\* The value begins, or goes on in the next line.
LEMMA ValueStartKeeps ==
    ASSUME ParserInv, incall,
           parser.state \in {"s_header_value_discard_ws", "s_header_value_start"}, ValueStart
    PROVE  ParserInv'
<1>1. parser.state \in FieldState /\ "s_header_value" \in FieldState
    BY Zenon DEF FieldState, BeforeValue, AfterValue
<1>2. /\ marks = {} /\ OpenElement("s_header_value") = {"header_value"}
      /\ parser \in ParserRec /\ body \in BodyRec
      /\ LineStory(parser.state, parser.flags, mon)
      /\ LineLength(parser.flags, parser.content_length, body)
    BY Zenon, <1>1, FieldMarks DEF OpenElement, SchemaState, UrlState
<1>3. mon \in {FieldTold(parser.flags), ValueTold(parser.flags)}
    BY Zenon, <1>2 DEF LineStory, BeforeValue, AfterValue
<1>4. \A fl : mon \in {FieldTold(fl), ValueTold(fl)} => LineStory("s_header_value", fl, mon)
    BY Zenon DEF LineStory, BetweenLines, BeforeValue, AfterValue
<1> DEFINE h == parser.header_state
           mf == MARK(To("s_header_value"), "header_value")
           next == CASE h = "h_transfer_encoding" /\ ch = "c" -> "h_matching_transfer_encoding_chunked"
                     [] h = "h_connection" -> TokenStart(ch, "h_matching_connection_token")
                     [] h \in {"h_content_length_ws", "h_matching_connection_token_start"} -> h
                     [] OTHER -> "h_general"
           g == IF h = "h_upgrade" THEN {"F_UPGRADE"} ELSE {}
<1>5. CASE h # "h_content_length"
  <2> DEFINE f == [mf EXCEPT !.p.header_state = next, !.p.flags = @ \cup g]
  <2>1. Break(f)
      BY Zenon, <1>5 DEF ValueStart
  <2>2. next \in ValueWords \ {"h_content_length_num"}
    <3>1. "h_matching_connection_token" \in ValueWords \ {"h_content_length_num"}
        BY Zenon DEF ValueWords
    <3>2. TokenStart(ch, "h_matching_connection_token") \in ValueWords \ {"h_content_length_num"}
        BY Zenon, <3>1, TokenStartIs
    <3> QED BY Zenon, <3>2 DEF ValueWords
  <2>3. g \in SUBSET Flags /\ "F_TRAILING" \notin g /\ "F_CONTENTLENGTH" \notin g
      BY Zenon DEF Flags
  <2> HIDE DEF next, g
  <2>4. /\ f.p = [parser EXCEPT !.state = "s_header_value", !.header_state = next,
                                !.flags = @ \cup g]
        /\ f.n = nread /\ f.b = body /\ f.m = marks \cup {"header_value"}
      BY Zenon DEF MARK, To, Here
  <2>5. next \in Words /\ WordAt("s_header_value", next, parser.flags \cup g)
      BY Zenon, <2>2 DEF Words, WordAt
  <2> HIDE DEF f
  <2>6. f.m = OpenElement("s_header_value") /\ LineStory("s_header_value", parser.flags, mon)
      BY <1>2, <1>3, <1>4, <2>4
  <2> QED BY Zenon, <1>1, <2>1, <2>3, <2>4, <2>5, <2>6, WordFlagsKeeps
<1>6. CASE /\ h = "h_content_length" /\ ch \in Num /\ "F_CONTENTLENGTH" \notin parser.flags
  <2> DEFINE d == DigitValue[ch]
             b == [announced |-> d, got |-> 0, pend |-> 0]
             f == [mf EXCEPT !.p.header_state = "h_content_length_num",
                             !.p.flags = @ \cup {"F_CONTENTLENGTH"},
                             !.p.content_length = DigitValue[ch],
                             !.b = [announced |-> DigitValue[ch], got |-> 0, pend |-> 0]]
             q == [parser EXCEPT !.state = "s_header_value"]
             r == [q EXCEPT !.header_state = "h_content_length_num"]
             fl == parser.flags \cup {"F_CONTENTLENGTH"}
             u == [r EXCEPT !.flags = fl]
  <2>1. Break(f)
      BY Zenon, <1>6 DEF ValueStart
  <2>2. f.p = [parser EXCEPT !.state = "s_header_value", !.header_state = "h_content_length_num",
                             !.flags = @ \cup {"F_CONTENTLENGTH"}, !.content_length = d]
      BY ZenonT(60) DEF MARK, To, Here
  <2>3. f.n = nread /\ f.b = b /\ f.m = marks \cup {"header_value"}
      BY Zenon DEF MARK, To, Here
  <2> HIDE DEF f
  <2>4. d \in 0..9 /\ d \in 0..ULLONG_MAX /\ d \in Nat
      BY <1>6, DigitType, ParserAssumption
  <2>5. q \in ParserRec
      BY Zenon, <1>1, <1>2, PutState, FieldStateFacts
  <2>6. r \in ParserRec
    <3>1. "h_content_length_num" \in Words
        BY Zenon DEF Words, ValueWords
    <3> HIDE DEF q
    <3> QED BY Zenon, <2>5, <3>1, PutWord
  <2>7. fl \in SUBSET Flags
      BY Zenon, <1>2 DEF ParserRec, Flags
  <2>8. u \in ParserRec
    <3> HIDE DEF r
    <3> QED BY Zenon, <2>6, <2>7, PutFlags
  <2> HIDE DEF d
  <2>9. f.p = [u EXCEPT !.content_length = d]
      BY Zenon, <1>2, <2>2 DEF ParserRec
  <2>10. f.p \in ParserRec
    <3> HIDE DEF u
    <3> QED BY Zenon, <2>4, <2>8, <2>9, PutLength
  <2>11. /\ f.p.state = "s_header_value" /\ f.p.header_state = "h_content_length_num"
         /\ f.p.flags = fl /\ f.p.content_length = d
      BY ONLY <1>2, <2>2 DEF ParserRec
  <2>12. mon \in {FieldTold(fl), ValueTold(fl)}
      BY Zenon, <1>3 DEF FieldTold, ValueTold
  <2>13. /\ b \in BodyRec /\ LineLength(fl, d, b)
         /\ WordAt("s_header_value", "h_content_length_num", fl)
      BY Zenon, <2>4 DEF BodyRec, LineLength, WordAt, ValueWords
  <2> HIDE DEF b, fl
  <2>14. f.m = OpenElement("s_header_value") /\ LineStory("s_header_value", fl, mon)
      BY <1>2, <1>4, <2>3, <2>12
  <2> QED BY Zenon, <1>1, <2>1, <2>3, <2>10, <2>11, <2>13, <2>14, FieldKeeps
<1>7. CASE Fail("INVALID_CONTENT_LENGTH") \/ Fail("UNEXPECTED_CONTENT_LENGTH")
    BY Zenon, <1>7, FailKeeps DEF Errors
<1> QED BY Zenon, <1>5, <1>6, <1>7 DEF ValueStart

LEMMA HeaderValueDiscardWsKeeps == ParserInv /\ HeaderValueDiscardWs => ParserInv'
<1> SUFFICES ASSUME ParserInv, HeaderValueDiscardWs PROVE ParserInv'
    BY Zenon
<1>1. /\ incall /\ parser.state \in {"s_header_value_discard_ws", "s_header_value_start"}
      /\ parser.state \in FieldState
    BY Zenon DEF HeaderValueDiscardWs, At_, FieldState, BeforeValue, AfterValue
<1>2. CASE ValueStart
    BY Zenon, <1>1, <1>2, ValueStartKeeps
<1>3. CASE Break(Here)
    BY Zenon, <1>1, <1>3, HereKeeps DEF DataState
<1>4. ASSUME NEW s \in {"s_header_value_discard_ws_almost_done", "s_header_value_discard_lws"},
             parser.state = "s_header_value_discard_ws", Break(To(s))
      PROVE  ParserInv'
  <2>1. s \in FieldState /\ OpenElement(s) = OpenElement(parser.state)
      BY Zenon, <1>4 DEF FieldState, BeforeValue, OpenElement, SchemaState, UrlState
  <2>2. LineStory(parser.state, parser.flags, mon)
      BY Zenon, <1>1, FieldMarks
  <2>3. LineStory(s, parser.flags, mon)
      BY Zenon, <1>4, <2>2 DEF LineStory, BetweenLines, BeforeValue, AfterValue
  <2> QED BY Zenon, <1>1, <1>4, <2>1, <2>3, FieldMoveKeeps
<1> QED BY Zenon, <1>2, <1>3, <1>4 DEF HeaderValueDiscardWs, At_

\* The arithmetic of the lengths: the test in front of a further digit keeps the length
\* below ULLONG_MAX, so the product does not wrap.
LEMMA SmallMod == \A a \in Nat, m \in Nat : a < m => a % m = a
  OBVIOUS

LEMMA DigitFits ==
    \A r \in {10, 16}, len \in Nat, d \in 0..10 :
      ~((ULLONG_MAX - r) \div r < len) /\ d < r =>
        /\ len * r + d \in 0..(ULLONG_MAX - 1)
        /\ (len * r + d) % (ULLONG_MAX + 1) = len * r + d
<1> DEFINE M == ULLONG_MAX
<1>0. M \in Nat /\ M > 15
    BY ParserAssumption
<1> HIDE DEF M
<1>1. \A len \in Nat, d \in 0..10 :
        ~((M - 10) \div 10 < len) /\ d < 10 => len * 10 + d \in 0..(M - 1)
    BY <1>0
<1>2. \A len \in Nat, d \in 0..10 : ~((M - 16) \div 16 < len) => len * 16 + d \in 0..(M - 1)
    BY <1>0
<1>3. \A a \in 0..(M - 1) : a % (M + 1) = a
    BY <1>0, SmallMod
<1> QED BY Zenon, <1>1, <1>2, <1>3 DEF M

\* One more digit of a length, in a state where the length is what is announced.
LEMMA MoreDigitsFrame ==
    ASSUME parser \in ParserRec, body \in BodyRec, body.announced = parser.content_length,
           NEW r \in {10, 16}, NEW d \in 0..10, d < r, NEW e, MoreDigits(r, d, e), ~Fail(e)
    PROVE  \E f : /\ Break(f) /\ f.n = nread /\ f.m = marks
                  /\ f.p \in ParserRec /\ f.p.state = parser.state /\ f.p.flags = parser.flags
                  /\ f.p.header_state = parser.header_state
                  /\ f.p.content_length < ULLONG_MAX
                  /\ f.b \in BodyRec /\ f.b.announced = f.p.content_length
                  /\ f.b.got = body.got /\ f.b.pend = body.pend
<1> DEFINE len == parser.content_length
           n == len * r + d
           f == [Here EXCEPT !.p.content_length = (@ * r + d) % (ULLONG_MAX + 1),
                             !.b.announced = @ * r + d]
<1>1. len \in Nat /\ len \in 0..ULLONG_MAX
    BY ParserAssumption DEF ParserRec
<1>2. ~((ULLONG_MAX - r) \div r < len) /\ Break(f)
    BY Zenon DEF MoreDigits
<1>3. n \in 0..(ULLONG_MAX - 1) /\ n % (ULLONG_MAX + 1) = n
    BY <1>1, <1>2, DigitFits
<1>4. f.p = [parser EXCEPT !.content_length = n % (ULLONG_MAX + 1)] /\ f.n = nread /\ f.m = marks
    BY Zenon DEF Here
<1>5. f.b = [body EXCEPT !.announced = n]
    BY Zenon DEF Here
<1> HIDE DEF f, n
<1>6. n \in 0..ULLONG_MAX /\ n < ULLONG_MAX /\ n \in Nat
    BY <1>3, ParserAssumption
<1>7. f.p = [parser EXCEPT !.content_length = n]
    BY Zenon, <1>3, <1>4
<1>8. f.p \in ParserRec
    BY ZenonT(60), <1>6, <1>7, PutLength
<1>9. /\ f.p.state = parser.state /\ f.p.flags = parser.flags
      /\ f.p.header_state = parser.header_state /\ f.p.content_length = n
    BY ONLY Zenon, <1>7, parser \in ParserRec DEF ParserRec
<1>10. /\ f.b \in BodyRec /\ f.b.announced = n /\ f.b.got = body.got /\ f.b.pend = body.pend
    BY Zenon, <1>5, <1>6 DEF BodyRec
<1> QED BY Zenon, <1>2, <1>4, <1>6, <1>8, <1>9, <1>10

LEMMA NextValueIs ==
    ASSUME NEW h \in ValueWords, NEW c
    PROVE  NextValue(h, c) \in ValueWords \ {"h_content_length_num"}
<1> DEFINE Ends == {"h_connection_keep_alive", "h_connection_close", "h_connection_upgrade"}
<1>0. /\ DOMAIN Complete \cap Ends = {}
      /\ {"h_transfer_encoding_chunked", "h_matching_connection_token_start",
          "h_matching_connection_token"} \cap (DOMAIN Complete \cup Ends) = {}
    BY Zenon DEF Complete
<1>1. CASE h \in DOMAIN Complete
  <2>1. NextValue(h, c) = IF c = "rest" THEN Complete[h]
                          ELSE IF h = "h_matching_transfer_encoding_chunked" THEN "h_general"
                          ELSE "h_matching_connection_token"
      BY Zenon, <1>0, <1>1 DEF NextValue
  <2>2. Complete[h] \in ValueWords \ {"h_content_length_num"}
      BY <1>1 DEF Complete, ValueWords
  <2>3. {"h_general", "h_matching_connection_token"} \subseteq ValueWords \ {"h_content_length_num"}
      BY Zenon DEF ValueWords
  <2> QED BY Zenon, <2>1, <2>2, <2>3
<1>2. CASE h = "h_transfer_encoding_chunked"
    BY Zenon, <1>0, <1>2 DEF NextValue, ValueWords
<1>3. CASE h = "h_matching_connection_token_start"
  <2> DEFINE other == CASE c = "SP" -> h [] c = "," -> "h_general"
                        [] OTHER -> "h_matching_connection_token"
  <2>1. other \in ValueWords \ {"h_content_length_num"}
      BY Zenon, <1>3 DEF ValueWords
  <2>2. NextValue(h, c) = TokenStart(c, other)
      BY Zenon, <1>0, <1>3 DEF NextValue
  <2> HIDE DEF other
  <2> QED BY Zenon, <2>1, <2>2, TokenStartIs
<1>4. CASE h = "h_matching_connection_token"
    BY Zenon, <1>0, <1>4 DEF NextValue, ValueWords
<1>5. CASE h \in Ends
    BY Zenon, <1>0, <1>5 DEF NextValue, ValueWords
<1>6. CASE h \notin DOMAIN Complete \cup Ends
             \cup {"h_transfer_encoding_chunked", "h_matching_connection_token_start",
                   "h_matching_connection_token"}
    BY Zenon, <1>6 DEF NextValue, ValueWords
<1> QED BY Zenon, <1>1, <1>2, <1>3, <1>4, <1>5, <1>6

LEMMA HeaderValueKeeps == ParserInv /\ HeaderValue => ParserInv'
<1> SUFFICES ASSUME ParserInv, HeaderValue PROVE ParserInv'
    BY Zenon
<1>1. /\ incall /\ parser.state = "s_header_value" /\ parser.state \in FieldState
      /\ OpenElement(parser.state) = {"header_value"}
    BY Zenon DEF HeaderValue, At_, OpenElement, SchemaState, UrlState, FieldState
<1> DEFINE h == parser.header_state
<1>2. /\ parser \in ParserRec /\ body \in BodyRec /\ marks = OpenElement(parser.state)
      /\ LineStory(parser.state, parser.flags, mon)
      /\ LineLength(parser.flags, parser.content_length, body)
    BY Zenon, <1>1, FieldMarks
<1>3. h \in ValueWords /\ (h = "h_content_length_num" => "F_CONTENTLENGTH" \in parser.flags)
    BY Zenon, <1>1 DEF ParserInv, Sound, WordAt
<1>4. ASSUME NEW after \in {"advance", "stay"},
             DataCallback("header_value", To("s_header_almost_done"), after)
      PROVE  ParserInv'
    BY Zenon, <1>1, <1>4, FieldEndKeeps
<1>5. CASE Fail("INVALID_HEADER_TOKEN") \/ Fail("INVALID_CONTENT_LENGTH")
    BY Zenon, <1>1, <1>5, FailKeeps DEF Errors
<1>6. CASE Break(Here)
    BY Zenon, <1>1, <1>6, HereKeeps DEF DataState
<1>7. CASE Break([Here EXCEPT !.p.header_state = "h_content_length_ws"])
  <2>1. "h_content_length_ws" \in Words /\ WordAt(parser.state, "h_content_length_ws", parser.flags)
      BY Zenon DEF Words, ValueWords, WordAt
  <2> QED BY Zenon, <1>1, <1>7, <2>1, WordKeeps
<1>8. CASE /\ h = "h_content_length_num" /\ ch \in Num
           /\ MoreDigits(10, DigitValue[ch], "INVALID_CONTENT_LENGTH")
           /\ ~Fail("INVALID_CONTENT_LENGTH")
  <2>1. "F_CONTENTLENGTH" \in parser.flags
      BY Zenon, <1>3, <1>8
  <2>2. body.announced = parser.content_length /\ body.got = 0 /\ body.pend = 0
      BY Zenon, <1>2, <2>1 DEF LineLength
  <2>3. DigitValue[ch] \in 0..10 /\ DigitValue[ch] < 10
      BY <1>8, DigitType
  <2>4. PICK f : /\ Break(f) /\ f.n = nread /\ f.m = marks
                 /\ f.p \in ParserRec /\ f.p.state = parser.state /\ f.p.flags = parser.flags
                 /\ f.p.header_state = parser.header_state
                 /\ f.p.content_length < ULLONG_MAX
                 /\ f.b \in BodyRec /\ f.b.announced = f.p.content_length
                 /\ f.b.got = body.got /\ f.b.pend = body.pend
      BY Zenon, <1>2, <1>8, <2>2, <2>3, MoreDigitsFrame
  <2>5. LineLength(f.p.flags, f.p.content_length, f.b)
      BY Zenon, <2>1, <2>2, <2>4 DEF LineLength
  <2>6. WordAt(parser.state, f.p.header_state, f.p.flags)
      BY Zenon, <1>3, <2>4 DEF WordAt
  <2> QED BY Zenon, <1>1, <1>2, <2>4, <2>5, <2>6, FieldKeeps
<1>9. CASE Break([Here EXCEPT !.p.header_state = NextValue(h, ch),
                    !.p.flags = @ \cup IF ch = "," /\ h # "h_transfer_encoding_chunked"
                                       THEN FlagOf(h) ELSE {}])
  <2> DEFINE g == IF ch = "," /\ h # "h_transfer_encoding_chunked" THEN FlagOf(h) ELSE {}
             n == NextValue(h, ch)
             f == [Here EXCEPT !.p.header_state = n, !.p.flags = @ \cup g]
  <2>1. Break(f)
      BY Zenon, <1>9
  <2>2. g \in SUBSET Flags /\ "F_TRAILING" \notin g /\ "F_CONTENTLENGTH" \notin g
      BY Zenon, FlagOfIs
  <2>3. n \in Words /\ WordAt(parser.state, n, parser.flags \cup g)
      BY Zenon, <1>3, NextValueIs DEF Words, WordAt
  <2> HIDE DEF g, n
  <2>4. f.p = [parser EXCEPT !.header_state = n, !.flags = @ \cup g]
        /\ f.n = nread /\ f.b = body /\ f.m = marks
      BY Zenon DEF Here
  <2>5. f.p = [parser EXCEPT !.state = parser.state, !.header_state = n, !.flags = @ \cup g]
      BY Zenon, <1>2, <2>4 DEF ParserRec
  <2> HIDE DEF f
  <2>6. f.m = OpenElement(parser.state)
      BY Zenon, <1>2, <2>4
  <2> QED BY Zenon, <1>1, <1>2, <2>1, <2>2, <2>3, <2>4, <2>5, <2>6, WordFlagsKeeps
<1> QED BY Zenon, <1>4, <1>5, <1>6, <1>7, <1>8, <1>9 DEF HeaderValue

LEMMA HeaderValueLwsKeeps == ParserInv /\ HeaderValueLws => ParserInv'
<1> SUFFICES ASSUME ParserInv, HeaderValueLws PROVE ParserInv'
    BY Zenon
<1>1. /\ incall /\ parser.state = "s_header_value_lws" /\ parser.state \in FieldState
      /\ "s_header_value_start" \in FieldState /\ "s_header_field_start" \in FieldState
    BY Zenon DEF HeaderValueLws, At_, FieldState, AfterValue, BetweenLines
<1>2. /\ OpenElement("s_header_value_start") = {} /\ OpenElement("s_header_field_start") = {}
      /\ OpenElement(parser.state) = {}
    BY Zenon, <1>1 DEF OpenElement, SchemaState, UrlState
<1>3. /\ parser \in ParserRec /\ parser.header_state \in Words /\ marks = {}
      /\ mon = ValueTold(parser.flags)
    BY Zenon, <1>1, <1>2, FieldMarks DEF LineStory, AfterValue, ParserRec
<1>4. /\ LineStory("s_header_value_start", parser.flags, mon)
      /\ LineStory("s_header_field_start", parser.flags, mon)
    BY Zenon, <1>3 DEF LineStory, BetweenLines, BeforeValue, AfterValue
<1>5. ASSUME NEW h \in Words, Reexecute([To("s_header_value_start") EXCEPT !.p.header_state = h])
      PROVE  ParserInv'
  <2> DEFINE f == [To("s_header_value_start") EXCEPT !.p.header_state = h]
  <2>1. f.p = [parser EXCEPT !.state = "s_header_value_start", !.header_state = h]
        /\ f.n = nread /\ f.b = body /\ f.m = marks
      BY Zenon DEF To, Here
  <2>2. f.p = [parser EXCEPT !.state = "s_header_value_start", !.header_state = h,
                             !.flags = @ \cup {}]
    <3>1. parser.flags \cup {} = parser.flags
        BY Zenon
    <3> DEFINE q == [parser EXCEPT !.state = "s_header_value_start", !.header_state = h]
    <3>2. q = [q EXCEPT !.flags = parser.flags]
        BY Zenon, <1>3 DEF ParserRec
    <3> QED BY Zenon, <2>1, <3>1, <3>2
  <2>3. Reexecute(f)
      BY Zenon, <1>5
  <2>4. WordAt("s_header_value_start", h, parser.flags \cup {})
      BY Zenon DEF WordAt
  <2>5. /\ {} \in SUBSET Flags /\ "F_TRAILING" \notin {} /\ "F_CONTENTLENGTH" \notin {}
        /\ f.m = OpenElement("s_header_value_start")
      BY Zenon, <1>2, <1>3, <2>1
  <2> HIDE DEF f
  <2> QED BY Zenon, <1>1, <1>4, <1>5, <2>1, <2>2, <2>3, <2>4, <2>5, WordFlagsKeeps
<1>6. CASE Reexecute([To("s_header_field_start") EXCEPT
                        !.p.flags = @ \cup FlagOf(parser.header_state)])
  <2> DEFINE g == FlagOf(parser.header_state)
             h == parser.header_state
             f == [To("s_header_field_start") EXCEPT !.p.flags = @ \cup g]
  <2>1. Reexecute(f)
      BY Zenon, <1>6
  <2>2. g \in SUBSET Flags /\ "F_TRAILING" \notin g /\ "F_CONTENTLENGTH" \notin g
      BY Zenon, FlagOfIs
  <2> HIDE DEF g
  <2>3. f.p = [parser EXCEPT !.state = "s_header_field_start", !.flags = @ \cup g]
        /\ f.n = nread /\ f.b = body /\ f.m = marks
      BY Zenon DEF To, Here
  <2>4. f.p = [parser EXCEPT !.state = "s_header_field_start", !.header_state = h,
                             !.flags = @ \cup g]
      BY Zenon, <1>3, <2>3 DEF ParserRec
  <2>5. h \in Words /\ WordAt("s_header_field_start", h, parser.flags \cup g)
        /\ f.m = OpenElement("s_header_field_start")
      BY Zenon, <1>2, <1>3, <2>3 DEF WordAt
  <2> HIDE DEF f, h
  <2> QED BY Zenon, <1>1, <1>4, <2>1, <2>2, <2>3, <2>4, <2>5, WordFlagsKeeps
<1> DEFINE w == IF parser.header_state = "h_content_length_num" THEN "h_content_length_ws"
                ELSE parser.header_state
<1>7. w \in Words
    BY Zenon, <1>3 DEF Words, ValueWords
<1>8. CASE ch = "SP"
  <2>1. Reexecute([To("s_header_value_start") EXCEPT !.p.header_state = w])
    <3>1. MovesOnly(To("s_header_value_start"), "s_header_value_start")
        BY Zenon, <1>1, <1>3, ToMovesOnly, FieldStateFacts
    <3> QED BY Zenon, <1>8, <3>1 DEF HeaderValueLws, MovesOnly
  <2> HIDE DEF w
  <2> QED BY Zenon, <1>5, <1>7, <2>1
<1> QED BY Zenon, <1>6, <1>8 DEF HeaderValueLws

LEMMA HeaderValueDiscardLwsKeeps == ParserInv /\ HeaderValueDiscardLws => ParserInv'
<1> SUFFICES ASSUME ParserInv, HeaderValueDiscardLws PROVE ParserInv'
    BY Zenon
<1>1. /\ incall /\ parser.state = "s_header_value_discard_lws" /\ parser.state \in FieldState
      /\ "s_header_value_discard_ws" \in FieldState /\ "s_header_field_start" \in FieldState
    BY Zenon DEF HeaderValueDiscardLws, At_, FieldState, BeforeValue, BetweenLines
<1>2. /\ OpenElement("s_header_value_discard_ws") = {} /\ OpenElement(parser.state) = {}
      /\ OpenElement("s_header_field_start") = {}
    BY Zenon, <1>1 DEF OpenElement, SchemaState, UrlState
<1>3. /\ parser \in ParserRec /\ body \in BodyRec /\ nread \in 0..Many /\ marks = {}
      /\ mon = FieldTold(parser.flags)
      /\ LineLength(parser.flags, parser.content_length, body)
    BY Zenon, <1>1, <1>2, FieldMarks DEF LineStory, BeforeValue
<1>4. CASE Break(To("s_header_value_discard_ws"))
  <2>1. LineStory("s_header_value_discard_ws", parser.flags, mon)
      BY Zenon, <1>3 DEF LineStory, BetweenLines, BeforeValue, AfterValue
  <2> QED BY Zenon, <1>1, <1>2, <1>4, <2>1, FieldMoveKeeps
<1>5. CASE DataCallback("header_value",
               [MARK(To("s_header_field_start"), "header_value") EXCEPT
                  !.p.flags = @ \cup FlagOf(parser.header_state)], "stay")
  <2> DEFINE s == "s_header_field_start"
             g == FlagOf(parser.header_state)
             fl == parser.flags \cup g
             f == [MARK(To("s_header_field_start"), "header_value") EXCEPT !.p.flags = @ \cup g]
             q == [parser EXCEPT !.state = s]
             k == [f EXCEPT !.m = @ \ {"header_value"},
                            !.b = IF "header_value" = "body" THEN Handed(@) ELSE @]
  <2>1. DataCallback("header_value", f, "stay")
      BY Zenon, <1>5
  <2>2. g \in SUBSET Flags /\ "F_TRAILING" \notin g /\ "F_CONTENTLENGTH" \notin g
      BY Zenon, FlagOfIs
  <2> HIDE DEF g
  <2>3. /\ f.p = [parser EXCEPT !.state = s, !.flags = @ \cup g]
        /\ f.n = nread /\ f.b = body /\ f.m = marks \cup {"header_value"}
      BY Zenon DEF MARK, To, Here
  <2>15. IsFrame(f)
      BY Zenon, MarkFrame, PutFrame
  <2> HIDE DEF f
  <2>4. Callback("header_value", k, "stay")
      BY Zenon, <2>1, <2>3 DEF DataCallback
  <2>5. k.p = f.p /\ k.n = nread /\ k.b = body /\ k.m = {}
      BY Zenon, <1>3, <2>3, <2>15 DEF IsFrame
  <2> HIDE DEF k
  <2>6. q \in ParserRec
      BY Zenon, <1>1, <1>3, PutState, FieldStateFacts
  <2>7. f.p = [q EXCEPT !.flags = fl] /\ fl \in SUBSET Flags
      BY Zenon, <1>3, <2>2, <2>3 DEF ParserRec
  <2>8. f.p \in ParserRec
    <3> HIDE DEF q, fl
    <3> QED BY Zenon, <2>6, <2>7, PutFlags
  <2>9. /\ f.p.state = s /\ f.p.flags = fl /\ f.p.content_length = parser.content_length
      BY ONLY Zenon, <1>3, <2>7 DEF ParserRec
  <2>10. Told("header_value") = ValueTold(parser.flags)
      BY Zenon, <1>3, ToldIs DEF FieldTold, ValueTold
  <2>11. /\ ValueTold(parser.flags) = ValueTold(fl) /\ ValueTold(fl) # "wrong"
         /\ LineLength(fl, parser.content_length, body)
    <3>1. ValueTold(fl) # "wrong"
        BY Zenon DEF ValueTold
    <3> QED BY Zenon, <1>3, <2>2, <3>1, SameLine
  <2>12. LineStory(s, fl, ValueTold(fl)) /\ WordAt(s, f.p.header_state, fl)
      BY Zenon DEF LineStory, BetweenLines, BeforeValue, AfterValue, WordAt
  <2> HIDE DEF fl
  <2>13. Fine(k, ValueTold(fl))
      BY Zenon, <1>1, <1>3, <2>5, <2>8, <2>9, <2>11, <2>12, FieldStory, FieldFlags, FieldLength
         DEF Fine, Sound
  <2>14. PendAt(s, {}, k.b, ValueTold(fl)) /\ s # "s_chunk_size_start"
      BY Zenon DEF PendAt, DataState
  <2>16. /\ k.p.state = s /\ OpenElement(k.p.state) = {}
         /\ Fine(k, Told("header_value")) /\ PendAt(k.p.state, {}, k.b, Told("header_value"))
      BY Zenon, <1>2, <2>5, <2>9, <2>10, <2>11, <2>13, <2>14
  <2> QED BY <1>1, <2>4, <2>5, <2>14, <2>16, CallbackKeeps
<1>6. CASE Fail("INVALID_CONTENT_LENGTH")
    BY Zenon, <1>1, <1>6, FailKeeps DEF Errors
<1> QED BY Zenon, <1>4, <1>5, <1>6 DEF HeaderValueDiscardLws

-----------------------------------------------------------------------------
(* The end of the headers.                                                 *)

LEMMA PutUpgrade == \A p \in ParserRec, u \in BOOLEAN : [p EXCEPT !.upgrade = u] \in ParserRec
  BY DEF ParserRec

\* The struct p, in s_headers_done, when on_headers_complete has been called.
LEMMA DoneSound ==
    ASSUME NEW p \in ParserRec, p.state = "s_headers_done", "F_TRAILING" \notin p.flags,
           ~({"F_CHUNKED", "F_CONTENTLENGTH"} \subseteq p.flags), body \in BodyRec,
           LineLength(p.flags, p.content_length, body)
    PROVE  Sound(p, body, "headers") /\ StoryAt(p.state, p.flags, "headers")
<1>1. FlagsAt("s_headers_done", p.flags)
    BY Zenon DEF FlagsAt, ChunkState, SizeState, SizeRead, DataState
<1>2. LengthAt("s_headers_done", p.flags, p.content_length, body)
    BY Zenon DEF LengthAt, LineLength, SizeRead
<1>3. StoryAt("s_headers_done", p.flags, "headers")
    BY Zenon DEF StoryAt, BegunState, StartState, FirstElement, SchemaState, UrlState,
            LineState, BetweenLines, BeforeValue, AfterValue, SizeState, SizeRead, DataState
<1> QED BY Zenon, <1>1, <1>2, <1>3 DEF Sound, WordAt

LEMMA HeadersCompleteKeeps ==
    ASSUME ParserInv, incall, marks = {}, NEW p \in ParserRec, p.state = "s_headers_done",
           "F_TRAILING" \notin p.flags, ~({"F_CHUNKED", "F_CONTENTLENGTH"} \subseteq p.flags),
           LineLength(p.flags, p.content_length, body), Told("headers_complete") = "headers",
           HeadersComplete(p)
    PROVE  ParserInv'
<1> DEFINE Q(r) == [p EXCEPT !.flags = IF r > 0 THEN @ \cup {"F_SKIPBODY"} ELSE @,
                             !.upgrade = @ \/ r = 2]
<1>1. mon' = "headers" /\ body \in BodyRec /\ nread \in 0..Many
    BY Zenon DEF HeadersComplete, ParserInv, Sound
<1>2. PICK r \in Replies :
        \/ Set([Here EXCEPT !.p = Q(r)]) /\ UNCHANGED <<ch, incall, again, eof, lines>>
        \/ Leave([Q(r) EXCEPT !.errno = "PAUSED", !.nread = nread], body, ch)
        \/ Leave([p EXCEPT !.errno = "CB", !.nread = nread], body, None)
    BY Zenon DEF HeadersComplete
<1> DEFINE fl == IF r > 0 THEN p.flags \cup {"F_SKIPBODY"} ELSE p.flags
           u == p.upgrade \/ r = 2
           v == [p EXCEPT !.flags = fl]
           q == Q(r)
<1>3. fl \in SUBSET Flags /\ u \in BOOLEAN
    BY Zenon DEF ParserRec, Flags
<1>4. q = [v EXCEPT !.upgrade = u]
    BY Zenon DEF ParserRec
<1> HIDE DEF q, Q
<1>5. v \in ParserRec
    BY Zenon, <1>3, PutFlags
<1>6. q \in ParserRec
  <2> HIDE DEF v, u
  <2> QED BY Zenon, <1>3, <1>4, <1>5, PutUpgrade
<1>7. q.state = "s_headers_done" /\ q.flags = fl /\ q.content_length = p.content_length
    BY ONLY Zenon, <1>4, p.state = "s_headers_done", p \in ParserRec DEF ParserRec
<1>8. /\ "F_TRAILING" \notin fl /\ ~({"F_CHUNKED", "F_CONTENTLENGTH"} \subseteq fl)
      /\ LineLength(fl, p.content_length, body)
    BY Zenon DEF LineLength
<1> HIDE DEF fl
<1>9. /\ Sound(q, body, "headers") /\ StoryAt(q.state, q.flags, "headers")
      /\ Sound(p, body, "headers") /\ StoryAt(p.state, p.flags, "headers")
    BY Zenon, <1>1, <1>6, <1>7, <1>8, DoneSound
<1>10. /\ PendAt("s_headers_done", {}, body, "headers") /\ MarksAt("s_headers_done", {})
    BY Zenon DEF PendAt, MarksAt, DataState, OpenElement, SchemaState, UrlState
<1>11. CASE Set([Here EXCEPT !.p = q]) /\ UNCHANGED <<ch, incall, again, eof, lines>>
  <2> DEFINE f == [Here EXCEPT !.p = q]
  <2>1. f.p = q /\ f.n = nread /\ f.m = {} /\ f.b = body
      BY Zenon DEF Here
  <2>2. Set(f) /\ UNCHANGED <<incall, again, eof>>
      BY Zenon, <1>11
  <2> HIDE DEF f
  <2>3. Fine(f, "headers")
      BY Zenon, <1>1, <1>9, <2>1 DEF Fine
  <2> QED BY Zenon, <1>1, <1>7, <1>10, <2>1, <2>2, <2>3, StepKeeps
<1>12. CASE Leave([q EXCEPT !.errno = "PAUSED", !.nread = nread], body, ch)
  <2>1. Leave(Returned(q, "PAUSED", nread), body, ch)
      BY Zenon, <1>12 DEF Returned
  <2> DEFINE t == Returned(q, "PAUSED", nread)
  <2>2. /\ Sound(t, body, "headers") /\ t.state = "s_headers_done" /\ t.flags = q.flags
      BY <1>1, <1>7, <1>9, SoundReturn
  <2> HIDE DEF t
  <2>3. StoryAt(t.state, t.flags, "headers") /\ PendAt(t.state, {}, body, "headers")
      BY Zenon, <1>7, <1>9, <1>10, <2>2
  <2>4. Leave(t, body, ch)
      BY Zenon, <2>1 DEF t
  <2> QED BY Zenon, <1>1, <2>2, <2>3, <2>4, LeaveKeeps
<1>13. CASE Leave([p EXCEPT !.errno = "CB", !.nread = nread], body, None)
  <2>1. Leave(Returned(p, "CB", nread), body, None) /\ "CB" \in Errors
      BY Zenon, <1>13 DEF Returned, Errors
  <2> DEFINE t == Returned(p, "CB", nread)
  <2>2. /\ Sound(t, body, "headers") /\ t.state = "s_headers_done" /\ t.flags = p.flags
      BY <1>1, <1>9, <2>1, SoundReturn
  <2> HIDE DEF t
  <2>3. StoryAt(t.state, t.flags, "headers") /\ PendAt(t.state, {}, body, "headers")
      BY Zenon, <1>9, <1>10, <2>2
  <2>4. Leave(t, body, None)
      BY Zenon, <2>1 DEF t
  <2> QED BY Zenon, <1>1, <2>2, <2>3, <2>4, LeaveKeeps
<1> QED BY Zenon, <1>2, <1>11, <1>12, <1>13 DEF q

LEMMA HeadersAlmostDoneKeeps == ParserInv /\ HeadersAlmostDone => ParserInv'
<1> SUFFICES ASSUME ParserInv, HeadersAlmostDone PROVE ParserInv'
    BY Zenon
<1>1. /\ incall /\ parser.state = "s_headers_almost_done" /\ parser.state \in FieldState
      /\ OpenElement(parser.state) = {}
    BY Zenon DEF HeadersAlmostDone, At_, FieldState, BetweenLines, OpenElement, SchemaState, UrlState
<1>2. /\ parser \in ParserRec /\ body \in BodyRec /\ nread \in 0..Many /\ marks = {}
      /\ mon \in {LineTold(parser.flags), ValueTold(parser.flags)}
      /\ LineLength(parser.flags, parser.content_length, body)
    BY Zenon, <1>1, FieldMarks DEF LineStory, BetweenLines
<1>3. CASE Fail("STRICT") \/ Fail("UNEXPECTED_CONTENT_LENGTH")
    BY Zenon, <1>1, <1>3, FailKeeps DEF Errors
<1>4. CASE "F_TRAILING" \in parser.flags /\ Callback("chunk_complete", To("s_message_done"), "stay")
  <2> DEFINE f == To("s_message_done")
  <2>1. "s_message_done" \in States
      BY Zenon DEF States
  <2>2. MovesOnly(f, "s_message_done") /\ Callback("chunk_complete", f, "stay")
      BY Zenon, <1>2, <1>4, <2>1, ToMovesOnly
  <2> HIDE DEF f
  <2>3. Told("chunk_complete") = "all"
      BY Zenon, <1>2, <1>4, ToldIs DEF LineTold, ValueTold
  <2>4. StoryAt("s_message_done", parser.flags, "all")
      BY Zenon, <1>4 DEF StoryAt, BegunState, StartState, FirstElement, SchemaState, UrlState,
            LineState, BetweenLines, BeforeValue, AfterValue, SizeState, SizeRead, DataState
  <2>5. FlagsAt("s_message_done", parser.flags)
      BY Zenon DEF FlagsAt, BegunState, FirstElement, SchemaState, UrlState, LineState, ChunkState,
             SizeState, SizeRead, DataState
  <2>6. LengthAt("s_message_done", parser.flags, parser.content_length, body)
      BY Zenon, <1>4 DEF LengthAt, HeaderState, BegunState, FirstElement, SchemaState, UrlState, LineState,
             BetweenLines, BeforeValue, AfterValue, SizeRead
  <2>7. Fine(f, "all")
      BY <1>2, <2>2, <2>4, <2>5, <2>6 DEF Fine, Sound, MovesOnly, WordAt
  <2>8. PendAt("s_message_done", {}, f.b, "all") /\ OpenElement("s_message_done") = {}
      BY Zenon DEF PendAt, DataState, OpenElement, SchemaState, UrlState
  <2>9. f.p.state = "s_message_done" /\ f.m = {}
      BY Zenon, <1>2, <2>2 DEF MovesOnly
  <2> QED BY <1>1, <2>2, <2>3, <2>7, <2>8, <2>9, CallbackKeeps
<1>5. ASSUME "F_TRAILING" \notin parser.flags,
             ~({"F_CHUNKED", "F_CONTENTLENGTH"} \subseteq parser.flags), NEW u \in BOOLEAN,
             HeadersComplete([parser EXCEPT !.state = "s_headers_done", !.upgrade = u])
      PROVE  ParserInv'
  <2> DEFINE q == [parser EXCEPT !.state = "s_headers_done"]
             p == [parser EXCEPT !.state = "s_headers_done", !.upgrade = u]
  <2>1. "s_headers_done" \in States
      BY Zenon DEF States, HeaderState
  <2>2. q \in ParserRec
      BY Zenon, <1>2, <2>1, PutState
  <2>3. p \in ParserRec
    <3> HIDE DEF q
    <3>1. [q EXCEPT !.upgrade = u] \in ParserRec
        BY Zenon, <1>5, <2>2, PutUpgrade
    <3> QED BY Zenon, <3>1 DEF q
  <2>4. /\ p.state = "s_headers_done" /\ p.flags = parser.flags
        /\ p.content_length = parser.content_length
      BY ONLY Zenon, <1>2 DEF ParserRec
  <2>5. Told("headers_complete") = "headers"
      BY Zenon, <1>2, <1>5, ToldIs DEF LineTold, ValueTold
  <2>6. HeadersComplete(p)
      BY Zenon, <1>5
  <2> HIDE DEF p
  <2> QED BY <1>1, <1>2, <1>5, <2>3, <2>4, <2>5, <2>6, HeadersCompleteKeeps
<1> DEFINE u == IF {"F_UPGRADE", "F_CONNECTION_UPGRADE"} \subseteq parser.flags
                THEN parser.type = "REQUEST" \/ parser.status_code = 101
                ELSE parser.method = "CONNECT"
<1>6. u \in BOOLEAN
    BY Zenon
<1>7. \/ Fail("STRICT") \/ Fail("UNEXPECTED_CONTENT_LENGTH")
      \/ "F_TRAILING" \in parser.flags /\ Callback("chunk_complete", To("s_message_done"), "stay")
      \/ /\ "F_TRAILING" \notin parser.flags
         /\ ~({"F_CHUNKED", "F_CONTENTLENGTH"} \subseteq parser.flags)
         /\ HeadersComplete([parser EXCEPT !.state = "s_headers_done", !.upgrade = u])
    BY Zenon DEF HeadersAlmostDone
<1> HIDE DEF u
<1> QED BY Zenon, <1>3, <1>4, <1>5, <1>6, <1>7

\* The message ends, and the next one may begin.
LEMMA NewMessageIs == \A p : NEW_MESSAGE(p) \in StartState \cup {"s_dead"}
  BY Zenon DEF NEW_MESSAGE, StartState

LEMMA CompleteKeeps ==
    ASSUME ParserInv, incall, NEW f, NEW s \in StartState \cup {"s_dead"},
           f.p \in ParserRec, f.p.state = s, f.n \in 0..Many, f.m = {}, f.b \in BodyRec,
           Told("message_complete") = "idle", NEW after, Callback("message_complete", f, after)
    PROVE  ParserInv'
<1>1. StoryAt(s, f.p.flags, "idle")
    BY Zenon DEF StoryAt, BegunState, StartState, FirstElement, SchemaState, UrlState,
            LineState, BetweenLines, BeforeValue, AfterValue, SizeState, SizeRead, DataState
<1>2. FlagsAt(s, f.p.flags)
    BY Zenon DEF FlagsAt, StartState, BegunState, FirstElement, SchemaState, UrlState, LineState,
           ChunkState, SizeState, SizeRead, DataState
<1>3. LengthAt(s, f.p.flags, f.p.content_length, f.b)
    BY Zenon DEF LengthAt, StartState, HeaderState, BegunState, FirstElement, SchemaState, UrlState,
           LineState, BetweenLines, BeforeValue, AfterValue, SizeRead
<1>4. WordAt(s, f.p.header_state, f.p.flags) /\ s # "s_chunk_size_start"
    BY Zenon DEF WordAt, StartState
<1>5. Fine(f, "idle")
    BY Zenon, <1>1, <1>2, <1>3, <1>4 DEF Fine, Sound
<1>6. PendAt(s, {}, f.b, "idle") /\ OpenElement(s) = {}
    BY Zenon DEF PendAt, DataState, StartState, OpenElement, SchemaState, UrlState
<1> QED BY Zenon, <1>4, <1>5, <1>6, CallbackKeeps

\* parser->nread = 0; nread = 0, and the next state.
LEMMA ResetTo ==
    ASSUME parser \in ParserRec, NEW s \in States
    PROVE  LET f == [ResetCount(Here) EXCEPT !.p.state = s]
           IN  /\ f.p \in ParserRec /\ f.p.state = s /\ f.p.flags = parser.flags
               /\ f.p.nread = 0 /\ f.p.content_length = parser.content_length
               /\ f.n = 0 /\ f.m = marks /\ f.b = body /\ IsFrame(f)
<1> DEFINE f == [ResetCount(Here) EXCEPT !.p.state = s]
           q == [parser EXCEPT !.nread = 0]
<1>1. f.p = [q EXCEPT !.state = s] /\ f.n = 0 /\ f.m = marks /\ f.b = body
    BY Zenon DEF ResetCount, Here
<1>2. IsFrame(f)
  <2>1. IsFrame(ResetCount(Here))
      BY Zenon, ToFrame, PutFrame DEF ResetCount
  <2> QED BY Zenon, <2>1, PutFrame
<1> HIDE DEF f
<1>3. q \in ParserRec
  <2>1. 0 \in 0..Many
      BY DEF Many
  <2> QED BY Zenon, <2>1, PutNread
<1>4. f.p \in ParserRec
  <2> HIDE DEF q
  <2> QED BY Zenon, <1>1, <1>3, PutState
<1>5. /\ f.p.state = s /\ f.p.flags = parser.flags /\ f.p.nread = 0
      /\ f.p.content_length = parser.content_length
    BY ONLY <1>1, parser \in ParserRec DEF ParserRec
<1> QED BY Zenon, <1>1, <1>2, <1>4, <1>5 DEF f

LEMMA HeadersDoneKeeps == ParserInv /\ HeadersDone => ParserInv'
<1> SUFFICES ASSUME ParserInv, HeadersDone PROVE ParserInv'
    BY Zenon
<1> DEFINE len == parser.content_length
           hasBody == "F_CHUNKED" \in parser.flags \/ len \notin {0, ULLONG_MAX}
           skip == "F_SKIPBODY" \in parser.flags
           other == parser.upgrade /\ (parser.method = "CONNECT" \/ skip \/ ~hasBody)
           body_ == IF "F_CHUNKED" \in parser.flags THEN "s_chunk_size_start"
                    ELSE IF len # ULLONG_MAX THEN "s_body_identity" ELSE "s_body_identity_eof"
           F(s) == [ResetCount(Here) EXCEPT !.p.state = s]
<1>1. incall /\ parser.state = "s_headers_done"
    BY Zenon DEF HeadersDone, At_
<1>2. /\ parser \in ParserRec /\ body \in BodyRec /\ nread \in 0..Many
      /\ StoryAt(parser.state, parser.flags, mon) /\ MarksAt(parser.state, marks)
      /\ FlagsAt(parser.state, parser.flags)
      /\ LengthAt(parser.state, parser.flags, len, body)
    BY Zenon, <1>1 DEF ParserInv, Sound
<1>3. /\ mon = "headers" /\ marks = {} /\ "F_TRAILING" \notin parser.flags
      /\ ~({"F_CHUNKED", "F_CONTENTLENGTH"} \subseteq parser.flags)
    BY Zenon, <1>1, <1>2 DEF StoryAt, MarksAt, FlagsAt, OpenElement, SchemaState, UrlState, DataState
<1>4. /\ "F_CONTENTLENGTH" \in parser.flags => body.announced = len /\ body.got = 0 /\ body.pend = 0
      /\ "F_CONTENTLENGTH" \notin parser.flags => len = ULLONG_MAX
    BY Zenon, <1>1, <1>2, <1>3 DEF LengthAt, HeaderState
<1>5. len \in 0..ULLONG_MAX /\ ULLONG_MAX \in Nat
    BY Zenon, <1>2, ParserAssumption DEF ParserRec
<1>6. \/ Fail("STRICT")
      \/ \E after : Callback("message_complete", F(NEW_MESSAGE(parser)), after)
      \/ (hasBody \/ len # 0) /\ Break(F(body_))
    BY Zenon DEF HeadersDone
<1>7. ASSUME NEW after, Callback("message_complete", F(NEW_MESSAGE(parser)), after)
      PROVE  ParserInv'
  <2> DEFINE s == NEW_MESSAGE(parser)
             f == F(s)
  <2>1. s \in StartState \cup {"s_dead"} /\ s \in States
      BY Zenon, NewMessageIs DEF States
  <2> HIDE DEF s
  <2>2. /\ f.p \in ParserRec /\ f.p.state = s /\ f.n = 0 /\ f.m = marks /\ f.b = body
      BY Zenon, <1>2, <2>1, ResetTo
  <2>3. Callback("message_complete", f, after)
      BY Zenon, <1>7 DEF s
  <2>4. Told("message_complete") = "idle"
      BY Zenon, <1>3, ToldIs
  <2>5. 0 \in 0..Many
      BY DEF Many
  <2> HIDE DEF f
  <2> QED BY Zenon, <1>1, <1>2, <1>3, <2>1, <2>2, <2>3, <2>4, <2>5, CompleteKeeps
<1>8. CASE (hasBody \/ len # 0) /\ Break(F(body_))
  <2> DEFINE f == F(body_)
  <2>1. body_ \in {"s_chunk_size_start", "s_body_identity", "s_body_identity_eof"}
      BY Zenon
  <2>2. body_ \in States
      BY Zenon, <2>1 DEF States, ChunkState, SizeState
  <2>3. /\ f.p \in ParserRec /\ f.p.state = body_ /\ f.p.flags = parser.flags
        /\ f.p.content_length = len /\ f.n = 0 /\ f.m = marks /\ f.b = body
      BY Zenon, <1>2, <2>2, ResetTo
  <2>4. Break(f)
      BY Zenon, <1>8
  <2> HIDE DEF f
  <2>5. body_ = "s_chunk_size_start" => "F_CHUNKED" \in parser.flags
      BY Zenon
  <2>6. body_ = "s_body_identity" => body.announced = body.got + body.pend + len
                                     /\ len \in 1..(ULLONG_MAX - 1)
      BY <1>2, <1>4, <1>5, <1>8 DEF BodyRec
  <2> HIDE DEF body_, hasBody
  <2>7. FlagsAt(body_, parser.flags)
      BY Zenon, <1>3, <2>1, <2>5 DEF FlagsAt, ChunkState, SizeState, SizeRead, DataState
  <2>8. LengthAt(body_, parser.flags, len, body)
      BY Zenon, <2>1, <2>6 DEF LengthAt, HeaderState, BegunState, FirstElement, SchemaState, UrlState,
           LineState, BetweenLines, BeforeValue, AfterValue, SizeRead
  <2>9. StoryAt(body_, parser.flags, "headers")
      BY Zenon, <2>1 DEF StoryAt, BegunState, StartState, FirstElement, SchemaState, UrlState,
            LineState, BetweenLines, BeforeValue, AfterValue, SizeState, SizeRead, DataState
  <2>10. /\ MarksAt(body_, {}) /\ PendAt(body_, {}, body, "headers") /\ 0 \in 0..Many
         /\ WordAt(body_, f.p.header_state, parser.flags)
      BY <2>1 DEF MarksAt, PendAt, OpenElement, SchemaState, UrlState, DataState, Many, WordAt
  <2>11. Fine(f, "headers")
      BY Zenon, <1>2, <2>3, <2>7, <2>8, <2>9, <2>10 DEF Fine, Sound
  <2>12. Set(f) /\ mon' = "headers" /\ UNCHANGED <<incall, again, eof>> /\ ch' = None
      BY Zenon, <1>3, <2>4 DEF Break
  <2>13. MarksAt(f.p.state, f.m) /\ PendAt(f.p.state, f.m, f.b, mon')
      BY Zenon, <1>3, <2>3, <2>10, <2>12
  <2> QED BY Zenon, <1>1, <2>3, <2>11, <2>12, <2>13, StepKeeps
<1>9. CASE Fail("STRICT")
    BY Zenon, <1>1, <1>9, FailKeeps DEF Errors
<1> HIDE DEF F, body_, hasBody
<1> QED BY Zenon, <1>6, <1>7, <1>8, <1>9

-----------------------------------------------------------------------------
(* The body.                                                               *)

LEMMA ToReadIs ==
    ASSUME parser.content_length \in 1..(ULLONG_MAX - 1), NEW k \in ToRead
    PROVE  k \in 1..parser.content_length /\ k \in Nat
<1>1. \A n \in Nat : n > 0 => (n + 1) \div 2 \in 1..n /\ n \in 1..n
    OBVIOUS
<1>2. parser.content_length \in Nat /\ parser.content_length > 0
    BY ParserAssumption
<1> QED BY <1>1, <1>2 DEF ToRead

\* k bytes of the body are taken, on the way to state s: they wait at the mark.
TookTo(k, s) == [Took(k) EXCEPT !.p.state = s]
Taken(f, k, s) ==
    /\ f.p \in ParserRec /\ f.p.state = s /\ f.p.flags = parser.flags
    /\ f.p.content_length = parser.content_length - k
    /\ f.n = nread /\ f.m = marks \cup {"body"} /\ IsFrame(f)
    /\ f.b \in BodyRec /\ f.b.announced = body.announced /\ f.b.got = body.got
    /\ f.b.pend = body.pend + k

LEMMA TookFrame ==
    ASSUME parser \in ParserRec, body \in BodyRec, NEW k \in 1..parser.content_length,
           k \in Nat, NEW s \in States
    PROVE  Taken(Took(k), k, parser.state) /\ Taken(TookTo(k, s), k, s)
<1> DEFINE len == parser.content_length
           q == [parser EXCEPT !.content_length = len - k]
           g == Took(k)
           f == TookTo(k, s)
<1>1. len \in 0..ULLONG_MAX /\ len \in Nat /\ len - k \in 0..ULLONG_MAX
    BY ParserAssumption DEF ParserRec
<1>2. g.p = q /\ g.n = nread /\ g.m = marks \cup {"body"}
    BY Zenon DEF Took, MARK, Here
<1>3. g.b = [body EXCEPT !.pend = @ + k]
    BY Zenon DEF Took, MARK, Here
<1>4. IsFrame(g)
  <2>1. IsFrame(MARK(Here, "body"))
      BY Zenon, ToFrame, PutFrame DEF MARK
  <2> QED BY Zenon, <2>1, PutFrame DEF Took
<1>5. q \in ParserRec
    BY Zenon, <1>1, PutLength
<1>6. /\ q.state = parser.state /\ q.flags = parser.flags /\ q.content_length = len - k
    BY ONLY Zenon, parser \in ParserRec DEF ParserRec
<1>7. g.b \in BodyRec /\ g.b.announced = body.announced /\ g.b.got = body.got
      /\ g.b.pend = body.pend + k
    BY <1>3 DEF BodyRec
<1> HIDE DEF q, g
<1>8. Taken(g, k, parser.state)
    BY Zenon, <1>2, <1>4, <1>5, <1>6, <1>7 DEF Taken
<1>9. f.p = [q EXCEPT !.state = s] /\ f.n = g.n /\ f.m = g.m /\ f.b = g.b
    BY Zenon, <1>2, <1>4 DEF IsFrame, TookTo, g
<1>10. f.p \in ParserRec
    BY Zenon, <1>5, <1>9, PutState
<1>11. f.p.state = s /\ f.p.flags = q.flags /\ f.p.content_length = q.content_length
    BY ONLY Zenon, <1>5, <1>9 DEF ParserRec
<1>12. IsFrame(f)
    BY Zenon, <1>4, PutFrame DEF TookTo, g
<1>13. Taken(f, k, s)
  <2> HIDE DEF f
  <2> QED BY <1>2, <1>6, <1>7, <1>9, <1>10, <1>11, <1>12 DEF Taken
<1> QED BY Zenon, <1>8, <1>13 DEF g

\* What the states that read a body start from.
LEMMA BodyFacts ==
    ASSUME ParserInv, incall, parser.state \in {"s_body_identity", "s_chunk_data"}
    PROVE  /\ parser \in ParserRec /\ body \in BodyRec /\ nread \in 0..Many
           /\ parser.state \in States /\ marks \subseteq {"body"}
           /\ parser.content_length \in 1..(ULLONG_MAX - 1) /\ parser.content_length \in Nat
           /\ body.announced = body.got + body.pend + parser.content_length
           /\ "F_TRAILING" \notin parser.flags
           /\ parser.state = "s_body_identity" => mon \in {"headers", "body"}
           /\ parser.state = "s_chunk_data" =>
                /\ mon \in {"chunk", "data"}
                /\ "F_CHUNKED" \in parser.flags /\ "F_CONTENTLENGTH" \notin parser.flags
<1>1. /\ parser \in ParserRec /\ body \in BodyRec /\ nread \in 0..Many
      /\ StoryAt(parser.state, parser.flags, mon) /\ MarksAt(parser.state, marks)
      /\ FlagsAt(parser.state, parser.flags)
      /\ LengthAt(parser.state, parser.flags, parser.content_length, body)
    BY Zenon DEF ParserInv, Sound
<1>2. marks \subseteq {"body"}
    BY Zenon, <1>1 DEF MarksAt, OpenElement, SchemaState, UrlState
<1>3. /\ parser.content_length \in 1..(ULLONG_MAX - 1) /\ parser.content_length \in Nat
      /\ body.announced = body.got + body.pend + parser.content_length
    BY <1>1, ParserAssumption DEF LengthAt
<1>4. /\ "F_TRAILING" \notin parser.flags
      /\ parser.state = "s_chunk_data" =>
           "F_CHUNKED" \in parser.flags /\ "F_CONTENTLENGTH" \notin parser.flags
    BY Zenon, <1>1 DEF FlagsAt, ChunkState, DataState
<1>5. /\ parser.state = "s_body_identity" => mon \in {"headers", "body"}
      /\ parser.state = "s_chunk_data" => mon \in {"chunk", "data"}
    BY Zenon, <1>1 DEF StoryAt, DataState
<1>6. parser.state \in States
    BY Zenon, <1>1 DEF ParserRec
<1> QED BY <1>1, <1>2, <1>3, <1>4, <1>5, <1>6

\* The call has less than the body.
LEMMA TookKeeps ==
    ASSUME ParserInv, incall, parser.state \in {"s_body_identity", "s_chunk_data"},
           NEW k \in ToRead, k # parser.content_length, Set(Took(k)),
           UNCHANGED <<incall, again, eof, mon>>
    PROVE  ParserInv'
<1> DEFINE f == Took(k)
           s == parser.state
           len == parser.content_length
<1>1. /\ parser \in ParserRec /\ body \in BodyRec /\ nread \in 0..Many
      /\ s \in States /\ marks \subseteq {"body"}
      /\ len \in 1..(ULLONG_MAX - 1) /\ len \in Nat
      /\ body.announced = body.got + body.pend + len
    BY Zenon, BodyFacts
<1>2. k \in 1..len /\ k \in Nat
    BY Zenon, <1>1, ToReadIs
<1>3. /\ f.p \in ParserRec /\ f.p.state = s /\ f.p.flags = parser.flags
      /\ f.p.content_length = len - k
      /\ f.n = nread /\ f.m = marks \cup {"body"} /\ IsFrame(f)
      /\ f.b \in BodyRec /\ f.b.announced = body.announced /\ f.b.got = body.got
      /\ f.b.pend = body.pend + k
    BY Zenon, <1>1, <1>2, TookFrame DEF Taken
<1> HIDE DEF f
<1>4. StoryAt(s, f.p.flags, mon) /\ FlagsAt(s, f.p.flags) /\ mon # "wrong"
    BY Zenon, <1>3 DEF ParserInv, Sound
<1>5. f.p.content_length \in 1..(ULLONG_MAX - 1)
    BY <1>1, <1>2, <1>3, ParserAssumption
<1>6. f.b.announced = f.b.got + f.b.pend + f.p.content_length
    BY <1>1, <1>2, <1>3 DEF BodyRec
<1>7. LengthAt(s, f.p.flags, f.p.content_length, f.b)
    BY Zenon, <1>5, <1>6 DEF LengthAt, HeaderState, BegunState, FirstElement, SchemaState, UrlState,
           LineState, BetweenLines, BeforeValue, AfterValue, SizeRead
<1>8. WordAt(s, f.p.header_state, f.p.flags) /\ s # "s_chunk_size_start"
    BY Zenon DEF WordAt
<1>9. Fine(f, mon)
    BY Zenon, <1>1, <1>3, <1>4, <1>7, <1>8 DEF Fine, Sound
<1>10. MarksAt(s, f.m)
    BY Zenon, <1>1, <1>3 DEF MarksAt, OpenElement, SchemaState, UrlState, DataState
<1>11. PendAt(s, f.m, f.b, mon)
    BY Zenon, <1>3 DEF PendAt
<1>12. Set(f)
    BY Zenon DEF f
<1> QED BY Zenon, <1>3, <1>8, <1>9, <1>10, <1>11, <1>12, StepKeeps

\* CALLBACK_DATA for the body: the bytes at the mark are handed over.
Hands(g, f) ==
    /\ g.p = f.p /\ g.n = f.n /\ g.m = f.m \ {"body"} /\ g.b \in BodyRec
    /\ g.b.announced = f.b.announced /\ g.b.got = f.b.got + f.b.pend /\ g.b.pend = 0

LEMMA HandedFrame ==
    ASSUME NEW f, IsFrame(f), f.b \in BodyRec, "body" \in f.m, NEW after,
           DataCallback("body", f, after)
    PROVE  \E g : Callback("body", g, after) /\ Hands(g, f)
<1> DEFINE g == [f EXCEPT !.m = @ \ {"body"}, !.b = IF "body" = "body" THEN Handed(@) ELSE @]
<1>1. Callback("body", g, after)
    BY Zenon DEF DataCallback
<1>2. g.p = f.p /\ g.n = f.n /\ g.m = f.m \ {"body"} /\ g.b = Handed(f.b)
    BY Zenon DEF IsFrame
<1> HIDE DEF g
<1>3. /\ Handed(f.b) \in BodyRec /\ Handed(f.b).announced = f.b.announced
      /\ Handed(f.b).got = f.b.got + f.b.pend /\ Handed(f.b).pend = 0
    BY DEF Handed, BodyRec
<1> QED BY Zenon, <1>1, <1>2, <1>3 DEF Hands

LEMMA BodyIdentityKeeps == ParserInv /\ BodyIdentity => ParserInv'
<1> SUFFICES ASSUME ParserInv, BodyIdentity PROVE ParserInv'
    BY Zenon
<1>1. incall /\ parser.state = "s_body_identity"
    BY Zenon DEF BodyIdentity, At_
<1>2. PICK k \in ToRead :
        IF k = parser.content_length
        THEN DataCallback("body", [Took(k) EXCEPT !.p.state = "s_message_done"], "stay")
        ELSE Set(Took(k)) /\ ch' = End /\ UNCHANGED <<incall, again, eof, lines, mon>>
    BY Zenon DEF BodyIdentity
<1>3. CASE k # parser.content_length
    BY Zenon, <1>1, <1>2, <1>3, TookKeeps
<1>4. CASE k = parser.content_length
  <2> DEFINE s == "s_message_done"
             f == TookTo(k, s)
             len == parser.content_length
  <2>1. /\ parser \in ParserRec /\ body \in BodyRec /\ nread \in 0..Many
        /\ marks \subseteq {"body"}
        /\ len \in 1..(ULLONG_MAX - 1) /\ len \in Nat
        /\ body.announced = body.got + body.pend + len
        /\ mon \in {"headers", "body"} /\ "F_TRAILING" \notin parser.flags
      BY Zenon, <1>1, BodyFacts
  <2>2. k \in 1..len /\ k \in Nat /\ s \in States
      BY Zenon, <2>1, ToReadIs DEF States
  <2>4. DataCallback("body", f, "stay")
      BY Zenon, <1>2, <1>4 DEF TookTo
  <2>3. /\ f.p \in ParserRec /\ f.p.state = s /\ f.p.flags = parser.flags
        /\ f.n = nread /\ f.m = marks \cup {"body"} /\ IsFrame(f)
        /\ f.b \in BodyRec /\ f.b.announced = body.announced /\ f.b.got = body.got
        /\ f.b.pend = body.pend + k
      BY <2>1, <2>2, TookFrame DEF Taken
  <2> HIDE DEF f
  <2>14. PICK g : Callback("body", g, "stay") /\ Hands(g, f)
      BY Zenon, <2>3, <2>4, HandedFrame
  <2>5. /\ Callback("body", g, "stay")
        /\ g.p = f.p /\ g.n = f.n /\ g.m = f.m \ {"body"} /\ g.b \in BodyRec
        /\ g.b.announced = f.b.announced /\ g.b.got = f.b.got + f.b.pend /\ g.b.pend = 0
      BY Zenon, <2>14 DEF Hands
  <2>6. g.m = {} /\ Told("body") = "body"
      BY Zenon, <2>1, <2>3, <2>5, ToldIs
  <2>7. g.b.got = g.b.announced
      BY <1>4, <2>1, <2>2, <2>3, <2>5 DEF BodyRec
  <2>8. LengthAt(s, g.p.flags, g.p.content_length, g.b)
      BY Zenon, <2>7 DEF LengthAt, HeaderState, BegunState, FirstElement, SchemaState, UrlState,
           LineState, BetweenLines, BeforeValue, AfterValue, SizeRead
  <2>9. FlagsAt(s, g.p.flags) /\ WordAt(s, g.p.header_state, g.p.flags)
      BY Zenon DEF FlagsAt, BegunState, FirstElement, SchemaState, UrlState, LineState, ChunkState,
             SizeState, SizeRead, DataState, WordAt
  <2>10. StoryAt(s, g.p.flags, "body")
      BY Zenon, <2>1, <2>3, <2>5 DEF StoryAt, BegunState, StartState, FirstElement, SchemaState, UrlState,
            LineState, BetweenLines, BeforeValue, AfterValue, SizeState, SizeRead, DataState
  <2>11. Fine(g, "body")
      BY Zenon, <2>1, <2>3, <2>5, <2>8, <2>9, <2>10 DEF Fine, Sound
  <2>12. PendAt(s, {}, g.b, "body") /\ OpenElement(s) = {}
      BY Zenon DEF PendAt, DataState, OpenElement, SchemaState, UrlState
  <2>13. g.p.state = s
      BY Zenon, <2>3, <2>5
  <2> QED BY <1>1, <2>5, <2>6, <2>11, <2>12, <2>13, CallbackKeeps
<1> QED BY Zenon, <1>3, <1>4

LEMMA BodyIdentityEofKeeps == ParserInv /\ BodyIdentityEof => ParserInv'
<1> SUFFICES ASSUME ParserInv, BodyIdentityEof PROVE ParserInv'
    BY Zenon
<1> DEFINE f == MARK(Here, "body")
           s == parser.state
<1>1. /\ incall /\ s = "s_body_identity_eof" /\ Set(f) /\ UNCHANGED <<incall, again, eof, mon>>
    BY Zenon DEF BodyIdentityEof, At_
<1>2. f.p = parser /\ f.n = nread /\ f.m = marks \cup {"body"} /\ f.b = body
    BY Zenon DEF MARK, Here
<1> HIDE DEF f
<1>3. Fine(f, mon) /\ MarksAt(s, marks)
    BY Zenon, <1>1, <1>2 DEF Fine, ParserInv
<1>4. MarksAt(s, f.m) /\ PendAt(s, f.m, f.b, mon) /\ s # "s_chunk_size_start"
    BY <1>1, <1>2, <1>3 DEF MarksAt, PendAt, OpenElement, SchemaState, UrlState, DataState
<1> QED BY Zenon, <1>1, <1>2, <1>3, <1>4, StepKeeps

LEMMA MessageDoneKeeps == ParserInv /\ MessageDone => ParserInv'
<1> SUFFICES ASSUME ParserInv, MessageDone PROVE ParserInv'
    BY Zenon
<1> DEFINE s == NEW_MESSAGE(parser)
           f == To(s)
<1>1. incall /\ parser.state = "s_message_done"
    BY Zenon DEF MessageDone, At_
<1>2. PICK after : Callback("message_complete", f, after)
    BY Zenon DEF MessageDone
<1>3. s \in StartState \cup {"s_dead"} /\ s \in States
    BY Zenon, NewMessageIs DEF States
<1> HIDE DEF s
<1>4. /\ parser \in ParserRec /\ body \in BodyRec /\ nread \in 0..Many
      /\ StoryAt(parser.state, parser.flags, mon) /\ MarksAt(parser.state, marks)
    BY Zenon, <1>1 DEF ParserInv, Sound
<1>5. marks = {}
    BY Zenon, <1>1, <1>4 DEF MarksAt, OpenElement, SchemaState, UrlState, DataState
<1>6. mon \in {"all", "body"}
    BY Zenon, <1>1, <1>4 DEF StoryAt
<1>7. Told("message_complete") = "idle"
    BY Zenon, <1>6, ToldIs
<1>8. MovesOnly(f, s)
    BY Zenon, <1>3, <1>4, ToMovesOnly
<1> HIDE DEF f
<1> QED BY Zenon, <1>1, <1>2, <1>3, <1>4, <1>5, <1>7, <1>8, CompleteKeeps DEF MovesOnly

-----------------------------------------------------------------------------
(* The chunks.                                                             *)

\* What the states that read the size of a chunk start from.
LEMMA SizeFacts ==
    ASSUME ParserInv, incall, parser.state \in SizeState
    PROVE  /\ parser \in ParserRec /\ body \in BodyRec /\ nread \in 0..Many /\ marks = {}
           /\ mon \in {"headers", "chunk_end"}
           /\ "F_TRAILING" \notin parser.flags /\ "F_CHUNKED" \in parser.flags
           /\ "F_CONTENTLENGTH" \notin parser.flags
           /\ parser.content_length \in 0..ULLONG_MAX
           /\ parser.state # "s_chunk_size_start" =>
                /\ body.announced = parser.content_length /\ body.got = 0 /\ body.pend = 0
                /\ parser.content_length < ULLONG_MAX
<1>1. /\ parser \in ParserRec /\ body \in BodyRec /\ nread \in 0..Many
      /\ StoryAt(parser.state, parser.flags, mon) /\ MarksAt(parser.state, marks)
      /\ FlagsAt(parser.state, parser.flags)
      /\ LengthAt(parser.state, parser.flags, parser.content_length, body)
    BY Zenon DEF ParserInv, Sound
<1>2. marks = {}
    BY Zenon, <1>1 DEF MarksAt, OpenElement, SchemaState, UrlState, SizeState, SizeRead, DataState
<1>3. mon \in {"headers", "chunk_end"}
    BY Zenon, <1>1 DEF StoryAt
<1>4. /\ "F_TRAILING" \notin parser.flags /\ "F_CHUNKED" \in parser.flags
      /\ "F_CONTENTLENGTH" \notin parser.flags
    BY Zenon, <1>1 DEF FlagsAt, ChunkState
<1>5. parser.state # "s_chunk_size_start" =>
        /\ body.announced = parser.content_length /\ body.got = 0 /\ body.pend = 0
        /\ parser.content_length < ULLONG_MAX
    BY Zenon, <1>1 DEF LengthAt, SizeState
<1>6. parser.content_length \in 0..ULLONG_MAX
    BY Zenon, <1>1 DEF ParserRec
<1> QED BY <1>1, <1>2, <1>3, <1>4, <1>5, <1>6

\* A pass that leads to another state of the size: the size is what is announced.
LEMMA SizeKeeps ==
    ASSUME ParserInv, incall, parser.state \in SizeState, NEW f, NEW s \in SizeRead,
           f.p \in ParserRec, f.p.state = s, f.p.flags = parser.flags,
           f.p.content_length < ULLONG_MAX, f.n = nread, f.m = marks, f.b \in BodyRec,
           f.b.announced = f.p.content_length, f.b.got = 0, f.b.pend = 0, Break(f)
    PROVE  ParserInv'
<1>1. /\ nread \in 0..Many /\ marks = {} /\ mon \in {"headers", "chunk_end"}
      /\ "F_TRAILING" \notin parser.flags /\ "F_CHUNKED" \in parser.flags
      /\ "F_CONTENTLENGTH" \notin parser.flags
    BY Zenon, SizeFacts
<1>2. StoryAt(s, parser.flags, mon)
    BY Zenon, <1>1 DEF StoryAt, BegunState, StartState, FirstElement, SchemaState, UrlState,
            LineState, BetweenLines, BeforeValue, AfterValue, SizeState, SizeRead, DataState
<1>3. FlagsAt(s, parser.flags)
    BY Zenon, <1>1 DEF FlagsAt, SizeRead
<1>4. LengthAt(s, parser.flags, f.p.content_length, f.b)
    BY Zenon DEF LengthAt, HeaderState, BegunState, FirstElement, SchemaState, UrlState,
           LineState, BetweenLines, BeforeValue, AfterValue, SizeRead
<1>5. /\ WordAt(s, f.p.header_state, parser.flags) /\ s # "s_chunk_size_start"
      /\ MarksAt(s, {}) /\ PendAt(s, {}, f.b, mon)
    BY Zenon DEF WordAt, MarksAt, PendAt, OpenElement, SchemaState, UrlState, DataState, SizeRead
<1>6. mon # "wrong"
    BY Zenon, <1>1
<1>7. Fine(f, mon)
    BY Zenon, <1>1, <1>2, <1>3, <1>4, <1>5, <1>6 DEF Fine, Sound
<1>8. Set(f) /\ mon' = mon /\ UNCHANGED <<incall, again, eof>>
    BY Zenon DEF Break
<1> QED BY Zenon, <1>1, <1>5, <1>7, <1>8, StepKeeps

LEMMA ChunkDigit == \A c \in Hex : Digit(c) \in 0..10
  BY DigitType DEF Digit, Hex

LEMMA ChunkSizeStartKeeps == ParserInv /\ ChunkSizeStart => ParserInv'
<1> SUFFICES ASSUME ParserInv, ChunkSizeStart PROVE ParserInv'
    BY Zenon
<1> DEFINE d == Digit(ch)
           s == "s_chunk_size"
           b == [announced |-> d, got |-> 0, pend |-> 0]
           f == [To(s) EXCEPT !.p.content_length = d, !.b = b]
<1>1. incall /\ parser.state = "s_chunk_size_start"
    BY Zenon DEF ChunkSizeStart, At_
<1>2. parser.state \in SizeState /\ s \in SizeRead /\ s \in States
    BY Zenon, <1>1 DEF SizeState, SizeRead, States, ChunkState
<1>3. parser \in ParserRec
    BY Zenon, <1>1, <1>2, SizeFacts
<1>4. CASE Fail("INVALID_CHUNK_SIZE")
    BY Zenon, <1>1, <1>4, FailKeeps DEF Errors
<1>5. CASE ch \in Hex /\ Break(f)
  <2> DEFINE q == [parser EXCEPT !.state = s]
  <2>1. f.p = [q EXCEPT !.content_length = d] /\ f.n = nread /\ f.m = marks /\ f.b = b
      BY Zenon DEF To, Here
  <2>2. Break(f)
      BY Zenon, <1>5
  <2> HIDE DEF f
  <2>3. d \in 0..10
      BY Zenon, <1>5, ChunkDigit
  <2>4. d \in 0..ULLONG_MAX /\ d < ULLONG_MAX /\ d \in Nat
      BY <2>3, ParserAssumption
  <2> HIDE DEF d
  <2>5. b \in BodyRec /\ b.announced = d /\ b.got = 0 /\ b.pend = 0
      BY Zenon, <2>4 DEF BodyRec
  <2>6. q \in ParserRec
      BY Zenon, <1>2, <1>3, PutState
  <2>7. f.p \in ParserRec
    <3> HIDE DEF q
    <3> QED BY Zenon, <2>1, <2>4, <2>6, PutLength
  <2>8. f.p.state = s /\ f.p.flags = parser.flags /\ f.p.content_length = d
      BY ONLY Zenon, <1>3, <2>1 DEF ParserRec
  <2> HIDE DEF b
  <2> QED BY Zenon, <1>1, <1>2, <2>1, <2>2, <2>4, <2>5, <2>7, <2>8, SizeKeeps
<1> QED BY Zenon, <1>4, <1>5 DEF ChunkSizeStart

\* To(s) among the states of the size.
LEMMA SizeMoveKeeps ==
    ASSUME ParserInv, incall, parser.state \in SizeRead, NEW s \in SizeRead, NEW f,
           MovesOnly(f, s), Break(f)
    PROVE  ParserInv'
<1>1. parser.state \in SizeState /\ parser.state # "s_chunk_size_start"
    BY Zenon DEF SizeState, SizeRead
<1>2. /\ body \in BodyRec /\ body.announced = parser.content_length /\ body.got = 0
      /\ body.pend = 0 /\ parser.content_length < ULLONG_MAX
    BY Zenon, <1>1, SizeFacts
<1> QED BY Zenon, <1>1, <1>2, SizeKeeps DEF MovesOnly

LEMMA ChunkSizeKeeps == ParserInv /\ ChunkSize => ParserInv'
<1> SUFFICES ASSUME ParserInv, ChunkSize PROVE ParserInv'
    BY Zenon
<1>1. /\ incall /\ parser.state = "s_chunk_size"
    BY Zenon DEF ChunkSize, At_
<1>2. /\ parser.state \in SizeRead /\ parser.state \in SizeState
      /\ parser.state # "s_chunk_size_start"
    BY Zenon, <1>1 DEF SizeState, SizeRead
<1>3. /\ parser \in ParserRec /\ body \in BodyRec /\ body.announced = parser.content_length
      /\ body.got = 0 /\ body.pend = 0
    BY Zenon, <1>1, <1>2, SizeFacts
<1>4. ASSUME NEW s \in SizeRead, Break(To(s)) PROVE ParserInv'
  <2>1. s \in States
      BY Zenon DEF States, ChunkState, SizeState
  <2>2. MovesOnly(To(s), s)
      BY Zenon, <1>3, <2>1, ToMovesOnly
  <2> QED BY <1>1, <1>2, <1>4, <2>2, SizeMoveKeeps
<1>5. "s_chunk_size_almost_done" \in SizeRead /\ "s_chunk_parameters" \in SizeRead
    BY Zenon DEF SizeRead
<1>6. ASSUME NEW e \in Errors, Fail(e) PROVE ParserInv'
    BY Zenon, <1>1, <1>6, FailKeeps
<1>7. "INVALID_CHUNK_SIZE" \in Errors /\ "INVALID_CONTENT_LENGTH" \in Errors
    BY Zenon DEF Errors
<1>8. CASE /\ ch \in Hex /\ MoreDigits(16, Digit(ch), "INVALID_CONTENT_LENGTH")
           /\ ~Fail("INVALID_CONTENT_LENGTH")
  <2> DEFINE d == Digit(ch)
  <2>1. d \in 0..10
      BY Zenon, <1>8, ChunkDigit
  <2>2. d < 16
      BY <2>1
  <2> HIDE DEF d
  <2>3. MoreDigits(16, d, "INVALID_CONTENT_LENGTH") /\ ~Fail("INVALID_CONTENT_LENGTH")
      BY Zenon, <1>8 DEF d
  <2>4. PICK f : /\ Break(f) /\ f.n = nread /\ f.m = marks
                 /\ f.p \in ParserRec /\ f.p.state = parser.state /\ f.p.flags = parser.flags
                 /\ f.p.content_length < ULLONG_MAX
                 /\ f.b \in BodyRec /\ f.b.announced = f.p.content_length
                 /\ f.b.got = body.got /\ f.b.pend = body.pend
      BY Zenon, <1>3, <2>1, <2>2, <2>3, MoreDigitsFrame
  <2> QED BY <1>1, <1>2, <1>3, <2>4, SizeKeeps
<1> QED BY Zenon, <1>4, <1>5, <1>6, <1>7, <1>8 DEF ChunkSize

LEMMA ChunkParametersKeeps == ParserInv /\ ChunkParameters => ParserInv'
<1> SUFFICES ASSUME ParserInv, ChunkParameters PROVE ParserInv'
    BY Zenon
<1> DEFINE s == "s_chunk_size_almost_done"
<1>1. incall /\ parser.state = "s_chunk_parameters"
    BY Zenon DEF ChunkParameters, At_
<1>2. parser.state \in SizeRead /\ parser.state \in SizeState /\ s \in SizeRead /\ s \in States
    BY Zenon, <1>1 DEF SizeState, SizeRead, States, ChunkState
<1>3. MovesOnly(To(s), s)
    BY Zenon, <1>1, <1>2, SizeFacts, ToMovesOnly
<1>4. CASE Break(Here)
    BY Zenon, <1>1, <1>4, HereKeeps DEF DataState
<1>5. CASE Break(To(s))
    BY <1>1, <1>2, <1>3, <1>5, SizeMoveKeeps
<1> QED BY Zenon, <1>4, <1>5 DEF ChunkParameters

\* The last chunk: the trailer comes next.
TrailFrame == [ResetCount(Here) EXCEPT !.p.state = "s_header_field_start",
                                       !.p.flags = @ \cup {"F_TRAILING"}]

LEMMA TrailFrameIs ==
    ASSUME parser \in ParserRec
    PROVE  /\ TrailFrame.p \in ParserRec /\ TrailFrame.p.state = "s_header_field_start"
           /\ TrailFrame.p.flags = parser.flags \cup {"F_TRAILING"}
           /\ TrailFrame.n = 0 /\ TrailFrame.m = marks /\ TrailFrame.b = body
<1> DEFINE s == "s_header_field_start"
           q == [parser EXCEPT !.nread = 0]
           r == [q EXCEPT !.state = s]
           fl == parser.flags \cup {"F_TRAILING"}
           f == TrailFrame
<1>1. f.p = [r EXCEPT !.flags = fl] /\ f.n = 0 /\ f.m = marks /\ f.b = body
    BY Zenon DEF TrailFrame, ResetCount, Here
<1>2. 0 \in 0..Many /\ s \in States /\ fl \in SUBSET Flags
    BY DEF Many, States, HeaderState, BetweenLines, ParserRec, Flags
<1>3. q \in ParserRec
    BY Zenon, <1>2, PutNread
<1>4. r \in ParserRec
  <2> HIDE DEF q
  <2> QED BY Zenon, <1>2, <1>3, PutState
<1>5. f.p \in ParserRec
  <2> HIDE DEF r, fl, f
  <2> QED BY Zenon, <1>1, <1>2, <1>4, PutFlags
<1>6. f.p.state = s /\ f.p.flags = fl
  <2> HIDE DEF f, fl
  <2> QED BY ONLY Zenon, <1>1, parser \in ParserRec DEF ParserRec
<1> QED BY Zenon, <1>1, <1>5, <1>6

LEMMA LastChunkKeeps ==
    ASSUME ParserInv, incall, parser.state = "s_chunk_size_almost_done",
           Callback("last_chunk", TrailFrame, "advance")
    PROVE  ParserInv'
<1> DEFINE f == TrailFrame
           s == "s_header_field_start"
<1>1. /\ parser \in ParserRec /\ body \in BodyRec /\ marks = {}
      /\ mon \in {"headers", "chunk_end"} /\ "F_CONTENTLENGTH" \notin parser.flags
    BY Zenon, SizeFacts DEF SizeState, SizeRead
<1>2. /\ f.p \in ParserRec /\ f.p.state = s /\ f.p.flags = parser.flags \cup {"F_TRAILING"}
      /\ f.n = 0 /\ f.m = {} /\ f.b = body
    BY Zenon, <1>1, TrailFrameIs
<1> HIDE DEF f
<1>3. Told("last_chunk") = "trailer"
    BY Zenon, <1>1, ToldIs
<1>4. "F_TRAILING" \in f.p.flags /\ "F_CONTENTLENGTH" \notin f.p.flags
    BY Zenon, <1>1, <1>2
<1>5. StoryAt(s, f.p.flags, "trailer")
    BY Zenon, <1>4 DEF StoryAt, BegunState, StartState, FirstElement, SchemaState, UrlState,
            LineState, BetweenLines, BeforeValue, AfterValue, SizeState, SizeRead, DataState,
            LineTold
<1>6. FlagsAt(s, f.p.flags)
    BY Zenon DEF FlagsAt, BegunState, FirstElement, SchemaState, UrlState, LineState, ChunkState,
           SizeState, SizeRead, DataState
<1>7. LengthAt(s, f.p.flags, f.p.content_length, f.b)
    BY Zenon, <1>4 DEF LengthAt, SizeRead
<1>8. /\ WordAt(s, f.p.header_state, f.p.flags) /\ 0 \in 0..Many
      /\ PendAt(s, {}, f.b, "trailer") /\ OpenElement(s) = {}
    BY DEF WordAt, Many, PendAt, DataState, OpenElement, SchemaState, UrlState
<1>9. Fine(f, "trailer")
    BY Zenon, <1>1, <1>2, <1>5, <1>6, <1>7, <1>8 DEF Fine, Sound
<1>10. Callback("last_chunk", f, "advance")
    BY Zenon DEF f
<1> QED BY Zenon, <1>2, <1>3, <1>8, <1>9, <1>10, CallbackKeeps

LEMMA ChunkSizeAlmostDoneKeeps == ParserInv /\ ChunkSizeAlmostDone => ParserInv'
<1> SUFFICES ASSUME ParserInv, ChunkSizeAlmostDone PROVE ParserInv'
    BY Zenon
<1> DEFINE s == "s_chunk_data"
           f == [ResetCount(Here) EXCEPT !.p.state = s]
           len == parser.content_length
<1>1. incall /\ parser.state = "s_chunk_size_almost_done"
    BY Zenon DEF ChunkSizeAlmostDone, At_
<1>2. /\ parser \in ParserRec /\ body \in BodyRec /\ marks = {}
      /\ mon \in {"headers", "chunk_end"} /\ "F_TRAILING" \notin parser.flags
      /\ "F_CHUNKED" \in parser.flags /\ "F_CONTENTLENGTH" \notin parser.flags
      /\ len \in 0..ULLONG_MAX /\ len < ULLONG_MAX
      /\ body.announced = len /\ body.got = 0 /\ body.pend = 0
    BY Zenon, <1>1, SizeFacts DEF SizeState, SizeRead
<1>3. \/ Fail("STRICT") \/ Callback("last_chunk", TrailFrame, "advance")
      \/ len # 0 /\ Callback("chunk_header", f, "advance")
    BY Zenon DEF ChunkSizeAlmostDone, TrailFrame
<1>4. CASE Fail("STRICT")
    BY Zenon, <1>1, <1>4, FailKeeps DEF Errors
<1>5. CASE Callback("last_chunk", TrailFrame, "advance")
    BY Zenon, <1>1, <1>5, LastChunkKeeps
<1>6. CASE len # 0 /\ Callback("chunk_header", f, "advance")
  <2>1. s \in States
      BY Zenon DEF States, ChunkState, DataState
  <2>2. /\ f.p \in ParserRec /\ f.p.state = s /\ f.p.flags = parser.flags
        /\ f.p.content_length = len /\ f.n = 0 /\ f.m = {} /\ f.b = body
      BY Zenon, <1>2, <2>1, ResetTo
  <2>3. Callback("chunk_header", f, "advance")
      BY Zenon, <1>6
  <2> HIDE DEF f
  <2>4. Told("chunk_header") = "chunk"
      BY Zenon, <1>2, ToldIs
  <2>5. len \in 1..(ULLONG_MAX - 1) /\ body.announced = body.got + body.pend + len
      BY <1>2, <1>6, ParserAssumption DEF BodyRec
  <2>6. LengthAt(s, parser.flags, len, body)
      BY Zenon, <2>5 DEF LengthAt, HeaderState, BegunState, FirstElement, SchemaState, UrlState,
           LineState, BetweenLines, BeforeValue, AfterValue, SizeRead
  <2>7. FlagsAt(s, parser.flags)
      BY Zenon, <1>2 DEF FlagsAt
  <2>8. StoryAt(s, parser.flags, "chunk")
      BY Zenon DEF StoryAt, BegunState, StartState, FirstElement, SchemaState, UrlState,
            LineState, BetweenLines, BeforeValue, AfterValue, SizeState, SizeRead, DataState
  <2>9. /\ WordAt(s, f.p.header_state, parser.flags) /\ 0 \in 0..Many
        /\ PendAt(s, {}, body, "chunk") /\ OpenElement(s) = {}
      BY <1>2 DEF WordAt, Many, PendAt, DataState, OpenElement, SchemaState, UrlState
  <2>10. Fine(f, "chunk")
      BY Zenon, <1>2, <2>2, <2>6, <2>7, <2>8, <2>9 DEF Fine, Sound
  <2> QED BY <1>1, <2>2, <2>3, <2>4, <2>9, <2>10, CallbackKeeps
<1> QED BY Zenon, <1>3, <1>4, <1>5, <1>6

LEMMA ChunkDataKeeps == ParserInv /\ ChunkData => ParserInv'
<1> SUFFICES ASSUME ParserInv, ChunkData PROVE ParserInv'
    BY Zenon
<1>1. incall /\ parser.state = "s_chunk_data"
    BY Zenon DEF ChunkData, At_
<1>2. PICK k \in ToRead :
        IF k = parser.content_length
        THEN Break([Took(k) EXCEPT !.p.state = "s_chunk_data_almost_done"])
        ELSE Set(Took(k)) /\ ch' = End /\ UNCHANGED <<incall, again, eof, lines, mon>>
    BY Zenon DEF ChunkData
<1>3. CASE k # parser.content_length
    BY Zenon, <1>1, <1>2, <1>3, TookKeeps
<1>4. CASE k = parser.content_length
  <2> DEFINE s == "s_chunk_data_almost_done"
             f == TookTo(k, s)
             len == parser.content_length
  <2>1. /\ parser \in ParserRec /\ body \in BodyRec /\ nread \in 0..Many
        /\ marks \subseteq {"body"}
        /\ len \in 1..(ULLONG_MAX - 1) /\ len \in Nat
        /\ body.announced = body.got + body.pend + len
        /\ mon \in {"chunk", "data"} /\ "F_TRAILING" \notin parser.flags
        /\ "F_CHUNKED" \in parser.flags /\ "F_CONTENTLENGTH" \notin parser.flags
      BY Zenon, <1>1, BodyFacts
  <2>2. k \in 1..len /\ k \in Nat /\ s \in States
      BY Zenon, <2>1, ToReadIs DEF States, ChunkState, DataState
  <2>3. Break(f)
      BY Zenon, <1>2, <1>4 DEF TookTo
  <2>14. Taken(f, k, s)
      BY Zenon, <2>1, <2>2, TookFrame
  <2> HIDE DEF f
  <2>4. /\ f.p \in ParserRec /\ f.p.state = s /\ f.p.flags = parser.flags
        /\ f.p.content_length = len - k
        /\ f.n = nread /\ f.m = marks \cup {"body"}
        /\ f.b \in BodyRec /\ f.b.announced = body.announced /\ f.b.got = body.got
        /\ f.b.pend = body.pend + k
      BY Zenon, <2>14 DEF Taken
  <2> HIDE DEF f
  <2>5. f.p.content_length = 0 /\ f.b.announced = f.b.got + f.b.pend
      BY <1>4, <2>1, <2>2, <2>4 DEF BodyRec
  <2>6. LengthAt(s, f.p.flags, f.p.content_length, f.b)
      BY Zenon, <2>5 DEF LengthAt, HeaderState, BegunState, FirstElement, SchemaState, UrlState,
           LineState, BetweenLines, BeforeValue, AfterValue, SizeRead
  <2>7. FlagsAt(s, f.p.flags) /\ WordAt(s, f.p.header_state, f.p.flags)
      BY Zenon, <2>1, <2>4 DEF FlagsAt, WordAt
  <2>8. StoryAt(s, f.p.flags, mon)
      BY Zenon, <2>1 DEF StoryAt, BegunState, StartState, FirstElement, SchemaState, UrlState,
            LineState, BetweenLines, BeforeValue, AfterValue, SizeState, SizeRead, DataState
  <2>9. mon # "wrong"
      BY Zenon, <2>1
  <2>10. Fine(f, mon)
      BY Zenon, <2>1, <2>4, <2>6, <2>7, <2>8, <2>9 DEF Fine, Sound
  <2>11. MarksAt(s, f.m)
      BY Zenon, <2>1, <2>4 DEF MarksAt, OpenElement, SchemaState, UrlState, DataState
  <2>12. PendAt(s, f.m, f.b, mon)
      BY Zenon, <2>4 DEF PendAt
  <2>13. Set(f) /\ mon' = mon /\ UNCHANGED <<incall, again, eof>>
      BY Zenon, <2>3 DEF Break
  <2> QED BY Zenon, <1>1, <2>4, <2>10, <2>11, <2>12, <2>13, StepKeeps
<1> QED BY Zenon, <1>3, <1>4

LEMMA ChunkDataAlmostDoneKeeps == ParserInv /\ ChunkDataAlmostDone => ParserInv'
<1> SUFFICES ASSUME ParserInv, ChunkDataAlmostDone PROVE ParserInv'
    BY Zenon
<1> DEFINE s == "s_chunk_data_done"
           f == To(s)
<1>1. incall /\ parser.state = "s_chunk_data_almost_done"
    BY Zenon DEF ChunkDataAlmostDone, At_
<1>2. /\ parser \in ParserRec /\ body \in BodyRec /\ nread \in 0..Many
      /\ StoryAt(parser.state, parser.flags, mon) /\ MarksAt(parser.state, marks)
      /\ PendAt(parser.state, marks, body, mon) /\ FlagsAt(parser.state, parser.flags)
      /\ LengthAt(parser.state, parser.flags, parser.content_length, body)
    BY Zenon, <1>1 DEF ParserInv, Sound
<1>3. /\ marks \subseteq {"body"} /\ mon \in {"chunk", "data"}
      /\ "body" \notin marks => body.pend = 0 /\ mon = "data"
      /\ body.announced = body.got + body.pend
    BY Zenon, <1>1, <1>2 DEF MarksAt, PendAt, StoryAt, LengthAt, OpenElement, SchemaState, UrlState,
                      DataState
<1>4. /\ "F_TRAILING" \notin parser.flags /\ "F_CHUNKED" \in parser.flags
      /\ "F_CONTENTLENGTH" \notin parser.flags
    BY Zenon, <1>1, <1>2 DEF FlagsAt, ChunkState, DataState
<1>5. s \in States
    BY Zenon DEF States, ChunkState
<1>6. MovesOnly(f, s) /\ IsFrame(f)
    BY Zenon, <1>2, <1>5, ToMovesOnly, ToFrame
<1>7. FlagsAt(s, parser.flags) /\ \A h : WordAt(s, h, parser.flags)
    BY Zenon, <1>4 DEF FlagsAt, WordAt
<1>8. StoryAt(s, parser.flags, "data")
    BY Zenon DEF StoryAt, BegunState, StartState, FirstElement, SchemaState, UrlState,
            LineState, BetweenLines, BeforeValue, AfterValue, SizeState, SizeRead, DataState
<1>9. \A len, b : b.got = b.announced => LengthAt(s, parser.flags, len, b)
    BY DEF LengthAt, HeaderState, BegunState, FirstElement, SchemaState, UrlState,
           LineState, BetweenLines, BeforeValue, AfterValue, SizeRead
<1>10. /\ MarksAt(s, {}) /\ OpenElement(s) = {} /\ \A b : PendAt(s, {}, b, "data")
    BY Zenon DEF MarksAt, PendAt, OpenElement, SchemaState, UrlState, DataState
<1>11. Fail("STRICT") \/ DataCallback("body", f, "advance")
    BY Zenon DEF ChunkDataAlmostDone
<1> HIDE DEF f
<1>12. CASE Fail("STRICT")
    BY Zenon, <1>1, <1>12, FailKeeps DEF Errors
<1>13. CASE DataCallback("body", f, "advance") /\ "body" \in marks
  <2>1. f.b \in BodyRec /\ "body" \in f.m
      BY Zenon, <1>2, <1>6, <1>13 DEF MovesOnly
  <2>2. PICK g : Callback("body", g, "advance") /\ Hands(g, f)
      BY Zenon, <1>6, <1>13, <2>1, HandedFrame
  <2>3. /\ g.p = f.p /\ g.n = nread /\ g.m = {} /\ g.b \in BodyRec
        /\ g.b.announced = body.announced /\ g.b.got = body.got + body.pend
      BY Zenon, <1>3, <1>6, <2>2 DEF Hands, MovesOnly
  <2>4. g.p \in ParserRec /\ g.p.state = s /\ g.p.flags = parser.flags
      BY Zenon, <1>6, <2>3 DEF MovesOnly
  <2>5. g.b.got = g.b.announced
      BY Zenon, <1>3, <2>3
  <2>6. Told("body") = "data"
      BY Zenon, <1>3, ToldIs
  <2>7. Fine(g, "data")
      BY Zenon, <1>2, <1>7, <1>8, <1>9, <2>3, <2>4, <2>5 DEF Fine, Sound
  <2> QED BY <1>1, <1>10, <2>2, <2>3, <2>4, <2>6, <2>7, CallbackKeeps
<1>14. CASE DataCallback("body", f, "advance") /\ "body" \notin marks
  <2>1. f.m = marks /\ marks = {} /\ mon = "data"
      BY Zenon, <1>3, <1>6, <1>14 DEF MovesOnly
  <2>2. Break(f)
      BY Zenon, <1>14, <2>1 DEF DataCallback
  <2>3. body.got = body.announced
      BY <1>2, <1>3, <1>14 DEF BodyRec
  <2>4. LengthAt(s, parser.flags, parser.content_length, body)
      BY Zenon, <1>9, <2>3
  <2>5. s \notin DataState \cup {"s_chunk_size_start"}
      BY Zenon DEF DataState
  <2> QED BY <1>1, <1>5, <1>6, <1>7, <1>8, <1>10, <2>1, <2>2, <2>4, <2>5, MoveKeeps
<1> QED BY <1>11, <1>12, <1>13, <1>14

LEMMA ChunkDataDoneKeeps == ParserInv /\ ChunkDataDone => ParserInv'
<1> SUFFICES ASSUME ParserInv, ChunkDataDone PROVE ParserInv'
    BY Zenon
<1> DEFINE s == "s_chunk_size_start"
           f == ResetCount(To(s))
           q == [parser EXCEPT !.state = s]
<1>1. incall /\ parser.state = "s_chunk_data_done"
    BY Zenon DEF ChunkDataDone, At_
<1>2. /\ parser \in ParserRec /\ body \in BodyRec
      /\ StoryAt(parser.state, parser.flags, mon) /\ MarksAt(parser.state, marks)
      /\ FlagsAt(parser.state, parser.flags)
    BY Zenon, <1>1 DEF ParserInv, Sound
<1>3. /\ marks = {} /\ mon = "data" /\ "F_TRAILING" \notin parser.flags
      /\ "F_CHUNKED" \in parser.flags /\ "F_CONTENTLENGTH" \notin parser.flags
    BY Zenon, <1>1, <1>2 DEF MarksAt, StoryAt, FlagsAt, OpenElement, SchemaState, UrlState, DataState,
                      ChunkState
<1>4. CASE Fail("STRICT")
    BY Zenon, <1>1, <1>4, FailKeeps DEF Errors
<1>5. CASE Callback("chunk_complete", f, "advance")
  <2>1. s \in States /\ 0 \in 0..Many
      BY DEF States, ChunkState, SizeState, Many
  <2>2. q \in ParserRec
      BY Zenon, <1>2, <2>1, PutState
  <2>3. f.p = [q EXCEPT !.nread = 0] /\ f.n = 0 /\ f.m = marks /\ f.b = body
      BY Zenon DEF ResetCount, To, Here
  <2>4. Callback("chunk_complete", f, "advance")
      BY Zenon, <1>5
  <2> HIDE DEF f
  <2>5. f.p \in ParserRec
    <3> HIDE DEF q
    <3> QED BY Zenon, <2>1, <2>2, <2>3, PutNread
  <2>6. f.p.state = s /\ f.p.flags = parser.flags /\ f.p.nread = 0
      BY ONLY Zenon, <1>2, <2>3 DEF ParserRec
  <2>7. Told("chunk_complete") = "chunk_end"
      BY Zenon, <1>3, ToldIs
  <2>8. StoryAt(s, parser.flags, "chunk_end")
      BY Zenon DEF StoryAt, BegunState, StartState, FirstElement, SchemaState, UrlState,
            LineState, BetweenLines, BeforeValue, AfterValue, SizeState, SizeRead, DataState
  <2>9. FlagsAt(s, parser.flags) /\ WordAt(s, f.p.header_state, parser.flags)
      BY Zenon, <1>3 DEF FlagsAt, WordAt
  <2>10. LengthAt(s, parser.flags, f.p.content_length, body)
      BY Zenon DEF LengthAt, HeaderState, BegunState, FirstElement, SchemaState, UrlState,
           LineState, BetweenLines, BeforeValue, AfterValue, SizeRead
  <2>11. PendAt(s, {}, body, "chunk_end") /\ OpenElement(s) = {}
      BY Zenon DEF PendAt, DataState, OpenElement, SchemaState, UrlState
  <2>12. Fine(f, "chunk_end")
      BY <1>2, <2>1, <2>3, <2>5, <2>6, <2>8, <2>9, <2>10 DEF Fine, Sound
  <2>13. f.m = {} /\ PendAt(f.p.state, {}, f.b, "chunk_end") /\ OpenElement(f.p.state) = {}
      BY Zenon, <1>3, <2>3, <2>6, <2>11
  <2>14. /\ Fine(f, Told("chunk_complete")) /\ f.n = 0
         /\ PendAt(f.p.state, {}, f.b, Told("chunk_complete"))
      BY Zenon, <2>3, <2>7, <2>12, <2>13
  <2> QED BY Zenon, <1>1, <2>4, <2>6, <2>13, <2>14, CallbackKeeps
<1> QED BY Zenon, <1>4, <1>5 DEF ChunkDataDone

-----------------------------------------------------------------------------
(* The calls.                                                              *)

\* A call that begins inside an element marks that element.
LEMMA StartMarksIs == \A s : StartMarks(s) = OpenElement(s)
<1> SUFFICES ASSUME NEW s PROVE StartMarks(s) = OpenElement(s)
    BY Zenon
<1>1. CASE s = "s_header_field"
    BY Zenon, <1>1 DEF StartMarks, OpenElement, SchemaState, UrlState
<1>2. CASE s = "s_header_value"
    BY Zenon, <1>2 DEF StartMarks, OpenElement, SchemaState, UrlState
<1>3. CASE s = "s_res_status"
    BY Zenon, <1>3 DEF StartMarks, OpenElement, SchemaState, UrlState
<1>4. CASE s \in SchemaState \cup UrlState
  <2>1. s \notin {"s_header_field", "s_header_value", "s_res_status"}
      BY Zenon, <1>4 DEF SchemaState, UrlState
  <2> QED BY Zenon, <1>4, <2>1 DEF StartMarks, OpenElement
<1>5. CASE s \notin SchemaState \cup UrlState \cup {"s_header_field", "s_header_value", "s_res_status"}
    BY Zenon, <1>5 DEF StartMarks, OpenElement
<1> QED BY Zenon, <1>1, <1>2, <1>3, <1>4, <1>5

\* The bytes of a chunk size.
LEMMA SizeInputs ==
    ASSUME parser.state = "s_chunk_size_start"
    PROVE  Inputs(parser) = {"CR", ";", "x"} \cup Digits
<1>1. parser.state \notin DOMAIN Literal
    BY Zenon DEF Literal
<1>2. parser.state \notin StartState \cup SchemaState \cup UrlState \cup LineStart
    BY Zenon DEF StartState, SchemaState, UrlState, LineStart
<1> QED BY Zenon, <1>1, <1>2 DEF Inputs

LEMMA FetchKeeps == ParserInv /\ Fetch => ParserInv'
<1> SUFFICES ASSUME ParserInv, Fetch PROVE ParserInv'
    BY Zenon
<1> DEFINE s == parser.state
           n == IF incall THEN nread ELSE parser.nread
<1>1. /\ ch = None /\ parser.errno = "OK" /\ ~eof
      /\ nread' = (IF PARSING_HEADER(s) /\ n < Many THEN n + 1 ELSE n)
      /\ marks' = (IF incall THEN marks ELSE StartMarks(s))
      /\ incall' = TRUE /\ again' = None /\ UNCHANGED <<parser, eof, mon, body>>
    BY Zenon DEF Fetch, Open
<1>2. /\ Sound(parser, body, mon) /\ StoryAt(s, parser.flags, mon)
      /\ nread \in 0..Many /\ parser.nread \in 0..Many
      /\ IF incall THEN MarksAt(s, marks) ELSE marks = {}
      /\ PendAt(s, marks, body, mon)
    BY <1>1 DEF ParserInv, Sound, ParserRec
<1>3. nread' \in 0..Many
    BY <1>1, <1>2 DEF Many
<1>4. MarksAt(s, marks')
  <2>1. OpenElement(s) \ {"body"} = OpenElement(s) /\ "body" \notin OpenElement(s)
      BY Zenon DEF OpenElement
  <2> QED BY Zenon, <1>1, <1>2, <2>1, StartMarksIs DEF MarksAt
<1>5. PendAt(s, marks', body, mon)
  <2>1. "body" \notin OpenElement(s)
      BY Zenon DEF OpenElement
  <2>2. "body" \notin marks' => "body" \notin marks
      BY Zenon, <1>1, <1>2
  <2> QED BY Zenon, <1>2, <2>2 DEF PendAt
<1>6. s = "s_chunk_size_start" => nread' = 1 /\ ch' \notin {None, End}
  <2> SUFFICES ASSUME s = "s_chunk_size_start" PROVE nread' = 1 /\ ch' \notin {None, End}
      BY Zenon
  <2>1. n = 0 /\ again = None
      BY Zenon, <1>1 DEF ParserInv, Counted
  <2>2. PARSING_HEADER(s)
      BY Zenon DEF PARSING_HEADER, BodyState
  <2>3. ch' \in Inputs(parser)
      BY Zenon, <2>1 DEF Fetch
  <2>4. ch' \notin {None, End}
      BY Zenon, <2>3, SizeInputs, ParserAssumption DEF None, End, Num
  <2> HIDE DEF n
  <2> QED BY <1>1, <2>1, <2>2, <2>4 DEF Many
<1>7. Counted'
    BY Zenon, <1>1, <1>6 DEF Counted
<1>8. eof' \in BOOLEAN /\ incall' \in BOOLEAN /\ (eof' => ~incall')
    BY Zenon, <1>1 DEF ParserInv
<1>9. /\ Sound(parser', body', mon') /\ StoryAt(parser'.state, parser'.flags, mon')
      /\ MarksAt(parser'.state, marks') /\ PendAt(parser'.state, marks', body', mon')
    BY Zenon, <1>1, <1>2, <1>4, <1>5
<1> QED BY <1>1, <1>3, <1>7, <1>8, <1>9 DEF ParserInv

LEMMA HeaderOverflowKeeps == ParserInv /\ HeaderOverflow => ParserInv'
<1> SUFFICES ASSUME ParserInv, HeaderOverflow PROVE ParserInv'
    BY Zenon
<1> DEFINE q == Returned(parser, "HEADER_OVERFLOW", Many)
<1>1. /\ parser' = q /\ nread' = 0 /\ marks' = {} /\ body' = body /\ mon' = mon
      /\ incall' = FALSE /\ eof' = eof /\ ~eof
    BY Zenon DEF HeaderOverflow, Open, Leave, Returned
<1>2. Sound(parser, body, mon) /\ StoryAt(parser.state, parser.flags, mon)
    BY Zenon, <1>1 DEF ParserInv
<1>3. "HEADER_OVERFLOW" \in Errors /\ Many \in 0..Many /\ 0 \in 0..Many
    BY DEF Errors, Many
<1>4. /\ Sound(q, body, mon) /\ q.state = parser.state /\ q.flags = parser.flags
      /\ q.errno = "HEADER_OVERFLOW"
    BY <1>2, <1>3, SoundReturn
<1> HIDE DEF q
<1>5. Sound(parser', body', mon') /\ StoryAt(parser'.state, parser'.flags, mon')
    BY Zenon, <1>1, <1>2, <1>4
<1>6. parser'.errno \notin {"OK", "PAUSED"}
    BY Zenon, <1>1, <1>4
<1>7. Counted'
    BY Zenon, <1>1, <1>6 DEF Counted
<1>8. eof' \in BOOLEAN /\ incall' \in BOOLEAN
    BY Zenon, <1>1 DEF ParserInv
<1> QED BY <1>1, <1>3, <1>5, <1>6, <1>7, <1>8 DEF ParserInv

\* The caller's own steps change errno only.
LEMMA ErrnoKeeps ==
    ASSUME ParserInv, NEW e \in Errors \cup {"OK", "PAUSED"},
           parser' = [parser EXCEPT !.errno = e], mon' # "wrong",
           UNCHANGED <<nread, marks, ch, incall, again, body>>, eof' \in BOOLEAN,
           eof' \/ (mon' = mon /\ ~eof), incall => UNCHANGED <<eof, mon>>,
           e \in {"OK", "PAUSED"} =>
             parser.errno \in {"OK", "PAUSED"} /\ (parser.state \in DataState => mon' = mon)
    PROVE  ParserInv'
<1> DEFINE q == [parser EXCEPT !.errno = e]
<1>1. parser \in ParserRec /\ Sound(parser, body, mon)
    BY Zenon DEF ParserInv, Sound
<1>2. q \in ParserRec
    BY Zenon, <1>1, PutErrno
<1>3. /\ q.state = parser.state /\ q.flags = parser.flags /\ q.errno = e
      /\ q.nread = parser.nread /\ q.content_length = parser.content_length
      /\ q.header_state = parser.header_state
    BY ONLY Zenon, <1>1 DEF ParserRec
<1>4. parser' = q
    BY Zenon
<1> HIDE DEF q
<1>5. Sound(parser', body', mon')
    BY <1>1, <1>2, <1>3, <1>4 DEF Sound
<1>6. eof' \/ StoryAt(parser'.state, parser'.flags, mon')
    BY <1>3, <1>4 DEF ParserInv
<1>7. /\ nread' \in 0..Many /\ incall' = incall /\ (incall' => again' = None)
      /\ IF incall' THEN MarksAt(parser'.state, marks') ELSE marks' = {}
    BY <1>3, <1>4 DEF ParserInv
<1>8. incall' \/ parser'.errno \in {"OK", "PAUSED"} =>
        PendAt(parser'.state, marks', body', mon')
  <2> SUFFICES ASSUME incall \/ e \in {"OK", "PAUSED"}
               PROVE  PendAt(parser.state, marks, body, mon')
      BY Zenon, <1>3, <1>4
  <2>1. PendAt(parser.state, marks, body, mon)
      BY Zenon DEF ParserInv
  <2>2. parser.state \in DataState => mon' = mon
      BY Zenon
  <2> QED BY Zenon, <2>1, <2>2 DEF PendAt, DataState
<1>9. Counted'
    BY <1>3, <1>4 DEF ParserInv, Counted
<1>10. incall' \in BOOLEAN /\ (eof' => ~incall')
  <2>1. incall => (eof' <=> eof)
      BY Zenon
  <2>2. incall \in BOOLEAN /\ (eof => ~incall)
      BY Zenon DEF ParserInv
  <2> QED BY <1>7, <2>1, <2>2
<1> QED BY <1>5, <1>6, <1>7, <1>8, <1>9, <1>10 DEF ParserInv

LEMMA UnpauseKeeps == ParserInv /\ Unpause => ParserInv'
<1> SUFFICES ASSUME ParserInv, Unpause PROVE ParserInv'
    BY Zenon
<1>1. /\ parser.errno = "PAUSED" /\ parser' = [parser EXCEPT !.errno = "OK"]
      /\ UNCHANGED <<nread, marks, ch, incall, again, eof, mon, body>>
    BY Zenon DEF Unpause
<1>2. mon' # "wrong" /\ eof' \in BOOLEAN
    BY Zenon, <1>1 DEF ParserInv, Sound
<1>3. eof' \/ (mon' = mon /\ ~eof)
    BY Zenon, <1>1 DEF ParserInv
<1> QED BY <1>1, <1>2, <1>3, ErrnoKeeps

LEMMA EofCallKeeps == ParserInv /\ EofCall => ParserInv'
<1> SUFFICES ASSUME ParserInv, EofCall PROVE ParserInv'
    BY Zenon
<1>1. /\ ~incall /\ parser.errno = "OK" /\ ~eof /\ eof' = TRUE
      /\ UNCHANGED <<nread, marks, ch, incall, again, body>>
    BY Zenon DEF EofCall, Open
<1>2. /\ parser \in ParserRec /\ mon # "wrong" /\ StoryAt(parser.state, parser.flags, mon)
      /\ FlagsAt(parser.state, parser.flags)
    BY <1>1 DEF ParserInv, Sound
<1>3. CASE parser.state = "s_body_identity_eof"
  <2>1. Told("message_complete") = "idle"
      BY Zenon, <1>2, <1>3, ToldIs DEF StoryAt
  <2>2. PICK r \in Results :
          parser' = [parser EXCEPT !.errno = CASE r = "ok" -> "OK" [] r = "pause" -> "PAUSED"
                                               [] OTHER -> "CB"]
      BY Zenon, <1>3 DEF EofCall
  <2> DEFINE e == CASE r = "ok" -> "OK" [] r = "pause" -> "PAUSED" [] OTHER -> "CB"
  <2>3. e \in Errors \cup {"OK", "PAUSED"}
    <3>1. r \in {"ok", "pause", "error"}
        BY Zenon, ParserAssumption
    <3> QED BY Zenon, <3>1 DEF Errors
  <2>4. mon' = "idle" /\ parser.state \notin DataState
      BY Zenon, <1>3, <2>1 DEF EofCall, DataState
  <2>5. parser' = [parser EXCEPT !.errno = e]
      BY Zenon, <2>2
  <2>6. mon' # "wrong" /\ eof' \in BOOLEAN
      BY Zenon, <1>1, <2>4
  <2> HIDE DEF e
  <2> QED BY Zenon, <1>1, <2>3, <2>4, <2>5, <2>6, ErrnoKeeps
<1>4. CASE parser.state # "s_body_identity_eof"
  <2>1. \/ parser' = parser /\ mon' = mon
        \/ parser' = [parser EXCEPT !.errno = "INVALID_EOF_STATE"] /\ mon' = mon
      BY Zenon, <1>4 DEF EofCall
  <2>2. parser = [parser EXCEPT !.errno = "OK"]
      BY ONLY Zenon, <1>1, <1>2 DEF ParserRec
  <2>3. "INVALID_EOF_STATE" \in Errors
      BY Zenon DEF Errors
  <2>4. PICK e \in {"OK", "INVALID_EOF_STATE"} :
          parser' = [parser EXCEPT !.errno = e] /\ mon' = mon
      BY Zenon, <2>1, <2>2
  <2>5. mon' # "wrong" /\ eof' \in BOOLEAN
      BY Zenon, <1>1, <1>2, <2>4
  <2> QED BY Zenon, <1>1, <2>3, <2>4, <2>5, ErrnoKeeps
<1> QED BY Zenon, <1>3, <1>4

\* The call ends inside an element other than the body: what it has of it is handed over.
LEMMA EndOfElementKeeps ==
    ASSUME ParserInv, incall, NEW kind, kind # "body", OpenElement(parser.state) = {kind},
           DataCallback(kind, Here, "return")
    PROVE  ParserInv'
<1> DEFINE s == parser.state
           fl == parser.flags
<1>1. /\ parser \in ParserRec /\ s \in States /\ StoryAt(s, fl, mon) /\ FlagsAt(s, fl)
      /\ LengthAt(s, fl, parser.content_length, body) /\ WordAt(s, parser.header_state, fl)
    BY Zenon DEF ParserInv, Sound, ParserRec
<1>2. MovesOnly(Here, s) /\ IsFrame(Here)
    BY Zenon, <1>1, HereFields, ToFrame DEF MovesOnly
<1>3. /\ s \in FirstElement \cup {"s_header_field", "s_header_value"}
      /\ s \in FirstElement => kind \in {"url", "status"}
      /\ s = "s_header_field" => kind = "header_field"
      /\ s = "s_header_value" => kind = "header_value"
    BY Zenon DEF OpenElement, FirstElement, SchemaState, UrlState
<1>4. s \notin DataState \cup {"s_chunk_size_start"}
    BY Zenon, <1>3 DEF DataState, FirstElement, SchemaState, UrlState
<1>5. Told(kind) # "wrong" /\ StoryAt(s, fl, Told(kind))
  <2>1. CASE s \in FirstElement
    <3>1. mon \in {"begun", "line"}
        BY Zenon, <1>1, <2>1 DEF StoryAt
    <3>2. Told(kind) = "line"
        BY <1>3, <2>1, <3>1, ToldIs
    <3>3. StoryAt(s, fl, "line")
        BY Zenon, <2>1 DEF StoryAt, BegunState, StartState, FirstElement, SchemaState, UrlState,
            LineState, BetweenLines, BeforeValue, AfterValue, SizeState, SizeRead, DataState
    <3> QED BY Zenon, <3>2, <3>3
  <2>2. CASE s = "s_header_field"
    <3>1. mon \in {LineTold(fl), ValueTold(fl), FieldTold(fl)}
        BY Zenon, <1>1, <2>2 DEF StoryAt
    <3>2. Told(kind) = FieldTold(fl)
        BY <1>3, <2>2, <3>1, ToldIs DEF LineTold, ValueTold, FieldTold
    <3>3. StoryAt(s, fl, FieldTold(fl)) /\ FieldTold(fl) # "wrong"
        BY Zenon, <2>2 DEF StoryAt, BegunState, StartState, FirstElement, SchemaState, UrlState,
            LineState, BetweenLines, BeforeValue, AfterValue, SizeState, SizeRead, DataState,
            FieldTold
    <3> QED BY Zenon, <3>2, <3>3
  <2>3. CASE s = "s_header_value"
    <3>1. mon \in {FieldTold(fl), ValueTold(fl)}
        BY Zenon, <1>1, <2>3 DEF StoryAt
    <3>2. Told(kind) = ValueTold(fl)
        BY <1>3, <2>3, <3>1, ToldIs DEF ValueTold, FieldTold
    <3>3. StoryAt(s, fl, ValueTold(fl)) /\ ValueTold(fl) # "wrong"
        BY Zenon, <2>3 DEF StoryAt, BegunState, StartState, FirstElement, SchemaState, UrlState,
            LineState, BetweenLines, BeforeValue, AfterValue, SizeState, SizeRead, DataState,
            ValueTold
    <3> QED BY Zenon, <3>2, <3>3
  <2> QED BY <1>3, <2>1, <2>2, <2>3
<1> QED BY Zenon, <1>1, <1>2, <1>4, <1>5, ElementKeeps

\* The call ends inside the body.
LEMMA EndOfBodyKeeps ==
    ASSUME ParserInv, incall, "body" \in marks, DataCallback("body", Here, "return")
    PROVE  ParserInv'
<1> DEFINE s == parser.state
           fl == parser.flags
           o == IF s \in DataState THEN "data" ELSE "body"
<1>1. /\ parser \in ParserRec /\ body \in BodyRec /\ nread \in 0..Many
      /\ StoryAt(s, fl, mon) /\ FlagsAt(s, fl) /\ MarksAt(s, marks)
      /\ LengthAt(s, fl, parser.content_length, body) /\ WordAt(s, parser.header_state, fl)
    BY Zenon DEF ParserInv, Sound
<1>2. s \in DataState \cup {"s_body_identity", "s_body_identity_eof"} /\ marks = {"body"}
    BY Zenon, <1>1 DEF MarksAt, OpenElement, SchemaState, UrlState, DataState
<1>3. Here.b \in BodyRec /\ "body" \in Here.m /\ IsFrame(Here)
    BY Zenon, <1>1, HereFields, ToFrame
<1>4. PICK g : Callback("body", g, "return") /\ Hands(g, Here)
    BY Zenon, <1>3, HandedFrame
<1>5. /\ g.p = parser /\ g.n = nread /\ g.m = {} /\ g.b \in BodyRec
      /\ g.b.announced = body.announced /\ g.b.got = body.got + body.pend /\ g.b.pend = 0
    BY Zenon, <1>2, <1>4, HereFields DEF Hands
<1>6. Told("body") = o
  <2>1. s \in DataState => mon \in {"chunk", "data"}
      BY Zenon, <1>1 DEF StoryAt
  <2>2. s \notin DataState => mon \in {"headers", "body"}
      BY Zenon, <1>1, <1>2 DEF StoryAt
  <2> QED BY Zenon, <2>1, <2>2, ToldIs
<1>7. g.b.got + g.b.pend = body.got + body.pend
    BY <1>1, <1>5 DEF BodyRec
<1>8. LengthAt(s, fl, parser.content_length, g.b)
  <2>1. s \notin HeaderState \cup SizeRead \cup {"s_chunk_data_done", "s_message_done"}
      BY Zenon, <1>2 DEF DataState, HeaderState, BegunState, FirstElement, SchemaState, UrlState,
           LineState, BetweenLines, BeforeValue, AfterValue, SizeRead
  <2> QED BY Zenon, <1>1, <1>5, <1>7, <2>1 DEF LengthAt
<1>9. StoryAt(s, fl, o)
    BY Zenon, <1>2 DEF StoryAt, BegunState, StartState, FirstElement, SchemaState, UrlState,
            LineState, BetweenLines, BeforeValue, AfterValue, SizeState, SizeRead, DataState
<1>10. PendAt(s, {}, g.b, o) /\ s # "s_chunk_size_start"
    BY Zenon, <1>2, <1>5 DEF PendAt, DataState
<1>11. o # "wrong"
    BY Zenon
<1> HIDE DEF o
<1>12. Fine(g, o)
    BY Zenon, <1>1, <1>5, <1>8, <1>9, <1>11 DEF Fine, Sound
<1> QED BY Zenon, <1>4, <1>5, <1>6, <1>10, <1>12, CallbackKeeps

LEMMA EndOfDataKeeps == ParserInv /\ EndOfData => ParserInv'
<1> SUFFICES ASSUME ParserInv, EndOfData PROVE ParserInv'
    BY Zenon
<1>1. incall /\ ch \in {None, End} /\ MarksAt(parser.state, marks)
    BY Zenon DEF EndOfData, ParserInv
<1>2. CASE marks = {}
  <2> DEFINE q == [parser EXCEPT !.nread = nread]
             b == body
  <2>1. Leave(q, b, None) /\ mon' = mon
      BY Zenon, <1>2 DEF EndOfData
  <2>2. /\ Sound(parser, b, mon) /\ StoryAt(parser.state, parser.flags, mon)
        /\ nread \in 0..Many /\ PendAt(parser.state, {}, b, mon)
        /\ parser.state = "s_chunk_size_start" => nread = 0
      BY <1>1, <1>2 DEF ParserInv, Counted
  <2>3. parser \in ParserRec
      BY Zenon, <2>2 DEF Sound
  <2>4. q \in ParserRec
      BY Zenon, <2>2, <2>3, PutNread
  <2>5. /\ q.state = parser.state /\ q.flags = parser.flags /\ q.nread = nread
        /\ q.content_length = parser.content_length /\ q.header_state = parser.header_state
      BY ONLY Zenon, <2>3 DEF ParserRec
  <2> HIDE DEF q
  <2>6. Sound(q, b, mon)
      BY Zenon, <2>2, <2>4, <2>5 DEF Sound
  <2> QED BY <1>1, <2>1, <2>2, <2>5, <2>6, LeaveKeeps
<1>3. CASE marks # {}
  <2>1. PICK kind \in marks : DataCallback(kind, Here, "return")
      BY Zenon, <1>3 DEF EndOfData
  <2>2. CASE kind = "body"
      BY Zenon, <1>1, <2>1, <2>2, EndOfBodyKeeps
  <2>3. CASE kind # "body"
    <3>1. OpenElement(parser.state) = {kind}
        BY Zenon, <1>1, <2>3 DEF MarksAt, OpenElement
    <3> QED BY <1>1, <2>1, <2>3, <3>1, EndOfElementKeeps
  <2> QED BY Zenon, <2>2, <2>3
<1> QED BY Zenon, <1>2, <1>3

-----------------------------------------------------------------------------
(* The theorems.                                                           *)

LEMMA InitInv == ParserInit => ParserInv
<1> SUFFICES ASSUME ParserInit PROVE ParserInv
    BY Zenon
<1>1. /\ nread = 0 /\ marks = {} /\ ch = None /\ incall = FALSE /\ again = None /\ eof = FALSE
      /\ mon = "idle" /\ body = NoBody
    BY Zenon DEF ParserInit
<1>2. PICK t \in Types : parser = NewParser(t)
    BY Zenon DEF ParserInit
<1>3. t \in {"REQUEST", "RESPONSE", "BOTH"}
    BY Zenon, ParserAssumption
<1> DEFINE s == CASE t = "REQUEST" -> "s_start_req" [] t = "RESPONSE" -> "s_start_res"
                  [] OTHER -> "s_start_req_or_res"
<1>4. s \in StartState
    BY Zenon, <1>3 DEF StartState
<1>5. /\ parser.type = t /\ parser.flags = {} /\ parser.header_state = "h_general"
      /\ parser.index = 0 /\ parser.nread = 0 /\ parser.state = s /\ parser.content_length = 0
      /\ parser.errno = "OK"
    BY Zenon, <1>2 DEF NewParser
<1>6. parser \in ParserRec
  <2> HIDE DEF s
  <2>1. parser = [type |-> t, flags |-> {}, header_state |-> "h_general", index |-> 0,
                  nread |-> 0, state |-> s, content_length |-> 0, http_major |-> 0,
                  http_minor |-> 0, status_code |-> 0, method |-> "DELETE", errno |-> "OK",
                  upgrade |-> FALSE]
      BY Zenon, <1>2 DEF NewParser, s
  <2>2. s \in States
      BY Zenon, <1>4 DEF States
  <2>3. "h_general" \in Words /\ 0 \in 0..Many
      BY DEF Words, ValueWords, Many
  <2>4. 0 \in 0..ULLONG_MAX
      BY ParserAssumption
  <2> QED BY <1>3, <2>1, <2>2, <2>3, <2>4 DEF ParserRec
<1> HIDE DEF s
<1>7. NoBody \in BodyRec /\ 0 \in 0..Many
    BY DEF NoBody, BodyRec, Many
<1>8. StoryAt(s, {}, "idle")
    BY Zenon, <1>4 DEF StoryAt, BegunState, StartState, FirstElement, SchemaState, UrlState,
            LineState, BetweenLines, BeforeValue, AfterValue, SizeState, SizeRead, DataState
<1>9. FlagsAt(s, {})
    BY Zenon, <1>4 DEF FlagsAt, StartState, ChunkState, SizeState, SizeRead, DataState
<1>10. LengthAt(s, {}, 0, NoBody)
    BY Zenon, <1>4 DEF LengthAt, StartState, HeaderState, BegunState, FirstElement, SchemaState, UrlState,
           LineState, BetweenLines, BeforeValue, AfterValue, SizeRead
<1>11. /\ WordAt(s, "h_general", {}) /\ PendAt(s, {}, NoBody, "idle")
       /\ s # "s_chunk_size_start"
    BY Zenon, <1>4 DEF WordAt, PendAt, StartState, DataState
<1>12. Sound(parser, body, mon)
    BY Zenon, <1>1, <1>5, <1>6, <1>7, <1>9, <1>10, <1>11 DEF Sound
<1> QED BY Zenon, <1>1, <1>5, <1>7, <1>8, <1>11, <1>12 DEF ParserInv, Counted

LEMMA FirstLineKeeps == ParserInv /\ FirstLine => ParserInv'
  BY Zenon, DeadKeeps, StartReqOrResKeeps, ResOrRespHKeeps, StartResKeeps, StartReqKeeps,
     ReqMethodKeeps, LiteralByteKeeps, VersionKeeps, StatusCodeKeeps, StatusKeeps,
     SpacesBeforeUrlKeeps, UrlSchemaKeeps, UrlKeeps, ReqHttpStartKeeps, ReqHttpEndKeeps
     DEF FirstLine

LEMMA HeaderLinesKeeps == ParserInv /\ HeaderLines => ParserInv'
  BY Zenon, HeaderFieldStartKeeps, HeaderFieldKeeps, HeaderValueDiscardWsKeeps,
     HeaderValueKeeps, HeaderValueLwsKeeps, HeaderValueDiscardLwsKeeps, HeadersAlmostDoneKeeps,
     HeadersDoneKeeps DEF HeaderLines

LEMMA BodyKeeps == ParserInv /\ Body => ParserInv'
  BY Zenon, BodyIdentityKeeps, BodyIdentityEofKeeps, MessageDoneKeeps, ChunkSizeStartKeeps,
     ChunkSizeKeeps, ChunkParametersKeeps, ChunkSizeAlmostDoneKeeps, ChunkDataKeeps,
     ChunkDataAlmostDoneKeeps, ChunkDataDoneKeeps DEF Body

LEMMA ParserNextKeeps == ParserInv /\ [ParserNext]_pvars => ParserInv'
<1> SUFFICES ASSUME ParserInv, [ParserNext]_pvars PROVE ParserInv'
    BY Zenon
<1>1. CASE UNCHANGED pvars
    BY <1>1 DEF pvars, ParserInv, Counted
<1>2. CASE Finished
    BY Zenon, <1>1, <1>2 DEF Finished
<1> QED BY Zenon, <1>1, <1>2, FetchKeeps, HeaderOverflowKeeps, EndOfDataKeeps, EofCallKeeps,
           UnpauseKeeps, FirstLineKeeps, HeaderLinesKeeps, BodyKeeps DEF ParserNext

\* Every pass of http_parser_execute and every step of its caller keep the invariant: in
\* each state of the switch the callbacks have told the part of the message before it, the
\* flags and the length are those the state relies on, and the mark is that of the open
\* element.
THEOREM ParserInvariant == ParserSpec => []ParserInv
  BY InitInv, ParserNextKeeps, PTL DEF ParserSpec

\* However the stream is cut into calls, whatever it contains and wherever a callback
\* pauses or fails, the callbacks come in the order of a message.
THEOREM CallbackOrderHolds == ParserSpec => []CallbackOrder
<1>1. ParserInv => CallbackOrder
    BY DEF ParserInv, Sound, CallbackOrder
<1> QED BY <1>1, ParserInvariant, PTL

\* A call that is inside a URL, a status, a field or a value has the mark of that element
\* set, and of no other, also when the call began there.
THEOREM MarkCoversHolds == ParserSpec => []MarkCovers
<1>1. ParserInv => MarkCovers
    BY DEF ParserInv, MarksAt, MarkCovers
<1> QED BY <1>1, ParserInvariant, PTL

\* For every ULLONG_MAX of at least 16, the bytes handed over, the bytes at the mark and the
\* length that is left add up to what Content-Length or the chunk size announced: neither the
\* digits nor the subtraction wrap.
THEOREM BodyExactHolds == ParserSpec => []BodyExact
<1>1. ParserInv => BodyExact
  <2> SUFFICES ASSUME ParserInv PROVE BodyExact
      BY Zenon
  <2> DEFINE s == parser.state
             fl == parser.flags
             len == parser.content_length
  <2>1. /\ LengthAt(s, fl, len, body) /\ WordAt(s, parser.header_state, fl)
        /\ body \in BodyRec /\ len \in 0..ULLONG_MAX
      BY Zenon DEF ParserInv, Sound, ParserRec
  <2>2. s = "s_chunk_size" => body.announced = body.got + body.pend + len
    <3>1. "s_chunk_size" \in SizeRead
        BY Zenon DEF SizeRead
    <3>2. s = "s_chunk_size" => body.announced = len /\ body.got = 0 /\ body.pend = 0
        BY Zenon, <2>1, <3>1 DEF LengthAt
    <3> QED BY <2>1, <3>2, ParserAssumption
  <2>3. s = "s_chunk_data_almost_done" => body.announced = body.got + body.pend + len
      BY <2>1 DEF LengthAt, BodyRec
  <2>4. s \in {"s_body_identity", "s_chunk_data"} => body.announced = body.got + body.pend + len
      BY Zenon, <2>1 DEF LengthAt
  <2>5. s = "s_header_value" /\ parser.header_state = "h_content_length_num" =>
          body.announced = len
    <3>1. "s_header_value" \in HeaderState
        BY Zenon DEF HeaderState
    <3> QED BY Zenon, <2>1, <3>1 DEF LengthAt, WordAt
  <2>6. /\ s = "s_chunk_data_done" => body.got = body.announced
        /\ s = "s_message_done" /\ "F_TRAILING" \notin fl => body.got = body.announced
      BY Zenon, <2>1 DEF LengthAt
  <2> QED BY <2>2, <2>3, <2>4, <2>5, <2>6 DEF BodyExact
<1> QED BY <1>1, ParserInvariant, PTL

\* The assertions of http_parser.c never fail.
THEOREM AssertsHoldAlways == ParserSpec => []AssertsHold
<1>1. ParserInv => AssertsHold
  <2> SUFFICES ASSUME ParserInv PROVE AssertsHold
      BY Zenon
  <2> DEFINE s == parser.state
             fl == parser.flags
             len == parser.content_length
  <2>1. /\ LengthAt(s, fl, len, body) /\ FlagsAt(s, fl) /\ WordAt(s, parser.header_state, fl)
        /\ Counted
      BY Zenon DEF ParserInv, Sound
  <2>2. incall /\ ch \notin {None, End} /\ s = "s_chunk_size_start" => nread = 1
      BY Zenon, <2>1 DEF Counted
  <2>3. s \in ChunkState => "F_CHUNKED" \in fl
      BY Zenon, <2>1 DEF FlagsAt
  <2>4. s \in {"s_body_identity", "s_chunk_data"} => len \notin {0, ULLONG_MAX}
    <3>1. s \in {"s_body_identity", "s_chunk_data"} => len \in 1..(ULLONG_MAX - 1)
        BY Zenon, <2>1 DEF LengthAt
    <3> QED BY <3>1, ParserAssumption
  <2>5. s = "s_chunk_data_almost_done" => len = 0
      BY Zenon, <2>1 DEF LengthAt
  <2>6. s = "s_header_value" =>
          parser.header_state \notin {"h_connection", "h_transfer_encoding", "h_content_length"}
      BY Zenon, <2>1 DEF WordAt, ValueWords
  <2>7. \A k, l \in marks : k = l
    <3>1. CASE incall
      <4>1. MarksAt(s, marks)
          BY Zenon, <3>1 DEF ParserInv
      <4>2. "body" \in marks => OpenElement(s) = {}
          BY Zenon, <4>1 DEF MarksAt, OpenElement, SchemaState, UrlState, DataState
      <4>3. \A k, l \in OpenElement(s) : k = l
          BY Zenon DEF OpenElement
      <4> QED BY <4>1, <4>2, <4>3 DEF MarksAt
    <3>2. CASE ~incall
        BY Zenon, <3>2 DEF ParserInv
    <3> QED BY Zenon, <3>1, <3>2
  <2> QED BY <2>2, <2>3, <2>4, <2>5, <2>6, <2>7
          DEF AssertsHold, ChunkState, SizeState, SizeRead, DataState
<1> QED BY <1>1, ParserInvariant, PTL
=============================================================================
