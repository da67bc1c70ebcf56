----------------------------- MODULE HttpParser -----------------------------
(***************************************************************************)
(* http_parser_execute (http_parser.c): the push parser.  The caller hands *)
(* it the stream in calls cut anywhere; it keeps its place in parser, runs *)
(* the callbacks of settings, and a callback may pause it or fail.         *)
(*                                                                         *)
(* One step is one pass through the switch: Fetch takes the next byte into *)
(* ch, the action of the state handles it, and either drops it (break) or  *)
(* keeps it for the next state (REEXECUTE).  A byte is what the state's    *)
(* case tells apart (Inputs): the letters of a keyword after the first are *)
(* one item, "rest", as HttpWords treats them letter by letter, and so are *)
(* the digits of a status code.  nread is exact up to 1 and then Many.     *)
(***************************************************************************)
EXTENDS HttpTables, TLC

CONSTANTS ULLONG_MAX,      \* largest content_length, and its value for "unknown"
          Types,           \* the enum http_parser_type to start from
          InMethods,       \* methods that occur
          StatusCodes,     \* status codes that occur
          Digits,          \* digits of lengths that occur
          Results,         \* what a callback may do: "ok", "pause", "error"
          Replies,         \* what on_headers_complete may answer, of 0..2
          MaxLines         \* bound: header lines of one message

ASSUME ParserAssumption ==
    /\ ULLONG_MAX \in Nat \ 0..15
    /\ Types \subseteq {"REQUEST", "RESPONSE", "BOTH"}
    /\ InMethods \subseteq Methods /\ Digits \subseteq Num
    /\ Results \subseteq {"ok", "pause", "error"} /\ Replies \subseteq 0..2

VARIABLES parser,          \* struct http_parser
          nread, marks,    \* locals of the call: the header bytes, the *_mark that are set
          ch, incall,      \* the byte at p; whether a call is running
          again,           \* the byte the last call did not consume, that comes next
          eof,             \* the caller has signalled the end (len = 0)
          lines,           \* header lines of this message, for MaxLines
          mon,             \* what the callbacks have told so far
          body             \* bytes of this body or chunk: announced, got, pending at the mark

pvars == <<parser, nread, marks, ch, incall, again, eof, lines, mon, body>>

None == "none"             \* no byte
End == "end"               \* the bytes of this call are used up
Many == 2

\* http_parser_init.
NewParser(t) ==
    [type |-> t, flags |-> {}, header_state |-> "h_general", index |-> 0, nread |-> 0,
     state |-> CASE t = "REQUEST" -> "s_start_req" [] t = "RESPONSE" -> "s_start_res"
                 [] OTHER -> "s_start_req_or_res",
     content_length |-> 0, http_major |-> 0, http_minor |-> 0, status_code |-> 0,
     method |-> "DELETE", errno |-> "OK", upgrade |-> FALSE]

-----------------------------------------------------------------------------
(* Whether the connection goes on.                                         *)

http_message_needs_eof(p) ==
    /\ p.type # "REQUEST"
    /\ p.status_code \div 100 # 1 /\ p.status_code \notin {204, 304}
    /\ "F_SKIPBODY" \notin p.flags
    /\ "F_CHUNKED" \notin p.flags /\ p.content_length = ULLONG_MAX

http_should_keep_alive(p) ==
    /\ IF p.http_major > 0 /\ p.http_minor > 0
       THEN "F_CONNECTION_CLOSE" \notin p.flags
       ELSE "F_CONNECTION_KEEP_ALIVE" \in p.flags
    /\ ~http_message_needs_eof(p)

NEW_MESSAGE(p) ==
    IF ~http_should_keep_alive(p) THEN "s_dead"
    ELSE IF p.type = "REQUEST" THEN "s_start_req" ELSE "s_start_res"

-----------------------------------------------------------------------------
(* States.                                                                 *)

BodyState == {"s_chunk_data", "s_chunk_data_almost_done", "s_chunk_data_done",
              "s_body_identity", "s_body_identity_eof", "s_message_done"}
PARSING_HEADER(s) == s \notin BodyState

StartState == {"s_start_req", "s_start_res", "s_start_req_or_res"}
SchemaState == {"s_req_schema", "s_req_schema_slash", "s_req_schema_slash_slash",
                "s_req_server_start"}
UrlState == {"s_req_server", "s_req_server_with_at", "s_req_path",
             "s_req_query_string_start", "s_req_query_string",
             "s_req_fragment_start", "s_req_fragment"}
LineStart == {"s_header_field_start", "s_header_value_lws", "s_header_value_discard_lws"}
Digit(c) == IF c = "a" THEN 10 ELSE DigitValue[c]

\* States that accept one character: it, the next state and the error otherwise.
Literal ==
    [ s_res_H |-> <<"T", "s_res_HT", "STRICT">>,
      s_res_HT |-> <<"T", "s_res_HTT", "STRICT">>,
      s_res_HTT |-> <<"P", "s_res_HTTP", "STRICT">>,
      s_res_HTTP |-> <<"/", "s_res_http_major", "STRICT">>,
      s_res_http_dot |-> <<".", "s_res_http_minor", "INVALID_VERSION">>,
      s_res_http_end |-> <<"SP", "s_res_first_status_code", "INVALID_VERSION">>,
      s_res_line_almost_done |-> <<"LF", "s_header_field_start", "STRICT">>,
      s_req_http_H |-> <<"T", "s_req_http_HT", "STRICT">>,
      s_req_http_HT |-> <<"T", "s_req_http_HTT", "STRICT">>,
      s_req_http_HTT |-> <<"P", "s_req_http_HTTP", "STRICT">>,
      s_req_http_I |-> <<"C", "s_req_http_IC", "STRICT">>,
      s_req_http_IC |-> <<"E", "s_req_http_HTTP", "STRICT">>,
      s_req_http_HTTP |-> <<"/", "s_req_http_major", "STRICT">>,
      s_req_http_dot |-> <<".", "s_req_http_minor", "INVALID_VERSION">>,
      s_req_line_almost_done |-> <<"LF", "s_header_field_start", "LF_EXPECTED">>,
      s_header_almost_done |-> <<"LF", "s_header_value_lws", "LF_EXPECTED">>,
      s_header_value_discard_ws_almost_done |-> <<"LF", "s_header_value_discard_lws", "STRICT">> ]

\* A word that is being matched, and the header_state when its rest has come.
Complete ==
    [ h_matching_transfer_encoding |-> "h_transfer_encoding",
      h_matching_upgrade |-> "h_upgrade",
      h_matching_transfer_encoding_chunked |-> "h_transfer_encoding_chunked",
      h_matching_connection_keep_alive |-> "h_connection_keep_alive",
      h_matching_connection_close |-> "h_connection_close",
      h_matching_connection_upgrade |-> "h_connection_upgrade" ]

\* The bytes a state tells apart; "x" is one that none of its cases names, "bad" one that
\* no header may contain.  Proxy-Connection, which is treated as Connection, is left out.
Inputs(p) ==
    CASE p.state \in DOMAIN Literal -> {Literal[p.state][1], "x"}
      [] p.state \in StartState \cup {"s_dead"} -> {"CR", "LF", "H", "x"} \cup InMethods
      [] p.state = "s_res_or_resp_H" -> {"T", "E", "x"}
      [] p.state \in {"s_res_http_major", "s_req_http_major"} -> {"1", "x"}
      [] p.state \in {"s_res_http_minor", "s_req_http_minor"} -> {"0", "1", "x"}
      [] p.state = "s_res_first_status_code" -> {"SP", "x"} \cup {ToString(n) : n \in StatusCodes}
      [] p.state = "s_res_status_code" -> {"SP", "CR", "LF", "0", "x"}
      [] p.state \in {"s_res_status_start", "s_res_status"} -> {"CR", "LF", "x"}
      [] p.state = "s_req_method" -> {"rest", "SP", "x"}
      [] p.state \in {"s_req_spaces_before_url"} \cup SchemaState \cup UrlState ->
           {"SP", "CR", "LF", "h", "/", ":", "?", "#", "@", "x"}
      [] p.state = "s_req_http_start" -> {"SP", "H", "I", "x"}
      [] p.state = "s_req_http_end" -> {"CR", "LF", "x"}
      [] p.state \in LineStart ->
           {"CR", "LF", "SP", "bad"}
             \cup (IF lines < MaxLines THEN {"c", "t", "u", "x"} ELSE {})
      [] p.state = "s_header_field" ->
           {":", "x", "bad", "rest"} \cup (IF p.header_state = "h_C"
                                           THEN {"onnection", "ontent-length"} ELSE {})
      [] p.state = "s_header_value_discard_ws" ->
           {"SP", "CR", "LF", "x"}
             \cup (CASE p.header_state = "h_content_length" -> Digits
                     [] p.header_state = "h_transfer_encoding" -> {"c"}
                     [] p.header_state = "h_connection" -> {"k", "c", "u", ","}
                     [] OTHER -> {})
      [] p.state = "s_header_value" ->
           {"SP", "CR", "LF", "bad", "x"}
             \cup (CASE p.header_state = "h_content_length_num" -> Digits
                     [] p.header_state = "h_matching_connection_token_start" -> {"k", "c", "u", ","}
                     [] p.header_state \in DOMAIN Complete -> {"rest", ","}
                     [] p.header_state \in {"h_general", "h_content_length_ws"} -> {}
                     [] OTHER -> {","})
      [] p.state \in {"s_headers_almost_done", "s_headers_done", "s_chunk_size_almost_done",
                      "s_chunk_data_done"} -> {"LF", "x"}
      [] p.state = "s_chunk_data_almost_done" -> {"CR", "x"}
      [] p.state \in {"s_chunk_size_start", "s_chunk_size", "s_chunk_parameters"} ->
           {"CR", ";", "x"} \cup Digits
      [] OTHER -> {"x"}

-----------------------------------------------------------------------------
(* The frame of a step: what it leaves in the struct and in the locals.    *)

Here == [p |-> parser, n |-> nread, m |-> marks, b |-> body]
To(s) == [Here EXCEPT !.p.state = s]

Set(f) == parser' = f.p /\ nread' = f.n /\ marks' = f.m /\ body' = f.b

\* break: on to the next byte.
Break(f) == Set(f) /\ ch' = None /\ UNCHANGED <<incall, again, eof, lines, mon>>

\* REEXECUTE: the same byte in the new state.
Reexecute(f) == Set(f) /\ UNCHANGED <<ch, incall, again, eof, lines, mon>>

\* The call returns; left is the byte it did not consume.
Leave(p, b, left) ==
    /\ parser' = p /\ nread' = 0 /\ marks' = {} /\ body' = b
    /\ ch' = None /\ incall' = FALSE /\ again' = left
    /\ UNCHANGED <<eof, lines>>

\* SET_ERRNO and goto error.
Fail(e) ==
    /\ Leave([parser EXCEPT !.errno = e, !.nread = nread], body, None)
    /\ UNCHANGED mon

\* What the callbacks tell: where a callback may come, and where that leads.
Story ==
    [ message_begin |-> [idle |-> "begun"],
      url |-> [begun |-> "line", line |-> "line"],
      status |-> [begun |-> "line", line |-> "line"],
      header_field |-> [line |-> "field", value |-> "field", field |-> "field",
                        trailer |-> "tfield", tvalue |-> "tfield", tfield |-> "tfield"],
      header_value |-> [field |-> "value", value |-> "value",
                        tfield |-> "tvalue", tvalue |-> "tvalue"],
      headers_complete |-> [line |-> "headers", value |-> "headers"],
      body |-> [headers |-> "body", body |-> "body", chunk |-> "data", data |-> "data"],
      chunk_header |-> [headers |-> "chunk", chunk_end |-> "chunk"],
      last_chunk |-> [headers |-> "trailer", chunk_end |-> "trailer"],
      chunk_complete |-> [data |-> "chunk_end", trailer |-> "all", tvalue |-> "all"],
      message_complete |-> [headers |-> "idle", body |-> "idle", all |-> "idle"] ]

Told(cb) == IF mon \in DOMAIN Story[cb] THEN Story[cb][mon] ELSE "wrong"

\* A callback, and what follows when it returns 0: "advance" (break), "stay" (REEXECUTE),
\* "return".  One that pauses leaves parser->nread as it was at the last return: the
\* bytes counted in this call are forgotten; so is the byte, when it was consumed.
Callback(cb, f, after) ==
    /\ mon' = Told(cb)
    /\ \/ /\ "ok" \in Results /\ after # "return"
          /\ Set(f) /\ ch' = (IF after = "stay" THEN ch ELSE None)
          /\ UNCHANGED <<incall, again, eof, lines>>
       \/ /\ "ok" \in Results /\ after = "return"
          /\ Leave([f.p EXCEPT !.nread = f.n], f.b, None)
       \/ /\ "pause" \in Results
          /\ Leave([f.p EXCEPT !.errno = "PAUSED"], f.b, IF after = "stay" THEN ch ELSE None)
       \/ /\ "error" \in Results
          /\ Leave([f.p EXCEPT !.errno = "CB", !.nread = f.n], f.b, None)

\* The bytes at the mark are handed over.
Handed(b) == [announced |-> b.announced, got |-> b.got + b.pend, pend |-> 0]

\* CALLBACK_DATA_: runs only when the mark is set, and clears it.
DataCallback(kind, f, after) ==
    LET g == [f EXCEPT !.m = @ \ {kind}, !.b = IF kind = "body" THEN Handed(@) ELSE @]
    IN  IF kind \in f.m THEN Callback(kind, g, after)
        ELSE IF after = "stay" THEN Reexecute(f) ELSE Break(f)

MARK(f, kind) == [f EXCEPT !.m = @ \cup {kind}]

-----------------------------------------------------------------------------
(* A call.                                                                 *)

\* Mutant: a call that begins right after the '?' sets no mark.
StartMarksNoQuery(s) ==
    CASE s = "s_header_field" -> {"header_field"}
      [] s = "s_header_value" -> {"header_value"}
      [] s \in SchemaState \cup (UrlState \ {"s_req_query_string_start"}) -> {"url"}
      [] s = "s_res_status" -> {"status"}
      [] OTHER -> {}

\* The marks set when a call begins inside an element.
StartMarks(s) ==
    CASE s = "s_header_field" -> {"header_field"}
      [] s = "s_header_value" -> {"header_value"}
      [] s \in SchemaState \cup UrlState -> {"url"}
      [] s = "s_res_status" -> {"status"}
      [] OTHER -> {}

\* After the message that switches protocols the caller stops, as http_parser.h asks of it.
Open == parser.errno = "OK" /\ ~eof /\ ~(parser.upgrade /\ mon = "idle")

\* The next byte, in the running call or in a new one.  A header byte is counted and may
\* be one too many for max_header_size, which no header of one byte reaches.
Fetch ==
    LET n == IF incall THEN nread ELSE parser.nread
    IN  /\ ch = None /\ Open
        /\ \E c \in IF again # None THEN {again} ELSE Inputs(parser) :
             /\ ch' = c
             /\ lines' = IF parser.state \in StartState THEN 0
                         ELSE IF /\ again = None /\ parser.state \in LineStart
                                 /\ c \in {"c", "t", "u", "x"}
                         THEN lines + 1 ELSE lines
        /\ nread' = IF PARSING_HEADER(parser.state) /\ n < Many THEN n + 1 ELSE n
        /\ marks' = IF incall THEN marks ELSE StartMarks(parser.state)
        /\ incall' = TRUE /\ again' = None
        /\ UNCHANGED <<parser, eof, mon, body>>

\* COUNT_HEADER_SIZE fails.
HeaderOverflow ==
    /\ ch = None /\ Open
    /\ PARSING_HEADER(parser.state)
    /\ (IF incall THEN nread ELSE parser.nread) = Many
    /\ Leave([parser EXCEPT !.errno = "HEADER_OVERFLOW", !.nread = Many], body, None)
    /\ UNCHANGED mon

\* The bytes of the call are used up: the element that is open is handed over.
EndOfData ==
    /\ incall /\ ch \in {None, End}
    /\ IF marks = {}
       THEN Leave([parser EXCEPT !.nread = nread], body, None) /\ UNCHANGED mon
       ELSE \E kind \in marks : DataCallback(kind, Here, "return")

\* A call with len = 0.
EofCall ==
    /\ ~incall /\ Open /\ again = None
    /\ eof' = TRUE
    /\ IF parser.state = "s_body_identity_eof"
       THEN /\ mon' = Told("message_complete")
            /\ \E r \in Results :
                 parser' = [parser EXCEPT !.errno = CASE r = "ok" -> "OK" [] r = "pause" -> "PAUSED"
                                                      [] OTHER -> "CB"]
       ELSE /\ parser' = IF parser.state \in StartState \cup {"s_dead"} THEN parser
                         ELSE [parser EXCEPT !.errno = "INVALID_EOF_STATE"]
            /\ UNCHANGED mon
    /\ UNCHANGED <<nread, marks, ch, incall, again, lines, body>>

\* http_parser_pause(parser, 0).
Unpause ==
    /\ parser.errno = "PAUSED"
    /\ parser' = [parser EXCEPT !.errno = "OK"]
    /\ UNCHANGED <<nread, marks, ch, incall, again, eof, lines, mon, body>>

\* The parser in an error state, or after the end.
Finished ==
    /\ parser.errno # "PAUSED" /\ ~Open
    /\ UNCHANGED pvars

At_(s) == incall /\ ch \notin {None, End} /\ parser.state = s
In(S) == incall /\ ch \notin {None, End} /\ parser.state \in S

-----------------------------------------------------------------------------
(* The first line.                                                         *)

Dead ==
    /\ At_("s_dead")
    /\ IF ch \in {"CR", "LF"} THEN Break(Here) ELSE Fail("CLOSED_CONNECTION")

\* A new message: nothing of the one before is left in the flags or in the length.
NoBody == [announced |-> 0, got |-> 0, pend |-> 0]
Fresh(f) == [f EXCEPT !.p.flags = {}, !.p.content_length = ULLONG_MAX, !.b = NoBody]

StartReqOrRes ==
    /\ At_("s_start_req_or_res")
    /\ \/ ch \in {"CR", "LF"} /\ Break(Here)
       \/ ch = "H" /\ Callback("message_begin", Fresh(To("s_res_or_resp_H")), "advance")
       \/ /\ ch \notin {"CR", "LF", "H"}
          /\ Reexecute([Fresh(To("s_start_req")) EXCEPT !.p.type = "REQUEST"])

ResOrRespH ==
    /\ At_("s_res_or_resp_H")
    /\ \/ ch = "T" /\ Break([To("s_res_HT") EXCEPT !.p.type = "RESPONSE"])
       \/ /\ ch = "E"
          /\ Break([To("s_req_method") EXCEPT !.p.type = "REQUEST", !.p.method = "HEAD",
                                              !.p.index = 1])
       \/ ch \notin {"T", "E"} /\ Fail("INVALID_CONSTANT")

StartRes ==
    /\ At_("s_start_res")
    /\ \/ ch \in {"CR", "LF"} /\ Break(Here)
       \/ ch = "H" /\ Callback("message_begin", Fresh(To("s_res_H")), "advance")
       \/ ch \notin {"CR", "LF", "H"} /\ Fail("INVALID_CONSTANT")

\* The byte is the first letter of the method it turns out to be; index is 1 until the
\* rest of the word has come, then 2.
StartReq ==
    /\ At_("s_start_req")
    /\ \/ ch \in {"CR", "LF"} /\ Break(Here)
       \/ /\ ch \in InMethods
          /\ Callback("message_begin",
                      [Fresh(To("s_req_method")) EXCEPT !.p.method = ch, !.p.index = 1], "advance")
       \/ ch \notin {"CR", "LF"} \cup InMethods /\ Fail("INVALID_METHOD")

ReqMethod ==
    /\ At_("s_req_method")
    /\ \/ ch = "rest" /\ parser.index = 1 /\ Break([Here EXCEPT !.p.index = 2])
       \/ /\ ch = "SP" /\ parser.index = 2
          /\ Break([To("s_req_spaces_before_url") EXCEPT !.p.index = 0])
       \/ <<ch, parser.index>> \notin {<<"rest", 1>>, <<"SP", 2>>} /\ Fail("INVALID_METHOD")

\* A fixed character.
LiteralByte ==
    /\ In(DOMAIN Literal)
    /\ LET l == Literal[parser.state]
       IN  IF ch = l[1] THEN Break(To(l[2])) ELSE Fail(l[3])

Version ==
    /\ In({"s_res_http_major", "s_res_http_minor", "s_req_http_major", "s_req_http_minor"})
    /\ IF ch \notin Num THEN Fail("INVALID_VERSION")
       ELSE Break(CASE parser.state = "s_res_http_major" ->
                         [To("s_res_http_dot") EXCEPT !.p.http_major = DigitValue[ch]]
                    [] parser.state = "s_res_http_minor" ->
                         [To("s_res_http_end") EXCEPT !.p.http_minor = DigitValue[ch]]
                    [] parser.state = "s_req_http_major" ->
                         [To("s_req_http_dot") EXCEPT !.p.http_major = DigitValue[ch]]
                    [] OTHER -> [To("s_req_http_end") EXCEPT !.p.http_minor = DigitValue[ch]])

StatusCode ==
    \/ /\ At_("s_res_first_status_code")
       /\ \/ ch = "SP" /\ Break(Here)
          \/ \E n \in StatusCodes :
               ch = ToString(n) /\ Break([To("s_res_status_code") EXCEPT !.p.status_code = n])
          \/ ch = "x" /\ Fail("INVALID_STATUS")
    \/ /\ At_("s_res_status_code")
       /\ \/ ch = "SP" /\ Break(To("s_res_status_start"))
          \/ ch \in {"CR", "LF"} /\ Reexecute(To("s_res_status_start"))
          \/ ch \in {"0", "x"} /\ Fail("INVALID_STATUS")     \* a fourth digit: over 999

Status ==
    \/ /\ At_("s_res_status_start")
       /\ LET f == MARK(To("s_res_status"), "status")
          IN  IF ch \in {"CR", "LF"} THEN Reexecute(f) ELSE Break(f)
    \/ /\ At_("s_res_status")
       /\ \/ ch = "CR" /\ DataCallback("status", To("s_res_line_almost_done"), "advance")
          \/ ch = "LF" /\ DataCallback("status", To("s_header_field_start"), "advance")
          \/ ch \notin {"CR", "LF"} /\ Break(Here)

UrlByteTo(s, f) == IF s = "s_dead" THEN Fail("INVALID_URL") ELSE Break([f EXCEPT !.p.state = s])

SpacesBeforeUrl ==
    /\ At_("s_req_spaces_before_url")
    /\ \/ ch = "SP" /\ Break(Here)
       \/ /\ ch # "SP"
          /\ UrlByteTo(parse_url_char(IF parser.method = "CONNECT" THEN "s_req_server_start"
                                      ELSE "s_req_spaces_before_url", ch),
                       MARK(Here, "url"))

\* The states of the URL that accept no blank.
UrlSchema == In(SchemaState) /\ UrlByteTo(parse_url_char(parser.state, ch), Here)

\* The states of the URL that may be its last.
Url ==
    /\ In(UrlState)
    /\ \/ ch = "SP" /\ DataCallback("url", To("s_req_http_start"), "advance")
       \/ /\ ch \in {"CR", "LF"}
          /\ DataCallback("url",
               [To(IF ch = "CR" THEN "s_req_line_almost_done" ELSE "s_header_field_start")
                  EXCEPT !.p.http_major = 0, !.p.http_minor = 9], "advance")
       \/ /\ ch \notin {"SP", "CR", "LF"}
          /\ UrlByteTo(parse_url_char(parser.state, ch), Here)

ReqHttpStart ==
    /\ At_("s_req_http_start")
    /\ \/ ch = "SP" /\ Break(Here)
       \/ ch = "H" /\ Break(To("s_req_http_H"))
       \/ ch = "I" /\ parser.method = "SOURCE" /\ Break(To("s_req_http_I"))
       \/ /\ ch \notin {"SP", "H"} /\ ~(ch = "I" /\ parser.method = "SOURCE")
          /\ Fail("INVALID_CONSTANT")

ReqHttpEnd ==
    /\ At_("s_req_http_end")
    /\ \/ ch = "CR" /\ Break(To("s_req_line_almost_done"))
       \/ ch = "LF" /\ Break(To("s_header_field_start"))
       \/ ch = "x" /\ Fail("INVALID_VERSION")

-----------------------------------------------------------------------------
(* The header lines.                                                       *)

HeaderFieldStart ==
    /\ At_("s_header_field_start")
    /\ \/ ch = "CR" /\ Break(To("s_headers_almost_done"))
       \/ ch = "LF" /\ Reexecute(To("s_headers_almost_done"))
       \/ /\ ch \in {"c", "t", "u", "x"}
          /\ Break([MARK(To("s_header_field"), "header_field")
                      EXCEPT !.p.header_state = s_header_field_start(ch).header_state])
       \/ ch \in {"SP", "bad"} /\ Fail("INVALID_HEADER_TOKEN")

HeaderField ==
    LET h == parser.header_state
        next == CASE h = "h_C" /\ ch = "onnection" -> "h_connection"
                  [] h = "h_C" /\ ch = "ontent-length" -> "h_content_length"
                  [] h \in DOMAIN Complete /\ ch = "rest" -> Complete[h]
                  [] OTHER -> "h_general"
    IN  /\ At_("s_header_field")
        /\ \/ ch = ":" /\ DataCallback("header_field", To("s_header_value_discard_ws"), "advance")
           \/ ch = "bad" /\ Fail("INVALID_HEADER_TOKEN")
           \/ ch \notin {":", "bad"} /\ Break([Here EXCEPT !.p.header_state = next])

\* s_header_value_start: the first byte of a value, or of its continuation.
ValueStart ==
    LET f == MARK(To("s_header_value"), "header_value")
        h == parser.header_state
        next == CASE h = "h_transfer_encoding" /\ ch = "c" -> "h_matching_transfer_encoding_chunked"
                  [] h = "h_connection" -> TokenStart(ch, "h_matching_connection_token")
                  [] h \in {"h_content_length_ws", "h_matching_connection_token_start"} -> h
                  [] OTHER -> "h_general"
    IN  IF h # "h_content_length"
        THEN Break([f EXCEPT !.p.header_state = next,
                             !.p.flags = @ \cup IF h = "h_upgrade" THEN {"F_UPGRADE"} ELSE {}])
        ELSE IF ch \notin Num THEN Fail("INVALID_CONTENT_LENGTH")
        ELSE IF "F_CONTENTLENGTH" \in parser.flags THEN Fail("UNEXPECTED_CONTENT_LENGTH")
        ELSE Break([f EXCEPT !.p.header_state = "h_content_length_num",
                             !.p.flags = @ \cup {"F_CONTENTLENGTH"},
                             !.p.content_length = DigitValue[ch],
                             !.b = [announced |-> DigitValue[ch], got |-> 0, pend |-> 0]])

HeaderValueDiscardWs ==
    \/ /\ At_("s_header_value_discard_ws")
       /\ \/ ch = "SP" /\ Break(Here)
          \/ ch = "CR" /\ Break(To("s_header_value_discard_ws_almost_done"))
          \/ ch = "LF" /\ Break(To("s_header_value_discard_lws"))
          \/ ch \notin {"SP", "CR", "LF"} /\ ValueStart
    \/ At_("s_header_value_start") /\ ValueStart

\* Mutant: no test against the limit.
MoreDigitsWrap(r, d, e) ==
    Break([Here EXCEPT !.p.content_length = (@ * r + d) % (ULLONG_MAX + 1),
                       !.b.announced = @ * r + d])

\* One more digit of a length in base r; the test keeps the product inside the type.
MoreDigits(r, d, e) ==
    IF (ULLONG_MAX - r) \div r < parser.content_length THEN Fail(e)
    ELSE Break([Here EXCEPT !.p.content_length = (@ * r + d) % (ULLONG_MAX + 1),
                            !.b.announced = @ * r + d])

\* Inside a value of Connection or Transfer-Encoding.
NextValue(h, c) ==
    CASE h \in DOMAIN Complete ->
           IF c = "rest" THEN Complete[h]
           ELSE IF h = "h_matching_transfer_encoding_chunked" THEN "h_general"
           ELSE "h_matching_connection_token"
      [] h = "h_transfer_encoding_chunked" -> IF c = "SP" THEN h ELSE "h_general"
      [] h = "h_matching_connection_token_start" ->
           TokenStart(c, CASE c = "SP" -> h [] c = "," -> "h_general"
                           [] OTHER -> "h_matching_connection_token")
      [] h = "h_matching_connection_token" ->
           IF c = "," THEN "h_matching_connection_token_start" ELSE h
      [] h \in {"h_connection_keep_alive", "h_connection_close", "h_connection_upgrade"} ->
           CASE c = "," -> "h_matching_connection_token_start" [] c = "SP" -> h
             [] OTHER -> "h_matching_connection_token"
      [] OTHER -> "h_general"

HeaderValue ==
    LET h == parser.header_state
    IN  /\ At_("s_header_value")
        /\ \/ ch = "CR" /\ DataCallback("header_value", To("s_header_almost_done"), "advance")
           \/ ch = "LF" /\ DataCallback("header_value", To("s_header_almost_done"), "stay")
           \/ ch = "bad" /\ Fail("INVALID_HEADER_TOKEN")
           \/ /\ ch \notin {"CR", "LF", "bad"} /\ h = "h_content_length_num"
              /\ IF ch = "SP" THEN Break([Here EXCEPT !.p.header_state = "h_content_length_ws"])
                 ELSE IF ch \notin Num THEN Fail("INVALID_CONTENT_LENGTH")
                 ELSE MoreDigits(10, DigitValue[ch], "INVALID_CONTENT_LENGTH")
           \/ /\ ch \notin {"CR", "LF", "bad"} /\ h = "h_content_length_ws"
              /\ IF ch = "SP" THEN Break(Here) ELSE Fail("INVALID_CONTENT_LENGTH")
           \/ /\ ch \notin {"CR", "LF", "bad"}
              /\ h \notin {"h_content_length_num", "h_content_length_ws"}
              /\ Break([Here EXCEPT
                   !.p.header_state = NextValue(h, ch),
                   !.p.flags = @ \cup IF ch = "," /\ h # "h_transfer_encoding_chunked"
                                      THEN FlagOf(h) ELSE {}])

\* After the line end: a blank continues the value, anything else has finished it.
HeaderValueLws ==
    /\ At_("s_header_value_lws")
    /\ IF ch = "SP"
       THEN Reexecute([To("s_header_value_start") EXCEPT
                         !.p.header_state = IF @ = "h_content_length_num" THEN "h_content_length_ws"
                                            ELSE @])
       ELSE Reexecute([To("s_header_field_start") EXCEPT
                         !.p.flags = @ \cup FlagOf(parser.header_state)])

\* Mutant: the value callback is left out for an empty value.
DiscardLwsNoMark ==
    /\ At_("s_header_value_discard_lws")
    /\ \/ ch = "SP" /\ Break(To("s_header_value_discard_ws"))
       \/ ch # "SP" /\ Reexecute(To("s_header_field_start"))

\* The value was empty.
HeaderValueDiscardLws ==
    /\ At_("s_header_value_discard_lws")
    /\ \/ ch = "SP" /\ Break(To("s_header_value_discard_ws"))
       \/ /\ ch # "SP" /\ parser.header_state = "h_content_length"
          /\ Fail("INVALID_CONTENT_LENGTH")
       \/ /\ ch # "SP" /\ parser.header_state # "h_content_length"
          /\ DataCallback("header_value",
               [MARK(To("s_header_field_start"), "header_value") EXCEPT
                  !.p.flags = @ \cup FlagOf(parser.header_state)], "stay")

-----------------------------------------------------------------------------
(* The end of the headers.                                                 *)

\* Mutant: only the struct is reset, and the return of the call undoes it.
ResetStruct(f) == [f EXCEPT !.p.nread = 0]

\* parser->nread = 0; nread = 0.
ResetCount(f) == [f EXCEPT !.p.nread = 0, !.n = 0]

\* on_headers_complete may say that no body follows (1), or that the connection is
\* another protocol's from here on (2).
HeadersComplete(p) ==
    /\ mon' = Told("headers_complete")
    /\ \E r \in Replies :
         LET q == [p EXCEPT !.flags = IF r > 0 THEN @ \cup {"F_SKIPBODY"} ELSE @,
                            !.upgrade = @ \/ r = 2]
         IN  \/ /\ "ok" \in Results
                /\ Set([Here EXCEPT !.p = q])
                /\ UNCHANGED <<ch, incall, again, eof, lines>>
             \/ /\ "pause" \in Results
                /\ Leave([q EXCEPT !.errno = "PAUSED", !.nread = nread], body, ch)
             \/ /\ "error" \in Results
                /\ Leave([p EXCEPT !.errno = "CB", !.nread = nread], body, None)

HeadersAlmostDone ==
    /\ At_("s_headers_almost_done")
    /\ \/ ch # "LF" /\ Fail("STRICT")
       \/ /\ ch = "LF" /\ "F_TRAILING" \in parser.flags
          /\ Callback("chunk_complete", To("s_message_done"), "stay")
       \/ /\ ch = "LF" /\ "F_TRAILING" \notin parser.flags
          /\ IF {"F_CHUNKED", "F_CONTENTLENGTH"} \subseteq parser.flags
             THEN Fail("UNEXPECTED_CONTENT_LENGTH")
             ELSE HeadersComplete(
                    [parser EXCEPT !.state = "s_headers_done",
                       !.upgrade = IF {"F_UPGRADE", "F_CONNECTION_UPGRADE"} \subseteq parser.flags
                                   THEN parser.type = "REQUEST" \/ parser.status_code = 101
                                   ELSE parser.method = "CONNECT"])

HeadersDone ==
    LET len == parser.content_length
        hasBody == "F_CHUNKED" \in parser.flags \/ len \notin {0, ULLONG_MAX}
        skip == "F_SKIPBODY" \in parser.flags
        other == parser.upgrade /\ (parser.method = "CONNECT" \/ skip \/ ~hasBody)
        f == ResetCount(Here)
        body_ == IF "F_CHUNKED" \in parser.flags THEN "s_chunk_size_start"
                 ELSE IF len # ULLONG_MAX THEN "s_body_identity" ELSE "s_body_identity_eof"
    IN  /\ At_("s_headers_done")
        /\ IF ch # "LF" THEN Fail("STRICT")
           ELSE IF other \/ skip \/ (~hasBody /\ (len = 0 \/ ~http_message_needs_eof(parser)))
           THEN Callback("message_complete", [f EXCEPT !.p.state = NEW_MESSAGE(parser)],
                         IF other THEN "return" ELSE "advance")
           ELSE Break([f EXCEPT !.p.state = body_])

-----------------------------------------------------------------------------
(* The body.                                                               *)

\* MIN(content_length, what is left of the call): half of the body, or all of it.  When the
\* call has less than the body, its bytes are used up.
ToRead == {(parser.content_length + 1) \div 2, parser.content_length}

Took(k) == [MARK(Here, "body") EXCEPT !.p.content_length = @ - k, !.b.pend = @ + k]

\* The last byte is seen again by s_message_done.
BodyIdentity ==
    /\ At_("s_body_identity")
    /\ \E k \in ToRead :
         IF k = parser.content_length
         THEN DataCallback("body", [Took(k) EXCEPT !.p.state = "s_message_done"], "stay")
         ELSE Set(Took(k)) /\ ch' = End /\ UNCHANGED <<incall, again, eof, lines, mon>>

BodyIdentityEof ==
    /\ At_("s_body_identity_eof")
    /\ Set(MARK(Here, "body")) /\ ch' = End
    /\ UNCHANGED <<incall, again, eof, lines, mon>>

MessageDone ==
    /\ At_("s_message_done")
    /\ Callback("message_complete", To(NEW_MESSAGE(parser)),
                IF parser.upgrade THEN "return" ELSE "advance")

ChunkSizeStart ==
    /\ At_("s_chunk_size_start")
    /\ IF ch \notin Hex THEN Fail("INVALID_CHUNK_SIZE")
       ELSE Break([To("s_chunk_size") EXCEPT
                     !.p.content_length = Digit(ch),
                     !.b = [announced |-> Digit(ch), got |-> 0, pend |-> 0]])

ChunkSize ==
    /\ At_("s_chunk_size")
    /\ \/ ch = "CR" /\ Break(To("s_chunk_size_almost_done"))
       \/ ch = ";" /\ Break(To("s_chunk_parameters"))
       \/ ch = "x" /\ Fail("INVALID_CHUNK_SIZE")
       \/ ch \in Hex /\ MoreDigits(16, Digit(ch), "INVALID_CONTENT_LENGTH")

ChunkParameters ==
    /\ At_("s_chunk_parameters")
    /\ Break(IF ch = "CR" THEN To("s_chunk_size_almost_done") ELSE Here)

ChunkSizeAlmostDone ==
    LET last == parser.content_length = 0
        f == ResetCount(Here)
    IN  /\ At_("s_chunk_size_almost_done")
        /\ IF ch # "LF" THEN Fail("STRICT")
           ELSE IF last
           THEN Callback("last_chunk",
                         [f EXCEPT !.p.state = "s_header_field_start",
                                   !.p.flags = @ \cup {"F_TRAILING"}], "advance")
           ELSE Callback("chunk_header", [f EXCEPT !.p.state = "s_chunk_data"], "advance")

ChunkData ==
    /\ At_("s_chunk_data")
    /\ \E k \in ToRead :
         IF k = parser.content_length
         THEN Break([Took(k) EXCEPT !.p.state = "s_chunk_data_almost_done"])
         ELSE Set(Took(k)) /\ ch' = End /\ UNCHANGED <<incall, again, eof, lines, mon>>

ChunkDataAlmostDone ==
    /\ At_("s_chunk_data_almost_done")
    /\ IF ch # "CR" THEN Fail("STRICT")
       ELSE DataCallback("body", To("s_chunk_data_done"), "advance")

ChunkDataDone ==
    /\ At_("s_chunk_data_done")
    /\ IF ch # "LF" THEN Fail("STRICT")
       ELSE Callback("chunk_complete",
                     ResetCount(To("s_chunk_size_start")), "advance")

-----------------------------------------------------------------------------
ParserInit ==
    /\ \E t \in Types : parser = NewParser(t)
    /\ nread = 0 /\ marks = {} /\ ch = None /\ incall = FALSE /\ again = None /\ eof = FALSE
    /\ lines = 0 /\ mon = "idle" /\ body = NoBody

FirstLine ==
    \/ Dead \/ StartReqOrRes \/ ResOrRespH \/ StartRes \/ StartReq \/ ReqMethod \/ LiteralByte
    \/ Version \/ StatusCode \/ Status \/ SpacesBeforeUrl \/ UrlSchema \/ Url \/ ReqHttpStart
    \/ ReqHttpEnd

HeaderLines ==
    \/ HeaderFieldStart \/ HeaderField \/ HeaderValueDiscardWs \/ HeaderValue \/ HeaderValueLws
    \/ HeaderValueDiscardLws \/ HeadersAlmostDone \/ HeadersDone

Body ==
    \/ BodyIdentity \/ BodyIdentityEof \/ MessageDone \/ ChunkSizeStart \/ ChunkSize
    \/ ChunkParameters \/ ChunkSizeAlmostDone \/ ChunkData \/ ChunkDataAlmostDone \/ ChunkDataDone

ParserNext ==
    \/ Fetch \/ HeaderOverflow \/ EndOfData \/ EofCall \/ Unpause \/ Finished
    \/ FirstLine \/ HeaderLines \/ Body

ParserSpec == ParserInit /\ [][ParserNext]_pvars

-----------------------------------------------------------------------------
\* However the stream is cut into calls, and wherever a callback pauses the parser, the
\* callbacks come in the order of the message: begin, the first line, fields each followed
\* by their value, the end of the headers, the body or the chunks, the trailer, the end;
\* one message after the other.
CallbackOrder == mon # "wrong"

\* No byte of a URL, a status, a field or a value is lost between two calls: while a call
\* is inside an element, the mark of that element, and no other, is set.
OpenElement(s) ==
    IF s \in SchemaState \cup UrlState THEN {"url"}
    ELSE IF s = "s_res_status" THEN {"status"}
    ELSE IF s = "s_header_field" THEN {"header_field"}
    ELSE IF s = "s_header_value" THEN {"header_value"}
    ELSE {}

MarkCovers == incall => marks \ {"body"} = OpenElement(parser.state)

\* The body callbacks hand over exactly the bytes the length or the chunk size announced:
\* what has been handed over, what waits at the mark and what is still to come add up,
\* the length itself never wraps, and nothing is handed over twice after a pause.
BodyExact ==
    parser.errno \in {"OK", "PAUSED"} =>
      /\ parser.state \in {"s_body_identity", "s_chunk_size", "s_chunk_data",
                           "s_chunk_data_almost_done"} =>
           body.announced = body.got + body.pend + parser.content_length
      /\ parser.state = "s_header_value" /\ parser.header_state = "h_content_length_num" =>
           body.announced = parser.content_length
      /\ parser.state = "s_chunk_data_done" => body.got = body.announced
      /\ parser.state = "s_message_done" /\ "F_TRAILING" \notin parser.flags =>
           body.got = body.announced

\* The assertions of the code: a chunk size is the first thing counted after a reset of
\* nread; the states of a chunk are those of a chunked message; a body that is read has a
\* length that is neither 0 nor the mark of an unknown one; the value of Connection or
\* Transfer-Encoding is never read before its first token is looked at.
AssertsHold ==
    /\ incall /\ ch \notin {None, End} /\ parser.state = "s_chunk_size_start" => nread = 1
    /\ parser.state \in {"s_chunk_size_start", "s_chunk_size", "s_chunk_parameters",
                         "s_chunk_size_almost_done", "s_chunk_data",
                         "s_chunk_data_almost_done", "s_chunk_data_done"} =>
         "F_CHUNKED" \in parser.flags
    /\ parser.state \in {"s_body_identity", "s_chunk_data"} =>
         parser.content_length \notin {0, ULLONG_MAX}
    /\ parser.state = "s_chunk_data_almost_done" => parser.content_length = 0
    /\ parser.state = "s_header_value" =>
         parser.header_state \notin {"h_connection", "h_transfer_encoding", "h_content_length"}
    /\ \A k, l \in marks : k = l
=============================================================================
