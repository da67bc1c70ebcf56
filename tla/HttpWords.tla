----------------------------- MODULE HttpWords ------------------------------
(***************************************************************************)
(* The words http_parser_execute recognises letter by letter: the method,  *)
(* the names of the headers it acts upon and the tokens of their values.   *)
(* A word is a sequence of one-character strings; letters of header names  *)
(* and values are already lowered (TOKEN, LOWER).  Positions count from 0, *)
(* as parser->index does.                                                  *)
(***************************************************************************)
EXTENDS HttpTables, SequencesExt

At(word, i) == IF i < Len(word) THEN word[i + 1] ELSE "NUL"

-----------------------------------------------------------------------------
(* s_start_req, s_req_method.                                              *)

Upper == {"A", "B", "C", "D", "E", "F", "G", "H", "I", "J", "K", "L", "M", "N", "O", "P",
          "Q", "R", "S", "T", "U", "V", "W", "X", "Y", "Z", "-"}

\* The first letter stands for one of the methods that begin with it.
FirstGuess ==
    { <<"A", "ACL">>, <<"B", "BIND">>, <<"C", "CONNECT">>, <<"D", "DELETE">>,
      <<"G", "GET">>, <<"H", "HEAD">>, <<"L", "LOCK">>, <<"M", "MKCOL">>, <<"N", "NOTIFY">>,
      <<"O", "OPTIONS">>, <<"P", "POST">>, <<"R", "REPORT">>, <<"S", "SUBSCRIBE">>,
      <<"T", "TRACE">>, <<"U", "UNLOCK">> }

\* Where a later letter shows that it is another one (the XX table).
Switch ==
    { <<"POST", 1, "U", "PUT">>, <<"POST", 1, "A", "PATCH">>, <<"POST", 1, "R", "PROPFIND">>,
      <<"PUT", 2, "R", "PURGE">>, <<"CONNECT", 1, "H", "CHECKOUT">>,
      <<"CONNECT", 2, "P", "COPY">>, <<"MKCOL", 1, "O", "MOVE">>,
      <<"MKCOL", 1, "E", "MERGE">>, <<"MKCOL", 1, "-", "MSEARCH">>,
      <<"MKCOL", 2, "A", "MKACTIVITY">>, <<"MKCOL", 3, "A", "MKCALENDAR">>,
      <<"SUBSCRIBE", 1, "E", "SEARCH">>, <<"SUBSCRIBE", 1, "O", "SOURCE">>,
      <<"REPORT", 2, "B", "REBIND">>, <<"PROPFIND", 4, "P", "PROPPATCH">>,
      <<"LOCK", 1, "I", "LINK">>, <<"UNLOCK", 2, "S", "UNSUBSCRIBE">>,
      <<"UNLOCK", 2, "B", "UNBIND">>, <<"UNLOCK", 3, "I", "UNLINK">> }

BadMethod == [method |-> "invalid", index |-> 0]

s_start_req(c) ==
    LET g == {f \in FirstGuess : f[1] = c}
    IN  IF g = {} THEN BadMethod
        ELSE [method |-> (CHOOSE f \in g : TRUE)[2], index |-> 1]

\* A letter; the space that ends the word is MethodEnds.
s_req_method(m, c) ==
    LET x == {e \in Switch : e[1] = m.method /\ e[2] = m.index /\ e[3] = c}
    IN  IF m = BadMethod THEN BadMethod
        ELSE IF c = At(method_strings[m.method], m.index) THEN [m EXCEPT !.index = @ + 1]
        ELSE IF x = {} THEN BadMethod
        ELSE [method |-> (CHOOSE e \in x : TRUE)[4], index |-> m.index + 1]

MethodOf(word) ==
    FoldLeft(s_req_method, s_start_req(Head(word)), Tail(word))

MethodEnds(m) == m # BadMethod /\ At(method_strings[m.method], m.index) = "NUL"

-----------------------------------------------------------------------------
(* s_header_field_start, s_header_field.                                   *)

CONNECTION == <<"c","o","n","n","e","c","t","i","o","n">>
PROXY_CONNECTION == <<"p","r","o","x","y","-">> \o CONNECTION
CONTENT_LENGTH == <<"c","o","n","t","e","n","t","-","l","e","n","g","t","h">>
TRANSFER_ENCODING == <<"t","r","a","n","s","f","e","r","-","e","n","c","o","d","i","n","g">>
UPGRADE == <<"u","p","g","r","a","d","e">>

\* A state that matches a word, the word, and the state when it is complete.
NameMatchers ==
    { <<"h_matching_connection", CONNECTION, "h_connection">>,
      <<"h_matching_proxy_connection", PROXY_CONNECTION, "h_connection">>,
      <<"h_matching_content_length", CONTENT_LENGTH, "h_content_length">>,
      <<"h_matching_transfer_encoding", TRANSFER_ENCODING, "h_transfer_encoding">>,
      <<"h_matching_upgrade", UPGRADE, "h_upgrade">> }

\* Mutant: a word is complete one letter early.
MatchedEarly(m, i, c, miss) ==
    IF i + 1 > Len(m[2]) \/ c # At(m[2], i + 1) THEN miss
    ELSE IF i + 1 = Len(m[2]) - 2 THEN m[3]
    ELSE m[1]

\* One more letter of a word: m is the matcher, i the position before the letter, and
\* miss the state after a letter that does not fit.
Matched(m, i, c, miss) ==
    IF i + 1 > Len(m[2]) \/ c # At(m[2], i + 1) THEN miss
    ELSE IF i + 1 = Len(m[2]) - 1 THEN m[3]
    ELSE m[1]

s_header_field(h, c) ==
    LET m == {e \in NameMatchers : e[1] = h.header_state}
        next ==
          CASE h.header_state = "h_C" -> IF c = "o" THEN "h_CO" ELSE "h_general"
            [] h.header_state = "h_CO" -> IF c = "n" THEN "h_CON" ELSE "h_general"
            [] h.header_state = "h_CON" ->
                 IF c = "n" THEN "h_matching_connection"
                 ELSE IF c = "t" THEN "h_matching_content_length" ELSE "h_general"
            [] m # {} -> Matched(CHOOSE e \in m : TRUE, h.index, c, "h_general")
            [] OTHER -> "h_general"
    IN  [index |-> h.index + 1, header_state |-> next]

NameState(word) ==
    FoldLeft(s_header_field, s_header_field_start(Head(word)), Tail(word)).header_state

-----------------------------------------------------------------------------
(* s_header_value_start, s_header_value: the Connection and               *)
(* Transfer-Encoding values.  flags is what the value adds to them.        *)

CHUNKED == <<"c","h","u","n","k","e","d">>
KEEP_ALIVE == <<"k","e","e","p","-","a","l","i","v","e">>
CLOSE == <<"c","l","o","s","e">>

TokenMatchers ==
    { <<"h_matching_connection_keep_alive", KEEP_ALIVE, "h_connection_keep_alive">>,
      <<"h_matching_connection_close", CLOSE, "h_connection_close">>,
      <<"h_matching_connection_upgrade", UPGRADE, "h_connection_upgrade">> }

s_header_value_start(name, c) ==
    [index |-> 0, flags |-> {},
     h_state |-> IF name = "h_connection" THEN TokenStart(c, "h_matching_connection_token")
                 ELSE IF c = "c" THEN "h_matching_transfer_encoding_chunked"
                 ELSE "h_general"]

s_header_value(v, c) ==
    LET m == {e \in TokenMatchers : e[1] = v.h_state}
        restart == [v EXCEPT !.h_state = "h_matching_connection_token_start", !.index = 0]
    IN  CASE v.h_state = "h_general" -> v
          [] v.h_state = "h_matching_transfer_encoding_chunked" ->
               [v EXCEPT !.index = @ + 1,
                         !.h_state = Matched(<<@, CHUNKED, "h_transfer_encoding_chunked">>,
                                             v.index, c, "h_general")]
          [] v.h_state = "h_transfer_encoding_chunked" ->
               [v EXCEPT !.h_state = IF c = " " THEN @ ELSE "h_general"]
          [] v.h_state = "h_matching_connection_token_start" ->
               [v EXCEPT !.h_state =
                  TokenStart(c, IF c = " " THEN @
                                ELSE IF c = "," THEN "h_general"
                                ELSE "h_matching_connection_token")]
          [] m # {} ->
               [v EXCEPT !.index = @ + 1,
                         !.h_state = Matched(CHOOSE e \in m : TRUE, v.index, c,
                                             "h_matching_connection_token")]
          [] v.h_state = "h_matching_connection_token" -> IF c = "," THEN restart ELSE v
          [] v.h_state \in {e[3] : e \in TokenMatchers} ->
               IF c = "," THEN [restart EXCEPT !.flags = @ \cup FlagOf(v.h_state)]
               ELSE IF c = " " THEN v
               ELSE [v EXCEPT !.h_state = "h_matching_connection_token"]
          [] OTHER -> v

\* The flags when the value ends (s_header_value_lws).
ValueFlags(name, value) ==
    LET v[i \in 1..Len(value)] ==
          IF i = 1 THEN s_header_value_start(name, value[1]) ELSE s_header_value(v[i - 1], value[i])
        end == v[Len(value)]
    IN  end.flags \cup FlagOf(end.h_state)

-----------------------------------------------------------------------------
(* What the words are.                                                     *)

\* A word followed by a space is taken for a method exactly when it is one, and for
\* that one: the guess made at the first letter and its corrections lose no method and
\* invent none.
MethodRecognised(word) ==
    word # <<>> =>
      LET m == MethodOf(word)
      IN  /\ MethodEnds(m) <=> \E k \in Methods : method_strings[k] = word
          /\ MethodEnds(m) => method_strings[m.method] = word

\* A header name is acted upon exactly when it is one of the five names.
NameRecognised(word) ==
    word # <<>> =>
      \A h \in {m[3] : m \in NameMatchers} :
        NameState(word) = h <=> \E m \in NameMatchers : m[2] = word /\ m[3] = h

\* The tokens of a comma-separated list, without the spaces around them.
TokensOf(value) ==
    LET cuts == {0, Len(value) + 1} \cup {i \in DOMAIN value : value[i] = ","}
        trim(s) == LET ink == {i \in DOMAIN s : s[i] # " "}
                   IN  IF ink = {} THEN <<>>
                       ELSE SubSeq(s, CHOOSE i \in ink : \A j \in ink : i <= j,
                                      CHOOSE i \in ink : \A j \in ink : j <= i)
    IN  {trim(SubSeq(value, q[1] + 1, q[2] - 1)) :
           q \in {p \in cuts \X cuts : p[1] < p[2] /\ ~\E k \in cuts : p[1] < k /\ k < p[2]}}

FlagWords == { <<"F_CONNECTION_KEEP_ALIVE", KEEP_ALIVE>>, <<"F_CONNECTION_CLOSE", CLOSE>>,
               <<"F_CONNECTION_UPGRADE", UPGRADE>> }

\* A flag set for a Connection value is one of its tokens.  The other direction holds
\* when no token before it is the beginning of a keyword, whose matcher would swallow
\* the comma.
ValueRecognised(value) ==
    value # <<>> /\ value[1] # " " =>
      LET tokens == TokensOf(value)
          swallows == \E t \in tokens, w \in FlagWords : t # w[2] /\ t # <<>> /\ IsPrefix(t, w[2])
      IN  \A w \in FlagWords :
            /\ w[1] \in ValueFlags("h_connection", value) => w[2] \in tokens
            /\ w[2] \in tokens /\ ~swallows /\ <<>> \notin tokens =>
                 w[1] \in ValueFlags("h_connection", value)
=============================================================================
