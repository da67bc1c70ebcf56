----------------------------- MODULE HttpTables -----------------------------
(***************************************************************************)
(* What http_parser.c looks up byte by byte: the classes of characters,    *)
(* the moves of parse_url_char, the methods, and the first letters and the *)
(* flags of the words it acts upon.  States are named as in the code.  The *)
(* build is strict (HTTP_PARSER_STRICT is 1 by default).                   *)
(***************************************************************************)
EXTENDS Integers, Sequences

\* Character classes.  One letter that is a hexadecimal digit and one that is not
\* stand for the alphabet, as no case of the code tells more of them apart.
Numerals == <<"0", "1", "2", "3", "4", "5", "6", "7", "8", "9">>
Num == {"0", "1", "2", "3", "4", "5", "6", "7", "8", "9"}
Alpha == {"a", "h"}
Hex == Num \cup {"a"}
MarkChar == {"-", "_", ".", "!", "~", "*", "'", "(", ")"}
UserinfoChar == Num \cup Alpha \cup MarkChar \cup {"%", ";", ":", "&", "=", "+", "$", ","}
HostChar == Num \cup Alpha \cup {".", "-"}
ZoneChar == Num \cup Alpha \cup {"%", ".", "-", "_", "~"}
UrlChar == UserinfoChar \cup {"/", "@", "[", "]", "|"}   \* "|": what else normal_url_char has

DigitValue == [d \in Num |-> CHOOSE n \in 0..9 : Numerals[n + 1] = d]

-----------------------------------------------------------------------------
\* The states in which a byte belongs to the authority.
ServerState == {"s_req_server_start", "s_req_server", "s_req_server_with_at"}

\* The transitions of parse_url_char: from, characters, to.
UrlMoves ==
    { <<"s_req_spaces_before_url", {"/", "*"}, "s_req_path">>,
      <<"s_req_spaces_before_url", Alpha, "s_req_schema">>,
      <<"s_req_schema", Alpha, "s_req_schema">>,
      <<"s_req_schema", {":"}, "s_req_schema_slash">>,
      <<"s_req_schema_slash", {"/"}, "s_req_schema_slash_slash">>,
      <<"s_req_schema_slash_slash", {"/"}, "s_req_server_start">>,
      <<"s_req_path", UrlChar, "s_req_path">>,
      <<"s_req_path", {"?"}, "s_req_query_string_start">>,
      <<"s_req_path", {"#"}, "s_req_fragment_start">>,
      <<"s_req_query_string_start", UrlChar \cup {"?"}, "s_req_query_string">>,
      <<"s_req_query_string_start", {"#"}, "s_req_fragment_start">>,
      <<"s_req_query_string", UrlChar \cup {"?"}, "s_req_query_string">>,
      <<"s_req_query_string", {"#"}, "s_req_fragment_start">>,
      <<"s_req_fragment_start", UrlChar \cup {"?"}, "s_req_fragment">>,
      <<"s_req_fragment_start", {"#"}, "s_req_fragment_start">>,
      <<"s_req_fragment", UrlChar \cup {"?", "#"}, "s_req_fragment">> }
    \cup { <<s, {"/"}, "s_req_path">> : s \in ServerState }
    \cup { <<s, {"?"}, "s_req_query_string_start">> : s \in ServerState }
    \cup { <<s, UserinfoChar \cup {"[", "]"}, "s_req_server">> : s \in ServerState }
    \cup { <<s, {"@"}, "s_req_server_with_at">> : s \in ServerState \ {"s_req_server_with_at"} }

parse_url_char(s, c) ==
    IF \E m \in UrlMoves : m[1] = s /\ c \in m[2]
    THEN (CHOOSE m \in UrlMoves : m[1] = s /\ c \in m[2])[3]
    ELSE "s_dead"

-----------------------------------------------------------------------------
\* HTTP_METHOD_MAP.
method_strings ==
    [ DELETE |-> <<"D","E","L","E","T","E">>, GET |-> <<"G","E","T">>,
      HEAD |-> <<"H","E","A","D">>, POST |-> <<"P","O","S","T">>, PUT |-> <<"P","U","T">>,
      CONNECT |-> <<"C","O","N","N","E","C","T">>,
      OPTIONS |-> <<"O","P","T","I","O","N","S">>, TRACE |-> <<"T","R","A","C","E">>,
      COPY |-> <<"C","O","P","Y">>, LOCK |-> <<"L","O","C","K">>,
      MKCOL |-> <<"M","K","C","O","L">>, MOVE |-> <<"M","O","V","E">>,
      PROPFIND |-> <<"P","R","O","P","F","I","N","D">>,
      PROPPATCH |-> <<"P","R","O","P","P","A","T","C","H">>,
      SEARCH |-> <<"S","E","A","R","C","H">>, UNLOCK |-> <<"U","N","L","O","C","K">>,
      BIND |-> <<"B","I","N","D">>, REBIND |-> <<"R","E","B","I","N","D">>,
      UNBIND |-> <<"U","N","B","I","N","D">>, ACL |-> <<"A","C","L">>,
      REPORT |-> <<"R","E","P","O","R","T">>,
      MKACTIVITY |-> <<"M","K","A","C","T","I","V","I","T","Y">>,
      CHECKOUT |-> <<"C","H","E","C","K","O","U","T">>, MERGE |-> <<"M","E","R","G","E">>,
      MSEARCH |-> <<"M","-","S","E","A","R","C","H">>,
      NOTIFY |-> <<"N","O","T","I","F","Y">>,
      SUBSCRIBE |-> <<"S","U","B","S","C","R","I","B","E">>,
      UNSUBSCRIBE |-> <<"U","N","S","U","B","S","C","R","I","B","E">>,
      PATCH |-> <<"P","A","T","C","H">>, PURGE |-> <<"P","U","R","G","E">>,
      MKCALENDAR |-> <<"M","K","C","A","L","E","N","D","A","R">>,
      LINK |-> <<"L","I","N","K">>, UNLINK |-> <<"U","N","L","I","N","K">>,
      SOURCE |-> <<"S","O","U","R","C","E">> ]

Methods == DOMAIN method_strings

\* The first letter of a header name.
s_header_field_start(c) ==
    [index |-> 0,
     header_state |-> CASE c = "c" -> "h_C"
                        [] c = "p" -> "h_matching_proxy_connection"
                        [] c = "t" -> "h_matching_transfer_encoding"
                        [] c = "u" -> "h_matching_upgrade"
                        [] OTHER -> "h_general"]

\* The flag a finished token stands for.
FlagOf(h) ==
    CASE h = "h_connection_keep_alive" -> {"F_CONNECTION_KEEP_ALIVE"}
      [] h = "h_connection_close" -> {"F_CONNECTION_CLOSE"}
      [] h = "h_connection_upgrade" -> {"F_CONNECTION_UPGRADE"}
      [] h = "h_transfer_encoding_chunked" -> {"F_CHUNKED"}
      [] OTHER -> {}

\* The first letter of a token of Connection.
TokenStart(c, other) ==
    CASE c = "k" -> "h_matching_connection_keep_alive"
      [] c = "c" -> "h_matching_connection_close"
      [] c = "u" -> "h_matching_connection_upgrade"
      [] OTHER -> other
=============================================================================
