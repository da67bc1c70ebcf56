------------------------------ MODULE HttpUrl -------------------------------
(***************************************************************************)
(* http_parser_parse_url (http_parser.c): the parts of a URL.  A URL is a  *)
(* sequence of one-character strings.                                      *)
(***************************************************************************)
EXTENDS HttpTables

-----------------------------------------------------------------------------
\* The transitions of http_parse_host_char.
HostMoves ==
    { <<s, {"@"}, "s_http_host_start">> : s \in {"s_http_userinfo_start", "s_http_userinfo"} }
    \cup
    { <<s, UserinfoChar, "s_http_userinfo">> : s \in {"s_http_userinfo_start", "s_http_userinfo"} }
    \cup
    { <<"s_http_host_start", {"["}, "s_http_host_v6_start">>,
      <<"s_http_host_start", HostChar, "s_http_host">>,
      <<"s_http_host", HostChar, "s_http_host">>,
      <<"s_http_host", {":"}, "s_http_host_port_start">>,
      <<"s_http_host_v6_end", {":"}, "s_http_host_port_start">>,
      <<"s_http_host_v6_start", Hex \cup {":", "."}, "s_http_host_v6">>,
      <<"s_http_host_v6", Hex \cup {":", "."}, "s_http_host_v6">>,
      <<"s_http_host_v6", {"]"}, "s_http_host_v6_end">>,
      <<"s_http_host_v6", {"%"}, "s_http_host_v6_zone_start">>,
      <<"s_http_host_v6_zone_start", ZoneChar, "s_http_host_v6_zone">>,
      <<"s_http_host_v6_zone", ZoneChar, "s_http_host_v6_zone">>,
      <<"s_http_host_v6_zone", {"]"}, "s_http_host_v6_end">>,
      <<"s_http_host_port_start", Num, "s_http_host_port">>,
      <<"s_http_host_port", Num, "s_http_host_port">> }

http_parse_host_char(s, c) ==
    IF \E m \in HostMoves : m[1] = s /\ c \in m[2]
    THEN (CHOOSE m \in HostMoves : m[1] = s /\ c \in m[2])[3]
    ELSE "s_http_host_dead"

-----------------------------------------------------------------------------
\* struct http_parser_url: offset (from 0) and length of each field that is set.
Fields == {"SCHEMA", "HOST", "PORT", "PATH", "QUERY", "FRAGMENT", "USERINFO"}
Unset == [off |-> 0, len |-> 0]
Refused == [ok |-> FALSE]

FieldOf(s) ==
    CASE s = "s_req_schema" -> "SCHEMA"
      [] s \in {"s_req_server", "s_req_server_with_at"} -> "HOST"
      [] s = "s_req_path" -> "PATH"
      [] s = "s_req_query_string" -> "QUERY"
      [] s = "s_req_fragment" -> "FRAGMENT"
      [] OTHER -> "none"

\* Mutant: the offset of a new run is not stored.
ExtendNoOffset(data, f, i, fresh) == [data EXCEPT ![f].len = @ + 1]

\* One more byte, at offset i, for field f: a new run or a longer one.
Extend(data, f, i, fresh) ==
    [data EXCEPT ![f] = IF fresh THEN [off |-> i, len |-> 1] ELSE [@ EXCEPT !.len = @ + 1]]

\* The loop of http_parser_parse_url over the bytes; it ends at s_dead.
UrlByte(acc, c, i) ==
    LET s == parse_url_char(acc.s, c)
        f == FieldOf(s)
    IN  IF acc.s = "s_dead" THEN acc
        ELSE IF f = "none" THEN [acc EXCEPT !.s = s]
        ELSE [acc EXCEPT !.s = s, !.old_uf = f,
                         !.found_at = @ \/ s = "s_req_server_with_at",
                         !.data = Extend(@, f, i, f # acc.old_uf)]

ScanUrl(url, is_connect) ==
    LET acc[i \in 0..Len(url)] ==
          IF i = 0
          THEN [s |-> IF is_connect THEN "s_req_server_start" ELSE "s_req_spaces_before_url",
                old_uf |-> "MAX", found_at |-> FALSE, data |-> [f \in Fields |-> Unset]]
          ELSE UrlByte(acc[i - 1], url[i], i - 1)
    IN  acc[Len(url)]

\* One byte of http_parse_host: which field it goes to.  The loop ends at s_http_host_dead.
HostByte(acc, c, i) ==
    LET s == http_parse_host_char(acc.s, c)
        data ==
          CASE s \in {"s_http_host", "s_http_host_v6"} ->
                 [acc.data EXCEPT !["HOST"] = [off |-> IF acc.s = s THEN @.off ELSE i,
                                               len |-> @.len + 1]]
            [] s \in {"s_http_host_v6_zone_start", "s_http_host_v6_zone"} ->
                 [acc.data EXCEPT !["HOST"].len = @ + 1]
            [] s = "s_http_host_port" -> Extend(acc.data, "PORT", i, acc.s # s)
            [] s = "s_http_userinfo" -> Extend(acc.data, "USERINFO", i, acc.s # s)
            [] OTHER -> acc.data
    IN  IF acc.s = "s_http_host_dead" THEN acc ELSE [s |-> s, data |-> data]

HostResult(acc) ==
    [ok |-> acc.s \in {"s_http_host", "s_http_host_v6_end", "s_http_host_port"},
     data |-> acc.data]

http_parse_host(url, data, found_at) ==
    LET off == data["HOST"].off
        acc[i \in 0..data["HOST"].len] ==
          IF i = 0
          THEN [s |-> IF found_at THEN "s_http_userinfo_start" ELSE "s_http_host_start",
                data |-> [data EXCEPT !["HOST"].len = 0]]
          ELSE HostByte(acc[i - 1], url[off + i], off + i - 1)
    IN  HostResult(acc[data["HOST"].len])

\* The value of the digits of field f; the loop ends once it is over the limit.
PortValue(url, f) ==
    LET v[i \in 0..f.len] ==
          IF i = 0 THEN 0
          ELSE IF v[i - 1] > 65535 THEN v[i - 1]
          ELSE v[i - 1] * 10 + DigitValue[url[f.off + i]]
    IN  v[f.len]

\* After the loop: the host is looked at again, and a schema needs one.
SplitHost(url, acc) ==
    IF acc.s # "s_dead" /\ acc.data["HOST"] # Unset
    THEN http_parse_host(url, acc.data, acc.found_at)
    ELSE [ok |-> acc.s # "s_dead" /\ acc.data["SCHEMA"] = Unset, data |-> acc.data]

\* The end: what a CONNECT may name, and the port.
CheckPort(url, is_connect, host, port) ==
    IF ~host.ok \/ port > 65535
       \/ (is_connect /\ {f \in Fields : host.data[f].len > 0} # {"HOST", "PORT"})
    THEN Refused
    ELSE [ok |-> TRUE, data |-> host.data, port |-> port]

ParseEnd(url, is_connect, host) ==
    CheckPort(url, is_connect, host, PortValue(url, host.data["PORT"]))

http_parser_parse_url(url, is_connect) ==
    IF url = <<>> THEN Refused
    ELSE ParseEnd(url, is_connect, SplitHost(url, ScanUrl(url, is_connect)))

-----------------------------------------------------------------------------
(* What a URL is.                                                          *)

\* What parse_url accepts is cut into its parts: the fields lie inside the buffer, in
\* the order of the syntax and apart from each other; what belongs to none of them is
\* a delimiter; with a schema there is a host; and a port has its value.
CutRight(url, data, port, set) ==
    LET order == <<"SCHEMA", "USERINFO", "HOST", "PORT", "PATH", "QUERY", "FRAGMENT">>
        Part(f) == data[f].off..(data[f].off + data[f].len - 1)
    IN  /\ \A f \in set : Part(f) \subseteq 0..(Len(url) - 1)
        /\ \A i, j \in DOMAIN order :
             i < j /\ {order[i], order[j]} \subseteq set =>
               data[order[i]].off + data[order[i]].len <= data[order[j]].off
        /\ \A k \in 0..(Len(url) - 1) :
             url[k + 1] \in {":", "/", "?", "#", "@", "[", "]"} \/ \E f \in set : k \in Part(f)
        /\ "SCHEMA" \in set => "HOST" \in set
        /\ \A k \in Part("HOST") : url[k + 1] \in HostChar \cup ZoneChar \cup {":"}
        /\ \A k \in Part("PORT") : url[k + 1] \in Num
        /\ port = PortValue(url, data["PORT"]) /\ port < 2^16

UrlCut(url, is_connect) ==
    \A u \in {http_parser_parse_url(url, is_connect)} :
      u.ok => CutRight(url, u.data, u.port, {f \in Fields : u.data[f].len > 0})
=============================================================================
