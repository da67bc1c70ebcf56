---------------------------- MODULE HttpRequest -----------------------------
(***************************************************************************)
(* HttpRequest (httprequest.cpp): one request, from what one read left in  *)
(* the buffer.  The text is a sequence of items: the characters the parser *)
(* looks for, and words between them.                                      *)
(***************************************************************************)
EXTENDS Integers, Sequences, FiniteSetsExt, Functions, TLC

CRLF == <<"CR", "LF">>

\* Items of one byte; all others have three or more.
OneByte == {"CR", "LF", "SP", ":", "=", "&", "+", "%", "A", "B", "4", "1"}

DEFAULT_HTML == {<<"/index">>, <<"/register">>, <<"/login">>, <<"/welcome">>, <<"/video">>,
                 <<"/picture">>}
Page(p) == <<p, ".html">>

\* The login and the register page; TRUE is login.
DEFAULT_HTML_TAG == (Page("/login") :> TRUE) @@ (Page("/register") :> FALSE)

Init_ == [state_ |-> "REQUEST_LINE", method_ |-> <<>>, path_ |-> <<>>, version_ |-> <<>>,
          header_ |-> <<>>, body_ |-> <<>>, post_ |-> <<>>, verify |-> <<>>]

Found(f, k) == IF k \in DOMAIN f THEN f[k] ELSE <<>>
Stored(f, k, v) == (k :> v) @@ f

\* Where item x is in s.
Places(s, x) == {i \in DOMAIN s : s[i] = x}

\* "^([^ ]*) ([^ ]*) HTTP/([^ ]*)$".
ParseRequestLine_(r, line) ==
    LET i == Min(Places(line, "SP"))
        j == Max(Places(line, "SP"))
    IN  IF /\ Cardinality(Places(line, "SP")) = 2
           /\ j < Len(line) /\ line[j + 1] = "HTTP/"
        THEN [r EXCEPT !.method_ = SubSeq(line, 1, i - 1),
                       !.path_ = SubSeq(line, i + 1, j - 1),
                       !.version_ = SubSeq(line, j + 2, Len(line)),
                       !.state_ = "HEADERS"]
        ELSE r

ParsePath_(r) ==
    [r EXCEPT !.path_ = IF @ = <<"/">> THEN Page("/index")
                        ELSE IF @ \in DEFAULT_HTML THEN @ \o <<".html">> ELSE @]

\* Mutant: the blank after the colon stays in the value.
ParseHeaderBlank(r, line) ==
    LET i == Min(Places(line, ":"))
    IN  IF Places(line, ":") = {} \/ \E k \in (i + 1)..Len(line) : line[k] \in {"CR", "LF"}
        THEN [r EXCEPT !.state_ = "BODY"]
        ELSE [r EXCEPT !.header_ = Stored(@, SubSeq(line, 1, i - 1), SubSeq(line, i + 1, Len(line)))]

\* "^([^:]*): ?(.*)$"; the dot matches no CR and no LF.  A line without a colon ends the
\* headers.
ParseHeader_(r, line) ==
    LET i == Min(Places(line, ":"))
        j == IF i < Len(line) /\ line[i + 1] = "SP" THEN i + 2 ELSE i + 1
    IN  IF Places(line, ":") = {} \/ \E k \in j..Len(line) : line[k] \in {"CR", "LF"}
        THEN [r EXCEPT !.state_ = "BODY"]
        ELSE [r EXCEPT !.header_ = Stored(@, SubSeq(line, 1, i - 1), SubSeq(line, j, Len(line)))]

-----------------------------------------------------------------------------
(* application/x-www-form-urlencoded.                                      *)

Code == ("A" :> 65) @@ ("B" :> 66) @@ ("4" :> 52) @@ ("1" :> 49)
Char(n) == "chr" \o ToString(n % 256)

\* A letter is its value, any other character its own code; 0 ends the text.
ConverHex(c) == IF c \in {"A", "B"} THEN Code[c] - Code["A"] + 10 ELSE Code[c]
HexAt(body, k) == IF k <= Len(body) THEN ConverHex(body[k]) ELSE 0

\* An escape becomes the percent sign and two digits of the number in base 10.
Rewritten(body, i, num) ==
    [k \in DOMAIN body |-> CASE k = i + 1 -> Char(num \div 10 + 48)
                             [] k = i + 2 -> Char((num % 10) + 48)
                             [] OTHER -> body[k]]

\* One turn of the loop, in the state f: position, start of the current key or value, key,
\* text, result.
FormTurn(f) ==
    LET c == f.body[f.i]
        num == HexAt(f.body, f.i + 1) * 16 + HexAt(f.body, f.i + 2)
    IN  IF f.i > Len(f.body) THEN f
        ELSE CASE c = "=" -> [f EXCEPT !.key = SubSeq(f.body, f.j, f.i - 1), !.j = f.i + 1, !.i = @ + 1]
               [] c = "+" -> [f EXCEPT !.body[f.i] = "SP", !.i = @ + 1]
               [] c = "%" -> [f EXCEPT !.body = Rewritten(@, f.i, num), !.i = @ + 3]
               [] c = "&" -> [f EXCEPT !.post = Stored(@, f.key, SubSeq(f.body, f.j, f.i - 1)),
                                       !.j = f.i + 1, !.i = @ + 1]
               [] OTHER -> [f EXCEPT !.i = @ + 1]

\* Every turn moves the position: there are at most as many as items.
ParseFromUrlencoded_(body) ==
    LET f == FoldSet(LAMBDA i, g : FormTurn(g),
                     [i |-> 1, j |-> 1, key |-> <<>>, body |-> body, post |-> <<>>], DOMAIN body)
    IN  IF f.key \notin DOMAIN f.post /\ f.j < f.i
        THEN Stored(f.post, f.key, SubSeq(f.body, f.j, Len(f.body)))
        ELSE f.post

\* What is to be verified for a form sent to the login or the register page; UserVerify
\* itself runs in steps of its own (HttpConn), and sets the path.
Login(r) ==
    [name |-> Found(r.post_, <<"username">>), pwd |-> Found(r.post_, <<"password">>),
     isLogin |-> DEFAULT_HTML_TAG[r.path_]]

ParsePost_(r) ==
    IF r.method_ = <<"POST">> /\ Found(r.header_, <<"Content-Type">>) = <<"form">>
    THEN LET q == [r EXCEPT !.post_ = ParseFromUrlencoded_(r.body_)]
         IN  IF q.path_ \in DOMAIN DEFAULT_HTML_TAG THEN [q EXCEPT !.verify = Login(q)] ELSE q
    ELSE r

ParseBody_(r, line) == [ParsePost_([r EXCEPT !.body_ = line]) EXCEPT !.state_ = "FINISH"]

-----------------------------------------------------------------------------
\* Where the line ends: before the first CR LF, or with the buffer.
LineEnd(buf) ==
    LET ends == {i \in 1..(Len(buf) - 1) : buf[i] = "CR" /\ buf[i + 1] = "LF"}
    IN  IF ends = {} THEN Len(buf) + 1 ELSE CHOOSE i \in ends : \A j \in ends : i <= j

AtMostTwoBytes(buf) == Len(buf) <= 2 /\ \A i \in DOMAIN buf : buf[i] \in OneByte

ParseLine(r, line, buf) ==
    CASE r.state_ = "REQUEST_LINE" -> ParsePath_(ParseRequestLine_(r, line))
      [] r.state_ = "HEADERS" ->
           [ParseHeader_(r, line) EXCEPT !.state_ = IF AtMostTwoBytes(buf) THEN "FINISH" ELSE @]
      [] OTHER -> ParseBody_(r, line)

\* One turn of the loop of parse: what it returns, the request so far and what is left of
\* the buffer.  A line that the buffer ends is the last one.
NextLine(s) ==
    LET e == LineEnd(s.rest)
        r == ParseLine(s.request, SubSeq(s.rest, 1, e - 1), s.rest)
    IN  IF s.rest = <<>> \/ s.request.state_ = "FINISH" \/ ~s.ok THEN s
        ELSE IF r.state_ = "REQUEST_LINE" THEN [s EXCEPT !.ok = FALSE]
        ELSE [s EXCEPT !.request = r, !.rest = SubSeq(@, e + 2, Len(@))]

\* There is at most one turn for each LF, and one for what follows the last.
parse(buf) ==
    IF buf = <<>> THEN [ok |-> FALSE, request |-> Init_, rest |-> buf]
    ELSE FoldSet(LAMBDA i, s : NextLine(s), [ok |-> TRUE, request |-> Init_, rest |-> buf],
                 Places(buf, "LF") \cup {Len(buf) + 1})

IsKeepAlive(r) ==
    /\ Found(r.header_, <<"Connection">>) = <<"keep-alive">>
    /\ r.version_ = <<"1.1">>

-----------------------------------------------------------------------------
(* What a client means.                                                    *)

\* A header line, with a blank after the colon; a field of a form.
Header(name, value) == <<name, ":", "SP", value>> \o CRLF
Field(f) == <<f[1], "=">> \o f[2]

Form(fields) ==
    LET text[n \in 0..Len(fields)] ==
          IF n = 0 THEN <<>>
          ELSE text[n - 1] \o (IF n = 1 THEN <<>> ELSE <<"&">>) \o Field(fields[n])
    IN  text[Len(fields)]

\* The bytes of request m; a form has a body, and its type.
Message(m) ==
    m.method \o <<"SP">> \o m.path \o <<"SP", "HTTP/">> \o m.version \o CRLF
      \o (IF m.connection = <<>> THEN <<>> ELSE Header("Connection", Head(m.connection)))
      \o (IF m.form = <<>> THEN <<>> ELSE Header("Content-Type", "form"))
      \o CRLF \o Form(m.form)

Plain(v) == [i \in DOMAIN v |-> IF v[i] = "+" THEN "SP" ELSE v[i]]

\* Request r, parsed from all of the bytes of m, says what m says: the page, the version,
\* whether to keep the connection, and the fields of the form when it was posted (without
\* an escape: those are not decoded to the byte they stand for).
Means(r, m) ==
    /\ r.state_ = "FINISH" /\ r.method_ = m.method /\ r.version_ = m.version
    /\ r.path_ = CASE m.path = <<"/">> -> Page("/index")
                   [] m.path \in DEFAULT_HTML -> Page(Head(m.path))
                   [] OTHER -> m.path
    /\ IsKeepAlive(r) <=> m.connection = <<"keep-alive">> /\ m.version = <<"1.1">>
    /\ m.method = <<"POST">> =>
         \A i \in DOMAIN m.form :
           "%" \notin Range(m.form[i][2]) =>
             Found(r.post_, <<m.form[i][1]>>) = Plain(m.form[i][2])
=============================================================================
