---------------------------- MODULE MCHttpParser ----------------------------
(***************************************************************************)
(* HttpParser on a small alphabet, and beside it the words and URLs that   *)
(* HttpWords and HttpUrl treat letter by letter.  The two parts do not     *)
(* touch: a word grows only while the parser has not been used, so that    *)
(* their states add up.                                                    *)
(***************************************************************************)
EXTENDS HttpParser, HttpUrl, HttpWords

CONSTANTS MaxUrl,       \* bound: pieces of a URL
          MaxPieces,    \* bound: pieces of a Connection value
          MaxValue      \* bound: characters of a Connection value

VARIABLES kind,         \* what is being written: a URL, the target of a CONNECT, a word
          text          \* its characters; its pieces, of a URL or a Connection value

vars == <<pvars, kind, text>>

\* Pieces of a URL: single characters, a schema, a zone, the largest port and the one
\* after it.
UrlPieces == {<<c>> : c \in {"a", "h", "/", ":", "?", "#", "@", "[", "]", "%"}}
               \cup {<<"a", ":", "/", "/">>, <<"%", "h">>, <<":", "6", "5", "5", "3", "5">>,
                     <<":", "6", "5", "5", "3", "6">>}
Letters == {"a","b","c","d","e","f","g","h","i","k","l","m","n","o","p","r","s","t","u","v",
            "x","y","-"}

\* Pieces of a value of Connection: keywords, beginnings of them and separators.
Pieces == {KEEP_ALIVE, CLOSE, UPGRADE, <<"k", "e">>, <<"x">>, <<" ">>, <<",">>}

MCInit == ParserInit /\ kind = None /\ text = <<>>

Untouched == parser = NewParser(parser.type) /\ ~incall /\ ~eof

Begin ==
    /\ kind = None /\ Untouched
    /\ kind' \in {"url", "connect", "method", "name", "value"}
    /\ UNCHANGED <<pvars, text>>

\* A URL grows while it is not refused; a word while it is still the beginning of one that
\* is recognised; nothing later could change the verdict.
Grow ==
    /\ UNCHANGED <<pvars, kind>>
    /\ \/ /\ kind \in {"url", "connect"} /\ Len(text) < (IF kind = "url" THEN MaxUrl ELSE MaxUrl - 1)
          /\ \E c \in UrlPieces : text' = Append(text, c)
          /\ LET s == ScanUrl(FlattenSeq(text'), kind = "connect").s
             IN  /\ s # "s_dead" /\ (kind = "connect" => s \in ServerState)
                 /\ s \notin SchemaState \cup ServerState =>
                      Last(text') \in {<<"/">>, <<"?">>, <<"#">>, <<"a">>}
       \/ /\ kind = "method" /\ \E c \in Upper : text' = Append(text, c)
          /\ text # <<>> => MethodOf(text) # BadMethod
       \/ /\ kind = "name" /\ \E c \in Letters : text' = Append(text, c)
          /\ text # <<>> => NameState(text) # "h_general"
       \/ /\ kind = "value" /\ Len(text) < MaxPieces
          /\ \E c \in Pieces : text' = Append(text, c)
          /\ Len(FlattenSeq(text')) <= MaxValue

MCNext ==
    \/ kind = None /\ ParserNext /\ UNCHANGED <<kind, text>>
    \/ Begin
    \/ kind # None /\ Grow
    \/ kind # None /\ UNCHANGED vars

Spec == MCInit /\ [][MCNext]_vars

\* What http_parser_parse_url accepts is cut into its parts.
UrlParts == kind \in {"url", "connect"} => UrlCut(FlattenSeq(text), kind = "connect")

\* Methods, header names and Connection tokens are recognised letter by letter exactly
\* when they are the words of the tables.
WordsRecognised ==
    /\ kind = "method" => MethodRecognised(text)
    /\ kind = "name" => NameRecognised(text)
    /\ kind = "value" => ValueRecognised(FlattenSeq(text))
=============================================================================
