------------------------------- MODULE MCLog --------------------------------
(***************************************************************************)
(* Small instances of LogFormatter, LexicalCast, Config and FileLogAppender*)
(* in one run: each behaviour looks at one of them.                        *)
(***************************************************************************)
EXTENDS LogFormatter, LexicalCast, Config, FileLogAppender

CONSTANTS l1, l2, w1, w2

\* Loggers and configuration files.
Def(name, level, apps) == [name |-> name, level |-> level, appenders |-> apps]
File_(file) == [type |-> 1, file |-> file, pattern |-> <<>>]
Out(pattern) == [type |-> 2, file |-> <<>>, pattern |-> pattern]

LogsDoc(defs) == [ok |-> TRUE, root |-> Map(<<<<"logs", Sequence(defs)>>>>)]
Named(name, level) == Map(<<<<"name", Scalar(name)>>, <<"level", Scalar(<<level>>)>>>>)
MCDocs ==
    { LogsDoc(<<LogDefineNode(Def(<<"root">>, "DEBUG", <<Out(<<>>), File_(<<"f">>)>>)),
                Named(<<"system">>, "error"), Named(<<"system">>, "Info")>>),
      LogsDoc(<<Named(<<"system">>, "Info")>>),
      LogsDoc(<<Named(<<"root">>, "warn"), Map(<<<<"level", Scalar(<<"info">>)>>>>)>>),
      [ok |-> FALSE] }
ServerDoc ==
    [ok |-> TRUE, root |-> Map(<<<<"server", Map(<<<<"port", Scalar(<<"8">>)>>>>)>>,
                                 <<"Server", Map(<<<<"port", Scalar(<<"9">>)>>>>)>>,
                                 <<"logs", Sequence(<<Named(<<"root">>, "fatal")>>)>>>>)]
MCFirst == [f \in {"a", "b"} |-> IF f = "b" THEN ServerDoc ELSE CHOOSE d \in MCDocs : d.ok]
MCTypes == (<<"logs">> :> <<"set", <<"LogDefine">>>>) @@ (<<"server", "port">> :> <<"int">>)
MCNodes(root) == ListAllMember(<<>>, root)
MCProgram == {<<"system">>}
MCDefaults == (<<"logs">> :> {}) @@ (<<"server", "port">> :> 0)

\* Values that are written and read back.
MCSamples ==
    {<<<<"int">>, n>> : n \in 0..2}
    \cup {<<<<c, <<"string">>>>, v>> : c \in {"vector", "list"}, v \in {<<>>, <<<<"a">>, <<"b">>, <<"a">>>>}}
    \cup {<<<<c, <<"int">>>>, v>> : c \in {"set", "unordered_set"}, v \in SUBSET (1..3)}
    \cup {<<<<c, <<"vector", <<"int">>>>>>, v>> : c \in {"map", "unordered_map"},
            v \in UNION {[D -> {<<>>, <<2, 1>>}] : D \in SUBSET {"k", "l"}}}
    \cup {<<MCTypes[<<"logs">>], v>> : v \in SUBSET
            {Def(<<"root">>, "NOTSET", <<Out(<<"%m">>), File_(<<"f">>)>>), Def(<<"system">>, "INFO", <<>>)}}

\* Patterns: texts, known and unknown items, dates with and without a format.
MCParts ==
    {<<"text", <<"a">>>>, <<"text", <<"{", "}">>>>, <<"item", "m">>, <<"item", "%">>,
     <<"item", "n">>, <<"item", "t">>, <<"date", <<>>>>, <<"date", <<"%", "d">>>>}
MCEvent ==
    [Message |-> <<"hello">>, Level |-> <<"INFO">>, LoggerName |-> <<"root">>, Elapse |-> <<"7">>,
     FileName |-> <<"log.cpp">>, Line |-> <<"1">>,
     Time |-> (DefaultDate :> <<"2026">>) @@ (<<"%", "d">> :> <<"15">>)]

MCPaths == {[parts |-> <<"logs", "root">>, slash |-> TRUE]}
AnyPath == MCPaths \cup {[parts |-> <<"logs", "root">>, slash |-> FALSE]}

CONSTANT MaxParts

VARIABLES scene, parts, sample
mcVars == <<scene, parts, sample>>

MCInit ==
    /\ ConfInit /\ LogInit
    /\ scene \in {"pattern", "cast", "config", "file"}
    /\ scene # "file" => /\ m_filename = CHOOSE p \in LogPaths : TRUE
                         /\ m_curData = 0 /\ m_filename.parts \in fs.dirs
    /\ parts = <<>>
    /\ sample \in IF scene = "cast" THEN MCSamples ELSE {<<<<"int">>, 0>>}

NextPart ==
    /\ scene = "pattern"
    /\ Len(parts) < MaxParts
    /\ \E part \in MCParts : parts' = Append(parts, part)
    /\ UNCHANGED <<scene, sample>>

MCNext ==
    \/ NextPart /\ UNCHANGED <<confVars, logVars>>
    \/ scene = "config" /\ ConfNext /\ UNCHANGED <<mcVars, logVars>>
    \/ scene = "file" /\ LogNext /\ UNCHANGED <<mcVars, confVars>>
    \/ scene \in {"pattern", "cast"} /\ UNCHANGED <<mcVars, confVars, logVars>>

MCSpec == MCInit /\ [][MCNext]_<<mcVars, confVars, logVars>>

\* A log pattern gives the text its parts mean, whatever parts it is put together from.
PatternParsed == PatternRight(parts, MCEvent)

\* A configuration value survives ToString and FromString.
ValueKept == RoundTrip(sample[1], sample[2])
=============================================================================
