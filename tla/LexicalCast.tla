----------------------------- MODULE LexicalCast ----------------------------
(***************************************************************************)
(* LexicalCast (config.h, log.cpp): the conversions between the value of a *)
(* configuration variable and YAML.  A type is a tuple, as in              *)
(* <<"vector", <<"int">>>>; a scalar node holds the words of its text.     *)
(* yaml-cpp's emitter and parser are external: a node that is written and  *)
(* read again is the same node.                                            *)
(***************************************************************************)
EXTENDS Integers, Sequences, SequencesExt, TLC

CONSTANT ValidNames    \* the segments without a character ListAllMember refuses

Level == [FATAL |-> 0, ALERT |-> 100, CRIT |-> 200, ERROR |-> 300, WARN |-> 400,
          NOTICE |-> 500, INFO |-> 600, DEBUG |-> 700, NOTSET |-> 800]

\* LogLevel::FromString knows each name in lower and in upper case, and no other spelling.
LowerCase == [fatal |-> "FATAL", alert |-> "ALERT", crit |-> "CRIT", error |-> "ERROR",
              warn |-> "WARN", notice |-> "NOTICE", info |-> "INFO", debug |-> "DEBUG"]
LevelFromString(str) ==
    CASE str \in DOMAIN LowerCase -> LowerCase[str]
      [] str \in DOMAIN Level -> str
      [] OTHER -> "NOTSET"

Scalar(words) == [kind |-> "scalar", words |-> words]
Sequence(elems) == [kind |-> "seq", elems |-> elems]
Map(members) == [kind |-> "map", members |-> members]

\* The value stored under a key, as node["key"] and IsDefined give it.
Keys(n) == {m[1] : m \in Range(n.members)}
Get_(n, key) == (CHOOSE m \in Range(n.members) : m[1] = key)[2]
TextOf(n, key) == IF key \in Keys(n) THEN Get_(n, key).words ELSE <<>>

\* ss >> ret: the first word of a text; the number a word begins with, or 0.
FirstWord(words) == IF words = <<>> THEN <<>> ELSE <<Head(words)>>
Numeral == [w \in {ToString(k) : k \in 0..9} |-> CHOOSE k \in 0..9 : ToString(k) = w]
NumberOf(words) ==
    IF words # <<>> /\ Head(words) \in DOMAIN Numeral THEN Numeral[Head(words)] ELSE 0

\* One appender of a LogDefine: entries without a known type, and file appenders without
\* a file, are left out.
AppenderOk(a) ==
    \/ TextOf(a, "type") = <<"FileLogAppender">> /\ "file" \in Keys(a)
    \/ TextOf(a, "type") = <<"StdoutLogAppender">>
Appender(a) ==
    [type |-> IF TextOf(a, "type") = <<"FileLogAppender">> THEN 1 ELSE 2,
     file |-> IF TextOf(a, "type") = <<"FileLogAppender">> THEN TextOf(a, "file") ELSE <<>>,
     pattern |-> TextOf(a, "pattern")]

LogDefineFrom(n) ==
    [name |-> TextOf(n, "name"),
     level |-> LevelFromString(IF TextOf(n, "level") = <<>> THEN "" ELSE TextOf(n, "level")[1]),
     appenders |-> IF "appenders" \in Keys(n)
                   THEN LET ok == SelectSeq(Get_(n, "appenders").elems, AppenderOk)
                        IN  [k \in DOMAIN ok |-> Appender(ok[k])]
                   ELSE <<>>]

\* Elements enter a std::set one by one, and an equivalent one that is there stays: for
\* a LogDefine operator< looks at the name alone.
Equivalent(T, x, y) == IF T[1] = "LogDefine" THEN x.name = y.name ELSE x = y
Inserted(T, s) == {s[k] : k \in {j \in DOMAIN s : \A i \in 1..(j - 1) : ~Equivalent(T, s[i], s[j])}}

\* node.size() and the iteration over a scalar give nothing.  A map is never given where a
\* sequence is expected, nor the other way round.
Elems(n) == IF n.kind = "seq" THEN n.elems ELSE <<>>
Members(n) == IF n.kind = "map" THEN n.members ELSE <<>>

\* ListAllMember (config.cpp): every node with its name, parents first; a name with a refused
\* character is left out with all below it.
RECURSIVE ListAllMember(_, _)
ListAllMember(prefix, node) ==
    LET ms == Members(node)
    IN  IF \E k \in DOMAIN prefix : prefix[k] \notin ValidNames THEN <<>>
        ELSE <<<<prefix, node>>>> \o
             FlattenSeq([k \in DOMAIN ms |-> ListAllMember(Append(prefix, ms[k][1]), ms[k][2])])

\* LexicalCast<std::string, T>.  Of two members with one key the first is kept.
RECURSIVE FromYaml(_, _)
FromYaml(T, n) ==
    LET all == [k \in DOMAIN Elems(n) |-> FromYaml(T[2], Elems(n)[k])]
        ms == Members(n)
    IN  CASE T[1] = "int" -> NumberOf(n.words)
          [] T[1] = "string" -> FirstWord(n.words)
          [] T[1] = "LogDefine" -> LogDefineFrom(n)
          [] T[1] \in {"vector", "list"} -> all
          [] T[1] \in {"set", "unordered_set"} -> Inserted(T[2], all)
          [] T[1] \in {"map", "unordered_map"} ->
               [key \in {m[1] : m \in Range(ms)} |->
                  FromYaml(T[2], ms[SelectInSeq(ms, LAMBDA m : m[1] = key)][2])]

\* Whether the conversion ends without an exception: a logger must have a name.
RECURSIVE Convertible(_, _)
Convertible(T, n) ==
    CASE T[1] = "LogDefine" -> n.kind = "map" /\ "name" \in Keys(n)
      [] T[1] \in {"int", "string"} -> n.kind = "scalar"
      [] T[1] \in {"map", "unordered_map"} ->
           \A k \in DOMAIN Members(n) : Convertible(T[2], Members(n)[k][2])
      [] OTHER -> \A k \in DOMAIN Elems(n) : Convertible(T[2], Elems(n)[k])

\* Mutant: a file appender is written without its file.
AppenderNoFile(a) ==
    Map(<<<<"type", Scalar(<<IF a.type = 1 THEN "FileLogAppender" ELSE "StdoutLogAppender">>)>>>>)

AppenderNode(a) ==
    Map(<<<<"type", Scalar(<<IF a.type = 1 THEN "FileLogAppender" ELSE "StdoutLogAppender">>)>>>>
        \o (IF a.type = 1 THEN <<<<"file", Scalar(a.file)>>>> ELSE <<>>)
        \o (IF a.pattern # <<>> THEN <<<<"pattern", Scalar(a.pattern)>>>> ELSE <<>>))

LogDefineNode(d) ==
    Map(<<<<"name", Scalar(d.name)>>, <<"level", Scalar(<<d.level>>)>>>>
        \o (IF d.appenders = <<>> THEN <<>>
            ELSE <<<<"appenders", Sequence([k \in DOMAIN d.appenders |->
                                              AppenderNode(d.appenders[k])])>>>>))

\* LexicalCast<T, std::string>.
RECURSIVE ToYaml(_, _)
ToYaml(T, v) ==
    CASE T[1] = "int" -> Scalar(<<ToString(v)>>)
      [] T[1] = "string" -> Scalar(FirstWord(v))
      [] T[1] = "LogDefine" -> LogDefineNode(v)
      [] T[1] \in {"vector", "list"} -> Sequence([k \in DOMAIN v |-> ToYaml(T[2], v[k])])
      [] T[1] \in {"set", "unordered_set"} ->
           LET s == SetToSeq(v) IN Sequence([k \in DOMAIN s |-> ToYaml(T[2], s[k])])
      [] T[1] \in {"map", "unordered_map"} ->
           LET s == SetToSeq(DOMAIN v) IN Map([k \in DOMAIN s |-> <<s[k], ToYaml(T[2], v[s[k]])>>])

-----------------------------------------------------------------------------
\* What ToString writes, FromString reads back as the same value, for every type built
\* from numbers, words, logger definitions and the six containers.
RoundTrip(T, v) == Convertible(T, ToYaml(T, v)) /\ FromYaml(T, ToYaml(T, v)) = v
=============================================================================
