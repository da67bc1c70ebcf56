----------------------------- MODULE LogProofs ------------------------------
(***************************************************************************)
(* Proofs about Config and FileLogAppender: no edit of a configuration file*)
(* is missed, the loggers follow "logs", and no line is lost once the      *)
(* appender has made its file.                                             *)
(***************************************************************************)
EXTENDS Config, FileLogAppender, FiniteSetTheorems, SequenceTheorems, TLAPS

Of(s) == {s[k] : k \in DOMAIN s}
AnyDoc == Docs \cup {FirstDocs[f] : f \in ConfFiles}
NodeSet == UNION {Of(NodesOf(d.root)) : d \in AllDocs}

\* The locals of a thread: it has a file while it is in LoadFromConfDir, a node while it is
\* in LoadFromYaml, and what SetValue was given is a value of the variable.
LocalsOk(me) ==
    /\ me = [pc |-> me.pc, force |-> me.force, files |-> me.files, nodes |-> me.nodes,
             key |-> me.key, new |-> me.new, work |-> me.work]
    /\ me.pc \in {"idle", "stat", "open", "node", "set", "notify", "write"}
    /\ me.files \in Seq(ConfFiles)
    /\ me.nodes \in Seq(NodeSet)
    /\ me.pc # "idle" => me.files # <<>>
    /\ me.pc \in {"node", "set", "notify", "write"} => me.nodes # <<>>
    /\ me.pc \in {"set", "notify", "write"} =>
         me.key \in DOMAIN Types /\ (me.key = LOGS => Defines(me.new))
    /\ me.pc = "write" => me.work = <<>>
    /\ me.pc = "notify" => me.key = LOGS /\ me.work \in Seq(Of(me.work)) /\ me.work # <<>>

ConfTypes ==
    /\ conf \in [ConfFiles -> [doc : AnyDoc, edits : Seq(Nat) \ {<<>>}]]
    /\ clock \in Nat
    /\ s_file2modifytime \in [ConfFiles -> Nat]
    /\ loaded \in [ConfFiles -> Nat]
    /\ loader = [l \in Loaders |-> loader[l]]
    /\ m_val = [key \in DOMAIN Types |-> m_val[key]] /\ Defines(m_val[LOGS])
    /\ \A l \in Loaders : LocalsOk(loader[l])

\* The times of the edits of a file go up to the clock, the time on record is not later
\* than the last, and what was read last is at least as new as it, while nobody is about
\* to read the file.
TimesUp(edits) == \A i, j \in DOMAIN edits : 1 <= edits[i] /\ (i <= j => edits[i] <= edits[j])
Reading(f) == \E l \in Loaders : At(l, "open") /\ File(l) = f
FileInv(f) ==
    /\ TimesUp(conf[f].edits) /\ Mtime(f) <= clock
    /\ s_file2modifytime[f] <= Mtime(f)
    /\ loaded[f] <= Version(f)
    /\ \/ s_file2modifytime[f] = 0
       \/ Reading(f)
       \/ loaded[f] > 0 /\ s_file2modifytime[f] <= conf[f].edits[loaded[f]]

\* The loggers have what v defines, but for the changes W that are still to be made.
Off(name) == [name |-> name, level |-> "NOTSET", appenders |-> <<>>]
Plain(g) == g \in {NewLogger, RootLogger, [NewLogger EXCEPT !.m_level = "NOTSET"]}
Follow(v, W, g) ==
    /\ \A d \in v : d \in W \/ (d.name \in DOMAIN g /\ g[d.name].m_level = d.level)
    /\ \A name \in DOMAIN g :
         (\E d \in v : d.name = name) \/ (\E c \in W : c.name = name) \/ Plain(g[name])
    /\ \A c \in W : c \in v \/ (c = Off(c.name) /\ ~\E d \in v : d.name = c.name)

Applying(l) == loader[l].pc \in {"notify", "write"} /\ loader[l].key = LOGS
FollowInv ==
    /\ (\A l \in Loaders : ~Applying(l)) => Follow(m_val[LOGS], {}, m_loggers)
    /\ \A l \in Loaders : Applying(l) => Follow(loader[l].new, Of(loader[l].work), m_loggers)

TimesInv == ConfTypes /\ \A f \in ConfFiles : FileInv(f)

-----------------------------------------------------------------------------
\* A sequence is one of its own elements.
LEMMA OwnElements ==
    ASSUME NEW S, NEW s \in Seq(S)
    PROVE  s \in Seq(Of(s)) /\ Of(s) \subseteq S
<1>1. \A k \in 1..Len(s) : s[k] \in Of(s) /\ s[k] \in S
    BY DEF Of
<1> QED
    BY <1>1 DEF Of

\* What is left of a sequence without its first element.
LEMMA TailFacts ==
    ASSUME NEW S, NEW s \in Seq(S), s # <<>>
    PROVE  /\ Tail(s) \in Seq(S) /\ (Len(s) > 1 => Tail(s) # <<>>)
           /\ Head(s) \in Of(s) /\ Of(Tail(s)) \subseteq Of(s)
           /\ Of(s) \subseteq Of(Tail(s)) \cup {Head(s)}
<1>1. /\ Tail(s) \in Seq(S) /\ Len(Tail(s)) = Len(s) - 1
      /\ \A i \in 1 .. Len(Tail(s)) : Tail(s)[i] = s[i + 1]
    BY Zenon, HeadTailProperties
<1>2. Len(s) \in Nat /\ DOMAIN s = 1..Len(s) /\ Head(s) = s[1] /\ Len(s) # 0
    BY EmptySeq, LenProperties
<1>3. DOMAIN Tail(s) = 1..(Len(s) - 1)
    BY Zenon, <1>1, LenProperties
<1>4. Len(s) > 1 => Tail(s) # <<>>
  <2>1. Len(<<>>) = 0
      BY Zenon
  <2>2. Len(s) > 1 => Len(Tail(s)) # 0
      BY <1>1, <1>2
  <2> QED
      BY <2>1, <2>2, Zenon
<1>5. Head(s) \in Of(s)
    BY <1>2 DEF Of
<1>6. Of(Tail(s)) \subseteq Of(s)
    BY <1>1, <1>2, <1>3 DEF Of
<1>7. Of(s) \subseteq Of(Tail(s)) \cup {Head(s)}
  <2>1. ASSUME NEW k \in 1..Len(s), k # 1 PROVE s[k] \in Of(Tail(s))
    <3>1. k - 1 \in 1..(Len(s) - 1) /\ (k - 1) + 1 = k
        BY <1>2, <2>1
    <3>2. Tail(s)[k - 1] = s[k]
        BY Zenon, <1>1, <1>2, <3>1
    <3> QED
        BY Zenon, <1>3, <3>1, <3>2 DEF Of
  <2> QED
      BY Zenon, <1>2, <2>1 DEF Of
<1> QED
    BY Zenon, <1>1, <1>4, <1>5, <1>6, <1>7

\* Every finite set can be listed, and a listing has its elements.
LEMMA ListedFacts ==
    ASSUME NEW S, IsFiniteSet(S)
    PROVE  /\ Orders(S) \subseteq Seq(S)
           /\ Listed(S) \in Seq(S) /\ Of(Listed(S)) = S
<1>1. Cardinality(S) \in Nat /\ ExistsBijection(1..Cardinality(S), S)
    BY Zenon, FS_CardinalityType
<1>2. PICK b \in Bijection(1..Cardinality(S), S) : TRUE
    BY Zenon, <1>1 DEF ExistsBijection
<1>3. b \in [1..Cardinality(S) -> S] /\ \A x \in S : \E k \in 1..Cardinality(S) : b[k] = x
    BY Zenon, <1>2 DEF Bijection, Surjection, Injection
<1>4. b \in Orders(S)
    BY Zenon, <1>3 DEF Orders
<1>5. Listed(S) \in Orders(S)
    BY Zenon, <1>4 DEF Listed
<1>6. Orders(S) \subseteq Seq(S)
    BY <1>1 DEF Orders
<1>7. Of(Listed(S)) = S
    BY Zenon, <1>5 DEF Orders, Of
<1> QED
    BY Zenon, <1>5, <1>6, <1>7

\* The changes are the definitions that are new or differ, and an end for each name dropped.
LEMMA ChangesFacts ==
    ASSUME NEW old, NEW new, IsFiniteSet(old), IsFiniteSet(new)
    PROVE  /\ Changes(old, new) \in Seq(Of(Changes(old, new)))
           /\ Of(Changes(old, new)) =
                {d \in new : ~\E e \in old : SameDefine(d, e)}
                \cup {Off(e.name) : e \in {e \in old : ~\E d \in new : d.name = e.name}}
<1> DEFINE A == {d \in new : ~\E e \in old : SameDefine(d, e)}
           D == {e \in old : ~\E d \in new : d.name = e.name}
           B == {Off(e.name) : e \in D}
<1>1. IsFiniteSet(A)
    BY Zenon, FS_Subset
<1>2. IsFiniteSet(B)
  <2>1. IsFiniteSet(D)
      BY Zenon, FS_Subset
  <2>2. [e \in D |-> Off(e.name)] \in Surjection(D, B)
      BY Zenon DEF Surjection
  <2> QED
      BY Zenon, <2>1, <2>2, FS_Surjection
<1> HIDE DEF A, B, D
<1>3. /\ Listed(A) \in Seq(A) /\ Of(Listed(A)) = A
      /\ Listed(B) \in Seq(B) /\ Of(Listed(B)) = B
    BY Zenon, <1>1, <1>2, ListedFacts
<1>4. ASSUME NEW s \in Seq(A), NEW t \in Seq(B)
      PROVE  s \o t \in Seq(Of(s \o t)) /\ Of(s \o t) = Of(s) \cup Of(t)
  <2>1. s \in Seq(A \cup B) /\ t \in Seq(A \cup B)
      OBVIOUS
  <2>2. /\ s \o t \in Seq(A \cup B)
        /\ Len(s \o t) = Len(s) + Len(t)
        /\ \A i \in 1 .. Len(s) + Len(t) : (s \o t)[i] = IF i <= Len(s) THEN s[i] ELSE t[i - Len(s)]
      BY Zenon, <2>1, ConcatProperties
  <2>3. s \o t \in Seq(Of(s \o t))
      BY Zenon, <2>2, OwnElements
  <2>4. Of(s) \subseteq Of(s \o t)
      BY <2>1, <2>2 DEF Of
  <2>5. Of(t) \subseteq Of(s \o t)
    <3>1. ASSUME NEW k \in 1..Len(t) PROVE (s \o t)[Len(s) + k] = t[k] /\ Len(s) + k \in 1..Len(s \o t)
        BY <2>1, <2>2
    <3> QED
        BY <2>1, <2>2, <3>1 DEF Of
  <2>6. Of(s \o t) \subseteq Of(s) \cup Of(t)
    <3>1. ASSUME NEW i \in 1..Len(s \o t) PROVE (s \o t)[i] \in Of(s) \cup Of(t)
      <4>1. CASE i <= Len(s)
          BY <2>1, <2>2, <4>1 DEF Of
      <4>2. CASE ~(i <= Len(s))
        <5>1. i - Len(s) \in 1..Len(t) /\ (s \o t)[i] = t[i - Len(s)]
            BY <2>1, <2>2, <4>2
        <5> QED
            BY <2>1, <5>1 DEF Of
      <4> QED
          BY Zenon, <4>1, <4>2
    <3> QED
        BY <2>2, <3>1 DEF Of
  <2> QED
      BY Zenon, <2>3, <2>4, <2>5, <2>6
<1>5. Changes(old, new) = Listed(A) \o Listed(B)
    BY Zenon DEF Changes, A, B, D, Off
<1> QED
    BY ZenonT(60), <1>3, <1>4, <1>5 DEF A, B, D

\* GetLogger of the program: the new logger is not one that v names.
LEMMA FollowGet ==
    ASSUME NEW v, NEW W, NEW g, NEW name, Follow(v, W, g), name \notin DOMAIN g
    PROVE  Follow(v, W, Put(g, name, NewLogger))
<1> DEFINE h == Put(g, name, NewLogger)
<1>1. DOMAIN h = DOMAIN g \cup {name} /\ h[name] = NewLogger /\ \A x \in DOMAIN g : h[x] = g[x]
    BY Zenon DEF Put
<1> HIDE DEF h
<1> QED
    BY Zenon, <1>1 DEF Follow, Plain, h

\* One change is made.
LEMMA FollowChange ==
    ASSUME NEW v, NEW W, NEW V, NEW g, NEW c \in W, Defines(v), Follow(v, W, g),
           W \subseteq V \cup {c}, V \subseteq W
    PROVE  Follow(v, V, Put(g, c.name, [m_level |-> c.level, m_appenders |-> c.appenders]))
<1> DEFINE lg == [m_level |-> c.level, m_appenders |-> c.appenders]
           h == Put(g, c.name, lg)
<1>1. DOMAIN h = DOMAIN g \cup {c.name} /\ h[c.name] = lg /\ \A x \in DOMAIN g \ {c.name} : h[x] = g[x]
    BY Zenon DEF Put
<1>2. lg.m_level = c.level
    BY Zenon
<1>3. c = Off(c.name) => Plain(lg)
  <2>1. Off(c.name).level = "NOTSET" /\ Off(c.name).appenders = <<>>
      BY Zenon DEF Off
  <2>2. [m_level |-> "NOTSET", m_appenders |-> <<>>] = [NewLogger EXCEPT !.m_level = "NOTSET"]
      BY DEF NewLogger
  <2>3. c = Off(c.name) => lg = [NewLogger EXCEPT !.m_level = "NOTSET"]
      BY <2>1, <2>2, Zenon
  <2> QED
      BY Zenon, <2>3 DEF Plain
<1> HIDE DEF lg, h
<1>4. \A d \in v : d \in V \/ (d.name \in DOMAIN h /\ h[d.name].m_level = d.level)
    BY Zenon, <1>1, <1>2 DEF Follow, Defines
<1>5. \A name \in DOMAIN h :
        (\E d \in v : d.name = name) \/ (\E b \in V : b.name = name) \/ Plain(h[name])
    BY Zenon, <1>1, <1>3 DEF Follow
<1>6. \A b \in V : b \in v \/ (b = Off(b.name) /\ ~\E d \in v : d.name = b.name)
    BY Zenon DEF Follow
<1> QED
    BY Zenon, <1>4, <1>5, <1>6 DEF Follow, h, lg

\* SetValue: what is still to be done is the list of changes.
LEMMA FollowBegin ==
    ASSUME NEW old, NEW new, NEW g, Defines(old), Defines(new), Follow(old, {}, g)
    PROVE  Follow(new, Of(Changes(old, new)), g)
<1> DEFINE W == Of(Changes(old, new))
<1>1. W = {d \in new : ~\E e \in old : SameDefine(d, e)}
          \cup {Off(e.name) : e \in {e \in old : ~\E d \in new : d.name = e.name}}
    BY ChangesFacts DEF Defines
<1>2. \A name : Off(name).name = name
    BY Zenon DEF Off
<1> HIDE DEF W
<1>3. \A d \in new : d \in W \/ (d.name \in DOMAIN g /\ g[d.name].m_level = d.level)
  <2> SUFFICES ASSUME NEW d \in new, d \notin W PROVE d.name \in DOMAIN g /\ g[d.name].m_level = d.level
      BY Zenon
  <2>1. PICK e \in old : SameDefine(d, e)
      BY Zenon, <1>1
  <2>2. e.name \in DOMAIN g /\ g[e.name].m_level = e.level
      BY Zenon, <2>1 DEF Follow
  <2> QED
      BY Zenon, <2>1, <2>2 DEF SameDefine
<1>4. \A name \in DOMAIN g :
        (\E d \in new : d.name = name) \/ (\E c \in W : c.name = name) \/ Plain(g[name])
  <2> SUFFICES ASSUME NEW name \in DOMAIN g, ~\E d \in new : d.name = name, ~Plain(g[name])
               PROVE  \E c \in W : c.name = name
      BY Zenon
  <2>1. PICK e \in old : e.name = name
      BY Zenon DEF Follow
  <2>2. Off(e.name) \in W
      BY Zenon, <1>1, <2>1
  <2> QED
      BY Zenon, <1>2, <2>1, <2>2
<1>5. \A c \in W : c \in new \/ (c = Off(c.name) /\ ~\E d \in new : d.name = c.name)
    BY Zenon, <1>1, <1>2
<1> QED
    BY Zenon, <1>3, <1>4, <1>5 DEF Follow, W

-----------------------------------------------------------------------------
(* The locals of a thread.                                                 *)

LEMMA FileDoneOk ==
    ASSUME NEW l, NEW me, LocalsOk(me), me.pc # "idle"
    PROVE  LocalsOk(FileDone(l, me)) /\ FileDone(l, me).pc \in {"idle", "stat"}
<1>1. LocalsOk(Rest) /\ Rest.pc = "idle"
    BY DEF LocalsOk, Rest
<1>2. ASSUME NEW q, q = [Rest EXCEPT !.pc = "stat", !.force = me.force, !.files = Tail(me.files)],
             Len(me.files) > 1
      PROVE  LocalsOk(q) /\ q.pc = "stat"
  <2>1. Tail(me.files) \in Seq(ConfFiles) /\ Tail(me.files) # <<>>
    <3>1. me.files \in Seq(ConfFiles) /\ Len(me.files) > 1 /\ me.files # <<>>
        BY Zenon, <1>2 DEF LocalsOk
    <3> QED
        BY <3>1, TailFacts, Zenon
  <2>2. q = [pc |-> "stat", force |-> me.force, files |-> Tail(me.files), nodes |-> <<>>,
             key |-> <<>>, new |-> 0, work |-> <<>>]
      BY Zenon, <1>2 DEF Rest
  <2> QED
      BY <2>1, <2>2 DEF LocalsOk
<1> QED
    BY Zenon, <1>1, <1>2 DEF FileDone

LEMMA NodeDoneOk ==
    ASSUME NEW l, NEW me, LocalsOk(me), me.pc \in {"node", "set", "notify", "write"}
    PROVE  LocalsOk(NodeDone(l, me)) /\ NodeDone(l, me).pc \in {"idle", "stat", "node"}
<1>1. LocalsOk(FileDone(l, me)) /\ FileDone(l, me).pc \in {"idle", "stat"}
    BY Zenon, FileDoneOk
<1>2. ASSUME NEW q,
             q = [me EXCEPT !.pc = "node", !.nodes = Tail(@), !.key = <<>>, !.new = 0, !.work = <<>>],
             Len(me.nodes) > 1
      PROVE  LocalsOk(q) /\ q.pc = "node"
  <2>1. Tail(me.nodes) \in Seq(NodeSet) /\ Tail(me.nodes) # <<>>
    <3>1. me.nodes \in Seq(NodeSet) /\ Len(me.nodes) > 1 /\ me.nodes # <<>>
        BY Zenon, <1>2 DEF LocalsOk
    <3> QED
        BY <3>1, TailFacts, Zenon
  <2>2. q = [pc |-> "node", force |-> me.force, files |-> me.files, nodes |-> Tail(me.nodes),
             key |-> <<>>, new |-> 0, work |-> <<>>]
      BY Zenon, <1>2 DEF LocalsOk
  <2> QED
      BY Zenon, <2>1, <2>2 DEF LocalsOk
<1> QED
    BY Zenon, <1>1, <1>2 DEF NodeDone

\* The nodes of a document that is YAML.
LEMMA NodesFacts ==
    ASSUME NEW d \in AnyDoc, d.ok
    PROVE  /\ NodesOf(d.root) \in Seq(NodeSet) /\ NodesOf(d.root) # <<>>
<1>1. d \in AllDocs
    BY Zenon DEF AnyDoc, AllDocs
<1>2. NodesOf(d.root) # <<>> /\ NodesOf(d.root) \in Seq(Of(NodesOf(d.root)))
    BY Zenon, <1>1, ConfAssumption DEF Of
<1>3. Of(NodesOf(d.root)) \subseteq NodeSet
    BY Zenon, <1>1 DEF NodeSet
<1> QED
    BY <1>2, <1>3

LEMMA ConvertedFacts ==
    ASSUME NEW node \in NodeSet, CanConvert(Types[LOGS], node[2])
    PROVE  Defines(FromStr(Types[LOGS], node[2]))
<1>1. PICK e \in AllDocs : \E k \in DOMAIN NodesOf(e.root) : node = NodesOf(e.root)[k]
    BY Zenon DEF NodeSet, Of
<1> QED
    BY Zenon, <1>1, ConfAssumption

\* What a thread is at after each of its steps.
LEMMA LoadedOk ==
    ASSUME ConfTypes, NEW l \in Loaders, LoadFile(l)
    PROVE  \E me : /\ loader' = [loader EXCEPT ![l] = me] /\ LocalsOk(me)
                   /\ me.pc \in {"idle", "stat", "node"}
<1> DEFINE old == loader[l]
           d == conf[File(l)].doc
<1>1. LocalsOk(old) /\ old.pc = "open"
    BY Zenon DEF ConfTypes, LoadFile, At
<1>2. d \in AnyDoc
  <2>1. File(l) \in ConfFiles
      BY <1>1 DEF LocalsOk, File
  <2> QED
      BY Zenon, <2>1 DEF ConfTypes
<1>3. loader' = [loader EXCEPT ![l] = IF d.ok THEN [old EXCEPT !.pc = "node", !.nodes = NodesOf(d.root)]
                                      ELSE FileDone(l, old)]
    BY Zenon DEF LoadFile
<1> HIDE DEF old, d
<1>4. ASSUME NEW q, q = [old EXCEPT !.pc = "node", !.nodes = NodesOf(d.root)], d.ok
      PROVE  LocalsOk(q) /\ q.pc = "node"
  <2>1. NodesOf(d.root) \in Seq(NodeSet) /\ NodesOf(d.root) # <<>>
      BY Zenon, <1>2, <1>4, NodesFacts
  <2>2. q = [pc |-> "node", force |-> old.force, files |-> old.files, nodes |-> NodesOf(d.root),
             key |-> old.key, new |-> old.new, work |-> old.work]
      BY Zenon, <1>1, <1>4 DEF LocalsOk
  <2> QED
      BY Zenon, <1>1, <2>1, <2>2 DEF LocalsOk
<1>5. CASE d.ok
    BY Zenon, <1>3, <1>4, <1>5
<1>6. CASE ~d.ok
    BY Zenon, <1>1, <1>3, <1>6, FileDoneOk
<1> QED
    BY Zenon, <1>5, <1>6

LEMMA StattedOk ==
    ASSUME ConfTypes, NEW l \in Loaders, Stat(l)
    PROVE  \E me : /\ loader' = [loader EXCEPT ![l] = me] /\ LocalsOk(me)
                   /\ \/ me.pc \in {"idle", "stat"} /\ UNCHANGED s_file2modifytime
                      \/ /\ me.pc = "open" /\ me.files = loader[l].files
                         /\ s_file2modifytime' = [s_file2modifytime EXCEPT ![File(l)] = Mtime(File(l))]
<1> DEFINE old == loader[l]
           skip == ~old.force /\ s_file2modifytime[File(l)] = Mtime(File(l))
<1>1. LocalsOk(old) /\ old.pc = "stat"
    BY Zenon DEF ConfTypes, Stat, At
<1>2. /\ loader' = [loader EXCEPT ![l] = IF skip THEN FileDone(l, old) ELSE [old EXCEPT !.pc = "open"]]
      /\ s_file2modifytime' = IF skip THEN s_file2modifytime
                              ELSE [s_file2modifytime EXCEPT ![File(l)] = Mtime(File(l))]
    BY Zenon DEF Stat
<1>3. ASSUME NEW q, q = [old EXCEPT !.pc = "open"]
      PROVE  LocalsOk(q) /\ q.pc = "open" /\ q.files = old.files
  <2>1. q = [pc |-> "open", force |-> old.force, files |-> old.files, nodes |-> old.nodes,
             key |-> old.key, new |-> old.new, work |-> old.work]
      BY Zenon, <1>1, <1>3 DEF LocalsOk
  <2> QED
      BY Zenon, <1>1, <2>1 DEF LocalsOk
<1> HIDE DEF skip
<1>4. CASE skip
    BY Zenon, <1>1, <1>2, <1>4, FileDoneOk
<1>5. CASE ~skip
    BY Zenon, <1>2, <1>3, <1>5
<1> QED
    BY Zenon, <1>4, <1>5

LEMMA NodedOk ==
    ASSUME ConfTypes, NEW l \in Loaders, Node(l)
    PROVE  \E me : /\ loader' = [loader EXCEPT ![l] = me] /\ LocalsOk(me)
                   /\ me.pc \in {"idle", "stat", "node", "set"}
<1> DEFINE old == loader[l]
           key == Head(old.nodes)[1]
           node == Head(old.nodes)[2]
           new == FromStr(Types[key], node)
           fits == key \in DOMAIN Types /\ CanConvert(Types[key], node)
<1>1. LocalsOk(old) /\ old.pc = "node"
    BY Zenon DEF ConfTypes, Node, At
<1>2. loader' = [loader EXCEPT ![l] = IF fits THEN [old EXCEPT !.pc = "set", !.key = key, !.new = new]
                                      ELSE NodeDone(l, old)]
    BY Zenon DEF Node
<1>3. Head(old.nodes) \in NodeSet
  <2>1. old.nodes \in Seq(NodeSet) /\ old.nodes # <<>>
      BY Zenon, <1>1 DEF LocalsOk
  <2> QED
      BY Zenon, <2>1, HeadTailProperties
<1>4. fits /\ key = LOGS => Defines(new)
    BY Zenon, <1>3, ConvertedFacts
<1> HIDE DEF key, node, new, old
<1>5. ASSUME NEW q, q = [old EXCEPT !.pc = "set", !.key = key, !.new = new], fits
      PROVE  LocalsOk(q) /\ q.pc = "set"
  <2>1. q = [pc |-> "set", force |-> old.force, files |-> old.files, nodes |-> old.nodes,
             key |-> key, new |-> new, work |-> old.work]
      BY Zenon, <1>1, <1>5 DEF LocalsOk
  <2> QED
      BY Zenon, <1>1, <1>4, <1>5, <2>1 DEF LocalsOk
<1> HIDE DEF fits
<1>6. CASE fits
    BY Zenon, <1>2, <1>5, <1>6
<1>7. CASE ~fits
    BY Zenon, <1>1, <1>2, <1>7, NodeDoneOk
<1> QED
    BY Zenon, <1>6, <1>7

LEMMA SetOk ==
    ASSUME ConfTypes, NEW l \in Loaders, SetValue(l)
    PROVE  \E me : /\ loader' = [loader EXCEPT ![l] = me] /\ LocalsOk(me)
                   /\ \/ me.pc \in {"idle", "stat", "node"}
                      \/ /\ me.pc \in {"notify", "write"}
                         /\ me.key = loader[l].key /\ me.new = loader[l].new
                         /\ me.key = LOGS => me.work = Changes(m_val[LOGS], me.new)
<1> DEFINE old == loader[l]
           work == IF old.key = LOGS THEN Changes(m_val[old.key], old.new) ELSE <<>>
           same == SameValue(old.key, old.new, m_val[old.key])
           pc == IF work = <<>> THEN "write" ELSE "notify"
<1>1. LocalsOk(old) /\ old.pc = "set"
    BY Zenon DEF ConfTypes, SetValue, At
<1>2. loader' = [loader EXCEPT ![l] = IF same THEN NodeDone(l, old)
                                      ELSE [old EXCEPT !.pc = pc, !.work = work]]
    BY Zenon DEF SetValue
<1>3. old.key = LOGS => work = Changes(m_val[LOGS], old.new) /\ work \in Seq(Of(work))
  <2>1. ASSUME old.key = LOGS PROVE Defines(old.new)
      BY Zenon, <1>1, <2>1 DEF LocalsOk
  <2> QED
      BY Zenon, <2>1, ChangesFacts DEF Defines, ConfTypes
<1>4. old.key # LOGS => work = <<>>
    BY Zenon
<1> HIDE DEF work, old, same
<1>5. ASSUME NEW q, q = [old EXCEPT !.pc = pc, !.work = work]
      PROVE  LocalsOk(q) /\ q.pc \in {"notify", "write"} /\ q.key = old.key /\ q.new = old.new /\ q.work = work
  <2>1. q = [pc |-> pc, force |-> old.force, files |-> old.files, nodes |-> old.nodes,
             key |-> old.key, new |-> old.new, work |-> work]
      BY Zenon, <1>1, <1>5 DEF LocalsOk
  <2> QED
      BY Zenon, <1>1, <1>3, <1>4, <2>1 DEF LocalsOk
<1>6. CASE same
    BY Zenon, <1>1, <1>2, <1>6, NodeDoneOk
<1>7. CASE ~same
    BY ZenonT(60), <1>2, <1>3, <1>5, <1>7 DEF old
<1> QED
    BY Zenon, <1>6, <1>7

LEMMA NotifiedOk ==
    ASSUME ConfTypes, NEW l \in Loaders, Notify(l)
    PROVE  \E me : /\ loader' = [loader EXCEPT ![l] = me] /\ LocalsOk(me)
                   /\ me.pc \in {"notify", "write"} /\ me.key = LOGS
                   /\ me.new = loader[l].new /\ me.work = Tail(loader[l].work)
<1> DEFINE old == loader[l]
           rest == Tail(old.work)
           pc == IF rest = <<>> THEN "write" ELSE "notify"
<1>1. LocalsOk(old) /\ old.pc = "notify"
    BY Zenon DEF ConfTypes, Notify, At
<1>2. loader' = [loader EXCEPT ![l] = [old EXCEPT !.work = rest, !.pc = pc]]
    BY Zenon DEF Notify
<1>3. rest \in Seq(Of(rest))
  <2>1. old.work \in Seq(Of(old.work)) /\ old.work # <<>>
      BY Zenon, <1>1 DEF LocalsOk
  <2>2. rest \in Seq(Of(old.work))
      BY <2>1, TailFacts, Zenon
  <2> QED
      BY Zenon, <2>2, OwnElements
<1> HIDE DEF rest, old
<1>4. ASSUME NEW q, q = [old EXCEPT !.work = rest, !.pc = pc]
      PROVE  /\ LocalsOk(q) /\ q.pc \in {"notify", "write"} /\ q.key = LOGS
             /\ q.new = old.new /\ q.work = rest
  <2>1. q = [pc |-> pc, force |-> old.force, files |-> old.files, nodes |-> old.nodes,
             key |-> old.key, new |-> old.new, work |-> rest]
      BY Zenon, <1>1, <1>4 DEF LocalsOk
  <2> QED
      BY Zenon, <1>1, <1>3, <2>1 DEF LocalsOk
<1> QED
    BY Zenon, <1>2, <1>4 DEF old, rest

LEMMA StoredOk ==
    ASSUME ConfTypes, NEW l \in Loaders, Store(l)
    PROVE  \E me : /\ loader' = [loader EXCEPT ![l] = me] /\ LocalsOk(me)
                   /\ me.pc \in {"idle", "stat", "node"}
<1>1. LocalsOk(loader[l]) /\ loader[l].pc = "write"
    BY Zenon DEF ConfTypes, Store, At
<1>2. loader' = [loader EXCEPT ![l] = NodeDone(l, loader[l])]
    BY Zenon DEF Store
<1> QED
    BY Zenon, <1>1, <1>2, NodeDoneOk

LEMMA BegunOk ==
    ASSUME ConfTypes, NEW l \in Loaders, LoadFromConfDir(l)
    PROVE  \E me : /\ loader' = [loader EXCEPT ![l] = me] /\ LocalsOk(me)
                   /\ me.pc \in {"idle", "stat"}
<1> DEFINE old == loader[l]
<1>1. LocalsOk(old) /\ old.pc = "idle"
    BY Zenon DEF ConfTypes, LoadFromConfDir, At
<1>2. PICK files \in Orders(ConfFiles), force \in BOOLEAN :
        loader' = [loader EXCEPT ![l] =
          [old EXCEPT !.pc = IF files = <<>> THEN "idle" ELSE "stat", !.files = files, !.force = force]]
    BY Zenon DEF LoadFromConfDir
<1>3. files \in Seq(ConfFiles)
    BY Zenon, ListedFacts, ConfAssumption
<1> HIDE DEF old
<1>4. ASSUME NEW q, q = [old EXCEPT !.pc = IF files = <<>> THEN "idle" ELSE "stat",
                                    !.files = files, !.force = force]
      PROVE  LocalsOk(q) /\ q.pc \in {"idle", "stat"}
  <2>1. q = [pc |-> IF files = <<>> THEN "idle" ELSE "stat", force |-> force, files |-> files,
             nodes |-> old.nodes, key |-> old.key, new |-> old.new, work |-> old.work]
      BY Zenon, <1>1, <1>4 DEF LocalsOk
  <2> QED
      BY Zenon, <1>1, <1>3, <2>1 DEF LocalsOk
<1> QED
    BY Zenon, <1>2, <1>4

-----------------------------------------------------------------------------
(* No edit is missed.                                                      *)

\* A thread's step changes its own locals.
Moved(l, me) == loader' = [loader EXCEPT ![l] = me] /\ LocalsOk(me)

LEMMA LocalsKept ==
    ASSUME ConfTypes, NEW l \in Loaders, NEW me, Moved(l, me)
    PROVE  /\ loader' = [k \in Loaders |-> loader'[k]]
           /\ \A k \in Loaders : LocalsOk(loader'[k])
           /\ loader'[l] = me /\ \A k \in Loaders \ {l} : loader'[k] = loader[k]
<1>1. loader'[l] = me /\ \A k \in Loaders \ {l} : loader'[k] = loader[k]
    BY Zenon DEF ConfTypes, Moved
<1>2. loader' = [k \in Loaders |-> loader'[k]]
    BY Zenon DEF ConfTypes, Moved
<1> QED
    BY <1>1, <1>2, Zenon DEF ConfTypes, Moved

\* A file that somebody is about to read is still to be read, unless it was read now.
LEMMA ReadingKept ==
    ASSUME ConfTypes, NEW l \in Loaders, NEW me, Moved(l, me), NEW f, Reading(f),
           ~(At(l, "open") /\ File(l) = f)
    PROVE  Reading(f)'
<1>1. PICK k \in Loaders : loader[k].pc = "open" /\ Head(loader[k].files) = f
    BY Zenon DEF Reading, At, File
<1>2. k # l
    BY Zenon, <1>1 DEF At, File
<1>3. loader'[k] = loader[k]
    BY Zenon, <1>2, LocalsKept
<1> QED
    BY Zenon, <1>1, <1>3 DEF Reading, At, File

\* A step that leaves the files and the records alone, and reads none.
LEMMA QuietFile ==
    ASSUME ConfTypes, NEW l \in Loaders, NEW me, Moved(l, me), ~At(l, "open"),
           UNCHANGED <<conf, clock, s_file2modifytime, loaded>>, NEW f \in ConfFiles, FileInv(f)
    PROVE  FileInv(f)'
<1>1. Reading(f) => Reading(f)'
    BY Zenon, ReadingKept
<1>2. Mtime(f)' = Mtime(f) /\ Version(f)' = Version(f)
    BY Zenon DEF Mtime, Version
<1> QED
    BY Zenon, <1>1, <1>2 DEF FileInv

LEMMA EditTimes ==
    ASSUME NEW e \in Seq(Nat) \ {<<>>}, TimesUp(e), NEW t \in Nat, e[Len(e)] <= t
    PROVE  /\ Append(e, t) \in Seq(Nat) \ {<<>>} /\ TimesUp(Append(e, t))
           /\ Len(Append(e, t)) = Len(e) + 1 /\ Append(e, t)[Len(e) + 1] = t
           /\ \A i \in 1..Len(e) : Append(e, t)[i] = e[i]
           /\ 1 <= t
<1> DEFINE n == Len(e)
           a == Append(e, t)
<1>1. n \in Nat /\ n >= 1 /\ DOMAIN e = 1..n /\ n \in 1..n
  <2>1. n \in Nat /\ n # 0 /\ DOMAIN e = 1..n
      BY Zenon, EmptySeq, LenProperties
  <2> QED
      BY <2>1
<1>2. /\ a \in Seq(Nat) /\ Len(a) = n + 1 /\ a[n + 1] = t
      /\ \A i \in 1..n : a[i] = e[i]
    BY <1>1, AppendProperties
<1>3. a # <<>>
    BY AppendProperties
<1>4. DOMAIN a = 1..(n + 1)
    BY Zenon, <1>2, LenProperties
<1>5. \A i \in 1..n : e[i] \in Nat /\ 1 <= e[i] /\ e[i] <= t
  <2> SUFFICES ASSUME NEW i \in 1..n PROVE e[i] \in Nat /\ 1 <= e[i] /\ e[i] <= t
      BY Zenon
  <2>1. e[i] \in Nat /\ e[n] \in Nat
      BY <1>1
  <2>2. 1 <= e[i] /\ e[i] <= e[n]
      BY <1>1 DEF TimesUp
  <2> QED
      BY <2>1, <2>2
<1>6. 1 <= t
    BY <1>1, <1>5
<1>7. TimesUp(a)
  <2> SUFFICES ASSUME NEW i \in 1..(n + 1), NEW j \in 1..(n + 1)
               PROVE  1 <= a[i] /\ (i <= j => a[i] <= a[j])
      BY Zenon, <1>4 DEF TimesUp
  <2>1. CASE i \in 1..n /\ j \in 1..n
      BY Zenon, <1>1, <1>2, <2>1 DEF TimesUp
  <2>2. CASE i \in 1..n /\ j = n + 1
      BY Zenon, <1>2, <1>5, <2>2
  <2>3. CASE i = n + 1
    <3>1. a[i] = t /\ (i <= j => j = n + 1)
        BY <1>1, <1>2, <2>3
    <3> QED
        BY <1>2, <1>6, <3>1
  <2> QED
      BY <1>1, <2>1, <2>2, <2>3
<1> QED
    BY Zenon, <1>2, <1>3, <1>6, <1>7

LEMMA EditKeeps ==
    ASSUME TimesInv, NEW g \in ConfFiles, Edit(g)
    PROVE  conf' \in [ConfFiles -> [doc : AnyDoc, edits : Seq(Nat) \ {<<>>}]] /\ \A f \in ConfFiles : FileInv(f)'
<1> DEFINE e == conf[g].edits
<1>1. PICK d \in Docs : conf' = [conf EXCEPT ![g] = [doc |-> d, edits |-> Append(e, clock)]]
    BY Zenon DEF Edit
<1>2. /\ conf \in [ConfFiles -> [doc : AnyDoc, edits : Seq(Nat) \ {<<>>}]] /\ clock \in Nat
      /\ e \in Seq(Nat) \ {<<>>} /\ s_file2modifytime[g] \in Nat /\ loaded[g] \in Nat
    BY Zenon DEF TimesInv, ConfTypes
<1>3. TimesUp(e) /\ e[Len(e)] <= clock /\ s_file2modifytime[g] <= e[Len(e)] /\ loaded[g] <= Len(e)
    BY Zenon DEF TimesInv, FileInv, Mtime, Version
<1>4. /\ Append(e, clock) \in Seq(Nat) \ {<<>>} /\ TimesUp(Append(e, clock))
      /\ Len(Append(e, clock)) = Len(e) + 1 /\ Append(e, clock)[Len(e) + 1] = clock
      /\ \A i \in 1..Len(e) : Append(e, clock)[i] = e[i]
    BY Zenon, <1>2, <1>3, EditTimes
<1>5. d \in AnyDoc
    BY Zenon DEF AnyDoc
<1>6. conf' \in [ConfFiles -> [doc : AnyDoc, edits : Seq(Nat) \ {<<>>}]]
    BY Zenon, <1>1, <1>2, <1>4, <1>5
<1>7. conf'[g].edits = Append(e, clock) /\ \A f \in ConfFiles \ {g} : conf'[f] = conf[f]
    BY Zenon, <1>1, <1>2
<1>8. UNCHANGED <<clock, s_file2modifytime, loaded, loader>>
    BY Zenon DEF Edit
<1>9. \A f : Reading(f)' <=> Reading(f)
    BY Zenon, <1>8 DEF Reading, At, File
<1> HIDE DEF e
<1>10. FileInv(g)'
  <2>1. Version(g)' = Len(e) + 1 /\ Mtime(g)' = clock
      BY Zenon, <1>4, <1>7 DEF Version, Mtime
  <2>2. Len(e) \in Nat /\ e[Len(e)] \in Nat
      BY <1>2, LenProperties, EmptySeq
  <2>3. /\ TimesUp(conf'[g].edits) /\ Mtime(g)' <= clock'
        /\ s_file2modifytime'[g] <= Mtime(g)' /\ loaded'[g] <= Version(g)'
      BY <1>2, <1>3, <1>4, <1>7, <1>8, <2>1, <2>2
  <2>4. loaded[g] > 0 => conf'[g].edits[loaded[g]] = e[loaded[g]]
      BY <1>2, <1>3, <1>4, <1>7, <2>2
  <2>5. \/ s_file2modifytime[g] = 0
        \/ Reading(g)
        \/ loaded[g] > 0 /\ s_file2modifytime[g] <= e[loaded[g]]
      BY Zenon DEF TimesInv, FileInv, e
  <2> QED
      BY Zenon, <1>8, <1>9, <2>3, <2>4, <2>5 DEF FileInv
<1>11. ASSUME NEW f \in ConfFiles \ {g} PROVE FileInv(f)'
  <2>1. FileInv(f) /\ conf'[f] = conf[f]
      BY Zenon, <1>7 DEF TimesInv
  <2>2. Mtime(f)' = Mtime(f) /\ Version(f)' = Version(f)
      BY Zenon, <2>1 DEF Mtime, Version
  <2> QED
      BY Zenon, <1>8, <1>9, <2>1, <2>2 DEF FileInv
<1> QED
    BY Zenon, <1>6, <1>10, <1>11

\* The time of the file goes on record, and the thread is about to read it.
LEMMA StatKeeps ==
    ASSUME TimesInv, NEW l \in Loaders, Stat(l)
    PROVE  ConfTypes' /\ \A f \in ConfFiles : FileInv(f)'
<1>0. PICK g : g = File(l)
    BY Zenon
<1>1. PICK me : /\ Moved(l, me)
                /\ \/ me.pc \in {"idle", "stat"} /\ UNCHANGED s_file2modifytime
                   \/ /\ me.pc = "open" /\ me.files = loader[l].files
                      /\ s_file2modifytime' = [s_file2modifytime EXCEPT ![g] = Mtime(g)]
    BY Zenon, <1>0, StattedOk DEF TimesInv, Moved
<1>2. ConfTypes /\ loader[l].pc = "stat" /\ LocalsOk(loader[l])
    BY Zenon DEF TimesInv, ConfTypes, Stat, At
<1>3. /\ loader' = [k \in Loaders |-> loader'[k]] /\ \A k \in Loaders : LocalsOk(loader'[k])
      /\ loader'[l] = me /\ \A k \in Loaders \ {l} : loader'[k] = loader[k]
    BY Zenon, <1>1, <1>2, LocalsKept
<1>4. UNCHANGED <<conf, clock, loaded, m_val>>
    BY Zenon DEF Stat
<1>5. CASE me.pc \in {"idle", "stat"} /\ UNCHANGED s_file2modifytime
  <2>1. ConfTypes'
      BY Zenon, <1>2, <1>3, <1>4, <1>5 DEF ConfTypes
  <2>2. ASSUME NEW f \in ConfFiles PROVE FileInv(f)'
    <3>1. FileInv(f) /\ ~At(l, "open")
        BY Zenon, <1>2 DEF TimesInv, At
    <3> QED
        BY Zenon, <1>1, <1>2, <1>4, <1>5, <3>1, QuietFile
  <2> QED
      BY Zenon, <2>1, <2>2
<1>6. CASE /\ me.pc = "open" /\ me.files = loader[l].files
           /\ s_file2modifytime' = [s_file2modifytime EXCEPT ![g] = Mtime(g)]
  <2>1. g \in ConfFiles
      BY SMTT(30), <1>0, <1>2 DEF LocalsOk, File
  <2>2. Mtime(g) \in Nat
    <3>1. conf[g].edits \in Seq(Nat) /\ conf[g].edits # <<>>
        BY Zenon, <1>2, <2>1 DEF ConfTypes
    <3>2. Len(conf[g].edits) \in Nat /\ Len(conf[g].edits) # 0
        BY Zenon, <3>1, EmptySeq, LenProperties
    <3> QED
        BY <3>1, <3>2 DEF Mtime, Version
  <2>3. ConfTypes'
      BY ZenonT(60), <1>2, <1>3, <1>4, <1>6, <2>2 DEF ConfTypes
  <2>4. Reading(g)'
      BY Zenon, <1>0, <1>3, <1>6 DEF Reading, At, File
  <2>5. \A f : Mtime(f)' = Mtime(f) /\ Version(f)' = Version(f)
      BY Zenon, <1>4 DEF Mtime, Version
  <2>6. FileInv(g)'
    <3>1. FileInv(g) /\ s_file2modifytime'[g] = Mtime(g)
        BY Zenon, <1>2, <1>6, <2>1 DEF TimesInv, ConfTypes
    <3> QED
        BY SMTT(30), <1>4, <2>2, <2>4, <2>5, <3>1 DEF FileInv
  <2>7. ASSUME NEW f \in ConfFiles \ {g} PROVE FileInv(f)'
    <3>1. FileInv(f) /\ s_file2modifytime'[f] = s_file2modifytime[f]
        BY Zenon, <1>2, <1>6 DEF TimesInv, ConfTypes
    <3>2. Reading(f) => Reading(f)'
        BY <1>1, <1>2, ReadingKept DEF At
    <3> QED
        BY Zenon, <1>4, <2>5, <3>1, <3>2 DEF FileInv
  <2> QED
      BY Zenon, <2>3, <2>6, <2>7
<1> QED
    BY Zenon, <1>1, <1>5, <1>6

\* The file is read: what was read is its last version.
LEMMA LoadFileKeeps ==
    ASSUME TimesInv, NEW l \in Loaders, LoadFile(l)
    PROVE  ConfTypes' /\ \A f \in ConfFiles : FileInv(f)'
<1>0. PICK g : g = File(l)
    BY Zenon
<1>1. PICK me : Moved(l, me)
    BY Zenon, LoadedOk DEF TimesInv, Moved
<1>2. ConfTypes /\ loader[l].pc = "open" /\ LocalsOk(loader[l])
    BY Zenon DEF TimesInv, ConfTypes, LoadFile, At
<1>3. /\ loader' = [k \in Loaders |-> loader'[k]] /\ \A k \in Loaders : LocalsOk(loader'[k])
    BY Zenon, <1>1, <1>2, LocalsKept
<1>4. /\ UNCHANGED <<conf, clock, s_file2modifytime, m_val>>
      /\ loaded' = [loaded EXCEPT ![g] = Version(g)]
    BY Zenon, <1>0 DEF LoadFile
<1>5. g \in ConfFiles
    BY SMTT(30), <1>0, <1>2 DEF LocalsOk, File
<1>6. Version(g) \in Nat /\ Version(g) > 0
  <2>1. conf[g].edits \in Seq(Nat) /\ conf[g].edits # <<>>
      BY Zenon, <1>2, <1>5 DEF ConfTypes
  <2>2. Len(conf[g].edits) \in Nat /\ Len(conf[g].edits) # 0
      BY Zenon, <2>1, EmptySeq, LenProperties
  <2> QED
      BY <2>2 DEF Version
<1>7. ConfTypes'
    BY Zenon, <1>2, <1>3, <1>4, <1>6 DEF ConfTypes
<1>8. \A f : Mtime(f)' = Mtime(f) /\ Version(f)' = Version(f)
    BY Zenon, <1>4 DEF Mtime, Version
<1>9. FileInv(g)'
  <2>1. FileInv(g) /\ loaded'[g] = Version(g)
      BY Zenon, <1>2, <1>4, <1>5 DEF TimesInv, ConfTypes
  <2>2. s_file2modifytime[g] <= conf[g].edits[Version(g)]
      BY Zenon, <2>1 DEF FileInv, Mtime
  <2> QED
      BY SMTT(30), <1>4, <1>6, <1>8, <2>1, <2>2 DEF FileInv
<1>10. ASSUME NEW f \in ConfFiles \ {g} PROVE FileInv(f)'
  <2>1. FileInv(f) /\ loaded'[f] = loaded[f]
      BY Zenon, <1>2, <1>4 DEF TimesInv, ConfTypes
  <2>2. Reading(f) => Reading(f)'
      BY Zenon, <1>0, <1>1, <1>2, <1>10, ReadingKept
  <2> QED
      BY Zenon, <1>4, <1>8, <2>1, <2>2 DEF FileInv
<1> QED
    BY Zenon, <1>7, <1>9, <1>10

\* Every other step of a thread.
LEMMA ThreadKeeps ==
    ASSUME TimesInv, NEW l \in Loaders, ~At(l, "open"), NEW me, Moved(l, me),
           UNCHANGED <<conf, clock, s_file2modifytime, loaded>>,
           m_val' = [key \in DOMAIN Types |-> m_val'[key]], Defines(m_val'[LOGS])
    PROVE  TimesInv'
<1>1. ConfTypes
    BY Zenon DEF TimesInv
<1>2. ConfTypes'
    BY Zenon, <1>1, LocalsKept DEF ConfTypes
<1>3. ASSUME NEW f \in ConfFiles PROVE FileInv(f)'
    BY Zenon, <1>1, QuietFile DEF TimesInv
<1> QED
    BY Zenon, <1>2, <1>3 DEF TimesInv

LEMMA TimesInvInit == ConfInit => TimesInv
<1> SUFFICES ASSUME ConfInit PROVE TimesInv
    BY Zenon
<1>1. LocalsOk(Rest)
    BY DEF LocalsOk, Rest
<1>2. ConfTypes
  <2>1. \A f \in ConfFiles : FirstDocs[f] \in AnyDoc
      BY Zenon DEF AnyDoc
  <2>2. <<1>> \in Seq(Nat) \ {<<>>}
      OBVIOUS
  <2>3. conf \in [ConfFiles -> [doc : AnyDoc, edits : Seq(Nat) \ {<<>>}]]
      BY Zenon, <2>1, <2>2 DEF ConfInit
  <2>4. \A l \in Loaders : LocalsOk(loader[l])
      BY Zenon, <1>1 DEF ConfInit
  <2>5. m_val = [key \in DOMAIN Types |-> m_val[key]]
      BY Zenon, ConfAssumption DEF ConfInit
  <2>6. Defines(m_val[LOGS])
      BY ZenonT(60), ConfAssumption, FS_EmptySet DEF ConfInit, Defines
  <2> QED
      BY Zenon, <2>3, <2>4, <2>5, <2>6 DEF ConfInit, ConfTypes
<1>3. ASSUME NEW f \in ConfFiles PROVE FileInv(f)
  <2>1. conf[f].edits = <<1>>
      BY Zenon DEF ConfInit
  <2>2. TimesUp(<<1>>)
      BY DEF TimesUp
  <2>3. Version(f) = 1 /\ Mtime(f) = 1
      BY <2>1 DEF Version, Mtime
  <2> QED
      BY <2>1, <2>2, <2>3 DEF FileInv, ConfInit
<1> QED
    BY Zenon, <1>2, <1>3 DEF TimesInv

\* Every step of the system.
LEMMA TimesInvNext == TimesInv /\ [ConfNext]_confVars => TimesInv'
<1> SUFFICES ASSUME TimesInv, [ConfNext]_confVars PROVE TimesInv'
    BY Zenon
<1>0. ConfTypes /\ m_val = [key \in DOMAIN Types |-> m_val[key]] /\ Defines(m_val[LOGS])
    BY Zenon DEF TimesInv, ConfTypes
<1>1. ASSUME NEW l \in Loaders, LoadFromConfDir(l) PROVE TimesInv'
  <2>1. PICK me : Moved(l, me)
      BY Zenon, <1>0, <1>1, BegunOk DEF Moved
  <2>2. ~At(l, "open") /\ UNCHANGED <<conf, clock, s_file2modifytime, loaded, m_val>>
      BY Zenon, <1>1 DEF LoadFromConfDir, At
  <2> QED
      BY Zenon, <1>0, <2>1, <2>2, ThreadKeeps
<1>2. ASSUME NEW l \in Loaders, Stat(l) PROVE TimesInv'
    BY Zenon, <1>2, StatKeeps DEF TimesInv
<1>3. ASSUME NEW l \in Loaders, LoadFile(l) PROVE TimesInv'
    BY <1>3, LoadFileKeeps DEF TimesInv
<1>4. ASSUME NEW l \in Loaders, Node(l) PROVE TimesInv'
  <2>1. PICK me : Moved(l, me)
      BY Zenon, <1>0, <1>4, NodedOk DEF Moved
  <2>2. ~At(l, "open") /\ UNCHANGED <<conf, clock, s_file2modifytime, loaded, m_val>>
      BY <1>4 DEF Node, At
  <2> QED
      BY Zenon, <1>0, <2>1, <2>2, ThreadKeeps
<1>5. ASSUME NEW l \in Loaders, SetValue(l) PROVE TimesInv'
  <2>1. PICK me : Moved(l, me)
      BY Zenon, <1>0, <1>5, SetOk DEF Moved
  <2>2. ~At(l, "open") /\ UNCHANGED <<conf, clock, s_file2modifytime, loaded, m_val>>
      BY Zenon, <1>5 DEF SetValue, At
  <2> QED
      BY Zenon, <1>0, <2>1, <2>2, ThreadKeeps
<1>6. ASSUME NEW l \in Loaders, Notify(l) PROVE TimesInv'
  <2>1. PICK me : Moved(l, me)
      BY Zenon, <1>0, <1>6, NotifiedOk DEF Moved
  <2>2. ~At(l, "open") /\ UNCHANGED <<conf, clock, s_file2modifytime, loaded, m_val>>
      BY Zenon, <1>6 DEF Notify, At
  <2> QED
      BY Zenon, <1>0, <2>1, <2>2, ThreadKeeps
<1>7. ASSUME NEW l \in Loaders, Store(l) PROVE TimesInv'
  <2>1. PICK me : Moved(l, me)
      BY Zenon, <1>0, <1>7, StoredOk DEF Moved
  <2>2. ~At(l, "open") /\ UNCHANGED <<conf, clock, s_file2modifytime, loaded>>
      BY Zenon, <1>7 DEF Store, At
  <2>3. m_val' = [key \in DOMAIN Types |-> m_val'[key]] /\ Defines(m_val'[LOGS])
    <3>1. LocalsOk(loader[l]) /\ loader[l].pc = "write"
        BY Zenon, <1>0, <1>7 DEF ConfTypes, Store, At
    <3>2. m_val' = [m_val EXCEPT ![loader[l].key] = loader[l].new]
        BY Zenon, <1>7 DEF Store
    <3>3. loader[l].key \in DOMAIN Types /\ (loader[l].key = LOGS => Defines(loader[l].new))
        BY Zenon, <3>1 DEF LocalsOk
    <3>4. m_val' = [key \in DOMAIN Types |-> m_val'[key]]
        BY Zenon, <1>0, <3>2, <3>3
    <3>5. m_val'[LOGS] = IF loader[l].key = LOGS THEN loader[l].new ELSE m_val[LOGS]
        BY Zenon, <1>0, <3>2, <3>3, ConfAssumption
    <3> QED
        BY <1>0, <3>3, <3>4, <3>5, Zenon
  <2> QED
      BY Zenon, <1>0, <2>1, <2>2, <2>3, ThreadKeeps
<1>8. ASSUME NEW f \in ConfFiles, Edit(f) PROVE TimesInv'
  <2>1. UNCHANGED <<clock, s_file2modifytime, loaded, loader, m_val>>
      BY Zenon, <1>8 DEF Edit
  <2>2. /\ conf' \in [ConfFiles -> [doc : AnyDoc, edits : Seq(Nat) \ {<<>>}]]
        /\ \A g \in ConfFiles : FileInv(g)'
      BY Zenon, <1>8, EditKeeps
  <2> QED
      BY Zenon, <1>0, <2>1, <2>2 DEF TimesInv, ConfTypes
<1>9. CASE Second
  <2>1. UNCHANGED <<conf, s_file2modifytime, loaded, loader, m_val>> /\ clock' = clock + 1
      BY Zenon, <1>9 DEF Second
  <2>2. ConfTypes'
    <3>1. clock \in Nat
        BY Zenon, <1>0 DEF ConfTypes
    <3>2. clock' \in Nat
        BY <2>1, <3>1
    <3> QED
        BY ZenonT(60), <1>0, <2>1, <3>2 DEF ConfTypes
  <2>3. ASSUME NEW f \in ConfFiles PROVE FileInv(f)'
    <3>1. FileInv(f) /\ (Reading(f)' <=> Reading(f)) /\ Mtime(f)' = Mtime(f) /\ Version(f)' = Version(f)
        BY Zenon, <2>1 DEF TimesInv, Reading, At, File, Mtime, Version
    <3>2. Mtime(f) \in Nat
      <4>1. conf[f].edits \in Seq(Nat) /\ conf[f].edits # <<>>
          BY Zenon, <1>0 DEF ConfTypes
      <4>2. Len(conf[f].edits) \in Nat /\ Len(conf[f].edits) # 0
          BY Zenon, <4>1, EmptySeq, LenProperties
      <4> QED
          BY <4>1, <4>2 DEF Mtime, Version
    <3>3. clock \in Nat
        BY Zenon, <1>0 DEF ConfTypes
    <3>4. Mtime(f)' <= clock'
        BY SMTT(30), <2>1, <3>1, <3>2, <3>3 DEF FileInv
    <3> QED
        BY Zenon, <2>1, <3>1, <3>4 DEF FileInv
  <2> QED
      BY Zenon, <2>2, <2>3 DEF TimesInv
<1>10. ASSUME NEW name \in ProgramNames, GetLogger(name) PROVE TimesInv'
  <2>1. UNCHANGED <<conf, clock, s_file2modifytime, loaded, loader, m_val>>
      BY Zenon, <1>10 DEF GetLogger
  <2> QED
      BY Zenon, <2>1 DEF TimesInv, ConfTypes, FileInv, Reading, At, File, Mtime, Version
<1>11. CASE UNCHANGED confVars
  <2>1. UNCHANGED <<conf, clock, s_file2modifytime, loaded, loader, m_val>>
      BY Zenon, <1>11 DEF confVars
  <2> QED
      BY Zenon, <2>1 DEF TimesInv, ConfTypes, FileInv, Reading, At, File, Mtime, Version
<1> QED
    BY <1>1, <1>2, <1>3, <1>4, <1>5, <1>6, <1>7, <1>8, <1>9, <1>10, <1>11, Zenon DEF ConfNext, Load, Settled

LEMMA TimesInvariance == ConfSpec => []TimesInv
BY TimesInvInit, TimesInvNext, PTL DEF ConfSpec

\* No edit is missed (NoEditMissed): for any number of threads that load any files, however
\* they are edited meanwhile, because LoadFromConfDir takes the time before the contents.
THEOREM NoEditIsMissed == ConfSpec => []NoEditMissed
<1>1. TimesInv => NoEditMissed
  <2> SUFFICES ASSUME TimesInv, NEW f \in ConfFiles, s_file2modifytime[f] = Mtime(f), ~Reading(f)
               PROVE  loaded[f] > 0 /\ conf[f].edits[loaded[f]] = Mtime(f)
      BY Zenon DEF NoEditMissed, Reading
  <2>1. conf[f].edits \in Seq(Nat) /\ conf[f].edits # <<>> /\ loaded[f] \in Nat /\ FileInv(f)
      BY Zenon DEF TimesInv, ConfTypes
  <2>2. Version(f) \in Nat /\ Version(f) # 0 /\ DOMAIN conf[f].edits = 1..Version(f)
      BY Zenon, <2>1, EmptySeq, LenProperties DEF Version
  <2>3. Mtime(f) \in Nat /\ 1 <= Mtime(f)
      BY SMTT(30), <2>1, <2>2 DEF Mtime, FileInv, TimesUp
  <2>4. loaded[f] > 0 /\ s_file2modifytime[f] <= conf[f].edits[loaded[f]]
      BY SMTT(30), <2>1, <2>3 DEF FileInv
  <2>5. loaded[f] \in 1..Version(f) /\ Version(f) \in 1..Version(f) /\ loaded[f] <= Version(f)
      BY SMTT(30), <2>1, <2>2, <2>4 DEF FileInv
  <2>6. conf[f].edits[loaded[f]] <= Mtime(f) /\ conf[f].edits[loaded[f]] \in Nat
      BY SMTT(30), <2>1, <2>2, <2>5 DEF FileInv, TimesUp, Mtime
  <2> QED
      BY SMTT(30), <2>3, <2>4, <2>6
<1> QED
    BY <1>1, TimesInvariance, PTL

-----------------------------------------------------------------------------
(* The loggers follow the configuration, as long as one thread loads it.   *)

OneLoader == \A k, l \in Loaders : k = l

\* A step of the thread that is not one of applying a value.
LEMMA FollowIdle ==
    ASSUME OneLoader, ConfTypes, FollowInv, NEW l \in Loaders, ~Applying(l), NEW me, Moved(l, me),
           me.pc \notin {"notify", "write"}, UNCHANGED <<m_val, m_loggers>>
    PROVE  FollowInv'
<1>1. loader'[l] = me
    BY Zenon, LocalsKept
<1>2. \A k \in Loaders : k = l
    BY Zenon DEF OneLoader
<1>3. \A k \in Loaders : ~Applying(k)'
    BY Zenon, <1>1, <1>2 DEF Applying
<1>4. Follow(m_val[LOGS], {}, m_loggers)
    BY Zenon, <1>2 DEF FollowInv
<1> QED
    BY Zenon, <1>3, <1>4 DEF FollowInv

LEMMA FollowSet ==
    ASSUME OneLoader, ConfTypes, FollowInv, NEW l \in Loaders, SetValue(l)
    PROVE  FollowInv'
<1>1. PICK me : /\ Moved(l, me)
                /\ \/ me.pc \in {"idle", "stat", "node"}
                   \/ /\ me.pc \in {"notify", "write"}
                      /\ me.key = loader[l].key /\ me.new = loader[l].new
                      /\ me.key = LOGS => me.work = Changes(m_val[LOGS], me.new)
    BY Zenon, SetOk DEF Moved
<1>2. loader[l].pc = "set" /\ LocalsOk(loader[l]) /\ Defines(m_val[LOGS])
      /\ UNCHANGED <<m_val, m_loggers>> /\ ~Applying(l)
    BY Zenon DEF SetValue, At, ConfTypes, Applying
<1>3. \A k \in Loaders : k = l
    BY Zenon DEF OneLoader
<1>4. Follow(m_val[LOGS], {}, m_loggers)
    BY Zenon, <1>2, <1>3 DEF FollowInv
<1>5. loader'[l] = me
    BY Zenon, <1>1, LocalsKept
<1>6. CASE me.pc \in {"notify", "write"} /\ me.key = LOGS
  <2>1. Defines(me.new) /\ me.work = Changes(m_val[LOGS], me.new)
      BY Zenon, <1>1, <1>2, <1>6 DEF LocalsOk
  <2>2. Follow(me.new, Of(me.work), m_loggers)
      BY Zenon, <1>2, <1>4, <2>1, FollowBegin
  <2>3. Applying(l)'
      BY Zenon, <1>5, <1>6 DEF Applying
  <2> QED
      BY Zenon, <1>2, <1>3, <1>5, <2>2, <2>3 DEF FollowInv
<1>7. CASE ~(me.pc \in {"notify", "write"} /\ me.key = LOGS)
  <2>1. \A k \in Loaders : ~Applying(k)'
      BY Zenon, <1>3, <1>5, <1>7 DEF Applying
  <2> QED
      BY Zenon, <1>2, <1>4, <2>1 DEF FollowInv
<1> QED
    BY Zenon, <1>6, <1>7

LEMMA FollowNotify ==
    ASSUME OneLoader, ConfTypes, FollowInv, NEW l \in Loaders, Notify(l)
    PROVE  FollowInv'
<1>1. PICK me : /\ Moved(l, me) /\ me.pc \in {"notify", "write"} /\ me.key = LOGS
                /\ me.new = loader[l].new /\ me.work = Tail(loader[l].work)
    BY Zenon, NotifiedOk DEF Moved
<1>2. PICK work, c : work = loader[l].work /\ c = Head(work)
    BY Zenon
<1>3. /\ LocalsOk(loader[l]) /\ loader[l].pc = "notify" /\ m_val' = m_val
      /\ m_loggers' = Put(m_loggers, c.name, [m_level |-> c.level, m_appenders |-> c.appenders])
    BY Zenon, <1>2 DEF Notify, At, ConfTypes
<1>4. /\ loader[l].key = LOGS /\ Defines(me.new) /\ work \in Seq(Of(work)) /\ work # <<>>
    BY ZenonT(60), <1>1, <1>2, <1>3 DEF LocalsOk
<1>5. Follow(me.new, Of(work), m_loggers)
    BY ZenonT(60), <1>1, <1>2, <1>3, <1>4 DEF FollowInv, Applying
<1>6. c \in Of(work) /\ Of(Tail(work)) \subseteq Of(work) /\ Of(work) \subseteq Of(Tail(work)) \cup {c}
    BY Zenon, <1>2, <1>4, TailFacts
<1>7. Follow(me.new, Of(me.work), m_loggers')
    BY ZenonT(60), <1>1, <1>2, <1>3, <1>4, <1>5, <1>6, FollowChange
<1>8. loader'[l] = me /\ \A k \in Loaders : k = l
    BY Zenon, <1>1, LocalsKept DEF OneLoader
<1>9. Applying(l)'
    BY Zenon, <1>1, <1>8 DEF Applying
<1> QED
    BY Zenon, <1>7, <1>8, <1>9 DEF FollowInv

LEMMA FollowStore ==
    ASSUME OneLoader, ConfTypes, FollowInv, NEW l \in Loaders, Store(l)
    PROVE  FollowInv'
<1>1. PICK me : Moved(l, me) /\ me.pc \in {"idle", "stat", "node"}
    BY Zenon, StoredOk DEF Moved
<1>2. /\ LocalsOk(loader[l]) /\ loader[l].pc = "write" /\ m_loggers' = m_loggers
      /\ m_val' = [m_val EXCEPT ![loader[l].key] = loader[l].new]
      /\ m_val = [key \in DOMAIN Types |-> m_val[key]]
    BY Zenon DEF Store, At, ConfTypes
<1>3. \A k \in Loaders : k = l
    BY Zenon DEF OneLoader
<1>4. loader'[l] = me
    BY Zenon, <1>1, LocalsKept
<1>5. \A k \in Loaders : ~Applying(k)'
    BY Zenon, <1>1, <1>3, <1>4 DEF Applying
<1>6. m_val'[LOGS] = IF loader[l].key = LOGS THEN loader[l].new ELSE m_val[LOGS]
    BY Zenon, <1>2, ConfAssumption
<1>7. Of(<<>>) = {}
    BY DEF Of
<1>8. Follow(m_val'[LOGS], {}, m_loggers)
  <2>1. CASE loader[l].key = LOGS
    <3>1. loader[l].work = <<>>
        BY Zenon, <1>2 DEF LocalsOk
    <3>2. Follow(loader[l].new, Of(loader[l].work), m_loggers)
        BY Zenon, <1>2, <2>1 DEF FollowInv, Applying
    <3> QED
        BY <1>6, <1>7, <2>1, <3>1, <3>2, Zenon
  <2>2. CASE loader[l].key # LOGS
      BY Zenon, <1>3, <1>6, <2>2 DEF FollowInv, Applying
  <2> QED
      BY Zenon, <2>1, <2>2
<1> QED
    BY Zenon, <1>2, <1>5, <1>8 DEF FollowInv

LEMMA FollowInvInit == ConfInit => FollowInv
<1> SUFFICES ASSUME ConfInit PROVE FollowInv
    BY Zenon
<1>1. m_val[LOGS] = {} /\ DOMAIN m_loggers = {Root_} /\ m_loggers[Root_] = RootLogger
    BY Zenon, ConfAssumption DEF ConfInit
<1>2. Follow(m_val[LOGS], {}, m_loggers)
    BY Zenon, <1>1 DEF Follow, Plain
<1>3. \A l \in Loaders : ~Applying(l)
    BY Zenon DEF ConfInit, Applying, Rest
<1> QED
    BY Zenon, <1>2, <1>3 DEF FollowInv

LEMMA FollowInvNext ==
    ASSUME OneLoader
    PROVE  TimesInv /\ FollowInv /\ [ConfNext]_confVars => FollowInv'
<1> SUFFICES ASSUME ConfTypes, FollowInv, [ConfNext]_confVars PROVE FollowInv'
    BY Zenon DEF TimesInv
<1>1. ASSUME NEW l \in Loaders, LoadFromConfDir(l) PROVE FollowInv'
  <2>1. PICK me : Moved(l, me) /\ me.pc \in {"idle", "stat"}
      BY Zenon, <1>1, BegunOk DEF Moved
  <2>2. ~Applying(l) /\ UNCHANGED <<m_val, m_loggers>>
      BY Zenon, <1>1 DEF LoadFromConfDir, At, Applying
  <2> QED
      BY Zenon, <2>1, <2>2, FollowIdle
<1>2. ASSUME NEW l \in Loaders, Stat(l) PROVE FollowInv'
  <2>1. PICK me : Moved(l, me) /\ me.pc \in {"idle", "stat", "open"}
      BY Zenon, <1>2, StattedOk DEF Moved
  <2>2. ~Applying(l) /\ UNCHANGED <<m_val, m_loggers>>
      BY Zenon, <1>2 DEF Stat, At, Applying
  <2> QED
      BY Zenon, <2>1, <2>2, FollowIdle
<1>3. ASSUME NEW l \in Loaders, LoadFile(l) PROVE FollowInv'
  <2>1. PICK me : Moved(l, me) /\ me.pc \in {"idle", "stat", "node"}
      BY Zenon, <1>3, LoadedOk DEF Moved
  <2>2. ~Applying(l) /\ UNCHANGED <<m_val, m_loggers>>
      BY Zenon, <1>3 DEF LoadFile, At, Applying
  <2> QED
      BY Zenon, <2>1, <2>2, FollowIdle
<1>4. ASSUME NEW l \in Loaders, Node(l) PROVE FollowInv'
  <2>1. PICK me : Moved(l, me) /\ me.pc \in {"idle", "stat", "node", "set"}
      BY Zenon, <1>4, NodedOk DEF Moved
  <2>2. ~Applying(l) /\ UNCHANGED <<m_val, m_loggers>>
      BY Zenon, <1>4 DEF Node, At, Applying
  <2> QED
      BY Zenon, <2>1, <2>2, FollowIdle
<1>5. ASSUME NEW name \in ProgramNames, GetLogger(name) PROVE FollowInv'
  <2>1. /\ name \notin DOMAIN m_loggers /\ m_loggers' = Put(m_loggers, name, NewLogger)
        /\ UNCHANGED <<m_val, loader>>
      BY Zenon, <1>5 DEF GetLogger
  <2>2. \A v, W : Follow(v, W, m_loggers) => Follow(v, W, m_loggers')
      BY Zenon, <2>1, FollowGet
  <2>3. \A l : Applying(l)' <=> Applying(l)
      BY Zenon, <2>1 DEF Applying
  <2> QED
      BY Zenon, <2>1, <2>2, <2>3 DEF FollowInv
<1>6. CASE (\E f \in ConfFiles : Edit(f)) \/ Second \/ UNCHANGED confVars
  <2>1. UNCHANGED <<m_val, m_loggers, loader>>
      BY Zenon, <1>6 DEF Edit, Second, confVars
  <2> QED
      BY Zenon, <2>1 DEF FollowInv, Applying
<1> QED
    BY <1>1, <1>2, <1>3, <1>4, <1>5, <1>6, FollowSet, FollowNotify, FollowStore, Zenon
    DEF ConfNext, Load, Settled

\* The loggers follow the configuration (LoggersFollow): for any documents, edits and
\* loggers of the program, while one thread at a time loads, as in main.
THEOREM LoggersAreFollowing ==
    ASSUME OneLoader
    PROVE  ConfSpec => []LoggersFollow
<1>1. FollowInv => LoggersFollow
    BY Zenon DEF FollowInv, Applying, Follow, Plain, LoggersFollow
<1>2. TimesInv /\ FollowInv /\ [ConfNext]_confVars => FollowInv'
    BY Zenon, FollowInvNext
<1> QED
    BY <1>1, <1>2, FollowInvInit, TimesInvariance, PTL DEF ConfSpec

-----------------------------------------------------------------------------
(* FileLogAppender.                                                        *)

Name == STRING \cup {DayName(d) : d \in Int}
Stages == {"idle", "path", "day", "create", "open", "time", "reopen", "stamp", "write", "abort"}

LogTypes ==
    /\ m_filename \in [parts : Seq(Name) \ {<<>>}, slash : BOOLEAN]
    /\ m_filestream \in [path : Seq(Name), good : BOOLEAN]
    /\ m_lastTime \in Nat /\ m_reopenError \in BOOLEAN
    /\ fs = [dirs |-> fs.dirs, files |-> fs.files]
    /\ time \in Nat /\ time >= DayLength
    /\ at \in [Writers -> Stages]
    /\ event \in [Writers -> Nat]
    /\ \A w \in Writers : at[w] # "idle" => event[w] >= DayLength
    /\ broken \in BOOLEAN /\ raced \in BOOLEAN /\ mistaken \in BOOLEAN

\* No file of a day has been made yet.
Fresh ==
    /\ m_filename \in LogPaths
    /\ m_lastTime = 0
    /\ \A w \in Writers : at[w] \in {"idle", "path", "day", "create"}

\* One thread is between the two halves of CreateNewFile, and no other is in Log.  The
\* second time the name is one below a regular file.
Naming ==
    /\ \E w \in Writers : at[w] = "open" /\ \A v \in Writers \ {w} : at[v] = "idle"
    /\ m_filestream.path = <<>>
    /\ m_lastTime = 0 \/ Parent(m_filename.parts) \notin fs.dirs

\* The file of the day is open, and can be opened again.
Made ==
    /\ \A w \in Writers : at[w] \notin {"open", "abort"}
    /\ m_filestream.path = m_filename.parts /\ m_filestream.good
    /\ CanOpen(fs, m_filename)
    /\ m_filename.parts \in DOMAIN fs.files
    /\ m_reopenError => m_lastTime = 0 /\ \A w \in Writers : at[w] \notin {"stamp", "write"}

Calm == ~broken /\ ~raced /\ ~mistaken
Regular == lost = {} /\ (Fresh \/ Naming \/ Made \/ Aborted)
LogInv == LogTypes /\ (Calm => Regular)

-----------------------------------------------------------------------------
\* A name put behind a path: the path is its parent.
LEMMA PathFacts ==
    ASSUME NEW s \in Seq(Name), NEW d \in Int
    PROVE  /\ Append(s, DayName(d)) \in Seq(Name) \ {<<>>}
           /\ Parent(Append(s, DayName(d))) = s
           /\ SubSeq(s, 1, Len(s)) = s
<1>1. DayName(d) \in Name
    BY Zenon DEF Name
<1>2. Append(s, DayName(d)) \in Seq(Name) /\ Len(Append(s, DayName(d))) = Len(s) + 1
    BY Zenon, <1>1, AppendProperties
<1>3. SubSeq(s, 1, Len(s)) = s
    OBVIOUS
<1>4. Parent(Append(s, DayName(d))) = s
    BY <1>1, <1>2, <1>3 DEF Parent
<1> QED
    BY <1>2, <1>3, <1>4

LEMMA StreamType ==
    ASSUME NEW path \in Seq(Name), NEW good \in BOOLEAN
    PROVE  [path |-> path, good |-> good] \in [path : Seq(Name), good : BOOLEAN]
BY Zenon

\* The day of a time is a number.
LEMMA DayType ==
    ASSUME NEW t \in Nat
    PROVE  Day(t) \in Int
BY LogAssumption DEF Day

\* Making the directories of a path adds directories only, and no regular file becomes one.
LEMMA MadeSure ==
    ASSUME NEW p \in [parts : Seq(Name) \ {<<>>}, slash : BOOLEAN],
           fs = [dirs |-> fs.dirs, files |-> fs.files]
    PROVE  /\ MakeSurePathExist(p) = [dirs |-> MakeSurePathExist(p).dirs, files |-> fs.files]
           /\ fs.dirs \subseteq MakeSurePathExist(p).dirs
           /\ p.parts \in DOMAIN fs.files /\ p.parts \notin fs.dirs =>
                p.parts \notin MakeSurePathExist(p).dirs
<1> DEFINE n == Len(p.parts)
           more == {SubSeq(p.parts, 1, k) : k \in
             {j \in DOMAIN p.parts : \A i \in 1..j : SubSeq(p.parts, 1, i) \notin DOMAIN fs.files}}
<1>1. MakeSurePathExist(p) = [fs EXCEPT !.dirs = @ \cup more]
    BY Zenon DEF MakeSurePathExist
<1>2. p.parts \in DOMAIN fs.files => p.parts \notin more
  <2>1. SUFFICES ASSUME NEW k \in DOMAIN p.parts,
                        \A i \in 1..k : SubSeq(p.parts, 1, i) \notin DOMAIN fs.files,
                        p.parts = SubSeq(p.parts, 1, k)
                 PROVE  p.parts \notin DOMAIN fs.files
      BY Zenon
  <2>2. k \in 1..k
      OBVIOUS
  <2> QED
      BY Zenon, <2>1, <2>2
<1> HIDE DEF more
<1>3. MakeSurePathExist(p) = [dirs |-> fs.dirs \cup more, files |-> fs.files]
    BY Zenon, <1>1
<1> QED
    BY <1>2, <1>3

-----------------------------------------------------------------------------
\* The constructor.
LEMMA LogInvInit == LogInit => LogInv
<1> SUFFICES ASSUME LogInit PROVE LogInv
    BY Zenon
<1>1. /\ m_filename \in LogPaths
      /\ m_filename \in [parts : Seq(Name) \ {<<>>}, slash : BOOLEAN]
  <2>1. Seq(STRING) \subseteq Seq(Name)
      BY DEF Name
  <2> QED
      BY Zenon, <2>1, LogAssumption DEF LogInit
<1>2. PICK d : /\ d = [dirs |-> d.dirs, files |-> d.files]
               /\ IF CanOpen(d, m_filename)
                  THEN /\ fs = Opened(d, m_filename) /\ m_reopenError = FALSE
                       /\ m_filestream = [path |-> m_filename.parts, good |-> TRUE]
                  ELSE /\ fs = d /\ m_reopenError = TRUE
                       /\ m_filestream = [path |-> <<>>, good |-> FALSE]
    BY Zenon DEF LogInit
<1>3. fs = [dirs |-> fs.dirs, files |-> fs.files]
    BY Zenon, <1>2 DEF Opened
<1>4. m_filestream \in [path : Seq(Name), good : BOOLEAN] /\ m_reopenError \in BOOLEAN
  <2>1. m_filestream = [path |-> m_filename.parts, good |-> TRUE] \/ m_filestream = [path |-> <<>>, good |-> FALSE]
      BY <1>2, Zenon
  <2>2. m_filename.parts \in Seq(Name) /\ <<>> \in Seq(Name)
      BY <1>1
  <2>3. m_reopenError \in BOOLEAN
      BY <1>2, Zenon
  <2>4. m_filestream \in [path : Seq(Name), good : BOOLEAN]
      BY <2>1, <2>2, StreamType, Zenon
  <2> QED
      BY <2>3, <2>4, Zenon
<1>5. LogTypes
  <2>1. m_lastTime \in Nat /\ time \in Nat /\ time >= DayLength
      BY SMTT(30), LogAssumption DEF LogInit
  <2>3. broken \in BOOLEAN /\ raced \in BOOLEAN /\ mistaken \in BOOLEAN
      BY Zenon DEF LogInit
  <2>2. /\ at \in [Writers -> Stages]
        /\ event \in [Writers -> Nat]
        /\ \A w \in Writers : at[w] # "idle" => event[w] >= DayLength
      BY Zenon DEF LogInit, Stages
  <2> QED
      BY <1>1, <1>3, <1>4, <2>1, <2>2, <2>3, Zenon DEF LogTypes
<1>6. Fresh /\ lost = {}
    BY Zenon, <1>1 DEF LogInit, Fresh
<1> QED
    BY Zenon, <1>5, <1>6 DEF LogInv, Regular

-----------------------------------------------------------------------------
\* Every step keeps the types, and an event is never older than the start.
LEMMA LogTypesKept == LogTypes /\ [LogNext]_logVars => LogTypes'
<1> SUFFICES ASSUME LogTypes, [LogNext]_logVars PROVE LogTypes'
    BY Zenon
<1>1. CASE UNCHANGED logVars
    BY Zenon, <1>1 DEF logVars, LogTypes
<1>2. CASE Clock
    BY <1>2, LogAssumption DEF LogTypes, Clock
<1>3. ASSUME NEW w \in Writers, Log(w) PROVE LogTypes'
    BY Zenon, <1>3, LogAssumption DEF LogTypes, Log, Step, Stages
<1>4. ASSUME NEW w \in Writers, Path(w) PROVE LogTypes'
  <2>1. fs' = [dirs |-> fs'.dirs, files |-> fs'.files]
      BY SMTT(30), <1>4, MadeSure DEF LogTypes, Path
  <2> QED
      BY Zenon, <1>4, <2>1 DEF LogTypes, Path, Step, Stages
<1>5. ASSUME NEW w \in Writers, TestDay(w) PROVE LogTypes'
    BY Zenon, <1>5 DEF LogTypes, TestDay, Step, Stages
<1>6. ASSUME NEW w \in Writers, CreateNewFile(w) PROVE LogTypes'
  <2>1. m_filename' \in [parts : Seq(Name) \ {<<>>}, slash : BOOLEAN]
      BY Zenon, <1>6, PathFacts, DayType DEF LogTypes, CreateNewFile, GetFileName
  <2>2. m_filestream' \in [path : Seq(Name), good : BOOLEAN]
    <3>1. <<>> \in Seq(Name) /\ m_filestream.good \in BOOLEAN
        BY DEF LogTypes
    <3>2. m_filestream' = [path |-> <<>>, good |-> m_filestream.good]
        BY Zenon, <1>6 DEF LogTypes, CreateNewFile
    <3> QED
        BY <3>1, <3>2, StreamType, Zenon
  <2>3. raced' \in BOOLEAN
      BY <1>6, Zenon DEF CreateNewFile
  <2> QED
      BY Zenon, <1>6, <2>1, <2>2, <2>3 DEF LogTypes, CreateNewFile, Step, Stages
<1>7. ASSUME NEW w \in Writers, OpenNew(w) PROVE LogTypes'
  <2>1. m_filestream' \in [path : Seq(Name), good : BOOLEAN]
    <3>1. PICK path \in {m_filename.parts, m_filestream.path}, good \in BOOLEAN :
            m_filestream' = [path |-> path, good |-> good]
        BY <1>7, Zenon DEF OpenNew, CanOpen, IsOpen
    <3>2. m_filename.parts \in Seq(Name) /\ m_filestream.path \in Seq(Name)
        BY Zenon DEF LogTypes
    <3>3. path \in Seq(Name)
        BY <3>1, <3>2, Zenon
    <3> QED
        BY <3>1, <3>3, StreamType, Zenon
  <2>2. fs' = [dirs |-> fs'.dirs, files |-> fs'.files]
      BY Zenon, <1>7 DEF LogTypes, OpenNew, Opened
  <2> QED
      BY Zenon, <1>7, <2>1, <2>2 DEF LogTypes, OpenNew, Step, Stages
<1>8. ASSUME NEW w \in Writers, TestTime(w) PROVE LogTypes'
    BY Zenon, <1>8 DEF LogTypes, TestTime, Step, Stages
<1>9. ASSUME NEW w \in Writers, ReOpen(w) PROVE LogTypes'
  <2>1. PICK ok \in BOOLEAN, path \in {m_filename.parts, <<>>, m_filestream.path} :
          /\ m_reopenError' = ~ok
          /\ m_filestream' = [path |-> path, good |-> ok]
          /\ fs' = IF ok THEN Opened(fs, m_filename) ELSE fs
      BY <1>9, Zenon DEF ReOpen, CanOpen
  <2>2. m_filestream' \in [path : Seq(Name), good : BOOLEAN]
    <3>1. m_filename.parts \in Seq(Name) /\ <<>> \in Seq(Name) /\ m_filestream.path \in Seq(Name)
        BY DEF LogTypes
    <3>2. path \in Seq(Name)
        BY <2>1, <3>1, Zenon
    <3> QED
        BY <2>1, <3>2, StreamType, Zenon
  <2>3. fs' = [dirs |-> fs'.dirs, files |-> fs'.files]
      BY Zenon, <2>1 DEF LogTypes, Opened
  <2> QED
      BY Zenon, <1>9, <2>1, <2>2, <2>3 DEF LogTypes, ReOpen, Step, Stages
<1>10. ASSUME NEW w \in Writers, Stamp(w) PROVE LogTypes'
    BY Zenon, <1>10 DEF LogTypes, Stamp, Step, Stages
<1>11. ASSUME NEW w \in Writers, Write(w) PROVE LogTypes'
  <2>1. PICK ok \in BOOLEAN :
          /\ fs' = IF ok THEN [fs EXCEPT !.files[m_filestream.path] = Append(@, event[w])] ELSE fs
          /\ m_filestream' = IF m_reopenError THEN m_filestream ELSE [m_filestream EXCEPT !.good = ok]
          /\ broken' = (broken \/ (~ok /\ IsOpen /\ m_filestream.good /\ ~m_reopenError))
      BY Zenon, <1>11 DEF Write, LogTypes, IsOpen
  <2>2. m_filestream' \in [path : Seq(Name), good : BOOLEAN] /\ broken' \in BOOLEAN
      BY Zenon, <2>1 DEF LogTypes
  <2>3. fs' = [dirs |-> fs'.dirs, files |-> fs'.files]
      BY Zenon, <2>1 DEF LogTypes
  <2> QED
      BY Zenon, <1>11, <2>2, <2>3 DEF LogTypes, Write, Step, Stages
<1> QED
    BY Zenon, <1>1, <1>2, <1>3, <1>4, <1>5, <1>6, <1>7, <1>8, <1>9, <1>10, <1>11 DEF LogNext

-----------------------------------------------------------------------------
\* What a step of LogNext starts from when nothing has happened that ends the promise.
Quiet == LogTypes /\ Calm /\ Regular /\ ~Aborted

\* Clock, and the first line of Log.
LEMMA LogKeeps ==
    ASSUME Quiet, NEW w \in Writers, Log(w), Calm'
    PROVE  Regular'
<1>1. ~Naming
    BY Zenon DEF Quiet, Log, Calm, Naming
<1>2. CASE Fresh
    BY Zenon, <1>2 DEF Quiet, LogTypes, Regular, Fresh, Log, Step
<1>3. CASE Made
    BY Zenon, <1>3 DEF Quiet, LogTypes, Regular, Made, Log, Step, CanOpen
<1> QED
    BY Zenon, <1>1, <1>2, <1>3 DEF Quiet, Regular

\* Log makes sure that the path exists.
LEMMA PathKeeps ==
    ASSUME Quiet, NEW w \in Writers, Path(w)
    PROVE  Regular'
<1>1. ~Naming
    BY ZenonT(60) DEF Quiet, LogTypes, Path, Step, Naming
<1>2. CASE Fresh
    BY Zenon, <1>2 DEF Quiet, LogTypes, Regular, Fresh, Path, Step
<1>3. CASE Made
  <2>1. /\ m_filename \in [parts : Seq(Name) \ {<<>>}, slash : BOOLEAN]
        /\ fs = [dirs |-> fs.dirs, files |-> fs.files]
        /\ fs' = MakeSurePathExist(m_filename)
      BY Zenon DEF Quiet, LogTypes, Path
  <2>2. fs'.files = fs.files /\ fs.dirs \subseteq fs'.dirs /\ m_filename.parts \notin fs'.dirs
      BY <1>3, <2>1, MadeSure DEF Made, CanOpen
  <2> QED
      BY Zenon, <1>3, <2>2 DEF Quiet, LogTypes, Regular, Made, CanOpen, Path, Step
<1> QED
    BY Zenon, <1>1, <1>2, <1>3 DEF Quiet, Regular

\* The test of the day.
LEMMA TestDayKeeps ==
    ASSUME Quiet, NEW w \in Writers, TestDay(w), Calm'
    PROVE  Regular'
<1>1. ~Naming
    BY Zenon DEF Quiet, LogTypes, TestDay, Step, Naming
<1>2. CASE Fresh
    BY Zenon, <1>2 DEF Quiet, LogTypes, Regular, Fresh, TestDay, Step, Calm
<1>3. CASE Made
    BY Zenon, <1>3 DEF Quiet, LogTypes, Regular, Made, TestDay, Step, CanOpen
<1> QED
    BY Zenon, <1>1, <1>2, <1>3 DEF Quiet, Regular

\* The first half of CreateNewFile: no other thread is in Log.
LEMMA CreateKeeps ==
    ASSUME Quiet, NEW w \in Writers, CreateNewFile(w), Calm'
    PROVE  Regular'
<1>1. ~Naming
    BY Zenon DEF Quiet, LogTypes, CreateNewFile, Step, Naming
<1>2. at'[w] = "open" /\ \A v \in Writers \ {w} : at'[v] = "idle"
    BY Zenon DEF Quiet, LogTypes, CreateNewFile, Step, Calm
<1>3. m_filestream'.path = <<>>
    BY Zenon DEF Quiet, LogTypes, CreateNewFile
<1>4. Parent(m_filename'.parts) = m_filename.parts
    BY Zenon, PathFacts, DayType DEF Quiet, LogTypes, CreateNewFile, GetFileName
<1>5. m_lastTime' = 0 \/ Parent(m_filename'.parts) \notin fs'.dirs
    BY Zenon, <1>1, <1>4 DEF Quiet, Regular, Fresh, Made, CanOpen, CreateNewFile
<1> QED
    BY Zenon, <1>2, <1>3, <1>5 DEF Quiet, Regular, Naming, CreateNewFile

\* The second half.  The process ends when the name lies below a regular file.
LEMMA OpenKeeps ==
    ASSUME Quiet, NEW w \in Writers, OpenNew(w)
    PROVE  Regular'
<1>1. Naming
    BY ZenonT(60) DEF Quiet, LogTypes, OpenNew, Step, Regular, Fresh, Made
<1>2. \A v \in Writers \ {w} : at[v] = "idle"
    BY Zenon, <1>1 DEF Naming, OpenNew, Step
<1>3. ~IsOpen
    BY ZenonT(60), <1>1 DEF Naming, IsOpen
<1>4. CASE CanOpen(fs, m_filename)
  <2>1. /\ m_filestream' = [path |-> m_filename'.parts, good |-> TRUE]
        /\ fs' = Opened(fs, m_filename)
        /\ at' = [at EXCEPT ![w] = "time"]
        /\ UNCHANGED <<m_filename, m_lastTime, lost>>
      BY Zenon, <1>3, <1>4 DEF OpenNew, Step
  <2>2. fs'.dirs = fs.dirs /\ m_filename.parts \in DOMAIN fs'.files
      BY Zenon, <2>1 DEF Quiet, LogTypes, Opened
  <2>3. \A v \in Writers : at'[v] \notin {"open", "abort", "stamp", "write"}
      BY Zenon, <1>2, <2>1 DEF Quiet, LogTypes
  <2>4. m_lastTime = 0
      BY Zenon, <1>1, <1>4 DEF Naming, CanOpen
  <2> QED
      BY Zenon, <1>4, <2>1, <2>2, <2>3, <2>4 DEF Quiet, Regular, Made, CanOpen
<1>5. CASE ~CanOpen(fs, m_filename)
  <2>1. at'[w] = "abort" /\ lost' = lost
      BY Zenon, <1>3, <1>5 DEF OpenNew, Step, Quiet, LogTypes
  <2> QED
      BY Zenon, <2>1 DEF Quiet, Regular, Aborted
<1> QED
    BY Zenon, <1>4, <1>5

\* From the test of the time on the file is there.
LEMMA PastOpen ==
    ASSUME Quiet, NEW w \in Writers, at[w] \in {"time", "reopen", "stamp", "write"}
    PROVE  Made
BY ZenonT(60) DEF Quiet, LogTypes, Regular, Fresh, Naming

LEMMA TestTimeKeeps ==
    ASSUME Quiet, NEW w \in Writers, TestTime(w)
    PROVE  Regular'
<1>1. Made
    BY Zenon, PastOpen DEF TestTime, Step
<1>2. event[w] >= 3 /\ event[w] \in Nat /\ m_lastTime \in Nat
    BY LogAssumption DEF Quiet, LogTypes, TestTime, Step
<1>3. m_lastTime = 0 => at' = [at EXCEPT ![w] = "reopen"]
  <2>1. m_lastTime = 0 => event[w] >= m_lastTime + 3
      BY <1>2
  <2> QED
      BY <2>1, Zenon DEF TestTime, Step
<1>4. /\ at' = [at EXCEPT ![w] = "reopen"] \/ at' = [at EXCEPT ![w] = "write"]
      /\ UNCHANGED <<m_filename, m_filestream, m_lastTime, m_reopenError, fs, lost>>
    BY ZenonT(60) DEF TestTime, Step
<1> QED
    BY Zenon, <1>1, <1>3, <1>4 DEF Quiet, LogTypes, Regular, Made, CanOpen

\* ReOpen: the stream is good, so it is closed and opened again.
LEMMA ReOpenKeeps ==
    ASSUME Quiet, NEW w \in Writers, ReOpen(w)
    PROVE  Regular'
<1>1. Made
    BY Zenon, PastOpen DEF ReOpen, Step
<1>2. m_filestream.good /\ CanOpen(fs, m_filename)
    BY Zenon, <1>1 DEF Made
<1>3. /\ m_reopenError' = FALSE
      /\ fs' = Opened(fs, m_filename)
      /\ m_filestream' = [path |-> m_filename.parts, good |-> TRUE]
    BY <1>2, Zenon DEF ReOpen
<1>4. fs'.dirs = fs.dirs /\ DOMAIN fs'.files = DOMAIN fs.files
    BY Zenon, <1>1, <1>3 DEF Quiet, LogTypes, Opened, Made
<1>5. at' = [at EXCEPT ![w] = "stamp"] /\ UNCHANGED <<m_filename, m_lastTime, lost>>
    BY Zenon DEF ReOpen, Step
<1> QED
    BY Zenon, <1>1, <1>3, <1>4, <1>5 DEF Quiet, LogTypes, Regular, Made, CanOpen

LEMMA StampKeeps ==
    ASSUME Quiet, NEW w \in Writers, Stamp(w)
    PROVE  Regular'
<1>1. Made
    BY Zenon, PastOpen DEF Stamp, Step
<1>2. ~m_reopenError
    BY Zenon, <1>1 DEF Made, Stamp, Step
<1> QED
    BY Zenon, <1>1, <1>2 DEF Quiet, LogTypes, Regular, Made, CanOpen, Stamp, Step

\* The end of Log: the line is written, or the write is the first that fails.
LEMMA WriteKeeps ==
    ASSUME Quiet, NEW w \in Writers, Write(w), Calm'
    PROVE  Regular'
<1>1. Made
    BY Zenon, PastOpen DEF Write, Step
<1>2. IsOpen /\ m_filestream.good /\ ~m_reopenError
    BY Zenon, <1>1 DEF Made, Write, Step, IsOpen, Quiet, LogTypes
<1>3. /\ fs' = [fs EXCEPT !.files[m_filestream.path] = Append(@, event[w])]
      /\ m_filestream' = [m_filestream EXCEPT !.good = TRUE]
      /\ lost' = lost
    BY ZenonT(60), <1>2 DEF Write, Calm
<1>4. m_filestream'.path = m_filestream.path /\ m_filestream'.good
    BY Zenon, <1>3 DEF Quiet, LogTypes
<1>5. fs'.dirs = fs.dirs /\ DOMAIN fs'.files = DOMAIN fs.files
    BY Zenon, <1>3 DEF Quiet, LogTypes
<1>6. at' = [at EXCEPT ![w] = "idle"] /\ UNCHANGED <<m_filename, m_lastTime, m_reopenError>>
    BY Zenon DEF Write, Step
<1> QED
    BY Zenon, <1>1, <1>3, <1>4, <1>5, <1>6 DEF Quiet, LogTypes, Regular, Made, CanOpen

\* A step that happens while the promise holds keeps it.
LEMMA RegularKept ==
    ASSUME Quiet, LogNext, Calm'
    PROVE  Regular'
<1>1. CASE Clock
    BY Zenon, <1>1 DEF Quiet, Regular, Fresh, Naming, Made, Aborted, CanOpen, Clock
<1>2. CASE LogDone /\ UNCHANGED logVars
    BY Zenon, <1>2 DEF Quiet, Regular, Fresh, Naming, Made, Aborted, CanOpen, logVars
<1> QED
    BY <1>1, <1>2, LogKeeps, PathKeeps, TestDayKeeps, CreateKeeps, OpenKeeps, TestTimeKeeps,
       ReOpenKeeps, StampKeeps, WriteKeeps, Zenon DEF LogNext

\* What ends the promise ends it for good, and a process that has ended makes no step.
LEMMA CalmBefore == LogNext /\ Calm' => Calm
<1> SUFFICES ASSUME LogNext PROVE (broken => broken') /\ (raced => raced') /\ (mistaken => mistaken')
    BY Zenon DEF Calm
<1>1. CASE Clock \/ UNCHANGED logVars
    BY <1>1 DEF Clock, logVars
<1>2. ASSUME NEW w \in Writers, Log(w) \/ CreateNewFile(w)
      PROVE  (broken => broken') /\ (raced => raced') /\ (mistaken => mistaken')
  <2>1. PICK V : raced' = (raced \/ \E v \in V : at[v] = "open") \/ raced' = (raced \/ \E v \in V : at[v] # "idle")
      BY <1>2, Zenon DEF Log, CreateNewFile
  <2>2. raced => raced'
      BY Zenon, <2>1
  <2> QED
      BY <1>2, <2>2 DEF Log, CreateNewFile
<1>3. ASSUME NEW w \in Writers, TestDay(w)
      PROVE  (broken => broken') /\ (raced => raced') /\ (mistaken => mistaken')
    BY Zenon, <1>3 DEF TestDay
<1>4. ASSUME NEW w \in Writers, Write(w)
      PROVE  (broken => broken') /\ (raced => raced') /\ (mistaken => mistaken')
  <2>1. PICK ok : broken' = (broken \/ (~ok /\ IsOpen /\ m_filestream.good /\ ~m_reopenError))
      BY <1>4, Zenon DEF Write
  <2> QED
      BY Zenon, <1>4, <2>1 DEF Write
<1>5. CASE \E w \in Writers : Path(w) \/ OpenNew(w) \/ TestTime(w) \/ ReOpen(w) \/ Stamp(w)
    BY <1>5 DEF Path, OpenNew, TestTime, ReOpen, Stamp
<1> QED
    BY <1>1, <1>2, <1>3, <1>4, <1>5, Zenon DEF LogNext

LEMMA LogInvNext == LogInv /\ [LogNext]_logVars => LogInv'
<1> SUFFICES ASSUME LogInv, [LogNext]_logVars PROVE LogInv'
    BY Zenon
<1>1. LogTypes'
    BY Zenon, LogTypesKept DEF LogInv
<1>2. ASSUME Calm' PROVE Regular'
  <2>1. CASE UNCHANGED logVars
      BY Zenon, <1>2, <2>1 DEF LogInv, Calm, Regular, Fresh, Naming, Made, Aborted, CanOpen, logVars
  <2>2. CASE LogNext /\ ~Aborted
      BY <1>2, <2>2, CalmBefore, RegularKept, Zenon DEF LogInv, Quiet
  <2>3. CASE LogNext /\ Aborted
      BY <2>1, <2>3, Zenon DEF LogNext
  <2> QED
      BY Zenon, <2>1, <2>2, <2>3
<1> QED
    BY Zenon, <1>1, <1>2 DEF LogInv

\* Once the appender has made its file no line is dropped (LinesKept): for any number of
\* threads, any paths and days of at least three seconds, until a write fails, CreateNewFile
\* races another thread, or the uninitialised m_curData happens to be the day.
THEOREM LinesAreKept == LogSpec => []LinesKept
<1>1. LogInv => LinesKept
    BY Zenon DEF LogInv, Calm, Regular, LinesKept
<1> QED
    BY <1>1, LogInvInit, LogInvNext, PTL DEF LogSpec
=============================================================================
