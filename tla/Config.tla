------------------------------- MODULE Config -------------------------------
(***************************************************************************)
(* Config and ConfigVar (config.h, config.cpp) with the loggers that follow*)
(* the variable "logs" (Logger, LoggerManager and LogIniter of log.cpp).   *)
(* Threads load the directory of configuration files while the files are   *)
(* being edited.  A name is a sequence of segments, as in                  *)
(* <<"server", "port">> for server.port.  ConfigVar is a template over the *)
(* conversions of its type, and the module a parameter of them.            *)
(***************************************************************************)
EXTENDS Integers, Sequences, FiniteSets

CONSTANTS
    Loaders,       \* threads that call LoadFromConfDir
    ConfFiles,     \* the .yml files of the directory
    Docs,          \* what may be written to a file: [ok, root], ok when it is YAML
    FirstDocs,     \* what each file holds at the start
    Types,         \* the registered variables: name -> type
    Defaults,      \* their default values
    CanConvert(_, _), FromStr(_, _),    \* the conversion from a node to a type
    NodesOf(_),    \* the nodes of a document with their names, as ListAllMember has them
    ProgramNames,  \* the loggers the program asks for by name
    MaxLoads, MaxEdits, MaxClock    \* bounds

LOGS == <<"logs">>

\* The loggers a value of "logs" defines: std::set<LogDefine> has each name once.
Defines(v) == /\ IsFiniteSet(v)
              /\ \A d, e \in v : d.name = e.name => d = e
AllDocs == {d \in Docs \cup {FirstDocs[f] : f \in ConfFiles} : d.ok}

\* "logs" is registered, with nothing as its default; ListAllMember lists the root first.
ASSUME ConfAssumption ==
    /\ IsFiniteSet(ConfFiles)
    /\ Defaults = [key \in DOMAIN Types |-> Defaults[key]]
    /\ LOGS \in DOMAIN Types /\ Defaults[LOGS] = {}
    /\ \A d \in AllDocs : LET nodes == NodesOf(d.root) IN
         /\ nodes # <<>> /\ nodes \in Seq({nodes[k] : k \in DOMAIN nodes})
         /\ \A k \in DOMAIN nodes : CanConvert(Types[LOGS], nodes[k][2]) =>
                                      Defines(FromStr(Types[LOGS], nodes[k][2]))

VARIABLES
    conf,              \* the files: doc, and the second of each edit up to now
    clock,
    s_file2modifytime,
    m_val,             \* the value of each variable
    m_loggers,         \* name -> [m_level, m_appenders]
    loader,            \* where each thread is, and its locals
    loaded,            \* the version of each file that was read last (0: none)
    loads              \* how often LoadFromConfDir was called

confVars == <<conf, clock, s_file2modifytime, m_val, m_loggers, loader, loaded, loads>>

Root_ == <<"root">>
NewLogger == [m_level |-> "INFO", m_appenders |-> <<>>]
StdoutDefault == [type |-> 2, file |-> <<>>, pattern |-> <<>>]
RootLogger == [m_level |-> "INFO", m_appenders |-> <<StdoutDefault>>]

Version(f) == Len(conf[f].edits)
Mtime(f) == conf[f].edits[Version(f)]

\* A map with one entry set, and the elements of a set in an order that has each once.
Put(f, x, v) == [y \in DOMAIN f \cup {x} |-> IF y = x THEN v ELSE f[y]]
Orders(S) == {s \in [1..Cardinality(S) -> S] : \A x \in S : \E k \in DOMAIN s : s[k] = x}
Listed(S) == CHOOSE s \in Orders(S) : TRUE

Rest == [pc |-> "idle", force |-> FALSE, files |-> <<>>, nodes |-> <<>>, key |-> <<>>,
         new |-> 0, work |-> <<>>]

ConfInit ==
    /\ conf = [f \in ConfFiles |-> [doc |-> FirstDocs[f], edits |-> <<1>>]]
    /\ clock = 1
    /\ s_file2modifytime = [f \in ConfFiles |-> 0]
    /\ m_val = Defaults
    /\ m_loggers = [name \in {Root_} |-> RootLogger]
    /\ loader = [l \in Loaders |-> Rest]
    /\ loaded = [f \in ConfFiles |-> 0]
    /\ loads = 0

-----------------------------------------------------------------------------
(* The world around the program.                                           *)

\* Somebody writes a file; its modification time has the resolution of a second.
Edit(f) ==
    /\ Version(f) <= MaxEdits
    /\ \E d \in Docs : conf' = [conf EXCEPT ![f] = [doc |-> d, edits |-> Append(@.edits, clock)]]
    /\ UNCHANGED <<clock, s_file2modifytime, m_val, m_loggers, loader, loaded, loads>>

Second ==
    /\ clock < MaxClock
    /\ clock' = clock + 1
    /\ UNCHANGED <<conf, s_file2modifytime, m_val, m_loggers, loader, loaded, loads>>

\* LoggerManager::GetLogger, called by the program: a new logger has no appenders.
GetLogger(name) ==
    /\ name \notin DOMAIN m_loggers
    /\ m_loggers' = Put(m_loggers, name, NewLogger)
    /\ UNCHANGED <<conf, clock, s_file2modifytime, m_val, loader, loaded, loads>>

-----------------------------------------------------------------------------
(* Config::LoadFromConfDir.                                                *)

At(l, pc) == loader[l].pc = pc
File(l) == Head(loader[l].files)

\* The loop goes to the next file, or the call ends.
FileDone(l, me) ==
    IF Len(me.files) > 1 THEN [Rest EXCEPT !.pc = "stat", !.force = me.force, !.files = Tail(me.files)]
    ELSE Rest

\* The loop of LoadFromYaml goes to the next node, or the file is done.
NodeDone(l, me) ==
    IF Len(me.nodes) > 1
    THEN [me EXCEPT !.pc = "node", !.nodes = Tail(@), !.key = <<>>, !.new = 0, !.work = <<>>]
    ELSE FileDone(l, me)

\* FSUtil::ListAllFile gives the files in the order readdir has them.
LoadFromConfDir(l) ==
    /\ At(l, "idle")
    /\ loads < MaxLoads
    /\ loads' = loads + 1
    /\ \E files \in Orders(ConfFiles), force \in BOOLEAN :
         loader' = [loader EXCEPT ![l] =
           [@ EXCEPT !.pc = IF files = <<>> THEN "idle" ELSE "stat", !.files = files, !.force = force]]
    /\ UNCHANGED <<conf, clock, s_file2modifytime, m_val, m_loggers, loaded>>

\* Mutant: the time of the load is recorded.
StatNow(l) ==
    /\ At(l, "stat")
    /\ LET f == File(l)
           skip == ~loader[l].force /\ s_file2modifytime[f] = Mtime(f)
       IN  /\ s_file2modifytime' =
                IF skip THEN s_file2modifytime ELSE [s_file2modifytime EXCEPT ![f] = clock]
           /\ loader' = [loader EXCEPT ![l] = IF skip THEN FileDone(l, @)
                                              ELSE [@ EXCEPT !.pc = "open"]]
    /\ UNCHANGED <<conf, clock, m_val, m_loggers, loaded, loads>>

\* lstat, and under s_mutex the test and the record of the modification time.
Stat(l) ==
    /\ At(l, "stat")
    /\ LET f == File(l)
           skip == ~loader[l].force /\ s_file2modifytime[f] = Mtime(f)
       IN  /\ s_file2modifytime' =
                IF skip THEN s_file2modifytime ELSE [s_file2modifytime EXCEPT ![f] = Mtime(f)]
           /\ loader' = [loader EXCEPT ![l] = IF skip THEN FileDone(l, @)
                                              ELSE [@ EXCEPT !.pc = "open"]]
    /\ UNCHANGED <<conf, clock, m_val, m_loggers, loaded, loads>>

\* YAML::LoadFile and the start of LoadFromYaml; a file that is not YAML is skipped.
LoadFile(l) ==
    /\ At(l, "open")
    /\ loaded' = [loaded EXCEPT ![File(l)] = Version(File(l))]
    /\ loader' = [loader EXCEPT ![l] =
                    IF conf[File(l)].doc.ok
                    THEN [@ EXCEPT !.pc = "node", !.nodes = NodesOf(conf[File(l)].doc.root)]
                    ELSE FileDone(l, @)]
    /\ UNCHANGED <<conf, clock, s_file2modifytime, m_val, m_loggers, loads>>

\* One node of LoadFromYaml up to SetValue: LookupBase and the conversion of FromString,
\* which swallows the exception of a text it cannot convert.
Node(l) ==
    /\ At(l, "node")
    /\ LET key == Head(loader[l].nodes)[1]
           node == Head(loader[l].nodes)[2]
       IN  loader' = [loader EXCEPT ![l] =
             IF key \in DOMAIN Types /\ CanConvert(Types[key], node)
             THEN [@ EXCEPT !.pc = "set", !.key = key, !.new = FromStr(Types[key], node)]
             ELSE NodeDone(l, @)]
    /\ UNCHANGED <<conf, clock, s_file2modifytime, m_val, m_loggers, loaded, loads>>

-----------------------------------------------------------------------------
(* ConfigVar::SetValue and the listener of LogIniter.                      *)

\* LogDefine::operator== compares its own appenders with themselves.
SameDefine(d, e) == d.name = e.name /\ d.level = e.level
SameValue(key, a, b) ==
    IF key = LOGS THEN /\ \A d \in a : \E e \in b : SameDefine(d, e)
                       /\ \A e \in b : \E d \in a : SameDefine(d, e)
    ELSE a = b

\* Mutant: the loggers that the new value no longer names are left as they are.
ChangesKeepOld(old, new) == Listed({d \in new : ~\E e \in old : SameDefine(d, e)})

\* The listener: what it does to which logger.  New and changed definitions first, then
\* the loggers that are no longer named.
Changes(old, new) ==
    Listed({d \in new : ~\E e \in old : SameDefine(d, e)})
    \o Listed({[name |-> e.name, level |-> "NOTSET", appenders |-> <<>>]
                   : e \in {e \in old : ~\E d \in new : d.name = e.name}})

\* Under the read lock: the comparison, and the call of the listener if it has one.
SetValue(l) ==
    /\ At(l, "set")
    /\ LET key == loader[l].key
           new == loader[l].new
           work == IF key = LOGS THEN Changes(m_val[key], new) ELSE <<>>
       IN  loader' = [loader EXCEPT ![l] =
             IF SameValue(key, new, m_val[key]) THEN NodeDone(l, @)
             ELSE [@ EXCEPT !.pc = IF work = <<>> THEN "write" ELSE "notify", !.work = work]]
    /\ UNCHANGED <<conf, clock, s_file2modifytime, m_val, m_loggers, loaded, loads>>

\* One logger: GetLogger, SetLevel, ClearAppenders, and AddAppender for each.
Notify(l) ==
    /\ At(l, "notify")
    /\ LET d == Head(loader[l].work)
           rest == Tail(loader[l].work)
       IN  /\ m_loggers' = Put(m_loggers, d.name, [m_level |-> d.level, m_appenders |-> d.appenders])
           /\ loader' = [loader EXCEPT ![l] =
                [@ EXCEPT !.work = rest, !.pc = IF rest = <<>> THEN "write" ELSE "notify"]]
    /\ UNCHANGED <<conf, clock, s_file2modifytime, m_val, loaded, loads>>

\* Under the write lock, once nobody reads the same variable.
Store(l) ==
    /\ At(l, "write")
    /\ ~\E k \in Loaders : At(k, "notify") /\ loader[k].key = loader[l].key
    /\ m_val' = [m_val EXCEPT ![loader[l].key] = loader[l].new]
    /\ loader' = [loader EXCEPT ![l] = NodeDone(l, @)]
    /\ UNCHANGED <<conf, clock, s_file2modifytime, m_loggers, loaded, loads>>

Load(l) ==
    \/ LoadFromConfDir(l) \/ Stat(l) \/ LoadFile(l) \/ Node(l)
    \/ SetValue(l) \/ Notify(l) \/ Store(l)

\* Nothing is left to be loaded, and the bounds keep the rest of the world still.
Settled == loads = MaxLoads /\ (\A l \in Loaders : At(l, "idle")) /\ UNCHANGED confVars

ConfNext ==
    \/ \E l \in Loaders : Load(l)
    \/ \E f \in ConfFiles : Edit(f)
    \/ \E name \in ProgramNames : GetLogger(name)
    \/ Second
    \/ Settled

ConfSpec == ConfInit /\ [][ConfNext]_confVars

-----------------------------------------------------------------------------
\* The loggers follow the configuration: between two changes of "logs" every logger it
\* names has the level it gives, and a logger it does not name is as the program made it
\* or was switched off, with no appender left.
LoggersFollow ==
    (\A l \in Loaders : ~(loader[l].pc \in {"notify", "write"} /\ loader[l].key = LOGS)) =>
      /\ \A d \in m_val[LOGS] :
           d.name \in DOMAIN m_loggers /\ m_loggers[d.name].m_level = d.level
      /\ \A name \in DOMAIN m_loggers :
           ~(\E d \in m_val[LOGS] : d.name = name) =>
             m_loggers[name] \in {NewLogger, RootLogger, [NewLogger EXCEPT !.m_level = "NOTSET"]}

\* No edit is missed: while a file is held to be up to date, because the time on record is
\* its modification time, what was read of it last is what it holds, or was written in
\* that same second.  This is what the order in LoadFromConfDir, first the time and then
\* the contents, is good for.
NoEditMissed ==
    \A f \in ConfFiles :
      s_file2modifytime[f] = Mtime(f) /\ ~(\E l \in Loaders : At(l, "open") /\ File(l) = f) =>
        loaded[f] > 0 /\ conf[f].edits[loaded[f]] = Mtime(f)
=============================================================================
