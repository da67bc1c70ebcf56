-------------------------- MODULE FileLogAppender ---------------------------
(***************************************************************************)
(* FileLogAppender (log.cpp), used by several threads at once: the path of *)
(* its configuration is a directory, in which it makes a file for the day. *)
(* A path is a sequence of names and says whether it ends in a slash.      *)
(***************************************************************************)
EXTENDS Integers, Sequences

CONSTANTS
    Writers,       \* threads that log
    LogPaths,      \* paths the configuration may give
    Garbage,       \* what the uninitialised m_curData may hold
    DayLength,     \* seconds in a day
    WritesFail,    \* whether a write to a file may fail
    MaxTime, MaxLines    \* bounds

ASSUME LogAssumption ==
    /\ LogPaths \subseteq [parts : Seq(STRING) \ {<<>>}, slash : BOOLEAN]
    /\ DayLength \in Nat /\ DayLength >= 3
    /\ Garbage \subseteq Int

VARIABLES
    m_filename, m_filestream, m_lastTime, m_reopenError, m_curData,
    fs,            \* directories, and regular files with their lines
    time,          \* time(0)
    at,            \* where each thread is in Log
    event,         \* the event each thread logs
    lines,         \* number of events up to now
    lost,          \* events that were not written though the appender had its file
    broken,        \* whether a write has failed
    raced,         \* whether a thread was in Log while another made a new file
    mistaken       \* whether the value m_curData happened to have was taken for the day

logVars == <<m_filename, m_filestream, m_lastTime, m_reopenError, m_curData, fs, time,
             at, event, lines, lost, broken, raced, mistaken>>

IsOpen == m_filestream.path # <<>>
Day(t) == t \div DayLength
DayName(d) == <<"day", d>>

-----------------------------------------------------------------------------
(* The file system, as open, stat and mkdir use it.                        *)

Parent(path) == SubSeq(path, 1, Len(path) - 1)
CanOpen(d, p) == ~p.slash /\ p.parts \notin d.dirs /\ Parent(p.parts) \in d.dirs
Opened(d, p) ==
    [d EXCEPT !.files = [f \in DOMAIN @ \cup {p.parts} |-> IF f \in DOMAIN @ THEN @[f] ELSE <<>>]]

\* FSUtil::MakeSurePathExist: a directory for every prefix of the path that is nothing
\* yet, the whole path included.
MakeSurePathExist(p) ==
    LET Prefix(k) == SubSeq(p.parts, 1, k)
    IN  [fs EXCEPT !.dirs = @ \cup {Prefix(k) : k \in
            {j \in DOMAIN p.parts : \A i \in 1..j : Prefix(i) \notin DOMAIN fs.files}}]

\* GetFileName: the date is put behind the path there is.
GetFileName(p, d) == [parts |-> Append(p.parts, DayName(d)), slash |-> FALSE]

-----------------------------------------------------------------------------
\* The constructor: ReOpen is tried on the path as it is, and m_curData is not set.  The
\* last directory of the path may not be there yet.
LogInit ==
    /\ m_filename \in LogPaths
    /\ m_lastTime = 0
    /\ m_curData \in Garbage
    /\ time = DayLength
    /\ \E n \in {Len(m_filename.parts) - 1, Len(m_filename.parts)} :
       \E d \in {[dirs |-> {SubSeq(m_filename.parts, 1, k) : k \in 0..n}, files |-> <<>>]} :
         IF CanOpen(d, m_filename)
         THEN /\ fs = Opened(d, m_filename) /\ m_reopenError = FALSE
              /\ m_filestream = [path |-> m_filename.parts, good |-> TRUE]
         ELSE /\ fs = d /\ m_reopenError = TRUE
              /\ m_filestream = [path |-> <<>>, good |-> FALSE]
    /\ at = [w \in Writers |-> "idle"]
    /\ event = [w \in Writers |-> 0]
    /\ lines = 0 /\ lost = {} /\ broken = FALSE /\ raced = FALSE /\ mistaken = FALSE

Step(w, from, to) == at[w] = from /\ at' = [at EXCEPT ![w] = to]

Clock ==
    /\ time < MaxTime
    /\ time' = time + 1
    /\ UNCHANGED <<m_filename, m_filestream, m_lastTime, m_reopenError, m_curData, fs, at,
                   event, lines, lost, broken, raced, mistaken>>

\* The macro makes the event with time(0); Log makes sure that m_filename exists.
Log(w) ==
    /\ Step(w, "idle", "path")
    /\ lines < MaxLines
    /\ lines' = lines + 1
    /\ event' = [event EXCEPT ![w] = time]
    /\ raced' = (raced \/ \E v \in Writers : at[v] = "open")
    /\ UNCHANGED <<m_filename, m_filestream, m_lastTime, m_reopenError, m_curData, fs, time,
                   lost, broken, mistaken>>

Path(w) ==
    /\ Step(w, "path", "day")
    /\ fs' = MakeSurePathExist(m_filename)
    /\ UNCHANGED <<m_filename, m_filestream, m_lastTime, m_reopenError, m_curData, time,
                   event, lines, lost, broken, raced, mistaken>>

TestDay(w) ==
    /\ Step(w, "day", IF Day(event[w]) # m_curData THEN "create" ELSE "time")
    /\ mistaken' = (mistaken \/ (Day(event[w]) = m_curData /\ m_filename \in LogPaths))
    /\ UNCHANGED <<m_filename, m_filestream, m_lastTime, m_reopenError, m_curData, fs, time,
                   event, lines, lost, broken, raced>>

\* CreateNewFile takes no lock.  First the old file is closed and the new one named.
CreateNewFile(w) ==
    /\ Step(w, "create", "open")
    /\ m_curData' = Day(time)
    /\ m_filename' = GetFileName(m_filename, Day(time))
    /\ m_filestream' = [m_filestream EXCEPT !.path = <<>>]
    /\ raced' = (raced \/ \E v \in Writers \ {w} : at[v] # "idle")
    /\ UNCHANGED <<m_lastTime, m_reopenError, fs, time, event, lines, lost, broken, mistaken>>

\* Then it is opened, which fails when another thread has opened it in between; the
\* process ends when no file is open then.
OpenNew(w) ==
    LET ok == ~IsOpen /\ CanOpen(fs, m_filename)
    IN  /\ Step(w, "open", IF IsOpen \/ ok THEN "time" ELSE "abort")
        /\ fs' = IF ok THEN Opened(fs, m_filename) ELSE fs
        /\ m_filestream' = [path |-> IF ok THEN m_filename.parts ELSE m_filestream.path, good |-> ok]
        /\ UNCHANGED <<m_filename, m_lastTime, m_reopenError, m_curData, time, event, lines, lost,
                       broken, raced, mistaken>>

\* Mutant: the time is noted before the file is open again.
TestTimeStamped(w) ==
    /\ Step(w, "time", IF event[w] >= m_lastTime + 3 THEN "reopen" ELSE "write")
    /\ m_lastTime' = IF event[w] >= m_lastTime + 3 THEN event[w] ELSE m_lastTime
    /\ UNCHANGED <<m_filename, m_filestream, m_reopenError, m_curData, fs, time, event,
                   lines, lost, broken, raced, mistaken>>

TestTime(w) ==
    /\ Step(w, "time", IF event[w] >= m_lastTime + 3 THEN "reopen" ELSE "write")
    /\ UNCHANGED <<m_filename, m_filestream, m_lastTime, m_reopenError, m_curData, fs, time,
                   event, lines, lost, broken, raced, mistaken>>

\* ReOpen, under the mutex: a stream that has failed is not closed first, and a file that
\* is still open cannot be opened.
ReOpen(w) ==
    LET closed == m_filestream.good \/ ~IsOpen
        ok == closed /\ CanOpen(fs, m_filename)
    IN  /\ Step(w, "reopen", "stamp")
        /\ m_reopenError' = ~ok
        /\ fs' = IF ok THEN Opened(fs, m_filename) ELSE fs
        /\ m_filestream' = [path |-> CASE ok -> m_filename.parts
                                       [] closed /\ ~ok -> <<>>
                                       [] OTHER -> m_filestream.path,
                            good |-> ok]
        /\ UNCHANGED <<m_filename, m_lastTime, m_curData, time, event, lines, lost, broken, raced, mistaken>>

Stamp(w) ==
    /\ Step(w, "stamp", "write")
    /\ m_lastTime' = event[w]
    /\ UNCHANGED <<m_filename, m_filestream, m_reopenError, m_curData, fs, time, event, lines,
                   lost, broken, raced, mistaken>>

\* The end of Log: nothing is written when the file could not be opened; a write goes to
\* the file that is open, or fails.
Write(w) ==
    /\ Step(w, "write", "idle")
    /\ \E ok \in {IsOpen /\ m_filestream.good /\ ~m_reopenError, FALSE} :
         /\ ~ok /\ IsOpen /\ m_filestream.good /\ ~m_reopenError => WritesFail
         /\ fs' = IF ok THEN [fs EXCEPT !.files[m_filestream.path] = Append(@, event[w])] ELSE fs
         /\ m_filestream' = IF m_reopenError THEN m_filestream ELSE [m_filestream EXCEPT !.good = ok]
         /\ lost' = IF ok \/ m_filename \in LogPaths THEN lost ELSE lost \cup {event[w]}
         /\ broken' = (broken \/ (~ok /\ IsOpen /\ m_filestream.good /\ ~m_reopenError))
    /\ event' = [event EXCEPT ![w] = 0]
    /\ UNCHANGED <<m_filename, m_lastTime, m_reopenError, m_curData, time, lines, raced, mistaken>>

Aborted == \E w \in Writers : at[w] = "abort"

\* All lines are logged, or the process has ended.
LogDone == Aborted \/ (lines = MaxLines /\ \A w \in Writers : at[w] = "idle")

LogNext ==
    \/ ~Aborted /\ Clock
    \/ ~Aborted /\ \E w \in Writers :
         \/ Log(w) \/ Path(w) \/ TestDay(w) \/ CreateNewFile(w) \/ OpenNew(w) \/ TestTime(w)
         \/ ReOpen(w) \/ Stamp(w) \/ Write(w)
    \/ LogDone /\ UNCHANGED logVars

LogSpec == LogInit /\ [][LogNext]_logVars

-----------------------------------------------------------------------------
\* assert(m_filestream.is_open()) in CreateNewFile (log.cpp:423) never fails.
FileOpened == ~Aborted

\* Once the appender has made its file no line is dropped, however the threads interleave:
\* m_reopenError, which is set from the constructor on, is cleared before m_lastTime tells
\* other threads that there is nothing to reopen.  Three things end this: a write that
\* fails leaves a stream that ReOpen cannot open again; a thread that logs while another is
\* in CreateNewFile, which takes no lock, may leave the stream failed; and the appender may
\* make no file at first because the uninitialised m_curData is the day.
LinesKept == lost = {} \/ broken \/ raced \/ mistaken
=============================================================================
