------------------------------- MODULE Logger -------------------------------
(***************************************************************************)
(* The loggers of both programs: the console, a file, and message boxes.   *)
(* A log statement                                                         *)
(*     ILogger::Notice() << "text";                                        *)
(* runs in any thread.  Under the static mutex it finds the loggers of its *)
(* level, writes the head of the line to each of them and locks them all;  *)
(* it then writes its text, and the destruction of the manipulator ends    *)
(* the line of each logger and unlocks it.  The main thread attaches       *)
(* loggers while others may write; none is detached before the threads     *)
(* have ended.  This is a release build, without the debug logger.         *)
(***************************************************************************)
EXTENDS Naturals, Sequences, FiniteSets

CONSTANTS
    Threads,
    Main,          \* the main thread
    NoThread,
    MaxMessages    \* bound: statements of each thread

ASSUME LoggerAssumption ==
    /\ Main \in Threads
    /\ NoThread \notin Threads
    /\ MaxMessages \in Nat

VARIABLES
    collection, \* s_loggersCollection, the loggers of a level, the last one first
    sMutex,     \* the thread that holds s_mutex
    mutex,      \* the thread that holds the mutex of each logger
    phase,      \* what each thread does
    list,       \* m_lstLoggers, the loggers of the statement
    todo,       \* those of them the phase has still to visit
    sent,       \* statements each thread has begun
    out         \* what was written to each logger

vars == <<collection, sMutex, mutex, phase, list, todo, sent, out>>

\* In the order installLoggers and installLoggerMsgBox attach them.
Installed == <<"console", "file", "box">>
Loggers   == {Installed[i] : i \in DOMAIN Installed}

Levels       == {"debug", "trace", "notice", "warning", "error", "information"}
NoticeLevels == Levels \ {"debug"}

\* m_nRegisteredLevels
LevelsOf(l) == IF l = "box" THEN {"warning", "error", "information"} ELSE NoticeLevels

Phases == {"idle", "head", "lock", "text", "end"}

\* The line of a logger.  A message box shows neither date nor level, and is
\* shown when its text is complete.
Line(l) == IF l = "box" THEN <<"text", "shown">> ELSE <<"head", "text", "newline">>

Writes(t, l, parts) ==
    out' = [out EXCEPT ![l] =
              @ \o [i \in DOMAIN parts |-> [thread |-> t, number |-> sent[t], part |-> parts[i]]]]

\* write_ and the virtual write of a logger
Heading(l) == IF l = "box" THEN <<>> ELSE <<"head">>
LineEnd(l) == IF l = "box" THEN <<"shown">> ELSE <<"newline">>

Init ==
    /\ collection = [v \in Levels |-> <<>>]
    /\ sMutex = NoThread
    /\ mutex = [l \in Loggers |-> NoThread]
    /\ phase = [t \in Threads |-> "idle"]
    /\ list = [t \in Threads |-> <<>>]
    /\ todo = [t \in Threads |-> <<>>]
    /\ sent = [t \in Threads |-> 0]
    /\ out = [l \in Loggers |-> <<>>]

-----------------------------------------------------------------------------
IsAttached(l) ==
    \E v \in Levels : \E i \in DOMAIN collection[v] : collection[v][i] = l

\* attachLogger, which also asks the logger for its levels under its mutex: a
\* multi-map gives the values of a key from the last one inserted on.
Attach ==
    /\ sMutex = NoThread
    /\ phase[Main] = "idle"
    /\ \E n \in DOMAIN Installed :
        LET l == Installed[n]
        IN  /\ ~ IsAttached(l)
            /\ \A m \in 1 .. n - 1 : IsAttached(Installed[m])
            /\ mutex[l] = NoThread
            /\ collection' = [v \in Levels |-> IF v \in LevelsOf(l)
                                               THEN <<l>> \o collection[v]
                                               ELSE collection[v]]
    /\ UNCHANGED <<sMutex, mutex, phase, list, todo, sent, out>>

\* Log_: a statement of the debug level, or of a level that no logger has, is
\* written nowhere.
Statement(t, level) ==
    /\ phase[t] = "idle"
    /\ sent[t] < MaxMessages
    /\ sMutex = NoThread
    /\ LET loggers == collection[level]
       IN  IF loggers = <<>> THEN UNCHANGED <<sMutex, phase, list, todo>>
           ELSE /\ sMutex' = t
                /\ phase' = [phase EXCEPT ![t] = "head"]
                /\ list' = [list EXCEPT ![t] = loggers]
                /\ todo' = [todo EXCEPT ![t] = loggers]
    /\ sent' = [sent EXCEPT ![t] = @ + 1]
    /\ UNCHANGED <<collection, mutex, out>>

\* The thread goes on with the next logger, or with the next phase.
Visit(t, next, from) ==
    /\ todo' = [todo EXCEPT ![t] = IF Len(@) = 1 THEN from ELSE Tail(@)]
    /\ phase' = [phase EXCEPT ![t] = IF Len(todo[t]) = 1 THEN next ELSE @]

\* Variant: the static mutex is released before the loggers are locked.
WriteHeadUnlocks(t) ==
    /\ phase[t] = "head"
    /\ LET l == Head(todo[t])
       IN  /\ mutex[l] = NoThread
           /\ Writes(t, l, Heading(l))
    /\ sMutex' = IF Len(todo[t]) = 1 THEN NoThread ELSE sMutex
    /\ Visit(t, "lock", list[t])
    /\ UNCHANGED <<collection, mutex, list, sent>>

\* ILogger::write_: date, time and level.  Each << takes the mutex of the
\* logger, and a thread that still writes to the logger holds it.
WriteHead(t) ==
    /\ phase[t] = "head"
    /\ LET l == Head(todo[t])
       IN  /\ mutex[l] = NoThread
           /\ Writes(t, l, Heading(l))
    /\ Visit(t, "lock", list[t])
    /\ UNCHANGED <<collection, sMutex, mutex, list, sent>>

\* Variant: the loggers are only locked by each << of their own.
LockNone(t) ==
    /\ phase[t] = "lock"
    /\ mutex[Head(todo[t])] = NoThread
    /\ sMutex' = IF Len(todo[t]) = 1 THEN NoThread ELSE sMutex
    /\ Visit(t, "text", list[t])
    /\ UNCHANGED <<collection, mutex, list, sent, out>>

\* CLoggerManipulator locks its loggers one after the other; the locker of the
\* static mutex goes when it is built.
Lock(t) ==
    /\ phase[t] = "lock"
    /\ LET l == Head(todo[t])
       IN  /\ mutex[l] = NoThread
           /\ mutex' = [mutex EXCEPT ![l] = t]
    /\ sMutex' = IF Len(todo[t]) = 1 THEN NoThread ELSE sMutex
    /\ Visit(t, "text", list[t])
    /\ UNCHANGED <<collection, list, sent, out>>

\* CLoggerManipulator::operator<<: the mutexes are recursive and held.
WriteText(t) ==
    /\ phase[t] = "text"
    /\ LET l == Head(todo[t])
       IN  Writes(t, l, <<"text">>)
    /\ Visit(t, "end", list[t])
    /\ UNCHANGED <<collection, sMutex, mutex, list, sent>>

\* Variant: a logger that is not flushed is not unlocked.
EndLineKeepsMutex(t) ==
    /\ phase[t] = "end"
    /\ LET l == Head(todo[t])
       IN  /\ Writes(t, l, LineEnd(l))
           /\ mutex' = [mutex EXCEPT ![l] = IF l = Head(list[t]) THEN NoThread ELSE t]
    /\ Visit(t, "idle", <<>>)
    /\ list' = [list EXCEPT ![t] = IF Len(todo[t]) = 1 THEN <<>> ELSE @]
    /\ UNCHANGED <<collection, sMutex, sent>>

\* ~CLoggerManipulator: the line ends, or the message box is shown, and the
\* logger is flushed and unlocked.
EndLine(t) ==
    /\ phase[t] = "end"
    /\ LET l == Head(todo[t])
       IN  /\ Writes(t, l, LineEnd(l))
           /\ mutex' = [mutex EXCEPT ![l] = NoThread]
    /\ Visit(t, "idle", <<>>)
    /\ list' = [list EXCEPT ![t] = IF Len(todo[t]) = 1 THEN <<>> ELSE @]
    /\ UNCHANGED <<collection, sMutex, sent>>

-----------------------------------------------------------------------------
Write(t) == WriteHead(t) \/ Lock(t) \/ WriteText(t) \/ EndLine(t)

Next ==
    \/ Attach
    \/ \E t \in Threads :
        \/ \E level \in Levels : Statement(t, level)
        \/ Write(t)

Spec == Init /\ [][Next]_vars

\* A thread in a statement runs on when it does not wait for a mutex.
FairSpec == Spec /\ \A t \in Threads : WF_vars(Write(t))

-----------------------------------------------------------------------------
(* Properties. *)

TypeOK ==
    /\ collection \in [Levels -> Seq(Loggers)]
    /\ sMutex \in Threads \cup {NoThread}
    /\ mutex \in [Loggers -> Threads \cup {NoThread}]
    /\ phase \in [Threads -> Phases]
    /\ list \in [Threads -> Seq(Loggers)]
    /\ todo \in [Threads -> Seq(Loggers)]
    /\ sent \in [Threads -> 0 .. MaxMessages]
    /\ out \in [Loggers -> Seq([thread : Threads, number : 0 .. MaxMessages,
                                part : {"head", "text", "newline", "shown"}])]

\* The lines of a log are whole: what a thread writes to a logger, from the
\* head of a line to its end, is not mixed with the line of another thread.
LinesWhole ==
    \A l \in Loggers : \A i \in DOMAIN out[l] :
        LET place == ((i - 1) % Len(Line(l))) + 1
        IN  /\ out[l][i].part = Line(l)[place]
            /\ place > 1 => [out[l][i] EXCEPT !.part = out[l][i - 1].part] = out[l][i - 1]

\* Two loggers that get the same statements get them in the same order, once
\* each, however the threads that write them overlap.
Texts(l) == {i \in DOMAIN out[l] : out[l][i].part = "text"}

SameOrder ==
    \A l, m \in Loggers : \A i, j \in Texts(l), a, b \in Texts(m) :
        i < j /\ out[l][i] = out[m][a] /\ out[l][j] = out[m][b] => a < b

\* No thread waits for ever for a mutex: a statement that has begun ends.
StatementsEnd == \A t \in Threads : phase[t] # "idle" ~> phase[t] = "idle"
=============================================================================
