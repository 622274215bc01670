------------------------------- MODULE Logger -------------------------------
(***************************************************************************)
(* log::Logger (src/log/log.cpp): threads put lines into m_buffer without  *)
(* waiting; one thread takes them out and writes them to a file, which it  *)
(* changes every splitLines lines and at midnight.  The process may end    *)
(* at any time and start again: files stay, what is in memory does not.    *)
(*                                                                         *)
(* m_buffer is FifoChannel's queue: a non-blocking write takes the line or *)
(* drops it, a read fails on a closed channel, whatever it still holds.    *)
(* The date is the number of a day, tm_mday its remainder by MonthDays.    *)
(***************************************************************************)
EXTENDS Integers, Sequences, FiniteSets, SequencesExt

CONSTANTS
    m_splitLines, bufferSize,   \* the arguments of Init
    MonthDays,
    MaxDay, MaxLines, MaxRuns   \* bounds: days, lines logged, starts of the process

VARIABLES
    day,            \* today
    run,            \* how often the process was started
    logged,         \* the last line that a thread logged
    accepted,       \* history: the lines that m_buffer took in this run
    m_buffer, bufferClosed,
    item,           \* the line the writer has taken, or <<>>
    seen,           \* the day that the writer saw last
    m_cnt, m_today,
    m_file,         \* what is open: <<day, number>>, or <<>>
    written,        \* all that fputs wrote: run, file, line, and the day seen
    writer,         \* "none", "read", "preprocess", "put" or "exit"
    ending          \* ~Logger: "no", "wait" or "done"

loggerVars == <<day, run, logged, accepted, m_buffer, bufferClosed, item, seen,
                m_cnt, m_today, m_file, written, writer, ending>>

tm_mday(d) == d % MonthDays

Init ==
    /\ day = 0 /\ run = 0 /\ logged = 0
    /\ accepted = <<>> /\ m_buffer = <<>> /\ bufferClosed = TRUE
    /\ item = <<>> /\ seen = 0
    /\ m_cnt = 0 /\ m_today = 0
    /\ m_file = <<>> /\ written = <<>>
    /\ writer = "none" /\ ending = "no"

-----------------------------------------------------------------------------
Midnight ==
    /\ day < MaxDay
    /\ day' = day + 1
    /\ UNCHANGED <<run, logged, accepted, m_buffer, bufferClosed, item, seen, m_cnt,
                   m_today, m_file, written, writer, ending>>

(* A new process, and Logger::Init, which appends to the file of the day.  *)
LoggerInit ==
    /\ writer = "none" /\ run < MaxRuns
    /\ run' = run + 1
    /\ accepted' = <<>> /\ m_buffer' = <<>> /\ bufferClosed' = FALSE
    /\ m_cnt' = 0
    /\ m_today' = tm_mday(day)
    /\ m_file' = <<day, 0>>
    /\ writer' = "read" /\ ending' = "no"
    /\ UNCHANGED <<day, logged, item, seen, written>>

(* The process ends without the destructor, or after it.                   *)
Crash ==
    /\ writer # "none"
    /\ writer' = "none"
    /\ item' = <<>> /\ m_file' = <<>> /\ bufferClosed' = TRUE
    /\ UNCHANGED <<day, run, logged, accepted, m_buffer, seen, m_cnt, m_today,
                   written, ending>>

Fits == Len(m_buffer) < bufferSize /\ ~bufferClosed

(* log(), by any thread: a full or closed m_buffer drops the line.         *)
Log ==
    /\ writer # "none" /\ logged < MaxLines
    /\ logged' = logged + 1
    /\ IF Fits
       THEN /\ m_buffer' = Append(m_buffer, logged')
            /\ accepted' = Append(accepted, logged')
       ELSE UNCHANGED <<m_buffer, accepted>>
    /\ UNCHANGED <<day, run, bufferClosed, item, seen, m_cnt, m_today, m_file,
                   written, writer, ending>>

-----------------------------------------------------------------------------
(* asyncWriteLog().                                                        *)

\* Mutant of Rest: the line that was read stays in the buffer.
RestWithHead == m_buffer

Rest == Tail(m_buffer)

Read ==
    /\ writer = "read"
    /\ \/ /\ bufferClosed
          /\ writer' = "exit"
          /\ UNCHANGED <<m_buffer, item>>
       \/ /\ ~bufferClosed /\ m_buffer # <<>>
          /\ item' = <<Head(m_buffer)>>
          /\ m_buffer' = Rest
          /\ writer' = "preprocess"
    /\ UNCHANGED <<day, run, logged, accepted, bufferClosed, seen, m_cnt, m_today,
                   m_file, written, ending>>

NewDay == m_today # tm_mday(day)

\* Mutant of Full: a new file one line late.
FullLate == m_cnt % m_splitLines = 1 /\ m_cnt > 1

Full == m_cnt % m_splitLines = 0

(* m_cnt in a new file.                                                    *)
CountAfter == IF NewDay THEN 0 ELSE m_cnt

\* Mutant of FileAfter: a new file has the date of the one before.
FileOfOldDay == <<m_file[1], m_cnt \div m_splitLines>>

FileAfter == IF NewDay THEN <<day, 0>> ELSE <<day, m_cnt \div m_splitLines>>

(* asyncWriteLogPreprocess(), with one look at the clock.                  *)
Preprocess ==
    /\ writer = "preprocess"
    /\ writer' = "put"
    /\ seen' = day
    /\ IF m_cnt # 0 /\ (NewDay \/ Full)
       THEN m_file' = FileAfter /\ m_today' = tm_mday(day) /\ m_cnt' = CountAfter
       ELSE UNCHANGED <<m_file, m_today, m_cnt>>
    /\ UNCHANGED <<day, run, logged, accepted, m_buffer, bufferClosed, item, written,
                   ending>>

(* fputs and fflush.                                                       *)
Put ==
    /\ writer = "put"
    /\ written' = Append(written, [run |-> run, file |-> m_file, line |-> item[1],
                                   day |-> seen])
    /\ item' = <<>>
    /\ m_cnt' = m_cnt + 1
    /\ writer' = "read"
    /\ UNCHANGED <<day, run, logged, accepted, m_buffer, bufferClosed, seen, m_today,
                   m_file, ending>>

-----------------------------------------------------------------------------
Destroy ==
    /\ ending = "no" /\ writer # "none"
    /\ bufferClosed' = TRUE
    /\ ending' = "wait"
    /\ UNCHANGED <<day, run, logged, accepted, m_buffer, item, seen, m_cnt, m_today,
                   m_file, written, writer>>

(* m_sem.wait(): the writer's Defer has notified.                          *)
WriterLeft == writer = "exit"

CloseFile ==
    /\ ending = "wait" /\ WriterLeft
    /\ ending' = "done"
    /\ m_file' = <<>>
    /\ UNCHANGED <<day, run, logged, accepted, m_buffer, bufferClosed, item, seen,
                   m_cnt, m_today, written, writer>>

-----------------------------------------------------------------------------
Next ==
    \/ Midnight \/ LoggerInit \/ Crash \/ Log
    \/ Read \/ Preprocess \/ Put
    \/ Destroy \/ CloseFile

Spec == Init /\ [][Next]_loggerVars

-----------------------------------------------------------------------------
(* The lines that were written after the first b.                          *)
LinesAfter(b) == [i \in 1..Len(written) - b |-> written[b + i].line]

(* The lines of a run come into its files in the order in which they were  *)
(* taken, each once; as long as the logger is not destroyed none of them   *)
(* is missing between two that are there.                                  *)
InOrder ==
    \E b \in 0..Len(written) :
        /\ \A i \in DOMAIN written : written[i].run = run <=> i > b
        /\ IF writer = "none" \/ bufferClosed
           THEN IsPrefix(LinesAfter(b), accepted)
           ELSE LinesAfter(b) \o item \o m_buffer = accepted

(* A run puts at most splitLines lines into a file, over midnight and back *)
(* to the files of an earlier run.                                         *)
Beside(i, j) == written[j].run = written[i].run /\ written[j].file = written[i].file

SplitsInTime ==
    \A i \in DOMAIN written :
        Cardinality({j \in DOMAIN written : Beside(i, j)}) <= m_splitLines

(* A line is in a file of the day on which it was written, the first line  *)
(* of a run aside, which stays in the file that Init has opened; but two   *)
(* days of the same number in their months are the same day.               *)
FileOfItsDay ==
    \A i \in DOMAIN written :
        \/ tm_mday(written[i].file[1]) = tm_mday(written[i].day)
        \/ \A j \in 1..i - 1 : written[j].run # written[i].run
=============================================================================
