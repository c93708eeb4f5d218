------------------------------- MODULE Logger -------------------------------
(***************************************************************************)
(* log_message of logger.c, one mutex per process, called by the threads   *)
(* of the process and by signal_handler of daemon.c, which runs on top of  *)
(* whatever its thread was doing.                                          *)
(*                                                                         *)
(* A thread's frames are its open log calls, the innermost one last: one   *)
(* of its own code and one for each signal it is handling.  A frame of its *)
(* own code is there only while it logs.                                   *)
(***************************************************************************)
EXTENDS Naturals, Sequences

CONSTANTS
  Process,   \* programs started with -d
  Thread,    \* threads of a process that log
  Main,      \* the main thread
  NoThread,
  MaxFrames, \* bound on the log calls a thread is in at once
  Sent,      \* bound on the signals that a process is sent
  Level      \* the levels that a process may be configured with

\* SIGINT is handled as TERM.  SIGPIPE comes out of a send, so never within a log
\* call: the message of its handler is one more call.
Signal   == {"TERM", "HUP"}
LogLevel == {"INFO", "ERROR"}

ASSUME LoggerAssumption ==
  /\ Main \in Thread /\ NoThread \notin Thread
  /\ MaxFrames \in [Thread -> Nat] /\ Sent \in [Process -> SUBSET Signal]
  /\ Level \in [Process -> SUBSET LogLevel]

VARIABLES
  current_level,  \* server_logger.current_level
  holder,         \* the thread that owns log_mutex
  frames,         \* the log calls of each thread
  handled         \* signals whose flag is set: keep_running = 0, reload_config

logVars == <<current_level, holder, frames, handled>>

LogInit ==
  /\ current_level = [p \in Process |-> "INFO"]
  /\ holder  = [p \in Process |-> NoThread]
  /\ frames  = [p \in Process |-> [t \in Thread |-> <<>>]]
  /\ handled = [p \in Process |-> {}]

Idle(p, t)    == frames[p][t] = <<>>
Top(p, t)     == frames[p][t][Len(frames[p][t])]
AtStage(p, t, stage) == ~Idle(p, t) /\ Top(p, t).stage = stage

SetFrames(p, t, stack) == frames' = [frames EXCEPT ![p][t] = stack]
Push(p, t, frame) == SetFrames(p, t, Append(frames[p][t], frame))
Pop(p, t)         == SetFrames(p, t, SubSeq(frames[p][t], 1, Len(frames[p][t]) - 1))
Advance(p, t, stage) ==
  SetFrames(p, t, [frames[p][t] EXCEPT ![Len(frames[p][t])].stage = stage])

\* An INFO message passes the filter of log_message.
Logs(p) == current_level[p] = "INFO"

\* A call of log_message from the code of the thread.
Call(p, t) ==
  /\ Idle(p, t)
  /\ Push(p, t, [code |-> "call", stage |-> "lock"])
  /\ UNCHANGED <<current_level, holder, handled>>

\* signal_handler interrupts a thread that is not handling this signal already.
\* Its message is an INFO one; without it the flag is set at once.
Deliver(p, t, s) ==
  /\ s \in Sent[p] /\ Len(frames[p][t]) < MaxFrames[t]
  /\ \A i \in DOMAIN frames[p][t] : frames[p][t][i].code # s
  /\ IF Logs(p)
     THEN Push(p, t, [code |-> s, stage |-> "lock"]) /\ UNCHANGED handled
     ELSE handled' = [handled EXCEPT ![p] = @ \cup {s}] /\ UNCHANGED frames
  /\ UNCHANGED <<current_level, holder>>

\* Mutant: the mutex is not waited for (a trylock whose result is ignored).
LockAnyway(p, t) ==
  /\ AtStage(p, t, "lock")
  /\ holder' = [holder EXCEPT ![p] = t]
  /\ Advance(p, t, "write")
  /\ UNCHANGED <<current_level, handled>>

Lock(p, t) ==
  /\ AtStage(p, t, "lock")
  /\ holder[p] = NoThread
  /\ holder' = [holder EXCEPT ![p] = t]
  /\ Advance(p, t, "write")
  /\ UNCHANGED <<current_level, handled>>

\* The end of a log call: back to the code, or on in signal_handler, which sets
\* keep_running = 0 or reload_config = 1 and returns.
Leave(p, t) ==
  /\ handled' = [handled EXCEPT ![p] = @ \cup ({Top(p, t).code} \cap Signal)]
  /\ Pop(p, t)

\* Mutant: an error while writing is logged too.
WriteAndLog(p, t) ==
  /\ AtStage(p, t, "write")
  /\ Advance(p, t, "lock")
  /\ UNCHANGED <<current_level, holder, handled>>

Write(p, t) ==
  /\ AtStage(p, t, "write")
  /\ Leave(p, t)
  /\ holder' = [holder EXCEPT ![p] = NoThread]
  /\ UNCHANGED current_level

LogStep(p, t) == Lock(p, t) \/ Write(p, t)

\* A process starts with a logger of its own and no signals.
Fresh(p, level) ==
  /\ current_level' = [current_level EXCEPT ![p] = level]
  /\ holder'  = [holder EXCEPT ![p] = NoThread]
  /\ frames'  = [frames EXCEPT ![p] = [t \in Thread |-> <<>>]]
  /\ handled' = [handled EXCEPT ![p] = {}]

-----------------------------------------------------------------------------
Stage == {"lock", "write"}
Frame == [code : Signal \cup {"call"}, stage : Stage]

Holding(p, t) == \E i \in DOMAIN frames[p][t] : frames[p][t][i].stage = "write"

\* A thread waits for the mutex that it owns itself: for ever.
Deadlocked(p) ==
  \E t \in Thread : holder[p] = t /\ AtStage(p, t, "lock")

\* Lines are written one at a time: whoever is between lock and unlock owns the
\* mutex, in one call only.
LinesWhole ==
  \A p \in Process, t \in Thread :
    /\ Holding(p, t) <=> holder[p] = t
    /\ \A i, j \in DOMAIN frames[p][t] :
         frames[p][t][i].stage = "write" /\ frames[p][t][j].stage = "write" => i = j

\* A thread waits for itself only where a signal that logs interrupted its own
\* log call or another signal's: log calls alone never do it, and with a level
\* above INFO no signal does.
OnlySignalsDeadlock ==
  \A p \in Process : Deadlocked(p) =>
    /\ Logs(p)
    /\ \E t \in Thread : holder[p] = t /\ Top(p, t).code \in Signal
                                       /\ Len(frames[p][t]) > 1
=============================================================================
