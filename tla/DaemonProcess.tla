---------------------------- MODULE DaemonProcess ---------------------------
(***************************************************************************)
(* imageserver -d from main.c and daemon.c: the PID file, daemonize, the   *)
(* run with its signals and its log, cleanup_daemon.  Programs are started *)
(* and killed at any moment, and started again; other programs of the      *)
(* machine take free PIDs.                                                 *)
(*                                                                         *)
(* The main loop of ServerLifecycle is one stage here, "run", which holds  *)
(* the port, and the cleanup_server after it another, "stop".  Handler     *)
(* threads are not joined: they log, and get signals, until the exit.      *)
(***************************************************************************)
EXTENDS Logger, FiniteSets

CONSTANTS
  Pid, NoPid,
  NoFile,  \* no file is called PID_FILE
  Empty    \* the file has no number in it

ASSUME DaemonAssumption ==
  /\ {NoPid, NoFile, Empty} \cap Pid = {}
  /\ NoPid \notin {NoFile, Empty} /\ NoFile # Empty

VARIABLES
  at,         \* where the main thread of each process is
  pid,        \* PID of the daemon that it forks
  foreign,    \* PIDs of other programs
  pid_file,   \* what is in the file called PID_FILE
  writers,    \* the processes that have this file open in create_pid_file
  overlapped, \* history: a start began during another one
  killed      \* history: a process was killed

fileVars   == <<pid_file, writers>>
machine    == <<pid, foreign, fileVars, overlapped, killed>>
daemonVars == <<at, machine>>
vars       == <<logVars, daemonVars>>

Starting == {"check", "stale", "fork", "create", "write"}
Serving  == {"server", "run", "stop", "leave"}
Ending   == {"removed", "close"}
Down     == {"down", "refused"}

Init ==
  /\ LogInit
  /\ at         = [p \in Process |-> "down"]
  /\ pid        = [p \in Process |-> NoPid]
  /\ foreign    = {}
  /\ pid_file   = NoFile
  /\ writers    = {}
  /\ overlapped = FALSE
  /\ killed     = FALSE

Up(p) == at[p] \notin Down
Live  == foreign \cup {pid[p] : p \in Process}

\* The next step of the main thread, which is not in a log call.
Step(p, from, to) ==
  /\ at[p] = from
  /\ Idle(p, Main)
  /\ at' = [at EXCEPT ![p] = to]

\* The same, ending with an INFO message.
LogAfter(p) ==
  IF Logs(p) THEN Call(p, Main) ELSE UNCHANGED logVars

\* A process that ends gives up its PID and its files; its threads are gone.
Ends(p) ==
  /\ Fresh(p, "INFO")
  /\ pid' = [pid EXCEPT ![p] = NoPid]
  /\ writers' = writers \ {p}

-----------------------------------------------------------------------------
(* daemonize. *)

Start(p) ==
  /\ at[p] \in Down
  /\ at' = [at EXCEPT ![p] = "check"]
  /\ overlapped' = \/ \E q \in Process : at[q] \in Starting
                   \/ overlapped /\ \E q \in Process : Up(q)
  /\ \E l \in Level[p] : Fresh(p, l)
  /\ UNCHANGED <<pid, foreign, fileVars, killed>>

\* check_if_running finds no file, or no number in it.
CheckFree(p) ==
  /\ Step(p, "check", "fork")
  /\ pid_file \in {NoFile, Empty}
  /\ UNCHANGED <<logVars, machine>>

\* Mutant: a refused start cleans up as the end of a daemon does.
RefusedAndCleaned(p) ==
  /\ Step(p, "check", "refused")
  /\ pid_file \in Live
  /\ pid_file' = NoFile
  /\ Ends(p)
  /\ UNCHANGED <<foreign, overlapped, killed>>

\* It finds the PID of a live process, whichever that is.
CheckRefused(p) ==
  /\ Step(p, "check", "refused")
  /\ pid_file \in Live
  /\ Ends(p)
  /\ UNCHANGED <<foreign, pid_file, overlapped, killed>>

\* Mutant: the process is not looked for.
StaleRefused(p) ==
  /\ Step(p, "check", "refused")
  /\ pid_file \in Pid \ Live
  /\ Ends(p)
  /\ UNCHANGED <<foreign, pid_file, overlapped, killed>>

\* It finds the PID of a dead one ...
CheckStale(p) ==
  /\ Step(p, "check", "stale")
  /\ pid_file \in Pid \ Live
  /\ UNCHANGED <<logVars, machine>>

\* ... and removes the file, whatever is in it by now.
RemoveStale(p) ==
  /\ Step(p, "stale", "fork")
  /\ pid_file' = NoFile /\ writers' = {}
  /\ UNCHANGED <<logVars, pid, foreign, overlapped, killed>>

\* Both forks and setsid succeed: the daemon has a PID of its own.
Fork(p) ==
  /\ Step(p, "fork", "create")
  /\ \E n \in Pid \ Live : pid' = [pid EXCEPT ![p] = n]
  /\ UNCHANGED <<logVars, foreign, fileVars, overlapped, killed>>

\* A fork, setsid or chdir fails, or the PID file cannot be opened.
DaemonizeFails(p) ==
  /\ Step(p, "fork", "down") \/ Step(p, "create", "down")
  /\ Ends(p)
  /\ UNCHANGED <<foreign, pid_file, overlapped, killed>>

\* create_pid_file, fopen: the file is emptied, or created.
CreatePidFile(p) ==
  /\ Step(p, "create", "write")
  /\ pid_file' = Empty /\ writers' = writers \cup {p}
  /\ UNCHANGED <<logVars, pid, foreign, overlapped, killed>>

\* Mutant: what is written is the child's fork result, 0.
WriteForkResult(p) ==
  /\ Step(p, "write", "server")
  /\ pid_file' = IF p \in writers THEN NoPid ELSE pid_file
  /\ writers' = writers \ {p}
  /\ LogAfter(p)
  /\ UNCHANGED <<pid, foreign, overlapped, killed>>

\* create_pid_file, fclose: the number is written, in vain if the file has been
\* removed meanwhile.
WritePid(p) ==
  /\ Step(p, "write", "server")
  /\ pid_file' = IF p \in writers THEN pid[p] ELSE pid_file
  /\ writers' = writers \ {p}
  /\ LogAfter(p)
  /\ UNCHANGED <<pid, foreign, overlapped, killed>>

-----------------------------------------------------------------------------
(* The run and cleanup_daemon. *)

StartServer(p) ==
  /\ Step(p, "server", "run")
  /\ \A q \in Process : at[q] # "run"
  /\ LogAfter(p)
  /\ UNCHANGED machine

\* The port is taken, or anything else.
ServerFails(p) ==
  /\ Step(p, "server", "stop") \/ Step(p, "server", "leave")
  /\ LogAfter(p)
  /\ UNCHANGED machine

\* The loop of daemon_main_loop ends when keep_running is 0.
LeaveLoop(p) ==
  /\ Step(p, "run", "stop")
  /\ "TERM" \in handled[p]
  /\ LogAfter(p)
  /\ UNCHANGED machine

\* cleanup_server joins the threads and destroys what they shared.
CleanupServer(p) ==
  /\ Step(p, "stop", "leave")
  /\ LogAfter(p)
  /\ UNCHANGED machine

\* The main loop serves a HUP: reload_config = 0.
Reload(p) ==
  /\ at[p] = "run" /\ Idle(p, Main)
  /\ "HUP" \in handled[p] /\ "TERM" \notin handled[p]
  /\ handled' = [handled EXCEPT ![p] = @ \ {"HUP"}]
  /\ UNCHANGED <<current_level, holder, frames, daemonVars>>

\* The new configuration does not load, or its port is taken: break.
ReloadFails(p) ==
  /\ Step(p, "run", "stop")
  /\ "HUP" \in handled[p] /\ "TERM" \notin handled[p]
  /\ LogAfter(p)
  /\ UNCHANGED machine

\* Mutant: nothing is removed.
KeepPidFile(p) ==
  /\ Step(p, "leave", "removed")
  /\ LogAfter(p)
  /\ UNCHANGED machine

\* remove_pid_file removes the file of that name, whoever's it is.
RemovePidFile(p) ==
  /\ Step(p, "leave", "removed")
  /\ pid_file' = NoFile /\ writers' = {}
  /\ LogAfter(p)
  /\ UNCHANGED <<pid, foreign, overlapped, killed>>

\* close_logger logs ...
SayGoodbye(p) ==
  /\ Step(p, "removed", "close")
  /\ LogAfter(p)
  /\ UNCHANGED machine

\* ... closes the file and destroys the mutex, and main returns: the other
\* threads end with it.
Exit(p) ==
  /\ Step(p, "close", "down")
  /\ Ends(p)
  /\ UNCHANGED <<foreign, pid_file, overlapped, killed>>

\* SIGKILL at any moment, as systemd sends it TimeoutStopSec after a TERM; or a
\* TERM or HUP before setup_signal_handlers.
Kill(p) ==
  /\ Up(p)
  /\ at' = [at EXCEPT ![p] = "down"]
  /\ killed' = TRUE
  /\ Ends(p)
  /\ UNCHANGED <<foreign, pid_file, overlapped>>

-----------------------------------------------------------------------------
\* The main thread logs in its loop and in cleanup_server, the others as long as
\* the process lives; signals arrive once there are handlers for them.
LogActivity(p) ==
  /\ UNCHANGED daemonVars
  /\ at[p] \in Serving \cup Ending
  /\ \E t \in Thread :
       /\ t # Main => at[p] # "server"
       /\ \/ (t = Main => at[p] \in {"run", "stop"}) /\ Call(p, t)
          \/ \E s \in Signal : Deliver(p, t, s)

LogGoesOn(p, t) == LogStep(p, t) /\ UNCHANGED daemonVars

\* Other programs of the machine.
ForeignChange ==
  /\ \E n \in Pid : \/ n \notin Live /\ foreign' = foreign \cup {n}
                    \/ foreign' = foreign \ {n} /\ n \in foreign
  /\ UNCHANGED <<logVars, at, pid, fileVars, overlapped, killed>>

MainStep(p) ==
  \/ CheckFree(p) \/ CheckRefused(p) \/ CheckStale(p) \/ RemoveStale(p)
  \/ Fork(p) \/ DaemonizeFails(p) \/ CreatePidFile(p) \/ WritePid(p)
  \/ StartServer(p) \/ ServerFails(p)
  \/ Reload(p) \/ ReloadFails(p) \/ LeaveLoop(p) \/ CleanupServer(p)
  \/ RemovePidFile(p) \/ SayGoodbye(p) \/ Exit(p)

Next ==
  \/ \E p \in Process :
       \/ Start(p) \/ MainStep(p) \/ Kill(p) \/ LogActivity(p)
       \/ \E t \in Thread : LogGoesOn(p, t)
  \/ ForeignChange

Spec == Init /\ [][Next]_vars

-----------------------------------------------------------------------------
\* The type of every variable.
TypeOK ==
  /\ current_level \in [Process -> LogLevel]
  /\ holder \in [Process -> Thread \cup {NoThread}]
  /\ frames \in [Process -> [Thread -> Seq(Frame)]]
  /\ handled \in [Process -> SUBSET Signal]
  /\ at \in [Process -> Starting \cup Serving \cup Ending \cup Down]
  /\ pid \in [Process -> Pid \cup {NoPid}]
  /\ foreign \subseteq Pid
  /\ pid_file \in Pid \cup {NoFile, Empty}
  /\ writers \subseteq Process
  /\ overlapped \in BOOLEAN /\ killed \in BOOLEAN

\* A daemon that is not leaving can be found through the PID file, and is the
\* only one, unless two starts overlapped while one of today's processes was up.
FoundByPidFile ==
  ~overlapped =>
    /\ \A p \in Process : at[p] \in Serving =>
         pid_file = pid[p]
    /\ \A p, q \in Process :
         at[p] \in Serving /\ at[q] \in Serving => p = q

\* A start is refused only if a daemon is up, or if another program has been
\* given the PID of one that was killed: what a crash leaves behind does not
\* stand in the way.
RefusedForCause ==
  [][\A p \in Process :
       at[p] = "check" /\ at'[p] = "refused" =>
         \/ \E q \in Process \ {p} : Up(q)
         \/ killed /\ pid_file \in foreign]_vars

\* Nobody leaves a PID file behind without being killed, not even daemons that
\* started together and removed each other's.
NoFileLeft ==
  (\A p \in Process : ~Up(p)) /\ ~killed => pid_file = NoFile
=============================================================================
