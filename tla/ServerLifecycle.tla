--------------------------- MODULE ServerLifecycle --------------------------
(***************************************************************************)
(* How the server is started, reloaded and stopped: daemon_main_loop and   *)
(* test_mode_with_server of src/main.c, init_server, start_server,         *)
(* stop_server and cleanup_server of src/server.c, start and stop of the   *)
(* processor and init and destroy of the queue of src/priority_queue.c,    *)
(* and the flags that the signal handler of src/daemon.c sets.             *)
(*                                                                         *)
(* The main thread is sequential: the stage it is at is main, and for a    *)
(* function that is called from several places, after is the stage it      *)
(* returns to.  It shares status with the server thread, processor_running *)
(* and the queue with the processor, and two flags with the signals.       *)
(***************************************************************************)
EXTENDS Integers

CONSTANTS
  Valid,      \* configurations that validate_config accepts
  Invalid,    \* configurations that it refuses
  Default,    \* the one of set_default_config
  Missing     \* no configuration file that can be opened

Config == Valid \cup Invalid

ASSUME LifecycleAssumption ==
  /\ Default \in Valid
  /\ Valid \cap Invalid = {}
  /\ Missing \notin Config

VARIABLES
  mode,              \* "daemon" or "test", from the command line
  main,              \* where the main thread is
  after,             \* where it goes on when the called function returns
  caller,            \* why it starts or cleans up: startup, reload, shutdown
  status,            \* main_server.status
  server_socket,     \* main_server.server_socket and what it is good for
  boundTo,           \* the configuration whose port it is bound to
  clients_mutex,     \* main_server.clients_mutex: none, live, destroyed
  server,            \* the server thread
  processor_running, \* the flag of priority_queue.c
  processor,         \* the processor thread
  queue,             \* processing_queue: none, active, inactive, destroyed
  wrefs,             \* waiters that queue_not_empty counts
  server_config,     \* the configuration in memory
  file,              \* the configuration on disk
  keep_running, reload_config

configVars == <<server_config, file>>
flagVars   == <<keep_running, reload_config>>
stageVars  == <<main, after, caller>>
socketVars == <<server_socket, boundTo>>
queueVars  == <<queue, wrefs>>
procVars   == <<processor_running, processor>>
netVars    == <<status, socketVars, clients_mutex, server>>
vars == <<mode, stageVars, netVars, procVars, queueVars, configVars, flagVars>>

Init ==
  /\ mode \in {"daemon", "test"}
  /\ main = "boot" /\ after = "boot" /\ caller = "startup"
  /\ status = "STOPPED" /\ server_socket = "none" /\ boundTo = Missing
  /\ clients_mutex = "none" /\ server = "none"
  /\ processor_running = FALSE /\ processor = "none"
  /\ queue = "none" /\ wrefs = 0
  /\ server_config = Missing /\ file \in Config \cup {Missing}
  /\ keep_running = TRUE /\ reload_config = FALSE

\* The server thread and the processor are alive from their creation until
\* their function returns.
ServerAlive    == server \in {"testing", "accepting"}
ProcessorAlive == processor \in {"testing", "waiting"}

-----------------------------------------------------------------------------
(* Start.                                                                  *)

\* Mutant: the defaults are not set.
LoadedConfigOnly == file

\* load_config sets the defaults before it looks for the file.
LoadedConfig == IF file = Missing THEN Default ELSE file

GoTo(stage) == main' = stage /\ UNCHANGED <<after, caller>>

\* A call of cleanup_server, whose first call is stop_server.
CallCleanup(why) ==
  main' = "stop" /\ after' = "stopProcessor" /\ caller' = why

\* main: at the start a missing file is no error, an invalid one is.  The
\* logger, daemonize and create_directories may fail as well.
Boot ==
  /\ main = "boot"
  /\ server_config' = LoadedConfig
  /\ \/ LoadedConfig \in Valid /\ GoTo("init")
     \/ GoTo("done")
  /\ UNCHANGED <<mode, netVars, procVars, queueVars, file, flagVars>>

\* init_server, as far as its first init_priority_queue: both overwrite what
\* is there, used or not, and the new condition variable counts no waiters.
InitServer ==
  /\ main = "init"
  /\ status' = "STOPPED"
  /\ server_socket' = "none"
  /\ clients_mutex' = "live"
  /\ queue' = "active"
  /\ wrefs' = 0
  /\ GoTo("bind")
  /\ UNCHANGED <<mode, boundTo, server, procVars, configVars, flagVars>>

\* socket or bind fails, and init_server destroys what it has initialised.
BindFails ==
  /\ main = "bind"
  /\ server_socket' = "closed"
  /\ main' = "deactivate" /\ after' = "unbound"
  /\ UNCHANGED <<mode, caller, status, boundTo, clients_mutex, server,
                 procVars, queueVars, configVars, flagVars>>

\* The socket is bound and the queue initialised once more.
BindSucceeds ==
  /\ main = "bind"
  /\ server_socket' = "bound"
  /\ boundTo' = server_config
  /\ queue' = "active"
  /\ wrefs' = 0
  /\ GoTo("process")
  /\ UNCHANGED <<mode, status, clients_mutex, server, procVars, configVars,
                 flagVars>>

\* Mutant: start_file_processor does not look whether there is one already.
StartProcessorAgain ==
  /\ main = "process"
  /\ processor_running' = TRUE
  /\ processor' = "testing"
  /\ GoTo("listen")
  /\ UNCHANGED <<mode, netVars, queueVars, configVars, flagVars>>

\* start_file_processor does nothing if the processor runs.
StartProcessor ==
  /\ main = "process"
  /\ processor_running' = TRUE
  /\ processor' = IF processor_running THEN processor ELSE "testing"
  /\ GoTo("listen")
  /\ UNCHANGED <<mode, netVars, queueVars, configVars, flagVars>>

ProcessorFails ==
  /\ main = "process"
  /\ ~processor_running
  /\ server_socket' = "closed"
  /\ main' = "deactivate" /\ after' = "initFailed"
  /\ UNCHANGED <<mode, caller, status, boundTo, clients_mutex, server,
                 procVars, queueVars, configVars, flagVars>>

\* init_server returns 0.  At the start the program ends, on a reload the loop
\* is left and cleanup_server called.
InitFails ==
  /\ main \in {"unbound", "initFailed"}
  /\ clients_mutex' = IF main = "unbound" THEN "destroyed" ELSE clients_mutex
  /\ IF caller = "startup" THEN GoTo("done") ELSE CallCleanup("shutdown")
  /\ UNCHANGED <<mode, status, socketVars, server, procVars, queueVars,
                 configVars, flagVars>>

\* start_server, as far as pthread_create (its start_file_processor does
\* nothing, as init_server has started the processor).
Listen ==
  /\ main = "listen"
  /\ status' = "STARTING"
  /\ server_socket' = "listening"
  /\ GoTo("spawn")
  /\ UNCHANGED <<mode, boundTo, clients_mutex, server, procVars, queueVars,
                 configVars, flagVars>>

\* Mutant: a start that fails ends the program at once.
StartFailsAndEnds ==
  /\ main \in {"listen", "spawn"}
  /\ status' = "STOPPED"
  /\ GoTo("done")
  /\ UNCHANGED <<mode, socketVars, clients_mutex, server, procVars, queueVars,
                 configVars, flagVars>>

\* listen or pthread_create fails: cleanup_server is called at the start and,
\* after the loop, on a reload.
StartFails ==
  /\ main \in {"listen", "spawn"}
  /\ status' = "STOPPED"
  /\ CallCleanup("shutdown")
  /\ UNCHANGED <<mode, socketVars, clients_mutex, server, procVars, queueVars,
                 configVars, flagVars>>

CreateThread ==
  /\ main = "spawn"
  /\ server' = "testing"
  /\ GoTo("announce")
  /\ UNCHANGED <<mode, status, socketVars, clients_mutex, procVars, queueVars,
                 configVars, flagVars>>

\* The status becomes RUNNING when the thread may have looked at it already.
Announce ==
  /\ main = "announce"
  /\ status' = "RUNNING"
  /\ GoTo(IF caller = "reload" THEN "reloaded" ELSE "loop")
  /\ UNCHANGED <<mode, socketVars, clients_mutex, server, procVars, queueVars,
                 configVars, flagVars>>

-----------------------------------------------------------------------------
(* The loop of the main thread.                                            *)

\* Mutant: the configuration is loaded while the server runs.
LoopTestNoStop ==
  /\ main = "loop"
  /\ \/ ~keep_running /\ CallCleanup("shutdown")
     \/ /\ keep_running /\ reload_config /\ mode = "daemon"
        /\ main' = "load" /\ after' = "load" /\ caller' = "reload"
     \/ /\ keep_running /\ ~(reload_config /\ mode = "daemon")
        /\ GoTo("monitor")
  /\ UNCHANGED <<mode, netVars, procVars, queueVars, configVars, flagVars>>

\* while (keep_running); only the daemon looks at reload_config.
LoopTest ==
  /\ main = "loop"
  /\ \/ ~keep_running /\ CallCleanup("shutdown")
     \/ /\ keep_running /\ reload_config /\ mode = "daemon"
        /\ main' = "stop" /\ after' = "load" /\ caller' = "reload"
     \/ /\ keep_running /\ ~(reload_config /\ mode = "daemon")
        /\ GoTo("monitor")
  /\ UNCHANGED <<mode, netVars, procVars, queueVars, configVars, flagVars>>

\* A file that cannot be opened leaves the server stopped; an invalid one
\* starts it again without cleanup_server, and stays in server_config.
LoadConfig ==
  /\ main = "load"
  /\ server_config' = LoadedConfig
  /\ \/ file = Missing /\ GoTo("reloaded")
     \/ file \in Valid /\ CallCleanup("reload")
     \/ file \in Invalid /\ GoTo("init")
  /\ UNCHANGED <<mode, netVars, procVars, queueVars, file, flagVars>>

\* reload_config = 0, the request of a signal that has come meanwhile included.
Reloaded ==
  /\ main = "reloaded"
  /\ reload_config' = FALSE
  /\ GoTo("monitor")
  /\ UNCHANGED <<mode, netVars, procVars, queueVars, configVars, keep_running>>

\* Mutant: the request is cleared at the end of the loop, served or not.
MonitorAndClear ==
  /\ main = "monitor"
  /\ IF status = "RUNNING" THEN GoTo("sleep") ELSE CallCleanup("shutdown")
  /\ reload_config' = FALSE
  /\ UNCHANGED <<mode, netVars, procVars, queueVars, configVars, keep_running>>

\* is_server_running.
Monitor ==
  /\ main = "monitor"
  /\ IF status = "RUNNING" THEN GoTo("sleep") ELSE CallCleanup("shutdown")
  /\ UNCHANGED <<mode, netVars, procVars, queueVars, configVars, flagVars>>

Wake ==
  /\ main = "sleep"
  /\ GoTo("loop")
  /\ UNCHANGED <<mode, netVars, procVars, queueVars, configVars, flagVars>>

-----------------------------------------------------------------------------
(* Stop.                                                                   *)

\* stop_server, unless the server does not run.
StopServer ==
  /\ main = "stop"
  /\ IF status = "RUNNING"
     THEN /\ status' = "STOPPING" /\ server_socket' = "closed"
          /\ GoTo("joinServer")
     ELSE GoTo(after) /\ UNCHANGED <<status, server_socket>>
  /\ UNCHANGED <<mode, boundTo, clients_mutex, server, procVars, queueVars,
                 configVars, flagVars>>

\* Mutant: stop_server does not wait for the thread.
StopWithoutJoin ==
  /\ main = "joinServer"
  /\ GoTo(after)
  /\ UNCHANGED <<mode, netVars, procVars, queueVars, configVars, flagVars>>

JoinServer ==
  /\ main = "joinServer"
  /\ server = "exited"
  /\ server' = "joined"
  /\ GoTo(after)
  /\ UNCHANGED <<mode, status, socketVars, clients_mutex, procVars, queueVars,
                 configVars, flagVars>>

\* Mutant: the processor is told to stop and not waited for.
StopProcessorOnly ==
  /\ main = "stopProcessor"
  /\ processor_running' = FALSE
  /\ main' = "deactivate" /\ after' = "cleaned" /\ UNCHANGED caller
  /\ UNCHANGED <<mode, netVars, processor, queueVars, configVars, flagVars>>

\* The rest of cleanup_server: stop_file_processor ...
StopProcessor ==
  /\ main = "stopProcessor"
  /\ processor_running' = FALSE
  /\ IF processor_running
     THEN GoTo("joinProcessor")
     ELSE main' = "deactivate" /\ after' = "cleaned" /\ UNCHANGED caller
  /\ UNCHANGED <<mode, netVars, processor, queueVars, configVars, flagVars>>

JoinProcessor ==
  /\ main = "joinProcessor"
  /\ processor = "exited"
  /\ processor' = "joined"
  /\ main' = "deactivate" /\ after' = "cleaned"
  /\ UNCHANGED <<mode, caller, netVars, processor_running, queueVars,
                 configVars, flagVars>>

\* ... destroy_priority_queue, also called by init_server ...
Deactivate ==
  /\ main = "deactivate"
  /\ queue' = "inactive"
  /\ GoTo("destroy")
  /\ UNCHANGED <<mode, netVars, procVars, wrefs, configVars, flagVars>>

\* ... where pthread_cond_destroy waits until no waiter is counted ...
Destroy ==
  /\ main = "destroy"
  /\ wrefs = 0
  /\ queue' = "destroyed"
  /\ GoTo(after)
  /\ UNCHANGED <<mode, netVars, procVars, wrefs, configVars, flagVars>>

\* ... and the connections.
Cleaned ==
  /\ main = "cleaned"
  /\ clients_mutex' = "destroyed"
  /\ status' = "STOPPED"
  /\ GoTo(IF caller = "reload" THEN "init" ELSE "done")
  /\ UNCHANGED <<mode, socketVars, server, procVars, queueVars, configVars,
                 flagVars>>

-----------------------------------------------------------------------------
(* The server thread and the processor.                                    *)

\* Mutant: the thread goes on until the server is cleaned up.
ServerTestUntilStopped ==
  /\ server = "testing"
  /\ server' = IF status \in {"RUNNING", "STOPPING"} THEN "accepting" ELSE "exited"
  /\ UNCHANGED <<mode, stageVars, status, socketVars, clients_mutex, procVars,
                 queueVars, configVars, flagVars>>

\* while (status == SERVER_RUNNING).
ServerTest ==
  /\ server = "testing"
  /\ server' = IF status = "RUNNING" THEN "accepting" ELSE "exited"
  /\ UNCHANGED <<mode, stageVars, status, socketVars, clients_mutex, procVars,
                 queueVars, configVars, flagVars>>

\* accept returns, within its 30 seconds, and the clients are looked through.
AcceptReturns ==
  /\ server = "accepting"
  /\ server' = "testing"
  /\ UNCHANGED <<mode, stageVars, status, socketVars, clients_mutex, procVars,
                 queueVars, configVars, flagVars>>

\* while (processor_running); a call of dequeue waits if the queue is empty.
ProcessorTest ==
  /\ processor = "testing"
  /\ \/ ~processor_running /\ processor' = "exited" /\ UNCHANGED wrefs
     \/ /\ processor_running /\ queue = "active"
        /\ processor' = "waiting" /\ wrefs' = wrefs + 1
  /\ UNCHANGED <<mode, stageVars, netVars, processor_running, queue, configVars,
                 flagVars>>

\* A signal or the deadline of one second ends the wait, and uncounts the
\* waiter, even from a condition variable initialised again meanwhile.
ProcessorWakes ==
  /\ processor = "waiting"
  /\ processor' = "testing"
  /\ wrefs' = wrefs - 1
  /\ UNCHANGED <<mode, stageVars, netVars, processor_running, queue, configVars,
                 flagVars>>

-----------------------------------------------------------------------------
(* Signals, which have handlers once the program has booted, and the       *)
(* administrator.                                                          *)

Term ==
  /\ main \notin {"boot", "done"}
  /\ keep_running' = FALSE
  /\ UNCHANGED <<mode, stageVars, netVars, procVars, queueVars, configVars,
                 reload_config>>

Hup ==
  /\ main \notin {"boot", "done"}
  /\ reload_config' = TRUE
  /\ UNCHANGED <<mode, stageVars, netVars, procVars, queueVars, configVars,
                 keep_running>>

EditFile ==
  /\ file' \in Config \cup {Missing}
  /\ UNCHANGED <<mode, stageVars, netVars, procVars, queueVars, server_config,
                 flagVars>>

InitStep ==
  \/ Boot \/ InitServer \/ BindFails \/ BindSucceeds \/ StartProcessor
  \/ ProcessorFails \/ InitFails \/ Listen \/ StartFails \/ CreateThread
  \/ Announce

LoopStep == LoopTest \/ LoadConfig \/ Reloaded \/ Monitor \/ Wake

StopStep ==
  \/ StopServer \/ JoinServer \/ StopProcessor \/ JoinProcessor
  \/ Deactivate \/ Destroy \/ Cleaned

MainStep      == InitStep \/ LoopStep \/ StopStep
ServerStep    == ServerTest \/ AcceptReturns
ProcessorStep == ProcessorTest \/ ProcessorWakes

Next == MainStep \/ ServerStep \/ ProcessorStep \/ Term \/ Hup \/ EditFile

Spec == Init /\ [][Next]_vars

\* The three threads go on: sleep, accept and the wait for an upload all have
\* a limit in time.  Nobody need send a signal or edit the file.
FairSpec ==
  Spec /\ WF_vars(MainStep) /\ WF_vars(ServerStep) /\ WF_vars(ProcessorStep)

-----------------------------------------------------------------------------
(* Properties.                                                             *)

Stages ==
  {"boot", "init", "bind", "process", "unbound", "initFailed", "listen",
   "spawn", "announce", "loop", "load", "reloaded", "monitor", "sleep",
   "stop", "joinServer", "stopProcessor", "joinProcessor", "deactivate",
   "destroy", "cleaned", "done"}

Returns == {"boot", "load", "stopProcessor", "cleaned", "unbound", "initFailed"}

\* Every variable has its type; once booted the program has a configuration,
\* whatever becomes of the file (load_config); queue_not_empty never counts more than the one
\* waiter there is, and is never off by more than one.
TypeOK ==
  /\ mode \in {"daemon", "test"}
  /\ main \in Stages /\ after \in Returns
  /\ caller \in {"startup", "reload", "shutdown"}
  /\ status \in {"STOPPED", "STARTING", "RUNNING", "STOPPING"}
  /\ server_socket \in {"none", "bound", "listening", "closed"}
  /\ boundTo \in Config \cup {Missing}
  /\ clients_mutex \in {"none", "live", "destroyed"}
  /\ server \in {"none", "testing", "accepting", "exited", "joined"}
  /\ processor_running \in BOOLEAN
  /\ processor \in {"none", "testing", "waiting", "exited", "joined"}
  /\ queue \in {"none", "active", "inactive", "destroyed"}
  /\ wrefs \in -1 .. 1
  /\ server_config \in Config \cup {Missing}
  /\ main # "boot" => server_config \in Config
  /\ file \in Config \cup {Missing}
  /\ keep_running \in BOOLEAN /\ reload_config \in BOOLEAN

\* The server thread locks clients_mutex at any moment of its life: it finds
\* it initialised, however often the server is stopped, started and reloaded
\* (stop_server joins the thread before anything is destroyed or overwritten).
ServerFindsMutex == ServerAlive => clients_mutex = "live"

\* The server that runs listens on the port of the configuration in memory:
\* a reload never changes one without the other.
RunsOnItsConfig ==
  status = "RUNNING" =>
    server_socket = "listening" /\ boundTo = server_config

\* If the queue goes while the processor lives (an invalid configuration is
\* loaded and the server cannot be started again) then the daemon is ending.
QueueGoesLast ==
  ProcessorAlive /\ queue = "destroyed" =>
    \/ main = "unbound"
    \/ caller = "shutdown" /\ main \in {"stop", "stopProcessor", "joinProcessor"}

\* When main returns, both threads have ended: no request is half accepted and
\* no image half processed.
EndsAlone == main = "done" => ~ServerAlive /\ ~ProcessorAlive

\* No second server thread or processor is created while the first one lives,
\* and a thread is joined before its identifier is used again.
OneThreadEach ==
  [][/\ main = "spawn" /\ main' = "announce" => server \in {"none", "joined"}
     /\ main = "process" /\ main' = "listen" /\ processor' # processor =>
          processor \in {"none", "joined"}]_vars

\* The main loop of the daemon, which relies on the server thread
\* (src/main.c:182), watches a server whose thread lives.
ServerThreadServes ==
  main = "sleep" /\ status = "RUNNING" => ServerAlive

\* systemctl stop sends SIGTERM (ExecStop of ImageServer.service): the program
\* ends, from any state, unless it has to destroy a condition variable that was
\* initialised again while the processor was waiting on it.
TermEndsUnlessReinitialised ==
  ~keep_running ~> (main = "done" \/ (main = "destroy" /\ wrefs # 0))

\* A SIGHUP that reaches the daemon outside a reload has the file read again,
\* unless the daemon ends (or is to destroy that condition variable): only one
\* that comes after the file was read can be lost with its reload.
HupServed ==
  (mode = "daemon" /\ reload_config /\ main \in {"loop", "monitor", "sleep"})
    ~> (main \in {"load", "done"} \/ (main = "destroy" /\ wrefs # 0))
=============================================================================
