------------------------ MODULE ServerLifecycleProofs -----------------------
(***************************************************************************)
(* Theorems about ServerLifecycle, for any sets of valid and of invalid    *)
(* configurations.                                                         *)
(*                                                                         *)
(* The argument is about joins.  A thread that was created and not joined  *)
(* is tied to the stages of main at which its join is still to come, and   *)
(* to the variable that makes main reach that join: status = "RUNNING" for *)
(* the server thread, processor_running for the processor.                 *)
(***************************************************************************)
EXTENDS ServerLifecycle, TLAPS

ServerUnjoined    == server \in {"testing", "accepting", "exited"}
ProcessorUnjoined == processor \in {"testing", "waiting", "exited"}

\* What main may do while the status is RUNNING, and what it finds then.
StatusInv ==
  status = "RUNNING" =>
    main \in {"loop", "monitor", "sleep", "reloaded", "stop"} /\ queue = "active"

\* Between init_server and the first loop everything is initialised.
StartInv ==
  /\ main \in {"bind", "process", "listen", "spawn", "announce"} =>
       clients_mutex = "live" /\ queue = "active"
  /\ main \in {"process", "listen", "spawn", "announce"} =>
       boundTo = server_config
  /\ main \in {"spawn", "announce"} => server_socket = "listening"

\* A server thread is joined later, as status says.
ServerInv ==
  ServerUnjoined =>
    /\ clients_mutex = "live"
    /\ main \in {"announce", "loop", "monitor", "sleep", "reloaded", "stop",
                 "joinServer"}
    /\ main \in {"announce", "joinServer"} \/ status = "RUNNING"

\* A processor is joined later, as processor_running says.
ProcessorInv ==
  /\ processor_running => ProcessorAlive
  /\ ProcessorUnjoined => processor_running \/ main = "joinProcessor"
  /\ main = "joinProcessor" => ~processor_running

\* Where the functions return to, and when no processor is left.
CallInv ==
  /\ main \in {"stop", "joinServer"} =>
       \/ after = "load" /\ caller = "reload"
       \/ after = "stopProcessor" /\ caller # "startup"
  /\ main \in {"load", "reloaded"} => caller = "reload"
  /\ main \in {"stopProcessor", "joinProcessor", "cleaned"} => caller # "startup"
  /\ main \in {"deactivate", "destroy"} =>
       \/ after = "unbound"
       \/ after = "initFailed" /\ ~processor_running
       \/ after = "cleaned" /\ ~processor_running /\ caller # "startup"
  /\ main \in {"initFailed", "cleaned", "boot", "done"} => ~processor_running
  /\ caller = "startup" /\ main \in {"init", "bind", "process", "unbound",
                                     "deactivate", "destroy"} =>
       ~processor_running

\* The count of waiters is short by at most one.
WaitersInv ==
  IF processor = "waiting" THEN wrefs \in {0, 1} ELSE wrefs \in {-1, 0}

\* The inductive invariant.
LInv ==
  /\ TypeOK
  /\ StatusInv /\ StartInv /\ ServerInv /\ ProcessorInv /\ CallInv /\ WaitersInv
  /\ RunsOnItsConfig /\ QueueGoesLast

-----------------------------------------------------------------------------
(* Steps. *)

USE DEF Config, GoTo, CallCleanup, ServerAlive, ProcessorAlive,
        configVars, flagVars, stageVars, socketVars, queueVars, procVars, netVars,
        LInv, TypeOK, StatusInv, StartInv, ServerInv, ProcessorInv, CallInv,
        WaitersInv, RunsOnItsConfig, QueueGoesLast, ServerUnjoined,
        ProcessorUnjoined, Stages, Returns

\* What load_config leaves is a configuration, whatever the file is.
LEMMA LoadedIsConfig ==
  ASSUME file \in Config \cup {Missing}
  PROVE  LoadedConfig \in Config
BY LifecycleAssumption DEF LoadedConfig

\* The functions that initialise and start.
LEMMA InitStepLemma ==
  ASSUME LInv, InitStep
  PROVE  LInv'
<1>1. CASE Boot
  BY <1>1, LoadedIsConfig DEF Boot
<1>2. CASE InitServer
  BY <1>2 DEF InitServer
<1>3. CASE BindFails
  BY <1>3 DEF BindFails
<1>4. CASE BindSucceeds
  BY <1>4 DEF BindSucceeds
<1>5. CASE StartProcessor
  BY <1>5 DEF StartProcessor
<1>6. CASE ProcessorFails
  BY <1>6 DEF ProcessorFails
<1>7. CASE InitFails
  BY <1>7 DEF InitFails
<1>8. CASE Listen
  BY <1>8 DEF Listen
<1>9. CASE StartFails
  BY <1>9 DEF StartFails
<1>10. CASE CreateThread
  BY <1>10 DEF CreateThread
<1>11. CASE Announce
  BY <1>11 DEF Announce
<1>12. QED
  BY <1>1, <1>2, <1>3, <1>4, <1>5, <1>6, <1>7, <1>8, <1>9, <1>10, <1>11
     DEF InitStep

\* The main loop.
LEMMA LoopStepLemma ==
  ASSUME LInv, LoopStep
  PROVE  LInv'
<1>1. CASE LoopTest
  BY <1>1 DEF LoopTest
<1>2. CASE LoadConfig
  BY <1>2, LoadedIsConfig DEF LoadConfig
<1>3. CASE Reloaded
  <2>1. reload_config' \in BOOLEAN
    BY <1>3, Zenon DEF Reloaded
  <2>2. QED
    BY <1>3, <2>1 DEF Reloaded
<1>4. CASE Monitor
  BY <1>4 DEF Monitor
<1>5. CASE Wake
  BY <1>5 DEF Wake
<1>6. QED
  BY <1>1, <1>2, <1>3, <1>4, <1>5 DEF LoopStep

\* The functions that stop and clean up.
LEMMA StopStepLemma ==
  ASSUME LInv, StopStep
  PROVE  LInv'
<1>1. CASE StopServer
  BY <1>1 DEF StopServer
<1>2. CASE JoinServer
  BY <1>2 DEF JoinServer
<1>3. CASE StopProcessor
  <2>1. processor_running' \in BOOLEAN
    BY <1>3, Zenon DEF StopProcessor
  <2>2. QED
    BY <1>3, <2>1 DEF StopProcessor
<1>4. CASE JoinProcessor
  BY <1>4 DEF JoinProcessor
<1>5. CASE Deactivate
  BY <1>5 DEF Deactivate
<1>6. CASE Destroy
  BY <1>6 DEF Destroy
<1>7. CASE Cleaned
  BY <1>7 DEF Cleaned
<1>8. QED
  BY <1>1, <1>2, <1>3, <1>4, <1>5, <1>6, <1>7 DEF StopStep

\* The two threads, the signals and the administrator.
LEMMA OtherStepLemma ==
  ASSUME LInv, ServerStep \/ ProcessorStep \/ Term \/ Hup \/ EditFile
  PROVE  LInv'
<1>1. CASE ServerTest
  BY <1>1 DEF ServerTest
<1>2. CASE AcceptReturns
  BY <1>2 DEF AcceptReturns
<1>3. CASE ProcessorTest
  BY <1>3 DEF ProcessorTest
<1>4. CASE ProcessorWakes
  BY <1>4 DEF ProcessorWakes
<1>5. CASE Term
  <2>1. keep_running' \in BOOLEAN
    BY <1>5, Zenon DEF Term
  <2>2. QED
    BY <1>5, <2>1 DEF Term
<1>6. CASE Hup
  BY <1>6 DEF Hup
<1>7. CASE EditFile
  BY <1>7 DEF EditFile
<1>8. QED
  BY <1>1, <1>2, <1>3, <1>4, <1>5, <1>6, <1>7 DEF ServerStep, ProcessorStep

-----------------------------------------------------------------------------
(* The theorems. *)

HIDE DEF Config, GoTo, CallCleanup, ServerAlive, ProcessorAlive,
         configVars, flagVars, stageVars, socketVars, queueVars, procVars, netVars,
         LInv, TypeOK, StatusInv, StartInv, ServerInv, ProcessorInv, CallInv,
         WaitersInv, RunsOnItsConfig, QueueGoesLast, ServerUnjoined,
         ProcessorUnjoined, Stages, Returns

\* The invariant holds: every thread that was created is joined before
\* anything it uses is destroyed or its identifier used again.
THEOREM LifecycleInvariance == Spec => []LInv
<1>1. Init => LInv
  <2> SUFFICES ASSUME Init PROVE LInv
    OBVIOUS
  <2>1. processor_running \in BOOLEAN /\ keep_running \in BOOLEAN
          /\ reload_config \in BOOLEAN
    BY Zenon DEF Init
  <2>2. QED
    BY <2>1, LifecycleAssumption DEF Init, LInv, TypeOK, StatusInv, StartInv, ServerInv, ProcessorInv,
     CallInv, WaitersInv, RunsOnItsConfig, QueueGoesLast, ServerUnjoined,
     ProcessorUnjoined, ServerAlive, ProcessorAlive, Config, Stages, Returns
<1>2. LInv /\ [Next]_vars => LInv'
  <2> SUFFICES ASSUME LInv, [Next]_vars PROVE LInv'
    OBVIOUS
  <2>1. CASE MainStep
    BY <2>1, InitStepLemma, LoopStepLemma, StopStepLemma DEF MainStep
  <2>2. CASE ServerStep \/ ProcessorStep \/ Term \/ Hup \/ EditFile
    BY <2>2, OtherStepLemma
  <2>3. CASE UNCHANGED vars
    BY <2>3 DEF vars, LInv, TypeOK, StatusInv, StartInv, ServerInv, ProcessorInv,
       CallInv, WaitersInv, RunsOnItsConfig, QueueGoesLast, ServerUnjoined,
       ProcessorUnjoined, ServerAlive, ProcessorAlive, configVars, flagVars,
       stageVars, socketVars, queueVars, procVars, netVars
  <2>4. QED
    BY <2>1, <2>2, <2>3 DEF Next
<1>3. QED
  BY <1>1, <1>2, PTL DEF Spec

\* Types: there is always a configuration, and the count of waiters is off by
\* at most one.
THEOREM LifecycleTypeCorrectness == Spec => []TypeOK
<1>1. LInv => TypeOK
  BY DEF LInv
<1>2. QED
  BY <1>1, LifecycleInvariance, PTL

\* The server thread never finds clients_mutex destroyed.
THEOREM MutexCorrectness == Spec => []ServerFindsMutex
<1>1. LInv => ServerFindsMutex
  BY DEF LInv, ServerInv, ServerUnjoined, ServerAlive, ServerFindsMutex
<1>2. QED
  BY <1>1, LifecycleInvariance, PTL

\* The running server is bound to the port of the configuration in memory.
THEOREM ConfigCorrectness == Spec => []RunsOnItsConfig
<1>1. LInv => RunsOnItsConfig
  BY DEF LInv
<1>2. QED
  BY <1>1, LifecycleInvariance, PTL

\* The queue is destroyed under a live processor only at the end.
THEOREM QueueCorrectness == Spec => []QueueGoesLast
<1>1. LInv => QueueGoesLast
  BY DEF LInv
<1>2. QED
  BY <1>1, LifecycleInvariance, PTL

\* main returns with both threads ended.
THEOREM EndCorrectness == Spec => []EndsAlone
<1>1. LInv => EndsAlone
  BY DEF LInv, ServerInv, ServerUnjoined, ServerAlive, ProcessorInv,
     ProcessorUnjoined, ProcessorAlive, CallInv, EndsAlone
<1>2. QED
  BY <1>1, LifecycleInvariance, PTL

\* No thread is created while an earlier one of its kind is not joined.
THEOREM JoinCorrectness == Spec => OneThreadEach
<1>1. LInv /\ [Next]_vars =>
        [/\ main = "spawn" /\ main' = "announce" =>
              server \in {"none", "joined"}
         /\ main = "process" /\ main' = "listen" /\ processor' # processor =>
              processor \in {"none", "joined"}]_vars
  <2> SUFFICES ASSUME LInv, [Next]_vars, main' # main
               PROVE  /\ main = "spawn" => server \in {"none", "joined"}
                      /\ main = "process" /\ main' = "listen"
                           /\ processor' # processor =>
                           processor \in {"none", "joined"}
    BY DEF vars
  <2>1. main = "spawn" => server \in {"none", "joined"}
    BY DEF LInv, TypeOK, ServerInv, ServerUnjoined
  <2>2. ASSUME main = "process", main' = "listen", processor' # processor
        PROVE  processor \in {"none", "joined"}
    <3>1. StartProcessor
      BY <2>2 DEF Next, MainStep, InitStep, LoopStep, StopStep, ServerStep,
         ProcessorStep, GoTo, CallCleanup, stageVars, procVars, vars, Boot, InitServer, BindFails, BindSucceeds,
         ProcessorFails, InitFails, Listen, StartFails, CreateThread, Announce,
         LoopTest, LoadConfig, Reloaded, Monitor, Wake, StopServer, JoinServer,
         StopProcessor, JoinProcessor, Deactivate, Destroy, Cleaned, ServerTest,
         AcceptReturns, ProcessorTest, ProcessorWakes, Term, Hup, EditFile
    <3>2. ~processor_running
      BY <2>2, <3>1 DEF StartProcessor
    <3>3. QED
      BY <2>2, <3>2 DEF LInv, TypeOK, ProcessorInv, ProcessorUnjoined
  <2>3. QED
    BY <2>1, <2>2
<1>2. QED
  BY <1>1, LifecycleInvariance, PTL DEF Spec, OneThreadEach
=============================================================================
