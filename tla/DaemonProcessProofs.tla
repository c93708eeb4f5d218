------------------------- MODULE DaemonProcessProofs -------------------------
(***************************************************************************)
(* The invariants of DaemonProcess and of the Logger in it, for any        *)
(* processes, threads, PIDs and signals, and any depth of handlers.        *)
(***************************************************************************)
EXTENDS DaemonProcess, TLAPS

LogTypes ==
  /\ current_level \in [Process -> LogLevel]
  /\ holder \in [Process -> Thread \cup {NoThread}]
  /\ frames \in [Process -> [Thread -> Seq(Frame)]]
  /\ handled \in [Process -> SUBSET Signal]

\* The code of a thread logs in its outermost call only, and a signal is being
\* logged only if its process logs them.
FramesInv ==
  \A p \in Process, t \in Thread :
    \A i \in DOMAIN frames[p][t] :
      /\ frames[p][t][i].code = "call" => i = 1
      /\ frames[p][t][i].code \in Signal => Logs(p)

LogInv == LogTypes /\ LinesWhole /\ FramesInv

-----------------------------------------------------------------------------
(* The stack of a thread. *)

\* A new log call is the last one.
LEMMA PushLemma ==
  ASSUME NEW s \in Seq(Frame), NEW f \in Frame
  PROVE  /\ Append(s, f) \in Seq(Frame)
         /\ DOMAIN Append(s, f) = 1 .. Len(s) + 1
         /\ \A i \in 1 .. Len(s) : Append(s, f)[i] = s[i]
         /\ Append(s, f)[Len(s) + 1] = f
         /\ DOMAIN s = 1 .. Len(s) /\ Len(s) \in Nat
         /\ s = <<>> => Len(s) = 0
  OBVIOUS

\* The last log call ends.
LEMMA PopLemma ==
  ASSUME NEW s \in Seq(Frame), s # <<>>
  PROVE  /\ SubSeq(s, 1, Len(s) - 1) \in Seq(Frame)
         /\ DOMAIN SubSeq(s, 1, Len(s) - 1) = 1 .. Len(s) - 1
         /\ \A i \in 1 .. Len(s) - 1 : SubSeq(s, 1, Len(s) - 1)[i] = s[i]
         /\ DOMAIN s = 1 .. Len(s) /\ Len(s) \in Nat \ {0}
  OBVIOUS

\* The last log call goes on to another stage.
LEMMA AdvanceLemma ==
  ASSUME NEW s \in Seq(Frame), s # <<>>, NEW stage \in Stage
  PROVE  LET r == [s EXCEPT ![Len(s)].stage = stage] IN
         /\ r \in Seq(Frame)
         /\ DOMAIN r = 1 .. Len(s)
         /\ \A i \in 1 .. Len(s) - 1 : r[i] = s[i]
         /\ r[Len(s)].code = s[Len(s)].code /\ r[Len(s)].stage = stage
         /\ DOMAIN s = 1 .. Len(s) /\ Len(s) \in Nat \ {0}
<1>1. DOMAIN s = 1 .. Len(s) /\ Len(s) \in Nat \ {0}
  OBVIOUS
<1>2. s[Len(s)] \in Frame
  BY <1>1
<1>3. [s[Len(s)] EXCEPT !.stage = stage] \in Frame
  BY <1>2 DEF Frame
<1>4. QED
  BY <1>1, <1>2, <1>3 DEF Frame

\* The other stacks stay as they are.
LEMMA SetFramesLemma ==
  ASSUME LogTypes, NEW p \in Process, NEW t \in Thread, NEW stack \in Seq(Frame),
         SetFrames(p, t, stack)
  PROVE  /\ frames' \in [Process -> [Thread -> Seq(Frame)]]
         /\ frames'[p][t] = stack
         /\ \A q \in Process, u \in Thread :
              q # p \/ u # t => frames'[q][u] = frames[q][u]
  BY DEF LogTypes, SetFrames

-----------------------------------------------------------------------------
(* Each step of the log keeps the invariant. *)

\* A new call, of the code of a thread or of a signal handler.
LEMMA PushKeepsLogInv ==
  ASSUME LogInv, NEW p \in Process, NEW t \in Thread,
         NEW code \in Signal \cup {"call"},
         code = "call" => Idle(p, t), code \in Signal => Logs(p),
         Push(p, t, [code |-> code, stage |-> "lock"]),
         UNCHANGED <<current_level, holder>>, handled' = handled
  PROVE  LogInv'
<1> DEFINE s == frames[p][t]
           f == [code |-> code, stage |-> "lock"]
<1>1. s \in Seq(Frame) /\ f \in Frame
  BY DEF LogInv, LogTypes, Frame, Stage
<1>2. /\ Append(s, f) \in Seq(Frame)
      /\ DOMAIN Append(s, f) = 1 .. Len(s) + 1
      /\ \A i \in 1 .. Len(s) : Append(s, f)[i] = s[i]
      /\ Append(s, f)[Len(s) + 1] = f
      /\ DOMAIN s = 1 .. Len(s) /\ Len(s) \in Nat
      /\ s = <<>> => Len(s) = 0
  BY <1>1, PushLemma
<1>3. /\ frames' \in [Process -> [Thread -> Seq(Frame)]]
      /\ frames'[p][t] = Append(s, f)
      /\ \A q \in Process, u \in Thread :
           q # p \/ u # t => frames'[q][u] = frames[q][u]
  BY <1>2, SetFramesLemma DEF LogInv, Push
<1> HIDE DEF s
<1>4. LogTypes'
  BY <1>3 DEF LogInv, LogTypes
<1>a. \A q \in Process, u \in Thread :
        q # p \/ u # t => frames'[q][u] = frames[q][u]
  BY <1>3
<1>5. \A i \in DOMAIN frames'[p][t] :
        \/ i \in DOMAIN s /\ frames'[p][t][i] = s[i]
        \/ i = Len(s) + 1 /\ frames'[p][t][i] = f
  BY <1>2, <1>3
<1>6. \A i \in DOMAIN s : i \in DOMAIN frames'[p][t] /\ frames'[p][t][i] = s[i]
  BY <1>2, <1>3
<1>7. LinesWhole'
  <2>1. \A i \in DOMAIN frames'[p][t] : frames'[p][t][i].stage = "write" =>
          i \in DOMAIN s /\ s[i].stage = "write"
    BY <1>5
  <2>2. Holding(p, t)' <=> Holding(p, t)
    BY <2>1, <1>6 DEF Holding, s
  <2>3. \A q \in Process, u \in Thread : Holding(q, u)' <=> Holding(q, u)
    BY <2>2, <1>3 DEF Holding
  <2>4. \A i, j \in DOMAIN frames'[p][t] :
          frames'[p][t][i].stage = "write" /\ frames'[p][t][j].stage = "write" => i = j
    BY <2>1 DEF LogInv, LinesWhole, s
  <2>5. \A q \in Process, u \in Thread :
          \A i, j \in DOMAIN frames'[q][u] :
            frames'[q][u][i].stage = "write" /\ frames'[q][u][j].stage = "write" => i = j
    BY <2>4, <1>a DEF LogInv, LinesWhole
  <2>6. holder' = holder
    OBVIOUS
  <2>7. QED
    BY <2>3, <2>5, <2>6 DEF LogInv, LinesWhole
<1>8. FramesInv'
  <2>1. \A q \in Process : Logs(q)' <=> Logs(q)
    BY DEF Logs
  <2>2. \A i \in DOMAIN frames'[p][t] :
          /\ frames'[p][t][i].code = "call" => i = 1
          /\ frames'[p][t][i].code \in Signal => Logs(p)
    <3>1. \A i \in DOMAIN s : /\ s[i].code = "call" => i = 1
                              /\ s[i].code \in Signal => Logs(p)
      BY DEF LogInv, FramesInv, s
    <3>2. f.code = "call" => Len(s) + 1 = 1
      BY <1>2 DEF Idle, s
    <3>3. f.code \in Signal => Logs(p)
      OBVIOUS
    <3>4. QED
      BY <3>1, <3>2, <3>3, <1>5
  <2>3. \A q \in Process, u \in Thread : \A i \in DOMAIN frames'[q][u] :
          /\ frames'[q][u][i].code = "call" => i = 1
          /\ frames'[q][u][i].code \in Signal => Logs(q)
    BY <2>2, <1>a DEF LogInv, FramesInv
  <2>4. QED
    BY <2>1, <2>3 DEF FramesInv
<1>9. QED
  BY <1>4, <1>7, <1>8 DEF LogInv

\* The mutex is taken only when nobody is between lock and unlock.
LEMMA LockKeepsLogInv ==
  ASSUME LogInv, NEW p \in Process, NEW t \in Thread, Lock(p, t)
  PROVE  LogInv'
<1> DEFINE s == frames[p][t]
           r == [s EXCEPT ![Len(s)].stage = "write"]
<1>1. s \in Seq(Frame) /\ s # <<>> /\ "write" \in Stage
  BY DEF LogInv, LogTypes, Lock, AtStage, Idle, Stage
<1>2. /\ r \in Seq(Frame)
      /\ DOMAIN r = 1 .. Len(s)
      /\ \A i \in 1 .. Len(s) - 1 : r[i] = s[i]
      /\ r[Len(s)].code = s[Len(s)].code /\ r[Len(s)].stage = "write"
      /\ DOMAIN s = 1 .. Len(s) /\ Len(s) \in Nat \ {0}
  BY <1>1, AdvanceLemma
<1>3. /\ frames' \in [Process -> [Thread -> Seq(Frame)]]
      /\ frames'[p][t] = r
      /\ \A q \in Process, u \in Thread :
           q # p \/ u # t => frames'[q][u] = frames[q][u]
  BY <1>2, SetFramesLemma DEF LogInv, Lock, Advance
<1>a. frames'[p][t] = r
  BY <1>3
<1>b. \A q \in Process, u \in Thread :
        q # p \/ u # t => frames'[q][u] = frames[q][u]
  BY <1>3
<1> HIDE DEF s, r
<1>4. /\ holder[p] = NoThread /\ NoThread \notin Thread
      /\ holder' = [holder EXCEPT ![p] = t]
      /\ UNCHANGED <<current_level, handled>>
  BY LoggerAssumption DEF Lock
<1>5. LogTypes'
  BY <1>3, <1>4 DEF LogInv, LogTypes
<1>6. holder'[p] = t /\ \A q \in Process \ {p} : holder'[q] = holder[q]
  BY <1>4 DEF LogInv, LogTypes
<1>7. \A u \in Thread : ~Holding(p, u)
  BY <1>4 DEF LogInv, LinesWhole
<1>8. \A i \in DOMAIN s : s[i].stage # "write"
  BY <1>7 DEF Holding, s
<1>9. LinesWhole'
  <2>1. Holding(p, t)'
    BY <1>2, <1>3 DEF Holding
  <2>2. \A q \in Process, u \in Thread : q # p \/ u # t =>
          (Holding(q, u)' <=> Holding(q, u))
    BY <1>3 DEF Holding
  <2>3. \A q \in Process, u \in Thread : Holding(q, u)' <=> holder'[q] = u
    BY <2>1, <2>2, <1>6, <1>7 DEF LogInv, LinesWhole
  <2>4. \A i \in DOMAIN r : r[i].stage = "write" => i = Len(s)
    BY <1>2, <1>8
  <2>5. \A q \in Process, u \in Thread :
          \A i, j \in DOMAIN frames'[q][u] :
            frames'[q][u][i].stage = "write" /\ frames'[q][u][j].stage = "write" => i = j
    BY <2>4, <1>a, <1>b DEF LogInv, LinesWhole
  <2>6. QED
    BY <2>3, <2>5 DEF LinesWhole
<1>10. FramesInv'
  <2>1. \A q \in Process : Logs(q)' <=> Logs(q)
    BY <1>4 DEF Logs
  <2>2. \A i \in DOMAIN r : i \in DOMAIN s /\ r[i].code = s[i].code
    BY <1>2
  <2>3. \A i \in DOMAIN r : /\ r[i].code = "call" => i = 1
                            /\ r[i].code \in Signal => Logs(p)
    BY <2>2 DEF LogInv, FramesInv, s
  <2>4. \A q \in Process, u \in Thread : \A i \in DOMAIN frames'[q][u] :
          /\ frames'[q][u][i].code = "call" => i = 1
          /\ frames'[q][u][i].code \in Signal => Logs(q)
    BY <2>3, <1>a, <1>b DEF LogInv, FramesInv
  <2>5. QED
    BY <2>1, <2>4 DEF FramesInv
<1>11. QED
  BY <1>5, <1>9, <1>10 DEF LogInv

\* The call that ends is the one that owns the mutex.
LEMMA WriteKeepsLogInv ==
  ASSUME LogInv, NEW p \in Process, NEW t \in Thread, Write(p, t)
  PROVE  LogInv'
<1> DEFINE s == frames[p][t]
           r == SubSeq(s, 1, Len(s) - 1)
<1>1. s \in Seq(Frame) /\ s # <<>>
  BY DEF LogInv, LogTypes, Write, AtStage, Idle
<1>2. /\ r \in Seq(Frame)
      /\ DOMAIN r = 1 .. Len(s) - 1
      /\ \A i \in 1 .. Len(s) - 1 : r[i] = s[i]
      /\ DOMAIN s = 1 .. Len(s) /\ Len(s) \in Nat \ {0}
  BY <1>1, PopLemma
<1>3. /\ frames' \in [Process -> [Thread -> Seq(Frame)]]
      /\ frames'[p][t] = r
      /\ \A q \in Process, u \in Thread :
           q # p \/ u # t => frames'[q][u] = frames[q][u]
  BY <1>2, SetFramesLemma DEF LogInv, Write, Leave, Pop
<1>4. /\ s[Len(s)].stage = "write"
      /\ holder' = [holder EXCEPT ![p] = NoThread] /\ NoThread \notin Thread
      /\ UNCHANGED current_level
      /\ handled' = [handled EXCEPT ![p] = @ \cup ({s[Len(s)].code} \cap Signal)]
  BY LoggerAssumption DEF Write, Leave, AtStage, Top
<1>a. frames'[p][t] = r
  BY <1>3
<1>b. \A q \in Process, u \in Thread :
        q # p \/ u # t => frames'[q][u] = frames[q][u]
  BY <1>3
<1> HIDE DEF s, r
<1>5. LogTypes'
  <2>1. handled' \in [Process -> SUBSET Signal]
    BY <1>4 DEF LogInv, LogTypes
  <2>2. QED
    BY <2>1, <1>3, <1>4 DEF LogInv, LogTypes
<1>6. holder'[p] = NoThread /\ \A q \in Process \ {p} : holder'[q] = holder[q]
  BY <1>4 DEF LogInv, LogTypes
<1>7. Holding(p, t)
  <2>1. Len(s) \in DOMAIN s
    BY <1>2
  <2>2. s[Len(s)].stage = "write"
    BY <1>4
  <2>3. \E i \in DOMAIN s : s[i].stage = "write"
    BY <2>1, <2>2
  <2>4. QED
    BY <2>3 DEF Holding, s
<1>8. holder[p] = t
  BY <1>7 DEF LogInv, LinesWhole
<1>9. \A i \in DOMAIN s : s[i].stage = "write" => i = Len(s)
  <2>1. Len(s) \in DOMAIN s
    BY <1>2
  <2>2. QED
    BY <2>1, <1>4 DEF LogInv, LinesWhole, s
<1>10. \A i \in DOMAIN r : i \in DOMAIN s /\ r[i] = s[i] /\ s[i].stage # "write"
  BY <1>2, <1>9
<1>11. LinesWhole'
  <2>1. ~Holding(p, t)'
    BY <1>3, <1>10 DEF Holding
  <2>2. \A q \in Process, u \in Thread : q # p \/ u # t =>
          (Holding(q, u)' <=> Holding(q, u))
    BY <1>3 DEF Holding
  <2>3. \A q \in Process, u \in Thread : Holding(q, u)' <=> holder'[q] = u
    BY <2>1, <2>2, <1>4, <1>6, <1>8 DEF LogInv, LinesWhole
  <2>4. \A q \in Process, u \in Thread :
          \A i, j \in DOMAIN frames'[q][u] :
            frames'[q][u][i].stage = "write" /\ frames'[q][u][j].stage = "write" => i = j
    BY <1>a, <1>b, <1>10 DEF LogInv, LinesWhole
  <2>5. QED
    BY <2>3, <2>4 DEF LinesWhole
<1>12. FramesInv'
  <2>1. \A q \in Process : Logs(q)' <=> Logs(q)
    BY <1>4 DEF Logs
  <2>2. \A i \in DOMAIN r : /\ r[i].code = "call" => i = 1
                            /\ r[i].code \in Signal => Logs(p)
    BY <1>10 DEF LogInv, FramesInv, s
  <2>3. \A q \in Process, u \in Thread : \A i \in DOMAIN frames'[q][u] :
          /\ frames'[q][u][i].code = "call" => i = 1
          /\ frames'[q][u][i].code \in Signal => Logs(q)
    BY <2>2, <1>a, <1>b DEF LogInv, FramesInv
  <2>4. QED
    BY <2>1, <2>3 DEF FramesInv
<1>13. QED
  BY <1>5, <1>11, <1>12 DEF LogInv

\* A process that starts or ends has no log call.
LEMMA FreshKeepsLogInv ==
  ASSUME LogInv, NEW p \in Process, NEW level \in LogLevel, Fresh(p, level)
  PROVE  LogInv'
<1>1. /\ frames' = [frames EXCEPT ![p] = [t \in Thread |-> <<>>]]
      /\ holder' = [holder EXCEPT ![p] = NoThread] /\ NoThread \notin Thread
      /\ current_level' = [current_level EXCEPT ![p] = level]
      /\ handled' = [handled EXCEPT ![p] = {}]
  BY LoggerAssumption DEF Fresh
<1>2. <<>> \in Seq(Frame) /\ DOMAIN <<>> = {}
  OBVIOUS
<1>3. LogTypes'
  BY <1>1, <1>2 DEF LogInv, LogTypes
<1>4. \A t \in Thread : frames'[p][t] = <<>>
  BY <1>1 DEF LogInv, LogTypes
<1>5. \A q \in Process \ {p} : /\ frames'[q] = frames[q] /\ holder'[q] = holder[q]
                               /\ current_level'[q] = current_level[q]
  BY <1>1 DEF LogInv, LogTypes
<1>6. holder'[p] = NoThread
  BY <1>1 DEF LogInv, LogTypes
<1>7. LinesWhole'
  BY <1>1, <1>2, <1>4, <1>5, <1>6 DEF LogInv, LinesWhole, Holding
<1>8. FramesInv'
  BY <1>2, <1>4, <1>5 DEF LogInv, FramesInv, Logs
<1>9. QED
  BY <1>3, <1>7, <1>8 DEF LogInv

-----------------------------------------------------------------------------
(* Every step is one of these for the log. *)

\* A step that leaves the log alone, but for a HUP that is served.
LEMMA QuietKeepsLogInv ==
  ASSUME LogInv, UNCHANGED <<current_level, holder, frames>>,
         handled' \in [Process -> SUBSET Signal]
  PROVE  LogInv'
  BY DEF LogInv, LogTypes, LinesWhole, Holding, FramesInv, Logs

LEMMA CallKeepsLogInv ==
  ASSUME LogInv, NEW p \in Process, NEW t \in Thread, Call(p, t)
  PROVE  LogInv'
<1>1. "call" \notin Signal
  BY DEF Signal
<1>2. QED
  BY <1>1, PushKeepsLogInv DEF Call

LEMMA DeliverKeepsLogInv ==
  ASSUME LogInv, NEW p \in Process, NEW t \in Thread, NEW s \in Signal,
         Deliver(p, t, s)
  PROVE  LogInv'
<1>1. s # "call"
  BY DEF Signal
<1>2. CASE Logs(p)
  BY <1>1, <1>2, PushKeepsLogInv DEF Deliver
<1>3. CASE ~Logs(p)
  <2>1. handled' = [handled EXCEPT ![p] = @ \cup {s}]
    BY <1>3 DEF Deliver
  <2>2. handled' \in [Process -> SUBSET Signal]
    BY <2>1 DEF LogInv, LogTypes
  <2>3. UNCHANGED <<current_level, holder, frames>>
    BY <1>3 DEF Deliver
  <2>4. QED
    BY <2>2, <2>3, QuietKeepsLogInv
<1>4. QED
  BY <1>2, <1>3

LEMMA SameLogKeepsLogInv ==
  ASSUME LogInv, UNCHANGED logVars
  PROVE  LogInv'
  BY QuietKeepsLogInv DEF logVars, LogInv, LogTypes

LEMMA LogAfterKeepsLogInv ==
  ASSUME LogInv, NEW p \in Process, LogAfter(p)
  PROVE  LogInv'
  BY LoggerAssumption, CallKeepsLogInv, SameLogKeepsLogInv DEF LogAfter

LEMMA EndsKeepsLogInv ==
  ASSUME LogInv, NEW p \in Process, Ends(p)
  PROVE  LogInv'
  BY FreshKeepsLogInv DEF Ends, LogLevel

LEMMA StartKeepsLogInv ==
  ASSUME LogInv, NEW p \in Process, Start(p)
  PROVE  LogInv'
<1>1. PICK l \in Level[p] : Fresh(p, l)
  BY DEF Start
<1>2. l \in LogLevel
  BY LoggerAssumption
<1>3. QED
  BY <1>1, <1>2, FreshKeepsLogInv

LEMMA ReloadKeepsLogInv ==
  ASSUME LogInv, NEW p \in Process, Reload(p)
  PROVE  LogInv'
<1>1. handled' \in [Process -> SUBSET Signal]
  BY DEF Reload, LogInv, LogTypes
<1>2. QED
  BY <1>1, QuietKeepsLogInv DEF Reload

LEMMA NextKeepsLogInv ==
  ASSUME LogInv, [Next]_vars
  PROVE  LogInv'
<1>1. CASE \E p \in Process : Start(p)
  BY <1>1, StartKeepsLogInv
<1>2. CASE \E p \in Process : MainStep(p)
  <2> PICK p \in Process : MainStep(p)
    BY <1>2
  <2>1. CASE \/ CheckFree(p) \/ CheckStale(p) \/ RemoveStale(p)
             \/ Fork(p) \/ CreatePidFile(p)
    BY <2>1, SameLogKeepsLogInv
       DEF CheckFree, CheckStale, RemoveStale, Fork, CreatePidFile
  <2>2. CASE CheckRefused(p) \/ DaemonizeFails(p) \/ Exit(p)
    BY <2>2, EndsKeepsLogInv DEF CheckRefused, DaemonizeFails, Exit
  <2>3. CASE \/ WritePid(p) \/ StartServer(p) \/ ServerFails(p) \/ ReloadFails(p)
             \/ LeaveLoop(p) \/ CleanupServer(p) \/ RemovePidFile(p) \/ SayGoodbye(p)
    BY <2>3, LogAfterKeepsLogInv
       DEF WritePid, StartServer, ServerFails, ReloadFails, LeaveLoop,
           CleanupServer, RemovePidFile, SayGoodbye
  <2>4. CASE Reload(p)
    BY <2>4, ReloadKeepsLogInv
  <2>5. QED
    BY <2>1, <2>2, <2>3, <2>4 DEF MainStep
<1>3. CASE \E p \in Process : Kill(p)
  BY <1>3, EndsKeepsLogInv DEF Kill
<1>4. CASE \E p \in Process : LogActivity(p)
  BY <1>4, CallKeepsLogInv, DeliverKeepsLogInv DEF LogActivity
<1>5. CASE \E p \in Process, t \in Thread : LogGoesOn(p, t)
  BY <1>5, LockKeepsLogInv, WriteKeepsLogInv DEF LogGoesOn, LogStep
<1>6. CASE ForeignChange
  BY <1>6, SameLogKeepsLogInv DEF ForeignChange
<1>7. CASE UNCHANGED vars
  BY <1>7, SameLogKeepsLogInv DEF vars
<1>8. QED
  BY <1>1, <1>2, <1>3, <1>4, <1>5, <1>6, <1>7 DEF Next

LEMMA InitLogInv == Init => LogInv
<1> SUFFICES ASSUME Init PROVE LogInv
  OBVIOUS
<1>1. NoThread \notin Thread /\ "INFO" \in LogLevel
  BY LoggerAssumption DEF LogLevel
<1>2. <<>> \in Seq(Frame) /\ DOMAIN <<>> = {}
  OBVIOUS
<1>3. LogTypes
  BY <1>1, <1>2 DEF Init, LogInit, LogTypes
<1>4. \A p \in Process, t \in Thread : frames[p][t] = <<>> /\ holder[p] = NoThread
  BY DEF Init, LogInit
<1>5. LinesWhole
  BY <1>1, <1>2, <1>4 DEF LinesWhole, Holding
<1>6. FramesInv
  BY <1>2, <1>4 DEF FramesInv
<1>7. QED
  BY <1>3, <1>5, <1>6 DEF LogInv

LEMMA LogInvariant == Spec => []LogInv
<1>1. Init => LogInv
  BY InitLogInv
<1>2. LogInv /\ [Next]_vars => LogInv'
  BY NextKeepsLogInv
<1> HIDE DEF Init, Next, vars, LogInv
<1>3. QED
  BY <1>1, <1>2, PTL DEF Spec

\* Lines of the log are written one at a time, with any number of threads and
\* signals: whoever is between lock and unlock in log_message owns the mutex, in
\* one call only.
THEOREM LogLinesAreWhole == Spec => []LinesWhole
<1>1. LogInv => LinesWhole
  BY DEF LogInv
<1> HIDE DEF LogInv, LinesWhole
<1>2. QED
  BY <1>1, LogInvariant, PTL

\* The owner's open call lies below the one that waits, and the first call of a
\* stack is the only one that is not a signal's.
LEMMA DeadlockLemma == LogInv => OnlySignalsDeadlock
<1> SUFFICES ASSUME LogInv, NEW p \in Process, NEW t \in Thread,
                    holder[p] = t, AtStage(p, t, "lock")
             PROVE  Logs(p) /\ Top(p, t).code \in Signal /\ Len(frames[p][t]) > 1
  BY DEF OnlySignalsDeadlock, Deadlocked
<1> DEFINE s == frames[p][t]
<1>1. s \in Seq(Frame) /\ s # <<>> /\ s[Len(s)].stage = "lock"
  BY DEF LogInv, LogTypes, AtStage, Idle, Top
<1>2. Len(s) \in Nat \ {0} /\ DOMAIN s = 1 .. Len(s) /\ Len(s) \in DOMAIN s
  BY <1>1
<1>3. Holding(p, t)
  BY DEF LogInv, LinesWhole
<1>4. PICK i \in DOMAIN s : s[i].stage = "write"
  BY <1>3 DEF Holding
<1> HIDE DEF s
<1>5. i # Len(s)
  BY <1>1, <1>4
<1>6. Len(s) > 1
  BY <1>2, <1>4, <1>5
<1>7. s[Len(s)] \in Frame
  BY <1>1, <1>2
<1>8. s[Len(s)].code # "call"
  BY <1>2, <1>6 DEF LogInv, FramesInv, s
<1>9. s[Len(s)].code \in Signal
  BY <1>7, <1>8 DEF Frame
<1>10. Logs(p)
  BY <1>2, <1>9 DEF LogInv, FramesInv, s
<1>11. QED
  BY <1>6, <1>9, <1>10 DEF Top, s

\* A thread waits for itself only where the handler of a signal that logs runs
\* on top of a log call: with any depth of handlers, log calls alone never
\* deadlock and neither does a process that logs errors only.
THEOREM DeadlockNeedsSignal == Spec => []OnlySignalsDeadlock
<1>1. LogInv => OnlySignalsDeadlock
  BY DeadlockLemma
<1> HIDE DEF LogInv, OnlySignalsDeadlock
<1>2. QED
  BY <1>1, LogInvariant, PTL

-----------------------------------------------------------------------------
(* The PID file. *)

DaemonTypes ==
  /\ at \in [Process -> Starting \cup Serving \cup Ending \cup Down]
  /\ pid \in [Process -> Pid \cup {NoPid}]
  /\ foreign \subseteq Pid
  /\ pid_file \in Pid \cup {NoFile, Empty}
  /\ writers \subseteq Process
  /\ overlapped \in BOOLEAN /\ killed \in BOOLEAN

\* A process has the PID of its daemon from the fork on.
PidInv ==
  \A p \in Process :
    IF at[p] \in Down \cup {"check", "stale", "fork"}
    THEN pid[p] = NoPid
    ELSE pid[p] \in Pid

\* Starts that do not overlap: the one that has passed check_if_running is alone,
\* and the file that it writes to is the one called PID_FILE.
SoloInv ==
  ~overlapped =>
    /\ \A p, q \in Process : at[p] \in Starting /\ at[q] \in Starting => p = q
    /\ \A p, q \in Process : at[p] \in Serving /\ at[q] \in Serving => p = q
    /\ \A p \in Process : at[p] \in Serving => pid_file = pid[p]
    /\ \A p, q \in Process :
         at[p] \in Starting \ {"check"} => at[q] \notin Serving
    /\ \A p \in Process : at[p] = "write" => p \in writers

\* Without a kill, a PID file belongs to somebody who will remove it.
FileInv ==
  ~killed /\ pid_file # NoFile =>
    \E p \in Process : at[p] \in {"write"} \cup Serving

DaemonInv == DaemonTypes /\ PidInv /\ SoloInv /\ FileInv

\* Where one process goes, the others stay.
LEMMA StepLemma ==
  ASSUME DaemonTypes, NEW p \in Process, NEW to,
         at' = [at EXCEPT ![p] = to]
  PROVE  at'[p] = to /\ \A q \in Process \ {p} : at'[q] = at[q]
  BY DEF DaemonTypes

\* A step of the main thread that leaves the PID file and the PIDs alone.  It goes
\* past the check only when no live process is in the file.
LEMMA MoveKeepsDaemonInv ==
  ASSUME DaemonInv, NEW p \in Process, NEW from, NEW to,
         at[p] = from, at' = [at EXCEPT ![p] = to],
         UNCHANGED <<pid, foreign, fileVars, overlapped, killed>>,
         \/ from = "check" /\ to \in {"stale", "fork"} /\ pid_file \notin Live
         \/ from \in Serving /\ to \in Serving
         \/ from \in Ending /\ to \in Ending
  PROVE  DaemonInv'
<1> USE DaemonAssumption DEF Starting, Serving, Ending, Down, fileVars
<1>1. at'[p] = to /\ \A q \in Process \ {p} : at'[q] = at[q]
  BY StepLemma DEF DaemonInv
<1>2. DaemonTypes'
  BY DEF DaemonInv, DaemonTypes
<1>3. PidInv'
  BY <1>1 DEF DaemonInv, PidInv
<1>4. SoloInv'
  BY <1>1 DEF DaemonInv, PidInv, SoloInv, Live
<1>5. FileInv'
  BY <1>1 DEF DaemonInv, FileInv
<1>6. QED
  BY <1>2, <1>3, <1>4, <1>5 DEF DaemonInv

\* A process that ends leaves a PID file of its own only if it is killed.
LEMMA EndsKeepsDaemonInv ==
  ASSUME DaemonInv, NEW p \in Process, NEW to \in Down,
         at' = [at EXCEPT ![p] = to], Ends(p),
         UNCHANGED <<foreign, pid_file, overlapped>>,
         killed' \in BOOLEAN, killed => killed',
         at[p] \in {"write"} \cup Serving => killed'
  PROVE  DaemonInv'
<1> USE DaemonAssumption DEF Starting, Serving, Ending, Down
<1>1. at'[p] = to /\ \A q \in Process \ {p} : at'[q] = at[q]
  BY StepLemma DEF DaemonInv
<1>2. pid' = [pid EXCEPT ![p] = NoPid] /\ writers' = writers \ {p}
  BY DEF Ends
<1>3. DaemonTypes'
  BY <1>2 DEF DaemonInv, DaemonTypes
<1>4. pid'[p] = NoPid /\ \A q \in Process \ {p} : pid'[q] = pid[q]
  BY <1>2 DEF DaemonInv, DaemonTypes
<1>5. PidInv'
  BY <1>1, <1>4 DEF DaemonInv, PidInv
<1>6. SoloInv'
  BY <1>1, <1>2, <1>4 DEF DaemonInv, SoloInv
<1>7. FileInv'
  BY <1>1 DEF DaemonInv, FileInv
<1>8. QED
  BY <1>3, <1>5, <1>6, <1>7 DEF DaemonInv

\* A start during another one is the overlap; one when everybody is down has
\* nothing to overlap with.
LEMMA StartKeepsDaemonInv ==
  ASSUME DaemonInv, NEW p \in Process, Start(p)
  PROVE  DaemonInv'
<1> USE DaemonAssumption DEF Starting, Serving, Ending, Down, fileVars
<1>1. /\ at[p] \in Down /\ at' = [at EXCEPT ![p] = "check"]
      /\ UNCHANGED <<pid, foreign, pid_file, writers, killed>>
      /\ overlapped' = \/ \E q \in Process : at[q] \in Starting
                       \/ overlapped /\ \E q \in Process : Up(q)
  BY DEF Start
<1>2. at'[p] = "check" /\ \A q \in Process \ {p} : at'[q] = at[q]
  BY <1>1, StepLemma DEF DaemonInv
<1>3. overlapped' \in BOOLEAN
  BY <1>1, Zenon
<1>4. DaemonTypes'
  BY <1>1, <1>3 DEF DaemonInv, DaemonTypes
<1>5. PidInv'
  BY <1>1, <1>2 DEF DaemonInv, PidInv
<1>6. SoloInv'
  <2>1. SUFFICES ASSUME ~overlapped' PROVE SoloInv'
    BY DEF SoloInv
  <2>2. /\ \A q \in Process : at[q] \notin Starting
        /\ overlapped => \A q \in Process : at[q] \in Down
    BY <1>1, <2>1 DEF Up
  <2>3. QED
    BY <1>1, <1>2, <2>2 DEF DaemonInv, SoloInv
<1>7. FileInv'
  BY <1>1, <1>2 DEF DaemonInv, FileInv
<1>8. QED
  BY <1>4, <1>5, <1>6, <1>7 DEF DaemonInv

\* Nobody writes to the file that is removed as stale.
LEMMA RemoveStaleKeepsDaemonInv ==
  ASSUME DaemonInv, NEW p \in Process, RemoveStale(p)
  PROVE  DaemonInv'
<1> USE DaemonAssumption DEF Starting, Serving, Ending, Down, fileVars
<1>1. /\ at[p] = "stale" /\ at' = [at EXCEPT ![p] = "fork"]
      /\ pid_file' = NoFile /\ writers' = {}
      /\ UNCHANGED <<pid, foreign, overlapped, killed>>
  BY DEF RemoveStale, Step
<1>2. at'[p] = "fork" /\ \A q \in Process \ {p} : at'[q] = at[q]
  BY <1>1, StepLemma DEF DaemonInv
<1>3. DaemonTypes'
  BY <1>1 DEF DaemonInv, DaemonTypes, PidInv, Live
<1>4. PidInv'
  BY <1>1, <1>2 DEF DaemonInv, PidInv, Live
<1>5. SoloInv'
  BY <1>1, <1>2 DEF DaemonInv, PidInv, SoloInv
<1>6. FileInv'
  BY <1>1, <1>2 DEF DaemonInv, FileInv
<1>7. QED
  BY <1>3, <1>4, <1>5, <1>6 DEF DaemonInv

\* The new file belongs to the process that starts.
LEMMA CreateKeepsDaemonInv ==
  ASSUME DaemonInv, NEW p \in Process, CreatePidFile(p)
  PROVE  DaemonInv'
<1> USE DaemonAssumption DEF Starting, Serving, Ending, Down, fileVars
<1>1. /\ at[p] = "create" /\ at' = [at EXCEPT ![p] = "write"]
      /\ pid_file' = Empty /\ writers' = writers \cup {p}
      /\ UNCHANGED <<pid, foreign, overlapped, killed>>
  BY DEF CreatePidFile, Step
<1>2. at'[p] = "write" /\ \A q \in Process \ {p} : at'[q] = at[q]
  BY <1>1, StepLemma DEF DaemonInv
<1>3. DaemonTypes'
  BY <1>1 DEF DaemonInv, DaemonTypes, PidInv, Live
<1>4. PidInv'
  BY <1>1, <1>2 DEF DaemonInv, PidInv, Live
<1>5. SoloInv'
  BY <1>1, <1>2 DEF DaemonInv, PidInv, SoloInv
<1>6. FileInv'
  BY <1>1, <1>2 DEF DaemonInv, FileInv
<1>7. QED
  BY <1>3, <1>4, <1>5, <1>6 DEF DaemonInv

\* The number goes to the file called PID_FILE, if the start is alone.
LEMMA WriteKeepsDaemonInv ==
  ASSUME DaemonInv, NEW p \in Process, WritePid(p)
  PROVE  DaemonInv'
<1> USE DaemonAssumption DEF Starting, Serving, Ending, Down, fileVars
<1>1. /\ at[p] = "write" /\ at' = [at EXCEPT ![p] = "server"]
      /\ pid_file' = IF p \in writers THEN pid[p] ELSE pid_file
      /\ writers' = writers \ {p}
      /\ UNCHANGED <<pid, foreign, overlapped, killed>>
  BY DEF WritePid, Step
<1>2. at'[p] = "server" /\ \A q \in Process \ {p} : at'[q] = at[q]
  BY <1>1, StepLemma DEF DaemonInv
<1>3. DaemonTypes'
  BY <1>1 DEF DaemonInv, DaemonTypes, PidInv, Live
<1>4. PidInv'
  BY <1>1, <1>2 DEF DaemonInv, PidInv, Live
<1>5. SoloInv'
  BY <1>1, <1>2 DEF DaemonInv, PidInv, SoloInv
<1>6. FileInv'
  BY <1>1, <1>2 DEF DaemonInv, FileInv
<1>7. QED
  BY <1>3, <1>4, <1>5, <1>6 DEF DaemonInv

\* The daemon that leaves is the only one, so that the file is its own.
LEMMA RemoveKeepsDaemonInv ==
  ASSUME DaemonInv, NEW p \in Process, RemovePidFile(p)
  PROVE  DaemonInv'
<1> USE DaemonAssumption DEF Starting, Serving, Ending, Down, fileVars
<1>1. /\ at[p] = "leave" /\ at' = [at EXCEPT ![p] = "removed"]
      /\ pid_file' = NoFile /\ writers' = {}
      /\ UNCHANGED <<pid, foreign, overlapped, killed>>
  BY DEF RemovePidFile, Step
<1>2. at'[p] = "removed" /\ \A q \in Process \ {p} : at'[q] = at[q]
  BY <1>1, StepLemma DEF DaemonInv
<1>3. DaemonTypes'
  BY <1>1 DEF DaemonInv, DaemonTypes, PidInv, Live
<1>4. PidInv'
  BY <1>1, <1>2 DEF DaemonInv, PidInv, Live
<1>5. SoloInv'
  BY <1>1, <1>2 DEF DaemonInv, PidInv, SoloInv
<1>6. FileInv'
  BY <1>1, <1>2 DEF DaemonInv, FileInv
<1>7. QED
  BY <1>3, <1>4, <1>5, <1>6 DEF DaemonInv

\* The daemon gets a PID that nobody has.
LEMMA ForkKeepsDaemonInv ==
  ASSUME DaemonInv, NEW p \in Process, Fork(p)
  PROVE  DaemonInv'
<1> USE DaemonAssumption DEF Starting, Serving, Ending, Down, fileVars
<1>1. /\ at[p] = "fork" /\ at' = [at EXCEPT ![p] = "create"]
      /\ UNCHANGED <<foreign, pid_file, writers, overlapped, killed>>
  BY DEF Fork, Step
<1>2. PICK n \in Pid : pid' = [pid EXCEPT ![p] = n]
  BY DEF Fork
<1>3. at'[p] = "create" /\ \A q \in Process \ {p} : at'[q] = at[q]
  BY <1>1, StepLemma DEF DaemonInv
<1>4. pid'[p] = n /\ \A q \in Process \ {p} : pid'[q] = pid[q]
  BY <1>2 DEF DaemonInv, DaemonTypes
<1>5. DaemonTypes'
  BY <1>1, <1>2 DEF DaemonInv, DaemonTypes
<1>6. PidInv'
  BY <1>1, <1>3, <1>4 DEF DaemonInv, PidInv
<1>7. SoloInv'
  BY <1>1, <1>3, <1>4 DEF DaemonInv, SoloInv
<1>8. FileInv'
  BY <1>1, <1>3 DEF DaemonInv, FileInv
<1>9. QED
  BY <1>5, <1>6, <1>7, <1>8 DEF DaemonInv

LEMMA SameDaemonKeepsDaemonInv ==
  ASSUME DaemonInv, UNCHANGED <<at, pid, foreign, fileVars, overlapped, killed>>
  PROVE  DaemonInv'
  BY DEF DaemonInv, DaemonTypes, PidInv, SoloInv, FileInv, fileVars

LEMMA ForeignKeepsDaemonInv ==
  ASSUME DaemonInv, ForeignChange
  PROVE  DaemonInv'
<1>1. foreign' \subseteq Pid
  BY DEF ForeignChange, DaemonInv, DaemonTypes
<1>2. QED
  BY <1>1 DEF ForeignChange, fileVars, DaemonInv, DaemonTypes, PidInv, SoloInv, FileInv

LEMMA MainKeepsDaemonInv ==
  ASSUME DaemonInv, NEW p \in Process, MainStep(p)
  PROVE  DaemonInv'
<1>1. CASE CheckFree(p) \/ CheckStale(p)
  <2>1. at[p] = "check" /\ UNCHANGED <<pid, foreign, fileVars, overlapped, killed>>
    BY <1>1 DEF CheckFree, CheckStale, Step, machine
  <2>2. PICK to \in {"stale", "fork"} : at' = [at EXCEPT ![p] = to]
    BY <1>1 DEF CheckFree, CheckStale, Step
  <2>3. Live \subseteq Pid \cup {NoPid}
    BY DEF Live, DaemonInv, DaemonTypes
  <2>4. pid_file \notin Live
    BY <1>1, <2>3, DaemonAssumption DEF CheckFree, CheckStale
  <2>5. QED
    BY <2>1, <2>2, <2>4, MoveKeepsDaemonInv
<1>2. CASE CheckRefused(p) \/ DaemonizeFails(p) \/ Exit(p)
  <2>1. PICK to \in Down : at' = [at EXCEPT ![p] = to]
    BY <1>2 DEF CheckRefused, DaemonizeFails, Exit, Step, Down
  <2>2. /\ at[p] \notin {"write"} \cup Serving
        /\ Ends(p) /\ UNCHANGED <<foreign, pid_file, overlapped, killed>>
    BY <1>2 DEF CheckRefused, DaemonizeFails, Exit, Step, Serving
  <2>3. killed \in BOOLEAN
    BY DEF DaemonInv, DaemonTypes
  <2>4. killed' \in BOOLEAN /\ (killed => killed')
    BY <2>2, <2>3
  <2>5. QED
    BY <2>1, <2>2, <2>4, EndsKeepsDaemonInv
<1>3. CASE \/ StartServer(p) \/ ServerFails(p) \/ LeaveLoop(p) \/ CleanupServer(p)
           \/ ReloadFails(p) \/ SayGoodbye(p)
  <2>1. UNCHANGED <<pid, foreign, fileVars, overlapped, killed>>
    BY <1>3 DEF StartServer, ServerFails, LeaveLoop, CleanupServer, ReloadFails,
                SayGoodbye, machine
  <2>2. CASE SayGoodbye(p)
    <3>1. at[p] = "removed" /\ at' = [at EXCEPT ![p] = "close"]
      BY <2>2 DEF SayGoodbye, Step
    <3>2. "removed" \in Ending /\ "close" \in Ending
      BY DEF Ending
    <3>3. QED
      BY <2>1, <3>1, <3>2, MoveKeepsDaemonInv
  <2>3. CASE ~SayGoodbye(p)
    <3>1. PICK to \in Serving : at[p] \in Serving /\ at' = [at EXCEPT ![p] = to]
      BY <1>3, <2>3
         DEF StartServer, ServerFails, LeaveLoop, CleanupServer, ReloadFails, Step,
             Serving
    <3>2. QED
      BY <2>1, <3>1, MoveKeepsDaemonInv
  <2>4. QED
    BY <2>2, <2>3
<1>4. CASE Reload(p)
  BY <1>4, SameDaemonKeepsDaemonInv DEF Reload, daemonVars, machine
<1>5. QED
  BY <1>1, <1>2, <1>3, <1>4, RemoveStaleKeepsDaemonInv, CreateKeepsDaemonInv,
     WriteKeepsDaemonInv, RemoveKeepsDaemonInv, ForkKeepsDaemonInv DEF MainStep

LEMMA KillKeepsDaemonInv ==
  ASSUME DaemonInv, NEW p \in Process, Kill(p)
  PROVE  DaemonInv'
<1>1. killed'
  BY DEF Kill
<1>2. killed' \in BOOLEAN
  BY Zenon DEF Kill
<1>3. /\ Ends(p) /\ UNCHANGED <<foreign, pid_file, overlapped>>
      /\ "down" \in Down /\ at' = [at EXCEPT ![p] = "down"]
  BY DEF Kill, Down
<1>4. QED
  BY <1>1, <1>2, <1>3, EndsKeepsDaemonInv

LEMMA NextKeepsDaemonInv ==
  ASSUME DaemonInv, [Next]_vars
  PROVE  DaemonInv'
<1>1. CASE \E p \in Process : Start(p)
  BY <1>1, StartKeepsDaemonInv
<1>2. CASE \E p \in Process : MainStep(p)
  BY <1>2, MainKeepsDaemonInv
<1>3. CASE \E p \in Process : Kill(p)
  BY <1>3, KillKeepsDaemonInv
<1>4. CASE \E p \in Process : \/ LogActivity(p)
                              \/ \E t \in Thread : LogGoesOn(p, t)
  BY <1>4, SameDaemonKeepsDaemonInv DEF LogActivity, LogGoesOn, daemonVars, machine
<1>5. CASE ForeignChange
  BY <1>5, ForeignKeepsDaemonInv
<1>6. CASE UNCHANGED vars
  BY <1>6, SameDaemonKeepsDaemonInv DEF vars, daemonVars, machine
<1>7. QED
  BY <1>1, <1>2, <1>3, <1>4, <1>5, <1>6 DEF Next

LEMMA InitDaemonInv == Init => DaemonInv
<1> SUFFICES ASSUME Init PROVE DaemonInv
  OBVIOUS
<1> USE DaemonAssumption DEF Starting, Serving, Ending, Down
<1>1. /\ at = [p \in Process |-> "down"] /\ pid = [p \in Process |-> NoPid]
      /\ foreign = {} /\ pid_file = NoFile /\ writers = {}
  BY DEF Init
<1>2. overlapped \in BOOLEAN /\ killed \in BOOLEAN
  BY Zenon DEF Init
<1>3. DaemonTypes
  BY <1>1, <1>2 DEF DaemonTypes
<1>4. PidInv /\ SoloInv /\ FileInv
  BY <1>1 DEF PidInv, SoloInv, FileInv
<1>5. QED
  BY <1>3, <1>4 DEF DaemonInv

LEMMA DaemonInvariant == Spec => []DaemonInv
<1>1. Init => DaemonInv
  BY InitDaemonInv
<1>2. DaemonInv /\ [Next]_vars => DaemonInv'
  BY NextKeepsDaemonInv
<1> HIDE DEF Init, Next, vars, DaemonInv
<1>3. QED
  BY <1>1, <1>2, PTL DEF Spec

\* Every variable of main.c's and daemon.c's model has its type.
THEOREM DaemonTypeCorrectness == Spec => []TypeOK
<1>1. LogInv /\ DaemonInv => TypeOK
  BY DEF LogInv, LogTypes, DaemonInv, DaemonTypes, TypeOK
<1> HIDE DEF LogInv, DaemonInv, TypeOK
<1>2. QED
  BY <1>1, LogInvariant, DaemonInvariant, PTL

\* With any number of programs that start, end and are killed: unless two starts
\* overlap, a daemon that is not leaving is the only one and its PID is in the
\* file that check_if_running and the service commands read.
THEOREM DaemonIsFoundByPidFile == Spec => []FoundByPidFile
<1>1. DaemonInv => FoundByPidFile
  BY DEF DaemonInv, SoloInv, FoundByPidFile
<1> HIDE DEF DaemonInv, FoundByPidFile
<1>2. QED
  BY <1>1, DaemonInvariant, PTL

\* remove_pid_file is reached on every way out that is not a kill, and no start
\* puts a file back: none is left when everybody has ended.
THEOREM NoPidFileIsLeft == Spec => []NoFileLeft
<1>1. DaemonInv => NoFileLeft
  <2> SUFFICES ASSUME DaemonInv, \A p \in Process : ~Up(p), ~killed
               PROVE  pid_file = NoFile
    BY DEF NoFileLeft
  <2>1. \A p \in Process : at[p] \notin {"write"} \cup Serving
    BY DEF Up, Down, Serving
  <2>2. QED
    BY <2>1 DEF DaemonInv, FileInv
<1> HIDE DEF DaemonInv, NoFileLeft
<1>2. QED
  BY <1>1, DaemonInvariant, PTL

\* Only check_if_running refuses, and what it has found is alive.
LEMMA RefusedLemma ==
  ASSUME DaemonInv, [Next]_vars, NEW p \in Process,
         at[p] = "check", at'[p] = "refused"
  PROVE  \/ \E q \in Process \ {p} : Up(q)
         \/ killed /\ pid_file \in foreign
<1>1. CheckRefused(p)
  <2>1. \E q \in Process : Start(q) \/ MainStep(q) \/ Kill(q)
    BY DEF Next, vars, daemonVars, LogActivity, LogGoesOn, ForeignChange
  <2>2. PICK q \in Process : Start(q) \/ MainStep(q) \/ Kill(q)
    BY <2>1
  <2>3. ~Reload(q)
    BY DEF Reload, daemonVars
  <2>4. \A to : at' = [at EXCEPT ![q] = to] => q = p /\ to = "refused"
    BY DEF DaemonInv, DaemonTypes
  <2>5. QED
    BY <2>2, <2>3, <2>4
       DEF Start, MainStep, Kill, Step, CheckFree, CheckRefused, CheckStale,
           RemoveStale, Fork, DaemonizeFails, CreatePidFile, WritePid, StartServer,
           ServerFails, ReloadFails, LeaveLoop, CleanupServer, RemovePidFile,
           SayGoodbye, Exit
<1>2. pid[p] = NoPid
  BY DEF DaemonInv, PidInv
<1>3. pid_file \in Live /\ pid_file # NoPid
  BY <1>1, DaemonAssumption DEF CheckRefused, DaemonInv, DaemonTypes
<1>4. CASE \E q \in Process : pid_file = pid[q]
  <2>1. PICK q \in Process : pid_file = pid[q]
    BY <1>4
  <2>2. q # p /\ at[q] \notin Down
    BY <1>2, <1>3, <2>1 DEF DaemonInv, PidInv
  <2>3. QED
    BY <2>1, <2>2 DEF Up
<1>5. CASE pid_file \in foreign /\ ~killed
  <2>1. pid_file # NoFile
    BY <1>5, DaemonAssumption DEF DaemonInv, DaemonTypes
  <2>2. PICK q \in Process : at[q] \in {"write"} \cup Serving
    BY <1>5, <2>1 DEF DaemonInv, FileInv
  <2>3. q # p /\ Up(q)
    BY <2>2 DEF Up, Down, Serving
  <2>4. QED
    BY <2>3
<1>6. QED
  BY <1>3, <1>4, <1>5 DEF Live

\* A start is refused only if another program of imageserver is up, or if a kill
\* left a PID behind that another program has got since: the file of a crash does
\* not stand in the way by itself.
THEOREM RefusalHasACause == Spec => RefusedForCause
<1>1. DaemonInv /\ [Next]_vars =>
        [\A p \in Process :
           at[p] = "check" /\ at'[p] = "refused" =>
             \/ \E q \in Process \ {p} : Up(q)
             \/ killed /\ pid_file \in foreign]_vars
  BY RefusedLemma
<1> HIDE DEF Next, vars, DaemonInv
<1>2. QED
  BY <1>1, DaemonInvariant, PTL DEF Spec, RefusedForCause
=============================================================================
