--------------------------- MODULE PriorityQueue ---------------------------
(***************************************************************************)
(* The processing queue of src/priority_queue.c: a binary min-heap in an   *)
(* array, protected by queue_mutex, filled by the handler threads and      *)
(* emptied by the file processor thread, which waits on queue_not_empty    *)
(* with a timeout of one second; and the shutdown, stop_file_processor     *)
(* followed by destroy_priority_queue, run by the main thread while        *)
(* handlers may still be enqueueing.                                       *)
(*                                                                         *)
(* An action is one critical step of one thread; each iteration of a       *)
(* bubble loop is an action of its own, taken with the mutex held.         *)
(* Logging, the text of the items and queue_not_full (nobody ever waits on *)
(* it) are left out.  Each handler thread uploads one file, so a file is   *)
(* named by its handler.                                                   *)
(***************************************************************************)
EXTENDS Integers, FiniteSets

CONSTANTS Handler,       \* the client handler threads
          Priority,      \* (int)file_size of the uploads
          MaxQueueSize,  \* MAX_QUEUE_SIZE, 100 in the code
          Processor,     \* the file processor thread, as owner of the mutex
          Free,          \* the value of queue_mutex when nobody owns it
          NoItem         \* the processor's uninitialised item

ASSUME ConstantsAssumption ==
  /\ Priority \subseteq Int
  /\ MaxQueueSize \in Nat \ {0}
  /\ Processor \notin Handler
  /\ Free \notin Handler \cup {Processor}
  /\ NoItem \notin [file : Handler, priority : Priority]

VARIABLES
  items,              \* processing_queue.items, only the cells below size
  size,               \* processing_queue.size
  active,             \* processing_queue.active
  queue_mutex,        \* the thread that owns processing_queue.queue_mutex
  destroyed,          \* has pthread_mutex_destroy(&queue_mutex) been done?
  processor_running,  \* the global flag of the processor loop
  pos,                \* local pos of the thread that runs a bubble loop
  item,               \* the processor's local item
  dequeued,           \* history: the files the processor was given
  hpc,                \* where each handler is in enqueue_file_for_processing
  ppc,                \* where the processor thread is
  mpc                 \* where the main thread is in the shutdown

heapVars == <<items, size, pos>>
vars == <<items, size, active, queue_mutex, destroyed, processor_running,
          pos, item, dequeued, hpc, ppc, mpc>>

Item == [file : Handler, priority : Priority]

Parent(i) == (i - 1) \div 2
Cells     == 0 .. size - 1
Queued    == {items[i] : i \in Cells}
QueuedFiles == {items[i].file : i \in Cells}

\* Mutant: the first copy overwrites the item that the second should move.
SwappedWithoutTemp(i, j) == [items EXCEPT ![i] = items[j]]

Swapped(i, j) == [items EXCEPT ![i] = items[j], ![j] = items[i]]

\* Mutant: off by one.
QueueFullOffByOne == size > MaxQueueSize

QueueFull == size >= MaxQueueSize

Init ==
  /\ items = [i \in 0 .. -1 |-> NoItem]
  /\ size = 0
  /\ active = TRUE
  /\ queue_mutex = Free
  /\ destroyed = FALSE
  /\ processor_running = TRUE
  /\ pos = 0
  /\ item = NoItem
  /\ dequeued = {}
  /\ hpc = [h \in Handler |-> "ready"]
  /\ ppc = "loop"
  /\ mpc = "serving"

-----------------------------------------------------------------------------
(* enqueue_file_for_processing, run by handler h.  It never looks at active. *)

EnqueueLock(h) ==
  /\ hpc[h] = "ready"
  /\ ~destroyed
  /\ queue_mutex = Free
  /\ queue_mutex' = h
  /\ hpc' = [hpc EXCEPT ![h] = "insert"]
  /\ UNCHANGED <<heapVars, active, destroyed, processor_running, item,
                 dequeued, ppc, mpc>>

\* The two early returns: no room, or stat() says that the temporary file is
\* gone or is no regular file.
EnqueueReject(h) ==
  /\ hpc[h] = "insert"
  /\ \E statFails \in BOOLEAN : QueueFull \/ statFails
  /\ queue_mutex' = Free
  /\ hpc' = [hpc EXCEPT ![h] = "rejected"]
  /\ UNCHANGED <<heapVars, active, destroyed, processor_running, item,
                 dequeued, ppc, mpc>>

\* The new item goes to the end of the array.
EnqueueInsert(h) ==
  /\ hpc[h] = "insert"
  /\ ~QueueFull
  /\ \E p \in Priority :
       items' = [i \in 0 .. size |->
                   IF i = size
                   THEN [file |-> h, priority |-> p] ELSE items[i]]
  /\ pos' = size
  /\ size' = size + 1
  /\ hpc' = [hpc EXCEPT ![h] = "bubble_up"]
  /\ UNCHANGED <<active, queue_mutex, destroyed, processor_running, item,
                 dequeued, ppc, mpc>>

\* Mutant: the loop stops one cell early, so that cell 1 never rises.
MustRiseOffByOne == pos > 1 /\ items[pos].priority < items[Parent(pos)].priority

MustRise == pos > 0 /\ items[pos].priority < items[Parent(pos)].priority

BubbleUp(h) ==
  /\ hpc[h] = "bubble_up"
  /\ MustRise
  /\ items' = Swapped(Parent(pos), pos)
  /\ pos' = Parent(pos)
  /\ UNCHANGED <<size, active, queue_mutex, destroyed, processor_running,
                 item, dequeued, hpc, ppc, mpc>>

\* Mutant: nobody is woken.
SignalNobody == UNCHANGED ppc

\* pthread_cond_signal(&queue_not_empty): wakes the processor if it waits.
Signal == ppc' = IF ppc = "waiting" THEN "woken" ELSE ppc

EnqueueReturn(h) ==
  /\ hpc[h] = "bubble_up"
  /\ ~MustRise
  /\ Signal
  /\ queue_mutex' = Free
  /\ hpc' = [hpc EXCEPT ![h] = "accepted"]
  /\ UNCHANGED <<heapVars, active, destroyed, processor_running, item,
                 dequeued, mpc>>

\* After the shutdown the mutex is no mutex any more: the behaviour is
\* undefined.  The call may return 0 or -1; nobody reads the array again, so
\* its contents are not followed any further.
EnqueueDestroyed(h) ==
  /\ hpc[h] = "ready"
  /\ destroyed
  /\ \E result \in {"accepted_late", "rejected"} :
       hpc' = [hpc EXCEPT ![h] = result]
  /\ UNCHANGED <<heapVars, active, queue_mutex, destroyed, processor_running,
                 item, dequeued, ppc, mpc>>

-----------------------------------------------------------------------------
(* file_processor_thread and the dequeue_file_for_processing it calls. *)

\* while (processor_running)
ProcessorLoop ==
  /\ ppc = "loop"
  /\ ppc' = IF processor_running THEN "lock" ELSE "exited"
  /\ UNCHANGED <<heapVars, active, queue_mutex, destroyed, processor_running,
                 item, dequeued, hpc, mpc>>

\* Takes the mutex on entry, and takes it back when the wait was signalled.
DequeueLock ==
  /\ ppc \in {"lock", "woken"}
  /\ queue_mutex = Free
  /\ queue_mutex' = Processor
  /\ ppc' = "test"
  /\ UNCHANGED <<heapVars, active, destroyed, processor_running, item,
                 dequeued, hpc, mpc>>

\* pthread_cond_timedwait releases the mutex and sleeps in one step.
DequeueWait ==
  /\ ppc = "test"
  /\ size = 0
  /\ active
  /\ queue_mutex' = Free
  /\ ppc' = "waiting"
  /\ UNCHANGED <<heapVars, active, destroyed, processor_running, item,
                 dequeued, hpc, mpc>>

\* A condition variable may wake its waiter for no reason.
SpuriousWakeup ==
  /\ ppc = "waiting"
  /\ ppc' = "woken"
  /\ UNCHANGED <<heapVars, active, queue_mutex, destroyed, processor_running,
                 item, dequeued, hpc, mpc>>

\* Mutant: a wait that times out is begun again.
WaitAgain ==
  /\ ppc = "waiting"
  /\ ppc' = "woken"
  /\ UNCHANGED <<heapVars, active, queue_mutex, destroyed, processor_running,
                 item, dequeued, hpc, mpc>>

\* One second has passed.  The deadline is fixed on entry, so that a woken
\* thread that waits again may also find it expired.
WaitTimeout ==
  /\ ppc = "waiting"
  /\ ppc' = "timed_out"
  /\ UNCHANGED <<heapVars, active, queue_mutex, destroyed, processor_running,
                 item, dequeued, hpc, mpc>>

\* The call returns -1: on ETIMEDOUT without looking at the queue again, or
\* because the queue is no longer active.
GivesUp == \/ ppc = "timed_out" /\ queue_mutex = Free
           \/ ppc = "test" /\ ~active

DequeueFail ==
  /\ GivesUp
  /\ queue_mutex' = Free
  /\ ppc' = "loop"
  /\ UNCHANGED <<heapVars, active, destroyed, processor_running, item,
                 dequeued, hpc, mpc>>

\* The root is taken out and the last cell moves to the root.
DequeueExtract ==
  /\ ppc = "test"
  /\ active
  /\ size > 0
  /\ item' = items[0]
  /\ dequeued' = dequeued \cup {items[0].file}
  /\ size' = size - 1
  /\ items' = [i \in 0 .. size - 2 |->
                 IF i = 0 THEN items[size - 1] ELSE items[i]]
  /\ pos' = 0
  /\ ppc' = "bubble_down"
  /\ UNCHANGED <<active, queue_mutex, destroyed, processor_running,
                 hpc, mpc>>

\* Mutant: the right child is looked at only if the left one is not smaller.
SmallestElseIf(p) ==
  LET Below(q) == q < size /\ items[q].priority < items[p].priority
  IN  IF Below(2 * p + 1) THEN 2 * p + 1
      ELSE IF Below(2 * p + 2) THEN 2 * p + 2 ELSE p

\* The cell with the smallest priority among p and its children; the left
\* child is looked at first.
Smallest(p) ==
  LET left  == 2 * p + 1
      right == 2 * p + 2
      s     == IF left < size /\ items[left].priority < items[p].priority
               THEN left ELSE p
  IN  IF right < size /\ items[right].priority < items[s].priority
      THEN right ELSE s

MustSink == size > 0 /\ Smallest(pos) # pos

BubbleDown ==
  /\ ppc = "bubble_down"
  /\ MustSink
  /\ items' = Swapped(pos, Smallest(pos))
  /\ pos' = Smallest(pos)
  /\ UNCHANGED <<size, active, queue_mutex, destroyed, processor_running,
                 item, dequeued, hpc, ppc, mpc>>

DequeueReturn ==
  /\ ppc = "bubble_down"
  /\ ~MustSink
  /\ queue_mutex' = Free
  /\ ppc' = "process"
  /\ UNCHANGED <<heapVars, active, destroyed, processor_running, item,
                 dequeued, hpc, mpc>>

\* Processing of the item, which UploadService.tla looks into.
Process ==
  /\ ppc = "process"
  /\ ppc' = "loop"
  /\ UNCHANGED <<heapVars, active, queue_mutex, destroyed, processor_running,
                 item, dequeued, hpc, mpc>>

-----------------------------------------------------------------------------
(* The shutdown in cleanup_server: stop_file_processor, then               *)
(* destroy_priority_queue.                                                 *)

StopProcessor ==
  /\ mpc = "serving"
  /\ processor_running' = FALSE
  /\ mpc' = "signal"
  /\ UNCHANGED <<heapVars, active, queue_mutex, destroyed, item,
                 dequeued, hpc, ppc>>

StopSignal ==
  /\ mpc = "signal"
  /\ queue_mutex = Free
  /\ Signal
  /\ mpc' = "join"
  /\ UNCHANGED <<heapVars, active, queue_mutex, destroyed, processor_running,
                 item, dequeued, hpc>>

StopJoin ==
  /\ mpc = "join"
  /\ ppc = "exited"
  /\ mpc' = "deactivate"
  /\ UNCHANGED <<heapVars, active, queue_mutex, destroyed, processor_running,
                 item, dequeued, hpc, ppc>>

Deactivate ==
  /\ mpc = "deactivate"
  /\ queue_mutex = Free
  /\ active' = FALSE
  /\ Signal
  /\ mpc' = "destroy"
  /\ UNCHANGED <<heapVars, queue_mutex, destroyed, processor_running, item,
                 dequeued, hpc>>

\* A mutex that a handler owns is not destroyed: pthread_mutex_destroy
\* returns EBUSY, which the code does not look at.
Destroy ==
  /\ mpc = "destroy"
  /\ destroyed' = (queue_mutex = Free)
  /\ mpc' = "done"
  /\ UNCHANGED <<heapVars, active, queue_mutex, processor_running, item,
                 dequeued, hpc, ppc>>

-----------------------------------------------------------------------------
EnqueueStep(h) ==
  \/ EnqueueReject(h) \/ EnqueueInsert(h) \/ BubbleUp(h) \/ EnqueueReturn(h)

HandlerStep(h) == EnqueueLock(h) \/ EnqueueStep(h) \/ EnqueueDestroyed(h)

DequeueStep ==
  \/ ProcessorLoop \/ DequeueLock \/ DequeueWait \/ DequeueFail
  \/ DequeueExtract \/ BubbleDown \/ DequeueReturn \/ Process

ProcessorStep == DequeueStep \/ SpuriousWakeup \/ WaitTimeout

MainStep == StopProcessor \/ StopSignal \/ StopJoin \/ Deactivate \/ Destroy

Next == (\E h \in Handler : HandlerStep(h)) \/ ProcessorStep \/ MainStep

Spec == Init /\ [][Next]_vars

\* Threads that own the mutex, and the processor while it is not asleep, go
\* on running.  Nothing makes a handler call enqueue or the main thread stop.
RunningFairness ==
  /\ \A h \in Handler : WF_vars(EnqueueStep(h))
  /\ WF_vars(DequeueStep)

\* No timeout need ever expire.
FairSpec == Spec /\ RunningFairness

\* Time passes, and a shutdown that has begun goes on.  The deadline of the
\* wait is absolute, so that even a thread that is woken again and again finds
\* it expired at last: strong fairness.
TimePasses ==
  /\ SF_vars(WaitTimeout)
  /\ WF_vars(StopSignal \/ StopJoin \/ Deactivate \/ Destroy)

-----------------------------------------------------------------------------
(* Safety *)

\* The type of every variable; the array never holds more than MAX_QUEUE_SIZE
\* items, and pos is a cell while a bubble loop runs.
TypeOK ==
  /\ size \in 0 .. MaxQueueSize
  /\ items \in [Cells -> Item]
  /\ active \in BOOLEAN
  /\ queue_mutex \in Handler \cup {Processor, Free}
  /\ destroyed \in BOOLEAN
  /\ processor_running \in BOOLEAN
  /\ pos \in Nat
  /\ item \in Item \cup {NoItem}
  /\ dequeued \subseteq Handler
  /\ hpc \in [Handler -> {"ready", "insert", "bubble_up", "accepted",
                         "accepted_late", "rejected"}]
  /\ ppc \in {"loop", "lock", "test", "waiting", "woken", "timed_out",
              "bubble_down", "process", "exited"}
  /\ mpc \in {"serving", "signal", "join", "deactivate", "destroy", "done"}

InOrder(i)  == items[Parent(i)].priority <= items[i].priority
Children(p) == {i \in 1 .. size - 1 : Parent(i) = p}
\* The children of pos are in order with the parent of pos.
SkipsPos    == pos > 0 =>
                 \A i \in Children(pos) :
                   items[Parent(pos)].priority <= items[i].priority

Rising  == \E h \in Handler : hpc[h] = "bubble_up"
Sinking == ppc = "bubble_down"

\* The array is a min-heap whenever no bubble loop runs; while one does, the
\* only pair out of order is pos and its parent (enqueue) or pos and its
\* children (dequeue), so that the loop repairs the heap where it looks.
HeapOrder ==
  /\ Rising  => /\ pos \in Cells
                /\ \A i \in 1 .. size - 1 : i # pos => InOrder(i)
                /\ SkipsPos
  /\ Sinking => /\ size > 0 => pos \in Cells
                /\ \A i \in 1 .. size - 1 : Parent(i) # pos => InOrder(i)
                /\ SkipsPos
  /\ ~Rising /\ ~Sinking => \A i \in 1 .. size - 1 : InOrder(i)

\* No upload is lost or duplicated by moving items around in the array: each
\* one that went in is in exactly one cell or has been given to the processor.
Conservation ==
  /\ \A i, j \in Cells : items[i].file = items[j].file => i = j
  /\ QueuedFiles \cap dequeued = {}
  /\ QueuedFiles \cup dequeued =
       {h \in Handler : hpc[h] \in {"bubble_up", "accepted"}}

\* The heap of the code keeps the promise of FileQueue: bounded, every file
\* once, and the processor is always given a smallest waiting upload.
FQ == INSTANCE FileQueue WITH queue <- Queued
ImplementsFileQueue == FQ!Spec

(* Liveness *)

\* An upload that was accepted is given to the processor in the end, unless
\* the shutdown begins; the signals alone see to that, without any timeout.
AcceptedIsServed ==
  \A h \in Handler :
    hpc[h] = "accepted" ~> (h \in dequeued \/ ~processor_running)

\* A shutdown that has begun ends, as time passes: the join does not hang.
ShutdownCompletes == TimePasses => (~processor_running ~> mpc = "done")
=============================================================================
