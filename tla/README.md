# TLA+ models of ImageServer

ImageServer is a Linux daemon in C (about 3,600 lines under `src/`) that takes
images over HTTP, queues them by size, equalises and classifies them, and
stores the results.  This directory holds TLA+ specifications of it, the TLC
configurations that check them on small instances, and proofs that TLAPS checks
for instances of every size.

Paths such as `src/server.c` are relative to the repository's root.

## 1. The system

### Threads

| thread | code | what it does |
|---|---|---|
| main | `src/main.c` `daemon_main_loop` | starts and stops the server, reloads the configuration |
| server | `src/server.c` `server_thread_func` | accepts, registers, evicts, removes old temporary files |
| handlers, one per connection | `client_handler_thread` | receive one request, answer it, for an upload also save and enqueue it |
| processor | `src/priority_queue.c` `file_processor_thread` | dequeues uploads, smallest first, processes them, answers |

Any of them may be interrupted by `signal_handler` (`src/daemon.c`).

### Components, their state and what makes each correct

| component | state | operations | correctness | status |
|---|---|---|---|---|
| processing queue (`priority_queue.c`) | heap array `items`, `size`, `active`, `queue_mutex`, two condition variables, `processor_running` | enqueue, dequeue, start, stop, destroy | heap order; nothing lost or doubled; the smallest is served; accepted uploads are served; shutdown ends and destroys nothing in use | modelled, proved |
| client connections (`server.c`) | `clients[50]`, `client_count`, `clients_mutex`, descriptors | accept, add, handle, mark inactive, evict | count = active slots; limit; a descriptor belongs to one connection; slots come back | partly, proved |
| upload path (`file_handler.c`, `server.c`, `priority_queue.c`) | temporary files, queue items with a descriptor, `global_file_stats` | save, check, enqueue, process, answer, unlink, close | no file is left behind; every queued upload ends and is counted once; the answer reaches the client it is for | partly, proved |
| server lifecycle (`server.c`, `main.c`, `priority_queue.c`) | `status`, `server_socket`, the two threads, `keep_running`, `reload_config` | init, start, stop, cleanup, reload | what a thread uses exists; each thread is joined; the server runs on the loaded configuration; SIGTERM ends the program | partly, proved |
| daemon and PID file (`daemon.c`, `main.c`) | the PID file | check, fork, create, remove | one daemon at a time, and the file names it; a crash does not stand in the way of a start | modelled, proved |
| logger and signals (`logger.c`, `daemon.c`) | `log_mutex`, the flags of the signals | log, signal handler | lines are whole; no thread waits for itself | modelled, proved |
| request receiver (`server.c`) | buffer, `total_received`, `headers_end_pos`, `content_length` | `receive_complete_request`, dispatch | a request is handed on whole however its bytes arrive; the receiver returns | modelled, proved |
| multipart parser (`file_handler.c`) | - | `parse_multipart_data` | the file lies in the request; the image arrives unchanged | modelled, proved |
| image processing (`image_processor.c`) | samples, output files | classify, histogram, equalise, save | the formula within 32 bits; results and files agree | modelled, proved |
| configuration (`config.c`) | `server_config` | load, validate | there is always one | partly (values, not text), in the lifecycle |
| command line | - | - | - | partly (`-d` and `--test-server`) |
| test client, STB library | - | - | - | not modelled |

### Interactions and hard behaviours

* Handlers and the processor share the queue under `queue_mutex`; the processor
  waits on `queue_not_empty` with a deadline one second after its call.
* The server thread and the handlers share the table of clients under
  `clients_mutex`, but a handler reads `client->socket_fd` through its pointer
  without the mutex, and descriptors are closed outside it.  A slot or a
  descriptor can change hands between two calls.
* An upload carries its descriptor through the queue; handler and processor
  both answer on it and both close it.
* The hourly clean-up removes files that may still be queued.
* On shutdown the processor is joined, the handlers are not.
* The main thread reads flags that signals set, and starts, stops and
  initialises again what the other threads use.
* The signal handlers log, under the mutex that the interrupted thread may own.
* The PID file is read, removed, created and written in separate steps, by
  processes that may be killed between any two of them.
* TCP delivers a request in pieces of any size; a client may lie about its
  length, fall silent or hang up.
* The parser uses string functions on binary data, and unsigned differences.

The full list of hazards, each at its line, with the properties that watch it
or the reason why none does, is in `PROJECT.json`.

## 2. The modules

    FileQueue             what the queue promises: a bounded priority set
      ^ implemented by
    PriorityQueue         heap array, mutex, condition variable, shutdown
      PriorityQueueProofs     MCPriorityQueue
    Connections           table of clients, handlers, descriptors
      ConnectionsProofs       MCConnections
      ^ extended by
    UploadService         uploads from handler to processed image (uses FileQueue)
      UploadServiceProofs     MCUploadService
    ServerLifecycle       start, reload and stop; threads, signals, configuration
      ServerLifecycleProofs   MCServerLifecycle
    Logger                log_message and the signals that interrupt it
      ^ extended by
    DaemonProcess         processes, PIDs, the PID file, crashes
      DaemonProcessProofs     MCDaemonProcess
    Multipart             parse_multipart_data and C strings, pure operators
      ^ extended by
    Request               the bytes of a request, from the socket to the parser
      RequestProofs           MCRequest
    ImageProcessing       arithmetic and output files, one image after another
      EqualizationProofs      MCImageProcessing
      ImageProcessingProofs (extends EqualizationProofs)

An operator named in a comment "Mutant" is a plausible bug: a copy of the
definition after it, with one mistake, that shows that a property can fail.

### PriorityQueue

The array `items` below `size`, `active`, `processor_running` and the owner of
the mutex are the code's variables.  `hpc`, `ppc` and `mpc` say where each
handler (in `enqueue_file_for_processing`), the processor and the main thread
are.  A step is a critical section or a loop iteration: `EnqueueLock`, then
`EnqueueReject` (full, or `stat` fails) or `EnqueueInsert`, `BubbleUp` once per
swap, `EnqueueReturn` with the signal and the unlock.  `DequeueWait` gives up
the mutex and sleeps; it ends by a `Signal`, a `SpuriousWakeup` or a
`WaitTimeout`; on a timeout the call fails without looking at the queue again.
`DequeueExtract` and `BubbleDown` take the root out.  `StopProcessor`,
`StopSignal`, `StopJoin` are `stop_file_processor`; `Deactivate` and `Destroy`
are `destroy_priority_queue`, run while handlers may still enqueue: a handler
that comes after `Destroy` uses a destroyed mutex, and its call may then return
anything (`EnqueueDestroyed`).  This is the stop of `cleanup_server`, whose join
comes first.  `init_server` destroys the queue as well when it fails, and may do so
beside a live processor: that is in ServerLifecycle (`QueueGoesLast`).  `dequeued` is a history variable.  The times of
arrival are not in the model, because nothing in the code compares them.

### Connections

`clients`, `client_count` are the code's; `fdTable` and `shut` are the
kernel's: which connection is behind a descriptor, and which were shut down.
`Accept` picks any free descriptor, as other threads open files meanwhile.
`CheckLimit`/`RejectBusy` and `AddClient`/`AddClientFails` are the two critical
sections of accepting (the second failure includes `pthread_create`, which
leaves the slot overwritten).  `CleanupInactive(cut)` evicts every active
client accepted up to `cut`, which stands for "more than 300 seconds ago":
`connection_time` is the number of the connection, so any cut that leaves the
connection accepted just now is possible.  A handler goes start, receive,
respond, shutdown, close, mark, done; every step that uses the socket asks
`SocketOf(c)` for the current content of its slot.

Sending changes no state of the server, so that replies are not recorded;
`Receiver` says who would get one.

### UploadService

Extends a handler's "respond" by the upload: `StartUpload` reads the descriptor
once, as the call by value does, then `RefuseUpload`, `SaveTemp`,
`DiscardTemp`, `Enqueue`, `EnqueueFails` and the reply.  The queue is
`FileQueue`, which `PriorityQueue` implements.  The processor goes
`Dequeue`, `CheckTemp` or `MissingTemp`, `ProcessImage(success)`,
`CleanupTempImage`, `CloseItemSocket`.  `CleanupOldTempFiles` may remove any
file that is not between its creation and its enqueueing, which takes far less
than the 24 hours that a file must be old.

### ServerLifecycle

`main` is where the main thread is, in `daemon_main_loop` or
`test_mode_with_server` (`mode`) or in a function these call; `after` is where
a called function returns to and `caller` why it was called.  `InitServer`,
`BindSucceeds`, `StartProcessor` are `init_server`, each with its failure;
`Listen`, `CreateThread`, `Announce` are `start_server`, split where the new
thread can look at `status`; `LoopTest`, `LoadConfig`, `Reloaded`, `Monitor`,
`Wake` are the loop; `StopServer` .. `Cleaned` are `stop_server` and
`cleanup_server`.  `Term` and `Hup` set the flags at any moment; `EditFile`
changes the file.

`wrefs` is what the C library counts in the condition variable
`queue_not_empty`: `init` sets it to 0, a wait adds one and its end subtracts
one, and `pthread_cond_destroy` waits until it is 0 (glibc 2.25 and later).
When a reload initialises the variable under a waiting processor, the count
ends at -1.  Locking a destroyed mutex returns an error that the code ignores
(glibc again), so that it is no step.  `init_priority_queue` never fails: its
calls do not fail for default attributes.  A log call is no step either: the
model is of a program whose logger does not block; `Logger` says when it does.

### Logger and DaemonProcess

`frames[p][t]` is the stack of log calls that thread `t` of process `p` is in:
one of its own code, and one for each signal that interrupted it.  `Call` opens
one, `Deliver` runs `signal_handler` on top (a signal is blocked in its own
handler, and may come again after it, whether its flag is set or not), `Lock`
and `Write` are the critical section, and the end of a handler's call sets the
flag.  With a level above INFO no handler logs, and the
flag is set at once.

`DaemonProcess` puts programs started with `-d` around it.  `CheckFree`,
`CheckRefused`, `CheckStale`, `RemoveStale` are `check_if_running`; `Fork`,
`CreatePidFile`, `WritePid` and `DaemonizeFails` are `daemonize`; what
`fprintf` wrote reaches the file at `fclose`, so that a file that was removed
in between stays without a number (`writers` are the processes whose open file is
still the one called PID_FILE).  `StartServer`, which needs the port,
`ServerFails`, `Reload`, `ReloadFails` and `LeaveLoop` stand for the main
loop of `ServerLifecycle`, and `CleanupServer` for the `cleanup_server` after it;
`RemovePidFile`, `SayGoodbye`, `Exit` for `cleanup_daemon` and the end of `main`.
The handler threads, which nobody joins, log and get signals until the exit
(`LogActivity`).  `Kill` is SIGKILL, or a signal that
arrives before there are handlers, at any moment; a PID that is free may be
given to another program (`ForeignChange`).  `overlapped` and `killed` are
history variables.

### Multipart and Request

A request is a sequence of bytes in which a line of a header counts as one byte,
and CR, LF, NUL and the hyphens of a boundary are themselves.  `Find` is
`strstr`, which reads up to the first NUL.  `ParseMultipart` follows
`parse_multipart_data` with its guesses: `ClosingPlace` (closing boundary, next
boundary, or ten bytes before the end), `Trimmed`, and `FileSize`, which is
unsigned.  Places are counted from 1.

`Arrive` and `Hangup` are the network and the client; `Receive` is one round of
the loop of `receive_complete_request`, with `Verdict` for what it decides;
`EndOfFile`, `Timeout`, `ReceiveError` and `Interrupted` the other ways out.
`recv` fails if the client has reset the connection, if the descriptor is closed,
or if a signal comes while it waits: `signal_handler` is installed with SA_RESTART,
but a `recv` with a timeout is not restarted.  `CloseDescriptor` is the eviction of
a client, which may be active, or another thread with a stale number, at any moment
of the receiving; a call that was waiting then still returns once (`pending`).  Then
`client_handler_thread` answers (`BadRequest`, `AnswerAtOnce`, `AcceptUpload`,
`RefuseUpload`).  A request is sent once, so that one handler is enough here;
`Connections` has several, and the reuse of the number that was closed, which is
not here: the next `recv` fails, it does not read another client's bytes.  A
`shutdown` by another thread looks like the client's end (`Hangup`).  `replies` are
the codes that the handler tries to send.

What becomes of an image depends on how its request was built.  `WellBuilt` says
what a client does that sends multipart/form-data (RFC 2046, which asks the same
of the boundary): boundary, headers of the part, image, closing boundary, and no
boundary before the closing one.  It also asks that the image does not end in CR
or LF, which `parse_multipart_data` would take off (`file_handler.c:261`).
`TextImageIntact` and `NothingMissing` speak of such requests; `FileInRequest`
and the others of all.

### ImageProcessing

`process_image_complete` in the steps `Load`, `Classify`, `Equalize`,
`SaveEqualized`, `SaveClassified`, with their failures, for one upload after
another.  Samples have `MaxLevel + 1` levels and an int ends at `IntMax`:
`Wrapped` and `Quotient` are the arithmetic of C, so that a few pixels overflow
as 8.4 million do in the program.  Converting a double to a level truncates;
`RoundsDown` are the colours for which the sum of three products falls just short
of the whole level that it should be (any set of such colours, as this depends on
the compiler; the instance has those of IEEE doubles).  `disk` maps directory and original
name to the upload that wrote the file last.  `DecodedAssumption` says what
`stbi_load` returns: at least one pixel, and as many samples for each as the
image has channels, one to four.

## 3. The runs

| run | instance | states | shows |
|---|---|---|---|
| PriorityQueueSafety | 6 uploads, 3 sizes, capacity 5 | 116 k (symmetry) | `TypeOK`, `HeapOrder`, `Conservation` hold, and the heap implements `FileQueue` |
| PriorityQueueLiveness | 4 uploads, 2 sizes, capacity 3 | 122 k | accepted uploads are served with no timeout ever needed (`AcceptedIsServed`); as time passes a shutdown ends (`ShutdownCompletes`) |
| Connections | 3 connections, 3 slots, limit 2, 2 descriptors | 446 k | count, limit and number of threads hold under all races; each slot comes back |
| Upload | 2 connections, 1 descriptor, 2 sizes, capacity 1 | 545 k | files are owned, uploads are accounted for, each saved upload ends and its file goes |
| ServerLifecycle | 2 valid configurations, 1 invalid, or no file | 10 k | threads find their mutex, are joined, do not double; the server runs on its configuration; SIGTERM ends the program and SIGHUP is served, but for one case |
| DaemonProcess | 2 processes, 2 PIDs, 2 threads | 1.14 M | log lines are whole, and a thread waits for itself only after a signal; the daemon is alone and found by its file, unless two starts overlapped; no file is left without a kill; a start is refused for a cause only |
| Request | 25 requests of up to 51 bytes, a buffer of 48 | 232 k | honest requests arrive whole, unless client, another thread or a signal cuts them off; the file lies in its request, text images arrive unchanged and no image is cut short; the receiver returns |
| ImageProcessing | 4 levels, 3 uploads, 3 names | 474 k | what is saved is the formula on the original as long as an int suffices, the colour is the original's, results and files agree |

And four runs in which a comment is contradicted by the code:

| run | comment | what happens |
|---|---|---|
| ConnectionsStaleClose | `server.c:739` close the socket if it is still open | the number may belong to another connection by then |
| UploadResponse | `priority_queue.c:497` send the success response | the handler has closed that descriptor, after answering "processed correctly" (`server.c:519`) for a file that was only queued |
| ServerLifecycleRace | `main.c:182` the server handles connections in its own thread | the thread looks at `status` before `start_server` sets it, ends, and nobody accepts |
| RequestImage | `file_handler.c:162` look for the closing boundary, `file_handler.c:256` compute the end of the data | the search ends at the first NUL of the image; with a long boundary, ten bytes before the end is within the closing boundary, and the file ends with the first part of it |

### Bounds, and why they are enough

* Five cells make a heap of three levels in which, as it fills, an inner node
  has one child and then two; six uploads fill it and go on after a dequeue;
  three sizes give strict order and ties.  The proofs remove the bound.
* Two or three connections are one that is finishing, one that is evicted and
  one that is accepted meanwhile; as many descriptors as connections, or fewer,
  so that numbers are reused.  In Upload the one descriptor is taken by both
  uploads in turn, and capacity 1 makes the second upload find the queue full.
* ServerLifecycle has no bound but the sets of configurations: two valid ones
  tell a new one from an old one, one invalid one takes the other branch.
* DaemonProcess: two processes overlap, and each may start again any number of
  times; two PIDs are one that is reused and one that is not.  `MaxFrames`
  bounds the log calls a thread is in at once: three for the main thread (a call
  and both signals within it), one for the handlers.  `Sent` and `Level` give
  signals and both levels to the first process only; the second one is there for
  the PID file.
* Request: `Message` has images with and without NUL, with the NUL first and
  with a line end inside, boundaries for which what follows the image is longer or
  shorter than the margin, parts without a file, requests without a length, one
  byte too long for the buffer and longer, and lengths that are too small, too
  large and beyond the limit.  Two of the 20 uploads are not `WellBuilt`: one has
  an image that holds the closing boundary, one an image that ends in a line
  feed.  Without that condition `TextImageIntact` would be false of them, and of
  no other.  Pieces of every size are tried.  `SizeModulus` is
  2^30 for 2^64: all that matters is that it exceeds any size by far
  (`RequestAssumption`).
* ImageProcessing: with `IntMax = 7` and four levels, two pixels are fine and
  three are too many.  Three uploads may all have one of the names photo.png,
  photo.PNG and photo.jpg; grey, grey with alpha, colour and colour with alpha
  are there.
* Symmetry (over handlers) is used in the run with invariants and the
  refinement only (the abstract specification has no fairness).
* Deadlock is not checked where clients open finitely many connections, uploads
  are finitely many or the program ends.  It is checked in DaemonProcess, where
  a program can always be started again, and in Request, which loops when done.

### Fairness

* `RunningFairness`: threads that own the mutex, and the processor when it is
  not asleep, go on (the scheduler).  Nothing makes a handler call enqueue.
  `FairSpec` of PriorityQueue adds nothing: no timeout need ever expire.
* `TimePasses`, assumed by `ShutdownCompletes` alone: strong fairness of
  `WaitTimeout`, as the deadline is absolute and taken once per call, so that a
  thread that is woken again and again meets it; weak fairness of a shutdown
  that has begun.
* `FairSpec` of Connections: `accept` returns within 30 seconds
  (`server.c:90-97`), the server thread goes on, and every connection is older
  than 300 seconds at last (strong fairness of `CleanupInactive(MaxConns)`,
  which is disabled just after an accept).  None for handlers: a client may
  keep one busy for ever.
* `UFairSpec`: the processor goes on, and a handler that holds an upload goes
  on (it waits for no client).
* `FairSpec` of ServerLifecycle: the three threads go on; sleep (30 s), accept
  (30 s) and the wait for an upload (1 s) all end.  No signal need come.
* `FairSpec` of Request: `recv` has a timeout of 30 seconds
  (`server.c:326-330`), so that the receiver goes on.  No client, no other thread
  and no signal need do anything.
* DaemonProcess has no fairness and no liveness.  That a TERM ends the program is in
  ServerLifecycle, for a logger that does not block; that the logger blocks for ever
  only after a signal within a log call is `OnlySignalsDeadlock`.

## 4. The proofs

Eight modules prove all invariants that the passing runs check, and the
refinement, for every value of the constants; each constant is assumed to be no more than what the assumption of its module
says (`ConstantsAssumption`, `UploadAssumption`, `LoggerAssumption`, ...), and
TLC evaluates these assumptions in the runs.

`PriorityQueueProofs`, for every set of handlers, every set of integers as
priorities and every capacity:

* `Invariance`: `IInv == TypeOK /\ OwnerInv /\ HeapOrder /\ Conservation` is
  inductive.  `OwnerInv` (the owner of the mutex is the one thread between lock
  and unlock) is what makes `HeapOrder` inductive: without it a second loop
  could start in the middle of the first.  `HeapOrder` itself speaks of the
  unfinished heap, out of order only between `pos` and its parent (enqueue) or
  its children (dequeue), and needs `SkipsPos`: the children of `pos` are in
  order with its parent, so that a swap breaks nothing behind it.
* `TypeCorrectness`, `HeapCorrectness`, `NoLoss`: its parts.
* `Refinement`: `Spec => FQ!Spec` with `queue <- Queued`.  The swaps of the
  loops leave the set of items alone (`SwapLemma`, `LoopSwapLemma`); an insertion
  is a `Submit` (the set has fewer than `MaxQueueSize` elements because files
  are distinct, `QueuedCardinality`); an extraction is a `Serve` because the
  root of a heap is minimal (`RootLemma`: a smaller item with the least index
  would have a smaller parent).

`ConnectionsProofs`, for any number of connections, slots and descriptors and
any limit:

* `ConnInvariance`: `CIInv` adds `Admission` to the invariants of the run:
  between the test of the limit and the registration there is room, since the
  other threads only lower the count.
* `ConnTypeCorrectness`, `CountCorrectness`, `LimitCorrectness`,
  `ThreadsCorrectness`.  The count survives the races over descriptors because
  each function changes `active` and `client_count` of the slot that it finds,
  even when that is not the slot of its own client (`ReleaseLemma`,
  `MarkedLemma`).

`UploadServiceProofs`, for the connections and any sizes and capacity:
`UploadTypeCorrectness`, `TempFilesHaveOwners`, `EveryUploadIsAccounted`.  The
inductive invariant `UInv` adds to these three the types of what an upload
reads of the connections (`ConnTypes`), `HandlersInv` (a connection that was not
registered has no handler, and a handler that has queued its upload never comes
back to "saved") and `QueueInv` (no file is queued twice, and what the processor
works on has not ended).  The steps of the connections can only move a handler that
has no upload (`Moves`).

* `NamesAreFresh`: a handler about to queue its upload never finds its file's name
  waiting.  UploadService takes `Submit` and `Serve` of `FileQueue` in place of the
  heap, which implements them (`Refinement` above).  `Submit` asks for names that
  are distinct and the code does not look: the theorem says that the condition
  turns nothing away.

`ServerLifecycleProofs`, for any configurations: `TypeOK`,
`ServerFindsMutex`, `RunsOnItsConfig`, `QueueGoesLast`, `EndsAlone` and
`OneThreadEach`.  The inductive invariant `LInv` ties every thread that was
created and not joined to the stages of `main` from which its join is reached
(`ServerInv`, `ProcessorInv`), and to the variable that leads `main` there:
`status = "RUNNING"` and `processor_running`.  `CallInv` says where each
function returns to and why no processor is left when it returns.

`DaemonProcessProofs`, for any processes, PIDs, threads and depth of signals:

* `LogLinesAreWhole` and `DeadlockNeedsSignal` from `LogInv`, which adds to
  `LinesWhole` that the own call of a thread is at the bottom of its stack
  (`FramesInv`): a frame on top of one that writes is then a signal's.
* `DaemonTypeCorrectness`, `DaemonIsFoundByPidFile`, `NoPidFileIsLeft` and
  `RefusalHasACause` from `DaemonInv`: as long as no two starts overlapped, the
  process between `check_if_running` and its own PID in the file is alone and
  still has the right file open (`SoloInv`); without a kill, a file belongs to
  a process that is still to remove it (`FileInv`).

`RequestProofs`, for any messages, buffer and limits:

* `ParseLemma`: whatever bytes are parsed, the file that results lies within
  them and its size is positive and within the limit.  A size below zero would
  be one close to `SizeModulus`, and so refused; that strstr stays within the
  data (`FindLemma`) bounds all places.
* `RequestTypeCorrectness`, `HonestRequestsAreWhole`, `FileLiesInRequest`.
  `RecvInv` adds `HeadersInv` (the headers end where strstr finds their end in
  what was received so far: `PrefixLemma`, the first place in a part is the
  first place in the whole) and `HonestInv` (an honest message's length is known
  when its headers are complete).  `HonestRequestsAreWhole` is about the requests
  for which the loop ends by itself: a reset, a descriptor closed by another thread,
  of an active client too, or a signal ends it earlier.
* `TextImagesAreIntact` and `NoByteIsMissing`, for every request that is
  `WellBuilt`, whatever its headers and boundary and its image are.  `FoundInv`
  says that the file is what the parser finds in the message as it was received.
  `OnePart` says of the body alone what `WellBuilt` says of the request
  (`WellBuiltLemma`); then each `strstr` finds the place where the client put
  something: the opening boundary, the end of the part's headers and the start of
  the image (`PlacesLemma`), and the closing boundary if no NUL is before it
  (`ClosingLemma`).  With a NUL the parser may not find the closing boundary; the
  end it then takes, ten bytes before the end of the request, is behind the image
  if the closing boundary is as long as that margin (`PartLemma`).  `Trimmed`
  takes off the line end before the boundary and nothing of the image, whose last
  byte is neither CR nor LF (`TrimmedKeeps`).

`EqualizationProofs`, about the operators of ImageProcessing, for any images of one to
four channels, any number of levels and any int:

* `EqualizedIsAnImage`: whether or not a product overflows, equalisation yields
  levels, and alpha is as it was.  `LuminanceLemma` keeps the index of the
  histogram within its bounds.
* `EqualizationByFormula`: without overflow, what the loops compute is the
  definition, with cardinalities instead of a running sum.
* `EqualizationKeepsOrder`: without overflow, the table is monotonic, and maps the
  brightest level to itself.

The cumulative histogram is a recursive function, and induction is out of reach
(the theorem of the library takes an operator).  `CumulativeLemma` goes another
way: the function that counts the pixels that are no brighter satisfies the
equation of the loop (`DarkerLemma`), so that some function does; and two
functions that do are equal, because among the levels at which they differ there
would be a least one (`SmallestLemma`, from well-foundedness, and
`SameFunctionLemma`).

`ImageProcessingProofs`, for any images, names and sizes:

* `ImageTypeCorrectness` and `ResultsAgreeWithFiles`.  `CopyInv` says that only
  an upload that is about to be copied has a file before it has a result.
* `FilesShowTheUpload`, from `EqualizationByFormula`.  `SourceInv` says what the
  buffer and the colour have to do with the original at each stage: the buffer is
  the original until it is equalised in place, and the colour was taken before.

Only model-checked: liveness (`AcceptedIsServed`, `ShutdownCompletes`,
`SlotsRecycled`, `UploadsEnd`, `TermEndsUnlessReinitialised`, `HupServed`,
`ReceiverReturns`).  These need fairness, and so
ENABLED, which the prover does not reason about.  The properties of the four runs that expect a
violation are refuted by a counterexample.

## 5. Not modelled, and why

Code without state or order of its own:

* the STB library (`include/stb`, 9,712 of the 14,201 lines under `src/`):
  vendored decoder and encoder.  What it may return is a choice in
  UploadService and ImageProcessing.  This is also why the models cover a small
  share of all lines;
* the test client (`client/client.c`): threads that share nothing and send
  files.  What it does to the server is in Connections and Request;
* the command line (the options, which `main` parses itself, `show_help`, the calls of
  `systemctl`), the pages of GET, the texts of replies and logs, the read-only
  queries of the queue and the server, and the functions that nothing calls
  (`compare_priority`, `swap_items`, `heapify_up`, `heapify_down`);
* the parsing of the configuration file, of `Content-Type` and of file names:
  a configuration is valid or not, a boundary is part of a message, a name has
  a known extension or not.

Parts of modelled components:

* handlers that outlive a stop or a reload: `init_server` overwrites their slots
  (`server.c:50`), so that they would shut down and mark descriptor 0.
  Connections has a server that stays up, ServerLifecycle no handlers;
* other threads that read `server_config` while `load_config` changes it field
  by field (`config.c:52`): no text says which configuration an upload in
  progress is to use;
* which threads are joined or detached: a handler that ends normally is
  neither (`server.c:303`);
* `global_stats`, which `/status` reports and nothing updates (`server.c:39`);
* when a stop and a late upload meet, `EnqueueDestroyed` lets the call return
  anything.

Disagreements of the code with its comments that were met on the way and have
no run, because a run could only repeat the line:

* `server.c:732` speaks of clients that are connected for long without activity;
  the line after it compares the time of the accept only, so that a client that
  goes on sending is cut off after 300 seconds (`CloseDescriptor` of Request);
* `priority_queue.c:75` promises the order of arrival among equal sizes; the
  comparison with arrival times is in `compare_priority`, which is never called;
* `server.c:270` looks for a free slot, and takes that of an evicted client
  whose handler still uses it (Connections has this: the handler then acts for
  the other client);
* `main.c:154` and `main.c:161` announce the previous configuration after an
  invalid one was read, but `load_config` has overwritten it
  (ServerLifecycle goes on with the invalid one);
* after such a reload, a stop by the `ExecStop` of `ImageServer.service` may
  wait in `pthread_cond_destroy` for ever (the exception in
  `TermEndsUnlessReinitialised`);
* `image_processor.c:86` is the formula of equalisation; above 8,421,504 pixels
  the product of line 87 leaves an int (`SavedFromOriginal` excludes it);
* `config.c:31` removes leading blanks by moving a local pointer, so that they
  stay;
* `max_image_size_mb * 1024 * 1024` (`file_handler.c:475`) is an int and not
  validated: 4096 makes a limit of 0;
* the parent of `daemonize` returns success before its daemon has a PID file,
  or has failed to get one (`DaemonProcess` has the parent's end in `Fork`).
