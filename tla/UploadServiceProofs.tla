------------------------- MODULE UploadServiceProofs -------------------------
(***************************************************************************)
(* Proofs about UploadService, for any number of connections, descriptors, *)
(* slots and sizes and any capacity: every temporary file has an owner,    *)
(* and every upload in the queue is accounted for once.                    *)
(***************************************************************************)
EXTENDS UploadService, ConnectionsProofs

\* The types of what an upload reads of the connections.
ConnTypes ==
  /\ clients \in [Slot -> [active : BOOLEAN, socket_fd : Fd \cup {NoFd},
                           connection_time : 0 .. MaxConns]]
  /\ accepted \in 0 .. MaxConns
  /\ fdTable \in [Fd -> Conn \cup {NoConn}]
  /\ client_socket \in Fd \cup {NoFd}
  /\ slotOf \in [Conn -> Slot]
  /\ request \in [Conn -> Conn \cup {NoConn}]

HandlerStage ==
  {"none", "start", "receive", "respond", "shutdown", "close", "mark", "done",
   "upload", "saved", "queued", "upload_failed"}

\* A connection has no handler before it is added, and a handler has queued its
\* upload only if it is past that.
HandlersInv ==
  /\ server \in {"check", "add"} => accepted \in Conn /\ handler[accepted] = "none"
  /\ \A c \in Conn : c > accepted => handler[c] = "none"
  /\ \A c \in enqueued : handler[c] \in {"queued", "shutdown", "close", "mark", "done"}

\* No file is in the queue twice, and what the processor works on has not ended.
QueueInv ==
  /\ IsFiniteSet(queue)
  /\ \A a, b \in queue : a.file = b.file => a = b
  /\ processor # "dequeue" => item \in Item
  /\ processor \in {"check", "process"} => outcome[item.file] = "none"

UInv ==
  UTypeOK /\ ConnTypes /\ HandlersInv /\ QueueInv /\ TempFilesOwned /\ UploadsAccounted

-----------------------------------------------------------------------------
(* The steps of the connections. *)

\* How a handler goes on without an upload.
Moves(c) ==
  \/ handler'[c] = handler[c]
  \/ /\ server = "add" /\ server' = "cleanup" /\ c = accepted
     /\ handler'[c] = "start"
  \/ /\ handler[c] \in {"start", "receive", "respond"}
     /\ handler'[c] \in {"receive", "respond", "shutdown", "close"}
  \/ /\ handler[c] \in {"shutdown", "close", "mark"}
     /\ handler'[c] \in {"close", "mark", "done"}

LEMMA CloseFdsLemma ==
  ASSUME ConnTypes, NEW fds, CloseFds(fds)
  PROVE  fdTable' \in [Fd -> Conn \cup {NoConn}]
  BY DEF CloseFds, ConnTypes

LEMMA ReleasedLemma ==
  ASSUME ConnTypes, NEW S
  PROVE  Released(S) \in [Slot -> [active : BOOLEAN, socket_fd : Fd \cup {NoFd},
                                   connection_time : 0 .. MaxConns]]
  BY DEF Released, ConnTypes

LEMMA AddedLemma ==
  ASSUME ConnTypes, FreeSlots # {}, NEW active \in BOOLEAN
  PROVE  /\ FirstOf(FreeSlots) \in Slot
         /\ [clients EXCEPT ![FirstOf(FreeSlots)] =
               [active |-> active, socket_fd |-> client_socket,
                connection_time |-> accepted]]
              \in [Slot -> [active : BOOLEAN, socket_fd : Fd \cup {NoFd},
                            connection_time : 0 .. MaxConns]]
<1>1. FreeSlots \in SUBSET Slot
  BY DEF FreeSlots
<1>2. FirstOf(FreeSlots) \in Slot
  BY <1>1, FirstOfLemma
<1> DEFINE s == FirstOf(FreeSlots)
<1> HIDE DEF s
<1>3. s \in Slot
  BY <1>2 DEF s
<1>4. [clients EXCEPT ![s] = [active |-> active, socket_fd |-> client_socket,
                              connection_time |-> accepted]]
        \in [Slot -> [active : BOOLEAN, socket_fd : Fd \cup {NoFd},
                      connection_time : 0 .. MaxConns]]
  BY <1>3 DEF ConnTypes
<1>5. QED
  BY <1>2, <1>4 DEF s

LEMMA ServerStepLemma ==
  ASSUME UInv, ServerStep
  PROVE  /\ ConnTypes'
         /\ handler' \in [Conn -> HandlerStage]
         /\ \A c \in Conn : Moves(c)
         /\ \/ accepted' = accepted /\ (server' \in {"check", "add"} => server = "check")
            \/ accepted' = accepted + 1 /\ accepted' \in Conn
<1> USE DEF UInv, UTypeOK, ConnTypes, HandlersInv, HandlerStage, Moves, tableVars,
            kernelVars, serverVars, threadVars
<1>1. CASE Accept
  <2>1. accepted' \in Conn /\ accepted' = accepted + 1
    BY <1>1, ConnectionsAssumption DEF Accept, Conn
  <2>2. /\ fdTable' \in [Fd -> Conn \cup {NoConn}]
        /\ client_socket' \in Fd \cup {NoFd}
    BY <1>1, <2>1 DEF Accept
  <2>3. QED
    BY <1>1, <2>1, <2>2, ConnectionsAssumption DEF Accept, Conn
<1>2. CASE AcceptFails \/ CheckLimit
  BY <1>2 DEF AcceptFails, CheckLimit
<1>3. CASE RejectBusy
  BY <1>3, CloseFdsLemma DEF RejectBusy
<1>4. CASE AddClient
  <2>1. /\ clients' \in [Slot -> [active : BOOLEAN, socket_fd : Fd \cup {NoFd},
                                  connection_time : 0 .. MaxConns]]
        /\ FirstOf(FreeSlots) \in Slot
    BY <1>4, AddedLemma DEF AddClient
  <2>2. slotOf' \in [Conn -> Slot]
    BY <1>4, <2>1 DEF AddClient
  <2>3. handler' = [handler EXCEPT ![accepted] = "start"]
    BY <1>4 DEF AddClient
  <2>4. QED
    BY <1>4, <2>1, <2>2, <2>3 DEF AddClient
<1>5. CASE AddClientFails
  <2>1. clients' \in [Slot -> [active : BOOLEAN, socket_fd : Fd \cup {NoFd},
                               connection_time : 0 .. MaxConns]]
    BY <1>5, AddedLemma DEF AddClientFails
  <2>2. QED
    BY <1>5, <2>1, CloseFdsLemma DEF AddClientFails
<1>6. CASE \E cut \in 0 .. MaxConns : CleanupInactive(cut)
  <2>1. PICK cut \in 0 .. MaxConns : CleanupInactive(cut)
    BY <1>6
  <2>2. clients' \in [Slot -> [active : BOOLEAN, socket_fd : Fd \cup {NoFd},
                               connection_time : 0 .. MaxConns]]
    BY <2>1, ReleasedLemma DEF CleanupInactive
  <2>3. fdTable' \in [Fd -> Conn \cup {NoConn}]
    BY <2>1, CloseFdsLemma DEF CleanupInactive
  <2>4. QED
    BY <2>1, <2>2, <2>3 DEF CleanupInactive
<1>7. QED
  BY <1>1, <1>2, <1>3, <1>4, <1>5, <1>6 DEF ServerStep

LEMMA HandlerStepLemma ==
  ASSUME UInv, NEW c \in Conn, HandlerStep(c)
  PROVE  /\ ConnTypes'
         /\ handler' \in [Conn -> HandlerStage]
         /\ \A d \in Conn : Moves(d)
         /\ UNCHANGED serverVars
<1> USE DEF UInv, UTypeOK, ConnTypes, HandlerStage, Moves, tableVars,
            kernelVars, serverVars, threadVars, Goto
<1>1. CASE StartReceive(c)
  <2>1. Behind(SocketOf(c)) \in Conn \cup {NoConn}
    BY DEF Behind
  <2>2. QED
    BY <1>1, <2>1 DEF StartReceive
<1>2. CASE NoBuffer(c) \/ ReceiveEnds(c) \/ Respond(c) \/ Shutdown(c)
  BY <1>2 DEF NoBuffer, ReceiveEnds, Respond, Shutdown
<1>3. CASE CloseSocket(c)
  BY <1>3, CloseFdsLemma DEF CloseSocket
<1>4. CASE MarkInactive(c)
  BY <1>4, ReleasedLemma DEF MarkInactive
<1>5. QED
  BY <1>1, <1>2, <1>3, <1>4 DEF HandlerStep, HandlerCleanup

LEMMA ConnectionKeepsUInv ==
  ASSUME UInv, ConnectionStep
  PROVE  UInv'
<1>1. /\ ConnTypes'
      /\ handler' \in [Conn -> HandlerStage]
      /\ \A c \in Conn : Moves(c)
      /\ \/ accepted' = accepted /\ (server' \in {"check", "add"} => server \in {"check", "add"})
         \/ accepted' = accepted + 1 /\ accepted' \in Conn
  BY ServerStepLemma, HandlerStepLemma DEF ConnectionStep, Next, serverVars
<1>2. UNCHANGED <<upload_socket, temp, queue, item, processor, file_stats, enqueued,
                  outcome>>
  BY DEF ConnectionStep, uploadVars
<1>3. UTypeOK'
  BY <1>1, <1>2 DEF UInv, UTypeOK, HandlerStage
<1>4. \A c \in Conn : (handler[c] = "saved") = (handler'[c] = "saved")
  BY <1>1 DEF UInv, HandlersInv, Moves
<1>5. HandlersInv'
  <2>1. accepted \in Nat /\ Conn \subseteq Nat
    BY ConnectionsAssumption DEF UInv, ConnTypes, Conn
  <2>2. \A c \in Conn : handler[c] = "none" =>
          handler'[c] = "none" \/ (server = "add" /\ server' = "cleanup" /\ c = accepted)
    BY <1>1 DEF Moves
  <2>3. server' \in {"check", "add"} => accepted' \in Conn /\ handler'[accepted'] = "none"
    BY <1>1, <2>1, <2>2 DEF UInv, HandlersInv
  <2>4. \A c \in Conn : c > accepted' => handler'[c] = "none"
    BY <1>1, <2>1, <2>2 DEF UInv, HandlersInv
  <2>5. enqueued \subseteq Conn /\ enqueued' = enqueued
    BY <1>2 DEF UInv, UTypeOK
  <2>6. \A c \in enqueued :
          handler'[c] \in {"queued", "shutdown", "close", "mark", "done"}
    <3> SUFFICES ASSUME NEW c \in enqueued
                 PROVE  handler'[c] \in {"queued", "shutdown", "close", "mark", "done"}
      OBVIOUS
    <3>1. handler[c] \in {"queued", "shutdown", "close", "mark", "done"}
      BY DEF UInv, HandlersInv
    <3>2. ~(server = "add" /\ c = accepted)
      BY <3>1 DEF UInv, HandlersInv
    <3>3. QED
      BY <1>1, <2>5, <3>1, <3>2 DEF Moves
  <2>7. QED
    BY <2>3, <2>4, <2>5, <2>6 DEF HandlersInv
<1>6. QueueInv'
  BY <1>2 DEF UInv, QueueInv
<1>7. TempFilesOwned'
  BY <1>2, <1>4 DEF UInv, UTypeOK, TempFilesOwned, Waiting
<1>8. UploadsAccounted'
  BY <1>2 DEF UInv, UploadsAccounted, Waiting, InProgress, Ended
<1>9. QED
  BY <1>1, <1>3, <1>5, <1>6, <1>7, <1>8 DEF UInv

-----------------------------------------------------------------------------
(* The steps of an upload. *)

\* A handler that goes from one stage of its upload to the next.
LEMMA GotoLemma ==
  ASSUME UInv, NEW c \in Conn, NEW from, NEW to \in HandlerStage, Goto(c, from, to)
  PROVE  /\ handler[c] = from /\ handler'[c] = to
         /\ handler' \in [Conn -> HandlerStage]
         /\ \A d \in Conn \ {c} : handler'[d] = handler[d]
  BY DEF UInv, UTypeOK, HandlerStage, Goto

\* The handler of an upload has been added, and does not go back.
LEMMA UploadHandlersLemma ==
  ASSUME UInv, NEW c \in Conn, NEW from, NEW to \in HandlerStage, Goto(c, from, to),
         from # "none", UNCHANGED serverVars,
         enqueued' \subseteq enqueued \cup {c},
         c \in enqueued' => to \in {"queued", "shutdown", "close", "mark", "done"}
  PROVE  HandlersInv'
<1>1. /\ handler[c] # "none" /\ handler'[c] = to
      /\ \A d \in Conn \ {c} : handler'[d] = handler[d]
  BY GotoLemma
<1>2. server' = server /\ accepted' = accepted
  BY DEF serverVars
<1>3. \A d \in enqueued' :
        handler'[d] \in {"queued", "shutdown", "close", "mark", "done"}
  BY <1>1 DEF UInv, UTypeOK, HandlersInv
<1>4. \A d \in Conn : handler[d] = "none" => handler'[d] = "none"
  BY <1>1
<1>5. QED
  BY <1>2, <1>3, <1>4 DEF UInv, HandlersInv

LEMMA SameConnTypes ==
  ASSUME ConnTypes,
         UNCHANGED <<clients, accepted, fdTable, client_socket, slotOf, request>>
  PROVE  ConnTypes'
  BY DEF ConnTypes

\* The steps of an upload outside the queue: the file goes when its handler gives
\* it up.
LEMMA UploadKeepsUInv ==
  ASSUME UInv, NEW c \in Conn, UploadStep(c), ~Enqueue(c)
  PROVE  UInv'
<1>1. UNCHANGED <<clients, accepted, fdTable, client_socket, slotOf, request, serverVars,
                  queue, item, processor, file_stats, enqueued, outcome>>
  BY DEF UploadStep, StartUpload, RefuseUpload, SaveTemp, DiscardTemp, EnqueueFails,
         UploadFails, ReplyQueued, ReplyFailed, ReplyUpload, uploadVars, tableVars,
         kernelVars, serverVars
<1>2. PICK from \in {"respond", "upload", "saved", "queued", "upload_failed"},
           to \in {"upload", "saved", "upload_failed", "shutdown"} :
        /\ Goto(c, from, to)
        /\ from = "queued" => to = "shutdown"
        /\ from = "saved" => temp' = temp \ {c}
        /\ from # "saved" /\ to # "saved" => temp' = temp
        /\ to = "saved" => temp' = temp \cup {c} /\ from # "saved"
  <2>1. CASE StartUpload(c)
    BY <2>1 DEF StartUpload
  <2>2. CASE RefuseUpload(c)
    BY <2>2 DEF RefuseUpload, UploadFails
  <2>3. CASE SaveTemp(c)
    BY <2>3 DEF SaveTemp
  <2>4. CASE DiscardTemp(c) \/ EnqueueFails(c)
    BY <2>4 DEF DiscardTemp, EnqueueFails, UploadFails
  <2>5. CASE ReplyQueued(c) \/ ReplyFailed(c)
    BY <2>5 DEF ReplyQueued, ReplyFailed, ReplyUpload, uploadVars
  <2>6. QED
    BY <2>1, <2>2, <2>3, <2>4, <2>5 DEF UploadStep
<1>3. to \in HandlerStage /\ from # "none"
  BY DEF HandlerStage
<1>4. /\ handler[c] = from /\ handler'[c] = to
      /\ handler' \in [Conn -> HandlerStage]
      /\ \A d \in Conn \ {c} : handler'[d] = handler[d]
  BY <1>2, <1>3, GotoLemma
<1>5. ConnTypes'
  BY <1>1, SameConnTypes DEF UInv
<1>6. c \in enqueued => from = "queued"
  BY <1>2, <1>4 DEF UInv, HandlersInv
<1>7. HandlersInv'
  BY <1>1, <1>2, <1>3, <1>6, UploadHandlersLemma
<1>8. upload_socket' \in [Conn -> Fd \cup {NoFd}]
  <2>1. SocketOf(c) \in Fd \cup {NoFd}
    BY DEF UInv, ConnTypes, SocketOf
  <2>2. upload_socket' = upload_socket
          \/ upload_socket' = [upload_socket EXCEPT ![c] = SocketOf(c)]
    BY DEF UploadStep, StartUpload, RefuseUpload, SaveTemp, DiscardTemp, EnqueueFails,
           UploadFails, ReplyQueued, ReplyFailed, ReplyUpload, uploadVars
  <2>3. QED
    BY <2>1, <2>2 DEF UInv, UTypeOK
<1>9. temp' \subseteq Conn
  BY <1>2 DEF UInv, UTypeOK
<1>10. UTypeOK'
  BY <1>1, <1>4, <1>8, <1>9 DEF UInv, UTypeOK, HandlerStage
<1>11. TempFilesOwned'
  BY <1>1, <1>2, <1>4 DEF UInv, UTypeOK, TempFilesOwned, Waiting
<1>12. QueueInv' /\ UploadsAccounted'
  BY <1>1 DEF UInv, QueueInv, UploadsAccounted, Waiting, InProgress, Ended
<1>13. QED
  BY <1>5, <1>7, <1>10, <1>11, <1>12 DEF UInv

\* The set of FileQueue is the one of UploadService, down to its cardinality.
LEMMA SameCardinality == \A S : FQ!Cardinality(S) = Cardinality(S)
  BY DEF FQ!Cardinality, Cardinality

\* A file that is queued changes its owner; it was not in the queue before.
LEMMA EnqueueKeepsUInv ==
  ASSUME UInv, NEW c \in Conn, Enqueue(c)
  PROVE  UInv'
<1>1. /\ UNCHANGED <<clients, accepted, fdTable, client_socket, slotOf, request, serverVars,
                     upload_socket, temp, item, processor, file_stats, outcome>>
      /\ Goto(c, "saved", "queued") /\ enqueued' = enqueued \cup {c}
  BY DEF Enqueue, FQ!Submit, tableVars, kernelVars, serverVars
<1>2. PICK p \in Priority :
        FQ!Submit([file |-> c, priority |-> p,
                   client_socket |-> upload_socket[c], request |-> request[c]])
  BY DEF Enqueue
<1> DEFINE upload == [file |-> c, priority |-> p,
                  client_socket |-> upload_socket[c], request |-> request[c]]
<1>3. /\ upload \in Item /\ Cardinality(queue) < MaxQueueSize
      /\ \A other \in queue : other.file # upload.file
      /\ queue' = queue \cup {upload}
  BY <1>2, SameCardinality DEF FQ!Submit
<1>4. upload.file = c
  OBVIOUS
<1> HIDE DEF upload
<1>5. /\ handler[c] = "saved" /\ handler'[c] = "queued"
      /\ handler' \in [Conn -> HandlerStage]
      /\ \A d \in Conn \ {c} : handler'[d] = handler[d]
  BY <1>1, GotoLemma DEF HandlerStage
<1>6. ConnTypes'
  BY <1>1, SameConnTypes DEF UInv
<1>7. HandlersInv'
  BY <1>1, UploadHandlersLemma DEF HandlerStage
<1>8. c \notin enqueued
  BY <1>5 DEF UInv, HandlersInv
<1>9. IsFiniteSet(queue') /\ Cardinality(queue') <= MaxQueueSize
  <2>1. upload \notin queue
    BY <1>3
  <2>2. IsFiniteSet(queue') /\ Cardinality(queue') = Cardinality(queue) + 1
    BY <1>3, <2>1, FS_AddElement DEF UInv, QueueInv
  <2>3. Cardinality(queue) \in Nat /\ MaxQueueSize \in Nat
    BY FS_CardinalityType, UploadAssumption DEF UInv, QueueInv
  <2>4. QED
    BY <1>3, <2>2, <2>3
<1>10. UTypeOK'
  BY <1>1, <1>3, <1>5, <1>9 DEF UInv, UTypeOK, HandlerStage
<1>11. QueueInv'
  <2>1. \A a, b \in queue' : a.file = b.file => a = b
    BY <1>3 DEF UInv, QueueInv
  <2>2. QED
    BY <1>1, <1>9, <2>1 DEF UInv, QueueInv
<1>12. Waiting' = Waiting \cup {c}
  BY <1>3, <1>4 DEF Waiting
<1>13. TempFilesOwned'
  BY <1>1, <1>5, <1>12 DEF UInv, UTypeOK, TempFilesOwned
<1>14. InProgress' = InProgress /\ \A S : Ended(S)' = Ended(S)
  BY <1>1 DEF InProgress, Ended
<1>15. UploadsAccounted'
  BY <1>1, <1>8, <1>12, <1>14 DEF UInv, UploadsAccounted
<1>16. QED
  BY <1>6, <1>7, <1>10, <1>11, <1>13, <1>15 DEF UInv

-----------------------------------------------------------------------------
(* The processor and the hourly cleanup. *)

\* They leave the handlers alone, and the connections but for a descriptor.
LEMMA ConnectionsStay ==
  ASSUME UInv, ProcessorStep \/ CleanupOldTempFiles
  PROVE  ConnTypes' /\ HandlersInv' /\ handler' = handler
<1>1. UNCHANGED <<clients, accepted, server, client_socket, slotOf, request, handler,
                  enqueued>>
  BY DEF ProcessorStep, Dequeue, CheckTemp, MissingTemp, ProcessImage,
         CleanupTempImage, CloseItemSocket, CleanupOldTempFiles, processorVars, vars,
         tableVars, kernelVars, serverVars, threadVars
<1>2. fdTable' = fdTable \/ CloseFds({item.client_socket})
  BY DEF ProcessorStep, Dequeue, CheckTemp, MissingTemp, ProcessImage,
         CleanupTempImage, CloseItemSocket, CleanupOldTempFiles, processorVars, vars,
         tableVars, kernelVars, serverVars, threadVars
<1>3. fdTable' \in [Fd -> Conn \cup {NoConn}]
  BY <1>2, CloseFdsLemma DEF UInv, ConnTypes
<1>4. QED
  BY <1>1, <1>3 DEF UInv, ConnTypes, HandlersInv

LEMMA CleanupKeepsUInv ==
  ASSUME UInv, CleanupOldTempFiles
  PROVE  UInv'
<1>1. ConnTypes' /\ HandlersInv' /\ handler' = handler
  BY ConnectionsStay
<1>2. /\ temp' \subseteq temp
      /\ UNCHANGED <<upload_socket, queue, item, processor, file_stats, enqueued,
                     outcome>>
  BY DEF CleanupOldTempFiles
<1>3. UTypeOK' /\ QueueInv'
  BY <1>1, <1>2 DEF UInv, UTypeOK, QueueInv
<1>4. TempFilesOwned' /\ UploadsAccounted'
  BY <1>1, <1>2 DEF UInv, TempFilesOwned, UploadsAccounted, Waiting, InProgress, Ended
<1>5. QED
  BY <1>1, <1>3, <1>4 DEF UInv

\* The upload that the processor is given is not in the queue any more.
LEMMA DequeueKeepsUInv ==
  ASSUME UInv, Dequeue
  PROVE  UInv'
<1>1. ConnTypes' /\ HandlersInv' /\ handler' = handler
  BY ConnectionsStay DEF ProcessorStep
<1>2. /\ processor = "dequeue" /\ processor' = "check"
      /\ UNCHANGED <<upload_socket, temp, file_stats, enqueued, outcome>>
  BY DEF Dequeue, Step, processorVars
<1>3. PICK upload \in queue : queue' = queue \ {upload} /\ item' = upload
  BY DEF Dequeue, FQ!Serve
<1>4. upload \in Item /\ upload.file \in Waiting
  BY DEF UInv, UTypeOK, Waiting
<1>5. Waiting' = Waiting \ {upload.file}
  <2>1. \A a \in queue : a.file = upload.file => a = upload
    BY DEF UInv, QueueInv
  <2>2. QED
    BY <1>3, <2>1 DEF Waiting
<1>6. IsFiniteSet(queue') /\ Cardinality(queue') <= MaxQueueSize
  <2>1. IsFiniteSet(queue') /\ Cardinality(queue') <= Cardinality(queue)
    BY <1>3, FS_Subset DEF UInv, QueueInv
  <2>2. /\ Cardinality(queue) \in Nat /\ Cardinality(queue') \in Nat
        /\ MaxQueueSize \in Nat
    BY <2>1, FS_CardinalityType, UploadAssumption DEF UInv, QueueInv
  <2>3. QED
    BY <2>1, <2>2 DEF UInv, UTypeOK
<1>7. UTypeOK'
  BY <1>1, <1>2, <1>3, <1>4, <1>6 DEF UInv, UTypeOK
<1>8. InProgress = {} /\ InProgress' = {upload.file}
  BY <1>2, <1>3 DEF InProgress
<1>9. \A S : Ended(S)' = Ended(S)
  BY <1>2 DEF Ended
<1>10. upload.file \in Conn /\ upload.file \notin Ended({"missing", "success", "failure"})
  BY <1>4 DEF UInv, UploadsAccounted, Item
<1>11. outcome'[item'.file] = "none"
  BY <1>2, <1>3, <1>10 DEF UInv, UTypeOK, Ended
<1>12. QueueInv'
  BY <1>2, <1>3, <1>4, <1>6, <1>11 DEF UInv, QueueInv
<1>13. TempFilesOwned'
  BY <1>1, <1>2, <1>3, <1>5 DEF UInv, TempFilesOwned
<1>14. UploadsAccounted'
  <2>1. enqueued' = Waiting' \cup InProgress' \cup Ended({"missing", "success", "failure"})'
    BY <1>2, <1>4, <1>5, <1>8, <1>9 DEF UInv, UploadsAccounted
  <2>2. Waiting' \cap (InProgress' \cup Ended({"missing", "success", "failure"})') = {}
    BY <1>5, <1>8, <1>9 DEF UInv, UploadsAccounted
  <2>3. QED
    BY <1>2, <1>9, <2>1, <2>2 DEF UInv, UploadsAccounted
<1>15. QED
  BY <1>1, <1>7, <1>12, <1>13, <1>14 DEF UInv

\* An upload that ends is one more of those that ended so.
LEMMA EndedLemma ==
  ASSUME UInv, NEW c \in Conn, outcome[c] = "none",
         NEW result \in {"missing", "success", "failure"},
         outcome' = [outcome EXCEPT ![c] = result]
  PROVE  /\ \A S \in SUBSET {"missing", "success", "failure"} :
              /\ Ended(S)' = IF result \in S THEN Ended(S) \cup {c} ELSE Ended(S)
              /\ Cardinality(Ended(S)') =
                   Cardinality(Ended(S)) + (IF result \in S THEN 1 ELSE 0)
         /\ outcome' \in [Conn -> {"none", "missing", "success", "failure"}]
<1>1. outcome \in [Conn -> {"none", "missing", "success", "failure"}]
  BY DEF UInv, UTypeOK
<1>2. outcome'[c] = result /\ \A d \in Conn \ {c} : outcome'[d] = outcome[d]
  BY <1>1
<1>3. ASSUME NEW S \in SUBSET {"missing", "success", "failure"}
      PROVE  /\ Ended(S)' = IF result \in S THEN Ended(S) \cup {c} ELSE Ended(S)
             /\ Cardinality(Ended(S)') =
                  Cardinality(Ended(S)) + (IF result \in S THEN 1 ELSE 0)
  <2>1. c \notin Ended(S)
    BY <1>3 DEF Ended
  <2>2. Ended(S)' = IF result \in S THEN Ended(S) \cup {c} ELSE Ended(S)
    BY <1>2, <2>1 DEF Ended
  <2>3. IsFiniteSet(Ended(S))
    <3>1. IsFiniteSet(Conn)
      BY ConnectionsAssumption, FS_Interval DEF Conn
    <3>2. Ended(S) \subseteq Conn
      BY DEF Ended
    <3>3. QED
      BY <3>1, <3>2, FS_Subset
  <2>4. Cardinality(Ended(S)) \in Nat
    BY <2>3, FS_CardinalityType
  <2>5. Cardinality(Ended(S) \cup {c}) = Cardinality(Ended(S)) + 1
    BY <2>1, <2>3, FS_AddElement
  <2>6. QED
    BY <2>2, <2>4, <2>5
<1>4. QED
  BY <1>1, <1>3

LEMMA ItemLemma ==
  ASSUME UInv, processor # "dequeue"
  PROVE  item \in Item /\ item.file \in Conn
  BY DEF UInv, QueueInv, Item

\* The file of an upload is missing: it ends without statistics.
LEMMA MissingKeepsUInv ==
  ASSUME UInv, MissingTemp
  PROVE  UInv'
<1>1. ConnTypes' /\ HandlersInv' /\ handler' = handler
  BY ConnectionsStay DEF ProcessorStep
<1>2. /\ processor = "check" /\ processor' = "close" /\ item.file \notin temp
      /\ outcome' = [outcome EXCEPT ![item.file] = "missing"]
      /\ UNCHANGED <<upload_socket, temp, queue, item, file_stats, enqueued>>
  BY DEF MissingTemp, Step, processorVars
<1>3. item \in Item /\ item.file \in Conn /\ outcome[item.file] = "none"
  BY <1>2, ItemLemma DEF UInv, QueueInv
<1>4. /\ outcome' \in [Conn -> {"none", "missing", "success", "failure"}]
      /\ \A S \in SUBSET {"missing", "success", "failure"} :
           /\ Ended(S)' = IF "missing" \in S THEN Ended(S) \cup {item.file} ELSE Ended(S)
           /\ Cardinality(Ended(S)') =
                Cardinality(Ended(S)) + (IF "missing" \in S THEN 1 ELSE 0)
  BY <1>2, <1>3, EndedLemma
<1>5. UTypeOK'
  BY <1>1, <1>2, <1>4 DEF UInv, UTypeOK
<1>6. QueueInv'
  BY <1>2, <1>3 DEF UInv, QueueInv
<1>7. Waiting' = Waiting
  BY <1>2 DEF Waiting
<1>8. TempFilesOwned'
  BY <1>1, <1>2, <1>7 DEF UInv, TempFilesOwned
<1>9. UploadsAccounted'
  <2>1. InProgress = {item.file} /\ InProgress' = {}
    BY <1>2 DEF InProgress
  <2>2. Ended({"missing", "success", "failure"})' =
          Ended({"missing", "success", "failure"}) \cup {item.file}
    BY <1>4
  <2>3. /\ Cardinality(Ended({"success"})') = Cardinality(Ended({"success"})) + 0
        /\ Cardinality(Ended({"failure"})') = Cardinality(Ended({"failure"})) + 0
        /\ Cardinality(Ended({"success", "failure"})') =
             Cardinality(Ended({"success", "failure"})) + 0
    BY <1>4
  <2>4. \A S : S \in {{"success"}, {"failure"}, {"success", "failure"}} => Ended(S)' = Ended(S)
    BY <1>4
  <2>5. QED
    BY <1>2, <1>7, <2>1, <2>2, <2>4 DEF UInv, UploadsAccounted
<1>10. QED
  BY <1>1, <1>5, <1>6, <1>8, <1>9 DEF UInv

\* An upload is processed: it ends and is counted, once.
LEMMA ProcessKeepsUInv ==
  ASSUME UInv, NEW success \in BOOLEAN, ProcessImage(success)
  PROVE  UInv'
<1>1. ConnTypes' /\ HandlersInv' /\ handler' = handler
  BY ConnectionsStay DEF ProcessorStep
<1> DEFINE result == IF success THEN "success" ELSE "failure"
<1>2. /\ processor = "process" /\ processor' = "unlink"
      /\ outcome' = [outcome EXCEPT ![item.file] = result]
      /\ file_stats' = Counted(success)
      /\ UNCHANGED <<upload_socket, temp, queue, item, enqueued>>
  BY DEF ProcessImage, Step, processorVars
<1>3. item \in Item /\ item.file \in Conn /\ outcome[item.file] = "none"
  BY <1>2, ItemLemma DEF UInv, QueueInv
<1>4. result \in {"missing", "success", "failure"}
  OBVIOUS
<1>5. /\ outcome' \in [Conn -> {"none", "missing", "success", "failure"}]
      /\ \A S \in SUBSET {"missing", "success", "failure"} :
           /\ Ended(S)' = IF result \in S THEN Ended(S) \cup {item.file} ELSE Ended(S)
           /\ Cardinality(Ended(S)') =
                Cardinality(Ended(S)) + (IF result \in S THEN 1 ELSE 0)
  BY <1>2, <1>3, <1>4, EndedLemma
<1>6. file_stats \in [total_uploads : Nat, successful_uploads : Nat, failed_uploads : Nat]
  BY DEF UInv, UTypeOK
<1>7. /\ file_stats' \in [total_uploads : Nat, successful_uploads : Nat,
                           failed_uploads : Nat]
      /\ file_stats'.total_uploads = file_stats.total_uploads + 1
      /\ file_stats'.successful_uploads =
           file_stats.successful_uploads + (IF success THEN 1 ELSE 0)
      /\ file_stats'.failed_uploads =
           file_stats.failed_uploads + (IF success THEN 0 ELSE 1)
  BY <1>2, <1>6 DEF Counted
<1>8. UTypeOK'
  BY <1>1, <1>2, <1>5, <1>7 DEF UInv, UTypeOK
<1>9. QueueInv'
  BY <1>2, <1>3 DEF UInv, QueueInv
<1>10. Waiting' = Waiting
  BY <1>2 DEF Waiting
<1>11. TempFilesOwned'
  BY <1>1, <1>2, <1>10 DEF UInv, TempFilesOwned
<1>12. UploadsAccounted'
  <2>1. InProgress = {item.file} /\ InProgress' = {}
    BY <1>2 DEF InProgress
  <2>2. Ended({"missing", "success", "failure"})' =
          Ended({"missing", "success", "failure"}) \cup {item.file}
    BY <1>4, <1>5
  <2>3. Cardinality(Ended({"success"})') =
          Cardinality(Ended({"success"})) + (IF success THEN 1 ELSE 0)
    BY <1>5
  <2>4. Cardinality(Ended({"failure"})') =
          Cardinality(Ended({"failure"})) + (IF success THEN 0 ELSE 1)
    BY <1>5
  <2>5. Cardinality(Ended({"success", "failure"})') =
          Cardinality(Ended({"success", "failure"})) + 1
    BY <1>5
  <2>6. /\ enqueued' = Waiting' \cup InProgress' \cup Ended({"missing", "success", "failure"})'
        /\ Waiting' \cap (InProgress' \cup Ended({"missing", "success", "failure"})') = {}
    BY <1>2, <1>10, <2>1, <2>2 DEF UInv, UploadsAccounted
  <2>7. /\ file_stats'.successful_uploads = Cardinality(Ended({"success"})')
        /\ file_stats'.failed_uploads = Cardinality(Ended({"failure"})')
        /\ file_stats'.total_uploads = Cardinality(Ended({"success", "failure"})')
    BY <1>7, <2>3, <2>4, <2>5 DEF UInv, UploadsAccounted
  <2>8. QED
    BY <2>6, <2>7 DEF UploadsAccounted
<1>13. QED
  BY <1>1, <1>8, <1>9, <1>11, <1>12 DEF UInv

\* The other steps of the processor; the file goes before the next dequeue.
LEMMA ProcessorKeepsUInv ==
  ASSUME UInv, CheckTemp \/ CleanupTempImage \/ CloseItemSocket
  PROVE  UInv'
<1>1. ConnTypes' /\ HandlersInv' /\ handler' = handler
  BY ConnectionsStay DEF ProcessorStep
<1>2. /\ UNCHANGED <<upload_socket, queue, item, file_stats, enqueued, outcome>>
      /\ \/ processor = "check" /\ processor' = "process" /\ temp' = temp
         \/ processor = "unlink" /\ processor' = "close" /\ temp' = temp \ {item.file}
         \/ processor = "close" /\ processor' = "dequeue" /\ temp' = temp
  BY DEF CheckTemp, CleanupTempImage, CloseItemSocket, Step, processorVars
<1>3. UTypeOK' /\ QueueInv'
  BY <1>1, <1>2 DEF UInv, UTypeOK, QueueInv
<1>4. Waiting' = Waiting /\ InProgress' = InProgress /\ \A S : Ended(S)' = Ended(S)
  BY <1>2 DEF Waiting, InProgress, Ended
<1>5. TempFilesOwned'
  BY <1>1, <1>2, <1>4 DEF UInv, TempFilesOwned
<1>6. UploadsAccounted'
  BY <1>2, <1>4 DEF UInv, UploadsAccounted
<1>7. QED
  BY <1>1, <1>3, <1>5, <1>6 DEF UInv

-----------------------------------------------------------------------------
LEMMA UNextKeepsUInv ==
  ASSUME UInv, [UNext]_allVars
  PROVE  UInv'
<1>1. CASE ConnectionStep
  BY <1>1, ConnectionKeepsUInv
<1>2. CASE \E c \in Conn : UploadStep(c)
  BY <1>2, UploadKeepsUInv, EnqueueKeepsUInv
<1>3. CASE CleanupOldTempFiles
  BY <1>3, CleanupKeepsUInv
<1>4. CASE ProcessorStep
  BY <1>4, DequeueKeepsUInv, MissingKeepsUInv, ProcessKeepsUInv, ProcessorKeepsUInv
     DEF ProcessorStep
<1>5. CASE UNCHANGED allVars
  BY <1>5
     DEF UInv, UTypeOK, ConnTypes, HandlersInv, QueueInv, TempFilesOwned,
         UploadsAccounted, Waiting, InProgress, Ended, allVars, uploadVars, vars,
         tableVars, kernelVars, serverVars, threadVars
<1>6. QED
  BY <1>1, <1>2, <1>3, <1>4, <1>5 DEF UNext

LEMMA InitUInv == UInit => UInv
<1> SUFFICES ASSUME UInit PROVE UInv
  OBVIOUS
<1>1. Init /\ queue = {} /\ item = NoItem /\ temp = {} /\ enqueued = {}
  BY DEF UInit, FQ!Init
<1>2. ConnTypes
  BY <1>1, ConnectionsAssumption DEF Init, ConnTypes, Slot, Conn, NoConn
<1>3. handler = [c \in Conn |-> "none"] /\ server = "accept"
  BY <1>1 DEF Init
<1>4. HandlersInv
  BY <1>1, <1>3 DEF HandlersInv
<1>5. IsFiniteSet({}) /\ Cardinality({}) = 0
  BY FS_EmptySet
<1>6. UTypeOK
  BY <1>1, <1>3, <1>5, UploadAssumption DEF UInit, UTypeOK
<1>7. QueueInv
  BY <1>1, <1>5 DEF UInit, QueueInv
<1>8. TempFilesOwned
  BY <1>1 DEF TempFilesOwned
<1>9. UploadsAccounted
  <2>1. Waiting = {} /\ InProgress = {}
    BY <1>1 DEF UInit, Waiting, InProgress
  <2>2. \A S \in SUBSET {"missing", "success", "failure"} : Ended(S) = {}
    BY DEF UInit, Ended
  <2>3. /\ Ended({"success"}) = {} /\ Ended({"failure"}) = {}
        /\ Ended({"success", "failure"}) = {}
        /\ Ended({"missing", "success", "failure"}) = {}
    BY <2>2
  <2>4. QED
    BY <1>1, <1>5, <2>1, <2>3 DEF UInit, UploadsAccounted
<1>10. QED
  BY <1>2, <1>4, <1>6, <1>7, <1>8, <1>9 DEF UInv

LEMMA UploadInvariant == USpec => []UInv
<1>1. UInit => UInv
  BY InitUInv
<1>2. UInv /\ [UNext]_allVars => UInv'
  BY UNextKeepsUInv
<1> HIDE DEF UInit, UNext, allVars, UInv
<1>3. QED
  BY <1>1, <1>2, PTL DEF USpec

\* Every variable of the upload path has its type, and the queue its bound.
THEOREM UploadTypeCorrectness == USpec => []UTypeOK
<1>1. UInv => UTypeOK
  BY DEF UInv
<1> HIDE DEF UInv, UTypeOK
<1>2. QED
  BY <1>1, UploadInvariant, PTL

\* Whatever fails between the write of a temporary file and its processing, and
\* whatever the connections and the hourly cleanup do meanwhile, the file is in
\* the hands of somebody who will remove it.
THEOREM TempFilesHaveOwners == USpec => []TempFilesOwned
<1>1. UInv => TempFilesOwned
  BY DEF UInv
<1> HIDE DEF UInv, TempFilesOwned
<1>2. QED
  BY <1>1, UploadInvariant, PTL

\* No upload that a client was told was received is lost or processed twice, and
\* update_file_stats counts each that was processed once.
THEOREM EveryUploadIsAccounted == USpec => []UploadsAccounted
<1>1. UInv => UploadsAccounted
  BY DEF UInv
<1> HIDE DEF UInv, UploadsAccounted
<1>2. QED
  BY <1>1, UploadInvariant, PTL

-----------------------------------------------------------------------------
(* What the queue is given. *)

\* A handler that is about to queue its upload finds none of that name waiting, so
\* that FileQueue, which wants the names to be distinct, turns away nothing that
\* enqueue_file_for_processing would take.
THEOREM NamesAreFresh ==
  USpec => [](\A c \in Conn : handler[c] = "saved" => c \notin Waiting)
<1> DEFINE Fresh == \A c \in Conn : handler[c] = "saved" => c \notin Waiting
<1>1. UInv => Fresh
  <2> SUFFICES ASSUME UInv, NEW c \in Conn, handler[c] = "saved", c \in Waiting
               PROVE  FALSE
    OBVIOUS
  <2>1. c \in enqueued
    BY DEF UInv, UploadsAccounted
  <2>2. QED
    BY <2>1 DEF UInv, HandlersInv
<1> HIDE DEF UInv, Fresh
<1>2. USpec => []Fresh
  BY <1>1, UploadInvariant, PTL
<1>3. QED
  BY <1>2 DEF Fresh
=============================================================================
