--------------------------- MODULE UploadService ----------------------------
(***************************************************************************)
(* An upload from the request to the processed image: the POST branch of   *)
(* client_handler_thread with handle_file_upload_request (file_handler.c), *)
(* the temporary files, the processing queue and file_processor_thread     *)
(* (priority_queue.c), on top of the connections of Connections.tla.       *)
(*                                                                         *)
(* The queue is FileQueue, which the heap of the code implements           *)
(* (PriorityQueue.tla); the server stays up.  A temporary file is named by *)
(* the handler thread that wrote it: generate_temp_filename never repeats  *)
(* a name.                                                                 *)
(***************************************************************************)
EXTENDS Connections

CONSTANTS Priority,       \* sizes of the uploads
          MaxQueueSize,   \* MAX_QUEUE_SIZE
          NoItem          \* the processor's uninitialised item

ASSUME UploadAssumption == Priority \subseteq Int /\ MaxQueueSize \in Nat \ {0}

VARIABLES
  upload_socket, \* parameter client_socket of handle_file_upload_request
  temp,          \* the files in the temporary directory
  queue,         \* the uploads in processing_queue
  item,          \* the processor's local item
  processor,     \* where the processor thread is
  file_stats,    \* global_file_stats
  enqueued,      \* history: the handlers whose upload was queued
  outcome        \* history: how the processing of each upload ended

uploadVars == <<upload_socket, temp, queue, item, processor, file_stats,
                enqueued, outcome>>
allVars == <<vars, uploadVars>>

Item == [file : Conn, priority : Priority, client_socket : Fd \cup {NoFd},
         request : Conn \cup {NoConn}]

FQ == INSTANCE FileQueue

UInit ==
  /\ Init
  /\ FQ!Init
  /\ upload_socket = [c \in Conn |-> NoFd]
  /\ temp = {}
  /\ processor = "dequeue"
  /\ file_stats = [total_uploads |-> 0, successful_uploads |-> 0,
                   failed_uploads |-> 0]
  /\ enqueued = {}
  /\ outcome = [c \in Conn |-> "none"]

-----------------------------------------------------------------------------
(* The handler of a POST with multipart/form-data. *)

\* The descriptor is read from the slot once, for the whole upload.
StartUpload(c) ==
  /\ Goto(c, "respond", "upload")
  /\ upload_socket' = [upload_socket EXCEPT ![c] = SocketOf(c)]
  /\ UNCHANGED <<tableVars, kernelVars, serverVars, slotOf, request, temp,
                 queue, item, processor, file_stats, enqueued, outcome>>

\* Every failure of handle_file_upload_request sends an error to
\* upload_socket[c] and returns -1.
UploadFails(c, from) ==
  /\ Goto(c, from, "upload_failed")
  /\ UNCHANGED <<tableVars, kernelVars, serverVars, slotOf, request,
                 upload_socket, queue, item, processor, file_stats, enqueued,
                 outcome>>

\* Bad headers, boundary or multipart data, wrong format, too large, or the
\* temporary file cannot be opened.
RefuseUpload(c) == UploadFails(c, "upload") /\ UNCHANGED temp

SaveTemp(c) ==
  /\ Goto(c, "upload", "saved")
  /\ temp' = temp \cup {c}
  /\ UNCHANGED <<tableVars, kernelVars, serverVars, slotOf, request,
                 upload_socket, queue, item, processor, file_stats, enqueued,
                 outcome>>

\* A short write, or no image: the file is removed.
DiscardTemp(c) == UploadFails(c, "saved") /\ temp' = temp \ {c}

\* Mutant: the file is left behind.
EnqueueFailsKeepsFile(c) ==
  /\ Cardinality(queue) >= MaxQueueSize \/ c \notin temp
  /\ UploadFails(c, "saved")
  /\ UNCHANGED temp

\* enqueue_file_for_processing returns -1: the queue is full or stat() does not
\* find the file, which is removed.
EnqueueFails(c) ==
  /\ Cardinality(queue) >= MaxQueueSize \/ c \notin temp
  /\ UploadFails(c, "saved")
  /\ temp' = temp \ {c}

Enqueue(c) ==
  /\ Goto(c, "saved", "queued")
  /\ c \in temp
  /\ \E p \in Priority :
       FQ!Submit([file |-> c, priority |-> p,
                  client_socket |-> upload_socket[c], request |-> request[c]])
  /\ enqueued' = enqueued \cup {c}
  /\ UNCHANGED <<tableVars, kernelVars, serverVars, slotOf, request,
                 upload_socket, temp, processor, file_stats, outcome>>

\* The handler answers SocketOf(c) when handle_file_upload_request is back: 200
\* for an upload that is in the queue, or one more error.
ReplyUpload(c, from) ==
  /\ Goto(c, from, "shutdown")
  /\ UNCHANGED <<tableVars, kernelVars, serverVars, slotOf, request,
                 uploadVars>>

ReplyQueued(c) == ReplyUpload(c, "queued")
ReplyFailed(c) == ReplyUpload(c, "upload_failed")

\* The temporary files that are older than 24 hours are removed by the server
\* thread.  No handler takes that long from writing its file to queueing it, but
\* a file may wait that long in the queue.
CleanupOldTempFiles ==
  /\ server = "accept"
  /\ \E c \in temp : handler[c] # "saved" /\ temp' = temp \ {c}
  /\ UNCHANGED <<vars, upload_socket, queue, item, processor, file_stats,
                 enqueued, outcome>>

-----------------------------------------------------------------------------
(* file_processor_thread. *)

processorVars == <<tableVars, kernelVars, serverVars, threadVars,
                   upload_socket, enqueued>>

Step(from, to) == processor = from /\ processor' = to

Dequeue ==
  /\ Step("dequeue", "check")
  /\ \E it \in queue : FQ!Serve(it)
  /\ UNCHANGED <<processorVars, temp, file_stats, outcome>>

\* access() finds the temporary file ...
CheckTemp ==
  /\ Step("check", "process")
  /\ item.file \in temp
  /\ UNCHANGED <<processorVars, temp, queue, item, file_stats,
                 outcome>>

\* ... or not: an error reply to item.client_socket, and no statistics.
MissingTemp ==
  /\ Step("check", "close")
  /\ item.file \notin temp
  /\ outcome' = [outcome EXCEPT ![item.file] = "missing"]
  /\ UNCHANGED <<processorVars, temp, queue, item, file_stats>>

\* Mutant: every processed file counts as a success.
CountedAsSuccess(success) ==
  [file_stats EXCEPT !.total_uploads = @ + 1, !.successful_uploads = @ + 1]

\* update_file_stats.
Counted(success) ==
  [total_uploads      |-> file_stats.total_uploads + 1,
   successful_uploads |-> file_stats.successful_uploads + (IF success THEN 1 ELSE 0),
   failed_uploads     |-> file_stats.failed_uploads + (IF success THEN 0 ELSE 1)]

\* process_image_complete, the reply to item.client_socket and
\* update_file_stats.
ProcessImage(success) ==
  /\ Step("process", "unlink")
  /\ success => item.file \in temp
  /\ file_stats' = Counted(success)
  /\ outcome' = [outcome EXCEPT ![item.file] =
                   IF success THEN "success" ELSE "failure"]
  /\ UNCHANGED <<processorVars, temp, queue, item>>

\* Mutant: the file is not removed.
CleanupNothing ==
  /\ Step("unlink", "close")
  /\ UNCHANGED <<processorVars, temp, queue, item, file_stats, outcome>>

CleanupTempImage ==
  /\ Step("unlink", "close")
  /\ temp' = temp \ {item.file}
  /\ UNCHANGED <<processorVars, queue, item, file_stats, outcome>>

\* close(item.client_socket), whatever that descriptor is by now.
CloseItemSocket ==
  /\ Step("close", "dequeue")
  /\ CloseFds({item.client_socket})
  /\ UNCHANGED <<tableVars, serverVars, threadVars, upload_socket,
                 enqueued, temp, queue, item, file_stats, outcome>>

-----------------------------------------------------------------------------
UploadStep(c) ==
  \/ StartUpload(c) \/ RefuseUpload(c) \/ SaveTemp(c) \/ DiscardTemp(c)
  \/ EnqueueFails(c) \/ Enqueue(c) \/ ReplyQueued(c) \/ ReplyFailed(c)

ProcessorStep ==
  \/ Dequeue \/ CheckTemp \/ MissingTemp
  \/ \E success \in BOOLEAN : ProcessImage(success)
  \/ CleanupTempImage \/ CloseItemSocket

\* The connections go their own way meanwhile.
ConnectionStep == Next /\ UNCHANGED uploadVars

UNext ==
  \/ ConnectionStep
  \/ \E c \in Conn : UploadStep(c)
  \/ CleanupOldTempFiles
  \/ ProcessorStep

USpec == UInit /\ [][UNext]_allVars

\* The processor thread never stops, and a handler that holds an upload does
\* not wait for anybody.
UFairSpec ==
  /\ USpec
  /\ WF_allVars(ProcessorStep)
  /\ \A c \in Conn :
       WF_allVars(RefuseUpload(c) \/ SaveTemp(c) \/ DiscardTemp(c)
                    \/ EnqueueFails(c) \/ Enqueue(c))

-----------------------------------------------------------------------------
(* Safety *)

\* The type of every variable that uploads add; the queue is bounded.
UTypeOK ==
  /\ handler \in [Conn -> {"none", "start", "receive", "respond", "shutdown",
                           "close", "mark", "done", "upload", "saved",
                           "queued", "upload_failed"}]
  /\ upload_socket \in [Conn -> Fd \cup {NoFd}]
  /\ temp \subseteq Conn
  /\ queue \subseteq Item /\ Cardinality(queue) <= MaxQueueSize
  /\ item \in Item \cup {NoItem}
  /\ processor \in {"dequeue", "check", "process", "unlink", "close"}
  /\ file_stats \in [total_uploads : Nat, successful_uploads : Nat,
                     failed_uploads : Nat]
  /\ enqueued \subseteq Conn
  /\ outcome \in [Conn -> {"none", "missing", "success", "failure"}]

Waiting    == {it.file : it \in queue}
InProgress == IF processor \in {"check", "process"} THEN {item.file} ELSE {}
Ended(S)   == {c \in Conn : outcome[c] \in S}

\* Every temporary file has an owner that will remove it: its handler until it
\* is queued, then its place in the queue, then the processor.
TempFilesOwned ==
  \A c \in temp :
    \/ handler[c] = "saved"
    \/ c \in Waiting
    \/ processor \in {"check", "process", "unlink"} /\ item.file = c

\* Each upload that was queued, and so reported as a success to its client, is
\* waiting, in progress or ended, and the statistics count the ended ones once
\* each, except those whose file was removed by the hourly cleanup.
UploadsAccounted ==
  /\ enqueued = Waiting \cup InProgress \cup Ended({"missing", "success", "failure"})
  /\ Waiting \cap (InProgress \cup Ended({"missing", "success", "failure"})) = {}
  /\ file_stats.successful_uploads = Cardinality(Ended({"success"}))
  /\ file_stats.failed_uploads = Cardinality(Ended({"failure"}))
  /\ file_stats.total_uploads = Cardinality(Ended({"success", "failure"}))

(* Liveness *)

\* An upload that was saved is not kept for ever: in the end its file is gone,
\* and if it was queued its processing has ended.
UploadsEnd ==
  \A c \in Conn :
    handler[c] = "saved" ~>
      /\ c \notin temp
      /\ c \in enqueued => outcome[c] # "none"

(* What the comments of the code say of it, and the code does not do. *)

\* priority_queue.c:497 "Enviar respuesta de exito": the response that the
\* processor sends arrives at the client whose upload was processed.
ProcessedResponseArrives ==
  [][\A c \in Conn :
       outcome[c] = "none" /\ outcome'[c] = "success" =>
         Receiver(item.client_socket) = item.request]_allVars
=============================================================================
