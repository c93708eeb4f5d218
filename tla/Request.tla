------------------------------ MODULE Request -------------------------------
(***************************************************************************)
(* One request, from its bytes on the socket to the file in it:            *)
(* receive_complete_request and the dispatch of client_handler_thread      *)
(* (server.c), handle_file_upload_request up to the queue (file_handler.c).*)
(*                                                                         *)
(* The client's bytes arrive in pieces of any size, late or never; recv    *)
(* returns what is there, as far as the buffer has room.  Meanwhile other  *)
(* threads may close the descriptor, and a signal may interrupt the recv.  *)
(* That a closed number is given to another connection, whose bytes the    *)
(* receiver would take for its client's, is in Connections and not here.   *)
(***************************************************************************)
EXTENDS Multipart

CONSTANTS
  Message,      \* what clients send: bytes, the number after Content-Length:,
                \* the boundary= of the Content-Type header, and for the
                \* properties the image and how many bytes follow it
  BufferSize,   \* MAX_UPLOAD_SIZE + MAX_BUFFER_SIZE
  MaxImageSize  \* server_config.max_image_size_mb

Method == {"GET", "POST", "HEAD", "OPTIONS", "PUT"}
Path   == {"/upload", "/other"}
Byte   == Method \cup Path
            \cup {"length", "multipart", "lower-multipart", "octet-stream",
                  "file.png", "file.txt", "field", "CR", "LF", "NUL", "-", "b", "x"}

ASSUME RequestAssumption ==
  /\ Message \subseteq [bytes : Seq(Byte), length : Nat, boundary : Seq(Byte),
                   image : Seq(Byte), tail : Nat]
  /\ BufferSize \in Nat /\ MaxUploadSize < BufferSize
  /\ 2 * BufferSize + Margin < SizeModulus
  /\ MaxImageSize \in Nat

VARIABLES
  message,         \* what this client sends
  arrived,         \* how much of it has reached the socket
  client,          \* "open", "closed" or "reset"
  descriptor,      \* the handler's: "open"; "pending" if it was closed under a
                   \* recv, which still returns once; "closed"
  total_received,
  headers_end_pos, \* the size of the headers, 0 until they are complete
  content_length,
  stage,           \* where the handler is
  cut,             \* history: what made the receiver stop
  file,            \* the file of the upload that goes to the queue
  replies          \* the status codes sent

socketVars == <<message, arrived, client>>
recvVars   == <<total_received, headers_end_pos, content_length, cut>>
vars       == <<socketVars, descriptor, recvVars, stage, file, replies>>

Init ==
  /\ message \in Message
  /\ arrived = 0
  /\ client = "open"
  /\ descriptor = "open"
  /\ total_received = 0
  /\ headers_end_pos = 0
  /\ content_length = 0
  /\ stage = "recv"
  /\ cut = "none"
  /\ file = NoFile
  /\ replies = <<>>

buffer == SubSeq(message.bytes, 1, total_received)

-----------------------------------------------------------------------------
(* The client, the network and the other threads. *)

\* Pieces that arrive before the next recv are one piece.
Arrive ==
  /\ client = "open"
  /\ stage = "recv" /\ total_received = arrived
  /\ \E n \in arrived + 1 .. Len(message.bytes) : arrived' = n
  /\ UNCHANGED <<message, client, descriptor, recvVars, stage, file, replies>>

Hangup ==
  /\ client = "open"
  /\ stage = "recv"
  /\ client' \in {"closed", "reset"}
  /\ UNCHANGED <<message, arrived, descriptor, recvVars, stage, file, replies>>

\* The server thread evicts the client, which may be active but was accepted more
\* than 300 seconds ago; or some thread closes a number that it once had, and that
\* is this client's now.
CloseDescriptor ==
  /\ stage = "recv"
  /\ descriptor = "open"
  /\ descriptor' \in {"pending", "closed"}
  /\ UNCHANGED <<socketVars, recvVars, stage, file, replies>>

-----------------------------------------------------------------------------
(* receive_complete_request. *)

\* The Content-Length: that strcasestr finds first in what was received, which
\* is longer than that word: in less, strcasestr would read beyond the data.
Declared(bytes) ==
  IF Find(bytes, <<"length">>, 1) # 0 THEN message.length ELSE 0

\* Mutant: the headers are not counted.
ExpectedBody(headers, length) == length

Expected(headers, length) == headers + length

\* Mutant: no room is left for the NUL byte after the data.
CapacityFull == BufferSize

Capacity == BufferSize - 1

\* What the loop does after a recv: go on, fail or stop.
Verdict(total, headers, length) ==
  LET declared == headers # 0 /\ length > 0
  IN  IF length > MaxUploadSize THEN "failed"
      ELSE IF declared /\ total >= Expected(headers, length) THEN "complete"
      ELSE IF declared /\ Expected(headers, length) >= BufferSize THEN "failed"
      ELSE IF headers # 0 /\ length = 0 THEN "no body"
      ELSE IF total >= Capacity THEN "full"
      ELSE "none"

\* recv finds the connection: it is still open, or was when the call began.
Reaches ==
  /\ descriptor # "closed"
  /\ descriptor' = IF descriptor = "pending" THEN "closed" ELSE descriptor

Misses == descriptor = "closed" /\ UNCHANGED descriptor

Receive ==
  /\ stage = "recv"
  /\ Reaches
  /\ client # "reset"
  /\ arrived > total_received
  /\ \E total \in {arrived, Capacity} :
       /\ total <= arrived /\ total <= Capacity
       /\ total_received' = total
       /\ LET bytes   == SubSeq(message.bytes, 1, total)
              found   == Find(bytes, HeaderEnd, 1)
              headers == IF headers_end_pos # 0 THEN headers_end_pos
                         ELSE IF found # 0 THEN found + 3 ELSE 0
              length  == IF headers_end_pos = 0 /\ found # 0 THEN Declared(bytes)
                         ELSE content_length
          IN  /\ headers_end_pos' = headers
              /\ content_length' = length
              /\ cut' = Verdict(total, headers, length)
  /\ stage' = CASE cut' = "none"   -> "recv"
                [] cut' = "failed" -> "bad"
                [] OTHER           -> "request"
  /\ UNCHANGED <<socketVars, file, replies>>

\* The client has closed its side, or nothing has come for 30 seconds: what was
\* received is the request.
StopReceiving(why) ==
  /\ stage = "recv"
  /\ Reaches
  /\ total_received = arrived
  /\ cut' = why
  /\ stage' = IF total_received > 0 THEN "request" ELSE "bad"
  /\ UNCHANGED <<socketVars, total_received, headers_end_pos, content_length,
                 file, replies>>

EndOfFile == client = "closed" /\ StopReceiving("eof")

\* Mutant: the call is tried again after a timeout.
RetryAfterTimeout ==
  /\ client = "open" /\ stage = "recv" /\ total_received = arrived
  /\ UNCHANGED vars

Timeout == client = "open" /\ StopReceiving("timeout")

\* recv fails: what was received is no request.
FailReceiving(why) ==
  /\ stage = "recv"
  /\ cut' = why
  /\ stage' = "bad"
  /\ UNCHANGED <<socketVars, total_received, headers_end_pos, content_length,
                 file, replies>>

\* The client has reset the connection, or the descriptor is closed.
ReceiveError ==
  \/ Reaches /\ client = "reset" /\ FailReceiving("reset")
  \/ Misses /\ FailReceiving("lost")

\* A signal comes while there is nothing to receive.  A recv with a timeout is not
\* restarted, whether or not its handler has SA_RESTART.
Interrupted ==
  /\ Reaches /\ client = "open" /\ total_received = arrived
  /\ FailReceiving("interrupted")

-----------------------------------------------------------------------------
(* client_handler_thread with the request in its buffer. *)

Answer(codes) ==
  /\ stage' = "done"
  /\ replies' = codes
  /\ UNCHANGED <<socketVars, descriptor, recvVars>>

BadRequest == stage = "bad" /\ Answer(<<400>>) /\ UNCHANGED file

\* parse_http_request: a method and a path, and the method is one of four.
WellFormed ==
  Len(buffer) >= 2 /\ buffer[1] \in Method \ {"PUT"} /\ buffer[2] \in Path

SaysMultipart ==
  \E line \in {"multipart", "lower-multipart"} : Find(buffer, <<line>>, 1) # 0

IsUpload == WellFormed /\ buffer[1] = "POST" /\ SaysMultipart

\* A GET, another method, a POST of something else, or no request at all.
AnswerAtOnce ==
  /\ stage = "request" /\ ~IsUpload
  /\ Answer(<<IF WellFormed /\ buffer[1] = "GET"
              THEN IF buffer[2] = "/upload" THEN 200 ELSE 404
              ELSE IF WellFormed /\ buffer[1] # "POST" THEN 405 ELSE 400>>)
  /\ UNCHANGED file

\* The first line of the request that begins with Content-Type: is that of the
\* request, and it has a boundary.
HasBoundary ==
  LET multipart == Find(buffer, <<"multipart">>, 1)
      other     == Find(buffer, <<"octet-stream">>, 1)
  IN  /\ multipart # 0 /\ (other = 0 \/ multipart < other)
      /\ message.boundary # <<>>

\* The file that handle_file_upload_request finds, by its place in the buffer.
FileFound ==
  LET body == FileStart(buffer, 1)
      part == ParseMultipart(SubSeq(buffer, body, total_received),
                             message.boundary)
  IN  IF HasBoundary /\ body # 0 /\ part # NoFile
      THEN [part EXCEPT !.first = @ + body - 1]
      ELSE NoFile

Acceptable ==
  /\ FileFound # NoFile
  /\ Find(buffer, <<"file.png">>, 1) # 0
  /\ FileFound.size <= MaxImageSize

\* The temporary file is written, it is an image and the queue has room.
AcceptUpload ==
  /\ stage = "request" /\ IsUpload
  /\ Acceptable
  /\ file' = FileFound
  /\ Answer(<<200>>)

\* Anything else is answered by handle_file_upload_request and once more by its
\* caller.
RefuseUpload ==
  /\ stage = "request" /\ IsUpload
  /\ \E code \in IF Acceptable THEN {400, 500} ELSE {400, 413} :
       Answer(<<code, 500>>)
  /\ UNCHANGED file

-----------------------------------------------------------------------------
Recv   == Receive \/ EndOfFile \/ Timeout \/ ReceiveError
Handle == BadRequest \/ AnswerAtOnce \/ AcceptUpload \/ RefuseUpload

Done == stage = "done" /\ UNCHANGED vars

Next ==
  \/ Arrive \/ Hangup \/ CloseDescriptor
  \/ Recv \/ Interrupted \/ Handle \/ Done

Spec == Init /\ [][Next]_vars

\* recv does not block for more than 30 seconds; no client, thread or signal need
\* do anything.
FairSpec == Spec /\ WF_vars(Recv)

-----------------------------------------------------------------------------
\* The type of every variable.
TypeOK ==
  /\ message \in Message
  /\ arrived \in 0 .. Len(message.bytes)
  /\ client \in {"open", "closed", "reset"}
  /\ descriptor \in {"open", "pending", "closed"}
  /\ total_received \in 0 .. arrived /\ total_received < BufferSize
  /\ headers_end_pos \in 0 .. total_received
  /\ content_length \in Nat
  /\ stage \in {"recv", "request", "bad", "done"}
  /\ cut \in {"none", "failed", "complete", "no body", "full", "eof", "timeout",
              "reset", "lost", "interrupted"}
  /\ file \in [first : Nat, size : Nat]
  /\ replies \in Seq(Nat)

Whole == total_received = Len(message.bytes)

\* The headers of the message end, and its length is that of the rest.
Honest(m) ==
  LET headers == Find(m.bytes, HeaderEnd, 1) + 3
  IN  /\ headers > 3
      /\ Find(SubSeq(m.bytes, 1, headers), <<"length">>, 1) # 0
      /\ Len(m.bytes) = headers + m.length

\* However a request is cut into pieces, one that tells its length is handed on
\* whole and refused by its size only, unless the loop is left for another reason:
\* the client hung up, kept silent for 30 seconds or reset the connection, another
\* thread closed the descriptor, or a signal interrupted recv.
HonestRequestsArrive ==
  cut \in {"complete", "no body", "full", "failed"} /\ Honest(message) =>
    /\ cut \in {"complete", "no body"} => Whole
    /\ cut = "full" => Whole \/ Len(message.bytes) >= BufferSize
    /\ cut = "failed" => \/ message.length > MaxUploadSize
                         \/ Len(message.bytes) >= BufferSize

\* The file lies within what was received, after the headers, and its size fits
\* the int of its priority.
FileInRequest ==
  file # NoFile =>
    /\ headers_end_pos < file.first
    /\ file.first + file.size - 1 <= total_received
    /\ file.size \in 1 .. MaxUploadSize

FileBytes == SubSeq(buffer, file.first, file.first + file.size - 1)

HasNul(s) == \E i \in DOMAIN s : s[i] = "NUL"

Occurs(s, what, i) ==
  /\ i + Len(what) - 1 <= Len(s)
  /\ \A k \in DOMAIN what : s[i + k - 1] = what[k]

\* A body of one part, as clients build it: the boundary, the headers of the part
\* up to the first empty line, the image, and the closing boundary, which is the
\* first boundary after that of the part.  No image format ends in CR or LF.
WellBuilt(m) ==
  LET body    == Find(m.bytes, HeaderEnd, 1) + 4
      opening == FullBoundary(m.boundary)
      headers == Find(m.bytes, HeaderEnd, body + Len(opening) + 2)
      at      == Len(m.bytes) - m.tail - Len(m.image) + 1
  IN  /\ body > 4 /\ ~HasNul(m.boundary)
      /\ Occurs(m.bytes, opening \o CRLF, body)
      /\ headers # 0 /\ headers + 4 = at
      /\ Occurs(m.bytes, m.image \o CRLF \o ClosingBoundary(m.boundary), at)
      /\ \A i \in body + 1 .. at + Len(m.image) + 1 : ~Occurs(m.bytes, opening, i)
      /\ m.image # <<>> /\ m.image[Len(m.image)] \notin {"CR", "LF"}

\* An image that is accepted from a whole request is the client's, if it is text
\* for the string functions.
TextImageIntact ==
  file # NoFile /\ Whole /\ WellBuilt(message) /\ ~HasNul(message.image) =>
    FileBytes = message.image

\* With a NUL byte in it, bytes of the closing boundary may follow the image but
\* none of its own is missing, if the closing boundary is as long as the margin.
NothingMissing ==
  file # NoFile /\ Whole /\ WellBuilt(message) /\ message.tail >= Margin =>
    /\ file.size >= Len(message.image)
    /\ SubSeq(FileBytes, 1, Len(message.image)) = message.image

\* receive_complete_request returns, whatever its client does: no connection
\* waits for ever for the rest of a request.
ReceiverReturns == <>(stage # "recv")

(* What comments of the code say, and the code does not do. *)

\* file_handler.c:162 "Buscar el boundary de cierre" and :256 "Calcular fin de
\* datos del archivo": in an upload that is received whole, and built as the
\* parser expects it, the file ends before the closing boundary.
FileEndsAtClosingBoundary ==
  file # NoFile /\ Whole /\ WellBuilt(message) =>
    file.first + file.size - 1 <= Len(message.bytes) - message.tail + 2
=============================================================================
