---------------------------- MODULE Connections -----------------------------
(***************************************************************************)
(* The client connections of src/server.c: the table main_server.clients   *)
(* with its clients_mutex, the server thread that accepts, registers and   *)
(* evicts clients, and one handler thread per connection.                  *)
(*                                                                         *)
(* A handler thread keeps a pointer to its slot of the table and reads     *)
(* client->socket_fd again for every call it makes, although the slot and  *)
(* the descriptor may by then belong to another connection.  So the model  *)
(* has the kernel's descriptor table: a descriptor is a small number that  *)
(* accept may hand out again as soon as it is closed.                      *)
(*                                                                         *)
(* What a handler does under clients_mutex is one action, as nothing else  *)
(* that the mutex protects can change meanwhile.  The request itself is    *)
(* abstracted: it arrives, and one reply is sent (uploads, which do more,  *)
(* are in UploadService.tla).                                              *)
(***************************************************************************)
EXTENDS Integers, FiniteSets

CONSTANTS
  MaxConns,        \* bound: connections that clients open in one execution
  Fd,              \* the descriptors the kernel may hand out
  NoFd,            \* what a socket_fd holds before it is set
  MAX_CLIENTS,     \* slots of main_server.clients, 50 in the code
  MaxConnections   \* server_config.max_connections, 1 .. 1000 in the code

Conn   == 1 .. MaxConns    \* connections, in the order they are accepted
NoConn == 0
Slot   == 0 .. MAX_CLIENTS - 1

ASSUME ConnectionsAssumption ==
  /\ MaxConns \in Nat /\ MAX_CLIENTS \in Nat \ {0}
  /\ MaxConnections \in Nat \ {0}
  /\ NoFd \notin Fd

VARIABLES
  clients,       \* main_server.clients: active, socket_fd, connection_time
  client_count,  \* main_server.client_count
  accepted,      \* connections accepted so far; stands for the time as well
  fdTable,       \* kernel: the connection behind each descriptor
  shut,          \* kernel: connections that were shut down, not yet closed
  server,        \* where the server thread is
  client_socket, \* its local client_socket
  handler,       \* where the handler thread of each connection is
  slotOf,        \* its argument: the slot it was given a pointer to
  request,       \* the connection whose request it has read
  evicted        \* history: slots taken away by cleanup_inactive_clients

tableVars  == <<clients, client_count, evicted>>
kernelVars == <<fdTable, shut>>
serverVars == <<server, client_socket, accepted>>
threadVars == <<handler, slotOf, request>>
vars == <<tableVars, kernelVars, serverVars, threadVars>>

Init ==
  /\ clients = [s \in Slot |->
                  [active |-> FALSE, socket_fd |-> NoFd, connection_time |-> 0]]
  /\ client_count = 0
  /\ accepted = 0
  /\ fdTable = [fd \in Fd |-> NoConn]
  /\ shut = {}
  /\ server = "accept"
  /\ client_socket = NoFd
  /\ handler = [c \in Conn |-> "none"]
  /\ slotOf = [c \in Conn |-> 0]
  /\ request = [c \in Conn |-> NoConn]
  /\ evicted = 0

-----------------------------------------------------------------------------
(* The kernel, as the code uses it. *)

\* The connection a descriptor stands for now; none if it is closed.
Behind(fd) == IF fd \in Fd THEN fdTable[fd] ELSE NoConn

\* The client that receives what is sent to a descriptor: none if it is closed
\* or shut down (SIGPIPE is ignored).  Sending changes nothing in the server, so
\* a reply is only where its action asks for the descriptor; who receives it is
\* what the properties look at.
Receiver(fd) == IF Behind(fd) \in shut THEN NoConn ELSE Behind(fd)

CloseFds(fds) ==
  /\ fdTable' = [fd \in Fd |-> IF fd \in fds THEN NoConn ELSE fdTable[fd]]
  /\ shut' = shut \ {Behind(fd) : fd \in fds}

-----------------------------------------------------------------------------
(* The server thread: accept_client_connection, add_client and            *)
(* cleanup_inactive_clients, called one after the other by                *)
(* server_thread_func.                                                     *)

\* accept() returns: the next connection, on some descriptor that is free (the
\* files that other threads open take descriptors too) ...
Accept ==
  /\ server = "accept"
  /\ accepted < MaxConns
  /\ \E fd \in {f \in Fd : fdTable[f] = NoConn} :
       /\ fdTable' = [fdTable EXCEPT ![fd] = accepted + 1]
       /\ client_socket' = fd
  /\ accepted' = accepted + 1
  /\ server' = "check"
  /\ UNCHANGED <<tableVars, shut, threadVars>>

\* ... or nothing: the listening socket has a timeout of 30 seconds.
AcceptFails ==
  /\ server = "accept"
  /\ client_socket' = NoFd
  /\ server' = "cleanup"
  /\ UNCHANGED <<tableVars, kernelVars, accepted, threadVars>>

\* Mutant: one client too many.
BusyOffByOne == client_count > MaxConnections

Busy == client_count >= MaxConnections

\* The limit is tested with the mutex, which is then released.
CheckLimit ==
  /\ server = "check"
  /\ ~Busy
  /\ server' = "add"
  /\ UNCHANGED <<tableVars, kernelVars, client_socket, accepted, threadVars>>

\* 503 "Server busy", then close.
RejectBusy ==
  /\ server = "check"
  /\ Busy
  /\ CloseFds({client_socket})
  /\ server' = "cleanup"
  /\ UNCHANGED <<tableVars, client_socket, accepted, threadVars>>

FreeSlots == {s \in Slot : ~clients[s].active}
FirstOf(S) == CHOOSE s \in S : \A t \in S : s <= t

\* The table after the slots of S are given back.
Released(S) == [s \in Slot |-> IF s \in S
                               THEN [clients[s] EXCEPT !.active = FALSE]
                               ELSE clients[s]]

\* The first inactive slot is filled and a handler thread is given a pointer
\* to it.
AddClient ==
  /\ server = "add"
  /\ FreeSlots # {}
  /\ LET s == FirstOf(FreeSlots)
     IN  /\ clients' = [clients EXCEPT ![s] =
                          [active |-> TRUE, socket_fd |-> client_socket,
                           connection_time |-> accepted]]
         /\ slotOf' = [slotOf EXCEPT ![accepted] = s]
  /\ client_count' = client_count + 1
  /\ handler' = [handler EXCEPT ![accepted] = "start"]
  /\ server' = "cleanup"
  /\ UNCHANGED <<evicted, kernelVars, client_socket, accepted, request>>

\* No slot is free, or pthread_create fails and the slot, already overwritten,
\* is given back.  The caller closes the socket without a word.
AddClientFails ==
  /\ server = "add"
  /\ \/ FreeSlots = {} /\ UNCHANGED clients
     \/ /\ FreeSlots # {}
        /\ clients' = [clients EXCEPT ![FirstOf(FreeSlots)] =
                         [active |-> FALSE, socket_fd |-> client_socket,
                          connection_time |-> accepted]]
  /\ CloseFds({client_socket})
  /\ server' = "cleanup"
  /\ UNCHANGED <<client_count, evicted, client_socket, accepted,
                 threadVars>>

\* Mutants: slots that are free already are given back again; a client is kept
\* as long as its handler runs.
ExpiredFreeToo(cut)  == {s \in Slot : clients[s].connection_time <= cut}
ExpiredIfIdle(cut) ==
  {s \in Slot : /\ clients[s].active
                /\ clients[s].connection_time <= cut
                /\ clients[s].connection_time # 0
                /\ handler[clients[s].connection_time] = "done"}

\* Every client that connected more than 300 seconds ago is thrown out,
\* whatever it does; since connection_time grows with every connection these
\* are the ones accepted up to some point: not the one accepted just now.
\* Their handlers are not told.
Expired(cut) ==
  {s \in Slot : clients[s].active /\ clients[s].connection_time <= cut}

CleanupInactive(cut) ==
  /\ server = "cleanup"
  /\ client_socket # NoFd => cut < accepted
  /\ clients' = Released(Expired(cut))
  /\ client_count' = client_count - Cardinality(Expired(cut))
  /\ evicted' = evicted + Cardinality(Expired(cut))
  /\ CloseFds({clients[s].socket_fd : s \in Expired(cut)})
  /\ server' = "accept"
  /\ UNCHANGED <<client_socket, accepted, threadVars>>

ServerStep ==
  \/ Accept \/ AcceptFails \/ CheckLimit \/ RejectBusy
  \/ AddClient \/ AddClientFails
  \/ \E cut \in 0 .. MaxConns : CleanupInactive(cut)

-----------------------------------------------------------------------------
(* client_handler_thread of connection c. *)

\* client->socket_fd, read anew at every use.
SocketOf(c) == clients[slotOf[c]].socket_fd

Goto(c, from, to) ==
  /\ handler[c] = from
  /\ handler' = [handler EXCEPT ![c] = to]

\* recv() starts on whatever connection is behind the descriptor now.
StartReceive(c) ==
  /\ Goto(c, "start", "receive")
  /\ request' = [request EXCEPT ![c] = Behind(SocketOf(c))]
  /\ UNCHANGED <<tableVars, kernelVars, serverVars, slotOf>>

\* malloc of the request buffer fails: the socket is closed at once.
NoBuffer(c) ==
  /\ Goto(c, "start", "close")
  /\ UNCHANGED <<tableVars, kernelVars, serverVars, slotOf, request>>

\* The request has arrived, or recv gave up: end of file, error, 30 seconds.
ReceiveEnds(c) ==
  /\ Goto(c, "receive", "respond")
  /\ UNCHANGED <<tableVars, kernelVars, serverVars, slotOf, request>>

\* The reply to a GET, or an error reply, goes to SocketOf(c).
Respond(c) ==
  /\ Goto(c, "respond", "shutdown")
  /\ UNCHANGED <<tableVars, kernelVars, serverVars, slotOf, request>>

Shutdown(c) ==
  /\ Goto(c, "shutdown", "close")
  /\ shut' = shut \cup ({Behind(SocketOf(c))} \ {NoConn})
  /\ UNCHANGED <<tableVars, fdTable, serverVars, slotOf, request>>

CloseSocket(c) ==
  /\ Goto(c, "close", "mark")
  /\ CloseFds({SocketOf(c)})
  /\ UNCHANGED <<tableVars, serverVars, slotOf, request>>

\* Mutant: a slot that is free already matches too.
MatchesFreeToo(fd) == {s \in Slot : clients[s].socket_fd = fd}

Matches(fd) == {s \in Slot : clients[s].active /\ clients[s].socket_fd = fd}

\* Mutant: the loop goes on after the first match.
MarkedAll(fd) == Matches(fd)

\* mark_client_inactive looks for its client by descriptor and takes the first
\* match, although the descriptor was closed a step ago.
Marked(fd) == IF Matches(fd) = {} THEN {} ELSE {FirstOf(Matches(fd))}

MarkInactive(c) ==
  /\ Goto(c, "mark", "done")
  /\ clients' = Released(Marked(SocketOf(c)))
  /\ client_count' = client_count - Cardinality(Marked(SocketOf(c)))
  /\ UNCHANGED <<evicted, kernelVars, serverVars, slotOf, request>>

\* What ends every handler, whatever it was asked for.
HandlerCleanup(c) == Shutdown(c) \/ CloseSocket(c) \/ MarkInactive(c)

HandlerStep(c) ==
  \/ StartReceive(c) \/ NoBuffer(c) \/ ReceiveEnds(c) \/ Respond(c)
  \/ HandlerCleanup(c)

Next == ServerStep \/ \E c \in Conn : HandlerStep(c)

Spec == Init /\ [][Next]_vars

\* The server thread never stops: accept returns within 30 seconds, and every
\* connection becomes older than 300 seconds at last.  Nothing is assumed of
\* the handlers: a client may keep one busy for ever.
Fairness ==
  /\ WF_vars(AcceptFails) /\ WF_vars(CheckLimit \/ RejectBusy)
  /\ WF_vars(AddClient \/ AddClientFails)
  /\ WF_vars(\E cut \in 0 .. MaxConns : CleanupInactive(cut))
  /\ SF_vars(CleanupInactive(MaxConns))

FairSpec == Spec /\ Fairness

-----------------------------------------------------------------------------
(* Safety *)

\* The type of every variable; no slot is counted twice.
TypeOK ==
  /\ clients \in [Slot -> [active : BOOLEAN, socket_fd : Fd \cup {NoFd},
                           connection_time : 0 .. MaxConns]]
  /\ client_count \in 0 .. MAX_CLIENTS
  /\ accepted \in 0 .. MaxConns
  /\ fdTable \in [Fd -> Conn \cup {NoConn}]
  /\ shut \subseteq Conn
  /\ server \in {"accept", "check", "add", "cleanup"}
  /\ client_socket \in Fd \cup {NoFd}
  /\ handler \in [Conn -> {"none", "start", "receive", "respond", "shutdown",
                           "close", "mark", "done"}]
  /\ slotOf \in [Conn -> Slot]
  /\ request \in [Conn -> Conn \cup {NoConn}]
  /\ evicted \in Nat

ActiveSlots  == {s \in Slot : clients[s].active}
LiveHandlers == {c \in Conn : handler[c] \notin {"none", "done"}}

\* client_count counts the active slots, although three functions of two kinds
\* of threads change it.
CountMatchesTable == client_count = Cardinality(ActiveSlots)

\* The limit of the configuration holds although it is tested in one critical
\* section and used in the next: only one thread adds clients.
LimitRespected == client_count <= MaxConnections

\* Were no client ever evicted there would be no more handler threads than the
\* count says; each eviction leaves at most one more running.
ThreadsAccounted == Cardinality(LiveHandlers) <= client_count + evicted

(* Liveness *)

\* No slot is lost for good, whatever the races did to it.
SlotsRecycled == \A s \in Slot : clients[s].active ~> ~clients[s].active

(* What the comments of the code say of it, and the code does not do. *)

Evicts(s) == clients[s].active /\ ~clients'[s].active /\ evicted' > evicted

\* server.c:739 "Cerrar socket si esta aun abierto", of an eviction, and
\* server.c:544 "Cerrar socket de forma limpia", of a handler: what is closed is
\* the socket of that client or, if it is closed already, none.
ClosesOwnSocket ==
  [][/\ \A s \in Slot :
          Evicts(s) => Behind(clients[s].socket_fd) \in
                         {NoConn, clients[s].connection_time}
     /\ \A c \in Conn :
          handler[c] = "close" /\ handler'[c] = "mark" =>
            Behind(SocketOf(c)) \in {NoConn, c}]_vars
=============================================================================
