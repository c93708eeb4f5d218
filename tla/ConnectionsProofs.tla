------------------------- MODULE ConnectionsProofs --------------------------
(***************************************************************************)
(* Proofs, for any number of connections, descriptors, slots and any limit,*)
(* that client_count is the number of active slots, that the limit holds,  *)
(* and that no more handlers run than clients are counted or evicted,      *)
(* whatever the races over slots and descriptors do.                       *)
(***************************************************************************)
EXTENDS Connections, FiniteSetTheorems, WellFoundedInduction, TLAPS

\* What the server thread carries from one of its critical sections to the
\* next: a connection that it has accepted and, once the limit is tested,
\* room for it, which only the server thread can take away.
Admission ==
  /\ server \in {"check", "add"} => accepted \in Conn /\ client_socket \in Fd
  /\ server = "add" => client_count < MaxConnections

CIInv ==
  /\ TypeOK
  /\ Admission
  /\ CountMatchesTable
  /\ LimitRespected
  /\ ThreadsAccounted

-----------------------------------------------------------------------------
(* Slots and sets of slots. *)

\* The table and its active part are finite, with at most MAX_CLIENTS slots.
LEMMA SlotsFinite ==
  /\ IsFiniteSet(Slot)
  /\ Cardinality(Slot) = MAX_CLIENTS
  /\ \A S \in SUBSET Slot :
       /\ IsFiniteSet(S)
       /\ Cardinality(S) \in 0 .. MAX_CLIENTS
<1>1. MAX_CLIENTS \in Int /\ MAX_CLIENTS > 0
  BY ConnectionsAssumption
<1>2. IsFiniteSet(Slot) /\ Cardinality(Slot) = MAX_CLIENTS
  BY <1>1, FS_Interval DEF Slot
<1>3. ASSUME NEW S \in SUBSET Slot
      PROVE  IsFiniteSet(S) /\ Cardinality(S) \in 0 .. MAX_CLIENTS
  BY <1>1, <1>2, FS_Subset, FS_CardinalityType
<1>4. QED
  BY <1>2, <1>3

\* The running handlers are finitely many.
LEMMA HandlersFinite == IsFiniteSet(LiveHandlers)
<1>1. IsFiniteSet(Conn)
  BY ConnectionsAssumption, FS_Interval DEF Conn
<1>2. LiveHandlers \in SUBSET Conn
  BY DEF LiveHandlers
<1>3. QED
  BY <1>1, <1>2, FS_Subset

\* A loop over the table that stops at the first hit stops at a hit.
LEMMA FirstOfLemma ==
  ASSUME NEW S \in SUBSET Slot, S # {}
  PROVE  FirstOf(S) \in S
<1> DEFINE Before == OpToRel(<, Nat)
<1>1. S \subseteq Nat
  BY ConnectionsAssumption DEF Slot
<1>2. IsWellFoundedOn(Before, Nat)
  BY NatLessThanWellFounded
<1>3. \A x, y \in Nat : x < y => <<x, y>> \in Before
  BY DEF OpToRel
<1> HIDE DEF Before
<1>4. PICK m \in S : \A t \in S : ~(<<t, m>> \in Before)
  BY <1>1, <1>2, WFMin
<1>5. ASSUME NEW t \in S PROVE m <= t
  <2>1. m \in Nat /\ t \in Nat
    BY <1>1
  <2>2. ~(t < m)
    BY <1>3, <1>4, <2>1
  <2>3. QED
    BY <2>1, <2>2
<1>6. QED
  BY <1>5 DEF FirstOf

\* Giving back active slots takes them, and nothing else, from the active ones.
LEMMA ReleaseLemma ==
  ASSUME TypeOK, CountMatchesTable,
         NEW S \in SUBSET ActiveSlots, clients' = Released(S)
  PROVE  /\ Cardinality(S) \in 0 .. client_count
         /\ Cardinality(ActiveSlots') = client_count - Cardinality(S)
         /\ clients' \in [Slot -> [active : BOOLEAN, socket_fd : Fd \cup {NoFd},
                                   connection_time : 0 .. MaxConns]]
<1>1. ActiveSlots \in SUBSET Slot
  BY DEF ActiveSlots
<1>2. IsFiniteSet(ActiveSlots) /\ client_count \in Nat
  BY <1>1, SlotsFinite, ConnectionsAssumption DEF CountMatchesTable, TypeOK
<1>3. IsFiniteSet(S) /\ Cardinality(S) \in Nat /\ Cardinality(S) <= client_count
  BY <1>2, FS_Subset, FS_CardinalityType DEF CountMatchesTable
<1>4. ActiveSlots' = ActiveSlots \ S
  BY <1>1 DEF ActiveSlots, Released, TypeOK
<1>5. Cardinality(ActiveSlots \ S) = Cardinality(ActiveSlots) - Cardinality(S)
  <2>1. ActiveSlots \cap S = S
    OBVIOUS
  <2>2. QED
    BY <1>2, <2>1, FS_Difference
<1>6. clients' \in [Slot -> [active : BOOLEAN, socket_fd : Fd \cup {NoFd},
                             connection_time : 0 .. MaxConns]]
  BY DEF Released, TypeOK
<1>7. QED
  BY <1>2, <1>3, <1>4, <1>5, <1>6 DEF CountMatchesTable

\* mark_client_inactive gives back one active slot at most.
LEMMA MarkedLemma ==
  ASSUME NEW fd
  PROVE  /\ Marked(fd) \in SUBSET ActiveSlots
         /\ Cardinality(Marked(fd)) \in {0, 1}
<1>1. CASE Matches(fd) = {}
  BY <1>1, FS_EmptySet DEF Marked
<1>2. CASE Matches(fd) # {}
  <2>1. Matches(fd) \in SUBSET Slot /\ Matches(fd) \in SUBSET ActiveSlots
    BY DEF Matches, ActiveSlots
  <2>2. FirstOf(Matches(fd)) \in Matches(fd)
    BY <1>2, <2>1, FirstOfLemma
  <2>3. Marked(fd) = {FirstOf(Matches(fd))}
    BY <1>2 DEF Marked
  <2>4. QED
    BY <2>1, <2>2, <2>3, FS_Singleton
<1>3. QED
  BY <1>1, <1>2

-----------------------------------------------------------------------------
(* Every step preserves the invariant. *)

LEMMA ConnInitLemma == Init => CIInv
<1> SUFFICES ASSUME Init PROVE CIInv
  OBVIOUS
<1>1. TypeOK
  BY ConnectionsAssumption DEF Init, TypeOK, Slot, Conn, NoConn
<1>2. ActiveSlots = {} /\ LiveHandlers = {}
  BY DEF Init, ActiveSlots, LiveHandlers
<1>3. QED
  BY <1>1, <1>2, FS_EmptySet, ConnectionsAssumption
     DEF Init, CIInv, Admission, CountMatchesTable, LimitRespected,
         ThreadsAccounted

\* close leaves the descriptor table a descriptor table.
LEMMA CloseLemma ==
  ASSUME TypeOK, NEW fds, CloseFds(fds)
  PROVE  fdTable' \in [Fd -> Conn \cup {NoConn}] /\ shut' \in SUBSET Conn
BY DEF CloseFds, TypeOK

\* The four counters and sets the other conjuncts speak of are unchanged.
QuietTable == UNCHANGED <<clients, client_count, evicted>>

\* A step that leaves the table alone and starts no handler preserves the
\* three counting conjuncts.
LEMMA QuietLemma ==
  ASSUME CIInv, QuietTable, LiveHandlers' = LiveHandlers
  PROVE  CountMatchesTable' /\ LimitRespected' /\ ThreadsAccounted'
BY DEF CIInv, QuietTable, CountMatchesTable, LimitRespected, ThreadsAccounted,
       ActiveSlots

LEMMA AcceptStep ==
  ASSUME CIInv, Accept \/ AcceptFails \/ CheckLimit \/ RejectBusy
  PROVE  CIInv'
<1> USE DEF CIInv
<1>1. TypeOK'
  <2>1. CASE Accept
    BY <2>1, ConnectionsAssumption
       DEF Accept, TypeOK, tableVars, threadVars, Conn, NoConn
  <2>2. CASE AcceptFails
    BY <2>2 DEF AcceptFails, TypeOK, tableVars, kernelVars, threadVars
  <2>3. CASE CheckLimit
    BY <2>3 DEF CheckLimit, TypeOK, tableVars, kernelVars, threadVars
  <2>4. CASE RejectBusy
    BY <2>4, CloseLemma DEF RejectBusy, TypeOK, tableVars, threadVars
  <2>5. QED
    BY <2>1, <2>2, <2>3, <2>4
<1>2. QuietTable /\ LiveHandlers' = LiveHandlers
  BY DEF Accept, AcceptFails, CheckLimit, RejectBusy, QuietTable, tableVars,
         threadVars, LiveHandlers
<1>3. Admission'
  <2>1. CASE Accept
    BY <2>1, ConnectionsAssumption DEF Accept, Admission, TypeOK, Conn
  <2>2. CASE AcceptFails \/ RejectBusy
    BY <2>2 DEF AcceptFails, RejectBusy, Admission
  <2>3. CASE CheckLimit
    <3>1. client_count < MaxConnections
      BY <2>3, ConnectionsAssumption DEF CheckLimit, Busy, TypeOK
    <3>2. QED
      BY <2>3, <3>1 DEF CheckLimit, Admission, tableVars
  <2>4. QED
    BY <2>1, <2>2, <2>3
<1>4. QED
  BY <1>1, <1>2, <1>3, QuietLemma

LEMMA AddClientStep ==
  ASSUME CIInv, AddClient
  PROVE  CIInv'
<1> USE DEF CIInv
<1> DEFINE s == FirstOf(FreeSlots)
<1>1. s \in Slot /\ ~clients[s].active
  <2>1. FreeSlots \in SUBSET Slot /\ FreeSlots # {}
    BY DEF FreeSlots, AddClient
  <2>2. s \in FreeSlots
    BY <2>1, FirstOfLemma
  <2>3. QED
    BY <2>2 DEF FreeSlots
<1>2. clients' = [clients EXCEPT ![s] =
                    [active |-> TRUE, socket_fd |-> client_socket,
                     connection_time |-> accepted]]
      /\ slotOf' = [slotOf EXCEPT ![accepted] = s]
  BY DEF AddClient
<1> HIDE DEF s
<1>3. accepted \in Conn /\ client_socket \in Fd
      /\ client_count < MaxConnections
  BY DEF AddClient, Admission
<1>4. ActiveSlots' = ActiveSlots \cup {s} /\ s \notin ActiveSlots
  BY <1>1, <1>2 DEF ActiveSlots, TypeOK
<1>5. IsFiniteSet(ActiveSlots) /\ ActiveSlots' \in SUBSET Slot
  BY <1>1, <1>4, SlotsFinite DEF ActiveSlots
<1>6. CountMatchesTable'
  BY <1>4, <1>5, FS_AddElement DEF AddClient, CountMatchesTable
<1>7. client_count' \in 0 .. MAX_CLIENTS
  BY <1>5, <1>6, SlotsFinite DEF CountMatchesTable
<1>8. clients' \in [Slot -> [active : BOOLEAN, socket_fd : Fd \cup {NoFd},
                             connection_time : 0 .. MaxConns]]
  BY <1>1, <1>2, <1>3 DEF TypeOK
<1>9. TypeOK'
  BY <1>1, <1>2, <1>3, <1>7, <1>8
     DEF AddClient, TypeOK, kernelVars
<1>10. Admission' /\ LimitRespected'
  BY <1>3, <1>7, ConnectionsAssumption
     DEF AddClient, Admission, LimitRespected, TypeOK
<1>11. ThreadsAccounted'
  <2>1. LiveHandlers' = LiveHandlers \cup {accepted}
    BY <1>3 DEF AddClient, LiveHandlers, TypeOK
  <2>2. Cardinality(LiveHandlers) \in Nat
    BY HandlersFinite, FS_CardinalityType
  <2>3. Cardinality(LiveHandlers') =
          IF accepted \in LiveHandlers THEN Cardinality(LiveHandlers)
                                       ELSE Cardinality(LiveHandlers) + 1
    BY <2>1, HandlersFinite, FS_AddElement
  <2>4. client_count \in Int /\ evicted \in Int
        /\ client_count' = client_count + 1 /\ evicted' = evicted
    BY ConnectionsAssumption DEF AddClient, TypeOK
  <2>5. QED
    BY <2>2, <2>3, <2>4 DEF ThreadsAccounted
<1>12. QED
  BY <1>6, <1>9, <1>10, <1>11

LEMMA AddClientFailsStep ==
  ASSUME CIInv, AddClientFails
  PROVE  CIInv'
<1> USE DEF CIInv
<1> DEFINE s == FirstOf(FreeSlots)
<1>1. \/ UNCHANGED clients
      \/ /\ s \in Slot /\ ~clients[s].active
         /\ clients' = [clients EXCEPT ![s] =
                          [active |-> FALSE, socket_fd |-> client_socket,
                           connection_time |-> accepted]]
  <2>1. CASE FreeSlots = {}
    BY <2>1 DEF AddClientFails
  <2>2. CASE FreeSlots # {}
    <3>1. s \in FreeSlots
      BY <2>2, FirstOfLemma DEF FreeSlots
    <3>2. QED
      BY <2>2, <3>1 DEF AddClientFails, FreeSlots
  <2>3. QED
    BY <2>1, <2>2
<1> HIDE DEF s
<1>2. ActiveSlots' = ActiveSlots
  BY <1>1 DEF ActiveSlots, TypeOK
<1>3. clients' \in [Slot -> [active : BOOLEAN, socket_fd : Fd \cup {NoFd},
                             connection_time : 0 .. MaxConns]]
  <2>1. accepted \in 0 .. MaxConns /\ client_socket \in Fd \cup {NoFd}
    BY DEF TypeOK
  <2>2. CASE UNCHANGED clients
    BY <2>2 DEF TypeOK
  <2>3. CASE clients' = [clients EXCEPT ![s] =
                           [active |-> FALSE, socket_fd |-> client_socket,
                            connection_time |-> accepted]]
    BY <2>1, <2>3 DEF TypeOK
  <2>4. QED
    BY <1>1, <2>2, <2>3
<1>4. TypeOK'
  BY <1>3, CloseLemma DEF AddClientFails, TypeOK, threadVars
<1>5. Admission'
  BY DEF AddClientFails, Admission
<1>6. CountMatchesTable' /\ LimitRespected' /\ ThreadsAccounted'
  BY <1>2 DEF AddClientFails, threadVars, CountMatchesTable, LimitRespected,
              ThreadsAccounted, LiveHandlers
<1>7. QED
  BY <1>4, <1>5, <1>6

LEMMA CleanupStep ==
  ASSUME CIInv, NEW cut \in 0 .. MaxConns, CleanupInactive(cut)
  PROVE  CIInv'
<1> USE DEF CIInv
<1> DEFINE n == Cardinality(Expired(cut))
<1>1. Expired(cut) \in SUBSET ActiveSlots
  BY DEF Expired, ActiveSlots
<1>2. /\ n \in 0 .. client_count
      /\ Cardinality(ActiveSlots') = client_count - n
      /\ clients' \in [Slot -> [active : BOOLEAN, socket_fd : Fd \cup {NoFd},
                                connection_time : 0 .. MaxConns]]
  BY <1>1, ReleaseLemma DEF CleanupInactive
<1>3. client_count' = client_count - n /\ evicted' = evicted + n
  BY DEF CleanupInactive
<1> HIDE DEF n
<1>4. client_count \in 0 .. MAX_CLIENTS /\ evicted \in Nat
  BY DEF TypeOK
<1>5. client_count' \in 0 .. MAX_CLIENTS /\ evicted' \in Nat
      /\ client_count' <= client_count
      /\ client_count' + evicted' = client_count + evicted
  BY <1>2, <1>3, <1>4, ConnectionsAssumption
<1>6. TypeOK'
  BY <1>2, <1>5, CloseLemma DEF CleanupInactive, TypeOK, threadVars
<1>7. Admission'
  BY DEF CleanupInactive, Admission
<1>8. CountMatchesTable' /\ LimitRespected'
  BY <1>2, <1>3, <1>4, <1>5, ConnectionsAssumption
     DEF CountMatchesTable, LimitRespected
<1>9. ThreadsAccounted'
  BY <1>5 DEF CleanupInactive, threadVars, ThreadsAccounted, LiveHandlers
<1>10. QED
  BY <1>6, <1>7, <1>8, <1>9

\* The steps of a handler before its last one change no slot and no count.
LEMMA HandlerQuietStep ==
  ASSUME CIInv, NEW c \in Conn,
         \/ StartReceive(c) \/ NoBuffer(c) \/ ReceiveEnds(c) \/ Respond(c)
         \/ Shutdown(c) \/ CloseSocket(c)
  PROVE  CIInv'
<1> USE DEF CIInv
<1>1. TypeOK'
  <2>1. Behind(SocketOf(c)) \in Conn \cup {NoConn}
    BY DEF Behind, TypeOK
  <2>2. CASE StartReceive(c)
    BY <2>1, <2>2 DEF StartReceive, Goto, TypeOK, tableVars, kernelVars,
                      serverVars
  <2>3. CASE NoBuffer(c) \/ ReceiveEnds(c) \/ Respond(c)
    BY <2>3 DEF NoBuffer, ReceiveEnds, Respond, Goto, TypeOK, tableVars,
                kernelVars, serverVars
  <2>4. CASE Shutdown(c)
    BY <2>1, <2>4 DEF Shutdown, Goto, TypeOK, tableVars, serverVars
  <2>5. CASE CloseSocket(c)
    BY <2>5, CloseLemma DEF CloseSocket, Goto, TypeOK, tableVars, serverVars
  <2>6. QED
    BY <2>2, <2>3, <2>4, <2>5
<1>2. QuietTable /\ UNCHANGED serverVars
  BY DEF StartReceive, NoBuffer, ReceiveEnds, Respond, Shutdown, CloseSocket,
         QuietTable, tableVars
<1>3. LiveHandlers' = LiveHandlers
  BY DEF StartReceive, NoBuffer, ReceiveEnds, Respond, Shutdown, CloseSocket,
         Goto, LiveHandlers, TypeOK
<1>4. Admission'
  BY <1>2 DEF Admission, QuietTable, serverVars
<1>5. QED
  BY <1>1, <1>2, <1>3, <1>4, QuietLemma

LEMMA MarkStep ==
  ASSUME CIInv, NEW c \in Conn, MarkInactive(c)
  PROVE  CIInv'
<1> USE DEF CIInv
<1> DEFINE n == Cardinality(Marked(SocketOf(c)))
<1>1. Marked(SocketOf(c)) \in SUBSET ActiveSlots /\ n \in {0, 1}
  BY MarkedLemma
<1>2. /\ n \in 0 .. client_count
      /\ Cardinality(ActiveSlots') = client_count - n
      /\ clients' \in [Slot -> [active : BOOLEAN, socket_fd : Fd \cup {NoFd},
                                connection_time : 0 .. MaxConns]]
  BY <1>1, ReleaseLemma DEF MarkInactive
<1>3. client_count' = client_count - n
  BY DEF MarkInactive
<1> HIDE DEF n
<1>4. client_count \in 0 .. MAX_CLIENTS /\ evicted \in Nat
  BY DEF TypeOK
<1>5. client_count' \in 0 .. MAX_CLIENTS
      /\ client_count' <= client_count /\ client_count <= client_count' + 1
  BY <1>1, <1>2, <1>3, <1>4, ConnectionsAssumption
<1>6. TypeOK'
  BY <1>2, <1>5 DEF MarkInactive, Goto, TypeOK, kernelVars, serverVars
<1>7. Admission' /\ LimitRespected'
  BY <1>4, <1>5, ConnectionsAssumption
     DEF MarkInactive, serverVars, Admission, LimitRespected
<1>8. CountMatchesTable'
  BY <1>2, <1>3 DEF CountMatchesTable
<1>9. ThreadsAccounted'
  <2>1. LiveHandlers' = LiveHandlers \ {c} /\ c \in LiveHandlers
    BY DEF MarkInactive, Goto, LiveHandlers, TypeOK
  <2>2. Cardinality(LiveHandlers') = Cardinality(LiveHandlers) - 1
        /\ Cardinality(LiveHandlers) \in Nat
    BY <2>1, HandlersFinite, FS_RemoveElement, FS_CardinalityType
  <2>3. evicted' = evicted
    BY DEF MarkInactive
  <2>4. client_count \in Int /\ client_count' \in Int /\ evicted \in Int
    BY <1>4, <1>5, ConnectionsAssumption
  <2>5. client_count <= client_count' + 1
        /\ Cardinality(LiveHandlers) <= client_count + evicted
    BY <1>5 DEF ThreadsAccounted
  <2>6. Cardinality(LiveHandlers) - 1 <= client_count' + evicted
    <3>1. \A i, j, k, l \in Int : i <= j + 1 /\ k <= i + l => k - 1 <= j + l
      OBVIOUS
    <3>2. Cardinality(LiveHandlers) \in Int
      BY <2>2
    <3>3. QED
      BY <2>4, <2>5, <3>1, <3>2
  <2>7. QED
    BY <2>2, <2>3, <2>6 DEF ThreadsAccounted
<1>10. QED
  BY <1>6, <1>7, <1>8, <1>9

LEMMA ConnStepLemma == CIInv /\ [Next]_vars => CIInv'
<1> SUFFICES ASSUME CIInv, [Next]_vars PROVE CIInv'
  OBVIOUS
<1>1. CASE ServerStep
  BY <1>1, AcceptStep, AddClientStep, AddClientFailsStep, CleanupStep
     DEF ServerStep
<1>2. ASSUME NEW c \in Conn, HandlerStep(c) PROVE CIInv'
  BY <1>2, HandlerQuietStep, MarkStep DEF HandlerStep, HandlerCleanup
<1>3. CASE UNCHANGED vars
  BY <1>3 DEF vars, tableVars, kernelVars, serverVars, threadVars, CIInv,
              TypeOK, Admission, CountMatchesTable, LimitRespected,
              ThreadsAccounted, ActiveSlots, LiveHandlers
<1>4. QED
  BY <1>1, <1>2, <1>3 DEF Next

-----------------------------------------------------------------------------
(* The theorems. *)

\* The invariant of the connections holds in every reachable state.
THEOREM ConnInvariance == Spec => []CIInv
BY ConnInitLemma, ConnStepLemma, PTL DEF Spec

\* Every variable keeps its type; client_count stays between 0 and MAX_CLIENTS.
THEOREM ConnTypeCorrectness == Spec => []TypeOK
<1>1. CIInv => TypeOK
  BY DEF CIInv
<1>2. QED
  BY ConnInvariance, <1>1, PTL

\* client_count is the number of active slots: add_client, cleanup_inactive_
\* clients and mark_client_inactive change both together.
THEOREM CountCorrectness == Spec => []CountMatchesTable
<1>1. CIInv => CountMatchesTable
  BY DEF CIInv
<1>2. QED
  BY ConnInvariance, <1>1, PTL

\* accept_client_connection never admits more than max_connections clients.
THEOREM LimitCorrectness == Spec => []LimitRespected
<1>1. CIInv => LimitRespected
  BY DEF CIInv
<1>2. QED
  BY ConnInvariance, <1>1, PTL

\* There are no more handler threads than clients counted and evicted.
THEOREM ThreadsCorrectness == Spec => []ThreadsAccounted
<1>1. CIInv => ThreadsAccounted
  BY DEF CIInv
<1>2. QED
  BY ConnInvariance, <1>1, PTL
=============================================================================
