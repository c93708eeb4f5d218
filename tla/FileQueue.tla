----------------------------- MODULE FileQueue -----------------------------
(***************************************************************************)
(* What the processing queue promises to the rest of the server, with no   *)
(* array, lock or condition variable: a bounded set of uploads from which  *)
(* the processor is always given one with the smallest priority number.    *)
(* PriorityQueue.tla is shown to implement it.                             *)
(***************************************************************************)
EXTENDS Integers, FiniteSets

CONSTANTS Item,          \* records with at least a file and a priority
          MaxQueueSize,  \* MAX_QUEUE_SIZE
          NoItem         \* the processor's item before its first dequeue

VARIABLES queue,  \* the uploads waiting to be processed
          item    \* the upload the processor was given last

vars == <<queue, item>>

Init == /\ queue = {}
        /\ item = NoItem

\* Mutant: the capacity is not looked at.
SubmitUnbounded(it) ==
  /\ it \in Item
  /\ queue' = queue \cup {it}
  /\ UNCHANGED item

\* An upload is accepted only while there is room, and waits once.
Submit(it) ==
  /\ it \in Item
  /\ Cardinality(queue) < MaxQueueSize
  /\ \A other \in queue : other.file # it.file
  /\ queue' = queue \cup {it}
  /\ UNCHANGED item

\* The processor is given some upload that no waiting one should precede.
Serve(it) ==
  /\ \A other \in queue : it.priority <= other.priority
  /\ queue' = queue \ {it}
  /\ item' = it

Next == \/ \E it \in queue' \ queue : Submit(it)
        \/ \E it \in queue : Serve(it)

Spec == Init /\ [][Next]_vars
=============================================================================
