------------------------ MODULE PriorityQueueProofs -------------------------
(***************************************************************************)
(* Proofs, for every set of handlers, every set of priorities and every    *)
(* MaxQueueSize, that the heap of PriorityQueue.tla is a heap, that it     *)
(* loses no upload, and that it implements FileQueue.tla.                  *)
(***************************************************************************)
EXTENDS PriorityQueue, FiniteSetTheorems, WellFoundedInduction, TLAPS

\* Who owns the mutex is where the thread is: at most one thread is between
\* a lock and the unlock that follows it.
OwnerInv ==
  /\ \A h \in Handler : hpc[h] \in {"insert", "bubble_up"} <=> queue_mutex = h
  /\ ppc \in {"test", "bubble_down"} <=> queue_mutex = Processor

IInv == TypeOK /\ OwnerInv /\ HeapOrder /\ Conservation

-----------------------------------------------------------------------------
(* Arithmetic of the array indices. *)

\* The parent of a cell comes before it, and the cell is its left or right
\* child: 2 * pos + 1 and 2 * pos + 2 in the code undo (pos - 1) / 2.
LEMMA ParentLemma ==
  ASSUME NEW i \in Nat, i > 0
  PROVE  /\ Parent(i) \in Nat
         /\ Parent(i) < i
         /\ i = 2 * Parent(i) + 1 \/ i = 2 * Parent(i) + 2
BY DEF Parent

\* The two children of p are the only cells whose parent is p.
LEMMA ChildrenLemma ==
  ASSUME NEW p \in Nat
  PROVE  /\ Parent(2 * p + 1) = p
         /\ Parent(2 * p + 2) = p
BY DEF Parent

\* Smallest(p) is p or a child of p inside the array, and no child of p has a
\* smaller priority.
LEMMA SmallestLemma ==
  ASSUME TypeOK, NEW p \in Cells
  PROVE  /\ Smallest(p) \in Cells
         /\ Smallest(p) # p => Smallest(p) > 0 /\ Parent(Smallest(p)) = p
         /\ Smallest(p) # p => items[Smallest(p)].priority < items[p].priority
         /\ \A i \in 1 .. size - 1 :
              Parent(i) = p =>
                items[Smallest(p)].priority <= items[i].priority
<1> DEFINE left == 2 * p + 1  right == 2 * p + 2
<1>1. p \in Nat /\ size \in Nat /\ left \in Nat /\ right \in Nat
  BY DEF TypeOK, Cells
<1>2. \A i \in Cells : items[i].priority \in Int
  BY ConstantsAssumption DEF TypeOK, Item
<1>3. Parent(left) = p /\ Parent(right) = p
  BY <1>1, ChildrenLemma
<1>4. \A i \in 1 .. size - 1 : Parent(i) = p => i = left \/ i = right
  BY <1>1, ParentLemma
<1>5. Smallest(p) \in {p, left, right}
  BY DEF Smallest
<1> HIDE DEF left, right
<1>6. QED
  BY <1>1, <1>2, <1>3, <1>4 DEF Smallest, Cells, left, right

-----------------------------------------------------------------------------
(* The loops: what one swap does to the heap. *)

\* Cells hold items, whose priorities can be compared.
LEMMA ItemsLemma ==
  ASSUME TypeOK
  PROVE  \A i \in Cells : items[i] \in Item /\ items[i].priority \in Int
BY ConstantsAssumption DEF TypeOK, Item

\* One turn of the bubble-up loop moves the only pair that may be out of order
\* one level up.
LEMMA BubbleUpLemma ==
  ASSUME TypeOK, HeapOrder, Rising, NEW h \in Handler, BubbleUp(h)
  PROVE  /\ pos' \in Cells'
         /\ \A i \in 1 .. size' - 1 : i # pos' => InOrder(i)'
         /\ SkipsPos'
<1> DEFINE q == Parent(pos)
<1>1. /\ size \in Nat /\ pos \in Cells /\ pos > 0 /\ size' = size
      /\ pos' = q /\ items[pos].priority < items[q].priority
  BY DEF HeapOrder, BubbleUp, MustRise, TypeOK
<1>2. q \in Cells /\ q < pos /\ pos \in Nat /\ q \in Nat
  BY <1>1, ParentLemma DEF Cells
<1>3. /\ items'[q] = items[pos]
      /\ items'[pos] = items[q]
      /\ \A i \in Cells \ {q, pos} : items'[i] = items[i]
  BY <1>2, <1>1 DEF BubbleUp, Swapped, TypeOK
<1>4. \A i \in Cells : items[i].priority \in Int
  BY ItemsLemma
<1>5. \A i \in 1 .. size - 1 :
        /\ Parent(i) \in Cells /\ Parent(i) < i /\ i \in Cells
        /\ i # pos => items[Parent(i)].priority <= items[i].priority
        /\ Parent(i) = pos => items[q].priority <= items[i].priority
  BY <1>1, ParentLemma DEF HeapOrder, InOrder, SkipsPos, Children, Cells
<1> HIDE DEF q
<1>6. \A i \in 1 .. size - 1 : i # q => InOrder(i)'
  <2> SUFFICES ASSUME NEW i \in 1 .. size - 1, i # q
               PROVE  items'[Parent(i)].priority <= items'[i].priority
    BY DEF InOrder, Parent
  <2>1. CASE i = pos
    BY <2>1, <1>1, <1>2, <1>3, <1>4 DEF q
  <2>2. CASE i # pos
    <3>1. items'[i] = items[i]
      BY <2>2, <1>3, <1>5
    <3>2. CASE Parent(i) = pos
      BY <2>2, <3>1, <3>2, <1>3, <1>5
    <3>3. CASE Parent(i) = q
      <4>1. items'[Parent(i)] = items[pos] /\ items[q].priority <= items[i].priority
        BY <2>2, <3>3, <1>3, <1>5
      <4>2. i \in Cells
        BY <1>5
      <4>3. QED
        BY <3>1, <4>1, <4>2, <1>1, <1>2, <1>4
    <3>4. CASE Parent(i) # pos /\ Parent(i) # q
      BY <2>2, <3>1, <3>4, <1>3, <1>5
    <3>5. QED  BY <3>2, <3>3, <3>4
  <2>3. QED  BY <2>1, <2>2
<1>7. SkipsPos'
  <2> SUFFICES ASSUME q > 0, NEW i \in 1 .. size - 1, Parent(i) = q
               PROVE  items'[Parent(q)].priority <= items'[i].priority
    BY <1>1 DEF SkipsPos, Children, Parent
  <2>1. q \in 1 .. size - 1
    BY <1>2 DEF Cells
  <2>2. /\ Parent(q) \in Cells /\ Parent(q) < q
        /\ items[Parent(q)].priority <= items[q].priority
    BY <2>1, <1>5, <1>2
  <2>3. items'[Parent(q)] = items[Parent(q)]
    <3>1. Parent(q) # q /\ Parent(q) # pos
      BY <2>1, <2>2, <1>2, ParentLemma
    <3>2. QED
      BY <3>1, <2>2, <1>3
  <2>4. i # q /\ i \in Cells /\ (i # pos => items[q].priority <= items[i].priority)
    BY <1>5, <1>2
  <2>5. items'[i] = items[q] \/ (i # pos /\ items'[i] = items[i])
    BY <2>4, <1>3
  <2>6. /\ items[Parent(q)].priority \in Int /\ items[q].priority \in Int
        /\ items[i].priority \in Int
    BY <2>2, <2>4, <1>2, <1>4
  <2>7. items[Parent(q)].priority <= items'[i].priority
    BY <2>2, <2>4, <2>5, <2>6
  <2>8. QED
    BY <2>3, <2>7
<1>8. QED
  BY <1>1, <1>2, <1>6, <1>7 DEF Cells

\* One turn of the bubble-down loop moves them one level down.
LEMMA BubbleDownLemma ==
  ASSUME TypeOK, HeapOrder, BubbleDown
  PROVE  /\ pos' \in Cells'
         /\ \A i \in 1 .. size' - 1 : Parent(i) # pos' => InOrder(i)'
         /\ SkipsPos'
<1> DEFINE s == Smallest(pos)
<1>1. /\ size \in Nat /\ pos \in Cells /\ size' = size
      /\ pos' = s /\ s # pos
  BY DEF HeapOrder, Sinking, BubbleDown, MustSink, TypeOK
<1>2. /\ s \in Cells /\ s > 0 /\ Parent(s) = pos
      /\ items[s].priority < items[pos].priority
      /\ \A i \in 1 .. size - 1 :
           Parent(i) = pos => items[s].priority <= items[i].priority
  BY <1>1, SmallestLemma
<1> HIDE DEF s
<1>3. /\ items'[s] = items[pos]
      /\ items'[pos] = items[s]
      /\ \A i \in Cells \ {s, pos} : items'[i] = items[i]
  BY <1>1, <1>2 DEF BubbleDown, Swapped, TypeOK, s
<1>4. \A i \in Cells : items[i].priority \in Int
  BY ItemsLemma
<1>5. \A i \in 1 .. size - 1 :
        /\ Parent(i) \in Cells /\ Parent(i) < i /\ i \in Cells
        /\ Parent(i) # pos => items[Parent(i)].priority <= items[i].priority
        /\ Parent(i) = pos /\ pos > 0 =>
             items[Parent(pos)].priority <= items[i].priority
  BY <1>1, ParentLemma
     DEF HeapOrder, Sinking, BubbleDown, InOrder, SkipsPos, Children, Cells
<1>6. \A i \in 1 .. size - 1 : Parent(i) # s => InOrder(i)'
  <2> SUFFICES ASSUME NEW i \in 1 .. size - 1, Parent(i) # s
               PROVE  items'[Parent(i)].priority <= items'[i].priority
    BY DEF InOrder, Parent
  <2>1. CASE Parent(i) = pos
    <3>1. items'[Parent(i)] = items[s]
      BY <2>1, <1>3
    <3>2. items'[i] = items[pos] \/ items'[i] = items[i]
      BY <2>1, <1>3, <1>5
    <3>3. QED
      BY <2>1, <3>1, <3>2, <1>1, <1>2, <1>4, <1>5
  <2>2. CASE i = pos
    <3>1. pos > 0 /\ Parent(pos) \in Cells \ {s, pos}
      BY <2>2, <1>5
    <3>2. s \in 1 .. size - 1
      BY <1>1, <1>2 DEF Cells
    <3>3. items[Parent(pos)].priority <= items[s].priority
      BY <3>1, <3>2, <1>2, <1>5
    <3>4. QED
      BY <2>2, <3>1, <3>3, <1>3
  <2>3. CASE Parent(i) # pos /\ i # pos
    <3>1. items'[Parent(i)] = items[Parent(i)] /\ i # s
      BY <2>3, <1>2, <1>3, <1>5
    <3>2. items'[i] = items[i]
      BY <2>3, <3>1, <1>3, <1>5
    <3>3. QED
      BY <2>3, <3>1, <3>2, <1>5
  <2>4. QED  BY <2>1, <2>2, <2>3
<1>7. SkipsPos'
  <2> SUFFICES ASSUME NEW i \in 1 .. size - 1, Parent(i) = s
               PROVE  items'[Parent(s)].priority <= items'[i].priority
    BY <1>1 DEF SkipsPos, Children, Parent
  <2>1. i # s /\ i # pos
    BY <1>1, <1>2, <1>5 DEF Cells
  <2>2. items'[i] = items[i] /\ items'[Parent(s)] = items[s]
    BY <2>1, <1>2, <1>3, <1>5
  <2>3. QED
    BY <2>2, <1>1, <1>5
<1>8. QED
  BY <1>1, <1>2, <1>6, <1>7 DEF Cells

-----------------------------------------------------------------------------
(* The inductive invariant, one conjunct at a time. *)

\* The state after the initialisation satisfies the invariant.
LEMMA InitLemma == Init => IInv
<1> SUFFICES ASSUME Init PROVE IInv
  OBVIOUS
<1>1. Cells = {} /\ 1 .. size - 1 = {}
  BY DEF Init, Cells
<1>2. TypeOK
  <2>1. 0 .. -1 = {} /\ 0 \in 0 .. MaxQueueSize
    BY ConstantsAssumption
  <2>2. items \in [Cells -> Item]
    BY <1>1, <2>1 DEF Init
  <2>3. QED
    BY <2>1, <2>2 DEF Init, TypeOK
<1>3. OwnerInv
  BY ConstantsAssumption DEF Init, OwnerInv
<1>4. HeapOrder
  BY <1>1 DEF Init, HeapOrder, Rising, Sinking
<1>5. Conservation
  BY <1>1 DEF Init, Conservation, QueuedFiles
<1>6. QED  BY <1>2, <1>3, <1>4, <1>5 DEF IInv

\* Exchanging two cells neither loses nor duplicates an item.
LEMMA SwapLemma ==
  ASSUME TypeOK, NEW a \in Cells, NEW b \in Cells,
         items' = Swapped(a, b), size' = size
  PROVE  /\ items' \in [Cells' -> Item]
         /\ Queued' = Queued
         /\ QueuedFiles' = QueuedFiles
         /\ (\A i, j \in Cells : items[i].file = items[j].file => i = j) =>
              (\A i, j \in Cells : items[i].file = items[j].file => i = j)'
<1>1. Cells' = Cells
  BY DEF Cells
<1>2. items' \in [Cells -> Item]
  BY DEF Swapped, TypeOK
<1>3. /\ items'[a] = items[b] /\ items'[b] = items[a]
      /\ \A i \in Cells \ {a, b} : items'[i] = items[i]
  BY DEF Swapped, TypeOK
<1>4. Queued' = Queued
  BY <1>1, <1>3 DEF Queued
<1>5. QueuedFiles' = QueuedFiles
  BY <1>1, <1>3 DEF QueuedFiles
<1>6. QED
  BY <1>1, <1>2, <1>3, <1>4, <1>5

\* The swaps of both loops take place inside the array.
LEMMA LoopSwapLemma ==
  ASSUME IInv
  PROVE  /\ \A h \in Handler : BubbleUp(h) =>
              pos \in Cells /\ Parent(pos) \in Cells
         /\ BubbleDown => pos \in Cells /\ Smallest(pos) \in Cells
<1>1. ASSUME NEW h \in Handler, BubbleUp(h)
      PROVE  pos \in Cells /\ Parent(pos) \in Cells
  <2>1. pos \in Cells /\ pos > 0 /\ pos \in Nat /\ size \in Nat
    BY <1>1 DEF IInv, HeapOrder, Rising, BubbleUp, MustRise, TypeOK
  <2>2. QED
    BY <2>1, ParentLemma DEF Cells
<1>2. ASSUME BubbleDown
      PROVE  pos \in Cells /\ Smallest(pos) \in Cells
  <2>1. pos \in Cells
    BY <1>2 DEF IInv, HeapOrder, Sinking, BubbleDown, MustSink
  <2>2. QED
    BY <2>1, SmallestLemma DEF IInv
<1>3. QED  BY <1>1, <1>2

\* Every step keeps the types.
LEMMA TypeStep == IInv /\ [Next]_vars => TypeOK'
<1> SUFFICES ASSUME IInv, [Next]_vars PROVE TypeOK'
  OBVIOUS
<1> USE DEF IInv
<1>1. ASSUME NEW h \in Handler, EnqueueInsert(h) PROVE TypeOK'
  <2>1. size \in Nat /\ size + 1 \in 0 .. MaxQueueSize
    BY <1>1, ConstantsAssumption DEF EnqueueInsert, QueueFull, TypeOK
  <2>2. Cells' = 0 .. size
    BY <1>1, <2>1 DEF EnqueueInsert, Cells
  <2>3. items' \in [0 .. size -> Item]
    BY <1>1, <2>1 DEF EnqueueInsert, TypeOK, Cells, Item
  <2>4. QED
    BY <1>1, <2>1, <2>2, <2>3 DEF EnqueueInsert, TypeOK
<1>2. ASSUME NEW h \in Handler, BubbleUp(h) PROVE TypeOK'
  <2>1. pos \in Cells /\ Parent(pos) \in Cells
    BY <1>2, LoopSwapLemma
  <2>2. items' \in [Cells' -> Item]
    BY <1>2, <2>1, SwapLemma DEF BubbleUp
  <2>3. Parent(pos) \in Nat
    BY <2>1 DEF Cells
  <2>4. QED
    BY <1>2, <2>2, <2>3 DEF BubbleUp, TypeOK
<1>3. ASSUME DequeueExtract PROVE TypeOK'
  <2>1. size \in Nat /\ size - 1 \in 0 .. MaxQueueSize /\ 0 \in Cells /\ size - 1 \in Cells
    BY <1>3, ConstantsAssumption DEF DequeueExtract, TypeOK, Cells
  <2>2. Cells' = 0 .. size - 2
    BY <1>3, <2>1 DEF DequeueExtract, Cells
  <2>3. items' \in [0 .. size - 2 -> Item]
    BY <1>3, <2>1 DEF DequeueExtract, TypeOK, Cells
  <2>4. items[0] \in Item /\ items[0].file \in Handler
    BY <2>1 DEF TypeOK, Item
  <2>5. QED
    BY <1>3, <2>1, <2>2, <2>3, <2>4 DEF DequeueExtract, TypeOK
<1>4. ASSUME BubbleDown PROVE TypeOK'
  <2>1. pos \in Cells /\ Smallest(pos) \in Cells
    BY <1>4, LoopSwapLemma
  <2>2. items' \in [Cells' -> Item]
    BY <1>4, <2>1, SwapLemma DEF BubbleDown
  <2>3. Smallest(pos) \in Nat
    BY <2>1 DEF Cells
  <2>4. QED
    BY <1>4, <2>2, <2>3 DEF BubbleDown, TypeOK
<1>5. ASSUME NEW h \in Handler,
             EnqueueLock(h) \/ EnqueueReject(h) \/ EnqueueReturn(h)
               \/ EnqueueDestroyed(h)
      PROVE  TypeOK'
  BY <1>5 DEF TypeOK, heapVars, Cells, Signal, EnqueueLock, EnqueueReject,
              EnqueueReturn, EnqueueDestroyed
<1>6. ASSUME ProcessorLoop \/ DequeueLock \/ DequeueWait \/ DequeueFail
               \/ DequeueReturn \/ Process \/ SpuriousWakeup \/ WaitTimeout
      PROVE  TypeOK'
  BY <1>6 DEF TypeOK, heapVars, Cells, ProcessorLoop, DequeueLock, DequeueWait,
              DequeueFail, DequeueReturn, Process, SpuriousWakeup, WaitTimeout
<1>7. ASSUME MainStep PROVE TypeOK'
  BY <1>7 DEF TypeOK, heapVars, Cells, Signal, MainStep, StopProcessor,
              StopSignal, StopJoin, Deactivate, Destroy
<1>8. CASE UNCHANGED vars
  BY <1>8 DEF TypeOK, vars, Cells
<1>9. QED
  BY <1>1, <1>2, <1>3, <1>4, <1>5, <1>6, <1>7, <1>8
     DEF Next, HandlerStep, EnqueueStep, ProcessorStep, DequeueStep

\* Every step keeps the mutex with the thread that is between lock and unlock.
LEMMA OwnerStep == IInv /\ [Next]_vars => OwnerInv'
<1> SUFFICES ASSUME IInv, [Next]_vars PROVE OwnerInv'
  OBVIOUS
<1> USE ConstantsAssumption DEF IInv, OwnerInv
<1>1. ASSUME NEW h \in Handler, EnqueueLock(h) \/ EnqueueDestroyed(h)
      PROVE  OwnerInv'
  BY <1>1 DEF TypeOK, EnqueueLock, EnqueueDestroyed
<1>2. ASSUME NEW h \in Handler, EnqueueStep(h) PROVE OwnerInv'
  BY <1>2 DEF TypeOK, EnqueueStep, EnqueueReject, EnqueueInsert, BubbleUp,
              EnqueueReturn, Signal
<1>3. ASSUME DequeueStep PROVE OwnerInv'
  BY <1>3 DEF TypeOK, DequeueStep, ProcessorLoop, DequeueLock, DequeueWait,
              DequeueFail, GivesUp, DequeueExtract, BubbleDown, DequeueReturn,
              Process
<1>4. ASSUME SpuriousWakeup \/ WaitTimeout PROVE OwnerInv'
  BY <1>4 DEF TypeOK, SpuriousWakeup, WaitTimeout
<1>5. ASSUME MainStep PROVE OwnerInv'
  BY <1>5 DEF TypeOK, MainStep, StopProcessor, StopSignal, StopJoin,
              Deactivate, Destroy, Signal
<1>6. CASE UNCHANGED vars
  BY <1>6 DEF vars
<1>7. QED
  BY <1>1, <1>2, <1>3, <1>4, <1>5, <1>6 DEF Next, HandlerStep, ProcessorStep

\* A step that moves no item, and starts and ends no bubble loop, leaves the
\* heap as it is.
LEMMA HeapQuietLemma ==
  ASSUME HeapOrder, UNCHANGED heapVars, Rising' = Rising, Sinking' = Sinking
  PROVE  HeapOrder'
BY DEF HeapOrder, heapVars, Cells, InOrder, SkipsPos, Children, Parent

\* Every step keeps the heap.
LEMMA HeapStep == IInv /\ [Next]_vars => HeapOrder'
<1> SUFFICES ASSUME IInv, [Next]_vars PROVE HeapOrder'
  OBVIOUS
<1> USE DEF IInv
<1>a. /\ Rising => ~Sinking /\ queue_mutex \in Handler
      /\ Sinking => queue_mutex = Processor
      /\ size \in Nat
  BY ConstantsAssumption DEF OwnerInv, Rising, Sinking, TypeOK
<1>1. ASSUME NEW h \in Handler, EnqueueLock(h) \/ EnqueueReject(h)
                                  \/ EnqueueDestroyed(h)
      PROVE  HeapOrder'
  <2>1. Rising' = Rising
    BY <1>1 DEF Rising, TypeOK, EnqueueLock, EnqueueReject, EnqueueDestroyed
  <2>2. Sinking' = Sinking /\ UNCHANGED heapVars
    BY <1>1 DEF Sinking, EnqueueLock, EnqueueReject, EnqueueDestroyed
  <2>3. QED  BY <2>1, <2>2, HeapQuietLemma
<1>2. ASSUME NEW h \in Handler, EnqueueInsert(h) PROVE HeapOrder'
  <2>1. queue_mutex = h
    BY <1>2 DEF EnqueueInsert, OwnerInv
  <2>2. ~Rising /\ ~Sinking
    BY <1>2, <1>a, <2>1, ConstantsAssumption
       DEF EnqueueInsert, OwnerInv, Rising
  <2>3. Rising' /\ ~Sinking'
    BY <1>2, <2>2 DEF EnqueueInsert, Rising, Sinking, TypeOK
  <2>4. /\ pos' = size /\ size' = size + 1 /\ pos' \in Cells'
        /\ \A i \in Cells : items'[i] = items[i]
    BY <1>2, <1>a DEF EnqueueInsert, Cells
  <2>5. ASSUME NEW i \in 1 .. size' - 1, i # pos'
        PROVE  InOrder(i)'
    <3>1. i \in 1 .. size - 1 /\ i \in Cells /\ Parent(i) \in Cells
      BY <2>4, <2>5, <1>a, ParentLemma DEF Cells
    <3>2. InOrder(i)
      BY <2>2, <3>1 DEF HeapOrder
    <3>3. QED
      BY <2>4, <3>1, <3>2 DEF InOrder, Parent
  <2>6. SkipsPos'
    <3>1. \A i \in 1 .. size' - 1 : Parent(i) # pos'
      BY <2>4, <1>a, ParentLemma
    <3>2. QED
      BY <3>1 DEF SkipsPos, Children, Parent
  <2>7. QED
    BY <2>3, <2>4, <2>5, <2>6 DEF HeapOrder
<1>3. ASSUME NEW h \in Handler, BubbleUp(h) PROVE HeapOrder'
  <2>1. Rising /\ Rising' /\ ~Sinking'
    BY <1>3, <1>a DEF BubbleUp, Rising, Sinking
  <2>2. QED
    BY <1>3, <2>1, BubbleUpLemma DEF HeapOrder
<1>4. ASSUME NEW h \in Handler, EnqueueReturn(h) PROVE HeapOrder'
  <2>1. Rising /\ ~Sinking
    BY <1>4, <1>a DEF EnqueueReturn, Rising
  <2>2. ~Rising' /\ ~Sinking'
    BY <1>4, <2>1 DEF EnqueueReturn, Rising, Sinking, OwnerInv, TypeOK, Signal
  <2>3. \A i \in 1 .. size - 1 : InOrder(i)
    <3>1. ~MustRise /\ pos \in Cells /\ pos \in Nat
      BY <1>4, <2>1 DEF EnqueueReturn, HeapOrder, TypeOK
    <3>2. pos \in 1 .. size - 1 => InOrder(pos)
      <4> SUFFICES ASSUME pos \in 1 .. size - 1 PROVE InOrder(pos)
        OBVIOUS
      <4>1. Parent(pos) \in Cells
        BY <3>1, <1>a, ParentLemma DEF Cells
      <4>2. pos > 0
        BY <1>a
      <4>3. /\ items[pos].priority \in Int
            /\ items[Parent(pos)].priority \in Int
        BY <3>1, <4>1, ItemsLemma
      <4>4. QED
        BY <3>1, <4>2, <4>3 DEF MustRise, InOrder
    <3>3. QED
      BY <2>1, <3>2 DEF HeapOrder
  <2>4. QED
    BY <1>4, <2>2, <2>3
       DEF HeapOrder, EnqueueReturn, heapVars, InOrder, Parent
<1>5. ASSUME DequeueExtract PROVE HeapOrder'
  <2>1. ~Rising /\ ~Sinking
    BY <1>5, <1>a, ConstantsAssumption DEF DequeueExtract, OwnerInv, Sinking
  <2>2. ~Rising' /\ Sinking'
    BY <1>5, <2>1 DEF DequeueExtract, Rising, Sinking
  <2>3. /\ pos' = 0 /\ size' = size - 1 /\ size > 0
        /\ \A i \in 1 .. size - 2 : items'[i] = items[i]
    BY <1>5, <1>a DEF DequeueExtract
  <2>4. ASSUME NEW i \in 1 .. size' - 1, Parent(i) # 0
        PROVE  InOrder(i)'
    <3>1. i \in 1 .. size - 2 /\ Parent(i) \in 1 .. size - 2
      BY <2>3, <2>4, <1>a, ParentLemma
    <3>2. i \in 1 .. size - 1
      BY <3>1, <1>a
    <3>3. InOrder(i)
      BY <2>1, <3>2 DEF HeapOrder
    <3>4. QED
      BY <2>3, <3>1, <3>3 DEF InOrder, Parent
  <2>5. SkipsPos' /\ (size' > 0 => pos' \in Cells')
    BY <2>3, <1>a DEF SkipsPos, Cells
  <2>6. QED
    BY <2>2, <2>3, <2>4, <2>5 DEF HeapOrder, Parent
<1>6. ASSUME BubbleDown PROVE HeapOrder'
  <2>1. Sinking /\ Sinking' /\ ~Rising /\ ~Rising'
    BY <1>6, <1>a DEF BubbleDown, Rising, Sinking
  <2>2. QED
    BY <1>6, <2>1, BubbleDownLemma DEF HeapOrder
<1>7. ASSUME DequeueReturn PROVE HeapOrder'
  <2>1. Sinking /\ ~Rising /\ ~Sinking' /\ ~Rising'
    BY <1>7, <1>a DEF DequeueReturn, Rising, Sinking
  <2>2. ASSUME NEW i \in 1 .. size - 1 PROVE InOrder(i)
    <3>1. size > 0 /\ Smallest(pos) = pos /\ pos \in Cells
      BY <1>7, <1>a, <2>1 DEF DequeueReturn, MustSink, HeapOrder
    <3>2. Parent(i) = pos => items[pos].priority <= items[i].priority
      BY <3>1, SmallestLemma
    <3>3. QED
      BY <2>1, <3>2 DEF HeapOrder, InOrder
  <2>3. QED
    BY <1>7, <2>1, <2>2 DEF HeapOrder, DequeueReturn, heapVars, InOrder, Parent
<1>8. ASSUME ProcessorLoop \/ DequeueLock \/ DequeueWait \/ DequeueFail
               \/ Process \/ SpuriousWakeup \/ WaitTimeout
      PROVE  HeapOrder'
  <2>1. /\ Rising' = Rising /\ Sinking' = Sinking /\ UNCHANGED heapVars
    BY <1>8 DEF Rising, Sinking, ProcessorLoop, DequeueLock, DequeueWait,
                DequeueFail, GivesUp, Process, SpuriousWakeup, WaitTimeout
  <2>2. QED  BY <2>1, HeapQuietLemma
<1>9. ASSUME MainStep PROVE HeapOrder'
  <2>1. /\ Rising' = Rising /\ Sinking' = Sinking /\ UNCHANGED heapVars
    BY <1>9 DEF Rising, Sinking, Signal, MainStep, StopProcessor, StopSignal,
                StopJoin, Deactivate, Destroy
  <2>2. QED  BY <2>1, HeapQuietLemma
<1>10. CASE UNCHANGED vars
  <2>1. /\ Rising' = Rising /\ Sinking' = Sinking /\ UNCHANGED heapVars
    BY <1>10 DEF vars, heapVars, Rising, Sinking
  <2>2. QED  BY <2>1, HeapQuietLemma
<1>11. QED
  BY <1>1, <1>2, <1>3, <1>4, <1>5, <1>6, <1>7, <1>8, <1>9, <1>10
     DEF Next, HandlerStep, EnqueueStep, ProcessorStep, DequeueStep

\* Taking out the root and moving the last cell there removes the root's item
\* and no other.
LEMMA ExtractLemma ==
  ASSUME TypeOK, DequeueExtract,
         \A i, j \in Cells : items[i].file = items[j].file => i = j
  PROVE  /\ items[0] \in Queued /\ items[0] \in Item
         /\ Queued' = Queued \ {items[0]}
         /\ QueuedFiles' = QueuedFiles \ {items[0].file}
         /\ (\A i, j \in Cells : items[i].file = items[j].file => i = j)'
<1> DEFINE from(i) == IF i = 0 THEN size - 1 ELSE i
<1>1. /\ size \in Nat /\ size > 0 /\ 0 \in Cells
      /\ Cells = 0 .. size - 1 /\ Cells' = 0 .. size - 2
      /\ items' = [i \in 0 .. size - 2 |->
                     IF i = 0 THEN items[size - 1] ELSE items[i]]
  BY DEF DequeueExtract, TypeOK, Cells
<1>2. \A i \in Cells' : from(i) \in Cells \ {0} /\ items'[i] = items[from(i)]
  BY <1>1
<1>3. \A j \in Cells \ {0} : \E i \in Cells' : j = from(i)
  <2> SUFFICES ASSUME NEW j \in Cells \ {0}
               PROVE  \E i \in Cells' : j = from(i)
    OBVIOUS
  <2>1. CASE j = size - 1
    <3>1. 0 \in Cells' /\ j = from(0)
      BY <1>1, <2>1
    <3>2. QED  BY <3>1
  <2>2. CASE j # size - 1
    <3>1. j \in Cells' /\ j = from(j)
      BY <1>1, <2>2
    <3>2. QED  BY <3>1
  <2>3. QED  BY <2>1, <2>2
<1>4. \A i, j \in Cells' : from(i) = from(j) => i = j
  BY <1>1
<1> HIDE DEF from
<1>5. \A j \in Cells \ {0} : items[j].file # items[0].file /\ items[j] # items[0]
  BY <1>1
<1>6. Queued' = {items[j] : j \in Cells \ {0}}
  BY <1>2, <1>3 DEF Queued
<1>7. Queued' = Queued \ {items[0]}
  BY <1>1, <1>5, <1>6 DEF Queued
<1>8. QueuedFiles' = {items[j].file : j \in Cells \ {0}}
  BY <1>2, <1>3 DEF QueuedFiles
<1>9. QueuedFiles' = QueuedFiles \ {items[0].file}
  BY <1>1, <1>5, <1>8 DEF QueuedFiles
<1>10. (\A i, j \in Cells : items[i].file = items[j].file => i = j)'
  BY <1>2, <1>4
<1>11. items[0] \in Queued /\ items[0] \in Item
  BY <1>1 DEF Queued, TypeOK
<1>12. QED
  BY <1>7, <1>9, <1>10, <1>11

\* Appending an upload adds its item and no other.
LEMMA InsertLemma ==
  ASSUME IInv, NEW h \in Handler, EnqueueInsert(h)
  PROVE  /\ items'[size] \in Item
         /\ items'[size].file = h
         /\ h \notin QueuedFiles
         /\ Queued' = Queued \cup {items'[size]}
         /\ QueuedFiles' = QueuedFiles \cup {h}
         /\ (\A i, j \in Cells : items[i].file = items[j].file => i = j)'
<1>1. /\ size \in Nat /\ Cells' = Cells \cup {size} /\ size \notin Cells
      /\ \A i \in Cells : items'[i] = items[i]
      /\ items'[size] \in Item /\ items'[size].file = h
  BY DEF IInv, EnqueueInsert, TypeOK, Cells, Item
<1>2. h \notin QueuedFiles
  BY DEF IInv, Conservation, EnqueueInsert
<1>3. Queued' = Queued \cup {items'[size]}
  BY <1>1 DEF Queued
<1>4. QueuedFiles' = QueuedFiles \cup {h}
  BY <1>1 DEF QueuedFiles
<1>5. \A i \in Cells : items'[i].file # h
  BY <1>1, <1>2 DEF QueuedFiles
<1>6. (\A i, j \in Cells : items[i].file = items[j].file => i = j)'
  BY <1>1, <1>5 DEF IInv, Conservation
<1>7. QED  BY <1>1, <1>2, <1>3, <1>4, <1>6

\* A step that moves no item and takes no handler in or out of the queue
\* leaves the items where they are.
LEMMA ConservationQuietLemma ==
  ASSUME Conservation, UNCHANGED <<items, size, dequeued>>,
         \A h \in Handler : hpc'[h] \in {"bubble_up", "accepted"}
                             <=> hpc[h] \in {"bubble_up", "accepted"}
  PROVE  Conservation'
BY DEF Conservation, QueuedFiles, Cells

\* Every step keeps each accepted upload in exactly one place.
LEMMA ConservationStep == IInv /\ [Next]_vars => Conservation'
<1> SUFFICES ASSUME IInv, [Next]_vars PROVE Conservation'
  OBVIOUS
<1> USE DEF IInv
<1>1. ASSUME NEW h \in Handler,
             EnqueueLock(h) \/ EnqueueReject(h) \/ EnqueueReturn(h)
               \/ EnqueueDestroyed(h)
      PROVE  Conservation'
  BY <1>1, ConservationQuietLemma
     DEF TypeOK, heapVars, EnqueueLock, EnqueueReject, EnqueueReturn,
         EnqueueDestroyed
<1>2. ASSUME NEW h \in Handler, EnqueueInsert(h) PROVE Conservation'
  <2>1. /\ dequeued' = dequeued /\ hpc[h] = "insert"
        /\ hpc' = [hpc EXCEPT ![h] = "bubble_up"]
    BY <1>2 DEF EnqueueInsert
  <2>2. QueuedFiles' \cap dequeued' = {}
    BY <1>2, <2>1, InsertLemma DEF Conservation
  <2>3. QueuedFiles' \cup dequeued' =
          {g \in Handler : hpc'[g] \in {"bubble_up", "accepted"}}
    BY <1>2, <2>1, InsertLemma DEF Conservation, TypeOK
  <2>4. QED
    BY <1>2, <2>2, <2>3, InsertLemma DEF Conservation
<1>3. ASSUME NEW h \in Handler, BubbleUp(h) PROVE Conservation'
  BY <1>3, LoopSwapLemma, SwapLemma DEF BubbleUp, Conservation, Cells
<1>4. ASSUME DequeueExtract PROVE Conservation'
  <2>1. /\ hpc' = hpc /\ dequeued' = dequeued \cup {items[0].file}
        /\ QueuedFiles' = QueuedFiles \ {items[0].file}
        /\ (\A i, j \in Cells : items[i].file = items[j].file => i = j)'
    BY <1>4, ExtractLemma DEF DequeueExtract, Conservation
  <2>2. items[0].file \in QueuedFiles
    BY <1>4 DEF DequeueExtract, QueuedFiles, Cells, TypeOK
  <2>3. QED
    BY <2>1, <2>2 DEF Conservation
<1>5. ASSUME BubbleDown PROVE Conservation'
  BY <1>5, LoopSwapLemma, SwapLemma DEF BubbleDown, Conservation, Cells
<1>6. ASSUME ProcessorLoop \/ DequeueLock \/ DequeueWait \/ DequeueFail
               \/ DequeueReturn \/ Process \/ SpuriousWakeup \/ WaitTimeout
      PROVE  Conservation'
  BY <1>6, ConservationQuietLemma
     DEF heapVars, ProcessorLoop, DequeueLock, DequeueWait, DequeueFail,
         DequeueReturn, Process, SpuriousWakeup, WaitTimeout
<1>7. ASSUME MainStep PROVE Conservation'
  BY <1>7, ConservationQuietLemma
     DEF heapVars, MainStep, StopProcessor, StopSignal, StopJoin, Deactivate,
         Destroy
<1>8. CASE UNCHANGED vars
  BY <1>8, ConservationQuietLemma DEF vars
<1>9. QED
  BY <1>1, <1>2, <1>3, <1>4, <1>5, <1>6, <1>7, <1>8
     DEF Next, HandlerStep, EnqueueStep, ProcessorStep, DequeueStep

-----------------------------------------------------------------------------
(* The theorems. *)

\* The invariant holds in every state of every execution.
THEOREM Invariance == Spec => []IInv
<1>1. Init => IInv
  BY InitLemma
<1>2. IInv /\ [Next]_vars => IInv'
  BY TypeStep, OwnerStep, HeapStep, ConservationStep DEF IInv
<1>3. QED
  BY <1>1, <1>2, PTL DEF Spec

\* The queue never holds more than MAX_QUEUE_SIZE uploads and every variable
\* keeps its type.
THEOREM TypeCorrectness == Spec => []TypeOK
<1>1. IInv => TypeOK
  BY DEF IInv
<1>2. QED
  BY <1>1, Invariance, PTL

\* The array of src/priority_queue.c is a heap whenever no loop is repairing
\* it, and one pair away from a heap while a loop is.
THEOREM HeapCorrectness == Spec => []HeapOrder
<1>1. IInv => HeapOrder
  BY DEF IInv
<1>2. QED
  BY <1>1, Invariance, PTL

\* No accepted upload is lost or duplicated in the array.
THEOREM NoLoss == Spec => []Conservation
<1>1. IInv => Conservation
  BY DEF IInv
<1>2. QED
  BY <1>1, Invariance, PTL

-----------------------------------------------------------------------------
(* The refinement. *)

\* The root of a heap is a smallest item: were some cell smaller than the
\* root, the first such cell would be smaller than its own parent.
LEMMA RootLemma ==
  ASSUME TypeOK, size > 0, \A i \in 1 .. size - 1 : InOrder(i)
  PROVE  \A i \in Cells : items[0].priority <= items[i].priority
<1> DEFINE Smaller == {i \in Cells : items[i].priority < items[0].priority}
<1> DEFINE Before == OpToRel(<, Nat)
<1>1. /\ size \in Nat /\ Cells = 0 .. size - 1 /\ 0 \in Cells
      /\ \A i \in Cells : items[i].priority \in Int
  BY ItemsLemma DEF TypeOK, Cells
<1>2. SUFFICES ASSUME Smaller # {} PROVE FALSE
  BY <1>1
<1>3. \A x, y \in Nat : x < y => <<x, y>> \in Before
  BY DEF OpToRel
<1>4. PICK m \in Smaller : \A y \in Smaller : ~(<<y, m>> \in Before)
  <2>1. Smaller \subseteq Nat
    BY <1>1
  <2>2. IsWellFoundedOn(Before, Nat)
    BY NatLessThanWellFounded
  <2> HIDE DEF Smaller, Before
  <2>3. QED
    BY <1>2, <2>1, <2>2, WFMin
<1> HIDE DEF Before
<1>5. m \in 1 .. size - 1 /\ items[m].priority < items[0].priority
  <2>1. m \in Cells /\ items[m].priority < items[0].priority
    OBVIOUS
  <2>2. m # 0
    BY <1>1, <2>1
  <2>3. QED
    BY <1>1, <2>1, <2>2
<1>6. Parent(m) \in Cells /\ Parent(m) \in Nat /\ m \in Nat /\ Parent(m) < m
  BY <1>1, <1>5, ParentLemma
<1>7. items[Parent(m)].priority <= items[m].priority
  BY <1>5 DEF InOrder
<1>8. Parent(m) \in Smaller
  BY <1>1, <1>5, <1>6, <1>7
<1>9. QED
  BY <1>3, <1>4, <1>6, <1>8

\* As the files of the cells differ, there are as many waiting items as cells.
LEMMA QueuedCardinality ==
  ASSUME TypeOK,
         \A i, j \in Cells : items[i].file = items[j].file => i = j
  PROVE  Cardinality(Queued) = size
<1> DEFINE f == [n \in 1 .. size |-> items[n - 1]]
<1>1. size \in Nat /\ Cells = 0 .. size - 1
  BY DEF TypeOK, Cells
<1>2. \A n \in 1 .. size : n - 1 \in Cells
  BY <1>1
<1>3. \A i \in Cells : i + 1 \in 1 .. size /\ f[i + 1] = items[i]
  BY <1>1
<1>4. f \in Bijection(1 .. size, Queued)
  <2>1. f \in [1 .. size -> Queued]
    BY <1>2 DEF Queued
  <2>2. \A m, n \in 1 .. size : f[m] = f[n] => m = n
    BY <1>1, <1>2
  <2>3. \A x \in Queued : \E n \in 1 .. size : f[n] = x
    BY <1>3 DEF Queued
  <2> HIDE DEF f
  <2>4. QED
    BY <2>1, <2>2, <2>3 DEF Bijection, Injection, Surjection, IsInjective
<1>5. ExistsBijection(1 .. size, Queued)
  BY <1>4 DEF ExistsBijection
<1>6. QED
  BY <1>1, <1>5, FS_CountingElements

\* The cardinality that FileQueue's instance counts with is the usual one.
LEMMA SameCardinality == \A S : FQ!Cardinality(S) = Cardinality(S)
BY DEF FQ!Cardinality, Cardinality

\* The empty array is the empty abstract queue.
LEMMA InitRefinement == Init => FQ!Init
BY DEF Init, FQ!Init, Queued, Cells

\* Every step of the array, the mutex and the threads is one step of the
\* abstract queue, or none.
LEMMA StepRefinement ==
  IInv /\ [Next]_vars => [FQ!Next]_FQ!vars
<1> SUFFICES ASSUME IInv, [Next]_vars
             PROVE  FQ!Next \/ UNCHANGED <<Queued, item>>
  BY DEF FQ!vars
<1> USE DEF IInv
<1>1. ASSUME NEW h \in Handler, EnqueueInsert(h) PROVE FQ!Next
  <2> DEFINE it == items'[size]
  <2>1. it \in Item /\ it.file = h /\ Queued' = Queued \cup {it}
        /\ h \notin QueuedFiles
    BY <1>1, InsertLemma
  <2>2. \A other \in Queued : other.file # it.file
    BY <2>1 DEF Queued, QueuedFiles
  <2>3. Cardinality(Queued) < MaxQueueSize /\ item' = item
    BY <1>1, QueuedCardinality, ConstantsAssumption
       DEF EnqueueInsert, QueueFull, Conservation, IInv, TypeOK
  <2> HIDE DEF it
  <2>4. it \in Queued' \ Queued
    BY <2>1, <2>2
  <2>5. FQ!Submit(it)
    BY <2>1, <2>2, <2>3, SameCardinality DEF FQ!Submit
  <2>6. QED
    BY <2>4, <2>5 DEF FQ!Next
<1>2. ASSUME DequeueExtract PROVE FQ!Next
  <2>1. /\ items[0] \in Queued
        /\ Queued' = Queued \ {items[0]} /\ item' = items[0]
    BY <1>2, ExtractLemma DEF DequeueExtract, Conservation
  <2>2. ~Rising /\ ~Sinking /\ size > 0
    BY <1>2, ConstantsAssumption DEF DequeueExtract, OwnerInv, Rising, Sinking
  <2>3. \A other \in Queued : items[0].priority <= other.priority
    BY <2>2, RootLemma DEF HeapOrder, Queued
  <2>4. FQ!Serve(items[0])
    BY <2>1, <2>3 DEF FQ!Serve
  <2>5. QED
    BY <2>1, <2>4 DEF FQ!Next
<1>3. ASSUME NEW h \in Handler, BubbleUp(h) PROVE UNCHANGED <<Queued, item>>
  BY <1>3, LoopSwapLemma, SwapLemma DEF BubbleUp
<1>4. ASSUME BubbleDown PROVE UNCHANGED <<Queued, item>>
  BY <1>4, LoopSwapLemma, SwapLemma DEF BubbleDown
<1>5. ASSUME NEW h \in Handler,
             EnqueueLock(h) \/ EnqueueReject(h) \/ EnqueueReturn(h)
               \/ EnqueueDestroyed(h)
      PROVE  UNCHANGED <<Queued, item>>
  BY <1>5 DEF Queued, Cells, heapVars, EnqueueLock, EnqueueReject,
              EnqueueReturn, EnqueueDestroyed
<1>6. ASSUME ProcessorLoop \/ DequeueLock \/ DequeueWait \/ DequeueFail
               \/ DequeueReturn \/ Process \/ SpuriousWakeup \/ WaitTimeout
      PROVE  UNCHANGED <<Queued, item>>
  BY <1>6 DEF Queued, Cells, heapVars, ProcessorLoop, DequeueLock,
              DequeueWait, DequeueFail, DequeueReturn, Process,
              SpuriousWakeup, WaitTimeout
<1>7. ASSUME MainStep PROVE UNCHANGED <<Queued, item>>
  BY <1>7 DEF Queued, Cells, heapVars, MainStep, StopProcessor, StopSignal,
              StopJoin, Deactivate, Destroy
<1>8. CASE UNCHANGED vars
  BY <1>8 DEF vars, Queued, Cells
<1>9. QED
  BY <1>1, <1>2, <1>3, <1>4, <1>5, <1>6, <1>7, <1>8
     DEF Next, HandlerStep, EnqueueStep, ProcessorStep, DequeueStep

\* The heap of src/priority_queue.c implements the promise of FileQueue: the
\* processor is always given a smallest waiting upload, once.
THEOREM Refinement == Spec => ImplementsFileQueue
<1>1. Init => FQ!Init
  BY InitRefinement
<1>2. IInv /\ [Next]_vars => [FQ!Next]_FQ!vars
  BY StepRefinement
<1>3. QED
  BY <1>1, <1>2, Invariance, PTL DEF Spec, FQ!Spec, ImplementsFileQueue
=============================================================================
