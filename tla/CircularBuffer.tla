--------------------------- MODULE CircularBuffer ---------------------------
(***************************************************************************)
(* The circular buffer sr_cbuff (src/common/sr_data_structs.c), the data   *)
(* structure of the RP request queue, the CM message queue and the request *)
(* queues of sessions.  A full buffer doubles its capacity: it is          *)
(* reallocated, and the elements before the head are moved behind the old  *)
(* end.  Slots that were never written, or are left over after a move,     *)
(* hold whatever the memory holds.                                         *)
(*                                                                         *)
(* Callers serialise the operations with a mutex, or are one thread.       *)
(***************************************************************************)
EXTENDS Integers, Sequences

CONSTANTS
    Elem,      \* elements
    Junk,      \* the contents of memory that nobody has written
    InitCap,   \* initial_capacity
    MaxItems   \* bound on the number of elements

ASSUME BufferAssumption ==
    /\ Junk \notin Elem
    /\ InitCap \in Nat \ {0}
    /\ MaxItems \in Nat

VARIABLES
    data,      \* contents of the slots 0..capacity-1
    capacity,
    head,      \* slot of the first element
    count,     \* number of elements
    item       \* what the last sr_cbuff_dequeue copied out

vars == <<data, capacity, head, count, item>>

Slot == Elem \union {Junk}

\* The elements are within the capacity, and the head is a slot.
TypeOK ==
    /\ capacity \in Nat \ {0}
    /\ head \in 0..capacity - 1
    /\ count \in 0..capacity
    /\ data \in [0..capacity - 1 -> Slot]
    /\ item \in Seq(Slot)

\* sr_cbuff_init.
Init ==
    /\ data = [i \in 0..InitCap - 1 |-> Junk]
    /\ capacity = InitCap
    /\ head = 0
    /\ count = 0
    /\ item = <<>>

-----------------------------------------------------------------------------
\* Fault: the move takes one element too few.
OneNotMoved(i) == i >= capacity /\ i + 1 < capacity + head

\* The slots that the memmove of an enlargement writes.
MovedTo(i) == i >= capacity /\ i < capacity + head

\* The reallocated memory.
Enlarged ==
    [i \in 0..2 * capacity - 1 |->
        IF MovedTo(i) THEN data[i - capacity]
        ELSE IF i < capacity THEN data[i] ELSE Junk]

\* sr_cbuff_enqueue.
Enqueue(e) ==
    LET full == count = capacity
        cap  == IF full THEN 2 * capacity ELSE capacity
        mem  == IF full THEN Enlarged ELSE data
    IN
    /\ count < MaxItems
    /\ capacity' = cap
    /\ data' = [mem EXCEPT ![(head + count) % cap] = e]
    /\ count' = count + 1
    /\ UNCHANGED <<head, item>>

\* Fault: the head is not wrapped around.
HeadRunsOn == head + 1

\* The slot after the head.
NextHead == (head + 1) % capacity

\* sr_cbuff_dequeue; on an empty buffer it changes nothing.
Dequeue ==
    /\ count > 0
    /\ item' = <<data[head]>>
    /\ head' = NextHead
    /\ count' = count - 1
    /\ UNCHANGED <<data, capacity>>

Next == (\E e \in Elem : Enqueue(e)) \/ Dequeue

Spec == Init /\ [][Next]_vars

-----------------------------------------------------------------------------
(* Properties.                                                             *)

\* The slot of the i-th element, counted from 0.
Position(i) == (head + i) % capacity

\* The elements in the buffer, in the order in which they will be dequeued.
Contents == [i \in 1..count |-> data[Position(i - 1)]]

FIFO == INSTANCE Fifo WITH queue <- Contents

\* The buffer is a FIFO queue: through any sequence of enqueue, enlargement
\* and dequeue, with the head anywhere, no element is lost, made up, or taken
\* out of its turn.
ImplementsFifo == FIFO!FifoSpec
=============================================================================
