---------------------------- MODULE BufferProofs ----------------------------
(***************************************************************************)
(* The circular buffer is a FIFO queue, for every initial capacity, every  *)
(* set of elements and every number of enlargements.                       *)
(*                                                                         *)
(* The positions that the code computes are head + i modulo the capacity   *)
(* with i at most the capacity, so the modulus subtracts the capacity at   *)
(* most once; two lemmas say so, and the rest of the proof is free of it.  *)
(***************************************************************************)
EXTENDS CircularBuffer, SequenceTheorems, TLAPS

\* A number below the modulus is its own remainder.
LEMMA ModBelow ==
    ASSUME NEW c \in Nat \ {0}, NEW n \in 0..c - 1
    PROVE  n % c = n
  OBVIOUS

\* A number between the modulus and its double loses the modulus once.
LEMMA ModOnce ==
    ASSUME NEW c \in Nat \ {0}, NEW n \in c..2 * c - 1
    PROVE  n % c = n - c
  OBVIOUS

\* The slot i behind slot h of c slots: the sum, less the number of slots when
\* it is behind the end.
LEMMA Wrapped ==
    ASSUME NEW c \in Nat \ {0}, NEW h \in 0..c - 1, NEW i \in 0..c - 1
    PROVE  /\ (h + i) % c = IF h + i < c THEN h + i ELSE h + i - c
           /\ (h + i) % c \in 0..c - 1
  <1>1. CASE h + i < c
    <2>1. h + i \in 0..c - 1
      BY <1>1
    <2> QED
      BY <1>1, <2>1, ModBelow
  <1>2. CASE ~(h + i < c)
    <2>1. h + i \in c..2 * c - 1
      BY <1>2
    <2>2. (h + i) % c = h + i - c
      BY ONLY <2>1, c \in Nat \ {0}, ModOnce
    <2> QED
      BY <1>2, <2>1, <2>2
  <1> QED
    BY <1>1, <1>2

\* The position of an element (sr_cbuff_enqueue, sr_cbuff_dequeue), now and
\* after a step.
LEMMA PositionIs ==
    ASSUME TypeOK, NEW i \in 0..capacity - 1
    PROVE  /\ Position(i) = IF head + i < capacity THEN head + i
                                                  ELSE head + i - capacity
           /\ Position(i) \in 0..capacity - 1
  BY Wrapped DEF TypeOK, Position

LEMMA PositionIsNext ==
    ASSUME TypeOK', NEW i \in 0..capacity' - 1
    PROVE  Position(i)' = IF head' + i < capacity' THEN head' + i
                                                   ELSE head' + i - capacity'
  BY Wrapped DEF TypeOK, Position

\* Append and Tail as functions of the index.
LEMMA AppendAt ==
    ASSUME NEW S, NEW s \in Seq(S), NEW e \in S
    PROVE  Append(s, e) = [i \in 1..Len(s) + 1 |->
                            IF i = Len(s) + 1 THEN e ELSE s[i]]
  <1>1. Append(s, e) \in Seq(S) /\ Len(Append(s, e)) = Len(s) + 1
    BY AppendProperties
  <1>2. Append(s, e) \in [1..Len(s) + 1 -> S]
    BY <1>1, LenProperties
  <1>3. \A i \in 1..Len(s) + 1 :
            Append(s, e)[i] = IF i = Len(s) + 1 THEN e ELSE s[i]
    BY AppendProperties, LenProperties
  <1> QED
    BY <1>2, <1>3

LEMMA TailAt ==
    ASSUME NEW S, NEW s \in Seq(S), s # <<>>
    PROVE  Tail(s) = [i \in 1..Len(s) - 1 |-> s[i + 1]]
  <1>1. Tail(s) \in [1..Len(s) - 1 -> S]
    BY HeadTailProperties, LenProperties
  <1>2. \A i \in 1..Len(s) - 1 : Tail(s)[i] = s[i + 1]
    BY HeadTailProperties
  <1> QED
    BY <1>1, <1>2

\* The contents are a sequence of slots, as long as the count says.
LEMMA ContentsSeq ==
    ASSUME TypeOK
    PROVE  /\ Contents \in Seq(Slot)
           /\ Len(Contents) = count
           /\ \A i \in 1..count : Contents[i] = data[Position(i - 1)]
  <1>1. count \in Nat
    BY DEF TypeOK
  <1>2. ASSUME NEW i \in 1..count PROVE data[Position(i - 1)] \in Slot
    <2>1. i - 1 \in 0..capacity - 1
      BY DEF TypeOK
    <2>2. Position(i - 1) \in 0..capacity - 1
      BY <2>1, PositionIs
    <2> QED
      BY <2>2 DEF TypeOK
  <1>3. Contents \in [1..count -> Slot]
    BY <1>2 DEF Contents
  <1> QED
    BY <1>1, <1>3 DEF Contents

\* The contents with an element behind them.
LEMMA ContentsAppended ==
    ASSUME TypeOK, NEW e \in Elem
    PROVE  Append(Contents, e) =
            [i \in 1..count + 1 |->
                IF i = count + 1 THEN e ELSE data[Position(i - 1)]]
  <1>1. count \in Nat
    BY DEF TypeOK
  <1>2. Contents \in Seq(Slot) /\ Len(Contents) = count
    BY ContentsSeq
  <1>3. Append(Contents, e) =
            [i \in 1..count + 1 |-> IF i = count + 1 THEN e ELSE Contents[i]]
    BY <1>2, AppendAt DEF Slot
  <1>4. ASSUME NEW i \in 1..count + 1, i # count + 1
        PROVE  Contents[i] = data[Position(i - 1)]
    BY <1>1, <1>4, ContentsSeq
  <1> QED
    BY <1>3, <1>4

\* An enqueue into a buffer with room writes a slot that no element is in.
LEMMA EnqueueRoom ==
    ASSUME TypeOK, NEW e \in Elem, Enqueue(e), count # capacity
    PROVE  TypeOK' /\ Contents' = Append(Contents, e)
  <1>1. count \in 0..capacity - 1
    BY DEF TypeOK
  <1>2. /\ capacity' = capacity /\ head' = head /\ count' = count + 1
        /\ data' = [data EXCEPT ![Position(count)] = e]
        /\ item' = item
    BY DEF Enqueue, Position
  <1>3. Position(count) \in 0..capacity - 1
    BY <1>1, PositionIs
  <1>4. TypeOK'
    BY <1>1, <1>2, <1>3 DEF TypeOK, Slot
  <1>5. data'[Position(count)] = e
    BY <1>2, <1>3 DEF TypeOK
  <1>6. ASSUME NEW i \in 0..count - 1
        PROVE  data'[Position(i)] = data[Position(i)]
    <2>1. i \in 0..capacity - 1
      BY <1>1 DEF TypeOK
    <2>2. Position(i) # Position(count)
      <3>1. Position(i) = IF head + i < capacity THEN head + i
                                                 ELSE head + i - capacity
        BY <2>1, PositionIs
      <3>2. Position(count) = IF head + count < capacity THEN head + count
                                                ELSE head + count - capacity
        BY <1>1, PositionIs
      <3> QED
        BY <1>1, <3>1, <3>2 DEF TypeOK
    <2>3. Position(i) \in 0..capacity - 1
      BY <2>1, PositionIs
    <2> QED
      BY <1>2, <2>2, <2>3 DEF TypeOK
  <1>7. Contents' = [i \in 1..count + 1 |-> data'[Position(i - 1)]]
    BY <1>2 DEF Contents, Position
  <1>8. Append(Contents, e) =
            [i \in 1..count + 1 |->
                IF i = count + 1 THEN e ELSE data[Position(i - 1)]]
    BY ContentsAppended
  <1> QED
    BY <1>1, <1>4, <1>5, <1>6, <1>7, <1>8

\* The move of an enlargement: element i of a full buffer is at head + i of the
\* new memory.
LEMMA EnlargedAt ==
    ASSUME TypeOK, NEW i \in 0..capacity - 1
    PROVE  Enlarged[head + i] = data[Position(i)]
  <1>1. head + i \in 0..2 * capacity - 1
    BY DEF TypeOK
  <1>2. CASE head + i < capacity
    <2>1. Position(i) = head + i
      BY <1>2, PositionIs
    <2> QED
      BY <1>1, <1>2, <2>1 DEF TypeOK, Enlarged, MovedTo
  <1>3. CASE ~(head + i < capacity)
    <2>1. PICK j \in 0..2 * capacity - 1 : j = head + i
      BY <1>1
    <2>2. PICK p \in 0..capacity - 1 : p = Position(i)
      BY PositionIs
    <2>3. MovedTo(j) /\ p = j - capacity
      BY <1>3, <2>1, <2>2, PositionIs DEF TypeOK, MovedTo
    <2>4. Enlarged[j] = data[p]
      BY <2>3 DEF Enlarged
    <2> QED
      BY <2>1, <2>2, <2>4
  <1> QED
    BY <1>2, <1>3

\* An enqueue into a full buffer doubles it first; the elements keep their
\* order, and the new one is behind them.
LEMMA EnqueueFull ==
    ASSUME TypeOK, NEW e \in Elem, Enqueue(e), count = capacity
    PROVE  TypeOK' /\ Contents' = Append(Contents, e)
  <1> DEFINE cap == 2 * capacity
             last == head + capacity
  <1>1. /\ cap \in Nat \ {0} /\ last \in 0..cap - 1
        /\ \A i \in 0..capacity - 1 : head + i \in 0..cap - 1 /\ head + i # last
    BY DEF TypeOK
  <1>2. Enlarged \in [0..cap - 1 -> Slot]
    <2>1. ASSUME NEW i \in 0..cap - 1
          PROVE  Enlarged[i] \in Slot
      BY DEF TypeOK, Enlarged, MovedTo, Slot
    <2> QED
      BY <2>1 DEF Enlarged
  <1>3. /\ capacity' = cap /\ head' = head /\ count' = capacity + 1
        /\ data' = [Enlarged EXCEPT ![last % cap] = e]
        /\ item' = item
    BY DEF Enqueue
  <1>4. Contents' = [i \in 1..capacity + 1 |-> data'[(head + (i - 1)) % cap]]
    BY <1>3 DEF Contents, Position
  <1>5. TypeOK /\ capacity + 1 \in 0..cap
    BY DEF TypeOK
  <1> HIDE DEF cap
  <1>6. last % cap = last
    BY <1>1, ModBelow
  <1>7. data'[last] = e /\ data' \in [0..cap - 1 -> Slot]
    BY <1>1, <1>2, <1>3, <1>6 DEF Slot
  <1>8. TypeOK'
    <2>1. head \in 0..cap - 1
      BY <1>1 DEF TypeOK
    <2> QED
      BY <1>1, <1>3, <1>5, <1>7, <2>1 DEF TypeOK
  <1>9. ASSUME NEW i \in 0..capacity - 1
        PROVE  data'[(head + i) % cap] = data[Position(i)]
    <2>1. head + i \in 0..cap - 1 /\ head + i # last
      BY <1>1
    <2>2. (head + i) % cap = head + i
      BY <1>1, <2>1, ModBelow
    <2>3. data'[head + i] = Enlarged[head + i]
      BY <1>2, <1>3, <1>6, <2>1
    <2> QED
      BY <2>2, <2>3, EnlargedAt
  <1>10. ASSUME NEW i \in 1..capacity + 1
         PROVE  data'[(head + (i - 1)) % cap] =
                    IF i = capacity + 1 THEN e ELSE data[Position(i - 1)]
    <2>1. CASE i = capacity + 1
      <3>1. head + (i - 1) = last
        BY <2>1 DEF TypeOK
      <3> QED
        BY <1>6, <1>7, <2>1, <3>1
    <2>2. CASE i # capacity + 1
      <3>1. i - 1 \in 0..capacity - 1
        BY <2>2 DEF TypeOK
      <3> QED
        BY <1>9, <2>2, <3>1
    <2> QED
      BY <2>1, <2>2
  <1>11. Append(Contents, e) =
            [i \in 1..capacity + 1 |->
                IF i = capacity + 1 THEN e ELSE data[Position(i - 1)]]
    BY ContentsAppended
  <1> QED
    BY <1>4, <1>8, <1>10, <1>11

\* sr_cbuff_dequeue takes the first element.
LEMMA DequeueFirst ==
    ASSUME TypeOK, Dequeue
    PROVE  TypeOK' /\ FIFO!FifoDequeue
  <1>1. /\ count \in 1..capacity /\ capacity' = capacity /\ data' = data
        /\ count' = count - 1 /\ item' = <<data[head]>>
    BY DEF TypeOK, Dequeue
  <1>2. /\ 0 \in 0..capacity - 1 /\ capacity \in Nat \ {0}
        /\ head \in 0..capacity - 1
    BY DEF TypeOK
  <1>3. head' = IF head + 1 < capacity THEN head + 1 ELSE 0
    <2>1. CASE head + 1 < capacity
      <3>1. head + 1 \in 0..capacity - 1
        BY <1>2, <2>1
      <3> QED
        BY <1>2, <2>1, <3>1, ModBelow DEF Dequeue, NextHead
    <2>2. CASE ~(head + 1 < capacity)
      <3>1. head + 1 = capacity
        BY <1>2, <2>2
      <3>2. capacity % capacity = 0
        BY <1>2, ModOnce
      <3> QED
        BY <2>2, <3>1, <3>2 DEF Dequeue, NextHead
    <2> QED
      BY <2>1, <2>2
  <1>4. TypeOK'
    <2>1. data[head] \in Slot
      BY DEF TypeOK
    <2>2. item' \in Seq(Slot)
      BY <1>1, <2>1
    <2> QED
      BY <1>1, <1>2, <1>3, <2>2 DEF TypeOK
  <1>5. Contents \in Seq(Slot) /\ Len(Contents) = count /\ Contents # <<>>
    BY <1>1, ContentsSeq
  <1>6. item' = <<Head(Contents)>>
    <2>1. Position(0) = head
      BY <1>2, ModBelow DEF Position
    <2>2. Contents[1] = data[Position(0)]
      BY <1>1, ContentsSeq
    <2> QED
      BY <1>1, <1>5, <2>1, <2>2
  <1>7. ASSUME NEW i \in 0..count - 2
        PROVE  Position(i)' = Position(i + 1)
    <2>1. i \in 0..capacity - 1 /\ i + 1 \in 0..capacity - 1
      BY <1>1, <1>2
    <2>2. Position(i + 1) = IF head + (i + 1) < capacity
                            THEN head + (i + 1)
                            ELSE head + (i + 1) - capacity
      BY <2>1, PositionIs
    <2>3. Position(i)' = IF head' + i < capacity THEN head' + i
                                                 ELSE head' + i - capacity
      BY <1>1, <1>4, <2>1, PositionIsNext
    <2> QED
      BY <1>2, <1>3, <2>1, <2>2, <2>3
  <1>8. Contents' = Tail(Contents)
    <2>1. Contents' = [i \in 1..count - 1 |-> data[Position(i - 1)']]
      BY <1>1 DEF Contents, Position
    <2>2. Tail(Contents) = [i \in 1..count - 1 |-> Contents[i + 1]]
      BY <1>5, TailAt
    <2>3. ASSUME NEW i \in 1..count - 1
          PROVE  data[Position(i - 1)'] = Contents[i + 1]
      <3>1. i - 1 \in 0..count - 2 /\ i + 1 \in 1..count /\ (i - 1) + 1 = i
        BY <1>1
      <3>2. Position(i - 1)' = Position(i)
        BY <1>7, <3>1
      <3>3. Contents[i + 1] = data[Position((i + 1) - 1)]
        BY <3>1, ContentsSeq
      <3>4. (i + 1) - 1 = i
        BY <3>1
      <3> QED
        BY <3>2, <3>3, <3>4
    <2> QED
      BY <2>1, <2>2, <2>3
  <1> QED
    BY <1>4, <1>5, <1>6, <1>8 DEF FIFO!FifoDequeue

\* A step of the buffer keeps its types and is a step of the queue.
LEMMA BufferStep ==
    ASSUME TypeOK, [Next]_vars
    PROVE  TypeOK' /\ [FIFO!FifoNext]_<<Contents, item>>
  <1>1. CASE \E e \in Elem : Enqueue(e)
    <2>1. PICK e \in Elem : Enqueue(e)
      BY <1>1
    <2>2. TypeOK' /\ Contents' = Append(Contents, e)
      BY <2>1, EnqueueRoom, EnqueueFull
    <2>3. item' = item
      BY <2>1 DEF Enqueue
    <2> QED
      BY <2>2, <2>3 DEF FIFO!FifoNext, FIFO!FifoEnqueue
  <1>2. CASE Dequeue
    BY <1>2, DequeueFirst DEF FIFO!FifoNext
  <1>3. CASE UNCHANGED vars
    BY <1>3 DEF vars, TypeOK, Contents, Position
  <1> QED
    BY <1>1, <1>2, <1>3 DEF Next

\* An initialised buffer is typed and empty (sr_cbuff_init).
LEMMA BufferInit ==
    ASSUME Init
    PROVE  TypeOK /\ FIFO!FifoInit
  <1>1. TypeOK
    BY BufferAssumption DEF Init, TypeOK, Slot
  <1>2. Contents = <<>>
    BY <1>1, ContentsSeq DEF Init
  <1> QED
    BY <1>1, <1>2 DEF Init, FIFO!FifoInit

\* No call of sr_cbuff leaves the types: the head stays a slot of the memory
\* that is allocated, and the count within its capacity.
THEOREM BufferTypes == Spec => []TypeOK
  <1>1. Init => TypeOK
    BY BufferInit
  <1>2. TypeOK /\ [Next]_vars => TypeOK'
    BY BufferStep
  <1> QED
    BY <1>1, <1>2, PTL DEF Spec

\* Every step of the buffer, enlargement included, is one of a FIFO queue, or
\* changes nothing that the queue's user sees.
THEOREM BufferIsFifo == Spec => ImplementsFifo
  <1>1. Init => FIFO!FifoInit
    BY BufferInit
  <1>2. TypeOK /\ [Next]_vars => [FIFO!FifoNext]_<<Contents, item>>
    BY BufferStep
  <1> QED
    BY <1>1, <1>2, BufferTypes, PTL DEF Spec, ImplementsFifo, FIFO!FifoSpec
=============================================================================
