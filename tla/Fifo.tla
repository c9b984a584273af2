-------------------------------- MODULE Fifo --------------------------------
(***************************************************************************)
(* What the queues of the daemon promise (sr_cbuff, "FIFO circular buffer  *)
(* queue", src/common/sr_data_structs.h): elements leave in the order in   *)
(* which they came, none is lost or made up, and there is always room.     *)
(***************************************************************************)
EXTENDS Sequences

CONSTANT Elem

VARIABLES
    queue,  \* the elements in the queue
    item    \* what the last dequeue copied out, <<>> before the first

FifoInit == queue = <<>> /\ item = <<>>

FifoEnqueue(e) == queue' = Append(queue, e) /\ item' = item

FifoDequeue ==
    /\ queue # <<>>
    /\ item' = <<Head(queue)>>
    /\ queue' = Tail(queue)

FifoNext == (\E e \in Elem : FifoEnqueue(e)) \/ FifoDequeue

FifoSpec == FifoInit /\ [][FifoNext]_<<queue, item>>
=============================================================================
