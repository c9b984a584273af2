------------------------------- MODULE MCPool -------------------------------
(* Instances of WorkerPool with three threads, and what the comments of the  *)
(* source say of the pool.                                                   *)
EXTENDS WorkerPool

CONSTANTS t1, t2, t3

\* src/request_processor.c:4208, "send signal if there is no active thread
\* ready to process the request": a message that is queued does not stay in
\* the queue.  The signal is lost when every thread is between counting itself
\* out and pthread_cond_wait; the message is then left until another comes.
NeverStranded == \A m \in Msg : Queued(m) ~> ~Queued(m)
=============================================================================
