------------------------------ MODULE FifoQueue ------------------------------
(***************************************************************************)
(* The counters of a FIFO queue extension: `total` requests ever created   *)
(* and the id `last_processed`.  Ids are u64 and wrap: the id of the       *)
(* request created after U64_MAX is 0.                                     *)
(*                                                                         *)
(* A queue is the pair of counters and nothing else.  The requests it      *)
(* orders are separate accounts that carry their id, and the head is       *)
(* whichever account carries last_processed + 1.                           *)
(***************************************************************************)
EXTENDS Integers

CONSTANT U64_MAX   \* the largest id, 2^64 - 1 in the program

ASSUME U64MaxAssumption == U64_MAX \in Nat \ {0}

Ids == 0 .. U64_MAX

Queues == [total : Ids, last_processed : Ids]

\* u64::wrapping_add(1).
WrappingAdd1(id) == IF id = U64_MAX THEN 0 ELSE id + 1

\* Both counters start at zero.
NewQueue == [total |-> 0, last_processed |-> 0]

\* increment_total: the new total is the id of the request being created.  The
\* mutant runs past u64.
IncrementTotalUnbounded(q) == [q EXCEPT !.total = @ + 1]

IncrementTotal(q) == [q EXCEPT !.total = WrappingAdd1(@)]

\* check_and_advance_queue, the check: FIFO order.
NotYetProcessed(q, id) == id # q.last_processed

IsHead(q, id) == id = WrappingAdd1(q.last_processed)

\* check_and_advance_queue, the advance: the id becomes the last processed.
AdvanceTo(q, id) == [q EXCEPT !.last_processed = id]

\* How many ids were handed out and not processed, across the wrap.
QueueLength(q) ==
  IF q.total >= q.last_processed
    THEN q.total - q.last_processed
    ELSE q.total - q.last_processed + U64_MAX + 1

\* The id i places behind the last processed one, for i in 1 .. QueueLength(q).
IdAt(q, i) ==
  IF q.last_processed + i > U64_MAX
    THEN q.last_processed + i - U64_MAX - 1
    ELSE q.last_processed + i

\* A bound on the environment, not a check of the program: fewer than
\* 2^64 - 1 queued requests are open at a time, the "active request window"
\* within which the program promises FIFO order.
WithinActiveWindow(q) == WrappingAdd1(q.total) # q.last_processed
==============================================================================
