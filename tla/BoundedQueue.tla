---------------------------- MODULE BoundedQueue ----------------------------
(* BoundedQueue and BoundedByteBuffer (shared/transport/bounded_queue.h): the    *)
(* queues between the host's window, its worker thread and the receive thread.   *)
(* The drop counters, which nothing decides on, are left out.                    *)
EXTENDS Naturals, Sequences

\* push(v, dropOldest = true): a full queue loses its oldest element.
PushLatest(q, v, cap) ==
  IF cap = 0 THEN q
  ELSE IF Len(q) >= cap THEN Append(Tail(q), v) ELSE Append(q, v)

\* push(v, dropOldest = false) and BoundedByteBuffer::append: a full queue keeps
\* what it has and loses the new element.
PushNewest(q, v, cap) == IF Len(q) >= cap THEN q ELSE Append(q, v)

=============================================================================
