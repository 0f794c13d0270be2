------------------------------ MODULE SendQueue ------------------------------
(***************************************************************************)
(* libmessage/SendQueue: the queue of messages a TCP session has yet to    *)
(* write, a boost::circular_buffer that is made twice as large whenever it *)
(* is full, until it holds more than MAX_SIZE messages.  A queue is a      *)
(* record: the messages in it and its capacity.                            *)
(***************************************************************************)
EXTENDS Naturals, Sequences

CONSTANTS INIT_SIZE,   \* SendQueue::INIT_SIZE, 0x100 in the code
          MAX_SIZE     \* SendQueue::MAX_SIZE, 100000 in the code

ASSUME QueueAssumption ==
    /\ INIT_SIZE \in Nat \ {0}
    /\ MAX_SIZE \in Nat

EmptyQueue == [buf |-> <<>>, cap |-> INIT_SIZE]

IsEmpty(q) == q.buf = <<>>
Front(q)   == Head(q.buf)
Pop(q)     == [q EXCEPT !.buf = Tail(@)]

(* circular_buffer::push_back overwrites the oldest element of a full buffer. *)
PushBack(q, msg) ==
    [q EXCEPT !.buf = Append(IF Len(@) < q.cap THEN @ ELSE Tail(@), msg)]

Full(q)   == Len(q.buf) = q.cap

(* Fault: there is no limit. *)
Refuse_never(q) == FALSE

Refuse(q) == Full(q) /\ MAX_SIZE < Len(q.buf)

(* Fault: a full queue is not made larger. *)
Grow_never(q) == q

Grow(q)   == IF Full(q) THEN [q EXCEPT !.cap = Len(q.buf) + Len(q.buf)] ELSE q

(* SendQueue::push: the queue after it; Refuse(q) says that it failed. *)
Push(q, msg) == IF Refuse(q) THEN q ELSE PushBack(Grow(q), msg)
=============================================================================
