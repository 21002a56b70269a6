---------------------------- MODULE BoundedQueue ----------------------------
(* What rbdvbt_fifo_t promises its callers, src/include/pipeline.h: a queue *)
(* of at most Capacity items that keeps their order, refuses items once it  *)
(* is closed and still gives up those it holds.                             *)
EXTENDS Integers, Sequences

CONSTANTS Items, Capacity

VARIABLES
  queue,   \* the items, oldest first
  open,    \* it has not been closed
  last     \* the call that returned last: its kind, item and return code

queueVars == <<queue, open, last>>

Init ==
  /\ queue = <<>> /\ open = TRUE
  /\ last = [call |-> "init", items |-> <<>>, rc |-> 0]

Returns(call, items, rc) == last' = [call |-> call, items |-> items, rc |-> rc]

Push(x) ==
  /\ open /\ Len(queue) < Capacity
  /\ queue' = Append(queue, x)
  /\ Returns("push", <<x>>, 0)
  /\ UNCHANGED open

PushFull ==
  /\ open /\ Len(queue) = Capacity
  /\ Returns("push", <<>>, 1)
  /\ UNCHANGED <<queue, open>>

PushClosed ==
  /\ ~open
  /\ Returns("push", <<>>, -1)
  /\ UNCHANGED <<queue, open>>

Pop ==
  /\ queue # <<>>
  /\ queue' = Tail(queue)
  /\ Returns("pop", <<Head(queue)>>, 0)
  /\ UNCHANGED open

PopEmpty ==
  /\ queue = <<>>
  /\ Returns("pop", <<>>, 1)
  /\ UNCHANGED <<queue, open>>

Close == open' = FALSE /\ UNCHANGED <<queue, last>>

Clear == queue' = <<>> /\ UNCHANGED <<open, last>>

Next ==
  \/ \E x \in Items : Push(x)
  \/ PushFull \/ PushClosed \/ Pop \/ PopEmpty \/ Close \/ Clear

Spec == Init /\ [][Next]_queueVars
=============================================================================
