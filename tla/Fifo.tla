-------------------------------- MODULE Fifo --------------------------------
(***************************************************************************)
(* rbdvbt_fifo_t, src/src/pipeline.c: a ring of items under a mutex, with  *)
(* two condition variables.  A step of a thread is what it does between    *)
(* taking the mutex and releasing it, be it in a call it enters or in one  *)
(* it resumes after pthread_cond_wait, which may also return unasked.      *)
(***************************************************************************)
EXTENDS Integers, FiniteSets

CONSTANTS
  Threads,   \* the threads that share the FIFO
  Items,
  Capacity,
  Nothing    \* what a slot holds before its first item

ASSUME FifoAssumption ==
  Capacity \in Nat \ {0} /\ Nothing \notin Items /\ IsFiniteSet(Threads)

VARIABLES
  items, head, tail, count, closed,   \* the fields of rbdvbt_fifo_t
  pc,     \* where each thread is
  arg,    \* the item a thread brings to rbdvbt_fifo_push_wait
  last    \* the call that returned last: its kind, item and return code

fifo == <<items, head, tail, count, closed>>
vars == <<fifo, pc, arg, last>>

Slots == 0..(Capacity - 1)

Places == {"outside", "not_full", "push", "not_empty", "pop"}

(* The threads asleep on a condition, and those awake again that have yet   *)
(* to take the mutex.                                                       *)
At(place) == {t \in Threads : pc[t] = place}

Init ==
  /\ items = [s \in Slots |-> Nothing] /\ head = 0 /\ tail = 0 /\ count = 0
  /\ closed = FALSE
  /\ pc = [t \in Threads |-> "outside"]
  /\ arg \in [Threads -> Items]
  /\ last = [call |-> "init", items |-> <<>>, rc |-> 0]

-----------------------------------------------------------------------------
Returns(call, given, rc) == last' = [call |-> call, items |-> given, rc |-> rc]

(* Thread t leaves its call; pthread_cond_signal wakes one sleeper, if any. *)
LeaveSignalling(t, condition, awake) ==
  IF At(condition) = {} THEN pc' = [pc EXCEPT ![t] = "outside"]
  ELSE \E u \in At(condition) :
         pc' = [pc EXCEPT ![t] = "outside", ![u] = awake]

Leave(t) == pc' = [pc EXCEPT ![t] = "outside"]

(* Mutant: the consumers are signalled only when the FIFO was empty.        *)
PushQuietly(t, x) ==
  /\ items' = [items EXCEPT ![tail] = x]
  /\ tail' = (tail + 1) % Capacity
  /\ count' = count + 1
  /\ Returns("push", <<x>>, 0)
  /\ IF count = 0 THEN LeaveSignalling(t, "not_empty", "pop") ELSE Leave(t)
  /\ UNCHANGED <<head, closed>>

(* fifo_push_locked and the signal after it.                                *)
PushLocked(t, x) ==
  /\ items' = [items EXCEPT ![tail] = x]
  /\ tail' = (tail + 1) % Capacity
  /\ count' = count + 1
  /\ Returns("push", <<x>>, 0)
  /\ LeaveSignalling(t, "not_empty", "pop")
  /\ UNCHANGED <<head, closed>>

(* fifo_pop_locked and the signal after it.                                 *)
PopLocked(t) ==
  /\ head' = (head + 1) % Capacity
  /\ count' = count - 1
  /\ Returns("pop", <<items[head]>>, 0)
  /\ LeaveSignalling(t, "not_full", "push")
  /\ UNCHANGED <<items, tail, closed>>

Refuse(t, call, rc) == Returns(call, <<>>, rc) /\ Leave(t) /\ UNCHANGED fifo

Sleep(t, condition) == pc' = [pc EXCEPT ![t] = condition] /\ UNCHANGED <<fifo, last>>

-----------------------------------------------------------------------------
(* rbdvbt_fifo_try_push and rbdvbt_fifo_try_pop.                            *)
TryPush(t, x) ==
  /\ pc[t] = "outside"
  /\ \/ closed /\ Refuse(t, "push", -1)
     \/ ~closed /\ count = Capacity /\ Refuse(t, "push", 1)
     \/ ~closed /\ count # Capacity /\ PushLocked(t, x)
  /\ UNCHANGED arg

TryPop(t) ==
  /\ pc[t] = "outside"
  /\ \/ count = 0 /\ Refuse(t, "pop", 1)
     \/ count # 0 /\ PopLocked(t)
  /\ UNCHANGED arg

(* rbdvbt_fifo_push_wait, entered or resumed.                               *)
PushWait(t, x) ==
  /\ \/ pc[t] = "outside" /\ arg' = [arg EXCEPT ![t] = x]
     \/ pc[t] = "push" /\ x = arg[t] /\ UNCHANGED arg
  /\ \/ closed /\ Refuse(t, "push", -1)
     \/ ~closed /\ count = Capacity /\ Sleep(t, "not_full")
     \/ ~closed /\ count # Capacity /\ PushLocked(t, x)

(* Mutant: a closed FIFO gives up nothing.                                  *)
PopWaitUnlessClosed(t) ==
  /\ pc[t] \in {"outside", "pop"}
  /\ \/ closed /\ Refuse(t, "pop", 1)
     \/ ~closed /\ count = 0 /\ Sleep(t, "not_empty")
     \/ ~closed /\ count # 0 /\ PopLocked(t)
  /\ UNCHANGED arg

(* rbdvbt_fifo_pop_wait, entered or resumed.                                *)
PopWait(t) ==
  /\ pc[t] \in {"outside", "pop"}
  /\ \/ ~closed /\ count = 0 /\ Sleep(t, "not_empty")
     \/ closed /\ count = 0 /\ Refuse(t, "pop", 1)
     \/ count # 0 /\ PopLocked(t)
  /\ UNCHANGED arg

Awake(place) == CASE place = "not_full" -> "push" [] place = "not_empty" -> "pop"
                  [] OTHER -> place

(* Mutant: the close wakes the consumers and leaves the producers asleep.   *)
CloseForConsumers ==
  /\ closed' = TRUE
  /\ pc' = [t \in Threads |-> IF pc[t] = "not_empty" THEN "pop" ELSE pc[t]]
  /\ UNCHANGED <<items, head, tail, count, arg, last>>

(* rbdvbt_fifo_close: both conditions are broadcast.                        *)
Close ==
  /\ closed' = TRUE
  /\ pc' = [t \in Threads |-> Awake(pc[t])]
  /\ UNCHANGED <<items, head, tail, count, arg, last>>

(* rbdvbt_fifo_clear: the items go, the producers are woken.                *)
Clear ==
  /\ head' = 0 /\ tail' = 0 /\ count' = 0
  /\ pc' = [t \in Threads |-> IF pc[t] = "not_full" THEN "push" ELSE pc[t]]
  /\ UNCHANGED <<items, closed, arg, last>>

(* pthread_cond_wait may return without a signal.                           *)
WakeUnasked(t) ==
  /\ pc[t] \in {"not_full", "not_empty"}
  /\ pc' = [pc EXCEPT ![t] = Awake(@)]
  /\ UNCHANGED <<fifo, arg, last>>

Resume(t) == pc[t] \in {"push", "pop"} /\ (PushWait(t, arg[t]) \/ PopWait(t))

Next ==
  \/ \E t \in Threads :
       \/ \E x \in Items : TryPush(t, x) \/ PushWait(t, x)
       \/ TryPop(t) \/ PopWait(t) \/ WakeUnasked(t)
  \/ Close \/ Clear

(* A thread that is awake gets the mutex in the end; nobody need call.      *)
Spec == Init /\ [][Next]_vars /\ \A t \in Threads : WF_vars(Resume(t))

-----------------------------------------------------------------------------
(* No wake-up is lost: while a consumer sleeps there is a consumer on its   *)
(* way for every item, while a producer sleeps there is a producer on its   *)
(* way for every free slot, and nobody sleeps on a closed FIFO.             *)
NoneSleepsOnWork ==
  /\ At("not_empty") # {} => ~closed /\ count <= Cardinality(At("pop"))
  /\ At("not_full") # {} => ~closed /\ Capacity - count <= Cardinality(At("push"))

(* Whoever waits when the FIFO is closed returns, and an item it held then  *)
(* can still be popped.                                                     *)
CloseReleases ==
  \A t \in Threads : closed /\ pc[t] # "outside" ~> pc[t] = "outside"

(* The items in the ring, oldest first.                                     *)
Contents == [k \in 1..count |-> items[(head + k - 1) % Capacity]]

Abstract == INSTANCE BoundedQueue WITH queue <- Contents, open <- ~closed

(* The ring implements the queue of BoundedQueue, whatever the threads do.  *)
Implements == Abstract!Spec
=============================================================================
