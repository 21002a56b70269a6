---------------------------- MODULE ThreadsProofs ----------------------------
(***************************************************************************)
(* What holds of the small things threads share.  Of the queue of          *)
(* pipeline.c (Fifo), for every capacity and every set of threads: no      *)
(* thread sleeps while there is work for it, and the ring of slots is a    *)
(* bounded queue.  Of a window of --gui (GuiWindows), for every length of  *)
(* its history and however often it is opened, closed and refused a        *)
(* display: it never has two threads, and what it draws is the newest.     *)
(***************************************************************************)
EXTENDS Fifo, GuiWindows, FiniteSetTheorems, TLAPS

(* What is assumed of the capacity.                                         *)
LEMMA CapacityType == Capacity \in Nat /\ Capacity > 0
BY FifoAssumption DEF FifoAssumption

(* An index that has run past the end of the ring once.                     *)
LEMMA ModOnce ==
  ASSUME NEW n \in Nat, n < 2 * Capacity
  PROVE  n % Capacity = IF n < Capacity THEN n ELSE n - Capacity
<1>1. CASE n < Capacity
  BY <1>1, CapacityType
<1>2. CASE ~(n < Capacity)
  BY <1>2, CapacityType
<1> QED BY <1>1, <1>2

(* The step to the next slot.                                               *)
LEMMA NextSlot ==
  ASSUME NEW s \in Slots
  PROVE  (s + 1) % Capacity = IF s + 1 < Capacity THEN s + 1 ELSE 0
BY ModOnce, CapacityType DEF Slots

-----------------------------------------------------------------------------
(* Types: the ring holds at most Capacity items, and tail is where the next *)
(* one goes.                                                                *)

RingTypes ==
  /\ items \in [Slots -> Items \cup {Nothing}]
  /\ head \in Slots /\ tail \in Slots /\ count \in 0 .. Capacity
  /\ closed \in BOOLEAN
  /\ tail = IF head + count < Capacity THEN head + count ELSE head + count - Capacity

ThreadTypes == pc \in [Threads -> Places] /\ arg \in [Threads -> Items]

FifoTypes == RingTypes /\ ThreadTypes

(* The types hold at the start.                                             *)
LEMMA InitTypes == Init => FifoTypes
<1> SUFFICES ASSUME Init PROVE FifoTypes
  OBVIOUS
<1>1. items \in [Slots -> Items \cup {Nothing}]
  BY DEF Init
<1>2. RingTypes
  BY <1>1, CapacityType DEF Init, RingTypes, Slots
<1>3. ThreadTypes
  BY DEF Init, ThreadTypes, Places
<1> QED BY <1>2, <1>3 DEF FifoTypes

(* A push keeps the types,                                                  *)
LEMMA PushTypes ==
  ASSUME FifoTypes, NEW t \in Threads, NEW x \in Items, count # Capacity, PushLocked(t, x)
  PROVE  RingTypes' /\ pc' \in [Threads -> Places]
<1>1. pc' \in [Threads -> Places]
  BY DEF FifoTypes, ThreadTypes, PushLocked, LeaveSignalling, Places
<1>2. count' \in 0 .. Capacity /\ count' = count + 1 /\ closed' = closed /\ head' = head
  BY CapacityType DEF FifoTypes, RingTypes, PushLocked
<1>3. items' \in [Slots -> Items \cup {Nothing}]
  BY DEF FifoTypes, RingTypes, PushLocked
<1>4. tail' = IF tail + 1 < Capacity THEN tail + 1 ELSE 0
  BY NextSlot DEF FifoTypes, RingTypes, PushLocked
<1> QED
  BY <1>1, <1>2, <1>3, <1>4, CapacityType DEF FifoTypes, RingTypes, Slots

(* a pop does,                                                              *)
LEMMA PopTypes ==
  ASSUME FifoTypes, NEW t \in Threads, count # 0, PopLocked(t)
  PROVE  RingTypes' /\ pc' \in [Threads -> Places]
<1>1. pc' \in [Threads -> Places]
  BY DEF FifoTypes, ThreadTypes, PopLocked, LeaveSignalling, Places
<1>2. head' = IF head + 1 < Capacity THEN head + 1 ELSE 0
  BY NextSlot DEF FifoTypes, RingTypes, PopLocked
<1> QED
  BY <1>1, <1>2, CapacityType DEF FifoTypes, RingTypes, PopLocked, Slots

(* and every step.                                                          *)
LEMMA StepTypes == FifoTypes /\ [Next]_vars => FifoTypes'
<1> SUFFICES ASSUME FifoTypes, [Next]_vars PROVE FifoTypes'
  OBVIOUS
<1> USE DEF FifoTypes
<1>1. ASSUME NEW t \in Threads, NEW x \in Items, TryPush(t, x) PROVE FifoTypes'
  BY <1>1, PushTypes
  DEF TryPush, Refuse, Returns, Leave, RingTypes, ThreadTypes, fifo, Places
<1>2. ASSUME NEW t \in Threads, NEW x \in Items, PushWait(t, x) PROVE FifoTypes'
  <2>1. arg' \in [Threads -> Items]
    BY <1>2 DEF PushWait, ThreadTypes
  <2> QED
    BY <1>2, <2>1, PushTypes
    DEF PushWait, Refuse, Returns, Leave, Sleep, RingTypes, ThreadTypes, fifo, Places
<1>3. ASSUME NEW t \in Threads, TryPop(t) PROVE FifoTypes'
  BY <1>3, PopTypes DEF TryPop, Refuse, Returns, Leave, RingTypes, ThreadTypes, fifo, Places
<1>4. ASSUME NEW t \in Threads, PopWait(t) PROVE FifoTypes'
  BY <1>4, PopTypes
  DEF PopWait, Refuse, Returns, Leave, Sleep, RingTypes, ThreadTypes, fifo, Places
<1>5. ASSUME NEW t \in Threads, WakeUnasked(t) PROVE FifoTypes'
  BY <1>5 DEF WakeUnasked, Awake, RingTypes, ThreadTypes, fifo, Places
<1>6. CASE Close
  BY <1>6 DEF Close, Awake, RingTypes, ThreadTypes, Places
<1>7. CASE Clear
  BY <1>7, CapacityType DEF Clear, RingTypes, ThreadTypes, Places, Slots
<1>8. CASE UNCHANGED vars
  BY <1>8 DEF vars, fifo, RingTypes, ThreadTypes
<1> QED
  BY <1>1, <1>2, <1>3, <1>4, <1>5, <1>6, <1>7, <1>8 DEF Next

(* Head, tail and count of rbdvbt_fifo_t stay inside the ring and agree     *)
(* with each other, whatever the threads do: the tail is count slots on     *)
(* from the head.                                                           *)
THEOREM FifoTypeCorrect == Spec => []FifoTypes
BY InitTypes, StepTypes, PTL DEF Spec

-----------------------------------------------------------------------------
(* How many threads are where.                                              *)

(* The threads at a place are finite in number.                             *)
LEMMA Crowd ==
  ASSUME NEW place
  PROVE  IsFiniteSet(At(place)) /\ Cardinality(At(place)) \in Nat
<1>1. IsFiniteSet(Threads)
  BY FifoAssumption DEF FifoAssumption
<1>2. At(place) \in SUBSET Threads
  BY DEF At
<1> QED
  BY <1>1, <1>2, FS_Subset, FS_CardinalityType

(* A thread that comes makes one more,                                      *)
LEMMA CrowdGrows ==
  ASSUME NEW place, NEW t \in Threads, t \notin At(place), At(place)' = At(place) \cup {t}
  PROVE  Cardinality(At(place)') = Cardinality(At(place)) + 1
BY Crowd, FS_AddElement


(* and one that goes at most one less.                                      *)
LEMMA CrowdShrinks ==
  ASSUME NEW place, NEW t, At(place)' = At(place) \ {t}
  PROVE  Cardinality(At(place)') \in Nat /\ Cardinality(At(place)') >= Cardinality(At(place)) - 1
BY Crowd, FS_RemoveElement, FS_CardinalityType

(* A thread that leaves its call, whether it wakes another or not.          *)
LEMMA LeavingMoves ==
  ASSUME pc \in [Threads -> Places], NEW t \in Threads, Leave(t)
  PROVE  \A place \in Places \ {"outside"} : At(place)' = At(place) \ {t}
BY DEF Leave, At

(* A signal takes one other thread off the condition.                       *)
LEMMA SignallingMoves ==
  ASSUME pc \in [Threads -> Places], NEW t \in Threads,
         NEW condition \in {"not_full", "not_empty"}, NEW awake \in {"push", "pop"},
         LeaveSignalling(t, condition, awake), pc[t] # condition,
         At(condition) # {}
  PROVE  \E u \in At(condition) :
           /\ u # t
           /\ At(condition)' = At(condition) \ {u}
           /\ At(awake)' = (At(awake) \ {t}) \cup {u}
           /\ \A place \in Places \ {"outside", condition, awake} : At(place)' = At(place) \ {t}
<1>1. PICK u \in At(condition) : pc' = [pc EXCEPT ![t] = "outside", ![u] = awake]
  BY DEF LeaveSignalling
<1>2. u # t /\ u \in Threads
  BY DEF At
<1> QED
  BY <1>1, <1>2 DEF At

-----------------------------------------------------------------------------
(* No wake-up is lost.                                                      *)

(* A push adds an item and wakes one that waits for it.                     *)
LEMMA PushKeeps ==
  ASSUME FifoTypes, NoneSleepsOnWork, NEW t \in Threads, NEW x \in Items,
         ~closed, count # Capacity, pc[t] \in {"outside", "push"}, PushLocked(t, x)
  PROVE  NoneSleepsOnWork'
<1> USE DEF FifoTypes, ThreadTypes
<1>1. count \in Nat /\ count' = count + 1 /\ ~closed' /\ LeaveSignalling(t, "not_empty", "pop")
  BY CapacityType DEF RingTypes, PushLocked
<1>2. ASSUME At("push")' = At("push") \ {t}, At("not_full")' = At("not_full")
      PROVE  At("not_full")' # {} => ~closed' /\ Capacity - count' <= Cardinality(At("push")')
  <2>1. /\ Cardinality(At("push")') \in Nat
        /\ Cardinality(At("push")') >= Cardinality(At("push")) - 1
    BY <1>2, CrowdShrinks
  <2> QED
    BY <1>1, <1>2, <2>1, Crowd, CapacityType DEF NoneSleepsOnWork
<1>3. t \notin At("not_full") /\ t \notin At("not_empty") /\ t \notin At("pop")
  BY DEF At
<1>4. CASE At("not_empty") = {}
  <2>1. \A place \in Places \ {"outside"} : At(place)' = At(place) \ {t}
    BY <1>1, <1>4, LeavingMoves DEF LeaveSignalling, Leave
  <2> QED
    BY <1>2, <1>3, <1>4, <2>1 DEF NoneSleepsOnWork, Places
<1>5. CASE At("not_empty") # {}
  <2>1. PICK u \in At("not_empty") :
          /\ u # t
          /\ At("pop")' = (At("pop") \ {t}) \cup {u}
          /\ \A place \in Places \ {"outside", "not_empty", "pop"} : At(place)' = At(place) \ {t}
    BY <1>1, <1>3, <1>5, SignallingMoves DEF At
  <2>2. u \in Threads /\ u \notin At("pop") /\ At("pop")' = At("pop") \cup {u}
    BY <1>3, <2>1 DEF At
  <2>3. Cardinality(At("pop")') = Cardinality(At("pop")) + 1
    BY <2>2, CrowdGrows
  <2>4. count' <= Cardinality(At("pop")')
    BY <1>1, <1>5, <2>3, Crowd DEF NoneSleepsOnWork
  <2>5. At("push")' = At("push") \ {t} /\ At("not_full")' = At("not_full")
    BY <1>3, <2>1 DEF Places
  <2> QED
    BY <1>1, <1>2, <2>4, <2>5 DEF NoneSleepsOnWork
<1> QED BY <1>4, <1>5

(* A pop frees a slot and wakes one that waits for it.                      *)
LEMMA PopKeeps ==
  ASSUME FifoTypes, NoneSleepsOnWork, NEW t \in Threads,
         count # 0, pc[t] \in {"outside", "pop"}, PopLocked(t)
  PROVE  NoneSleepsOnWork'
<1> USE DEF FifoTypes, ThreadTypes
<1>1. /\ count \in Nat /\ count' = count - 1 /\ closed' = closed
      /\ LeaveSignalling(t, "not_full", "push")
  BY CapacityType DEF RingTypes, PopLocked
<1>2. ASSUME At("pop")' = At("pop") \ {t}, At("not_empty")' = At("not_empty")
      PROVE  At("not_empty")' # {} => ~closed' /\ count' <= Cardinality(At("pop")')
  <2>1. /\ Cardinality(At("pop")') \in Nat
        /\ Cardinality(At("pop")') >= Cardinality(At("pop")) - 1
    BY <1>2, CrowdShrinks
  <2> QED
    BY <1>1, <1>2, <2>1, Crowd DEF NoneSleepsOnWork
<1>3. t \notin At("not_full") /\ t \notin At("not_empty") /\ t \notin At("push")
  BY DEF At
<1>4. CASE At("not_full") = {}
  <2>1. \A place \in Places \ {"outside"} : At(place)' = At(place) \ {t}
    BY <1>1, <1>4, LeavingMoves DEF LeaveSignalling, Leave
  <2> QED
    BY <1>2, <1>3, <1>4, <2>1 DEF NoneSleepsOnWork, Places
<1>5. CASE At("not_full") # {}
  <2>1. PICK u \in At("not_full") :
          /\ u # t
          /\ At("push")' = (At("push") \ {t}) \cup {u}
          /\ \A place \in Places \ {"outside", "not_full", "push"} : At(place)' = At(place) \ {t}
    BY <1>1, <1>3, <1>5, SignallingMoves DEF At
  <2>2. u \in Threads /\ u \notin At("push") /\ At("push")' = At("push") \cup {u}
    BY <1>3, <2>1 DEF At
  <2>3. Cardinality(At("push")') = Cardinality(At("push")) + 1
    BY <2>2, CrowdGrows
  <2>4. Capacity - count' <= Cardinality(At("push")')
    BY <1>1, <1>5, <2>3, Crowd, CapacityType DEF NoneSleepsOnWork
  <2>5. At("pop")' = At("pop") \ {t} /\ At("not_empty")' = At("not_empty")
    BY <1>3, <2>1 DEF Places
  <2> QED
    BY <1>1, <1>2, <1>5, <2>4, <2>5 DEF NoneSleepsOnWork
<1> QED BY <1>4, <1>5

(* A call that is refused: nobody is signalled, for nothing has changed.    *)
LEMMA RefuseKeeps ==
  ASSUME FifoTypes, NoneSleepsOnWork, NEW t \in Threads, Leave(t), UNCHANGED fifo,
         \/ pc[t] = "outside"
         \/ pc[t] = "push" /\ closed
         \/ pc[t] = "pop" /\ closed
  PROVE  NoneSleepsOnWork'
<1> USE DEF FifoTypes, ThreadTypes
<1>1. \A place \in Places \ {"outside"} : At(place)' = At(place) \ {t}
  BY LeavingMoves
<1>2. count' = count /\ closed' = closed
  BY DEF fifo
<1>3. CASE closed
  BY <1>1, <1>2, <1>3 DEF NoneSleepsOnWork, Places
<1>4. CASE pc[t] = "outside"
  <2>1. \A place \in Places \ {"outside"} : t \notin At(place)
    BY <1>4 DEF At
  <2>2. \A place \in Places \ {"outside"} : At(place)' = At(place)
    BY <1>1, <2>1
  <2> QED
    BY <1>2, <2>2 DEF NoneSleepsOnWork, Places
<1> QED BY <1>3, <1>4

(* A thread that goes to sleep leaves nothing to do for the others asleep.  *)
LEMMA SleepKeeps ==
  ASSUME FifoTypes, NoneSleepsOnWork, NEW t \in Threads, ~closed,
         \/ pc[t] \in {"outside", "push"} /\ count = Capacity /\ Sleep(t, "not_full")
         \/ pc[t] \in {"outside", "pop"} /\ count = 0 /\ Sleep(t, "not_empty")
  PROVE  NoneSleepsOnWork'
<1> USE DEF FifoTypes, ThreadTypes
<1>1. count' = count /\ closed' = closed /\ count \in Nat
  BY CapacityType DEF Sleep, fifo, RingTypes
<1>2. CASE pc[t] \in {"outside", "push"} /\ count = Capacity /\ Sleep(t, "not_full")
  <2>1. At("pop")' = At("pop") /\ At("not_empty")' = At("not_empty")
    BY <1>2 DEF Sleep, At
  <2>2. Cardinality(At("push")') >= 0
    BY <1>2, Crowd, FifoAssumption, FS_Subset, FS_CardinalityType DEF At, FifoAssumption
  <2> QED
    BY <1>1, <1>2, <2>1, <2>2, CapacityType DEF NoneSleepsOnWork
<1>3. CASE pc[t] \in {"outside", "pop"} /\ count = 0 /\ Sleep(t, "not_empty")
  <2>1. At("push")' = At("push") /\ At("not_full")' = At("not_full")
    BY <1>3 DEF Sleep, At
  <2>2. Cardinality(At("pop")') >= 0
    BY <1>3, Crowd, FifoAssumption, FS_Subset, FS_CardinalityType DEF At, FifoAssumption
  <2> QED
    BY <1>1, <1>3, <2>1, <2>2 DEF NoneSleepsOnWork
<1> QED BY <1>2, <1>3

(* A thread that wakes unasked is on its way itself.                        *)
LEMMA WakeKeeps ==
  ASSUME FifoTypes, NoneSleepsOnWork, NEW t \in Threads, WakeUnasked(t)
  PROVE  NoneSleepsOnWork'
<1> USE DEF FifoTypes, ThreadTypes
<1>1. count' = count /\ closed' = closed /\ count \in Nat /\ Capacity - count \in Nat
  BY CapacityType DEF WakeUnasked, fifo, RingTypes
<1>2. CASE pc[t] = "not_full"
  <2>1. pc' = [pc EXCEPT ![t] = "push"]
    BY <1>2 DEF WakeUnasked, Awake
  <2>2. /\ At("pop")' = At("pop") /\ At("not_empty")' = At("not_empty")
        /\ At("push")' = At("push") \cup {t} /\ t \notin At("push")
        /\ At("not_full") # {}
    BY <1>2, <2>1 DEF At
  <2>3. Cardinality(At("push")') = Cardinality(At("push")) + 1
    BY <2>2, CrowdGrows
  <2> QED
    BY <1>1, <2>2, <2>3, Crowd, CapacityType DEF NoneSleepsOnWork
<1>3. CASE pc[t] = "not_empty"
  <2>1. pc' = [pc EXCEPT ![t] = "pop"]
    BY <1>3 DEF WakeUnasked, Awake
  <2>2. /\ At("push")' = At("push") /\ At("not_full")' = At("not_full")
        /\ At("pop")' = At("pop") \cup {t} /\ t \in Threads /\ t \notin At("pop")
        /\ At("not_empty") # {}
    BY <1>3, <2>1 DEF At
  <2>3. Cardinality(At("pop")') = Cardinality(At("pop")) + 1
    BY <2>2, CrowdGrows
  <2> QED
    BY <1>1, <2>2, <2>3, Crowd DEF NoneSleepsOnWork
<1> QED BY <1>2, <1>3 DEF WakeUnasked

(* Closing leaves nobody asleep.                                            *)
LEMMA CloseKeeps == FifoTypes /\ NoneSleepsOnWork /\ Close => NoneSleepsOnWork'
<1> SUFFICES ASSUME FifoTypes, Close PROVE NoneSleepsOnWork'
  OBVIOUS
<1>1. \A t \in Threads : pc'[t] # "not_full" /\ pc'[t] # "not_empty"
  BY DEF Close, Awake, FifoTypes, ThreadTypes
<1>2. At("not_full")' = {} /\ At("not_empty")' = {}
  BY <1>1 DEF At
<1> QED BY <1>2 DEF NoneSleepsOnWork

(* Clearing frees slots and wakes all that wait for one.                    *)
LEMMA ClearKeeps == FifoTypes /\ NoneSleepsOnWork /\ Clear => NoneSleepsOnWork'
<1> SUFFICES ASSUME FifoTypes, NoneSleepsOnWork, Clear PROVE NoneSleepsOnWork'
  OBVIOUS
<1>1. At("not_full")' = {} /\ At("not_empty")' = At("not_empty") /\ At("pop")' = At("pop")
  BY DEF Clear, At, FifoTypes, ThreadTypes
<1>2. count' = 0 /\ closed' = closed
  BY DEF Clear
<1> QED BY <1>1, <1>2, Crowd DEF NoneSleepsOnWork

(* All steps together.                                                      *)
LEMMA StepKeeps == FifoTypes /\ NoneSleepsOnWork /\ [Next]_vars => NoneSleepsOnWork'
<1> SUFFICES ASSUME FifoTypes, NoneSleepsOnWork, [Next]_vars PROVE NoneSleepsOnWork'
  OBVIOUS
<1>1. ASSUME NEW t \in Threads, NEW x \in Items, TryPush(t, x) PROVE NoneSleepsOnWork'
  BY <1>1, PushKeeps, RefuseKeeps DEF TryPush, Refuse
<1>2. ASSUME NEW t \in Threads, NEW x \in Items, PushWait(t, x) PROVE NoneSleepsOnWork'
  BY <1>2, PushKeeps, RefuseKeeps, SleepKeeps DEF PushWait, Refuse
<1>3. ASSUME NEW t \in Threads, TryPop(t) PROVE NoneSleepsOnWork'
  BY <1>3, PopKeeps, RefuseKeeps DEF TryPop, Refuse
<1>4. ASSUME NEW t \in Threads, PopWait(t) PROVE NoneSleepsOnWork'
  BY <1>4, PopKeeps, RefuseKeeps, SleepKeeps DEF PopWait, Refuse
<1>5. ASSUME NEW t \in Threads, WakeUnasked(t) PROVE NoneSleepsOnWork'
  BY <1>5, WakeKeeps
<1>6. CASE Close
  BY <1>6, CloseKeeps
<1>7. CASE Clear
  BY <1>7, ClearKeeps
<1>8. CASE UNCHANGED vars
  BY <1>8 DEF vars, fifo, NoneSleepsOnWork, At
<1> QED
  BY <1>1, <1>2, <1>3, <1>4, <1>5, <1>6, <1>7, <1>8 DEF Next

(* No wake-up of pipeline.c is lost, for any number of threads: while one   *)
(* sleeps, others are on their way for all there is to do.                  *)
THEOREM NoWakeUpLost == Spec => []NoneSleepsOnWork
<1>1. Init => NoneSleepsOnWork
  BY DEF Init, NoneSleepsOnWork, At
<1> QED
  BY <1>1, FifoTypeCorrect, StepKeeps, PTL DEF Spec

-----------------------------------------------------------------------------
(* The ring is the queue of BoundedQueue.                                   *)

Values == Items \cup {Nothing}

(* A function on 1 .. n is a sequence of length n.                          *)
LEMMA FunctionIsSequence ==
  ASSUME NEW S, NEW n \in Nat, NEW f \in [1 .. n -> S]
  PROVE  f \in Seq(S) /\ Len(f) = n
OBVIOUS

(* Sequences of the same length with the same elements are equal.           *)
LEMMA SequencesEqual ==
  ASSUME NEW S, NEW a \in Seq(S), NEW b \in Seq(S), Len(a) = Len(b),
         \A k \in 1 .. Len(a) : a[k] = b[k]
  PROVE  a = b
OBVIOUS

(* The slots from the head on, as a sequence.                               *)
LEMMA ContentsAreASequence ==
  ASSUME FifoTypes
  PROVE  /\ Contents \in Seq(Values) /\ Len(Contents) = count
         /\ \A k \in 1 .. count : Contents[k] = items[(head + k - 1) % Capacity]
<1>1. count \in Nat /\ head \in Nat /\ items \in [Slots -> Values]
  BY CapacityType DEF FifoTypes, RingTypes, Slots, Values
<1>2. \A k \in 1 .. count : (head + k - 1) % Capacity \in Slots
  BY <1>1, CapacityType DEF Slots
<1>3. Contents \in [1 .. count -> Values]
  BY <1>1, <1>2 DEF Contents
<1>4. Contents \in Seq(Values) /\ Len(Contents) = count
  BY <1>1, <1>3, FunctionIsSequence
<1>5. \A k \in 1 .. count : Contents[k] = items[(head + k - 1) % Capacity]
  BY DEF Contents
<1> QED
  BY <1>4, <1>5

(* A push appends to it,                                                    *)
LEMMA PushAppends ==
  ASSUME FifoTypes, FifoTypes', NEW t \in Threads, NEW x \in Items,
         count # Capacity, PushLocked(t, x)
  PROVE  Contents' = Append(Contents, x)
<1>1. /\ count \in Nat /\ count < Capacity /\ count' = count + 1
      /\ head \in Slots /\ head' = head
      /\ items \in [Slots -> Values] /\ items' = [items EXCEPT ![tail] = x]
      /\ tail = (head + count) % Capacity /\ tail \in Slots
  BY ModOnce, CapacityType DEF PushLocked, FifoTypes, RingTypes, Slots, Values
<1>2. /\ Contents' \in Seq(Values) /\ Len(Contents') = count + 1
      /\ \A k \in 1 .. count + 1 : Contents'[k] = items'[(head + k - 1) % Capacity]
  <2>1. Contents' = [k \in 1 .. count + 1 |-> items'[(head + k - 1) % Capacity]]
    BY <1>1 DEF Contents
  <2>2. \A k \in 1 .. count + 1 : items'[(head + k - 1) % Capacity] \in Values
    BY <1>1, CapacityType DEF Slots, Values
  <2>3. Contents' \in [1 .. count + 1 -> Values]
    BY <2>1, <2>2
  <2> QED
    BY <1>1, <2>1, <2>3, FunctionIsSequence
<1>3. Append(Contents, x) \in Seq(Values) /\ Len(Append(Contents, x)) = count + 1
  BY <1>1, ContentsAreASequence DEF Values
<1>4. ASSUME NEW k \in 1 .. count + 1 PROVE Contents'[k] = Append(Contents, x)[k]
  <2>1. CASE k = count + 1
    BY <1>1, <1>2, <2>1, ContentsAreASequence, CapacityType DEF Slots
  <2>2. CASE k # count + 1
    <3>1. k \in 1 .. count /\ head + k - 1 \in Nat /\ head + k - 1 < 2 * Capacity
      BY <1>1, <2>2, CapacityType DEF Slots
    <3>2. (head + k - 1) % Capacity # tail /\ (head + k - 1) % Capacity \in Slots
      BY <1>1, <3>1, ModOnce, CapacityType DEF FifoTypes, RingTypes, Slots
    <3>3. Contents'[k] = items[(head + k - 1) % Capacity]
      BY <1>1, <1>2, <3>2
    <3> QED
      BY <1>1, <3>1, <3>3, ContentsAreASequence
  <2> QED BY <2>1, <2>2
<1> QED
  BY <1>1, <1>2, <1>3, <1>4

(* and a pop takes its head.                                                *)
LEMMA PopTakes ==
  ASSUME FifoTypes, NEW t \in Threads, count # 0, PopLocked(t)
  PROVE  Contents # <<>> /\ items[head] = Head(Contents) /\ Contents' = Tail(Contents)
<1>1. /\ count \in Nat /\ count > 0 /\ count' = count - 1
      /\ head \in Slots /\ head' = IF head + 1 < Capacity THEN head + 1 ELSE 0
      /\ items' = items
  BY NextSlot, CapacityType DEF PopLocked, FifoTypes, RingTypes
<1>2. Contents # <<>> /\ Head(Contents) = items[head]
  BY <1>1, ContentsAreASequence, CapacityType DEF Slots
<1>3. /\ Tail(Contents) \in Seq(Values) /\ Len(Tail(Contents)) = count - 1
      /\ \A k \in 1 .. count - 1 : Tail(Contents)[k] = Contents[k + 1]
  BY <1>1, ContentsAreASequence
<1>4. ASSUME NEW k \in 1 .. count - 1
      PROVE  /\ items[(head' + k - 1) % Capacity] = Contents[k + 1]
             /\ Contents[k + 1] \in Values
  <2>1. Contents[k + 1] = items[(head + k) % Capacity]
    BY <1>1, ContentsAreASequence DEF Slots
  <2>2. (head' + k - 1) % Capacity = (head + k) % Capacity
    BY <1>1, ModOnce, CapacityType DEF FifoTypes, RingTypes, Slots
  <2>3. Contents[k + 1] \in Values
    BY <1>1, ContentsAreASequence
  <2> QED
    BY <2>1, <2>2, <2>3
<1>5. Contents' = [k \in 1 .. count - 1 |-> items[(head' + k - 1) % Capacity]]
  BY <1>1 DEF Contents
<1>6. Contents' \in [1 .. count - 1 -> Values]
  BY <1>4, <1>5
<1>7. Contents' \in Seq(Values) /\ Len(Contents') = count - 1
  BY <1>1, <1>6, FunctionIsSequence
<1> QED
  BY <1>2, <1>3, <1>4, <1>5, <1>7, SequencesEqual

-----------------------------------------------------------------------------
(* Each operation of the ring is one of the queue.                          *)

(* The queue begins empty and open.                                         *)
LEMMA InitIsInit == FifoTypes /\ Init => Abstract!Init
<1> SUFFICES ASSUME FifoTypes, Init PROVE Abstract!Init
  OBVIOUS
<1>1. Contents = <<>>
  BY ContentsAreASequence DEF Init
<1> QED
  BY <1>1 DEF Init, Abstract!Init

(* A push into the ring is one into the queue,                              *)
LEMMA PushIsPush ==
  ASSUME FifoTypes, FifoTypes', NEW t \in Threads, NEW x \in Items,
         ~closed, count # Capacity, PushLocked(t, x)
  PROVE  Abstract!Push(x)
<1>1. Len(Contents) < Capacity
  BY ContentsAreASequence, CapacityType DEF FifoTypes, RingTypes
<1>2. Contents' = Append(Contents, x)
  BY PushAppends
<1> QED
  BY <1>1, <1>2 DEF PushLocked, Returns, Abstract!Push, Abstract!Returns

(* a pop is a pop,                                                          *)
LEMMA PopIsPop ==
  ASSUME FifoTypes, NEW t \in Threads, count # 0, PopLocked(t)
  PROVE  Abstract!Pop
BY PopTakes DEF PopLocked, Returns, Abstract!Pop, Abstract!Returns

(* and a refusal is refused by the queue.                                   *)
LEMMA RefusalIsRefusal ==
  ASSUME FifoTypes, NEW t \in Threads,
         \/ closed /\ Refuse(t, "push", -1)
         \/ ~closed /\ count = Capacity /\ Refuse(t, "push", 1)
         \/ count = 0 /\ Refuse(t, "pop", 1)
  PROVE  Abstract!PushClosed \/ Abstract!PushFull \/ Abstract!PopEmpty
<1>1. Contents' = Contents /\ closed' = closed
  BY DEF Refuse, fifo, Contents
<1>2. Len(Contents) = count /\ (count = 0 => Contents = <<>>)
  BY ContentsAreASequence
<1> QED
  BY <1>1, <1>2
  DEF Refuse, Returns, Abstract!PushClosed, Abstract!PushFull, Abstract!PopEmpty, Abstract!Returns

(* What touches neither ring nor flag leaves the queue alone.               *)
LEMMA NothingIsNothing ==
  ASSUME UNCHANGED <<fifo, last>>
  PROVE  UNCHANGED Abstract!queueVars
BY DEF fifo, Contents, Abstract!queueVars

(* All steps together.                                                      *)
LEMMA StepImplements == FifoTypes /\ FifoTypes' /\ [Next]_vars => [Abstract!Next]_(Abstract!queueVars)
<1> SUFFICES ASSUME FifoTypes, FifoTypes', [Next]_vars
             PROVE  Abstract!Next \/ UNCHANGED Abstract!queueVars
  OBVIOUS
<1>1. ASSUME NEW t \in Threads, NEW x \in Items, TryPush(t, x) \/ PushWait(t, x)
      PROVE  Abstract!Next \/ UNCHANGED Abstract!queueVars
  <2>1. CASE closed /\ Refuse(t, "push", -1)
    BY <2>1, RefusalIsRefusal DEF Abstract!Next
  <2>2. CASE ~closed /\ count = Capacity /\ Refuse(t, "push", 1)
    BY <2>2, RefusalIsRefusal DEF Abstract!Next
  <2>3. CASE ~closed /\ count # Capacity /\ PushLocked(t, x)
    BY <2>3, PushIsPush DEF Abstract!Next
  <2>4. CASE Sleep(t, "not_full")
    BY <2>4, NothingIsNothing DEF Sleep
  <2> QED
    BY <1>1, <2>1, <2>2, <2>3, <2>4 DEF TryPush, PushWait
<1>2. ASSUME NEW t \in Threads, TryPop(t) \/ PopWait(t)
      PROVE  Abstract!Next \/ UNCHANGED Abstract!queueVars
  <2>1. CASE count = 0 /\ Refuse(t, "pop", 1)
    BY <2>1, RefusalIsRefusal DEF Abstract!Next
  <2>2. CASE count # 0 /\ PopLocked(t)
    BY <2>2, PopIsPop DEF Abstract!Next
  <2>3. CASE Sleep(t, "not_empty")
    BY <2>3, NothingIsNothing DEF Sleep
  <2> QED
    BY <1>2, <2>1, <2>2, <2>3 DEF TryPop, PopWait
<1>3. ASSUME NEW t \in Threads, WakeUnasked(t) PROVE UNCHANGED Abstract!queueVars
  BY <1>3, NothingIsNothing DEF WakeUnasked
<1>4. CASE Close
  <2>1. Contents' = Contents
    BY <1>4 DEF Close, Contents
  <2> QED
    BY <1>4, <2>1 DEF Close, Abstract!Close, Abstract!Next
<1>5. CASE Clear
  <2>1. Contents' = <<>>
    <3>1. Contents' = [k \in 1 .. 0 |-> items'[(head' + k - 1) % Capacity]]
      BY <1>5 DEF Clear, Contents
    <3> QED
      BY <3>1
  <2> QED
    BY <1>5, <2>1 DEF Clear, Abstract!Clear, Abstract!Next
<1>6. CASE UNCHANGED vars
  BY <1>6, NothingIsNothing DEF vars
<1> QED
  BY <1>1, <1>2, <1>3, <1>4, <1>5, <1>6 DEF Next

(* The ring under its mutex implements the queue of BoundedQueue, for any   *)
(* capacity and any number of threads: whatever interleaves, wraps, sleeps, *)
(* closes or clears, no item is lost, doubled or overtaken, and every call  *)
(* returns what the queue says.                                             *)
THEOREM RingImplementsQueue == Spec => Implements
<1>1. Init => Abstract!Init
  BY InitTypes, InitIsInit
<1> QED
  BY <1>1, FifoTypeCorrect, StepImplements, PTL DEF Spec, Implements, Abstract!Spec

-----------------------------------------------------------------------------
(* The windows of --gui.                                                    *)

(* What is assumed of the constants of the windows.                         *)
LEMMA BoundTypes ==
  /\ HistoryPoints \in Nat /\ HistoryPoints > 0
  /\ MaxStarts \in Nat /\ MaxSubmits \in Nat
BY GuiAssumption DEF GuiAssumption

PainterPlaces == {"none", "open", "wait", "events", "check", "leave", "gone"}

FlagTypes ==
  /\ kind \in Kinds
  /\ enabled \in BOOLEAN /\ started \in BOOLEAN /\ stop \in BOOLEAN /\ updated \in BOOLEAN

ContentTypes ==
  /\ submits \in Nat /\ submitted \in Seq(Nat)
  /\ ring \in [HistorySlots -> Nat] /\ rhead \in HistorySlots /\ rcount \in 0..HistoryPoints

PainterTypes == at \in [Painters -> PainterPlaces] /\ DOMAIN copied = Painters

GuiTypes == FlagTypes /\ ContentTypes /\ PainterTypes

(* The thread of the window, if it has one.                                 *)
Paints(t) == at[t] \notin {"none", "gone"}

OnePainter ==
  /\ \A t, u \in Painters : Paints(t) /\ Paints(u) => t = u
  /\ started <=> \E t \in Painters : Paints(t)

(* The slot of the history where the a-th newest is.                        *)
Slot(h, a) == IF h >= a THEN h - a ELSE h + HistoryPoints - a

RingKept ==
  kind = "fifo" =>
    /\ rcount = IF Len(submitted) < HistoryPoints THEN Len(submitted) ELSE HistoryPoints
    /\ \A a \in 1..rcount : ring[Slot(rhead, a)] = submitted[Len(submitted) + 1 - a]

LatestKept ==
  kind # "fifo" => latest = IF submitted = <<>> THEN <<>> ELSE <<submitted[Len(submitted)]>>

(* A thread that is told of nothing new has drawn all there is, or has yet  *)
(* to open a window there is nothing to draw in.                            *)
Shown ==
  ~updated => \A t \in Painters : Paints(t) =>
    IF at[t] = "open" THEN kind # "fifo" /\ submitted = <<>>
                      ELSE copied[t] \in {Newest, NoMemory}

GuiInv == GuiTypes /\ OnePainter /\ RingKept /\ LatestKept /\ Shown

-----------------------------------------------------------------------------
(* The ring.                                                                *)

(* The head of the history goes round.                                      *)
LEMMA NextHead ==
  ASSUME NEW h \in HistorySlots
  PROVE  (h + 1) % HistoryPoints = IF h + 1 < HistoryPoints THEN h + 1 ELSE 0
<1>1. CASE h + 1 < HistoryPoints
  BY <1>1, BoundTypes DEF HistorySlots
<1>2. CASE h + 1 = HistoryPoints
  BY <1>2, BoundTypes DEF HistorySlots
<1> QED BY <1>1, <1>2, BoundTypes DEF HistorySlots

(* The slot written so many submissions ago.                                *)
LEMMA SlotOf ==
  ASSUME NEW h \in HistorySlots, NEW a \in 1..HistoryPoints
  PROVE  /\ Slot(h, a) \in HistorySlots
         /\ (h + HistoryPoints - a) % HistoryPoints = Slot(h, a)
<1>1. CASE h >= a
  <2>1. (h + HistoryPoints - a) = (h - a) + HistoryPoints /\ h - a \in 0..(HistoryPoints - 1)
    BY <1>1, BoundTypes DEF HistorySlots
  <2>2. ((h - a) + HistoryPoints) % HistoryPoints = h - a
    BY <2>1, BoundTypes
  <2> QED BY <1>1, <2>1, <2>2 DEF Slot, HistorySlots
<1>2. CASE h < a
  <2>1. h + HistoryPoints - a \in 0..(HistoryPoints - 1)
    BY <1>2, BoundTypes DEF HistorySlots
  <2>2. (h + HistoryPoints - a) % HistoryPoints = h + HistoryPoints - a
    BY <2>1, BoundTypes
  <2> QED BY <1>2, <2>1, <2>2, BoundTypes DEF Slot, HistorySlots
<1> QED BY <1>1, <1>2, BoundTypes DEF HistorySlots

(* One more is put where the ring's head was, and all others age by one.    *)
LEMMA SlotAges ==
  ASSUME NEW h \in HistorySlots, NEW a \in 1..HistoryPoints
  PROVE  LET next == (h + 1) % HistoryPoints
         IN  /\ next \in HistorySlots
             /\ IF a = 1 THEN Slot(next, a) = h
                ELSE Slot(next, a) = Slot(h, a - 1) /\ Slot(h, a - 1) # h
BY NextHead, BoundTypes DEF Slot, HistorySlots

(* The history, read from the oldest on, is the newest that was handed over.*)
LEMMA HistoryIsNewest ==
  ASSUME GuiTypes, RingKept, kind = "fifo"
  PROVE  History = Newest
<1>1. /\ Len(submitted) \in Nat /\ rcount \in 0..HistoryPoints /\ rcount <= Len(submitted)
      /\ rhead \in HistorySlots
  BY BoundTypes DEF GuiTypes, ContentTypes, RingKept
<1>2. Newest = [i \in 1..rcount |-> submitted[i + (Len(submitted) - rcount + 1) - 1]]
  BY <1>1 DEF Newest, GuiTypes, ContentTypes
<1>3. ASSUME NEW i \in 1..rcount
      PROVE  ring[(rhead + HistoryPoints - rcount + i - 1) % HistoryPoints]
               = submitted[i + (Len(submitted) - rcount + 1) - 1]
  <2> DEFINE a == rcount + 1 - i
  <2>1. a \in 1..rcount /\ a \in 1..HistoryPoints
    BY <1>1, BoundTypes
  <2>2. /\ rhead + HistoryPoints - rcount + i - 1 = rhead + HistoryPoints - a
        /\ i + (Len(submitted) - rcount + 1) - 1 = Len(submitted) + 1 - a
    BY <1>1, BoundTypes DEF HistorySlots
  <2>3. ring[Slot(rhead, a)] = submitted[Len(submitted) + 1 - a]
    BY <2>1 DEF RingKept
  <2> HIDE DEF a
  <2>4. (rhead + HistoryPoints - a) % HistoryPoints = Slot(rhead, a)
    BY <1>1, <2>1, SlotOf
  <2> QED BY <2>2, <2>3, <2>4
<1> QED BY <1>2, <1>3 DEF History

-----------------------------------------------------------------------------
(* The steps.                                                               *)

(* The invariant holds at the start.                                        *)
LEMMA GuiInvInit == GuiInit => GuiInv
<1> SUFFICES ASSUME GuiInit PROVE GuiInv
  OBVIOUS
<1>1. GuiTypes
  BY BoundTypes
     DEF GuiInit, GuiTypes, FlagTypes, ContentTypes, PainterTypes, HistorySlots, PainterPlaces
<1>2. OnePainter /\ Shown
  BY DEF GuiInit, OnePainter, Shown, Paints
<1>3. RingKept /\ LatestKept
  BY BoundTypes DEF GuiInit, RingKept, LatestKept
<1> QED BY <1>1, <1>2, <1>3 DEF GuiInv

(* An emptied window has nothing to show, and nothing is shown.             *)
LEMMA EmptiedKeeps ==
  ASSUME GuiInv, Emptied, UNCHANGED kind
  PROVE  ContentTypes' /\ RingKept' /\ LatestKept'
<1>1. ContentTypes'
  BY BoundTypes DEF GuiInv, GuiTypes, ContentTypes, Emptied, HistorySlots
<1>2. RingKept' /\ LatestKept'
  BY BoundTypes DEF Emptied, RingKept, LatestKept
<1> QED BY <1>1, <1>2

(* A window is started only when the flags say that it has no thread.       *)
LEMMA StartKeeps ==
  ASSUME GuiInv, Start
  PROVE  GuiInv'
<1>1. PICK t \in Painters : at[t] = "none" /\ at' = [at EXCEPT ![t] = "open"]
  BY DEF Start
<1>2. /\ ~started /\ UNCHANGED <<kind, copied>> /\ updated' = (kind = "fifo") /\ stop' = FALSE
      /\ enabled' = TRUE /\ started' = TRUE /\ submitted' = <<>> /\ Emptied
  BY DEF Start, MayStart, Emptied
<1>3. FlagTypes'
  BY <1>2 DEF GuiInv, GuiTypes, FlagTypes
<1>4. PainterTypes'
  BY <1>1, <1>2 DEF GuiInv, GuiTypes, PainterTypes, PainterPlaces
<1>5. \A u \in Painters : ~Paints(u) /\ (at'[u] = IF u = t THEN "open" ELSE at[u])
  BY <1>1, <1>2 DEF GuiInv, GuiTypes, PainterTypes, OnePainter
<1>6. OnePainter'
  BY <1>2, <1>5 DEF OnePainter, Paints
<1>7. Shown'
  BY <1>2, <1>5 DEF Shown, Paints
<1> QED BY <1>2, <1>3, <1>4, <1>6, <1>7, EmptiedKeeps DEF GuiInv, GuiTypes

(* When no thread can be had the window stays without one.                  *)
LEMMA StartFailsKeeps ==
  ASSUME GuiInv, StartFails
  PROVE  GuiInv'
<1>1. /\ ~started /\ UNCHANGED <<kind, enabled, started, at, copied>> /\ Emptied
      /\ updated' = (kind = "fifo") /\ stop' = FALSE
  BY DEF StartFails, MayStart
<1>2. FlagTypes' /\ PainterTypes' /\ OnePainter'
  BY <1>1 DEF GuiInv, GuiTypes, FlagTypes, PainterTypes, OnePainter, Paints
<1>3. Shown'
  BY <1>1 DEF GuiInv, OnePainter, Shown, Paints
<1> QED BY <1>1, <1>2, <1>3, EmptiedKeeps DEF GuiInv, GuiTypes

(* A depth goes to the head of the history.                                 *)
LEMMA SubmitDepthKeeps ==
  ASSUME GuiInv, SubmitDepth
  PROVE  GuiInv'
<1>1. /\ kind = "fifo" /\ UNCHANGED <<kind, enabled, started, stop, latest, at, copied>>
      /\ updated' = TRUE
  BY DEF SubmitDepth
<1>2. /\ submits \in Nat /\ submitted \in Seq(Nat) /\ ring \in [HistorySlots -> Nat]
      /\ rhead \in HistorySlots /\ rcount \in 0..HistoryPoints /\ Len(submitted) \in Nat
  BY DEF GuiInv, GuiTypes, ContentTypes
<1>3. /\ submits' = submits + 1 /\ submitted' = Append(submitted, submits')
      /\ ring' = [ring EXCEPT ![rhead] = submits'] /\ rhead' = (rhead + 1) % HistoryPoints
      /\ rcount' = IF rcount < HistoryPoints THEN rcount + 1 ELSE rcount
  BY DEF SubmitDepth, Numbered
<1>4. FlagTypes' /\ PainterTypes' /\ OnePainter' /\ Shown' /\ LatestKept'
  BY <1>1 DEF GuiInv, GuiTypes, FlagTypes, PainterTypes, OnePainter, Paints, Shown, LatestKept
<1>5. rhead' \in HistorySlots
  BY <1>2, <1>3, NextHead, BoundTypes DEF HistorySlots
<1>6. ContentTypes'
  BY <1>2, <1>3, <1>5, BoundTypes DEF ContentTypes
<1>7. /\ Len(submitted') = Len(submitted) + 1 /\ submitted'[Len(submitted) + 1] = submits'
      /\ \A i \in 1..Len(submitted) : submitted'[i] = submitted[i]
  BY <1>2, <1>3
<1>8. /\ rcount = IF Len(submitted) < HistoryPoints THEN Len(submitted) ELSE HistoryPoints
      /\ \A a \in 1..rcount : ring[Slot(rhead, a)] = submitted[Len(submitted) + 1 - a]
  BY <1>1 DEF GuiInv, RingKept
<1>9. rcount' = IF Len(submitted') < HistoryPoints THEN Len(submitted') ELSE HistoryPoints
  BY <1>2, <1>3, <1>7, <1>8, BoundTypes
<1>10. ASSUME NEW a \in 1..rcount'
       PROVE  ring'[Slot(rhead', a)] = submitted'[Len(submitted') + 1 - a]
  <2>1. a \in 1..HistoryPoints /\ a \in 1..(rcount + 1)
    BY <1>2, <1>3, BoundTypes
  <2>2. IF a = 1 THEN Slot(rhead', a) = rhead
                 ELSE Slot(rhead', a) = Slot(rhead, a - 1) /\ Slot(rhead, a - 1) # rhead
    BY <1>2, <1>3, <2>1, SlotAges
  <2>3. CASE a = 1
    <3>1. Len(submitted') + 1 - a = Len(submitted) + 1
      BY <1>2, <1>7, <2>3
    <3> QED BY <1>2, <1>3, <1>7, <2>2, <2>3, <3>1
  <2>4. CASE a # 1
    <3> DEFINE b == a - 1
    <3>1. b \in 1..rcount /\ b \in 1..HistoryPoints
      BY <1>2, <2>1, <2>4, BoundTypes
    <3>2. /\ Len(submitted') + 1 - a = Len(submitted) + 1 - b
          /\ Len(submitted) + 1 - b \in 1..Len(submitted)
      BY <1>2, <1>7, <1>8, <3>1, BoundTypes
    <3>3. ring[Slot(rhead, b)] = submitted[Len(submitted) + 1 - b]
      BY <1>8, <3>1
    <3>4. Slot(rhead', a) = Slot(rhead, b) /\ Slot(rhead, b) # rhead
      BY <2>2, <2>4
    <3> HIDE DEF b
    <3>5. Slot(rhead, b) \in HistorySlots
      BY <1>2, <3>1, SlotOf
    <3>6. ring'[Slot(rhead, b)] = ring[Slot(rhead, b)]
      BY <1>2, <1>3, <3>4, <3>5
    <3> QED BY <1>7, <3>2, <3>3, <3>4, <3>6
  <2> QED BY <2>3, <2>4
<1>11. RingKept'
  BY <1>9, <1>10 DEF RingKept
<1> QED BY <1>4, <1>6, <1>11 DEF GuiInv, GuiTypes

(* Points replace those of before.                                          *)
LEMMA SubmitPointsKeeps ==
  ASSUME GuiInv, SubmitPoints
  PROVE  GuiInv'
<1>1. /\ kind # "fifo" /\ UNCHANGED <<kind, enabled, started, stop, at, copied>>
      /\ UNCHANGED <<ring, rhead, rcount>> /\ updated' = TRUE
      /\ submits' = submits + 1 /\ submitted' = Append(submitted, submits')
      /\ latest' = <<submits'>>
  BY DEF SubmitPoints, Numbered
<1>2. FlagTypes' /\ PainterTypes' /\ OnePainter' /\ Shown' /\ RingKept'
  BY <1>1 DEF GuiInv, GuiTypes, FlagTypes, PainterTypes, OnePainter, Paints, Shown, RingKept
<1>3. submits' \in Nat /\ submitted \in Seq(Nat)
  BY <1>1 DEF GuiInv, GuiTypes, ContentTypes
<1>4. ContentTypes'
  BY <1>1, <1>3 DEF GuiInv, GuiTypes, ContentTypes
<1>5. LatestKept'
  <2>1. submitted' # <<>> /\ submitted'[Len(submitted')] = submits'
    BY <1>1, <1>3
  <2> QED BY <1>1, <2>1 DEF LatestKept
<1> QED BY <1>2, <1>4, <1>5 DEF GuiInv, GuiTypes

(* Steps of the window's thread.                                            *)
LEMMA PainterKeeps ==
  ASSUME GuiInv, NEW t \in Painters,
         \/ Open(t) \/ OpenFails(t) \/ Look(t) \/ LookStopped(t)
         \/ NoClose(t) \/ UserCloses(t) \/ Draw(t) \/ PainterEnds(t)
  PROVE  GuiInv'
<1> USE DEF PainterGoes
<1>0. GuiTypes /\ OnePainter /\ RingKept /\ LatestKept /\ Shown
  BY DEF GuiInv
<1>1. UNCHANGED <<kind, content>> /\ Paints(t)
  BY DEF Open, OpenFails, Look, LookStopped, NoClose, UserCloses, Draw, PainterEnds, Paints
<1>2. PICK to \in PainterPlaces \ {"none", "open"} : at' = [at EXCEPT ![t] = to]
  BY DEF Open, OpenFails, Look, LookStopped, NoClose, UserCloses, Draw, PainterEnds, PainterPlaces
<1>3. \A u \in Painters : at'[u] = IF u = t THEN to ELSE at[u]
  BY <1>0, <1>2 DEF GuiTypes, PainterTypes
<1>4. \A u \in Painters : Paints(u) => u = t
  BY <1>0, <1>1 DEF OnePainter
<1>5. ContentTypes' /\ RingKept' /\ LatestKept'
  BY <1>0, <1>1 DEF GuiTypes, ContentTypes, RingKept, LatestKept, content
<1>6. FlagTypes'
  BY <1>0, <1>1 DEF GuiTypes, FlagTypes, flags, Open, OpenFails, Look, LookStopped, NoClose,
                    UserCloses, Draw, PainterEnds
<1>7. PainterTypes'
  <2>1. DOMAIN copied' = Painters
    BY <1>0 DEF GuiTypes, PainterTypes, Open, OpenFails, Look, LookStopped, NoClose, UserCloses,
                Draw, PainterEnds
  <2> QED BY <1>0, <1>2, <2>1 DEF GuiTypes, PainterTypes
<1>8. OnePainter'
  <2>1. started' <=> to # "gone"
    BY <1>0, <1>1, <1>3 DEF OnePainter, flags, Open, OpenFails, Look, LookStopped, NoClose,
          UserCloses, Draw, PainterEnds, GuiTypes, PainterTypes
  <2>2. \A u \in Painters : Paints(u)' <=> u = t /\ to # "gone"
    BY <1>2, <1>3, <1>4 DEF Paints
  <2> QED BY <2>1, <2>2 DEF OnePainter
<1>9. Shown'
  <2> SUFFICES ASSUME ~updated', to # "gone"
               PROVE  copied'[t] \in {Newest, NoMemory}
    <3>1. Newest' = Newest
      BY <1>1 DEF Newest, content
    <3> QED BY <1>2, <1>3, <1>4, <3>1 DEF Shown, Paints, NoMemory
  <2>1. CASE Look(t)
    <3>1. copied'[t] = (IF kind = "fifo" THEN History ELSE latest) \/ copied'[t] = NoMemory
      BY <1>0, <2>1 DEF Look, GuiTypes, PainterTypes
    <3>2. kind # "fifo" => latest = Newest
      BY <1>0 DEF LatestKept, Newest, Last
    <3> QED BY <1>0, <3>1, <3>2, HistoryIsNewest
  <2>2. CASE Open(t)
    <3>1. copied'[t] = <<>> /\ kind # "fifo" /\ submitted = <<>>
      BY <1>0, <1>1, <2>2 DEF Open, flags, Shown, GuiTypes, PainterTypes
    <3> QED BY <3>1 DEF Newest
  <2>3. CASE ~Look(t) /\ ~Open(t)
    <3>1. UNCHANGED <<updated, copied>> /\ at[t] # "open"
      BY <1>2, <1>3, <2>3 DEF OpenFails, LookStopped, NoClose, UserCloses, Draw, PainterEnds, flags
    <3> QED BY <1>0, <1>1, <3>1 DEF Shown
  <2> QED BY <2>1, <2>2, <2>3
<1> QED BY <1>5, <1>6, <1>7, <1>8, <1>9 DEF GuiInv, GuiTypes

(* All steps together.                                                      *)
LEMMA GuiInvStep == GuiInv /\ [GuiNext]_guiVars => GuiInv'
<1> SUFFICES ASSUME GuiInv, [GuiNext]_guiVars PROVE GuiInv'
  OBVIOUS
<1>1. CASE UNCHANGED guiVars
  BY <1>1 DEF guiVars, flags, content, GuiInv, GuiTypes, FlagTypes, ContentTypes, PainterTypes,
              OnePainter, Paints, RingKept, LatestKept, Shown, Newest
<1> QED BY <1>1, StartKeeps, StartFailsKeeps, SubmitDepthKeeps, SubmitPointsKeeps, PainterKeeps
        DEF GuiNext

(* However users close windows, displays fail and the frontend asks for     *)
(* windows again, a window has at most one thread, and its started flag     *)
(* says whether it has one.                                                 *)
THEOREM OneThreadPerWindow == GuiSpec => []OneThread
<1>1. GuiInv => OneThread
  <2> SUFFICES ASSUME GuiInv PROVE OneThread
    OBVIOUS
  <2>1. Painting = {t \in Painters : Paints(t)}
    BY DEF Painting, Paints
  <2>2. started <=> Painting # {}
    BY <2>1 DEF GuiInv, OnePainter
  <2>3. Cardinality(Painting) <= 1
    <3>1. CASE Painting = {}
      BY <3>1, FS_EmptySet
    <3>2. CASE Painting # {}
      <4>1. PICK t : Painting = {t}
        BY <2>1, <3>2 DEF GuiInv, OnePainter
      <4>2. Cardinality({t}) = 1
        BY FS_Singleton
      <4> QED BY <4>1, <4>2
    <3> QED BY <3>1, <3>2
  <2> QED BY <2>2, <2>3 DEF OneThread
<1> QED BY <1>1, GuiInvInit, GuiInvStep, PTL DEF GuiSpec

(* A thread with nothing left to look at has drawn the newest that was      *)
(* handed over since its window was started, whatever the length of the     *)
(* history and however its ring has wrapped.                                *)
THEOREM NewestIsShown == GuiSpec => []ShowsLatest
<1>1. GuiInv => ShowsLatest
  <2> SUFFICES ASSUME GuiInv PROVE ShowsLatest
    OBVIOUS
  <2>1. \A t \in Painting : t \in Painters /\ Paints(t)
    BY DEF Painting, Paints
  <2> QED BY <2>1 DEF GuiInv, RingKept, Shown, ShowsLatest
<1> QED BY <1>1, GuiInvInit, GuiInvStep, PTL DEF GuiSpec
=============================================================================
