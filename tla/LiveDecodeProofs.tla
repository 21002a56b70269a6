-------------------------- MODULE LiveDecodeProofs --------------------------
(***************************************************************************)
(* What holds of FIFO1 and its worker for every capacity, slice and chunk  *)
(* size: type correctness; that the outer FEC never mixes the bytes of two *)
(* epochs (EpochInv) and skips no symbol unmarked (GapInv); that the load  *)
(* of FIFO1 is counted exactly, which takes an induction over the queue;   *)
(* and that nothing is left of it when the worker has been joined.         *)
(***************************************************************************)
EXTENDS LiveDecode, WellFoundedInduction, TLAPS

(* The constants are what they should be.                                   *)
LEMMA ConstantTypes ==
  /\ Capacity \in Nat \ {0} /\ Slice \in Nat \ {0} /\ MaxChunk \in Nat \ {0}
  /\ HoldMax \in Nat /\ MaxFailures \in Nat /\ MaxPos \in Nat
BY LiveDecodeAssumption DEF LiveDecodeAssumption

(* An empty FIFO1 and untouched counters are well typed.                    *)
LEMMA EmptyTypes ==
  /\ 0 \in 0..Capacity /\ 0 \in 0..HoldMax /\ 0 \in 0..MaxFailures
  /\ <<>> \in Seq(Jobs)
BY ConstantTypes

(* What a job and a chunk consist of.                                       *)
LEMMA JobFields ==
  ASSUME NEW j \in Jobs
  PROVE  j.pos \in Nat /\ j.n \in 1..MaxChunk /\ j.n \in Nat /\ j.epoch \in Nat
BY ConstantTypes DEF Jobs

(* The fields of a chunk.                                                   *)
LEMMA ChunkFields ==
  ASSUME NEW c \in Chunks
  PROVE  c.pos \in Nat /\ c.n \in 1..MaxChunk /\ c.n \in Nat
BY ConstantTypes DEF Chunks

(* Symbols are natural numbers.                                             *)
LEMMA SpanType ==
  ASSUME NEW first \in Nat, NEW n \in Nat
  PROVE  Span(first, n) \subseteq Nat /\ first..(n - 1) \subseteq Nat
BY DEF Span

(* The slice of a job lies inside the job.                                  *)
LEMMA SliceType ==
  ASSUME WorkerTypes
  PROVE  /\ SliceLen \in Nat \ {0}
         /\ SliceFirst \in Nat
         /\ off + SliceLen \in Nat
BY ConstantTypes, JobFields DEF WorkerTypes, SliceLen, SliceFirst

(* What is fed to the outer stream, and what it skips, are well typed.      *)
LEMMA FedType ==
  ASSUME WorkerTypes, StreamTypes
  PROVE  /\ Fed \in [epochs: SUBSET Nat, next: Nat]
         /\ FedGap \subseteq Nat
<1>1. SliceFirst + SliceLen \in Nat /\ SliceFirst \in Nat /\ job.epoch \in Nat
  BY SliceType, JobFields DEF WorkerTypes
<1>2. outer.epochs \in SUBSET Nat /\ outer.next \in Nat
  BY DEF StreamTypes
<1> QED BY <1>1, <1>2 DEF Fed, FedGap

(* A group of variables that does not change keeps its types.               *)
LEMMA FrontendFrame == UNCHANGED frontend /\ FrontendTypes => FrontendTypes'
BY DEF frontend, FrontendTypes

(* The types of a group of variables that is left alone, one lemma for each *)
(* group.                                                                   *)
LEMMA FifoFrame == UNCHANGED fifo /\ FifoTypes => FifoTypes'
BY DEF fifo, FifoTypes

(* The worker's.                                                            *)
LEMMA WorkerFrame == UNCHANGED worker /\ WorkerTypes => WorkerTypes'
BY DEF worker, WorkerTypes, Busy

(* Those of the two streams.                                                *)
LEMMA StreamFrame == UNCHANGED streams /\ StreamTypes => StreamTypes'
BY DEF streams, StreamTypes

(* Those of the history.                                                    *)
LEMMA HistoryFrame == UNCHANGED history /\ HistoryTypes => HistoryTypes'
BY DEF history, HistoryTypes

(* Waking the worker, or starting it, does not touch its job.               *)
LEMMA WakeFrame ==
  WorkerTypes /\ UNCHANGED <<job, off>> /\ wpc' \in {wpc, "idle"} => WorkerTypes'
BY DEF WorkerTypes, Busy

(* The variables start in their types.                                      *)
LEMMA TypeInit == Init => TypeOK
<1> SUFFICES ASSUME Init PROVE TypeOK
  OBVIOUS
<1>1. FrontendTypes
  <2>1. chunk \in Chunks
    BY ConstantTypes DEF Init, Chunks, Locks
  <2>2. cursor \in [valid: BOOLEAN, next: Nat]
    BY DEF Init
  <2> QED BY <2>1, <2>2, EmptyTypes DEF Init, FrontendTypes
<1>2. FifoTypes
  BY EmptyTypes DEF Init, FifoTypes
<1>3. WorkerTypes
  BY ConstantTypes DEF Init, WorkerTypes, Jobs
<1>4. StreamTypes
  BY DEF Init, StreamTypes, ColdInner, EmptyOuter
<1>5. HistoryTypes
  BY EmptyTypes DEF Init, HistoryTypes
<1> QED BY <1>1, <1>2, <1>3, <1>4, <1>5 DEF TypeOK

(* Every step of the frontend keeps the types.                              *)
LEMMA TypeFrontend ==
  ASSUME TypeOK, Frontend
  PROVE  TypeOK'
<1> USE DEF At, Goto
<1>0. FrontendTypes /\ FifoTypes /\ WorkerTypes /\ StreamTypes /\ HistoryTypes
  BY DEF TypeOK
<1>1. ASSUME NEW n \in 1..MaxChunk, NEW skip \in 0..MaxSkip, NEW lock \in Locks,
             NEW match \in BOOLEAN, ReceiveChunk(n, skip, lock, match)
      PROVE  TypeOK'
  <2>1. FrontendTypes'
    <3>1. skip \in Nat /\ n \in Nat
      BY ConstantTypes, LiveDecodeAssumption DEF LiveDecodeAssumption
    <3>2. chunk' \in Chunks /\ air' \in Nat /\ cursor' \in [valid: BOOLEAN, next: Nat]
      BY <1>0, <1>1, <3>1 DEF FrontendTypes, ReceiveChunk, Chunks
    <3>3. holdCount' \in 0..HoldMax /\ statusHold' \in BOOLEAN
      <4>1. holdCount' = holdCount \/ holdCount' = 0
        BY <1>1 DEF ReceiveChunk
      <4>2. statusHold' = statusHold \/ statusHold' = (statusHold /\ skip = 0)
        BY <1>1 DEF ReceiveChunk
      <4>3. statusHold' \in BOOLEAN
        BY <1>0, <4>2 DEF FrontendTypes
      <4> QED BY <1>0, <4>1, <4>3, EmptyTypes DEF FrontendTypes
    <3> QED BY <1>1, <3>2, <3>3 DEF FrontendTypes, ReceiveChunk
  <2> QED BY <1>0, <1>1, <2>1, FifoFrame, WorkerFrame, StreamFrame, HistoryFrame
          DEF ReceiveChunk, TypeOK
<1>2. CASE PilotGood
  <2>1. FrontendTypes'
    BY <1>0, <1>2, ConstantTypes DEF FrontendTypes, PilotGood
  <2> QED BY <1>0, <1>2, <2>1, FifoFrame, WorkerFrame, StreamFrame, HistoryFrame
          DEF PilotGood, TypeOK
<1>3. CASE PilotHold
  <2>1. FrontendTypes'
    BY <1>0, <1>3, ConstantTypes DEF FrontendTypes, PilotHold, MayHold
  <2>2. HistoryTypes'
    <3>1. Span(chunk.pos, chunk.n) \subseteq Nat
      BY <1>0, ChunkFields, SpanType DEF FrontendTypes
    <3> QED BY <1>0, <1>3, <3>1 DEF HistoryTypes, PilotHold
  <2> QED BY <1>0, <1>3, <2>1, <2>2, FifoFrame, WorkerFrame, StreamFrame
          DEF PilotHold, TypeOK
<1>4. CASE PilotDrop
  <2>1. FrontendTypes'
    BY <1>0, <1>4 DEF FrontendTypes, PilotDrop
  <2> QED BY <1>0, <1>4, <2>1, FifoFrame, WorkerFrame, StreamFrame, HistoryFrame
          DEF PilotDrop, TypeOK
<1>5. ASSUME NEW label, NEW next \in {"lost_invalidate", "drop_invalidate", "enqueue", "receive"},
             FrontendResetInner(label, next)
      PROVE  TypeOK'
  <2>1. FrontendTypes'
    BY <1>0, <1>5 DEF FrontendTypes, FrontendResetInner
  <2>2. StreamTypes'
    BY <1>0, <1>5 DEF StreamTypes, FrontendResetInner, ColdInner
  <2> QED BY <1>0, <1>5, <2>1, <2>2, FifoFrame, WorkerFrame, HistoryFrame
          DEF FrontendResetInner, TypeOK
<1>6. ASSUME NEW label, NEW next \in {"lost_outer", "drop_outer"},
              FrontendInvalidate(label, next)
       PROVE  TypeOK'
  <2>1. FrontendTypes'
    BY <1>0, <1>6 DEF FrontendTypes, FrontendInvalidate
  <2>2. FifoTypes'
    <3>1. epoch' \in Nat /\ processing' \in Nat /\ stop' \in BOOLEAN
      BY <1>0, <1>6 DEF FifoTypes, FrontendInvalidate
    <3>2. queue' \in Seq(Jobs) /\ queued' \in 0..Capacity /\ gapPending' \in BOOLEAN
      BY <1>6, EmptyTypes DEF FrontendInvalidate
    <3> QED BY <3>1, <3>2 DEF FifoTypes
  <2> QED BY <1>0, <1>6, <2>1, <2>2, WorkerFrame, StreamFrame, HistoryFrame
          DEF FrontendInvalidate, TypeOK
<1>7. ASSUME NEW label, NEW next \in {"pilot", "receive"}, FrontendResetOuter(label, next)
       PROVE  TypeOK'
  <2>1. FrontendTypes'
    BY <1>0, <1>7 DEF FrontendTypes, FrontendResetOuter
  <2>2. StreamTypes'
    BY <1>0, <1>7 DEF StreamTypes, FrontendResetOuter, EmptyOuter
  <2> QED BY <1>0, <1>7, <2>1, <2>2, FifoFrame, WorkerFrame, HistoryFrame
          DEF FrontendResetOuter, TypeOK
<1>8. CASE FrontendReset
  BY <1>5, <1>6, <1>7, <1>8 DEF FrontendReset
<1>9. CASE StartWorker
  <2>1. FifoTypes'
    BY <1>0, <1>9 DEF FifoTypes, StartWorker
  <2> QED BY <1>0, <1>9, <2>1, FrontendFrame, WakeFrame, StreamFrame, HistoryFrame
          DEF StartWorker, TypeOK
<1>10. CASE SoftFifoNoMemory \/ EnqueueNoMemory
  <2>1. FrontendTypes'
    BY <1>0, <1>10 DEF FrontendTypes, SoftFifoNoMemory, EnqueueNoMemory, Refused
  <2>2. HistoryTypes'
    <3>1. Span(chunk.pos, chunk.n) \subseteq Nat
      BY <1>0, ChunkFields, SpanType DEF FrontendTypes
    <3>2. unmarked' \subseteq Nat
      BY <1>0, <1>10, <3>1 DEF HistoryTypes, SoftFifoNoMemory, EnqueueNoMemory
    <3>3. failures' \in 0..MaxFailures
      BY <1>0, <1>10, ConstantTypes DEF HistoryTypes, SoftFifoNoMemory, EnqueueNoMemory
    <3> QED BY <1>0, <1>10, <3>2, <3>3 DEF HistoryTypes, SoftFifoNoMemory, EnqueueNoMemory
  <2> QED BY <1>0, <1>10, <2>1, <2>2, FifoFrame, WorkerFrame, StreamFrame
          DEF SoftFifoNoMemory, EnqueueNoMemory, TypeOK
<1>11. CASE EnqueueTooLarge \/ EnqueueFull
  <2>1. FrontendTypes'
    BY <1>0, <1>11 DEF FrontendTypes, EnqueueTooLarge, EnqueueFull, Refused
  <2>2. FifoTypes'
    BY <1>0, <1>11 DEF FifoTypes, EnqueueTooLarge, EnqueueFull
  <2> QED BY <1>0, <1>11, <2>1, <2>2, WorkerFrame, StreamFrame, HistoryFrame
          DEF EnqueueTooLarge, EnqueueFull, TypeOK
<1>12. CASE EnqueueAccept
  <2>1. FrontendTypes'
    BY <1>0, <1>12 DEF FrontendTypes, EnqueueAccept
  <2>2. Window \in Jobs
    BY <1>0 DEF FrontendTypes, FifoTypes, Window, Chunks, Jobs
  <2>3. queue' \in Seq(Jobs)
    BY <1>0, <1>12, <2>2 DEF FifoTypes, EnqueueAccept
  <2>4. queued' \in 0..Capacity
    BY <1>0, <1>12, ChunkFields, ConstantTypes DEF FifoTypes, FrontendTypes, EnqueueAccept
  <2>5. FifoTypes'
    BY <1>0, <1>12, <2>3, <2>4 DEF FifoTypes, EnqueueAccept
  <2> QED BY <1>0, <1>12, <2>1, <2>5, WakeFrame, StreamFrame, HistoryFrame
          DEF EnqueueAccept, TypeOK
<1>13. CASE Shutdown
  <2>1. FrontendTypes'
    BY <1>0, <1>13 DEF FrontendTypes, Shutdown
  <2>2. FifoTypes'
    BY <1>0, <1>13 DEF FifoTypes, Shutdown
  <2> QED BY <1>0, <1>13, <2>1, <2>2, WakeFrame, StreamFrame, HistoryFrame
          DEF Shutdown, TypeOK
<1>14. CASE Join
  <2>1. FrontendTypes'
    BY <1>0, <1>14 DEF FrontendTypes, Join
  <2>2. FifoTypes'
    BY <1>0, <1>14, EmptyTypes DEF FifoTypes, Join
  <2> QED BY <1>0, <1>14, <2>1, <2>2, WorkerFrame, StreamFrame, HistoryFrame
          DEF Join, TypeOK
<1> QED BY <1>1, <1>2, <1>3, <1>4, <1>8, <1>9, <1>10, <1>11, <1>12, <1>13, <1>14
        DEF Frontend, Enqueue

(* Every step of the worker keeps the types.                                *)
LEMMA TypeWorker ==
  ASSUME TypeOK, Worker
  PROVE  TypeOK'
<1> USE DEF Step
<1>0. FrontendTypes /\ FifoTypes /\ WorkerTypes /\ StreamTypes /\ HistoryTypes
  BY DEF TypeOK
<1>1. CASE WorkerSleep \/ WorkerExit \/ ViterbiEnd
             \/ WorkerCheck("check", "deinterleave") \/ WorkerCheck("deinterleave", "viterbi")
  <2>1. WorkerTypes'
    BY <1>0, <1>1 DEF WorkerTypes, WorkerSleep, WorkerExit, ViterbiEnd, WorkerCheck, Busy
  <2> QED BY <1>0, <1>1, <2>1, FrontendFrame, FifoFrame, StreamFrame, HistoryFrame
          DEF WorkerSleep, WorkerExit, ViterbiEnd, WorkerCheck, TypeOK
<1>2. CASE WorkerTake
  <2>1. Head(queue) \in Jobs /\ queue' \in Seq(Jobs)
    BY <1>0, <1>2 DEF FifoTypes, WorkerTake
  <2>2. FifoTypes'
    <3>1. queued' \in 0..Capacity
      BY <1>0, <1>2, <2>1, JobFields, ConstantTypes DEF FifoTypes, WorkerTake
    <3>2. processing' \in Nat
      BY <1>0, <1>2, <2>1, JobFields DEF FifoTypes, WorkerTake
    <3> QED BY <1>0, <1>2, <2>1, <3>1, <3>2 DEF FifoTypes, WorkerTake
  <2>3. WorkerTypes'
    BY <1>2, <2>1, JobFields DEF WorkerTypes, WorkerTake, Busy
  <2> QED BY <1>0, <1>2, <2>2, <2>3, FrontendFrame, StreamFrame, HistoryFrame
          DEF WorkerTake, TypeOK
<1>3. CASE ViterbiStart
  <2>1. SliceFirst \in Nat /\ SliceFirst + SliceLen \in Nat
    BY <1>0, SliceType
  <2>2. StreamTypes'
    BY <1>0, <1>3, <2>1 DEF StreamTypes, ViterbiStart
  <2>3. HistoryTypes'
    <3>1. inner.next..(SliceFirst - 1) \subseteq Nat
      BY <1>0, <2>1, SpanType DEF StreamTypes
    <3> QED BY <1>0, <1>3, <3>1 DEF HistoryTypes, ViterbiStart
  <2>4. WorkerTypes'
    BY <1>0, <1>3 DEF WorkerTypes, ViterbiStart, Busy
  <2> QED BY <1>0, <1>3, <2>2, <2>3, <2>4, FrontendFrame, FifoFrame
          DEF ViterbiStart, TypeOK
<1>4. CASE OuterStart
  <2>1. StreamTypes'
    BY <1>0, <1>4 DEF StreamTypes, OuterStart, EmptyOuter
  <2>2. WorkerTypes'
    BY <1>0, <1>4 DEF WorkerTypes, OuterStart, Busy
  <2> QED BY <1>0, <1>4, <2>1, <2>2, FrontendFrame, FifoFrame, HistoryFrame
          DEF OuterStart, TypeOK
<1>5. CASE OuterFeed
  <2>1. StreamTypes'
    BY <1>0, <1>5, FedType DEF StreamTypes, OuterFeed
  <2>2. HistoryTypes'
    BY <1>0, <1>5, FedType DEF HistoryTypes, OuterFeed
  <2>3. WorkerTypes'
    BY <1>0, <1>5 DEF WorkerTypes, OuterFeed, Busy
  <2> QED BY <1>0, <1>5, <2>1, <2>2, <2>3, FrontendFrame, FifoFrame DEF OuterFeed, TypeOK
<1>6. CASE WorkerRecheck
  <2>1. WorkerTypes'
    BY <1>0, <1>6, SliceType, JobFields DEF WorkerTypes, WorkerRecheck, Busy
  <2> QED BY <1>0, <1>6, <2>1, FrontendFrame, FifoFrame, StreamFrame, HistoryFrame
          DEF WorkerRecheck, TypeOK
<1>7. CASE WorkerFail
  <2>1. StreamTypes'
    BY <1>0, <1>7, FedType DEF StreamTypes, WorkerFail, ColdInner
  <2>2. unmarked' \subseteq Nat /\ outerGap' \subseteq Nat
    <3>1. GivenUpFrom \in Nat
      BY <1>0, SliceType, JobFields DEF GivenUpFrom, StreamTypes, WorkerTypes
    <3>2. GivenUpFrom..(job.pos + job.n - 1) \subseteq Nat
      BY <3>1
    <3> QED BY <1>0, <1>7, <3>2, FedType DEF HistoryTypes, WorkerFail
  <2>3. HistoryTypes'
    BY <1>0, <1>7, <2>2, ConstantTypes DEF HistoryTypes, WorkerFail
  <2>4. WorkerTypes'
    BY <1>0, <1>7 DEF WorkerTypes, WorkerFail, Busy
  <2> QED BY <1>0, <1>7, <2>1, <2>3, <2>4, FrontendFrame, FifoFrame DEF WorkerFail, TypeOK
<1>8. CASE WorkerStale
  <2>1. StreamTypes'
    BY <1>8 DEF StreamTypes, WorkerStale, ColdInner, EmptyOuter
  <2>2. WorkerTypes'
    BY <1>0, <1>8 DEF WorkerTypes, WorkerStale, Busy
  <2> QED BY <1>0, <1>8, <2>1, <2>2, FrontendFrame, FifoFrame, HistoryFrame
          DEF WorkerStale, TypeOK
<1>9. CASE WorkerFinish
  <2>1. FifoTypes'
    BY <1>0, <1>9, JobFields DEF FifoTypes, WorkerTypes, WorkerFinish
  <2>2. WorkerTypes'
    BY <1>0, <1>9 DEF WorkerTypes, WorkerFinish, Busy
  <2> QED BY <1>0, <1>9, <2>1, <2>2, FrontendFrame, StreamFrame, HistoryFrame
          DEF WorkerFinish, TypeOK
<1> QED BY <1>1, <1>2, <1>3, <1>4, <1>5, <1>6, <1>7, <1>8, <1>9 DEF Worker

(* TypeOK is inductive by itself.                                           *)
LEMMA TypeStep == TypeOK /\ [Next]_vars => TypeOK'
<1> SUFFICES ASSUME TypeOK, [Next]_vars PROVE TypeOK'
  OBVIOUS
<1>1. CASE Frontend
  BY <1>1, TypeFrontend
<1>2. CASE Worker
  BY <1>2, TypeWorker
<1>3. CASE UNCHANGED vars
  BY <1>3, FrontendFrame, FifoFrame, WorkerFrame, StreamFrame, HistoryFrame
     DEF TypeOK, vars
<1> QED BY <1>1, <1>2, <1>3 DEF Next, Terminated

(* Whatever the capacity, the chunks and the slices, every variable stays   *)
(* in its type: FIFO1 never holds more symbols than its capacity, the hold  *)
(* counter never passes its maximum, the worker's offset stays in its job.  *)
THEOREM TypeCorrect == Spec => []TypeOK
BY TypeInit, TypeStep, PTL DEF Spec
-----------------------------------------------------------------------------
(* Why the epochs never mix.  A reset is pending between the frontend's      *)
(* invalidation and its reset of the outer stream: until then the queue is   *)
(* empty and the job in hand, if there is one, is stale.  From then on the   *)
(* outer stream of a stale job is empty, or the slice it is feeding now is   *)
(* caught by the look at the epoch that follows.                             *)

ResetPending == fpc \in {"lost_outer", "drop_outer"}

QueuedAreCurrent == \A i \in 1..Len(queue) : queue[i].epoch = epoch

InHandIsNotNewer == Busy => job.epoch <= epoch

PendingIsStale == ResetPending => queue = <<>> /\ (Busy => job.epoch < epoch)

(* The outer stream holds one epoch: the job's, while there is one.         *)
OneEpoch ==
  /\ \A a, b \in outer.epochs : a = b
  /\ Busy => outer.epochs \subseteq {job.epoch}
  /\ ~Busy /\ ~ResetPending => outer.epochs \subseteq {epoch}

(* Nothing of a stale job stays behind, but what a check is about to see.   *)
StaleIsGone ==
  Busy /\ Stale /\ ~ResetPending /\ wpc \notin {"recheck", "stale"} => outer.epochs = {}

OuterIsClean == staleFailure \/ (OneEpoch /\ StaleIsGone)

EpochInv ==
  /\ QueuedAreCurrent
  /\ InHandIsNotNewer
  /\ PendingIsStale
  /\ OuterIsClean

(* The invariant holds at the start.                                        *)
LEMMA EpochInit == Init => EpochInv
<1> SUFFICES ASSUME Init PROVE EpochInv
  OBVIOUS
<1>1. QueuedAreCurrent /\ InHandIsNotNewer /\ PendingIsStale
  BY DEF Init, QueuedAreCurrent, InHandIsNotNewer, PendingIsStale, ResetPending, Busy
<1>2. OneEpoch /\ StaleIsGone
  BY DEF Init, OneEpoch, StaleIsGone, ResetPending, Busy, EmptyOuter
<1> QED BY <1>1, <1>2 DEF EpochInv, OuterIsClean

(* Steps that leave the queue, the epoch, the job and the outer stream      *)
(* alone, wake an idle worker at most, and neither begin nor end a reset.   *)
LEMMA EpochFrame ==
  ASSUME EpochInv, UNCHANGED <<queue, epoch, job, outer, staleFailure>>,
         wpc' = wpc \/ (~Busy /\ wpc' = "idle"),
         ResetPending' <=> ResetPending
  PROVE  EpochInv'
<1>1. Busy' <=> Busy
  BY DEF Busy
<1>2. QueuedAreCurrent' /\ InHandIsNotNewer' /\ PendingIsStale'
  BY <1>1 DEF EpochInv, QueuedAreCurrent, InHandIsNotNewer, PendingIsStale
<1>3. CASE staleFailure
  BY <1>2, <1>3 DEF EpochInv, OuterIsClean
<1>4. CASE OneEpoch /\ StaleIsGone
  <2>1. OneEpoch'
    BY <1>1, <1>4 DEF OneEpoch
  <2>2. StaleIsGone'
    BY <1>1, <1>4 DEF StaleIsGone, Stale, Busy
  <2> QED BY <1>2, <2>1, <2>2 DEF EpochInv, OuterIsClean
<1> QED BY <1>3, <1>4 DEF EpochInv, OuterIsClean

(* Steps of the frontend keep EpochInv.                                     *)
LEMMA EpochFrontend ==
  ASSUME TypeOK, EpochInv, Frontend
  PROVE  EpochInv'
<1> USE DEF At, Goto
<1>0. QueuedAreCurrent /\ InHandIsNotNewer /\ PendingIsStale
  BY DEF EpochInv
<1>1. ASSUME NEW n \in 1..MaxChunk, NEW skip \in 0..MaxSkip, NEW lock \in Locks,
             NEW match \in BOOLEAN, ReceiveChunk(n, skip, lock, match)
      PROVE  EpochInv'
  BY <1>1, EpochFrame DEF ReceiveChunk, ResetPending, fifo, worker, streams, history
<1>2. CASE PilotGood \/ PilotDrop
  BY <1>2, EpochFrame
     DEF PilotGood, PilotDrop, ResetPending, fifo, worker, streams, history
<1>3. CASE PilotHold
  BY <1>3, EpochFrame DEF PilotHold, ResetPending, fifo, worker, streams
<1>4. ASSUME NEW label \in {"lost_inner", "drop_inner", "soft_inner", "refused"},
             NEW next \in {"lost_invalidate", "drop_invalidate", "enqueue", "receive"},
             FrontendResetInner(label, next)
      PROVE  EpochInv'
  BY <1>4, EpochFrame DEF FrontendResetInner, ResetPending, fifo, worker, history
<1>5. ASSUME NEW label \in {"lost_invalidate", "drop_invalidate"},
             NEW next \in {"lost_outer", "drop_outer"}, FrontendInvalidate(label, next)
      PROVE  EpochInv'
  <2>1. epoch \in Nat /\ job.epoch \in Nat
    BY JobFields DEF TypeOK, FifoTypes, WorkerTypes
  <2>2. Busy' <=> Busy
    BY <1>5 DEF FrontendInvalidate, worker, Busy
  <2>3. QueuedAreCurrent'
    BY <1>5 DEF FrontendInvalidate, QueuedAreCurrent
  <2>4. InHandIsNotNewer' /\ PendingIsStale'
    BY <1>0, <1>5, <2>1, <2>2
       DEF FrontendInvalidate, worker, InHandIsNotNewer, PendingIsStale
  <2>5. ResetPending'
    BY <1>5 DEF FrontendInvalidate, ResetPending
  <2>6. OneEpoch => OneEpoch'
    BY <1>5, <2>2, <2>5 DEF FrontendInvalidate, worker, streams, OneEpoch
  <2>7. StaleIsGone'
    BY <2>5 DEF StaleIsGone
  <2> QED BY <1>5, <2>3, <2>4, <2>6, <2>7 DEF EpochInv, OuterIsClean, FrontendInvalidate, history
<1>6. ASSUME NEW label \in {"lost_outer", "drop_outer"}, NEW next \in {"pilot", "receive"},
             FrontendResetOuter(label, next)
      PROVE  EpochInv'
  <2>1. Busy' <=> Busy
    BY <1>6 DEF FrontendResetOuter, worker, Busy
  <2>2. ~ResetPending'
    BY <1>6 DEF FrontendResetOuter, ResetPending
  <2>3. QueuedAreCurrent' /\ InHandIsNotNewer' /\ PendingIsStale'
    BY <1>0, <1>6, <2>1, <2>2
       DEF FrontendResetOuter, fifo, worker, QueuedAreCurrent, InHandIsNotNewer, PendingIsStale
  <2>4. OneEpoch' /\ StaleIsGone'
    BY <1>6 DEF FrontendResetOuter, EmptyOuter, OneEpoch, StaleIsGone
  <2> QED BY <2>3, <2>4 DEF EpochInv, OuterIsClean
<1>7. CASE FrontendReset
  BY <1>4, <1>5, <1>6, <1>7 DEF FrontendReset
<1>8. CASE StartWorker
  BY <1>8, EpochFrame DEF StartWorker, frontend, streams, history, ResetPending, Busy
<1>9. CASE SoftFifoNoMemory \/ EnqueueNoMemory
  BY <1>9, EpochFrame
     DEF SoftFifoNoMemory, EnqueueNoMemory, Refused, fifo, worker, streams, ResetPending
<1>10. CASE EnqueueTooLarge \/ EnqueueFull
  BY <1>10, EpochFrame
     DEF EnqueueTooLarge, EnqueueFull, Refused, worker, streams, history, ResetPending
<1>11. CASE EnqueueAccept
  <2>1. Busy' <=> Busy
    BY <1>11 DEF EnqueueAccept, Busy
  <2>2. ~ResetPending /\ ~ResetPending'
    BY <1>11 DEF EnqueueAccept, ResetPending
  <2>3. QueuedAreCurrent'
    <3>1. Window.epoch = epoch
      BY DEF Window
    <3>2. queue \in Seq(Jobs)
      BY DEF TypeOK, FifoTypes
    <3> QED BY <1>0, <1>11, <3>1, <3>2 DEF EnqueueAccept, QueuedAreCurrent
  <2>4. InHandIsNotNewer' /\ PendingIsStale'
    BY <1>0, <1>11, <2>1, <2>2 DEF EnqueueAccept, InHandIsNotNewer, PendingIsStale
  <2>5. OneEpoch => OneEpoch'
    BY <1>11, <2>1, <2>2 DEF EnqueueAccept, streams, OneEpoch
  <2>6. StaleIsGone => StaleIsGone'
    BY <1>11, <2>1, <2>2 DEF EnqueueAccept, streams, StaleIsGone, Stale, Busy
  <2> QED BY <1>11, <2>3, <2>4, <2>5, <2>6 DEF EpochInv, OuterIsClean, EnqueueAccept, history
<1>12. CASE Shutdown
  BY <1>12, EpochFrame DEF Shutdown, streams, history, ResetPending, Busy
<1>13. CASE Join
  <2>1. ~Busy /\ ~Busy'
    BY <1>13 DEF Join, worker, Busy
  <2>2. ~ResetPending /\ ~ResetPending'
    BY <1>13 DEF Join, ResetPending
  <2>3. QueuedAreCurrent' /\ InHandIsNotNewer' /\ PendingIsStale' /\ StaleIsGone'
    BY <1>13, <2>1, <2>2
       DEF Join, QueuedAreCurrent, InHandIsNotNewer, PendingIsStale, StaleIsGone
  <2>4. OneEpoch => OneEpoch'
    BY <1>13, <2>1, <2>2 DEF Join, streams, OneEpoch
  <2> QED BY <1>13, <2>3, <2>4 DEF EpochInv, OuterIsClean, Join, history
<1> QED BY <1>1, <1>2, <1>3, <1>7, <1>8, <1>9, <1>10, <1>11, <1>12, <1>13
        DEF Frontend, Enqueue

(* A worker step inside its job keeps EpochInv if it keeps the two facts    *)
(* about the outer stream.                                                  *)
LEMMA EpochInJob ==
  ASSUME EpochInv, UNCHANGED <<frontend, fifo, job>>, Busy, Busy',
         OuterIsClean => OuterIsClean'
  PROVE  EpochInv'
<1>1. QueuedAreCurrent' /\ InHandIsNotNewer' /\ PendingIsStale'
  BY DEF EpochInv, frontend, fifo, QueuedAreCurrent, InHandIsNotNewer, PendingIsStale,
         ResetPending
<1> QED BY <1>1 DEF EpochInv

(* Steps of the worker keep EpochInv.                                       *)
LEMMA EpochWorker ==
  ASSUME TypeOK, EpochInv, Worker
  PROVE  EpochInv'
<1> USE DEF Step
<1>0. QueuedAreCurrent /\ InHandIsNotNewer /\ PendingIsStale
  BY DEF EpochInv
<1>a. UNCHANGED frontend /\ (ResetPending' <=> ResetPending)
  BY DEF Worker, WorkerSleep, WorkerExit, WorkerTake, WorkerCheck, ViterbiStart, ViterbiEnd,
         OuterStart, OuterFeed, WorkerRecheck, WorkerFail, WorkerStale, WorkerFinish,
         frontend, ResetPending
<1>1. CASE WorkerSleep \/ WorkerExit
  <2>1. ~Busy /\ ~Busy' /\ UNCHANGED fifo /\ UNCHANGED streams /\ UNCHANGED history
    BY <1>1 DEF WorkerSleep, WorkerExit, Busy
  <2>2. QueuedAreCurrent' /\ InHandIsNotNewer' /\ PendingIsStale' /\ StaleIsGone'
    BY <1>0, <1>a, <2>1
       DEF fifo, QueuedAreCurrent, InHandIsNotNewer, PendingIsStale, StaleIsGone
  <2>3. OneEpoch => OneEpoch'
    BY <1>a, <2>1 DEF fifo, streams, OneEpoch
  <2> QED BY <2>1, <2>2, <2>3 DEF EpochInv, OuterIsClean, history
<1>2. CASE WorkerTake
  <2>1. Head(queue).epoch = epoch /\ queue # <<>> /\ Len(queue) \in Nat \ {0}
    BY <1>0, <1>2 DEF TypeOK, FifoTypes, WorkerTake, QueuedAreCurrent
  <2>2. job'.epoch = epoch /\ epoch' = epoch /\ epoch \in Nat
    BY <1>2, <2>1 DEF WorkerTake, TypeOK, FifoTypes
  <2>3. ~ResetPending /\ ~ResetPending' /\ ~Busy /\ Busy'
    BY <1>0, <1>2, <1>a, <2>1 DEF WorkerTake, PendingIsStale, Busy
  <2>4. QueuedAreCurrent'
    BY <1>0, <1>2, <2>1 DEF TypeOK, FifoTypes, WorkerTake, QueuedAreCurrent
  <2>5. InHandIsNotNewer' /\ PendingIsStale'
    BY <2>2, <2>3 DEF InHandIsNotNewer, PendingIsStale
  <2>6. ~Stale'
    BY <2>2 DEF Stale
  <2>7. OneEpoch => OneEpoch'
    BY <1>2, <2>2, <2>3 DEF WorkerTake, streams, OneEpoch
  <2>8. StaleIsGone'
    BY <2>6 DEF StaleIsGone
  <2> QED BY <1>2, <2>4, <2>5, <2>7, <2>8 DEF EpochInv, OuterIsClean, WorkerTake, history
<1>3. CASE WorkerCheck("check", "deinterleave") \/ WorkerCheck("deinterleave", "viterbi")
             \/ ViterbiStart \/ ViterbiEnd \/ WorkerRecheck
  <2>1. Busy /\ Busy' /\ UNCHANGED <<fifo, job, outer, staleFailure>>
    BY <1>3 DEF WorkerCheck, ViterbiStart, ViterbiEnd, WorkerRecheck, Busy, streams, history
  <2>2. OneEpoch => OneEpoch'
    BY <2>1 DEF OneEpoch
  <2>3. (wpc \notin {"recheck", "stale"} \/ ~Stale) \/ wpc' \in {"recheck", "stale"}
    BY <1>3 DEF WorkerCheck, ViterbiStart, ViterbiEnd, WorkerRecheck
  <2>4. StaleIsGone => StaleIsGone'
    BY <1>a, <2>1, <2>3 DEF StaleIsGone, Stale, fifo
  <2> QED BY <1>a, <2>1, <2>2, <2>4, EpochInJob DEF OuterIsClean
<1>4. CASE OuterStart
  <2>1. Busy /\ Busy' /\ UNCHANGED <<fifo, job, staleFailure>> /\ wpc = "outer"
    BY <1>4 DEF OuterStart, Busy, history
  <2>2. outer' = outer \/ outer'.epochs = {}
    BY <1>4 DEF OuterStart, EmptyOuter
  <2>3. OneEpoch => OneEpoch'
    BY <2>1, <2>2 DEF OneEpoch
  <2>4. StaleIsGone => StaleIsGone'
    BY <1>a, <2>1, <2>2 DEF StaleIsGone, Stale, fifo
  <2> QED BY <1>a, <2>1, <2>3, <2>4, EpochInJob DEF OuterIsClean
<1>5. CASE OuterFeed
  <2>1. Busy /\ Busy' /\ UNCHANGED <<fifo, job, staleFailure>> /\ wpc' = "recheck"
    BY <1>5 DEF OuterFeed, Busy
  <2>2. outer'.epochs = outer.epochs \cup {job.epoch}
    BY <1>5 DEF OuterFeed, Fed
  <2>3. OneEpoch => OneEpoch'
    BY <2>1, <2>2 DEF OneEpoch
  <2>4. StaleIsGone'
    BY <2>1 DEF StaleIsGone
  <2> QED BY <1>a, <2>1, <2>3, <2>4, EpochInJob DEF OuterIsClean
<1>6. CASE WorkerFail
  <2>1. Busy /\ Busy' /\ UNCHANGED <<fifo, job>> /\ wpc \notin {"recheck", "stale"}
    BY <1>6 DEF WorkerFail, Busy
  <2>2. CASE wpc = "feeding"
    <3>1. outer'.epochs = outer.epochs \cup {job.epoch}
      BY <1>6, <2>2 DEF WorkerFail, Fed
    <3>2. OneEpoch => OneEpoch'
      BY <2>1, <3>1 DEF OneEpoch
    <3>3. staleFailure' \/ ~Stale'
      BY <1>6, <2>1, <2>2 DEF WorkerFail, Stale, fifo
    <3>4. staleFailure => staleFailure'
      BY <1>6 DEF WorkerFail
    <3>5. ~Stale' => StaleIsGone'
      BY DEF StaleIsGone
    <3> QED BY <1>a, <2>1, <3>2, <3>3, <3>4, <3>5, EpochInJob DEF OuterIsClean
  <2>3. CASE wpc # "feeding"
    <3>1. outer' = outer
      BY <1>6, <2>3 DEF WorkerFail
    <3>2. staleFailure => staleFailure'
      BY <1>6 DEF WorkerFail
    <3>3. OneEpoch => OneEpoch'
      BY <2>1, <3>1 DEF OneEpoch
    <3>4. StaleIsGone => StaleIsGone'
      BY <1>a, <2>1, <3>1 DEF StaleIsGone, Stale, fifo
    <3> QED BY <1>a, <2>1, <3>2, <3>3, <3>4, EpochInJob DEF OuterIsClean
  <2> QED BY <2>2, <2>3
<1>7. CASE WorkerStale
  <2>1. Busy /\ Busy' /\ UNCHANGED <<fifo, job>> /\ outer'.epochs = {}
    BY <1>7 DEF WorkerStale, Busy, EmptyOuter
  <2>2. OneEpoch' /\ StaleIsGone'
    BY <2>1 DEF OneEpoch, StaleIsGone
  <2> QED BY <1>a, <2>1, <2>2, EpochInJob DEF OuterIsClean
<1>8. CASE WorkerFinish
  <2>1. Busy /\ ~Busy' /\ wpc = "finish" /\ UNCHANGED <<queue, epoch, job, outer, staleFailure>>
    BY <1>8 DEF WorkerFinish, Busy, streams, history
  <2>2. QueuedAreCurrent' /\ InHandIsNotNewer' /\ PendingIsStale' /\ StaleIsGone'
    BY <1>0, <1>a, <2>1
       DEF QueuedAreCurrent, InHandIsNotNewer, PendingIsStale, StaleIsGone
  <2>3. OneEpoch /\ StaleIsGone => OneEpoch'
    BY <1>a, <2>1 DEF OneEpoch, StaleIsGone, Stale
  <2> QED BY <2>1, <2>2, <2>3 DEF EpochInv, OuterIsClean
<1> QED BY <1>1, <1>2, <1>3, <1>4, <1>5, <1>6, <1>7, <1>8 DEF Worker

(* EpochInv is inductive relative to the types.                             *)
LEMMA EpochStep == TypeOK /\ EpochInv /\ [Next]_vars => EpochInv'
<1> SUFFICES ASSUME TypeOK, EpochInv, [Next]_vars PROVE EpochInv'
  OBVIOUS
<1>1. CASE Frontend
  BY <1>1, EpochFrontend
<1>2. CASE Worker
  BY <1>2, EpochWorker
<1>3. CASE UNCHANGED vars
  BY <1>3, EpochFrame
     DEF vars, frontend, fifo, worker, streams, history, ResetPending
<1> QED BY <1>1, <1>2, <1>3 DEF Next, Terminated

(* Whatever the interleaving of the frontend's unlocked resets with the     *)
(* worker, and however many resets, chunks and failures: unless a job that  *)
(* was already invalidated fails in its write, the outer FEC only ever      *)
(* holds bytes of one epoch.                                                *)
THEOREM EpochsNeverMix == Spec => []OuterSingleEpoch
<1>1. EpochInv => OuterSingleEpoch
  BY DEF EpochInv, OuterIsClean, OneEpoch, OuterSingleEpoch
<1> QED BY <1>1, TypeInit, TypeStep, EpochInit, EpochStep, PTL DEF Spec
-----------------------------------------------------------------------------
(* Why the outer FEC skips nothing silently.  What comes next is linked to  *)
(* what came before it: the slice to the bytes the outer stream holds, a    *)
(* queued job to the one before it, the chunk to the last that was queued.  *)
(* A link is good when every symbol it skips was given up unmarked; where   *)
(* one is broken the next job is marked discontinuous, or the outer stream  *)
(* is empty by the time it comes.                                           *)

Accounted(given, a, b) == a..(b - 1) \subseteq given

EndOf(j) == j.pos + j.n

JobFollows ==
  outer.epochs # {} =>
    /\ wpc \in {"check", "deinterleave", "viterbi", "decoding", "outer"} /\ SliceContinuous
         => Accounted(unmarked, outer.next, SliceFirst)
    /\ wpc = "feeding" => Accounted(unmarked, outer.next, SliceFirst)
    /\ wpc = "recheck" => Accounted(unmarked, outer.next, SliceFirst + SliceLen)
    /\ wpc = "finish"  => Accounted(unmarked, outer.next, EndOf(job))

(* Symbol p may follow the job in hand, or what the outer stream holds.     *)
AfterJob(p) ==
  IF Busy THEN Stale \/ Accounted(unmarked, EndOf(job), p)
  ELSE outer.epochs = {} \/ Accounted(unmarked, outer.next, p)

(* Symbol p may follow the last job queued, or else the job in hand.        *)
AfterQueue(p) ==
  IF queue = <<>> THEN AfterJob(p) ELSE Accounted(unmarked, EndOf(queue[Len(queue)]), p)

HeadFollows == queue # <<>> /\ queue[1].continuous => AfterJob(queue[1].pos)

RestFollows ==
  \A i \in 2..Len(queue) :
    queue[i].continuous => Accounted(unmarked, EndOf(queue[i - 1]), queue[i].pos)

(* The frontend has reset the decoder, and nothing newer is on its way.     *)
Cleared == queue = <<>> /\ (Busy => Stale) /\ (~Busy => outer.epochs = {})

InLoss == fpc \in {"lost_inner", "lost_invalidate", "lost_outer"}
InHand == fpc \notin {"receive", "join", "done"}

CursorFollows == InHand => cursor.next = EndOf(chunk)

NextChunkFollows ==
  fpc \in {"receive", "refused"} /\ cursor.valid /\ ~gapPending => AfterQueue(cursor.next)

ChunkFollows ==
  /\ fpc \in {"pilot", "soft_inner", "enqueue"} =>
       IF chunk.continuous THEN gapPending \/ AfterQueue(chunk.pos) ELSE Cleared
  /\ InLoss => ~chunk.continuous

NextFollows == CursorFollows /\ NextChunkFollows /\ ChunkFollows

Linked == outerGap \subseteq unmarked /\ JobFollows /\ HeadFollows /\ RestFollows /\ NextFollows

GapInv == staleFailure \/ Linked

(* What a skipped interval of symbols comes to.                             *)
LEMMA NothingSkipped ==
  ASSUME NEW u, NEW a \in Int, NEW b \in Int, b <= a
  PROVE  Accounted(u, a, b)
BY DEF Accounted

(* What is accounted for stays so when more is given up.                    *)
LEMMA SkipsGrow ==
  ASSUME NEW u, NEW v, u \subseteq v, NEW a, NEW b, Accounted(u, a, b)
  PROVE  Accounted(v, a, b)
BY DEF Accounted

(* Two stretches that are accounted for, one after the other.               *)
LEMMA SkipsChain ==
  ASSUME NEW u, NEW a \in Int, NEW b \in Int, NEW c \in Int,
         Accounted(u, a, b), Accounted(u, b, c)
  PROVE  Accounted(u, a, c)
<1> SUFFICES ASSUME NEW i \in a..(c - 1) PROVE i \in u
  BY DEF Accounted
<1>1. i \in a..(b - 1) \/ i \in b..(c - 1)
  OBVIOUS
<1> QED BY <1>1 DEF Accounted

(* A chunk that has been given up accounts for the stretch up to its end.   *)
LEMMA GivenUp ==
  ASSUME NEW u, NEW first \in Nat, NEW n \in Nat, NEW a \in Nat, first <= a,
         Span(first, n) \subseteq u
  PROVE  Accounted(u, a, first + n)
BY DEF Accounted, Span

(* Jobs and chunks end at a symbol.                                         *)
LEMMA EndType ==
  /\ \A j \in Jobs : j.pos \in Nat /\ EndOf(j) \in Nat
  /\ \A c \in Chunks : c.pos \in Nat /\ EndOf(c) \in Nat
BY JobFields, ChunkFields DEF EndOf

(* The types of what the invariant of the gaps speaks of.                   *)
LEMMA GapTypes ==
  ASSUME TypeOK
  PROVE  /\ job \in Jobs /\ EndOf(job) \in Nat /\ job.pos \in Nat /\ job.epoch \in Nat
         /\ chunk.pos \in Nat /\ EndOf(chunk) \in Nat /\ cursor.next \in Nat
         /\ outer.next \in Nat /\ epoch \in Nat
         /\ SliceFirst \in Nat /\ SliceLen \in Nat /\ off \in Nat
         /\ queue \in Seq(Jobs)
         /\ \A i \in 1..Len(queue) : queue[i].pos \in Nat /\ EndOf(queue[i]) \in Nat
<1>1. job \in Jobs /\ chunk \in Chunks /\ queue \in Seq(Jobs)
  BY DEF TypeOK, WorkerTypes, FrontendTypes, FifoTypes
<1>2. \A i \in 1..Len(queue) : queue[i] \in Jobs
  BY <1>1
<1> QED BY <1>1, <1>2, EndType, JobFields, SliceType
        DEF TypeOK, FrontendTypes, FifoTypes, StreamTypes, WorkerTypes

(* The invariant holds at the start.                                        *)
LEMMA GapInit == Init => GapInv
<1> SUFFICES ASSUME Init PROVE Linked
  BY DEF GapInv
<1>1. outerGap \subseteq unmarked /\ JobFollows /\ HeadFollows /\ RestFollows
  BY DEF Init, JobFollows, EmptyOuter, HeadFollows, RestFollows
<1>2. NextFollows
  BY DEF Init, NextFollows, CursorFollows, InHand, NextChunkFollows, ChunkFollows, InLoss
<1> QED BY <1>1, <1>2 DEF Linked

(* Steps of the frontend that leave the queue and the decoder alone.        *)
LEMMA GapFrame ==
  ASSUME TypeOK, Linked, UNCHANGED <<queue, epoch, job, off, outer, outerGap>>,
         unmarked \subseteq unmarked',
         wpc' = wpc \/ (~Busy /\ wpc' = "idle")
  PROVE  /\ outerGap' \subseteq unmarked' /\ JobFollows' /\ HeadFollows' /\ RestFollows'
         /\ \A p : AfterQueue(p) => AfterQueue(p)'
         /\ Cleared => Cleared'
<1>1. Busy' <=> Busy
  BY DEF Busy
<1>2. outerGap' \subseteq unmarked'
  BY DEF Linked
<1>3. JobFollows'
  <2>1. UNCHANGED <<SliceFirst, SliceLen, SliceContinuous>>
    BY DEF SliceFirst, SliceLen, SliceContinuous
  <2> QED BY <1>1, <2>1, SkipsGrow DEF Linked, JobFollows, Busy, EndOf
<1>4. \A p : AfterJob(p) => AfterJob(p)'
  BY <1>1, SkipsGrow DEF AfterJob, EndOf, Stale
<1>5. \A p : AfterQueue(p) => AfterQueue(p)'
  BY <1>4, SkipsGrow DEF AfterQueue, EndOf
<1>6. HeadFollows'
  <2>1. PICK p : p = queue[1].pos
    OBVIOUS
  <2> QED BY <1>1, <2>1, SkipsGrow DEF Linked, HeadFollows, AfterJob, EndOf, Stale
<1>7. RestFollows'
  BY SkipsGrow DEF Linked, RestFollows, EndOf
<1>8. Cleared => Cleared'
  BY <1>1 DEF Cleared, Stale
<1> QED BY <1>2, <1>3, <1>5, <1>6, <1>7, <1>8

(* A chunk that is given up unmarked may be skipped.                        *)
LEMMA HeldFollows ==
  ASSUME TypeOK, UNCHANGED <<queue, epoch, job, outer, wpc, cursor, chunk>>,
         AfterQueue(chunk.pos), cursor.next = chunk.pos + chunk.n,
         unmarked' = unmarked \cup Span(chunk.pos, chunk.n)
  PROVE  AfterQueue(cursor.next)'
<1>1. /\ chunk.pos \in Nat /\ chunk.n \in Nat /\ outer.next \in Nat
      /\ EndOf(job) \in Nat /\ \A i \in 1..Len(queue) : EndOf(queue[i]) \in Nat
  BY GapTypes, ChunkFields DEF TypeOK, FrontendTypes
<1>2. \A a \in Nat : Accounted(unmarked, a, chunk.pos) => Accounted(unmarked', a, cursor.next)
  <2> TAKE a \in Nat
  <2> HAVE Accounted(unmarked, a, chunk.pos)
  <2>1. Accounted(unmarked', a, chunk.pos)
    BY SkipsGrow
  <2>2. Accounted(unmarked', chunk.pos, cursor.next)
    BY <1>1, GivenUp
  <2> QED BY <1>1, <2>1, <2>2, SkipsChain
<1>3. queue # <<>> => Len(queue) \in 1..Len(queue)
  BY GapTypes
<1>4. Busy' <=> Busy
  BY DEF Busy
<1>5. queue # <<>> /\ AfterQueue(chunk.pos) => AfterQueue(cursor.next)'
  BY <1>1, <1>2, <1>3 DEF AfterQueue, EndOf
<1>6. queue = <<>> /\ AfterQueue(chunk.pos) => AfterQueue(cursor.next)'
  BY <1>1, <1>2, <1>4 DEF AfterQueue, AfterJob, Stale, EndOf
<1> QED BY <1>5, <1>6

(* Steps of the frontend keep what comes next linked.                       *)
LEMMA GapFrontend ==
  ASSUME TypeOK, EpochInv, Linked, Frontend
  PROVE  Linked'
<1> USE DEF At, Goto
<1>0. CursorFollows /\ NextChunkFollows /\ ChunkFollows
  BY DEF Linked, NextFollows
<1>t. /\ cursor.next \in Nat /\ chunk.pos \in Nat /\ chunk.n \in Nat /\ air \in Nat
      /\ EndOf(chunk) = chunk.pos + chunk.n
  BY GapTypes, ChunkFields DEF TypeOK, FrontendTypes, EndOf
<1>1. ASSUME NEW n \in 1..MaxChunk, NEW skip \in 0..MaxSkip, NEW lock \in Locks,
             NEW match \in BOOLEAN, ReceiveChunk(n, skip, lock, match)
      PROVE  Linked'
  <2>1. UNCHANGED <<queue, epoch, job, off, outer, outerGap, unmarked, wpc, gapPending>>
    BY <1>1 DEF ReceiveChunk, fifo, worker, streams, history
  <2>2. CursorFollows'
    BY <1>1 DEF ReceiveChunk, CursorFollows, EndOf
  <2>3. fpc = "receive" /\ fpc' \in {"pilot", "lost_inner"}
    BY <1>1 DEF ReceiveChunk
  <2>4. (fpc' = "pilot" <=> chunk'.continuous) /\ chunk'.continuous \in BOOLEAN
    BY <1>1 DEF ReceiveChunk, TypeOK, FrontendTypes
  <2>5. chunk'.continuous => cursor.valid /\ chunk'.pos = cursor.next
    BY <1>1 DEF ReceiveChunk
  <2>6. NextFollows'
    BY <1>0, <2>1, <2>2, <2>3, <2>4, <2>5, GapFrame
       DEF NextFollows, NextChunkFollows, ChunkFollows, InLoss
  <2> QED BY <2>1, <2>6, GapFrame DEF Linked
<1>2. CASE PilotGood
  <2>1. UNCHANGED <<queue, epoch, job, off, outer, outerGap, unmarked, wpc, gapPending,
                    cursor, chunk>>
    BY <1>2 DEF PilotGood, fifo, worker, streams, history
  <2>2. fpc = "pilot" /\ fpc' \in {"enqueue", "soft_inner"}
    BY <1>2 DEF PilotGood
  <2>3. NextFollows'
    BY <1>0, <2>1, <2>2, GapFrame
       DEF NextFollows, CursorFollows, InHand, EndOf, NextChunkFollows, ChunkFollows, InLoss
  <2> QED BY <2>1, <2>3, GapFrame DEF Linked
<1>3. CASE PilotHold
  <2>1. UNCHANGED <<queue, epoch, job, off, outer, outerGap, wpc, gapPending, cursor, chunk>>
    BY <1>3 DEF PilotHold, fifo, worker, streams
  <2>2. /\ fpc = "pilot" /\ fpc' = "receive" /\ chunk.continuous
        /\ unmarked' = unmarked \cup Span(chunk.pos, chunk.n)
    BY <1>3 DEF PilotHold, MayHold
  <2>3. cursor.next = chunk.pos + chunk.n
    BY <1>0, <1>t, <2>2 DEF CursorFollows, InHand
  <2>4. gapPending \/ AfterQueue(cursor.next)'
    BY <1>0, <1>t, <2>1, <2>2, <2>3, HeldFollows DEF ChunkFollows
  <2>5. NextFollows'
    BY <2>1, <2>2, <2>4 DEF NextFollows, CursorFollows, InHand, NextChunkFollows,
                            ChunkFollows, InLoss
  <2> QED BY <2>1, <2>2, <2>5, GapFrame DEF Linked
<1>4. CASE PilotDrop
  <2>1. UNCHANGED <<queue, epoch, job, off, outer, outerGap, unmarked, wpc, gapPending, chunk>>
    BY <1>4 DEF PilotDrop, fifo, worker, streams, history
  <2>2. fpc = "pilot" /\ fpc' = "drop_inner" /\ cursor'.next = cursor.next
    BY <1>4 DEF PilotDrop, TypeOK, FrontendTypes
  <2>3. NextFollows'
    BY <1>0, <2>1, <2>2
       DEF NextFollows, CursorFollows, InHand, EndOf, NextChunkFollows, ChunkFollows, InLoss
  <2> QED BY <2>1, <2>3, GapFrame DEF Linked
<1>5. ASSUME NEW label \in {"lost_inner", "drop_inner", "soft_inner", "refused"},
             NEW next \in {"lost_invalidate", "drop_invalidate", "enqueue", "receive"},
             FrontendResetInner(label, next),
             <<label, next>> \in {<<"lost_inner", "lost_invalidate">>, <<"soft_inner", "enqueue">>,
                                 <<"drop_inner", "drop_invalidate">>, <<"refused", "receive">>}
      PROVE  Linked'
  <2>1. UNCHANGED <<queue, epoch, job, off, outer, outerGap, unmarked, wpc, gapPending,
                    cursor, chunk>>
    BY <1>5 DEF FrontendResetInner, fifo, worker, history
  <2>2. fpc = label /\ fpc' = next
    BY <1>5 DEF FrontendResetInner
  <2>3. NextFollows'
    BY <1>0, <1>5, <2>1, <2>2, GapFrame
       DEF NextFollows, CursorFollows, InHand, EndOf, NextChunkFollows, ChunkFollows, InLoss
  <2> QED BY <2>1, <2>3, GapFrame DEF Linked
<1>6. ASSUME NEW label, NEW next, FrontendInvalidate(label, next),
             <<label, next>> \in {<<"lost_invalidate", "lost_outer">>,
                                 <<"drop_invalidate", "drop_outer">>}
      PROVE  Linked'
  <2>1. UNCHANGED <<job, off, outer, outerGap, unmarked, wpc, cursor, chunk>> /\ queue' = <<>>
    BY <1>6 DEF FrontendInvalidate, worker, streams, history
  <2>2. fpc = label /\ fpc' = next
    BY <1>6 DEF FrontendInvalidate
  <2>3. outerGap' \subseteq unmarked' /\ JobFollows'
    BY <2>1 DEF Linked, JobFollows, SliceFirst, SliceLen, SliceContinuous, EndOf
  <2>4. HeadFollows' /\ RestFollows'
    BY <2>1 DEF HeadFollows, RestFollows
  <2>5. NextFollows'
    BY <1>0, <1>6, <2>1, <2>2
       DEF NextFollows, CursorFollows, InHand, EndOf, NextChunkFollows, ChunkFollows, InLoss
  <2> QED BY <2>3, <2>4, <2>5 DEF Linked
<1>7. ASSUME NEW label, NEW next, FrontendResetOuter(label, next),
             <<label, next>> \in {<<"lost_outer", "pilot">>, <<"drop_outer", "receive">>}
      PROVE  Linked'
  <2>1. /\ UNCHANGED <<queue, epoch, job, off, outerGap, unmarked, wpc, gapPending, cursor, chunk>>
        /\ outer'.epochs = {}
    BY <1>7 DEF FrontendResetOuter, fifo, worker, history, EmptyOuter
  <2>2. fpc = label /\ fpc' = next
    BY <1>7 DEF FrontendResetOuter
  <2>3. queue = <<>> /\ (Busy => job.epoch < epoch)
    BY <1>7, <2>2 DEF EpochInv, PendingIsStale, ResetPending
  <2>4. outerGap' \subseteq unmarked' /\ JobFollows' /\ HeadFollows' /\ RestFollows'
    BY <2>1, <2>3 DEF Linked, JobFollows, HeadFollows, RestFollows
  <2>5. Cleared'
    BY <2>1, <2>3, GapTypes DEF Cleared, Busy, Stale
  <2>6. AfterQueue(cursor.next)'
    BY <2>5 DEF Cleared, AfterQueue, AfterJob
  <2>7. NextFollows'
    BY <1>0, <1>7, <2>1, <2>2, <2>5, <2>6
       DEF NextFollows, CursorFollows, InHand, EndOf, NextChunkFollows, ChunkFollows, InLoss
  <2> QED BY <2>4, <2>7 DEF Linked
<1>8. CASE FrontendReset
  BY <1>5, <1>6, <1>7, <1>8 DEF FrontendReset
<1>9. CASE StartWorker
  <2>1. UNCHANGED <<queue, epoch, job, off, outer, outerGap, unmarked, gapPending, cursor,
                    chunk, fpc>>
    BY <1>9 DEF StartWorker, frontend, streams, history
  <2>2. wpc' = "idle" /\ ~Busy
    BY <1>9 DEF StartWorker, Busy
  <2>3. NextFollows'
    BY <1>0, <2>1, <2>2, GapFrame
       DEF NextFollows, CursorFollows, InHand, EndOf, NextChunkFollows, ChunkFollows, InLoss
  <2> QED BY <2>1, <2>2, <2>3, GapFrame DEF Linked
<1>10. CASE SoftFifoNoMemory \/ EnqueueNoMemory
  <2>1. UNCHANGED <<queue, epoch, job, off, outer, outerGap, wpc, gapPending, cursor, chunk>>
    BY <1>10 DEF SoftFifoNoMemory, EnqueueNoMemory, fifo, worker, streams
  <2>2. fpc = "enqueue" /\ fpc' \in {"receive", "refused"} /\ unmarked \subseteq unmarked'
    BY <1>10 DEF SoftFifoNoMemory, EnqueueNoMemory, Refused
  <2>3. cursor.next = chunk.pos + chunk.n
    BY <1>0, <1>t, <2>2 DEF CursorFollows, InHand
  <2>4. gapPending \/ AfterQueue(cursor.next)'
    <3>1. CASE chunk.continuous
      <4>1. unmarked' = unmarked \cup Span(chunk.pos, chunk.n)
        BY <1>10, <3>1 DEF SoftFifoNoMemory, EnqueueNoMemory
      <4> QED BY <1>0, <1>t, <2>1, <2>2, <2>3, <3>1, <4>1, HeldFollows DEF ChunkFollows
    <3>2. CASE ~chunk.continuous
      <4>1. Cleared'
        BY <1>0, <2>1, <2>2, <3>2, GapFrame DEF ChunkFollows
      <4> QED BY <4>1 DEF Cleared, AfterQueue, AfterJob
    <3> QED BY <3>1, <3>2
  <2>5. NextFollows'
    BY <1>0, <2>1, <2>2, <2>4
       DEF NextFollows, CursorFollows, InHand, EndOf, NextChunkFollows, ChunkFollows, InLoss
  <2> QED BY <2>1, <2>2, <2>5, GapFrame DEF Linked
<1>11. CASE EnqueueTooLarge \/ EnqueueFull
  <2>1. UNCHANGED <<queue, epoch, job, off, outer, outerGap, unmarked, wpc, cursor, chunk>>
    BY <1>11 DEF EnqueueTooLarge, EnqueueFull, worker, streams, history
  <2>2. fpc = "enqueue" /\ fpc' \in {"receive", "refused"} /\ gapPending'
    BY <1>11 DEF EnqueueTooLarge, EnqueueFull, Refused
  <2>3. NextFollows'
    BY <1>0, <2>1, <2>2
       DEF NextFollows, CursorFollows, InHand, EndOf, NextChunkFollows, ChunkFollows, InLoss
  <2> QED BY <2>1, <2>3, GapFrame DEF Linked
<1>12. CASE EnqueueAccept
  <2>1. UNCHANGED <<epoch, job, off, outer, outerGap, unmarked, cursor, chunk>>
    BY <1>12 DEF EnqueueAccept, streams, history
  <2>2. fpc = "enqueue" /\ fpc' = "receive" /\ (Busy' <=> Busy)
    BY <1>12 DEF EnqueueAccept, Busy
  <2>3. outerGap' \subseteq unmarked' /\ JobFollows'
    BY <1>12, <2>1
       DEF EnqueueAccept, Linked, JobFollows, SliceFirst, SliceLen, SliceContinuous, EndOf
  <2>4. /\ queue \in Seq(Jobs) /\ queue' = Append(queue, Window) /\ Len(queue) \in Nat
        /\ Len(queue') = Len(queue) + 1 /\ queue'[Len(queue) + 1] = Window
        /\ \A i \in 1..Len(queue) : queue'[i] = queue[i]
    BY <1>12, GapTypes DEF EnqueueAccept
  <2>5. Window.continuous => AfterQueue(Window.pos)
    BY <1>0, <2>2 DEF Window, ChunkFollows
  <2>6. \A p : AfterJob(p) => AfterJob(p)'
    BY <2>1, <2>2 DEF AfterJob, EndOf, Stale
  <2>7. HeadFollows'
    BY <2>4, <2>5, <2>6 DEF Linked, HeadFollows, AfterQueue
  <2>8. RestFollows'
    BY <2>1, <2>4, <2>5 DEF Linked, RestFollows, AfterQueue, EndOf
  <2>9. NextFollows'
    <3>1. EndOf(queue'[Len(queue')]) = cursor'.next /\ queue' # <<>>
      BY <1>0, <2>1, <2>2, <2>4 DEF CursorFollows, InHand, Window, EndOf
    <3>2. AfterQueue(cursor.next)'
      BY <1>t, <2>1, <3>1, NothingSkipped DEF AfterQueue, EndOf
    <3> QED BY <2>2, <3>2 DEF NextFollows, CursorFollows, InHand, NextChunkFollows,
                              ChunkFollows, InLoss
  <2> QED BY <2>3, <2>7, <2>8, <2>9 DEF Linked
<1>13. CASE Shutdown
  <2>1. UNCHANGED <<queue, epoch, job, off, outer, outerGap, unmarked, chunk, cursor>>
    BY <1>13 DEF Shutdown, streams, history
  <2>2. fpc' = "join" /\ (wpc' = wpc \/ (~Busy /\ wpc' = "idle"))
    BY <1>13 DEF Shutdown, Busy
  <2>3. NextFollows'
    BY <2>2 DEF NextFollows, CursorFollows, InHand, NextChunkFollows, ChunkFollows, InLoss
  <2> QED BY <2>1, <2>2, <2>3, GapFrame DEF Linked
<1>14. CASE Join
  <2>1. UNCHANGED <<epoch, job, off, outer, outerGap, unmarked, wpc>> /\ queue' = <<>>
    BY <1>14 DEF Join, worker, streams, history
  <2>2. outerGap' \subseteq unmarked' /\ JobFollows'
    BY <2>1 DEF Linked, JobFollows, SliceFirst, SliceLen, SliceContinuous, EndOf
  <2>3. HeadFollows' /\ RestFollows'
    BY <2>1 DEF HeadFollows, RestFollows
  <2>4. NextFollows'
    BY <1>14 DEF Join, NextFollows, CursorFollows, InHand, NextChunkFollows, ChunkFollows, InLoss
  <2> QED BY <2>2, <2>3, <2>4 DEF Linked
<1> QED BY <1>1, <1>2, <1>3, <1>4, <1>8, <1>9, <1>10, <1>11, <1>12, <1>13, <1>14
        DEF Frontend, Enqueue

(* A step of the worker that takes nothing from the queue.                  *)
LEMMA GapInJob ==
  ASSUME TypeOK, Linked, UNCHANGED frontend, UNCHANGED <<queue, gapPending>>,
         queue = <<>> \/ ~ResetPending, unmarked \subseteq unmarked',
         outerGap' \subseteq unmarked', JobFollows',
         ~ResetPending => /\ \A p \in Int : AfterJob(p) => AfterJob(p)'
                          /\ Cleared => Cleared'
  PROVE  Linked'
<1>t. cursor.next \in Int /\ chunk.pos \in Int
  BY GapTypes
<1>1. HeadFollows'
  <2>1. queue # <<>> => queue[1].pos \in Int
    BY GapTypes
  <2> QED BY <2>1 DEF Linked, HeadFollows
<1>2. RestFollows'
  BY SkipsGrow DEF Linked, RestFollows, EndOf
<1>3. ~ResetPending => \A p \in Int : AfterQueue(p) => AfterQueue(p)'
  BY SkipsGrow DEF AfterQueue, EndOf
<1>4. NextFollows'
  BY <1>t, <1>3 DEF Linked, frontend, NextFollows, CursorFollows, InHand, EndOf, NextChunkFollows,
              ChunkFollows, InLoss, ResetPending
<1> QED BY <1>1, <1>2, <1>4 DEF Linked

(* While the worker stays in its job, whoever follows it is still welcome.  *)
LEMMA BusyStays ==
  ASSUME Busy, Busy', UNCHANGED <<queue, job, epoch>>, unmarked \subseteq unmarked'
  PROVE  /\ \A p : AfterJob(p) => AfterJob(p)'
         /\ Cleared => Cleared'
BY SkipsGrow DEF AfterJob, EndOf, Stale, Cleared

(* What the outer stream skips, when a slice is fed to it.                  *)
LEMMA FedIsAccounted ==
  ASSUME Linked, wpc = "feeding"
  PROVE  FedGap \subseteq unmarked
BY DEF Linked, JobFollows, FedGap, Accounted

(* Steps of the worker keep what comes next linked, unless a stale job      *)
(* fails.                                                                   *)
LEMMA GapWorker ==
  ASSUME TypeOK, EpochInv, ~staleFailure, Linked, Worker
  PROVE  staleFailure' \/ Linked'
<1> USE DEF Step
<1>0. JobFollows /\ outerGap \subseteq unmarked
  BY DEF Linked
<1>p. queue = <<>> \/ ~ResetPending
  BY DEF EpochInv, PendingIsStale
<1>t. /\ off \in Nat /\ SliceLen \in Nat /\ SliceFirst \in Nat /\ outer.next \in Nat
      /\ EndOf(job) \in Nat /\ SliceFirst = job.pos + off /\ EndOf(job) = job.pos + job.n
      /\ off + SliceLen <= job.n /\ job.pos \in Nat /\ job.n \in Nat
  <2>1. job.n \in Nat /\ off < job.n
    BY JobFields DEF TypeOK, WorkerTypes
  <2> QED BY <2>1, GapTypes, ConstantTypes DEF SliceFirst, SliceLen, EndOf
<1>1. CASE WorkerSleep \/ WorkerExit
  <2>1. /\ ~Busy /\ ~Busy' /\ UNCHANGED <<frontend, queue, gapPending, epoch, job, outer>>
        /\ UNCHANGED <<unmarked, outerGap>> /\ wpc' \in {"sleep", "exited"}
    BY <1>1 DEF WorkerSleep, WorkerExit, Busy, fifo, streams, history
  <2>2. JobFollows'
    BY <2>1 DEF JobFollows
  <2>3. (\A p : AfterJob(p) => AfterJob(p)') /\ (Cleared => Cleared')
    BY <2>1 DEF AfterJob, Cleared
  <2> QED BY <1>0, <1>p, <2>1, <2>2, <2>3, GapInJob
<1>2. CASE WorkerTake
  <2>1. /\ queue # <<>> /\ queue \in Seq(Jobs) /\ Len(queue) \in Nat \ {0}
        /\ job' = Head(queue) /\ Head(queue) = queue[1] /\ queue' = Tail(queue)
        /\ Len(queue') = Len(queue) - 1
        /\ \A i \in 1..Len(queue') : queue'[i] = queue[i + 1]
    BY <1>2, GapTypes DEF WorkerTake
  <2>2. UNCHANGED <<frontend, gapPending, epoch, outer, unmarked, outerGap>> /\ off' = 0
    BY <1>2 DEF WorkerTake, streams, history
  <2>3. ~Busy /\ Busy' /\ wpc' = "check"
    BY <1>2 DEF WorkerTake, Busy
  <2>4. JobFollows'
    <3>1. queue[1].continuous /\ outer.epochs # {} => Accounted(unmarked, outer.next, queue[1].pos)
      BY <2>1, <2>3 DEF Linked, HeadFollows, AfterJob
    <3>2. SliceFirst' = queue[1].pos /\ (SliceContinuous' => queue[1].continuous)
      <4>1. queue[1].pos \in Nat
        BY <2>1, GapTypes
      <4> QED BY <2>1, <2>2, <4>1 DEF SliceFirst, SliceContinuous
    <3> QED BY <2>2, <2>3, <3>1, <3>2 DEF JobFollows
  <2>5. \A p : AfterQueue(p) => AfterQueue(p)'
    <3> SUFFICES ASSUME NEW p, AfterQueue(p) PROVE AfterQueue(p)'
      OBVIOUS
    <3>1. Accounted(unmarked, EndOf(queue[Len(queue)]), p)
      BY <2>1 DEF AfterQueue
    <3>2. CASE Len(queue) = 1
      <4>1. queue' = <<>> /\ EndOf(job)' = EndOf(queue[Len(queue)])
        BY <2>1, <3>2 DEF EndOf
      <4> QED BY <2>2, <2>3, <3>1, <4>1 DEF AfterQueue, AfterJob
    <3>3. CASE Len(queue) # 1
      <4>1. Len(queue') \in 1..Len(queue') /\ queue' # <<>> /\ Len(queue') + 1 = Len(queue)
        BY <2>1, <3>3
      <4>2. queue'[Len(queue')] = queue[Len(queue)]
        BY <2>1, <4>1
      <4> QED BY <2>2, <3>1, <4>1, <4>2 DEF AfterQueue, EndOf
    <3> QED BY <3>2, <3>3
  <2>6. HeadFollows'
    <3> SUFFICES ASSUME queue' # <<>>, queue'[1].continuous PROVE AfterJob(queue[1].pos)'
      BY DEF HeadFollows
    <3>1. queue'[1] = queue[2] /\ 2 \in 2..Len(queue)
      BY <2>1
    <3>2. Accounted(unmarked, EndOf(queue[1]), queue[2].pos)
      BY <3>1 DEF Linked, RestFollows
    <3> QED BY <2>1, <2>2, <2>3, <3>1, <3>2 DEF AfterJob, EndOf
  <2>7. RestFollows'
    <3> SUFFICES ASSUME NEW i \in 2..Len(queue'), queue'[i].continuous
                 PROVE  Accounted(unmarked', EndOf(queue'[i - 1]), queue'[i].pos)
      BY DEF RestFollows, EndOf
    <3>1. queue'[i] = queue[i + 1] /\ queue'[i - 1] = queue[i] /\ i + 1 \in 2..Len(queue)
      BY <2>1
    <3>2. Accounted(unmarked, EndOf(queue[(i + 1) - 1]), queue[i + 1].pos)
      BY <3>1 DEF Linked, RestFollows
    <3> QED BY <2>2, <3>1, <3>2
  <2>8. NextFollows'
    <3>1. ~Cleared
      BY <2>1 DEF Cleared
    <3> QED BY <2>2, <2>5, <3>1 DEF Linked, frontend, NextFollows, CursorFollows, InHand, EndOf,
                                    NextChunkFollows, ChunkFollows, InLoss
  <2> QED BY <1>0, <2>2, <2>4, <2>6, <2>7, <2>8 DEF Linked
<1>3. CASE WorkerCheck("check", "deinterleave") \/ WorkerCheck("deinterleave", "viterbi")
             \/ ViterbiStart \/ ViterbiEnd \/ OuterStart
  <2>1. /\ Busy /\ Busy' /\ UNCHANGED <<frontend, queue, gapPending, epoch, job, off>>
        /\ UNCHANGED <<unmarked, outerGap>>
    BY <1>3 DEF WorkerCheck, ViterbiStart, ViterbiEnd, OuterStart, Busy, fifo, history
  <2>2. UNCHANGED <<SliceFirst, SliceLen, SliceContinuous>>
    BY <2>1 DEF SliceFirst, SliceLen, SliceContinuous
  <2>3. JobFollows'
    <3>1. CASE OuterStart
      BY <1>0, <2>1, <2>2, <3>1 DEF OuterStart, JobFollows, EmptyOuter
    <3>2. CASE ~OuterStart
      <4>1. UNCHANGED outer
        BY <1>3, <3>2 DEF WorkerCheck, ViterbiStart, ViterbiEnd, streams
      <4>2. /\ wpc \in {"check", "deinterleave", "viterbi", "decoding"}
            /\ wpc' \in {"deinterleave", "viterbi", "decoding", "outer", "stale"}
        BY <1>3, <3>2 DEF WorkerCheck, ViterbiStart, ViterbiEnd
      <4> QED BY <1>0, <2>1, <2>2, <4>1, <4>2 DEF JobFollows
    <3> QED BY <3>1, <3>2
  <2> QED BY <1>0, <1>p, <2>1, <2>3, GapInJob, BusyStays
<1>4. CASE OuterFeed
  <2>1. /\ Busy /\ Busy' /\ UNCHANGED <<frontend, queue, gapPending, epoch, job, off, unmarked>>
        /\ wpc = "feeding" /\ wpc' = "recheck" /\ outerGap' = outerGap \cup FedGap
        /\ outer'.next = SliceFirst + SliceLen
    BY <1>4 DEF OuterFeed, Busy, fifo, Fed
  <2>2. UNCHANGED <<SliceFirst, SliceLen, SliceContinuous>>
    BY <2>1 DEF SliceFirst, SliceLen, SliceContinuous
  <2>3. JobFollows'
    BY <1>t, <2>1, <2>2, NothingSkipped DEF JobFollows
  <2>4. outerGap' \subseteq unmarked'
    BY <1>0, <2>1, FedIsAccounted
  <2> QED BY <1>p, <2>1, <2>3, <2>4, GapInJob, BusyStays
<1>5. CASE WorkerRecheck
  <2>1. /\ Busy /\ Busy' /\ UNCHANGED <<frontend, queue, gapPending, epoch, job, unmarked>>
        /\ UNCHANGED <<outer, outerGap>> /\ wpc = "recheck"
    BY <1>5 DEF WorkerRecheck, Busy, fifo, streams, history
  <2>2. outer.epochs # {} => Accounted(unmarked, outer.next, SliceFirst + SliceLen)
    BY <1>0, <2>1 DEF JobFollows
  <2>3. JobFollows'
    <3>1. CASE wpc' = "stale"
      BY <3>1 DEF JobFollows
    <3>2. CASE wpc' = "finish"
      <4>1. off + SliceLen >= job.n
        BY <1>5, <3>2 DEF WorkerRecheck
      <4>2. SliceFirst + SliceLen = EndOf(job)
        BY <1>t, <4>1
      <4>3. EndOf(job)' = EndOf(job)
        BY <2>1 DEF EndOf
      <4> QED BY <2>1, <2>2, <3>2, <4>2, <4>3 DEF JobFollows
    <3>3. CASE wpc' = "check"
      <4>1. off' = off + SliceLen
        BY <1>5, <3>3 DEF WorkerRecheck
      <4>2. SliceFirst' = SliceFirst + SliceLen
        BY <1>t, <2>1, <4>1 DEF SliceFirst
      <4> QED BY <2>1, <2>2, <3>3, <4>2 DEF JobFollows
    <3> QED BY <1>5, <3>1, <3>2, <3>3 DEF WorkerRecheck
  <2> QED BY <1>0, <1>p, <2>1, <2>3, GapInJob, BusyStays
<1>6. CASE WorkerFail
  <2>1. /\ Busy /\ Busy' /\ UNCHANGED <<frontend, queue, gapPending, epoch, job, off>>
        /\ wpc' = "finish" /\ unmarked' = unmarked \cup (GivenUpFrom..(job.pos + job.n - 1))
        /\ outerGap' = outerGap \/ (wpc = "feeding" /\ outerGap' = outerGap \cup FedGap)
    BY <1>6 DEF WorkerFail, Busy, fifo
  <2>2. Accounted(unmarked', GivenUpFrom, EndOf(job))
    BY <2>1, <1>t DEF Accounted
  <2>3. JobFollows'
    <3>1. EndOf(job)' = EndOf(job)
      BY <2>1 DEF EndOf
    <3>2. CASE wpc = "feeding"
      <4>1. outer'.next = GivenUpFrom
        BY <1>6, <3>2 DEF WorkerFail, Fed, GivenUpFrom
      <4> QED BY <2>1, <2>2, <3>1, <4>1 DEF JobFollows
    <3>3. CASE wpc # "feeding"
      <4>1. outer' = outer /\ wpc \in {"deinterleave", "decoding"}
        BY <1>6, <3>3 DEF WorkerFail
      <4>2. SliceContinuous /\ outer.epochs # {} => Accounted(unmarked, outer.next, SliceFirst)
        BY <1>0, <4>1 DEF JobFollows
      <4>3. outer.epochs # {} => Accounted(unmarked', outer.next, EndOf(job))
        <5>1. CASE SliceContinuous
          <6> SUFFICES ASSUME outer.epochs # {}
                       PROVE  Accounted(unmarked', outer.next, EndOf(job))
            OBVIOUS
          <6>1. Accounted(unmarked', outer.next, SliceFirst)
            BY <2>1, <4>2, <5>1, SkipsGrow
          <6>2. Accounted(unmarked', SliceFirst, EndOf(job))
            BY <2>2, <3>3, <5>1 DEF GivenUpFrom
          <6> QED BY <1>t, <6>1, <6>2, SkipsChain
        <5>2. CASE ~SliceContinuous
          BY <2>2, <3>3, <5>2 DEF GivenUpFrom
        <5> QED BY <5>1, <5>2
      <4> QED BY <2>1, <3>1, <4>1, <4>3 DEF JobFollows
    <3> QED BY <3>2, <3>3
  <2>4. outerGap' \subseteq unmarked'
    BY <1>0, <2>1, FedIsAccounted
  <2> QED BY <1>p, <2>1, <2>3, <2>4, GapInJob, BusyStays
<1>7. CASE WorkerStale
  <2>1. /\ Busy /\ Busy' /\ UNCHANGED <<frontend, queue, gapPending, epoch, job, unmarked>>
        /\ UNCHANGED outerGap /\ outer'.epochs = {}
    BY <1>7 DEF WorkerStale, Busy, fifo, history, EmptyOuter
  <2>2. JobFollows'
    BY <2>1 DEF JobFollows
  <2> QED BY <1>0, <1>p, <2>1, <2>2, GapInJob, BusyStays
<1>8. CASE WorkerFinish
  <2>1. /\ Busy /\ ~Busy' /\ UNCHANGED <<frontend, queue, gapPending, epoch, job, unmarked>>
        /\ UNCHANGED <<outer, outerGap>> /\ wpc = "finish" /\ wpc' = "idle"
    BY <1>8 DEF WorkerFinish, Busy, streams, history
  <2>2. JobFollows'
    BY <2>1 DEF JobFollows
  <2>3. Stale /\ ~ResetPending => outer.epochs = {}
    BY <2>1 DEF EpochInv, OuterIsClean, StaleIsGone
  <2>4. ~ResetPending => \A p \in Int : AfterJob(p) => AfterJob(p)'
    <3> SUFFICES ASSUME ~ResetPending, NEW p \in Int, AfterJob(p), outer.epochs # {}
                 PROVE  Accounted(unmarked, outer.next, p)
      BY <2>1 DEF AfterJob
    <3>1. Accounted(unmarked, EndOf(job), p)
      BY <2>1, <2>3 DEF AfterJob
    <3>2. Accounted(unmarked, outer.next, EndOf(job))
      BY <1>0, <2>1 DEF JobFollows
    <3> QED BY <1>t, <3>1, <3>2, SkipsChain
  <2>5. ~ResetPending /\ Cleared => Cleared'
    BY <2>1, <2>3 DEF Cleared
  <2> QED BY <1>0, <1>p, <2>1, <2>2, <2>4, <2>5, GapInJob
<1> QED BY <1>1, <1>2, <1>3, <1>4, <1>5, <1>6, <1>7, <1>8 DEF Worker

(* GapInv is inductive relative to the types and EpochInv.                  *)
LEMMA GapStep == TypeOK /\ EpochInv /\ GapInv /\ [Next]_vars => GapInv'
<1> SUFFICES ASSUME TypeOK, EpochInv, GapInv, [Next]_vars PROVE GapInv'
  OBVIOUS
<1>1. CASE staleFailure
  <2>1. staleFailure'
    BY <1>1 DEF Next, Frontend, ReceiveChunk, PilotGood, PilotHold, PilotDrop, FrontendReset,
       FrontendResetInner, FrontendInvalidate, FrontendResetOuter, Enqueue, StartWorker,
       SoftFifoNoMemory, EnqueueNoMemory, EnqueueTooLarge, EnqueueFull, EnqueueAccept, Shutdown,
       Join, Worker, WorkerSleep, WorkerExit, WorkerTake, WorkerCheck, ViterbiStart, ViterbiEnd,
       OuterStart, OuterFeed, WorkerRecheck, WorkerFail, WorkerStale, WorkerFinish, Terminated,
       vars, history
  <2> QED BY <2>1 DEF GapInv
<1>2. CASE ~staleFailure /\ Linked
  <2>1. CASE Frontend
    BY <1>2, <2>1, GapFrontend DEF GapInv
  <2>2. CASE Worker
    BY <1>2, <2>2, GapWorker DEF GapInv
  <2>3. CASE UNCHANGED vars
    <3>1. UNCHANGED <<queue, epoch, job, off, outer, outerGap, unmarked, wpc, fpc, chunk,
                      cursor, gapPending>>
      BY <2>3 DEF vars, frontend, fifo, worker, streams, history
    <3>2. NextFollows'
      BY <1>2, <3>1, GapFrame
         DEF Linked, NextFollows, CursorFollows, InHand, EndOf, NextChunkFollows,
             ChunkFollows, InLoss
    <3> QED BY <1>2, <3>1, <3>2, GapFrame DEF Linked, GapInv
  <2> QED BY <2>1, <2>2, <2>3 DEF Next, Terminated
<1> QED BY <1>1, <1>2 DEF GapInv

(* However windows are dropped, refused, held over or invalidated, and      *)
(* whatever fails: inside a run of the outer FEC no symbol is missing but   *)
(* those the program gives up without marking the discontinuity.            *)
THEOREM NothingSkippedUnmarked == Spec => []OuterGapsAccounted
<1>1. GapInv => OuterGapsAccounted
  BY DEF GapInv, Linked, OuterGapsAccounted
<1> QED BY <1>1, TypeInit, TypeStep, EpochInit, EpochStep, GapInit, GapStep, PTL DEF Spec
-----------------------------------------------------------------------------
(* The sum of a queue's symbols.  What a recursive function computes is     *)
(* shown by the least number for which it fails, where a step contradicts   *)
(* it: the library has that principle for sets, not only for operators.     *)

Less == {ss \in Nat \X Nat : ss[1] < ss[2]}

(* A set of natural numbers that is not empty has a least one: what an      *)
(* induction over the queue rests on.                                       *)
LEMMA LeastNumber ==
  ASSUME NEW S \in SUBSET Nat, S # {}
  PROVE  \E m \in S : \A k \in S : m <= k
<1>1. IsWellFoundedOn(Less, Nat)
  BY NatLessThanWellFounded DEF OpToRel, Less
<1>2. PICK m \in S : \A k \in S : ~(<<k, m>> \in Less)
  BY <1>1, WFMin, Zenon
<1>3. \A k \in Nat : k < m => <<k, m>> \in Less
  BY DEF Less
<1>4. \A k \in S : ~(k < m)
  BY <1>2, <1>3, Zenon
<1> QED BY <1>4

(* f is the sums of the first jobs of q, up to k of them.                   *)
Sums(q, k, f) == f = [i \in 0..k |-> IF i = 0 THEN 0 ELSE f[i - 1] + q[i].n]

(* The running sums over a queue can be formed, for every length.           *)
LEMMA SumsExist ==
  ASSUME NEW q
  PROVE  \A k \in Nat : \E f : Sums(q, k, f)
<1> DEFINE Bad == {k \in Nat : ~\E f : Sums(q, k, f)}
<1> SUFFICES ASSUME Bad # {} PROVE FALSE
  OBVIOUS
<1>1. PICK m \in Bad : \A k \in Bad : m <= k
  <2>1. Bad \in SUBSET Nat
    OBVIOUS
  <2> HIDE DEF Bad
  <2> QED BY <2>1, LeastNumber
<1>2. m # 0
  <2>1. Sums(q, 0, [i \in 0..0 |-> 0])
    BY DEF Sums
  <2> QED BY <2>1
<1>3. PICK f : Sums(q, m - 1, f)
  BY <1>1, <1>2
<1> DEFINE g == [i \in 0..m |-> IF i = m THEN f[m - 1] + q[m].n ELSE f[i]]
<1>4. Sums(q, m, g)
  <2>1. \A i \in 0..m : g[i] = IF i = 0 THEN 0 ELSE g[i - 1] + q[i].n
    <3> TAKE i \in 0..m
    <3>1. CASE i = m
      <4>1. m - 1 \in 0..m /\ m - 1 # m /\ m \in 0..m
        BY <1>2
      <4> QED BY <1>2, <3>1, <4>1
    <3>2. CASE i # m
      <4>1. i \in 0..(m - 1)
        BY <3>2
      <4>2. f[i] = IF i = 0 THEN 0 ELSE f[i - 1] + q[i].n
        BY <1>3, <4>1 DEF Sums
      <4>3. i # 0 => i - 1 \in 0..m /\ i - 1 # m
        BY <4>1
      <4> QED BY <3>2, <4>2, <4>3
    <3> QED BY <3>1, <3>2
  <2> QED BY <2>1 DEF Sums
<1> QED BY <1>4

(* The recursive function of the model is these sums.                       *)
LEMMA SymbolsAre ==
  ASSUME NEW q, Len(q) \in Nat
  PROVE  /\ SymbolsUpTo(q)[0] = 0
         /\ \A i \in 1..Len(q) : SymbolsUpTo(q)[i] = SymbolsUpTo(q)[i - 1] + q[i].n
<1>1. \E f : f = [i \in 0..Len(q) |-> IF i = 0 THEN 0 ELSE f[i - 1] + q[i].n]
  BY SumsExist DEF Sums
<1>2. PICK f : /\ f = SymbolsUpTo(q)
               /\ f = [i \in 0..Len(q) |-> IF i = 0 THEN 0 ELSE f[i - 1] + q[i].n]
  BY <1>1 DEF SymbolsUpTo
<1>3. f[0] = 0 /\ \A i \in 1..Len(q) : f[i] = f[i - 1] + q[i].n
  BY <1>2
<1> QED BY <1>2, <1>3

(* The partial sums are numbers.                                            *)
LEMMA SymbolsType ==
  ASSUME NEW q \in Seq(Jobs)
  PROVE  \A i \in 0..Len(q) : SymbolsUpTo(q)[i] \in Nat
<1> DEFINE Bad == {i \in 0..Len(q) : SymbolsUpTo(q)[i] \notin Nat}
<1> SUFFICES ASSUME Bad # {} PROVE FALSE
  OBVIOUS
<1>1. PICK m \in Bad : \A k \in Bad : m <= k
  <2>1. Bad \in SUBSET Nat
    OBVIOUS
  <2> HIDE DEF Bad
  <2> QED BY <2>1, LeastNumber
<1>2. m # 0
  BY SymbolsAre
<1>3. m \in 1..Len(q) /\ m - 1 \in 0..Len(q) /\ m - 1 \notin Bad
  BY <1>1, <1>2
<1>4. SymbolsUpTo(q)[m - 1] \in Nat
  BY <1>3
<1>5. q[m].n \in Nat
  BY <1>3, JobFields
<1>6. SymbolsUpTo(q)[m] = SymbolsUpTo(q)[m - 1] + q[m].n
  BY <1>3, SymbolsAre
<1> QED BY <1>4, <1>5, <1>6

(* Appending a job adds its symbols.                                        *)
LEMMA SymbolsAppend ==
  ASSUME NEW q \in Seq(Jobs), NEW j \in Jobs
  PROVE  SymbolsUpTo(Append(q, j))[Len(q) + 1] = SymbolsUpTo(q)[Len(q)] + j.n
<1> DEFINE r == Append(q, j)
<1> DEFINE Bad == {i \in 0..Len(q) : SymbolsUpTo(r)[i] # SymbolsUpTo(q)[i]}
<1>1. /\ Len(q) \in Nat /\ Len(r) = Len(q) + 1 /\ r[Len(q) + 1] = j
      /\ \A i \in 1..Len(q) : r[i] = q[i]
  OBVIOUS
<1> HIDE DEF r
<1>2. Bad = {}
  <2> SUFFICES ASSUME Bad # {} PROVE FALSE
    OBVIOUS
  <2>1. PICK m \in Bad : \A k \in Bad : m <= k
    <3>1. Bad \in SUBSET Nat
      BY <1>1
    <3> HIDE DEF Bad
    <3> QED BY <3>1, LeastNumber
  <2>2. m # 0
    BY <1>1, SymbolsAre
  <2>3. m \in 1..Len(q) /\ m \in 1..Len(r) /\ m - 1 \in 0..Len(q) /\ m - 1 \notin Bad
    BY <1>1, <2>1, <2>2
  <2>4. SymbolsUpTo(r)[m - 1] = SymbolsUpTo(q)[m - 1]
    BY <2>3
  <2>5. /\ SymbolsUpTo(q)[m] = SymbolsUpTo(q)[m - 1] + q[m].n
        /\ SymbolsUpTo(r)[m] = SymbolsUpTo(r)[m - 1] + r[m].n
    <3>1. Len(r) \in Nat
      BY <1>1
    <3>2. SymbolsUpTo(r)[m] = SymbolsUpTo(r)[m - 1] + r[m].n
      BY <2>3, <3>1, SymbolsAre
    <3> QED BY <1>1, <2>3, <3>2, SymbolsAre
  <2> QED BY <1>1, <2>3, <2>4, <2>5
<1>3. SymbolsUpTo(r)[Len(q)] = SymbolsUpTo(q)[Len(q)]
  BY <1>1, <1>2
<1>4. SymbolsUpTo(r)[Len(r)] = SymbolsUpTo(r)[Len(r) - 1] + r[Len(r)].n
  <2>1. Len(r) \in Nat /\ Len(r) \in 1..Len(r)
    BY <1>1
  <2> QED BY <2>1, SymbolsAre
<1>5. Len(r) - 1 = Len(q)
  BY <1>1
<1> QED BY <1>1, <1>3, <1>4, <1>5 DEF r

(* Taking the first job takes away its symbols.                             *)
LEMMA SymbolsTail ==
  ASSUME NEW q \in Seq(Jobs), q # <<>>
  PROVE  SymbolsUpTo(q)[Len(q)] = q[1].n + SymbolsUpTo(Tail(q))[Len(q) - 1]
<1> DEFINE r == Tail(q)
<1> DEFINE Bad == {i \in 0..Len(r) : SymbolsUpTo(q)[i + 1] # q[1].n + SymbolsUpTo(r)[i]}
<1>1. /\ r \in Seq(Jobs) /\ Len(q) \in Nat /\ Len(r) \in Nat /\ Len(q) = Len(r) + 1
      /\ Len(r) = Len(q) - 1 /\ \A i \in 1..Len(r) : r[i] = q[i + 1]
  OBVIOUS
<1>2. \A i \in 1..Len(q) : q[i].n \in Nat
  BY JobFields
<1> HIDE DEF r
<1>3. Bad = {}
  <2> SUFFICES ASSUME Bad # {} PROVE FALSE
    OBVIOUS
  <2>1. PICK m \in Bad : \A k \in Bad : m <= k
    <3>1. Bad \in SUBSET Nat
      BY <1>1
    <3> HIDE DEF Bad
    <3> QED BY <3>1, LeastNumber
  <2>2. m # 0
    <3>1. SymbolsUpTo(q)[1] = SymbolsUpTo(q)[1 - 1] + q[1].n
      BY <1>1, SymbolsAre
    <3>2. SymbolsUpTo(q)[0] = 0 /\ SymbolsUpTo(r)[0] = 0 /\ q[1].n \in Nat
      BY <1>1, <1>2, SymbolsAre
    <3> QED BY <3>1, <3>2
  <2>3. m \in 1..Len(r) /\ m + 1 \in 1..Len(q) /\ m - 1 \in 0..Len(r) /\ m - 1 \notin Bad
    BY <1>1, <2>1, <2>2
  <2>4. SymbolsUpTo(q)[m] = q[1].n + SymbolsUpTo(r)[m - 1]
    BY <2>3
  <2>5. SymbolsUpTo(q)[m + 1] = SymbolsUpTo(q)[m] + q[m + 1].n
    <3>1. SymbolsUpTo(q)[m + 1] = SymbolsUpTo(q)[(m + 1) - 1] + q[m + 1].n
      BY <1>1, <2>3, SymbolsAre
    <3> QED BY <3>1
  <2>6. SymbolsUpTo(r)[m] = SymbolsUpTo(r)[m - 1] + r[m].n
    BY <1>1, <2>3, SymbolsAre
  <2>7. SymbolsUpTo(r)[m - 1] \in Nat /\ q[m + 1].n \in Nat /\ q[1].n \in Nat /\ r[m] = q[m + 1]
    BY <1>1, <1>2, <2>3, SymbolsType
  <2> QED BY <2>4, <2>5, <2>6, <2>7
<1>4. SymbolsUpTo(q)[Len(r) + 1] = q[1].n + SymbolsUpTo(r)[Len(r)]
  BY <1>1, <1>3
<1> QED BY <1>1, <1>4 DEF r

-----------------------------------------------------------------------------
(* The counters of FIFO1, and what is left when the worker is gone.         *)

(* An empty queue counts nothing.                                           *)
LEMMA EmptyCounts == Len(<<>>) = 0 /\ SymbolsUpTo(<<>>)[0] = 0
<1>1. Len(<<>>) = 0
  OBVIOUS
<1> QED BY <1>1, SymbolsAre

(* The counters are right at the start.                                     *)
LEMMA CountersInit == Init => CountersMatch
BY EmptyCounts DEF Init, CountersMatch, QueuedSymbols, Busy

(* CountersMatch is inductive relative to the types.                        *)
LEMMA CountersStep == TypeOK /\ CountersMatch /\ [Next]_vars => CountersMatch'
<1> SUFFICES ASSUME TypeOK, CountersMatch, [Next]_vars PROVE CountersMatch'
  OBVIOUS
<1> USE DEF At, Goto, Step
<1>t. queue \in Seq(Jobs) /\ job \in Jobs
  BY GapTypes
<1>1. CASE UNCHANGED <<queue, queued, processing, job>> /\ (Busy' <=> Busy)
  BY <1>1 DEF CountersMatch, QueuedSymbols
<1>2. ASSUME NEW label, NEW next, FrontendInvalidate(label, next)
      PROVE  CountersMatch'
  <2>1. /\ UNCHANGED <<processing, job>> /\ (Busy' <=> Busy)
        /\ queue' = <<>> /\ queued' = 0
    BY <1>2 DEF FrontendInvalidate, worker, Busy
  <2>2. QueuedSymbols' = 0
    BY <2>1, EmptyCounts DEF QueuedSymbols
  <2> QED BY <2>1, <2>2 DEF CountersMatch
<1>3. CASE EnqueueAccept
  <2>1. /\ UNCHANGED <<processing, job>> /\ (Busy' <=> Busy) /\ Window.n = chunk.n
        /\ queue' = Append(queue, Window) /\ queued' = queued + chunk.n
    BY <1>3 DEF EnqueueAccept, Busy, Window
  <2>2. Window \in Jobs
    BY DEF TypeOK, FrontendTypes, FifoTypes, Window, Chunks, Jobs
  <2>3. QueuedSymbols' = QueuedSymbols + chunk.n
    <3>1. Len(queue') = Len(queue) + 1
      BY <1>t, <2>1, <2>2
    <3> QED BY <1>t, <2>1, <2>2, <3>1, SymbolsAppend DEF QueuedSymbols
  <2> QED BY <2>1, <2>3 DEF CountersMatch
<1>4. CASE Join
  <2>1. ~Busy' /\ queue' = <<>> /\ queued' = 0 /\ processing' = 0
    BY <1>4 DEF Join, worker, Busy
  <2>2. QueuedSymbols' = 0
    BY <2>1, EmptyCounts DEF QueuedSymbols
  <2> QED BY <2>1, <2>2 DEF CountersMatch
<1>5. CASE WorkerTake
  <2>1. /\ queue # <<>> /\ job' = queue[1] /\ queue' = Tail(queue) /\ Busy' /\ ~Busy
        /\ queued' = IF queued >= queue[1].n THEN queued - queue[1].n ELSE 0
        /\ processing' = processing + queue[1].n
    BY <1>t, <1>5 DEF WorkerTake, Busy
  <2>2. /\ queue[1] \in Jobs /\ Len(queue') = Len(queue) - 1 /\ Len(queue') \in Nat
        /\ queue' \in Seq(Jobs) /\ queue[1].n \in Nat
    BY <1>t, <2>1, JobFields
  <2>3. QueuedSymbols = queue[1].n + QueuedSymbols' /\ QueuedSymbols' \in Nat
    <3>1. QueuedSymbols' = SymbolsUpTo(Tail(queue))[Len(queue) - 1]
      BY <2>1, <2>2 DEF QueuedSymbols
    <3>2. QueuedSymbols' \in Nat
      BY <2>2, SymbolsType DEF QueuedSymbols
    <3> QED BY <1>t, <2>1, <3>1, <3>2, SymbolsTail DEF QueuedSymbols
  <2>4. queued = QueuedSymbols /\ processing = 0
    BY <2>1 DEF CountersMatch
  <2> QED BY <2>1, <2>2, <2>3, <2>4 DEF CountersMatch
<1>6. CASE WorkerFinish
  <2>1. UNCHANGED <<queue, queued, job>> /\ Busy /\ ~Busy' /\ processing' = 0
    <3>1. Busy /\ job.n \in Nat
      BY <1>t, <1>6, JobFields DEF WorkerFinish, Busy
    <3> QED BY <1>6, <3>1 DEF WorkerFinish, CountersMatch, Busy
  <2> QED BY <2>1 DEF CountersMatch, QueuedSymbols
<1>7. CASE WorkerSleep \/ WorkerExit \/ WorkerCheck("check", "deinterleave")
           \/ WorkerCheck("deinterleave", "viterbi") \/ ViterbiStart \/ ViterbiEnd
           \/ OuterStart \/ OuterFeed \/ WorkerRecheck \/ WorkerFail \/ WorkerStale
  BY <1>1, <1>7 DEF WorkerSleep, WorkerExit, WorkerCheck, ViterbiStart, ViterbiEnd, OuterStart,
                    OuterFeed, WorkerRecheck, WorkerFail, WorkerStale, Busy, fifo
<1>8. ASSUME NEW n, NEW skip, NEW lock, NEW match, ReceiveChunk(n, skip, lock, match)
      PROVE  CountersMatch'
  BY <1>1, <1>8 DEF ReceiveChunk, Busy, fifo, worker
<1>9. ASSUME NEW label, NEW next,
             FrontendResetInner(label, next) \/ FrontendResetOuter(label, next)
      PROVE  CountersMatch'
  BY <1>1, <1>9 DEF FrontendResetInner, FrontendResetOuter, Busy, fifo, worker
<1>10. CASE PilotGood \/ PilotHold \/ PilotDrop \/ StartWorker \/ SoftFifoNoMemory
            \/ EnqueueNoMemory \/ EnqueueTooLarge \/ EnqueueFull \/ Shutdown
  BY <1>1, <1>10 DEF PilotGood, PilotHold, PilotDrop, StartWorker, SoftFifoNoMemory,
     EnqueueNoMemory, EnqueueTooLarge, EnqueueFull, Shutdown, Busy, fifo, worker
<1>11. CASE UNCHANGED vars
  BY <1>1, <1>11 DEF vars, fifo, worker, Busy
<1> QED BY <1>2, <1>3, <1>4, <1>5, <1>6, <1>7, <1>8, <1>9, <1>10, <1>11
        DEF Next, Frontend, FrontendReset, Enqueue, Worker, Terminated

(* The symbols counted as queued are those that are queued, and the symbols *)
(* counted as processed are those of the job in hand, for every capacity    *)
(* and however often the queue is invalidated under the worker.             *)
THEOREM LoadIsExact == Spec => []CountersMatch
BY TypeInit, TypeStep, CountersInit, CountersStep, PTL DEF Spec

(* What DrainedAtJoin needs: a worker that was never started has nothing to *)
(* do, one that has left has left nothing, and it leaves only once the      *)
(* frontend waits for it.                                                   *)
StopIsLast ==
  /\ stop => fpc \in {"join", "done"}
  /\ wpc = "none" => queue = <<>>
  /\ wpc = "exited" => queue = <<>> /\ fpc \in {"join", "done"}

(* Every step keeps it.                                                     *)
LEMMA StopStep == TypeOK /\ StopIsLast /\ [Next]_vars => StopIsLast'
<1> SUFFICES ASSUME TypeOK, StopIsLast, [Next]_vars PROVE StopIsLast'
  OBVIOUS
<1> USE DEF At, Goto, Step, StopIsLast
<1>1. ASSUME NEW n, NEW skip, NEW lock, NEW match, ReceiveChunk(n, skip, lock, match)
      PROVE  StopIsLast'
  BY <1>1 DEF ReceiveChunk, fifo, worker
<1>2. CASE PilotGood \/ PilotHold \/ PilotDrop
  BY <1>2 DEF PilotGood, PilotHold, PilotDrop, fifo, worker
<1>3. CASE FrontendReset
  BY <1>3 DEF FrontendReset, FrontendResetInner, FrontendInvalidate, FrontendResetOuter,
              fifo, worker
<1>4. CASE Enqueue
  BY <1>4 DEF Enqueue, StartWorker, SoftFifoNoMemory, EnqueueNoMemory, EnqueueTooLarge,
              EnqueueFull, EnqueueAccept, frontend, fifo, worker
<1>5. CASE Shutdown \/ Join
  BY <1>5 DEF Shutdown, Join, worker
<1>6. CASE Worker
  BY <1>6 DEF Worker, WorkerSleep, WorkerExit, WorkerTake, WorkerCheck, ViterbiStart, ViterbiEnd,
              OuterStart, OuterFeed, WorkerRecheck, WorkerFail, WorkerStale, WorkerFinish,
              frontend, fifo
<1>7. CASE UNCHANGED vars
  BY <1>7 DEF vars, frontend, fifo, worker
<1> QED BY <1>1, <1>2, <1>3, <1>4, <1>5, <1>6, <1>7 DEF Next, Frontend, Terminated

(* When the frontend has joined the worker, every job that FIFO1 accepted   *)
(* and no reset invalidated has been decoded: nothing is dropped at the end *)
(* of the input.                                                            *)
THEOREM NothingLeftAtJoin == Spec => []DrainedAtJoin
<1>1. Init => StopIsLast
  BY DEF Init, StopIsLast
<1>2. StopIsLast /\ CountersMatch => DrainedAtJoin
  BY EmptyCounts DEF StopIsLast, CountersMatch, QueuedSymbols, DrainedAtJoin, Busy
<1> QED BY <1>1, <1>2, TypeInit, TypeStep, CountersInit, CountersStep, StopStep, PTL DEF Spec
=============================================================================
