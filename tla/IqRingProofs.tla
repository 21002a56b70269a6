----------------------------- MODULE IqRingProofs -----------------------------
(***************************************************************************)
(* For every size of ring, chunk and symbol: the ring holds the newest     *)
(* samples, loses none while the frontend waits for a chunk, and the       *)
(* sample time misses only what it is not told of.                         *)
(***************************************************************************)
EXTENDS IqRing, TLAPS

(* What is assumed of the constants.                                        *)
LEMMA Constants ==
  /\ Want \in Nat /\ Want > 0 /\ Block \in Nat /\ Block > 0 /\ MinCap \in Nat
  /\ SymbolLen \in Nat /\ SymbolLen > 0 /\ TailSymbols \in Nat /\ TailSymbols > 0
  /\ MinSymbols \in Nat /\ TailSymbols < MinSymbols
  /\ MaxSamples \in Nat /\ MaxFailures \in Nat
BY IqRingAssumption DEF IqRingAssumption

(* The largest of three numbers.                                            *)
LEMMA MaxOfThree ==
  ASSUME NEW a \in Nat, NEW b \in Nat, NEW c \in Nat
  PROVE  /\ Max({a, b, c}) \in {a, b, c}
         /\ Max({a, b, c}) >= a /\ Max({a, b, c}) >= b /\ Max({a, b, c}) >= c
<1>1. \E x \in {a, b, c} : \A y \in {a, b, c} : x >= y
  <2>1. CASE a >= b /\ a >= c
    BY <2>1
  <2>2. CASE b >= a /\ b >= c
    BY <2>2
  <2>3. CASE c >= a /\ c >= b
    BY <2>3
  <2> QED BY <2>1, <2>2, <2>3
<1> QED
  BY <1>1 DEF Max

(* The ring has room for a block beside a chunk.                            *)
LEMMA CapFacts == Cap \in Nat /\ Cap > 0 /\ Cap >= Want + Block
<1>1. 4 * Want \in Nat /\ Want + Block \in Nat /\ MinCap \in Nat
  BY Constants
<1> QED
  BY <1>1, MaxOfThree, Constants DEF Cap

-----------------------------------------------------------------------------
(* Indices that have gone round the ring.                                   *)

(* An index that has run past the end of the ring once.                     *)
LEMMA ModOnce ==
  ASSUME NEW n \in Nat, n < 2 * Cap
  PROVE  n % Cap = IF n < Cap THEN n ELSE n - Cap
<1>1. CASE n < Cap
  BY <1>1, CapFacts
<1>2. CASE ~(n < Cap)
  BY <1>2, CapFacts
<1> QED BY <1>1, <1>2

(* An index behind the beginning of the ring, by less than a round,         *)
LEMMA ModBack ==
  ASSUME NEW n \in Int, -Cap <= n, n < 0
  PROVE  n % Cap = n + Cap
BY CapFacts

(* and by less than two.                                                    *)
LEMMA ModBackTwice ==
  ASSUME NEW n \in Int, -(2 * Cap) <= n, n < -Cap
  PROVE  n % Cap = n + 2 * Cap
BY CapFacts

(* Two steps along the ring are one.                                        *)
LEMMA StepOn ==
  ASSUME NEW h \in Slots, NEW d \in Nat, NEW k \in Nat, d + k < Cap \/ (d <= Cap /\ k = 0)
  PROVE  /\ (h + d) % Cap \in Slots
         /\ (((h + d) % Cap) + k) % Cap = (h + (d + k)) % Cap
BY CapFacts, ModOnce DEF Slots

(* What was kept stays, and what is written follows it.                     *)
LEMMA WrittenHolds ==
  ASSUME NEW newHead \in Slots, NEW kept \in Nat, NEW first \in Nat, NEW write \in Nat,
         kept + write <= Cap,
         \A k \in 0 .. (kept - 1) : items[(newHead + k) % Cap] = first - kept + k
  PROVE  \A k \in 0 .. (kept + write - 1) :
           Written(newHead, kept, first, write)[(newHead + k) % Cap] = first - kept + k
<1> SUFFICES ASSUME NEW k \in 0 .. (kept + write - 1)
             PROVE  Written(newHead, kept, first, write)[(newHead + k) % Cap] = first - kept + k
  OBVIOUS
<1> DEFINE s == (newHead + k) % Cap
           j == (s - newHead - kept) % Cap
<1>1. k \in Nat /\ k < Cap /\ newHead \in Nat /\ newHead < Cap
  BY CapFacts DEF Slots
<1>2. s \in Slots /\ s = IF newHead + k < Cap THEN newHead + k ELSE newHead + k - Cap
  BY <1>1, CapFacts, ModOnce DEF Slots
<1>3. Written(newHead, kept, first, write)[s] = IF j < write THEN first + j ELSE items[s]
  BY <1>2 DEF Written
<1> HIDE DEF s
<1>4. j = IF k >= kept THEN k - kept ELSE k - kept + Cap
  <2>1. CASE k >= kept /\ newHead + k < Cap
    <3>1. s - newHead - kept = k - kept /\ k - kept \in Nat /\ k - kept < Cap
      BY <1>1, <1>2, <2>1, CapFacts
    <3> QED BY <2>1, <3>1, CapFacts
  <2>2. CASE k >= kept /\ ~(newHead + k < Cap)
    <3>1. s - newHead - kept = k - kept - Cap /\ k - kept - Cap \in Int
          /\ -Cap <= k - kept - Cap /\ k - kept - Cap < 0
      BY <1>1, <1>2, <2>2, CapFacts
    <3> QED BY <2>2, <3>1, ModBack, CapFacts
  <2>3. CASE ~(k >= kept) /\ newHead + k < Cap
    <3>1. s - newHead - kept = k - kept /\ k - kept \in Int /\ -Cap <= k - kept /\ k - kept < 0
      BY <1>1, <1>2, <2>3, CapFacts
    <3> QED BY <2>3, <3>1, ModBack, CapFacts
  <2>4. CASE ~(k >= kept) /\ ~(newHead + k < Cap)
    <3>1. s - newHead - kept = k - kept - Cap /\ k - kept - Cap \in Int
          /\ -(2 * Cap) <= k - kept - Cap /\ k - kept - Cap < -Cap
      BY <1>1, <1>2, <2>4, CapFacts
    <3> QED BY <2>4, <3>1, ModBackTwice, CapFacts
  <2> QED BY <2>1, <2>2, <2>3, <2>4
<1> USE DEF s
<1> HIDE DEF j
<1>5. CASE k >= kept
  BY <1>1, <1>3, <1>4, <1>5
<1>6. CASE ~(k >= kept)
  BY <1>1, <1>3, <1>4, <1>6, CapFacts
<1> QED BY <1>5, <1>6

-----------------------------------------------------------------------------
(* The reader thread.                                                       *)

(* The types of the counters.                                               *)
LEMMA Counters ==
  ASSUME TypeOK
  PROVE  /\ overrun \in Nat /\ before \in Nat /\ overrunPending \in Nat /\ outputSeq \in Nat
         /\ produced \in Nat /\ seen \in Nat /\ lastEnd \in Nat /\ hidden \in Nat
         /\ head \in Slots /\ head \in Nat /\ head < Cap
         /\ count \in Nat /\ count <= Cap /\ tail \in Nat
         /\ chunk.first \in Nat /\ chunk.n \in Nat /\ chunk.n <= Want /\ chunk.time \in Nat
         /\ cursor.valid \in BOOLEAN /\ cursor.next \in Nat
BY CapFacts, Constants DEF TypeOK, Slots, Sample

(* What a push of n samples comes to.                                       *)
LEMMA PushSteps ==
  ASSUME TypeOK, NEW n \in Reads, Push(n)
  PROVE  LET drop    == Excess(n, Cap - count)
             newHead == (head + drop) % Cap
         IN  /\ n \in Nat /\ n > 0 /\ n <= Block /\ n <= Cap - Want
             /\ drop \in Nat /\ drop <= count /\ (drop > 0 => count >= Want)
             /\ count - drop + n \in 0 .. Cap
             /\ newHead \in Slots
             /\ items' = Written(newHead, count - drop, produced, n)
             /\ head' = newHead /\ count' = count - drop + n
             /\ overrun' = overrun + drop /\ produced' = produced + n
             /\ produced + n <= MaxSamples
<1>1. n \in Nat /\ n > 0 /\ n <= Block /\ n <= Cap - Want /\ n <= Cap
  BY CapFacts, Constants, IqRingAssumption DEF IqRingAssumption
<1>2. Excess(n, Cap) = 0
  BY <1>1, CapFacts DEF Excess
<1> DEFINE drop == Excess(n, Cap - count)
<1>3. /\ drop \in Nat /\ drop <= count /\ (drop > 0 => count >= Want)
      /\ count - drop + n \in 0 .. Cap
  BY <1>1, Counters, CapFacts, Constants DEF Excess
<1>4. (head + drop) % Cap \in Slots
  BY <1>3, Counters, CapFacts DEF Slots
<1>5. n - 0 = n /\ produced + 0 = produced /\ overrun + 0 + drop = overrun + drop
  BY <1>1, <1>3, Counters
<1> HIDE DEF drop
<1>6. /\ items' = Written((head + drop) % Cap, count - drop, produced, n)
      /\ head' = (head + drop) % Cap /\ count' = count - drop + n
      /\ overrun' = overrun + drop /\ produced' = produced + n
      /\ produced + n <= MaxSamples
  BY <1>2, <1>5 DEF Push, drop
<1> QED
  BY <1>1, <1>3, <1>4, <1>6 DEF drop

(* A push keeps the types.                                                  *)
LEMMA PushTypes ==
  ASSUME TypeOK, NEW n \in Reads, Push(n)
  PROVE  TypeOK'
<1> DEFINE drop == Excess(n, Cap - count)
           newHead == (head + drop) % Cap
<1>1. /\ n \in Nat /\ drop \in Nat /\ count - drop + n \in 0 .. Cap /\ newHead \in Slots
      /\ items' = Written(newHead, count - drop, produced, n)
      /\ head' = newHead /\ count' = count - drop + n
      /\ overrun' = overrun + drop /\ produced' = produced + n
      /\ produced + n <= MaxSamples /\ drop <= count
  BY PushSteps
<1> HIDE DEF drop, newHead
<1>2. items' \in [Slots -> Sample]
  <2>1. ASSUME NEW s \in Slots
        PROVE  (IF (s - newHead - (count - drop)) % Cap < n
                THEN produced + ((s - newHead - (count - drop)) % Cap) ELSE items[s]) \in Sample
    <3>1. (s - newHead - (count - drop)) % Cap \in Nat
      BY <1>1, Counters, CapFacts DEF Slots
    <3>2. items[s] \in Sample
      BY DEF TypeOK
    <3> QED
      BY <1>1, <3>1, <3>2, Counters, Constants DEF Sample
  <2> QED
    BY <1>1, <2>1 DEF Written
<1>3. overrun' \in Nat /\ produced' \in Nat
  BY <1>1, Counters
<1>4. UNCHANGED <<eof, before, chunk, clock, verdict, history>> /\ Wake
  BY DEF Push
<1> QED
  BY <1>1, <1>2, <1>3, <1>4 DEF TypeOK, Wake, clock, verdict, history

(* A push drops the oldest samples and appends the newest.                  *)
LEMMA PushKeepsNewest ==
  ASSUME TypeOK, HoldsTheNewest, NEW n \in Reads, Push(n)
  PROVE  HoldsTheNewest'
<1> DEFINE drop == Excess(n, Cap - count)
           newHead == (head + drop) % Cap
           kept == count - drop
<1>1. /\ n \in Nat /\ drop \in Nat /\ drop <= count
      /\ count - drop + n \in 0 .. Cap /\ newHead \in Slots
      /\ items' = Written(newHead, count - drop, produced, n)
      /\ head' = newHead /\ count' = count - drop + n /\ produced' = produced + n
  BY PushSteps
<1> HIDE DEF drop
<1>2. kept \in Nat /\ kept + n <= Cap /\ count \in Nat /\ produced \in Nat
  BY <1>1, Counters, CapFacts
<1>3. ASSUME NEW k \in 0 .. (kept - 1)
      PROVE  items[(newHead + k) % Cap] = produced - kept + k
  <2>1. k \in Nat /\ drop + k \in 0 .. (count - 1) /\ drop + k < Cap
    BY <1>1, <1>2, Counters, CapFacts
  <2>2. (newHead + k) % Cap = (head + (drop + k)) % Cap
    BY <1>1, <2>1, StepOn, Counters
  <2>3. items[(head + (drop + k)) % Cap] = produced - count + (drop + k)
    BY <2>1 DEF HoldsTheNewest
  <2> QED
    BY <1>1, <1>2, <2>1, <2>2, <2>3
<1> HIDE DEF newHead, kept
<1>4. \A k \in 0 .. (kept + n - 1) :
        Written(newHead, kept, produced, n)[(newHead + k) % Cap] = produced - kept + k
  BY <1>1, <1>2, <1>3, WrittenHolds
<1>5. /\ items' = Written(newHead, kept, produced, n) /\ head' = newHead
      /\ count' = kept + n /\ produced' - count' = produced - kept
  BY <1>1, <1>2 DEF newHead, kept
<1>6. SUFFICES ASSUME NEW k \in 0 .. (count' - 1)
               PROVE  items'[(head' + k) % Cap] = produced' - count' + k
  BY DEF HoldsTheNewest
<1>7. k \in 0 .. (kept + n - 1)
  BY <1>1, <1>2, <1>5
<1>8. items'[(head' + k) % Cap] = produced - kept + k
  BY <1>4, <1>5, <1>7
<1> QED
  BY <1>5, <1>8

-----------------------------------------------------------------------------
(* What the sample time is worth.                                           *)

(* What a read knows of the overruns when it is entered, and when it wakes. *)
OverrunsNoted ==
  /\ seen <= overrun /\ before <= overrun
  /\ fpc \in {"waiting", "woken"} => seen <= before

(* The sample the frontend goes on with, and its output time.               *)
Reading == fpc \in {"resample", "demod"}
Position == IF Reading THEN chunk.first ELSE chunk.first + chunk.n
Time == IF fpc = "demod" THEN chunk.time ELSE outputSeq

(* The time since the last demodulated chunk that failed chunks took, and   *)
(* the samples the reads have reported missing since then.                  *)
FailedTime == Time - cursor.next - IntoSymbol(lastEnd)
Reported == Position - lastEnd - hidden - FailedTime

(* The samples between the last demodulated chunk and the next are those    *)
(* failed chunks took, those reported missing and the hidden ones; and of   *)
(* what is reported missing there is a mark, or a whole symbol has failed.  *)
ClockHolds ==
  /\ tail > 0 /\ FailedTime >= 0 /\ Reported >= overrunPending
  /\ Reported > 0 => gapPending \/ FailedTime >= SymbolLen

TimeKept ==
  fpc # "done" =>
    /\ chunk.first + chunk.n = produced - count - (overrun - seen)
    /\ lastEnd <= Position /\ (gapPending => lastEnd < Position)
    /\ Reading => chunk.n > 0
    /\ fpc = "demod" => outputSeq = chunk.time + chunk.n /\ overrunPending = 0
    /\ cursor.valid => ClockHolds

RingInv == TypeOK /\ HoldsTheNewest /\ OverrunsNoted /\ TimeKept

(* A place inside a symbol.                                                 *)
LEMMA IntoType ==
  ASSUME NEW n \in Nat
  PROVE  IntoSymbol(n) \in Nat /\ IntoSymbol(n) < SymbolLen
BY Constants DEF IntoSymbol

(* A chunk that is demodulated is a symbol longer than the tail.            *)
LEMMA TailSizes ==
  /\ TailSymbols * SymbolLen \in Nat /\ TailSymbols * SymbolLen > 0
  /\ MinSymbols * SymbolLen >= TailSymbols * SymbolLen + SymbolLen
<1>1. \A a, b \in Nat : b > 0 /\ a > 0 => a * b \in Nat /\ a * b > 0
  OBVIOUS
<1>2. \A a, b, c \in Nat : c < a => a * b >= c * b + b
  <2> SUFFICES ASSUME NEW a \in Nat, NEW b \in Nat, NEW c \in Nat, c < a
               PROVE  a * b >= c * b + b
    OBVIOUS
  <2>1. a - c - 1 \in Nat /\ (a - c - 1) * b >= 0
    OBVIOUS
  <2>2. (a - c - 1) * b = a * b - c * b - b
    OBVIOUS
  <2> QED BY <2>1, <2>2
<1> QED
  BY <1>1, <1>2, Constants

(* A chunk that is long enough brings a symbol of its own.                  *)
LEMMA LongChunk ==
  ASSUME TypeOK
  PROVE  /\ LongEnough => chunk.n >= SymbolLen
         /\ KeptTail \in 0 .. (TailSymbols * SymbolLen)
         /\ chunk.n > 0 => KeptTail > 0
<1>1. tail \in Nat /\ tail <= TailSymbols * SymbolLen
  BY TailSizes DEF TypeOK
<1> QED
  BY <1>1, TailSizes, Counters, Constants DEF LongEnough, KeptTail, Least

(* The invariant holds at the start.                                        *)
LEMMA InitRing == Init => RingInv
<1> SUFFICES ASSUME Init PROVE RingInv
  OBVIOUS
<1>1. TypeOK
  <2>1. items \in [Slots -> Sample] /\ head \in Slots /\ count \in 0 .. Cap
    BY CapFacts, Constants DEF Init, Slots, Sample
  <2>2. chunk \in [first: Sample, n: 0 .. Want, time: Nat] /\ cursor \in [valid: BOOLEAN, next: Nat]
    BY Constants DEF Init, Sample
  <2>3. tail \in 0 .. (TailSymbols * SymbolLen) /\ failures \in 0 .. MaxFailures
    BY TailSizes, Constants DEF Init
  <2>4. {overrun, before, overrunPending, outputSeq, produced, seen, lastEnd, hidden} \subseteq Nat
    BY DEF Init
  <2> QED
    BY <2>1, <2>2, <2>3, <2>4 DEF Init, TypeOK
<1>2. HoldsTheNewest
  BY DEF Init, HoldsTheNewest
<1>3. IntoSymbol(0) = 0
  BY Constants DEF IntoSymbol
<1> QED
  BY <1>1, <1>2, <1>3
  DEF Init, RingInv, OverrunsNoted, TimeKept, Position, Reading, Time, FailedTime, Reported

-----------------------------------------------------------------------------
(* One lemma for each action.                                               *)

(* The reader thread appends, or drops what does not fit.                   *)
LEMMA PushKeeps == ASSUME RingInv, NEW n \in Reads, Push(n) PROVE RingInv'
<1> USE DEF RingInv
<1>1. TypeOK' /\ HoldsTheNewest'
  BY PushTypes, PushKeepsNewest
<1>2. /\ overrun' >= overrun
      /\ produced' - count' - overrun' = produced - count - overrun
      /\ overrun' \in Nat /\ produced' \in Nat /\ count' \in Nat
  BY PushSteps, Counters, CapFacts
<1>3. UNCHANGED <<before, chunk, clock, verdict, history>> /\ Wake
  BY DEF Push
<1>4. OverrunsNoted'
  BY <1>2, <1>3, Counters DEF OverrunsNoted, Wake, history, TypeOK
<1>5. TimeKept'
  <2>1. UNCHANGED <<Reading, Position, Time, FailedTime, Reported>>
    BY <1>3 DEF Wake, Reading, Position, Time, FailedTime, Reported, clock, verdict, history
  <2>2. produced' - count' - (overrun' - seen') = produced - count - (overrun - seen)
    BY <1>2, <1>3, Counters DEF history
  <2> QED
    BY <1>3, <2>1, <2>2 DEF TimeKept, ClockHolds, Wake, clock, verdict, history
<1> QED BY <1>1, <1>4, <1>5

(* The end of the input changes no sample.                                  *)
LEMMA EndKeeps == ASSUME RingInv, EndOfInput PROVE RingInv'
<1> USE DEF RingInv, EndOfInput
<1>1. TypeOK' /\ HoldsTheNewest'
  BY DEF TypeOK, HoldsTheNewest, Wake, clock, verdict, history
<1>2. OverrunsNoted'
  BY DEF OverrunsNoted, Wake, history
<1>3. UNCHANGED <<Reading, Position, Time, FailedTime, Reported>>
  BY DEF Wake, Reading, Position, Time, FailedTime, Reported, clock, verdict, history
<1>4. TimeKept'
  BY <1>3 DEF TimeKept, ClockHolds, Wake, clock, verdict, history
<1> QED BY <1>1, <1>2, <1>4

(* A read that has to wait remembers the overruns it came with.             *)
LEMMA WaitKeeps == ASSUME RingInv, ReadWait PROVE RingInv'
<1> USE DEF RingInv, ReadWait
<1>1. TypeOK' /\ HoldsTheNewest'
  BY DEF TypeOK, HoldsTheNewest, Entered, ring, clock, verdict, history
<1>2. OverrunsNoted'
  BY Counters DEF OverrunsNoted, Entered, ring, history
<1>3. UNCHANGED <<Reading, Position, Time, FailedTime, Reported>>
  BY DEF Reading, Position, Time, FailedTime, Reported, ring, clock, verdict, history
<1>4. TimeKept'
  BY <1>3 DEF TimeKept, ClockHolds, ring, clock, verdict, history
<1> QED BY <1>1, <1>2, <1>4

(* A read takes the oldest samples and learns what was lost meanwhile.      *)
LEMMA TakeKeeps == ASSUME RingInv, ReadTake PROVE RingInv'
<1> USE DEF RingInv
<1> DEFINE n == Least(Want, count)
           delta == overrun - Entered
<1>1. n \in Nat /\ n <= count /\ n <= Want /\ (n = 0 => count = 0)
  BY Counters, Constants DEF Least
<1>2. Entered \in Nat /\ seen <= Entered /\ Entered <= overrun /\ delta \in Nat
  BY Counters DEF OverrunsNoted, Entered, ReadTake, Take
<1>3. /\ head' = (head + n) % Cap /\ count' = count - n
      /\ chunk' = [first |-> items[head], n |-> n, time |-> 0]
      /\ before' = Entered /\ overrunPending' = overrunPending + delta
      /\ gapPending' = (gapPending \/ overrun # Entered)
      /\ seen' = overrun /\ hidden' = hidden + (overrun - seen - delta)
      /\ fpc' = IF n = 0 THEN "done" ELSE "resample"
      /\ fpc \in {"call", "woken"}
      /\ UNCHANGED <<items, eof, overrun, produced, outputSeq, tail, cursor, verdict, failures>>
  BY DEF ReadTake, Take
<1>4. gapPending' <=> gapPending \/ delta > 0
  <2>1. overrun # Entered <=> delta > 0
    BY <1>2, Counters
  <2> HIDE DEF delta
  <2> QED
    BY <1>3, <2>1, Zenon
<1> HIDE DEF n, delta
<1>5. head' \in Slots /\ items[head] \in Sample
  <2>1. (head + n) % Cap \in Slots
    BY <1>1, Counters, CapFacts DEF Slots
  <2> QED
    BY <1>3, <2>1, Counters DEF TypeOK
<1>6. overrunPending' \in Nat /\ hidden' \in Nat /\ hidden' = hidden + (Entered - seen)
  BY <1>2, <1>3, Counters DEF delta
<1>7. TypeOK'
  <2>1. chunk' \in [first: Sample, n: 0 .. Want, time: Nat]
    BY <1>1, <1>3, <1>5, Constants
  <2>2. count' \in 0 .. Cap
    BY <1>1, <1>3, Counters, CapFacts
  <2> QED
    BY <1>2, <1>3, <1>5, <1>6, <2>1, <2>2 DEF TypeOK, verdict
<1>8. HoldsTheNewest'
  <2> SUFFICES ASSUME NEW k \in 0 .. (count' - 1)
               PROVE  items'[(head' + k) % Cap] = produced' - count' + k
    BY DEF HoldsTheNewest
  <2>1. k \in Nat /\ n + k \in 0 .. (count - 1) /\ n + k < Cap
    BY <1>1, <1>3, Counters, CapFacts
  <2>2. (((head + n) % Cap) + k) % Cap = (head + (n + k)) % Cap
    BY <1>1, <2>1, StepOn, Counters
  <2>3. items[(head + (n + k)) % Cap] = produced - count + (n + k)
    BY <2>1 DEF HoldsTheNewest
  <2> QED
    BY <1>1, <1>3, <2>1, <2>2, <2>3, Counters
<1>9. OverrunsNoted'
  BY <1>2, <1>3, Counters DEF OverrunsNoted
<1>10. TimeKept'
  <2> SUFFICES ASSUME n # 0 PROVE TimeKept'
    BY <1>3 DEF TimeKept
  <2>1. items[head] = produced - count
    <3>1. 0 \in 0 .. (count - 1) /\ (head + 0) % Cap = head
      BY <1>1, Counters, ModOnce, CapFacts
    <3> QED
      BY <3>1, Counters DEF HoldsTheNewest
  <2>2. /\ chunk.first + chunk.n = produced - count - (overrun - seen)
        /\ lastEnd <= chunk.first + chunk.n /\ (gapPending => lastEnd < chunk.first + chunk.n)
        /\ Position = chunk.first + chunk.n /\ Time = outputSeq
    BY <1>3 DEF TimeKept, Position, Reading, Time
  <2>3. /\ Position' = items[head] /\ Time' = outputSeq /\ Reading'
    BY <1>3 DEF Position, Reading, Time
  <2>4. items[head] = Position + (overrun - seen)
    BY <2>1, <2>2, Counters
  <2>5. FailedTime' = FailedTime /\ FailedTime \in Int
    BY <1>3, <2>2, <2>3, IntoType, Counters DEF FailedTime, verdict
  <2>6. Reported' = Reported + delta
    BY <1>2, <1>3, <1>6, <2>2, <2>3, <2>4, <2>5, Counters DEF Reported, delta, verdict
  <2>7. cursor.valid => Reported \in Int
    BY <2>2, <2>5, Counters DEF Reported
  <2>9. cursor.valid' => ClockHolds'
    <3> SUFFICES ASSUME cursor.valid PROVE ClockHolds'
      BY <1>3
    <3>1. ClockHolds
      BY <1>3 DEF TimeKept
    <3>2. Reported' > 0 => gapPending' \/ FailedTime' >= SymbolLen
      BY <1>2, <1>4, <2>5, <2>6, <2>7, <3>1 DEF ClockHolds
    <3>3. Reported' >= overrunPending'
      BY <1>2, <1>3, <2>6, <2>7, <3>1, Counters DEF ClockHolds
    <3> QED
      BY <1>3, <2>5, <3>1, <3>2, <3>3 DEF ClockHolds
  <2>10. lastEnd' <= Position' /\ (gapPending' => lastEnd' < Position')
    BY <1>2, <1>3, <1>4, <2>2, <2>3, <2>4, Counters DEF verdict, delta
  <2>11. chunk'.first + chunk'.n = produced' - count' - (overrun' - seen') /\ chunk'.n > 0
    BY <1>1, <1>3, <2>1, Counters
  <2>12. ~(fpc' = "demod")
    BY <1>3
  <2> QED
    BY <2>9, <2>10, <2>11, <2>12 DEF TimeKept
<1> QED BY <1>7, <1>8, <1>9, <1>10

(* A skip moves the output time and the cursor alike.                       *)
LEMMA SkipMoves ==
  ASSUME TypeOK, NEW n \in Nat, n <= overrunPending, Skip(n)
  PROVE  /\ overrunPending' \in Nat /\ overrunPending' = overrunPending - n
         /\ cursor' \in [valid: BOOLEAN, next: Nat] /\ cursor'.valid = cursor.valid
         /\ cursor.valid => cursor'.next = cursor.next + n
<1>1. cursor \in [valid: BOOLEAN, next: Nat]
  BY DEF TypeOK
<1>2. overrunPending' \in Nat /\ overrunPending' = overrunPending - n
  BY Counters DEF Skip
<1>3. cursor' = [cursor EXCEPT !.next = IF cursor.valid THEN cursor.next + n ELSE cursor.next]
  BY DEF Skip
<1> QED BY <1>1, <1>2, <1>3

(* The resampler accounts for the loss in the time of its output.           *)
LEMMA ResampleKeeps == ASSUME RingInv, Resample PROVE RingInv'
<1> USE DEF RingInv
<1>1. /\ fpc = "resample" /\ fpc' = "demod"
      /\ outputSeq' = outputSeq + overrunPending + chunk.n
      /\ chunk' = [chunk EXCEPT !.time = outputSeq + overrunPending]
      /\ UNCHANGED <<ring, before, gapPending, tail, verdict, history>>
  BY DEF Resample
<1>2. /\ overrunPending' = 0 /\ cursor' \in [valid: BOOLEAN, next: Nat]
      /\ cursor'.valid = cursor.valid
      /\ cursor.valid => cursor'.next = cursor.next + overrunPending
  BY SkipMoves, Counters DEF Resample
<1>3. /\ chunk' \in [first: Sample, n: 0 .. Want, time: Nat]
      /\ chunk'.first = chunk.first /\ chunk'.n = chunk.n
      /\ chunk'.time = outputSeq + overrunPending
  <2>1. chunk \in [first: Sample, n: 0 .. Want, time: Nat] /\ outputSeq + overrunPending \in Nat
    BY Counters DEF TypeOK
  <2> QED BY <1>1, <2>1
<1>4. TypeOK'
  <2>1. outputSeq' \in Nat
    BY <1>1, Counters
  <2> QED
    BY <1>1, <1>2, <1>3, <2>1 DEF TypeOK, ring, verdict, history
<1>5. HoldsTheNewest' /\ OverrunsNoted'
  BY <1>1 DEF HoldsTheNewest, OverrunsNoted, ring, history
<1>6. /\ Position' = chunk.first /\ Position = chunk.first
      /\ Time' = outputSeq + overrunPending /\ Time = outputSeq
  BY <1>1, <1>3 DEF Position, Reading, Time
<1>7. cursor.valid => FailedTime' = FailedTime /\ Reported' = Reported
  BY <1>1, <1>2, <1>6, IntoType, Counters DEF FailedTime, Reported, verdict, history
<1>8. cursor.valid => Reported \in Int
  BY <1>6, IntoType, Counters DEF Reported, FailedTime
<1>9. cursor'.valid => ClockHolds'
  <2> SUFFICES ASSUME cursor.valid PROVE ClockHolds'
    BY <1>2
  <2>1. ClockHolds
    BY <1>1 DEF TimeKept
  <2>2. Reported' >= overrunPending'
    BY <1>2, <1>7, <1>8, <2>1, Counters DEF ClockHolds
  <2> QED
    BY <1>1, <1>7, <2>1, <2>2 DEF ClockHolds
<1>10. outputSeq' = chunk'.time + chunk'.n
  BY <1>1, <1>3
<1>11. TimeKept'
  BY <1>1, <1>2, <1>3, <1>6, <1>9, <1>10 DEF TimeKept, Reading, ring, verdict, history
<1> QED BY <1>4, <1>5, <1>11

(* A failure of the resampler loses the chunk without a mark.               *)
LEMMA ResampleFailKeeps == ASSUME RingInv, ResampleFail PROVE RingInv'
<1> USE DEF RingInv
<1>1. PICK n \in {0, overrunPending} : Skip(n) /\ outputSeq' = outputSeq + n
  BY DEF ResampleFail
<1>2. /\ fpc = "resample" /\ fpc' = "call" /\ failures < MaxFailures
      /\ hidden' = hidden + chunk.n /\ failures' = failures + 1
      /\ UNCHANGED <<ring, before, chunk, gapPending, tail, verdict, seen>>
  BY DEF ResampleFail
<1>3. n \in Nat /\ n <= overrunPending
  BY <1>1, Counters
<1>4. /\ overrunPending' \in Nat /\ overrunPending' = overrunPending - n
      /\ cursor' \in [valid: BOOLEAN, next: Nat] /\ cursor'.valid = cursor.valid
      /\ cursor.valid => cursor'.next = cursor.next + n
  BY <1>1, <1>3, SkipMoves
<1>5. TypeOK'
  <2>1. outputSeq' \in Nat /\ hidden' \in Nat /\ failures' \in 0 .. MaxFailures
    BY <1>1, <1>2, <1>3, Counters, Constants DEF TypeOK
  <2> QED
    BY <1>2, <1>4, <2>1 DEF TypeOK, ring, verdict
<1>6. HoldsTheNewest' /\ OverrunsNoted'
  BY <1>2 DEF HoldsTheNewest, OverrunsNoted, ring
<1>7. /\ Position' = chunk.first + chunk.n /\ Position = chunk.first
      /\ Time' = outputSeq + n /\ Time = outputSeq
  BY <1>1, <1>2 DEF Position, Reading, Time
<1>8. cursor.valid => FailedTime' = FailedTime /\ Reported' = Reported /\ Reported \in Int
  BY <1>2, <1>3, <1>4, <1>7, IntoType, Counters DEF FailedTime, Reported, verdict
<1>9. cursor'.valid => ClockHolds'
  <2> SUFFICES ASSUME cursor.valid PROVE ClockHolds'
    BY <1>4
  <2>1. ClockHolds
    BY <1>2 DEF TimeKept
  <2>2. Reported' >= overrunPending'
    BY <1>3, <1>4, <1>8, <2>1, Counters DEF ClockHolds
  <2> QED
    BY <1>2, <1>8, <2>1, <2>2 DEF ClockHolds
<1>10. lastEnd' <= Position' /\ (gapPending' => lastEnd' < Position')
  BY <1>2, <1>7, Counters DEF TimeKept, verdict
<1>11. TimeKept'
  BY <1>2, <1>9, <1>10 DEF TimeKept, Reading, ring, verdict
<1> QED BY <1>5, <1>6, <1>11

(* A chunk that fails may take the mark of a gap with it, but then a symbol *)
(* of output time is missing.                                               *)
LEMMA ChunkFailKeeps == ASSUME RingInv, ChunkFail PROVE RingInv'
<1> USE DEF RingInv
<1>1. /\ fpc = "demod" /\ fpc' = "call" /\ failures < MaxFailures
      /\ failures' = failures + 1
      /\ UNCHANGED <<ring, before, chunk, overrunPending, outputSeq, cursor, verdict, seen, hidden>>
      /\ \/ UNCHANGED <<tail, gapPending>>
         \/ LongEnough /\ tail' = KeptTail /\ gapPending' \in {gapPending, FALSE}
  BY DEF ChunkFail
<1>2. chunk.n > 0 /\ outputSeq = chunk.time + chunk.n
  BY <1>1 DEF TimeKept, Reading
<1>3. /\ tail' \in 0 .. (TailSymbols * SymbolLen) /\ gapPending' \in BOOLEAN
      /\ tail > 0 => tail' > 0
      /\ gapPending' => gapPending
      /\ gapPending => gapPending' \/ chunk.n >= SymbolLen
  <2>1. CASE UNCHANGED <<tail, gapPending>>
    BY <2>1 DEF TypeOK
  <2>2. CASE LongEnough /\ tail' = KeptTail /\ gapPending' \in {gapPending, FALSE}
    <3>1. tail' \in 0 .. (TailSymbols * SymbolLen) /\ tail' > 0 /\ chunk.n >= SymbolLen
      BY <1>2, <2>2, LongChunk
    <3>2. gapPending' \in BOOLEAN /\ (gapPending' => gapPending)
      <4>1. gapPending \in BOOLEAN
        BY DEF TypeOK
      <4>2. CASE gapPending' = gapPending
        BY <4>1, <4>2
      <4>3. CASE gapPending' = FALSE
        BY <4>3
      <4> QED BY <2>2, <4>2, <4>3
    <3> QED BY <3>1, <3>2
  <2> QED BY <1>1, <2>1, <2>2
<1>4. TypeOK'
  <2>1. failures' \in 0 .. MaxFailures
    BY <1>1, Constants DEF TypeOK
  <2> QED
    BY <1>1, <1>3, <2>1 DEF TypeOK, ring, verdict
<1>5. HoldsTheNewest' /\ OverrunsNoted'
  BY <1>1 DEF HoldsTheNewest, OverrunsNoted, ring
<1>6. /\ Position' = chunk.first + chunk.n /\ Position = chunk.first
      /\ Time' = outputSeq /\ Time = chunk.time
  BY <1>1 DEF Position, Reading, Time
<1>7. /\ FailedTime' = FailedTime + chunk.n /\ Reported' = Reported
      /\ FailedTime \in Int /\ Reported \in Int
  BY <1>1, <1>2, <1>6, IntoType, Counters DEF FailedTime, Reported, verdict
<1>8. cursor'.valid => ClockHolds'
  <2> SUFFICES ASSUME cursor.valid PROVE ClockHolds'
    BY <1>1
  <2>1. ClockHolds
    BY <1>1 DEF TimeKept
  <2>2. FailedTime' >= 0 /\ Reported' >= overrunPending' /\ tail' > 0
    BY <1>1, <1>2, <1>3, <1>7, <2>1, Counters DEF ClockHolds
  <2>3. Reported' > 0 => gapPending' \/ FailedTime' >= SymbolLen
    BY <1>2, <1>3, <1>7, <2>1, Counters, Constants DEF ClockHolds
  <2> QED
    BY <2>2, <2>3 DEF ClockHolds
<1>9. lastEnd' <= Position' /\ (gapPending' => lastEnd' < Position')
  BY <1>1, <1>2, <1>3, <1>6, Counters DEF TimeKept, verdict
<1>10. TimeKept'
  BY <1>1, <1>8, <1>9 DEF TimeKept, Reading, ring, verdict
<1> QED BY <1>4, <1>5, <1>10

(* A chunk that is too short ends the frontend.                             *)
LEMMA TooShortKeeps == ASSUME RingInv, ChunkTooShort PROVE RingInv'
<1> USE DEF RingInv, ChunkTooShort
<1>1. TypeOK'
  BY LongChunk DEF TypeOK, ring, verdict, history
<1>2. HoldsTheNewest' /\ OverrunsNoted'
  BY DEF HoldsTheNewest, OverrunsNoted, ring, history
<1>3. TimeKept'
  BY DEF TimeKept
<1> QED BY <1>1, <1>2, <1>3

(* Symbols are taken from the cursor on, and the rest is kept.              *)
LEMMA DemodKeeps == ASSUME RingInv, Demod PROVE RingInv'
<1> USE DEF RingInv
<1>1. /\ fpc = "demod" /\ fpc' = "call" /\ LongEnough
      /\ gapPending' = FALSE /\ tail' = KeptTail
      /\ cursor' = [valid |-> TRUE, next |-> NextSymbol]
      /\ lastEnd' = chunk.first + chunk.n /\ hidden' = 0
      /\ UNCHANGED <<ring, before, chunk, overrunPending, outputSeq, seen, failures>>
  BY DEF Demod
<1>2. chunk.n > 0 /\ outputSeq = chunk.time + chunk.n /\ overrunPending = 0
  BY <1>1 DEF TimeKept, Reading
<1>3. tail' \in 0 .. (TailSymbols * SymbolLen) /\ tail' > 0 /\ chunk.n >= SymbolLen
  BY <1>1, <1>2, LongChunk
<1>4. /\ lastEnd' \in Nat /\ IntoSymbol(lastEnd') \in Nat /\ IntoSymbol(lastEnd') < SymbolLen
      /\ NextSymbol = outputSeq - IntoSymbol(lastEnd')
  BY <1>1, <1>2, IntoType, Counters DEF NextSymbol
<1>5. NextSymbol \in Nat
  BY <1>2, <1>3, <1>4, Counters, Constants
<1>6. continuous' \in BOOLEAN
  BY DEF Demod, TypeOK
<1>7. TypeOK'
  <2>1. cursor' \in [valid: BOOLEAN, next: Nat]
    BY <1>1, <1>5
  <2>2. hidden' \in Nat /\ lastEnd' \in Nat /\ gapPending' \in BOOLEAN
    BY <1>1, <1>4
  <2> QED
    BY <1>1, <1>3, <1>6, <2>1, <2>2 DEF TypeOK, ring
<1>8. HoldsTheNewest' /\ OverrunsNoted'
  BY <1>1 DEF HoldsTheNewest, OverrunsNoted, ring
<1>9. Position' = lastEnd' /\ Time' = outputSeq
  BY <1>1 DEF Position, Reading, Time
<1>10. FailedTime' = 0
  BY <1>1, <1>4, <1>9, Counters DEF FailedTime, IntoSymbol
<1>11. Reported' = 0
  BY <1>1, <1>4, <1>9, <1>10 DEF Reported
<1>12. ClockHolds'
  BY <1>1, <1>2, <1>3, <1>10, <1>11 DEF ClockHolds
<1>13. TimeKept'
  BY <1>1, <1>4, <1>9, <1>12 DEF TimeKept, Reading, ring
<1> QED BY <1>7, <1>8, <1>13

(* All steps together.                                                      *)
LEMMA StepKeeps == RingInv /\ [Next]_vars => RingInv'
<1> SUFFICES ASSUME RingInv, [Next]_vars PROVE RingInv'
  OBVIOUS
<1>1. ASSUME NEW n \in Reads, Push(n) PROVE RingInv'
  BY <1>1, PushKeeps
<1>2. CASE EndOfInput
  BY <1>2, EndKeeps
<1>3. CASE ReadWait
  BY <1>3, WaitKeeps
<1>4. CASE ReadTake
  BY <1>4, TakeKeeps
<1>5. CASE Resample
  BY <1>5, ResampleKeeps
<1>6. CASE ResampleFail
  BY <1>6, ResampleFailKeeps
<1>7. CASE ChunkFail
  BY <1>7, ChunkFailKeeps
<1>8. CASE ChunkTooShort
  BY <1>8, TooShortKeeps
<1>9. CASE Demod
  BY <1>9, DemodKeeps
<1>10. CASE UNCHANGED vars
  BY <1>10
  DEF RingInv, TypeOK, HoldsTheNewest, OverrunsNoted, TimeKept, ClockHolds, Position, Reading,
      Time, FailedTime, Reported, vars, ring, clock, verdict, history
<1> QED
  BY <1>1, <1>2, <1>3, <1>4, <1>5, <1>6, <1>7, <1>8, <1>9, <1>10
  DEF Next, Reader, Frontend, Terminated

(* The invariant holds in every reachable state.                            *)
LEMMA RingInvariant == Spec => []RingInv
BY InitRing, StepKeeps, PTL DEF Spec

-----------------------------------------------------------------------------
(* The results.                                                             *)

(* The ring of live_iq_ring never holds more than it has room for, and the  *)
(* counters of the sample clock never go below zero.                        *)
THEOREM RingTypeCorrect == Spec => []TypeOK
<1>1. RingInv => TypeOK
  BY DEF RingInv
<1> QED BY <1>1, RingInvariant, PTL

(* However pushes and reads interleave and the indices wrap, the frontend   *)
(* reads the newest samples, in order and without a hole.                   *)
THEOREM RingHoldsTheNewest == Spec => []HoldsTheNewest
<1>1. RingInv => HoldsTheNewest
  BY DEF RingInv
<1> QED BY <1>1, RingInvariant, PTL

(* live_iq_ring_start makes the ring large enough: while the frontend has   *)
(* less than a chunk to read, a block always fits.                          *)
THEOREM NothingLostWhileWaiting == Spec => LosesOnlyWhenBehind
<1>1. RingInv /\ [Next]_vars => [overrun' # overrun => count >= Want]_vars
  <2> SUFFICES ASSUME RingInv, Next, overrun' # overrun PROVE count >= Want
    OBVIOUS
  <2>1. PICK n \in Reads : Push(n)
    BY DEF Next, Reader, Frontend, Terminated, EndOfInput, ReadWait, ReadTake, Take, Resample,
           ResampleFail, ChunkFail, ChunkTooShort, Demod, vars, ring
  <2> QED
    BY <2>1, PushSteps, Counters DEF RingInv
<1> QED BY <1>1, RingInvariant, PTL DEF Spec, LosesOnlyWhenBehind

(* Of the overruns that are reported none is hidden: two chunks the         *)
(* frontend calls continuous are as far apart as the hidden samples, and an *)
(* input gap is only claimed where samples are missing.                     *)
THEOREM GapsAreMarked == Spec => OnlyHiddenGaps
<1>1. ASSUME RingInv, Demod
      PROVE  /\ continuous' => SymbolStart(chunk.first) = SymbolStart(lastEnd) + hidden
             /\ gapPending => chunk.first > lastEnd
  <2> USE DEF RingInv
  <2>1. /\ fpc = "demod" /\ Position = chunk.first /\ Time = chunk.time
        /\ overrunPending = 0
    BY <1>1 DEF Demod, TimeKept, Position, Reading, Time
  <2>2. gapPending => chunk.first > lastEnd
    BY <1>1, <2>1, Counters DEF TimeKept
  <2>3. ASSUME continuous'
        PROVE  SymbolStart(chunk.first) = SymbolStart(lastEnd) + hidden
    <3>1. cursor.valid /\ cursor.next = FirstSymbol /\ ~gapPending
      BY <1>1, <2>3 DEF Demod
    <3>2. ClockHolds
      BY <1>1, <2>1, <3>1 DEF TimeKept
    <3>3. cursor.next = chunk.time - IntoSymbol(chunk.first)
      BY <3>1, <3>2 DEF FirstSymbol, ClockHolds
    <3>4. /\ IntoSymbol(chunk.first) \in Nat /\ IntoSymbol(chunk.first) < SymbolLen
          /\ IntoSymbol(lastEnd) \in Nat
      BY <1>1, IntoType, Counters
    <3>5. FailedTime = IntoSymbol(chunk.first) - IntoSymbol(lastEnd)
      BY <1>1, <2>1, <3>3, <3>4, Counters DEF FailedTime
    <3>6. Reported \in Int /\ Reported = chunk.first - lastEnd - hidden - FailedTime
      BY <1>1, <2>1, <3>4, <3>5, Counters DEF Reported
    <3>7. Reported = 0
      BY <2>1, <3>1, <3>2, <3>4, <3>5, <3>6, Constants DEF ClockHolds
    <3> QED
      BY <1>1, <3>4, <3>5, <3>6, <3>7, Counters DEF SymbolStart
  <2> QED BY <2>2, <2>3
<1> QED BY <1>1, RingInvariant, PTL DEF Spec, OnlyHiddenGaps

===============================================================================
