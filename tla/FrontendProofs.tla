---------------------------- MODULE FrontendProofs ----------------------------
(***************************************************************************)
(* For every length of symbol and chunk, every jitter and every limit of   *)
(* the frontend: where a chunk continues a run, its symbols are the next.  *)
(***************************************************************************)
EXTENDS OfdmFrontend, ReceiverLoop, FiniteSetTheorems, TLAPS

(* What is assumed of the constants of the frontend.                        *)
LEMMA FrontConstants ==
  /\ OfdmLen \in Nat /\ OfdmLen > 0 /\ MaxError \in Nat
  /\ ScanLimit \in Nat /\ HoldChunks \in Nat /\ ScanRadius \in Nat
  /\ TrackRadius \in Nat /\ TrackRadius < OfdmLen
  /\ Sizes \subseteq Nat /\ \A n \in Sizes : n >= MinLen
  /\ Gaps \subseteq Nat
  /\ Jitter \subseteq Nat /\ \A j \in Jitter : MaxError + j < OfdmLen
  /\ TailLen \in Nat /\ MinLen \in Nat
BY OfdmAssumption DEF OfdmAssumption, TailLen, MinLen

(* No chunk is longer than the longest.                                     *)
LEMMA LargestSize == Max(Sizes) \in Nat /\ \A n \in Sizes : n <= Max(Sizes)
<1>1. \E m \in Sizes : \A n \in Sizes : m >= n
  BY OfdmAssumption DEF OfdmAssumption
<1> QED BY <1>1, FrontConstants DEF Max

-----------------------------------------------------------------------------
(* Multiples and remainders.                                                *)

(* Quotient and remainder of a division by a positive number.               *)
LEMMA Divide ==
  ASSUME NEW a \in Int, NEW p \in Nat, p > 0
  PROVE  /\ a \div p \in Int /\ a % p \in 0 .. p - 1
         /\ a = p * (a \div p) + (a % p)
OBVIOUS

(* k multiples of p fit into a if and only if k is at most a \div p.       *)
LEMMA FitsIn ==
  ASSUME NEW a \in Int, NEW p \in Nat, p > 0, NEW k \in Int
  PROVE  k * p <= a <=> k <= a \div p
<1> DEFINE q == a \div p
           r == a % p
<1>1. q \in Int /\ r \in 0 .. p - 1 /\ a = p * q + r
  BY Divide
<1> HIDE DEF q, r
<1>2. ASSUME k <= q PROVE k * p <= a
  <2>1. PICK d \in Nat : q = k + d
    BY <1>1, <1>2
  <2>2. p * q = k * p + p * d /\ p * d >= 0
    BY <2>1
  <2> QED BY <2>2, <1>1
<1>3. ASSUME k > q PROVE k * p > a
  <2>1. PICK d \in Nat : k = q + 1 + d
    BY <1>1, <1>3
  <2>2. k * p = p * q + p + p * d /\ p * d >= 0
    BY <2>1, <1>1
  <2> QED BY <2>2, <1>1
<1> QED BY <1>1, <1>2, <1>3 DEF q

(* What leaves no remainder is a multiple of the length of a symbol.        *)
LEMMA GridMultiple ==
  ASSUME NEW x \in Int
  PROVE  x % OfdmLen = 0 <=> \E k \in Int : x = k * OfdmLen
<1>1. ASSUME x % OfdmLen = 0 PROVE \E k \in Int : x = k * OfdmLen
  BY <1>1, Divide, FrontConstants
<1>2. ASSUME NEW k \in Int, x = k * OfdmLen PROVE x % OfdmLen = 0
  <2> DEFINE q == x \div OfdmLen
             r == x % OfdmLen
  <2>1. q \in Int /\ r \in 0 .. OfdmLen - 1 /\ x = OfdmLen * q + r
    BY Divide, FrontConstants
  <2> HIDE DEF q, r
  <2>2. PICK d \in Int : k = q + d
    BY <2>1
  <2>3. r = d * OfdmLen
    BY <2>1, <2>2, <1>2, FrontConstants
  <2>4. CASE d >= 1
    <3>1. PICK e \in Nat : d = e + 1 BY <2>4
    <3>2. r = e * OfdmLen + OfdmLen /\ e * OfdmLen >= 0
      BY <3>1, <2>3, FrontConstants
    <3> QED BY <3>2, <2>1, FrontConstants
  <2>5. CASE d <= -1
    <3>1. PICK e \in Nat : d = -e - 1 BY <2>5
    <3>2. r = -(e * OfdmLen) - OfdmLen /\ e * OfdmLen >= 0
      BY <3>1, <2>3, FrontConstants
    <3> QED BY <3>2, <2>1, FrontConstants
  <2>6. d = 0 => r = 0
    BY <2>3, FrontConstants
  <2> QED BY <2>4, <2>5, <2>6 DEF r
<1> QED BY <1>1, <1>2

-----------------------------------------------------------------------------
(* What the state keeps.                                                    *)

OnGrid(x) == x % OfdmLen = 0

Frames ==
  [n : Nat, gap : BOOLEAN, moved : BOOLEAN, prefix : Nat, len : Nat, edge : BOOLEAN,
   start : Nat, jitter : Nat, bin : Bins, advised : Bins, lock : Locks]

FrontTypes ==
  /\ stage \in {"read", "sync", "scan", "judge", "pilots"}
  /\ here \in Nat /\ kept \in 0 .. TailLen
  /\ carrier \in Bins
  /\ track \in [valid : BOOLEAN, bin : Bins, back : Nat]
  /\ holdCount \in 0 .. HoldChunks
  /\ frame \in Frames
  /\ given \in Nat \cup {None} /\ skipped \in Nat

(* The chunk in hand: the tail in front of it, and from the search on where *)
(* its symbols begin.                                                       *)
ChunkKnown ==
  /\ stage # "read" => /\ frame.n \in Sizes
                       /\ frame.prefix <= TailLen
                       /\ frame.len = frame.prefix + frame.n
  /\ stage \in {"scan", "judge", "pilots"} =>
       /\ frame.jitter \in Jitter
       /\ OnGrid(here - frame.len + frame.start - frame.jitter)
  /\ stage = "pilots" => Used # {} /\ track.back = frame.len - NextStart

(* The cursor stands where the last symbol handed over ended, but for the   *)
(* jitter it was found with and the symbols held back since.                *)
CursorFits ==
  \E j \in Jitter : /\ given = track.back + j + skipped * OfdmLen
                    /\ OnGrid(here - track.back - j)

(* Or a chunk has failed since, and the cursor is more than a tail behind;  *)
(* an overrun it is not told of shows on the chunk.                         *)
RunKnown ==
  given # None =>
    /\ stage = "read" => CursorFits \/ track.back >= MinLen
    /\ stage \in {"sync", "scan", "judge"} =>
         /\ track.back >= frame.n
         /\ frame.gap \/ CursorFits \/ track.back >= frame.len + TailLen
    /\ stage = "pilots" =>
         given = frame.len - (First - frame.jitter) + skipped * OfdmLen

MostSymbols == (Max(Sizes) + OfdmLen) \div OfdmLen

FrontInv ==
  /\ FrontTypes
  /\ ChunkKnown
  /\ RunKnown
  /\ seam = 0
  /\ skipped <= holdCount * MostSymbols

-----------------------------------------------------------------------------
(* The grid of symbols.                                                     *)

(* Sums and differences of places on the grid are on it.                    *)
LEMMA GridAdds ==
  ASSUME NEW x \in Int, NEW y \in Int, OnGrid(x), OnGrid(y)
  PROVE  OnGrid(x + y) /\ OnGrid(x - y)
<1>1. PICK k \in Int : x = k * OfdmLen
  BY GridMultiple DEF OnGrid
<1>2. PICK l \in Int : y = l * OfdmLen
  BY GridMultiple DEF OnGrid
<1>3. x + y = (k + l) * OfdmLen /\ x - y = (k - l) * OfdmLen
  BY <1>1, <1>2, FrontConstants
<1> QED BY <1>3, GridMultiple DEF OnGrid

(* A place on the grid stays on it when it is moved by whole symbols.       *)
LEMMA GridMoves ==
  ASSUME NEW x \in Int, NEW k \in Int, OnGrid(x)
  PROVE  OnGrid(x + k * OfdmLen)
<1>1. k * OfdmLen \in Int /\ OnGrid(k * OfdmLen)
  BY GridMultiple, FrontConstants DEF OnGrid
<1> QED BY <1>1, GridAdds

(* Less than a symbol from the grid's origin there is nothing but it.       *)
LEMMA GridApart ==
  ASSUME NEW x \in Int, OnGrid(x), -OfdmLen < x, x < OfdmLen
  PROVE  x = 0
<1>1. CASE x >= 0
  BY <1>1, FrontConstants DEF OnGrid
<1>2. CASE x < 0
  <2>1. OnGrid(x + 1 * OfdmLen)
    BY GridMoves
  <2>2. x + 1 * OfdmLen \in Nat /\ x + 1 * OfdmLen < OfdmLen
    BY <1>2, FrontConstants
  <2> QED BY <2>1, <2>2, <1>2, FrontConstants DEF OnGrid
<1> QED BY <1>1, <1>2

(* So it does when whole symbols are taken off a part of it.                *)
LEMMA GridOfRemainder ==
  ASSUME NEW x \in Int, NEW y \in Int, OnGrid(x + y)
  PROVE  OnGrid((x % OfdmLen) + y)
<1> DEFINE q == x \div OfdmLen
           r == x % OfdmLen
<1>1. q \in Int /\ r \in 0 .. OfdmLen - 1 /\ x = OfdmLen * q + r
  BY Divide, FrontConstants
<1> HIDE DEF q, r
<1>2. r + y = (x + y) + (-q) * OfdmLen
  BY <1>1, FrontConstants
<1> QED BY <1>2, <1>1, GridMoves DEF r

-----------------------------------------------------------------------------
(* The symbols of a chunk.                                                  *)

(* The symbols that are demodulated follow each other, begin after the tail *)
(* has ended and end before the chunk does.                                 *)
LEMMA UsedShape ==
  ASSUME frame \in Frames, frame.len = frame.prefix + frame.n
  PROVE  /\ Skipped \in Nat /\ Cardinality(Used) \in Nat
         /\ First \in Nat /\ NextStart \in Nat
         /\ First = frame.start + Skipped * OfdmLen
         /\ NextStart = First + Cardinality(Used) * OfdmLen
         /\ First + OfdmLen > frame.prefix
         /\ First = frame.start \/ First <= frame.prefix
         /\ Used # {} => NextStart < frame.len /\ NextStart + OfdmLen >= frame.len
         /\ Used # {} => (Cardinality(Used) - 1) * OfdmLen <= frame.n
<1> DEFINE P == OfdmLen
           len == frame.len
           start == frame.start
           prefix == frame.prefix
           last == len \div P
           q == (prefix - start) \div P
           w == (len - 1 - start) \div P
           m == IF q > 0 THEN q ELSE 0
           c == IF w > m THEN w - m ELSE 0
<1>1. P \in Nat /\ P > 0 /\ len \in Nat /\ start \in Nat /\ prefix \in Nat
      /\ frame.n \in Nat /\ len = prefix + frame.n
  BY FrontConstants DEF Frames
<1>2. last \in Nat /\ q \in Int /\ w \in Int
  BY <1>1
<1>3. \A k \in Int : /\ k * P <= len <=> k <= last
                     /\ k * P <= prefix - start <=> k <= q
                     /\ k * P <= len - 1 - start <=> k <= w
  BY <1>1, FitsIn
<1>4. \A k \in Nat : k * P \in Nat
  BY <1>1
<1>5. q <= last /\ w <= last
  <2>1. q * P <= prefix - start /\ w * P <= len - 1 - start
    BY <1>2, <1>3
  <2>2. q * P \in Int /\ w * P \in Int
    BY <1>1, <1>2
  <2>3. q * P <= len /\ w * P <= len
    BY <2>1, <2>2, <1>1
  <2> QED BY <2>3, <1>3, <1>2
<1>6. \A s \in Nat : EndOf(s) = start + (s + 1) * P
  BY DEF EndOf
<1> HIDE DEF q, w, last, start, len, prefix
<1>7. m \in Nat /\ c \in Nat /\ m >= q /\ m <= last
  BY <1>2, <1>5
<1>8. {s \in 0 .. last : EndOf(s) <= prefix} = 0 .. m - 1
  <2>1. ASSUME NEW s \in 0 .. last PROVE EndOf(s) <= prefix <=> s \in 0 .. m - 1
    <3>1. s \in Nat /\ s + 1 \in Int /\ (s + 1) * P \in Int
      BY <1>1, <1>2
    <3>2. EndOf(s) <= prefix <=> (s + 1) * P <= prefix - start
      BY <3>1, <1>6, <1>1
    <3>3. EndOf(s) <= prefix <=> s + 1 <= q
      BY <3>1, <3>2, <1>3
    <3> QED BY <3>3, <3>1, <1>2
  <2> QED BY <2>1, <1>7, <1>2
<1>9. Skipped = m
  <2>1. Skipped = Cardinality(0 .. m - 1)
    BY <1>8 DEF Skipped, last, len, prefix
  <2> QED BY <2>1, <1>7, FS_Interval
<1>10. Used = m .. w - 1
  <2>1. ASSUME NEW s \in m .. last PROVE EndOf(s) < len <=> s \in m .. w - 1
    <3>1. s \in Nat /\ s + 1 \in Int /\ (s + 1) * P \in Int
      BY <1>1, <1>2, <1>7
    <3>2. EndOf(s) < len <=> (s + 1) * P <= len - 1 - start
      BY <3>1, <1>6, <1>1
    <3>3. EndOf(s) < len <=> s + 1 <= w
      BY <3>1, <3>2, <1>3
    <3> QED BY <3>3, <3>1, <1>2
  <2>2. Used = {s \in m .. last : EndOf(s) < len}
    BY <1>9 DEF Used, last, len
  <2> QED BY <2>1, <2>2, <1>7, <1>2, <1>5
<1>11. Cardinality(Used) = c
  BY <1>10, <1>7, <1>2, FS_Interval
<1>12. First = start + m * P /\ NextStart = First + c * P
  BY <1>9, <1>11 DEF First, NextStart, start
<1>13. First \in Nat /\ NextStart \in Nat
  BY <1>12, <1>4, <1>7, <1>1
<1>14. First + P > prefix /\ (First = start \/ First <= prefix)
  <2>1. ~((m + 1) * P <= prefix - start)
    BY <1>2, <1>3, <1>7
  <2>2. (m + 1) * P = m * P + P /\ m * P \in Nat
    BY <1>1, <1>7
  <2>3. First + P > prefix
    BY <2>1, <2>2, <1>12, <1>1
  <2>4. CASE q > 0
    <3>1. m = q /\ q * P <= prefix - start
      BY <2>4, <1>2, <1>3
    <3> QED BY <3>1, <2>2, <2>3, <1>12, <1>1
  <2>5. CASE ~(q > 0)
    BY <2>3, <2>5, <1>12, <1>1
  <2> QED BY <2>4, <2>5
<1>15. ASSUME Used # {}
       PROVE  NextStart < len /\ NextStart + P >= len /\ (c - 1) * P <= frame.n
  <2>1. w > m /\ c = w - m
    BY <1>15, <1>10, <1>7, <1>2
  <2>2. m * P \in Nat /\ w * P \in Int /\ c * P \in Nat
    BY <1>1, <1>2, <1>7
  <2>3. c * P = w * P - m * P
    BY <2>1, <1>1, <1>2, <1>7
  <2>4. w * P <= len - 1 - start
    BY <1>2, <1>3
  <2>5. NextStart < len
    BY <2>2, <2>3, <2>4, <1>12, <1>1
  <2>6. ~((m + 1) * P <= prefix - start)
    BY <1>2, <1>3, <1>7
  <2>7. (m + 1) * P = m * P + P /\ (c - 1) * P = c * P - P
    BY <1>1, <1>7
  <2>8. NextStart + P >= len
    <3>1. ~((w + 1) * P <= len - 1 - start) /\ (w + 1) * P = w * P + P
      BY <1>1, <1>2, <1>3
    <3> QED BY <3>1, <2>2, <2>3, <1>12, <1>1
  <2> QED BY <2>2, <2>3, <2>4, <2>5, <2>6, <2>7, <2>8, <1>1
<1> QED
  BY <1>7, <1>9, <1>11, <1>12, <1>13, <1>14, <1>15 DEF len, start, prefix

(* No chunk brings more symbols than the largest one.                       *)
LEMMA MostOf ==
  ASSUME frame \in Frames, frame.len = frame.prefix + frame.n, frame.n \in Sizes,
         Used # {}
  PROVE  Cardinality(Used) <= MostSymbols /\ MostSymbols \in Nat
<1> DEFINE c == Cardinality(Used)
<1>1. c \in Nat /\ (c - 1) * OfdmLen <= frame.n
  BY UsedShape
<1>2. frame.n \in Nat /\ frame.n <= Max(Sizes) /\ Max(Sizes) \in Nat
  BY LargestSize, FrontConstants
<1>3. (c - 1) * OfdmLen = c * OfdmLen - OfdmLen /\ c * OfdmLen \in Int
  BY <1>1, FrontConstants
<1>4. c * OfdmLen <= Max(Sizes) + OfdmLen /\ Max(Sizes) + OfdmLen \in Nat
  BY <1>1, <1>2, <1>3, FrontConstants
<1>5. c <= MostSymbols
  BY <1>1, <1>4, FitsIn, FrontConstants DEF MostSymbols
<1>6. MostSymbols \in Nat
  <2>1. MostSymbols \in Int
    BY <1>4, Divide, FrontConstants DEF MostSymbols
  <2> QED BY <2>1, <1>5, <1>1
<1> QED BY <1>5, <1>6

(* The bound on the symbols of a chunk is a number.                         *)
LEMMA MostIsNat == MostSymbols \in Nat
BY LargestSize, FrontConstants, Divide DEF MostSymbols

(* The symbols of a chunk depend on its frame only.                         *)
LEMMA ChunkSame ==
  ASSUME frame' = frame
  PROVE  Used' = Used /\ First' = First /\ NextStart' = NextStart
BY DEF Used, First, NextStart, Skipped, EndOf

-----------------------------------------------------------------------------
(* The first state, and one lemma for each action.                          *)

(* The empty frame is a frame.                                              *)
LEMMA NoFrameType == NoFrame \in Frames
BY FrontConstants DEF NoFrame, Frames, Bins, Locks

(* So is the one a read leaves.                                             *)
LEMMA NewFrameType ==
  ASSUME NEW n \in Nat, NEW prefix \in Nat, NEW gap \in BOOLEAN, NEW moved \in BOOLEAN,
         NEW edge \in BOOLEAN
  PROVE  [NoFrame EXCEPT !.n = n, !.gap = gap, !.moved = moved, !.prefix = prefix,
            !.len = prefix + n, !.edge = edge] \in Frames
<1> DEFINE first == [NoFrame EXCEPT !.n = n, !.gap = gap, !.moved = moved]
<1>1. first \in Frames
  BY NoFrameType DEF Frames
<1> HIDE DEF first
<1>2. prefix + n \in Nat
  OBVIOUS
<1>3. [first EXCEPT !.prefix = prefix, !.len = prefix + n, !.edge = edge] \in Frames
  BY <1>1, <1>2 DEF Frames
<1>4. [NoFrame EXCEPT !.n = n, !.gap = gap, !.moved = moved, !.prefix = prefix,
         !.len = prefix + n, !.edge = edge]
        = [first EXCEPT !.prefix = prefix, !.len = prefix + n, !.edge = edge]
  BY DEF first, NoFrame
<1> QED BY <1>3, <1>4

(* The invariant holds at the start.                                        *)
LEMMA InitFront == OfdmInit => FrontInv
<1> SUFFICES ASSUME OfdmInit PROVE FrontInv
  OBVIOUS
<1>1. FrontTypes
  BY NoFrameType, FrontConstants DEF OfdmInit, FrontTypes, Lost, Bins
<1>2. ChunkKnown /\ RunKnown
  BY DEF OfdmInit, ChunkKnown, RunKnown
<1>3. skipped <= holdCount * MostSymbols
  BY MostIsNat DEF OfdmInit
<1> QED BY <1>1, <1>2, <1>3 DEF FrontInv, OfdmInit

(* A read with a tail in front of it, after an overrun or not, keeps the    *)
(* invariant: the cursor is moved with the samples.                         *)
LEMMA ReadKeeps ==
  ASSUME FrontInv, NEW n \in Sizes, NEW gap \in Gaps, NEW drift,
         ReadFrame(n, gap, drift)
  PROVE  FrontInv'
<1> USE FrontConstants
<1>1. n \in Nat /\ gap \in Nat /\ n >= MinLen /\ kept \in Nat /\ kept <= TailLen
  BY DEF FrontInv, FrontTypes
<1>2. /\ stage = "read" /\ stage' = "sync"
      /\ here' = (here + gap + n) % OfdmLen
      /\ frame'.n = n /\ frame'.gap = (gap # 0) /\ frame'.prefix = kept
      /\ frame'.len = kept + n
      /\ track'.back = track.back + n
      /\ given' = IF given = None THEN None ELSE given + gap + n
      /\ UNCHANGED <<skipped, seam, holdCount>>
  BY DEF ReadFrame, Stage, NoFrame, FrontInv, FrontTypes
<1>3. kept' \in 0 .. TailLen
  <2>1. kept' = Min({kept + n, TailLen})
    BY DEF ReadFrame
  <2>2. kept + n \in Nat /\ TailLen \in Nat
    BY <1>1
  <2>3. \E x \in {kept + n, TailLen} : \A y \in {kept + n, TailLen} : x <= y
    BY <2>2
  <2>4. Min({kept + n, TailLen}) \in {kept + n, TailLen}
        /\ Min({kept + n, TailLen}) <= TailLen
    BY <2>3 DEF Min
  <2> QED BY <2>1, <2>2, <2>4
<1>4. frame' \in Frames
  <2>1. (gap # 0) \in BOOLEAN /\ (drift # 0) \in BOOLEAN
        /\ ((here + gap) % OfdmLen = 0) \in BOOLEAN
    OBVIOUS
  <2> QED
    BY ONLY <1>1, <2>1, NewFrameType, ReadFrame(n, gap, drift), Zenon DEF ReadFrame
<1>5. FrontTypes'
  <2>1. track' \in [valid : BOOLEAN, bin : Bins, back : Nat]
    BY <1>1 DEF ReadFrame, FrontInv, FrontTypes
  <2>2. here' \in Nat
    BY <1>1, <1>2, Divide DEF FrontInv, FrontTypes
  <2>3. given' \in Nat \cup {None}
    BY <1>1, <1>2 DEF FrontInv, FrontTypes, None
  <2> QED
    BY <1>2, <1>3, <1>4, <2>1, <2>2, <2>3 DEF ReadFrame, FrontInv, FrontTypes
<1>6. ChunkKnown'
  BY <1>1, <1>2 DEF ChunkKnown
<1>7. RunKnown'
  <2> SUFFICES ASSUME given' # None
               PROVE  frame'.gap \/ CursorFits' \/ track'.back >= frame'.len + TailLen
    <3>1. track'.back >= frame'.n
      BY <1>1, <1>2 DEF FrontInv, FrontTypes
    <3> QED BY <1>2, <3>1 DEF RunKnown
  <2>1. track.back \in Nat /\ given \in Nat /\ skipped \in Nat /\ here \in Nat
    BY <1>2 DEF FrontInv, FrontTypes, None
  <2>2. CASE gap # 0
    BY <2>1, <2>2, <1>1, <1>2
  <2>3. CASE gap = 0 /\ CursorFits
    <3>1. PICK j \in Jitter : /\ given = track.back + j + skipped * OfdmLen
                              /\ OnGrid(here - track.back - j)
      BY <2>3 DEF CursorFits
    <3>2. given' = track'.back + j + skipped' * OfdmLen
      <4>1. skipped * OfdmLen \in Int /\ j \in Int
        BY <2>1
      <4> QED BY <4>1, <3>1, <2>1, <2>3, <1>1, <1>2
    <3>3. OnGrid(here' - track'.back - j)
      <4> DEFINE x == here + gap + n
                 y == -(track.back + n) - j
      <4>1. x \in Int /\ y \in Int /\ x + y = here - track.back - j
        BY <2>1, <2>3, <1>1
      <4>2. OnGrid((x % OfdmLen) + y)
        BY <4>1, <3>1, GridOfRemainder
      <4>3. (x % OfdmLen) + y = here' - track'.back - j
        BY <1>1, <1>2, <2>1, Divide
      <4> QED BY <4>2, <4>3
    <3> QED BY <3>2, <3>3, <2>1, <1>1, <1>2 DEF CursorFits, OnGrid
  <2>4. CASE track.back >= MinLen
    BY <2>4, <2>1, <1>1, <1>2 DEF MinLen, TailLen
  <2>5. CursorFits \/ track.back >= MinLen
    BY <1>2, <2>1 DEF FrontInv, RunKnown, None
  <2> QED BY <2>2, <2>3, <2>4, <2>5
<1> QED
  BY <1>2, <1>5, <1>6, <1>7 DEF FrontInv, MostSymbols

(* Tracked or searched anew, the start is on the grid but for the jitter.   *)
LEMMA SyncKeeps ==
  ASSUME FrontInv, Stage("sync", "scan"), NEW start \in Nat, NEW jitter \in Jitter,
         OnGrid(here - frame.len + start - jitter),
         Synced(start, jitter),
         UNCHANGED <<here, kept, carrier, track, holdCount, given, skipped, seam>>
  PROVE  FrontInv'
<1> USE FrontConstants
<1>1. /\ stage = "sync" /\ stage' = "scan"
      /\ frame'.start = start /\ frame'.jitter = jitter
      /\ frame'.n = frame.n /\ frame'.prefix = frame.prefix /\ frame'.len = frame.len
      /\ frame'.gap = frame.gap
      /\ frame' \in Frames
  BY DEF Stage, Synced, FrontInv, FrontTypes, Frames
<1>2. FrontTypes'
  BY <1>1 DEF FrontInv, FrontTypes
<1>3. ChunkKnown'
  BY <1>1 DEF FrontInv, ChunkKnown, OnGrid
<1>4. CursorFits' = CursorFits
  BY DEF CursorFits, OnGrid
<1>5. RunKnown'
  BY <1>1, <1>4 DEF FrontInv, RunKnown
<1> QED
  BY <1>2, <1>3, <1>5 DEF FrontInv, MostSymbols

(* A symbol starts where one is transmitted.                                *)
LEMMA StartOnGrid ==
  ASSUME FrontInv, stage = "sync", NEW s \in Starts
  PROVE  s \in Nat /\ OnGrid(here - frame.len + s)
BY DEF Starts, OnGrid, FrontInv, FrontTypes, Frames

(* A start found from the cursor is on the grid but for its jitter.         *)
LEMMA TrackKeeps == ASSUME FrontInv, Track PROVE FrontInv'
<1>1. PICK s \in Starts, j \in Jitter : Synced(s + j, j)
  BY DEF Track
<1>2. /\ s \in Nat /\ OnGrid(here - frame.len + s)
      /\ j \in Nat /\ here \in Nat /\ frame.len \in Nat
  BY StartOnGrid, FrontConstants DEF Track, Stage, FrontInv, FrontTypes, Frames
<1>3. s + j \in Nat /\ here - frame.len + (s + j) - j = here - frame.len + s
  BY <1>2
<1> QED
  BY <1>1, <1>2, <1>3, SyncKeeps DEF Track

(* And so is one that is searched for.                                      *)
LEMMA AcquireKeeps == ASSUME FrontInv, Acquire PROVE FrontInv'
<1>1. PICK s \in Starts, j \in Jitter : Synced((s + j) % OfdmLen, j)
  BY DEF Acquire
<1>2. /\ s \in Nat /\ OnGrid(here - frame.len + s)
      /\ j \in Nat /\ here \in Nat /\ frame.len \in Nat
  BY StartOnGrid, FrontConstants DEF Acquire, Stage, FrontInv, FrontTypes, Frames
<1> DEFINE y == here - frame.len - j
<1>3. (s + j) % OfdmLen \in Nat /\ y \in Int /\ s + j \in Int
  BY <1>2, FrontConstants, Divide
<1>4. (s + j) + y = here - frame.len + s
  BY <1>2
<1>5. OnGrid(((s + j) % OfdmLen) + y)
  BY <1>2, <1>3, <1>4, GridOfRemainder
<1>6. ((s + j) % OfdmLen) + y = here - frame.len + ((s + j) % OfdmLen) - j
  BY <1>2, <1>3
<1> QED
  BY <1>1, <1>3, <1>5, <1>6, SyncKeeps DEF Acquire

(* The scan for pilots moves no sample.                                     *)
LEMMA ScanKeeps == ASSUME FrontInv, PilotScan PROVE FrontInv'
<1>1. PICK bin, advised \in Bins, lock \in Locks :
        frame' = [frame EXCEPT !.bin = bin, !.advised = advised, !.lock = lock]
  <2>1. carrier \in Bins /\ track.bin \in Bins
    BY DEF FrontInv, FrontTypes
  <2>2. \A B \in SUBSET Bins : Scanned(B) \subseteq Bins
    BY <2>1 DEF Scanned
  <2>3. Near(track.bin) \in SUBSET Bins /\ {track.bin} \in SUBSET Bins
    BY <2>1 DEF Near
  <2> DEFINE looked == Scanned(IF ~track.valid THEN Bins
                               ELSE IF afc THEN Near(track.bin) ELSE {track.bin})
             advice(b) == IF track.valid /\ ~afc THEN Scanned(Near(track.bin)) ELSE {b}
  <2>4. looked \subseteq Bins /\ \A b \in Bins : advice(b) \subseteq Bins
    BY <2>2, <2>3
  <2>5. \A b \in Bins : LocksAt(b) \subseteq Locks
    BY DEF LocksAt, Locks
  <2>6. \E b \in looked : \E a \in advice(b) : \E l \in LocksAt(b) :
          frame' = [frame EXCEPT !.bin = b, !.advised = a, !.lock = l]
    BY DEF PilotScan
  <2> QED BY <2>4, <2>5, <2>6
<1>2. /\ stage = "scan" /\ stage' = "judge"
      /\ UNCHANGED <<here, kept, carrier, track, holdCount, given, skipped, seam>>
  BY DEF PilotScan, Stage
<1>3. /\ frame'.start = frame.start /\ frame'.jitter = frame.jitter
      /\ frame'.n = frame.n /\ frame'.prefix = frame.prefix /\ frame'.len = frame.len
      /\ frame'.gap = frame.gap
      /\ frame' \in Frames
  BY <1>1 DEF FrontInv, FrontTypes, Frames
<1>4. FrontTypes'
  BY <1>2, <1>3 DEF FrontInv, FrontTypes
<1>5. ChunkKnown'
  BY <1>2, <1>3 DEF FrontInv, ChunkKnown, OnGrid
<1>6. CursorFits' = CursorFits
  BY <1>2 DEF CursorFits, OnGrid
<1>7. RunKnown'
  BY <1>2, <1>3, <1>6 DEF FrontInv, RunKnown
<1> QED
  BY <1>2, <1>4, <1>5, <1>7 DEF FrontInv, MostSymbols

(* A chunk that fails leaves the cursor a chunk and more behind.            *)
LEMMA FailKeeps == ASSUME FrontInv, ScanFails PROVE FrontInv'
<1>1. /\ stage = "scan" /\ stage' = "read"
      /\ UNCHANGED <<here, kept, carrier, track, holdCount, given, skipped, seam>>
      /\ frame' = NoFrame
  BY DEF ScanFails, Stage
<1>2. FrontTypes'
  BY <1>1, NoFrameType DEF FrontInv, FrontTypes
<1>3. ChunkKnown'
  BY <1>1 DEF ChunkKnown
<1>4. RunKnown'
  <2> SUFFICES ASSUME given # None PROVE track.back >= MinLen
    BY <1>1 DEF RunKnown
  <2>1. track.back >= frame.n /\ frame.n >= MinLen /\ frame.n \in Nat
    BY <1>1, FrontConstants DEF FrontInv, RunKnown, ChunkKnown
  <2> QED BY <2>1, FrontConstants DEF FrontInv, FrontTypes
<1> QED
  BY <1>1, <1>2, <1>3, <1>4 DEF FrontInv, MostSymbols

(* The verdict: a chunk that begins within the continuity error of where    *)
(* the cursor says begins, but for jitter, exactly there.                   *)
LEMMA ContinuesExactly ==
  ASSUME FrontInv, stage = "judge", given # None, Used # {}, Continues
  PROVE  given = frame.len - (First - frame.jitter) + skipped * OfdmLen
<1> USE FrontConstants
<1> DEFINE len == frame.len
           jitter == frame.jitter
           back == track.back
           delta == First - (len - back)
<1>1. /\ len \in Nat /\ jitter \in Nat /\ back \in Nat /\ here \in Nat
      /\ given \in Nat /\ skipped \in Nat /\ frame.start \in Nat
      /\ frame.len = frame.prefix + frame.n
  BY DEF FrontInv, FrontTypes, ChunkKnown, Frames, None
<1>2. /\ Skipped \in Nat /\ First \in Nat /\ First = frame.start + Skipped * OfdmLen
  BY <1>1, UsedShape DEF FrontInv, FrontTypes
<1>3. jitter \in Jitter
  BY DEF FrontInv, ChunkKnown
<1>4. ~frame.gap /\ Abs(delta) <= MaxError
  BY DEF Continues, ContinuesAt
<1> HIDE DEF len, jitter, back
<1>5. -MaxError <= delta /\ delta <= MaxError
  BY <1>4, <1>1, <1>2 DEF Abs
<1>6. MaxError < OfdmLen
  BY <1>3
<1>7. ~(back >= len + TailLen)
  BY <1>1, <1>2, <1>5, <1>6 DEF TailLen
<1>8. PICK j \in Jitter : /\ given = back + j + skipped * OfdmLen
                          /\ OnGrid(here - back - j)
  <2>1. CursorFits
    BY <1>4, <1>7 DEF FrontInv, RunKnown, back, len
  <2> QED BY <2>1 DEF CursorFits, back
<1>9. OnGrid(here - len + First - jitter)
  <2>1. OnGrid(here - len + frame.start - jitter)
    BY DEF FrontInv, ChunkKnown, len, jitter
  <2> DEFINE x == here - len + frame.start - jitter
  <2>2. OnGrid(x + Skipped * OfdmLen)
    <3>1. x \in Int /\ OnGrid(x)
      BY <2>1, <1>1
    <3> HIDE DEF x
    <3> QED BY <3>1, <1>2, GridMoves
  <2>3. Skipped * OfdmLen \in Int
    BY <1>2
  <2>4. (here - len + frame.start - jitter) + Skipped * OfdmLen
          = here - len + First - jitter
    BY <2>3, <1>1, <1>2
  <2> QED BY <2>2, <2>4
<1>10. OnGrid(delta - jitter + j)
  <2> DEFINE x == here - len + First - jitter
             y == here - back - j
  <2>1. x \in Int /\ y \in Int /\ x - y = delta - jitter + j
    BY <1>1, <1>2, <1>8
  <2>2. OnGrid(x - y)
    BY <2>1, <1>8, <1>9, GridAdds
  <2> QED BY <2>1, <2>2
<1>11. delta - jitter + j = 0
  <2>1. j \in Nat /\ MaxError + j < OfdmLen /\ MaxError + jitter < OfdmLen
    BY <1>3, <1>8
  <2>2. /\ delta - jitter + j \in Int
        /\ -OfdmLen < delta - jitter + j /\ delta - jitter + j < OfdmLen
    BY <2>1, <1>1, <1>2, <1>5
  <2> QED BY <2>2, <1>10, GridApart
<1>12. given = len - (First - jitter) + skipped * OfdmLen
  <2>1. j \in Nat
    BY <1>8
  <2>2. back + j = len - (First - jitter)
    BY <2>1, <1>1, <1>2, <1>11
  <2> QED BY <2>2, <1>8
<1> QED BY <1>12 DEF len, jitter

(* The verdict closes a run or goes on with it at the symbol that is due.   *)
LEMMA JudgeKeeps == ASSUME FrontInv, Judge PROVE FrontInv'
<1> USE FrontConstants
<1>1. /\ stage = "judge" /\ stage' = "pilots" /\ Used # {}
      /\ UNCHANGED <<here, kept, carrier, frame, seam>>
      /\ track' = [valid |-> TRUE, bin |-> frame.bin, back |-> frame.len - NextStart]
      /\ IF Continues THEN UNCHANGED <<holdCount, given, skipped>>
         ELSE holdCount' = 0 /\ given' = None /\ skipped' = 0
  BY DEF Judge, Stage
<1>2. /\ frame \in Frames /\ frame.len = frame.prefix + frame.n
      /\ frame.len \in Nat /\ frame.bin \in Bins
  BY <1>1 DEF FrontInv, FrontTypes, ChunkKnown, Frames
<1>3. NextStart \in Nat /\ NextStart < frame.len
  BY <1>1, <1>2, UsedShape
<1>4. FrontTypes'
  <2>1. frame.len - NextStart \in Nat
    BY <1>2, <1>3
  <2> QED BY <1>1, <1>2, <2>1 DEF FrontInv, FrontTypes
<1>5. Used' = Used /\ First' = First /\ NextStart' = NextStart
  BY <1>1, ChunkSame
<1>6. ChunkKnown'
  BY <1>1, <1>5 DEF FrontInv, ChunkKnown, OnGrid
<1>7. RunKnown'
  <2> SUFFICES ASSUME given' # None
               PROVE  given' = frame.len - (First - frame.jitter) + skipped' * OfdmLen
    BY <1>1, <1>5 DEF RunKnown
  <2>1. Continues /\ given # None /\ UNCHANGED <<given, skipped>>
    BY <1>1
  <2> QED BY <2>1, <1>1, ContinuesExactly
<1>8. skipped' <= holdCount' * MostSymbols
  BY <1>1, MostIsNat DEF FrontInv
<1> QED
  BY <1>1, <1>4, <1>6, <1>7, <1>8 DEF FrontInv, MostSymbols

(* The chunk that is in hand when its fate is decided.                      *)
LEMMA Decided ==
  ASSUME FrontInv, stage = "pilots"
  PROVE  LET next == frame.len - NextStart IN
         /\ frame.jitter \in Nat /\ First \in Nat /\ frame.len \in Nat
         /\ next \in Nat /\ track.back = next
         /\ Cardinality(Used) \in Nat
         /\ next = frame.len - First - Cardinality(Used) * OfdmLen
         /\ next <= OfdmLen /\ next >= 1
         /\ OnGrid(here - next - frame.jitter)
<1> USE FrontConstants
<1>1. /\ frame \in Frames /\ frame.len = frame.prefix + frame.n
      /\ frame.len \in Nat /\ frame.jitter \in Nat /\ frame.start \in Nat
      /\ Used # {} /\ track.back = frame.len - NextStart /\ here \in Nat
      /\ OnGrid(here - frame.len + frame.start - frame.jitter)
  BY DEF FrontInv, FrontTypes, ChunkKnown, Frames
<1>2. /\ Skipped \in Nat /\ Cardinality(Used) \in Nat
      /\ First \in Nat /\ NextStart \in Nat /\ NextStart < frame.len
      /\ NextStart + OfdmLen >= frame.len
      /\ First = frame.start + Skipped * OfdmLen
      /\ NextStart = First + Cardinality(Used) * OfdmLen
  BY <1>1, UsedShape
<1> DEFINE k == Skipped + Cardinality(Used)
           x == here - frame.len + frame.start - frame.jitter
<1>3. x \in Int /\ k \in Int /\ OnGrid(x + k * OfdmLen)
  <2>1. x \in Int /\ k \in Int /\ OnGrid(x)
    BY <1>1, <1>2
  <2> HIDE DEF x, k
  <2> QED BY <2>1, GridMoves
<1>4. /\ k * OfdmLen = Skipped * OfdmLen + Cardinality(Used) * OfdmLen
      /\ Skipped * OfdmLen \in Int /\ Cardinality(Used) * OfdmLen \in Int
  BY <1>2
<1>5. x + k * OfdmLen = here - (frame.len - NextStart) - frame.jitter
  BY <1>1, <1>2, <1>4
<1>6. frame.len - NextStart \in 1 .. OfdmLen
  BY <1>1, <1>2
<1>7. frame.len - NextStart = frame.len - First - Cardinality(Used) * OfdmLen
  BY <1>1, <1>2, <1>4
<1> QED BY <1>1, <1>2, <1>3, <1>5, <1>6, <1>7

(* A chunk that is held adds its symbols to those skipped.                  *)
LEMMA HoldKeeps == ASSUME FrontInv, HoldBack PROVE FrontInv'
<1> USE FrontConstants
<1> DEFINE c == Cardinality(Used)
<1>1. /\ stage = "pilots" /\ stage' = "read" /\ holdCount < HoldChunks
      /\ holdCount' = holdCount + 1
      /\ skipped' = IF given = None THEN 0 ELSE skipped + c
      /\ frame' = NoFrame
      /\ UNCHANGED <<here, kept, carrier, track, given, seam>>
  BY DEF HoldBack, MayHoldBack, Stage
<1>2. /\ frame.jitter \in Nat /\ First \in Nat /\ frame.len \in Nat
      /\ track.back \in Nat /\ c \in Nat
      /\ track.back = frame.len - First - c * OfdmLen
      /\ OnGrid(here - track.back - frame.jitter)
  BY <1>1, Decided
<1>3. skipped \in Nat /\ holdCount \in Nat /\ holdCount <= HoldChunks /\ frame.jitter \in Jitter
  BY <1>1 DEF FrontInv, FrontTypes, ChunkKnown
<1>4. FrontTypes'
  BY <1>1, <1>2, <1>3, NoFrameType DEF FrontInv, FrontTypes
<1>5. ChunkKnown'
  BY <1>1 DEF ChunkKnown
<1>6. RunKnown'
  <2> SUFFICES ASSUME given # None PROVE CursorFits'
    BY <1>1 DEF RunKnown
  <2>1. given = frame.len - (First - frame.jitter) + skipped * OfdmLen
    BY <1>1 DEF FrontInv, RunKnown
  <2>2. skipped' * OfdmLen = skipped * OfdmLen + c * OfdmLen
    BY <1>1, <1>2, <1>3
  <2>3. skipped * OfdmLen \in Int /\ c * OfdmLen \in Int
    BY <1>2, <1>3
  <2>4. given = track.back + frame.jitter + (skipped * OfdmLen + c * OfdmLen)
    BY <2>1, <2>3, <1>2
  <2>5. given' = track'.back + frame.jitter + skipped' * OfdmLen
    BY <2>2, <2>4, <1>1
  <2>6. OnGrid(here' - track'.back - frame.jitter)
    BY <1>1, <1>2
  <2> QED BY <2>5, <2>6, <1>3 DEF CursorFits, OnGrid
<1>7. skipped' <= holdCount' * MostSymbols
  <2>1. c <= MostSymbols /\ MostSymbols \in Nat
    BY <1>1, MostOf DEF FrontInv, FrontTypes, ChunkKnown
  <2>2. (holdCount + 1) * MostSymbols = holdCount * MostSymbols + MostSymbols
        /\ holdCount * MostSymbols \in Nat
    BY <2>1, <1>3
  <2>3. skipped <= holdCount * MostSymbols
    BY DEF FrontInv
  <2>4. skipped' <= holdCount * MostSymbols + MostSymbols
    BY <1>1, <1>2, <1>3, <2>1, <2>2, <2>3
  <2> QED BY <2>2, <2>4, <1>1
<1> QED
  BY <1>1, <1>4, <1>5, <1>6, <1>7 DEF FrontInv, MostSymbols

(* A chunk that is dropped ends the run.                                    *)
LEMMA DropKeeps == ASSUME FrontInv, DropChunk PROVE FrontInv'
<1>1. /\ stage' = "read"
      /\ frame' = NoFrame /\ given' = None /\ skipped' = 0
      /\ UNCHANGED <<here, kept, carrier, holdCount, seam>>
  BY DEF DropChunk, Stage
<1>2. track' \in [valid : BOOLEAN, bin : Bins, back : Nat]
  <2>1. (track.valid /\ frame.lock # "poor") \in BOOLEAN
    OBVIOUS
  <2>2. track \in [valid : BOOLEAN, bin : Bins, back : Nat]
    BY DEF FrontInv, FrontTypes
  <2>3. PICK v \in BOOLEAN : track' = [track EXCEPT !.valid = v]
    BY <2>1 DEF DropChunk
  <2> QED BY <2>2, <2>3
<1>3. FrontTypes'
  BY <1>1, <1>2, NoFrameType DEF FrontInv, FrontTypes
<1>4. ChunkKnown' /\ RunKnown'
  BY <1>1 DEF ChunkKnown, RunKnown
<1>5. skipped' <= holdCount' * MostSymbols
  <2>1. holdCount * MostSymbols \in Nat
    BY MostIsNat DEF FrontInv, FrontTypes
  <2> QED BY <2>1, <1>1
<1> QED
  BY <1>1, <1>3, <1>4, <1>5 DEF FrontInv, MostSymbols

(* What is handed over begins where the last chunk ended.                   *)
LEMMA HandOverKeeps == ASSUME FrontInv, HandOver PROVE FrontInv'
<1> USE FrontConstants
<1> DEFINE next == frame.len - NextStart
<1>1. /\ stage = "pilots" /\ stage' = "read"
      /\ holdCount' = 0 /\ skipped' = 0
      /\ seam' = IF given = None THEN 0
                  ELSE (First - frame.jitter - (frame.len - given)) - skipped * OfdmLen
      /\ given' = frame.len - (NextStart - frame.jitter)
      /\ frame' = NoFrame
      /\ UNCHANGED <<here, kept, carrier, track>>
  BY DEF HandOver, Stage
<1>2. /\ frame.jitter \in Nat /\ First \in Nat /\ frame.len \in Nat
      /\ next \in Nat /\ track.back = next
      /\ OnGrid(here - next - frame.jitter)
  BY <1>1, Decided
<1>3. NextStart \in Nat
  BY <1>1, UsedShape DEF FrontInv, FrontTypes, ChunkKnown
<1>4. given' = track.back + frame.jitter
  BY <1>1, <1>2, <1>3
<1>5. FrontTypes'
  BY <1>1, <1>2, <1>4, NoFrameType DEF FrontInv, FrontTypes
<1>6. ChunkKnown'
  BY <1>1 DEF ChunkKnown
<1>7. CursorFits'
  <2>1. frame.jitter \in Jitter
    BY <1>1 DEF FrontInv, ChunkKnown
  <2>2. given' = track'.back + frame.jitter + skipped' * OfdmLen
    BY <1>1, <1>2, <1>4
  <2>3. OnGrid(here' - track'.back - frame.jitter)
    BY <1>1, <1>2
  <2> QED BY <2>1, <2>2, <2>3 DEF CursorFits, OnGrid
<1>8. RunKnown'
  BY <1>1, <1>7 DEF RunKnown
<1>9. seam' = 0
  <2>1. CASE given = None
    BY <2>1, <1>1
  <2>2. CASE given # None
    <3>1. given = frame.len - (First - frame.jitter) + skipped * OfdmLen
      BY <2>2, <1>1 DEF FrontInv, RunKnown
    <3>2. skipped * OfdmLen \in Int
      BY DEF FrontInv, FrontTypes
    <3> QED BY <2>2, <3>1, <3>2, <1>1, <1>2
  <2> QED BY <2>1, <2>2
<1>10. skipped' <= holdCount' * MostSymbols
  BY <1>1, MostIsNat
<1> QED
  BY <1>5, <1>6, <1>8, <1>9, <1>10 DEF FrontInv, MostSymbols

(* A step that leaves the component alone.                                  *)
LEMMA StutterFront == ASSUME FrontInv, UNCHANGED ofdmVars PROVE FrontInv'
<1>1. FrontTypes'
  BY DEF ofdmVars, FrontInv, FrontTypes
<1>2. Used' = Used /\ First' = First /\ NextStart' = NextStart
  BY ChunkSame DEF ofdmVars
<1>3. ChunkKnown'
  BY <1>2 DEF ofdmVars, FrontInv, ChunkKnown, OnGrid
<1>4. CursorFits' = CursorFits
  BY DEF ofdmVars, CursorFits, OnGrid
<1>5. RunKnown'
  BY <1>2, <1>4 DEF ofdmVars, FrontInv, RunKnown
<1> QED
  BY <1>1, <1>3, <1>5 DEF ofdmVars, FrontInv, MostSymbols

(* All steps of the frontend together.                                      *)
LEMMA FrontStep == FrontInv /\ [OfdmNext]_ofdmVars => FrontInv'
<1> SUFFICES ASSUME FrontInv, [OfdmNext]_ofdmVars PROVE FrontInv'
  OBVIOUS
<1>1. ASSUME NEW n \in Sizes, NEW gap \in Gaps, NEW d \in Drifts, NEW drift \in {d, -d},
             ReadFrame(n, gap, drift)
      PROVE  FrontInv'
  BY <1>1, ReadKeeps
<1> QED
  BY <1>1, TrackKeeps, AcquireKeeps, ScanKeeps, FailKeeps, JudgeKeeps,
     HoldKeeps, DropKeeps, HandOverKeeps, StutterFront DEF OfdmNext

(* The invariant holds in every reachable state.                            *)
LEMMA FrontInvariant == OfdmSpec => []FrontInv
BY InitFront, FrontStep, PTL DEF OfdmSpec

-----------------------------------------------------------------------------
(* The run of undisturbed chunks.  After the first the cursor, if valid,    *)
(* stands at the carrier and on the grid, at most a symbol back; after the  *)
(* second it is valid.                                                      *)
SteadyCursor ==
  /\ stage = "read" /\ steady >= 1 /\ track.valid =>
       track.bin = carrier /\ track.back \in 1 .. OfdmLen /\ OnGrid(here - track.back)
  /\ stage \in {"sync", "scan", "judge"} /\ steady >= 1 =>
       /\ frame.prefix = TailLen
       /\ track.valid /\ ~frame.moved => track.bin = carrier
       /\ track.valid /\ ~frame.gap =>
            /\ track.back - frame.n \in 1 .. OfdmLen
            /\ OnGrid(here - track.back)
            /\ ~frame.edge => track.back - frame.n # OfdmLen
  /\ stage \in {"read", "sync", "scan", "judge"} /\ steady >= 2 => track.valid

(* The third is searched from its first symbol on, and the second and third *)
(* are found at the carrier.                                                *)
SteadyChunk ==
  /\ stage \in {"scan", "judge"} /\ steady >= 2 /\ ~frame.gap /\ frame.jitter = 0 =>
       frame.start < OfdmLen
  /\ stage = "judge" /\ steady >= 1 /\ ~frame.moved => frame.bin = carrier
  /\ stage = "pilots" =>
       /\ track.valid /\ track.bin = frame.bin
       /\ steady >= 1 => Undisturbed
       /\ steady >= 2 => frame.bin = carrier
       /\ steady = 3 /\ ~frame.edge => follows

SteadyInv ==
  /\ steady \in 0 .. 3
  /\ stage # "read" \/ steady >= 1 => kept = TailLen
  /\ SteadyCursor
  /\ SteadyChunk

(* The invariant holds at the start.                                        *)
LEMMA SteadyInit == OfdmInit => SteadyInv
BY DEF OfdmInit, SteadyInv, SteadyCursor, SteadyChunk

(* A read leaves the cursor of an undisturbed input where the next symbol   *)
(* will be.                                                                 *)
LEMMA SteadyRead ==
  ASSUME FrontInv, SteadyInv, NEW n \in Sizes, NEW gap \in Gaps, NEW drift,
         ReadFrame(n, gap, drift)
  PROVE  SteadyInv'
<1> USE FrontConstants
<1>1. n \in Nat /\ gap \in Nat /\ n >= MinLen /\ kept \in Nat /\ kept <= TailLen
  BY DEF FrontInv, FrontTypes
<1>2. /\ stage = "read" /\ stage' = "sync"
      /\ here' = (here + gap + n) % OfdmLen
      /\ carrier' = carrier + drift
      /\ frame'.n = n /\ frame'.prefix = kept
      /\ track'.back = track.back + n
      /\ track'.valid = track.valid /\ track'.bin = track.bin
      /\ UNCHANGED steady
  BY DEF ReadFrame, Stage, NoFrame, FrontInv, FrontTypes
<1>3. /\ frame'.gap <=> gap # 0
      /\ frame'.moved <=> drift # 0
      /\ frame'.edge <=> OnGrid(here + gap)
  BY DEF ReadFrame, NoFrame, OnGrid
<1>4. kept' = TailLen
  <2>1. kept' = Min({kept + n, TailLen})
    BY DEF ReadFrame
  <2>2. kept + n \in Nat /\ TailLen \in Nat /\ kept + n >= TailLen
    BY <1>1 DEF TailLen, MinLen
  <2>3. \E x \in {kept + n, TailLen} : \A y \in {kept + n, TailLen} : x <= y
    BY <2>2
  <2>4. Min({kept + n, TailLen}) \in {kept + n, TailLen}
        /\ Min({kept + n, TailLen}) <= TailLen
    BY <2>3 DEF Min
  <2> QED BY <2>1, <2>2, <2>4
<1>5. SteadyCursor'
  <2> SUFFICES ASSUME steady >= 1
               PROVE  /\ frame'.prefix = TailLen
                      /\ track.valid /\ ~frame'.moved => track'.bin = carrier'
                      /\ track.valid /\ ~frame'.gap =>
                           /\ track'.back - frame'.n \in 1 .. OfdmLen
                           /\ OnGrid(here' - track'.back)
                           /\ ~frame'.edge => track'.back - frame'.n # OfdmLen
                      /\ steady >= 2 => track.valid
    BY <1>2 DEF SteadyInv, SteadyCursor, OnGrid
  <2>1. frame'.prefix = TailLen
    BY <1>2 DEF SteadyInv
  <2>2. steady >= 2 => track.valid
    BY <1>2 DEF SteadyInv, SteadyCursor
  <2>3. track.valid /\ ~frame'.moved => track'.bin = carrier'
    <3>1. carrier \in Int
      BY DEF FrontInv, FrontTypes, Bins
    <3>2. drift = 0 => carrier' = carrier
      BY <3>1, <1>2
    <3> QED BY <3>2, <1>2, <1>3 DEF SteadyInv, SteadyCursor
  <2>4. ASSUME track.valid, ~frame'.gap
        PROVE  /\ track'.back - frame'.n \in 1 .. OfdmLen
               /\ OnGrid(here' - track'.back)
               /\ ~frame'.edge => track'.back - frame'.n # OfdmLen
    <3>1. gap = 0 /\ here \in Nat /\ track.back \in Nat
      BY <2>4, <1>3 DEF FrontInv, FrontTypes
    <3>2. track.back \in 1 .. OfdmLen /\ OnGrid(here - track.back)
      BY <2>4, <1>2 DEF SteadyInv, SteadyCursor
    <3>3. OnGrid(here' - track'.back)
      <4> DEFINE x == here + gap + n
                 y == -(track.back + n)
      <4>1. x \in Int /\ y \in Int /\ x + y = here - track.back
        BY <3>1, <1>1
      <4>2. OnGrid((x % OfdmLen) + y)
        BY <4>1, <3>2, GridOfRemainder
      <4>3. (x % OfdmLen) + y = here' - track'.back
        BY <3>1, <1>1, <1>2, Divide
      <4> QED BY <4>2, <4>3
    <3>4. ASSUME track.back = OfdmLen PROVE frame'.edge
      <4>1. OnGrid((here - track.back) + 1 * OfdmLen)
        <5>1. here - track.back \in Int /\ 1 \in Int
          BY <3>1
        <5> QED BY <5>1, <3>2, GridMoves
      <4>2. (here - track.back) + 1 * OfdmLen = here + gap
        BY <3>1, <3>4
      <4> QED BY <4>1, <4>2, <1>3
    <3>5. track'.back - frame'.n = track.back
      BY <3>1, <1>1, <1>2
    <3> QED BY <3>2, <3>3, <3>4, <3>5
  <2> QED BY <2>1, <2>2, <2>3, <2>4
<1> QED
  BY <1>2, <1>4, <1>5 DEF SteadyInv, SteadyChunk

(* A start that is found keeps the invariant when, after two undisturbed    *)
(* chunks, it is that of the first symbol.                                  *)
LEMMA SteadySync ==
  ASSUME FrontInv, SteadyInv, Stage("sync", "scan"), NEW start \in Nat, NEW jitter \in Nat,
         steady >= 2 /\ ~frame.gap /\ jitter = 0 => start < OfdmLen,
         Synced(start, jitter),
         UNCHANGED <<here, kept, carrier, track, steady>>
  PROVE  SteadyInv'
<1>1. /\ stage = "sync" /\ stage' = "scan"
      /\ frame'.start = start /\ frame'.jitter = jitter
      /\ frame'.n = frame.n /\ frame'.prefix = frame.prefix
      /\ frame'.gap = frame.gap /\ frame'.moved = frame.moved /\ frame'.edge = frame.edge
  BY DEF Stage, Synced, FrontInv, FrontTypes, Frames
<1>2. SteadyCursor'
  BY <1>1 DEF SteadyInv, SteadyCursor, OnGrid
<1>3. SteadyChunk'
  BY <1>1 DEF SteadyChunk
<1> QED BY <1>1, <1>2, <1>3 DEF SteadyInv

(* The place the tracker looks at is the first symbol's.                    *)
LEMMA SteadyTrack == ASSUME FrontInv, SteadyInv, Track PROVE SteadyInv'
<1> USE FrontConstants
<1>1. PICK p \in Predicted, s \in Starts, j \in Jitter :
        s + j \in p - TrackRadius .. p + TrackRadius /\ Synced(s + j, j)
  BY DEF Track
<1>2. /\ s \in Nat /\ OnGrid(here - frame.len + s) /\ j \in Nat
      /\ here \in Nat /\ frame.len \in Nat /\ track.back \in Nat /\ frame.n \in Nat
      /\ stage = "sync" /\ frame.len = frame.prefix + frame.n
  BY <1>1, StartOnGrid DEF Track, Stage, FrontInv, FrontTypes, ChunkKnown, Frames
<1>3. ASSUME steady >= 2, ~frame.gap, j = 0 PROVE s + j < OfdmLen
  <2>1. /\ frame.prefix = TailLen /\ track.valid
        /\ track.back - frame.n \in 1 .. OfdmLen
        /\ OnGrid(here - track.back)
    BY <1>2, <1>3 DEF SteadyInv, SteadyCursor
  <2> DEFINE expected == frame.len - track.back
  <2>2. expected \in Int /\ expected >= OfdmLen /\ expected < 2 * OfdmLen
    BY <2>1, <1>2 DEF TailLen
  <2>3. frame.prefix >= OfdmLen
    BY <2>1 DEF TailLen
  <2>4. p = expected - OfdmLen
    BY <1>1, <2>2, <2>3 DEF Predicted
  <2>5. OnGrid(s - p)
    <3> DEFINE x == here - frame.len + s
               y == here - track.back
    <3>1. x \in Int /\ y \in Int /\ OnGrid(x) /\ OnGrid(y)
      BY <1>2, <2>1
    <3>2. x - y = s - expected
      BY <1>2
    <3> HIDE DEF x, y
    <3> DEFINE z == x - y
    <3>3. OnGrid(z) /\ z \in Int /\ 1 \in Int
      BY <3>1, GridAdds
    <3>4. z + 1 * OfdmLen = s - p
      BY <3>2, <2>2, <2>4, <1>2
    <3> HIDE DEF z
    <3>5. OnGrid(z + 1 * OfdmLen)
      BY <3>3, GridMoves
    <3> QED BY <3>4, <3>5
  <2>6. s - p = 0
    <3>1. s - p \in Int /\ -OfdmLen < s - p /\ s - p < OfdmLen
      BY <1>1, <1>2, <1>3, <2>2, <2>4
    <3> QED BY <3>1, <2>5, GridApart
  <2> QED BY <2>2, <2>4, <2>6, <1>2, <1>3
<1>4. s + j \in Nat
  BY <1>2
<1> QED
  BY <1>1, <1>2, <1>3, <1>4, SteadySync DEF Track

(* A search finds a start in the first symbol.                              *)
LEMMA SteadyAcquire == ASSUME FrontInv, SteadyInv, Acquire PROVE SteadyInv'
<1>1. PICK s \in Starts, j \in Jitter : Synced((s + j) % OfdmLen, j)
  BY DEF Acquire
<1>2. s + j \in Int /\ j \in Nat
  BY StartOnGrid, FrontConstants DEF Acquire, Stage
<1>3. (s + j) % OfdmLen \in Nat /\ (s + j) % OfdmLen < OfdmLen
  BY <1>2, Divide, FrontConstants
<1> QED
  BY <1>1, <1>2, <1>3, SteadySync DEF Acquire

(* A carrier that stays is found in the bin it was in.                      *)
LEMMA SteadyScan == ASSUME FrontInv, SteadyInv, PilotScan PROVE SteadyInv'
<1> USE FrontConstants
<1> DEFINE looked == IF ~track.valid THEN Bins
                     ELSE IF afc THEN Near(track.bin) ELSE {track.bin}
<1>1. PICK bin \in Scanned(looked) : \E advised, lock :
        frame' = [frame EXCEPT !.bin = bin, !.advised = advised, !.lock = lock]
  BY DEF PilotScan
<1>2. /\ stage = "scan" /\ stage' = "judge"
      /\ UNCHANGED <<here, kept, carrier, track, steady>>
  BY DEF PilotScan, Stage
<1>3. /\ frame'.start = frame.start /\ frame'.jitter = frame.jitter
      /\ frame'.n = frame.n /\ frame'.prefix = frame.prefix
      /\ frame'.gap = frame.gap /\ frame'.moved = frame.moved /\ frame'.edge = frame.edge
      /\ frame'.bin = bin
  BY <1>1 DEF FrontInv, FrontTypes, Frames
<1>4. SteadyCursor'
  BY <1>2, <1>3 DEF SteadyInv, SteadyCursor, OnGrid
<1>5. ASSUME steady >= 1, ~frame.moved PROVE bin = carrier
  <2>1. carrier \in Bins
    BY DEF FrontInv, FrontTypes
  <2>2. carrier \in looked
    <3>1. CASE ~track.valid
      BY <3>1, <2>1
    <3>2. CASE track.valid
      <4>1. track.bin = carrier
        BY <3>2, <1>2, <1>5 DEF SteadyInv, SteadyCursor
      <4>2. carrier \in Near(carrier)
        BY <2>1 DEF Near, Bins
      <4> QED BY <3>2, <4>1, <4>2
    <3> QED BY <3>1, <3>2
  <2> QED BY <2>2 DEF Scanned
<1>6. SteadyChunk'
  BY <1>2, <1>3, <1>5 DEF SteadyInv, SteadyChunk
<1> QED BY <1>2, <1>4, <1>6 DEF SteadyInv

(* A scan that fails begins the count of undisturbed chunks anew.           *)
LEMMA SteadyFail == ASSUME SteadyInv, ScanFails PROVE SteadyInv'
BY DEF ScanFails, Stage, SteadyInv, SteadyCursor, SteadyChunk

(* The third undisturbed chunk begins exactly where the cursor says.        *)
LEMMA SteadyContinues ==
  ASSUME FrontInv, SteadyInv, stage = "judge", steady >= 2, Undisturbed, ~frame.edge
  PROVE  Continues
<1> USE FrontConstants
<1> DEFINE expected == frame.len - track.back
<1>1. /\ frame \in Frames /\ frame.len = frame.prefix + frame.n
      /\ frame.len \in Nat /\ frame.n \in Nat /\ frame.start \in Nat
      /\ track.back \in Nat /\ here \in Nat
      /\ OnGrid(here - frame.len + frame.start - frame.jitter)
  BY DEF FrontInv, FrontTypes, ChunkKnown, Frames
<1>2. ~frame.gap /\ ~frame.moved /\ frame.jitter = 0
  BY DEF Undisturbed
<1>3. /\ frame.prefix = TailLen /\ track.valid /\ track.bin = carrier
      /\ frame.bin = carrier /\ frame.start < OfdmLen
      /\ track.back - frame.n \in 1 .. OfdmLen - 1
      /\ OnGrid(here - track.back)
  BY <1>1, <1>2 DEF SteadyInv, SteadyCursor, SteadyChunk
<1>4. frame.lock # "poor"
  BY <1>3 DEF Undisturbed
<1>5. expected \in Int /\ expected > OfdmLen /\ expected < 2 * OfdmLen
  BY <1>1, <1>3 DEF TailLen
<1>6. /\ Skipped \in Nat /\ First \in Nat
      /\ First = frame.start + Skipped * OfdmLen
      /\ First + OfdmLen > frame.prefix
      /\ First = frame.start \/ First <= frame.prefix
  BY <1>1, UsedShape
<1>7. First > OfdmLen /\ First <= 2 * OfdmLen
  BY <1>3, <1>6 DEF TailLen
<1>8. OnGrid(First - expected)
  <2> DEFINE x == here - frame.len + frame.start
             y == here - track.back
             z == x - y
  <2>1. x \in Int /\ y \in Int /\ OnGrid(x) /\ OnGrid(y)
    <3>1. x = here - frame.len + frame.start - frame.jitter
      BY <1>1, <1>2
    <3> QED BY <3>1, <1>1, <1>3
  <2>2. z = frame.start - expected
    BY <1>1
  <2> HIDE DEF x, y
  <2>3. OnGrid(z) /\ z \in Int
    BY <2>1, GridAdds
  <2> HIDE DEF z
  <2>4. OnGrid(z + Skipped * OfdmLen)
    BY <2>3, <1>6, GridMoves
  <2>5. z + Skipped * OfdmLen = First - expected
    <3>1. Skipped * OfdmLen \in Int
      BY <1>6
    <3> QED BY <3>1, <2>2, <1>1, <1>5, <1>6
  <2> QED BY <2>4, <2>5
<1>9. First - expected = 0
  <2>1. /\ First - expected \in Int
        /\ -OfdmLen < First - expected /\ First - expected < OfdmLen
    BY <1>5, <1>6, <1>7
  <2> QED BY <2>1, <1>8, GridApart
<1>10. ContinuesAt(0)
  <2>1. Abs(0) = 0
    BY DEF Abs
  <2>2. PhaseDelta(0) = 0
    <3>1. 0 % OfdmLen = 0 /\ (-0) % OfdmLen = 0
      OBVIOUS
    <3>2. PhaseDelta(0) = Min({0})
      BY <3>1 DEF PhaseDelta
    <3> QED BY <3>2 DEF Min
  <2>3. 0 <= MaxError
    OBVIOUS
  <2>4. frame.bin = track.bin
    BY <1>3
  <2> QED BY <2>1, <2>2, <2>3, <2>4, <1>2, <1>4 DEF ContinuesAt
<1> QED BY <1>3, <1>9, <1>10 DEF Continues

(* The verdict on an undisturbed input: it continues.                       *)
LEMMA SteadyJudge == ASSUME FrontInv, SteadyInv, Judge PROVE SteadyInv'
<1>1. /\ stage = "judge" /\ stage' = "pilots"
      /\ UNCHANGED <<here, kept, carrier, frame>>
      /\ track' = [valid |-> TRUE, bin |-> frame.bin, back |-> frame.len - NextStart]
      /\ steady' = IF Undisturbed THEN Min({steady + 1, 3}) ELSE 0
      /\ follows' = Continues
  BY DEF Judge, Stage
<1>2. Undisturbed' = Undisturbed
  BY <1>1 DEF Undisturbed
<1>3. steady \in 0 .. 3 /\ kept = TailLen
  BY <1>1 DEF SteadyInv
<1>4. Min({steady + 1, 3}) = IF steady < 3 THEN steady + 1 ELSE 3
  <2>1. \E x \in {steady + 1, 3} : \A y \in {steady + 1, 3} : x <= y
    BY <1>3
  <2>2. Min({steady + 1, 3}) \in {steady + 1, 3}
        /\ \A y \in {steady + 1, 3} : Min({steady + 1, 3}) <= y
    BY <2>1 DEF Min
  <2> QED BY <2>2, <1>3
<1>5. /\ steady' \in 0 .. 3
      /\ steady' >= 1 => Undisturbed
      /\ steady' >= 2 => steady >= 1
      /\ steady' = 3 => steady >= 2
  BY <1>1, <1>3, <1>4
<1>6. ASSUME steady' >= 2 PROVE frame.bin = carrier
  <2>1. ~frame.moved /\ steady >= 1
    BY <1>5, <1>6 DEF Undisturbed
  <2> QED BY <2>1, <1>1 DEF SteadyInv, SteadyChunk
<1>7. ASSUME steady' = 3, ~frame.edge PROVE follows'
  <2>1. steady >= 2 /\ Undisturbed
    BY <1>5, <1>7
  <2> QED BY <2>1, <1>1, <1>7, SteadyContinues
<1>8. SteadyChunk'
  BY <1>1, <1>2, <1>5, <1>6, <1>7 DEF SteadyChunk
<1>9. SteadyCursor'
  BY <1>1 DEF SteadyCursor
<1> QED BY <1>1, <1>3, <1>5, <1>8, <1>9 DEF SteadyInv

(* A chunk that is held was not undisturbed.                                *)
LEMMA SteadyHold == ASSUME SteadyInv, HoldBack PROVE SteadyInv'
<1>1. /\ stage = "pilots" /\ stage' = "read" /\ UNCHANGED <<kept, steady>>
      /\ frame.lock # "decode" /\ frame.lock # "poor"
  BY DEF HoldBack, MayHoldBack, Stage
<1>2. steady = 0
  BY <1>1 DEF SteadyInv, SteadyChunk, Undisturbed
<1> QED BY <1>1, <1>2 DEF SteadyInv, SteadyCursor, SteadyChunk

(* Of the undisturbed chunks only the first can be dropped, and its cursor  *)
(* with it.                                                                 *)
LEMMA SteadyDrop == ASSUME FrontInv, SteadyInv, DropChunk PROVE SteadyInv'
<1>1. /\ stage = "pilots" /\ stage' = "read" /\ UNCHANGED <<kept, steady>>
      /\ frame.lock # "decode"
      /\ frame.lock = "poor" => ~track'.valid
  BY DEF DropChunk, Stage, FrontInv, FrontTypes
<1>2. steady >= 1 => frame.lock = "poor" /\ ~(steady >= 2)
  BY <1>1 DEF SteadyInv, SteadyChunk, Undisturbed
<1>3. kept = TailLen /\ steady \in Nat
  BY <1>1 DEF SteadyInv
<1>4. SteadyCursor'
  <2>1. steady' >= 2 => steady' >= 1
    BY <1>1, <1>3
  <2>2. steady' >= 1 => ~track'.valid /\ ~(steady' >= 2)
    BY <1>1, <1>2
  <2> QED BY <1>1, <2>1, <2>2 DEF SteadyCursor
<1>5. SteadyChunk'
  BY <1>1 DEF SteadyChunk
<1> QED BY <1>1, <1>3, <1>4, <1>5 DEF SteadyInv

(* The chunk after an undisturbed one finds its cursor.                     *)
LEMMA SteadyHandOver == ASSUME FrontInv, SteadyInv, HandOver PROVE SteadyInv'
<1>1. /\ stage = "pilots" /\ stage' = "read" /\ UNCHANGED <<here, kept, carrier, track, steady>>
      /\ frame.lock = "decode"
  BY DEF HandOver, Stage
<1>2. track.valid /\ kept = TailLen
  BY <1>1 DEF SteadyInv, SteadyChunk
<1>3. ASSUME steady >= 1
      PROVE  track.bin = carrier /\ track.back \in 1 .. OfdmLen /\ OnGrid(here - track.back)
  <2>1. frame.jitter = 0 /\ frame.bin = carrier /\ track.bin = frame.bin
    BY <1>1, <1>3 DEF SteadyInv, SteadyChunk, Undisturbed
  <2>2. /\ track.back \in Nat /\ track.back >= 1 /\ track.back <= OfdmLen
        /\ OnGrid(here - track.back - frame.jitter)
    BY <1>1, Decided
  <2>3. here - track.back - frame.jitter = here - track.back
    BY <2>1, <2>2 DEF FrontInv, FrontTypes
  <2> QED BY <2>1, <2>2, <2>3, FrontConstants
<1>4. SteadyCursor'
  <2> SUFFICES ASSUME steady >= 1
               PROVE  track'.bin = carrier' /\ track'.back \in 1 .. OfdmLen
                        /\ OnGrid(here' - track'.back)
    <3>1. track'.valid
      BY <1>1, <1>2
    <3> QED BY <3>1, <1>1 DEF SteadyCursor, OnGrid
  <2> QED BY <1>1, <1>3
<1>5. SteadyChunk'
  BY <1>1 DEF SteadyChunk
<1> QED BY <1>1, <1>2, <1>4, <1>5 DEF SteadyInv

(* A step that leaves the component alone.                                  *)
LEMMA SteadyStutter == ASSUME SteadyInv, UNCHANGED ofdmVars PROVE SteadyInv'
BY DEF ofdmVars, SteadyInv, SteadyCursor, SteadyChunk, Undisturbed, OnGrid

(* All steps of the frontend together.                                      *)
LEMMA SteadyStep == FrontInv /\ SteadyInv /\ [OfdmNext]_ofdmVars => SteadyInv'
<1> SUFFICES ASSUME FrontInv, SteadyInv, [OfdmNext]_ofdmVars PROVE SteadyInv'
  OBVIOUS
<1>1. ASSUME NEW n \in Sizes, NEW gap \in Gaps, NEW d \in Drifts, NEW drift \in {d, -d},
             ReadFrame(n, gap, drift)
      PROVE  SteadyInv'
  BY <1>1, SteadyRead
<1> QED
  BY <1>1, SteadyTrack, SteadyAcquire, SteadyScan, SteadyFail, SteadyJudge,
     SteadyHold, SteadyDrop, SteadyHandOver, SteadyStutter DEF OfdmNext

(* The invariant holds in every reachable state.                            *)
LEMMA SteadyInvariant == OfdmSpec => []SteadyInv
BY FrontInvariant, SteadyInit, SteadyStep, PTL DEF OfdmSpec

-----------------------------------------------------------------------------
(* The results.                                                             *)

(* Where a chunk continues a run, whether it was tracked or acquired and    *)
(* whatever was held back, dropped or failed before, no symbol comes twice  *)
(* and none is missing but those of the chunks that live_low_pilot_hold may *)
(* hold back.                                                               *)
THEOREM SymbolsStayInOrder == OfdmSpec => []SymbolsInOrder
<1>1. FrontInv => SymbolsInOrder
  <2> SUFFICES ASSUME FrontInv
               PROVE  skipped <= HoldChunks * ((Max(Sizes) + OfdmLen) \div OfdmLen)
    BY DEF FrontInv, SymbolsInOrder
  <2>1. /\ skipped \in Nat /\ holdCount \in Nat /\ HoldChunks \in Nat
        /\ holdCount <= HoldChunks /\ MostSymbols \in Nat
        /\ skipped <= holdCount * MostSymbols
    BY MostIsNat, FrontConstants DEF FrontInv, FrontTypes
  <2>2. PICK d \in Nat : HoldChunks = holdCount + d
    BY <2>1
  <2>3. HoldChunks * MostSymbols = holdCount * MostSymbols + d * MostSymbols
        /\ d * MostSymbols \in Nat /\ holdCount * MostSymbols \in Nat
    BY <2>1, <2>2
  <2>4. skipped <= HoldChunks * MostSymbols
    BY <2>1, <2>3
  <2> QED BY <2>4 DEF MostSymbols
<1> QED BY <1>1, FrontInvariant, PTL

(* Whatever came before, gaps, failures, a carrier that moved or a scan     *)
(* that found nothing: the third undisturbed chunk continues the second,    *)
(* unless a symbol ended with the last sample of it.                        *)
THEOREM FrontendLocksAgain == OfdmSpec => []LocksAgain
<1>1. SteadyInv => LocksAgain
  BY DEF SteadyInv, SteadyChunk, LocksAgain
<1> QED BY <1>1, SteadyInvariant, PTL

-----------------------------------------------------------------------------
(* The receiver's loop.                                                     *)

(* The guard interval the chunk is asked for; no symbol is longer than with *)
(* 1/8.                                                                     *)
AskedGuard == IF cfg.gi = GiAuto THEN 8 ELSE cfg.gi

Configs ==
  [stdin : BOOLEAN, rate : BOOLEAN, sr : BOOLEAN, probe : BOOLEAN, live : BOOLEAN,
   x4 : BOOLEAN, dvbt : BOOLEAN, gi : Guards \cup {GiAuto}, symbols : Nat, max : Nat,
   help : BOOLEAN, version : BOOLEAN, bench : BOOLEAN]

LoopTypes ==
  /\ phase \in {"args", "setup", "read", "resample", "prepare", "decode", "exit"}
  /\ cfg \in Configs
  /\ got \in Nat /\ missed \in Nat
  /\ place \in Int /\ place < RateIn
  /\ saved \in [n : Nat, symbol : Int]

(* Until the input ends every chunk is whole, and then long enough to be    *)
(* taken for a chunk.                                                       *)
ChunkWhole ==
  cfg.live /\ FiveSymbols /\ ~drained =>
    /\ phase = "resample" => got = Limit
    /\ phase = "prepare" => got >= 4 * SymbolOf(AskedGuard)

LoopInv ==
  /\ LoopTypes
  /\ cfg.live => cfg.probe
  /\ ChunkWhole
  /\ EndsOnlyWithInput

(* The samples come no slower than the filter needs them: of an FFT of 2048 *)
(* and a radius of 12, at 1/157 of the OFDM clock or more.                  *)
FastInput == (FilterRadius + 1) * RateOut <= Fft * RateIn

(* What is assumed of the constants of the receiver loop.                   *)
LEMMA LoopConstants ==
  /\ Fft \in Nat /\ Fft > 0 /\ Fft % 32 = 0
  /\ RateIn \in Nat /\ RateIn > 0 /\ RateOut \in Nat /\ RateOut > 0
  /\ DefaultSymbols \in Nat /\ DefaultSymbols >= 5
  /\ DefaultSamples \in Nat /\ DefaultSamples >= 5 * SymbolOf(8)
  /\ FilterRadius \in Nat
  /\ GuardArgs \subseteq Guards \cup {GiAuto}
  /\ SymbolArgs \subseteq Nat /\ SampleArgs \subseteq Nat /\ Overruns \subseteq Nat
BY ReceiverAssumption DEF ReceiverAssumption

(* No symbol is longer than with a guard interval of 1/8, none shorter than *)
(* with 1/32.                                                               *)
LEMMA SymbolSizes ==
  /\ \A g \in Guards : /\ SymbolOf(g) \in Nat /\ SymbolOf(g) >= Fft
                       /\ SymbolOf(g) <= SymbolOf(8)
                       /\ SymbolOf(g) >= SymbolOf(32)
  /\ 8 \in Guards /\ 32 \in Guards
BY LoopConstants DEF Guards, SymbolOf

(* Multiples of b of which k are not enough to reach a.                     *)
LEMMA CeilingIs ==
  ASSUME NEW a \in Int, NEW b \in Nat, b > 0
  PROVE  /\ Ceiling(a, b) \in Int
         /\ \A k \in Int : Ceiling(a, b) <= k <=> a <= k * b
<1> DEFINE q == (-a) \div b
<1>1. q \in Int /\ -a \in Int
  OBVIOUS
<1>2. ASSUME NEW k \in Int PROVE -q <= k <=> a <= k * b
  <2>1. (-k) * b <= -a <=> -k <= q
    BY <1>1, FitsIn
  <2>2. (-k) * b = -(k * b) /\ k * b \in Int
    OBVIOUS
  <2> HIDE DEF q
  <2> QED BY <2>1, <2>2, <1>1
<1> QED BY <1>1, <1>2 DEF Ceiling

(* So many multiples reach a, with less than one to spare.                  *)
LEMMA CeilingNext ==
  ASSUME NEW a \in Int, NEW b \in Nat, b > 0
  PROVE  Ceiling(a, b) * b < a + b /\ Ceiling(a, b) * b >= a
<1> DEFINE c == Ceiling(a, b)
<1>1. c \in Int /\ \A k \in Int : c <= k <=> a <= k * b
  BY CeilingIs
<1> HIDE DEF c
<1>2. c * b >= a
  BY <1>1
<1>3. ~(a <= (c - 1) * b)
  BY <1>1
<1>4. (c - 1) * b = c * b - b /\ c * b \in Int
  BY <1>1
<1> QED BY <1>2, <1>3, <1>4 DEF c

(* The next output sample lies before the second of the chunk's own places. *)
LEMMA PlaceBefore ==
  ASSUME NEW from \in Int, from < RateIn, NEW n \in Nat
  PROVE  PlaceAfter(from, n) \in Int /\ PlaceAfter(from, n) < RateIn
<1> USE LoopConstants
<1> DEFINE span == n * RateOut - from
           c == Ceiling(span, RateIn)
<1>1. n * RateOut \in Nat /\ span \in Int
  OBVIOUS
<1>2. c \in Int /\ c * RateIn < span + RateIn /\ c * RateIn = RateIn * c
      /\ c * RateIn \in Int
  <2> HIDE DEF span
  <2>1. /\ Ceiling(span, RateIn) \in Int
        /\ Ceiling(span, RateIn) * RateIn < span + RateIn
    BY <1>1, CeilingIs, CeilingNext
  <2> HIDE DEF c
  <2> QED BY <2>1 DEF c
<1> HIDE DEF c
<1>3. PlaceAfter(from, n) = IF n > 0 /\ span > 0 THEN RateIn * c - span
                            ELSE from - n * RateOut
  BY DEF PlaceAfter, c
<1>4. RateIn * c - span \in Int /\ RateIn * c - span < RateIn
  BY <1>1, <1>2
<1>5. from - n * RateOut \in Int /\ from - n * RateOut < RateIn
  BY <1>1
<1> QED BY <1>3, <1>4, <1>5

(* After a chunk the resampler's position is less than a sample into the    *)
(* next one.                                                                *)
LEMMA PlaceLeft ==
  ASSUME NEW from \in Int, from < RateIn, NEW n \in Nat
  PROVE  /\ Outputs(from, n) \in Nat
         /\ from + Outputs(from, n) * RateIn - n * RateOut \in Int
         /\ from + Outputs(from, n) * RateIn - n * RateOut < RateIn
<1> USE LoopConstants
<1> DEFINE room == (n - FilterRadius) * RateOut - from
           c == Ceiling(room, RateIn)
<1>1. /\ n * RateOut \in Nat /\ FilterRadius * RateOut \in Nat
      /\ room = n * RateOut - FilterRadius * RateOut - from
      /\ room \in Int
  OBVIOUS
<1>2. /\ c \in Int /\ c * RateIn < room + RateIn
      /\ c * RateIn \in Int
      /\ c <= 0 <=> room <= 0
  <2> HIDE DEF room
  <2>1. /\ Ceiling(room, RateIn) \in Int
        /\ Ceiling(room, RateIn) * RateIn < room + RateIn
        /\ \A k \in Int : Ceiling(room, RateIn) <= k <=> room <= k * RateIn
    BY <1>1, CeilingIs, CeilingNext
  <2> HIDE DEF c
  <2>2. c \in Int /\ c * RateIn < room + RateIn /\ c * RateIn \in Int
    BY <2>1 DEF c
  <2>3. c <= 0 <=> room <= 0 * RateIn
    BY <2>1 DEF c
  <2>4. 0 * RateIn = 0
    OBVIOUS
  <2> QED BY <2>2, <2>3, <2>4
<1> HIDE DEF c
<1>3. Outputs(from, n) = IF room > 0 THEN c ELSE 0
  BY DEF Outputs, c
<1> HIDE DEF room
<1>4. CASE room > 0
  <2>1. ~(c <= 0)
    BY <1>1, <1>2, <1>4
  <2> QED BY <2>1, <1>1, <1>2, <1>3, <1>4
<1>5. CASE ~(room > 0)
  BY <1>1, <1>3, <1>5
<1> QED BY <1>4, <1>5

(* Five symbols asked for are four of the longest kind got.                 *)
LEMMA LimitEnough ==
  ASSUME cfg \in Configs, cfg.live, FiveSymbols, FastInput
  PROVE  /\ Limit \in Nat /\ Limit > 0
         /\ cfg.dvbt => Limit * RateOut >= 5 * (SymbolOf(AskedGuard) * RateIn) - RateOut
         /\ ~cfg.dvbt => Limit >= 5 * SymbolOf(AskedGuard)
<1> USE LoopConstants
<1> DEFINE s == SymbolOf(AskedGuard)
           r == s * RateIn
           symbols == IF cfg.symbols = 0 THEN DefaultSymbols ELSE cfg.symbols
<1>1. /\ AskedGuard \in Guards
      /\ cfg.max \in Nat /\ cfg.symbols \in Nat
      /\ symbols \in Nat /\ symbols >= 5
  BY DEF AskedGuard, Guards, Configs, FiveSymbols
<1>2. s \in Nat /\ s >= Fft /\ s <= SymbolOf(8) /\ SymbolOf(8) \in Nat
  BY <1>1, SymbolSizes
<1>3. r \in Nat /\ r >= Fft * RateIn /\ r <= SymbolOf(8) * RateIn
      /\ SymbolOf(8) * RateIn \in Nat
  <2>1. PICK d \in Nat : s = Fft + d
    BY <1>2
  <2>2. PICK e \in Nat : SymbolOf(8) = s + e
    <3>1. SymbolOf(8) - s \in Nat /\ SymbolOf(8) = s + (SymbolOf(8) - s)
      BY <1>2
    <3> HIDE DEF s
    <3> QED BY <3>1
  <2>3. r = Fft * RateIn + d * RateIn /\ SymbolOf(8) * RateIn = s * RateIn + e * RateIn
    BY <2>1, <2>2, <1>2
  <2>4. d * RateIn \in Nat /\ e * RateIn \in Nat /\ Fft * RateIn \in Nat /\ s * RateIn \in Nat
    BY <2>1, <2>2, <1>2
  <2> QED BY <2>3, <2>4
<1>4. r >= RateOut
  <2>1. (FilterRadius + 1) * RateOut = FilterRadius * RateOut + RateOut
        /\ FilterRadius * RateOut \in Nat /\ Fft * RateIn \in Nat
    OBVIOUS
  <2> QED BY <2>1, <1>3 DEF FastInput
<1>5. Target \in Nat /\ Target * RateOut >= 5 * r - RateOut
  <2> DEFINE a == 2 * symbols * s * RateIn + RateOut
             b == 2 * RateOut
             m == symbols * r
  <2>1. Target = a \div b
    BY DEF Target, AskedGuard
  <2>2. a = 2 * m + RateOut /\ m \in Nat
    BY <1>1, <1>2
  <2>3. m >= 5 * r
    <3>1. PICK d \in Nat : symbols = 5 + d
      <4> HIDE DEF symbols
      <4>1. symbols - 5 \in Nat /\ symbols = 5 + (symbols - 5)
        BY <1>1
      <4> QED BY <4>1
    <3>2. m = 5 * r + d * r /\ d * r \in Nat
      BY <3>1, <1>3
    <3> QED BY <3>2, <1>3
  <2>4. a \in Nat /\ b \in Nat /\ b > 0
    BY <2>2
  <2> HIDE DEF a, b, m, r
  <2>5. a \div b \in Int /\ a % b \in 0 .. b - 1 /\ a = b * (a \div b) + (a % b)
    BY <2>4, Divide
  <2>6. PICK t \in Int : t = Target
    BY <2>1, <2>5
  <2>7. b * t > a - b /\ b * t \in Int
    BY <2>1, <2>4, <2>5, <2>6
  <2>8. b * t = 2 * (t * RateOut) /\ t * RateOut \in Int
    BY <2>6 DEF b
  <2>9. t * RateOut >= 5 * r - RateOut
    BY <2>2, <2>3, <2>7, <2>8, <1>3 DEF b
  <2>10. t >= 0
    <3>1. t * RateOut >= 0
      BY <2>9, <1>3, <1>4
    <3>2. CASE t < 0
      <4>1. PICK d \in Nat : t = -1 - d
        BY <3>2
      <4>2. t * RateOut = -RateOut - d * RateOut /\ d * RateOut \in Nat
        BY <4>1
      <4> QED BY <4>2, <3>1
    <3> QED BY <3>2
  <2> QED BY <2>6, <2>9, <2>10
<1>6. cfg.max # 0 => /\ cfg.dvbt => cfg.max * RateOut >= 5 * r
                     /\ ~cfg.dvbt => cfg.max >= 5 * s
  <2>1. 5 * SymbolOf(8) * RateIn = 5 * (SymbolOf(8) * RateIn)
    BY <1>2
  <2>2. cfg.max * RateOut \in Nat
    BY <1>1
  <2> HIDE DEF r, s
  <2> QED BY <2>1, <2>2, <1>1, <1>2, <1>3 DEF FiveSymbols
<1>7. /\ Limit \in Nat
      /\ cfg.dvbt => Limit * RateOut >= 5 * r - RateOut
      /\ ~cfg.dvbt => Limit >= 5 * s
  <2>1. cfg.dvbt => Limit = Target \/ (cfg.max # 0 /\ Limit = cfg.max)
    BY DEF Limit
  <2>2. ~cfg.dvbt => Limit = IF cfg.max # 0 THEN cfg.max ELSE DefaultSamples
    BY DEF Limit
  <2> HIDE DEF r, s
  <2>3. CASE cfg.dvbt
    BY <2>1, <2>3, <1>1, <1>3, <1>5, <1>6
  <2>4. CASE ~cfg.dvbt
    BY <2>2, <2>4, <1>1, <1>2, <1>6
  <2> QED BY <2>3, <2>4
<1>8. Limit > 0
  <2>1. CASE cfg.dvbt
    <3>1. Limit = 0 => Limit * RateOut = 0
      OBVIOUS
    <3> HIDE DEF r
    <3> QED BY <2>1, <3>1, <1>3, <1>4, <1>7
  <2>2. CASE ~cfg.dvbt
    BY <2>2, <1>2, <1>7
  <2> QED BY <2>1, <2>2
<1> QED BY <1>7, <1>8

(* And through the resampler.                                               *)
LEMMA OutputsEnough ==
  ASSUME cfg \in Configs, cfg.live, cfg.dvbt, FiveSymbols, FastInput,
         NEW from \in Int, from < RateIn
  PROVE  Outputs(from, Limit) >= 4 * SymbolOf(AskedGuard)
<1> USE LoopConstants
<1> DEFINE s == SymbolOf(AskedGuard)
           r == s * RateIn
           room == (Limit - FilterRadius) * RateOut - from
           c == Ceiling(room, RateIn)
<1>1. Limit \in Nat /\ Limit * RateOut >= 5 * r - RateOut
  BY LimitEnough
<1>2. s \in Nat /\ s >= Fft
  BY SymbolSizes DEF AskedGuard, Guards, Configs
<1>3. r \in Nat /\ r >= Fft * RateIn /\ Fft * RateIn \in Nat
  <2>1. PICK d \in Nat : s = Fft + d
    BY <1>2
  <2>2. r = Fft * RateIn + d * RateIn /\ d * RateIn \in Nat /\ Fft * RateIn \in Nat
    BY <2>1, <1>2
  <2> QED BY <2>2
<1>4. /\ Limit * RateOut \in Nat /\ FilterRadius * RateOut \in Nat
      /\ room = Limit * RateOut - FilterRadius * RateOut - from
      /\ room \in Int
      /\ (FilterRadius + 1) * RateOut = FilterRadius * RateOut + RateOut
  BY <1>1
<1>5. (4 * s - 1) * RateIn = 4 * r - RateIn /\ 4 * s - 1 \in Int
  BY <1>2
<1>6. c \in Int /\ \A k \in Int : c <= k <=> room <= k * RateIn
  BY <1>4, CeilingIs
<1>7. Outputs(from, Limit) = IF room > 0 THEN c ELSE 0
  BY DEF Outputs
<1> HIDE DEF r, room, c, s
<1>8. room > 4 * r - RateIn
  BY <1>1, <1>3, <1>4 DEF FastInput
<1>9. ~(c <= 4 * s - 1)
  BY <1>3, <1>4, <1>5, <1>6, <1>8
<1>10. room > 0
  <2>1. 4 * r - RateIn >= 0
    <3>1. PICK d \in Nat : Fft = 1 + d
      OBVIOUS
    <3>2. Fft * RateIn = RateIn + d * RateIn /\ d * RateIn \in Nat
      BY <3>1
    <3> QED BY <3>2, <1>3
  <2> QED BY <2>1, <1>3, <1>4, <1>8
<1> QED BY <1>2, <1>6, <1>7, <1>9, <1>10 DEF s

-----------------------------------------------------------------------------
(* The first state of the loop, and one lemma for each action or kind of    *)
(* action.                                                                  *)

(* The invariant holds at the start.                                        *)
LEMMA LoopInit == ReceiverInit => LoopInv
BY LoopConstants DEF ReceiverInit, LoopInv, LoopTypes, Configs, Guards, NothingSaved,
   ChunkWhole, EndsOnlyWithInput

(* An argument makes a configuration of a configuration.                    *)
LEMMA ArgumentTypes ==
  ASSUME NEW c \in Configs, NEW d, c.live => c.probe,
         \/ \E flag \in Flags : d = [c EXCEPT ![flag] = TRUE]
         \/ d = [c EXCEPT !.live = TRUE, !.probe = TRUE]
         \/ \E g \in GuardArgs : d = [c EXCEPT !.gi = g]
         \/ \E n \in SymbolArgs : d = [c EXCEPT !.symbols = n]
         \/ \E n \in SampleArgs : d = [c EXCEPT !.max = n]
  PROVE  d \in Configs /\ (d.live => d.probe)
<1>1. CASE \E flag \in Flags : d = [c EXCEPT ![flag] = TRUE]
  <2>1. PICK flag \in Flags : d = [c EXCEPT ![flag] = TRUE]
    BY <1>1
  <2>2. flag # "probe" => d.probe = c.probe
    BY <2>1 DEF Configs, Flags
  <2>3. flag = "probe" => d.probe
    BY <2>1 DEF Configs, Flags
  <2>4. d.live = c.live
    BY <2>1 DEF Configs, Flags
  <2>5. d \in Configs
    BY <2>1 DEF Configs, Flags
  <2> QED BY <2>2, <2>3, <2>4, <2>5
<1>2. CASE d = [c EXCEPT !.live = TRUE, !.probe = TRUE]
  BY <1>2 DEF Configs
<1>3. CASE \E g \in GuardArgs : d = [c EXCEPT !.gi = g]
  <2>1. PICK g \in Guards \cup {GiAuto} : d = [c EXCEPT !.gi = g]
    BY <1>3, LoopConstants
  <2> QED BY <2>1 DEF Configs
<1>4. CASE \E n \in SymbolArgs : d = [c EXCEPT !.symbols = n]
  <2>1. PICK n \in Nat : d = [c EXCEPT !.symbols = n]
    BY <1>4, LoopConstants
  <2> QED BY <2>1 DEF Configs
<1>5. CASE \E n \in SampleArgs : d = [c EXCEPT !.max = n]
  <2>1. PICK n \in Nat : d = [c EXCEPT !.max = n]
    BY <1>5, LoopConstants
  <2> QED BY <2>1 DEF Configs
<1> QED BY <1>1, <1>2, <1>3, <1>4, <1>5

(* Reading arguments keeps the invariant.                                   *)
LEMMA ArgumentKeeps == ASSUME LoopInv, ReadArgument PROVE LoopInv'
<1>1. /\ phase = "args" /\ UNCHANGED <<phase, got, missed, place, saved>>
      /\ cfg \in Configs /\ (cfg.live => cfg.probe)
  BY DEF ReadArgument, LoopInv, LoopTypes
<1>2. cfg' \in Configs /\ (cfg'.live => cfg'.probe)
  BY <1>1, ArgumentTypes DEF ReadArgument
<1>3. LoopTypes'
  BY <1>1, <1>2 DEF LoopInv, LoopTypes
<1>4. ChunkWhole' /\ EndsOnlyWithInput'
  BY <1>1 DEF ChunkWhole, EndsOnlyWithInput
<1> QED BY <1>2, <1>3, <1>4 DEF LoopInv

(* A live receiver that was not asked something does not end before it has  *)
(* begun.                                                                   *)
LEMMA StartKeeps ==
  ASSUME LoopInv, BadArgument \/ Answer \/ Refuse \/ Measure \/ Begin \/ Setup
  PROVE  LoopInv'
<1>1. /\ UNCHANGED <<cfg, got, missed, place, saved, drained>>
      /\ phase' \in {"exit", "setup", "read"}
      /\ phase' = "exit" => exit' = 2 \/ Asks \/ ~cfg.probe
  BY DEF BadArgument, Answer, Refuse, Measure, Begin, Setup, Exits
<1>2. LoopTypes'
  BY <1>1 DEF LoopInv, LoopTypes
<1>3. ChunkWhole'
  BY <1>1 DEF ChunkWhole
<1>4. Asks' = Asks
  BY <1>1 DEF Asks
<1>5. EndsOnlyWithInput'
  BY <1>1, <1>4 DEF EndsOnlyWithInput, LoopInv
<1> QED BY <1>1, <1>2, <1>3, <1>5 DEF LoopInv

(* A chunk that fails ends nothing.                                         *)
LEMMA ReturnKeeps ==
  ASSUME LoopInv, NEW rc \in {0, Failed}, Returns(rc),
         UNCHANGED <<cfg, drained>>, missed' \in Nat, place' \in Int, place' < RateIn,
         saved' \in [n : Nat, symbol : Int], phase # "exit"
  PROVE  LoopInv'
<1>1. /\ got' = 0
      /\ IF cfg.live THEN phase' = "setup" ELSE phase' = "exit"
  BY DEF Returns, Exits, Failed, Eof
<1>2. LoopTypes'
  BY <1>1 DEF LoopInv, LoopTypes
<1>3. ChunkWhole' /\ EndsOnlyWithInput'
  BY <1>1 DEF ChunkWhole, EndsOnlyWithInput
<1> QED BY <1>2, <1>3 DEF LoopInv

(* What is asked for depends on the configuration only.                     *)
LEMMA FiveSame ==
  ASSUME cfg' = cfg
  PROVE  /\ FiveSymbols' = FiveSymbols /\ Asks' = Asks /\ Limit' = Limit
         /\ SymbolOf(AskedGuard)' = SymbolOf(AskedGuard)
BY DEF FiveSymbols, Asks, Limit, Target, SymbolOf, AskedGuard

(* A chunk that is not the last is as long as was asked for.                *)
LEMMA ChunkReadKeeps == ASSUME FastInput, LoopInv, ReadChunk PROVE LoopInv'
<1>1. PICK n \in {0, 1, Limit \div 2, Limit}, lost \in Overruns \cup {0} :
        /\ drained' = (n < Limit)
        /\ IF n = 0 THEN Returns(Eof) /\ UNCHANGED missed
           ELSE got' = n /\ missed' = missed + lost /\ phase' = "resample" /\ UNCHANGED exit
  BY DEF ReadChunk
<1>2. phase = "read" /\ UNCHANGED <<cfg, place, saved>> /\ cfg \in Configs /\ missed \in Nat
  BY DEF ReadChunk, LoopInv, LoopTypes
<1>3. lost \in Nat
  BY LoopConstants
<1>4. Limit \in Nat
  <2>1. cfg.max \in Nat /\ cfg.symbols \in Nat /\ cfg.gi \in Guards \cup {GiAuto}
    BY <1>2 DEF Configs
  <2>2. Target \in Nat
    <3> DEFINE symbols == IF cfg.symbols = 0 THEN DefaultSymbols ELSE cfg.symbols
               symbol == SymbolOf(AskedGuard)
               a == 2 * symbols * symbol * RateIn + RateOut
               b == 2 * RateOut
    <3>1. symbols \in Nat /\ symbol \in Nat
      BY <2>1, LoopConstants, SymbolSizes DEF AskedGuard, Guards
    <3>2. a \in Nat /\ b \in Nat /\ b > 0
      <4> HIDE DEF symbols, symbol
      <4> QED BY <3>1, LoopConstants
    <3>3. Target = a \div b
      BY DEF Target, AskedGuard
    <3> HIDE DEF a, b
    <3>4. 0 * b <= a
      BY <3>2
    <3>5. a \div b \in Int /\ 0 <= a \div b
      BY <3>2, <3>4, Divide, FitsIn
    <3> QED BY <3>3, <3>5
  <2> QED BY <2>1, <2>2, LoopConstants DEF Limit
<1>5. /\ FiveSymbols' = FiveSymbols /\ Asks' = Asks /\ Limit' = Limit
  BY <1>2, FiveSame
<1>6. CASE n = 0
  <2>1. phase' = "exit" /\ got' = 0 /\ UNCHANGED missed
    BY <1>1, <1>6 DEF Returns, Exits, Eof
  <2>2. cfg.live /\ FiveSymbols => drained'
    BY <1>1, <1>2, <1>6, LimitEnough
  <2>3. LoopTypes'
    BY <1>2, <2>1 DEF LoopInv, LoopTypes
  <2>4. ChunkWhole'
    BY <2>1 DEF ChunkWhole
  <2>5. EndsOnlyWithInput'
    BY <1>2, <1>5, <2>2 DEF EndsOnlyWithInput
  <2> QED BY <1>2, <2>3, <2>4, <2>5 DEF LoopInv
<1>7. CASE n # 0
  <2>1. got' = n /\ missed' = missed + lost /\ phase' = "resample"
    BY <1>1, <1>7
  <2>2. n \in Nat /\ (n <= Limit \/ n = 1)
    BY <1>4
  <2>3. LoopTypes'
    BY <1>2, <1>3, <2>1, <2>2 DEF LoopInv, LoopTypes
  <2>4. ChunkWhole'
    <3> SUFFICES ASSUME cfg.live, FiveSymbols, ~(n < Limit) PROVE n = Limit
      BY <1>1, <1>2, <1>5, <2>1 DEF ChunkWhole
    <3>1. Limit >= 1
      BY <1>2, <1>4, LimitEnough
    <3>2. Limit \div 2 <= Limit
      BY <1>4
    <3>3. n = 1 => n <= Limit
      BY <3>1, <1>4
    <3> QED BY <2>2, <3>3, <1>4
  <2>5. EndsOnlyWithInput'
    BY <2>1 DEF EndsOnlyWithInput
  <2> QED BY <1>2, <2>3, <2>4, <2>5 DEF LoopInv
<1> QED BY <1>6, <1>7

(* A chunk is resampled with enough samples, or it fails.                   *)
LEMMA ResampledKeeps ==
  ASSUME LoopInv, phase = "resample", NEW n \in Nat,
         UNCHANGED <<cfg, saved, drained>>, missed' \in Nat,
         place' \in Int, place' < RateIn,
         cfg.live /\ FiveSymbols /\ ~drained => n >= 4 * SymbolOf(AskedGuard),
         IF n > 0 THEN Resampled(n) ELSE Returns(Failed)
  PROVE  LoopInv'
<1>1. CASE n > 0
  <2>1. got' = n /\ phase' = "prepare"
    BY <1>1 DEF Resampled
  <2>2. FiveSymbols' = FiveSymbols /\ SymbolOf(AskedGuard)' = SymbolOf(AskedGuard)
    BY FiveSame
  <2>3. LoopTypes'
    BY <2>1 DEF LoopInv, LoopTypes
  <2>4. ChunkWhole'
    BY <2>1, <2>2 DEF ChunkWhole
  <2>5. EndsOnlyWithInput'
    BY <2>1 DEF EndsOnlyWithInput
  <2> QED BY <2>3, <2>4, <2>5 DEF LoopInv
<1>2. CASE ~(n > 0)
  <2>1. Returns(Failed) /\ saved' \in [n : Nat, symbol : Int]
    BY <1>2 DEF LoopInv, LoopTypes
  <2> QED BY <2>1, ReturnKeeps
<1> QED BY <1>1, <1>2

(* The live resampler makes four symbols or more of it.                     *)
LEMMA LiveKeeps == ASSUME FastInput, LoopInv, ResampleLive PROVE LoopInv'
<1> DEFINE from == PlaceAfter(place, missed)
           n == Outputs(from, got)
<1>1. /\ phase = "resample" /\ cfg.dvbt /\ cfg.live
      /\ place' = from + n * RateIn - got * RateOut
      /\ missed' = 0
      /\ IF n > 0 THEN Resampled(n) ELSE Returns(Failed)
      /\ UNCHANGED <<cfg, saved, drained>>
  BY DEF ResampleLive
<1>2. /\ cfg \in Configs /\ got \in Nat /\ missed \in Nat
      /\ place \in Int /\ place < RateIn
  BY DEF LoopInv, LoopTypes
<1>3. from \in Int /\ from < RateIn
  BY <1>2, PlaceBefore
<1>4. n \in Nat /\ place' \in Int /\ place' < RateIn
  BY <1>1, <1>2, <1>3, PlaceLeft
<1>5. ASSUME FiveSymbols, ~drained PROVE n >= 4 * SymbolOf(AskedGuard)
  <2>1. got = Limit
    BY <1>1, <1>5 DEF LoopInv, ChunkWhole
  <2> HIDE DEF from
  <2> QED BY <2>1, <1>1, <1>2, <1>3, <1>5, OutputsEnough
<1> HIDE DEF n
<1> QED BY <1>1, <1>4, <1>5, ResampledKeeps

(* When the live resampler fails the loop goes on.                          *)
LEMMA LiveFailKeeps == ASSUME LoopInv, ResampleLiveFails PROVE LoopInv'
<1> DEFINE from == PlaceAfter(place, missed)
           left == from + Outputs(from, got) * RateIn - got * RateOut
<1>1. /\ cfg \in Configs /\ got \in Nat /\ missed \in Nat
      /\ place \in Int /\ place < RateIn
      /\ saved \in [n : Nat, symbol : Int]
  BY DEF LoopInv, LoopTypes
<1>2. from \in Int /\ from < RateIn
  BY <1>1, PlaceBefore
<1>3. left \in Int /\ left < RateIn
  BY <1>1, <1>2, PlaceLeft
<1>4. place' \in {0, from, left} /\ missed' \in {0, missed}
  BY DEF ResampleLiveFails
<1>5. place' \in Int /\ place' < RateIn /\ missed' \in Nat
  <2> HIDE DEF from, left
  <2> QED BY <1>1, <1>2, <1>3, <1>4, LoopConstants
<1>6. Returns(Failed) /\ UNCHANGED <<cfg, saved, drained>> /\ phase # "exit"
  BY DEF ResampleLiveFails
<1> QED BY <1>1, <1>5, <1>6, ReturnKeeps

(* The other resamplers make four symbols or more of it.                    *)
LEMMA WholeKeeps == ASSUME FastInput, LoopInv, ResampleWhole PROVE LoopInv'
<1> DEFINE n == CASE cfg.x4 -> 4 * got
                  [] ~cfg.x4 /\ cfg.dvbt -> (got * RateOut) \div RateIn
                  [] OTHER -> got
<1>1. /\ phase = "resample" /\ ~(cfg.dvbt /\ cfg.live)
      /\ IF n > 0 THEN Resampled(n) ELSE Returns(Failed)
      /\ UNCHANGED <<cfg, missed, place, saved, drained>>
  BY DEF ResampleWhole
<1>2. /\ cfg \in Configs /\ got \in Nat /\ missed \in Nat
      /\ place \in Int /\ place < RateIn
  BY DEF LoopInv, LoopTypes
<1>3. n \in Nat
  <2> DEFINE a == got * RateOut
  <2>1. a \in Nat /\ 0 * RateIn <= a
    BY <1>2, LoopConstants
  <2> HIDE DEF a
  <2>2. a \div RateIn \in Nat
    BY <2>1, Divide, FitsIn, LoopConstants
  <2> QED BY <2>2, <1>2 DEF a
<1>4. ASSUME cfg.live, FiveSymbols, ~drained PROVE n >= 4 * SymbolOf(AskedGuard)
  <2>1. got = Limit /\ ~cfg.dvbt
    BY <1>1, <1>4 DEF LoopInv, ChunkWhole
  <2>2. Limit >= 5 * SymbolOf(AskedGuard)
    BY <2>1, <1>2, <1>4, LimitEnough
  <2>3. SymbolOf(AskedGuard) \in Nat
    BY <1>2, SymbolSizes DEF AskedGuard, Guards, Configs
  <2>4. n = 4 * got \/ n = got
    BY <2>1
  <2> HIDE DEF n
  <2> QED BY <2>1, <2>2, <2>3, <2>4, <1>2
<1> HIDE DEF n
<1> QED BY <1>1, <1>2, <1>3, <1>4, ResampledKeeps

(* Of a whole chunk there are four symbols, whatever guard interval is      *)
(* chosen for it.                                                           *)
LEMMA PrepareKeeps == ASSUME LoopInv, Prepare PROVE LoopInv'
<1>1. /\ phase = "prepare" /\ UNCHANGED <<cfg, missed, place, drained>>
      /\ cfg \in Configs /\ got \in Nat /\ saved \in [n : Nat, symbol : Int]
  BY DEF Prepare, LoopInv, LoopTypes
<1>2. PICK guard \in GuardChoice :
        LET symbol == SymbolOf(guard)
            n == Prefix(symbol) + got
        IN  /\ saved' = IF ~cfg.live THEN saved
                        ELSE [n |-> IF n < 2 * symbol THEN n ELSE 2 * symbol,
                              symbol |-> symbol]
            /\ IF n >= 4 * symbol
               THEN got' = n /\ phase' = "decode" /\ UNCHANGED exit
               ELSE Returns(Eof)
  BY DEF Prepare
<1> DEFINE symbol == SymbolOf(guard)
           n == Prefix(symbol) + got
<1>3. guard \in Guards
  BY <1>1 DEF GuardChoice, Fitting, Guards, Configs
<1>4. symbol \in Nat /\ n \in Nat /\ n >= got
  <2>1. symbol \in Nat
    BY <1>3, SymbolSizes
  <2>2. Prefix(symbol) \in Nat
    BY <1>1 DEF Prefix
  <2> QED BY <2>1, <2>2, <1>1
<1>5. ASSUME cfg.live, FiveSymbols, ~drained PROVE n >= 4 * symbol
  <2>1. got >= 4 * SymbolOf(AskedGuard)
    BY <1>1, <1>5 DEF LoopInv, ChunkWhole
  <2>2. got >= 4 * symbol
    <3>1. CASE cfg.gi # GiAuto
      <4>1. guard = AskedGuard
        BY <3>1 DEF GuardChoice, AskedGuard
      <4> QED BY <4>1, <2>1
    <3>2. CASE cfg.gi = GiAuto
      <4>1. got >= 4 * SymbolOf(8)
        BY <3>2, <2>1 DEF AskedGuard
      <4>2. 8 \in Fitting
        BY <4>1, SymbolSizes DEF Fitting
      <4>3. guard \in Fitting
        BY <3>2, <4>2 DEF GuardChoice
      <4> QED BY <4>3 DEF Fitting
    <3> QED BY <3>1, <3>2
  <2> HIDE DEF n, symbol
  <2> QED BY <2>2, <1>1, <1>4
<1>6. saved' \in [n : Nat, symbol : Int]
  <2>1. saved' = IF ~cfg.live THEN saved
                 ELSE [n |-> IF n < 2 * symbol THEN n ELSE 2 * symbol, symbol |-> symbol]
    BY <1>2
  <2> HIDE DEF n, symbol
  <2> QED BY <2>1, <1>1, <1>4
<1>7. FiveSymbols' = FiveSymbols /\ Asks' = Asks
  BY <1>1, FiveSame
<1>8. CASE n >= 4 * symbol
  <2>1. got' = n /\ phase' = "decode"
    BY <1>2, <1>8
  <2> HIDE DEF n, symbol
  <2>2. LoopTypes'
    BY <2>1, <1>1, <1>4, <1>6 DEF LoopInv, LoopTypes
  <2>3. ChunkWhole' /\ EndsOnlyWithInput'
    BY <2>1 DEF ChunkWhole, EndsOnlyWithInput
  <2> QED BY <2>2, <2>3, <1>1 DEF LoopInv
<1>9. CASE ~(n >= 4 * symbol)
  <2>1. phase' = "exit" /\ got' = 0
    BY <1>2, <1>9 DEF Returns, Exits, Eof
  <2>2. cfg.live /\ FiveSymbols => drained
    BY <1>5, <1>9
  <2>3. LoopTypes'
    BY <2>1, <1>1, <1>6 DEF LoopInv, LoopTypes
  <2>4. ChunkWhole'
    BY <2>1 DEF ChunkWhole
  <2>5. EndsOnlyWithInput'
    BY <2>2, <1>1, <1>7 DEF EndsOnlyWithInput
  <2> QED BY <2>3, <2>4, <2>5, <1>1 DEF LoopInv
<1> QED BY <1>8, <1>9

(* Failures, and the end of a chunk, keep the invariant.                    *)
LEMMA FailuresKeep ==
  ASSUME LoopInv, SetupFails \/ ResampleWholeFails \/ DecodeChunk
  PROVE  LoopInv'
<1>1. /\ missed \in Nat /\ place \in Int /\ place < RateIn
      /\ saved \in [n : Nat, symbol : Int]
  BY DEF LoopInv, LoopTypes
<1>2. /\ phase # "exit" /\ UNCHANGED <<cfg, missed, place, saved, drained>>
      /\ \E rc \in {0, Failed} : Returns(rc)
  BY DEF SetupFails, ResampleWholeFails, DecodeChunk
<1> QED BY <1>1, <1>2, ReturnKeeps

(* So does a failure to choose a guard interval or to keep the tail.        *)
LEMMA PrepareFailKeeps == ASSUME LoopInv, PrepareFails PROVE LoopInv'
<1>1. /\ missed \in Nat /\ place \in Int /\ place < RateIn
      /\ saved \in [n : Nat, symbol : Int] /\ cfg \in Configs
  BY DEF LoopInv, LoopTypes
<1>2. PICK guard \in GuardChoice :
        saved' = [n |-> Prefix(SymbolOf(guard)), symbol |-> SymbolOf(guard)]
  BY DEF PrepareFails
<1>3. guard \in Guards
  BY <1>1 DEF GuardChoice, Fitting, Guards, Configs
<1>4. SymbolOf(guard) \in Nat /\ Prefix(SymbolOf(guard)) \in Nat
  BY <1>1, <1>3, SymbolSizes DEF Prefix
<1>5. saved' \in [n : Nat, symbol : Int]
  BY <1>2, <1>4
<1>6. Returns(Failed) /\ UNCHANGED <<cfg, missed, place, drained>> /\ phase # "exit"
  BY DEF PrepareFails
<1> QED BY <1>1, <1>5, <1>6, ReturnKeeps

(* A step that leaves the component alone.                                  *)
LEMMA LoopStutter == ASSUME LoopInv, UNCHANGED receiverVars PROVE LoopInv'
<1>1. FiveSymbols' = FiveSymbols /\ Asks' = Asks /\ Limit' = Limit
      /\ SymbolOf(AskedGuard)' = SymbolOf(AskedGuard)
  BY FiveSame DEF receiverVars
<1>2. LoopTypes'
  BY DEF receiverVars, LoopInv, LoopTypes
<1>3. ChunkWhole'
  BY <1>1 DEF receiverVars, LoopInv, ChunkWhole
<1>4. EndsOnlyWithInput'
  BY <1>1 DEF receiverVars, LoopInv, EndsOnlyWithInput
<1> QED BY <1>2, <1>3, <1>4 DEF receiverVars, LoopInv

(* All steps of the loop together.                                          *)
LEMMA LoopStep ==
  ASSUME FastInput
  PROVE  LoopInv /\ [ReceiverNext]_receiverVars => LoopInv'
BY ArgumentKeeps, StartKeeps, ChunkReadKeeps, LiveKeeps, LiveFailKeeps, WholeKeeps,
   PrepareKeeps, FailuresKeep, PrepareFailKeeps, LoopStutter DEF ReceiverNext

(* A live receiver that is asked for chunks of five or more symbols, of     *)
(* samples that do not come absurdly slowly, takes no chunk for the end of  *)
(* its input while there is input.                                          *)
THEOREM ReceiverEndsOnlyWithInput ==
  ASSUME FastInput
  PROVE  ReceiverSpec => []EndsOnlyWithInput
<1>1. LoopInv => EndsOnlyWithInput
  BY DEF LoopInv
<1>2. LoopInv /\ [ReceiverNext]_receiverVars => LoopInv'
  BY LoopStep
<1> QED BY <1>1, <1>2, LoopInit, PTL DEF ReceiverSpec
===============================================================================
