----------------------------- MODULE ReedSolomon -----------------------------
(***************************************************************************)
(* The Reed-Solomon decoder of the outer FEC, src/src/dvbt_outer.c, over a *)
(* field and a block of any size: field tables, syndromes, Berlekamp and   *)
(* Massey's search for the error locator, its roots, Forney's magnitudes.  *)
(* The code is shortened, as 204 is of 255: not every root of the locator  *)
(* is a place in the block.                                                *)
(***************************************************************************)
EXTENDS Integers, Sequences, SequencesExt, FiniteSets, FiniteSetsExt

CONSTANTS
  FieldSize, \* 256: the elements of the field
  Reduce,    \* 0x1d: the field's polynomial without its highest power
  ParityLen, \* RS_PARITY_LEN
  RsLen,     \* RS_BLOCK_LEN
  Messages,  \* what the transmitter encodes
  MaxWrong   \* bound: bytes of a block that are wrong

Order == FieldSize - 1
Field == 0 .. Order
Correctables == ParityLen \div 2
Powers == 0 .. ParityLen

ASSUME RsAssumption ==
  /\ {FieldSize, Reduce, ParityLen, RsLen, MaxWrong} \subseteq Nat
  /\ ParityLen < RsLen /\ RsLen <= Order
  /\ \A msg \in Messages : msg \in [1 .. RsLen - ParityLen -> Field]

VARIABLES
  sentBlock, \* a block as it was transmitted
  gotBlock   \* and as it was received

rsVars == <<sentBlock, gotBlock>>

-----------------------------------------------------------------------------
(* The field.                                                              *)

BitAt(n, i) == (n \div 2^i) % 2

XorTable ==
  [a \in Field |-> [b \in Field |->
     MapThenSumSet(LAMBDA i : 2^i * ((BitAt(a, i) + BitAt(b, i)) % 2),
                   {i \in 0 .. Order : 2^i < FieldSize})]]
Xor(a, b) == XorTable[a][b]

\* gf_exp, twice round the field, and gf_log
Exp[i \in 0 .. 2 * Order] ==
  IF i = 0 THEN 1
  ELSE IF i >= Order THEN Exp[i - Order]
  ELSE LET x == 2 * Exp[i - 1]
       IN  IF x >= FieldSize THEN Xor(x - FieldSize, Reduce) ELSE x
Log == [x \in Field \ {0} |-> CHOOSE i \in 0 .. Order - 1 : Exp[i] = x]

MulTable ==
  [a \in Field |-> [b \in Field |->
     IF a = 0 \/ b = 0 THEN 0 ELSE Exp[Log[a] + Log[b]]]]
Mul(a, b) == MulTable[a][b]

Div(a, b) == IF a = 0 \/ b = 0 THEN 0 ELSE Exp[(Log[a] - Log[b]) % Order]
Inv(a) == IF a = 0 THEN 0 ELSE Exp[(Order - Log[a]) % Order]
PowAlpha(e) == Exp[e % Order]
PowElem(a, e) == IF e = 0 THEN 1 ELSE IF a = 0 THEN 0 ELSE Exp[(Log[a] * e) % Order]

UpTo(n) == [i \in 1 .. n + 1 |-> i - 1]
XorOver(F(_), seq) == FoldLeft(LAMBDA y, i : Xor(y, F(i)), 0, seq)
PolyEval(poly, degree, x) ==
  FoldLeft(LAMBDA y, i : Xor(Mul(y, x), poly[i]), 0, Reverse(UpTo(degree)))

-----------------------------------------------------------------------------
(* rs_correct_204.                                                         *)

Syndromes(block) ==
  [r \in 0 .. ParityLen - 1 |->
     FoldLeft(LAMBDA y, s : Xor(Mul(y, PowAlpha(r)), s), 0, block)]

HasSyndrome(syndrome) == \E r \in DOMAIN syndrome : syndrome[r] # 0

\* Mutant: the locator grows a step late.
GrowsLate(l, n) == 2 * l < n

Grows(l, n) == 2 * l <= n

Discrepancy(syndrome, s, n) ==
  Xor(syndrome[n], XorOver(LAMBDA i : Mul(s.locator[i], syndrome[n - i]), Tail(UpTo(s.degree))))

Adjusted(s, coef) ==
  [i \in Powers |-> IF i < s.shift THEN s.locator[i]
                    ELSE Xor(s.locator[i], Mul(coef, s.before[i - s.shift]))]

\* One round of rs_berlekamp_massey, in which d is the discrepancy; before
\* holds the locator of the last round in which it grew, shift rounds ago, with
\* the discrepancy of then.
BmRound(s, n, d) ==
  CASE d = 0 -> [s EXCEPT !.shift = @ + 1]
    [] d # 0 /\ Grows(s.degree, n) ->
         [locator |-> Adjusted(s, Div(d, s.last)), before |-> s.locator,
          degree |-> n + 1 - s.degree, shift |-> 1, last |-> d]
    [] OTHER -> [s EXCEPT !.locator = Adjusted(s, Div(d, s.last)), !.shift = @ + 1]

One == [i \in Powers |-> IF i = 0 THEN 1 ELSE 0]
BerlekampMassey(syndrome) ==
  FoldLeft(LAMBDA s, n : BmRound(s, n, Discrepancy(syndrome, s, n)),
           [locator |-> One, before |-> One, degree |-> 0, shift |-> 1, last |-> 1],
           UpTo(ParityLen - 1))

\* The element that stands for byte k of a block, from 1
Place(k) == PowAlpha(RsLen - k)

Positions(bm) ==
  {k \in 1 .. RsLen : PolyEval(bm.locator, bm.degree, Inv(Place(k))) = 0}

Omega(syndrome, bm) ==
  [k \in 0 .. ParityLen - 1 |->
     XorOver(LAMBDA j : Mul(syndrome[k - j], bm.locator[j]),
             SelectSeq(UpTo(bm.degree), LAMBDA j : j <= k))]

Denominator(bm, k) ==
  XorOver(LAMBDA i : Mul(bm.locator[i], PowElem(Inv(Place(k)), i - 1)),
          SelectSeq(UpTo(bm.degree), LAMBDA i : i % 2 = 1))

Magnitude(syndrome, bm, k) ==
  Mul(Place(k), Div(PolyEval(Omega(syndrome, bm), ParityLen - 1, Inv(Place(k))),
                    Denominator(bm, k)))

Refused == [ok |-> FALSE]

Result(block, syndrome, bm) ==
  LET places == Positions(bm) IN
  [k \in 1 .. RsLen |->
     IF k \in places THEN Xor(block[k], Magnitude(syndrome, bm, k)) ELSE block[k]]

\* As many roots as the locator has degrees, and none of them double
Separable(bm) ==
  /\ bm.degree \in 1 .. Correctables
  /\ Cardinality(Positions(bm)) = bm.degree
  /\ \A k \in Positions(bm) : Denominator(bm, k) # 0

Checked(result, count) ==
  IF HasSyndrome(Syndromes(result)) THEN Refused
  ELSE [ok |-> TRUE, count |-> count, block |-> result]

Located(block, syndrome, bm) ==
  IF Separable(bm) THEN Checked(Result(block, syndrome, bm), bm.degree) ELSE Refused

Repaired(block, syndrome) ==
  IF HasSyndrome(syndrome) THEN Located(block, syndrome, BerlekampMassey(syndrome))
  ELSE [ok |-> TRUE, count |-> 0, block |-> block]

Correct(block) == Repaired(block, Syndromes(block))

-----------------------------------------------------------------------------
(* The transmitter's blocks are the multiples of the polynomial with the   *)
(* roots 1, alpha, alpha^2 and so on; here a message is multiplied with it.*)
TimesRoot(poly, r) ==
  [i \in 1 .. Len(poly) + 1 |->
     Xor(IF i <= Len(poly) THEN poly[i] ELSE 0,
         IF i > 1 THEN Mul(PowAlpha(r), poly[i - 1]) ELSE 0)]
Encoded(msg) == FoldLeft(TimesRoot, msg, UpTo(ParityLen - 1))
Codewords == {Encoded(msg) : msg \in [1 .. RsLen - ParityLen -> Field]}

Differing(a, b) == {k \in 1 .. RsLen : a[k] # b[k]}
Wrong == Differing(sentBlock, gotBlock)

RsInit == \E msg \in Messages : sentBlock = Encoded(msg) /\ gotBlock = sentBlock

\* One more byte is received wrong.
Disturb ==
  /\ Cardinality(Wrong) < MaxWrong
  /\ \E k \in 1 .. RsLen, v \in Field :
       /\ \A w \in Wrong : w < k
       /\ v # sentBlock[k]
       /\ gotBlock' = [gotBlock EXCEPT ![k] = v]
  /\ UNCHANGED sentBlock

(* BlocksRestored: a block with at most half as many wrong bytes as it has  *)
(* parity is restored and the number of its errors told; and with more the  *)
(* decoder refuses it, or yields a block the transmitter could have sent    *)
(* that differs in no more bytes than it says.                              *)
BlocksRestored ==
  \A r \in {Correct(gotBlock)} :
    /\ Cardinality(Wrong) <= Correctables =>
         r = [ok |-> TRUE, count |-> Cardinality(Wrong), block |-> sentBlock]
    /\ r.ok => /\ r.block \in Codewords
               /\ Cardinality(Differing(r.block, gotBlock)) = r.count
               /\ r.count <= Correctables
=============================================================================
