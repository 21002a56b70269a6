----------------------------- MODULE OuterStream -----------------------------
(***************************************************************************)
(* The live outer decoder byte by byte, src/src/dvbt_outer.c: the search   *)
(* for the alignment in the pending bytes, the convolutional deinterleaver *)
(* with its branch, the block under construction and its place in the      *)
(* scrambler's period, and the search anew in a job that brought nothing.  *)
(*                                                                         *)
(* A byte is known by its place in the transmitted stream before the outer *)
(* interleaver: block number times the block's length plus the offset.     *)
(* Bad is a byte received wrong.  A block is clean when its bytes belong   *)
(* together, and correctable when all but a few do.                        *)
(***************************************************************************)
EXTENDS Integers, Sequences, FiniteSets

CONSTANTS
  Branches,     \* OUTER_I, 12
  Depth,        \* OUTER_M, 17; a block is Branches * Depth = 204 bytes
  Period,       \* blocks until the scrambler starts anew, 8
  Correctable,  \* bytes of a block that may be wrong, 8
  MinBacklog,   \* min_pending_bytes of outer_scan_policy_t
  MinRsOk,      \* min_rs_ok
  MinSyncOk,    \* min_sync_ok
  MinSyncOnly,  \* min_sync_only_ok
  ProbeBlocks,  \* rs_probe_blocks
  ScanBlocks,   \* sync_scan_blocks
  JobSizes,     \* bytes the inner decoder hands on at once
  BadAt,        \* bytes of a job that may be wrong; 0 for none
  Losses,       \* bytes the inner decoder may lose without saying so
  Stops,        \* packets after which the output may fail
  Starts,       \* places of the channel where the receiver may begin
  MaxByte       \* bound: bytes of the channel

BlockLen == Branches * Depth
Transient == (Branches - 1) * Depth * Branches
Bad == -1

ASSUME OuterStreamAssumption ==
  /\ {Branches, Depth, Period, Correctable, MinBacklog, MaxByte} \subseteq Nat
  /\ Branches > 1 /\ Depth > 0 /\ Period > 1
  /\ Correctable < Depth                \* 8 of 17
  /\ {MinRsOk, MinSyncOk, MinSyncOnly, ProbeBlocks, ScanBlocks} \subseteq Nat
  /\ MinSyncOk >= Period                \* 24 or more against 8
  /\ MinSyncOnly >= Period              \* 96 or more
  /\ ProbeBlocks > 0 /\ ScanBlocks > 0 /\ ScanBlocks < 1000
  /\ JobSizes \cup BadAt \cup Losses \cup Stops \cup Starts \subseteq Nat
  /\ 0 \notin Stops
  /\ \A t \in Starts : t >= Transient

(***************************************************************************)
(* Blocks.                                                                 *)
(***************************************************************************)
BlockOf(byte) == byte \div BlockLen
Misplaced(block, n) ==
  Cardinality({i \in 1 .. BlockLen : block[i] # n * BlockLen + i - 1})

\* rs_correct_204: the blocks that this one is near enough to, at most one as
\* long as Correctable is less than half a block; and rs_block_is_clean_204,
\* for a block that begins with a sync byte
Near(block) ==
  {n \in {BlockOf(block[i]) : i \in 1 .. BlockLen} : Misplaced(block, n) <= Correctable}
IsClean(block) == \A i \in 2 .. BlockLen : block[i] = block[1] + i - 1

\* sync_matches: the sync byte is inverted in the first block of a period
IsSync(byte) == byte # Bad /\ byte % BlockLen = 0
IsInverted(byte) == BlockOf(byte) % Period = 0
SyncMatches(byte, phase) == IsSync(byte) /\ IsInverted(byte) = (phase = 0)

(***************************************************************************)
(* The deinterleaver.                                                      *)
(***************************************************************************)
\* outer_deinterleaver_init
RowLen(b) == (Branches - 1 - b) * Depth
FreshRows == [b \in 0 .. Branches - 1 |-> [k \in 1 .. RowLen(b) |-> Bad]]

\* outer_deinterleaver_step: what comes out, and the row left behind
StepOut(row, byte) == IF row = <<>> THEN byte ELSE Head(row)
StepRow(row, byte) == IF row = <<>> THEN row ELSE Append(Tail(row), byte)
StepRows(rows, branch, byte) == [rows EXCEPT ![branch] = StepRow(@, byte)]
NextBranch(branch) == (branch + 1) % Branches

\* outer_deinterleave_phase: all that comes out for the bytes from `phase' on
DeinterleaverInit == [rows |-> FreshRows, branch |-> 0, out |-> <<>>]
DeinterleaverStep(d, byte) ==
  [rows   |-> StepRows(d.rows, d.branch, byte),
   branch |-> NextBranch(d.branch),
   out    |-> Append(d.out, StepOut(d.rows[d.branch], byte))]
Deinterleaved(bytes, phase) ==
  LET d[n \in 0 .. Len(bytes) - phase] ==
        IF n = 0 THEN DeinterleaverInit ELSE DeinterleaverStep(d[n - 1], bytes[phase + n])
  IN  d[Len(bytes) - phase].out

(***************************************************************************)
(* The search for the alignment.                                           *)
(***************************************************************************)
\* score_candidate_with_policy, for what came out of the deinterleaver: the
\* blocks looked at, their sync bytes, and the candidate's record
Windows(out, rs) ==
  LET whole == IF Transient + rs >= Len(out) THEN 0
               ELSE (Len(out) - Transient - rs) \div BlockLen
  IN  IF whole > ScanBlocks THEN ScanBlocks ELSE whole
Window(out, rs, b) ==
  [i \in 1 .. BlockLen |-> out[Transient + rs + b * BlockLen + i]]
Synced(out, rs, phase) ==
  {b \in 0 .. Windows(out, rs) - 1 :
     SyncMatches(Window(out, rs, b)[1], (phase + b) % Period)}
Clean(out, rs, phase) ==
  {b \in Synced(out, rs, phase) : b < ProbeBlocks /\ IsClean(Window(out, rs, b))}
Candidate(out, deint, rs, phase) ==
  [deint |-> deint, rs |-> rs, phase |-> phase,
   sync  |-> Cardinality(Synced(out, rs, phase)),
   clean |-> Cardinality(Clean(out, rs, phase))]

\* scan_outer_alignment_with_policy: every phase of the deinterleaver, every
\* place of a block and of the period; the first with the best score
NothingFound == [deint |-> 0, rs |-> 0, phase |-> 0, sync |-> 0, clean |-> 0]
Points(c) == c.clean * 1000 + c.sync
TriedAt(c) == (c.deint * BlockLen + c.rs) * Period + c.phase
Scan(bytes) ==
  LET out == [d \in {p \in 0 .. Branches - 1 : p < Len(bytes)} |-> Deinterleaved(bytes, d)]
      tried == UNION {{Candidate(out[d], d, rs, phase) :
                         rs \in 0 .. BlockLen - 1, phase \in 0 .. Period - 1} :
                      d \in DOMAIN out}
      best == {c \in tried :
                 /\ Points(c) > 0
                 /\ \A o \in tried : \/ Points(o) < Points(c)
                                     \/ Points(o) = Points(c) /\ TriedAt(o) >= TriedAt(c)}
  IN  IF best = {} THEN NothingFound ELSE CHOOSE c \in best : TRUE

(* One clean block is enough, as without a policy for the symbol rate.      *)
AcquirableAtOnce(found, minRs, minSync, minSyncOnly) == found.clean > 0

\* outer_candidate_is_acquirable
Acquirable(found, minRs, minSync, minSyncOnly) ==
  \/ found.clean >= minRs /\ found.sync >= minSync
  \/ found.sync >= minSyncOnly

(***************************************************************************)
(* A job.                                                                  *)
(***************************************************************************)
Cadence(phase) == [rows |-> FreshRows, branch |-> 0, block |-> <<>>, phase |-> phase]

\* live_grdvbt_outer_push_deint_byte: the block under construction grows, and
\* a whole one is corrected, descrambled and put into FIFO3, or lost
Pushed(p, c, byte) ==
  LET block == Append(c.block, byte)
      near == Near(block)
  IN  IF Len(block) < BlockLen THEN [p EXCEPT !.c = [c EXCEPT !.block = block]]
      ELSE [p EXCEPT !.c      = [c EXCEPT !.block = <<>>, !.phase = (@ + 1) % Period],
                     !.blocks = @ + 1,
                     !.out    = IF near = {} THEN @
                                ELSE Append(@, [number |-> CHOOSE n \in near : TRUE,
                                                phase  |-> c.phase])]

\* live_grdvbt_outer_process_bytes, for a byte: once the output has failed the
\* bytes left are not looked at, and those of the deinterleaver's transient
\* and before the first block are dropped.
Taken(p, byte, stop) ==
  LET c == [p.c EXCEPT !.rows = StepRows(@, p.c.branch, byte), !.branch = NextBranch(@)]
  IN  IF Len(p.out) >= stop THEN [p EXCEPT !.unseen = @ + 1]
      ELSE IF p.drop > 0 THEN [p EXCEPT !.c = c, !.drop = @ - 1]
      ELSE Pushed(p, c, StepOut(p.c.rows[p.c.branch], byte))

\* The cadence after all the bytes, the packets put into FIFO3 and the blocks.
Started(cadence, drop) ==
  [c |-> cadence, drop |-> drop, blocks |-> 0, out |-> <<>>, unseen |-> 0]
Process(cadence, bytes, drop, stop) ==
  LET p[n \in 0 .. Len(bytes)] ==
        IF n = 0 THEN Started(cadence, drop) ELSE Taken(p[n - 1], bytes[n], stop)
  IN  p[Len(bytes)]

\* A new cadence where the search has found one, through all of `bytes'.
Enter(found, bytes, stop) ==
  Process(Cadence(found.phase),
          [i \in 1 .. Len(bytes) - found.deint |-> bytes[found.deint + i]],
          Transient + found.rs, stop)

-----------------------------------------------------------------------------
VARIABLES
  sent,      \* place in the channel of the byte to come
  locked,    \* live_grdvbt_outer.valid
  backlog,   \* pending bytes, kept while there is no cadence
  cadence,   \* deinterleaver, branch, block under construction and its phase
  packets,   \* packets of the last job
  newest,    \* number of the newest packet of all jobs
  \* history, of the cadence in use and the bytes it was found in
  lost,      \* bytes lost
  losses,    \* how many these were, now and at any time before
  spoiled,   \* bytes were received wrong
  blind      \* so were all that tell two places in the period apart

history == <<lost, losses, spoiled, blind>>
streamVars == <<sent, locked, backlog, cadence, packets, newest, history>>

\* What the transmitter's interleaver puts at a place of the channel.
Interleaved(t) == t - (t % Branches) * BlockLen

Received(n, bad) ==
  [i \in 1 .. n |-> IF i = bad THEN Bad ELSE Interleaved(sent + i - 1)]

StreamInit ==
  /\ sent \in Starts
  /\ locked = FALSE /\ backlog = <<>> /\ cadence = Cadence(0)
  /\ packets = <<>> /\ newest = Bad
  /\ lost = 0 /\ losses = {0} /\ spoiled = FALSE /\ blind = FALSE

\* Two of the bytes may be whole blocks apart that were not lost between them.
WholeBlocksLost == \E a, b \in losses : a # b /\ (a - b) % BlockLen = 0

Damaged(bytes) == \E i \in DOMAIN bytes : bytes[i] = Bad

\* Where the search has found a cadence every inverted sync byte came in wrong,
\* and so did all those of another place in the period.
Blind(bytes, found) ==
  LET out == Deinterleaved(bytes, found.deint)
  IN  /\ Damaged(bytes)
      /\ \E other \in 1 .. Period - 1 :
           \A b \in 0 .. Windows(out, found.rs) - 1 :
             LET byte == Window(out, found.rs, b)[1]
             IN  IsSync(byte) => BlockOf(byte) % Period \notin {0, other}

\* The job is through a cadence that had lost `before' already, the last of
\* `totals'.
Delivered(run, before, totals, loss) ==
  /\ cadence' = run.c
  /\ packets' = run.out
  /\ newest' = IF run.out = <<>> THEN newest ELSE run.out[Len(run.out)].number
  /\ lost' = before + run.unseen + loss
  /\ losses' = totals \cup {lost'}

\* live_grdvbt_outer_process without a cadence: not enough bytes, or nothing
\* found in them
Accumulates(bytes, found, loss) ==
  /\ Len(bytes) < MinBacklog \/ ~Acquirable(found, MinRsOk, MinSyncOk, MinSyncOnly)
  /\ backlog' = bytes
  /\ packets' = <<>>
  /\ lost' = lost + loss
  /\ losses' = losses \cup {lost'}
  /\ UNCHANGED <<locked, cadence, newest, spoiled, blind>>

(* The bytes go through once more although they have brought packets.      *)
RealignsAnyway(run, found) == run.blocks > 0 /\ found.clean > 0

\* Its blocks all uncorrectable, the job may be searched for a better cadence
\* (live_grdvbt_outer_realign_current); the tests of the policy are weaker.
AtMost(n, bound) == IF n > bound THEN bound ELSE n
Realigns(run, found) ==
  /\ run.blocks > 0 /\ run.out = <<>>
  /\ found.clean > 0
  /\ Acquirable(found, 1, AtMost(MinSyncOk, Period), AtMost(MinSyncOnly, 4 * Period))
Realigned(received, found, loss, stop) ==
  /\ backlog' = <<>>
  /\ Delivered(Enter(found, received, stop), 0, {0}, loss)
  /\ spoiled' = Damaged(received)
  /\ blind' = Blind(received, found)

\* rbdvbt_outer_recover_ts without a cadence: one is found and gets all the
\* bytes; where none of their blocks is correctable the job is searched too
Acquires(bytes, received, found, loss, stop) ==
  LET run == Enter(found, bytes, stop)
      better == Scan(received)
  IN  /\ Len(bytes) >= MinBacklog
      /\ Acquirable(found, MinRsOk, MinSyncOk, MinSyncOnly)
      /\ locked' = TRUE
      /\ IF Realigns(run, better) THEN Realigned(received, better, loss, stop)
         ELSE /\ backlog' = IF Len(run.out) >= stop THEN bytes ELSE <<>>
              /\ Delivered(run, lost, losses, loss)
              /\ spoiled' = Damaged(bytes)
              /\ blind' = Blind(bytes, found)

\* rbdvbt_outer_recover_ts with a cadence
Decodes(received, loss, stop) ==
  LET run == Process(cadence, received, 0, stop)
      better == Scan(received)
  IN  /\ IF Realigns(run, better) THEN Realigned(received, better, loss, stop)
         ELSE /\ UNCHANGED <<backlog, blind>>
              /\ Delivered(run, lost, losses, loss)
              /\ spoiled' = (spoiled \/ Damaged(received))
      /\ UNCHANGED locked

\* A job of n bytes, after which the inner decoder may lose some.
Job(n, bad) ==
  LET received == Received(n, bad)
      bytes == backlog \o received
      found == Scan(bytes)
  IN  /\ sent + n <= MaxByte
      /\ \E loss \in Losses :
           /\ sent' = sent + n + loss
           /\ \/ ~locked /\ Accumulates(bytes, found, loss)
              \/ \E stop \in Stops : \/ ~locked /\ Acquires(bytes, received, found, loss, stop)
                                     \/ locked /\ Decodes(received, loss, stop)

\* live_grdvbt_outer_reset: a gap, or the cadence is given up (module OuterFec)
StreamReset ==
  /\ locked' = FALSE /\ backlog' = <<>> /\ cadence' = Cadence(0)
  /\ packets' = <<>>
  /\ lost' = 0 /\ losses' = {0} /\ spoiled' = FALSE /\ blind' = FALSE
  /\ UNCHANGED <<sent, newest>>

StreamNext ==
  \/ \E n \in JobSizes, bad \in BadAt : Job(n, bad)
  \/ StreamReset

StreamSpec == StreamInit /\ [][StreamNext]_streamVars

(***************************************************************************)
(* Properties.                                                             *)
(***************************************************************************)
(* RightPackets: every packet is descrambled at its own place in the       *)
(* period, wherever the search began, whatever was lost on the way and     *)
(* whatever came in wrong.  Two exceptions the code has no means to        *)
(* notice: between two of the bytes whole blocks were lost, or so many     *)
(* sync bytes came in wrong where the search looked that none was left to  *)
(* tell the right place in the period from another.                        *)
RightPackets ==
  [][\/ WholeBlocksLost /\ WholeBlocksLost'
     \/ blind'
     \/ \A i \in DOMAIN packets' :
          packets'[i].phase = packets'[i].number % Period]_streamVars

(* OnceInOrder: no block goes into FIFO3 twice or before an older one,     *)
(* though bytes pass the deinterleaver again after a search; and none is   *)
(* left out by a cadence that has had every byte.                          *)
Follows(n, old, complete) == n > old /\ (complete => n = old + 1)

OnceInOrder ==
  [][LET whole == lost' = 0 /\ ~spoiled'
         same == locked /\ lost = 0 /\ ~spoiled /\ newest # Bad
     IN  \A i \in DOMAIN packets' :
           IF i = 1 THEN Follows(packets'[1].number, newest, whole /\ same)
           ELSE Follows(packets'[i].number, packets'[i - 1].number, whole)
    ]_streamVars
=============================================================================
