------------------------------ MODULE OuterFec ------------------------------
(***************************************************************************)
(* The live outer FEC, job by job: when it acquires a cadence, when it     *)
(* looks for a better one and when it gives one up, src/src/dvbt_outer.c.  *)
(* A job is a slice the decode worker hands on, and its outcome the number *)
(* of Reed-Solomon blocks and how many of them could be corrected.         *)
(*                                                                         *)
(* The worker takes a job in four steps, and between any two of them the   *)
(* frontend may reset the outer stream, which no lock guards.              *)
(* No job comes with low pilots: the frontend enqueues chunks from 0.70    *)
(* on and the outer FEC skips those below 0.45.                            *)
(***************************************************************************)
EXTENDS Integers

CONSTANTS
  SoftFailLimit,  \* soft_fail_limit of outer_scan_policy_t
  HardFailLimit,  \* hard_fail_limit
  HardFailBlocks, \* LIVE_GRDVBT_HARD_FAIL_BLOCKS
  MinPending,     \* min_pending_bytes
  Sizes,          \* bytes a job brings
  MaxBlocks,      \* bound: blocks of a job
  MaxPending,     \* bound: bytes pending
  MaxFailures     \* bound: failing allocations and writes

ASSUME OuterFecAssumption ==
  /\ SoftFailLimit \in Nat \ {0} /\ HardFailLimit \in Nat \ {0}
  /\ HardFailBlocks \in Nat \ {0}
  /\ {MinPending, MaxBlocks, MaxPending, MaxFailures} \subseteq Nat
  /\ Sizes \subseteq Nat

VARIABLES
  pc,          \* idle, or the step of the job that comes next
  \* live_grdvbt_outer
  valid, pending, failJobs, hardFailJobs, productiveFailJobs,
  result,      \* the counters of the call: blocks, and those corrected
  invalidated, \* the frontend has reset the stream since the job was taken
  \* history, of the cadence in use
  badRun,      \* degraded jobs in a row
  deadRun,     \* jobs without a good block in a row
  longRun,     \* long such jobs in a row
  failures

counters == <<failJobs, hardFailJobs, productiveFailJobs>>
runs     == <<badRun, deadRun, longRun>>
vars     == <<pc, valid, pending, counters, result, invalidated, runs, failures>>

Results == {r \in [blocks: 0..MaxBlocks, ok: 0..MaxBlocks] : r.ok <= r.blocks}
NoResult == [blocks |-> 0, ok |-> 0]

Init ==
  /\ pc = "idle" /\ valid = FALSE /\ pending = 0
  /\ failJobs = 0 /\ hardFailJobs = 0 /\ productiveFailJobs = 0
  /\ result = NoResult /\ invalidated = FALSE
  /\ badRun = 0 /\ deadRun = 0 /\ longRun = 0 /\ failures = 0

Step(from, to) == pc = from /\ pc' = to

(* What live_grdvbt_outer_reset forgets, but for the pending bytes.         *)
FreshCounters ==
  /\ failJobs' = 0 /\ hardFailJobs' = 0 /\ productiveFailJobs' = 0
  /\ badRun' = 0 /\ deadRun' = 0 /\ longRun' = 0

Reset == valid' = FALSE /\ pending' = 0 /\ FreshCounters

(* rbdvbt_outer_reset_live_stream, called by the frontend.                  *)
FrontendReset ==
  /\ Reset
  /\ invalidated' = (pc # "idle")
  /\ UNCHANGED <<pc, result, failures>>

(* A job is taken; a discontinuous one resets the stream first.             *)
StartJob ==
  /\ Step("idle", "process")
  /\ Reset \/ UNCHANGED <<valid, pending, counters, runs>>
  /\ result' = NoResult
  /\ UNCHANGED <<invalidated, failures>>

(* The call fails: nothing more is done, not even the look at the epoch.    *)
Fail ==
  /\ failures < MaxFailures /\ failures' = failures + 1
  /\ pc' = "idle"
  /\ result' = NoResult /\ invalidated' = FALSE

-----------------------------------------------------------------------------
(* live_grdvbt_outer_process.                                               *)

(* No cadence yet: the bytes are kept, too few of them or without a         *)
(* candidate that is good enough.                                           *)
Accumulate ==
  /\ Step("process", "realign") /\ ~valid
  /\ \E n \in Sizes : pending + n <= MaxPending /\ pending' = pending + n
  /\ UNCHANGED <<valid, counters, result, invalidated, runs, failures>>

(* A cadence is found and all that is pending goes through it.              *)
Acquire ==
  /\ Step("process", "realign") /\ ~valid
  /\ \E n \in Sizes : pending + n >= MinPending
  /\ valid' = TRUE /\ pending' = 0 /\ FreshCounters
  /\ result' \in Results
  /\ UNCHANGED <<invalidated, failures>>

Decode ==
  /\ Step("process", "realign") /\ valid
  /\ result' \in Results
  /\ UNCHANGED <<valid, pending, counters, invalidated, runs, failures>>

(* There is no memory for the bytes or for the deinterleaver, or the sink   *)
(* refuses a packet: then the cadence stays, pending bytes and all.         *)
ProcessFails ==
  /\ pc = "process" /\ Fail
  /\ \/ UNCHANGED <<valid, pending, counters, runs>>
     \/ \E n \in Sizes :
          /\ ~valid /\ pending + n >= MinPending /\ pending + n <= MaxPending
          /\ pending' = pending + n
          /\ valid' \in BOOLEAN /\ FreshCounters

-----------------------------------------------------------------------------
(* live_grdvbt_outer_realign_current: a job without a single good block is  *)
(* searched for a cadence of its own, and decoded again by what is found.   *)

Nonproductive == result.blocks > 0 /\ result.ok = 0

KeepCadence ==
  /\ Step("realign", "judge")
  /\ UNCHANGED <<valid, pending, counters, result, invalidated, runs, failures>>

Realign ==
  /\ Step("realign", "judge") /\ Nonproductive
  /\ valid' = TRUE /\ pending' = 0 /\ FreshCounters
  /\ \E r \in Results :
       /\ r.ok > 0
       /\ result' = [blocks |-> result.blocks + r.blocks, ok |-> r.ok]
  /\ UNCHANGED <<invalidated, failures>>

(* No memory for the deinterleaver, or a packet the sink refuses.           *)
RealignFails ==
  /\ pc = "realign" /\ Nonproductive /\ Fail
  /\ pending' = 0 /\ FreshCounters
  /\ valid' \in BOOLEAN

-----------------------------------------------------------------------------
(* rbdvbt_outer_recover_ts judges the job by its blocks.                    *)

Degraded   == result.blocks > 0 /\ result.blocks - result.ok >= result.ok
Productive == result.ok > 0
HardFail   == result.blocks >= HardFailBlocks /\ ~Productive

JudgeNothing ==
  /\ Step("judge", "recheck") /\ result.blocks = 0
  /\ UNCHANGED <<valid, pending, counters, result, invalidated, runs, failures>>

(* Mutant: a good job leaves the failed ones before it on the count.        *)
JudgeGoodUnforgiving ==
  /\ Step("judge", "recheck") /\ result.blocks > 0 /\ ~Degraded
  /\ hardFailJobs' = 0 /\ productiveFailJobs' = 0
  /\ badRun' = 0 /\ deadRun' = 0 /\ longRun' = 0
  /\ UNCHANGED <<valid, pending, failJobs, result, invalidated, failures>>

JudgeGood ==
  /\ Step("judge", "recheck") /\ result.blocks > 0 /\ ~Degraded
  /\ FreshCounters
  /\ UNCHANGED <<valid, pending, result, invalidated, failures>>

(* Mutant: a degraded job with some good blocks clears the count.           *)
CountedForgiving ==
  [fail |-> IF Productive THEN 0 ELSE failJobs + 1,
   hard |-> IF HardFail THEN hardFailJobs + 1 ELSE 0,
   productive |-> IF Productive THEN productiveFailJobs + 1 ELSE 0]

(* Of degraded jobs with some good blocks the first two are forgiven.       *)
Counted ==
  [fail |-> failJobs + (IF Productive /\ productiveFailJobs < 2 THEN 0 ELSE 1),
   hard |-> IF HardFail THEN hardFailJobs + 1 ELSE 0,
   productive |-> IF Productive THEN productiveFailJobs + 1 ELSE 0]

(* Mutant: only long jobs are held against a cadence.                       *)
MustGiveUpHard ==
  HardFail /\ Counted.hard >= HardFailLimit

MustGiveUp ==
  (HardFail /\ Counted.hard >= HardFailLimit) \/ Counted.fail >= SoftFailLimit

(* A degraded job is counted, and enough of them cost the cadence.          *)
JudgeDegraded ==
  /\ Step("judge", "recheck") /\ Degraded
  /\ IF MustGiveUp THEN Reset
     ELSE /\ failJobs' = Counted.fail
          /\ hardFailJobs' = Counted.hard
          /\ productiveFailJobs' = Counted.productive
          /\ badRun' = badRun + 1
          /\ deadRun' = (IF Productive THEN 0 ELSE deadRun + 1)
          /\ longRun' = (IF HardFail THEN longRun + 1 ELSE 0)
          /\ UNCHANGED <<valid, pending>>
  /\ UNCHANGED <<result, invalidated, failures>>

(* Mutant: what the job has left stays, for the frontend has reset it.      *)
RecheckTrusting ==
  /\ Step("recheck", "idle")
  /\ invalidated' = FALSE /\ result' = NoResult
  /\ UNCHANGED <<valid, pending, counters, runs, failures>>

(* The worker looks at the epoch again and clears what an invalidated job   *)
(* has left.                                                                *)
Recheck ==
  /\ Step("recheck", "idle")
  /\ IF invalidated THEN Reset ELSE UNCHANGED <<valid, pending, counters, runs>>
  /\ invalidated' = FALSE /\ result' = NoResult
  /\ UNCHANGED failures

Next ==
  \/ FrontendReset \/ StartJob
  \/ Accumulate \/ Acquire \/ Decode \/ ProcessFails
  \/ KeepCadence \/ Realign \/ RealignFails
  \/ JudgeNothing \/ JudgeGood \/ JudgeDegraded
  \/ Recheck

Spec == Init /\ [][Next]_vars

-----------------------------------------------------------------------------
(* The variables keep their types.                                          *)
TypeOK ==
  /\ pc \in {"idle", "process", "realign", "judge", "recheck"}
  /\ valid \in BOOLEAN /\ invalidated \in BOOLEAN
  /\ pending \in 0..MaxPending
  /\ failJobs \in 0..(SoftFailLimit - 1) /\ hardFailJobs \in Nat
  /\ productiveFailJobs \in Nat
  /\ result \in [blocks: 0..(2 * MaxBlocks), ok: 0..MaxBlocks]
  /\ result.ok <= result.blocks
  /\ badRun \in Nat /\ deadRun \in Nat /\ longRun \in Nat
  /\ failures \in 0..MaxFailures

(* A cadence that no longer works is given up, however good, half good and  *)
(* dead jobs alternate and whenever the frontend resets the stream: one     *)
(* without any good block after SoftFailLimit jobs, or HardFailLimit long   *)
(* ones, and one that is mostly bad within three times as many.             *)
DeadCadenceGivenUp ==
  /\ deadRun < SoftFailLimit
  /\ longRun < HardFailLimit
  /\ badRun < 3 * SoftFailLimit

(* And only such a one: the job that costs a cadence ends a run of bad jobs *)
(* as long as the limit, without a good one in between.                     *)
OnlyDeadCadenceGivenUp ==
  [][JudgeDegraded /\ valid /\ ~valid' =>
       badRun + 1 >= SoftFailLimit \/ longRun + 1 >= HardFailLimit]_vars

(* Between two jobs without a cadence nothing is held against the next one, *)
(* whatever came between the steps of a job.                                *)
NoCadenceNoFailures ==
  pc = "idle" /\ ~valid => failJobs = 0 /\ hardFailJobs = 0 /\ productiveFailJobs = 0
=============================================================================
