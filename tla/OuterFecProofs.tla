--------------------------- MODULE OuterFecProofs ---------------------------
(***************************************************************************)
(* For every limit and every outcome of the jobs: the outer FEC gives up a *)
(* cadence that no longer works, and no other.  The counters of the code   *)
(* bound the runs of bad jobs; RunsCounted says how.                       *)
(*                                                                         *)
(* For every size of interleaver, block, period and job and for everything *)
(* received (second part): the packets are in order, none comes twice, and *)
(* each is descrambled at its own place.  The argument goes by the stream  *)
(* itself, a function of the place in the channel were nothing lost: what  *)
(* the deinterleaver holds and gives is a delayed piece of it.             *)
(***************************************************************************)
EXTENDS OuterFec, OuterStream, TLAPS, FiniteSetTheorems, WellFoundedInduction

CounterTypes ==
  /\ failJobs \in Nat /\ hardFailJobs \in Nat /\ productiveFailJobs \in Nat
  /\ badRun \in Nat /\ deadRun \in Nat /\ longRun \in Nat

(* The counters have not reached a limit.                                   *)
BelowLimits == failJobs < SoftFailLimit /\ hardFailJobs < HardFailLimit

(* A dead job is always counted, a bad one at least at every third time,    *)
(* and nothing else is.                                                     *)
RunsCounted ==
  /\ deadRun <= failJobs /\ failJobs <= badRun
  /\ longRun = hardFailJobs
  /\ badRun <= 3 * failJobs + 2
  /\ productiveFailJobs < 2 => badRun <= 3 * failJobs + productiveFailJobs

RunInv == CounterTypes /\ BelowLimits /\ RunsCounted

(* The limits are positive.                                                 *)
LEMMA Limits == SoftFailLimit \in Nat \ {0} /\ HardFailLimit \in Nat \ {0}
BY OuterFecAssumption DEF OuterFecAssumption

(* Fresh counters have counted nothing.                                     *)
LEMMA FreshInv == FreshCounters => RunInv'
BY Limits DEF FreshCounters, RunInv, CounterTypes, BelowLimits, RunsCounted

(* Counters that do not change go on counting the same runs.                *)
LEMMA FrameInv == RunInv /\ UNCHANGED <<counters, runs>> => RunInv'
BY DEF RunInv, CounterTypes, BelowLimits, RunsCounted, counters, runs

(* The invariant holds at the start,                                        *)
LEMMA InitInv == Init => RunInv
BY Limits DEF Init, RunInv, CounterTypes, BelowLimits, RunsCounted

(* A degraded job that does not cost the cadence is counted as it should.   *)
LEMMA JudgeInv == RunInv /\ JudgeDegraded => RunInv'
<1> SUFFICES ASSUME RunInv, JudgeDegraded PROVE RunInv'
  OBVIOUS
<1>1. CASE MustGiveUp
  BY <1>1, FreshInv DEF JudgeDegraded, Reset
<1>2. CASE ~MustGiveUp
  <2>1. /\ failJobs' = Counted.fail
        /\ hardFailJobs' = Counted.hard
        /\ productiveFailJobs' = Counted.productive
        /\ badRun' = badRun + 1
        /\ deadRun' = (IF Productive THEN 0 ELSE deadRun + 1)
        /\ longRun' = (IF HardFail THEN longRun + 1 ELSE 0)
    BY <1>2 DEF JudgeDegraded
  <2>2. HardFail => ~Productive
    BY DEF HardFail
  <2>3. Counted.fail < SoftFailLimit /\ Counted.hard < HardFailLimit
    <3>1. Counted.fail < SoftFailLimit
      BY <1>2, Limits DEF MustGiveUp, Counted, RunInv, CounterTypes
    <3>2. CASE HardFail
      BY <1>2, <3>1, <3>2, Limits DEF MustGiveUp, Counted, RunInv, CounterTypes
    <3>3. CASE ~HardFail
      BY <3>1, <3>3, Limits DEF Counted
    <3> QED BY <3>2, <3>3
  <2>4. CASE Productive /\ productiveFailJobs < 2
    BY <2>1, <2>2, <2>3, <2>4
    DEF Counted, RunInv, CounterTypes, BelowLimits, RunsCounted
  <2>5. CASE Productive /\ ~(productiveFailJobs < 2)
    BY <2>1, <2>2, <2>3, <2>5
    DEF Counted, RunInv, CounterTypes, BelowLimits, RunsCounted
  <2>6. CASE ~Productive
    BY <2>1, <2>3, <2>6
    DEF Counted, RunInv, CounterTypes, BelowLimits, RunsCounted
  <2> QED BY <2>4, <2>5, <2>6
<1> QED BY <1>1, <1>2

(* and every step keeps it.                                                 *)
LEMMA StepInv == RunInv /\ [Next]_vars => RunInv'
<1> SUFFICES ASSUME RunInv, [Next]_vars PROVE RunInv'
  OBVIOUS
<1>1. CASE FrontendReset
  BY <1>1, FreshInv DEF FrontendReset, Reset
<1>2. CASE StartJob
  <2>1. CASE Reset
    BY <2>1, FreshInv DEF Reset
  <2>2. CASE UNCHANGED <<valid, pending, counters, runs>>
    BY <2>2, FrameInv
  <2> QED BY <1>2, <2>1, <2>2 DEF StartJob
<1>3. CASE Accumulate
  BY <1>3, FrameInv DEF Accumulate
<1>4. CASE Acquire
  BY <1>4, FreshInv DEF Acquire
<1>5. CASE Decode
  BY <1>5, FrameInv DEF Decode
<1>6. CASE ProcessFails
  <2>1. CASE UNCHANGED <<valid, pending, counters, runs>>
    BY <2>1, FrameInv
  <2>2. CASE FreshCounters
    BY <2>2, FreshInv
  <2> QED BY <1>6, <2>1, <2>2 DEF ProcessFails
<1>7. CASE KeepCadence
  BY <1>7, FrameInv DEF KeepCadence
<1>8. CASE Realign
  BY <1>8, FreshInv DEF Realign
<1>9. CASE RealignFails
  BY <1>9, FreshInv DEF RealignFails
<1>10. CASE JudgeNothing
  BY <1>10, FrameInv DEF JudgeNothing
<1>11. CASE JudgeGood
  BY <1>11, FreshInv DEF JudgeGood
<1>12. CASE JudgeDegraded
  BY <1>12, JudgeInv
<1>13. CASE Recheck
  <2>1. CASE invalidated
    BY <1>13, <2>1, FreshInv DEF Recheck, Reset
  <2>2. CASE ~invalidated
    BY <1>13, <2>2, FrameInv DEF Recheck
  <2> QED BY <2>1, <2>2
<1>14. CASE UNCHANGED vars
  BY <1>14, FrameInv DEF vars
<1> QED
  BY <1>1, <1>2, <1>3, <1>4, <1>5, <1>6, <1>7, <1>8, <1>9, <1>10, <1>11, <1>12, <1>13, <1>14
  DEF Next

(* A cadence that no longer works is given up, for every choice of the      *)
(* limits: the bound of three times the soft limit comes from the two       *)
(* half-good jobs the code forgives after each dead one.                    *)
THEOREM DeadCadencesEnd == Spec => []DeadCadenceGivenUp
<1>1. RunInv => DeadCadenceGivenUp
  BY Limits DEF RunInv, CounterTypes, BelowLimits, RunsCounted, DeadCadenceGivenUp
<1> QED BY <1>1, InitInv, StepInv, PTL DEF Spec

(* No cadence is given up but after a run of bad jobs as long as a limit.   *)
THEOREM GoodCadencesStay == Spec => OnlyDeadCadenceGivenUp
<1>1. RunInv /\ [Next]_vars =>
        [JudgeDegraded /\ valid /\ ~valid' =>
           badRun + 1 >= SoftFailLimit \/ longRun + 1 >= HardFailLimit]_vars
  <2> SUFFICES ASSUME RunInv, JudgeDegraded, valid, ~valid'
               PROVE  badRun + 1 >= SoftFailLimit \/ longRun + 1 >= HardFailLimit
    OBVIOUS
  <2>1. MustGiveUp
    BY DEF JudgeDegraded
  <2>2. CASE Counted.fail >= SoftFailLimit
    BY <2>2, Limits DEF Counted, RunInv, CounterTypes, RunsCounted
  <2>3. CASE HardFail /\ Counted.hard >= HardFailLimit
    BY <2>3, Limits DEF Counted, RunInv, CounterTypes, RunsCounted
  <2> QED BY <2>1, <2>2, <2>3 DEF MustGiveUp
<1> QED BY <1>1, InitInv, StepInv, PTL DEF Spec, OnlyDeadCadenceGivenUp

-----------------------------------------------------------------------------
(* Types.  A job that is realigned counts the blocks of both its attempts,  *)
(* and only a job that has not been realigned may be.                       *)

JobTypes ==
  /\ pc \in {"idle", "process", "realign", "judge", "recheck"}
  /\ pending \in 0 .. MaxPending /\ failures \in 0 .. MaxFailures
  /\ result \in [blocks : 0 .. 2 * MaxBlocks, ok : 0 .. MaxBlocks]
  /\ result.ok <= result.blocks
  /\ pc \in {"process", "realign"} => result.blocks <= MaxBlocks

FlagTypes == valid \in BOOLEAN /\ invalidated \in BOOLEAN

(* What is assumed of the constants.                                        *)
LEMMA Bounds ==
  /\ MaxBlocks \in Nat /\ MaxPending \in Nat /\ MaxFailures \in Nat /\ MinPending \in Nat
  /\ Sizes \subseteq Nat
BY OuterFecAssumption DEF OuterFecAssumption

(* The types of what a job may find.                                        *)
LEMMA ResultTypes ==
  /\ NoResult \in [blocks : 0 .. 2 * MaxBlocks, ok : 0 .. MaxBlocks]
  /\ NoResult.blocks = 0 /\ NoResult.ok = 0
  /\ \A r \in Results : /\ r \in [blocks : 0 .. 2 * MaxBlocks, ok : 0 .. MaxBlocks]
                        /\ r.ok <= r.blocks /\ r.blocks <= MaxBlocks
BY Bounds DEF NoResult, Results

(* The types hold at the start.                                             *)
LEMMA InitJob == Init => JobTypes
BY Bounds, ResultTypes DEF Init, JobTypes

(* So do those of the flags.                                                *)
LEMMA InitFlags == Init => FlagTypes
BY DEF Init, FlagTypes

(* Every step keeps the types of the flags,                                 *)
LEMMA StepFlags == FlagTypes /\ [Next]_vars => FlagTypes'
<1> SUFFICES ASSUME FlagTypes, [Next]_vars PROVE FlagTypes'
  OBVIOUS
<1>1. valid' \in BOOLEAN
  BY DEF FlagTypes, Next, FrontendReset, StartJob, Accumulate, Acquire, Decode, ProcessFails,
         KeepCadence, Realign, RealignFails, JudgeNothing, JudgeGood, JudgeDegraded, Recheck,
         Reset, vars
<1>2. invalidated' \in BOOLEAN
  <2>1. (pc # "idle") \in BOOLEAN
    OBVIOUS
  <2> QED
    BY <2>1
    DEF FlagTypes, Next, FrontendReset, StartJob, Accumulate, Acquire, Decode, ProcessFails,
        KeepCadence, Realign, RealignFails, JudgeNothing, JudgeGood, JudgeDegraded, Recheck,
        Fail, vars
<1> QED
  BY <1>1, <1>2 DEF FlagTypes

(* and those of the job.                                                    *)
LEMMA StepJob == JobTypes /\ [Next]_vars => JobTypes'
<1> SUFFICES ASSUME JobTypes, [Next]_vars PROVE JobTypes'
  OBVIOUS
<1> USE Bounds, ResultTypes DEF Step
<1>1. CASE FrontendReset \/ StartJob
  BY <1>1 DEF FrontendReset, StartJob, Reset, JobTypes
<1>2. CASE Accumulate
  <2>1. pending' \in 0 .. MaxPending
    BY <1>2 DEF Accumulate, JobTypes
  <2> QED
    BY <1>2, <2>1 DEF Accumulate, JobTypes
<1>3. CASE Acquire \/ Decode
  BY <1>3 DEF Acquire, Decode, JobTypes
<1>4. CASE ProcessFails \/ RealignFails
  <2>1. failures' \in 0 .. MaxFailures
    BY <1>4 DEF ProcessFails, RealignFails, Fail, JobTypes
  <2>2. pending' \in 0 .. MaxPending
    BY <1>4 DEF ProcessFails, RealignFails, JobTypes
  <2> QED
    BY <1>4, <2>1, <2>2 DEF ProcessFails, RealignFails, Fail, JobTypes
<1>5. CASE Realign
  <2>1. PICK r \in Results : result' = [blocks |-> result.blocks + r.blocks, ok |-> r.ok]
    BY <1>5 DEF Realign
  <2>2. /\ result.blocks \in Nat /\ result.blocks <= MaxBlocks
        /\ r.blocks \in Nat /\ r.ok \in 0 .. MaxBlocks
    BY <1>5, <2>1 DEF Realign, JobTypes, Results
  <2>3. /\ result' \in [blocks : 0 .. 2 * MaxBlocks, ok : 0 .. MaxBlocks]
        /\ result'.ok <= result'.blocks
    BY <2>1, <2>2
  <2> QED
    BY <1>5, <2>3 DEF Realign, JobTypes
<1>6. CASE KeepCadence \/ JudgeNothing \/ JudgeGood \/ JudgeDegraded
  BY <1>6 DEF KeepCadence, JudgeNothing, JudgeGood, JudgeDegraded, Reset, JobTypes
<1>7. CASE Recheck
  BY <1>7 DEF Recheck, Reset, JobTypes
<1>8. CASE UNCHANGED vars
  BY <1>8 DEF vars, JobTypes
<1> QED
  BY <1>1, <1>2, <1>3, <1>4, <1>5, <1>6, <1>7, <1>8 DEF Next

(* For every choice of the constants the variables keep their types, the    *)
(* count of failed jobs stays below its limit, and no job has more good     *)
(* blocks than blocks, though it may be decoded twice.                      *)
THEOREM OuterTypeCorrect == Spec => []TypeOK
<1>1. RunInv /\ JobTypes /\ FlagTypes => TypeOK
  BY Limits DEF RunInv, CounterTypes, BelowLimits, JobTypes, FlagTypes, TypeOK
<1> QED
  BY <1>1, InitInv, StepInv, InitJob, StepJob, InitFlags, StepFlags, PTL DEF Spec

-----------------------------------------------------------------------------
(* What a job may leave behind without a cadence.  A job only has blocks    *)
(* and no cadence when the frontend has taken the cadence away from it;     *)
(* then what it counts is cleared by its look at the epoch.                 *)

NothingCounted == failJobs = 0 /\ hardFailJobs = 0 /\ productiveFailJobs = 0

CadenceLost ==
  /\ ~valid => NothingCounted \/ (pc = "recheck" /\ invalidated)
  /\ ~valid /\ pc \in {"realign", "judge"} => invalidated \/ result.blocks = 0
  /\ pc = "process" => result.blocks = 0

(* New counters count nothing.                                              *)
LEMMA FreshCountsNothing == FreshCounters => NothingCounted'
BY DEF FreshCounters, NothingCounted

(* The invariant holds at the start,                                        *)
LEMMA InitLost == Init => CadenceLost
BY ResultTypes DEF Init, CadenceLost, NothingCounted

(* and every step keeps it, the frontend's reset between two steps of a job *)
(* included.                                                                *)
LEMMA StepLost == JobTypes /\ CadenceLost /\ [Next]_vars => CadenceLost'
<1> SUFFICES ASSUME JobTypes, CadenceLost, [Next]_vars PROVE CadenceLost'
  OBVIOUS
<1> USE ResultTypes, FreshCountsNothing DEF Step
<1>1. CASE FrontendReset
  <2>1. NothingCounted' /\ pc' = pc /\ result' = result /\ invalidated' = (pc # "idle")
    BY <1>1 DEF FrontendReset, Reset
  <2> QED BY <2>1 DEF CadenceLost
<1>2. CASE StartJob
  <2>1. pc = "idle" /\ pc' = "process" /\ result'.blocks = 0
    BY <1>2 DEF StartJob
  <2>2. CASE Reset
    BY <2>1, <2>2 DEF Reset, CadenceLost
  <2>3. CASE UNCHANGED <<valid, pending, counters, runs>>
    BY <2>1, <2>3 DEF counters, CadenceLost, NothingCounted
  <2> QED BY <1>2, <2>2, <2>3 DEF StartJob
<1>3. CASE Accumulate \/ Decode
  BY <1>3 DEF Accumulate, Decode, counters, CadenceLost, NothingCounted
<1>4. CASE Acquire \/ Realign
  BY <1>4 DEF Acquire, Realign, CadenceLost
<1>5. CASE ProcessFails
  <2>1. pc = "process" /\ pc' = "idle"
    BY <1>5 DEF ProcessFails, Fail
  <2>2. CASE UNCHANGED <<valid, pending, counters, runs>>
    BY <2>1, <2>2 DEF counters, CadenceLost, NothingCounted
  <2>3. CASE FreshCounters
    BY <2>1, <2>3 DEF CadenceLost
  <2> QED BY <1>5, <2>2, <2>3 DEF ProcessFails
<1>6. CASE RealignFails
  BY <1>6 DEF RealignFails, Fail, CadenceLost
<1>7. CASE KeepCadence \/ JudgeNothing
  BY <1>7 DEF KeepCadence, JudgeNothing, counters, CadenceLost, NothingCounted
<1>8. CASE JudgeGood
  BY <1>8 DEF JudgeGood, CadenceLost
<1>9. CASE JudgeDegraded
  <2>1. /\ pc = "judge" /\ pc' = "recheck" /\ result.blocks # 0 /\ result.blocks > 0
        /\ invalidated' = invalidated
    BY <1>9 DEF JudgeDegraded, Degraded, JobTypes
  <2>2. CASE MustGiveUp
    BY <1>9, <2>1, <2>2 DEF JudgeDegraded, Reset, CadenceLost
  <2>3. CASE ~MustGiveUp
    <3>1. valid' = valid
      BY <1>9, <2>3 DEF JudgeDegraded
    <3> QED BY <2>1, <3>1 DEF CadenceLost
  <2> QED BY <2>2, <2>3
<1>10. CASE Recheck
  <2>1. pc' = "idle"
    BY <1>10 DEF Recheck
  <2>2. CASE invalidated
    BY <1>10, <2>1, <2>2 DEF Recheck, Reset, CadenceLost
  <2>3. CASE ~invalidated
    BY <1>10, <2>1, <2>3 DEF Recheck, counters, CadenceLost, NothingCounted
  <2> QED BY <2>2, <2>3
<1>11. CASE UNCHANGED vars
  BY <1>11 DEF vars, counters, CadenceLost, NothingCounted
<1> QED
  BY <1>1, <1>2, <1>3, <1>4, <1>5, <1>6, <1>7, <1>8, <1>9, <1>10, <1>11 DEF Next

(* Between two jobs without a cadence nothing is held against the next one, *)
(* whichever step of a job the frontend's reset falls between.              *)
THEOREM LostCadencesAreForgotten == Spec => []NoCadenceNoFailures
<1>1. CadenceLost => NoCadenceNoFailures
  BY DEF CadenceLost, NothingCounted, NoCadenceNoFailures
<1> QED BY <1>1, InitJob, StepJob, InitLost, StepLost, PTL DEF Spec

(***************************************************************************)
(* Second part: module OuterStream.                                        *)
(***************************************************************************)
(* The sizes of the interleaver and of a block.                             *)
LEMMA BlockSizes ==
  /\ Branches \in Nat /\ Branches > 1 /\ Depth \in Nat /\ Depth > 0
  /\ Period \in Nat /\ Period > 1 /\ Correctable \in Nat /\ Correctable < Depth
  /\ BlockLen \in Nat /\ BlockLen = Branches * Depth
  /\ BlockLen >= Branches /\ BlockLen >= 2 * Depth /\ BlockLen > 1
  /\ Transient \in Nat /\ Transient = (Branches - 1) * BlockLen
<1>1. /\ Branches \in Nat /\ Branches > 1 /\ Depth \in Nat /\ Depth > 0
      /\ Period \in Nat /\ Period > 1 /\ Correctable \in Nat /\ Correctable < Depth
  BY OuterStreamAssumption DEF OuterStreamAssumption
<1>2. BlockLen \in Nat /\ BlockLen = Branches * Depth
  BY <1>1 DEF BlockLen
<1>3. BlockLen >= Branches /\ BlockLen >= 2 * Depth
  <2>1. PICK b \in Nat : Branches = 2 + b
    BY <1>1
  <2>2. PICK d \in Nat : Depth = 1 + d
    BY <1>1
  <2>3. Branches * Depth = 2 * Depth + b * Depth /\ b * Depth >= 0
    BY <2>1, <1>1
  <2>4. Branches * Depth = Branches + Branches * d /\ Branches * d >= 0
    BY <2>2, <1>1
  <2> QED BY <1>1, <1>2, <2>3, <2>4
<1>4. Transient \in Nat /\ Transient = (Branches - 1) * BlockLen
  <2>1. PICK b \in Nat : Branches = 1 + b
    BY <1>1
  <2>2. Transient = b * (Branches * Depth) /\ (Branches - 1) * BlockLen = b * (Branches * Depth)
    BY <1>1, <1>2, <2>1 DEF Transient
  <2>3. b * (Branches * Depth) \in Nat
    BY <1>1, <2>1
  <2> QED BY <2>2, <2>3
<1> QED BY <1>1, <1>2, <1>3, <1>4

(* The same without the products.                                           *)
LEMMA Counts ==
  /\ Branches \in Nat /\ Branches > 1 /\ Depth \in Nat /\ Depth > 0
  /\ Period \in Nat /\ Period > 1 /\ Correctable \in Nat /\ Correctable < Depth
  /\ BlockLen \in Nat /\ BlockLen >= Branches /\ BlockLen >= 2 * Depth /\ BlockLen > 1
  /\ Transient \in Nat
  /\ Branches > 0 /\ BlockLen > 0 /\ Period > 0
BY BlockSizes

(***************************************************************************)
(* Division.                                                               *)
(***************************************************************************)
LEMMA Divide ==
  ASSUME NEW a \in Int, NEW m \in Nat, m > 0
  PROVE  /\ a \div m \in Int /\ a % m \in 0 .. m - 1
         /\ a = m * (a \div m) + (a % m)
OBVIOUS

(* A multiple of m that is smaller than m is nothing.                       *)
LEMMA MultipleSmall ==
  ASSUME NEW m \in Nat, m > 0, NEW k \in Int, m * k < m, m * k > -m
  PROVE  k = 0
<1>1. ASSUME k > 0 PROVE FALSE
  <2>1. PICK d \in Nat : k = 1 + d
    BY <1>1
  <2>2. m * k = m + m * d /\ m * d >= 0
    BY <2>1
  <2> QED BY <2>2
<1>2. ASSUME k < 0 PROVE FALSE
  <2>1. PICK d \in Nat : k = -1 - d
    BY <1>2
  <2>2. m * k = -m - m * d /\ m * d >= 0
    BY <2>1
  <2> QED BY <2>2
<1> QED BY <1>1, <1>2

(* Quotient and remainder are the only ones.                                *)
LEMMA ModUnique ==
  ASSUME NEW m \in Nat, m > 0, NEW q \in Int, NEW r \in 0 .. m - 1
  PROVE  (m * q + r) % m = r /\ (m * q + r) \div m = q
<1> DEFINE a == m * q + r
           p == a \div m
           s == a % m
<1>0. a \in Int
  OBVIOUS
<1>1. p \in Int /\ s \in 0 .. m - 1 /\ a = m * p + s
  BY <1>0, Divide
<1>2. p = q /\ s = r
  <2> HIDE DEF p, s
  <2>1. m * (p - q) = m * p - m * q
    BY <1>1
  <2>2. m * p - m * q = r - s
    BY <1>1
  <2>3. p - q = 0
    BY <2>1, <2>2, <1>1, MultipleSmall
  <2> QED BY <2>3, <2>2, <1>1
<1> QED BY <1>2

(* Whole multiples of m change the quotient only.                           *)
LEMMA ModShift ==
  ASSUME NEW m \in Nat, m > 0, NEW a \in Int, NEW k \in Int
  PROVE  (a + m * k) % m = a % m /\ (a + m * k) \div m = a \div m + k
<1> DEFINE q == a \div m
           r == a % m
<1>1. q \in Int /\ r \in 0 .. m - 1 /\ a = m * q + r
  BY Divide
<1> HIDE DEF q, r
<1>2. a + m * k = m * (q + k) + r
  BY <1>1
<1>3. (m * (q + k) + r) % m = r /\ (m * (q + k) + r) \div m = q + k
  BY <1>1, ModUnique
<1> QED BY <1>2, <1>3 DEF q, r

(* Two numbers with one remainder are multiples apart.                      *)
LEMMA ModSame ==
  ASSUME NEW m \in Nat, m > 0, NEW a \in Int, NEW b \in Int, a % m = b % m
  PROVE  \E k \in Int : a = b + m * k
<1> DEFINE q == a \div m
           p == b \div m
           r == b % m
<1>1. q \in Int /\ p \in Int /\ r \in 0 .. m - 1 /\ a = m * q + r /\ b = m * p + r
  BY Divide
<1> HIDE DEF q, p, r
<1>2. a = b + m * (q - p)
  BY <1>1
<1> QED BY <1>1, <1>2

(* The remainders of sums and differences.                                  *)
LEMMA ModAdd ==
  ASSUME NEW m \in Nat, m > 0, NEW a \in Int, NEW b \in Int, NEW c \in Int, a % m = b % m
  PROVE  /\ (a + c) % m = (b + c) % m
         /\ (a - c) % m = (b - c) % m
<1>1. PICK k \in Int : a = b + m * k
  BY ModSame
<1>2. a + c = (b + c) + m * k /\ a - c = (b - c) + m * k
  BY <1>1
<1>3. ((b + c) + m * k) % m = (b + c) % m
  <2> DEFINE e == b + c
  <2>1. e \in Int
    OBVIOUS
  <2> HIDE DEF e
  <2>2. (e + m * k) % m = e % m
    BY <2>1, ModShift
  <2> QED BY <2>2 DEF e
<1>4. ((b - c) + m * k) % m = (b - c) % m
  <2> DEFINE e == b - c
  <2>1. e \in Int
    OBVIOUS
  <2> HIDE DEF e
  <2>2. (e + m * k) % m = e % m
    BY <2>1, ModShift
  <2> QED BY <2>2 DEF e
<1> QED BY <1>2, <1>3, <1>4

(* A remainder is its own remainder.                                        *)
LEMMA ModSmall ==
  ASSUME NEW m \in Nat, m > 0, NEW r \in 0 .. m - 1
  PROVE  r % m = r /\ r \div m = 0
<1>1. (m * 0 + r) % m = r /\ (m * 0 + r) \div m = 0
  BY ModUnique
<1> QED BY <1>1

(* Whole blocks do not change the branch.                                   *)
LEMMA BlocksAndBranches ==
  ASSUME NEW a \in Int, NEW k \in Int
  PROVE  (a + k * BlockLen) % Branches = a % Branches
<1>1. a + k * BlockLen = a + Branches * (Depth * k)
  BY BlockSizes
<1> DEFINE j == Depth * k
<1>2. j \in Int
  BY BlockSizes
<1> HIDE DEF j
<1>3. (a + Branches * j) % Branches = a % Branches
  BY <1>2, ModShift, Counts, Zenon
<1> QED BY <1>1, <1>3 DEF j

(* Branches count on alike from one remainder.                              *)
LEMMA BranchAdd ==
  ASSUME NEW a \in Int, NEW b \in Int, NEW c \in Int, a % Branches = b % Branches
  PROVE  (a + c) % Branches = (b + c) % Branches
<1>1. PICK k \in Int : a = b + Branches * k
  BY ModSame, Counts, Zenon
<1> DEFINE e == b + c
<1>2. e \in Int /\ a + c = e + Branches * k
  BY <1>1, Counts
<1> HIDE DEF e
<1>3. (e + Branches * k) % Branches = e % Branches
  BY <1>2, ModShift, Counts, Zenon
<1> QED BY <1>2, <1>3 DEF e

(***************************************************************************)
(* The interleaver.  A byte tells by its place when it was sent.           *)
(***************************************************************************)
Time(byte) == byte + (byte % Branches) * BlockLen

(* The receiver's place in the channel is beyond the interleaver's          *)
(* transient: a byte's place is one of the stream's.                        *)
LEMMA SentAt ==
  ASSUME NEW t \in Int, t >= Transient
  PROVE  /\ Interleaved(t) \in Nat /\ Interleaved(t) # Bad
         /\ Time(Interleaved(t)) = t
<1> DEFINE b == t % Branches
           p == t - b * BlockLen
<1>1. b \in 0 .. Branches - 1
  BY BlockSizes, Divide
<1> HIDE DEF b
<1>2. p \in Int /\ p % Branches = b
  <2>1. (t + (0 - b) * BlockLen) % Branches = t % Branches
    BY <1>1, BlocksAndBranches
  <2>2. t + (0 - b) * BlockLen = p
    BY <1>1, BlockSizes
  <2> QED BY <2>1, <2>2, <1>1, BlockSizes DEF b
<1>3. p >= 0
  <2>1. PICK d \in Nat : Branches - 1 = b + d
    BY <1>1, BlockSizes
  <2>2. Transient = b * BlockLen + d * BlockLen /\ d * BlockLen >= 0
    BY <2>1, <1>1, BlockSizes
  <2> QED BY <2>2, <1>1, <1>2, BlockSizes
<1>4. Interleaved(t) = p
  BY DEF Interleaved, b
<1>5. p + b * BlockLen = t
  BY <1>1, BlockSizes
<1> HIDE DEF p
<1> QED BY <1>2, <1>3, <1>4, <1>5 DEF Time, Bad

(* Sync bytes are sent at their place.                                      *)
LEMMA TimeType ==
  ASSUME NEW p \in Int
  PROVE  /\ Time(p) \in Int /\ Time(p) >= p /\ p >= Time(p) - Transient
         /\ Time(p) % Branches = p % Branches
         /\ p % Branches = 0 => Time(p) = p
<1> DEFINE b == p % Branches
<1>1. b \in 0 .. Branches - 1
  BY BlockSizes, Divide
<1>2. (p + b * BlockLen) % Branches = b
  BY <1>1, BlocksAndBranches
<1> HIDE DEF b
<1>3. PICK d \in Nat : Branches - 1 = b + d
  BY <1>1, BlockSizes
<1>4. Transient = b * BlockLen + d * BlockLen /\ d * BlockLen >= 0 /\ b * BlockLen >= 0
  BY <1>3, <1>1, BlockSizes
<1>5. b = 0 => b * BlockLen = 0
  BY BlockSizes
<1>6. b * BlockLen \in Int
  BY <1>1, BlockSizes
<1>7. Time(p) = p + b * BlockLen
  BY DEF Time, b
<1> QED BY <1>1, <1>2, <1>4, <1>5, <1>6, <1>7, BlockSizes DEF b

(***************************************************************************)
(* The deinterleaver.  The stream it is fed is a function x of the place   *)
(* in the channel, were nothing lost; the byte at place v comes in at the  *)
(* branch (v - s) % Branches, for the deinterleaver began at s, and waits  *)
(* there for Delay of it.                                                  *)
(***************************************************************************)
Branch == 0 .. Branches - 1

\* How many bytes of the stream a byte of this branch waits.
Delay(b) == RowLen(b) * Branches

\* What comes out of the deinterleaver begun at s for the byte at t.
Out(x, s, t) == x[t - Delay((t - s) % Branches)]

(* The rows before the byte at w: a row holds the last bytes of its branch. *)
RowsHold(rows, x, s, w) ==
  /\ rows \in [Branch -> Seq(Int)]
  /\ \A b \in Branch : Len(rows[b]) = RowLen(b)
  /\ \A b \in Branch : \A v \in w .. w + Branches - 1 : (v - s) % Branches = b =>
       \A j \in 1 .. RowLen(b) : rows[b][j] = x[v - (RowLen(b) - j + 1) * Branches]

(* A row's length, and how long a byte waits in it.                         *)
LEMMA RowLens ==
  ASSUME NEW b \in Branch
  PROVE  /\ RowLen(b) \in Nat /\ Delay(b) \in Nat /\ Delay(b) <= Transient
         /\ Delay(b) = (Branches - 1 - b) * BlockLen
         /\ Delay(b) = Transient - b * BlockLen
<1> USE DEF Branch
<1>1. PICK d \in Nat : Branches - 1 = b + d
  BY Counts
<1>2. RowLen(b) = d * Depth
  BY <1>1, Counts DEF RowLen
<1>3. d * Depth \in Nat /\ d * BlockLen \in Nat /\ b * BlockLen \in Nat
  BY Counts
<1>4. (d * Depth) * Branches = d * BlockLen
  BY BlockSizes
<1>5. Transient = d * BlockLen + b * BlockLen
  BY <1>1, BlockSizes
<1>6. Branches - 1 - b = d
  BY <1>1, Counts
<1> QED BY <1>2, <1>3, <1>4, <1>5, <1>6 DEF Delay

(* A remainder of Branches is a branch.                                     *)
LEMMA BranchType ==
  ASSUME NEW v \in Int
  PROVE  v % Branches \in Branch
BY Counts, Divide DEF Branch

(* A branch has its next byte Branches bytes later.                         *)
LEMMA BranchOnce ==
  ASSUME NEW v \in Int, NEW w \in Int, NEW s \in Int,
         (v - s) % Branches = (w - s) % Branches, w < v, v <= w + Branches
  PROVE  v = w + Branches
<1>0. v - s \in Int /\ w - s \in Int /\ Branches \in Nat /\ Branches > 0
  BY Counts
<1>1. PICK k \in Int : v - s = w - s + Branches * k
  BY <1>0, ModSame, Zenon
<1>2. Branches * (k - 1) = v - w - Branches
  BY <1>1, <1>0
<1>3. k - 1 = 0
  <2> DEFINE j == k - 1
  <2>1. j \in Int /\ Branches * j < Branches /\ Branches * j > -Branches
    BY <1>2, <1>0
  <2> HIDE DEF j
  <2>2. j = 0
    BY <2>1, <1>0, MultipleSmall, Zenon
  <2> QED BY <2>2 DEF j
<1> QED BY <1>1, <1>3, <1>0

(* outer_deinterleaver_step goes on to the branch of the next byte.         *)
LEMMA BranchNext ==
  ASSUME NEW w \in Int, NEW s \in Int
  PROVE  NextBranch((w - s) % Branches) = (w + 1 - s) % Branches
<1> DEFINE a == (w - s) % Branches
           c == w - s
<1>1. a \in Int /\ c \in Int /\ Branches \in Nat /\ Branches > 0 /\ 1 \in Int
  BY BranchType, Counts DEF Branch
<1>2. a \in 0 .. Branches - 1
  BY BranchType DEF Branch
<1>3. a % Branches = a
  BY <1>1, <1>2, ModSmall, Zenon
<1>4. a % Branches = c % Branches
  BY <1>3
<1> HIDE DEF a, c
<1>5. (a + 1) % Branches = (c + 1) % Branches
  BY <1>1, <1>4, ModAdd, ZenonT(60)
<1>6. c + 1 = w + 1 - s
  BY DEF c
<1> QED BY <1>5, <1>6 DEF NextBranch, a

(* An entry of a row is older than a round of the branches.                 *)
LEMMA Rounds ==
  ASSUME NEW L \in Nat, NEW j \in 1 .. L
  PROVE  (L - j + 1) * Branches \in Int /\ (L - j + 1) * Branches >= Branches
<1> DEFINE d == L - j
<1>1. d \in Nat
  OBVIOUS
<1> HIDE DEF d
<1>2. (d + 1) * Branches = Branches + d * Branches /\ d * Branches \in Nat
  BY <1>1, Counts
<1> QED BY <1>2, Counts DEF d

(* A row is a queue of constant length.                                     *)
LEMMA RowQueue ==
  ASSUME NEW row \in Seq(Int), NEW byte \in Int
  PROVE  /\ StepRow(row, byte) \in Seq(Int) /\ Len(StepRow(row, byte)) = Len(row)
         /\ \A j \in 1 .. Len(row) :
              StepRow(row, byte)[j] = IF j = Len(row) THEN byte ELSE row[j + 1]
         /\ StepOut(row, byte) = IF Len(row) = 0 THEN byte ELSE row[1]
<1>1. CASE row = <<>>
  BY <1>1 DEF StepRow, StepOut
<1>2. CASE row # <<>>
  BY <1>2 DEF StepRow, StepOut
<1> QED BY <1>1, <1>2

(* What comes out for a byte, and the rows left behind.                     *)
LEMMA RowsStep ==
  ASSUME NEW x \in [Int -> Int], NEW s \in Int, NEW w \in Int, NEW rows,
         RowsHold(rows, x, s, w)
  PROVE  /\ RowsHold(StepRows(rows, (w - s) % Branches, x[w]), x, s, w + 1)
         /\ StepOut(rows[(w - s) % Branches], x[w]) = Out(x, s, w)
         /\ x[w] \in Int /\ Out(x, s, w) \in Int
<1> DEFINE b == (w - s) % Branches
           row == rows[b]
           new == StepRow(row, x[w])
           L == RowLen(b)
<1>1. b \in Branch
  BY BranchType
<1> HIDE DEF b
<1>2. L \in Nat /\ row \in Seq(Int) /\ Len(row) = L /\ Branches \in Nat /\ Branches > 0
  BY <1>1, RowLens, Counts DEF RowsHold
<1>3. \A j \in 1 .. L : row[j] = x[w - (L - j + 1) * Branches]
  <2>1. w \in w .. w + Branches - 1
    BY <1>2
  <2> QED BY <2>1, <1>1 DEF RowsHold, b
<1>8. x[w] \in Int /\ Out(x, s, w) \in Int
  <2>1. Delay(b) \in Int
    BY <1>1, RowLens
  <2>2. w - Delay(b) \in Int
    BY <2>1
  <2> QED BY <2>2 DEF Out, b
<1>9. Out(x, s, w) = x[w - L * Branches]
  BY DEF Out, Delay, b
<1>q. /\ new \in Seq(Int) /\ Len(new) = L
      /\ \A j \in 1 .. L : new[j] = IF j = L THEN x[w] ELSE row[j + 1]
      /\ StepOut(row, x[w]) = IF L = 0 THEN x[w] ELSE row[1]
  <2> DEFINE byte == x[w]
  <2>1. byte \in Int
    BY <1>8
  <2> HIDE DEF byte, row, L
  <2>2. /\ StepRow(row, byte) \in Seq(Int) /\ Len(StepRow(row, byte)) = L
        /\ \A j \in 1 .. L : StepRow(row, byte)[j] = IF j = L THEN byte ELSE row[j + 1]
        /\ StepOut(row, byte) = IF L = 0 THEN byte ELSE row[1]
    <3>1. row \in Seq(Int) /\ Len(row) = L
      BY <1>2
    <3> QED BY <2>1, <3>1, RowQueue, ZenonT(60)
  <2> QED BY <2>2 DEF byte
<1> HIDE DEF row, L, new
<1>4. StepOut(row, x[w]) = Out(x, s, w)
  <2>2. CASE L = 0
    <3>1. w - L * Branches = w
      BY <2>2, <1>2
    <3> QED BY <3>1, <2>2, <1>9, <1>q
  <2>3. CASE L > 0
    <3>2. row[1] = x[w - (L - 1 + 1) * Branches] /\ L - 1 + 1 = L
      BY <2>3, <1>2, <1>3
    <3>3. row[1] = x[w - L * Branches]
      BY <3>2, Zenon
    <3> QED BY <3>3, <2>3, <1>9, <1>q
  <2> QED BY <2>2, <2>3, <1>2
<1>6. \A j \in 1 .. L : new[j] = x[w + Branches - (L - j + 1) * Branches]
  <2> SUFFICES ASSUME NEW j \in 1 .. L
               PROVE  new[j] = x[w + Branches - (L - j + 1) * Branches]
    OBVIOUS
  <2>3. CASE j = L
    <3>1. w + Branches - (L - j + 1) * Branches = w
      BY <2>3, <1>2
    <3> QED BY <3>1, <2>3, <1>q
  <2>4. CASE j < L
    <3>3. row[j + 1] = x[w - (L - (j + 1) + 1) * Branches]
      BY <2>4, <1>3, <1>2
    <3>4. (L - (j + 1) + 1) * Branches = (L - j + 1) * Branches - Branches
      BY <1>2
    <3> QED BY <3>3, <3>4, <2>4, <1>q, <1>2
  <2> QED BY <2>3, <2>4, <1>2
<1>7. RowsHold(StepRows(rows, b, x[w]), x, s, w + 1)
  <2> DEFINE next == StepRows(rows, b, x[w])
  <2>1. next = [rows EXCEPT ![b] = new]
    BY DEF StepRows, new, row
  <2>2. rows \in [Branch -> Seq(Int)]
    BY DEF RowsHold
  <2>3. next[b] = new /\ \A c \in Branch : c # b => next[c] = rows[c]
    BY <2>1, <2>2, <1>1
  <2> HIDE DEF next
  <2>4. next \in [Branch -> Seq(Int)]
    BY <2>1, <2>2, <1>1, <1>q
  <2>5. \A c \in Branch : Len(next[c]) = RowLen(c)
    BY <2>3, <1>q DEF RowsHold, L
  <2>6. ASSUME NEW c \in Branch, NEW v \in w + 1 .. w + 1 + Branches - 1,
               (v - s) % Branches = c, NEW j \in 1 .. RowLen(c)
        PROVE  next[c][j] = x[v - (RowLen(c) - j + 1) * Branches]
    <3>1. CASE c = b
      <4>1. v = w + Branches
        <5>1. v \in Int /\ w < v /\ v <= w + Branches /\ (v - s) % Branches = (w - s) % Branches
          BY <2>6, <3>1, <1>2 DEF b
        <5> QED BY <5>1, BranchOnce
      <4>2. j \in 1 .. L /\ L = RowLen(c) /\ next[c] = new
        BY <3>1, <2>3, <2>6 DEF L
      <4>3. new[j] = x[w + Branches - (L - j + 1) * Branches]
        BY <4>2, <1>6
      <4>4. v - (RowLen(c) - j + 1) * Branches = w + Branches - (L - j + 1) * Branches
        <5>1. (RowLen(c) - j + 1) * Branches = (L - j + 1) * Branches
          BY <4>2, Zenon
        <5>2. (L - j + 1) * Branches \in Int
          BY <4>2, <1>2
        <5> QED BY <5>1, <5>2, <4>1, <1>2
      <4> QED BY <4>2, <4>3, <4>4, Zenon
    <3>2. CASE c # b
      <4>1. v # w + Branches
        <5>1. (w + Branches - s) % Branches = (w - s) % Branches
          <6> DEFINE d == w - s
          <6>1. d \in Int /\ 1 \in Int
            OBVIOUS
          <6> HIDE DEF d
          <6>2. (d + Branches * 1) % Branches = d % Branches
            BY <6>1, <1>2, ModShift, Zenon
          <6>3. d + Branches * 1 = w + Branches - s
            BY <1>2 DEF d
          <6> QED BY <6>2, <6>3 DEF d
        <5> HIDE DEF b
        <5>2. (w - s) % Branches = b
          BY DEF b
        <5>3. ASSUME v = w + Branches PROVE FALSE
          <6>1. (v - s) % Branches = (w + Branches - s) % Branches
            <7>1. v - s = w + Branches - s
              BY <5>3, <1>2
            <7> QED BY <7>1, Zenon
          <6> QED BY <6>1, <5>1, <5>2, <3>2, <2>6, Zenon
        <5> QED BY <5>3
      <4>2. v \in w .. w + Branches - 1 /\ v \in Int
        BY <4>1, <2>6, <1>2
      <4> QED BY <4>2, <2>3, <2>6, <3>2 DEF RowsHold
    <3> QED BY <3>1, <3>2
  <2> QED BY <2>4, <2>5, <2>6 DEF RowsHold, next
<1> QED BY <1>4, <1>7, <1>8 DEF b, row

(* Fresh rows hold what came before the first byte.                         *)
LEMMA RowsFresh ==
  ASSUME NEW x \in [Int -> Int], NEW s \in Int, \A v \in Int : v < s => x[v] = Bad
  PROVE  RowsHold(FreshRows, x, s, s)
<1>0. \A b \in Branch : /\ FreshRows[b] = [k \in 1 .. RowLen(b) |-> Bad]
                       /\ FreshRows[b] \in Seq(Int) /\ Len(FreshRows[b]) = RowLen(b)
  <2> SUFFICES ASSUME NEW b \in Branch
               PROVE  /\ FreshRows[b] = [k \in 1 .. RowLen(b) |-> Bad]
                      /\ FreshRows[b] \in Seq(Int) /\ Len(FreshRows[b]) = RowLen(b)
    OBVIOUS
  <2>1. FreshRows[b] = [k \in 1 .. RowLen(b) |-> Bad]
    BY DEF FreshRows, Branch
  <2>2. RowLen(b) \in Nat /\ Bad \in Int
    BY RowLens DEF Bad
  <2> QED BY <2>1, <2>2, SMTT(60)
<1>1. FreshRows \in [Branch -> Seq(Int)]
  BY <1>0 DEF FreshRows, Branch
<1>2. \A b \in Branch : Len(FreshRows[b]) = RowLen(b)
  BY <1>0
<1>3. ASSUME NEW b \in Branch, NEW v \in s .. s + Branches - 1, NEW j \in 1 .. RowLen(b)
      PROVE  FreshRows[b][j] = x[v - (RowLen(b) - j + 1) * Branches]
  <2>1. FreshRows[b][j] = Bad
    BY <1>0
  <2>2. RowLen(b) \in Nat /\ Branches \in Nat /\ Branches > 0
    BY RowLens, Counts
  <2>4. (RowLen(b) - j + 1) * Branches \in Int /\ (RowLen(b) - j + 1) * Branches >= Branches
    BY <2>2, Rounds
  <2>5. v - (RowLen(b) - j + 1) * Branches \in Int
        /\ v - (RowLen(b) - j + 1) * Branches < s
    BY <2>2, <2>4
  <2> QED BY <2>1, <2>5
<1> QED BY <1>1, <1>2, <1>3 DEF RowsHold

(* What is still to come does not matter.                                   *)
LEMMA RowsAgree ==
  ASSUME NEW x \in [Int -> Int], NEW y \in [Int -> Int], NEW s \in Int, NEW w \in Int, NEW rows,
         \A v \in Int : v < w => y[v] = x[v], RowsHold(rows, x, s, w)
  PROVE  RowsHold(rows, y, s, w)
<1>1. ASSUME NEW b \in Branch, NEW v \in w .. w + Branches - 1,
             (v - s) % Branches = b, NEW j \in 1 .. RowLen(b)
      PROVE  rows[b][j] = y[v - (RowLen(b) - j + 1) * Branches]
  <2>2. RowLen(b) \in Nat /\ Branches \in Nat /\ Branches > 0
    BY RowLens, Counts
  <2>4. (RowLen(b) - j + 1) * Branches \in Int /\ (RowLen(b) - j + 1) * Branches >= Branches
    BY <2>2, Rounds
  <2>5. v - (RowLen(b) - j + 1) * Branches \in Int
        /\ v - (RowLen(b) - j + 1) * Branches < w
    BY <2>2, <2>4
  <2>6. rows[b][j] = x[v - (RowLen(b) - j + 1) * Branches]
    BY <1>1 DEF RowsHold
  <2> QED BY <2>5, <2>6
<1> QED BY <1>1 DEF RowsHold

(* What comes out depends on what has come in by then only.                 *)
LEMMA OutAgree ==
  ASSUME NEW x \in [Int -> Int], NEW y \in [Int -> Int], NEW s \in Int, NEW v \in Int,
         \A u \in Int : u <= v => y[u] = x[u]
  PROVE  Out(y, s, v) = Out(x, s, v)
BY BranchType, RowLens DEF Out

(***************************************************************************)
(* Induction, for the recursive functions of the model: by the least       *)
(* number for which a claim fails, which the library has for sets.         *)
(***************************************************************************)
Less == {ss \in Nat \X Nat : ss[1] < ss[2]}

(* A set of numbers that has a member has a least one.                      *)
LEMMA LeastNumber ==
  ASSUME NEW S \in SUBSET Nat, S # {}
  PROVE  \E m \in S : \A k \in S : m <= k
<1>1. IsWellFoundedOn(Less, Nat)
  BY NatLessThanWellFounded DEF OpToRel, Less
<1>2. PICK m \in S : \A k \in S : ~(<<k, m>> \in Less)
  BY <1>1, WFMin, Zenon
<1>3. \A k \in Nat : k < m => <<k, m>> \in Less
  BY DEF Less
<1>4. \A k \in S : ~(k < m)
  BY <1>2, <1>3, Zenon
<1> QED BY <1>4

(* What holds of 0 and, with a number, of the next one holds up to N.       *)
LEMMA Upwards ==
  ASSUME NEW N \in Nat, NEW S, 0 \in S, \A n \in 0 .. N - 1 : n \in S => n + 1 \in S
  PROVE  \A n \in 0 .. N : n \in S
<1> DEFINE T == {n \in 0 .. N : n \notin S}
<1> SUFFICES ASSUME T # {} PROVE FALSE
  OBVIOUS
<1>1. PICK m \in T : \A k \in T : m <= k
  <2>1. T \in SUBSET Nat
    OBVIOUS
  <2> HIDE DEF T
  <2> QED BY <2>1, LeastNumber
<1>2. m # 0 /\ m \in 0 .. N /\ m \notin S
  BY <1>1
<1>3. m - 1 \in 0 .. N - 1 /\ m - 1 + 1 = m /\ m - 1 \in 0 .. N
  BY <1>2
<1>4. m - 1 \notin T
  BY <1>1, <1>3
<1>5. m - 1 \in S
  BY <1>3, <1>4
<1> QED BY <1>2, <1>3, <1>5

(* The two loops over bytes can be carried out, for any number of them.     *)
Deint(bytes, phase, k, f) ==
  f = [n \in 0 .. k |->
        IF n = 0 THEN DeinterleaverInit ELSE DeinterleaverStep(f[n - 1], bytes[phase + n])]

(* outer_deinterleave_phase's loop has a value for any number of bytes.     *)
LEMMA DeintExists ==
  ASSUME NEW bytes, NEW phase
  PROVE  \A k \in Nat : \E f : Deint(bytes, phase, k, f)
<1> DEFINE S == {k \in Nat : \E f : Deint(bytes, phase, k, f)}
<1>1. 0 \in S
  <2>1. Deint(bytes, phase, 0, [n \in 0 .. 0 |-> DeinterleaverInit])
    BY DEF Deint
  <2> QED BY <2>1
<1>2. ASSUME NEW k \in Nat, k \in S PROVE k + 1 \in S
  <2>1. PICK f : Deint(bytes, phase, k, f)
    BY <1>2
  <2> DEFINE new == DeinterleaverStep(f[k], bytes[phase + (k + 1)])
             g == [n \in 0 .. k + 1 |-> IF n = k + 1 THEN new ELSE f[n]]
  <2>2. \A n \in 0 .. k : g[n] = f[n]
    OBVIOUS
  <2>3. \A n \in 0 .. k + 1 :
          g[n] = IF n = 0 THEN DeinterleaverInit
                 ELSE DeinterleaverStep(g[n - 1], bytes[phase + n])
    <3> TAKE n \in 0 .. k + 1
    <3>1. CASE n = k + 1
      <4>1. n # 0 /\ n - 1 = k /\ k \in 0 .. k /\ g[n] = new
        BY <3>1
      <4>2. g[n - 1] = f[k]
        BY <4>1, <2>2
      <4> HIDE DEF g
      <4> QED BY <3>1, <4>1, <4>2
    <3>2. CASE n # k + 1
      <4>1. n \in 0 .. k /\ (n # 0 => n - 1 \in 0 .. k)
        BY <3>2
      <4>2. f[n] = IF n = 0 THEN DeinterleaverInit
                   ELSE DeinterleaverStep(f[n - 1], bytes[phase + n])
        BY <2>1, <4>1 DEF Deint
      <4> HIDE DEF g
      <4> QED BY <4>1, <4>2, <2>2
    <3> QED BY <3>1, <3>2
  <2>4. Deint(bytes, phase, k + 1, g)
    BY <2>3 DEF Deint
  <2> QED BY <2>4
<1>3. ASSUME NEW k \in Nat PROVE k \in S
  <2>1. \A n \in 0 .. k - 1 : n \in S => n + 1 \in S
    BY <1>2
  <2> HIDE DEF S
  <2>2. \A n \in 0 .. k : n \in S
    BY <1>1, <2>1, Upwards
  <2> QED BY <2>2
<1> QED BY <1>3

(* A sequence with an element appended.                                     *)
LEMMA Appended ==
  ASSUME NEW T, NEW q \in Seq(T), NEW e \in T
  PROVE  /\ Append(q, e) \in Seq(T) /\ Len(Append(q, e)) = Len(q) + 1
         /\ Append(q, e)[Len(q) + 1] = e
         /\ \A k \in 1 .. Len(q) : Append(q, e)[k] = q[k]
OBVIOUS

(* The deinterleaver gives back for each byte the one it has delayed it to. *)
LEMMA DeinterleavedIs ==
  ASSUME NEW bytes \in Seq(Int), NEW phase \in Nat, phase < Len(bytes),
         NEW x \in [Int -> Int], NEW s \in Int,
         \A v \in Int : v < s => x[v] = Bad,
         \A n \in 1 .. Len(bytes) - phase : x[s + n - 1] = bytes[phase + n]
  PROVE  /\ Deinterleaved(bytes, phase) \in Seq(Int)
         /\ Len(Deinterleaved(bytes, phase)) = Len(bytes) - phase
         /\ \A k \in 1 .. Len(bytes) - phase :
              Deinterleaved(bytes, phase)[k] = Out(x, s, s + k - 1)
<1> DEFINE N == Len(bytes) - phase
<1>0. N \in Nat
  OBVIOUS
<1>1. PICK f : f = [n \in 0 .. N |->
        IF n = 0 THEN DeinterleaverInit ELSE DeinterleaverStep(f[n - 1], bytes[phase + n])]
             /\ Deinterleaved(bytes, phase) = f[N].out
  <2> HIDE DEF N
  <2>1. \E f : Deint(bytes, phase, N, f)
    BY <1>0, DeintExists
  <2>2. \E f : f = [n \in 0 .. N |->
           IF n = 0 THEN DeinterleaverInit ELSE DeinterleaverStep(f[n - 1], bytes[phase + n])]
    BY <2>1 DEF Deint
  <2> QED BY <2>2 DEF Deinterleaved, N
<1> HIDE DEF N
<1>3. /\ f[0] = DeinterleaverInit
      /\ \A n \in 1 .. N : f[n] = DeinterleaverStep(f[n - 1], bytes[phase + n])
  <2>1. \A n \in 0 .. N : f[n] = IF n = 0 THEN DeinterleaverInit
                                 ELSE DeinterleaverStep(f[n - 1], bytes[phase + n])
    BY <1>1, Zenon
  <2>2. 0 \in 0 .. N /\ \A n \in 1 .. N : n \in 0 .. N /\ n # 0
    BY <1>0
  <2> QED BY <2>1, <2>2, Zenon
<1>n. \A n \in 1 .. N : x[s + n - 1] = bytes[phase + n]
  BY DEF N
<1> DEFINE Ok(n) == /\ RowsHold(f[n].rows, x, s, s + n)
                    /\ f[n].branch = (s + n - s) % Branches
                    /\ f[n].out \in Seq(Int) /\ Len(f[n].out) = n
                    /\ \A k \in 1 .. n : f[n].out[k] = Out(x, s, s + k - 1)
           S == {n \in 0 .. N : Ok(n)}
<1>4. 0 \in S
  <2>1. f[0].rows = FreshRows /\ f[0].branch = 0 /\ f[0].out = <<>>
    BY <1>3 DEF DeinterleaverInit
  <2>2. s + 0 = s /\ s + 0 - s = 0 /\ 0 % Branches = 0
    <3>1. 0 \in 0 .. Branches - 1
      BY Counts
    <3>2. 0 % Branches = 0
      BY <3>1, Counts, ModSmall, Zenon
    <3> QED BY <3>2
  <2>3. RowsHold(FreshRows, x, s, s)
    BY RowsFresh
  <2>4. Ok(0)
    <3>1. RowsHold(f[0].rows, x, s, s + 0)
      BY <2>1, <2>2, <2>3
    <3>2. f[0].branch = (s + 0 - s) % Branches
      BY <2>1, <2>2
    <3>3. f[0].out \in Seq(Int) /\ Len(f[0].out) = 0
          /\ \A k \in 1 .. 0 : f[0].out[k] = Out(x, s, s + k - 1)
      BY <2>1
    <3> QED BY <3>1, <3>2, <3>3
  <2> HIDE DEF Ok
  <2> QED BY <1>0, <2>4
<1>5. ASSUME NEW n \in 0 .. N - 1, n \in S PROVE n + 1 \in S
  <2> DEFINE w == s + n
             d == f[n]
  <2>1. w \in Int /\ n + 1 \in 1 .. N /\ w + 1 = s + (n + 1)
    BY <1>0
  <2>2. x[w] = bytes[phase + (n + 1)]
    <3>1. s + (n + 1) - 1 = w
      OBVIOUS
    <3> QED BY <3>1, <2>1, <1>n, Zenon
  <2>3. f[n + 1] = DeinterleaverStep(d, x[w])
    <3>1. n + 1 - 1 = n
      OBVIOUS
    <3> QED BY <3>1, <2>1, <2>2, <1>3
  <2>4. /\ RowsHold(d.rows, x, s, w) /\ d.branch = (w - s) % Branches
        /\ d.out \in Seq(Int) /\ Len(d.out) = n
        /\ \A k \in 1 .. n : d.out[k] = Out(x, s, s + k - 1)
    <3>1. Ok(n)
      BY <1>5
    <3> QED BY <3>1
  <2> DEFINE o == Out(x, s, w)
             a == Append(d.out, o)
  <2> HIDE DEF d, w
  <2>5. /\ RowsHold(StepRows(d.rows, d.branch, x[w]), x, s, w + 1)
        /\ StepOut(d.rows[d.branch], x[w]) = Out(x, s, w)
        /\ Out(x, s, w) \in Int
    <3>1. \A r : RowsHold(r, x, s, w) => /\ RowsHold(StepRows(r, (w - s) % Branches, x[w]), x, s, w + 1)
              /\ StepOut(r[(w - s) % Branches], x[w]) = Out(x, s, w) /\ Out(x, s, w) \in Int
      BY <2>1, RowsStep
    <3> QED BY <3>1, <2>4, Zenon
  <2>6. NextBranch(d.branch) = (w + 1 - s) % Branches
    BY <2>1, <2>4, BranchNext
  <2>7. /\ f[n + 1].rows = StepRows(d.rows, d.branch, x[w])
        /\ f[n + 1].branch = NextBranch(d.branch)
        /\ f[n + 1].out = a
    <3>1. f[n + 1] = [rows   |-> StepRows(d.rows, d.branch, x[w]),
                      branch |-> NextBranch(d.branch),
                      out    |-> a]
      BY <2>3, <2>5, Zenon DEF DeinterleaverStep
    <3> HIDE DEF a
    <3> QED BY <3>1
  <2> HIDE DEF o
  <2>n. n \in Nat /\ o \in Int
    BY <2>5, <1>0 DEF o
  <2>m. a \in Seq(Int) /\ Len(a) = n + 1 /\ a[n + 1] = o /\ \A k \in 1 .. n : a[k] = d.out[k]
    <3>1. d.out \in Seq(Int) /\ o \in Int /\ Len(d.out) = n
      BY <2>4, <2>n
    <3> DEFINE q == d.out
    <3>0. q \in Seq(Int) /\ Len(q) = n /\ o \in Int
      BY <3>1
    <3> HIDE DEF q
    <3>2. a = Append(q, o)
      BY DEF q
    <3>3. /\ Append(q, o) \in Seq(Int) /\ Len(Append(q, o)) = Len(q) + 1
          /\ Append(q, o)[Len(q) + 1] = o
          /\ \A k \in 1 .. Len(q) : Append(q, o)[k] = q[k]
      <4>1. \A r \in Seq(Int), i \in Int :
              /\ Append(r, i) \in Seq(Int) /\ Len(Append(r, i)) = Len(r) + 1
              /\ Append(r, i)[Len(r) + 1] = i
              /\ \A k \in 1 .. Len(r) : Append(r, i)[k] = r[k]
        BY Appended
      <4> QED BY <3>0, <4>1, Zenon
    <3>4. a \in Seq(Int) /\ Len(a) = n + 1 /\ a[n + 1] = o /\ \A k \in 1 .. n : a[k] = q[k]
      BY <3>0, <3>2, <3>3
    <3> QED BY <3>4 DEF q
  <2> HIDE DEF a
  <2>8. \A k \in 1 .. n + 1 : a[k] = Out(x, s, s + k - 1)
    <3> TAKE k \in 1 .. n + 1
    <3>1. CASE k = n + 1
      <4>1. s + k - 1 = w
        BY <3>1 DEF w
      <4>2. a[k] = o
        BY <3>1, <2>m
      <4> QED BY <4>1, <4>2 DEF o
    <3>2. CASE k # n + 1
      <4>0. k \in 1 .. n
        BY <3>2, <2>n
      <4>1. a[k] = d.out[k]
        BY <4>0, <2>m
      <4> QED BY <4>0, <4>1, <2>4
    <3> QED BY <3>1, <3>2
  <2>9. a \in Seq(Int) /\ Len(a) = n + 1
    BY <2>m
  <2>10. w + 1 = s + (n + 1) /\ w + 1 - s = s + (n + 1) - s
    BY <2>1
  <2>11. Ok(n + 1)
    <3> QED BY <2>5, <2>6, <2>7, <2>8, <2>9, <2>10, Zenon
  <2> HIDE DEF Ok
  <2> QED BY <2>11, <2>1
<1>6. \A n \in 0 .. N : n \in S
  <2> HIDE DEF S, N
  <2> QED BY <1>0, <1>4, <1>5, Upwards
<1>7. Ok(N)
  <2>1. N \in S
    <3> HIDE DEF S
    <3>1. N \in 0 .. N
      BY <1>0
    <3> QED BY <3>1, <1>6, Zenon
  <2> QED BY <2>1
<1>8. Deinterleaved(bytes, phase) = f[N].out
  BY <1>1
<1> HIDE DEF Ok
<1> QED BY <1>7, <1>8 DEF N, Ok

(***************************************************************************)
(* A stream as it was sent: every byte but the bad ones tells how many     *)
(* were lost before it, one of `totals' and never fewer than before.       *)
(***************************************************************************)
LostBefore(x, v) == Time(x[v]) - v

\* The stream before w as it was sent.
SentBefore(x, w, totals) ==
  /\ \A v \in Int : v < w /\ x[v] # Bad => x[v] \in Nat /\ LostBefore(x, v) \in totals
  /\ \A u, v \in Int : u < v /\ v < w /\ x[u] # Bad /\ x[v] # Bad =>
       LostBefore(x, u) <= LostBefore(x, v)

\* The block whose first byte comes out when the byte at v goes in.
BlockAt(x, s, v) == [i \in 1 .. BlockLen |-> Out(x, s, v + i - 1)]

(* A block near enough to the n-th has a byte of it at each branch: a       *)
(* branch has Depth bytes of a block, and not as many may be wrong.         *)
LEMMA MatchAtBranch ==
  ASSUME NEW block, NEW n \in Int, Misplaced(block, n) <= Correctable, NEW b \in Branch
  PROVE  \E i \in 1 .. BlockLen : (i - 1) % Branches = b /\ block[i] = n * BlockLen + i - 1
<1> DEFINE M == {i \in 1 .. BlockLen : block[i] # n * BlockLen + i - 1}
           f == [m \in 0 .. Depth - 1 |-> b + 1 + Branches * m]
<1>0. /\ Branches \in Nat /\ Branches > 0 /\ Depth \in Nat /\ Depth > 0 /\ BlockLen \in Nat
      /\ Correctable \in Nat /\ Correctable < Depth /\ b \in 0 .. Branches - 1
  BY Counts DEF Branch
<1> SUFFICES ASSUME \A i \in 1 .. BlockLen :
                      (i - 1) % Branches = b => block[i] # n * BlockLen + i - 1
             PROVE  FALSE
  OBVIOUS
<1>1. ASSUME NEW m \in 0 .. Depth - 1 PROVE f[m] \in M
  <2> DEFINE i == b + 1 + Branches * m
  <2>1. PICK d \in Nat : Depth - 1 = m + d
    BY <1>0
  <2>2. BlockLen = Branches * m + Branches * d + Branches /\ Branches * m >= 0 /\ Branches * d >= 0
        /\ Branches * m \in Int
    BY <2>1, <1>0, BlockSizes
  <2>3. i \in 1 .. BlockLen
    BY <2>2, <1>0
  <2>4. i - 1 = Branches * m + b
    BY <2>2, <1>0
  <2>5. (Branches * m + b) % Branches = b
    <3>1. m \in Int
      OBVIOUS
    <3> QED BY <3>1, <1>0, ModUnique, Zenon
  <2> HIDE DEF i
  <2>6. i \in M
    BY <2>3, <2>4, <2>5
  <2> QED BY <2>6 DEF i
<1>2. f \in Injection(0 .. Depth - 1, M)
  <2>1. f \in [0 .. Depth - 1 -> M]
    BY <1>1
  <2>2. ASSUME NEW m \in 0 .. Depth - 1, NEW k \in 0 .. Depth - 1, f[m] = f[k] PROVE m = k
    <3>1. Branches * m \in Int /\ Branches * k \in Int
      BY <1>0
    <3>2. Branches * m = Branches * k
      BY <2>2, <3>1, <1>0
    <3>3. Branches * (m - k) = 0
      BY <3>2, <1>0
    <3> DEFINE j == m - k
    <3>4. j \in Int /\ Branches * j < Branches /\ Branches * j > -Branches
      BY <3>3, <1>0
    <3> HIDE DEF j
    <3>5. j = 0
      BY <3>4, <1>0, MultipleSmall, Zenon
    <3> QED BY <3>5 DEF j
  <2> HIDE DEF f, M
  <2>3. f \in Injection(0 .. Depth - 1, M)
    BY <2>1, <2>2 DEF Injection, IsInjective
  <2> QED BY <2>3
<1>3. IsFiniteSet(M)
  <2>1. IsFiniteSet(1 .. BlockLen)
    BY FS_Interval, <1>0
  <2> QED BY <2>1, FS_Subset
<1>4. Cardinality(0 .. Depth - 1) = Depth
  BY FS_Interval, <1>0
<1>5. Cardinality(0 .. Depth - 1) <= Cardinality(M) /\ Cardinality(M) \in Nat
  <2> HIDE DEF f, M
  <2> QED BY <1>2, <1>3, FS_Injection, FS_CardinalityType
<1>6. Cardinality(M) <= Correctable
  BY DEF Misplaced
<1> HIDE DEF M
<1> QED BY <1>0, <1>4, <1>5, <1>6

(* A block can be corrected only if the deinterleaver began at a byte of    *)
(* the first branch: otherwise it holds bytes from Branches blocks apart,   *)
(* which no loss explains, for a loss only delays what comes later.  And    *)
(* the block's number tells how many bytes were lost before it.             *)
LEMMA NumberTells ==
  ASSUME NEW x \in [Int -> Int], NEW s \in Int, NEW v \in Int, NEW w \in Int, NEW totals,
         SentBefore(x, w, totals), v + BlockLen <= w,
         NEW n \in Near(BlockAt(x, s, v))
  PROVE  /\ (v - s) % Branches = 0 /\ n \in Nat
         /\ \E u \in Int : /\ v - Transient <= u /\ u < v + BlockLen - Transient
                           /\ x[u] # Bad
                           /\ LostBefore(x, u) = (n + Branches) * BlockLen - (v + BlockLen)
<1> DEFINE block == BlockAt(x, s, v)
           e == (v - s) % Branches
<1>0. /\ Branches \in Nat /\ Branches > 1 /\ Branches > 0 /\ BlockLen \in Nat /\ BlockLen > 0
      /\ Transient \in Nat /\ e \in 0 .. Branches - 1 /\ e \in Branch /\ e \in Int
  BY Counts, BranchType DEF Branch
<1>1. n \in Int /\ Misplaced(block, n) <= Correctable
  <2>1. \A i \in 1 .. BlockLen : block[i] \in Int
    <3> SUFFICES ASSUME NEW i \in 1 .. BlockLen PROVE block[i] \in Int
      OBVIOUS
    <3>1. v + i - 1 \in Int /\ ((v + i - 1) - s) % Branches \in Branch
      BY BranchType, <1>0
    <3>2. Delay(((v + i - 1) - s) % Branches) \in Nat
      BY <3>1, RowLens
    <3> QED BY <3>1, <3>2 DEF BlockAt, Out
  <2>2. \A i \in 1 .. BlockLen : BlockOf(block[i]) \in Int
    BY <2>1, <1>0, Divide DEF BlockOf
  <2> QED BY <2>2 DEF Near
<1> HIDE DEF e
\* The byte at place i of the block, where its branch is b.
<1>2. ASSUME NEW i \in 1 .. BlockLen, block[i] = n * BlockLen + i - 1,
             NEW b \in Branch, (e + (i - 1)) % Branches = b
      PROVE  /\ (v + i - 1) - Delay(b) \in Int /\ (v + i - 1) - Delay(b) < w
             /\ x[(v + i - 1) - Delay(b)] = n * BlockLen + i - 1
  <2>1. block[i] = x[(v + i - 1) - Delay(((v + i - 1) - s) % Branches)]
    <3>1. block[i] = Out(x, s, v + i - 1)
      BY DEF BlockAt
    <3> HIDE DEF block
    <3>2. Out(x, s, v + i - 1) = x[(v + i - 1) - Delay(((v + i - 1) - s) % Branches)]
      BY DEF Out
    <3> QED BY <3>1, <3>2
  <2>2. ((v + i - 1) - s) % Branches = b
    <3> DEFINE c == v - s
               k == i - 1
    <3>1. c \in Int /\ k \in Int /\ e = c % Branches
      BY DEF e
    <3> HIDE DEF c
    <3>2. e % Branches = c % Branches
      BY <3>1, <1>0, ModSmall
    <3> HIDE DEF k
    <3>3. (e + k) % Branches = (c + k) % Branches
      BY <3>1, <3>2, <1>0, BranchAdd, ZenonT(60)
    <3>4. c + k = v + i - 1 - s
      BY DEF c, k
    <3>5. (e + k) % Branches = b
      BY <1>2 DEF k
    <3> QED BY <3>3, <3>4, <3>5
  <2>3. Delay(b) \in Nat
    BY RowLens
  <2>4. x[(v + i - 1) - Delay(b)] = block[i]
    BY <2>1, <2>2, Zenon
  <2> HIDE DEF block
  <2>5. (v + i - 1) - Delay(b) \in Int /\ (v + i - 1) - Delay(b) < w
    BY <2>3, <1>0
  <2> QED BY <2>4, <2>5, <1>2
<1> DEFINE base == n * BlockLen
<1>3. base \in Int
  BY <1>0, <1>1
<1> HIDE DEF block, base
<1>4. PICK i \in 1 .. BlockLen : (i - 1) % Branches = 0 /\ block[i] = base + i - 1
  <2>1. 0 \in Branch
    BY <1>0 DEF Branch
  <2> QED BY <2>1, <1>1, MatchAtBranch DEF base
<1>5. PICK j \in 1 .. BlockLen : (j - 1) % Branches = Branches - 1 /\ block[j] = base + j - 1
  <2>1. Branches - 1 \in Branch
    BY <1>0 DEF Branch
  <2> QED BY <2>1, <1>1, MatchAtBranch DEF base
\* A place's branch is that of the byte.
<1>6. \A k \in 1 .. BlockLen : (base + k - 1) % Branches = (k - 1) % Branches
  <2> SUFFICES ASSUME NEW k \in 1 .. BlockLen
               PROVE  (base + k - 1) % Branches = (k - 1) % Branches
    OBVIOUS
  <2> DEFINE a == k - 1
  <2>1. a \in Int
    OBVIOUS
  <2> HIDE DEF a
  <2>2. (a + n * BlockLen) % Branches = a % Branches
    BY <2>1, <1>1, BlocksAndBranches
  <2>3. a + n * BlockLen = base + k - 1
    BY <1>3 DEF a, base
  <2> QED BY <2>2, <2>3 DEF a
<1> DEFINE D == Delay(e)
           u == (v + i - 1) - D
<1>7. D \in Nat /\ D <= Transient /\ D = Transient - e * BlockLen
  BY <1>0, RowLens
<1>8. u \in Int /\ u < w /\ x[u] = base + i - 1
  <2>1. (e + (i - 1)) % Branches = e
    <3> DEFINE a == i - 1
    <3>1. a \in Int /\ 0 \in Int /\ a % Branches = 0 % Branches
      BY <1>4, <1>0, ModSmall
    <3> HIDE DEF a
    <3>2. (a + e) % Branches = (0 + e) % Branches
      BY <3>1, <1>0, BranchAdd, ZenonT(60)
    <3>3. a + e = e + (i - 1) /\ 0 + e = e
      BY <1>0 DEF a
    <3>4. e % Branches = e
      BY <1>0, ModSmall
    <3> QED BY <3>2, <3>3, <3>4
  <2> QED BY <2>1, <1>0, <1>2, <1>4 DEF base
<1> HIDE DEF D, u
<1>9. x[u] # Bad
  <2> SUFFICES ASSUME base + i - 1 = -1 PROVE FALSE
    BY <1>8 DEF Bad
  <2>1. (base + i - 1) % Branches = 0
    BY <1>4, <1>6
  <2>2. (Branches * (-1) + (Branches - 1)) % Branches = Branches - 1
    <3>1. -1 \in Int /\ Branches - 1 \in 0 .. Branches - 1
      BY <1>0
    <3> QED BY <3>1, <1>0, ModUnique, Zenon
  <2>3. Branches * (-1) + (Branches - 1) = -1
    BY <1>0
  <2> QED BY <2>1, <2>2, <2>3, <1>0
<1>10. n \in Nat
  <2>1. base + i - 1 >= 0
    BY <1>8, <1>9 DEF SentBefore
  <2>2. ASSUME n < 0 PROVE FALSE
    <3>1. PICK d \in Nat : n = -1 - d
      BY <2>2, <1>1
    <3>2. base = -BlockLen - d * BlockLen /\ d * BlockLen >= 0
      BY <3>1, <1>0 DEF base
    <3> QED BY <2>1, <3>2, <1>0, <1>3
  <2> QED BY <2>2, <1>1
<1>11. LostBefore(x, u) = base + D - v
  <2>1. Time(x[u]) = base + i - 1
    <3>1. base + i - 1 \in Int /\ (base + i - 1) % Branches = 0
      BY <1>3, <1>4, <1>6
    <3> QED BY <3>1, <1>8, TimeType
  <2> QED BY <2>1, <1>3, <1>7 DEF LostBefore, u
<1>12. e = 0
  <2> SUFFICES ASSUME e > 0 PROVE FALSE
    BY <1>0
  <2> DEFINE z == (v + j - 1) - (D + BlockLen)
  <2>1. z \in Int /\ z < w /\ x[z] = base + j - 1
    <3>1. (e + (j - 1)) % Branches = e - 1
      <4> DEFINE a == j - 1
                 c == Branches - 1
      <4>1. a \in Int /\ c \in Int /\ c \in 0 .. Branches - 1
        BY <1>0
      <4>2. a % Branches = c % Branches
        BY <4>1, <1>5, <1>0, ModSmall
      <4> HIDE DEF a, c
      <4>3. (a + e) % Branches = (c + e) % Branches
        BY <4>1, <4>2, <1>0, BranchAdd, Zenon
      <4>4. (Branches * 1 + (e - 1)) % Branches = e - 1
        <5>1. 1 \in Int /\ e - 1 \in 0 .. Branches - 1
          BY <1>0
        <5> QED BY <5>1, <1>0, ModUnique, Zenon
      <4>5. Branches * 1 + (e - 1) = c + e /\ a + e = e + (j - 1)
        BY <1>0 DEF c, a
      <4> QED BY <4>3, <4>4, <4>5
    <3>2. e - 1 \in Branch /\ Delay(e - 1) = D + BlockLen
      <4>1. e - 1 \in Branch
        BY <1>0 DEF Branch
      <4>2. Delay(e - 1) = Transient - (e - 1) * BlockLen
        BY <4>1, RowLens
      <4>3. (e - 1) * BlockLen = e * BlockLen - BlockLen /\ e * BlockLen \in Int
        BY <1>0
      <4> QED BY <4>1, <4>2, <4>3, <1>7, <1>0
    <3>3. /\ (v + j - 1) - Delay(e - 1) \in Int /\ (v + j - 1) - Delay(e - 1) < w
          /\ x[(v + j - 1) - Delay(e - 1)] = n * BlockLen + j - 1
      BY <3>1, <3>2, <1>2, <1>5 DEF base
    <3> QED BY <3>2, <3>3 DEF base
  <2>2. z < u
    BY <1>0, <1>7 DEF u
  <2> HIDE DEF z
  <2>3. base + j - 1 \in Nat /\ x[z] # Bad
    <3>1. base >= 0
      BY <1>10, <1>0 DEF base
    <3> QED BY <3>1, <1>3, <2>1 DEF Bad
  <2>4. Time(x[z]) = base + j - 1 + Transient
    <3>1. (base + j - 1) % Branches = Branches - 1
      BY <1>5, <1>6
    <3> QED BY <3>1, <2>1, <2>3, <1>0, BlockSizes DEF Time
  <2>5. LostBefore(x, z) = base + Transient + D + BlockLen - v
    BY <2>4, <1>3, <1>7, <1>0 DEF LostBefore, z
  <2>6. LostBefore(x, z) <= LostBefore(x, u)
    BY <2>1, <2>2, <2>3, <1>8, <1>9 DEF SentBefore
  <2> QED BY <2>5, <2>6, <1>11, <1>3, <1>7, <1>0
<1>13. D = Transient
  BY <1>7, <1>12, <1>0
<1>14. LostBefore(x, u) = (n + Branches) * BlockLen - (v + BlockLen)
  <2>1. (n + Branches) * BlockLen = base + Transient + BlockLen
    <3>1. (n + Branches) * BlockLen = n * BlockLen + (Branches - 1) * BlockLen + BlockLen
      BY <1>0, <1>1
    <3> QED BY <3>1, BlockSizes DEF base
  <2> QED BY <2>1, <1>11, <1>13, <1>3, <1>0
<1>15. v - Transient <= u /\ u < v + BlockLen - Transient
  BY <1>13, <1>0 DEF u
<1> QED BY <1>8, <1>9, <1>10, <1>12, <1>14, <1>15 DEF e

(***************************************************************************)
(* A job, byte by byte.  The cadence before the byte at w.                 *)
(***************************************************************************)
Cadences == [rows: [Branch -> Seq(Int)], branch: Branch, block: Seq(Int), phase: 0 .. Period - 1]

\* A packet of FIFO3: its block number and its place in the period.
Packets  == [number: Int, phase: 0 .. Period - 1]

\* The state of a loop over the bytes of a job.
Runs     == [c: Cadences, drop: Nat, blocks: Nat, out: Seq(Packets), unseen: Nat]

\* The cadence before the byte at w holds the stream x, begun at s.
Holds(c, x, s, w) ==
  /\ c \in Cadences
  /\ RowsHold(c.rows, x, s, w)
  /\ c.branch = (w - s) % Branches
  /\ Len(c.block) < BlockLen
  /\ \A i \in 1 .. Len(c.block) : c.block[i] = Out(x, s, (w - Len(c.block)) + (i - 1))

\* Where the block under construction begins.
Place(c, w) == w - Len(c.block)

\* While bytes are dropped no block is under construction.
Dropping(p) == p.drop > 0 => p.c.block = <<>>

\* What a byte does: the output has failed, the byte is dropped, the block
\* grows, or it is finished.
Ignored(p, t, stop) ==
  /\ Len(p.out) >= stop
  /\ t.c = p.c /\ t.drop = p.drop /\ t.blocks = p.blocks /\ t.out = p.out
  /\ t.unseen = p.unseen + 1

\* The byte belongs to the transient or comes before the first block.
Dropped(p, t, stop) ==
  /\ Len(p.out) < stop /\ p.drop > 0
  /\ t.c.block = p.c.block /\ t.c.phase = p.c.phase
  /\ t.drop = p.drop - 1 /\ t.blocks = p.blocks /\ t.out = p.out /\ t.unseen = p.unseen

\* The block under construction grows by the byte.
Grown(p, t, stop) ==
  /\ Len(p.out) < stop /\ p.drop = 0
  /\ Len(t.c.block) = Len(p.c.block) + 1 /\ t.c.phase = p.c.phase
  /\ t.drop = 0 /\ t.blocks = p.blocks /\ t.out = p.out /\ t.unseen = p.unseen

\* The block is whole: a packet comes of it if it can be corrected.
Finished(p, t, stop, near) ==
  /\ Len(p.out) < stop /\ p.drop = 0
  /\ Len(p.c.block) = BlockLen - 1
  /\ t.c.block = <<>> /\ t.c.phase = (p.c.phase + 1) % Period
  /\ t.drop = 0 /\ t.blocks = p.blocks + 1 /\ t.unseen = p.unseen
  /\ \/ near = {} /\ t.out = p.out
     \/ \E n \in near : t.out = Append(p.out, [number |-> n, phase |-> p.c.phase])

(* A record with fields replaced.                                           *)
LEMMA RunFields ==
  ASSUME NEW C, NEW D, NEW B, NEW O, NEW U,
         NEW p \in [c: C, drop: D, blocks: B, out: O, unseen: U],
         NEW c \in C, NEW drop \in D, NEW blocks \in B, NEW out \in O, NEW unseen \in U
  PROVE  /\ LET t == [p EXCEPT !.unseen = unseen]
            IN  /\ t \in [c: C, drop: D, blocks: B, out: O, unseen: U]
                /\ t.c = p.c /\ t.drop = p.drop /\ t.blocks = p.blocks /\ t.out = p.out
                /\ t.unseen = unseen
         /\ LET t == [p EXCEPT !.c = c]
            IN  /\ t \in [c: C, drop: D, blocks: B, out: O, unseen: U]
                /\ t.c = c /\ t.drop = p.drop /\ t.blocks = p.blocks /\ t.out = p.out
                /\ t.unseen = p.unseen
         /\ LET t == [p EXCEPT !.c = c, !.drop = drop]
            IN  /\ t \in [c: C, drop: D, blocks: B, out: O, unseen: U]
                /\ t.c = c /\ t.drop = drop /\ t.blocks = p.blocks /\ t.out = p.out
                /\ t.unseen = p.unseen
         /\ LET t == [p EXCEPT !.c = c, !.blocks = blocks, !.out = out]
            IN  /\ t \in [c: C, drop: D, blocks: B, out: O, unseen: U]
                /\ t.c = c /\ t.drop = p.drop /\ t.blocks = blocks /\ t.out = out
                /\ t.unseen = p.unseen
  OBVIOUS

(* A cadence with fields replaced.                                          *)
LEMMA CadenceFields ==
  ASSUME NEW R, NEW B, NEW Q, NEW P, NEW c \in [rows: R, branch: B, block: Q, phase: P],
         NEW rows \in R, NEW branch \in B, NEW block \in Q, NEW phase \in P
  PROVE  /\ LET d == [c EXCEPT !.rows = rows, !.branch = branch]
            IN  /\ d \in [rows: R, branch: B, block: Q, phase: P]
                /\ d.rows = rows /\ d.branch = branch /\ d.block = c.block /\ d.phase = c.phase
         /\ LET d == [c EXCEPT !.block = block]
            IN  /\ d \in [rows: R, branch: B, block: Q, phase: P]
                /\ d.rows = c.rows /\ d.branch = c.branch /\ d.block = block /\ d.phase = c.phase
         /\ LET d == [c EXCEPT !.block = block, !.phase = phase]
            IN  /\ d \in [rows: R, branch: B, block: Q, phase: P]
                /\ d.rows = c.rows /\ d.branch = c.branch /\ d.block = block /\ d.phase = phase
  OBVIOUS

(* The numbers a block may be near to are integers.                         *)
LEMMA NearType ==
  ASSUME NEW block, \A i \in 1 .. BlockLen : block[i] \in Int
  PROVE  Near(block) \subseteq Int
<1>1. \A i \in 1 .. BlockLen : BlockOf(block[i]) \in Int
  BY Counts, Divide DEF BlockOf
<1> QED BY <1>1 DEF Near

(* The rows and the branch after a byte.                                    *)
LEMMA FedHolds ==
  ASSUME NEW x \in [Int -> Int], NEW s \in Int, NEW w \in Int, NEW c, Holds(c, x, s, w)
  PROVE  /\ StepRows(c.rows, c.branch, x[w]) \in [Branch -> Seq(Int)]
         /\ RowsHold(StepRows(c.rows, c.branch, x[w]), x, s, w + 1)
         /\ NextBranch(c.branch) = ((w + 1) - s) % Branches /\ NextBranch(c.branch) \in Branch
         /\ StepOut(c.rows[c.branch], x[w]) = Out(x, s, w) /\ Out(x, s, w) \in Int
<1>1. RowsHold(c.rows, x, s, w) /\ c.branch = (w - s) % Branches
  BY DEF Holds
<1>2. \A r : RowsHold(r, x, s, w) =>
        /\ RowsHold(StepRows(r, (w - s) % Branches, x[w]), x, s, w + 1)
        /\ StepOut(r[(w - s) % Branches], x[w]) = Out(x, s, w) /\ Out(x, s, w) \in Int
  BY RowsStep
<1>3. /\ RowsHold(StepRows(c.rows, c.branch, x[w]), x, s, w + 1)
      /\ StepOut(c.rows[c.branch], x[w]) = Out(x, s, w) /\ Out(x, s, w) \in Int
  BY <1>1, <1>2, Zenon
<1>4. NextBranch(c.branch) = ((w + 1) - s) % Branches
  <2>1. NextBranch(c.branch) = (w + 1 - s) % Branches
    BY <1>1, BranchNext
  <2>2. w + 1 - s = (w + 1) - s
    OBVIOUS
  <2> QED BY <2>1, <2>2
<1>5. (w + 1) - s \in Int
  OBVIOUS
<1> QED BY <1>3, <1>4, <1>5, BranchType DEF RowsHold

(* The types of a cadence.                                                  *)
LEMMA CadenceTypes ==
  ASSUME NEW c \in Cadences
  PROVE  /\ c.block \in Seq(Int) /\ Len(c.block) \in Nat
         /\ c.phase \in 0 .. Period - 1 /\ c.phase \in Int
<1>1. c.block \in Seq(Int) /\ c.phase \in 0 .. Period - 1
  BY DEF Cadences
<1> QED BY <1>1

(* The types of a run's fields, and of what a byte makes of them.           *)
LEMMA RunTypes ==
  ASSUME NEW p \in Runs
  PROVE  /\ p.c \in Cadences /\ p.c.block \in Seq(Int) /\ Len(p.c.block) \in Nat
         /\ p.c.phase \in 0 .. Period - 1 /\ (p.c.phase + 1) % Period \in 0 .. Period - 1
         /\ p.drop \in Nat /\ (p.drop > 0 => p.drop - 1 \in Nat) /\ (p.drop > 0 \/ p.drop = 0)
         /\ p.blocks \in Nat /\ p.blocks + 1 \in Nat
         /\ p.out \in Seq(Packets) /\ Len(p.out) \in Nat
         /\ \A stop \in Nat : Len(p.out) < stop <=> ~(Len(p.out) >= stop)
         /\ p.unseen \in Nat /\ p.unseen + 1 \in Nat /\ (p.unseen > 0 \/ p.unseen = 0)
<1>1. /\ p.c \in Cadences /\ p.drop \in Nat /\ p.blocks \in Nat /\ p.out \in Seq(Packets)
      /\ p.unseen \in Nat
  BY DEF Runs
<1>2. p.c.block \in Seq(Int) /\ p.c.phase \in 0 .. Period - 1
  BY <1>1 DEF Cadences
<1>3. Len(p.out) \in Nat /\ Len(p.c.block) \in Nat
  BY <1>1, <1>2
<1>6. \A stop \in Nat : Len(p.out) < stop <=> ~(Len(p.out) >= stop)
  BY <1>3
<1>7. (p.drop > 0 \/ p.drop = 0) /\ (p.unseen > 0 \/ p.unseen = 0)
  BY <1>1
<1>4. (p.drop > 0 => p.drop - 1 \in Nat) /\ p.blocks + 1 \in Nat /\ p.unseen + 1 \in Nat
  BY <1>1
<1>5. (p.c.phase + 1) % Period \in 0 .. Period - 1
  <2> DEFINE k == p.c.phase + 1
  <2>1. k \in Int /\ Period \in Nat /\ Period > 0
    BY <1>2, Counts
  <2> HIDE DEF k
  <2>2. k % Period \in 0 .. Period - 1
    BY <2>1
  <2> QED BY <2>2 DEF k
<1> QED BY <1>1, <1>2, <1>3, <1>4, <1>5, <1>6, <1>7, Zenon

(* The block under construction, a byte longer.                             *)
IsBlock(r, x, s, w) ==
  /\ r \in Seq(Int) /\ Len(r) < BlockLen
  /\ \A i \in 1 .. Len(r) : r[i] = Out(x, s, (w - Len(r)) + (i - 1))

\* The block r with the byte that comes out at w appended.
Longer(block, r, x, s, w) ==
  /\ block \in Seq(Int) /\ Len(block) = Len(r) + 1
  /\ \A i \in 1 .. Len(block) : block[i] = Out(x, s, ((w + 1) - Len(block)) + (i - 1))
  /\ ~(Len(block) < BlockLen) =>
       /\ Len(r) = BlockLen - 1
       /\ block = BlockAt(x, s, (w + 1) - BlockLen)
       /\ Near(block) \subseteq Int

(* A byte that comes out makes the block under construction longer.         *)
LEMMA BlockGrows ==
  ASSUME NEW x, NEW s \in Int, NEW w \in Int, NEW r, IsBlock(r, x, s, w), NEW o \in Int,
         o = Out(x, s, w)
  PROVE  Longer(Append(r, o), r, x, s, w)
<1> DEFINE block == Append(r, o)
           L == Len(r)
<1>0. r \in Seq(Int) /\ Len(r) < BlockLen
  BY DEF IsBlock
<1>1. L \in Nat /\ BlockLen \in Nat /\ BlockLen > 0
  BY <1>0, Counts
<1>2. /\ block \in Seq(Int) /\ Len(block) = L + 1 /\ block[L + 1] = o
      /\ \A i \in 1 .. L : block[i] = r[i]
  <2>1. \A q \in Seq(Int), i \in Int :
          /\ Append(q, i) \in Seq(Int) /\ Len(Append(q, i)) = Len(q) + 1
          /\ Append(q, i)[Len(q) + 1] = i
          /\ \A k \in 1 .. Len(q) : Append(q, i)[k] = q[k]
    BY Appended
  <2> QED BY <2>1, <1>0, Zenon
<1>3. L < BlockLen /\ \A i \in 1 .. L : r[i] = Out(x, s, (w - L) + (i - 1))
  BY Zenon DEF IsBlock
<1> HIDE DEF block, L
<1>4. \A i \in 1 .. L + 1 : block[i] = Out(x, s, ((w + 1) - (L + 1)) + (i - 1))
  <2> SUFFICES ASSUME NEW i \in 1 .. L + 1
               PROVE  block[i] = Out(x, s, ((w + 1) - (L + 1)) + (i - 1))
    OBVIOUS
  <2>1. ((w + 1) - (L + 1)) + (i - 1) = (w - L) + (i - 1)
    BY <1>1
  <2>2. CASE i = L + 1
    <3>1. (w - L) + (i - 1) = w
      BY <1>1, <2>2
    <3> QED BY <3>1, <2>1, <2>2, <1>2
  <2>3. CASE i # L + 1
    <3>1. i \in 1 .. L
      BY <1>1, <2>3
    <3> QED BY <3>1, <2>1, <1>2, <1>3
  <2> QED BY <2>2, <2>3
<1>5. ASSUME ~(L + 1 < BlockLen)
      PROVE  /\ L = BlockLen - 1 /\ block = BlockAt(x, s, (w + 1) - BlockLen)
             /\ Near(block) \subseteq Int
  <2>1. L + 1 = BlockLen /\ L = BlockLen - 1
    BY <1>1, <1>3, <1>5
  <2>2. block = [i \in 1 .. L + 1 |-> block[i]]
    BY <1>2
  <2>3. \A i \in 1 .. L + 1 : block[i] = Out(x, s, ((w + 1) - BlockLen) + i - 1)
    BY <1>4, <2>1, <1>1
  <2>4. block = BlockAt(x, s, (w + 1) - BlockLen)
    BY <2>1, <2>2, <2>3 DEF BlockAt
  <2>5. \A i \in 1 .. BlockLen : block[i] \in Int
    BY <1>2, <2>1, <1>1
  <2>6. Near(block) \subseteq Int
    BY <2>5, NearType, Zenon
  <2> QED BY <2>1, <2>4, <2>6
<1> QED BY <1>2, <1>4, <1>5 DEF block, L, Longer

(* A cadence holds what its fields hold.                                    *)
LEMMA HoldsByFields ==
  ASSUME NEW x, NEW s, NEW w, NEW c \in Cadences,
         NEW rows, RowsHold(rows, x, s, w), c.rows = rows,
         c.branch = (w - s) % Branches,
         NEW block, c.block = block, Len(block) < BlockLen,
         \A i \in 1 .. Len(block) : block[i] = Out(x, s, (w - Len(block)) + (i - 1))
  PROVE  Holds(c, x, s, w)
  BY Zenon DEF Holds

(* A cadence with no block under construction.                              *)
LEMMA HoldsNoBlock ==
  ASSUME NEW x, NEW s, NEW w, NEW c \in Cadences,
         NEW rows, RowsHold(rows, x, s, w), c.rows = rows,
         c.branch = (w - s) % Branches, c.block = <<>>
  PROVE  Holds(c, x, s, w)
<1>1. BlockLen \in Nat /\ BlockLen > 0
  BY Counts
<1>2. Len(<<>>) = 0 /\ 1 .. 0 = {}
  OBVIOUS
<1>3. /\ Len(<<>>) < BlockLen
      /\ \A i \in 1 .. Len(<<>>) : <<>>[i] = Out(x, s, (w - Len(<<>>)) + (i - 1))
  BY <1>1, <1>2
<1> QED BY <1>3, Zenon DEF Holds

(* What a byte does to the run of a job.                                    *)
LEMMA TakenDoes ==
  ASSUME NEW x \in [Int -> Int], NEW s \in Int, NEW w \in Int, NEW p \in Runs, NEW stop \in Nat,
         Holds(p.c, x, s, w), Dropping(p), NEW byte,
         Len(p.out) < stop => byte = x[w]
  PROVE  LET t == Taken(p, byte, stop)
         IN  /\ t \in Runs
             /\ \/ Ignored(p, t, stop)
                \/ Dropped(p, t, stop) /\ Holds(t.c, x, s, w + 1)
                \/ Grown(p, t, stop) /\ Holds(t.c, x, s, w + 1)
                \/ /\ Finished(p, t, stop, Near(BlockAt(x, s, (w + 1) - BlockLen)))
                   /\ Holds(t.c, x, s, w + 1)
<1> DEFINE t == Taken(p, byte, stop)
<1> SUFFICES /\ t \in Runs
             /\ \/ Ignored(p, t, stop)
                \/ Dropped(p, t, stop) /\ Holds(t.c, x, s, w + 1)
                \/ Grown(p, t, stop) /\ Holds(t.c, x, s, w + 1)
                \/ /\ Finished(p, t, stop, Near(BlockAt(x, s, (w + 1) - BlockLen)))
                   /\ Holds(t.c, x, s, w + 1)
  OBVIOUS
<1>0. /\ p.c \in Cadences /\ p.c.block \in Seq(Int) /\ Len(p.c.block) \in Nat
      /\ p.c.phase \in 0 .. Period - 1 /\ (p.c.phase + 1) % Period \in 0 .. Period - 1
      /\ p.drop \in Nat /\ (p.drop > 0 => p.drop - 1 \in Nat) /\ (p.drop > 0 \/ p.drop = 0)
      /\ p.blocks \in Nat /\ p.blocks + 1 \in Nat
      /\ p.out \in Seq(Packets) /\ Len(p.out) \in Nat
      /\ (Len(p.out) < stop <=> ~(Len(p.out) >= stop))
      /\ p.unseen \in Nat /\ p.unseen + 1 \in Nat
  BY RunTypes, Zenon
<1>1. CASE Len(p.out) >= stop
  <2>1. t = [p EXCEPT !.unseen = @ + 1]
    BY <1>1 DEF Taken
  <2> HIDE DEF t
  <2>2. /\ t.c = p.c /\ t.drop = p.drop /\ t.blocks = p.blocks /\ t.out = p.out
        /\ t.unseen = p.unseen + 1 /\ t \in Runs
    BY <2>1, <1>0, RunFields, Zenon DEF Runs
  <2> QED BY <2>2, <1>1 DEF Ignored
<1>2. CASE Len(p.out) < stop
  <2> DEFINE rows == StepRows(p.c.rows, p.c.branch, x[w])
             branch == NextBranch(p.c.branch)
             c == [p.c EXCEPT !.rows = rows, !.branch = branch]
             o == Out(x, s, w)
  <2>1. byte = x[w]
    BY <1>2
  <2>2. /\ rows \in [Branch -> Seq(Int)] /\ RowsHold(rows, x, s, w + 1)
        /\ branch = ((w + 1) - s) % Branches /\ branch \in Branch
        /\ StepOut(p.c.rows[p.c.branch], x[w]) = o /\ o \in Int
    BY FedHolds
  <2>3. t = IF p.drop > 0 THEN [p EXCEPT !.c = c, !.drop = @ - 1] ELSE Pushed(p, c, o)
    <3>1. c = [p.c EXCEPT !.rows = StepRows(@, p.c.branch, byte), !.branch = NextBranch(@)]
      BY <2>1
    <3> HIDE DEF c, o
    <3>2. ~(Len(p.out) >= stop)
      BY <1>2, <1>0, Zenon
    <3> QED BY <2>1, <2>2, <3>1, <3>2, Zenon DEF Taken
  <2> HIDE DEF rows, branch, o, t
  <2>4. /\ c.rows = rows /\ c.branch = branch /\ c.block = p.c.block /\ c.phase = p.c.phase
        /\ c \in Cadences /\ p.c.block \in Seq(Int) /\ p.c.phase \in 0 .. Period - 1
    BY <1>0, <2>2, CadenceFields, Zenon DEF Cadences
  <2> HIDE DEF c
  <2>5. CASE p.drop > 0
    <3>1. t = [p EXCEPT !.c = c, !.drop = @ - 1]
      BY <2>3, <2>5
    <3>2. /\ t.c = c /\ t.drop = p.drop - 1 /\ t.blocks = p.blocks /\ t.out = p.out
          /\ t.unseen = p.unseen /\ t \in Runs
      BY <3>1, <2>5, <1>0, <2>4, RunFields, Zenon DEF Runs
    <3>3. p.c.block = <<>>
      BY <2>5 DEF Dropping
    <3>4. Holds(t.c, x, s, w + 1)
      <4>1. c.block = <<>>
        BY <3>3, <2>4
      <4> QED BY <4>1, <3>2, <2>4, <2>2, HoldsNoBlock, Zenon
    <3> QED BY <3>2, <3>4, <2>4, <2>5, <1>2 DEF Dropped
  <2>6. CASE p.drop = 0
    <3> DEFINE block == Append(p.c.block, o)
               near == Near(block)
               phase == (p.c.phase + 1) % Period
    <3>1. t = Pushed(p, c, o)
      BY <2>3, <2>6, <1>0
    <3>2. /\ Len(p.c.block) < BlockLen
          /\ \A i \in 1 .. Len(p.c.block) :
               p.c.block[i] = Out(x, s, (w - Len(p.c.block)) + (i - 1))
      BY Zenon DEF Holds
    <3>3. o = Out(x, s, w)
      BY DEF o
    <3>4. /\ block \in Seq(Int) /\ Len(block) = Len(p.c.block) + 1
          /\ \A i \in 1 .. Len(block) : block[i] = Out(x, s, ((w + 1) - Len(block)) + (i - 1))
          /\ ~(Len(block) < BlockLen) =>
               /\ Len(p.c.block) = BlockLen - 1
               /\ block = BlockAt(x, s, (w + 1) - BlockLen)
               /\ near \subseteq Int
      <4>1. IsBlock(p.c.block, x, s, w)
        BY <3>2, <1>0, Zenon DEF IsBlock
      <4>2. Longer(block, p.c.block, x, s, w)
        BY <4>1, <3>3, <2>2, BlockGrows, Zenon
      <4> QED BY <4>2, Zenon DEF Longer
    <3>5. t = IF Len(block) < BlockLen THEN [p EXCEPT !.c = [c EXCEPT !.block = block]]
              ELSE [p EXCEPT !.c = [c EXCEPT !.block = <<>>, !.phase = (@ + 1) % Period],
                             !.blocks = @ + 1,
                             !.out = IF near = {} THEN @
                                     ELSE Append(@, [number |-> CHOOSE n \in near : TRUE,
                                                     phase  |-> c.phase])]
      <4>1. Append(c.block, o) = block
        BY <2>4
      <4> QED BY <3>1, <4>1, Zenon DEF Pushed
    <3> HIDE DEF block, near, phase
    <3>6. CASE Len(block) < BlockLen
      <4> DEFINE d == [c EXCEPT !.block = block]
      <4>1. t = [p EXCEPT !.c = d]
        BY <3>5, <3>6, Zenon
      <4>2. /\ d.rows = rows /\ d.branch = branch /\ d.block = block /\ d.phase = p.c.phase
            /\ d \in Cadences
        BY <2>4, <2>2, <1>0, <3>4, CadenceFields, Zenon DEF Cadences
      <4> HIDE DEF d
      <4>3. /\ t.c = d /\ t.drop = p.drop /\ t.blocks = p.blocks /\ t.out = p.out
            /\ t.unseen = p.unseen /\ t \in Runs
        BY <4>1, <4>2, <1>0, RunFields, Zenon DEF Runs
      <4>4. Holds(t.c, x, s, w + 1)
        BY <4>2, <4>3, <2>2, <3>4, <3>6, HoldsByFields, Zenon
      <4>5. Grown(p, t, stop)
        BY <4>2, <4>3, <3>4, <2>6, <1>2, Zenon DEF Grown
      <4> QED BY <4>3, <4>4, <4>5
    <3>7. CASE ~(Len(block) < BlockLen)
      <4> DEFINE d == [c EXCEPT !.block = <<>>, !.phase = phase]
                 packet == [number |-> CHOOSE n \in near : TRUE, phase |-> p.c.phase]
                 out == IF near = {} THEN p.out ELSE Append(p.out, packet)
      <4>1. t = [p EXCEPT !.c = d, !.blocks = p.blocks + 1, !.out = out]
        <5>1. c.phase = p.c.phase
          BY <2>4
        <5> QED BY <3>5, <3>7, <5>1, Zenon DEF phase
      <4>2. /\ d.rows = rows /\ d.branch = branch /\ d.block = <<>> /\ d.phase = phase
            /\ d \in Cadences
        <5>1. <<>> \in Seq(Int)
          OBVIOUS
        <5> QED BY <2>4, <2>2, <1>0, <5>1, CadenceFields, Zenon DEF Cadences, phase
      <4>3. near \subseteq Int
        BY <3>4, <3>7, Zenon
      <4> HIDE DEF d
      <4>4. near # {} => packet.number \in near /\ packet \in Packets
        <5>1. near # {} => (CHOOSE n \in near : TRUE) \in near
          BY Zenon
        <5>2. \A n \in Int, f \in 0 .. Period - 1 :
                [number |-> n, phase |-> f] \in Packets /\ [number |-> n, phase |-> f].number = n
          BY DEF Packets
        <5>3. p.c.phase \in 0 .. Period - 1
          BY <1>0
        <5> QED BY <5>1, <5>2, <5>3, <4>3, Zenon
      <4>5. out \in Seq(Packets)
        <5>1. \A q \in Seq(Packets), a \in Packets : Append(q, a) \in Seq(Packets)
          OBVIOUS
        <5> HIDE DEF packet
        <5> QED BY <4>4, <5>1, <1>0, Zenon
      <4>6. \/ near = {} /\ out = p.out
            \/ \E n \in near : out = Append(p.out, [number |-> n, phase |-> p.c.phase])
        BY <4>4, Zenon
      <4> HIDE DEF out, packet
      <4>7. /\ t.c = d /\ t.drop = p.drop /\ t.blocks = p.blocks + 1 /\ t.out = out
            /\ t.unseen = p.unseen /\ t \in Runs
        BY <4>1, <4>2, <4>5, <1>0, RunFields, Zenon DEF Runs
      <4>8. Holds(t.c, x, s, w + 1)
        BY <4>2, <4>7, <2>2, HoldsNoBlock, Zenon
      <4>9. Finished(p, t, stop, near)
        BY <4>2, <4>6, <4>7, <3>4, <3>7, <2>6, <1>2, Zenon DEF Finished, phase
      <4>10. near = Near(BlockAt(x, s, (w + 1) - BlockLen))
        BY <3>4, <3>7, Zenon DEF near
      <4> QED BY <4>7, <4>8, <4>9, <4>10, Zenon
    <3> QED BY <3>6, <3>7
  <2> QED BY <2>5, <2>6, <1>0, Zenon
<1> QED BY <1>1, <1>2, <1>0, Zenon

(***************************************************************************)
(* All the bytes of a job: which blocks were made of them, and the packets *)
(* that came of these.                                                     *)
(***************************************************************************)
BlocksFrom(place, b) == place + b * BlockLen

\* The packets `out' come of some of the first `blocks' blocks from `place'
\* on, of the block k[i] the i-th; of all when every block can be corrected.
Emitted(out, blocks, k, x, s, place, phase) ==
  /\ k \in [1 .. Len(out) -> Nat]
  /\ \A i \in 1 .. Len(out) :
       /\ k[i] < blocks
       /\ out[i].number \in Near(BlockAt(x, s, BlocksFrom(place, k[i])))
       /\ out[i].phase = (phase + k[i]) % Period
  /\ \A i, j \in 1 .. Len(out) : i < j => k[i] < k[j]
  /\ (\A b \in 0 .. blocks - 1 : Near(BlockAt(x, s, BlocksFrom(place, b))) # {}) =>
       Len(out) = blocks /\ \A i \in 1 .. Len(out) : k[i] = i - 1

\* The run of a job so far: it began at `place' with `phase', and w is next.
RunsTo(p, x, s, w, place, phase, stop) ==
  /\ p \in Runs /\ Holds(p.c, x, s, w) /\ Dropping(p)
  /\ p.drop > 0 => p.blocks = 0
  /\ p.unseen > 0 => Len(p.out) >= stop
  /\ (w - Len(p.c.block)) + p.drop = BlocksFrom(place, p.blocks)
  /\ p.c.phase = (phase + p.blocks) % Period
  /\ \E k : Emitted(p.out, p.blocks, k, x, s, place, phase)

(* The place in the period of the next block.                               *)
LEMMA PhaseNext ==
  ASSUME NEW phase \in Int
  PROVE  ((phase % Period) + 1) % Period = (phase + 1) % Period
<1> DEFINE r == phase % Period
<1>1. Period \in Nat /\ Period > 0 /\ 1 \in Int
  BY Counts
<1>2. r \in 0 .. Period - 1 /\ r \in Int
  BY <1>1, Divide
<1>3. r % Period = phase % Period
  <2> HIDE DEF r
  <2>1. r % Period = r
    BY <1>1, <1>2, ModSmall
  <2> QED BY <2>1 DEF r
<1> HIDE DEF r
<1>4. (r + 1) % Period = (phase + 1) % Period
  BY <1>1, <1>2, <1>3, ModAdd, Zenon
<1> QED BY <1>4 DEF r

(* The place of the next block.                                             *)
LEMMA NextBlock ==
  ASSUME NEW place \in Int, NEW b \in Int
  PROVE  /\ BlocksFrom(place, b) \in Int
         /\ BlocksFrom(place, b + 1) = BlocksFrom(place, b) + BlockLen
<1>1. BlockLen \in Nat
  BY Counts
<1> QED BY <1>1 DEF BlocksFrom

(* Another block, and the packet that came of it, if one did.               *)
LEMMA EmitsNone ==
  ASSUME NEW out \in Seq(Packets), NEW blocks \in Nat, NEW k, NEW x, NEW s, NEW place, NEW phase,
         Emitted(out, blocks, k, x, s, place, phase),
         Near(BlockAt(x, s, BlocksFrom(place, blocks))) = {}
  PROVE  Emitted(out, blocks + 1, k, x, s, place, phase)
<1> DEFINE near(b) == Near(BlockAt(x, s, BlocksFrom(place, b)))
           new(b) == BlockAt(x, s, BlocksFrom(place, b))
<1>1. /\ k \in [1 .. Len(out) -> Nat] 
      /\ \A i \in 1 .. Len(out) :
           /\ k[i] < blocks
           /\ out[i].number \in near(k[i])
           /\ out[i].phase = (phase + k[i]) % Period
      /\ \A i, j \in 1 .. Len(out) : i < j => k[i] < k[j]
  BY Zenon DEF Emitted
<1>2. \A i \in 1 .. Len(out) : k[i] < blocks + 1
  BY <1>1
<1>3. ~(\A b \in 0 .. (blocks + 1) - 1 : near(b) # {})
  <2>1. blocks \in 0 .. (blocks + 1) - 1
    OBVIOUS
  <2> QED BY <2>1, Zenon
<1> QED BY <1>1, <1>2, <1>3, Zenon DEF Emitted

(* Another block, and the packet that came of it.                           *)
LEMMA EmitsOne ==
  ASSUME NEW out \in Seq(Packets), NEW blocks \in Nat, NEW k, NEW x, NEW s, NEW place, NEW phase \in Int,
         Emitted(out, blocks, k, x, s, place, phase),
         NEW packet \in Packets,
         packet.number \in Near(BlockAt(x, s, BlocksFrom(place, blocks))),
         packet.phase = (phase + blocks) % Period
  PROVE  \E l : Emitted(Append(out, packet), blocks + 1, l, x, s, place, phase)
<1> DEFINE near(b) == Near(BlockAt(x, s, BlocksFrom(place, b)))
           N == Len(out)
           l == [i \in 1 .. N + 1 |-> IF i = N + 1 THEN blocks ELSE k[i]]
           new == Append(out, packet)
           Fits(o, b) == o.number \in near(b) /\ o.phase = (phase + b) % Period
<1>1. /\ k \in [1 .. N -> Nat]
      /\ \A i \in 1 .. N : k[i] < blocks /\ Fits(out[i], k[i])
      /\ \A i, j \in 1 .. N : i < j => k[i] < k[j]
      /\ (\A b \in 0 .. blocks - 1 : near(b) # {}) =>
           N = blocks /\ \A i \in 1 .. N : k[i] = i - 1
  BY Zenon DEF Emitted
<1>2. N \in Nat
  OBVIOUS
<1>3. /\ new \in Seq(Packets) /\ Len(new) = N + 1 /\ new[N + 1] = packet
      /\ \A i \in 1 .. N : new[i] = out[i]
  <2>1. out \in Seq(Packets) /\ packet \in Packets
    OBVIOUS
  <2> HIDE DEF near, l, Fits
  <2> QED BY <2>1, Appended
<1>4. Fits(packet, blocks)
  OBVIOUS
<1> HIDE DEF N, new, Fits, near
<1>5. /\ l \in [1 .. N + 1 -> Nat] /\ l[N + 1] = blocks
      /\ \A i \in 1 .. N : l[i] = k[i] /\ k[i] \in Nat
  <2>1. \A i \in 1 .. N : i # N + 1 /\ i \in 1 .. N + 1 /\ k[i] \in Nat
    BY <1>1, <1>2
  <2>2. N + 1 \in 1 .. N + 1
    BY <1>2
  <2>3. \A i \in 1 .. N + 1 : i = N + 1 \/ i \in 1 .. N
    BY <1>2
  <2> QED BY <2>1, <2>2, <2>3
<1> HIDE DEF l
<1>6. \A i \in 1 .. N + 1 : i = N + 1 \/ i \in 1 .. N
  BY <1>2
<1>7. \A i \in 1 .. N + 1 : l[i] < blocks + 1 /\ Fits(new[i], l[i])
  <2> TAKE i \in 1 .. N + 1
  <2>1. CASE i = N + 1
    BY <2>1, <1>3, <1>4, <1>5
  <2>2. CASE i \in 1 .. N
    <3>1. l[i] = k[i] /\ new[i] = out[i] /\ Fits(out[i], k[i])
      BY <2>2, <1>1, <1>3, <1>5
    <3>2. k[i] < blocks + 1
      BY <2>2, <1>1, <1>5
    <3> QED BY <3>1, <3>2
  <2> QED BY <2>1, <2>2, <1>6
<1>8. \A i, j \in 1 .. N + 1 : i < j => l[i] < l[j]
  <2> SUFFICES ASSUME NEW i \in 1 .. N + 1, NEW j \in 1 .. N + 1, i < j PROVE l[i] < l[j]
    OBVIOUS
  <2>1. i \in 1 .. N
    BY <1>2
  <2>2. CASE j = N + 1
    BY <2>1, <2>2, <1>1, <1>5
  <2>3. CASE j \in 1 .. N
    BY <2>1, <2>3, <1>1, <1>5
  <2> QED BY <2>2, <2>3, <1>6
<1>9. ASSUME \A b \in 0 .. (blocks + 1) - 1 : near(b) # {}
      PROVE  N + 1 = blocks + 1 /\ \A i \in 1 .. N + 1 : l[i] = i - 1
  <2>1. \A b \in 0 .. blocks - 1 : b \in 0 .. (blocks + 1) - 1
    OBVIOUS
  <2>2. N = blocks /\ \A i \in 1 .. N : k[i] = i - 1
    BY <2>1, <1>9, <1>1
  <2>3. (N + 1) - 1 = N
    BY <1>2
  <2> QED BY <2>2, <2>3, <1>5, <1>6
<1>10. Emitted(new, blocks + 1, l, x, s, place, phase)
  <2>1. /\ l \in [1 .. Len(new) -> Nat]
        /\ \A i \in 1 .. Len(new) : l[i] < blocks + 1 /\ Fits(new[i], l[i])
        /\ \A i, j \in 1 .. Len(new) : i < j => l[i] < l[j]
        /\ (\A b \in 0 .. (blocks + 1) - 1 : near(b) # {}) =>
             Len(new) = blocks + 1 /\ \A i \in 1 .. Len(new) : l[i] = i - 1
    BY <1>3, <1>5, <1>7, <1>8, <1>9, Zenon
  <2> QED BY <2>1, Zenon DEF Emitted, Fits, near
<1> QED BY <1>10, Zenon DEF new

(* The bytes of a block are integers.                                       *)
LEMMA BlockType ==
  ASSUME NEW x \in [Int -> Int], NEW s \in Int, NEW v \in Int
  PROVE  \A i \in 1 .. BlockLen : BlockAt(x, s, v)[i] \in Int
<1> SUFFICES ASSUME NEW i \in 1 .. BlockLen PROVE BlockAt(x, s, v)[i] \in Int
  OBVIOUS
<1>1. (v + i - 1) - s \in Int /\ v + i - 1 \in Int
  OBVIOUS
<1>2. ((v + i - 1) - s) % Branches \in Branch
  BY <1>1, BranchType
<1>3. Delay(((v + i - 1) - s) % Branches) \in Nat
  BY <1>2, RowLens
<1>4. Out(x, s, v + i - 1) \in Int
  BY <1>1, <1>3 DEF Out
<1> QED BY <1>4 DEF BlockAt

(* The run before its first byte.                                           *)
LEMMA RunsStart ==
  ASSUME NEW x, NEW s, NEW w \in Int, NEW c, Holds(c, x, s, w),
         NEW drop \in Nat, Dropping(Started(c, drop)), NEW stop
  PROVE  RunsTo(Started(c, drop), x, s, w, (w - Len(c.block)) + drop, c.phase, stop)
<1> DEFINE p == Started(c, drop)
           place == (w - Len(c.block)) + drop
<1>1. /\ p = [c |-> c, drop |-> drop, blocks |-> 0, out |-> <<>>, unseen |-> 0]
      /\ c \in Cadences
  BY DEF Started, Holds
<1>2. c.block \in Seq(Int) /\ c.phase \in 0 .. Period - 1
  BY <1>1 DEF Cadences
<1>3. place \in Int
  BY <1>2
<1> DEFINE b0 == c.block
           f0 == c.phase
<1>4. /\ p \in Runs /\ p.c = c /\ p.drop = drop /\ p.blocks = 0 /\ p.out = <<>> /\ p.unseen = 0
  <2>1. <<>> \in Seq(Packets) /\ 0 \in Nat
    OBVIOUS
  <2> HIDE DEF p
  <2>2. \A D, O : \A d \in D, o \in O :
          LET r == [c |-> d, drop |-> drop, blocks |-> 0, out |-> o, unseen |-> 0]
          IN  /\ r \in [c: D, drop: Nat, blocks: Nat, out: O, unseen: Nat]
              /\ r.c = d /\ r.drop = drop /\ r.blocks = 0 /\ r.out = o /\ r.unseen = 0
    OBVIOUS
  <2> QED BY <1>1, <2>1, <2>2, Zenon DEF Runs
<1> HIDE DEF p, place
<1>5. BlocksFrom(place, 0) = place
  BY <1>3, Counts DEF BlocksFrom
<1>6. f0 = (f0 + 0) % Period
  <2>1. f0 \in 0 .. Period - 1 /\ f0 + 0 = f0
    BY <1>2
  <2> HIDE DEF f0
  <2> QED BY <2>1, Counts, ModSmall
<1>7. \E k : Emitted(<<>>, 0, k, x, s, place, f0)
  <2> DEFINE k == [i \in 1 .. 0 |-> 0]
  <2>1. Len(<<>>) = 0
    OBVIOUS
  <2>2. k \in [1 .. 0 -> Nat] /\ \A i \in 1 .. 0 : FALSE
    OBVIOUS
  <2> HIDE DEF k
  <2>3. Emitted(<<>>, 0, k, x, s, place, f0)
    BY <2>1, <2>2 DEF Emitted
  <2> QED BY <2>3
<1>8. ~(0 > 0)
  OBVIOUS
<1>9. (w - Len(p.c.block)) + p.drop = place
  BY <1>4, Zenon DEF place
<1>10. RunsTo(p, x, s, w, place, f0, stop)
  <2>1. Holds(p.c, x, s, w) /\ Dropping(p)
    BY <1>4, Zenon DEF p
  <2>2. p.drop > 0 => p.blocks = 0
    BY <1>4
  <2>3. p.unseen > 0 => Len(p.out) >= stop
    BY <1>4, <1>8, Zenon
  <2>4. (w - Len(p.c.block)) + p.drop = BlocksFrom(place, p.blocks)
    BY <1>4, <1>5, <1>9, Zenon
  <2>5. p.c.phase = (f0 + p.blocks) % Period
    BY <1>4, <1>6, Zenon
  <2>6. \E k : Emitted(p.out, p.blocks, k, x, s, place, f0)
    BY <1>4, <1>7, Zenon
  <2>7. p \in Runs
    BY <1>4
  <2> QED BY <2>1, <2>2, <2>3, <2>4, <2>5, <2>6, <2>7, Zenon DEF RunsTo
<1> QED BY <1>10, Zenon DEF p, place

(* The run after another byte.                                              *)
Fed(p, byte, x, w, stop) == Len(p.out) < stop => byte = x[w]

LEMMA RunsOn ==
  ASSUME NEW x \in [Int -> Int], NEW s \in Int, NEW w \in Int, NEW p, NEW place \in Int,
         NEW phase \in Int, NEW stop \in Nat,
         RunsTo(p, x, s, w, place, phase, stop),
         NEW byte, Fed(p, byte, x, w, stop), NEW t, t = Taken(p, byte, stop)
  PROVE  \/ t.unseen = p.unseen + 1 /\ RunsTo(t, x, s, w, place, phase, stop)
         \/ t.unseen = p.unseen /\ RunsTo(t, x, s, w + 1, place, phase, stop)
<1>1. /\ p \in Runs /\ Holds(p.c, x, s, w) /\ Dropping(p)
      /\ p.drop > 0 => p.blocks = 0
      /\ p.unseen > 0 => Len(p.out) >= stop
      /\ (w - Len(p.c.block)) + p.drop = BlocksFrom(place, p.blocks)
      /\ p.c.phase = (phase + p.blocks) % Period
  BY Zenon DEF RunsTo
<1>2. PICK k : Emitted(p.out, p.blocks, k, x, s, place, phase)
  BY Zenon DEF RunsTo
<1>3. /\ t \in Runs
      /\ \/ Ignored(p, t, stop)
         \/ Dropped(p, t, stop) /\ Holds(t.c, x, s, w + 1)
         \/ Grown(p, t, stop) /\ Holds(t.c, x, s, w + 1)
         \/ /\ Finished(p, t, stop, Near(BlockAt(x, s, (w + 1) - BlockLen)))
            /\ Holds(t.c, x, s, w + 1)
  <2>1. Len(p.out) < stop => byte = x[w]
    BY DEF Fed
  <2> DEFINE r == Taken(p, byte, stop)
  <2>2. /\ r \in Runs
        /\ \/ Ignored(p, r, stop)
           \/ Dropped(p, r, stop) /\ Holds(r.c, x, s, w + 1)
           \/ Grown(p, r, stop) /\ Holds(r.c, x, s, w + 1)
           \/ /\ Finished(p, r, stop, Near(BlockAt(x, s, (w + 1) - BlockLen)))
              /\ Holds(r.c, x, s, w + 1)
    BY <1>1, <2>1, TakenDoes, Zenon
  <2> QED BY <2>2, Zenon
<1> DEFINE L == Len(p.c.block)
           M == Len(t.c.block)
           b == p.blocks
           d == p.drop
           u == p.unseen
           out == p.out
<1>4. /\ L \in Nat /\ b \in Nat /\ d \in Nat /\ u \in Nat /\ out \in Seq(Packets) /\ Len(out) \in Nat
      /\ p.c.phase \in 0 .. Period - 1 /\ M \in Nat /\ t.unseen \in Nat /\ t.drop \in Nat
      /\ Len(t.out) \in Nat
  BY <1>1, <1>3, RunTypes, Zenon
<1>5. BlockLen \in Nat /\ BlockLen > 0
  BY Counts
<1>6. CASE Ignored(p, t, stop)
  <2>1. t.unseen = p.unseen + 1 /\ RunsTo(t, x, s, w, place, phase, stop)
    BY <1>1, <1>2, <1>3, <1>6, Zenon DEF Ignored, RunsTo, Dropping
  <2> QED BY <2>1
\* The output has not failed: every byte so far has been looked at.
<1>7. Len(out) < stop => u = 0
  BY <1>1, RunTypes, Zenon
<1>8. CASE Dropped(p, t, stop) /\ Holds(t.c, x, s, w + 1)
  <2>1. /\ d > 0 /\ t.c.block = p.c.block /\ t.drop = d - 1 /\ t.blocks = b /\ t.out = out
        /\ t.unseen = u /\ t.c.phase = p.c.phase
    BY <1>8, Zenon DEF Dropped
  <2>2. Dropping(t) /\ (t.drop > 0 => t.blocks = 0)
    BY <2>1, <1>1, Zenon DEF Dropping
  <2>3. (t.unseen > 0) => Len(t.out) >= stop
    BY <2>1, <1>1, Zenon
  <2>4. ((w + 1) - M) + t.drop = BlocksFrom(place, t.blocks)
    <3>1. (w - L) + d = BlocksFrom(place, b) /\ M = L
      BY <2>1, <1>1, Zenon
    <3> HIDE DEF L, M, d, b
    <3>2. ((w + 1) - M) + (d - 1) = BlocksFrom(place, b)
      BY <3>1, <1>4
    <3> QED BY <3>2, <2>1
  <2>5. t.c.phase = (phase + t.blocks) % Period /\ Emitted(t.out, t.blocks, k, x, s, place, phase)
    BY <2>1, <1>1, <1>2, Zenon
  <2>6. RunsTo(t, x, s, w + 1, place, phase, stop)
    BY <2>2, <2>3, <2>4, <2>5, <1>3, <1>8, Zenon DEF RunsTo
  <2> QED BY <2>1, <2>6
<1>9. CASE Grown(p, t, stop) /\ Holds(t.c, x, s, w + 1)
  <2>1. /\ d = 0 /\ M = L + 1 /\ t.drop = 0 /\ t.blocks = b /\ t.out = out
        /\ t.unseen = u /\ t.c.phase = p.c.phase
    BY <1>9, Zenon DEF Grown
  <2>2. ~(0 > 0)
    OBVIOUS
  <2>3. Dropping(t) /\ (t.drop > 0 => t.blocks = 0)
    BY <2>1, <2>2, Zenon DEF Dropping
  <2>4. (t.unseen > 0) => Len(t.out) >= stop
    BY <2>1, <1>1, Zenon
  <2>5. ((w + 1) - M) + t.drop = BlocksFrom(place, t.blocks)
    <3>1. (w - L) + d = BlocksFrom(place, b)
      BY <1>1, Zenon
    <3> HIDE DEF L, M, d, b
    <3>2. ((w + 1) - M) + 0 = BlocksFrom(place, b)
      BY <3>1, <1>4, <2>1
    <3> QED BY <3>2, <2>1
  <2>6. t.c.phase = (phase + t.blocks) % Period /\ Emitted(t.out, t.blocks, k, x, s, place, phase)
    BY <2>1, <1>1, <1>2, Zenon
  <2>7. RunsTo(t, x, s, w + 1, place, phase, stop)
    BY <2>3, <2>4, <2>5, <2>6, <1>3, <1>9, Zenon DEF RunsTo
  <2> QED BY <2>1, <2>7
<1>10. CASE /\ Finished(p, t, stop, Near(BlockAt(x, s, (w + 1) - BlockLen)))
            /\ Holds(t.c, x, s, w + 1)
  <2> DEFINE near == Near(BlockAt(x, s, (w + 1) - BlockLen))
  <2>1. /\ d = 0 /\ L = BlockLen - 1 /\ t.c.block = <<>> /\ t.drop = 0 /\ t.blocks = b + 1
        /\ t.unseen = u /\ t.c.phase = (p.c.phase + 1) % Period
        /\ \/ near = {} /\ t.out = out
           \/ \E n \in near : t.out = Append(out, [number |-> n, phase |-> p.c.phase])
    BY <1>10, Zenon DEF Finished
  <2>2. ~(0 > 0)
    OBVIOUS
  <2>3. Dropping(t) /\ (t.drop > 0 => t.blocks = 0)
    BY <2>1, <2>2, Zenon DEF Dropping
  <2>4. (t.unseen > 0) => Len(t.out) >= stop
    <3>1. u = 0
      BY <1>10, <1>7, Zenon DEF Finished
    <3> QED BY <2>1, <2>2, <3>1, Zenon
  <2>5. (w + 1) - BlockLen = BlocksFrom(place, b) /\ BlocksFrom(place, b) \in Int
        /\ BlocksFrom(place, b + 1) = BlocksFrom(place, b) + BlockLen
    <3>1. (w - L) + d = BlocksFrom(place, b)
      BY <1>1, Zenon
    <3>2. BlocksFrom(place, b) \in Int /\ BlocksFrom(place, b + 1) = BlocksFrom(place, b) + BlockLen
      <4> HIDE DEF b
      <4>1. b \in Int
        BY <1>4
      <4> QED BY <4>1, NextBlock
    <3> HIDE DEF L, d, b
    <3> QED BY <3>1, <3>2, <1>4, <1>5, <2>1
  <2>6. ((w + 1) - M) + t.drop = BlocksFrom(place, t.blocks)
    <3>1. M = 0
      <4>1. Len(<<>>) = 0
        OBVIOUS
      <4> QED BY <2>1, <4>1, Zenon
    <3> DEFINE v == BlocksFrom(place, b)
               z == BlocksFrom(place, b + 1)
    <3>2. (w + 1) - BlockLen = v /\ v \in Int /\ z = v + BlockLen
      BY <2>5, Zenon
    <3> HIDE DEF M, v, z
    <3>3. ((w + 1) - M) + 0 = z
      BY <3>1, <3>2, <1>5
    <3> QED BY <3>3, <2>1, Zenon DEF z
  <2>7. t.c.phase = (phase + t.blocks) % Period
    <3> DEFINE a == phase + b
    <3>0. p.c.phase = a % Period /\ b \in Nat
      BY <1>1, <1>4, Zenon
    <3> HIDE DEF b
    <3>1. a \in Int /\ p.c.phase = a % Period
      BY <3>0
    <3> HIDE DEF a
    <3>2. t.c.phase = (a + 1) % Period
      BY <3>1, <2>1, PhaseNext
    <3>3. a + 1 = phase + (b + 1)
      BY <3>0 DEF a
    <3> QED BY <3>2, <3>3, <2>1
  <2>8. \E l : Emitted(t.out, b + 1, l, x, s, place, phase)
    <3>1. near = Near(BlockAt(x, s, BlocksFrom(place, b)))
      BY <2>5, Zenon
    <3>2. Emitted(out, b, k, x, s, place, phase) /\ out \in Seq(Packets) /\ b \in Nat
      BY <1>2, <1>4
    <3>3. CASE near = {} /\ t.out = out
      <4>1. Emitted(out, b + 1, k, x, s, place, phase)
        <5> HIDE DEF near, b, out
        <5> QED BY <3>1, <3>2, <3>3, EmitsNone
      <4> QED BY <3>3, <4>1, Zenon
    <3>4. ASSUME NEW n \in near, t.out = Append(out, [number |-> n, phase |-> p.c.phase])
          PROVE  \E l : Emitted(t.out, b + 1, l, x, s, place, phase)
      <4> DEFINE packet == [number |-> n, phase |-> p.c.phase]
      <4>0. near \subseteq Int
        <5> HIDE DEF b
        <5>1. BlocksFrom(place, b) \in Int
          BY <2>5
        <5>2. \A i \in 1 .. BlockLen : BlockAt(x, s, BlocksFrom(place, b))[i] \in Int
          BY <5>1, BlockType
        <5> QED BY <5>2, <3>1, NearType, Zenon
      <4>1. packet \in Packets /\ packet.number = n /\ packet.phase = p.c.phase
        <5>1. \A m \in Int, f \in 0 .. Period - 1 :
                /\ [number |-> m, phase |-> f] \in Packets
                /\ [number |-> m, phase |-> f].number = m
                /\ [number |-> m, phase |-> f].phase = f
          BY DEF Packets
        <5>2. n \in Int
          BY <4>0
        <5> QED BY <5>1, <5>2, <1>4, Zenon
      <4> HIDE DEF packet
      <4>2. /\ packet.number \in Near(BlockAt(x, s, BlocksFrom(place, b)))
            /\ packet.phase = (phase + b) % Period
        BY <4>1, <3>1, <1>1, Zenon
      <4> HIDE DEF near, b, out
      <4>3. \E l : Emitted(Append(out, packet), b + 1, l, x, s, place, phase)
        BY <4>1, <4>2, <3>2, EmitsOne
      <4> QED BY <4>3, <3>4 DEF packet
    <3> QED BY <2>1, <3>3, <3>4, Zenon
  <2>9. RunsTo(t, x, s, w + 1, place, phase, stop)
    BY <2>1, <2>3, <2>4, <2>6, <2>7, <2>8, <1>3, <1>10, Zenon DEF RunsTo
  <2> QED BY <2>1, <2>9
<1> QED BY <1>3, <1>6, <1>8, <1>9, <1>10

(* The loop over the bytes of a job can be carried out.                     *)
Loop(c, bytes, drop, stop, k, f) ==
  f = [n \in 0 .. k |->
        IF n = 0 THEN Started(c, drop) ELSE Taken(f[n - 1], bytes[n], stop)]

(* live_grdvbt_outer_process_bytes' loop has a value for any bytes.         *)
LEMMA LoopExists ==
  ASSUME NEW c, NEW bytes, NEW drop, NEW stop
  PROVE  \A k \in Nat : \E f : Loop(c, bytes, drop, stop, k, f)
<1> DEFINE S == {k \in Nat : \E f : Loop(c, bytes, drop, stop, k, f)}
           Start == Started(c, drop)
           Then(p, n) == Taken(p, bytes[n], stop)
<1>1. 0 \in S
  <2>1. Loop(c, bytes, drop, stop, 0, [n \in 0 .. 0 |-> Start])
    BY DEF Loop
  <2> QED BY <2>1
<1>2. ASSUME NEW k \in Nat, k \in S PROVE k + 1 \in S
  <2>1. PICK f : Loop(c, bytes, drop, stop, k, f)
    BY <1>2
  <2>0. f = [n \in 0 .. k |-> IF n = 0 THEN Start ELSE Then(f[n - 1], n)]
    BY <2>1, Zenon DEF Loop
  <2> HIDE DEF Start, Then
  <2> DEFINE new == Then(f[k], k + 1)
             g == [n \in 0 .. k + 1 |-> IF n = k + 1 THEN new ELSE f[n]]
  <2>2. \A n \in 0 .. k : g[n] = f[n]
    OBVIOUS
  <2>3. \A n \in 0 .. k + 1 : g[n] = IF n = 0 THEN Start ELSE Then(g[n - 1], n)
    <3> TAKE n \in 0 .. k + 1
    <3>1. CASE n = k + 1
      <4>1. n # 0 /\ n - 1 = k /\ k \in 0 .. k /\ g[n] = new
        BY <3>1
      <4>2. g[n - 1] = f[k]
        BY <4>1, <2>2
      <4> HIDE DEF g
      <4> QED BY <3>1, <4>1, <4>2
    <3>2. CASE n # k + 1
      <4>1. n \in 0 .. k /\ (n # 0 => n - 1 \in 0 .. k)
        BY <3>2
      <4>2. f[n] = IF n = 0 THEN Start ELSE Then(f[n - 1], n)
        BY <2>0, <4>1, Zenon
      <4> HIDE DEF g
      <4> QED BY <4>1, <4>2, <2>2
    <3> QED BY <3>1, <3>2
  <2>4. g = [n \in 0 .. k + 1 |-> IF n = 0 THEN Start ELSE Then(g[n - 1], n)]
    <3>1. g = [n \in 0 .. k + 1 |-> g[n]]
      OBVIOUS
    <3> HIDE DEF g
    <3> QED BY <2>3, <3>1
  <2>5. Loop(c, bytes, drop, stop, k + 1, g)
    BY <2>4, Zenon DEF Loop, Start, Then
  <2> QED BY <2>5
<1>3. ASSUME NEW k \in Nat PROVE k \in S
  <2>1. \A n \in 0 .. k - 1 : n \in S => n + 1 \in S
    BY <1>2
  <2> HIDE DEF S
  <2>2. \A n \in 0 .. k : n \in S
    BY <1>1, <2>1, Upwards
  <2> QED BY <2>2
<1> QED BY <1>3

(* The run of all the bytes.                                                *)
LEMMA RunIs ==
  ASSUME NEW x \in [Int -> Int], NEW s \in Int, NEW w \in Int, NEW c, Holds(c, x, s, w),
         NEW bytes \in Seq(Int), NEW drop \in Nat, Dropping(Started(c, drop)), NEW stop \in Nat,
         \A n \in 1 .. Len(bytes) : bytes[n] = x[(w + n) - 1]
  PROVE  LET run == Process(c, bytes, drop, stop)
         IN  /\ run.unseen \in Nat
             /\ RunsTo(run, x, s, (w + Len(bytes)) - run.unseen,
                       (w - Len(c.block)) + drop, c.phase, stop)
<1> DEFINE N == Len(bytes)
           place == (w - Len(c.block)) + drop
           phase == c.phase
<1>0. N \in Nat
  OBVIOUS
<1>1. place \in Int /\ phase \in Int
  <2>1. Len(c.block) \in Nat /\ phase \in Int
    BY CadenceTypes, Zenon DEF Holds
  <2> QED BY <2>1
<1>2. PICK f : /\ f = [n \in 0 .. N |->
                        IF n = 0 THEN Started(c, drop) ELSE Taken(f[n - 1], bytes[n], stop)]
               /\ Process(c, bytes, drop, stop) = f[N]
  <2> HIDE DEF N
  <2>1. \E f : Loop(c, bytes, drop, stop, N, f)
    BY <1>0, LoopExists
  <2>2. \E f : f = [n \in 0 .. N |->
           IF n = 0 THEN Started(c, drop) ELSE Taken(f[n - 1], bytes[n], stop)]
    BY <2>1, Zenon DEF Loop
  <2> QED BY <2>2 DEF Process, N
<1>b. \A n \in 1 .. N : bytes[n] = x[(w + n) - 1]
  OBVIOUS
<1>c. RunsTo(Started(c, drop), x, s, w, place, phase, stop)
  BY RunsStart
<1> HIDE DEF N, place, phase
<1>3. /\ f[0] = Started(c, drop)
      /\ \A n \in 1 .. N : f[n] = Taken(f[n - 1], bytes[n], stop)
  <2>1. \A n \in 0 .. N : f[n] = IF n = 0 THEN Started(c, drop) ELSE Taken(f[n - 1], bytes[n], stop)
    BY <1>2, Zenon
  <2>2. 0 \in 0 .. N /\ \A n \in 1 .. N : n \in 0 .. N /\ n # 0
    BY <1>0
  <2> QED BY <2>1, <2>2, Zenon
<1>d. \A v \in Int : \A p, byte :
        RunsTo(p, x, s, v, place, phase, stop) /\ Fed(p, byte, x, v, stop) =>
          \/ /\ Taken(p, byte, stop).unseen = p.unseen + 1
             /\ RunsTo(Taken(p, byte, stop), x, s, v, place, phase, stop)
          \/ /\ Taken(p, byte, stop).unseen = p.unseen
             /\ RunsTo(Taken(p, byte, stop), x, s, v + 1, place, phase, stop)
  BY <1>1, RunsOn
<1> DEFINE Ok(n) == /\ f[n].unseen \in Nat
                    /\ RunsTo(f[n], x, s, (w + n) - f[n].unseen, place, phase, stop)
           S == {n \in 0 .. N : Ok(n)}
<1>4. 0 \in S
  <2>1. f[0].unseen = 0
    BY <1>3 DEF Started
  <2>2. (w + 0) - 0 = w /\ 0 \in Nat
    OBVIOUS
  <2>3. Ok(0)
    BY <2>1, <2>2, <1>3, <1>c, Zenon
  <2>4. 0 \in 0 .. N
    BY <1>0
  <2> QED BY <2>3, <2>4, Zenon
<1>5. ASSUME NEW n \in 0 .. N - 1, n \in S PROVE n + 1 \in S
  <2> DEFINE p == f[n]
             u == p.unseen
             v == (w + n) - u
             byte == bytes[n + 1]
             t == f[n + 1]
  <2>1. n + 1 \in 1 .. N /\ n + 1 \in 0 .. N /\ (n + 1) - 1 = n
    BY <1>0
  <2>2. t = Taken(p, byte, stop)
    BY <2>1, <1>3, Zenon
  <2>3. u \in Nat /\ RunsTo(p, x, s, v, place, phase, stop)
    BY <1>5, Zenon
  <2>4. Len(p.out) < stop => u = 0
    <3>1. p \in Runs /\ (p.unseen > 0 => Len(p.out) >= stop)
      BY <2>3, Zenon DEF RunsTo
    <3> QED BY <3>1, RunTypes, Zenon
  <2> HIDE DEF t, p, u
  <2>5. Len(p.out) < stop => byte = x[v]
    <3> SUFFICES ASSUME u = 0 PROVE byte = x[v]
      BY <2>4
    <3>1. byte = x[(w + (n + 1)) - 1]
      BY <2>1, <1>b, Zenon
    <3>2. (w + (n + 1)) - 1 = v
      BY <2>3
    <3> QED BY <3>1, <3>2
  <2>a. Fed(p, byte, x, v, stop)
    BY <2>5 DEF Fed
  <2>6. v \in Int
    BY <2>3
  <2> HIDE DEF v, byte
  <2>7. \/ t.unseen = p.unseen + 1 /\ RunsTo(t, x, s, v, place, phase, stop)
        \/ t.unseen = p.unseen /\ RunsTo(t, x, s, v + 1, place, phase, stop)
    BY <2>2, <2>3, <2>a, <2>6, <1>d, Zenon
  <2>8. t.unseen \in Nat /\ RunsTo(t, x, s, (w + (n + 1)) - t.unseen, place, phase, stop)
    <3>1. CASE t.unseen = p.unseen + 1 /\ RunsTo(t, x, s, v, place, phase, stop)
      <4>1. u + 1 \in Nat /\ (w + (n + 1)) - (u + 1) = v
        BY <2>3 DEF v
      <4> QED BY <3>1, <4>1, Zenon DEF u
    <3>2. CASE t.unseen = p.unseen /\ RunsTo(t, x, s, v + 1, place, phase, stop)
      <4>1. u \in Nat /\ (w + (n + 1)) - u = v + 1
        BY <2>3 DEF v
      <4> QED BY <3>2, <4>1, Zenon DEF u
    <3> QED BY <2>7, <3>1, <3>2
  <2>9. Ok(n + 1)
    BY <2>8, Zenon DEF t
  <2> HIDE DEF Ok
  <2> QED BY <2>1, <2>9
<1>6. \A n \in 0 .. N : n \in S
  <2> HIDE DEF S
  <2> QED BY <1>0, <1>4, <1>5, Upwards
<1>7. Ok(N)
  <2>1. N \in 0 .. N
    BY <1>0
  <2>2. N \in S
    BY <2>1, <1>6, Zenon
  <2> QED BY <2>2, Zenon
<1> QED BY <1>2, <1>7, Zenon DEF N, place, phase

(***************************************************************************)
(* What the packets of a run tell.                                         *)
(***************************************************************************)
\* No two of the totals are whole blocks apart.
Distinct(totals) == \A a, b \in totals : (a - b) % BlockLen = 0 => a = b

\* The phase is right for the block at `place', if bytes in it had lost one of
\* the totals before them that lets a block begin there.
Right(place, s, phase, totals) ==
  (place - s) % Branches = 0 =>
    \E lambda \in totals, q \in Int :
      /\ place + lambda = q * BlockLen
      /\ phase % Period = (q - (Branches - 1)) % Period

\* No block from `place' on is the m-th or an older one.
Floor(x, w, place, m) ==
  \A v \in Int : place - Transient <= v /\ v < w /\ x[v] # Bad =>
    LostBefore(x, v) + place >= (m + Branches) * BlockLen

\* Nothing came in wrong and nothing was lost.
Whole(x, s, w) == \A v \in Int : s <= v /\ v < w => x[v] # Bad /\ LostBefore(x, v) = 0

(* A block's places are branches.                                           *)
LEMMA PlaceBranch ==
  ASSUME NEW place \in Int, NEW s \in Int, NEW b \in Int
  PROVE  (BlocksFrom(place, b) - s) % Branches = (place - s) % Branches
<1> DEFINE a == place - s
<1>1. a \in Int
  OBVIOUS
<1>2. BlocksFrom(place, b) - s = a + b * BlockLen
  BY Counts DEF BlocksFrom
<1> HIDE DEF a
<1>3. (a + b * BlockLen) % Branches = a % Branches
  BY <1>1, BlocksAndBranches
<1> QED BY <1>2, <1>3 DEF a

(* Phases count on alike from one remainder.                                *)
LEMMA PhaseAdd ==
  ASSUME NEW a \in Int, NEW b \in Int, NEW c \in Int, a % Period = b % Period
  PROVE  (a + c) % Period = (b + c) % Period
<1>0. Period \in Nat /\ Period > 0
  BY Counts
<1>1. PICK k \in Int : a = b + Period * k
  BY ModSame, <1>0, Zenon
<1> DEFINE e == b + c
<1>2. e \in Int /\ a + c = e + Period * k
  BY <1>1, <1>0
<1> HIDE DEF e
<1>3. (e + Period * k) % Period = e % Period
  BY <1>2, ModShift, <1>0, Zenon
<1> QED BY <1>2, <1>3 DEF e

(* The phase goes along with the blocks.                                    *)
LEMMA RightMoves ==
  ASSUME NEW place \in Int, NEW s \in Int, NEW phase \in Int, NEW totals \in SUBSET Int,
         Right(place, s, phase, totals), NEW b \in Int
  PROVE  Right(BlocksFrom(place, b), s, (phase + b) % Period, totals)
<1> SUFFICES ASSUME (BlocksFrom(place, b) - s) % Branches = 0
             PROVE  \E lambda \in totals, q \in Int :
                      /\ BlocksFrom(place, b) + lambda = q * BlockLen
                      /\ ((phase + b) % Period) % Period = (q - (Branches - 1)) % Period
  BY DEF Right
<1>1. (place - s) % Branches = 0
  BY PlaceBranch
<1>2. PICK lambda \in totals, q \in Int :
        /\ place + lambda = q * BlockLen
        /\ phase % Period = (q - (Branches - 1)) % Period
  BY <1>1 DEF Right
<1>3. BlockLen \in Nat /\ Branches \in Nat /\ Period \in Nat /\ Period > 0
  BY Counts
<1>4. BlocksFrom(place, b) + lambda = (q + b) * BlockLen
  <2>1. (q + b) * BlockLen = q * BlockLen + b * BlockLen
    BY <1>3
  <2> QED BY <2>1, <1>2, <1>3 DEF BlocksFrom
<1> DEFINE n == q - (Branches - 1)
           f == phase + b
<1>5. n \in Int /\ f \in Int /\ (q + b) - (Branches - 1) = n + b /\ q + b \in Int
  BY <1>3
<1>6. f % Period = (n + b) % Period
  <2>1. phase % Period = n % Period
    BY <1>2
  <2> HIDE DEF n
  <2>2. (phase + b) % Period = (n + b) % Period
    BY <2>1, <1>5, PhaseAdd, ZenonT(60)
  <2> QED BY <2>2
<1>7. (f % Period) % Period = f % Period
  <2> HIDE DEF f
  <2> DEFINE r == f % Period
  <2>1. r \in 0 .. Period - 1
    BY <1>3, <1>5, Divide
  <2> HIDE DEF r
  <2>2. r % Period = r
    BY <2>1, <1>3, ModSmall
  <2> QED BY <2>2 DEF r
<1> HIDE DEF f, n
<1>8. (f % Period) % Period = ((q + b) - (Branches - 1)) % Period
  BY <1>5, <1>6, <1>7
<1> QED BY <1>4, <1>5, <1>8 DEF f

(* A packet is descrambled at its own place in the period.                  *)
LEMMA RightPacket ==
  ASSUME NEW x \in [Int -> Int], NEW s \in Int, NEW w \in Int, NEW totals \in SUBSET Int,
         SentBefore(x, w, totals), Distinct(totals), NEW v \in Int, v + BlockLen <= w,
         NEW phase \in Int, Right(v, s, phase, totals), NEW n \in Near(BlockAt(x, s, v))
  PROVE  phase % Period = n % Period
<1>0. BlockLen \in Nat /\ BlockLen > 0 /\ Branches \in Nat
  BY Counts
<1>1. /\ (v - s) % Branches = 0 /\ n \in Nat
      /\ \E u \in Int : /\ v - Transient <= u /\ u < v + BlockLen - Transient
                        /\ x[u] # Bad
                        /\ LostBefore(x, u) = (n + Branches) * BlockLen - (v + BlockLen)
  BY NumberTells
<1>2. PICK u \in Int : /\ v - Transient <= u /\ u < v + BlockLen - Transient
                       /\ x[u] # Bad
                       /\ LostBefore(x, u) = (n + Branches) * BlockLen - (v + BlockLen)
  BY <1>1
<1> DEFINE l == LostBefore(x, u)
<1>3. l \in totals
  <2>1. u < w
    BY <1>2, <1>0, Counts
  <2> QED BY <2>1, <1>2 DEF SentBefore
<1>4. PICK lambda \in totals, q \in Int :
        /\ v + lambda = q * BlockLen
        /\ phase % Period = (q - (Branches - 1)) % Period
  BY <1>1 DEF Right
<1> HIDE DEF l
<1> DEFINE j == (n + (Branches - 1)) - q
<1>5. l - lambda = BlockLen * j /\ j \in Int /\ l \in Int /\ lambda \in Int
  <2>1. l = (n + Branches) * BlockLen - (v + BlockLen)
    BY <1>2 DEF l
  <2>2. (n + Branches) * BlockLen = n * BlockLen + Branches * BlockLen
    BY <1>0, <1>1
  <2>3. BlockLen * j = (n * BlockLen + Branches * BlockLen) - BlockLen - q * BlockLen
    BY <1>0, <1>1
  <2>4. n * BlockLen \in Int /\ Branches * BlockLen \in Int /\ q * BlockLen \in Int
    BY <1>0, <1>1
  <2> HIDE DEF j
  <2> QED BY <2>1, <2>2, <2>3, <2>4, <1>0, <1>1, <1>4, <1>3 DEF j
<1> HIDE DEF j
<1>6. (l - lambda) % BlockLen = 0
  <2>1. (0 + BlockLen * j) % BlockLen = 0 % BlockLen
    BY <1>0, <1>5, ModShift
  <2>2. 0 % BlockLen = 0
    BY <1>0, ModSmall
  <2>3. 0 + BlockLen * j = l - lambda
    BY <1>5, <1>0
  <2> QED BY <2>1, <2>2, <2>3
<1>7. l = lambda
  BY <1>3, <1>6 DEF Distinct
<1>8. j = 0
  <2>1. BlockLen * j < BlockLen /\ BlockLen * j > -BlockLen
    BY <1>5, <1>7, <1>0
  <2> QED BY <2>1, <1>0, <1>5, MultipleSmall
<1>9. q - (Branches - 1) = n
  BY <1>8, <1>0, <1>1 DEF j
<1> QED BY <1>4, <1>9

(* A later block has a higher number, for a loss only delays what comes     *)
(* later.                                                                   *)
LEMMA BlocksInOrder ==
  ASSUME NEW x \in [Int -> Int], NEW s \in Int, NEW w \in Int, NEW totals \in SUBSET Int,
         SentBefore(x, w, totals), NEW v \in Int, NEW z \in Int,
         v + BlockLen <= z, z + BlockLen <= w,
         NEW n \in Near(BlockAt(x, s, v)), NEW m \in Near(BlockAt(x, s, z))
  PROVE  n < m
<1>0. BlockLen \in Nat /\ BlockLen > 0 /\ Branches \in Nat
  BY Counts
<1>z. v + BlockLen <= w
  BY <1>0
<1>1. /\ n \in Nat
      /\ \E u \in Int : /\ v - Transient <= u /\ u < v + BlockLen - Transient
                        /\ x[u] # Bad
                        /\ LostBefore(x, u) = (n + Branches) * BlockLen - (v + BlockLen)
  BY <1>z, NumberTells
<1>2. /\ m \in Nat
      /\ \E u \in Int : /\ z - Transient <= u /\ u < z + BlockLen - Transient
                        /\ x[u] # Bad
                        /\ LostBefore(x, u) = (m + Branches) * BlockLen - (z + BlockLen)
  BY NumberTells
<1>3. PICK u \in Int : /\ v - Transient <= u /\ u < v + BlockLen - Transient
                       /\ x[u] # Bad
                       /\ LostBefore(x, u) = (n + Branches) * BlockLen - (v + BlockLen)
  BY <1>1
<1>4. PICK t \in Int : /\ z - Transient <= t /\ t < z + BlockLen - Transient
                       /\ x[t] # Bad
                       /\ LostBefore(x, t) = (m + Branches) * BlockLen - (z + BlockLen)
  BY <1>2
<1>5. u < t /\ t < w
  BY <1>0, <1>3, <1>4, Counts
<1>6. LostBefore(x, u) <= LostBefore(x, t)
  BY <1>3, <1>4, <1>5 DEF SentBefore
<1>7. (n + Branches) * BlockLen + BlockLen <= (m + Branches) * BlockLen
  <2> DEFINE a == (n + Branches) * BlockLen
             c == (m + Branches) * BlockLen
  <2>1. a \in Int /\ c \in Int
    BY <1>0, <1>1, <1>2
  <2>2. a - (v + BlockLen) <= c - (z + BlockLen)
    BY <1>3, <1>4, <1>6
  <2> HIDE DEF a, c
  <2>3. a + BlockLen <= c
    BY <2>1, <2>2, <1>0
  <2> QED BY <2>3 DEF a, c
<1> SUFFICES ASSUME ~(n < m) PROVE FALSE
  OBVIOUS
<1>8. PICK d \in Nat : n = m + d
  <2>1. n - m \in Nat /\ n = m + (n - m)
    BY <1>1, <1>2
  <2> QED BY <2>1
<1>9. (n + Branches) * BlockLen = (m + Branches) * BlockLen + d * BlockLen /\ d * BlockLen >= 0
  BY <1>0, <1>2, <1>8
<1>10. (m + Branches) * BlockLen \in Int /\ d * BlockLen \in Int
  BY <1>0, <1>2
<1> QED BY <1>7, <1>9, <1>10, <1>0

(* No block from a place on is older than one that came before it.          *)
LEMMA FloorAfter ==
  ASSUME NEW x \in [Int -> Int], NEW s \in Int, NEW w \in Int, NEW totals \in SUBSET Int,
         SentBefore(x, w, totals), NEW v \in Int, NEW z \in Int,
         v + BlockLen <= z, z <= w, NEW n \in Near(BlockAt(x, s, v)), NEW lambda \in Int,
         \A l \in totals : l <= lambda
  PROVE  n \in Nat /\ Floor(x, w, z, n) /\ lambda + z >= (n + Branches) * BlockLen
<1>0. BlockLen \in Nat /\ BlockLen > 0 /\ Branches \in Nat /\ Transient \in Nat
  BY Counts
<1>z. v + BlockLen <= w
  BY <1>0
<1>1. /\ n \in Nat
      /\ \E u \in Int : /\ v - Transient <= u /\ u < v + BlockLen - Transient
                        /\ x[u] # Bad
                        /\ LostBefore(x, u) = (n + Branches) * BlockLen - (v + BlockLen)
  BY <1>z, NumberTells
<1>2. PICK u \in Int : /\ v - Transient <= u /\ u < v + BlockLen - Transient
                       /\ x[u] # Bad
                       /\ LostBefore(x, u) = (n + Branches) * BlockLen - (v + BlockLen)
  BY <1>1
<1> DEFINE a == (n + Branches) * BlockLen
           l == LostBefore(x, u)
<1>3. a \in Int /\ l = a - (v + BlockLen) /\ l \in Int
  BY <1>0, <1>1, <1>2
<1>4. l <= lambda
  <2>1. u < w
    BY <1>2, <1>0
  <2> QED BY <2>1, <1>2 DEF SentBefore
<1>5. ASSUME NEW t \in Int, z - Transient <= t, t < w, x[t] # Bad
      PROVE  LostBefore(x, t) + z >= a
  <2>1. u < t
    BY <1>5, <1>2, <1>0
  <2>2. l <= LostBefore(x, t)
    BY <2>1, <1>5, <1>2 DEF SentBefore
  <2>3. LostBefore(x, t) \in Int
    <3>1. x[t] \in Int
      OBVIOUS
    <3> QED BY <3>1, TimeType DEF LostBefore
  <2> HIDE DEF a, l
  <2> QED BY <2>2, <2>3, <1>3, <1>0
<1>6. lambda + z >= a
  <2> HIDE DEF a, l
  <2> QED BY <1>3, <1>4, <1>0
<1> QED BY <1>1, <1>5, <1>6 DEF Floor

(* And none is older than the oldest the place lets in.                     *)
LEMMA FloorHolds ==
  ASSUME NEW x \in [Int -> Int], NEW s \in Int, NEW w \in Int, NEW totals \in SUBSET Int,
         SentBefore(x, w, totals), NEW place \in Int, NEW m \in Int, Floor(x, w, place, m),
         NEW v \in Int, place <= v, v + BlockLen <= w, NEW n \in Near(BlockAt(x, s, v))
  PROVE  n > m
<1>0. BlockLen \in Nat /\ BlockLen > 0 /\ Branches \in Nat /\ Transient \in Nat
  BY Counts
<1>1. /\ n \in Nat
      /\ \E u \in Int : /\ v - Transient <= u /\ u < v + BlockLen - Transient
                        /\ x[u] # Bad
                        /\ LostBefore(x, u) = (n + Branches) * BlockLen - (v + BlockLen)
  BY NumberTells
<1>2. PICK u \in Int : /\ v - Transient <= u /\ u < v + BlockLen - Transient
                       /\ x[u] # Bad
                       /\ LostBefore(x, u) = (n + Branches) * BlockLen - (v + BlockLen)
  BY <1>1
<1> DEFINE a == (n + Branches) * BlockLen
           b == (m + Branches) * BlockLen
           l == LostBefore(x, u)
<1>3. a \in Int /\ b \in Int /\ l = a - (v + BlockLen) /\ l \in Int
  BY <1>0, <1>1, <1>2
<1>4. l + place >= b
  <2>1. place - Transient <= u /\ u < w
    BY <1>2, <1>0
  <2> QED BY <2>1, <1>2 DEF Floor
<1>5. a >= b + BlockLen
  <2> HIDE DEF a, b, l
  <2> QED BY <1>3, <1>4, <1>0
<1> SUFFICES ASSUME ~(n > m) PROVE FALSE
  OBVIOUS
<1>6. PICK d \in Nat : m = n + d
  <2>1. m - n \in Nat /\ m = n + (m - n)
    BY <1>1
  <2> QED BY <2>1
<1>7. b = a + d * BlockLen /\ d * BlockLen >= 0 /\ d * BlockLen \in Int
  BY <1>0, <1>1, <1>6
<1> HIDE DEF a, b
<1> QED BY <1>3, <1>5, <1>7, <1>0

(* Adding a multiple of Branches does not change the branch.                *)
LEMMA BranchZero ==
  ASSUME NEW a \in Int, NEW c \in Int, c % Branches = 0
  PROVE  (c + a) % Branches = a % Branches
<1>0. Branches \in Nat /\ Branches > 0
  BY Counts
<1> DEFINE k == c \div Branches
<1>1. k \in Int /\ c = Branches * k + (c % Branches)
  BY <1>0, Divide
<1> HIDE DEF k
<1>2. c + a = a + Branches * k
  BY <1>0, <1>1
<1>3. (a + Branches * k) % Branches = a % Branches
  BY <1>0, <1>1, ModShift
<1> QED BY <1>2, <1>3

(* Nothing wrong and nothing lost: what comes out at a place.               *)
LEMMA WholeOut ==
  ASSUME NEW x \in [Int -> Int], NEW s \in Int, NEW w \in Int, Whole(x, s, w),
         NEW v \in Int, v >= s + Transient, v < w
  PROVE  Out(x, s, v) = v - Delay((v - s) % Branches) - (v % Branches) * BlockLen
<1> DEFINE b == (v - s) % Branches
           u == v - Delay(b)
           p == x[u]
<1>0. BlockLen \in Nat /\ BlockLen > 0 /\ Branches \in Nat /\ Branches > 0 /\ Transient \in Nat
  BY Counts
<1>1. b \in Branch
  <2>1. v - s \in Int
    OBVIOUS
  <2> QED BY <2>1, BranchType
<1>2. Delay(b) \in Nat /\ Delay(b) <= Transient /\ Delay(b) = (Branches - 1 - b) * BlockLen
  <2> HIDE DEF b
  <2> QED BY <1>1, RowLens
<1>3. b \in Int /\ u \in Int /\ s <= u /\ u < w
  <2>1. b \in Int
    <3> HIDE DEF b
    <3> QED BY <1>1, <1>0 DEF Branch
  <2> HIDE DEF b
  <2> QED BY <2>1, <1>2, <1>0
<1>4. Time(p) = u /\ p \in Int
  <2> HIDE DEF u
  <2>1. LostBefore(x, u) = 0 /\ x[u] \in Int
    BY <1>3 DEF Whole
  <2>2. Time(x[u]) \in Int
    BY <2>1, TimeType
  <2> QED BY <2>1, <2>2, <1>3 DEF LostBefore
<1>5. p % Branches = v % Branches
  <2>1. p % Branches = u % Branches
    <3> HIDE DEF p, u
    <3> QED BY <1>4, TimeType
  <2> DEFINE k == -(Branches - 1 - b)
  <2>2. k \in Int /\ u = v + k * BlockLen
    <3> HIDE DEF b
    <3> QED BY <1>0, <1>2, <1>3
  <2> HIDE DEF k, u
  <2>3. (v + k * BlockLen) % Branches = v % Branches
    BY <2>2, BlocksAndBranches
  <2> QED BY <2>1, <2>2, <2>3
<1>6. p = u - (v % Branches) * BlockLen
  <2> DEFINE r == (v % Branches) * BlockLen
  <2>1. r \in Int
    BY <1>0
  <2>2. p + r = u
    BY <1>4, <1>5 DEF Time
  <2> HIDE DEF r, u, p
  <2>3. p = u - r
    BY <2>1, <2>2, <1>3, <1>4
  <2> QED BY <2>3 DEF r
<1> QED BY <1>6 DEF Out

\* The number of the block whose first byte comes out at the q-th block's place.
NumberAt(q) == q - (Branches - 1)

(* A whole block at its place is the block as it was sent.                  *)
LEMMA WholeBlock ==
  ASSUME NEW x \in [Int -> Int], NEW s \in Int, NEW w \in Int, Whole(x, s, w),
         NEW v \in Int, NEW q \in Int, v = q * BlockLen, (v - s) % Branches = 0,
         v >= s + Transient, v + BlockLen <= w
  PROVE  \A i \in 1 .. BlockLen : BlockAt(x, s, v)[i] = NumberAt(q) * BlockLen + i - 1
<1>0. BlockLen \in Nat /\ BlockLen > 0 /\ Branches \in Nat /\ Branches > 0 /\ Transient \in Nat
      /\ Transient = (Branches - 1) * BlockLen
  BY Counts, BlockSizes
<1> SUFFICES ASSUME NEW i \in 1 .. BlockLen
             PROVE  BlockAt(x, s, v)[i] = NumberAt(q) * BlockLen + i - 1
  OBVIOUS
<1> DEFINE z == v + (i - 1)
           a == i - 1
           b == a % Branches
<1>1. z \in Int /\ z >= s + Transient /\ z < w /\ a \in Int /\ z = v + a
  BY <1>0
<1>2. BlockAt(x, s, v)[i] = Out(x, s, z)
  <2>1. v + i - 1 = z
    BY <1>0
  <2> HIDE DEF z
  <2> QED BY <2>1 DEF BlockAt
<1>3. (z - s) % Branches = b
  <2> DEFINE c == v - s
  <2>1. c \in Int /\ c % Branches = 0
    OBVIOUS
  <2>2. z - s = c + a
    BY <1>1
  <2> HIDE DEF c, a, z
  <2>3. (c + a) % Branches = a % Branches
    BY <2>1, <1>1, BranchZero
  <2> QED BY <2>2, <2>3
<1>4. z % Branches = b
  <2> HIDE DEF a
  <2>1. (a + q * BlockLen) % Branches = a % Branches
    BY <1>1, BlocksAndBranches
  <2>2. a + q * BlockLen = z
    BY <1>1, <1>0
  <2> QED BY <2>1, <2>2
<1>5. b \in Branch
  <2> HIDE DEF a
  <2> QED BY <1>1, BranchType
<1>6. Delay(b) = Transient - b * BlockLen /\ b \in Int /\ Delay(b) \in Nat
  <2> HIDE DEF b
  <2> QED BY <1>5, RowLens, <1>0 DEF Branch
<1>7. Out(x, s, z) = z - Delay(b) - b * BlockLen
  <2> HIDE DEF z, b
  <2> QED BY <1>1, <1>3, <1>4, WholeOut
<1>8. z - Delay(b) - b * BlockLen = (v - Transient) + a
  <2> HIDE DEF b, a, z
  <2> DEFINE r == b * BlockLen
  <2>1. r \in Int
    BY <1>6, <1>0
  <2> HIDE DEF r
  <2>2. z - (Transient - r) - r = (v - Transient) + a
    BY <2>1, <1>0, <1>1
  <2> QED BY <2>2, <1>6 DEF r
<1>9. v - Transient = NumberAt(q) * BlockLen
  BY <1>0 DEF NumberAt
<1>10. NumberAt(q) * BlockLen \in Int
  BY <1>0 DEF NumberAt
<1> HIDE DEF z, b
<1> QED BY <1>2, <1>7, <1>8, <1>9, <1>10

(* It is clean, and no other number's.                                      *)
LEMMA WholeNear ==
  ASSUME NEW x \in [Int -> Int], NEW s \in Int, NEW w \in Int, Whole(x, s, w), NEW totals,
         SentBefore(x, w, totals),
         NEW v \in Int, NEW q \in Int, v = q * BlockLen, (v - s) % Branches = 0,
         v >= s + Transient, v + BlockLen <= w
  PROVE  /\ IsClean(BlockAt(x, s, v)) /\ BlockAt(x, s, v)[1] = NumberAt(q) * BlockLen
         /\ Near(BlockAt(x, s, v)) = {NumberAt(q)}
<1>0. BlockLen \in Nat /\ BlockLen > 0 /\ Branches \in Nat /\ Branches > 0 /\ Transient \in Nat
      /\ Correctable \in Nat
  BY Counts
<1> DEFINE block == BlockAt(x, s, v)
           n == NumberAt(q)
<1>1. \A i \in 1 .. BlockLen : block[i] = n * BlockLen + i - 1
  BY WholeBlock
<1>2. n \in Int /\ n * BlockLen \in Int
  BY <1>0 DEF NumberAt
<1>3. 1 \in 1 .. BlockLen
  BY <1>0
<1> HIDE DEF block, n
<1>4. block[1] = n * BlockLen
  BY <1>1, <1>2, <1>3
<1>5. IsClean(block)
  <2>1. \A i \in 2 .. BlockLen : i \in 1 .. BlockLen
    BY <1>0
  <2>2. \A i \in 2 .. BlockLen : block[i] = block[1] + i - 1
    BY <2>1, <1>1, <1>2, <1>4
  <2> QED BY <2>2 DEF IsClean
<1>6. n \in Near(block)
  <2>1. BlockOf(block[1]) = n
    <3>1. 0 \in 0 .. BlockLen - 1
      BY <1>0
    <3>2. (BlockLen * n + 0) \div BlockLen = n
      BY <3>1, <1>0, <1>2, ModUnique, Zenon
    <3>3. BlockLen * n + 0 = n * BlockLen
      BY <1>0, <1>2
    <3> QED BY <3>2, <3>3, <1>4 DEF BlockOf
  <2>2. Misplaced(block, n) = 0
    <3>1. {i \in 1 .. BlockLen : block[i] # n * BlockLen + i - 1} = {}
      BY <1>1
    <3> QED BY <3>1, FS_EmptySet DEF Misplaced
  <2> QED BY <2>1, <2>2, <1>3, <1>0 DEF Near
<1>7. ASSUME NEW m \in Near(block) PROVE m = n
  <2>1. /\ m \in Nat
        /\ \E u \in Int : /\ v - Transient <= u /\ u < v + BlockLen - Transient
                          /\ x[u] # Bad
                          /\ LostBefore(x, u) = (m + Branches) * BlockLen - (v + BlockLen)
    BY <1>7, NumberTells DEF block
  <2>2. PICK u \in Int : /\ v - Transient <= u /\ u < v + BlockLen - Transient
                         /\ x[u] # Bad
                         /\ LostBefore(x, u) = (m + Branches) * BlockLen - (v + BlockLen)
    BY <2>1
  <2>3. LostBefore(x, u) = 0
    <3>1. s <= u /\ u < w
      BY <2>2, <1>0
    <3> QED BY <3>1 DEF Whole
  <2> DEFINE j == (m + Branches) - (q + 1)
  <2>4. j \in Int /\ BlockLen * j = 0
    <3>1. BlockLen * j = (m + Branches) * BlockLen - (q * BlockLen + BlockLen)
      BY <2>1, <1>0
    <3>2. (m + Branches) * BlockLen \in Int /\ q * BlockLen \in Int
      BY <2>1, <1>0
    <3> HIDE DEF j
    <3>3. BlockLen * j = 0
      BY <3>1, <3>2, <2>2, <2>3, <1>0
    <3> QED BY <3>3, <2>1, <1>0 DEF j
  <2> HIDE DEF j
  <2>5. j = 0
    <3>1. BlockLen * j < BlockLen /\ BlockLen * j > -BlockLen
      BY <2>4, <1>0
    <3> QED BY <3>1, <1>0, <2>4, MultipleSmall
  <2> QED BY <2>5, <2>1, <1>0 DEF j, n, NumberAt
<1>8. Near(block) = {n}
  BY <1>6, <1>7
<1> QED BY <1>4, <1>5, <1>8 DEF block, n

(* A later block begins after an earlier one has ended.                     *)
LEMMA BlocksApart ==
  ASSUME NEW place \in Int, NEW a \in Int, NEW b \in Int, a < b
  PROVE  BlocksFrom(place, a) + BlockLen <= BlocksFrom(place, b)
<1>0. BlockLen \in Nat
  BY Counts
<1>1. PICK d \in Nat : b = a + 1 + d
  <2>1. b - a - 1 \in Nat /\ b = a + 1 + (b - a - 1)
    OBVIOUS
  <2> QED BY <2>1
<1>2. b * BlockLen = a * BlockLen + BlockLen + d * BlockLen /\ d * BlockLen >= 0
      /\ a * BlockLen \in Int /\ d * BlockLen \in Int
  BY <1>0, <1>1
<1> QED BY <1>0, <1>2 DEF BlocksFrom

\* The bytes to be dropped are over.
Settled(run) == run.drop = 0

\* Where the next block begins, and the newest packet's number.
After(run, w) == w - Len(run.c.block)

\* The number of the newest packet, m where there is none.
Newest(out, m) == IF out = <<>> THEN m ELSE out[Len(out)].number

\* The packets `out' come of the blocks at v, which lie between two places.
Between(v, out, x, s, place, end) ==
  /\ \A i \in 1 .. Len(out) : /\ out[i].number \in Near(BlockAt(x, s, v[i]))
                              /\ place <= v[i] /\ v[i] + BlockLen <= end
  /\ \A i, j \in 1 .. Len(out) : i < j => v[i] + BlockLen <= v[j]

\* Each packet is of one of the blocks from `place' on, and descrambled at its
\* place in the period.
OfBlocks(v, k, out, place, phase) ==
  \A i \in 1 .. Len(out) :
    /\ k[i] \in Nat /\ v[i] = BlocksFrom(place, k[i])
    /\ out[i].phase = (phase + k[i]) % Period

\* The same for the first `blocks' blocks.
Made(v, k, out, blocks, x, s, place, phase, end) ==
  /\ Emitted(out, blocks, k, x, s, place, phase)
  /\ OfBlocks(v, k, out, place, phase)
  /\ Between(v, out, x, s, place, end)

\* What a settled run has come to.
Ran(run, x, s, w, place, phase) ==
  /\ run.out \in Seq(Packets) /\ run.blocks \in Nat /\ Len(run.out) \in Nat
  /\ After(run, w) = BlocksFrom(place, run.blocks)
  /\ After(run, w) \in Int /\ After(run, w) <= w /\ place <= After(run, w)
  /\ run.c.phase = (phase + run.blocks) % Period
  /\ \E v \in [1 .. Len(run.out) -> Int] : \E k :
       Made(v, k, run.out, run.blocks, x, s, place, phase, After(run, w))

(* The blocks of a run's packets lie between its ends.                      *)
LEMMA RunPackets ==
  ASSUME NEW x, NEW s, NEW w \in Int, NEW place \in Int, NEW phase \in Int, NEW stop,
         NEW run, RunsTo(run, x, s, w, place, phase, stop), Settled(run)
  PROVE  Ran(run, x, s, w, place, phase)
<1> DEFINE N == Len(run.out)
           M == Len(run.c.block)
           b == run.blocks
           P == After(run, w)
<1>1. /\ run \in Runs
      /\ (w - M) + run.drop = BlocksFrom(place, b)
      /\ run.c.phase = (phase + b) % Period
  BY Zenon DEF RunsTo
<1>2. PICK k : Emitted(run.out, b, k, x, s, place, phase)
  BY Zenon DEF RunsTo
<1>3. run.out \in Seq(Packets) /\ b \in Nat /\ N \in Nat /\ M \in Nat
  BY <1>1, RunTypes, Zenon
<1>4. (w - M) + 0 = BlocksFrom(place, b) /\ P = w - M
  BY <1>1, Zenon DEF After, Settled
<1> HIDE DEF M, P, b
<1>5. /\ BlocksFrom(place, b) \in Int /\ BlocksFrom(place, 0) = place
      /\ place <= BlocksFrom(place, b)
  <2>1. BlocksFrom(place, b) \in Int
    BY <1>3, NextBlock
  <2>2. BlocksFrom(place, 0) = place
    BY Counts DEF BlocksFrom
  <2>3. CASE b = 0
    BY <2>2, <2>3
  <2>4. CASE b # 0
    <3>1. BlocksFrom(place, 0) + BlockLen <= BlocksFrom(place, b)
      BY <2>4, <1>3, BlocksApart
    <3> QED BY <3>1, <2>1, <2>2, Counts
  <2> QED BY <2>1, <2>2, <2>3, <2>4
<1>6. P = BlocksFrom(place, b) /\ P \in Int /\ P <= w /\ place <= P
  BY <1>3, <1>4, <1>5
<1> DEFINE v == [i \in 1 .. N |-> BlocksFrom(place, k[i])]
<1>7. /\ k \in [1 .. N -> Nat]
      /\ \A i \in 1 .. N :
           /\ k[i] < b
           /\ run.out[i].number \in Near(BlockAt(x, s, BlocksFrom(place, k[i])))
           /\ run.out[i].phase = (phase + k[i]) % Period
      /\ \A i, j \in 1 .. N : i < j => k[i] < k[j]
  BY <1>2, Zenon DEF Emitted
<1> HIDE DEF N
<1>8. \A i \in 1 .. N : k[i] \in Nat /\ v[i] = BlocksFrom(place, k[i]) /\ BlocksFrom(place, k[i]) \in Int
  <2> SUFFICES ASSUME NEW i \in 1 .. N
               PROVE  k[i] \in Nat /\ v[i] = BlocksFrom(place, k[i]) /\ BlocksFrom(place, k[i]) \in Int
    OBVIOUS
  <2>1. k[i] \in Nat
    <3>1. k \in [1 .. N -> Nat]
      BY <1>7
    <3> QED BY <3>1
  <2>2. \A b1 \in Nat : BlocksFrom(place, b1) \in Int
    BY NextBlock
  <2>3. v[i] = BlocksFrom(place, k[i])
    OBVIOUS
  <2> QED BY <2>1, <2>2, <2>3
<1>9. v \in [1 .. N -> Int]
  BY <1>8
<1> HIDE DEF v
<1>10. ASSUME NEW i \in 1 .. N PROVE place <= v[i] /\ v[i] + BlockLen <= P
  <2>1. k[i] \in Nat /\ k[i] < b /\ v[i] = BlocksFrom(place, k[i]) /\ v[i] \in Int
    BY <1>7, <1>8
  <2>2. v[i] + BlockLen <= P
    BY <2>1, <1>3, <1>6, BlocksApart
  <2>3. CASE k[i] = 0
    BY <2>1, <2>2, <2>3, <1>5
  <2>4. CASE k[i] # 0
    <3>1. BlocksFrom(place, 0) + BlockLen <= BlocksFrom(place, k[i])
      BY <2>1, <2>4, BlocksApart
    <3> QED BY <3>1, <2>1, <2>2, <1>5, Counts
  <2> QED BY <2>3, <2>4
<1>11. ASSUME NEW i \in 1 .. N, NEW j \in 1 .. N, i < j PROVE v[i] + BlockLen <= v[j]
  <2>1. k[i] \in Int /\ k[j] \in Int /\ k[i] < k[j]
    BY <1>7, <1>8, <1>11
  <2>2. BlocksFrom(place, k[i]) + BlockLen <= BlocksFrom(place, k[j])
    BY <2>1, BlocksApart
  <2> QED BY <2>2, <1>8
<1>12. OfBlocks(v, k, run.out, place, phase)
  BY <1>7, <1>8, Zenon DEF N, OfBlocks
<1>13. Between(v, run.out, x, s, place, P)
  BY <1>7, <1>8, <1>10, <1>11, Zenon DEF Between, N
<1>14. \E u \in [1 .. N -> Int] : \E l : Made(u, l, run.out, b, x, s, place, phase, P)
  BY <1>2, <1>9, <1>12, <1>13, Zenon DEF Made
<1> QED BY <1>1, <1>3, <1>6, <1>14, Zenon DEF N, b, P, Ran

\* N blocks in order between two places.
Lined(v, N, place, end) ==
  /\ \A i \in 1 .. N : place <= v[i] /\ v[i] + BlockLen <= end
  /\ \A i, j \in 1 .. N : i < j => v[i] + BlockLen <= v[j]

\* The last of N numbers, m where there is none.
Latest(new, N, number, m) == new = IF N = 0 THEN m ELSE number[N]

(* Packets of blocks in order are in order, and none is older than it could *)
(* be.                                                                      *)
LEMMA PacketsInOrder ==
  ASSUME NEW x \in [Int -> Int], NEW s \in Int, NEW w \in Int, NEW place \in Int, NEW end \in Int,
         place <= end, end <= w, NEW totals \in SUBSET Int, SentBefore(x, w, totals),
         NEW lambda \in Int, \A l \in totals : l <= lambda,
         NEW m \in Int, Floor(x, w, place, m), lambda + place >= (m + Branches) * BlockLen,
         NEW N \in Nat, NEW v \in [1 .. N -> Int], NEW number,
         \A i \in 1 .. N : number[i] \in Near(BlockAt(x, s, v[i])), Lined(v, N, place, end),
         NEW new, Latest(new, N, number, m)
  PROVE  /\ \A i \in 1 .. N : number[i] > m
         /\ \A i \in 2 .. N : number[i] > number[i - 1]
         /\ new \in Int /\ new >= m
         /\ Floor(x, w, end, new)
         /\ lambda + end >= (new + Branches) * BlockLen
<1>3. BlockLen \in Nat /\ BlockLen > 0 /\ Branches \in Nat /\ Transient \in Nat
  BY Counts
<1>1. \A i \in 1 .. N : place <= v[i] /\ v[i] + BlockLen <= end
  BY DEF Lined
<1>2. \A i, j \in 1 .. N : i < j => v[i] + BlockLen <= v[j]
  BY DEF Lined
<1>4. \A i \in 1 .. N : v[i] \in Int /\ v[i] + BlockLen <= w
  <2> SUFFICES ASSUME NEW i \in 1 .. N PROVE v[i] \in Int /\ v[i] + BlockLen <= w
    OBVIOUS
  <2> DEFINE y == v[i]
  <2>1. y \in Int /\ y + BlockLen <= end
    BY <1>1
  <2> HIDE DEF y
  <2>2. y + BlockLen <= w
    BY <2>1, <1>3
  <2> QED BY <2>1, <2>2 DEF y
<1>5. ASSUME NEW i \in 1 .. N PROVE number[i] > m
  <2>1. v[i] \in Int /\ place <= v[i] /\ v[i] + BlockLen <= w /\ number[i] \in Near(BlockAt(x, s, v[i]))
    BY <1>1, <1>4
  <2> QED BY <2>1, FloorHolds
<1>6. ASSUME NEW i \in 2 .. N PROVE number[i] > number[i - 1]
  <2>1. i \in 1 .. N /\ i - 1 \in 1 .. N /\ i - 1 < i
    OBVIOUS
  <2>2. /\ v[i] \in Int /\ v[i - 1] \in Int /\ v[i - 1] + BlockLen <= v[i] /\ v[i] + BlockLen <= w
        /\ number[i] \in Near(BlockAt(x, s, v[i]))
        /\ number[i - 1] \in Near(BlockAt(x, s, v[i - 1]))
        /\ v[i - 1] + BlockLen <= w
    BY <2>1, <1>2, <1>4
  <2> DEFINE a == number[i]
             b == number[i - 1]
             y == v[i]
             z == v[i - 1]
  <2>3. /\ y \in Int /\ z \in Int /\ z + BlockLen <= y /\ y + BlockLen <= w /\ z + BlockLen <= w
        /\ a \in Near(BlockAt(x, s, y)) /\ b \in Near(BlockAt(x, s, z))
    BY <2>2
  <2> HIDE DEF a, b, y, z
  <2>4. b < a
    BY <2>3, BlocksInOrder
  <2>5. a \in Nat /\ b \in Nat
    BY <2>3, NumberTells
  <2> QED BY <2>4, <2>5 DEF a, b
<1>7. CASE N = 0
  <2>1. new = m
    BY <1>7 DEF Latest
  <2>2. Floor(x, w, end, m)
    <3> SUFFICES ASSUME NEW t \in Int, end - Transient <= t, t < w, x[t] # Bad
                 PROVE  LostBefore(x, t) + end >= (m + Branches) * BlockLen
      BY DEF Floor
    <3>1. place - Transient <= t
      BY <1>3
    <3>2. LostBefore(x, t) + place >= (m + Branches) * BlockLen
      BY <3>1 DEF Floor
    <3>3. LostBefore(x, t) \in Int
      <4>1. x[t] \in Int
        OBVIOUS
      <4>2. Time(x[t]) \in Int
        BY <4>1, TimeType
      <4> QED BY <4>2 DEF LostBefore
    <3>4. (m + Branches) * BlockLen \in Int
      BY <1>3
    <3> QED BY <3>2, <3>3, <3>4, SMTT(60)
  <2>3. lambda + end >= (m + Branches) * BlockLen
    <3>1. (m + Branches) * BlockLen \in Int
      BY <1>3
    <3> QED BY <3>1
  <2>4. m >= m
    OBVIOUS
  <2> QED BY <2>1, <2>2, <2>3, <2>4, <1>5, <1>6
<1>8. CASE N # 0
  <2>1. N \in 1 .. N /\ new = number[N]
    BY <1>8 DEF Latest
  <2>2. /\ v[N] \in Int /\ v[N] + BlockLen <= end
        /\ number[N] \in Near(BlockAt(x, s, v[N]))
    BY <2>1, <1>1
  <2>3. number[N] \in Nat /\ Floor(x, w, end, number[N])
        /\ lambda + end >= (number[N] + Branches) * BlockLen
    BY <2>2, FloorAfter
  <2>4. number[N] > m
    BY <2>1, <1>5
  <2> DEFINE a == number[N]
  <2>5. a \in Int /\ a >= m /\ new = a /\ Floor(x, w, end, a)
        /\ lambda + end >= (a + Branches) * BlockLen
    <3>1. a \in Nat /\ a > m
      BY <2>3, <2>4
    <3> HIDE DEF a
    <3>2. a \in Int /\ a >= m
      BY <3>1
    <3> QED BY <2>1, <2>3, <3>2, Zenon DEF a
  <2> HIDE DEF a
  <2>6. /\ new \in Int /\ new >= m /\ Floor(x, w, end, new)
        /\ lambda + end >= (new + Branches) * BlockLen
    BY <2>5, Zenon
  <2> QED BY <2>6, <1>5, <1>6
<1> QED BY <1>7, <1>8

\* The packets are newer than the m-th and in order.
Later(out, m) ==
  /\ \A i \in 1 .. Len(out) : out[i].number > m
  /\ \A i \in 2 .. Len(out) : out[i].number > out[i - 1].number

(* The packets of a run are newer than all before it, and in order.         *)
LEMMA RunOrder ==
  ASSUME NEW x \in [Int -> Int], NEW s \in Int, NEW w \in Int, NEW place \in Int,
         NEW phase \in Int, NEW stop, NEW run, RunsTo(run, x, s, w, place, phase, stop),
         Settled(run), NEW totals \in SUBSET Int, SentBefore(x, w, totals),
         NEW lambda \in Int, \A l \in totals : l <= lambda,
         NEW m \in Int, Floor(x, w, place, m), lambda + place >= (m + Branches) * BlockLen
  PROVE  /\ Later(run.out, m)
         /\ Newest(run.out, m) \in Int /\ Newest(run.out, m) >= m
         /\ Floor(x, w, After(run, w), Newest(run.out, m))
         /\ lambda + After(run, w) >= (Newest(run.out, m) + Branches) * BlockLen
<1> DEFINE out == run.out
           N == Len(out)
           end == After(run, w)
           new == Newest(out, m)
           number == [i \in 1 .. N |-> out[i].number]
<1>1. /\ N \in Nat /\ out \in Seq(Packets) /\ end \in Int /\ end <= w /\ place <= end
      /\ \E v \in [1 .. N -> Int] : \E k : Made(v, k, out, run.blocks, x, s, place, phase, end)
  BY RunPackets, Zenon DEF Ran
<1>2. PICK v \in [1 .. N -> Int] : Between(v, out, x, s, place, end)
  BY <1>1, Zenon DEF Made
<1> HIDE DEF out, end
<1>3. new = IF N = 0 THEN m ELSE number[N]
  <2>1. N = 0 <=> out = <<>>
    BY <1>1
  <2>2. N # 0 => N \in 1 .. N
    BY <1>1
  <2> QED BY <2>1, <2>2, Zenon DEF Newest
<1>4. \A i \in 1 .. N : number[i] = out[i].number
  OBVIOUS
<1>5. \A i \in 2 .. N : i \in 1 .. N /\ i - 1 \in 1 .. N
  BY <1>1
<1> HIDE DEF N, new, number
<1>6. /\ \A i \in 1 .. N : number[i] \in Near(BlockAt(x, s, v[i]))
      /\ Lined(v, N, place, end)
  BY <1>2, <1>4, Zenon DEF Between, N, Lined
<1>9. Latest(new, N, number, m)
  BY <1>3, Zenon DEF Latest
<1>7. /\ \A i \in 1 .. N : number[i] > m
      /\ \A i \in 2 .. N : number[i] > number[i - 1]
      /\ new \in Int /\ new >= m
      /\ Floor(x, w, end, new)
      /\ lambda + end >= (new + Branches) * BlockLen
  BY <1>1, <1>2, <1>9, <1>6, PacketsInOrder
<1>8. Later(out, m)
  BY <1>4, <1>5, <1>7, Zenon DEF Later, N
<1> QED BY <1>7, <1>8, Zenon DEF new, out, end

(* The remainder of a remainder.                                            *)
LEMMA PhaseTwice ==
  ASSUME NEW a \in Int
  PROVE  a % Period \in Int /\ (a % Period) % Period = a % Period
<1> DEFINE r == a % Period
<1>0. Period \in Nat /\ Period > 0
  BY Counts
<1>1. r \in 0 .. Period - 1
  BY <1>0, Divide
<1> HIDE DEF r
<1>2. r % Period = r /\ r \in Int
  BY <1>0, <1>1, ModSmall
<1> QED BY <1>2 DEF r

\* What RightPacket and WholeNear say of all blocks.
RightFor(x, s, w, totals) ==
  \A y \in Int, g \in Int : \A n \in Near(BlockAt(x, s, y)) :
    y + BlockLen <= w /\ Right(y, s, g, totals) => g % Period = n % Period

\* What WholeNear says of all blocks.
NearFor(x, s, w) ==
  \A y \in Int, r \in Int :
    /\ y = r * BlockLen /\ (y - s) % Branches = 0
    /\ y >= s + Transient /\ y + BlockLen <= w
    => Near(BlockAt(x, s, y)) = {NumberAt(r)}

(* Every block that can be corrected has its own phase.                     *)
LEMMA BlocksRight ==
  ASSUME NEW x \in [Int -> Int], NEW s \in Int, NEW w \in Int, NEW totals \in SUBSET Int,
         SentBefore(x, w, totals), Distinct(totals)
  PROVE  RightFor(x, s, w, totals)
BY RightPacket DEF RightFor

(* Where nothing is wrong or lost every block can be corrected.             *)
LEMMA WholeNears ==
  ASSUME NEW x \in [Int -> Int], NEW s \in Int, NEW w \in Int, Whole(x, s, w), NEW totals,
         SentBefore(x, w, totals)
  PROVE  NearFor(x, s, w)
BY WholeNear DEF NearFor

\* Every packet is descrambled at its own place in the period.
RightOut(out) == \A i \in 1 .. Len(out) : out[i].phase = out[i].number % Period

(* The packets of a run are descrambled at their own place in the period.   *)
LEMMA RunRight ==
  ASSUME NEW x \in [Int -> Int], NEW s \in Int, NEW w \in Int, NEW place \in Int,
         NEW phase \in Int, NEW stop, NEW run, RunsTo(run, x, s, w, place, phase, stop),
         Settled(run), NEW totals \in SUBSET Int, SentBefore(x, w, totals),
         Distinct(totals), Right(place, s, phase, totals)
  PROVE  RightOut(run.out) /\ Right(After(run, w), s, run.c.phase, totals)
<1>r. RightFor(x, s, w, totals)
  BY BlocksRight, Zenon
<1> DEFINE out == run.out
           N == Len(out)
           end == After(run, w)
           blocks == run.blocks
<1>p. Ran(run, x, s, w, place, phase)
  BY RunPackets, Zenon
<1>a. end \in Int /\ end <= w /\ place <= end /\ blocks \in Nat
  BY <1>p, Zenon DEF Ran
<1>b. end = BlocksFrom(place, blocks) /\ run.c.phase = (phase + blocks) % Period
  BY <1>p DEF Ran
<1>c. \E v \in [1 .. N -> Int] : \E k : Made(v, k, out, blocks, x, s, place, phase, end)
  BY <1>p, Zenon DEF Ran
<1>1. /\ end \in Int /\ end <= w /\ blocks \in Nat /\ end = BlocksFrom(place, blocks)
      /\ run.c.phase = (phase + blocks) % Period
  BY <1>a, <1>b
<1>d. PICK v \in [1 .. N -> Int] : \E k : Made(v, k, out, blocks, x, s, place, phase, end)
  BY <1>c, Zenon
<1>2. PICK k : Made(v, k, out, blocks, x, s, place, phase, end)
  BY <1>d, Zenon
<1>m. /\ \A i \in 1 .. N : /\ k[i] \in Nat /\ v[i] = BlocksFrom(place, k[i])
                           /\ out[i].phase = (phase + k[i]) % Period
      /\ Between(v, out, x, s, place, end)
  BY <1>2, Zenon DEF Made, OfBlocks
<1>3. Right(end, s, run.c.phase, totals)
  <2> HIDE DEF end, blocks
  <2>1. blocks \in Int
    BY <1>1
  <2>2. Right(BlocksFrom(place, blocks), s, (phase + blocks) % Period, totals)
    BY <2>1, RightMoves
  <2> QED BY <2>2, <1>1
<1>4. ASSUME NEW i \in 1 .. N PROVE out[i].phase = out[i].number % Period
  <2> DEFINE y == v[i]
             b == k[i]
             n == out[i].number
             f == phase + b
  <2>1. /\ b \in Nat /\ y = BlocksFrom(place, b) /\ out[i].phase = f % Period
        /\ n \in Near(BlockAt(x, s, y)) /\ y + BlockLen <= end
    BY <1>m, Zenon DEF Between
  <2>2. y \in Int
    OBVIOUS
  <2>e. end \in Int /\ end <= w
    BY <1>1, Zenon
  <2> HIDE DEF y, b, n, out, end
  <2>3. f \in Int
    BY <2>1
  <2>4. Right(y, s, f % Period, totals)
    <3>1. b \in Int
      BY <2>1
    <3>2. Right(BlocksFrom(place, b), s, (phase + b) % Period, totals)
      BY <3>1, RightMoves
    <3> QED BY <3>2, <2>1
  <2>b. y + BlockLen <= end
    BY <2>1
  <2>l. BlockLen \in Nat
    BY Counts
  <2>5. y + BlockLen <= w
    <3>1. \A p \in Int, q \in Int, r \in Int, l \in Nat : p + l <= q /\ q <= r => p + l <= r
      OBVIOUS
    <3> QED BY <3>1, <2>b, <2>l, <2>2, <2>e, Zenon
  <2> HIDE DEF f
  <2> DEFINE g == f % Period
  <2>6. g \in Int /\ g % Period = g
    BY <2>3, PhaseTwice
  <2>7. Right(y, s, g, totals)
    BY <2>4
  <2> HIDE DEF g
  <2>8. g % Period = n % Period
    <3>1. n \in Near(BlockAt(x, s, y))
      BY <2>1
    <3>2. g \in Int
      BY <2>6
    <3> HIDE DEF N
    <3> QED BY <3>1, <3>2, <2>2, <2>5, <2>7, <1>r, Zenon DEF RightFor
  <2> QED BY <2>1, <2>6, <2>8 DEF g, n
<1>5. RightOut(out)
  BY <1>4 DEF RightOut
<1> QED BY <1>3, <1>5

\* The packets are numbered from n on, none left out.
NumbersFrom(out, n) == \A i \in 1 .. Len(out) : out[i].number = n + (i - 1)

(* No block is missing from a run through bytes of which none is wrong or   *)
(* lost.                                                                    *)
LEMMA RunWhole ==
  ASSUME NEW x \in [Int -> Int], NEW s \in Int, NEW w \in Int, NEW place \in Int,
         NEW phase \in Int, NEW stop, NEW run, RunsTo(run, x, s, w, place, phase, stop),
         Settled(run), NEW totals, SentBefore(x, w, totals), Whole(x, s, w),
         NEW q \in Int, place = q * BlockLen, (place - s) % Branches = 0,
         place >= s + Transient
  PROVE  /\ Len(run.out) = run.blocks /\ NumbersFrom(run.out, NumberAt(q))
         /\ After(run, w) = (q + run.blocks) * BlockLen
         /\ (After(run, w) - s) % Branches = 0 /\ After(run, w) >= s + Transient
<1>w. NearFor(x, s, w)
  BY WholeNears, Zenon
<1> DEFINE out == run.out
           N == Len(out)
           end == After(run, w)
           blocks == run.blocks
<1>p. Ran(run, x, s, w, place, phase)
  BY RunPackets, Zenon
<1>a. end \in Int /\ end <= w /\ place <= end /\ blocks \in Nat
  BY <1>p, Zenon DEF Ran
<1>b. end = BlocksFrom(place, blocks)
  BY <1>p DEF Ran
<1>c. \E v \in [1 .. N -> Int] : \E k : Made(v, k, out, blocks, x, s, place, phase, end)
  BY <1>p, Zenon DEF Ran
<1>d. PICK v \in [1 .. N -> Int] : \E k : Made(v, k, out, blocks, x, s, place, phase, end)
  BY <1>c, Zenon
<1>2. PICK k : Made(v, k, out, blocks, x, s, place, phase, end)
  BY <1>d, Zenon
<1>3. Emitted(out, blocks, k, x, s, place, phase)
  BY <1>2, Zenon DEF Made
<1>4. \A i \in 1 .. N : out[i].number \in Near(BlockAt(x, s, BlocksFrom(place, k[i])))
  BY <1>3, Zenon DEF Emitted
<1>e. end \in Int /\ end <= w /\ blocks \in Nat /\ end = BlocksFrom(place, blocks) /\ place <= end
  BY <1>a, <1>b
<1> HIDE DEF out, N, end, blocks
<1>0. BlockLen \in Nat /\ BlockLen > 0 /\ Transient \in Nat
  BY Counts
<1>f. place = q * BlockLen /\ place >= s + Transient /\ (place - s) % Branches = 0
  OBVIOUS
<1>5. ASSUME NEW b \in 0 .. blocks - 1
      PROVE  Near(BlockAt(x, s, BlocksFrom(place, b))) = {NumberAt(q) + b}
  <2> DEFINE y == BlocksFrom(place, b)
             r == q + b
  <2>1. y \in Int /\ y = r * BlockLen /\ r \in Int
    <3>1. r * BlockLen = q * BlockLen + b * BlockLen /\ q * BlockLen \in Int /\ b * BlockLen \in Int
      BY <1>0
    <3> QED BY <3>1, <1>f, <1>0 DEF BlocksFrom
  <2>2. (y - s) % Branches = 0
    BY <1>f, PlaceBranch
  <2>3. y >= place
    <3>1. b * BlockLen >= 0 /\ b * BlockLen \in Int
      BY <1>0
    <3> QED BY <3>1 DEF BlocksFrom
  <2>4. y + BlockLen <= w
    <3>1. b \in Int /\ blocks \in Int /\ b < blocks
      BY <1>e
    <3>2. BlocksFrom(place, b) + BlockLen <= BlocksFrom(place, blocks)
      BY <3>1, BlocksApart
    <3> QED BY <3>2, <2>1, <1>e, <1>0
  <2>5. y >= s + Transient
    BY <2>1, <2>3, <1>f, <1>0
  <2> HIDE DEF y, r
  <2>6. Near(BlockAt(x, s, y)) = {NumberAt(r)}
    <3>1. y \in Int /\ r \in Int
      BY <2>1
    <3>2. y = r * BlockLen
      BY <2>1
    <3> QED BY <3>1, <3>2, <2>2, <2>4, <2>5, <1>w, Zenon DEF NearFor
  <2>7. NumberAt(r) = NumberAt(q) + b
    BY Counts DEF NumberAt, r
  <2> QED BY <2>6, <2>7 DEF y
<1>6. N = blocks /\ \A i \in 1 .. N : k[i] = i - 1
  <2>1. \A b \in 0 .. blocks - 1 : Near(BlockAt(x, s, BlocksFrom(place, b))) # {}
    BY <1>5
  <2> QED BY <1>3, <2>1, Zenon DEF Emitted, N
<1>7. ASSUME NEW i \in 1 .. N PROVE out[i].number = NumberAt(q) + (i - 1)
  <2>1. i - 1 \in 0 .. blocks - 1 /\ k[i] = i - 1
    BY <1>6, <1>e
  <2>2. out[i].number \in Near(BlockAt(x, s, BlocksFrom(place, i - 1)))
    BY <2>1, <1>4
  <2> QED BY <2>1, <2>2, <1>5
<1>8. end = (q + blocks) * BlockLen
  <2>1. (q + blocks) * BlockLen = q * BlockLen + blocks * BlockLen
    BY <1>0, <1>e
  <2> QED BY <2>1, <1>e, <1>f DEF BlocksFrom
<1>9. (end - s) % Branches = 0
  BY <1>e, <1>f, PlaceBranch
<1>10. end >= s + Transient
  BY <1>e, <1>f, <1>0
<1>11. NumbersFrom(out, NumberAt(q))
  BY <1>7 DEF NumbersFrom, N
<1> QED BY <1>6, <1>8, <1>9, <1>10, <1>11, Zenon DEF out, N, end, blocks

(***************************************************************************)
(* The stream, and the runs of a job through it.                           *)
(***************************************************************************)
\* The stream with the bytes of a job, and without those before a place.
Extended(x, w, bytes) ==
  [v \in Int |-> IF v < w THEN x[v] ELSE IF v < w + Len(bytes) THEN bytes[(v - w) + 1] ELSE Bad]

\* The stream as a deinterleaver begun at s sees it.
CutAt(x, s) == [v \in Int |-> IF v < s THEN Bad ELSE x[v]]

\* What the stream with the bytes of a job is like.
Extends(y, x, w, bytes) ==
  /\ y \in [Int -> Int]
  /\ \A v \in Int : v < w => y[v] = x[v]
  /\ \A i \in 1 .. Len(bytes) : bytes[i] = y[(w + i) - 1]
  /\ \A v \in Int : w <= v /\ v < w + Len(bytes) =>
       /\ (v - w) + 1 \in 1 .. Len(bytes) /\ y[v] = bytes[(v - w) + 1]

(* What is received are integers, each bad or sent at its time.             *)
LEMMA ReceivedIs ==
  ASSUME sent \in Nat, sent >= Transient, NEW n \in Nat, NEW bad
  PROVE  /\ Received(n, bad) \in Seq(Int) /\ Len(Received(n, bad)) = n
         /\ \A i \in 1 .. n :
              \/ Received(n, bad)[i] = Bad
              \/ /\ Received(n, bad)[i] \in Nat
                 /\ Time(Received(n, bad)[i]) = (sent + i) - 1
<1> DEFINE r == Received(n, bad)
<1>0. Transient \in Nat
  BY Counts
<1>1. \A i \in 1 .. n : \/ r[i] = Bad
                        \/ r[i] \in Nat /\ Time(r[i]) = (sent + i) - 1
  <2> TAKE i \in 1 .. n
  <2> DEFINE t == (sent + i) - 1
  <2>1. t \in Int /\ t >= Transient /\ t = sent + i - 1
    BY <1>0
  <2>2. r[i] = IF i = bad THEN Bad ELSE Interleaved(t)
    BY <2>1 DEF Received
  <2> HIDE DEF t, r
  <2>3. Interleaved(t) \in Nat /\ Time(Interleaved(t)) = t
    BY <2>1, SentAt
  <2> QED BY <2>2, <2>3 DEF t
<1>2. \A i \in 1 .. n : r[i] \in Int
  BY <1>1 DEF Bad
<1>3. r \in Seq(Int) /\ Len(r) = n
  <2>1. r = [i \in 1 .. n |-> r[i]]
    BY DEF Received
  <2> HIDE DEF r
  <2>2. [i \in 1 .. n |-> r[i]] \in Seq(Int) /\ Len([i \in 1 .. n |-> r[i]]) = n
    BY <1>2
  <2> QED BY <2>1, <2>2
<1> QED BY <1>1, <1>3, Zenon

(* The stream goes on as it was sent.                                       *)
LEMMA ExtendedIs ==
  ASSUME NEW x \in [Int -> Int], NEW w \in Int, NEW bytes \in Seq(Int),
         NEW y, y = Extended(x, w, bytes)
  PROVE  Extends(y, x, w, bytes)
<1> DEFINE L == Len(bytes)
<1>1. L \in Nat /\ \A i \in 1 .. L : bytes[i] \in Int
  OBVIOUS
<1>2. \A v \in Int : w <= v /\ v < w + L => (v - w) + 1 \in 1 .. L
  BY <1>1
<1>3. \A v \in Int : y[v] = IF v < w THEN x[v] ELSE IF v < w + L THEN bytes[(v - w) + 1] ELSE Bad
  BY DEF Extended
<1>t. y = [v \in Int |-> y[v]]
  BY DEF Extended
<1> HIDE DEF L
<1>4. \A v \in Int : y[v] \in Int
  <2> TAKE v \in Int
  <2>1. CASE v < w
    <3>1. x[v] \in Int
      OBVIOUS
    <3> QED BY <3>1, <2>1, <1>3
  <2>2. CASE ~(v < w) /\ v < w + L
    <3>1. bytes[(v - w) + 1] \in Int
      BY <2>2, <1>1, <1>2
    <3> QED BY <3>1, <2>2, <1>3
  <2>3. CASE ~(v < w) /\ ~(v < w + L)
    <3>1. y[v] = Bad
      BY <2>3, <1>3, Zenon
    <3> QED BY <3>1 DEF Bad
  <2> QED BY <2>1, <2>2, <2>3
<1>5. y \in [Int -> Int]
  BY <1>t, <1>4
<1>6. \A v \in Int : w <= v /\ v < w + L => y[v] = bytes[(v - w) + 1]
  BY <1>1, <1>3
<1>7. \A v \in Int : v < w => y[v] = x[v]
  BY <1>3
<1>8. ASSUME NEW i \in 1 .. L PROVE bytes[i] = y[(w + i) - 1]
  <2> DEFINE v == (w + i) - 1
  <2>1. v \in Int /\ w <= v /\ v < w + L /\ (v - w) + 1 = i
    BY <1>1
  <2> HIDE DEF v
  <2> QED BY <2>1, <1>6 DEF v
<1> QED BY <1>2, <1>5, <1>6, <1>7, <1>8, Zenon DEF L, Extends

\* Each byte received is bad or was sent in its turn, the first at sentAt.
SentFrom(bytes, sentAt) ==
  /\ bytes \in Seq(Int)
  /\ \A i \in 1 .. Len(bytes) :
       bytes[i] = Bad \/ (bytes[i] \in Nat /\ Time(bytes[i]) = (sentAt + i) - 1)

\* Where the bytes of a piece end, and what they all had lost before them.
EndOf(bytes, v0) == v0 + Len(bytes)

\* All the bytes between w and end had lost lambda before them.
Lost(y, w, end, lambda) ==
  \A v \in Int : w <= v /\ v < end /\ y[v] # Bad => LostBefore(y, v) = lambda

(* The stream with the bytes of a job is as it was sent, too.               *)
LEMMA StreamGoesOn ==
  ASSUME NEW x \in [Int -> Int], NEW w \in Int, NEW totals \in SUBSET Int,
         SentBefore(x, w, totals), NEW lambda \in totals, \A l \in totals : l <= lambda,
         NEW sentAt \in Int, w = sentAt - lambda,
         NEW bytes, SentFrom(bytes, sentAt), NEW y, Extends(y, x, w, bytes)
  PROVE  SentBefore(y, EndOf(bytes, w), totals) /\ Lost(y, w, EndOf(bytes, w), lambda)
<1> DEFINE L == Len(bytes)
<1>s. /\ bytes \in Seq(Int)
      /\ \A i \in 1 .. L : bytes[i] = Bad \/ (bytes[i] \in Nat /\ Time(bytes[i]) = (sentAt + i) - 1)
  BY Zenon DEF SentFrom
<1>0. L \in Nat /\ lambda \in Int
  BY <1>s
<1>1. /\ y \in [Int -> Int]
      /\ \A v \in Int : v < w => y[v] = x[v]
      /\ \A v \in Int : w <= v /\ v < w + L =>
           /\ (v - w) + 1 \in 1 .. L /\ y[v] = bytes[(v - w) + 1]
  BY Zenon DEF Extends
<1> HIDE DEF L
<1>2. ASSUME NEW v \in Int, w <= v, v < w + L, y[v] # Bad
      PROVE  y[v] \in Nat /\ LostBefore(y, v) = lambda
  <2> DEFINE i == (v - w) + 1
  <2>a. i \in 1 .. L /\ y[v] = bytes[i]
    BY <1>1, <1>2, Zenon
  <2>b. (sentAt + i) - 1 = v + lambda
    BY <1>0
  <2>1. i \in 1 .. L /\ y[v] = bytes[i] /\ (sentAt + i) - 1 = v + lambda
    BY <2>a, <2>b, Zenon
  <2> HIDE DEF i
  <2>2. bytes[i] \in Nat /\ Time(bytes[i]) = (sentAt + i) - 1
    BY <2>1, <1>2, <1>s
  <2>3. y[v] \in Nat /\ Time(y[v]) = v + lambda
    BY <2>1, <2>2
  <2> QED BY <2>3, <1>0 DEF LostBefore
<1>3. ASSUME NEW v \in Int, v < w
      PROVE  y[v] = x[v] /\ LostBefore(y, v) = LostBefore(x, v)
  BY <1>1, <1>3 DEF LostBefore
<1>4. ASSUME NEW v \in Int, v < w + L, y[v] # Bad
      PROVE  y[v] \in Nat /\ LostBefore(y, v) \in totals /\ LostBefore(y, v) <= lambda
  <2>1. CASE v < w
    <3>1. y[v] = x[v] /\ LostBefore(y, v) = LostBefore(x, v)
      BY <2>1, <1>3
    <3>2. x[v] \in Nat /\ LostBefore(x, v) \in totals
      BY <3>1, <2>1, <1>4 DEF SentBefore
    <3> QED BY <3>1, <3>2
  <2>2. CASE w <= v
    <3>1. y[v] \in Nat /\ LostBefore(y, v) = lambda
      BY <2>2, <1>2, <1>4
    <3> QED BY <3>1, <1>0
  <2> QED BY <2>1, <2>2
<1>5. ASSUME NEW u \in Int, NEW v \in Int, u < v, v < w + L, y[u] # Bad, y[v] # Bad
      PROVE  LostBefore(y, u) <= LostBefore(y, v)
  <2>1. CASE v < w
    <3>1. u < w
      BY <2>1, <1>5
    <3>2. y[v] = x[v] /\ LostBefore(y, v) = LostBefore(x, v)
      BY <2>1, <1>3
    <3>3. y[u] = x[u] /\ LostBefore(y, u) = LostBefore(x, u)
      BY <3>1, <1>3
    <3> QED BY <3>2, <3>3, <2>1, <1>5 DEF SentBefore
  <2>2. CASE w <= v
    <3>1. LostBefore(y, v) = lambda
      BY <2>2, <1>2, <1>5
    <3>2. u < w + L
      BY <1>5, <1>0
    <3>3. LostBefore(y, u) <= lambda
      BY <3>2, <1>4, <1>5
    <3> QED BY <3>1, <3>3
  <2> QED BY <2>1, <2>2
<1>6. SentBefore(y, w + L, totals)
  BY <1>4, <1>5 DEF SentBefore
<1>7. Lost(y, w, w + L, lambda)
  BY <1>2 DEF Lost
<1> QED BY <1>6, <1>7, Zenon DEF L, EndOf

(* What a cadence holds, and no block being too old, and nothing being      *)
(* wrong, is not changed by what comes later.                               *)
LEMMA HoldsOn ==
  ASSUME NEW x \in [Int -> Int], NEW y \in [Int -> Int], NEW s \in Int, NEW w \in Int, NEW c,
         \A v \in Int : v < w => y[v] = x[v], Holds(c, x, s, w)
  PROVE  Holds(c, y, s, w)
<1>1. /\ c \in Cadences /\ RowsHold(c.rows, x, s, w)
      /\ c.branch = (w - s) % Branches /\ Len(c.block) < BlockLen
      /\ \A i \in 1 .. Len(c.block) : c.block[i] = Out(x, s, (w - Len(c.block)) + (i - 1))
  BY Zenon DEF Holds
<1>2. Len(c.block) \in Nat
  BY <1>1, CadenceTypes
<1>3. RowsHold(c.rows, y, s, w)
  BY <1>1, RowsAgree
<1> DEFINE L == Len(c.block)
<1>4. \A i \in 1 .. L : c.block[i] = Out(y, s, (w - L) + (i - 1))
  <2> TAKE i \in 1 .. L
  <2> DEFINE v == (w - L) + (i - 1)
  <2>1. c.block[i] = Out(x, s, v)
    BY <1>1
  <2>a. L \in Nat
    BY <1>2
  <2> HIDE DEF L
  <2>2. v \in Int /\ v < w
    BY <2>a
  <2> HIDE DEF v
  <2>3. \A u \in Int : u <= v => y[u] = x[u]
    BY <2>2
  <2>4. Out(y, s, v) = Out(x, s, v)
    BY <2>2, <2>3, OutAgree
  <2> QED BY <2>1, <2>4 DEF v
<1> QED BY <1>1, <1>3, <1>4, Zenon DEF Holds

(* No later byte belongs to an older block.                                 *)
LEMMA FloorOn ==
  ASSUME NEW x \in [Int -> Int], NEW y \in [Int -> Int], NEW w \in Int, NEW z \in Int,
         \A v \in Int : v < w => y[v] = x[v],
         NEW lambda \in Int,
         \A v \in Int : w <= v /\ v < z /\ y[v] # Bad => LostBefore(y, v) = lambda,
         NEW place \in Int, NEW m \in Int, Floor(x, w, place, m),
         lambda + place >= (m + Branches) * BlockLen
  PROVE  Floor(y, z, place, m)
<1> DEFINE a == (m + Branches) * BlockLen
<1>1. SUFFICES ASSUME NEW v \in Int, place - Transient <= v, v < z, y[v] # Bad
               PROVE  LostBefore(y, v) + place >= a
  BY DEF Floor
<1>2. CASE v < w
  <2>1. y[v] = x[v] /\ LostBefore(y, v) = LostBefore(x, v)
    BY <1>2 DEF LostBefore
  <2>2. LostBefore(x, v) + place >= a
    BY <2>1, <1>1, <1>2 DEF Floor
  <2> QED BY <2>1, <2>2
<1>3. CASE w <= v
  <2>1. LostBefore(y, v) = lambda
    BY <1>1, <1>3
  <2> QED BY <2>1
<1> QED BY <1>2, <1>3

(* Nothing is wrong or lost if nothing of a job is.                         *)
LEMMA WholeOn ==
  ASSUME NEW x \in [Int -> Int], NEW y \in [Int -> Int], NEW s \in Int, NEW w \in Int, NEW z \in Int,
         \A v \in Int : v < w => y[v] = x[v], Whole(x, s, w),
         \A v \in Int : w <= v /\ v < z => y[v] # Bad /\ LostBefore(y, v) = 0
  PROVE  Whole(y, s, z)
<1>1. SUFFICES ASSUME NEW v \in Int, s <= v, v < z
               PROVE  y[v] # Bad /\ LostBefore(y, v) = 0
  BY DEF Whole
<1>2. CASE v < w
  BY <1>1, <1>2 DEF Whole, LostBefore
<1>3. CASE w <= v
  BY <1>1, <1>3
<1> QED BY <1>2, <1>3

(* The bytes to be dropped are over when the first block's place is among   *)
(* the bytes, for until then the output cannot have failed.                 *)
LEMMA Settles ==
  ASSUME NEW x, NEW s, NEW end \in Int, NEW place \in Int, NEW phase, NEW stop \in Nat, stop # 0,
         NEW run, run.unseen \in Nat,
         RunsTo(run, x, s, end - run.unseen, place, phase, stop), place <= end
  PROVE  Settled(run)
<1> DEFINE u == run.unseen
           w == end - u
           L == Len(run.c.block)
           N == Len(run.out)
           d == run.drop
<1>1. /\ run \in Runs /\ Dropping(run) /\ (d > 0 => run.blocks = 0)
      /\ (u > 0 => N >= stop)
      /\ (w - L) + d = BlocksFrom(place, run.blocks)
      /\ \E k : Emitted(run.out, run.blocks, k, x, s, place, phase)
  BY Zenon DEF RunsTo
<1>2. /\ d \in Nat /\ (d > 0 \/ d = 0) /\ (u > 0 \/ u = 0) /\ N \in Nat /\ L \in Nat /\ u \in Nat
  BY <1>1, RunTypes, Zenon
<1>3. SUFFICES ASSUME d > 0 PROVE FALSE
  BY <1>2, Zenon DEF Settled
<1>4. run.blocks = 0 /\ run.c.block = <<>>
  BY <1>1, <1>3, Zenon DEF Dropping
<1>5. L = 0
  BY <1>4
<1>6. PICK k : Emitted(run.out, 0, k, x, s, place, phase)
  BY <1>1, <1>4, Zenon
<1>7. k \in [1 .. N -> Nat] /\ \A i \in 1 .. N : k[i] < 0
  BY <1>6, Zenon DEF Emitted
<1>8. BlocksFrom(place, 0) = place
  BY Counts DEF BlocksFrom
<1>a. (w - L) + d = place
  BY <1>1, <1>4, <1>8, Zenon
<1> HIDE DEF N, L, d, u
<1>9. N = 0
  <2>1. SUFFICES ASSUME 1 \in 1 .. N PROVE FALSE
    BY <1>2
  <2>2. k[1] \in Nat /\ k[1] < 0
    BY <2>1, <1>7
  <2> QED BY <2>2
<1>10. u = 0
  BY <1>1, <1>2, <1>9
<1> QED BY <1>a, <1>5, <1>10, <1>3, <1>2

(* A job's run through the cadence in use.                                  *)
LEMMA ProcessRuns ==
  ASSUME NEW x \in [Int -> Int], NEW s \in Int, NEW w \in Int, NEW c, Holds(c, x, s, w),
         NEW bytes \in Seq(Int), NEW stop \in Nat, stop # 0,
         \A i \in 1 .. Len(bytes) : bytes[i] = x[(w + i) - 1],
         NEW run, run = Process(c, bytes, 0, stop)
  PROVE  /\ run.unseen \in Nat /\ Settled(run)
         /\ RunsTo(run, x, s, (w + Len(bytes)) - run.unseen, w - Len(c.block), c.phase, stop)
<1> DEFINE L == Len(c.block)
           place == (w - L) + 0
           end == w + Len(bytes)
<1>1. c \in Cadences
  BY Zenon DEF Holds
<1>2. L \in Nat
  BY <1>1, CadenceTypes
<1>3. Dropping(Started(c, 0))
  <2>1. Started(c, 0).drop = 0
    BY DEF Started
  <2>2. ~(0 > 0)
    OBVIOUS
  <2> QED BY <2>1, <2>2, Zenon DEF Dropping
<1>4. 0 \in Nat /\ Len(bytes) \in Nat
  OBVIOUS
<1>5. /\ run.unseen \in Nat
      /\ RunsTo(run, x, s, end - run.unseen, place, c.phase, stop)
  BY <1>3, <1>4, RunIs, Zenon
<1> HIDE DEF L
<1>6. place = w - L /\ place \in Int /\ end \in Int /\ place <= end
  BY <1>2, <1>4
<1>7. Settled(run)
  <2> HIDE DEF place, end
  <2> QED BY <1>5, <1>6, Settles, Zenon
<1>8. RunsTo(run, x, s, end - run.unseen, w - L, c.phase, stop)
  <2> HIDE DEF place
  <2> QED BY <1>5, <1>6, Zenon
<1> QED BY <1>5, <1>7, <1>8, Zenon DEF L, end

\* What the search has found has a place in the bytes.
FoundIn(found, bytes) ==
  /\ found.deint \in Nat /\ found.rs \in Nat /\ found.phase \in 0 .. Period - 1
  /\ (found.deint + Transient) + found.rs <= Len(bytes)

\* The deinterleaver begins at s, among bytes of which the first is at v0.
Begun(s, v0, found) == s = v0 + found.deint

(* The bytes without the first ones.                                        *)
LEMMA Shortened ==
  ASSUME NEW bytes \in Seq(Int), NEW d \in Nat, d <= Len(bytes), NEW rest,
         rest = [i \in 1 .. Len(bytes) - d |-> bytes[d + i]]
  PROVE  /\ rest \in Seq(Int) /\ Len(rest) = Len(bytes) - d
         /\ \A i \in 1 .. Len(rest) : rest[i] = bytes[d + i] /\ d + i \in 1 .. Len(bytes)
<1> DEFINE n == Len(bytes) - d
<1>1. n \in Nat /\ \A i \in 1 .. n : bytes[d + i] \in Int /\ d + i \in 1 .. Len(bytes)
  OBVIOUS
<1>2. rest = [i \in 1 .. n |-> bytes[d + i]]
  OBVIOUS
<1>3. rest \in Seq(Int) /\ Len(rest) = n
  <2> HIDE DEF n
  <2> QED BY <1>1, <1>2
<1> QED BY <1>1, <1>2, <1>3

(* A cadence just begun holds nothing.                                      *)
LEMMA CadenceFresh ==
  ASSUME NEW x \in [Int -> Int], NEW s \in Int, \A v \in Int : v < s => x[v] = Bad,
         NEW phase \in 0 .. Period - 1
  PROVE  /\ Holds(Cadence(phase), x, s, s) /\ Cadence(phase).phase = phase
         /\ Cadence(phase).block = <<>> /\ Len(Cadence(phase).block) = 0
<1> DEFINE c == Cadence(phase)
<1>1. c.rows = FreshRows /\ c.branch = 0 /\ c.block = <<>> /\ c.phase = phase
  BY DEF Cadence
<1>2. RowsHold(FreshRows, x, s, s)
  BY RowsFresh
<1>3. 0 = (s - s) % Branches
  <2>1. s - s = 0 /\ 0 \in 0 .. Branches - 1 /\ Branches \in Nat /\ Branches > 0
    BY Counts
  <2> QED BY <2>1, ModSmall
<1>4. c \in Cadences
  <2>1. FreshRows \in [Branch -> Seq(Int)]
    BY <1>2, Zenon DEF RowsHold
  <2>2. 0 \in Branch /\ <<>> \in Seq(Int)
    BY Counts DEF Branch
  <2>3. c = [rows |-> FreshRows, branch |-> 0, block |-> <<>>, phase |-> phase]
    BY DEF Cadence
  <2> HIDE DEF c
  <2> QED BY <2>1, <2>2, <2>3 DEF Cadences
<1>5. Holds(c, x, s, s)
  <2>1. c.branch = (s - s) % Branches
    BY <1>1, <1>3, Zenon
  <2> HIDE DEF c
  <2> QED BY <1>1, <1>2, <1>4, <2>1, HoldsNoBlock, Zenon
<1>6. Len(c.block) = 0
  BY <1>1
<1> QED BY <1>1, <1>5, <1>6

(* The run of all the bytes through a cadence that the search has found.    *)
LEMMA EnterRuns ==
  ASSUME NEW x \in [Int -> Int], NEW v0 \in Int, NEW bytes \in Seq(Int), NEW stop \in Nat, stop # 0,
         \A i \in 1 .. Len(bytes) : bytes[i] = x[v0 + (i - 1)],
         NEW found, FoundIn(found, bytes), NEW s, Begun(s, v0, found),
         NEW run, run = Enter(found, bytes, stop)
  PROVE  /\ run.unseen \in Nat /\ Settled(run)
         /\ RunsTo(run, CutAt(x, s), s, (v0 + Len(bytes)) - run.unseen,
                   s + (Transient + found.rs), found.phase, stop)
<1> DEFINE d == found.deint
           rs == found.rs
           phase == found.phase
           c == Cadence(phase)
           L == Len(bytes)
           rest == [i \in 1 .. L - d |-> bytes[d + i]]
           y == CutAt(x, s)
           drop == Transient + rs
<1>a. /\ d \in Nat /\ rs \in Nat /\ phase \in 0 .. Period - 1 /\ (d + Transient) + rs <= L
  BY Zenon DEF FoundIn
<1>b. L \in Nat /\ Transient \in Nat
  BY Counts
<1>2. run = Process(c, rest, drop, stop)
  BY Zenon DEF Enter
<1>s. s = v0 + d
  BY Zenon DEF Begun
<1> HIDE DEF d, rs, phase, L
<1>1. /\ d \in Nat /\ rs \in Nat /\ phase \in 0 .. Period - 1 /\ L \in Nat
      /\ (d + Transient) + rs <= L /\ Transient \in Nat
  BY <1>a, <1>b
<1>3. s \in Int
  BY <1>1, <1>s
<1>4. y \in [Int -> Int] /\ (\A v \in Int : v < s => y[v] = Bad)
      /\ \A v \in Int : s <= v => y[v] = x[v]
  <2>1. \A v \in Int : y[v] = IF v < s THEN Bad ELSE x[v]
    BY DEF CutAt
  <2>2. y \in [Int -> Int]
    BY DEF CutAt, Bad
  <2> HIDE DEF y
  <2>3. \A v \in Int : s <= v => ~(v < s)
    BY <1>3
  <2> QED BY <2>1, <2>2, <2>3, Zenon
<1>5. d <= L /\ drop \in Nat
  BY <1>1
<1>6. /\ rest \in Seq(Int) /\ Len(rest) = L - d
      /\ \A i \in 1 .. Len(rest) : rest[i] = bytes[d + i] /\ d + i \in 1 .. L
  BY <1>1, <1>5, Shortened, Zenon DEF L
<1> HIDE DEF rest, y, drop
<1>7. /\ Holds(c, y, s, s) /\ c.phase = phase /\ c.block = <<>> /\ Len(c.block) = 0
  BY <1>1, <1>3, <1>4, CadenceFresh, Zenon
<1> HIDE DEF c
<1>8. \A i \in 1 .. Len(rest) : rest[i] = y[(s + i) - 1]
  <2> TAKE i \in 1 .. Len(rest)
  <2>1. rest[i] = bytes[d + i] /\ d + i \in 1 .. L
    BY <1>6
  <2>2. bytes[d + i] = x[v0 + ((d + i) - 1)]
    BY <2>1 DEF L
  <2>3. v0 + ((d + i) - 1) = (s + i) - 1 /\ (s + i) - 1 \in Int /\ s <= (s + i) - 1
    <3>1. i \in Nat /\ i >= 1
      BY <1>6, <1>1
    <3> HIDE DEF d
    <3> QED BY <1>1, <1>3, <1>s, <3>1
  <2> QED BY <2>1, <2>2, <2>3, <1>4
<1>9. Dropping(Started(c, drop))
  BY <1>7 DEF Dropping, Started
<1> DEFINE end == s + Len(rest)
           place == (s - Len(c.block)) + drop
<1>10. /\ run.unseen \in Nat
       /\ RunsTo(run, y, s, end - run.unseen, place, c.phase, stop)
  <2>1. /\ Process(c, rest, drop, stop).unseen \in Nat
        /\ RunsTo(Process(c, rest, drop, stop), y, s,
                  (s + Len(rest)) - Process(c, rest, drop, stop).unseen,
                  (s - Len(c.block)) + drop, c.phase, stop)
    BY <1>3, <1>4, <1>5, <1>6, <1>7, <1>8, <1>9, RunIs
  <2> QED BY <2>1, <1>2
<1>11. end = v0 + L /\ place = s + drop /\ end \in Int /\ place \in Int /\ place <= end
  <2>1. Len(rest) = L - d /\ Len(c.block) = 0
    BY <1>6, <1>7
  <2>2. drop \in Nat /\ drop = Transient + rs
    BY <1>5 DEF drop
  <2> QED BY <1>1, <1>3, <1>s, <2>1, <2>2
<1> HIDE DEF end, place
<1>12. Settled(run)
  BY <1>10, <1>11, Settles, Zenon
<1>13. RunsTo(run, y, s, (v0 + L) - run.unseen, s + drop, phase, stop)
  BY <1>7, <1>10, <1>11, Zenon
<1> QED BY <1>10, <1>12, <1>13, Zenon DEF L, y, drop, rs, phase

(***************************************************************************)
(* The search.                                                             *)
(***************************************************************************)
(* The blocks looked at are all there.                                      *)
LEMMA WindowsIn ==
  ASSUME NEW out, Len(out) \in Nat, NEW rs \in Nat
  PROVE  /\ Windows(out, rs) \in Nat
         /\ \A b \in 0 .. Windows(out, rs) - 1 :
              (Transient + rs) + ((b * BlockLen) + BlockLen) <= Len(out)
<1> DEFINE L == Len(out)
           n == L - Transient - rs
           q == n \div BlockLen
           whole == IF Transient + rs >= L THEN 0 ELSE q
           W == Windows(out, rs)
<1>0. BlockLen \in Nat /\ BlockLen > 0 /\ Transient \in Nat /\ L \in Nat /\ n \in Int
  BY Counts
<1>s. ScanBlocks \in Nat
  BY OuterStreamAssumption
<1>1. W = IF whole > ScanBlocks THEN ScanBlocks ELSE whole
  BY Zenon DEF Windows
<1>2. n = L - (Transient + rs)
  BY <1>0
<1> HIDE DEF L, n, W
<1>3. q \in Int /\ (n >= 0 => q >= 0 /\ q * BlockLen <= n)
  <2>1. q \in Int /\ n % BlockLen \in 0 .. BlockLen - 1 /\ n = BlockLen * q + (n % BlockLen)
    BY <1>0, Divide
  <2> DEFINE r == n % BlockLen
  <2> HIDE DEF r, q
  <2>2. r \in 0 .. BlockLen - 1 /\ n = BlockLen * q + r /\ q \in Int
    BY <2>1 DEF r
  <2>3. q * BlockLen <= n
    <3>1. q * BlockLen = BlockLen * q /\ BlockLen * q \in Int
      BY <2>2, <1>0
    <3> QED BY <3>1, <2>2, <1>0
  <2>4. ASSUME n >= 0 PROVE q >= 0
    <3>1. SUFFICES ASSUME q <= -1 PROVE FALSE
      BY <2>2
    <3>2. BlockLen * q <= -BlockLen /\ BlockLen * q \in Int
      BY <3>1, <2>2, <1>0
    <3> QED BY <3>2, <2>2, <2>4, <1>0
  <2> QED BY <2>2, <2>3, <2>4
<1> HIDE DEF q
<1>4. W \in Nat /\ (W > 0 => n > 0 /\ W <= q)
  BY <1>0, <1>s, <1>1, <1>2, <1>3
<1>5. ASSUME NEW b \in 0 .. W - 1
      PROVE  (Transient + rs) + ((b * BlockLen) + BlockLen) <= L
  <2>1. b \in Nat /\ b + 1 <= q /\ n > 0
    BY <1>3, <1>4
  <2>2. (b + 1) * BlockLen <= q * BlockLen /\ q * BlockLen \in Int
    BY <2>1, <1>3, <1>0
  <2>3. (b + 1) * BlockLen = (b * BlockLen) + BlockLen /\ b * BlockLen \in Int
    BY <2>1, <1>0
  <2> QED BY <2>1, <2>2, <2>3, <1>2, <1>3, <1>0
<1> QED BY <1>4, <1>5 DEF W, L

(* The blocks with the sync byte that is expected of them are so many.      *)
LEMMA SyncedFinite ==
  ASSUME NEW out, Len(out) \in Nat, NEW rs \in Nat, NEW phase
  PROVE  /\ IsFiniteSet(Synced(out, rs, phase)) /\ IsFiniteSet(Clean(out, rs, phase))
         /\ Cardinality(Synced(out, rs, phase)) \in Nat
         /\ Cardinality(Clean(out, rs, phase)) \in Nat
<1> DEFINE W == Windows(out, rs)
<1>1. W \in Nat
  BY WindowsIn
<1> HIDE DEF W
<1>2. IsFiniteSet(0 .. W - 1)
  BY <1>1, FS_Interval
<1>3. Synced(out, rs, phase) \subseteq 0 .. W - 1
  BY DEF Synced, W
<1>4. Clean(out, rs, phase) \subseteq Synced(out, rs, phase)
  BY DEF Clean
<1>5. IsFiniteSet(Synced(out, rs, phase))
  BY <1>2, <1>3, FS_Subset
<1>6. IsFiniteSet(Clean(out, rs, phase))
  BY <1>4, <1>5, FS_Subset
<1> QED BY <1>5, <1>6, FS_CardinalityType

\* The found one is one of those tried, and none of another phase is better.
IsBest(found, out, d, rs, phase) ==
  /\ found = Candidate(out, d, rs, phase)
  /\ \A p \in 0 .. Period - 1 :
       \/ Points(Candidate(out, d, rs, p)) < Points(found)
       \/ Points(Candidate(out, d, rs, p)) = Points(found)

\* No candidate at all is better.
NoneBetter(bytes, found) ==
  \A d \in 0 .. Branches - 1, rs \in 0 .. BlockLen - 1, p \in 0 .. Period - 1 :
    d < Len(bytes) =>
      \/ Points(Candidate(Deinterleaved(bytes, d), d, rs, p)) < Points(found)
      \/ Points(Candidate(Deinterleaved(bytes, d), d, rs, p)) = Points(found)

(* scan_outer_alignment_with_policy returns one of the best candidates.     *)
LEMMA ScanFinds ==
  ASSUME NEW bytes, NEW found, found = Scan(bytes), found.sync # 0
  PROVE  /\ NoneBetter(bytes, found)
         /\ \E d \in 0 .. Branches - 1, rs \in 0 .. BlockLen - 1, phase \in 0 .. Period - 1 :
              d < Len(bytes) /\ IsBest(found, Deinterleaved(bytes, d), d, rs, phase)
<1> DEFINE D == {p \in 0 .. Branches - 1 : p < Len(bytes)}
           out == [d \in D |-> Deinterleaved(bytes, d)]
           tried == UNION {{Candidate(out[d], d, rs, phase) :
                              rs \in 0 .. BlockLen - 1, phase \in 0 .. Period - 1} :
                           d \in DOMAIN out}
           best == {c \in tried :
                      /\ Points(c) > 0
                      /\ \A o \in tried : \/ Points(o) < Points(c)
                                          \/ Points(o) = Points(c) /\ TriedAt(o) >= TriedAt(c)}
           All(d) == {Candidate(out[d], d, rs, phase) :
                        rs \in 0 .. BlockLen - 1, phase \in 0 .. Period - 1}
<1>1. found = IF best = {} THEN NothingFound ELSE CHOOSE c \in best : TRUE
  BY DEF Scan
<1>2. NothingFound.sync = 0
  BY DEF NothingFound
<1>6. DOMAIN out = D /\ \A d \in D : out[d] = Deinterleaved(bytes, d)
  OBVIOUS
<1>a. tried = UNION {All(d) : d \in DOMAIN out}
  OBVIOUS
<1>b. \A c \in best : /\ c \in tried
                      /\ \A o \in tried : Points(o) < Points(c) \/ Points(o) = Points(c)
  <2> HIDE DEF tried
  <2> QED OBVIOUS
<1> HIDE DEF best, tried, out
<1>3. best # {}
  <2> SUFFICES ASSUME best = {} PROVE FALSE
    OBVIOUS
  <2>1. found = NothingFound
    BY <1>1
  <2> QED BY <1>2, <2>1
<1>4. found \in best
  <2>1. (CHOOSE c \in best : TRUE) \in best
    BY <1>3
  <2> QED BY <1>1, <1>3, <2>1
<1>5. /\ found \in tried
      /\ \A o \in tried : Points(o) < Points(found) \/ Points(o) = Points(found)
  BY <1>4, <1>b, Zenon
<1>c. \A c : c \in tried <=> \E d \in D : c \in All(d)
  <2> HIDE DEF All
  <2> QED BY <1>a, <1>6
<1>7. PICK d \in D, rs \in 0 .. BlockLen - 1, phase \in 0 .. Period - 1 :
        found = Candidate(out[d], d, rs, phase)
  <2>1. PICK d \in D : found \in All(d)
    <3> HIDE DEF All
    <3> QED BY <1>5, <1>c
  <2> QED BY <2>1
<1>8. ASSUME NEW p \in 0 .. Period - 1
      PROVE  Candidate(out[d], d, rs, p) \in tried
  <2>1. Candidate(out[d], d, rs, p) \in All(d)
    OBVIOUS
  <2> HIDE DEF All
  <2> QED BY <2>1, <1>c, Zenon
<1>n. NoneBetter(bytes, found)
  <2> SUFFICES ASSUME NEW e \in 0 .. Branches - 1, NEW r \in 0 .. BlockLen - 1,
                      NEW p \in 0 .. Period - 1, e < Len(bytes)
               PROVE  \/ Points(Candidate(Deinterleaved(bytes, e), e, r, p)) < Points(found)
                      \/ Points(Candidate(Deinterleaved(bytes, e), e, r, p)) = Points(found)
    BY Zenon DEF NoneBetter
  <2>1. e \in D /\ Candidate(out[e], e, r, p) \in All(e)
    OBVIOUS
  <2> HIDE DEF All, D
  <2>2. Candidate(out[e], e, r, p) \in tried
    BY <2>1, <1>c
  <2>3. out[e] = Deinterleaved(bytes, e)
    BY <2>1, <1>6
  <2> QED BY <2>2, <2>3, <1>5
<1> HIDE DEF tried, best, out
<1>9. IsBest(found, Deinterleaved(bytes, d), d, rs, phase)
  BY <1>5, <1>6, <1>7, <1>8, Zenon DEF IsBest
<1> QED BY <1>9, <1>n, Zenon

\* The place of the first block is in the bytes, and the block too.
BlockIn(found, bytes) ==
  /\ FoundIn(found, bytes)
  /\ ((found.deint + Transient) + found.rs) + BlockLen <= Len(bytes)

(* With a whole block there is one to be looked at.                         *)
LEMMA WindowsSome ==
  ASSUME NEW out, Len(out) \in Nat, NEW rs \in Nat, (Transient + rs) + BlockLen <= Len(out)
  PROVE  0 \in 0 .. Windows(out, rs) - 1
<1> DEFINE L == Len(out)
           n == L - Transient - rs
           q == n \div BlockLen
           W == Windows(out, rs)
<1>0. BlockLen \in Nat /\ BlockLen > 0 /\ Transient \in Nat /\ L \in Nat /\ n \in Int
  BY Counts
<1>s. ScanBlocks \in Nat /\ ScanBlocks > 0
  BY OuterStreamAssumption
<1>1. W = LET whole == IF Transient + rs >= L THEN 0 ELSE q
          IN  IF whole > ScanBlocks THEN ScanBlocks ELSE whole
  BY Zenon DEF Windows
<1>2. n >= BlockLen /\ ~(Transient + rs >= L)
  BY <1>0
<1> HIDE DEF L, n, W
<1>3. q \in Int /\ q >= 1
  <2>1. q \in Int /\ n % BlockLen \in 0 .. BlockLen - 1 /\ n = BlockLen * q + (n % BlockLen)
    BY <1>0, Divide
  <2> DEFINE r == n % BlockLen
  <2> HIDE DEF r, q
  <2>2. r \in 0 .. BlockLen - 1 /\ n = BlockLen * q + r /\ q \in Int
    BY <2>1 DEF r
  <2>3. SUFFICES ASSUME q <= 0 PROVE FALSE
    BY <2>2
  <2>4. BlockLen * q <= 0 /\ BlockLen * q \in Int
    BY <2>2, <2>3, <1>0
  <2> QED BY <2>2, <2>4, <1>0, <1>2
<1> HIDE DEF q
<1>4. W \in Int /\ W >= 1
  BY <1>1, <1>2, <1>3, <1>s
<1> QED BY <1>4 DEF W

(* There are less than a thousand of them.                                  *)
LEMMA WindowsFew ==
  ASSUME NEW out, Len(out) \in Nat, NEW rs \in Nat, NEW phase
  PROVE  /\ Cardinality(Synced(out, rs, phase)) \in Nat
         /\ Cardinality(Synced(out, rs, phase)) < 1000
         /\ Cardinality(Synced(out, rs, phase)) > 1 =>
              (Transient + rs) + (BlockLen + BlockLen) <= Len(out)
<1> DEFINE W == Windows(out, rs)
           S == Synced(out, rs, phase)
<1>1. W \in Nat /\ \A b \in 0 .. W - 1 : (Transient + rs) + ((b * BlockLen) + BlockLen) <= Len(out)
  BY WindowsIn
<1>2. W < 1000
  <2>1. W <= ScanBlocks
    <3> DEFINE whole == IF Transient + rs >= Len(out) THEN 0
                        ELSE (Len(out) - Transient - rs) \div BlockLen
    <3>1. W = IF whole > ScanBlocks THEN ScanBlocks ELSE whole
      BY Zenon DEF Windows
    <3> HIDE DEF whole, W
    <3> QED BY <3>1, <1>1, OuterStreamAssumption
  <2> HIDE DEF W
  <2> QED BY <2>1, <1>1, OuterStreamAssumption
<1>3. S \subseteq 0 .. W - 1
  BY DEF Synced
<1> HIDE DEF W, S
<1>4. IsFiniteSet(0 .. W - 1) /\ Cardinality(0 .. W - 1) = W
  <2>1. IsFiniteSet(0 .. W - 1) /\ Cardinality(0 .. W - 1) = IF 0 > W - 1 THEN 0 ELSE (W - 1) - 0 + 1
    BY <1>1, FS_Interval
  <2> QED BY <2>1, <1>1
<1>5. Cardinality(S) <= W /\ Cardinality(S) \in Nat
  BY <1>3, <1>4, FS_Subset, FS_CardinalityType
<1>6. ASSUME Cardinality(S) > 1 PROVE (Transient + rs) + (BlockLen + BlockLen) <= Len(out)
  <2>1. 1 \in 0 .. W - 1
    BY <1>1, <1>5, <1>6
  <2>2. (Transient + rs) + ((1 * BlockLen) + BlockLen) <= Len(out)
    BY <2>1, <1>1, Zenon
  <2>3. 1 * BlockLen = BlockLen
    BY Counts
  <2> QED BY <2>2, <2>3
<1> QED BY <1>1, <1>2, <1>5, <1>6 DEF S

(* With a sync byte found there is a whole block.                           *)
LEMMA SyncedSome ==
  ASSUME NEW out, Len(out) \in Nat, NEW rs \in Nat, NEW phase,
         Cardinality(Synced(out, rs, phase)) # 0
  PROVE  (Transient + rs) + BlockLen <= Len(out)
<1> DEFINE W == Windows(out, rs)
<1>1. Synced(out, rs, phase) # {}
  BY FS_EmptySet
<1>2. PICK b \in 0 .. W - 1 : TRUE
  BY <1>1 DEF Synced
<1>3. W \in Nat /\ \A a \in 0 .. W - 1 : (Transient + rs) + ((a * BlockLen) + BlockLen) <= Len(out)
  BY WindowsIn
<1> HIDE DEF W
<1>4. 0 \in 0 .. W - 1
  BY <1>2, <1>3
<1>5. (Transient + rs) + ((0 * BlockLen) + BlockLen) <= Len(out)
  BY <1>3, <1>4, Zenon
<1>6. 0 * BlockLen = 0
  BY Counts
<1> QED BY <1>5, <1>6, Counts

\* What comes out of a deinterleaver that begins at s with the stream x.
Gives(out, x, s, n) ==
  /\ Len(out) = n
  /\ \A k \in 1 .. n : out[k] = Out(x, s, (s + k) - 1)

(* What outer_deinterleave_phase gives for a piece of the stream.           *)
LEMMA DeinterleavedGives ==
  ASSUME NEW x \in [Int -> Int], NEW v0 \in Int, NEW bytes \in Seq(Int),
         \A i \in 1 .. Len(bytes) : bytes[i] = x[v0 + (i - 1)],
         NEW d \in Nat, d < Len(bytes), NEW s, s = v0 + d
  PROVE  Gives(Deinterleaved(bytes, d), CutAt(x, s), s, Len(bytes) - d)
<1> DEFINE y == CutAt(x, s)
           L == Len(bytes)
           n == L - d
<1>1. s \in Int /\ L \in Nat /\ n \in Nat
  BY SMTT(60)
<1>2. y \in [Int -> Int]
  BY <1>1 DEF CutAt, Bad
<1>3. \A v \in Int : y[v] = IF v < s THEN Bad ELSE x[v]
  BY DEF CutAt
<1> HIDE DEF y, L
<1>4. \A v \in Int : v < s => y[v] = Bad
  BY <1>3
<1>5. \A k \in 1 .. n : y[s + k - 1] = bytes[d + k]
  <2> TAKE k \in 1 .. n
  <2> DEFINE v == s + k - 1
  <2>1. v \in Int /\ ~(v < s) /\ v = v0 + ((d + k) - 1) /\ d + k \in 1 .. L
    BY <1>1 DEF L
  <2>2. bytes[d + k] = x[v0 + ((d + k) - 1)]
    BY <2>1 DEF L
  <2> HIDE DEF v
  <2>3. y[v] = x[v]
    BY <2>1, <1>3
  <2> QED BY <2>1, <2>2, <2>3 DEF v
<1>6. /\ Len(Deinterleaved(bytes, d)) = n
      /\ \A k \in 1 .. n : Deinterleaved(bytes, d)[k] = Out(y, s, s + k - 1)
  <2>1. \A k \in 1 .. Len(bytes) - d : y[s + k - 1] = bytes[d + k]
    BY <1>5 DEF L
  <2> QED BY <2>1, <1>1, <1>2, <1>4, DeinterleavedIs, ZenonT(60) DEF L
<1>7. \A k \in 1 .. n : s + k - 1 = (s + k) - 1
  BY <1>1
<1> QED BY <1>6, <1>7 DEF Gives, y, L

\* What the search has found, s being where the deinterleaver begins.
FoundFor(found, bytes, x, s) ==
  LET out == Deinterleaved(bytes, found.deint)
  IN  /\ BlockIn(found, bytes)
      /\ Gives(out, CutAt(x, s), s, Len(bytes) - found.deint)
      /\ IsBest(found, out, found.deint, found.rs, found.phase)

(* What the search has found lies in the bytes searched.                    *)
LEMMA ScanIn ==
  ASSUME NEW x \in [Int -> Int], NEW v0 \in Int, NEW bytes \in Seq(Int),
         \A i \in 1 .. Len(bytes) : bytes[i] = x[v0 + (i - 1)],
         NEW found, found = Scan(bytes), found.sync # 0, NEW s, Begun(s, v0, found)
  PROVE  /\ BlockIn(found, bytes) /\ FoundFor(found, bytes, x, s)
         /\ found.deint \in 0 .. Branches - 1
<1>1. PICK d \in 0 .. Branches - 1, rs \in 0 .. BlockLen - 1, phase \in 0 .. Period - 1 :
           d < Len(bytes) /\ IsBest(found, Deinterleaved(bytes, d), d, rs, phase)
  BY ScanFinds, Zenon
<1> DEFINE out == Deinterleaved(bytes, d)
           L == Len(bytes)
<1>0. d \in Nat /\ rs \in Nat /\ BlockLen \in Nat /\ Transient \in Nat /\ Branches \in Nat /\ L \in Nat
  BY Counts
<1>2. found = Candidate(out, d, rs, phase) /\ IsBest(found, out, d, rs, phase)
  BY <1>1, Zenon DEF IsBest
<1> HIDE DEF out
<1>3. /\ found.deint = d /\ found.rs = rs /\ found.phase = phase
      /\ found.sync = Cardinality(Synced(out, rs, phase))
  BY <1>2 DEF Candidate
<1>4. s = v0 + d
  BY <1>3, Zenon DEF Begun
<1>5. Gives(out, CutAt(x, s), s, L - d)
  BY <1>0, <1>1, <1>4, DeinterleavedGives DEF out
<1>6. Len(out) = L - d /\ Len(out) \in Nat
  <2>1. Len(out) = L - d
    BY <1>5, Zenon DEF Gives
  <2> QED BY <2>1, <1>0, <1>1
<1>7. (Transient + rs) + BlockLen <= Len(out)
  <2>1. Cardinality(Synced(out, rs, phase)) # 0
    BY <1>3
  <2> QED BY <2>1, <1>6, <1>0, SyncedSome
<1> HIDE DEF L
<1>8. ((d + Transient) + rs) + BlockLen <= L /\ (d + Transient) + rs <= L
  BY <1>0, <1>6, <1>7
<1>9. BlockIn(found, bytes)
  BY <1>0, <1>3, <1>8, Zenon DEF BlockIn, FoundIn, L
<1>10. FoundFor(found, bytes, x, s)
  BY <1>2, <1>3, <1>5, <1>9, Zenon DEF FoundFor, out, L
<1> QED BY <1>3, <1>9, <1>10, Zenon

(***************************************************************************)
(* The place in the period that the search has found.                      *)
(***************************************************************************)
\* The first byte of a block looked at, and where it is in the stream.
First(out, rs, b) == Window(out, rs, b)[1]

\* The place in the stream of a block's first byte.
At(s, rs, b) == BlocksFrom(s + rs, b)

\* The deinterleaver began at a byte of the first branch.
Aligned(s, rs) == ((s + (Transient + rs)) - s) % Branches = 0

\* The first byte of a block looked at is the one at its place.
FirstAt(x, s, out, rs, b) ==
  /\ At(s, rs, b) \in Int /\ s <= At(s, rs, b) /\ At(s, rs, b) < s + Len(out)
  /\ First(out, rs, b) = x[At(s, rs, b)]

(* The first branch has no delay: a first byte is where it came in.         *)
LEMMA FirstIs ==
  ASSUME NEW x \in [Int -> Int], NEW s \in Int, NEW out, Len(out) \in Nat, NEW rs \in Nat,
         Gives(out, x, s, Len(out)), Aligned(s, rs),
         NEW b \in 0 .. Windows(out, rs) - 1
  PROVE  FirstAt(x, s, out, rs, b)
<1> DEFINE L == Len(out)
           W == Windows(out, rs)
           u == At(s, rs, b)
           m == b * BlockLen
           k == Transient + rs + m + 1
           t == (s + k) - 1
           place == s + (Transient + rs)
<1>0. /\ BlockLen \in Nat /\ BlockLen > 0 /\ Transient \in Nat /\ L \in Nat /\ Branches \in Nat
      /\ Branches > 1
  BY Counts
<1>1. W \in Nat /\ (Transient + rs) + (m + BlockLen) <= L
  BY WindowsIn
<1>2. b \in Nat
  BY <1>1
<1>3. m \in Nat
  BY <1>0, <1>2
<1>4. First(out, rs, b) = out[k]
  <2>1. 1 \in 1 .. BlockLen
    BY <1>0
  <2> QED BY <2>1 DEF First, Window
<1>5. u = (s + rs) + m
  BY DEF At, BlocksFrom
<1>6. t = place + m
  BY <1>0, <1>3
<1>7. (t - s) % Branches = 0
  <2>1. BlocksFrom(place, b) = t
    BY <1>6 DEF BlocksFrom
  <2>2. place \in Int /\ b \in Int
    BY <1>0, <1>2
  <2>3. (BlocksFrom(place, b) - s) % Branches = (place - s) % Branches
    BY <2>2, PlaceBranch
  <2> QED BY <2>1, <2>3, Zenon DEF Aligned
<1> HIDE DEF m
<1>8. k \in 1 .. L /\ t - Transient = u /\ t \in Int /\ u \in Int /\ s <= u /\ u < s + L
  <2>1. (Transient + rs) + (m + BlockLen) <= L
    BY <1>1
  <2> HIDE DEF L, W, u
  <2>2. k \in 1 .. L
    BY <1>0, <1>3, <2>1
  <2>3. t \in Int /\ t = ((s + Transient) + rs) + m
    BY <1>0, <1>3
  <2> HIDE DEF k, t
  <2>4. t - Transient = u /\ u \in Int /\ s <= u
    BY <1>0, <1>3, <1>5, <2>3
  <2>5. u < s + L
    BY <1>0, <1>3, <1>5, <2>1
  <2> QED BY <2>2, <2>3, <2>4, <2>5
<1>9. out[k] = Out(x, s, t)
  BY <1>8, Zenon DEF Gives
<1> HIDE DEF t, k, u
<1>10. Out(x, s, t) = x[u]
  <2>1. 0 \in Branch /\ Delay(0) = Transient
    <3>1. 0 \in Branch
      BY <1>0 DEF Branch
    <3>2. Delay(0) = Transient - 0 * BlockLen
      BY <3>1, RowLens
    <3>3. 0 * BlockLen = 0 /\ Transient - 0 = Transient
      BY <1>0
    <3> QED BY <3>1, <3>2, <3>3
  <2> QED BY <2>1, <1>7, <1>8 DEF Out
<1> QED BY <1>4, <1>8, <1>9, <1>10, Zenon DEF u, L, FirstAt

\* The same for all of them.
Firsts(x, s, out, rs) == \A i \in 0 .. Windows(out, rs) - 1 : FirstAt(x, s, out, rs, i)

(* The same for all of the blocks looked at.                                *)
LEMMA FirstsAre ==
  ASSUME NEW x \in [Int -> Int], NEW s \in Int, NEW out, Len(out) \in Nat, NEW rs \in Nat,
         Gives(out, x, s, Len(out)), Aligned(s, rs)
  PROVE  Firsts(x, s, out, rs)
BY FirstIs, Zenon DEF Firsts

(* A sync byte is at its own place of the stream, but for what was lost.    *)
LEMMA SyncTells ==
  ASSUME NEW x \in [Int -> Int], NEW u \in Int, x[u] # Bad
  PROVE  /\ IsSync(x[u]) =>
              /\ LostBefore(x, u) + u = BlockOf(x[u]) * BlockLen /\ BlockOf(x[u]) \in Int
         /\ \A k \in Int : LostBefore(x, u) + u = k * BlockLen => IsSync(x[u])
<1> DEFINE p == x[u]
           t == Time(p)
<1>0. /\ BlockLen \in Nat /\ BlockLen > 0 /\ Branches \in Nat /\ Branches > 0 /\ p \in Int
      /\ 0 \in 0 .. Branches - 1 /\ 0 \in 0 .. BlockLen - 1
  BY Counts
<1> HIDE DEF p
<1>1. /\ t \in Int /\ t % Branches = p % Branches /\ (p % Branches = 0 => t = p)
  BY <1>0, TimeType
<1>2. LostBefore(x, u) + u = t
  BY <1>0, <1>1 DEF LostBefore, p
<1>z. 0 % Branches = 0
  BY <1>0, ModSmall
<1>3. \A k \in Int : (k * BlockLen) % Branches = 0
  <2> TAKE k \in Int
  <2>1. (0 + k * BlockLen) % Branches = 0 % Branches
    BY BlocksAndBranches
  <2>2. 0 + k * BlockLen = k * BlockLen
    BY <1>0
  <2> QED BY <2>1, <2>2, <1>z
<1> HIDE DEF t
<1>4. ASSUME IsSync(p) PROVE t = BlockOf(p) * BlockLen /\ BlockOf(p) \in Int
  <2> DEFINE q == BlockOf(p)
  <2>1. q \in Int /\ p = BlockLen * q + (p % BlockLen) /\ p % BlockLen = 0
    BY <1>0, <1>4, Divide DEF BlockOf, IsSync
  <2> HIDE DEF q
  <2>2. p = q * BlockLen
    BY <2>1, <1>0
  <2>3. p % Branches = 0
    BY <2>1, <2>2, <1>3
  <2> QED BY <2>1, <2>2, <2>3, <1>1 DEF q
<1>5. ASSUME NEW k \in Int, t = k * BlockLen PROVE IsSync(p)
  <2>1. t % Branches = 0
    BY <1>3, <1>5
  <2>2. p = BlockLen * k + 0
    BY <2>1, <1>1, <1>5, <1>0
  <2>3. (BlockLen * k + 0) % BlockLen = 0
    BY <1>0, ModUnique
  <2>4. p % BlockLen = 0
    BY <2>2, <2>3
  <2> QED BY <2>4 DEF IsSync, p
<1> QED BY <1>2, <1>4, <1>5 DEF p

(* Of a set of numbers, two are nearly as far apart as it has members.      *)
LEMMA FarApart ==
  ASSUME NEW S \in SUBSET Nat, IsFiniteSet(S), Cardinality(S) >= Period
  PROVE  \E a, b \in S : b >= a + (Period - 1)
<1>0. Period \in Nat /\ Period > 1
  BY Counts
<1>1. S # {}
  BY <1>0, FS_EmptySet
<1>2. PICK m \in S : \A k \in S : m <= k
  BY <1>1, LeastNumber
<1>3. SUFFICES ASSUME \A b \in S : ~(b >= m + (Period - 1)) PROVE FALSE
  BY <1>2
<1> DEFINE top == m + (Period - 2)
<1>4. m \in Int /\ top \in Int /\ m \in Nat
  BY <1>2, <1>0
<1>5. S \subseteq m .. top
  <2> SUFFICES ASSUME NEW b \in S PROVE b \in m .. top
    OBVIOUS
  <2>1. b \in Nat /\ m <= b /\ ~(b >= m + (Period - 1))
    BY <1>2, <1>3
  <2> QED BY <2>1, <1>0, <1>4
<1>6. IsFiniteSet(m .. top) /\ Cardinality(m .. top) = IF m > top THEN 0 ELSE top - m + 1
  BY <1>4, FS_Interval
<1>7. Cardinality(m .. top) = Period - 1
  <2>1. ~(m > top) /\ top - m + 1 = Period - 1
    BY <1>0, <1>4
  <2> QED BY <1>6, <2>1
<1>8. Cardinality(S) <= Cardinality(m .. top) /\ Cardinality(S) \in Nat
  BY <1>5, <1>6, FS_Subset, FS_CardinalityType
<1> QED BY <1>7, <1>8, <1>0

\* Bytes in which no two totals are whole blocks apart.
Looked(x, s, out, rs, totals) ==
  /\ Len(out) \in Nat /\ Gives(out, x, s, Len(out)) /\ Aligned(s, rs)
  /\ SentBefore(x, s + Len(out), totals) /\ Distinct(totals)

\* The blocks looked at that begin with a sync byte.
SyncAts(out, rs) == {b \in 0 .. Windows(out, rs) - 1 : IsSync(First(out, rs, b))}

\* What such a block tells.
SyncPlace(x, s, out, rs, totals, b) ==
  LET u == At(s, rs, b)
      k == BlockOf(First(out, rs, b))
  IN  /\ b \in Nat /\ k \in Int /\ u \in Int /\ x[u] # Bad
      /\ LostBefore(x, u) \in totals /\ LostBefore(x, u) + u = k * BlockLen
      /\ s <= u /\ u < s + Len(out)

(* A sync byte tells how many bytes were lost before it.                    *)
LEMMA SyncPlaces ==
  ASSUME NEW x \in [Int -> Int], NEW s \in Int, NEW out, NEW rs \in Nat, NEW totals \in SUBSET Int,
         Looked(x, s, out, rs, totals), NEW b \in SyncAts(out, rs)
  PROVE  SyncPlace(x, s, out, rs, totals, b)
<1> DEFINE u == At(s, rs, b)
           W == Windows(out, rs)
<1>1. /\ Len(out) \in Nat /\ Gives(out, x, s, Len(out)) /\ Aligned(s, rs)
      /\ SentBefore(x, s + Len(out), totals)
  BY Zenon DEF Looked
<1>2. b \in 0 .. W - 1 /\ IsSync(First(out, rs, b))
  BY DEF SyncAts
<1>3. W \in Nat
  BY <1>1, WindowsIn
<1>f. \A i \in 0 .. W - 1 : /\ At(s, rs, i) \in Int /\ s <= At(s, rs, i)
                            /\ At(s, rs, i) < s + Len(out)
                            /\ First(out, rs, i) = x[At(s, rs, i)]
  <2>1. Firsts(x, s, out, rs)
    BY <1>1, FirstsAre, Zenon
  <2> QED BY <2>1, Zenon DEF Firsts, FirstAt
<1>4. u \in Int /\ s <= u /\ u < s + Len(out) /\ First(out, rs, b) = x[u]
  BY <1>2, <1>f, Zenon
<1> HIDE DEF u, W
<1>5. b \in Nat
  BY <1>2, <1>3
<1>6. x[u] # Bad /\ IsSync(x[u])
  BY <1>2, <1>4, Zenon DEF IsSync
<1>7. LostBefore(x, u) + u = BlockOf(x[u]) * BlockLen /\ BlockOf(x[u]) \in Int
  BY <1>4, <1>6, SyncTells
<1>8. LostBefore(x, u) \in totals
  BY <1>1, <1>4, <1>6 DEF SentBefore
<1> QED BY <1>4, <1>5, <1>6, <1>7, <1>8, Zenon DEF SyncPlace, u

(* All those blocks had lost the same before them, so their numbers go      *)
(* along with their places.                                                 *)
Alike(x, s, out, rs, a, b) ==
  /\ LostBefore(x, At(s, rs, b)) = LostBefore(x, At(s, rs, a))
  /\ BlockOf(First(out, rs, b)) = BlockOf(First(out, rs, a)) + (b - a)

(* All those blocks had lost the same before them.                          *)
LEMMA NumbersAlike ==
  ASSUME NEW x \in [Int -> Int], NEW s \in Int, NEW out, NEW rs \in Nat, NEW totals \in SUBSET Int,
         Looked(x, s, out, rs, totals), NEW a \in SyncAts(out, rs), NEW b \in SyncAts(out, rs)
  PROVE  Alike(x, s, out, rs, a, b)
<1> DEFINE u == At(s, rs, a)
           v == At(s, rs, b)
           k == BlockOf(First(out, rs, a))
           l == BlockOf(First(out, rs, b))
           c == LostBefore(x, u)
           d == LostBefore(x, v)
<1>0. BlockLen \in Nat /\ BlockLen > 0
  BY Counts
<1>1. a \in Nat /\ k \in Int /\ u \in Int /\ c \in totals /\ c + u = k * BlockLen
  <2>1. SyncPlace(x, s, out, rs, totals, a)
    BY SyncPlaces
  <2> QED BY <2>1, Zenon DEF SyncPlace
<1>2. b \in Nat /\ l \in Int /\ v \in Int /\ d \in totals /\ d + v = l * BlockLen
  <2>1. SyncPlace(x, s, out, rs, totals, b)
    BY SyncPlaces
  <2> QED BY <2>1, Zenon DEF SyncPlace
<1>3. u = (s + rs) + a * BlockLen /\ v = (s + rs) + b * BlockLen
  BY DEF At, BlocksFrom
<1>4. Distinct(totals)
  BY Zenon DEF Looked
<1> HIDE DEF u, v, k, l, c, d
<1> DEFINE j == (l - k) - (b - a)
           m == k + (b - a)
<1>t. c \in Int /\ d \in Int /\ j \in Int /\ m \in Int
  BY <1>1, <1>2
<1>5. d - c = BlockLen * j
  <2> DEFINE aB == a * BlockLen
             bB == b * BlockLen
             kB == k * BlockLen
             lB == l * BlockLen
  <2>1. aB \in Int /\ bB \in Int /\ kB \in Int /\ lB \in Int
    BY <1>0, <1>1, <1>2
  <2>2. BlockLen * j = (lB - kB) - (bB - aB)
    BY <1>0, <1>1, <1>2
  <2> HIDE DEF aB, bB, kB, lB, j
  <2>3. c + u = kB /\ d + v = lB /\ u = (s + rs) + aB /\ v = (s + rs) + bB
    BY <1>1, <1>2, <1>3 DEF aB, bB, kB, lB
  <2> QED BY <2>1, <2>2, <2>3, <1>t, <1>1, <1>2
<1>6. (d - c) % BlockLen = 0
  <2>1. (BlockLen * j + 0) % BlockLen = 0
    <3>1. 0 \in 0 .. BlockLen - 1
      BY <1>0
    <3> QED BY <3>1, <1>t, <1>0, ModUnique
  <2> HIDE DEF j
  <2>2. BlockLen * j + 0 = d - c
    BY <1>5, <1>t, <1>0
  <2> QED BY <2>1, <2>2
<1>7. d = c
  BY <1>1, <1>2, <1>4, <1>6 DEF Distinct
<1>8. j = 0
  <2> HIDE DEF j
  <2>1. BlockLen * j < BlockLen /\ BlockLen * j > -BlockLen
    BY <1>5, <1>7, <1>t, <1>0
  <2> QED BY <2>1, <1>t, <1>0, MultipleSmall
<1>9. l = m
  BY <1>8, <1>1, <1>2
<1> QED BY <1>7, <1>9, Zenon DEF u, v, k, l, c, d, m, Alike

(* Of bytes none of which is wrong, no block between two begins otherwise.  *)
LEMMA SyncBetween ==
  ASSUME NEW x \in [Int -> Int], NEW s \in Int, NEW out, NEW rs \in Nat, NEW totals \in SUBSET Int,
         Looked(x, s, out, rs, totals),
         \A v \in Int : s <= v /\ v < s + Len(out) => x[v] # Bad,
         NEW a \in SyncAts(out, rs), NEW c \in SyncAts(out, rs), NEW b \in Int, a <= b, b <= c
  PROVE  b \in SyncAts(out, rs)
<1> DEFINE ua == At(s, rs, a)
           ub == At(s, rs, b)
           uc == At(s, rs, c)
           ka == BlockOf(First(out, rs, a))
           la == LostBefore(x, ua)
           lb == LostBefore(x, ub)
           lc == LostBefore(x, uc)
           W == Windows(out, rs)
           kb == ka + (b - a)
<1>0. BlockLen \in Nat /\ BlockLen > 0
  BY Counts
<1>1. /\ Len(out) \in Nat /\ Gives(out, x, s, Len(out)) /\ Aligned(s, rs)
      /\ SentBefore(x, s + Len(out), totals)
  BY Zenon DEF Looked
<1>2. /\ a \in Nat /\ ka \in Int /\ ua \in Int /\ x[ua] # Bad /\ la \in totals
      /\ la + ua = ka * BlockLen /\ ua < s + Len(out)
  <2>1. SyncPlace(x, s, out, rs, totals, a)
    BY SyncPlaces
  <2> QED BY <2>1, Zenon DEF SyncPlace
<1>3. c \in Nat /\ uc \in Int /\ x[uc] # Bad /\ lc \in totals /\ uc < s + Len(out)
  <2>1. SyncPlace(x, s, out, rs, totals, c)
    BY SyncPlaces
  <2> QED BY <2>1, Zenon DEF SyncPlace
<1>4. lc = la
  <2>1. Alike(x, s, out, rs, a, c)
    BY NumbersAlike, Zenon
  <2> QED BY <2>1, Zenon DEF Alike
<1>5. b \in 0 .. W - 1
  <2>1. c \in 0 .. W - 1 /\ W \in Nat
    BY <1>1, WindowsIn DEF SyncAts
  <2> QED BY <2>1, <1>2, SMTT(60)
<1>f. \A i \in 0 .. W - 1 : /\ At(s, rs, i) \in Int /\ s <= At(s, rs, i)
                            /\ At(s, rs, i) < s + Len(out)
                            /\ First(out, rs, i) = x[At(s, rs, i)]
  <2>1. Firsts(x, s, out, rs)
    BY <1>1, FirstsAre, Zenon
  <2> QED BY <2>1, Zenon DEF Firsts, FirstAt
<1>6. ub \in Int /\ s <= ub /\ ub < s + Len(out) /\ First(out, rs, b) = x[ub]
  BY <1>5, <1>f, Zenon
<1>7. x[ub] # Bad
  BY <1>6
<1>8. /\ ua = (s + rs) + a * BlockLen /\ ub = (s + rs) + b * BlockLen
      /\ uc = (s + rs) + c * BlockLen
  BY DEF At, BlocksFrom
<1> HIDE DEF ua, ub, uc, ka, la, lb, lc, W
<1>9. la \in Int /\ lb \in totals /\ lb \in Int /\ kb \in Int
  <2>1. lb \in totals
    BY <1>1, <1>6, <1>7 DEF SentBefore, lb
  <2> QED BY <2>1, <1>2
<1>10. \A u, v \in Int : u < v /\ v < s + Len(out) /\ x[u] # Bad /\ x[v] # Bad =>
         LostBefore(x, u) <= LostBefore(x, v)
  BY <1>1, Zenon DEF SentBefore
<1>11. la <= lb
  <2>1. CASE a = b
    BY <2>1, <1>9 DEF la, lb, ua, ub
  <2>2. CASE a < b
    <3>1. a * BlockLen < b * BlockLen /\ a * BlockLen \in Int /\ b * BlockLen \in Int
      BY <2>2, <1>0, <1>2
    <3>2. ua < ub
      BY <3>1, <1>8
    <3> QED BY <3>2, <1>10, <1>2, <1>6, <1>7, Zenon DEF la, lb
  <2> QED BY <2>1, <2>2, <1>2
<1>12. lb <= lc
  <2>1. CASE b = c
    BY <2>1, <1>9 DEF lb, lc, ub, uc
  <2>2. CASE b < c
    <3>1. b * BlockLen < c * BlockLen /\ b * BlockLen \in Int /\ c * BlockLen \in Int
      BY <2>2, <1>0, <1>3
    <3>2. ub < uc
      BY <3>1, <1>8
    <3> QED BY <3>2, <1>10, <1>3, <1>6, <1>7, Zenon DEF lb, lc
  <2> QED BY <2>1, <2>2, <1>3
<1>13. lb = la
  BY <1>4, <1>9, <1>11, <1>12
<1>14. lb + ub = kb * BlockLen
  <2> DEFINE aB == a * BlockLen
             bB == b * BlockLen
             kB == ka * BlockLen
             sr == s + rs
  <2>1. aB \in Int /\ bB \in Int /\ kB \in Int /\ sr \in Int
    BY <1>0, <1>2
  <2>2. kb * BlockLen = kB + (bB - aB)
    BY <1>0, <1>2
  <2> HIDE DEF aB, bB, kB, kb, sr
  <2>3. la + ua = kB /\ ua = sr + aB /\ ub = sr + bB
    BY <1>2, <1>8 DEF aB, bB, kB, sr
  <2>4. lb \in Int /\ la \in Int /\ ua \in Int /\ ub \in Int /\ lb = la
    BY <1>9, <1>13, <1>2, <1>6
  <2>5. lb + ub = kB + (bB - aB)
    BY <2>1, <2>3, <2>4
  <2> QED BY <2>2, <2>5
<1> HIDE DEF kb
<1>15. IsSync(x[ub])
  BY <1>6, <1>7, <1>9, <1>14, SyncTells DEF lb
<1> QED BY <1>5, <1>6, <1>15 DEF SyncAts, W

(* The blocks with the sync byte expected of them.                          *)
LEMMA SyncedIs ==
  ASSUME NEW out, NEW rs, NEW phase
  PROVE  Synced(out, rs, phase) =
           {b \in SyncAts(out, rs) :
              (BlockOf(First(out, rs, b)) % Period = 0) <=> (((phase + b) % Period) = 0)}
BY DEF Synced, SyncAts, SyncMatches, IsInverted, First

\* The block at the first place, if its bytes belong together.
Numbers(out, rs, k) == \A b \in SyncAts(out, rs) : BlockOf(First(out, rs, b)) = k + b

\* A phase that expects what the numbers tell.
SamePeriod(out, rs, k, phase) ==
  \A b \in SyncAts(out, rs) : ((k + b) % Period = 0) <=> ((phase + b) % Period = 0)

(* The phase of the numbers has every sync byte, so the best one has too.   *)
LEMMA BestHasAll ==
  ASSUME NEW out, Len(out) \in Nat, NEW rs \in Nat, NEW d, NEW phase \in 0 .. Period - 1,
         NEW found, IsBest(found, out, d, rs, phase), NEW k \in Int, Numbers(out, rs, k)
  PROVE  SamePeriod(out, rs, k, phase)
<1> DEFINE p == k % Period
           S == SyncAts(out, rs)
           Sp == Synced(out, rs, p)
           Sf == Synced(out, rs, phase)
           Cp == Clean(out, rs, p)
           Cf == Clean(out, rs, phase)
           best == Candidate(out, d, rs, p)
<1>0. Period \in Nat /\ Period > 1 /\ Period > 0
  BY Counts
<1>1. p \in 0 .. Period - 1 /\ p \in Int /\ p % Period = k % Period
  <2>1. p \in 0 .. Period - 1
    BY <1>0, Divide
  <2>2. p \in Int /\ p % Period = p
    BY PhaseTwice, Zenon
  <2> QED BY <2>1, <2>2
<1>n. S \subseteq Int
  <2>1. S \subseteq 0 .. Windows(out, rs) - 1
    BY DEF SyncAts
  <2> QED BY <2>1
<1> HIDE DEF p
<1>2. \A b \in S : (p + b) % Period = (k + b) % Period
  <2> TAKE b \in S
  <2>1. b \in Int
    BY <1>n
  <2> QED BY <2>1, <1>1, PhaseAdd
<1>3. Sp = S
  <2>1. \A b \in S : (BlockOf(First(out, rs, b)) % Period = 0) <=> (((p + b) % Period) = 0)
    BY <1>2, Zenon DEF Numbers
  <2>2. Sp = {b \in S : (BlockOf(First(out, rs, b)) % Period = 0) <=> (((p + b) % Period) = 0)}
    BY SyncedIs, Zenon
  <2> HIDE DEF S, Sp
  <2> QED BY <2>1, <2>2
<1>4. Sf = {b \in S : ((k + b) % Period = 0) <=> ((phase + b) % Period = 0)}
  <2>1. Sf = {b \in S : (BlockOf(First(out, rs, b)) % Period = 0) <=> ((phase + b) % Period = 0)}
    BY SyncedIs, Zenon
  <2>2. \A b \in S : BlockOf(First(out, rs, b)) = k + b
    BY Zenon DEF Numbers
  <2> HIDE DEF S, Sf
  <2> QED BY <2>1, <2>2
<1>5. Cp = {b \in Sp : b < ProbeBlocks /\ IsClean(Window(out, rs, b))}
      /\ Cf = {b \in Sf : b < ProbeBlocks /\ IsClean(Window(out, rs, b))}
  BY Zenon DEF Clean
<1>6. /\ IsFiniteSet(Sp) /\ IsFiniteSet(Cp)
      /\ Cardinality(Sp) \in Nat /\ Cardinality(Cp) \in Nat
  BY SyncedFinite, Zenon
<1>7. /\ Cardinality(Sf) \in Nat /\ Cardinality(Cf) \in Nat
  BY SyncedFinite, Zenon
<1>8. /\ best.sync = Cardinality(Sp) /\ best.clean = Cardinality(Cp)
  BY DEF Candidate
<1>9. /\ found.sync = Cardinality(Sf) /\ found.clean = Cardinality(Cf)
  <2>1. found = Candidate(out, d, rs, phase)
    BY Zenon DEF IsBest
  <2> QED BY <2>1 DEF Candidate
<1>10. Points(best) < Points(found) \/ Points(best) = Points(found)
  BY <1>1, Zenon DEF IsBest
<1> DEFINE a == Cardinality(Sp)
           b == Cardinality(Sf)
           e == Cardinality(Cp)
           f == Cardinality(Cf)
<1>11. e * 1000 + a < f * 1000 + b \/ e * 1000 + a = f * 1000 + b
  <2> HIDE DEF best, a, b, e, f
  <2>1. Points(best) = best.clean * 1000 + best.sync
    BY DEF Points
  <2>2. Points(found) = found.clean * 1000 + found.sync
    BY DEF Points
  <2>3. best.sync = a /\ best.clean = e /\ found.sync = b /\ found.clean = f
    BY <1>8, <1>9, Zenon DEF a, b, e, f
  <2>4. Points(best) = e * 1000 + a /\ Points(found) = f * 1000 + b
    BY <2>1, <2>2, <2>3, ZenonT(60)
  <2> QED BY <1>10, <2>4, SMT
<1> HIDE DEF S, Sp, Sf, Cp, Cf, best
<1>12. Sf \subseteq Sp
  BY <1>3, <1>4
<1>13. Cf \subseteq Cp
  BY <1>5, <1>12
<1>14. f <= e
  BY <1>6, <1>13, FS_Subset
<1>15. b <= a /\ (a = b => Sp = Sf)
  BY <1>6, <1>12, FS_Subset
<1>16. a = b
  <2>1. a \in Nat /\ b \in Nat /\ e \in Nat /\ f \in Nat
    BY <1>6, <1>7
  <2> HIDE DEF a, b, e, f
  <2> QED BY <1>11, <1>14, <1>15, <2>1
<1>17. S = Sf
  BY <1>3, <1>15, <1>16
<1> QED BY <1>4, <1>17 DEF SamePeriod, S

(* Numbers of one remainder make the same period.                           *)
LEMMA PhaseFromHit ==
  ASSUME NEW k \in Int, NEW phase \in Int, NEW b \in Int,
         (k + b) % Period = 0, (phase + b) % Period = 0
  PROVE  phase % Period = k % Period
<1>0. Period \in Nat /\ Period > 0
  BY Counts
<1> DEFINE m == phase + b
           n == k + b
<1>1. m \in Int /\ n \in Int /\ m - b = phase /\ n - b = k
  OBVIOUS
<1>2. m % Period = n % Period
  OBVIOUS
<1> HIDE DEF m, n
<1>3. (m - b) % Period = (n - b) % Period
  BY <1>0, <1>1, <1>2, ModAdd
<1> QED BY <1>1, <1>3

(* Where no number begins a period, none of the other phase does.           *)
LEMMA OtherPhase ==
  ASSUME NEW k \in Int, NEW phase \in Int, NEW b \in Int,
         (k + b) % Period = (k - phase) % Period
  PROVE  (phase + b) % Period = 0
<1>0. Period \in Nat /\ Period > 0 /\ 0 \in 0 .. Period - 1
  BY Counts
<1> DEFINE m == k + b
           n == k - phase
<1>1. m \in Int /\ n \in Int /\ m - n = phase + b /\ n - n = 0
  OBVIOUS
<1>2. m % Period = n % Period
  OBVIOUS
<1> HIDE DEF m, n
<1>3. (m - n) % Period = (n - n) % Period
  BY <1>0, <1>1, <1>2, ModAdd, ZenonT(60)
<1>4. 0 % Period = 0
  BY <1>0, ModSmall
<1> QED BY <1>1, <1>3, <1>4

(* Phases that do not differ are one.                                       *)
LEMMA NoOther ==
  ASSUME NEW k \in Int, NEW phase \in Int, (k - phase) % Period = 0
  PROVE  phase % Period = k % Period
<1>0. Period \in Nat /\ Period > 0 /\ 0 \in 0 .. Period - 1
  BY Counts
<1> DEFINE n == k - phase
<1>1. n \in Int /\ n + phase = k /\ 0 + phase = phase
  OBVIOUS
<1>2. n % Period = 0 % Period
  BY <1>0, ModSmall
<1> HIDE DEF n
<1>3. 0 \in Int
  OBVIOUS
<1>4. (n + phase) % Period = (0 + phase) % Period
  BY <1>1, <1>2, <1>3, PhaseAdd, Zenon
<1> QED BY <1>1, <1>4

(* In every so many numbers one begins a period.                            *)
LEMMA PeriodBegins ==
  ASSUME NEW k \in Int, NEW a \in Int
  PROVE  \E b \in a .. a + (Period - 1) : (k + b) % Period = 0
<1>0. Period \in Nat /\ Period > 0 /\ 0 \in 0 .. Period - 1
  BY Counts
<1> DEFINE n == -(k + a)
           r == n % Period
           q == n \div Period
           b == a + r
<1>1. n \in Int
  OBVIOUS
<1>2. r \in 0 .. Period - 1 /\ q \in Int /\ n = Period * q + r
  BY <1>0, <1>1, Divide
<1>3. n = -(k + a)
  OBVIOUS
<1> HIDE DEF n, r, q
<1> DEFINE j == -q
<1>4. k + b = Period * j + 0 /\ j \in Int
  <2>1. Period * j = -(Period * q) /\ Period * q \in Int
    BY <1>0, <1>2
  <2> QED BY <2>1, <1>2, <1>3, <1>0
<1> HIDE DEF j
<1>5. (Period * j + 0) % Period = 0
  BY <1>0, <1>4, ModUnique
<1>6. b \in a .. a + (Period - 1)
  BY <1>0, <1>2
<1> QED BY <1>4, <1>5, <1>6

\* No block looked at tells the place in the period from another.
BlindAt(out, rs) ==
  \E other \in 1 .. Period - 1 :
    \A b \in 0 .. Windows(out, rs) - 1 :
      IsSync(First(out, rs, b)) => BlockOf(First(out, rs, b)) % Period \notin {0, other}

\* No byte between two places came in wrong.
Undamaged(x, s, end) == \A v \in Int : s <= v /\ v < end => x[v] # Bad

\* The number of the block at the first place, told by the one at the a-th;
\* where that block begins; and phases that are one.
NumberBy(out, rs, a) == BlockOf(First(out, rs, a)) - a

\* The k-th block comes out at the place, one of the totals being lost.
PlaceOf(place, k, totals) ==
  \E l \in totals : place + l = (k + (Branches - 1)) * BlockLen

\* The phase is that of the k-th block.
SamePhase(phase, k) == phase % Period = k % Period

(* The numbers of the blocks that begin with a sync byte.                   *)
LEMMA NumbersFound ==
  ASSUME NEW x \in [Int -> Int], NEW s \in Int, NEW out, NEW rs \in Nat, NEW totals \in SUBSET Int,
         Looked(x, s, out, rs, totals), NEW a \in SyncAts(out, rs),
         NEW k, k = NumberBy(out, rs, a)
  PROVE  /\ k \in Int /\ Numbers(out, rs, k)
         /\ PlaceOf(s + (Transient + rs), k, totals)
<1> DEFINE u == At(s, rs, a)
           l == LostBefore(x, u)
           n == BlockOf(First(out, rs, a))
<1>0. /\ BlockLen \in Nat /\ Transient \in Nat /\ Transient = (Branches - 1) * BlockLen
      /\ Branches \in Nat
  BY BlockSizes
<1>1. a \in Nat /\ n \in Int /\ u \in Int /\ l \in totals /\ l + u = n * BlockLen
  <2>1. SyncPlace(x, s, out, rs, totals, a)
    BY SyncPlaces
  <2> QED BY <2>1, Zenon DEF SyncPlace
<1>2. u = (s + rs) + a * BlockLen
  BY DEF At, BlocksFrom
<1>3. k = n - a
  BY Zenon DEF NumberBy
<1>4. Numbers(out, rs, k)
  <2> SUFFICES ASSUME NEW b \in SyncAts(out, rs)
               PROVE  BlockOf(First(out, rs, b)) = k + b
    BY DEF Numbers
  <2> DEFINE m == BlockOf(First(out, rs, b))
  <2>1. Alike(x, s, out, rs, a, b)
    BY NumbersAlike, Zenon
  <2>2. m = n + (b - a)
    BY <2>1, Zenon DEF Alike
  <2>3. b \in Nat
    <3>1. SyncPlace(x, s, out, rs, totals, b)
      BY SyncPlaces
    <3> QED BY <3>1, Zenon DEF SyncPlace
  <2> HIDE DEF m, n
  <2>4. m = k + b
    BY <2>2, <2>3, <1>1, <1>3
  <2> QED BY <2>4 DEF m
<1>5. (s + (Transient + rs)) + l = (k + (Branches - 1)) * BlockLen /\ k \in Int
  <2> HIDE DEF u, l, n
  <2>1. l \in Int /\ k \in Int
    BY <1>1, <1>3
  <2> DEFINE nB == n * BlockLen
             aB == a * BlockLen
             tB == (Branches - 1) * BlockLen
             sr == s + rs
  <2>2. nB \in Int /\ aB \in Int /\ tB \in Int /\ sr \in Int
    BY <1>0, <1>1
  <2>3. (k + (Branches - 1)) * BlockLen = (nB - aB) + tB
    <3>1. (k + (Branches - 1)) * BlockLen = k * BlockLen + tB
      BY <2>1, <1>0
    <3>2. k * BlockLen = nB - aB
      BY <1>1, <1>3, <1>0
    <3> QED BY <3>1, <3>2
  <2>4. (s + (Transient + rs)) + l = (sr + tB) + l
    BY <1>0, <2>1
  <2>5. l + u = nB /\ u = sr + aB
    BY <1>1, <1>2
  <2> HIDE DEF nB, aB, tB, sr
  <2>6. (sr + tB) + l = (nB - aB) + tB
    BY <2>1, <2>2, <2>5, <1>1
  <2> QED BY <2>1, <2>3, <2>4, <2>6
<1> QED BY <1>1, <1>4, <1>5, Zenon DEF PlaceOf

(* The found phase is that of the numbers.                                  *)
LEMMA PhaseFound ==
  ASSUME NEW x \in [Int -> Int], NEW s \in Int, NEW out, NEW rs \in Nat, NEW totals \in SUBSET Int,
         Looked(x, s, out, rs, totals), NEW phase \in 0 .. Period - 1,
         NEW k \in Int, Numbers(out, rs, k), SamePeriod(out, rs, k, phase),
         Cardinality(Synced(out, rs, phase)) >= Period,
         Undamaged(x, s, s + Len(out)) \/ ~BlindAt(out, rs)
  PROVE  SamePhase(phase, k)
<1>0. Period \in Nat /\ Period > 1 /\ Period > 0
  BY Counts
<1> DEFINE S == Synced(out, rs, phase)
           A == SyncAts(out, rs)
<1>i. phase \in Int
  OBVIOUS
<1>1. Len(out) \in Nat
  BY Zenon DEF Looked
<1>2. A \subseteq Nat
  <2> SUFFICES ASSUME NEW b \in A PROVE b \in Nat
    OBVIOUS
  <2>1. SyncPlace(x, s, out, rs, totals, b)
    BY SyncPlaces
  <2> QED BY <2>1, Zenon DEF SyncPlace
<1>3. S \subseteq A
  BY SyncedIs
<1>4. IsFiniteSet(S)
  BY <1>1, SyncedFinite
<1>5. ASSUME NEW b \in A, (k + b) % Period = 0
      PROVE  phase % Period = k % Period
  <2>1. b \in Int
    BY <1>2
  <2>2. (phase + b) % Period = 0
    BY <1>5, Zenon DEF SamePeriod
  <2> HIDE DEF A
  <2> QED BY <2>1, <2>2, <1>5, <1>i, PhaseFromHit
<1>s. SUFFICES phase % Period = k % Period
  BY DEF SamePhase
<1>6. CASE Undamaged(x, s, s + Len(out))
  <2>1. PICK a \in S, c \in S : c >= a + (Period - 1)
    <3>1. S \in SUBSET Nat /\ Cardinality(S) >= Period
      BY <1>2, <1>3
    <3> HIDE DEF S
    <3> QED BY <3>1, <1>4, FarApart
  <2>2. a \in A /\ c \in A /\ a \in Int /\ c \in Int
    BY <1>2, <1>3
  <2>3. PICK b \in a .. a + (Period - 1) : (k + b) % Period = 0
    BY <2>2, PeriodBegins
  <2>4. b \in Int /\ a <= b /\ b <= c
    BY <2>1, <2>2, <1>0
  <2>5. \A v \in Int : s <= v /\ v < s + Len(out) => x[v] # Bad
    BY <1>6, Zenon DEF Undamaged
  <2>6. b \in A
    BY <2>2, <2>4, <2>5, SyncBetween, Zenon
  <2> QED BY <2>3, <2>6, <1>5
<1>7. CASE ~BlindAt(out, rs)
  <2> SUFFICES ASSUME phase % Period # k % Period PROVE FALSE
    OBVIOUS
  <2> DEFINE other == (k - phase) % Period
  <2>0. other \in 0 .. Period - 1
    <3>1. k - phase \in Int
      BY <1>i
    <3> HIDE DEF A, S
    <3> QED BY <3>1, <1>0, Divide
  <2>1. other # 0
    BY <1>i, NoOther
  <2>2. other \in 1 .. Period - 1
    BY <2>0, <2>1, <1>0
  <2>3. ASSUME NEW b \in 0 .. Windows(out, rs) - 1, IsSync(First(out, rs, b))
        PROVE  BlockOf(First(out, rs, b)) % Period \notin {0, other}
    <3>1. b \in A
      BY <2>3, Zenon DEF SyncAts
    <3>2. BlockOf(First(out, rs, b)) = k + b /\ b \in Int
      <4>1. BlockOf(First(out, rs, b)) = k + b
        BY <3>1, Zenon DEF Numbers
      <4>2. b \in Int
        <5> HIDE DEF A
        <5> QED BY <3>1, <1>2
      <4> QED BY <4>1, <4>2
    <3>3. (k + b) % Period # 0
      BY <3>1, <1>5
    <3>4. (k + b) % Period # other
      <4> SUFFICES ASSUME (k + b) % Period = other PROVE FALSE
        OBVIOUS
      <4>1. (phase + b) % Period = 0
        BY <3>2, <1>i, OtherPhase
      <4> QED BY <4>1, <3>1, <3>3, Zenon DEF SamePeriod
    <3> HIDE DEF other, A
    <3> QED BY <3>2, <3>3, <3>4
  <2> HIDE DEF other
  <2>4. BlindAt(out, rs)
    BY <2>2, <2>3, Zenon DEF BlindAt
  <2> QED BY <2>4, <1>7
<1> QED BY <1>6, <1>7

(* The phase that the search has found is right for the first block, unless *)
(* all that tells it from another was received wrong.                       *)
LEMMA StartsRight ==
  ASSUME NEW x \in [Int -> Int], NEW s \in Int, NEW out, Len(out) \in Nat, NEW rs \in Nat,
         NEW totals \in SUBSET Int, Gives(out, x, s, Len(out)),
         SentBefore(x, s + Len(out), totals), Distinct(totals),
         NEW phase \in 0 .. Period - 1, NEW found, NEW d, IsBest(found, out, d, rs, phase),
         Cardinality(Synced(out, rs, phase)) >= Period,
         Undamaged(x, s, s + Len(out)) \/ ~BlindAt(out, rs)
  PROVE  Right(s + (Transient + rs), s, phase, totals)
<1> DEFINE place == s + (Transient + rs)
<1> SUFFICES ASSUME (place - s) % Branches = 0
             PROVE  \E lambda \in totals, q \in Int :
                      /\ place + lambda = q * BlockLen
                      /\ phase % Period = (q - (Branches - 1)) % Period
  BY DEF Right
<1>0. Period \in Nat /\ Period > 1 /\ Branches \in Nat
  BY Counts
<1>1. Looked(x, s, out, rs, totals)
  BY Zenon DEF Looked, Aligned
<1>2. Synced(out, rs, phase) # {}
  <2> SUFFICES ASSUME Synced(out, rs, phase) = {} PROVE FALSE
    OBVIOUS
  <2>1. Cardinality(Synced(out, rs, phase)) = 0
    BY FS_EmptySet
  <2> QED BY <2>1, <1>0
<1>3. PICK a \in SyncAts(out, rs) : TRUE
  BY <1>2, SyncedIs
<1> DEFINE k == NumberBy(out, rs, a)
<1>4. /\ k \in Int /\ Numbers(out, rs, k) /\ PlaceOf(place, k, totals)
  BY <1>1, NumbersFound, Zenon
<1> HIDE DEF k
<1>5. SamePeriod(out, rs, k, phase)
  BY <1>4, BestHasAll
<1>6. SamePhase(phase, k)
  BY <1>1, <1>4, <1>5, PhaseFound, Zenon
<1>7. PICK l \in totals : place + l = (k + (Branches - 1)) * BlockLen
  BY <1>4, Zenon DEF PlaceOf
<1> DEFINE q == k + (Branches - 1)
<1>8. q \in Int /\ q - (Branches - 1) = k
  BY <1>4, <1>0
<1>9. place + l = q * BlockLen
  BY <1>7
<1> HIDE DEF q, place
<1>10. phase % Period = (q - (Branches - 1)) % Period
  BY <1>6, <1>8, Zenon DEF SamePhase
<1> QED BY <1>8, <1>9, <1>10, Zenon

(***************************************************************************)
(* The search among bytes of which none is wrong or lost.                  *)
(***************************************************************************)
Begin(s, rs) == s + (Transient + rs)

\* The b-th block looked at is the one that comes out at v.
WindowAt(x, s, out, rs, b, v) ==
  /\ v \in Int /\ v + BlockLen <= s + Len(out) /\ Window(out, rs, b) = BlockAt(x, s, v)
  /\ b \in Nat /\ s + Transient <= v

(* A block looked at is one that comes out of the deinterleaver.            *)
LEMMA WindowIs ==
  ASSUME NEW x \in [Int -> Int], NEW s \in Int, NEW out, Len(out) \in Nat, NEW rs \in Nat,
         Gives(out, x, s, Len(out)), NEW b \in 0 .. Windows(out, rs) - 1,
         NEW v, v = BlocksFrom(Begin(s, rs), b)
  PROVE  WindowAt(x, s, out, rs, b, v)
<1> DEFINE L == Len(out)
           W == Windows(out, rs)
           m == b * BlockLen
<1>0. BlockLen \in Nat /\ BlockLen > 0 /\ Transient \in Nat /\ L \in Nat
  BY Counts
<1>1. W \in Nat /\ (Transient + rs) + (m + BlockLen) <= L
  BY WindowsIn
<1>2. b \in Nat
  BY <1>1
<1>3. m \in Nat
  BY <1>0, <1>2
<1>4. v = (s + (Transient + rs)) + m
  BY DEF BlocksFrom, Begin
<1> HIDE DEF W, m, L
<1>5. v \in Int /\ v + BlockLen <= s + L /\ s + Transient <= v
  BY <1>0, <1>1, <1>3, <1>4
<1>6. \A i \in 1 .. BlockLen : out[Transient + rs + m + i] = Out(x, s, v + i - 1)
  <2> TAKE i \in 1 .. BlockLen
  <2> DEFINE k == Transient + rs + m + i
  <2>1. k \in 1 .. L /\ (s + k) - 1 = v + i - 1
    BY <1>0, <1>1, <1>3, <1>4
  <2> HIDE DEF k
  <2>2. out[k] = Out(x, s, (s + k) - 1)
    BY <2>1, Zenon DEF Gives, L
  <2> QED BY <2>1, <2>2 DEF k
<1>7. Window(out, rs, b) = [i \in 1 .. BlockLen |-> out[Transient + rs + m + i]]
  BY DEF Window, m
<1>8. Window(out, rs, b) = BlockAt(x, s, v)
  BY <1>6, <1>7 DEF BlockAt
<1> QED BY <1>2, <1>5, <1>8, Zenon DEF L, WindowAt

(* A block whose bytes belong together is of one number.                    *)
LEMMA CleanNear ==
  ASSUME NEW block, NEW k \in Int, block[1] = k * BlockLen, IsClean(block)
  PROVE  k \in Near(block)
<1>0. BlockLen \in Nat /\ BlockLen > 1 /\ Correctable \in Nat
  BY Counts
<1>1. \A i \in 1 .. BlockLen : block[i] = k * BlockLen + i - 1
  <2> TAKE i \in 1 .. BlockLen
  <2> DEFINE kB == k * BlockLen
  <2>1. kB \in Int
    BY <1>0
  <2> HIDE DEF kB
  <2>2. block[1] = kB
    BY DEF kB
  <2>3. CASE i = 1
    BY <2>1, <2>2, <2>3 DEF kB
  <2>4. CASE i # 1
    <3>1. i \in 2 .. BlockLen
      BY <2>4, <1>0
    <3>2. block[i] = block[1] + i - 1
      BY <3>1, Zenon DEF IsClean
    <3> QED BY <3>2, <2>2 DEF kB
  <2> QED BY <2>3, <2>4
<1>2. Misplaced(block, k) = 0
  <2>1. {i \in 1 .. BlockLen : block[i] # k * BlockLen + i - 1} = {}
    BY <1>1
  <2> QED BY <2>1, FS_EmptySet DEF Misplaced
<1>3. BlockOf(block[1]) = k /\ 1 \in 1 .. BlockLen
  <2> DEFINE p == BlockLen * k + 0
  <2>1. 0 \in 0 .. BlockLen - 1 /\ block[1] = p
    BY <1>0
  <2>2. p \div BlockLen = k
    BY <2>1, <1>0, ModUnique
  <2> HIDE DEF p
  <2> QED BY <2>1, <2>2, <1>0 DEF BlockOf
<1> QED BY <1>0, <1>2, <1>3 DEF Near

(* A sync byte is a multiple of a block's length.                           *)
LEMMA SyncMultiple ==
  ASSUME NEW p \in Int, IsSync(p)
  PROVE  BlockOf(p) \in Int /\ p = BlockOf(p) * BlockLen
<1> DEFINE q == BlockOf(p)
<1>0. BlockLen \in Nat /\ BlockLen > 0
  BY Counts
<1>1. q \in Int /\ p = BlockLen * q + (p % BlockLen) /\ p % BlockLen = 0
  BY <1>0, Divide DEF BlockOf, IsSync
<1> HIDE DEF q
<1>2. p = q * BlockLen
  BY <1>0, <1>1
<1> QED BY <1>1, <1>2 DEF q

(* Where a block is clean the deinterleaver began at a byte of the first    *)
(* branch.                                                                  *)
LEMMA CleanAligned ==
  ASSUME NEW x \in [Int -> Int], NEW s \in Int, NEW out, Len(out) \in Nat, NEW rs \in Nat,
         Gives(out, x, s, Len(out)), NEW totals, SentBefore(x, s + Len(out), totals),
         NEW phase, Clean(out, rs, phase) # {}
  PROVE  (Begin(s, rs) - s) % Branches = 0
<1>1. PICK b \in 0 .. Windows(out, rs) - 1 :
        IsSync(Window(out, rs, b)[1]) /\ IsClean(Window(out, rs, b))
  BY DEF Clean, Synced, SyncMatches
<1> DEFINE v == BlocksFrom(Begin(s, rs), b)
           block == Window(out, rs, b)
           k == BlockOf(block[1])
           end == s + Len(out)
<1>2. v \in Int /\ v + BlockLen <= end /\ block = BlockAt(x, s, v) /\ b \in Nat
  <2>1. WindowAt(x, s, out, rs, b, v)
    BY WindowIs, Zenon
  <2> QED BY <2>1, Zenon DEF WindowAt
<1>3. block[1] \in Int
  <2>1. 1 \in 1 .. BlockLen
    BY Counts
  <2> HIDE DEF block, v
  <2> QED BY <2>1, <1>2, BlockType
<1>4. k \in Int /\ block[1] = k * BlockLen
  <2> HIDE DEF block
  <2> QED BY <1>1, <1>3, SyncMultiple DEF block
<1> HIDE DEF k
<1>5. k \in Near(block)
  <2> HIDE DEF block
  <2> QED BY <1>1, <1>4, CleanNear DEF block
<1>6. end \in Int
  OBVIOUS
<1> HIDE DEF v, end, block
<1>7. k \in Near(BlockAt(x, s, v))
  BY <1>2, <1>5
<1>8. (v - s) % Branches = 0
  BY <1>2, <1>6, <1>7, NumberTells DEF end
<1>9. Begin(s, rs) \in Int /\ b \in Int
  BY <1>2, Counts DEF Begin
<1>10. (BlocksFrom(Begin(s, rs), b) - s) % Branches = (Begin(s, rs) - s) % Branches
  BY <1>9, PlaceBranch
<1> QED BY <1>8, <1>10 DEF v

(* Nothing is wrong or lost: wherever sync bytes are found blocks begin.    *)
LEMMA PlaceWhole ==
  ASSUME NEW x \in [Int -> Int], NEW s \in Int, NEW out, Len(out) \in Nat, NEW rs \in Nat,
         Gives(out, x, s, Len(out)), Whole(x, s, s + Len(out)),
         NEW phase, Synced(out, rs, phase) # {}
  PROVE  \E q \in Int : Begin(s, rs) = q * BlockLen
<1>0. BlockLen \in Nat /\ BlockLen > 0 /\ Transient \in Nat /\ Branches \in Nat
      /\ Transient = (Branches - 1) * BlockLen
  BY BlockSizes, Counts, Zenon
<1>1. PICK b \in 0 .. Windows(out, rs) - 1 : IsSync(Window(out, rs, b)[1])
  BY DEF Synced, SyncMatches
<1> DEFINE v == BlocksFrom(Begin(s, rs), b)
           block == Window(out, rs, b)
           p == block[1]
           end == s + Len(out)
           e == (v - s) % Branches
           g == v % Branches
<1>2. /\ v \in Int /\ v + BlockLen <= end /\ block = BlockAt(x, s, v) /\ b \in Nat
      /\ s + Transient <= v
  <2>1. WindowAt(x, s, out, rs, b, v)
    BY WindowIs, Zenon
  <2> QED BY <2>1, Zenon DEF WindowAt
<1>6. end \in Int /\ Begin(s, rs) \in Int /\ Whole(x, s, end)
  BY <1>0 DEF Begin
<1>b. v = Begin(s, rs) + b * BlockLen
  BY DEF BlocksFrom
<1>3. p = Out(x, s, v)
  <2>1. 1 \in 1 .. BlockLen
    BY <1>0
  <2>2. v + 1 - 1 = v
    BY <1>2
  <2> HIDE DEF v, block
  <2> QED BY <2>1, <2>2, <1>2 DEF BlockAt
<1>s. IsSync(p)
  BY <1>1
<1> HIDE DEF v, block, p, end
<1>4. v < end
  BY <1>0, <1>2, <1>6
<1>5. Out(x, s, v) = v - Delay(e) - g * BlockLen
  BY <1>2, <1>4, <1>6, WholeOut, ZenonT(60)
<1>7. e \in Branch /\ g \in Branch
  <2>1. v - s \in Int
    BY <1>2
  <2> QED BY <2>1, <1>2, BranchType
<1>8. e \in Int /\ g \in Int /\ Delay(e) = (Branches - 1 - e) * BlockLen
  BY <1>7, <1>0, RowLens DEF Branch
<1> HIDE DEF e, g
<1> DEFINE j == (Branches - 1 - e) + g
<1>9. p = v - j * BlockLen /\ j \in Int
  <2> DEFINE a == Branches - 1 - e
             aB == a * BlockLen
             gB == g * BlockLen
  <2>1. a \in Int /\ aB \in Int /\ gB \in Int
    BY <1>0, <1>8
  <2>2. j * BlockLen = aB + gB
    <3>1. j = a + g
      OBVIOUS
    <3> HIDE DEF a
    <3> QED BY <3>1, <2>1, <1>8, <1>0
  <2>3. p = v - aB - gB
    BY <1>3, <1>5, <1>8
  <2>4. j \in Int
    BY <1>0, <1>8
  <2> HIDE DEF aB, gB, j, a
  <2> QED BY <2>1, <2>2, <2>3, <2>4, <1>2
<1> HIDE DEF j
<1>10. p \in Int
  BY <1>9, <1>2, <1>0
<1>11. BlockOf(p) \in Int /\ p = BlockOf(p) * BlockLen
  BY <1>10, <1>s, SyncMultiple
<1> DEFINE k == BlockOf(p)
           q == (k + j) - b
<1> HIDE DEF k
<1>12. Begin(s, rs) = q * BlockLen
  <2> DEFINE kB == k * BlockLen
             jB == j * BlockLen
             bB == b * BlockLen
  <2>0. k \in Int /\ p = kB
    BY <1>11 DEF k
  <2>1. kB \in Int /\ jB \in Int /\ bB \in Int /\ q * BlockLen = (kB + jB) - bB
    <3>1. q * BlockLen = (k + j) * BlockLen - b * BlockLen
      BY <2>0, <1>0, <1>2, <1>9
    <3>2. (k + j) * BlockLen = kB + jB
      BY <2>0, <1>0, <1>9
    <3>3. kB \in Int /\ jB \in Int /\ bB \in Int
      BY <2>0, <1>0, <1>2, <1>9
    <3> QED BY <3>1, <3>2, <3>3
  <2>2. p = v - jB /\ v = Begin(s, rs) + bB
    BY <1>9, <1>b
  <2> HIDE DEF kB, jB, bB, q
  <2> QED BY <2>0, <2>1, <2>2, <1>6, <1>2, SMTT(60)
<1>13. q \in Int
  <2>1. k \in Int /\ j \in Int /\ b \in Int
    BY <1>11, <1>9, <1>2 DEF k
  <2> QED BY <2>1
<1> QED BY <1>12, <1>13

(* Every so often a number is a multiple.                                   *)
LEMMA NextMultiple ==
  ASSUME NEW m \in Nat, m > 0, NEW a \in Int
  PROVE  \E r \in 0 .. m - 1, q \in Int : a + r = q * m /\ (a + r) % m = 0
<1> DEFINE n == -a
           r == n % m
           j == n \div m
           q == -j
<1>1. n \in Int /\ n = -a
  OBVIOUS
<1>2. r \in 0 .. m - 1 /\ j \in Int /\ n = m * j + r
  BY <1>1, Divide
<1> HIDE DEF n, r, j
<1>3. a + r = m * q + 0 /\ a + r = q * m /\ q \in Int
  <2>1. m * q = -(m * j) /\ m * j \in Int /\ q * m = m * q
    BY <1>2
  <2> QED BY <2>1, <1>1, <1>2
<1> HIDE DEF q
<1>4. (m * q + 0) % m = 0
  <2>1. 0 \in 0 .. m - 1
    OBVIOUS
  <2> QED BY <2>1, <1>3, ModUnique
<1> QED BY <1>2, <1>3, <1>4

(* A block that is clean, with the phase of its number, is a point.         *)
LEMMA CleanCounts ==
  ASSUME NEW out, Len(out) \in Nat, NEW rs \in Nat, NEW d, NEW n \in Int,
         0 \in 0 .. Windows(out, rs) - 1,
         IsClean(Window(out, rs, 0)), Window(out, rs, 0)[1] = n * BlockLen
  PROVE  Points(Candidate(out, d, rs, n % Period)) >= 1000
<1> DEFINE p == n % Period
           byte == Window(out, rs, 0)[1]
           S == Synced(out, rs, p)
           C == Clean(out, rs, p)
           c == Candidate(out, d, rs, p)
<1>0. /\ BlockLen \in Nat /\ BlockLen > 1 /\ Period \in Nat /\ Period > 0
      /\ 0 \in 0 .. BlockLen - 1
  BY Counts
<1>p. ProbeBlocks > 0
  BY OuterStreamAssumption
<1>1. byte = BlockLen * n + 0
  BY <1>0
<1>2. (BlockLen * n + 0) % BlockLen = 0 /\ (BlockLen * n + 0) \div BlockLen = n
  <2>1. BlockLen > 0
    BY <1>0
  <2> HIDE DEF byte, c, C, S, p
  <2> QED BY <1>0, <2>1, ModUnique, Zenon
<1> HIDE DEF byte
<1>3. byte % BlockLen = 0 /\ BlockOf(byte) = n
  BY <1>1, <1>2 DEF BlockOf
<1>4. byte # Bad
  <2>1. SUFFICES ASSUME byte = Bad PROVE FALSE
    OBVIOUS
  <2>2. BlockLen * n = -1
    BY <2>1, <1>1, <1>0 DEF Bad
  <2>3. n = 0
    BY <2>2, <1>0, MultipleSmall
  <2> QED BY <2>2, <2>3, <1>0
<1>5. (p + 0) % Period = p /\ p \in Int
  <2>1. p \in Int /\ p % Period = p
    BY PhaseTwice, Zenon
  <2> HIDE DEF p
  <2>2. p + 0 = p
    BY <2>1
  <2> QED BY <2>1, <2>2
<1>6. SyncMatches(byte, (p + 0) % Period)
  BY <1>3, <1>4, <1>5 DEF SyncMatches, IsSync, IsInverted
<1>7. 0 \in S
  BY <1>6 DEF Synced, byte
<1>8. 0 \in C
  BY <1>7, <1>p DEF Clean
<1>9. /\ IsFiniteSet(C) /\ Cardinality(C) \in Nat /\ Cardinality(S) \in Nat
  BY SyncedFinite, Zenon
<1>10. c.clean = Cardinality(C) /\ c.sync = Cardinality(S)
  BY DEF Candidate
<1> HIDE DEF C, S, c, p
<1>11. Cardinality(C) >= 1
  <2>1. Cardinality(C) # 0
    <3>1. Cardinality(C) = 0 <=> C = {}
      BY <1>9, FS_EmptySet
    <3> QED BY <3>1, <1>8
  <2> QED BY <2>1, <1>9
<1>12. Points(c) = Cardinality(C) * 1000 + Cardinality(S)
  BY <1>10 DEF Points
<1> QED BY <1>9, <1>11, <1>12 DEF c, p

\* The bytes are a piece of the stream, from v0 on.
PieceOf(bytes, x, v0) ==
  /\ bytes \in Seq(Int)
  /\ \A i \in 1 .. Len(bytes) : bytes[i] = x[v0 + (i - 1)]

(* A stream of which nothing is wrong or lost, seen from s on.              *)
LEMMA WholeCut ==
  ASSUME NEW x \in [Int -> Int], NEW s \in Int, NEW v0 \in Int, v0 <= s, NEW end, Whole(x, v0, end)
  PROVE  CutAt(x, s) \in [Int -> Int] /\ Whole(CutAt(x, s), s, end)
<1> DEFINE y == CutAt(x, s)
<1>1. \A v \in Int : y[v] = IF v < s THEN Bad ELSE x[v]
  BY DEF CutAt
<1>2. y \in [Int -> Int]
  BY DEF CutAt, Bad
<1> HIDE DEF y
<1>3. ASSUME NEW v \in Int, s <= v, v < end PROVE y[v] # Bad /\ LostBefore(y, v) = 0
  <2>1. y[v] = x[v] /\ v0 <= v
    BY <1>1, <1>3
  <2> QED BY <2>1, <1>3 DEF Whole, LostBefore
<1> QED BY <1>2, <1>3 DEF Whole, y

(* Cut streams are sent as before.                                          *)
LEMMA CutSent ==
  ASSUME NEW x \in [Int -> Int], NEW s \in Int, NEW w, NEW totals, SentBefore(x, w, totals)
  PROVE  SentBefore(CutAt(x, s), w, totals)
<1> DEFINE y == CutAt(x, s)
<1>1. \A v \in Int : y[v] = IF v < s THEN Bad ELSE x[v]
  BY DEF CutAt
<1> HIDE DEF y
<1>2. \A v \in Int : y[v] # Bad => y[v] = x[v] /\ LostBefore(y, v) = LostBefore(x, v)
  BY <1>1 DEF LostBefore
<1>3. ASSUME NEW v \in Int, v < w, y[v] # Bad PROVE y[v] \in Nat /\ LostBefore(y, v) \in totals
  BY <1>2, <1>3 DEF SentBefore
<1>4. ASSUME NEW u \in Int, NEW v \in Int, u < v, v < w, y[u] # Bad, y[v] # Bad
      PROVE  LostBefore(y, u) <= LostBefore(y, v)
  BY <1>2, <1>4 DEF SentBefore
<1> QED BY <1>3, <1>4 DEF SentBefore, y

(* Branches count back alike from one remainder.                            *)
LEMMA BranchSub ==
  ASSUME NEW a \in Int, NEW b \in Int, NEW c \in Int, a % Branches = b % Branches
  PROVE  (a - c) % Branches = (b - c) % Branches
BY Counts, ModAdd

(* Where a block begins, another place for the deinterleaver to begin at    *)
(* lets it find a clean block.                                              *)
LEMMA CleanPlace ==
  ASSUME NEW x \in [Int -> Int], NEW v0 \in Int, NEW end \in Int, NEW p \in Int, NEW k \in Int,
         p = k * BlockLen, v0 + Transient <= p, p + (BlockLen + BlockLen) <= end
  PROVE  \E d \in 0 .. Branches - 1, r \in 0 .. BlockLen - 1, q \in Int :
           /\ Begin(v0 + d, r) = q * BlockLen
           /\ (Begin(v0 + d, r) - (v0 + d)) % Branches = 0
           /\ Begin(v0 + d, r) + BlockLen <= end
<1>0. /\ BlockLen \in Nat /\ BlockLen > 0 /\ Transient \in Nat /\ Branches \in Nat /\ Branches > 0
      /\ BlockLen >= Branches /\ 0 \in 0 .. Branches - 1
  BY Counts
<1>1. PICK d \in 0 .. Branches - 1 : (v0 + d) % Branches = 0
  BY <1>0, NextMultiple
<1> DEFINE s == v0 + d
           a == s + Transient
<1>2. d \in Int /\ d >= 0 /\ d < Branches /\ s \in Int /\ a \in Int /\ a = (v0 + d) + Transient
  BY <1>0
<1>s. s % Branches = 0
  BY <1>1
<1> HIDE DEF s, a
<1>3. PICK r \in 0 .. BlockLen - 1, q \in Int : a + r = q * BlockLen
  BY <1>0, <1>2, NextMultiple
<1> DEFINE b == Begin(s, r)
<1>4. r \in Int /\ r >= 0 /\ r < BlockLen /\ b = a + r /\ b = q * BlockLen /\ b \in Int
  <2>1. r \in Int /\ r >= 0 /\ r < BlockLen
    BY <1>0
  <2>2. b = a + r
    BY <2>1, <1>0, <1>2 DEF Begin, s, a
  <2> QED BY <2>1, <2>2, <1>2, <1>3
<1> HIDE DEF b
<1>5. b + BlockLen <= end
  <2> DEFINE j == q - k
             jB == BlockLen * j
  <2>1. b - p = jB /\ j \in Int
    BY <1>0, <1>4
  <2>2. b - p < BlockLen + BlockLen
    BY <1>0, <1>2, <1>4
  <2> HIDE DEF j
  <2>3. j <= 1
    <3>1. SUFFICES ASSUME j >= 2 PROVE FALSE
      BY <2>1
    <3>2. BlockLen * j >= BlockLen * 2 /\ BlockLen * j \in Int
      BY <3>1, <2>1, <1>0
    <3> QED BY <3>2, <2>1, <2>2, <1>0, <1>4
  <2>4. BlockLen * j <= BlockLen /\ BlockLen * j \in Int
    BY <2>1, <2>3, <1>0
  <2> HIDE DEF jB
  <2>5. jB <= BlockLen /\ jB \in Int
    BY <2>4 DEF jB
  <2> QED BY <2>1, <2>5, <1>0, <1>4
<1>6. (b - s) % Branches = 0
  <2>1. 0 % Branches = 0
    BY <1>0, ModSmall
  <2>2. b % Branches = 0
    <3>1. (0 + q * BlockLen) % Branches = 0 % Branches
      BY BlocksAndBranches
    <3>2. 0 + q * BlockLen = b
      BY <1>4
    <3> QED BY <3>1, <3>2, <2>1
  <2>3. (b - s) % Branches = (s - s) % Branches
    <3>1. b % Branches = s % Branches
      BY <2>2, <1>s
    <3>2. b \in Int
      BY <1>4
    <3>3. s \in Int
      BY <1>2
    <3> QED BY <3>1, <3>2, <3>3, BranchSub, ZenonT(60)
  <2>4. s - s = 0
    BY <1>2
  <2> QED BY <2>1, <2>3, <2>4
<1>7. \E q0 \in Int : b = q0 * BlockLen
  BY <1>4
<1> QED BY <1>4, <1>5, <1>6 DEF b, s

\* The search has found more than one sync byte.
ManySync(found) == found.sync # 0 /\ found.sync > 1

\* Every whole block at its place is clean.
CleanFor(x, s, w) ==
  \A y \in Int, r \in Int :
    /\ y = r * BlockLen /\ (y - s) % Branches = 0
    /\ y >= s + Transient /\ y + BlockLen <= w
    => /\ IsClean(BlockAt(x, s, y))
       /\ BlockAt(x, s, y)[1] = NumberAt(r) * BlockLen

(* Where nothing is wrong or lost every block is clean.                     *)
LEMMA WholeCleans ==
  ASSUME NEW x \in [Int -> Int], NEW s \in Int, NEW w \in Int, Whole(x, s, w), NEW totals,
         SentBefore(x, w, totals)
  PROVE  CleanFor(x, s, w)
BY WholeNear DEF CleanFor

\* Sync bytes found in so many bytes.
FewIn(n, rs, len) ==
  n \in Nat /\ n < 1000 /\ (n > 1 => (Transient + rs) + (BlockLen + BlockLen) <= len)

(* Fewer sync bytes than a clean block is worth, and blocks for them.       *)
LEMMA SyncedFew ==
  ASSUME NEW out, Len(out) \in Nat, NEW rs \in Nat, NEW phase
  PROVE  FewIn(Cardinality(Synced(out, rs, phase)), rs, Len(out))
BY WindowsFew DEF FewIn

(* The first block found lies in the bytes.                                 *)
LEMMA PlaceIn ==
  ASSUME NEW p, NEW s \in Int, NEW v0 \in Int, NEW rs \in Nat, NEW end \in Int, NEW len \in Nat,
         p = s + (Transient + rs), v0 <= s, s + len = end,
         (Transient + rs) + (BlockLen + BlockLen) <= len
  PROVE  p \in Int /\ v0 + Transient <= p /\ p + (BlockLen + BlockLen) <= end
<1>1. Transient \in Nat /\ BlockLen \in Nat
  BY Counts
<1> QED BY <1>1

(* In bytes of which none is wrong or lost the search finds a clean block.  *)
LEMMA CleanFound ==
  ASSUME NEW x \in [Int -> Int], NEW v0 \in Int, NEW bytes, PieceOf(bytes, x, v0),
         NEW found, found = Scan(bytes), ManySync(found),
         NEW totals, SentBefore(x, v0 + Len(bytes), totals), Whole(x, v0, v0 + Len(bytes))
  PROVE  found.clean # 0
<1> DEFINE L == Len(bytes)
           end == v0 + L
<1>0. bytes \in Seq(Int) /\ \A i \in 1 .. Len(bytes) : bytes[i] = x[v0 + (i - 1)]
  BY Zenon DEF PieceOf
<1>l. L \in Nat /\ end \in Int
  BY <1>0
<1>c. /\ BlockLen \in Nat /\ BlockLen > 0 /\ Transient \in Nat /\ Branches \in Nat /\ Period \in Nat
      /\ Period > 0
  BY Counts
<1>m. found.sync # 0 /\ found.sync > 1
  BY Zenon DEF ManySync
<1>1. /\ NoneBetter(bytes, found)
      /\ \E d \in 0 .. Branches - 1, rs \in 0 .. BlockLen - 1, phase \in 0 .. Period - 1 :
           d < Len(bytes) /\ IsBest(found, Deinterleaved(bytes, d), d, rs, phase)
  BY <1>m, ScanFinds, Zenon
<1>2. PICK d \in 0 .. Branches - 1, rs \in 0 .. BlockLen - 1, phase \in 0 .. Period - 1 :
           d < Len(bytes) /\ IsBest(found, Deinterleaved(bytes, d), d, rs, phase)
  BY <1>1, Zenon
<1> DEFINE out == Deinterleaved(bytes, d)
           s == v0 + d
           y == CutAt(x, s)
           n == Cardinality(Synced(out, rs, phase))
<1>3. d \in Nat /\ rs \in Nat /\ d < L /\ s \in Int /\ v0 <= s
  BY <1>2, <1>c
<1>4. Gives(out, y, s, L - d)
  BY <1>0, <1>3, DeinterleavedGives
<1>5. found = Candidate(out, d, rs, phase)
  BY <1>2, Zenon DEF IsBest
<1>6. found.sync = n
  BY <1>5 DEF Candidate
<1>f. /\ Whole(x, v0, end) /\ SentBefore(x, end, totals)
  OBVIOUS
<1> HIDE DEF out, y, L, end
<1>7. Len(out) = L - d /\ Gives(out, y, s, Len(out))
  BY <1>4, Zenon DEF Gives
<1>8. Len(out) \in Nat /\ s + Len(out) = end
  BY <1>3, <1>7, <1>l DEF end
<1>9. y \in [Int -> Int] /\ Whole(y, s, s + Len(out))
  <2>1. y \in [Int -> Int] /\ Whole(y, s, end)
    BY <1>f, <1>3, WholeCut DEF y
  <2> QED BY <2>1, <1>8
<1>10. n \in Nat /\ n < 1000 /\ (n > 1 => (Transient + rs) + (BlockLen + BlockLen) <= Len(out))
  <2>1. FewIn(n, rs, Len(out))
    BY <1>3, <1>8, SyncedFew, Zenon
  <2> QED BY <2>1, Zenon DEF FewIn
<1>11. n > 1 /\ n # 0
  BY <1>6, <1>m, Zenon
<1>12. Synced(out, rs, phase) # {}
  BY <1>11, FS_EmptySet
<1> HIDE DEF n, s
<1> DEFINE p == Begin(s, rs)
<1>13. PICK k \in Int : p = k * BlockLen
  BY <1>3, <1>7, <1>8, <1>9, <1>12, PlaceWhole
<1>14. p \in Int /\ v0 + Transient <= p /\ p + (BlockLen + BlockLen) <= end
  <2>1. p = s + (Transient + rs)
    BY DEF Begin
  <2>2. (Transient + rs) + (BlockLen + BlockLen) <= Len(out)
    BY <1>10, <1>11, Zenon
  <2> HIDE DEF p
  <2> QED BY <2>1, <2>2, <1>3, <1>8, <1>l, PlaceIn, Zenon
<1> HIDE DEF p
<1>15. PICK e \in 0 .. Branches - 1, r \in 0 .. BlockLen - 1, q \in Int :
           /\ Begin(v0 + e, r) = q * BlockLen
           /\ (Begin(v0 + e, r) - (v0 + e)) % Branches = 0
           /\ Begin(v0 + e, r) + BlockLen <= end
  BY <1>13, <1>14, <1>l, CleanPlace
<1> DEFINE t == v0 + e
           z == CutAt(x, t)
           new == Deinterleaved(bytes, e)
           b == Begin(t, r)
<1>16. e \in Nat /\ r \in Nat /\ t \in Int /\ v0 <= t
  BY <1>15, <1>c
<1>17. b = q * BlockLen /\ (b - t) % Branches = 0 /\ b + BlockLen <= end /\ b = t + (Transient + r)
  BY <1>15 DEF Begin
<1> HIDE DEF b
<1>18. e < L /\ (Transient + r) + BlockLen <= L - e /\ b \in Int
  BY <1>16, <1>17, <1>l, <1>c DEF end
<1>19. Gives(new, z, t, L - e)
  BY <1>0, <1>16, <1>18, DeinterleavedGives DEF L
<1> HIDE DEF new, z
<1>20. Len(new) = L - e /\ Gives(new, z, t, Len(new))
  BY <1>19, Zenon DEF Gives
<1>21. Len(new) \in Nat /\ t + Len(new) = end
  BY <1>16, <1>18, <1>20, <1>l DEF end
<1>22. z \in [Int -> Int] /\ Whole(z, t, end)
  BY <1>f, <1>16, WholeCut DEF z
<1>23. SentBefore(z, end, totals)
  BY <1>f, <1>16, CutSent DEF z
<1>24. 0 \in 0 .. Windows(new, r) - 1
  <2>1. (Transient + r) + BlockLen <= Len(new)
    BY <1>18, <1>20
  <2> QED BY <2>1, <1>16, <1>21, WindowsSome
<1> HIDE DEF t
<1>25. Window(new, r, 0) = BlockAt(z, t, b)
  <2>1. b = BlocksFrom(Begin(t, r), 0)
    <3>1. 0 * BlockLen = 0 /\ b + 0 = b
      BY <1>c, <1>18
    <3>2. BlocksFrom(b, 0) = b
      BY <3>1, Zenon DEF BlocksFrom
    <3> QED BY <3>2 DEF b
  <2>2. WindowAt(z, t, new, r, 0, b)
    BY <2>1, <1>16, <1>20, <1>21, <1>22, <1>24, WindowIs, Zenon
  <2> QED BY <2>2, Zenon DEF WindowAt
<1>26. IsClean(BlockAt(z, t, b)) /\ BlockAt(z, t, b)[1] = NumberAt(q) * BlockLen
  <2>1. b >= t + Transient
    BY <1>16, <1>17, <1>c
  <2>2. CleanFor(z, t, end)
    BY <1>16, <1>22, <1>23, <1>l, WholeCleans, Zenon
  <2> QED BY <2>1, <2>2, <1>15, <1>17, <1>18, Zenon DEF CleanFor
<1> DEFINE m == NumberAt(q)
<1>27. m \in Int
  BY <1>c DEF NumberAt
<1> HIDE DEF m
<1>28. Points(Candidate(new, e, r, m % Period)) >= 1000
  <2>1. IsClean(Window(new, r, 0)) /\ Window(new, r, 0)[1] = m * BlockLen
    BY <1>25, <1>26 DEF m
  <2> QED BY <2>1, <1>16, <1>21, <1>24, <1>27, CleanCounts
<1>29. m % Period \in 0 .. Period - 1
  BY <1>27, <1>c, Divide
<1> DEFINE g == m % Period
<1> HIDE DEF g
<1>30. \/ Points(Candidate(new, e, r, g)) < Points(found)
       \/ Points(Candidate(new, e, r, g)) = Points(found)
  <2>1. e < Len(bytes) /\ g \in 0 .. Period - 1 /\ NoneBetter(bytes, found)
    BY <1>1, <1>18, <1>29, Zenon DEF L, g
  <2> QED BY <2>1, <1>15, Zenon DEF NoneBetter, new
<1> DEFINE a == Points(Candidate(new, e, r, g))
           f == Cardinality(Clean(out, rs, phase))
<1>31. Points(found) = f * 1000 + n
  <2>1. found.clean = f /\ found.sync = n
    BY <1>5, <1>6 DEF Candidate
  <2> QED BY <2>1 DEF Points
<1>32. found.clean = f
  BY <1>5 DEF Candidate
<1>33. f \in Nat /\ a >= 1000 /\ a \in Int
  <2>1. f \in Nat
    BY <1>3, <1>8, SyncedFinite
  <2>2. a \in Int
    <3>1. /\ Cardinality(Clean(new, r, g)) \in Nat /\ Cardinality(Synced(new, r, g)) \in Nat
      BY <1>16, <1>21, SyncedFinite
    <3>2. a = Cardinality(Clean(new, r, g)) * 1000 + Cardinality(Synced(new, r, g))
      BY DEF Points, Candidate
    <3> HIDE DEF a
    <3> QED BY <3>1, <3>2
  <2> QED BY <2>1, <2>2, <1>28 DEF g
<1> HIDE DEF f, a
<1>34. f # 0
  <2>1. a < f * 1000 + n \/ a = f * 1000 + n
    BY <1>30, <1>31 DEF a
  <2> QED BY <2>1, <1>33, <1>10
<1> QED BY <1>32, <1>34, Zenon

(***************************************************************************)
(* A cadence that the search has found, and its run through the bytes.     *)
(***************************************************************************)
Enters(run, found, x, s, end, stop) ==
  /\ x \in [Int -> Int] /\ s \in Int /\ end \in Int
  /\ found.rs \in Nat /\ found.phase \in 0 .. Period - 1
  /\ (Begin(s, found.rs) + BlockLen) <= end
  /\ run.unseen \in Nat /\ Settled(run)
  /\ RunsTo(run, x, s, end - run.unseen, Begin(s, found.rs), found.phase, stop)

(* What the search has found is a place in the stream.                      *)
LEMMA EnterFinds ==
  ASSUME NEW y \in [Int -> Int], NEW v0 \in Int, NEW bytes, PieceOf(bytes, y, v0),
         NEW found, found = Scan(bytes), ManySync(found), NEW s, Begun(s, v0, found)
  PROVE  /\ BlockIn(found, bytes) /\ FoundIn(found, bytes) /\ FoundFor(found, bytes, y, s)
         /\ s \in Int /\ v0 <= s /\ EndOf(bytes, v0) \in Int /\ CutAt(y, s) \in [Int -> Int]
         /\ (Begin(s, found.rs) + BlockLen) <= EndOf(bytes, v0)
<1>0. bytes \in Seq(Int) /\ \A i \in 1 .. Len(bytes) : bytes[i] = y[v0 + (i - 1)]
  BY Zenon DEF PieceOf
<1>1. BlockIn(found, bytes) /\ FoundFor(found, bytes, y, s)
  <2>1. found.sync # 0
    BY Zenon DEF ManySync
  <2> QED BY <1>0, <2>1, ScanIn, Zenon
<1>2. FoundIn(found, bytes) /\ ((found.deint + Transient) + found.rs) + BlockLen <= Len(bytes)
  BY <1>1, Zenon DEF BlockIn
<1> DEFINE d == found.deint
           r == found.rs
           L == Len(bytes)
<1>3. d \in Nat /\ r \in Nat /\ ((d + Transient) + r) + BlockLen <= L
  BY <1>2, Zenon DEF FoundIn
<1>4. L \in Nat /\ Transient \in Nat /\ BlockLen \in Nat
  BY <1>0, Counts
<1>5. s = v0 + d
  BY Zenon DEF Begun
<1> HIDE DEF d, r, L
<1>6. s \in Int /\ v0 <= s /\ v0 + L \in Int /\ (s + (Transient + r)) + BlockLen <= v0 + L
  BY <1>3, <1>4, <1>5
<1>7. CutAt(y, s) \in [Int -> Int]
  BY DEF CutAt, Bad
<1> QED BY <1>1, <1>2, <1>6, <1>7, Zenon DEF EndOf, Begin, L, r

(* The run of all the bytes through the cadence found.                      *)
LEMMA EntersRun ==
  ASSUME NEW y \in [Int -> Int], NEW v0 \in Int, NEW bytes, PieceOf(bytes, y, v0),
         NEW found, found = Scan(bytes), ManySync(found), NEW s, Begun(s, v0, found),
         NEW stop \in Nat, stop # 0, NEW run, run = Enter(found, bytes, stop)
  PROVE  Enters(run, found, CutAt(y, s), s, EndOf(bytes, v0), stop)
<1>0. bytes \in Seq(Int) /\ \A i \in 1 .. Len(bytes) : bytes[i] = y[v0 + (i - 1)]
  BY Zenon DEF PieceOf
<1>1. /\ FoundIn(found, bytes) /\ s \in Int /\ EndOf(bytes, v0) \in Int
      /\ CutAt(y, s) \in [Int -> Int]
      /\ (Begin(s, found.rs) + BlockLen) <= EndOf(bytes, v0)
  BY EnterFinds, Zenon
<1>2. found.rs \in Nat /\ found.phase \in 0 .. Period - 1
  BY <1>1, Zenon DEF FoundIn
<1>3. /\ run.unseen \in Nat /\ Settled(run)
      /\ RunsTo(run, CutAt(y, s), s, (v0 + Len(bytes)) - run.unseen,
                   s + (Transient + found.rs), found.phase, stop)
  BY <1>0, <1>1, EnterRuns, Zenon
<1> QED BY <1>1, <1>2, <1>3, Zenon DEF Enters, Begin, EndOf

\* A stream up to an earlier place is sent as it was, and fewer may be looked at.
LEMMA SentUpTo ==
  ASSUME NEW x, NEW w \in Int, NEW z \in Int, z <= w, NEW totals, NEW more,
         totals \subseteq more, SentBefore(x, w, totals)
  PROVE  SentBefore(x, z, more)
<1>1. \A v \in Int : v < z => v < w
  OBVIOUS
<1> QED BY <1>1, Zenon DEF SentBefore

(* A phase is right for more totals, too.                                   *)
LEMMA RightMore ==
  ASSUME NEW place, NEW s, NEW phase, NEW totals, NEW more, totals \subseteq more,
         Right(place, s, phase, totals)
  PROVE  Right(place, s, phase, more)
BY Zenon DEF Right

\* No packet of the blocks from `place' on is older than m, whatever is lost.
Ordered(x, w, place, lambda, m) ==
  /\ m \in Int /\ Floor(x, w, place, m) /\ lambda + place >= (m + Branches) * BlockLen

\* No number is left out between two packets.
Consecutive(out) == \A i \in 2 .. Len(out) : out[i].number = out[i - 1].number + 1

\* Nothing is wrong or lost, and the next block is that after the m-th.
Complete(x, s, w, place, m) ==
  /\ Whole(x, s, w) /\ place = (m + Branches) * BlockLen
  /\ place >= s + Transient /\ (place - s) % Branches = 0

(* A run leaves nothing older behind it.                                    *)
LEMMA OrderedOn ==
  ASSUME NEW x \in [Int -> Int], NEW s \in Int, NEW w \in Int, NEW place \in Int,
         NEW phase \in Int, NEW stop, NEW run, RunsTo(run, x, s, w, place, phase, stop),
         Settled(run), NEW totals \in SUBSET Int, SentBefore(x, w, totals),
         NEW lambda \in Int, \A l \in totals : l <= lambda,
         NEW m, Ordered(x, w, place, lambda, m)
  PROVE  Later(run.out, m) /\ Ordered(x, w, After(run, w), lambda, Newest(run.out, m))
<1>1. m \in Int /\ Floor(x, w, place, m) /\ lambda + place >= (m + Branches) * BlockLen
  BY Zenon DEF Ordered
<1>2. /\ Later(run.out, m)
      /\ Newest(run.out, m) \in Int
      /\ Floor(x, w, After(run, w), Newest(run.out, m))
      /\ lambda + After(run, w) >= (Newest(run.out, m) + Branches) * BlockLen
  BY <1>1, RunOrder, Zenon
<1> QED BY <1>2, Zenon DEF Ordered

(* What is lost is no negative number: beyond a place that the m-th block   *)
(* has been sent before no block is older.                                  *)
LEMMA OrderedFrom ==
  ASSUME NEW x \in [Int -> Int], NEW w \in Int, NEW totals \in SUBSET Nat, SentBefore(x, w, totals),
         NEW m \in Int, NEW place \in Int, place >= (m + Branches) * BlockLen, NEW lambda \in Nat
  PROVE  Ordered(x, w, place, lambda, m)
<1> DEFINE B == (m + Branches) * BlockLen
<1>1. B \in Int
  BY Counts
<1>2. place >= B
  OBVIOUS
<1> HIDE DEF B
<1>3. ASSUME NEW v \in Int, v < w, x[v] # Bad  PROVE LostBefore(x, v) + place >= B
  <2> DEFINE l == LostBefore(x, v)
  <2>1. l \in Nat
    BY <1>3, Zenon DEF SentBefore
  <2> HIDE DEF l
  <2>2. l + place >= B
    BY <2>1, <1>1, <1>2
  <2> QED BY <2>2 DEF l
<1>4. lambda + place >= B
  BY <1>1, <1>2
<1> QED BY <1>3, <1>4 DEF Ordered, Floor, B

(* The cadence found: what its packets are.                                 *)
LEMMA EnterOrdered ==
  ASSUME NEW y \in [Int -> Int], NEW v0 \in Int, NEW bytes, PieceOf(bytes, y, v0),
         NEW found, found = Scan(bytes), ManySync(found), NEW s, Begun(s, v0, found),
         NEW stop \in Nat, stop # 0, NEW run, run = Enter(found, bytes, stop),
         NEW totals \in SUBSET Nat, SentBefore(y, EndOf(bytes, v0), totals),
         NEW lambda \in Nat, \A l \in totals : l <= lambda,
         NEW m \in Int, v0 >= (m + Branches) * BlockLen
  PROVE  LET w == EndOf(bytes, v0) - run.unseen
         IN  /\ w \in Int /\ Holds(run.c, CutAt(y, s), s, w)
             /\ SentBefore(CutAt(y, s), w, totals)
             /\ Later(run.out, m)
             /\ Ordered(CutAt(y, s), w, After(run, w), lambda, Newest(run.out, m))
<1> DEFINE x == CutAt(y, s)
           end == EndOf(bytes, v0)
           w == end - run.unseen
           place == Begin(s, found.rs)
<1>1. Enters(run, found, x, s, end, stop)
  BY EntersRun, Zenon
<1>2. /\ x \in [Int -> Int] /\ s \in Int /\ end \in Int
      /\ found.rs \in Nat /\ found.phase \in 0 .. Period - 1
      /\ run.unseen \in Nat /\ Settled(run)
      /\ RunsTo(run, x, s, w, place, found.phase, stop)
  BY <1>1, Zenon DEF Enters
<1>3. v0 <= s
  BY EnterFinds, Zenon
<1>4. SentBefore(x, end, totals)
  BY <1>2, CutSent, Zenon
<1> DEFINE u == run.unseen
           r == found.rs
           g == found.phase
<1>5. w \in Int /\ w <= end
  <2>1. u \in Nat /\ end \in Int /\ w = end - u
    BY <1>2, Zenon
  <2> HIDE DEF u, end, w
  <2> QED BY <2>1
<1>6. SentBefore(x, w, totals)
  <2>1. totals \subseteq totals
    OBVIOUS
  <2> QED BY <1>2, <1>4, <1>5, <2>1, SentUpTo, Zenon
<1>7. place \in Int /\ place >= (m + Branches) * BlockLen
  <2> DEFINE B == (m + Branches) * BlockLen
  <2>1. B \in Int /\ Transient \in Nat
    BY Counts
  <2>2. v0 >= B
    OBVIOUS
  <2>3. place = s + (Transient + r) /\ r \in Nat
    BY <1>2, Zenon DEF Begin
  <2>4. s \in Int /\ v0 <= s
    BY <1>2, <1>3, Zenon
  <2> HIDE DEF B, r, place
  <2>5. place \in Int /\ place >= B
    BY <2>1, <2>2, <2>3, <2>4
  <2> QED BY <2>5 DEF B
<1>8. totals \in SUBSET Int /\ lambda \in Int /\ g \in Int
  <2>1. Period \in Nat /\ g \in 0 .. Period - 1
    BY <1>2, Counts
  <2> HIDE DEF g
  <2> QED BY <2>1
<1>t. totals \in SUBSET Nat /\ lambda \in Nat /\ \A l \in totals : l <= lambda
  OBVIOUS
<1> HIDE DEF x, end, w, place
<1>9. Ordered(x, w, place, lambda, m)
  BY <1>2, <1>5, <1>6, <1>7, <1>t, OrderedFrom, Zenon
<1>10. Later(run.out, m) /\ Ordered(x, w, After(run, w), lambda, Newest(run.out, m))
  BY <1>2, <1>5, <1>6, <1>7, <1>8, <1>9, <1>t, OrderedOn, Zenon
<1>11. Holds(run.c, x, s, w)
  BY <1>2, Zenon DEF RunsTo
<1> QED BY <1>5, <1>6, <1>10, <1>11, Zenon DEF x, end, w

(* Bytes of which none is wrong.                                            *)
LEMMA DamagedNot ==
  ASSUME NEW y \in [Int -> Int], NEW v0 \in Int, NEW bytes, PieceOf(bytes, y, v0),
         ~Damaged(bytes)
  PROVE  Undamaged(y, v0, EndOf(bytes, v0))
<1>0. bytes \in Seq(Int) /\ \A i \in 1 .. Len(bytes) : bytes[i] = y[v0 + (i - 1)]
  BY Zenon DEF PieceOf
<1>1. \A i \in 1 .. Len(bytes) : bytes[i] # Bad
  <2>1. DOMAIN bytes = 1 .. Len(bytes)
    BY <1>0
  <2> QED BY <2>1, Zenon DEF Damaged
<1>2. ASSUME NEW v \in Int, v0 <= v, v < v0 + Len(bytes)  PROVE y[v] # Bad
  <2> DEFINE i == (v - v0) + 1
  <2>1. i \in 1 .. Len(bytes) /\ v0 + (i - 1) = v
    BY <1>0, <1>2
  <2> HIDE DEF i
  <2>2. bytes[i] = y[v] /\ bytes[i] # Bad
    BY <1>0, <1>1, <2>1, Zenon
  <2> QED BY <2>2, Zenon
<1> QED BY <1>2 DEF Undamaged, EndOf

(* The same, seen from s on.                                                *)
LEMMA UndamagedCut ==
  ASSUME NEW y, NEW v0 \in Int, NEW s \in Int, v0 <= s, NEW end, Undamaged(y, v0, end)
  PROVE  Undamaged(CutAt(y, s), s, end)
<1>1. ASSUME NEW v \in Int, s <= v, v < end  PROVE CutAt(y, s)[v] # Bad
  <2>1. v0 <= v /\ ~(v < s)
    BY <1>1
  <2>2. y[v] # Bad
    BY <1>1, <2>1, Zenon DEF Undamaged
  <2> QED BY <2>1, <2>2 DEF CutAt
<1> QED BY <1>1 DEF Undamaged

\* The search has enough sync bytes for a period.
EnoughSync(found) == found.sync >= Period

(* A period has more than one block.                                        *)
LEMMA ManyIn ==
  ASSUME NEW found, EnoughSync(found), found.sync \in Int
  PROVE  ManySync(found)
<1>1. found.sync >= Period /\ Period > 1 /\ Period \in Nat
  BY Counts, Zenon DEF EnoughSync
<1> DEFINE n == found.sync
<1>2. n >= Period /\ n \in Int
  BY <1>1, Zenon
<1> HIDE DEF n
<1>3. n # 0 /\ n > 1
  BY <1>1, <1>2
<1> QED BY <1>3, Zenon DEF ManySync, n

(* A search that is not blind.                                              *)
LEMMA BlindIs ==
  ASSUME NEW bytes, NEW found, ~Blind(bytes, found)
  PROVE  ~Damaged(bytes) \/ ~BlindAt(Deinterleaved(bytes, found.deint), found.rs)
BY Zenon DEF Blind, BlindAt, First

\* What came out of the deinterleaver where the cadence was found.
OutOf(out, found, x, s, end) ==
  /\ Len(out) \in Nat /\ s + Len(out) = end
  /\ Gives(out, x, s, Len(out))
  /\ IsBest(found, out, found.deint, found.rs, found.phase)

(* What came out of the deinterleaver where the cadence was found.          *)
LEMMA EnterOut ==
  ASSUME NEW y \in [Int -> Int], NEW v0 \in Int, NEW bytes, PieceOf(bytes, y, v0),
         NEW found, found = Scan(bytes), ManySync(found), NEW s, Begun(s, v0, found),
         NEW out, out = Deinterleaved(bytes, found.deint)
  PROVE  OutOf(out, found, CutAt(y, s), s, EndOf(bytes, v0))
<1>1. /\ FoundIn(found, bytes) /\ FoundFor(found, bytes, y, s)
      /\ s \in Int
  BY EnterFinds, Zenon
<1>2. /\ Gives(out, CutAt(y, s), s, Len(bytes) - found.deint)
      /\ IsBest(found, out, found.deint, found.rs, found.phase)
  BY <1>1, Zenon DEF FoundFor
<1>3. Len(out) = Len(bytes) - found.deint
  BY <1>2, Zenon DEF Gives
<1> DEFINE d == found.deint
           r == found.rs
           L == Len(bytes)
           n == Len(out)
<1>4. d \in Nat /\ r \in Nat /\ (d + Transient) + r <= L
  BY <1>1, Zenon DEF FoundIn
<1>5. L \in Nat /\ Transient \in Nat
  <2>1. bytes \in Seq(Int)
    BY Zenon DEF PieceOf
  <2> QED BY <2>1, Counts
<1>6. s = v0 + d
  BY Zenon DEF Begun
<1>7. n = L - d
  BY <1>3
<1> HIDE DEF d, r, L, n
<1>8. n \in Nat /\ s + n = v0 + L
  BY <1>4, <1>5, <1>6, <1>7
<1>9. Gives(out, CutAt(y, s), s, n)
  BY <1>2, <1>3, Zenon DEF n
<1> QED BY <1>2, <1>8, <1>9, Zenon DEF n, L, EndOf, OutOf

\* The sync bytes found there are as many as a period has blocks.
EnoughIn(out, rs, phase) == Cardinality(Synced(out, rs, phase)) >= Period

(* A candidate with enough sync bytes has found them.                       *)
LEMMA BestEnough ==
  ASSUME NEW found, NEW out, NEW d, NEW rs, NEW phase, IsBest(found, out, d, rs, phase),
         EnoughSync(found)
  PROVE  EnoughIn(out, rs, phase)
<1>1. found.sync = Cardinality(Synced(out, rs, phase))
  <2>1. found = Candidate(out, d, rs, phase)
    BY Zenon DEF IsBest
  <2> QED BY <2>1 DEF Candidate
<1>2. found.sync >= Period
  BY Zenon DEF EnoughSync
<1> QED BY <1>1, <1>2, Zenon DEF EnoughIn

(* The cadence found: the place in the period of its first block.           *)
LEMMA EnterRight ==
  ASSUME NEW y \in [Int -> Int], NEW v0 \in Int, NEW bytes, PieceOf(bytes, y, v0),
         NEW found, found = Scan(bytes), ManySync(found), EnoughSync(found),
         NEW s, Begun(s, v0, found),
         NEW stop \in Nat, stop # 0, NEW run, run = Enter(found, bytes, stop),
         NEW totals \in SUBSET Int, SentBefore(y, EndOf(bytes, v0), totals), Distinct(totals),
         ~Blind(bytes, found)
  PROVE  /\ RightOut(run.out)
         /\ Right(After(run, EndOf(bytes, v0) - run.unseen), s, run.c.phase, totals)
<1> DEFINE x == CutAt(y, s)
           end == EndOf(bytes, v0)
           w == end - run.unseen
           rs == found.rs
           place == Begin(s, rs)
           phase == found.phase
           out == Deinterleaved(bytes, found.deint)
<1>1. Enters(run, found, x, s, end, stop)
  BY EntersRun, Zenon
<1>2. /\ x \in [Int -> Int] /\ s \in Int /\ end \in Int
      /\ rs \in Nat /\ phase \in 0 .. Period - 1
      /\ run.unseen \in Nat /\ Settled(run)
      /\ RunsTo(run, x, s, w, place, phase, stop)
  BY <1>1, Zenon DEF Enters
<1>3. v0 <= s
  BY EnterFinds, Zenon
<1>4. SentBefore(x, end, totals)
  BY <1>2, CutSent, Zenon
<1>5. /\ Len(out) \in Nat /\ s + Len(out) = end
      /\ Gives(out, x, s, Len(out))
      /\ IsBest(found, out, found.deint, rs, phase)
  <2>1. OutOf(out, found, x, s, end)
    BY EnterOut, Zenon
  <2> QED BY <2>1, Zenon DEF OutOf
<1>6. Cardinality(Synced(out, rs, phase)) >= Period
  <2>1. EnoughIn(out, rs, phase)
    BY <1>5, BestEnough, Zenon
  <2> QED BY <2>1, Zenon DEF EnoughIn
<1>7. Undamaged(x, s, end) \/ ~BlindAt(out, rs)
  <2>1. CASE ~BlindAt(out, rs)
    BY <2>1, Zenon
  <2>2. CASE ~Damaged(bytes)
    <3>1. Undamaged(y, v0, end)
      BY <2>2, DamagedNot, Zenon
    <3> QED BY <3>1, <1>2, <1>3, UndamagedCut, Zenon
  <2> QED BY <2>1, <2>2, BlindIs, Zenon
<1>d. totals \in SUBSET Int /\ Distinct(totals)
  OBVIOUS
<1> DEFINE e == found.deint
<1>8. w \in Int /\ w <= end /\ place \in Int /\ phase \in Int
  <2> DEFINE u == run.unseen
  <2>1. u \in Nat /\ end \in Int /\ w = end - u /\ rs \in Nat /\ s \in Int
        /\ place = s + (Transient + rs) /\ phase \in 0 .. Period - 1
    BY <1>2, Zenon DEF Begin
  <2>2. Transient \in Nat /\ Period \in Nat
    BY Counts
  <2> HIDE DEF u, end, w, rs, place, phase
  <2> QED BY <2>1, <2>2
<1> HIDE DEF x, end, w, place, phase, out, rs, e
<1>9. Right(place, s, phase, totals)
  <2>1. SentBefore(x, s + Len(out), totals) /\ (Undamaged(x, s, s + Len(out)) \/ ~BlindAt(out, rs))
    BY <1>4, <1>5, <1>7, Zenon
  <2>2. IsBest(found, out, e, rs, phase)
    BY <1>5, Zenon DEF e
  <2>3. Right(s + (Transient + rs), s, phase, totals)
    BY <2>1, <2>2, <1>2, <1>5, <1>6, <1>d, StartsRight, Zenon
  <2> QED BY <2>3, Zenon DEF Begin, place
<1>10. SentBefore(x, w, totals)
  <2>1. totals \subseteq totals
    OBVIOUS
  <2> QED BY <1>2, <1>4, <1>8, <2>1, SentUpTo, Zenon
<1>11. RightOut(run.out) /\ Right(After(run, w), s, run.c.phase, totals)
  BY <1>2, <1>8, <1>9, <1>10, <1>d, RunRight, Zenon
<1> QED BY <1>11, Zenon DEF w, end

(* Packets numbered from n on.                                              *)
LEMMA NumbersGoOn ==
  ASSUME NEW out, Len(out) \in Nat, NEW n \in Int, NumbersFrom(out, n)
  PROVE  /\ Consecutive(out)
         /\ Len(out) # 0 => out[1].number = n /\ out[Len(out)].number = n + (Len(out) - 1)
<1> DEFINE f(i) == out[i].number
           N == Len(out)
<1>1. \A i \in 1 .. N : f(i) = n + (i - 1)
  BY Zenon DEF NumbersFrom
<1>2. N \in Nat
  OBVIOUS
<1> HIDE DEF f, N
<1>3. \A i \in 2 .. N : f(i) = f(i - 1) + 1
  <2>1. TAKE i \in 2 .. N
  <2>2. i \in 1 .. N /\ i - 1 \in 1 .. N
    BY <1>2
  <2>3. f(i) = n + (i - 1) /\ f(i - 1) = n + ((i - 1) - 1)
    BY <2>2, <1>1
  <2> QED BY <2>2, <2>3, <1>2
<1>4. N # 0 => f(1) = n /\ f(N) = n + (N - 1)
  <2>1. N # 0 => 1 \in 1 .. N /\ N \in 1 .. N
    BY <1>2
  <2>2. N # 0 => f(1) = n + (1 - 1) /\ f(N) = n + (N - 1)
    BY <2>1, <1>1
  <2> QED BY <2>2, <1>2
<1> QED BY <1>3, <1>4, Zenon DEF Consecutive, f, N

\* The newest of packets numbered from the q-th block's on is the last block.
LEMMA NewestLast ==
  ASSUME NEW out, Len(out) \in Nat, NEW q \in Int, NumbersFrom(out, NumberAt(q)),
         Len(out) # 0, NEW m
  PROVE  Newest(out, m) \in Int /\ Newest(out, m) + Branches = q + Len(out)
<1> DEFINE N == Len(out)
           l == out[N].number
           n == NumberAt(q)
<1>1. Branches \in Nat /\ n = q - (Branches - 1)
  BY Counts DEF NumberAt
<1>2. n \in Int
  BY <1>1
<1>3. l = n + (N - 1)
  BY <1>2, NumbersGoOn, Zenon
<1>4. Newest(out, m) = l
  <2>1. out # <<>>
    BY SMT
  <2> QED BY <2>1 DEF Newest
<1>5. N \in Nat
  OBVIOUS
<1> HIDE DEF N, l, n
<1>6. l \in Int /\ l + Branches = q + N
  BY <1>1, <1>3, <1>5
<1> QED BY <1>4, <1>6 DEF N

\* The search has found a clean block.
CleanSome(found) == found.clean # 0

(* A clean block begins with a sync byte.                                   *)
LEMMA CleanNone ==
  ASSUME NEW found, NEW out, NEW d, NEW rs, NEW phase, IsBest(found, out, d, rs, phase),
         CleanSome(found)
  PROVE  Clean(out, rs, phase) # {} /\ Synced(out, rs, phase) # {}
<1>1. found.clean = Cardinality(Clean(out, rs, phase))
  <2>1. found = Candidate(out, d, rs, phase)
    BY Zenon DEF IsBest
  <2> QED BY <2>1 DEF Candidate
<1>2. Cardinality(Clean(out, rs, phase)) # 0
  BY <1>1 DEF CleanSome
<1>3. Clean(out, rs, phase) # {}
  BY <1>2, FS_EmptySet
<1> QED BY <1>3 DEF Clean

(* A block fits after the place where blocks begin: it is made.             *)
LEMMA BlockMade ==
  ASSUME NEW x, NEW s, NEW w \in Int, NEW run, Holds(run.c, x, s, w),
         NEW q \in Int, NEW N \in Nat, After(run, w) = (q + N) * BlockLen,
         q * BlockLen + BlockLen <= w
  PROVE  N # 0
<1> DEFINE l == Len(run.c.block)
           Q == q * BlockLen
<1>1. l \in Nat /\ l < BlockLen
  <2>1. run.c \in Cadences /\ Len(run.c.block) < BlockLen
    BY Zenon DEF Holds
  <2> QED BY <2>1, CadenceTypes
<1>2. After(run, w) = w - l
  BY DEF After
<1>3. BlockLen \in Nat
  BY Counts
<1>4. Q \in Int /\ (N = 0 => (q + N) * BlockLen = Q) /\ Q + BlockLen <= w
  BY <1>3
<1> HIDE DEF l, Q
<1>5. N = 0 => w - l = Q
  BY <1>2, <1>4
<1> QED BY <1>1, <1>3, <1>4, <1>5

(* A run from a place where blocks begin, nothing being wrong or lost, goes *)
(* on where its newest packet ends, if it makes a packet at all.            *)
WholeRun(run, x, s, w, place, phase, stop, totals, q) ==
  /\ x \in [Int -> Int] /\ s \in Int /\ w \in Int /\ place \in Int /\ phase \in Int /\ q \in Int
  /\ RunsTo(run, x, s, w, place, phase, stop) /\ Settled(run)
  /\ SentBefore(x, w, totals) /\ Whole(x, s, w)
  /\ place = q * BlockLen /\ (place - s) % Branches = 0 /\ place >= s + Transient

\* The run makes every block from the q-th on.
Makes(run, x, s, w, q) ==
  /\ Len(run.out) = run.blocks /\ Len(run.out) \in Nat /\ Consecutive(run.out)
  /\ Len(run.out) # 0 => run.out[1].number = NumberAt(q)
  /\ After(run, w) = (q + Len(run.out)) * BlockLen

(* It goes on where its newest packet ends.                                 *)
LEMMA CompleteOn ==
  ASSUME NEW x, NEW s, NEW w, NEW place, NEW phase, NEW stop, NEW run, NEW totals, NEW q,
         WholeRun(run, x, s, w, place, phase, stop, totals, q)
  PROVE  /\ Makes(run, x, s, w, q)
         /\ \A m : (Len(run.out) = 0 => m + Branches = q) =>
                    Complete(x, s, w, After(run, w), Newest(run.out, m))
<1>0. /\ x \in [Int -> Int] /\ s \in Int /\ w \in Int /\ place \in Int /\ phase \in Int /\ q \in Int
      /\ RunsTo(run, x, s, w, place, phase, stop) /\ Settled(run)
      /\ SentBefore(x, w, totals) /\ Whole(x, s, w)
      /\ place = q * BlockLen /\ (place - s) % Branches = 0 /\ place >= s + Transient
  BY Zenon DEF WholeRun
<1> DEFINE out == run.out
           N == Len(out)
           end == After(run, w)
<1>1. /\ N = run.blocks /\ NumbersFrom(out, NumberAt(q))
      /\ end = (q + run.blocks) * BlockLen
      /\ (end - s) % Branches = 0 /\ end >= s + Transient
  BY <1>0, RunWhole, Zenon
<1>2. N \in Nat /\ out \in Seq(Packets)
  BY <1>0, RunPackets, Zenon DEF Ran
<1>3. end = (q + N) * BlockLen
  BY <1>1
<1>4. NumberAt(q) \in Int /\ Branches \in Nat
  BY <1>0, Counts DEF NumberAt
<1>5. Consecutive(out) /\ (N # 0 => out[1].number = NumberAt(q))
  BY <1>1, <1>2, <1>4, NumbersGoOn, Zenon
<1>6. ASSUME NEW m, N = 0 => m + Branches = q
      PROVE  Newest(out, m) + Branches = q + N
  <2>1. CASE N = 0
    <3>1. out = <<>>
      BY <2>1, <1>2
    <3>2. Newest(out, m) = m
      BY <3>1 DEF Newest
    <3>3. m + Branches = q
      BY <2>1, <1>6
    <3>4. q \in Int
      BY <1>0
    <3> HIDE DEF N, out
    <3> QED BY <2>1, <3>2, <3>3, <3>4
  <2>2. CASE N # 0
    BY <2>2, <1>0, <1>1, <1>2, NewestLast, Zenon
  <2> QED BY <2>1, <2>2, Zenon
<1> HIDE DEF end, N, out
<1>7. ASSUME NEW m, N = 0 => m + Branches = q
      PROVE  Complete(x, s, w, end, Newest(out, m))
  <2>1. end = (Newest(out, m) + Branches) * BlockLen
    <3>1. Newest(out, m) + Branches = q + N
      BY <1>6, <1>7, Zenon
    <3> QED BY <1>3, <3>1
  <2> QED BY <2>1, <1>0, <1>1, Zenon DEF Complete
<1>8. Makes(run, x, s, w, q)
  BY <1>1, <1>2, <1>3, <1>5, Zenon DEF end, N, out, Makes
<1> QED BY <1>7, <1>8, Zenon DEF end, N, out

(* The cadence found in bytes of which none is wrong or lost: it makes      *)
(* every block from the first.                                              *)
LEMMA EnterWhole ==
  ASSUME NEW y \in [Int -> Int], NEW v0 \in Int, NEW bytes, PieceOf(bytes, y, v0),
         NEW found, found = Scan(bytes), ManySync(found), CleanSome(found),
         NEW s, Begun(s, v0, found),
         NEW stop \in Nat, stop # 0, NEW run, run = Enter(found, bytes, stop), run.unseen = 0,
         NEW totals, SentBefore(y, EndOf(bytes, v0), totals),
         Whole(y, v0, EndOf(bytes, v0)), NEW m
  PROVE  LET w == EndOf(bytes, v0) - run.unseen
         IN  Consecutive(run.out) /\ Complete(CutAt(y, s), s, w, After(run, w), Newest(run.out, m))
<1> DEFINE x == CutAt(y, s)
           end == EndOf(bytes, v0)
           w == end - run.unseen
           rs == found.rs
           place == Begin(s, rs)
           phase == found.phase
           out == Deinterleaved(bytes, found.deint)
<1>1. Enters(run, found, x, s, end, stop)
  BY EntersRun, Zenon
<1>2. /\ x \in [Int -> Int] /\ s \in Int /\ end \in Int
      /\ rs \in Nat /\ phase \in 0 .. Period - 1
      /\ place + BlockLen <= end /\ Settled(run)
      /\ RunsTo(run, x, s, w, place, phase, stop)
  BY <1>1, Zenon DEF Enters
<1>3. v0 <= s
  BY EnterFinds, Zenon
<1>4. SentBefore(x, end, totals)
  BY <1>2, CutSent, Zenon
<1>5. /\ Len(out) \in Nat /\ s + Len(out) = end
      /\ Gives(out, x, s, Len(out))
      /\ IsBest(found, out, found.deint, rs, phase)
  <2>1. OutOf(out, found, x, s, end)
    BY EnterOut, Zenon
  <2> QED BY <2>1, Zenon DEF OutOf
<1>6. Clean(out, rs, phase) # {} /\ Synced(out, rs, phase) # {}
  BY <1>5, CleanNone, Zenon
<1>7. Whole(x, s, end)
  BY <1>2, <1>3, WholeCut, Zenon
<1>8. w = end
  <2>1. w = end - 0
    OBVIOUS
  <2> HIDE DEF w, end
  <2> QED BY <2>1, <1>2
<1>9. place \in Int /\ phase \in Int /\ place = s + (Transient + rs)
  <2>1. rs \in Nat /\ s \in Int
        /\ place = s + (Transient + rs) /\ phase \in 0 .. Period - 1
    BY <1>2, Zenon DEF Begin
  <2>2. Transient \in Nat /\ Period \in Nat
    BY Counts
  <2> HIDE DEF rs, place, phase
  <2> QED BY <2>1, <2>2
<1> HIDE DEF x, end, w, place, phase, out, rs
<1>10. PICK q \in Int : place = q * BlockLen
  <2>1. Whole(x, s, s + Len(out))
    BY <1>5, <1>7, Zenon
  <2> QED BY <2>1, <1>2, <1>5, <1>6, PlaceWhole, ZenonT(60) DEF place
<1>11. (place - s) % Branches = 0
  <2>1. SentBefore(x, s + Len(out), totals)
    BY <1>4, <1>5, Zenon
  <2> QED BY <2>1, <1>2, <1>5, <1>6, CleanAligned, Zenon DEF place
<1>12. place >= s + Transient
  <2>1. Transient \in Nat
    BY Counts
  <2> QED BY <2>1, <1>2, <1>9
<1>13. RunsTo(run, x, s, end, place, phase, stop)
  BY <1>2, <1>8, Zenon
<1>14. WholeRun(run, x, s, end, place, phase, stop, totals, q)
  BY <1>2, <1>4, <1>7, <1>9, <1>10, <1>11, <1>12, <1>13, Zenon DEF WholeRun
<1>15. Makes(run, x, s, end, q)
  BY <1>14, CompleteOn, Zenon
<1>16. Len(run.out) # 0
  <2>1. Len(run.out) \in Nat /\ After(run, end) = (q + Len(run.out)) * BlockLen
    BY <1>15, Zenon DEF Makes
  <2>2. Holds(run.c, x, s, end) /\ q * BlockLen + BlockLen <= end
    BY <1>13, <1>2, <1>10, Zenon DEF RunsTo
  <2> QED BY <2>1, <2>2, <1>2, BlockMade, Zenon
<1>17. Complete(x, s, end, After(run, end), Newest(run.out, m))
  BY <1>14, <1>16, CompleteOn, Zenon
<1>18. Consecutive(run.out)
  BY <1>15, Zenon DEF Makes
<1> QED BY <1>17, <1>18, <1>8, Zenon DEF x, w, end

(***************************************************************************)
(* What a job's run comes to, through the cadence in use or one just found.*)
(***************************************************************************)
Outcome(run, x, s, w, totals, lambda, m, right, whole) ==
  /\ x \in [Int -> Int] /\ s \in Int /\ w \in Int /\ run.out \in Seq(Packets)
  /\ Holds(run.c, x, s, w) /\ SentBefore(x, w, totals) /\ Later(run.out, m)
  /\ Ordered(x, w, After(run, w), lambda, Newest(run.out, m))
  /\ right => RightOut(run.out) /\ Right(After(run, w), s, run.c.phase, totals)
  /\ whole => /\ Consecutive(run.out)
              /\ Complete(x, s, w, After(run, w), Newest(run.out, m))

\* What the run through a cadence just found comes to.
EnterOutcome(run, bytes, found, y, v0, totals, lambda, m) ==
  /\ run.unseen \in Nat
  /\ \E x, s : Outcome(run, x, s, EndOf(bytes, v0) - run.unseen, totals, lambda, m,
                       Distinct(totals) /\ ~Blind(bytes, found),
                       /\ CleanSome(found) /\ run.unseen = 0
                       /\ Whole(y, v0, EndOf(bytes, v0)))

(* A cadence just found: what its run comes to.                             *)
LEMMA EnterComesTo ==
  ASSUME NEW y \in [Int -> Int], NEW v0 \in Int, NEW bytes, PieceOf(bytes, y, v0),
         NEW found, found = Scan(bytes), ManySync(found), EnoughSync(found),
         NEW stop \in Nat, stop # 0, NEW run, run = Enter(found, bytes, stop),
         NEW totals \in SUBSET Nat, SentBefore(y, EndOf(bytes, v0), totals),
         NEW lambda \in Nat, \A l \in totals : l <= lambda,
         NEW m \in Int, v0 >= (m + Branches) * BlockLen
  PROVE  EnterOutcome(run, bytes, found, y, v0, totals, lambda, m)
<1> DEFINE s == v0 + found.deint
           x == CutAt(y, s)
           end == EndOf(bytes, v0)
           w == end - run.unseen
<1>1. Begun(s, v0, found)
  BY Zenon DEF Begun
<1> HIDE DEF s
<1>2. s \in Int /\ x \in [Int -> Int] /\ run.unseen \in Nat /\ run.out \in Seq(Packets)
  <2>1. Enters(run, found, x, s, end, stop)
    BY <1>1, EntersRun, Zenon
  <2>2. s \in Int /\ x \in [Int -> Int] /\ run.unseen \in Nat /\ run \in Runs
    BY <2>1, Zenon DEF Enters, RunsTo
  <2> QED BY <2>2, RunTypes, Zenon
<1>3. /\ w \in Int /\ Holds(run.c, x, s, w) /\ SentBefore(x, w, totals)
      /\ Later(run.out, m) /\ Ordered(x, w, After(run, w), lambda, Newest(run.out, m))
  BY <1>1, EnterOrdered, Zenon
<1>4. ASSUME Distinct(totals), ~Blind(bytes, found)
      PROVE  RightOut(run.out) /\ Right(After(run, w), s, run.c.phase, totals)
  <2>1. totals \in SUBSET Int
    OBVIOUS
  <2> QED BY <2>1, <1>1, <1>4, EnterRight, Zenon
<1>5. ASSUME CleanSome(found), run.unseen = 0, Whole(y, v0, end)
      PROVE  Consecutive(run.out) /\ Complete(x, s, w, After(run, w), Newest(run.out, m))
  BY <1>1, <1>5, EnterWhole, Zenon
<1> HIDE DEF x, w
<1>6. Outcome(run, x, s, w, totals, lambda, m, Distinct(totals) /\ ~Blind(bytes, found),
              CleanSome(found) /\ run.unseen = 0 /\ Whole(y, v0, end))
  BY <1>2, <1>3, <1>4, <1>5, Zenon DEF Outcome
<1> QED BY <1>2, <1>6, Zenon DEF w, end, EnterOutcome

\* What is true of the cadence in use before a job.
Tracks(c, x, s, w, totals, lambda, m, right, whole) ==
  /\ x \in [Int -> Int] /\ s \in Int /\ w \in Int
  /\ Holds(c, x, s, w) /\ SentBefore(x, w, totals)
  /\ Ordered(x, w, Place(c, w), lambda, m)
  /\ right => Right(Place(c, w), s, c.phase, totals)
  /\ whole => Complete(x, s, w, Place(c, w), m)

(* A job's bytes through the cadence in use.                                *)
FollowsOn(run, m) ==
  /\ Len(run.out) # 0 => run.out[1].number = m + 1
  /\ run.out = <<>> => run.blocks = 0

\* A job's bytes through a cadence.
RunThrough(run, x, s, w, bytes, place, phase, stop) ==
  /\ run.unseen \in Nat /\ Settled(run)
  /\ RunsTo(run, x, s, EndOf(bytes, w) - run.unseen, place, phase, stop)

\* The bytes are those of the stream from w on.
ComesIn(bytes, x, w) == \A i \in 1 .. Len(bytes) : bytes[i] = x[(w + i) - 1]

(* The cadence in use takes the bytes of a job.                             *)
LEMMA ProcessRunsThrough ==
  ASSUME NEW x \in [Int -> Int], NEW s \in Int, NEW w \in Int, NEW c, Holds(c, x, s, w),
         NEW bytes \in Seq(Int), NEW stop \in Nat, stop # 0, ComesIn(bytes, x, w)
  PROVE  RunThrough(Process(c, bytes, 0, stop), x, s, w, bytes, Place(c, w), c.phase, stop)
<1>1. \A i \in 1 .. Len(bytes) : bytes[i] = x[(w + i) - 1]
  BY Zenon DEF ComesIn
<1> DEFINE run == Process(c, bytes, 0, stop)
<1> HIDE DEF run
<1>2. /\ run.unseen \in Nat /\ Settled(run)
      /\ RunsTo(run, x, s, (w + Len(bytes)) - run.unseen, w - Len(c.block), c.phase, stop)
  BY <1>1, ProcessRuns, Zenon DEF run
<1> QED BY <1>2, Zenon DEF RunThrough, EndOf, Place, run

\* What the run through the cadence in use comes to.
ProcessOutcome(run, bytes, w, totals, lambda, m, right, whole) ==
  /\ run.unseen \in Nat
  /\ \E y, s : Outcome(run, y, s, EndOf(bytes, w) - run.unseen, totals, lambda, m,
                       right /\ Distinct(totals), whole /\ lambda = 0 /\ ~Damaged(bytes))
  /\ whole /\ lambda = 0 /\ ~Damaged(bytes) => FollowsOn(run, m)

(* The cadence in use: what the run of a job comes to.                      *)
LEMMA ProcessComesTo ==
  ASSUME NEW c, NEW x, NEW s, NEW w, NEW totals \in SUBSET Int, NEW lambda \in totals, NEW m,
         NEW right \in BOOLEAN, NEW whole \in BOOLEAN,
         Tracks(c, x, s, w, totals, lambda, m, right, whole),
         \A l \in totals : l <= lambda,
         NEW sentAt \in Int, w = sentAt - lambda, NEW bytes, SentFrom(bytes, sentAt),
         NEW stop \in Nat, stop # 0, NEW run, run = Process(c, bytes, 0, stop)
  PROVE  ProcessOutcome(run, bytes, w, totals, lambda, m, right, whole)
<1> DEFINE y == Extended(x, w, bytes)
           end == EndOf(bytes, w)
           z == end - run.unseen
           place == Place(c, w)
           u == run.unseen
           g == c.phase
<1>0. /\ x \in [Int -> Int] /\ s \in Int /\ w \in Int
      /\ Holds(c, x, s, w) /\ SentBefore(x, w, totals)
      /\ Ordered(x, w, place, lambda, m)
      /\ right => Right(place, s, g, totals)
      /\ whole => Complete(x, s, w, place, m)
  BY Zenon DEF Tracks
<1>b. bytes \in Seq(Int)
  BY Zenon DEF SentFrom
<1>1. Extends(y, x, w, bytes)
  BY <1>0, <1>b, ExtendedIs, Zenon
<1>2. /\ y \in [Int -> Int]
      /\ \A v \in Int : v < w => y[v] = x[v]
      /\ \A i \in 1 .. Len(bytes) : bytes[i] = y[(w + i) - 1]
      /\ \A v \in Int : w <= v /\ v < w + Len(bytes) =>
           (v - w) + 1 \in 1 .. Len(bytes) /\ y[v] = bytes[(v - w) + 1]
  BY <1>1, Zenon DEF Extends
<1>3. SentBefore(y, end, totals) /\ Lost(y, w, end, lambda)
  BY <1>0, <1>1, StreamGoesOn, Zenon
<1>4. Holds(c, y, s, w)
  BY <1>0, <1>2, HoldsOn, Zenon
<1>t. /\ lambda \in Int /\ place \in Int /\ g \in Int /\ end \in Int /\ c \in Cadences
      /\ g \in 0 .. Period - 1
  <2>1. c \in Cadences
    BY <1>4, Zenon DEF Holds
  <2>2. g \in 0 .. Period - 1 /\ g \in Int /\ Len(c.block) \in Nat
    BY <2>1, CadenceTypes, Zenon
  <2>3. place \in Int
    BY <2>2, <1>0 DEF Place
  <2>4. end \in Int
    BY <1>0, <1>b DEF EndOf
  <2> QED BY <2>1, <2>2, <2>3, <2>4
<1> HIDE DEF y
<1>5. /\ run.unseen \in Nat /\ Settled(run)
      /\ RunsTo(run, y, s, z, place, g, stop)
  <2>1. ComesIn(bytes, y, w)
    BY <1>2, Zenon DEF ComesIn
  <2>2. RunThrough(Process(c, bytes, 0, stop), y, s, w, bytes, Place(c, w), c.phase, stop)
    BY <2>1, <1>0, <1>2, <1>4, <1>b, ProcessRunsThrough, Zenon
  <2>3. RunThrough(run, y, s, w, bytes, Place(c, w), c.phase, stop)
    BY <2>2, Zenon
  <2> QED BY <2>3, Zenon DEF RunThrough
<1>6. z \in Int /\ z <= end
  <2>1. u \in Nat /\ end \in Int /\ z = end - u
    BY <1>5, <1>t, Zenon
  <2> HIDE DEF u, end, z
  <2> QED BY <2>1
<1> HIDE DEF end, z, place, g
<1>7. SentBefore(y, z, totals)
  <2>1. totals \subseteq totals
    OBVIOUS
  <2> QED BY <1>3, <1>t, <1>6, <2>1, SentUpTo, Zenon
<1>8. Ordered(y, z, place, lambda, m)
  <2>1. m \in Int /\ Floor(x, w, place, m) /\ lambda + place >= (m + Branches) * BlockLen
    BY <1>0, Zenon DEF Ordered
  <2>2. \A v \in Int : w <= v /\ v < z /\ y[v] # Bad => LostBefore(y, v) = lambda
    <3>1. \A v \in Int : v < z => v < end
      BY <1>6, <1>t
    <3> QED BY <3>1, <1>3, Zenon DEF Lost
  <2>3. Floor(y, z, place, m)
    <3>1. \A v \in Int : v < w => y[v] = x[v]
      BY <1>2, Zenon
    <3> QED BY <2>1, <2>2, <3>1, <1>0, <1>2, <1>6, <1>t, FloorOn, Zenon
  <2> QED BY <2>1, <2>3, Zenon DEF Ordered
<1>l. /\ totals \in SUBSET Int /\ \A l \in totals : l <= lambda
      /\ right \in BOOLEAN /\ whole \in BOOLEAN
  OBVIOUS
<1>9. Later(run.out, m) /\ Ordered(y, z, After(run, z), lambda, Newest(run.out, m))
  BY <1>0, <1>2, <1>5, <1>6, <1>7, <1>8, <1>t, <1>l, OrderedOn, Zenon
<1>10. Holds(run.c, y, s, z) /\ run.out \in Seq(Packets)
  <2>1. Holds(run.c, y, s, z) /\ run \in Runs
    BY <1>5, Zenon DEF RunsTo
  <2> QED BY <2>1, RunTypes, Zenon
<1>11. ASSUME right, Distinct(totals)
       PROVE  RightOut(run.out) /\ Right(After(run, z), s, run.c.phase, totals)
  <2>1. Right(place, s, g, totals)
    BY <1>0, <1>11, Zenon
  <2> QED BY <2>1, <1>11, <1>0, <1>2, <1>5, <1>6, <1>7, <1>t, <1>l, RunRight, Zenon
<1>12. ASSUME whole, lambda = 0, ~Damaged(bytes)
       PROVE  /\ Consecutive(run.out) /\ Complete(y, s, z, After(run, z), Newest(run.out, m))
              /\ FollowsOn(run, m)
  <2> DEFINE q == m + Branches
  <2>1. /\ Whole(x, s, w) /\ place = q * BlockLen
        /\ place >= s + Transient /\ (place - s) % Branches = 0
    BY <1>0, <1>12, Zenon DEF Complete
  <2>2. q \in Int /\ NumberAt(q) = m + 1
    <3>1. m \in Int
      BY <1>0, Zenon DEF Ordered
    <3> QED BY <3>1, Counts DEF NumberAt
  <2>3. PieceOf(bytes, y, w)
    <3>1. \A i \in 1 .. Len(bytes) : (w + i) - 1 = w + (i - 1)
      BY <1>0, <1>b
    <3>2. \A i \in 1 .. Len(bytes) : bytes[i] = y[w + (i - 1)]
      BY <3>1, <1>2
    <3> QED BY <3>2, <1>b, Zenon DEF PieceOf
  <2>4. Undamaged(y, w, end)
    BY <2>3, <1>12, <1>0, <1>2, DamagedNot, Zenon DEF end
  <2>5. Whole(y, s, z)
    <3>1. ASSUME NEW v \in Int, w <= v, v < z  PROVE y[v] # Bad /\ LostBefore(y, v) = 0
      <4>1. v < end
        BY <3>1, <1>6, <1>t
      <4>2. y[v] # Bad
        BY <4>1, <3>1, <2>4, Zenon DEF Undamaged
      <4>3. LostBefore(y, v) = lambda
        BY <4>1, <4>2, <3>1, <1>3, Zenon DEF Lost
      <4> QED BY <4>2, <4>3, <1>12, Zenon
    <3> QED BY <3>1, <2>1, <1>0, <1>2, <1>6, WholeOn, ZenonT(60)
  <2> HIDE DEF q
  <2>6. WholeRun(run, y, s, z, place, g, stop, totals, q)
    BY <2>1, <2>2, <2>5, <1>0, <1>2, <1>5, <1>6, <1>7, <1>t, Zenon DEF WholeRun
  <2>7. Makes(run, y, s, z, q) /\ Complete(y, s, z, After(run, z), Newest(run.out, m))
    <3>1. Len(run.out) = 0 => m + Branches = q
      BY Zenon DEF q
    <3> QED BY <2>6, <3>1, CompleteOn, Zenon
  <2>8. /\ Len(run.out) = run.blocks /\ Consecutive(run.out)
        /\ Len(run.out) # 0 => run.out[1].number = NumberAt(q)
    BY <2>7, Zenon DEF Makes
  <2>9. run.out = <<>> => Len(run.out) = 0
    OBVIOUS
  <2>10. FollowsOn(run, m)
    <3>1. Len(run.out) # 0 => run.out[1].number = m + 1
      BY <2>2, <2>8
    <3>2. run.out = <<>> => run.blocks = 0
      BY <2>8, <2>9
    <3> QED BY <3>1, <3>2, Zenon DEF FollowsOn
  <2> QED BY <2>7, <2>8, <2>10, Zenon
<1>13. Outcome(run, y, s, z, totals, lambda, m, right /\ Distinct(totals),
               whole /\ lambda = 0 /\ ~Damaged(bytes))
  BY <1>0, <1>2, <1>6, <1>7, <1>9, <1>10, <1>11, <1>12, Zenon DEF Outcome
<1> QED BY <1>5, <1>12, <1>13, Zenon DEF z, end, ProcessOutcome

(***************************************************************************)
(* The order and the phases of a job's packets.                            *)
(***************************************************************************)
InOrderOut(out, m, whole, same) ==
  \A i \in DOMAIN out :
    IF i = 1 THEN Follows(out[1].number, m, whole /\ same)
    ELSE Follows(out[i].number, out[i - 1].number, whole)

(* Packets newer than all before, and none left out where none may be.      *)
LEMMA OutInOrder ==
  ASSUME NEW out \in Seq(Packets), NEW m, Later(out, m), NEW whole \in BOOLEAN, NEW same \in BOOLEAN,
         whole => Consecutive(out),
         whole /\ same => (Len(out) # 0 => out[1].number = m + 1)
  PROVE  InOrderOut(out, m, whole, same)
<1> DEFINE f(i) == out[i].number
           N == Len(out)
<1>1. N \in Nat /\ DOMAIN out = 1 .. N
  OBVIOUS
<1>2. (\A i \in 1 .. N : f(i) > m) /\ (\A i \in 2 .. N : f(i) > f(i - 1))
  BY Zenon DEF Later
<1>3. whole => \A i \in 2 .. N : f(i) = f(i - 1) + 1
  BY Zenon DEF Consecutive
<1>4. whole /\ same => (N # 0 => f(1) = m + 1)
  BY Zenon
<1> HIDE DEF f, N
<1>5. ASSUME NEW i \in 1 .. N
      PROVE  IF i = 1 THEN Follows(f(1), m, whole /\ same) ELSE Follows(f(i), f(i - 1), whole)
  <2>1. CASE i = 1
    <3>1. N # 0
      BY <1>1
    <3>2. f(1) > m /\ (whole /\ same => f(1) = m + 1)
      BY <3>1, <2>1, <1>2, <1>4
    <3> QED BY <3>2, <2>1, Zenon DEF Follows
  <2>2. CASE i # 1
    <3>1. i \in 2 .. N
      BY <2>2, <1>1
    <3>2. f(i) > f(i - 1) /\ (whole => f(i) = f(i - 1) + 1)
      BY <3>1, <1>2, <1>3, Zenon
    <3> QED BY <3>2, <2>2, Zenon DEF Follows
  <2> QED BY <2>1, <2>2, Zenon
<1>6. \A i \in DOMAIN out :
        IF i = 1 THEN Follows(f(1), m, whole /\ same) ELSE Follows(f(i), f(i - 1), whole)
  BY <1>1, <1>5, Zenon
<1> QED BY <1>6, Zenon DEF InOrderOut, f

\* The same as RightOut, of all packets.
PhasesOut(out) == \A i \in DOMAIN out : out[i].phase = out[i].number % Period

(* Each packet has the phase of its number.                                 *)
LEMMA OutRight ==
  ASSUME NEW out \in Seq(Packets), RightOut(out)
  PROVE  PhasesOut(out)
<1>1. DOMAIN out = 1 .. Len(out)
  OBVIOUS
<1> QED BY <1>1, Zenon DEF PhasesOut, RightOut

(* What is lost after the run only makes the totals more.                   *)
LEMMA OutcomeTracks ==
  ASSUME NEW run, NEW x, NEW s, NEW w, NEW totals, NEW lambda \in Int, NEW m,
         NEW right, NEW whole, Outcome(run, x, s, w, totals, lambda, m, right, whole),
         NEW more, totals \subseteq more, NEW total \in Int, total >= lambda,
         NEW right2, right2 => right, NEW whole2, whole2 => whole
  PROVE  Tracks(run.c, x, s, w, more, total, Newest(run.out, m), right2, whole2)
<1> DEFINE n == Newest(run.out, m)
           end == Place(run.c, w)
<1>1. /\ x \in [Int -> Int] /\ s \in Int /\ w \in Int
      /\ Holds(run.c, x, s, w) /\ SentBefore(x, w, totals)
      /\ Ordered(x, w, After(run, w), lambda, n)
      /\ right => Right(After(run, w), s, run.c.phase, totals)
      /\ whole => Complete(x, s, w, After(run, w), n)
  BY Zenon DEF Outcome
<1>2. After(run, w) = end
  BY DEF After, Place
<1> HIDE DEF n, end
<1>3. SentBefore(x, w, more)
  <2>1. w <= w
    BY <1>1
  <2> QED BY <1>1, <2>1, SentUpTo, Zenon
<1>4. Ordered(x, w, end, total, n)
  <2> DEFINE B == (n + Branches) * BlockLen
  <2>1. n \in Int /\ Floor(x, w, end, n) /\ lambda + end >= B
    BY <1>1, <1>2, Zenon DEF Ordered
  <2>2. end \in Int
    <3>1. run.c \in Cadences
      BY <1>1, Zenon DEF Holds
    <3>2. Len(run.c.block) \in Nat
      BY <3>1, CadenceTypes, Zenon
    <3> QED BY <3>2, <1>1 DEF end, Place
  <2>3. B \in Int
    BY <2>1, Counts
  <2> HIDE DEF B
  <2>4. total + end >= B
    BY <2>1, <2>2, <2>3
  <2> QED BY <2>1, <2>4, Zenon DEF Ordered, B
<1>5. right2 => Right(end, s, run.c.phase, more)
  BY <1>1, <1>2, RightMore, Zenon
<1>6. whole2 => Complete(x, s, w, end, n)
  BY <1>1, <1>2, Zenon
<1> QED BY <1>1, <1>3, <1>4, <1>5, <1>6, Zenon DEF Tracks, n, end

(***************************************************************************)
(* The invariant.                                                          *)
(***************************************************************************)
Streams == [Int -> Int]

\* The place, were nothing lost, of the byte to come.
Came == sent - lost

\* The types, and the losses so far being no more than those now.
StreamTypes ==
  /\ sent \in Nat /\ sent >= Transient
  /\ lost \in Nat /\ losses \in SUBSET Nat /\ lost \in losses /\ \A l \in losses : l <= lost
  /\ newest \in Int /\ locked \in BOOLEAN /\ spoiled \in BOOLEAN /\ blind \in BOOLEAN

\* The pending bytes are a piece of a stream, and no packet so far is of them.
WaitsFor(x, bytes, came, totals, m) ==
  /\ x \in Streams /\ SentBefore(x, came, totals)
  /\ PieceOf(bytes, x, came - Len(bytes))
  /\ came - Len(bytes) >= (m + Branches) * BlockLen

\* While there is no cadence.
Waits == \E x : WaitsFor(x, backlog, Came, losses, newest)

\* The cadence holds the end of a stream.
Tracking ==
  \E x, s : Tracks(cadence, x, s, Came, losses, lost, newest,
                   Distinct(losses) /\ ~blind, lost = 0 /\ ~spoiled)

\* The inductive invariant.
StreamInv == StreamTypes /\ (~locked => Waits) /\ (locked => Tracking)

\* What the two properties say of a step.
InOrder ==
  LET whole == lost' = 0 /\ ~spoiled'
      same == locked /\ lost = 0 /\ ~spoiled /\ newest # Bad
  IN  \A i \in DOMAIN packets' :
        IF i = 1 THEN Follows(packets'[1].number, newest, whole /\ same)
        ELSE Follows(packets'[i].number, packets'[i - 1].number, whole)

\* RightPackets, of a step.
RightPhases ==
  \/ WholeBlocksLost /\ WholeBlocksLost'
  \/ blind'
  \/ \A i \in DOMAIN packets' : packets'[i].phase = packets'[i].number % Period

\* What every step does.
StepKeeps == StreamInv' /\ InOrder /\ RightPhases

\* No packets, nothing to be in order.
LEMMA NoPackets ==
  ASSUME packets' = <<>>
  PROVE  InOrder /\ RightPhases
<1>1. DOMAIN packets' = {}
  OBVIOUS
<1> QED BY <1>1, Zenon DEF InOrder, RightPhases

(* The exception of RightPackets, in the words of the proof.                *)
LEMMA DistinctIs == Distinct(losses) <=> ~WholeBlocksLost
BY Zenon DEF Distinct, WholeBlocksLost

\* Where no byte has come yet.
LEMMA WaitsAnew ==
  ASSUME NEW came \in Int, NEW m \in Int, came >= (m + Branches) * BlockLen
  PROVE  \E x : WaitsFor(x, <<>>, came, {0}, m)
<1> DEFINE x == [v \in Int |-> Bad]
<1>1. x \in Streams /\ \A v \in Int : x[v] = Bad
  BY DEF Streams, Bad
<1> HIDE DEF x
<1>2. SentBefore(x, came, {0})
  BY <1>1, Zenon DEF SentBefore
<1>3. <<>> \in Seq(Int) /\ Len(<<>>) = 0 /\ came - 0 = came
  OBVIOUS
<1>4. PieceOf(<<>>, x, came - Len(<<>>))
  BY <1>3 DEF PieceOf
<1>5. came - Len(<<>>) >= (m + Branches) * BlockLen
  BY <1>3
<1>6. WaitsFor(x, <<>>, came, {0}, m)
  BY <1>1, <1>2, <1>4, <1>5, Zenon DEF WaitsFor
<1> QED BY <1>6, Zenon

(* Where the transmitter begins its first block.                            *)
LEMMA FirstPlace == (Bad + Branches) * BlockLen = Transient
<1>1. Transient = (Branches - 1) * BlockLen /\ Branches \in Nat
  BY BlockSizes
<1>2. Bad + Branches = Branches - 1
  BY <1>1 DEF Bad
<1> QED BY <1>1, <1>2

(* The receiver begins with nothing pending.                                *)
LEMMA StartsInv == StreamInit => StreamInv
<1> SUFFICES ASSUME StreamInit PROVE StreamInv
  OBVIOUS
<1>1. /\ sent \in Starts /\ locked = FALSE /\ backlog = <<>> /\ newest = Bad
      /\ lost = 0 /\ losses = {0} /\ spoiled = FALSE /\ blind = FALSE
  BY Zenon DEF StreamInit
<1>2. sent \in Nat /\ sent >= Transient
  BY <1>1, OuterStreamAssumption
<1>3. StreamTypes
  <2>1. Bad \in Int
    BY DEF Bad
  <2>2. losses \in SUBSET Nat /\ lost \in losses /\ lost \in Nat /\ \A l \in losses : l <= lost
    BY <1>1
  <2>3. newest \in Int /\ locked \in BOOLEAN /\ spoiled \in BOOLEAN /\ blind \in BOOLEAN
    BY <1>1, <2>1
  <2> QED BY <1>2, <2>2, <2>3, Zenon DEF StreamTypes
<1>4. Came = sent
  BY <1>1, <1>2 DEF Came
<1>5. Waits
  <2>1. sent \in Int /\ Bad \in Int /\ sent >= (Bad + Branches) * BlockLen
    BY <1>2, FirstPlace DEF Bad
  <2>2. \E x : WaitsFor(x, <<>>, sent, {0}, Bad)
    BY <2>1, WaitsAnew, Zenon
  <2> QED BY <2>2, <1>1, <1>4 DEF Waits
<1> QED BY <1>1, <1>3, <1>5, Zenon DEF StreamInv

\* Whatever the receiver was doing, what is sent from now on is new.
LEMMA SentBeyond ==
  ASSUME StreamInv
  PROVE  sent \in Int /\ newest \in Int /\ sent >= (newest + Branches) * BlockLen
<1> DEFINE B == (newest + Branches) * BlockLen
<1>1. StreamTypes /\ (~locked => Waits) /\ (locked => Tracking)
  BY Zenon DEF StreamInv
<1>2. sent \in Nat /\ lost \in Nat /\ newest \in Int /\ locked \in BOOLEAN
  BY <1>1, Zenon DEF StreamTypes
<1>3. B \in Int
  BY <1>2, Counts
<1>4. CASE ~locked
  <2>1. PICK x : WaitsFor(x, backlog, Came, losses, newest)
    BY <1>1, <1>4, Zenon DEF Waits
  <2>2. backlog \in Seq(Int) /\ Came - Len(backlog) >= B
    BY <2>1, Zenon DEF WaitsFor, PieceOf
  <2>3. Len(backlog) \in Nat
    BY <2>2
  <2> HIDE DEF B
  <2>4. sent >= B
    BY <2>2, <2>3, <1>2, <1>3 DEF Came
  <2> QED BY <2>4, <1>2 DEF B
<1>5. CASE locked
  <2>1. PICK x, s : Tracks(cadence, x, s, Came, losses, lost, newest,
                   Distinct(losses) /\ ~blind, lost = 0 /\ ~spoiled)
    BY <1>1, <1>5, Zenon DEF Tracking
  <2>2. Ordered(x, Came, Place(cadence, Came), lost, newest) /\ Holds(cadence, x, s, Came)
    BY <2>1, Zenon DEF Tracks
  <2>3. lost + Place(cadence, Came) >= B /\ cadence \in Cadences
    BY <2>2, Zenon DEF Ordered, Holds
  <2>4. Len(cadence.block) \in Nat
    BY <2>3, CadenceTypes, Zenon
  <2> DEFINE l == Len(cadence.block)
  <2>5. lost + ((sent - lost) - l) >= B
    BY <2>3, Zenon DEF Place, Came
  <2> HIDE DEF B, l
  <2>6. sent >= B
    BY <2>4, <2>5, <1>2, <1>3 DEF l
  <2> QED BY <2>6, <1>2 DEF B
<1> QED BY <1>2, <1>4, <1>5, Zenon

(* live_grdvbt_outer_reset.                                                 *)
LEMMA ResetKeeps == StreamInv /\ StreamReset => StepKeeps
<1> SUFFICES ASSUME StreamInv, StreamReset PROVE StepKeeps
  OBVIOUS
<1>1. /\ locked' = FALSE /\ backlog' = <<>> /\ packets' = <<>>
      /\ lost' = 0 /\ losses' = {0} /\ spoiled' = FALSE /\ blind' = FALSE
      /\ sent' = sent /\ newest' = newest
  BY Zenon DEF StreamReset
<1>2. sent \in Int /\ newest \in Int /\ sent >= (newest + Branches) * BlockLen
  BY SentBeyond
<1>3. sent \in Nat /\ sent >= Transient
  BY Zenon DEF StreamInv, StreamTypes
<1>4. StreamTypes'
  <2>1. losses' \in SUBSET Nat /\ lost' \in losses' /\ lost' \in Nat /\ \A l \in losses' : l <= lost'
    BY <1>1
  <2>2. newest' \in Int /\ locked' \in BOOLEAN /\ spoiled' \in BOOLEAN /\ blind' \in BOOLEAN
    BY <1>1, <1>2
  <2>3. sent' \in Nat /\ sent' >= Transient
    BY <1>1, <1>3
  <2> QED BY <2>1, <2>2, <2>3, Zenon DEF StreamTypes
<1>5. Came' = sent
  BY <1>1, <1>3 DEF Came
<1>6. Waits'
  <2>1. \E x : WaitsFor(x, <<>>, sent, {0}, newest)
    BY <1>2, WaitsAnew, Zenon
  <2> QED BY <2>1, <1>1, <1>5 DEF Waits
<1>7. StreamInv'
  BY <1>1, <1>4, <1>6, Zenon DEF StreamInv
<1> QED BY <1>1, <1>7, NoPackets, Zenon DEF StepKeeps

\* The cadence in use has had every byte and has brought packets.
Same == locked /\ lost = 0 /\ ~spoiled /\ newest # Bad

\* Nothing was lost and no byte was wrong.
Unspoiled == lost = 0 /\ ~spoiled

\* The first packet follows the m-th at once.
FirstNext(run, m) == Len(run.out) # 0 => run.out[1].number = m + 1

(* A job that went through a cadence.                                       *)
LEMMA DeliversKeep ==
  ASSUME NEW run, NEW x, NEW s, NEW w, NEW totals \in SUBSET Nat, NEW before \in totals,
         \A l \in totals : l <= before, NEW loss \in Nat, NEW right, NEW whole,
         Outcome(run, x, s, w, totals, before, newest, right, whole), run.unseen \in Nat,
         Delivered(run, before, totals, loss), locked' = TRUE,
         sent' \in Nat, sent' >= Transient, Came' = w,
         blind' \in BOOLEAN, spoiled' \in BOOLEAN, Same \in BOOLEAN, Unspoiled' \in BOOLEAN,
         Distinct(losses') /\ ~blind' => right, Unspoiled' => whole,
         Unspoiled' /\ Same => FirstNext(run, newest),
         (WholeBlocksLost /\ WholeBlocksLost') \/ blind' \/ right
  PROVE  StepKeeps
<1> DEFINE n == Newest(run.out, newest)
           u == run.unseen
<1>1. /\ cadence' = run.c /\ packets' = run.out
      /\ newest' = n /\ lost' = (before + u) + loss
      /\ losses' = totals \cup {lost'}
  <2>1. /\ cadence' = run.c /\ packets' = run.out
        /\ newest' = IF run.out = <<>> THEN newest ELSE run.out[Len(run.out)].number
        /\ lost' = before + run.unseen + loss
        /\ losses' = totals \cup {lost'}
    BY Zenon DEF Delivered
  <2> QED BY <2>1 DEF Newest
<1>2. lost' \in Nat /\ lost' >= before /\ before \in Nat
  <2>1. u \in Nat /\ before \in Nat /\ loss \in Nat
    OBVIOUS
  <2> HIDE DEF u
  <2> QED BY <2>1, <1>1
<1>3. /\ run.out \in Seq(Packets) /\ Later(run.out, newest) /\ n \in Int
      /\ (right => RightOut(run.out)) /\ (whole => Consecutive(run.out))
  BY Zenon DEF Outcome, Ordered
<1>4. StreamTypes'
  <2>1. losses' \in SUBSET Nat /\ lost' \in losses'
    BY <1>1, <1>2
  <2>2. \A l \in losses' : l <= lost'
    <3>1. TAKE l \in losses'
    <3>2. CASE l \in totals
      <4>1. l <= before /\ l \in Nat
        BY <3>2
      <4> QED BY <4>1, <1>2
    <3>3. CASE l = lost'
      BY <3>3, <1>2
    <3> QED BY <3>2, <3>3, <1>1
  <2>3. newest' \in Int /\ locked' \in BOOLEAN
    BY <1>1, <1>3
  <2> QED BY <1>2, <2>1, <2>2, <2>3, Zenon DEF StreamTypes
<1>o. Outcome(run, x, s, w, totals, before, newest, right, whole)
  OBVIOUS
<1> HIDE DEF n
<1>5. Tracks(run.c, x, s, w, losses', lost', n, Distinct(losses') /\ ~blind', Unspoiled')
  <2>1. totals \subseteq losses' /\ before \in Int /\ lost' \in Int
    BY <1>1, <1>2
  <2> QED BY <1>o, <1>2, <2>1, OutcomeTracks, Zenon DEF n
<1>6. Tracking'
  <2>1. Tracks(cadence', x, s, Came', losses', lost', newest', Distinct(losses') /\ ~blind',
               Unspoiled')
    BY <1>1, <1>5, Zenon
  <2> QED BY <2>1, Zenon DEF Tracking, Unspoiled
<1>7. StreamInv'
  BY <1>4, <1>6, Zenon DEF StreamInv
<1>8. InOrder
  <2>1. InOrderOut(run.out, newest, Unspoiled', Same)
    BY <1>3, OutInOrder, Zenon DEF FirstNext
  <2> QED BY <2>1, <1>1, Zenon DEF InOrderOut, InOrder, Unspoiled, Same
<1>9. RightPhases
  <2>1. right => PhasesOut(packets')
    BY <1>1, <1>3, OutRight, Zenon
  <2> QED BY <2>1, Zenon DEF RightPhases, PhasesOut
<1> QED BY <1>7, <1>8, <1>9, Zenon DEF StepKeeps

(* The pending bytes and those received are a piece of the stream.          *)
Joined(bytes, y, w, kept, received) ==
  /\ PieceOf(bytes, y, w - Len(kept)) /\ Len(kept) \in Nat
  /\ Len(bytes) = Len(kept) + Len(received)

(* The pending bytes and the new ones are one piece of the stream.          *)
LEMMA JoinPiece ==
  ASSUME NEW x, NEW y, NEW w \in Int, NEW kept, NEW received \in Seq(Int),
         PieceOf(kept, x, w - Len(kept)), Extends(y, x, w, received)
  PROVE  Joined(kept \o received, y, w, kept, received)
<1> DEFINE a == Len(kept)
           b == Len(received)
           bytes == kept \o received
<1>1. kept \in Seq(Int) /\ \A i \in 1 .. a : kept[i] = x[(w - a) + (i - 1)]
  BY Zenon DEF PieceOf
<1>2. /\ \A v \in Int : v < w => y[v] = x[v]
      /\ \A i \in 1 .. b : received[i] = y[(w + i) - 1]
  BY Zenon DEF Extends
<1>3. /\ bytes \in Seq(Int) /\ Len(bytes) = a + b /\ a \in Nat /\ b \in Nat
      /\ \A i \in 1 .. a + b : bytes[i] = IF i <= a THEN kept[i] ELSE received[i - a]
  BY <1>1
<1> HIDE DEF a, b, bytes
<1>4. ASSUME NEW i \in 1 .. a + b  PROVE bytes[i] = y[(w - a) + (i - 1)]
  <2> DEFINE v == (w - a) + (i - 1)
  <2>1. CASE i <= a
    <3>1. i \in 1 .. a /\ v \in Int /\ v < w
      BY <2>1, <1>3
    <3>2. bytes[i] = kept[i] /\ kept[i] = x[v]
      BY <3>1, <2>1, <1>1, <1>3
    <3> HIDE DEF v
    <3>3. y[v] = x[v]
      BY <3>1, <1>2
    <3> QED BY <3>2, <3>3 DEF v
  <2>2. CASE ~(i <= a)
    <3>1. i - a \in 1 .. b /\ v = (w + (i - a)) - 1
      BY <2>2, <1>3, SMTT(60)
    <3>2. bytes[i] = received[i - a]
      BY <2>2, <1>3
    <3>3. received[i - a] = y[(w + (i - a)) - 1]
      BY <3>1, <1>2
    <3> QED BY <3>1, <3>2, <3>3
  <2> QED BY <2>1, <2>2
<1>5. \A i \in 1 .. Len(bytes) : bytes[i] = y[(w - a) + (i - 1)]
  BY <1>3, <1>4
<1>6. PieceOf(bytes, y, w - a)
  BY <1>3, <1>5, Zenon DEF PieceOf
<1> QED BY <1>3, <1>6, Zenon DEF a, b, bytes, Joined

(* A stream that goes on with the bytes of a job.                           *)
LEMMA PendingGoesOn ==
  ASSUME NEW x, NEW kept, NEW came \in Int, NEW totals \in SUBSET Int, NEW m,
         WaitsFor(x, kept, came, totals, m),
         NEW lambda \in totals, \A l \in totals : l <= lambda,
         NEW sentAt \in Int, came = sentAt - lambda,
         NEW received, SentFrom(received, sentAt)
  PROVE  \E y : WaitsFor(y, kept \o received, EndOf(received, came), totals, m)
<1> DEFINE y == Extended(x, came, received)
           bytes == kept \o received
           end == EndOf(received, came)
           B == (m + Branches) * BlockLen
<1>1. /\ x \in [Int -> Int] /\ SentBefore(x, came, totals)
      /\ PieceOf(kept, x, came - Len(kept))
      /\ came - Len(kept) >= B
  BY Zenon DEF WaitsFor, Streams
<1>2. received \in Seq(Int)
  BY Zenon DEF SentFrom
<1>3. Extends(y, x, came, received)
  BY <1>1, <1>2, ExtendedIs, Zenon
<1> HIDE DEF y
<1>4. y \in Streams
  BY <1>3, Zenon DEF Extends, Streams
<1>5. SentBefore(y, end, totals)
  BY <1>1, <1>3, StreamGoesOn, Zenon
<1>6. /\ PieceOf(bytes, y, came - Len(kept)) /\ Len(kept) \in Nat
      /\ Len(bytes) = Len(kept) + Len(received)
  <2>1. Joined(bytes, y, came, kept, received)
    BY <1>1, <1>2, <1>3, JoinPiece, Zenon
  <2> QED BY <2>1, Zenon DEF Joined
<1>7. end - Len(bytes) = came - Len(kept)
  <2> DEFINE a == Len(kept)
             b == Len(received)
             c == Len(bytes)
  <2>1. a \in Nat /\ b \in Nat /\ c = a + b /\ end = came + b
    BY <1>2, <1>6 DEF EndOf
  <2> HIDE DEF a, b, c, end
  <2>2. end - c = came - a
    BY <2>1
  <2> QED BY <2>2 DEF a, c
<1>8. WaitsFor(y, bytes, end, totals, m)
  <2> HIDE DEF bytes, end, B
  <2>1. PieceOf(bytes, y, end - Len(bytes)) /\ end - Len(bytes) >= B
    BY <1>1, <1>6, <1>7, Zenon
  <2> QED BY <2>1, <1>4, <1>5, Zenon DEF WaitsFor, B
<1> QED BY <1>8, Zenon

(* A piece of which nothing was wrong or lost.                              *)
LEMMA WholePiece ==
  ASSUME NEW y \in [Int -> Int], NEW v0 \in Int, NEW bytes, PieceOf(bytes, y, v0),
         ~Damaged(bytes), NEW totals \in SUBSET Nat, SentBefore(y, EndOf(bytes, v0), totals),
         \A l \in totals : l <= 0
  PROVE  Whole(y, v0, EndOf(bytes, v0))
<1>1. Undamaged(y, v0, EndOf(bytes, v0))
  BY DamagedNot, Zenon
<1> DEFINE end == EndOf(bytes, v0)
<1> HIDE DEF end
<1>2. ASSUME NEW v \in Int, v0 <= v, v < end  PROVE y[v] # Bad /\ LostBefore(y, v) = 0
  <2>1. y[v] # Bad
    BY <1>1, <1>2, Zenon DEF Undamaged, end
  <2> DEFINE l == LostBefore(y, v)
  <2>2. l \in totals
    BY <2>1, <1>2, Zenon DEF SentBefore, end
  <2>3. l \in Nat /\ l <= 0
    BY <2>2
  <2> HIDE DEF l
  <2>4. l = 0
    BY <2>3
  <2> QED BY <2>1, <2>4 DEF l
<1> QED BY <1>2, Zenon DEF Whole, end

(* How many sync bytes the search has found is a number.                    *)
LEMMA SyncNumber ==
  ASSUME NEW y \in [Int -> Int], NEW v0 \in Int, NEW bytes, PieceOf(bytes, y, v0),
         NEW found, found = Scan(bytes)
  PROVE  found.sync \in Nat
<1>1. CASE found.sync = 0
  BY <1>1
<1>2. CASE found.sync # 0
  <2> DEFINE s == v0 + found.deint
             d == found.deint
             r == found.rs
             out == Deinterleaved(bytes, d)
             L == Len(bytes)
  <2>1. Begun(s, v0, found)
    BY Zenon DEF Begun
  <2>2. bytes \in Seq(Int) /\ \A i \in 1 .. Len(bytes) : bytes[i] = y[v0 + (i - 1)]
    BY Zenon DEF PieceOf
  <2> HIDE DEF s
  <2>3. BlockIn(found, bytes) /\ FoundFor(found, bytes, y, s)
    BY <2>1, <2>2, <1>2, ScanIn, Zenon
  <2>4. /\ Gives(out, CutAt(y, s), s, L - d)
        /\ IsBest(found, out, d, r, found.phase)
    BY <2>3, Zenon DEF FoundFor
  <2>5. Len(out) = L - d
    BY <2>4, Zenon DEF Gives
  <2>6. d \in Nat /\ r \in Nat /\ (d + Transient) + r <= L
    BY <2>3, Zenon DEF BlockIn, FoundIn
  <2>7. L \in Nat /\ Transient \in Nat
    BY <2>2, Counts
  <2>8. found = Candidate(out, d, r, found.phase)
    BY <2>4, Zenon DEF IsBest
  <2> HIDE DEF d, r, L, out
  <2>9. Len(out) \in Nat
    BY <2>5, <2>6, <2>7
  <2> DEFINE g == found.phase
  <2>10. Cardinality(Synced(out, r, g)) \in Nat
    BY <2>6, <2>9, SyncedFinite
  <2>11. found = Candidate(out, d, r, g)
    BY <2>8
  <2> HIDE DEF g
  <2>12. found.sync = Cardinality(Synced(out, r, g))
    BY <2>11 DEF Candidate
  <2> QED BY <2>10, <2>12
<1> QED BY <1>1, <1>2

(* Whatever the policy, enough for a period.                                *)
LEMMA AcquirableMany ==
  ASSUME NEW found, found.sync \in Nat, NEW a, NEW b \in Nat, b >= Period, NEW c \in Nat, c >= Period,
         Acquirable(found, a, b, c)
  PROVE  EnoughSync(found) /\ ManySync(found)
<1> DEFINE n == found.sync
<1>1. n >= b \/ n >= c
  BY Zenon DEF Acquirable
<1>2. Period \in Nat
  BY Counts
<1>3. n \in Nat
  OBVIOUS
<1> HIDE DEF n
<1>4. n >= Period /\ n \in Int
  BY <1>1, <1>2, <1>3
<1>5. EnoughSync(found)
  BY <1>4, Zenon DEF EnoughSync, n
<1> QED BY <1>4, <1>5, ManyIn, Zenon DEF n

(* The tests of the policy, the weaker ones too, ask for a whole period.    *)
LEMMA LeastSync ==
  /\ MinSyncOk \in Nat /\ MinSyncOk >= Period /\ MinSyncOnly \in Nat /\ MinSyncOnly >= Period
  /\ AtMost(MinSyncOk, Period) \in Nat /\ AtMost(MinSyncOk, Period) >= Period
  /\ AtMost(MinSyncOnly, 4 * Period) \in Nat /\ AtMost(MinSyncOnly, 4 * Period) >= Period
<1>1. MinSyncOk \in Nat /\ MinSyncOk >= Period /\ MinSyncOnly \in Nat /\ MinSyncOnly >= Period
      /\ Period \in Nat
  BY OuterStreamAssumption
<1> QED BY <1>1 DEF AtMost

(* What a job brings was sent in its turn.                                  *)
LEMMA ReceivedFrom ==
  ASSUME StreamTypes, NEW n \in Nat, NEW bad
  PROVE  SentFrom(Received(n, bad), sent) /\ Len(Received(n, bad)) = n
<1>1. sent \in Nat /\ sent >= Transient
  BY Zenon DEF StreamTypes
<1> DEFINE r == Received(n, bad)
<1>2. /\ r \in Seq(Int) /\ Len(r) = n
      /\ \A i \in 1 .. n :
              \/ r[i] = Bad
              \/ r[i] \in Nat /\ Time(r[i]) = (sent + i) - 1
  BY <1>1, ReceivedIs
<1> HIDE DEF r
<1>3. SentFrom(r, sent)
  <2>1. \A i \in 1 .. Len(r) : r[i] = Bad \/ (r[i] \in Nat /\ Time(r[i]) = (sent + i) - 1)
    <3> DEFINE P(i) == r[i] = Bad \/ (r[i] \in Nat /\ Time(r[i]) = (sent + i) - 1)
    <3>1. \A i \in 1 .. n : P(i)
      BY <1>2, Zenon
    <3>2. Len(r) = n
      BY <1>2
    <3> HIDE DEF P
    <3>3. \A i \in 1 .. Len(r) : P(i)
      BY <3>1, <3>2
    <3> QED BY <3>3, Zenon DEF P
  <2> QED BY <1>2, <2>1, Zenon DEF SentFrom
<1> QED BY <1>2, <1>3 DEF r

(***************************************************************************)
(* The steps.                                                              *)
(***************************************************************************)
\* A job's bytes come in while a cadence is searched for.
LEMMA PendingNow ==
  ASSUME StreamInv, ~locked, NEW n \in Nat, NEW bad
  PROVE  /\ \E y : WaitsFor(y, backlog \o Received(n, bad), Came + n, losses, newest)
         /\ Came \in Int
<1> DEFINE r == Received(n, bad)
<1>1. StreamTypes /\ Waits
  BY Zenon DEF StreamInv
<1>2. /\ sent \in Nat /\ lost \in Nat /\ losses \in SUBSET Nat /\ lost \in losses
      /\ \A l \in losses : l <= lost
  BY <1>1, Zenon DEF StreamTypes
<1>3. SentFrom(r, sent) /\ Len(r) = n
  BY <1>1, ReceivedFrom, Zenon
<1>4. PICK x : WaitsFor(x, backlog, Came, losses, newest)
  BY <1>1, Zenon DEF Waits
<1> HIDE DEF r
<1>5. Came \in Int /\ sent \in Int /\ losses \in SUBSET Int /\ Came = sent - lost
  BY <1>2 DEF Came
<1>6. PICK y : WaitsFor(y, backlog \o r, EndOf(r, Came), losses, newest)
  BY <1>2, <1>3, <1>4, <1>5, PendingGoesOn, Zenon
<1>7. EndOf(r, Came) = Came + n
  BY <1>3 DEF EndOf
<1>8. WaitsFor(y, backlog \o r, Came + n, losses, newest)
  BY <1>6, <1>7
<1> QED BY <1>5, <1>8, Zenon DEF r

(* live_grdvbt_outer_process: no cadence is found.                          *)
LEMMA AccumulatesKeep ==
  ASSUME StreamInv, ~locked, NEW n \in Nat, NEW bad, NEW found, NEW loss \in Nat,
         NEW bytes, bytes = backlog \o Received(n, bad),
         sent' = sent + n + loss, Accumulates(bytes, found, loss)
  PROVE  StepKeeps
<1>1. /\ backlog' = bytes /\ packets' = <<>> /\ lost' = lost + loss
      /\ losses' = losses \cup {lost'}
      /\ locked' = locked /\ newest' = newest /\ spoiled' = spoiled /\ blind' = blind
  BY Zenon DEF Accumulates
<1>2. /\ sent \in Nat /\ sent >= Transient /\ lost \in Nat /\ losses \in SUBSET Nat /\ lost \in losses
      /\ \A l \in losses : l <= lost
      /\ newest \in Int /\ locked \in BOOLEAN /\ spoiled \in BOOLEAN /\ blind \in BOOLEAN
  BY Zenon DEF StreamInv, StreamTypes
<1>3. sent' \in Nat /\ sent' >= Transient
  BY <1>2, Counts
<1>4. lost' \in Nat /\ lost' >= lost /\ losses' \in SUBSET Nat /\ lost' \in losses'
  BY <1>1, <1>2
<1>5. \A l \in losses' : l <= lost'
  <2>1. TAKE l \in losses'
  <2>2. CASE l \in losses
    <3>1. l <= lost /\ l \in Nat
      BY <2>2, <1>2
    <3> QED BY <3>1, <1>2, <1>4
  <2>3. CASE l = lost'
    BY <2>3, <1>4
  <2> QED BY <2>2, <2>3, <1>1
<1>6. StreamTypes'
  BY <1>1, <1>2, <1>3, <1>4, <1>5, Zenon DEF StreamTypes
<1>7. PICK y : WaitsFor(y, bytes, Came + n, losses, newest)
  BY PendingNow, Zenon
<1>8. Came' = Came + n
  BY <1>1, <1>2 DEF Came
<1>9. WaitsFor(y, backlog', Came', losses', newest')
  <2>1. /\ y \in Streams /\ SentBefore(y, Came + n, losses)
        /\ PieceOf(bytes, y, (Came + n) - Len(bytes))
        /\ (Came + n) - Len(bytes) >= (newest + Branches) * BlockLen
    BY <1>7, Zenon DEF WaitsFor
  <2>2. SentBefore(y, Came + n, losses')
    <3>1. losses \subseteq losses' /\ Came + n \in Int /\ Came + n <= Came + n
      BY <1>1, <1>2 DEF Came
    <3> QED BY <3>1, <2>1, SentUpTo, Zenon
  <2>3. WaitsFor(y, bytes, Came + n, losses', newest)
    BY <2>1, <2>2, Zenon DEF WaitsFor
  <2> QED BY <2>3, <1>1, <1>8
<1>10. Waits'
  BY <1>9, Zenon DEF Waits
<1>11. StreamInv'
  BY <1>1, <1>6, <1>10, Zenon DEF StreamInv
<1> QED BY <1>1, <1>11, NoPackets, Zenon DEF StepKeeps

\* The flags of a cadence are truth values.
LEMMA Flags ==
  ASSUME StreamTypes
  PROVE  Same \in BOOLEAN /\ Unspoiled' \in BOOLEAN /\ Unspoiled \in BOOLEAN
         /\ \A b, f : Damaged(b) \in BOOLEAN /\ Blind(b, f) \in BOOLEAN
BY DEF StreamTypes, Same, Unspoiled, Damaged, Blind

\* The more totals, the more of them may be whole blocks apart.
LEMMA DistinctFewer ==
  ASSUME NEW totals, NEW more, totals \subseteq more, Distinct(more)
  PROVE  Distinct(totals)
BY Zenon DEF Distinct

(* Totals that are whole blocks apart stay so.                              *)
LEMMA LossesGrow ==
  ASSUME losses \subseteq losses', WholeBlocksLost
  PROVE  WholeBlocksLost'
BY Zenon DEF WholeBlocksLost

\* The arithmetic of what came and what was lost.
LEMMA CameAfter ==
  ASSUME StreamTypes, NEW n \in Nat, NEW loss \in Nat, NEW u \in Nat, NEW before \in Nat,
         sent' = sent + n + loss, lost' = before + u + loss
  PROVE  /\ sent' \in Nat /\ sent' >= Transient
         /\ Came' = ((sent - before) + n) - u
         /\ lost' = 0 => u = 0 /\ before = 0
<1>1. sent \in Nat /\ sent >= Transient /\ Transient \in Nat
  BY Counts, Zenon DEF StreamTypes
<1> QED BY <1>1 DEF Came

(* live_grdvbt_outer_process: a cadence is found and gets all the bytes.    *)
LEMMA EntersKeep ==
  ASSUME StreamInv, ~locked, NEW n \in Nat, NEW bad, NEW loss \in Nat, NEW stop \in Nat, stop # 0,
         NEW bytes, bytes = backlog \o Received(n, bad), NEW found, found = Scan(bytes),
         sent' = sent + n + loss, locked' = TRUE,
         Acquirable(found, MinRsOk, MinSyncOk, MinSyncOnly),
         NEW run, run = Enter(found, bytes, stop), Delivered(run, lost, losses, loss),
         spoiled' = Damaged(bytes), blind' = Blind(bytes, found)
  PROVE  StepKeeps
<1> DEFINE end == Came + n
           v0 == end - Len(bytes)
           u == run.unseen
           w == EndOf(bytes, v0) - u
<1>1. /\ Acquirable(found, MinRsOk, MinSyncOk, MinSyncOnly)
      /\ locked' = TRUE /\ Delivered(run, lost, losses, loss)
      /\ spoiled' = Damaged(bytes) /\ blind' = Blind(bytes, found)
  OBVIOUS
<1>2. StreamTypes /\ Came \in Int
  BY PendingNow, Zenon DEF StreamInv
<1>3. /\ sent \in Nat /\ lost \in Nat /\ losses \in SUBSET Nat /\ lost \in losses
      /\ \A l \in losses : l <= lost
      /\ newest \in Int
  BY <1>2, Zenon DEF StreamTypes
<1>4. PICK y : WaitsFor(y, bytes, end, losses, newest)
  BY PendingNow, Zenon
<1>5. /\ y \in [Int -> Int] /\ SentBefore(y, end, losses) /\ PieceOf(bytes, y, v0)
      /\ v0 >= (newest + Branches) * BlockLen
  BY <1>4, Zenon DEF WaitsFor, Streams
<1>6. end \in Int /\ v0 \in Int /\ EndOf(bytes, v0) = end
  <2>1. bytes \in Seq(Int)
    BY <1>5, Zenon DEF PieceOf
  <2>2. Len(bytes) \in Nat
    BY <2>1
  <2> DEFINE b == Len(bytes)
  <2>3. b \in Nat /\ end \in Int /\ v0 = end - b
    BY <2>2, <1>2
  <2> HIDE DEF b, end, v0
  <2>4. v0 \in Int /\ v0 + b = end
    BY <2>3
  <2> QED BY <2>3, <2>4 DEF EndOf, b
<1> HIDE DEF v0
<1>7. SentBefore(y, EndOf(bytes, v0), losses)
  BY <1>5, <1>6
<1>8. EnoughSync(found) /\ ManySync(found)
  <2>1. found.sync \in Nat
    BY <1>5, <1>6, SyncNumber, Zenon
  <2> QED BY <2>1, <1>1, LeastSync, AcquirableMany, Zenon
<1> DEFINE right == Distinct(losses) /\ ~Blind(bytes, found)
           whole == CleanSome(found) /\ u = 0 /\ Whole(y, v0, EndOf(bytes, v0))
<1>9. /\ u \in Nat
      /\ \E x, s : Outcome(run, x, s, w, losses, lost, newest, right, whole)
  <2>1. EnterOutcome(run, bytes, found, y, v0, losses, lost, newest)
    BY <1>3, <1>5, <1>6, <1>7, <1>8, EnterComesTo, Zenon
  <2> QED BY <2>1, Zenon DEF EnterOutcome
<1>10. PICK x, s : Outcome(run, x, s, w, losses, lost, newest, right, whole)
  BY <1>9, Zenon
<1>11. lost' = lost + u + loss /\ losses' = losses \cup {lost'}
  BY <1>1, Zenon DEF Delivered
<1> HIDE DEF u
<1>12. /\ sent' \in Nat /\ sent' >= Transient /\ Came' = w
       /\ lost' = 0 => u = 0 /\ lost = 0
  <2>1. /\ sent' \in Nat /\ sent' >= Transient /\ Came' = ((sent - lost) + n) - u
        /\ lost' = 0 => u = 0 /\ lost = 0
    BY <1>2, <1>3, <1>9, <1>11, CameAfter, ZenonT(60)
  <2>2. w = ((sent - lost) + n) - u
    BY <1>6 DEF Came
  <2> QED BY <2>1, <2>2, Zenon
<1>13. blind' \in BOOLEAN /\ spoiled' \in BOOLEAN /\ Same \in BOOLEAN /\ Unspoiled' \in BOOLEAN
  BY <1>1, <1>2, Flags, Zenon
<1>14. Distinct(losses') /\ ~blind' => right
  <2>1. losses \subseteq losses'
    BY <1>11
  <2> QED BY <2>1, <1>1, DistinctFewer, Zenon
<1>15. ASSUME Unspoiled' PROVE whole
  <2>1. lost' = 0 /\ ~Damaged(bytes)
    BY <1>15, <1>1, Zenon DEF Unspoiled
  <2>2. u = 0 /\ \A l \in losses : l <= 0
    BY <2>1, <1>3, <1>12
  <2>3. Whole(y, v0, EndOf(bytes, v0))
    BY <2>1, <2>2, <1>3, <1>5, <1>6, <1>7, WholePiece, Zenon
  <2>4. CleanSome(found)
    <3>1. SentBefore(y, v0 + Len(bytes), losses) /\ Whole(y, v0, v0 + Len(bytes))
      BY <2>3, <1>7, Zenon DEF EndOf
    <3> QED BY <3>1, <1>5, <1>6, <1>8, CleanFound, Zenon DEF CleanSome
  <2> QED BY <2>2, <2>3, <2>4, Zenon
<1>16. ~Same
  BY Zenon DEF Same
<1>17. (WholeBlocksLost /\ WholeBlocksLost') \/ blind' \/ right
  <2>1. losses \subseteq losses'
    BY <1>11
  <2> QED BY <2>1, <1>1, LossesGrow, DistinctIs, Zenon
<1> HIDE DEF w, right, whole
<1>18. run.unseen \in Nat
  BY <1>9, Zenon DEF u
<1> QED
  BY <1>1, <1>3, <1>10, <1>12, <1>13, <1>14, <1>15, <1>16, <1>17, <1>18, DeliversKeep, Zenon

(* The cadence in use takes a job.                                          *)
LEMMA TracksBefore ==
  ASSUME StreamInv, locked, NEW n \in Nat, NEW bad, NEW stop \in Nat, stop # 0,
         NEW bytes, bytes = Received(n, bad), NEW run, run = Process(cadence, bytes, 0, stop)
  PROVE  ProcessOutcome(run, bytes, Came, losses, lost, newest,
                        Distinct(losses) /\ ~blind, lost = 0 /\ ~spoiled)
<1> DEFINE right == Distinct(losses) /\ ~blind
           whole == lost = 0 /\ ~spoiled
<1>1. StreamTypes /\ Tracking
  BY Zenon DEF StreamInv
<1>2. /\ sent \in Nat /\ lost \in Nat /\ losses \in SUBSET Nat /\ lost \in losses
      /\ \A l \in losses : l <= lost
  BY <1>1, Zenon DEF StreamTypes
<1>3. SentFrom(bytes, sent)
  BY <1>1, ReceivedFrom, Zenon
<1>4. PICK x, s : Tracks(cadence, x, s, Came, losses, lost, newest, right, whole)
  BY <1>1, Zenon DEF Tracking
<1>5. right \in BOOLEAN /\ whole \in BOOLEAN
  BY Zenon
<1> HIDE DEF right, whole
<1>6. sent \in Int /\ losses \in SUBSET Int /\ Came = sent - lost
  BY <1>2 DEF Came
<1>7. ProcessOutcome(run, bytes, Came, losses, lost, newest, right, whole)
  BY <1>2, <1>3, <1>4, <1>5, <1>6, ProcessComesTo, ZenonT(60)
<1> QED BY <1>7, Zenon DEF right, whole

(* Where the bytes of a job end.                                            *)
LEMMA ReceivedEnd ==
  ASSUME NEW n \in Nat, NEW bad, StreamTypes, NEW v \in Int
  PROVE  EndOf(Received(n, bad), v) = v + n
<1> DEFINE r == Received(n, bad)
<1>1. Len(r) = n
  BY ReceivedFrom, Zenon
<1> QED BY <1>1 DEF EndOf

(* A job goes through the cadence in use.                                   *)
LEMMA GoesOnKeep ==
  ASSUME StreamInv, locked, NEW n \in Nat, NEW bad, NEW loss \in Nat, NEW stop \in Nat, stop # 0,
         NEW bytes, bytes = Received(n, bad), sent' = sent + n + loss, locked' = locked,
         NEW run, run = Process(cadence, bytes, 0, stop),
         blind' = blind, Delivered(run, lost, losses, loss),
         spoiled' = (spoiled \/ Damaged(bytes))
  PROVE  StepKeeps
<1> DEFINE right == (Distinct(losses) /\ ~blind) /\ Distinct(losses)
           whole == (lost = 0 /\ ~spoiled) /\ lost = 0 /\ ~Damaged(bytes)
           u == run.unseen
           w == EndOf(bytes, Came) - u
<1>1. ProcessOutcome(run, bytes, Came, losses, lost, newest,
                        Distinct(losses) /\ ~blind, lost = 0 /\ ~spoiled)
  BY TracksBefore, Zenon
<1>2. /\ u \in Nat
      /\ \E y, s : Outcome(run, y, s, w, losses, lost, newest, right, whole)
      /\ whole => FollowsOn(run, newest)
  BY <1>1, Zenon DEF ProcessOutcome
<1>3. PICK y, s : Outcome(run, y, s, w, losses, lost, newest, right, whole)
  BY <1>2, Zenon
<1>4. StreamTypes
  BY Zenon DEF StreamInv
<1>5. /\ sent \in Nat /\ lost \in Nat /\ losses \in SUBSET Nat /\ lost \in losses
      /\ \A l \in losses : l <= lost
      /\ locked \in BOOLEAN /\ spoiled \in BOOLEAN /\ blind \in BOOLEAN
  BY <1>4, Zenon DEF StreamTypes
<1>6. lost' = lost + u + loss /\ losses' = losses \cup {lost'}
  BY Zenon DEF Delivered
<1> HIDE DEF u
<1>7. /\ sent' \in Nat /\ sent' >= Transient /\ Came' = w
      /\ lost' = 0 => u = 0 /\ lost = 0
  <2>1. /\ sent' \in Nat /\ sent' >= Transient /\ Came' = ((sent - lost) + n) - u
        /\ lost' = 0 => u = 0 /\ lost = 0
    BY <1>2, <1>4, <1>5, <1>6, CameAfter, ZenonT(60)
  <2>2. Came \in Int
    BY <1>5 DEF Came
  <2>3. EndOf(bytes, Came) = Came + n
    BY <2>2, <1>4, ReceivedEnd
  <2>4. w = ((sent - lost) + n) - u
    BY <2>3 DEF Came
  <2> QED BY <2>1, <2>4, Zenon
<1>8. blind' \in BOOLEAN /\ spoiled' \in BOOLEAN /\ Same \in BOOLEAN /\ Unspoiled' \in BOOLEAN
  <2>1. Same \in BOOLEAN /\ Unspoiled' \in BOOLEAN /\ Damaged(bytes) \in BOOLEAN
    BY <1>4, Flags, Zenon
  <2> QED BY <2>1, <1>5, Zenon
<1>9. Distinct(losses') /\ ~blind' => right
  <2>1. losses \subseteq losses'
    BY <1>6
  <2> QED BY <2>1, DistinctFewer, Zenon
<1>10. Unspoiled' => whole
  BY <1>7, Zenon DEF Unspoiled
<1>11. Unspoiled' /\ Same => FirstNext(run, newest)
  BY <1>2, <1>10, Zenon DEF FirstNext, FollowsOn
<1>12. (WholeBlocksLost /\ WholeBlocksLost') \/ blind' \/ right
  <2>1. losses \subseteq losses'
    BY <1>6
  <2> QED BY <2>1, LossesGrow, DistinctIs, Zenon
<1>13. locked' = TRUE
  BY <1>5
<1>d. Delivered(run, lost, losses, loss)
  OBVIOUS
<1> HIDE DEF w, right, whole
<1>14. run.unseen \in Nat
  BY <1>2, Zenon DEF u
<1> QED
  BY <1>d, <1>3, <1>5, <1>7, <1>8, <1>9, <1>10, <1>11, <1>12, <1>13, <1>14, DeliversKeep, Zenon

\* One total is not whole blocks from another.
LEMMA OneTotal == {0} \in SUBSET Nat /\ 0 \in {0} /\ 0 \in Nat /\ (\A l \in {0} : l <= 0) /\ Distinct({0})
BY DEF Distinct

(* Where a job is searched for a better cadence, whatever it went through.  *)
LEMMA RealignedKeep ==
  ASSUME StreamInv, NEW n \in Nat, NEW bad, NEW loss \in Nat, NEW stop \in Nat, stop # 0,
         NEW bytes, bytes = Received(n, bad), sent' = sent + n + loss, locked' = TRUE,
         NEW old, NEW found, found = Scan(bytes), Realigns(old, found),
         Realigned(bytes, found, loss, stop), ~(Unspoiled' /\ Same)
  PROVE  StepKeeps
<1> DEFINE run == Enter(found, bytes, stop)
           u == run.unseen
           w == EndOf(bytes, sent) - u
<1>e. Delivered(run, 0, {0}, loss) /\ spoiled' = Damaged(bytes) /\ blind' = Blind(bytes, found)
  BY Zenon DEF Realigned
<1> HIDE DEF run
<1>1. StreamTypes
  BY Zenon DEF StreamInv
<1>2. sent \in Nat /\ newest \in Int /\ sent >= (newest + Branches) * BlockLen
  BY <1>1, SentBeyond, Zenon DEF StreamTypes
<1>3. SentFrom(bytes, sent) /\ bytes \in Seq(Int)
  BY <1>1, ReceivedFrom, Zenon DEF SentFrom
<1>4. PICK x : WaitsFor(x, <<>>, sent, {0}, newest)
  <2>1. sent \in Int
    BY <1>2
  <2> QED BY <2>1, <1>2, WaitsAnew, Zenon
<1>5. PICK y : WaitsFor(y, <<>> \o bytes, EndOf(bytes, sent), {0}, newest)
  <2>1. sent \in Int /\ {0} \in SUBSET Int /\ sent = sent - 0
    BY <1>2
  <2> QED BY <2>1, <1>3, <1>4, OneTotal, PendingGoesOn, Zenon
<1>6. <<>> \o bytes = bytes /\ Len(bytes) \in Nat
  BY <1>3
<1>7. EndOf(bytes, sent) - Len(bytes) = sent
  <2> DEFINE b == Len(bytes)
  <2>1. EndOf(bytes, sent) = sent + b /\ b \in Nat
    BY <1>6 DEF EndOf
  <2> HIDE DEF b
  <2>2. EndOf(bytes, sent) - b = sent
    BY <2>1, <1>2
  <2> QED BY <2>2 DEF b
<1>8. /\ y \in [Int -> Int] /\ SentBefore(y, EndOf(bytes, sent), {0}) /\ PieceOf(bytes, y, sent)
  <2>1. WaitsFor(y, bytes, EndOf(bytes, sent), {0}, newest)
    BY <1>5, <1>6
  <2>2. /\ y \in Streams /\ SentBefore(y, EndOf(bytes, sent), {0})
        /\ PieceOf(bytes, y, EndOf(bytes, sent) - Len(bytes))
    BY <2>1, Zenon DEF WaitsFor
  <2> QED BY <2>2, <1>7 DEF Streams
<1>9. /\ old.blocks > 0 /\ old.out = <<>> /\ found.clean > 0
      /\ Acquirable(found, 1, AtMost(MinSyncOk, Period), AtMost(MinSyncOnly, 4 * Period))
  BY Zenon DEF Realigns
<1>10. sent \in Int
  BY <1>2
<1>11. EnoughSync(found) /\ ManySync(found) /\ CleanSome(found)
  <2>1. found.sync \in Nat
    BY <1>8, <1>10, SyncNumber, Zenon
  <2>2. CleanSome(found)
    <3>1. found.clean # 0
      BY <1>9
    <3> QED BY <3>1, Zenon DEF CleanSome
  <2> QED BY <2>1, <2>2, <1>9, LeastSync, AcquirableMany, Zenon
<1> DEFINE right == Distinct({0}) /\ ~Blind(bytes, found)
           whole == CleanSome(found) /\ u = 0 /\ Whole(y, sent, EndOf(bytes, sent))
<1>12. u \in Nat /\ \E z, s : Outcome(run, z, s, w, {0}, 0, newest, right, whole)
  <2>1. EnterOutcome(run, bytes, found, y, sent, {0}, 0, newest)
    BY <1>2, <1>8, <1>10, <1>11, OneTotal, EnterComesTo, Zenon DEF run
  <2> QED BY <2>1, Zenon DEF EnterOutcome
<1>13. PICK z, s : Outcome(run, z, s, w, {0}, 0, newest, right, whole)
  BY <1>12, Zenon
<1>14. lost' = 0 + u + loss
  BY <1>e, Zenon DEF Delivered
<1> HIDE DEF u
<1>15. /\ sent' \in Nat /\ sent' >= Transient /\ Came' = w
       /\ lost' = 0 => u = 0
  <2>1. /\ sent' \in Nat /\ sent' >= Transient /\ Came' = ((sent - 0) + n) - u
        /\ lost' = 0 => u = 0
    BY <1>1, <1>12, <1>14, CameAfter
  <2>2. EndOf(bytes, sent) = sent + n
    BY <1>1, <1>10, ReceivedEnd
  <2>3. w = ((sent - 0) + n) - u
    BY <2>2, <1>2
  <2> QED BY <2>1, <2>3, Zenon
<1>16. blind' \in BOOLEAN /\ spoiled' \in BOOLEAN /\ Same \in BOOLEAN /\ Unspoiled' \in BOOLEAN
  BY <1>1, <1>e, Flags, Zenon
<1>17. Distinct(losses') /\ ~blind' => right
  BY <1>e, OneTotal, Zenon
<1>18. ASSUME Unspoiled' PROVE whole
  <2>1. lost' = 0 /\ ~Damaged(bytes)
    BY <1>18, <1>e, Zenon DEF Unspoiled
  <2>2. Whole(y, sent, EndOf(bytes, sent))
    BY <2>1, <1>8, <1>10, OneTotal, WholePiece, Zenon
  <2> QED BY <2>1, <2>2, <1>11, <1>15, Zenon
<1>20. (WholeBlocksLost /\ WholeBlocksLost') \/ blind' \/ right
  BY <1>e, OneTotal, Zenon
<1> HIDE DEF w, right, whole
<1>22. run.unseen \in Nat
  BY <1>12, Zenon DEF u
<1> QED
  BY <1>e, <1>13, <1>15, <1>16, <1>17, <1>18, <1>20, <1>22, OneTotal, DeliversKeep, Zenon

(* live_grdvbt_outer_realign_current: the bytes go through once more.       *)
LEMMA RealignsKeep ==
  ASSUME StreamInv, locked, NEW n \in Nat, NEW bad, NEW loss \in Nat, NEW stop \in Nat, stop # 0,
         NEW bytes, bytes = Received(n, bad), sent' = sent + n + loss, locked' = locked,
         NEW old, old = Process(cadence, bytes, 0, stop),
         NEW found, found = Scan(bytes), Realigns(old, found),
         Realigned(bytes, found, loss, stop)
  PROVE  StepKeeps
<1>1. old.blocks > 0
  BY Zenon DEF Realigns
<1>2. ~(Unspoiled' /\ Same)
  <2> SUFFICES ASSUME Unspoiled', Same PROVE FALSE
    OBVIOUS
  <2>1. lost = 0 /\ ~spoiled /\ ~Damaged(bytes)
    BY Zenon DEF Unspoiled, Same, Realigned
  <2>2. ProcessOutcome(old, bytes, Came, losses, lost, newest,
                        Distinct(losses) /\ ~blind, lost = 0 /\ ~spoiled)
    BY TracksBefore, Zenon
  <2>3. FollowsOn(old, newest)
    BY <2>1, <2>2, Zenon DEF ProcessOutcome
  <2>4. old.blocks = 0
    BY <2>3, Zenon DEF FollowsOn, Realigns
  <2> QED BY <2>4, <1>1
<1>3. locked' = TRUE
  BY DEF StreamInv, StreamTypes
<1> QED BY <1>2, <1>3, RealignedKeep, Zenon

(* A job that finds a cadence, with the search that may follow.             *)
LEMMA AcquiresKeep ==
  ASSUME StreamInv, ~locked, NEW n \in Nat, NEW bad, NEW loss \in Nat, NEW stop \in Nat, stop # 0,
         NEW received, received = Received(n, bad), NEW bytes, bytes = backlog \o received,
         NEW found, found = Scan(bytes),
         sent' = sent + n + loss, Acquires(bytes, received, found, loss, stop)
  PROVE  StepKeeps
<1> DEFINE run == Enter(found, bytes, stop)
           better == Scan(received)
<1>1. locked' = TRUE /\ Acquirable(found, MinRsOk, MinSyncOk, MinSyncOnly)
  BY Zenon DEF Acquires
<1>2. CASE Realigns(run, better)
  <2>1. Realigned(received, better, loss, stop)
    BY <1>2, Zenon DEF Acquires
  <2>2. ~(Unspoiled' /\ Same)
    BY Zenon DEF Same
  <2> QED BY <1>1, <1>2, <2>1, <2>2, RealignedKeep, Zenon
<1>3. CASE ~Realigns(run, better)
  <2>1. /\ Delivered(run, lost, losses, loss)
        /\ spoiled' = Damaged(bytes) /\ blind' = Blind(bytes, found)
    BY <1>3, Zenon DEF Acquires
  <2> QED BY <1>1, <2>1, EntersKeep, Zenon
<1> QED BY <1>2, <1>3, Zenon

(* Every job.                                                               *)
LEMMA JobKeeps ==
  ASSUME StreamInv, NEW n \in JobSizes, NEW bad \in BadAt, Job(n, bad)
  PROVE  StepKeeps
<1> DEFINE received == Received(n, bad)
           bytes == backlog \o received
<1>1. /\ JobSizes \subseteq Nat /\ Losses \subseteq Nat /\ Stops \subseteq Nat /\ 0 \notin Stops
  BY OuterStreamAssumption
<1>2. n \in Nat
  BY <1>1
<1>3. PICK loss \in Losses :
        /\ sent' = sent + n + loss
        /\ \/ ~locked /\ Accumulates(bytes, Scan(bytes), loss)
           \/ \E stop \in Stops : \/ ~locked /\ Acquires(bytes, received, Scan(bytes), loss, stop)
                                  \/ locked /\ Decodes(received, loss, stop)
  BY Zenon DEF Job
<1>4. loss \in Nat
  BY <1>1
<1>5. CASE ~locked /\ Accumulates(bytes, Scan(bytes), loss)
  BY <1>2, <1>3, <1>4, <1>5, AccumulatesKeep, Zenon
<1>6. ASSUME NEW stop \in Stops, ~locked, Acquires(bytes, received, Scan(bytes), loss, stop)
      PROVE  StepKeeps
  <2>1. stop \in Nat /\ stop # 0
    BY <1>1
  <2> QED BY <2>1, <1>2, <1>3, <1>4, <1>6, AcquiresKeep, Zenon
<1>7. ASSUME NEW stop \in Stops, locked, Decodes(received, loss, stop)
      PROVE  StepKeeps
  <2> DEFINE old == Process(cadence, received, 0, stop)
             found == Scan(received)
  <2>1. stop \in Nat /\ stop # 0
    BY <1>1
  <2>2. CASE Realigns(old, found)
    <3>1. Realigned(received, found, loss, stop) /\ locked' = locked
      BY <2>2, <1>7, Zenon DEF Decodes
    <3> QED BY <3>1, <2>1, <2>2, <1>2, <1>3, <1>4, <1>7, RealignsKeep, Zenon
  <2>3. CASE ~Realigns(old, found)
    <3>1. /\ Delivered(old, lost, losses, loss) /\ spoiled' = (spoiled \/ Damaged(received))
          /\ blind' = blind /\ locked' = locked
      BY <2>3, <1>7, Zenon DEF Decodes
    <3> QED BY <3>1, <2>1, <1>2, <1>3, <1>4, <1>7, GoesOnKeep, Zenon
  <2> QED BY <2>2, <2>3, Zenon
<1> QED BY <1>3, <1>5, <1>6, <1>7, Zenon

(* Every step.                                                              *)
LEMMA NextKeeps ==
  ASSUME StreamInv, StreamNext
  PROVE  StepKeeps
BY JobKeeps, ResetKeeps, Zenon DEF StreamNext

(* A step of others.                                                        *)
LEMMA StillKeeps ==
  ASSUME StreamInv, UNCHANGED streamVars
  PROVE  StreamInv'
<1>1. /\ sent' = sent /\ locked' = locked /\ backlog' = backlog /\ cadence' = cadence
      /\ newest' = newest /\ lost' = lost /\ losses' = losses /\ spoiled' = spoiled /\ blind' = blind
  BY DEF streamVars, history
<1>2. StreamTypes' <=> StreamTypes
  BY <1>1 DEF StreamTypes
<1>3. Waits' <=> Waits
  BY <1>1 DEF Waits, Came
<1>4. Tracking' <=> Tracking
  BY <1>1 DEF Tracking, Came
<1> QED BY <1>1, <1>2, <1>3, <1>4 DEF StreamInv

(* The cadence in use holds the end of a stream as it was sent, its next    *)
(* block is not older than the newest packet, and unless whole blocks were  *)
(* lost or the search was blind the block has its own place in the period.  *)
THEOREM StreamGoesInOneCadence == StreamSpec => []StreamInv
<1>1. StreamInit => StreamInv
  BY StartsInv
<1>2. StreamInv /\ [StreamNext]_streamVars => StreamInv'
  BY NextKeeps, StillKeeps, Zenon DEF StepKeeps
<1> QED BY <1>1, <1>2, PTL DEF StreamSpec

(* OnceInOrder: no block is put into FIFO3 twice or before an older one,    *)
(* whatever is searched again, and none is left out by a cadence that had   *)
(* every byte.                                                              *)
THEOREM PacketsOnceInOrder == StreamSpec => OnceInOrder
<1>1. StreamInv /\ [StreamNext]_streamVars => [InOrder]_streamVars
  BY NextKeeps, Zenon DEF StepKeeps
<1>2. StreamSpec => [][InOrder]_streamVars
  BY <1>1, StreamGoesInOneCadence, PTL DEF StreamSpec
<1> QED BY <1>2, PTL DEF OnceInOrder, InOrder

(* RightPackets: live_grdvbt_outer_push_deint_byte descrambles every packet *)
(* at its own place in the period, wherever the search began, unless whole  *)
(* blocks were lost or every sync byte that tells came in wrong.            *)
THEOREM PacketsRightPhase == StreamSpec => RightPackets
<1>1. StreamInv /\ [StreamNext]_streamVars => [RightPhases]_streamVars
  BY NextKeeps, Zenon DEF StepKeeps
<1>2. StreamSpec => [][RightPhases]_streamVars
  BY <1>1, StreamGoesInOneCadence, PTL DEF StreamSpec
<1> QED BY <1>2, PTL DEF RightPackets, RightPhases
=============================================================================
