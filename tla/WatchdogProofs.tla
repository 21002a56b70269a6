---------------------------- MODULE WatchdogProofs ----------------------------
(***************************************************************************)
(* For every timeout, limit and back-off: what is behind each of the four  *)
(* reasons for which the repeater's script stops its processes, whatever   *)
(* crashes, hangs and fails, and whenever the looks fall.                  *)
(***************************************************************************)
EXTENDS Watchdog, TLAPS

(* What is assumed of the constants.                                        *)
LEMMA Bounds ==
  /\ Retry \in Nat /\ Retry > 0 /\ MaxAge \in Nat /\ MaxAge > 0
  /\ LockLoss \in Nat /\ LockLoss > 0 /\ Stale \in Nat /\ Stale > 0
  /\ LockLoss < MaxAge /\ Stale < MaxAge /\ NoFrameLimit \in Nat
BY StatusFileAssumption, WatchdogAssumption DEF StatusFileAssumption, WatchdogAssumption

(* The mark of a lock that is not lost is no time.                          *)
LEMMA NotLostIsNoAge == NotLost \in Int /\ NotLost < 0
BY DEF NotLost

Ages == 0 .. MaxAge

(* Growing older keeps the order of ages.                                   *)
LEMMA OlderAge ==
  ASSUME NEW a \in Ages, NEW b \in Ages, a <= b
  PROVE  Older(a) \in Ages /\ Older(a) <= Older(b) /\ Older(a) <= a + 1
BY Bounds DEF Older, Ages

-----------------------------------------------------------------------------
(* What the counters of the watchdog say.  The time lock has been lost for  *)
(* began after the last look that found it.  A back-off that is running has *)
(* been noted as a failure, and ends with the receiver, which is gone when  *)
(* the attempt is over.  And without a failure the file is no older than    *)
(* the receiver's silence, but for the second the last report fell in, or   *)
(* the receiver has been silent since it was started: then the file is that *)
(* of an earlier one.  A file in which lock was found is there, and was     *)
(* renewed since the start, or is in parts.                                 *)

WatchTypes ==
  /\ {fileAge, sinceStart, darkFor, silentFor} \subseteq Ages
  /\ lostFor \in {NotLost} \cup Ages
  /\ wait \in Nat

LossTimed == lostFor # NotLost => lostFor <= darkFor

BackOffNoted == wait > 0 => failed /\ "rx" \in procs

NobodyLeft == script \in {"returned", "off"} => procs = {}

SilenceCounted == ~failed => fileAge <= silentFor + 1 \/ sinceStart <= silentFor

LockInFile ==
  /\ look \in [locked: BOOLEAN, lamp: BOOLEAN]
  /\ look.locked \/ look.lamp => file # NoReport
  /\ seenLock => file = InParts \/ (file # NoReport /\ fileAge <= sinceStart)

WatchInv == WatchTypes /\ LossTimed /\ BackOffNoted /\ SilenceCounted

(* The invariant holds at the start,                                        *)
LEMMA InitLeft == Init => NobodyLeft
BY DEF Init, NobodyLeft

(* and every step keeps it.                                                 *)
LEMMA StepLeft == NobodyLeft /\ [Next]_vars => NobodyLeft'
<1> SUFFICES ASSUME NobodyLeft, [Next]_vars PROVE NobodyLeft'
  OBVIOUS
<1>1. CASE Report \/ WriteReport \/ Second \/ Hang \/ UNCHANGED vars
  BY <1>1 DEF Report, WriteReport, Second, Hang, vars, NobodyLeft
<1>2. CASE Crash \/ Follow
  BY <1>2 DEF Crash, Follow, End, NobodyLeft
<1>3. CASE StartService \/ AfterAttempt
  BY <1>3 DEF StartService, AfterAttempt, Start, NobodyLeft
<1>4. CASE ReadLocked \/ ReadLamp \/ Judge \/ LeaveLoop \/ Wait
  BY <1>4 DEF ReadLocked, ReadLamp, Reads, Judge, Stop, LeaveLoop, Wait, NobodyLeft
<1> QED
  BY <1>1, <1>2, <1>3, <1>4 DEF Next, Looks

(* The invariant holds at the start,                                        *)
LEMMA InitWatched == Init => WatchInv
<1> SUFFICES ASSUME Init PROVE WatchInv
  OBVIOUS
<1> QED
  BY Bounds
  DEF Init, FileInit, WatchInv, WatchTypes, LossTimed, BackOffNoted, SilenceCounted, Ages, NotLost

(* A new attempt begins with everything forgotten but the file.             *)
LEMMA StartWatched ==
  ASSUME WatchInv, Restart, Forget
  PROVE  WatchInv'
<1>1. fileAge' = fileAge /\ wait' = 0 /\ sinceStart' = 0 /\ silentFor' = 0 /\ darkFor' = 0
      /\ lostFor' = NotLost
  BY DEF Restart, Forget
<1> QED
  BY <1>1, Bounds
  DEF WatchInv, WatchTypes, LossTimed, BackOffNoted, SilenceCounted, Ages

(* and every step keeps it.                                                 *)
LEMMA StepWatched == WatchInv /\ NobodyLeft /\ [Next]_vars => WatchInv'
<1> SUFFICES ASSUME WatchInv, NobodyLeft, [Next]_vars PROVE WatchInv'
  OBVIOUS
<1> USE DEF fileVars, attempt, watched
<1>1. ASSUME UNCHANGED <<fileAge, sinceStart, darkFor, silentFor, lostFor, failed>>,
             \/ wait' = 0
             \/ wait' = wait /\ ("rx" \in procs => "rx" \in procs')
      PROVE  WatchInv'
  <2>1. WatchTypes' /\ LossTimed' /\ SilenceCounted'
    BY <1>1 DEF WatchInv, WatchTypes, LossTimed, SilenceCounted
  <2>2. BackOffNoted'
    BY <1>1 DEF WatchInv, BackOffNoted
  <2> QED
    BY <2>1, <2>2 DEF WatchInv
<1>2. CASE Report \/ Hang \/ Crash \/ Follow
  <2>1. ASSUME NEW p, End(p) PROVE WatchInv'
    BY <1>1, <2>1 DEF End, Restart
  <2>2. CASE Report
    BY <1>1, <2>2 DEF Report, BeginReport
  <2>3. CASE Hang
    BY <1>1, <2>3 DEF Hang
  <2> QED
    BY <1>2, <2>1, <2>2, <2>3 DEF Crash, Follow
<1>3. CASE WriteReport
  <2>1. UNCHANGED <<sinceStart, darkFor, silentFor, lostFor, procs>>
    BY <1>3 DEF WriteReport
  <2>2. CASE Renew /\ failed' = FALSE
    BY <2>1, <2>2, Bounds
    DEF WriteReport, Receiving, Renew, WatchInv, WatchTypes, LossTimed, BackOffNoted, SilenceCounted, Ages
  <2>3. CASE Spoil /\ UNCHANGED failed
    <3>1. fileAge' \in Ages /\ fileAge' <= fileAge
      BY <2>3, Bounds DEF Spoil, WatchInv, WatchTypes, Ages
    <3> QED
      BY <2>1, <2>3, <3>1, Bounds
      DEF Spoil, WatchInv, WatchTypes, LossTimed, BackOffNoted, SilenceCounted, Ages
  <2>4. CASE BackOff /\ failed' = TRUE
    BY <1>3, <2>1, <2>4, Bounds
    DEF WriteReport, Receiving, BackOff, WatchInv, WatchTypes, LossTimed, BackOffNoted, SilenceCounted
  <2> QED
    BY <1>3, <2>2, <2>3, <2>4 DEF WriteReport
<1>4. CASE Second
  <2>1. /\ reported => fileAge = 0 \/ wait > 0
        /\ fileAge' = Older(fileAge) /\ wait' = (IF wait > 0 THEN wait - 1 ELSE 0)
        /\ lostFor' = (IF lostFor = NotLost THEN NotLost ELSE Older(lostFor))
        /\ sinceStart' = Older(sinceStart) /\ darkFor' = Older(darkFor)
        /\ silentFor' = (IF reported THEN 0 ELSE Older(silentFor))
        /\ failed' = failed /\ procs' = procs
    BY <1>4 DEF Second, Tick
  <2>2. fileAge \in Ages /\ sinceStart \in Ages /\ darkFor \in Ages /\ silentFor \in Ages
    BY DEF WatchInv, WatchTypes
  <2>3. WatchTypes'
    <3>1. fileAge' \in Ages /\ sinceStart' \in Ages /\ darkFor' \in Ages /\ silentFor' \in Ages
      BY <2>1, <2>2, OlderAge, Bounds DEF Ages
    <3>2. lostFor' \in {NotLost} \cup Ages
      BY <2>1, OlderAge, Bounds DEF WatchInv, WatchTypes, Ages
    <3>3. wait' \in Nat
      BY <2>1 DEF WatchInv, WatchTypes
    <3> QED BY <3>1, <3>2, <3>3 DEF WatchTypes
  <2>4. LossTimed'
    <3>1. CASE lostFor = NotLost
      BY <2>1, <3>1 DEF LossTimed
    <3>2. CASE lostFor # NotLost
      <4>1. lostFor \in Ages /\ lostFor <= darkFor
        BY <3>2 DEF WatchInv, WatchTypes, LossTimed
      <4> QED BY <2>1, <2>2, <3>2, <4>1, OlderAge DEF LossTimed
    <3> QED BY <3>1, <3>2
  <2>5. BackOffNoted'
    BY <2>1 DEF WatchInv, WatchTypes, BackOffNoted
  <2>6. SilenceCounted'
    <3> SUFFICES ASSUME ~failed PROVE fileAge' <= silentFor' + 1 \/ sinceStart' <= silentFor'
      BY <2>1 DEF SilenceCounted
    <3>1. ~(wait > 0)
      BY DEF WatchInv, BackOffNoted
    <3>2. CASE reported
      BY <2>1, <2>2, <3>1, <3>2, Bounds DEF Older
    <3>3. CASE ~reported
      <4>1. fileAge <= silentFor + 1 \/ sinceStart <= silentFor
        BY DEF WatchInv, SilenceCounted
      <4> QED
        BY <2>1, <2>2, <3>3, <4>1, Bounds DEF Older, Ages
    <3> QED BY <3>2, <3>3
  <2> QED
    BY <2>3, <2>4, <2>5, <2>6 DEF WatchInv
<1>5. CASE StartService \/ AfterAttempt
  <2>1. CASE Restart /\ Forget
    BY <2>1, StartWatched
  <2>2. CASE Forget /\ UNCHANGED fileVars /\ script = "returned"
    <3>0. ~(wait > 0)
      BY <2>2 DEF WatchInv, BackOffNoted, NobodyLeft
    <3>1. fileAge' = fileAge /\ wait' = wait /\ sinceStart' = 0 /\ silentFor' = 0
          /\ darkFor' = 0 /\ lostFor' = NotLost /\ failed' = FALSE
      BY <2>2 DEF Forget
    <3>2. WatchTypes'
      BY <3>1, Bounds DEF WatchInv, WatchTypes, Ages
    <3>3. LossTimed' /\ SilenceCounted'
      BY <3>1 DEF LossTimed, SilenceCounted
    <3>4. BackOffNoted'
      BY <3>0, <3>1 DEF WatchInv, BackOffNoted
    <3> QED
      BY <3>2, <3>3, <3>4 DEF WatchInv
  <2> QED
    BY <1>5, <2>1, <2>2 DEF StartService, AfterAttempt, Start
<1>6. CASE ReadLocked \/ ReadLamp \/ LeaveLoop \/ Wait \/ UNCHANGED vars
  BY <1>1, <1>6 DEF ReadLocked, ReadLamp, Reads, LeaveLoop, Wait, vars
<1>7. CASE Judge
  <2>1. PICK dated \in BOOLEAN :
          /\ UNCHANGED <<fileAge, sinceStart, silentFor, failed>>
          /\ \/ wait' = 0
             \/ wait' = wait /\ procs' = procs
          /\ lostFor' = LostSince(dated)
          /\ darkFor' = (IF LockSeen(dated) THEN 0 ELSE darkFor)
    BY <1>7 DEF Judge, Stop, Restart
  <2>2. LostSince(dated) \in {NotLost, 0, lostFor} /\ (LockSeen(dated) => LostSince(dated) = NotLost)
    BY DEF LostSince
  <2>3. lostFor' \in {NotLost} \cup Ages /\ darkFor' \in Ages /\ 0 \in Ages
    BY <2>1, <2>2, Bounds DEF WatchInv, WatchTypes, Ages
  <2>4. LossTimed'
    BY <2>1, <2>2, <2>3 DEF WatchInv, WatchTypes, LossTimed, Ages
  <2> QED
    BY <2>1, <2>3, <2>4 DEF WatchInv, WatchTypes, BackOffNoted, SilenceCounted
<1> QED
  BY <1>2, <1>3, <1>4, <1>5, <1>6, <1>7 DEF Next, Looks

(* No lock has been seen at the start,                                      *)
LEMMA InitLit == Init => LockInFile
BY DEF Init, LockInFile, NoLook

(* and lock that is seen is found in a file that keeps to LockInFile.       *)
LEMMA StepLit == LockInFile /\ WatchInv /\ [Next]_vars => LockInFile'
<1> SUFFICES ASSUME LockInFile, WatchInv, [Next]_vars PROVE LockInFile'
  OBVIOUS
<1> USE DEF fileVars, attempt, watched
<1>0. fileAge \in Nat /\ sinceStart \in Nat /\ fileAge \in Ages /\ sinceStart \in Ages
  BY Bounds DEF WatchInv, WatchTypes, Ages
<1>1. CASE Report \/ Hang \/ Crash \/ Follow \/ LeaveLoop \/ Wait \/ UNCHANGED vars
  <2>1. UNCHANGED <<file, fileAge, look, seenLock, sinceStart>>
    BY <1>1 DEF Report, BeginReport, Hang, Crash, Follow, End, Restart, LeaveLoop, Wait, vars
  <2> QED BY <2>1 DEF LockInFile
<1>2. CASE WriteReport
  <2>1. UNCHANGED <<look, seenLock, sinceStart>>
    BY <1>2 DEF WriteReport
  <2>2. CASE Renew \/ Spoil
    BY <1>0, <2>1, <2>2 DEF Renew, Spoil, LockInFile
  <2>3. CASE BackOff
    BY <2>1, <2>3 DEF BackOff, LockInFile, InParts, NoReport
  <2> QED BY <1>2, <2>2, <2>3 DEF WriteReport
<1>3. CASE Second
  <2>1. UNCHANGED <<file, look, seenLock>> /\ fileAge' = Older(fileAge)
        /\ sinceStart' = Older(sinceStart)
    BY <1>3 DEF Second, Tick
  <2>2. fileAge <= sinceStart => fileAge' <= sinceStart'
    BY <1>0, <2>1, OlderAge
  <2> QED BY <2>1, <2>2 DEF LockInFile
<1>4. CASE StartService \/ AfterAttempt
  <2>1. look' = NoLook /\ seenLock' = FALSE
    BY <1>4 DEF StartService, AfterAttempt, Start, Forget
  <2> QED BY <2>1 DEF LockInFile, NoLook
<1>5. CASE ReadLocked
  <2>1. UNCHANGED <<file, fileAge, seenLock, sinceStart>>
    BY <1>5 DEF ReadLocked, Reads
  <2>2. PICK lit \in BOOLEAN : /\ file # InParts => lit = (file = Locked)
                              /\ look' = [look EXCEPT !.locked = lit]
    BY <1>5 DEF ReadLocked
  <2>3. /\ look' \in [locked: BOOLEAN, lamp: BOOLEAN]
        /\ look'.locked = lit /\ look'.lamp = look.lamp
    BY <2>2 DEF LockInFile
  <2>4. lit => file # NoReport
    BY <2>2 DEF InParts, Locked, NoReport
  <2>5. look'.locked \/ look'.lamp => file # NoReport
    BY <2>3, <2>4 DEF LockInFile
  <2> QED BY <2>1, <2>3, <2>5 DEF LockInFile
<1>6. CASE ReadLamp
  <2>1. UNCHANGED <<file, fileAge, seenLock, sinceStart>>
    BY <1>6 DEF ReadLamp, Reads
  <2>2. PICK lit \in BOOLEAN : /\ lit => file # NoReport
                              /\ look' = [look EXCEPT !.lamp = lit]
    BY <1>6 DEF ReadLamp
  <2>3. /\ look' \in [locked: BOOLEAN, lamp: BOOLEAN]
        /\ look'.locked = look.locked /\ look'.lamp = lit
    BY <2>2 DEF LockInFile
  <2>4. look'.locked \/ look'.lamp => file # NoReport
    BY <2>2, <2>3 DEF LockInFile
  <2> QED BY <2>1, <2>3, <2>4 DEF LockInFile
<1>7. CASE Judge
  <2>1. PICK dated \in BOOLEAN : MayBeDated(dated) /\ seenLock' = (seenLock \/ LockSeen(dated))
    BY <1>7 DEF Judge
  <2>2. UNCHANGED <<file, fileAge, sinceStart>> /\ look' = NoLook
    BY <1>7 DEF Judge, Stop, Restart
  <2>3. LockSeen(dated) => file = InParts \/ (file # NoReport /\ fileAge <= sinceStart)
    BY <1>0, <2>1 DEF LockSeen, Outdated, MayBeDated, LockInFile
  <2> QED BY <2>1, <2>2, <2>3 DEF LockInFile, NoLook
<1> QED
  BY <1>1, <1>2, <1>3, <1>4, <1>5, <1>6, <1>7 DEF Next, Looks

(* A loss that is long enough for the script has been that long.            *)
LEMMA LossDeserved ==
  ASSUME WatchInv, lostFor >= LockLoss
  PROVE  darkFor >= LockLoss
<1>1. lostFor # NotLost
  BY Bounds, NotLostIsNoAge
<1>2. lostFor \in Nat /\ darkFor \in Nat /\ lostFor <= darkFor
  BY <1>1, Bounds DEF WatchInv, WatchTypes, LossTimed, Ages
<1> QED
  BY <1>2, Bounds

(* So has a silence, but for a second, or a write has failed.               *)
LEMMA SilenceDeserved ==
  ASSUME WatchInv, ~(fileAge > sinceStart), fileAge >= Stale
  PROVE  silentFor + 1 >= Stale \/ failed
<1>1. fileAge \in Nat /\ sinceStart \in Nat /\ silentFor \in Nat
  BY Bounds DEF WatchInv, WatchTypes, Ages
<1>2. failed \/ fileAge <= silentFor + 1 \/ sinceStart <= silentFor
  BY DEF WatchInv, SilenceCounted
<1> QED
  BY <1>1, <1>2, Bounds

(* A file that is missed after lock is there, in parts: it was renewed      *)
(* since the start, so it is not out of date.                               *)
LEMMA MissingInParts ==
  ASSUME WatchInv, LockInFile, NEW dated \in BOOLEAN, MayBeDated(dated),
         seenLock \/ LockSeen(dated), Unusable(dated)
  PROVE  file = InParts
<1>1. fileAge \in Nat /\ sinceStart \in Nat
  BY Bounds DEF WatchInv, WatchTypes, Ages
<1>2. CASE Outdated(dated)
  BY <1>1, <1>2 DEF Outdated, LockSeen, LockInFile
<1>3. CASE ~dated
  BY <1>3 DEF MayBeDated, LockSeen, LockInFile
<1> QED
  BY <1>2, <1>3 DEF Unusable

Cause ==
  /\ why' = "lost" => darkFor >= LockLoss
  /\ why' = "stale" => silentFor + 1 >= Stale \/ failed
  /\ why' = "missing" => file = InParts
  /\ why' = "ffmpeg" => NoFrameLimit # 0 /\ h264Errors' >= NoFrameLimit

(* The step that stops the pipeline.                                        *)
LEMMA StopHasCause ==
  ASSUME WatchInv, LockInFile, [Next]_vars, script = "lamp read", script' = "returned"
  PROVE  Cause
<1>1. Judge
  BY DEF Next, Report, WriteReport, Second, Hang, Crash, Follow, End, StartService, Start,
         Looks, ReadLocked, ReadLamp, Reads, LeaveLoop, Wait, AfterAttempt, vars
<1>2. PICK dated \in BOOLEAN, new \in 0..NoFrameLimit :
        /\ MayBeDated(dated)
        /\ h264Errors' = (IF Verdicts(dated, ErrorsWith(new)) \subseteq {"ffmpeg"}
                          THEN ErrorsWith(new) ELSE h264Errors)
        /\ \E r \in Verdicts(dated, ErrorsWith(new)) :
             /\ r = "ffmpeg" => Verdicts(dated, ErrorsWith(new)) = {"ffmpeg"}
             /\ Stop(r)
  BY <1>1 DEF Judge
<1>3. PICK r \in Verdicts(dated, ErrorsWith(new)) :
        /\ r = "ffmpeg" => Verdicts(dated, ErrorsWith(new)) = {"ffmpeg"}
        /\ Stop(r)
  BY <1>2
<1>4. why' = r
  BY <1>3 DEF Stop
<1>5. CASE r = "lost"
  <2>1. lostFor >= LockLoss
    BY <1>3, <1>5 DEF Verdicts
  <2>2. darkFor >= LockLoss
    BY <2>1, LossDeserved
  <2> QED
    BY <1>4, <1>5, <2>2 DEF Cause
<1>6. CASE r = "stale"
  <2>1. ~(fileAge > sinceStart) /\ fileAge >= Stale
    BY <1>3, <1>6 DEF Verdicts, Unusable, Outdated
  <2>2. silentFor + 1 >= Stale \/ failed
    BY <2>1, SilenceDeserved
  <2> QED
    BY <1>4, <1>6, <2>2 DEF Cause
<1>7. CASE r = "missing"
  <2>1. (seenLock \/ LockSeen(dated)) /\ Unusable(dated)
    BY <1>3, <1>7 DEF Verdicts
  <2>2. file = InParts
    BY <1>2, <2>1, MissingInParts
  <2> QED
    BY <1>4, <1>7, <2>2 DEF Cause
<1>8. CASE r = "ffmpeg"
  <2>1. NoFrameLimit # 0 /\ ErrorsWith(new) >= NoFrameLimit
    BY <1>3, <1>8 DEF Verdicts
  <2>2. h264Errors' = ErrorsWith(new)
    BY <1>2, <1>3, <1>8
  <2>3. NoFrameLimit # 0 /\ h264Errors' >= NoFrameLimit
    BY <2>1, <2>2
  <2> QED
    BY <1>4, <1>8, <2>3 DEF Cause
<1>9. CASE r = "none"
  BY <1>4, <1>9 DEF Cause
<1> QED
  BY <1>3, <1>5, <1>6, <1>7, <1>8, <1>9 DEF Verdicts, Reasons

(* For every choice of the limits a stop has a cause: no look has found lock *)
(* for LockLoss seconds; the receiver is in its Stale-th silent second or    *)
(* its write has failed; the file is there but in parts, and none left by an *)
(* earlier receiver; ffmpeg has reported as many errors as the limit.        *)
THEOREM EveryStopHasCause == WatchdogSpec => StopsHaveCause
<1>1. WatchInv /\ LockInFile /\ [Next]_vars
        => [script = "lamp read" /\ script' = "returned" =>
              /\ why' = "lost" => darkFor >= LockLoss
              /\ why' = "stale" => silentFor + 1 >= Stale \/ failed
              /\ why' = "missing" => file = InParts
              /\ why' = "ffmpeg" => NoFrameLimit # 0 /\ h264Errors' >= NoFrameLimit]_vars
  BY StopHasCause DEF Cause
<1> QED
  BY InitLeft, StepLeft, InitWatched, StepWatched, InitLit, StepLit, <1>1, PTL
  DEF WatchdogSpec, StopsHaveCause
=============================================================================
