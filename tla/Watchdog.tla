------------------------------ MODULE Watchdog ------------------------------
(***************************************************************************)
(* The repeater's start script, src/tools-pi6ehv/dvbt_rx_pi6ehv.sh: it     *)
(* runs tuner, receiver and encoder, looks at the receiver's status file   *)
(* once a second and stops all three when lock stays away or the file is   *)
(* no longer renewed.  The file is that of StatusFile.                     *)
(***************************************************************************)
EXTENDS StatusFile

CONSTANTS
  LockLoss,     \* LOCK_LOSS_TIMEOUT
  Stale,        \* STATUS_STALE_TIMEOUT
  NoFrameLimit  \* FFMPEG_NO_FRAME_LIMIT; 0 for no limit

ASSUME WatchdogAssumption ==
  /\ {LockLoss, Stale} \subseteq Nat \ {0} /\ LockLoss < MaxAge /\ Stale < MaxAge
  /\ NoFrameLimit \in Nat

VARIABLES
  script,   \* where the script is
  procs,    \* of rtl, rx and ffmpeg: whether it runs
  hung,     \* the receiver runs but reports no more
  udp,      \* the receiver sends its packets to ffmpeg by UDP, not through a FIFO
  look,     \* what this look has found in the file so far
  seenLock, \* seen_lock
  lostFor,  \* seconds since lock_lost_since, if that is set
  h264Errors, \* ffmpeg_h264_errors
  sinceStart, \* seconds since start_time
  status,   \* what run_pipeline_once returned
  \* history
  why,      \* the reason of the last stop
  darkFor,  \* seconds without a look that found lock
  silentFor, \* seconds that have ended without a report begun
  failed    \* a write has failed since the file was last renewed

attempt == <<look, seenLock, lostFor, h264Errors>>
watched == <<why, darkFor, silentFor, failed>>
vars == <<fileVars, script, procs, hung, udp, attempt, sinceStart, status, watched>>

Procs == {"rtl", "rx", "ffmpeg"}
Scripts == {"off", "watching", "locked read", "lamp read", "waiting", "returned"}
NotLost == -1
NoLook == [locked |-> FALSE, lamp |-> FALSE]
Reasons == {"none", "lost", "missing", "stale", "ffmpeg"}

Init ==
  /\ FileInit
  /\ script = "off" /\ procs = {} /\ hung = FALSE /\ udp \in BOOLEAN
  /\ look = NoLook /\ seenLock = FALSE /\ lostFor = NotLost
  /\ h264Errors = 0 /\ sinceStart = 0 /\ status = 0
  /\ why = "none" /\ darkFor = 0 /\ silentFor = 0 /\ failed = FALSE

-----------------------------------------------------------------------------
(* The receiver and the time.                                               *)

Receiving == "rx" \in procs /\ ~hung

Report ==
  /\ Receiving /\ BeginReport
  /\ UNCHANGED <<script, procs, hung, udp, attempt, sinceStart, status, watched>>

WriteReport ==
  /\ Receiving
  /\ \/ Renew /\ failed' = FALSE
     \/ Spoil /\ UNCHANGED failed
     \/ BackOff /\ failed' = TRUE
  /\ UNCHANGED <<script, procs, hung, udp, attempt, sinceStart, status,
                 why, darkFor, silentFor>>

(* The script sleeps until the next second.                                 *)
Second ==
  /\ script \notin {"locked read", "lamp read"} /\ Tick
  /\ lostFor' = (IF lostFor = NotLost THEN NotLost ELSE Older(lostFor))
  /\ sinceStart' = Older(sinceStart)
  /\ darkFor' = Older(darkFor)
  /\ silentFor' = (IF reported THEN 0 ELSE Older(silentFor))
  /\ UNCHANGED <<script, procs, hung, udp, look, seenLock, h264Errors, status, why,
                 failed>>

(* A receiver that no longer gets anywhere.                                 *)
Hang ==
  /\ Receiving /\ hung' = TRUE /\ reported' = FALSE
  /\ UNCHANGED <<file, fileAge, wait, script, procs, udp, attempt, sinceStart,
                 status, watched>>

End(p) ==
  /\ p \in procs /\ procs' = procs \ {p}
  /\ IF p = "rx" THEN Restart /\ hung' = FALSE ELSE UNCHANGED <<fileVars, hung>>
  /\ UNCHANGED <<script, udp, attempt, sinceStart, status, watched>>

(* Any of the three may end by itself.                                      *)
Crash == script = "watching" /\ \E p \in Procs : End(p)

(* And takes others with it: the receiver sees the end of its input, or     *)
(* nobody reads what a process writes.  A socket has no such end.           *)
Follow ==
  \/ "rtl" \notin procs /\ ~hung /\ End("rx")
  \/ "rx" \notin procs /\ End("rtl")
  \/ "rx" \notin procs /\ ~udp /\ End("ffmpeg")
  \/ "ffmpeg" \notin procs /\ ~udp /\ ~hung /\ End("rx")

-----------------------------------------------------------------------------
(* run_pipeline_once.                                                       *)

Forget ==
  /\ look' = NoLook /\ seenLock' = FALSE /\ lostFor' = NotLost
  /\ h264Errors' = 0 /\ sinceStart' = 0 /\ status' = 0
  /\ why' = "none" /\ darkFor' = 0 /\ silentFor' = 0 /\ failed' = FALSE

Start ==
  /\ script' = "watching" /\ procs' = Procs /\ hung' = FALSE /\ Restart
  /\ Forget /\ UNCHANGED udp

(* The service is started by hand.                                          *)
StartService == script = "off" /\ Start

Reads(from, to) ==
  /\ script = from /\ script' = to
  /\ UNCHANGED <<fileVars, procs, hung, udp, seenLock, lostFor, h264Errors,
                 sinceStart, status, watched>>

(* A look reads the file once for every key, whatever it is by then; of a    *)
(* file in parts it may find any key, or none.                              *)
ReadLocked ==
  /\ procs = Procs /\ Reads("watching", "locked read")
  /\ \E lit \in BOOLEAN :
       /\ file # InParts => lit = (file = Locked)
       /\ look' = [look EXCEPT !.locked = lit]

ReadLamp ==
  /\ Reads("locked read", "lamp read")
  /\ \E lit \in BOOLEAN :
       /\ lit => file # NoReport
       /\ look' = [look EXCEPT !.lamp = lit]

(* updated_unix is found.                                                   *)
MayBeDated(dated) == file # InParts => dated = (file # NoReport)

(* Mutant: the file of an earlier receiver counts like one of this.         *)
OutdatedNever(dated) == FALSE

(* The time in the file is before this receiver's.                          *)
Outdated(dated) == dated /\ fileAge > sinceStart

Unusable(dated) == ~dated \/ Outdated(dated)

LockSeen(dated) == (look.locked \/ look.lamp) /\ ~Outdated(dated)

(* Mutant: the time lock was lost at is kept when it returns.               *)
LostSinceKept(dated) ==
  CASE LockSeen(dated) -> lostFor
    [] ~LockSeen(dated) /\ seenLock /\ lostFor = NotLost -> 0
    [] OTHER -> lostFor

LostSince(dated) ==
  CASE LockSeen(dated) -> NotLost
    [] ~LockSeen(dated) /\ seenLock /\ lostFor = NotLost -> 0
    [] OTHER -> lostFor

(* What ffmpeg_h264_error_count finds in the log since the last look is     *)
(* added up, until a look finds nothing.                                    *)
ErrorsWith(new) == IF new = 0 THEN 0 ELSE h264Errors + new

(* Mutant: a file is only missed, never found old.                          *)
VerdictsMissing(dated, errors) ==
  {r \in Reasons :
    \/ r = "lost" /\ ~LockSeen(dated) /\ seenLock /\ lostFor >= LockLoss
    \/ /\ r = "missing" /\ (seenLock \/ LockSeen(dated))
       /\ Unusable(dated) /\ sinceStart >= Stale
    \/ r = "ffmpeg" /\ NoFrameLimit # 0 /\ errors >= NoFrameLimit}

(* The reasons there are to stop; the script stops for the first.           *)
Verdicts(dated, errors) ==
  {r \in Reasons :
    \/ r = "lost" /\ ~LockSeen(dated) /\ seenLock /\ lostFor >= LockLoss
    \/ /\ r = "missing" /\ (seenLock \/ LockSeen(dated))
       /\ Unusable(dated) /\ sinceStart >= Stale
    \/ /\ r = "stale" /\ (seenLock \/ LockSeen(dated))
       /\ ~Unusable(dated) /\ fileAge >= Stale
    \/ r = "ffmpeg" /\ NoFrameLimit # 0 /\ errors >= NoFrameLimit}

(* request_watchdog_stop: all three are killed and waited for.              *)
Stop(reason) ==
  /\ script' = "returned" /\ status' = 75 /\ why' = reason
  /\ procs' = {} /\ hung' = FALSE /\ Restart

Judge ==
  /\ script = "lamp read"
  /\ \E dated \in BOOLEAN, new \in 0..NoFrameLimit :
       LET verdicts == Verdicts(dated, ErrorsWith(new))
       IN  /\ MayBeDated(dated)
           /\ seenLock' = (seenLock \/ LockSeen(dated)) /\ lostFor' = LostSince(dated)
           /\ darkFor' = (IF LockSeen(dated) THEN 0 ELSE darkFor)
           /\ h264Errors' = (IF verdicts \subseteq {"ffmpeg"} THEN ErrorsWith(new)
                             ELSE h264Errors)
           /\ \/ \E r \in verdicts :
                   /\ r # "lost" => "lost" \notin verdicts
                   /\ r = "ffmpeg" => verdicts = {"ffmpeg"}
                   /\ Stop(r)
              \/ /\ verdicts = {} /\ script' = "watching"
                 /\ UNCHANGED <<fileVars, status, why, procs, hung>>
  /\ look' = NoLook
  /\ UNCHANGED <<udp, sinceStart, silentFor, failed>>

(* Mutant: a child that has ended counts as running until it is waited for. *)
LeaveLoopNever == FALSE

(* One of them has ended.                                                   *)
LeaveLoop ==
  /\ script = "watching" /\ procs # Procs /\ script' = "waiting"
  /\ UNCHANGED <<fileVars, procs, hung, udp, attempt, sinceStart, status, watched>>

(* The script waits for each of the three in turn, and only then goes on.   *)
Wait ==
  /\ script = "waiting" /\ procs = {} /\ script' = "returned"
  /\ \E rc \in 0..1 : status' = rc
  /\ UNCHANGED <<fileVars, procs, hung, udp, attempt, sinceStart, watched>>

(* "if run_pipeline_once; then exit 0; fi" leaves the status of the if, and *)
(* that of one whose condition failed and which has no else is 0.           *)
PipelineRc == 0

(* And so is what the loop round the attempts goes by.                      *)
AfterAttempt ==
  /\ script = "returned"
  /\ IF PipelineRc = 75 THEN Start
     ELSE /\ script' = "off" /\ Forget
          /\ UNCHANGED <<fileVars, procs, hung, udp>>

Looks == ReadLocked \/ ReadLamp \/ Judge \/ LeaveLoop \/ Wait \/ AfterAttempt

Next == Report \/ WriteReport \/ Second \/ Hang \/ Crash \/ Follow \/ StartService \/ Looks

WatchdogSpec == Init /\ [][Next]_vars

(* The script goes on looking, time passes, and a process that can only     *)
(* end ends.                                                                *)
FairSpec == WatchdogSpec /\ WF_vars(Looks) /\ SF_vars(Second) /\ WF_vars(Follow)

-----------------------------------------------------------------------------
(* What is behind a stop, though a look reads the file several times, and    *)
(* the file may be an earlier receiver's.  For a lost lock: no look has      *)
(* found one for LockLoss seconds.  For a stale file: the receiver is in its *)
(* Stale-th silent second, or its write failed.  For one that is missing:    *)
(* the file is there, but empty or in parts; one left by an earlier receiver *)
(* is no reason.  For a stuck ffmpeg: as many errors as the limit, in looks  *)
(* that all found some.  That a receiver in order is never stopped is more   *)
(* than the script gives: one look at a file in parts is enough, if the      *)
(* receiver has run for Stale seconds.                                       *)
StopsHaveCause ==
  [][script = "lamp read" /\ script' = "returned" =>
       /\ why' = "lost" => darkFor >= LockLoss
       /\ why' = "stale" => silentFor + 1 >= Stale \/ failed
       /\ why' = "missing" => file = InParts
       /\ why' = "ffmpeg" => NoFrameLimit # 0 /\ h264Errors' >= NoFrameLimit]_vars

(* A receiver that gets stuck once it has been seen to have lock is         *)
(* stopped, whatever it has left in its file, as long as the other two run. *)
StuckIsStopped ==
  (seenLock /\ hung /\ script = "watching") ~> (~hung \/ procs # Procs)

(* When one process ends the others are not left to run, if they are joined *)
(* by FIFOs and the receiver is not stuck.                                  *)
EndIsNoticed ==
  (script = "watching" /\ procs # Procs /\ ~udp) ~> (script = "off" \/ hung)

(* README.md: after a watchdog stop the pipeline is started again.          *)
WatchdogRestarts ==
  [][script = "returned" /\ status = 75 => script' # "off"]_vars
=============================================================================
