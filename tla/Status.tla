------------------------------- MODULE Status -------------------------------
(***************************************************************************)
(* The status reports of a live receiver and the JSON file they end up in, *)
(* src/src/dvbt_outer.c.  The decode worker reports twice for every job,   *)
(* the frontend whenever it reaches a stage, and neither takes a lock but  *)
(* for the back-off after a failed write.                                  *)
(*                                                                         *)
(* Time passes in seconds, and a report takes less than one.  Times are    *)
(* kept as ages, which stop where the code no longer tells them apart.     *)
(* A file system keeps the bytes of a file apart from its name: a writer   *)
(* that has a file open goes on writing to it after it has been renamed.   *)
(***************************************************************************)
EXTENDS Integers, FiniteSets

CONSTANTS
  Hold,      \* STATUS_LIVE_HOLD_SECONDS
  Retry,     \* STATUS_JSON_RETRY_SECONDS
  MaxAge,    \* bound: ages beyond it are all the same
  MaxFaults  \* bound: operations on files that fail

ASSUME StatusAssumption ==
  /\ {Hold, Retry, MaxAge} \subseteq Nat \ {0} /\ MaxFaults \in Nat
  /\ Hold < MaxAge /\ Retry < MaxAge

VARIABLES
  step,     \* of a thread: at rest, or the step of its report that comes next
  report,   \* of a thread: the report it makes
  job,      \* what the worker reports next of its job
  snapshot, \* live_status_snapshot
  last,     \* live_ts_session.last_packets
  output,   \* status_json_output: whether it failed, and seconds to the retry
  disk,     \* what is in the file of the reports, and in the temporary one
  stream,   \* of a thread: the name of the file it has open, if it has one
  fileAge,  \* seconds since the report in the file of that name
  faults,
  \* history
  surplus,  \* packets of the session beyond those of its jobs
  raced,    \* the session has been counted by both threads at once
  programAge, \* seconds since a job with a program
  shared,   \* names of files that both threads have written to at once
  reported     \* seconds since a report was begun

receiver == <<step, report, job, snapshot, last, output>>
files    == <<disk, stream, fileAge, faults>>
records  == <<surplus, raced, programAge, shared, reported>>
statusVars == <<receiver, files, records>>

Threads == {"worker", "frontend"}
Other(t) == CHOOSE u \in Threads : u # t
Names == {"path", "tmp"}
Ages == 0..MaxAge
Older(age) == IF age < MaxAge THEN age + 1 ELSE age

(* What a file holds: the whole of a report, or nothing, or no whole one.   *)
Contents == [holds: {"no file", "nothing", "parts", "report"}, locked: BOOLEAN]
Whole(r) == [holds |-> "report", locked |-> r.locked]
Absent   == [holds |-> "no file", locked |-> FALSE]
Empty    == [holds |-> "nothing", locked |-> FALSE]
Broken   == [holds |-> "parts", locked |-> FALSE]

Reports == [packets: 0..1, program: BOOLEAN, locked: BOOLEAN]
Stages  == {"rest", "count", "snapshot", "show", "open", "close", "rename"}
NoReport == [packets |-> 0, program |-> FALSE, locked |-> FALSE]
NoSnapshot == [valid |-> FALSE, program |-> FALSE, age |-> 0]

NoFailure == [failed |-> FALSE, wait |-> 0]
AtRest == [t \in Threads |-> "rest"]

StatusInit ==
  /\ step = AtRest /\ report = [t \in Threads |-> NoReport] /\ job = "none"
  /\ snapshot = NoSnapshot /\ last = 0 /\ output = NoFailure
  /\ disk = [n \in Names |-> Absent] /\ stream = [t \in Threads |-> "none"]
  /\ fileAge = MaxAge /\ faults = 0
  /\ surplus = 0 /\ raced = FALSE /\ programAge = MaxAge
  /\ shared = {} /\ reported = FALSE

Goes(t, from, to) == step[t] = from /\ step' = [step EXCEPT ![t] = to]
Ends(t, from) == Goes(t, from, "rest") /\ report' = [report EXCEPT ![t] = NoReport]
Begins(t, r) ==
  /\ Goes(t, "rest", "count")
  /\ report' = [report EXCEPT ![t] = r]
  /\ reported' = TRUE

Tick ==
  /\ step = AtRest
  /\ snapshot' = [snapshot EXCEPT !.age = Older(@)]
  /\ output' = [output EXCEPT !.wait = IF @ > 0 THEN @ - 1 ELSE 0]
  /\ fileAge' = Older(fileAge)
  /\ programAge' = Older(programAge) /\ reported' = FALSE
  /\ UNCHANGED <<step, report, job, last, disk, stream, faults,
                 surplus, raced, shared>>

-----------------------------------------------------------------------------
(* Who reports what.                                                        *)

(* rbdvbt_outer_reset_live_stream: the snapshot and the session go, whoever *)
(* may be using them.                                                       *)
ForgetStream ==
  /\ snapshot' = NoSnapshot /\ last' = 0 /\ surplus' = 0
  /\ raced' = (\E t \in Threads : step[t] \in {"count", "snapshot"})

FrontendReset ==
  /\ step["frontend"] = "rest" /\ ForgetStream
  /\ UNCHANGED <<step, report, job, output, files, programAge, shared, reported>>

(* rbdvbt_status_publish_idle.                                              *)
ReportIdle ==
  /\ Begins("frontend", NoReport)
  /\ UNCHANGED <<job, snapshot, last, output, files,
                 surplus, raced, programAge, shared>>

(* A job that breaks with the last one resets the stream.                   *)
WorkerReset ==
  /\ step["worker"] = "rest" /\ job = "none" /\ ForgetStream
  /\ UNCHANGED <<step, report, job, output, files, programAge, shared, reported>>

(* Mutant: a job is only reported when it is done.                          *)
ReportJobLate ==
  /\ job = "none" /\ step["worker"] = "rest" /\ job' = "decoded"
  /\ UNCHANGED <<step, report, snapshot, last, output, files, records>>

(* rbdvbt_outer_recover_ts: before the job is decoded a report with nothing *)
(* in it,                                                                  *)
ReportJob ==
  /\ job = "none" /\ job' = "decoded"
  /\ Begins("worker", NoReport)
  /\ UNCHANGED <<snapshot, last, output, files, surplus, raced, programAge, shared>>

(* and after it, one with what the job was found to hold.                   *)
ReportResult ==
  /\ job = "decoded" /\ job' = "none"
  /\ \E r \in Reports :
       /\ r.program => r.packets > 0
       /\ r.locked => r.program
       /\ Begins("worker", r)
       /\ surplus' = (IF raced THEN 0 ELSE surplus - r.packets)
       /\ programAge' = (IF r.program THEN 0 ELSE programAge)
  /\ UNCHANGED <<snapshot, last, output, files, raced, shared>>

-----------------------------------------------------------------------------
(* status_write_json.                                                       *)

(* counter_delta_u32: a counter that has gone back has begun again.         *)
CounterDelta(current, before) == current - (IF current < before THEN 0 ELSE before)

(* live_ts_session_note works out how many packets are new ...              *)
NoteSession(t) ==
  /\ Goes(t, "count", "snapshot")
  /\ last' = report[t].packets
  /\ raced' = (raced \/ step[Other(t)] = "snapshot")
  /\ surplus' = (IF raced' THEN 0 ELSE surplus + CounterDelta(report[t].packets, last))
  /\ UNCHANGED <<report, job, snapshot, output, files, programAge, shared, reported>>

(* A report without any data leaves the snapshot alone, and one without a   *)
(* program leaves one with a program.                                       *)
KeepsSnapshot(r) == r.packets = 0 \/ (snapshot.program /\ ~r.program)

(* ... and live_status_snapshot_update keeps what is worth showing again.   *)
UpdateSnapshot(t) ==
  /\ Goes(t, "snapshot", "show")
  /\ IF KeepsSnapshot(report[t]) THEN UNCHANGED snapshot
     ELSE snapshot' = [valid |-> TRUE, program |-> report[t].program, age |-> 0]
  /\ UNCHANGED <<report, job, last, output, files, records>>

(* Mutant: a snapshot is shown however old it is.                           *)
HeldLockedForever == snapshot.valid /\ snapshot.program

HeldLocked == snapshot.valid /\ snapshot.program /\ snapshot.age <= Hold

(* status_json_write_allowed.                                               *)
WriteAllowed == ~(output.failed /\ output.wait > 0)

(* What is shown is settled, and then whether it may be written.            *)
Show(t) ==
  /\ \/ WriteAllowed /\ Goes(t, "show", "open")
        /\ report' = [report EXCEPT ![t].locked = @ \/ HeldLocked]
     \/ ~WriteAllowed /\ Ends(t, "show")
  /\ UNCHANGED <<job, snapshot, last, output, files, records>>

NoteFailure == output' = [failed |-> TRUE, wait |-> Retry]
NoteSuccess == output' = NoFailure

(* A thread has opened the temporary file and not renamed it yet.           *)
Writing(t) == step[t] \in {"close", "rename"}

(* fopen(tmp_path, "w") empties the file of that name, or creates one.      *)
Open(t) ==
  /\ Goes(t, "open", "close")
  /\ disk' = [disk EXCEPT !.tmp = Empty]
  /\ stream' = [stream EXCEPT ![t] = "tmp"]
  /\ shared' = (IF Writing(Other(t)) THEN shared \cup {"tmp"} ELSE shared \ {"tmp"})
  /\ UNCHANGED <<report, job, snapshot, last, output, fileAge, faults,
                 surplus, raced, programAge, reported>>

Fault == faults < MaxFaults /\ faults' = faults + 1

(* Mutant: a file that cannot be opened is tried again at once.             *)
OpenFailsUnnoticed(t) ==
  /\ Ends(t, "open") /\ Fault
  /\ UNCHANGED <<job, snapshot, last, output, disk, stream, fileAge, records>>

OpenFails(t) ==
  /\ Ends(t, "open") /\ Fault /\ NoteFailure
  /\ UNCHANGED <<job, snapshot, last, disk, stream, fileAge, records>>

(* What is written reaches the file by the name it has by now, if any.      *)
Written(t, d) ==
  /\ disk' = (IF stream[t] = "gone" THEN disk ELSE [disk EXCEPT ![stream[t]] = d])
  /\ stream' = [stream EXCEPT ![t] = "none"]

(* The report is in the stream's buffer until fclose writes it.  Over what  *)
(* the other thread has written, a shorter one leaves the rest of that.     *)
Close(t) ==
  /\ Goes(t, "close", "rename")
  /\ \/ Written(t, Whole(report[t]))
     \/ stream[t] # "gone" /\ disk[stream[t]] # Empty /\ Written(t, Broken)
  /\ fileAge' = (IF stream[t] = "path" THEN 0 ELSE fileAge)
  /\ UNCHANGED <<report, job, snapshot, last, output, faults, records>>

(* Mutant: a report that could not be written is published all the same.    *)
CloseFailsUnnoticed(t) ==
  /\ Goes(t, "close", "rename") /\ Fault
  /\ Written(t, Broken)
  /\ UNCHANGED <<report, job, snapshot, last, output, fileAge, records>>

(* A report that could not be written stays behind.                         *)
CloseFails(t) ==
  /\ Ends(t, "close") /\ Fault /\ NoteFailure
  /\ Written(t, Broken)
  /\ UNCHANGED <<job, snapshot, last, fileAge, records>>

(* A stream stays with its file, whatever becomes of the name.              *)
Renamed(from, to) ==
  stream' = [t \in Threads |-> IF stream[t] = to THEN "gone"
                               ELSE IF stream[t] = from THEN to ELSE stream[t]]

Rename(t) ==
  /\ Ends(t, "rename") /\ disk.tmp # Absent
  /\ disk' = [disk EXCEPT !.path = disk.tmp, !.tmp = Absent] /\ fileAge' = 0
  /\ Renamed("tmp", "path")
  /\ shared' = (IF "tmp" \in shared THEN {"path"} ELSE {})
  /\ NoteSuccess
  /\ UNCHANGED <<job, snapshot, last, faults, surplus, raced, programAge, reported>>

(* The other thread has renamed the temporary file, or the system refuses;  *)
(* whatever has that name by now is removed.                                *)
RenameFails(t) ==
  /\ Ends(t, "rename") /\ NoteFailure
  /\ \/ disk.tmp = Absent /\ UNCHANGED faults
     \/ Fault
  /\ disk' = [disk EXCEPT !.tmp = Absent]
  /\ Renamed("tmp", "gone")
  /\ UNCHANGED <<job, snapshot, last, fileAge, records>>

ReportNext ==
  \/ FrontendReset \/ ReportIdle
  \/ WorkerReset \/ ReportJob \/ ReportResult
  \/ \E t \in Threads :
       \/ NoteSession(t) \/ UpdateSnapshot(t) \/ Show(t)
       \/ Open(t) \/ OpenFails(t) \/ Close(t) \/ CloseFails(t)
       \/ Rename(t) \/ RenameFails(t)

(* The receiver is killed wherever it is, and a new one started: the files  *)
(* stay as they are.                                                        *)
Restart ==
  /\ step' = AtRest /\ report' = [t \in Threads |-> NoReport] /\ job' = "none"
  /\ snapshot' = NoSnapshot /\ last' = 0 /\ output' = NoFailure
  /\ stream' = [t \in Threads |-> "none"]
  /\ surplus' = 0 /\ raced' = FALSE /\ reported' = FALSE
  /\ UNCHANGED <<disk, fileAge, faults, programAge, shared>>

StatusNext == Tick \/ ReportNext \/ Restart

StatusSpec == StatusInit /\ [][StatusNext]_statusVars

-----------------------------------------------------------------------------
(* The file of the reports is never found without a whole report in it.     *)
NeverHalfWritten == disk.path.holds \in {"no file", "report"}

(* That holds of every file only one thread at a time has written to,       *)
(* whatever fails and whenever the receiver dies.                           *)
WholeUnlessShared == "path" \in shared \/ NeverHalfWritten

(* Idle reports, resets and the two reports of a job may come in any order: *)
(* the session counts every packet of its jobs once, unless both threads    *)
(* were counting at once.                                                   *)
SessionCountsJobs ==
  step["worker"] # "count" /\ ~raced => surplus = 0

(* No report shows a lock that no job with a program has earned within the  *)
(* hold time.                                                               *)
LockShownIsEarned ==
  disk.path.locked /\ fileAge < MaxAge => programAge <= fileAge + Hold

(* The threads' steps do to the file what its readers may rely on: no       *)
(* report is lost without a back-off, which ends Retry seconds later.       *)
Readers == INSTANCE StatusFile WITH
  file <- CASE disk.path.holds = "no file" -> "none"
            [] disk.path.holds \in {"nothing", "parts"} -> "parts"
            [] disk.path.holds = "report" ->
                 IF disk.path.locked THEN "locked" ELSE "no lock",
  wait <- output.wait

FileImplements == Readers!Spec
=============================================================================
