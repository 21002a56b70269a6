----------------------------- MODULE StatusProofs -----------------------------
(***************************************************************************)
(* For every hold, retry and age, and whatever fails: the status file is   *)
(* whole unless two threads wrote to it at once, shows only a lock a job   *)
(* has earned, and is what StatusFile says of it; the session counts every *)
(* packet of the jobs once.                                                *)
(***************************************************************************)
EXTENDS Status, TLAPS

(* What is assumed of the constants.                                        *)
LEMMA Constants ==
  /\ Hold \in Nat /\ Retry \in Nat /\ MaxAge \in Nat /\ MaxFaults \in Nat
  /\ Retry > 0 /\ Hold < MaxAge /\ Retry < MaxAge
BY StatusAssumption DEF StatusAssumption

(* There are two threads.                                                   *)
LEMMA OtherThread ==
  ASSUME NEW t \in Threads
  PROVE  /\ Other(t) \in Threads /\ Other(t) # t
         /\ \A u \in Threads : u = t \/ u = Other(t)
BY DEF Threads, Other

(* An age grows by one until it no longer matters.                          *)
LEMMA OlderIsAge ==
  ASSUME NEW age \in Ages
  PROVE  /\ Older(age) \in Ages /\ Older(age) >= age
         /\ Older(age) < MaxAge => Older(age) = age + 1
BY Constants DEF Ages, Older

-----------------------------------------------------------------------------
(* Types.                                                                   *)

Found == {Absent, Empty, Broken} \cup [holds: {"report"}, locked: BOOLEAN]
Streams == {"none", "path", "tmp", "gone"}

StatusTypes ==
  /\ step \in [Threads -> Stages] /\ report \in [Threads -> Reports]
  /\ job \in {"none", "decoded"} /\ last \in 0 .. 1
  /\ snapshot \in [valid: BOOLEAN, program: BOOLEAN, age: Ages]
  /\ output \in [failed: BOOLEAN, wait: 0 .. Retry]
  /\ disk \in [Names -> Found] /\ stream \in [Threads -> Streams]
  /\ fileAge \in Ages /\ programAge \in Ages /\ faults \in 0 .. MaxFaults
  /\ surplus \in Int /\ raced \in BOOLEAN /\ reported \in BOOLEAN
  /\ shared \in SUBSET Names

(* The types of the records the steps are made of.                          *)
LEMMA Literals ==
  /\ NoReport \in Reports /\ AtRest \in [Threads -> Stages]
  /\ [t \in Threads |-> NoReport] \in [Threads -> Reports]
  /\ NoSnapshot \in [valid: BOOLEAN, program: BOOLEAN, age: Ages]
  /\ NoFailure \in [failed: BOOLEAN, wait: 0 .. Retry]
  /\ [failed |-> TRUE, wait |-> Retry] \in [failed: BOOLEAN, wait: 0 .. Retry]
  /\ \A r \in Reports : Whole(r) \in Found
  /\ "tmp" \in Names /\ "path" \in Names /\ MaxAge \in Ages /\ 0 \in Ages
BY Constants
DEF NoReport, Reports, AtRest, Stages, NoSnapshot, NoFailure, Ages, Found, Whole, Names

(* The types hold at the start.                                             *)
LEMMA InitTypes == StatusInit => StatusTypes
<1> SUFFICES ASSUME StatusInit PROVE StatusTypes
  OBVIOUS
<1>1. disk \in [Names -> Found] /\ stream \in [Threads -> Streams]
  BY DEF StatusInit, Found, Streams
<1>2. snapshot \in [valid: BOOLEAN, program: BOOLEAN, age: Ages]
      /\ output \in [failed: BOOLEAN, wait: 0 .. Retry]
  BY Literals DEF StatusInit
<1>3. step \in [Threads -> Stages] /\ report \in [Threads -> Reports]
  BY Literals DEF StatusInit
<1>4. fileAge \in Ages /\ programAge \in Ages /\ faults \in 0 .. MaxFaults
  BY Literals, Constants DEF StatusInit
<1>5. /\ job = "none" /\ last = 0 /\ surplus = 0 /\ raced \in BOOLEAN
      /\ reported \in BOOLEAN /\ shared \in SUBSET Names
  BY DEF StatusInit
<1> QED
  BY <1>1, <1>2, <1>3, <1>4, <1>5 DEF StatusTypes

(* A thread that goes on keeps its report, unless it is done with it.       *)
LEMMA GoesTypes ==
  ASSUME StatusTypes, NEW t \in Threads, NEW from \in Stages, NEW to \in Stages, Goes(t, from, to)
  PROVE  step' \in [Threads -> Stages]
BY DEF StatusTypes, Goes

(* A report that ends keeps the types,                                      *)
LEMMA EndsTypes ==
  ASSUME StatusTypes, NEW t \in Threads, NEW from \in Stages, Ends(t, from)
  PROVE  step' \in [Threads -> Stages] /\ report' \in [Threads -> Reports]
BY Literals DEF StatusTypes, Goes, Ends, Stages

(* one that begins does,                                                    *)
LEMMA BeginsTypes ==
  ASSUME StatusTypes, NEW t \in Threads, NEW r \in Reports, Begins(t, r)
  PROVE  /\ step' \in [Threads -> Stages] /\ report' \in [Threads -> Reports]
         /\ reported' \in BOOLEAN
BY DEF StatusTypes, Goes, Begins, Stages

(* one that has been written,                                               *)
LEMMA WrittenTypes ==
  ASSUME StatusTypes, NEW t \in Threads, NEW d \in Found, Written(t, d)
  PROVE  disk' \in [Names -> Found] /\ stream' \in [Threads -> Streams]
BY DEF StatusTypes, Written, Streams, Names

(* and one that has been renamed.                                           *)
LEMMA RenamedTypes ==
  ASSUME StatusTypes, NEW to \in Streams, Renamed("tmp", to)
  PROVE  stream' \in [Threads -> Streams]
BY DEF StatusTypes, Renamed, Streams

(* All steps together.                                                      *)
LEMMA StepTypes == StatusTypes /\ [StatusNext]_statusVars => StatusTypes'
<1> SUFFICES ASSUME StatusTypes, [StatusNext]_statusVars PROVE StatusTypes'
  OBVIOUS
<1> USE DEF receiver, files, records
<1>1. CASE Tick
  <2>1. snapshot' \in [valid: BOOLEAN, program: BOOLEAN, age: Ages]
        /\ output' \in [failed: BOOLEAN, wait: 0 .. Retry]
    BY <1>1, OlderIsAge, Constants DEF Tick, StatusTypes
  <2> QED
    BY <1>1, <2>1, OlderIsAge DEF Tick, StatusTypes
<1>2. CASE FrontendReset \/ WorkerReset
  <2>1. raced' \in BOOLEAN
    BY <1>2 DEF FrontendReset, WorkerReset, ForgetStream
  <2>2. snapshot' \in [valid: BOOLEAN, program: BOOLEAN, age: Ages] /\ last' = 0 /\ surplus' = 0
    BY <1>2, Literals DEF FrontendReset, WorkerReset, ForgetStream
  <2> QED
    BY <1>2, <2>1, <2>2 DEF FrontendReset, WorkerReset, StatusTypes
<1>3. CASE ReportIdle \/ ReportJob
  <2>1. PICK t \in Threads : Begins(t, NoReport)
    BY <1>3 DEF ReportIdle, ReportJob, Threads
  <2>2. job' \in {"none", "decoded"}
    BY <1>3 DEF ReportIdle, ReportJob, StatusTypes
  <2> QED
    BY <1>3, <2>1, <2>2, BeginsTypes, Literals DEF ReportIdle, ReportJob, StatusTypes
<1>4. CASE ReportResult
  <2>1. PICK r \in Reports :
          /\ Begins("worker", r)
          /\ surplus' = (IF raced THEN 0 ELSE surplus - r.packets)
          /\ programAge' = (IF r.program THEN 0 ELSE programAge)
    BY <1>4 DEF ReportResult
  <2>2. surplus' \in Int /\ programAge' \in Ages
    BY <2>1, Literals DEF StatusTypes, Reports
  <2> QED
    BY <1>4, <2>1, <2>2, BeginsTypes DEF ReportResult, StatusTypes, Threads
<1>5. ASSUME NEW t \in Threads, NoteSession(t) PROVE StatusTypes'
  <2>1. report[t].packets \in 0 .. 1
    BY DEF StatusTypes, Reports
  <2>2. last' \in 0 .. 1 /\ raced' \in BOOLEAN /\ surplus' \in Int
    BY <1>5, <2>1 DEF NoteSession, CounterDelta, StatusTypes
  <2> QED
    BY <1>5, <2>2, GoesTypes DEF NoteSession, StatusTypes, Stages
<1>6. ASSUME NEW t \in Threads, UpdateSnapshot(t) PROVE StatusTypes'
  <2>1. snapshot' \in [valid: BOOLEAN, program: BOOLEAN, age: Ages]
    <3>1. report[t].program \in BOOLEAN /\ 0 \in Ages
      BY Literals DEF StatusTypes, Reports
    <3>2. CASE UNCHANGED snapshot
      BY <3>2 DEF StatusTypes
    <3>3. CASE snapshot' = [valid |-> TRUE, program |-> report[t].program, age |-> 0]
      BY <3>1, <3>3
    <3> QED BY <1>6, <3>2, <3>3 DEF UpdateSnapshot
  <2> QED
    BY <1>6, <2>1, GoesTypes DEF UpdateSnapshot, StatusTypes, Stages
<1>7. ASSUME NEW t \in Threads, Show(t) PROVE StatusTypes'
  <2>1. CASE WriteAllowed /\ Goes(t, "show", "open")
             /\ report' = [report EXCEPT ![t].locked = report[t].locked \/ HeldLocked]
    <3>1. report' \in [Threads -> Reports]
      BY <2>1 DEF StatusTypes, Reports, HeldLocked
    <3> QED
      BY <1>7, <2>1, <3>1, GoesTypes DEF Show, StatusTypes, Stages
  <2>2. CASE ~WriteAllowed /\ Ends(t, "show")
    BY <1>7, <2>2, EndsTypes DEF Show, StatusTypes, Stages
  <2> QED BY <1>7, <2>1, <2>2 DEF Show
<1>8. ASSUME NEW t \in Threads, Open(t) PROVE StatusTypes'
  <2>1. disk' \in [Names -> Found] /\ stream' \in [Threads -> Streams]
    BY <1>8 DEF Open, StatusTypes, Found, Streams
  <2>2. shared' \in SUBSET Names
    BY <1>8, Literals DEF Open, StatusTypes
  <2> QED
    BY <1>8, <2>1, <2>2, GoesTypes DEF Open, StatusTypes, Stages
<1>9. ASSUME NEW t \in Threads, OpenFails(t) PROVE StatusTypes'
  BY <1>9, EndsTypes, Literals, Constants DEF OpenFails, NoteFailure, Fault, StatusTypes, Stages
<1>10. ASSUME NEW t \in Threads, Close(t) \/ CloseFails(t) PROVE StatusTypes'
  <2>1. PICK d \in Found : Written(t, d)
    BY <1>10, Literals DEF Close, CloseFails, StatusTypes, Found
  <2>2. disk' \in [Names -> Found] /\ stream' \in [Threads -> Streams]
    BY <2>1, WrittenTypes
  <2>3. CASE Close(t)
    BY <2>2, <2>3, GoesTypes, Literals DEF Close, StatusTypes, Stages
  <2>4. CASE CloseFails(t)
    BY <2>2, <2>4, EndsTypes, Literals, Constants
    DEF CloseFails, NoteFailure, Fault, StatusTypes, Stages
  <2> QED BY <1>10, <2>3, <2>4
<1>11. ASSUME NEW t \in Threads, Rename(t) \/ RenameFails(t) PROVE StatusTypes'
  <2>1. stream' \in [Threads -> Streams]
    BY <1>11, RenamedTypes DEF Rename, RenameFails, Streams
  <2>2. disk' \in [Names -> Found]
    BY <1>11 DEF Rename, RenameFails, StatusTypes, Found, Names
  <2>3. CASE Rename(t)
    BY <2>1, <2>2, <2>3, EndsTypes, Literals DEF Rename, NoteSuccess, StatusTypes, Stages
  <2>4. CASE RenameFails(t)
    BY <2>1, <2>2, <2>4, EndsTypes, Literals, Constants
    DEF RenameFails, NoteFailure, Fault, StatusTypes, Stages
  <2> QED BY <1>11, <2>3, <2>4
<1>12. CASE Restart
  <2>1. stream' \in [Threads -> Streams]
    BY <1>12 DEF Restart, Streams
  <2>2. /\ step' \in [Threads -> Stages] /\ report' \in [Threads -> Reports]
        /\ snapshot' \in [valid: BOOLEAN, program: BOOLEAN, age: Ages]
        /\ output' \in [failed: BOOLEAN, wait: 0 .. Retry]
    BY <1>12, Literals DEF Restart
  <2>3. /\ job' = "none" /\ last' = 0 /\ surplus' = 0 /\ raced' \in BOOLEAN
        /\ reported' \in BOOLEAN
        /\ UNCHANGED <<disk, fileAge, faults, programAge, shared>>
    BY <1>12 DEF Restart
  <2> QED
    BY <2>1, <2>2, <2>3 DEF StatusTypes
<1>13. CASE UNCHANGED statusVars
  BY <1>13 DEF statusVars, StatusTypes
<1> QED
  BY <1>1, <1>2, <1>3, <1>4, <1>5, <1>6, <1>7, <1>8, <1>9, <1>10, <1>11, <1>12, <1>13
  DEF StatusNext, ReportNext

(* The types hold in every reachable state.                                 *)
LEMMA StatusTypeInvariant == StatusSpec => []StatusTypes
BY InitTypes, StepTypes, PTL DEF StatusSpec

-----------------------------------------------------------------------------
(* Who writes to which file.                                                *)

(* Both threads write only to a temporary file known to be shared; who      *)
(* writes to the file of the reports does so because it was; and the        *)
(* temporary file of one thread alone is empty until that closes it, and    *)
(* whole or gone when that renames it.                                      *)
FilesApart ==
  /\ \A t \in Threads : stream[t] # "none" <=> step[t] = "close"
  /\ (\A t \in Threads : Writing(t)) => "tmp" \in shared
  /\ \A t \in Threads : stream[t] = "path" => "path" \in shared
  /\ "tmp" \notin shared =>
       \A t \in Threads :
         /\ step[t] = "close" => disk.tmp = (IF stream[t] = "tmp" THEN Empty ELSE Absent)
         /\ step[t] = "rename" => disk.tmp = Absent \/ disk.tmp.holds = "report"
  /\ WholeUnlessShared

(* The invariant holds at the start.                                        *)
LEMMA FilesInit == StatusInit => FilesApart
<1> SUFFICES ASSUME StatusInit PROVE FilesApart
  OBVIOUS
<1>1. \A t \in Threads : step[t] = "rest" /\ stream[t] = "none"
  BY DEF StatusInit, AtRest
<1>2. disk.path.holds = "no file" /\ "worker" \in Threads
  BY DEF StatusInit, Names, Absent, Threads
<1> QED
  BY <1>1, <1>2 DEF FilesApart, Writing, WholeUnlessShared, NeverHalfWritten

(* A step that is not about files, of whichever thread.                     *)
LEMMA QuietStep ==
  ASSUME FilesApart, UNCHANGED <<disk, stream, shared>>,
         \A t \in Threads : \/ step'[t] = step[t]
                            \/ {step[t], step'[t]} \cap {"close", "rename"} = {}
  PROVE  FilesApart'
<1>1. \A t \in Threads : /\ step'[t] = "close" <=> step[t] = "close"
                         /\ step'[t] = "rename" <=> step[t] = "rename"
  OBVIOUS
<1> QED
  BY <1>1 DEF FilesApart, Writing, WholeUnlessShared, NeverHalfWritten

(* Opening the temporary file while the other thread has it open is noted   *)
(* as sharing.                                                              *)
LEMMA OpenApart ==
  ASSUME StatusTypes, FilesApart, NEW t \in Threads, Open(t)
  PROVE  FilesApart'
<1> DEFINE u == Other(t)
<1>1. u \in Threads /\ u # t /\ \A v \in Threads : v = t \/ v = u
  BY OtherThread
<1> HIDE DEF u
<1>2. /\ step[t] = "open" /\ step'[t] = "close" /\ step'[u] = step[u]
      /\ stream'[t] = "tmp" /\ stream'[u] = stream[u]
      /\ disk'.tmp = Empty /\ disk'.path = disk.path
      /\ shared' = (IF Writing(u) THEN shared \cup {"tmp"} ELSE shared \ {"tmp"})
  BY <1>1 DEF Open, Goes, StatusTypes, Names, u
<1>3. "path" \in shared' <=> "path" \in shared
  BY <1>2
<1>4. CASE Writing(u)
  BY <1>1, <1>2, <1>3, <1>4 DEF FilesApart, Writing, WholeUnlessShared, NeverHalfWritten
<1>5. CASE ~Writing(u)
  BY <1>1, <1>2, <1>3, <1>5 DEF FilesApart, Writing, WholeUnlessShared, NeverHalfWritten
<1> QED BY <1>4, <1>5

(* What a thread that has its file open writes, and then does.              *)
LEMMA WrittenApart ==
  ASSUME StatusTypes, FilesApart, NEW t \in Threads, NEW d \in Found, Written(t, d),
         step[t] = "close", UNCHANGED shared,
         \/ /\ step' = [step EXCEPT ![t] = "rename"]
            /\ d.holds = "report" \/ (stream[t] # "gone" /\ disk[stream[t]] # Empty)
         \/ step' = [step EXCEPT ![t] = "rest"]
  PROVE  FilesApart'
<1> DEFINE u == Other(t)
<1>1. u \in Threads /\ u # t /\ \A v \in Threads : v = t \/ v = u
  BY OtherThread
<1> HIDE DEF u
<1>2. step'[u] = step[u] /\ step'[t] \in {"rename", "rest"}
  BY <1>1 DEF StatusTypes
<1>3. stream'[t] = "none" /\ stream'[u] = stream[u] /\ stream[t] \in {"path", "tmp", "gone"}
  BY <1>1 DEF Written, StatusTypes, FilesApart, Streams
<1>4. /\ stream[t] # "tmp" => disk'.tmp = disk.tmp
      /\ stream[t] = "tmp" => disk'.tmp = d
      /\ stream[t] # "path" => disk'.path = disk.path
  BY <1>3 DEF Written, StatusTypes, Names
<1>5. WholeUnlessShared'
  BY <1>3, <1>4 DEF FilesApart, WholeUnlessShared, NeverHalfWritten
<1>6. (\A v \in Threads : Writing(v)') => "tmp" \in shared'
  BY <1>1, <1>2 DEF FilesApart, Writing
<1>7. ASSUME "tmp" \notin shared', NEW v \in Threads
      PROVE  /\ step'[v] = "close" => disk'.tmp = (IF stream'[v] = "tmp" THEN Empty ELSE Absent)
             /\ step'[v] = "rename" => disk'.tmp = Absent \/ disk'.tmp.holds = "report"
  <2>1. ~Writing(u)
    BY <1>1, <1>7 DEF FilesApart, Writing
  <2>2. disk.tmp = (IF stream[t] = "tmp" THEN Empty ELSE Absent)
    BY <1>7 DEF FilesApart
  <2>3. step'[t] = "rename" => disk'.tmp = Absent \/ disk'.tmp.holds = "report"
    BY <1>3, <1>4, <2>2 DEF StatusTypes
  <2> QED
    BY <1>1, <1>2, <2>1, <2>3 DEF Writing
<1>8. \A v \in Threads : /\ stream'[v] # "none" <=> step'[v] = "close"
                         /\ stream'[v] = "path" => "path" \in shared'
  BY <1>1, <1>2, <1>3 DEF FilesApart
<1> QED BY <1>5, <1>6, <1>7, <1>8 DEF FilesApart

(* What is renamed is whole unless it was shared.                           *)
LEMMA RenameApart ==
  ASSUME StatusTypes, FilesApart, NEW t \in Threads, Rename(t)
  PROVE  FilesApart'
<1> DEFINE u == Other(t)
<1>1. u \in Threads /\ u # t /\ \A v \in Threads : v = t \/ v = u
  BY OtherThread
<1> HIDE DEF u
<1>2. /\ step[t] = "rename" /\ step'[t] = "rest" /\ step'[u] = step[u]
      /\ disk.tmp # Absent /\ disk'.tmp = Absent /\ disk'.path = disk.tmp
      /\ shared' = (IF "tmp" \in shared THEN {"path"} ELSE {})
  BY <1>1 DEF Rename, Ends, Goes, StatusTypes, Names
<1>3. /\ stream[t] = "none" /\ stream'[t] = "none"
      /\ stream[u] = "none" => stream'[u] = "none"
      /\ stream[u] # "none" => stream'[u] # "none"
      /\ stream'[u] # "tmp"
      /\ stream'[u] = "path" => stream[u] = "tmp"
  BY <1>1, <1>2 DEF Rename, Renamed, FilesApart, StatusTypes, Streams
<1>4. stream'[u] = "path" => "path" \in shared'
  BY <1>1, <1>2, <1>3 DEF FilesApart, Writing
<1>5. \A v \in Threads : stream'[v] # "none" <=> step'[v] = "close"
  BY <1>1, <1>2, <1>3 DEF FilesApart
<1>6. WholeUnlessShared'
  BY <1>2 DEF FilesApart, WholeUnlessShared, NeverHalfWritten
<1>7. ~Writing(t)' /\ \A v \in Threads : stream'[v] # "tmp"
  BY <1>1, <1>2, <1>3 DEF Writing
<1> QED BY <1>1, <1>2, <1>3, <1>4, <1>5, <1>6, <1>7 DEF FilesApart

(* A rename that fails leaves the readers' file as it was.                  *)
LEMMA RenameFailsApart ==
  ASSUME StatusTypes, FilesApart, NEW t \in Threads, RenameFails(t)
  PROVE  FilesApart'
<1> DEFINE u == Other(t)
<1>1. u \in Threads /\ u # t /\ \A v \in Threads : v = t \/ v = u
  BY OtherThread
<1> HIDE DEF u
<1>2. /\ step[t] = "rename" /\ step'[t] = "rest" /\ step'[u] = step[u]
      /\ disk'.tmp = Absent /\ disk'.path = disk.path /\ shared' = shared
  BY <1>1 DEF RenameFails, Ends, Goes, StatusTypes, Names, records
<1>3. /\ stream[t] = "none" /\ stream'[t] = "none"
      /\ stream[u] = "none" => stream'[u] = "none"
      /\ stream[u] # "none" => stream'[u] # "none"
      /\ stream'[u] # "tmp"
      /\ stream'[u] = "path" => stream[u] = "path"
  BY <1>1, <1>2 DEF RenameFails, Renamed, FilesApart, StatusTypes, Streams
<1>4. \A v \in Threads : /\ stream'[v] # "none" <=> step'[v] = "close"
                         /\ stream'[v] = "path" => "path" \in shared'
                         /\ stream'[v] # "tmp"
  BY <1>1, <1>2, <1>3 DEF FilesApart
<1>5. WholeUnlessShared'
  BY <1>2 DEF FilesApart, WholeUnlessShared, NeverHalfWritten
<1>6. ~Writing(t)'
  BY <1>2 DEF Writing
<1> QED BY <1>1, <1>2, <1>4, <1>5, <1>6 DEF FilesApart

(* All steps together.                                                      *)
LEMMA StepApart == StatusTypes /\ FilesApart /\ [StatusNext]_statusVars => FilesApart'
<1> SUFFICES ASSUME StatusTypes, FilesApart, [StatusNext]_statusVars PROVE FilesApart'
  OBVIOUS
<1> USE DEF receiver, files, records
<1>1. CASE Tick \/ FrontendReset \/ WorkerReset \/ UNCHANGED statusVars
  BY <1>1, QuietStep DEF Tick, FrontendReset, WorkerReset, statusVars
<1>2. CASE ReportIdle \/ ReportJob \/ ReportResult
  <2>1. PICK t \in Threads : step[t] = "rest" /\ step' = [step EXCEPT ![t] = "count"]
    BY <1>2 DEF ReportIdle, ReportJob, ReportResult, Begins, Goes, Threads
  <2>2. \A v \in Threads : \/ step'[v] = step[v]
                           \/ {step[v], step'[v]} \cap {"close", "rename"} = {}
    BY <2>1 DEF StatusTypes
  <2> QED
    BY <1>2, <2>2, QuietStep DEF ReportIdle, ReportJob, ReportResult
<1>3. ASSUME NEW t \in Threads, NoteSession(t) \/ UpdateSnapshot(t) \/ Show(t) \/ OpenFails(t)
      PROVE  FilesApart'
  <2>1. \A v \in Threads : \/ step'[v] = step[v]
                           \/ {step[v], step'[v]} \cap {"close", "rename"} = {}
    BY <1>3 DEF NoteSession, UpdateSnapshot, Show, OpenFails, Goes, Ends, StatusTypes
  <2> QED
    BY <1>3, <2>1, QuietStep DEF NoteSession, UpdateSnapshot, Show, OpenFails
<1>4. ASSUME NEW t \in Threads, Close(t) PROVE FilesApart'
  <2>1. step[t] = "close" /\ step' = [step EXCEPT ![t] = "rename"] /\ shared' = shared
    BY <1>4 DEF Close, Goes
  <2>2. Whole(report[t]) \in Found /\ Whole(report[t]).holds = "report" /\ Broken \in Found
    BY Literals DEF StatusTypes, Whole, Found
  <2>3. CASE Written(t, Whole(report[t]))
    BY <2>1, <2>2, <2>3, WrittenApart
  <2>4. CASE stream[t] # "gone" /\ disk[stream[t]] # Empty /\ Written(t, Broken)
    BY <2>1, <2>2, <2>4, WrittenApart
  <2> QED BY <1>4, <2>3, <2>4 DEF Close
<1>5. ASSUME NEW t \in Threads, CloseFails(t) PROVE FilesApart'
  <2>1. Broken \in Found
    BY DEF Found
  <2> QED
    BY <1>5, <2>1, WrittenApart DEF CloseFails, Ends, Goes
<1>6. CASE Restart
  <2>1. \A v \in Threads : step'[v] = "rest" /\ stream'[v] = "none"
    BY <1>6 DEF Restart, AtRest
  <2>2. disk' = disk /\ shared' = shared /\ "worker" \in Threads
    BY <1>6 DEF Restart, Threads
  <2> QED
    BY <2>1, <2>2 DEF FilesApart, Writing, WholeUnlessShared, NeverHalfWritten
<1> QED
  BY <1>1, <1>2, <1>3, <1>4, <1>5, <1>6, OpenApart, RenameApart, RenameFailsApart
  DEF StatusNext, ReportNext

(* However the threads' writes, renames and failures interleave, and        *)
(* whenever the receiver dies, the file of the reports holds a whole report *)
(* unless both threads have written to it at once.                          *)
THEOREM FileIsWhole == StatusSpec => []WholeUnlessShared
<1>1. FilesApart => WholeUnlessShared
  BY DEF FilesApart
<1> QED
  BY <1>1, StatusTypeInvariant, FilesInit, StepApart, PTL DEF StatusSpec

-----------------------------------------------------------------------------
(* The packets of the session.                                              *)

(* Only the second report of a job has packets, and whoever counted before  *)
(* it left last at zero, so that it is counted whole.                       *)
SessionKept ==
  /\ report["frontend"].packets = 0 /\ (job = "decoded" => report["worker"].packets = 0)
  /\ job = "decoded" /\ step["worker"] # "count" => last = 0
  /\ job = "none" /\ step["worker"] = "count" => last = 0
  /\ ~raced => surplus = IF step["worker"] = "count" THEN 0 - report["worker"].packets ELSE 0

(* The invariant holds at the start.                                        *)
LEMMA SessionInit == StatusInit => SessionKept
BY DEF StatusInit, SessionKept, NoReport, AtRest, Threads

(* A step that counts nothing and begins no report.                         *)
LEMMA NothingCounted ==
  ASSUME StatusTypes, SessionKept, UNCHANGED <<job, last, surplus, raced>>,
         step'["worker"] = "count" <=> step["worker"] = "count",
         \A t \in Threads : report'[t].packets \in {0, report[t].packets},
         step["worker"] = "count" => report'["worker"] = report["worker"]
  PROVE  SessionKept'
BY DEF SessionKept, StatusTypes, Threads, Reports

(* The difference to the last count is added once, unless both threads were *)
(* counting.                                                                *)
LEMMA NoteSessionCounts ==
  ASSUME StatusTypes, SessionKept, NEW t \in Threads, NoteSession(t)
  PROVE  SessionKept'
<1>1. /\ step[t] = "count" /\ step'[t] = "snapshot" /\ UNCHANGED <<report, job>>
      /\ \A u \in Threads : u # t => step'[u] = step[u]
      /\ last' = report[t].packets
  BY DEF NoteSession, Goes, StatusTypes
<1>2. /\ ~raced' => ~raced
      /\ ~raced' => surplus' = surplus + CounterDelta(report[t].packets, last)
  BY DEF NoteSession
<1>3. report[t].packets \in 0 .. 1 /\ last \in 0 .. 1
  BY DEF StatusTypes, Reports
<1>4. CASE t = "frontend"
  <2>1. CounterDelta(report[t].packets, last) = 0 /\ last' = 0
    BY <1>1, <1>3, <1>4 DEF CounterDelta, SessionKept
  <2>2. step'["worker"] = step["worker"]
    BY <1>1, <1>4 DEF Threads
  <2>3. ~raced' => surplus' = surplus
    BY <1>2, <2>1 DEF StatusTypes
  <2> QED
    BY <1>1, <1>2, <2>1, <2>2, <2>3 DEF SessionKept
<1>5. CASE t = "worker"
  <2>1. CounterDelta(report["worker"].packets, last) = report["worker"].packets
    BY <1>1, <1>3, <1>5 DEF CounterDelta, SessionKept, StatusTypes
  <2>2. ~raced' => surplus' = 0
    BY <1>1, <1>2, <1>3, <1>5, <2>1 DEF SessionKept
  <2> QED
    BY <1>1, <1>5, <2>2 DEF SessionKept
<1> QED BY <1>4, <1>5 DEF Threads

(* All steps together.                                                      *)
LEMMA StepCounts == StatusTypes /\ SessionKept /\ [StatusNext]_statusVars => SessionKept'
<1> SUFFICES ASSUME StatusTypes, SessionKept, [StatusNext]_statusVars PROVE SessionKept'
  OBVIOUS
<1> USE DEF receiver, files, records
<1>1. CASE Tick \/ UNCHANGED statusVars
  BY <1>1, NothingCounted DEF Tick, statusVars
<1>2. CASE FrontendReset \/ WorkerReset
  <2>1. /\ UNCHANGED <<step, report, job>> /\ last' = 0 /\ surplus' = 0
        /\ ~raced' => step["worker"] # "count"
    BY <1>2 DEF FrontendReset, WorkerReset, ForgetStream, Threads
  <2> QED
    BY <2>1 DEF SessionKept
<1>3. CASE ReportIdle
  <2>1. /\ step'["worker"] = step["worker"] /\ report'["worker"] = report["worker"]
        /\ report'["frontend"].packets = 0
        /\ UNCHANGED <<job, last, surplus, raced>>
    BY <1>3 DEF ReportIdle, Begins, Goes, StatusTypes, Threads, NoReport
  <2> QED
    BY <2>1 DEF SessionKept
<1>4. CASE ReportJob
  <2>1. /\ step["worker"] = "rest" /\ step'["worker"] = "count"
        /\ report'["worker"].packets = 0 /\ report'["frontend"] = report["frontend"]
        /\ job' = "decoded" /\ UNCHANGED <<last, surplus, raced>>
    BY <1>4 DEF ReportJob, Begins, Goes, StatusTypes, Threads, NoReport
  <2> QED
    BY <2>1 DEF SessionKept
<1>5. CASE ReportResult
  <2>1. PICK r \in Reports :
          Begins("worker", r) /\ surplus' = (IF raced THEN 0 ELSE surplus - r.packets)
    BY <1>5 DEF ReportResult
  <2>2. /\ step["worker"] = "rest" /\ step'["worker"] = "count"
        /\ report'["worker"] = r /\ report'["frontend"] = report["frontend"]
        /\ job = "decoded" /\ job' = "none" /\ UNCHANGED <<last, raced>>
    BY <1>5, <2>1 DEF ReportResult, Begins, Goes, StatusTypes, Threads
  <2>3. last = 0 /\ (~raced => surplus = 0) /\ r.packets \in 0 .. 1
    BY <2>2 DEF SessionKept, Reports
  <2> QED
    BY <2>1, <2>2, <2>3 DEF SessionKept
<1>6. ASSUME NEW t \in Threads,
             \/ UpdateSnapshot(t) \/ Show(t)
             \/ Open(t) \/ OpenFails(t) \/ Close(t) \/ CloseFails(t)
             \/ Rename(t) \/ RenameFails(t)
      PROVE  SessionKept'
  <2>1. UNCHANGED <<job, last, surplus, raced>>
    BY <1>6
    DEF UpdateSnapshot, Show, Open, OpenFails, Close, CloseFails, Rename, RenameFails
  <2>2. /\ step[t] # "count" /\ step'[t] # "count"
        /\ \A u \in Threads : u # t => step'[u] = step[u]
    BY <1>6
    DEF UpdateSnapshot, Show, Open, OpenFails, Close, CloseFails, Rename, RenameFails, Goes,
        Ends, StatusTypes
  <2>3. \A u \in Threads : /\ u # t => report'[u] = report[u]
                           /\ report'[u].packets \in {0, report[u].packets}
    BY <1>6
    DEF UpdateSnapshot, Show, Open, OpenFails, Close, CloseFails, Rename, RenameFails, Ends,
        StatusTypes, NoReport, Reports
  <2> QED
    BY <2>1, <2>2, <2>3, NothingCounted DEF Threads
<1>7. CASE Restart
  <2>1. /\ step'["worker"] = "rest" /\ job' = "none" /\ surplus' = 0
        /\ report'["worker"].packets = 0 /\ report'["frontend"].packets = 0
    BY <1>7 DEF Restart, AtRest, NoReport, Threads
  <2> QED
    BY <2>1 DEF SessionKept
<1> QED
  BY <1>1, <1>2, <1>3, <1>4, <1>5, <1>6, <1>7, NoteSessionCounts DEF StatusNext, ReportNext

(* Idle reports, resets and the two reports of a job may interleave as they *)
(* will: unless both threads count at once, live_ts_session has every       *)
(* packet of its jobs once.                                                 *)
THEOREM SessionIsExact == StatusSpec => []SessionCountsJobs
<1>1. SessionKept => SessionCountsJobs
  BY DEF SessionKept, SessionCountsJobs
<1> QED
  BY <1>1, StatusTypeInvariant, SessionInit, StepCounts, PTL DEF StatusSpec

-----------------------------------------------------------------------------
(* The lock that is shown.                                                  *)

(* A report with a program was begun in the second of its job; what has     *)
(* lock in a report, the snapshot or the files comes from such a one.       *)
LockEarned ==
  /\ \A t \in Threads : /\ report[t].program => programAge = 0
                        /\ report[t].locked => programAge <= Hold
                        /\ step[t] = "rest" => report[t] = NoReport
                        /\ Writing(t) /\ disk.tmp.locked => programAge <= Hold
  /\ snapshot.program => programAge <= snapshot.age
  /\ LockShownIsEarned

(* The invariant holds at the start.                                        *)
LEMMA LockInit == StatusInit => LockEarned
<1> SUFFICES ASSUME StatusInit PROVE LockEarned
  OBVIOUS
<1>1. \A t \in Threads : /\ step[t] = "rest" /\ report[t] = NoReport
                         /\ ~NoReport.program /\ ~NoReport.locked
  BY DEF StatusInit, AtRest, NoReport
<1>2. ~disk.path.locked /\ ~snapshot.program
  BY DEF StatusInit, NoSnapshot, Names, Absent
<1> QED
  BY <1>1, <1>2 DEF LockEarned, LockShownIsEarned, Writing

(* The ranges of what the invariant of the lock speaks of.                  *)
LEMMA Ranges ==
  ASSUME StatusTypes
  PROVE  /\ fileAge \in Nat /\ fileAge <= MaxAge /\ programAge \in Nat
         /\ snapshot.age \in Nat /\ snapshot.program \in BOOLEAN
         /\ \A t \in Threads : report[t].program \in BOOLEAN /\ report[t].locked \in BOOLEAN
         /\ disk.path \in Found /\ disk.tmp \in Found
         /\ \A d \in Found : d.locked \in BOOLEAN /\ (d.locked => d.holds = "report")
<1>1. /\ fileAge \in Nat /\ fileAge <= MaxAge /\ programAge \in Nat
      /\ snapshot.age \in Nat /\ snapshot.program \in BOOLEAN
  BY Constants DEF StatusTypes, Ages
<1>2. \A t \in Threads : report[t].program \in BOOLEAN /\ report[t].locked \in BOOLEAN
  BY DEF StatusTypes, Reports
<1>3. disk.path \in Found /\ disk.tmp \in Found
  BY DEF StatusTypes, Names
<1>4. \A d \in Found : d.locked \in BOOLEAN /\ (d.locked => d.holds = "report")
  <2>1. Absent.locked = FALSE /\ Empty.locked = FALSE /\ Broken.locked = FALSE
    BY DEF Absent, Empty, Broken
  <2>2. ASSUME NEW d \in Found PROVE d.locked \in BOOLEAN /\ (d.locked => d.holds = "report")
    <3>1. CASE d \in {Absent, Empty, Broken}
      BY <2>1, <3>1
    <3>2. CASE d \in [holds: {"report"}, locked: BOOLEAN]
      BY <3>2
    <3> QED BY <3>1, <3>2 DEF Found
  <2> QED BY <2>2
<1> QED BY <1>1, <1>2, <1>3, <1>4

(* A second passes for the jobs and for the snapshot alike.                 *)
LEMMA TickEarned == ASSUME StatusTypes, LockEarned, Tick PROVE LockEarned'
<1>1. \A t \in Threads : /\ step'[t] = "rest" /\ step[t] = "rest" /\ report'[t] = NoReport
                         /\ ~NoReport.program /\ ~NoReport.locked
  BY DEF Tick, AtRest, LockEarned, NoReport
<1>2. /\ programAge' = Older(programAge) /\ fileAge' = Older(fileAge) /\ disk' = disk
      /\ snapshot'.program = snapshot.program /\ snapshot'.age = Older(snapshot.age)
  BY DEF Tick, StatusTypes
<1>3. \A a, b \in Nat : a <= b => Older(a) <= Older(b)
  BY Constants DEF Older
<1>4. snapshot'.program => programAge' <= snapshot'.age
  BY <1>2, <1>3, Ranges DEF LockEarned
<1>5. LockShownIsEarned'
  <2> SUFFICES ASSUME disk'.path.locked, fileAge' < MaxAge PROVE programAge' <= fileAge' + Hold
    BY DEF LockShownIsEarned
  <2>1. fileAge < MaxAge /\ fileAge' = fileAge + 1 /\ programAge' <= programAge + 1
    BY <1>2, Ranges, Constants DEF Older
  <2>2. programAge' \in Nat
    BY <1>2, Ranges DEF Older
  <2> QED
    BY <1>2, <2>1, <2>2, Ranges, Constants DEF LockEarned, LockShownIsEarned
<1> QED
  BY <1>1, <1>4, <1>5 DEF LockEarned, Writing

(* What is begun with no program, or goes on showing what it showed.        *)
LEMMA NothingShown ==
  ASSUME StatusTypes, LockEarned, UNCHANGED <<disk, fileAge, programAge>>,
         snapshot'.program => snapshot.program /\ snapshot'.age = snapshot.age,
         \A t \in Threads : /\ report'[t] \in {NoReport, report[t]}
                            /\ step'[t] = "rest" => report'[t] = NoReport
                            /\ Writing(t)' => Writing(t)
  PROVE  LockEarned'
<1>1. ~NoReport.program /\ ~NoReport.locked
  BY DEF NoReport
<1> QED
  BY <1>1 DEF LockEarned, LockShownIsEarned

(* A new result shows a lock only with a program, and its job was now.      *)
LEMMA ResultEarned == ASSUME StatusTypes, LockEarned, ReportResult PROVE LockEarned'
<1>1. PICK r \in Reports :
        /\ r.locked => r.program
        /\ Begins("worker", r)
        /\ programAge' = (IF r.program THEN 0 ELSE programAge)
  BY DEF ReportResult
<1>2. /\ report'["worker"] = r /\ report'["frontend"] = report["frontend"]
      /\ step'["worker"] = "count" /\ step'["frontend"] = step["frontend"]
      /\ UNCHANGED <<snapshot, disk, fileAge>>
  BY <1>1 DEF ReportResult, Begins, Goes, StatusTypes, Threads, files
<1>3. programAge' \in Nat /\ programAge' <= programAge /\ (r.program => programAge' = 0)
  BY <1>1, Ranges
<1>4. /\ report["frontend"].program => programAge' = 0
      /\ report["frontend"].locked => programAge' <= Hold
      /\ r.locked => programAge' <= Hold
  BY <1>1, <1>3, Ranges, Constants DEF LockEarned, Threads
<1>5. snapshot'.program => programAge' <= snapshot'.age
  BY <1>2, <1>3, Ranges DEF LockEarned
<1>6. LockShownIsEarned'
  BY <1>2, <1>3, Ranges, Constants DEF LockEarned, LockShownIsEarned
<1>7. \A t \in Threads : Writing(t)' => Writing(t)
  BY <1>2 DEF Writing, Threads
<1>8. \A t \in Threads : Writing(t)' /\ disk'.tmp.locked => programAge' <= Hold
  BY <1>2, <1>3, <1>7, Ranges, Constants DEF LockEarned
<1> QED
  BY <1>1, <1>2, <1>3, <1>4, <1>5, <1>6, <1>8 DEF LockEarned, Threads

(* The snapshot is no older than the result it is taken from,               *)
LEMMA UpdateEarned ==
  ASSUME StatusTypes, LockEarned, NEW t \in Threads, UpdateSnapshot(t)
  PROVE  LockEarned'
<1>1. /\ UNCHANGED <<report, disk, fileAge, programAge>>
      /\ step'[t] = "show" /\ \A u \in Threads : u # t => step'[u] = step[u]
  BY DEF UpdateSnapshot, Goes, StatusTypes, files, records
<1>2. snapshot'.program => programAge <= snapshot'.age
  <2>1. CASE UNCHANGED snapshot
    BY <2>1 DEF LockEarned
  <2>2. CASE snapshot' = [valid |-> TRUE, program |-> report[t].program, age |-> 0]
    BY <2>2 DEF LockEarned
  <2> QED BY <2>1, <2>2 DEF UpdateSnapshot
<1>3. \A u \in Threads : step'[u] = "rest" => step[u] = "rest"
  BY <1>1
<1>4. \A u \in Threads : Writing(u)' => Writing(u)
  BY <1>1 DEF Writing
<1> QED
  BY <1>1, <1>2, <1>3, <1>4 DEF LockEarned, LockShownIsEarned

(* and a report shows its lock no longer than it holds.                     *)
LEMMA ShowEarned ==
  ASSUME StatusTypes, LockEarned, NEW t \in Threads, Show(t)
  PROVE  LockEarned'
<1>1. /\ UNCHANGED <<snapshot, disk, fileAge, programAge>>
      /\ \A u \in Threads : u # t => step'[u] = step[u] /\ report'[u] = report[u]
      /\ step'[t] \in {"open", "rest"} /\ (step'[t] = "rest" => report'[t] = NoReport)
  BY DEF Show, Goes, Ends, StatusTypes, files, records
<1>2. /\ report'[t].program => programAge = 0
      /\ report'[t].locked => programAge <= Hold
  <2>1. CASE report'[t] = NoReport
    BY <2>1 DEF NoReport
  <2>2. CASE report' = [report EXCEPT ![t].locked = report[t].locked \/ HeldLocked]
    <3>1. /\ report'[t].program = report[t].program
          /\ report'[t].locked => report[t].locked \/ HeldLocked
      BY <2>2 DEF StatusTypes, Reports
    <3>2. HeldLocked => programAge <= Hold
      BY Ranges, Constants DEF HeldLocked, LockEarned
    <3> QED
      BY <3>1, <3>2 DEF LockEarned
  <2>3. report'[t] = NoReport \/ report' = [report EXCEPT ![t].locked = report[t].locked \/ HeldLocked]
    BY DEF Show, Ends, StatusTypes
  <2> QED BY <2>1, <2>2, <2>3
<1>3. \A u \in Threads : Writing(u)' => Writing(u)
  BY <1>1 DEF Writing
<1> QED
  BY <1>1, <1>2, <1>3 DEF LockEarned, LockShownIsEarned

(* An emptied file shows no lock.                                           *)
LEMMA OpenEarned ==
  ASSUME StatusTypes, LockEarned, NEW t \in Threads, Open(t)
  PROVE  LockEarned'
<1>1. /\ UNCHANGED <<report, snapshot, fileAge, programAge>>
      /\ step'[t] = "close" /\ \A u \in Threads : u # t => step'[u] = step[u]
      /\ disk'.tmp = Empty /\ disk'.path = disk.path
  BY DEF Open, Goes, StatusTypes, Names
<1>2. ~disk'.tmp.locked
  BY <1>1 DEF Empty
<1>3. \A u \in Threads : step'[u] = "rest" => step[u] = "rest"
  BY <1>1
<1> QED
  BY <1>1, <1>2, <1>3 DEF LockEarned, LockShownIsEarned

(* A written one shows that of its report,                                  *)
LEMMA WrittenEarned ==
  ASSUME StatusTypes, FilesApart, LockEarned, NEW t \in Threads, NEW d \in Found, Written(t, d),
         d.locked => programAge <= Hold /\ fileAge' = (IF stream[t] = "path" THEN 0 ELSE fileAge),
         step[t] = "close", fileAge' \in {0, fileAge}, stream[t] # "path" => fileAge' = fileAge,
         UNCHANGED <<snapshot, programAge>>,
         \A u \in Threads : u # t => step'[u] = step[u] /\ report'[u] = report[u],
         \/ step'[t] = "rename" /\ report'[t] = report[t]
         \/ step'[t] = "rest" /\ report'[t] = NoReport
  PROVE  LockEarned'
<1>1. stream[t] \in {"path", "tmp", "gone"}
  BY DEF StatusTypes, FilesApart, Streams
<1>2. /\ stream[t] # "tmp" => disk'.tmp = disk.tmp
      /\ stream[t] = "tmp" => disk'.tmp = d
      /\ stream[t] # "path" => disk'.path = disk.path
      /\ stream[t] = "path" => disk'.path = d
  BY <1>1 DEF Written, StatusTypes, Names
<1>3. disk'.tmp.locked => programAge <= Hold
  BY <1>2 DEF LockEarned, Writing
<1>4. LockShownIsEarned'
  <2>1. CASE stream[t] = "path"
    BY <1>2, <2>1, Ranges, Constants DEF LockShownIsEarned
  <2>2. CASE stream[t] # "path"
    BY <1>2, <2>2 DEF LockEarned, LockShownIsEarned
  <2> QED BY <2>1, <2>2
<1>5. \A u \in Threads : /\ report'[u].program => programAge = 0
                         /\ report'[u].locked => programAge <= Hold
                         /\ step'[u] = "rest" => report'[u] = NoReport
  BY DEF LockEarned, NoReport
<1> QED
  BY <1>3, <1>4, <1>5 DEF LockEarned

(* and a rename, done or failed, hands on what was there.                   *)
LEMMA RenameEarned ==
  ASSUME StatusTypes, LockEarned, NEW t \in Threads, Rename(t) \/ RenameFails(t)
  PROVE  LockEarned'
<1>1. /\ step[t] = "rename" /\ step'[t] = "rest" /\ report'[t] = NoReport
      /\ \A u \in Threads : u # t => step'[u] = step[u] /\ report'[u] = report[u]
      /\ disk'.tmp = Absent /\ UNCHANGED <<snapshot, programAge>>
  BY DEF Rename, RenameFails, Ends, Goes, StatusTypes, Names, records
<1>2. ~disk'.tmp.locked
  <2>1. ~Absent.locked
    BY DEF Absent
  <2> QED BY <1>1, <2>1
<1>3. LockShownIsEarned'
  <2>1. CASE Rename(t)
    <3>1. disk'.path = disk.tmp /\ fileAge' = 0
      BY <2>1 DEF Rename, StatusTypes, Names
    <3>2. disk.tmp.locked => programAge <= Hold
      BY <1>1 DEF LockEarned, Writing
    <3> QED
      BY <1>1, <3>1, <3>2, Ranges, Constants DEF LockShownIsEarned
  <2>2. CASE RenameFails(t)
    <3>1. disk'.path = disk.path /\ fileAge' = fileAge
      BY <2>2 DEF RenameFails, StatusTypes, Names
    <3> QED
      BY <1>1, <3>1 DEF LockEarned, LockShownIsEarned
  <2> QED BY <2>1, <2>2
<1>4. \A u \in Threads : /\ report'[u].program => programAge = 0
                         /\ report'[u].locked => programAge <= Hold
                         /\ step'[u] = "rest" => report'[u] = NoReport
  BY <1>1 DEF LockEarned, NoReport
<1> QED
  BY <1>1, <1>2, <1>3, <1>4 DEF LockEarned

(* All steps together.                                                      *)
LEMMA StepEarned ==
  StatusTypes /\ FilesApart /\ LockEarned /\ [StatusNext]_statusVars => LockEarned'
<1> SUFFICES ASSUME StatusTypes, FilesApart, LockEarned, [StatusNext]_statusVars PROVE LockEarned'
  OBVIOUS
<1> USE DEF receiver, files, records
<1>1. CASE FrontendReset \/ WorkerReset
  <2>1. UNCHANGED <<disk, fileAge, programAge, step, report>> /\ snapshot' = NoSnapshot
    BY <1>1 DEF FrontendReset, WorkerReset, ForgetStream
  <2>2. ~NoSnapshot.program
    BY DEF NoSnapshot
  <2> QED
    BY <2>1, <2>2 DEF LockEarned, LockShownIsEarned, Writing
<1>2. CASE ReportIdle \/ ReportJob
  <2>1. PICK t \in Threads : Begins(t, NoReport)
    BY <1>2 DEF ReportIdle, ReportJob, Threads
  <2>2. UNCHANGED <<disk, fileAge, programAge, snapshot>>
    BY <1>2 DEF ReportIdle, ReportJob
  <2>3. \A u \in Threads : /\ report'[u] \in {NoReport, report[u]}
                           /\ step'[u] = "rest" => report'[u] = NoReport
                           /\ Writing(u)' => Writing(u)
    BY <2>1 DEF Begins, Goes, StatusTypes, Writing, LockEarned
  <2> QED
    BY <2>2, <2>3, NothingShown
<1>3. ASSUME NEW t \in Threads, NoteSession(t) \/ OpenFails(t) PROVE LockEarned'
  <2>1. UNCHANGED <<disk, fileAge, programAge, snapshot>>
    BY <1>3 DEF NoteSession, OpenFails
  <2>2. \A u \in Threads : /\ report'[u] \in {NoReport, report[u]}
                           /\ step'[u] = "rest" => report'[u] = NoReport
                           /\ Writing(u)' => Writing(u)
    BY <1>3 DEF NoteSession, OpenFails, Goes, Ends, StatusTypes, Writing, LockEarned
  <2> QED
    BY <2>1, <2>2, NothingShown
<1>4. ASSUME NEW t \in Threads, Close(t) PROVE LockEarned'
  <2>1. /\ step[t] = "close" /\ step'[t] = "rename" /\ report' = report
        /\ \A u \in Threads : u # t => step'[u] = step[u]
        /\ fileAge' = (IF stream[t] = "path" THEN 0 ELSE fileAge)
        /\ UNCHANGED <<snapshot, programAge>>
    BY <1>4 DEF Close, Goes, StatusTypes
  <2>2. PICK d \in Found : Written(t, d) /\ (d.locked => report[t].locked)
    <3>1. Whole(report[t]) \in Found /\ Whole(report[t]).locked = report[t].locked
      BY Literals DEF StatusTypes, Whole
    <3>2. Broken \in Found /\ ~Broken.locked
      BY DEF Found, Broken
    <3> QED BY <1>4, <3>1, <3>2 DEF Close
  <2>3. d.locked => programAge <= Hold
    BY <2>2 DEF LockEarned
  <2> QED
    BY <2>1, <2>2, <2>3, WrittenEarned
<1>5. ASSUME NEW t \in Threads, CloseFails(t) PROVE LockEarned'
  <2>1. /\ step[t] = "close" /\ step'[t] = "rest" /\ report'[t] = NoReport
        /\ \A u \in Threads : u # t => step'[u] = step[u] /\ report'[u] = report[u]
        /\ UNCHANGED <<snapshot, programAge, fileAge>> /\ Written(t, Broken)
    BY <1>5 DEF CloseFails, Ends, Goes, StatusTypes
  <2>2. Broken \in Found /\ ~Broken.locked
    BY DEF Found, Broken
  <2> QED
    BY <2>1, <2>2, WrittenEarned
<1>6. CASE Restart
  <2>1. \A u \in Threads : /\ step'[u] = "rest" /\ report'[u] = NoReport
                           /\ ~NoReport.program /\ ~NoReport.locked
    BY <1>6 DEF Restart, AtRest, NoReport
  <2>2. ~snapshot'.program /\ UNCHANGED <<disk, fileAge, programAge>>
    BY <1>6 DEF Restart, NoSnapshot
  <2> QED
    BY <2>1, <2>2 DEF LockEarned, LockShownIsEarned, Writing
<1>7. CASE UNCHANGED statusVars
  BY <1>7 DEF statusVars, LockEarned, LockShownIsEarned, Writing
<1> QED
  BY <1>1, <1>2, <1>3, <1>4, <1>5, <1>6, <1>7, TickEarned, ResultEarned, UpdateEarned,
     ShowEarned, OpenEarned, RenameEarned
  DEF StatusNext, ReportNext

(* The hold keeps a lock on show for Hold seconds after the last job with a *)
(* program, and no report, whoever writes it, has one that is older.        *)
THEOREM LockOnShowIsEarned == StatusSpec => []LockShownIsEarned
<1>1. LockEarned => LockShownIsEarned
  BY DEF LockEarned
<1> QED
  BY <1>1, StatusTypeInvariant, FilesInit, StepApart, LockInit, StepEarned, PTL DEF StatusSpec

-----------------------------------------------------------------------------
(* What readers may rely on.                                                *)

(* A second with a report begun ends in a renewed file or a back-off.       *)
ReportedKept ==
  /\ \A t \in Threads : step[t] # "rest" => reported
  /\ reported => fileAge = 0 \/ output.wait > 0 \/ \E t \in Threads : step[t] # "rest"

(* The invariant holds at the start,                                        *)
LEMMA ReportedInit == StatusInit => ReportedKept
BY DEF StatusInit, ReportedKept, AtRest

(* and every step keeps it.                                                 *)
LEMMA StepReported == StatusTypes /\ ReportedKept /\ [StatusNext]_statusVars => ReportedKept'
<1> SUFFICES ASSUME StatusTypes, ReportedKept, [StatusNext]_statusVars PROVE ReportedKept'
  OBVIOUS
<1> USE DEF receiver, files, records
<1>1. CASE FrontendReset \/ WorkerReset \/ UNCHANGED statusVars
  BY <1>1 DEF FrontendReset, WorkerReset, statusVars, ReportedKept
<1>2. CASE Tick \/ Restart
  <2>1. (\A t \in Threads : step'[t] = "rest") /\ ~reported'
    BY <1>2 DEF Tick, Restart, AtRest
  <2> QED
    BY <2>1 DEF ReportedKept
<1>3. ASSUME NEW t \in Threads, NEW r, Begins(t, r) PROVE ReportedKept'
  <2>1. step'[t] = "count" /\ reported'
    BY <1>3 DEF Begins, Goes, StatusTypes
  <2> QED
    BY <2>1 DEF ReportedKept
<1>4. ASSUME NEW t \in Threads,
             \/ NoteSession(t) \/ UpdateSnapshot(t) \/ Open(t) \/ Close(t)
             \/ Show(t) /\ WriteAllowed
      PROVE  ReportedKept'
  <2>1. /\ step[t] # "rest" /\ step'[t] # "rest" /\ reported' = reported
        /\ \A u \in Threads : u # t => step'[u] = step[u]
    BY <1>4 DEF NoteSession, UpdateSnapshot, Open, Close, Show, Goes, StatusTypes
  <2> QED
    BY <2>1 DEF ReportedKept
<1>5. ASSUME NEW t \in Threads,
             \/ OpenFails(t) \/ CloseFails(t) \/ Rename(t) \/ RenameFails(t)
             \/ Show(t) /\ ~WriteAllowed
      PROVE  ReportedKept'
  <2>1. /\ step[t] # "rest" /\ step'[t] = "rest" /\ reported' = reported
        /\ \A u \in Threads : u # t => step'[u] = step[u]
    BY <1>5 DEF OpenFails, CloseFails, Rename, RenameFails, Show, Ends, Goes, StatusTypes
  <2>2. fileAge' = 0 \/ output'.wait > 0
    <3>1. CASE OpenFails(t) \/ CloseFails(t) \/ RenameFails(t)
      BY <3>1, Constants DEF OpenFails, CloseFails, RenameFails, NoteFailure
    <3>2. CASE Rename(t)
      BY <3>2 DEF Rename
    <3>3. CASE Show(t) /\ ~WriteAllowed
      BY <3>3 DEF Show, WriteAllowed
    <3> QED BY <1>5, <3>1, <3>2, <3>3
  <2> QED
    BY <2>1, <2>2 DEF ReportedKept
<1> QED
  BY <1>1, <1>2, <1>3, <1>4, <1>5
  DEF StatusNext, ReportNext, ReportIdle, ReportJob, ReportResult, Threads

(* The abstract file begins where this one does.                            *)
LEMMA InitIsInit == StatusInit => Readers!FileInit
<1> SUFFICES ASSUME StatusInit PROVE Readers!FileInit
  OBVIOUS
<1>1. disk.path.holds = "no file" /\ output.wait = 0
  BY DEF StatusInit, Names, Absent, NoFailure
<1> QED
  BY <1>1 DEF StatusInit, Readers!FileInit, Readers!NoReport

(* What is in the file, as its readers find it.                             *)
LEMMA ReadersFind ==
  ASSUME NEW d \in Found, d # Absent
  PROVE  d.holds \in {"nothing", "parts", "report"} /\ d.locked \in BOOLEAN
<1>1. CASE d \in {Empty, Broken}
  <2>1. Empty.holds = "nothing" /\ Broken.holds = "parts"
    BY DEF Empty, Broken
  <2>2. Empty.locked = FALSE
    BY DEF Empty
  <2>3. Broken.locked = FALSE
    BY DEF Broken
  <2> QED BY <1>1, <2>1, <2>2, <2>3
<1>2. CASE d \in [holds: {"report"}, locked: BOOLEAN]
  <2>1. d.holds = "report"
    BY <1>2
  <2>2. d.locked \in BOOLEAN
    BY <1>2
  <2> QED BY <2>1, <2>2
<1> QED
  BY <1>1, <1>2 DEF Found

(* Every step is one of the abstract file, or leaves it alone.              *)
LEMMA StepImplements ==
  StatusTypes /\ StatusTypes' /\ FilesApart /\ ReportedKept /\ [StatusNext]_statusVars
    => [Readers!FileNext]_(Readers!fileVars)
<1> SUFFICES ASSUME StatusTypes, StatusTypes', FilesApart, ReportedKept, [StatusNext]_statusVars
             PROVE  Readers!FileNext \/ UNCHANGED Readers!fileVars
  OBVIOUS
<1> USE DEF receiver, files, records
<1>1. CASE Tick
  <2>1. reported => fileAge = 0 \/ output.wait > 0
    BY <1>1 DEF Tick, AtRest, ReportedKept
  <2>2. /\ disk' = disk /\ fileAge' = Older(fileAge) /\ reported' = FALSE
        /\ output'.wait = (IF output.wait > 0 THEN output.wait - 1 ELSE 0)
    BY <1>1 DEF Tick, StatusTypes
  <2>3. Readers!Tick
    BY <2>1, <2>2 DEF Readers!Tick, Readers!Older, Older
  <2> QED BY <2>3 DEF Readers!FileNext
<1>2. CASE ReportIdle \/ ReportJob \/ ReportResult
  <2>1. reported' = TRUE /\ UNCHANGED <<disk, output, fileAge>>
    BY <1>2 DEF ReportIdle, ReportJob, ReportResult, Begins
  <2>2. Readers!BeginReport
    BY <2>1 DEF Readers!BeginReport
  <2> QED BY <2>2 DEF Readers!FileNext
<1>3. ASSUME UNCHANGED <<disk.path, output, fileAge, reported>>
      PROVE  UNCHANGED Readers!fileVars
  BY <1>3 DEF Readers!fileVars
<1>4. CASE FrontendReset \/ WorkerReset \/ UNCHANGED statusVars
  BY <1>3, <1>4 DEF FrontendReset, WorkerReset, ForgetStream, statusVars
<1>5. ASSUME NEW t \in Threads, NoteSession(t) \/ UpdateSnapshot(t) \/ Show(t) \/ Open(t)
      PROVE  UNCHANGED Readers!fileVars
  <2>1. UNCHANGED <<disk.path, output, fileAge, reported>>
    BY <1>5 DEF NoteSession, UpdateSnapshot, Show, Open, StatusTypes, Names
  <2> QED BY <1>3, <2>1
<1>6. ASSUME NEW t \in Threads, OpenFails(t) \/ RenameFails(t)
      PROVE  Readers!BackOff
  <2>1. /\ reported /\ reported' = reported /\ output'.wait = Retry
        /\ disk'.path = disk.path /\ fileAge' = fileAge
    BY <1>6 DEF OpenFails, RenameFails, NoteFailure, Ends, Goes, ReportedKept, StatusTypes, Names
  <2> QED
    BY <2>1 DEF Readers!BackOff
<1>7. ASSUME NEW t \in Threads, CloseFails(t) PROVE Readers!BackOff
  <2>1. /\ reported /\ reported' = reported /\ output'.wait = Retry /\ fileAge' = fileAge
        /\ disk'.path \in {disk.path, Broken}
    BY <1>7
    DEF CloseFails, NoteFailure, Ends, Goes, ReportedKept, StatusTypes, Written, Names, Streams
  <2>2. CASE disk'.path = disk.path
    BY <2>1, <2>2 DEF Readers!BackOff
  <2>3. CASE disk'.path = Broken
    <3>1. disk'.path.holds = "parts"
      BY <2>3 DEF Broken
    <3> QED
      BY <2>1, <3>1 DEF Readers!BackOff, Readers!InParts
  <2> QED BY <2>1, <2>2, <2>3
<1>8. ASSUME NEW t \in Threads, Close(t)
      PROVE  Readers!Spoil \/ UNCHANGED Readers!fileVars
  <2>1. /\ reported /\ reported' = reported /\ output' = output
        /\ fileAge' = (IF stream[t] = "path" THEN 0 ELSE fileAge)
    BY <1>8 DEF Close, Goes, ReportedKept
  <2>2. PICK d \in Found : d # Absent /\ Written(t, d)
    <3>1. Whole(report[t]) \in Found /\ Whole(report[t]).holds = "report"
      BY Literals DEF StatusTypes, Whole
    <3>2. Broken \in Found /\ Broken.holds = "parts" /\ Absent.holds = "no file"
      BY DEF Found, Broken, Absent
    <3> QED BY <1>8, <3>1, <3>2 DEF Close
  <2>3. stream[t] \in {"path", "tmp", "gone"}
    BY <1>8 DEF Close, Goes, StatusTypes, FilesApart, Streams
  <2>4. CASE stream[t] = "path"
    <3>1. disk'.path = d
      BY <2>2, <2>4 DEF Written, StatusTypes, Names
    <3>2. disk'.path.holds \in {"nothing", "parts", "report"} /\ disk'.path.locked \in BOOLEAN
      BY <2>2, <3>1, ReadersFind
    <3>3. Readers!Spoil
      BY <2>1, <2>4, <3>2
      DEF Readers!Spoil, Readers!Finds, Readers!NoReport, Readers!InParts, Readers!Locked,
          Readers!NoLock
    <3> QED BY <3>3
  <2>5. CASE stream[t] # "path"
    <3>1. disk'.path = disk.path
      BY <2>2, <2>3, <2>5 DEF Written, StatusTypes, Names
    <3> QED
      BY <1>3, <2>1, <2>5, <3>1
  <2> QED BY <2>4, <2>5
<1>9. ASSUME NEW t \in Threads, Rename(t) PROVE Readers!Renew
  <2>1. /\ reported /\ reported' = reported /\ output'.wait = 0 /\ fileAge' = 0
        /\ disk'.path = disk.tmp /\ disk.tmp # Absent
    BY <1>9 DEF Rename, NoteSuccess, NoFailure, Ends, Goes, ReportedKept, StatusTypes, Names
  <2>2. disk'.path.holds \in {"nothing", "parts", "report"} /\ disk'.path.locked \in BOOLEAN
    <3>1. disk.tmp \in Found
      BY DEF StatusTypes, Names
    <3> QED BY <2>1, <3>1, ReadersFind
  <2> QED
    BY <2>1, <2>2
    DEF Readers!Renew, Readers!Finds, Readers!NoReport, Readers!InParts, Readers!Locked,
        Readers!NoLock
<1>10. CASE Restart
  <2>1. disk' = disk /\ fileAge' = fileAge /\ reported' = FALSE /\ output'.wait = 0
    BY <1>10 DEF Restart, NoFailure
  <2>2. Readers!Restart
    BY <2>1 DEF Readers!Restart
  <2> QED BY <2>2 DEF Readers!FileNext
<1> QED
  BY <1>1, <1>2, <1>4, <1>5, <1>6, <1>7, <1>8, <1>9, <1>10
  DEF StatusNext, ReportNext, Readers!FileNext

(* The threads' steps do to the file what StatusFile lets its readers rely  *)
(* on, whatever fails, for every length of the back-off: the watchdog is    *)
(* verified against that.                                                   *)
THEOREM ReportsImplementFile == StatusSpec => FileImplements
BY StatusTypeInvariant, FilesInit, StepApart, ReportedInit, StepReported, InitIsInit,
   StepImplements, PTL
DEF StatusSpec, FileImplements, Readers!Spec

===============================================================================
