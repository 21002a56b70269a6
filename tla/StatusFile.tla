----------------------------- MODULE StatusFile -----------------------------
(***************************************************************************)
(* The status file of a receiver, as those who read it may rely on: every  *)
(* second in which the receiver reports, its file is renewed, or a write   *)
(* has failed and the back-off of Retry seconds is running.  The file may  *)
(* be found empty or in parts.                                             *)
(***************************************************************************)
EXTENDS Integers

CONSTANTS
  Retry,  \* STATUS_JSON_RETRY_SECONDS
  MaxAge  \* bound: ages beyond it are all the same

ASSUME StatusFileAssumption ==
  {Retry, MaxAge} \subseteq Nat \ {0} /\ Retry < MaxAge

VARIABLES
  file,     \* what is found under the name
  fileAge,  \* seconds since it was last renewed
  wait,     \* seconds until a write may be tried again
  reported  \* the receiver has begun a report in this second

fileVars == <<file, fileAge, wait, reported>>

NoReport == "none"
InParts  == "parts"
Locked   == "locked"
NoLock   == "no lock"
Finds    == {NoReport, InParts, Locked, NoLock}

Older(age) == IF age < MaxAge THEN age + 1 ELSE age

FileInit == file = NoReport /\ fileAge = MaxAge /\ wait = 0 /\ reported = FALSE

Tick ==
  /\ reported => fileAge = 0 \/ wait > 0
  /\ fileAge' = Older(fileAge)
  /\ wait' = (IF wait > 0 THEN wait - 1 ELSE 0)
  /\ reported' = FALSE
  /\ UNCHANGED file

BeginReport == reported' = TRUE /\ UNCHANGED <<file, fileAge, wait>>

Renew ==
  /\ reported
  /\ file' \in Finds \ {NoReport} /\ fileAge' = 0 /\ wait' = 0
  /\ UNCHANGED reported

(* A report written over another, or begun in a file just renamed.          *)
Spoil ==
  /\ reported
  /\ file' \in Finds \ {NoReport} /\ fileAge' = 0
  /\ UNCHANGED <<wait, reported>>

BackOff ==
  /\ reported
  /\ wait' = Retry
  /\ file' \in {file, InParts}
  /\ UNCHANGED <<fileAge, reported>>

(* The receiver is killed and started anew.                                 *)
Restart ==
  /\ wait' = 0 /\ reported' = FALSE
  /\ UNCHANGED <<file, fileAge>>

FileNext == Tick \/ BeginReport \/ Renew \/ Spoil \/ BackOff \/ Restart

Spec == FileInit /\ [][FileNext]_fileVars
=============================================================================
