----------------------------- MODULE GuiWindows -----------------------------
(***************************************************************************)
(* A live window of --gui, src/src/probe_constellation.c: the frontend     *)
(* asks for it before every chunk, threads of the receiver hand it what it *)
(* is to show, and a thread of its own looks, draws, and ends when the     *)
(* user closes it.  The three windows (constellation, load of FIFO1, input *)
(* spectrum) share no state; a behaviour looks at one of them.  What is    *)
(* handed over is numbered; the FIFO1 window keeps a ring of the last.     *)
(***************************************************************************)
EXTENDS Integers, Sequences, SequencesExt, FiniteSets

CONSTANTS
  HistoryPoints, \* GUI_FIFO_HISTORY_POINTS
  MaxStarts,     \* bound: threads started
  MaxSubmits     \* bound: what is handed over

ASSUME GuiAssumption ==
  {HistoryPoints, MaxStarts, MaxSubmits} \subseteq Nat \ {0}

Kinds == {"constellation", "fifo", "spectrum"}
Painters == 1 .. MaxStarts
HistorySlots == 0 .. HistoryPoints - 1
NoMemory == <<0>> \* nothing to draw, for there was no room to copy it

VARIABLES
  kind,
  \* gui_constellation, gui_fifo, gui_spectrum, under their mutex
  enabled, started, stop,
  updated,     \* have_points of the constellation
  latest,      \* points or samples to show, <<>> or one
  ring, rhead, rcount, \* history, history_head, history_count
  \* the window's threads
  at,          \* where each is
  copied,      \* what it copied to draw
  \* history
  submitted,   \* what has come since the window was started, oldest first
  submits      \* how much in all

flags == <<enabled, started, stop, updated>>
content == <<latest, ring, rhead, rcount, submitted, submits>>
guiVars == <<kind, flags, content, at, copied>>

GuiInit ==
  /\ kind \in Kinds
  /\ enabled = FALSE /\ started = FALSE /\ stop = FALSE /\ updated = FALSE
  /\ latest = <<>>
  /\ ring = [p \in HistorySlots |-> 0] /\ rhead = 0 /\ rcount = 0
  /\ at = [t \in Painters |-> "none"] /\ copied = [t \in Painters |-> <<>>]
  /\ submitted = <<>> /\ submits = 0

-----------------------------------------------------------------------------
(* The receiver's side.                                                    *)

\* Mutant: a window that is about to go is started again.
MayStartEnabled == ~enabled

MayStart == ~started /\ ~enabled

\* Emptied; the FIFO1 window is drawn at once, the others when there is more.
Emptied ==
  /\ latest' = <<>> /\ submitted' = <<>>
  /\ IF kind = "fifo" THEN rhead' = 0 /\ rcount' = 0 ELSE UNCHANGED <<rhead, rcount>>
  /\ UNCHANGED <<ring, submits>>

\* gui_*_start, before every chunk, also after the user has closed the window.
Start ==
  /\ MayStart
  /\ Emptied
  /\ updated' = (kind = "fifo") /\ stop' = FALSE
  /\ enabled' = TRUE /\ started' = TRUE
  /\ \E t \in Painters : /\ \A u \in Painters : at[u] = "none" => t <= u
                        /\ at[t] = "none"
                        /\ at' = [at EXCEPT ![t] = "open"]
  /\ UNCHANGED <<kind, copied>>

\* No thread is to be had.
StartFails ==
  /\ MayStart
  /\ Emptied
  /\ updated' = (kind = "fifo") /\ stop' = FALSE
  /\ UNCHANGED <<kind, enabled, started, at, copied>>

Numbered ==
  /\ submits < MaxSubmits /\ submits' = submits + 1
  /\ submitted' = Append(submitted, submits')

\* gui_fifo_submit
SubmitDepth ==
  /\ kind = "fifo" /\ enabled
  /\ Numbered
  /\ ring' = [ring EXCEPT ![rhead] = submits']
  /\ rhead' = (rhead + 1) % HistoryPoints
  /\ rcount' = IF rcount < HistoryPoints THEN rcount + 1 ELSE rcount
  /\ updated' = TRUE
  /\ UNCHANGED <<kind, enabled, started, stop, latest, at, copied>>

\* gui_constellation_submit and gui_spectrum_submit
SubmitPoints ==
  /\ kind # "fifo" /\ enabled
  /\ Numbered
  /\ latest' = <<submits'>>
  /\ updated' = TRUE
  /\ UNCHANGED <<kind, enabled, started, stop, ring, rhead, rcount, at, copied>>

-----------------------------------------------------------------------------
(* The window's thread.                                                    *)

PainterGoes(t, from, to) == at[t] = from /\ at' = [at EXCEPT ![t] = to]

Open(t) ==
  /\ PainterGoes(t, "open", "wait")
  /\ copied' = [copied EXCEPT ![t] = <<>>]
  /\ UNCHANGED <<kind, flags, content>>

\* No display, or nothing to compute a spectrum with.
OpenFails(t) ==
  /\ PainterGoes(t, "open", "gone")
  /\ enabled' = FALSE /\ started' = FALSE
  /\ UNCHANGED <<kind, stop, updated, content, copied>>

\* Mutant: the history is read from its head on.
HistoryFromHead ==
  [i \in 1 .. rcount |-> ring[(rhead + i - 1) % HistoryPoints]]

History ==
  [i \in 1 .. rcount |-> ring[(rhead + HistoryPoints - rcount + i - 1) % HistoryPoints]]

\* Woken, or the time of a refresh has passed: what there is, is copied.  For
\* more points than ever there may be no memory.
Look(t) ==
  /\ ~stop
  /\ PainterGoes(t, "wait", "events")
  /\ \/ copied' = [copied EXCEPT ![t] = IF kind = "fifo" THEN History ELSE latest]
     \/ kind = "constellation" /\ latest # <<>> /\ copied' = [copied EXCEPT ![t] = NoMemory]
  /\ updated' = FALSE
  /\ UNCHANGED <<kind, enabled, started, stop, content>>

LookStopped(t) ==
  /\ stop
  /\ PainterGoes(t, "wait", "leave")
  /\ UNCHANGED <<kind, flags, content, copied>>

\* The events of the window: nothing of interest, or the user closes it.
NoClose(t) == PainterGoes(t, "events", "check") /\ UNCHANGED <<kind, flags, content, copied>>

UserCloses(t) ==
  /\ PainterGoes(t, "events", "check")
  /\ enabled' = FALSE /\ stop' = TRUE
  /\ UNCHANGED <<kind, started, updated, content, copied>>

\* stop is read without the mutex; if it is not set the window is drawn.
Draw(t) ==
  /\ PainterGoes(t, "check", IF stop THEN "leave" ELSE "wait")
  /\ UNCHANGED <<kind, flags, content, copied>>

PainterEnds(t) ==
  /\ PainterGoes(t, "leave", "gone")
  /\ started' = FALSE /\ enabled' = FALSE
  /\ UNCHANGED <<kind, stop, updated, content, copied>>

GuiNext ==
  \/ Start \/ StartFails \/ SubmitDepth \/ SubmitPoints
  \/ \E t \in Painters :
       \/ Open(t) \/ OpenFails(t) \/ Look(t) \/ LookStopped(t)
       \/ NoClose(t) \/ UserCloses(t) \/ Draw(t) \/ PainterEnds(t)

GuiSpec == GuiInit /\ [][GuiNext]_guiVars
-----------------------------------------------------------------------------
Painting == {t \in Painters : at[t] \notin {"none", "gone"}}

(* OneThread: however the user closes windows, displays fail and the        *)
(* frontend asks for them again, a window never has two threads, and its    *)
(* flags are those of the one it has.                                       *)
OneThread ==
  /\ Cardinality(Painting) <= 1
  /\ started <=> Painting # {}

Newest == IF kind = "fifo"
          THEN SubSeq(submitted, Len(submitted) - rcount + 1, Len(submitted))
          ELSE IF submitted = <<>> THEN <<>> ELSE <<Last(submitted)>>

(* ShowsLatest: when nothing is left to look at, the thread of the window   *)
(* draws the newest that was handed over since the window was started, the  *)
(* FIFO1 window as many as its history holds, oldest first; never what came *)
(* before the window was closed and opened again.                           *)
ShowsLatest ==
  /\ kind = "fifo" => rcount = IF Len(submitted) < HistoryPoints THEN Len(submitted) ELSE HistoryPoints
  /\ \A t \in Painting :
       at[t] # "open" /\ enabled /\ ~updated => copied[t] \in {Newest, NoMemory}
=============================================================================
