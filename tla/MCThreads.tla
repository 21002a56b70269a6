------------------------------ MODULE MCThreads ------------------------------
(* Small things threads share, on small instances.  They share no state, so *)
(* a behaviour looks at one of them: the queue of pipeline.c (Fifo), with   *)
(* three threads, two items and two slots, so that two threads can sleep on *)
(* either condition while the third works and the ring wraps; or a window   *)
(* of --gui (GuiWindows), opened three times, its ring wrapping twice.      *)
EXTENDS Fifo, GuiWindows

VARIABLE part
threadVars == <<vars, guiVars, part>>

ThreadsInit ==
  /\ part \in {"queue", "window"}
  /\ Init
  /\ part # "queue" => arg = [t \in Threads |-> CHOOSE i \in Items : TRUE]
  /\ GuiInit
  /\ part # "window" => kind = "fifo"

QueueStep(A) == part = "queue" /\ A /\ UNCHANGED <<guiVars, part>>

ThreadsNext ==
  \/ QueueStep(Next)
  \/ part = "window" /\ GuiNext /\ UNCHANGED <<vars, part>>

ThreadsSpec ==
  /\ ThreadsInit /\ [][ThreadsNext]_threadVars
  /\ \A t \in Threads : WF_threadVars(QueueStep(Resume(t)))
=============================================================================
