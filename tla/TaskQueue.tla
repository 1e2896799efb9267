----------------------------- MODULE TaskQueue ------------------------------
(***************************************************************************)
(* What a reactor promises about posted tasks: any thread may post a task; *)
(* while the reactor lives it runs every posted task, once, on its own     *)
(* thread, in the order they were posted.  When the reactor stops, tasks   *)
(* still queued are discarded.  Tasks are numbered in posting order.       *)
(***************************************************************************)
EXTENDS Naturals, Sequences

CONSTANT MaxTasks   \* how many tasks are posted at most

VARIABLES
  queue,  \* tasks posted and not yet run, oldest first
  ran,    \* tasks run so far, in the order they ran
  open    \* the reactor still runs tasks

avars == <<queue, ran, open>>

Init == queue = <<>> /\ ran = <<>> /\ open = TRUE

\* Any thread posts the next task; it is kept even after the reactor stopped.
Post ==
  /\ Len(ran) + Len(queue) < MaxTasks
  /\ queue' = Append(queue, Len(ran) + Len(queue) + 1)
  /\ UNCHANGED <<ran, open>>

\* The reactor runs the oldest queued task.
Run ==
  /\ open
  /\ queue # <<>>
  /\ ran' = Append(ran, Head(queue))
  /\ queue' = Tail(queue)
  /\ UNCHANGED open

\* The reactor stops; whatever is queued is never run.
Close ==
  /\ open
  /\ open' = FALSE
  /\ UNCHANGED <<queue, ran>>

Next == Post \/ Run \/ Close

\* A live reactor does not leave a queued task waiting forever.
Spec == Init /\ [][Next]_avars /\ WF_avars(Run)
=============================================================================
