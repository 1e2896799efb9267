---------------------------- MODULE ReactorLoop -----------------------------
(***************************************************************************)
(* The CppNet reactor thread (CEpoll::ProcessEvent) and the threads that   *)
(* talk to it: the loop head with TimeoutCheck, epoll_wait bounded by the  *)
(* next deadline, _DoEvent, _DoTaskList and _DoTimeoutEvent in the two     *)
(* orders the code uses, PostTask/WakeUp from other threads through the    *)
(* non-blocking wake pipe, and Dealloc.                                    *)
(*                                                                         *)
(* The Timer subsystem (Timer.cpp) is not in the sources: AddTimer,        *)
(* DelTimer and TimeoutCheck follow the specification.  Time is abstract:  *)
(* a pending timer becomes due when its deadline passes (Elapse) or when   *)
(* epoll_wait times out on it.  Socket I/O is abstracted to "the fd has an *)
(* epoll event" (EpollSocket models what Recv and Send then do); only the  *)
(* EVENT_TIMER branches of Recv and Send are modelled here.                *)
(*                                                                         *)
(* Callbacks (read/write completions, timer callbacks, tasks) run on the   *)
(* reactor thread; inCb marks the points where one just ran, and there the *)
(* application may add or delete timers and destroy sockets.               *)
(***************************************************************************)
EXTENDS Naturals, Sequences, FiniteSets

CONSTANTS
  Poster,    \* threads other than the reactor that call PostTask
  Sock,      \* connected sockets served by this reactor (model values)
  TimerId,   \* ids the Timer subsystem hands out (model values)
  MaxTasks,  \* bound on PostTask calls
  PipeCap    \* bytes the wake pipe holds before write() fails with EAGAIN

ASSUME /\ MaxTasks \in Nat
       /\ PipeCap \in Nat \ {0}

\* What a timer was added as: a free-standing callback, one-shot or
\* repeating, or a timeout bound to a socket's read or write handler.
Dir == {"READ", "WRITE"}
Once == <<"callback", "once">>
Repeat == <<"callback", "repeat">>
TimerKind == {Once, Repeat} \cup (Sock \X Dir)
IsBound(k) == k \in Sock \X Dir

\* The callback a step made: a read/write completion of a socket, a timer
\* callback, a task, or none.
NoEvt == [cb |-> "none", s |-> "none", id |-> "none", timeout |-> FALSE]
Callback(cb, s, id, to) == [cb |-> cb, s |-> s, id |-> id, timeout |-> to]

Phase == {"top", "wait", "events", "tasksA", "timersA", "timersB",
          "tasksB", "closed", "crashed"}

VARIABLES
  run,       \* CEpoll::_run
  pc,        \* where the reactor thread is; A/B: the res > 0 / res <= 0 branch
  waitInf,   \* the wait_time of this iteration is -1 (wait indefinitely)
  batch,     \* entries of the last epoll_wait not yet dispatched
  timerVec,  \* timer_vec: ids collected by TimeoutCheck and not yet run
  taskList,  \* _task_list, guarded by _mutex
  funcVec,   \* func_vec of _DoTaskList: the tasks swapped out, not yet run
  pipe,      \* bytes in the wake pipe
  posterPc,  \* a poster between pushing its task and writing the pipe
  stopPc,    \* the thread that calls Dealloc
  alive,     \* the socket and its event handlers exist
  ready,     \* the socket's fd has an epoll event waiting
  tq,        \* ids held by the Timer subsystem
  due,       \* ids of tq whose deadline has passed
  tkind,     \* what each id was added as
  used,      \* ids handed out; an id is never handed out twice
  nPosted,   \* history: PostTask calls so far (task n is the n-th)
  ran,       \* history: tasks in the order they ran
  deleted,   \* history: ids DelTimer returned true for
  touched,   \* history: where a destroyed socket's handler was dereferenced
  evt,       \* history: the callback the last step made
  inCb       \* a callback just ran on the reactor thread

loop    == <<run, pc, waitInf, batch, timerVec>>
tasks   == <<taskList, funcVec, pipe, posterPc, stopPc>>
world   == <<alive, ready, tq, due, tkind, used>>
history == <<nPosted, ran, deleted, touched, evt, inCb>>
vars    == <<loop, tasks, world, history>>

Live == pc # "crashed"
ReadySocks == {s \in Sock : alive[s] /\ ready[s]}

-----------------------------------------------------------------------------
(* Timer subsystem, from the specification (Timer.cpp is not available).  *)

\* TimeoutCheck: hand out every elapsed entry, drop the one-shot ones and
\* re-insert repeating ones at now + interval (not yet due).  Whether any
\* timer remains decides between a bounded and an indefinite wait.
TimeoutCheck ==
  /\ timerVec' = due
  /\ tq' = tq \ {t \in due : tkind[t] # Repeat}
  /\ due' = {}

\* Mutant: wait indefinitely whenever nothing has elapsed, even with
\* timers pending.
WaitsForeverNoTimers == due = {}

\* wait_time == 0 && timer_vec.empty(): nothing pending, wait for ever.
WaitsForever == tq' = {} /\ due = {}

-----------------------------------------------------------------------------
(* The reactor thread.                                                     *)

Init ==
  /\ run = TRUE
  /\ pc = "top"
  /\ waitInf = FALSE
  /\ batch = {}
  /\ timerVec = {}
  /\ taskList = <<>>
  /\ funcVec = <<>>
  /\ pipe = 0
  /\ posterPc = [p \in Poster |-> "idle"]
  /\ stopPc = "idle"
  /\ alive = [s \in Sock |-> TRUE]
  /\ ready = [s \in Sock |-> FALSE]
  /\ tq = {}
  /\ due = {}
  /\ tkind = [t \in TimerId |-> Once]
  /\ used = {}
  /\ nPosted = 0
  /\ ran = <<>>
  /\ deleted = {}
  /\ touched = {}
  /\ evt = NoEvt
  \* the thread that set the reactor up may add timers before the loop runs
  /\ inCb = TRUE

\* while (_run) { wait_time = TimeoutCheck(timer_vec); ... }, and the
\* close() calls after the loop.
LoopTop ==
  /\ pc = "top"
  /\ IF run
       THEN /\ TimeoutCheck
            /\ waitInf' = WaitsForever
            /\ pc' = "wait"
            /\ UNCHANGED <<tkind, used>>
       ELSE /\ pc' = "closed"
            /\ UNCHANGED <<waitInf, timerVec, tq, due, tkind, used>>
  /\ evt' = NoEvt /\ inCb' = FALSE
  /\ UNCHANGED <<run, batch, tasks, alive, ready, nPosted, ran, deleted, touched>>

\* epoll_wait returns res > 0: every ready socket and the pipe if it holds
\* a byte.  The sockets' EPOLLET|EPOLLONESHOT items are consumed.
WaitEvents ==
  /\ pc = "wait"
  /\ pipe > 0 \/ ReadySocks # {}
  /\ batch' = ReadySocks \cup (IF pipe > 0 THEN {"pipe"} ELSE {})
  /\ ready' = [s \in Sock |-> ready[s] /\ s \notin ReadySocks]
  /\ pc' = "events"
  /\ evt' = NoEvt /\ inCb' = FALSE
  /\ UNCHANGED <<run, waitInf, timerVec, tasks, alive, tq, due, tkind, used,
                 nPosted, ran, deleted, touched>>

\* Mutant: copy _task_list instead of swapping it out.
SwapTasksNoClear ==
  /\ funcVec' = taskList
  /\ taskList' = taskList

\* _DoTaskList: swap _task_list into func_vec under the lock.
SwapTasks ==
  /\ funcVec' = taskList
  /\ taskList' = <<>>

\* epoll_wait returns 0 after wait_time: nothing arrived, and the deadline
\* it waited for has passed.  Then timers, then tasks.
WaitTimeout ==
  /\ pc = "wait"
  /\ ~waitInf
  /\ pipe = 0 /\ ReadySocks = {}
  /\ \E D \in SUBSET tq : /\ tq # {} => D # {}
                          /\ due' = due \cup D
  /\ IF timerVec # {}
       THEN pc' = "timersB" /\ UNCHANGED <<taskList, funcVec>>
       ELSE pc' = "tasksB" /\ SwapTasks
  /\ evt' = NoEvt /\ inCb' = FALSE
  /\ UNCHANGED <<run, waitInf, batch, timerVec, pipe, posterPc, stopPc,
                 alive, ready, tq, tkind, used, nPosted, ran, deleted, touched>>

\* One entry of _DoEvent.  The pipe entry reads one byte.  A socket entry
\* resolves data.ptr, a pointer to the weak socket pointer stored inside
\* the handler, and calls Recv/Send, whose completion is a callback.  If a
\* callback earlier in the batch destroyed that socket, the handler holding
\* the weak pointer has been freed: reading it is undefined, and the
\* outcomes are a crash or a Lock() that reads empty and skips the entry.
DoEventEntry(e) ==
  /\ pc = "events"
  /\ e \in batch
  /\ batch' = batch \ {e}
  /\ IF e = "pipe"
       THEN /\ pipe' = pipe - 1
            /\ evt' = NoEvt /\ inCb' = FALSE
            /\ UNCHANGED <<pc, touched>>
       ELSE IF alive[e]
       THEN /\ evt' = Callback("io", e, "none", FALSE)
            /\ inCb' = TRUE
            /\ UNCHANGED <<pc, pipe, touched>>
       ELSE /\ touched' = touched \cup {"event"}
            /\ pc' \in {"crashed", "events"}
            /\ evt' = NoEvt /\ inCb' = FALSE
            /\ UNCHANGED pipe
  /\ UNCHANGED <<run, waitInf, timerVec, taskList, funcVec, posterPc, stopPc,
                 world, nPosted, ran, deleted>>

\* _DoEvent is done; res > 0 runs the tasks next.
EventsDone ==
  /\ pc = "events"
  /\ batch = {}
  /\ pc' = "tasksA"
  /\ SwapTasks
  /\ evt' = NoEvt /\ inCb' = FALSE
  /\ UNCHANGED <<run, waitInf, batch, timerVec, pipe, posterPc, stopPc,
                 world, nPosted, ran, deleted, touched>>

\* func_vec[i]() for the next task.
RunTask ==
  /\ pc \in {"tasksA", "tasksB"}
  /\ funcVec # <<>>
  /\ ran' = Append(ran, Head(funcVec))
  /\ funcVec' = Tail(funcVec)
  /\ evt' = Callback("task", "none", "none", FALSE)
  /\ inCb' = TRUE
  /\ UNCHANGED <<loop, taskList, pipe, posterPc, stopPc, world,
                 nPosted, deleted, touched>>

\* _DoTaskList returns: in the res > 0 branch the timers follow if
\* timer_vec is not empty; otherwise the iteration ends.
TasksDone ==
  /\ pc \in {"tasksA", "tasksB"}
  /\ funcVec = <<>>
  /\ pc' = IF pc = "tasksA" /\ timerVec # {} THEN "timersA" ELSE "top"
  /\ evt' = NoEvt /\ inCb' = FALSE
  /\ UNCHANGED <<run, waitInf, batch, timerVec, tasks, world,
                 nPosted, ran, deleted, touched>>

\* Recv with EVENT_TIMER set: the flag is cleared and the read completion
\* is called with ERR_TIME_OUT.
RecvTimeout(s) == evt' = Callback("io", s, "none", TRUE) /\ inCb' = TRUE

\* Send with EVENT_TIMER set: the flag is cleared and ERR_TIME_OUT added
\* to err, but _WriteFunction is only called in the else branch.
SendTimeout(s) == evt' = NoEvt /\ inCb' = FALSE

\* One entry of _DoTimeoutEvent.  A bound timer Lock()s its handler's weak
\* pointer and dereferences the result before checking it; the handler is
\* gone once its socket is destroyed, and the null dereference kills the
\* process.
DoTimeoutEntry(t) ==
  /\ pc \in {"timersA", "timersB"}
  /\ t \in timerVec
  /\ timerVec' = timerVec \ {t}
  /\ IF ~IsBound(tkind[t])
       THEN evt' = Callback("timer", "none", t, FALSE) /\ inCb' = TRUE
            /\ UNCHANGED <<pc, touched>>
       ELSE LET s == tkind[t][1] IN
            IF ~alive[s]
              THEN /\ touched' = touched \cup {"timer"}
                   /\ pc' = "crashed"
                   /\ evt' = NoEvt /\ inCb' = FALSE
              ELSE /\ IF tkind[t][2] = "READ" THEN RecvTimeout(s)
                                              ELSE SendTimeout(s)
                   /\ UNCHANGED <<pc, touched>>
  /\ UNCHANGED <<run, waitInf, batch, tasks, world, nPosted, ran, deleted>>

\* timer_vec.clear(); res <= 0 runs the tasks next.
TimersDone ==
  /\ pc \in {"timersA", "timersB"}
  /\ timerVec = {}
  /\ IF pc = "timersA"
       THEN pc' = "top" /\ UNCHANGED <<taskList, funcVec>>
       ELSE pc' = "tasksB" /\ SwapTasks
  /\ evt' = NoEvt /\ inCb' = FALSE
  /\ UNCHANGED <<run, waitInf, batch, timerVec, pipe, posterPc, stopPc,
                 world, nPosted, ran, deleted, touched>>

Reactor ==
  \/ LoopTop \/ WaitEvents \/ WaitTimeout \/ EventsDone
  \/ RunTask \/ TasksDone \/ TimersDone
  \/ \E e \in batch : DoEventEntry(e)
  \/ \E t \in timerVec : DoTimeoutEntry(t)

-----------------------------------------------------------------------------
(* Other threads: PostTask and Dealloc.                                    *)

\* PostTask, first half: push the task under _mutex.
PostPush(p) ==
  /\ Live
  /\ posterPc[p] = "idle"
  /\ nPosted < MaxTasks
  /\ taskList' = Append(taskList, nPosted + 1)
  /\ nPosted' = nPosted + 1
  /\ posterPc' = [posterPc EXCEPT ![p] = "wake"]
  /\ UNCHANGED <<loop, funcVec, pipe, stopPc, world,
                 ran, deleted, touched, evt, inCb>>

\* WakeUp: write one byte to the non-blocking pipe.  A full pipe fails the
\* write with EAGAIN; after the loop closed the pipe, the write fails with
\* EBADF.  The result is not checked.
WakeUp == pipe' = IF pc = "closed" THEN pipe ELSE IF pipe < PipeCap THEN pipe + 1 ELSE pipe

\* PostTask, second half.
PostWake(p) ==
  /\ Live
  /\ posterPc[p] = "wake"
  /\ WakeUp
  /\ posterPc' = [posterPc EXCEPT ![p] = "idle"]
  /\ UNCHANGED <<loop, taskList, funcVec, stopPc, world, history>>

\* Dealloc: _run = false ...
Dealloc ==
  /\ Live
  /\ stopPc = "idle"
  /\ run' = FALSE
  /\ stopPc' = "wake"
  /\ UNCHANGED <<pc, waitInf, batch, timerVec, taskList, funcVec, pipe,
                 posterPc, world, history>>

\* Mutant: Dealloc that only clears _run.
DeallocWakeNoWrite ==
  /\ Live
  /\ stopPc = "wake"
  /\ stopPc' = "done"
  /\ UNCHANGED <<loop, taskList, funcVec, pipe, posterPc, world, history>>

\* ... then WakeUp().
DeallocWake ==
  /\ Live
  /\ stopPc = "wake"
  /\ WakeUp
  /\ stopPc' = "done"
  /\ UNCHANGED <<loop, taskList, funcVec, posterPc, world, history>>

-----------------------------------------------------------------------------
(* The application, from a callback on the reactor thread.                 *)

\* AddTimerEvent: a callback timer, or a timeout bound to a live socket's
\* handler; the Timer subsystem hands out a fresh id.
AddTimer(t, k) ==
  /\ inCb
  /\ t \notin used
  /\ IsBound(k) => alive[k[1]]
  /\ tq' = tq \cup {t}
  /\ tkind' = [tkind EXCEPT ![t] = k]
  /\ used' = used \cup {t}
  /\ evt' = NoEvt
  /\ UNCHANGED <<loop, tasks, alive, ready, due, nPosted, ran, deleted,
                 touched, inCb>>

\* Mutant: DelTimer that forgets the entry's place among the deadlines.
DelTimerKeepsDue(t) ==
  /\ inCb
  /\ t \in tq
  /\ tq' = tq \ {t}
  /\ deleted' = deleted \cup {t}
  /\ evt' = NoEvt
  /\ UNCHANGED <<loop, tasks, alive, ready, due, tkind, used,
                 nPosted, ran, touched, inCb>>

\* RemoveTimerEvent: DelTimer returns true when the id is still held.
DelTimer(t) ==
  /\ inCb
  /\ t \in tq
  /\ tq' = tq \ {t}
  /\ due' = due \ {t}
  /\ deleted' = deleted \cup {t}
  /\ evt' = NoEvt
  /\ UNCHANGED <<loop, tasks, alive, ready, tkind, used,
                 nPosted, ran, touched, inCb>>

\* The last reference to a socket is dropped: ~CSocketImpl deletes its
\* epoll item (close() would too) and frees its handlers with its pool.
Destroy(s) ==
  /\ inCb
  /\ alive[s]
  /\ alive' = [alive EXCEPT ![s] = FALSE]
  /\ ready' = [ready EXCEPT ![s] = FALSE]
  /\ evt' = NoEvt
  /\ UNCHANGED <<loop, tasks, tq, due, tkind, used, nPosted, ran, deleted,
                 touched, inCb>>

-----------------------------------------------------------------------------
(* The kernel and the clock.                                               *)

\* Data or buffer space arrives on a socket's fd.
SockReady(s) ==
  /\ Live
  /\ alive[s] /\ ~ready[s]
  /\ ready' = [ready EXCEPT ![s] = TRUE]
  /\ UNCHANGED <<loop, tasks, alive, tq, due, tkind, used, history>>

\* A pending timer's deadline passes.
Elapse(t) ==
  /\ Live
  /\ t \in tq \ due
  /\ due' = due \cup {t}
  /\ UNCHANGED <<loop, tasks, alive, ready, tq, tkind, used, history>>

-----------------------------------------------------------------------------
App   == \/ \E t \in TimerId, k \in TimerKind : AddTimer(t, k)
         \/ \E t \in TimerId : DelTimer(t)
         \/ \E s \in Sock : Destroy(s)
Other == \/ \E p \in Poster : PostPush(p) \/ PostWake(p)
         \/ Dealloc \/ DeallocWake
Env   == \/ \E s \in Sock : SockReady(s)
         \/ \E t \in TimerId : Elapse(t)

Next == Reactor \/ Other \/ App \/ Env

\* The reactor is a dedicated thread; a poster or Dealloc does not stop
\* between its two halves; real time passes.  The application and the
\* peers owe nothing.
Spec ==
  /\ Init /\ [][Next]_vars
  /\ WF_vars(Reactor)
  /\ \A p \in Poster : WF_vars(PostWake(p))
  /\ WF_vars(DeallocWake)
  /\ \A t \in TimerId : WF_vars(Elapse(t))

-----------------------------------------------------------------------------
(* Properties.                                                             *)

TypeOK ==
  /\ run \in BOOLEAN /\ pc \in Phase /\ waitInf \in BOOLEAN
  /\ batch \subseteq Sock \cup {"pipe"}
  /\ timerVec \subseteq TimerId
  /\ taskList \in Seq(1..MaxTasks) /\ funcVec \in Seq(1..MaxTasks)
  /\ pipe \in 0..PipeCap
  /\ posterPc \in [Poster -> {"idle", "wake"}]
  /\ stopPc \in {"idle", "wake", "done"}
  /\ alive \in [Sock -> BOOLEAN] /\ ready \in [Sock -> BOOLEAN]
  /\ due \subseteq tq /\ tq \subseteq used /\ used \subseteq TimerId
  /\ tkind \in [TimerId -> TimerKind]
  /\ nPosted \in 0..MaxTasks /\ ran \in Seq(1..MaxTasks)
  /\ deleted \subseteq used /\ touched \subseteq {"event", "timer"}
  /\ inCb \in BOOLEAN

\* The tasks of PostTask, swapped in two stages through _task_list and
\* func_vec, behave as one FIFO queue that a live loop keeps draining:
\* the abstract queue is the swapped-out tasks followed by _task_list.
TQ == INSTANCE TaskQueue WITH
        queue <- funcVec \o taskList,
        open  <- pc \notin {"closed", "crashed"}
TaskQueueSpec == TQ!Spec

\* Dealloc (_run = false, then WakeUp) ends ProcessEvent even when the
\* loop is blocked in an indefinite epoll_wait.
DeallocStopsLoop == stopPc = "done" ~> pc \in {"closed", "crashed"}

\* A repeating timer keeps firing: once added, its callback runs again
\* unless it is deleted or the loop ends.  The loop waits indefinitely only
\* when TimeoutCheck reports no pending timer.
RepeatingTimerFires ==
  \A t \in TimerId :
    (t \in tq /\ tkind[t] = Repeat)
      ~> (evt = Callback("timer", "none", t, FALSE) \/ t \in deleted
          \/ pc \in {"closed", "crashed"})

\* An epoll_wait entry whose socket a callback earlier in the same batch
\* destroyed is dropped without touching the freed handler.
StaleEntryDropped == "event" \notin touched

\* A timer bound to the handler of a socket that has been destroyed is
\* dropped at expiry, never dereferenced.
BoundTimerDropped == "timer" \notin touched

\* Once DelTimer(id) has returned true, that timer's callback never runs.
CancelledTimerSilent == evt.cb = "timer" => evt.id \notin deleted
=============================================================================
