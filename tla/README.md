# TLA+ models of the CppNet epoll reactor

This directory has the TLA+ models of the Linux reactor in `src/CppNet/net`
and the TLC configurations that check them. The code is `CEpoll.cpp`,
`SocketImpl.cpp`, `SocketBase.cpp` and `EventHandler.h`. The musikcube
sources in `src/musikcube` are a separate Win32 media player that ships in the
same tree and does not interact with the reactor. Its one stateful part,
win32cpp's `Window.cpp`, has a module of its own (`Window.tla`, section 2).
The rest of it is not modelled (see the end of this file).

## 1. Inventory

### Components and their state

| Component | Source | State it keeps | Operations |
|---|---|---|---|
| Event handler | `EventHandler.h` | `_event_flag_set` (EVENT_FLAG bits), `_data` (its own `epoll_event` record), `_buffer`, `_off_set`, a weak `_client_socket` | data only |
| Socket | `SocketImpl.cpp`, `SocketBase.cpp` | fd, read and write handlers, `IsInActions`, memory pool | `SyncRead`, `SyncWrite`, `SyncConnection`, `SyncDisconnection`, `Recv`, `Send`, destructor |
| Reactor registration | `CEpoll.cpp` 89-241, 302-372 | the epoll fd; the kernel's registration of each fd | `AddRecvEvent`, `AddSendEvent`, `AddAcceptEvent`, `AddConnection`, `AddDisconnection`, `DelEvent`, `_AddEvent`, `_ModifyEvent`, `_ReserOneShot`, timer add/remove |
| Reactor loop | `CEpoll.cpp` 243-300, 374-458 | `_run`, `_task_list` under `_mutex`, the wake pipe, the timer list | `ProcessEvent`, `_DoEvent`, `_DoTimeoutEvent`, `_DoTaskList`, `PostTask`, `WakeUp`, `Init`, `Dealloc` |
| Timer subsystem | `Timer.cpp` (not in the sources) | timers ordered by deadline | `AddTimer`, `DelTimer`, `TimeoutCheck` |
| Buffer, memory pool | not in the sources | chunk list, read and write cursors | `Write`, `GetFreeMemoryBlock`, `MoveWritePt`, `GetUseMemoryBlock`, `Clear` |
| Acceptor | `CEpoll.cpp` 155-166, 321-333, 420-423; `CAcceptSocket` is not in the sources | listening fd, accept handler | `AddAcceptEvent`, `_Accept` |

### How the components interact

The application calls `SyncRead`, `SyncWrite`, `SyncConnection` and
`SyncDisconnection` on a socket. Each one sets bits in a handler's flag set
and calls the reactor's registration functions. These call `epoll_ctl`.
Every handler has its own `epoll_event` record. The kernel, however, keeps
one registration per fd, so the record passed last decides what the fd
watches. `ProcessEvent` waits in `epoll_wait` and resolves each returned
entry through `data.ptr` to the socket's weak pointer. Then it calls `Recv`
on EPOLLIN and `Send` on EPOLLOUT. `Recv` and `Send` do the `readv` and
`writev` calls. Each makes one completion callback into the upstream layer
(`CCppNetImpl::_ReadFunction` / `_WriteFunction`, not in the sources), and
passes the flag set as the error word. That upstream layer re-arms reads and
starts writes, either from the callbacks or through posted tasks.

### What is hard

- The registration protocol is one-shot and edge-triggered. It relies on
  EEXIST and ENOENT fallbacks. Because there are two records per fd, a later
  `EPOLL_CTL_MOD` can silently drop an earlier one.
- Transport outcomes can come in any order: partial writes, EWOULDBLOCK, a
  FIN that arrives together with data, a reset, and connect errors that are
  immediate, late or successful.
- Callbacks run inside the batch. A socket can be destroyed while its events,
  or its bound timers, are still pending.
- Tasks are posted from other threads and woken through the pipe. Timers are
  collected before the wait and run after dispatch.

### What makes each component correct

- Registration: `IsInActions` agrees with the kernel, a registration never
  fails, and an armed direction stays armed until it fires.
- Socket: the bytes the peer sent before its FIN are all delivered. The bytes
  written all reach the peer. A connect produces one truthful completion.
  `Send` returns to the loop.
- Loop: posted tasks run, in FIFO order. A removed timer does not fire. A
  stale event or timer never touches a destroyed socket.

## 2. Modules and runs

### `EpollSocket.tla` (with `MCEpollSocket.tla`)

This module covers the registration layer, the dispatch of one `epoll_wait`
batch, and the transport paths of `CSocketImpl`.

- Code state:
  - `alive`: the weak pointer resolves.
  - `inActions`.
  - `rdContent` and `wrContent`: the two `epoll_event` records.
  - `rdFlags` and `wrFlags`.
  - `wbuf`: the count of unsent bytes.
- Reactor thread:
  - `pc` is one of `wait`, `dispatch` or `send`.
  - `batch`: the entries `epoll_wait` returned.
  - The locals of the `Send` loop.
- Kernel, as the environment:
  - `ep[s]` is the single epoll item of the fd: registered, watched bits,
    disabled by ONESHOT, queued on the ready list.
  - `conn`, `rx`, `tx` and `fin` describe the TCP socket.
  - `Readiness` is `tcp_poll`.
  - `EpAdd`, `EpMod` and `EpDel` are `epoll_ctl`. ADD and MOD re-poll.
  - `Wake` is `ep_poll_callback`.
- Peer actions: `PeerSend`, `PeerShutdown` (FIN), `PeerRead`, `PeerReset`.
- Code actions, each one a whole C++ function:
  - `SyncRead` calls `AddRecvEvent`, through `ArmDirection`, `AddEvent`,
    `ModifyEvent` and `ResetOneShot`.
  - `SyncWrite` either queues and calls `AddSendEvent`, or starts `Send`
    inline.
  - `SyncConnection` calls `AddConnection`, with its three outcomes.
    `CheckConnect` is the blocking `poll` and `SO_ERROR`. A poll interrupted
    by a signal (EINTR) falls through and passes while the connect is still
    in progress.
  - `SyncDisconnection` calls `AddDisconnection`, which calls `DelEvent`
    and then `Recv`.
  - `Destroy` is the destructor.
  - `EpollWait`.
  - `DoEvent` is one `_DoEvent` entry: `Recv` for EPOLLIN, `Send` for
    EPOLLOUT.
  - `Send` is split into `SendWritev` (one loop iteration) and `SendEnd`
    (the callback). The loop can then interleave with the peer, which is
    what decides its outcome.
  - `Recv` is atomic. Its `readv` loop is `ReadLoop`, a RECURSIVE operator
    over the queued bytes, the buffer's free length and the growth
    increment. The buffer grows only when its tail is full. The increment
    doubles while it is below `ExpandMax`. A short read stops the loop.
    `ReadvEmpty` gives what `readv` returns on an empty queue: the error,
    0 after a FIN, or EAGAIN. The buffer is not in the sources, so its free
    length is a free choice on each `Recv`.
- Acceptor (`acceptIn`, `listening`, `backlog`, `acceptEntry`):
  - `AddAcceptEvent` registers the listening fd with plain EPOLLIN, with no
    ET and no ONESHOT, and marks it in actions.
  - `AcceptReady` is that level-triggered item: `epoll_wait` reports it
    while connections wait.
  - `DoAccept` is the low-bit tagged entry of `_DoEvent`, on which
    `_Accept` drains the queue. `_Accept` is not in the sources, so it is
    spec_modelled. The accepted sockets are not followed.
  - `PeerConnect` is a client that queues a connection.
- History variables: `sent`, `got`, `written`, `delivered`, `wantRead`,
  `ctlFailed`, `localClose`, and `evt`, the callback made by the last
  step.

The application's calls are modelled as free choices on the reactor thread
between batches (`pc = "wait"`); the model makes no such call from inside a
callback, where the real code may. They are not fair. The reactor gets weak
fairness: it is a dedicated thread that runs whenever epoll has something for
it. `Spec` leaves the peer free to stop reading; `PeerKeepsReading` is weak
fairness of the peer's reading, and `FairSpec` is `Spec` with it. The
`epoll_socket` run checks `Spec`: `WriteDrains` takes `PeerKeepsReading` as
its own hypothesis, and `AcceptDrains` takes instead that the reactor returns
to `epoll_wait` infinitely often, which a `Send` loop on a peer that stopped
reading denies (`send_spins`, which checks `Spec`). The other `EpollSocket`
violation runs use `FairSpec`, so that their traces cannot blame a silent
peer.

Bounds in `MCEpollSocket.tla`: one socket, `MaxBytes = 2`, `SendCap = 1`,
`ExpandLen = 1` and `ExpandMax = 2`. With a free length of 0 or 1, the two
queued bytes then take two `readv` calls with a growth between them, and an
exact fill is followed by one more `readv`. The real values of
`__linux_read_buff_expand_len` and `__linux_read_buff_expand_max` are in
`CNConfig.h`, which is not among the sources. The doubling test
`expand_buff_len < max` lets the last increment overshoot a cap that is not
the first increment times a power of two. That hazard is listed without a
property.
Two bytes and a one-byte send queue are the smallest values for which a
`SyncWrite` gets a partial `writev` followed by EWOULDBLOCK, and for which the
peer can send data and then a FIN. `PerEpoll = FALSE` is the library's
default mode. In per-epoll mode `InActionsMatchesEpoll` does not hold: after
`DelEvent` the handler's record keeps EPOLLIN, and `_ReserOneShot` then does
nothing. The runs keep to the default mode. Deadlock checking is off, for one reason: once the only socket
is destroyed, the reactor blocks in `epoll_wait` forever. That is a legal
end.

| Run | cfg | Expect | What it shows |
|---|---|---|---|
| `epoll_socket` | `MCEpollSocket.cfg` | pass, about 73k states | `TypeOK`. `InActionsMatchesEpoll`: `IsInActions` holds exactly when the fd is registered, over every sequence of calls and peer events. `RegistrationSucceeds`: `AddRecvEvent` and `AddSendEvent` never return false, because the EEXIST and ENOENT fallbacks cover re-arming after a disconnect. `ReadDrains`: a read completion leaves the receive queue empty, whatever the buffer's free length and growth. `WriteDrains`: every written byte reaches a peer that keeps reading, unless the connection failed or reset or the socket was destroyed. `AcceptDrains`: once the listening socket is registered, every waiting connection is accepted as long as the reactor keeps returning to `epoll_wait`; no fairness of the peer is assumed. |
| `read_interest_clobbered` | `MCEpollSocket_ArmedReadKeepsInterest.cfg` | violation | Call `SyncRead`, then `SyncWrite` of 2 bytes with a 1-byte send queue. `Send` hits EWOULDBLOCK and calls `AddSendEvent`. Its MOD replaces EPOLLIN with EPOLLOUT, and the armed read is gone. |
| `rdhup_drops_data` | `MCEpollSocket_PeerCloseDeliversAll.cfg` | violation | The peer sends a byte, then FIN. `epoll_wait` reports IN and RDHUP together. `Recv` takes the EVENT_DISCONNECT branch and reports the close without reading the byte. |
| `connect_failure_unreported` | `MCEpollSocket_ConnectCallbackTruthful.cfg` | violation | TLC's shortest trace goes through `CheckConnect`'s EINTR fall-through: the connect is reported as a success and then fails. A second path gives the same result: `connect` fails at once and no callback is made, so EVENT_CONNECT stays set and the next `Recv` reports a connect without ERR_CONNECT_FAILED. |
| `send_spins` | `MCEpollSocket_SendReturns.cfg` | violation | `Send` keeps looping on EWOULDBLOCK. With a peer that stops reading, the reactor thread never returns to `epoll_wait`. |

Each property of the passing run has a mutant in `PROJECT.json`. Each mutant
is a plausible bug, and TLC finds its property violated:

- `Recv` that does not consume the queue.
- `DelEvent` that forgets `SetInActions(false)`.
- `_ReserOneShot` without its ENOENT fallback.
- A `Send` loop that ends after one `writev`.
- `AddAcceptEvent` that marks the socket in actions but skips `_AddEvent`.
- A read loop that never grows a full buffer. Its `readv` of an empty
  region returns 0, which is taken as a close, and the bytes stay queued.

### `ReactorLoop.tla` (with `MCReactorLoop.tla`) and `TaskQueue.tla`

`ReactorLoop` models the reactor thread of `CEpoll::ProcessEvent` and the
threads that talk to it.

- The reactor's `pc` follows the loop:
  - `LoopTop` checks `_run`, calls `TimeoutCheck` and picks `wait_time`.
    When `_run` is false it closes the fds instead.
  - `WaitEvents` is epoll_wait returning `res > 0`. `WaitTimeout` is it
    returning 0.
  - Then come the two orders of the code. With `res > 0` the order is
    `_DoEvent`, `_DoTaskList`, `_DoTimeoutEvent` (phases `events`,
    `tasksA`, `timersA`). Otherwise it is `_DoTimeoutEvent`, then
    `_DoTaskList` (phases `timersB`, `tasksB`).
  - Each entry of a batch, each task and each expired timer is one step,
    because a callback can change the state the next entry sees.
  - `SwapTasks` is the swap under `_mutex`.
- Other threads:
  - `PostPush` and `PostWake` are the two halves of `PostTask`. The
    non-blocking pipe write drops the byte when the pipe is full.
  - `Dealloc` and `DeallocWake` are the two halves of `Dealloc`.
- The application acts only on the reactor thread, right after a callback
  (`inCb`). It can call `AddTimer` (a callback timer, one-shot or
  repeating, or a timeout bound to a socket's read or write handler),
  `DelTimer`, and `Destroy`, which drops the last reference to a socket.
- The environment: `SockReady` (an fd gets an epoll event) and `Elapse` (a
  deadline passes).
- `Timer.cpp` is not in the sources. `TimeoutCheck`, `AddTimer` and
  `DelTimer` follow spec section 4.4: expired entries are handed out, and
  repeating ones are reinserted.
- Socket I/O is reduced to "a completion callback ran". `EpollSocket`
  models what `Recv` and `Send` do. Here only their `EVENT_TIMER`
  branches appear, as `RecvTimeout` and `SendTimeout`.
- A use of freed memory (undefined behaviour) is a choice between a crash
  and a read that happens to find the weak pointer empty. A null
  dereference is a crash. A crash ends the process (`pc = "crashed"`).

`TaskQueue` is the abstract promise for posted tasks, from spec sections 3
and 4.2. It is a FIFO queue that a live reactor keeps draining, and it is
discarded on stop. `ReactorLoop` implements it under the mapping
`queue <- funcVec \o taskList` and `open <- pc \notin {closed, crashed}`.
The `TaskQueueSpec` property checks this, including the abstract weak
fairness on `Run`. So every queued task runs while the loop lives, and in
posting order.

Fairness:
- The reactor is a dedicated thread: `WF(Reactor)`.
- A poster or the `Dealloc` caller does not stop between its two halves:
  `WF(PostWake(p))` and `WF(DeallocWake)`.
- Real time passes: `WF(Elapse(t))`.
- The application and the peers get no fairness.
- Signals that interrupt `epoll_wait` (EINTR) are not modelled. They
  would only add wake-ups, which would weaken the liveness checks.

Bounds:
- The passing run has two posters, two tasks and a one-byte pipe. So a
  post can race the swap, and the second wake byte finds the pipe full.
  It has one socket and one timer id, which still gives all six timer
  kinds across runs: about 89k states.
- The stale-batch run needs two sockets in one batch.
- The timer runs need one socket and one timer.
- Deadlock checking is off. The loop may legally end closed or crashed,
  or block in an indefinite `epoll_wait` with nothing to do.

| Run | cfg | Expect | What it shows |
|---|---|---|---|
| `reactor_loop` | `MCReactorLoop.cfg` | pass | `TypeOK`. `TaskQueueSpec`: the two-stage `_task_list`/`func_vec` queue refines `TaskQueue`, so no posted task is lost, duplicated, reordered or left waiting in a live loop, despite the race between posting and the swap and the dropped wake byte. `DeallocStopsLoop`: `Dealloc` ends a loop blocked in an indefinite wait. `RepeatingTimerFires`: a repeating timer keeps firing until it is deleted. |
| `stale_batch_entry` | `MCReactorLoop_StaleEntryDropped.cfg` | violation | Sockets s1 and s2 are in one batch. The read callback of s1 destroys s2. `_DoEvent` then calls `Lock()` on the weak pointer stored inside s2's freed handler. |
| `bound_timer_after_destroy` | `MCReactorLoop_BoundTimerDropped.cfg` | violation | A timeout is bound to a socket, and the socket is destroyed. When the timeout expires, `_DoTimeoutEvent` dereferences the null handler. |
| `cancelled_timer_fires` | `MCReactorLoop_CancelledTimerSilent.cfg` | violation | A repeating timer has been collected by `TimeoutCheck`. A read callback deletes it, and `DelTimer` returns true. Its callback runs anyway in the same iteration. |

The mutants of `reactor_loop`, each found by TLC:

- `DelTimer` that leaves the entry among the elapsed deadlines.
- The task swap done as a copy, which leaves `_task_list` full.
- `Dealloc` without `WakeUp`.
- An indefinite wait chosen whenever nothing has elapsed, which drops the
  `wait_time == 0` half of the condition.

### `Window.tla` (with `MCWindow.tla`)

`win32cpp::Window` wraps an HWND. All wrapped windows share four pieces of
global state, and the module keeps them:

- `map` is `sHandleToWindowMap`, a function whose domain is its keys. It grows
  with `@@` and shrinks with `Restrict`.
- `lastUnder` is `sLastWindowUnderMouse`.
- `capture` is `::GetCapture()`.
- `measure` is `sMeasureItemHwnd`.

On the OS side, `tracked` holds the HWNDs with a pending `TrackMouseEvent`
(TME_LEAVE) request. `OnMouseEnterBase` makes the request unless its HWND
holds the capture. One WM_MOUSELEAVE consumes it, and destroying the HWND
cancels it.

Per Window it keeps `handle` (`windowHandle`), and `colored`, the Windows
given a background colour by `SetBackgroundColor`. `OnControlColor` returns
a brush exactly for those, and `CtlColor` then returns at once. On the OS side it keeps `live`
HWNDs and `subclassedBy`, which records whose `StaticWindowProc` an HWND was
subclassed to. `frame` is the `StaticWindowProc` call in progress, with the
iterator it took. `frame.erased` records that the iterator's node was erased
under it.

Everything runs on the GUI thread, so the interleavings come from
re-entrancy and from the operating system:

- **Registration**: `Initialize` is `Register` (operator[] then
  `windowHandle`) plus `SubclassWindowProc`.
- **`StaticWindowProc`**: `Found` is the `find` hit. Each case of the
  switch is its own action:
  - `DrawItem`, `Notify` and `CtlColor` look the sender up with
    `operator[]` (`Index`, which inserts a NULL entry). They either answer
    through the sender and return, or go on to `PreWindowProcBase`
    (`Proceed`).
  - `MeasureItem` is the measure-item case.
  - `Paint` (WM_ERASEBKGND, WM_PAINT) calls the receiver and returns.
  - `Dispatch` is every other message.
  - `Command` is WM_COMMAND in `PreWindowProc`.
- **Application calls** (`Initialize`, `Destroy`, `BeginCapture`,
  `EndCapture`, `ForceMeasureItem`) may run at top level or from a handler
  inside a `StaticWindowProc` call. Between those calls, `Dispatch` /
  `Command` / `MeasureItem` take the iterator, then `WindowProcStep` and
  `PostWindowProcStep` use it.
- **`Delete`** (`~Window`) happens at top level, after `Destroy`, as
  Container does.
- **The OS** (`ExternalDestroy`, `ForeignCreate`, `OsCapture`, `OsRelease`)
  destroys HWNDs behind the wrapper (a parent destroyed, DefWindowProc on
  WM_CLOSE). It also creates unwrapped controls, hands freed HWND values out
  again and lets a control's own procedure take the capture.
- **Mouse input** (`MouseMove`, `MouseLeave`, `Button`) is
  `PostWindowProcBase`'s dispatch to the capture, the hover window or the
  window under the cursor. It is handled at top level.
- **`WindowIsValid`** reads `sAllChildWindows`. Container maintains that
  list and is not in the sources, so membership is a free choice, except
  that a deleted Window is never a member.

A call through a NULL or deleted Window, or through an erased iterator, is
undefined behaviour. It is recorded in `touched`, and the GUI thread stops
(`pc = "crashed"`). That is why deadlock checking is off.

Two Windows and two HWND values are enough. A value can be freed and reused,
either by the other Window or by a foreign control, and a handler can destroy
a window while another is live. The pass run has about 1.03M states and takes
about 50 s.

With `tracked` in the model, TLC shows a hover that never ends, in four
steps: `Initialize(w1)`, `BeginCapture(w1)`, a WM_MOUSEMOVE that enters w1,
and `EndCapture(w1)`. w1 was entered while it held the capture, so no leave
request was made. When the pointer then leaves for an area no Window wraps,
`OnMouseExitBase` never runs. This contradicts the comment at line 234,
"necessary to generate reliable OnMouseEnter/Leave() events". The project
keeps no run for it: it is at its limit of runs, and every violation run
holds a finding that is harder to reach. The hazard is listed in
`PROJECT.json` with this trace.

| Run | cfg | Expect | What it shows |
|---|---|---|---|
| `window_registry` | `MCWindow.cfg` | pass | `TypeOK`, which includes that only real HWNDs map to Windows. `RegistryConsistent`: every live subclassed HWND is registered to the Window that subclassed it. This holds through external destruction, HWND reuse and the NULL entries that `operator[]` inserts. |
| `destroy_in_handler` | `MCWindow_IteratorValid.cfg` | violation | While `StaticWindowProc` dispatches to w1, a handler calls `w1.Destroy()`. The map node is erased, and `it->second->WindowProc` runs through the dead iterator. |
| `freed_window_reached` | `MCWindow_FreedWindowUnused.cfg` | violation | `ForceMeasureItem(w1)` gets no answer, so `sMeasureItemHwnd` stays set. w1's HWND is destroyed by the OS, so `Destroy` fails and leaves the map entry, and w1 is deleted. The next WM_MEASUREITEM, sent to w2, calls `OnMeasureItem` on the deleted w1. No HWND reuse is needed. |

Mutants of `window_registry`, each found by TLC:

- `Register` that registers under `windowHandle` before assigning it.
- `Register` that uses `insert`, which keeps a stale entry for a reused
  HWND.

### Open work, most important first

1. **Extra write callback.** After `Send` drains a buffer whose EPOLLOUT
   it re-armed, it makes a second write callback for nothing
   (`SocketImpl.cpp:234`). Only a violation run would show it.
2. **Acceptor in the loop.** The accept entry is in `EpollSocket`. Putting
   it into `ReactorLoop`'s batch with the stale-entry path costs more
   states than a run's time allows.
3. **Timer refinement.** An abstract timer specification (armed, fires,
   cancelled) that the spec-modelled Timer subsystem refines, except for
   the cancellation window that `cancelled_timer_fires` shows.
4. **`Window` nesting.** Let a handler send a message, so two
   `StaticWindowProc` calls are nested.

## 3. What is not modelled, and why

- **The other musikcube sources** (`Win32Exception.hpp`, `PreferenceKeys.h`,
  `M4aDecoder.h`) hold no state that changes.
- **The rest of `Window.cpp`**: geometry (`SetRectangle`, `MoveTo`,
  `Resize`, the rect getters), `Show`, `Enable`, `SetVisible`, captions,
  fonts, menus, layout flags, focus and the keyboard cases of
  `PostWindowProcBase`. Each is a Win32 call on the window's own HWND, or a
  signal emission on the window itself. None reads or writes the registry,
  the hover, capture or measure state, or the set of live HWNDs. Modelling
  them would add actions that change nothing the model keeps.
- **Brush lifetime.** `SetBackgroundColor` deletes and recreates the
  brush, and `~Window` deletes it. These are GDI handles that only the
  owning Window uses, so only whether a brush exists is kept.
- **Signal suppression** (`SuppressSignal`, `EMIT_SIGNAL_IF_NOT_SUPPRESSED`)
  needs the signal library, which is not in the sources. Any emission
  clears every suppression. So in `OnMouseMovedBase`, MouseEnter consumes a
  suppression meant for MouseMoved. This hazard is listed without a
  property.
- **Buffer contents** are reduced to byte counts. A socket's stream is FIFO
  in the buffer and in TCP, so order is not at stake. Payload bytes are
  never distinguished.
- **Address validation** in `SyncConnection` and `AddConnection` (an empty
  or over-long ip) returns before any state changes. The `Lock()` failures on
  an unbound `_client_socket` cannot happen in the modelled call orders,
  because every caller binds the handler first.
- **`EBADMSG`** from `readv`/`writev` is not a TCP outcome. The other errors
  map to the modelled branches: ECONNRESET and EPIPE.
- **EPOLLERR/EPOLLHUP** are reported by the kernel, but `_DoEvent` ignores
  them. Only IN, OUT and RDHUP are modelled.
- **Deadline order and real time.** Among timers that expire together, the
  order is free, and durations are not measured. The properties are about
  whether a timer fires, not when.
- **`CSocketImpl::PostTask`** is a one-line forward to `CEpoll::PostTask`.
