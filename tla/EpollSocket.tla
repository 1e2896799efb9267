----------------------------- MODULE EpollSocket -----------------------------
(***************************************************************************)
(* The CppNet Linux reactor core for connected sockets: the epoll          *)
(* registration layer of CEpoll (AddRecvEvent, AddSendEvent, _AddEvent,    *)
(* _ModifyEvent, _ReserOneShot, DelEvent, AddConnection,                   *)
(* AddDisconnection), the dispatch of one epoll_wait batch (_DoEvent) and  *)
(* the transport paths of CSocketImpl (SyncRead, SyncWrite, SyncConnection,*)
(* SyncDisconnection, Recv, Send, the destructor).                         *)
(*                                                                         *)
(* The kernel is the environment: one epoll item per descriptor (only one  *)
(* registration per fd exists, whichever epoll_event record was passed     *)
(* last), edge-triggered readiness, EPOLLONESHOT disabling the item when   *)
(* it fires, and a TCP peer that sends, half-closes, reads or resets.      *)
(* Bytes are counted, never named: the properties are about how many bytes *)
(* reached whom, and the byte stream of one socket is FIFO.                *)
(*                                                                         *)
(* The upstream layer (CCppNetImpl::_ReadFunction/_WriteFunction) is not   *)
(* in the sources; a completion is recorded in evt and the application's   *)
(* next calls are free choices taken on the reactor thread between         *)
(* batches, which is where callbacks and posted tasks run.                 *)
(***************************************************************************)
EXTENDS Naturals, FiniteSets

CONSTANTS
  Sock,      \* the sockets (model values)
  MaxBytes,  \* bound on bytes the peer sends and on bytes the app writes
  SendCap,   \* capacity of the kernel send queue of a socket
  PerEpoll,  \* CEpoll::_per_epoll: one epoll per thread, no EPOLLONESHOT
  ExpandLen, \* __linux_read_buff_expand_len: the first growth increment
  ExpandMax  \* __linux_read_buff_expand_max: no doubling from this value on

ASSUME /\ Sock # {}
       /\ MaxBytes \in Nat \ {0}
       /\ SendCap \in Nat \ {0}
       /\ ExpandLen \in Nat \ {0} /\ ExpandMax \in Nat
       /\ PerEpoll \in BOOLEAN

\* EVENT_FLAG values of EventHandler.h that this module can raise.
Flags == {"READ", "WRITE", "CONNECT", "DISCONNECT",
          "BREAK", "FAILED", "CLOSE"}
\* Bits of epoll_event.events used by CEpoll.
EpBits == {"IN", "OUT", "RDHUP", "ET", "ONESHOT"}
Watched(ev) == ev \cap {"IN", "OUT", "RDHUP"}

VARIABLES
  \* --- CSocketImpl / CEventHandler state (code) ---
  alive,      \* the socket object exists: weak pointers to it resolve
  inActions,  \* CSocketBase::IsInActions()
  rdContent,  \* ((epoll_event*)_read_event->_data)->events
  wrContent,  \* ((epoll_event*)_write_event->_data)->events
  rdFlags,    \* _read_event->_event_flag_set
  wrFlags,    \* _write_event->_event_flag_set
  wbuf,       \* _write_event->_buffer->GetCanReadLength()
  \* --- the reactor thread ---
  pc,         \* "wait" (in or around epoll_wait), "dispatch", "send"
  batch,      \* events returned by the last epoll_wait, not yet dispatched
  sendSock,   \* the socket whose Send loop is running
  sendErr,    \* Send's local err
  sendStop,   \* Send's loop left by break
  \* --- kernel and peer (environment) ---
  ep,         \* the epoll item of each fd: [reg, ev, dis, rdy]
  conn,       \* "none", "connected", "failed" (connect error), "reset"
  rx,         \* bytes in the kernel receive queue
  tx,         \* bytes in the kernel send queue
  fin,        \* the peer's FIN has arrived
  \* --- history ---
  sent,       \* bytes the peer has sent
  got,        \* bytes the peer has received
  written,    \* bytes the application passed to SyncWrite
  delivered,  \* bytes Recv moved into the read buffer
  wantRead,   \* a SyncRead armed the read side and no IN fired since
  ctlFailed,  \* some AddRecvEvent/AddSendEvent returned false
  localClose, \* SyncDisconnection was called
  evt,        \* the completion callback made by the last step, if any
  \* --- the listening socket (CAcceptSocket) ---
  acceptIn,   \* EPOLLIN in the accept handler's epoll_event: the listening
              \* fd is registered, level-triggered
  listening,  \* the acceptor socket's IsInActions()
  backlog,    \* connections wait in its accept queue (kernel)
  acceptEntry \* the last epoll_wait reported the listening fd, undispatched

code    == <<alive, inActions, rdContent, wrContent, rdFlags, wrFlags, wbuf>>
reactor == <<pc, batch, sendSock, sendErr, sendStop>>
kernel  == <<ep, conn, rx, tx, fin>>
history == <<sent, got, written, delivered, wantRead, ctlFailed, localClose,
             evt>>
acceptor == <<acceptIn, listening, backlog, acceptEntry>>
vars    == <<code, reactor, kernel, history, acceptor>>

NoEvt == [dir |-> "none"]
Callback(d, s, err, n) == [dir |-> d, s |-> s, err |-> err, n |-> n]

-----------------------------------------------------------------------------
(***************************************************************************)
(* The kernel: readiness of a TCP socket and the epoll_ctl operations.     *)
(***************************************************************************)

\* tcp_poll: what the socket reports as ready.
Readiness(s) ==
  IF conn[s] \in {"failed", "reset"} THEN {"IN", "OUT", "RDHUP"}
  ELSE IF conn[s] = "none" THEN {}
  ELSE    {b \in {"IN"}    : rx[s] > 0 \/ fin[s]}
       \cup {b \in {"RDHUP"} : fin[s]}
       \cup {b \in {"OUT"}   : tx[s] < SendCap}

Unregistered == [reg |-> FALSE, ev |-> {}, dis |-> FALSE, rdy |-> FALSE]

\* ADD and MOD re-poll the file and queue the item if it is already ready.
EpAdd(e, ev, R) ==
  IF e.reg THEN [ep |-> e, err |-> "EEXIST"]
  ELSE [ep |-> [reg |-> TRUE, ev |-> ev, dis |-> FALSE,
                rdy |-> Watched(ev) \cap R # {}], err |-> "OK"]

EpMod(e, ev, R) ==
  IF ~e.reg THEN [ep |-> e, err |-> "ENOENT"]
  ELSE [ep |-> [reg |-> TRUE, ev |-> ev, dis |-> FALSE,
                rdy |-> e.rdy \/ Watched(ev) \cap R # {}], err |-> "OK"]

EpDel(e) ==
  IF ~e.reg THEN [ep |-> e, err |-> "ENOENT"]
  ELSE [ep |-> Unregistered, err |-> "OK"]

\* ep_poll_callback: a wakeup queues an enabled item watching the bits.
Wake(e, bits) ==
  [e EXCEPT !.rdy = @ \/ (e.reg /\ ~e.dis /\ Watched(e.ev) \cap bits # {})]

\* What epoll_wait reports for a queued item.
Reported(s) == Readiness(s) \cap Watched(ep[s].ev)

-----------------------------------------------------------------------------
(***************************************************************************)
(* CEpoll registration helpers.  Each returns the handler's new epoll      *)
(* record, the new epoll item and the boolean the C++ function returns.    *)
(***************************************************************************)
Reg(c, e, ok) == [content |-> c, ep |-> e, ok |-> ok]

\* CEpoll::_ModifyEvent: MOD, and ADD when the fd is not registered.
ModifyEvent(c, e, flag, R) ==
  LET c2 == c \cup flag \cup {"ET"}
      m  == EpMod(e, c2, R)
      r  == IF m.err = "ENOENT" THEN EpAdd(e, c2, R) ELSE m
  IN  Reg(c2, r.ep, r.err = "OK")

\* CEpoll::_AddEvent (connected sockets): ADD, and MOD on EEXIST.
AddEvent(c, e, flag, R) ==
  LET c2 == c \cup flag \cup {"ET"}
      a  == EpAdd(e, c2, R)
  IN  IF a.err = "EEXIST" THEN ModifyEvent(c2, e, flag, R)
      ELSE Reg(c2, a.ep, a.err = "OK")

\* Mutant of ResetOneShot: no ENOENT fallback to _ModifyEvent.
ResetOneShotNoRetry(c, e, flag, R) ==
  IF PerEpoll THEN Reg(c, e, TRUE)
  ELSE LET c2 == c \cup {"ONESHOT"}
           m  == EpMod(e, c2, R)
       IN  Reg(c2, m.ep, m.err = "OK")

\* CEpoll::_ReserOneShot: a no-op in per-epoll mode.
ResetOneShot(c, e, flag, R) ==
  IF PerEpoll THEN Reg(c, e, TRUE)
  ELSE LET c2 == c \cup {"ONESHOT"}
           m  == EpMod(e, c2, R)
       IN  IF m.err = "ENOENT"
           THEN ModifyEvent(c2, e, {"ONESHOT"} \cup flag, R)
           ELSE Reg(c2, m.ep, TRUE)

\* The common body of AddRecvEvent and AddSendEvent: register the
\* direction if its record lacks the bit, then re-apply the one-shot flag;
\* the first result is overwritten by the second.
ArmDirection(c, e, inAct, bit, flag, R) ==
  LET r1 == IF bit \in c THEN Reg(c, e, FALSE)
            ELSE IF inAct THEN ModifyEvent(c, e, flag, R)
            ELSE AddEvent(c, e, flag, R)
  IN  ResetOneShot(r1.content, r1.ep, {bit}, R)

AddRecvEvent(s) ==
  ArmDirection(rdContent[s], ep[s], inActions[s], "IN", {"IN", "RDHUP"},
               Readiness(s))

AddSendEvent(s) ==
  ArmDirection(wrContent[s], ep[s], inActions[s], "OUT", {"OUT"},
               Readiness(s))

-----------------------------------------------------------------------------
(***************************************************************************)
(* CSocketImpl::Recv, entered with the read handler's flag set F.  The     *)
(* readv loop asks the buffer for its free region, grown by the current   *)
(* increment only when the tail chunk is full, and reads until a short     *)
(* read, EAGAIN, 0 or an error.  The buffer (not in the sources) is only   *)
(* its free length f; the increment doubles while below ExpandMax.         *)
(***************************************************************************)
\* What readv returns on an empty receive queue (or an empty region):
\* ECONNRESET / a connect error, 0 after a FIN, else EAGAIN.
ReadvEmpty(s) ==
  IF conn[s] \in {"failed", "reset"} THEN {"BREAK"}
  ELSE IF fin[s] THEN {"CLOSE"} ELSE {}

\* Mutant of ReadLoop: the buffer is never grown when its tail is full.
ReadLoopNoGrowth(s, q, f, x) ==
  IF q = 0 THEN [n |-> 0, err |-> ReadvEmpty(s)]
  ELSE IF f = 0 THEN [n |-> 0, err |-> {"CLOSE"}]
  ELSE [n |-> IF q < f THEN q ELSE f, err |-> {}]

\* The loop from a queue of q bytes, free length f and increment x: the
\* bytes read and the flags added.  A full region is read again.
RECURSIVE ReadLoop(_, _, _, _)
ReadLoop(s, q, f, x) ==
  LET expand == IF f = 0 THEN x ELSE 0
      len    == f + expand
  IN  IF q = 0 THEN [n |-> 0, err |-> ReadvEmpty(s)]
      ELSE IF q < len THEN [n |-> q, err |-> {}]
      ELSE LET next == ReadLoop(s, q - len, 0,
                                IF f = 0 /\ x < ExpandMax THEN 2 * x ELSE x)
           IN  [n |-> len + next.n, err |-> next.err]

\* Mutant of Recv: the bytes read are counted but not taken off the queue.
RecvKeepsQueue(s, F) ==
  \/ /\ "CONNECT" \in F
     /\ rdFlags' = [rdFlags EXCEPT ![s] = F \ {"CONNECT"}]
     /\ evt' = Callback("read", s, F, 0)
     /\ UNCHANGED <<rx, delivered>>
  \/ /\ "CONNECT" \notin F /\ "DISCONNECT" \in F
     /\ rdFlags' = [rdFlags EXCEPT ![s] = F \ {"DISCONNECT"}]
     /\ evt' = Callback("read", s, F, 0)
     /\ UNCHANGED <<rx, delivered>>
  \/ /\ F \cap {"CONNECT", "DISCONNECT"} = {}
     /\ "READ" \in F
     /\ \E f \in 0..MaxBytes :
          LET r == ReadLoop(s, rx[s], f, ExpandLen) IN
          /\ rdFlags' = [rdFlags EXCEPT ![s] = F]
          /\ rx' = rx
          /\ delivered' = [delivered EXCEPT ![s] = @ + r.n]
          /\ evt' = Callback("read", s, F \cup r.err, r.n)

Recv(s, F) ==
  \/ /\ "CONNECT" \in F
     /\ rdFlags' = [rdFlags EXCEPT ![s] = F \ {"CONNECT"}]
     /\ evt' = Callback("read", s, F, 0)
     /\ UNCHANGED <<rx, delivered>>
  \/ /\ "CONNECT" \notin F /\ "DISCONNECT" \in F
     /\ rdFlags' = [rdFlags EXCEPT ![s] = F \ {"DISCONNECT"}]
     /\ evt' = Callback("read", s, F, 0)
     /\ UNCHANGED <<rx, delivered>>
  \/ /\ F \cap {"CONNECT", "DISCONNECT"} = {}
     /\ "READ" \in F
     /\ \E f \in 0..MaxBytes :
          LET r == ReadLoop(s, rx[s], f, ExpandLen) IN
          /\ rdFlags' = [rdFlags EXCEPT ![s] = F]
          /\ rx' = [rx EXCEPT ![s] = @ - r.n]
          /\ delivered' = [delivered EXCEPT ![s] = @ + r.n]
          /\ evt' = Callback("read", s, F \cup r.err, r.n)

-----------------------------------------------------------------------------
Init ==
  /\ alive = [s \in Sock |-> TRUE]
  /\ inActions = [s \in Sock |-> FALSE]
  /\ rdContent = [s \in Sock |-> {}]
  /\ wrContent = [s \in Sock |-> {}]
  /\ rdFlags = [s \in Sock |-> {}]
  /\ wrFlags = [s \in Sock |-> {}]
  /\ wbuf = [s \in Sock |-> 0]
  /\ pc = "wait"
  /\ batch = [s \in Sock |-> {}]
  /\ sendSock \in Sock
  /\ sendErr = {}
  /\ sendStop = FALSE
  /\ ep = [s \in Sock |-> Unregistered]
  \* an accepted socket is connected; a client socket must connect first
  /\ conn \in [Sock -> {"none", "connected"}]
  /\ rx = [s \in Sock |-> 0]
  /\ tx = [s \in Sock |-> 0]
  /\ fin = [s \in Sock |-> FALSE]
  /\ sent = [s \in Sock |-> 0]
  /\ got = [s \in Sock |-> 0]
  /\ written = [s \in Sock |-> 0]
  /\ delivered = [s \in Sock |-> 0]
  /\ wantRead = [s \in Sock |-> FALSE]
  /\ ctlFailed = FALSE
  /\ localClose = [s \in Sock |-> FALSE]
  /\ evt = NoEvt
  /\ acceptIn = FALSE /\ listening = FALSE
  /\ backlog = FALSE /\ acceptEntry = FALSE

-----------------------------------------------------------------------------
(***************************************************************************)
(* The application's calls, made on the reactor thread (from a completion  *)
(* callback or a posted task) while it is not inside epoll_wait's batch.   *)
(***************************************************************************)
AppTurn(s) == pc = "wait" /\ alive[s]

\* CSocketImpl::SyncRead -> CEpoll::AddRecvEvent
SyncRead(s) ==
  /\ AppTurn(s)
  /\ conn[s] # "none"
  /\ LET r == AddRecvEvent(s) IN
       /\ rdContent' = [rdContent EXCEPT ![s] = r.content]
       /\ ep' = [ep EXCEPT ![s] = r.ep]
       /\ inActions' = [inActions EXCEPT ![s] = @ \/ r.ok]
       /\ wantRead' = [wantRead EXCEPT ![s] = @ \/ r.ok]
       /\ ctlFailed' = (ctlFailed \/ ~r.ok)
  /\ rdFlags' = [rdFlags EXCEPT ![s] = @ \cup {"READ"}]
  /\ evt' = NoEvt
  /\ UNCHANGED <<acceptor, alive, wrContent, wrFlags, wbuf, reactor, conn, rx,
                 tx, fin, sent, got, written, delivered, localClose>>

\* CSocketImpl::SyncWrite: append k bytes; queue behind unsent bytes and
\* arm EPOLLOUT, or else try Send at once.
SyncWrite(s, k) ==
  /\ AppTurn(s)
  /\ conn[s] # "none"
  /\ written[s] + k <= MaxBytes
  /\ written' = [written EXCEPT ![s] = @ + k]
  /\ wbuf' = [wbuf EXCEPT ![s] = @ + k]
  /\ wrFlags' = [wrFlags EXCEPT ![s] = @ \cup {"WRITE"}]
  /\ \/ /\ wbuf[s] > 0
        /\ LET r == AddSendEvent(s) IN
             /\ wrContent' = [wrContent EXCEPT ![s] = r.content]
             /\ ep' = [ep EXCEPT ![s] = r.ep]
             /\ ctlFailed' = (ctlFailed \/ ~r.ok)
        /\ inActions' = [inActions EXCEPT ![s] = TRUE]
        /\ UNCHANGED reactor
     \/ /\ wbuf[s] = 0
        /\ pc' = "send"
        /\ sendSock' = s
        /\ sendErr' = wrFlags[s] \cup {"WRITE"}
        /\ sendStop' = FALSE
        /\ UNCHANGED <<wrContent, ep, inActions, ctlFailed, batch>>
  /\ evt' = NoEvt
  /\ UNCHANGED <<acceptor, alive, rdContent, rdFlags, conn, rx, tx, fin, sent,
                 got, delivered, wantRead, localClose>>

\* CheckConnect: a blocking poll(POLLOUT) until the attempt is decided,
\* then SO_ERROR.  A poll interrupted by a signal (EINTR) falls through to
\* getsockopt while the connect is still in progress, and SO_ERROR is 0.
CheckConnect(intr, result) == intr \/ result = "connected"

\* CEpoll::AddConnection, entered with the read handler's flags F: connect
\* returns 0 and Recv reports it; or EINPROGRESS, and Recv reports it with
\* ERR_CONNECT_FAILED added unless CheckConnect passes; any other error
\* returns false without a callback.
AddConnection(s, F) ==
  \/ /\ conn' = [conn EXCEPT ![s] = "connected"]
     /\ Recv(s, F)
  \/ \E intr \in BOOLEAN, result \in {"connected", "failed"} :
       /\ conn' = [conn EXCEPT ![s] = result]
       /\ Recv(s, IF CheckConnect(intr, result) THEN F ELSE F \cup {"FAILED"})
  \/ /\ conn' = [conn EXCEPT ![s] = "failed"]
     /\ rdFlags' = [rdFlags EXCEPT ![s] = F]
     /\ evt' = NoEvt
     /\ UNCHANGED <<rx, delivered>>

\* CSocketImpl::SyncConnection: sets EVENT_CONNECT and calls AddConnection,
\* which returns at once for a socket already in epoll.
SyncConnection(s) ==
  /\ AppTurn(s)
  /\ conn[s] = "none"
  /\ ~inActions[s]
  /\ AddConnection(s, rdFlags[s] \cup {"CONNECT"})
  /\ UNCHANGED <<acceptor, alive, inActions, rdContent, wrContent, wrFlags,
                 wbuf, reactor, ep, tx, fin, sent, got, written, wantRead,
                 ctlFailed, localClose>>

\* Mutant of DelEvent: SetInActions(false) forgotten after a successful DEL.
DelEventKeepsInActions(s) ==
  LET d == EpDel(ep[s]) IN
    [ep |-> d.ep, ok |-> d.err = "OK", inAct |-> inActions[s]]

\* CEpoll::DelEvent(event): EPOLL_CTL_DEL, then SetInActions(false).
DelEvent(s) ==
  LET d == EpDel(ep[s]) IN
    [ep |-> d.ep, ok |-> d.err = "OK",
     inAct |-> IF d.err = "OK" THEN FALSE ELSE inActions[s]]

\* CEpoll::AddDisconnection: Recv runs only when DelEvent succeeds.
AddDisconnection(s, F) ==
  LET d == DelEvent(s) IN
    /\ ep' = [ep EXCEPT ![s] = d.ep]
    /\ inActions' = [inActions EXCEPT ![s] = d.inAct]
    /\ \/ /\ d.ok
          /\ wantRead' = [wantRead EXCEPT ![s] = FALSE]
          /\ Recv(s, F)
       \/ /\ ~d.ok
          /\ rdFlags' = [rdFlags EXCEPT ![s] = F]
          /\ evt' = NoEvt
          /\ UNCHANGED <<wantRead, rx, delivered>>

\* CSocketImpl::SyncDisconnection: sets EVENT_DISCONNECT|ERR_CONNECT_CLOSE.
SyncDisconnection(s) ==
  /\ AppTurn(s)
  /\ AddDisconnection(s, rdFlags[s] \cup {"DISCONNECT", "CLOSE"})
  /\ localClose' = [localClose EXCEPT ![s] = TRUE]
  /\ UNCHANGED <<acceptor, alive, rdContent, wrContent, wrFlags, wbuf, reactor,
                 conn, tx, fin, sent, got, written, ctlFailed>>

\* CEpoll::DelEvent(sock): EPOLL_CTL_DEL of the fd; neither record changes.
DelEventFd(s) == ep' = [ep EXCEPT ![s] = Unregistered]

\* ~CSocketImpl: DelEvent(_sock) when in actions; ~CSocketBase: close(fd),
\* which removes the fd from epoll in any case.
Destroy(s) ==
  /\ AppTurn(s)
  /\ alive' = [alive EXCEPT ![s] = FALSE]
  /\ DelEventFd(s)
  /\ wantRead' = [wantRead EXCEPT ![s] = FALSE]
  /\ evt' = NoEvt
  /\ UNCHANGED <<acceptor, inActions, rdContent, wrContent, rdFlags, wrFlags,
                 wbuf, reactor, conn, rx, tx, fin, sent, got, written,
                 delivered, ctlFailed, localClose>>

\* Mutant of AddAcceptEvent: the test of the record inverted, so the ADD
\* is made only when EPOLLIN is already there.
AddAcceptEventInverted ==
  /\ pc = "wait"
  /\ listening' = TRUE
  /\ evt' = NoEvt
  /\ UNCHANGED <<code, reactor, kernel, sent, got, written, delivered,
                 wantRead, ctlFailed, localClose, acceptIn, backlog,
                 acceptEntry>>

\* CEpoll::AddAcceptEvent: unless the accept handler's record has EPOLLIN,
\* _AddEvent sets it, tags data.ptr with the low bit and makes the ADD,
\* which succeeds (nothing else registers the listening fd); the socket
\* is marked in actions either way.
AddAcceptEvent ==
  /\ pc = "wait"
  /\ acceptIn' = TRUE
  /\ listening' = TRUE
  /\ evt' = NoEvt
  /\ UNCHANGED <<code, reactor, kernel, sent, got, written, delivered,
                 wantRead, ctlFailed, localClose, backlog, acceptEntry>>

-----------------------------------------------------------------------------
(***************************************************************************)
(* The reactor thread: epoll_wait, _DoEvent over the batch, the Send loop. *)
(***************************************************************************)
BatchDone(b, a) ==
  IF (\A t \in Sock : b[t] = {}) /\ ~a THEN "wait" ELSE "dispatch"

\* The listening fd has neither EPOLLET nor EPOLLONESHOT: epoll_wait
\* reports it as long as connections wait.
AcceptReady == acceptIn /\ backlog

\* epoll_wait returns the queued items; a reported item leaves the ready
\* list (edge-triggered) and is disabled if it carries EPOLLONESHOT.
EpollWait ==
  /\ pc = "wait"
  /\ (\E s \in Sock : ep[s].rdy /\ Reported(s) # {}) \/ AcceptReady
  /\ acceptEntry' = AcceptReady
  /\ batch' = [s \in Sock |-> IF ep[s].rdy THEN Reported(s) ELSE {}]
  /\ ep' = [s \in Sock |->
              IF ep[s].rdy
              THEN [ep[s] EXCEPT !.rdy = FALSE,
                                 !.dis = @ \/ (Reported(s) # {}
                                               /\ "ONESHOT" \in ep[s].ev)]
              ELSE ep[s]]
  /\ wantRead' = [s \in Sock |-> wantRead[s] /\ "IN" \notin batch'[s]]
  /\ pc' = "dispatch"
  /\ evt' = NoEvt
  /\ UNCHANGED <<acceptIn, listening, backlog, code, sendSock, sendErr,
                 sendStop, conn, rx, tx, fin, sent, got, written, delivered,
                 ctlFailed, localClose>>

\* CEpoll::_DoEvent for one entry: EPOLLIN (with EPOLLRDHUP marking a
\* close) runs Recv, then EPOLLOUT runs Send.
DoEvent(s) ==
  /\ pc = "dispatch"
  /\ batch[s] # {}
  /\ alive[s]
  /\ \/ /\ "IN" \in batch[s]
        /\ Recv(s, rdFlags[s] \cup IF "RDHUP" \in batch[s]
                                   THEN {"DISCONNECT", "CLOSE"} ELSE {})
        /\ batch' = [batch EXCEPT ![s] = @ \cap {"OUT"}]
        /\ pc' = BatchDone(batch', acceptEntry)
        /\ UNCHANGED <<sendSock, sendErr, sendStop>>
     \/ /\ "IN" \notin batch[s]
        /\ "OUT" \in batch[s]
        /\ batch' = [batch EXCEPT ![s] = {}]
        /\ pc' = "send"
        /\ sendSock' = s
        /\ sendErr' = wrFlags[s]
        /\ sendStop' = FALSE
        /\ evt' = NoEvt
        /\ UNCHANGED <<rdFlags, rx, delivered>>
  /\ UNCHANGED <<acceptor, alive, inActions, rdContent, wrContent, wrFlags,
                 wbuf, ep, conn, tx, fin, sent, got, written, wantRead,
                 ctlFailed, localClose>>

\* The entry of _DoEvent whose data.ptr has the low bit set: the acceptor's
\* strong pointer, on which CAcceptSocket::_Accept runs.  _Accept is not in
\* the sources; from the specification it accepts until the queue is empty
\* and reports each connection upstream.  The new sockets are not followed.
DoAccept ==
  /\ pc = "dispatch"
  /\ acceptEntry
  /\ acceptEntry' = FALSE
  /\ backlog' = FALSE
  /\ pc' = BatchDone(batch, FALSE)
  /\ evt' = [dir |-> "accept"]
  /\ UNCHANGED <<code, batch, sendSock, sendErr, sendStop, kernel, sent, got,
                 written, delivered, wantRead, ctlFailed, localClose, acceptIn,
                 listening>>

\* One iteration of Send's while loop: writev of the unsent bytes.
\* EWOULDBLOCK re-arms EPOLLOUT (res < data_len always holds for res = -1)
\* and does not break; EPIPE/ECONNRESET set ERR_CONNECT_CLOSE and break.
SendWritev ==
  LET s == sendSock IN
  /\ pc = "send"
  /\ ~sendStop
  /\ wbuf[s] > 0
  /\ \/ /\ conn[s] \in {"failed", "reset"}
        /\ sendErr' = sendErr \cup {"CLOSE"}
        /\ sendStop' = TRUE
        /\ UNCHANGED <<wbuf, tx, wrContent, ep, inActions, ctlFailed>>
     \/ /\ conn[s] = "connected"
        /\ tx[s] < SendCap
        /\ LET n == IF wbuf[s] < SendCap - tx[s] THEN wbuf[s]
                    ELSE SendCap - tx[s] IN
             /\ wbuf' = [wbuf EXCEPT ![s] = @ - n]
             /\ tx' = [tx EXCEPT ![s] = @ + n]
        /\ UNCHANGED <<sendErr, sendStop, wrContent, ep, inActions, ctlFailed>>
     \/ /\ conn[s] = "connected"
        /\ tx[s] = SendCap
        /\ LET r == AddSendEvent(s) IN
             /\ wrContent' = [wrContent EXCEPT ![s] = r.content]
             /\ ep' = [ep EXCEPT ![s] = r.ep]
             /\ ctlFailed' = (ctlFailed \/ ~r.ok)
        /\ inActions' = [inActions EXCEPT ![s] = TRUE]
        /\ UNCHANGED <<wbuf, tx, sendErr, sendStop>>
  /\ evt' = NoEvt
  /\ UNCHANGED <<acceptor, alive, rdContent, rdFlags, wrFlags, pc, batch,
                 sendSock, conn, rx, fin, sent, got, written, delivered,
                 wantRead, localClose>>

\* Mutant of SendEnd: the loop is left after any writev, unsent bytes or not.
SendEndEarly ==
  /\ pc = "send"
  /\ evt' = Callback("write", sendSock, sendErr, 0)
  /\ pc' = BatchDone(batch, acceptEntry)
  /\ UNCHANGED <<acceptor, code, batch, sendSock, sendErr, sendStop, kernel,
                 sent, got, written, delivered, wantRead, ctlFailed,
                 localClose>>

\* The loop ends when the buffer is empty or after a break, and Send makes
\* its one write completion callback.  The byte count is not tracked (n = 0).
SendEnd ==
  /\ pc = "send"
  /\ wbuf[sendSock] = 0 \/ sendStop
  /\ evt' = Callback("write", sendSock, sendErr, 0)
  /\ pc' = BatchDone(batch, acceptEntry)
  /\ UNCHANGED <<acceptor, code, batch, sendSock, sendErr, sendStop, kernel,
                 sent, got, written, delivered, wantRead, ctlFailed,
                 localClose>>

-----------------------------------------------------------------------------
(***************************************************************************)
(* The TCP peer and the network, seen through the local kernel.            *)
(***************************************************************************)
PeerUp(s) == alive[s] /\ conn[s] = "connected"

PeerSend(s) ==
  /\ PeerUp(s) /\ ~fin[s] /\ sent[s] < MaxBytes
  /\ rx' = [rx EXCEPT ![s] = @ + 1]
  /\ sent' = [sent EXCEPT ![s] = @ + 1]
  /\ ep' = [ep EXCEPT ![s] = Wake(@, {"IN"})]
  /\ evt' = NoEvt
  /\ UNCHANGED <<acceptor, code, reactor, conn, tx, fin, got, written,
                 delivered, wantRead, ctlFailed, localClose>>

PeerShutdown(s) ==
  /\ PeerUp(s) /\ ~fin[s]
  /\ fin' = [fin EXCEPT ![s] = TRUE]
  /\ ep' = [ep EXCEPT ![s] = Wake(@, {"IN", "RDHUP"})]
  /\ evt' = NoEvt
  /\ UNCHANGED <<acceptor, code, reactor, conn, rx, tx, sent, got, written,
                 delivered, wantRead, ctlFailed, localClose>>

PeerRead(s) ==
  /\ PeerUp(s) /\ tx[s] > 0
  /\ tx' = [tx EXCEPT ![s] = @ - 1]
  /\ got' = [got EXCEPT ![s] = @ + 1]
  /\ ep' = [ep EXCEPT ![s] = Wake(@, {"OUT"})]
  /\ evt' = NoEvt
  /\ UNCHANGED <<acceptor, code, reactor, conn, rx, fin, sent, written,
                 delivered, wantRead, ctlFailed, localClose>>

\* An RST discards both queues and makes the socket readable, writable and
\* hung up at once.
PeerReset(s) ==
  /\ PeerUp(s)
  /\ conn' = [conn EXCEPT ![s] = "reset"]
  /\ rx' = [rx EXCEPT ![s] = 0]
  /\ tx' = [tx EXCEPT ![s] = 0]
  /\ ep' = [ep EXCEPT ![s] = Wake(@, {"IN", "OUT", "RDHUP"})]
  /\ evt' = NoEvt
  /\ UNCHANGED <<acceptor, code, reactor, fin, sent, got, written, delivered,
                 wantRead, ctlFailed, localClose>>

\* A client connects to the listening socket and waits to be accepted.
PeerConnect ==
  /\ ~backlog
  /\ backlog' = TRUE
  /\ evt' = NoEvt
  /\ UNCHANGED <<code, reactor, kernel, sent, got, written, delivered,
                 wantRead, ctlFailed, localClose, acceptIn, listening,
                 acceptEntry>>

-----------------------------------------------------------------------------
App ==
  \/ \E s \in Sock :
       \/ SyncRead(s)
       \/ \E k \in 1..MaxBytes : SyncWrite(s, k)
       \/ SyncConnection(s)
       \/ SyncDisconnection(s)
       \/ Destroy(s)
  \/ AddAcceptEvent

Reactor == \/ EpollWait \/ (\E s \in Sock : DoEvent(s)) \/ DoAccept
           \/ SendWritev \/ SendEnd

Peer == \/ \E s \in Sock : \/ PeerSend(s) \/ PeerShutdown(s) \/ PeerRead(s)
                           \/ PeerReset(s)
        \/ PeerConnect

Next == App \/ Reactor \/ Peer

\* The reactor thread runs whenever it can; the application and the peer
\* owe nothing.
Spec == Init /\ [][Next]_vars /\ WF_vars(Reactor)

\* A peer that keeps reading what it is sent.
PeerKeepsReading == \A s \in Sock : WF_vars(PeerRead(s))

FairSpec == Spec /\ PeerKeepsReading

-----------------------------------------------------------------------------
TypeOK ==
  /\ alive \in [Sock -> BOOLEAN]
  /\ inActions \in [Sock -> BOOLEAN]
  /\ rdContent \in [Sock -> SUBSET EpBits]
  /\ wrContent \in [Sock -> SUBSET EpBits]
  /\ rdFlags \in [Sock -> SUBSET Flags]
  /\ wrFlags \in [Sock -> SUBSET Flags]
  /\ wbuf \in [Sock -> 0..MaxBytes]
  /\ pc \in {"wait", "dispatch", "send"}
  /\ batch \in [Sock -> SUBSET {"IN", "OUT", "RDHUP"}]
  /\ sendSock \in Sock
  /\ sendErr \in SUBSET Flags
  /\ sendStop \in BOOLEAN
  /\ ep \in [Sock -> [reg : BOOLEAN, ev : SUBSET EpBits, dis : BOOLEAN,
                      rdy : BOOLEAN]]
  /\ conn \in [Sock -> {"none", "connected", "failed", "reset"}]
  /\ rx \in [Sock -> 0..MaxBytes]
  /\ tx \in [Sock -> 0..SendCap]
  /\ fin \in [Sock -> BOOLEAN]
  /\ sent \in [Sock -> 0..MaxBytes]
  /\ got \in [Sock -> 0..MaxBytes]
  /\ written \in [Sock -> 0..MaxBytes]
  /\ delivered \in [Sock -> 0..MaxBytes]
  /\ wantRead \in [Sock -> BOOLEAN]
  /\ ctlFailed \in BOOLEAN
  /\ localClose \in [Sock -> BOOLEAN]
  /\ evt \in {NoEvt} \cup [dir : {"read", "write"}, s : Sock,
                           err : SUBSET Flags, n : 0..MaxBytes]
                  \cup {[dir |-> "accept"]}
  /\ acceptIn \in BOOLEAN /\ listening \in BOOLEAN
  /\ backlog \in BOOLEAN /\ acceptEntry \in BOOLEAN

\* The Socket invariant of the design: IsInActions() is true exactly when
\* the fd is registered with epoll.  AddRecvEvent, AddSendEvent, the Send
\* loop's re-arm, AddDisconnection and their EEXIST/ENOENT retries must keep
\* the flag and the kernel in step across any sequence of calls.
InActionsMatchesEpoll ==
  \A s \in Sock : alive[s] => (inActions[s] <=> ep[s].reg)

\* AddRecvEvent and AddSendEvent never report failure: whatever mix of
\* read, write, disconnect and re-read came before, the add/modify retries
\* (EEXIST -> MOD, ENOENT -> ADD) find a way to register the fd.
RegistrationSucceeds == ~ctlFailed

\* Every byte passed to SyncWrite reaches a peer that keeps reading, unless
\* the connection failed or was reset or the socket was destroyed: the
\* optimistic write, the Send loop and the EPOLLOUT re-arm never strand
\* bytes in the buffer.
WriteDrains ==
  PeerKeepsReading =>
    \A s \in Sock, k \in 1..MaxBytes :
      written[s] >= k ~> (got[s] >= k \/ conn[s] \in {"failed", "reset"}
                          \/ ~alive[s])

\* A read armed by SyncRead stays armed in the kernel until its EPOLLIN
\* fires: the fd stays registered, watching EPOLLIN, and enabled.  The spec
\* (AddRecvEvent / AddSendEvent "arm the handler's direction") promises it;
\* the read and write handlers each keep their own epoll_event record, and
\* each EPOLL_CTL_MOD replaces the single registration of the fd.
ArmedReadKeepsInterest ==
  \A s \in Sock :
    wantRead[s] => /\ ep[s].reg
                   /\ "IN" \in ep[s].ev
                   /\ ~ep[s].dis

\* When a read completion reports that the peer closed the connection
\* (ERR_CONNECT_CLOSE without a local SyncDisconnection), every byte the
\* peer sent before its FIN has been delivered: "peer sends 10 bytes then
\* closes -- one read callback with 10 bytes and the close flags together".
PeerCloseDeliversAll ==
  evt.dir = "read" /\ "CLOSE" \in evt.err /\ ~localClose[evt.s]
  /\ conn[evt.s] = "connected"
    => delivered[evt.s] = sent[evt.s]

\* A read completion carrying EVENT_CONNECT tells the truth about the
\* connect attempt: ERR_CONNECT_FAILED is set exactly when it failed
\* ("connect to an unreachable address: exactly one read callback carrying
\* a connect-failed flag").
ConnectCallbackTruthful ==
  evt.dir = "read" /\ "CONNECT" \in evt.err
    => ("FAILED" \in evt.err <=> conn[evt.s] # "connected")

\* Send returns to the event loop even when the peer stops reading: "on
\* would-block, re-arm write-readiness and stop"; "no operation in the
\* reactor core blocks indefinitely except the wait call".
SendReturns == pc = "send" ~> pc # "send"
\* A listening socket that AddAcceptEvent put in the reactor has every
\* waiting connection accepted, provided the reactor keeps coming back to
\* epoll_wait: the level-triggered listening fd is reported again in every
\* batch while connections wait, and _DoEvent's tagged entry reaches
\* _Accept before the batch ends.  The peer owes nothing here; a Send loop
\* that never returns (SendReturns) falsifies the hypothesis, not this.
AcceptDrains ==
  []<>(pc = "wait") => ((listening /\ backlog) ~> ~backlog)

\* A read completion of Recv's readv loop leaves the receive queue empty,
\* whatever free length the buffer had and however it grew: the loop stops
\* only on a short read, EAGAIN, a FIN or an error, so no byte waits for a
\* readiness that ONESHOT/ET will not report again.
ReadDrains ==
  evt.dir = "read" /\ evt.err \cap {"CONNECT", "DISCONNECT"} = {}
    => rx[evt.s] = 0

=============================================================================
