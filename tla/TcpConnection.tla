--------------------------- MODULE TcpConnection ---------------------------
(***************************************************************************)
(* One TcpConnection of a TcpServer whose io loop is the server's own loop *)
(* (TcpServer with setThreadNum(0), as in example/echo/echo_server.cc).    *)
(*                                                                         *)
(* The module keeps together everything one connection's life touches:    *)
(*  - the loop thread: EventLoop::loop() polls, dispatches the ready       *)
(*    Channels (Channel::handleEventWithGuard, one handler per step) and   *)
(*    drains the pending functors (EventLoop::doPendingFunctors);          *)
(*  - the connection's Channel and its epoll registration                  *)
(*    (EPollPoller::updateChannel / removeChannel, index_ New/Added/       *)
(*    Deleted); the interest set is edge-triggered because                 *)
(*    Channel::ReadEvent is EPOLLIN | EPOLLET;                             *)
(*  - the kernel socket: unread input, peer FIN / RST, pending SO_ERROR,   *)
(*    free space of the send buffer, our own SHUT_WR;                      *)
(*  - the owner's close callback (TcpServer::removeConnection, which on    *)
(*    the same loop runs removeConnectionInLoop inline and queues          *)
(*    connectDestroyed);                                                   *)
(*  - the application: calls made from inside a user callback on the loop  *)
(*    thread, and calls made by other threads (UserThreads).               *)
(*                                                                         *)
(* Data is abstracted to byte identities: the k-th byte handed to send()   *)
(* is the number k, so order and loss are visible.  Peer input is counted *)
(* in chunks, a chunk being what one readv in Buffer::readFd takes.        *)
(***************************************************************************)
EXTENDS Integers, Sequences, FiniteSets

CONSTANTS
  MsgSizes,            \* sizes of the messages the application sends
  MaxSends,            \* bound on calls of send()
  SndBuf,              \* capacity of the kernel send buffer, in bytes
  MaxPeerChunks,       \* bound on chunks of input the peer sends
  PeerResets,          \* whether the peer may reset the connection
  HighWaterMark,       \* high_water_mark_
  HasWriteCompleteCb,  \* write_complete_callback_ is set
  HasHighWaterMarkCb,  \* high_water_mark_callback_ is set
  UserThreads          \* threads other than the loop thread

ASSUME /\ MsgSizes \subseteq Nat \ {0} /\ MaxSends \in Nat
       /\ SndBuf \in Nat \ {0} /\ MaxPeerChunks \in Nat
       /\ PeerResets \in BOOLEAN /\ HighWaterMark \in Nat \ {0}
       /\ HasWriteCompleteCb \in BOOLEAN /\ HasHighWaterMarkCb \in BOOLEAN

VARIABLES
  connState,    \* TcpConnection::state_
  events,       \* Channel::events_ : subset of {"R", "W"} (EPOLLIN|EPOLLET, EPOLLOUT)
  index,        \* Channel::index_ : kNew, kAdded, kDeleted
  registered,   \* the fd is in the epoll interest list
  kmask,        \* the interest mask epoll holds for the fd
  edge,         \* an edge-triggered notification for the fd is pending
  inData,       \* chunks of input unread in the socket
  peer,         \* "open", "fin" (peer closed), "rst" (peer reset)
  sockErr,      \* a socket error (SO_ERROR) is pending
  space,        \* free bytes in the kernel send buffer
  shutWr,       \* shutdown(SHUT_WR) was done on the socket
  peerChunks,   \* chunks the peer has sent
  output,       \* output_buffer_ : queued byte ids
  wire,         \* byte ids written to the socket, in order
  accepted,     \* byte ids the connection took from send()
  nextByte,     \* last byte id handed out
  phase,        \* loop thread: "poll", "dispatch", "drain"
  todo,         \* handlers still to run in this dispatch
  pending,      \* EventLoop::pending_functors_
  batch,        \* the functors swapped out by doPendingFunctors
  ran,          \* how many of batch have run
  calling,      \* EventLoop::calling_pending_functions_
  wakeup,       \* an edge on the wakeup eventfd is pending
  cb,           \* a user callback is on the loop thread's stack
  sends,        \* calls of send() so far
  ops,          \* which of shutdown()/forceClose() were called
  closeCount,   \* invocations of the owner's close callback
  inMap,        \* the connection is in TcpServer::connections_
  fpc,          \* where each user thread is inside its call
  fbytes,       \* the message of a user thread's send()
  writeAfterShut, \* history: a write() was issued after SHUT_WR
  uaf           \* history: a functor ran on a destroyed connection

chanVars == <<events, index, registered, kmask, edge>>
sockVars == <<inData, peer, sockErr, space, shutWr, peerChunks>>
dataVars == <<output, wire, accepted, nextByte>>
loopVars == <<phase, todo, pending, batch, ran, calling, wakeup>>
appVars  == <<cb, sends, ops, closeCount, inMap>>
userVars == <<fpc, fbytes>>
histVars == <<writeAfterShut, uaf>>
vars == <<connState, chanVars, sockVars, dataVars, loopVars, appVars,
          userVars, histVars>>

kNew == -1
kAdded == 1
kDeleted == 2

Lesser(a, b) == IF a < b THEN a ELSE b

\* Functors capture either a shared_ptr to the connection or a raw this.
Fn(k) == [f |-> k, bytes |-> <<>>]
SharedKinds == {"forceCloseInLoop", "connectDestroyed", "writeComplete",
                "highWaterMark"}

\* The connection object is alive while some holder keeps a TcpConnectionPtr.
Alive ==
  \/ inMap
  \/ \E i \in DOMAIN batch : batch[i].f \in SharedKinds
  \/ \E i \in DOMAIN pending : pending[i].f \in SharedKinds
  \/ \E t \in UserThreads : fpc[t] # "idle"

Bytes(s) == [i \in 1..s |-> nextByte + i]

IsWriting == "W" \in events

\* Mutant of WriteFd: a write that takes the whole buffer whatever the room.
WriteFdAll(out, sp) == Len(out)

\* The bytes one write() of out takes when the send buffer has sp free
\* bytes (::write in sendInLoop, Buffer::writeFd in handleWrite).
WriteFd(out, sp) == Lesser(Len(out), sp)

\* Mutant of Unwritten: the whole message is queued, not msg + nwrote.
UnwrittenWhole(bytes, n) == bytes

\* What remains of bytes after a write of n of them (output_buffer_.append
\* of msg + nwrote, Buffer::retrieve(n)).
Unwritten(bytes, n) == SubSeq(bytes, n + 1, Len(bytes))
-----------------------------------------------------------------------------
(***************************************************************************)
(* The kernel side of epoll and of the socket.                             *)
(***************************************************************************)
\* Readiness bits epoll reports for an interest mask (HUP and ERR always).
Watched(km) == {"HUP", "ERR"}
               \cup (IF "R" \in km THEN {"IN"} ELSE {})
               \cup (IF "W" \in km THEN {"OUT"} ELSE {})

\* The socket's readiness when the send buffer has sp free bytes.
ReadyAt(sp) ==
  (IF inData > 0 \/ peer # "open" THEN {"IN"} ELSE {})
  \cup (IF sp > 0 \/ shutWr \/ peer = "rst" THEN {"OUT"} ELSE {})
  \cup (IF peer = "rst" \/ (shutWr /\ peer = "fin") THEN {"HUP"} ELSE {})
  \cup (IF sockErr THEN {"ERR"} ELSE {})

\* A change of the socket's state wakes the epoll item if it is watched.
Notify(bits) == edge' = (edge \/ (registered /\ bits \cap Watched(kmask) # {}))

\* EPollPoller::updateChannel with the channel's new events ev.
UpdateChannel(ev, sp) ==
  IF index \in {kNew, kDeleted}
  THEN /\ index' = kAdded                        \* EPOLL_CTL_ADD
       /\ registered' = TRUE
       /\ kmask' = ev
       /\ edge' = (ReadyAt(sp) \cap Watched(ev) # {})
  ELSE IF ev = {}
  THEN /\ index' = kDeleted                      \* EPOLL_CTL_DEL
       /\ registered' = FALSE
       /\ kmask' = kmask
       /\ edge' = FALSE
  ELSE /\ index' = index                         \* EPOLL_CTL_MOD re-arms
       /\ registered' = registered
       /\ kmask' = ev
       /\ edge' = (edge \/ ReadyAt(sp) \cap Watched(ev) # {})

\* EPollPoller::removeChannel
RemoveChannel ==
  /\ index' = kNew
  /\ registered' = FALSE
  /\ kmask' = kmask
  /\ edge' = FALSE

\* Channel::enableReading, enableWriting and disableWriting: the bit of
\* events_ changes and loop_->updateChannel(this) passes it to epoll (sp is
\* the send buffer's room at that moment).
EnableReading(sp) ==
  /\ events' = events \cup {"R"}
  /\ UpdateChannel(events \cup {"R"}, sp)

EnableWriting(sp) ==
  /\ events' = events \cup {"W"}
  /\ UpdateChannel(events \cup {"W"}, sp)

DisableWriting(sp) ==
  /\ events' = events \ {"W"}
  /\ UpdateChannel(events \ {"W"}, sp)

\* Channel::disableAll: events_ = NoneEvent, with no updateChannel.
DisableAll == events' = {}

\* Mutant of LoopQueue: never wake up from the loop thread.
LoopQueueNoWake(c, fn) ==
  /\ pending' = IF c THEN Append(pending, fn) ELSE pending
  /\ wakeup' = wakeup

\* EventLoop::queueInLoop called on the loop thread: wake up only when
\* the functor is queued while doPendingFunctors runs.
LoopQueue(c, fn) ==
  /\ pending' = IF c THEN Append(pending, fn) ELSE pending
  /\ wakeup' = (wakeup \/ (c /\ calling))
-----------------------------------------------------------------------------
(***************************************************************************)
(* TcpConnection operations that run on the loop thread.                   *)
(***************************************************************************)
\* TcpConnection::sendInLoop
SendInLoop(bytes) ==
  LET direct == ~IsWriting /\ output = <<>>
      fails  == shutWr \/ peer = "rst"          \* write() gives EPIPE/ECONNRESET
      n      == IF direct /\ ~fails THEN WriteFd(bytes, space) ELSE 0
      fault  == direct /\ fails
      rest   == Unwritten(bytes, n)
      keep   == ~fault /\ rest # <<>>
      oldLen == Len(output)
      wc     == direct /\ ~fails /\ rest = <<>> /\ HasWriteCompleteCb
      hwm    == keep /\ oldLen + Len(rest) >= HighWaterMark
                /\ oldLen < HighWaterMark /\ HasHighWaterMarkCb
  IN IF connState = "Disconnected"
     THEN UNCHANGED <<wire, space, sockErr, accepted, output, pending, wakeup,
                      chanVars, writeAfterShut>>
     ELSE /\ wire' = wire \o SubSeq(bytes, 1, n)
          /\ space' = space - n
          /\ sockErr' = (sockErr /\ ~fault)
          /\ writeAfterShut' = (writeAfterShut \/ (direct /\ shutWr))
          /\ accepted' = IF fault THEN accepted ELSE accepted \o bytes
          /\ output' = IF keep THEN output \o rest ELSE output
          /\ LoopQueue(wc \/ hwm, Fn(IF wc THEN "writeCompleteRaw" ELSE "highWaterMark"))
          /\ IF keep /\ ~IsWriting
             THEN EnableWriting(space - n)
             ELSE UNCHANGED chanVars

\* Mutant of ShutdownInLoop: shut down whether or not data is queued.
ShutdownInLoopUnguarded == shutWr' = TRUE

\* TcpConnection::shutdownInLoop
ShutdownInLoop == shutWr' = (shutWr \/ ~IsWriting)

\* Mutant of DrainedShutdown: handleWrite forgets a requested shutdown.
DrainedShutdownMissing == shutWr' = shutWr

\* handleWrite after disableWriting: if state_ == Disconnecting, run
\* shutdownInLoop, whose !isWriting test now holds.
DrainedShutdown == shutWr' = (shutWr \/ connState = "Disconnecting")

\* Mutant of HandleCloseBody: the close callback erases the map entry but
\* never queues connectDestroyed.
HandleCloseBodyNoDestroy ==
  /\ connState' = "Disconnected"
  /\ events' = {}
  /\ cb' = TRUE
  /\ closeCount' = closeCount + 1
  /\ inMap' = FALSE
  /\ LoopQueue(FALSE, Fn("connectDestroyed"))

\* TcpConnection::handleClose followed by the owner's close callback,
\* TcpServer::removeConnection -> removeConnectionInLoop (inline on the
\* loop thread), which erases the map entry and queues connectDestroyed.
\* Channel::disableAll only clears events_: epoll keeps the old interest.
HandleCloseBody ==
  /\ connState' = "Disconnected"
  /\ DisableAll
  /\ cb' = TRUE
  /\ closeCount' = closeCount + 1
  /\ inMap' = FALSE
  /\ LoopQueue(TRUE, Fn("connectDestroyed"))
-----------------------------------------------------------------------------
(***************************************************************************)
(* The loop thread: EventLoop::loop().                                     *)
(***************************************************************************)
\* Mutant of Handlers: the read callback runs before the error callback.
HandlersReadFirst(rev) ==
  SelectSeq(<<"close", "read", "error", "write">>,
            LAMBDA h : CASE h = "close" -> "HUP" \in rev /\ "IN" \notin rev
                         [] h = "error" -> "ERR" \in rev
                         [] h = "read"  -> "IN" \in rev
                         [] h = "write" -> "OUT" \in rev)

\* The handlers Channel::handleEventWithGuard runs for revents, in order.
Fires(h, rev) ==
  CASE h = "close" -> "HUP" \in rev /\ "IN" \notin rev
    [] h = "error" -> "ERR" \in rev
    [] h = "read"  -> "IN" \in rev
    [] h = "write" -> "OUT" \in rev
Handlers(rev) ==
  SelectSeq(<<"close", "error", "read", "write">>, LAMBDA h : Fires(h, rev))

\* poller_->poll(PollTimeMs, &active_channels_): epoll_wait returns every
\* pending notification, the connection's channel and the wakeup channel
\* in either order, or times out with none.
Poll ==
  /\ phase = "poll"
  /\ LET rev  == IF registered /\ edge THEN ReadyAt(space) \cap Watched(kmask)
                 ELSE {}
         hs   == Handlers(rev)
         wake == IF wakeup THEN <<"wake">> ELSE <<>>
     IN \/ /\ rev = {} /\ ~wakeup
           /\ todo' = <<>>
        \/ /\ rev # {} \/ wakeup
           /\ todo' \in {hs \o wake, wake \o hs}
  /\ phase' = "dispatch"
  /\ edge' = FALSE
  /\ wakeup' = FALSE
  /\ cb' = FALSE
  /\ UNCHANGED <<connState, events, index, registered, kmask, sockVars, dataVars,
                 pending, batch, ran, calling, sends, ops, closeCount, inMap,
                 userVars, histVars>>

\* The next handler of the dispatch is h.
Step(h) ==
  /\ phase = "dispatch"
  /\ todo # <<>>
  /\ Head(todo) = h
  /\ todo' = Tail(todo)

\* Acceptor::handleRead -> TcpServer::newConnection -> runInLoop (inline)
\* -> TcpConnection::connectEstablished, then the connection callback.
ConnectEstablished ==
  /\ Step("newConnection")
  /\ connState' = "Connected"
  /\ EnableReading(space)
  /\ cb' = TRUE
  /\ UNCHANGED <<sockVars, dataVars, phase, pending, batch, ran, calling, wakeup,
                 sends, ops, closeCount, inMap, userVars, histVars>>

\* EventLoop::handleRead drains the eventfd.
HandleWakeup ==
  /\ Step("wake")
  /\ cb' = FALSE
  /\ UNCHANGED <<connState, chanVars, sockVars, dataVars, phase, pending, batch,
                 ran, calling, wakeup, sends, ops, closeCount, inMap, userVars,
                 histVars>>

\* The close branch of handleEventWithGuard (EPOLLHUP without EPOLLIN) has
\* no action: the interest set always holds EPOLLIN once the channel is
\* registered, and a TCP socket that reports EPOLLHUP also reports EPOLLIN
\* (both directions are shut down).  Should "close" ever head the dispatch,
\* the loop would have no step and TLC would report a deadlock.

\* TcpConnection::handleError: getsockopt(SO_ERROR) reads and clears the
\* pending error; the rest is logging.
HandleError ==
  /\ Step("error")
  /\ sockErr' = FALSE
  /\ cb' = FALSE
  /\ UNCHANGED <<connState, chanVars, inData, peer, space, shutWr, peerChunks,
                 dataVars, phase, pending, batch, ran, calling, wakeup, sends,
                 ops, closeCount, inMap, userVars, histVars>>

\* TcpConnection::handleRead: one readv through Buffer::readFd.
\* n > 0: the message callback; n == 0: handleClose; n < 0: handleError
\* (the failed read has consumed ECONNRESET, or it was EAGAIN).
HandleRead ==
  /\ Step("read")
  /\ CASE inData > 0 ->
            /\ inData' = inData - 1
            /\ cb' = TRUE
            /\ UNCHANGED <<connState, events, sockErr, closeCount, inMap,
                           pending, wakeup>>
       [] inData = 0 /\ sockErr ->
            /\ sockErr' = FALSE
            /\ cb' = FALSE
            /\ UNCHANGED <<connState, events, inData, closeCount, inMap,
                           pending, wakeup>>
       [] inData = 0 /\ ~sockErr /\ peer # "open" ->
            /\ HandleCloseBody
            /\ UNCHANGED <<inData, sockErr>>
       [] OTHER ->
            /\ cb' = FALSE
            /\ UNCHANGED <<connState, events, inData, sockErr, closeCount,
                           inMap, pending, wakeup>>
  /\ UNCHANGED <<index, registered, kmask, edge, peer, space, shutWr,
                 peerChunks, dataVars, phase, batch, ran, calling, sends, ops,
                 userVars, histVars>>

\* TcpConnection::handleWrite: one write of the output buffer; when it is
\* drained, disableWriting, queue the write-complete callback and finish a
\* requested shutdown (shutdownInLoop).
HandleWrite ==
  /\ Step("write")
  /\ cb' = FALSE
  /\ LET fails == shutWr \/ peer = "rst"
         n     == IF fails THEN 0 ELSE WriteFd(output, space)
         rest  == Unwritten(output, n)
     IN IF IsWriting /\ n > 0
        THEN /\ wire' = wire \o SubSeq(output, 1, n)
             /\ output' = rest
             /\ space' = space - n
             /\ IF rest = <<>>
                THEN /\ DisableWriting(space - n)
                     /\ LoopQueue(HasWriteCompleteCb, Fn("writeComplete"))
                     /\ DrainedShutdown
                ELSE UNCHANGED <<chanVars, pending, wakeup, shutWr>>
             /\ UNCHANGED <<sockErr, writeAfterShut>>
        ELSE /\ writeAfterShut' = (writeAfterShut \/
                                   (IsWriting /\ shutWr /\ output # <<>>))
             /\ sockErr' = (sockErr /\ ~(IsWriting /\ fails))
             /\ UNCHANGED <<chanVars, output, wire, space, shutWr, pending,
                            wakeup>>
  /\ UNCHANGED <<connState, inData, peer, peerChunks, accepted, nextByte,
                 phase, batch, ran, calling, sends, ops, closeCount, inMap,
                 userVars, uaf>>

\* EventLoop::doPendingFunctors: set calling_pending_functions_ and swap
\* the pending list out under the mutex.
BeginDrain ==
  /\ phase = "dispatch"
  /\ todo = <<>>
  /\ phase' = "drain"
  /\ calling' = TRUE
  /\ batch' = pending
  /\ pending' = <<>>
  /\ ran' = 0
  /\ cb' = FALSE
  /\ UNCHANGED <<connState, chanVars, sockVars, dataVars, todo, wakeup, sends,
                 ops, closeCount, inMap, userVars, histVars>>

\* The next functor of the batch is of kind k.
NextFunctor(k) ==
  /\ phase = "drain"
  /\ ran < Len(batch)
  /\ batch[ran + 1].f = k
  /\ ran' = ran + 1

\* A functor holding a raw this runs after the last TcpConnectionPtr is gone.
RawOnDestroyed ==
  /\ ~Alive
  /\ uaf' = TRUE
  /\ cb' = FALSE
  /\ UNCHANGED <<connState, chanVars, sockVars, dataVars, pending, wakeup,
                 sends, ops, closeCount, inMap, userVars, writeAfterShut>>

\* [this, buf] { sendInLoop(buf); } queued by send() from another thread.
RunSendInLoop ==
  /\ NextFunctor("sendInLoop")
  /\ \/ RawOnDestroyed
     \/ /\ Alive
        /\ SendInLoop(batch[ran + 1].bytes)
        /\ cb' = FALSE
        /\ UNCHANGED <<connState, inData, peer, shutWr, peerChunks, nextByte,
                       sends, ops, closeCount, inMap, userVars, uaf>>
  /\ UNCHANGED <<phase, todo, batch, calling>>

\* std::bind(&TcpConnection::shutdownInLoop, this) queued by shutdown().
RunShutdownInLoop ==
  /\ NextFunctor("shutdownInLoop")
  /\ \/ RawOnDestroyed
     \/ /\ Alive
        /\ ShutdownInLoop
        /\ cb' = FALSE
        /\ UNCHANGED <<connState, chanVars, inData, peer, sockErr, space,
                       peerChunks, dataVars, pending, wakeup, sends, ops,
                       closeCount, inMap, userVars, histVars>>
  /\ UNCHANGED <<phase, todo, batch, calling>>

\* TcpConnection::forceCloseInLoop
RunForceCloseInLoop ==
  /\ NextFunctor("forceCloseInLoop")
  /\ IF connState \in {"Connected", "Disconnecting"}
     THEN HandleCloseBody
     ELSE /\ cb' = FALSE
          /\ UNCHANGED <<connState, events, closeCount, inMap, pending, wakeup>>
  /\ UNCHANGED <<index, registered, kmask, edge, sockVars, dataVars, phase, todo,
                 batch, calling, sends, ops, userVars, histVars>>

\* TcpConnection::connectDestroyed: a connection still Connected goes down
\* (connection callback), then channel_->remove().
RunConnectDestroyed ==
  /\ NextFunctor("connectDestroyed")
  /\ IF connState = "Connected"
     THEN /\ connState' = "Disconnected"
          /\ cb' = TRUE
     ELSE /\ cb' = FALSE
          /\ UNCHANGED connState
  /\ IF connState = "Connected" THEN DisableAll ELSE UNCHANGED events
  /\ RemoveChannel
  /\ UNCHANGED <<sockVars, dataVars, phase, todo, batch, calling, pending, wakeup,
                 sends, ops, closeCount, inMap, userVars, histVars>>

\* [this] { write_complete_callback_(shared_from_this()); } queued by
\* sendInLoop's complete direct write.
RunWriteCompleteRaw ==
  /\ NextFunctor("writeCompleteRaw")
  /\ \/ RawOnDestroyed
     \/ /\ Alive
        /\ cb' = TRUE
        /\ UNCHANGED <<connState, chanVars, sockVars, dataVars, pending, wakeup,
                       sends, ops, closeCount, inMap, userVars, histVars>>
  /\ UNCHANGED <<phase, todo, batch, calling>>

\* The user's write-complete (handleWrite's, bound to shared_from_this())
\* or high-water-mark callback.
RunUserCallback ==
  /\ \/ NextFunctor("writeComplete")
     \/ NextFunctor("highWaterMark")
  /\ cb' = TRUE
  /\ UNCHANGED <<connState, chanVars, sockVars, dataVars, phase, todo, batch,
                 calling, pending, wakeup, sends, ops, closeCount, inMap,
                 userVars, histVars>>

\* The drain is over: calling_pending_functions_ = false; the swapped-out
\* functors (and the references they hold) are destroyed.
EndDrain ==
  /\ phase = "drain"
  /\ ran = Len(batch)
  /\ phase' = "poll"
  /\ calling' = FALSE
  /\ batch' = <<>>
  /\ ran' = 0
  /\ cb' = FALSE
  /\ UNCHANGED <<connState, chanVars, sockVars, dataVars, todo, pending, wakeup,
                 sends, ops, closeCount, inMap, userVars, histVars>>
-----------------------------------------------------------------------------
(***************************************************************************)
(* The application.  On the loop thread it can only call into the          *)
(* connection from inside a user callback (cb); other threads call at any  *)
(* time while they hold a TcpConnectionPtr.                                 *)
(***************************************************************************)
\* TcpConnection::send on the loop thread: sendInLoop runs inline.
AppSend(s) ==
  /\ cb
  /\ sends < MaxSends
  /\ sends' = sends + 1
  /\ nextByte' = nextByte + s
  /\ IF connState = "Connected"
     THEN SendInLoop(Bytes(s))
     ELSE UNCHANGED <<wire, space, sockErr, accepted, output, pending, wakeup,
                      chanVars, writeAfterShut>>
  /\ UNCHANGED <<connState, inData, peer, shutWr, peerChunks, phase, todo, batch,
                 ran, calling, cb, ops, closeCount, inMap, userVars, uaf>>

\* TcpConnection::shutdown on the loop thread: shutdownInLoop runs inline.
AppShutdown ==
  /\ cb
  /\ "shutdown" \notin ops
  /\ ops' = ops \cup {"shutdown"}
  /\ IF connState = "Connected"
     THEN /\ connState' = "Disconnecting"
          /\ ShutdownInLoop
     ELSE UNCHANGED <<connState, shutWr>>
  /\ UNCHANGED <<chanVars, inData, peer, sockErr, space, peerChunks, dataVars,
                 loopVars, cb, sends, closeCount, inMap, userVars, histVars>>

\* TcpConnection::forceClose on the loop thread.
AppForceClose ==
  /\ cb
  /\ "forceClose" \notin ops
  /\ ops' = ops \cup {"forceClose"}
  /\ IF connState \in {"Connected", "Disconnecting"}
     THEN /\ connState' = "Disconnecting"
          /\ LoopQueue(TRUE, Fn("forceCloseInLoop"))
     ELSE UNCHANGED <<connState, pending, wakeup>>
  /\ UNCHANGED <<chanVars, sockVars, dataVars, phase, todo, batch, ran, calling,
                 cb, sends, closeCount, inMap, userVars, histVars>>

\* A call from another thread ends by queueing a functor and waking the loop.
UserQueue(t, fn) ==
  /\ pending' = Append(pending, fn)
  /\ wakeup' = TRUE
  /\ fpc' = [fpc EXCEPT ![t] = "idle"]

\* TcpConnection::send from thread t: the state_ == Connected test ...
UserSend(t, s) ==
  /\ fpc[t] = "idle"
  /\ Alive
  /\ sends < MaxSends
  /\ sends' = sends + 1
  /\ nextByte' = nextByte + s
  /\ IF connState = "Connected"
     THEN /\ fpc' = [fpc EXCEPT ![t] = "send"]
          /\ fbytes' = [fbytes EXCEPT ![t] = Bytes(s)]
     ELSE UNCHANGED userVars
  /\ UNCHANGED <<connState, chanVars, sockVars, output, wire, accepted, loopVars,
                 cb, ops, closeCount, inMap, histVars>>

\* ... then runInLoop([this, buf] { sendInLoop(buf); }).
UserSendQueue(t) ==
  /\ fpc[t] = "send"
  /\ UserQueue(t, [f |-> "sendInLoop", bytes |-> fbytes[t]])
  /\ fbytes' = [fbytes EXCEPT ![t] = <<>>]
  /\ UNCHANGED <<connState, chanVars, sockVars, dataVars, phase, todo, batch, ran,
                 calling, appVars, histVars>>

\* TcpConnection::shutdown / forceClose from thread t: the state test ...
UserClose(t, op) ==
  /\ fpc[t] = "idle"
  /\ Alive
  /\ op \notin ops
  /\ ops' = ops \cup {op}
  /\ IF \/ connState = "Connected"
        \/ op = "forceClose" /\ connState = "Disconnecting"
     THEN fpc' = [fpc EXCEPT ![t] = op]
     ELSE UNCHANGED fpc
  /\ UNCHANGED <<connState, chanVars, sockVars, dataVars, loopVars, cb, sends,
                 closeCount, inMap, fbytes, histVars>>

\* ... setState(Disconnecting) ...
UserSetDisconnecting(t) ==
  /\ fpc[t] \in {"shutdown", "forceClose"}
  /\ connState' = "Disconnecting"
  /\ fpc' = [fpc EXCEPT ![t] = IF fpc[t] = "shutdown" THEN "queueShutdown"
                                                        ELSE "queueForceClose"]
  /\ UNCHANGED <<chanVars, sockVars, dataVars, loopVars, appVars, fbytes,
                 histVars>>

\* ... and queue shutdownInLoop (raw this) or forceCloseInLoop (shared_ptr).
UserCloseQueue(t) ==
  /\ fpc[t] \in {"queueShutdown", "queueForceClose"}
  /\ UserQueue(t, Fn(IF fpc[t] = "queueShutdown" THEN "shutdownInLoop"
                                                   ELSE "forceCloseInLoop"))
  /\ UNCHANGED <<connState, chanVars, sockVars, dataVars, phase, todo, batch, ran,
                 calling, appVars, fbytes, histVars>>
-----------------------------------------------------------------------------
(***************************************************************************)
(* The peer and the network.                                               *)
(***************************************************************************)
PeerSend ==
  /\ peer = "open"
  /\ peerChunks < MaxPeerChunks
  /\ inData' = inData + 1
  /\ peerChunks' = peerChunks + 1
  /\ Notify({"IN"})
  /\ UNCHANGED <<connState, events, index, registered, kmask, peer, sockErr,
                 space, shutWr, dataVars, loopVars, appVars, userVars, histVars>>

\* The peer's FIN: reads return 0 once the input is consumed.
PeerClose ==
  /\ peer = "open"
  /\ peer' = "fin"
  /\ Notify({"IN", "HUP"})
  /\ UNCHANGED <<connState, events, index, registered, kmask, inData, sockErr,
                 space, shutWr, peerChunks, dataVars, loopVars, appVars,
                 userVars, histVars>>

\* The peer's RST: ECONNRESET is pending and both directions are shut
\* down.  Linux's tcp_reset purges only the write queue: input already
\* received stays readable, and tcp_recvmsg returns it before the error.
PeerReset ==
  /\ PeerResets
  /\ peer # "rst"
  /\ peer' = "rst"
  /\ sockErr' = TRUE
  /\ Notify({"IN", "OUT", "HUP", "ERR"})
  /\ UNCHANGED <<connState, events, index, registered, kmask, inData, space,
                 shutWr, peerChunks, dataVars, loopVars, appVars, userVars,
                 histVars>>

\* The peer acknowledges a byte: room in the send buffer, EPOLLOUT.
PeerRecv ==
  /\ peer # "rst"
  /\ space < SndBuf
  /\ space' = space + 1
  /\ Notify({"OUT"})
  /\ UNCHANGED <<connState, events, index, registered, kmask, inData, peer,
                 sockErr, shutWr, peerChunks, dataVars, loopVars, appVars,
                 userVars, histVars>>
-----------------------------------------------------------------------------
(***************************************************************************)
(* The specification.  The initial state is inside Acceptor::handleRead,   *)
(* TcpServer::newConnection having built the connection and put it in      *)
(* connections_.                                                           *)
(***************************************************************************)
Init ==
  /\ connState = "Connecting"
  /\ events = {}
  /\ index = kNew
  /\ registered = FALSE
  /\ kmask = {}
  /\ edge = FALSE
  /\ inData = 0
  /\ peer = "open"
  /\ sockErr = FALSE
  /\ space = SndBuf
  /\ shutWr = FALSE
  /\ peerChunks = 0
  /\ output = <<>>
  /\ wire = <<>>
  /\ accepted = <<>>
  /\ nextByte = 0
  /\ phase = "dispatch"
  /\ todo = <<"newConnection">>
  /\ pending = <<>>
  /\ batch = <<>>
  /\ ran = 0
  /\ calling = FALSE
  /\ wakeup = FALSE
  /\ cb = FALSE
  /\ sends = 0
  /\ ops = {}
  /\ closeCount = 0
  /\ inMap = TRUE
  /\ fpc = [t \in UserThreads |-> "idle"]
  /\ fbytes = [t \in UserThreads |-> <<>>]
  /\ writeAfterShut = FALSE
  /\ uaf = FALSE

LoopStep ==
  \/ Poll \/ ConnectEstablished \/ HandleWakeup \/ HandleError
  \/ HandleRead \/ HandleWrite \/ BeginDrain \/ RunSendInLoop
  \/ RunShutdownInLoop \/ RunForceCloseInLoop \/ RunConnectDestroyed
  \/ RunWriteCompleteRaw \/ RunUserCallback \/ EndDrain

AppStep ==
  \/ \E s \in MsgSizes : AppSend(s)
  \/ AppShutdown
  \/ AppForceClose

UserStep(t) ==
  \/ \E s \in MsgSizes : UserSend(t, s)
  \/ UserSendQueue(t)
  \/ \E op \in {"shutdown", "forceClose"} : UserClose(t, op)
  \/ UserSetDisconnecting(t)
  \/ UserCloseQueue(t)

\* A user thread inside a call finishes it.
UserFinish(t) == UserSendQueue(t) \/ UserSetDisconnecting(t) \/ UserCloseQueue(t)

PeerStep == PeerSend \/ PeerClose \/ PeerReset \/ PeerRecv

Next ==
  \/ LoopStep
  \/ AppStep
  \/ \E t \in UserThreads : UserStep(t)
  \/ PeerStep

\* The loop thread never blocks for good (epoll_wait has a timeout), a
\* thread inside a call completes it, and the peer keeps reading.  The
\* application and the peer's sends, FIN and RST are not assumed.
Fairness ==
  /\ WF_vars(LoopStep)
  /\ \A t \in UserThreads : WF_vars(UserFinish(t))
  /\ WF_vars(PeerRecv)

Spec == Init /\ [][Next]_vars /\ Fairness
-----------------------------------------------------------------------------
(***************************************************************************)
(* Properties.                                                             *)
(***************************************************************************)
States == {"Disconnected", "Connecting", "Connected", "Disconnecting"}
Kinds == SharedKinds \cup {"sendInLoop", "shutdownInLoop", "writeCompleteRaw"}

TypeOK ==
  /\ connState \in States
  /\ events \subseteq {"R", "W"} /\ kmask \subseteq {"R", "W"}
  /\ index \in {kNew, kAdded, kDeleted}
  /\ registered \in BOOLEAN /\ edge \in BOOLEAN
  /\ inData \in 0..MaxPeerChunks /\ peerChunks \in 0..MaxPeerChunks
  /\ peer \in {"open", "fin", "rst"} /\ sockErr \in BOOLEAN
  /\ space \in 0..SndBuf /\ shutWr \in BOOLEAN
  /\ output \in Seq(Nat) /\ wire \in Seq(Nat) /\ accepted \in Seq(Nat)
  /\ phase \in {"poll", "dispatch", "drain"}
  /\ \A i \in DOMAIN pending : pending[i].f \in Kinds
  /\ \A i \in DOMAIN batch : batch[i].f \in Kinds
  /\ ran \in 0..Len(batch)
  /\ sends \in 0..MaxSends /\ ops \subseteq {"shutdown", "forceClose"}
  /\ fpc \in [UserThreads -> {"idle", "send", "shutdown", "forceClose",
                              "queueShutdown", "queueForceClose"}]

(* Stream integrity through sendInLoop's direct write, the output buffer   *)
(* and handleWrite's partial writes: the bytes on the wire followed by the *)
(* bytes still queued are exactly the bytes the connection accepted, in   *)
(* the order send() was called.                                            *)
StreamIntegrity == wire \o output = accepted

(* shutdown() never loses data: TcpConnection::shutdownInLoop and the      *)
(* Disconnecting branch of handleWrite shut the write side of a connection *)
(* that is still up only once the output buffer is empty (a forceClose may *)
(* drop the buffer: handleClose discards it on purpose).                   *)
NoLossBeforeShutdown == shutWr /\ connState # "Disconnected" => output = <<>>

(* A peer reset the loop is notified of while no input is unread tears    *)
(* the connection down: Channel::handleEventWithGuard runs the error      *)
(* callback (getsockopt clears SO_ERROR) before the read callback, so     *)
(* readv returns 0 and handleClose runs.                                   *)
PeerResetClosesConnection ==
  (peer = "rst" /\ inData = 0 /\ edge) ~> (connState = "Disconnected")

(* Spec section 7: a peer reset tears the connection down, whatever input *)
(* is still unread when it arrives.                                        *)
ResetTearsDown == (peer = "rst") ~> (connState = "Disconnected")

(* A shutdown() completes: once Disconnecting, handleWrite drains the      *)
(* output buffer and half-closes, unless the connection closes first or   *)
(* the peer resets it (its writes then fail, and ResetTearsDown states    *)
(* what must follow).                                                      *)
ShutdownCompletes ==
  (connState = "Disconnecting")
    ~> (shutWr \/ connState = "Disconnected" \/ peer = "rst")

(* No functor waits out a poll: whenever the loop thread enters            *)
(* epoll_wait with functors pending, the wakeup eventfd has been written,  *)
(* so they run in the next iteration instead of after PollTimeMs (the      *)
(* calling_pending_functions_ test of EventLoop::queueInLoop).             *)
PendingFunctorsWakeLoop == phase = "poll" /\ pending # <<>> => wakeup

(* The owner's close callback (TcpServer::removeConnection) runs at most  *)
(* once per connection (spec: forceClose mid-write invokes it exactly once)*)
CloseCallbackAtMostOnce == closeCount <= 1

(* Disconnected is final: once handleClose or connectDestroyed has set   *)
(* state_ to Disconnected, no later step of any thread changes it (the    *)
(* state tests of send, shutdown and forceClose rely on it).              *)
DisconnectedIsFinal ==
  [][connState = "Disconnected" => connState' = "Disconnected"]_vars

(* No functor that captures a raw this runs after the connection has been *)
(* destroyed: the send() and shutdown() functors of other threads, and     *)
(* sendInLoop's write-complete functor, which is safe only because         *)
(* connectDestroyed, holding the last reference, is always queued behind   *)
(* it.                                                                    *)
NoUseAfterFree == ~uaf

(* No write() is issued on a socket whose write side has been shut down   *)
(* (the write would raise SIGPIPE, which the library does not ignore).    *)
NoWriteAfterShutdown == ~writeAfterShut

(* Input the peer sent is eventually read (or the connection is gone): the *)
(* edge-triggered read interest must not leave data unread in the socket.  *)
ReadableDataEventuallyRead ==
  (inData > 0) ~> (inData = 0 \/ connState = "Disconnected")
=============================================================================
