# TLA+ models of mymuduo

This directory holds TLA+ models of the mymuduo reactor library (`src/`) and
the TLC configurations that check them. Every action is written from the C++
source. `PROJECT.json` maps each definition to the lines it translates and
lists the runs, the mutants, the findings and the hazards.

## The system

mymuduo is a one-loop-per-thread reactor. Its parts are listed here with their
role in the interaction:

| Part | Source | Role |
|---|---|---|
| EventLoop | `net/EventLoop.cc` | `loop()` repeats: `poll` → `handleEvent` of each ready Channel → `doPendingFunctors`. `runInLoop`/`queueInLoop` marshal work from other threads through a mutex-guarded list and an eventfd wakeup. |
| EPollPoller / Poller | `net/EPollPoller.cc`, `net/Poller.cc` | epoll registration per Channel, tracked by `index_` (-1 New, 1 Added, 2 Deleted): ADD, MOD and DEL on `updateChannel`, and unregistration on `removeChannel`. |
| Channel | `net/Channel.cc`, `include/net/Channel.h` | An fd, its interest set `events_` and the callbacks it dispatches. `ReadEvent` is `EPOLLIN\|EPOLLET`, so the registration is edge-triggered. `disableAll()` clears `events_` without updating epoll. |
| Buffer | `include/net/Buffer.h` | Input and output byte buffers, with `readFd` (one `readv`) and `writeFd` (one `write`). |
| TcpConnection | `net/TcpConnection.cc` | A connection's state machine: send, shutdown, forceClose, and the read, write, close and error handlers. |
| TcpServer | `net/TcpServer.cc` | Owns the connections in `connections_`. The close callback erases the connection and queues `connectDestroyed`. |
| Acceptor | `net/Acceptor.cc` | One `accept` per readiness event on the listening socket. |
| Connector | `net/Connector.cc` | Active open, with a retry timer and backoff. |
| TcpClient | `net/TcpClient.cc` | Drives one Connector and owns at most one connection. |
| TimerQueue, Timer, Timestamp | `net/TimerQueue.cc`, `include/net/Timer.h`, `include/base/Timestamp.h` | Timers in a timerfd, ordered by (expiration, pointer), with cancellation by (pointer, sequence). |
| EventLoopThread, EventLoopThreadPool | `net/EventLoopThread.cc`, `net/EventLoopThreadPool.cc` | A loop on its own thread; round-robin choice of io loops. |
| Socket, SocketOps, InetAddress, Logging | `net/SocketOps.cc`, `include/net/Socket.h`, … | Thin wrappers of system calls, addresses and log output. |

## Modules

### `TcpConnection.tla`: one connection on its loop

The module has one server connection, as `TcpServer` with no io threads
(`example/echo/echo_server.cc`) runs it. All of the following is one state
machine:
- **The loop thread.** `Poll`, then one action per Channel handler, then `BeginDrain`, `NextFunctor`… and `EndDrain` for `doPendingFunctors`.
- **The Channel and its epoll registration.** `events`, `index`, `registered` and `kmask` (the mask epoll holds), plus `edge` (a pending edge-triggered notification).
- **The kernel socket.** Unread input chunks, the peer's FIN or RST, `SO_ERROR`, free room in the send buffer, and our own `SHUT_WR`.
- **TcpServer's close callback.** `removeConnection` runs `removeConnectionInLoop` inline on the same loop, so `inMap` goes FALSE and `connectDestroyed` is queued.
- **The application.** Calls made from a user callback on the loop thread (`AppSend`, `AppShutdown`, `AppForceClose`). Calls from other threads (`UserThreads`) are split at the points where the code reads `state_` and where it queues a functor.
- **The peer.** Sends, FIN, RST and acknowledgements (`PeerRecv` frees room in the send buffer).

**Data.** The k-th byte given to `send()` is the number k, which makes loss and reordering visible. Peer input is counted in chunks, where a chunk is what one `readv` takes.

**Functor liveness.** A queued functor captures either a `shared_ptr` or a raw `this`. `Alive` holds while the map, a queued or running shared functor, or a user thread inside a call still owns the connection. Functors that capture a raw `this` are the `send`/`shutdown` functors of other threads, and the write-complete functor `sendInLoop` queues after a complete direct write (`writeCompleteRaw`, `TcpConnection.cc:55`). The write-complete functor `handleWrite` queues captures `shared_from_this()` (`writeComplete`). `RunWriteCompleteRaw` dereferences a destroyed connection unless `connectDestroyed` is still queued behind it; `NoUseAfterFree` checks that it always is.

**How the actions correspond to the code:**
- `SendInLoop` is `sendInLoop`:
  - it returns early when Disconnected;
  - it writes directly only when not writing and the output buffer is empty;
  - on EPIPE or ECONNRESET it drops the remainder (fault);
  - it queues the HWM callback (edge) and the write-complete callback (raw `this`);
  - it enables writing.
- `EnableReading`, `EnableWriting`, `DisableWriting` and `DisableAll` are the `Channel` setters of the same name: each changes `events`. All but `DisableAll` then call `update()` (`UpdateChannel`), which picks `EPOLL_CTL_ADD`/`MOD`/`DEL` from `index_`. `Channel::disableAll` only clears `events_`, so epoll keeps the old interest until `remove()`.
- `HandleWrite` is `handleWrite`: a partial write; once drained it calls `disableWriting` (MOD), queues write-complete, then `shutdownInLoop` if Disconnecting.
- `HandleRead` is `handleRead`: one `readv`. A result > 0 runs the message callback, 0 runs `handleClose`, and < 0 runs `handleError`.
- `HandleCloseBody` is `handleClose` plus TcpServer's close callback.
- `RunConnectDestroyed` is `connectDestroyed`, which calls `channel_->remove()`.
- `PeerReset` is the kernel's answer to a peer RST (Linux `tcp_reset`): `SO_ERROR` is set, EPOLLERR|EPOLLHUP is raised, and only the write queue is purged. Input already received stays readable, and `tcp_recvmsg` returns it before the error.

**What the model leaves out, and why.**
- The close branch of `handleEventWithGuard` (HUP without IN) has no action. EPOLLIN is always in the interest set, and Linux reports EPOLLIN with every EPOLLHUP on a TCP socket. If "close" ever headed a dispatch, TLC would report a deadlock.
- SIGPIPE is not modelled as a crash. A write after `SHUT_WR` is recorded in the history variable `writeAfterShut`, because the library never ignores SIGPIPE.

**Fairness.** `WF(LoopStep)`: `epoll_wait` has a 10 s timeout, so the loop thread always takes its next step. `WF(UserFinish(t))`: a thread inside `send`/`shutdown`/`forceClose` finishes the call. `WF(PeerRecv)`: the peer keeps acknowledging. The application's calls and the peer's sends, FIN and RST are not assumed to happen.

### `Connector.tla`: active open with retry

One `Connector` driven by a `TcpClient` on one loop. The loop thread is
`Poll`, then the ready sources (`FireTimer`/`EndTimers` for the timerfd,
`HandleChannel` for the connector's Channel, `ConnectionClosed` for the
established connection's Channel), then `BeginDrain`, `RunFunctor` and
`EndDrain`. The functors are `startInLoop`, `stopInLoop` and `resetChannel`.

- **State.** `cstate` is `state_`, `connect` is `connect_`, `delay` is `retry_delay_ms_`. `chan` is the Channel `channel_` owns (0 for null) and `reg` the Channels in epoll. A socket and its Channel share an identity, the number of the `connect()` that created them. `open` holds the sockets not yet closed or handed to TcpClient. `armed`/`expired` count retry timers.
- **Operations.** `ConnectWith` is `connect()` with its outcome classes: `connecting()`, `retry()`, or a close that leaves `state_` alone. `Retry`, `RemoveAndResetChannel`, `ResetChannel`, `StopInLoop`, `StartInLoop` and `Restart` translate the functions of the same name. `ChannelEvent` is `handleError` then `handleWrite`.
- **The user thread.** `UserStart`/`UserStop` are `TcpClient::connect()`/`stop()`: they set `clientConnect` and then call `Connector::start()`/`stop()` (`ConnectorStart`/`ConnectorStop`, which set `connect_` before queueing). `Connecting` is `Connector::connecting()`: state `Connecting`, a new Channel, and its registration for writing. Calls alternate, starting with `connect()`. `UserQueue` is the `runInLoop`/`queueInLoop` that follows. `UserDisconnect` is `TcpClient::disconnect()`: it clears `clientConnect` (`TcpClient::connect_`), so a later close does not restart the connector.
- **The network.** `SocketDone(s)` ends a connect as `ok`, `refused` or a self-connect, and failures are bounded by `MaxFailures`. The established connection is a flag `conn`. Its close is reported from the poll after the one that established it, and runs `removeConnection`, which restarts the connector when retry is on.

**Fairness.** The loop steps, a user call finishes queueing, a pending connect finishes and an armed timer expires. User calls and connection closes are not assumed.

### `TcpClient.tla`: destroying a client while its loop runs

This module extends `Connector.tla` with `~TcpClient` on the user thread (`ClientDtor`).
- **With a connection,** the destructor queues a `setCloseCallback` functor and, if `connection_.unique()` (a nondeterministic choice: the loop thread may hold a copy inside `handleEvent`), `forceCloseInLoop`.
- **Without one,** it calls `connector_->stop()`, which queues `stopInLoop` (capturing the Connector's raw `this`), and arms a one-second timer capturing the client's `this` (`lingering`).
- **Object lifetimes.** `clientAlive` is the client. `ConnectorAlive` holds while the client's `connector_` or a retry timer's `shared_from_this()` copy owns the Connector.
- **Freed use.** A step that would run code of a freed object is its own action and adds the object to the history set `freed`: `ConnectorUsedAfterFree` (a Channel dispatch or a `[this]` functor of the Connector), `ClosedAfterDtor` (the connection's close callback, which calls `this->removeConnection`), `FireLingering` (the lingering timer), and `RunClientFunctor`'s `forceCloseInLoop`. `ConnectorStep` takes the Connector's steps only while their objects exist.

There is no fairness: the two runs are safety violations.

### `TimerQueue.tla`: timers on their loop

- **What the module holds.** `TimerQueue` together with its `Timer` objects and the loop that drives it.
- **Timer identity.** Timer objects live at a small set of heap addresses (`Addrs`), which are reused after `delete`. A `TimerId` is the pair ⟨address, sequence⟩.
- **Correspondence to the code.**
  - `timers` is `timers_`, a set of ⟨expiration, address⟩ entries ordered as the `std::set` orders them.
  - `active` and `canceling` are `active_timers_` and `canceling_timers_`.
  - `fdExp` is the timerfd's setting.
- **The loop thread.**
  - It polls, then dispatches the timerfd and an application Channel "app", then drains the queued functors.
  - `handleRead` is split at each timer callback (`RunTimer`), because a callback may call `cancel`:
    - `HandleReadBegin` reads the clock and runs `getExpired`;
    - `RunTimer` runs one callback;
    - `HandleReadEnd` runs `reset`.
- **Calls from other threads.** `addTimer`/`cancel` from another thread (`UserAdd`, `UserCancel`) queue `addTimerInLoop`/`cancelInLoop`. `RunFunctor` runs them in order.
- **History variables.**
  - `runs` records each callback run with its expiration.
  - `stopped` holds the TimerIds whose cancel took effect in the code's own terms: `cancelInLoop` found the id in `active_timers_`, or the cancel came from the callback of that same timer while it ran. Each run records whether its timer was already in `stopped` (`afterStop`). `CancelStopsTimer` says no run has `afterStop`: a cancel the code acted on stops the timer for good, through `reset`'s test of `canceling_timers_` and the erase from `timers_`.
  - It also records whether the timer had been cancelled before its expiry. A cancel from another thread counts once its queued `cancelInLoop` has run (spec §5: a cancel is a request).

### `TimerArith.tla`: the time units under `runAfter`

This module holds the arithmetic of three functions and what it does to one timer:
- `Timestamp::now()` returns whole seconds, through `to_time_t`.
- `Timestamp::operator+` adds `seconds*1000`.
- `howMuchTimeFromNow` computes the delay and clamps it to 100 µs.

The real clock is kept in microseconds. `RefDue` is the reference definition: the time the caller asked for. `TimerLate.cfg` shows that `runAfter(0.001)` runs about a second late. `TimerArith.cfg` shows that the timer still runs eventually, after ten thousand 100 µs wakeups.

### `EventLoopThread.tla`: loop threads and the pool

This module composes `EventLoopThreadPool::start`/`getNextLoop` with `NumThreads` `EventLoopThread`s and their `threadFunc` threads. Each function is broken into steps at the places where another thread can interleave.

**The owner thread.**
- `PoolStart` and the constructor, split into `CtorThread` and `CtorMembers`.
- The steps of `startLoop`: lock, check, `cond_.wait` (with spurious wakeups), and return.
- `GetNextLoop`.
- The pool's and each thread's destructor: `quit()`, then `join()`.

**Each thread.**
- The init callback.
- Lock, publish `loop_` and notify.
- `loop()`, which sets `quit_ = false` on entry.
- The iterations of `loop()`, and exit.

**The constructor order.** The constructor starts `thread_` before `mutex_`, `cond_` and `callback_` are constructed. This is undefined behaviour, and the model makes it a nondeterministic choice:
- a lock taken before `mutex_`'s constructor ran is wiped;
- the callback test reads a value that is not yet assigned.

**Fairness.** The owner and every thread get weak fairness: threads of the OS are scheduled.

### `Buffer.tla` refines `ByteQueue.tla`

`Buffer.tla` holds a `Buffer`'s vector and its two indices:
- `append` and `makeSpace`, with both its resize and its move branches;
- `retrieve`, `retrieveAll` and `retrieveAsString`;
- `readFd`, including the `extrabuf` overflow path;
- `writeFd`.

Each is translated as a function on a buffer value. The sizes (`CheapPrepend`, `InitialSize`, `ExtraBufSize`) are constants that keep the code's relations at a small scale.

`ByteQueue.tla` is the abstract specification: a queue of bytes, appended at the back and taken from the front. `Buffer` implements it under the refinement mapping `q <- peek()..beginWrite()`:

```
BQ == INSTANCE ByteQueue WITH q <- Contents(B)
BufferIsByteQueue == BQ!Spec
```

### `TcpServer.tla`: accepting and reclaiming connections

This module composes `TcpServer` and `Acceptor` with the connection lifecycle, each connection abstracted to its `state_`. It has one pending-functor queue per loop.

**The kernel side.**
- `Connect` adds to the listen backlog. Each arrival puts the listening fd on epoll's ready list (`edge`).
- `HandleRead` (`Acceptor::handleRead`) accepts once per edge: a connection, EAGAIN, or EMFILE when `MaxFds` descriptors are held.

**What happens to an accepted connection.**
1. `NewConnection` takes the loop `getNextLoop` returns, stores the connection in `connections_`, and queues `connectEstablished` on that loop.
2. `PeerClose` is `handleClose` plus `removeConnection`. It hands `removeConnectionInLoop` to the base loop.
3. `removeConnectionInLoop` erases the entry and queues `connectDestroyed` back on the connection's loop.
4. `ServerDtor` is `~TcpServer` after the base loop has returned. It queues `connectDestroyed` for every entry still in `connections_` and runs `~Acceptor`.

**Fairness.** Every loop keeps polling and running its functors, which justifies weak fairness on `HandleRead` and, while the server is alive, on each `RunFunctor(l)`. After `~TcpServer` the owner destroys `thread_pool_`, which quits the I/O loops (`ServerTeardown.tla`), so no fairness is assumed for them then, and `ConnectionsReclaimed` promises reclamation only while the server lives. Clients, peers, `start` and the destructor are not assumed to act.

### `ServerTeardown.tla`: the I/O loops stopping after `~TcpServer`

This module extends `TcpServer.tla` with the control of each I/O loop's `EventLoop::loop()` and with the pool's destruction.
- **The loop.** `Check(l)` is the `while (!quit_)` test. `Swap(l)` is the return from `epoll_wait` (a wakeup or `quit()`) and the swap in `doPendingFunctors`. `RunBatch(l)` runs one functor of the swapped batch, and `EndBatch(l)` returns to the test. Functors queued during a batch wait for the next iteration.
- **The pool.** `PoolQuit(l)` is `~EventLoopThread` after `~TcpServer`: `quit()` on the loop, then `join()`. The threads are destroyed in order, so a loop is told to quit only after the lower ones have exited.
- **Exit.** When `Check` sees `quit_`, the loop exits and the functors still queued are dropped with the `EventLoop`. A connection whose only owner was a dropped `connectDestroyed` closes its fd, but its `connectDestroyed` (and the connection callback reporting it down) never runs.

**Fairness.** Weak fairness on each loop's steps, on the base loop's functors, on `HandleRead` and on `PoolQuit`: the loops keep running, and a destructor that has begun runs to its end.

## Runs

Each run uses the module's MC module (`MC<Module>.tla`). An MC module extends the model and, where needed, names model values.

| Run | Cfg | Expect | Bounds | What it shows |
|---|---|---|---|---|
| `tcpconn_loop` | `TcpConnection.cfg` | pass | messages of 1–2 bytes, 2 sends, 1-byte send buffer, HWM 2 | With the application on the loop thread: stream integrity through partial writes, no data lost by shutdown, a shutdown completes unless the peer resets, a reset the loop is told of with no input unread closes the connection, queued functors never wait out a poll, and the raw-`this` write-complete functor always runs before the connection is freed. |
| `tcpconn_user` | `TcpConnectionUser.cfg` | pass | the same, plus one user thread | With another thread calling send/shutdown/forceClose: stream integrity and the wakeup invariant still hold. |
| `close_twice` | `CloseTwice.cfg` | violation | as above | `forceClose()` from a callback, then a peer FIN: the close callback runs twice (`disableAll()` left the fd in epoll). |
| `use_after_free` | `UseAfterFree.cfg` | violation | as above | A `send()` from another thread queues `[this, buf]`; the connection is destroyed before the functor runs. |
| `client_dtor_uaf` | `ClientDtor.cfg` | violation | 1 start, 1 stop, 1 failure, 1 close | `~TcpClient` with no connection calls `connector_->stop()`, which queues `[this] { stopInLoop(); }`; `connector_` then frees the Connector, and the loop runs the functor on freed memory. |
| `connector` | `Connector.cfg` | pass | 2 starts, 1 stop, 5 failures, 1 close | Every retry waits 500·2^k ms counted from the last `restart()`, the retry a stop causes included, and the delay reaches the 30 s cap and stays there. |
| `connector_stop_start` | `ConnectorStopStart.cfg` | violation | 2 starts, 1 stop, no failures | `connect()`, `stop()`, `connect()`: the `resetChannel` functor queued by the stop runs after the second `startInLoop` and destroys the new Channel while its fd is in epoll. |
| `timer_queue` | `TimerQueue.cfg` | pass | 2 addresses, 3 timers, delay 1, intervals 0–1, clock ≤ 2, 1 cancel; adds from the loop and another thread, cancels from the loop, another thread and callbacks | Bookkeeping of the three containers (queued adds included), a cancel the code acts on stops the timer for good, one run per expiration, every timer not cancelled fires; addresses are reused. |
| `buffer` | `Buffer.cfg` | pass | prepend 2, initial size 2, extrabuf 2, appends of 1 and 3, ≤ 4 bytes | Indices stay ordered, an emptied buffer is reset, and the Buffer refines ByteQueue through resizes, moves and the extrabuf path. |
| `thread_pool` | `EventLoopThread.cfg` | pass | 2 threads, 4 `getNextLoop` calls | `startLoop` returns the loop its thread published; `getNextLoop` is round-robin over the io loops. |
| `thread_pool_lost_quit` | `ThreadPoolLostQuit.cfg` | violation | 1 thread | The pool destroyed right after `start()`: `quit()` lands before `loop()` resets `quit_`, and the destructor's `join()` never returns. |
| `tcpserver` | `TcpServer.cfg` | pass | 1 io loop, 3 clients, 2 descriptors, 2 `start()` calls | `connections_` never holds a destroyed connection, `connectDestroyed` runs once per connection (also across `~TcpServer`), and while the server lives every closed connection is destroyed through the io loop → base loop → io loop hand-off. |

The project lists at most twelve runs. The following configurations reproduce further findings, which `PROJECT.json` records with the configuration to use:

| Cfg | Module | Property violated | What it shows |
|---|---|---|---|
| `StateResurrection.cfg` | MCTcpConnection | `DisconnectedIsFinal` | Another thread's shutdown/forceClose sets Disconnecting after `handleClose` set Disconnected. |
| `WriteAfterShutdown.cfg` | MCTcpConnection | `NoWriteAfterShutdown` | A queued send writes after `SHUT_WR` (SIGPIPE). |
| `EdgeStall.cfg` | MCTcpConnection | `ReadableDataEventuallyRead` | One `readv` per edge leaves input, and the FIN behind it, unread. |
| `ResetWithData.cfg` | MCTcpConnection | `ResetTearsDown` | A peer reset arrives while input is unread. Linux keeps the input and reports one edge; `handleError` clears `SO_ERROR`, the one `readv` returns the data rather than 0, and no further edge comes, so `handleClose` never runs. Spec §7 says a reset tears the connection down. |
| `ConnectorStopStartStuck.cfg` | MCConnector | `ConnectingResolves` | The calls of `connector_stop_start` leave the connector Connecting forever. |
| `TimerCancelIgnored.cfg` | MCTimerQueue | `CancelledNeverRuns` | A callback cancels another timer of the same expired batch. `getExpired` already took it out of `active_timers_`, so the cancel only lands in `canceling_timers_` and the timer still runs. |
| `ClientDtorClose.cfg` | MCTcpClient | `NoClientUseAfterDestroy` | The destructor's one-second timer, or the connection's close callback, runs `this->...` of the destroyed TcpClient. |
| `ServerTeardown.cfg` | MCServerTeardown | `ServerDtorReclaims` | `~TcpServer` queues `connectDestroyed` on an io loop that has just finished its batch; the pool's `quit()` comes before the next iteration, `loop()` returns, and the connection is never reported down. |
| `TimerCancelBeforeInsert.cfg` | MCTimerQueue | `CancelledNeverRuns` | A cancel on the loop overtakes a queued `addTimerInLoop` and is ignored. |
| `TimerLate.cfg` | MCTimerArith | `FiresByDeadline` | `runAfter(0.001)` fires about a second late: `now()` stores whole seconds where microseconds are expected. |
| `TimerArith.cfg` | MCTimerArith | (passes) | The same timer still runs, after ten thousand 100 µs wakeups. |
| `ThreadMemberOrderHang.cfg` | MCEventLoopThread | `StartReturns` | The lock wiped by `mutex_`'s late constructor loses the notify, and `startLoop` blocks. |
| `ThreadMemberOrderCallback.cfg` | MCEventLoopThread | `CallbackBeforeStart` | `threadFunc` tests `callback_` before it is constructed. |
| `AcceptBurst.cfg` | MCTcpServer | `AcceptDrains` | Two connections before one poll give one edge, and the second is never accepted. One refused by EMFILE is never retried either. Spec §4.6 says a burst is drained. |

**Mutants.** Every property of a passing run has a mutant in `PROJECT.json`. The mutant replaces a mapped definition with a plausible bug: a dropped guard, a missing wrap, an off-by-one, an entry left in a map. TLC must then find the property violated under that run's configuration.

**Why the bounds are enough.**
- Each bound is the smallest that makes the case of interest occur:
  - a one-byte send buffer gives a partial write;
  - two addresses for three timers force address reuse;
  - appends of 3 bytes into a 2-byte buffer take `makeSpace`'s resize, and retrieves followed by appends take its move;
  - three clients with two descriptors reach EMFILE;
  - two pool threads give the wrap of `next_`;
  - in `connector`, five failures and the retry a stop causes take `retry_delay_ms_` from 500 through 16000 to the 30 s cap, and the close checks that `restart()` resets it;
  - `timer_queue` fixes the delay at one tick, since a timer due at once differs only in firing in the tick of its add; cancels and adds come from every thread and callback the code allows.
- The properties concern orders of a few steps, and each run reaches every action.

**Properties stated but not checked by a passing run.** Some properties of the modules fail only on paths that the passing runs exclude. A passing run whose bounds exclude a property's failing path shows nothing about that property, so these properties appear only in the violation runs and reproductions above:
- **Two-thread races.** `DisconnectedIsFinal` and `NoWriteAfterShutdown` can fail only with a second thread, and they do fail with one.
- **Burst input and resets.** `ReadableDataEventuallyRead` and `ResetTearsDown` fail on a burst of input or a reset that arrives with input, and they hold otherwise.
- **Connector after stop/start.** `NoDanglingRegistration`, `NoSocketLeak` and `ConnectingResolves` all fail once `stop()` is followed by `connect()`.
- **Connections after `~TcpServer`.** `ServerDtorReclaims` fails once the pool quits the I/O loops.
- **Cancels that miss.** `CancelledNeverRuns` fails for a cancel that overtakes a queued add or lands in the running batch. `timer_queue` checks the weaker `CancelStopsTimer`, which holds.

What the passing runs check instead is restated where the code does keep it:
- `PeerResetClosesConnection` is about a reset with no input unread;
- `ShutdownCompletes` holds unless the peer resets;
- `ConnectionsReclaimed` holds while the server lives.

## Not modelled

- **Logging, InetAddress, Socket/SocketOps wrappers, the examples.** They are I/O and formatting with no state a property distinguishes. `Socket` and `SocketOps` appear only as the outcomes of their system calls (accept, connect, write, shutdown, close) in the actions that call them. `InetAddress` is a value, and the only address property the code relies on, self-connect detection, is an outcome of `SocketDone`. Their only control is error handling, and `LOG_FATAL` in this library only logs and does not abort, so every failure returns to the caller, whose error branch is modelled (`Acceptor::handleRead`, `Connector::connect`, `sendInLoop`). The examples are applications of the library.
- **The `EventLoop` constructor's one-loop-per-thread check.** `t_loopInThisThread` makes a second loop on a thread `LOG_FATAL`, and this `LOG_FATAL` does not abort. No code path of the library constructs two loops on one thread, so the check is never exercised.
- **EPollPoller's `events_` vector growth.** It does not change behaviour.
- **The `Poller` factory.**
- **TcpClient's `newConnection`.** The connection it creates is the flag `conn` of `Connector.tla`, and its lifetime is that of `TcpConnection.tla`.
- **`Buffer::findCRLF`.** It only reads.
- **Timestamp formatting (`toString`).**
