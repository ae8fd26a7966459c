----------------------------- MODULE Connector -----------------------------
(***************************************************************************)
(* The active-open side of mymuduo: one Connector (src/net/Connector.cc)   *)
(* driven by a TcpClient, on its EventLoop.                                 *)
(*                                                                         *)
(* The loop thread polls, dispatches the ready sources (the connector's    *)
(* Channel and the TimerQueue's timerfd) and drains the pending functors,  *)
(* as in EventLoop::loop().  A user thread calls start() and stop()        *)
(* (TcpClient::connect / TcpClient::stop).  The established connection is *)
(* abstracted to a flag; its close runs TcpClient::removeConnection, which *)
(* restarts the connector.                                                 *)
(*                                                                         *)
(* A socket and the Channel built for it share an identity: the n-th       *)
(* socket created by connect() is n.  chan is the object channel_ points   *)
(* to (0 for null); only that object is alive, since std::unique_ptr       *)
(* destroys the old Channel whenever channel_ is reset.                    *)
(***************************************************************************)
EXTENDS Integers, Sequences, FiniteSets, TLC

CONSTANTS
  MaxStarts,     \* bound on calls of start()
  MaxStops,      \* bound on calls of stop()
  MaxFailures,   \* bound on failed connection attempts the network causes
  MaxCloses,     \* bound on closes of an established connection
  RetryEnabled   \* TcpClient::enableRetry() was called (retry_)

ASSUME /\ MaxStarts \in Nat /\ MaxStops \in Nat /\ MaxFailures \in Nat
       /\ MaxCloses \in Nat /\ RetryEnabled \in BOOLEAN

\* Connector::InitRetryDelayMs and Connector::MaxRetryDelayMs
InitRetryDelayMs == 500
MaxRetryDelayMs == 30 * 1000

VARIABLES
  cstate,     \* Connector::state_
  connect,    \* Connector::connect_
  delay,      \* Connector::retry_delay_ms_
  chan,       \* the Channel channel_ owns (a socket id), 0 when null
  reg,        \* Channels registered in epoll (EPollPoller::channels_)
  open,       \* sockets the connector has created and not closed or handed on
  result,     \* result[s]: how the non-blocking connect of socket s ends
  nextSock,   \* sockets created so far
  conn,       \* TcpClient holds an established connection
  armed,      \* retry timers added and not yet expired
  expired,    \* retry timers expired and not yet run
  delays,     \* history: delays of the retries since the last restart
  phase,      \* loop thread: "poll", "dispatch", "drain"
  todo,       \* sources still to dispatch: 0 is the timerfd, s a Channel
  pending,    \* EventLoop::pending_functors_
  batch,      \* the functors doPendingFunctors swapped out
  ran,        \* how many of batch have run
  upc,        \* where the user thread is inside start() or stop()
  clientConnect, \* TcpClient::connect_
  failures, starts, stops, closes   \* environment budgets used

connVars == <<cstate, connect, delay, chan, reg, open, conn, armed, delays>>
sockVars == <<result, nextSock, failures>>
loopVars == <<phase, todo, pending, batch, ran>>
envVars  == <<upc, clientConnect, expired, starts, stops, closes>>
vars == <<connVars, sockVars, loopVars, envVars>>

Lesser(a, b) == IF a < b THEN a ELSE b

\* Mutant of NextDelay: the std::min with MaxRetryDelayMs is dropped.
NextDelayUncapped(d) == d * 2

\* Mutant of NextDelay: a linear backoff.
NextDelayLinear(d) == Lesser(d + InitRetryDelayMs, MaxRetryDelayMs)

\* retry_delay_ms_ = std::min(retry_delay_ms_ * 2, MaxRetryDelayMs)
NextDelay(d) == Lesser(d * 2, MaxRetryDelayMs)
-----------------------------------------------------------------------------
(***************************************************************************)
(* Connector's operations on the loop thread.  Each is a predicate on the *)
(* connector's variables and pending; the caller fixes the rest.           *)
(***************************************************************************)
\* Connector::retry: close the socket, Disconnected, and if connect_ add a
\* timer (runAfter) that runs startInLoop, doubling the delay.
Retry(s) ==
  /\ open' = open \ {s}
  /\ cstate' = "Disconnected"
  /\ IF connect
     THEN /\ armed' = armed + 1
          /\ delays' = Append(delays, delay)
          /\ delay' = NextDelay(delay)
     ELSE UNCHANGED <<armed, delays, delay>>

\* Connector::removeAndResetChannel: disableAll, remove (EPOLL_CTL_DEL),
\* and queue [this] { resetChannel(); }.
RemoveAndResetChannel ==
  /\ reg' = reg \ {chan}
  /\ pending' = Append(pending, "resetChannel")

\* Connector::connecting(sockfd): Connecting; channel_.reset(new Channel)
\* destroys the old Channel; enableWriting() adds the new one to epoll.
Connecting(s) ==
  /\ cstate' = "Connecting"
  /\ chan' = s
  /\ reg' = reg \cup {s}

\* (The caller fixes conn.)
\* Connector::connect, entered with state_ = cs, retry_delay_ms_ = d and
\* the retry history ds (connect_ is set: startInLoop tested it).  A new
\* non-blocking socket, then the outcome of ::connect():
\*  - 0, EINPROGRESS, EINTR, EISCONN -> connecting(sockfd): Connecting,
\*    channel_.reset(new Channel) destroys the old Channel, and
\*    enableWriting() adds the new one to epoll;
\*  - EAGAIN, EADDRINUSE, EADDRNOTAVAIL, ECONNREFUSED, ENETUNREACH ->
\*    retry(sockfd);
\*  - any other error -> close(sockfd), state_ left as it was.
ConnectWith(cs, d, ds) ==
  LET s == nextSock + 1 IN
  /\ nextSock' = s
  /\ \/ /\ result' = result @@ (s :> "pending")
        /\ open' = open \cup {s}
        /\ Connecting(s)
        /\ delay' = d
        /\ delays' = ds
        /\ UNCHANGED <<armed, failures>>
     \/ /\ failures < MaxFailures
        /\ failures' = failures + 1
        /\ result' = result @@ (s :> "refused")
        /\ UNCHANGED <<open, chan, reg>>
        /\ \/ /\ cstate' = "Disconnected"
              /\ armed' = armed + 1
              /\ delays' = Append(ds, d)
              /\ delay' = NextDelay(d)
           \/ /\ cstate' = cs
              /\ delay' = d
              /\ delays' = ds
              /\ UNCHANGED armed
  /\ UNCHANGED pending

\* Connector::startInLoop
StartInLoop ==
  IF connect THEN ConnectWith(cstate, delay, delays) /\ UNCHANGED <<connect, conn>>
  ELSE UNCHANGED <<connVars, sockVars, pending>>

\* Mutant of Restart: retry_delay_ms_ is not reset.
RestartKeepDelay ==
  /\ connect' = TRUE
  /\ ConnectWith("Disconnected", delay, <<>>)

\* Connector::restart: Disconnected, the initial delay, connect_ = true,
\* then startInLoop(), whose connect_ test passes.
Restart ==
  /\ connect' = TRUE
  /\ ConnectWith("Disconnected", InitRetryDelayMs, <<>>)

\* Connector::stopInLoop: a connection in progress is torn down and
\* retry(sockfd) runs, which re-arms a timer when connect_ is set again.
StopInLoop ==
  IF cstate = "Connecting"
  THEN /\ RemoveAndResetChannel
       /\ Retry(chan)
       /\ UNCHANGED <<connect, chan, conn, sockVars>>
  ELSE UNCHANGED <<connVars, sockVars, pending>>

\* Connector::resetChannel: channel_.reset() destroys whatever Channel
\* channel_ owns when the functor runs.
ResetChannel ==
  /\ chan' = 0
  /\ UNCHANGED <<cstate, connect, delay, reg, open, conn, armed, delays,
                 sockVars, pending>>

\* The channel's callbacks for the outcome r of its socket s:
\* "ok" and "self" give EPOLLOUT -> handleWrite; "refused" gives
\* EPOLLOUT|EPOLLERR|EPOLLHUP -> handleError, then handleWrite, which
\* finds state_ != Connecting and only logs.
\* handleWrite while Connecting: removeAndResetChannel; SO_ERROR or a
\* self-connect -> retry; otherwise Connected and the socket goes to
\* TcpClient::newConnection if connect_ is set, else it is closed.
ChannelEvent(s) ==
  IF cstate = "Connecting"
  THEN /\ RemoveAndResetChannel
       /\ IF result[s] = "ok"
          THEN /\ cstate' = "Connected"
               /\ open' = open \ {s}
               /\ conn' = connect
               /\ UNCHANGED <<delay, armed, delays>>
          ELSE /\ Retry(s)
               /\ UNCHANGED conn
       /\ UNCHANGED <<connect, chan, sockVars>>
  ELSE UNCHANGED <<connVars, sockVars, pending>>
-----------------------------------------------------------------------------
(***************************************************************************)
(* The loop thread.                                                        *)
(***************************************************************************)
\* The sources epoll_wait reports: the timerfd when a retry timer has
\* expired, and the live Channel once its connect has finished (EPOLLOUT
\* is level-triggered).  A destroyed Channel still in epoll would be a
\* dangling pointer; NoDanglingRegistration rules it out.
Ready ==
  (IF expired > 0 THEN {0} ELSE {})
  \cup {s \in reg : s = chan /\ result[s] # "pending"}

\* The established TcpConnection's Channel, reported when its peer has
\* closed; it is registered by connectEstablished(), so no earlier than
\* the poll after the one that connected.
ConnSource == -1

Orders(S) == {q \in [1..Cardinality(S) -> S] : \A i, j \in DOMAIN q : i # j => q[i] # q[j]}

Poll ==
  /\ phase = "poll"
  /\ phase' = "dispatch"
  /\ \/ todo' \in Orders(Ready)
     \/ /\ conn /\ closes < MaxCloses
        /\ todo' \in Orders(Ready \cup {ConnSource})
  /\ UNCHANGED <<connVars, sockVars, pending, batch, ran, envVars>>

\* TimerQueue::handleRead runs an expired retry timer:
\* [p = shared_from_this()] { p->startInLoop(); }.
FireTimer ==
  /\ phase = "dispatch"
  /\ todo # <<>> /\ Head(todo) = 0
  /\ expired > 0
  /\ expired' = expired - 1
  /\ StartInLoop
  /\ UNCHANGED <<phase, todo, batch, ran, upc, clientConnect, starts, stops, closes>>

\* handleRead has run every expired timer.
EndTimers ==
  /\ phase = "dispatch"
  /\ todo # <<>> /\ Head(todo) = 0
  /\ expired = 0
  /\ todo' = Tail(todo)
  /\ UNCHANGED <<connVars, sockVars, phase, pending, batch, ran, envVars>>

\* Channel::handleEvent of the connector's Channel s.  An earlier handler
\* of this dispatch may have replaced channel_; the stale Channel is then
\* not dispatched.
HandleChannel ==
  /\ phase = "dispatch"
  /\ todo # <<>> /\ Head(todo) > 0
  /\ todo' = Tail(todo)
  /\ IF Head(todo) = chan /\ chan \in reg
     THEN ChannelEvent(chan)
     ELSE UNCHANGED <<connVars, sockVars, pending>>
  /\ UNCHANGED <<phase, batch, ran, envVars>>

\* The established connection closes: TcpClient::removeConnection, on the
\* loop thread, resets connection_, queues connectDestroyed (not modelled:
\* the connection is a flag) and restarts the connector when
\* retry_ && connect_ (TcpClient's connect_, which disconnect() clears
\* without the connector's).
ConnectionClosed ==
  /\ phase = "dispatch"
  /\ todo # <<>> /\ Head(todo) = ConnSource
  /\ todo' = Tail(todo)
  /\ conn
  /\ closes < MaxCloses
  /\ closes' = closes + 1
  /\ conn' = FALSE
  /\ IF RetryEnabled /\ clientConnect
     THEN Restart
     ELSE UNCHANGED <<cstate, connect, delay, chan, reg, open, armed, delays,
                      sockVars, pending>>
  /\ UNCHANGED <<phase, batch, ran, upc, clientConnect, expired, starts, stops>>

BeginDrain ==
  /\ phase = "dispatch"
  /\ todo = <<>>
  /\ phase' = "drain"
  /\ batch' = pending
  /\ pending' = <<>>
  /\ ran' = 0
  /\ UNCHANGED <<connVars, sockVars, todo, envVars>>

\* The next functor of the batch.
RunFunctor ==
  /\ phase = "drain"
  /\ ran < Len(batch)
  /\ ran' = ran + 1
  /\ CASE batch[ran + 1] = "startInLoop"  -> StartInLoop
       [] batch[ran + 1] = "stopInLoop"   -> StopInLoop
       [] batch[ran + 1] = "resetChannel" -> ResetChannel
  /\ UNCHANGED <<phase, todo, batch, envVars>>

EndDrain ==
  /\ phase = "drain"
  /\ ran = Len(batch)
  /\ phase' = "poll"
  /\ batch' = <<>>
  /\ ran' = 0
  /\ UNCHANGED <<connVars, sockVars, todo, pending, envVars>>
-----------------------------------------------------------------------------
(***************************************************************************)
(* The user thread, the network and the timers.                            *)
(***************************************************************************)
\* The user alternates TcpClient::connect() and TcpClient::stop(),
\* beginning with connect(), and may call disconnect() at any time.
\* Connector::start: connect_ = true, then runInLoop of startInLoop
\* (UserQueue).
ConnectorStart ==
  /\ connect' = TRUE
  /\ upc' = "start"

\* TcpClient::connect: connect_ = true; connector_->start().
UserStart ==
  /\ upc = "idle"
  /\ starts = stops
  /\ starts < MaxStarts
  /\ starts' = starts + 1
  /\ clientConnect' = TRUE
  /\ ConnectorStart
  /\ UNCHANGED <<cstate, delay, chan, reg, open, conn, armed, delays, sockVars,
                 loopVars, expired, stops, closes>>

\* Connector::stop: connect_ = false, then queueInLoop of stopInLoop
\* (UserQueue).
ConnectorStop ==
  /\ connect' = FALSE
  /\ upc' = "stop"

\* TcpClient::stop: connect_ = false; connector_->stop().
UserStop ==
  /\ upc = "idle"
  /\ stops < starts
  /\ stops < MaxStops
  /\ stops' = stops + 1
  /\ clientConnect' = FALSE
  /\ ConnectorStop
  /\ UNCHANGED <<cstate, delay, chan, reg, open, conn, armed, delays, sockVars,
                 loopVars, expired, starts, closes>>

\* ... then runInLoop / queueInLoop of startInLoop or stopInLoop.
UserQueue ==
  /\ upc \in {"start", "stop"}
  /\ pending' = Append(pending, IF upc = "start" THEN "startInLoop" ELSE "stopInLoop")
  /\ upc' = "idle"
  /\ UNCHANGED <<connVars, sockVars, phase, todo, batch, ran, clientConnect,
                 expired, starts, stops, closes>>

\* TcpClient::disconnect: connect_ = false, then, under the lock, shutdown()
\* of connection_ if there is one.  The half-close is abstracted: the peer's
\* close that follows it is the connection's close (ConnSource).  The
\* Connector keeps its own connect_.
UserDisconnect ==
  /\ upc = "idle"
  /\ clientConnect
  /\ clientConnect' = FALSE
  /\ UNCHANGED <<connVars, sockVars, loopVars, upc, expired, starts, stops, closes>>

\* The non-blocking connect of an open socket finishes.
SocketDone(s) ==
  /\ result[s] = "pending"
  /\ \E r \in {"ok"} \cup (IF failures < MaxFailures THEN {"refused", "self"} ELSE {}) :
       /\ result' = [result EXCEPT ![s] = r]
       /\ failures' = IF r = "ok" THEN failures ELSE failures + 1
  /\ UNCHANGED <<connVars, nextSock, loopVars, envVars>>

\* A retry timer's expiration passes.
TimerExpire ==
  /\ armed > 0
  /\ armed' = armed - 1
  /\ expired' = expired + 1
  /\ UNCHANGED <<cstate, connect, delay, chan, reg, open, conn, delays,
                 sockVars, loopVars, upc, clientConnect, starts, stops, closes>>
-----------------------------------------------------------------------------
Init ==
  /\ cstate = "Disconnected"
  /\ connect = FALSE
  /\ delay = InitRetryDelayMs
  /\ chan = 0
  /\ reg = {}
  /\ open = {}
  /\ result = <<>>
  /\ nextSock = 0
  /\ conn = FALSE
  /\ armed = 0
  /\ expired = 0
  /\ delays = <<>>
  /\ phase = "poll"
  /\ todo = <<>>
  /\ pending = <<>>
  /\ batch = <<>>
  /\ ran = 0
  /\ upc = "idle"
  /\ clientConnect = TRUE
  /\ failures = 0
  /\ starts = 0
  /\ stops = 0
  /\ closes = 0

LoopStep ==
  \/ Poll \/ FireTimer \/ EndTimers \/ HandleChannel \/ ConnectionClosed
  \/ BeginDrain \/ RunFunctor \/ EndDrain

Next ==
  \/ LoopStep
  \/ UserStart \/ UserStop \/ UserQueue \/ UserDisconnect
  \/ \E s \in DOMAIN result : s \in open /\ SocketDone(s)
  \/ TimerExpire

\* The loop thread keeps running, a user call in progress completes, a
\* connect in progress finishes and an armed timer expires.  The user's
\* calls and the connection's close are not assumed.
Fairness ==
  /\ WF_vars(LoopStep)
  /\ WF_vars(UserQueue)
  /\ \A s \in 1..(MaxStarts + MaxCloses + MaxFailures + MaxStops) :
       WF_vars(s \in DOMAIN result /\ s \in open /\ SocketDone(s))
  /\ WF_vars(TimerExpire)

Spec == Init /\ [][Next]_vars /\ Fairness
-----------------------------------------------------------------------------
(***************************************************************************)
(* Properties.                                                             *)
(***************************************************************************)
\* The delay of the k-th retry after a restart, as spec section 8 gives it.
Backoff(k) == Lesser(InitRetryDelayMs * 2^k, MaxRetryDelayMs)

TypeOK ==
  /\ cstate \in {"Disconnected", "Connecting", "Connected"}
  /\ connect \in BOOLEAN /\ conn \in BOOLEAN
  /\ delay \in {Backoff(k) : k \in 0..MaxFailures + MaxStops}
  /\ chan \in 0..nextSock
  /\ reg \subseteq 1..nextSock /\ open \subseteq 1..nextSock
  /\ DOMAIN result = 1..nextSock
  /\ armed \in Nat /\ expired \in Nat
  /\ phase \in {"poll", "dispatch", "drain"}
  /\ \A i \in DOMAIN pending : pending[i] \in {"startInLoop", "stopInLoop", "resetChannel"}
  /\ ran \in 0..Len(batch)
  /\ upc \in {"idle", "start", "stop"}
  /\ clientConnect \in BOOLEAN

(* No Channel is destroyed while it is still registered: every Channel in *)
(* epoll is the one channel_ owns.  connecting() replaces channel_, and    *)
(* resetChannel() runs one drain after removeAndResetChannel; either may   *)
(* destroy a Channel epoll still points to (spec: at most one in-flight   *)
(* Channel).                                                               *)
NoDanglingRegistration == reg \subseteq {chan}

(* Every socket the connector has opened and not yet closed or handed to  *)
(* TcpClient is the socket of its live Channel: no descriptor is lost when *)
(* channel_ is reset.                                                      *)
NoSocketLeak == open \subseteq {chan}

(* A connection attempt in progress ends: a Connecting connector reaches  *)
(* Connected or Disconnected (handleWrite, handleError or stopInLoop).    *)
ConnectingResolves == (cstate = "Connecting") ~> (cstate # "Connecting")

(* The retries since the last restart() wait 500, 1000, 2000, ... ms,     *)
(* capped at 30000 ms (spec section 4.7), and retry_delay_ms_ holds the   *)
(* delay of the next one: retry() doubles it with std::min, restart()     *)
(* alone resets it, and the retry of a stopInLoop counts like a failure,   *)
(* also when stop() and start() interleave.                                *)
RetryBackoff ==
  /\ \A i \in DOMAIN delays : delays[i] = Backoff(i - 1)
  /\ delay = Backoff(Len(delays))
=============================================================================
