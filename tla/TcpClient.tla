------------------------------ MODULE TcpClient ------------------------------
(***************************************************************************)
(* The lifetime of a TcpClient (src/net/TcpClient.cc) and of the Connector *)
(* it owns, added to the Connector model: a user thread may destroy the    *)
(* client while its loop keeps running.                                    *)
(*                                                                         *)
(* ~TcpClient reads connection_ under the lock.  With a connection it      *)
(* queues a setCloseCallback functor whose callback captures this, and     *)
(* forceClose()s the connection if connection_ was its only owner.         *)
(* Without one it calls connector_->stop(), which queues [this] {          *)
(* stopInLoop(); }, and adds a one-second timer capturing this.  Then the  *)
(* members go: connector_ is the last owner of the Connector unless a      *)
(* retry timer holds a shared_from_this() copy.                            *)
(*                                                                         *)
(* A step that would run code of an object already freed is recorded in   *)
(* the history variable freed instead of its effect (the behaviour is     *)
(* undefined from there on).                                               *)
(***************************************************************************)
EXTENDS Connector

VARIABLES
  clientAlive,  \* the TcpClient has not been destroyed
  lingering,    \* the runAfter(1, ...) timer of ~TcpClient: "none", "armed",
                \* "expired" or "ran"
  freed         \* history: the objects a callback used after they were freed

clientVars == <<clientAlive, lingering, freed>>
allVars == <<vars, clientVars>>

\* The Connector object exists while connector_ does, or while a retry
\* timer's [p = shared_from_this()] holds it.
ConnectorAlive == clientAlive \/ armed + expired > 0

ConnectorFunctors == {"startInLoop", "stopInLoop", "resetChannel"}
-----------------------------------------------------------------------------
\* TcpClient::~TcpClient, on the user thread.  unique = connection_.unique()
\* is false when another owner (the user, or the loop thread inside the
\* connection's handleEvent) holds the connection at that moment.
ClientDtor ==
  /\ upc = "idle"
  /\ clientAlive
  /\ clientAlive' = FALSE
  /\ IF conn
     THEN /\ \E unique \in BOOLEAN :
               pending' = pending \o <<"setCloseCallback">>
                            \o (IF unique THEN <<"forceCloseInLoop">> ELSE <<>>)
          /\ UNCHANGED <<connect, lingering>>
     ELSE /\ connect' = FALSE
          /\ pending' = Append(pending, "stopInLoop")
          /\ lingering' = "armed"
  /\ UNCHANGED <<cstate, delay, chan, reg, open, conn, armed, delays, sockVars,
                 phase, todo, batch, ran, envVars, freed>>

\* The timerfd is also reported once the lingering timer has expired.
Reported == Ready \cup (IF lingering = "expired" THEN {0} ELSE {})

ClientPoll ==
  /\ phase = "poll"
  /\ phase' = "dispatch"
  /\ \/ todo' \in Orders(Reported)
     \/ /\ conn /\ closes < MaxCloses
        /\ todo' \in Orders(Reported \cup {ConnSource})
  /\ UNCHANGED <<connVars, sockVars, pending, batch, ran, envVars, clientVars>>

\* TimerQueue::handleRead runs [this] { removeConnector(this->connector_); },
\* which reads a member of the destroyed client.
FireLingering ==
  /\ phase = "dispatch"
  /\ todo # <<>> /\ Head(todo) = 0
  /\ lingering = "expired"
  /\ lingering' = "ran"
  /\ freed' = freed \cup {"TcpClient"}
  /\ UNCHANGED <<vars, clientAlive>>

LingeringExpire ==
  /\ lingering = "armed"
  /\ lingering' = "expired"
  /\ UNCHANGED <<vars, clientAlive, freed>>

\* The Connector's Channel is dispatched, or one of its [this] functors
\* runs, after the Connector was freed.
ConnectorUsedAfterFree ==
  /\ ~ConnectorAlive
  /\ \/ /\ phase = "dispatch"
        /\ todo # <<>> /\ Head(todo) > 0
        /\ Head(todo) = chan /\ chan \in reg
        /\ todo' = Tail(todo)
        /\ UNCHANGED ran
     \/ /\ phase = "drain"
        /\ ran < Len(batch) /\ batch[ran + 1] \in ConnectorFunctors
        /\ ran' = ran + 1
        /\ UNCHANGED todo
  /\ freed' = freed \cup {"Connector"}
  /\ UNCHANGED <<connVars, sockVars, phase, pending, batch, envVars,
                 clientAlive, lingering>>

\* The connection closes after ~TcpClient: handleClose calls its close
\* callback (newConnection's or the destructor's), both of which run
\* this->removeConnection(conn).
ClosedAfterDtor ==
  /\ ~clientAlive
  /\ phase = "dispatch"
  /\ todo # <<>> /\ Head(todo) = ConnSource
  /\ todo' = Tail(todo)
  /\ conn /\ closes < MaxCloses
  /\ closes' = closes + 1
  /\ conn' = FALSE
  /\ freed' = freed \cup {"TcpClient"}
  /\ UNCHANGED <<cstate, connect, delay, chan, reg, open, armed, delays,
                 sockVars, phase, pending, batch, ran, upc, clientConnect,
                 expired, starts, stops, clientAlive, lingering>>

\* The destructor's functors: conn->setCloseCallback(cb), and
\* forceCloseInLoop, whose handleClose runs the close callback while the
\* connection is still Connected or Disconnecting.
RunClientFunctor ==
  /\ phase = "drain"
  /\ ran < Len(batch) /\ batch[ran + 1] \notin ConnectorFunctors
  /\ ran' = ran + 1
  /\ IF batch[ran + 1] = "forceCloseInLoop" /\ conn
     THEN /\ conn' = FALSE
          /\ freed' = freed \cup {"TcpClient"}
     ELSE UNCHANGED <<conn, freed>>
  /\ UNCHANGED <<cstate, connect, delay, chan, reg, open, armed, delays,
                 sockVars, phase, todo, pending, batch, envVars, clientAlive,
                 lingering>>
-----------------------------------------------------------------------------
ClientInit ==
  /\ Init
  /\ clientAlive = TRUE
  /\ lingering = "none"
  /\ freed = {}

\* The Connector's steps, taken only while the objects they run code of
\* exist; their freed counterparts are the steps above.
ConnectorStep ==
  /\ \/ FireTimer \/ BeginDrain \/ EndDrain
     \/ lingering # "expired" /\ EndTimers
     \/ HandleChannel /\ (ConnectorAlive \/ Head(todo) # chan \/ chan \notin reg)
     \/ clientAlive /\ ConnectionClosed
     \/ /\ phase = "drain" /\ ran < Len(batch)
        /\ batch[ran + 1] \in ConnectorFunctors /\ ConnectorAlive
        /\ RunFunctor
     \/ clientAlive /\ (UserStart \/ UserStop \/ UserDisconnect)
     \/ UserQueue
     \/ \E s \in DOMAIN result : s \in open /\ SocketDone(s)
     \/ TimerExpire
  /\ UNCHANGED clientVars

ClientNext ==
  \/ ConnectorStep
  \/ ClientPoll
  \/ ClientDtor \/ FireLingering \/ LingeringExpire
  \/ ConnectorUsedAfterFree \/ ClosedAfterDtor \/ RunClientFunctor

ClientSpec == ClientInit /\ [][ClientNext]_allVars
-----------------------------------------------------------------------------
(* No code of a freed object runs: once ~TcpClient has returned, no       *)
(* callback the loop thread still holds (a queued functor, a timer, a      *)
(* Channel or the connection's close callback) runs a member of the       *)
(* TcpClient or of the Connector it owned.                                 *)
NoUseAfterDestroy == freed = {}

(* The same for the TcpClient alone: the close callback and the lingering *)
(* timer, which capture this, never run after the destructor.             *)
NoClientUseAfterDestroy == "TcpClient" \notin freed
=============================================================================
