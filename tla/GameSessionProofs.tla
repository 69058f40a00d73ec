-------------------------- MODULE GameSessionProofs ---------------------------
(* TLAPS proofs about GameSession, for any number of connections and lines. *)
EXTENDS GameSession, FiniteSetTheorems, SequenceTheorems, TLAPS

-----------------------------------------------------------------------------
(* The invariant: types, connections and lines.                            *)

Line == Conns \X (Nat \ {0})

\* The types the proofs use; the bounds of TypeOK on the lines are TLC's.
Typed ==
    /\ connected \in [Clients -> BOOLEAN] /\ open \in [Clients -> BOOLEAN]
    /\ thread \in [Clients -> {"none", "done"} \cup Alive]
    /\ queue \in [Clients -> Seq(Line)]
    /\ delivered \in [Clients -> Seq(Line)]
    /\ conn \in [Clients -> 0 .. MaxConns]
    /\ conns \in 0 .. MaxConns
    /\ srv \in [Conns -> {"none", "open", "left", "reset", "closed"}]
    /\ sent \in [Conns -> Nat] /\ ackAt \in [Conns -> Nat]
    /\ received \in [Conns -> Nat] /\ pushed \in [Conns -> Nat]
    /\ state \in [Clients -> {"disconnected", "connected", "authenticated"}]
    /\ stale \subseteq Clients

AppTyped ==
    /\ session \in {"single", "hosted", "joined"}
    /\ running \in BOOLEAN /\ shouldStop \in BOOLEAN
    /\ ticker \in {"none", "ticks", "done"}
    /\ ended \in {"no", "quit", "terminate"}

\* Connections are numbered as they are made, each for one client, and those
\* to come have no line and no server.
Numbered ==
    /\ \A k \in Clients : conn[k] <= conns
    /\ \A j, k \in Clients : j # k /\ conn[j] # 0 => conn[j] # conn[k]
    /\ \A k \in Clients : thread[k] # "none" => conn[k] # 0
    /\ \A c \in Conns : c > conns => pushed[c] = 0 /\ srv[c] = "none"

\* A client whose flag is up has an open socket, a thread that reads it and a
\* NetworkManager that believes in it.
FlagUp ==
    \A k \in Clients : connected[k] =>
        open[k] /\ thread[k] \in Alive /\ IsConnected(k)

\* The lines a client has had, from the first handed on to the last queued.
Had(k) == delivered[k] \o queue[k]
Of(s, c) == {i \in DOMAIN s : s[i][1] = c}

\* Lines in the order of their connections, each numbered by its place among
\* those of its connection.
InOrder(s) ==
    \A i \in DOMAIN s :
        /\ s[i][2] = Cardinality({j \in 1 .. i - 1 : s[j][1] = s[i][1]}) + 1
        /\ i > 1 => s[i - 1][1] <= s[i][1]

\* The next line of a client continues what it has had.
Continued ==
    \A k \in Clients :
        /\ InOrder(Had(k))
        /\ \A i \in DOMAIN Had(k) : Had(k)[i][1] <= conn[k]
        /\ conn[k] # 0 => Cardinality(Of(Had(k), conn[k])) = pushed[conn[k]]

\* A queue that was empty when its client connected holds lines of that
\* connection only.
OwnLines ==
    \A k \in Clients \ stale : \A i \in DOMAIN queue[k] : queue[k][i][1] = conn[k]

-----------------------------------------------------------------------------
(* The invariant: where a call is, and what is up there.                   *)

\* What is left of hosting, of joining and of quitting at each of their steps,
\* with the ways out that a failure takes.
Hosting     == <<Try("hostSession", Session, <<Op("stopServer", Session)>>),
                 Try("connect", Game, HostUndo)>>
HostConnect == <<Try("connect", Game, HostUndo)>>
HostHello   == <<Try("hello", Game, HostUndo)>>
HostDrop    == <<Op("disconnect", Game), Op("leave", Session), Op("stopServer", Session)>>
HostWait    == <<Op("join", Game), Op("leave", Session), Op("stopServer", Session)>>
Stopping    == <<Op("stopServer", Session)>>
StopWait    == <<Op("joinServer", Session)>>

Entering    == <<Try("joinSession", Session, <<Op("disconnect", Game)>>)>>
Joining     == <<Op("connect", Game),
                 Try("joinSession", Session, <<Op("disconnect", Game)>>)>>
JoinHello   == <<Try("hello", Game, <<>>),
                 Try("joinSession", Session, <<Op("disconnect", Game)>>)>>
Dropping    == <<Op("disconnect", Game)>>
DropWait    == <<Op("join", Game)>>
NextConnect == <<Try("connect", Session, GiveUp)>>
NextHello   == <<Try("hello", Session, GiveUp)>>
NextDrop    == <<Op("disconnect", Session), Op("giveUp", Session), Op("disconnect", Game)>>
NextWait    == <<Op("join", Session), Op("giveUp", Session), Op("disconnect", Game)>>

Quitting    == <<Op("leave", Session), Op("stopServer", Session),
                 Op("disconnect", Game), Op("destroy", Game)>>
QuitDrop    == <<Op("disconnect", Session), Op("stopServer", Session),
                 Op("disconnect", Game), Op("destroy", Game)>>
QuitWait    == <<Op("join", Session), Op("stopServer", Session),
                 Op("disconnect", Game), Op("destroy", Game)>>
QuitStop    == <<Op("stopServer", Session), Op("disconnect", Game), Op("destroy", Game)>>
QuitServer  == <<Op("joinServer", Session), Op("disconnect", Game), Op("destroy", Game)>>
QuitGame    == <<Op("disconnect", Game), Op("destroy", Game)>>
QuitLast    == <<Op("join", Game), Op("destroy", Game)>>
Destroying  == <<Op("destroy", Game)>>

\* The sessions as they should be between calls.
Alone  == session = "single" /\ ~IsConnected(Game) /\ ~IsConnected(Session)
Both   == session = "joined" /\ IsConnected(Game) /\ IsConnected(Session)
Hosted == session = "hosted" /\ running /\ ~IsConnected(Session)

Settled == \/ Alone /\ ~running
           \/ Hosted /\ IsConnected(Game)
           \/ Both /\ ~running

\* What is up at each step of a call.
WhileHosting ==
    \/ todo \in {Hosting, Stopping, StopWait} /\ running /\ (Alone \/ Both)
    \/ todo \in {HostConnect, HostUndo} /\ Hosted /\ ~IsConnected(Game)
    \/ todo = HostHello /\ Hosted /\ IsConnected(Game)
    \/ todo \in {HostDrop, HostWait} /\ Hosted

WhileJoining ==
    /\ ~running
    /\ \/ /\ todo \in {JoinHello, Entering}
          /\ session = "single" /\ IsConnected(Game) /\ ~IsConnected(Session)
       \/ todo \in {Dropping, DropWait} /\ session = "single" /\ ~IsConnected(Session)
       \/ /\ todo = NextConnect
          /\ session = "joined" /\ IsConnected(Game) /\ ~IsConnected(Session)
       \/ todo = NextHello /\ Both
       \/ todo \in {NextDrop, NextWait} /\ session = "joined"
       \/ todo = GiveUp /\ session = "joined" /\ ~IsConnected(Session)

WhileQuitting ==
    \/ todo \in {QuitDrop, QuitWait}
    \/ todo \in {QuitStop, QuitServer, QuitGame, QuitLast} /\ ~IsConnected(Session)
    \/ todo = Destroying /\ ~IsConnected(Game) /\ ~IsConnected(Session)

Located ==
    ended = "no" => \/ todo \in {<<>>, Joining, Quitting} /\ Settled
                    \/ WhileHosting \/ WhileJoining \/ WhileQuitting

NowAt(name) == todo # <<>> /\ Head(todo).name = name

\* The server's thread runs while the server does, until a stop that is waiting
\* for it.
TickerKnown ==
    /\ running <=> ticker # "none"
    /\ ticker = "done" => shouldStop
    /\ running /\ shouldStop => NowAt("joinServer")

\* While no server has closed or reset, a receive thread is that of a connection that is
\* up, or is being joined.
NoLoss == \A c \in Conns : ~Lost(c)
ThreadsKnown ==
    NoLoss => \A k \in Clients : thread[k] # "none" =>
                  connected[k] \/ (NowAt("join") /\ Head(todo).of = k)
-----------------------------------------------------------------------------
(* The steps, by what they change of clients, network and lines.           *)

ClientVars == <<client, network, state, history>>

Reads(k) == RecvLines(k) \/ RecvEnds(k) \/ LoopEnds(k)

\* The server ends a connection, or the socket has reported its reset.
Ends(c) ==
    /\ srv[c] \in {"open", "reset"}
    /\ \E how \in {"reset", "closed"} : srv' = [srv EXCEPT ![c] = how]
    /\ UNCHANGED <<client, conns, greeted, sent, received, pushed, ackAt>>

LEMMA Steps ==
    ASSUME [Next]_vars
    PROVE  \/ UNCHANGED ClientVars
           \/ Frame
           \/ \E k \in Clients : Connect(k) \/ Hello(k) \/ Disconnect(k) \/ JoinThread(k)
           \/ \E k \in Clients : (Reads(k) \/ Push(k)) /\ UNCHANGED <<app, history>>
           \/ \E c \in Conns : ServerSends(c) /\ UNCHANGED <<app, history>>
           \/ \E c : Ends(c) /\ UNCHANGED <<app, history>>
<1>1. CASE Host \/ JoinGame \/ Quit
  BY <1>1 DEF Host, JoinGame, Quit, ClientVars
<1>2. CASE HostSession \/ JoinSession \/ GiveSessionUp \/ Leave
  BY <1>2 DEF HostSession, JoinSession, GiveSessionUp, Leave, ClientVars
<1>3. CASE StopServer \/ JoinServer \/ Destroy \/ TickerEnds
  BY <1>3 DEF StopServer, JoinServer, Destroy, TickerEnds, ClientVars
<1>4. ASSUME NEW k \in Clients, ConnectFails(k) \/ HelloFails(k)
      PROVE  UNCHANGED ClientVars
  BY <1>4 DEF ConnectFails, HelloFails, ClientVars
<1>5. CASE \E k \in Clients : Receiver(k)
  <2>1. \A k : RecvReset(k) => Ends(conn[k])
    BY DEF RecvReset, Ends
  <2>2. QED
    BY <1>5, <2>1 DEF Receiver, Receive, Reads
<1>6. CASE RemoteServer
  <2>1. \A c : ServerEnds(c) => Ends(c)
    BY DEF ServerEnds, Ends
  <2>2. QED
    BY <1>6, <2>1 DEF RemoteServer, Server
<1>7. CASE UNCHANGED vars
  BY <1>7 DEF vars, app, ClientVars
<1>8. QED
  BY <1>1, <1>2, <1>3, <1>4, <1>5, <1>6, <1>7 DEF Next, AppCall, AppStep

LEMMA ReaderHasConn ==
    ASSUME Typed, Numbered, NEW k \in Clients, thread[k] # "none"
    PROVE  conn[k] \in Conns /\ conn[k] <= conns
  BY TcpBounds DEF Typed, Numbered, Conns

LEMMA InitTyped == Init => Typed /\ AppTyped /\ Numbered
<1> SUFFICES ASSUME Init PROVE Typed /\ AppTyped /\ Numbered
  OBVIOUS
<1>1. 0 \in 0 .. MaxConns
  BY TcpBounds
<1>2. Typed
  BY <1>1 DEF Init, TcpInit, Typed, Line
<1>3. AppTyped
  BY DEF Init, AppTyped
<1>4. Numbered
  BY DEF Init, TcpInit, Numbered, Conns
<1>5. QED
  BY <1>2, <1>3, <1>4

LEMMA StepTyped ==
    ASSUME Typed, Numbered, [Next]_vars PROVE Typed'
<1>1. CASE UNCHANGED ClientVars
  BY <1>1 DEF ClientVars, client, network, history, Typed
<1>2. CASE Frame
  BY <1>2 DEF Frame, Typed, network, IsConnected
<1>3. ASSUME NEW k \in Clients, Connect(k) PROVE Typed'
  <2>1. conns + 1 \in Conns /\ conns + 1 \in 0 .. MaxConns
    BY <1>3, TcpBounds DEF Connect, Open, Typed, Conns
  <2>2. QED
    BY <1>3, <2>1 DEF Connect, Open, Typed, Alive
<1>4. ASSUME NEW k \in Clients, Hello(k) PROVE Typed'
  BY <1>4 DEF Hello, client, history, Typed
<1>5. ASSUME NEW k \in Clients, Disconnect(k) PROVE Typed'
  BY <1>5 DEF Disconnect, Close, client, network, history, Typed
<1>6. ASSUME NEW k \in Clients, JoinThread(k) PROVE Typed'
  BY <1>6 DEF JoinThread, Join, Joined, network, history, Typed
<1>7. ASSUME NEW k \in Clients, RecvLines(k), UNCHANGED <<app, history>>
      PROVE  Typed'
  <2>1. conn[k] \in Conns
    BY <1>7, ReaderHasConn DEF RecvLines, At
  <2>2. received' \in [Conns -> Nat]
    BY <1>7, <2>1 DEF RecvLines, Typed
  <2>3. QED
    BY <1>7, <2>2 DEF RecvLines, Goto, app, history, Typed, Alive
<1>8. ASSUME NEW k \in Clients, RecvEnds(k) \/ LoopEnds(k), UNCHANGED <<app, history>>
      PROVE  Typed'
  BY <1>8 DEF RecvEnds, LoopEnds, EndNoticed, Goto, network, app, history, Typed
<1>9. ASSUME NEW k \in Clients, Push(k), UNCHANGED <<app, history>> PROVE Typed'
  <2>1. conn[k] \in Conns
    BY <1>9, ReaderHasConn DEF Push, At
  <2>2. pushed[conn[k]] \in Nat
    BY <2>1 DEF Typed
  <2>3. <<conn[k], NextLine(conn[k])>> \in Line
    BY <2>1, <2>2 DEF NextLine, Line
  <2>4. queue' \in [Clients -> Seq(Line)]
    BY <1>9, <2>3 DEF Push, Behind, Typed
  <2>5. pushed' \in [Conns -> Nat]
    BY <1>9, <2>1, <2>2 DEF Push, Typed
  <2>6. QED
    BY <1>9, <2>4, <2>5 DEF Push, Goto, app, history, Typed, Alive
<1>10. ASSUME NEW c \in Conns, ServerSends(c), UNCHANGED <<app, history>> PROVE Typed'
  <2>1. sent[c] + 1 \in Nat /\ sent' = [sent EXCEPT ![c] = sent[c] + 1]
    BY <1>10 DEF ServerSends, Typed
  <2>2. sent' \in [Conns -> Nat] /\ ackAt' \in [Conns -> Nat]
    BY <1>10, <2>1 DEF ServerSends, Typed
  <2>3. QED
    BY <1>10, <2>2 DEF ServerSends, client, app, history, Typed
<1>11. ASSUME NEW c, Ends(c), UNCHANGED <<app, history>> PROVE Typed'
  BY <1>11 DEF Ends, client, app, history, Typed
<1>12. QED
  BY <1>1, <1>2, <1>3, <1>4, <1>5, <1>6, <1>7, <1>8, <1>9, <1>10, <1>11, Steps DEF Reads

LEMMA StepAppTyped ==
    ASSUME AppTyped, [Next]_vars PROVE AppTyped'
<1> USE DEF AppTyped
<1>1. CASE Host \/ JoinGame \/ Quit \/ Frame
  BY <1>1 DEF Host, JoinGame, Quit, Frame
<1>2. CASE HostSession \/ JoinSession \/ GiveSessionUp \/ Leave
  BY <1>2 DEF HostSession, JoinSession, GiveSessionUp, Leave
<1>3. CASE StopServer \/ JoinServer \/ Destroy \/ TickerEnds
  BY <1>3 DEF StopServer, FlagRaised, JoinServer, Destroy, TickerEnds
<1>4. ASSUME NEW k \in Clients,
             ConnectFails(k) \/ Connect(k) \/ Hello(k) \/ HelloFails(k)
               \/ Disconnect(k) \/ JoinThread(k)
      PROVE  AppTyped'
  BY <1>4 DEF ConnectFails, Connect, Hello, HelloFails, Disconnect, JoinThread
<1>5. CASE (\E k \in Clients : Receiver(k)) \/ RemoteServer \/ UNCHANGED vars
  BY <1>5 DEF Receiver, RemoteServer, vars, app
<1>6. QED
  BY <1>1, <1>2, <1>3, <1>4, <1>5 DEF Next, AppCall, AppStep

-----------------------------------------------------------------------------
(* Connections and flags.                                                  *)

LEMMA StepNumbered ==
    ASSUME Typed, Numbered, FlagUp, [Next]_vars PROVE Numbered'
<1>1. CASE UNCHANGED ClientVars
  BY <1>1 DEF ClientVars, client, network, Numbered
<1>2. CASE Frame
  BY <1>2 DEF Frame, network, Numbered
<1>3. ASSUME NEW k \in Clients, Connect(k) PROVE Numbered'
  <2>1. /\ conns \in Nat /\ conns' = conns + 1 /\ conns + 1 \in Conns
        /\ conn' = [conn EXCEPT ![k] = conns + 1]
        /\ srv' = [srv EXCEPT ![conns + 1] = "open"]
        /\ pushed' = pushed
        /\ \A j \in Clients : j # k => thread'[j] = thread[j]
    BY <1>3, TcpBounds DEF Connect, Open, Typed, Conns
  <2>2. /\ conn'[k] = conns + 1
        /\ \A j \in Clients : j # k => conn'[j] = conn[j]
        /\ \A j \in Clients : conn[j] \in Nat /\ conn[j] <= conns
    BY <2>1 DEF Typed, Numbered
  <2>3. \A j \in Clients : conn'[j] <= conns'
    BY <2>1, <2>2
  <2>4. \A i, j \in Clients : i # j /\ conn'[i] # 0 => conn'[i] # conn'[j]
    BY <2>1, <2>2 DEF Numbered
  <2>5. \A j \in Clients : thread'[j] # "none" => conn'[j] # 0
    BY <2>1, <2>2 DEF Numbered
  <2>6. ASSUME NEW c \in Conns, c > conns' PROVE pushed'[c] = 0 /\ srv'[c] = "none"
    <3>1. c > conns /\ c # conns + 1
      BY <2>1, <2>6 DEF Conns
    <3>2. QED
      BY <2>1, <3>1 DEF Numbered, Typed
  <2>7. QED
    BY <2>3, <2>4, <2>5, <2>6 DEF Numbered
<1>4. ASSUME NEW k \in Clients, Hello(k) PROVE Numbered'
  BY <1>4 DEF Hello, client, Numbered
<1>5. ASSUME NEW k \in Clients, Disconnect(k) PROVE Numbered'
  <2>1. CASE UNCHANGED <<client, network>>
    BY <2>1 DEF client, network, Numbered
  <2>2. CASE connected[k] /\ Close(k)
    <3>1. conn[k] \in Conns /\ conn[k] <= conns
      BY <2>2, ReaderHasConn DEF FlagUp, Alive
    <3>2. \A c \in Conns : c > conns => srv'[c] = srv[c]
      BY <2>2, <3>1 DEF Close, Typed
    <3>3. UNCHANGED <<conn, conns, thread, pushed>>
      BY <2>2 DEF Close
    <3>4. QED
      BY <3>2, <3>3 DEF Numbered
  <2>3. QED
    BY <1>5, <2>1, <2>2 DEF Disconnect
<1>6. ASSUME NEW k \in Clients, JoinThread(k) PROVE Numbered'
  BY <1>6 DEF JoinThread, Join, Joined, network, Typed, Numbered
<1>7. ASSUME NEW k \in Clients, Reads(k) PROVE Numbered'
  <2>1. thread[k] = "recv" /\ UNCHANGED <<conn, conns, srv, pushed>>
    BY <1>7 DEF Reads, RecvLines, RecvEnds, LoopEnds, At, network
  <2>2. \A j \in Clients : j # k => thread'[j] = thread[j]
    BY <1>7 DEF Reads, RecvLines, RecvEnds, LoopEnds, EndNoticed, Goto, Typed
  <2>3. QED
    BY <2>1, <2>2 DEF Numbered
<1>8. ASSUME NEW k \in Clients, Push(k) PROVE Numbered'
  <2>1. /\ thread[k] = "push" /\ UNCHANGED <<conn, conns, srv>>
        /\ pushed' = [pushed EXCEPT ![conn[k]] = pushed[conn[k]] + 1]
    BY <1>8 DEF Push, At
  <2>2. \A j \in Clients : j # k => thread'[j] = thread[j]
    BY <1>8 DEF Push, Goto, Typed
  <2>3. conn[k] \in Conns /\ conn[k] <= conns
    BY <2>1, ReaderHasConn
  <2>4. \A c \in Conns : c > conns => pushed'[c] = pushed[c]
    <3>1. ASSUME NEW c \in Conns, c > conns PROVE pushed'[c] = pushed[c]
      <4>1. c # conn[k]
        BY <2>3, <3>1 DEF Conns, Typed
      <4>2. QED
        BY <2>1, <4>1 DEF Typed
    <3>2. QED
      BY <3>1
  <2>5. QED
    BY <2>1, <2>2, <2>4 DEF Numbered
<1>9. ASSUME NEW c \in Conns, ServerSends(c) PROVE Numbered'
  BY <1>9 DEF ServerSends, client, Numbered
<1>10. ASSUME NEW c, Ends(c) PROVE Numbered'
  <2>1. /\ UNCHANGED <<conn, conns, thread, pushed>>
        /\ \A d \in Conns : d # c => srv'[d] = srv[d]
        /\ srv[c] # "none"
    BY <1>10 DEF Ends, client, Typed
  <2>2. QED
    BY <2>1 DEF Numbered
<1>11. QED
  BY <1>1, <1>2, <1>3, <1>4, <1>5, <1>6, <1>7, <1>8, <1>9, <1>10, Steps

LEMMA StepFlagUp ==
    ASSUME Typed, FlagUp, [Next]_vars PROVE FlagUp'
<1>1. CASE UNCHANGED ClientVars
  BY <1>1 DEF ClientVars, client, FlagUp, IsConnected
<1>2. CASE Frame
  <2>1. UNCHANGED <<connected, open, thread>>
    BY <1>2 DEF Frame
  <2>2. \A k \in Clients : IsConnected(k) => IsConnected(k)'
    BY <1>2 DEF Frame, IsConnected
  <2>3. QED
    BY <2>1, <2>2 DEF FlagUp
<1>3. ASSUME NEW k \in Clients, Connect(k) PROVE FlagUp'
  BY <1>3 DEF Connect, Open, Typed, FlagUp, IsConnected, Alive
<1>4. ASSUME NEW k \in Clients, Hello(k) PROVE FlagUp'
  BY <1>4 DEF Hello, client, FlagUp, IsConnected
<1>5. ASSUME NEW k \in Clients, Disconnect(k) PROVE FlagUp'
  <2>1. CASE Close(k) /\ UNCHANGED state
    <3>1. /\ ~connected'[k] /\ UNCHANGED <<state, thread>>
          /\ \A j \in Clients : j # k => connected'[j] = connected[j] /\ open'[j] = open[j]
      BY <2>1 DEF Close, Typed
    <3>2. QED
      BY <3>1 DEF FlagUp, IsConnected
  <2>2. CASE /\ ~(state[k] # "disconnected" /\ connected[k])
             /\ state' = [state EXCEPT ![k] = "disconnected"]
             /\ UNCHANGED client
    <3>1. ~connected[k]
      BY <2>2 DEF FlagUp, IsConnected
    <3>2. /\ UNCHANGED <<connected, open, thread>>
          /\ \A j \in Clients : j # k => state'[j] = state[j]
      BY <2>2 DEF client, Typed
    <3>3. QED
      BY <3>1, <3>2 DEF FlagUp, IsConnected
  <2>3. QED
    BY <1>5, <2>1, <2>2 DEF Disconnect
<1>6. ASSUME NEW k \in Clients, JoinThread(k) PROVE FlagUp'
  <2>1. thread[k] = "done"
    BY <1>6 DEF JoinThread, Join
  <2>2. ~connected[k]
    BY <2>1 DEF FlagUp, Alive
  <2>3. /\ UNCHANGED <<connected, open>>
        /\ \A j \in Clients : j # k => thread'[j] = thread[j] /\ state'[j] = state[j]
    BY <1>6 DEF JoinThread, Join, Joined, Typed
  <2>4. QED
    BY <2>2, <2>3 DEF FlagUp, IsConnected
<1>7. ASSUME NEW k \in Clients, Reads(k), UNCHANGED <<app, history>> PROVE FlagUp'
  <2>1. UNCHANGED <<state, open>>
    BY <1>7 DEF Reads, RecvLines, RecvEnds, LoopEnds, app
  <2>2. /\ \A j \in Clients : j # k => thread'[j] = thread[j] /\ connected'[j] = connected[j]
        /\ connected'[k] => connected[k] /\ thread'[k] \in Alive
    BY <1>7 DEF Reads, RecvLines, RecvEnds, LoopEnds, EndNoticed, Goto, Typed, Alive
  <2>3. QED
    BY <2>1, <2>2 DEF FlagUp, IsConnected
<1>8. ASSUME NEW k \in Clients, Push(k), UNCHANGED <<app, history>> PROVE FlagUp'
  <2>1. UNCHANGED <<state, open, connected>>
    BY <1>8 DEF Push, app
  <2>2. /\ \A j \in Clients : j # k => thread'[j] = thread[j]
        /\ thread'[k] \in Alive
    BY <1>8 DEF Push, Goto, Typed, Alive
  <2>3. QED
    BY <2>1, <2>2 DEF FlagUp, IsConnected
<1>9. ASSUME NEW c, ServerSends(c) \/ Ends(c), UNCHANGED <<app, history>> PROVE FlagUp'
  <2>1. UNCHANGED <<state, open, connected, thread>>
    BY <1>9 DEF ServerSends, Ends, client, app
  <2>2. QED
    BY <2>1 DEF FlagUp, IsConnected
<1>10. QED
  BY <1>1, <1>2, <1>3, <1>4, <1>5, <1>6, <1>7, <1>8, <1>9, Steps

-----------------------------------------------------------------------------
(* The lines.                                                              *)

LEMMA ConcatAppend ==
    ASSUME NEW S, NEW s \in Seq(S), NEW t \in Seq(S), NEW e \in S
    PROVE  s \o Append(t, e) = Append(s \o t, e)
<1> DEFINE a == Append(t, e)
           b == s \o t
           c == Append(b, e)
<1>1. /\ a \in Seq(S) /\ Len(a) = Len(t) + 1 /\ a[Len(t) + 1] = e
      /\ \A i \in 1 .. Len(t) : a[i] = t[i]
      /\ Len(s) \in Nat /\ Len(t) \in Nat
  OBVIOUS
<1>2. /\ b \in Seq(S) /\ Len(b) = Len(s) + Len(t)
      /\ \A i \in 1 .. Len(s) + Len(t) :
            b[i] = IF i <= Len(s) THEN s[i] ELSE t[i - Len(s)]
  BY ConcatProperties
<1>3. /\ c \in Seq(S) /\ Len(c) = Len(b) + 1 /\ c[Len(b) + 1] = e
      /\ \A i \in 1 .. Len(b) : c[i] = b[i]
  BY <1>2
<1> HIDE DEF a, b, c
<1>4. /\ s \o a \in Seq(S) /\ Len(s \o a) = Len(s) + Len(a)
      /\ \A i \in 1 .. Len(s) + Len(a) :
            (s \o a)[i] = IF i <= Len(s) THEN s[i] ELSE a[i - Len(s)]
  BY <1>1, ConcatProperties, Zenon
<1>5. ASSUME NEW i \in 1 .. Len(c) PROVE (s \o a)[i] = c[i]
  <2>0. i \in 1 .. Len(s) + Len(a) /\ Len(c) = Len(s) + Len(t) + 1
    BY <1>1, <1>2, <1>3
  <2>1. CASE i <= Len(s)
    <3>1. i \in 1 .. Len(b) /\ i \in 1 .. Len(s) + Len(t)
      BY <1>1, <1>2, <2>0, <2>1
    <3>2. c[i] = b[i] /\ b[i] = s[i]
      BY <1>2, <1>3, <2>1, <3>1
    <3>3. QED
      BY <1>4, <2>0, <2>1, <3>2
  <2>2. CASE i > Len(s) /\ i <= Len(s) + Len(t)
    <3>1. i \in 1 .. Len(b) /\ i \in 1 .. Len(s) + Len(t) /\ i - Len(s) \in 1 .. Len(t)
          /\ ~ (i <= Len(s))
      BY <1>1, <1>2, <2>0, <2>2
    <3>2. c[i] = b[i] /\ b[i] = t[i - Len(s)]
      BY <1>2, <1>3, <3>1
    <3>3. (s \o a)[i] = a[i - Len(s)]
      BY <1>4, <2>0, <3>1
    <3>4. QED
      BY <1>1, <3>1, <3>2, <3>3
  <2>3. CASE i = Len(s) + Len(t) + 1
    <3>1. i = Len(b) + 1 /\ i - Len(s) = Len(t) + 1 /\ ~ (i <= Len(s))
      BY <1>1, <1>2, <2>3
    <3>2. (s \o a)[i] = a[i - Len(s)]
      BY <1>4, <2>0, <3>1
    <3>3. QED
      BY <1>1, <1>3, <3>1, <3>2
  <2>4. QED
    BY <1>1, <2>0, <2>1, <2>2, <2>3
<1>6. s \o a \in Seq(S) /\ c \in Seq(S) /\ Len(s \o a) = Len(c)
  BY <1>1, <1>2, <1>3, <1>4
<1>7. s \o a = c
  BY <1>5, <1>6, SeqEqual
<1>8. QED
  BY <1>7 DEF a, b, c

\* A line numbered after those of its connection, which is the last to have
\* lines, keeps the order.
LEMMA Extended ==
    ASSUME NEW s \in Seq(Line), NEW c \in Conns, NEW n \in Nat, InOrder(s),
           \A i \in DOMAIN s : s[i][1] <= c,
           Cardinality(Of(s, c)) = n
    PROVE  LET t == Append(s, <<c, n + 1>>)
           IN  /\ InOrder(t)
               /\ \A i \in DOMAIN t : t[i][1] <= c
               /\ Cardinality(Of(t, c)) = n + 1
<1> DEFINE e == <<c, n + 1>>
           t == Append(s, e)
           N == Len(s) + 1
<1>1. /\ Len(s) \in Nat /\ DOMAIN s = 1 .. Len(s)
      /\ DOMAIN t = 1 .. N /\ t[N] = e
      /\ \A i \in 1 .. Len(s) : t[i] = s[i]
  <2>1. e \in Line
    BY DEF Line
  <2> HIDE DEF e
  <2>2. QED
    BY <2>1
<1>2. e[1] = c /\ e[2] = n + 1 /\ c \in Nat
  BY DEF Conns
<1>3. \A i \in 1 .. Len(s) : s[i][1] \in Nat
  BY <1>1 DEF Line, Conns
<1> HIDE DEF e, t
<1>4. Of(s, c) = {j \in 1 .. N - 1 : t[j][1] = c}
  BY <1>1 DEF Of
<1>5. IsFiniteSet(Of(s, c)) /\ N \notin Of(s, c)
  <2>1. IsFiniteSet(1 .. Len(s)) /\ Of(s, c) \subseteq 1 .. Len(s)
    BY <1>1, FS_Interval DEF Of
  <2>2. N \notin 1 .. Len(s)
    BY <1>1
  <2>3. QED
    BY <2>1, <2>2, FS_Subset
<1>6. Of(t, c) = Of(s, c) \cup {N}
  <2>1. 1 .. N = (1 .. Len(s)) \cup {N}
    BY <1>1
  <2>2. QED
    BY <1>1, <1>2, <2>1 DEF Of
<1>7. Cardinality(Of(t, c)) = n + 1
  BY <1>5, <1>6, FS_AddElement
<1>8. \A i \in DOMAIN t : t[i][1] <= c
  <2>1. \A i \in 1 .. Len(s) : t[i][1] <= c
    BY <1>1
  <2>2. t[N][1] <= c
    BY <1>1, <1>2
  <2>3. QED
    BY <1>1, <2>1, <2>2
<1>9. ASSUME NEW i \in DOMAIN t
      PROVE  /\ t[i][2] = Cardinality({j \in 1 .. i - 1 : t[j][1] = t[i][1]}) + 1
             /\ i > 1 => t[i - 1][1] <= t[i][1]
  <2>1. CASE i = N
    <3>1. t[i] = e /\ t[i][1] = c /\ t[i][2] = n + 1
      BY <1>1, <1>2, <2>1
    <3>2. {j \in 1 .. i - 1 : t[j][1] = t[i][1]} = Of(s, c)
      BY <1>4, <2>1, <3>1
    <3>3. i > 1 => t[i - 1][1] <= c
      BY <1>1, <1>8, <2>1
    <3>4. QED
      BY <3>1, <3>2, <3>3
  <2>2. CASE i \in 1 .. Len(s)
    <3>1. t[i] = s[i] /\ \A j \in 1 .. i - 1 : t[j] = s[j]
      BY <1>1, <2>2
    <3>2. {j \in 1 .. i - 1 : t[j][1] = t[i][1]} = {j \in 1 .. i - 1 : s[j][1] = s[i][1]}
      BY <3>1
    <3>3. /\ s[i][2] = Cardinality({j \in 1 .. i - 1 : s[j][1] = s[i][1]}) + 1
          /\ i > 1 => s[i - 1][1] <= s[i][1]
      BY <1>1, <2>2 DEF InOrder
    <3>4. i > 1 => i - 1 \in 1 .. i - 1
      BY <2>2
    <3>5. QED
      BY <3>1, <3>2, <3>3, <3>4
  <2>3. QED
    BY <1>1, <2>1, <2>2
<1>10. InOrder(t)
  BY <1>9 DEF InOrder
<1>11. QED
  BY <1>7, <1>8, <1>10 DEF t, e

LEMMA HadTyped ==
    ASSUME Typed, NEW k \in Clients
    PROVE  Had(k) \in Seq(Line) /\ DOMAIN Had(k) = 1 .. Len(Had(k)) /\ Len(Had(k)) \in Nat
<1>1. delivered[k] \in Seq(Line) /\ queue[k] \in Seq(Line)
  BY DEF Typed
<1>2. Had(k) \in Seq(Line)
  BY <1>1, ConcatProperties DEF Had
<1>3. QED
  BY <1>2

\* What is kept when a client's lines and its connection are.
LEMMA HadKept ==
    ASSUME Continued, NEW k \in Clients,
           Had(k)' = Had(k), conn'[k] = conn[k],
           conn[k] # 0 => pushed'[conn[k]] = pushed[conn[k]]
    PROVE  /\ InOrder(Had(k)')
           /\ \A i \in DOMAIN Had(k)' : Had(k)'[i][1] <= conn'[k]
           /\ conn'[k] # 0 => Cardinality(Of(Had(k)', conn'[k])) = pushed'[conn'[k]]
  BY DEF Continued

LEMMA StepContinued ==
    ASSUME Typed, Numbered, Continued, [Next]_vars PROVE Continued'
<1>0. SUFFICES ASSUME NEW j \in Clients
               PROVE  /\ InOrder(Had(j)')
                      /\ \A i \in DOMAIN Had(j)' : Had(j)'[i][1] <= conn'[j]
                      /\ conn'[j] # 0 => Cardinality(Of(Had(j)', conn'[j])) = pushed'[conn'[j]]
  BY DEF Continued, InOrder, Had, Of
<1> DEFINE Goal == /\ InOrder(Had(j)')
                   /\ \A i \in DOMAIN Had(j)' : Had(j)'[i][1] <= conn'[j]
                   /\ conn'[j] # 0 => Cardinality(Of(Had(j)', conn'[j])) = pushed'[conn'[j]]
<1>1. CASE UNCHANGED <<queue, delivered, conn, pushed>>
  BY <1>1, HadKept DEF Had
<1>2. CASE Frame
  <2>1. UNCHANGED <<conn, pushed>>
    BY <1>2 DEF Frame, network
  <2>2. CASE j \in Updated
    <3>1. delivered'[j] = delivered[j] \o queue[j] /\ queue'[j] = <<>>
      BY <1>2, <2>2 DEF Frame
    <3>2. Had(j) \o <<>> = Had(j)
      BY HadTyped, ConcatEmptySeq
    <3>3. Had(j)' = Had(j)
      BY <3>1, <3>2 DEF Had
    <3>4. QED
      BY <2>1, <3>3, HadKept
  <2>3. CASE j \notin Updated
    BY <1>2, <2>1, <2>3, HadKept DEF Frame, Had
  <2>4. QED
    BY <2>2, <2>3
<1>3. ASSUME NEW k \in Clients, Connect(k) PROVE Goal
  <2>1. /\ conn' = [conn EXCEPT ![k] = conns + 1] /\ conns \in Nat /\ conns + 1 \in Conns
        /\ Had(j)' = Had(j) /\ pushed' = pushed
    BY <1>3, TcpBounds DEF Connect, Open, Had, Typed, Conns
  <2>2. CASE j # k
    BY <2>1, <2>2, HadKept DEF Typed
  <2>3. CASE j = k
    <3>1. conn'[j] = conns + 1 /\ conn[j] \in Nat /\ conn[j] <= conns
      BY <2>1, <2>3 DEF Typed, Numbered
    <3>2. \A i \in DOMAIN Had(j) : Had(j)[i][1] \in Nat /\ Had(j)[i][1] <= conn[j]
      <4>1. \A i \in DOMAIN Had(j) : Had(j)[i] \in Line
        BY HadTyped
      <4>2. QED
        BY <4>1 DEF Continued, Line, Conns
    <3>3. \A i \in DOMAIN Had(j) : Had(j)[i][1] <= conns + 1 /\ Had(j)[i][1] # conns + 1
      BY <2>1, <3>1, <3>2
    <3>4. Of(Had(j), conns + 1) = {}
      BY <3>3 DEF Of
    <3>5. Cardinality(Of(Had(j), conns + 1)) = 0
      BY <3>4, FS_EmptySet
    <3>6. pushed[conns + 1] = 0
      BY <2>1 DEF Numbered
    <3>7. QED
      BY <2>1, <3>1, <3>3, <3>5, <3>6 DEF Continued
  <2>4. QED
    BY <2>2, <2>3
<1>4. ASSUME NEW k \in Clients, Push(k), UNCHANGED <<app, history>> PROVE Goal
  <2> DEFINE c == conn[k]
  <2>1. /\ thread[k] # "none" /\ UNCHANGED <<conn, delivered>>
        /\ queue' = [queue EXCEPT ![k] = Append(queue[k], <<c, pushed[c] + 1>>)]
        /\ pushed' = [pushed EXCEPT ![c] = pushed[c] + 1]
    BY <1>4 DEF Push, At, Behind, NextLine, history
  <2>2. c \in Conns /\ c # 0
    BY <2>1, ReaderHasConn DEF Conns
  <2>3. pushed[c] \in Nat
    BY <2>2 DEF Typed
  <2>4. CASE j # k
    <3>1. conn[j] # 0 => conn[j] # c
      BY <2>4 DEF Numbered
    <3>2. Had(j)' = Had(j)
      BY <2>1, <2>4 DEF Had, Typed
    <3>3. conn[j] # 0 => pushed'[conn[j]] = pushed[conn[j]]
      <4>1. conn[j] # 0 => conn[j] \in Conns
        BY TcpBounds DEF Typed, Conns
      <4>2. QED
        BY <2>1, <3>1, <4>1 DEF Typed
    <3>4. conn'[j] = conn[j]
      BY <2>1
    <3>5. QED
      BY <3>2, <3>3, <3>4, HadKept
  <2>5. CASE j = k
    <3> DEFINE s == Had(k)
               n == pushed[c]
    <3>1. /\ InOrder(s) /\ \A i \in DOMAIN s : s[i][1] <= c
          /\ Cardinality(Of(s, c)) = n
      BY <2>2 DEF Continued
    <3>2. s \in Seq(Line)
      BY HadTyped
    <3>3. Had(k)' = Append(s, <<c, n + 1>>)
      <4>1. delivered[k] \in Seq(Line) /\ queue[k] \in Seq(Line) /\ <<c, n + 1>> \in Line
        BY <2>2, <2>3 DEF Typed, Line
      <4>2. delivered'[k] = delivered[k] /\ queue'[k] = Append(queue[k], <<c, n + 1>>)
        BY <2>1 DEF Typed
      <4>3. delivered[k] \o Append(queue[k], <<c, n + 1>>)
              = Append(delivered[k] \o queue[k], <<c, n + 1>>)
        <5>1. \A d, q \in Seq(Line) : \A e \in Line : d \o Append(q, e) = Append(d \o q, e)
          BY ConcatAppend
        <5>2. QED
          BY <4>1, <5>1, Zenon
      <4>4. QED
        BY <4>2, <4>3 DEF Had
    <3>4. conn'[k] = c /\ pushed'[c] = n + 1
      BY <2>1, <2>2 DEF Typed
    <3> HIDE DEF s, n, c
    <3>5. /\ InOrder(Append(s, <<c, n + 1>>))
          /\ \A i \in DOMAIN Append(s, <<c, n + 1>>) : Append(s, <<c, n + 1>>)[i][1] <= c
          /\ Cardinality(Of(Append(s, <<c, n + 1>>), c)) = n + 1
      BY <2>2, <2>3, <3>1, <3>2, Extended DEF n
    <3>6. QED
      BY <2>5, <3>3, <3>4, <3>5
  <2>6. QED
    BY <2>4, <2>5
<1>5. \/ UNCHANGED <<queue, delivered, conn, pushed>>
      \/ Frame
      \/ \E k \in Clients : Connect(k)
      \/ \E k \in Clients : Push(k) /\ UNCHANGED <<app, history>>
  <2>1. UNCHANGED ClientVars => UNCHANGED <<queue, delivered, conn, pushed>>
    BY DEF ClientVars, client, network, history
  <2>2. \A k \in Clients : Hello(k) => UNCHANGED <<queue, delivered, conn, pushed>>
    BY DEF Hello, client, history
  <2>3. \A k \in Clients : Disconnect(k) => UNCHANGED <<queue, delivered, conn, pushed>>
    BY DEF Disconnect, Close, client, network, history
  <2>4. \A k \in Clients : JoinThread(k) => UNCHANGED <<queue, delivered, conn, pushed>>
    BY DEF JoinThread, Join, network, history
  <2>5. \A k \in Clients : Reads(k) /\ UNCHANGED <<app, history>>
                              => UNCHANGED <<queue, delivered, conn, pushed>>
    BY DEF Reads, RecvLines, RecvEnds, LoopEnds, network, history
  <2>6. \A c : (ServerSends(c) \/ Ends(c)) /\ UNCHANGED <<app, history>>
                              => UNCHANGED <<queue, delivered, conn, pushed>>
    BY DEF ServerSends, Ends, client, history
  <2>7. QED
    BY <2>1, <2>2, <2>3, <2>4, <2>5, <2>6, Steps
<1>6. QED
  BY <1>1, <1>2, <1>3, <1>4, <1>5

LEMMA StepOwnLines ==
    ASSUME Typed, OwnLines, [Next]_vars PROVE OwnLines'
<1>1. CASE UNCHANGED <<queue, conn, stale>>
  BY <1>1 DEF OwnLines
<1>2. CASE Frame
  <2>1. UNCHANGED <<conn, stale>>
    BY <1>2 DEF Frame
  <2>2. \A k \in Clients : queue'[k] = <<>> \/ queue'[k] = queue[k]
    BY <1>2 DEF Frame
  <2>3. DOMAIN <<>> = {}
    OBVIOUS
  <2>4. QED
    BY <2>1, <2>2, <2>3 DEF OwnLines
<1>3. ASSUME NEW k \in Clients, Connect(k) PROVE OwnLines'
  <2>1. /\ queue' = queue
        /\ \A j \in Clients : j # k => conn'[j] = conn[j]
        /\ stale' = IF queue[k] # <<>> THEN stale \cup {k} ELSE stale \ {k}
    BY <1>3 DEF Connect, Open, Typed
  <2>2. k \notin stale' => DOMAIN queue[k] = {}
    BY <2>1
  <2>3. QED
    BY <2>1, <2>2 DEF OwnLines
<1>4. ASSUME NEW k \in Clients, Push(k), UNCHANGED <<app, history>> PROVE OwnLines'
  <2>1. /\ conn' = conn /\ stale' = stale
        /\ queue' = [queue EXCEPT ![k] = Append(queue[k], <<conn[k], pushed[conn[k]] + 1>>)]
    BY <1>4 DEF Push, Behind, NextLine, history
  <2>2. \A j \in Clients : j # k => queue'[j] = queue[j]
    BY <2>1 DEF Typed
  <2>3. queue'[k] = Append(queue[k], <<conn[k], pushed[conn[k]] + 1>>)
        /\ queue[k] \in Seq(Line)
    BY <2>1 DEF Typed
  <2>4. ASSUME k \notin stale, NEW i \in DOMAIN queue'[k]
        PROVE  queue'[k][i][1] = conn[k]
    <3> DEFINE e == <<conn[k], pushed[conn[k]] + 1>>
    <3>1. e[1] = conn[k]
      OBVIOUS
    <3> HIDE DEF e
    <3>2. /\ Len(queue[k]) \in Nat /\ DOMAIN queue[k] = 1 .. Len(queue[k])
          /\ i \in 1 .. Len(queue[k]) + 1
          /\ i \in 1 .. Len(queue[k]) => queue'[k][i] = queue[k][i]
          /\ i = Len(queue[k]) + 1 => queue'[k][i] = e
      BY <2>3, <2>4 DEF e
    <3>3. CASE i \in 1 .. Len(queue[k])
      BY <2>4, <3>2, <3>3 DEF OwnLines
    <3>4. CASE i = Len(queue[k]) + 1
      BY <3>1, <3>2, <3>4
    <3>5. QED
      BY <3>2, <3>3, <3>4
  <2>5. QED
    BY <2>1, <2>2, <2>4 DEF OwnLines
<1>5. \/ UNCHANGED <<queue, conn, stale>>
      \/ Frame
      \/ \E k \in Clients : Connect(k)
      \/ \E k \in Clients : Push(k) /\ UNCHANGED <<app, history>>
  <2>1. UNCHANGED ClientVars => UNCHANGED <<queue, conn, stale>>
    BY DEF ClientVars, client, history
  <2>2. \A k \in Clients : Hello(k) => UNCHANGED <<queue, conn, stale>>
    BY DEF Hello, client, history
  <2>3. \A k \in Clients : Disconnect(k) => UNCHANGED <<queue, conn, stale>>
    BY DEF Disconnect, Close, client, history
  <2>4. \A k \in Clients : JoinThread(k) => UNCHANGED <<queue, conn, stale>>
    BY DEF JoinThread, Join, history
  <2>5. \A k \in Clients : Reads(k) /\ UNCHANGED <<app, history>>
                              => UNCHANGED <<queue, conn, stale>>
    BY DEF Reads, RecvLines, RecvEnds, LoopEnds, history
  <2>6. \A c : (ServerSends(c) \/ Ends(c)) /\ UNCHANGED <<app, history>>
                              => UNCHANGED <<queue, conn, stale>>
    BY DEF ServerSends, Ends, client, history
  <2>7. QED
    BY <2>1, <2>2, <2>3, <2>4, <2>5, <2>6, Steps
<1>6. QED
  BY <1>1, <1>2, <1>3, <1>4, <1>5

\* The line that authenticates client k.
AckGiven(k) ==
    \E i \in DOMAIN delivered[k] :
        delivered[k][i][1] = conn[k] /\ delivered[k][i][2] = ackAt[conn[k]]

\* Both parts of a concatenation are found in it.
LEMMA Concatenated ==
    ASSUME NEW S, NEW d \in Seq(S), NEW q \in Seq(S)
    PROVE  /\ \A i \in DOMAIN d : i \in DOMAIN (d \o q) /\ (d \o q)[i] = d[i]
           /\ \A i \in DOMAIN q : \E h \in DOMAIN (d \o q) : (d \o q)[h] = q[i]
<1>1. /\ d \o q \in Seq(S) /\ Len(d \o q) = Len(d) + Len(q)
      /\ \A h \in 1 .. Len(d) + Len(q) :
            (d \o q)[h] = IF h <= Len(d) THEN d[h] ELSE q[h - Len(d)]
  BY ConcatProperties
<1>2. /\ Len(d) \in Nat /\ Len(q) \in Nat
      /\ DOMAIN d = 1 .. Len(d) /\ DOMAIN q = 1 .. Len(q)
      /\ DOMAIN (d \o q) = 1 .. Len(d) + Len(q)
  BY <1>1
<1>3. ASSUME NEW i \in DOMAIN d PROVE i \in DOMAIN (d \o q) /\ (d \o q)[i] = d[i]
  <2>1. i \in 1 .. Len(d) + Len(q) /\ i <= Len(d)
    BY <1>2
  <2>2. QED
    BY <1>1, <1>2, <2>1
<1>4. ASSUME NEW i \in DOMAIN q PROVE \E h \in DOMAIN (d \o q) : (d \o q)[h] = q[i]
  <2> DEFINE h == Len(d) + i
  <2>1. h \in 1 .. Len(d) + Len(q) /\ ~ (h <= Len(d)) /\ h - Len(d) = i
    BY <1>2
  <2>2. (d \o q)[h] = q[h - Len(d)]
    BY <1>1, <2>1
  <2>3. QED
    BY <1>2, <2>1, <2>2
<1>5. QED
  BY <1>3, <1>4

\* It stays in what was delivered, and connect_ack keeps its number.
LEMMA AckKept ==
    ASSUME Typed, NEW k \in Clients, AckGiven(k),
           conn'[k] = conn[k],
           \/ delivered'[k] = delivered[k]
           \/ delivered'[k] = delivered[k] \o queue[k],
           \A c \in Conns : ackAt[c] # 0 => ackAt'[c] = ackAt[c]
    PROVE  AckGiven(k)'
<1>1. PICK i \in DOMAIN delivered[k] :
        delivered[k][i][1] = conn[k] /\ delivered[k][i][2] = ackAt[conn[k]]
  BY DEF AckGiven
<1>2. delivered[k] \in Seq(Line) /\ queue[k] \in Seq(Line)
  BY DEF Typed
<1>3. delivered[k][i] \in Line
  BY <1>2
<1>4. conn[k] \in Conns /\ ackAt[conn[k]] # 0
  BY <1>1, <1>3 DEF Line
<1>5. ackAt'[conn[k]] = ackAt[conn[k]]
  BY <1>4
<1>6. i \in DOMAIN delivered'[k] /\ delivered'[k][i] = delivered[k][i]
  <2>1. \A j \in DOMAIN delivered[k] : /\ j \in DOMAIN (delivered[k] \o queue[k])
                                       /\ (delivered[k] \o queue[k])[j] = delivered[k][j]
    BY <1>2, Concatenated
  <2>2. QED
    BY <1>2, <2>1
<1>7. QED
  BY <1>1, <1>5, <1>6 DEF AckGiven

LEMMA StepFreshAuth ==
    ASSUME Typed, OwnLines, FreshAuth, [Next]_vars PROVE FreshAuth'
<1>0. SUFFICES ASSUME NEW j \in Clients, state'[j] = "authenticated", j \notin stale'
               PROVE  AckGiven(j)'
  BY DEF FreshAuth, AckGiven
<1>a. state[j] = "authenticated" /\ j \notin stale => AckGiven(j)
  BY DEF FreshAuth, AckGiven
<1>1. CASE /\ state'[j] = state[j] \/ state'[j] = "disconnected"
           /\ UNCHANGED <<delivered, conn, stale>>
           /\ \A c \in Conns : ackAt[c] # 0 => ackAt'[c] = ackAt[c]
  <2>1. AckGiven(j)
    BY <1>0, <1>1, <1>a
  <2>2. QED
    BY <1>1, <2>1, AckKept
<1>2. CASE Frame
  <2>1. UNCHANGED <<conn, stale, ackAt>>
    BY <1>2 DEF Frame, network
  <2>2. delivered'[j] = delivered[j] \/ delivered'[j] = delivered[j] \o queue[j]
    BY <1>2 DEF Frame
  <2>3. CASE state[j] = "authenticated"
    BY <1>0, <1>a, <2>1, <2>2, <2>3, AckKept
  <2>4. CASE state[j] # "authenticated"
    <3>1. j \in Updated /\ Acknowledged(queue[j]) /\ delivered'[j] = delivered[j] \o queue[j]
      BY <1>0, <1>2, <2>4 DEF Frame
    <3>2. PICK i \in DOMAIN queue[j] : queue[j][i][2] = ackAt[queue[j][i][1]]
      BY <3>1 DEF Acknowledged
    <3>3. queue[j][i][1] = conn[j]
      BY <1>0, <2>1 DEF OwnLines
    <3>4. /\ delivered[j] \in Seq(Line) /\ queue[j] \in Seq(Line)
      BY DEF Typed
    <3>5. \A n \in DOMAIN queue[j] :
             \E h \in DOMAIN (delivered[j] \o queue[j]) :
                 (delivered[j] \o queue[j])[h] = queue[j][n]
      <4>1. \A d, q \in Seq(Line) : \A n \in DOMAIN q :
               \E h \in DOMAIN (d \o q) : (d \o q)[h] = q[n]
        BY Concatenated
      <4>2. QED
        BY <3>4, <4>1, Zenon
    <3>6. PICK h \in DOMAIN delivered'[j] : delivered'[j][h] = queue[j][i]
      BY <3>1, <3>5
    <3>7. QED
      BY <2>1, <3>2, <3>3, <3>6 DEF AckGiven
  <2>5. QED
    BY <2>3, <2>4
<1>3. ASSUME NEW k \in Clients, Connect(k) PROVE AckGiven(j)'
  <2>1. /\ state' = [state EXCEPT ![k] = "connected"]
        /\ conn' = [conn EXCEPT ![k] = conns + 1]
        /\ UNCHANGED <<delivered, ackAt>>
        /\ \A i \in Clients : i # k => (i \in stale' <=> i \in stale)
    BY <1>3 DEF Connect, Open
  <2>2. j # k
    BY <1>0, <2>1 DEF Typed
  <2>3. state[j] = "authenticated" /\ j \notin stale /\ conn'[j] = conn[j]
    BY <1>0, <2>1, <2>2 DEF Typed
  <2>4. QED
    BY <1>a, <2>1, <2>3, AckKept
<1>4. \/ /\ state'[j] = state[j] \/ state'[j] = "disconnected"
         /\ UNCHANGED <<delivered, conn, stale>>
         /\ \A c \in Conns : ackAt[c] # 0 => ackAt'[c] = ackAt[c]
      \/ Frame
      \/ \E k \in Clients : Connect(k)
  <2> DEFINE Quiet == /\ state'[j] = state[j] \/ state'[j] = "disconnected"
                      /\ UNCHANGED <<delivered, conn, stale>>
                      /\ \A c \in Conns : ackAt[c] # 0 => ackAt'[c] = ackAt[c]
  <2>1. UNCHANGED ClientVars => Quiet
    BY DEF ClientVars, client, network, history
  <2>2. \A k \in Clients : Hello(k) => Quiet
    BY DEF Hello, client, history
  <2>3. \A k \in Clients : Disconnect(k) => Quiet
    BY DEF Disconnect, Close, client, network, history, Typed
  <2>4. \A k \in Clients : JoinThread(k) => Quiet
    BY DEF JoinThread, Join, network, history, Typed
  <2>5. \A k \in Clients : Reads(k) /\ UNCHANGED <<app, history>> => Quiet
    BY DEF Reads, RecvLines, RecvEnds, LoopEnds, network, history, app
  <2>6. \A k \in Clients : Push(k) /\ UNCHANGED <<app, history>> => Quiet
    BY DEF Push, history, app
  <2>7. \A c \in Conns : ServerSends(c) /\ UNCHANGED <<app, history>> => Quiet
    BY DEF ServerSends, client, history, app, Typed
  <2>8. \A c : Ends(c) /\ UNCHANGED <<app, history>> => Quiet
    BY DEF Ends, client, history, app
  <2>9. QED
    BY <2>1, <2>2, <2>3, <2>4, <2>5, <2>6, <2>7, <2>8, Steps
<1>5. QED
  BY <1>1, <1>2, <1>3, <1>4

-----------------------------------------------------------------------------
(* The steps of the calls.                                                 *)

\* Putting an operation before those that are left.
LEMMA Consed ==
    ASSUME NEW S, NEW e \in S, NEW t \in Seq(S), NEW u \in Seq(S),
           Len(u) = Len(t) + 1, u[1] = e,
           \A i \in 1 .. Len(t) : u[i + 1] = t[i]
    PROVE  <<e>> \o t = u
<1> DEFINE s == <<e>>
<1>1. s \in Seq(S) /\ Len(s) = 1 /\ s[1] = e
  OBVIOUS
<1> HIDE DEF s
<1>2. /\ s \o t \in Seq(S) /\ Len(s \o t) = Len(s) + Len(t)
      /\ \A i \in 1 .. Len(s) + Len(t) :
            (s \o t)[i] = IF i <= Len(s) THEN s[i] ELSE t[i - Len(s)]
  BY <1>1, ConcatProperties
<1>3. ASSUME NEW i \in 1 .. Len(u) PROVE (s \o t)[i] = u[i]
  <2>1. CASE i = 1
    BY <1>1, <1>2, <2>1
  <2>2. CASE i # 1
    <3>1. i \in 1 .. Len(s) + Len(t) /\ ~ (i <= Len(s)) /\ i - 1 \in 1 .. Len(t) /\ (i - 1) + 1 = i
      BY <1>1, <2>2
    <3>2. (s \o t)[i] = t[i - 1] /\ u[(i - 1) + 1] = t[i - 1]
      BY <1>1, <1>2, <3>1
    <3>3. QED
      BY <3>1, <3>2
  <2>3. QED
    BY <2>1, <2>2
<1>4. Len(s \o t) = Len(u)
  BY <1>1, <1>2
<1>5. s \o t = u
  BY <1>2, <1>3, <1>4, SeqEqual
<1>6. QED
  BY <1>5 DEF s

LEMMA ConsOne ==
    ASSUME NEW e, NEW a PROVE <<e>> \o <<a>> = <<e, a>>
<1> DEFINE S == {e, a}
           t == <<a>>
           u == <<e, a>>
<1>1. e \in S /\ t \in Seq(S) /\ u \in Seq(S) /\ Len(u) = Len(t) + 1 /\ u[1] = e
  OBVIOUS
<1>2. \A i \in 1 .. Len(t) : u[i + 1] = t[i]
  OBVIOUS
<1> HIDE DEF S, t, u
<1>3. <<e>> \o t = u
  BY <1>1, <1>2, Consed
<1>4. QED
  BY <1>3 DEF t, u

LEMMA ConsTwo ==
    ASSUME NEW e, NEW a, NEW b PROVE <<e>> \o <<a, b>> = <<e, a, b>>
<1> DEFINE S == {e, a, b}
           t == <<a, b>>
           u == <<e, a, b>>
<1>1. e \in S /\ t \in Seq(S) /\ u \in Seq(S) /\ Len(u) = Len(t) + 1 /\ u[1] = e
  OBVIOUS
<1>2. \A i \in 1 .. Len(t) : u[i + 1] = t[i]
  OBVIOUS
<1> HIDE DEF S, t, u
<1>3. <<e>> \o t = u
  BY <1>1, <1>2, Consed
<1>4. QED
  BY <1>3 DEF t, u

LEMMA ConsThree ==
    ASSUME NEW e, NEW a, NEW b, NEW c PROVE <<e>> \o <<a, b, c>> = <<e, a, b, c>>
<1> DEFINE S == {e, a, b, c}
           t == <<a, b, c>>
           u == <<e, a, b, c>>
<1>1. e \in S /\ t \in Seq(S) /\ u \in Seq(S) /\ Len(u) = Len(t) + 1 /\ u[1] = e
  OBVIOUS
<1>2. \A i \in 1 .. Len(t) : u[i + 1] = t[i]
  OBVIOUS
<1> HIDE DEF S, t, u
<1>3. <<e>> \o t = u
  BY <1>1, <1>2, Consed
<1>4. QED
  BY <1>3 DEF t, u

LEMMA OpFields ==
    ASSUME NEW name, NEW k, NEW undo
    PROVE  /\ Op(name, k).name = name /\ Op(name, k).of = k /\ Op(name, k).undo = <<>>
           /\ Try(name, k, undo).name = name /\ Try(name, k, undo).of = k
           /\ Try(name, k, undo).undo = undo
           /\ Try(name, k, <<>>) = Op(name, k)
  BY DEF Op, Try

IsAt(ops, name, k) == ops # <<>> /\ Head(ops).name = name /\ Head(ops).of = k

\* The operation that each of them begins with.
LEMMA Heads ==
    /\ IsAt(Hosting, "hostSession", Session)
    /\ IsAt(HostConnect, "connect", Game)
    /\ IsAt(HostHello, "hello", Game)
    /\ IsAt(HostDrop, "disconnect", Game)
    /\ IsAt(HostWait, "join", Game)
    /\ IsAt(HostUndo, "leave", Session)
    /\ IsAt(Stopping, "stopServer", Session)
    /\ IsAt(StopWait, "joinServer", Session)
    /\ IsAt(Entering, "joinSession", Session)
    /\ IsAt(Joining, "connect", Game)
    /\ IsAt(JoinHello, "hello", Game)
    /\ IsAt(Dropping, "disconnect", Game)
    /\ IsAt(DropWait, "join", Game)
    /\ IsAt(NextConnect, "connect", Session)
    /\ IsAt(NextHello, "hello", Session)
    /\ IsAt(NextDrop, "disconnect", Session)
    /\ IsAt(NextWait, "join", Session)
    /\ IsAt(GiveUp, "giveUp", Session)
    /\ IsAt(Quitting, "leave", Session)
    /\ IsAt(QuitDrop, "disconnect", Session)
    /\ IsAt(QuitWait, "join", Session)
    /\ IsAt(QuitStop, "stopServer", Session)
    /\ IsAt(QuitServer, "joinServer", Session)
    /\ IsAt(QuitGame, "disconnect", Game)
    /\ IsAt(QuitLast, "join", Game)
    /\ IsAt(Destroying, "destroy", Game)
<1>1. IsAt(Hosting, "hostSession", Session)
  BY OpFields DEF IsAt, Hosting
<1>2. IsAt(HostConnect, "connect", Game)
  BY OpFields DEF IsAt, HostConnect
<1>3. IsAt(HostHello, "hello", Game)
  BY OpFields DEF IsAt, HostHello
<1>4. IsAt(HostDrop, "disconnect", Game)
  BY OpFields DEF IsAt, HostDrop
<1>5. IsAt(HostWait, "join", Game)
  BY OpFields DEF IsAt, HostWait
<1>6. IsAt(HostUndo, "leave", Session)
  BY OpFields DEF IsAt, HostUndo
<1>7. IsAt(Stopping, "stopServer", Session)
  BY OpFields DEF IsAt, Stopping
<1>8. IsAt(StopWait, "joinServer", Session)
  BY OpFields DEF IsAt, StopWait
<1>9. IsAt(Entering, "joinSession", Session)
  BY OpFields DEF IsAt, Entering
<1>10. IsAt(Joining, "connect", Game)
  BY OpFields DEF IsAt, Joining
<1>11. IsAt(JoinHello, "hello", Game)
  BY OpFields DEF IsAt, JoinHello
<1>12. IsAt(Dropping, "disconnect", Game)
  BY OpFields DEF IsAt, Dropping
<1>13. IsAt(DropWait, "join", Game)
  BY OpFields DEF IsAt, DropWait
<1>14. IsAt(NextConnect, "connect", Session)
  BY OpFields DEF IsAt, NextConnect
<1>15. IsAt(NextHello, "hello", Session)
  BY OpFields DEF IsAt, NextHello
<1>16. IsAt(NextDrop, "disconnect", Session)
  BY OpFields DEF IsAt, NextDrop
<1>17. IsAt(NextWait, "join", Session)
  BY OpFields DEF IsAt, NextWait
<1>18. IsAt(GiveUp, "giveUp", Session)
  BY OpFields DEF IsAt, GiveUp
<1>19. IsAt(Quitting, "leave", Session)
  BY OpFields DEF IsAt, Quitting
<1>20. IsAt(QuitDrop, "disconnect", Session)
  BY OpFields DEF IsAt, QuitDrop
<1>21. IsAt(QuitWait, "join", Session)
  BY OpFields DEF IsAt, QuitWait
<1>22. IsAt(QuitStop, "stopServer", Session)
  BY OpFields DEF IsAt, QuitStop
<1>23. IsAt(QuitServer, "joinServer", Session)
  BY OpFields DEF IsAt, QuitServer
<1>24. IsAt(QuitGame, "disconnect", Game)
  BY OpFields DEF IsAt, QuitGame
<1>25. IsAt(QuitLast, "join", Game)
  BY OpFields DEF IsAt, QuitLast
<1>26. IsAt(Destroying, "destroy", Game)
  BY OpFields DEF IsAt, Destroying
<1>27. QED
  BY <1>1, <1>2, <1>3, <1>4, <1>5, <1>6, <1>7, <1>8, <1>9, <1>10, <1>11, <1>12, <1>13, <1>14, <1>15, <1>16, <1>17, <1>18, <1>19, <1>20, <1>21, <1>22, <1>23, <1>24, <1>25, <1>26

\* What comes after it.
LEMMA Tails ==
    /\ Tail(Hosting) = HostConnect
    /\ Tail(HostConnect) = <<>> /\ Tail(HostHello) = <<>>
    /\ Tail(HostDrop) = HostUndo /\ Tail(HostWait) = HostUndo
    /\ Tail(HostUndo) = Stopping /\ Tail(Stopping) = <<>> /\ Tail(StopWait) = <<>>
    /\ Tail(Joining) = Entering /\ Tail(JoinHello) = Entering
    /\ Tail(Dropping) = <<>> /\ Tail(DropWait) = <<>>
    /\ Tail(NextConnect) = <<>> /\ Tail(NextHello) = <<>>
    /\ Tail(NextDrop) = GiveUp /\ Tail(NextWait) = GiveUp /\ Tail(GiveUp) = Dropping
    /\ Tail(Quitting) = QuitStop /\ Tail(QuitDrop) = QuitStop /\ Tail(QuitWait) = QuitStop
    /\ Tail(QuitStop) = QuitGame /\ Tail(QuitServer) = QuitGame
    /\ Tail(QuitGame) = Destroying /\ Tail(QuitLast) = Destroying
<1>1. /\ Tail(Hosting) = HostConnect
      /\ Tail(HostConnect) = <<>> /\ Tail(HostHello) = <<>>
  BY DEF Hosting, HostConnect, HostHello
<1>2. /\ Tail(HostDrop) = HostUndo /\ Tail(HostWait) = HostUndo
      /\ Tail(HostUndo) = Stopping /\ Tail(Stopping) = <<>> /\ Tail(StopWait) = <<>>
  BY DEF HostDrop, HostWait, HostUndo, Stopping, StopWait
<1>3. /\ Tail(Joining) = Entering /\ Tail(JoinHello) = Entering
      /\ Tail(Dropping) = <<>> /\ Tail(DropWait) = <<>>
  BY DEF Joining, JoinHello, Entering, Dropping, DropWait
<1>4. /\ Tail(NextConnect) = <<>> /\ Tail(NextHello) = <<>>
      /\ Tail(NextDrop) = GiveUp /\ Tail(NextWait) = GiveUp /\ Tail(GiveUp) = Dropping
  BY DEF NextConnect, NextHello, NextDrop, NextWait, GiveUp, Dropping
<1>5. /\ Tail(Quitting) = QuitStop /\ Tail(QuitDrop) = QuitStop /\ Tail(QuitWait) = QuitStop
      /\ Tail(QuitStop) = QuitGame /\ Tail(QuitServer) = QuitGame
      /\ Tail(QuitGame) = Destroying /\ Tail(QuitLast) = Destroying
  BY DEF Quitting, QuitDrop, QuitWait, QuitStop, QuitServer, QuitGame, QuitLast, Destroying
<1>6. QED
  BY <1>1, <1>2, <1>3, <1>4, <1>5

\* What is done instead when it fails.
LEMMA Undos ==
    /\ Head(Hosting).undo = Stopping
    /\ Head(HostConnect).undo = HostUndo /\ Head(HostHello).undo = HostUndo
    /\ Head(Joining).undo = <<>> /\ Head(JoinHello).undo = <<>>
    /\ Head(NextConnect).undo = GiveUp /\ Head(NextHello).undo = GiveUp
<1>1. Head(Hosting).undo = Stopping
  BY OpFields DEF Hosting, Stopping
<1>2. Head(HostConnect).undo = HostUndo /\ Head(HostHello).undo = HostUndo
  BY OpFields DEF HostConnect, HostHello
<1>3. Head(Joining).undo = <<>> /\ Head(JoinHello).undo = <<>>
  BY OpFields DEF Joining, JoinHello
<1>4. Head(NextConnect).undo = GiveUp /\ Head(NextHello).undo = GiveUp
  BY OpFields DEF NextConnect, NextHello
<1>5. QED
  BY <1>1, <1>2, <1>3, <1>4

\* What the operations put before the rest.
LEMMA Fronts ==
    /\ <<Try("hello", Game, HostUndo)>> \o <<>> = HostHello
    /\ <<Op("disconnect", Game)>> \o HostUndo = HostDrop
    /\ <<Op("join", Game)>> \o HostUndo = HostWait
    /\ <<Op("joinServer", Session)>> \o <<>> = StopWait
    /\ <<Try("hello", Game, <<>>)>> \o Entering = JoinHello
    /\ <<Op("disconnect", Game)>> \o <<>> = Dropping
    /\ <<Op("join", Game)>> \o <<>> = DropWait
    /\ <<Try("hello", Session, GiveUp)>> \o <<>> = NextHello
    /\ <<Op("disconnect", Session)>> \o GiveUp = NextDrop
    /\ <<Op("join", Session)>> \o GiveUp = NextWait
    /\ <<Op("disconnect", Session)>> \o QuitStop = QuitDrop
    /\ <<Op("join", Session)>> \o QuitStop = QuitWait
    /\ <<Op("joinServer", Session)>> \o QuitGame = QuitServer
    /\ <<Op("join", Game)>> \o Destroying = QuitLast
    /\ <<>> \o Stopping = Stopping /\ <<>> \o QuitStop = QuitStop
<1>1. /\ <<Try("hello", Game, HostUndo)>> \o <<>> = HostHello
      /\ <<Op("joinServer", Session)>> \o <<>> = StopWait
      /\ <<Op("disconnect", Game)>> \o <<>> = Dropping
      /\ <<Op("join", Game)>> \o <<>> = DropWait
      /\ <<Try("hello", Session, GiveUp)>> \o <<>> = NextHello
  BY DEF HostHello, StopWait, Dropping, DropWait, NextHello
<1>2. /\ <<Try("hello", Game, <<>>)>> \o Entering = JoinHello
      /\ <<Op("join", Game)>> \o Destroying = QuitLast
  BY ConsOne DEF Entering, JoinHello, Destroying, QuitLast
<1>3. /\ <<Op("disconnect", Game)>> \o HostUndo = HostDrop
      /\ <<Op("join", Game)>> \o HostUndo = HostWait
      /\ <<Op("disconnect", Session)>> \o GiveUp = NextDrop
      /\ <<Op("join", Session)>> \o GiveUp = NextWait
      /\ <<Op("joinServer", Session)>> \o QuitGame = QuitServer
  BY ConsTwo DEF HostUndo, HostDrop, HostWait, GiveUp, NextDrop, NextWait, QuitGame, QuitServer
<1>4. /\ <<Op("disconnect", Session)>> \o QuitStop = QuitDrop
      /\ <<Op("join", Session)>> \o QuitStop = QuitWait
  BY ConsThree DEF QuitStop, QuitDrop, QuitWait
<1>5. <<>> \o Stopping = Stopping /\ <<>> \o QuitStop = QuitStop
  BY DEF Stopping, QuitStop
<1>6. QED
  BY <1>1, <1>2, <1>3, <1>4, <1>5

\* The step a call is at tells what is up.
LEMMA Places ==
    ASSUME Located, ended = "no"
    PROVE  /\ todo = <<>> => Settled
           /\ First("hostSession", Session) => todo = Hosting /\ running /\ (Alone \/ Both)
           /\ First("joinSession", Session) =>
                 /\ todo = Entering /\ ~running
                 /\ session = "single" /\ IsConnected(Game) /\ ~IsConnected(Session)
           /\ First("giveUp", Session) =>
                 todo = GiveUp /\ ~running /\ session = "joined" /\ ~IsConnected(Session)
           /\ First("connect", Game) => \/ todo = HostConnect /\ Hosted /\ ~IsConnected(Game)
                                        \/ todo = Joining /\ Settled
           /\ First("connect", Session) =>
                 /\ todo = NextConnect /\ ~running
                 /\ session = "joined" /\ IsConnected(Game) /\ ~IsConnected(Session)
           /\ First("hello", Game) =>
                 \/ todo = HostHello /\ Hosted /\ IsConnected(Game)
                 \/ /\ todo = JoinHello /\ ~running
                    /\ session = "single" /\ IsConnected(Game) /\ ~IsConnected(Session)
           /\ First("hello", Session) => todo = NextHello /\ Both /\ ~running
           /\ First("disconnect", Game) =>
                 \/ todo = HostDrop /\ Hosted
                 \/ todo = Dropping /\ ~running /\ session = "single" /\ ~IsConnected(Session)
                 \/ todo = QuitGame /\ ~IsConnected(Session)
           /\ First("disconnect", Session) =>
                 \/ todo = NextDrop /\ ~running /\ session = "joined"
                 \/ todo = QuitDrop
           /\ First("join", Game) =>
                 \/ todo = HostWait /\ Hosted
                 \/ todo = DropWait /\ ~running /\ session = "single" /\ ~IsConnected(Session)
                 \/ todo = QuitLast /\ ~IsConnected(Session)
           /\ First("join", Session) =>
                 \/ todo = NextWait /\ ~running /\ session = "joined"
                 \/ todo = QuitWait
           /\ First("leave", Session) => \/ todo = HostUndo /\ Hosted /\ ~IsConnected(Game)
                                         \/ todo = Quitting /\ Settled
           /\ First("stopServer", Session) => \/ todo = Stopping /\ running /\ (Alone \/ Both)
                                              \/ todo = QuitStop /\ ~IsConnected(Session)
           /\ First("joinServer", Session) => \/ todo = StopWait /\ running /\ (Alone \/ Both)
                                              \/ todo = QuitServer /\ ~IsConnected(Session)
           /\ First("destroy", Game) =>
                 todo = Destroying /\ ~IsConnected(Game) /\ ~IsConnected(Session)
<1> USE Heads, TwoClients DEF Located, WhileHosting, WhileJoining, WhileQuitting, First, IsAt
<1>1. todo = <<>> => Settled
  OBVIOUS
<1>2. First("hostSession", Session) => todo = Hosting /\ running /\ (Alone \/ Both)
  OBVIOUS
<1>3. First("joinSession", Session) =>
         /\ todo = Entering /\ ~running
         /\ session = "single" /\ IsConnected(Game) /\ ~IsConnected(Session)
  OBVIOUS
<1>4. First("giveUp", Session) =>
         todo = GiveUp /\ ~running /\ session = "joined" /\ ~IsConnected(Session)
  OBVIOUS
<1>5. First("connect", Game) => \/ todo = HostConnect /\ Hosted /\ ~IsConnected(Game)
                                \/ todo = Joining /\ Settled
  OBVIOUS
<1>6. First("connect", Session) =>
         /\ todo = NextConnect /\ ~running
         /\ session = "joined" /\ IsConnected(Game) /\ ~IsConnected(Session)
  OBVIOUS
<1>7. First("hello", Game) =>
         \/ todo = HostHello /\ Hosted /\ IsConnected(Game)
         \/ /\ todo = JoinHello /\ ~running
            /\ session = "single" /\ IsConnected(Game) /\ ~IsConnected(Session)
  OBVIOUS
<1>8. First("hello", Session) => todo = NextHello /\ Both /\ ~running
  OBVIOUS
<1>9. First("disconnect", Game) =>
         \/ todo = HostDrop /\ Hosted
         \/ todo = Dropping /\ ~running /\ session = "single" /\ ~IsConnected(Session)
         \/ todo = QuitGame /\ ~IsConnected(Session)
  OBVIOUS
<1>10. First("disconnect", Session) =>
         \/ todo = NextDrop /\ ~running /\ session = "joined"
         \/ todo = QuitDrop
  OBVIOUS
<1>11. First("join", Game) =>
         \/ todo = HostWait /\ Hosted
         \/ todo = DropWait /\ ~running /\ session = "single" /\ ~IsConnected(Session)
         \/ todo = QuitLast /\ ~IsConnected(Session)
  OBVIOUS
<1>12. First("join", Session) =>
         \/ todo = NextWait /\ ~running /\ session = "joined"
         \/ todo = QuitWait
  OBVIOUS
<1>13. First("leave", Session) => \/ todo = HostUndo /\ Hosted /\ ~IsConnected(Game)
                                  \/ todo = Quitting /\ Settled
  OBVIOUS
<1>14. First("stopServer", Session) => \/ todo = Stopping /\ running /\ (Alone \/ Both)
                                       \/ todo = QuitStop /\ ~IsConnected(Session)
  OBVIOUS
<1>15. First("joinServer", Session) => \/ todo = StopWait /\ running /\ (Alone \/ Both)
                                       \/ todo = QuitServer /\ ~IsConnected(Session)
  OBVIOUS
<1>16. First("destroy", Game) =>
         todo = Destroying /\ ~IsConnected(Game) /\ ~IsConnected(Session)
  OBVIOUS
<1> QED
  BY <1>1, <1>2, <1>3, <1>4, <1>5, <1>6, <1>7, <1>8, <1>9, <1>10, <1>11, <1>12,
     <1>13, <1>14, <1>15, <1>16

\* A step that leaves alone what Located is about.
LEMMA LocatedKept ==
    ASSUME Located, UNCHANGED <<session, running, todo, ended>>,
           IsConnected(Game)' <=> IsConnected(Game),
           IsConnected(Session)' <=> IsConnected(Session)
    PROVE  Located'
  BY DEF Located, Settled, Alone, Both, Hosted, WhileHosting, WhileJoining, WhileQuitting

\* A client's NetworkManager is what an assignment to it says.
LEMMA StateSet ==
    ASSUME Typed, NEW k \in Clients, NEW v, state' = [state EXCEPT ![k] = v]
    PROVE  /\ IsConnected(k)' <=> v \in {"connected", "authenticated"}
           /\ \A j \in Clients : j # k => (IsConnected(j)' <=> IsConnected(j))
  BY DEF Typed, IsConnected

LEMMA LocatedCalls ==
    ASSUME Located, AppCall PROVE Located'
<1> USE TwoClients
<1>1. CASE Host
  <2>1. /\ todo' = Hosting /\ running' /\ UNCHANGED <<state, session>>
        /\ ended = "no" /\ todo = <<>> /\ ~running
    BY <1>1 DEF Host, Call, Idle, Hosting
  <2>2. Settled
    BY <2>1, Places
  <2>3. QED
    BY <2>1, <2>2 DEF Located, WhileHosting, Settled, Alone, Both, Hosted, IsConnected
<1>2. CASE JoinGame \/ Quit
  <2>1. /\ todo' \in {Joining, Quitting} /\ UNCHANGED <<state, session, running>>
        /\ ended = "no" /\ todo = <<>>
    BY <1>2 DEF JoinGame, Quit, Call, Idle, Joining, Quitting
  <2>2. Settled
    BY <2>1, Places
  <2>3. QED
    BY <2>1, <2>2 DEF Located, Settled, Alone, Both, Hosted, IsConnected
<1>3. CASE Frame
  <2>1. UNCHANGED <<session, running, todo, ended>>
    BY <1>3 DEF Frame
  <2>2. \A k \in Clients : IsConnected(k)' <=> IsConnected(k)
    BY <1>3 DEF Frame, IsConnected, Updated
  <2>3. QED
    BY <2>1, <2>2, LocatedKept
<1>4. QED
  BY <1>1, <1>2, <1>3 DEF AppCall

LEMMA LocatedSession ==
    ASSUME Typed, Located, HostSession \/ JoinSession \/ GiveSessionUp \/ Leave PROVE Located'
<1> USE TwoClients
<1>1. CASE HostSession
  <2>1. ended = "no" /\ todo = Hosting /\ running /\ (Alone \/ Both)
    BY <1>1, Places DEF HostSession, First
  <2>2. /\ UNCHANGED <<state, running, ended>>
        /\ \/ session = "single" /\ session' = "hosted" /\ todo' = HostConnect
           \/ session # "single" /\ session' = session /\ todo' = Stopping
    BY <1>1, <2>1, Tails, Undos DEF HostSession
  <2>3. QED
    BY <2>1, <2>2 DEF Located, WhileHosting, Alone, Both, Hosted, IsConnected
<1>2. CASE JoinSession
  <2>1. /\ ended = "no" /\ todo = Entering /\ ~running
        /\ session = "single" /\ IsConnected(Game) /\ ~IsConnected(Session)
    BY <1>2, Places DEF JoinSession, First
  <2>2. /\ UNCHANGED <<state, running, ended>>
        /\ session' = "joined" /\ todo' = NextConnect
    BY <1>2, <2>1 DEF JoinSession, NextConnect
  <2>3. QED
    BY <2>1, <2>2 DEF Located, WhileJoining, IsConnected
<1>3. CASE GiveSessionUp
  <2>1. ended = "no" /\ todo = GiveUp /\ ~running /\ ~IsConnected(Session)
    BY <1>3, Places DEF GiveSessionUp, First
  <2>2. UNCHANGED <<state, running, ended>> /\ session' = "single" /\ todo' = Dropping
    BY <1>3, <2>1, Tails DEF GiveSessionUp
  <2>3. QED
    BY <2>1, <2>2 DEF Located, WhileJoining, IsConnected
<1>4. CASE Leave
  <2>1. /\ ended = "no"
        /\ \/ todo = HostUndo /\ Hosted /\ ~IsConnected(Game)
           \/ todo = Quitting /\ Settled
    BY <1>4, Places DEF Leave, First
  <2>2. /\ UNCHANGED <<state, running, ended>> /\ session' = "single"
        /\ todo' = (IF session # "single" /\ IsConnected(Session)
                    THEN <<Op("disconnect", Session)>> ELSE <<>>) \o Tail(todo)
    BY <1>4 DEF Leave
  <2>3. CASE todo = HostUndo /\ Hosted /\ ~IsConnected(Game)
    <3>1. todo' = Stopping
      BY <2>2, <2>3, Tails, Fronts DEF Hosted
    <3>2. QED
      BY <2>2, <2>3, <3>1 DEF Located, WhileHosting, Alone, Hosted, IsConnected
  <2>4. CASE todo = Quitting /\ Settled
    <3>1. todo' = QuitDrop \/ (todo' = QuitStop /\ ~IsConnected(Session))
      BY <2>2, <2>4, Tails, Fronts DEF Settled, Alone, Both, Hosted
    <3>2. QED
      BY <2>2, <3>1 DEF Located, WhileQuitting, IsConnected
  <2>5. QED
    BY <2>1, <2>3, <2>4
<1>5. QED
  BY <1>1, <1>2, <1>3, <1>4

LEMMA LocatedServer ==
    ASSUME Typed, Located, StopServer \/ JoinServer \/ Destroy \/ TickerEnds PROVE Located'
<1> USE TwoClients
<1>1. CASE StopServer
  <2>1. /\ ended = "no"
        /\ \/ todo = Stopping /\ running /\ (Alone \/ Both)
           \/ todo = QuitStop /\ ~IsConnected(Session)
    BY <1>1, Places DEF StopServer, First
  <2>2. /\ UNCHANGED <<state, session, running, ended>>
        /\ \/ running /\ todo' = <<Op("joinServer", Session)>> \o Tail(todo)
           \/ ~running /\ todo' = Tail(todo)
    BY <1>1 DEF StopServer
  <2>3. CASE todo = Stopping /\ running /\ (Alone \/ Both)
    <3>1. todo' = StopWait
      BY <2>2, <2>3, Tails, Fronts
    <3>2. QED
      BY <2>2, <2>3, <3>1 DEF Located, WhileHosting, Alone, Both, IsConnected
  <2>4. CASE todo = QuitStop /\ ~IsConnected(Session)
    <3>1. todo' \in {QuitServer, QuitGame}
      BY <2>2, <2>4, Tails, Fronts
    <3>2. QED
      BY <2>2, <2>4, <3>1 DEF Located, WhileQuitting, IsConnected
  <2>5. QED
    BY <2>1, <2>3, <2>4
<1>2. CASE JoinServer
  <2>1. /\ ended = "no"
        /\ \/ todo = StopWait /\ (Alone \/ Both)
           \/ todo = QuitServer /\ ~IsConnected(Session)
    BY <1>2, Places DEF JoinServer, First
  <2>2. /\ UNCHANGED <<state, session, ended>> /\ ~running' /\ todo' = Tail(todo)
    BY <1>2 DEF JoinServer
  <2>3. CASE todo = StopWait /\ (Alone \/ Both)
    BY <2>2, <2>3, Tails DEF Located, Settled, Alone, Both, IsConnected
  <2>4. CASE todo = QuitServer /\ ~IsConnected(Session)
    BY <2>2, <2>4, Tails DEF Located, WhileQuitting, IsConnected
  <2>5. QED
    BY <2>1, <2>3, <2>4
<1>3. CASE Destroy
  BY <1>3 DEF Destroy, Located
<1>4. CASE TickerEnds
  BY <1>4, LocatedKept DEF TickerEnds, IsConnected
<1>5. QED
  BY <1>1, <1>2, <1>3, <1>4

LEMMA LocatedConnect ==
    ASSUME Typed, Located, NEW k \in Clients, ConnectFails(k) \/ Connect(k) PROVE Located'
<1> USE TwoClients
<1>0. ended = "no" /\ First("connect", k)
  BY DEF ConnectFails, Connect, First
<1>1. CASE ConnectFails(k)
  <2>1. UNCHANGED <<state, session, running, ended>> /\ todo' = Head(todo).undo
    BY <1>1 DEF ConnectFails
  <2>2. CASE k = Game
    <3>1. \/ todo' = HostUndo /\ Hosted /\ ~IsConnected(Game)
          \/ todo' = <<>> /\ Settled
      BY <1>0, <2>1, <2>2, Places, Undos
    <3>2. QED
      BY <2>1, <3>1 DEF Located, WhileHosting, Settled, Alone, Both, Hosted, IsConnected
  <2>3. CASE k = Session
    <3>1. todo' = GiveUp /\ ~running /\ session = "joined" /\ ~IsConnected(Session)
      BY <1>0, <2>1, <2>3, Places, Undos
    <3>2. QED
      BY <2>1, <3>1 DEF Located, WhileJoining, IsConnected
  <2>4. QED
    BY <2>2, <2>3
<1>2. CASE Connect(k)
  <2>1. /\ UNCHANGED <<session, running>> /\ state[k] = "disconnected"
        /\ state' = [state EXCEPT ![k] = "connected"]
        /\ todo' = <<Try("hello", k, Head(todo).undo)>> \o Tail(todo)
    BY <1>2 DEF Connect
  <2>2. /\ IsConnected(k)' /\ ~IsConnected(k)
        /\ \A j \in Clients : j # k => (IsConnected(j)' <=> IsConnected(j))
    BY <2>1, StateSet DEF IsConnected
  <2>3. CASE k = Game /\ todo = HostConnect /\ Hosted
    <3>1. todo' = HostHello
      BY <2>1, <2>3, Tails, Undos, Fronts
    <3>2. QED
      BY <2>1, <2>2, <2>3, <3>1 DEF Located, WhileHosting, Hosted
  <2>4. CASE k = Game /\ todo = Joining /\ Settled
    <3>1. todo' = JoinHello
      BY <2>1, <2>4, Tails, Undos, Fronts
    <3>2. Alone /\ ~running
      BY <2>2, <2>4 DEF Settled, Both
    <3>3. QED
      BY <2>1, <2>2, <2>4, <3>1, <3>2 DEF Located, WhileJoining, Alone
  <2>5. CASE k = Session
    <3>1. /\ todo = NextConnect /\ ~running /\ session = "joined" /\ IsConnected(Game)
      BY <1>0, <2>5, Places
    <3>2. todo' = NextHello
      BY <2>1, <2>5, <3>1, Tails, Undos, Fronts
    <3>3. QED
      BY <2>1, <2>2, <2>5, <3>1, <3>2 DEF Located, WhileJoining, Both
  <2>6. QED
    BY <1>0, <2>3, <2>4, <2>5, Places
<1>3. QED
  BY <1>1, <1>2

LEMMA LocatedHello ==
    ASSUME Typed, Located, NEW k \in Clients, Hello(k) \/ HelloFails(k) PROVE Located'
<1> USE TwoClients
<1>1. /\ ended = "no" /\ First("hello", k) /\ UNCHANGED <<state, session, running, ended>>
      /\ \/ todo' = Tail(todo)
         \/ todo' = <<Op("disconnect", k)>> \o Head(todo).undo
  BY DEF Hello, HelloFails, First
<1>2. CASE k = Game /\ todo = HostHello /\ Hosted /\ IsConnected(Game)
  <2>1. todo' \in {<<>>, HostDrop}
    BY <1>1, <1>2, Tails, Undos, Fronts
  <2>2. QED
    BY <1>1, <1>2, <2>1 DEF Located, WhileHosting, Settled, Hosted, IsConnected
<1>3. CASE /\ k = Game /\ todo = JoinHello /\ ~running
           /\ session = "single" /\ IsConnected(Game) /\ ~IsConnected(Session)
  <2>1. todo' \in {Entering, Dropping}
    BY <1>1, <1>3, Tails, Undos, Fronts
  <2>2. QED
    BY <1>1, <1>3, <2>1 DEF Located, WhileJoining, IsConnected
<1>4. CASE k = Session
  <2>1. todo = NextHello /\ Both /\ ~running
    BY <1>1, <1>4, Places
  <2>2. todo' \in {<<>>, NextDrop}
    BY <1>1, <1>4, <2>1, Tails, Undos, Fronts
  <2>3. QED
    BY <1>1, <2>1, <2>2 DEF Located, WhileJoining, Settled, Both, IsConnected
<1>5. QED
  BY <1>1, <1>2, <1>3, <1>4, Places

LEMMA LocatedDisconnect ==
    ASSUME Typed, Located, NEW k \in Clients, Disconnect(k) \/ JoinThread(k) PROVE Located'
<1> USE TwoClients
<1>1. ended = "no" /\ UNCHANGED <<session, running, ended>>
  BY DEF Disconnect, JoinThread, First
<1>2. CASE Disconnect(k) /\ UNCHANGED state /\ todo' = <<Op("join", k)>> \o Tail(todo)
  <2>1. First("disconnect", k) /\ UNCHANGED state
    BY <1>2 DEF Disconnect
  <2>2. CASE k = Game
    <3>1. \/ todo' = HostWait /\ Hosted
          \/ todo' = DropWait /\ ~running /\ session = "single" /\ ~IsConnected(Session)
          \/ todo' = QuitLast /\ ~IsConnected(Session)
      BY <1>1, <1>2, <2>1, <2>2, Places, Tails, Fronts
    <3>2. QED
      BY <1>1, <2>1, <3>1
      DEF Located, WhileHosting, WhileJoining, WhileQuitting, Hosted, IsConnected
  <2>3. CASE k = Session
    <3>1. \/ todo' = NextWait /\ ~running /\ session = "joined"
          \/ todo' = QuitWait
      BY <1>1, <1>2, <2>1, <2>3, Places, Tails, Fronts
    <3>2. QED
      BY <1>1, <3>1 DEF Located, WhileJoining, WhileQuitting
  <2>4. QED
    BY <2>2, <2>3
<1>3. CASE /\ First("disconnect", k) \/ First("join", k)
           /\ state' = [state EXCEPT ![k] = "disconnected"] /\ todo' = Tail(todo)
  <2>1. /\ ~IsConnected(k)'
        /\ \A j \in Clients : j # k => (IsConnected(j)' <=> IsConnected(j))
    BY <1>3 DEF Typed, IsConnected
  <2>2. CASE k = Game
    <3>1. \/ todo' = HostUndo /\ Hosted
          \/ todo' = <<>> /\ ~running /\ session = "single" /\ ~IsConnected(Session)
          \/ todo' = Destroying /\ ~IsConnected(Session)
      BY <1>1, <1>3, <2>2, Places, Tails
    <3>2. ~IsConnected(Game)' /\ (IsConnected(Session)' <=> IsConnected(Session))
      BY <2>1, <2>2
    <3>3. QED
      BY <1>1, <3>1, <3>2 DEF Located, WhileHosting, WhileQuitting, Settled, Alone, Hosted
  <2>3. CASE k = Session
    <3>1. \/ todo' = GiveUp /\ ~running /\ session = "joined"
          \/ todo' = QuitStop
      BY <1>1, <1>3, <2>3, Places, Tails
    <3>2. ~IsConnected(Session)'
      BY <2>1, <2>3
    <3>3. QED
      BY <1>1, <3>1, <3>2 DEF Located, WhileJoining, WhileQuitting
  <2>4. QED
    BY <2>2, <2>3
<1>4. QED
  BY <1>2, <1>3 DEF Disconnect, JoinThread

LEMMA StepLocated ==
    ASSUME Typed, Located, [Next]_vars PROVE Located'
<1>1. CASE (\E k \in Clients : Receiver(k)) \/ RemoteServer \/ UNCHANGED vars
  BY <1>1, LocatedKept DEF Receiver, RemoteServer, vars, app, IsConnected
<1>2. QED
  BY <1>1, LocatedCalls, LocatedSession, LocatedServer, LocatedConnect, LocatedHello,
     LocatedDisconnect DEF Next, AppStep

\* The operation a call is at has one name.
LEMMA AtFirst ==
    ASSUME NEW name, NEW k, First(name, k)
    PROVE  NowAt(name) /\ Head(todo).of = k /\ \A other : other # name => ~NowAt(other)
  BY DEF First, NowAt

LEMMA TickerKept ==
    ASSUME TickerKnown, UNCHANGED <<running, shouldStop, ticker>>,
           todo' = todo \/ ~NowAt("joinServer")
    PROVE  TickerKnown'
  BY DEF TickerKnown, NowAt

LEMMA StepTicker ==
    ASSUME AppTyped, Located, TickerKnown, [Next]_vars PROVE TickerKnown'
<1>1. CASE Host
  BY <1>1 DEF Host, TickerKnown
<1>2. CASE StopServer
  <2>1. First("stopServer", Session) /\ ended = "no"
    BY <1>2 DEF StopServer, First
  <2>2. CASE running
    <3>1. todo = Stopping \/ todo = QuitStop
      BY <2>1, Places
    <3>2. /\ UNCHANGED <<running, ticker>> /\ shouldStop'
          /\ todo' = <<Op("joinServer", Session)>> \o Tail(todo)
      BY <1>2, <2>2 DEF StopServer, FlagRaised
    <3>3. todo' \in {StopWait, QuitServer}
      BY <3>1, <3>2, Tails, Fronts
    <3>4. NowAt("joinServer")'
      BY <3>3, Heads DEF NowAt, IsAt
    <3>5. QED
      BY <3>2, <3>4 DEF TickerKnown
  <2>3. CASE ~running
    <3>1. ~NowAt("joinServer")
      BY <2>1, AtFirst
    <3>2. UNCHANGED <<running, shouldStop, ticker>>
      BY <1>2, <2>3 DEF StopServer
    <3>3. QED
      BY <3>1, <3>2, TickerKept
  <2>4. QED
    BY <2>2, <2>3
<1>3. CASE JoinServer
  BY <1>3 DEF JoinServer, TickerKnown
<1>4. CASE TickerEnds
  BY <1>4 DEF TickerEnds, TickerKnown, NowAt
<1>5. ASSUME UNCHANGED <<running, shouldStop, ticker>>, todo' = todo \/ ~NowAt("joinServer")
      PROVE  TickerKnown'
  BY <1>5, TickerKept
<1>6. CASE JoinGame \/ Quit \/ Frame
  BY <1>5, <1>6 DEF JoinGame, Quit, Frame, Call, Idle, NowAt
<1>7. CASE HostSession \/ JoinSession \/ GiveSessionUp \/ Leave \/ Destroy
  <2>1. ~NowAt("joinServer")
    BY <1>7, AtFirst DEF HostSession, JoinSession, GiveSessionUp, Leave, Destroy
  <2>2. QED
    BY <1>5, <1>7, <2>1 DEF HostSession, JoinSession, GiveSessionUp, Leave, Destroy
<1>8. ASSUME NEW k \in Clients, ConnectFails(k) \/ Connect(k) PROVE TickerKnown'
  <2>1. ~NowAt("joinServer")
    BY <1>8, AtFirst DEF ConnectFails, Connect
  <2>2. QED
    BY <1>5, <1>8, <2>1 DEF ConnectFails, Connect
<1>9. ASSUME NEW k \in Clients, Hello(k) \/ HelloFails(k) PROVE TickerKnown'
  <2>1. ~NowAt("joinServer")
    BY <1>9, AtFirst DEF Hello, HelloFails
  <2>2. QED
    BY <1>5, <1>9, <2>1 DEF Hello, HelloFails
<1>10. ASSUME NEW k \in Clients, Disconnect(k) \/ JoinThread(k) PROVE TickerKnown'
  <2>1. ~NowAt("joinServer")
    BY <1>10, AtFirst DEF Disconnect, JoinThread
  <2>2. QED
    BY <1>5, <1>10, <2>1 DEF Disconnect, JoinThread
<1>11. CASE (\E k \in Clients : Receiver(k)) \/ RemoteServer \/ UNCHANGED vars
  BY <1>5, <1>11 DEF Receiver, RemoteServer, vars, app
<1>12. QED
  BY <1>1, <1>2, <1>3, <1>4, <1>6, <1>7, <1>8, <1>9, <1>10, <1>11 DEF Next, AppCall, AppStep

-----------------------------------------------------------------------------
(* Threads and losses.                                                     *)

\* A connection that the server has ended stays so.
LEMMA LostForGood ==
    ASSUME Typed, Numbered, [Next]_vars, NEW c \in Conns, Lost(c)
    PROVE  Lost(c)'
<1> USE DEF Lost
<1>1. CASE UNCHANGED ClientVars
  BY <1>1 DEF ClientVars, network
<1>2. CASE Frame
  BY <1>2 DEF Frame, network
<1>3. ASSUME NEW k \in Clients, Connect(k) PROVE Lost(c)'
  <2>1. /\ conns \in Nat /\ conns + 1 \in Conns /\ conns + 1 > conns
        /\ srv' = [srv EXCEPT ![conns + 1] = "open"]
    BY <1>3, TcpBounds DEF Connect, Open, Typed, Conns
  <2>2. srv[conns + 1] = "none"
    BY <2>1 DEF Numbered
  <2>3. QED
    BY <2>1, <2>2 DEF Typed
<1>4. ASSUME NEW k \in Clients, Hello(k) PROVE Lost(c)'
  BY <1>4 DEF Hello
<1>5. ASSUME NEW k \in Clients, Disconnect(k) PROVE Lost(c)'
  BY <1>5 DEF Disconnect, Close, network, Typed
<1>6. ASSUME NEW k \in Clients, JoinThread(k) PROVE Lost(c)'
  BY <1>6 DEF JoinThread, Join, network
<1>7. ASSUME NEW k \in Clients, Reads(k) \/ Push(k) PROVE Lost(c)'
  BY <1>7 DEF Reads, RecvLines, RecvEnds, LoopEnds, Push, network
<1>8. ASSUME NEW d, ServerSends(d) \/ Ends(d) PROVE Lost(c)'
  BY <1>8 DEF ServerSends, Ends, Typed
<1>9. QED
  BY <1>1, <1>2, <1>3, <1>4, <1>5, <1>6, <1>7, <1>8, Steps

Excused(k) == connected[k] \/ (NowAt("join") /\ Head(todo).of = k)

LEMMA StepThreads ==
    ASSUME Typed, Numbered, FlagUp, Located, ThreadsKnown, [Next]_vars PROVE ThreadsKnown'
<1>0. SUFFICES ASSUME NoLoss', NEW j \in Clients, thread'[j] # "none" PROVE Excused(j)'
  BY DEF ThreadsKnown, Excused
<1>a. NoLoss
  BY <1>0, LostForGood DEF NoLoss
<1>b. \A k \in Clients : thread[k] # "none" => Excused(k)
  BY <1>a DEF ThreadsKnown, Excused
<1>1. ASSUME UNCHANGED <<thread, connected>>, todo' = todo \/ ~NowAt("join")
      PROVE  Excused(j)'
  BY <1>0, <1>1, <1>b DEF Excused, NowAt
<1>2. CASE AppCall
  BY <1>1, <1>2 DEF AppCall, Host, JoinGame, Quit, Frame, Call, Idle, NowAt, client
<1>3. CASE HostSession \/ JoinSession \/ GiveSessionUp \/ Leave \/ StopServer \/ JoinServer \/ Destroy
  <2>1. ~NowAt("join")
    BY <1>3, AtFirst
    DEF HostSession, JoinSession, GiveSessionUp, Leave, StopServer, JoinServer, Destroy
  <2>2. QED
    BY <1>1, <1>3, <2>1 DEF HostSession, JoinSession, GiveSessionUp, Leave, StopServer,
       JoinServer, Destroy, client
<1>4. ASSUME NEW k \in Clients, ConnectFails(k) \/ Hello(k) \/ HelloFails(k)
      PROVE  Excused(j)'
  <2>1. ~NowAt("join")
    BY <1>4, AtFirst DEF ConnectFails, Hello, HelloFails
  <2>2. QED
    BY <1>1, <1>4, <2>1 DEF ConnectFails, Hello, HelloFails, client
<1>5. ASSUME NEW k \in Clients, Connect(k) PROVE Excused(j)'
  <2>1. ~NowAt("join")
    BY <1>5, AtFirst DEF Connect
  <2>2. /\ connected'[k]
        /\ j # k => connected'[j] = connected[j] /\ thread'[j] = thread[j]
    BY <1>5 DEF Connect, Open, Typed
  <2>3. QED
    BY <1>0, <1>b, <2>1, <2>2 DEF Excused
<1>6. ASSUME NEW k \in Clients, Disconnect(k) PROVE Excused(j)'
  <2>1. First("disconnect", k) /\ ended = "no"
    BY <1>6 DEF Disconnect, First
  <2>2. ~NowAt("join")
    BY <2>1, AtFirst
  <2>3. CASE Close(k) /\ todo' = <<Op("join", k)>> \o Tail(todo)
    <3>1. /\ UNCHANGED thread
          /\ j # k => connected'[j] = connected[j]
      BY <2>3 DEF Close, Typed
    <3>2. CASE j # k
      BY <1>0, <1>b, <2>2, <3>1, <3>2 DEF Excused
    <3>3. CASE j = k
      <4>1. k = Game => todo \in {HostDrop, Dropping, QuitGame}
        BY <2>1, Places
      <4>2. k = Session => todo \in {NextDrop, QuitDrop}
        BY <2>1, Places
      <4>3. k = Game => todo' \in {HostWait, DropWait, QuitLast}
        BY <2>3, <4>1, Tails, Fronts
      <4>4. k = Session => todo' \in {NextWait, QuitWait}
        BY <2>3, <4>2, Tails, Fronts
      <4>5. (NowAt("join") /\ Head(todo).of = k)'
        BY <4>3, <4>4, Heads, TwoClients DEF NowAt, IsAt
      <4>6. QED
        BY <3>3, <4>5 DEF Excused
    <3>4. QED
      BY <3>2, <3>3
  <2>4. CASE UNCHANGED client
    BY <1>1, <2>2, <2>4 DEF client
  <2>5. QED
    BY <1>6, <2>3, <2>4 DEF Disconnect
<1>7. ASSUME NEW k \in Clients, JoinThread(k) PROVE Excused(j)'
  <2>1. Head(todo).of = k
    BY <1>7, AtFirst DEF JoinThread
  <2>2. /\ thread'[k] = "none" /\ UNCHANGED connected
        /\ j # k => thread'[j] = thread[j]
    BY <1>7 DEF JoinThread, Join, Joined, Typed
  <2>3. j # k
    BY <1>0, <2>2
  <2>4. QED
    BY <1>0, <1>b, <2>1, <2>2, <2>3 DEF Excused
<1>8. ASSUME NEW k \in Clients, Reads(k) \/ Push(k), UNCHANGED <<app, history>>
      PROVE  Excused(j)'
  <2>1. todo' = todo /\ thread[k] # "none"
    BY <1>8 DEF Reads, RecvLines, RecvEnds, LoopEnds, Push, At, app
  <2>2. j # k => thread'[j] = thread[j] /\ connected'[j] = connected[j]
    BY <1>8 DEF Reads, RecvLines, RecvEnds, LoopEnds, EndNoticed, Push, Goto, Typed
  <2>3. ~RecvEnds(k)
    <3>1. conn[k] \in Conns
      BY <2>1, ReaderHasConn
    <3>2. srv[conn[k]] # "closed"
      BY <1>a, <3>1 DEF NoLoss, Lost
    <3>3. QED
      BY <3>2 DEF RecvEnds, FlagUp
  <2>4. connected'[k] = connected[k]
    BY <1>8, <2>3 DEF Reads, RecvLines, LoopEnds, Push
  <2>5. QED
    BY <1>0, <1>b, <2>1, <2>2, <2>4 DEF Excused, NowAt
<1>9. CASE RemoteServer \/ TickerEnds \/ UNCHANGED vars
  BY <1>1, <1>9 DEF RemoteServer, Server, ServerSends, ServerEnds, TickerEnds, vars, client, app
<1>r. ASSUME NEW k \in Clients, RecvReset(k), UNCHANGED <<app, history>> PROVE Excused(j)'
  BY <1>1, <1>r DEF RecvReset, client, app
<1>10. QED
  BY <1>2, <1>3, <1>4, <1>5, <1>6, <1>7, <1>8, <1>9, <1>r
  DEF Next, AppStep, Receiver, Receive, Reads

LEMMA StepTerminated ==
    ASSUME Typed, AppTyped, Numbered, FlagUp, Located, ThreadsKnown, TerminatedByLossOnly,
           [Next]_vars
    PROVE  TerminatedByLossOnly'
<1>0. SUFFICES ASSUME ended' = "terminate", NoLoss' PROVE FALSE
  BY DEF TerminatedByLossOnly, NoLoss
<1>1. NoLoss
  BY <1>0, LostForGood DEF NoLoss
<1>2. ended # "terminate"
  BY <1>1 DEF TerminatedByLossOnly, NoLoss
<1>3. ASSUME NEW k \in Clients, MustEnd(k), ~IsConnected(k), ~NowAt("join") PROVE FALSE
  BY <1>1, <1>3 DEF ThreadsKnown, MustEnd, FlagUp
<1>4. ASSUME NEW k \in Clients, Connect(k) PROVE FALSE
  <2>1. MustEnd(k) /\ ~IsConnected(k)
    BY <1>0, <1>4 DEF Connect, IsConnected
  <2>2. ~NowAt("join")
    BY <1>4, AtFirst DEF Connect
  <2>3. QED
    BY <1>3, <2>1, <2>2
<1>5. CASE Destroy
  <2>1. First("destroy", Game) /\ ended = "no"
    BY <1>5 DEF Destroy, First
  <2>2. PICK k \in Clients : MustEnd(k)
    BY <1>0, <1>5 DEF Destroy
  <2>3. ~IsConnected(k)
    BY <2>1, Places, TwoClients
  <2>4. ~NowAt("join")
    BY <2>1, AtFirst
  <2>5. QED
    BY <1>3, <2>2, <2>3, <2>4
<1>6. Destroy \/ (\E k \in Clients : Connect(k)) \/ ended' = ended
  <2>1. AppCall \/ TickerEnds \/ (\E k \in Clients : Receiver(k)) \/ RemoteServer
          \/ UNCHANGED vars => ended' = ended
    BY DEF AppCall, Host, JoinGame, Quit, Frame, TickerEnds, Receiver, RemoteServer, vars, app
  <2>2. HostSession \/ JoinSession \/ GiveSessionUp \/ Leave \/ StopServer \/ JoinServer
          => ended' = ended
    BY DEF HostSession, JoinSession, GiveSessionUp, Leave, StopServer, JoinServer
  <2>3. \A k \in Clients : ConnectFails(k) \/ Hello(k) \/ HelloFails(k) \/ Disconnect(k)
                             \/ JoinThread(k) => ended' = ended
    BY DEF ConnectFails, Hello, HelloFails, Disconnect, JoinThread
  <2>4. QED
    BY <2>1, <2>2, <2>3 DEF Next, AppStep
<1>7. QED
  BY <1>0, <1>2, <1>4, <1>5, <1>6

-----------------------------------------------------------------------------
(* The theorems.                                                           *)

IInv ==
    /\ Typed /\ AppTyped /\ Numbered
    /\ FlagUp
    /\ Continued
    /\ OwnLines /\ FreshAuth
    /\ Located /\ TickerKnown
    /\ ThreadsKnown /\ TerminatedByLossOnly

LEMMA InitIInv == Init => IInv
<1> SUFFICES ASSUME Init PROVE IInv
  OBVIOUS
<1>1. Typed /\ AppTyped /\ Numbered
  BY InitTyped
<1>2. FlagUp /\ OwnLines /\ FreshAuth
  BY DEF Init, TcpInit, FlagUp, OwnLines, FreshAuth
<1>3. Continued
  <2>1. SUFFICES ASSUME NEW k \in Clients
                 PROVE  InOrder(Had(k)) /\ DOMAIN Had(k) = {} /\ conn[k] = 0
    BY DEF Continued
  <2>2. Had(k) = <<>> /\ conn[k] = 0
    BY DEF Init, TcpInit, Had
  <2>3. DOMAIN Had(k) = {}
    BY <2>2
  <2>4. QED
    BY <2>2, <2>3 DEF InOrder
<1>4. Located
  BY TwoClients DEF Init, Located, Settled, Alone, IsConnected
<1>5. TickerKnown
  BY DEF Init, TickerKnown
<1>6. ThreadsKnown
  BY DEF Init, TcpInit, ThreadsKnown
<1>7. TerminatedByLossOnly
  BY DEF Init, TerminatedByLossOnly
<1>8. QED
  BY <1>1, <1>2, <1>3, <1>4, <1>5, <1>6, <1>7 DEF IInv

LEMMA NextIInv == IInv /\ [Next]_vars => IInv'
<1> SUFFICES ASSUME IInv, [Next]_vars PROVE IInv'
  OBVIOUS
<1>1. /\ Typed /\ AppTyped /\ Numbered /\ FlagUp /\ Continued /\ OwnLines /\ FreshAuth
      /\ Located /\ TickerKnown /\ ThreadsKnown /\ TerminatedByLossOnly
  BY DEF IInv
<1>2. Typed' /\ AppTyped' /\ Numbered' /\ FlagUp'
  BY <1>1, StepTyped, StepAppTyped, StepNumbered, StepFlagUp
<1>3. Continued' /\ OwnLines' /\ FreshAuth'
  BY <1>1, StepContinued, StepOwnLines, StepFreshAuth
<1>4. Located' /\ TickerKnown'
  BY <1>1, StepLocated, StepTicker
<1>5. ThreadsKnown' /\ TerminatedByLossOnly'
  BY <1>1, StepThreads, StepTerminated
<1>6. QED
  BY <1>2, <1>3, <1>4, <1>5 DEF IInv

\* The invariant holds in every reachable state, with any number of connections
\* and lines.
THEOREM SessionInvariant == Spec => []IInv
  BY InitIInv, NextIInv, PTL DEF Spec

\* The receive thread of TCPClient and the thread that empties its queue lose no
\* line, give none twice and change no order, over any number of connections.
THEOREM LinesKeepOrder == Spec => []LinesInOrder
<1>1. IInv => LinesInOrder
  BY DEF IInv, Continued, InOrder, Had, LinesInOrder
<1>2. QED
  BY <1>1, SessionInvariant, PTL

\* NetworkManager is authenticated only by the acknowledgement of the server it is
\* connected to, unless it connected over lines of an earlier connection, which
\* TCPClient does not drop.
THEOREM AuthIsFresh == Spec => []FreshAuth
<1>1. IInv => FreshAuth
  BY DEF IInv
<1>2. QED
  BY <1>1, SessionInvariant, PTL

\* Whatever fails in hosting, joining or leaving, and wherever, the Application
\* comes back to one of three states: alone, hosting with the embedded server up,
\* or joined with both clients.
THEOREM SessionStaysWhole == Spec => []SessionWhole
<1>1. ASSUME IInv, Idle PROVE Settled /\ (running <=> ticker = "ticks")
  <2>1. ended = "no" /\ todo = <<>> /\ Located /\ TickerKnown /\ AppTyped
    BY <1>1 DEF IInv, Idle
  <2>2. Settled
    BY <2>1, Places
  <2>3. ~(running /\ shouldStop)
    BY <2>1 DEF TickerKnown, NowAt
  <2>4. running <=> ticker = "ticks"
    BY <2>1, <2>3 DEF TickerKnown, AppTyped
  <2>5. QED
    BY <2>2, <2>4
<1>2. IInv => SessionWhole
  <2>1. SUFFICES ASSUME IInv, Idle
                 PROVE  /\ session = "hosted" <=> running
                        /\ running <=> ticker = "ticks"
                        /\ session = "single" => \A k \in Clients : ~IsConnected(k)
                        /\ session = "hosted" => IsConnected(Game) /\ ~IsConnected(Session)
                        /\ session = "joined" => \A k \in Clients : IsConnected(k)
                        /\ \A k \in Clients : connected[k] => IsConnected(k) /\ thread[k] \in Alive
    BY DEF SessionWhole
  <2>2. Settled /\ (running <=> ticker = "ticks") /\ FlagUp
    BY <1>1, <2>1 DEF IInv
  <2>3. \A k \in Clients : connected[k] => IsConnected(k) /\ thread[k] \in Alive
    BY <2>2 DEF FlagUp
  <2>4. QED
    BY <2>2, <2>3, TwoClients DEF Settled, Alone, Hosted, Both
<1>3. QED
  BY <1>2, SessionInvariant, PTL

\* A thread object that is destroyed or assigned before it was joined, which calls
\* std::terminate, is always that of a connection the server had closed: what the
\* Application does by itself joins every thread.
THEOREM LossAloneTerminates == Spec => []TerminatedByLossOnly
<1>1. IInv => TerminatedByLossOnly
  BY DEF IInv
<1>2. QED
  BY <1>1, SessionInvariant, PTL
=============================================================================
