----------------------------- MODULE GameSession -----------------------------
(***************************************************************************)
(* The multiplayer side of the game client: Application, with the          *)
(* NetworkManager of its GameClient, the one of its SessionManager, and    *)
(* its EmbeddedServer.                                                     *)
(*                                                                         *)
(* The application's thread runs one call at a time; `todo' holds the      *)
(* operations it still has to do, in order.  Beside it run the receive     *)
(* threads of the two clients (TcpClient), the embedded server's thread    *)
(* and the remote server.                                                  *)
(***************************************************************************)
EXTENDS TcpClient

CONSTANTS Game, Session   \* the two clients, of GameClient and of SessionManager

ASSUME TwoClients == Clients = {Game, Session} /\ Game # Session

VARIABLES state,       \* client -> m_state of its NetworkManager
          session,     \* m_currentType of SessionManager
          running,     \* m_running of EmbeddedServer
          shouldStop, ticker,   \* its stop flag and its thread
          todo,
          ended,       \* how the program ended: "no", "quit", or "terminate"
          delivered,   \* client -> lines handed to onRawMessage (history)
          stale        \* clients whose queue held lines when they connected (history)

app == <<state, session, running, shouldStop, ticker, todo, ended>>
history == <<delivered, stale>>
vars == <<client, network, app, history>>

\* An operation on client k, and what is left to do if it fails.
Op(name, k) == [name |-> name, of |-> k, undo |-> <<>>]
Try(name, k, undo) == [Op(name, k) EXCEPT !.undo = undo]

IsConnected(k) == state[k] \in {"connected", "authenticated"}

TypeOK ==
    /\ TcpTypeOK
    /\ state \in [Clients -> {"disconnected", "connected", "authenticated"}]
    /\ session \in {"single", "hosted", "joined"}
    /\ running \in BOOLEAN /\ shouldStop \in BOOLEAN
    /\ ticker \in {"none", "ticks", "done"}
    /\ ended \in {"no", "quit", "terminate"}
    /\ stale \subseteq Clients

Init ==
    /\ TcpInit
    /\ state = [k \in Clients |-> "disconnected"]
    /\ session = "single"
    /\ running = FALSE /\ shouldStop = FALSE /\ ticker = "none"
    /\ todo = <<>>
    /\ ended = "no"
    /\ delivered = [k \in Clients |-> <<>>]
    /\ stale = {}

-----------------------------------------------------------------------------
(* Calls of the application.                                               *)

Idle == todo = <<>> /\ ended = "no"

Call(ops) == Idle /\ todo' = ops

\* A failed host leaves the session and stops the server (the slip leaves it on).
ServerKept == <<Op("leave", Session)>>
HostUndo == <<Op("leave", Session), Op("stopServer", Session)>>

\* hostMultiplayerGame: EmbeddedServer::start refuses if it runs.
Host ==
    /\ Call(<<Try("hostSession", Session, <<Op("stopServer", Session)>>),
              Try("connect", Game, HostUndo)>>)
    /\ ~running
    /\ running' = TRUE /\ shouldStop' = FALSE /\ ticker' = "ticks"
    /\ UNCHANGED <<client, network, state, session, ended, history>>

\* joinMultiplayerGame.
JoinGame ==
    /\ Call(<<Op("connect", Game), Try("joinSession", Session, <<Op("disconnect", Game)>>)>>)
    /\ UNCHANGED <<client, network, state, session, running, shouldStop, ticker, ended, history>>

\* cleanup, then the destructors.
Quit ==
    /\ Call(<<Op("leave", Session), Op("stopServer", Session),
              Op("disconnect", Game), Op("destroy", Game)>>)
    /\ UNCHANGED <<client, network, state, session, running, shouldStop, ticker, ended, history>>

\* The lines that authenticate a client (the slip takes any line for it).
AnyLine(lines) == lines # <<>>
Acknowledged(lines) == \E i \in DOMAIN lines : lines[i][2] = ackAt[lines[i][1]]

\* update: SessionManager::update, in a session only, then GameClient::update; both
\* hand on, under the lock, all that is in the queue of a client that believes
\* itself connected.
Updated == {k \in Clients : IsConnected(k) /\ (k = Session => session # "single")}

Frame ==
    /\ Idle
    /\ delivered' = [k \in Clients |-> IF k \in Updated THEN delivered[k] \o queue[k]
                                                      ELSE delivered[k]]
    /\ queue' = [k \in Clients |-> IF k \in Updated THEN <<>> ELSE queue[k]]
    /\ state' = [k \in Clients |-> IF k \in Updated /\ Acknowledged(queue[k])
                                  THEN "authenticated" ELSE state[k]]
    /\ UNCHANGED <<connected, open, thread, conn, network, session, running, shouldStop,
                   ticker, todo, ended, stale>>

-----------------------------------------------------------------------------
(* The operations they are made of.                                        *)

First(name, k) == ended = "no" /\ todo # <<>> /\ Head(todo).name = name /\ Head(todo).of = k

HostSession ==
    /\ First("hostSession", Session)
    /\ IF session = "single"
       THEN session' = "hosted" /\ todo' = Tail(todo)
       ELSE todo' = Head(todo).undo /\ UNCHANGED session
    /\ UNCHANGED <<client, network, state, running, shouldStop, ticker, ended, history>>

\* joinSession gives the session up when its connect fails.
GiveUp == <<Op("giveUp", Session), Op("disconnect", Game)>>

JoinSession ==
    /\ First("joinSession", Session)
    /\ IF session = "single"
       THEN session' = "joined" /\ todo' = <<Try("connect", Session, GiveUp)>>
       ELSE todo' = Head(todo).undo /\ UNCHANGED session
    /\ UNCHANGED <<client, network, state, running, shouldStop, ticker, ended, history>>

GiveSessionUp ==
    /\ First("giveUp", Session)
    /\ session' = "single"
    /\ todo' = Tail(todo)
    /\ UNCHANGED <<client, network, state, running, shouldStop, ticker, ended, history>>

\* NetworkManager::connect refuses, or the server cannot be reached.
ConnectFails(k) ==
    /\ First("connect", k)
    /\ todo' = Head(todo).undo
    /\ UNCHANGED <<client, network, state, session, running, shouldStop, ticker, ended, history>>

Connect(k) ==
    /\ First("connect", k)
    /\ state[k] = "disconnected"
    /\ Open(k)
    /\ state' = [state EXCEPT ![k] = "connected"]
    /\ ended' = IF MustEnd(k) THEN "terminate" ELSE "no"
    /\ todo' = <<Try("hello", k, Head(todo).undo)>> \o Tail(todo)
    /\ stale' = IF queue[k] # <<>> THEN stale \cup {k} ELSE stale \ {k}
    /\ UNCHANGED <<session, running, shouldStop, ticker, delivered>>

Hello(k) ==
    /\ First("hello", k)
    /\ connected[k]
    /\ greeted' = IF srv[conn[k]] = "open" THEN greeted \cup {conn[k]} ELSE greeted
    /\ todo' = Tail(todo)
    /\ UNCHANGED <<client, conns, srv, sent, received, pushed, ackAt, state, session,
                   running, shouldStop, ticker, ended, history>>

\* The receive thread has seen the end of the connection, or send finds it.
HelloFails(k) ==
    /\ First("hello", k)
    /\ srv[conn[k]] # "open"
    /\ todo' = <<Op("disconnect", k)>> \o Head(todo).undo
    /\ UNCHANGED <<client, network, state, session, running, shouldStop, ticker, ended, history>>

\* NetworkManager::disconnect; TCPClient::disconnect does nothing, not even the
\* join, if m_connected is false already.
Disconnect(k) ==
    /\ First("disconnect", k)
    /\ IF state[k] # "disconnected" /\ connected[k]
       THEN /\ Close(k)
            /\ todo' = <<Op("join", k)>> \o Tail(todo)
            /\ UNCHANGED state
       ELSE /\ state' = [state EXCEPT ![k] = "disconnected"]
            /\ todo' = Tail(todo)
            /\ UNCHANGED <<client, network>>
    /\ UNCHANGED <<session, running, shouldStop, ticker, ended, history>>

JoinThread(k) ==
    /\ First("join", k)
    /\ Join(k)
    /\ state' = [state EXCEPT ![k] = "disconnected"]
    /\ todo' = Tail(todo)
    /\ UNCHANGED <<session, running, shouldStop, ticker, ended, history>>

Leave ==
    /\ First("leave", Session)
    /\ session' = "single"
    /\ todo' = (IF session # "single" /\ IsConnected(Session)
                THEN <<Op("disconnect", Session)>> ELSE <<>>) \o Tail(todo)
    /\ UNCHANGED <<client, network, state, running, shouldStop, ticker, ended, history>>

\* EmbeddedServer::stop raises the flag before it joins (the slip does not).
FlagForgotten == shouldStop
FlagRaised == TRUE

StopServer ==
    /\ First("stopServer", Session)
    /\ IF running
       THEN shouldStop' = FlagRaised /\ todo' = <<Op("joinServer", Session)>> \o Tail(todo)
       ELSE todo' = Tail(todo) /\ UNCHANGED shouldStop
    /\ UNCHANGED <<client, network, state, session, running, ticker, ended, history>>

JoinServer ==
    /\ First("joinServer", Session)
    /\ ticker = "done"
    /\ ticker' = "none" /\ running' = FALSE
    /\ todo' = Tail(todo)
    /\ UNCHANGED <<client, network, state, session, shouldStop, ended, history>>

\* The destructors find a receive thread nobody has joined, or none.
Destroy ==
    /\ First("destroy", Game)
    /\ ended' = IF \E k \in Clients : MustEnd(k) THEN "terminate" ELSE "quit"
    /\ todo' = <<>>
    /\ UNCHANGED <<client, network, state, session, running, shouldStop, ticker, history>>

\* serverThread.
TickerEnds ==
    /\ ended = "no"
    /\ ticker = "ticks" /\ shouldStop
    /\ ticker' = "done"
    /\ UNCHANGED <<client, network, state, session, running, shouldStop, todo, ended, history>>

-----------------------------------------------------------------------------
(* The program.                                                            *)

AppCall == Host \/ JoinGame \/ Frame \/ Quit

AppStep ==
    \/ HostSession \/ JoinSession \/ GiveSessionUp \/ Leave \/ StopServer \/ JoinServer \/ Destroy
    \/ \E k \in Clients :
          \/ ConnectFails(k) \/ Connect(k) \/ Hello(k) \/ HelloFails(k)
          \/ Disconnect(k) \/ JoinThread(k)

Receiver(k) == ended = "no" /\ Receive(k) /\ UNCHANGED <<app, history>>

RemoteServer == ended = "no" /\ Server /\ UNCHANGED <<app, history>>

Next == AppCall \/ AppStep \/ TickerEnds \/ (\E k \in Clients : Receiver(k)) \/ RemoteServer

Spec == Init /\ [][Next]_vars

\* The threads of the program are scheduled.
FairSpec ==
    /\ Spec
    /\ WF_vars(AppStep) /\ WF_vars(TickerEnds)
    /\ \A k \in Clients : WF_vars(Receiver(k))

-----------------------------------------------------------------------------
(* Properties.                                                             *)

\* The lines a client has been handed, and those that wait, are those of its
\* connections in the order they were sent, none missing and none twice,
\* although one thread reads them and another hands them on.
LinesInOrder ==
    \A k \in Clients :
        LET lines == delivered[k] \o queue[k]
            Before(i) == {j \in 1 .. i - 1 : lines[j][1] = lines[i][1]} IN
        \A i \in DOMAIN lines :
            /\ lines[i][2] = Cardinality(Before(i)) + 1
            /\ i > 1 => lines[i - 1][1] <= lines[i][1]

\* A client is authenticated by the server it is connected to, unless the lines
\* of an earlier connection were still in its queue when it connected.
FreshAuth ==
    \A k \in Clients :
        state[k] = "authenticated" /\ k \notin stale
            => \E i \in DOMAIN delivered[k] :
                   delivered[k][i][1] = conn[k] /\ delivered[k][i][2] = ackAt[conn[k]]

\* Between two calls the session says what is up: hosting is the embedded server
\* and a client of it, joining is both clients, and otherwise there is nothing,
\* however the calls before have failed.
SessionWhole ==
    Idle => /\ session = "hosted" <=> running
            /\ running <=> ticker = "ticks"
            /\ session = "single" => \A k \in Clients : ~IsConnected(k)
            /\ session = "hosted" => IsConnected(Game) /\ ~IsConnected(Session)
            /\ session = "joined" => \A k \in Clients : IsConnected(k)
            /\ \A k \in Clients : connected[k] => IsConnected(k) /\ thread[k] \in Alive

\* std::terminate ends the program only if a server has ended a connection: a
\* disconnect by the program itself joins its thread.
TerminatedByLossOnly ==
    ended = "terminate" => \E c \in Conns : Lost(c)

\* A call returns.
CallReturns == (todo # <<>>) ~> (todo = <<>> \/ ended # "no")

\* A client does not go on for ever believing in a connection that the server has
\* closed or reset, although the thread takes the reset itself for no news: the end
\* of the stream that follows it is noticed.
EndIsNoticed ==
    []<>(ended # "no" \/ \A k \in Clients : connected[k] => ~Lost(conn[k]))

-----------------------------------------------------------------------------
(* What the repository says of the client and the code does not do.        *)

\* "Close socket before joining thread (already implemented)": the program does
\* not end in std::terminate.
NeverTerminated == ended # "terminate"
=============================================================================
