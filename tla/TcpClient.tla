------------------------------ MODULE TcpClient ------------------------------
(***************************************************************************)
(* The game client's TCPClient: a socket, a receive thread that fills a    *)
(* queue of lines, and the server at the other end.                        *)
(*                                                                         *)
(* The program has several clients; a connection is named by its number.   *)
(* The lines of a connection are numbered as the server sends them, and    *)
(* one of them is the server's connect_ack.  The calls of the application  *)
(* are operators here, that GameSession puts in its actions.               *)
(***************************************************************************)
EXTENDS Naturals, Sequences, FiniteSets, Functions

CONSTANTS Clients,
          MaxConns,   \* bound on the connections made
          MaxLines    \* bound on the lines of all connections

ASSUME TcpBounds == MaxConns \in Nat /\ MaxLines \in Nat

VARIABLES connected,   \* m_connected
          open,        \* m_socket is an open socket
          thread,      \* where the receive thread is; "done" until it is joined
          queue,       \* m_messageQueue, of <<connection, line>>
          conn,        \* the connection last made, 0 for none
          conns,       \* connections made
          srv,         \* the server's end of a connection; "reset" until the
                       \* client's socket has reported it
          greeted,     \* connections on which the CONNECT message arrived
          sent, received, pushed,   \* lines sent, read from the socket, queued
          ackAt        \* number of the line that is the connect_ack, 0 for none

client  == <<connected, open, thread, queue, conn>>
network == <<conns, srv, greeted, sent, received, pushed, ackAt>>

Conns == 1 .. MaxConns
Alive == {"recv", "push"}

TcpTypeOK ==
    /\ connected \in [Clients -> BOOLEAN] /\ open \in [Clients -> BOOLEAN]
    /\ thread \in [Clients -> {"none", "done"} \cup Alive]
    /\ queue \in [Clients -> Seq(Conns \X (1 .. MaxLines))]
    /\ conn \in [Clients -> 0 .. MaxConns]
    /\ conns \in 0 .. MaxConns
    /\ srv \in [Conns -> {"none", "open", "left", "reset", "closed"}]
    /\ greeted \subseteq Conns
    /\ \A c \in Conns : 0 <= pushed[c] /\ pushed[c] <= received[c] /\ received[c] <= sent[c]
    /\ sent \in [Conns -> 0 .. MaxLines] /\ ackAt \in [Conns -> 0 .. MaxLines]

TcpInit ==
    /\ connected = [k \in Clients |-> FALSE]
    /\ open = [k \in Clients |-> FALSE]
    /\ thread = [k \in Clients |-> "none"]
    /\ queue = [k \in Clients |-> <<>>]
    /\ conn = [k \in Clients |-> 0]
    /\ conns = 0
    /\ srv = [c \in Conns |-> "none"]
    /\ greeted = {}
    /\ sent = [c \in Conns |-> 0]
    /\ received = [c \in Conns |-> 0]
    /\ pushed = [c \in Conns |-> 0]
    /\ ackAt = [c \in Conns |-> 0]

-----------------------------------------------------------------------------
(* Calls of the application's thread.                                      *)

\* connect, as far as the new thread: the unique_ptr is assigned, and a thread
\* object that was never joined is destroyed with it, which ends the program.
MustEnd(k) == thread[k] # "none"

Open(k) ==
    /\ conns < MaxConns
    /\ conns' = conns + 1
    /\ conn' = [conn EXCEPT ![k] = conns + 1]
    /\ srv' = [srv EXCEPT ![conns + 1] = "open"]
    /\ open' = [open EXCEPT ![k] = TRUE]
    /\ connected' = [connected EXCEPT ![k] = TRUE]
    /\ thread' = [thread EXCEPT ![k] = "recv"]
    /\ UNCHANGED <<queue, greeted, sent, received, pushed, ackAt>>

\* disconnect, when m_connected, as far as the join.  A reset that nobody has
\* received goes with the socket.
Close(k) ==
    /\ connected' = [connected EXCEPT ![k] = FALSE]
    /\ open' = [open EXCEPT ![k] = FALSE]
    /\ srv' = [srv EXCEPT ![conn[k]] = IF @ = "open" THEN "left" ELSE "closed"]
    /\ UNCHANGED <<thread, queue, conn, conns, greeted, sent, received, pushed, ackAt>>

\* The join in disconnect, and the reset of the unique_ptr (the slip leaves the
\* thread object as it is).
LeftJoinable(k) == thread
Joined(k) == [thread EXCEPT ![k] = "none"]

Join(k) ==
    /\ thread[k] = "done"
    /\ thread' = Joined(k)
    /\ UNCHANGED <<connected, open, queue, conn, network>>

-----------------------------------------------------------------------------
(* receiveThread.                                                          *)

At(k, pc) == thread[k] = pc
Goto(k, pc) == thread' = [thread EXCEPT ![k] = pc]

\* Lines have come.
RecvLines(k) ==
    LET c == conn[k] IN
    /\ At(k, "recv")
    /\ connected[k] /\ open[k]
    /\ \E n \in received[c] + 1 .. sent[c] : received' = [received EXCEPT ![c] = n]
    /\ Goto(k, "push")
    /\ UNCHANGED <<connected, open, queue, conn, conns, srv, greeted, sent, pushed, ackAt>>

\* The flag is lowered and the loop left (the slip takes every end for EAGAIN, and
\* goes round the loop).
EndIgnored(k) == UNCHANGED <<thread, connected>>
EndNoticed(k) == Goto(k, "done") /\ connected' = [connected EXCEPT ![k] = FALSE]

\* The server has reset the connection.  ECONNRESET is left out of the errors that
\* end the thread, like EAGAIN: it goes round the loop, and, as the socket reports
\* the error once, the next recv gives 0.
RecvReset(k) ==
    /\ At(k, "recv")
    /\ connected[k] /\ open[k]
    /\ srv[conn[k]] = "reset"
    /\ srv' = [srv EXCEPT ![conn[k]] = "closed"]
    /\ UNCHANGED <<client, conns, greeted, sent, received, pushed, ackAt>>

\* recv gives 0, for the server is gone (a reset may have taken lines with it), or
\* fails with EBADF, for disconnect has closed the socket.
RecvEnds(k) ==
    /\ At(k, "recv")
    /\ connected[k]
    /\ ~open[k] \/ srv[conn[k]] = "closed"
    /\ EndNoticed(k)
    /\ UNCHANGED <<open, queue, conn, network>>

\* The loop test after disconnect has lowered the flag.
LoopEnds(k) ==
    /\ At(k, "recv")
    /\ ~connected[k]
    /\ Goto(k, "done")
    /\ UNCHANGED <<connected, open, queue, conn, network>>

\* A line is queued, under the lock, behind those already there (the slip puts it
\* before them).
InFront(q, line) == <<line>> \o q
Behind(q, line) == Append(q, line)

\* The number of the line queued next (the slip is off by one).
LastLine(c) == pushed[c]
NextLine(c) == pushed[c] + 1

Push(k) ==
    LET c == conn[k] IN
    /\ At(k, "push")
    /\ queue' = [queue EXCEPT ![k] = Behind(@, <<c, NextLine(c)>>)]
    /\ pushed' = [pushed EXCEPT ![c] = @ + 1]
    /\ Goto(k, IF pushed[c] + 1 = received[c] THEN "recv" ELSE "push")
    /\ UNCHANGED <<connected, open, conn, conns, srv, greeted, sent, received, ackAt>>

Receive(k) == RecvLines(k) \/ RecvReset(k) \/ RecvEnds(k) \/ LoopEnds(k) \/ Push(k)

-----------------------------------------------------------------------------
(* The server: it answers once it was greeted, and may close the           *)
(* connection or reset it at any time.                                     *)

Lost(c) == srv[c] \in {"reset", "closed"}

LinesSent == FoldFunction(+, 0, sent)

ServerSends(c) ==
    /\ srv[c] = "open" /\ c \in greeted
    /\ LinesSent < MaxLines
    /\ sent' = [sent EXCEPT ![c] = @ + 1]
    /\ \/ UNCHANGED ackAt
       \/ ackAt[c] = 0 /\ ackAt' = [ackAt EXCEPT ![c] = sent[c] + 1]
    /\ UNCHANGED <<client, conns, srv, greeted, received, pushed>>

ServerEnds(c) ==
    /\ srv[c] = "open"
    /\ \E how \in {"reset", "closed"} : srv' = [srv EXCEPT ![c] = how]
    /\ UNCHANGED <<client, conns, greeted, sent, received, pushed, ackAt>>

Server == \E c \in Conns : ServerSends(c) \/ ServerEnds(c)
=============================================================================
