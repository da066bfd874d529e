------------------------------ MODULE Sockets ------------------------------
(***************************************************************************)
(* The synchronous side of cf_network: a server process that accepts       *)
(* connections (CreateServerSocket, AcceptAsync) and sends on each Socket  *)
(* with SendSegmentSync, and a client process that has connected           *)
(* (ConnectToServer) and receives with RecvSegmentSync.  Both repeat a     *)
(* call that returned false with what is left of the buffer.               *)
(*                                                                         *)
(* The server may have MaxFd descriptors open, and its other threads open  *)
(* and close files, too: AcceptAsync keeps a spare descriptor, nullfd, to  *)
(* give up when accept fails for want of one.                              *)
(*                                                                         *)
(* Time is what the callers can see of it.  The time a piece took is       *)
(* computed from seconds*1000 + useconds%1000, which can go backwards, so  *)
(* what is left of the timeout after a piece is any number.                *)
(***************************************************************************)
EXTENDS Naturals, Sequences, FiniteSetsExt

CONSTANTS Sum,       \* how many connections the client makes
          Talking,   \* those on which something is sent; the others only use descriptors
          Total,     \* bytes the server sends on each
          Capacity,  \* bytes a connection holds
          SegSize,   \* the values of segsize; 0 for "no limit"
          MaxFd,     \* descriptors the server may have open, the listener excepted
          MaxOther   \* bound: how many of them its other threads use

ASSUME SocketsAssumption == /\ Sum \in Nat /\ Talking \subseteq 1 .. Sum /\ Total \in Nat /\ Capacity \in Nat \ {0}
                            /\ SegSize \subseteq Nat /\ MaxFd \in Nat /\ MaxOther \in 0 .. MaxFd

Conn == 1 .. Sum

VARIABLES blocking,   \* whether SetBlocking left the sockets blocking
          segsize,    \* the segsize of the callers
          listening,  \* the listening socket is there
          connects,   \* ConnectToServer: how many connections are made, or has thrown
          link,       \* each connection: none, pending, accepted, held or dropped
          socket,     \* the server's Socket object: none, open, shut or closed
          open,       \* the client's end is open
          wire,       \* the bytes under way, by their place in the server's buffer
          got,        \* the bytes the client received
          nullfd,     \* open (/dev/null), client (in its place), closed or -1; unset at
                      \* first, missing if the first open failed
          others,     \* descriptors the other threads use
          acceptor,   \* where AcceptAsync is
          gaveUp,     \* AcceptAsync has thrown
          send, recv  \* the state of SendSegmentSync and RecvSegmentSync on each

acceptVars == <<nullfd, acceptor, gaveUp>>
clientVars == <<connects, open>>
modes == <<blocking, segsize>>
socketsVars == <<modes, listening, clientVars, link, socket, wire, got, others, acceptVars, send, recv>>

\* A transfer: where its call is, the place in the buffer at which the call began,
\* hasDone, what the running write has written and has still to write, whether
\* waiting is limited, and how the latest call ended.
NoTransfer == [pc |-> "out", start |-> 0, hasDone |-> 0, part |-> 0, left |-> 0,
               limited |-> TRUE, told |-> "none"]

SocketsInit ==
    /\ blocking \in BOOLEAN /\ segsize \in SegSize
    /\ listening = FALSE /\ connects = 0
    /\ link = [c \in Conn |-> "none"]
    /\ socket = [c \in Conn |-> "none"]
    /\ open = [c \in Conn |-> FALSE]
    /\ wire = [c \in Conn |-> <<>>]
    /\ got = [c \in Conn |-> <<>>]
    /\ nullfd = "unset" /\ others \in 0 .. MaxOther
    /\ acceptor = "idle" /\ gaveUp = FALSE
    /\ send = [c \in Conn |-> NoTransfer]
    /\ recv = [c \in Conn |-> NoTransfer]

------------------------------------------------------------------------------
(* Connections. *)

Used == others + Cardinality({c \in Conn : socket[c] \in {"open", "shut"}})
        + (IF nullfd \in {"open", "client"} THEN 1 ELSE 0)

HasFree == Used < MaxFd

\* CreateServerSocket: socket, setsockopt, bind, listen.  One that fails closes
\* what it opened and throws; the caller tries again.
CreateServerSocket ==
    /\ ~listening
    /\ listening' \in BOOLEAN
    /\ UNCHANGED <<modes, clientVars, link, socket, wire, got, others, acceptVars, send, recv>>

\* ConnectToServer, one turn of its loop.  If connect fails it throws: the
\* connections made before are in clientfds, the new socket is never closed.
ConnectToServer ==
    /\ connects < Sum
    /\ \/ /\ listening
          /\ connects' = connects + 1
          /\ link' = [link EXCEPT ![connects'] = "pending"]
          /\ open' = [open EXCEPT ![connects'] = TRUE]
       \/ /\ connects' = Sum + 1
          /\ UNCHANGED <<link, open>>
    /\ UNCHANGED <<modes, listening, socket, wire, got, others, acceptVars, send, recv>>

Pending == {c \in Conn : link[c] = "pending"}

\* The backlog is served in order.
NextPending == Min(Pending)

------------------------------------------------------------------------------
(* AcceptAsync. *)

acceptUnchanged == <<modes, listening, clientVars, wire, got, others, send, recv>>

\* It is called when the listener is readable.  The first call opens nullfd, and
\* does not look whether it could.
CallAccept ==
    /\ acceptor = "idle" /\ listening /\ Pending # {}
    /\ acceptor' = "accept"
    /\ nullfd' = IF nullfd # "unset" THEN nullfd ELSE IF HasFree THEN "open" ELSE "missing"
    /\ UNCHANGED <<acceptUnchanged, link, socket, gaveUp>>

Accept ==
    /\ acceptor = "accept" /\ HasFree /\ Pending # {}
    /\ link' = [link EXCEPT ![NextPending] = "accepted"]
    /\ socket' = [socket EXCEPT ![NextPending] = "open"]
    /\ UNCHANGED <<acceptUnchanged, acceptVars>>

\* EAGAIN: the backlog is empty.
NothingToAccept ==
    /\ acceptor = "accept" /\ HasFree /\ Pending = {}
    /\ acceptor' = "idle"
    /\ UNCHANGED <<acceptUnchanged, link, socket, nullfd, gaveUp>>

\* Seeded fault: the client stays in the backlog.
NoDescriptorReturns ==
    /\ acceptor = "accept" /\ ~HasFree
    /\ acceptor' = "idle"
    /\ UNCHANGED <<acceptUnchanged, link, socket, nullfd, gaveUp>>

\* EMFILE, be the backlog empty or not: nullfd is closed.
NoDescriptor ==
    /\ acceptor = "accept" /\ ~HasFree
    /\ acceptor' = "spare"
    /\ nullfd' = "closed"
    /\ UNCHANGED <<acceptUnchanged, link, socket, gaveUp>>

Throw == acceptor' = "idle" /\ gaveUp' = TRUE

\* The client is accepted in the place of nullfd; if there is none, the loop ends
\* once nullfd is open again.  Another thread may have taken the place.
SpareAccept ==
    /\ acceptor = "spare"
    /\ \/ /\ HasFree /\ Pending # {}
          /\ link' = [link EXCEPT ![NextPending] = "held"]
          /\ nullfd' = "client" /\ acceptor' = "holding" /\ UNCHANGED gaveUp
       \/ /\ HasFree /\ Pending = {}
          /\ acceptor' = "reopen_break" /\ UNCHANGED <<link, nullfd, gaveUp>>
       \/ ~HasFree /\ Throw /\ UNCHANGED <<link, nullfd>>
    /\ UNCHANGED <<acceptUnchanged, socket>>

\* cf_close(nullfd): the client sees the end of its connection.
CloseSpare ==
    /\ acceptor = "holding"
    /\ nullfd' = "closed"
    /\ link' = [c \in Conn |-> IF link[c] = "held" THEN "dropped" ELSE link[c]]
    /\ acceptor' = "reopen"
    /\ UNCHANGED <<acceptUnchanged, socket, gaveUp>>

Reopen ==
    /\ acceptor \in {"reopen", "reopen_break"}
    /\ \/ /\ HasFree
          /\ nullfd' = "open" /\ UNCHANGED gaveUp
          /\ acceptor' = IF acceptor = "reopen" THEN "accept" ELSE "idle"
       \/ ~HasFree /\ Throw /\ UNCHANGED nullfd
    /\ UNCHANGED <<acceptUnchanged, link, socket>>

\* The other threads of the server open and close files.
Others ==
    /\ \/ others < MaxOther /\ HasFree /\ others' = others + 1
       \/ others > 0 /\ others' = others - 1
    /\ UNCHANGED <<modes, listening, clientVars, link, socket, wire, got, acceptVars, send, recv>>

------------------------------------------------------------------------------
(* SendSegmentSync.  In `tr` goes the state of a transfer. *)

sendUnchanged == <<modes, listening, connects, link, others, acceptVars>>

\* The caller begins with what is left of the buffer; with nothing left the call
\* returns true at once.  hasDone was set to 0 by the caller.
Call(tr, limited) ==
    LET start == tr.start + tr.hasDone
    IN [tr EXCEPT !.start = start, !.hasDone = 0, !.limited = limited \/ start = Total,
                  !.pc = IF start = Total THEN "out" ELSE "wait",
                  !.told = IF start = Total THEN "true" ELSE "none"]

\* A call may begin, or be made again, unless the last one ended the transfer.
MayCall(tr) == tr.pc = "out" /\ tr.told \in {"none", "false"}

\* poll says ready: the piece is segsize bytes, or the rest.
Ready(tr) ==
    LET rest == Total - tr.start - tr.hasDone
    IN [tr EXCEPT !.pc = "move", !.part = 0,
                  !.left = IF segsize > 0 /\ segsize < rest THEN segsize ELSE rest]

Finished(tr, told) == [tr EXCEPT !.pc = "out", !.told = told, !.part = 0, !.left = 0, !.limited = TRUE]

\* Seeded fault: a piece after which the time is up is not counted.
AfterPieceUncounted(tr, k) ==
    LET next == [tr EXCEPT !.hasDone = @ + k, !.limited = TRUE, !.pc = "wait", !.part = 0, !.left = 0]
    IN {Finished(tr, "false"),
        IF next.start + next.hasDone = Total THEN Finished(next, "true") ELSE next}

\* write or read has moved k bytes: hasDone grows, and either the time is up, by
\* what was left of it and by the clock, or the loop goes on until all is done.
AfterPiece(tr, k) ==
    LET next == [tr EXCEPT !.hasDone = @ + k, !.limited = TRUE, !.pc = "wait", !.part = 0, !.left = 0]
    IN {Finished(next, "false"),
        IF next.start + next.hasDone = Total THEN Finished(next, "true") ELSE next}

SendCall(c) ==
    /\ socket[c] = "open" /\ MayCall(send[c])
    /\ \E limited \in BOOLEAN : send' = [send EXCEPT ![c] = Call(@, limited)]
    /\ UNCHANGED <<sendUnchanged, socket, open, wire, got, recv>>

\* OutputWait.
SendReady(c) ==
    /\ send[c].pc = "wait"
    /\ Len(wire[c]) < Capacity \/ ~open[c]
    /\ send' = [send EXCEPT ![c] = Ready(@)]
    /\ UNCHANGED <<sendUnchanged, socket, open, wire, got, recv>>

SendTimeout(c) ==
    /\ send[c].pc = "wait" /\ send[c].limited
    /\ Len(wire[c]) >= Capacity /\ open[c]
    /\ send' = [send EXCEPT ![c] = Finished(@, "false")]
    /\ UNCHANGED <<sendUnchanged, socket, open, wire, got, recv>>

\* A signal ends poll, and IOWaitting throws.
SendInterrupted(c) ==
    /\ send[c].pc = "wait"
    /\ send' = [send EXCEPT ![c] = Finished(@, "threw")]
    /\ UNCHANGED <<sendUnchanged, socket, open, wire, got, recv>>

\* Seeded fault: every piece is taken from where the call began.
WriteFromStart(c) ==
    /\ send[c].pc = "move" /\ open[c]
    /\ \E k \in 1 .. Min({send[c].left, Capacity - Len(wire[c])}) :
         LET tr == send[c]
         IN /\ wire' = [wire EXCEPT ![c] = @ \o [i \in 1 .. k |-> tr.start + i]]
            /\ \E next \in AfterPiece(tr, k) : send' = [send EXCEPT ![c] = next]
    /\ UNCHANGED <<sendUnchanged, socket, open, got, recv>>

\* write: on a blocking socket it stays until the whole piece is in.
Write(c) ==
    /\ send[c].pc = "move" /\ open[c]
    /\ \E k \in 1 .. Min({send[c].left, Capacity - Len(wire[c])}) :
         LET tr == send[c]
             at == tr.start + tr.hasDone + tr.part
         IN /\ wire' = [wire EXCEPT ![c] = @ \o [i \in 1 .. k |-> at + i]]
            /\ IF blocking /\ k < tr.left
               THEN send' = [send EXCEPT ![c].part = @ + k, ![c].left = @ - k]
               ELSE \E next \in AfterPiece(tr, tr.part + k) : send' = [send EXCEPT ![c] = next]
    /\ UNCHANGED <<sendUnchanged, socket, open, got, recv>>

\* On a non-blocking socket that has filled up, or one whose peer has gone, write
\* fails (with SIGPIPE ignored) unless it has written something.
WriteFails(c) ==
    /\ send[c].pc = "move"
    /\ ~open[c] \/ (~blocking /\ Len(wire[c]) >= Capacity)
    /\ IF send[c].part > 0
       THEN \E next \in AfterPiece(send[c], send[c].part) : send' = [send EXCEPT ![c] = next]
       ELSE send' = [send EXCEPT ![c] = Finished(@, "threw")]
    /\ UNCHANGED <<sendUnchanged, socket, open, wire, got, recv>>

\* Socket::Shutdown, once; later calls return at once.
Shutdown(c) ==
    /\ socket[c] = "open" /\ send[c].pc = "out"
    /\ socket' = [socket EXCEPT ![c] = "shut"]
    /\ UNCHANGED <<sendUnchanged, open, wire, got, send, recv>>

\* ~Socket.
DestroySocket(c) ==
    /\ socket[c] \in {"open", "shut"} /\ send[c].pc = "out"
    /\ socket' = [socket EXCEPT ![c] = "closed"]
    /\ UNCHANGED <<sendUnchanged, open, wire, got, send, recv>>

------------------------------------------------------------------------------
(* RecvSegmentSync, at the client. *)

\* The server has ended the connection.
Ended(c) == socket[c] \in {"shut", "closed"} \/ link[c] = "dropped"

RecvCall(c) ==
    /\ open[c] /\ MayCall(recv[c])
    /\ \E limited \in BOOLEAN : recv' = [recv EXCEPT ![c] = Call(@, limited)]
    /\ UNCHANGED <<sendUnchanged, socket, open, wire, got, send>>

\* InputWait.
RecvReady(c) ==
    /\ recv[c].pc = "wait"
    /\ wire[c] # <<>> \/ Ended(c)
    /\ recv' = [recv EXCEPT ![c] = Ready(@)]
    /\ UNCHANGED <<sendUnchanged, socket, open, wire, got, send>>

RecvTimeout(c) ==
    /\ recv[c].pc = "wait" /\ recv[c].limited
    /\ wire[c] = <<>> /\ ~Ended(c)
    /\ recv' = [recv EXCEPT ![c] = Finished(@, "false")]
    /\ UNCHANGED <<sendUnchanged, socket, open, wire, got, send>>

RecvInterrupted(c) ==
    /\ recv[c].pc = "wait"
    /\ recv' = [recv EXCEPT ![c] = Finished(@, "threw")]
    /\ UNCHANGED <<sendUnchanged, socket, open, wire, got, send>>

Read(c) ==
    /\ recv[c].pc = "move" /\ wire[c] # <<>>
    /\ \E k \in 1 .. Min({recv[c].left, Len(wire[c])}) :
         /\ got' = [got EXCEPT ![c] = @ \o SubSeq(wire[c], 1, k)]
         /\ wire' = [wire EXCEPT ![c] = SubSeq(@, k + 1, Len(@))]
         /\ \E next \in AfterPiece(recv[c], k) : recv' = [recv EXCEPT ![c] = next]
    /\ UNCHANGED <<sendUnchanged, socket, open, send>>

\* Seeded fault: the end of the stream is taken for a piece of length 0.
ReadEndLoops(c) ==
    /\ recv[c].pc = "move" /\ wire[c] = <<>>
    /\ recv' = [recv EXCEPT ![c].pc = "wait"]
    /\ UNCHANGED <<sendUnchanged, socket, open, wire, got, send>>

\* read returns 0: peerClosedWhenRead, and true.
ReadEnd(c) ==
    /\ recv[c].pc = "move" /\ wire[c] = <<>>
    /\ recv' = [recv EXCEPT ![c] = Finished(@, "peerClosed")]
    /\ UNCHANGED <<sendUnchanged, socket, open, wire, got, send>>

\* The client closes its end; what is under way is lost.
CloseClient(c) ==
    /\ open[c] /\ recv[c].pc = "out"
    /\ open' = [open EXCEPT ![c] = FALSE]
    /\ wire' = [wire EXCEPT ![c] = <<>>]
    /\ UNCHANGED <<sendUnchanged, socket, got, send, recv>>

------------------------------------------------------------------------------

AcceptStep == \/ CallAccept \/ Accept \/ NothingToAccept \/ NoDescriptor
              \/ SpareAccept \/ CloseSpare \/ Reopen
SendStep(c) == SendReady(c) \/ SendTimeout(c) \/ Write(c) \/ WriteFails(c)
RecvStep(c) == RecvReady(c) \/ RecvTimeout(c) \/ Read(c) \/ ReadEnd(c)

SocketsNext ==
    \/ CreateServerSocket \/ ConnectToServer \/ AcceptStep \/ Others
    \/ \E c \in Talking : \/ SendStep(c) \/ SendCall(c) \/ SendInterrupted(c)
                         \/ RecvStep(c) \/ RecvCall(c) \/ RecvInterrupted(c)
    \/ \E c \in Conn : Shutdown(c) \/ DestroySocket(c) \/ CloseClient(c)

SocketsSpec == SocketsInit /\ [][SocketsNext]_socketsVars

\* Calls that have begun go on, and the listener's readiness is level-triggered.
FairSpec == /\ SocketsSpec /\ WF_socketsVars(AcceptStep)
            /\ \A c \in Talking : WF_socketsVars(SendStep(c)) /\ WF_socketsVars(RecvStep(c))

------------------------------------------------------------------------------
(* Properties. *)

Transfer == [pc : {"out", "wait", "move"}, start : 0 .. Total, hasDone : 0 .. Total,
             part : 0 .. Total, left : 0 .. Total, limited : BOOLEAN,
             told : {"none", "true", "false", "threw", "peerClosed"}]

\* What was received, and what is under way behind it, are the first bytes of the
\* buffer in their order, over any number of timeouts and repeated calls.
StreamInOrder == \A c \in Conn : LET s == got[c] \o wire[c] IN \A i \in 1 .. Len(s) : s[i] = i

\* However a call ends, hasDone tells what it moved.
HasDoneIsTrue ==
    \A c \in Conn :
        /\ recv[c].pc = "out" => recv[c].start + recv[c].hasDone = Len(got[c])
        /\ open[c] /\ send[c].pc = "out" =>
               send[c].start + send[c].hasDone = Len(got[c]) + Len(wire[c])

\* A call that returns true has moved the whole buffer, and one that reports the
\* peer's close has received all that the peer sent.
TrueMeansAll ==
    \A c \in Conn :
        /\ send[c].told = "true" => send[c].start + send[c].hasDone = Total
        /\ recv[c].told = "true" => Len(got[c]) = Total
        /\ recv[c].told = "peerClosed" =>
               link[c] = "dropped" \/ Len(got[c]) = send[c].start + send[c].hasDone

\* Between calls of AcceptAsync its spare descriptor is there, whatever the other
\* threads did meanwhile: unless it threw, or there was none to be had at first.
ReserveKept ==
    acceptor = "idle" /\ ~gaveUp => nullfd \in {"unset", "open", "missing"}

\* What calls tell is true, however pieces, timeouts and closes fall, and the
\* descriptors in use are those that somebody has.
SocketsOK ==
    /\ send \in [Conn -> Transfer] /\ recv \in [Conn -> Transfer]
    /\ Used <= MaxFd
    /\ \A c \in Conn : Len(wire[c]) <= Capacity
    /\ \A c \in Conn : link[c] = "accepted" <=> socket[c] # "none"
    /\ HasDoneIsTrue /\ TrueMeansAll /\ ReserveKept

\* Every connection is accepted or closed, also when there is no descriptor left,
\* unless AcceptAsync has thrown.
NobodyKeptWaiting == \A c \in Conn : link[c] \in {"pending", "held"} ~> link[c] \in {"accepted", "dropped"} \/ gaveUp

\* A call with a timeout ends, whatever the other side does, if the socket does
\* not block in write.
CallsEnd ==
    \A c \in Conn :
        /\ send[c].pc # "out" /\ send[c].limited /\ ~blocking ~> send[c].pc = "out"
        /\ recv[c].pc # "out" /\ recv[c].limited ~> recv[c].pc = "out"
=============================================================================
