----------------------------- MODULE EventServer -----------------------------
(***************************************************************************)
(* The network server: class EventHandler of cl_event_handler.cpp with the *)
(* buffers of cl_buffer, driven by the loop of cf_event_loop.hpp over the  *)
(* demultiplexer (Demux).                                                  *)
(*                                                                         *)
(* One thread runs the loop.  It takes a batch of events and calls a       *)
(* handler for each; a handler calls the application's callbacks, and in   *)
(* these the application calls AsyncRead, AsyncWrite and AsyncClose, which *)
(* change what the rest of the handler and of the batch finds.  `stack'    *)
(* holds the handlers that are waiting for a callback to return, the       *)
(* innermost last.  Meanwhile peers connect, send, finish and reset.       *)
(*                                                                         *)
(* Connections are numbered in the order they are made and bytes of a      *)
(* connection in the order they are sent, so that order can be seen.  An   *)
(* exception that leaves a handler leaves the loop: nobody catches it.     *)
(***************************************************************************)
EXTENDS Demux, FiniteSetsExt, SequencesExt

CONSTANTS Listener,     \* the descriptors listened on
          Fd,           \* the descriptors of accepted sockets
          MaxConns,     \* maxconns of each listener, 0 for no limit
          CounterMod,   \* currentconns counts modulo this, 2^32 in the code
          PoolSize,     \* buffers each pool starts with
          MaxEvents,    \* size of a batch
          ReadSize,     \* sizes the application reads
          WriteSize,    \* sizes the application writes
          MaxMade,      \* bound: connections made
          MaxSent,      \* bound: bytes the peers send
          MaxCalls,     \* bound: calls of the application
          MaxReset      \* bound: connections reset by their peers

Conn == 1 .. MaxMade

ASSUME ServerAssumption ==
    /\ IsFiniteSet(Listener) /\ IsFiniteSet(Fd) /\ Fd \subseteq Nat \ {0} /\ Listener \cap Fd = {}
    /\ MaxConns \in [Listener -> Nat]
    /\ CounterMod \in Nat /\ PoolSize \in Nat /\ MaxEvents \in Nat \ {0}
    /\ MaxMade \in Nat /\ MaxMade <= Cardinality(Fd) /\ MaxMade < CounterMod
    /\ ReadSize \subseteq Nat /\ WriteSize \subseteq Nat
    /\ MaxSent \in Nat /\ MaxCalls \in Nat /\ MaxReset \in Nat

VARIABLES clients,   \* _clientfd_clientinfo: what is known of each open session
          conns,     \* currentconns of each listener
          interest,  \* what the demultiplexer is registered for, see Demux
          rbPool,    \* _rbpool: the free buffers, and how many there are
          wbPool,    \* _wbpool
          events,    \* what is left of _vecEvent
          stack,     \* the handlers that called a callback
          loop,      \* "run", "stopped", "interrupted" when a signal ended its wait, or
                     \* "threw" when another exception left it
          stop,      \* _stop
          calls,     \* how many calls the application has made
          backlog,   \* connections made and not yet accepted, per listener
          made,      \* how many connections were made
          peer       \* each connection as its peer and the history see it

serverVars == <<clients, conns, interest, rbPool, wbPool>>
loopVars == <<events, stack, loop, stop, calls>>
vars == <<serverVars, loopVars, backlog, made, peer>>

Pool == [free |-> 1 .. PoolSize, all |-> PoolSize]

(* sent and taken count bytes the peer sent and the server received; what was  *)
(* handed to OnReadComplete is delivered.  queued counts bytes passed to       *)
(* AsyncWrite; what send accepted of them is the wire.                         *)
NewPeer == [sent |-> 0, taken |-> 0, delivered |-> << >>, queued |-> 0, wire |-> << >>,
            fin |-> FALSE, rst |-> FALSE]

\* EventHandler::Init: currentconns of each ListenInfo.
ListenInfo == [l \in Listener |-> 0]

Init ==
    /\ clients = << >>
    /\ conns = ListenInfo
    /\ interest = Watched(Listener \cup Fd, Listener)
    /\ rbPool = Pool /\ wbPool = Pool
    /\ events = << >> /\ stack = << >>
    /\ loop = "run" /\ stop = FALSE /\ calls = 0
    /\ backlog = [l \in Listener |-> << >>]
    /\ made = 0
    /\ peer = [c \in Conn |-> NewPeer]

------------------------------------------------------------------------------
(* Sessions, frames and buffers. *)

Live == DOMAIN clients

\* An exception leaves the loop; nobody looks at the rest of the state any more.
Throw == loop' = "threw" /\ UNCHANGED <<serverVars, events, stack, stop, calls, backlog, made, peer>>

Frame(kind, fd, conn, listen, rest) ==
    [kind |-> kind, fd |-> fd, conn |-> conn, listen |-> listen, rest |-> rest]

Push(frame) == stack' = Append(stack, frame)
Pop == stack' = Front(stack)
Top == Last(stack)

\* GetFromPool: a free buffer, or a new one.
Taken(pool) == IF pool.free = {} THEN pool.all + 1 ELSE Min(pool.free)

\* Seeded fault: the front is taken and not popped.
GetFromPoolKept(pool) == [pool EXCEPT !.all = IF pool.free = {} THEN @ + 1 ELSE @]

GetFromPool(pool) == [free |-> pool.free \ {Taken(pool)},
                      all |-> IF pool.free = {} THEN pool.all + 1 ELSE pool.all]

PutIntoPool(pool, ids) == [pool EXCEPT !.free = @ \cup ids]

Ids(chain) == {chain[i].id : i \in DOMAIN chain}

\* The data of a chain of buffers, in order.
Bytes(chain) == FlattenSeq([i \in DOMAIN chain |-> chain[i].data])

From(first, n) == [i \in 1 .. n |-> first + i - 1]

\* Clear and SetTotal or SetBuffer of a buffer from the pool: to fill with n
\* bytes, or filled with the n bytes from first on.
GetReadBuffer(n) == [id |-> Taken(rbPool), total |-> n, data |-> << >>]

SetBuffer(id, first, n) == [id |-> id, total |-> n, data |-> From(first, n)]

GetWriteBuffer(first, n) == SetBuffer(Taken(wbPool), first, n)

\* Bytes that fill the first i buffers of a chain, or empty them.
RoomTo(chain) ==
    LET room[i \in 0 .. Len(chain)] ==
          IF i = 0 THEN 0 ELSE room[i - 1] + (chain[i].total - Len(chain[i].data))
    IN  room

DataTo(chain) ==
    LET data[i \in 0 .. Len(chain)] == IF i = 0 THEN 0 ELSE data[i - 1] + Len(chain[i].data)
    IN  data

Smaller(m, n) == IF m < n THEN m ELSE n

------------------------------------------------------------------------------
(* The loop: cf_event_loop.hpp. *)

\* What epoll_wait reports of a session; whether the socket takes bytes is the
\* kernel's affair.
Reported(fd, writable) ==
    LET p == peer[clients[fd].conn]
    IN  {e \in {"in"} : e \in interest[fd] /\ (p.sent > p.taken \/ p.fin)}
        \cup {e \in {"out"} : e \in interest[fd] /\ fd \in writable}
        \cup {e \in {"rdhup"} : interest[fd] # {} /\ p.fin}
        \cup {e \in {"err"} : interest[fd] # {} /\ p.rst}

Acceptable == {l \in Listener : interest[l] # {} /\ backlog[l] # << >>}

\* The events of one descriptor.
EventsOf(x, writable) ==
    LET evs == Classified(x \in Listener, IF x \in Listener THEN {} ELSE Reported(x, writable))
    IN  [i \in DOMAIN evs |-> [fd |-> x, ev |-> evs[i]]]

Idle == loop = "run" /\ stack = << >>

WaitEvent ==
    /\ Idle /\ events = << >> /\ ~stop
    /\ \E writable \in SUBSET {fd \in Live : "out" \in interest[fd]} :
         LET ready == Acceptable \cup {fd \in Live : Reported(fd, writable) # {}}
         IN  /\ ready # {}
             /\ \E batch \in Batches(ready, MaxEvents) :
                  events' = FlattenSeq([i \in DOMAIN batch |-> EventsOf(batch[i], writable)])
    /\ UNCHANGED <<serverVars, stack, loop, stop, calls, backlog, made, peer>>

\* The timeout passes without an event: OnTimeout.
OnTimeout ==
    /\ Idle /\ events = << >> /\ ~stop
    /\ Acceptable = {} /\ \A fd \in Live : Reported(fd, {}) = {}
    /\ Push(Frame("timeout", 0, 0, 0, << >>))
    /\ UNCHANGED <<serverVars, events, loop, stop, calls, backlog, made, peer>>

\* A signal ends epoll_wait: WaitEvent throws out of the loop.
Interrupt ==
    /\ Idle /\ events = << >> /\ ~stop
    /\ loop' = "interrupted"
    /\ UNCHANGED <<serverVars, events, stack, stop, calls, backlog, made, peer>>

LeaveLoop ==
    /\ Idle /\ events = << >> /\ stop
    /\ loop' = "stopped"
    /\ UNCHANGED <<serverVars, events, stack, stop, calls, backlog, made, peer>>

\*\* The next event of the batch is ev, for the descriptor NextFd.
NextIs(ev) == Idle /\ events # << >> /\ Head(events).ev = ev
NextFd == Head(events).fd

------------------------------------------------------------------------------
(* Accepting. *)

CheckMaxConnection(int, l, n, newConnCheck) ==
    IF MaxConns[l] > 0 /\ newConnCheck /\ n >= MaxConns[l] THEN DelConn(int, l)
    ELSE IF MaxConns[l] > 0 /\ ~newConnCheck /\ n < MaxConns[l] THEN AddConn(int, l, {"in"})
    ELSE int

\* AddNewConn up to its callback, for the first of the sockets accepted.
AddNewConn(below, l, sockets) ==
    LET s == sockets[1]
        new == [conn |-> s.conn, listen |-> l, rb |-> << >>, wb |-> << >>]
    IN  /\ clients' = [fd \in Live \cup {s.fd} |-> IF fd = s.fd THEN new ELSE clients[fd]]
        /\ interest' = AddConn(interest, s.fd, {})
        /\ stack' = Append(below, Frame("accept", s.fd, s.conn, l, Tail(sockets)))

\* The n lowest of some descriptors, in their order.
Lowest(fds, n) == {f \in [1 .. n -> fds] :
                       \A i \in 1 .. n : {x \in fds : x < f[i]} = {f[j] : j \in 1 .. i - 1}}

\* AcceptAsync takes every connection there is; each gets the lowest free descriptor.
OnAccept ==
    /\ NextIs("CFEV_ACCEPT")
    /\ LET l == NextFd
       IN  \/ /\ backlog[l] # << >>
              /\ \E free \in Lowest(Fd \ Live, Len(backlog[l])) :
                   AddNewConn(stack, l, [i \in DOMAIN backlog[l] |-> [fd |-> free[i], conn |-> backlog[l][i]]])
              /\ backlog' = [backlog EXCEPT ![l] = << >>]
           \/ /\ backlog[l] = << >>   \* somebody else accepted it
              /\ UNCHANGED <<clients, interest, stack, backlog>>
    /\ events' = Tail(events)
    /\ UNCHANGED <<conns, rbPool, wbPool, loop, stop, calls, made, peer>>

\* OnAcceptComplete returns; the limit is looked at after the last one.
AcceptReturns ==
    /\ loop = "run" /\ stack # << >> /\ Top.kind = "accept"
    /\ LET l == Top.listen
       IN  /\ conns' = [conns EXCEPT ![l] = (@ + 1) % CounterMod]
           /\ \/ /\ Top.rest # << >>
                 /\ AddNewConn(Front(stack), l, Top.rest)
              \/ /\ Top.rest = << >>
                 /\ interest' = CheckMaxConnection(interest, l, conns'[l], TRUE)
                 /\ Pop
                 /\ UNCHANGED clients
    /\ UNCHANGED <<rbPool, wbPool, events, loop, stop, calls, backlog, made, peer>>

------------------------------------------------------------------------------
(* Reading and writing. *)

\* Seeded fault: a later recv writes over what an earlier one brought.
ReceivedOver(chain, first, n) ==
    LET room == RoomTo(chain)
        into(i) == Smaller(n - Smaller(n, room[i - 1]), room[i] - room[i - 1])
    IN  [i \in DOMAIN chain |-> [chain[i] EXCEPT !.data = From(first + room[i - 1], into(i))]]

\* The chain after n bytes, numbered from first on, were received into it.
Received(chain, first, n) ==
    LET room == RoomTo(chain)
        into(i) == Smaller(n - Smaller(n, room[i - 1]), room[i] - room[i - 1])
    IN  [i \in DOMAIN chain |->
            [chain[i] EXCEPT !.data = @ \o From(first + room[i - 1], into(i))]]

\* OnRead receives until the chain is full or the socket empty.  It throws for a
\* session that is gone, for a buffer of size 0, and for the error recv returns
\* when it wants more from a connection that was reset.  A chain that is empty
\* is left alone.
OnRead ==
    /\ NextIs("CFEV_READ")
    /\ IF NextFd \notin Live THEN Throw
       ELSE LET fd == NextFd
                c == clients[fd].conn
                chain == clients[fd].rb
                L == Len(chain)
                room == RoomTo(chain)
                n == Smaller(peer[c].sent - peer[c].taken, room[L])
                done == Cardinality({i \in 1 .. L : room[i] <= n})
                filled == Received(chain, peer[c].taken + 1, n)
            IN  \/ /\ \/ \E i \in 1 .. L : chain[i].total = 0 /\ room[i - 1] <= n
                      \/ peer[c].rst /\ done < L
                   /\ Throw
                \/ /\ \A i \in 1 .. L : chain[i].total = 0 => room[i - 1] > n
                   /\ ~(peer[c].rst /\ done < L)
                   /\ clients' = [clients EXCEPT ![fd].rb = SubSeq(filled, done + 1, L)]
                   /\ peer' = [peer EXCEPT ![c].taken = @ + n]
                   /\ interest' = IF L > 0 /\ (done = L \/ peer[c].fin)
                                  THEN DelEvent(interest, fd, "in") ELSE interest
                   /\ IF done > 0
                      THEN Push(Frame("read", fd, c, clients[fd].listen, SubSeq(filled, 1, done)))
                      ELSE UNCHANGED stack
                   /\ events' = Tail(events)
                   /\ UNCHANGED <<conns, rbPool, wbPool, loop, stop, calls, backlog, made>>

\* OnReadComplete returns and its buffer goes back.
ReadReturns ==
    /\ loop = "run" /\ stack # << >> /\ Top.kind = "read"
    /\ peer' = [peer EXCEPT ![Top.conn].delivered = @ \o Top.rest[1].data]
    /\ rbPool' = PutIntoPool(rbPool, {Top.rest[1].id})
    /\ IF Len(Top.rest) > 1 THEN stack' = [stack EXCEPT ![Len(stack)].rest = Tail(@)] ELSE Pop
    /\ UNCHANGED <<clients, conns, interest, wbPool, events, loop, stop, calls, backlog, made>>

\* Seeded fault: each buffer drops as many bytes as were sent of all.
SentTwice(chain, n) ==
    [i \in DOMAIN chain |-> [chain[i] EXCEPT !.data = SubSeq(@, n + 1, Len(@))]]

\* The chain after its first n bytes were sent.
Sent(chain, n) ==
    LET data == DataTo(chain)
    IN  [i \in DOMAIN chain |->
            [chain[i] EXCEPT !.data = SubSeq(@, n - Smaller(n, data[i - 1]) + 1, Len(@))]]

\* OnWrite sends until the chain is empty or the socket full; a socket reported
\* writable takes at least one byte.
OnWrite ==
    /\ NextIs("CFEV_WRITE")
    /\ IF NextFd \notin Live THEN Throw
       ELSE LET fd == NextFd
                c == clients[fd].conn
                chain == clients[fd].wb
                L == Len(chain)
                data == DataTo(chain)
            IN  \E n \in Smaller(1, data[L]) .. data[L] :
                  LET done == Cardinality({i \in 1 .. L : data[i] <= n})
                      sent == Sent(chain, n)
                  IN  \/ /\ \/ \E i \in 1 .. L : chain[i].total = 0 /\ data[i - 1] <= n
                            \/ peer[c].rst /\ L > 0
                         /\ Throw
                      \/ /\ \A i \in 1 .. L : chain[i].total = 0 => data[i - 1] > n
                         /\ ~(peer[c].rst /\ L > 0)
                         /\ clients' = [clients EXCEPT ![fd].wb = SubSeq(sent, done + 1, L)]
                         /\ peer' = [peer EXCEPT ![c].wire = @ \o SubSeq(Bytes(chain), 1, n)]
                         /\ interest' = IF L > 0 /\ done = L
                                        THEN DelEvent(interest, fd, "out") ELSE interest
                         /\ IF done > 0
                            THEN Push(Frame("write", fd, c, clients[fd].listen, SubSeq(sent, 1, done)))
                            ELSE UNCHANGED stack
                         /\ events' = Tail(events)
                         /\ UNCHANGED <<conns, rbPool, wbPool, loop, stop, calls, backlog, made>>

\* OnWriteComplete returns and its buffer goes back.
WriteReturns ==
    /\ loop = "run" /\ stack # << >> /\ Top.kind = "write"
    /\ wbPool' = PutIntoPool(wbPool, {Top.rest[1].id})
    /\ IF Len(Top.rest) > 1 THEN stack' = [stack EXCEPT ![Len(stack)].rest = Tail(@)] ELSE Pop
    /\ UNCHANGED <<clients, conns, interest, rbPool, events, loop, stop, calls, backlog, made, peer>>

------------------------------------------------------------------------------
(* Closing. *)

\* OnClose and OnError up to their callback: the descriptor is no longer
\* registered, but the session is still known.
End(kind, fd) ==
    /\ interest' = DelConn(interest, fd)
    /\ Push(Frame(kind, fd, clients[fd].conn, clients[fd].listen, << >>))
    /\ UNCHANGED <<clients, conns, rbPool, wbPool>>

OnCloseOrError ==
    /\ \/ NextIs("CFEV_CLOSE")
       \/ NextIs("CFEV_ERROR")
    /\ IF NextFd \notin Live THEN Throw
       ELSE /\ End(IF Head(events).ev = "CFEV_CLOSE" THEN "close" ELSE "error", NextFd)
            /\ events' = Tail(events)
            /\ UNCHANGED <<loop, stop, calls, backlog, made, peer>>

\* Seeded fault: currentconns is not lowered.
ClearSessionAndBufferUncounted(fd) ==
    LET s == clients[fd]
    IN  /\ clients' = [f \in Live \ {fd} |-> clients[f]]
        /\ interest' = CheckMaxConnection(interest, s.listen, conns[s.listen], FALSE)
        /\ rbPool' = PutIntoPool(rbPool, Ids(s.rb))
        /\ wbPool' = PutIntoPool(wbPool, Ids(s.wb))
        /\ UNCHANGED conns

ClearSessionAndBuffer(fd) ==
    LET s == clients[fd]
    IN  /\ clients' = [f \in Live \ {fd} |-> clients[f]]
        /\ conns' = [conns EXCEPT ![s.listen] = (@ - 1) % CounterMod]
        /\ interest' = CheckMaxConnection(interest, s.listen, conns'[s.listen], FALSE)
        /\ rbPool' = PutIntoPool(rbPool, Ids(s.rb))
        /\ wbPool' = PutIntoPool(wbPool, Ids(s.wb))

\* OnCloseComplete or OnErrorComplete returns; a session that is gone throws.
EndReturns ==
    /\ loop = "run" /\ stack # << >> /\ Top.kind \in {"close", "error"}
    /\ IF Top.fd \notin Live THEN Throw
       ELSE /\ ClearSessionAndBuffer(Top.fd)
            /\ Pop
            /\ UNCHANGED <<events, loop, stop, calls, backlog, made, peer>>

TimeoutReturns ==
    /\ loop = "run" /\ stack # << >> /\ Top.kind = "timeout"
    /\ Pop
    /\ UNCHANGED <<serverVars, events, loop, stop, calls, backlog, made, peer>>

------------------------------------------------------------------------------
(* What the application does in a callback, with any session it knows.  It does *)
(* not close a session that is being closed.                                   *)

Closing(fd) == \E i \in DOMAIN stack : stack[i].kind \in {"close", "error"} /\ stack[i].fd = fd

CanCall == /\ loop = "run" /\ stack # << >> /\ calls < MaxCalls
           /\ calls' = calls + 1
           /\ UNCHANGED <<loop, events, backlog, made>>

AsyncRead(fd, n) ==
    /\ CanCall
    /\ clients' = [clients EXCEPT ![fd].rb = Append(@, GetReadBuffer(n))]
    /\ rbPool' = GetFromPool(rbPool)
    /\ interest' = AddEvent(interest, fd, "in")
    /\ UNCHANGED <<conns, wbPool, stack, stop, peer>>

AsyncWrite(fd, n) ==
    /\ CanCall
    /\ LET c == clients[fd].conn
       IN  /\ clients' = [clients EXCEPT ![fd].wb = Append(@, GetWriteBuffer(peer[c].queued + 1, n))]
           /\ peer' = [peer EXCEPT ![c].queued = @ + n]
    /\ wbPool' = GetFromPool(wbPool)
    /\ interest' = AddEvent(interest, fd, "out")
    /\ UNCHANGED <<conns, rbPool, stack, stop>>

AsyncClose(fd) ==
    /\ CanCall
    /\ ~Closing(fd)
    /\ End("close", fd)
    /\ UNCHANGED <<stop, peer>>

Stop == /\ CanCall
        /\ stop' = TRUE
        /\ UNCHANGED <<serverVars, stack, peer>>

------------------------------------------------------------------------------
(* Peers, and other processes that listen on the same sockets. *)

Outside == loop = "run" /\ UNCHANGED <<serverVars, loopVars>>

Connect(l) ==
    /\ Outside
    /\ made < MaxMade
    /\ made' = made + 1
    /\ backlog' = [backlog EXCEPT ![l] = Append(@, made + 1)]
    /\ UNCHANGED peer

AcceptedElsewhere(l) ==
    /\ Outside
    /\ backlog[l] # << >>
    /\ backlog' = [backlog EXCEPT ![l] = Tail(@)]
    /\ UNCHANGED <<made, peer>>

\* Connections that anybody still looks at.
Open == {clients[fd].conn : fd \in Live} \cup UNION {ToSet(backlog[l]) : l \in Listener}

PeerActs(c) == /\ Outside
               /\ c \in Open /\ ~peer[c].fin /\ ~peer[c].rst
               /\ UNCHANGED <<backlog, made>>

Send(c) == /\ PeerActs(c)
           /\ MapThenSumSet(LAMBDA d : peer[d].sent, Conn) < MaxSent
           /\ peer' = [peer EXCEPT ![c].sent = @ + 1]

Finish(c) == PeerActs(c) /\ peer' = [peer EXCEPT ![c].fin = TRUE]

Reset(c) == /\ PeerActs(c)
            /\ Cardinality({d \in Conn : peer[d].rst}) < MaxReset
            /\ peer' = [peer EXCEPT ![c].rst = TRUE]

------------------------------------------------------------------------------

Server == \/ WaitEvent \/ Interrupt \/ OnTimeout \/ LeaveLoop
          \/ OnAccept \/ OnRead \/ OnWrite \/ OnCloseOrError
          \/ AcceptReturns \/ ReadReturns \/ WriteReturns \/ EndReturns \/ TimeoutReturns

Application == \/ \E fd \in Live : \/ \E n \in ReadSize : AsyncRead(fd, n)
                                   \/ \E n \in WriteSize : AsyncWrite(fd, n)
                                   \/ AsyncClose(fd)
               \/ Stop

Peers == \/ \E l \in Listener : Connect(l) \/ AcceptedElsewhere(l)
         \/ \E c \in Conn : Send(c) \/ Finish(c) \/ Reset(c)

\* The loop is over.
Ended == loop # "run" /\ UNCHANGED vars

Next == Server \/ Application \/ Peers \/ Ended

Spec == Init /\ [][Next]_vars

------------------------------------------------------------------------------
(* Properties. *)

ServerTypeOK ==
    /\ Live \subseteq Fd
    /\ \A fd \in Live : clients[fd].conn \in Conn /\ clients[fd].listen \in Listener
    /\ conns \in [Listener -> 0 .. CounterMod - 1]
    /\ interest \in [Listener \cup Fd -> SUBSET Conditions]
    /\ rbPool.all \in Nat /\ wbPool.all \in Nat
    /\ rbPool.free \subseteq 1 .. rbPool.all /\ wbPool.free \subseteq 1 .. wbPool.all
    /\ \A i \in DOMAIN events : events[i].fd \in Listener \cup Fd
    /\ loop \in {"run", "stopped", "interrupted", "threw"} /\ stop \in BOOLEAN /\ calls \in Nat
    /\ made \in 0 .. MaxMade
    /\ \A c \in Conn : peer[c].taken <= peer[c].sent

\* What a session is registered for is what it needs, however its handlers and
\* the application's calls follow one another: it is told when it can write
\* exactly as long as something waits to be written, and of data as long as a
\* read waits, unless the peer has finished.
InterestMatches ==
    \A fd \in Live : ~Closing(fd) =>
        /\ interest[fd] # {}
        /\ "out" \in interest[fd] <=> clients[fd].wb # << >>
        /\ "in" \in interest[fd] => clients[fd].rb # << >>
        /\ clients[fd].rb # << >> /\ "in" \notin interest[fd] => peer[clients[fd].conn].fin

\* Buffers that OnRead or OnWrite took from a chain and still has to hand over.
Handing(kind, c) ==
    FlattenSeq([i \in DOMAIN stack |->
                   IF stack[i].kind = kind /\ stack[i].conn = c THEN stack[i].rest ELSE << >>])

\* The application gets every byte once and in the order sent, and so does a
\* chain of pending reads, though reads and closes are called between the
\* callbacks of one OnRead.
ReadsInOrder ==
    \A c \in Conn :
        LET got == peer[c].delivered \o Bytes(Handing("read", c))
        IN  /\ got = From(1, Len(got))
            /\ \A fd \in Live : clients[fd].conn = c =>
                   got \o Bytes(clients[fd].rb) = From(1, peer[c].taken)

\* What was passed to AsyncWrite goes out once and in order, however send cuts it.
WritesInOrder ==
    \A c \in Conn :
        /\ peer[c].wire = From(1, Len(peer[c].wire))
        /\ \A fd \in Live : clients[fd].conn = c =>
               peer[c].wire \o Bytes(clients[fd].wb) = From(1, peer[c].queued)

\* Each buffer is in one place: free, in the chain of one session, or being
\* handed over.  None is lost and none is put back twice, even when a callback
\* closes its own session.
InOnePlace(pool, handlers, kind, chains) ==
    LET Holder  == {<<"handler", i>> : i \in {j \in DOMAIN handlers : handlers[j].kind = kind}}
                   \cup {<<"session", fd>> : fd \in DOMAIN chains}
        Held(h) == IF h[1] = "handler" THEN handlers[h[2]].rest ELSE chains[h[2]]
    IN  /\ pool.free \cup UNION {Ids(Held(h)) : h \in Holder} = 1 .. pool.all
        /\ \A h \in Holder : Ids(Held(h)) \cap pool.free = {}
        /\ \A g, h \in Holder : \A i \in DOMAIN Held(g), j \in DOMAIN Held(h) :
               Held(g)[i].id = Held(h)[j].id => g = h /\ i = j

BuffersInOnePlace ==
    /\ InOnePlace(rbPool, stack, "read", [fd \in Live |-> clients[fd].rb])
    /\ InOnePlace(wbPool, stack, "write", [fd \in Live |-> clients[fd].wb])

Accepting(l) == \E i \in DOMAIN stack : stack[i].kind = "accept" /\ stack[i].listen = l

\* currentconns is the number of sessions, less the one whose OnAcceptComplete
\* is running: it is raised after that callback and lowered by what the callback
\* closes, and may pass below 0 on the way.
ConnsCounted ==
    \A l \in Listener :
        (conns[l] + IF Accepting(l) THEN 1 ELSE 0) % CounterMod
            = Cardinality({fd \in Live : clients[fd].listen = l})

\* A listener is watched exactly while it has room, except while connections
\* from it are being added.
ListenerArmed ==
    \A l \in Listener : ~Accepting(l) =>
        (interest[l] # {} <=> MaxConns[l] = 0 \/ conns[l] < MaxConns[l])

\* The server fits together, and the limit of each listener is kept.
ServerOK == ServerTypeOK /\ ConnsCounted /\ ListenerArmed

\* A session that its handler closes does not end the server.
LoopSurvives == loop # "threw"
==============================================================================
