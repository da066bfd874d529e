-------------------------------- MODULE Demux --------------------------------
(***************************************************************************)
(* The event demultiplexer: class Epoll of cf_epoll.cpp.                   *)
(*                                                                         *)
(* `interest' gives for each descriptor the conditions it is registered    *)
(* for: rdhup always, in and out as asked.  The empty set stands for a     *)
(* descriptor that is not registered.  The code keeps the same table twice *)
(* (_mapEvent and the kernel's) and changes both in every operation;       *)
(* EpollCtl ignores the error of a registration that exists already or no  *)
(* longer, where insert and erase do nothing either.                       *)
(***************************************************************************)
EXTENDS Integers, Sequences, FiniteSets

Conditions == {"rdhup", "in", "out"}

AddConn(interest, fd, ev) ==
    IF interest[fd] = {} THEN [interest EXCEPT ![fd] = {"rdhup"} \cup ev] ELSE interest

\* The constructor: the descriptors listened on are watched, no other.
Watched(fds, listenfds) == [x \in fds |-> IF x \in listenfds THEN {"rdhup", "in"} ELSE {}]

DelConn(interest, fd) == [interest EXCEPT ![fd] = {}]

\* Seeded fault: the new condition replaces the others.
AddEventReplaces(interest, fd, ev) ==
    IF interest[fd] = {} THEN interest ELSE [interest EXCEPT ![fd] = {"rdhup", ev}]

AddEvent(interest, fd, ev) ==
    IF interest[fd] = {} THEN interest ELSE [interest EXCEPT ![fd] = @ \cup {ev}]

DelEvent(interest, fd, ev) == [interest EXCEPT ![fd] = @ \ {ev}]

\* The events WaitEvent makes of what epoll_wait reports for one descriptor.
Classified(listening, reported) ==
    IF listening THEN <<"CFEV_ACCEPT">>
    ELSE IF "err" \in reported THEN <<"CFEV_ERROR">>
    ELSE (IF "in" \in reported THEN <<"CFEV_READ">> ELSE << >>) \o
         (IF "out" \in reported THEN <<"CFEV_WRITE">> ELSE << >>) \o
         (IF "rdhup" \in reported THEN <<"CFEV_CLOSE">> ELSE << >>)

\* epoll_wait returns what is ready in any order, at most maxEvents descriptors.
Batches(ready, maxEvents) ==
    LET n == IF Cardinality(ready) < maxEvents THEN Cardinality(ready) ELSE maxEvents
    IN  {b \in [1 .. n -> ready] : \A i, j \in 1 .. n : i # j => b[i] # b[j]}
==============================================================================
