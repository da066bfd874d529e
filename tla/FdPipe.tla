------------------------------- MODULE FdPipe -------------------------------
(***************************************************************************)
(* SendFds and RecvFds over a SocketpairPipe: one process hands open files *)
(* to another.                                                             *)
(*                                                                         *)
(* Both make a control buffer of one of three sizes: for one descriptor,   *)
(* for SumSmall or for SumMax.  SendFds fills it with zeros and describes  *)
(* the descriptors in one header; sendmsg looks for another header behind  *)
(* them, and if the buffer has room for one the zeros there make it fail.  *)
(* recvmsg opens as many descriptors of a message as its buffer has room   *)
(* for and the process has places, and RecvFds tells of them only if they  *)
(* are as many as it was asked for.                                        *)
(*                                                                         *)
(* The data beside the descriptors is left out.  A receiver with a small   *)
(* buffer leaves a rest of it, which is a message without descriptors, and *)
(* the next recvmsg goes on from such a rest into the message behind it.   *)
(***************************************************************************)
EXTENDS Naturals, Sequences, SequencesExt

CONSTANTS File,      \* the files the sender can open
          SumSmall,  \* SEND_FDS_SUMMAX_SMALL
          SumMax,    \* SEND_FDS_SUMMAX_LARGE
          Padding,   \* how many more than one the buffer for one holds, by its alignment
          Header,    \* how many descriptors take as much room as a header
          MaxArray,  \* bound: the length of an array of descriptors
          MaxOpen,   \* the descriptors the receiver may have open
          MaxPassed  \* bound: calls of SendFds

ASSUME PipeAssumption == /\ "none" \notin File
                         /\ SumSmall \in Nat /\ SumMax \in Nat /\ Padding \in Nat /\ Header \in Nat
                         /\ MaxArray \in Nat /\ MaxOpen \in Nat /\ MaxPassed \in Nat

VARIABLES sockets,   \* the ends of the pipe that are open
          holds,     \* the files the sender has open
          passing,   \* the arrays under way
          passed,    \* how often SendFds was called
          has,       \* the files the receiver has open, by the order of their coming
          answer,    \* recvfdarray after the latest RecvFds: files, or <<-1>> as "none"
          arrived,   \* history: what was sent with the data of the latest RecvFds
          due,       \* history: it asked for as many as were sent, and had places for them
          known,     \* history: how many of the receiver's files a RecvFds told of
          miscounted \* history: descriptors were sent to a RecvFds that did not

pipeVars == <<sockets, holds, passing, passed, has, answer, arrived, due, known, miscounted>>

BothEnds == {"sender", "receiver"}

\* The constructor of SocketpairPipe.
PipeInit ==
    /\ sockets = BothEnds /\ holds \in SUBSET File
    /\ passing = <<>> /\ passed = 0
    /\ has = <<>> /\ answer = <<>> /\ arrived = <<>> /\ due = FALSE
    /\ known = 0 /\ miscounted = FALSE

\* Seeded fault: the buffer for one also for a few.
RoomShort(n) == IF n <= SumSmall THEN 1 + Padding ELSE SumMax

\* The descriptors a control buffer made for n of them has room for.
Room(n) ==
    CASE n = 1 -> 1 + Padding
      [] n # 1 /\ n <= SumSmall -> SumSmall
      [] OTHER -> SumMax

\* sendmsg finds the zeros behind the descriptors and takes them for a header.
Refused(n) == Room(n) >= n + Header

\* Arrays of open descriptors.
Arrays == UNION {[1 .. n -> holds] : n \in 0 .. MaxArray}

\* More than SumMax descriptors throw ValueError.  When sendmsg fails, its caller is
\* told and nothing is under way.
SendFds ==
    /\ sockets = BothEnds /\ passed < MaxPassed
    /\ \E fds \in Arrays :
         /\ Len(fds) <= SumMax
         /\ \/ ~Refused(Len(fds)) /\ passing' = Append(passing, fds)
            \/ UNCHANGED passing
    /\ passed' = passed + 1
    /\ UNCHANGED <<sockets, holds, has, answer, arrived, due, known, miscounted>>

\* The sender closes a file; what is under way stays open.
CloseFile ==
    /\ \E f \in holds : holds' = holds \ {f}
    /\ UNCHANGED <<sockets, passing, passed, has, answer, arrived, due, known, miscounted>>

\* recvmsg opens the first descriptors of a message, as many as there is room for.
Installed(fds, room) == SubSeq(fds, 1, IF room < Len(fds) THEN room ELSE Len(fds))

\* How many it may open for a RecvFds of count.
Fitting(count, places) == IF places < Room(count) THEN places ELSE Room(count)

\* recvfdarray: what came if it is as many as asked for, -1 if not.
Told(fds, count) == IF Len(fds) = count THEN fds ELSE <<"none">>

\* The data of the k-th message is read, and the rests before it, up to its end or not.
\* When recvmsg fails or finds the end, RecvFds returns what it returned and leaves
\* recvfdarray as it was.
RecvFds ==
    /\ "receiver" \in sockets
    /\ \E count \in 1 .. MaxArray, k \in 1 .. Len(passing), whole \in BOOLEAN :
         LET places == MaxOpen - Len(has)
             sent   == passing[k]
             came   == Installed(sent, Fitting(count, places))
             behind == SubSeq(passing, k + 1, Len(passing))
         IN /\ count <= SumMax
            /\ \A j \in 1 .. k - 1 : passing[j] = <<>>
            /\ passing' = IF whole THEN behind ELSE <<<<>>>> \o behind
            /\ has' = has \o came
            /\ answer' = Told(came, count)
            /\ arrived' = sent
            /\ due' = (count = Len(sent) /\ places >= Len(sent))
            /\ known' = IF answer' = <<"none">> THEN known ELSE known + Len(answer')
            /\ miscounted' = (miscounted \/ (sent # <<>> /\ ~due'))
    /\ UNCHANGED <<sockets, holds, passed>>

\* The destructor, of either process.
ClosePipe ==
    /\ \E s \in sockets :
         /\ sockets' = sockets \ {s}
         /\ passing' = IF s = "receiver" THEN <<>> ELSE passing
    /\ UNCHANGED <<holds, passed, has, answer, arrived, due, known, miscounted>>

PipeNext == SendFds \/ CloseFile \/ RecvFds \/ ClosePipe

PipeSpec == PipeInit /\ [][PipeNext]_pipeVars

------------------------------------------------------------------------------
(* Properties. *)

\* The descriptors RecvFds tells of are open in the receiver and are the first of those
\* sent, in their order, though the sender has closed its own.
ToldIsOpen ==
    answer \notin {<<>>, <<"none">>} => IsSuffix(answer, has) /\ IsPrefix(answer, arrived)

\* A RecvFds that asks for as many as were sent is told of all of them, if the receiver
\* has places for them: its control buffer has room for what it asks for.
AskedIsTold == due => answer = arrived

\* The receiver has a descriptor that it was not told of only if a RecvFds asked for
\* another number than was sent, or ran out of places.
NoneForgotten == Len(has) > known => miscounted

\* Descriptors are received all together and known, but by a RecvFds that miscounts.
PipeOK == ToldIsOpen /\ AskedIsTold /\ NoneForgotten
=============================================================================
