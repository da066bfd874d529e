------------------------------ MODULE Segments ------------------------------
(***************************************************************************)
(* SysVShM and MemMappedFile of cf_ipc: processes that share memory by the *)
(* key of a System V segment, and processes that map the same file.        *)
(*                                                                         *)
(* Both constructors are several system calls, and other processes run     *)
(* between them.  SysVShM finds or makes a segment and then attaches it,   *)
(* and it may have been removed in between.  MemMappedFile looks at the    *)
(* length of the file, makes the file longer if it was too short, and maps *)
(* it; it accepts only descriptor 0, so a process has to close its         *)
(* standard input first, and it never closes the file.                     *)
(*                                                                         *)
(* Msync, GetShm and Get change nothing here.  The memory is not locked.   *)
(***************************************************************************)
EXTENDS Naturals, FiniteSets

CONSTANTS Sharer,      \* the processes
          Bytes,       \* the sizes they ask for, positive numbers
          MaxSegment,  \* bound: segments ever made
          MaxClosed    \* bound: how often processes close descriptor 0

ASSUME SegmentsAssumption == Bytes \subseteq Nat \ {0} /\ MaxSegment \in Nat /\ MaxClosed \in Nat

Segment == 1 .. MaxSegment

VARIABLES memory,      \* what is shared: "segment" or "file"
          autoRemove, autoDetach, \* of each process: the flags of its SysVShM
          segmentOf,   \* the segment the key stands for, 0 if none
          segments,    \* how many were made
          bytes,       \* the size of each segment
          doomed,      \* the segments IPC_RMID was called for
          attachments, \* who has attached what: pairs of process and segment
          phase,       \* of each process: out, got, using, opened, checked, sized
          shmid,       \* _shmid, 0 if none
          asks,        \* the size each process asks for
          zero,        \* the processes whose descriptor 0 is free
          closed,      \* how often that came about
          fileLength,      \* the length of the file
          stSize,      \* what fstat said to each process
          asked,       \* history: segments somebody asked to remove, by flag or call
          overtaken    \* history: the file changed between fstat and ftruncate

segVars == <<autoRemove, autoDetach, segmentOf, segments, bytes, doomed, attachments, shmid, asked>>
fileVars == <<zero, closed, fileLength, stSize, overtaken>>
sharedVars == <<memory, segVars, fileVars, phase, asks>>

ShareInit ==
    /\ memory \in {"segment", "file"}
    /\ autoRemove \in [Sharer -> BOOLEAN] /\ autoDetach \in [Sharer -> BOOLEAN]
    /\ segmentOf = 0 /\ segments = 0 /\ bytes = [s \in Segment |-> 0]
    /\ doomed = {} /\ attachments = {} /\ asked = {}
    /\ phase = [p \in Sharer |-> "out"]
    /\ shmid = [p \in Sharer |-> 0] /\ asks \in [Sharer -> Bytes]
    /\ zero = {} /\ closed = 0 /\ fileLength = 0
    /\ stSize = [p \in Sharer |-> 0] /\ overtaken = FALSE

Moves(p, from, to) == phase[p] = from /\ phase' = [phase EXCEPT ![p] = to]

------------------------------------------------------------------------------
(* SysVShM *)

Attached(s) == {p \in Sharer : <<p, s>> \in attachments}

\* A segment is freed when it was removed and nobody has it attached.
Freed(s) == s \in doomed /\ Attached(s) = {}

\* cf_shmget with IPC_CREAT; it fails if the segment is smaller than asked for.
ShmGet(p) ==
    /\ memory = "segment" /\ Moves(p, "out", "got")
    /\ \/ /\ segmentOf = 0 /\ segments < MaxSegment
          /\ segments' = segments + 1 /\ segmentOf' = segments'
          /\ bytes' = [bytes EXCEPT ![segments'] = asks[p]]
       \/ /\ segmentOf # 0 /\ bytes[segmentOf] >= asks[p]
          /\ UNCHANGED <<segments, segmentOf, bytes>>
    /\ shmid' = [shmid EXCEPT ![p] = segmentOf']
    /\ UNCHANGED <<memory, autoRemove, autoDetach, doomed, attachments, asked, fileVars, asks>>

\* cf_shmat fails if the segment was freed meanwhile, and the constructor throws.
ShmAt(p) ==
    /\ \/ /\ Moves(p, "got", "using") /\ ~Freed(shmid[p])
          /\ attachments' = attachments \cup {<<p, shmid[p]>>}
          /\ UNCHANGED shmid
       \/ /\ Moves(p, "got", "out") /\ Freed(shmid[p])
          /\ shmid' = [shmid EXCEPT ![p] = 0]
          /\ UNCHANGED attachments
    /\ UNCHANGED <<memory, autoRemove, autoDetach, segmentOf, segments, bytes, doomed, asked, fileVars, asks>>

\* IPC_RMID: the key is free again, the segment goes with the last attachment.
\* It fails for a segment that was freed.
Rmid(p) ==
    IF Freed(shmid[p]) THEN UNCHANGED <<doomed, segmentOf>>
    ELSE /\ doomed' = doomed \cup {shmid[p]}
         /\ segmentOf' = IF segmentOf = shmid[p] THEN 0 ELSE segmentOf

ShmDt(p) == attachments' = attachments \ {<<p, shmid[p]>>}

\* Detach may be called again: then there is nothing to do.
Detach(p) ==
    /\ memory = "segment" /\ phase[p] = "using"
    /\ ShmDt(p)
    /\ UNCHANGED <<memory, autoRemove, autoDetach, segmentOf, segments, bytes, doomed, shmid, asked, fileVars, phase, asks>>

RemoveSegment(p) ==
    /\ memory = "segment" /\ phase[p] = "using"
    /\ Rmid(p)
    /\ asked' = asked \cup {shmid[p]}
    /\ UNCHANGED <<memory, autoRemove, autoDetach, segments, bytes, attachments, shmid, fileVars, phase, asks>>

\* Seeded fault: _autoRemove is not looked at.
LeaveSegmentRemoved(p) ==
    /\ memory = "segment" /\ Moves(p, "using", "out")
    /\ IF autoDetach[p] THEN ShmDt(p) ELSE UNCHANGED attachments
    /\ Rmid(p)
    /\ asked' = IF autoRemove[p] THEN asked \cup {shmid[p]} ELSE asked
    /\ shmid' = [shmid EXCEPT ![p] = 0]
    /\ UNCHANGED <<memory, autoRemove, autoDetach, segments, bytes, fileVars, asks>>

\* The destructor.
LeaveSegment(p) ==
    /\ memory = "segment" /\ Moves(p, "using", "out")
    /\ IF autoDetach[p] THEN ShmDt(p) ELSE UNCHANGED attachments
    /\ IF autoRemove[p] THEN Rmid(p) ELSE UNCHANGED <<doomed, segmentOf>>
    /\ asked' = IF autoRemove[p] THEN asked \cup {shmid[p]} ELSE asked
    /\ shmid' = [shmid EXCEPT ![p] = 0]
    /\ UNCHANGED <<memory, autoRemove, autoDetach, segments, bytes, fileVars, asks>>

------------------------------------------------------------------------------
(* MemMappedFile *)

\* The application closes its standard input, or what has taken its place.
CloseZero(p) ==
    /\ memory = "file" /\ phase[p] = "out" /\ closed < MaxClosed
    /\ zero' = zero \cup {p} /\ closed' = closed + 1
    /\ UNCHANGED <<memory, segVars, fileLength, stSize, overtaken, phase, asks>>

\* The constructor throws unless cf_open returns 0.
OpenFile(p) ==
    /\ memory = "file" /\ p \in zero
    /\ Moves(p, "out", "opened")
    /\ zero' = zero \ {p}
    /\ UNCHANGED <<memory, segVars, closed, fileLength, stSize, overtaken, asks>>

Fstat(p) ==
    /\ Moves(p, "opened", "checked")
    /\ stSize' = [stSize EXCEPT ![p] = fileLength]
    /\ UNCHANGED <<memory, segVars, zero, closed, fileLength, overtaken, asks>>

\* Seeded fault: the file gets the size asked for, longer or shorter.
EnlargeAlways(p) ==
    /\ Moves(p, "checked", "sized")
    /\ fileLength' = asks[p]
    /\ overtaken' = (overtaken \/ (stSize[p] < asks[p] /\ stSize[p] # fileLength))
    /\ UNCHANGED <<memory, segVars, zero, closed, stSize, asks>>

\* cf_ftruncate if the file was too short when fstat looked.
Enlarge(p) ==
    /\ Moves(p, "checked", "sized")
    /\ IF stSize[p] < asks[p]
       THEN fileLength' = asks[p] /\ overtaken' = (overtaken \/ stSize[p] # fileLength)
       ELSE UNCHANGED <<fileLength, overtaken>>
    /\ UNCHANGED <<memory, segVars, zero, closed, stSize, asks>>

\* Mmap of the size asked for.
MapFile(p) ==
    /\ Moves(p, "sized", "using")
    /\ UNCHANGED <<memory, segVars, fileVars, asks>>

\* The destructor, or Munmap before it; the descriptor stays open.
UnmapFile(p) ==
    /\ memory = "file" /\ Moves(p, "using", "out")
    /\ UNCHANGED <<memory, segVars, fileVars, asks>>

------------------------------------------------------------------------------

ShareNext == \E p \in Sharer :
    \/ ShmGet(p) \/ ShmAt(p) \/ Detach(p) \/ RemoveSegment(p) \/ LeaveSegment(p)
    \/ CloseZero(p) \/ OpenFile(p) \/ Fstat(p) \/ Enlarge(p) \/ MapFile(p) \/ UnmapFile(p)

ShareSpec == ShareInit /\ [][ShareNext]_sharedVars

------------------------------------------------------------------------------
(* Properties. *)

\* Who constructs a SysVShM of the key gets the segment its users share, unless
\* somebody asked to remove that one, by _autoRemove or by Remove.
FoundByKey ==
    memory = "segment" =>
        \A p \in Sharer : phase[p] # "out" /\ segmentOf # shmid[p] => shmid[p] \in asked

\* A process keeps a segment attached only while it has a SysVShM of it or if that
\* one's _autoDetach was false: a removed segment is freed when the last one goes.
NoneLeftAttached ==
    \A p \in Sharer, s \in Segment :
        <<p, s>> \in attachments => shmid[p] = s \/ ~autoDetach[p]

\* A process that uses a segment has as many bytes of it as it asked for, newcomers
\* find the same one by its key, and what is removed is freed by the last to leave.
SegmentsOK ==
    /\ segmentOf \in 0 .. segments /\ segmentOf \notin doomed
    /\ \A p \in Sharer : /\ shmid[p] \in 0 .. segments
                         /\ (shmid[p] # 0) <=> memory = "segment" /\ phase[p] # "out"
                         /\ shmid[p] # 0 => asks[p] <= bytes[shmid[p]]
    /\ FoundByKey /\ NoneLeftAttached

\* A mapped file is as long as its mappings, so that no access gets a SIGBUS,
\* unless the file changed between fstat and ftruncate of a constructor.
FileHoldsMapping ==
    memory = "file" =>
        \A p \in Sharer : phase[p] = "using" => asks[p] <= fileLength \/ overtaken
=============================================================================
