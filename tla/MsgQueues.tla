----------------------------- MODULE MsgQueues -----------------------------
(***************************************************************************)
(* PosixMsgQ and SysVMsgQ of cf_ipc: processes that find a message queue   *)
(* of the system by a name or a key, send to it and receive from it, and   *)
(* whose destructors may unlink or remove it.  (MsgQ itself throws in its  *)
(* constructor.)                                                           *)
(*                                                                         *)
(* The methods are one system call each and throw SyscallExecuteError when *)
(* it fails, whatever the reason: a timeout, a full or empty queue in a    *)
(* Try call, a signal, a queue that is gone.  POSIX orders the queue by    *)
(* priority; System V keeps the order of sending and Recv names a type, or *)
(* 0 for any.  Notify and Getattr are left out, and negative types.        *)
(***************************************************************************)
EXTENDS Naturals, Sequences, SequencesExt

CONSTANTS Peer,     \* the processes
          Urgency,  \* priorities or types, positive numbers
          MaxMsg,   \* messages a queue holds
          MaxSent,  \* bound: messages ever sent
          MaxQueue  \* bound: queues ever made

ASSUME MsgAssumption == /\ Urgency \subseteq Nat \ {0}
                        /\ MaxMsg \in Nat \ {0} /\ MaxSent \in Nat /\ MaxQueue \in Nat

Queue == 1 .. MaxQueue

VARIABLES facility,  \* the class under test
          auto,      \* _autoUnlink or _autoRemove of each process
          key,       \* the queue the name or key stands for, 0 if none
          queues,    \* how many queues were made
          removed,   \* the System V queues that msgctl has removed
          content,   \* the messages in each queue, in the order of the system's list
          handle,    \* _fd or _msgId of each process: the queue, 0 if none
          nonblock,  \* O_NONBLOCK, set by Setattr
          at,        \* each process: out, free, sending, receiving or waiting (for a message)
          want,      \* its call: how long it may last, and the urgency
          sent,      \* history: queue and urgency of each message, by its number
          received   \* history: the numbers of the messages received

callVars == <<at, want>>
queueVars == <<facility, auto, key, queues, removed, content, handle, nonblock, callVars, sent, received>>

NoWant == [how |-> "none", urgency |-> 0]

MsgInit ==
    /\ facility \in {"PosixMsgQ", "SysVMsgQ"}
    /\ auto \in [Peer -> BOOLEAN]
    /\ key = 0 /\ queues = 0 /\ removed = {}
    /\ content = [q \in Queue |-> <<>>]
    /\ handle = [p \in Peer |-> 0]
    /\ nonblock = [p \in Peer |-> FALSE]
    /\ at = [p \in Peer |-> "out"]
    /\ want = [p \in Peer |-> NoWant]
    /\ sent = <<>> /\ received = <<>>

------------------------------------------------------------------------------
(* Constructors and destructors. *)

\* mq_open with O_CREAT, msgget with IPC_CREAT: the queue is made if there is none.
MqOpen ==
    \/ key # 0 /\ UNCHANGED <<key, queues>>
    \/ key = 0 /\ queues < MaxQueue /\ queues' = queues + 1 /\ key' = queues'

Construct(p) ==
    /\ at[p] = "out"
    /\ MqOpen
    /\ handle' = [handle EXCEPT ![p] = key']
    /\ nonblock' = [nonblock EXCEPT ![p] = FALSE]
    /\ at' = [at EXCEPT ![p] = "free"]
    /\ UNCHANGED <<facility, auto, removed, content, want, sent, received>>

\* mq_unlink takes the name away, whatever it stands for now.
MqUnlink == key' = 0 /\ UNCHANGED removed

\* IPC_RMID removes the queue of p; who waits at it is woken.
MsgRemove(p) ==
    /\ removed' = removed \cup {handle[p]}
    /\ key' = IF key = handle[p] THEN 0 ELSE key

\* A queue is gone, with what it holds, when it is removed or has neither a name
\* nor a process that has it open.
Emptied == [q \in Queue |-> IF q \in removed' \/ (facility = "PosixMsgQ" /\ key' # q
                                                  /\ \A p \in Peer : handle'[p] # q)
                            THEN <<>> ELSE content[q]]

\* Seeded fault: the destructor does not look at _autoUnlink and _autoRemove.
DestructAlways(p) ==
    /\ at[p] = "free"
    /\ IF facility = "PosixMsgQ" THEN MqUnlink ELSE MsgRemove(p)
    /\ handle' = [handle EXCEPT ![p] = 0]
    /\ content' = Emptied
    /\ at' = [at EXCEPT ![p] = "out"]
    /\ UNCHANGED <<facility, auto, queues, nonblock, want, sent, received>>

\* Seeded fault: the key is freed and the queue stays.
DestructKeyOnly(p) ==
    /\ at[p] = "free"
    /\ IF auto[p] THEN MqUnlink ELSE UNCHANGED <<key, removed>>
    /\ handle' = [handle EXCEPT ![p] = 0]
    /\ content' = Emptied
    /\ at' = [at EXCEPT ![p] = "out"]
    /\ UNCHANGED <<facility, auto, queues, nonblock, want, sent, received>>

\* With _autoClose, as by default.
Destruct(p) ==
    /\ at[p] = "free"
    /\ CASE ~auto[p]                          -> UNCHANGED <<key, removed>>
         [] auto[p] /\ facility = "PosixMsgQ" -> MqUnlink
         [] auto[p] /\ facility = "SysVMsgQ"  -> MsgRemove(p)
    /\ handle' = [handle EXCEPT ![p] = 0]
    /\ content' = Emptied
    /\ at' = [at EXCEPT ![p] = "out"]
    /\ UNCHANGED <<facility, auto, queues, nonblock, want, sent, received>>

\* Setattr: the one attribute that can be set is O_NONBLOCK.
Setattr(p) ==
    /\ facility = "PosixMsgQ" /\ at[p] = "free"
    /\ nonblock' = [nonblock EXCEPT ![p] = ~@]
    /\ UNCHANGED <<facility, auto, key, queues, removed, content, handle, callVars, sent, received>>

------------------------------------------------------------------------------
(* Calls. *)

\* Send, TrySend and the Send with a time limit.
CallSend(p) ==
    /\ at[p] = "free" /\ Len(sent) < MaxSent
    /\ \E how \in {"wait", IF facility = "PosixMsgQ" THEN "timed" ELSE "try"}, u \in Urgency :
         want' = [want EXCEPT ![p] = [how |-> how, urgency |-> u]]
    /\ at' = [at EXCEPT ![p] = "sending"]
    /\ UNCHANGED <<facility, auto, key, queues, removed, content, handle, nonblock, sent, received>>

\* Recv, TryRecv and the Recv with a time limit.
CallRecv(p) ==
    /\ at[p] = "free"
    /\ \E how \in {"wait", IF facility = "PosixMsgQ" THEN "timed" ELSE "try"},
          type \in {0} \cup (IF facility = "PosixMsgQ" THEN {} ELSE Urgency) :
         want' = [want EXCEPT ![p] = [how |-> how, urgency |-> type]]
    /\ at' = [at EXCEPT ![p] = "receiving"]
    /\ UNCHANGED <<facility, auto, key, queues, removed, content, handle, nonblock, sent, received>>

\* A process whose queue holds messages <<number, urgency>>.
Of(p) == content[handle[p]]
Gone(p) == handle[p] \in removed

Ends(who) ==
    /\ at' = [p \in Peer |-> IF p \in who THEN "free" ELSE at[p]]
    /\ want' = [p \in Peer |-> IF p \in who THEN NoWant ELSE want[p]]

Wants(p, u) == want[p].urgency \in {0, u}

\* Who waits for a message of urgency u in q.
Waiters(q, u) == {r \in Peer : at[r] = "waiting" /\ handle[r] = q /\ Wants(r, u)}

\* Seeded fault: the priority is not passed on.
PlaceLast(q, u) == {Len(content[q])}

\* Behind how many messages of q one of urgency u is put; POSIX: behind the last
\* that is at least as urgent.
Place(q, u) ==
    {k \in 0 .. Len(content[q]) :
        IF facility = "SysVMsgQ" THEN k = Len(content[q])
        ELSE /\ k = 0 \/ content[q][k][2] >= u
             /\ \A i \in k + 1 .. Len(content[q]) : content[q][i][2] < u}

\* mq_send and msgsnd: one that waits for the message gets it at once.
Send(p) ==
    /\ at[p] = "sending" /\ ~Gone(p)
    /\ LET q == handle[p]
           u == want[p].urgency
           n == Len(sent) + 1
       IN /\ sent' = Append(sent, [queue |-> q, urgency |-> u])
          /\ \/ /\ Waiters(q, u) = {} /\ Len(content[q]) < MaxMsg
                /\ \E k \in Place(q, u) : content' = [content EXCEPT ![q] = InsertAt(@, k + 1, <<n, u>>)]
                /\ Ends({p}) /\ UNCHANGED received
             \/ \E r \in Waiters(q, u) :
                /\ received' = Append(received, n)
                /\ Ends({p, r}) /\ UNCHANGED content
    /\ UNCHANGED <<facility, auto, key, queues, removed, handle, nonblock>>

\* The place of the message p would receive: the first that it wants, if any.
Takeable(p) ==
    {i \in 1 .. Len(Of(p)) : /\ Wants(p, Of(p)[i][2])
                             /\ \A j \in 1 .. i - 1 : ~Wants(p, Of(p)[j][2])}

\* mq_receive and msgrcv.
Receive(p) ==
    /\ at[p] = "receiving" /\ ~Gone(p)
    /\ \E i \in Takeable(p) :
         /\ received' = Append(received, Of(p)[i][1])
         /\ content' = [content EXCEPT ![handle[p]] = RemoveAt(@, i)]
    /\ Ends({p})
    /\ UNCHANGED <<facility, auto, key, queues, removed, handle, nonblock, sent>>

\* Nothing to receive: p sleeps.
Wait(p) ==
    /\ at[p] = "receiving" /\ ~Gone(p)
    /\ Takeable(p) = {} /\ want[p].how # "try" /\ ~nonblock[p]
    /\ at' = [at EXCEPT ![p] = "waiting"]
    /\ UNCHANGED <<facility, auto, key, queues, removed, content, handle, nonblock, want, sent, received>>

Blocked(p) == \/ at[p] = "sending" /\ (Gone(p) \/ (Len(Of(p)) >= MaxMsg /\ Waiters(handle[p], want[p].urgency) = {}))
              \/ at[p] = "receiving" /\ (Gone(p) \/ Takeable(p) = {})
              \/ at[p] = "waiting"

\* The call fails: a Try call or O_NONBLOCK, the time, or the queue is gone.
Fails(p) ==
    /\ Blocked(p)
    /\ Gone(p) \/ want[p].how \in {"try", "timed"} \/ nonblock[p]
    /\ Ends({p})
    /\ UNCHANGED <<facility, auto, key, queues, removed, content, handle, nonblock, sent, received>>

\* A signal ends a call that sleeps.
Interrupted(p) ==
    /\ Blocked(p)
    /\ Ends({p})
    /\ UNCHANGED <<facility, auto, key, queues, removed, content, handle, nonblock, sent, received>>

------------------------------------------------------------------------------

CallStep(p) == Send(p) \/ Receive(p) \/ Wait(p) \/ Fails(p)

MsgNext == \E p \in Peer : \/ CallStep(p) \/ CallSend(p) \/ CallRecv(p) \/ Interrupted(p)
                           \/ Construct(p) \/ Destruct(p) \/ Setattr(p)

\* A call that can go on does.
MsgFair == \A p \in Peer : WF_queueVars(CallStep(p))

MsgSpec == MsgInit /\ [][MsgNext]_queueVars /\ MsgFair

------------------------------------------------------------------------------
(* Properties. *)

Numbers(s) == {s[i][1] : i \in 1 .. Len(s)}

\* Every message whose Send returned is in its queue or was received, once, unless
\* a process that asked for it by its flag has removed or unlinked a queue.
KeptUntilTaken ==
    \A n \in 1 .. Len(sent) :
        LET taken == {i \in 1 .. Len(received) : received[i] = n}
            q     == sent[n].queue
        IN /\ n \in Numbers(content[q]) => taken = {}
           /\ \A i, j \in taken : i = j
           /\ n \in Numbers(content[q]) \/ taken # {} \/ (key # q /\ \E p \in Peer : auto[p])

\* Processes and queues agree: nobody sleeps for a message that is there, a queue
\* that is gone holds nothing, and no message is lost or received twice.
QueuesOK ==
    /\ key \in 0 .. queues /\ key \notin removed
    /\ \A p \in Peer : /\ handle[p] \in 0 .. queues
                       /\ at[p] = "out" <=> handle[p] = 0
                       /\ at[p] = "waiting" => \A i \in 1 .. Len(Of(p)) : ~Wants(p, Of(p)[i][2])
    /\ \A q \in Queue : Len(content[q]) <= MaxMsg /\ (q \in removed => content[q] = <<>>)
    /\ KeptUntilTaken

\* Who receives gets the oldest message of the greatest priority (POSIX), or the
\* oldest of the type it asked for, however senders and receivers interleave.
TakesTheFirst ==
    [][\A p \in Peer :
          at[p] = "receiving" /\ Len(received') > Len(received) /\ at'[p] = "free" =>
              LET m == <<Last(received'), sent[Last(received')].urgency>>
              IN /\ Wants(p, m[2])
                 /\ \A i \in 1 .. Len(Of(p)) :
                      LET o == Of(p)[i]
                      IN IF facility = "PosixMsgQ" THEN o[2] < m[2] \/ (o[2] = m[2] /\ o[1] >= m[1])
                         ELSE Wants(p, o[2]) => o[1] >= m[1]]_queueVars

InCall(p) == at[p] \in {"sending", "receiving", "waiting"}

\* A call with a time limit ends, and so does one on a System V queue that its key
\* no longer stands for.  (One on a POSIX queue without a name goes on waiting.)
EndsWithItsQueue ==
    \A p \in Peer :
        InCall(p) /\ (want[p].how = "timed" \/ (facility = "SysVMsgQ" /\ key # handle[p]))
            ~> ~InCall(p)
=============================================================================
