-------------------------------- MODULE MCIpc --------------------------------
(***************************************************************************)
(* What processes share through the system: a circular queue in shared     *)
(* memory, a message queue, a pipe for descriptors, or a piece of memory.  *)
(* The four share nothing, so a behaviour has only one of them.            *)
(***************************************************************************)
EXTENDS ShmQueue, MsgQueues, FdPipe, Segments

CONSTANTS c1, c2, u1, u2, a, b, f, g

VARIABLE shares

IpcInit == shares \in {"memory", "messages", "files", "pieces"} /\ Init /\ MsgInit /\ PipeInit /\ ShareInit
           /\ (shares # "messages" => facility = "PosixMsgQ" /\ \A p \in Peer : ~auto[p])
           /\ (shares # "files" => holds = {})
           /\ (shares # "pieces" => /\ memory = "file" /\ \A p \in Sharer : ~autoRemove[p] /\ ~autoDetach[p]
                                    /\ asks = [p \in Sharer |-> 1])

IpcNext == \/ shares = "memory" /\ Next /\ UNCHANGED <<shares, queueVars, pipeVars, sharedVars>>
           \/ shares = "messages" /\ MsgNext /\ UNCHANGED <<shares, vars, pipeVars, sharedVars>>
           \/ shares = "files" /\ PipeNext /\ UNCHANGED <<shares, vars, queueVars, sharedVars>>
           \/ shares = "pieces" /\ ShareNext /\ UNCHANGED <<shares, vars, queueVars, pipeVars>>

IpcSpec == IpcInit /\ [][IpcNext]_<<shares, vars, queueVars, pipeVars, sharedVars>> /\ MsgFair
=============================================================================
