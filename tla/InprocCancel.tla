---------------------------- MODULE InprocCancel ----------------------------
(***************************************************************************)
(* The process that holds a cppipc server, its client and the clients of   *)
(* the lambda workers (unity_server_capi.cpp and worker_pool.hpp): the     *)
(* running command, the cancelled command and the flag of the signal       *)
(* handler exist once per process, so the calls that a command makes on    *)
(* lambda workers use them too.                                            *)
(***************************************************************************)
EXTENDS CppIpc

VARIABLE worker_call    \* the command waits for a call on a worker

\* call() of a worker's client, which numbers its commands itself.
WorkerCallStarts(k) ==
  /\ serving # NoCall /\ response = NoReply /\ ~ worker_call
  /\ running' = k
  /\ worker_call' = TRUE
  /\ UNCHANGED <<signal, m_command_id, pc, dropped, object_ref_count, raised, contended,
                 pinger, server_alive, ping_answered, reply, calls, control, up, srv_running,
                 command, orphaned>>

\* Its end resets the running command.
WorkerCallEnds ==
  /\ worker_call
  /\ running' = 0
  /\ worker_call' = FALSE
  /\ UNCHANGED <<signal, m_command_id, pc, dropped, object_ref_count, raised, contended,
                 pinger, server_alive, ping_answered, reply, calls, control, up, srv_running,
                 command, orphaned>>

InprocInit == Init /\ worker_call = FALSE

\* The server does not die without its client, and a command that waits for a
\* worker neither returns nor looks for a Ctrl-C.
InprocNext ==
  \/ Next /\ up' /\ (worker_call => UNCHANGED command) /\ UNCHANGED worker_call
  \/ \E k \in 1 .. MaxCommands : WorkerCallStarts(k)
  \/ WorkerCallEnds

InprocSpec == InprocInit /\ [][InprocNext]_<<vars, worker_call>>
=============================================================================
