------------------------------ MODULE ShmCall ------------------------------
(***************************************************************************)
(* Calls from lambda_master to one of its worker processes through shared  *)
(* memory: the channel (shmipc/shmipc.cpp), the transfer of messages of    *)
(* any length over its single buffer (large_send and large_receive of      *)
(* shmipc/shmipc.hpp), the caller (shm_call and bulk_eval of               *)
(* lambda/lambda_master.cpp), the listener thread of the worker            *)
(* (lambda/pylambda.cpp) and the reaping of a worker that has died         *)
(* (process/process_unix.cpp).                                             *)
(*                                                                         *)
(* A section under m_lock is one step.  All waits on the condition         *)
(* variables are timed and recheck their condition, so a waiting thread is *)
(* one whose next step is the recheck; no wakeup can be lost.  A message   *)
(* is its call, its direction and its length; a piece of it is where in    *)
(* the message it begins and how many bytes it has.  The worker may die    *)
(* between any two steps.                                                  *)
(***************************************************************************)
EXTENDS Integers, Sequences

CONSTANTS
  BufferSize,         \* m_buffer_size
  Lengths,            \* the lengths a request or a reply may have
  MaxCalls,           \* bound: calls the master makes on the worker
  MaxSpawns           \* bound: other workers the master starts meanwhile

ASSUME ShmCallAssumption ==
  /\ BufferSize \in Nat /\ BufferSize > 1
  /\ Lengths \subseteq Nat
  /\ MaxCalls \in Nat
  /\ MaxSpawns \in Nat

VARIABLES
  client_connecting, server_listening,
  m_count,            \* the two semaphore counts, by the side that receives
  m_buffer_content_size,
  m_buffer,           \* the piece that was copied last into the buffer
  pc,                 \* what each side is doing
  msg,                \* the message each side sends
  sent,               \* how much of it large_send() has sent
  received,           \* what large_receive() has copied out so far
  last_receivelen,
  terminating,        \* m_shared_memory_thread_terminating
  connection,         \* the master has a shared memory client for the proxy
  worker,             \* is the proxy's worker the first one or its replacement
  process,            \* the process behind the channel: "running", "zombie", "gone"
  handler,            \* sigchld_handler is installed
  sigchld,            \* SIGCHLD is pending
  result,             \* how the last call ended
  calls, spawns

channel == <<client_connecting, server_listening, m_count, m_buffer_content_size, m_buffer>>
transfer == <<msg, sent, received, last_receivelen>>
system == <<worker, process, handler, sigchld, spawns>>
master == <<connection, result, calls>>
vars == <<channel, pc, transfer, terminating, system, master>>

Sides == {"client", "server"}
Peer(s) == IF s = "client" THEN "server" ELSE "client"

NoMessage == [call |-> 0, kind |-> "none", len |-> 0]
NoPiece == [of |-> NoMessage, from |-> 0, len |-> 0]

\* server::bind(), and the launch of the listener.
Init ==
  /\ client_connecting = FALSE /\ server_listening = FALSE
  /\ m_count = [s \in Sides |-> 0]
  /\ m_buffer_content_size = 0 /\ m_buffer = NoPiece
  /\ pc = [s \in Sides |-> "start"]
  /\ msg = [s \in Sides |-> NoMessage]
  /\ sent = [s \in Sides |-> 0]
  /\ received = [s \in Sides |-> <<>>]
  /\ last_receivelen = [s \in Sides |-> 0]
  /\ terminating = FALSE
  /\ connection = FALSE /\ result = "none" /\ calls = 0
  /\ worker = "first" /\ process = "running"
  /\ handler = TRUE /\ sigchld = FALSE /\ spawns = 0

Goto(s, l) == pc' = [pc EXCEPT ![s] = l]
-----------------------------------------------------------------------------
(* Definitions whose comment starts with "Variant" are faulty versions of  *)
(* the definition that follows; nothing in the specification uses them.    *)

(* wait_for_connect() and connect(): each side sets its flag and waits for *)
(* the other's.                                                            *)

Listen ==
  /\ pc["server"] = "start"
  /\ server_listening' = TRUE
  /\ Goto("server", IF client_connecting THEN "recv" ELSE "listening")
  /\ UNCHANGED <<client_connecting, m_count, m_buffer_content_size, m_buffer,
                 transfer, terminating, system, master>>

Accept ==
  /\ pc["server"] = "listening"
  /\ client_connecting
  /\ Goto("server", "recv")
  /\ UNCHANGED <<channel, transfer, terminating, system, master>>

ListenTimeout ==
  /\ pc["server"] = "listening"
  /\ ~ client_connecting
  /\ server_listening' = FALSE
  /\ Goto("server", IF terminating THEN "stopped" ELSE "start")
  /\ UNCHANGED <<client_connecting, m_count, m_buffer_content_size, m_buffer,
                 transfer, terminating, system, master>>

Connect ==
  /\ pc["client"] = "start"
  /\ client_connecting' = TRUE
  /\ connection' = server_listening
  /\ Goto("client", IF server_listening THEN "idle" ELSE "connecting")
  /\ UNCHANGED <<server_listening, m_count, m_buffer_content_size, m_buffer,
                 transfer, terminating, system, result, calls>>

Connected ==
  /\ pc["client"] = "connecting"
  /\ server_listening
  /\ connection' = TRUE
  /\ Goto("client", "idle")
  /\ UNCHANGED <<channel, transfer, terminating, system, result, calls>>

ConnectTimeout ==
  /\ pc["client"] = "connecting"
  /\ ~ server_listening
  /\ client_connecting' = FALSE
  /\ Goto("client", "idle")
  /\ UNCHANGED <<server_listening, m_count, m_buffer_content_size, m_buffer,
                 transfer, terminating, system, master>>
-----------------------------------------------------------------------------
(* client::send() and server::send(): refused while the buffer is in use.  *)

MaySend == m_buffer_content_size = 0

Put(s, piece) ==
  /\ m_buffer_content_size' = piece.len
  /\ m_buffer' = IF piece.len > 0 THEN piece ELSE m_buffer
  /\ m_count' = [m_count EXCEPT ![Peer(s)] = @ + 1]
  /\ UNCHANGED <<client_connecting, server_listening>>

Piece(m, from, len) == [of |-> m, from |-> from, len |-> len]

(* generic_receiver(): the message count falls, and the buffer counts as   *)
(* empty from here on, although its content is still to be copied.         *)

\* Variant: the sender is never checked.
is_process_running_always(s) == TRUE

is_process_running(s) == s = "client" \/ process # "gone"

\* Variant: the count is not taken down.
TakeKeepsCount(s) ==
  /\ m_count[s] > 0
  /\ last_receivelen' = [last_receivelen EXCEPT ![s] = m_buffer_content_size]
  /\ m_buffer_content_size' = 0
  /\ UNCHANGED <<client_connecting, server_listening, m_buffer, m_count>>

Take(s) ==
  /\ m_count[s] > 0
  /\ last_receivelen' = [last_receivelen EXCEPT ![s] = m_buffer_content_size]
  /\ m_buffer_content_size' = 0
  /\ m_count' = [m_count EXCEPT ![s] = @ - 1]
  /\ UNCHANGED <<client_connecting, server_listening, m_buffer>>

SenderIsGone(s) == m_count[s] = 0 /\ ~ is_process_running(Peer(s))
-----------------------------------------------------------------------------
(* large_send().  Both callers go on to large_receive() whether it has     *)
(* succeeded or not.                                                       *)

SendShort(s) ==
  /\ pc[s] = "send" /\ msg[s].len < BufferSize - 1
  /\ IF MaySend THEN Put(s, Piece(msg[s], 0, msg[s].len)) ELSE UNCHANGED channel
  /\ Goto(s, "recv")
  /\ UNCHANGED <<transfer, terminating, system, master>>

\* Variant: no terminator after a message that fills its last buffer.
MoreToSendNoTerminator(s, done) == done < msg[s].len

MoreToSend(s, done) == done < msg[s].len \/ (done = msg[s].len /\ done % BufferSize = 0)

SendFull(s) ==
  /\ pc[s] = "send" /\ msg[s].len >= BufferSize - 1
  /\ MaySend
  /\ Put(s, Piece(msg[s], 0, BufferSize))
  /\ sent' = [sent EXCEPT ![s] = BufferSize]
  /\ Goto(s, IF MoreToSend(s, BufferSize) THEN "ack" ELSE "recv")
  /\ UNCHANGED <<msg, received, last_receivelen, terminating, system, master>>

\* Variant: the next piece is sent without waiting for the acknowledgement.
ReceiveAckAtOnce(s) ==
  /\ pc[s] = "ack"
  /\ Goto(s, "next")
  /\ UNCHANGED <<channel, transfer, terminating, system, master>>

ReceiveAck(s) ==
  /\ pc[s] = "ack"
  /\ Take(s)
  /\ Goto(s, "next")
  /\ UNCHANGED <<msg, sent, received, terminating, system, master>>

\* The next piece; after the whole message, the empty terminator.
SendNext(s) ==
  /\ pc[s] = "next"
  /\ MaySend
  /\ LET left == msg[s].len - sent[s]
         len  == IF left < BufferSize THEN left ELSE BufferSize
     IN  /\ Put(s, Piece(msg[s], sent[s], len))
         /\ sent' = [sent EXCEPT ![s] = @ + len]
         /\ Goto(s, IF len > 0 /\ MoreToSend(s, sent[s] + len) THEN "ack" ELSE "recv")
  /\ UNCHANGED <<msg, received, last_receivelen, terminating, system, master>>

SendFails(s) ==
  /\ \/ pc[s] = "ack" /\ SenderIsGone(s)
     \/ pc[s] = "send" /\ msg[s].len >= BufferSize - 1 /\ ~ MaySend
     \/ pc[s] = "next" /\ ~ MaySend
  /\ Goto(s, "recv")
  /\ UNCHANGED <<channel, transfer, terminating, system, master>>
-----------------------------------------------------------------------------
(* large_receive()                                                         *)

Receive(s) ==
  /\ pc[s] = "recv"
  /\ Take(s)
  /\ Goto(s, "copy")
  /\ UNCHANGED <<msg, sent, received, terminating, system, master>>

Copy(s) ==
  /\ pc[s] = "copy"
  /\ received' = [received EXCEPT ![s] =
       IF last_receivelen[s] = 0 THEN @
       ELSE Append(@, Piece(m_buffer.of, m_buffer.from, last_receivelen[s]))]
  /\ Goto(s, IF last_receivelen[s] < BufferSize THEN "done" ELSE "send_ack")
  /\ UNCHANGED <<channel, msg, sent, last_receivelen, terminating, system, master>>

SendAck(s) ==
  /\ pc[s] = "send_ack"
  /\ MaySend
  /\ Put(s, NoPiece)
  /\ Goto(s, "recv")
  /\ UNCHANGED <<transfer, terminating, system, master>>

\* Variant: a receive without a timeout gives up after the first wait.
ReceiveFailsEarly(s) ==
  /\ \/ pc[s] = "recv" /\ m_count[s] = 0
     \/ pc[s] = "send_ack" /\ ~ MaySend
  /\ Goto(s, IF s = "client" THEN "failed" ELSE "recv")
  /\ received' = [received EXCEPT ![s] = <<>>]
  /\ UNCHANGED <<channel, msg, sent, last_receivelen, terminating, system, master>>

\* large_receive() returns false.
ReceiveFails(s) ==
  /\ \/ pc[s] = "recv" /\ SenderIsGone(s)
     \/ pc[s] = "send_ack" /\ ~ MaySend
  /\ Goto(s, IF s = "client" THEN "failed" ELSE "recv")
  /\ received' = [received EXCEPT ![s] = <<>>]
  /\ UNCHANGED <<channel, msg, sent, last_receivelen, terminating, system, master>>

\* The listener's receive has a timeout, for the first piece of a message only.
ReceiveTimeout ==
  /\ pc["server"] = "recv"
  /\ m_count["server"] = 0 /\ received["server"] = <<>>
  /\ Goto("server", IF terminating THEN "stopped" ELSE "recv")
  /\ UNCHANGED <<channel, transfer, terminating, system, master>>

Transfer(s) ==
  \/ SendShort(s) \/ SendFull(s) \/ ReceiveAck(s) \/ SendNext(s) \/ SendFails(s)
  \/ Receive(s) \/ Copy(s) \/ SendAck(s) \/ ReceiveFails(s)
-----------------------------------------------------------------------------
(* The listener evaluates a request and sends the reply (or an error).     *)

Evaluate ==
  /\ pc["server"] = "done"
  /\ \E len \in Lengths :
       msg' = [msg EXCEPT !["server"] =
                 [call |-> IF received["server"] = <<>> THEN 0 ELSE received["server"][1].of.call,
                  kind |-> "reply", len |-> len]]
  /\ sent' = [sent EXCEPT !["server"] = 0]
  /\ received' = [received EXCEPT !["server"] = <<>>]
  /\ Goto("server", "send")
  /\ UNCHANGED <<channel, last_receivelen, terminating, system, master>>

(* bulk_eval() of lambda_master: through shared memory if there is a       *)
(* connection, through cppipc if there is none or it has failed.           *)

BulkEval ==
  /\ pc["client"] = "idle" /\ calls < MaxCalls
  /\ calls' = calls + 1
  /\ \E len \in Lengths :
       msg' = [msg EXCEPT !["client"] = [call |-> calls + 1, kind |-> "request", len |-> len]]
  /\ sent' = [sent EXCEPT !["client"] = 0]
  /\ received' = [received EXCEPT !["client"] = <<>>]
  /\ Goto("client", IF connection THEN "send" ELSE "ipc")
  /\ UNCHANGED <<channel, last_receivelen, terminating, system, connection, result>>

Return ==
  /\ pc["client"] = "done"
  /\ result' = "reply"
  /\ Goto("client", "release")
  /\ UNCHANGED <<channel, transfer, terminating, system, connection, calls>>

ResetConnection ==
  /\ pc["client"] = "failed"
  /\ connection' = FALSE
  /\ Goto("client", "ipc")
  /\ UNCHANGED <<channel, transfer, terminating, system, result, calls>>

\* The call through the proxy.  A replacement has never been given the lambda.
IpcCall ==
  /\ pc["client"] = "ipc"
  /\ result' = IF worker = "replacement" THEN "unknown_lambda"
               ELSE IF process = "running" THEN "reply" ELSE "comm_failure"
  /\ Goto("client", "release")
  /\ UNCHANGED <<channel, transfer, terminating, system, connection, calls>>

\* release_worker(): a dead worker is waited for and replaced.  The connection
\* is found by the address of the proxy, which the new proxy may have got too.
ReleaseWorker ==
  /\ pc["client"] = "release"
  /\ Goto("client", "idle")
  /\ IF worker = "first" /\ process # "running"
       THEN /\ worker' = "replacement"
            /\ process' = "gone"
            /\ connection' \in {connection, FALSE}
       ELSE UNCHANGED <<worker, process, connection>>
  /\ UNCHANGED <<channel, transfer, terminating, handler, sigchld, spawns, result, calls>>

\* The pool is destroyed and with it the evaluator: ~pylambda_evaluator().
Close ==
  /\ pc["client"] = "idle"
  /\ terminating' = TRUE
  /\ Goto("client", "closed")
  /\ UNCHANGED <<channel, transfer, system, master>>
-----------------------------------------------------------------------------
(* The worker process dies; SIGCHLD is delivered if the handler is         *)
(* installed.  autoreap() for another process removes the handler for a    *)
(* moment, and with it a signal that is still pending.                     *)

Die ==
  /\ process = "running"
  /\ process' = "zombie"
  /\ sigchld' = handler
  /\ Goto("server", "dead")
  /\ UNCHANGED <<channel, transfer, terminating, worker, handler, spawns, master>>

sigchld_handler ==
  /\ sigchld
  /\ sigchld' = FALSE
  /\ process' = IF process = "zombie" THEN "gone" ELSE process
  /\ UNCHANGED <<channel, pc, transfer, terminating, worker, handler, spawns, master>>

uninstall_sigchld_handler ==
  /\ handler /\ spawns < MaxSpawns
  /\ handler' = FALSE /\ sigchld' = FALSE
  /\ spawns' = spawns + 1
  /\ UNCHANGED <<channel, pc, transfer, terminating, worker, process, master>>

install_sigchld_handler ==
  /\ ~ handler
  /\ handler' = TRUE
  /\ UNCHANGED <<channel, pc, transfer, terminating, worker, process, sigchld, spawns, master>>

autoreap == uninstall_sigchld_handler \/ install_sigchld_handler
-----------------------------------------------------------------------------
ClientStep ==
  \/ Connect \/ Connected \/ ConnectTimeout
  \/ Transfer("client") \/ Return \/ ResetConnection \/ IpcCall \/ ReleaseWorker

ServerStep ==
  \/ Listen \/ Accept \/ ListenTimeout \/ ReceiveTimeout
  \/ Transfer("server") \/ Evaluate

Next ==
  \/ ClientStep \/ BulkEval \/ Close
  \/ ServerStep \/ Die
  \/ sigchld_handler \/ autoreap

Spec == Init /\ [][Next]_vars

(* Both processes are scheduled, an evaluation ends, a signal is delivered *)
(* and a call of autoreap() ends.  Nothing makes the master call or close. *)
FairSpec ==
  /\ Spec
  /\ WF_vars(ClientStep) /\ WF_vars(ServerStep)
  /\ WF_vars(sigchld_handler) /\ WF_vars(install_sigchld_handler)
-----------------------------------------------------------------------------
ClientPC == {"start", "connecting", "idle", "send", "ack", "next", "recv", "copy",
             "send_ack", "done", "failed", "ipc", "release", "closed"}
ServerPC == {"start", "listening", "send", "ack", "next", "recv", "copy",
             "send_ack", "done", "dead", "stopped"}
Messages == [call : 0 .. MaxCalls, kind : {"none", "request", "reply"}, len : Nat]
Pieces == [of : Messages, from : Nat, len : Nat]

\* The types of the fields.  The channel never holds more than one message, and
\* no length leaves the range of the buffer.
TypeOK ==
  /\ client_connecting \in BOOLEAN /\ server_listening \in BOOLEAN
  /\ m_count \in [Sides -> 0 .. 1]
  /\ m_count["client"] + m_count["server"] <= 1
  /\ m_buffer_content_size \in 0 .. BufferSize /\ m_buffer \in Pieces
  /\ pc \in [Sides -> ClientPC \cup ServerPC]
  /\ pc["client"] \in ClientPC /\ pc["server"] \in ServerPC
  /\ msg \in [Sides -> Messages]
  /\ sent \in [Sides -> Nat]
  /\ received \in [Sides -> Seq(Pieces)]
  /\ last_receivelen \in [Sides -> 0 .. BufferSize]
  /\ terminating \in BOOLEAN /\ connection \in BOOLEAN
  /\ result \in {"none", "reply", "comm_failure", "unknown_lambda"}
  /\ worker \in {"first", "replacement"} /\ process \in {"running", "zombie", "gone"}
  /\ handler \in BOOLEAN /\ sigchld \in BOOLEAN
  /\ calls \in 0 .. MaxCalls /\ spawns \in 0 .. MaxSpawns

\* The pieces, put together, are the message: nothing missing, nothing added.
IsWhole(pieces, m) ==
  LET n == Len(pieces)
  IN  /\ \A i \in 1 .. n : pieces[i].of = m /\ pieces[i].from = (i - 1) * BufferSize
      /\ \A i \in 1 .. n - 1 : pieces[i].len = BufferSize
      /\ m.len = IF n = 0 THEN 0 ELSE pieces[n].from + pieces[n].len

\* What large_receive() returns is exactly one message: the worker evaluates the
\* request of the call that is going on, and the master gets the reply to it,
\* whatever their lengths, over any number of calls on the same channel.
MessagesIntact ==
  /\ pc["server"] = "done" => IsWhole(received["server"], msg["client"])
  /\ pc["client"] = "done" => /\ IsWhole(received["client"], msg["server"])
                              /\ msg["server"].call = calls

\* receive_direct() hands out the shared buffer after it has marked it as empty:
\* the other side does not write into it until it has been copied.
BufferStable ==
  [][\A s \in Sides : pc[s] = "copy" /\ pc'[s] = "copy" => m_buffer' = m_buffer]_vars

\* A call gives up the shared memory connection, or fails, only if the worker
\* has died: no timeout and no order of the steps costs a call.
OnlyDeathCostsACall ==
  pc["client"] = "failed" \/ result \in {"comm_failure", "unknown_lambda"}
    => process # "running"

\* The signal that would have had the dead worker reaped has been lost.
SignalLost == process = "zombie" /\ ~ sigchld

\* The connection is made or given up, every call returns to the caller even if
\* the worker dies during it (unless the signal of its death is lost), and the
\* listener stops once it has been told to.
EveryCallReturns ==
  /\ (pc["client"] \notin {"idle", "closed"})
       ~> (pc["client"] \in {"idle", "closed"} \/ SignalLost)
  /\ terminating ~> (pc["server"] \in {"stopped", "dead"})

\* "Mark that this process should be automatically reaped" (process/process.hpp):
\* a registered process that has died does not stay a zombie.
DeadWorkerIsReaped == (process = "zombie") ~> (process = "gone")
=============================================================================
