------------------------------- MODULE CppIpc -------------------------------
(***************************************************************************)
(* A cppipc client and its server: remote calls (comm_client::call() and   *)
(* comm_server::callback()), the objects that the server keeps for the     *)
(* proxies of the client (object_proxy, the reference counts of            *)
(* comm_client, the registry of comm_server), the ping thread, which also  *)
(* decides whether the server is alive, and the way of a Ctrl-C from the   *)
(* signal handler over a ping to the command that it should cancel.        *)
(*                                                                         *)
(* The server has one thread for calls and one for control messages.       *)
(* Calls come from the main thread only, as comm_client::call() demands;   *)
(* proxies may be dropped by every thread of Threads.  A message may be    *)
(* refused by the socket, a ping may take longer than the client waits for *)
(* it, and the server may die.  A result is the object it holds, if it     *)
(* holds one; an execution that throws is one whose result holds none.     *)
(*                                                                         *)
(* poll_server_pid_is_running() does nothing, since no code sets the pid   *)
(* that it would watch: only pings tell that the server has died.          *)
(*                                                                         *)
(* Definitions whose comment starts with "Variant" are faulty versions of  *)
(* the definition that follows them.                                       *)
(***************************************************************************)
EXTENDS Integers, Sequences, FiniteSets

CONSTANTS
  Threads, Main,      \* the client's threads; Main makes the calls
  Pointers,           \* the objects the server may return
  MaxCommands,        \* bound: commands the client issues
  MaxIds,             \* bound: object IDs the server hands out
  MaxPresses,         \* bound: times the user presses Ctrl-C
  MaxControl,         \* bound: pings on their way to the server
  Tolerable           \* num_tolerable_ping_failures; -1 for (size_t)(-1), which
                      \* is the default of the constructor: no failure counts

ASSUME CppIpcAssumption ==
  /\ Main \in Threads
  /\ MaxCommands \in Nat /\ MaxIds \in Nat /\ MaxPresses \in Nat
  /\ MaxControl \in Nat \ {0} /\ Tolerable \in (Nat \ {0}) \cup {-1}
  /\ 0 \notin Pointers

VARIABLES
  running, cancelled, \* get_running_command(), get_cancelled_command()
  cancel_on,          \* m_cancel_on, the flag the signal handler sets
  handler,            \* the signal handler: where it is and what it has loaded
  presses,
  m_command_id,
  pc,                 \* what each client thread is doing
  dropped,            \* the object a thread asks the server to delete
  object_ref_count,   \* 0: no entry
  server_alive, ping_failure_count,
  ping,               \* what the ping thread is doing
  ping_answered,      \* the future of the ping has a value
  reply,              \* the value of the future of the call
  calls, control,     \* messages on the object and on the control socket
  up,                 \* the server process runs
  srv_running, cancel_bit_checked,
  serving,            \* the command that is executed; polled is history: it
                      \* has called must_cancel()
  response,           \* its reply, before it is sent
  registered,         \* registered_objects; 0: no entry
  object_ids,         \* object IDs handed out so far
  interrupted,        \* history: commands the user has interrupted
  raised,             \* history: commands for which SIGINT was raised again
  orphaned,           \* history: IDs that the client has lost: in a reply that
                      \* nobody has received, in a deletion that was refused
  contended           \* history: IDs of which the last proxy was dropped and
                      \* not yet reported to the server while Main was calling

signal == <<cancelled, cancel_on, handler, presses, interrupted>>
client == <<m_command_id, running, pc, dropped, object_ref_count, raised, contended>>
pinger == <<ping_failure_count, ping>>
registry == <<registered, object_ids>>
command == <<serving, response, cancel_bit_checked, registry>>
vars == <<signal, client, pinger, server_alive, ping_answered, reply, calls, control,
          up, srv_running, command, orphaned>>

Ids == 1 .. MaxIds
CANCEL == -1          \* uint64_t(-1) in srv_running_command
NoCall == [cmd |-> 0, polled |-> FALSE]
NoReply == [cmd |-> 0, status |-> "none", id |-> 0, cancel |-> "none", polled |-> FALSE]

Init ==
  /\ running = 0 /\ cancelled = 0 /\ cancel_on = FALSE /\ presses = 0
  /\ handler = [at |-> "none", id |-> 0]
  /\ m_command_id = 0
  /\ pc = [t \in Threads |-> "idle"] /\ dropped = [t \in Threads |-> 0]
  /\ object_ref_count = [o \in Ids |-> 0]
  /\ server_alive = TRUE /\ ping_failure_count = 0
  /\ ping = "sleeping" /\ ping_answered = FALSE
  /\ reply = NoReply /\ calls = <<>> /\ control = <<>>
  /\ up = TRUE /\ srv_running = 0 /\ cancel_bit_checked = FALSE
  /\ serving = NoCall /\ response = NoReply
  /\ registered = [o \in Ids |-> 0] /\ object_ids = 0
  /\ interrupted = {} /\ raised = {}
  /\ orphaned = {} /\ contended = {}

\* A message that the socket has taken arrives in order, unless the process at
\* the other end has died.
Put(socket, m) == IF up THEN Append(socket, m) ELSE socket

\* The answer of the socket itself, EHOSTUNREACH, to a message it could not send.
Unreachable(c) ==
  [cmd |-> c, status |-> "unreachable", id |-> 0, cancel |-> "none", polled |-> FALSE]

(***************************************************************************)
(* The client: calls.                                                      *)
(***************************************************************************)

\* call(), up to the wait in internal_call(): a call on the root object 0 or on a
\* proxy.  The SIGINT handler is installed for as long as pc[Main] is "calling".
CallStart(o) ==
  /\ pc[Main] = "idle" /\ m_command_id < MaxCommands
  /\ o # 0 => object_ref_count[o] > 0
  /\ m_command_id' = m_command_id + 1
  /\ running' = m_command_id + 1
  /\ pc' = [pc EXCEPT ![Main] = "calling"]
  /\ \/ /\ calls' = Put(calls, [kind |-> "call", cmd |-> m_command_id + 1, obj |-> o,
                               from |-> Main])
        /\ UNCHANGED reply
     \/ /\ reply' = Unreachable(m_command_id + 1)
        /\ UNCHANGED calls
  /\ contended' = contended \cup {dropped[t] : t \in {u \in Threads : pc[u] = "deleting"}}
  /\ UNCHANGED <<signal, dropped, object_ref_count, raised, pinger, server_alive,
                 ping_answered, control, up, srv_running, command, orphaned>>

\* The end of call(): the handler is removed, and a Ctrl-C is raised again for
\* Python when the reply does not say that the command looks for one.
CallEnd(rep) ==
  /\ raised' = IF running # 0 /\ running = cancelled /\ rep.cancel = "none"
                 THEN raised \cup {m_command_id} ELSE raised
  /\ running' = 0
  /\ pc' = [pc EXCEPT ![Main] = "idle"]
  /\ reply' = NoReply

\* internal_call() has a reply, from the server or from the socket.  An object
\* ID in it becomes a proxy.
CallReturns ==
  /\ pc[Main] = "calling" /\ server_alive /\ reply # NoReply
  /\ CallEnd(reply)
  /\ object_ref_count' = [o \in Ids |-> object_ref_count[o] + IF o = reply.id THEN 1 ELSE 0]
  /\ orphaned' = orphaned \ {reply.id}
  /\ UNCHANGED <<signal, m_command_id, dropped, contended, pinger, server_alive,
                 ping_answered, calls, control, up, srv_running, command>>

\* internal_call() returns EHOSTUNREACH once server_alive is false, even when
\* the reply has just arrived.
CallGivesUp ==
  /\ pc[Main] = "calling" /\ ~ server_alive
  /\ CallEnd(NoReply)
  /\ orphaned' = orphaned \cup ({reply.id} \ {0})
  /\ UNCHANGED <<signal, m_command_id, dropped, object_ref_count, contended, pinger,
                 server_alive, ping_answered, calls, control, up, srv_running, command>>

(***************************************************************************)
(* The client: proxies.                                                    *)
(***************************************************************************)

\* Variant: the count is decremented twice.
DropVariantTwice(t, o) ==
  /\ pc[t] = "idle" /\ object_ref_count[o] > 0
  /\ object_ref_count' = [object_ref_count EXCEPT ![o] = @ - 2]
  /\ IF object_ref_count[o] = 1
       THEN /\ pc' = [pc EXCEPT ![t] = "deleting"]
            /\ dropped' = [dropped EXCEPT ![t] = o]
            /\ contended' = IF pc[Main] = "calling" THEN contended \cup {o} ELSE contended
       ELSE UNCHANGED <<pc, dropped, contended>>
  /\ UNCHANGED <<signal, m_command_id, running, raised, pinger, server_alive,
                 ping_answered, reply, calls, control, up, srv_running, command, orphaned>>

\* A proxy is destroyed: decr_ref_count(), the part under ref_count_lock.
Drop(t, o) ==
  /\ pc[t] = "idle" /\ object_ref_count[o] > 0
  /\ object_ref_count' = [object_ref_count EXCEPT ![o] = @ - 1]
  /\ IF object_ref_count[o] = 1
       THEN /\ pc' = [pc EXCEPT ![t] = "deleting"]
            /\ dropped' = [dropped EXCEPT ![t] = o]
            /\ contended' = IF pc[Main] = "calling" THEN contended \cup {o} ELSE contended
       ELSE UNCHANGED <<pc, dropped, contended>>
  /\ UNCHANGED <<signal, m_command_id, running, raised, pinger, server_alive,
                 ping_answered, reply, calls, control, up, srv_running, command, orphaned>>

\* send_deletion_list(), up to the wait: a message without a command ID.  Its
\* result is not looked at, so a deletion that is refused is over at once.
SendDeletion(t) ==
  /\ pc[t] = "deleting"
  /\ pc' = [pc EXCEPT ![t] = "waiting"]
  /\ \/ /\ calls' = Put(calls, [kind |-> "delete", cmd |-> 0, obj |-> dropped[t],
                               from |-> t])
        /\ UNCHANGED <<dropped, orphaned>>
     \/ /\ orphaned' = orphaned \cup {dropped[t]}
        /\ dropped' = [dropped EXCEPT ![t] = 0]
        /\ UNCHANGED calls
  /\ UNCHANGED <<signal, m_command_id, running, object_ref_count, raised, contended,
                 pinger, server_alive, ping_answered, reply, control, up, srv_running,
                 command>>


\* internal_call() returns, with a reply (whoever answers clears dropped[t]) or
\* since the server is thought dead.  Nobody looks at its result.
DeletionReturns(t) ==
  /\ pc[t] = "waiting"
  /\ dropped[t] = 0 \/ ~ server_alive
  /\ pc' = [pc EXCEPT ![t] = "idle"]
  /\ dropped' = [dropped EXCEPT ![t] = 0]
  /\ UNCHANGED <<signal, m_command_id, running, object_ref_count, raised, contended,
                 pinger, server_alive, ping_answered, reply, calls, control, up,
                 srv_running, command, orphaned>>

(***************************************************************************)
(* Ctrl-C.  The handler is not atomic: it sets the flag, loads the running *)
(* command and stores it, and may run in any thread.                       *)
(***************************************************************************)
CtrlC ==
  /\ pc[Main] = "calling" /\ handler.at = "none" /\ presses < MaxPresses
  /\ presses' = presses + 1
  /\ cancel_on' = TRUE
  /\ handler' = [at |-> "flagged", id |-> 0]
  /\ UNCHANGED <<cancelled, interrupted, client, pinger, server_alive, ping_answered,
                 reply, calls, control, up, srv_running, command, orphaned>>

\* r.load().  The command that the user interrupts is the one of Main.
HandlerLoads ==
  /\ handler.at = "flagged"
  /\ handler' = [at |-> "loaded", id |-> running]
  /\ interrupted' = IF pc[Main] = "calling" THEN interrupted \cup {m_command_id}
                    ELSE interrupted
  /\ UNCHANGED <<cancelled, cancel_on, presses, client, pinger, server_alive,
                 ping_answered, reply, calls, control, up, srv_running, command, orphaned>>

HandlerStores ==
  /\ handler.at = "loaded"
  /\ cancelled' = handler.id
  /\ handler' = [at |-> "none", id |-> 0]
  /\ UNCHANGED <<cancel_on, presses, interrupted, client, pinger, server_alive,
                 ping_answered, reply, calls, control, up, srv_running, command, orphaned>>

(***************************************************************************)
(* The ping thread of comm_client::start().                                *)
(***************************************************************************)

\* A ping is sent, or refused: the future then has a value at once, and nobody
\* looks at the status in it.
PingSent(body) ==
  /\ ping' = "waiting"
  /\ \/ control' = Put(control, body) /\ UNCHANGED ping_answered
     \/ ping_answered' = TRUE /\ UNCHANGED control

\* get_cancel_flag(); without a Ctrl-C an empty ping is sent.
PingChecksFlag ==
  /\ ping = "sleeping" /\ Len(control) < MaxControl
  /\ \/ cancel_on /\ ping' = "clearing" /\ UNCHANGED <<control, ping_answered>>
     \/ ~ cancel_on /\ PingSent(0)
  /\ UNCHANGED <<signal, client, ping_failure_count, server_alive, reply, calls, up,
                 srv_running, command, orphaned>>

PingClearsFlag ==
  /\ ping = "clearing"
  /\ cancel_on' = FALSE
  /\ ping' = "loading"
  /\ UNCHANGED <<cancelled, handler, presses, interrupted, client, ping_failure_count,
                 server_alive, ping_answered, reply, calls, control, up, srv_running,
                 command, orphaned>>

\* "ctrlc" followed by the cancelled command.
PingSendsCancel ==
  /\ ping = "loading"
  /\ PingSent(cancelled)
  /\ UNCHANGED <<signal, client, ping_failure_count, server_alive, reply, calls, up,
                 srv_running, command, orphaned>>

PingIsAnswered ==
  /\ ping = "waiting" /\ ping_answered
  /\ ping' = "sleeping" /\ ping_answered' = FALSE
  /\ server_alive' = TRUE /\ ping_failure_count' = 0
  /\ UNCHANGED <<signal, client, reply, calls, control, up, srv_running, command, orphaned>>

\* Five seconds without an answer.  Failures after the last tolerable one
\* change nothing more and are not counted.
PingTimesOut ==
  /\ ping = "waiting" /\ ~ ping_answered
  /\ ping' = "sleeping"
  /\ ping_failure_count' = IF ping_failure_count < Tolerable
                             THEN ping_failure_count + 1 ELSE ping_failure_count
  /\ server_alive' = (server_alive /\ ping_failure_count' # Tolerable)
  /\ UNCHANGED <<signal, client, ping_answered, reply, calls, control, up, srv_running,
                 command, orphaned>>

(***************************************************************************)
(* The server.                                                             *)
(***************************************************************************)

\* Variant: whatever command runs is cancelled.
PingServedVariantAny ==
  /\ up /\ control # <<>>
  /\ srv_running' = IF Head(control) # 0 /\ srv_running # 0 THEN CANCEL ELSE srv_running
  /\ control' = Tail(control)
  /\ ping_answered' = (ping_answered \/ (ping = "waiting" /\ Len(control) = 1))
  /\ UNCHANGED <<signal, client, pinger, server_alive, reply, calls, up, command, orphaned>>

\* object_factory_impl::ping(), on the control socket: the comparison and the
\* exchange are one atomic operation.  The last ping is the one the client
\* waits for, if it still waits.
PingServed ==
  /\ up /\ control # <<>>
  /\ srv_running' = IF Head(control) # 0 /\ srv_running = Head(control)
                      THEN CANCEL ELSE srv_running
  /\ control' = Tail(control)
  /\ ping_answered' = (ping_answered \/ (ping = "waiting" /\ Len(control) = 1))
  /\ UNCHANGED <<signal, client, pinger, server_alive, reply, calls, up, command, orphaned>>

\* The reply reaches the call if Main still waits for it; an object ID in one
\* that comes too late is known to nobody.
Deliver(rep) ==
  LET awaited == pc[Main] = "calling" /\ m_command_id = rep.cmd IN
  /\ reply' = IF awaited THEN rep ELSE reply
  /\ orphaned' = IF awaited THEN orphaned ELSE orphaned \cup ({rep.id} \ {0})

NoObject(c) ==
  [cmd |-> c, status |-> "NO_OBJECT", id |-> 0, cancel |-> "none", polled |-> FALSE]

\* callback(), up to the execution.  Nothing is set for an unknown object.
CommandStarts ==
  /\ up /\ serving = NoCall /\ calls # <<>>
  /\ LET m == Head(calls) IN
     /\ m.kind = "call"
     /\ IF m.obj = 0 \/ registered[m.obj] # 0
          THEN /\ srv_running' = m.cmd
               /\ serving' = [cmd |-> m.cmd, polled |-> FALSE]
               /\ UNCHANGED <<reply, orphaned>>
          ELSE /\ Deliver(NoObject(m.cmd))
               /\ UNCHANGED <<srv_running, serving>>
  /\ calls' = Tail(calls)
  /\ UNCHANGED <<signal, client, pinger, server_alive, ping_answered, control, up,
                 response, cancel_bit_checked, registry>>

\* must_cancel(), called by the code of the command.
CommandPolls ==
  /\ up /\ serving # NoCall /\ response = NoReply
  /\ cancel_bit_checked' = TRUE
  /\ serving' = [cmd |-> serving.cmd, polled |-> TRUE]
  /\ UNCHANGED <<signal, client, pinger, server_alive, ping_answered, reply, calls,
                 control, up, srv_running, response, registry, orphaned>>

\* A new entry.  get_next_object_id() repeats itself only after 2^64 - 1 IDs.
NewObject(p) ==
  [id |-> object_ids + 1, ids |-> object_ids + 1,
   registered |-> [i \in Ids |-> IF i = object_ids + 1 THEN p ELSE registered[i]]]

\* register_object(): an object has one ID for as long as it is registered.
register_object(p) ==
  IF \E i \in Ids : registered[i] = p
    THEN [id |-> CHOOSE i \in Ids : registered[i] = p, ids |-> object_ids,
          registered |-> registered]
    ELSE NewObject(p)

\* The execution ends: its result is serialized, and the reply says whether
\* the command has looked for a Ctrl-C and whether there was one.
CommandReturns(p) ==
  /\ up /\ serving # NoCall /\ response = NoReply
  /\ LET r == IF p = 0 THEN [id |-> 0, ids |-> object_ids, registered |-> registered]
              ELSE register_object(p)
     IN  /\ r.ids <= MaxIds
         /\ object_ids' = r.ids /\ registered' = r.registered
         /\ response' = [cmd |-> serving.cmd, status |-> "OK", id |-> r.id,
                         cancel |-> IF ~ cancel_bit_checked THEN "none"
                                    ELSE IF srv_running = CANCEL THEN "true" ELSE "false",
                         polled |-> serving.polled]
  /\ UNCHANGED <<signal, client, pinger, server_alive, ping_answered, reply, calls,
                 control, up, srv_running, serving, cancel_bit_checked, orphaned>>

\* The end of callback(): a Ctrl-C for this command ends with it.
CommandEnds ==
  /\ up /\ response # NoReply
  /\ srv_running' = 0 /\ cancel_bit_checked' = FALSE
  /\ serving' = NoCall /\ response' = NoReply
  /\ Deliver(response)
  /\ UNCHANGED <<signal, client, pinger, server_alive, ping_answered, calls, control,
                 up, registry>>

\* sync_objects() with a list of inactive objects, and its answer, which is for
\* the last deletion of its thread if the thread still waits.
DeletionServed ==
  /\ up /\ serving = NoCall /\ calls # <<>>
  /\ LET m == Head(calls) IN
     /\ m.kind = "delete"
     /\ registered' = [registered EXCEPT ![m.obj] = 0]
     /\ dropped' = IF /\ pc[m.from] = "waiting"
                      /\ \A i \in 2 .. Len(calls) : calls[i].from # m.from
                     THEN [dropped EXCEPT ![m.from] = 0] ELSE dropped
  /\ calls' = Tail(calls)
  /\ UNCHANGED <<signal, m_command_id, running, pc, object_ref_count, raised, contended,
                 pinger, server_alive, ping_answered, reply, control, up, srv_running, serving,
                 response, cancel_bit_checked, object_ids, orphaned>>

\* The process dies, and with it all the objects.
ServerDies ==
  /\ up
  /\ up' = FALSE
  /\ calls' = <<>> /\ control' = <<>>
  /\ srv_running' = 0 /\ cancel_bit_checked' = FALSE
  /\ serving' = NoCall /\ response' = NoReply
  /\ registered' = [o \in Ids |-> 0]
  /\ UNCHANGED <<signal, client, pinger, server_alive, ping_answered, reply, object_ids,
                 orphaned>>

(***************************************************************************)
(* The specification.                                                      *)
(***************************************************************************)
ServerNext ==
  \/ CommandStarts \/ CommandPolls \/ CommandEnds \/ DeletionServed
  \/ \E p \in Pointers \cup {0} : CommandReturns(p)

PingNext ==
  PingChecksFlag \/ PingClearsFlag \/ PingSendsCancel \/ PingIsAnswered \/ PingTimesOut

Next ==
  \/ \E o \in Ids \cup {0} : CallStart(o)
  \/ CallReturns \/ CallGivesUp
  \/ \E t \in Threads : \/ SendDeletion(t) \/ DeletionReturns(t)
                        \/ \E o \in Ids : Drop(t, o)
  \/ CtrlC \/ HandlerLoads \/ HandlerStores
  \/ PingNext \/ PingServed \/ ServerNext \/ ServerDies

Spec == Init /\ [][Next]_vars

\* Every command's execution ends, both server threads and the ping thread are
\* scheduled, and a client thread in internal_call() wakes up every 5 seconds.
Fairness ==
  /\ WF_vars(\E p \in Pointers \cup {0} : CommandReturns(p))
  /\ WF_vars(CommandStarts) /\ WF_vars(CommandEnds) /\ WF_vars(DeletionServed)
  /\ WF_vars(PingServed) /\ WF_vars(PingNext)
  /\ WF_vars(CallReturns \/ CallGivesUp)
  /\ \A t \in Threads : WF_vars(SendDeletion(t)) /\ WF_vars(DeletionReturns(t))

FairSpec == Spec /\ Fairness

(***************************************************************************)
(* Properties.                                                             *)
(***************************************************************************)
Replies == [cmd : 0 .. MaxCommands, status : {"none", "OK", "NO_OBJECT", "unreachable"},
            id : 0 .. MaxIds, cancel : {"none", "true", "false"}, polled : BOOLEAN]
Messages == [kind : {"call", "delete"}, cmd : 0 .. MaxCommands, obj : 0 .. MaxIds,
             from : Threads]

TypeOK ==
  /\ m_command_id \in 0 .. MaxCommands /\ running \in 0 .. MaxCommands
  /\ cancelled \in 0 .. MaxCommands /\ cancel_on \in BOOLEAN
  /\ handler \in [at : {"none", "flagged", "loaded"}, id : 0 .. MaxCommands]
  /\ presses \in 0 .. MaxPresses
  /\ pc \in [Threads -> {"idle", "calling", "deleting", "waiting"}]
  /\ dropped \in [Threads -> 0 .. MaxIds]
  /\ object_ref_count \in [Ids -> Nat]
  /\ server_alive \in BOOLEAN /\ ping_failure_count \in 0 .. Tolerable \cup {0}
  /\ ping \in {"sleeping", "clearing", "loading", "waiting"} /\ ping_answered \in BOOLEAN
  /\ reply \in Replies /\ response \in Replies
  /\ calls \in Seq(Messages) /\ control \in Seq(0 .. MaxCommands)
  /\ up \in BOOLEAN /\ srv_running \in CANCEL .. MaxCommands
  /\ cancel_bit_checked \in BOOLEAN
  /\ serving \in [cmd : 0 .. MaxCommands, polled : BOOLEAN]
  /\ registered \in [Ids -> Pointers \cup {0}] /\ object_ids \in 0 .. MaxIds
  /\ interrupted \subseteq 1 .. MaxCommands /\ raised \subseteq 1 .. MaxCommands
  /\ orphaned \subseteq Ids /\ contended \subseteq Ids

\* CancelIsForItsCommand: only a command that the user has interrupted is
\* cancelled by the server or raises SIGINT again at its end, however late its
\* ping arrives, and the reply speaks of a Ctrl-C iff its own command has
\* called must_cancel().
CancelIsForItsCommand ==
  /\ srv_running = CANCEL => serving.cmd \in interrupted
  /\ raised \subseteq interrupted
  /\ (reply.cancel # "none") <=> reply.polled

\* The reply or the message that an object ID waits in.
InFlight(o) ==
  \/ o \in {reply.id, response.id}
  \/ \E t \in Threads : dropped[t] = o
  \/ \E i \in DOMAIN calls : calls[i].kind = "delete" /\ calls[i].obj = o

\* RegistryFollowsProxies: an object that a proxy refers to is registered while
\* the server lives, unless another thread was dropping the last proxy before it
\* during a call of Main; a registered object has a proxy, is on its way to get
\* one or to be deleted, or was lost in a late reply or a refused deletion; no
\* object is registered under two IDs.
RegistryFollowsProxies ==
  /\ \A o \in Ids : object_ref_count[o] > 0 => registered[o] # 0 \/ ~ up \/ o \in contended
  /\ \A o \in Ids : registered[o] # 0 =>
                      object_ref_count[o] > 0 \/ InFlight(o) \/ o \in orphaned
  /\ \A o, q \in Ids : registered[o] # 0 /\ registered[o] = registered[q] => o = q

\* From some time on the control socket takes every ping.
PingRefused == ping # "waiting" /\ ping' = "waiting" /\ ping_answered'
PingsAreSent == <>[][~ PingRefused]_vars

=============================================================================
