---------------------------- MODULE CppIpcProofs ----------------------------
(***************************************************************************)
(* The safety properties of CppIpc for every set of threads and objects,   *)
(* any number of commands, object IDs, pings and Ctrl-Cs.                  *)
(***************************************************************************)
EXTENDS CppIpc, TLAPS

\* get_running_command() is the command of the call that is going on.
RunningIsTheCall ==
  IF pc[Main] = "calling" THEN m_command_id >= 1 /\ running = m_command_id
  ELSE running = 0

\* A thread that is about to send a deletion has the ID of an object.
DeletersHaveDropped == \A t \in Threads : pc[t] = "deleting" => dropped[t] # 0

TypeInv == TypeOK /\ RunningIsTheCall /\ DeletersHaveDropped

\* A command ID on its way from the signal handler to the server is the one of
\* an interrupted command.
CancelsAreInterrupted ==
  /\ handler.id # 0 => handler.id \in interrupted
  /\ cancelled # 0 => cancelled \in interrupted
  /\ \A i \in 1 .. Len(control) : control[i] # 0 => control[i] \in interrupted

\* The globals of the server belong to the command that it executes.
GlobalsBelongToServing ==
  /\ srv_running = CANCEL => serving.cmd \in interrupted
  /\ srv_running \notin {0, CANCEL} => srv_running = serving.cmd
  /\ cancel_bit_checked <=> serving.polled
  /\ (response.cancel # "none") <=> response.polled

CancelInv == /\ CancelsAreInterrupted
             /\ GlobalsBelongToServing
             /\ CancelIsForItsCommand

\* Main does not wait for the reply to command c any more.
Stale(c) == pc[Main] = "calling" => c < m_command_id

Queue == 1 .. Len(calls)
IsCall(i) == calls[i].kind = "call"
IsDelete(i) == calls[i].kind = "delete"

\* Nothing is left of a server that has died.
DeadServerIsEmpty ==
  ~ up => /\ calls = <<>> /\ serving = NoCall /\ response = NoReply
          /\ \A o \in Ids : registered[o] = 0

\* A command is in one place: in the queue, executed, or over.
CommandsAreUnique ==
  /\ serving.cmd <= m_command_id
  /\ response # NoReply => serving # NoCall /\ response.cmd = serving.cmd
  /\ \A i \in Queue : IsCall(i) => calls[i].cmd \in 1 .. m_command_id /\ calls[i].cmd # serving.cmd
  /\ \A i, j \in Queue : IsCall(i) /\ IsCall(j) /\ calls[i].cmd = calls[j].cmd => i = j

\* While a reply waits for Main its command is over, and so are the deletions
\* that were sent before the call.
ReplyIsTheLast ==
  /\ reply # NoReply => /\ pc[Main] = "calling" /\ serving.cmd # m_command_id
                        /\ \A i \in Queue : IsCall(i) => calls[i].cmd # m_command_id
  /\ reply.id # 0 => \A i \in Queue : IsDelete(i) => calls[i].obj \in contended

\* A thread has dropped an object only while it deletes it.  Between dropping
\* the last proxy and sending the deletion no other proxy appears, and Main is
\* not calling, or the object is contended.
DroppersHaveTheLast ==
  \A t \in Threads :
    /\ pc[t] \in {"idle", "calling"} => dropped[t] = 0
    /\ pc[t] = "deleting" =>
         \/ dropped[t] \in contended
         \/ object_ref_count[dropped[t]] = 0 /\ pc[Main] # "calling"

\* i is the last message of its thread, and deletes o.
IsLastDeletion(i, t, o) ==
  /\ IsDelete(i) /\ calls[i].obj = o /\ calls[i].from = t
  /\ \A j \in Queue : calls[j].from = t => j <= i

\* The deletion that a thread waits for is in the queue.
DeletionsAreAwaited ==
  \A t \in Threads :
    pc[t] = "waiting" /\ dropped[t] # 0 /\ up => \E i \in Queue : IsLastDeletion(i, t, dropped[t])

\* The commands that the server executes before message i are commands Main has
\* given up.
Late(i) == /\ serving # NoCall => Stale(serving.cmd)
           /\ \A j \in 1 .. i - 1 : IsCall(j) => Stale(calls[j].cmd)

\* When a deletion is on its way, the object has no proxy and Main will not get
\* one, or the object is contended.
DeletionsComeLate ==
  \A i \in Queue :
    IsDelete(i) => /\ calls[i].obj # 0
                   /\ \/ calls[i].obj \in contended
                      \/ object_ref_count[calls[i].obj] = 0 /\ Late(i)

\* An object ID that Main is about to receive is registered, or contended.
AnswersAreRegistered ==
  /\ reply.id # 0 /\ up => registered[reply.id] # 0 \/ reply.id \in contended
  /\ response.id # 0 /\ ~ Stale(response.cmd) => registered[response.id] # 0

RegistryInv == /\ DeadServerIsEmpty
               /\ CommandsAreUnique
               /\ ReplyIsTheLast
               /\ DroppersHaveTheLast
               /\ DeletionsAreAwaited
               /\ DeletionsComeLate
               /\ AnswersAreRegistered
               /\ RegistryFollowsProxies

USE DEF Ids, CANCEL

-----------------------------------------------------------------------------
(* Types.                                                                  *)

LEMMA NothingTyped ==
  /\ NoCall \in [cmd : 0 .. MaxCommands, polled : BOOLEAN]
  /\ NoReply \in Replies
  /\ NoReply.id = 0 /\ NoReply.cancel = "none" /\ NoReply.polled = FALSE
  /\ NoCall.cmd = 0 /\ NoCall.polled = FALSE
BY CppIpcAssumption DEF NoCall, NoReply, Replies

\* What a socket holds after a message has been put into it.
LEMMA PutProperties ==
  ASSUME NEW S, NEW q \in Seq(S), NEW m \in S, up \in BOOLEAN
  PROVE  /\ Put(q, m) \in Seq(S)
         /\ Len(Put(q, m)) \in {Len(q), Len(q) + 1}
         /\ up => Len(Put(q, m)) = Len(q) + 1
         /\ ~ up => Put(q, m) = q
         /\ \A i \in 1 .. Len(q) : Put(q, m)[i] = q[i]
         /\ up => Put(q, m)[Len(q) + 1] = m
BY DEF Put

\* What a socket holds after its first message has been taken out.
LEMMA TakeProperties ==
  ASSUME NEW S, NEW q \in Seq(S), q # <<>>
  PROVE  /\ Head(q) = q[1] /\ Head(q) \in S
         /\ Tail(q) \in Seq(S)
         /\ Len(q) \in Nat \ {0} /\ Len(Tail(q)) = Len(q) - 1
         /\ \A i \in 1 .. Len(q) - 1 : Tail(q)[i] = q[i + 1]
OBVIOUS

LEMMA ReplyTyped ==
  ASSUME NEW r \in Replies
  PROVE  /\ r.cmd \in 0 .. MaxCommands /\ r.id \in 0 .. MaxIds
         /\ r.polled \in BOOLEAN
         /\ {r.id} \ {0} \subseteq Ids
BY CppIpcAssumption DEF Replies

LEMMA NoObjectTyped ==
  ASSUME NEW c \in 0 .. MaxCommands
  PROVE  /\ NoObject(c) \in Replies /\ NoObject(c) # NoReply
         /\ NoObject(c).id = 0 /\ NoObject(c).cmd = c
         /\ NoObject(c).cancel = "none" /\ NoObject(c).polled = FALSE
BY CppIpcAssumption DEF NoObject, Replies, NoReply

LEMMA UnreachableTyped ==
  ASSUME NEW c \in 0 .. MaxCommands
  PROVE  /\ Unreachable(c) \in Replies /\ Unreachable(c) # NoReply
         /\ Unreachable(c).id = 0 /\ Unreachable(c).cmd = c
         /\ Unreachable(c).cancel = "none" /\ Unreachable(c).polled = FALSE
BY CppIpcAssumption DEF Unreachable, Replies, NoReply

\* register_object() gives an ID to the object and keeps the others.
LEMMA RegisterTyped ==
  ASSUME TypeOK, NEW p \in Pointers, register_object(p).ids <= MaxIds
  PROVE  /\ register_object(p).id \in Ids
         /\ register_object(p).ids \in 0 .. MaxIds
         /\ register_object(p).registered \in [Ids -> Pointers \cup {0}]
         /\ register_object(p).registered[register_object(p).id] = p
         /\ \A o \in Ids : o # register_object(p).id =>
              /\ register_object(p).registered[o] = registered[o]
              /\ registered[o] # p \/ registered[register_object(p).id] = p
<1>1. CASE \E i \in Ids : registered[i] = p
  <2> DEFINE i == CHOOSE i \in Ids : registered[i] = p
  <2>1. i \in Ids /\ registered[i] = p
    BY <1>1
  <2>2. register_object(p) = [id |-> i, ids |-> object_ids, registered |-> registered]
    BY <1>1 DEF register_object
  <2> HIDE DEF i
  <2>3. QED
    BY <2>1, <2>2 DEF TypeOK
<1>2. CASE ~ \E i \in Ids : registered[i] = p
  <2>1. register_object(p) = NewObject(p)
    BY <1>2 DEF register_object
  <2>2. QED
    BY <1>2, <2>1, CppIpcAssumption DEF NewObject, TypeOK
<1>3. QED
  BY <1>1, <1>2

LEMMA TypeInit == Init => TypeInv
<1> SUFFICES ASSUME Init PROVE TypeInv
  OBVIOUS
<1> USE CppIpcAssumption, NothingTyped DEF Init
<1>1. /\ cancel_on \in BOOLEAN /\ server_alive \in BOOLEAN /\ ping_answered \in BOOLEAN
      /\ up \in BOOLEAN /\ cancel_bit_checked \in BOOLEAN
  OBVIOUS
<1>2. /\ handler \in [at : {"none", "flagged", "loaded"}, id : 0 .. MaxCommands]
      /\ serving \in [cmd : 0 .. MaxCommands, polled : BOOLEAN]
      /\ reply \in Replies /\ response \in Replies
  OBVIOUS
<1>3. /\ m_command_id \in 0 .. MaxCommands /\ running \in 0 .. MaxCommands
      /\ cancelled \in 0 .. MaxCommands /\ presses \in 0 .. MaxPresses
      /\ ping_failure_count \in 0 .. Tolerable \cup {0} /\ srv_running \in CANCEL .. MaxCommands
      /\ object_ids \in 0 .. MaxIds
  OBVIOUS
<1>4. /\ pc \in [Threads -> {"idle", "calling", "deleting", "waiting"}]
      /\ dropped \in [Threads -> 0 .. MaxIds]
      /\ object_ref_count \in [Ids -> Nat]
      /\ registered \in [Ids -> Pointers \cup {0}]
  OBVIOUS
<1>5. calls \in Seq(Messages) /\ control \in Seq(0 .. MaxCommands)
  OBVIOUS
<1>6. RunningIsTheCall /\ DeletersHaveDropped
  BY DEF RunningIsTheCall, DeletersHaveDropped
<1>7. QED
  BY <1>1, <1>2, <1>3, <1>5, <1>6 DEF TypeOK, TypeInv

\* The type invariant by the parts of the state that the actions name.
SignalTyped ==
  /\ cancelled \in 0 .. MaxCommands /\ cancel_on \in BOOLEAN
  /\ handler \in [at : {"none", "flagged", "loaded"}, id : 0 .. MaxCommands]
  /\ presses \in 0 .. MaxPresses /\ interrupted \subseteq 1 .. MaxCommands

ClientTyped ==
  /\ m_command_id \in 0 .. MaxCommands /\ running \in 0 .. MaxCommands
  /\ pc \in [Threads -> {"idle", "calling", "deleting", "waiting"}]
  /\ dropped \in [Threads -> 0 .. MaxIds] /\ object_ref_count \in [Ids -> Nat]
  /\ raised \subseteq 1 .. MaxCommands /\ contended \subseteq Ids
  /\ RunningIsTheCall /\ DeletersHaveDropped

PingTyped ==
  /\ server_alive \in BOOLEAN /\ ping_failure_count \in 0 .. Tolerable \cup {0}
  /\ ping \in {"sleeping", "clearing", "loading", "waiting"} /\ ping_answered \in BOOLEAN

WireTyped ==
  /\ reply \in Replies /\ orphaned \subseteq Ids
  /\ calls \in Seq(Messages) /\ control \in Seq(0 .. MaxCommands)

CommandTyped ==
  /\ up \in BOOLEAN /\ srv_running \in CANCEL .. MaxCommands /\ cancel_bit_checked \in BOOLEAN
  /\ serving \in [cmd : 0 .. MaxCommands, polled : BOOLEAN] /\ response \in Replies
  /\ registered \in [Ids -> Pointers \cup {0}] /\ object_ids \in 0 .. MaxIds

LEMMA TypeInvParts ==
  /\ TypeInv => SignalTyped /\ ClientTyped /\ PingTyped /\ WireTyped /\ CommandTyped
  /\ SignalTyped' /\ ClientTyped' /\ PingTyped' /\ WireTyped' /\ CommandTyped' => TypeInv'
BY DEF TypeInv, TypeOK, SignalTyped, ClientTyped, PingTyped, WireTyped, CommandTyped

\* An action leaves the parts alone that it does not name.
LEMMA TypeUnchanged ==
  ASSUME TypeInv
  PROVE  /\ UNCHANGED signal => SignalTyped'
         /\ UNCHANGED client => ClientTyped'
         /\ UNCHANGED <<pinger, server_alive, ping_answered>> => PingTyped'
         /\ UNCHANGED <<reply, orphaned, calls, control>> => WireTyped'
         /\ UNCHANGED <<up, srv_running, command>> => CommandTyped'
<1> USE TypeInvParts
<1>1. UNCHANGED signal => SignalTyped'
  BY DEF SignalTyped, signal
<1>2. UNCHANGED client => ClientTyped'
  BY DEF ClientTyped, RunningIsTheCall, DeletersHaveDropped, client
<1>3. UNCHANGED <<pinger, server_alive, ping_answered>> => PingTyped'
  BY DEF PingTyped, pinger
<1>4. UNCHANGED <<reply, orphaned, calls, control>> => WireTyped'
  BY DEF WireTyped
<1>5. UNCHANGED <<up, srv_running, command>> => CommandTyped'
  BY DEF CommandTyped, command, registry
<1>6. QED
  BY <1>1, <1>2, <1>3, <1>4, <1>5

LEMMA DeliverTyped ==
  ASSUME WireTyped, NEW r \in Replies, Deliver(r)
  PROVE  reply' \in Replies /\ orphaned' \subseteq Ids
BY ReplyTyped DEF Deliver, WireTyped

\* The end of a call, whatever becomes of the reply.
LEMMA CallEndTyped ==
  ASSUME ClientTyped, NEW r, CallEnd(r), UNCHANGED <<m_command_id, dropped, contended>>,
         object_ref_count' \in [Ids -> Nat]
  PROVE  ClientTyped' /\ reply' \in Replies
<1> USE CppIpcAssumption DEF ClientTyped, CallEnd
<1>1. /\ pc' = [pc EXCEPT ![Main] = "idle"] /\ running' = 0
      /\ pc' \in [Threads -> {"idle", "calling", "deleting", "waiting"}]
  OBVIOUS
<1>2. raised' \subseteq 1 .. MaxCommands
  BY DEF RunningIsTheCall
<1>3. RunningIsTheCall' /\ DeletersHaveDropped'
  BY <1>1 DEF RunningIsTheCall, DeletersHaveDropped
<1>4. reply' \in Replies
  BY NothingTyped
<1>5. QED
  BY <1>1, <1>2, <1>3, <1>4

LEMMA TypeStep ==
  ASSUME TypeInv, [Next]_vars
  PROVE  TypeInv'
<1>0. SignalTyped /\ ClientTyped /\ PingTyped /\ WireTyped /\ CommandTyped
  BY TypeInvParts
<1> USE CppIpcAssumption
<1>1. ASSUME NEW o \in Ids \cup {0}, CallStart(o) PROVE TypeInv'
  <2> DEFINE m == [kind |-> "call", cmd |-> m_command_id + 1, obj |-> o, from |-> Main]
  <2>1. m_command_id + 1 \in 0 .. MaxCommands
    BY <1>0, <1>1 DEF CallStart, ClientTyped
  <2>2. m \in Messages
    BY <2>1 DEF Messages
  <2>3. WireTyped'
    <3>1. Put(calls, m) \in Seq(Messages)
      BY <1>0, <2>2, PutProperties DEF WireTyped, CommandTyped
    <3>2. /\ calls' \in {calls, Put(calls, m)}
          /\ reply' \in {reply, Unreachable(m_command_id + 1)}
          /\ UNCHANGED <<control, orphaned>>
      BY <1>1 DEF CallStart
    <3>3. reply' \in Replies
      BY <1>0, <2>1, <3>2, UnreachableTyped DEF WireTyped
    <3> HIDE DEF m
    <3>4. QED
      BY <1>0, <3>1, <3>2, <3>3 DEF WireTyped
  <2>4. ClientTyped'
    <3>1. contended' = contended \cup {dropped[t] : t \in {u \in Threads : pc[u] = "deleting"}}
      BY <1>1 DEF CallStart
    <3>2. contended' \subseteq Ids
      <4>1. \A t \in Threads : pc[t] = "deleting" => dropped[t] \in Ids
        BY <1>0 DEF ClientTyped, DeletersHaveDropped
      <4>2. ASSUME NEW x \in contended' PROVE x \in Ids
        BY <1>0, <3>1, <4>1, <4>2 DEF ClientTyped
      <4>3. QED
        BY <4>2
    <3>3. /\ pc' = [pc EXCEPT ![Main] = "calling"]
          /\ m_command_id' = m_command_id + 1 /\ running' = m_command_id + 1
          /\ UNCHANGED <<dropped, object_ref_count, raised>>
      BY <1>1 DEF CallStart
    <3>4. RunningIsTheCall' /\ DeletersHaveDropped'
      BY <1>0, <2>1, <3>3 DEF ClientTyped, RunningIsTheCall, DeletersHaveDropped
    <3>5. QED
      BY <1>0, <2>1, <3>2, <3>3, <3>4 DEF ClientTyped
  <2>5. QED
    BY <1>1, <2>3, <2>4, TypeUnchanged, TypeInvParts DEF CallStart
<1>2. CASE CallReturns
  <2>1. object_ref_count' \in [Ids -> Nat]
    BY <1>0, <1>2 DEF CallReturns, ClientTyped
  <2>2. ClientTyped' /\ reply' \in Replies
    BY <1>0, <1>2, <2>1, CallEndTyped DEF CallReturns
  <2>3. WireTyped'
    BY <1>0, <1>2, <2>2 DEF CallReturns, WireTyped
  <2>4. QED
    BY <1>2, <2>2, <2>3, TypeUnchanged, TypeInvParts DEF CallReturns
<1>3. CASE CallGivesUp
  <2>1. object_ref_count' \in [Ids -> Nat]
    BY <1>0, <1>3 DEF CallGivesUp, ClientTyped
  <2>2. ClientTyped' /\ reply' \in Replies
    BY <1>0, <1>3, <2>1, CallEndTyped DEF CallGivesUp
  <2>3. {reply.id} \ {0} \subseteq Ids
    BY <1>0, ReplyTyped DEF WireTyped
  <2>4. WireTyped'
    BY <1>0, <1>3, <2>2, <2>3 DEF CallGivesUp, WireTyped
  <2>5. QED
    BY <1>3, <2>2, <2>4, TypeUnchanged, TypeInvParts DEF CallGivesUp
<1>4. ASSUME NEW t \in Threads, SendDeletion(t) PROVE TypeInv'
  <2> DEFINE m == [kind |-> "delete", cmd |-> 0, obj |-> dropped[t], from |-> t]
  <2>1. m \in Messages
    BY <1>0 DEF ClientTyped, Messages
  <2>2. dropped[t] \in Ids
    BY <1>0, <1>4 DEF SendDeletion, ClientTyped, DeletersHaveDropped
  <2>3. /\ calls' \in {calls, Put(calls, m)}
        /\ orphaned' \in {orphaned, orphaned \cup {dropped[t]}}
        /\ dropped' \in {dropped, [dropped EXCEPT ![t] = 0]}
        /\ pc' = [pc EXCEPT ![t] = "waiting"] /\ pc[t] = "deleting"
        /\ UNCHANGED <<reply, control, m_command_id, running, object_ref_count, raised, contended>>
    BY <1>4 DEF SendDeletion
  <2>4. WireTyped'
    <3>1. Put(calls, m) \in Seq(Messages)
      BY <1>0, <2>1, PutProperties DEF WireTyped, CommandTyped
    <3> HIDE DEF m
    <3>2. QED
      BY <1>0, <2>2, <2>3, <3>1 DEF WireTyped
  <2> HIDE DEF m
  <2>5. dropped' \in [Threads -> 0 .. MaxIds]
    BY <1>0, <2>3 DEF ClientTyped
  <2>6. RunningIsTheCall' /\ DeletersHaveDropped'
    BY <1>0, <2>3 DEF ClientTyped, RunningIsTheCall, DeletersHaveDropped
  <2>7. ClientTyped'
    BY <1>0, <2>3, <2>5, <2>6 DEF ClientTyped
  <2>8. QED
    BY <1>4, <2>4, <2>7, TypeUnchanged, TypeInvParts DEF SendDeletion
<1>5. ASSUME NEW t \in Threads, DeletionReturns(t) PROVE TypeInv'
  <2>1. /\ pc' = [pc EXCEPT ![t] = "idle"] /\ dropped' = [dropped EXCEPT ![t] = 0]
        /\ pc[t] = "waiting"
        /\ UNCHANGED <<m_command_id, running, object_ref_count, raised, contended>>
    BY <1>5 DEF DeletionReturns
  <2>2. RunningIsTheCall' /\ DeletersHaveDropped'
    BY <1>0, <2>1 DEF ClientTyped, RunningIsTheCall, DeletersHaveDropped
  <2>3. ClientTyped'
    BY <1>0, <2>1, <2>2 DEF ClientTyped
  <2>4. QED
    BY <1>5, <2>3, TypeUnchanged, TypeInvParts DEF DeletionReturns
<1>6. ASSUME NEW t \in Threads, NEW o \in Ids, Drop(t, o) PROVE TypeInv'
  <2>1. /\ object_ref_count' = [object_ref_count EXCEPT ![o] = @ - 1] /\ object_ref_count[o] > 0
        /\ pc' \in {pc, [pc EXCEPT ![t] = "deleting"]} /\ pc[t] = "idle"
        /\ contended' \in {contended, contended \cup {o}}
        /\ UNCHANGED <<m_command_id, running, raised>>
    BY <1>6 DEF Drop
  <2>2. \/ dropped' = dropped /\ pc' = pc
        \/ dropped' = [dropped EXCEPT ![t] = o]
    BY <1>6 DEF Drop
  <2>3. object_ref_count' \in [Ids -> Nat]
    BY <1>0, <2>1 DEF ClientTyped
  <2>4. dropped' \in [Threads -> 0 .. MaxIds]
    BY <1>0, <2>2 DEF ClientTyped
  <2>5. RunningIsTheCall' /\ DeletersHaveDropped'
    BY <1>0, <2>1, <2>2 DEF ClientTyped, RunningIsTheCall, DeletersHaveDropped
  <2>6. contended' \subseteq Ids
    BY <1>0, <2>1 DEF ClientTyped
  <2>7. ClientTyped'
    BY <1>0, <2>1, <2>3, <2>4, <2>5, <2>6 DEF ClientTyped
  <2>8. QED
    BY <1>6, <2>7, TypeUnchanged, TypeInvParts DEF Drop
<1>7. CASE CtrlC
  <2>1. SignalTyped'
    BY <1>0, <1>7 DEF CtrlC, SignalTyped
  <2>2. QED
    BY <1>7, <2>1, TypeUnchanged, TypeInvParts DEF CtrlC
<1>8. CASE HandlerLoads
  <2>1. SignalTyped'
    BY <1>0, <1>8 DEF HandlerLoads, SignalTyped, ClientTyped, RunningIsTheCall
  <2>2. QED
    BY <1>8, <2>1, TypeUnchanged, TypeInvParts DEF HandlerLoads
<1>9. CASE HandlerStores
  <2>1. SignalTyped'
    BY <1>0, <1>9 DEF HandlerStores, SignalTyped
  <2>2. QED
    BY <1>9, <2>1, TypeUnchanged, TypeInvParts DEF HandlerStores
<1>10. ASSUME NEW c \in 0 .. MaxCommands, PingSent(c)
       PROVE  control' \in Seq(0 .. MaxCommands) /\ ping_answered' \in BOOLEAN /\ ping' = "waiting"
  <2>1. Put(control, c) \in Seq(0 .. MaxCommands)
    BY <1>0, PutProperties DEF WireTyped, CommandTyped
  <2>2. QED
    BY <1>0, <1>10, <2>1 DEF PingSent, WireTyped, PingTyped
<1>11. CASE PingChecksFlag
  <2>1. /\ control' \in Seq(0 .. MaxCommands) /\ ping_answered' \in BOOLEAN
        /\ ping' \in {"clearing", "waiting"}
    BY <1>0, <1>10, <1>11 DEF PingChecksFlag, WireTyped, PingTyped
  <2>2. PingTyped' /\ WireTyped'
    BY <1>0, <1>11, <2>1 DEF PingChecksFlag, PingTyped, WireTyped
  <2>3. QED
    BY <1>11, <2>2, TypeUnchanged, TypeInvParts DEF PingChecksFlag
<1>12. CASE PingClearsFlag
  <2>1. SignalTyped' /\ PingTyped'
    BY <1>0, <1>12 DEF PingClearsFlag, SignalTyped, PingTyped
  <2>2. QED
    BY <1>12, <2>1, TypeUnchanged, TypeInvParts DEF PingClearsFlag
<1>13. CASE PingSendsCancel
  <2>1. control' \in Seq(0 .. MaxCommands) /\ ping_answered' \in BOOLEAN /\ ping' = "waiting"
    BY <1>0, <1>10, <1>13 DEF PingSendsCancel, SignalTyped
  <2>2. PingTyped' /\ WireTyped'
    BY <1>0, <1>13, <2>1 DEF PingSendsCancel, PingTyped, WireTyped
  <2>3. QED
    BY <1>13, <2>2, TypeUnchanged, TypeInvParts DEF PingSendsCancel
<1>14. CASE PingIsAnswered \/ PingTimesOut
  <2>1. PingTyped'
    <3>1. server_alive' \in BOOLEAN /\ ping_answered' \in BOOLEAN
      BY <1>0, <1>14 DEF PingIsAnswered, PingTimesOut, PingTyped
    <3>2. ping_failure_count' \in 0 .. Tolerable \cup {0} /\ ping' = "sleeping"
      BY <1>0, <1>14 DEF PingIsAnswered, PingTimesOut, PingTyped
    <3>3. QED
      BY <3>1, <3>2 DEF PingTyped
  <2>2. QED
    BY <1>14, <2>1, TypeUnchanged, TypeInvParts DEF PingIsAnswered, PingTimesOut
<1>15. CASE PingServed
  <2>1. Head(control) \in 0 .. MaxCommands /\ Tail(control) \in Seq(0 .. MaxCommands)
    BY <1>0, <1>15, TakeProperties DEF PingServed, WireTyped
  <2>2. WireTyped'
    BY <1>0, <1>15, <2>1 DEF PingServed, WireTyped
  <2>3. PingTyped'
    BY <1>0, <1>15 DEF PingServed, PingTyped, pinger
  <2>4. CommandTyped'
    BY <1>0, <1>15 DEF PingServed, CommandTyped, command, registry
  <2>5. QED
    BY <1>15, <2>2, <2>3, <2>4, TypeUnchanged, TypeInvParts DEF PingServed
<1>16. CASE CommandStarts
  <2>1. Head(calls) \in Messages /\ Tail(calls) \in Seq(Messages)
    BY <1>0, <1>16, TakeProperties DEF CommandStarts, WireTyped
  <2>2. Head(calls).cmd \in 0 .. MaxCommands
    BY <2>1 DEF Messages
  <2>3. reply' \in Replies /\ orphaned' \subseteq Ids
    BY <1>0, <1>16, <2>2, NoObjectTyped, DeliverTyped DEF CommandStarts, WireTyped
  <2>4. WireTyped'
    BY <1>0, <1>16, <2>1, <2>3 DEF CommandStarts, WireTyped
  <2>5. CommandTyped'
    <3>1. /\ srv_running' \in CANCEL .. MaxCommands
          /\ serving' \in [cmd : 0 .. MaxCommands, polled : BOOLEAN]
      <4>1. CASE /\ srv_running' = Head(calls).cmd
                 /\ serving' = [cmd |-> Head(calls).cmd, polled |-> FALSE]
        BY <2>2, <4>1
      <4>2. CASE UNCHANGED <<srv_running, serving>>
        BY <1>0, <4>2 DEF CommandTyped
      <4>3. QED
        BY <1>16, <4>1, <4>2 DEF CommandStarts
    <3>2. QED
      BY <1>0, <1>16, <3>1 DEF CommandStarts, CommandTyped, registry
  <2>6. QED
    BY <1>16, <2>4, <2>5, TypeUnchanged, TypeInvParts DEF CommandStarts
<1>17. CASE CommandPolls
  <2>1. CommandTyped'
    BY <1>0, <1>17 DEF CommandPolls, CommandTyped, registry
  <2>2. QED
    BY <1>17, <2>1, TypeUnchanged, TypeInvParts DEF CommandPolls
<1>18. ASSUME NEW p \in Pointers \cup {0}, CommandReturns(p)
       PROVE  TypeInv'
  <2>1. PICK i \in 0 .. MaxIds : \E c \in {"none", "true", "false"} :
          /\ object_ids' \in 0 .. MaxIds
          /\ registered' \in [Ids -> Pointers \cup {0}]
          /\ response' = [cmd |-> serving.cmd, status |-> "OK", id |-> i, cancel |-> c,
                          polled |-> serving.polled]
    <3>1. CASE p = 0
      BY <1>0, <1>18, <3>1 DEF CommandReturns, CommandTyped
    <3>2. CASE p # 0
      <4> DEFINE r == register_object(p)
      <4>1. /\ r.ids <= MaxIds
            /\ object_ids' = r.ids /\ registered' = r.registered
            /\ \E c \in {"none", "true", "false"} :
                 response' = [cmd |-> serving.cmd, status |-> "OK", id |-> r.id, cancel |-> c,
                              polled |-> serving.polled]
        BY <1>18, <3>2 DEF CommandReturns
      <4>2. /\ r.id \in 0 .. MaxIds /\ r.ids \in 0 .. MaxIds
            /\ r.registered \in [Ids -> Pointers \cup {0}]
        BY <3>2, <4>1, RegisterTyped DEF TypeInv
      <4> HIDE DEF r
      <4>3. QED
        BY <4>1, <4>2
    <3>3. QED
      BY <3>1, <3>2
  <2>2. response' \in Replies
    BY <1>0, <2>1 DEF Replies, CommandTyped
  <2>3. CommandTyped'
    BY <1>0, <1>18, <2>1, <2>2 DEF CommandReturns, CommandTyped
  <2>4. QED
    BY <1>18, <2>3, TypeUnchanged, TypeInvParts DEF CommandReturns
<1>19. CASE CommandEnds
  <2>1. reply' \in Replies /\ orphaned' \subseteq Ids
    BY <1>0, <1>19, DeliverTyped DEF CommandEnds, CommandTyped
  <2>2. WireTyped'
    BY <1>0, <1>19, <2>1 DEF CommandEnds, WireTyped
  <2>3. CommandTyped'
    <3>1. up' \in BOOLEAN /\ cancel_bit_checked' \in BOOLEAN
      BY <1>0, <1>19 DEF CommandEnds, CommandTyped
    <3>2. QED
      BY <1>0, <1>19, <3>1, NothingTyped DEF CommandEnds, CommandTyped, registry
  <2>4. QED
    BY <1>19, <2>2, <2>3, TypeUnchanged, TypeInvParts DEF CommandEnds
<1>20. CASE DeletionServed
  <2>1. Head(calls) \in Messages /\ Tail(calls) \in Seq(Messages)
    BY <1>0, <1>20, TakeProperties DEF DeletionServed, WireTyped
  <2>2. Head(calls).from \in Threads
    BY <2>1 DEF Messages
  <2>3. WireTyped'
    BY <1>0, <1>20, <2>1 DEF DeletionServed, WireTyped
  <2>4. CommandTyped'
    BY <1>0, <1>20 DEF DeletionServed, CommandTyped
  <2>5. /\ dropped' \in {dropped, [dropped EXCEPT ![Head(calls).from] = 0]}
        /\ dropped' # dropped => pc[Head(calls).from] = "waiting"
        /\ UNCHANGED <<m_command_id, running, pc, object_ref_count, raised, contended>>
    BY <1>20 DEF DeletionServed
  <2>6. dropped' \in [Threads -> 0 .. MaxIds]
    BY <1>0, <2>2, <2>5 DEF ClientTyped
  <2>7. RunningIsTheCall' /\ DeletersHaveDropped'
    BY <1>0, <2>2, <2>5 DEF ClientTyped, RunningIsTheCall, DeletersHaveDropped
  <2>8. ClientTyped'
    BY <1>0, <2>5, <2>6, <2>7 DEF ClientTyped
  <2>9. QED
    BY <1>20, <2>3, <2>4, <2>8, TypeUnchanged, TypeInvParts DEF DeletionServed
<1>21. CASE ServerDies
  <2>1. WireTyped'
    BY <1>0, <1>21 DEF ServerDies, WireTyped
  <2>2. CommandTyped'
    <3>1. up' \in BOOLEAN /\ cancel_bit_checked' \in BOOLEAN
      BY <1>21 DEF ServerDies
    <3>2. QED
      BY <1>0, <1>21, <3>1, NothingTyped DEF ServerDies, CommandTyped
  <2>3. QED
    BY <1>21, <2>1, <2>2, TypeUnchanged, TypeInvParts DEF ServerDies
<1>22. CASE UNCHANGED vars
  BY <1>22, TypeUnchanged, TypeInvParts DEF vars
<1>23. QED
  BY <1>1, <1>2, <1>3, <1>4, <1>5, <1>6, <1>7, <1>8, <1>9, <1>11, <1>12, <1>13, <1>14,
     <1>15, <1>16, <1>17, <1>18, <1>19, <1>20, <1>21, <1>22
  DEF Next, PingNext, ServerNext

\* Type correctness: every field of the client, of the server and of the
\* messages between them keeps its type, for every bound.
THEOREM TypeCorrect == Spec => []TypeOK
<1>1. TypeInv /\ [Next]_vars => TypeInv'
  BY TypeStep
<1>2. TypeInv => TypeOK
  BY DEF TypeInv
<1>3. QED
  BY <1>1, <1>2, TypeInit, PTL DEF Spec

-----------------------------------------------------------------------------
(* Ctrl-C.                                                                 *)

LEMMA CancelInit == Init => CancelInv
BY NothingTyped DEF Init, CancelInv, CancelsAreInterrupted, GlobalsBelongToServing,
   CancelIsForItsCommand

\* A reply that is delivered says what the command has done.
LEMMA DeliverKeepsPolled ==
  ASSUME NEW r, Deliver(r), (r.cancel # "none") <=> r.polled,
         (reply.cancel # "none") <=> reply.polled
  PROVE  (reply'.cancel # "none") <=> reply'.polled
BY DEF Deliver

\* At the end of a call SIGINT is raised only for an interrupted command.
LEMMA CallEndRaises ==
  ASSUME TypeOK, RunningIsTheCall, CancelInv, NEW r, CallEnd(r)
  PROVE  /\ raised' \subseteq interrupted
         /\ (reply'.cancel # "none") <=> reply'.polled
BY NothingTyped DEF CallEnd, TypeOK, RunningIsTheCall, CancelInv, CancelsAreInterrupted,
   CancelIsForItsCommand

\* A ping with the ID of an interrupted command, or without one.
LEMMA PutCancels ==
  ASSUME TypeOK, CancelInv, NEW c \in 0 .. MaxCommands, c # 0 => c \in interrupted
  PROVE  \A i \in 1 .. Len(Put(control, c)) :
           Put(control, c)[i] # 0 => Put(control, c)[i] \in interrupted
<1> DEFINE q == Put(control, c)
<1>1. /\ up \in BOOLEAN /\ control \in Seq(0 .. MaxCommands) /\ Len(control) \in Nat
      /\ \A i \in 1 .. Len(control) : control[i] # 0 => control[i] \in interrupted
  BY DEF TypeOK, CancelInv, CancelsAreInterrupted
<1>2. CASE up
  <2>1. /\ Len(q) = Len(control) + 1
        /\ \A i \in 1 .. Len(control) : q[i] = control[i]
        /\ q[Len(control) + 1] = c
    <3>1. q = Append(control, c)
      BY <1>2 DEF Put
    <3> HIDE DEF q
    <3>2. QED
      BY <1>1, <3>1
  <2> HIDE DEF q
  <2>2. \A i \in 1 .. Len(q) : q[i] # 0 => q[i] \in interrupted
    BY <1>1, <2>1
  <2>3. QED
    BY <2>2 DEF q
<1>3. CASE ~ up
  BY <1>1, <1>3 DEF Put
<1>4. QED
  BY <1>1, <1>2, <1>3

LEMMA CancelStep ==
  ASSUME TypeOK, RunningIsTheCall, CancelInv, [Next]_vars
  PROVE  CancelInv'
<1> USE DEF CancelInv, CancelsAreInterrupted, GlobalsBelongToServing, CancelIsForItsCommand
<1>1. ASSUME NEW o \in Ids \cup {0}, CallStart(o) PROVE CancelInv'
  <2>1. m_command_id + 1 \in 0 .. MaxCommands
    BY <1>1, CppIpcAssumption DEF CallStart, TypeOK
  <2>2. (reply'.cancel # "none") <=> reply'.polled
    BY <1>1, <2>1, UnreachableTyped DEF CallStart
  <2>3. QED
    BY <1>1, <2>2 DEF CallStart, signal, command
<1>2. CASE CallReturns
  BY <1>2, CallEndRaises DEF CallReturns, signal, command
<1>3. CASE CallGivesUp
  BY <1>3, CallEndRaises DEF CallGivesUp, signal, command
<1>5. ASSUME NEW t \in Threads, SendDeletion(t) PROVE CancelInv'
  BY <1>5 DEF SendDeletion, signal, command
<1>6. ASSUME NEW t \in Threads, DeletionReturns(t) PROVE CancelInv'
  BY <1>6 DEF DeletionReturns, signal, command
<1>7. ASSUME NEW t \in Threads, NEW o \in Ids, Drop(t, o) PROVE CancelInv'
  BY <1>7 DEF Drop, signal, command
<1>8. CASE CtrlC
  BY <1>8 DEF CtrlC, client, command
<1>9. CASE HandlerLoads
  BY <1>9 DEF HandlerLoads, client, command, RunningIsTheCall
<1>10. CASE HandlerStores
  BY <1>10 DEF HandlerStores, client, command
<1>11. CASE PingChecksFlag
  <2>1. \A i \in 1 .. Len(control') : control'[i] # 0 => control'[i] \in interrupted
    <3>1. CASE control' = control
      BY <3>1
    <3>2. CASE control' = Put(control, 0)
      <4>1. 0 \in 0 .. MaxCommands
        BY CppIpcAssumption
      <4>2. \A i \in 1 .. Len(Put(control, 0)) :
              Put(control, 0)[i] # 0 => Put(control, 0)[i] \in interrupted
        BY <4>1, PutCancels
      <4>3. QED
        BY <3>2, <4>2
    <3>3. QED
      BY <1>11, <3>1, <3>2 DEF PingChecksFlag, PingSent
  <2>2. QED
    BY <1>11, <2>1 DEF PingChecksFlag, signal, client, command
<1>12. CASE PingClearsFlag
  BY <1>12 DEF PingClearsFlag, client, command
<1>13. CASE PingSendsCancel
  <2>1. \A i \in 1 .. Len(control') : control'[i] # 0 => control'[i] \in interrupted
    BY <1>13, PutCancels DEF PingSendsCancel, PingSent, TypeOK
  <2>2. QED
    BY <1>13, <2>1 DEF PingSendsCancel, signal, client, command
<1>14. CASE PingIsAnswered
  BY <1>14 DEF PingIsAnswered, signal, client, command
<1>15. CASE PingTimesOut
  BY <1>15 DEF PingTimesOut, signal, client, command
<1>16. CASE PingServed
  <2>1. /\ Head(control) # 0 => Head(control) \in interrupted
        /\ \A i \in 1 .. Len(control') : control'[i] # 0 => control'[i] \in interrupted
    BY <1>16, TakeProperties DEF PingServed, TypeOK
  <2>2. QED
    BY <1>16, <2>1 DEF PingServed, signal, client, command, TypeOK
<1>17. CASE CommandStarts
  <2>1. Head(calls).cmd \in 0 .. MaxCommands
    <3>1. Head(calls) \in Messages
      BY <1>17, TakeProperties DEF CommandStarts, TypeOK
    <3>2. QED
      BY <3>1 DEF Messages
  <2>2. (reply'.cancel # "none") <=> reply'.polled
    BY <1>17, <2>1, NoObjectTyped, DeliverKeepsPolled DEF CommandStarts
  <2>3. GlobalsBelongToServing'
    BY <1>17, <2>1, NothingTyped DEF CommandStarts, signal
  <2>4. QED
    BY <1>17, <2>2, <2>3 DEF CommandStarts, signal, client
<1>18. CASE CommandPolls
  BY <1>18 DEF CommandPolls, signal, client
<1>19. ASSUME NEW p \in Pointers \cup {0}, CommandReturns(p) PROVE CancelInv'
  BY <1>19 DEF CommandReturns, signal, client
<1>20. CASE CommandEnds
  <2>1. (reply'.cancel # "none") <=> reply'.polled
    BY <1>20, DeliverKeepsPolled DEF CommandEnds
  <2>2. QED
    BY <1>20, <2>1, NothingTyped DEF CommandEnds, signal, client
<1>21. CASE DeletionServed
  BY <1>21 DEF DeletionServed, signal
<1>22. CASE ServerDies
  BY <1>22, NothingTyped DEF ServerDies, signal, client
<1>23. CASE UNCHANGED vars
  BY <1>23 DEF vars, signal, client, command
<1>24. QED
  BY <1>1, <1>2, <1>3, <1>5, <1>6, <1>7, <1>8, <1>9, <1>10, <1>11, <1>12, <1>13,
     <1>14, <1>15, <1>16, <1>17, <1>18, <1>19, <1>20, <1>21, <1>22, <1>23
  DEF Next, PingNext, ServerNext

\* Only a command that the user has interrupted is cancelled by the server or
\* raises SIGINT again, whatever the delay of the ping that carries the Ctrl-C,
\* and a reply speaks of a Ctrl-C iff its command has called must_cancel().
THEOREM CancelCorrect == Spec => []CancelIsForItsCommand
<1>1. Init => TypeInv /\ CancelInv
  BY TypeInit, CancelInit
<1>2. TypeInv /\ CancelInv /\ [Next]_vars => (TypeInv /\ CancelInv)'
  BY TypeStep, CancelStep DEF TypeInv
<1>3. CancelInv => CancelIsForItsCommand
  BY DEF CancelInv
<1>4. QED
  BY <1>1, <1>2, <1>3, PTL DEF Spec

-----------------------------------------------------------------------------
(* The objects of the server and the proxies of the client.                *)

LEMMA QueueIsDomain ==
  ASSUME TypeOK
  PROVE  /\ DOMAIN calls = Queue /\ Len(calls) \in Nat
         /\ \A i \in Queue : calls[i] \in Messages
BY DEF TypeOK, Queue

LEMMA MessageTyped ==
  ASSUME NEW m \in Messages
  PROVE  /\ m.kind \in {"call", "delete"} /\ m.cmd \in 0 .. MaxCommands
         /\ m.obj \in 0 .. MaxIds /\ m.from \in Threads
BY DEF Messages

LEMMA RegistryInit == Init => RegistryInv
<1> SUFFICES ASSUME Init PROVE RegistryInv
  OBVIOUS
<1>1. Queue = {} /\ DOMAIN calls = {}
  BY DEF Init, Queue
<1>2. QED
  BY <1>1, NothingTyped, CppIpcAssumption
  DEF Init, RegistryInv, DeadServerIsEmpty, CommandsAreUnique, ReplyIsTheLast,
      DroppersHaveTheLast, DeletionsAreAwaited, DeletionsComeLate, AnswersAreRegistered,
      RegistryFollowsProxies

registry_state == <<calls, serving, response, reply, pc, dropped, object_ref_count,
                    registered, up, m_command_id, orphaned, contended>>

\* What is said about the messages depends on the queue only.
LEMMA QueueSame ==
  ASSUME calls' = calls
  PROVE  /\ Queue' = Queue
         /\ \A i \in Queue : (IsCall(i)' <=> IsCall(i)) /\ (IsDelete(i)' <=> IsDelete(i))
BY DEF Queue, IsCall, IsDelete

\* A thread that waits for its deletion goes on waiting for it.
LEMMA StillAwaited ==
  ASSUME DeletionsAreAwaited, calls' = calls, up' = up,
         \A t \in Threads : pc'[t] = "waiting" /\ dropped'[t] # 0
                              => pc[t] = "waiting" /\ dropped'[t] = dropped[t]
  PROVE  DeletionsAreAwaited'
BY DEF DeletionsAreAwaited, IsLastDeletion, Queue, IsDelete

LEMMA RegistryUnchanged ==
  ASSUME RegistryInv, UNCHANGED registry_state
  PROVE  RegistryInv'
<1>1. DeadServerIsEmpty' /\ CommandsAreUnique' /\ ReplyIsTheLast'
  BY DEF registry_state, RegistryInv, DeadServerIsEmpty, CommandsAreUnique, ReplyIsTheLast,
         Queue, IsCall, IsDelete
<1>2. DroppersHaveTheLast' /\ DeletionsAreAwaited'
  BY StillAwaited DEF registry_state, RegistryInv, DroppersHaveTheLast
<1>3. DeletionsComeLate' /\ AnswersAreRegistered' /\ RegistryFollowsProxies'
  BY DEF registry_state, RegistryInv, DeletionsComeLate, AnswersAreRegistered,
         RegistryFollowsProxies, Queue, IsCall, IsDelete, Late, Stale, InFlight
<1>4. QED
  BY <1>1, <1>2, <1>3 DEF RegistryInv

\* The queue after a message has been sent, or refused.
LEMMA PutCall ==
  ASSUME TypeOK, NEW m \in Messages, calls' \in {calls, Put(calls, m)}, NEW n, n = Len(calls) + 1
  PROVE  /\ n \in Nat /\ DOMAIN calls' = Queue'
         /\ Queue' \subseteq Queue \cup {n} /\ Queue \subseteq Queue'
         /\ \A i \in Queue : calls'[i] = calls[i] /\ i < n /\ i \in Nat
         /\ n \in Queue' => up /\ calls'[n] = m
         /\ calls' = Put(calls, m) /\ up => n \in Queue'
         /\ ~ up => calls' = calls
<1>1. Len(calls) \in Nat /\ calls \in Seq(Messages)
  BY DEF TypeOK
<1>2. CASE up /\ calls' = Put(calls, m)
  BY <1>1, <1>2 DEF Put, Queue
<1>3. CASE calls' = calls
  <2>1. DOMAIN calls' = Queue' /\ Queue' = Queue /\ ~ n \in Queue'
    BY <1>1, <1>3 DEF Queue
  <2>2. calls' = Put(calls, m) => ~ up
    <3>1. Len(Append(calls, m)) # Len(calls)
      BY <1>1
    <3>2. QED
      BY <1>3, <3>1 DEF Put
  <2>3. QED
    BY <1>1, <1>3, <2>1, <2>2 DEF Queue
<1>4. QED
  BY <1>2, <1>3 DEF Put

\* The queue without its first message.
LEMMA TakeCall ==
  ASSUME TypeOK, calls # <<>>, calls' = Tail(calls)
  PROVE  /\ 1 \in Queue /\ Head(calls) = calls[1] /\ Head(calls) \in Messages
         /\ Len(calls) \in Nat /\ Queue' = 1 .. Len(calls) - 1 /\ DOMAIN calls' = Queue'
         /\ \A i \in Queue' : i + 1 \in Queue /\ calls'[i] = calls[i + 1]
BY TakeProperties DEF TypeOK, Queue

\* The numbers in the state.
LEMMA Numbers ==
  ASSUME TypeOK
  PROVE  /\ m_command_id \in Nat /\ serving.cmd \in Nat /\ response.cmd \in Nat
         /\ Len(calls) \in Nat /\ Queue = 1 .. Len(calls) /\ DOMAIN calls = Queue
         /\ reply.id \in 0 .. MaxIds /\ response.id \in 0 .. MaxIds
         /\ \A i \in Queue : /\ calls[i] \in Messages
                             /\ calls[i].cmd \in Nat /\ calls[i].obj \in 0 .. MaxIds
                             /\ calls[i].from \in Threads
                             /\ IsCall(i) \/ IsDelete(i)
                             /\ ~ (IsCall(i) /\ IsDelete(i))
         /\ \A t \in Threads : dropped[t] \in 0 .. MaxIds
         /\ \A o \in Ids : object_ref_count[o] \in Nat
<1>1. m_command_id \in Nat /\ serving.cmd \in Nat
  BY CppIpcAssumption DEF TypeOK
<1>2. response.cmd \in Nat /\ reply.id \in 0 .. MaxIds /\ response.id \in 0 .. MaxIds
  BY CppIpcAssumption, ReplyTyped DEF TypeOK
<1>3. Len(calls) \in Nat /\ Queue = 1 .. Len(calls) /\ DOMAIN calls = Queue
  BY QueueIsDomain DEF Queue
<1>4. ASSUME NEW i \in Queue
      PROVE  /\ calls[i] \in Messages
             /\ calls[i].cmd \in Nat /\ calls[i].obj \in 0 .. MaxIds
             /\ calls[i].from \in Threads
             /\ IsCall(i) \/ IsDelete(i)
             /\ ~ (IsCall(i) /\ IsDelete(i))
  BY CppIpcAssumption, QueueIsDomain, MessageTyped DEF IsCall, IsDelete
<1>5. \A t \in Threads : dropped[t] \in 0 .. MaxIds
  BY DEF TypeOK
<1>6. \A o \in Ids : object_ref_count[o] \in Nat
  BY DEF TypeOK
<1>7. QED
  BY <1>1, <1>2, <1>3, <1>4, <1>5, <1>6

LEMMA RegistryCallStart ==
  ASSUME TypeInv, RegistryInv, NEW o \in Ids \cup {0}, CallStart(o)
  PROVE  RegistryInv'
<1> DEFINE m == [kind |-> "call", cmd |-> m_command_id + 1, obj |-> o, from |-> Main]
           n == Len(calls) + 1
<1>0. TypeOK
  BY DEF TypeInv
<1>1. m \in Messages /\ m_command_id + 1 \in 0 .. MaxCommands
  BY <1>0, CppIpcAssumption DEF CallStart, TypeOK, Messages
<1>2. /\ calls' \in {calls, Put(calls, m)} /\ m.kind = "call" /\ m.cmd = m_command_id + 1
      /\ m.from = Main
      /\ m_command_id' = m_command_id + 1 /\ m_command_id \in Nat
      /\ pc[Main] = "idle" /\ pc'[Main] = "calling"
      /\ \A t \in Threads \ {Main} : pc'[t] = pc[t]
      /\ reply' \in {reply, Unreachable(m_command_id + 1)}
      /\ UNCHANGED <<dropped, object_ref_count, up, serving, response, registered, orphaned>>
  BY <1>0, CppIpcAssumption DEF CallStart, TypeOK, command, registry
<1>3. /\ contended \subseteq contended'
      /\ \A t \in Threads : pc[t] = "deleting" => dropped[t] \in contended'
  BY DEF CallStart
<1> HIDE DEF m
<1>4. /\ Queue' \subseteq Queue \cup {n} /\ Queue \subseteq Queue' /\ DOMAIN calls' = Queue'
      /\ \A i \in Queue : calls'[i] = calls[i] /\ i < n /\ i \in Nat
      /\ n \in Queue' => up /\ calls'[n] = m
      /\ ~ up => calls' = calls
  BY <1>0, <1>1, <1>2, PutCall
<1>5. /\ \A i \in Queue : (IsCall(i)' <=> IsCall(i)) /\ (IsDelete(i)' <=> IsDelete(i))
      /\ n \in Queue' => calls'[n].kind = "call"
  BY <1>2, <1>4 DEF IsCall, IsDelete
<1> HIDE DEF n
<1>6. reply = NoReply /\ reply.id = 0 /\ reply'.id = 0
  <2>1. reply = NoReply
    BY <1>2 DEF RegistryInv, ReplyIsTheLast
  <2>2. Unreachable(m_command_id + 1).id = 0
    BY <1>1, UnreachableTyped
  <2>3. QED
    BY <1>2, <2>1, <2>2, NothingTyped
<1>7. DeadServerIsEmpty'
  BY <1>2, <1>4 DEF RegistryInv, DeadServerIsEmpty
<1>8. CommandsAreUnique'
  <2>1. serving.cmd' <= m_command_id'
    BY <1>0, <1>2, Numbers DEF RegistryInv, CommandsAreUnique
  <2>2. ASSUME NEW i \in Queue', IsCall(i)'
        PROVE  calls'[i].cmd \in 1 .. m_command_id' /\ calls'[i].cmd # serving'.cmd
    <3>1. CASE i \in Queue
      BY <1>0, <1>2, <1>4, <1>5, <2>2, <3>1, Numbers DEF RegistryInv, CommandsAreUnique
    <3>2. CASE i = n
      BY <1>0, <1>2, <1>4, <2>2, <3>2, Numbers DEF RegistryInv, CommandsAreUnique
    <3>3. QED
      BY <1>4, <3>1, <3>2
  <2>3. ASSUME NEW i \in Queue', NEW j \in Queue', IsCall(i)', IsCall(j)',
               calls'[i].cmd = calls'[j].cmd
        PROVE  i = j
    <3>1. CASE i \in Queue /\ j \in Queue
      BY <1>4, <1>5, <2>3, <3>1 DEF RegistryInv, CommandsAreUnique
    <3>2. CASE i = n /\ j \in Queue
      BY <1>0, <1>2, <1>4, <1>5, <2>3, <3>2, Numbers DEF RegistryInv, CommandsAreUnique
    <3>3. CASE i \in Queue /\ j = n
      BY <1>0, <1>2, <1>4, <1>5, <2>3, <3>3, Numbers DEF RegistryInv, CommandsAreUnique
    <3>4. QED
      BY <1>4, <3>1, <3>2, <3>3
  <2>4. QED
    BY <1>2, <2>1, <2>2, <2>3 DEF RegistryInv, CommandsAreUnique
<1>9. ReplyIsTheLast'
  <2>1. serving.cmd # m_command_id'
    BY <1>0, <1>2, Numbers DEF RegistryInv, CommandsAreUnique
  <2>2. ASSUME reply' # NoReply, NEW i \in Queue', IsCall(i)'
        PROVE  calls'[i].cmd # m_command_id'
    <3>1. calls' = calls
      BY <1>6, <2>2 DEF CallStart
    <3>2. i \in Queue /\ IsCall(i)
      BY <2>2, <3>1 DEF Queue, IsCall
    <3>3. QED
      BY <1>0, <1>2, <3>1, <3>2, Numbers DEF RegistryInv, CommandsAreUnique
  <2>3. QED
    BY <1>2, <1>6, <2>1, <2>2 DEF ReplyIsTheLast
<1>10. DroppersHaveTheLast'
  BY <1>2, <1>3, CppIpcAssumption DEF RegistryInv, DroppersHaveTheLast
<1>11. DeletionsAreAwaited'
  <2>1. ASSUME NEW t \in Threads, pc'[t] = "waiting", dropped[t] # 0, up
        PROVE  \E i \in Queue' : IsLastDeletion(i, t, dropped[t])'
    <3>1. t # Main /\ pc[t] = "waiting"
      BY <1>2, <2>1
    <3>2. PICK i \in Queue : IsLastDeletion(i, t, dropped[t])
      BY <2>1, <3>1 DEF RegistryInv, DeletionsAreAwaited
    <3>3. \A j \in Queue' : calls'[j].from = t => j \in Queue /\ calls[j].from = t
      BY <1>2, <1>4, <3>1
    <3>4. IsLastDeletion(i, t, dropped[t])'
      BY <1>2, <1>4, <1>5, <3>2, <3>3 DEF IsLastDeletion
    <3>5. QED
      BY <1>4, <3>4
  <2>2. QED
    BY <1>2, <2>1 DEF DeletionsAreAwaited
<1>12. DeletionsComeLate'
  <2>1. ASSUME NEW i \in Queue', IsDelete(i)'
        PROVE  /\ calls'[i].obj # 0
               /\ \/ calls'[i].obj \in contended'
                  \/ object_ref_count'[calls'[i].obj] = 0 /\ Late(i)'
    <3>1. i \in Queue /\ IsDelete(i) /\ calls'[i] = calls[i]
      BY <1>4, <1>5, <2>1 DEF IsDelete
    <3>2. /\ calls'[i].obj # 0
          /\ calls'[i].obj \in contended' \/ object_ref_count'[calls'[i].obj] = 0
      BY <1>2, <1>3, <3>1 DEF RegistryInv, DeletionsComeLate
    <3>3. Stale(serving.cmd)'
      BY <1>0, <1>2, Numbers DEF RegistryInv, CommandsAreUnique, Stale
    <3>4. ASSUME NEW j \in 1 .. i - 1, IsCall(j)' PROVE Stale(calls[j].cmd)'
      <4>1. j \in Queue
        BY <1>0, <3>1, Numbers
      <4>2. calls'[j].cmd \in 1 .. m_command_id
        BY <1>4, <1>5, <3>4, <4>1 DEF RegistryInv, CommandsAreUnique
      <4>3. QED
        BY <1>2, <4>2 DEF Stale
    <3>5. QED
      BY <3>2, <3>3, <3>4 DEF Late
  <2>2. QED
    BY <2>1 DEF DeletionsComeLate
<1>13. AnswersAreRegistered'
  <2>1. response # NoReply => response.cmd < m_command_id'
    BY <1>0, <1>2, Numbers DEF RegistryInv, CommandsAreUnique
  <2>2. QED
    BY <1>2, <1>6, <2>1, NothingTyped DEF RegistryInv, AnswersAreRegistered, Stale
<1>14. RegistryFollowsProxies'
  <2>1. ASSUME NEW q \in Ids, InFlight(q) PROVE InFlight(q)'
    <3>1. q # 0
      BY CppIpcAssumption
    <3>2. QED
      BY <1>0, <1>2, <1>4, <1>6, <2>1, <3>1, QueueIsDomain DEF InFlight
  <2>2. QED
    BY <1>2, <1>3, <2>1 DEF RegistryInv, RegistryFollowsProxies
<1>15. QED
  BY <1>7, <1>8, <1>9, <1>10, <1>11, <1>12, <1>13, <1>14 DEF RegistryInv

LEMMA RegistryCallReturns ==
  ASSUME TypeInv, RegistryInv, CallReturns
  PROVE  RegistryInv'
<1>0. TypeOK
  BY DEF TypeInv
<1>1. /\ pc[Main] = "calling" /\ pc'[Main] = "idle" /\ reply # NoReply /\ reply' = NoReply
      /\ \A t \in Threads \ {Main} : pc'[t] = pc[t]
      /\ orphaned' = orphaned \ {reply.id}
      /\ UNCHANGED <<calls, dropped, up, serving, response, registered, m_command_id, contended>>
  BY <1>0, CppIpcAssumption DEF CallReturns, CallEnd, TypeOK, command, registry
<1>2. /\ Queue' = Queue
      /\ \A i \in Queue : (IsCall(i)' <=> IsCall(i)) /\ (IsDelete(i)' <=> IsDelete(i))
  BY <1>1, QueueSame
<1>3. \A o \in Ids : /\ object_ref_count'[o] >= object_ref_count[o]
                     /\ o = reply.id => object_ref_count'[o] > 0
                     /\ o # reply.id => object_ref_count'[o] = object_ref_count[o]
  BY <1>0, Numbers DEF CallReturns
<1>4. DeadServerIsEmpty' /\ CommandsAreUnique' /\ ReplyIsTheLast'
  BY <1>1, <1>2, NothingTyped
  DEF RegistryInv, DeadServerIsEmpty, CommandsAreUnique, ReplyIsTheLast, IsCall
<1>5. DroppersHaveTheLast'
  BY <1>1 DEF RegistryInv, DroppersHaveTheLast
<1>6. DeletionsAreAwaited'
  BY <1>1, StillAwaited DEF RegistryInv
<1>7. DeletionsComeLate'
  <2>1. ASSUME NEW i \in Queue, IsDelete(i)
        PROVE  /\ calls[i].obj # 0
               /\ calls[i].obj \in contended \/ object_ref_count'[calls[i].obj] = 0
    <3>1. /\ calls[i].obj \in Ids
          /\ calls[i].obj \in contended \/ object_ref_count[calls[i].obj] = 0
      BY <1>0, <2>1, Numbers, CppIpcAssumption DEF RegistryInv, DeletionsComeLate
    <3>2. calls[i].obj = reply.id => calls[i].obj \in contended
      BY <2>1, <3>1, CppIpcAssumption DEF RegistryInv, ReplyIsTheLast
    <3>3. QED
      BY <1>3, <3>1, <3>2, CppIpcAssumption
  <2>2. \A c : Stale(c)'
    BY <1>1 DEF Stale
  <2>3. QED
    BY <1>1, <1>2, <2>1, <2>2 DEF DeletionsComeLate, Late, Stale
<1>8. AnswersAreRegistered'
  BY <1>1, NothingTyped DEF AnswersAreRegistered, Stale
<1>9. RegistryFollowsProxies'
  <2>1. ASSUME NEW o \in Ids, object_ref_count'[o] > 0
        PROVE  registered'[o] # 0 \/ ~ up' \/ o \in contended'
    BY <1>1, <1>3, <2>1, CppIpcAssumption DEF RegistryInv, AnswersAreRegistered, RegistryFollowsProxies
  <2>2. ASSUME NEW o \in Ids, registered'[o] # 0
        PROVE  object_ref_count'[o] > 0 \/ InFlight(o)' \/ o \in orphaned'
    <3>1. CASE o = reply.id
      BY <1>3, <3>1
    <3>2. CASE o # reply.id
      BY <1>1, <1>3, <2>2, <3>2 DEF RegistryInv, RegistryFollowsProxies, InFlight
    <3>3. QED
      BY <3>1, <3>2
  <2>3. QED
    BY <1>1, <2>1, <2>2 DEF RegistryInv, RegistryFollowsProxies
<1>10. QED
  BY <1>4, <1>5, <1>6, <1>7, <1>8, <1>9 DEF RegistryInv

LEMMA RegistryCallGivesUp ==
  ASSUME TypeInv, RegistryInv, CallGivesUp
  PROVE  RegistryInv'
<1>0. TypeOK
  BY DEF TypeInv
<1>1. /\ pc[Main] = "calling" /\ pc'[Main] = "idle" /\ reply' = NoReply
      /\ \A t \in Threads \ {Main} : pc'[t] = pc[t]
      /\ orphaned' = orphaned \cup ({reply.id} \ {0})
      /\ UNCHANGED <<calls, dropped, up, serving, response, registered, object_ref_count,
                     m_command_id, contended>>
  BY <1>0, CppIpcAssumption DEF CallGivesUp, CallEnd, TypeOK, command, registry
<1>2. /\ Queue' = Queue
      /\ \A i \in Queue : (IsCall(i)' <=> IsCall(i)) /\ (IsDelete(i)' <=> IsDelete(i))
  BY <1>1, QueueSame
<1>3. DeadServerIsEmpty' /\ CommandsAreUnique' /\ ReplyIsTheLast'
  BY <1>1, <1>2, NothingTyped
  DEF RegistryInv, DeadServerIsEmpty, CommandsAreUnique, ReplyIsTheLast, IsCall
<1>4. DroppersHaveTheLast'
  BY <1>1 DEF RegistryInv, DroppersHaveTheLast
<1>5. DeletionsAreAwaited'
  BY <1>1, StillAwaited DEF RegistryInv
<1>6. DeletionsComeLate'
  <2>1. \A c : Stale(c)'
    BY <1>1 DEF Stale
  <2>2. QED
    BY <1>1, <1>2, <2>1 DEF RegistryInv, DeletionsComeLate, Late, Stale
<1>7. AnswersAreRegistered'
  BY <1>1, NothingTyped DEF AnswersAreRegistered, Stale
<1>8. RegistryFollowsProxies'
  <2>1. ASSUME NEW o \in Ids, InFlight(o) PROVE InFlight(o)' \/ o \in orphaned'
    BY <1>1, <2>1, CppIpcAssumption DEF InFlight
  <2>2. QED
    BY <1>1, <2>1 DEF RegistryInv, RegistryFollowsProxies
<1>9. QED
  BY <1>3, <1>4, <1>5, <1>6, <1>7, <1>8 DEF RegistryInv

LEMMA RegistrySendDeletion ==
  ASSUME TypeInv, RegistryInv, NEW t \in Threads, SendDeletion(t)
  PROVE  RegistryInv'
<1> DEFINE m == [kind |-> "delete", cmd |-> 0, obj |-> dropped[t], from |-> t]
           n == Len(calls) + 1
<1>0. TypeOK
  BY DEF TypeInv
<1>1. m \in Messages
  BY <1>0, CppIpcAssumption DEF TypeOK, Messages
<1>2. /\ calls' \in {calls, Put(calls, m)} /\ m.kind = "delete" /\ m.obj = dropped[t]
      /\ m.from = t
      /\ pc[t] = "deleting" /\ pc'[t] = "waiting"
      /\ \A u \in Threads \ {t} : pc'[u] = pc[u]
      /\ UNCHANGED <<object_ref_count, reply, up, serving, response, registered, m_command_id,
                     contended>>
  BY <1>0 DEF SendDeletion, TypeOK, command, registry
<1>3. \/ calls' = Put(calls, m) /\ dropped' = dropped /\ orphaned' = orphaned
      \/ /\ calls' = calls /\ orphaned' = orphaned \cup {dropped[t]} /\ dropped'[t] = 0
         /\ \A u \in Threads \ {t} : dropped'[u] = dropped[u]
  BY <1>0 DEF SendDeletion, TypeOK
<1> HIDE DEF m
<1>4. /\ Queue' \subseteq Queue \cup {n} /\ Queue \subseteq Queue' /\ DOMAIN calls' = Queue'
      /\ \A i \in Queue : calls'[i] = calls[i] /\ i < n /\ i \in Nat
      /\ n \in Queue' => up /\ calls'[n] = m
      /\ calls' = Put(calls, m) /\ up => n \in Queue'
      /\ ~ up => calls' = calls
      /\ n \in Nat
  BY <1>0, <1>1, <1>2, PutCall
<1>5. /\ \A i \in Queue : (IsCall(i)' <=> IsCall(i)) /\ (IsDelete(i)' <=> IsDelete(i))
      /\ n \in Queue' => /\ calls'[n].kind = "delete" /\ calls'[n].obj = dropped[t]
                         /\ calls'[n].from = t
  BY <1>2, <1>4 DEF IsCall, IsDelete
<1> HIDE DEF n
<1>6. /\ dropped[t] # 0
      /\ \/ dropped[t] \in contended
         \/ object_ref_count[dropped[t]] = 0 /\ pc[Main] # "calling"
  BY <1>2 DEF TypeInv, DeletersHaveDropped, RegistryInv, DroppersHaveTheLast
<1>7. (pc'[Main] = "calling") <=> (pc[Main] = "calling")
  BY <1>2, CppIpcAssumption
<1>8. DeadServerIsEmpty'
  BY <1>2, <1>4 DEF RegistryInv, DeadServerIsEmpty
<1>9. CommandsAreUnique' /\ ReplyIsTheLast'
  <2>1. ASSUME NEW i \in Queue', IsCall(i)' PROVE i \in Queue /\ IsCall(i) /\ calls'[i] = calls[i]
    BY <1>4, <1>5, <2>1 DEF IsCall
  <2>2. CommandsAreUnique'
    BY <1>2, <2>1 DEF RegistryInv, CommandsAreUnique
  <2>3. ASSUME reply.id # 0, NEW i \in Queue', IsDelete(i)' PROVE calls'[i].obj \in contended
    <3>1. pc[Main] = "calling"
      BY <2>3, NothingTyped DEF RegistryInv, ReplyIsTheLast
    <3>2. QED
      BY <1>4, <1>5, <1>6, <2>3, <3>1 DEF RegistryInv, ReplyIsTheLast
  <2>4. ReplyIsTheLast'
    BY <1>2, <1>7, <2>1, <2>3 DEF RegistryInv, ReplyIsTheLast
  <2>5. QED
    BY <2>2, <2>4
<1>10. DroppersHaveTheLast'
  <2>1. ASSUME NEW u \in Threads
        PROVE  /\ pc'[u] \in {"idle", "calling"} => dropped'[u] = 0
               /\ pc'[u] = "deleting" =>
                    \/ dropped'[u] \in contended
                    \/ object_ref_count[dropped'[u]] = 0 /\ pc'[Main] # "calling"
    <3>1. CASE u = t
      BY <1>2, <3>1
    <3>2. CASE u # t
      <4>1. pc'[u] = pc[u] /\ dropped'[u] = dropped[u]
        BY <1>2, <1>3, <3>2
      <4>2. QED
        BY <1>7, <4>1 DEF RegistryInv, DroppersHaveTheLast
    <3>3. QED
      BY <3>1, <3>2
  <2>2. QED
    BY <1>2, <2>1 DEF DroppersHaveTheLast
<1>11. DeletionsAreAwaited'
  <2>1. ASSUME NEW u \in Threads, pc'[u] = "waiting", dropped'[u] # 0, up
        PROVE  \E i \in Queue' : IsLastDeletion(i, u, dropped[u])' /\ dropped'[u] = dropped[u]
    <3>1. CASE u = t
      <4>1. calls' = Put(calls, m) /\ dropped' = dropped /\ n \in Queue'
        BY <1>3, <1>4, <2>1, <3>1
      <4>2. PICK k \in Queue' : k = n /\ \A j \in Queue' : j <= k
        BY <1>4, <4>1
      <4>3. IsLastDeletion(k, u, dropped[u])'
        BY <1>5, <3>1, <4>1, <4>2 DEF IsLastDeletion, IsDelete
      <4>4. QED
        BY <4>1, <4>2, <4>3
    <3>2. CASE u # t
      <4>1. pc[u] = "waiting" /\ dropped'[u] = dropped[u]
        BY <1>2, <1>3, <2>1, <3>2
      <4>2. PICK i \in Queue : IsLastDeletion(i, u, dropped[u])
        BY <2>1, <4>1 DEF RegistryInv, DeletionsAreAwaited
      <4>3. \A j \in Queue' : calls'[j].from = u => j \in Queue /\ calls[j].from = u
        BY <1>4, <1>5, <3>2
      <4>4. IsLastDeletion(i, u, dropped[u])'
        BY <1>4, <1>5, <4>1, <4>2, <4>3 DEF IsLastDeletion
      <4>5. QED
        BY <1>4, <4>1, <4>4
    <3>3. QED
      BY <3>1, <3>2
  <2>2. QED
    BY <1>2, <2>1 DEF DeletionsAreAwaited
<1>12. DeletionsComeLate'
  <2>1. ASSUME NEW i \in Queue', IsDelete(i)'
        PROVE  /\ calls'[i].obj # 0
               /\ \/ calls'[i].obj \in contended'
                  \/ object_ref_count'[calls'[i].obj] = 0 /\ Late(i)'
    <3>1. CASE i \in Queue
      <4>1. /\ calls[i].obj # 0 /\ calls'[i] = calls[i]
            /\ \/ calls[i].obj \in contended
               \/ object_ref_count[calls[i].obj] = 0 /\ Late(i)
        BY <1>4, <1>5, <2>1, <3>1 DEF RegistryInv, DeletionsComeLate
      <4>2. Late(i) => Late(i)'
        <5>1. \A j \in 1 .. i - 1 : j \in Queue
          BY <1>0, <3>1, Numbers
        <5>2. QED
          BY <1>2, <1>4, <1>5, <1>7, <5>1 DEF Late, Stale
      <4>3. QED
        BY <1>2, <4>1, <4>2
    <3>2. CASE i = n
      <4>1. pc[Main] # "calling" => Late(i)'
        BY <1>7 DEF Late, Stale
      <4>2. QED
        BY <1>2, <1>5, <1>6, <3>2, <4>1
    <3>3. QED
      BY <1>4, <3>1, <3>2
  <2>2. QED
    BY <2>1 DEF DeletionsComeLate
<1>13. AnswersAreRegistered'
  BY <1>2, <1>7 DEF RegistryInv, AnswersAreRegistered, Stale
<1>14. RegistryFollowsProxies'
  <2>1. ASSUME NEW q \in Ids, InFlight(q) PROVE InFlight(q)' \/ q \in orphaned'
    <3>1. \A i \in DOMAIN calls : i \in DOMAIN calls' /\ calls'[i] = calls[i]
      BY <1>0, <1>4, QueueIsDomain
    <3>2. ASSUME NEW u \in Threads, dropped[u] = q PROVE dropped'[u] = q \/ q \in orphaned'
      BY <1>3, <3>2
    <3>3. QED
      BY <1>2, <2>1, <3>1, <3>2 DEF InFlight
  <2>2. orphaned \subseteq orphaned'
    BY <1>3
  <2>3. QED
    BY <1>2, <2>1, <2>2 DEF RegistryInv, RegistryFollowsProxies
<1>15. QED
  BY <1>8, <1>9, <1>10, <1>11, <1>12, <1>13, <1>14 DEF RegistryInv

LEMMA RegistryDeletionReturns ==
  ASSUME TypeInv, RegistryInv, NEW t \in Threads, DeletionReturns(t)
  PROVE  RegistryInv'
<1>0. TypeOK
  BY DEF TypeInv
<1>1. /\ pc[t] = "waiting" /\ pc'[t] = "idle" /\ dropped'[t] = 0
      /\ \A u \in Threads \ {t} : pc'[u] = pc[u] /\ dropped'[u] = dropped[u]
      /\ UNCHANGED <<calls, reply, up, serving, response, registered, object_ref_count,
                     orphaned, m_command_id, contended>>
  BY <1>0 DEF DeletionReturns, TypeOK, command, registry
<1>2. (pc'[Main] = "calling") <=> (pc[Main] = "calling")
  BY <1>1, CppIpcAssumption
<1>3. /\ Queue' = Queue
      /\ \A i \in Queue : (IsCall(i)' <=> IsCall(i)) /\ (IsDelete(i)' <=> IsDelete(i))
  BY <1>1, QueueSame
<1>4. DeadServerIsEmpty' /\ CommandsAreUnique' /\ ReplyIsTheLast'
  BY <1>1, <1>2, <1>3
  DEF RegistryInv, DeadServerIsEmpty, CommandsAreUnique, ReplyIsTheLast, IsCall
<1>5. DroppersHaveTheLast'
  BY <1>1, <1>2 DEF RegistryInv, DroppersHaveTheLast
<1>6. DeletionsAreAwaited'
  BY <1>1, StillAwaited DEF RegistryInv
<1>7. DeletionsComeLate'
  BY <1>1, <1>2, <1>3 DEF RegistryInv, DeletionsComeLate, Late, Stale, IsCall
<1>8. AnswersAreRegistered'
  BY <1>1, <1>2 DEF RegistryInv, AnswersAreRegistered, Stale
<1>9. RegistryFollowsProxies'
  <2>1. ASSUME NEW o \in Ids, registered[o] # 0, InFlight(o) PROVE InFlight(o)'
    <3>1. up /\ o # 0
      BY <2>1, CppIpcAssumption DEF RegistryInv, DeadServerIsEmpty
    <3>2. CASE dropped[t] = o
      <4>1. PICK i \in Queue : IsDelete(i) /\ calls[i].obj = o
        BY <1>1, <3>1, <3>2 DEF RegistryInv, DeletionsAreAwaited, IsLastDeletion
      <4>2. QED
        BY <1>0, <1>1, <4>1, QueueIsDomain DEF InFlight, IsDelete
    <3>3. CASE dropped[t] # o
      BY <1>1, <2>1, <3>3 DEF InFlight
    <3>4. QED
      BY <3>2, <3>3
  <2>2. QED
    BY <1>1, <2>1 DEF RegistryInv, RegistryFollowsProxies
<1>10. QED
  BY <1>4, <1>5, <1>6, <1>7, <1>8, <1>9 DEF RegistryInv

LEMMA RegistryDrop ==
  ASSUME TypeInv, RegistryInv, NEW t \in Threads, NEW o \in Ids, Drop(t, o)
  PROVE  RegistryInv'
<1>0. TypeOK
  BY DEF TypeInv
<1>1. /\ pc[t] = "idle" /\ object_ref_count[o] > 0
      /\ UNCHANGED <<calls, reply, up, serving, response, registered, orphaned, m_command_id>>
  BY DEF Drop, command, registry
<1>2. \/ /\ pc' = pc /\ dropped' = dropped /\ contended' = contended /\ object_ref_count[o] # 1
      \/ /\ pc'[t] = "deleting" /\ dropped'[t] = o /\ object_ref_count[o] = 1
         /\ \A u \in Threads \ {t} : pc'[u] = pc[u] /\ dropped'[u] = dropped[u]
         /\ contended' = IF pc[Main] = "calling" THEN contended \cup {o} ELSE contended
  BY <1>0 DEF Drop, TypeOK
<1>3. /\ object_ref_count'[o] = object_ref_count[o] - 1
      /\ \A q \in Ids \ {o} : object_ref_count'[q] = object_ref_count[q]
  BY <1>0 DEF Drop, TypeOK
<1>4. /\ (pc'[Main] = "calling") <=> (pc[Main] = "calling")
      /\ contended \subseteq contended' /\ dropped[t] = 0
  BY <1>1, <1>2, CppIpcAssumption DEF RegistryInv, DroppersHaveTheLast
<1>5. /\ Queue' = Queue
      /\ \A i \in Queue : (IsCall(i)' <=> IsCall(i)) /\ (IsDelete(i)' <=> IsDelete(i))
  BY <1>1, QueueSame
<1>6. DeadServerIsEmpty' /\ CommandsAreUnique' /\ ReplyIsTheLast'
  BY <1>1, <1>4, <1>5
  DEF RegistryInv, DeadServerIsEmpty, CommandsAreUnique, ReplyIsTheLast, IsCall
<1>7. DroppersHaveTheLast'
  <2>1. ASSUME NEW u \in Threads
        PROVE  /\ pc'[u] \in {"idle", "calling"} => dropped'[u] = 0
               /\ pc'[u] = "deleting" =>
                    \/ dropped'[u] \in contended'
                    \/ object_ref_count'[dropped'[u]] = 0 /\ pc'[Main] # "calling"
    <3>1. CASE u = t /\ pc'[t] = "deleting" /\ dropped'[t] = o /\ object_ref_count[o] = 1
      BY <1>2, <1>3, <1>4, <3>1
    <3>2. CASE pc'[u] = pc[u] /\ dropped'[u] = dropped[u]
      <4>1. /\ pc[u] \in {"idle", "calling"} => dropped[u] = 0
            /\ pc[u] = "deleting" =>
                 \/ dropped[u] \in contended
                 \/ object_ref_count[dropped[u]] = 0 /\ pc[Main] # "calling"
        BY DEF RegistryInv, DroppersHaveTheLast
      <4>2. pc[u] = "deleting" => dropped[u] \in Ids
        BY <1>0, Numbers, CppIpcAssumption DEF TypeInv, DeletersHaveDropped
      <4>3. QED
        BY <1>1, <1>3, <1>4, <3>2, <4>1, <4>2
    <3>3. QED
      BY <1>2, <3>1, <3>2
  <2>2. QED
    BY <2>1 DEF DroppersHaveTheLast
<1>8. DeletionsAreAwaited'
  BY <1>1, <1>2, StillAwaited DEF RegistryInv
<1>9. DeletionsComeLate'
  <2>1. ASSUME NEW i \in Queue, IsDelete(i)
        PROVE  /\ calls[i].obj # 0
               /\ \/ calls[i].obj \in contended'
                  \/ object_ref_count'[calls[i].obj] = 0 /\ Late(i)
    <3>1. /\ calls[i].obj # 0 /\ calls[i].obj \in Ids
          /\ \/ calls[i].obj \in contended
             \/ object_ref_count[calls[i].obj] = 0 /\ Late(i)
      BY <1>0, <2>1, Numbers, CppIpcAssumption DEF RegistryInv, DeletionsComeLate
    <3>2. QED
      BY <1>1, <1>3, <1>4, <3>1
  <2>2. \A i \in Queue : Late(i) => Late(i)'
    BY <1>1, <1>4 DEF Late, Stale, IsCall
  <2>3. QED
    BY <1>1, <1>5, <2>1, <2>2 DEF DeletionsComeLate
<1>10. AnswersAreRegistered'
  BY <1>1, <1>4 DEF RegistryInv, AnswersAreRegistered, Stale
<1>11. RegistryFollowsProxies'
  <2>1. ASSUME NEW q \in Ids, object_ref_count'[q] > 0
        PROVE  registered'[q] # 0 \/ ~ up' \/ q \in contended'
    BY <1>0, <1>1, <1>3, <1>4, <2>1, Numbers DEF RegistryInv, RegistryFollowsProxies
  <2>2. ASSUME NEW q \in Ids, registered'[q] # 0
        PROVE  object_ref_count'[q] > 0 \/ InFlight(q)' \/ q \in orphaned'
    <3>1. CASE q = o
      <4>1. CASE object_ref_count[o] = 1
        BY <1>2, <3>1, <4>1 DEF InFlight
      <4>2. CASE object_ref_count[o] # 1
        BY <1>0, <1>1, <1>3, <3>1, <4>2, Numbers
      <4>3. QED
        BY <4>1, <4>2
    <3>2. CASE q # o
      <4>1. \A u \in Threads : dropped[u] = q => dropped'[u] = q
        BY <1>2, <1>4, CppIpcAssumption
      <4>2. InFlight(q) => InFlight(q)'
        BY <1>1, <4>1 DEF InFlight
      <4>3. QED
        BY <1>1, <1>3, <2>2, <3>2, <4>2 DEF RegistryInv, RegistryFollowsProxies
    <3>3. QED
      BY <3>1, <3>2
  <2>3. QED
    BY <1>1, <2>1, <2>2 DEF RegistryInv, RegistryFollowsProxies
<1>12. QED
  BY <1>6, <1>7, <1>8, <1>9, <1>10, <1>11 DEF RegistryInv

\* What is left of the queue after its first message has been taken.
LEMMA TakeKinds ==
  ASSUME TypeOK, calls # <<>>, calls' = Tail(calls)
  PROVE  \A i \in Queue' : /\ i \in Nat /\ i + 1 # 1
                           /\ i + 1 \in Queue /\ calls'[i] = calls[i + 1]
                           /\ IsCall(i)' <=> IsCall(i + 1)
                           /\ IsDelete(i)' <=> IsDelete(i + 1)
                           /\ \A j \in 1 .. i - 1 : j \in Queue'
<1>1. \A i \in Queue' : /\ i \in Nat /\ i + 1 # 1
                        /\ i + 1 \in Queue /\ calls'[i] = calls[i + 1]
                        /\ \A j \in 1 .. i - 1 : j \in Queue'
  BY TakeCall
<1>2. QED
  BY <1>1 DEF IsCall, IsDelete

\* A message behind the first one stays in the queue.
LEMMA TakeKeeps ==
  ASSUME TypeOK, calls # <<>>, calls' = Tail(calls), NEW i \in Queue, i # 1
  PROVE  /\ i - 1 \in Queue' /\ calls'[i - 1] = calls[i]
<1>1. i - 1 \in Queue' /\ (i - 1) + 1 = i
  BY TakeCall DEF Queue
<1>2. QED
  BY <1>1, TakeCall

\* Taking the first message keeps the facts about the commands of the others.
LEMMA TakeUnique ==
  ASSUME TypeOK, RegistryInv, calls # <<>>, calls' = Tail(calls), m_command_id' = m_command_id,
         \A i \in Queue : IsCall(i) /\ i # 1 => calls[i].cmd # serving'.cmd,
         serving'.cmd <= m_command_id,
         response' # NoReply => serving' # NoCall /\ response'.cmd = serving'.cmd
  PROVE  CommandsAreUnique'
<1>1. ASSUME NEW i \in Queue', IsCall(i)'
      PROVE  calls'[i].cmd \in 1 .. m_command_id' /\ calls'[i].cmd # serving'.cmd
  <2>1. i \in Nat /\ i + 1 \in Queue /\ i + 1 # 1 /\ IsCall(i + 1) /\ calls'[i] = calls[i + 1]
    BY <1>1, TakeKinds
  <2>2. QED
    BY <2>1 DEF RegistryInv, CommandsAreUnique
<1>2. ASSUME NEW i \in Queue', NEW j \in Queue', IsCall(i)', IsCall(j)',
             calls'[i].cmd = calls'[j].cmd
      PROVE  i = j
  <2>1. /\ i \in Nat /\ i + 1 \in Queue /\ IsCall(i + 1) /\ calls'[i] = calls[i + 1]
        /\ j \in Nat /\ j + 1 \in Queue /\ IsCall(j + 1) /\ calls'[j] = calls[j + 1]
    BY <1>2, TakeKinds
  <2>2. i + 1 = j + 1
    BY <1>2, <2>1 DEF RegistryInv, CommandsAreUnique
  <2>3. QED
    BY <2>1, <2>2
<1>3. QED
  BY <1>1, <1>2 DEF CommandsAreUnique

\* Taking the first message keeps the last deletion of a thread, unless it is
\* the first message.
LEMMA TakeAwaited ==
  ASSUME TypeOK, RegistryInv, calls # <<>>, calls' = Tail(calls), pc' = pc, up' = up,
         \A t \in Threads : pc[t] = "waiting" /\ dropped'[t] # 0 =>
           /\ dropped'[t] = dropped[t]
           /\ ~ IsLastDeletion(1, t, dropped[t])
  PROVE  DeletionsAreAwaited'
<1>1. ASSUME NEW t \in Threads, pc[t] = "waiting", dropped'[t] # 0, up
      PROVE  \E i \in Queue' : IsLastDeletion(i, t, dropped[t])'
  <2>1. PICK i \in Queue : IsLastDeletion(i, t, dropped[t])
    BY <1>1 DEF RegistryInv, DeletionsAreAwaited
  <2>2. i # 1 /\ dropped'[t] = dropped[t]
    BY <1>1, <2>1
  <2>3. i \in Nat /\ i - 1 \in Queue' /\ calls'[i - 1] = calls[i]
    BY <2>2, TakeKeeps, Numbers
  <2>4. ASSUME NEW j \in Queue', calls'[j].from = t PROVE j <= i - 1
    <3>1. j \in Nat /\ j + 1 \in Queue /\ calls[j + 1].from = t
      BY <2>4, TakeKinds
    <3>2. j + 1 <= i
      BY <2>1, <3>1 DEF IsLastDeletion
    <3>3. QED
      BY <2>3, <3>1, <3>2
  <2>5. IsLastDeletion(i - 1, t, dropped[t])'
    BY <2>1, <2>2, <2>3, <2>4 DEF IsLastDeletion, IsDelete
  <2>6. QED
    BY <2>3, <2>5
<1>2. QED
  BY <1>1 DEF DeletionsAreAwaited

\* Taking the first message keeps the deletions late, when the command that is
\* executed then is not one that Main waits for before a deletion.
LEMMA TakeLate ==
  ASSUME TypeOK, RegistryInv, calls # <<>>, calls' = Tail(calls),
         UNCHANGED <<pc, m_command_id, object_ref_count, contended>>,
         serving' # NoCall => serving' = serving \/ (IsCall(1) /\ serving'.cmd = calls[1].cmd)
  PROVE  DeletionsComeLate'
<1>1. ASSUME NEW i \in Queue', IsDelete(i)'
      PROVE  /\ calls'[i].obj # 0
             /\ \/ calls'[i].obj \in contended'
                \/ object_ref_count'[calls'[i].obj] = 0 /\ Late(i)'
  <2>1. i \in Nat /\ i + 1 \in Queue /\ IsDelete(i + 1) /\ calls'[i] = calls[i + 1]
    BY <1>1, TakeKinds
  <2>2. /\ calls[i + 1].obj # 0
        /\ \/ calls[i + 1].obj \in contended
           \/ object_ref_count[calls[i + 1].obj] = 0 /\ Late(i + 1)
    BY <2>1 DEF RegistryInv, DeletionsComeLate
  <2>3. ASSUME Late(i + 1) PROVE Late(i)'
    <3>1. serving' # NoCall => Stale(serving.cmd)'
      <4>1. 1 \in 1 .. (i + 1) - 1
        BY <1>1, <2>1, TakeCall
      <4>2. QED
        BY <2>3, <4>1 DEF Late, Stale
    <3>2. ASSUME NEW j \in 1 .. i - 1, IsCall(j)' PROVE Stale(calls[j].cmd)'
      <4>1. j \in Queue' /\ IsCall(j + 1) /\ calls'[j] = calls[j + 1]
        BY <1>1, <3>2, TakeKinds
      <4>2. j + 1 \in 1 .. (i + 1) - 1
        BY <2>1
      <4>3. Stale(calls[j + 1].cmd)
        BY <2>3, <4>1, <4>2 DEF Late
      <4>4. QED
        BY <4>1, <4>3 DEF Stale
    <3>3. QED
      BY <3>1, <3>2 DEF Late
  <2>4. QED
    BY <2>1, <2>2, <2>3
<1>2. QED
  BY <1>1 DEF DeletionsComeLate

LEMMA RegistryCommandStarts ==
  ASSUME TypeInv, RegistryInv, CommandStarts
  PROVE  RegistryInv'
<1> DEFINE c == calls[1].cmd
<1>0. TypeOK /\ RunningIsTheCall
  BY DEF TypeInv
<1>1. /\ up /\ serving = NoCall /\ calls # <<>> /\ calls' = Tail(calls)
      /\ UNCHANGED <<pc, dropped, object_ref_count, up, response, registered, m_command_id, contended>>
  BY DEF CommandStarts, client, registry
<1>2. 1 \in Queue /\ Head(calls) = calls[1] /\ IsCall(1)
  BY <1>0, <1>1, TakeCall DEF CommandStarts, IsCall
<1>3. c \in 1 .. m_command_id /\ m_command_id \in Nat
  BY <1>0, <1>2, Numbers DEF RegistryInv, CommandsAreUnique
<1>4. \/ serving' = [cmd |-> c, polled |-> FALSE] /\ reply' = reply /\ orphaned' = orphaned
      \/ serving' = NoCall /\ Deliver(NoObject(c))
  BY <1>1, <1>2 DEF CommandStarts
<1>5. serving'.cmd \in {0, c}
  BY <1>4, NothingTyped
<1>6. response = NoReply
  BY <1>1 DEF RegistryInv, CommandsAreUnique
<1>7. c \in 0 .. MaxCommands
  BY <1>0, <1>2, Numbers, MessageTyped
<1>8. \/ reply' = reply /\ orphaned \subseteq orphaned'
      \/ /\ reply' = NoObject(c) /\ orphaned' = orphaned
         /\ pc[Main] = "calling" /\ m_command_id = c /\ serving' = NoCall
  <2>1. NoObject(c).cmd = c
    BY <1>7, NoObjectTyped
  <2> HIDE DEF c
  <2>2. QED
    BY <1>4, <2>1 DEF Deliver
<1>9. reply # NoReply => c # m_command_id
  BY <1>2 DEF RegistryInv, ReplyIsTheLast
<1>10. \A i \in Queue : IsDelete(i) => i # 1
  BY <1>0, <1>2, Numbers
<1>11. CommandsAreUnique'
  <2>1. ASSUME NEW i \in Queue, IsCall(i), i # 1 PROVE calls[i].cmd # serving'.cmd
    <3>1. calls[i].cmd # c /\ calls[i].cmd # 0
      BY <1>2, <2>1 DEF RegistryInv, CommandsAreUnique
    <3> HIDE DEF c
    <3>2. QED
      BY <1>5, <3>1
  <2>2. serving'.cmd <= m_command_id
    <3> HIDE DEF c
    <3>1. QED
      BY <1>3, <1>5
  <2>3. QED
    BY <1>0, <1>1, <1>6, <2>1, <2>2, TakeUnique
<1>12. reply'.id \in {0, reply.id} /\ (reply' = reply \/ reply'.id = 0)
  BY <1>7, <1>8, NoObjectTyped
<1>13. ReplyIsTheLast'
  <2>1. ASSUME reply'.id # 0, NEW i \in Queue', IsDelete(i)' PROVE calls'[i].obj \in contended'
    <3>1. reply.id # 0
      BY <1>12, <2>1
    <3>2. i + 1 \in Queue /\ IsDelete(i + 1) /\ calls'[i] = calls[i + 1]
      BY <1>0, <1>1, <2>1, TakeKinds
    <3>3. QED
      BY <1>1, <3>1, <3>2 DEF RegistryInv, ReplyIsTheLast
  <2>2. ASSUME reply' # NoReply
        PROVE  /\ pc[Main] = "calling" /\ serving'.cmd # m_command_id
               /\ \A i \in Queue' : IsCall(i)' => calls'[i].cmd # m_command_id
    <3>1. ASSUME NEW i \in Queue', IsCall(i)' PROVE calls'[i].cmd # m_command_id
      <4>1. i \in Nat /\ i + 1 \in Queue /\ IsCall(i + 1) /\ calls'[i] = calls[i + 1] /\ i + 1 # 1
        BY <1>0, <1>1, <3>1, TakeKinds
      <4>2. CASE reply' = reply
        BY <2>2, <4>1, <4>2 DEF RegistryInv, ReplyIsTheLast
      <4>3. CASE m_command_id = c
        BY <1>2, <4>1, <4>3 DEF RegistryInv, CommandsAreUnique
      <4>4. QED
        BY <1>8, <4>2, <4>3
    <3>2. pc[Main] = "calling"
      BY <1>8, <2>2 DEF RegistryInv, ReplyIsTheLast
    <3>3. serving'.cmd # m_command_id
      <4>1. CASE reply' = reply
        <5>1. c # m_command_id /\ 0 # m_command_id
          BY <1>3, <1>9, <2>2, <4>1
        <5> HIDE DEF c
        <5>2. QED
          BY <1>5, <5>1
      <4>2. CASE serving' = NoCall
        BY <1>3, <4>2, NothingTyped
      <4>3. QED
        BY <1>8, <4>1, <4>2
    <3>4. QED
      BY <3>1, <3>2, <3>3
  <2>3. QED
    BY <1>1, <2>1, <2>2 DEF ReplyIsTheLast
<1>14. DroppersHaveTheLast'
  BY <1>1 DEF RegistryInv, DroppersHaveTheLast
<1>15. DeletionsAreAwaited'
  <2>1. \A t \in Threads : ~ IsLastDeletion(1, t, dropped[t])
    BY <1>2, <1>10 DEF IsLastDeletion
  <2>2. QED
    BY <1>0, <1>1, <2>1, TakeAwaited
<1>16. DeletionsComeLate'
  <2>1. serving' # NoCall => serving'.cmd = c
    <3> HIDE DEF c
    <3>1. QED
      BY <1>4
  <2>2. QED
    BY <1>0, <1>1, <1>2, <2>1, TakeLate
<1>17. AnswersAreRegistered'
  BY <1>1, <1>6, <1>12, NothingTyped DEF RegistryInv, AnswersAreRegistered
<1>18. RegistryFollowsProxies'
  <2>1. reply.id = reply'.id \/ reply.id = 0
    BY <1>8, <1>9, NothingTyped
  <2>2. orphaned \subseteq orphaned'
    BY <1>8
  <2>3. ASSUME NEW o \in Ids, InFlight(o) PROVE InFlight(o)'
    <3>1. ASSUME NEW i \in Queue, IsDelete(i), calls[i].obj = o PROVE InFlight(o)'
      <4>1. i - 1 \in Queue' /\ calls'[i - 1] = calls[i]
        BY <1>0, <1>1, <1>10, <3>1, TakeKeeps
      <4>2. QED
        BY <1>0, <1>1, <3>1, <4>1, TakeCall DEF InFlight, IsDelete
    <3>2. o # 0
      BY CppIpcAssumption
    <3>3. QED
      BY <1>0, <1>1, <2>1, <2>3, <3>1, <3>2, QueueIsDomain DEF InFlight, IsDelete
  <2>4. QED
    BY <1>1, <2>2, <2>3 DEF RegistryInv, RegistryFollowsProxies
<1>19. QED
  BY <1>1, <1>11, <1>13, <1>14, <1>15, <1>16, <1>17, <1>18 DEF RegistryInv, DeadServerIsEmpty

LEMMA RegistryCommandPolls ==
  ASSUME TypeInv, RegistryInv, CommandPolls
  PROVE  RegistryInv'
<1>1. /\ up /\ serving # NoCall
      /\ UNCHANGED <<calls, reply, pc, dropped, object_ref_count, up, response, registered,
                     m_command_id, orphaned, contended>>
  BY DEF CommandPolls, client, registry
<1>2. serving'.cmd = serving.cmd /\ serving' # NoCall
  BY DEF CommandPolls, NoCall
<1>3. /\ Queue' = Queue
      /\ \A i \in Queue : (IsCall(i)' <=> IsCall(i)) /\ (IsDelete(i)' <=> IsDelete(i))
  BY <1>1, QueueSame
<1>4. DeadServerIsEmpty' /\ CommandsAreUnique' /\ ReplyIsTheLast'
  BY <1>1, <1>2, <1>3 DEF RegistryInv, DeadServerIsEmpty, CommandsAreUnique, ReplyIsTheLast, IsCall
<1>5. DroppersHaveTheLast' /\ DeletionsAreAwaited'
  BY <1>1, StillAwaited DEF RegistryInv, DroppersHaveTheLast
<1>6. DeletionsComeLate'
  BY <1>1, <1>2, <1>3 DEF RegistryInv, DeletionsComeLate, IsCall, Late, Stale
<1>7. AnswersAreRegistered' /\ RegistryFollowsProxies'
  BY <1>1 DEF RegistryInv, AnswersAreRegistered, RegistryFollowsProxies, InFlight, Stale
<1>8. QED
  BY <1>4, <1>5, <1>6, <1>7 DEF RegistryInv

LEMMA RegistryCommandReturns ==
  ASSUME TypeInv, RegistryInv, NEW p \in Pointers \cup {0}, CommandReturns(p)
  PROVE  RegistryInv'
<1>0. TypeOK
  BY DEF TypeInv
<1>1. /\ up /\ serving # NoCall /\ response = NoReply
      /\ UNCHANGED <<calls, reply, pc, dropped, object_ref_count, up, serving, m_command_id,
                     orphaned, contended>>
  BY DEF CommandReturns, client
<1>2. /\ response' # NoReply /\ response'.cmd = serving.cmd
      /\ response'.id # 0 => response'.id \in Ids /\ registered'[response'.id] # 0
      /\ \A o \in Ids : o # response'.id => registered'[o] = registered[o]
      /\ \A o \in Ids : registered[o] # 0 => registered'[o] # 0
      /\ \A o, q \in Ids : registered'[o] # 0 /\ registered'[o] = registered'[q] => o = q
  <2>1. \A o, q \in Ids : registered[o] # 0 /\ registered[o] = registered[q] => o = q
    BY DEF RegistryInv, RegistryFollowsProxies
  <2>2. CASE p = 0
    <3>1. registered' = registered /\ response'.id = 0
      BY <2>2 DEF CommandReturns
    <3>2. response'.status = "OK" /\ response'.cmd = serving.cmd
      BY DEF CommandReturns
    <3>3. QED
      BY <2>1, <3>1, <3>2 DEF NoReply
  <2>3. CASE p # 0
    <3> DEFINE r == register_object(p)
    <3>1. r.ids <= MaxIds /\ registered' = r.registered /\ response'.id = r.id
      BY <2>3 DEF CommandReturns
    <3>2. response'.status = "OK" /\ response'.cmd = serving.cmd
      BY DEF CommandReturns
    <3>3. /\ r.id \in Ids /\ r.registered[r.id] = p
          /\ \A o \in Ids : o # r.id => /\ r.registered[o] = registered[o]
                                        /\ registered[o] # p \/ registered[r.id] = p
      BY <1>0, <2>3, <3>1, RegisterTyped
    <3> HIDE DEF r
    <3>4. ASSUME NEW o \in Ids, registered'[o] = p PROVE o = r.id
      BY <2>1, <2>3, <3>1, <3>3, <3>4
    <3>5. ASSUME NEW o \in Ids, NEW q \in Ids, registered'[o] # 0, registered'[o] = registered'[q]
          PROVE  o = q
      <4>1. CASE registered'[o] = p
        BY <3>4, <3>5, <4>1
      <4>2. CASE registered'[o] # p
        BY <2>1, <3>1, <3>3, <3>5, <4>2
      <4>3. QED
        BY <4>1, <4>2
    <3>6. response' # NoReply
      BY <3>2 DEF NoReply
    <3>7. QED
      BY <2>3, <3>1, <3>2, <3>3, <3>5, <3>6
  <2>4. QED
    BY <2>2, <2>3
<1>3. /\ Queue' = Queue
      /\ \A i \in Queue : (IsCall(i)' <=> IsCall(i)) /\ (IsDelete(i)' <=> IsDelete(i))
  BY <1>1, QueueSame
<1>4. DeadServerIsEmpty' /\ CommandsAreUnique' /\ ReplyIsTheLast'
  BY <1>1, <1>2, <1>3 DEF RegistryInv, DeadServerIsEmpty, CommandsAreUnique, ReplyIsTheLast, IsCall
<1>5. DroppersHaveTheLast' /\ DeletionsAreAwaited'
  BY <1>1, StillAwaited DEF RegistryInv, DroppersHaveTheLast
<1>6. DeletionsComeLate'
  BY <1>1, <1>3 DEF RegistryInv, DeletionsComeLate, IsCall, Late, Stale
<1>7. AnswersAreRegistered'
  <2>1. reply.id # 0 => /\ reply.id \in Ids
                        /\ registered[reply.id] # 0 \/ reply.id \in contended
    BY <1>0, <1>1, Numbers, CppIpcAssumption DEF RegistryInv, AnswersAreRegistered
  <2>2. QED
    BY <1>1, <1>2, <2>1 DEF AnswersAreRegistered
<1>8. RegistryFollowsProxies'
  <2>1. ASSUME NEW o \in Ids, InFlight(o) PROVE InFlight(o)'
    <3>1. o # response.id
      BY <1>1, NothingTyped, CppIpcAssumption
    <3>2. QED
      BY <1>1, <2>1, <3>1 DEF InFlight
  <2>2. InFlight(response.id)'
    BY DEF InFlight
  <2>3. ASSUME NEW o \in Ids, registered'[o] # 0
        PROVE  object_ref_count'[o] > 0 \/ InFlight(o)' \/ o \in orphaned'
    <3>1. CASE o = response'.id
      BY <2>2, <3>1 DEF InFlight
    <3>2. CASE o # response'.id
      BY <1>1, <1>2, <2>1, <2>3, <3>2 DEF RegistryInv, RegistryFollowsProxies
    <3>3. QED
      BY <3>1, <3>2
  <2>4. QED
    BY <1>1, <1>2, <2>3 DEF RegistryInv, RegistryFollowsProxies
<1>9. QED
  BY <1>4, <1>5, <1>6, <1>7, <1>8 DEF RegistryInv

LEMMA RegistryCommandEnds ==
  ASSUME TypeInv, RegistryInv, CommandEnds
  PROVE  RegistryInv'
<1>0. TypeOK /\ RunningIsTheCall
  BY DEF TypeInv
<1>1. /\ up /\ response # NoReply /\ response' = NoReply /\ serving' = NoCall /\ Deliver(response)
      /\ UNCHANGED <<calls, pc, dropped, object_ref_count, up, registered, m_command_id, contended>>
  BY DEF CommandEnds, client, registry
<1>2. serving # NoCall /\ response.cmd = serving.cmd
  BY <1>1 DEF RegistryInv, CommandsAreUnique
<1>3. \/ /\ reply' = response /\ orphaned' = orphaned
         /\ pc[Main] = "calling" /\ m_command_id = serving.cmd
      \/ reply' = reply /\ orphaned' = orphaned \cup ({response.id} \ {0})
  BY <1>1, <1>2 DEF Deliver
<1>4. /\ Queue' = Queue
      /\ \A i \in Queue : (IsCall(i)' <=> IsCall(i)) /\ (IsDelete(i)' <=> IsDelete(i))
  BY <1>1, QueueSame
<1>5. reply # NoReply => serving.cmd # m_command_id
  BY DEF RegistryInv, ReplyIsTheLast
<1>6. CommandsAreUnique'
  <2>1. ASSUME NEW i \in Queue, IsCall(i)
        PROVE  calls[i].cmd \in 1 .. m_command_id /\ calls[i].cmd # serving'.cmd
    BY <1>1, <2>1, NothingTyped DEF RegistryInv, CommandsAreUnique
  <2>2. serving'.cmd <= m_command_id
    BY <1>0, <1>1, NothingTyped, Numbers
  <2>3. QED
    BY <1>1, <1>4, <2>1, <2>2 DEF RegistryInv, CommandsAreUnique, IsCall
<1>7. ReplyIsTheLast'
  <2>1. pc[Main] = "calling" => serving'.cmd # m_command_id
    BY <1>0, <1>1, NothingTyped, Numbers DEF RunningIsTheCall
  <2>2. CASE reply' = reply
    BY <1>1, <1>4, <2>1, <2>2 DEF RegistryInv, ReplyIsTheLast, IsCall
  <2>3. CASE pc[Main] = "calling" /\ m_command_id = serving.cmd
    <3>1. ASSUME NEW i \in Queue, IsDelete(i) PROVE calls[i].obj \in contended
      <4>1. ~ Late(i)
        BY <1>0, <1>2, <2>3, Numbers DEF Late, Stale
      <4>2. QED
        BY <3>1, <4>1 DEF RegistryInv, DeletionsComeLate
    <3>2. ASSUME NEW i \in Queue, IsCall(i) PROVE calls[i].cmd # m_command_id
      BY <2>3, <3>2 DEF RegistryInv, CommandsAreUnique
    <3>3. QED
      BY <1>1, <1>4, <2>1, <2>3, <3>1, <3>2 DEF ReplyIsTheLast
  <2>4. QED
    BY <1>3, <2>2, <2>3
<1>8. DroppersHaveTheLast' /\ DeletionsAreAwaited'
  BY <1>1, StillAwaited DEF RegistryInv, DroppersHaveTheLast
<1>9. DeletionsComeLate'
  BY <1>1, <1>4 DEF RegistryInv, DeletionsComeLate, IsCall, Late, Stale
<1>10. AnswersAreRegistered'
  <2>1. CASE reply' = reply
    BY <1>1, <2>1, NothingTyped DEF RegistryInv, AnswersAreRegistered
  <2>2. CASE reply' = response /\ pc[Main] = "calling" /\ m_command_id = serving.cmd
    <3>1. ~ Stale(response.cmd)
      BY <1>0, <1>2, <2>2, Numbers DEF Stale
    <3>2. QED
      BY <1>1, <2>2, <3>1, NothingTyped DEF RegistryInv, AnswersAreRegistered
  <2>3. QED
    BY <1>3, <2>1, <2>2
<1>11. RegistryFollowsProxies'
  <2>1. ASSUME NEW o \in Ids, InFlight(o) PROVE InFlight(o)' \/ o \in orphaned'
    <3>1. o # 0
      BY CppIpcAssumption
    <3>2. CASE o = reply.id
      <4>1. reply' = reply
        BY <1>3, <1>5, <3>1, <3>2, NothingTyped
      <4>2. QED
        BY <3>2, <4>1 DEF InFlight
    <3>3. CASE o = response.id
      BY <1>3, <3>1, <3>3 DEF InFlight
    <3>4. CASE o # reply.id /\ o # response.id
      BY <1>1, <2>1, <3>4 DEF InFlight
    <3>5. QED
      BY <3>2, <3>3, <3>4
  <2>2. orphaned \subseteq orphaned'
    BY <1>3
  <2>3. QED
    BY <1>1, <2>1, <2>2 DEF RegistryInv, RegistryFollowsProxies
<1>12. QED
  BY <1>1, <1>6, <1>7, <1>8, <1>9, <1>10, <1>11 DEF RegistryInv, DeadServerIsEmpty

LEMMA RegistryDeletionServed ==
  ASSUME TypeInv, RegistryInv, DeletionServed
  PROVE  RegistryInv'
<1> DEFINE d == calls[1].obj
           u == calls[1].from
<1>0. TypeOK
  BY DEF TypeInv
<1>1. /\ up /\ serving = NoCall /\ calls # <<>> /\ calls' = Tail(calls)
      /\ UNCHANGED <<pc, reply, object_ref_count, up, serving, response, m_command_id, orphaned,
                     contended>>
  BY DEF DeletionServed
<1>2. 1 \in Queue /\ Head(calls) = calls[1] /\ IsDelete(1)
  BY <1>0, <1>1, TakeCall DEF DeletionServed, IsDelete
<1>3. d \in Ids /\ (object_ref_count[d] = 0 \/ d \in contended) /\ u \in Threads
  BY <1>0, <1>2, Numbers, CppIpcAssumption DEF RegistryInv, DeletionsComeLate
<1>4. registered'[d] = 0 /\ \A o \in Ids \ {d} : registered'[o] = registered[o]
  BY <1>0, <1>2, <1>3 DEF DeletionServed, TypeOK
<1>5. \/ /\ dropped' = dropped
         /\ ~ (pc[u] = "waiting" /\ \A i \in 2 .. Len(calls) : calls[i].from # u)
      \/ /\ pc[u] = "waiting" /\ \A i \in 2 .. Len(calls) : calls[i].from # u
         /\ dropped'[u] = 0 /\ \A t \in Threads \ {u} : dropped'[t] = dropped[t]
  BY <1>0, <1>2, <1>3 DEF DeletionServed, TypeOK
<1>6. reply.id = d => d \in contended
  BY <1>2, <1>3, CppIpcAssumption DEF RegistryInv, ReplyIsTheLast
<1>7. response = NoReply
  BY <1>1 DEF RegistryInv, CommandsAreUnique
<1>8. CommandsAreUnique'
  BY <1>0, <1>1, <1>7, TakeUnique DEF RegistryInv, CommandsAreUnique
<1>9. ReplyIsTheLast'
  <2>1. \A i \in Queue' : /\ i + 1 \in Queue /\ calls'[i] = calls[i + 1]
                          /\ IsCall(i)' <=> IsCall(i + 1)
                          /\ IsDelete(i)' <=> IsDelete(i + 1)
    BY <1>0, <1>1, TakeKinds
  <2>2. QED
    BY <1>1, <2>1 DEF RegistryInv, ReplyIsTheLast
<1>10. DroppersHaveTheLast'
  <2>1. ASSUME NEW t \in Threads
        PROVE  dropped'[t] = dropped[t] \/ pc[t] = "waiting"
    <3> HIDE DEF u
    <3>1. QED
      BY <1>5
  <2>2. QED
    BY <1>1, <2>1 DEF RegistryInv, DroppersHaveTheLast
<1>11. DeletionsAreAwaited'
  <2>1. ASSUME NEW t \in Threads, pc[t] = "waiting", dropped'[t] # 0
        PROVE  dropped'[t] = dropped[t] /\ ~ IsLastDeletion(1, t, dropped[t])
    <3>1. dropped'[t] = dropped[t]
      <4> HIDE DEF u
      <4>1. QED
        BY <1>5, <2>1
    <3>2. ASSUME IsLastDeletion(1, t, dropped[t]) PROVE FALSE
      <4>1. u = t
        BY <3>2 DEF IsLastDeletion
      <4>2. \A i \in 2 .. Len(calls) : i \in Queue /\ ~ i <= 1
        BY <1>0, Numbers
      <4>3. \A i \in 2 .. Len(calls) : calls[i].from # u
        BY <3>2, <4>1, <4>2 DEF IsLastDeletion
      <4> HIDE DEF u
      <4>4. QED
        BY <1>5, <2>1, <4>1, <4>3
    <3>3. QED
      BY <3>1, <3>2
  <2>2. QED
    BY <1>0, <1>1, <2>1, TakeAwaited
<1>12. DeletionsComeLate'
  BY <1>0, <1>1, TakeLate
<1>13. AnswersAreRegistered'
  <2>1. ASSUME reply.id # 0 PROVE registered'[reply.id] # 0 \/ reply.id \in contended
    <3>1. reply.id \in Ids /\ (registered[reply.id] # 0 \/ reply.id \in contended)
      BY <1>0, <1>1, <2>1, Numbers, CppIpcAssumption DEF RegistryInv, AnswersAreRegistered
    <3> HIDE DEF d
    <3>2. QED
      BY <1>4, <1>6, <3>1
  <2>2. QED
    BY <1>1, <1>7, <2>1, NothingTyped DEF AnswersAreRegistered
<1>14. RegistryFollowsProxies'
  <2>1. ASSUME NEW o \in Ids, o # d, InFlight(o) PROVE InFlight(o)'
    <3>1. ASSUME NEW i \in Queue, IsDelete(i), calls[i].obj = o PROVE InFlight(o)'
      <4>1. i # 1
        BY <2>1, <3>1
      <4>2. i - 1 \in Queue' /\ calls'[i - 1] = calls[i]
        BY <1>0, <1>1, <4>1, TakeKeeps
      <4>3. QED
        BY <1>0, <1>1, <3>1, <4>2, TakeCall DEF InFlight, IsDelete
    <3>2. ASSUME NEW t \in Threads, dropped[t] = o PROVE InFlight(o)'
      <4>1. CASE dropped'[t] = o
        BY <4>1 DEF InFlight
      <4>2. CASE dropped'[t] # o
        <5>1. t = u /\ pc[t] = "waiting"
          <6> HIDE DEF u
          <6>1. QED
            BY <1>5, <3>2, <4>2
        <5>2. o # 0
          BY CppIpcAssumption
        <5>3. PICK i \in Queue : IsDelete(i) /\ calls[i].obj = o
          BY <1>1, <3>2, <5>1, <5>2 DEF RegistryInv, DeletionsAreAwaited, IsLastDeletion
        <5>4. QED
          BY <3>1, <5>3
      <4>3. QED
        BY <4>1, <4>2
    <3>3. QED
      BY <1>0, <1>1, <2>1, <3>1, <3>2, QueueIsDomain DEF InFlight, IsDelete
  <2> HIDE DEF d
  <2>2. ASSUME NEW o \in Ids, object_ref_count[o] > 0
        PROVE  registered'[o] # 0 \/ ~ up \/ o \in contended
    BY <1>3, <1>4, <2>2 DEF RegistryInv, RegistryFollowsProxies
  <2>3. ASSUME NEW o \in Ids, registered'[o] # 0
        PROVE  o # d /\ (object_ref_count[o] > 0 \/ InFlight(o)' \/ o \in orphaned)
    BY <1>4, <2>1, <2>3 DEF RegistryInv, RegistryFollowsProxies
  <2>4. ASSUME NEW o \in Ids, NEW q \in Ids, registered'[o] # 0, registered'[o] = registered'[q]
        PROVE  o = q
    BY <1>4, <2>3, <2>4 DEF RegistryInv, RegistryFollowsProxies
  <2>5. QED
    BY <1>1, <2>2, <2>3, <2>4 DEF RegistryFollowsProxies
<1>15. QED
  BY <1>1, <1>8, <1>9, <1>10, <1>11, <1>12, <1>13, <1>14 DEF RegistryInv, DeadServerIsEmpty

LEMMA RegistryServerDies ==
  ASSUME TypeInv, RegistryInv, ServerDies
  PROVE  RegistryInv'
<1>0. TypeOK /\ RunningIsTheCall
  BY DEF TypeInv
<1>1. /\ up' = FALSE /\ calls' = <<>> /\ serving' = NoCall /\ response' = NoReply
      /\ \A o \in Ids : registered'[o] = 0
      /\ UNCHANGED <<pc, dropped, object_ref_count, reply, m_command_id, orphaned, contended>>
  BY DEF ServerDies, client
<1>2. Queue' = {} /\ DOMAIN calls' = {}
  BY <1>1 DEF Queue
<1>3. DeadServerIsEmpty'
  BY <1>1 DEF DeadServerIsEmpty
<1>4. CommandsAreUnique'
  <2>1. serving'.cmd <= m_command_id'
    BY <1>0, <1>1, Numbers, NothingTyped
  <2>2. QED
    BY <1>1, <1>2, <2>1 DEF CommandsAreUnique
<1>5. ReplyIsTheLast'
  <2>1. pc[Main] = "calling" => serving'.cmd # m_command_id
    BY <1>0, <1>1, NothingTyped, Numbers DEF RunningIsTheCall
  <2>2. QED
    BY <1>1, <1>2, <2>1 DEF RegistryInv, ReplyIsTheLast
<1>6. DroppersHaveTheLast' /\ DeletionsAreAwaited' /\ DeletionsComeLate'
  BY <1>1, <1>2 DEF RegistryInv, DroppersHaveTheLast, DeletionsAreAwaited, DeletionsComeLate
<1>7. AnswersAreRegistered' /\ RegistryFollowsProxies'
  BY <1>1, NothingTyped DEF AnswersAreRegistered, RegistryFollowsProxies
<1>8. QED
  BY <1>3, <1>4, <1>5, <1>6, <1>7 DEF RegistryInv

LEMMA RegistryStep ==
  ASSUME TypeInv, RegistryInv, [Next]_vars
  PROVE  RegistryInv'
<1> USE DEF registry_state
<1>1. ASSUME NEW o \in Ids \cup {0}, CallStart(o) PROVE RegistryInv'
  BY <1>1, RegistryCallStart
<1>2. CASE CallReturns \/ CallGivesUp
  BY <1>2, RegistryCallReturns, RegistryCallGivesUp
<1>3. ASSUME NEW t \in Threads, SendDeletion(t) \/ DeletionReturns(t) PROVE RegistryInv'
  BY <1>3, RegistrySendDeletion, RegistryDeletionReturns
<1>4. ASSUME NEW t \in Threads, NEW o \in Ids, Drop(t, o) PROVE RegistryInv'
  BY <1>4, RegistryDrop
<1>5. CASE CtrlC \/ HandlerLoads \/ HandlerStores
  BY <1>5, RegistryUnchanged DEF CtrlC, HandlerLoads, HandlerStores, client, command, registry
<1>6. CASE PingNext
  <2>1. UNCHANGED registry_state
    BY <1>6 DEF PingNext, PingChecksFlag, PingClearsFlag, PingSendsCancel, PingIsAnswered,
       PingTimesOut, client, command, registry
  <2>2. QED
    BY <2>1, RegistryUnchanged
<1>7. CASE PingServed
  BY <1>7, RegistryUnchanged DEF PingServed, client, command, registry
<1>8. CASE CommandStarts
  BY <1>8, RegistryCommandStarts
<1>9. CASE CommandPolls
  BY <1>9, RegistryCommandPolls
<1>10. ASSUME NEW p \in Pointers \cup {0}, CommandReturns(p) PROVE RegistryInv'
  BY <1>10, RegistryCommandReturns
<1>11. CASE CommandEnds
  BY <1>11, RegistryCommandEnds
<1>12. CASE DeletionServed
  BY <1>12, RegistryDeletionServed
<1>13. CASE ServerDies
  BY <1>13, RegistryServerDies
<1>14. CASE UNCHANGED vars
  BY <1>14, RegistryUnchanged DEF vars, client, command, registry
<1>15. QED
  BY <1>1, <1>2, <1>3, <1>4, <1>5, <1>6, <1>7, <1>8, <1>9, <1>10, <1>11, <1>12, <1>13, <1>14
  DEF Next, ServerNext

\* The registry of the server and the proxies of the client agree, whichever
\* threads drop proxies, however calls are given up, sends refused, replies late
\* and deletions queued behind them: no registered object is forgotten except in
\* a late reply or a refused deletion, none is registered twice, and an object
\* with a proxy is registered, but for the one case that decr_ref_count() leaves
\* open (an object whose last proxy another thread was dropping during a call).
THEOREM RegistryCorrect == Spec => []RegistryFollowsProxies
<1>1. Init => TypeInv /\ RegistryInv
  BY TypeInit, RegistryInit
<1>2. TypeInv /\ RegistryInv /\ [Next]_vars => (TypeInv /\ RegistryInv)'
  BY TypeStep, RegistryStep
<1>3. RegistryInv => RegistryFollowsProxies
  BY DEF RegistryInv
<1>4. QED
  BY <1>1, <1>2, <1>3, PTL DEF Spec

\* sync_objects() deletes the "objects on the server that are now unused by the
\* client": one that a proxy refers to is there while the server lives.
OnlyUnusedAreDeleted ==
  \A o \in Ids : object_ref_count[o] > 0 => registered[o] # 0 \/ ~ up

\* The exception for contended objects is about a second thread: when Main alone
\* drops proxies, sync_objects() deletes only what is unused.
THEOREM UnusedCorrect ==
  ASSUME Threads = {Main}
  PROVE  Spec => []OnlyUnusedAreDeleted
<1>1. Init => contended = {}
  BY DEF Init
<1>2. TypeInv /\ contended = {} /\ [Next]_vars => (contended = {})'
  <2> SUFFICES ASSUME TypeInv, contended = {}, [Next]_vars PROVE contended' = {}
    OBVIOUS
  <2>1. ASSUME NEW o \in Ids \cup {0}, CallStart(o) PROVE contended' = {}
    BY <2>1 DEF CallStart
  <2>2. ASSUME NEW t \in Threads, NEW o \in Ids, Drop(t, o) PROVE contended' = {}
    BY <2>2 DEF Drop
  <2>3. CASE UNCHANGED contended
    BY <2>3
  <2>4. QED
    BY <2>1, <2>2, <2>3
    DEF Next, PingNext, ServerNext, vars, client, CallReturns, CallGivesUp, SendDeletion,
        DeletionReturns, CtrlC, HandlerLoads, HandlerStores, PingChecksFlag, PingClearsFlag,
        PingSendsCancel, PingIsAnswered, PingTimesOut, PingServed, CommandStarts, CommandPolls,
        CommandReturns, CommandEnds, DeletionServed, ServerDies
<1>3. contended = {} /\ RegistryFollowsProxies => OnlyUnusedAreDeleted
  BY DEF RegistryFollowsProxies, OnlyUnusedAreDeleted
<1>4. Spec => []TypeInv
  <2>1. TypeInv /\ [Next]_vars => TypeInv'
    BY TypeStep
  <2>2. QED
    BY <2>1, TypeInit, PTL DEF Spec
<1>5. QED
  BY <1>1, <1>2, <1>3, <1>4, RegistryCorrect, PTL DEF Spec
=============================================================================
