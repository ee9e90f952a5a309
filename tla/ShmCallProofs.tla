--------------------------- MODULE ShmCallProofs ---------------------------
(***************************************************************************)
(* The safety properties of ShmCall for every size of the buffer, any      *)
(* number of calls and all lengths of the messages that large_send() can   *)
(* handle: none is one byte shorter than the buffer (see the run           *)
(* shm_call_length), and none is empty: a message starts with its type.    *)
(***************************************************************************)
EXTENDS ShmCall, TLAPS

GoodLengths == 0 \notin Lengths /\ BufferSize - 1 \notin Lengths

-----------------------------------------------------------------------------
(* The states of a transfer from a side s to its peer.                     *)

\* Where the receiver of the next piece may be.
Awaits(s) == pc[s] = "recv" \/ (s = "server" /\ pc[s] = "listening")

\* No message is in the channel.
Quiet == m_count["client"] = 0 /\ m_count["server"] = 0 /\ m_buffer_content_size = 0

\* The pieces are full buffers from the beginning of the message m.
FullPieces(pieces, m) ==
  \A i \in 1 .. Len(pieces) : pieces[i] = Piece(m, (i - 1) * BufferSize, BufferSize)

\* The receiver has all that was sent, which is not yet the whole message.
InStep(s) ==
  /\ FullPieces(received[Peer(s)], msg[s])
  /\ sent[s] = Len(received[Peer(s)]) * BufferSize /\ sent[s] <= msg[s].len

\* A piece of n bytes follows what the receiver has; a full one is not the last.
Follows(s, n) ==
  LET from == Len(received[Peer(s)]) * BufferSize
  IN  /\ FullPieces(received[Peer(s)], msg[s])
      /\ n > 0 => m_buffer.of = msg[s] /\ m_buffer.from = from
      /\ IF n = BufferSize
           THEN pc[s] \in {"ack", "dead"} /\ sent[s] = from + n /\ sent[s] <= msg[s].len
           ELSE pc[s] \in {"recv", "dead"} /\ from + n = msg[s].len

Offering(s) == /\ pc[s] = "send" /\ Awaits(Peer(s)) /\ Quiet
               /\ received[Peer(s)] = <<>> /\ sent[s] = 0
InFlight(s) == /\ Awaits(Peer(s)) /\ m_count[s] = 0 /\ m_count[Peer(s)] = 1
               /\ Follows(s, m_buffer_content_size)
Copying(s) == pc[Peer(s)] = "copy" /\ Quiet /\ Follows(s, last_receivelen[Peer(s)])
Acknowledging(s) == pc[s] = "ack" /\ pc[Peer(s)] = "send_ack" /\ Quiet /\ InStep(s)
Acknowledged(s) == /\ pc[s] = "ack" /\ pc[Peer(s)] \in {"recv", "dead"} /\ InStep(s)
                   /\ m_count[s] = 1 /\ m_count[Peer(s)] = 0 /\ m_buffer_content_size = 0
Continuing(s) == pc[s] = "next" /\ pc[Peer(s)] = "recv" /\ Quiet /\ InStep(s)
Delivered(s) == /\ pc[s] \in {"recv", "dead"} /\ pc[Peer(s)] = "done" /\ Quiet
                /\ IsWhole(received[Peer(s)], msg[s])

Transferring(s) ==
  /\ \/ Offering(s) \/ InFlight(s) \/ Copying(s) \/ Acknowledging(s) \/ Acknowledged(s)
     \/ Continuing(s) \/ Delivered(s)
  /\ received[s] = <<>> /\ msg[s].call = calls /\ msg[s].len \in Lengths

\* Where the master is when it transfers nothing.
Outside == {"start", "connecting", "idle", "ipc", "release", "closed"}

Resting ==
  /\ pc["client"] \in Outside /\ pc["server"] \in {"start", "listening", "recv", "stopped"}
  /\ Quiet /\ received["server"] = <<>>
  /\ connection => pc["server"] # "start"

\* The worker has died, and nothing more will come from it.
Lost ==
  /\ pc["server"] = "dead" /\ pc["client"] \notin {"copy", "done"} /\ m_count["client"] = 0
  /\ pc["client"] \in {"send", "next", "send_ack"} => m_count["server"] = 0
  /\ pc["client"] \in {"start", "connecting"} => m_count["server"] = 0
  /\ pc["client"] \in Outside /\ connection => m_count["server"] = 0
  /\ pc["client"] = "next" => sent["client"] <= msg["client"].len

\* How the sides, the connection and the process belong together.
Together ==
  /\ pc["server"] = "start" => ~ server_listening
  /\ connection \/ pc["client"] = "connecting" => client_connecting
  /\ pc["client"] \in {"start", "connecting", "ipc"} => ~ connection
  /\ pc["client"] \notin Outside => connection
  /\ terminating => pc["client"] = "closed"
  /\ pc["server"] = "stopped" => terminating
  /\ (pc["server"] = "dead") <=> (process # "running")
  /\ pc["client"] = "failed" => process # "running"
  /\ worker = "replacement" => process # "running"

Phase == Transferring("client") \/ Transferring("server") \/ Resting \/ Lost

IInv == TypeOK /\ Phase /\ Together /\ OnlyDeathCostsACall
-----------------------------------------------------------------------------
(* Lemmas about the sides and the phases.                                  *)

LEMMA TwoSides ==
  ASSUME NEW s \in Sides
  PROVE  /\ Peer(s) \in Sides /\ Peer(s) # s /\ Peer(Peer(s)) = s /\ Sides = {s, Peer(s)}
         /\ s = "client" => Peer(s) = "server"
         /\ s = "server" => Peer(s) = "client"
         /\ "client" \in Sides /\ "server" \in Sides
BY DEF Sides, Peer

LEMMA BothSides ==
  /\ "client" \in Sides /\ "server" \in Sides
  /\ Peer("client") = "server" /\ Peer("server") = "client"
BY DEF Sides, Peer

\* The parts of TypeOK that a transfer changes, and the others.
ChannelTyped ==
  /\ m_count \in [Sides -> 0 .. 1]
  /\ m_count["client"] + m_count["server"] <= 1
  /\ m_buffer_content_size \in 0 .. BufferSize /\ m_buffer \in Pieces
  /\ sent \in [Sides -> Nat]
  /\ received \in [Sides -> Seq(Pieces)]
  /\ last_receivelen \in [Sides -> 0 .. BufferSize]

OtherTyped ==
  /\ client_connecting \in BOOLEAN /\ server_listening \in BOOLEAN
  /\ pc \in [Sides -> ClientPC \cup ServerPC]
  /\ pc["client"] \in ClientPC /\ pc["server"] \in ServerPC
  /\ msg \in [Sides -> Messages]
  /\ terminating \in BOOLEAN /\ connection \in BOOLEAN
  /\ result \in {"none", "reply", "comm_failure", "unknown_lambda"}
  /\ worker \in {"first", "replacement"} /\ process \in {"running", "zombie", "gone"}
  /\ handler \in BOOLEAN /\ sigchld \in BOOLEAN
  /\ calls \in 0 .. MaxCalls /\ spawns \in 0 .. MaxSpawns

LEMMA TypeParts == TypeOK <=> ChannelTyped /\ OtherTyped
BY DEF TypeOK, ChannelTyped, OtherTyped

LEMMA TypePartsNext == TypeOK' <=> ChannelTyped' /\ OtherTyped'
BY DEF TypeOK, ChannelTyped, OtherTyped

\* Where the sides are during a transfer.
LEMMA PlacesInTransfer ==
  ASSUME NEW s \in Sides, Transferring(s)
  PROVE  /\ pc[s] \in {"send", "ack", "next", "recv", "dead"}
         /\ pc[Peer(s)] \in {"recv", "listening", "copy", "send_ack", "done", "dead"}
BY DEF Transferring, Offering, InFlight, Copying, Acknowledging, Acknowledged, Continuing,
       Delivered, Awaits, Follows

LEMMA PhaseOfSide ==
  ASSUME Phase, NEW s \in Sides
  PROVE  Transferring(s) \/ Transferring(Peer(s)) \/ Resting \/ Lost
BY TwoSides DEF Phase, Sides, Peer

\* What the place of a side says about the transfer.
LEMMA AtSend ==
  ASSUME Phase, NEW s \in Sides, pc[s] = "send"
  PROVE  (Transferring(s) /\ Offering(s)) \/ (s = "client" /\ Lost)
<1>1. ~ Transferring(Peer(s))
  BY PlacesInTransfer, TwoSides
<1>2. Resting => FALSE
  BY TwoSides DEF Resting, Outside, Sides
<1>3. CASE Transferring(s)
  BY <1>3, TwoSides DEF Transferring, Offering, InFlight, Copying, Acknowledging, Acknowledged,
                        Continuing, Delivered, Follows
<1>4. CASE Lost
  BY <1>4 DEF Lost, Sides
<1>5. QED
  BY <1>1, <1>2, <1>3, <1>4, PhaseOfSide

LEMMA AtAck ==
  ASSUME Phase, NEW s \in Sides, pc[s] = "ack"
  PROVE  \/ Transferring(s) /\ (InFlight(s) \/ Copying(s) \/ Acknowledging(s) \/ Acknowledged(s))
         \/ s = "client" /\ Lost
<1>1. ~ Transferring(Peer(s))
  BY PlacesInTransfer, TwoSides
<1>2. Resting => FALSE
  BY TwoSides DEF Resting, Outside, Sides
<1>3. CASE Transferring(s)
  BY <1>3, TwoSides DEF Transferring, Offering, Continuing, Delivered
<1>4. CASE Lost
  BY <1>4 DEF Lost, Sides
<1>5. QED
  BY <1>1, <1>2, <1>3, <1>4, PhaseOfSide

LEMMA AtNext ==
  ASSUME Phase, NEW s \in Sides, pc[s] = "next"
  PROVE  (Transferring(s) /\ Continuing(s)) \/ (s = "client" /\ Lost)
<1>1. ~ Transferring(Peer(s))
  BY PlacesInTransfer, TwoSides
<1>2. Resting => FALSE
  BY TwoSides DEF Resting, Outside, Sides
<1>3. CASE Transferring(s)
  BY <1>3, TwoSides DEF Transferring, Offering, InFlight, Copying, Acknowledging, Acknowledged,
                        Delivered, Follows
<1>4. CASE Lost
  BY <1>4 DEF Lost, Sides
<1>5. QED
  BY <1>1, <1>2, <1>3, <1>4, PhaseOfSide

\* A message for a side that waits for a piece is one.
LEMMA AtReceive ==
  ASSUME TypeOK, Phase, NEW s \in Sides, pc[s] = "recv", m_count[s] > 0
  PROVE  Transferring(Peer(s)) /\ InFlight(Peer(s))
<1>1. PICK p \in Sides : p = Peer(s) /\ Peer(p) = s /\ s # p /\ m_count[s] = 1 /\ m_count[p] = 0
  BY TwoSides DEF TypeOK, Sides
<1>2. ~ Quiet
  BY <1>1 DEF Quiet, Sides
<1>3. ~ Resting
  BY <1>2 DEF Resting
<1>4. ~ Lost
  BY <1>1 DEF Lost, Sides
<1>5. ~ Transferring(s)
  BY <1>1, <1>2 DEF Transferring, Offering, InFlight, Copying, Acknowledging, Acknowledged,
                    Continuing, Delivered
<1>6. Transferring(p)
  BY <1>1, <1>3, <1>4, <1>5, PhaseOfSide
<1>7. InFlight(p)
  BY <1>1, <1>2, <1>6 DEF Transferring, Offering, Copying, Acknowledging, Acknowledged,
                          Continuing, Delivered
<1>8. QED
  BY <1>1, <1>6, <1>7

LEMMA AtCopy ==
  ASSUME Phase, NEW s \in Sides, pc[s] = "copy"
  PROVE  Transferring(Peer(s)) /\ Copying(Peer(s))
<1>1. PICK p \in Sides : p = Peer(s) /\ Peer(p) = s
  BY TwoSides
<1>2. ~ Transferring(s)
  BY PlacesInTransfer
<1>3. ~ Resting /\ ~ Lost
  BY DEF Resting, Lost, Outside, Sides
<1>4. Transferring(p)
  BY <1>1, <1>2, <1>3, PhaseOfSide
<1>5. Copying(p)
  BY <1>1, <1>4 DEF Transferring, Offering, InFlight, Acknowledging, Acknowledged,
                    Continuing, Delivered, Awaits
<1>6. QED
  BY <1>1, <1>4, <1>5

LEMMA AtSendAck ==
  ASSUME Phase, NEW s \in Sides, pc[s] = "send_ack"
  PROVE  (Transferring(Peer(s)) /\ Acknowledging(Peer(s))) \/ (s = "client" /\ Lost)
<1>1. PICK p \in Sides : p = Peer(s) /\ Peer(p) = s
  BY TwoSides
<1>2. ~ Transferring(s)
  BY PlacesInTransfer
<1>3. ~ Resting
  BY DEF Resting, Outside, Sides
<1>4. CASE Transferring(p)
  BY <1>1, <1>4 DEF Transferring, Offering, InFlight, Copying, Acknowledged,
                    Continuing, Delivered, Awaits
<1>5. CASE Lost
  BY <1>5 DEF Lost, Sides
<1>6. QED
  BY <1>1, <1>2, <1>3, <1>4, <1>5, PhaseOfSide

LEMMA AtDone ==
  ASSUME Phase, NEW s \in Sides, pc[s] = "done"
  PROVE  Transferring(Peer(s)) /\ Delivered(Peer(s))
<1>1. PICK p \in Sides : p = Peer(s) /\ Peer(p) = s
  BY TwoSides
<1>2. ~ Transferring(s)
  BY PlacesInTransfer
<1>3. ~ Resting /\ ~ Lost
  BY DEF Resting, Lost, Outside, Sides
<1>4. Transferring(p)
  BY <1>1, <1>2, <1>3, PhaseOfSide
<1>5. Delivered(p)
  BY <1>1, <1>4 DEF Transferring, Offering, InFlight, Copying, Acknowledging, Acknowledged,
                    Continuing, Awaits
<1>6. QED
  BY <1>1, <1>4, <1>5

-----------------------------------------------------------------------------
(* Steps of large_send() and large_receive().                              *)

InTransfer == {"send", "ack", "next", "recv", "copy", "send_ack", "done"}

\* What such a step leaves alone.
LEMMA TransferLeaves ==
  ASSUME IInv, NEW s \in Sides, NEW l \in InTransfer, pc[s] \in InTransfer,
         pc' = [pc EXCEPT ![s] = l], msg' = msg,
         UNCHANGED <<client_connecting, server_listening, terminating, system, master>>
  PROVE  OtherTyped' /\ Together' /\ OnlyDeathCostsACall'
<1>1. /\ pc \in [Sides -> ClientPC \cup ServerPC] /\ pc["client"] \in ClientPC
      /\ pc["server"] \in ServerPC /\ l \in ClientPC /\ l \in ServerPC
  BY DEF IInv, TypeOK, InTransfer, ClientPC, ServerPC
<1>2. /\ pc'[s] = l /\ \A z \in Sides \ {s} : pc'[z] = pc[z]
      /\ pc' \in [Sides -> ClientPC \cup ServerPC]
      /\ pc'["client"] \in ClientPC /\ pc'["server"] \in ServerPC
  BY <1>1 DEF Sides
<1>3. OtherTyped'
  BY <1>2, TypeParts DEF IInv, OtherTyped, system, master
<1>4. Together'
  BY <1>2 DEF IInv, Together, system, master, InTransfer, Outside, Sides
<1>5. OnlyDeathCostsACall'
  BY <1>2 DEF IInv, OnlyDeathCostsACall, system, master, InTransfer, Sides
<1>6. QED
  BY <1>3, <1>4, <1>5

\* A piece that is put into the channel.
LEMMA PutTyped ==
  ASSUME ChannelTyped, NEW s \in Sides, NEW piece \in Pieces, piece.len <= BufferSize,
         m_count["client"] = 0, m_count["server"] = 0, Put(s, piece)
  PROVE  /\ m_count' \in [Sides -> 0 .. 1] /\ m_count'["client"] + m_count'["server"] <= 1
         /\ m_count'[s] = 0 /\ m_count'[Peer(s)] = 1
         /\ m_buffer_content_size' = piece.len /\ m_buffer_content_size' \in 0 .. BufferSize
         /\ m_buffer' \in Pieces /\ (piece.len > 0 => m_buffer' = piece)
         /\ UNCHANGED <<client_connecting, server_listening>>
<1>1. PICK p \in Sides : p = Peer(s) /\ s # p /\ Sides = {s, p}
  BY TwoSides
<1>2. m_count' = [m_count EXCEPT ![p] = m_count[p] + 1] /\ m_count[s] = 0 /\ m_count[p] = 0
  BY <1>1 DEF Put, Sides
<1>3. m_count' \in [Sides -> 0 .. 1] /\ m_count'[s] = 0 /\ m_count'[p] = 1
  BY <1>1, <1>2 DEF ChannelTyped
<1>4. m_count'["client"] + m_count'["server"] <= 1
  BY <1>1, <1>3 DEF Sides
<1>5. piece.len \in 0 .. BufferSize /\ m_buffer_content_size' = piece.len
  BY ShmCallAssumption DEF Pieces, Put
<1>6. m_buffer' \in Pieces /\ (piece.len > 0 => m_buffer' = piece)
  BY DEF Put, ChannelTyped
<1>7. UNCHANGED <<client_connecting, server_listening>>
  BY DEF Put
<1>8. QED
  BY <1>1, <1>3, <1>4, <1>5, <1>6, <1>7

\* A message that is taken from the channel.
LEMMA TakeTyped ==
  ASSUME ChannelTyped, NEW s \in Sides, Take(s)
  PROVE  /\ m_count' = [z \in Sides |-> 0] /\ m_count[s] = 1 /\ m_count[Peer(s)] = 0
         /\ m_count' \in [Sides -> 0 .. 1] /\ m_count'["client"] + m_count'["server"] <= 1
         /\ m_count'["client"] = 0 /\ m_count'["server"] = 0
         /\ m_buffer_content_size' = 0 /\ m_buffer' = m_buffer
         /\ last_receivelen' \in [Sides -> 0 .. BufferSize]
         /\ last_receivelen'[s] = m_buffer_content_size
         /\ UNCHANGED <<client_connecting, server_listening>>
<1>1. PICK p \in Sides : p = Peer(s) /\ s # p /\ Sides = {s, p}
  BY TwoSides
<1>2. m_count[s] \in 0 .. 1 /\ m_count[p] \in 0 .. 1 /\ m_count[s] > 0 /\ m_count[s] + m_count[p] <= 1
  BY <1>1 DEF ChannelTyped, Take, Sides
<1>3. m_count[s] = 1 /\ m_count[p] = 0
  BY <1>2
<1>4. m_count' = [m_count EXCEPT ![s] = 0]
  BY <1>3 DEF Take
<1>5. m_count' = [z \in Sides |-> 0]
  BY <1>1, <1>3, <1>4 DEF ChannelTyped
<1>6. m_count'["client"] = 0 /\ m_count'["server"] = 0 /\ m_count' \in [Sides -> 0 .. 1]
  BY <1>5 DEF Sides
<1>7. /\ m_buffer_content_size' = 0 /\ m_buffer' = m_buffer
      /\ UNCHANGED <<client_connecting, server_listening>>
      /\ last_receivelen' = [last_receivelen EXCEPT ![s] = m_buffer_content_size]
  BY DEF Take
<1>8. /\ last_receivelen' \in [Sides -> 0 .. BufferSize]
      /\ last_receivelen'[s] = m_buffer_content_size
  BY <1>7 DEF ChannelTyped
<1>9. QED
  BY <1>1, <1>3, <1>5, <1>6, <1>7, <1>8

\* The types of what a side sends.
LEMMA SideTyped ==
  ASSUME TypeOK, NEW s \in Sides
  PROVE  /\ msg[s] \in Messages /\ msg[s].len \in Nat /\ sent[s] \in Nat
         /\ received[s] \in Seq(Pieces) /\ Len(received[s]) \in Nat
         /\ \A from, len \in Nat : Piece(msg[s], from, len) \in Pieces
         /\ BufferSize \in Nat /\ BufferSize > 1
<1>1. msg[s] \in Messages /\ sent[s] \in Nat /\ received[s] \in Seq(Pieces)
  BY DEF TypeOK
<1>2. msg[s].len \in Nat
  BY <1>1 DEF Messages
<1>3. \A from, len \in Nat : Piece(msg[s], from, len) \in Pieces
  BY <1>1 DEF Piece, Pieces
<1>4. QED
  BY <1>1, <1>2, <1>3, ShmCallAssumption

\* A step that keeps the transfer going.
LEMMA KeepsGoing ==
  ASSUME IInv, NEW s \in Sides, NEW v \in Sides, NEW l \in InTransfer, pc[s] \in InTransfer,
         pc' = [pc EXCEPT ![s] = l], msg' = msg, ChannelTyped', Transferring(v)',
         UNCHANGED <<client_connecting, server_listening, terminating, system, master>>
  PROVE  IInv'
<1>1. OtherTyped' /\ Together' /\ OnlyDeathCostsACall'
  BY TransferLeaves
<1>2. Phase'
  BY DEF Phase, Sides
<1>3. QED
  BY <1>1, <1>2, TypePartsNext DEF IInv

LEMMA SendShortStep ==
  ASSUME IInv, NEW s \in Sides, Transferring(s), Offering(s), SendShort(s)
  PROVE  IInv'
<1>0. PICK p \in Sides : p = Peer(s) /\ s # p /\ Peer(p) = s
  BY TwoSides
<1>1. /\ Awaits(p) /\ m_count["client"] = 0 /\ m_count["server"] = 0 /\ m_buffer_content_size = 0
      /\ received[p] = <<>> /\ received[s] = <<>> /\ msg[s].call = calls /\ msg[s].len \in Lengths
      /\ pc[s] = "send" /\ pc \in [Sides -> ClientPC \cup ServerPC]
  BY <1>0 DEF Offering, Transferring, Quiet, IInv, TypeOK
<1>2. PICK n \in Nat : n = msg[s].len
  BY SideTyped DEF IInv
<1>3. /\ n < BufferSize - 1 /\ Put(s, Piece(msg[s], 0, n)) /\ pc' = [pc EXCEPT ![s] = "recv"]
      /\ UNCHANGED <<transfer, terminating, system, master>>
  BY <1>1, <1>2 DEF SendShort, MaySend, Goto
<1>4. /\ Piece(msg[s], 0, n) \in Pieces /\ Piece(msg[s], 0, n).len = n
      /\ Piece(msg[s], 0, n).of = msg[s] /\ Piece(msg[s], 0, n).from = 0
  BY SideTyped DEF IInv, Piece
<1>5. n <= BufferSize /\ n # BufferSize
  BY <1>3, ShmCallAssumption
<1>6. ChannelTyped
  BY TypeParts DEF IInv
<1>7. /\ m_count' \in [Sides -> 0 .. 1] /\ m_count'["client"] + m_count'["server"] <= 1
      /\ m_count'[s] = 0 /\ m_count'[p] = 1
      /\ m_buffer_content_size' = n /\ m_buffer_content_size' \in 0 .. BufferSize
      /\ m_buffer' \in Pieces /\ (n > 0 => m_buffer' = Piece(msg[s], 0, n))
      /\ UNCHANGED <<client_connecting, server_listening>>
  BY <1>0, <1>1, <1>3, <1>4, <1>5, <1>6, PutTyped
<1>8. msg' = msg /\ sent' = sent /\ received' = received /\ last_receivelen' = last_receivelen
  BY <1>3 DEF transfer
<1>9. ChannelTyped'
  BY <1>6, <1>7, <1>8 DEF ChannelTyped
<1>10. pc'[s] = "recv" /\ pc'[p] = pc[p]
  BY <1>0, <1>1, <1>3
<1>11. Follows(s, n)'
  <2>1. FullPieces(received[p], msg[s])' /\ Len(received'[p]) * BufferSize = 0
    BY <1>1, <1>8, ShmCallAssumption DEF FullPieces
  <2>2. n > 0 => m_buffer'.of = msg'[s] /\ m_buffer'.from = 0
    BY <1>4, <1>7, <1>8
  <2>3. 0 + n = msg'[s].len
    BY <1>2, <1>8
  <2>4. QED
    BY <1>0, <1>5, <1>10, <2>1, <2>2, <2>3 DEF Follows
<1>12. InFlight(s)'
  <2>1. Awaits(p)'
    BY <1>1, <1>10 DEF Awaits
  <2>2. Follows(s, m_buffer_content_size)'
    BY <1>7, <1>11
  <2>3. QED
    BY <1>0, <1>7, <2>1, <2>2 DEF InFlight
<1>13. Transferring(s)'
  BY <1>1, <1>3, <1>8, <1>12 DEF Transferring, master
<1>14. QED
  BY <1>1, <1>3, <1>7, <1>8, <1>9, <1>13, KeepsGoing DEF InTransfer

\* After a full buffer there is more to send; after a shorter piece there is not.
LEMMA MoreAfterFull ==
  ASSUME NEW s \in Sides, msg[s].len \in Nat, NEW k \in Nat, k * BufferSize <= msg[s].len
  PROVE  MoreToSend(s, k * BufferSize)
<1>1. (k * BufferSize) % BufferSize = 0 /\ k * BufferSize \in Nat
  BY ShmCallAssumption
<1>2. QED
  BY <1>1 DEF MoreToSend

LEMMA NoMoreAfterShort ==
  ASSUME NEW s \in Sides, msg[s].len \in Nat, NEW k \in Nat, NEW n \in Nat, 0 < n, n < BufferSize,
         k * BufferSize + n = msg[s].len
  PROVE  ~ MoreToSend(s, k * BufferSize + n)
<1>1. (k * BufferSize + n) % BufferSize # 0 /\ k * BufferSize + n \in Nat
  BY ShmCallAssumption
<1>2. QED
  BY <1>1 DEF MoreToSend

LEMMA SendFullStep ==
  ASSUME GoodLengths, IInv, NEW s \in Sides, Transferring(s), Offering(s), SendFull(s)
  PROVE  IInv'
<1>0. PICK p \in Sides : p = Peer(s) /\ s # p /\ Peer(p) = s
  BY TwoSides
<1>1. /\ Awaits(p) /\ m_count["client"] = 0 /\ m_count["server"] = 0 /\ m_buffer_content_size = 0
      /\ received[p] = <<>> /\ received[s] = <<>> /\ msg[s].call = calls /\ msg[s].len \in Lengths
      /\ pc[s] = "send" /\ pc \in [Sides -> ClientPC \cup ServerPC]
  BY <1>0 DEF Offering, Transferring, Quiet, IInv, TypeOK
<1>2. PICK n \in Nat : n = msg[s].len
  BY SideTyped DEF IInv
<1>3. BufferSize <= n
  <2>1. n >= BufferSize - 1 /\ n # BufferSize - 1
    BY <1>1, <1>2 DEF SendFull, GoodLengths
  <2>2. QED
    BY <2>1, ShmCallAssumption
<1>4. MoreToSend(s, BufferSize)
  <2>1. BufferSize = 1 * BufferSize
    BY ShmCallAssumption
  <2>2. MoreToSend(s, 1 * BufferSize)
    BY <1>2, <1>3, <2>1, MoreAfterFull
  <2>3. QED
    BY <2>1, <2>2
<1>5. /\ Put(s, Piece(msg[s], 0, BufferSize)) /\ pc' = [pc EXCEPT ![s] = "ack"]
      /\ sent' = [sent EXCEPT ![s] = BufferSize]
      /\ UNCHANGED <<msg, received, last_receivelen, terminating, system, master>>
  BY <1>4 DEF SendFull, Goto
<1>6. /\ Piece(msg[s], 0, BufferSize) \in Pieces /\ Piece(msg[s], 0, BufferSize).len = BufferSize
      /\ Piece(msg[s], 0, BufferSize).of = msg[s] /\ Piece(msg[s], 0, BufferSize).from = 0
  BY SideTyped, ShmCallAssumption DEF IInv, Piece
<1>7. ChannelTyped
  BY TypeParts DEF IInv
<1>8. BufferSize \in Nat /\ BufferSize <= BufferSize /\ BufferSize > 0
  BY ShmCallAssumption
<1>9. /\ m_count' \in [Sides -> 0 .. 1] /\ m_count'["client"] + m_count'["server"] <= 1
      /\ m_count'[s] = 0 /\ m_count'[p] = 1
      /\ m_buffer_content_size' = BufferSize /\ m_buffer_content_size' \in 0 .. BufferSize
      /\ m_buffer' \in Pieces /\ m_buffer' = Piece(msg[s], 0, BufferSize)
      /\ UNCHANGED <<client_connecting, server_listening>>
  BY <1>0, <1>1, <1>5, <1>6, <1>7, <1>8, PutTyped
<1>10. sent' \in [Sides -> Nat] /\ sent'[s] = BufferSize
  BY <1>5, <1>7, <1>8 DEF ChannelTyped
<1>11. ChannelTyped'
  BY <1>5, <1>7, <1>9, <1>10 DEF ChannelTyped
<1>12. pc'[s] = "ack" /\ pc'[p] = pc[p]
  BY <1>0, <1>1, <1>5
<1>13. Follows(s, BufferSize)'
  <2>1. FullPieces(received[p], msg[s])' /\ Len(received'[p]) * BufferSize = 0
    BY <1>1, <1>5, ShmCallAssumption DEF FullPieces
  <2>2. m_buffer'.of = msg'[s] /\ m_buffer'.from = 0
    BY <1>6, <1>9, <1>5
  <2>3. sent'[s] = 0 + BufferSize /\ sent'[s] <= msg'[s].len
    BY <1>2, <1>3, <1>5, <1>8, <1>10
  <2>4. QED
    BY <1>0, <1>12, <2>1, <2>2, <2>3 DEF Follows
<1>14. InFlight(s)'
  <2>1. Awaits(p)'
    BY <1>1, <1>12 DEF Awaits
  <2>2. Follows(s, m_buffer_content_size)'
    BY <1>9, <1>13
  <2>3. QED
    BY <1>0, <1>9, <2>1, <2>2 DEF InFlight
<1>15. Transferring(s)'
  BY <1>1, <1>5, <1>14 DEF Transferring, master
<1>16. QED
  BY <1>1, <1>5, <1>9, <1>11, <1>15, KeepsGoing DEF InTransfer

LEMMA SendNextStep ==
  ASSUME IInv, NEW s \in Sides, Transferring(s), Continuing(s), SendNext(s)
  PROVE  IInv'
<1>0. PICK p \in Sides : p = Peer(s) /\ s # p /\ Peer(p) = s
  BY TwoSides
<1>1. /\ pc[p] = "recv" /\ m_count["client"] = 0 /\ m_count["server"] = 0 /\ m_buffer_content_size = 0
      /\ received[s] = <<>> /\ msg[s].call = calls /\ msg[s].len \in Lengths
      /\ pc[s] = "next" /\ pc \in [Sides -> ClientPC \cup ServerPC]
      /\ FullPieces(received[p], msg[s])
      /\ sent[s] = Len(received[p]) * BufferSize /\ sent[s] <= msg[s].len
  BY <1>0 DEF Continuing, InStep, Transferring, Quiet, IInv, TypeOK
<1>2. PICK k \in Nat, a \in Nat, from \in Nat :
        k = Len(received[p]) /\ a = msg[s].len /\ from = sent[s]
  BY SideTyped DEF IInv
<1>3. from = k * BufferSize /\ from <= a /\ BufferSize \in Nat /\ BufferSize > 1
  BY <1>1, <1>2, ShmCallAssumption
<1>4. PICK n : n = IF a - from < BufferSize THEN a - from ELSE BufferSize
  OBVIOUS
<1>5. n \in Nat /\ n <= BufferSize /\ from + n <= a /\ (n < BufferSize => from + n = a)
  BY <1>3, <1>4
<1>6. /\ Put(s, Piece(msg[s], from, n))
      /\ pc' = [pc EXCEPT ![s] = IF n > 0 /\ MoreToSend(s, from + n) THEN "ack" ELSE "recv"]
      /\ sent' = [sent EXCEPT ![s] = from + n]
      /\ UNCHANGED <<msg, received, last_receivelen, terminating, system, master>>
  BY <1>2, <1>4 DEF SendNext, Goto
<1>7. /\ Piece(msg[s], from, n) \in Pieces /\ Piece(msg[s], from, n).len = n
      /\ Piece(msg[s], from, n).of = msg[s] /\ Piece(msg[s], from, n).from = from
  BY <1>5, SideTyped DEF IInv, Piece
<1>8. ChannelTyped
  BY TypeParts DEF IInv
<1>9. /\ m_count' \in [Sides -> 0 .. 1] /\ m_count'["client"] + m_count'["server"] <= 1
      /\ m_count'[s] = 0 /\ m_count'[p] = 1
      /\ m_buffer_content_size' = n /\ m_buffer_content_size' \in 0 .. BufferSize
      /\ m_buffer' \in Pieces /\ (n > 0 => m_buffer' = Piece(msg[s], from, n))
      /\ UNCHANGED <<client_connecting, server_listening>>
  BY <1>0, <1>1, <1>5, <1>6, <1>7, <1>8, PutTyped
<1>10. sent' \in [Sides -> Nat] /\ sent'[s] = from + n
  BY <1>5, <1>6, <1>8 DEF ChannelTyped
<1>11. ChannelTyped'
  BY <1>6, <1>8, <1>9, <1>10 DEF ChannelTyped
<1>12. PICK l \in {"ack", "recv"} :
         pc' = [pc EXCEPT ![s] = l] /\ (n = BufferSize => l = "ack") /\ (n # BufferSize => l = "recv")
  <2>1. CASE n = BufferSize
    <3>1. from + n = (k + 1) * BufferSize
      BY <1>3, <2>1
    <3>2. (k + 1) * BufferSize <= msg[s].len /\ k + 1 \in Nat /\ msg[s].len \in Nat
      BY <1>2, <1>5, <3>1
    <3>3. MoreToSend(s, (k + 1) * BufferSize)
      BY <3>2, MoreAfterFull
    <3>4. n > 0 /\ MoreToSend(s, from + n)
      BY <1>3, <2>1, <3>1, <3>3
    <3>5. QED
      BY <1>6, <2>1, <3>4
  <2>2. CASE n # BufferSize
    <3>1. n < BufferSize /\ k * BufferSize + n = msg[s].len /\ msg[s].len \in Nat
      BY <1>2, <1>3, <1>5, <2>2
    <3>2. 0 < n => ~ MoreToSend(s, k * BufferSize + n)
      BY <1>5, <3>1, NoMoreAfterShort
    <3>3. ~ (n > 0 /\ MoreToSend(s, from + n))
      BY <1>3, <1>5, <3>2
    <3>4. QED
      BY <1>6, <2>2, <3>3
  <2>3. QED
    BY <2>1, <2>2
<1>13. pc'[s] = l /\ pc'[p] = pc[p]
  BY <1>0, <1>1, <1>12
<1>14. Follows(s, n)'
  <2>1. FullPieces(received[p], msg[s])' /\ Len(received'[p]) * BufferSize = from
    BY <1>1, <1>2, <1>6 DEF FullPieces
  <2>2. n > 0 => m_buffer'.of = msg'[s] /\ m_buffer'.from = from
    BY <1>6, <1>7, <1>9
  <2>3. CASE n = BufferSize
    <3>1. sent'[s] = from + n /\ sent'[s] <= msg'[s].len
      BY <1>2, <1>5, <1>6, <1>10
    <3>2. QED
      BY <1>0, <1>12, <1>13, <2>1, <2>2, <2>3, <3>1 DEF Follows
  <2>4. CASE n # BufferSize
    <3>1. from + n = msg'[s].len
      BY <1>2, <1>3, <1>5, <1>6, <2>4
    <3>2. QED
      BY <1>0, <1>12, <1>13, <2>1, <2>2, <2>4, <3>1 DEF Follows
  <2>5. QED
    BY <2>3, <2>4
<1>15. InFlight(s)'
  <2>1. Awaits(p)'
    BY <1>1, <1>13 DEF Awaits
  <2>2. Follows(s, m_buffer_content_size)'
    BY <1>9, <1>14
  <2>3. QED
    BY <1>0, <1>9, <2>1, <2>2 DEF InFlight
<1>16. Transferring(s)'
  BY <1>1, <1>6, <1>15 DEF Transferring, master
<1>17. QED
  BY <1>1, <1>6, <1>9, <1>11, <1>12, <1>16, KeepsGoing DEF InTransfer

\* A step of the master while nothing can come from the worker any more.
LEMMA StaysLost ==
  ASSUME IInv, NEW l \in InTransfer, pc["client"] \in InTransfer,
         pc' = [pc EXCEPT !["client"] = l], msg' = msg, ChannelTyped', Lost',
         UNCHANGED <<client_connecting, server_listening, terminating, system, master>>
  PROVE  IInv'
<1>1. OtherTyped' /\ Together' /\ OnlyDeathCostsACall'
  BY TransferLeaves, TwoSides DEF Sides
<1>2. QED
  BY <1>1, TypePartsNext DEF IInv, Phase

LEMMA ReceiveAckStep ==
  ASSUME IInv, NEW s \in Sides, ReceiveAck(s)
  PROVE  IInv'
<1>0. PICK p \in Sides : p = Peer(s) /\ s # p /\ Peer(p) = s /\ Sides = {s, p}
  BY TwoSides
<1>1. ChannelTyped /\ pc[s] = "ack" /\ pc \in [Sides -> ClientPC \cup ServerPC]
  BY TypeParts DEF IInv, ReceiveAck, TypeOK
<1>2. /\ m_count[s] = 1 /\ m_count[p] = 0
      /\ m_count' \in [Sides -> 0 .. 1] /\ m_count'["client"] + m_count'["server"] <= 1
      /\ m_count'["client"] = 0 /\ m_count'["server"] = 0
      /\ m_buffer_content_size' = 0 /\ m_buffer' = m_buffer
      /\ last_receivelen' \in [Sides -> 0 .. BufferSize]
      /\ UNCHANGED <<client_connecting, server_listening>>
  BY <1>0, <1>1, TakeTyped DEF ReceiveAck
<1>3. /\ pc' = [pc EXCEPT ![s] = "next"]
      /\ UNCHANGED <<msg, sent, received, terminating, system, master>>
  BY DEF ReceiveAck, Goto
<1>4. Transferring(s) /\ Acknowledged(s)
  <2>1. ~ Quiet
    BY <1>2 DEF Quiet, Sides
  <2>2. ~ InFlight(s) /\ ~ Copying(s) /\ ~ Acknowledging(s)
    BY <1>2, <2>1 DEF InFlight, Copying, Acknowledging
  <2>3. ~ (s = "client" /\ Lost)
    BY <1>2 DEF Lost
  <2>4. QED
    BY <1>1, <2>2, <2>3, AtAck DEF IInv
<1>5. /\ pc[p] \in {"recv", "dead"} /\ InStep(s)
      /\ received[s] = <<>> /\ msg[s].call = calls /\ msg[s].len \in Lengths
  BY <1>0, <1>4 DEF Acknowledged, Transferring
<1>6. ChannelTyped'
  <2>1. m_buffer_content_size' \in 0 .. BufferSize
    BY <1>2, ShmCallAssumption
  <2>2. QED
    BY <1>1, <1>2, <1>3, <2>1 DEF ChannelTyped
<1>7. pc'[s] = "next" /\ pc'[p] = pc[p]
  BY <1>0, <1>1, <1>3
<1>8. CASE pc[p] = "recv"
  <2>1. InStep(s)'
    BY <1>0, <1>3, <1>5 DEF InStep, FullPieces
  <2>2. Continuing(s)'
    BY <1>0, <1>2, <1>7, <1>8, <2>1 DEF Continuing, Quiet
  <2>3. Transferring(s)'
    BY <1>3, <1>5, <2>2 DEF Transferring, master
  <2>4. QED
    BY <1>1, <1>2, <1>3, <1>6, <2>3, KeepsGoing DEF InTransfer
<1>9. CASE pc[p] = "dead"
  <2>1. s = "client" /\ p = "server"
    BY <1>0, <1>9 DEF Sides, IInv, TypeOK, ClientPC
  <2>2. Lost'
    BY <1>2, <1>3, <1>5, <1>7, <1>9, <2>1 DEF Lost, InStep, Outside
  <2>3. QED
    BY <1>1, <1>2, <1>3, <1>6, <2>1, <2>2, StaysLost DEF InTransfer
<1>10. QED
  BY <1>5, <1>8, <1>9

LEMMA ReceiveStep ==
  ASSUME IInv, NEW s \in Sides, Receive(s)
  PROVE  IInv'
<1>0. PICK p \in Sides : p = Peer(s) /\ s # p /\ Peer(p) = s /\ Sides = {s, p}
  BY TwoSides
<1>1. ChannelTyped /\ pc[s] = "recv" /\ pc \in [Sides -> ClientPC \cup ServerPC] /\ m_count[s] > 0
  BY TypeParts DEF IInv, Receive, Take, TypeOK
<1>2. /\ m_count' \in [Sides -> 0 .. 1] /\ m_count'["client"] + m_count'["server"] <= 1
      /\ m_count'["client"] = 0 /\ m_count'["server"] = 0
      /\ m_buffer_content_size' = 0 /\ m_buffer' = m_buffer
      /\ last_receivelen' \in [Sides -> 0 .. BufferSize]
      /\ last_receivelen'[s] = m_buffer_content_size
      /\ UNCHANGED <<client_connecting, server_listening>>
  BY <1>0, <1>1, TakeTyped DEF Receive
<1>3. /\ pc' = [pc EXCEPT ![s] = "copy"]
      /\ UNCHANGED <<msg, sent, received, terminating, system, master>>
  BY DEF Receive, Goto
<1>4. Transferring(p) /\ InFlight(p)
  BY <1>0, <1>1, AtReceive DEF IInv
<1>5. PICK n : n = m_buffer_content_size
  OBVIOUS
<1>6. /\ Follows(p, n)
      /\ received[p] = <<>> /\ msg[p].call = calls /\ msg[p].len \in Lengths
  BY <1>4, <1>5 DEF InFlight, Transferring
<1>7. ChannelTyped'
  <2>1. m_buffer_content_size' \in 0 .. BufferSize
    BY <1>2, ShmCallAssumption
  <2>2. QED
    BY <1>1, <1>2, <1>3, <2>1 DEF ChannelTyped
<1>8. pc'[s] = "copy" /\ pc'[p] = pc[p]
  BY <1>0, <1>1, <1>3
<1>9. Follows(p, n)'
  BY <1>0, <1>2, <1>3, <1>6, <1>8 DEF Follows, FullPieces
<1>10. Copying(p)'
  <2>1. Follows(p, last_receivelen[s])'
    BY <1>2, <1>5, <1>9
  <2>2. QED
    BY <1>0, <1>2, <1>8, <2>1 DEF Copying, Quiet
<1>11. Transferring(p)'
  BY <1>3, <1>6, <1>10 DEF Transferring, master
<1>12. QED
  BY <1>1, <1>2, <1>3, <1>7, <1>11, KeepsGoing DEF InTransfer

LEMMA PieceFields ==
  ASSUME NEW m, NEW from, NEW len, NEW x, x = Piece(m, from, len)
  PROVE  x.of = m /\ x.from = from /\ x.len = len
BY DEF Piece

\* What has been received, with one piece more.
LEMMA OneMoreFull ==
  ASSUME NEW q \in Seq(Pieces), NEW m, FullPieces(q, m),
         NEW x \in Pieces, x = Piece(m, Len(q) * BufferSize, BufferSize)
  PROVE  FullPieces(Append(q, x), m)
<1>1. PICK k \in Nat : k = Len(q)
  OBVIOUS
<1>2. Len(Append(q, x)) = k + 1
  BY <1>1
<1>3. ASSUME NEW i \in 1 .. k + 1
      PROVE  Append(q, x)[i] = Piece(m, (i - 1) * BufferSize, BufferSize)
  <2>1. CASE i <= k
    <3>1. Append(q, x)[i] = q[i] /\ i \in 1 .. Len(q)
      BY <1>1, <2>1
    <3>2. QED
      BY <3>1 DEF FullPieces
  <2>2. CASE i = k + 1
    <3>1. Append(q, x)[i] = x /\ i - 1 = Len(q)
      BY <1>1, <2>2
    <3>2. QED
      BY <3>1
  <2>3. i <= k \/ i = k + 1
    BY <1>1
  <2>4. QED
    BY <2>1, <2>2, <2>3
<1>4. QED
  BY <1>2, <1>3 DEF FullPieces

LEMMA FullIsWhole ==
  ASSUME NEW q \in Seq(Pieces), NEW m, FullPieces(q, m), m.len = Len(q) * BufferSize
  PROVE  IsWhole(q, m)
<1>1. PICK k \in Nat : k = Len(q)
  OBVIOUS
<1>2. \A i \in 1 .. k : /\ q[i].of = m /\ q[i].from = (i - 1) * BufferSize
                        /\ q[i].len = BufferSize
  <2> TAKE i \in 1 .. k
  <2>1. q[i] = Piece(m, (i - 1) * BufferSize, BufferSize)
    BY <1>1 DEF FullPieces
  <2>2. QED
    BY <2>1, PieceFields
<1>3. \A i \in 1 .. k - 1 : q[i].len = BufferSize
  BY <1>2
<1>4. m.len = IF k = 0 THEN 0 ELSE q[k].from + q[k].len
  <2>1. CASE k = 0
    BY <1>1, <2>1, ShmCallAssumption
  <2>2. CASE k # 0
    <3>1. q[k].from = (k - 1) * BufferSize /\ q[k].len = BufferSize
      BY <1>2, <2>2
    <3>2. (k - 1) * BufferSize + BufferSize = k * BufferSize
      BY ShmCallAssumption
    <3>3. QED
      BY <1>1, <2>2, <3>1, <3>2
  <2>3. QED
    BY <2>1, <2>2
<1>5. QED
  BY <1>1, <1>2, <1>3, <1>4 DEF IsWhole

LEMMA LastMakesWhole ==
  ASSUME NEW q \in Seq(Pieces), NEW m, FullPieces(q, m), NEW n \in Nat,
         NEW x \in Pieces, x = Piece(m, Len(q) * BufferSize, n), m.len = Len(q) * BufferSize + n
  PROVE  IsWhole(Append(q, x), m)
<1>1. PICK k \in Nat : k = Len(q)
  OBVIOUS
<1>2. PICK r : r = Append(q, x)
  OBVIOUS
<1>3. Len(r) = k + 1 /\ r[k + 1] = x /\ \A i \in 1 .. k : r[i] = q[i]
  BY <1>1, <1>2
<1>4. \A i \in 1 .. k : /\ r[i].of = m /\ r[i].from = (i - 1) * BufferSize
                        /\ r[i].len = BufferSize
  <2> TAKE i \in 1 .. k
  <2>1. r[i] = Piece(m, (i - 1) * BufferSize, BufferSize)
    BY <1>1, <1>3 DEF FullPieces
  <2>2. QED
    BY <2>1, PieceFields
<1>5. r[k + 1].of = m /\ r[k + 1].from = k * BufferSize /\ r[k + 1].len = n
  BY <1>1, <1>3 DEF Piece
<1>6. \A i \in 1 .. k + 1 : r[i].of = m /\ r[i].from = (i - 1) * BufferSize
  <2> TAKE i \in 1 .. k + 1
  <2>1. CASE i = k + 1
    <3>1. i - 1 = k
      BY <2>1
    <3>2. QED
      BY <1>5, <2>1, <3>1
  <2>2. CASE i # k + 1
    BY <1>4, <2>2
  <2>3. QED
    BY <2>1, <2>2
<1>7. \A i \in 1 .. (k + 1) - 1 : r[i].len = BufferSize
  BY <1>4
<1>8. m.len = IF k + 1 = 0 THEN 0 ELSE r[k + 1].from + r[k + 1].len
  BY <1>1, <1>5
<1>9. QED
  BY <1>2, <1>3, <1>6, <1>7, <1>8 DEF IsWhole

LEMMA CopyStep ==
  ASSUME IInv, NEW s \in Sides, Copy(s)
  PROVE  IInv'
<1>0. PICK p \in Sides : p = Peer(s) /\ s # p /\ Peer(p) = s /\ Sides = {s, p}
  BY TwoSides
<1>1. ChannelTyped /\ pc[s] = "copy" /\ pc \in [Sides -> ClientPC \cup ServerPC]
  BY TypeParts DEF IInv, Copy, TypeOK
<1>2. Transferring(p) /\ Copying(p)
  BY <1>0, <1>1, AtCopy DEF IInv
<1>3. PICK n \in 0 .. BufferSize, q \in Seq(Pieces), k \in Nat, m \in Messages :
        n = last_receivelen[s] /\ q = received[s] /\ k = Len(q) /\ m = msg[p]
  <2>1. last_receivelen[s] \in 0 .. BufferSize
    BY <1>1 DEF ChannelTyped
  <2>2. QED
    BY <2>1, SideTyped DEF IInv
<1>4. n \in Nat /\ BufferSize \in Nat /\ BufferSize > 1 /\ n <= BufferSize
  BY <1>3, ShmCallAssumption
<1>5. /\ m_count["client"] = 0 /\ m_count["server"] = 0 /\ m_buffer_content_size = 0
      /\ FullPieces(q, m) /\ (n > 0 => m_buffer.of = m /\ m_buffer.from = k * BufferSize)
      /\ n = BufferSize => pc[p] \in {"ack", "dead"} /\ sent[p] = k * BufferSize + n /\ sent[p] <= m.len
      /\ n # BufferSize => pc[p] \in {"recv", "dead"} /\ k * BufferSize + n = m.len
      /\ received[p] = <<>> /\ msg[p].call = calls /\ msg[p].len \in Lengths
  BY <1>0, <1>2, <1>3 DEF Copying, Transferring, Quiet, Follows
<1>6. PICK x \in Pieces : x = Piece(m, k * BufferSize, n)
  BY <1>0, <1>3, <1>4, SideTyped DEF IInv
<1>7. PICK r : r = IF n = 0 THEN q ELSE Append(q, x)
  OBVIOUS
<1>8. /\ received' = [received EXCEPT ![s] = r]
      /\ pc' = [pc EXCEPT ![s] = IF n < BufferSize THEN "done" ELSE "send_ack"]
      /\ UNCHANGED <<channel, msg, sent, last_receivelen, terminating, system, master>>
  <2>1. received' = [received EXCEPT ![s] = IF n = 0 THEN q
                       ELSE Append(q, Piece(m_buffer.of, m_buffer.from, n))]
    BY <1>3 DEF Copy
  <2>2. n = 0 \/ Piece(m_buffer.of, m_buffer.from, n) = x
    BY <1>4, <1>5, <1>6
  <2>3. received' = [received EXCEPT ![s] = r]
    BY <1>7, <2>1, <2>2
  <2>4. QED
    BY <1>3, <2>3 DEF Copy, Goto
<1>9. r \in Seq(Pieces) /\ received' \in [Sides -> Seq(Pieces)] /\ received'[s] = r /\ received'[p] = <<>>
  <2>1. r \in Seq(Pieces)
    BY <1>3, <1>6, <1>7
  <2>2. received \in [Sides -> Seq(Pieces)]
    BY <1>1 DEF ChannelTyped
  <2>3. QED
    BY <1>0, <1>5, <1>8, <2>1, <2>2
<1>10. ChannelTyped'
  BY <1>1, <1>8, <1>9 DEF ChannelTyped, channel
<1>11. UNCHANGED <<client_connecting, server_listening>> /\ Quiet'
  BY <1>5, <1>8 DEF channel, Quiet
<1>12. CASE n = BufferSize
  <2>1. pc' = [pc EXCEPT ![s] = "send_ack"] /\ pc'[s] = "send_ack" /\ pc'[p] = pc[p]
    <3>1. ~ (n < BufferSize)
      BY <1>4, <1>12
    <3>2. pc' = [pc EXCEPT ![s] = "send_ack"]
      BY <1>8, <3>1
    <3>3. QED
      BY <1>0, <1>1, <3>2
  <2>2. r = Append(q, x) /\ Len(r) = k + 1
    BY <1>3, <1>4, <1>7, <1>12
  <2>3. FullPieces(r, m)
    BY <1>3, <1>5, <1>6, <1>12, <2>2, OneMoreFull
  <2>4. sent[p] = Len(r) * BufferSize
    BY <1>4, <1>5, <1>12, <2>2
  <2>5. CASE pc[p] = "ack"
    <3>1. InStep(p)'
      BY <1>0, <1>3, <1>5, <1>8, <1>9, <1>12, <2>3, <2>4 DEF InStep
    <3>2. Acknowledging(p)'
      BY <1>0, <1>11, <2>1, <2>5, <3>1 DEF Acknowledging
    <3>3. Transferring(p)'
      BY <1>5, <1>8, <1>9, <3>2 DEF Transferring, master
    <3>4. QED
      BY <1>1, <1>8, <1>10, <1>11, <2>1, <3>3, KeepsGoing DEF InTransfer
  <2>6. CASE pc[p] = "dead"
    <3>1. s = "client" /\ p = "server"
      BY <1>0, <2>6 DEF Sides, IInv, TypeOK, ClientPC
    <3>2. Lost'
      BY <1>11, <2>1, <2>6, <3>1 DEF Lost, Quiet, Outside
    <3>3. QED
      BY <1>1, <1>8, <1>10, <1>11, <2>1, <3>1, <3>2, StaysLost DEF InTransfer
  <2>7. QED
    BY <1>5, <1>12, <2>5, <2>6
<1>13. CASE n # BufferSize
  <2>1. pc' = [pc EXCEPT ![s] = "done"] /\ pc'[s] = "done" /\ pc'[p] = pc[p]
    <3>1. n < BufferSize
      BY <1>4, <1>13
    <3>2. pc' = [pc EXCEPT ![s] = "done"]
      BY <1>8, <3>1
    <3>3. QED
      BY <1>0, <1>1, <3>2
  <2>2. IsWhole(r, m)
    <3>1. CASE n = 0
      <4>1. m.len = k * BufferSize
        BY <1>4, <1>5, <1>13, <3>1
      <4>2. QED
        BY <1>3, <1>5, <1>7, <3>1, <4>1, FullIsWhole
    <3>2. CASE n # 0
      BY <1>3, <1>4, <1>5, <1>6, <1>7, <1>13, <3>2, LastMakesWhole
    <3>3. QED
      BY <3>1, <3>2
  <2>3. Delivered(p)'
    BY <1>0, <1>3, <1>5, <1>8, <1>9, <1>11, <1>13, <2>1, <2>2 DEF Delivered
  <2>4. Transferring(p)'
    BY <1>5, <1>8, <1>9, <2>3 DEF Transferring, master
  <2>5. QED
    BY <1>1, <1>8, <1>10, <1>11, <2>1, <2>4, KeepsGoing DEF InTransfer
<1>14. QED
  BY <1>12, <1>13

LEMMA SendAckStep ==
  ASSUME IInv, NEW s \in Sides, Transferring(Peer(s)), Acknowledging(Peer(s)), SendAck(s)
  PROVE  IInv'
<1>0. PICK p \in Sides : p = Peer(s) /\ s # p /\ Peer(p) = s /\ Sides = {s, p}
  BY TwoSides
<1>1. /\ ChannelTyped /\ pc[s] = "send_ack" /\ pc[p] = "ack" /\ InStep(p)
      /\ pc \in [Sides -> ClientPC \cup ServerPC]
      /\ m_count["client"] = 0 /\ m_count["server"] = 0
      /\ received[p] = <<>> /\ msg[p].call = calls /\ msg[p].len \in Lengths
  BY <1>0, TypeParts DEF IInv, Acknowledging, Transferring, Quiet, TypeOK
<1>2. /\ Put(s, NoPiece) /\ pc' = [pc EXCEPT ![s] = "recv"]
      /\ UNCHANGED <<msg, sent, received, last_receivelen, terminating, system, master>>
  BY DEF SendAck, Goto, transfer
<1>3. NoPiece \in Pieces /\ NoPiece.len = 0
  BY ShmCallAssumption DEF NoPiece, NoMessage, Pieces, Messages
<1>4. /\ m_count' \in [Sides -> 0 .. 1] /\ m_count'["client"] + m_count'["server"] <= 1
      /\ m_count'[s] = 0 /\ m_count'[p] = 1
      /\ m_buffer_content_size' = 0 /\ m_buffer_content_size' \in 0 .. BufferSize
      /\ m_buffer' \in Pieces
      /\ UNCHANGED <<client_connecting, server_listening>>
  BY <1>0, <1>1, <1>2, <1>3, ShmCallAssumption, PutTyped
<1>5. ChannelTyped'
  BY <1>1, <1>2, <1>4 DEF ChannelTyped
<1>6. pc'[s] = "recv" /\ pc'[p] = "ack"
  BY <1>0, <1>1, <1>2
<1>7. InStep(p)'
  BY <1>0, <1>1, <1>2 DEF InStep, FullPieces
<1>8. Acknowledged(p)'
  BY <1>0, <1>4, <1>6, <1>7 DEF Acknowledged
<1>9. Transferring(p)'
  BY <1>1, <1>2, <1>8 DEF Transferring, master
<1>10. QED
  BY <1>1, <1>2, <1>4, <1>5, <1>9, KeepsGoing DEF InTransfer

-----------------------------------------------------------------------------
(* The master goes on after the death of the worker, until it notices.     *)

LEMMA LostPut ==
  ASSUME IInv, Lost, pc["client"] \in {"send", "next", "send_ack"},
         NEW piece \in Pieces, piece.len <= BufferSize, Put("client", piece),
         NEW l \in {"ack", "recv"}, pc' = [pc EXCEPT !["client"] = l], sent' \in [Sides -> Nat],
         UNCHANGED <<msg, received, last_receivelen, terminating, system, master>>
  PROVE  IInv'
<1>1. /\ ChannelTyped /\ m_count["client"] = 0 /\ m_count["server"] = 0 /\ pc["server"] = "dead"
      /\ pc \in [Sides -> ClientPC \cup ServerPC]
  BY TypeParts DEF IInv, Lost, TypeOK
<1>2. /\ m_count' \in [Sides -> 0 .. 1] /\ m_count'["client"] + m_count'["server"] <= 1
      /\ m_count'["client"] = 0
      /\ m_buffer_content_size' \in 0 .. BufferSize
      /\ m_buffer' \in Pieces
      /\ UNCHANGED <<client_connecting, server_listening>>
  BY <1>1, PutTyped, BothSides
<1>3. ChannelTyped'
  BY <1>1, <1>2 DEF ChannelTyped
<1>4. pc'["client"] = l /\ pc'["server"] = "dead"
  BY <1>1, BothSides
<1>5. Lost'
  BY <1>2, <1>4 DEF Lost, Outside
<1>6. QED
  BY <1>2, <1>3, <1>5, StaysLost DEF InTransfer

LEMMA LostSendShort ==
  ASSUME IInv, Lost, SendShort("client")
  PROVE  IInv'
<1>1. /\ ChannelTyped /\ pc["client"] = "send" /\ pc["server"] = "dead" /\ m_count["client"] = 0
      /\ pc \in [Sides -> ClientPC \cup ServerPC] /\ pc' = [pc EXCEPT !["client"] = "recv"]
      /\ UNCHANGED <<msg, sent, received, last_receivelen, terminating, system, master>>
  BY TypeParts DEF IInv, Lost, TypeOK, SendShort, Goto, transfer
<1>2. CASE MaySend
  <2>1. PICK n \in Nat : n = msg["client"].len
    BY SideTyped, BothSides DEF IInv
  <2>2. n <= BufferSize
    BY <2>1, ShmCallAssumption DEF SendShort
  <2>3. Piece(msg["client"], 0, n) \in Pieces /\ Piece(msg["client"], 0, n).len = n
    BY SideTyped, BothSides DEF IInv, Piece
  <2>4. Put("client", Piece(msg["client"], 0, n))
    BY <1>2, <2>1 DEF SendShort
  <2>5. sent' \in [Sides -> Nat]
    BY <1>1 DEF ChannelTyped
  <2>6. QED
    BY <1>1, <2>2, <2>3, <2>4, <2>5, LostPut
<1>3. CASE ~ MaySend
  <2>1. UNCHANGED channel
    BY <1>3 DEF SendShort
  <2>2. ChannelTyped'
    BY <1>1, <2>1 DEF ChannelTyped, channel
  <2>3. pc'["client"] = "recv" /\ pc'["server"] = "dead"
    BY <1>1, BothSides
  <2>4. Lost'
    BY <1>1, <2>1, <2>3 DEF Lost, Outside, channel
  <2>5. QED
    BY <1>1, <2>1, <2>2, <2>4, StaysLost DEF InTransfer, channel
<1>4. QED
  BY <1>2, <1>3

LEMMA LostSendFull ==
  ASSUME IInv, Lost, SendFull("client")
  PROVE  IInv'
<1>1. /\ ChannelTyped /\ pc["client"] = "send"
      /\ UNCHANGED <<msg, received, last_receivelen, terminating, system, master>>
      /\ Put("client", Piece(msg["client"], 0, BufferSize))
      /\ sent' = [sent EXCEPT !["client"] = BufferSize]
  BY TypeParts DEF IInv, SendFull
<1>2. PICK l \in {"ack", "recv"} : pc' = [pc EXCEPT !["client"] = l]
  BY DEF SendFull, Goto
<1>3. Piece(msg["client"], 0, BufferSize) \in Pieces /\ Piece(msg["client"], 0, BufferSize).len = BufferSize
  BY SideTyped, BothSides, ShmCallAssumption DEF IInv, Piece
<1>4. BufferSize <= BufferSize /\ BufferSize \in Nat
  BY ShmCallAssumption
<1>5. sent' \in [Sides -> Nat]
  BY <1>1, <1>4 DEF ChannelTyped
<1>6. QED
  BY <1>1, <1>2, <1>3, <1>4, <1>5, LostPut

LEMMA LostSendNext ==
  ASSUME IInv, Lost, SendNext("client")
  PROVE  IInv'
<1>1. PICK a \in Nat, from \in Nat : a = msg["client"].len /\ from = sent["client"]
  BY SideTyped, BothSides DEF IInv
<1>2. ChannelTyped /\ pc["client"] = "next" /\ from <= a
  BY <1>1, TypeParts DEF IInv, SendNext, Lost
<1>3. PICK n : n = IF a - from < BufferSize THEN a - from ELSE BufferSize
  OBVIOUS
<1>4. n \in Nat /\ n <= BufferSize /\ from + n \in Nat
  BY <1>1, <1>2, <1>3, ShmCallAssumption
<1>5. /\ Put("client", Piece(msg["client"], from, n))
      /\ pc' = [pc EXCEPT !["client"] = IF n > 0 /\ MoreToSend("client", from + n) THEN "ack" ELSE "recv"]
      /\ sent' = [sent EXCEPT !["client"] = from + n]
      /\ UNCHANGED <<msg, received, last_receivelen, terminating, system, master>>
  BY <1>1, <1>3 DEF SendNext, Goto
<1>6. PICK l \in {"ack", "recv"} : pc' = [pc EXCEPT !["client"] = l]
  BY <1>5
<1>7. Piece(msg["client"], from, n) \in Pieces /\ Piece(msg["client"], from, n).len = n
  BY <1>4, SideTyped, BothSides DEF IInv, Piece
<1>8. sent' \in [Sides -> Nat]
  BY <1>2, <1>4, <1>5 DEF ChannelTyped
<1>9. QED
  BY <1>2, <1>4, <1>5, <1>6, <1>7, <1>8, LostPut

LEMMA LostSendAck ==
  ASSUME IInv, Lost, SendAck("client")
  PROVE  IInv'
<1>1. /\ ChannelTyped /\ pc["client"] = "send_ack"
      /\ Put("client", NoPiece) /\ pc' = [pc EXCEPT !["client"] = "recv"]
      /\ UNCHANGED <<msg, sent, received, last_receivelen, terminating, system, master>>
  BY TypeParts DEF IInv, SendAck, Goto, transfer
<1>2. NoPiece \in Pieces /\ NoPiece.len = 0
  BY ShmCallAssumption DEF NoPiece, NoMessage, Pieces, Messages
<1>3. NoPiece.len <= BufferSize
  BY <1>2, ShmCallAssumption
<1>4. sent' \in [Sides -> Nat]
  BY <1>1 DEF ChannelTyped
<1>5. QED
  BY <1>1, <1>2, <1>3, <1>4, LostPut

\* Only the death of the worker makes a send or a receive fail.
LEMMA GoneIsLost ==
  ASSUME IInv, NEW s \in Sides, pc[s] \in {"ack", "recv"}, SenderIsGone(s)
  PROVE  s = "client" /\ Lost
<1>1. s = "client" /\ process = "gone" /\ m_count["client"] = 0
  BY BothSides DEF SenderIsGone, is_process_running, Sides
<1>2. pc["server"] = "dead"
  BY <1>1 DEF IInv, Together
<1>3. Peer("client") = "server" /\ Peer("server") = "client"
  BY DEF Peer
<1>4. ~ Transferring("client")
  BY <1>1, <1>2, <1>3 DEF Transferring, Offering, InFlight, Copying, Acknowledging, Acknowledged,
                          Continuing, Delivered, Awaits
<1>5. ~ Transferring("server")
  BY <1>1, <1>2, <1>3 DEF Transferring, Offering, InFlight, Copying, Acknowledging, Acknowledged,
                          Continuing, Delivered, Awaits
<1>6. ~ Resting
  BY <1>1 DEF Resting, Outside
<1>7. QED
  BY <1>1, <1>4, <1>5, <1>6 DEF IInv, Phase

LEMMA SendFailsStep ==
  ASSUME IInv, NEW s \in Sides, SendFails(s)
  PROVE  IInv'
<1>1. s = "client" /\ Lost
  <2>1. CASE pc[s] = "ack" /\ SenderIsGone(s)
    BY <2>1, GoneIsLost
  <2>2. CASE pc[s] = "send" /\ ~ MaySend
    BY <2>2, AtSend DEF IInv, Offering, Quiet, MaySend
  <2>3. CASE pc[s] = "next" /\ ~ MaySend
    BY <2>3, AtNext DEF IInv, Continuing, Quiet, MaySend
  <2>4. QED
    BY <2>1, <2>2, <2>3 DEF SendFails
<1>2. /\ ChannelTyped /\ pc["client"] \in {"ack", "send", "next"} /\ pc["server"] = "dead"
      /\ m_count["client"] = 0
      /\ pc \in [Sides -> ClientPC \cup ServerPC] /\ pc' = [pc EXCEPT !["client"] = "recv"]
      /\ UNCHANGED <<channel, msg, sent, received, last_receivelen, terminating, system, master>>
  BY <1>1, TypeParts DEF IInv, Lost, TypeOK, SendFails, Goto, transfer
<1>3. ChannelTyped'
  BY <1>2 DEF ChannelTyped, channel
<1>4. pc'["client"] = "recv" /\ pc'["server"] = "dead"
  BY <1>2, BothSides
<1>5. Lost'
  BY <1>2, <1>4 DEF Lost, Outside, channel
<1>6. QED
  BY <1>2, <1>3, <1>5, StaysLost DEF InTransfer, channel

LEMMA ReceiveFailsStep ==
  ASSUME IInv, NEW s \in Sides, ReceiveFails(s)
  PROVE  IInv'
<1>1. s = "client" /\ Lost
  <2>1. CASE pc[s] = "recv" /\ SenderIsGone(s)
    BY <2>1, GoneIsLost
  <2>2. CASE pc[s] = "send_ack" /\ ~ MaySend
    BY <2>2, AtSendAck DEF IInv, Acknowledging, Quiet, MaySend
  <2>3. QED
    BY <2>1, <2>2 DEF ReceiveFails
<1>2. /\ TypeOK /\ pc["client"] \in {"recv", "send_ack"} /\ pc["server"] = "dead"
      /\ m_count["client"] = 0
      /\ pc' = [pc EXCEPT !["client"] = "failed"]
      /\ received' = [received EXCEPT !["client"] = <<>>]
      /\ UNCHANGED <<channel, msg, sent, last_receivelen, terminating, system, master>>
  BY <1>1 DEF IInv, Lost, ReceiveFails, Goto
<1>3. /\ pc'["client"] = "failed" /\ pc'["server"] = "dead"
      /\ pc' \in [Sides -> ClientPC \cup ServerPC]
      /\ pc'["client"] \in ClientPC /\ pc'["server"] \in ServerPC
  BY <1>2, BothSides DEF TypeOK, ClientPC, ServerPC
<1>4. received' \in [Sides -> Seq(Pieces)]
  <2>1. received \in [Sides -> Seq(Pieces)] /\ <<>> \in Seq(Pieces)
    BY <1>2 DEF TypeOK
  <2>2. QED
    BY <1>2, <2>1
<1>5. TypeOK'
  BY <1>2, <1>3, <1>4 DEF TypeOK, channel, system, master
<1>6. Lost'
  BY <1>2, <1>3 DEF Lost, Outside, channel
<1>7. process # "running" /\ UNCHANGED <<process, connection, worker, result, terminating, client_connecting>>
  BY <1>2 DEF IInv, Together, system, master, channel
<1>8. Together'
  BY <1>2, <1>3, <1>7 DEF IInv, Together, Outside
<1>9. OnlyDeathCostsACall'
  BY <1>7 DEF OnlyDeathCostsACall
<1>10. QED
  BY <1>5, <1>6, <1>8, <1>9 DEF IInv, Phase

\* Every step of large_send() and large_receive().
LEMMA TransferStep ==
  ASSUME GoodLengths, IInv, NEW s \in Sides, Transfer(s)
  PROVE  IInv'
<1>1. Phase
  BY DEF IInv
<1>2. CASE SendShort(s)
  <2>1. (Transferring(s) /\ Offering(s)) \/ (s = "client" /\ Lost)
    BY <1>1, <1>2, AtSend DEF SendShort
  <2>2. QED
    BY <1>2, <2>1, SendShortStep, LostSendShort
<1>3. CASE SendFull(s)
  <2>1. (Transferring(s) /\ Offering(s)) \/ (s = "client" /\ Lost)
    BY <1>1, <1>3, AtSend DEF SendFull
  <2>2. QED
    BY <1>3, <2>1, SendFullStep, LostSendFull
<1>4. CASE SendNext(s)
  <2>1. (Transferring(s) /\ Continuing(s)) \/ (s = "client" /\ Lost)
    BY <1>1, <1>4, AtNext DEF SendNext
  <2>2. QED
    BY <1>4, <2>1, SendNextStep, LostSendNext
<1>5. CASE SendAck(s)
  <2>1. (Transferring(Peer(s)) /\ Acknowledging(Peer(s))) \/ (s = "client" /\ Lost)
    BY <1>1, <1>5, AtSendAck DEF SendAck
  <2>2. QED
    BY <1>5, <2>1, SendAckStep, LostSendAck
<1>6. QED
  BY <1>2, <1>3, <1>4, <1>5, ReceiveAckStep, SendFailsStep, ReceiveStep, CopyStep,
     ReceiveFailsStep DEF Transfer

-----------------------------------------------------------------------------
(* The other steps of the master and of the worker.                        *)

LEMMA AtOutside ==
  ASSUME Phase, pc["client"] \in Outside
  PROVE  Resting \/ Lost
<1>1. ~ Transferring("client") /\ ~ Transferring("server")
  BY PlacesInTransfer, BothSides DEF Outside
<1>2. QED
  BY <1>1 DEF Phase

LEMMA AtFailed ==
  ASSUME Phase, pc["client"] = "failed"
  PROVE  Lost
<1>1. ~ Transferring("client") /\ ~ Transferring("server")
  BY PlacesInTransfer, BothSides
<1>2. QED
  BY <1>1 DEF Phase, Resting, Outside

\* Two steps that a side takes outside of a transfer.
LEMMA ClientMoves ==
  ASSUME TypeOK, NEW l \in ClientPC, pc' = [pc EXCEPT !["client"] = l]
  PROVE  /\ pc'["client"] = l /\ pc'["server"] = pc["server"]
         /\ pc' \in [Sides -> ClientPC \cup ServerPC]
         /\ pc'["client"] \in ClientPC /\ pc'["server"] \in ServerPC
BY BothSides DEF TypeOK

LEMMA ServerMoves ==
  ASSUME TypeOK, NEW l \in ServerPC, pc' = [pc EXCEPT !["server"] = l]
  PROVE  /\ pc'["server"] = l /\ pc'["client"] = pc["client"]
         /\ pc' \in [Sides -> ClientPC \cup ServerPC]
         /\ pc'["client"] \in ClientPC /\ pc'["server"] \in ServerPC
BY BothSides DEF TypeOK

LEMMA ListenStep ==
  ASSUME IInv, Listen
  PROVE  IInv'
<1>1. PICK l \in {"recv", "listening"} :
        pc' = [pc EXCEPT !["server"] = l]
  BY DEF Listen, Goto
<1>2. /\ TypeOK /\ pc["server"] = "start" /\ server_listening' = TRUE
      /\ UNCHANGED <<client_connecting, m_count, m_buffer_content_size, m_buffer,
                     transfer, terminating, system, master>>
  BY DEF IInv, Listen
<1>3. /\ pc'["server"] = l /\ pc'["client"] = pc["client"]
      /\ pc' \in [Sides -> ClientPC \cup ServerPC]
      /\ pc'["client"] \in ClientPC /\ pc'["server"] \in ServerPC
  BY <1>1, <1>2, ServerMoves DEF ServerPC
<1>4. TypeOK'
  BY <1>2, <1>3 DEF TypeOK, transfer, system, master
<1>5. Resting
  <2>1. ~ Transferring("client") /\ ~ Transferring("server") /\ ~ Lost
    BY <1>2, PlacesInTransfer, BothSides DEF Lost
  <2>2. QED
    BY <2>1 DEF IInv, Phase
<1>6. Resting'
  BY <1>2, <1>3, <1>5 DEF Resting, Quiet, transfer, master
<1>7. Together' /\ OnlyDeathCostsACall'
  BY <1>2, <1>3 DEF IInv, Together, OnlyDeathCostsACall, transfer, system, master
<1>8. QED
  BY <1>4, <1>6, <1>7 DEF IInv, Phase

LEMMA AcceptStep ==
  ASSUME IInv, Accept
  PROVE  IInv'
<1>1. /\ TypeOK /\ pc["server"] = "listening" /\ pc' = [pc EXCEPT !["server"] = "recv"]
      /\ UNCHANGED <<channel, transfer, terminating, system, master>>
  BY DEF IInv, Accept, Goto
<1>2. /\ pc'["server"] = "recv" /\ pc'["client"] = pc["client"]
      /\ pc' \in [Sides -> ClientPC \cup ServerPC]
      /\ pc'["client"] \in ClientPC /\ pc'["server"] \in ServerPC
  BY <1>1, ServerMoves DEF ServerPC
<1>3. TypeOK'
  BY <1>1, <1>2 DEF TypeOK, channel, transfer, system, master
<1>4. Together' /\ OnlyDeathCostsACall'
  BY <1>1, <1>2 DEF IInv, Together, OnlyDeathCostsACall, channel, transfer, system, master
<1>5. Transferring("client") \/ Resting
  <2>1. ~ Transferring("server") /\ ~ Lost
    BY <1>1, PlacesInTransfer, BothSides DEF Lost
  <2>2. QED
    BY <2>1 DEF IInv, Phase
<1>6. CASE Resting
  <2>1. Resting'
    BY <1>1, <1>2, <1>6 DEF Resting, Quiet, channel, transfer, master
  <2>2. QED
    BY <1>3, <1>4, <2>1 DEF IInv, Phase
<1>7. CASE Transferring("client")
  <2>1. Offering("client") \/ InFlight("client")
    BY <1>1, <1>7, BothSides DEF Transferring, Copying, Acknowledging, Acknowledged, Continuing, Delivered
  <2>2. Awaits("server")'
    BY <1>2 DEF Awaits
  <2>3. Offering("client") => Offering("client")'
    BY <1>1, <1>2, <2>2, BothSides DEF Offering, Quiet, channel, transfer
  <2>4. PICK n : n = m_buffer_content_size /\ n = m_buffer_content_size'
    BY <1>1 DEF channel
  <2>5. InFlight("client") => InFlight("client")'
    <3>1. Follows("client", n) => Follows("client", n)'
      BY <1>1, <1>2, BothSides DEF Follows, FullPieces, channel, transfer
    <3>2. QED
      BY <1>1, <1>2, <2>2, <2>4, <3>1, BothSides DEF InFlight, channel, transfer
  <2>6. Transferring("client")'
    BY <1>1, <1>7, <2>1, <2>3, <2>5 DEF Transferring, transfer, master
  <2>7. QED
    BY <1>3, <1>4, <2>6 DEF IInv, Phase
<1>8. QED
  BY <1>5, <1>6, <1>7

LEMMA ListenTimeoutStep ==
  ASSUME IInv, ListenTimeout
  PROVE  IInv'
<1>1. PICK l \in {"start", "stopped"} :
        pc' = [pc EXCEPT !["server"] = l] /\ (l = "stopped" => terminating)
  BY DEF ListenTimeout, Goto
<1>2. /\ TypeOK /\ pc["server"] = "listening" /\ ~ client_connecting /\ server_listening' = FALSE
      /\ UNCHANGED <<client_connecting, m_count, m_buffer_content_size, m_buffer,
                     transfer, terminating, system, master>>
  BY DEF IInv, ListenTimeout
<1>3. /\ pc'["server"] = l /\ pc'["client"] = pc["client"]
      /\ pc' \in [Sides -> ClientPC \cup ServerPC]
      /\ pc'["client"] \in ClientPC /\ pc'["server"] \in ServerPC
  BY <1>1, <1>2, ServerMoves DEF ServerPC
<1>4. TypeOK'
  BY <1>2, <1>3 DEF TypeOK, transfer, system, master
<1>5. ~ connection /\ pc["client"] \in Outside
  BY <1>2 DEF IInv, Together
<1>6. Resting
  BY <1>2, <1>5, AtOutside DEF IInv, Lost
<1>7. Resting'
  BY <1>2, <1>3, <1>5, <1>6 DEF Resting, Quiet, transfer, master
<1>8. Together' /\ OnlyDeathCostsACall'
  BY <1>1, <1>2, <1>3 DEF IInv, Together, OnlyDeathCostsACall, transfer, system, master
<1>9. QED
  BY <1>4, <1>7, <1>8 DEF IInv, Phase

LEMMA ReceiveTimeoutStep ==
  ASSUME IInv, ReceiveTimeout, pc' # pc
  PROVE  IInv'
<1>1. /\ TypeOK /\ pc["server"] = "recv" /\ terminating /\ pc' = [pc EXCEPT !["server"] = "stopped"]
      /\ UNCHANGED <<channel, transfer, terminating, system, master>>
  <2>1. pc \in [Sides -> ClientPC \cup ServerPC] /\ pc["server"] = "recv"
    BY DEF IInv, TypeOK, ReceiveTimeout
  <2>2. [pc EXCEPT !["server"] = "recv"] = pc
    BY <2>1
  <2>3. QED
    BY <2>1, <2>2 DEF IInv, ReceiveTimeout, Goto
<1>2. /\ pc'["server"] = "stopped" /\ pc'["client"] = pc["client"]
      /\ pc' \in [Sides -> ClientPC \cup ServerPC]
      /\ pc'["client"] \in ClientPC /\ pc'["server"] \in ServerPC
  BY <1>1, ServerMoves DEF ServerPC
<1>3. TypeOK'
  BY <1>1, <1>2 DEF TypeOK, channel, transfer, system, master
<1>4. Together' /\ OnlyDeathCostsACall'
  BY <1>1, <1>2 DEF IInv, Together, OnlyDeathCostsACall, channel, transfer, system, master
<1>5. Resting
  BY <1>1, AtOutside DEF IInv, Together, Outside, Lost
<1>6. Resting'
  BY <1>1, <1>2, <1>5 DEF Resting, Quiet, channel, transfer, master
<1>7. QED
  BY <1>3, <1>4, <1>6 DEF IInv, Phase

\* The master stays outside of a transfer.
LEMMA StaysOutside ==
  ASSUME TypeOK, Resting \/ Lost, NEW l \in Outside, pc' = [pc EXCEPT !["client"] = l],
         connection' = TRUE => pc["server"] # "start",
         connection' = TRUE \/ l \in {"start", "connecting"} =>
            (connection = TRUE /\ pc["client"] \in Outside) \/ pc["client"] \in {"start", "connecting"},
         connection' \in BOOLEAN,
         received'["server"] = received["server"],
         UNCHANGED <<m_count, m_buffer_content_size>>
  PROVE  Phase'
<1>1. l \in ClientPC /\ connection \in BOOLEAN
  BY DEF Outside, ClientPC, TypeOK
<1>2. pc'["server"] = pc["server"] /\ pc'["client"] = l
  BY <1>1, ClientMoves
<1>3. CASE Resting
  <2>1. Resting'
    BY <1>1, <1>2, <1>3 DEF Resting, Quiet
  <2>2. QED
    BY <2>1 DEF Phase
<1>4. CASE Lost
  <2>1. Lost'
    BY <1>1, <1>2, <1>4 DEF Lost, Outside
  <2>2. QED
    BY <2>1 DEF Phase
<1>5. QED
  BY <1>3, <1>4

LEMMA ConnectStep ==
  ASSUME IInv, Connect
  PROVE  IInv'
<1>1. PICK l \in {"idle", "connecting"} :
        pc' = [pc EXCEPT !["client"] = l] /\ (l = "connecting" => ~ connection')
  BY DEF Connect, Goto
<1>2. /\ TypeOK /\ pc["client"] = "start" /\ client_connecting' = TRUE
      /\ connection' = server_listening
      /\ UNCHANGED <<server_listening, m_count, m_buffer_content_size, m_buffer,
                     transfer, terminating, system, result, calls>>
  BY DEF IInv, Connect
<1>3. /\ pc'["client"] = l /\ pc'["server"] = pc["server"]
      /\ pc' \in [Sides -> ClientPC \cup ServerPC]
      /\ pc'["client"] \in ClientPC /\ pc'["server"] \in ServerPC
  BY <1>1, <1>2, ClientMoves DEF ClientPC
<1>4. TypeOK'
  BY <1>2, <1>3 DEF TypeOK, transfer, system
<1>5. Together' /\ OnlyDeathCostsACall'
  BY <1>1, <1>2, <1>3 DEF IInv, Together, OnlyDeathCostsACall, transfer, system, Outside
<1>6. Resting \/ Lost
  BY <1>2, AtOutside DEF IInv, Outside
<1>7. connection' = TRUE => pc["server"] # "start"
  BY <1>2 DEF IInv, Together
<1>8. Phase'
  BY <1>1, <1>2, <1>4, <1>6, <1>7, StaysOutside DEF Outside, transfer, TypeOK
<1>9. QED
  BY <1>4, <1>5, <1>8 DEF IInv

LEMMA ConnectedStep ==
  ASSUME IInv, Connected
  PROVE  IInv'
<1>2. /\ TypeOK /\ pc["client"] = "connecting" /\ server_listening
      /\ connection' = TRUE /\ pc' = [pc EXCEPT !["client"] = "idle"]
      /\ UNCHANGED <<channel, transfer, terminating, system, result, calls>>
  BY DEF IInv, Connected, Goto
<1>3. /\ pc'["client"] = "idle" /\ pc'["server"] = pc["server"]
      /\ pc' \in [Sides -> ClientPC \cup ServerPC]
      /\ pc'["client"] \in ClientPC /\ pc'["server"] \in ServerPC
  BY <1>2, ClientMoves DEF ClientPC
<1>4. TypeOK'
  BY <1>2, <1>3 DEF TypeOK, channel, transfer, system
<1>5. Together' /\ OnlyDeathCostsACall'
  BY <1>2, <1>3 DEF IInv, Together, OnlyDeathCostsACall, channel, transfer, system, Outside
<1>6. Resting \/ Lost
  BY <1>2, AtOutside DEF IInv, Outside
<1>7. connection' = TRUE => pc["server"] # "start"
  BY <1>2 DEF IInv, Together
<1>8. Phase'
  BY <1>2, <1>4, <1>6, <1>7, StaysOutside DEF Outside, channel, transfer, TypeOK
<1>9. QED
  BY <1>4, <1>5, <1>8 DEF IInv

LEMMA ConnectTimeoutStep ==
  ASSUME IInv, ConnectTimeout
  PROVE  IInv'
<1>2. /\ TypeOK /\ pc["client"] = "connecting" /\ client_connecting' = FALSE
      /\ pc' = [pc EXCEPT !["client"] = "idle"]
      /\ UNCHANGED <<server_listening, m_count, m_buffer_content_size, m_buffer,
                     transfer, terminating, system, master>>
  BY DEF IInv, ConnectTimeout, Goto
<1>3. /\ pc'["client"] = "idle" /\ pc'["server"] = pc["server"]
      /\ pc' \in [Sides -> ClientPC \cup ServerPC]
      /\ pc'["client"] \in ClientPC /\ pc'["server"] \in ServerPC
  BY <1>2, ClientMoves DEF ClientPC
<1>4. TypeOK'
  BY <1>2, <1>3 DEF TypeOK, transfer, system, master
<1>5. Together' /\ OnlyDeathCostsACall'
  BY <1>2, <1>3 DEF IInv, Together, OnlyDeathCostsACall, transfer, system, master, Outside
<1>6. Resting \/ Lost
  BY <1>2, AtOutside DEF IInv, Outside
<1>7. connection' = FALSE
  BY <1>2 DEF IInv, Together, TypeOK, master
<1>8. Phase'
  BY <1>2, <1>4, <1>6, <1>7, StaysOutside DEF Outside, transfer, TypeOK
<1>9. QED
  BY <1>4, <1>5, <1>8 DEF IInv

LEMMA ResetConnectionStep ==
  ASSUME IInv, ResetConnection
  PROVE  IInv'
<1>2. /\ TypeOK /\ pc["client"] = "failed" /\ connection' = FALSE
      /\ pc' = [pc EXCEPT !["client"] = "ipc"]
      /\ UNCHANGED <<channel, transfer, terminating, system, result, calls>>
  BY DEF IInv, ResetConnection, Goto
<1>3. /\ pc'["client"] = "ipc" /\ pc'["server"] = pc["server"]
      /\ pc' \in [Sides -> ClientPC \cup ServerPC]
      /\ pc'["client"] \in ClientPC /\ pc'["server"] \in ServerPC
  BY <1>2, ClientMoves DEF ClientPC
<1>4. TypeOK'
  BY <1>2, <1>3 DEF TypeOK, channel, transfer, system
<1>5. Together' /\ OnlyDeathCostsACall'
  BY <1>2, <1>3 DEF IInv, Together, OnlyDeathCostsACall, channel, transfer, system, Outside
<1>6. Lost
  BY <1>2, AtFailed DEF IInv
<1>8. Phase'
  BY <1>2, <1>4, <1>6, StaysOutside DEF Outside, channel, transfer, TypeOK
<1>9. QED
  BY <1>4, <1>5, <1>8 DEF IInv

LEMMA IpcCallStep ==
  ASSUME IInv, IpcCall
  PROVE  IInv'
<1>2. /\ TypeOK /\ pc["client"] = "ipc" /\ pc' = [pc EXCEPT !["client"] = "release"]
      /\ UNCHANGED <<channel, transfer, terminating, system, connection, calls>>
  BY DEF IInv, IpcCall, Goto
<1>3. /\ pc'["client"] = "release" /\ pc'["server"] = pc["server"]
      /\ pc' \in [Sides -> ClientPC \cup ServerPC]
      /\ pc'["client"] \in ClientPC /\ pc'["server"] \in ServerPC
  BY <1>2, ClientMoves DEF ClientPC
<1>4. /\ result' \in {"reply", "comm_failure", "unknown_lambda"}
      /\ result' \in {"comm_failure", "unknown_lambda"} => process # "running"
  BY DEF IpcCall, IInv, Together
<1>5. TypeOK'
  BY <1>2, <1>3, <1>4 DEF TypeOK, channel, transfer, system
<1>6. Together' /\ OnlyDeathCostsACall'
  BY <1>2, <1>3, <1>4 DEF IInv, Together, OnlyDeathCostsACall, channel, transfer, system, Outside
<1>7. (Resting \/ Lost) /\ connection' = FALSE
  BY <1>2, AtOutside DEF IInv, Outside, Together, TypeOK
<1>8. Phase'
  BY <1>2, <1>5, <1>7, StaysOutside DEF Outside, channel, transfer, TypeOK
<1>9. QED
  BY <1>5, <1>6, <1>8 DEF IInv

LEMMA ReleaseWorkerStep ==
  ASSUME IInv, ReleaseWorker
  PROVE  IInv'
<1>1. /\ TypeOK /\ pc["client"] = "release" /\ pc' = [pc EXCEPT !["client"] = "idle"]
      /\ UNCHANGED <<channel, transfer, terminating, handler, sigchld, spawns, result, calls>>
  BY DEF IInv, ReleaseWorker, Goto
<1>2. /\ connection' = connection \/ connection' = FALSE
      /\ \/ worker' = worker /\ process' = process
         \/ process # "running" /\ worker' = "replacement" /\ process' = "gone"
  BY DEF ReleaseWorker
<1>3. /\ pc'["client"] = "idle" /\ pc'["server"] = pc["server"]
      /\ pc' \in [Sides -> ClientPC \cup ServerPC]
      /\ pc'["client"] \in ClientPC /\ pc'["server"] \in ServerPC
  BY <1>1, ClientMoves DEF ClientPC
<1>4. TypeOK'
  BY <1>1, <1>2, <1>3 DEF TypeOK, channel, transfer
<1>5. Together' /\ OnlyDeathCostsACall'
  BY <1>1, <1>2, <1>3 DEF IInv, Together, OnlyDeathCostsACall, channel, transfer, Outside
<1>6. Resting \/ Lost
  BY <1>1, AtOutside DEF IInv, Outside
<1>7. /\ connection' = TRUE => connection = TRUE
      /\ connection' = TRUE => pc["server"] # "start" \/ Lost
  BY <1>2, <1>6 DEF Resting
<1>8. connection' = TRUE => pc["server"] # "start"
  BY <1>7 DEF Lost
<1>9. Phase'
  BY <1>1, <1>4, <1>6, <1>7, <1>8, StaysOutside DEF Outside, channel, transfer, TypeOK
<1>10. QED
  BY <1>4, <1>5, <1>9 DEF IInv

LEMMA CloseStep ==
  ASSUME IInv, Close
  PROVE  IInv'
<1>1. /\ TypeOK /\ pc["client"] = "idle" /\ terminating' = TRUE
      /\ pc' = [pc EXCEPT !["client"] = "closed"]
      /\ UNCHANGED <<channel, transfer, system, master>>
  BY DEF IInv, Close, Goto
<1>3. /\ pc'["client"] = "closed" /\ pc'["server"] = pc["server"]
      /\ pc' \in [Sides -> ClientPC \cup ServerPC]
      /\ pc'["client"] \in ClientPC /\ pc'["server"] \in ServerPC
  BY <1>1, ClientMoves DEF ClientPC
<1>4. TypeOK'
  BY <1>1, <1>3 DEF TypeOK, channel, transfer, system, master
<1>5. Together' /\ OnlyDeathCostsACall'
  BY <1>1, <1>3 DEF IInv, Together, OnlyDeathCostsACall, channel, transfer, system, master, Outside
<1>6. Resting \/ Lost
  BY <1>1, AtOutside DEF IInv, Outside
<1>8. connection' = TRUE => pc["server"] # "start"
  BY <1>1, <1>6 DEF Resting, Lost, master
<1>9. Phase'
  BY <1>1, <1>4, <1>6, <1>8, StaysOutside DEF Outside, channel, transfer, master, TypeOK
<1>10. QED
  BY <1>4, <1>5, <1>9 DEF IInv

LEMMA ReturnStep ==
  ASSUME IInv, Return
  PROVE  IInv'
<1>1. /\ TypeOK /\ pc["client"] = "done" /\ result' = "reply"
      /\ pc' = [pc EXCEPT !["client"] = "release"]
      /\ UNCHANGED <<channel, transfer, terminating, system, connection, calls>>
  BY DEF IInv, Return, Goto
<1>2. /\ pc'["client"] = "release" /\ pc'["server"] = pc["server"]
      /\ pc' \in [Sides -> ClientPC \cup ServerPC]
      /\ pc'["client"] \in ClientPC /\ pc'["server"] \in ServerPC
  BY <1>1, ClientMoves DEF ClientPC
<1>3. TypeOK'
  BY <1>1, <1>2 DEF TypeOK, channel, transfer, system
<1>4. Together' /\ OnlyDeathCostsACall'
  BY <1>1, <1>2 DEF IInv, Together, OnlyDeathCostsACall, channel, transfer, system, Outside
<1>5. pc["server"] \in {"recv", "dead"} /\ Quiet /\ received["server"] = <<>>
  BY <1>1, AtDone, BothSides DEF IInv, Delivered, Transferring
<1>6. CASE pc["server"] = "recv"
  <2>1. Resting'
    BY <1>1, <1>2, <1>5, <1>6 DEF Resting, Outside, Quiet, channel, transfer
  <2>2. QED
    BY <1>3, <1>4, <2>1 DEF IInv, Phase
<1>7. CASE pc["server"] = "dead"
  <2>1. Lost'
    BY <1>1, <1>2, <1>5, <1>7 DEF Lost, Outside, Quiet, channel
  <2>2. QED
    BY <1>3, <1>4, <2>1 DEF IInv, Phase
<1>8. QED
  BY <1>5, <1>6, <1>7

LEMMA MessageFields ==
  ASSUME NEW c \in 0 .. MaxCalls, NEW k \in {"request", "reply"}, NEW n \in Nat
  PROVE  \E m \in Messages : m = [call |-> c, kind |-> k, len |-> n] /\ m.call = c /\ m.len = n
<1>1. PICK m : m = [call |-> c, kind |-> k, len |-> n]
  OBVIOUS
<1>2. m \in Messages
  BY <1>1 DEF Messages
<1>3. m.call = c /\ m.len = n
  BY <1>1
<1>4. QED
  BY <1>1, <1>2, <1>3

LEMMA BulkEvalStep ==
  ASSUME IInv, BulkEval
  PROVE  IInv'
<1>1. PICK len \in Lengths :
        msg' = [msg EXCEPT !["client"] = [call |-> calls + 1, kind |-> "request", len |-> len]]
  BY DEF BulkEval
<1>2. /\ TypeOK /\ pc["client"] = "idle" /\ calls < MaxCalls /\ calls' = calls + 1
      /\ sent' = [sent EXCEPT !["client"] = 0]
      /\ received' = [received EXCEPT !["client"] = <<>>]
      /\ pc' = [pc EXCEPT !["client"] = IF connection THEN "send" ELSE "ipc"]
      /\ UNCHANGED <<channel, last_receivelen, terminating, system, connection, result>>
  BY DEF IInv, BulkEval, Goto
<1>3. PICK m \in Messages : /\ m = [call |-> calls + 1, kind |-> "request", len |-> len]
                            /\ m.call = calls + 1 /\ m.len = len
  <2>1. calls + 1 \in 0 .. MaxCalls /\ len \in Nat
    BY <1>2, ShmCallAssumption DEF TypeOK
  <2>2. QED
    BY <2>1, MessageFields
<1>4. msg' \in [Sides -> Messages] /\ msg'["client"] = m
  BY <1>1, <1>2, <1>3, BothSides DEF TypeOK
<1>5. calls' \in 0 .. MaxCalls
  BY <1>2, ShmCallAssumption DEF TypeOK
<1>6. sent' \in [Sides -> Nat] /\ sent'["client"] = 0
  BY <1>2, BothSides DEF TypeOK
<1>7. /\ received' \in [Sides -> Seq(Pieces)] /\ received'["client"] = <<>>
      /\ received'["server"] = received["server"]
  <2>1. received \in [Sides -> Seq(Pieces)] /\ <<>> \in Seq(Pieces)
    BY <1>2 DEF TypeOK
  <2>2. QED
    BY <1>2, <2>1, BothSides
<1>8. PICK l \in {"send", "ipc"} :
        pc' = [pc EXCEPT !["client"] = l] /\ (connection <=> l = "send")
  BY <1>2
<1>9. /\ pc'["client"] = l /\ pc'["server"] = pc["server"]
      /\ pc' \in [Sides -> ClientPC \cup ServerPC]
      /\ pc'["client"] \in ClientPC /\ pc'["server"] \in ServerPC
  BY <1>2, <1>8, ClientMoves DEF ClientPC
<1>10. TypeOK'
  BY <1>2, <1>4, <1>5, <1>6, <1>7, <1>9 DEF TypeOK, channel, system
<1>11. Together' /\ OnlyDeathCostsACall'
  BY <1>2, <1>8, <1>9 DEF IInv, Together, OnlyDeathCostsACall, channel, system, Outside
<1>12. Resting \/ Lost
  BY <1>2, AtOutside DEF IInv, Outside
<1>13. CASE l = "ipc"
  <2>1. connection' = FALSE
    BY <1>2, <1>8, <1>13 DEF TypeOK
  <2>2. Phase'
    BY <1>2, <1>7, <1>8, <1>10, <1>12, <1>13, <2>1, StaysOutside DEF Outside, channel, TypeOK
  <2>3. QED
    BY <1>10, <1>11, <2>2 DEF IInv
<1>14. CASE l = "send" /\ Lost
  <2>1. Lost'
    BY <1>2, <1>8, <1>9, <1>14 DEF Lost, Outside, channel
  <2>2. QED
    BY <1>10, <1>11, <2>1 DEF IInv, Phase
<1>15. CASE l = "send" /\ Resting
  <2>1. Awaits("server")
    <3>1. pc["server"] # "stopped"
      BY <1>2 DEF IInv, Together
    <3>2. pc["server"] # "start"
      BY <1>8, <1>15 DEF Resting
    <3>3. QED
      BY <1>15, <3>1, <3>2 DEF Resting, Awaits
  <2>2. Awaits("server")'
    BY <1>9, <2>1 DEF Awaits
  <2>3. Offering("client")'
    BY <1>2, <1>6, <1>7, <1>9, <1>15, <2>2, BothSides DEF Offering, Resting, Quiet, channel
  <2>4. msg'["client"].call = calls' /\ msg'["client"].len \in Lengths
    BY <1>2, <1>3, <1>4
  <2>5. Transferring("client")'
    BY <1>7, <2>3, <2>4 DEF Transferring
  <2>6. QED
    BY <1>10, <1>11, <2>5 DEF IInv, Phase
<1>16. QED
  BY <1>12, <1>13, <1>14, <1>15

\* A message that is not empty has a first piece.
LEMMA FirstPiece ==
  ASSUME NEW q \in Seq(Pieces), NEW m, IsWhole(q, m), m.len # 0
  PROVE  q # <<>> /\ q[1].of = m
<1>1. Len(q) \in Nat /\ Len(q) # 0
  BY DEF IsWhole
<1>2. 1 \in 1 .. Len(q)
  BY <1>1
<1>3. QED
  BY <1>1, <1>2 DEF IsWhole

LEMMA EvaluateStep ==
  ASSUME GoodLengths, IInv, Evaluate
  PROVE  IInv'
<1>1. /\ TypeOK /\ pc["server"] = "done"
      /\ sent' = [sent EXCEPT !["server"] = 0]
      /\ received' = [received EXCEPT !["server"] = <<>>]
      /\ pc' = [pc EXCEPT !["server"] = "send"]
      /\ UNCHANGED <<channel, last_receivelen, terminating, system, master>>
  BY DEF IInv, Evaluate, Goto
<1>2. Transferring("client") /\ Delivered("client")
  BY <1>1, AtDone, BothSides DEF IInv
<1>3. /\ pc["client"] = "recv" /\ Quiet /\ IsWhole(received["server"], msg["client"])
      /\ received["client"] = <<>> /\ msg["client"].call = calls /\ msg["client"].len \in Lengths
  <2>1. pc["client"] # "dead"
    BY <1>1 DEF TypeOK, ClientPC
  <2>2. QED
    BY <1>2, <2>1, BothSides DEF Delivered, Transferring
<1>4. received["server"] # <<>> /\ received["server"][1].of = msg["client"]
  BY <1>1, <1>3, FirstPiece, SideTyped, BothSides DEF GoodLengths
<1>5. PICK len \in Lengths :
        msg' = [msg EXCEPT !["server"] = [call |-> calls, kind |-> "reply", len |-> len]]
  <2>1. received["server"][1].of.call = calls
    BY <1>3, <1>4
  <2>2. QED
    BY <1>4, <2>1 DEF Evaluate
<1>6. PICK m \in Messages : /\ m = [call |-> calls, kind |-> "reply", len |-> len]
                            /\ m.call = calls /\ m.len = len
  <2>1. calls \in 0 .. MaxCalls /\ len \in Nat
    BY <1>1, ShmCallAssumption DEF TypeOK
  <2>2. QED
    BY <2>1, MessageFields
<1>7. msg' \in [Sides -> Messages] /\ msg'["server"] = m
  BY <1>1, <1>5, <1>6, BothSides DEF TypeOK
<1>8. sent' \in [Sides -> Nat] /\ sent'["server"] = 0
  BY <1>1, BothSides DEF TypeOK
<1>9. /\ received' \in [Sides -> Seq(Pieces)] /\ received'["server"] = <<>>
      /\ received'["client"] = <<>>
  <2>1. received \in [Sides -> Seq(Pieces)] /\ <<>> \in Seq(Pieces)
    BY <1>1 DEF TypeOK
  <2>2. QED
    BY <1>1, <1>3, <2>1, BothSides
<1>10. /\ pc'["server"] = "send" /\ pc'["client"] = "recv"
       /\ pc' \in [Sides -> ClientPC \cup ServerPC]
       /\ pc'["client"] \in ClientPC /\ pc'["server"] \in ServerPC
  BY <1>1, <1>3, ServerMoves DEF ServerPC
<1>11. TypeOK'
  BY <1>1, <1>7, <1>8, <1>9, <1>10 DEF TypeOK, channel, system, master
<1>12. Together' /\ OnlyDeathCostsACall'
  BY <1>1, <1>3, <1>10 DEF IInv, Together, OnlyDeathCostsACall, channel, system, master, Outside
<1>13. Offering("server")'
  BY <1>1, <1>3, <1>8, <1>9, <1>10, BothSides DEF Offering, Awaits, Quiet, channel
<1>14. Transferring("server")'
  BY <1>1, <1>6, <1>7, <1>9, <1>13 DEF Transferring, master
<1>15. QED
  BY <1>11, <1>12, <1>14 DEF IInv, Phase

LEMMA DieStep ==
  ASSUME IInv, Die
  PROVE  IInv'
<1>1. /\ TypeOK /\ process = "running" /\ process' = "zombie" /\ sigchld' = handler
      /\ pc' = [pc EXCEPT !["server"] = "dead"]
      /\ UNCHANGED <<channel, transfer, terminating, worker, handler, spawns, master>>
  BY DEF IInv, Die, Goto
<1>2. /\ pc'["server"] = "dead" /\ pc'["client"] = pc["client"]
      /\ pc' \in [Sides -> ClientPC \cup ServerPC]
      /\ pc'["client"] \in ClientPC /\ pc'["server"] \in ServerPC
  BY <1>1, ServerMoves DEF ServerPC
<1>3. TypeOK'
  BY <1>1, <1>2 DEF TypeOK, channel, transfer, master
<1>4. Together' /\ OnlyDeathCostsACall'
  BY <1>1, <1>2 DEF IInv, Together, OnlyDeathCostsACall, channel, transfer, master, Outside
<1>5. pc["server"] # "dead" /\ pc["client"] # "dead"
  BY <1>1 DEF IInv, Together, TypeOK, ClientPC
<1>6. SUFFICES Phase'
  BY <1>3, <1>4 DEF IInv
<1>7. CASE Resting
  <2>1. Lost'
    BY <1>1, <1>2, <1>7 DEF Resting, Lost, Quiet, Outside, channel
  <2>2. QED
    BY <2>1 DEF Phase
<1>8. CASE Lost
  BY <1>5, <1>8 DEF Lost
<1>9. CASE Transferring("client")
  <2>1. CASE Acknowledged("client")
    <3>1. InStep("client")'
      BY <1>1, <2>1, BothSides DEF Acknowledged, InStep, FullPieces, transfer
    <3>2. Acknowledged("client")'
      BY <1>1, <1>2, <2>1, <3>1, BothSides DEF Acknowledged, channel
    <3>3. Transferring("client")'
      BY <1>1, <1>9, <3>2 DEF Transferring, transfer, master
    <3>4. QED
      BY <3>3 DEF Phase
  <2>2. CASE ~ Acknowledged("client")
    <3>1. /\ pc["client"] \in {"send", "ack", "next", "recv"} /\ m_count["client"] = 0
          /\ pc["client"] \in {"send", "next"} => m_count["server"] = 0
          /\ pc["client"] = "next" => sent["client"] <= msg["client"].len
      BY <1>5, <1>9, <2>2, BothSides
         DEF Transferring, Offering, InFlight, Copying, Acknowledging, Continuing, Delivered,
             Follows, Quiet, InStep
    <3>2. Lost'
      BY <1>1, <1>2, <3>1 DEF Lost, Outside, channel, transfer
    <3>3. QED
      BY <3>2 DEF Phase
  <2>3. QED
    BY <2>1, <2>2
<1>10. CASE Transferring("server")
  <2>1. CASE InFlight("server")
    <3>1. PICK n : n = m_buffer_content_size /\ n = m_buffer_content_size'
      BY <1>1 DEF channel
    <3>2. Follows("server", n)'
      BY <1>1, <1>2, <1>5, <2>1, <3>1, BothSides DEF InFlight, Follows, FullPieces, channel, transfer
    <3>3. InFlight("server")'
      BY <1>1, <1>2, <2>1, <3>1, <3>2, BothSides DEF InFlight, Awaits, channel
    <3>4. Transferring("server")'
      BY <1>1, <1>10, <3>3 DEF Transferring, transfer, master
    <3>5. QED
      BY <3>4 DEF Phase
  <2>2. CASE Copying("server")
    <3>1. PICK n : n = last_receivelen["client"] /\ n = last_receivelen'["client"]
      BY <1>1 DEF transfer
    <3>2. Follows("server", n)'
      BY <1>1, <1>2, <1>5, <2>2, <3>1, BothSides DEF Copying, Follows, FullPieces, channel, transfer
    <3>3. Copying("server")'
      BY <1>1, <1>2, <2>2, <3>1, <3>2, BothSides DEF Copying, Quiet, channel
    <3>4. Transferring("server")'
      BY <1>1, <1>10, <3>3 DEF Transferring, transfer, master
    <3>5. QED
      BY <3>4 DEF Phase
  <2>3. CASE Delivered("server")
    <3>1. Delivered("server")'
      BY <1>1, <1>2, <2>3, BothSides DEF Delivered, Quiet, channel, transfer
    <3>2. Transferring("server")'
      BY <1>1, <1>10, <3>1 DEF Transferring, transfer, master
    <3>3. QED
      BY <3>2 DEF Phase
  <2>4. CASE Offering("server") \/ Acknowledging("server") \/ Acknowledged("server") \/ Continuing("server")
    <3>1. /\ pc["client"] \in {"recv", "send_ack"} /\ m_count["client"] = 0
          /\ pc["client"] = "send_ack" => m_count["server"] = 0
      BY <1>5, <2>4, BothSides DEF Offering, Acknowledging, Acknowledged, Continuing, Awaits, Quiet
    <3>2. Lost'
      BY <1>1, <1>2, <3>1 DEF Lost, Outside, channel
    <3>3. QED
      BY <3>2 DEF Phase
  <2>5. QED
    BY <1>10, <2>1, <2>2, <2>3, <2>4 DEF Transferring
<1>11. QED
  BY <1>7, <1>8, <1>9, <1>10 DEF IInv, Phase

\* A step that is not seen by the calls.
LEMMA PhaseStays ==
  ASSUME Phase, UNCHANGED <<channel, pc, transfer, connection, calls>>
  PROVE  Phase'
BY DEF Phase, Transferring, Offering, InFlight, Copying, Acknowledging, Acknowledged, Continuing,
       Delivered, Resting, Lost, Quiet, Awaits, Follows, InStep, FullPieces, channel, transfer

LEMMA SignalStep ==
  ASSUME IInv, sigchld_handler \/ autoreap
  PROVE  IInv'
<1>1. /\ UNCHANGED <<channel, pc, transfer, terminating, worker, master>>
      /\ process' = process \/ (process = "zombie" /\ process' = "gone")
      /\ TypeOK
  BY DEF IInv, sigchld_handler, autoreap, uninstall_sigchld_handler, install_sigchld_handler
<1>2. handler' \in BOOLEAN /\ sigchld' \in BOOLEAN
  BY <1>1 DEF TypeOK, sigchld_handler, autoreap, uninstall_sigchld_handler, install_sigchld_handler
<1>3. spawns' \in 0 .. MaxSpawns
  BY <1>1, ShmCallAssumption DEF TypeOK, sigchld_handler, autoreap, uninstall_sigchld_handler,
                                 install_sigchld_handler
<1>4. TypeOK'
  BY <1>1, <1>2, <1>3 DEF TypeOK, channel, transfer, master
<1>5. Together' /\ OnlyDeathCostsACall'
  BY <1>1 DEF IInv, Together, OnlyDeathCostsACall, channel, transfer, master
<1>6. Phase'
  BY <1>1, PhaseStays DEF IInv, master
<1>7. QED
  BY <1>4, <1>5, <1>6 DEF IInv

LEMMA InitIInv == Init => IInv
<1> SUFFICES ASSUME Init PROVE IInv
  OBVIOUS
<1>1. NoMessage \in Messages /\ NoPiece \in Pieces
  BY ShmCallAssumption DEF NoPiece, NoMessage, Pieces, Messages
<1>2. TypeOK
  <2>1. m_count \in [Sides -> 0 .. 1] /\ m_count["client"] = 0 /\ m_count["server"] = 0
    BY BothSides DEF Init
  <2>2. m_buffer_content_size \in 0 .. BufferSize /\ last_receivelen \in [Sides -> 0 .. BufferSize]
    BY ShmCallAssumption DEF Init
  <2>3. calls \in 0 .. MaxCalls /\ spawns \in 0 .. MaxSpawns
    BY ShmCallAssumption DEF Init
  <2>4. /\ pc \in [Sides -> ClientPC \cup ServerPC] /\ pc["client"] \in ClientPC
        /\ pc["server"] \in ServerPC
    BY BothSides DEF Init, ClientPC, ServerPC
  <2>5. sent \in [Sides -> Nat] /\ received \in [Sides -> Seq(Pieces)] /\ msg \in [Sides -> Messages]
    BY <1>1 DEF Init
  <2>6. m_count["client"] + m_count["server"] <= 1
    BY <2>1
  <2>7. /\ client_connecting \in BOOLEAN /\ server_listening \in BOOLEAN
        /\ terminating \in BOOLEAN /\ connection \in BOOLEAN
        /\ handler \in BOOLEAN /\ sigchld \in BOOLEAN
    BY DEF Init
  <2>8. /\ result \in {"none", "reply", "comm_failure", "unknown_lambda"}
        /\ worker \in {"first", "replacement"} /\ process \in {"running", "zombie", "gone"}
        /\ m_buffer \in Pieces
    BY <1>1 DEF Init
  <2>9. QED
    BY <2>1, <2>2, <2>3, <2>4, <2>5, <2>6, <2>7, <2>8 DEF TypeOK
<1>3. Resting
  BY BothSides DEF Init, Resting, Outside, Quiet
<1>4. Together /\ OnlyDeathCostsACall
  BY BothSides DEF Init, Together, OnlyDeathCostsACall, Outside
<1>5. QED
  BY <1>2, <1>3, <1>4 DEF IInv, Phase

LEMMA NextIInv ==
  ASSUME GoodLengths, IInv, [Next]_vars
  PROVE  IInv'
<1>1. CASE ClientStep
  BY <1>1, ConnectStep, ConnectedStep, ConnectTimeoutStep, TransferStep, BothSides, ReturnStep,
     ResetConnectionStep, IpcCallStep, ReleaseWorkerStep DEF ClientStep
<1>2. CASE UNCHANGED vars
  <2>1. Phase'
    BY <1>2, PhaseStays DEF IInv, vars, master
  <2>2. QED
    BY <1>2, <2>1 DEF IInv, TypeOK, Together, OnlyDeathCostsACall, vars, channel, transfer, system, master
<1>3. CASE ServerStep
  <2>1. CASE ReceiveTimeout
    <3>1. CASE pc' = pc
      BY <1>2, <2>1, <3>1 DEF ReceiveTimeout, vars
    <3>2. QED
      BY <2>1, <3>1, ReceiveTimeoutStep
  <2>2. QED
    BY <1>3, <2>1, ListenStep, AcceptStep, ListenTimeoutStep, TransferStep, BothSides, EvaluateStep
       DEF ServerStep
<1>4. QED
  BY <1>1, <1>2, <1>3, BulkEvalStep, CloseStep, DieStep, SignalStep DEF Next
-----------------------------------------------------------------------------
(* The theorems.                                                           *)

\* Every state of a call is a phase of one transfer, a rest between two calls, or
\* one after the death of the worker: what the other theorems rest on.
THEOREM Invariance ==
  ASSUME GoodLengths
  PROVE  Spec => []IInv
<1>1. IInv /\ [Next]_vars => IInv'
  BY NextIInv
<1>2. QED
  BY InitIInv, <1>1, PTL DEF Spec

\* The types of the fields: the semaphores never count more than one message in the
\* channel, and no length goes beyond m_buffer_size.
THEOREM TypeCorrect ==
  ASSUME GoodLengths
  PROVE  Spec => []TypeOK
<1>1. IInv => TypeOK
  BY DEF IInv
<1>2. QED
  BY <1>1, Invariance, PTL

\* What large_receive() returns is the one message that was sent, whole: the
\* worker evaluates the request of the current call, and the master gets its reply.
THEOREM MessagesCorrect ==
  ASSUME GoodLengths
  PROVE  Spec => []MessagesIntact
<1>1. IInv => MessagesIntact
  <2> SUFFICES ASSUME IInv PROVE MessagesIntact
    OBVIOUS
  <2>1. pc["server"] = "done" => IsWhole(received["server"], msg["client"])
    BY AtDone, BothSides DEF IInv, Delivered
  <2>2. pc["client"] = "done" => IsWhole(received["client"], msg["server"]) /\ msg["server"].call = calls
    BY AtDone, BothSides DEF IInv, Delivered, Transferring
  <2>3. QED
    BY <2>1, <2>2 DEF MessagesIntact
<1>2. QED
  BY <1>1, Invariance, PTL

\* A call leaves the shared memory, or fails, only if the worker has died.
THEOREM OnlyDeathCosts ==
  ASSUME GoodLengths
  PROVE  Spec => []OnlyDeathCostsACall
<1>1. IInv => OnlyDeathCostsACall
  BY DEF IInv
<1>2. QED
  BY <1>1, Invariance, PTL

\* While one side copies, the other one is waiting for it: a step that writes into
\* the buffer is a step of a side that sends.
LEMMA WriterSends ==
  ASSUME NEW s \in Sides, Transfer(s), m_buffer' # m_buffer
  PROVE  pc[s] \in {"send", "next", "send_ack"}
BY DEF Transfer, SendShort, SendFull, ReceiveAck, SendNext, SendFails, Receive, Copy, SendAck,
       ReceiveFails, Take, channel

LEMMA OnlyTransfersWrite ==
  ASSUME [Next]_vars, m_buffer' # m_buffer
  PROVE  \E s \in Sides : Transfer(s)
BY BothSides DEF Next, vars, channel, ClientStep, ServerStep, Connect, Connected, ConnectTimeout, Return,
   ResetConnection, IpcCall, ReleaseWorker, BulkEval, Close, Listen, Accept, ListenTimeout,
   ReceiveTimeout, Evaluate, Die, sigchld_handler, autoreap, uninstall_sigchld_handler,
   install_sigchld_handler

\* The buffer that receive_direct() hands out is not written while it is copied.
THEOREM BufferStaysStable ==
  ASSUME GoodLengths
  PROVE  Spec => BufferStable
<1>1. IInv /\ [Next]_vars
        => [\A s \in Sides : pc[s] = "copy" /\ pc'[s] = "copy" => m_buffer' = m_buffer]_vars
  <2> SUFFICES ASSUME IInv, [Next]_vars, NEW s \in Sides, pc[s] = "copy", m_buffer' # m_buffer
               PROVE  FALSE
    OBVIOUS
  <2>1. PICK w \in Sides : Transfer(w) /\ pc[w] \in {"send", "next", "send_ack"}
    BY OnlyTransfersWrite, WriterSends
  <2>2. w = Peer(s) /\ Peer(Peer(s)) = s
    BY <2>1, TwoSides
  <2>3. Copying(w)
    BY <2>2, AtCopy DEF IInv
  <2>4. pc[w] \in {"ack", "recv", "dead"}
    BY <2>3 DEF Copying, Follows
  <2>5. QED
    BY <2>1, <2>4
<1>2. QED
  BY <1>1, Invariance, PTL DEF Spec, BufferStable
=============================================================================
