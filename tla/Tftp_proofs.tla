----------------------------- MODULE Tftp_proofs -----------------------------
(***************************************************************************)
(* Lemmas about the packets and queues of Tftp, for the proofs about       *)
(* TftpGet and TftpPut.                                                    *)
(***************************************************************************)
EXTENDS Tftp, TLAPS

Queues == [Endpoints -> Seq(Packets)]

\* The packets of queues q are among those of sock.
Sub(q) == \A e \in Endpoints : \A i \in 1 .. Len(q[e]) :
              \E j \in 1 .. Len(sock[e]) : q[e][i] = sock[e][j]

-----------------------------------------------------------------------------
(* Packets and queues.                                                     *)

\* A block number on the wire fits into th_block.
LEMMA WireType == \A n \in Nat : Wire(n) \in 0 .. BlockMod - 1
  BY TftpAssumption DEF Wire

\* Below the modulus a block number is sent as it is, the modulus as 0.
LEMMA WireSmall == /\ \A n \in 0 .. BlockMod - 1 : Wire(n) = n
                   /\ Wire(BlockMod) = 0
  BY TftpAssumption DEF Wire

\* The packets the two programs build are packets.
LEMMA PacketTypes ==
  ASSUME NEW src \in Endpoints, NEW dst \in Endpoints, NEW n \in Nat, NEW f \in Nat
  PROVE  /\ Data(src, dst, n, f) \in Packets
         /\ Ack(src, dst, n) \in Packets
         /\ Nak(src, dst) \in Packets
         /\ Request("RRQ", dst, f) \in Packets
         /\ Request("WRQ", dst, f) \in Packets
  <1>1. 0 \in 0 .. BlockMod - 1
    BY TftpAssumption
  <1>. QED
    BY <1>1, WireType DEF Data, Ack, Nak, Request, Packets, Opcodes, Endpoints

\* Reading a packet from a queue, or flushing it, leaves well-typed queues
\* and adds no packet.
LEMMA PoppedQueues ==
  ASSUME sock \in Queues, NEW e \in Endpoints, sock[e] # <<>>
  PROVE  /\ Head(sock[e]) \in Packets
         /\ Head(sock[e]) = sock[e][1]
         /\ 1 \in 1 .. Len(sock[e])
         /\ Popped(e) \in Queues
         /\ Sub(Popped(e))
  <1>1. sock[e] \in Seq(Packets)
    BY DEF Queues
  <1>2. Tail(sock[e]) \in Seq(Packets)
    BY <1>1
  <1>3. Popped(e) = [x \in Endpoints |-> IF x = e THEN Tail(sock[e]) ELSE sock[x]]
    BY DEF Popped, Queues
  <1>4. Popped(e) \in Queues
    BY <1>2, <1>3 DEF Queues
  <1>5. ASSUME NEW x \in Endpoints, NEW i \in 1 .. Len(Popped(e)[x])
        PROVE  \E j \in 1 .. Len(sock[x]) : Popped(e)[x][i] = sock[x][j]
    <2>1. CASE x = e
      <3>1. Popped(e)[x] = Tail(sock[e])
        BY <1>3, <2>1
      <3>2. i + 1 \in 1 .. Len(sock[e]) /\ Tail(sock[e])[i] = sock[e][i + 1]
        BY <1>1, <3>1
      <3>. QED
        BY <3>1, <3>2, <2>1
    <2>2. CASE x # e
      BY <1>3, <1>5, <2>2
    <2>. QED
      BY <2>1, <2>2
  <1>. QED
    BY <1>1, <1>4, <1>5 DEF Sub

LEMMA EmptiedQueues ==
  ASSUME NEW q \in Queues, Sub(q), NEW e \in Endpoints
  PROVE  Emptied(q, e) \in Queues /\ Sub(Emptied(q, e))
  <1>1. Emptied(q, e) = [x \in Endpoints |-> IF x = e THEN <<>> ELSE q[x]]
    BY DEF Emptied, Queues
  <1>2. <<>> \in Seq(Packets) /\ Len(<<>>) = 0
    OBVIOUS
  <1>3. Emptied(q, e) \in Queues
    BY <1>1, <1>2 DEF Queues
  <1>4. ASSUME NEW x \in Endpoints, NEW i \in 1 .. Len(Emptied(q, e)[x])
        PROVE  \E j \in 1 .. Len(sock[x]) : Emptied(q, e)[x][i] = sock[x][j]
    <2>1. CASE x = e
      BY <1>1, <1>2, <1>4, <2>1
    <2>2. CASE x # e
      BY <1>1, <1>4, <2>2 DEF Sub
    <2>. QED
      BY <2>1, <2>2
  <1>. QED
    BY <1>3, <1>4 DEF Sub

LEMMA FlushedQueues ==
  ASSUME sock \in Queues, NEW e \in Endpoints
  PROVE  Flushed(e) \in Queues /\ Sub(Flushed(e))
  BY EmptiedQueues DEF Flushed, Sub

LEMMA AfterAlarmQueues ==
  ASSUME sock \in Queues, NEW e \in Endpoints, NEW q \in AfterAlarm(e)
  PROVE  q \in Queues /\ Sub(q)
  <1>1. q = sock \/ (sock[e] # <<>> /\ q = Popped(e))
    BY DEF AfterAlarm
  <1>2. Sub(sock)
    BY DEF Sub
  <1>. QED
    BY <1>1, <1>2, PoppedQueues
=============================================================================
