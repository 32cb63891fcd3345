---------------------------- MODULE TftpGet_proofs ----------------------------
(***************************************************************************)
(* Proofs about TftpGet, for any number of servers, any file, any block    *)
(* number modulus, any timer values and any number of duplicates.          *)
(***************************************************************************)
EXTENDS TftpGet, Tftp_proofs

-----------------------------------------------------------------------------
(* Type correctness.                                                       *)

\* The network's steps.
LEMMA NetworkType == TypeOK /\ Network => TypeOK'
  <1> SUFFICES ASSUME TypeOK, Network PROVE TypeOK'
    OBVIOUS
  <1>1. PICK p \in net : Deliver(p) \/ Lose(p)
    BY DEF Network
  <1>2. p \in Packets /\ p.to \in Endpoints
    BY DEF TypeOK, Packets
  <1>3. net' \subseteq Packets /\ dups' \in Nat
    BY <1>1 DEF TypeOK, Deliver, Lose
  <1>4. sock' \in Queues
    <2>1. sock[p.to] \in Seq(Packets) /\ Append(sock[p.to], p) \in Seq(Packets)
      BY <1>2 DEF TypeOK
    <2>. QED
      BY <1>1, <1>2, <2>1 DEF TypeOK, Deliver, Lose, Queues
  <1>. QED
    BY <1>3, <1>4 DEF TypeOK, Network, cvars, svars, Queues

\* The client's steps.
LEMMA ClientSendsType ==
  ASSUME TypeOK, NEW p \in Packets, NEW dst \in Endpoints, NEW n \in Nat,
         ClientSends(p, dst, n)
  PROVE  net' \subseteq Packets /\ cstate' \in ClientStates
  <1>1. Ack("tftp", dst, n) \in Packets
    BY PacketTypes, 0 \in Nat DEF Endpoints
  <1>2. CASE net' = net \cup {p} /\ cstate' = "wait"
    BY <1>2 DEF TypeOK, ClientStates
  <1>3. CASE net' = net \cup {Ack("tftp", dst, n)} /\ cstate' = "aborted"
    BY <1>1, <1>3 DEF TypeOK, ClientStates
  <1>. QED
    BY <1>2, <1>3 DEF ClientSends

LEMMA AckBufType ==
  ASSUME TypeOK, NEW dst \in Endpoints
  PROVE  AckBuf(dst) \in Packets
  <1>1. cblock - 1 \in Nat
    BY DEF TypeOK
  <1>. QED
    BY <1>1, PacketTypes DEF AckBuf, TypeOK, Endpoints

LEMMA ClientType == TypeOK /\ Client => TypeOK'
  <1> SUFFICES ASSUME TypeOK, Client PROVE TypeOK'
    OBVIOUS
  <1>0. "tftp" \in Endpoints /\ "inetd" \in Endpoints
    BY DEF Endpoints
  <1>q. sock \in Queues
    BY DEF TypeOK, Queues
  <1>1. CASE ClientGet
    <2>1. Request("RRQ", "inetd", xfer + 1) \in Packets
      BY <1>0, PacketTypes DEF TypeOK
    <2>2. net' \subseteq Packets /\ cstate' \in ClientStates
      BY <1>0, <1>1, <2>1, ClientSendsType DEF ClientGet
    <2>. QED
      BY <1>0, <1>1, <2>2 DEF ClientGet, TypeOK, svars
  <1>2. CASE ClientRecv
    <2> DEFINE p == Head(sock["tftp"])
    <2>1. /\ p \in Packets /\ Popped("tftp") \in Queues
          /\ Flushed("tftp") \in Queues
      BY <1>0, <1>q, <1>2, PoppedQueues, FlushedQueues DEF ClientRecv
    <2>2. p.from \in Endpoints /\ p.seg \in Nat /\ p.file \in Nat
      BY <2>1 DEF Packets
    <2> SUFFICES /\ net' \subseteq Packets /\ sock' \in Queues
                 /\ cstate' \in ClientStates
                 /\ cblock' \in Nat \ {0} /\ ctimeout' \in Nat
                 /\ got' \in Seq([seg: Nat, file: Nat])
      BY <1>2, <2>2 DEF ClientRecv, TypeOK, svars, Queues
    <2> HIDE DEF p
    <2>3. CASE ClientAccept(p)
      <3>1. got' \in Seq([seg: Nat, file: Nat])
        BY <2>2, <2>3 DEF ClientAccept, TypeOK
      <3>2. sock' \in Queues /\ cblock' \in Nat \ {0} /\ ctimeout' \in Nat
        BY <2>1, <2>3 DEF ClientAccept, TypeOK
      <3>3. Ack("tftp", p.from, cblock) \in Packets
        BY <1>0, <2>2, PacketTypes DEF TypeOK
      <3>4. net' \subseteq Packets /\ cstate' \in ClientStates
        <4>1. CASE ~IsLast(p.seg)
          <5>1. ClientSends(Ack("tftp", p.from, cblock), p.from, cblock + 1)
            BY <2>3, <4>1 DEF ClientAccept
          <5>2. cblock + 1 \in Nat
            BY DEF TypeOK
          <5>. QED
            BY <2>2, <3>3, <5>1, <5>2, ClientSendsType
        <4>2. CASE IsLast(p.seg)
          BY <2>3, <3>3, <4>2 DEF ClientAccept, TypeOK, ClientStates
        <4>. QED
          BY <4>1, <4>2
      <3>. QED
        BY <3>1, <3>2, <3>4
    <2>4. CASE ClientResync(p)
      <3>1. net' \subseteq Packets /\ cstate' \in ClientStates
        <4>1. CASE p.block = cblock - 1
          <5>1. ClientSends(AckBuf(p.from), p.from, cblock) /\ cblock \in Nat
            BY <2>4, <4>1 DEF ClientResync, TypeOK
          <5>. QED
            BY <2>2, <5>1, AckBufType, ClientSendsType
        <4>2. CASE p.block # cblock - 1
          BY <2>4, <4>2 DEF ClientResync, TypeOK
        <4>. QED
          BY <4>1, <4>2
      <3>. QED
        BY <2>1, <2>4, <3>1 DEF ClientResync, TypeOK
    <2>5. CASE ClientError(p)
      BY <1>0, <2>1, <2>2, <2>5, PacketTypes DEF ClientError, TypeOK, ClientStates
    <2>. QED
      BY <1>2, <2>3, <2>4, <2>5 DEF ClientRecv, p
  <1>3. CASE ClientTimer
    <2>1. sock' \in Queues
      BY <1>0, <1>q, <1>3, AfterAlarmQueues DEF ClientTimer
    <2>2. net' \subseteq Packets /\ cstate' \in ClientStates
      <3>1. CASE GivesUp(ctimeout)
        BY <1>3, <3>1 DEF ClientTimer, TypeOK, ClientStates
      <3>2. CASE ~GivesUp(ctimeout)
        <4>1. ClientSends(AckBuf(cport), cport, cblock) /\ cblock \in Nat /\ cport \in Endpoints
          BY <1>3, <3>2 DEF ClientTimer, TypeOK
        <4>. QED
          BY <4>1, AckBufType, ClientSendsType
      <3>. QED
        BY <3>1, <3>2
    <2>. QED
      BY <1>3, <2>1, <2>2, TftpAssumption DEF ClientTimer, TypeOK, Queues, svars, Elapsed
  <1>4. CASE ClientIntr
    BY <1>4 DEF ClientIntr, TypeOK, ClientStates, netvars, svars
  <1>. QED
    BY <1>1, <1>2, <1>3, <1>4 DEF Client

\* The servers' steps.
LEMMA ServerReadsType ==
  ASSUME TypeOK, NEW s \in Servers, NEW n \in Nat, NEW f \in Nat, NEW q \in Queues,
         Sub(q), ServerReads(s, n, f, q)
  PROVE  /\ net' \subseteq Packets /\ sock' \in Queues
         /\ sstate' \in [Servers -> ServerStates]
  <1>1. s \in Endpoints /\ "tftp" \in Endpoints
    BY DEF Endpoints
  <1>2. Emptied(q, s) \in Queues
    BY <1>1, EmptiedQueues
  <1>3. Data(s, "tftp", n, f) \in Packets /\ Nak(s, "tftp") \in Packets
    BY <1>1, PacketTypes
  <1>4. CASE /\ net' = net \cup {Data(s, "tftp", n, f)}
             /\ sstate' = [sstate EXCEPT ![s] = "wait"] /\ sock' = q
    BY <1>3, <1>4 DEF TypeOK, ServerStates
  <1>5. CASE /\ net' \in {net, net \cup {Nak(s, "tftp")}}
             /\ sstate' = [sstate EXCEPT ![s] = "exited"] /\ sock' = Emptied(q, s)
    <2>1. net' \subseteq Packets
      BY <1>3, <1>5 DEF TypeOK
    <2>. QED
      BY <1>2, <1>5, <2>1 DEF TypeOK, ServerStates
  <1>. QED
    BY <1>4, <1>5 DEF ServerReads, ServerSends

LEMMA ServerType == ASSUME NEW s \in Servers PROVE TypeOK /\ Server(s) => TypeOK'
  <1> SUFFICES ASSUME TypeOK, Server(s) PROVE TypeOK'
    OBVIOUS
  <1>0. s \in Endpoints /\ "tftp" \in Endpoints /\ "inetd" \in Endpoints
    BY DEF Endpoints
  <1>q. sock \in Queues /\ Flushed(s) \in Queues /\ Sub(Flushed(s))
    BY <1>0, FlushedQueues DEF TypeOK, Queues
  <1>1. CASE ServerSpawn(s)
    <2> DEFINE p == Head(sock["inetd"])
    <2>1. p \in Packets /\ Popped("inetd") \in Queues /\ Sub(Popped("inetd"))
      BY <1>0, <1>q, <1>1, PoppedQueues DEF ServerSpawn
    <2>2. p.file \in Nat /\ 1 \in Nat
      BY <2>1 DEF Packets
    <2> HIDE DEF p
    <2>3. /\ net' \subseteq Packets /\ sock' \in Queues
          /\ sstate' \in [Servers -> ServerStates]
      <3>1. CASE ServerReads(s, 1, p.file, Popped("inetd"))
        BY <2>1, <2>2, <3>1, ServerReadsType
      <3>2. CASE /\ net' = net \cup {Nak(s, "tftp")} \/ net' = net
                 /\ sstate' = [sstate EXCEPT ![s] = "exited"] /\ sock' = Popped("inetd")
        BY <1>0, <2>1, <3>2, PacketTypes DEF TypeOK, ServerStates
      <3>. QED
        BY <1>1, <3>1, <3>2 DEF ServerSpawn, p
    <2>. QED
      BY <1>1, <2>2, <2>3 DEF ServerSpawn, TypeOK, cvars, Queues, p
  <1>2. CASE ServerRecv(s)
    <2> DEFINE p == Head(sock[s])
    <2>1. p \in Packets /\ Popped(s) \in Queues /\ Sub(Popped(s))
      BY <1>0, <1>q, <1>2, PoppedQueues DEF ServerRecv
    <2> SUFFICES /\ net' \subseteq Packets /\ sock' \in Queues
                 /\ sstate' \in [Servers -> ServerStates]
                 /\ sblock' \in [Servers -> Nat \ {0}] /\ stimeout' \in [Servers -> Nat]
      BY <1>2 DEF ServerRecv, TypeOK, cvars, Queues
    <2> HIDE DEF p
    <2>2. sblock[s] \in Nat /\ sblock[s] + 1 \in Nat /\ sfile[s] \in Nat
      BY DEF TypeOK
    <2>3. CASE ServerAcked(s, p)
      <3>1. CASE ~IsLast(sblock[s])
        <4>1. /\ sblock' = [sblock EXCEPT ![s] = @ + 1]
              /\ stimeout' = [stimeout EXCEPT ![s] = 0]
              /\ ServerReads(s, sblock[s] + 1, sfile[s], Popped(s))
          BY <2>3, <3>1 DEF ServerAcked
        <4>2. sblock' \in [Servers -> Nat \ {0}] /\ stimeout' \in [Servers -> Nat]
          BY <4>1 DEF TypeOK
        <4>. QED
          BY <2>1, <2>2, <4>1, <4>2, ServerReadsType
      <3>2. CASE IsLast(sblock[s])
        BY <1>q, <2>3, <3>2 DEF ServerAcked, ServerExits, ServerStates, TypeOK
      <3>. QED
        BY <3>1, <3>2
    <2>4. CASE ServerResync(s, p)
      <3>1. CASE p.block = Wire(sblock[s] - 1)
        BY <1>q, <2>2, <2>4, <3>1, ServerReadsType DEF ServerReads, ServerResync, TypeOK
      <3>2. CASE p.block # Wire(sblock[s] - 1)
        BY <1>q, <2>4, <3>2 DEF ServerResync, TypeOK
      <3>. QED
        BY <3>1, <3>2
    <2>5. CASE ServerAbort(s, p)
      BY <1>q, <2>5 DEF ServerAbort, ServerExits, ServerStates, TypeOK
    <2>6. CASE ServerIgnore(s, p)
      BY <2>1, <2>6 DEF ServerIgnore, TypeOK
    <2>. QED
      BY <1>2, <2>3, <2>4, <2>5, <2>6 DEF ServerRecv, p
  <1>3. CASE ServerRecvFails(s)
    BY <1>q, <1>3 DEF ServerRecvFails, ServerExits, ServerStates, TypeOK, Queues, cvars
  <1>4. CASE ServerTimer(s)
    <2>1. stimeout' \in [Servers -> Nat]
      BY <1>4, TftpAssumption DEF ServerTimer, TypeOK, Elapsed
    <2>2. /\ net' \subseteq Packets /\ sock' \in Queues
          /\ sstate' \in [Servers -> ServerStates]
      <3>1. CASE GivesUp(stimeout[s])
        BY <1>q, <1>4, <3>1 DEF ServerTimer, ServerExits, ServerStates, TypeOK
      <3>2. CASE ~GivesUp(stimeout[s])
        <4>1. PICK q \in AfterAlarm(s) : ServerSends(s, sblock[s], sfile[s], q)
          BY <1>4, <3>2 DEF ServerTimer
        <4>2. q \in Queues /\ Sub(q)
          BY <1>0, <1>q, AfterAlarmQueues
        <4>. QED
          BY <4>1, <4>2, ServerReadsType DEF ServerReads, TypeOK
      <3>. QED
        BY <3>1, <3>2
    <2>. QED
      BY <1>4, <2>1, <2>2 DEF ServerTimer, TypeOK, Queues, cvars
  <1>. QED
    BY <1>1, <1>2, <1>3, <1>4 DEF Server

\* Every reachable state of a "get" session is type-correct: block numbers
\* on the wire stay within th_block, blocks and offsets are naturals, and
\* each process is in one of the states its code can be in.
THEOREM TypeCorrect == Spec => []TypeOK
  <1>1. Init => TypeOK
    <2>1. \A e \in Endpoints : <<>> \in Seq(Packets)
      OBVIOUS
    <2>. QED
      BY <2>1 DEF Init, NetInit, TypeOK, ClientStates, ServerStates, Endpoints
  <1>2. TypeOK /\ [Next]_vars => TypeOK'
    <2>1. CASE UNCHANGED vars
      BY <2>1 DEF TypeOK, vars, netvars, cvars, svars
    <2>2. CASE Next
      BY <2>2, NetworkType, ClientType, ServerType DEF Next
    <2>. QED
      BY <2>1, <2>2
  <1>. QED
    BY <1>1, <1>2, PTL DEF Spec

-----------------------------------------------------------------------------
(* One transfer: the inductive invariant.                                  *)

\* What a packet on its way says about the processes.  DATA is a segment that
\* its server has read, under its number; an ACK is of a block the client has
\* stored, unless the client has aborted.
PacketSays(p, sb, cs, n) ==
    /\ p.op = "DATA" => /\ p.from \in Servers
                        /\ p.seg \in 1 .. sb[p.from]
                        /\ p.block = Wire(p.seg) /\ p.file = 1
    /\ p.op = "ACK" => cs = "aborted" \/ p.block \in 1 .. n
    /\ p.op = "RRQ" => p.file = 1

PacketOK(p) == PacketSays(p, sblock, cstate, Len(got))
OKNext(p)   == PacketSays(p, sblock', cstate', Len(got'))

PacketsOK ==
    /\ \A p \in net : PacketOK(p)
    /\ \A e \in Endpoints : \A i \in 1 .. Len(sock[e]) : PacketOK(sock[e][i])

\* The client has stored the segments before cblock; they are fewer than the
\* modulus and no more than the file has.
ClientOK ==
    /\ xfer \in 0 .. 1 /\ (xfer = 0 <=> cstate = "idle")
    /\ got \in Seq([seg: Nat, file: Nat])
    /\ \A i \in 1 .. Len(got) : got[i] = [seg |-> i, file |-> 1]
    /\ Len(got) < BlockMod /\ Len(got) <= NBlocks
    /\ cstate \in {"idle", "wait"} => cblock = Len(got) + 1
    /\ cstate = "idle" => got = <<>>
    /\ cstate = "done" => Len(got) = NBlocks

\* No server is more than one block ahead of the client, unless the client
\* has aborted; a server that has come to its end saw its last ACK.
ServerOK(s) ==
    /\ sblock[s] \in 1 .. NBlocks /\ (sstate[s] = "none" => sblock[s] = 1)
    /\ sstate[s] # "none" /\ sstate[s] # "exited" => sfile[s] = 1
    /\ cstate # "aborted" => sblock[s] <= Len(got) + 1
    /\ sstate[s] = "done" /\ cstate # "aborted" => Len(got) = NBlocks

IInv == TypeOK /\ PacketsOK /\ ClientOK /\ \A s \in Servers : ServerOK(s)

\* A step that takes nothing back.
Mono == /\ \A s \in Servers : sblock[s] <= sblock'[s]
        /\ Len(got) <= Len(got')
        /\ cstate = "aborted" => cstate' = "aborted"

\* What a packet says stays true.
LEMMA PacketStays ==
  ASSUME TypeOK, TypeOK', Mono
  PROVE  \A p : PacketOK(p) => OKNext(p)
  <1> SUFFICES ASSUME NEW p, PacketOK(p) PROVE OKNext(p)
    OBVIOUS
  <1>1. Len(got) \in Nat /\ Len(got') \in Nat
    BY DEF TypeOK
  <1>2. CASE p.op = "DATA"
    <2>1. sblock[p.from] \in Nat /\ sblock'[p.from] \in Nat /\ sblock[p.from] <= sblock'[p.from]
      BY <1>2 DEF PacketOK, PacketSays, TypeOK, Mono
    <2>. QED
      BY <1>2, <2>1 DEF PacketOK, OKNext, PacketSays
  <1>3. CASE p.op = "ACK"
    <2>1. p.block \in 1 .. Len(got) => p.block \in 1 .. Len(got')
      BY <1>1 DEF Mono
    <2>. QED
      BY <1>3, <2>1 DEF PacketOK, OKNext, PacketSays, Mono
  <1>4. CASE p.op # "DATA" /\ p.op # "ACK"
    BY <1>4 DEF PacketOK, OKNext, PacketSays
  <1>. QED
    BY <1>2, <1>3, <1>4

\* PacketsOK' in terms of OKNext.
LEMMA PacketsNext ==
  ASSUME \A p \in net' : OKNext(p),
         \A e \in Endpoints : \A i \in 1 .. Len(sock'[e]) : OKNext(sock'[e][i])
  PROVE  PacketsOK'
  BY DEF PacketsOK, PacketOK, OKNext

\* A step of a process, which reads packets and sends packets that are right.
LEMMA PacketsStay ==
  ASSUME TypeOK, TypeOK', Mono, PacketsOK, Sub(sock'),
         \A p \in net' : p \in net \/ OKNext(p)
  PROVE  PacketsOK'
  <1>1. ASSUME NEW p \in net' PROVE OKNext(p)
    BY <1>1, PacketStays DEF PacketsOK
  <1>2. ASSUME NEW e \in Endpoints, NEW i \in 1 .. Len(sock'[e])
        PROVE  OKNext(sock'[e][i])
    <2>1. PICK j \in 1 .. Len(sock[e]) : sock'[e][i] = sock[e][j]
      BY <1>2 DEF Sub
    <2>2. PacketOK(sock[e][j])
      BY <2>1 DEF PacketsOK
    <2>. QED
      BY <2>1, <2>2, PacketStays
  <1>. QED
    BY <1>1, <1>2, PacketsNext

LEMMA NetworkInv == IInv /\ Network => IInv'
  <1> SUFFICES ASSUME IInv, Network PROVE IInv'
    OBVIOUS
  <1>0. TypeOK /\ TypeOK'
    BY NetworkType DEF IInv
  <1>1. PICK p \in net : Deliver(p) \/ Lose(p)
    BY DEF Network
  <1>2. p \in Packets /\ p.to \in Endpoints /\ PacketOK(p)
    BY <1>0 DEF TypeOK, Packets, IInv, PacketsOK
  <1>3. Mono
    <2>1. UNCHANGED <<cvars, svars>>
      BY DEF Network
    <2>2. Len(got) \in Nat /\ \A s \in Servers : sblock[s] \in Nat
      BY <1>0 DEF TypeOK
    <2>. QED
      BY <2>1, <2>2 DEF Mono, cvars, svars
  <1>4. ASSUME NEW e \in Endpoints, NEW i \in 1 .. Len(sock'[e])
        PROVE  OKNext(sock'[e][i])
    <2>1. sock[e] \in Seq(Packets)
      BY <1>0 DEF TypeOK
    <2>2. sock'[e] = sock[e] \/ sock'[e] = Append(sock[e], p)
      BY <1>0, <1>1 DEF Deliver, Lose, TypeOK
    <2>3. sock'[e][i] = p \/ (i \in 1 .. Len(sock[e]) /\ sock'[e][i] = sock[e][i])
      BY <1>4, <2>1, <2>2
    <2>4. PacketOK(sock'[e][i])
      BY <1>2, <2>1, <2>3 DEF IInv, PacketsOK
    <2>. QED
      BY <1>0, <1>3, <2>4, PacketStays
  <1>5. \A x \in net' : OKNext(x)
    <2>1. net' \subseteq net
      BY <1>1 DEF Deliver, Lose
    <2>. QED
      BY <1>0, <1>3, <2>1, PacketStays DEF IInv, PacketsOK
  <1>6. ClientOK' /\ \A s \in Servers : ServerOK(s)'
    BY DEF IInv, Network, cvars, svars, ClientOK, ServerOK
  <1>. QED
    BY <1>0, <1>4, <1>5, <1>6, PacketsNext DEF IInv

\* The heart of it: th_block identifies the segment, since no server is ahead
\* of the client and the client has not reached the modulus.
LEMMA DataExpected ==
  ASSUME IInv, cstate = "wait", NEW p \in Packets, PacketOK(p),
         p.op = "DATA", Expects(p)
  PROVE  /\ p.seg = cblock /\ p.file = 1
         /\ cblock < BlockMod /\ cblock <= NBlocks
  <1>1. /\ p.from \in Servers /\ p.seg \in 1 .. sblock[p.from]
        /\ p.block = Wire(p.seg) /\ p.file = 1 /\ p.block = cblock
    BY DEF PacketOK, PacketSays, Expects
  <1>2. cblock = Len(got) + 1 /\ Len(got) < BlockMod /\ Len(got) \in Nat
    BY DEF IInv, ClientOK
  <1>3. sblock[p.from] \in 1 .. NBlocks /\ sblock[p.from] <= Len(got) + 1
    BY <1>1 DEF IInv, ServerOK
  <1>4. p.seg \in 1 .. cblock /\ cblock \in 1 .. BlockMod /\ p.seg <= NBlocks
    BY <1>1, <1>2, <1>3, TftpAssumption
  <1>5. CASE p.seg < BlockMod
    <2>1. p.seg \in 0 .. BlockMod - 1
      BY <1>4, <1>5, TftpAssumption
    <2>2. Wire(p.seg) = p.seg
      BY <2>1, WireSmall
    <2>. QED
      BY <1>1, <1>4, <1>5, <2>2
  <1>6. CASE p.seg = BlockMod
    <2>1. Wire(p.seg) = 0
      BY <1>6, WireSmall
    <2>2. cblock = 0
      BY <1>1, <2>1
    <2>. QED
      BY <1>4, <2>2
  <1>7. p.seg < BlockMod \/ p.seg = BlockMod
    BY <1>4, TftpAssumption
  <1>. QED
    BY <1>5, <1>6, <1>7

\* The same for the server: the ACK of its block is one of the blocks stored.
LEMMA AckExpected ==
  ASSUME IInv, NEW s \in Servers, NEW p \in Packets, PacketOK(p),
         p.op = "ACK", p.block = Wire(sblock[s]), cstate # "aborted"
  PROVE  sblock[s] <= Len(got)
  <1>1. p.block \in 1 .. Len(got)
    BY DEF PacketOK, PacketSays
  <1>2. Len(got) < BlockMod /\ Len(got) \in Nat
    BY DEF IInv, ClientOK
  <1>3. sblock[s] \in 1 .. NBlocks /\ sblock[s] <= Len(got) + 1
    BY DEF IInv, ServerOK
  <1>4. sblock[s] \in 1 .. BlockMod
    BY <1>2, <1>3, TftpAssumption
  <1>5. CASE sblock[s] = BlockMod
    BY <1>1, <1>5, WireSmall
  <1>6. CASE sblock[s] # BlockMod
    <2>1. sblock[s] \in 0 .. BlockMod - 1
      BY <1>4, <1>6, TftpAssumption
    <2>. QED
      BY <1>1, <2>1, WireSmall
  <1>. QED
    BY <1>5, <1>6

\* What the client sends again is right.
LEMMA AckBufOK ==
  ASSUME IInv, cstate = "wait", NEW dst \in Endpoints
  PROVE  PacketOK(AckBuf(dst))
  <1>1. cblock = Len(got) + 1 /\ Len(got) < BlockMod /\ Len(got) \in Nat /\ xfer = 1
    BY DEF IInv, ClientOK
  <1>2. CASE cblock = 1
    BY <1>1, <1>2 DEF AckBuf, PacketOK, PacketSays, Request
  <1>3. CASE cblock # 1
    <2>1. cblock - 1 \in 0 .. BlockMod - 1
      BY <1>1, TftpAssumption
    <2>2. Wire(cblock - 1) \in 1 .. Len(got)
      BY <1>1, <1>3, <2>1, WireSmall
    <2>. QED
      BY <1>3, <2>2 DEF AckBuf, PacketOK, PacketSays, Ack
  <1>. QED
    BY <1>2, <1>3

\* What ClientSends adds to the network is right if its packet is.
LEMMA ClientSendsOK ==
  ASSUME NEW p, NEW dst, NEW n, ClientSends(p, dst, n), OKNext(p)
  PROVE  /\ \A x \in net' : x \in net \/ OKNext(x)
         /\ cstate' \in {"wait", "aborted"}
  <1>1. cstate' = "aborted" => OKNext(Ack("tftp", dst, n))
    BY DEF OKNext, PacketSays, Ack
  <1>. QED
    BY <1>1 DEF ClientSends

\* A client step that stores nothing.
LEMMA ClientKeeps ==
  ASSUME IInv, TypeOK', cstate = "wait", cstate' \notin {"idle", "done"}, Sub(sock'),
         UNCHANGED <<xfer, cblock, got, svars>>,
         \A x \in net' : x \in net \/ OKNext(x)
  PROVE  IInv'
  <1>1. TypeOK /\ Len(got) \in Nat /\ \A s \in Servers : sblock[s] \in Nat
    BY DEF IInv, TypeOK
  <1>2. Mono
    BY <1>1 DEF Mono, svars
  <1>3. PacketsOK'
    BY <1>1, <1>2, PacketsStay DEF IInv
  <1>4. ClientOK'
    BY DEF IInv, ClientOK
  <1>5. \A s \in Servers : ServerOK(s)'
    BY DEF IInv, ServerOK, svars
  <1>. QED
    BY <1>3, <1>4, <1>5 DEF IInv

LEMMA ClientInv == ASSUME Transfers = 1 PROVE IInv /\ Client => IInv'
  <1> SUFFICES ASSUME IInv, Client PROVE IInv'
    OBVIOUS
  <1>0. TypeOK /\ TypeOK'
    BY ClientType DEF IInv
  <1>e. "tftp" \in Endpoints /\ "inetd" \in Endpoints
    BY DEF Endpoints
  <1>q. sock \in Queues /\ Sub(sock)
    BY <1>0 DEF TypeOK, Queues, Sub
  <1>s. \A s \in Servers : sblock[s] \in Nat
    BY <1>0 DEF TypeOK
  <1>1. CASE ClientGet
    <2>1. xfer = 0 /\ cstate = "idle" /\ got = <<>> /\ got' = <<>>
      BY <1>1 DEF ClientGet, IInv, ClientOK
    <2>2. Mono
      BY <1>1, <1>s, <2>1 DEF Mono, ClientGet, svars
    <2>3. OKNext(Request("RRQ", "inetd", xfer + 1))
      BY <2>1 DEF OKNext, PacketSays, Request
    <2>4. /\ \A x \in net' : x \in net \/ OKNext(x)
          /\ cstate' \in {"wait", "aborted"}
      BY <1>1, <2>3, ClientSendsOK DEF ClientGet
    <2>5. PacketsOK'
      <3>1. Sub(sock')
        BY <1>1, <1>q DEF ClientGet
      <3>. QED
        BY <1>0, <2>2, <2>4, <3>1, PacketsStay DEF IInv
    <2>6. ClientOK'
      BY <1>1, <2>1, <2>4 DEF ClientGet, IInv, ClientOK
    <2>7. \A s \in Servers : ServerOK(s)'
      BY <1>1, <2>1, <2>4 DEF ClientGet, IInv, ServerOK, svars
    <2>. QED
      BY <1>0, <2>5, <2>6, <2>7 DEF IInv
  <1>2. CASE ClientRecv
    <2> DEFINE p == Head(sock["tftp"])
    <2>1. /\ p \in Packets /\ PacketOK(p) /\ cstate = "wait"
          /\ Sub(Popped("tftp")) /\ Sub(Flushed("tftp"))
      BY <1>e, <1>q, <1>2, PoppedQueues, FlushedQueues DEF ClientRecv, IInv, PacketsOK
    <2>2. p.from \in Endpoints
      BY <2>1 DEF Packets
    <2>3. UNCHANGED <<xfer, svars>>
      BY <1>2 DEF ClientRecv
    <2> HIDE DEF p
    <2>4. CASE ClientAccept(p)
      <3>1. /\ p.seg = cblock /\ p.file = 1
            /\ cblock < BlockMod /\ cblock <= NBlocks
        BY <2>1, <2>4, DataExpected DEF ClientAccept
      <3>2. /\ got \in Seq([seg: Nat, file: Nat]) /\ cblock = Len(got) + 1 /\ xfer = 1
            /\ \A i \in 1 .. Len(got) : got[i] = [seg |-> i, file |-> 1]
        BY <2>1 DEF IInv, ClientOK
      <3>3. got' = Append(got, [seg |-> cblock, file |-> 1])
        BY <2>4, <3>1 DEF ClientAccept
      <3>4. [seg |-> cblock, file |-> 1] \in [seg: Nat, file: Nat]
        BY <1>0 DEF TypeOK
      <3>5. /\ got' \in Seq([seg: Nat, file: Nat]) /\ Len(got') = cblock
            /\ \A i \in 1 .. Len(got') : got'[i] = [seg |-> i, file |-> 1]
        BY <3>2, <3>3, <3>4
      <3>6. Len(got) \in Nat /\ Len(got) < Len(got') /\ Len(got') \in Nat
        BY <3>2, <3>5
      <3>7. Mono
        BY <1>s, <2>1, <2>3, <3>6 DEF Mono, svars
      <3>8. OKNext(Ack("tftp", p.from, cblock))
        <4>1. cblock \in 0 .. BlockMod - 1 /\ cblock \in 1 .. Len(got')
          BY <3>1, <3>2, <3>5, TftpAssumption
        <4>2. Wire(cblock) \in 1 .. Len(got')
          BY <4>1, WireSmall
        <4>. QED
          BY <4>2 DEF OKNext, PacketSays, Ack
      <3>9. /\ \A x \in net' : x \in net \/ OKNext(x)
            /\ \/ /\ cblock # NBlocks /\ cblock' = cblock + 1
                  /\ cstate' \in {"wait", "aborted"}
               \/ cblock = NBlocks /\ cstate' = "done"
        <4>1. CASE ~IsLast(p.seg)
          BY <2>4, <3>1, <3>8, <4>1, ClientSendsOK DEF ClientAccept, IsLast
        <4>2. CASE IsLast(p.seg)
          BY <2>4, <3>1, <3>8, <4>2 DEF ClientAccept, IsLast
        <4>. QED
          BY <4>1, <4>2
      <3>10. PacketsOK'
        <4>1. Sub(sock')
          BY <2>1, <2>4 DEF ClientAccept
        <4>. QED
          BY <1>0, <3>7, <3>9, <4>1, PacketsStay DEF IInv
      <3>11. ClientOK'
        BY <2>3, <3>1, <3>2, <3>5, <3>9 DEF ClientOK
      <3>12. \A s \in Servers : ServerOK(s)'
        <4> SUFFICES ASSUME NEW s \in Servers PROVE ServerOK(s)'
          OBVIOUS
        <4>1. ServerOK(s) /\ UNCHANGED <<sblock, sstate, sfile>>
          BY <2>3 DEF IInv, svars
        <4>2. sstate[s] = "done" => cblock = NBlocks + 1
          BY <2>1, <3>2, <4>1 DEF ServerOK
        <4>3. sstate[s] # "done"
          BY <3>1, <4>2, TftpAssumption
        <4>. QED
          BY <1>s, <2>1, <3>6, <4>1, <4>3 DEF ServerOK
      <3>. QED
        BY <1>0, <3>10, <3>11, <3>12 DEF IInv
    <2>5. CASE ClientResync(p)
      <3>1. Sub(sock') /\ UNCHANGED <<xfer, cblock, got, svars>>
        BY <2>1, <2>3, <2>5 DEF ClientResync
      <3>2. /\ \A x \in net' : x \in net \/ OKNext(x)
            /\ cstate' \in {"wait", "aborted"}
        <4>1. CASE p.block = cblock - 1
          <5>1. ClientSends(AckBuf(p.from), p.from, cblock)
            BY <2>5, <4>1 DEF ClientResync
          <5>2. Mono
            BY <1>0, <1>s, <2>1, <3>1 DEF Mono, TypeOK, svars
          <5>3. OKNext(AckBuf(p.from))
            BY <1>0, <2>1, <2>2, <5>2, AckBufOK, PacketStays
          <5>. QED
            BY <5>1, <5>3, ClientSendsOK
        <4>2. CASE p.block # cblock - 1
          BY <2>1, <2>5, <4>2 DEF ClientResync
        <4>. QED
          BY <4>1, <4>2
      <3>. QED
        BY <1>0, <2>1, <3>1, <3>2, ClientKeeps
    <2>6. CASE ClientError(p)
      <3>1. /\ Sub(sock') /\ UNCHANGED <<xfer, cblock, got, svars>> /\ cstate' = "aborted"
            /\ net' = net \cup {Ack("tftp", p.from, cblock)}
        BY <2>1, <2>3, <2>6 DEF ClientError
      <3>2. OKNext(Ack("tftp", p.from, cblock))
        BY <3>1 DEF OKNext, PacketSays, Ack
      <3>. QED
        BY <1>0, <2>1, <3>1, <3>2, ClientKeeps
    <2>. QED
      BY <1>2, <2>4, <2>5, <2>6 DEF ClientRecv, p
  <1>3. CASE ClientTimer
    <2>1. /\ Sub(sock') /\ UNCHANGED <<xfer, cblock, got, svars>> /\ cstate = "wait"
          /\ cport \in Endpoints
      BY <1>0, <1>e, <1>q, <1>3, AfterAlarmQueues DEF ClientTimer, TypeOK
    <2>2. CASE GivesUp(ctimeout)
      BY <1>0, <1>3, <2>1, <2>2, ClientKeeps DEF ClientTimer
    <2>3. CASE ~GivesUp(ctimeout)
      <3>1. ClientSends(AckBuf(cport), cport, cblock) /\ cstate' \in {"wait", "aborted"}
        BY <1>3, <2>3 DEF ClientTimer, ClientSends
      <3>2. Mono
        BY <1>0, <1>s, <2>1 DEF Mono, TypeOK, svars
      <3>3. OKNext(AckBuf(cport))
        BY <1>0, <2>1, <3>2, AckBufOK, PacketStays
      <3>. QED
        BY <1>0, <2>1, <3>1, <3>3, ClientSendsOK, ClientKeeps
    <2>. QED
      BY <2>2, <2>3
  <1>4. CASE ClientIntr
    BY <1>0, <1>q, <1>4, ClientKeeps DEF ClientIntr, netvars
  <1>. QED
    BY <1>1, <1>2, <1>3, <1>4 DEF Client

\* A server step that leaves its block alone and reads packets.
LEMMA ServerKeeps ==
  ASSUME IInv, TypeOK', Sub(sock'), UNCHANGED <<cvars, sblock>>,
         \A x \in net' : x \in net \/ OKNext(x),
         \A t \in Servers : ServerOK(t)'
  PROVE  IInv'
  <1>1. TypeOK /\ PacketsOK /\ ClientOK
    BY DEF IInv
  <1>2. Len(got) \in Nat /\ \A t \in Servers : sblock[t] \in Nat
    BY <1>1 DEF TypeOK
  <1>3. Mono
    BY <1>2 DEF Mono, cvars
  <1>4. PacketsOK'
    BY <1>1, <1>3, PacketsStay
  <1>5. ClientOK'
    BY <1>1 DEF ClientOK, cvars
  <1>. QED
    BY <1>4, <1>5 DEF IInv

\* What ServerReads adds to the network is right if it is the server's block.
LEMMA ServerReadsOK ==
  ASSUME NEW s \in Servers, NEW n \in Nat \ {0}, NEW f, NEW q \in Queues, Sub(q),
         sblock'[s] = n, f = 1, ServerReads(s, n, f, q)
  PROVE  /\ \A x \in net' : x \in net \/ OKNext(x)
         /\ \E w \in {"wait", "exited"} : sstate' = [sstate EXCEPT ![s] = w]
         /\ Sub(sock')
  <1>1. OKNext(Data(s, "tftp", n, f)) /\ OKNext(Nak(s, "tftp"))
    BY DEF OKNext, PacketSays, Data, Nak
  <1>2. Sub(Emptied(q, s))
    BY EmptiedQueues DEF Endpoints
  <1>3. CASE /\ net' = net \cup {Data(s, "tftp", n, f)}
             /\ sstate' = [sstate EXCEPT ![s] = "wait"] /\ sock' = q
    BY <1>1, <1>3
  <1>4. CASE /\ net' \in {net, net \cup {Nak(s, "tftp")}}
             /\ sstate' = [sstate EXCEPT ![s] = "exited"] /\ sock' = Emptied(q, s)
    BY <1>1, <1>2, <1>4
  <1>. QED
    BY <1>3, <1>4 DEF ServerReads, ServerSends

LEMMA ServerInv == ASSUME NEW s \in Servers PROVE IInv /\ Server(s) => IInv'
  <1> SUFFICES ASSUME IInv, Server(s) PROVE IInv'
    OBVIOUS
  <1>0. TypeOK /\ TypeOK'
    BY ServerType DEF IInv
  <1>e. s \in Endpoints /\ "inetd" \in Endpoints
    BY DEF Endpoints
  <1>q. sock \in Queues /\ Flushed(s) \in Queues /\ Sub(Flushed(s))
    BY <1>0, <1>e, FlushedQueues DEF TypeOK, Queues
  <1>s. /\ sstate \in [Servers -> ServerStates] /\ sblock \in [Servers -> Nat \ {0}]
        /\ sfile \in [Servers -> Nat]
    BY <1>0 DEF TypeOK
  \* Whatever becomes of a server that has not come to its end, if it keeps
  \* its block and serves the file, every server is as it should be.
  <1>k. ASSUME NEW w \in {"wait", "exited", "timedout"},
               sstate' = [sstate EXCEPT ![s] = w], UNCHANGED <<cvars, sblock>>,
               w # "exited" => sfile'[s] = 1,
               \A t \in Servers \ {s} : sfile'[t] = sfile[t]
        PROVE  \A t \in Servers : ServerOK(t)'
    <2> SUFFICES ASSUME NEW t \in Servers PROVE ServerOK(t)'
      OBVIOUS
    <2>1. ServerOK(t)
      BY DEF IInv
    <2>2. CASE t = s
      BY <1>s, <1>k, <2>1, <2>2 DEF ServerOK, cvars
    <2>3. CASE t # s
      BY <1>s, <1>k, <2>1, <2>3 DEF ServerOK, cvars
    <2>. QED
      BY <2>2, <2>3
  <1>1. CASE ServerSpawn(s)
    <2> DEFINE p == Head(sock["inetd"])
    <2>1. PacketOK(p) /\ Popped("inetd") \in Queues /\ Sub(Popped("inetd"))
      BY <1>e, <1>q, <1>1, PoppedQueues DEF ServerSpawn, IInv, PacketsOK
    <2>2. /\ sfile' = [sfile EXCEPT ![s] = p.file]
          /\ UNCHANGED <<cvars, sblock>>
      BY <1>1 DEF ServerSpawn
    <2>3. p.op = "RRQ" => p.file = 1
      BY <2>1 DEF PacketOK, PacketSays
    <2>4. sfile'[s] = p.file /\ \A t \in Servers \ {s} : sfile'[t] = sfile[t]
      BY <1>s, <2>2
    <2> HIDE DEF p
    <2>5. CASE p.op = "RRQ" /\ ServerReads(s, 1, p.file, Popped("inetd"))
      <3>1. sblock'[s] = 1 /\ 1 \in Nat \ {0}
        BY <1>1, <2>2 DEF ServerSpawn, IInv, ServerOK
      <3>2. /\ \A x \in net' : x \in net \/ OKNext(x)
            /\ \E w \in {"wait", "exited"} : sstate' = [sstate EXCEPT ![s] = w]
            /\ Sub(sock')
        BY <2>1, <2>3, <2>5, <3>1, ServerReadsOK
      <3>3. \A t \in Servers : ServerOK(t)'
        BY <1>k, <2>2, <2>3, <2>4, <2>5, <3>2
      <3>. QED
        BY <1>0, <2>2, <3>2, <3>3, ServerKeeps
    <2>6. CASE /\ net' = net \cup {Nak(s, "tftp")} \/ net' = net
               /\ sstate' = [sstate EXCEPT ![s] = "exited"] /\ sock' = Popped("inetd")
      <3>1. OKNext(Nak(s, "tftp"))
        BY DEF OKNext, PacketSays, Nak
      <3>2. \A t \in Servers : ServerOK(t)'
        BY <1>k, <2>2, <2>4, <2>6
      <3>. QED
        BY <1>0, <2>1, <2>2, <2>6, <3>1, <3>2, ServerKeeps
    <2>. QED
      BY <1>1, <2>5, <2>6 DEF ServerSpawn, p
  <1>2. CASE ServerRecv(s)
    <2> DEFINE p == Head(sock[s])
    <2>1. /\ p \in Packets /\ PacketOK(p) /\ Popped(s) \in Queues /\ Sub(Popped(s))
          /\ sstate[s] = "wait" /\ UNCHANGED <<cvars, sfile>>
      BY <1>e, <1>q, <1>2, PoppedQueues DEF ServerRecv, IInv, PacketsOK
    <2>2. sfile[s] = 1 /\ sblock[s] \in 1 .. NBlocks
      BY <2>1 DEF IInv, ServerOK
    <2> HIDE DEF p
    <2>3. CASE ServerAcked(s, p)
      <3>1. cstate # "aborted" => sblock[s] <= Len(got)
        BY <2>1, <2>3, AckExpected DEF ServerAcked
      <3>g. Len(got) \in Nat /\ Len(got) <= NBlocks /\ UNCHANGED <<got, cstate>>
        BY <2>1 DEF IInv, ClientOK, cvars
      <3>2. CASE ~IsLast(sblock[s])
        <4>1. /\ sblock' = [sblock EXCEPT ![s] = @ + 1]
              /\ ServerReads(s, sblock[s] + 1, sfile[s], Popped(s))
          BY <2>3, <3>2 DEF ServerAcked
        <4>2. sblock'[s] = sblock[s] + 1 /\ \A t \in Servers \ {s} : sblock'[t] = sblock[t]
          BY <1>s, <4>1
        <4>3. sblock[s] + 1 \in Nat \ {0} /\ sblock[s] + 1 \in 1 .. NBlocks
          BY <2>2, <3>2, TftpAssumption DEF IsLast
        <4>4. /\ \A x \in net' : x \in net \/ OKNext(x)
              /\ \E w \in {"wait", "exited"} : sstate' = [sstate EXCEPT ![s] = w]
              /\ Sub(sock')
          BY <2>1, <2>2, <4>1, <4>2, <4>3, ServerReadsOK
        <4>5. Mono
          <5>1. ASSUME NEW t \in Servers PROVE sblock[t] <= sblock'[t]
            <6>1. CASE t = s
              BY <2>2, <4>2, <6>1
            <6>2. CASE t # s
              BY <1>s, <4>2, <6>2
            <6>. QED
              BY <6>1, <6>2
          <5>. QED
            BY <3>g, <5>1 DEF Mono
        <4>6. PacketsOK'
          BY <1>0, <4>4, <4>5, PacketsStay DEF IInv
        <4>7. ClientOK'
          BY <2>1 DEF IInv, ClientOK, cvars
        <4>8. ASSUME NEW t \in Servers PROVE ServerOK(t)'
          <5>1. PICK w \in {"wait", "exited"} : sstate' = [sstate EXCEPT ![s] = w]
            BY <4>4
          <5>2. ServerOK(t)
            BY DEF IInv
          <5>3. CASE t = s
            BY <1>s, <2>1, <2>2, <3>1, <3>g, <4>2, <4>3, <5>1, <5>3 DEF ServerOK
          <5>4. CASE t # s
            BY <1>s, <2>1, <3>g, <4>2, <5>1, <5>2, <5>4 DEF ServerOK
          <5>. QED
            BY <5>3, <5>4
        <4>. QED
          BY <1>0, <4>6, <4>7, <4>8 DEF IInv
      <3>3. CASE IsLast(sblock[s])
        <4>1. /\ sstate' = [sstate EXCEPT ![s] = "done"] /\ Sub(sock')
              /\ UNCHANGED <<net, sblock>>
          BY <1>q, <2>3, <3>3 DEF ServerAcked, ServerExits
        <4>2. cstate # "aborted" => Len(got) = NBlocks
          BY <3>1, <3>g, <3>3, TftpAssumption DEF IsLast
        <4>3. \A t \in Servers : ServerOK(t)'
          BY <1>s, <2>1, <2>2, <3>g, <4>1, <4>2 DEF IInv, ServerOK
        <4>. QED
          BY <1>0, <2>1, <4>1, <4>3, ServerKeeps
      <3>. QED
        BY <3>2, <3>3
    <2>4. CASE ServerResync(s, p)
      <3>1. CASE p.block = Wire(sblock[s] - 1)
        <4>1. ServerSends(s, sblock[s], sfile[s], Flushed(s)) /\ UNCHANGED sblock
          BY <2>4, <3>1 DEF ServerResync
        <4>2. sblock'[s] = sblock[s] /\ sblock[s] \in Nat \ {0}
          BY <1>s, <4>1
        <4>3. /\ \A x \in net' : x \in net \/ OKNext(x)
              /\ \E w \in {"wait", "exited"} : sstate' = [sstate EXCEPT ![s] = w]
              /\ Sub(sock')
          BY <1>q, <2>2, <4>1, <4>2, ServerReadsOK DEF ServerReads
        <4>4. \A t \in Servers : ServerOK(t)'
          BY <1>k, <2>1, <2>2, <4>1, <4>3
        <4>. QED
          BY <1>0, <2>1, <4>1, <4>3, <4>4, ServerKeeps
      <3>2. CASE p.block # Wire(sblock[s] - 1)
        <4>1. Sub(sock') /\ UNCHANGED <<net, sstate, sblock>>
          BY <1>q, <2>4, <3>2 DEF ServerResync
        <4>2. \A t \in Servers : ServerOK(t)'
          BY <2>1, <4>1 DEF IInv, ServerOK, cvars
        <4>. QED
          BY <1>0, <2>1, <4>1, <4>2, ServerKeeps
      <3>. QED
        BY <3>1, <3>2
    <2>5. CASE ServerAbort(s, p)
      <3>1. /\ Sub(sock') /\ UNCHANGED <<net, sblock>>
            /\ sstate' = [sstate EXCEPT ![s] = "exited"]
        BY <1>q, <2>5 DEF ServerAbort, ServerExits
      <3>2. \A t \in Servers : ServerOK(t)'
        BY <1>k, <2>1, <3>1
      <3>. QED
        BY <1>0, <2>1, <3>1, <3>2, ServerKeeps
    <2>6. CASE ServerIgnore(s, p)
      <3>1. Sub(sock') /\ UNCHANGED <<net, sstate, sblock>>
        BY <2>1, <2>6 DEF ServerIgnore
      <3>2. \A t \in Servers : ServerOK(t)'
        BY <2>1, <3>1 DEF IInv, ServerOK, cvars
      <3>. QED
        BY <1>0, <2>1, <3>1, <3>2, ServerKeeps
    <2>. QED
      BY <1>2, <2>3, <2>4, <2>5, <2>6 DEF ServerRecv, p
  <1>3. CASE ServerRecvFails(s)
    <2>1. /\ Sub(sock') /\ UNCHANGED <<cvars, sblock, sfile, net>>
          /\ sstate' = [sstate EXCEPT ![s] = "exited"]
      BY <1>q, <1>3 DEF ServerRecvFails, ServerExits
    <2>2. \A t \in Servers : ServerOK(t)'
      BY <1>k, <2>1
    <2>. QED
      BY <1>0, <2>1, <2>2, ServerKeeps
  <1>4. CASE ServerTimer(s)
    <2>1. UNCHANGED <<cvars, sblock, sfile>> /\ sstate[s] = "wait"
      BY <1>4 DEF ServerTimer
    <2>2. sfile[s] = 1 /\ sblock'[s] = sblock[s] /\ sblock[s] \in Nat \ {0}
      BY <1>s, <2>1 DEF IInv, ServerOK
    <2>3. CASE GivesUp(stimeout[s])
      <3>1. /\ Sub(sock') /\ UNCHANGED net
            /\ sstate' = [sstate EXCEPT ![s] = "timedout"]
        BY <1>q, <1>4, <2>3 DEF ServerTimer, ServerExits
      <3>2. \A t \in Servers : ServerOK(t)'
        BY <1>k, <2>1, <2>2, <3>1
      <3>. QED
        BY <1>0, <2>1, <3>1, <3>2, ServerKeeps
    <2>4. CASE ~GivesUp(stimeout[s])
      <3>1. PICK q \in AfterAlarm(s) : ServerSends(s, sblock[s], sfile[s], q)
        BY <1>4, <2>4 DEF ServerTimer
      <3>2. q \in Queues /\ Sub(q)
        BY <1>e, <1>q, AfterAlarmQueues
      <3>3. /\ \A x \in net' : x \in net \/ OKNext(x)
            /\ \E w \in {"wait", "exited"} : sstate' = [sstate EXCEPT ![s] = w]
            /\ Sub(sock')
        BY <2>2, <3>1, <3>2, ServerReadsOK DEF ServerReads
      <3>4. \A t \in Servers : ServerOK(t)'
        BY <1>k, <2>1, <2>2, <3>3
      <3>. QED
        BY <1>0, <2>1, <3>3, <3>4, ServerKeeps
    <2>. QED
      BY <2>3, <2>4
  <1>. QED
    BY <1>1, <1>2, <1>3, <1>4 DEF Server

-----------------------------------------------------------------------------
(* The theorems about one transfer.                                        *)

LEMMA Invariance == ASSUME Transfers = 1 PROVE Spec => []IInv
  <1>1. Init => IInv
    <2>1. Init => TypeOK
      <3>1. \A e \in Endpoints : <<>> \in Seq(Packets)
        OBVIOUS
      <3>. QED
        BY <3>1 DEF Init, NetInit, TypeOK, ClientStates, ServerStates, Endpoints
    <2>2. Init => PacketsOK
      BY DEF Init, NetInit, PacketsOK
    <2>3. Init => ClientOK
      BY TftpAssumption DEF Init, ClientOK
    <2>4. Init => \A s \in Servers : ServerOK(s)
      BY TftpAssumption DEF Init, ServerOK
    <2>. QED
      BY <2>1, <2>2, <2>3, <2>4 DEF IInv
  <1>2. IInv /\ [Next]_vars => IInv'
    <2> SUFFICES ASSUME IInv, [Next]_vars PROVE IInv'
      OBVIOUS
    <2>1. CASE UNCHANGED vars
      <3>1. TypeOK'
        BY <2>1 DEF IInv, TypeOK, vars, netvars, cvars, svars
      <3>2. PacketsOK'
        BY <2>1 DEF IInv, PacketsOK, PacketOK, vars, netvars, cvars, svars
      <3>3. ClientOK' /\ \A s \in Servers : ServerOK(s)'
        BY <2>1 DEF IInv, ClientOK, ServerOK, vars, cvars, svars
      <3>. QED
        BY <3>1, <3>2, <3>3 DEF IInv
    <2>2. CASE Next
      BY <2>2, NetworkInv, ClientInv, ServerInv DEF Next
    <2>. QED
      BY <2>1, <2>2
  <1>. QED
    BY <1>1, <1>2, PTL DEF Spec

\* In one "get" the client's file is at every moment the first segments of
\* the file asked for, in order and without repetition, with any number of
\* servers answering and any loss, delay, duplication or I/O error.
THEOREM InOrderCorrect == ASSUME Transfers = 1 PROVE Spec => []InOrder
  <1>1. IInv => InOrder
    <2>1. ASSUME IInv, NEW i \in 1 .. Len(got) PROVE got[i] = [seg |-> i, file |-> xfer]
      <3>1. xfer = 1
        <4>1. xfer = 0 => Len(got) = 0
          BY <2>1 DEF IInv, ClientOK
        <4>. QED
          BY <2>1, <4>1 DEF IInv, ClientOK
      <3>. QED
        BY <2>1, <3>1 DEF IInv, ClientOK
    <2>. QED
      BY <2>1 DEF InOrder
  <1>. QED
    BY <1>1, Invariance, PTL

\* A "get" that comes to its normal end has the whole file; none does for a
\* file whose last block number does not fit into th_block.
THEOREM DoneCorrect == ASSUME Transfers = 1 PROVE Spec => []DoneMeansComplete
  <1>1. IInv => DoneMeansComplete
    BY DEF IInv, ClientOK, DoneMeansComplete
  <1>. QED
    BY <1>1, Invariance, PTL

\* A server that has seen its last block acknowledged is right to think that
\* the client has the whole file, unless the client left through "abort".
THEOREM ServerDoneCorrect ==
  ASSUME Transfers = 1 PROVE Spec => []ServerDoneMeansDelivered
  <1>1. IInv => ServerDoneMeansDelivered
    BY DEF IInv, ServerOK, ServerDoneMeansDelivered
  <1>. QED
    BY <1>1, Invariance, PTL

-----------------------------------------------------------------------------
(* The refinement of FileTransfer.                                         *)

\* The three results, by the client's state.
LEMMA Results ==
  ASSUME cstate \in ClientStates
  PROVE  /\ Result = "complete" <=> cstate = "done"
         /\ Result = "running" <=> cstate \in {"idle", "wait"}
         /\ Result = "failed" <=> cstate \notin {"idle", "wait", "done"}
         /\ Result \in {"complete", "running", "failed"}
  BY DEF Result, ClientStates

\* A server never takes its belief back, and comes to it with good reason.
LEMMA ServerReports ==
  ASSUME NEW s \in Servers, IInv, IInv', Server(s)
  PROVE  UNCHANGED <<File, Result>> /\ (Sent' = Sent \/ Abstract!ReportSent)
  <1>1. UNCHANGED cvars
    BY DEF Server, ServerSpawn, ServerRecv, ServerRecvFails, ServerTimer
  <1>2. UNCHANGED <<File, Result>>
    BY <1>1 DEF cvars, File, Result
  <1>3. \E w \in ServerStates : sstate' = [sstate EXCEPT ![s] = w] \/ sstate' = sstate
    BY DEF Server, ServerSpawn, ServerRecv, ServerRecvFails, ServerTimer, ServerAcked,
           ServerResync, ServerAbort, ServerIgnore, ServerReads, ServerSends, ServerExits,
           ServerStates
  <1>4. sstate[s] \in {"none", "wait"}
    BY DEF Server, ServerSpawn, ServerRecv, ServerRecvFails, ServerTimer
  <1>5. sstate \in [Servers -> ServerStates]
    BY DEF IInv, TypeOK
  <1>6. Sent => Sent'
    BY <1>3, <1>4, <1>5 DEF Sent
  <1>7. ASSUME ~Sent, Sent' PROVE Abstract!ReportSent
    <2>1. PICK t \in Servers : sstate'[t] = "done"
      BY <1>7 DEF Sent
    <2>2. cstate' # "aborted" => Len(got') = NBlocks
      BY <2>1 DEF IInv, ServerOK
    <2>3. cstate \in ClientStates /\ Len(got) \in Nat
      BY DEF IInv, TypeOK
    <2>4. Len(File) = Len(got)
      BY <2>3 DEF File
    <2>5. Len(File) = NBlocks \/ Result = "failed"
      BY <1>1, <2>2, <2>3, <2>4, Results DEF cvars
    <2>6. (\E x \in Servers : sstate'[x] = "done") = TRUE
      BY <2>1
    <2>. QED
      BY <1>2, <2>5, <2>6 DEF Abstract!ReportSent, Sent
  <1>. QED
    BY <1>2, <1>6, <1>7 DEF Sent

\* A client step that stores nothing is a failure or changes nothing.
LEMMA ClientFails ==
  ASSUME cstate \in ClientStates, cstate' \in ClientStates,
         cstate \in {"idle", "wait"}, cstate' # "done", cstate' # "idle",
         UNCHANGED <<got, svars>>
  PROVE  [Abstract!Next]_(Abstract!vars)
  <1>1. UNCHANGED <<File, Sent>>
    BY DEF File, Sent, svars
  <1>2. Result = "running" /\ Result' \in {"running", "failed"}
    BY DEF Result, ClientStates
  <1>. QED
    BY <1>1, <1>2 DEF Abstract!Next, Abstract!Fail, Abstract!vars


\* Every client step is a step of the abstract transfer, or none.
LEMMA ClientImplements ==
  ASSUME Transfers = 1, IInv, IInv', Client
  PROVE  [Abstract!Next]_(Abstract!vars)
  <1>0. cstate \in ClientStates /\ cstate' \in ClientStates
    BY DEF IInv, TypeOK
  <1>1. CASE ClientGet
    <2>1. xfer = 0 /\ cstate = "idle" /\ got = <<>> /\ got' = <<>> /\ UNCHANGED svars
      BY <1>1 DEF ClientGet, IInv, ClientOK
    <2>2. cstate' \in {"wait", "aborted"}
      BY <1>1 DEF ClientGet, ClientSends
    <2>. QED
      BY <1>0, <2>1, <2>2, ClientFails
  <1>2. CASE ClientRecv
    <2> DEFINE p == Head(sock["tftp"])
    <2>1. p \in Packets /\ PacketOK(p) /\ cstate = "wait" /\ UNCHANGED <<xfer, svars>>
      <3>1. "tftp" \in Endpoints /\ sock \in Queues
        BY DEF Endpoints, IInv, TypeOK, Queues
      <3>. QED
        BY <1>2, <3>1, PoppedQueues DEF ClientRecv, IInv, PacketsOK
    <2> HIDE DEF p
    <2>2. CASE ClientAccept(p)
      <3>1. p.seg = cblock /\ cblock <= NBlocks
        BY <2>1, <2>2, DataExpected DEF ClientAccept
      <3>2. /\ got \in Seq([seg: Nat, file: Nat]) /\ cblock = Len(got) + 1
            /\ \A i \in 1 .. Len(got) : got[i] = [seg |-> i, file |-> 1]
        BY <2>1 DEF IInv, ClientOK
      <3>3. /\ got' = Append(got, [seg |-> cblock, file |-> p.file])
            /\ got' \in Seq([seg: Nat, file: Nat])
        BY <2>2, <3>1 DEF ClientAccept, IInv, ClientOK
      <3>4. Len(got) \in Nat /\ Len(got') = Len(got) + 1
        BY <3>2, <3>3
      <3>5. File \in Seq(Nat) /\ Len(File) = Len(got)
        <4>1. ASSUME NEW i \in 1 .. Len(got) PROVE got[i].seg \in Nat
          <5>1. got[i] = [seg |-> i, file |-> 1] /\ i \in Nat
            BY <3>2, <3>4
          <5>. QED
            BY <5>1
        <4>. QED
          BY <3>4, <4>1 DEF File
      <3>6. File' = Append(File, Len(File) + 1)
        <4>1. Append(File, Len(File) + 1) =
                [i \in 1 .. Len(got) + 1 |-> IF i <= Len(got) THEN File[i] ELSE Len(got) + 1]
          BY <3>4, <3>5
        <4>2. ASSUME NEW i \in 1 .. Len(got) + 1
              PROVE  got'[i].seg = IF i <= Len(got) THEN File[i] ELSE Len(got) + 1
          <5>1. CASE i <= Len(got)
            <6>1. i \in 1 .. Len(got) /\ got'[i] = got[i]
              BY <3>2, <3>3, <3>4, <5>1
            <6>. QED
              BY <5>1, <6>1 DEF File
          <5>2. CASE i = Len(got) + 1
            BY <3>2, <3>3, <3>4, <5>2
          <5>. QED
            BY <3>4, <5>1, <5>2
        <4>. QED
          BY <3>4, <4>1, <4>2 DEF File
      <3>7. \/ Len(got) + 1 = NBlocks /\ cstate' = "done"
            \/ Len(got) + 1 # NBlocks /\ cstate' \in {"wait", "aborted"}
        BY <2>2, <3>1, <3>2 DEF ClientAccept, ClientSends, IsLast
      <3>8. Sent' = Sent
        BY <2>1 DEF Sent, svars
      <3>9. /\ Result = "running"
            /\ \/ Len(File) + 1 = NBlocks /\ Result' = "complete"
               \/ Len(File) + 1 # NBlocks /\ Result' \in {"running", "failed"}
        BY <2>1, <3>5, <3>7 DEF Result
      <3>10. Len(File) < NBlocks
        BY <3>1, <3>2, <3>4, <3>5, TftpAssumption
      <3>. QED
        BY <3>6, <3>8, <3>9, <3>10 DEF Abstract!Next, Abstract!Store
    <2>3. CASE ClientResync(p)
      <3>1. cstate' \in {"wait", "aborted"} /\ UNCHANGED got
        BY <2>1, <2>3 DEF ClientResync, ClientSends
      <3>. QED
        BY <1>0, <2>1, <3>1, ClientFails
    <2>4. CASE ClientError(p)
      BY <1>0, <2>1, <2>4, ClientFails DEF ClientError
    <2>. QED
      BY <1>2, <2>2, <2>3, <2>4 DEF ClientRecv, p
  <1>3. CASE ClientTimer
    <2>1. /\ cstate = "wait" /\ cstate' \in {"wait", "aborted", "timedout"}
          /\ UNCHANGED <<got, svars>>
      BY <1>3 DEF ClientTimer, ClientSends
    <2>. QED
      BY <1>0, <2>1, ClientFails
  <1>4. CASE ClientIntr
    BY <1>0, <1>4, ClientFails DEF ClientIntr
  <1>. QED
    BY <1>1, <1>2, <1>3, <1>4 DEF Client

\* One "get" with any number of servers implements the abstract transfer: what
\* recvfile() stores, how it ends, and when a send_file() comes to its end.
THEOREM Refinement == ASSUME Transfers = 1 PROVE Spec => ImplementsFileTransfer
  <1>1. Init => Abstract!Init
    <2> SUFFICES ASSUME Init PROVE Abstract!Init
      OBVIOUS
    <2>1. File = <<>>
      BY DEF Init, File
    <2>2. Result = "running" /\ Sent = FALSE
      BY DEF Init, Result, Sent
    <2>. QED
      BY <2>1, <2>2 DEF Abstract!Init
  <1>2. IInv /\ IInv' /\ [Next]_vars => [Abstract!Next]_(Abstract!vars)
    <2> SUFFICES ASSUME IInv, IInv', [Next]_vars PROVE [Abstract!Next]_(Abstract!vars)
      OBVIOUS
    <2>1. CASE Network \/ UNCHANGED vars
      <3>1. UNCHANGED <<cvars, svars>>
        BY <2>1 DEF Network, vars
      <3>2. UNCHANGED <<File, Result, Sent>>
        BY <3>1 DEF File, Result, Sent, cvars, svars
      <3>. QED
        BY <3>2 DEF Abstract!vars
    <2>2. CASE Client
      BY <2>2, ClientImplements
    <2>3. CASE \E s \in Servers : Server(s)
      BY <2>3, ServerReports DEF Abstract!Next, Abstract!vars
    <2>. QED
      BY <2>1, <2>2, <2>3 DEF Next
  <1>. QED
    BY <1>1, <1>2, Invariance, PTL DEF Spec, ImplementsFileTransfer, Abstract!Spec
=============================================================================
