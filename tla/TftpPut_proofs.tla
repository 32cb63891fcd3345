---------------------------- MODULE TftpPut_proofs ----------------------------
(***************************************************************************)
(* Proofs about TftpPut, for any number of servers, any file, any block    *)
(* number modulus, any timer values and any number of duplicates.          *)
(***************************************************************************)
EXTENDS TftpPut, Tftp_proofs

-----------------------------------------------------------------------------
(* The inductive invariant.                                                *)

\* What a packet on its way says about the processes.  DATA is a segment that
\* the client has read, under its number; an ACK is of a block that its server
\* has accepted.
PacketSays(p, cb, ss, sb) ==
    /\ p.op = "DATA" => p.seg \in 1 .. cb /\ p.seg <= NBlocks /\ p.block = Wire(p.seg)
    /\ p.op = "ACK" => /\ p.from \in Servers /\ ss[p.from] # "none"
                       /\ \/ p.block < sb[p.from]
                          \/ p.block = NBlocks /\ ss[p.from] \in {"dally", "done"}

PacketOK(p) == PacketSays(p, cblock, sstate, sblock)
OKNext(p)   == PacketSays(p, cblock', sstate', sblock')

PacketsOK ==
    /\ \A p \in net : PacketOK(p)
    /\ \A e \in Endpoints : \A i \in 1 .. Len(sock[e]) : PacketOK(sock[e][i])

\* The client is past blocks that some server has accepted, and has not come
\* past the last one unless it is done; its block stays at the modulus at most.
ClientOK ==
    /\ cblock <= BlockMod
    /\ cstate # "done" => cblock <= NBlocks
    /\ cstate = "idle" => cblock = 0
    /\ AckedMeansAccepted

\* A server that has not accepted a block is at block 1.
ServerOK(s) ==
    /\ sblock[s] <= BlockMod
    /\ sstate[s] = "none" => sblock[s] = 1

IInv == TypeOK /\ PacketsOK /\ ClientOK /\ \A s \in Servers : ServerOK(s)

\* A step that takes nothing back.
Mono == /\ cblock <= cblock'
        /\ \A s \in Servers :
              /\ sblock[s] <= sblock'[s]
              /\ sstate[s] # "none" => sstate'[s] # "none"
              /\ sstate[s] \in {"dally", "done"} => sstate'[s] \in {"dally", "done"}

-----------------------------------------------------------------------------
(* What a packet says stays true.                                          *)

LEMMA PacketStays ==
  ASSUME TypeOK, TypeOK', Mono
  PROVE  \A p \in Packets : PacketOK(p) => OKNext(p)
  <1> SUFFICES ASSUME NEW p \in Packets, PacketOK(p) PROVE OKNext(p)
    OBVIOUS
  <1>1. CASE p.op = "DATA"
    <2>1. cblock \in Nat /\ cblock' \in Nat /\ cblock <= cblock'
      BY TftpAssumption DEF TypeOK, Mono
    <2>2. p.seg \in Nat
      BY DEF Packets
    <2>. QED
      BY <1>1, <2>1, <2>2 DEF PacketOK, OKNext, PacketSays
  <1>2. CASE p.op = "ACK"
    <2>1. p.from \in Servers
      BY <1>2 DEF PacketOK, PacketSays
    <2>2. /\ sblock[p.from] \in Int /\ sblock'[p.from] \in Int
          /\ sblock[p.from] <= sblock'[p.from]
      BY <2>1 DEF TypeOK, Mono
    <2>3. p.block \in Int
      BY TftpAssumption DEF Packets
    <2>. QED
      BY <1>2, <2>1, <2>2, <2>3 DEF PacketOK, OKNext, PacketSays, Mono
  <1>3. CASE p.op # "DATA" /\ p.op # "ACK"
    BY <1>3 DEF PacketOK, OKNext, PacketSays
  <1>. QED
    BY <1>1, <1>2, <1>3

\* A step of a process, which reads packets and sends packets that are right.
LEMMA PacketsStay ==
  ASSUME TypeOK, TypeOK', Mono, PacketsOK, Sub(sock'),
         \A p \in net' : p \in net \/ OKNext(p)
  PROVE  PacketsOK'
  <1>1. ASSUME NEW p \in net' PROVE OKNext(p)
    BY <1>1, PacketStays DEF PacketsOK, TypeOK
  <1>2. ASSUME NEW e \in Endpoints, NEW i \in 1 .. Len(sock'[e])
        PROVE  OKNext(sock'[e][i])
    <2>1. PICK j \in 1 .. Len(sock[e]) : sock'[e][i] = sock[e][j]
      BY <1>2 DEF Sub
    <2>2. PacketOK(sock[e][j])
      BY <2>1 DEF PacketsOK
    <2>3. sock[e][j] \in Packets
      BY <2>1 DEF TypeOK
    <2>. QED
      BY <2>1, <2>2, <2>3, PacketStays
  <1>. QED
    BY <1>1, <1>2 DEF PacketsOK, PacketOK, OKNext

\* The client's belief stays true as long as the client does nothing.
LEMMA BeliefStays ==
  ASSUME TypeOK, TypeOK', Mono, AckedMeansAccepted, UNCHANGED cvars
  PROVE  AckedMeansAccepted'
  <1>0. UNCHANGED <<cstate, cblock>> /\ cblock \in Int
    BY DEF cvars, TypeOK
  <1>1. CASE cstate = "done"
    <2>1. PICK s \in Servers : sstate[s] \in {"dally", "done"}
      BY <1>1 DEF AckedMeansAccepted
    <2>2. sstate'[s] \in {"dally", "done"}
      BY <2>1 DEF Mono
    <2>. QED
      BY <1>0, <1>1, <2>2 DEF AckedMeansAccepted
  <1>2. CASE cstate # "done" /\ cblock > 0
    <2>1. PICK s \in Servers : sstate[s] # "none" /\ sblock[s] >= cblock
      BY <1>2 DEF AckedMeansAccepted
    <2>2. sblock[s] \in Int /\ sblock'[s] \in Int
      BY DEF TypeOK
    <2>3. sstate'[s] # "none" /\ sblock'[s] >= cblock
      BY <1>0, <2>1, <2>2 DEF Mono
    <2>. QED
      BY <1>0, <1>2, <2>3 DEF AckedMeansAccepted
  <1>3. CASE cstate # "done" /\ ~(cblock > 0)
    BY <1>0, <1>3 DEF AckedMeansAccepted
  <1>. QED
    BY <1>1, <1>2, <1>3

-----------------------------------------------------------------------------
(* The network's steps.                                                    *)

LEMMA NetworkInv == IInv /\ Network => IInv'
  <1> SUFFICES ASSUME IInv, Network PROVE IInv'
    OBVIOUS
  <1>1. PICK p \in net : Deliver(p) \/ Lose(p)
    BY DEF Network
  <1>2. p \in Packets /\ p.to \in Endpoints /\ PacketOK(p)
    BY DEF TypeOK, Packets, IInv, PacketsOK
  <1>u. UNCHANGED <<cvars, svars>>
    BY DEF Network
  <1>3. TypeOK'
    <2>1. net' \subseteq Packets /\ dups' \in Nat
      BY <1>1 DEF IInv, TypeOK, Deliver, Lose
    <2>2. sock' \in Queues
      <3>1. sock[p.to] \in Seq(Packets) /\ Append(sock[p.to], p) \in Seq(Packets)
        BY <1>2 DEF IInv, TypeOK
      <3>. QED
        BY <1>1, <1>2, <3>1 DEF IInv, TypeOK, Deliver, Lose, Queues
    <2>. QED
      BY <1>u, <2>1, <2>2 DEF IInv, TypeOK, cvars, svars, Queues
  <1>4. Mono
    <2>1. cblock \in Int /\ \A s \in Servers : sblock[s] \in Int
      BY DEF IInv, TypeOK
    <2>. QED
      BY <1>u, <2>1 DEF Mono, cvars, svars
  <1>5. ASSUME NEW e \in Endpoints, NEW i \in 1 .. Len(sock'[e])
        PROVE  OKNext(sock'[e][i])
    <2>1. sock[e] \in Seq(Packets)
      BY DEF IInv, TypeOK
    <2>2. sock'[e] = sock[e] \/ sock'[e] = Append(sock[e], p)
      BY <1>1 DEF Deliver, Lose, IInv, TypeOK
    <2>3. sock'[e][i] = p \/ (i \in 1 .. Len(sock[e]) /\ sock'[e][i] = sock[e][i])
      BY <1>5, <2>1, <2>2
    <2>4. PacketOK(sock'[e][i]) /\ sock'[e][i] \in Packets
      BY <1>2, <2>1, <2>3 DEF IInv, PacketsOK
    <2>. QED
      BY <1>3, <1>4, <2>4, PacketStays DEF IInv
  <1>6. \A x \in net' : OKNext(x)
    <2>1. net' \subseteq net /\ net \subseteq Packets
      BY <1>1 DEF Deliver, Lose, IInv, TypeOK
    <2>. QED
      BY <1>3, <1>4, <2>1, PacketStays DEF IInv, PacketsOK
  <1>7. PacketsOK'
    BY <1>5, <1>6 DEF PacketsOK, PacketOK, OKNext
  <1>8. ClientOK'
    BY <1>u, <1>3, <1>4, BeliefStays DEF IInv, ClientOK, cvars
  <1>9. \A s \in Servers : ServerOK(s)'
    BY <1>u DEF IInv, ServerOK, svars
  <1>. QED
    BY <1>3, <1>7, <1>8, <1>9 DEF IInv

-----------------------------------------------------------------------------
(* The client's steps.                                                     *)

\* What send_file() sends is a block it has read; the send may fail.
LEMMA ClientSendsOK ==
  ASSUME IInv, NEW dst \in Endpoints, NEW n \in 0 .. NBlocks,
         n <= cblock', cblock' \in Nat, ClientSends(dst, n)
  PROVE  /\ net' \subseteq Packets
         /\ \A x \in net' : x \in net \/ OKNext(x)
         /\ cstate' \in {"wait", "aborted"}
  <1>0. n \in Nat /\ 1 \in Nat /\ "tftp" \in Endpoints
    BY TftpAssumption DEF Endpoints
  <1>1. Outgoing(dst, n) \in Packets
    BY <1>0, PacketTypes DEF Outgoing
  <1>2. OKNext(Outgoing(dst, n))
    <2>1. CASE n = 0
      BY <2>1 DEF Outgoing, Request, OKNext, PacketSays
    <2>2. CASE n # 0
      <3>1. n \in 1 .. cblock' /\ n <= NBlocks
        BY <1>0, <2>2, TftpAssumption
      <3>. QED
        BY <2>2, <3>1 DEF Outgoing, Data, OKNext, PacketSays
    <2>. QED
      BY <2>1, <2>2
  <1>. QED
    BY <1>1, <1>2 DEF ClientSends, IInv, TypeOK

\* A client step that stays at its block.
LEMMA ClientKeeps ==
  ASSUME IInv, cstate \in {"idle", "wait"}, cstate' \in ClientStates \ {"idle", "done"},
         sock' \in Queues, Sub(sock'), net' \subseteq Packets,
         \A x \in net' : x \in net \/ OKNext(x),
         ctimeout' \in Nat, cport' \in Endpoints, sigblocked' \subseteq {"SIGALRM", "SIGINT"},
         UNCHANGED <<dups, cblock, svars>>
  PROVE  IInv'
  <1>1. TypeOK /\ TypeOK'
    BY DEF IInv, TypeOK, Queues, svars
  <1>2. Mono
    <2>1. cblock \in Int /\ \A s \in Servers : sblock[s] \in Int
      BY <1>1 DEF TypeOK
    <2>. QED
      BY <2>1 DEF Mono, svars
  <1>3. PacketsOK'
    BY <1>1, <1>2, PacketsStay DEF IInv
  <1>4. ClientOK'
    BY DEF IInv, ClientOK, AckedMeansAccepted, svars
  <1>5. \A s \in Servers : ServerOK(s)'
    BY DEF IInv, ServerOK, svars
  <1>. QED
    BY <1>1, <1>3, <1>4, <1>5 DEF IInv

\* The ACK of the client's block is one that its sender really gave; with the
\* last block's the sender is through.
LEMMA AckExpected ==
  ASSUME IInv, cstate = "wait", NEW p \in Packets, PacketOK(p), p.op = "ACK",
         ClientExpects(p)
  PROVE  /\ cblock < BlockMod /\ p.from \in Servers /\ sstate[p.from] # "none"
         /\ cblock # NBlocks => sblock[p.from] >= cblock + 1
         /\ cblock = NBlocks => sstate[p.from] \in {"dally", "done"}
  <1>1. /\ p.from \in Servers /\ sstate[p.from] # "none"
        /\ \/ p.block < sblock[p.from]
           \/ p.block = NBlocks /\ sstate[p.from] \in {"dally", "done"}
    BY DEF PacketOK, PacketSays
  <1>2. sblock[p.from] \in 1 .. NBlocks /\ cblock \in Int
    BY <1>1 DEF IInv, TypeOK
  <1>3. p.block = cblock /\ p.block \in 0 .. BlockMod - 1
    BY DEF ClientExpects, Packets
  <1>. QED
    BY <1>1, <1>2, <1>3, TftpAssumption

LEMMA ClientInv == IInv /\ Client => IInv'
  <1> SUFFICES ASSUME IInv, Client PROVE IInv'
    OBVIOUS
  <1>e. "tftp" \in Endpoints /\ "inetd" \in Endpoints
    BY DEF Endpoints
  <1>q. sock \in Queues /\ Sub(sock)
    BY DEF IInv, TypeOK, Queues, Sub
  <1>t. /\ cblock \in Nat /\ ctimeout \in Nat /\ cport \in Endpoints /\ net \subseteq Packets
        /\ sigblocked \subseteq {"SIGALRM", "SIGINT"}
    BY TftpAssumption DEF IInv, TypeOK
  <1>1. CASE ClientPut
    <2>1. cblock = 0 /\ cstate = "idle" /\ 0 \in 0 .. NBlocks
      BY <1>1, TftpAssumption DEF ClientPut, IInv, ClientOK
    <2>2. ClientSends("inetd", 0) /\ UNCHANGED <<sock, dups, cblock, ctimeout, cport, sigblocked, svars>>
      BY <1>1 DEF ClientPut
    <2>3. /\ net' \subseteq Packets
          /\ \A x \in net' : x \in net \/ OKNext(x)
          /\ cstate' \in {"wait", "aborted"}
      BY <1>e, <2>1, <2>2, ClientSendsOK
    <2>. QED
      BY <1>q, <1>t, <2>1, <2>2, <2>3, ClientKeeps DEF ClientStates
  <1>2. CASE ClientRecv
    <2> DEFINE p == Head(sock["tftp"])
    <2>1. /\ p \in Packets /\ PacketOK(p) /\ cstate = "wait"
          /\ Popped("tftp") \in Queues /\ Sub(Popped("tftp"))
          /\ Flushed("tftp") \in Queues /\ Sub(Flushed("tftp"))
      BY <1>e, <1>q, <1>2, PoppedQueues, FlushedQueues DEF ClientRecv, IInv, PacketsOK
    <2>2. p.from \in Endpoints
      BY <2>1 DEF Packets
    <2>3. cport' = p.from /\ UNCHANGED <<dups, sigblocked, svars>>
      BY <1>2 DEF ClientRecv
    <2>c. cblock <= NBlocks
      BY <2>1 DEF IInv, ClientOK
    <2> HIDE DEF p
    <2>4. CASE ClientAcked(p)
      <3>1. /\ cblock < BlockMod /\ p.from \in Servers /\ sstate[p.from] # "none"
            /\ cblock # NBlocks => sblock[p.from] >= cblock + 1
            /\ cblock = NBlocks => sstate[p.from] \in {"dally", "done"}
        BY <2>1, <2>4, AckExpected DEF ClientAcked
      <3>2. sock' = Popped("tftp") /\ cblock' = cblock + 1 /\ ctimeout' = 0
        BY <2>4 DEF ClientAcked
      <3>3. /\ net' \subseteq Packets
            /\ \A x \in net' : x \in net \/ OKNext(x)
            /\ \/ cblock # NBlocks /\ cstate' \in {"wait", "aborted"}
               \/ cblock = NBlocks /\ cstate' = "done"
        <4>1. CASE ~IsLast(cblock) /\ ClientSends(p.from, cblock + 1)
          <5>1. cblock # NBlocks /\ cblock + 1 \in 0 .. NBlocks /\ cblock' \in Nat /\ cblock + 1 <= cblock'
            BY <1>t, <2>c, <3>2, <4>1, TftpAssumption DEF IsLast
          <5>. QED
            BY <2>2, <4>1, <5>1, ClientSendsOK
        <4>2. CASE /\ ~IsLast(cblock) /\ IoErrors
                   /\ net' = net \cup {Nak("tftp", p.from)} /\ cstate' = "aborted"
          <5>1. Nak("tftp", p.from) \in Packets
            BY <1>e, <2>2, PacketTypes, 0 \in Nat
          <5>2. OKNext(Nak("tftp", p.from))
            BY DEF OKNext, PacketSays, Nak
          <5>. QED
            BY <1>t, <4>2, <5>1, <5>2 DEF IsLast
        <4>3. CASE IsLast(cblock) /\ UNCHANGED net /\ cstate' = "done"
          BY <1>t, <4>3 DEF IsLast
        <4>. QED
          BY <2>4, <4>1, <4>2, <4>3 DEF ClientAcked
      <3>4. TypeOK'
        <4>1. cblock' \in 0 .. NBlocks + 1 /\ cstate' \in ClientStates
          BY <1>t, <2>c, <3>2, <3>3, TftpAssumption DEF ClientStates
        <4>. QED
          BY <1>t, <2>1, <2>2, <2>3, <3>2, <3>3, <4>1 DEF IInv, TypeOK, svars, Queues
      <3>5. Mono
        <4>1. \A s \in Servers : sblock[s] \in Int
          BY DEF IInv, TypeOK
        <4>. QED
          BY <1>t, <2>3, <3>2, <4>1 DEF Mono, svars
      <3>6. PacketsOK'
        BY <2>1, <3>2, <3>3, <3>4, <3>5, PacketsStay DEF IInv
      <3>7. AckedMeansAccepted'
        <4>1. UNCHANGED <<sstate, sblock>>
          BY <2>3 DEF svars
        <4>2. CASE cblock = NBlocks /\ cstate' = "done"
          BY <3>1, <4>1, <4>2 DEF AckedMeansAccepted
        <4>3. CASE cblock # NBlocks /\ cstate' \in {"wait", "aborted"}
          <5>1. sstate'[p.from] # "none" /\ sblock'[p.from] >= cblock'
            BY <3>1, <3>2, <4>1, <4>3
          <5>. QED
            BY <3>1, <4>3, <5>1 DEF AckedMeansAccepted
        <4>. QED
          BY <3>3, <4>2, <4>3
      <3>8. ClientOK'
        <4>1. cblock' <= BlockMod
          BY <1>t, <3>1, <3>2, TftpAssumption
        <4>2. cstate' # "done" => cblock' <= NBlocks
          BY <1>t, <2>c, <3>2, <3>3, TftpAssumption
        <4>. QED
          BY <3>3, <3>7, <4>1, <4>2 DEF ClientOK
      <3>9. \A s \in Servers : ServerOK(s)'
        BY <2>3 DEF IInv, ServerOK, svars
      <3>. QED
        BY <3>4, <3>6, <3>8, <3>9 DEF IInv
    <2>5. CASE ClientResync(p)
      <3>1. sock' \in Queues /\ Sub(sock') /\ UNCHANGED <<cblock, ctimeout>>
        BY <2>1, <2>5 DEF ClientResync
      <3>2. /\ net' \subseteq Packets
            /\ \A x \in net' : x \in net \/ OKNext(x)
            /\ cstate' \in {"wait", "aborted"}
        <4>1. CASE p.block = cblock - 1
          <5>1. ClientSends(p.from, cblock)
            BY <2>5, <4>1 DEF ClientResync
          <5>2. cblock \in 0 .. NBlocks /\ cblock <= cblock' /\ cblock' \in Nat
            BY <1>t, <2>c, <3>1, TftpAssumption
          <5>. QED
            BY <2>2, <5>1, <5>2, ClientSendsOK
        <4>2. CASE p.block # cblock - 1
          BY <1>t, <2>1, <2>5, <4>2 DEF ClientResync
        <4>. QED
          BY <4>1, <4>2
      <3>. QED
        BY <1>t, <2>1, <2>2, <2>3, <3>1, <3>2, ClientKeeps DEF ClientStates
    <2>6. CASE ClientError(p)
      <3>1. /\ sock' \in Queues /\ Sub(sock') /\ UNCHANGED <<net, cblock, ctimeout>>
            /\ cstate' = "aborted"
        BY <2>1, <2>6 DEF ClientError
      <3>. QED
        BY <1>t, <2>1, <2>2, <2>3, <3>1, ClientKeeps DEF ClientStates
    <2>. QED
      BY <1>2, <2>4, <2>5, <2>6 DEF ClientRecv, p
  <1>3. CASE ClientTimer
    <2>1. sock' \in Queues /\ Sub(sock')
      BY <1>e, <1>q, <1>3, AfterAlarmQueues DEF ClientTimer
    <2>2. /\ cstate = "wait" /\ UNCHANGED <<dups, cblock, cport, svars>>
          /\ sigblocked' \subseteq {"SIGALRM", "SIGINT"}
      BY <1>t, <1>3 DEF ClientTimer
    <2>3. ctimeout' \in Nat
      BY <1>t, <1>3, TftpAssumption DEF ClientTimer, Elapsed
    <2>4. /\ net' \subseteq Packets
          /\ \A x \in net' : x \in net \/ OKNext(x)
          /\ cstate' \in {"wait", "aborted", "timedout"}
      <3>1. CASE GivesUp(ctimeout)
        BY <1>t, <1>3, <3>1 DEF ClientTimer
      <3>2. CASE ~GivesUp(ctimeout)
        <4>1. cblock <= NBlocks
          BY <2>2 DEF IInv, ClientOK
        <4>2. cblock \in 0 .. NBlocks /\ cblock <= cblock' /\ cblock' \in Nat
          BY <1>t, <2>2, <4>1, TftpAssumption
        <4>3. ClientSends(cport, cblock)
          BY <1>3, <3>2 DEF ClientTimer
        <4>. QED
          BY <1>t, <4>2, <4>3, ClientSendsOK
      <3>. QED
        BY <3>1, <3>2
    <2>. QED
      BY <1>t, <2>1, <2>2, <2>3, <2>4, ClientKeeps DEF ClientStates
  <1>4. CASE ClientIntr
    <2>1. /\ cstate = "wait" /\ cstate' = "interrupted"
          /\ UNCHANGED <<net, sock, dups, cblock, ctimeout, cport, svars>>
          /\ sigblocked' \subseteq {"SIGALRM", "SIGINT"}
      BY <1>t, <1>4 DEF ClientIntr, netvars
    <2>. QED
      BY <1>q, <1>t, <2>1, ClientKeeps DEF ClientStates
  <1>. QED
    BY <1>1, <1>2, <1>3, <1>4 DEF Client

-----------------------------------------------------------------------------
(* The servers' steps.                                                     *)

\* What recvfile() acknowledges it has accepted; the send may fail.
LEMMA ServerSendsOK ==
  ASSUME IInv, NEW s \in Servers, NEW n \in Nat, NEW q \in Queues, Sub(q),
         n < BlockMod, n < sblock'[s], ServerSends(s, n, q)
  PROVE  /\ net' \subseteq Packets
         /\ \A x \in net' : x \in net \/ OKNext(x)
         /\ sock' \in Queues /\ Sub(sock')
         /\ \E w \in {"wait", "exited"} : sstate' = [sstate EXCEPT ![s] = w]
  <1>0. s \in Endpoints /\ "tftp" \in Endpoints
    BY DEF Endpoints
  <1>1. Ack(s, "tftp", n) \in Packets
    BY <1>0, PacketTypes, 0 \in Nat
  <1>2. Wire(n) = n
    <2>1. n \in 0 .. BlockMod - 1
      BY TftpAssumption
    <2>. QED
      BY <2>1, WireSmall
  <1>3. Emptied(q, s) \in Queues /\ Sub(Emptied(q, s))
    BY <1>0, EmptiedQueues
  <1>4. CASE /\ net' = net \cup {Ack(s, "tftp", n)}
             /\ sstate' = [sstate EXCEPT ![s] = "wait"] /\ sock' = q
    <2>1. sstate'[s] # "none"
      BY <1>4 DEF IInv, TypeOK
    <2>2. OKNext(Ack(s, "tftp", n))
      BY <1>2, <2>1 DEF OKNext, PacketSays, Ack
    <2>. QED
      BY <1>1, <1>4, <2>2 DEF IInv, TypeOK
  <1>5. CASE /\ UNCHANGED net
             /\ sstate' = [sstate EXCEPT ![s] = "exited"] /\ sock' = Emptied(q, s)
    BY <1>3, <1>5 DEF IInv, TypeOK
  <1>. QED
    BY <1>4, <1>5 DEF ServerSends

\* A file is a function from places to segments.
LEMMA SegmentOfFile ==
  ASSUME NEW S, NEW f \in Seq(S)
  PROVE  \A i \in 1 .. Len(f) : f[i] \in S
  OBVIOUS

LEMMA FileOfSegments ==
  ASSUME NEW S, NEW m \in Nat, NEW f \in [1 .. m -> S]
  PROVE  f \in Seq(S) /\ Len(f) = m
  OBVIOUS

\* A write leaves a file of segments.
LEMMA WriteType ==
  ASSUME TypeOK, NEW s \in Servers, NEW n \in 1 .. NBlocks, WriteBehind(s, n)
  PROVE  disk' \in Seq(0 .. NBlocks) /\ spos' \in [Servers -> Nat]
  <1>1. disk \in Seq(0 .. NBlocks) /\ spos \in [Servers -> Nat] /\ spos[s] \in Nat
    BY DEF TypeOK
  <1>2. CASE UNCHANGED <<disk, spos>>
    BY <1>1, <1>2
  <1>3. CASE /\ disk' = [i \in 1 .. IF Len(disk) > spos[s] THEN Len(disk) ELSE spos[s] + 1 |->
                           IF i = spos[s] + 1 THEN n
                           ELSE IF i <= Len(disk) THEN disk[i] ELSE Hole]
             /\ spos' = [spos EXCEPT ![s] = @ + 1]
    <2> DEFINE m == IF Len(disk) > spos[s] THEN Len(disk) ELSE spos[s] + 1
    <2>1. m \in Nat
      BY <1>1
    <2>2. \A i \in 1 .. Len(disk) : disk[i] \in 0 .. NBlocks
      BY <1>1, SegmentOfFile
    <2>3. n \in 0 .. NBlocks /\ Hole \in 0 .. NBlocks /\ Len(disk) \in Nat
      BY <1>1, TftpAssumption DEF Hole
    <2> HIDE DEF m
    <2>4. disk' \in [1 .. m -> 0 .. NBlocks]
      BY <1>3, <2>1, <2>2, <2>3 DEF m
    <2>5. disk' \in Seq(0 .. NBlocks)
      BY <2>1, <2>4, FileOfSegments
    <2>6. spos' \in [Servers -> Nat]
      BY <1>1, <1>3
    <2>. QED
      BY <2>5, <2>6
  <1>. QED
    BY <1>2, <1>3 DEF WriteBehind

\* Server s moves on, to state w and by no block or one.
LEMMA ServerMoves ==
  ASSUME IInv, NEW s \in Servers, NEW w \in ServerStates \ {"none"},
         sstate' = [sstate EXCEPT ![s] = w], sstate[s] \in {"none", "wait", "dally"},
         sstate[s] = "dally" => w = "done",
         NEW b \in 1 .. NBlocks, sblock' = [sblock EXCEPT ![s] = b],
         sblock[s] <= b, b <= BlockMod,
         sock' \in Queues, Sub(sock'), net' \subseteq Packets,
         \A x \in net' : x \in net \/ OKNext(x),
         stimeout' \in [Servers -> Nat], spos' \in [Servers -> Nat],
         disk' \in Seq(0 .. NBlocks), UNCHANGED <<dups, cvars>>
  PROVE  IInv'
  <1>1. TypeOK
    BY DEF IInv
  <1>2. sstate' \in [Servers -> ServerStates] /\ sblock' \in [Servers -> 1 .. NBlocks]
    BY <1>1 DEF TypeOK
  <1>3. TypeOK'
    BY <1>1, <1>2 DEF TypeOK, cvars, Queues
  <1>4. Mono
    <2>1. cblock <= cblock'
      BY <1>1 DEF TypeOK, cvars
    <2>2. ASSUME NEW t \in Servers
          PROVE  /\ sblock[t] <= sblock'[t]
                 /\ sstate[t] # "none" => sstate'[t] # "none"
                 /\ sstate[t] \in {"dally", "done"} => sstate'[t] \in {"dally", "done"}
      <3>1. CASE t = s
        BY <1>1, <3>1 DEF TypeOK
      <3>2. CASE t # s
        BY <1>1, <3>2 DEF TypeOK
      <3>. QED
        BY <3>1, <3>2
    <2>. QED
      BY <2>1, <2>2 DEF Mono
  <1>5. PacketsOK'
    BY <1>1, <1>3, <1>4, PacketsStay DEF IInv
  <1>6. ClientOK'
    BY <1>1, <1>3, <1>4, BeliefStays DEF IInv, ClientOK, cvars
  <1>7. ASSUME NEW t \in Servers PROVE ServerOK(t)'
    <2>1. CASE t = s
      BY <1>1, <2>1 DEF ServerOK, TypeOK
    <2>2. CASE t # s
      BY <1>1, <2>2 DEF IInv, ServerOK, TypeOK
    <2>. QED
      BY <2>1, <2>2
  <1>. QED
    BY <1>3, <1>5, <1>6, <1>7 DEF IInv

\* The heart of it: th_block identifies the segment, since the server expects
\* a block the client has come to, and the client has not passed the modulus.
LEMMA DataExpected ==
  ASSUME IInv, NEW s \in Servers, NEW p \in Packets, PacketOK(p),
         p.op = "DATA", ServerExpects(s, p)
  PROVE  /\ p.seg = sblock[s] /\ sblock[s] < BlockMod
         /\ p.seg \in 1 .. NBlocks
  <1>1. /\ p.seg \in 1 .. cblock /\ p.seg <= NBlocks
        /\ p.block = Wire(p.seg) /\ p.block = sblock[s]
    BY DEF PacketOK, PacketSays, ServerExpects
  <1>2. cblock <= BlockMod /\ cblock \in Int /\ sblock[s] \in 1 .. NBlocks
    BY DEF IInv, ClientOK, TypeOK
  <1>3. p.seg \in 1 .. BlockMod
    BY <1>1, <1>2, TftpAssumption
  <1>4. CASE p.seg = BlockMod
    <2>1. p.block = 0
      BY <1>1, <1>4, WireSmall
    <2>. QED
      BY <1>1, <1>2, <2>1
  <1>5. CASE p.seg # BlockMod
    <2>1. p.seg \in 0 .. BlockMod - 1
      BY <1>3, <1>5, TftpAssumption
    <2>2. p.block = p.seg
      BY <1>1, <2>1, WireSmall
    <2>. QED
      BY <1>1, <1>3, <1>5, <2>2, TftpAssumption
  <1>. QED
    BY <1>4, <1>5

\* Server s moves on to state w at the same block, without writing.
LEMMA ServerStays ==
  ASSUME IInv, NEW s \in Servers, NEW w \in ServerStates \ {"none"},
         sstate' = [sstate EXCEPT ![s] = w], sstate[s] \in {"none", "wait", "dally"},
         sstate[s] = "dally" => w = "done",
         sock' \in Queues, Sub(sock'), net' \subseteq Packets,
         \A x \in net' : x \in net \/ OKNext(x),
         stimeout' \in [Servers -> Nat], disk' \in Seq(0 .. NBlocks),
         UNCHANGED <<dups, cvars, sblock, spos>>
  PROVE  IInv'
  <1>1. sblock[s] \in 1 .. NBlocks /\ sblock' = [sblock EXCEPT ![s] = sblock[s]]
    BY DEF IInv, TypeOK
  <1>2. sblock[s] <= sblock[s] /\ sblock[s] <= BlockMod
    BY <1>1 DEF IInv, ServerOK
  <1>3. spos' \in [Servers -> Nat]
    BY DEF IInv, TypeOK
  <1>. QED
    BY <1>1, <1>2, <1>3, ServerMoves

LEMMA ServerInv == ASSUME NEW s \in Servers PROVE IInv /\ Server(s) => IInv'
  <1> SUFFICES ASSUME IInv, Server(s) PROVE IInv'
    OBVIOUS
  <1>e. s \in Endpoints /\ "tftp" \in Endpoints /\ "inetd" \in Endpoints
    BY DEF Endpoints
  <1>q. sock \in Queues /\ Sub(sock) /\ Flushed(s) \in Queues /\ Sub(Flushed(s))
    BY <1>e, FlushedQueues DEF IInv, TypeOK, Queues, Sub
  <1>t. /\ net \subseteq Packets /\ sblock[s] \in 1 .. NBlocks /\ sblock[s] <= BlockMod
        /\ stimeout \in [Servers -> Nat] /\ disk \in Seq(0 .. NBlocks)
        /\ spos \in [Servers -> Nat]
    BY DEF IInv, TypeOK, ServerOK
  <1>b. /\ sblock[s] - 1 \in Nat /\ sblock[s] - 1 < BlockMod /\ sblock[s] - 1 < sblock[s]
    BY <1>t, TftpAssumption
  <1>1. CASE ServerSpawn(s)
    <2>1. Popped("inetd") \in Queues /\ Sub(Popped("inetd"))
      BY <1>e, <1>q, <1>1, PoppedQueues DEF ServerSpawn
    <2>2. sstate[s] = "none" /\ UNCHANGED <<dups, cvars, sblock, stimeout, spos>>
      BY <1>1 DEF ServerSpawn
    <2>3. CASE disk' = <<>> /\ ServerSends(s, 0, Popped("inetd"))
      <3>1. 0 \in Nat /\ 0 < BlockMod /\ 0 < sblock'[s]
        BY <1>t, <2>2, TftpAssumption
      <3>2. /\ net' \subseteq Packets
            /\ \A x \in net' : x \in net \/ OKNext(x)
            /\ sock' \in Queues /\ Sub(sock')
            /\ \E w \in {"wait", "exited"} : sstate' = [sstate EXCEPT ![s] = w]
        BY <2>1, <2>3, <3>1, ServerSendsOK
      <3>3. PICK w \in {"wait", "exited"} : sstate' = [sstate EXCEPT ![s] = w]
        BY <3>2
      <3>4. w \in ServerStates \ {"none"}
        BY DEF ServerStates
      <3>5. disk' \in Seq(0 .. NBlocks) /\ stimeout' \in [Servers -> Nat]
        BY <1>t, <2>2, <2>3
      <3>. QED
        BY <2>2, <3>2, <3>3, <3>4, <3>5, ServerStays
    <2>4. CASE /\ net' \in {net, net \cup {Nak(s, "tftp")}} /\ sock' = Popped("inetd")
               /\ sstate' = [sstate EXCEPT ![s] = "exited"]
               /\ UNCHANGED disk
      <3>1. Nak(s, "tftp") \in Packets /\ OKNext(Nak(s, "tftp"))
        <4>1. Nak(s, "tftp") \in Packets
          BY <1>e, PacketTypes, 0 \in Nat
        <4>. QED
          BY <4>1 DEF Nak, OKNext, PacketSays
      <3>2. net' \subseteq Packets /\ \A x \in net' : x \in net \/ OKNext(x)
        BY <1>t, <2>4, <3>1
      <3>3. "exited" \in ServerStates \ {"none"}
        BY DEF ServerStates
      <3>. QED
        BY <1>t, <2>1, <2>2, <2>4, <3>2, <3>3, ServerStays
    <2>. QED
      BY <1>1, <2>3, <2>4 DEF ServerSpawn
  <1>2. CASE ServerRecv(s)
    <2> DEFINE p == Head(sock[s])
    <2>1. /\ p \in Packets /\ PacketOK(p)
          /\ Popped(s) \in Queues /\ Sub(Popped(s))
      BY <1>e, <1>q, <1>2, PoppedQueues DEF ServerRecv, IInv, PacketsOK
    <2>2. sstate[s] = "wait" /\ UNCHANGED <<dups, cvars>>
      BY <1>2 DEF ServerRecv
    <2> HIDE DEF p
    <2>3. CASE ServerAccept(s, p)
      <3>1. p.seg = sblock[s] /\ sblock[s] < BlockMod /\ p.seg \in 1 .. NBlocks
        BY <2>1, <2>3, DataExpected DEF ServerAccept
      <3>2. CASE ~IsLast(p.seg)
        <4> DEFINE b == sblock[s] + 1
        <4>1. /\ sblock' = [sblock EXCEPT ![s] = b]
              /\ stimeout' = [stimeout EXCEPT ![s] = 0]
              /\ ServerSends(s, sblock[s], Popped(s))
              /\ IF sstate'[s] = "wait" THEN WriteBehind(s, p.seg)
                                        ELSE UNCHANGED <<disk, spos>>
          BY <2>3, <3>2 DEF ServerAccept
        <4>2. b \in 1 .. NBlocks /\ sblock[s] <= b /\ b <= BlockMod /\ sblock[s] < b
          BY <3>1, <3>2, TftpAssumption DEF IsLast
        <4>3. sblock[s] \in Nat /\ sblock[s] < sblock'[s]
          BY <1>t, <4>1, <4>2 DEF IInv, TypeOK
        <4>4. /\ net' \subseteq Packets
              /\ \A x \in net' : x \in net \/ OKNext(x)
              /\ sock' \in Queues /\ Sub(sock')
              /\ \E w \in {"wait", "exited"} : sstate' = [sstate EXCEPT ![s] = w]
          BY <2>1, <3>1, <4>1, <4>3, ServerSendsOK
        <4>5. PICK w \in {"wait", "exited"} : sstate' = [sstate EXCEPT ![s] = w]
          BY <4>4
        <4>6. w \in ServerStates \ {"none"}
          BY DEF ServerStates
        <4>7. disk' \in Seq(0 .. NBlocks) /\ spos' \in [Servers -> Nat]
          BY <1>t, <3>1, <4>1, WriteType DEF IInv
        <4>8. stimeout' \in [Servers -> Nat]
          BY <1>t, <4>1
        <4>. QED
          BY <2>2, <4>1, <4>2, <4>4, <4>5, <4>6, <4>7, <4>8, ServerMoves
      <3>3. CASE IsLast(p.seg)
        <4>1. /\ WriteBehind(s, p.seg)
              /\ net' = net \cup {Ack(s, "tftp", sblock[s])}
              /\ sstate' = [sstate EXCEPT ![s] = "dally"] /\ sock' = Popped(s)
              /\ UNCHANGED <<sblock, stimeout>>
          BY <2>3, <3>3 DEF ServerAccept
        <4>2. disk' \in Seq(0 .. NBlocks) /\ spos' \in [Servers -> Nat]
          BY <3>1, <4>1, WriteType DEF IInv
        <4>3. /\ net' \subseteq Packets
              /\ \A x \in net' : x \in net \/ OKNext(x)
          <5>1. sblock[s] \in Nat /\ sblock[s] \in 0 .. BlockMod - 1 /\ sblock[s] = NBlocks
            BY <1>t, <3>1, <3>3, TftpAssumption DEF IsLast
          <5>2. Ack(s, "tftp", sblock[s]) \in Packets
            BY <1>e, <5>1, PacketTypes, 0 \in Nat
          <5>3. Wire(sblock[s]) = NBlocks
            BY <5>1, WireSmall
          <5>4. sstate'[s] = "dally"
            BY <4>1 DEF IInv, TypeOK
          <5>5. OKNext(Ack(s, "tftp", sblock[s]))
            BY <5>3, <5>4 DEF OKNext, PacketSays, Ack
          <5>. QED
            BY <1>t, <4>1, <5>2, <5>5
        <4>4. "dally" \in ServerStates \ {"none"}
          BY DEF ServerStates
        <4>5. sblock' = [sblock EXCEPT ![s] = sblock[s]] /\ sblock[s] <= sblock[s]
          BY <1>t, <4>1 DEF IInv, TypeOK
        <4>. QED
          BY <1>t, <2>1, <2>2, <4>1, <4>2, <4>3, <4>4, <4>5, ServerMoves
      <3>. QED
        BY <3>2, <3>3
    <2>4. CASE ServerResync(s, p)
      <3>1. UNCHANGED <<sblock, stimeout, spos, disk>>
        BY <2>4 DEF ServerResync
      <3>2. /\ net' \subseteq Packets
            /\ \A x \in net' : x \in net \/ OKNext(x)
            /\ sock' \in Queues /\ Sub(sock')
            /\ \E w \in {"wait", "exited"} : sstate' = [sstate EXCEPT ![s] = w]
        <4>1. CASE p.block = sblock[s] - 1
          BY <1>b, <1>q, <2>4, <3>1, <4>1, ServerSendsOK DEF ServerResync
        <4>2. CASE p.block # sblock[s] - 1
          <5>1. sock' = Flushed(s) /\ UNCHANGED <<net, sstate>>
            BY <2>4, <4>2 DEF ServerResync
          <5>2. sstate' = [sstate EXCEPT ![s] = "wait"]
            BY <2>2, <5>1 DEF IInv, TypeOK
          <5>. QED
            BY <1>q, <1>t, <5>1, <5>2
        <4>. QED
          BY <4>1, <4>2
      <3>3. PICK w \in {"wait", "exited"} : sstate' = [sstate EXCEPT ![s] = w]
        BY <3>2
      <3>4. w \in ServerStates \ {"none"}
        BY DEF ServerStates
      <3>. QED
        BY <1>t, <2>2, <3>1, <3>2, <3>3, <3>4, ServerStays
    <2>5. CASE ServerAbort(s, p)
      <3>1. "exited" \in ServerStates \ {"none"}
        BY DEF ServerStates
      <3>. QED
        BY <1>q, <1>t, <2>2, <2>5, <3>1, ServerStays DEF ServerAbort, ServerExits
    <2>. QED
      BY <1>2, <2>3, <2>4, <2>5 DEF ServerRecv, p
  <1>3. CASE ServerRecvFails(s)
    <2>1. "exited" \in ServerStates \ {"none"}
      BY DEF ServerStates
    <2>. QED
      BY <1>q, <1>t, <1>3, <2>1, ServerStays DEF ServerRecvFails, ServerExits
  <1>4. CASE ServerTimer(s)
    <2>1. sstate[s] = "wait" /\ UNCHANGED <<dups, cvars, sblock, spos, disk>>
      BY <1>4 DEF ServerTimer
    <2>2. stimeout' \in [Servers -> Nat]
      BY <1>t, <1>4, TftpAssumption DEF ServerTimer, Elapsed
    <2>3. CASE GivesUp(stimeout[s])
      <3>1. "timedout" \in ServerStates \ {"none"}
        BY DEF ServerStates
      <3>. QED
        BY <1>q, <1>t, <1>4, <2>1, <2>2, <2>3, <3>1, ServerStays DEF ServerTimer, ServerExits
    <2>4. CASE ~GivesUp(stimeout[s])
      <3>1. PICK q \in AfterAlarm(s) : ServerSends(s, sblock[s] - 1, q)
        BY <1>4, <2>4 DEF ServerTimer
      <3>2. q \in Queues /\ Sub(q)
        BY <1>e, <1>q, AfterAlarmQueues
      <3>3. /\ net' \subseteq Packets
            /\ \A x \in net' : x \in net \/ OKNext(x)
            /\ sock' \in Queues /\ Sub(sock')
            /\ \E w \in {"wait", "exited"} : sstate' = [sstate EXCEPT ![s] = w]
        BY <1>b, <2>1, <3>1, <3>2, ServerSendsOK
      <3>4. PICK w \in {"wait", "exited"} : sstate' = [sstate EXCEPT ![s] = w]
        BY <3>3
      <3>5. w \in ServerStates \ {"none"}
        BY DEF ServerStates
      <3>. QED
        BY <1>t, <2>1, <2>2, <3>3, <3>4, <3>5, ServerStays
    <2>. QED
      BY <2>3, <2>4
  <1>5. CASE ServerDally(s)
    <2>1. "done" \in ServerStates \ {"none"}
      BY DEF ServerStates
    <2>. QED
      BY <1>q, <1>t, <1>5, <2>1, ServerStays DEF ServerDally, ServerExits
  <1>. QED
    BY <1>1, <1>2, <1>3, <1>4, <1>5 DEF Server

-----------------------------------------------------------------------------
(* The theorems about any number of servers and any disk.                  *)

LEMMA Invariance == Spec => []IInv
  <1>1. Init => IInv
    <2> SUFFICES ASSUME Init PROVE IInv
      OBVIOUS
    <2>1. TypeOK
      <3>1. sock \in Queues /\ net \subseteq Packets /\ dups \in Nat
        BY DEF Init, NetInit, Queues
      <3>2. 0 \in 0 .. NBlocks + 1 /\ 1 \in 1 .. NBlocks /\ <<>> \in Seq(0 .. NBlocks)
        BY TftpAssumption
      <3>. QED
        BY <3>1, <3>2 DEF Init, TypeOK, Queues, ClientStates, ServerStates, Endpoints
    <2>2. PacketsOK
      BY DEF Init, NetInit, PacketsOK
    <2>3. ClientOK
      BY TftpAssumption DEF Init, ClientOK, AckedMeansAccepted
    <2>4. \A s \in Servers : ServerOK(s)
      BY TftpAssumption DEF Init, ServerOK
    <2>. QED
      BY <2>1, <2>2, <2>3, <2>4 DEF IInv
  <1>2. IInv /\ [Next]_vars => IInv'
    <2> SUFFICES ASSUME IInv, [Next]_vars PROVE IInv'
      OBVIOUS
    <2>1. CASE UNCHANGED vars
      <3>1. TypeOK'
        BY <2>1 DEF IInv, TypeOK, vars, netvars, cvars, svars
      <3>2. PacketsOK'
        BY <2>1 DEF IInv, PacketsOK, PacketOK, vars, netvars, cvars, svars
      <3>3. ClientOK' /\ \A s \in Servers : ServerOK(s)'
        BY <2>1 DEF IInv, ClientOK, AckedMeansAccepted, ServerOK, vars, cvars, svars
      <3>. QED
        BY <3>1, <3>2, <3>3 DEF IInv
    <2>2. CASE Next
      BY <2>2, NetworkInv, ClientInv, ServerInv DEF Next
    <2>. QED
      BY <2>1, <2>2
  <1>. QED
    BY <1>1, <1>2, PTL DEF Spec

\* Every reachable state of a "put" is type-correct: in particular no server
\* ever waits for a block past the last of the file, and the client's block
\* is past it by one at most.
THEOREM TypeCorrect == Spec => []TypeOK
  <1>1. IInv => TypeOK
    BY DEF IInv
  <1>. QED
    BY <1>1, Invariance, PTL

\* send_file() of the client moves past a block only once a server has
\* accepted that block and all blocks before it, with any number of tftpd
\* processes answering, any loss, delay or duplication, on any disk.
THEOREM AckedCorrect == Spec => []AckedMeansAccepted
  <1>1. IInv => AckedMeansAccepted
    BY DEF IInv, ClientOK
  <1>. QED
    BY <1>1, Invariance, PTL

-----------------------------------------------------------------------------
(* A disk that takes the data.                                             *)

\* Each server that still receives has written the blocks it has accepted;
\* what is in the file is in its place.
DiskOK ==
    /\ \A s \in Servers : sstate[s] \in {"none", "wait"} => spos[s] = sblock[s] - 1
    /\ DiskOrdered

\* The three things a server's step may do to the file: truncate it, write the
\* block it expects at its offset, nothing.
Truncates(s, w) ==
    /\ sstate[s] = "none" /\ w \in {"wait", "exited"}
    /\ disk' = <<>> /\ UNCHANGED <<sblock, spos>>

Stores(s, w) ==
    /\ sstate[s] = "wait"
    /\ \/ sblock[s] # NBlocks /\ w = "wait" /\ sblock' = [sblock EXCEPT ![s] = @ + 1]
       \/ sblock[s] = NBlocks /\ w = "dally" /\ UNCHANGED sblock
    /\ disk' = [i \in 1 .. IF Len(disk) > spos[s] THEN Len(disk) ELSE spos[s] + 1 |->
                  IF i = spos[s] + 1 THEN sblock[s]
                  ELSE IF i <= Len(disk) THEN disk[i] ELSE Hole]
    /\ spos' = [spos EXCEPT ![s] = @ + 1]

Leaves(s, w) ==
    /\ \/ sstate[s] = "wait" /\ w = "wait" /\ UNCHANGED sblock
       \/ sstate[s] \in {"none", "wait"} /\ w \in {"exited", "timedout"}
       \/ sstate[s] = "dally" /\ w = "done"
    /\ \A t \in Servers \ {s} : sblock'[t] = sblock[t]
    /\ UNCHANGED <<disk, spos>>

LEMMA ServerEffect ==
  ASSUME ~DiskFull, IInv, NEW s \in Servers, Server(s)
  PROVE  /\ \E w \in ServerStates : /\ sstate' = [sstate EXCEPT ![s] = w]
                                    /\ Truncates(s, w) \/ Stores(s, w) \/ Leaves(s, w)
         /\ UNCHANGED cvars
  <1>t. /\ sstate \in [Servers -> ServerStates] /\ sblock \in [Servers -> 1 .. NBlocks]
        /\ sstate[s] \in ServerStates
    BY DEF IInv, TypeOK
  <1>w. {"wait", "exited", "timedout", "dally", "done"} \subseteq ServerStates
    BY DEF ServerStates
  <1>u. UNCHANGED cvars
    BY DEF Server, ServerSpawn, ServerRecv, ServerRecvFails, ServerTimer, ServerDally
  <1>1. CASE ServerSpawn(s)
    <2>1. sstate[s] = "none" /\ UNCHANGED <<sblock, spos>>
      BY <1>1 DEF ServerSpawn
    <2>2. \/ disk' = <<>> /\ \E w \in {"wait", "exited"} : sstate' = [sstate EXCEPT ![s] = w]
          \/ UNCHANGED disk /\ sstate' = [sstate EXCEPT ![s] = "exited"]
      BY <1>1 DEF ServerSpawn, ServerSends
    <2>. QED
      BY <1>u, <1>w, <2>1, <2>2 DEF Truncates, Leaves
  <1>2. CASE ServerRecv(s)
    <2> DEFINE p == Head(sock[s])
    <2>1. p \in Packets /\ PacketOK(p)
      <3>1. s \in Endpoints /\ sock \in Queues
        BY DEF Endpoints, IInv, TypeOK, Queues
      <3>. QED
        BY <1>2, <3>1, PoppedQueues DEF ServerRecv, IInv, PacketsOK
    <2>2. sstate[s] = "wait"
      BY <1>2 DEF ServerRecv
    <2> HIDE DEF p
    <2>3. CASE ServerAccept(s, p)
      <3>1. p.seg = sblock[s]
        BY <2>1, <2>3, DataExpected DEF ServerAccept
      <3>2. CASE IsLast(p.seg)
        <4>1. sstate' = [sstate EXCEPT ![s] = "dally"] /\ Stores(s, "dally")
          BY <2>2, <2>3, <3>1, <3>2 DEF ServerAccept, Stores, WriteBehind, IsLast
        <4>. QED
          BY <1>u, <1>w, <4>1
      <3>3. CASE ~IsLast(p.seg)
        <4>1. /\ sblock' = [sblock EXCEPT ![s] = @ + 1]
              /\ \E w \in {"wait", "exited"} : sstate' = [sstate EXCEPT ![s] = w]
              /\ IF sstate'[s] = "wait" THEN WriteBehind(s, p.seg)
                                        ELSE UNCHANGED <<disk, spos>>
          BY <2>3, <3>3 DEF ServerAccept, ServerSends
        <4>2. CASE sstate' = [sstate EXCEPT ![s] = "wait"]
          <5>1. sstate'[s] = "wait"
            BY <1>t, <4>2
          <5>2. Stores(s, "wait")
            BY <2>2, <3>1, <3>3, <4>1, <5>1 DEF Stores, WriteBehind, IsLast
          <5>. QED
            BY <1>u, <1>w, <4>2, <5>2
        <4>3. CASE sstate' = [sstate EXCEPT ![s] = "exited"]
          <5>1. sstate'[s] = "exited"
            BY <1>t, <4>3
          <5>2. Leaves(s, "exited")
            BY <1>t, <2>2, <4>1, <5>1 DEF Leaves
          <5>. QED
            BY <1>u, <1>w, <4>3, <5>2
        <4>. QED
          BY <4>1, <4>2, <4>3
      <3>. QED
        BY <3>2, <3>3
    <2>4. CASE ServerResync(s, p)
      <3>1. /\ UNCHANGED <<sblock, spos, disk>>
            /\ \E w \in {"wait", "exited"} : sstate' = [sstate EXCEPT ![s] = w]
        BY <1>t, <2>2, <2>4 DEF ServerResync, ServerSends
      <3>. QED
        BY <1>u, <1>w, <2>2, <3>1 DEF Leaves
    <2>5. CASE ServerAbort(s, p)
      BY <1>u, <1>w, <2>2, <2>5 DEF ServerAbort, ServerExits, Leaves
    <2>. QED
      BY <1>2, <2>3, <2>4, <2>5 DEF ServerRecv, p
  <1>3. CASE ServerRecvFails(s)
    BY <1>u, <1>w, <1>3 DEF ServerRecvFails, ServerExits, Leaves
  <1>4. CASE ServerTimer(s)
    <2>1. /\ sstate[s] = "wait" /\ UNCHANGED <<sblock, spos, disk>>
          /\ \E w \in {"wait", "exited", "timedout"} : sstate' = [sstate EXCEPT ![s] = w]
      BY <1>4 DEF ServerTimer, ServerExits, ServerSends
    <2>. QED
      BY <1>u, <1>w, <2>1 DEF Leaves
  <1>5. CASE ServerDally(s)
    BY <1>u, <1>w, <1>5 DEF ServerDally, ServerExits, Leaves
  <1>. QED
    BY <1>1, <1>2, <1>3, <1>4, <1>5 DEF Server

LEMMA DiskInv ==
  ASSUME ~DiskFull, IInv, DiskOK, [Next]_vars
  PROVE  DiskOK'
  <1>t. /\ sstate \in [Servers -> ServerStates] /\ sblock \in [Servers -> 1 .. NBlocks]
        /\ spos \in [Servers -> Nat] /\ disk \in Seq(0 .. NBlocks)
    BY DEF IInv, TypeOK
  <1>1. CASE UNCHANGED svars
    BY <1>1 DEF DiskOK, DiskOrdered, svars
  <1>2. ASSUME NEW s \in Servers, Server(s) PROVE DiskOK'
    <2>1. PICK w \in ServerStates :
               /\ sstate' = [sstate EXCEPT ![s] = w]
               /\ Truncates(s, w) \/ Stores(s, w) \/ Leaves(s, w)
      BY <1>2, ServerEffect
    <2>2. CASE Truncates(s, w)
      BY <1>t, <2>1, <2>2 DEF Truncates, DiskOK, DiskOrdered
    <2>3. CASE Stores(s, w)
      <3>1. spos[s] = sblock[s] - 1 /\ sblock[s] \in 1 .. NBlocks
        BY <1>t, <2>3 DEF Stores, DiskOK
      <3>2. DiskOrdered'
        <4> DEFINE m == IF Len(disk) > spos[s] THEN Len(disk) ELSE spos[s] + 1
        <4>1. m \in Nat
          BY <1>t
        <4> HIDE DEF m
        <4>2. disk' = [i \in 1 .. m |-> IF i = spos[s] + 1 THEN sblock[s]
                                        ELSE IF i <= Len(disk) THEN disk[i] ELSE Hole]
          BY <2>3 DEF Stores, m
        <4>3. Len(disk') = m
          BY <4>1, <4>2
        <4>4. ASSUME NEW i \in 1 .. m PROVE disk'[i] \in {i, Hole}
          <5>1. CASE i = spos[s] + 1
            BY <3>1, <4>2, <4>4, <5>1
          <5>2. CASE i # spos[s] + 1 /\ i <= Len(disk)
            <6>1. i \in 1 .. Len(disk)
              BY <1>t, <4>1, <4>4, <5>2
            <6>2. disk[i] \in {i, Hole}
              BY <6>1 DEF DiskOK, DiskOrdered
            <6>. QED
              BY <4>2, <4>4, <5>2, <6>2
          <5>3. CASE i # spos[s] + 1 /\ ~(i <= Len(disk))
            BY <4>2, <4>4, <5>3
          <5>. QED
            BY <5>1, <5>2, <5>3
        <4>. QED
          BY <4>3, <4>4 DEF DiskOrdered
      <3>3. ASSUME NEW t \in Servers, sstate'[t] \in {"none", "wait"}
            PROVE  spos'[t] = sblock'[t] - 1
        <4>1. CASE t = s
          BY <1>t, <2>1, <2>3, <3>1, <3>3, <4>1 DEF Stores
        <4>2. CASE t # s
          BY <1>t, <2>1, <2>3, <3>3, <4>2 DEF Stores, DiskOK
        <4>. QED
          BY <4>1, <4>2
      <3>. QED
        BY <3>2, <3>3 DEF DiskOK
    <2>4. CASE Leaves(s, w)
      <3>1. DiskOrdered'
        BY <2>4 DEF Leaves, DiskOK, DiskOrdered
      <3>2. ASSUME NEW t \in Servers, sstate'[t] \in {"none", "wait"}
            PROVE  spos'[t] = sblock'[t] - 1
        <4>1. CASE t = s
          BY <1>t, <2>1, <2>4, <3>2, <4>1 DEF Leaves, DiskOK
        <4>2. CASE t # s
          BY <1>t, <2>1, <2>4, <3>2, <4>2 DEF Leaves, DiskOK
        <4>. QED
          BY <4>1, <4>2
      <3>. QED
        BY <3>1, <3>2 DEF DiskOK
    <2>. QED
      BY <2>1, <2>2, <2>3, <2>4
  <1>3. CASE Network \/ Client \/ UNCHANGED vars
    <2>1. UNCHANGED svars
      BY <1>3 DEF Network, Client, ClientPut, ClientRecv, ClientTimer, ClientIntr, vars
    <2>. QED
      BY <1>1, <2>1
  <1>. QED
    BY <1>2, <1>3 DEF Next

\* recvfile() writes a segment only to its own place in the file, even when
\* several tftpd processes, one for every WRQ that arrived, write to it and
\* truncate it.
THEOREM DiskCorrect == ASSUME ~DiskFull PROVE Spec => []DiskOrdered
  <1>1. Init => DiskOK
    BY DEF Init, DiskOK, DiskOrdered
  <1>2. IInv /\ DiskOK /\ [Next]_vars => DiskOK'
    BY DiskInv
  <1>3. DiskOK => DiskOrdered
    BY DEF DiskOK
  <1>. QED
    BY <1>1, <1>2, <1>3, Invariance, PTL DEF Spec

-----------------------------------------------------------------------------
(* One server: the file and the refinement of FileTransfer.                *)

\* The file is what the server has written, which is all of it at the end.
OneOK ==
    /\ disk = [i \in 1 .. spos[TheServer] |-> i]
    /\ sstate[TheServer] \in {"dally", "done"} => spos[TheServer] = NBlocks

\* Writing the next segment at the end of the file appends it.
LEMMA StoreAppends ==
  ASSUME NEW k \in Nat, NEW d, d = [i \in 1 .. k |-> i]
  PROVE  /\ d \in Seq(Nat) /\ Len(d) = k
         /\ [i \in 1 .. IF Len(d) > k THEN Len(d) ELSE k + 1 |->
               IF i = k + 1 THEN k + 1 ELSE IF i <= Len(d) THEN d[i] ELSE Hole]
            = [i \in 1 .. k + 1 |-> i]
         /\ Append(d, k + 1) = [i \in 1 .. k + 1 |-> i]
  <1>1. d \in Seq(Nat) /\ Len(d) = k
    <2>1. d \in [1 .. k -> Nat]
      OBVIOUS
    <2>. QED
      BY <2>1, FileOfSegments
  <1>2. (IF Len(d) > k THEN Len(d) ELSE k + 1) = k + 1
    BY <1>1
  <1>3. ASSUME NEW i \in 1 .. k + 1
        PROVE  (IF i = k + 1 THEN k + 1 ELSE IF i <= Len(d) THEN d[i] ELSE Hole) = i
    BY <1>1
  <1>4. Append(d, k + 1) = [i \in 1 .. k + 1 |-> IF i <= k THEN d[i] ELSE k + 1]
    BY <1>1
  <1>5. ASSUME NEW i \in 1 .. k + 1 PROVE (IF i <= k THEN d[i] ELSE k + 1) = i
    OBVIOUS
  <1>. QED
    BY <1>1, <1>2, <1>3, <1>4, <1>5

LEMMA TheOnlyServer ==
  ASSUME \E s : Servers = {s}
  PROVE  TheServer \in Servers /\ \A s \in Servers : s = TheServer
  BY DEF TheServer

\* What a step of the one server does to the abstract transfer.
LEMMA OneServerStep ==
  ASSUME ~DiskFull, \E x : Servers = {x}, IInv, DiskOK, OneOK,
         NEW s \in Servers, Server(s)
  PROVE  /\ OneOK'
         /\ \/ Abstract!Store \/ Abstract!Fail
            \/ UNCHANGED <<disk, Result, Sent>>
  <1>0. s = TheServer
    BY TheOnlyServer
  <1>t. /\ sstate \in [Servers -> ServerStates] /\ sblock \in [Servers -> 1 .. NBlocks]
        /\ spos \in [Servers -> Nat] /\ spos[s] \in Nat /\ sblock[s] \in 1 .. NBlocks
    BY DEF IInv, TypeOK
  <1>1. PICK w \in ServerStates :
             /\ sstate' = [sstate EXCEPT ![s] = w]
             /\ Truncates(s, w) \/ Stores(s, w) \/ Leaves(s, w)
    BY ServerEffect
  <1>2. sstate'[s] = w
    BY <1>t, <1>1
  <1>3. Sent' = Sent
    BY ServerEffect DEF Sent, cvars
  <1>4. disk = [i \in 1 .. spos[s] |-> i]
    BY <1>0 DEF OneOK
  <1>5. CASE Truncates(s, w)
    <2>1. sstate[s] = "none" /\ w \in {"wait", "exited"} /\ disk' = <<>> /\ UNCHANGED spos
      BY <1>5 DEF Truncates
    <2>2. spos[s] = 0
      BY <2>1 DEF DiskOK, IInv, ServerOK
    <2>3. [i \in 1 .. spos[s] |-> i] = <<>>
      BY <2>2
    <2>4. UNCHANGED disk
      BY <1>4, <2>1, <2>3
    <2>5. OneOK'
      BY <1>0, <1>2, <1>4, <2>1, <2>4 DEF OneOK
    <2>6. Result = "running" /\ Result' \in {"running", "failed"}
      BY <1>0, <1>2, <2>1 DEF Result
    <2>. QED
      BY <1>3, <2>4, <2>5, <2>6 DEF Abstract!Fail
  <1>6. CASE Stores(s, w)
    <2>1. spos[s] = sblock[s] - 1 /\ sstate[s] = "wait" /\ spos'[s] = spos[s] + 1
      BY <1>t, <1>6 DEF Stores, DiskOK
    <2>2. spos[s] + 1 = sblock[s]
      BY <1>t, <2>1
    <2>3. disk' = [i \in 1 .. IF Len(disk) > spos[s] THEN Len(disk) ELSE spos[s] + 1 |->
                    IF i = spos[s] + 1 THEN spos[s] + 1
                    ELSE IF i <= Len(disk) THEN disk[i] ELSE Hole]
      BY <1>6, <2>2 DEF Stores
    <2>4. /\ Len(disk) = spos[s]
          /\ disk' = [i \in 1 .. spos[s] + 1 |-> i]
          /\ disk' = Append(disk, spos[s] + 1)
      BY <1>t, <1>4, <2>3, StoreAppends
    <2>5. \/ sblock[s] # NBlocks /\ w = "wait"
          \/ sblock[s] = NBlocks /\ w = "dally"
      BY <1>6 DEF Stores
    <2>6. OneOK'
      BY <1>0, <1>2, <2>1, <2>2, <2>4, <2>5 DEF OneOK
    <2>7. Len(disk) < NBlocks
      BY <1>t, <2>2, <2>4, TftpAssumption
    <2>8. /\ Result = "running"
          /\ \/ Len(disk) + 1 = NBlocks /\ Result' = "complete"
             \/ Len(disk) + 1 # NBlocks /\ Result' = "running"
      BY <1>0, <1>2, <2>1, <2>2, <2>4, <2>5 DEF Result
    <2>9. disk' = Append(disk, Len(disk) + 1)
      BY <2>4
    <2>. QED
      BY <1>3, <2>6, <2>7, <2>8, <2>9 DEF Abstract!Store
  <1>7. CASE Leaves(s, w)
    <2>1. UNCHANGED <<disk, spos>>
      BY <1>7 DEF Leaves
    <2>2. \/ sstate[s] = "wait" /\ w = "wait"
          \/ sstate[s] \in {"none", "wait"} /\ w \in {"exited", "timedout"}
          \/ sstate[s] = "dally" /\ w = "done"
      BY <1>7 DEF Leaves
    <2>3. OneOK'
      BY <1>0, <1>2, <2>1, <2>2 DEF OneOK
    <2>4. Result' = Result \/ (Result = "running" /\ Result' = "failed")
      BY <1>0, <1>2, <2>2 DEF Result
    <2>. QED
      BY <1>3, <2>1, <2>3, <2>4 DEF Abstract!Fail
  <1>. QED
    BY <1>1, <1>5, <1>6, <1>7

\* The client comes to its normal end only with the file on the disk.
LEMMA DoneMeansStored ==
  ASSUME \E x : Servers = {x}, IInv, OneOK, cstate = "done"
  PROVE  disk = [i \in 1 .. NBlocks |-> i] /\ Len(disk) = NBlocks
  <1>1. sstate[TheServer] \in {"dally", "done"}
    BY TheOnlyServer DEF IInv, ClientOK, AckedMeansAccepted
  <1>2. disk = [i \in 1 .. NBlocks |-> i]
    BY <1>1 DEF OneOK
  <1>3. NBlocks \in Nat
    BY TftpAssumption
  <1>. QED
    BY <1>2, <1>3, StoreAppends

\* Every step is a step of the abstract transfer, or none.
LEMMA StepImplements ==
  ASSUME ~DiskFull, \E x : Servers = {x}, IInv, IInv', DiskOK, OneOK, [Next]_vars
  PROVE  OneOK' /\ [Abstract!Next]_(Abstract!vars)
  <1>1. ASSUME NEW s \in Servers, Server(s) PROVE OneOK' /\ [Abstract!Next]_(Abstract!vars)
    BY <1>1, OneServerStep DEF Abstract!Next, Abstract!vars
  <1>2. CASE Network \/ Client \/ UNCHANGED vars
    <2>1. UNCHANGED svars
      BY <1>2 DEF Network, Client, ClientPut, ClientRecv, ClientTimer, ClientIntr, vars
    <2>2. UNCHANGED <<disk, Result>> /\ OneOK'
      BY <2>1 DEF svars, Result, OneOK
    <2>3. CASE Sent' = Sent
      BY <2>2, <2>3 DEF Abstract!vars
    <2>4. CASE Sent' # Sent
      <3>1. cstate # "done"
        <4>1. CASE Client
          BY <4>1 DEF Client, ClientPut, ClientRecv, ClientTimer, ClientIntr
        <4>2. CASE Network \/ UNCHANGED vars
          BY <2>4, <4>2 DEF Network, vars, cvars, Sent
        <4>. QED
          BY <1>2, <4>1, <4>2
      <3>2. cstate' = "done" /\ Sent' = TRUE
        BY <2>4, <3>1 DEF Sent
      <3>3. Len(disk') = NBlocks
        <4>1. sstate'[TheServer] \in {"dally", "done"}
          BY <3>2, TheOnlyServer DEF IInv, ClientOK, AckedMeansAccepted
        <4>2. disk' = [i \in 1 .. NBlocks |-> i]
          BY <2>2, <4>1 DEF OneOK
        <4>3. NBlocks \in Nat
          BY TftpAssumption
        <4>. QED
          BY <4>2, <4>3, StoreAppends
      <3>. QED
        BY <2>2, <3>2, <3>3 DEF Abstract!Next, Abstract!ReportSent
    <2>. QED
      BY <2>3, <2>4
  <1>. QED
    BY <1>1, <1>2 DEF Next

LEMMA OneInit == ASSUME \E x : Servers = {x} PROVE Init => DiskOK /\ OneOK
  <1> SUFFICES ASSUME Init PROVE DiskOK /\ OneOK
    OBVIOUS
  <1>1. DiskOK
    BY DEF Init, DiskOK, DiskOrdered
  <1>2. spos[TheServer] = 0 /\ sstate[TheServer] = "none"
    BY TheOnlyServer DEF Init
  <1>3. [i \in 1 .. spos[TheServer] |-> i] = <<>>
    BY <1>2
  <1>. QED
    BY <1>1, <1>2, <1>3 DEF Init, OneOK

LEMMA OneInvariance ==
  ASSUME ~DiskFull, \E x : Servers = {x}
  PROVE  Spec => [](IInv /\ DiskOK /\ OneOK)
  <1>1. Init => DiskOK /\ OneOK
    BY OneInit
  <1>2. IInv /\ IInv' /\ DiskOK /\ OneOK /\ [Next]_vars => DiskOK' /\ OneOK'
    BY DiskInv, StepImplements
  <1>. QED
    BY <1>1, <1>2, Invariance, PTL DEF Spec

\* "put" puts the file: with one tftpd and a disk that takes the data, when
\* send_file() of the client ends normally the server's file is the client's,
\* whole and in order.
THEOREM PutCorrect ==
  ASSUME ~DiskFull, \E x : Servers = {x} PROVE Spec => []PutComplete
  <1>1. IInv /\ DiskOK /\ OneOK => PutComplete
    BY DoneMeansStored DEF PutComplete
  <1>. QED
    BY <1>1, OneInvariance, PTL

\* With one tftpd and a disk that takes the data, send_file() and recvfile()
\* implement the abstract transfer: what is written, how recvfile() ends, and
\* when send_file() comes to its end.
THEOREM Refinement ==
  ASSUME ~DiskFull, \E x : Servers = {x} PROVE Spec => ImplementsFileTransfer
  <1>1. Init => Abstract!Init
    <2> SUFFICES ASSUME Init PROVE Abstract!Init
      OBVIOUS
    <2>1. sstate[TheServer] = "none" /\ disk = <<>> /\ cstate = "idle"
      BY TheOnlyServer DEF Init
    <2>2. Result = "running" /\ Sent = FALSE
      BY <2>1 DEF Result, Sent
    <2>. QED
      BY <2>1, <2>2 DEF Abstract!Init
  <1>2. IInv /\ IInv' /\ DiskOK /\ OneOK /\ [Next]_vars => [Abstract!Next]_(Abstract!vars)
    BY StepImplements
  <1>. QED
    BY <1>1, <1>2, OneInvariance, PTL DEF Spec, ImplementsFileTransfer, Abstract!Spec
=============================================================================
