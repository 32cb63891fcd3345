-------------------------------- MODULE Tftp --------------------------------
(***************************************************************************)
(* What the TFTP client (src/src/tftp.c) and the TFTP server               *)
(* (src/src/tftpd.c) share: packets, the UDP network between them and the  *)
(* retransmission timer.  TftpGet and TftpPut add the two transfer         *)
(* directions.                                                             *)
(*                                                                         *)
(* A file is NBlocks segments, of which only the last is shorter than      *)
(* SEGSIZE, so that "size == SEGSIZE" in the code is "seg # NBlocks" here. *)
(* The payload of a DATA packet is abstracted to the segment it carries.   *)
(***************************************************************************)
EXTENDS Integers, Sequences, FiniteSets

CONSTANTS
    Servers,         \* tftpd processes that inetd may come to fork
    NBlocks,         \* number of segments of the file
    BlockMod,        \* 2^16 in the code: th_block is an unsigned short
    RexmtVal,        \* rexmtval, seconds between retransmissions
    MaxTimeout,      \* maxtimeout, seconds spent on one block
    SetjmpSavesMask, \* whether setjmp saves the signal mask on this system
    IoErrors,        \* whether sendto, recv and read may fail
    SockMax,         \* capacity of a socket's receive queue
    MaxDups          \* how many packets the network duplicates

ASSUME TftpAssumption ==
    /\ {"tftp", "inetd"} \cap Servers = {}
    /\ NBlocks \in Nat \ {0}
    /\ BlockMod \in Nat \ {0, 1}
    /\ RexmtVal \in Nat /\ MaxTimeout \in Nat
    /\ SetjmpSavesMask \in BOOLEAN /\ IoErrors \in BOOLEAN
    /\ SockMax \in Nat /\ MaxDups \in Nat

VARIABLES
    net,   \* packets on their way
    sock,  \* receive queue of each socket; "inetd" is the tftp port itself
    dups   \* packets duplicated so far

netvars == <<net, sock, dups>>

Endpoints == Servers \cup {"tftp", "inetd"}

\* th_block of block number n: the (unsigned short) the packet can hold.
WireUncut(n) == n
Wire(n) == n % BlockMod

Opcodes == {"RRQ", "WRQ", "DATA", "ACK", "ERROR"}

Packets == [op: Opcodes, from: Endpoints, to: Endpoints,
            block: 0 .. BlockMod - 1, seg: Nat, file: Nat]

\* A request (makerequest), DATA, ACK and ERROR (nak) packet.  "file" names
\* the transfer a request asks for and the file a DATA segment was read from.
Request(op, dst, f) == [op |-> op, from |-> "tftp", to |-> dst,
                        block |-> 0, seg |-> 0, file |-> f]
Data(src, dst, n, f) == [op |-> "DATA", from |-> src, to |-> dst,
                         block |-> Wire(n), seg |-> n, file |-> f]
Ack(src, dst, n) == [op |-> "ACK", from |-> src, to |-> dst,
                     block |-> Wire(n), seg |-> 0, file |-> 0]
Nak(src, dst) == [op |-> "ERROR", from |-> src, to |-> dst,
                  block |-> 0, seg |-> 0, file |-> 0]

NetInit == /\ net = {}
           /\ sock = [e \in Endpoints |-> <<>>]
           /\ dups = 0

\* The network hands packet p over to the socket it is addressed to, keeping
\* a copy if it duplicates it; p is dropped when the queue is full.
Deliver(p) ==
    /\ p \in net
    /\ sock' = IF Len(sock[p.to]) < SockMax
               THEN [sock EXCEPT ![p.to] = Append(@, p)] ELSE sock
    /\ \/ net' = net \ {p} /\ UNCHANGED dups
       \/ dups < MaxDups /\ dups' = dups + 1 /\ UNCHANGED net

\* The network loses packet p.
Lose(p) == /\ p \in net
           /\ net' = net \ {p}
           /\ UNCHANGED <<sock, dups>>

\* The queues after e has read one packet, and queues q after e has flushed
\* its own (synchnet) or closed its socket (exit).
Popped(e)     == [sock EXCEPT ![e] = Tail(@)]
Emptied(q, e) == [q EXCEPT ![e] = <<>>]
Flushed(e)    == Emptied(sock, e)

\* timer() runs when the alarm goes off, with the process in recv() or on its
\* way from recv() to alarm (0); in the latter case longjmp drops the packet.
AfterAlarm(e) == {sock} \cup {Popped(x) : x \in {y \in {e} : sock[y] # <<>>}}

\* The seconds spent on this block once the alarm has gone off once more.
ElapsedReset(timeout) == RexmtVal
Elapsed(timeout) == timeout + RexmtVal
GivesUp(timeout) == Elapsed(timeout) >= MaxTimeout

\* "size == SEGSIZE" does not hold of segment n.
IsLastEarly(n) == n >= NBlocks - 1
IsLast(n) == n = NBlocks
=============================================================================
