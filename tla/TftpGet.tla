------------------------------- MODULE TftpGet -------------------------------
(***************************************************************************)
(* "tftp get": recvfile() of the client against send_file() of the tftpd   *)
(* processes that inetd starts, one for every request datagram that        *)
(* reaches the tftp port, so that a retransmitted request starts a second  *)
(* server.  All transfers of a session use the same client socket.         *)
(*                                                                         *)
(* A process runs from one return of recv() to the next call of recv() in  *)
(* one step: nothing it does in between waits for anything.                *)
(***************************************************************************)
EXTENDS Tftp

CONSTANT Transfers    \* number of "get" commands the user types

VARIABLES
    xfer,       \* number of the current transfer, 0 before the first
    cstate,     \* what the client does, or how its last transfer ended
    cblock,     \* block
    ctimeout,   \* timeout
    cport,      \* port of peeraddr
    got,        \* segments written to the local file
    sigblocked, \* signals that a longjmp out of a handler left blocked
    sstate, sblock, stimeout,  \* the same of each server
    sfile       \* the transfer each server serves

cvars == <<xfer, cstate, cblock, ctimeout, cport, got, sigblocked>>
svars == <<sstate, sblock, stimeout, sfile>>
vars == <<netvars, cvars, svars>>

ClientStates == {"idle", "wait", "done", "aborted", "timedout", "interrupted"}
ServerStates == {"none", "wait", "done", "exited", "timedout"}

TypeOK ==
    /\ net \subseteq Packets
    /\ sock \in [Endpoints -> Seq(Packets)]
    /\ dups \in Nat
    /\ xfer \in Nat
    /\ cstate \in ClientStates
    /\ cblock \in Nat \ {0} /\ ctimeout \in Nat /\ cport \in Endpoints
    /\ got \in Seq([seg: Nat, file: Nat])
    /\ sigblocked \subseteq {"SIGALRM", "SIGINT"}
    /\ sstate \in [Servers -> ServerStates]
    /\ sblock \in [Servers -> Nat \ {0}] /\ stimeout \in [Servers -> Nat]
    /\ sfile \in [Servers -> Nat]

Init ==
    /\ NetInit
    /\ xfer = 0 /\ cstate = "idle" /\ cblock = 1 /\ ctimeout = 0
    /\ cport = "inetd" /\ got = <<>> /\ sigblocked = {}
    /\ sstate = [s \in Servers |-> "none"]
    /\ sblock = [s \in Servers |-> 1] /\ stimeout = [s \in Servers |-> 0]
    /\ sfile = [s \in Servers |-> 0]

-----------------------------------------------------------------------------
(* The client.                                                             *)

\* The client calls sendto() with packet p to port dst, block being blk; when
\* sendto fails it leaves with the acknowledgement under the label "abort".
ClientSends(p, dst, blk) ==
    \/ net' = net \cup {p} /\ cstate' = "wait"
    \/ IoErrors /\ net' = net \cup {Ack("tftp", dst, blk)} /\ cstate' = "aborted"

\* What ackbuf holds: the request, then the ACK of the last block stored.
AckBufAhead(dst) == IF cblock = 1 THEN Request("RRQ", dst, xfer)
                                  ELSE Ack("tftp", dst, cblock)
AckBuf(dst) == IF cblock = 1 THEN Request("RRQ", dst, xfer)
                             ELSE Ack("tftp", dst, cblock - 1)

\* get(): creat the local file, set_port to the tftp port, enter recvfile().
ClientGet ==
    /\ cstate # "wait"
    /\ xfer < Transfers
    /\ xfer' = xfer + 1 /\ cblock' = 1 /\ ctimeout' = 0
    /\ cport' = "inetd" /\ got' = <<>>
    /\ ClientSends(Request("RRQ", "inetd", xfer + 1), "inetd", 1)
    /\ UNCHANGED <<sock, dups, sigblocked, svars>>

\* "dp->th_block == block", both as int: block is not cut to 16 bits.
ExpectsPrevious(p) == p.block \in {cblock - 1, cblock}
Expects(p) == p.block = cblock

\* DATA of the block expected: writeit, then either the next round of the
\* loop, which acknowledges it and flushes the buffer, or the final ACK.
ClientAccept(p) ==
    /\ p.op = "DATA" /\ Expects(p)
    /\ got' = Append(got, [seg |-> p.seg, file |-> p.file])
    /\ sock' = Popped("tftp")
    /\ \/ /\ ~IsLast(p.seg)
          /\ cblock' = cblock + 1 /\ ctimeout' = 0
          /\ ClientSends(Ack("tftp", p.from, cblock), p.from, cblock + 1)
       \/ /\ IsLast(p.seg)
          /\ net' = net \cup {Ack("tftp", p.from, cblock)} /\ cstate' = "done"
          /\ UNCHANGED <<cblock, ctimeout>>

\* DATA of another block: synchnet, and ackbuf again if it is the last one.
ClientResync(p) ==
    /\ p.op = "DATA" /\ ~Expects(p)
    /\ sock' = Flushed("tftp")
    /\ IF p.block = cblock - 1
       THEN ClientSends(AckBuf(p.from), p.from, cblock)
       ELSE UNCHANGED <<net, cstate>>
    /\ UNCHANGED <<cblock, ctimeout, got>>

ClientError(p) ==
    /\ p.op = "ERROR"
    /\ net' = net \cup {Ack("tftp", p.from, cblock)} /\ cstate' = "aborted"
    /\ sock' = Popped("tftp")
    /\ UNCHANGED <<cblock, ctimeout, got>>

\* recvfile(): one packet received, whoever sent it; its port becomes the
\* peer's.  It ignores other packets than DATA and ERROR, which no server sends.
ClientRecv ==
    /\ cstate = "wait" /\ sock["tftp"] # <<>>
    /\ LET p == Head(sock["tftp"])
       IN  /\ cport' = p.from
           /\ ClientAccept(p) \/ ClientResync(p) \/ ClientError(p)
    /\ UNCHANGED <<dups, xfer, sigblocked, svars>>

\* timer().  longjmp leaves the handler with SIGALRM blocked unless setjmp
\* saved the mask.
ClientTimer ==
    /\ cstate = "wait" /\ sock' \in AfterAlarm("tftp")
    /\ RexmtVal > 0 /\ "SIGALRM" \notin sigblocked
    /\ sigblocked' = IF SetjmpSavesMask THEN sigblocked ELSE sigblocked \cup {"SIGALRM"}
    /\ ctimeout' = Elapsed(ctimeout)
    /\ IF GivesUp(ctimeout) THEN cstate' = "timedout" /\ UNCHANGED net
                            ELSE ClientSends(AckBuf(cport), cport, cblock)
    /\ UNCHANGED <<dups, xfer, cblock, cport, got, svars>>

\* intr(): the user interrupts the transfer.
ClientIntr ==
    /\ cstate = "wait" /\ "SIGINT" \notin sigblocked
    /\ cstate' = "interrupted"
    /\ sigblocked' = IF SetjmpSavesMask THEN sigblocked ELSE sigblocked \cup {"SIGINT"}
    /\ UNCHANGED <<netvars, xfer, cblock, ctimeout, cport, got, svars>>

-----------------------------------------------------------------------------
(* The servers.                                                            *)

ServerExits(s, how) == /\ sstate' = [sstate EXCEPT ![s] = how]
                       /\ sock' = Flushed(s)

\* A server sends block n of its file, its queue becoming q; a sendto error
\* only goes to the log.
ServerSends(s, n, f, q) ==
    \/ /\ net' = net \cup {Data(s, "tftp", n, f)}
       /\ sstate' = [sstate EXCEPT ![s] = "wait"] /\ sock' = q
    \/ /\ IoErrors /\ UNCHANGED net
       /\ sstate' = [sstate EXCEPT ![s] = "exited"] /\ sock' = Emptied(q, s)

\* It reads the block first; a read error is reported to the client.
ServerReads(s, n, f, q) ==
    \/ ServerSends(s, n, f, q)
    \/ /\ IoErrors /\ net' = net \cup {Nak(s, "tftp")}
       /\ sstate' = [sstate EXCEPT ![s] = "exited"] /\ sock' = Emptied(q, s)

\* main() and tftp() of a new tftpd on the datagram read from the tftp port:
\* the file is opened and its first block sent, or the request is refused
\* with a nak, or the process exits silently (suppressed nak, not a request).
ServerSpawn(s) ==
    /\ sstate[s] = "none" /\ sock["inetd"] # <<>>
    /\ LET p == Head(sock["inetd"])
       IN  /\ sfile' = [sfile EXCEPT ![s] = p.file]
           /\ \/ p.op = "RRQ" /\ ServerReads(s, 1, p.file, Popped("inetd"))
              \/ /\ p.op = "RRQ" /\ net' = net \cup {Nak(s, "tftp")}
                 /\ sstate' = [sstate EXCEPT ![s] = "exited"] /\ sock' = Popped("inetd")
              \/ /\ UNCHANGED net
                 /\ sstate' = [sstate EXCEPT ![s] = "exited"] /\ sock' = Popped("inetd")
    /\ UNCHANGED <<dups, cvars, sblock, stimeout>>

\* The ACK of the current block: the next block, or the end of the loop.
ServerAcked(s, p) ==
    /\ p.op = "ACK" /\ p.block = Wire(sblock[s])
    /\ \/ /\ ~IsLast(sblock[s])
          /\ sblock' = [sblock EXCEPT ![s] = @ + 1]
          /\ stimeout' = [stimeout EXCEPT ![s] = 0]
          /\ ServerReads(s, sblock[s] + 1, sfile[s], Popped(s))
       \/ /\ IsLast(sblock[s])
          /\ ServerExits(s, "done")
          /\ UNCHANGED <<net, sblock, stimeout>>

\* Another ACK: synchnet, and the block again if it is the previous one's.
ServerResync(s, p) ==
    /\ p.op = "ACK" /\ p.block # Wire(sblock[s])
    /\ IF p.block = Wire(sblock[s] - 1)
       THEN ServerSends(s, sblock[s], sfile[s], Flushed(s))
       ELSE sock' = Flushed(s) /\ UNCHANGED <<net, sstate>>
    /\ UNCHANGED <<sblock, stimeout>>

ServerAbort(s, p) ==
    /\ p.op = "ERROR"
    /\ ServerExits(s, "exited")
    /\ UNCHANGED <<net, sblock, stimeout>>

ServerIgnore(s, p) ==
    /\ p.op \notin {"ACK", "ERROR"}
    /\ sock' = Popped(s)
    /\ UNCHANGED <<net, sstate, sblock, stimeout>>

\* send_file(): one packet received.
ServerRecv(s) ==
    /\ sstate[s] = "wait" /\ sock[s] # <<>>
    /\ LET p == Head(sock[s])
       IN  ServerAcked(s, p) \/ ServerResync(s, p) \/ ServerAbort(s, p) \/ ServerIgnore(s, p)
    /\ UNCHANGED <<dups, cvars, sfile>>

\* recv() fails.
ServerRecvFails(s) ==
    /\ sstate[s] = "wait" /\ IoErrors
    /\ ServerExits(s, "exited")
    /\ UNCHANGED <<net, dups, cvars, sblock, stimeout, sfile>>

\* timer(): sigsetjmp restores the mask, so the alarm can go off again.
ServerTimer(s) ==
    /\ sstate[s] = "wait"
    /\ RexmtVal > 0
    /\ stimeout' = [stimeout EXCEPT ![s] = Elapsed(@)]
    /\ IF GivesUp(stimeout[s])
       THEN ServerExits(s, "timedout") /\ UNCHANGED net
       ELSE \E q \in AfterAlarm(s) : ServerSends(s, sblock[s], sfile[s], q)
    /\ UNCHANGED <<dups, cvars, sblock, sfile>>

-----------------------------------------------------------------------------
Network == /\ \E p \in net : Deliver(p) \/ Lose(p)
           /\ UNCHANGED <<cvars, svars>>

Client == ClientGet \/ ClientRecv \/ ClientTimer \/ ClientIntr

Server(s) == ServerSpawn(s) \/ ServerRecv(s) \/ ServerRecvFails(s) \/ ServerTimer(s)

Next == Network \/ Client \/ \E s \in Servers : Server(s)

Spec == Init /\ [][Next]_vars

\* Processes keep running, and the alarm goes off once a process has waited
\* long enough; nothing is assumed of the network or of the user.
Fairness ==
    /\ WF_vars(ClientRecv)
    /\ WF_vars(sock["tftp"] = <<>> /\ ClientTimer)
    /\ \A s \in Servers : /\ WF_vars(ServerRecv(s))
                           /\ WF_vars(sock[s] = <<>> /\ ServerTimer(s))

FairSpec == Spec /\ Fairness

-----------------------------------------------------------------------------
(* Properties.                                                             *)

\* recvfile() of the client: whatever the network loses, delays, repeats or
\* reorders, and however many servers answer, the local file holds segments
\* 1, 2, 3, ... of the file asked for, each once and in this order.
InOrder == \A i \in 1 .. Len(got) : got[i] = [seg |-> i, file |-> xfer]

\* recvfile() of the client comes to its normal end only with the whole file
\* stored.  The comparison of an int with the 16 bits of th_block makes that
\* impossible for a file of BlockMod segments or more.
DoneMeansComplete ==
    cstate = "done" => Len(got) = NBlocks /\ NBlocks < BlockMod

\* send_file() of a server ends normally only if the client has stored the
\* whole file, or else has left recvfile() through "abort", where it
\* acknowledges a block that it does not have.
ServerDoneMeansDelivered ==
    \A s \in Servers : sstate[s] = "done" /\ sfile[s] = xfer
                          => cstate = "aborted" \/ Len(got) = NBlocks

\* No transfer waits for ever: recvfile() and every send_file() return, or
\* their timer gives up.
Terminates ==
    /\ cstate = "wait" ~> cstate # "wait"
    /\ \A s \in Servers : sstate[s] = "wait" ~> sstate[s] # "wait"

\* The file and the outcome of the client, and the servers' belief, as the
\* abstract transfer has them.
File   == [i \in 1 .. Len(got) |-> got[i].seg]
Result == IF cstate = "done" THEN "complete"
          ELSE IF cstate \in {"idle", "wait"} THEN "running" ELSE "failed"
Sent   == \E s \in Servers : sstate[s] = "done"
Abstract == INSTANCE FileTransfer WITH file <- File, result <- Result, sent <- Sent

\* recvfile() and send_file() together implement the abstract transfer: the
\* local file grows by the next segment only, "complete" and "sent" are true.
ImplementsFileTransfer == Abstract!Spec
=============================================================================
