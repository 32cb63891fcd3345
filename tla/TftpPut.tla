------------------------------- MODULE TftpPut -------------------------------
(***************************************************************************)
(* "tftp put": send_file() of the client against recvfile() of the tftpd   *)
(* processes, one for every WRQ that reaches the tftp port.  All of them   *)
(* open, and by that truncate, the same file; each has its own offset.     *)
(*                                                                         *)
(* As in TftpGet a process runs from one recv() to the next in one step.   *)
(***************************************************************************)
EXTENDS Tftp

CONSTANT DiskFull     \* whether write() to the server's disk may fail

ASSUME DiskFullAssumption == DiskFull \in BOOLEAN

VARIABLES
    cstate, cblock, ctimeout, cport,  \* the client, as in TftpGet
    sigblocked, \* signals that a longjmp out of a handler left blocked
    sstate, sblock, stimeout,         \* the servers
    spos,       \* file offset of each server, in segments
    disk        \* the segments of the file, Hole where nothing was written

cvars == <<cstate, cblock, ctimeout, cport, sigblocked>>
svars == <<sstate, sblock, stimeout, spos, disk>>
vars == <<netvars, cvars, svars>>

Hole == 0

ClientStates == {"idle", "wait", "done", "aborted", "timedout", "interrupted"}
ServerStates == {"none", "wait", "dally", "done", "exited", "timedout"}

TypeOK ==
    /\ net \subseteq Packets
    /\ sock \in [Endpoints -> Seq(Packets)]
    /\ dups \in Nat
    /\ cstate \in ClientStates
    /\ cblock \in 0 .. NBlocks + 1 /\ ctimeout \in Nat /\ cport \in Endpoints
    /\ sigblocked \subseteq {"SIGALRM", "SIGINT"}
    /\ sstate \in [Servers -> ServerStates]
    /\ sblock \in [Servers -> 1 .. NBlocks]
    /\ stimeout \in [Servers -> Nat] /\ spos \in [Servers -> Nat]
    /\ disk \in Seq(0 .. NBlocks)

Init ==
    /\ NetInit
    /\ cstate = "idle" /\ cblock = 0 /\ ctimeout = 0
    /\ cport = "inetd" /\ sigblocked = {}
    /\ sstate = [s \in Servers |-> "none"] /\ sblock = [s \in Servers |-> 1]
    /\ stimeout = [s \in Servers |-> 0] /\ spos = [s \in Servers |-> 0]
    /\ disk = <<>>

-----------------------------------------------------------------------------
(* The client.                                                             *)

\* What dp holds for block n: the request, then segment n of the file.
Outgoing(dst, n) == IF n = 0 THEN Request("WRQ", dst, 1) ELSE Data("tftp", dst, n, 1)

\* The client sends block n to dst.  A failing sendto ends the transfer.
ClientSends(dst, n) ==
    \/ net' = net \cup {Outgoing(dst, n)} /\ cstate' = "wait"
    \/ IoErrors /\ UNCHANGED net /\ cstate' = "aborted"

\* put(): set_port to the tftp port, enter send_file().
ClientPut ==
    /\ cstate = "idle"
    /\ ClientSends("inetd", 0)
    /\ UNCHANGED <<sock, dups, cblock, ctimeout, cport, sigblocked, svars>>

\* "ap->th_block == block", both as int.
ClientExpectsAny(p) == p.block >= cblock - 1
ClientExpects(p) == p.block = cblock

\* The ACK of the current block: read and send the next one, or come to the
\* end of the loop.  A read error is reported to the server with a nak.
ClientAcked(p) ==
    /\ p.op = "ACK" /\ ClientExpects(p)
    /\ sock' = Popped("tftp")
    /\ cblock' = cblock + 1 /\ ctimeout' = 0
    /\ \/ ~IsLast(cblock) /\ ClientSends(p.from, cblock + 1)
       \/ ~IsLast(cblock) /\ IoErrors /\ net' = net \cup {Nak("tftp", p.from)} /\ cstate' = "aborted"
       \/ IsLast(cblock) /\ UNCHANGED net /\ cstate' = "done"

\* Another ACK: synchnet, and the block again if it is the previous one's.
ClientResync(p) ==
    /\ p.op = "ACK" /\ ~ClientExpects(p)
    /\ sock' = Flushed("tftp")
    /\ IF p.block = cblock - 1 THEN ClientSends(p.from, cblock)
                               ELSE UNCHANGED <<net, cstate>>
    /\ UNCHANGED <<cblock, ctimeout>>

ClientError(p) ==
    /\ p.op = "ERROR"
    /\ cstate' = "aborted" /\ sock' = Popped("tftp")
    /\ UNCHANGED <<net, cblock, ctimeout>>

\* send_file(): one packet received, whoever sent it.
ClientRecv ==
    /\ cstate = "wait" /\ sock["tftp"] # <<>>
    /\ LET p == Head(sock["tftp"])
       IN  cport' = p.from /\ (ClientAcked(p) \/ ClientResync(p) \/ ClientError(p))
    /\ UNCHANGED <<dups, sigblocked, svars>>

\* timer(), as in TftpGet.
ClientTimer ==
    /\ cstate = "wait" /\ sock' \in AfterAlarm("tftp")
    /\ RexmtVal > 0 /\ "SIGALRM" \notin sigblocked
    /\ sigblocked' = IF SetjmpSavesMask THEN sigblocked ELSE sigblocked \cup {"SIGALRM"}
    /\ ctimeout' = Elapsed(ctimeout)
    /\ IF GivesUp(ctimeout) THEN cstate' = "timedout" /\ UNCHANGED net
                            ELSE ClientSends(cport, cblock)
    /\ UNCHANGED <<dups, cblock, cport, svars>>

\* intr().
ClientIntr ==
    /\ cstate = "wait" /\ "SIGINT" \notin sigblocked
    /\ cstate' = "interrupted"
    /\ sigblocked' = IF SetjmpSavesMask THEN sigblocked ELSE sigblocked \cup {"SIGINT"}
    /\ UNCHANGED <<netvars, cblock, ctimeout, cport, svars>>

-----------------------------------------------------------------------------
(* The servers.                                                            *)

ServerExits(s, how) == /\ sstate' = [sstate EXCEPT ![s] = how]
                       /\ sock' = Flushed(s)

\* The server sends the ACK in ackbuf, of block n, its queue becoming q.
ServerSends(s, n, q) ==
    \/ /\ net' = net \cup {Ack(s, "tftp", n)}
       /\ sstate' = [sstate EXCEPT ![s] = "wait"] /\ sock' = q
    \/ /\ IoErrors /\ UNCHANGED net
       /\ sstate' = [sstate EXCEPT ![s] = "exited"] /\ sock' = Emptied(q, s)

\* write_behind() of segment n at the server's offset; its result is ignored,
\* so that a failed write just leaves the segment out.
WriteBehind(s, n) ==
    \/ /\ disk' = [i \in 1 .. IF Len(disk) > spos[s] THEN Len(disk) ELSE spos[s] + 1 |->
                     IF i = spos[s] + 1 THEN n
                     ELSE IF i <= Len(disk) THEN disk[i] ELSE Hole]
       /\ spos' = [spos EXCEPT ![s] = @ + 1]
    \/ DiskFull /\ UNCHANGED <<disk, spos>>

\* main() and tftp() of a new tftpd.  validate_access() opens with O_TRUNC,
\* then recvfile() acknowledges block 0; or the request is refused.
ServerSpawn(s) ==
    /\ sstate[s] = "none" /\ sock["inetd"] # <<>>
    /\ \/ disk' = <<>> /\ ServerSends(s, 0, Popped("inetd"))
       \/ /\ net' \in {net, net \cup {Nak(s, "tftp")}} /\ sock' = Popped("inetd")
          /\ sstate' = [sstate EXCEPT ![s] = "exited"]
          /\ UNCHANGED disk
    /\ UNCHANGED <<dups, cvars, sblock, stimeout, spos>>

\* "dp->th_block == block", both as int.
ServerExpectsPrevious(s, p) == p.block \in {sblock[s] - 1, sblock[s]}
ServerExpects(s, p) == p.block = sblock[s]

\* DATA of the block expected.  The ACK goes out before the block is written;
\* when its sendto fails the block is not written at all.
ServerAccept(s, p) ==
    /\ p.op = "DATA" /\ ServerExpects(s, p)
    /\ \/ /\ ~IsLast(p.seg)
          /\ sblock' = [sblock EXCEPT ![s] = @ + 1]
          /\ stimeout' = [stimeout EXCEPT ![s] = 0]
          /\ ServerSends(s, sblock[s], Popped(s))
          /\ IF sstate'[s] = "wait" THEN WriteBehind(s, p.seg)
                                    ELSE UNCHANGED <<disk, spos>>
       \/ /\ IsLast(p.seg)
          /\ WriteBehind(s, p.seg)
          /\ net' = net \cup {Ack(s, "tftp", sblock[s])}
          /\ sstate' = [sstate EXCEPT ![s] = "dally"] /\ sock' = Popped(s)
          /\ UNCHANGED <<sblock, stimeout>>

\* DATA of another block: synchnet, and the ACK again if it is the last one.
ServerResync(s, p) ==
    /\ p.op = "DATA" /\ ~ServerExpects(s, p)
    /\ IF p.block = sblock[s] - 1
       THEN ServerSends(s, sblock[s] - 1, Flushed(s))
       ELSE sock' = Flushed(s) /\ UNCHANGED <<net, sstate>>
    /\ UNCHANGED <<sblock, stimeout, spos, disk>>

ServerAbort(s, p) ==
    /\ p.op = "ERROR"
    /\ ServerExits(s, "exited")
    /\ UNCHANGED <<net, sblock, stimeout, spos, disk>>

\* recvfile(): one packet received.  Other packets than DATA and ERROR, which
\* it ignores, do not come here: the client has no server's port before ACK 0.
ServerRecv(s) ==
    /\ sstate[s] = "wait" /\ sock[s] # <<>>
    /\ LET p == Head(sock[s])
       IN  ServerAccept(s, p) \/ ServerResync(s, p) \/ ServerAbort(s, p)
    /\ UNCHANGED <<dups, cvars>>

\* recv() fails.
ServerRecvFails(s) ==
    /\ sstate[s] = "wait" /\ IoErrors
    /\ ServerExits(s, "exited")
    /\ UNCHANGED <<net, dups, cvars, sblock, stimeout, spos, disk>>

\* timer().
ServerTimer(s) ==
    /\ sstate[s] = "wait"
    /\ RexmtVal > 0
    /\ stimeout' = [stimeout EXCEPT ![s] = Elapsed(@)]
    /\ IF GivesUp(stimeout[s])
       THEN ServerExits(s, "timedout") /\ UNCHANGED net
       ELSE \E q \in AfterAlarm(s) : ServerSends(s, sblock[s] - 1, q)
    /\ UNCHANGED <<dups, cvars, sblock, spos, disk>>

\* The end of recvfile(): it waits for one more packet (justquit() when the
\* alarm goes off first), reads it into buf, and compares with the final
\* block not buf but dp.  writeit() has left dp on the other of the two
\* buffers, which holds the previous block if any; so nothing is sent.
ServerDally(s) ==
    /\ sstate[s] = "dally"
    /\ sock[s] # <<>> \/ RexmtVal > 0
    /\ ServerExits(s, "done")
    /\ UNCHANGED <<net, dups, cvars, sblock, stimeout, spos, disk>>

-----------------------------------------------------------------------------
Network == /\ \E p \in net : Deliver(p) \/ Lose(p)
           /\ UNCHANGED <<cvars, svars>>

Client == ClientPut \/ ClientRecv \/ ClientTimer \/ ClientIntr

Server(s) == \/ ServerSpawn(s) \/ ServerRecv(s) \/ ServerRecvFails(s)
             \/ ServerTimer(s) \/ ServerDally(s)

Next == Network \/ Client \/ \E s \in Servers : Server(s)

Spec == Init /\ [][Next]_vars

\* As in TftpGet.
Fairness ==
    /\ WF_vars(ClientRecv)
    /\ WF_vars(sock["tftp"] = <<>> /\ ClientTimer)
    /\ \A s \in Servers : /\ WF_vars(ServerRecv(s)) /\ WF_vars(ServerDally(s))
                           /\ WF_vars(sock[s] = <<>> /\ ServerTimer(s))

FairSpec == Spec /\ Fairness

-----------------------------------------------------------------------------
(* Properties.                                                             *)

\* recvfile() of a server: a segment is only ever written to its own place in
\* the file, even when several servers write to it.
DiskOrdered == \A i \in 1 .. Len(disk) : disk[i] \in {i, Hole}

\* send_file() of the client moves past a block only once a server has
\* accepted that block and all blocks before it.
AckedMeansAccepted ==
    IF cstate = "done"
    THEN \E s \in Servers : sstate[s] \in {"dally", "done"}
    ELSE cblock > 0 => \E s \in Servers : sstate[s] # "none" /\ sblock[s] >= cblock

\* "put" puts the file: when send_file() of the client ends normally, the
\* server's file is the client's, whole and in order.
PutComplete == cstate = "done" => disk = [i \in 1 .. NBlocks |-> i]

\* No transfer waits for ever: sendfile() and every recv_file() return, the
\* latter out of its dally too, or their timer gives up.
Terminates ==
    /\ cstate = "wait" ~> cstate # "wait"
    /\ \A s \in Servers : sstate[s] = "wait" ~> sstate[s] \notin {"wait", "dally"}

\* The server's file, its outcome and the client's belief, as the abstract
\* transfer has them.
TheServer == CHOOSE s \in Servers : TRUE
Result == IF sstate[TheServer] \in {"dally", "done"} THEN "complete"
          ELSE IF sstate[TheServer] \in {"none", "wait"} THEN "running" ELSE "failed"
Sent == cstate = "done"
Abstract == INSTANCE FileTransfer WITH file <- disk, result <- Result, sent <- Sent

\* With one server and a disk that takes the data, send_file() and recvfile()
\* implement the abstract transfer.
ImplementsFileTransfer == Abstract!Spec
=============================================================================
