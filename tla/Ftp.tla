--------------------------------- MODULE Ftp ---------------------------------
(***************************************************************************)
(* One session of ftp (src/ftp/ftp.c) with ftpd (src/ftpd/ftpd.c,          *)
(* ftpcmd.y): commands and replies on the control connection, one data     *)
(* connection for each transfer, opened by the server (PORT) or by the     *)
(* client (PASV), and the ways out of a transfer: the interrupt key, the   *)
(* ABOR command announced by urgent data, failing files and connections,   *)
(* and the end of the server.                                              *)
(*                                                                         *)
(* A file is a number of units.  A command other than those of a transfer  *)
(* is NOOP; the session is logged in.                                      *)
(***************************************************************************)
EXTENDS Integers, Sequences

CONSTANTS
    Cmds,        \* the transfers the user asks for, among RETR, NLST and STOR
    FileSize,    \* units of every file
    PipeSize,    \* units a data connection holds
    MaxXfers,    \* bound: transfers; they number the data connections
    MaxNoops,    \* bound: other commands
    MaxIntrs,    \* bound: interrupts
    GapIntr      \* whether an interrupt may come between a transfer's last data
                 \* and the call of getreply() that follows it

Xfers == 1 .. MaxXfers
ASSUME FtpAssumption ==
    /\ Cmds \subseteq {"RETR", "NLST", "STOR"}
    /\ {FileSize, PipeSize, MaxXfers, MaxNoops, MaxIntrs} \subseteq Nat /\ PipeSize > 0
    /\ GapIntr \in BOOLEAN

VARIABLES
    c,      \* the client: see ClientState
    s,      \* the server: see ServerState
    toS,    \* commands on their way to the server: <<name, number>>
    toC,    \* replies on their way to the client
    urg,    \* whether SIGURG is pending in the server
    conn,   \* the data connections
    xfers, noops, intrs

vars == <<c, s, toS, toC, urg, conn, xfers, noops, intrs>>

Codes == {125, 150, 200, 225, 226, 227, 421, 425, 426, 452, 550, 551}

\* Client: where it is; the transfer in hand and its number; passivemode;
\* cpend; abrtflag; code of the last reply; the descriptors data ("listen",
\* "conn" or "none") and din; units moved; whether the transfer was aborted or
\* an error of the local file reported; whether the last of what has come is
\* not in the local file and nobody was told.
ClientState ==
    [pc: {"prompt", "noop", "init", "ready", "start", "accept", "data", "gap", "final",
          "select", "drain", "abor1", "abor2", "sabort", "lost", "spin", "crash"},
     cmd: {"none"} \cup Cmds, x: 0 .. MaxXfers, pasv: BOOLEAN, cpend: BOOLEAN, abrt: BOOLEAN,
     code: {-1, 0} \cup Codes, data: {"none", "listen", "conn"}, din: BOOLEAN,
     got: 0 .. FileSize, aborted: BOOLEAN, cut: BOOLEAN]

\* Server: where it is; the command in hand; data and pdata as numbers of data
\* connections, 0 for -1; whether pdata still listens; where PORT points to, 0
\* for usedefault; the connection in use; units moved; the reply to come.
ServerState ==
    [pc: {"idle", "dataconn", "opened", "xfer", "reply", "close", "dead"},
     cmd: {"none"} \cup Cmds, data: 0 .. MaxXfers, pdata: 0 .. MaxXfers, listens: BOOLEAN,
     dest: 0 .. MaxXfers, use: 0 .. MaxXfers, moved: 0 .. FileSize, say: {0} \cup Codes]

\* A data connection: established, units under way, closed by client, by server.
Conn == [est: BOOLEAN, n: 0 .. PipeSize, cEnd: BOOLEAN, sEnd: BOOLEAN]

TypeOK ==
    /\ c \in ClientState /\ s \in ServerState
    /\ toS \in Seq(({"NOOP", "PORT", "PASV", "ABOR"} \cup Cmds) \X (0 .. MaxXfers))
    /\ toC \in Seq(Codes)
    /\ urg \in BOOLEAN /\ conn \in [Xfers -> Conn]
    /\ xfers \in 0 .. MaxXfers /\ noops \in 0 .. MaxNoops /\ intrs \in 0 .. MaxIntrs

Init ==
    /\ c = [pc |-> "prompt", cmd |-> "none", x |-> 0, pasv |-> FALSE, cpend |-> FALSE,
            abrt |-> FALSE, code |-> 0, data |-> "none", din |-> FALSE, got |-> 0,
            aborted |-> FALSE, cut |-> FALSE]
    /\ s = [pc |-> "idle", cmd |-> "none", data |-> 0, pdata |-> 0, listens |-> FALSE,
            dest |-> 0, use |-> 0, moved |-> 0, say |-> 0]
    /\ toS = <<>> /\ toC = <<>> /\ urg = FALSE
    /\ conn = [x \in Xfers |-> [est |-> FALSE, n |-> 0, cEnd |-> FALSE, sEnd |-> FALSE]]
    /\ xfers = 0 /\ noops = 0 /\ intrs = 0

-----------------------------------------------------------------------------
(* The client.  command() sends a line, sets cpend and waits in getreply().*)

Receives == c.cmd \in {"RETR", "NLST"}
Command(name) == toS' = Append(toS, <<name, c.x>>)
AtPrompt(r) == [r EXCEPT !.pc = "prompt", !.abrt = FALSE]
ClosesData == conn' = IF c.data = "none" \/ c.x = 0 THEN conn
                      ELSE [conn EXCEPT ![c.x].cEnd = TRUE]
bounds == <<xfers, noops, intrs>>

Noop ==
    /\ c.pc = "prompt" /\ noops < MaxNoops
    /\ noops' = noops + 1
    /\ c' = [c EXCEPT !.pc = "noop", !.cpend = TRUE]
    /\ toS' = Append(toS, <<"NOOP", 0>>)
    /\ UNCHANGED <<s, toC, urg, conn, xfers, intrs>>

\* sendrequest() and recvrequest() up to the first command of initconn(),
\* which listens, after closing a data socket left over, unless it is passive.
\* The row of EPSV, PASV and LPSV, or EPRT, PORT and LPRT, is one command.
Request(cmd, pasv) ==
    /\ c.pc = "prompt" /\ xfers < MaxXfers
    /\ xfers' = xfers + 1
    /\ c' = [c EXCEPT !.pc = "init", !.cmd = cmd, !.x = xfers', !.pasv = pasv, !.cpend = TRUE,
                      !.data = IF pasv THEN "none" ELSE "listen", !.din = FALSE, !.got = 0,
                      !.aborted = FALSE, !.cut = FALSE]
    /\ IF pasv THEN UNCHANGED conn ELSE ClosesData
    /\ toS' = Append(toS, IF pasv THEN <<"PASV", xfers'>> ELSE <<"PORT", xfers'>>)
    /\ UNCHANGED <<s, toC, urg, noops, intrs>>

\* getreply(): the next reply is read, cpend is cleared unless it is a
\* preliminary one; at the end of the connection, lostpeer().
Prelim(code) == code \in 100 .. 199
Complete(code) == code \in 200 .. 299
CanRead == toC # <<>>
Getreply == toC' = Tail(toC)
Replied(r) == [r EXCEPT !.code = Head(toC), !.cpend = IF Prelim(Head(toC)) THEN @ ELSE FALSE]
EndOfReplies == toC = <<>> /\ s.pc = "dead"
Waiting == c.pc \in {"noop", "init", "start", "final", "abor1", "abor2", "sabort"}

\* 421, or the end of the control connection: lostpeer().  At the end of the
\* connection cpend stays set: after an interrupt, the loop "while (cpend)
\* getreply (0)" never ends, and abort_remote() writes to no control connection.
LostPeer ==
    /\ Waiting
    /\ EndOfReplies \/ (CanRead /\ Head(toC) = 421)
    /\ c' = [c EXCEPT !.pc = IF ~c.abrt \/ CanRead THEN "lost"
                             ELSE IF c.pc = "init" THEN "spin"
                             ELSE IF c.pc = "start" /\ Receives THEN "crash" ELSE "lost",
                      !.code = 421, !.data = "none", !.din = FALSE]
    /\ ClosesData
    /\ UNCHANGED <<s, toS, toC, urg, bounds>>

CanAnswer(pc) == c.pc = pc /\ CanRead /\ Head(toC) # 421

NoopReply ==
    /\ CanAnswer("noop") /\ Getreply
    /\ c' = AtPrompt(Replied(c))
    /\ UNCHANGED <<s, toS, urg, conn, bounds>>

\* initconn(): the answer to PORT or PASV.  An interrupt noted by cmdabort() is
\* acted on now: the first setjmp(), where the data socket is closed.  If PORT
\* is refused, the socket stays for the next initconn() to close.
InitReply ==
    /\ CanAnswer("init") /\ Getreply
    /\ LET r == Replied(c)
           up == c.pasv /\ s.listens /\ s.pdata = c.x
       IN  \/ /\ c.abrt
              /\ c' = [AtPrompt(r) EXCEPT !.data = "none", !.aborted = TRUE, !.code = -1]
              /\ ClosesData
           \/ /\ ~Complete(r.code) /\ ~c.abrt
              /\ c' = [AtPrompt(r) EXCEPT !.code = -1]
              /\ UNCHANGED conn
           \/ /\ Complete(r.code) /\ ~c.abrt /\ (up \/ ~c.pasv)
              /\ c' = [r EXCEPT !.pc = "ready", !.data = IF c.pasv THEN "conn" ELSE "listen"]
              /\ conn' = IF c.pasv THEN [conn EXCEPT ![c.x].est = TRUE] ELSE conn
           \/ /\ Complete(r.code) /\ ~c.abrt /\ ~up /\ c.pasv  \* connect() fails
              /\ c' = [AtPrompt(r) EXCEPT !.code = -1]
              /\ UNCHANGED conn
    /\ UNCHANGED <<s, toS, urg, bounds>>

SendStart ==
    /\ c.pc = "ready"
    /\ c' = [c EXCEPT !.pc = "start", !.cpend = TRUE]
    /\ Command(c.cmd)
    /\ UNCHANGED <<s, toC, urg, conn, bounds>>

\* recvrequest() at "abort": abort_remote() sends IP and Synch, then ABOR.
AbortRecv(r) ==
    /\ c' = [r EXCEPT !.pc = "select", !.abrt = FALSE, !.aborted = TRUE]
    /\ urg' = TRUE /\ Command("ABOR")
    /\ UNCHANGED conn
\* sendrequest() at "abort": the data connection is closed.
AbortSend(r) ==
    /\ c' = [r EXCEPT !.pc = "sabort", !.data = "none", !.din = FALSE, !.abrt = FALSE,
                      !.aborted = TRUE]
    /\ ClosesData
    /\ UNCHANGED <<urg, toS>>
AbortXfer(r) ==
    IF ~r.cpend THEN c' = [AtPrompt(r) EXCEPT !.code = -1, !.aborted = TRUE] /\ UNCHANGED <<urg, toS, conn>>
    ELSE IF Receives THEN AbortRecv(r) ELSE AbortSend(r)

\* The first reply to RETR, NLST or STOR.
StartReply ==
    /\ CanAnswer("start") /\ Getreply
    /\ LET r == Replied(c)
       IN  IF c.abrt THEN AbortXfer(r)
           ELSE /\ c' = IF Prelim(r.code) THEN [r EXCEPT !.pc = "accept"] ELSE AtPrompt(r)
                /\ UNCHANGED <<toS, urg, conn>>
    /\ UNCHANGED <<s, bounds>>

\* dataconn(): accept(), unless the client has connected itself.
Accept ==
    /\ c.pc = "accept" /\ (c.data = "conn" \/ conn[c.x].est)
    /\ c' = [c EXCEPT !.pc = "data", !.data = "conn", !.din = TRUE]
    /\ UNCHANGED <<s, toS, toC, urg, conn, bounds>>

\* accept() fails: the request is aborted without a data connection.
AcceptFails ==
    /\ c.pc = "accept" /\ c.data = "listen"
    /\ c' = [c EXCEPT !.pc = IF Receives THEN "select" ELSE "sabort", !.data = "none",
                      !.aborted = TRUE]
    /\ conn' = [conn EXCEPT ![c.x].cEnd = TRUE]
    /\ IF Receives THEN urg' = TRUE /\ Command("ABOR") ELSE UNCHANGED <<urg, toS>>
    /\ UNCHANGED <<s, toC, bounds>>

\* The local file cannot be opened (popen, fopen): recvrequest() aborts.
OpenFails ==
    /\ c.pc = "data" /\ Receives /\ c.got = 0
    /\ AbortXfer(c)
    /\ UNCHANGED <<s, toC, bounds>>

RecvUnit ==
    /\ c.pc = "data" /\ Receives /\ conn[c.x].n > 0
    /\ conn' = [conn EXCEPT ![c.x].n = @ - 1]
    /\ c' = [c EXCEPT !.got = @ + 1]
    /\ UNCHANGED <<s, toS, toC, urg, bounds>>
SendUnit ==
    /\ c.pc = "data" /\ ~Receives /\ c.got < FileSize
    /\ conn[c.x].n < PipeSize /\ ~conn[c.x].sEnd
    /\ conn' = [conn EXCEPT ![c.x].n = @ + 1]
    /\ c' = [c EXCEPT !.got = @ + 1]
    /\ UNCHANGED <<s, toS, toC, urg, bounds>>

\* The end of the data, of the local file, or an error of the connection: the
\* descriptors are closed and SIGINT gets its old action back.
EndOfData ==
    IF Receives THEN conn[c.x].n = 0 /\ conn[c.x].sEnd
    ELSE c.got = FileSize \/ conn[c.x].sEnd
CloseLocal(told, cut) ==
    /\ conn' = [conn EXCEPT ![c.x].cEnd = TRUE]
    /\ c' = [c EXCEPT !.pc = IF Receives THEN "gap" ELSE "final", !.data = "none",
                      !.din = FALSE, !.aborted = told, !.cut = cut]
    /\ UNCHANGED <<s, toS, toC, urg, bounds>>
DataDone == c.pc = "data" /\ EndOfData /\ CloseLocal(FALSE, FALSE)
\* The local file cannot be written or read on: the user is told.
LocalError == c.pc = "data" /\ CloseLocal(TRUE, FALSE)
\* In ASCII mode the last buffer is written by fclose(), whose result nobody
\* looks at: if that fails, the user is not told.
CloseFails == c.pc = "data" /\ Receives /\ c.got > 0 /\ EndOfData /\ CloseLocal(FALSE, TRUE)
CallGetreply ==
    /\ c.pc = "gap"
    /\ c' = [c EXCEPT !.pc = "final"]
    /\ UNCHANGED <<s, toS, toC, urg, conn, bounds>>
FinalReply ==
    /\ CanAnswer("final") /\ Getreply
    /\ c' = [AtPrompt(Replied(c)) EXCEPT !.aborted = @ \/ c.abrt]
    /\ UNCHANGED <<s, toS, urg, conn, bounds>>

\* abort_remote(): select() for ten seconds on the control connection and din.
DinReady == c.din /\ (conn[c.x].n > 0 \/ conn[c.x].sEnd)
SelectReady ==
    /\ c.pc = "select" /\ (CanRead \/ s.pc = "dead" \/ DinReady)
    /\ c' = [c EXCEPT !.pc = IF DinReady THEN "drain" ELSE "abor1"]
    /\ UNCHANGED <<s, toS, toC, urg, conn, bounds>>
SelectForever == FALSE /\ UNCHANGED vars
SelectTimeout ==
    /\ c.pc = "select" /\ ~CanRead /\ s.pc # "dead" /\ ~DinReady
    /\ c' = [c EXCEPT !.pc = "lost", !.data = "none", !.din = FALSE]
    /\ ClosesData
    /\ UNCHANGED <<s, toS, toC, urg, bounds>>
Drain ==
    /\ c.pc = "drain" /\ DinReady
    /\ IF conn[c.x].n > 0
       THEN conn' = [conn EXCEPT ![c.x].n = @ - 1] /\ UNCHANGED c
       ELSE c' = [c EXCEPT !.pc = "abor1"] /\ UNCHANGED conn
    /\ UNCHANGED <<s, toS, toC, urg, bounds>>

\* abort_remote(): the reply for the transfer and the reply for ABOR.
AborReplyOnly ==
    /\ CanAnswer("abor1") /\ Getreply
    /\ c' = [AtPrompt(Replied(c)) EXCEPT !.code = -1, !.data = "none", !.din = FALSE]
    /\ ClosesData
    /\ UNCHANGED <<s, toS, urg, bounds>>
AborReply1 ==
    /\ CanAnswer("abor1") /\ Getreply
    /\ c' = [Replied(c) EXCEPT !.pc = "abor2"]
    /\ UNCHANGED <<s, toS, urg, conn, bounds>>
AborReply2 ==
    /\ CanAnswer("abor2") /\ Getreply
    /\ c' = [AtPrompt(Replied(c)) EXCEPT !.code = -1, !.data = "none", !.din = FALSE]
    /\ ClosesData
    /\ UNCHANGED <<s, toS, urg, bounds>>
SabortReply ==
    /\ CanAnswer("sabort") /\ Getreply
    /\ c' = [AtPrompt(Replied(c)) EXCEPT !.code = -1]
    /\ UNCHANGED <<s, toS, urg, conn, bounds>>

\* SIGINT.  While a reply is awaited cmdabort() sets a flag, and the action is
\* taken after the reply; it is ignored during abort_remote().  In "gap" it
\* finds the action of the main program, which goes back to the prompt.
Interrupt ==
    /\ intrs < MaxIntrs /\ intrs' = intrs + 1
    /\ c.pc \in {"noop", "init", "start", "final", "sabort", "ready", "accept", "data"} \/ (c.pc = "gap" /\ GapIntr)
    /\ IF c.pc \in {"ready", "accept", "data"} THEN AbortXfer(c)
       ELSE /\ c' = IF c.pc = "gap" THEN [AtPrompt(c) EXCEPT !.aborted = TRUE]
                    ELSE [c EXCEPT !.abrt = TRUE]
            /\ UNCHANGED <<toS, urg, conn>>
    /\ UNCHANGED <<s, toC, xfers, noops>>

-----------------------------------------------------------------------------
(* The server.                                                             *)

Reply(code) == toC' = Append(toC, code)
ClosesEnd(x) == IF x = 0 THEN conn ELSE [conn EXCEPT ![x].sEnd = TRUE]
clientside == <<c, bounds>>

\* yyparse() takes the next command.  The urgent mark precedes ABOR, so its
\* signal has come before the line is read.
TakesCommand(names) ==
    /\ s.pc = "idle" /\ toS # <<>> /\ Head(toS)[1] \in names
    /\ Head(toS)[1] = "ABOR" => ~urg
    /\ toS' = Tail(toS)

SrvNoop ==
    /\ TakesCommand({"NOOP", "ABOR"})
    /\ Reply(IF Head(toS)[1] = "NOOP" THEN 200 ELSE 225)
    /\ UNCHANGED <<clientside, s, urg, conn>>

SrvPort ==
    /\ TakesCommand({"PORT"}) /\ Reply(200)
    /\ s' = [s EXCEPT !.dest = Head(toS)[2], !.pdata = 0, !.listens = FALSE]
    /\ conn' = ClosesEnd(s.pdata)
    /\ UNCHANGED <<clientside, urg>>

\* passive(), which forgets an older socket without closing it.
SrvPasv(works) ==
    /\ TakesCommand({"PASV"}) /\ Reply(IF works THEN 227 ELSE 425)
    /\ s' = [s EXCEPT !.pdata = IF works THEN Head(toS)[2] ELSE 0, !.listens = works]
    /\ UNCHANGED <<clientside, urg, conn>>

\* retrieve(), store() and send_file_list(): the file is opened first.
SrvOpenFile ==
    /\ TakesCommand(Cmds)
    /\ s' = [s EXCEPT !.pc = "dataconn", !.cmd = Head(toS)[1], !.moved = 0]
    /\ UNCHANGED <<clientside, toC, urg, conn>>
SrvNoFile ==
    /\ TakesCommand(Cmds) /\ Reply(550)
    /\ UNCHANGED <<clientside, s, urg, conn>>

\* dataconn(): a passive socket, or the connection there is, or a new one to
\* the port the client has named.
SrvDataconn ==
    /\ s.pc = "dataconn"
    /\ \/ /\ s.pdata # 0 /\ s.listens /\ conn[s.pdata].est
          /\ s' = [s EXCEPT !.pc = "opened", !.listens = FALSE, !.use = s.pdata]
          /\ Reply(150) /\ UNCHANGED conn
       \/ /\ s.pdata = 0 /\ s.data # 0
          /\ s' = [s EXCEPT !.pc = "opened", !.use = s.data, !.dest = 0]
          /\ Reply(125) /\ UNCHANGED conn
       \/ /\ s.pdata = 0 /\ s.data = 0 /\ s.dest # 0
          /\ c.data = "listen" /\ c.x = s.dest
          /\ s' = [s EXCEPT !.pc = "opened", !.data = s.dest, !.use = s.dest, !.dest = 0]
          /\ conn' = [conn EXCEPT ![s.dest].est = TRUE]
          /\ Reply(150)
    /\ UNCHANGED <<clientside, toS, urg>>
\* accept() or connect() fails.
SrvNoDataconn ==
    /\ s.pc = "dataconn" /\ (s.pdata # 0 \/ s.data = 0)
    /\ s' = [s EXCEPT !.pc = "idle", !.pdata = 0, !.listens = FALSE,
                      !.dest = IF s.pdata # 0 THEN @ ELSE 0]
    /\ conn' = ClosesEnd(s.pdata)
    /\ Reply(425)
    /\ UNCHANGED <<clientside, toS, urg>>

\* transflag is set; until then myoob() does nothing.
SrvTransflag ==
    /\ s.pc = "opened"
    /\ s' = [s EXCEPT !.pc = "xfer"]
    /\ UNCHANGED <<clientside, toS, toC, urg, conn>>

Sends == s.cmd \in {"RETR", "NLST"}
SrvSend ==
    /\ s.pc = "xfer" /\ Sends /\ s.moved < FileSize
    /\ conn[s.use].n < PipeSize /\ ~conn[s.use].cEnd
    /\ conn' = [conn EXCEPT ![s.use].n = @ + 1]
    /\ s' = [s EXCEPT !.moved = @ + 1]
    /\ UNCHANGED <<clientside, toS, toC, urg>>
SrvReceive ==
    /\ s.pc = "xfer" /\ ~Sends /\ conn[s.use].n > 0
    /\ conn' = [conn EXCEPT ![s.use].n = @ - 1]
    /\ s' = [s EXCEPT !.moved = @ + 1]
    /\ UNCHANGED <<clientside, toS, toC, urg>>

\* Replies that may end the transfer in the state it is in: all done; the file
\* fails; the connection fails, with an error or with SIGPIPE (SrvDies).
OutcomesOptimist == {226}
Outcomes ==
    LET all == IF Sends THEN s.moved = FileSize ELSE conn[s.use].n = 0 /\ conn[s.use].cEnd
    IN  (IF all THEN {226} ELSE {IF Sends THEN 551 ELSE 452})
        \cup (IF conn[s.use].cEnd /\ ~all THEN {426} ELSE {})
SrvEnds(code) ==
    /\ s.pc = "xfer" /\ code \in Outcomes
    /\ s' = [s EXCEPT !.pc = "reply", !.say = code]
    /\ UNCHANGED <<clientside, toS, toC, urg, conn>>
SrvReply ==
    /\ s.pc = "reply" /\ Reply(s.say)
    /\ s' = [s EXCEPT !.pc = "close", !.say = 0]
    /\ UNCHANGED <<clientside, toS, urg, conn>>
SrvCloseKeeps ==
    /\ s.pc = "close"
    /\ s' = [s EXCEPT !.pc = "idle", !.use = 0]
    /\ conn' = ClosesEnd(s.use)
    /\ UNCHANGED <<clientside, toS, toC, urg>>
SrvClose ==
    /\ s.pc = "close"
    /\ s' = [s EXCEPT !.pc = "idle", !.data = 0, !.pdata = 0, !.use = 0]
    /\ conn' = ClosesEnd(s.use)
    /\ UNCHANGED <<clientside, toS, toC, urg>>

\* myoob() on SIGURG.  The longjmp ends in send_data() and receive_data(),
\* whose callers close the connection; in send_file_list() it ends past that.
SrvOob ==
    /\ urg /\ urg' = FALSE
    /\ IF s.pc = "xfer"
       THEN /\ Head(toS)[1] = "ABOR" /\ toS' = Tail(toS)
            /\ toC' = toC \o <<426, 226>>
            /\ s' = [s EXCEPT !.pc = IF s.cmd = "NLST" THEN "idle" ELSE "close"]
       ELSE UNCHANGED <<s, toS, toC>>
    /\ UNCHANGED <<clientside, conn>>

\* The server ends: told to (sigquit), timed out (toolong), by SIGPIPE
\* (lostconn) or at the end of the control connection, with or without 421.
SrvDies(says) ==
    /\ s.pc # "dead"
    /\ s' = [s EXCEPT !.pc = "dead"]
    /\ conn' = [x \in Xfers |-> [conn[x] EXCEPT !.sEnd = TRUE]]
    /\ IF says THEN Reply(421) ELSE UNCHANGED toC
    /\ UNCHANGED <<clientside, toS, urg>>

-----------------------------------------------------------------------------
User == Noop \/ Interrupt \/ \E cmd \in Cmds, pasv \in BOOLEAN : Request(cmd, pasv)
Client ==
    \/ LostPeer \/ NoopReply \/ InitReply \/ SendStart \/ StartReply \/ Accept
    \/ RecvUnit \/ SendUnit \/ DataDone \/ CallGetreply \/ FinalReply
    \/ SelectReady \/ SelectTimeout \/ Drain \/ AborReply1 \/ AborReply2 \/ SabortReply
Server ==
    \/ SrvNoop \/ SrvPort \/ SrvPasv(TRUE) \/ SrvOpenFile \/ SrvDataconn \/ SrvTransflag
    \/ SrvSend \/ SrvReceive \/ (\E code \in {226, 426} : SrvEnds(code)) \/ SrvReply \/ SrvClose
Faults ==
    \/ AcceptFails \/ OpenFails \/ LocalError \/ CloseFails \/ SrvPasv(FALSE) \/ SrvNoFile \/ SrvNoDataconn
    \/ (\E code \in {551, 452} : SrvEnds(code)) \/ \E says \in BOOLEAN : SrvDies(says)
Next == User \/ Client \/ Server \/ SrvOob \/ Faults

Spec == Init /\ [][Next]_vars
\* Both programs go on while they can, and a signal is delivered in the end.
\* A server that can neither write nor is told to stop may stay where it is.
FairSpec == Spec /\ WF_vars(Client) /\ WF_vars(Server) /\ WF_vars(SrvOob)

-----------------------------------------------------------------------------
(* Properties.                                                             *)

\* Commands and replies stay in step: whenever the user is asked for a
\* command, every reply has been read and every command answered, whatever
\* crossed on the wire; otherwise the next command gets the answer to an
\* earlier one.
InStep ==
    c.pc = "prompt" /\ s.pc # "dead" =>
        toC = <<>> /\ toS = <<>> /\ s.pc \in {"idle", "close"} /\ ~c.cpend

\* What the local file has of a transfer from the server.
Stored == IF c.cut THEN c.got - 1 ELSE c.got

\* 226 for a transfer that was not aborted means that the receiver has all
\* of the file: the end of the data connection alone does not.  Excepted is the
\* last buffer of recvrequest() in ASCII mode, which may not be stored and
\* nobody is told: see CloseFails.
Complete226 ==
    c.pc = "prompt" /\ c.code = 226 /\ ~c.aborted /\ ~c.cut /\ c.cmd # "none" =>
        IF Receives THEN Stored = FileSize ELSE s.moved = FileSize

\* The data of a transfer come over the connection made for it: neither end
\* uses one that an earlier transfer, perhaps aborted, has left behind.
OwnConnection ==
    c.pc \in {"start", "accept", "data"} /\ s.pc \in {"opened", "xfer"} => s.use = c.x

\* Every request ends, at the prompt or with the loss of the server, also
\* when it is interrupted.  Two states are excepted: see LostPeer.
TransferEnds == c.pc # "prompt" ~> c.pc \in {"prompt", "lost", "spin", "crash"}
=============================================================================
