------------------------------- MODULE Telnet -------------------------------
(***************************************************************************)
(* The way from telnetd to telnet, under the negotiation of TelnetOption:  *)
(* the bytes in netobuf (src/telnetd/utility.c), which netflush() writes   *)
(* and netclear() thins out when output is aborted; the connection with    *)
(* its urgent mark; and telrcv() of the client, which takes the bytes      *)
(* apart again (src/telnet/telnet.c).                                      *)
(*                                                                         *)
(* state, want, resp and asked are those of the two programs.              *)
(* chan[Server] is the other direction; chan[Client] is history: the       *)
(* negotiations telnetd has sent and the client has not yet handled.  That *)
(* the client handles these, and no others, is what Reliable says.         *)
(***************************************************************************)
EXTENDS TelnetOption

CONSTANTS
    MaxAO,    \* bound: requests to abort output
    MaxEvents \* bound: these, the requests of both ends, and twice the output
              \* bytes of the pty and the suboptions together

\* Output bytes other than 255, told apart by the number of aborts before them.
Output == <<"x0", "x1", "x2">>
DataBytes == {Output[i] : i \in 1 .. MaxAO + 1}
\* WILL and DO are YES, WONT and DONT are NO.
Bytes == DataBytes \cup {"IAC", "YES", "NO", "OPT", "DM", "SB", "SE"}
States == {"DATA", "IAC", "YES", "NO", "SB", "SE"}

ASSUME TelnetAssumption ==
    MaxAO \in 0 .. 2 /\ MaxEvents \in Nat

\* The client is the "will" end; the bytes in the other case are the same.
Client == "will"
Server == "do"

VARIABLES
    not42,     \* telnetd takes the client for one that survives urgent data
    buf,       \* netobuf up to nfrontp
    back,      \* nbackp: bytes of buf already written
    neturg,    \* neturg as an offset in buf, 0 for none
    wire,      \* bytes on their way to the client
    mark,      \* bytes of wire up to and including the urgent one, 0 for none
    st,        \* telrcv_state
    synching,  \* SYNCHing
    outs, aos, \* what the bounds count
    sent,      \* history: aborts whose urgent byte has been written
    told,      \* history: aborts of which select() has told the client
    torn       \* history: an abort came with an item half written

outvars == <<buf, back, neturg>>
invars == <<st, synching, told>>
allvars == <<vars, not42, outvars, sent, torn, wire, mark, invars, outs, aos>>

NetTypeOK ==
    /\ TypeOK
    /\ buf \in Seq(Bytes) /\ back \in 0 .. Len(buf) /\ neturg \in 0 .. Len(buf)
    /\ wire \in Seq(Bytes) /\ mark \in 0 .. Len(wire)
    /\ st \in States /\ synching \in BOOLEAN
    /\ outs \in 0 .. MaxEvents /\ aos \in 0 .. MaxAO
    /\ sent \in 0 .. aos /\ told \in 0 .. sent
    /\ not42 \in BOOLEAN /\ torn \in BOOLEAN

\* not42 follows from the answer to DO ECHO at the start of the session.
TelnetInit ==
    /\ Init
    /\ not42 \in BOOLEAN
    /\ buf = <<>> /\ back = 0 /\ neturg = 0 /\ wire = <<>> /\ mark = 0
    /\ st = "DATA" /\ synching = FALSE
    /\ outs = 0 /\ aos = 0 /\ sent = 0 /\ told = 0 /\ torn = FALSE

-----------------------------------------------------------------------------
(* telnetd writes.                                                         *)

Bounded(n) == asked[Client] + asked[Server] + 2 * outs + aos + n <= MaxEvents

Negotiation(new) == <<"IAC", IF new THEN "YES" ELSE "NO", "OPT">>
Negotiations(out) == IF out = <<>> THEN <<>> ELSE Negotiation(out[1])
ToNet(bytes) ==
    /\ buf' = buf \o bytes
    /\ UNCHANGED <<back, neturg, not42, sent, torn, wire, mark, invars, aos>>

\* Requests and handlers of the server: net_output_data() of their answers.
ServerAsks(new) ==
    /\ Bounded(1) /\ Ask(Server, new) /\ ToNet(Negotiations(Send(End(Server), new).out))
    /\ UNCHANGED outs
ServerHears ==
    /\ Receive(Server)
    /\ ToNet(Negotiations(Handled(Server, End(Server), Head(chan[Server])).out))
    /\ UNCHANGED outs

\* Output of the pty, where a byte 255 is doubled, and a suboption.
PtyOutput ==
    /\ Bounded(2) /\ outs' = outs + 1
    /\ ToNet(<<Output[aos + 1]>>) \/ ToNet(<<"IAC", "IAC">>)
    /\ UNCHANGED vars
Suboption ==
    /\ Bounded(2) /\ outs' = outs + 1
    /\ ToNet(<<"IAC", "SB", "OPT", "IAC", "SE">>)
    /\ UNCHANGED vars

\* nextitem(): where the item after the one at i begins.
NextItem(b, i) ==
    CASE b[i] # "IAC" -> i + 1
      [] b[i] = "IAC" /\ b[i + 1] \in {"YES", "NO"} -> i + 3
      [] b[i] = "IAC" /\ b[i + 1] = "SB" ->
           2 + CHOOSE j \in i + 2 .. Len(b) :
                 /\ b[j] = "IAC" /\ b[j + 1] = "SE"
                 /\ \A k \in i + 2 .. j - 1 : ~(b[k] = "IAC" /\ b[k + 1] = "SE")
      [] OTHER -> i + 2

\* Where the items of b begin, scanning from the beginning.
Items(b) ==
    LET nth[k \in 0 .. Len(b)] ==  \* a set of one, or none past the end
          IF k = 0 THEN {1} ELSE {NextItem(b, i) : i \in nth[k - 1] \cap 1 .. Len(b)}
    IN  UNION {nth[k] : k \in 0 .. Len(b)}

\* netclear(): commands are kept, from the one that is next to be written on.
Bytewise(b, Keep(_)) ==
    LET kept == SelectSeq([i \in 1 .. Len(b) |-> i], Keep)
    IN  [i \in 1 .. Len(kept) |-> b[kept[i]]]
NetclearUnscanned(b, n) ==
    LET Keep(i) == i > n /\ b[i] = "IAC" IN Bytewise(b, Keep)
NetclearAll(b, n) == <<>>
NetclearNothing(b, n) == SubSeq(b, n + 1, Len(b))
Netclear(b, n) ==
    LET items == Items(b)
        ItemOf(i) == CHOOSE j \in items : j <= i /\ \A k \in items : k <= i => k <= j
        Keep(i) == n < Len(b) /\ i >= ItemOf(n + 1) /\ b[ItemOf(i)] = "IAC"
    IN  Bytewise(b, Keep)

\* AO: the buffer is cleared back, and IAC DM becomes urgent; likewise when
\* the pty reports that its output was flushed.
AbortOutput ==
    /\ Bounded(1) /\ aos < MaxAO /\ aos' = aos + 1
    /\ buf' = Netclear(buf, back) \o <<"IAC", "DM">> /\ back' = 0
    /\ neturg' = Len(buf') - 1
    /\ torn' = (torn \/ back + 1 \notin Items(buf) \cup {1})
    /\ UNCHANGED <<vars, not42, sent, wire, mark, invars, outs>>

\* netflush(): everything, or what comes before the urgent byte, or that byte
\* with the mark; write() may take a part of it.
Alone == not42 /\ neturg - back = 1
Offered ==
    IF neturg = 0 \/ ~not42 THEN Len(buf) - back
    ELSE IF neturg - back > 1 THEN neturg - back - 1 ELSE neturg - back
Netflush ==
    /\ Len(buf) > back
    /\ \E n \in 1 .. Offered :
         /\ wire' = wire \o SubSeq(buf, back + 1, back + n)
         /\ mark' = IF Alone THEN Len(wire') ELSE mark
         /\ sent' = IF Alone THEN aos ELSE sent
         /\ IF back + n = Len(buf) THEN buf' = <<>> /\ back' = 0 /\ neturg' = 0
            ELSE /\ back' = back + n /\ UNCHANGED buf
                 /\ neturg' = IF back' >= neturg THEN 0 ELSE neturg
    /\ UNCHANGED <<vars, not42, torn, invars, outs, aos>>

-----------------------------------------------------------------------------
(* telnet reads.                                                           *)

ClientAsks(new) ==
    /\ Bounded(1) /\ Ask(Client, new)
    /\ UNCHANGED <<not42, outvars, sent, torn, wire, mark, invars, outs, aos>>

\* select() reports urgent data.
Urgent ==
    /\ mark > 0 /\ ~synching /\ synching' = TRUE /\ told' = sent
    /\ UNCHANGED <<vars, not42, outvars, sent, torn, wire, mark, st, outs, aos>>

\* telrcv(): the state after a byte.  It goes back to DATA at the end of an
\* item, which is a data byte, a command, a negotiation or a suboption.  A
\* suboption cut short by another command ends there (process_iac).
Turn ==
    [t \in States, b \in Bytes |->
       CASE t = "DATA" -> IF b = "IAC" THEN "IAC" ELSE "DATA"
         [] t = "SB"   -> IF b = "IAC" THEN "SE" ELSE "SB"
         [] t = "SE" /\ b = "IAC" -> "SB"
         [] t \in {"IAC", "SE"} /\ b \in {"YES", "NO", "SB"} -> b
         [] OTHER -> "DATA"]

\* The first item on the wire, or as much of it as has come: its length, the
\* state before its last byte, that byte, and the state after it.
Item ==
    LET after[i \in 0 .. Len(wire)] == IF i = 0 THEN st ELSE Turn[after[i - 1], wire[i]]
        ends == {i \in 1 .. Len(wire) : after[i] = "DATA"}
        n == IF ends = {} THEN Len(wire) ELSE CHOOSE i \in ends : \A j \in ends : i <= j
    IN  [n |-> n, st |-> after[n - 1], byte |-> wire[n], next |-> after[n]]

\* stilloob(): whether another urgent byte is to come, past what was read.
StillOobEarly == mark > 0
StillOobNever == FALSE
StillOob == mark' > 0

\* One item is read.  A data byte goes to the terminal, where it is dropped
\* while SYNCHing; DM ends that, unless another mark is to come.
Telrcv ==
    /\ wire # <<>>
    /\ \E i \in {Item} : \E x \in {Handled(Client, End(Client), i.st = "YES")} :
           /\ wire' = SubSeq(wire, i.n + 1, Len(wire))
           /\ mark' = IF mark > i.n THEN mark - i.n ELSE 0
           /\ st' = i.next
           /\ LET dm == i.st \in {"IAC", "SE"} /\ i.byte = "DM"
              IN  /\ synching' = IF dm THEN StillOob ELSE synching
                  /\ told' = IF dm /\ mark' > 0 THEN sent ELSE told
           /\ IF i.st \in {"YES", "NO"} /\ i.byte = "OPT"
              THEN /\ Update(Client, x) /\ UNCHANGED <<kind, asked>>
                   /\ chan' = [chan EXCEPT ![Client] = IF @ = <<>> THEN @ ELSE Tail(@),
                                           ![Server] = @ \o x.out]
              ELSE UNCHANGED vars
    /\ UNCHANGED <<not42, outvars, sent, torn, outs, aos>>

Reads == Urgent \/ Telrcv
TelnetNext ==
    \/ \E new \in BOOLEAN : ServerAsks(new) \/ ClientAsks(new)
    \/ ServerHears \/ PtyOutput \/ Suboption \/ AbortOutput \/ Netflush \/ Reads

\* Both loops go on: while something can be written or read, something is.
TelnetSpec ==
    TelnetInit /\ [][TelnetNext]_allvars /\ WF_allvars(ServerHears \/ Netflush \/ Reads)

-----------------------------------------------------------------------------
(* Properties.  netclear() means to keep whole a command whose first bytes *)
(* have gone, but copies it to the front of the buffer, where it is to be  *)
(* written again: after that (torn) the bytes of the session mean other    *)
(* things to the client, and only AbortedIsGone and NotShown say anything. *)

\* The client meets nothing but output of the pty and commands of the server:
\* no byte of a command reaches the terminal, and none is taken for an option,
\* wherever write() stops and netclear() and netflush() cut the buffer, unless
\* output is aborted with an item half written.
OnlyOutput ==
    wire # <<>> /\ ~torn => \A i \in {Item} : i.next = "DATA" =>
        i.byte \in CASE i.st = "DATA" -> DataBytes
                     [] i.st = "IAC"  -> {"DM", "IAC"}
                     [] i.st = "SE"   -> {"SE"}
                     [] OTHER         -> {"OPT"}

\* Output that was aborted and not written is never written, whatever
\* commands stand between its bytes: what is left in the buffer is output of
\* the time after the last abort.  This is of bytes other than 255: telnetd
\* doubles those, and wewant() takes the two for a command, to be kept.
AbortedIsGone ==
    \A i \in back + 1 .. Len(buf) : buf[i] \in DataBytes => buf[i] = Output[aos + 1]

\* Nor is it shown: once select() has told the client of an abort, or the DM of
\* an earlier one has found another mark to come, no output from before that
\* abort gets past telrcv() to the terminal, in whatever order the mark, the
\* DM and the select() come.  Again of bytes other than 255.
NotShown ==
    wire # <<>> /\ st = "DATA" /\ ~synching =>
        \A i \in 1 .. told : wire[1] # Output[i]

\* Over the buffer, the mark and telrcv() the two programs negotiate as over
\* the two reliable channels of TelnetOption: no negotiation is lost, sent
\* twice, overtaken or made up of other bytes.
Reliable == [][Next \/ torn]_vars

\* Negotiations come to an end, with nobody acknowledging an acknowledgement,
\* and with the client out of SYNCH: it does not stay there, dropping output,
\* once the mark is past.
ComesToRest == []<>(torn \/ (Quiet /\ ~synching))
=============================================================================
