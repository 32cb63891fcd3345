------------------------------ MODULE TftpSubs ------------------------------
(***************************************************************************)
(* libinetutils/tftpsubs.c: the two buffers that the sender of a file fills*)
(* ahead (readit, read_ahead) and the receiver empties behind (writeit,    *)
(* write_behind), with the conversion from and to netascii.  The calls are *)
(* made in the order of send_file() and recvfile(), repeated packets       *)
(* included; the network between the two is reduced to the segment on its  *)
(* way, since TftpGet and TftpPut show that segments arrive in order.      *)
(***************************************************************************)
EXTENDS Integers, Sequences, SequencesExt

CONSTANTS
    SegSize,     \* SEGSIZE, 512 in the code
    Files,       \* contents of files, sequences of characters
    Modes,       \* values of "convert" in use
    ReadErrors   \* values of "convert" with which reading the file may fail

LF == "\n"
CR == "\r"
NUL == "0"
NONE == "none"          \* prevchar = -1

BF_ALLOC == -3
BF_FREE == -2

ASSUME TftpSubsAssumption ==
    /\ SegSize \in Nat \ {0}
    /\ Modes \subseteq BOOLEAN /\ ReadErrors \subseteq BOOLEAN

VARIABLES
    file,     \* the file to be sent
    convert,  \* mode "netascii"
    pos,      \* characters of it read so far
    rd, wr,   \* static variables of tftpsubs.c in the sender and the receiver
    out,      \* the file the receiver has written
    phase     \* "next", "sent", "acked", "end", "failed"

vars == <<file, convert, pos, rd, wr, out, phase>>

\* A process's bfs, current, nextone, newline and prevchar.
Bf == [counter: {BF_ALLOC, BF_FREE, -1} \cup 0 .. SegSize, buf: Seq(STRING)]
Statics == [bfs: [0 .. 1 -> Bf], current: 0 .. 1, nextone: 0 .. 1,
            newline: BOOLEAN, prevchar: STRING]

TypeOK ==
    /\ convert \in BOOLEAN /\ pos \in 0 .. Len(file)
    /\ rd \in Statics /\ wr \in Statics
    /\ out \in Seq(STRING)
    /\ phase \in {"next", "sent", "acked", "end", "failed"}

\* rw_init(x): zero for write-behind, one for read-ahead.
RwInitSwapped(x) == [bfs |-> [b \in 0 .. 1 |-> [counter |-> IF b = 0 THEN BF_ALLOC ELSE BF_FREE,
                                                buf |-> <<>>]],
                     current |-> 0, nextone |-> 1 - x, newline |-> FALSE, prevchar |-> NONE]
RwInit(x) == [bfs |-> [b \in 0 .. 1 |-> [counter |-> IF b = 0 THEN BF_ALLOC ELSE BF_FREE,
                                         buf |-> <<>>]],
              current |-> 0, nextone |-> x, newline |-> FALSE, prevchar |-> NONE]

Init ==
    /\ file \in Files /\ convert \in Modes
    /\ pos = 0 /\ rd = RwInit(1) /\ wr = RwInit(0)
    /\ out = <<>> /\ phase = "next"

-----------------------------------------------------------------------------
(* The sender.                                                             *)

\* One turn of the loop in read_ahead(): lf becomes cr lf, cr becomes cr nul,
\* and "newline" carries the second half over to the next buffer.
Expand(st) ==
    CASE st.newline ->
           [st EXCEPT !.buf = Append(@, IF st.prevchar = LF THEN LF ELSE NUL),
                      !.newline = FALSE]
      [] ~st.newline /\ st.pos = Len(file) -> st
      [] OTHER ->
           LET c == file[st.pos + 1]
           IN  IF c \in {LF, CR}
               THEN [st EXCEPT !.buf = Append(@, CR), !.pos = @ + 1,
                               !.prevchar = c, !.newline = TRUE]
               ELSE [st EXCEPT !.buf = Append(@, c), !.pos = @ + 1]

\* "i < SEGSIZE": the room in a buffer.
Room == SegSize

\* What read_ahead() makes of the file from position st.pos on, in n turns of
\* its loop: contents of the buffer, position and conversion flags.
Fill(st, n) ==
    IF convert
    THEN LET turn[i \in 0 .. n] == IF i = 0 THEN st ELSE Expand(turn[i - 1])
         IN  turn[n]
    ELSE LET last == IF st.pos + n < Len(file) THEN st.pos + n ELSE Len(file)
         IN  [st EXCEPT !.buf = SubSeq(file, st.pos + 1, last), !.pos = last]

\* read_ahead() on statics r and file position p: nothing if the next buffer
\* is not free.  A failing read() stores -1; a failing getc() passes for the
\* end of the file.
NeverInUse(b) == FALSE
InUse(b) == b.counter # BF_FREE
ReadAhead(r, p) ==
    LET st == [buf |-> <<>>, pos |-> p, newline |-> r.newline, prevchar |-> r.prevchar]
        filled(n, x) == [r |-> [r EXCEPT !.bfs[r.nextone] = [counter |-> n, buf |-> x.buf],
                                         !.nextone = 1 - @,
                                         !.newline = x.newline, !.prevchar = x.prevchar],
                         p |-> x.pos]
        full == Fill(st, Room)
        cut == {x \in {Fill(st, n) : n \in 0 .. Room - 1} : ~x.newline}
    IN  IF InUse(r.bfs[r.nextone]) THEN {[r |-> r, p |-> p]}
        ELSE {filled(Len(full.buf), full)}
             \cup IF convert \notin ReadErrors THEN {}
                  ELSE IF convert THEN {filled(Len(x.buf), x) : x \in cut}
                  ELSE {filled(-1, st)}

\* readit(): free the current buffer, turn to the other one, fill it unless
\* read_ahead() already has.
Freed(r) == [r EXCEPT !.bfs[r.current].counter = BF_FREE, !.current = 1 - @]
Readit(r, p) ==
    LET f == Freed(r)
    IN  IF f.bfs[f.current].counter = BF_FREE THEN ReadAhead(f, p)
                                              ELSE {[r |-> f, p |-> p]}

\* The segment that send_file() sends, and sends again: *dp.
Outgoing == rd.bfs[rd.current]

\* A round of the loop in send_file(): readit, sendto, read_ahead.
SenderNext ==
    /\ phase = "next"
    /\ \E x \in Readit(rd, pos) :
         \/ /\ x.r.bfs[x.r.current].counter < 0
            /\ phase' = "failed" /\ rd' = x.r /\ pos' = x.p
         \/ /\ x.r.bfs[x.r.current].counter >= 0
            /\ phase' = "sent"
            /\ \E y \in ReadAhead(x.r, x.p) : rd' = y.r /\ pos' = y.p
    /\ UNCHANGED <<file, convert, wr, out>>

\* "goto send_data" or a timeout: the segment again, and read_ahead() again.
SenderAgain ==
    /\ phase \in {"sent", "acked"}
    /\ \E y \in ReadAhead(rd, pos) : rd' = y.r /\ pos' = y.p
    /\ UNCHANGED <<file, convert, wr, out, phase>>

\* The ACK comes: "while (size == SEGSIZE)".
SenderAcked ==
    /\ phase = "acked"
    /\ phase' = IF Outgoing.counter = SegSize THEN "next" ELSE "end"
    /\ UNCHANGED <<file, convert, pos, rd, wr, out>>

-----------------------------------------------------------------------------
(* The receiver.                                                           *)

\* One turn of the loop in write_behind(): lf after cr is written over it
\* (fseeko by -1), nul after cr is dropped.
CollapseBlind(o, c) == [text |-> IF c = NUL THEN o.text ELSE Append(o.text, c), prevchar |-> c]
Collapse(o, c) ==
    [text |-> CASE o.prevchar = CR /\ c = LF  -> Append(Front(o.text), LF)
                [] o.prevchar = CR /\ c = NUL -> o.text
                [] OTHER                      -> Append(o.text, c),
     prevchar |-> c]

\* write_behind() on statics w and output o.
WriteBehind(w, o) ==
    LET b == w.bfs[w.nextone]
        done(prev) == [w EXCEPT !.bfs[w.nextone].counter = BF_FREE,
                                !.nextone = 1 - @, !.prevchar = prev]
        text == FoldLeft(Collapse, [text |-> o, prevchar |-> w.prevchar], b.buf)
    IN  CASE b.counter < -1 -> [w |-> w, o |-> o]
          [] b.counter >= -1 /\ convert -> [w |-> done(text.prevchar), o |-> text.text]
          [] OTHER -> [w |-> done(w.prevchar), o |-> o \o b.buf]

\* writeit(): the current buffer holds ct characters; turn to the other one,
\* flushing it first if need be.
Writeit(w, o) ==
    LET n == [w EXCEPT !.bfs[w.current].counter = Len(w.bfs[w.current].buf), !.current = 1 - @]
        x == IF n.bfs[n.current].counter # BF_FREE THEN WriteBehind(n, o) ELSE [w |-> n, o |-> o]
    IN  [x EXCEPT !.w.bfs[x.w.current].counter = BF_ALLOC]

\* recv() into *dp.
Received(w) == [w EXCEPT !.bfs[w.current].buf = Outgoing.buf]

\* The block expected: writeit(), then write_behind() after the ACK.
ReceiverAccept ==
    /\ phase = "sent"
    /\ LET x == Writeit(Received(wr), out)
           y == WriteBehind(x.w, x.o)
       IN  wr' = y.w /\ out' = y.o
    /\ phase' = "acked"
    /\ UNCHANGED <<file, convert, pos, rd>>

\* A block received once more overwrites *dp; the ACK is sent again and
\* write_behind() called again.
ReceiverAgain ==
    /\ phase = "acked"
    /\ LET y == WriteBehind(Received(wr), out) IN wr' = y.w /\ out' = y.o
    /\ UNCHANGED <<file, convert, pos, rd, phase>>

Next == SenderNext \/ SenderAgain \/ SenderAcked \/ ReceiverAccept \/ ReceiverAgain

Spec == Init /\ [][Next]_vars

-----------------------------------------------------------------------------
(* Properties.                                                             *)

\* A transfer that comes to its end has copied the file, whatever its length,
\* wherever cr and lf fall in the segments, and whichever packets came twice.
RoundTrip == phase = "end" => out = file

\* The assertion commented out in readit(): the buffer handed to the caller
\* has been filled, so that a negative size is always a read error.
BufferFilled ==
    phase \in {"sent", "acked", "failed"} => Outgoing.counter \notin {BF_FREE, BF_ALLOC}

\* Sending again sends the same segment.
SameSegmentAgain ==
    [][(phase \in {"sent", "acked"} /\ phase' = phase) => Outgoing' = Outgoing]_vars
=============================================================================
