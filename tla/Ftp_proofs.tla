----------------------------- MODULE Ftp_proofs -----------------------------
(***************************************************************************)
(* Proofs about Ftp, for files and connections of any size and any number  *)
(* of transfers, other commands and interrupts: InStep, Complete226 and    *)
(* OwnConnection.                                                          *)
(***************************************************************************)
EXTENDS Ftp, SequenceTheorems, TLAPS

-----------------------------------------------------------------------------
(* Replies on their way: none, one or two, and perhaps 421 at their end     *)
(* when the server, at p, is dead.                                         *)

Says0(t, p) == t = <<>> \/ (p = "dead" /\ t = <<421>>)
Says1(t, p, k) == t = <<k>> \/ (p = "dead" /\ t = <<k, 421>>)
Says2(t, p, k, l) == t = <<k, l>> \/ (p = "dead" /\ t = <<k, l, 421>>)

\* The next reply is read.
LEMMA Reading ==
  ASSUME NEW t, NEW p, t # <<>>, Head(t) # 421
  PROVE  /\ ~Says0(t, p)
         /\ \A k : Says1(t, p, k) => Head(t) = k /\ Says0(Tail(t), p)
         /\ \A k, l : Says2(t, p, k, l) => Head(t) = k /\ Says1(Tail(t), p, l)
<1>1. ASSUME NEW k, Says1(t, p, k) PROVE Head(t) = k /\ Says0(Tail(t), p)
  <2>1. CASE t = <<k>>
    <3>1. Head(t) = k /\ Tail(t) = <<>> BY <2>1
    <3> QED BY <3>1 DEF Says0
  <2>2. CASE p = "dead" /\ t = <<k, 421>>
    <3>1. Head(t) = k /\ Tail(t) = <<421>> BY <2>2
    <3> QED BY <2>2, <3>1 DEF Says0
  <2> QED BY <1>1, <2>1, <2>2 DEF Says1
<1>2. ASSUME NEW k, NEW l, Says2(t, p, k, l) PROVE Head(t) = k /\ Says1(Tail(t), p, l)
  <2>1. CASE t = <<k, l>>
    <3>1. Head(t) = k /\ Tail(t) = <<l>> BY <2>1
    <3> QED BY <3>1 DEF Says1
  <2>2. CASE p = "dead" /\ t = <<k, l, 421>>
    <3>1. Head(t) = k /\ Tail(t) = <<l, 421>> BY <2>2
    <3> QED BY <2>2, <3>1 DEF Says1
  <2> QED BY <1>2, <2>1, <2>2 DEF Says2
<1>3. ~Says0(t, p)
  <2>1. Head(<<421>>) = 421 OBVIOUS
  <2> QED BY <2>1 DEF Says0
<1> QED BY <1>1, <1>2, <1>3

LEMMA AppendTwo == ASSUME NEW j \in Int, NEW k \in Int PROVE Append(<<j>>, k) = <<j, k>>
<1> DEFINE a == Append(<<j>>, k)
           b == <<j, k>>
<1>1. <<j>> \in Seq(Int) /\ Len(<<j>>) = 1 /\ <<j>>[1] = j OBVIOUS
<1>2. a \in Seq(Int) /\ Len(a) = 2 /\ a[1] = j /\ a[2] = k BY <1>1
<1>3. b \in Seq(Int) /\ Len(b) = 2 /\ b[1] = j /\ b[2] = k OBVIOUS
<1>4. 1 .. 2 = {1, 2} OBVIOUS
<1>5. \A i \in 1 .. Len(a) : a[i] = b[i] BY <1>2, <1>3, <1>4
<1> HIDE DEF a, b
<1>6. a = b BY <1>2, <1>3, <1>5, SeqEqual
<1> QED BY <1>6 DEF a, b

LEMMA AppendThree ==
  ASSUME NEW j \in Int, NEW k \in Int, NEW l \in Int PROVE Append(<<j, k>>, l) = <<j, k, l>>
<1> DEFINE a == Append(<<j, k>>, l)
           b == <<j, k, l>>
<1>1. <<j, k>> \in Seq(Int) /\ Len(<<j, k>>) = 2 /\ <<j, k>>[1] = j /\ <<j, k>>[2] = k OBVIOUS
<1>2. a \in Seq(Int) /\ Len(a) = 3 /\ a[1] = j /\ a[2] = k /\ a[3] = l BY <1>1
<1>3. b \in Seq(Int) /\ Len(b) = 3 /\ b[1] = j /\ b[2] = k /\ b[3] = l OBVIOUS
<1>4. 1 .. 3 = {1, 2, 3} OBVIOUS
<1>5. \A i \in 1 .. Len(a) : a[i] = b[i] BY <1>2, <1>3, <1>4
<1> HIDE DEF a, b
<1>6. a = b BY <1>2, <1>3, <1>5, SeqEqual
<1> QED BY <1>6 DEF a, b

\* A server that is not dead says one more thing.
LEMMA Saying ==
  ASSUME NEW t, NEW p, NEW q, p # "dead", NEW k \in Int
  PROVE  /\ Says0(t, p) => Says1(Append(t, k), q, k)
         /\ \A j \in Int : Says1(t, p, j) => Says2(Append(t, k), q, j, k)
<1>1. Append(<<>>, k) = <<k>> OBVIOUS
<1>2. Says0(t, p) => Says1(Append(t, k), q, k) BY <1>1 DEF Says0, Says1
<1>3. \A j \in Int : Says1(t, p, j) => Says2(Append(t, k), q, j, k) BY AppendTwo DEF Says1, Says2
<1> QED BY <1>2, <1>3

\* It goes on, or dies with or without 421.
LEMMA Keeping ==
  ASSUME NEW t, NEW p, NEW q, p # "dead" \/ q = "dead"
  PROVE  /\ Says0(t, p) => Says0(t, q)
         /\ \A k : Says1(t, p, k) => Says1(t, q, k)
         /\ \A k, l : Says2(t, p, k, l) => Says2(t, q, k, l)
  BY DEF Says0, Says1, Says2

LEMMA Dying ==
  ASSUME NEW t, NEW p, p # "dead"
  PROVE  /\ Says0(t, p) => Says0(Append(t, 421), "dead")
         /\ \A k \in Int : Says1(t, p, k) => Says1(Append(t, 421), "dead", k)
         /\ \A k, l \in Int : Says2(t, p, k, l) => Says2(Append(t, 421), "dead", k, l)
<1>1. Append(<<>>, 421) = <<421>> /\ 421 \in Int OBVIOUS
<1>2. Says0(t, p) => Says0(Append(t, 421), "dead") BY <1>1 DEF Says0
<1>3. ASSUME NEW k \in Int, Says1(t, p, k) PROVE Says1(Append(t, 421), "dead", k)
  <2>1. t = <<k>> BY <1>3 DEF Says1
  <2>2. Append(<<k>>, 421) = <<k, 421>> BY <1>1, AppendTwo
  <2> QED BY <2>1, <2>2 DEF Says1
<1>4. ASSUME NEW k \in Int, NEW l \in Int, Says2(t, p, k, l) PROVE Says2(Append(t, 421), "dead", k, l)
  <2>1. t = <<k, l>> BY <1>4 DEF Says2
  <2>2. Append(<<k, l>>, 421) = <<k, l, 421>> BY <1>1, AppendThree
  <2> QED BY <2>1, <2>2 DEF Says2
<1> QED BY <1>2, <1>3, <1>4

\* Which replies they are.
Told(t) == \E i \in 1 .. Len(t) : t[i] = 226
Begun(t) == t # <<>> /\ Head(t) \in {125, 150}

LEMMA Telling ==
  ASSUME NEW t, NEW p
  PROVE  /\ Says0(t, p) => ~Told(t) /\ ~Begun(t)
         /\ \A k : Says1(t, p, k) => (Told(t) <=> k = 226) /\ (Begun(t) <=> k \in {125, 150})
         /\ \A k, l : Says2(t, p, k, l) =>
              (Told(t) <=> k = 226 \/ l = 226) /\ (Begun(t) <=> k \in {125, 150})
<1>1. Says0(t, p) => ~Told(t) /\ ~Begun(t)
  <2>1. ~Told(<<>>) /\ ~Begun(<<>>) BY DEF Told, Begun
  <2>2. ~Told(<<421>>)
    <3>1. Len(<<421>>) = 1 /\ <<421>>[1] = 421 OBVIOUS
    <3> QED BY <3>1 DEF Told
  <2>3. ~Begun(<<421>>)
    <3>1. Head(<<421>>) = 421 OBVIOUS
    <3> QED BY <3>1 DEF Begun
  <2> QED BY <2>1, <2>2, <2>3 DEF Says0
<1>2. ASSUME NEW k, Says1(t, p, k)
      PROVE (Told(t) <=> k = 226) /\ (Begun(t) <=> k \in {125, 150})
  <2>1. t = <<k>> \/ t = <<k, 421>> BY <1>2 DEF Says1
  <2>2. CASE t = <<k>>
    <3>1. Len(t) = 1 /\ t[1] = k /\ Head(t) = k /\ t # <<>> BY <2>2
    <3>2. 1 .. 1 = {1} OBVIOUS
    <3> QED BY <3>1, <3>2 DEF Told, Begun
  <2>3. CASE t = <<k, 421>>
    <3>1. Len(t) = 2 /\ t[1] = k /\ t[2] = 421 /\ Head(t) = k /\ t # <<>> BY <2>3
    <3>2. 1 .. 2 = {1, 2} OBVIOUS
    <3> QED BY <3>1, <3>2 DEF Told, Begun
  <2> QED BY <2>1, <2>2, <2>3
<1>3. ASSUME NEW k, NEW l, Says2(t, p, k, l)
      PROVE (Told(t) <=> k = 226 \/ l = 226) /\ (Begun(t) <=> k \in {125, 150})
  <2>1. t = <<k, l>> \/ t = <<k, l, 421>> BY <1>3 DEF Says2
  <2>2. CASE t = <<k, l>>
    <3>1. Len(t) = 2 /\ t[1] = k /\ t[2] = l /\ Head(t) = k /\ t # <<>> BY <2>2
    <3>2. 1 .. 2 = {1, 2} OBVIOUS
    <3> QED BY <3>1, <3>2 DEF Told, Begun
  <2>3. CASE t = <<k, l, 421>>
    <3>1. Len(t) = 3 /\ t[1] = k /\ t[2] = l /\ t[3] = 421 /\ Head(t) = k /\ t # <<>> BY <2>3
    <3>2. 1 .. 3 = {1, 2, 3} OBVIOUS
    <3> QED BY <3>1, <3>2 DEF Told, Begun
  <2> QED BY <2>1, <2>2, <2>3
<1> QED BY <1>1, <1>2, <1>3

-----------------------------------------------------------------------------
(* The invariant.                                                          *)

Places == {"prompt", "noop", "init", "ready", "start", "accept", "data", "gap", "final",
           "select", "drain", "abor1", "abor2", "sabort", "lost", "spin", "crash"}
Stages == {"idle", "dataconn", "opened", "xfer", "reply", "close", "dead"}
Names == {"none"} \cup Cmds
Client0 == [pc: Places, cmd: Names, x: Nat, pasv: BOOLEAN, cpend: BOOLEAN, abrt: BOOLEAN,
            code: Int, data: {"none", "listen", "conn"}, din: BOOLEAN, got: Nat, aborted: BOOLEAN,
            cut: BOOLEAN]
Server0 == [pc: Stages, cmd: Names, data: Nat, pdata: Nat, listens: BOOLEAN, dest: Nat, use: Nat,
            moved: Nat, say: Int]
Conn0 == [est: BOOLEAN, n: Nat, cEnd: BOOLEAN, sEnd: BOOLEAN]
Typed ==
    /\ c \in Client0 /\ s \in Server0 /\ urg \in BOOLEAN
    /\ conn \in [Xfers -> Conn0] /\ xfers \in 0 .. MaxXfers

\* The dialogue on the control connection: commands S and replies R under way,
\* and where the server is (p), by what the client is waiting for.
Ends == {226, 426, 452, 551}
Resting == {"idle", "close", "dead"}
Busy == {"opened", "xfer", "reply", "dead"}
Quiet(p, S, R) == S = <<>> /\ p \in Resting /\ Says0(R, p)
Asked(n, x, p, S, R) == S = <<<<n, x>>>> /\ p \in Resting /\ Says0(R, p)
Done(K, p, S, R) == S = <<>> /\ p \in Resting /\ \E k \in K : Says1(R, p, k)
Opening(p, S, R) == S = <<>> /\ p \in {"dataconn", "dead"} /\ Says0(R, p)
Started(p, S, R) == S = <<>> /\ p \in Busy /\ \E b \in {125, 150} : Says1(R, p, b)
Finished(p, S, R) ==
    S = <<>> /\ p \in Resting /\ \E b \in {125, 150}, k \in Ends : Says2(R, p, b, k)
Under(p, S, R) == S = <<>> /\ p \in Busy /\ Says0(R, p)
Ending(p, S, R) == Under(p, S, R) \/ Done(Ends, p, S, R)
Aborting(x, p, S, R) ==
    \/ S = <<<<"ABOR", x>>>> /\ p \in Busy /\ Says0(R, p)
    \/ S = <<<<"ABOR", x>>>> /\ p \in Resting /\ \E k \in Ends : Says1(R, p, k)
    \/ S = <<>> /\ p \in Resting /\ \E k, l \in Ends \cup {225} : Says2(R, p, k, l)
Aborted(x, p, S, R) == Asked("ABOR", x, p, S, R) \/ Done(Ends \cup {225}, p, S, R)
Initing(x, p, S, R) ==
    \/ Asked("PASV", x, p, S, R) \/ Asked("PORT", x, p, S, R)
    \/ Done({200, 227, 425}, p, S, R)
Starting(cmd, x, p, S, R) ==
    \/ Asked(cmd, x, p, S, R) \/ Opening(p, S, R) \/ Done({425, 550}, p, S, R)
    \/ Started(p, S, R) \/ Finished(p, S, R)
Gone(x, p, S) == p = "dead" \/ S = <<>> \/ S = <<<<"ABOR", x>>>>

Awaits(pc, cmd, x, p, S, R) ==
    /\ pc \in {"prompt", "ready"} => Quiet(p, S, R)
    /\ pc = "noop" => Asked("NOOP", 0, p, S, R) \/ Done({200}, p, S, R)
    /\ pc = "init" => Initing(x, p, S, R)
    /\ pc = "start" => Starting(cmd, x, p, S, R)
    /\ pc \in {"accept", "data", "gap", "final", "sabort"} => Ending(p, S, R)
    /\ pc \in {"select", "drain", "abor1"} => Aborting(x, p, S, R)
    /\ pc = "abor2" => Aborted(x, p, S, R)
    /\ pc \in {"lost", "spin", "crash"} => Gone(x, p, S)
Dialogue ==
    /\ Awaits(c.pc, c.cmd, c.x, s.pc, toS, toC)
    /\ c.pc \in {"prompt", "ready"} => ~c.cpend
    /\ c.pc \in {"start", "accept", "data", "gap", "final", "sabort"} => c.cpend
    /\ c.pc \in {"init", "ready", "start"} => c.cmd \in Cmds
    /\ s.pc = "reply" => s.say \in Ends
Urgent == urg => toS # <<>> /\ Head(toS)[1] = "ABOR"

\* A step of the client that reads the next reply.
LEMMA ReadStep ==
  ASSUME NEW pc, NEW cmd, NEW x, NEW p, NEW S, NEW R,
         Awaits(pc, cmd, x, p, S, R), R # <<>>, Head(R) # 421
  PROVE  /\ pc = "noop" => Quiet(p, S, Tail(R)) /\ Head(R) = 200
         /\ pc = "init" => Quiet(p, S, Tail(R)) /\ Head(R) \in {200, 227, 425}
         /\ pc = "start" => \/ Head(R) \in {425, 550} /\ Quiet(p, S, Tail(R))
                            \/ Head(R) \in {125, 150} /\ Ending(p, S, Tail(R))
         /\ pc \in {"final", "sabort"} => Quiet(p, S, Tail(R)) /\ Head(R) \in Ends
         /\ pc = "abor1" => Aborted(x, p, S, Tail(R)) /\ Head(R) \in Ends \cup {225}
         /\ pc = "abor2" => Quiet(p, S, Tail(R)) /\ Head(R) \in Ends \cup {225}
<1>1. ~Says0(R, p) BY Reading
<1>2. \A k : Says1(R, p, k) => Head(R) = k /\ Says0(Tail(R), p) BY Reading
<1>3. \A k, l : Says2(R, p, k, l) => Head(R) = k /\ Says1(Tail(R), p, l) BY Reading
<1>4. \A K : Done(K, p, S, R) => Quiet(p, S, Tail(R)) /\ Head(R) \in K
  BY <1>2 DEF Done, Quiet
<1>5. /\ \A n : ~Asked(n, x, p, S, R)
      /\ ~Asked("NOOP", 0, p, S, R)
      /\ ~Opening(p, S, R) /\ ~Under(p, S, R)
  BY <1>1 DEF Asked, Opening, Under
<1>6. Started(p, S, R) => Under(p, S, Tail(R)) /\ Head(R) \in {125, 150}
  BY <1>2 DEF Started, Under
<1>7. Finished(p, S, R) => Done(Ends, p, S, Tail(R)) /\ Head(R) \in {125, 150}
  BY <1>3 DEF Finished, Done
<1>8. Aborting(x, p, S, R) => Aborted(x, p, S, Tail(R)) /\ Head(R) \in Ends \cup {225}
  BY <1>1, <1>2, <1>3 DEF Aborting, Aborted, Asked, Done
<1>9. pc = "noop" => Done({200}, p, S, R) BY <1>5 DEF Awaits
<1>10. pc = "init" => Done({200, 227, 425}, p, S, R) BY <1>5 DEF Awaits, Initing
<1>11. pc = "start" => Done({425, 550}, p, S, R) \/ Started(p, S, R) \/ Finished(p, S, R)
  BY <1>5 DEF Awaits, Starting
<1>12. pc \in {"final", "sabort"} => Done(Ends, p, S, R) BY <1>5 DEF Awaits, Ending
<1>13. pc = "abor1" => Aborting(x, p, S, R) BY DEF Awaits
<1>14. pc = "abor2" => Done(Ends \cup {225}, p, S, R) BY <1>5 DEF Awaits, Aborted
<1> QED BY <1>4, <1>6, <1>7, <1>8, <1>9, <1>10, <1>11, <1>12, <1>13, <1>14 DEF Ending

\* 421 comes from a server that is dead.
LEMMA LostStep ==
  ASSUME NEW pc, NEW cmd, NEW x, NEW p, NEW S, NEW R, Awaits(pc, cmd, x, p, S, R),
         pc \in {"noop", "init", "start", "final", "abor1", "abor2", "sabort"},
         R # <<>>, Head(R) = 421
  PROVE  p = "dead"
<1>1. Says0(R, p) => p = "dead" BY DEF Says0
<1>2. \A k : Says1(R, p, k) => p = "dead" \/ k = 421
  <2>1. \A k : Head(<<k>>) = k OBVIOUS
  <2> QED BY <2>1 DEF Says1
<1>3. \A k, l : Says2(R, p, k, l) => p = "dead" \/ k = 421
  <2>1. \A k, l : Head(<<k, l>>) = k OBVIOUS
  <2> QED BY <2>1 DEF Says2
<1>4. \A k \in Ends \cup {225} : k # 421 BY DEF Ends
<1>5. Done({200}, p, S, R) \/ Done({200, 227, 425}, p, S, R) \/ Done({425, 550}, p, S, R) \/ Started(p, S, R)
        => p = "dead"
  BY <1>2 DEF Done, Started
<1>6. Finished(p, S, R) => p = "dead" BY <1>3 DEF Finished
<1>7. Done(Ends, p, S, R) \/ Done(Ends \cup {225}, p, S, R) => p = "dead" BY <1>2, <1>4 DEF Done
<1>8. Aborting(x, p, S, R) => p = "dead" BY <1>1, <1>2, <1>3, <1>4 DEF Aborting
<1>9. Opening(p, S, R) \/ Under(p, S, R) \/ (\E n, y : Asked(n, y, p, S, R)) => p = "dead"
  BY <1>1 DEF Opening, Under, Asked
<1> QED
  BY <1>5, <1>6, <1>7, <1>8, <1>9 DEF Awaits, Initing, Starting, Ending, Aborted

\* A step of the client that sends a command.
LEMMA SendStep ==
  ASSUME NEW n, NEW x, NEW p, NEW S, NEW R
  PROVE  /\ Quiet(p, S, R) => Asked(n, x, p, Append(S, <<n, x>>), R)
         /\ Ending(p, S, R) => Aborting(x, p, Append(S, <<"ABOR", x>>), R)
<1>1. \A y : Append(<<>>, y) = <<y>> OBVIOUS
<1>2. Quiet(p, S, R) => Asked(n, x, p, Append(S, <<n, x>>), R) BY <1>1 DEF Quiet, Asked
<1>3. Ending(p, S, R) => Aborting(x, p, Append(S, <<"ABOR", x>>), R)
  BY <1>1 DEF Ending, Under, Done, Aborting
<1> QED BY <1>2, <1>3

\* Where the client is when the server, at rest, has a command to take.
LEMMA Taking ==
  ASSUME NEW pc \in Places, NEW cmd, NEW x, NEW p, NEW S, NEW R, Awaits(pc, cmd, x, p, S, R),
         p = "idle", S # <<>>
  PROVE  /\ \/ pc = "noop" /\ S = <<<<"NOOP", 0>>>> /\ Says0(R, p)
            \/ pc = "init" /\ S \in {<<<<"PORT", x>>>>, <<<<"PASV", x>>>>} /\ Says0(R, p)
            \/ pc = "start" /\ S = <<<<cmd, x>>>> /\ Says0(R, p)
            \/ /\ pc \in {"select", "drain", "abor1"} /\ S = <<<<"ABOR", x>>>>
               /\ \E k \in Ends : Says1(R, p, k)
            \/ pc = "abor2" /\ S = <<<<"ABOR", x>>>> /\ Says0(R, p)
            \/ pc \in {"lost", "spin", "crash"} /\ S = <<<<"ABOR", x>>>>
         /\ Tail(S) = <<>>
<1>1. \A y : Tail(<<y>>) = <<>> OBVIOUS
<1>2. "idle" \notin Busy /\ "idle" # "dead" BY DEF Busy
<1>3. \A K : ~Done(K, p, S, R) BY DEF Done
<1>4. ~Opening(p, S, R) /\ ~Started(p, S, R) /\ ~Finished(p, S, R) /\ ~Quiet(p, S, R) /\ ~Ending(p, S, R)
  BY <1>3 DEF Opening, Started, Finished, Quiet, Ending, Under
<1>5. pc \notin {"prompt", "ready", "accept", "data", "gap", "final", "sabort"} BY <1>4 DEF Awaits
<1>6. pc = "noop" => S = <<<<"NOOP", 0>>>> /\ Says0(R, p) BY <1>3 DEF Awaits, Asked
<1>7. pc = "init" => S \in {<<<<"PORT", x>>>>, <<<<"PASV", x>>>>} /\ Says0(R, p)
  BY <1>3 DEF Awaits, Initing, Asked
<1>8. pc = "start" => S = <<<<cmd, x>>>> /\ Says0(R, p) BY <1>3, <1>4 DEF Awaits, Starting, Asked
<1>9. pc \in {"select", "drain", "abor1"}
        => S = <<<<"ABOR", x>>>> /\ \E k \in Ends : Says1(R, p, k)
  BY <1>2 DEF Awaits, Aborting
<1>10. pc = "abor2" => S = <<<<"ABOR", x>>>> /\ Says0(R, p) BY <1>3 DEF Awaits, Aborted, Asked
<1>11. pc \in {"lost", "spin", "crash"} => S = <<<<"ABOR", x>>>> BY <1>2 DEF Awaits, Gone
<1>12. pc \in {"noop", "init", "start", "select", "drain", "abor1", "abor2", "lost", "spin", "crash"}
  BY <1>5 DEF Places
<1> QED BY <1>1, <1>6, <1>7, <1>8, <1>9, <1>10, <1>11, <1>12

\* The server takes a command and answers it.
LEMMA AnswerStep ==
  ASSUME NEW pc \in Places, NEW cmd, NEW x, NEW p, NEW S, NEW R, Awaits(pc, cmd, x, p, S, R),
         pc = "start" => cmd \in Cmds,
         p = "idle", S # <<>>, NEW k \in Int,
         \/ Head(S)[1] \in {"NOOP", "PORT"} /\ k = 200
         \/ Head(S)[1] = "ABOR" /\ k = 225
         \/ Head(S)[1] = "PASV" /\ k \in {227, 425}
         \/ Head(S)[1] \in Cmds /\ k = 550
  PROVE  Awaits(pc, cmd, x, p, Tail(S), Append(R, k))
<1> DEFINE T == Tail(S)
           Q == Append(R, k)
<1>1. T = <<>> BY Taking
<1>2. p # "dead" /\ p \in Resting BY DEF Resting
<1>3. Says0(R, p) => Says1(Q, p, k) BY <1>2, Saying
<1>4. \A j \in Ends : Says1(R, p, j) => Says2(Q, p, j, k) BY <1>2, Saying DEF Ends
<1>5. \A n, y : S = <<<<n, y>>>> => Head(S)[1] = n OBVIOUS
<1>6. \A n \in Cmds : n \notin {"NOOP", "PORT", "PASV", "ABOR"} BY FtpAssumption
<1> HIDE DEF T, Q
<1>7. CASE pc = "noop" /\ S = <<<<"NOOP", 0>>>> /\ Says0(R, p)
  <2>1. k = 200 BY <1>5, <1>6, <1>7
  <2>2. Done({200}, p, T, Q) BY <1>1, <1>2, <1>3, <1>7, <2>1 DEF Done
  <2> QED BY <1>7, <2>2 DEF Awaits, T, Q
<1>8. CASE pc = "init" /\ S \in {<<<<"PORT", x>>>>, <<<<"PASV", x>>>>} /\ Says0(R, p)
  <2>1. Head(S)[1] \in {"PORT", "PASV"} BY <1>5, <1>8
  <2>2. k \in {200, 227, 425} BY <1>6, <2>1
  <2>3. Done({200, 227, 425}, p, T, Q) BY <1>1, <1>2, <1>3, <1>8, <2>2 DEF Done
  <2> QED BY <1>8, <2>3 DEF Awaits, Initing, T, Q
<1>9. CASE pc = "start" /\ S = <<<<cmd, x>>>> /\ Says0(R, p)
  <2>1. k = 550 BY <1>5, <1>6, <1>9
  <2>2. Done({425, 550}, p, T, Q) BY <1>1, <1>2, <1>3, <1>9, <2>1 DEF Done
  <2> QED BY <1>9, <2>2 DEF Awaits, Starting, T, Q
<1>10. CASE /\ pc \in {"select", "drain", "abor1"} /\ S = <<<<"ABOR", x>>>>
            /\ \E j \in Ends : Says1(R, p, j)
  <2>1. k = 225 BY <1>5, <1>6, <1>10
  <2>2. Aborting(x, p, T, Q) BY <1>1, <1>2, <1>4, <1>10, <2>1 DEF Aborting
  <2> QED BY <1>10, <2>2 DEF Awaits, T, Q
<1>11. CASE pc = "abor2" /\ S = <<<<"ABOR", x>>>> /\ Says0(R, p)
  <2>1. k = 225 BY <1>5, <1>6, <1>11
  <2>2. Done(Ends \cup {225}, p, T, Q) BY <1>1, <1>2, <1>3, <1>11, <2>1 DEF Done
  <2> QED BY <1>11, <2>2 DEF Awaits, Aborted, T, Q
<1>12. CASE pc \in {"lost", "spin", "crash"}
  <2>1. Gone(x, p, T) BY <1>1 DEF Gone
  <2> QED BY <1>12, <2>1 DEF Awaits, T, Q
<1> QED BY Taking, <1>7, <1>8, <1>9, <1>10, <1>11, <1>12

\* It takes the command of a transfer and opens the file.
LEMMA OpenStep ==
  ASSUME NEW pc \in Places, NEW cmd, NEW x, NEW p, NEW S, NEW R, Awaits(pc, cmd, x, p, S, R),
         p = "idle", S # <<>>, Head(S)[1] \in Cmds
  PROVE  /\ pc = "start" /\ S = <<<<cmd, x>>>> /\ Tail(S) = <<>>
         /\ Awaits(pc, cmd, x, "dataconn", Tail(S), R)
<1>1. \A n, y : S = <<<<n, y>>>> => Head(S)[1] = n OBVIOUS
<1>2. \A n \in Cmds : n \notin {"NOOP", "PORT", "PASV", "ABOR"} BY FtpAssumption
<1>3. S \notin {<<<<"NOOP", 0>>>>, <<<<"PORT", x>>>>, <<<<"PASV", x>>>>, <<<<"ABOR", x>>>>}
  BY <1>1, <1>2
<1>4. pc = "start" /\ S = <<<<cmd, x>>>> /\ Says0(R, p) /\ Tail(S) = <<>> BY <1>3, Taking
<1>5. Says0(R, "dataconn") BY <1>4, Keeping
<1>6. Opening("dataconn", Tail(S), R) BY <1>4, <1>5 DEF Opening
<1> QED BY <1>4, <1>6 DEF Awaits, Starting

\* It has a data connection, or has not.
LEMMA DataconnStep ==
  ASSUME NEW pc \in Places, NEW cmd, NEW x, NEW S, NEW R, Awaits(pc, cmd, x, "dataconn", S, R)
  PROVE  /\ pc = "start" \/ pc \in {"lost", "spin", "crash"}
         /\ \A k \in {125, 150} : Awaits(pc, cmd, x, "opened", S, Append(R, k))
         /\ Awaits(pc, cmd, x, "idle", S, Append(R, 425))
<1>1. "dataconn" \notin Busy /\ "dataconn" \notin Resting /\ "opened" \in Busy /\ "idle" \in Resting
  BY DEF Busy, Resting
<1>2. pc = "start" => Opening("dataconn", S, R)
  BY <1>1 DEF Awaits, Starting, Asked, Done, Started, Finished
<1>3. pc \in {"lost", "spin", "crash"} => \A q : q # "dead" => Gone(x, q, S) BY DEF Awaits, Gone
<1>4. pc = "start" \/ pc \in {"lost", "spin", "crash"}
  BY <1>1 DEF Awaits, Initing, Aborting, Aborted, Ending, Under, Quiet, Asked, Done, Places
<1>5. ASSUME NEW q, NEW k \in Int, pc = "start" PROVE Says1(Append(R, k), q, k) /\ S = <<>>
  BY <1>2, <1>5, Saying DEF Opening
<1>6. ASSUME NEW k \in {125, 150} PROVE Awaits(pc, cmd, x, "opened", S, Append(R, k))
  <2>1. pc = "start" => Started("opened", S, Append(R, k)) BY <1>1, <1>5 DEF Started
  <2> QED BY <1>3, <1>4, <2>1 DEF Awaits, Starting
<1>7. Awaits(pc, cmd, x, "idle", S, Append(R, 425))
  <2>1. pc = "start" => Done({425, 550}, "idle", S, Append(R, 425)) BY <1>1, <1>5 DEF Done
  <2> QED BY <1>3, <1>4, <2>1 DEF Awaits, Starting
<1> QED BY <1>4, <1>6, <1>7

\* Where the client is while the server is at a transfer.
LEMMA Serving ==
  ASSUME NEW pc \in Places, NEW cmd, NEW x, NEW p, NEW S, NEW R, Awaits(pc, cmd, x, p, S, R),
         p \in {"opened", "xfer", "reply"}
  PROVE  \/ pc = "start" /\ Started(p, S, R)
         \/ pc \in {"accept", "data", "gap", "final", "sabort"} /\ Under(p, S, R)
         \/ pc \in {"select", "drain", "abor1"} /\ S = <<<<"ABOR", x>>>> /\ Says0(R, p)
         \/ pc \in {"lost", "spin", "crash"} /\ S \in {<<>>, <<<<"ABOR", x>>>>}
<1>1. p \notin Resting /\ p # "dead" /\ p # "dataconn" BY DEF Resting
<1>2. /\ \A n, y : ~Asked(n, y, p, S, R)
      /\ \A K : ~Done(K, p, S, R)
      /\ ~Quiet(p, S, R) /\ ~Opening(p, S, R) /\ ~Finished(p, S, R)
  BY <1>1 DEF Asked, Done, Quiet, Opening, Finished
<1>3. pc \notin {"prompt", "ready", "noop", "init", "abor2"} BY <1>2 DEF Awaits, Initing, Aborted
<1>4. pc = "start" => Started(p, S, R) BY <1>2 DEF Awaits, Starting
<1>5. pc \in {"accept", "data", "gap", "final", "sabort"} => Under(p, S, R) BY <1>2 DEF Awaits, Ending
<1>6. pc \in {"select", "drain", "abor1"} => S = <<<<"ABOR", x>>>> /\ Says0(R, p)
  BY <1>1 DEF Awaits, Aborting
<1>7. pc \in {"lost", "spin", "crash"} => S \in {<<>>, <<<<"ABOR", x>>>>} BY <1>1 DEF Awaits, Gone
<1> QED BY <1>3, <1>4, <1>5, <1>6, <1>7 DEF Places

\* It goes on with the transfer; it ends it with a reply.
LEMMA BusyStep ==
  ASSUME NEW pc \in Places, NEW cmd, NEW x, NEW p, NEW q, NEW S, NEW R,
         Awaits(pc, cmd, x, p, S, R),
         p \in {"opened", "xfer", "reply"}, q \in {"opened", "xfer", "reply"}
  PROVE  Awaits(pc, cmd, x, q, S, R)
<1>1. p # "dead" /\ q \in Busy BY DEF Busy
<1>2. /\ Says0(R, p) => Says0(R, q)
      /\ \A k : Says1(R, p, k) => Says1(R, q, k)
  BY <1>1, Keeping
<1>3. CASE pc = "start" /\ Started(p, S, R)
  <2>1. Started(q, S, R) BY <1>1, <1>2, <1>3 DEF Started
  <2> QED BY <1>3, <2>1 DEF Awaits, Starting
<1>4. CASE pc \in {"accept", "data", "gap", "final", "sabort"} /\ Under(p, S, R)
  <2>1. Under(q, S, R) BY <1>1, <1>2, <1>4 DEF Under
  <2> QED BY <1>4, <2>1 DEF Awaits, Ending
<1>5. CASE pc \in {"select", "drain", "abor1"} /\ S = <<<<"ABOR", x>>>> /\ Says0(R, p)
  <2>1. Aborting(x, q, S, R) BY <1>1, <1>2, <1>5 DEF Aborting
  <2> QED BY <1>5, <2>1 DEF Awaits
<1>6. CASE pc \in {"lost", "spin", "crash"} /\ S \in {<<>>, <<<<"ABOR", x>>>>}
  BY <1>6 DEF Awaits, Gone
<1> QED BY Serving, <1>3, <1>4, <1>5, <1>6

LEMMA ReplyStep ==
  ASSUME NEW pc \in Places, NEW cmd, NEW x, NEW S, NEW R, NEW k \in Ends,
         Awaits(pc, cmd, x, "reply", S, R)
  PROVE  Awaits(pc, cmd, x, "close", S, Append(R, k))
<1> DEFINE Q == Append(R, k)
<1>1. "close" \in Resting /\ k \in Int /\ \A b \in {125, 150} : b \in Int BY DEF Resting, Ends
<1>2. /\ Says0(R, "reply") => Says1(Q, "close", k)
      /\ \A b \in {125, 150} : Says1(R, "reply", b) => Says2(Q, "close", b, k)
  BY <1>1, Saying
<1> HIDE DEF Q
<1>3. CASE pc = "start" /\ Started("reply", S, R)
  <2>1. Finished("close", S, Q) BY <1>1, <1>2, <1>3 DEF Started, Finished
  <2> QED BY <1>3, <2>1 DEF Awaits, Starting, Q
<1>4. CASE pc \in {"accept", "data", "gap", "final", "sabort"} /\ Under("reply", S, R)
  <2>1. Done(Ends, "close", S, Q) BY <1>1, <1>2, <1>4 DEF Under, Done
  <2> QED BY <1>4, <2>1 DEF Awaits, Ending, Q
<1>5. CASE pc \in {"select", "drain", "abor1"} /\ S = <<<<"ABOR", x>>>> /\ Says0(R, "reply")
  <2>1. Aborting(x, "close", S, Q) BY <1>1, <1>2, <1>5 DEF Aborting
  <2> QED BY <1>5, <2>1 DEF Awaits, Q
<1>6. CASE pc \in {"lost", "spin", "crash"} /\ S \in {<<>>, <<<<"ABOR", x>>>>}
  BY <1>6 DEF Awaits, Gone
<1> QED BY Serving, <1>3, <1>4, <1>5, <1>6

LEMMA CloseStep ==
  ASSUME NEW pc \in Places, NEW cmd, NEW x, NEW S, NEW R, Awaits(pc, cmd, x, "close", S, R)
  PROVE  Awaits(pc, cmd, x, "idle", S, R)
<1>1. /\ "idle" \in Resting /\ "close" # "dead" /\ "close" \notin Busy
  BY DEF Resting, Busy
<1>2. /\ Says0(R, "close") => Says0(R, "idle")
      /\ \A k : Says1(R, "close", k) => Says1(R, "idle", k)
      /\ \A k, l : Says2(R, "close", k, l) => Says2(R, "idle", k, l)
  BY <1>1, Keeping
<1>3. \A n, y : Asked(n, y, "close", S, R) => Asked(n, y, "idle", S, R) BY <1>1, <1>2 DEF Asked
<1>4. \A K : Done(K, "close", S, R) => Done(K, "idle", S, R) BY <1>1, <1>2 DEF Done
<1>5. /\ Quiet("close", S, R) => Quiet("idle", S, R)
      /\ Finished("close", S, R) => Finished("idle", S, R)
      /\ ~Opening("close", S, R) /\ ~Started("close", S, R) /\ ~Under("close", S, R)
  BY <1>1, <1>2 DEF Quiet, Finished, Opening, Started, Under
<1>6. Aborting(x, "close", S, R) => Aborting(x, "idle", S, R) BY <1>1, <1>2 DEF Aborting
<1>7. /\ Initing(x, "close", S, R) => Initing(x, "idle", S, R)
      /\ Starting(cmd, x, "close", S, R) => Starting(cmd, x, "idle", S, R)
      /\ Ending("close", S, R) => Ending("idle", S, R)
      /\ Aborted(x, "close", S, R) => Aborted(x, "idle", S, R)
      /\ Gone(x, "close", S) => Gone(x, "idle", S)
  BY <1>3, <1>4, <1>5 DEF Initing, Starting, Ending, Aborted, Gone
<1> QED BY <1>3, <1>4, <1>5, <1>6, <1>7 DEF Awaits

\* Urgent data end it.
LEMMA OobStep ==
  ASSUME NEW pc \in Places, NEW cmd, NEW x, NEW S, NEW R, Awaits(pc, cmd, x, "xfer", S, R),
         S # <<>>, NEW q \in {"idle", "close"}
  PROVE  /\ Awaits(pc, cmd, x, q, Tail(S), R \o <<426, 226>>)
         /\ Tail(S) = <<>> /\ pc \in {"select", "drain", "abor1", "lost", "spin", "crash"}
<1>1. q \in Resting BY DEF Resting
<1>2. \A y : Tail(<<y>>) = <<>> OBVIOUS
<1>3. \/ pc \in {"select", "drain", "abor1"} /\ S = <<<<"ABOR", x>>>> /\ Says0(R, "xfer")
      \/ pc \in {"lost", "spin", "crash"} /\ S = <<<<"ABOR", x>>>>
  BY Serving DEF Started, Under
<1>4. Tail(S) = <<>> BY <1>2, <1>3
<1>5. Says0(R, "xfer") => Says2(R \o <<426, 226>>, q, 426, 226)
  <2>1. <<>> \o <<426, 226>> = <<426, 226>> OBVIOUS
  <2> QED BY <2>1 DEF Says0, Says2
<1>6. Says0(R, "xfer") => Aborting(x, q, Tail(S), R \o <<426, 226>>)
  BY <1>1, <1>4, <1>5 DEF Aborting, Ends
<1>7. Gone(x, q, Tail(S)) BY <1>4 DEF Gone
<1> QED BY <1>3, <1>4, <1>6, <1>7 DEF Awaits

\* It dies.
LEMMA DieStep ==
  ASSUME NEW pc \in Places, NEW cmd, NEW x, NEW p, NEW S, NEW R, NEW Q, Awaits(pc, cmd, x, p, S, R),
         p # "dead", Q \in {R, Append(R, 421)}
  PROVE  Awaits(pc, cmd, x, "dead", S, Q)
<1>1. "dead" \in Resting /\ "dead" \in Busy /\ \A k \in Ends \cup {225} : k \in Int BY DEF Resting, Busy, Ends
<1>2. /\ Says0(R, p) => Says0(Q, "dead")
      /\ \A k \in Int : Says1(R, p, k) => Says1(Q, "dead", k)
      /\ \A k, l \in Int : Says2(R, p, k, l) => Says2(Q, "dead", k, l)
  <2>1. CASE Q = R BY <2>1, Keeping
  <2>2. CASE Q = Append(R, 421)
    <3> DEFINE A == Append(R, 421)
    <3>1. Says0(R, p) => Says0(A, "dead") BY Dying
    <3>2. \A k \in Int : Says1(R, p, k) => Says1(A, "dead", k) BY Dying
    <3>3. \A k, l \in Int : Says2(R, p, k, l) => Says2(A, "dead", k, l) BY Dying
    <3>4. Q = A BY <2>2
    <3> HIDE DEF A
    <3> QED BY <3>1, <3>2, <3>3, <3>4
  <2> QED BY <2>1, <2>2
<1>3. \A n, y : Asked(n, y, p, S, R) => Asked(n, y, "dead", S, Q) BY <1>1, <1>2 DEF Asked
<1>4. /\ Done({200}, p, S, R) => Done({200}, "dead", S, Q)
      /\ Done({200, 227, 425}, p, S, R) => Done({200, 227, 425}, "dead", S, Q)
      /\ Done({425, 550}, p, S, R) => Done({425, 550}, "dead", S, Q)
  BY <1>1, <1>2 DEF Done
<1>5. /\ Done(Ends, p, S, R) => Done(Ends, "dead", S, Q)
      /\ Done(Ends \cup {225}, p, S, R) => Done(Ends \cup {225}, "dead", S, Q)
  BY <1>1, <1>2 DEF Done
<1>6. /\ Quiet(p, S, R) => Quiet("dead", S, Q)
      /\ Opening(p, S, R) => Opening("dead", S, Q)
      /\ Under(p, S, R) => Under("dead", S, Q)
      /\ Started(p, S, R) => Started("dead", S, Q)
  BY <1>1, <1>2 DEF Quiet, Opening, Started, Under
<1>7. Finished(p, S, R) => Finished("dead", S, Q) BY <1>1, <1>2 DEF Finished
<1>8. Aborting(x, p, S, R) => Aborting(x, "dead", S, Q) BY <1>1, <1>2 DEF Aborting
<1>9. /\ Initing(x, p, S, R) => Initing(x, "dead", S, Q)
      /\ Starting(cmd, x, p, S, R) => Starting(cmd, x, "dead", S, Q)
      /\ Ending(p, S, R) => Ending("dead", S, Q)
      /\ Aborted(x, p, S, R) => Aborted(x, "dead", S, Q)
      /\ Gone(x, "dead", S)
  BY <1>3, <1>4, <1>5, <1>6, <1>7 DEF Initing, Starting, Ending, Aborted, Gone
<1> QED BY <1>3, <1>4, <1>6, <1>8, <1>9 DEF Awaits

-----------------------------------------------------------------------------
(* The data connections.                                                   *)

\* They are used in the order of their numbers.
Unused(x) == ~conn[x].cEnd /\ (s.pc # "dead" => ~conn[x].sEnd) /\ conn[x].n = 0
Requesting(pc) == pc \notin {"prompt", "noop", "lost", "spin", "crash"}
Fresh == c.pc \in {"init", "ready"} \/ (c.pc = "start" /\ toS # <<>>)
Numbered ==
    /\ c.x \in 0 .. xfers /\ s.use \in 0 .. xfers /\ s.pdata \in 0 .. xfers
    /\ s.data \in 0 .. xfers /\ s.dest \in 0 .. xfers
    /\ \A x \in Xfers : x > xfers => Unused(x)
    /\ Requesting(c.pc) => c.x # 0
    /\ s.pc \in {"opened", "xfer", "reply", "close"} => s.use # 0
    /\ Fresh => s.use # c.x

FInv == Typed /\ Dialogue /\ Urgent /\ Numbered

\* What a step may do to one of them.
EndsC(x) == conn' = [conn EXCEPT ![x].cEnd = TRUE]
EndsS(x) == conn' = [conn EXCEPT ![x].sEnd = TRUE]
Establishes(x) == conn' = [conn EXCEPT ![x].est = TRUE]
Fills(x) == conn' = [conn EXCEPT ![x].n = @ + 1]
Empties(x) == conn' = [conn EXCEPT ![x].n = @ - 1]
Others(x) == \A y \in Xfers : y # x => conn'[y] = conn[y]

LEMMA EndsCFacts ==
  ASSUME Typed, NEW x \in Xfers, EndsC(x)
  PROVE  /\ conn' \in [Xfers -> Conn0] /\ Others(x)
         /\ conn'[x].cEnd /\ conn'[x].n = conn[x].n /\ conn'[x].sEnd = conn[x].sEnd
         /\ conn'[x].est = conn[x].est
  BY DEF Typed, EndsC, Others, Conn0

LEMMA EndsSFacts ==
  ASSUME Typed, NEW x \in Xfers, EndsS(x)
  PROVE  /\ conn' \in [Xfers -> Conn0] /\ Others(x)
         /\ conn'[x].sEnd /\ conn'[x].n = conn[x].n /\ conn'[x].cEnd = conn[x].cEnd
         /\ conn'[x].est = conn[x].est
  BY DEF Typed, EndsS, Others, Conn0

LEMMA EstablishesFacts ==
  ASSUME Typed, NEW x \in Xfers, Establishes(x)
  PROVE  /\ conn' \in [Xfers -> Conn0] /\ Others(x)
         /\ conn'[x].sEnd = conn[x].sEnd /\ conn'[x].n = conn[x].n /\ conn'[x].cEnd = conn[x].cEnd
  BY DEF Typed, Establishes, Others, Conn0

LEMMA FillsFacts ==
  ASSUME Typed, NEW x \in Xfers, Fills(x)
  PROVE  /\ conn' \in [Xfers -> Conn0] /\ Others(x)
         /\ conn'[x].sEnd = conn[x].sEnd /\ conn'[x].n = conn[x].n + 1 /\ conn'[x].cEnd = conn[x].cEnd
  BY DEF Typed, Fills, Others, Conn0

LEMMA EmptiesFacts ==
  ASSUME Typed, NEW x \in Xfers, Empties(x), conn[x].n > 0
  PROVE  /\ conn' \in [Xfers -> Conn0] /\ Others(x)
         /\ conn'[x].sEnd = conn[x].sEnd /\ conn'[x].n = conn[x].n - 1 /\ conn'[x].cEnd = conn[x].cEnd
  BY DEF Typed, Empties, Others, Conn0

LEMMA InXfers ==
  ASSUME FInv PROVE \A x \in 0 .. xfers : x # 0 => x \in Xfers
  BY FtpAssumption DEF FInv, Typed, Xfers

\* The client closes its data descriptor, if it has one.
LEMMA ClosesDataFacts ==
  ASSUME FInv, ClosesData
  PROVE  /\ conn' \in [Xfers -> Conn0] /\ Others(c.x)
         /\ \A y \in Xfers : conn'[y].n = conn[y].n /\ conn'[y].sEnd = conn[y].sEnd
<1>1. c.x # 0 => c.x \in Xfers BY InXfers DEF FInv, Numbered
<1>2. UNCHANGED conn \/ (c.x # 0 /\ EndsC(c.x)) BY DEF ClosesData, EndsC
<1>3. CASE UNCHANGED conn BY <1>3 DEF FInv, Typed, Others
<1>4. CASE c.x # 0 /\ EndsC(c.x)
  <2>1. Typed BY DEF FInv
  <2>2. conn' \in [Xfers -> Conn0] /\ Others(c.x) /\ conn'[c.x].n = conn[c.x].n /\ conn'[c.x].sEnd = conn[c.x].sEnd
    BY <1>1, <1>4, <2>1, EndsCFacts
  <2> QED BY <1>1, <1>4, <2>2 DEF Others
<1> QED BY <1>2, <1>3, <1>4

\* A step of the client, and one of the server.
LEMMA ClientStep ==
  ASSUME FInv, s' = s, xfers' = xfers, c' \in Client0, c'.x = c.x, c'.cmd = c.cmd,
         Awaits(c'.pc, c.cmd, c.x, s.pc, toS', toC'),
         conn' \in [Xfers -> Conn0], Others(c.x), urg' \in BOOLEAN, Urgent',
         c'.pc \in {"prompt", "ready"} => ~c'.cpend,
         c'.pc \in {"start", "accept", "data", "gap", "final", "sabort"} => c'.cpend,
         c'.pc \in {"init", "ready", "start"} => c.pc \in {"init", "ready", "start"},
         Requesting(c'.pc) => Requesting(c.pc), Fresh' => Fresh
  PROVE  FInv'
<1>1. Typed' BY DEF FInv, Typed
<1>2. Dialogue' BY DEF FInv, Dialogue
<1>3. Numbered'
  <2>1. \A x \in Xfers : x > xfers => Unused(x)'
    <3>1. \A x \in Xfers : x > xfers => x # c.x BY FtpAssumption DEF FInv, Typed, Numbered, Xfers
    <3> QED BY <3>1 DEF FInv, Numbered, Unused, Others
  <2> QED BY <2>1 DEF FInv, Numbered
<1> QED BY <1>1, <1>2, <1>3 DEF FInv

LEMMA ServerStep ==
  ASSUME FInv, c' = c, xfers' = xfers, s' \in Server0,
         Awaits(c.pc, c.cmd, c.x, s'.pc, toS', toC'),
         conn' \in [Xfers -> Conn0],
         \A y \in Xfers : y > xfers => Unused(y)',
         urg' \in BOOLEAN, Urgent',
         s'.use \in 0 .. xfers, s'.pdata \in 0 .. xfers,
         s'.data \in 0 .. xfers, s'.dest \in 0 .. xfers,
         s'.pc \in {"opened", "xfer", "reply", "close"} => s'.use # 0,
         s'.pc = "reply" => s'.say \in Ends, Fresh' => s'.use # c.x
  PROVE  FInv'
  BY DEF FInv, Typed, Dialogue, Numbered, Requesting

-----------------------------------------------------------------------------
(* The client's steps.                                                     *)

Same(r, q) ==
    /\ r.cmd = q.cmd /\ r.x = q.x /\ r.pasv = q.pasv /\ r.data = q.data /\ r.din = q.din
    /\ r.got = q.got /\ r.aborted = q.aborted

LEMMA RepliedFacts ==
  ASSUME c \in Client0, Head(toC) \in Int
  PROVE  /\ Replied(c) \in Client0 /\ Same(Replied(c), c)
         /\ Replied(c).pc = c.pc /\ Replied(c).abrt = c.abrt /\ Replied(c).code = Head(toC)
         /\ (IF Prelim(Head(toC)) THEN Replied(c).cpend = c.cpend ELSE ~Replied(c).cpend)
<1> HIDE DEF Prelim
<1> QED BY DEF Replied, Same, Client0

LEMMA AtPromptFacts ==
  ASSUME NEW r \in Client0
  PROVE  /\ AtPrompt(r) \in Client0 /\ Same(AtPrompt(r), r)
         /\ AtPrompt(r).pc = "prompt" /\ AtPrompt(r).abrt = FALSE
         /\ AtPrompt(r).code = r.code /\ AtPrompt(r).cpend = r.cpend
  BY DEF AtPrompt, Same, Client0, Places

LEMMA AnsweredFacts ==
  ASSUME c \in Client0, Head(toC) \in Int
  PROVE  /\ AtPrompt(Replied(c)) \in Client0 /\ Same(AtPrompt(Replied(c)), c)
         /\ AtPrompt(Replied(c)).pc = "prompt" /\ AtPrompt(Replied(c)).abrt = FALSE
         /\ AtPrompt(Replied(c)).code = Head(toC)
         /\ (IF Prelim(Head(toC)) THEN AtPrompt(Replied(c)).cpend = c.cpend
             ELSE ~AtPrompt(Replied(c)).cpend)
<1> DEFINE r == Replied(c)
<1>1. /\ r \in Client0 /\ Same(r, c) /\ r.code = Head(toC)
      /\ (IF Prelim(Head(toC)) THEN r.cpend = c.cpend ELSE ~r.cpend)
  BY RepliedFacts
<1> HIDE DEF r
<1>2. /\ AtPrompt(r) \in Client0 /\ Same(AtPrompt(r), r)
      /\ AtPrompt(r).pc = "prompt" /\ AtPrompt(r).abrt = FALSE
      /\ AtPrompt(r).code = r.code /\ AtPrompt(r).cpend = r.cpend
  BY <1>1, AtPromptFacts
<1>3. Same(AtPrompt(r), c) BY <1>1, <1>2 DEF Same
<1> QED BY <1>1, <1>2, <1>3 DEF r

\* A step that leaves the data connections alone.
LEMMA SameConn == ASSUME FInv, UNCHANGED conn PROVE conn' \in [Xfers -> Conn0] /\ Others(c.x)
  BY DEF FInv, Typed, Others

LEMMA UrgentKept == ASSUME FInv, UNCHANGED <<urg, toS>> PROVE Urgent' /\ urg' \in BOOLEAN
  BY DEF FInv, Typed, Urgent

LEMMA NoopF == ASSUME FInv, Noop PROVE FInv'
<1>1. c' \in Client0 /\ c'.pc = "noop" /\ c'.x = c.x /\ c'.cmd = c.cmd
  BY DEF Noop, FInv, Typed, Client0, Places
<1>2. Quiet(s.pc, toS, toC) /\ toS = <<>> /\ c.pc = "prompt" BY DEF Noop, FInv, Dialogue, Awaits, Quiet
<1>3. Asked("NOOP", 0, s.pc, toS', toC') BY <1>2, SendStep DEF Noop
<1>4. Awaits(c'.pc, c.cmd, c.x, s.pc, toS', toC') BY <1>1, <1>3 DEF Awaits
<1>5. ~urg /\ urg' = urg BY <1>2 DEF FInv, Urgent, Typed, Noop
<1>6. Urgent' /\ urg' \in BOOLEAN BY <1>5 DEF FInv, Typed, Urgent
<1>7. conn' \in [Xfers -> Conn0] /\ Others(c.x) BY SameConn DEF Noop
<1>8. s' = s /\ xfers' = xfers BY DEF Noop
<1> QED BY <1>1, <1>4, <1>6, <1>7, <1>8, ClientStep DEF Requesting, Fresh

LEMMA RequestF ==
  ASSUME FInv, NEW cmd \in Cmds, NEW pasv \in BOOLEAN, Request(cmd, pasv) PROVE FInv'
<1>1. /\ c' \in Client0 /\ c'.pc = "init" /\ c'.x = xfers + 1 /\ c'.cmd = cmd /\ xfers' = xfers + 1
      /\ xfers' \in 0 .. MaxXfers /\ xfers \in Nat
  <2> DEFINE d == IF pasv THEN "none" ELSE "listen"
  <2>1. xfers' = xfers + 1 /\ xfers' \in 0 .. MaxXfers /\ xfers \in Nat /\ xfers' \in Nat
    BY FtpAssumption DEF Request, FInv, Typed
  <2>2. c \in Client0 /\ d \in {"none", "listen", "conn"} /\ cmd \in Names BY DEF FInv, Typed, Names
  <2>3. c' = [c EXCEPT !.pc = "init", !.cmd = cmd, !.x = xfers', !.pasv = pasv, !.cpend = TRUE,
                       !.data = d, !.din = FALSE, !.got = 0, !.aborted = FALSE,
                       !.cut = FALSE]
    BY DEF Request
  <2> HIDE DEF d
  <2>4. c' \in Client0 BY <2>1, <2>2, <2>3 DEF Client0, Places
  <2> QED BY <2>1, <2>2, <2>3, <2>4 DEF Client0
<1>2. Quiet(s.pc, toS, toC) /\ toS = <<>> /\ c.pc = "prompt" BY DEF Request, FInv, Dialogue, Awaits, Quiet
<1>3. Initing(xfers + 1, s.pc, toS', toC')
  <2>1. toS' \in {Append(toS, <<"PASV", xfers + 1>>), Append(toS, <<"PORT", xfers + 1>>)} /\ toC' = toC
    BY <1>1 DEF Request
  <2> QED BY <1>2, <2>1, SendStep DEF Initing
<1>4. ~urg /\ urg' = urg BY <1>2 DEF FInv, Urgent, Typed, Request
<1>5. conn' \in [Xfers -> Conn0] /\ Others(c.x)
      /\ \A y \in Xfers : conn'[y].n = conn[y].n /\ conn'[y].sEnd = conn[y].sEnd
  <2>1. CASE UNCHANGED conn BY <2>1 DEF FInv, Typed, Others
  <2>2. CASE ClosesData BY <2>2, ClosesDataFacts
  <2> QED BY <2>1, <2>2 DEF Request
<1>6. s' = s BY DEF Request
<1>7. Typed' BY <1>1, <1>4, <1>5, <1>6 DEF FInv, Typed
<1>8. Dialogue' BY <1>1, <1>3, <1>6 DEF FInv, Dialogue, Awaits
<1>9. Numbered'
  <2>1. \A x \in Xfers : x > xfers + 1 => Unused(x)'
    <3>1. \A x \in Xfers : x > xfers + 1 => x > xfers /\ x # c.x
      BY <1>1 DEF FInv, Numbered, Xfers
    <3> QED BY <3>1, <1>5, <1>6 DEF FInv, Numbered, Unused, Others
  <2>2. \A x \in 0 .. xfers : x \in 0 .. xfers + 1 /\ x # xfers + 1 BY <1>1
  <2> QED BY <1>1, <1>6, <2>1, <2>2 DEF FInv, Numbered, Requesting, Fresh
<1>10. Urgent' BY <1>4 DEF Urgent
<1> QED BY <1>7, <1>8, <1>9, <1>10 DEF FInv

LEMMA LostPeerF == ASSUME FInv, LostPeer PROVE FInv'
<1>1. c' \in Client0 /\ c'.pc \in {"lost", "spin", "crash"} /\ c'.x = c.x /\ c'.cmd = c.cmd
  <2> DEFINE q == IF ~c.abrt \/ CanRead THEN "lost" ELSE IF c.pc = "init" THEN "spin"
                  ELSE IF c.pc = "start" /\ Receives THEN "crash" ELSE "lost"
             k == 421
  <2>1. c \in Client0 /\ q \in {"lost", "spin", "crash"} /\ k \in Int BY DEF FInv, Typed
  <2>2. c' = [c EXCEPT !.pc = q, !.code = k, !.data = "none", !.din = FALSE] BY DEF LostPeer
  <2> HIDE DEF q, k
  <2> QED BY <2>1, <2>2 DEF Client0, Places
<1>2. s.pc = "dead"
  <2>1. CASE EndOfReplies BY <2>1 DEF EndOfReplies
  <2>2. CASE CanRead /\ Head(toC) = 421
    <3>1. Awaits(c.pc, c.cmd, c.x, s.pc, toS, toC) BY DEF FInv, Dialogue
    <3> QED BY <2>2, <3>1, LostStep DEF LostPeer, Waiting, CanRead
  <2> QED BY <2>1, <2>2 DEF LostPeer
<1>3. Awaits(c'.pc, c.cmd, c.x, s.pc, toS', toC') BY <1>1, <1>2 DEF Awaits, Gone
<1>4. Urgent' /\ urg' \in BOOLEAN BY UrgentKept DEF LostPeer
<1>5. conn' \in [Xfers -> Conn0] /\ Others(c.x) BY ClosesDataFacts DEF LostPeer
<1>6. s' = s /\ xfers' = xfers BY DEF LostPeer, bounds
<1> QED BY <1>1, <1>3, <1>4, <1>5, <1>6, ClientStep DEF Requesting, Fresh

LEMMA NoopReplyF == ASSUME FInv, NoopReply PROVE FInv'
<1>1. Awaits(c.pc, c.cmd, c.x, s.pc, toS, toC) /\ c \in Client0 BY DEF FInv, Dialogue, Typed
<1>2. c.pc = "noop" /\ toC # <<>> /\ Head(toC) # 421 /\ toC' = Tail(toC)
  BY DEF NoopReply, CanAnswer, CanRead, Getreply
<1>3. Quiet(s.pc, toS, Tail(toC)) /\ Head(toC) = 200 BY <1>1, <1>2, ReadStep
<1>4. /\ c' \in Client0 /\ c'.pc = "prompt" /\ c'.x = c.x /\ c'.cmd = c.cmd /\ ~c'.cpend
  <2>1. ~Prelim(Head(toC)) /\ Head(toC) \in Int BY <1>3 DEF Prelim
  <2> QED BY <1>1, <2>1, AnsweredFacts DEF NoopReply, Same
<1>5. toS' = toS BY DEF NoopReply
<1>6. Awaits(c'.pc, c.cmd, c.x, s.pc, toS', toC') BY <1>2, <1>3, <1>4, <1>5 DEF Awaits
<1>7. Urgent' /\ urg' \in BOOLEAN BY UrgentKept DEF NoopReply
<1>8. conn' \in [Xfers -> Conn0] /\ Others(c.x) BY SameConn DEF NoopReply
<1>9. s' = s /\ xfers' = xfers BY DEF NoopReply, bounds
<1> QED BY <1>4, <1>6, <1>7, <1>8, <1>9, ClientStep DEF Requesting, Fresh

LEMMA InitReplyF == ASSUME FInv, InitReply PROVE FInv'
<1> DEFINE r == Replied(c)
           g == AtPrompt(r)
           m == -1
           d == IF c.pasv THEN "conn" ELSE "listen"
<1>1. Awaits(c.pc, c.cmd, c.x, s.pc, toS, toC) /\ c \in Client0 BY DEF FInv, Dialogue, Typed
<1>2. c.pc = "init" /\ toC # <<>> /\ Head(toC) # 421 /\ toC' = Tail(toC) /\ toS' = toS
  BY DEF InitReply, CanAnswer, CanRead, Getreply
<1>3. Quiet(s.pc, toS, Tail(toC)) /\ Head(toC) \in {200, 227, 425} BY <1>1, <1>2, ReadStep
<1>4. ~Prelim(Head(toC)) /\ Head(toC) \in Int BY <1>3 DEF Prelim
<1>5. r \in Client0 /\ Same(r, c) /\ ~r.cpend BY <1>1, <1>4, RepliedFacts
<1>6. g \in Client0 /\ Same(g, c) /\ ~g.cpend /\ g.pc = "prompt" BY <1>1, <1>4, AnsweredFacts
<1>7. m \in Int /\ d \in {"none", "listen", "conn"} OBVIOUS
<1>8. \/ c' = [g EXCEPT !.data = "none", !.aborted = TRUE, !.code = m] /\ ClosesData
      \/ /\ c' = [r EXCEPT !.pc = "ready", !.data = d]
         /\ UNCHANGED conn \/ Establishes(c.x)
      \/ c' = [g EXCEPT !.code = m] /\ UNCHANGED conn
  BY DEF InitReply, Establishes
<1> HIDE DEF r, g, m, d
<1>9. /\ c' \in Client0 /\ c'.x = c.x /\ c'.cmd = c.cmd /\ ~c'.cpend /\ c'.pc \in {"prompt", "ready"}
  <2>1. CASE c' = [g EXCEPT !.data = "none", !.aborted = TRUE, !.code = m]
    BY <1>6, <1>7, <2>1 DEF Client0, Same
  <2>2. CASE c' = [r EXCEPT !.pc = "ready", !.data = d] BY <1>5, <1>7, <2>2 DEF Client0, Same, Places
  <2>3. CASE c' = [g EXCEPT !.code = m] BY <1>6, <1>7, <2>3 DEF Client0, Same
  <2> QED BY <1>8, <2>1, <2>2, <2>3
<1>10. conn' \in [Xfers -> Conn0] /\ Others(c.x)
  <2>1. c.x \in Xfers /\ Typed BY <1>2, InXfers DEF FInv, Numbered, Requesting
  <2> QED BY <1>8, <2>1, ClosesDataFacts, SameConn, EstablishesFacts
<1>11. Awaits(c'.pc, c.cmd, c.x, s.pc, toS', toC') BY <1>2, <1>3, <1>9 DEF Awaits
<1>12. Urgent' /\ urg' \in BOOLEAN BY UrgentKept DEF InitReply
<1>13. s' = s /\ xfers' = xfers BY DEF InitReply, bounds
<1> QED BY <1>2, <1>9, <1>10, <1>11, <1>12, <1>13, ClientStep DEF Requesting, Fresh

LEMMA SendStartF == ASSUME FInv, SendStart PROVE FInv'
<1>1. c' \in Client0 /\ c'.pc = "start" /\ c'.x = c.x /\ c'.cmd = c.cmd /\ c'.cpend
  BY DEF SendStart, FInv, Typed, Client0, Places
<1>2. Quiet(s.pc, toS, toC) /\ toS = <<>> /\ c.pc = "ready" BY DEF SendStart, FInv, Dialogue, Awaits, Quiet
<1>3. Asked(c.cmd, c.x, s.pc, toS', toC') BY <1>2, SendStep DEF SendStart, Command
<1>4. Awaits(c'.pc, c.cmd, c.x, s.pc, toS', toC') BY <1>1, <1>3 DEF Awaits, Starting
<1>5. ~urg /\ urg' = urg BY <1>2 DEF FInv, Urgent, Typed, SendStart
<1>6. Urgent' /\ urg' \in BOOLEAN BY <1>5 DEF FInv, Typed, Urgent
<1>7. conn' \in [Xfers -> Conn0] /\ Others(c.x) BY SameConn DEF SendStart
<1>8. s' = s /\ xfers' = xfers BY DEF SendStart, bounds
<1> QED BY <1>1, <1>2, <1>4, <1>6, <1>7, <1>8, ClientStep DEF Requesting, Fresh

\* A transfer is given up: abort_remote() or the prompt.
LEMMA AbortXferF ==
  ASSUME FInv, NEW r \in Client0, r.x = c.x, r.cmd = c.cmd, s' = s, xfers' = xfers,
         r.cpend => Ending(s.pc, toS, toC'), ~r.cpend => Quiet(s.pc, toS, toC'),
         Requesting(c.pc), AbortXfer(r)
  PROVE  FInv'
<1>1. toS = <<>> BY DEF Ending, Under, Done, Quiet
<1>2. ~urg /\ urg \in BOOLEAN BY <1>1 DEF FInv, Urgent, Typed
<1>3. CASE ~r.cpend
  <2> DEFINE g == AtPrompt(r)
             m == -1
  <2>1. g \in Client0 /\ Same(g, r) /\ g.pc = "prompt" /\ g.cpend = r.cpend BY AtPromptFacts
  <2>2. m \in Int /\ c' = [g EXCEPT !.code = m, !.aborted = TRUE] /\ UNCHANGED <<urg, toS, conn>>
    BY <1>3 DEF AbortXfer
  <2> HIDE DEF g, m
  <2>3. c' \in Client0 /\ c'.x = c.x /\ c'.cmd = c.cmd /\ ~c'.cpend /\ c'.pc = "prompt"
    BY <1>3, <2>1, <2>2 DEF Client0, Same
  <2>4. Awaits(c'.pc, c.cmd, c.x, s.pc, toS', toC') BY <1>3, <2>2, <2>3 DEF Awaits
  <2>5. Urgent' /\ urg' \in BOOLEAN BY <2>2, UrgentKept
  <2>6. conn' \in [Xfers -> Conn0] /\ Others(c.x) BY <2>2, SameConn
  <2> QED BY <2>3, <2>4, <2>5, <2>6, ClientStep DEF Requesting, Fresh
<1>4. CASE r.cpend /\ Receives
  <2>1. /\ c' = [r EXCEPT !.pc = "select", !.abrt = FALSE, !.aborted = TRUE]
        /\ urg' = TRUE /\ toS' = Append(toS, <<"ABOR", c.x>>) /\ UNCHANGED conn
    BY <1>4 DEF AbortXfer, AbortRecv, Command
  <2>2. c' \in Client0 /\ c'.x = c.x /\ c'.cmd = c.cmd /\ c'.pc = "select"
    BY <2>1 DEF Client0, Places
  <2>3. Aborting(c.x, s.pc, toS', toC') BY <1>4, <2>1, SendStep
  <2>4. Awaits(c'.pc, c.cmd, c.x, s.pc, toS', toC') BY <2>2, <2>3 DEF Awaits
  <2>5. Urgent' /\ urg' \in BOOLEAN
    <3>1. toS' = <<<<"ABOR", c.x>>>> BY <1>1, <2>1
    <3>2. toS' # <<>> /\ Head(toS')[1] = "ABOR" BY <3>1
    <3> QED BY <2>1, <3>2 DEF Urgent
  <2>6. conn' \in [Xfers -> Conn0] /\ Others(c.x) BY <2>1, SameConn
  <2> QED BY <2>2, <2>4, <2>5, <2>6, ClientStep DEF Requesting, Fresh
<1>5. CASE r.cpend /\ ~Receives
  <2>1. /\ c' = [r EXCEPT !.pc = "sabort", !.data = "none", !.din = FALSE, !.abrt = FALSE,
                          !.aborted = TRUE]
        /\ ClosesData /\ UNCHANGED <<urg, toS>>
    BY <1>5 DEF AbortXfer, AbortSend
  <2>2. c' \in Client0 /\ c'.x = c.x /\ c'.cmd = c.cmd /\ c'.pc = "sabort" /\ c'.cpend
    BY <1>5, <2>1 DEF Client0, Places
  <2>3. Awaits(c'.pc, c.cmd, c.x, s.pc, toS', toC') BY <1>5, <2>1, <2>2 DEF Awaits
  <2>4. Urgent' /\ urg' \in BOOLEAN BY <2>1, UrgentKept
  <2>5. conn' \in [Xfers -> Conn0] /\ Others(c.x) BY <2>1, ClosesDataFacts
  <2> QED BY <2>2, <2>3, <2>4, <2>5, ClientStep DEF Requesting, Fresh
<1> QED BY <1>3, <1>4, <1>5

LEMMA StartReplyF == ASSUME FInv, StartReply PROVE FInv'
<1> DEFINE r == Replied(c)
<1>1. Awaits(c.pc, c.cmd, c.x, s.pc, toS, toC) /\ c \in Client0 BY DEF FInv, Dialogue, Typed
<1>2. c.pc = "start" /\ toC # <<>> /\ Head(toC) # 421 /\ toC' = Tail(toC)
  BY DEF StartReply, CanAnswer, CanRead, Getreply
<1>3. \/ Head(toC) \in {425, 550} /\ Quiet(s.pc, toS, Tail(toC))
      \/ Head(toC) \in {125, 150} /\ Ending(s.pc, toS, Tail(toC))
  BY <1>1, <1>2, ReadStep
<1>4. Head(toC) \in Int /\ (Prelim(Head(toC)) <=> Head(toC) \in {125, 150}) BY <1>3 DEF Prelim
<1>5. c.cpend BY <1>2 DEF FInv, Dialogue
<1>6. r \in Client0 /\ Same(r, c) /\ (r.cpend <=> Head(toC) \in {125, 150}) /\ r.code = Head(toC)
  BY <1>1, <1>4, <1>5, RepliedFacts
<1>7. r.cpend => Ending(s.pc, toS, toC') BY <1>2, <1>3, <1>6
<1>8. ~r.cpend => Quiet(s.pc, toS, toC') BY <1>2, <1>3, <1>6
<1>9. s' = s /\ xfers' = xfers BY DEF StartReply, bounds
<1>10. CASE c.abrt
  <2>1. AbortXfer(r) BY <1>10 DEF StartReply
  <2> HIDE DEF r
  <2> QED BY <1>2, <1>6, <1>7, <1>8, <1>9, <2>1, AbortXferF DEF Same, Requesting
<1>11. CASE ~c.abrt
  <2>1. UNCHANGED <<toS, urg, conn>> BY <1>11 DEF StartReply
  <2>2. /\ c' \in Client0 /\ c'.x = c.x /\ c'.cmd = c.cmd
        /\ \/ c'.pc = "accept" /\ c'.cpend /\ Ending(s.pc, toS', toC')
           \/ c'.pc = "prompt" /\ ~c'.cpend /\ Quiet(s.pc, toS', toC')
    <3>1. CASE Prelim(Head(toC))
      <4>1. c' = [r EXCEPT !.pc = "accept"] BY <1>6, <1>11, <3>1 DEF StartReply
      <4> HIDE DEF r
      <4> QED BY <1>4, <1>6, <1>7, <2>1, <3>1, <4>1 DEF Client0, Same, Places
    <3>2. CASE ~Prelim(Head(toC))
      <4>1. c' = AtPrompt(r) BY <1>6, <1>11, <3>2 DEF StartReply
      <4> HIDE DEF r
      <4> QED BY <1>4, <1>6, <1>8, <2>1, <3>2, <4>1, AtPromptFacts DEF Same
    <3> QED BY <3>1, <3>2
  <2>3. Awaits(c'.pc, c.cmd, c.x, s.pc, toS', toC') BY <2>2 DEF Awaits
  <2>4. Urgent' /\ urg' \in BOOLEAN BY <2>1, UrgentKept
  <2>5. conn' \in [Xfers -> Conn0] /\ Others(c.x) BY <2>1, SameConn
  <2> QED BY <1>2, <1>9, <2>2, <2>3, <2>4, <2>5, ClientStep DEF Requesting, Fresh
<1> QED BY <1>10, <1>11

\* A step of a client that waits for the end of its transfer, and goes on.
LEMMA EndingStep ==
  ASSUME FInv, s' = s, xfers' = xfers, UNCHANGED <<toS, toC, urg>>, c' \in Client0,
         c'.x = c.x, c'.cmd = c.cmd, c'.cpend = c.cpend,
         c.pc \in {"accept", "data", "gap"}, c'.pc \in {"data", "gap", "final", "sabort"},
         conn' \in [Xfers -> Conn0], Others(c.x)
  PROVE  FInv'
<1>1. Ending(s.pc, toS', toC') /\ c.cpend BY DEF FInv, Dialogue, Awaits
<1>2. Awaits(c'.pc, c.cmd, c.x, s.pc, toS', toC') BY <1>1 DEF Awaits
<1>3. Urgent' /\ urg' \in BOOLEAN BY UrgentKept
<1> QED BY <1>1, <1>2, <1>3, ClientStep DEF Requesting, Fresh

LEMMA AcceptF == ASSUME FInv, Accept PROVE FInv'
<1>1. /\ c' \in Client0 /\ c'.pc = "data" /\ c'.x = c.x /\ c'.cmd = c.cmd /\ c'.cpend = c.cpend
  BY DEF Accept, FInv, Typed, Client0, Places
<1>2. conn' \in [Xfers -> Conn0] /\ Others(c.x) BY SameConn DEF Accept
<1> QED BY <1>1, <1>2, EndingStep DEF Accept, bounds

LEMMA AcceptFailsF == ASSUME FInv, AcceptFails PROVE FInv'
<1>1. c.pc = "accept" /\ c \in Client0 /\ Typed BY DEF AcceptFails, FInv, Typed
<1>2. Ending(s.pc, toS, toC) /\ c.cpend BY <1>1 DEF FInv, Dialogue, Awaits
<1>3. EndsC(c.x) /\ c.x \in Xfers BY <1>1, InXfers DEF AcceptFails, EndsC, FInv, Numbered, Requesting
<1>4. conn' \in [Xfers -> Conn0] /\ Others(c.x) BY <1>1, <1>3, EndsCFacts
<1>5. s' = s /\ xfers' = xfers /\ toC' = toC BY DEF AcceptFails, bounds
<1>6. CASE Receives
  <2>1. /\ c' = [c EXCEPT !.pc = "select", !.data = "none", !.aborted = TRUE]
        /\ urg' = TRUE /\ toS' = Append(toS, <<"ABOR", c.x>>)
    BY <1>6 DEF AcceptFails, Command
  <2>2. c' \in Client0 /\ c'.x = c.x /\ c'.cmd = c.cmd /\ c'.pc = "select"
    BY <1>1, <2>1 DEF Client0, Places
  <2>3. Aborting(c.x, s.pc, toS', toC') BY <1>2, <1>5, <2>1, SendStep
  <2>4. Awaits(c'.pc, c.cmd, c.x, s.pc, toS', toC') BY <2>2, <2>3 DEF Awaits
  <2>5. Urgent' /\ urg' \in BOOLEAN
    <3>1. toS = <<>> BY <1>2 DEF Ending, Under, Done
    <3>2. toS' = <<<<"ABOR", c.x>>>> BY <3>1, <2>1
    <3>3. toS' # <<>> /\ Head(toS')[1] = "ABOR" BY <3>2
    <3> QED BY <2>1, <3>3 DEF Urgent
  <2> QED BY <1>1, <1>4, <1>5, <2>2, <2>4, <2>5, ClientStep DEF Requesting, Fresh
<1>7. CASE ~Receives
  <2>1. /\ c' = [c EXCEPT !.pc = "sabort", !.data = "none", !.aborted = TRUE] /\ UNCHANGED <<urg, toS>>
    BY <1>7 DEF AcceptFails
  <2>2. c' \in Client0 /\ c'.x = c.x /\ c'.cmd = c.cmd /\ c'.pc = "sabort" /\ c'.cpend = c.cpend
    BY <1>1, <2>1 DEF Client0, Places
  <2> QED BY <1>1, <1>4, <1>5, <2>1, <2>2, EndingStep
<1> QED BY <1>6, <1>7

LEMMA OpenFailsF == ASSUME FInv, OpenFails PROVE FInv'
<1>1. c.pc = "data" /\ c \in Client0 BY DEF OpenFails, FInv, Typed
<1>2. Ending(s.pc, toS, toC) /\ c.cpend BY <1>1 DEF FInv, Dialogue, Awaits
<1> QED BY <1>1, <1>2, AbortXferF DEF OpenFails, bounds, Requesting

LEMMA RecvUnitF == ASSUME FInv, RecvUnit PROVE FInv'
<1>1. c.pc = "data" /\ c \in Client0 /\ Typed BY DEF RecvUnit, FInv, Typed
<1>2. c.x \in Xfers BY <1>1, InXfers DEF FInv, Numbered, Requesting
<1>3. conn' \in [Xfers -> Conn0] /\ Others(c.x)
  BY <1>1, <1>2, EmptiesFacts DEF RecvUnit, Empties
<1>4. /\ c' \in Client0 /\ c'.pc = "data" /\ c'.x = c.x /\ c'.cmd = c.cmd /\ c'.cpend = c.cpend
  BY <1>1 DEF RecvUnit, Client0
<1> QED BY <1>1, <1>3, <1>4, EndingStep DEF RecvUnit, bounds

LEMMA SendUnitF == ASSUME FInv, SendUnit PROVE FInv'
<1>1. c.pc = "data" /\ c \in Client0 /\ Typed BY DEF SendUnit, FInv, Typed
<1>2. c.x \in Xfers BY <1>1, InXfers DEF FInv, Numbered, Requesting
<1>3. conn' \in [Xfers -> Conn0] /\ Others(c.x)
  BY <1>1, <1>2, FillsFacts DEF SendUnit, Fills
<1>4. /\ c' \in Client0 /\ c'.pc = "data" /\ c'.x = c.x /\ c'.cmd = c.cmd /\ c'.cpend = c.cpend
  BY <1>1 DEF SendUnit, Client0
<1> QED BY <1>1, <1>3, <1>4, EndingStep DEF SendUnit, bounds

LEMMA CloseLocalF ==
  ASSUME FInv, c.pc = "data", NEW told \in BOOLEAN, NEW cut \in BOOLEAN, CloseLocal(told, cut) PROVE FInv'
<1> DEFINE q == IF Receives THEN "gap" ELSE "final"
<1>1. c \in Client0 /\ Typed /\ q \in {"gap", "final"} BY DEF FInv, Typed
<1>2. c.x \in Xfers BY InXfers DEF FInv, Numbered, Requesting
<1>3. conn' \in [Xfers -> Conn0] /\ Others(c.x)
  BY <1>1, <1>2, EndsCFacts DEF CloseLocal, EndsC
<1>4. c' = [c EXCEPT !.pc = q, !.data = "none", !.din = FALSE, !.aborted = told, !.cut = cut]
  BY DEF CloseLocal
<1> HIDE DEF q
<1>5. /\ c' \in Client0 /\ c'.pc \in {"gap", "final"} /\ c'.x = c.x /\ c'.cmd = c.cmd /\ c'.cpend = c.cpend
  BY <1>1, <1>4 DEF Client0, Places
<1> QED BY <1>1, <1>3, <1>5, EndingStep DEF CloseLocal, bounds

LEMMA CallGetreplyF == ASSUME FInv, CallGetreply PROVE FInv'
<1>1. /\ c' \in Client0 /\ c'.pc = "final" /\ c'.x = c.x /\ c'.cmd = c.cmd /\ c'.cpend = c.cpend
  BY DEF CallGetreply, FInv, Typed, Client0, Places
<1>2. conn' \in [Xfers -> Conn0] /\ Others(c.x) BY SameConn DEF CallGetreply
<1> QED BY <1>1, <1>2, EndingStep DEF CallGetreply, bounds

\* The last reply of a request is read.
LEMMA LastReply ==
  ASSUME FInv, s' = s, xfers' = xfers, UNCHANGED <<toS, urg>>, c' \in Client0,
         c'.x = c.x, c'.cmd = c.cmd, c'.pc = "prompt", ~c'.cpend,
         Quiet(s.pc, toS, Tail(toC)), toC' = Tail(toC),
         conn' \in [Xfers -> Conn0], Others(c.x)
  PROVE  FInv'
<1>1. Awaits(c'.pc, c.cmd, c.x, s.pc, toS', toC') BY DEF Awaits
<1>2. Urgent' /\ urg' \in BOOLEAN BY UrgentKept
<1> QED BY <1>1, <1>2, ClientStep DEF Requesting, Fresh

LEMMA FinalReplyF == ASSUME FInv, FinalReply PROVE FInv'
<1> DEFINE g == AtPrompt(Replied(c))
           a == g.aborted \/ c.abrt
<1>1. Awaits(c.pc, c.cmd, c.x, s.pc, toS, toC) /\ c \in Client0 BY DEF FInv, Dialogue, Typed
<1>2. c.pc = "final" /\ toC # <<>> /\ Head(toC) # 421 /\ toC' = Tail(toC) /\ toS' = toS
  BY DEF FinalReply, CanAnswer, CanRead, Getreply
<1>3. Quiet(s.pc, toS, Tail(toC)) /\ Head(toC) \in Ends BY <1>1, <1>2, ReadStep
<1>4. ~Prelim(Head(toC)) /\ Head(toC) \in Int BY <1>3 DEF Prelim, Ends
<1>5. g \in Client0 /\ Same(g, c) /\ ~g.cpend /\ g.pc = "prompt" BY <1>1, <1>4, AnsweredFacts
<1>6. c' = [g EXCEPT !.aborted = a] /\ a \in BOOLEAN BY DEF FinalReply
<1> HIDE DEF g, a
<1>7. /\ c' \in Client0 /\ c'.x = c.x /\ c'.cmd = c.cmd /\ ~c'.cpend /\ c'.pc = "prompt"
  BY <1>5, <1>6 DEF Client0, Same
<1>8. conn' \in [Xfers -> Conn0] /\ Others(c.x) BY SameConn DEF FinalReply
<1> QED BY <1>2, <1>3, <1>7, <1>8, LastReply DEF FinalReply, bounds

LEMMA AborReply2F == ASSUME FInv, AborReply2 PROVE FInv'
<1> DEFINE g == AtPrompt(Replied(c))
           m == -1
<1>1. Awaits(c.pc, c.cmd, c.x, s.pc, toS, toC) /\ c \in Client0 BY DEF FInv, Dialogue, Typed
<1>2. c.pc = "abor2" /\ toC # <<>> /\ Head(toC) # 421 /\ toC' = Tail(toC) /\ toS' = toS
  BY DEF AborReply2, CanAnswer, CanRead, Getreply
<1>3. Quiet(s.pc, toS, Tail(toC)) /\ Head(toC) \in Ends \cup {225} BY <1>1, <1>2, ReadStep
<1>4. ~Prelim(Head(toC)) /\ Head(toC) \in Int BY <1>3 DEF Prelim, Ends
<1>5. g \in Client0 /\ Same(g, c) /\ ~g.cpend /\ g.pc = "prompt" BY <1>1, <1>4, AnsweredFacts
<1>6. c' = [g EXCEPT !.code = m, !.data = "none", !.din = FALSE] /\ m \in Int BY DEF AborReply2
<1> HIDE DEF g, m
<1>7. /\ c' \in Client0 /\ c'.x = c.x /\ c'.cmd = c.cmd /\ ~c'.cpend /\ c'.pc = "prompt"
  BY <1>5, <1>6 DEF Client0, Same
<1>8. conn' \in [Xfers -> Conn0] /\ Others(c.x) BY ClosesDataFacts DEF AborReply2
<1> QED BY <1>2, <1>3, <1>7, <1>8, LastReply DEF AborReply2, bounds

LEMMA SabortReplyF == ASSUME FInv, SabortReply PROVE FInv'
<1> DEFINE g == AtPrompt(Replied(c))
           m == -1
<1>1. Awaits(c.pc, c.cmd, c.x, s.pc, toS, toC) /\ c \in Client0 BY DEF FInv, Dialogue, Typed
<1>2. c.pc = "sabort" /\ toC # <<>> /\ Head(toC) # 421 /\ toC' = Tail(toC) /\ toS' = toS
  BY DEF SabortReply, CanAnswer, CanRead, Getreply
<1>3. Quiet(s.pc, toS, Tail(toC)) /\ Head(toC) \in Ends BY <1>1, <1>2, ReadStep
<1>4. ~Prelim(Head(toC)) /\ Head(toC) \in Int BY <1>3 DEF Prelim, Ends
<1>5. g \in Client0 /\ Same(g, c) /\ ~g.cpend /\ g.pc = "prompt" BY <1>1, <1>4, AnsweredFacts
<1>6. c' = [g EXCEPT !.code = m] /\ m \in Int BY DEF SabortReply
<1> HIDE DEF g, m
<1>7. /\ c' \in Client0 /\ c'.x = c.x /\ c'.cmd = c.cmd /\ ~c'.cpend /\ c'.pc = "prompt"
  BY <1>5, <1>6 DEF Client0, Same
<1>8. conn' \in [Xfers -> Conn0] /\ Others(c.x) BY SameConn DEF SabortReply
<1> QED BY <1>2, <1>3, <1>7, <1>8, LastReply DEF SabortReply, bounds

LEMMA SelectReadyF == ASSUME FInv, SelectReady PROVE FInv'
<1> DEFINE q == IF DinReady THEN "drain" ELSE "abor1"
<1>1. c \in Client0 /\ c.pc = "select" /\ q \in {"drain", "abor1"} BY DEF SelectReady, FInv, Typed
<1>2. c' = [c EXCEPT !.pc = q] BY DEF SelectReady
<1> HIDE DEF q
<1>3. c' \in Client0 /\ c'.x = c.x /\ c'.cmd = c.cmd /\ c'.pc \in {"drain", "abor1"}
  BY <1>1, <1>2 DEF Client0, Places
<1>4. UNCHANGED <<s, toS, toC, urg, conn, xfers>> BY DEF SelectReady, bounds
<1>5. Awaits(c'.pc, c.cmd, c.x, s.pc, toS', toC') BY <1>1, <1>3, <1>4 DEF FInv, Dialogue, Awaits
<1> QED BY <1>1, <1>3, <1>4, <1>5, UrgentKept, SameConn, ClientStep DEF Requesting, Fresh

LEMMA SelectTimeoutF == ASSUME FInv, SelectTimeout PROVE FInv'
<1>1. c \in Client0 /\ c.pc = "select" BY DEF SelectTimeout, FInv, Typed
<1>2. c' = [c EXCEPT !.pc = "lost", !.data = "none", !.din = FALSE] BY DEF SelectTimeout
<1>3. c' \in Client0 /\ c'.x = c.x /\ c'.cmd = c.cmd /\ c'.pc = "lost" BY <1>1, <1>2 DEF Client0, Places
<1>4. UNCHANGED <<s, toS, toC, urg, xfers>> BY DEF SelectTimeout, bounds
<1>5. Gone(c.x, s.pc, toS) BY <1>1 DEF FInv, Dialogue, Awaits, Aborting, Gone
<1>6. Awaits(c'.pc, c.cmd, c.x, s.pc, toS', toC') BY <1>3, <1>4, <1>5 DEF Awaits
<1>7. conn' \in [Xfers -> Conn0] /\ Others(c.x) BY ClosesDataFacts DEF SelectTimeout
<1> QED BY <1>1, <1>3, <1>4, <1>6, <1>7, UrgentKept, ClientStep DEF Requesting, Fresh

LEMMA DrainF == ASSUME FInv, Drain PROVE FInv'
<1>1. c \in Client0 /\ c.pc = "drain" /\ Typed BY DEF Drain, FInv, Typed
<1>2. c.x \in Xfers BY <1>1, InXfers DEF FInv, Numbered, Requesting
<1>3. UNCHANGED <<s, toS, toC, urg, xfers>> BY DEF Drain, bounds
<1>4. c' \in Client0 /\ c'.x = c.x /\ c'.cmd = c.cmd /\ c'.pc \in {"drain", "abor1"}
  <2>1. CASE UNCHANGED c BY <1>1, <2>1
  <2>2. CASE c' = [c EXCEPT !.pc = "abor1"] BY <1>1, <2>2 DEF Client0, Places
  <2> QED BY <2>1, <2>2 DEF Drain
<1>5. conn' \in [Xfers -> Conn0] /\ Others(c.x)
  <2>1. CASE conn[c.x].n > 0 BY <1>1, <1>2, <2>1, EmptiesFacts DEF Drain, Empties
  <2>2. CASE ~(conn[c.x].n > 0) BY <2>2, SameConn DEF Drain
  <2> QED BY <2>1, <2>2
<1>6. Awaits(c'.pc, c.cmd, c.x, s.pc, toS', toC') BY <1>1, <1>3, <1>4 DEF FInv, Dialogue, Awaits
<1> QED BY <1>1, <1>3, <1>4, <1>5, <1>6, UrgentKept, ClientStep DEF Requesting, Fresh

LEMMA AborReply1F == ASSUME FInv, AborReply1 PROVE FInv'
<1> DEFINE r == Replied(c)
<1>1. Awaits(c.pc, c.cmd, c.x, s.pc, toS, toC) /\ c \in Client0 BY DEF FInv, Dialogue, Typed
<1>2. c.pc = "abor1" /\ toC # <<>> /\ Head(toC) # 421 /\ toC' = Tail(toC) /\ toS' = toS
  BY DEF AborReply1, CanAnswer, CanRead, Getreply
<1>3. Aborted(c.x, s.pc, toS, Tail(toC)) /\ Head(toC) \in Ends \cup {225} BY <1>1, <1>2, ReadStep
<1>4. Head(toC) \in Int BY <1>3 DEF Ends
<1>5. r \in Client0 /\ Same(r, c) BY <1>1, <1>4, RepliedFacts
<1>6. c' = [r EXCEPT !.pc = "abor2"] BY DEF AborReply1
<1> HIDE DEF r
<1>7. c' \in Client0 /\ c'.x = c.x /\ c'.cmd = c.cmd /\ c'.pc = "abor2"
  BY <1>5, <1>6 DEF Client0, Same, Places
<1>8. Awaits(c'.pc, c.cmd, c.x, s.pc, toS', toC') BY <1>2, <1>3, <1>7 DEF Awaits
<1>9. UNCHANGED <<s, urg, conn, xfers>> BY DEF AborReply1, bounds
<1> QED BY <1>2, <1>7, <1>8, <1>9, UrgentKept, SameConn, ClientStep DEF Requesting, Fresh

LEMMA InterruptF == ASSUME FInv, ~GapIntr, Interrupt PROVE FInv'
<1>1. c \in Client0 /\ Awaits(c.pc, c.cmd, c.x, s.pc, toS, toC) BY DEF FInv, Typed, Dialogue
<1>2. UNCHANGED <<s, toC, xfers>> BY DEF Interrupt
<1>3. CASE c.pc \in {"ready", "accept", "data"}
  <2>1. AbortXfer(c) BY <1>3 DEF Interrupt
  <2>2. c.cpend => Ending(s.pc, toS, toC') BY <1>1, <1>2, <1>3 DEF FInv, Dialogue, Awaits
  <2>3. ~c.cpend => Quiet(s.pc, toS, toC') BY <1>1, <1>2, <1>3 DEF FInv, Dialogue, Awaits
  <2> QED BY <1>1, <1>2, <1>3, <2>1, <2>2, <2>3, AbortXferF DEF Requesting
<1>4. CASE c.pc \notin {"ready", "accept", "data"}
  <2>1. c' = [c EXCEPT !.abrt = TRUE] /\ UNCHANGED <<toS, urg, conn>> BY <1>4 DEF Interrupt
  <2>2. c' \in Client0 /\ c'.x = c.x /\ c'.cmd = c.cmd /\ c'.pc = c.pc /\ c'.cpend = c.cpend
    BY <1>1, <2>1 DEF Client0
  <2>3. Awaits(c'.pc, c.cmd, c.x, s.pc, toS', toC') BY <1>1, <1>2, <2>1, <2>2
  <2>4. /\ c.pc \in {"prompt", "ready"} => ~c.cpend
        /\ c.pc \in {"start", "accept", "data", "gap", "final", "sabort"} => c.cpend
    BY DEF FInv, Dialogue
  <2>5. Fresh' => Fresh BY <2>1, <2>2 DEF Fresh
  <2> QED BY <1>2, <2>1, <2>2, <2>3, <2>4, <2>5, UrgentKept, SameConn, ClientStep
<1> QED BY <1>3, <1>4

-----------------------------------------------------------------------------
(* The server's steps.                                                     *)

LEMMA ClosesEndFacts ==
  ASSUME FInv, NEW x \in 0 .. xfers, conn' = ClosesEnd(x)
  PROVE  /\ conn' \in [Xfers -> Conn0] /\ Others(x)
         /\ \A y \in Xfers : conn'[y].n = conn[y].n /\ conn'[y].cEnd = conn[y].cEnd
<1>1. Typed /\ (x # 0 => x \in Xfers) BY InXfers DEF FInv
<1>2. CASE x = 0
  <2>1. UNCHANGED conn BY <1>2 DEF ClosesEnd
  <2> QED BY <1>1, <2>1 DEF Typed, Others
<1>3. CASE x # 0
  <2>1. EndsS(x) BY <1>3 DEF ClosesEnd, EndsS
  <2>2. /\ conn' \in [Xfers -> Conn0] /\ Others(x)
        /\ conn'[x].n = conn[x].n /\ conn'[x].cEnd = conn[x].cEnd
    BY <1>1, <1>3, <2>1, EndsSFacts
  <2> QED BY <2>2 DEF Others
<1> QED BY <1>2, <1>3

\* Connections not used yet are left alone.
LEMMA StillUnused ==
  ASSUME FInv, NEW x \in 0 .. xfers, Others(x), s.pc # "dead" \/ s'.pc = "dead"
  PROVE  \A y \in Xfers : y > xfers => Unused(y)'
<1>1. \A y \in Xfers : y > xfers => y # x BY DEF FInv, Typed, Xfers
<1> QED BY <1>1 DEF FInv, Numbered, Unused, Others

LEMMA TakesFacts ==
  ASSUME FInv, NEW names, TakesCommand(names)
  PROVE  /\ s.pc = "idle" /\ toS # <<>> /\ Head(toS)[1] \in names /\ ~urg /\ toS' = Tail(toS)
         /\ toS' = <<>> /\ c.pc \in Places /\ Awaits(c.pc, c.cmd, c.x, s.pc, toS, toC)
         /\ c.pc = "start" => c.cmd \in Cmds
<1>1. /\ s.pc = "idle" /\ toS # <<>> /\ Head(toS)[1] \in names /\ ~urg /\ toS' = Tail(toS)
  BY DEF TakesCommand, FInv, Urgent
<1>2. /\ c.pc \in Places /\ Awaits(c.pc, c.cmd, c.x, s.pc, toS, toC)
      /\ c.pc = "start" => c.cmd \in Cmds
  BY DEF FInv, Typed, Dialogue, Client0
<1>3. toS' = <<>> BY <1>1, <1>2, Taking
<1> QED BY <1>1, <1>2, <1>3

\* A server that takes and answers a command.
LEMMA AnswersF ==
  ASSUME FInv, NEW names, TakesCommand(names), NEW k \in Int, toC' = Append(toC, k),
         \/ Head(toS)[1] \in {"NOOP", "PORT"} /\ k = 200
         \/ Head(toS)[1] = "ABOR" /\ k = 225
         \/ Head(toS)[1] = "PASV" /\ k \in {227, 425}
         \/ Head(toS)[1] \in Cmds /\ k = 550,
         UNCHANGED <<c, xfers, urg>>, s' \in Server0, s'.pc = s.pc, s'.use = s.use, s'.data = s.data,
         s'.pdata \in 0 .. xfers, s'.dest \in 0 .. xfers,
         NEW x \in 0 .. xfers, Others(x), conn' \in [Xfers -> Conn0]
  PROVE  FInv'
<1>1. /\ s.pc = "idle" /\ toS # <<>> /\ ~urg /\ toS' = Tail(toS) /\ toS' = <<>> /\ c.pc \in Places
      /\ Awaits(c.pc, c.cmd, c.x, s.pc, toS, toC)
      /\ c.pc = "start" => c.cmd \in Cmds
  BY TakesFacts
<1>2. Awaits(c.pc, c.cmd, c.x, s.pc, Tail(toS), Append(toC, k)) BY <1>1, AnswerStep
<1>3. Awaits(c.pc, c.cmd, c.x, s'.pc, toS', toC') BY <1>1, <1>2
<1>4. \A y \in Xfers : y > xfers => Unused(y)' BY <1>1, StillUnused
<1>5. Urgent' /\ urg' \in BOOLEAN BY <1>1 DEF Urgent, FInv, Typed
<1>6. Fresh' => s'.use # c.x BY <1>1 DEF Fresh, FInv, Numbered
<1>7. s'.use \in 0 .. xfers /\ s'.data \in 0 .. xfers BY DEF FInv, Numbered
<1> QED BY <1>1, <1>3, <1>4, <1>5, <1>6, <1>7, ServerStep

LEMMA SrvNoopF == ASSUME FInv, SrvNoop PROVE FInv'
<1> DEFINE k == IF Head(toS)[1] = "NOOP" THEN 200 ELSE 225
<1>1. TakesCommand({"NOOP", "ABOR"}) /\ toC' = Append(toC, k) /\ UNCHANGED <<c, xfers, s, urg, conn>>
  BY DEF SrvNoop, Reply, clientside, bounds
<1>2. k \in Int /\ ((Head(toS)[1] = "NOOP" /\ k = 200) \/ (Head(toS)[1] = "ABOR" /\ k = 225))
  BY <1>1, TakesFacts
<1> HIDE DEF k
<1>3. s' \in Server0 /\ 0 \in 0 .. xfers /\ Others(0) /\ conn' \in [Xfers -> Conn0]
  BY <1>1 DEF FInv, Typed, Others
<1>4. s'.pdata \in 0 .. xfers /\ s'.dest \in 0 .. xfers BY <1>1 DEF FInv, Numbered
<1> QED BY <1>1, <1>2, <1>3, <1>4, AnswersF

\* The number in PORT and PASV is that of the client's transfer.
LEMMA InitNumber ==
  ASSUME FInv, NEW names, TakesCommand(names), Head(toS)[1] \in {"PORT", "PASV"}
  PROVE  c.pc = "init" /\ Head(toS)[2] = c.x
<1>1. /\ s.pc = "idle" /\ toS # <<>> /\ c.pc \in Places /\ Awaits(c.pc, c.cmd, c.x, s.pc, toS, toC)
      /\ c.pc = "start" => c.cmd \in Cmds
  BY TakesFacts
<1>2. \A n, y : toS = <<<<n, y>>>> => Head(toS)[1] = n /\ Head(toS)[2] = y OBVIOUS
<1>3. \A n \in Cmds : n \notin {"NOOP", "PORT", "PASV", "ABOR"} BY FtpAssumption
<1>4. c.pc = "init" /\ toS \in {<<<<"PORT", c.x>>>>, <<<<"PASV", c.x>>>>} BY <1>1, <1>2, <1>3, Taking
<1> QED BY <1>2, <1>4

LEMMA SrvPortF == ASSUME FInv, SrvPort PROVE FInv'
<1> DEFINE y == Head(toS)[2]
           z == 0
<1>1. /\ TakesCommand({"PORT"}) /\ toC' = Append(toC, 200) /\ UNCHANGED <<c, xfers, urg>>
      /\ conn' = ClosesEnd(s.pdata) /\ s \in Server0
      /\ s' = [s EXCEPT !.dest = y, !.pdata = z, !.listens = FALSE] /\ z \in Nat
  BY DEF SrvPort, Reply, clientside, bounds, FInv, Typed
<1>2. Head(toS)[1] = "PORT" BY <1>1, TakesFacts
<1>3. y = c.x BY <1>1, <1>2, InitNumber
<1>4. y \in 0 .. xfers /\ xfers \in Nat /\ s.pdata \in 0 .. xfers BY <1>3 DEF FInv, Numbered, Typed
<1>7. y \in Nat /\ z \in 0 .. xfers /\ 200 \in Int BY <1>4
<1> HIDE DEF y, z
<1>5. /\ s' \in Server0 /\ s'.pc = s.pc /\ s'.use = s.use /\ s'.data = s.data
      /\ s'.pdata = z /\ s'.dest = y
  BY <1>1, <1>7 DEF Server0
<1>6. Others(s.pdata) /\ conn' \in [Xfers -> Conn0] BY <1>1, <1>4, ClosesEndFacts
<1> QED BY <1>1, <1>2, <1>4, <1>5, <1>6, <1>7, AnswersF

LEMMA SrvPasvF == ASSUME FInv, NEW works \in BOOLEAN, SrvPasv(works) PROVE FInv'
<1> DEFINE y == IF works THEN Head(toS)[2] ELSE 0
           k == IF works THEN 227 ELSE 425
<1>1. /\ TakesCommand({"PASV"}) /\ toC' = Append(toC, k) /\ UNCHANGED <<c, xfers, urg, conn>>
      /\ s \in Server0
      /\ s' = [s EXCEPT !.pdata = y, !.listens = works]
  BY DEF SrvPasv, Reply, clientside, bounds, FInv, Typed
<1>2. Head(toS)[1] = "PASV" /\ k \in Int /\ k \in {227, 425} BY <1>1, TakesFacts
<1>3. y \in {c.x, 0} BY <1>1, <1>2, InitNumber
<1>4. y \in 0 .. xfers /\ xfers \in Nat BY <1>3 DEF FInv, Numbered, Typed
<1>7. y \in Nat BY <1>4
<1> HIDE DEF y, k
<1>5. /\ s' \in Server0 /\ s'.pc = s.pc /\ s'.use = s.use /\ s'.data = s.data
      /\ s'.pdata = y /\ s'.dest = s.dest
  BY <1>1, <1>7 DEF Server0
<1>6. 0 \in 0 .. xfers /\ Others(0) /\ conn' \in [Xfers -> Conn0] /\ s.dest \in 0 .. xfers
  BY <1>1, <1>4 DEF FInv, Typed, Others, Numbered
<1> QED BY <1>1, <1>2, <1>4, <1>5, <1>6, AnswersF

LEMMA SrvNoFileF == ASSUME FInv, SrvNoFile PROVE FInv'
<1>1. TakesCommand(Cmds) /\ toC' = Append(toC, 550) /\ UNCHANGED <<c, xfers, s, urg, conn>>
  BY DEF SrvNoFile, Reply, clientside, bounds
<1>2. Head(toS)[1] \in Cmds /\ 550 \in Int BY <1>1, TakesFacts
<1>3. s' \in Server0 /\ 0 \in 0 .. xfers /\ Others(0) /\ conn' \in [Xfers -> Conn0]
  BY <1>1 DEF FInv, Typed, Others
<1>4. s'.pdata \in 0 .. xfers /\ s'.dest \in 0 .. xfers BY <1>1 DEF FInv, Numbered
<1> QED BY <1>1, <1>2, <1>3, <1>4, AnswersF

LEMMA SrvOpenFileF == ASSUME FInv, SrvOpenFile PROVE FInv'
<1> DEFINE n == Head(toS)[1]
           z == 0
<1>1. /\ TakesCommand(Cmds) /\ UNCHANGED <<c, xfers, toC, urg, conn>> /\ s \in Server0
      /\ s' = [s EXCEPT !.pc = "dataconn", !.cmd = n, !.moved = z] /\ z \in Nat
  BY DEF SrvOpenFile, clientside, bounds, FInv, Typed
<1>2. n \in Cmds /\ n \in Names BY <1>1, TakesFacts DEF Names
<1>3. /\ s.pc = "idle" /\ toS # <<>> /\ ~urg /\ toS' = Tail(toS) /\ toS' = <<>> /\ c.pc \in Places
      /\ Awaits(c.pc, c.cmd, c.x, s.pc, toS, toC)
  BY <1>1, TakesFacts
<1>4. c.pc = "start" /\ Awaits(c.pc, c.cmd, c.x, "dataconn", Tail(toS), toC) BY <1>2, <1>3, OpenStep
<1> HIDE DEF n, z
<1>5. /\ s' \in Server0 /\ s'.pc = "dataconn" /\ s'.use = s.use /\ s'.data = s.data
      /\ s'.pdata = s.pdata /\ s'.dest = s.dest
  BY <1>1, <1>2 DEF Server0, Stages
<1>6. Awaits(c.pc, c.cmd, c.x, s'.pc, toS', toC') BY <1>1, <1>3, <1>4, <1>5
<1>7. 0 \in 0 .. xfers /\ Others(0) /\ conn' \in [Xfers -> Conn0] BY <1>1 DEF FInv, Typed, Others
<1>8. \A y \in Xfers : y > xfers => Unused(y)' BY <1>3, <1>7, StillUnused
<1>9. Urgent' /\ urg' \in BOOLEAN BY <1>1, <1>3 DEF Urgent, FInv, Typed
<1>10. ~Fresh' BY <1>1, <1>3, <1>4 DEF Fresh
<1>11. s.use \in 0 .. xfers /\ s.pdata \in 0 .. xfers /\ s.data \in 0 .. xfers /\ s.dest \in 0 .. xfers
  BY DEF FInv, Numbered
<1> QED BY <1>1, <1>5, <1>6, <1>7, <1>8, <1>9, <1>10, <1>11, ServerStep

\* Where the client is while the server opens a data connection.
LEMMA AtDataconn ==
  ASSUME FInv, s.pc = "dataconn"
  PROVE  /\ c.pc \in Places /\ Awaits(c.pc, c.cmd, c.x, "dataconn", toS, toC)
         /\ c.pc = "start" => toS = <<>>
         /\ c.pc = "start" \/ c.pc \in {"lost", "spin", "crash"}
         /\ ~Fresh
<1>1. /\ c.pc \in Places /\ Awaits(c.pc, c.cmd, c.x, "dataconn", toS, toC)
  BY DEF FInv, Typed, Dialogue, Client0
<1>2. c.pc = "start" \/ c.pc \in {"lost", "spin", "crash"} BY <1>1, DataconnStep
<1>3. c.pc = "start" => toS = <<>>
  BY <1>1 DEF Awaits, Starting, Asked, Opening, Done, Started, Finished, Resting, Busy
<1> QED BY <1>1, <1>2, <1>3 DEF Fresh

LEMMA SrvDataconnF == ASSUME FInv, SrvDataconn PROVE FInv'
<1> DEFINE z == 0
<1>1. s.pc = "dataconn" /\ s \in Server0 /\ UNCHANGED <<c, xfers, toS, urg>> /\ z \in Nat /\ Typed
  BY DEF SrvDataconn, clientside, bounds, FInv, Typed
<1>2. s.use \in 0 .. xfers /\ s.pdata \in 0 .. xfers /\ s.data \in 0 .. xfers /\ s.dest \in 0 .. xfers
  BY DEF FInv, Numbered
<1>3. \/ /\ s.pdata # 0 /\ toC' = Append(toC, 150) /\ UNCHANGED conn
         /\ s' = [s EXCEPT !.pc = "opened", !.listens = FALSE, !.use = s.pdata]
      \/ /\ s.data # 0 /\ toC' = Append(toC, 125) /\ UNCHANGED conn
         /\ s' = [s EXCEPT !.pc = "opened", !.use = s.data, !.dest = z]
      \/ /\ s.dest # 0 /\ toC' = Append(toC, 150) /\ Establishes(s.dest)
         /\ s' = [s EXCEPT !.pc = "opened", !.data = s.dest, !.use = s.dest, !.dest = z]
  BY DEF SrvDataconn, Reply, Establishes
<1>4. z \in 0 .. xfers /\ s.use \in Nat /\ s.pdata \in Nat /\ s.data \in Nat /\ s.dest \in Nat
  BY <1>2 DEF FInv, Typed
<1> HIDE DEF z
<1>5. /\ s' \in Server0 /\ s'.pc = "opened" /\ s'.use \in 0 .. xfers /\ s'.use # 0
      /\ s'.data \in 0 .. xfers /\ s'.pdata \in 0 .. xfers /\ s'.dest \in 0 .. xfers
  <2>1. CASE s.pdata # 0 /\ s' = [s EXCEPT !.pc = "opened", !.listens = FALSE, !.use = s.pdata]
    BY <1>1, <1>2, <1>4, <2>1 DEF Server0, Stages
  <2>2. CASE s.data # 0 /\ s' = [s EXCEPT !.pc = "opened", !.use = s.data, !.dest = z]
    BY <1>1, <1>2, <1>4, <2>2 DEF Server0, Stages
  <2>3. CASE s.dest # 0 /\ s' = [s EXCEPT !.pc = "opened", !.data = s.dest, !.use = s.dest, !.dest = z]
    BY <1>1, <1>2, <1>4, <2>3 DEF Server0, Stages
  <2> QED BY <1>3, <2>1, <2>2, <2>3
<1>6. Others(s.dest) /\ conn' \in [Xfers -> Conn0]
  <2>1. CASE UNCHANGED conn BY <1>1, <2>1 DEF Typed, Others
  <2>2. CASE s.dest # 0 /\ Establishes(s.dest) BY <1>1, <1>2, <2>2, InXfers, EstablishesFacts
  <2> QED BY <1>3, <2>1, <2>2
<1>7. \E k \in {125, 150} : toC' = Append(toC, k) BY <1>3
<1>8. Awaits(c.pc, c.cmd, c.x, s'.pc, toS', toC') BY <1>1, <1>5, <1>7, AtDataconn, DataconnStep
<1>9. \A y \in Xfers : y > xfers => Unused(y)' BY <1>1, <1>2, <1>6, StillUnused
<1>10. Urgent' /\ urg' \in BOOLEAN BY <1>1, UrgentKept
<1>11. ~Fresh' BY <1>1, AtDataconn DEF Fresh
<1> QED BY <1>1, <1>5, <1>6, <1>8, <1>9, <1>10, <1>11, ServerStep

LEMMA SrvNoDataconnF == ASSUME FInv, SrvNoDataconn PROVE FInv'
<1> DEFINE z == 0
           d == IF s.pdata # 0 THEN s.dest ELSE 0
<1>1. /\ s.pc = "dataconn" /\ s \in Server0 /\ UNCHANGED <<c, xfers, toS, urg>> /\ z \in Nat
      /\ s' = [s EXCEPT !.pc = "idle", !.pdata = z, !.listens = FALSE, !.dest = d]
      /\ conn' = ClosesEnd(s.pdata) /\ toC' = Append(toC, 425)
  BY DEF SrvNoDataconn, Reply, clientside, bounds, FInv, Typed
<1>2. s.use \in 0 .. xfers /\ s.pdata \in 0 .. xfers /\ s.data \in 0 .. xfers /\ s.dest \in 0 .. xfers
  BY DEF FInv, Numbered
<1>3. z \in 0 .. xfers /\ d \in 0 .. xfers /\ d \in Nat
  BY <1>2 DEF FInv, Typed
<1> HIDE DEF z, d
<1>4. /\ s' \in Server0 /\ s'.pc = "idle" /\ s'.use = s.use /\ s'.data = s.data
      /\ s'.pdata = z /\ s'.dest = d
  BY <1>1, <1>3 DEF Server0, Stages
<1>5. Others(s.pdata) /\ conn' \in [Xfers -> Conn0] BY <1>1, <1>2, ClosesEndFacts
<1>6. Awaits(c.pc, c.cmd, c.x, s'.pc, toS', toC') BY <1>1, <1>4, AtDataconn, DataconnStep
<1>7. \A y \in Xfers : y > xfers => Unused(y)' BY <1>1, <1>2, <1>5, StillUnused
<1>8. Urgent' /\ urg' \in BOOLEAN BY <1>1, UrgentKept
<1>9. ~Fresh' BY <1>1, AtDataconn DEF Fresh
<1> QED BY <1>1, <1>2, <1>3, <1>4, <1>5, <1>6, <1>7, <1>8, <1>9, ServerStep

\* A server that goes on with a transfer.
LEMMA ServingStep ==
  ASSUME FInv, UNCHANGED <<c, xfers, toS, toC, urg>>, s' \in Server0, s.pc \in {"opened", "xfer"},
         s'.pc \in {"opened", "xfer", "reply"}, s'.pc = "reply" => s'.say \in Ends,
         s'.use = s.use, s'.data = s.data, s'.pdata = s.pdata, s'.dest = s.dest,
         conn' \in [Xfers -> Conn0], Others(s.use)
  PROVE  FInv'
<1>1. c.pc \in Places /\ Awaits(c.pc, c.cmd, c.x, s.pc, toS, toC) BY DEF FInv, Typed, Dialogue, Client0
<1>2. Awaits(c.pc, c.cmd, c.x, s'.pc, toS', toC') BY <1>1, BusyStep
<1>3. /\ s.use \in 0 .. xfers /\ s.pdata \in 0 .. xfers /\ s.data \in 0 .. xfers /\ s.dest \in 0 .. xfers
      /\ s.use # 0 /\ (Fresh => s.use # c.x)
  BY DEF FInv, Numbered
<1>4. \A y \in Xfers : y > xfers => Unused(y)' BY <1>3, StillUnused
<1>5. Urgent' /\ urg' \in BOOLEAN BY UrgentKept
<1>6. Fresh' => Fresh BY DEF Fresh
<1> QED BY <1>2, <1>3, <1>4, <1>5, <1>6, ServerStep

LEMMA SrvTransflagF == ASSUME FInv, SrvTransflag PROVE FInv'
<1>1. s \in Server0 /\ s.pc = "opened" /\ s' = [s EXCEPT !.pc = "xfer"] BY DEF SrvTransflag, FInv, Typed
<1>2. /\ s' \in Server0 /\ s'.pc = "xfer" /\ s'.use = s.use /\ s'.data = s.data
      /\ s'.pdata = s.pdata /\ s'.dest = s.dest
  BY <1>1 DEF Server0, Stages
<1>3. conn' \in [Xfers -> Conn0] /\ Others(s.use) BY DEF SrvTransflag, FInv, Typed, Others
<1> QED BY <1>1, <1>2, <1>3, ServingStep DEF SrvTransflag, clientside, bounds

LEMMA UseInXfers == ASSUME FInv, s.pc \in {"opened", "xfer", "reply", "close"} PROVE s.use \in Xfers
  BY InXfers DEF FInv, Numbered

LEMMA SrvSendF == ASSUME FInv, SrvSend PROVE FInv'
<1> DEFINE k == s.moved + 1
<1>1. s \in Server0 /\ s.pc = "xfer" /\ s' = [s EXCEPT !.moved = k] /\ Typed BY DEF SrvSend, FInv, Typed
<1>2. k \in Nat BY <1>1 DEF Server0
<1> HIDE DEF k
<1>3. /\ s' \in Server0 /\ s'.pc = "xfer" /\ s'.use = s.use /\ s'.data = s.data
      /\ s'.pdata = s.pdata /\ s'.dest = s.dest
  BY <1>1, <1>2 DEF Server0
<1>4. conn' \in [Xfers -> Conn0] /\ Others(s.use)
  BY <1>1, UseInXfers, FillsFacts DEF SrvSend, Fills
<1> QED BY <1>1, <1>3, <1>4, ServingStep DEF SrvSend, clientside, bounds

LEMMA SrvReceiveF == ASSUME FInv, SrvReceive PROVE FInv'
<1> DEFINE k == s.moved + 1
<1>1. s \in Server0 /\ s.pc = "xfer" /\ s' = [s EXCEPT !.moved = k] /\ Typed BY DEF SrvReceive, FInv, Typed
<1>2. k \in Nat BY <1>1 DEF Server0
<1> HIDE DEF k
<1>3. /\ s' \in Server0 /\ s'.pc = "xfer" /\ s'.use = s.use /\ s'.data = s.data
      /\ s'.pdata = s.pdata /\ s'.dest = s.dest
  BY <1>1, <1>2 DEF Server0
<1>4. conn' \in [Xfers -> Conn0] /\ Others(s.use)
  BY <1>1, UseInXfers, EmptiesFacts DEF SrvReceive, Empties
<1> QED BY <1>1, <1>3, <1>4, ServingStep DEF SrvReceive, clientside, bounds

LEMMA SrvEndsF == ASSUME FInv, NEW code \in Ends, SrvEnds(code) PROVE FInv'
<1>1. s \in Server0 /\ s.pc = "xfer" /\ s' = [s EXCEPT !.pc = "reply", !.say = code] /\ code \in Int
  BY DEF SrvEnds, FInv, Typed, Ends
<1>2. /\ s' \in Server0 /\ s'.pc = "reply" /\ s'.use = s.use /\ s'.data = s.data
      /\ s'.pdata = s.pdata /\ s'.dest = s.dest /\ s'.say = code
  BY <1>1 DEF Server0, Stages
<1>3. conn' \in [Xfers -> Conn0] /\ Others(s.use) BY DEF SrvEnds, FInv, Typed, Others
<1> QED BY <1>1, <1>2, <1>3, ServingStep DEF SrvEnds, clientside, bounds

LEMMA SrvReplyF == ASSUME FInv, SrvReply PROVE FInv'
<1> DEFINE z == 0
<1>1. /\ s \in Server0 /\ s.pc = "reply" /\ s' = [s EXCEPT !.pc = "close", !.say = z] /\ z \in Int
      /\ toC' = Append(toC, s.say) /\ UNCHANGED <<c, xfers, toS, urg, conn>> /\ s.say \in Ends
  BY DEF SrvReply, Reply, clientside, bounds, FInv, Typed, Dialogue
<1>2. c.pc \in Places /\ Awaits(c.pc, c.cmd, c.x, s.pc, toS, toC) BY DEF FInv, Typed, Dialogue, Client0
<1> HIDE DEF z
<1>3. /\ s' \in Server0 /\ s'.pc = "close" /\ s'.use = s.use /\ s'.data = s.data
      /\ s'.pdata = s.pdata /\ s'.dest = s.dest
  BY <1>1 DEF Server0, Stages
<1>4. Awaits(c.pc, c.cmd, c.x, s'.pc, toS', toC') BY <1>1, <1>2, <1>3, ReplyStep
<1>5. /\ s.use \in 0 .. xfers /\ s.pdata \in 0 .. xfers /\ s.data \in 0 .. xfers /\ s.dest \in 0 .. xfers
      /\ s.use # 0 /\ (Fresh => s.use # c.x)
  BY <1>1 DEF FInv, Numbered
<1>6. conn' \in [Xfers -> Conn0] /\ Others(s.use) BY <1>1 DEF FInv, Typed, Others
<1>7. \A y \in Xfers : y > xfers => Unused(y)' BY <1>1, <1>5, <1>6, StillUnused
<1>8. Urgent' /\ urg' \in BOOLEAN BY <1>1, UrgentKept
<1>9. Fresh' => Fresh BY <1>1 DEF Fresh
<1> QED BY <1>1, <1>3, <1>4, <1>5, <1>6, <1>7, <1>8, <1>9, ServerStep

LEMMA SrvCloseF == ASSUME FInv, SrvClose PROVE FInv'
<1> DEFINE z == 0
<1>1. /\ s \in Server0 /\ s.pc = "close" /\ z \in Nat
      /\ s' = [s EXCEPT !.pc = "idle", !.data = z, !.pdata = z, !.use = z]
      /\ conn' = ClosesEnd(s.use) /\ UNCHANGED <<c, xfers, toS, toC, urg>>
  BY DEF SrvClose, clientside, bounds, FInv, Typed
<1>2. c.pc \in Places /\ Awaits(c.pc, c.cmd, c.x, s.pc, toS, toC) BY DEF FInv, Typed, Dialogue, Client0
<1>3. s.use \in 0 .. xfers /\ s.dest \in 0 .. xfers /\ z \in 0 .. xfers BY DEF FInv, Numbered, Typed
<1>10. Fresh' => z # c.x
  <2>1. Fresh' => Requesting(c.pc) BY <1>1 DEF Fresh, Requesting
  <2> QED BY <2>1 DEF FInv, Numbered
<1> HIDE DEF z
<1>4. /\ s' \in Server0 /\ s'.pc = "idle" /\ s'.use = z /\ s'.data = z
      /\ s'.pdata = z /\ s'.dest = s.dest
  BY <1>1 DEF Server0, Stages
<1>5. Awaits(c.pc, c.cmd, c.x, s'.pc, toS', toC') BY <1>1, <1>2, <1>4, CloseStep
<1>6. conn' \in [Xfers -> Conn0] /\ Others(s.use) BY <1>1, <1>3, ClosesEndFacts
<1>7. \A y \in Xfers : y > xfers => Unused(y)' BY <1>1, <1>3, <1>6, StillUnused
<1>8. Urgent' /\ urg' \in BOOLEAN BY <1>1, UrgentKept
<1> QED BY <1>1, <1>3, <1>4, <1>5, <1>6, <1>7, <1>8, <1>10, ServerStep

LEMMA SrvOobF == ASSUME FInv, SrvOob PROVE FInv'
<1>1. urg /\ ~urg' /\ urg' \in BOOLEAN /\ UNCHANGED <<c, xfers, conn>> /\ toS # <<>>
  BY DEF SrvOob, clientside, bounds, FInv, Urgent
<1>2. s \in Server0 /\ c.pc \in Places /\ Awaits(c.pc, c.cmd, c.x, s.pc, toS, toC)
  BY DEF FInv, Typed, Dialogue, Client0
<1>3. Urgent' BY <1>1 DEF Urgent
<1>4. /\ s.use \in 0 .. xfers /\ s.pdata \in 0 .. xfers /\ s.data \in 0 .. xfers /\ s.dest \in 0 .. xfers
      /\ (s.pc \in {"opened", "xfer", "reply", "close"} => s.use # 0) /\ (Fresh => s.use # c.x)
      /\ s.pc = "reply" => s.say \in Ends
  BY DEF FInv, Numbered, Dialogue
<1>5. conn' \in [Xfers -> Conn0] /\ Others(s.use) BY <1>1 DEF FInv, Typed, Others
<1>6. CASE s.pc = "xfer"
  <2> DEFINE q == IF s.cmd = "NLST" THEN "idle" ELSE "close"
  <2>1. /\ toS' = Tail(toS) /\ toC' = toC \o <<426, 226>> /\ s' = [s EXCEPT !.pc = q]
        /\ q \in {"idle", "close"}
    BY <1>6 DEF SrvOob
  <2> HIDE DEF q
  <2>2. /\ s' \in Server0 /\ s'.pc = q /\ s'.use = s.use /\ s'.data = s.data
        /\ s'.pdata = s.pdata /\ s'.dest = s.dest
    BY <1>2, <2>1 DEF Server0, Stages
  <2>3. /\ Awaits(c.pc, c.cmd, c.x, s'.pc, toS', toC')
        /\ c.pc \in {"select", "drain", "abor1", "lost", "spin", "crash"}
    BY <1>1, <1>2, <1>6, <2>1, <2>2, OobStep
  <2>4. \A y \in Xfers : y > xfers => Unused(y)' BY <1>4, <1>5, <1>6, StillUnused
  <2>5. ~Fresh' BY <1>1, <2>3 DEF Fresh
  <2> QED BY <1>1, <1>3, <1>4, <1>5, <1>6, <2>1, <2>2, <2>3, <2>4, <2>5, ServerStep
<1>7. CASE s.pc # "xfer"
  <2>1. UNCHANGED <<s, toS, toC>> BY <1>7 DEF SrvOob
  <2>2. Awaits(c.pc, c.cmd, c.x, s'.pc, toS', toC') BY <1>2, <2>1
  <2>3. Fresh' => Fresh BY <1>1, <2>1 DEF Fresh
  <2>4. s.pc # "dead" \/ s'.pc = "dead" BY <2>1
  <2>5. \A y \in Xfers : y > xfers => Unused(y)' BY <1>4, <1>5, <2>4, StillUnused
  <2> QED BY <1>1, <1>2, <1>3, <1>4, <1>5, <2>1, <2>2, <2>3, <2>5, ServerStep
<1> QED BY <1>6, <1>7

LEMMA SrvDiesF == ASSUME FInv, NEW says \in BOOLEAN, SrvDies(says) PROVE FInv'
<1>1. /\ s \in Server0 /\ s.pc # "dead" /\ s' = [s EXCEPT !.pc = "dead"]
      /\ UNCHANGED <<c, xfers, toS, urg>> /\ toC' \in {toC, Append(toC, 421)} /\ Typed
      /\ conn' = [x \in Xfers |-> [conn[x] EXCEPT !.sEnd = TRUE]]
  BY DEF SrvDies, Reply, clientside, bounds, FInv, Typed
<1>2. c.pc \in Places /\ Awaits(c.pc, c.cmd, c.x, s.pc, toS, toC) BY DEF FInv, Typed, Dialogue, Client0
<1>3. /\ s' \in Server0 /\ s'.pc = "dead" /\ s'.use = s.use /\ s'.data = s.data
      /\ s'.pdata = s.pdata /\ s'.dest = s.dest
  BY <1>1 DEF Server0, Stages
<1>4. Awaits(c.pc, c.cmd, c.x, s'.pc, toS', toC') BY <1>1, <1>2, <1>3, DieStep
<1>5. conn' \in [Xfers -> Conn0] /\ \A y \in Xfers : conn'[y].n = conn[y].n /\ conn'[y].cEnd = conn[y].cEnd
  <2>1. \A r \in Conn0 : /\ [r EXCEPT !.sEnd = TRUE] \in Conn0
                         /\ [r EXCEPT !.sEnd = TRUE].n = r.n /\ [r EXCEPT !.sEnd = TRUE].cEnd = r.cEnd
    BY DEF Conn0
  <2>2. \A y \in Xfers : conn[y] \in Conn0 BY <1>1 DEF Typed
  <2>3. conn' \in [Xfers -> Conn0] BY <1>1, <2>1, <2>2
  <2>4. ASSUME NEW y \in Xfers PROVE conn'[y].n = conn[y].n /\ conn'[y].cEnd = conn[y].cEnd
    <3>1. conn'[y] = [conn[y] EXCEPT !.sEnd = TRUE] BY <1>1
    <3> QED BY <2>2, <3>1 DEF Conn0
  <2> QED BY <2>3, <2>4
<1>6. \A y \in Xfers : y > xfers => Unused(y)' BY <1>3, <1>5 DEF FInv, Numbered, Unused
<1>7. /\ s.use \in 0 .. xfers /\ s.pdata \in 0 .. xfers /\ s.data \in 0 .. xfers /\ s.dest \in 0 .. xfers
      /\ (Fresh => s.use # c.x)
  BY DEF FInv, Numbered
<1>8. Urgent' /\ urg' \in BOOLEAN BY <1>1, UrgentKept
<1>9. Fresh' => Fresh BY <1>1 DEF Fresh
<1> QED BY <1>1, <1>3, <1>4, <1>5, <1>6, <1>7, <1>8, <1>9, ServerStep

-----------------------------------------------------------------------------
(* The dialogue stays in step.                                             *)

LEMMA InitF == Init => FInv
<1> SUFFICES ASSUME Init PROVE FInv OBVIOUS
<1>1. Typed
  <2> DEFINE z == 0
  <2>1. z \in Nat /\ z \in Int /\ "none" \in Names BY DEF Names
  <2>2. c = [pc |-> "prompt", cmd |-> "none", x |-> z, pasv |-> FALSE, cpend |-> FALSE,
             abrt |-> FALSE, code |-> z, data |-> "none", din |-> FALSE, got |-> z,
             aborted |-> FALSE, cut |-> FALSE]
    BY DEF Init
  <2>6. s = [pc |-> "idle", cmd |-> "none", data |-> z, pdata |-> z, listens |-> FALSE,
             dest |-> z, use |-> z, moved |-> z, say |-> z]
    BY DEF Init
  <2>7. conn = [x \in Xfers |-> [est |-> FALSE, n |-> z, cEnd |-> FALSE, sEnd |-> FALSE]]
    BY DEF Init
  <2>8. urg \in BOOLEAN BY DEF Init
  <2>9. xfers \in 0 .. MaxXfers BY FtpAssumption DEF Init
  <2> HIDE DEF z
  <2>3. c \in Client0 BY <2>1, <2>2 DEF Client0, Places
  <2>4. s \in Server0 BY <2>1, <2>6 DEF Server0, Stages
  <2>5. conn \in [Xfers -> Conn0] BY <2>1, <2>7 DEF Conn0
  <2> QED BY <2>3, <2>4, <2>5, <2>8, <2>9 DEF Typed
<1>2. Dialogue BY DEF Init, Dialogue, Awaits, Quiet, Resting, Says0
<1>3. Urgent BY DEF Init, Urgent
<1>4. Numbered BY DEF Init, Numbered, Unused, Requesting, Fresh
<1> QED BY <1>1, <1>2, <1>3, <1>4 DEF FInv

LEMMA NextF == ASSUME FInv, ~GapIntr, [Next]_vars PROVE FInv'
<1>7. \A code \in {226, 426, 452, 551} : SrvEnds(code) => FInv' BY SrvEndsF DEF Ends
<1>8. \A b \in BOOLEAN : (SrvPasv(b) => FInv') /\ (SrvDies(b) => FInv') BY SrvPasvF, SrvDiesF
<1>9. \A b, cut \in BOOLEAN : c.pc = "data" /\ CloseLocal(b, cut) => FInv' BY CloseLocalF
<1>1. CASE User BY <1>1, NoopF, InterruptF, RequestF DEF User
<1>2. CASE Client
  BY <1>2, LostPeerF, NoopReplyF, InitReplyF, SendStartF, StartReplyF, AcceptF, RecvUnitF, SendUnitF,
     <1>9, CallGetreplyF, FinalReplyF, SelectReadyF, SelectTimeoutF, DrainF, AborReply1F,
     AborReply2F, SabortReplyF
     DEF Client, DataDone
<1>3. CASE Server
  <2>1. CASE \E code \in {226, 426} : SrvEnds(code)
    <3>1. PICK code \in {226, 426} : SrvEnds(code) BY <2>1
    <3> QED BY <3>1, <1>7
  <2>2. CASE SrvPasv(TRUE) BY <2>2, <1>8
  <2>3. CASE SrvNoop \/ SrvPort \/ SrvOpenFile \/ SrvDataconn \/ SrvTransflag
    BY <2>3, SrvNoopF, SrvPortF, SrvOpenFileF, SrvDataconnF, SrvTransflagF
  <2>4. CASE SrvSend \/ SrvReceive \/ SrvReply \/ SrvClose
    BY <2>4, SrvSendF, SrvReceiveF, SrvReplyF, SrvCloseF
  <2> QED BY <1>3, <2>1, <2>2, <2>3, <2>4, Zenon DEF Server
<1>4. CASE SrvOob BY <1>4, SrvOobF
<1>5. CASE Faults
  <2>1. CASE \E code \in {551, 452} : SrvEnds(code)
    <3>1. PICK code \in {551, 452} : SrvEnds(code) BY <2>1
    <3> QED BY <3>1, <1>7
  <2>2. CASE SrvPasv(FALSE) BY <2>2, <1>8
  <2>3. CASE \E says \in BOOLEAN : SrvDies(says)
    <3>1. PICK says \in BOOLEAN : SrvDies(says) BY <2>3
    <3> QED BY <3>1, <1>8
  <2>4. CASE LocalError \/ CloseFails BY <2>4, <1>9 DEF LocalError, CloseFails
  <2>5. CASE AcceptFails \/ OpenFails \/ SrvNoFile \/ SrvNoDataconn
    BY <2>5, AcceptFailsF, OpenFailsF, SrvNoFileF, SrvNoDataconnF
  <2>6. \/ AcceptFails \/ OpenFails \/ SrvNoFile \/ SrvNoDataconn \/ LocalError \/ CloseFails \/ SrvPasv(FALSE)
        \/ \E code \in {551, 452} : SrvEnds(code)
        \/ \E says \in BOOLEAN : SrvDies(says)
    BY <1>5, Zenon DEF Faults
  <2> QED BY <2>1, <2>2, <2>3, <2>4, <2>5, <2>6, Zenon
<1>6. CASE UNCHANGED vars
  <2>1. UNCHANGED <<c, s, toS, toC, urg, conn, xfers>> BY <1>6 DEF vars
  <2>2. Typed' /\ Urgent' BY <2>1 DEF FInv, Typed, Urgent
  <2>3. Dialogue' /\ Numbered' BY <2>1 DEF FInv, Dialogue, Numbered, Unused, Fresh
  <2> QED BY <2>2, <2>3 DEF FInv
<1> QED BY <1>1, <1>2, <1>3, <1>4, <1>5, <1>6 DEF Next

\* Replies stay with the commands they answer, for any number of transfers,
\* interrupts and other commands: when ftp prompts, nothing is under way on the
\* control connection.  An interrupt between the last data and getreply() is
\* left out: its longjmp() leaves a reply unread.
THEOREM InStepCorrect == ASSUME ~GapIntr PROVE Spec => []InStep
<1>1. FInv => InStep
  <2> SUFFICES ASSUME FInv, c.pc = "prompt", s.pc # "dead"
               PROVE  toC = <<>> /\ toS = <<>> /\ s.pc \in {"idle", "close"} /\ ~c.cpend
    BY DEF InStep
  <2>1. Quiet(s.pc, toS, toC) /\ ~c.cpend BY DEF FInv, Dialogue, Awaits
  <2> QED BY <2>1 DEF Quiet, Resting, Says0
<1>2. FInv /\ [Next]_vars => FInv' BY NextF
<1> QED BY <1>1, <1>2, InitF, PTL DEF Spec

-----------------------------------------------------------------------------
(* Whose data connection, and how much has gone over it.                   *)

Doing(pc) == pc \in {"init", "ready", "start", "accept", "data", "gap", "final"}
InXfer == c.pc \in {"start", "accept", "data", "gap", "final"}
Moving == s.pc \in {"opened", "xfer", "reply"}
Going == c.pc \in {"accept", "data"} \/ (c.pc = "start" /\ Begun(toC))
Clean == Unused(c.x) /\ c.got = 0

\* What was sent is under way or has arrived.
Sum == IF Receives THEN c.got + conn[c.x].n = s.moved ELSE s.moved + conn[c.x].n = c.got
\* The sender may say so when all is sent, the receiver when a client that
\* was not stopped by an error has sent all.
Verdict == s.moved = FileSize \/ (~Receives /\ c.aborted)

\* A request starts with a connection of its own.
Begins ==
    /\ Fresh => Clean /\ (IF c.pc = "init" /\ toS # <<>> THEN s.pdata # c.x ELSE s.pdata \in {0, c.x})
    /\ c.pc = "start" /\ s.pc = "dataconn" =>
         Clean /\ s.pdata \in {0, c.x} /\ s.cmd = c.cmd /\ s.moved = 0
    /\ s.pc \in {"idle", "dataconn"} => s.data = 0
\* Both ends use it, and agree on what went over it.
Joined ==
    /\ InXfer /\ Moving => s.use = c.x /\ s.cmd = c.cmd /\ ~conn[c.x].sEnd
    /\ Going => Sum /\ ~conn[c.x].cEnd
    /\ c.pc \in {"gap", "final"} /\ ~c.aborted =>
         IF Receives THEN c.got = s.moved /\ conn[c.x].cEnd
         ELSE Sum /\ (c.got = FileSize \/ s.pc \notin {"opened", "xfer"})
\* 226 is said of a whole file.
Judged ==
    /\ InXfer /\ (Told(toC) \/ (s.pc = "reply" /\ s.say = 226)) => Verdict
    /\ c.pc \in {"init", "ready", "start", "accept", "data"} => ~c.aborted
\* What 226 says of what was received.
Received226 ==
    c.pc = "prompt" /\ c.code = 226 /\ ~c.aborted /\ c.cmd # "none" =>
        IF Receives THEN c.got = FileSize ELSE s.moved = FileSize
Own == Begins /\ Joined /\ Judged /\ Received226
OInv == FInv /\ toC \in Seq(Int) /\ Own

\* What is said once more, or read.
LEMMA ToldAppend ==
  ASSUME NEW t \in Seq(Int), NEW k \in Int, Told(Append(t, k)) PROVE Told(t) \/ k = 226
<1>1. PICK i \in 1 .. Len(Append(t, k)) : Append(t, k)[i] = 226 BY DEF Told
<1>2. CASE i = Len(t) + 1
  <2>1. Append(t, k)[Len(t) + 1] = k OBVIOUS
  <2> QED BY <1>1, <1>2, <2>1
<1>3. CASE i # Len(t) + 1
  <2>1. i \in 1 .. Len(t) /\ Append(t, k)[i] = t[i] BY <1>3
  <2> QED BY <1>1, <2>1 DEF Told
<1> QED BY <1>2, <1>3

LEMMA ToldTail == ASSUME NEW t \in Seq(Int), t # <<>>, Told(Tail(t)) PROVE Told(t)
<1>1. PICK i \in 1 .. Len(Tail(t)) : Tail(t)[i] = 226 BY DEF Told
<1>2. i + 1 \in 1 .. Len(t) /\ t[i + 1] = 226 BY <1>1
<1> QED BY <1>2 DEF Told

LEMMA ToldHead == ASSUME NEW t \in Seq(Int), t # <<>>, Head(t) = 226 PROVE Told(t)
<1>1. 1 \in 1 .. Len(t) /\ t[1] = 226 OBVIOUS
<1> QED BY <1>1 DEF Told

LEMMA BegunAppend ==
  ASSUME NEW t \in Seq(Int), NEW k \in Int, Begun(Append(t, k)) PROVE Begun(t) \/ (t = <<>> /\ k \in {125, 150})
<1>1. CASE t = <<>>
  <2>1. Head(Append(t, k)) = k BY <1>1
  <2> QED BY <1>1, <2>1 DEF Begun
<1>2. CASE t # <<>>
  <2>1. Head(Append(t, k)) = Head(t) BY <1>2
  <2> QED BY <1>2, <2>1 DEF Begun
<1> QED BY <1>1, <1>2

\* The only thing said.
LEMMA SaidFirst ==
  ASSUME NEW t, NEW p, p # "dead", Says0(t, p), NEW k \in Int
  PROVE  /\ Told(Append(t, k)) <=> k = 226
         /\ Begun(Append(t, k)) <=> k \in {125, 150}
<1>1. Says1(Append(t, k), p, k) BY Saying
<1> QED BY <1>1, Telling

\* A step after which the client is at no transfer; a step of the server while
\* it is at none.
LEMMA Leaves ==
  ASSUME Own, s' = s, ~Doing(c'.pc), c'.pc = "prompt" => c'.code # 226 PROVE Own'
<1>1. c'.pc \notin {"init", "ready", "start", "accept", "data", "gap", "final"} BY DEF Doing
<1>2. ~Fresh' /\ ~InXfer' /\ ~Going' BY <1>1 DEF Fresh, InXfer, Going
<1>3. Begins' BY <1>1, <1>2 DEF Own, Begins
<1>4. Joined' BY <1>1, <1>2 DEF Joined
<1>5. Judged' BY <1>1, <1>2 DEF Judged
<1>6. Received226' BY DEF Received226
<1> QED BY <1>3, <1>4, <1>5, <1>6 DEF Own

LEMMA Elsewhere ==
  ASSUME c' = c, ~Doing(c.pc), c.pc # "prompt", s'.pc \in {"idle", "dataconn"} => s'.data = 0
  PROVE  Own'
<1>1. c'.pc \notin {"init", "ready", "start", "accept", "data", "gap", "final"} BY DEF Doing
<1>2. ~Fresh' /\ ~InXfer' /\ ~Going' BY <1>1 DEF Fresh, InXfer, Going
<1>3. Begins' BY <1>1, <1>2 DEF Begins
<1>4. Joined' BY <1>1, <1>2 DEF Joined
<1>5. Judged' BY <1>1, <1>2 DEF Judged
<1>6. Received226' BY DEF Received226
<1> QED BY <1>3, <1>4, <1>5, <1>6 DEF Own

\* A step that changes none of it.
LEMMA Keeps ==
  ASSUME Own, UNCHANGED <<s, toS, toC, conn>>, c'.pc = c.pc, c'.cmd = c.cmd, c'.x = c.x,
         c'.got = c.got, c'.aborted = c.aborted, c'.code = c.code
  PROVE  Own'
<1>1. (Fresh' <=> Fresh) /\ (InXfer' <=> InXfer) /\ (Going' <=> Going) /\ (Moving' <=> Moving)
  BY DEF Fresh, InXfer, Going, Moving
<1>2. (Clean' <=> Clean) /\ (Sum' <=> Sum) /\ (Verdict' <=> Verdict) /\ (Receives' <=> Receives)
  BY DEF Clean, Unused, Sum, Verdict, Receives
<1>3. Begins' BY <1>1, <1>2 DEF Own, Begins
<1>4. Joined' BY <1>1, <1>2 DEF Own, Joined
<1>5. Judged' BY <1>1, <1>2 DEF Own, Judged
<1>6. Received226' BY <1>2 DEF Own, Received226
<1> QED BY <1>3, <1>4, <1>5, <1>6 DEF Own

-----------------------------------------------------------------------------
(* The client's steps.                                                     *)

LEMMA RequestO ==
  ASSUME OInv, NEW cmd \in Cmds, NEW pasv \in BOOLEAN, Request(cmd, pasv) PROVE Own'
<1> DEFINE z == 0
           d == IF pasv THEN "none" ELSE "listen"
<1>1. xfers + 1 \in Xfers /\ xfers \in Nat /\ FInv /\ c \in Client0
  BY FtpAssumption DEF OInv, FInv, Typed, Request, Xfers
<1>2. /\ c' = [c EXCEPT !.pc = "init", !.cmd = cmd, !.x = xfers', !.pasv = pasv, !.cpend = TRUE,
                        !.data = d, !.din = FALSE, !.got = z, !.aborted = FALSE,
                        !.cut = FALSE]
      /\ xfers' = xfers + 1 /\ s' = s /\ toS' # <<>>
  BY DEF Request
<1> HIDE DEF d, z
<1>3. c'.pc = "init" /\ c'.x = xfers + 1 /\ c'.got = z /\ c'.aborted = FALSE BY <1>1, <1>2 DEF Client0
<1>4. conn'[xfers + 1] = conn[xfers + 1]
  <2>1. c.x # xfers + 1 BY <1>1 DEF FInv, Numbered
  <2>2. UNCHANGED conn \/ ClosesData BY DEF Request
  <2> QED BY <1>1, <2>1, <2>2, ClosesDataFacts DEF Others
<1>5. Unused(xfers + 1) BY <1>1 DEF FInv, Numbered
<1>6. Clean' BY <1>2, <1>3, <1>4, <1>5 DEF Clean, Unused, z
<1>7. s.pdata # xfers + 1 BY <1>1 DEF FInv, Numbered
<1>8. Begins' BY <1>2, <1>3, <1>6, <1>7 DEF OInv, Own, Begins
<1>9. Joined' /\ Judged' /\ Received226' BY <1>3 DEF Joined, Judged, Received226, InXfer, Going
<1> QED BY <1>8, <1>9 DEF Own

LEMMA InitReplyO == ASSUME OInv, InitReply PROVE Own'
<1> DEFINE r == Replied(c)
           g == AtPrompt(r)
           m == -1
           d == IF c.pasv THEN "conn" ELSE "listen"
<1>1. Awaits(c.pc, c.cmd, c.x, s.pc, toS, toC) /\ c \in Client0 /\ FInv BY DEF OInv, FInv, Dialogue, Typed
<1>2. c.pc = "init" /\ toC # <<>> /\ Head(toC) # 421 /\ toS' = toS /\ s' = s
  BY DEF InitReply, CanAnswer, CanRead
<1>3. Head(toC) \in {200, 227, 425} /\ Head(toC) \in Int /\ toS = <<>>
  BY <1>1, <1>2, ReadStep DEF Quiet
<1>4. r \in Client0 /\ Same(r, c) BY <1>1, <1>3, RepliedFacts
<1>5. g \in Client0 /\ Same(g, c) /\ g.pc = "prompt" BY <1>1, <1>3, AnsweredFacts
<1>6. m \in Int /\ m # 226 /\ d \in {"none", "listen", "conn"} OBVIOUS
<1>7. \/ c' = [g EXCEPT !.data = "none", !.aborted = TRUE, !.code = m]
      \/ /\ c' = [r EXCEPT !.pc = "ready", !.data = d]
         /\ UNCHANGED conn \/ Establishes(c.x)
      \/ c' = [g EXCEPT !.code = m]
  BY DEF InitReply, Establishes
<1> HIDE DEF r, g, m, d
<1>8. CASE c' = [g EXCEPT !.data = "none", !.aborted = TRUE, !.code = m] \/ c' = [g EXCEPT !.code = m]
  <2>1. c'.pc = "prompt" /\ c'.code = m BY <1>5, <1>8 DEF Client0
  <2> QED BY <1>2, <1>6, <2>1, Leaves DEF OInv, Doing
<1>9. CASE /\ c' = [r EXCEPT !.pc = "ready", !.data = d]
           /\ UNCHANGED conn \/ Establishes(c.x)
  <2>1. c'.pc = "ready" /\ c'.x = c.x /\ c'.got = c.got /\ c'.aborted = c.aborted
    BY <1>4, <1>9 DEF Client0, Same
  <2>2. c.x \in Xfers /\ Typed BY <1>1, <1>2, InXfers DEF FInv, Numbered, Requesting
  <2>3. conn'[c.x].n = conn[c.x].n /\ conn'[c.x].cEnd = conn[c.x].cEnd /\ conn'[c.x].sEnd = conn[c.x].sEnd
    BY <1>9, <2>2, EstablishesFacts
  <2>4. Clean /\ s.pdata \in {0, c.x} BY <1>2, <1>3 DEF OInv, Own, Begins, Fresh
  <2>5. Clean' BY <1>2, <2>1, <2>3, <2>4 DEF Clean, Unused
  <2>6. Begins' BY <1>2, <2>1, <2>4, <2>5 DEF OInv, Own, Begins
  <2>7. ~c.aborted BY <1>2 DEF OInv, Own, Judged
  <2>8. Joined' /\ Judged' /\ Received226' BY <2>1, <2>7 DEF Joined, Judged, Received226, InXfer, Going
  <2> QED BY <2>6, <2>8 DEF Own
<1> QED BY <1>7, <1>8, <1>9

LEMMA SendStartO == ASSUME OInv, SendStart PROVE Own'
<1>1. c \in Client0 /\ c.pc = "ready" /\ c' = [c EXCEPT !.pc = "start", !.cpend = TRUE] /\ UNCHANGED <<s, toC, conn>>
  BY DEF OInv, FInv, Typed, SendStart
<1>2. /\ c'.pc = "start" /\ c'.x = c.x /\ c'.cmd = c.cmd /\ c'.got = c.got /\ c'.aborted = c.aborted
  BY <1>1 DEF Client0
<1>3. Quiet(s.pc, toS, toC) BY <1>1 DEF OInv, FInv, Dialogue, Awaits
<1>4. s.pc \in {"idle", "close", "dead"} /\ ~Told(toC) /\ ~Begun(toC) /\ ~Moving
  BY <1>3, Telling DEF Quiet, Resting, Moving
<1>5. Clean /\ s.pdata \in {0, c.x} /\ ~c.aborted BY <1>1 DEF OInv, Own, Begins, Judged, Fresh
<1>6. Clean' BY <1>1, <1>2, <1>5 DEF Clean, Unused
<1>7. Begins' BY <1>1, <1>2, <1>4, <1>5, <1>6 DEF OInv, Own, Begins
<1>8. ~Going' /\ ~Moving' BY <1>1, <1>2, <1>4 DEF Going, Moving
<1>9. Joined' BY <1>2, <1>8 DEF Joined
<1>10. Judged' /\ Received226' BY <1>1, <1>2, <1>4, <1>5 DEF Judged, Received226
<1> QED BY <1>7, <1>9, <1>10 DEF Own

\* A transfer is given up.
LEMMA AbortXferO ==
  ASSUME OInv, NEW r \in Client0, s' = s, AbortXfer(r)
  PROVE  Own'
<1>1. CASE ~r.cpend
  <2> DEFINE g == AtPrompt(r)
             m == -1
  <2>1. g \in Client0 /\ g.pc = "prompt" BY AtPromptFacts
  <2>2. m # 226 /\ c' = [g EXCEPT !.code = m, !.aborted = TRUE] BY <1>1 DEF AbortXfer
  <2> HIDE DEF g, m
  <2>3. c'.pc = "prompt" /\ c'.code = m BY <2>1, <2>2 DEF Client0
  <2> QED BY <2>2, <2>3, Leaves DEF OInv, Doing
<1>2. CASE r.cpend
  <2>1. c'.pc \in {"select", "sabort"} BY <1>2 DEF AbortXfer, AbortRecv, AbortSend, Client0
  <2> QED BY <2>1, Leaves DEF OInv, Doing
<1> QED BY <1>1, <1>2

LEMMA StartReplyO == ASSUME OInv, StartReply PROVE Own'
<1> DEFINE r == Replied(c)
<1>1. Awaits(c.pc, c.cmd, c.x, s.pc, toS, toC) /\ c \in Client0 /\ FInv BY DEF OInv, FInv, Dialogue, Typed
<1>2. c.pc = "start" /\ toC # <<>> /\ Head(toC) # 421 /\ toC' = Tail(toC) /\ s' = s
  BY DEF StartReply, CanAnswer, CanRead, Getreply
<1>3. /\ Head(toC) \in {425, 550} \/ (Head(toC) \in {125, 150} /\ Ending(s.pc, toS, Tail(toC)))
  BY <1>1, <1>2, ReadStep
<1>4. Head(toC) \in Int /\ (Prelim(Head(toC)) <=> Head(toC) \in {125, 150}) BY <1>3 DEF Prelim
<1>5. r \in Client0 /\ Same(r, c) /\ r.code = Head(toC) BY <1>1, <1>4, RepliedFacts
<1>6. CASE c.abrt
  <2>1. AbortXfer(r) BY <1>6 DEF StartReply
  <2> HIDE DEF r
  <2> QED BY <1>2, <1>5, <2>1, AbortXferO
<1>7. CASE ~c.abrt /\ ~Prelim(Head(toC))
  <2>1. c' = AtPrompt(r) BY <1>5, <1>7 DEF StartReply
  <2>3. Head(toC) # 226 BY <1>3
  <2> HIDE DEF r
  <2>4. c'.pc = "prompt" /\ c'.code = r.code BY <1>5, <2>1, AtPromptFacts
  <2>2. c'.pc = "prompt" /\ c'.code # 226 BY <1>5, <2>3, <2>4
  <2> QED BY <1>2, <2>2, Leaves DEF OInv, Doing
<1>8. CASE ~c.abrt /\ Prelim(Head(toC))
  <2>1. c' = [r EXCEPT !.pc = "accept"] /\ UNCHANGED <<toS, conn>> BY <1>5, <1>8 DEF StartReply
  <2> HIDE DEF r
  <2>2. /\ c'.pc = "accept" /\ c'.x = c.x /\ c'.cmd = c.cmd /\ c'.got = c.got /\ c'.aborted = c.aborted
    BY <1>5, <2>1 DEF Client0, Same
  <2>3. Going /\ InXfer /\ ~c.aborted
    BY <1>2, <1>4, <1>8 DEF Going, InXfer, Begun, OInv, Own, Judged
  <2>4. Begins' BY <1>2, <2>2 DEF OInv, Own, Begins, Fresh
  <2>5. (Receives' <=> Receives) /\ (Sum' <=> Sum) /\ (Verdict' <=> Verdict) /\ (Moving' <=> Moving)
    BY <1>2, <2>1, <2>2 DEF Receives, Sum, Verdict, Moving
  <2>6. Joined' BY <1>2, <2>1, <2>2, <2>3, <2>5 DEF OInv, Own, Joined
  <2>7. Told(toC') => Told(toC) BY <1>2, ToldTail DEF OInv
  <2>8. Judged' BY <1>2, <2>2, <2>3, <2>5, <2>7 DEF OInv, Own, Judged
  <2>9. Received226' BY <2>2 DEF Received226
  <2> QED BY <2>4, <2>6, <2>8, <2>9 DEF Own
<1> QED BY <1>6, <1>7, <1>8

\* A step in a transfer that leaves the control connection and the server alone.
LEMMA TransferO ==
  ASSUME OInv, UNCHANGED <<s, toS, toC>>, c.pc \in {"accept", "data"}, c'.pc = "data", c'.x = c.x,
         c'.cmd = c.cmd, c'.aborted = c.aborted, Sum',
         conn'[c.x].cEnd = conn[c.x].cEnd, conn'[c.x].sEnd = conn[c.x].sEnd
  PROVE  Own'
<1>1. InXfer /\ Going BY DEF InXfer, Going
<1>2. Begins' BY DEF OInv, Own, Begins, Fresh
<1>3. (Moving' <=> Moving) /\ (Verdict' <=> Verdict) BY DEF Moving, Verdict, Receives
<1>4. Joined' BY <1>1, <1>3 DEF OInv, Own, Joined
<1>5. Judged' BY <1>1, <1>3 DEF OInv, Own, Judged
<1>6. Received226' BY DEF Received226
<1> QED BY <1>2, <1>4, <1>5, <1>6 DEF Own

\* What is known in one.
LEMMA AtData ==
  ASSUME OInv, c.pc \in {"accept", "data"}
  PROVE  /\ c.x \in Xfers /\ Typed /\ c \in Client0 /\ conn[c.x].n \in Nat /\ s.moved \in Nat
         /\ c.got \in Nat /\ Sum /\ ~conn[c.x].cEnd /\ InXfer /\ ~c.aborted
<1>1. FInv BY DEF OInv
<1>2. c.x \in Xfers BY <1>1, InXfers DEF FInv, Numbered, Requesting
<1>3. conn[c.x] \in Conn0 /\ s \in Server0 /\ c \in Client0 /\ Typed BY <1>1, <1>2 DEF FInv, Typed
<1>4. Sum /\ ~conn[c.x].cEnd /\ InXfer /\ ~c.aborted BY DEF OInv, Own, Joined, Judged, Going, InXfer
<1> QED BY <1>2, <1>3, <1>4 DEF Conn0, Server0, Client0

LEMMA AcceptO == ASSUME OInv, Accept PROVE Own'
<1>1. c.pc = "accept" /\ c \in Client0 /\ UNCHANGED <<s, toS, toC, conn>> BY DEF Accept, OInv, FInv, Typed
<1>2. /\ c'.pc = "data" /\ c'.x = c.x /\ c'.cmd = c.cmd /\ c'.got = c.got /\ c'.aborted = c.aborted
  BY <1>1 DEF Accept, Client0
<1>3. Sum' BY <1>1, <1>2, AtData DEF Sum, Receives
<1> QED BY <1>1, <1>2, <1>3, TransferO

LEMMA RecvUnitO == ASSUME OInv, RecvUnit PROVE Own'
<1>1. c.pc = "data" /\ Receives /\ conn[c.x].n > 0 /\ UNCHANGED <<s, toS, toC>> /\ Empties(c.x)
  BY DEF RecvUnit, Empties
<1>2. /\ c'.pc = "data" /\ c'.x = c.x /\ c'.cmd = c.cmd /\ c'.got = c.got + 1 /\ c'.aborted = c.aborted
  BY <1>1, AtData DEF RecvUnit, Client0
<1>3. /\ conn'[c.x].n = conn[c.x].n - 1 /\ conn'[c.x].cEnd = conn[c.x].cEnd
      /\ conn'[c.x].sEnd = conn[c.x].sEnd
  BY <1>1, AtData, EmptiesFacts
<1>4. c.got + conn[c.x].n = s.moved BY <1>1, AtData DEF Sum
<1>5. c'.got + conn'[c.x].n = s.moved BY <1>1, <1>2, <1>3, <1>4, AtData
<1>6. Sum' BY <1>1, <1>2, <1>5 DEF Sum, Receives
<1> QED BY <1>1, <1>2, <1>3, <1>6, TransferO

LEMMA SendUnitO == ASSUME OInv, SendUnit PROVE Own'
<1>1. c.pc = "data" /\ ~Receives /\ UNCHANGED <<s, toS, toC>> /\ Fills(c.x) BY DEF SendUnit, Fills
<1>2. /\ c'.pc = "data" /\ c'.x = c.x /\ c'.cmd = c.cmd /\ c'.got = c.got + 1 /\ c'.aborted = c.aborted
  BY <1>1, AtData DEF SendUnit, Client0
<1>3. /\ conn'[c.x].n = conn[c.x].n + 1 /\ conn'[c.x].cEnd = conn[c.x].cEnd
      /\ conn'[c.x].sEnd = conn[c.x].sEnd
  BY <1>1, AtData, FillsFacts
<1>4. s.moved + conn[c.x].n = c.got BY <1>1, AtData DEF Sum
<1>5. s.moved + conn'[c.x].n = c'.got BY <1>1, <1>2, <1>3, <1>4, AtData
<1>6. Sum' BY <1>1, <1>2, <1>5 DEF Sum, Receives
<1> QED BY <1>1, <1>2, <1>3, <1>6, TransferO

\* The client closes its end: at the end of the data, or on an error it tells.
LEMMA CloseLocalO ==
  ASSUME OInv, c.pc = "data", NEW told \in BOOLEAN, NEW cut \in BOOLEAN, CloseLocal(told, cut),
         told \/ EndOfData
  PROVE  Own'
<1> DEFINE q == IF Receives THEN "gap" ELSE "final"
<1>1. /\ c' = [c EXCEPT !.pc = q, !.data = "none", !.din = FALSE, !.aborted = told, !.cut = cut]
      /\ q \in {"gap", "final"} /\ UNCHANGED <<s, toS, toC>> /\ EndsC(c.x)
  BY DEF CloseLocal, EndsC
<1> HIDE DEF q
<1>2. /\ c'.pc \in {"gap", "final"} /\ c'.x = c.x /\ c'.cmd = c.cmd /\ c'.got = c.got /\ c'.aborted = told
  BY <1>1, AtData DEF Client0
<1>3. conn'[c.x].cEnd /\ conn'[c.x].n = conn[c.x].n /\ conn'[c.x].sEnd = conn[c.x].sEnd
  BY <1>1, AtData, EndsCFacts
<1>4. Sum /\ InXfer /\ ~c.aborted BY AtData
<1>5. (Sum' <=> Sum) /\ (Receives' <=> Receives) /\ (Moving' <=> Moving)
  BY <1>1, <1>2, <1>3 DEF Sum, Receives, Moving
<1>6. Begins' BY <1>1, <1>2 DEF OInv, Own, Begins, Fresh
<1>7. Joined'
  <2>1. ~told /\ Receives => c.got = s.moved
    <3>1. ~told /\ Receives => conn[c.x].n = 0 BY DEF EndOfData
    <3> QED BY <3>1, AtData DEF Sum
  <2>2. ~told /\ ~Receives => c.got = FileSize \/ s.pc \notin {"opened", "xfer"}
    BY <1>4 DEF EndOfData, OInv, Own, Joined, Moving
  <2>3. ~Going' BY <1>2 DEF Going
  <2> QED BY <1>1, <1>2, <1>3, <1>4, <1>5, <2>1, <2>2, <2>3 DEF OInv, Own, Joined
<1>8. Judged'
  <2>1. Verdict => Verdict' BY <1>1, <1>4 DEF Verdict
  <2> QED BY <1>1, <1>2, <1>4, <2>1 DEF OInv, Own, Judged
<1>9. Received226' BY <1>2 DEF Received226
<1> QED BY <1>6, <1>7, <1>8, <1>9 DEF Own

LEMMA CallGetreplyO == ASSUME OInv, CallGetreply PROVE Own'
<1>1. c.pc = "gap" /\ c \in Client0 /\ UNCHANGED <<s, toS, toC, conn>> BY DEF CallGetreply, OInv, FInv, Typed
<1>2. /\ c'.pc = "final" /\ c'.x = c.x /\ c'.cmd = c.cmd /\ c'.got = c.got /\ c'.aborted = c.aborted
  BY <1>1 DEF CallGetreply, Client0
<1>3. /\ (Sum' <=> Sum) /\ (Receives' <=> Receives) /\ (Moving' <=> Moving) /\ (Verdict' <=> Verdict)
      /\ InXfer /\ ~Going'
  BY <1>1, <1>2 DEF Sum, Receives, Moving, Verdict, InXfer, Going
<1>4. Begins' BY <1>1, <1>2 DEF OInv, Own, Begins, Fresh
<1>5. Joined' BY <1>1, <1>2, <1>3 DEF OInv, Own, Joined
<1>6. Judged' /\ Received226' BY <1>1, <1>2, <1>3 DEF OInv, Own, Judged, Received226
<1> QED BY <1>4, <1>5, <1>6 DEF Own

\* 226 is read: the one reply that may say too much.
LEMMA FinalReplyO == ASSUME OInv, FinalReply PROVE Own'
<1> DEFINE g == AtPrompt(Replied(c))
           a == g.aborted \/ c.abrt
<1>1. Awaits(c.pc, c.cmd, c.x, s.pc, toS, toC) /\ c \in Client0 BY DEF OInv, FInv, Dialogue, Typed
<1>2. c.pc = "final" /\ toC # <<>> /\ Head(toC) # 421 /\ UNCHANGED <<s, conn>>
  BY DEF FinalReply, CanAnswer, CanRead
<1>3. Head(toC) \in Ends BY <1>1, <1>2, ReadStep
<1>4. Head(toC) \in Int BY <1>3 DEF Ends
<1>5. g \in Client0 /\ Same(g, c) /\ g.pc = "prompt" /\ g.code = Head(toC) BY <1>1, <1>4, AnsweredFacts
<1>6. c' = [g EXCEPT !.aborted = a] /\ (g.aborted => a) BY DEF FinalReply
<1> HIDE DEF g, a
<1>7. /\ c'.pc = "prompt" /\ c'.cmd = c.cmd /\ c'.got = c.got /\ c'.code = Head(toC)
      /\ c.aborted => c'.aborted
  BY <1>5, <1>6 DEF Client0, Same
<1>8. CASE c'.code # 226 BY <1>2, <1>7, <1>8, Leaves DEF OInv, Doing
<1>9. CASE c'.code = 226
  <2>1. Told(toC) BY <1>2, <1>7, <1>9, ToldHead DEF OInv
  <2>2. Verdict BY <1>2, <2>1 DEF OInv, Own, Judged, InXfer
  <2>3. ~c.aborted /\ Receives => c.got = s.moved BY <1>2 DEF OInv, Own, Joined
  <2>4. Received226' BY <1>2, <1>7, <2>2, <2>3 DEF Received226, Verdict, Receives
  <2>5. Begins' /\ Joined' /\ Judged'
    BY <1>2, <1>7 DEF OInv, Own, Begins, Joined, Judged, Fresh, InXfer, Going
  <2> QED BY <2>4, <2>5 DEF Own
<1> QED BY <1>8, <1>9

\* The steps that leave a transfer, or are outside of one.
LEMMA ClientLeavesO ==
  ASSUME OInv, Noop \/ LostPeer \/ NoopReply \/ AcceptFails \/ SelectReady \/ SelectTimeout \/ Drain
               \/ AborReply1 \/ AborReply2 \/ SabortReply
  PROVE  Own'
<1>1. s' = s BY DEF Noop, LostPeer, NoopReply, AcceptFails, SelectReady, SelectTimeout, Drain,
                    AborReply1, AborReply2, SabortReply
<1>2. Awaits(c.pc, c.cmd, c.x, s.pc, toS, toC) /\ c \in Client0 BY DEF OInv, FInv, Dialogue, Typed
<1>3. CASE Noop \/ LostPeer \/ AcceptFails \/ SelectReady \/ SelectTimeout \/ Drain
  <2>1. c'.pc \in {"noop", "lost", "spin", "crash", "select", "sabort", "drain", "abor1"}
    <3>1. CASE Noop BY <1>2, <3>1 DEF Noop, Client0
    <3>2. CASE LostPeer
      <4> DEFINE q == IF ~c.abrt \/ CanRead THEN "lost" ELSE IF c.pc = "init" THEN "spin"
                      ELSE IF c.pc = "start" /\ Receives THEN "crash" ELSE "lost"
                 k == 421
      <4>1. c' = [c EXCEPT !.pc = q, !.code = k, !.data = "none", !.din = FALSE]
            /\ q \in {"lost", "spin", "crash"}
        BY <3>2 DEF LostPeer
      <4> HIDE DEF q, k
      <4> QED BY <1>2, <4>1 DEF Client0
    <3>3. CASE AcceptFails BY <1>2, <3>3 DEF AcceptFails, Client0
    <3>4. CASE SelectReady BY <1>2, <3>4 DEF SelectReady, Client0
    <3>5. CASE SelectTimeout BY <1>2, <3>5 DEF SelectTimeout, Client0
    <3>6. CASE Drain BY <1>2, <3>6 DEF Drain, Client0
    <3> QED BY <1>3, <3>1, <3>2, <3>3, <3>4, <3>5, <3>6
  <2> QED BY <1>1, <2>1, Leaves DEF OInv, Doing
<1>4. CASE NoopReply \/ AborReply1 \/ AborReply2 \/ SabortReply
  <2> DEFINE r == Replied(c)
             g == AtPrompt(Replied(c))
             m == -1
  <2>1. toC # <<>> /\ Head(toC) # 421 BY <1>4 DEF NoopReply, AborReply1, AborReply2, SabortReply, CanAnswer, CanRead
  <2>2. Head(toC) \in Int BY <2>1 DEF OInv
  <2>3. r \in Client0 /\ g \in Client0 /\ g.pc = "prompt" /\ g.code = Head(toC) BY <1>2, <2>2, RepliedFacts, AnsweredFacts
  <2>4. m # 226 OBVIOUS
  <2>5. NoopReply => c' = g /\ c.pc = "noop" BY DEF NoopReply, CanAnswer
  <2>6. AborReply1 => c' = [r EXCEPT !.pc = "abor2"] BY DEF AborReply1
  <2>7. AborReply2 => c' = [g EXCEPT !.code = m, !.data = "none", !.din = FALSE] BY DEF AborReply2
  <2>8. SabortReply => c' = [g EXCEPT !.code = m] BY DEF SabortReply
  <2>9. c.pc = "noop" => Head(toC) # 226
    <3>1. c.pc = "noop" => Head(toC) = 200 BY <1>2, <2>1, ReadStep
    <3> QED BY <3>1
  <2> HIDE DEF r, g, m
  <2>10. c'.pc \in {"prompt", "abor2"} /\ (c'.pc = "prompt" => c'.code # 226)
    <3>1. CASE NoopReply BY <2>3, <2>5, <2>9, <3>1
    <3>2. CASE AborReply1
      <4>1. c'.pc = "abor2" BY <2>3, <2>6, <3>2 DEF Client0
      <4> QED BY <4>1
    <3>3. CASE AborReply2
      <4>1. c'.pc = "prompt" /\ c'.code = m BY <2>3, <2>7, <3>3 DEF Client0
      <4> QED BY <2>4, <4>1
    <3>4. CASE SabortReply
      <4>1. c'.pc = "prompt" /\ c'.code = m BY <2>3, <2>8, <3>4 DEF Client0
      <4> QED BY <2>4, <4>1
    <3> QED BY <1>4, <3>1, <3>2, <3>3, <3>4
  <2> QED BY <1>1, <2>10, Leaves DEF OInv, Doing
<1> QED BY <1>3, <1>4

LEMMA InterruptO == ASSUME OInv, ~GapIntr, Interrupt PROVE Own'
<1>1. c \in Client0 /\ UNCHANGED <<s, toC>> BY DEF OInv, FInv, Typed, Interrupt
<1>2. CASE c.pc \in {"ready", "accept", "data"}
  <2>1. AbortXfer(c) BY <1>2 DEF Interrupt
  <2> QED BY <1>1, <2>1, AbortXferO
<1>3. CASE c.pc \notin {"ready", "accept", "data"}
  <2>1. c' = [c EXCEPT !.abrt = TRUE] /\ UNCHANGED <<toS, conn>> BY <1>3 DEF Interrupt
  <2>2. /\ c'.pc = c.pc /\ c'.cmd = c.cmd /\ c'.x = c.x /\ c'.got = c.got /\ c'.aborted = c.aborted
        /\ c'.code = c.code
    BY <1>1, <2>1 DEF Client0
  <2> QED BY <1>1, <2>1, <2>2, Keeps DEF OInv
<1> QED BY <1>2, <1>3

-----------------------------------------------------------------------------
(* The server's steps.                                                     *)

LEMMA SrvNoopO == ASSUME OInv, SrvNoop PROVE Own'
<1>1. TakesCommand({"NOOP", "ABOR"}) /\ UNCHANGED <<c, s>> /\ FInv BY DEF SrvNoop, clientside, OInv
<1>2. /\ s.pc = "idle" /\ toS # <<>> /\ c.pc \in Places /\ Awaits(c.pc, c.cmd, c.x, s.pc, toS, toC)
      /\ Head(toS)[1] \in {"NOOP", "ABOR"}
      /\ c.pc = "start" => c.cmd \in Cmds
  BY <1>1, TakesFacts
<1>3. \A n, y : toS = <<<<n, y>>>> => Head(toS)[1] = n OBVIOUS
<1>4. \A n \in Cmds : n \notin {"NOOP", "ABOR"} BY FtpAssumption
<1>5. c.pc \in {"noop", "select", "drain", "abor1", "abor2", "lost", "spin", "crash"}
  BY <1>2, <1>3, <1>4, Taking
<1>6. s'.pc \in {"idle", "dataconn"} => s'.data = 0 BY <1>1 DEF OInv, Own, Begins
<1> QED BY <1>1, <1>5, <1>6, Elsewhere DEF Doing

\* PORT or PASV is answered.
LEMMA InitedO ==
  ASSUME OInv, c' = c, c.pc = "init", toS' = <<>>, s.pc = "idle", s'.pc = "idle", s'.data = s.data,
         s'.pdata \in {0, c.x}, conn'[c.x] = conn[c.x], toS # <<>>
  PROVE  Own'
<1>1. Clean /\ s.data = 0 BY DEF OInv, Own, Begins, Fresh
<1>2. Clean' BY <1>1 DEF Clean, Unused
<1>3. Begins' BY <1>1, <1>2 DEF Begins
<1>4. Joined' /\ Received226' BY DEF Joined, Received226, InXfer, Going
<1>5. Judged' BY DEF Judged, InXfer, OInv, Own
<1> QED BY <1>3, <1>4, <1>5 DEF Own

LEMMA SrvPortO == ASSUME OInv, SrvPort PROVE Own'
<1> DEFINE y == Head(toS)[2]
           z == 0
<1>1. /\ TakesCommand({"PORT"}) /\ UNCHANGED c /\ conn' = ClosesEnd(s.pdata) /\ s \in Server0 /\ FInv
      /\ s' = [s EXCEPT !.dest = y, !.pdata = z, !.listens = FALSE]
  BY DEF SrvPort, clientside, OInv, FInv, Typed
<1>2. Head(toS)[1] = "PORT" /\ s.pc = "idle" /\ toS # <<>> /\ toS' = <<>> BY <1>1, TakesFacts
<1>3. c.pc = "init" BY <1>1, <1>2, InitNumber
<1> HIDE DEF y
<1>4. s'.pc = s.pc /\ s'.data = s.data /\ s'.pdata = 0 BY <1>1 DEF Server0
<1>5. s.pdata # c.x BY <1>2, <1>3 DEF OInv, Own, Begins, Fresh
<1>6. c.x \in Xfers /\ s.pdata \in 0 .. xfers BY <1>1, <1>3, InXfers DEF FInv, Numbered, Requesting
<1>7. conn'[c.x] = conn[c.x] BY <1>1, <1>5, <1>6, ClosesEndFacts DEF Others
<1> QED BY <1>1, <1>2, <1>3, <1>4, <1>7, InitedO

LEMMA SrvPasvO == ASSUME OInv, NEW works \in BOOLEAN, SrvPasv(works) PROVE Own'
<1> DEFINE y == IF works THEN Head(toS)[2] ELSE 0
<1>1. /\ TakesCommand({"PASV"}) /\ UNCHANGED <<c, conn>> /\ s \in Server0 /\ FInv
      /\ s' = [s EXCEPT !.pdata = y, !.listens = works]
  BY DEF SrvPasv, clientside, OInv, FInv, Typed
<1>2. Head(toS)[1] = "PASV" /\ s.pc = "idle" /\ toS # <<>> /\ toS' = <<>> BY <1>1, TakesFacts
<1>3. c.pc = "init" /\ y \in {0, c.x} BY <1>1, <1>2, InitNumber
<1> HIDE DEF y
<1>4. s'.pc = s.pc /\ s'.data = s.data /\ s'.pdata = y BY <1>1 DEF Server0
<1> QED BY <1>1, <1>2, <1>3, <1>4, InitedO

\* A client that waits for the first reply to its transfer, of a server that
\* has no connection for it.
LEMMA WaitingO ==
  ASSUME OInv, c' = c, c.pc = "start", toS' = <<>>, ~Told(toC'), ~Begun(toC'),
         s'.pc \in {"idle", "dataconn"}, s'.data = 0,
         s'.pc = "dataconn" => Clean' /\ s'.pdata \in {0, c.x} /\ s'.cmd = c.cmd /\ s'.moved = 0
  PROVE  Own'
<1>1. Begins' BY DEF Begins, Fresh
<1>2. Joined' BY DEF Joined, Going, Moving
<1>3. Judged' /\ Received226' BY DEF OInv, Own, Judged, Received226
<1> QED BY <1>1, <1>2, <1>3 DEF Own

LEMMA SrvOpenFileO == ASSUME OInv, SrvOpenFile PROVE Own'
<1> DEFINE n == Head(toS)[1]
           z == 0
<1>1. /\ TakesCommand(Cmds) /\ UNCHANGED <<c, toC, conn>> /\ s \in Server0 /\ FInv
      /\ s' = [s EXCEPT !.pc = "dataconn", !.cmd = n, !.moved = z]
  BY DEF SrvOpenFile, clientside, OInv, FInv, Typed
<1>2. /\ s.pc = "idle" /\ toS # <<>> /\ toS' = <<>> /\ c.pc \in Places /\ n \in Cmds
      /\ Awaits(c.pc, c.cmd, c.x, s.pc, toS, toC)
  BY <1>1, TakesFacts
<1>3. c.pc = "start" /\ toS = <<<<c.cmd, c.x>>>> /\ Awaits(c.pc, c.cmd, c.x, "dataconn", Tail(toS), toC)
  BY <1>2, OpenStep
<1>4. n = c.cmd BY <1>3
<1>5. Says0(toC, "idle")
  <2>1. toS # <<>> BY <1>2
  <2> QED BY <1>2, <1>3 DEF Awaits, Starting, Asked, Opening, Done, Started, Finished
<1>6. ~Told(toC') /\ ~Begun(toC') BY <1>1, <1>5, Telling
<1> HIDE DEF n, z
<1>7. /\ s'.pc = "dataconn" /\ s'.cmd = n /\ s'.moved = z /\ s'.data = s.data /\ s'.pdata = s.pdata
  BY <1>1 DEF Server0
<1>8. Clean /\ s.pdata \in {0, c.x} /\ s.data = 0 BY <1>2, <1>3 DEF OInv, Own, Begins, Fresh
<1>9. Clean' BY <1>1, <1>2, <1>7, <1>8 DEF Clean, Unused
<1> QED BY <1>1, <1>2, <1>3, <1>4, <1>6, <1>7, <1>8, <1>9, WaitingO DEF z

LEMMA SrvNoFileO == ASSUME OInv, SrvNoFile PROVE Own'
<1>1. TakesCommand(Cmds) /\ toC' = Append(toC, 550) /\ UNCHANGED <<c, s>> /\ FInv
  BY DEF SrvNoFile, Reply, clientside, OInv
<1>2. /\ s.pc = "idle" /\ toS # <<>> /\ toS' = <<>> /\ c.pc \in Places /\ Head(toS)[1] \in Cmds
      /\ Awaits(c.pc, c.cmd, c.x, s.pc, toS, toC)
  BY <1>1, TakesFacts
<1>3. c.pc = "start" BY <1>2, OpenStep
<1>4. Says0(toC, "idle")
  BY <1>2, <1>3 DEF Awaits, Starting, Asked, Opening, Done, Started, Finished
<1>6. ~Told(toC') /\ ~Begun(toC')
  <2> DEFINE k == 550
  <2>1. k \in Int /\ k # 226 /\ k \notin {125, 150} /\ toC' = Append(toC, k) BY <1>1
  <2> HIDE DEF k
  <2> QED BY <1>4, <2>1, SaidFirst
<1>7. s.data = 0 BY <1>2 DEF OInv, Own, Begins
<1> QED BY <1>1, <1>2, <1>3, <1>6, <1>7, WaitingO

LEMMA SrvNoDataconnO == ASSUME OInv, SrvNoDataconn PROVE Own'
<1> DEFINE z == 0
           d == IF s.pdata # 0 THEN s.dest ELSE 0
<1>1. /\ s.pc = "dataconn" /\ s \in Server0 /\ UNCHANGED <<c, toS>> /\ FInv
      /\ s' = [s EXCEPT !.pc = "idle", !.pdata = z, !.listens = FALSE, !.dest = d]
      /\ toC' = Append(toC, 425)
  BY DEF SrvNoDataconn, Reply, clientside, OInv, FInv, Typed
<1> HIDE DEF z, d
<1>2. s'.pc = "idle" /\ s'.data = s.data BY <1>1 DEF Server0
<1>3. s.data = 0 BY <1>1 DEF OInv, Own, Begins
<1>4. CASE c.pc = "start"
  <2>1. toS' = <<>> /\ Awaits(c.pc, c.cmd, c.x, "dataconn", toS, toC) BY <1>1, <1>4, AtDataconn
  <2>2. Says0(toC, "dataconn")
    BY <1>4, <2>1 DEF Awaits, Starting, Asked, Opening, Done, Started, Finished, Resting, Busy
  <2>4. ~Told(toC') /\ ~Begun(toC')
    <3> DEFINE k == 425
    <3>1. k \in Int /\ k # 226 /\ k \notin {125, 150} /\ toC' = Append(toC, k) BY <1>1
    <3> HIDE DEF k
    <3> QED BY <2>2, <3>1, SaidFirst
  <2> QED BY <1>1, <1>2, <1>3, <1>4, <2>1, <2>4, WaitingO
<1>5. CASE c.pc \in {"lost", "spin", "crash"} BY <1>1, <1>2, <1>3, <1>5, Elsewhere DEF Doing
<1> QED BY <1>1, <1>4, <1>5, AtDataconn

LEMMA SrvDataconnO == ASSUME OInv, SrvDataconn PROVE Own'
<1> DEFINE z == 0
<1>1. s.pc = "dataconn" /\ s \in Server0 /\ UNCHANGED <<c, toS>> /\ FInv /\ Typed
  BY DEF SrvDataconn, clientside, OInv, FInv, Typed
<1>2. s.data = 0 BY <1>1 DEF OInv, Own, Begins
<1>3. \/ /\ s.pdata # 0 /\ toC' = Append(toC, 150) /\ UNCHANGED conn
         /\ s' = [s EXCEPT !.pc = "opened", !.listens = FALSE, !.use = s.pdata]
      \/ /\ s.dest # 0 /\ c.x = s.dest /\ toC' = Append(toC, 150) /\ Establishes(s.dest)
         /\ s' = [s EXCEPT !.pc = "opened", !.data = s.dest, !.use = s.dest, !.dest = z]
  BY <1>2 DEF SrvDataconn, Reply, Establishes
<1> HIDE DEF z
<1>4. s'.pc = "opened" /\ s'.cmd = s.cmd /\ s'.moved = s.moved
  BY <1>1, <1>3 DEF Server0
<1>5. \/ s.pdata # 0 /\ s'.use = s.pdata /\ UNCHANGED conn
      \/ c.x = s.dest /\ s'.use = s.dest /\ Establishes(c.x)
  <2>1. CASE s.pdata # 0 /\ UNCHANGED conn /\ s' = [s EXCEPT !.pc = "opened", !.listens = FALSE, !.use = s.pdata]
    BY <1>1, <2>1 DEF Server0
  <2>2. CASE /\ c.x = s.dest /\ Establishes(s.dest)
             /\ s' = [s EXCEPT !.pc = "opened", !.data = s.dest, !.use = s.dest, !.dest = z]
    BY <1>1, <2>2 DEF Server0
  <2> QED BY <1>3, <2>1, <2>2
<1>6. CASE c.pc = "start"
  <2>1. toS = <<>> /\ Awaits(c.pc, c.cmd, c.x, "dataconn", toS, toC) BY <1>1, <1>6, AtDataconn
  <2>2. Says0(toC, "dataconn")
    BY <1>6, <2>1 DEF Awaits, Starting, Asked, Opening, Done, Started, Finished, Resting, Busy
  <2>4. ~Told(toC')
    <3> DEFINE k == 150
    <3>1. k \in Int /\ k # 226 /\ toC' = Append(toC, k) BY <1>3
    <3> HIDE DEF k
    <3> QED BY <2>2, <3>1, SaidFirst
  <2>5. Clean /\ s.pdata \in {0, c.x} /\ s.cmd = c.cmd /\ s.moved = 0 BY <1>1, <1>6 DEF OInv, Own, Begins
  <2>6. s'.use = c.x BY <1>5, <2>5
  <2>7. c.x \in Xfers BY <1>1, <1>6, InXfers DEF FInv, Numbered, Requesting
  <2>8. /\ conn'[c.x].n = conn[c.x].n /\ conn'[c.x].cEnd = conn[c.x].cEnd
        /\ conn'[c.x].sEnd = conn[c.x].sEnd
    BY <1>1, <1>5, <2>7, EstablishesFacts
  <2>9. conn'[c.x].n = 0 /\ ~conn'[c.x].cEnd /\ ~conn'[c.x].sEnd /\ c.got = 0
    BY <1>1, <2>5, <2>8 DEF Clean, Unused
  <2>10. Sum' BY <1>1, <1>4, <2>5, <2>9 DEF Sum, Receives
  <2>11. Begins' BY <1>1, <1>4, <1>6, <2>1 DEF Begins, Fresh
  <2>12. Joined' BY <1>1, <1>4, <1>6, <2>5, <2>6, <2>9, <2>10 DEF Joined
  <2>13. Judged' /\ Received226' BY <1>1, <1>4, <1>6, <2>4 DEF OInv, Own, Judged, Received226
  <2> QED BY <2>11, <2>12, <2>13 DEF Own
<1>7. CASE c.pc \in {"lost", "spin", "crash"} BY <1>1, <1>4, <1>7, Elsewhere DEF Doing
<1> QED BY <1>1, <1>6, <1>7, AtDataconn

\* While the server is at a transfer it has not given its verdict on it.
LEMMA NotTold ==
  ASSUME OInv, Moving
  PROVE  /\ InXfer => ~Told(toC) /\ (c.pc = "start" => Begun(toC))
         /\ ~InXfer => ~Doing(c.pc) /\ c.pc # "prompt"
<1>1. c.pc \in Places /\ Awaits(c.pc, c.cmd, c.x, s.pc, toS, toC) BY DEF OInv, FInv, Typed, Dialogue, Client0
<1>2. \/ c.pc = "start" /\ Started(s.pc, toS, toC)
      \/ c.pc \in {"accept", "data", "gap", "final", "sabort"} /\ Under(s.pc, toS, toC)
      \/ c.pc \in {"select", "drain", "abor1", "lost", "spin", "crash"}
  BY <1>1, Serving DEF Moving
<1>3. Under(s.pc, toS, toC) => ~Told(toC) BY Telling DEF Under
<1>4. Started(s.pc, toS, toC) => ~Told(toC) /\ Begun(toC)
  <2>1. \A k : Says1(toC, s.pc, k) => (Told(toC) <=> k = 226) /\ (Begun(toC) <=> k \in {125, 150})
    BY Telling
  <2>2. \A k \in {125, 150} : k # 226 OBVIOUS
  <2> QED BY <2>1, <2>2 DEF Started
<1> QED BY <1>2, <1>3, <1>4 DEF InXfer, Doing

\* The server goes on with a transfer: it moves a unit, or not, and may end it.
LEMMA MovesO ==
  ASSUME OInv, Moving, UNCHANGED <<c, toS, toC>>, s'.pc \in {"opened", "xfer", "reply"},
         s.pc = "reply" => s'.pc = "reply",
         s'.cmd = s.cmd, s'.use = s.use,
         conn'[s.use].cEnd = conn[s.use].cEnd, conn'[s.use].sEnd = conn[s.use].sEnd,
         InXfer => \/ s'.moved = s.moved /\ conn'[s.use].n = conn[s.use].n
                   \/ /\ Going => Sum'
                      /\ c.pc \in {"gap", "final"} /\ ~c.aborted => ~Receives /\ Sum',
         InXfer /\ s'.pc = "reply" /\ s'.say = 226 => Verdict'
  PROVE  Own'
<1>1. CASE ~InXfer BY <1>1, NotTold, Elsewhere
<1>2. CASE InXfer
  <2>1. s.use = c.x /\ s.cmd = c.cmd /\ ~conn[c.x].sEnd /\ ~Told(toC) /\ (c.pc = "start" => Begun(toC))
    BY <1>2, NotTold DEF OInv, Own, Joined
  <2>2. ~Fresh'
    <3>1. c.pc = "start" => toS = <<>>
      <4>1. Awaits(c.pc, c.cmd, c.x, s.pc, toS, toC) /\ c.pc \in Places
        BY DEF OInv, FInv, Typed, Dialogue, Client0
      <4> QED BY <4>1, Serving DEF Moving, Started
    <3> QED BY <1>2, <3>1 DEF Fresh, InXfer
  <2>3. Begins' BY <1>2, <2>2 DEF Begins, InXfer
  <2>4. (Going' <=> Going) /\ (Receives' <=> Receives) BY DEF Going, Receives
  <2>5. s'.moved = s.moved /\ conn'[s.use].n = conn[s.use].n => (Sum' <=> Sum)
    BY <2>1 DEF Sum, Receives
  <2>6. Joined'
    <3>1. s'.use = c'.x /\ s'.cmd = c'.cmd /\ ~conn'[c'.x].sEnd BY <2>1
    <3>2. Going' => Sum' /\ ~conn'[c'.x].cEnd
      BY <1>2, <2>1, <2>4, <2>5 DEF OInv, Own, Joined
    <3>3. ASSUME c.pc \in {"gap", "final"}, ~c.aborted
          PROVE  IF Receives THEN c'.got = s'.moved /\ conn'[c'.x].cEnd
                 ELSE Sum' /\ (c'.got = FileSize \/ s'.pc \notin {"opened", "xfer"})
      <4>1. CASE Receives BY <1>2, <2>1, <3>3, <4>1 DEF OInv, Own, Joined
      <4>2. CASE ~Receives BY <1>2, <2>1, <2>5, <3>3, <4>2 DEF OInv, Own, Joined, Moving
      <4> QED BY <4>1, <4>2
    <3> QED BY <2>4, <3>1, <3>2, <3>3 DEF Joined
  <2>7. Judged' BY <1>2, <2>1 DEF OInv, Own, Judged
  <2>8. Received226' BY <1>2 DEF Received226, InXfer
  <2> QED BY <2>3, <2>6, <2>7, <2>8 DEF Own
<1> QED BY <1>1, <1>2

LEMMA SrvTransflagO == ASSUME OInv, SrvTransflag PROVE Own'
<1>1. /\ s \in Server0 /\ s.pc = "opened" /\ s' = [s EXCEPT !.pc = "xfer"] /\ UNCHANGED <<c, toS, toC, conn>>
  BY DEF SrvTransflag, clientside, OInv, FInv, Typed
<1>2. s'.pc = "xfer" /\ s'.cmd = s.cmd /\ s'.use = s.use /\ s'.moved = s.moved BY <1>1 DEF Server0
<1> QED BY <1>1, <1>2, MovesO DEF Moving

\* What is known while it is at one.
LEMMA AtXfer ==
  ASSUME OInv, s.pc = "xfer"
  PROVE  /\ s.use \in Xfers /\ Typed /\ s \in Server0 /\ conn[s.use].n \in Nat /\ s.moved \in Nat
         /\ Moving
         /\ InXfer => /\ s.use = c.x /\ (Sends <=> Receives) /\ c.got \in Nat
                      /\ Going \/ c.pc \in {"gap", "final"}
<1>1. FInv /\ Moving BY DEF OInv, Moving
<1>2. s.use \in Xfers BY <1>1, UseInXfers
<1>3. conn[s.use] \in Conn0 /\ s \in Server0 /\ c \in Client0 /\ Typed BY <1>1, <1>2 DEF FInv, Typed
<1>4. InXfer => s.use = c.x /\ s.cmd = c.cmd BY <1>1 DEF OInv, Own, Joined
<1>5. InXfer => Going \/ c.pc \in {"gap", "final"} BY <1>1, NotTold DEF Going, InXfer
<1> QED BY <1>1, <1>2, <1>3, <1>4, <1>5 DEF Conn0, Server0, Client0, Sends, Receives

LEMMA SrvSendO == ASSUME OInv, SrvSend PROVE Own'
<1>1. /\ s.pc = "xfer" /\ Sends /\ ~conn[s.use].cEnd /\ Fills(s.use)
      /\ s' = [s EXCEPT !.moved = @ + 1] /\ UNCHANGED <<c, toS, toC>>
  BY DEF SrvSend, Fills, clientside
<1>2. s'.pc = "xfer" /\ s'.cmd = s.cmd /\ s'.use = s.use /\ s'.moved = s.moved + 1
  BY <1>1, AtXfer DEF Server0
<1>3. /\ conn'[s.use].n = conn[s.use].n + 1 /\ conn'[s.use].cEnd = conn[s.use].cEnd
      /\ conn'[s.use].sEnd = conn[s.use].sEnd
  BY <1>1, AtXfer, FillsFacts
<1>4. ASSUME InXfer PROVE (Going => Sum') /\ ~(c.pc \in {"gap", "final"} /\ ~c.aborted)
  <2>1. s.use = c.x /\ Receives /\ c.got \in Nat BY <1>1, <1>4, AtXfer
  <2>2. ~(c.pc \in {"gap", "final"} /\ ~c.aborted) BY <1>1, <2>1 DEF OInv, Own, Joined
  <2>3. Going => c.got + conn[c.x].n = s.moved BY <2>1 DEF OInv, Own, Joined, Sum
  <2>4. Going => c.got + (conn[c.x].n + 1) = s.moved + 1 BY <1>1, <2>1, <2>3, AtXfer
  <2>5. Going => Sum' BY <1>1, <1>2, <1>3, <2>1, <2>4 DEF Sum, Receives
  <2> QED BY <2>2, <2>5
<1> QED BY <1>1, <1>2, <1>3, <1>4, AtXfer, MovesO

LEMMA SrvReceiveO == ASSUME OInv, SrvReceive PROVE Own'
<1>1. /\ s.pc = "xfer" /\ ~Sends /\ conn[s.use].n > 0 /\ Empties(s.use)
      /\ s' = [s EXCEPT !.moved = @ + 1] /\ UNCHANGED <<c, toS, toC>>
  BY DEF SrvReceive, Empties, clientside
<1>2. s'.pc = "xfer" /\ s'.cmd = s.cmd /\ s'.use = s.use /\ s'.moved = s.moved + 1
  BY <1>1, AtXfer DEF Server0
<1>3. /\ conn'[s.use].n = conn[s.use].n - 1 /\ conn'[s.use].cEnd = conn[s.use].cEnd
      /\ conn'[s.use].sEnd = conn[s.use].sEnd
  BY <1>1, AtXfer, EmptiesFacts
<1>4. ASSUME InXfer, Going \/ (c.pc \in {"gap", "final"} /\ ~c.aborted) PROVE Sum' /\ ~Receives
  <2>1. s.use = c.x /\ ~Receives /\ c.got \in Nat BY <1>1, <1>4, AtXfer
  <2>3. s.moved + conn[c.x].n = c.got BY <1>4, <2>1 DEF OInv, Own, Joined, Sum
  <2>4. (s.moved + 1) + (conn[c.x].n - 1) = c.got BY <1>1, <2>1, <2>3, AtXfer
  <2>5. Sum' BY <1>1, <1>2, <1>3, <2>1, <2>4 DEF Sum, Receives
  <2> QED BY <2>1, <2>5
<1> QED BY <1>1, <1>2, <1>3, <1>4, AtXfer, MovesO

\* 226: a server that sends has sent all; one that receives has all of what a
\* client sent that closed the connection.
LEMMA SrvEndsO == ASSUME OInv, NEW code \in Ends, SrvEnds(code) PROVE Own'
<1>1. /\ s.pc = "xfer" /\ code \in Outcomes /\ s' = [s EXCEPT !.pc = "reply", !.say = code]
      /\ UNCHANGED <<c, toS, toC, conn>>
  BY DEF SrvEnds, clientside
<1>2. s'.pc = "reply" /\ s'.say = code /\ s'.cmd = s.cmd /\ s'.use = s.use /\ s'.moved = s.moved
  BY <1>1, AtXfer DEF Server0
<1>3. code = 226 => IF Sends THEN s.moved = FileSize ELSE conn[s.use].n = 0 /\ conn[s.use].cEnd
  BY <1>1 DEF Outcomes
<1>4. ASSUME InXfer, code = 226 PROVE Verdict
  <2>1. s.use = c.x /\ (Sends <=> Receives) /\ c.got \in Nat /\ (Going \/ c.pc \in {"gap", "final"})
    BY <1>1, <1>4, AtXfer
  <2>2. CASE Sends BY <1>3, <1>4, <2>2 DEF Verdict
  <2>3. CASE ~Sends
    <3>1. ~Receives /\ conn[c.x].n = 0 /\ conn[c.x].cEnd BY <1>3, <1>4, <2>1, <2>3
    <3>2. c.pc \in {"gap", "final"} BY <2>1, <3>1 DEF OInv, Own, Joined
    <3>3. CASE c.aborted BY <3>1, <3>3 DEF Verdict
    <3>4. CASE ~c.aborted
      <4>1. Sum /\ c.got = FileSize BY <1>1, <3>1, <3>2, <3>4 DEF OInv, Own, Joined
      <4>2. s.moved + conn[c.x].n = c.got BY <3>1, <4>1 DEF Sum
      <4>3. s.moved = FileSize BY <1>1, <3>1, <4>1, <4>2, AtXfer
      <4> QED BY <4>3 DEF Verdict
    <3> QED BY <3>3, <3>4
  <2> QED BY <2>2, <2>3
<1>5. Verdict' <=> Verdict BY <1>1, <1>2 DEF Verdict, Receives
<1> QED BY <1>1, <1>2, <1>4, <1>5, AtXfer, MovesO

\* A step that closes ends of the server and leaves the counts alone.
LEMMA RestsO ==
  ASSUME OInv, UNCHANGED <<c, toS>>, s'.pc \in {"idle", "close", "dead"},
         s'.pc = "idle" => s'.data = 0,
         s'.moved = s.moved, s'.pdata \in {s.pdata, 0}, s.pc # "dead",
         Doing(c.pc) => conn'[c.x].n = conn[c.x].n /\ conn'[c.x].cEnd = conn[c.x].cEnd,
         Fresh => s'.pc = "dead" \/ conn'[c.x].sEnd = conn[c.x].sEnd,
         c.pc = "start" => (Begun(toC') => Begun(toC)),
         InXfer /\ Told(toC') => Told(toC) \/ (s.pc = "reply" /\ s.say = 226)
  PROVE  Own'
<1>1. (Fresh' <=> Fresh) /\ (InXfer' <=> InXfer) /\ ~Moving' /\ (Going' => Going)
  BY DEF Fresh, InXfer, Moving, Going
<1>2. /\ Doing(c.pc) => (Sum' <=> Sum)
      /\ (Verdict' <=> Verdict) /\ (Receives' <=> Receives)
  BY DEF Sum, Verdict, Receives
<1>3. Fresh => Doing(c.pc) BY DEF Fresh, Doing
<1>4. Begins'
  <2>1. Fresh => Clean' BY <1>3 DEF OInv, Own, Begins, Clean, Unused
  <2>2. Fresh => c.x # 0 BY DEF OInv, FInv, Numbered, Fresh, Requesting
  <2> QED BY <1>1, <2>1, <2>2 DEF OInv, Own, Begins
<1>5. Joined'
  <2>1. Going => Doing(c.pc) BY DEF Going, Doing
  <2>2. c.pc \in {"gap", "final"} => Doing(c.pc) BY DEF Doing
  <2>3. Going' => Sum' /\ ~conn'[c'.x].cEnd BY <1>1, <1>2, <2>1 DEF OInv, Own, Joined
  <2>4. ASSUME c.pc \in {"gap", "final"}, ~c.aborted
        PROVE  IF Receives THEN c'.got = s'.moved /\ conn'[c'.x].cEnd ELSE Sum'
    BY <1>2, <2>2, <2>4 DEF OInv, Own, Joined
  <2> QED BY <1>1, <1>2, <2>3, <2>4 DEF Joined
<1>6. Judged' BY <1>1, <1>2 DEF OInv, Own, Judged
<1>7. Received226' BY <1>2 DEF OInv, Own, Received226
<1> QED BY <1>4, <1>5, <1>6, <1>7 DEF Own

LEMMA SrvReplyO == ASSUME OInv, SrvReply PROVE Own'
<1> DEFINE z == 0
<1>1. /\ s \in Server0 /\ s.pc = "reply" /\ s' = [s EXCEPT !.pc = "close", !.say = z] /\ s.say \in Int
      /\ toC' = Append(toC, s.say) /\ UNCHANGED <<c, toS, conn>>
  BY DEF SrvReply, Reply, clientside, OInv, FInv, Typed, Server0
<1> HIDE DEF z
<1>2. s'.pc = "close" /\ s'.moved = s.moved /\ s'.pdata = s.pdata BY <1>1 DEF Server0
<1>3. c.pc = "start" => Begun(toC)
  <2>1. Moving BY <1>1 DEF Moving
  <2> QED BY <2>1, NotTold DEF InXfer
<1>4. Told(toC') => Told(toC) \/ s.say = 226 BY <1>1, ToldAppend DEF OInv
<1> QED BY <1>1, <1>2, <1>3, <1>4, RestsO

LEMMA SrvCloseO == ASSUME OInv, SrvClose PROVE Own'
<1> DEFINE z == 0
<1>1. /\ s \in Server0 /\ s.pc = "close" /\ FInv
      /\ s' = [s EXCEPT !.pc = "idle", !.data = z, !.pdata = z, !.use = z]
      /\ conn' = ClosesEnd(s.use) /\ UNCHANGED <<c, toS, toC>>
  BY DEF SrvClose, clientside, OInv, FInv, Typed
<1> HIDE DEF z
<1>2. s'.pc = "idle" /\ s'.data = z /\ s'.pdata = z /\ s'.moved = s.moved BY <1>1 DEF Server0
<1>3. s.use \in 0 .. xfers BY <1>1 DEF FInv, Numbered
<1>4. Doing(c.pc) => c.x \in Xfers BY <1>1, InXfers DEF FInv, Numbered, Requesting, Doing
<1>5. Others(s.use) /\ \A y \in Xfers : conn'[y].n = conn[y].n /\ conn'[y].cEnd = conn[y].cEnd
  BY <1>1, <1>3, ClosesEndFacts
<1>6. Fresh => conn'[c.x].sEnd = conn[c.x].sEnd
  <2>1. Fresh => s.use # c.x /\ Doing(c.pc) BY <1>1 DEF FInv, Numbered, Fresh, Doing
  <2> QED BY <1>4, <1>5, <2>1 DEF Others
<1> QED BY <1>1, <1>2, <1>4, <1>5, <1>6, RestsO DEF z

\* Urgent data: nothing but the abort of the transfer is under way.
LEMMA SrvOobO == ASSUME OInv, "NLST" \notin Cmds, SrvOob PROVE Own'
<1>1. urg /\ UNCHANGED <<c, conn>> /\ toS # <<>> /\ s \in Server0
  BY DEF SrvOob, clientside, OInv, FInv, Urgent, Typed
<1>2. CASE s.pc = "xfer"
  <2>1. c.pc \in Places /\ Awaits(c.pc, c.cmd, c.x, "xfer", toS, toC)
    BY <1>2 DEF OInv, FInv, Typed, Dialogue, Client0
  <2>2. c.pc \in {"select", "drain", "abor1", "lost", "spin", "crash"} BY <1>1, <2>1, OobStep
  <2>3. s.cmd # "NLST" BY <1>1 DEF Server0, Names
  <2>4. s'.pc = "close" BY <1>1, <1>2, <2>3 DEF SrvOob, Server0
  <2> QED BY <1>1, <2>2, <2>4, Elsewhere DEF Doing
<1>3. CASE s.pc # "xfer"
  <2>1. UNCHANGED <<s, toS, toC>> BY <1>3 DEF SrvOob
  <2> QED BY <1>1, <2>1, Keeps DEF OInv
<1> QED BY <1>2, <1>3

LEMMA SrvDiesO == ASSUME OInv, NEW says \in BOOLEAN, SrvDies(says) PROVE Own'
<1>1. /\ s \in Server0 /\ s.pc # "dead" /\ s' = [s EXCEPT !.pc = "dead"] /\ FInv /\ Typed
      /\ UNCHANGED <<c, toS>> /\ toC' \in {toC, Append(toC, 421)}
      /\ conn' = [x \in Xfers |-> [conn[x] EXCEPT !.sEnd = TRUE]]
  BY DEF SrvDies, Reply, clientside, OInv, FInv, Typed
<1>2. s'.pc = "dead" /\ s'.pdata = s.pdata /\ s'.moved = s.moved BY <1>1 DEF Server0
<1>3. Doing(c.pc) => c.x \in Xfers BY <1>1, InXfers DEF FInv, Numbered, Requesting, Doing
<1>4. ASSUME NEW y \in Xfers PROVE conn'[y].n = conn[y].n /\ conn'[y].cEnd = conn[y].cEnd
  <2>1. conn'[y] = [conn[y] EXCEPT !.sEnd = TRUE] /\ conn[y] \in Conn0 BY <1>1 DEF Typed
  <2> QED BY <2>1 DEF Conn0
<1>5. (Begun(toC') => Begun(toC)) /\ (Told(toC') => Told(toC))
  <2> DEFINE k == 421
  <2>1. k \in Int /\ k # 226 /\ k \notin {125, 150} /\ toC' \in {toC, Append(toC, k)} BY <1>1
  <2>2. toC \in Seq(Int) BY DEF OInv
  <2> HIDE DEF k
  <2>3. CASE toC' = toC BY <2>3
  <2>4. CASE toC' = Append(toC, k)
    <3>1. Told(Append(toC, k)) => Told(toC) BY <2>1, <2>2, ToldAppend
    <3>2. Begun(Append(toC, k)) => Begun(toC) BY <2>1, <2>2, BegunAppend
    <3> QED BY <2>4, <3>1, <3>2
  <2> QED BY <2>1, <2>3, <2>4
<1> QED BY <1>1, <1>2, <1>3, <1>4, <1>5, RestsO

-----------------------------------------------------------------------------
(* Whole files over connections of their own.                              *)

LEMMA RepliesTyped == ASSUME OInv, Next PROVE toC' \in Seq(Int)
<1>1. toC \in Seq(Int) /\ s.say \in Int BY DEF OInv, FInv, Typed, Server0
<1>2. \A k \in Int : Append(toC, k) \in Seq(Int) BY <1>1
<1>3. toC # <<>> => Tail(toC) \in Seq(Int) BY <1>1
<1>4. toC \o <<426, 226>> \in Seq(Int)
  <2>1. <<426, 226>> \in Seq(Int) OBVIOUS
  <2> QED BY <1>1, <2>1
<1>5. CASE User BY <1>1, <1>5 DEF User, Noop, Interrupt, Request
<1>6. CASE Client
  <2>1. CASE NoopReply \/ InitReply \/ StartReply \/ FinalReply \/ AborReply1 \/ AborReply2 \/ SabortReply
    <3>1. toC # <<>> /\ toC' = Tail(toC)
      BY <2>1 DEF NoopReply, InitReply, StartReply, FinalReply, AborReply1, AborReply2, SabortReply,
                  CanAnswer, CanRead, Getreply
    <3> QED BY <1>3, <3>1
  <2>2. CASE LostPeer \/ SendStart \/ Accept \/ RecvUnit \/ SendUnit \/ DataDone \/ CallGetreply
             \/ SelectReady \/ SelectTimeout \/ Drain
    <3>1. toC' = toC
      BY <2>2 DEF LostPeer, SendStart, Accept, RecvUnit, SendUnit, DataDone, CloseLocal, CallGetreply,
                  SelectReady, SelectTimeout, Drain
    <3> QED BY <1>1, <3>1
  <2> QED BY <1>6, <2>1, <2>2 DEF Client
<1>7. CASE Server \/ Faults
  <2>1. CASE SrvNoop \/ SrvPort \/ SrvNoFile \/ SrvDataconn \/ SrvNoDataconn
    <3>1. \E k \in {125, 150, 200, 225, 425, 550} : toC' = Append(toC, k)
      BY <2>1 DEF SrvNoop, SrvPort, SrvNoFile, SrvDataconn, SrvNoDataconn, Reply
    <3> QED BY <1>2, <3>1
  <2>2. CASE \E b \in BOOLEAN : SrvPasv(b)
    <3>1. \E k \in {227, 425} : toC' = Append(toC, k) BY <2>2 DEF SrvPasv, Reply
    <3> QED BY <1>2, <3>1
  <2>3. CASE \E b \in BOOLEAN : SrvDies(b)
    <3>1. toC' = toC \/ toC' = Append(toC, 421) BY <2>3 DEF SrvDies, Reply
    <3> QED BY <1>1, <1>2, <3>1
  <2>4. CASE SrvReply BY <1>1, <1>2, <2>4 DEF SrvReply, Reply
  <2>5. CASE \/ SrvOpenFile \/ SrvTransflag \/ SrvSend \/ SrvReceive \/ SrvClose \/ AcceptFails
             \/ OpenFails \/ LocalError \/ CloseFails \/ (\E code : SrvEnds(code))
    <3>1. toC' = toC
      BY <2>5 DEF SrvOpenFile, SrvTransflag, SrvSend, SrvReceive, SrvClose, AcceptFails, OpenFails,
                  LocalError, CloseFails, CloseLocal, SrvEnds
    <3> QED BY <1>1, <3>1
  <2>6. Server => \/ SrvNoop \/ SrvPort \/ SrvDataconn \/ (\E b \in BOOLEAN : SrvPasv(b)) \/ SrvReply
                  \/ SrvOpenFile \/ SrvTransflag \/ SrvSend \/ SrvReceive \/ SrvClose
                  \/ (\E code : SrvEnds(code))
    BY Zenon DEF Server
  <2>7. Faults => \/ SrvNoFile \/ SrvNoDataconn \/ (\E b \in BOOLEAN : SrvPasv(b) \/ SrvDies(b))
                  \/ AcceptFails \/ OpenFails \/ LocalError \/ CloseFails \/ (\E code : SrvEnds(code))
    BY Zenon DEF Faults
  <2> QED BY <1>7, <2>1, <2>2, <2>3, <2>4, <2>5, <2>6, <2>7, Zenon
<1>8. CASE SrvOob BY <1>1, <1>4, <1>8 DEF SrvOob
<1> QED BY <1>5, <1>6, <1>7, <1>8 DEF Next

LEMMA InitO == Init => OInv
<1> SUFFICES ASSUME Init PROVE OInv OBVIOUS
<1>1. FInv BY InitF
<1>2. c.pc = "prompt" /\ c.code = 0 /\ s.data = 0 /\ toC = <<>> BY DEF Init
<1>3. toC \in Seq(Int) BY <1>2
<1>4. Own
  BY <1>2 DEF Own, Begins, Joined, Judged, Received226, Fresh, InXfer, Going
<1> QED BY <1>1, <1>3, <1>4 DEF OInv

LEMMA StepO == ASSUME OInv, ~GapIntr, "NLST" \notin Cmds, Next PROVE Own'
<1>1. \A code \in {226, 426, 452, 551} : SrvEnds(code) => Own' BY SrvEndsO DEF Ends
<1>2. \A b \in BOOLEAN : (SrvPasv(b) => Own') /\ (SrvDies(b) => Own') BY SrvPasvO, SrvDiesO
<1>3. (DataDone => Own') /\ (LocalError => Own') /\ (CloseFails => Own')
  BY CloseLocalO DEF DataDone, LocalError, CloseFails
<1>4. CASE User BY <1>4, ClientLeavesO, InterruptO, RequestO DEF User
<1>5. CASE Client
  BY <1>3, <1>5, ClientLeavesO, InitReplyO, SendStartO, StartReplyO, AcceptO, RecvUnitO, SendUnitO,
     CallGetreplyO, FinalReplyO
     DEF Client
<1>6. CASE Server
  <2>1. CASE \E code \in {226, 426} : SrvEnds(code)
    <3>1. PICK code \in {226, 426} : SrvEnds(code) BY <2>1
    <3> QED BY <3>1, <1>1
  <2>2. CASE SrvPasv(TRUE) BY <2>2, <1>2
  <2>3. CASE SrvNoop \/ SrvPort \/ SrvOpenFile \/ SrvDataconn \/ SrvTransflag
    BY <2>3, SrvNoopO, SrvPortO, SrvOpenFileO, SrvDataconnO, SrvTransflagO
  <2>4. CASE SrvSend \/ SrvReceive \/ SrvReply \/ SrvClose
    BY <2>4, SrvSendO, SrvReceiveO, SrvReplyO, SrvCloseO
  <2> QED BY <1>6, <2>1, <2>2, <2>3, <2>4, Zenon DEF Server
<1>7. CASE SrvOob BY <1>7, SrvOobO
<1>8. CASE Faults
  <2>1. CASE \E code \in {551, 452} : SrvEnds(code)
    <3>1. PICK code \in {551, 452} : SrvEnds(code) BY <2>1
    <3> QED BY <3>1, <1>1
  <2>2. CASE SrvPasv(FALSE) BY <2>2, <1>2
  <2>3. CASE \E says \in BOOLEAN : SrvDies(says)
    <3>1. PICK says \in BOOLEAN : SrvDies(says) BY <2>3
    <3> QED BY <3>1, <1>2
  <2>4. CASE LocalError \/ CloseFails BY <2>4, <1>3
  <2>5. CASE OpenFails
    <3>1. s' = s /\ AbortXfer(c) /\ c \in Client0 BY <2>5 DEF OpenFails, OInv, FInv, Typed
    <3> QED BY <3>1, AbortXferO
  <2>6. CASE AcceptFails BY <2>6, ClientLeavesO
  <2>7. CASE SrvNoFile \/ SrvNoDataconn BY <2>7, SrvNoFileO, SrvNoDataconnO
  <2>8. \/ AcceptFails \/ OpenFails \/ SrvNoFile \/ SrvNoDataconn \/ LocalError \/ CloseFails \/ SrvPasv(FALSE)
        \/ \E code \in {551, 452} : SrvEnds(code)
        \/ \E says \in BOOLEAN : SrvDies(says)
    BY <1>8, Zenon DEF Faults
  <2> QED BY <2>1, <2>2, <2>3, <2>4, <2>5, <2>6, <2>7, <2>8, Zenon
<1> QED BY <1>4, <1>5, <1>6, <1>7, <1>8 DEF Next

LEMMA NextO == ASSUME OInv, ~GapIntr, "NLST" \notin Cmds, [Next]_vars PROVE OInv'
<1>1. FInv' BY NextF DEF OInv
<1>2. CASE UNCHANGED vars
  <2>1. UNCHANGED <<c, s, toS, toC, conn>> BY <1>2 DEF vars
  <2>2. Own' BY <2>1, Keeps DEF OInv
  <2> QED BY <1>1, <2>1, <2>2 DEF OInv
<1>3. CASE Next BY <1>1, <1>3, StepO, RepliesTyped DEF OInv
<1> QED BY <1>2, <1>3

\* 226 for a transfer that was not aborted means that the receiver has all of
\* the file, for files and connections of any size: neither recvrequest()'s end
\* of data nor receive_data()'s is taken for the end of the file unless the
\* other end has said so or has closed after the last of it.  The last buffer of
\* a file received in ASCII mode is excepted.  NLST is left out:
\* the longjmp() out of send_file_list() keeps its connection open.
THEOREM Complete226Correct == ASSUME ~GapIntr, "NLST" \notin Cmds PROVE Spec => []Complete226
<1>1. OInv => Complete226 BY DEF OInv, Own, Received226, Complete226, Stored
<1>2. OInv /\ [Next]_vars => OInv' BY NextO
<1> QED BY <1>1, <1>2, InitO, PTL DEF Spec

\* Client and server use the connection made for the transfer in hand, whatever
\* earlier transfers, aborted or failed, have left in data, pdata and usedefault.
THEOREM OwnConnectionCorrect == ASSUME ~GapIntr, "NLST" \notin Cmds PROVE Spec => []OwnConnection
<1>1. OInv => OwnConnection BY DEF OInv, Own, Joined, OwnConnection, InXfer, Moving
<1>2. OInv /\ [Next]_vars => OInv' BY NextO
<1> QED BY <1>1, <1>2, InitO, PTL DEF Spec
=============================================================================
