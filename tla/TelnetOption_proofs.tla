------------------------- MODULE TelnetOption_proofs -------------------------
(***************************************************************************)
(* Proofs about TelnetOption, for any number of requests of either end,    *)
(* crossing in any way.                                                    *)
(***************************************************************************)
EXTENDS TelnetOption, TLAPS

\* An end waits for one answer more than it has sent requests, at most.
RespOK == \A e \in Ends : resp[e] <= asked[e] + 1

\* Each message of s says the opposite of the one before; a was the last one
\* before s, and b is what the last one says.
Alt(s, a, b) ==
    IF s = <<>> THEN a = b
    ELSE /\ s[1] # a /\ s[Len(s)] = b
         /\ \A i \in 1 .. Len(s) - 1 : s[i + 1] # s[i]

\* So it is with what an end has received last, what is on its way to it, and
\* what the other end wants.
Alternates(e) == Alt(chan[e], state[e], want[Peer(e)])

\* An end that waits for no answer has what it wants.
AtRest(e) == resp[e] = 0 => want[e] = state[e]

\* There are no more answers expected than messages on their way.
InFlight == resp["will"] + resp["do"] <= Len(chan["will"]) + Len(chan["do"])

\* The types without the bounds on resp and asked.
WeakType ==
    /\ state \in [Ends -> BOOLEAN] /\ want \in [Ends -> BOOLEAN]
    /\ resp \in [Ends -> Nat] /\ chan \in [Ends -> Seq(BOOLEAN)]

BothOK == kind = "both" => (\A e \in Ends : Alternates(e) /\ AtRest(e)) /\ InFlight

IInv == WeakType /\ BothOK

\* Sequences, of whatever elements.
LEMMA SeqFacts ==
  ASSUME NEW S, NEW s \in Seq(S), NEW t \in Seq(S)
  PROVE  s \o t \in Seq(S) /\ (s # <<>> => Tail(s) \in Seq(S))
  OBVIOUS

LEMMA AltAppend ==
  ASSUME NEW S, NEW s \in Seq(S), NEW a, NEW b, NEW c \in S, Alt(s, a, b), c # b
  PROVE  Alt(s \o <<c>>, a, c)
  BY DEF Alt

LEMMA AltTail ==
  ASSUME NEW S, NEW s \in Seq(S), NEW a, NEW b, Alt(s, a, b), s # <<>>
  PROVE  Alt(Tail(s), s[1], b)
<1> DEFINE t == Tail(s)
<1>1. t \in Seq(S) /\ Len(t) = Len(s) - 1 /\ \A i \in 1 .. Len(t) : t[i] = s[i + 1]
  OBVIOUS
<1> HIDE DEF t
<1>2. CASE t = <<>>
  <2>1. Len(s) = 1 BY <1>1, <1>2
  <2> QED BY <2>1, <1>2 DEF Alt, t
<1>3. CASE t # <<>>
  <2>1. Len(t) > 0 BY <1>1, <1>3
  <2>2. t[1] # s[1] /\ t[Len(t)] = b BY <1>1, <2>1 DEF Alt
  <2>3. \A i \in 1 .. Len(t) - 1 : t[i + 1] # t[i] BY <1>1, <2>1 DEF Alt
  <2> QED BY <1>3, <2>2, <2>3 DEF Alt, t
<1> QED BY <1>2, <1>3

LEMMA Ends2 == \A e \in Ends : Peer(e) \in Ends /\ Peer(Peer(e)) = e /\ Peer(e) # e
  BY DEF Ends, Peer

\* What the request functions do with an end.
LEMMA SendType ==
  ASSUME WeakType, NEW e \in Ends, NEW new \in BOOLEAN
  PROVE  LET x == Send(End(e), new)
         IN  \/ x.out = <<>>
             \/ /\ x.state = state[e] /\ x.want = new /\ x.resp = resp[e] + 1
                /\ x.out = <<new>> /\ want[e] # new
  BY DEF Send, End, WeakType

\* The answers expected after one has come.
LEMMA AnsweredType ==
  ASSUME WeakType, NEW e \in Ends, NEW new \in BOOLEAN
  PROVE  /\ Answered(End(e), new) \in Nat /\ Answered(End(e), new) <= resp[e]
         /\ resp[e] > 0 => Answered(End(e), new) < resp[e]
         /\ state[e] # new => Answered(End(e), new) = IF resp[e] > 0 THEN resp[e] - 1 ELSE 0
<1>1. resp[e] \in Nat BY DEF WeakType
<1>2. End(e).resp = resp[e] /\ End(e).state = state[e] BY DEF End
<1> QED BY <1>1, <1>2 DEF Answered

\* What the handlers make of an end, case by case.
LEMMA HandledCases ==
  ASSUME WeakType, NEW e \in Ends, NEW new \in BOOLEAN
  PROVE  LET r == Answered(End(e), new)
             X(w, n, out) == Handled(e, End(e), new) =
                               [state |-> new, want |-> w, resp |-> n, out |-> out]
         IN  \/ r > 0 /\ X(want[e], r, <<>>)
             \/ r = 0 /\ ~want[e] /\ new /\ Accepts(e) /\ X(TRUE, 0, <<TRUE>>)
             \/ r = 0 /\ ~want[e] /\ new /\ ~Accepts(e) /\ X(want[e], 1, <<FALSE>>)
             \/ r = 0 /\ want[e] /\ ~new /\ state[e] /\ X(FALSE, 0, <<FALSE>>)
             \/ r = 0 /\ want[e] /\ ~new /\ ~state[e] /\ X(FALSE, 0, <<>>)
             \/ /\ r = 0 /\ want[e] /\ new /\ state[e] /\ kind = "echo" /\ e = "do"
                /\ X(FALSE, 1, <<FALSE>>)
             \/ r = 0 /\ want[e] = new /\ X(want[e], 0, <<>>)
<1> DEFINE r == Answered(End(e), new)
           y == [state |-> state[e], want |-> want[e], resp |-> r, out |-> <<>>]
           H == Handled(e, End(e), new)
<1>1. r \in Nat BY AnsweredType
<1>2. want[e] \in BOOLEAN /\ state[e] \in BOOLEAN BY DEF WeakType
<1>3. [End(e) EXCEPT !.resp = Answered(End(e), new)] = y BY DEF End
<1>4. H = LET z == IF y.resp > 0 THEN y
                   ELSE IF ~y.want /\ new
                        THEN IF Accepts(e) THEN [y EXCEPT !.want = TRUE, !.out = <<TRUE>>]
                                           ELSE [y EXCEPT !.resp = 1, !.out = <<FALSE>>]
                   ELSE IF y.want /\ ~new
                        THEN [y EXCEPT !.want = FALSE, !.out = IF y.state THEN <<FALSE>> ELSE <<>>]
                   ELSE IF y.want /\ kind = "echo" /\ e = "do" THEN Send(y, FALSE) ELSE y
          IN  [z EXCEPT !.state = new]
  BY <1>3, Zenon DEF Handled
<1>5. /\ y.resp = r /\ y.want = want[e] /\ y.state = state[e] /\ y.out = <<>>
  OBVIOUS
<1>10. Append(<< >>, FALSE) = <<FALSE>> OBVIOUS
<1> HIDE DEF r, H, y
<1>8. ~(0 > 0) OBVIOUS
<1>6. CASE r > 0
  <2>1. H = [y EXCEPT !.state = new] BY <1>4, <1>5, <1>6, Zenon
  <2> QED BY <2>1, <1>6 DEF r, H, y
<1>7. CASE r = 0
  <2>1. CASE ~want[e] /\ new /\ Accepts(e)
    <3>1. H = [[y EXCEPT !.want = TRUE, !.out = <<TRUE>>] EXCEPT !.state = new]
      BY <1>4, <1>5, <1>7, <1>8, <2>1, Zenon
    <3>2. H = [state |-> new, want |-> TRUE, resp |-> 0, out |-> <<TRUE>>]
      BY <3>1, <1>7 DEF y
    <3> QED BY <3>2, <1>7, <2>1 DEF r, H
  <2>2. CASE ~want[e] /\ new /\ ~Accepts(e)
    <3>1. H = [[y EXCEPT !.resp = 1, !.out = <<FALSE>>] EXCEPT !.state = new]
      BY <1>4, <1>5, <1>7, <1>8, <2>2, Zenon
    <3>2. H = [state |-> new, want |-> want[e], resp |-> 1, out |-> <<FALSE>>]
      BY <3>1, <1>7 DEF y
    <3> QED BY <3>2, <1>7, <2>2 DEF r, H
  <2>3. CASE want[e] /\ ~new
    <3>1. H = [[y EXCEPT !.want = FALSE, !.out = IF state[e] THEN <<FALSE>> ELSE <<>>]
                 EXCEPT !.state = new]
      BY <1>4, <1>5, <1>7, <1>8, <2>3, Zenon
    <3>2. H = [state |-> new, want |-> FALSE, resp |-> 0,
               out |-> IF state[e] THEN <<FALSE>> ELSE <<>>]
      BY <3>1, <1>7 DEF y
    <3> QED BY <3>2, <1>2, <1>7, <2>3 DEF r, H
  <2>4. CASE want[e] /\ new /\ kind = "echo" /\ e = "do"
    <3>1. H = [Send(y, FALSE) EXCEPT !.state = new]
      BY <1>4, <1>5, <1>7, <1>8, <2>4, Zenon
    <3>2. CASE state[e]
      <4>1. Send(y, FALSE) = [y EXCEPT !.want = FALSE, !.resp = y.resp + 1, !.out = <<FALSE>>]
        BY <3>2, <1>2, <1>5, <1>10, <2>4, Zenon DEF Send
      <4>3. H = [[y EXCEPT !.want = FALSE, !.resp = y.resp + 1, !.out = <<FALSE>>]
                   EXCEPT !.state = new]
        BY <3>1, <4>1, Zenon
      <4>4. y.resp + 1 = 1 BY <1>5, <1>7
      <4>2. H = [state |-> new, want |-> FALSE, resp |-> 1, out |-> <<FALSE>>]
        BY <4>3, <4>4 DEF y
      <4> QED BY <3>2, <4>2, <1>7, <2>4 DEF r, H
    <3>3. CASE ~state[e]
      <4>1. Send(y, FALSE) = y BY <3>3, <1>2, <1>5, <1>7, <2>4, Zenon DEF Send
      <4>4. H = [y EXCEPT !.state = new] BY <3>1, <4>1, Zenon
      <4>2. H = [state |-> new, want |-> want[e], resp |-> 0, out |-> <<>>]
        BY <4>4, <1>7 DEF y
      <4>3. want[e] = new BY <2>4, <1>2
      <4> QED BY <4>3, <4>2, <1>7, <2>4 DEF r, H
    <3> QED BY <3>2, <3>3
  <2>5. CASE want[e] = new /\ ~(want[e] /\ new /\ kind = "echo" /\ e = "do")
    <3>1. H = [y EXCEPT !.state = new] BY <1>4, <1>5, <1>2, <1>7, <1>8, <2>5, Zenon
    <3>2. H = [state |-> new, want |-> want[e], resp |-> 0, out |-> <<>>]
      BY <3>1, <1>7 DEF y
    <3> QED BY <3>2, <1>7, <2>5 DEF r, H
  <2>6. want[e] = new \/ (~want[e] /\ new) \/ (want[e] /\ ~new) BY <1>2
  <2> QED BY <2>1, <2>2, <2>3, <2>4, <2>5, <2>6, Zenon
<1>9. r > 0 \/ r = 0 BY <1>1
<1> QED BY <1>9, <1>6, <1>7, Zenon

\* What is left of an end, whatever the option.
LEMMA HandledType ==
  ASSUME WeakType, NEW e \in Ends, NEW new \in BOOLEAN
  PROVE  LET x == Handled(e, End(e), new)
         IN  /\ x.state = new /\ x.want \in BOOLEAN /\ x.resp \in Nat
             /\ x.resp <= resp[e] \/ x.resp = 1
             /\ x.out \in Seq(BOOLEAN)
<1> DEFINE x == Handled(e, End(e), new)
           r == Answered(End(e), new)
<1>1. r \in Nat /\ r <= resp[e] /\ resp[e] \in Nat BY AnsweredType DEF WeakType
<1>2. want[e] \in BOOLEAN BY DEF WeakType
<1>3. <<>> \in Seq(BOOLEAN) /\ <<TRUE>> \in Seq(BOOLEAN) /\ <<FALSE>> \in Seq(BOOLEAN)
  OBVIOUS
<1>4. \E w \in BOOLEAN, n \in {r, 0, 1}, out \in {<<>>, <<TRUE>>, <<FALSE>>} :
        x = [state |-> new, want |-> w, resp |-> n, out |-> out]
  BY HandledCases, <1>2
<1> HIDE DEF x, r
<1>5. PICK w \in BOOLEAN, n \in {r, 0, 1}, out \in {<<>>, <<TRUE>>, <<FALSE>>} :
        x = [state |-> new, want |-> w, resp |-> n, out |-> out]
  BY <1>4
<1>6. x.state = new /\ x.want = w /\ x.resp = n /\ x.out = out BY <1>5
<1>7. n \in Nat /\ (n <= resp[e] \/ n = 1) BY <1>1
<1>8. out \in Seq(BOOLEAN) BY <1>3
<1> QED BY <1>6, <1>7, <1>8 DEF x

\* For an option that both accept, when the message is news: it is a request,
\* answered in kind, or an answer, and there is one less to wait for.
LEMMA HandledBoth ==
  ASSUME WeakType, kind = "both", NEW e \in Ends, NEW new \in BOOLEAN,
         new # state[e], AtRest(e)
  PROVE  LET x == Handled(e, End(e), new)
         IN  \/ /\ x.out = <<new>> /\ x.want = new /\ want[e] # new
                /\ x.resp = 0 /\ resp[e] \in {0, 1}
             \/ /\ x.out = <<>> /\ x.want = want[e] /\ resp[e] > 0 /\ x.resp = resp[e] - 1
                /\ x.resp = 0 => want[e] = new
<1> DEFINE x == Handled(e, End(e), new)
           r == Answered(End(e), new)
           X(w, n, out) == x = [state |-> new, want |-> w, resp |-> n, out |-> out]
<1>1. r = IF resp[e] > 0 THEN resp[e] - 1 ELSE 0 BY AnsweredType
<1>2. resp[e] \in Nat /\ want[e] \in BOOLEAN /\ state[e] \in BOOLEAN BY DEF WeakType
<1>3. Accepts(e) BY DEF Accepts
<1>4. resp[e] = 0 => want[e] # new BY <1>2 DEF AtRest
<1>5. \/ r > 0 /\ X(want[e], r, <<>>)
      \/ r = 0 /\ want[e] # new /\ X(new, 0, <<new>>)
      \/ r = 0 /\ want[e] = new /\ X(want[e], 0, <<>>)
  <2>1. new = TRUE \/ new = FALSE OBVIOUS
  <2>2. want[e] = TRUE \/ want[e] = FALSE BY <1>2
  <2>3. state[e] = TRUE \/ state[e] = FALSE BY <1>2
  <2>4. kind # "echo" OBVIOUS
  <2> QED BY HandledCases, <1>3, <2>1, <2>2, <2>3, <2>4
<1> HIDE DEF x, r
<1>6. CASE r > 0 /\ X(want[e], r, <<>>)
  <2>1. x.out = <<>> /\ x.want = want[e] /\ x.resp = r BY <1>6
  <2> QED BY <2>1, <1>1, <1>2, <1>6 DEF x
<1>7. CASE r = 0 /\ want[e] # new /\ X(new, 0, <<new>>)
  <2>1. x.out = <<new>> /\ x.want = new /\ x.resp = 0 BY <1>7
  <2>2. resp[e] \in {0, 1} BY <1>1, <1>2, <1>7
  <2> QED BY <2>1, <2>2, <1>7 DEF x
<1>8. CASE r = 0 /\ want[e] = new /\ X(want[e], 0, <<>>)
  <2>1. x.out = <<>> /\ x.want = want[e] /\ x.resp = 0 BY <1>8
  <2>2. resp[e] = 1 BY <1>1, <1>2, <1>4, <1>8
  <2> QED BY <2>1, <2>2, <1>8 DEF x
<1> QED BY <1>5, <1>6, <1>7, <1>8

-----------------------------------------------------------------------------
(* The invariant.                                                          *)

\* What a request does.
LEMMA AskFacts ==
  ASSUME WeakType, NEW e \in Ends, NEW new \in BOOLEAN, Ask(e, new)
  PROVE  /\ want[e] # new /\ want' = [want EXCEPT ![e] = new]
         /\ state' = state /\ resp' = [resp EXCEPT ![e] = resp[e] + 1]
         /\ chan' = [chan EXCEPT ![Peer(e)] = @ \o <<new>>]
         /\ kind' = kind /\ asked' = [asked EXCEPT ![e] = @ + 1] /\ asked[e] < MaxRequests
<1> DEFINE x == Send(End(e), new)
<1>1. x.state = state[e] /\ x.want = new /\ x.resp = resp[e] + 1 /\ x.out = <<new>> /\ want[e] # new
  BY SendType DEF Ask
<1>2. state' = [state EXCEPT ![e] = state[e]] BY <1>1 DEF Ask, Update
<1>3. state' = state BY <1>2 DEF WeakType
<1> QED BY <1>1, <1>3 DEF Ask, Update

\* What a handler does, with x what it makes of the end.
LEMMA ReceiveFacts ==
  ASSUME WeakType, NEW e \in Ends, Receive(e)
  PROVE  LET x == Handled(e, End(e), chan[e][1])
         IN  /\ chan[e] # <<>> /\ chan[e][1] \in BOOLEAN
             /\ state' = [state EXCEPT ![e] = chan[e][1]]
             /\ want' = [want EXCEPT ![e] = x.want] /\ resp' = [resp EXCEPT ![e] = x.resp]
             /\ chan' = [chan EXCEPT ![e] = Tail(@), ![Peer(e)] = @ \o x.out]
             /\ UNCHANGED <<kind, asked>>
<1>1. chan[e] # <<>> /\ chan[e] \in Seq(BOOLEAN) BY DEF Receive, WeakType
<1>2. Head(chan[e]) = chan[e][1] /\ chan[e][1] \in BOOLEAN BY <1>1
<1>3. Handled(e, End(e), chan[e][1]).state = chan[e][1] BY <1>2, HandledType
<1> QED BY <1>1, <1>2, <1>3, Zenon DEF Receive, Update

LEMMA WeakTypeStep == WeakType /\ [Next]_vars => WeakType'
<1> SUFFICES ASSUME WeakType, [Next]_vars PROVE WeakType' OBVIOUS
<1>1. ASSUME NEW e \in Ends, Receive(e) PROVE WeakType'
  <2> DEFINE x == Handled(e, End(e), chan[e][1])
  <2>1. x.want \in BOOLEAN /\ x.resp \in Nat /\ x.out \in Seq(BOOLEAN)
    BY <1>1, ReceiveFacts, HandledType
  <2> HIDE DEF x
  <2>2. chan' = [chan EXCEPT ![e] = Tail(@), ![Peer(e)] = @ \o x.out]
    BY <1>1, ReceiveFacts DEF x
  <2>3. Peer(e) \in Ends /\ Peer(e) # e BY Ends2
  <2>4. chan[e] # <<>> /\ chan[e] \in Seq(BOOLEAN) /\ chan[Peer(e)] \in Seq(BOOLEAN)
    BY <1>1, <2>3 DEF WeakType, Receive
  <2>5. Tail(chan[e]) \in Seq(BOOLEAN) /\ chan[Peer(e)] \o x.out \in Seq(BOOLEAN)
    BY <2>1, <2>4, SeqFacts, Zenon
  <2>6. chan' \in [Ends -> Seq(BOOLEAN)] BY <2>2, <2>3, <2>5 DEF WeakType
  <2>7. /\ state' = [state EXCEPT ![e] = chan[e][1]] /\ chan[e][1] \in BOOLEAN
        /\ want' = [want EXCEPT ![e] = x.want] /\ resp' = [resp EXCEPT ![e] = x.resp]
    BY <1>1, ReceiveFacts DEF x
  <2> QED BY <2>1, <2>6, <2>7 DEF WeakType
<1>2. ASSUME NEW e \in Ends, NEW new \in BOOLEAN, Ask(e, new) PROVE WeakType'
  <2>1. Peer(e) \in Ends BY Ends2
  <2>2. <<new>> \in Seq(BOOLEAN) OBVIOUS
  <2>3. chan[Peer(e)] \in Seq(BOOLEAN) BY <2>1 DEF WeakType
  <2>4. chan[Peer(e)] \o <<new>> \in Seq(BOOLEAN) BY <2>2, <2>3, SeqFacts, Zenon
  <2>5. /\ want' = [want EXCEPT ![e] = new] /\ state' = state
        /\ resp' = [resp EXCEPT ![e] = resp[e] + 1]
        /\ chan' = [chan EXCEPT ![Peer(e)] = @ \o <<new>>]
    BY <1>2, AskFacts, Zenon
  <2>6. chan' \in [Ends -> Seq(BOOLEAN)] BY <2>1, <2>4, <2>5 DEF WeakType
  <2>7. resp' \in [Ends -> Nat] BY <2>5 DEF WeakType
  <2>8. want' \in [Ends -> BOOLEAN] BY <2>5, Zenon DEF WeakType
  <2> QED BY <2>5, <2>6, <2>7, <2>8, Zenon DEF WeakType
<1>3. CASE UNCHANGED vars BY <1>3 DEF vars, WeakType
<1> QED BY <1>1, <1>2, <1>3 DEF Next

LEMMA RespOKStep ==
  ASSUME WeakType, asked \in [Ends -> 0 .. MaxRequests], RespOK, [Next]_vars
  PROVE  asked' \in [Ends -> 0 .. MaxRequests] /\ RespOK'
<1> USE TelnetOptionAssumption
<1>1. ASSUME NEW e \in Ends, Receive(e) PROVE asked' = asked /\ RespOK'
  <2> DEFINE x == Handled(e, End(e), chan[e][1])
  <2>1. /\ resp' = [resp EXCEPT ![e] = x.resp] /\ asked' = asked
        /\ x.resp \in Nat /\ (x.resp <= resp[e] \/ x.resp = 1)
    BY <1>1, ReceiveFacts, HandledType
  <2> HIDE DEF x
  <2>2. asked[e] \in Nat /\ resp[e] \in Nat BY DEF WeakType
  <2>3. x.resp <= asked[e] + 1 BY <2>1, <2>2 DEF RespOK
  <2> QED BY <2>1, <2>3 DEF WeakType, RespOK
<1>2. ASSUME NEW e \in Ends, NEW new \in BOOLEAN, Ask(e, new)
      PROVE  asked' \in [Ends -> 0 .. MaxRequests] /\ RespOK'
  <2>1. /\ resp' = [resp EXCEPT ![e] = resp[e] + 1]
        /\ asked' = [asked EXCEPT ![e] = @ + 1] /\ asked[e] < MaxRequests
    BY <1>2, AskFacts, Zenon
  <2> QED BY <2>1 DEF WeakType, RespOK
<1>3. CASE UNCHANGED vars BY <1>3 DEF vars, RespOK
<1> QED BY <1>1, <1>2, <1>3 DEF Next

\* Types.  With room for one answer more than there are requests, the counters
\* do_dont_resp[] and will_wont_resp[] neither overflow nor become negative.
THEOREM TypeCorrect == ASSUME RespMax >= MaxRequests + 1 PROVE Spec => []TypeOK
<1> DEFINE Inv == /\ WeakType /\ kind \in Kinds
                  /\ asked \in [Ends -> 0 .. MaxRequests] /\ RespOK
<1> USE TelnetOptionAssumption
<1>1. Init => Inv BY DEF Init, WeakType, RespOK
<1>2. Inv /\ [Next]_vars => Inv'
  <2> SUFFICES ASSUME Inv, [Next]_vars PROVE Inv' OBVIOUS
  <2>1. kind' = kind BY DEF Next, Receive, Ask, vars
  <2> QED BY <2>1, WeakTypeStep, RespOKStep
<1>3. Inv => TypeOK
  <2> SUFFICES ASSUME Inv PROVE TypeOK OBVIOUS
  <2>1. \A e \in Ends : resp[e] \in 0 .. RespMax BY DEF WeakType, RespOK
  <2> QED BY <2>1 DEF WeakType, TypeOK
<1> QED BY <1>1, <1>2, <1>3, PTL DEF Spec

-----------------------------------------------------------------------------
(* Options that both ends accept.                                          *)

\* The sums of InFlight, by either end's name.
LEMMA SumOf ==
  ASSUME NEW r \in [Ends -> Nat], NEW c \in [Ends -> Seq(BOOLEAN)], NEW e \in Ends
  PROVE  (r["will"] + r["do"] <= Len(c["will"]) + Len(c["do"]))
           <=> (r[e] + r[Peer(e)] <= Len(c[e]) + Len(c[Peer(e)]))
<1>1. \A x \in Ends : r[x] \in Nat /\ Len(c[x]) \in Nat OBVIOUS
<1>2. (e = "will" /\ Peer(e) = "do") \/ (e = "do" /\ Peer(e) = "will") BY DEF Ends, Peer
<1>3. "will" \in Ends /\ "do" \in Ends BY DEF Ends
<1> QED BY <1>1, <1>2, <1>3

LEMMA Sums ==
  ASSUME NEW a \in Nat, NEW b \in Nat, NEW c \in Nat, NEW d \in Nat, a + b <= c + d
  PROVE  /\ (a + 1) + b <= c + (d + 1)
         /\ 0 + b <= (c - 1) + (d + 1)
         /\ (a - 1) + b <= (c - 1) + d
  OBVIOUS

LEMMA BothOKReceive ==
  ASSUME WeakType, WeakType', BothOK, kind = "both", NEW e \in Ends, Receive(e)
  PROVE  BothOK'
<1> DEFINE p == Peer(e)
           new == chan[e][1]
           x == Handled(e, End(e), new)
<1>1. p \in Ends /\ Peer(p) = e /\ p # e /\ \A d \in Ends : d \in {e, p}
  BY Ends2 DEF Ends, Peer
<1>2. \A d \in Ends : Alternates(d) /\ AtRest(d) BY DEF BothOK
<1>3. chan[e] # <<>> /\ new \in BOOLEAN BY ReceiveFacts
<1>4. new # state[e] BY <1>2, <1>3 DEF Alternates, Alt
<1>5. \/ /\ x.out = <<new>> /\ x.want = new /\ want[e] # new
         /\ x.resp = 0 /\ resp[e] \in {0, 1}
      \/ /\ x.out = <<>> /\ x.want = want[e] /\ resp[e] > 0 /\ x.resp = resp[e] - 1
         /\ x.resp = 0 => want[e] = new
  BY <1>2, <1>3, <1>4, HandledBoth, Zenon
<1>6. /\ state' = [state EXCEPT ![e] = new]
      /\ want' = [want EXCEPT ![e] = x.want] /\ resp' = [resp EXCEPT ![e] = x.resp]
      /\ chan' = [chan EXCEPT ![e] = Tail(@), ![p] = @ \o x.out]
  BY ReceiveFacts, Zenon
<1> HIDE DEF p, x, new
<1>7. /\ chan[e] \in Seq(BOOLEAN) /\ chan[p] \in Seq(BOOLEAN)
      /\ resp[e] \in Nat /\ resp[p] \in Nat /\ want[e] \in BOOLEAN
  BY <1>1 DEF WeakType
<1>8. /\ state'[e] = new /\ state'[p] = state[p] /\ want'[e] = x.want /\ want'[p] = want[p]
      /\ resp'[e] = x.resp /\ resp'[p] = resp[p]
      /\ chan'[e] = Tail(chan[e]) /\ chan'[p] = chan[p] \o x.out
  BY <1>1, <1>6 DEF WeakType
<1>9. Alternates(e)'
  <2>1. Alt(chan[e], state[e], want[p]) BY <1>2 DEF Alternates, p
  <2>2. Alt(Tail(chan[e]), new, want[p]) BY <2>1, <1>3, <1>7, AltTail DEF new
  <2> QED BY <2>2, <1>8 DEF Alternates, p
<1>10. Alternates(p)'
  <2>1. Alt(chan[p], state[p], want[e]) BY <1>1, <1>2 DEF Alternates
  <2>2. CASE x.out = <<new>> /\ x.want = new /\ want[e] # new
    <3>1. Alt(chan[p] \o <<new>>, state[p], new) BY <2>1, <2>2, <1>3, <1>7, AltAppend
    <3> QED BY <3>1, <2>2, <1>8, <1>1 DEF Alternates
  <2>3. CASE x.out = <<>> /\ x.want = want[e]
    <3>1. chan[p] \o <<>> = chan[p] BY <1>7
    <3>2. chan'[p] = chan[p] /\ want'[e] = want[e] BY <3>1, <2>3, <1>8
    <3> QED BY <3>2, <2>1, <1>8, <1>1 DEF Alternates
  <2> QED BY <2>2, <2>3, <1>5
<1>11. AtRest(e)' BY <1>5, <1>8 DEF AtRest
<1>12. AtRest(p)' BY <1>1, <1>2, <1>8 DEF AtRest
<1>13. resp'[e] + resp'[p] <= Len(chan'[e]) + Len(chan'[p])
  <2>1. resp[e] + resp[p] <= Len(chan[e]) + Len(chan[p]) BY SumOf DEF BothOK, InFlight, WeakType, p
  <2>2. Len(chan'[e]) = Len(chan[e]) - 1 BY <1>3, <1>7, <1>8
  <2>3. CASE x.out = <<new>> /\ x.resp = 0
    <3>1. Len(chan'[p]) = Len(chan[p]) + 1 BY <2>3, <1>3, <1>7, <1>8
    <3>2. Len(chan[e]) \in Nat /\ Len(chan[p]) \in Nat /\ resp[e] \in Nat /\ resp[p] \in Nat
      BY <1>7
    <3>3. resp'[e] = 0 /\ resp'[p] = resp[p] BY <2>3, <1>8
    <3>4. 0 + resp[p] <= (Len(chan[e]) - 1) + (Len(chan[p]) + 1) BY <2>1, <3>2, Sums
    <3> QED BY <2>2, <3>1, <3>3, <3>4, Zenon
  <2>4. CASE x.out = <<>> /\ x.resp = resp[e] - 1
    <3>1. Len(chan'[p]) = Len(chan[p]) BY <2>4, <1>7, <1>8
    <3>2. Len(chan[e]) \in Nat /\ Len(chan[p]) \in Nat /\ resp[e] \in Nat /\ resp[p] \in Nat
      BY <1>7
    <3>3. resp'[e] = resp[e] - 1 /\ resp'[p] = resp[p] BY <2>4, <1>8
    <3>4. (resp[e] - 1) + resp[p] <= (Len(chan[e]) - 1) + Len(chan[p]) BY <2>1, <3>2, Sums
    <3> QED BY <2>2, <3>1, <3>3, <3>4, Zenon
  <2> QED BY <2>3, <2>4, <1>5
<1>14. InFlight'
  <2>1. resp' \in [Ends -> Nat] /\ chan' \in [Ends -> Seq(BOOLEAN)] BY DEF WeakType
  <2> QED BY <2>1, <1>13, SumOf DEF InFlight, p
<1> QED BY <1>1, <1>9, <1>10, <1>11, <1>12, <1>14 DEF BothOK

LEMMA BothOKAsk ==
  ASSUME WeakType, WeakType', BothOK, kind = "both",
         NEW e \in Ends, NEW new \in BOOLEAN, Ask(e, new)
  PROVE  BothOK'
<1> DEFINE p == Peer(e)
<1>1. p \in Ends /\ Peer(p) = e /\ p # e /\ \A d \in Ends : d \in {e, p}
  BY Ends2 DEF Ends, Peer
<1>2. \A d \in Ends : Alternates(d) /\ AtRest(d) BY DEF BothOK
<1>3. /\ want[e] # new /\ want' = [want EXCEPT ![e] = new]
      /\ state' = state /\ resp' = [resp EXCEPT ![e] = resp[e] + 1]
      /\ chan' = [chan EXCEPT ![p] = @ \o <<new>>]
  BY AskFacts, Zenon
<1> HIDE DEF p
<1>4. /\ chan[e] \in Seq(BOOLEAN) /\ chan[p] \in Seq(BOOLEAN)
      /\ resp[e] \in Nat /\ resp[p] \in Nat
  BY <1>1 DEF WeakType
<1>5. /\ want'[e] = new /\ want'[p] = want[p]
      /\ resp'[e] = resp[e] + 1 /\ resp'[p] = resp[p]
      /\ chan'[e] = chan[e] /\ chan'[p] = chan[p] \o <<new>>
  BY <1>1, <1>3 DEF WeakType
<1>6. Alternates(e)' BY <1>2, <1>3, <1>5 DEF Alternates, p
<1>7. Alternates(p)'
  <2>1. Alt(chan[p], state[p], want[e]) BY <1>1, <1>2 DEF Alternates
  <2>2. Alt(chan[p] \o <<new>>, state[p], new) BY <2>1, <1>3, <1>4, AltAppend
  <2> QED BY <2>2, <1>1, <1>3, <1>5 DEF Alternates
<1>8. AtRest(e)' BY <1>4, <1>5 DEF AtRest
<1>9. AtRest(p)' BY <1>1, <1>2, <1>3, <1>5 DEF AtRest
<1>10. resp'[e] + resp'[p] <= Len(chan'[e]) + Len(chan'[p])
  <2>1. resp[e] + resp[p] <= Len(chan[e]) + Len(chan[p]) BY SumOf DEF BothOK, InFlight, WeakType, p
  <2>2. Len(chan'[p]) = Len(chan[p]) + 1 /\ Len(chan'[e]) = Len(chan[e]) BY <1>4, <1>5
  <2>3. Len(chan[e]) \in Nat /\ Len(chan[p]) \in Nat BY <1>4
  <2>4. /\ resp'[e] = resp[e] + 1 /\ resp'[p] = resp[p]
        /\ resp[e] \in Nat /\ resp[p] \in Nat
    BY <1>4, <1>5
  <2>5. (resp[e] + 1) + resp[p] <= Len(chan[e]) + (Len(chan[p]) + 1) BY <2>1, <2>3, <2>4, Sums
  <2> QED BY <2>2, <2>4, <2>5, Zenon
<1>11. InFlight'
  <2>1. resp' \in [Ends -> Nat] /\ chan' \in [Ends -> Seq(BOOLEAN)] BY DEF WeakType
  <2> QED BY <2>1, <1>10, SumOf DEF InFlight, p
<1> QED BY <1>1, <1>6, <1>7, <1>8, <1>9, <1>11 DEF BothOK

LEMMA BothInvariant == Spec => []IInv
<1>1. Init => IInv
  BY DEF Init, IInv, WeakType, BothOK, Alternates, Alt, AtRest, InFlight, Ends, Peer
<1>2. IInv /\ [Next]_vars => IInv'
  <2> SUFFICES ASSUME IInv, [Next]_vars PROVE IInv' OBVIOUS
  <2>1. WeakType /\ BothOK /\ WeakType' BY WeakTypeStep DEF IInv
  <2>2. kind' = kind BY DEF Next, Receive, Ask, vars
  <2>3. CASE kind # "both" BY <2>1, <2>2, <2>3 DEF IInv, BothOK
  <2>4. CASE kind = "both"
    <3>1. CASE UNCHANGED vars
      BY <3>1, <2>1 DEF vars, IInv, BothOK, Alternates, AtRest, InFlight
    <3>2. ASSUME NEW e \in Ends, Receive(e) PROVE BothOK' BY <3>2, <2>1, <2>4, BothOKReceive
    <3>3. ASSUME NEW e \in Ends, NEW new \in BOOLEAN, Ask(e, new) PROVE BothOK'
      BY <3>3, <2>1, <2>4, BothOKAsk
    <3> QED BY <3>1, <3>2, <3>3, <2>1 DEF Next, IInv
  <2> QED BY <2>3, <2>4
<1> QED BY <1>1, <1>2, PTL DEF Spec

\* When nothing is on its way, the answers expected are none, each end has
\* what it wants, and that is what the other end wants.
LEMMA AtQuiet ==
  ASSUME IInv, Quiet, kind = "both"
  PROVE  /\ \A e \in Ends : state[e] = want[e] /\ resp[e] = 0
         /\ want["will"] = want["do"]
<1>1. \A e \in Ends : chan[e] = <<>> /\ Len(chan[e]) = 0 /\ resp[e] \in Nat
  BY DEF Quiet, IInv, WeakType
<1>2. "will" \in Ends /\ "do" \in Ends /\ \A e \in Ends : e = "will" \/ e = "do" BY DEF Ends
<1>6. resp["will"] + resp["do"] <= Len(chan["will"]) + Len(chan["do"]) BY DEF IInv, BothOK, InFlight
<1>7. resp["will"] \in Nat /\ resp["do"] \in Nat /\ Len(chan["will"]) = 0 /\ Len(chan["do"]) = 0
  BY <1>1, <1>2
<1>8. resp["will"] + resp["do"] <= 0 + 0 BY <1>6, <1>7, Zenon
<1>9. \A a, b \in Nat : a + b <= 0 + 0 => a = 0 /\ b = 0 OBVIOUS
<1>3. \A e \in Ends : resp[e] = 0 BY <1>2, <1>7, <1>8, <1>9, Zenon
<1>4. \A e \in Ends : state[e] = want[e] BY <1>3 DEF IInv, BothOK, AtRest
<1>5. state["will"] = want["do"] BY <1>1, <1>2 DEF IInv, BothOK, Alternates, Alt, Peer
<1> QED BY <1>2, <1>3, <1>4, <1>5

\* However many requests the two ends of the connection have sent of their own
\* accord, in whatever order and however they crossed: once every negotiation
\* has been handled, an option that both accept is settled, at both ends.
THEOREM SettledCorrect == Spec => []Settled
<1>1. IInv => Settled BY AtQuiet DEF Settled
<1> QED BY <1>1, BothInvariant, PTL

\* And the two ends agree on it.
THEOREM ConsensusCorrect == Spec => [](kind = "both" => Consensus)
<1>1. IInv => (kind = "both" => Consensus) BY AtQuiet DEF Consensus
<1> QED BY <1>1, BothInvariant, PTL
=============================================================================
