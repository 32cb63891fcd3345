--------------------------- MODULE Syslogd_proofs ---------------------------
(***************************************************************************)
(* Proofs about Syslogd, for every configuration file, any number of        *)
(* entries, messages, hangups and failing system calls, and any nesting of *)
(* logmsg() in itself.                                                     *)
(***************************************************************************)
EXTENDS Syslogd, SequenceTheorems, FiniteSetTheorems, WellFoundedInduction, TLAPS

-----------------------------------------------------------------------------
(* The calls in progress, as a set.                                        *)

Frames(st) == {st[k] : k \in 1 .. Len(st)}

LEMMA FramesEmpty == Frames(<<>>) = {}
  BY DEF Frames

LEMMA FramesAppend ==
  ASSUME NEW st \in Seq(Frame), NEW r \in Frame
  PROVE  Append(st, r) \in Seq(Frame) /\ Frames(Append(st, r)) = Frames(st) \cup {r}
<1> DEFINE s == Append(st, r)
<1>1. s \in Seq(Frame) /\ Len(s) = Len(st) + 1 /\ s[Len(st) + 1] = r
      /\ (\A k \in 1 .. Len(st) : s[k] = st[k]) /\ Len(st) \in Nat
  OBVIOUS
<1> HIDE DEF s
<1>2. Frames(s) = Frames(st) \cup {r}
  <2>1. 1 .. Len(s) = (1 .. Len(st)) \cup {Len(st) + 1} BY <1>1
  <2> QED BY <1>1, <2>1 DEF Frames
<1> QED BY <1>1, <1>2 DEF s

LEMMA FramesTop ==
  ASSUME stack \in Seq(Frame), stack # <<>>
  PROVE  /\ Below \in Seq(Frame) /\ Top \in Frame
         /\ Frames(stack) = Frames(Below) \cup {Top}
<1>1. Len(stack) \in Nat \ {0} OBVIOUS
<1>2. Top \in Frame BY <1>1 DEF Top
<1>3. /\ Below \in Seq(Frame) /\ Len(Below) = Len(stack) - 1
      /\ \A k \in 1 .. Len(stack) - 1 : Below[k] = stack[k]
  <2>1. \A k \in 1 .. Len(stack) - 1 : stack[k] \in Frame BY <1>1
  <2>2. 1 \in Int /\ Len(stack) - 1 \in Int BY <1>1
  <2>3. /\ Below \in Seq(Frame)
        /\ Len(Below) = IF 1 <= Len(stack) - 1 THEN (Len(stack) - 1) - 1 + 1 ELSE 0
        /\ \A k \in 1 .. (Len(stack) - 1) - 1 + 1 : Below[k] = stack[1 + k - 1]
    BY <2>1, <2>2, SubSeqProperties DEF Below
  <2>4. (Len(stack) - 1) - 1 + 1 = Len(stack) - 1
        /\ (~(1 <= Len(stack) - 1) => Len(stack) - 1 = 0)
        /\ \A k \in 1 .. Len(stack) - 1 : 1 + k - 1 = k
    <3> DEFINE n == Len(stack)
    <3>1. n \in Nat \ {0} BY <1>1
    <3> HIDE DEF n
    <3>2. (n - 1) - 1 + 1 = n - 1 /\ (~(1 <= n - 1) => n - 1 = 0) /\ \A k \in 1 .. n - 1 : 1 + k - 1 = k
      BY <3>1
    <3> QED BY <3>2 DEF n
  <2>5. Len(Below) = Len(stack) - 1 BY <2>3, <2>4
  <2>6. ASSUME NEW k \in 1 .. Len(stack) - 1 PROVE Below[k] = stack[k]
    <3>1. k \in 1 .. (Len(stack) - 1) - 1 + 1 BY <2>4
    <3>2. Below[k] = stack[1 + k - 1] BY <2>3, <3>1
    <3> QED BY <2>4, <3>2
  <2> QED BY <2>3, <2>5, <2>6
<1>4. 1 .. Len(stack) = (1 .. Len(Below)) \cup {Len(stack)} BY <1>1, <1>3
<1> QED BY <1>1, <1>2, <1>3, <1>4 DEF Frames, Top

LEMMA CallFrame ==
  ASSUME NEW op \in Ops, NEW m \in Msgs \cup OwnMsgs PROVE Call(op, m) \in Frame
  BY DEF Call, Frame, Phases

LEMMA OwnCalls ==
  /\ Restarted \in OwnMsgs /\ Failed \in OwnMsgs /\ Exiting \in OwnMsgs /\ Mark \in OwnMsgs
  BY DEF OwnMsgs

\* What changes in a frame as its call goes on.
LEMMA FrameNext ==
  ASSUME NEW r \in Frame
  PROVE  LET q == [r EXCEPT !.at = @ + 1, !.phase = "test"]
         IN  q \in Frame /\ q.op = r.op /\ q.m = r.m /\ q.at = r.at + 1 /\ q.phase = "test"
<1> DEFINE M == Msgs \cup OwnMsgs
           a == r.at + 1
<1>1. a \in Nat \ {0} /\ "test" \in Phases BY DEF Frame, Phases
<1>2. Frame = [op: Ops, m: M, at: Nat \ {0}, phase: Phases] BY DEF Frame
<1> HIDE DEF a, M
<1>3. LET q == [r EXCEPT !.at = a, !.phase = "test"]
      IN  q \in Frame /\ q.op = r.op /\ q.m = r.m /\ q.at = a /\ q.phase = "test"
  BY <1>1, <1>2
<1> QED BY <1>3 DEF a

LEMMA FramePhase ==
  ASSUME NEW r \in Frame, NEW p \in Phases
  PROVE  LET q == [r EXCEPT !.phase = p]
         IN  q \in Frame /\ q.op = r.op /\ q.m = r.m /\ q.at = r.at /\ q.phase = p
<1> DEFINE M == Msgs \cup OwnMsgs
<1>1. Frame = [op: Ops, m: M, at: Nat \ {0}, phase: Phases] BY DEF Frame
<1> HIDE DEF M
<1> QED BY <1>1

LEMMA StackNext ==
  ASSUME stack \in Seq(Frame), stack # <<>>
  PROVE  /\ Next1 \in Seq(Frame)
         /\ \E q \in Frame : /\ q.op = Top.op /\ q.m = Top.m /\ q.at = Top.at + 1 /\ q.phase = "test"
                             /\ Frames(Next1) = Frames(Below) \cup {q}
<1>1. Below \in Seq(Frame) /\ Top \in Frame BY FramesTop
<1> DEFINE q == [Top EXCEPT !.at = @ + 1, !.phase = "test"]
<1>2. q \in Frame /\ q.op = Top.op /\ q.m = Top.m /\ q.at = Top.at + 1 /\ q.phase = "test"
  BY <1>1, FrameNext
<1>3. Next1 = Append(Below, q) BY DEF Next1
<1> HIDE DEF q
<1> QED BY <1>1, <1>2, <1>3, FramesAppend

LEMMA StackPhase ==
  ASSUME stack \in Seq(Frame), stack # <<>>, NEW p \in Phases
  PROVE  /\ InPhase(p) \in Seq(Frame)
         /\ \E q \in Frame : /\ q.op = Top.op /\ q.m = Top.m /\ q.at = Top.at /\ q.phase = p
                             /\ Frames(InPhase(p)) = Frames(Below) \cup {q}
<1>1. Below \in Seq(Frame) /\ Top \in Frame BY FramesTop
<1> DEFINE q == [Top EXCEPT !.phase = p]
<1>2. q \in Frame /\ q.op = Top.op /\ q.m = Top.m /\ q.at = Top.at /\ q.phase = p
  BY <1>1, FramePhase
<1>3. InPhase(p) = Append(Below, q) BY DEF InPhase
<1> HIDE DEF q
<1> QED BY <1>1, <1>2, <1>3, FramesAppend

-----------------------------------------------------------------------------
(* cfline(): the masks, by induction over the selectors of a line and over *)
(* the lines of a file.                                                    *)

LEMMA LeastOf ==
  ASSUME NEW S \in SUBSET Nat, S # {}
  PROVE  \E x \in S : \A y \in S : x <= y
<1>1. PICK x \in S : \A y \in S : ~(<<y, x>> \in OpToRel(<, Nat))
  BY NatLessThanWellFounded, WFMin
<1>2. \A y \in S : ~(y < x) BY <1>1 DEF OpToRel
<1>3. x \in Nat /\ \A y \in S : y \in Nat BY <1>2
<1> HIDE <1>1
<1> QED BY <1>2, <1>3

\* What the loop over the selectors works on, and when a selector speaks of a
\* message of facility g and priority p.
State == [mask: [Facs -> SUBSET Pris], seen: SUBSET Facs]
Speaks(s, seen, g, p) ==
    /\ s.fac \in {g, "*"} \/ (s.fac = "**" /\ g \notin seen)
    /\ s.lev \in {"all", "none"} \/ p = s.pri \/ (s.lev = "upto" /\ p < s.pri)

\* One turn: a selector that speaks of the message decides, any other leaves
\* the mask as it is.
LEMMA OneTurn ==
  ASSUME NEW T \in State, NEW s \in Selector
  PROVE  /\ Select(T, s) \in State
         /\ \A g \in Facs : g \in Select(T, s).seen <=> g \in T.seen \/ s.fac = g
         /\ \A g \in Facs, p \in Pris :
              p \in Select(T, s).mask[g] <=>
                IF Speaks(s, T.seen, g, p) THEN s.neg = (s.lev = "none") ELSE p \in T.mask[g]
<1>1. /\ s.fac \in Facs \cup {"*", "**"} /\ s.neg \in BOOLEAN /\ s.lev \in Levels /\ s.pri \in Pris
      /\ T.mask \in [Facs -> SUBSET Pris] /\ T.seen \in SUBSET Facs
  BY DEF State, Selector
<1>2. Enables(s) \in SUBSET Pris /\ Disables(s) \in SUBSET Pris
  <2>1. MaxPri \in Nat BY SyslogdAssumption
  <2>2. PriSet(s) \in SUBSET Pris BY <1>1, <2>1 DEF PriSet, Pris
  <2> QED BY <2>2 DEF Enables, Disables, PriClear
<1>3. Select(T, s) = [mask |-> Select(T, s).mask, seen |-> Seen(s, T.seen)]
      /\ Select(T, s).mask = [g \in Facs |-> IF g \in About(s, T.seen)
                               THEN (T.mask[g] \ Disables(s)) \cup Enables(s) ELSE T.mask[g]]
  BY DEF Select
<1>4. Seen(s, T.seen) \in SUBSET Facs BY <1>1 DEF Seen
<1>5. Select(T, s).mask \in [Facs -> SUBSET Pris] BY <1>1, <1>2, <1>3
<1>6. Select(T, s) \in State BY <1>3, <1>4, <1>5 DEF State
<1>7. ASSUME NEW g \in Facs PROVE g \in Select(T, s).seen <=> g \in T.seen \/ s.fac = g
  <2>1. Select(T, s).seen = Seen(s, T.seen) BY <1>3
  <2> QED BY <1>1, <2>1, ConfAssumption DEF Seen
<1>8. ASSUME NEW g \in Facs, NEW p \in Pris
      PROVE  p \in Select(T, s).mask[g] <=>
               IF Speaks(s, T.seen, g, p) THEN s.neg = (s.lev = "none") ELSE p \in T.mask[g]
  <2>1. g \in About(s, T.seen) <=> s.fac \in {g, "*"} \/ (s.fac = "**" /\ g \notin T.seen)
    BY <1>1, ConfAssumption DEF About
  <2> DEFINE level == s.lev \in {"all", "none"} \/ p = s.pri \/ (s.lev = "upto" /\ p < s.pri)
  <2>2. MaxPri \in Nat /\ p \in Nat /\ s.pri \in Nat BY <1>1, SyslogdAssumption DEF Pris
  <2>3. p \in PriSet(s) <=> level /\ s.lev # "none"
    BY <1>1, <2>2 DEF PriSet, Levels
  <2>4. p \in PriClear(s) <=> s.lev = "none" BY DEF PriClear
  <2>5. p \in Enables(s) <=> level /\ (s.neg = (s.lev = "none"))
    BY <1>1, <2>3, <2>4 DEF Enables
  <2>6. p \in Disables(s) <=> level /\ ~(s.neg = (s.lev = "none"))
    BY <1>1, <2>3, <2>4 DEF Disables
  <2>7. p \in Select(T, s).mask[g] <=>
          IF g \in About(s, T.seen) THEN (p \in T.mask[g] /\ p \notin Disables(s)) \/ p \in Enables(s)
          ELSE p \in T.mask[g]
    BY <1>3
  <2>8. Speaks(s, T.seen, g, p) <=> g \in About(s, T.seen) /\ level BY <2>1 DEF Speaks
  <2> HIDE DEF level
  <2> QED BY <2>5, <2>6, <2>7, <2>8
<1> QED BY <1>6, <1>7, <1>8

\* The state after each turn of the loop over the selectors: there is such a
\* function, and cfline() returns its last value.
Blank0(seen) == [mask |-> [g \in Facs |-> {}], seen |-> seen]
Turns(t, sel, seen, n) ==
    t = [k \in 0 .. n |-> IF k = 0 THEN Blank0(seen) ELSE Select(t[k - 1], sel[k])]

LEMMA TurnsExist ==
  ASSUME NEW sel, NEW seen
  PROVE  \A n \in Nat : \E t : Turns(t, sel, seen, n)
<1> DEFINE Bad == {n \in Nat : ~\E t : Turns(t, sel, seen, n)}
           Step(T, k) == Select(T, sel[k])
           B == Blank0(seen)
<1> SUFFICES ASSUME Bad # {} PROVE FALSE OBVIOUS
<1>1. PICK n \in Bad : \A y \in Bad : n <= y
  <2>1. Bad \in SUBSET Nat OBVIOUS
  <2> HIDE DEF Bad
  <2> QED BY <2>1, LeastOf
<1>2. n # 0
  <2>1. [k \in 0 .. 0 |-> B] = [k \in 0 .. 0 |-> IF k = 0 THEN B ELSE Step([h \in 0 .. 0 |-> B][k - 1], k)]
    <3> HIDE DEF B, Step
    <3> QED OBVIOUS
  <2> QED BY <2>1 DEF Turns
<1>3. n \in Nat /\ n - 1 \in Nat BY <1>2
<1>4. n - 1 \notin Bad
  <2> HIDE DEF Bad
  <2> QED BY <1>1, <1>3
<1>5. PICK t : t = [k \in 0 .. n - 1 |-> IF k = 0 THEN B ELSE Step(t[k - 1], k)]
  BY <1>3, <1>4 DEF Turns
<1> HIDE DEF Step, B
<1> DEFINE h == [k \in 0 .. n |-> IF k = 0 THEN B ELSE Step(t[k - 1], k)]
<1>6. ASSUME NEW k \in 0 .. n - 1 PROVE h[k] = t[k]
  <2>1. k \in 0 .. n BY <1>3
  <2>2. t[k] = IF k = 0 THEN B ELSE Step(t[k - 1], k) BY <1>5
  <2> QED BY <2>1, <2>2
<1>7. h = [k \in 0 .. n |-> IF k = 0 THEN B ELSE Step(h[k - 1], k)]
  <2>1. ASSUME NEW k \in 0 .. n PROVE h[k] = IF k = 0 THEN B ELSE Step(h[k - 1], k)
    <3>1. k # 0 => k - 1 \in 0 .. n - 1 BY <1>3
    <3> QED BY <1>6, <3>1
  <2> QED BY <2>1
<1>8. Turns(h, sel, seen, n) BY <1>7 DEF Turns, Step, B
<1> QED BY <1>8

LEMMA CflineIs ==
  ASSUME NEW sel \in Seq(Selector), NEW seen
  PROVE  \E t : Turns(t, sel, seen, Len(sel)) /\ Cfline(sel, seen) = t[Len(sel)]
<1> DEFINE t == CHOOSE h : h = [k \in 0 .. Len(sel) |->
                   IF k = 0 THEN [mask |-> [g \in Facs |-> {}], seen |-> seen]
                   ELSE Select(h[k - 1], sel[k])]
<1>1. Cfline(sel, seen) = t[Len(sel)] BY DEF Cfline
<1>2. \E h : Turns(h, sel, seen, Len(sel))
  <2>1. Len(sel) \in Nat OBVIOUS
  <2> QED BY <2>1, TurnsExist
<1>3. Turns(t, sel, seen, Len(sel)) BY <1>2 DEF Turns, Blank0
<1> QED BY <1>1, <1>3

\* What the first k selectors of a line say of a message: the last of them
\* that speaks of it decides.
Named(sel, seen, g, k) == g \in seen \/ \E b \in 1 .. k : sel[b].fac = g
Tells(sel, seen, g, p, k) ==
    /\ sel[k].fac \in {g, "*"} \/ (sel[k].fac = "**" /\ ~Named(sel, seen, g, k - 1))
    /\ sel[k].lev \in {"all", "none"} \/ p = sel[k].pri \/ (sel[k].lev = "upto" /\ p < sel[k].pri)
Chosen(sel, seen, g, p, n) ==
    \E k \in 1 .. n : /\ Tells(sel, seen, g, p, k)
                      /\ \A h \in 1 .. n : Tells(sel, seen, g, p, h) => h <= k
                      /\ sel[k].neg = (sel[k].lev = "none")

\* The masks and facilities_seen of T after n selectors.
After(sel, seen, T, n) ==
    /\ T \in State
    /\ \A g \in Facs : g \in T.seen <=> Named(sel, seen, g, n)
    /\ \A g \in Facs, p \in Pris : p \in T.mask[g] <=> Chosen(sel, seen, g, p, n)

LEMMA AfterNone == ASSUME NEW sel, NEW seen \in SUBSET Facs PROVE After(sel, seen, Blank0(seen), 0)
<1>1. Blank0(seen) \in State BY DEF Blank0, State
<1>2. \A g \in Facs : g \in Blank0(seen).seen <=> Named(sel, seen, g, 0) BY DEF Blank0, Named
<1>3. \A g \in Facs, p \in Pris : p \notin Blank0(seen).mask[g] BY DEF Blank0
<1>4. \A g \in Facs, p \in Pris : ~Chosen(sel, seen, g, p, 0) BY DEF Chosen
<1> QED BY <1>1, <1>2, <1>3, <1>4 DEF After

LEMMA AfterOne ==
  ASSUME NEW sel \in Seq(Selector), NEW seen \in SUBSET Facs, NEW n \in 1 .. Len(sel),
         NEW T, After(sel, seen, T, n - 1)
  PROVE  After(sel, seen, Select(T, sel[n]), n)
<1>1. n \in Nat \ {0} /\ n - 1 \in Nat /\ 1 .. n = (1 .. n - 1) \cup {n} /\ n \notin 1 .. n - 1
  OBVIOUS
<1>2. T \in State /\ sel[n] \in Selector BY DEF After
<1> DEFINE R == Select(T, sel[n])
<1>3. /\ R \in State
      /\ \A g \in Facs : g \in R.seen <=> g \in T.seen \/ sel[n].fac = g
      /\ \A g \in Facs, p \in Pris :
           p \in R.mask[g] <=> IF Speaks(sel[n], T.seen, g, p) THEN sel[n].neg = (sel[n].lev = "none")
                               ELSE p \in T.mask[g]
  BY <1>2, OneTurn
<1> HIDE DEF R
<1>4. ASSUME NEW g \in Facs PROVE g \in R.seen <=> Named(sel, seen, g, n)
  BY <1>1, <1>3 DEF After, Named
<1>5. ASSUME NEW g \in Facs, NEW p \in Pris PROVE p \in R.mask[g] <=> Chosen(sel, seen, g, p, n)
  <2>1. Speaks(sel[n], T.seen, g, p) <=> Tells(sel, seen, g, p, n)
    <3>1. g \in T.seen <=> Named(sel, seen, g, n - 1) BY DEF After
    <3> QED BY <3>1 DEF Speaks, Tells
  <2>2. p \in T.mask[g] <=> Chosen(sel, seen, g, p, n - 1) BY DEF After
  <2> DEFINE Q(k) == Tells(sel, seen, g, p, k)
             E(k) == sel[k].neg = (sel[k].lev = "none")
  <2>3. Chosen(sel, seen, g, p, n) <=> \E k \in 1 .. n : Q(k) /\ (\A h \in 1 .. n : Q(h) => h <= k) /\ E(k)
    BY DEF Chosen
  <2>4. Chosen(sel, seen, g, p, n - 1) <=>
          \E k \in 1 .. n - 1 : Q(k) /\ (\A h \in 1 .. n - 1 : Q(h) => h <= k) /\ E(k)
    BY DEF Chosen
  <2>5. p \in R.mask[g] <=> IF Q(n) THEN E(n) ELSE Chosen(sel, seen, g, p, n - 1)
    BY <1>3, <2>1, <2>2
  <2> HIDE DEF Q, E
  <2>6. CASE Q(n)
    <3>1. \A h \in 1 .. n : h <= n BY <1>1
    <3>2. \A k \in 1 .. n : n <= k => k = n BY <1>1
    <3>3. Chosen(sel, seen, g, p, n) <=> E(n) BY <2>3, <2>6, <3>1, <3>2, <1>1
    <3> QED BY <2>5, <2>6, <3>3
  <2>7. CASE ~Q(n)
    <3>1. Chosen(sel, seen, g, p, n) <=> Chosen(sel, seen, g, p, n - 1)
      BY <2>3, <2>4, <2>7, <1>1
    <3> QED BY <2>5, <2>7, <3>1
  <2> QED BY <2>6, <2>7
<1> QED BY <1>3, <1>4, <1>5 DEF After, R

LEMMA CflineAfter ==
  ASSUME NEW sel \in Seq(Selector), NEW seen \in SUBSET Facs
  PROVE  After(sel, seen, Cfline(sel, seen), Len(sel))
<1>1. PICK t : Turns(t, sel, seen, Len(sel)) /\ Cfline(sel, seen) = t[Len(sel)] BY CflineIs
<1>2. Len(sel) \in Nat OBVIOUS
<1> DEFINE L == Len(sel)
           Bad == {n \in 0 .. L : ~After(sel, seen, t[n], n)}
<1>3. ASSUME Bad # {} PROVE FALSE
  <2>1. Bad \in SUBSET Nat BY <1>2
  <2>2. PICK n \in Bad : \A y \in Bad : n <= y
    <3> HIDE DEF Bad
    <3> QED BY <1>3, <2>1, LeastOf
  <2>3. n \in 0 .. L /\ n \in Nat BY <1>2
  <2>4. t[n] = IF n = 0 THEN Blank0(seen) ELSE Select(t[n - 1], sel[n]) BY <1>1, <2>3 DEF Turns
  <2>5. n # 0 BY <2>4, AfterNone
  <2>6. n - 1 \in 0 .. L /\ n \in 1 .. L /\ ~(n <= n - 1) BY <1>2, <2>3, <2>5
  <2>7. After(sel, seen, t[n - 1], n - 1) BY <2>2, <2>6
  <2>8. After(sel, seen, t[n], n) BY <2>4, <2>5, <2>6, <2>7, AfterOne
  <2> QED BY <2>8
<1>4. L \in 0 .. L BY <1>2
<1>5. After(sel, seen, t[L], L) BY <1>3, <1>4
<1> QED BY <1>1, <1>5

LEMMA LineType ==
  ASSUME NEW c \in Seq(ConfLine), NEW i \in 1 .. Len(c)
  PROVE  c[i].sel \in Seq(Selector) /\ c[i].type \in Locals \cup {"FORW"} /\ c[i].dest \in Dests
<1> DEFINE S == Seq(Selector)
           Y == Locals \cup {"FORW"}
<1>1. ConfLine = [sel: S, type: Y, dest: Dests] BY DEF ConfLine
<1>2. c[i] \in ConfLine OBVIOUS
<1> HIDE DEF S, Y
<1>3. c[i].sel \in S /\ c[i].type \in Y /\ c[i].dest \in Dests BY <1>1, <1>2
<1> QED BY <1>3 DEF S, Y

\* The state after each line of the file, likewise.
LinesOf(l, c, n) ==
    l = [i \in 0 .. n |-> IF i = 0 THEN Blank0({}) ELSE Cfline(c[i].sel, l[i - 1].seen)]

LEMMA LinesExist ==
  ASSUME NEW c
  PROVE  \A n \in Nat : \E l : LinesOf(l, c, n)
<1> DEFINE Bad == {n \in Nat : ~\E l : LinesOf(l, c, n)}
           Step(T, i) == Cfline(c[i].sel, T.seen)
           B == Blank0({})
<1> SUFFICES ASSUME Bad # {} PROVE FALSE OBVIOUS
<1>1. PICK n \in Bad : \A y \in Bad : n <= y
  <2>1. Bad \in SUBSET Nat OBVIOUS
  <2> HIDE DEF Bad
  <2> QED BY <2>1, LeastOf
<1>2. n # 0
  <2>1. [i \in 0 .. 0 |-> B] = [i \in 0 .. 0 |-> IF i = 0 THEN B ELSE Step([h \in 0 .. 0 |-> B][i - 1], i)]
    <3> HIDE DEF B, Step
    <3> QED OBVIOUS
  <2> QED BY <2>1 DEF LinesOf
<1>3. n \in Nat /\ n - 1 \in Nat BY <1>2
<1>4. n - 1 \notin Bad
  <2> HIDE DEF Bad
  <2> QED BY <1>1, <1>3
<1>5. PICK l : l = [i \in 0 .. n - 1 |-> IF i = 0 THEN B ELSE Step(l[i - 1], i)]
  BY <1>3, <1>4 DEF LinesOf
<1> HIDE DEF Step, B
<1> DEFINE h == [i \in 0 .. n |-> IF i = 0 THEN B ELSE Step(l[i - 1], i)]
<1>6. ASSUME NEW i \in 0 .. n - 1 PROVE h[i] = l[i]
  <2>1. i \in 0 .. n BY <1>3
  <2>2. l[i] = IF i = 0 THEN B ELSE Step(l[i - 1], i) BY <1>5
  <2> QED BY <2>1, <2>2
<1>7. h = [i \in 0 .. n |-> IF i = 0 THEN B ELSE Step(h[i - 1], i)]
  <2>1. ASSUME NEW i \in 0 .. n PROVE h[i] = IF i = 0 THEN B ELSE Step(h[i - 1], i)
    <3>1. i # 0 => i - 1 \in 0 .. n - 1 BY <1>3
    <3> QED BY <1>6, <3>1
  <2> QED BY <2>1
<1>8. LinesOf(h, c, n) BY <1>7 DEF LinesOf, Step, B
<1> QED BY <1>8

LEMMA CflinesAre ==
  ASSUME NEW c \in Seq(ConfLine)
  PROVE  \E l : LinesOf(l, c, Len(c)) /\ Cflines(c) = [i \in 1 .. Len(c) |-> l[i].mask]
<1> DEFINE l == CHOOSE h : h = [i \in 0 .. Len(c) |->
                   IF i = 0 THEN [mask |-> [g \in Facs |-> {}], seen |-> {}]
                   ELSE Cfline(c[i].sel, h[i - 1].seen)]
<1>1. Cflines(c) = [i \in 1 .. Len(c) |-> l[i].mask] BY DEF Cflines
<1>2. \E h : LinesOf(h, c, Len(c))
  <2>1. Len(c) \in Nat OBVIOUS
  <2> QED BY <2>1, LinesExist
<1>3. LinesOf(l, c, Len(c)) BY <1>2 DEF LinesOf, Blank0
<1> QED BY <1>1, <1>3

\* The facilities seen before line i + 1 are those the lines up to i name.
NamedBy(c, g, i) == \E a \in 1 .. i : \E b \in 1 .. Len(c[a].sel) : c[a].sel[b].fac = g

LEMMA LinesSeen ==
  ASSUME NEW c \in Seq(ConfLine), NEW l, LinesOf(l, c, Len(c))
  PROVE  \A i \in 0 .. Len(c) :
           l[i].seen \in SUBSET Facs /\ \A g \in Facs : g \in l[i].seen <=> NamedBy(c, g, i)
<1>1. Len(c) \in Nat OBVIOUS
<1> DEFINE L == Len(c)
           OK(i) == l[i].seen \in SUBSET Facs /\ \A g \in Facs : g \in l[i].seen <=> NamedBy(c, g, i)
           Bad == {n \in 0 .. L : ~OK(n)}
<1> SUFFICES ASSUME Bad # {} PROVE FALSE OBVIOUS
<1>2. Bad \in SUBSET Nat BY <1>1
<1>3. PICK n \in Bad : \A y \in Bad : n <= y
  <2> HIDE DEF Bad
  <2> QED BY <1>2, LeastOf
<1>4. n \in 0 .. L /\ n \in Nat /\ ~OK(n) BY <1>1
<1>5. l[n] = IF n = 0 THEN Blank0({}) ELSE Cfline(c[n].sel, l[n - 1].seen) BY <1>4 DEF LinesOf
<1>6. n # 0
  <2>1. OK(0) \/ l[0] # Blank0({}) BY DEF Blank0, NamedBy
  <2> QED BY <1>4, <1>5, <2>1
<1>7. n - 1 \in 0 .. L /\ n - 1 \in Nat /\ n \in 1 .. L /\ ~(n <= n - 1)
      /\ 1 .. n = (1 .. n - 1) \cup {n}
  BY <1>1, <1>4, <1>6
<1>8. OK(n - 1)
  <2> HIDE DEF OK
  <2> QED BY <1>3, <1>7
<1>9. c[n].sel \in Seq(Selector) BY <1>7, LineType
<1>10. After(c[n].sel, l[n - 1].seen, l[n], Len(c[n].sel)) BY <1>5, <1>6, <1>8, <1>9, CflineAfter
<1>11. l[n].seen \in SUBSET Facs BY <1>10 DEF After, State
<1>12. ASSUME NEW g \in Facs PROVE g \in l[n].seen <=> NamedBy(c, g, n)
  <2>1. g \in l[n].seen <=> Named(c[n].sel, l[n - 1].seen, g, Len(c[n].sel)) BY <1>10 DEF After
  <2>2. g \in l[n - 1].seen <=> NamedBy(c, g, n - 1) BY <1>8
  <2> QED BY <2>1, <2>2, <1>7 DEF Named, NamedBy
<1> QED BY <1>4, <1>11, <1>12

\* The masks of a configuration file are those the documented rule gives, for
\* any number of lines and selectors.
LEMMA MasksFollowRule ==
  ASSUME NEW c \in Seq(ConfLine), NEW i \in 1 .. Len(c)
  PROVE  /\ Cflines(c)[i] \in [Facs -> SUBSET Pris]
         /\ \A g \in Facs, p \in Pris : p \in Cflines(c)[i][g] <=> Selects(c, i, g, p)
<1>1. PICK l : LinesOf(l, c, Len(c)) /\ Cflines(c) = [j \in 1 .. Len(c) |-> l[j].mask] BY CflinesAre
<1>2. Len(c) \in Nat /\ i \in Nat /\ i # 0 /\ i \in 0 .. Len(c) /\ i - 1 \in 0 .. Len(c)
      /\ 1 .. i = (1 .. i - 1) \cup {i} /\ (\A a \in 1 .. i : a < i <=> a \in 1 .. i - 1)
  OBVIOUS
<1> DEFINE sel == c[i].sel
           seen == l[i - 1].seen
<1>3. sel \in Seq(Selector) BY LineType
<1>4. seen \in SUBSET Facs /\ \A g \in Facs : g \in seen <=> NamedBy(c, g, i - 1)
  BY <1>1, <1>2, LinesSeen
<1>5. l[i] = Cfline(sel, seen) BY <1>1, <1>2 DEF LinesOf
<1>6. After(sel, seen, l[i], Len(sel)) BY <1>3, <1>4, <1>5, CflineAfter
<1>7. Cflines(c)[i] = l[i].mask BY <1>1
<1>8. l[i].mask \in [Facs -> SUBSET Pris] BY <1>6 DEF After, State
<1>9. ASSUME NEW g \in Facs, NEW p \in Pris PROVE Chosen(sel, seen, g, p, Len(sel)) <=> Selects(c, i, g, p)
  <2> DEFINE named(k) == \E a \in 1 .. i : \E b \in 1 .. Len(c[a].sel) :
                           c[a].sel[b].fac = g /\ (a < i \/ b < k)
             level(k) == sel[k].lev \in {"all", "none"} \/ p = sel[k].pri \/ (sel[k].lev = "upto" /\ p < sel[k].pri)
             spk == {k \in 1 .. Len(sel) :
                       (sel[k].fac \in {g, "*"} \/ (sel[k].fac = "**" /\ ~named(k))) /\ level(k)}
  <2>1. ASSUME NEW k \in 1 .. Len(sel) PROVE named(k) <=> Named(sel, seen, g, k - 1)
    <3>1. Len(sel) \in Nat /\ k \in Nat BY <1>3
    <3>2. \A b \in 1 .. Len(sel) : b < k <=> b \in 1 .. k - 1 BY <3>1
    <3>3. 1 .. k - 1 \subseteq 1 .. Len(sel) BY <3>1
    <3>4. named(k) <=> (\E a \in 1 .. i - 1 : \E b \in 1 .. Len(c[a].sel) : c[a].sel[b].fac = g)
                       \/ \E b \in 1 .. Len(sel) : sel[b].fac = g /\ b < k
      BY <1>2
    <3>5. (\E b \in 1 .. Len(sel) : sel[b].fac = g /\ b < k) <=> \E b \in 1 .. k - 1 : sel[b].fac = g
      BY <3>2, <3>3
    <3> QED BY <1>4, <3>4, <3>5 DEF Named, NamedBy
  <2>2. ASSUME NEW k \in 1 .. Len(sel) PROVE k \in spk <=> Tells(sel, seen, g, p, k)
    BY <2>1 DEF Tells
  <2>3. Selects(c, i, g, p) <=> \E k \in spk : (\A h \in spk : h <= k) /\ ((sel[k].lev = "none") = sel[k].neg)
    BY DEF Selects
  <2>4. spk \subseteq 1 .. Len(sel) OBVIOUS
  <2> HIDE DEF spk
  <2>5. \A k \in 1 .. Len(sel) : (\A h \in spk : h <= k) <=>
            (\A h \in 1 .. Len(sel) : Tells(sel, seen, g, p, h) => h <= k)
    BY <2>2, <2>4
  <2> QED BY <2>2, <2>3, <2>4, <2>5 DEF Chosen
<1> QED BY <1>6, <1>7, <1>8, <1>9 DEF After

-----------------------------------------------------------------------------
(* Types.                                                                  *)

\* The text and the host an entry remembers make a line.
Paired(f) == <<f.prev, f.host>> \in Lines
TInv == TypeOK /\ \A i \in 1 .. Len(files) : Paired(files[i])

LEMMA Numbers ==
  /\ MarkInterval \in Nat /\ SuspendTime \in Nat /\ RetryMax \in Nat /\ MaxBatch \in Nat
  /\ MaxCount \in Nat /\ MaxTroubles \in Nat
  BY SyslogdAssumption

LEMMA MaxAgeNat == MaxAge \in Nat
<1>1. \E a \in {3, SuspendTime, MarkInterval} : a >= 3 /\ a >= SuspendTime /\ a >= MarkInterval
  BY Numbers
<1>2. MaxAge \in {3, SuspendTime, MarkInterval} BY <1>1 DEF MaxAge
<1> QED BY <1>2, Numbers

Types == Locals \cup Forws \cup {"UNUSED"}
Texts == {l[1] : l \in Lines}
Hosts == {l[2] : l \in Lines} \cup {NoHost}
Masks == [Facs -> SUBSET Pris]

LEMMA EntryIs ==
  Entry = [type: Types, dest: Dests, mask: Masks, prev: Texts, host: Hosts,
           count: Nat, rep: 1 .. 2, age: 0 .. MaxAge]
<1>1. Len(RepeatInterval) = 2 BY DEF RepeatInterval
<1> QED BY <1>1 DEF Entry, Types, Texts, Hosts, Masks

LEMMA EntryFields ==
  ASSUME NEW f \in Entry
  PROVE  /\ f.type \in Types /\ f.dest \in Dests /\ f.mask \in Masks /\ f.prev \in Texts
         /\ f.host \in Hosts /\ f.count \in Nat /\ f.rep \in 1 .. 2 /\ f.age \in 0 .. MaxAge
  BY EntryIs

LEMMA LineParts ==
  ASSUME NEW a, NEW b, <<a, b>> \in Lines PROVE a \in Texts /\ b \in Hosts
<1>1. <<a, b>>[1] = a /\ <<a, b>>[2] = b OBVIOUS
<1> QED BY <1>1 DEF Texts, Hosts

LEMMA MessageLines ==
  ASSUME NEW m \in Msgs \cup OwnMsgs
  PROVE  Line(m) \in Lines /\ Line(m) = <<m.text, m.host>> /\ <<Empty, m.host>> \in Lines
<1>1. m \in OwnMsgs => m.host = Local BY DEF OwnMsgs, Restarted, Failed, Exiting, Mark, Own
<1>2. m.host \in {x.host : x \in Msgs} \cup {Local, NoHost} BY <1>1
<1> QED BY <1>2 DEF Lines, Line

LEMMA BlankLines == NoLine \in Lines /\ NoLine = <<Empty, NoHost>>
  BY DEF Lines, NoLine

\* What fprintlog() makes of an entry: it has no repeats left, unless its host
\* is still unknown.
LEMMA PrintedEntry ==
  ASSUME NEW f \in Entry, NEW from, NEW fate
  PROVE  LET e == Printed(f, from, fate)
         IN  /\ e \in Entry /\ e.prev = f.prev /\ e.host = f.host
             /\ e.type # "UNKN" => e.count = 0
<1>1. f.type \in Types /\ f.count \in Nat /\ f.age \in 0 .. MaxAge /\ 0 \in 0 .. MaxAge
  BY EntryFields, MaxAgeNat
<1> DEFINE t == NextType(f, from, fate)
           a == IF \/ f.type \in Locals \cup {"UNUSED"}
                   \/ Sends(f, from, fate) /\ fate # "nosocket" THEN 0 ELSE f.age
           n == IF t # "UNKN" THEN 0 ELSE IF Retried(f, fate) THEN f.count - 1 ELSE f.count
<1>2. t \in Types BY <1>1 DEF NextType, Types, Forws
<1>3. a \in 0 .. MaxAge BY <1>1
<1>4. t = "UNKN" /\ Retried(f, fate) => f.count # 0 BY DEF NextType, Retried, Forwards, Locals
<1>5. n \in Nat BY <1>1, <1>4
<1>6. Printed(f, from, fate) = [f EXCEPT !.type = t, !.age = a, !.count = n] BY DEF Printed
<1>7. t # "UNKN" => n = 0 OBVIOUS
<1> HIDE DEF t, a, n
<1> DEFINE e == [f EXCEPT !.type = t, !.age = a, !.count = n]
<1>8. e \in Entry /\ e.type = t /\ e.count = n /\ e.prev = f.prev /\ e.host = f.host
  BY <1>2, <1>3, <1>5, EntryIs
<1> HIDE DEF e
<1> QED BY <1>6, <1>7, <1>8 DEF e

LEMMA SavedEntry ==
  ASSUME NEW f \in Entry, NEW m \in Msgs \cup OwnMsgs
  PROVE  LET e == Saved(f, m)
             text == IF m.text \in LongTexts THEN m.text ELSE Empty
         IN  /\ e \in Entry /\ Paired(e) /\ e.dest = f.dest
             /\ <<IF text = Empty THEN e.prev ELSE text, e.host>> \in Lines
<1> DEFINE x == IF m.text \in LongTexts THEN Empty ELSE m.text
           text == IF m.text \in LongTexts THEN m.text ELSE Empty
           e == [f EXCEPT !.rep = 1, !.host = m.host, !.prev = x]
<1>1. <<x, m.host>> \in Lines BY MessageLines
<1>2. x \in Texts /\ m.host \in Hosts BY <1>1, LineParts
<1>3. <<m.text, m.host>> \in Lines BY MessageLines
<1>4. Saved(f, m) = e BY DEF Saved
<1>5. e \in Entry /\ e.prev = x /\ e.host = m.host /\ e.dest = f.dest
  <2> HIDE DEF x
  <2> DEFINE h == m.host
  <2>1. h \in Hosts /\ 1 \in 1 .. 2 BY <1>2
  <2> HIDE DEF h
  <2>2. LET q == [f EXCEPT !.rep = 1, !.host = h, !.prev = x]
        IN  q \in Entry /\ q.prev = x /\ q.host = h /\ q.dest = f.dest
    BY <1>2, <2>1, EntryIs
  <2> QED BY <2>2 DEF h
<1>6. <<IF text = Empty THEN x ELSE text, m.host>> \in Lines BY <1>1, <1>3
<1> HIDE DEF e, x, text
<1> QED BY <1>1, <1>4, <1>5, <1>6 DEF Paired, text

\* Sequences with one element replaced.
LEMMA FilesWith ==
  ASSUME files \in Seq(Entry), NEW at \in 1 .. Len(files), NEW e \in Entry
  PROVE  LET s == [files EXCEPT ![at] = e]
         IN  /\ s \in Seq(Entry) /\ Len(s) = Len(files) /\ s[at] = e
             /\ \A i \in 1 .. Len(files) : i # at => s[i] = files[i]
  OBVIOUS

Debts == [Dests -> [Lines -> Int]]

LEMMA OwingType ==
  ASSUME NEW o \in Debts, NEW w, NEW c, NEW fs, NEW m PROVE Owing(o, w, c, fs, m) \in Debts
<1>1. Nothing \in [Lines -> Int] BY DEF Nothing
<1> DEFINE due(d, l) == l = Line(m) /\ \E i \in 1 .. Len(fs) : fs[i].dest = d /\ Reaches(c, fs, i, m)
<1>2. Owing(o, w, c, fs, m) =
        [d \in Dests |-> IF d \notin w THEN Nothing
                         ELSE [l \in Lines |-> o[d][l] + IF due(d, l) THEN 1 ELSE 0]]
  BY DEF Owing
<1> HIDE DEF due
<1>3. ASSUME NEW d \in Dests PROVE [l \in Lines |-> o[d][l] + IF due(d, l) THEN 1 ELSE 0] \in [Lines -> Int]
  <2>1. \A l \in Lines : o[d][l] \in Int BY DEF Debts
  <2> QED BY <2>1
<1> QED BY <1>1, <1>2, <1>3 DEF Debts

LEMMA AccountType ==
  ASSUME last \in [Dests -> Lines], owed \in Debts, whole \in SUBSET Dests,
         NEW f \in Entry, NEW from, NEW text, NEW fate,
         <<IF text = Empty THEN f.prev ELSE text, f.host>> \in Lines,
         Account(f, from, text, fate)
  PROVE  last' \in [Dests -> Lines] /\ owed' \in Debts /\ whole' \in SUBSET Dests
<1> DEFINE d == f.dest
           s == Shown(f, text)
           line == IF s.n = 0 THEN s.line ELSE last[d]
           n == IF s.n = 0 THEN 1 ELSE s.n
<1>1. d \in Dests /\ f.count \in Nat BY EntryFields
<1>2. s.line \in Lines /\ s.n \in Nat BY <1>1 DEF Shown
<1>3. line \in Lines /\ n \in Int BY <1>1, <1>2
<1>4. CASE Arrives(f, from, fate)
  <2>1. /\ last' = [last EXCEPT ![d] = line]
        /\ owed' = IF line = Line(Mark) \/ d \notin whole THEN owed
                   ELSE [owed EXCEPT ![d][line] = @ - n]
        /\ whole' = whole
    BY <1>4 DEF Account
  <2> HIDE DEF line, n, d
  <2>2. last' \in [Dests -> Lines] BY <1>1, <1>3, <2>1
  <2>3. owed' \in Debts
    <3>1. owed[d] \in [Lines -> Int] /\ owed[d][line] \in Int BY <1>1, <1>3 DEF Debts
    <3>2. owed[d][line] - n \in Int BY <1>3, <3>1
    <3>3. [owed[d] EXCEPT ![line] = owed[d][line] - n] \in [Lines -> Int] BY <3>1, <3>2
    <3>4. [owed EXCEPT ![d] = [owed[d] EXCEPT ![line] = owed[d][line] - n]] \in Debts
      BY <1>1, <3>3 DEF Debts
    <3>5. [owed EXCEPT ![d][line] = @ - n] = [owed EXCEPT ![d] = [owed[d] EXCEPT ![line] = owed[d][line] - n]]
      OBVIOUS
    <3> QED BY <2>1, <3>4, <3>5
  <2> QED BY <2>1, <2>2, <2>3
<1>5. CASE ~Arrives(f, from, fate)
  <2>1. whole' = whole \ {d} /\ owed' = [owed EXCEPT ![d] = Nothing] /\ last' = last
    BY <1>5 DEF Account
  <2>2. Nothing \in [Lines -> Int] BY DEF Nothing
  <2> HIDE DEF d
  <2> QED BY <1>1, <2>1, <2>2 DEF Debts
<1> QED BY <1>4, <1>5

\* The bound on hangups and failing calls.
InBounds(h, f) == h \in Nat /\ f \in Nat /\ h + f <= MaxTroubles

\* An entry keeps no repeats longer than the interval it is at.
Brief(f) == f.count > 0 /\ f.type # "UNKN" => f.age <= RepeatInterval[f.rep]

LEMMA FprintlogFacts ==
  ASSUME TInv, Top.at \in 1 .. Len(files), NEW f \in Entry, Paired(f),
         NEW from, NEW text, <<IF text = Empty THEN f.prev ELSE text, f.host>> \in Lines,
         NEW st \in Seq(Frame), Fprintlog(f, from, text, st)
  PROVE  /\ files' \in Seq(Entry) /\ Len(files') = Len(files)
         /\ \A i \in 1 .. Len(files') : Paired(files'[i])
         /\ Brief(files'[Top.at]) /\ \A i \in 1 .. Len(files) : i # Top.at => files'[i] = files[i]
         /\ last' \in [Dests -> Lines] /\ owed' \in Debts /\ whole' \in SUBSET Dests
         /\ InBounds(hups, faults')
         /\ stack' \in Seq(Frame)
         /\ Frames(stack') \in {Frames(st), Frames(st) \cup {Call("log", Failed)}}
<1>0. /\ files \in Seq(Entry) /\ (\A i \in 1 .. Len(files) : Paired(files[i]))
      /\ last \in [Dests -> Lines] /\ owed \in Debts /\ whole \in SUBSET Dests
      /\ InBounds(hups, faults)
  BY DEF TInv, TypeOK, Debts, InBounds
<1>1. PICK fate : /\ fate # "ok" => hups + faults < MaxTroubles
                  /\ faults' = faults + (IF fate = "ok" THEN 0 ELSE 1)
                  /\ files' = [files EXCEPT ![Top.at] = Printed(f, from, fate)]
                  /\ \E err \in BOOLEAN :
                       /\ stack' = IF err THEN Append(st, Call("log", Failed)) ELSE st
                       /\ IF err
                          THEN /\ whole' = whole \ {f.dest} /\ UNCHANGED last
                               /\ owed' = Owing(owed, whole', read, files', Failed)
                          ELSE Account(f, from, text, fate)
  BY DEF Fprintlog
<1> DEFINE e == Printed(f, from, fate)
<1>2. e \in Entry /\ Paired(e) /\ (e.type # "UNKN" => e.count = 0) BY PrintedEntry DEF Paired
<1>3. Brief(e) BY <1>2 DEF Brief
<1>4. /\ files' \in Seq(Entry) /\ Len(files') = Len(files) /\ files'[Top.at] = e
      /\ \A i \in 1 .. Len(files) : i # Top.at => files'[i] = files[i]
  <2> HIDE DEF e
  <2>1. files' = [files EXCEPT ![Top.at] = e] BY <1>1 DEF e
  <2> QED BY <1>0, <1>2, <2>1, FilesWith
<1> HIDE DEF e
<1>5. \A i \in 1 .. Len(files') : Paired(files'[i]) BY <1>0, <1>2, <1>4
<1>6. InBounds(hups, faults')
  <2>1. hups \in Nat /\ faults \in Nat /\ hups + faults <= MaxTroubles /\ MaxTroubles \in Nat
    BY <1>0, Numbers DEF InBounds
  <2>2. CASE fate = "ok" BY <1>1, <2>1, <2>2 DEF InBounds
  <2>3. CASE fate # "ok" BY <1>1, <2>1, <2>3 DEF InBounds
  <2> QED BY <2>2, <2>3
<1>7. Call("log", Failed) \in Frame BY CallFrame, OwnCalls DEF Ops
<1>8. PICK err \in BOOLEAN :
        /\ stack' = IF err THEN Append(st, Call("log", Failed)) ELSE st
        /\ IF err THEN /\ whole' = whole \ {f.dest} /\ UNCHANGED last
                       /\ owed' = Owing(owed, whole', read, files', Failed)
           ELSE Account(f, from, text, fate)
  BY <1>1
<1>9. stack' \in Seq(Frame) /\ Frames(stack') \in {Frames(st), Frames(st) \cup {Call("log", Failed)}}
  BY <1>7, <1>8, FramesAppend
<1>10. last' \in [Dests -> Lines] /\ owed' \in Debts /\ whole' \in SUBSET Dests
  <2>1. CASE err BY <1>0, <1>8, <2>1, OwingType
  <2>2. CASE ~err BY <1>0, <1>8, <2>2, AccountType
  <2> QED BY <2>1, <2>2
<1> QED BY <1>3, <1>4, <1>5, <1>6, <1>9, <1>10

-----------------------------------------------------------------------------
(* The inductive invariant.                                                *)

\* domark() has still to come to entry i.
Due(st, i) ==
    \E r \in Frames(st) : r.op = "due" /\ (r.at < i \/ (r.at = i /\ r.phase = "test"))

\* Once the alarm has been taken, an entry holds no repeats for too long, or
\* domark() is going to look at it: what logmsg() does to it in between, for a
\* mark or for an error, leaves it so.
Held == ~alarm => \A i \in 1 .. Len(files) : Brief(files[i]) \/ Due(stack, i)

\* While main() is between init() and restart = 0, the file is as it was read, but
\* for a hangup that has come since.
Reloading(st) == \E r \in Frames(st) : r.op = "reload"
Heeded == HangupHeeded /\ (Reloading(stack) => conf = read \/ late)

IInv == TInv /\ Held /\ Heeded

\* The variables whose types an action may leave to others.
Rest == <<conf, batch, restart, markseq, alarm, dead, read, late, hups>>
Books == <<last, owed, whole, faults>>

\* A step that neither takes the alarm nor sets restart.
LEMMA Step ==
  ASSUME IInv, UNCHANGED Rest,
         stack' \in Seq(Frame), Reloading(stack') => Reloading(stack),
         files' \in Seq(Entry), Len(files') = Len(files), \A i \in 1 .. Len(files') : Paired(files'[i]),
         \A i \in 1 .. Len(files) : Brief(files[i]) => Brief(files'[i]),
         \A i \in 1 .. Len(files) : Due(stack, i) => Due(stack', i) \/ Brief(files'[i]),
         last' \in [Dests -> Lines], owed' \in Debts, whole' \in SUBSET Dests, InBounds(hups, faults')
  PROVE  IInv'
<1>1. TInv' BY DEF IInv, TInv, TypeOK, Rest, Debts, InBounds
<1>2. Held' BY DEF IInv, Held, Rest
<1>3. Heeded' BY DEF IInv, Heeded, HangupHeeded, Rest
<1> QED BY <1>1, <1>2, <1>3 DEF IInv

LEMMA Known ==
  ASSUME IInv
  PROVE  /\ files \in Seq(Entry) /\ (\A i \in 1 .. Len(files) : Paired(files[i]) /\ files[i] \in Entry)
         /\ stack \in Seq(Frame) /\ Len(files) \in Nat
         /\ last \in [Dests -> Lines] /\ owed \in Debts /\ whole \in SUBSET Dests
         /\ InBounds(hups, faults)
  BY DEF IInv, TInv, TypeOK, Debts, InBounds

LEMMA AtEntry ==
  ASSUME IInv, stack # <<>>, ~AtEnd
  PROVE  Top.at \in 1 .. Len(files) /\ F = files[Top.at] /\ F \in Entry /\ Paired(F) /\ Top.at \in Nat \ {0}
<1>1. Top \in Frame BY FramesTop, Known
<1>2. Top.at \in Nat \ {0} BY <1>1 DEF Frame
<1>3. Len(files) \in Nat BY Known
<1>4. Top.at \in 1 .. Len(files) BY <1>2, <1>3 DEF AtEnd
<1> QED BY <1>2, <1>4, Known DEF F

\* What a step at the top of the stack does to the frames the invariant names.
LEMMA TopMoves ==
  ASSUME stack \in Seq(Frame), stack # <<>>, NEW q \in Frame, NEW st, q.op = Top.op,
         Frames(Below) \cup {q} \subseteq Frames(st),
         \A r \in Frames(st) : r \in Frames(Below) \cup {q} \/ r.op # "reload"
  PROVE  /\ Reloading(st) => Reloading(stack)
         /\ \A i \in Nat : Due(stack, i) =>
              \/ Due(st, i)
              \/ /\ Top.op = "due" /\ (Top.at < i \/ (Top.at = i /\ Top.phase = "test"))
                 /\ ~(q.at < i \/ (q.at = i /\ q.phase = "test"))
<1>1. Frames(stack) = Frames(Below) \cup {Top} BY FramesTop
<1>2. Reloading(st) => Reloading(stack) BY <1>1 DEF Reloading
<1>3. ASSUME NEW i \in Nat, Due(stack, i), ~Due(st, i)
      PROVE  /\ Top.op = "due" /\ (Top.at < i \/ (Top.at = i /\ Top.phase = "test"))
             /\ ~(q.at < i \/ (q.at = i /\ q.phase = "test"))
  <2>1. PICK r \in Frames(stack) : r.op = "due" /\ (r.at < i \/ (r.at = i /\ r.phase = "test"))
    BY <1>3 DEF Due
  <2>2. r \notin Frames(st) BY <1>3, <2>1 DEF Due
  <2>3. r = Top BY <1>1, <2>2
  <2>4. q \in Frames(st) OBVIOUS
  <2> QED BY <1>3, <2>1, <2>3, <2>4 DEF Due
<1> QED BY <1>2, <1>3

\* fprintlog() for the entry the call at the top is at.
LEMMA PrintStep ==
  ASSUME IInv, stack # <<>>, ~AtEnd, NEW f \in Entry, Paired(f),
         NEW from, NEW text, <<IF text = Empty THEN f.prev ELSE text, f.host>> \in Lines,
         NEW st \in Seq(Frame), NEW q \in Frame, q.op = Top.op, Frames(st) = Frames(Below) \cup {q},
         Top.op = "due" => q.at = Top.at,
         Fprintlog(f, from, text, st), UNCHANGED Rest
  PROVE  IInv'
<1>1. TInv /\ stack \in Seq(Frame) /\ files \in Seq(Entry) /\ Len(files) \in Nat BY Known DEF IInv
<1>2. Top.at \in 1 .. Len(files) /\ Top.at \in Nat BY AtEntry
<1>3. /\ files' \in Seq(Entry) /\ Len(files') = Len(files)
      /\ \A i \in 1 .. Len(files') : Paired(files'[i])
      /\ Brief(files'[Top.at]) /\ \A i \in 1 .. Len(files) : i # Top.at => files'[i] = files[i]
      /\ last' \in [Dests -> Lines] /\ owed' \in Debts /\ whole' \in SUBSET Dests
      /\ InBounds(hups, faults')
      /\ stack' \in Seq(Frame)
      /\ Frames(stack') \in {Frames(st), Frames(st) \cup {Call("log", Failed)}}
  BY <1>1, <1>2, FprintlogFacts
<1>4. Call("log", Failed).op # "reload" BY DEF Call
<1>5. /\ Reloading(stack') => Reloading(stack)
      /\ \A i \in Nat : Due(stack, i) =>
           \/ Due(stack', i)
           \/ /\ Top.op = "due" /\ (Top.at < i \/ (Top.at = i /\ Top.phase = "test"))
              /\ ~(q.at < i \/ (q.at = i /\ q.phase = "test"))
  BY <1>1, <1>3, <1>4, TopMoves
<1>6. ASSUME NEW i \in 1 .. Len(files), Due(stack, i) PROVE Due(stack', i) \/ Brief(files'[i])
  <2>1. i \in Nat BY <1>1
  <2>2. CASE Due(stack', i) BY <2>2
  <2>3. CASE ~Due(stack', i)
    <3>1. q.at = Top.at /\ (Top.at < i \/ Top.at = i) /\ ~(q.at < i) BY <1>5, <1>6, <2>1, <2>3
    <3>2. i = Top.at BY <3>1
    <3> QED BY <1>3, <3>2
  <2> QED BY <2>2, <2>3
<1>7. \A i \in 1 .. Len(files) : Brief(files[i]) => Brief(files'[i]) BY <1>3
<1> QED BY <1>3, <1>5, <1>6, <1>7, Step

\* The call at the top goes on to the next entry, having changed this one or not.
LEMMA MoveStep ==
  ASSUME IInv, stack # <<>>, ~AtEnd, stack' = Next1, UNCHANGED Books, UNCHANGED Rest,
         NEW e \in Entry, Paired(e), files' = [files EXCEPT ![Top.at] = e],
         Brief(F) => Brief(e),
         Top.op = "due" /\ Top.phase = "test" => Brief(e)
  PROVE  IInv'
<1>1. stack \in Seq(Frame) /\ files \in Seq(Entry) /\ Len(files) \in Nat BY Known
<1>2. Top.at \in 1 .. Len(files) /\ Top.at \in Nat /\ F = files[Top.at] BY AtEntry
<1>3. /\ files' \in Seq(Entry) /\ Len(files') = Len(files) /\ files'[Top.at] = e
      /\ \A i \in 1 .. Len(files) : i # Top.at => files'[i] = files[i]
  BY <1>1, <1>2, FilesWith
<1>4. \A i \in 1 .. Len(files') : Paired(files'[i]) BY <1>3, Known
<1>5. Next1 \in Seq(Frame) /\
      \E q \in Frame : /\ q.op = Top.op /\ q.at = Top.at + 1 /\ q.phase = "test"
                       /\ Frames(Next1) = Frames(Below) \cup {q}
  BY <1>1, StackNext
<1>6. PICK q \in Frame : /\ q.op = Top.op /\ q.at = Top.at + 1 /\ q.phase = "test"
                         /\ Frames(Next1) = Frames(Below) \cup {q}
  BY <1>5
<1>7. /\ Reloading(Next1) => Reloading(stack)
      /\ \A i \in Nat : Due(stack, i) =>
           \/ Due(Next1, i)
           \/ /\ Top.op = "due" /\ (Top.at < i \/ (Top.at = i /\ Top.phase = "test"))
              /\ ~(q.at < i \/ (q.at = i /\ q.phase = "test"))
  BY <1>1, <1>6, TopMoves
<1>8. ASSUME NEW i \in 1 .. Len(files), Due(stack, i) PROVE Due(Next1, i) \/ Brief(files'[i])
  <2>1. i \in Nat BY <1>1
  <2>2. CASE Due(Next1, i) BY <2>2
  <2>3. CASE ~Due(Next1, i)
    <3>1. /\ Top.op = "due" /\ (Top.at < i \/ (Top.at = i /\ Top.phase = "test"))
          /\ ~(q.at < i) /\ q.at # i
      BY <1>6, <1>7, <1>8, <2>1, <2>3
    <3>2. ~(Top.at < i) BY <1>2, <1>6, <2>1, <3>1
    <3> QED BY <1>3, <3>1, <3>2
  <2> QED BY <2>2, <2>3
<1>9. \A i \in 1 .. Len(files) : Brief(files[i]) => Brief(files'[i]) BY <1>2, <1>3
<1>10. last' \in [Dests -> Lines] /\ owed' \in Debts /\ whole' \in SUBSET Dests /\ InBounds(hups, faults')
  BY Known DEF Books
<1> QED BY <1>3, <1>4, <1>5, <1>7, <1>8, <1>9, <1>10, Step

LEMMA PassStep ==
  ASSUME IInv, stack # <<>>, ~AtEnd, stack' = Next1, UNCHANGED files, UNCHANGED Books, UNCHANGED Rest,
         Top.op = "due" /\ Top.phase = "test" => Brief(F)
  PROVE  IInv'
<1>1. F \in Entry /\ Paired(F) /\ F = files[Top.at] BY AtEntry
<1>2. files \in Seq(Entry) BY Known
<1>3. files' = [files EXCEPT ![Top.at] = F] BY <1>1, <1>2
<1> QED BY <1>1, <1>3, MoveStep

\* The call at the top returns.
LEMMA PopStep ==
  ASSUME IInv, stack # <<>>, stack' = Below, UNCHANGED files, UNCHANGED Books, UNCHANGED Rest,
         Top.op = "due" => AtEnd
  PROVE  IInv'
<1>1. Below \in Seq(Frame) /\ Top \in Frame /\ Frames(stack) = Frames(Below) \cup {Top}
  BY Known, FramesTop
<1>2. Reloading(Below) => Reloading(stack) BY <1>1 DEF Reloading
<1>3. ASSUME NEW i \in 1 .. Len(files), Due(stack, i) PROVE Due(Below, i)
  <2>1. PICK r \in Frames(stack) : r.op = "due" /\ (r.at < i \/ (r.at = i /\ r.phase = "test"))
    BY <1>3 DEF Due
  <2>2. Len(files) \in Nat /\ Top.at \in Nat BY <1>1, Known DEF Frame
  <2>3. r # Top BY <2>1, <2>2 DEF AtEnd
  <2> QED BY <1>1, <2>1, <2>3 DEF Due
<1> QED BY <1>1, <1>2, <1>3, Known, Step DEF Books

-----------------------------------------------------------------------------
(* logmsg().                                                               *)

LEMMA EmptyShows ==
  ASSUME NEW f \in Entry, Paired(f)
  PROVE  <<IF Empty = Empty THEN f.prev ELSE Empty, f.host>> \in Lines
  BY DEF Paired

LEMMA BackoffEntry ==
  ASSUME NEW f \in Entry, Paired(f)
  PROVE  Backoff(f) \in Entry /\ Paired(Backoff(f)) /\ (Brief(f) => Brief(Backoff(f)))
<1> DEFINE r == IF f.rep < Len(RepeatInterval) THEN f.rep + 1 ELSE f.rep
           e == [f EXCEPT !.rep = r]
<1>1. f.rep \in 1 .. 2 /\ f.age \in Nat BY EntryFields, MaxAgeNat
<1>2. Len(RepeatInterval) = 2 /\ RepeatInterval[1] = 1 /\ RepeatInterval[2] = 2 BY DEF RepeatInterval
<1>3. r \in 1 .. 2 /\ RepeatInterval[f.rep] <= RepeatInterval[r]
  <2>1. CASE f.rep = 1 BY <1>2, <2>1
  <2>2. CASE f.rep = 2 BY <1>2, <2>2
  <2> QED BY <1>1, <2>1, <2>2
<1>4. RepeatInterval[f.rep] \in Nat /\ RepeatInterval[r] \in Nat BY <1>1, <1>2, <1>3
<1>5. Backoff(f) = e BY DEF Backoff
<1> HIDE DEF r
<1>6. e \in Entry /\ e.rep = r /\ e.age = f.age /\ e.count = f.count /\ e.type = f.type
      /\ e.prev = f.prev /\ e.host = f.host
  BY <1>3, EntryIs
<1> HIDE DEF e
<1>7. Brief(f) => Brief(e) BY <1>1, <1>3, <1>4, <1>6 DEF Brief
<1> QED BY <1>5, <1>6, <1>7 DEF Paired

LEMMA LogSkipStep == IInv /\ LogSkip => IInv'
<1> SUFFICES ASSUME IInv, LogSkip PROVE IInv' OBVIOUS
<1>1. stack # <<>> /\ ~AtEnd /\ Top.op = "log" /\ stack' = Next1 BY DEF LogSkip, Running
<1>2. UNCHANGED files /\ UNCHANGED Books /\ UNCHANGED Rest BY DEF LogSkip, Books, Rest, history
<1> QED BY <1>1, <1>2, PassStep

LEMMA LogRepeatStep == IInv /\ LogRepeat => IInv'
<1> SUFFICES ASSUME IInv, LogRepeat PROVE IInv' OBVIOUS
<1>1. stack # <<>> /\ ~AtEnd /\ Top.op = "log" BY DEF LogRepeat, Running
<1>2. UNCHANGED Rest BY DEF LogRepeat, Rest
<1> DEFINE f == [F EXCEPT !.count = F.count + 1]
<1>3. F \in Entry /\ Paired(F) BY <1>1, AtEntry
<1>4. f \in Entry /\ Paired(f)
  <2> DEFINE n == F.count + 1
             e == [F EXCEPT !.count = n]
  <2>1. n \in Nat BY <1>3, EntryFields
  <2> HIDE DEF n
  <2>2. e \in Entry /\ e.prev = F.prev /\ e.host = F.host BY <1>3, <2>1, EntryIs
  <2> QED BY <1>3, <2>2 DEF n, Paired
<1>5. IF Overdue(f) THEN Fprintlog(f, Top.m.host, Empty, InPhase("backoff"))
      ELSE /\ files' = [files EXCEPT ![Top.at] = f] /\ stack' = Next1
           /\ UNCHANGED <<last, owed, whole, faults>>
  BY DEF LogRepeat
<1> HIDE DEF f
<1>6. CASE Overdue(f)
  <2>1. InPhase("backoff") \in Seq(Frame) /\
        \E q \in Frame : q.op = Top.op /\ Frames(InPhase("backoff")) = Frames(Below) \cup {q}
    BY <1>1, Known, StackPhase DEF Phases
  <2> QED BY <1>1, <1>2, <1>4, <1>5, <1>6, <2>1, EmptyShows, PrintStep
<1>7. CASE ~Overdue(f)
  <2>1. Brief(f)
    <3>1. f.age \in Nat /\ f.rep \in {1, 2} BY <1>4, EntryFields, MaxAgeNat
    <3>2. RepeatInterval[f.rep] \in Nat BY <3>1 DEF RepeatInterval
    <3> QED BY <1>7, <3>1, <3>2 DEF Overdue, Brief
  <2>2. UNCHANGED Books BY <1>5, <1>7 DEF Books
  <2> QED BY <1>1, <1>2, <1>4, <1>5, <1>7, <2>1, <2>2, MoveStep
<1> QED BY <1>6, <1>7

LEMMA LogBackoffStep == IInv /\ (LogBackoff \/ DueBackoff) => IInv'
<1> SUFFICES ASSUME IInv, LogBackoff \/ DueBackoff PROVE IInv' OBVIOUS
<1>1. stack # <<>> /\ ~AtEnd /\ Top.phase = "backoff" /\ stack' = Next1
  BY DEF LogBackoff, DueBackoff, Running
<1>2. UNCHANGED Books /\ UNCHANGED Rest BY DEF LogBackoff, DueBackoff, Books, Rest, history
<1>3. F \in Entry /\ Paired(F) /\ F = files[Top.at] BY <1>1, AtEntry
<1>4. files' = [files EXCEPT ![Top.at] = Backoff(F)] BY <1>3 DEF LogBackoff, DueBackoff
<1>5. Backoff(F) \in Entry /\ Paired(Backoff(F)) /\ (Brief(F) => Brief(Backoff(F)))
  BY <1>3, BackoffEntry
<1> QED BY <1>1, <1>2, <1>4, <1>5, MoveStep

LEMMA LogFlushStep == IInv /\ LogFlush => IInv'
<1> SUFFICES ASSUME IInv, LogFlush PROVE IInv' OBVIOUS
<1>1. stack # <<>> /\ ~AtEnd /\ Top.op = "log" BY DEF LogFlush, Running
<1>2. UNCHANGED Rest /\ Fprintlog(F, Top.m.host, Empty, InPhase("save")) BY DEF LogFlush, Rest
<1>3. F \in Entry /\ Paired(F) BY <1>1, AtEntry
<1>4. InPhase("save") \in Seq(Frame) /\
      \E q \in Frame : q.op = Top.op /\ Frames(InPhase("save")) = Frames(Below) \cup {q}
  BY <1>1, Known, StackPhase DEF Phases
<1> QED BY <1>1, <1>2, <1>3, <1>4, EmptyShows, PrintStep

LEMMA LogSaveStep == IInv /\ LogSave => IInv'
<1> SUFFICES ASSUME IInv, LogSave PROVE IInv' OBVIOUS
<1>1. stack # <<>> /\ ~AtEnd /\ Top.op = "log" BY DEF LogSave, Running
<1> DEFINE m == Top.m
           f == Saved(F, m)
           text == IF m.text \in LongTexts THEN m.text ELSE Empty
<1>2. UNCHANGED Rest /\ Fprintlog(f, m.host, text, Next1) BY DEF LogSave, Rest
<1>3. Top \in Frame BY <1>1, Known, FramesTop
<1>4. m \in Msgs \cup OwnMsgs BY <1>3 DEF Frame
<1>5. F \in Entry BY <1>1, AtEntry
<1> HIDE DEF m
<1>6. f \in Entry /\ Paired(f) /\ <<IF text = Empty THEN f.prev ELSE text, f.host>> \in Lines
  BY <1>4, <1>5, SavedEntry
<1>7. Next1 \in Seq(Frame) /\
      \E q \in Frame : q.op = Top.op /\ Frames(Next1) = Frames(Below) \cup {q}
  BY <1>1, Known, StackNext
<1> HIDE DEF f, text
<1> QED BY <1>1, <1>2, <1>6, <1>7, PrintStep

LEMMA LogReturnStep == IInv /\ (LogReturn \/ DueReturn) => IInv'
<1> SUFFICES ASSUME IInv, LogReturn \/ DueReturn PROVE IInv' OBVIOUS
<1>1. stack # <<>> /\ AtEnd /\ stack' = Below BY DEF LogReturn, DueReturn, Running
<1>2. UNCHANGED files /\ UNCHANGED Books /\ UNCHANGED Rest
  BY DEF LogReturn, DueReturn, Books, Rest, history
<1> QED BY <1>1, <1>2, PopStep

-----------------------------------------------------------------------------
(* The main loop, init(), domark() and die().                              *)

LEMMA FlushStep == \A op \in {"close", "die"} : IInv /\ Flush(op) => IInv'
<1> SUFFICES ASSUME NEW op \in {"close", "die"}, IInv, Flush(op) PROVE IInv' OBVIOUS
<1>1. stack # <<>> /\ ~AtEnd /\ Top.op # "due" BY DEF Flush, Running
<1>2. UNCHANGED Rest BY DEF Flush, Rest
<1>3. F \in Entry /\ Paired(F) BY <1>1, AtEntry
<1>4. CASE F.count > 0
  <2>1. Fprintlog(F, Local, Empty, Next1) BY <1>4 DEF Flush
  <2>2. Next1 \in Seq(Frame) /\
        \E q \in Frame : q.op = Top.op /\ Frames(Next1) = Frames(Below) \cup {q}
    BY <1>1, Known, StackNext
  <2> QED BY <1>1, <1>2, <1>3, <2>1, <2>2, EmptyShows, PrintStep
<1>5. CASE ~(F.count > 0)
  <2>1. stack' = Next1 /\ UNCHANGED files /\ UNCHANGED Books BY <1>5 DEF Flush, Books
  <2> QED BY <1>1, <1>2, <2>1, PassStep
<1> QED BY <1>4, <1>5

LEMMA DueFlushStep == IInv /\ DueFlush => IInv'
<1> SUFFICES ASSUME IInv, DueFlush PROVE IInv' OBVIOUS
<1>1. stack # <<>> /\ ~AtEnd /\ Top.op = "due" BY DEF DueFlush, Running
<1>2. UNCHANGED Rest BY DEF DueFlush, Rest
<1>3. F \in Entry /\ Paired(F) BY <1>1, AtEntry
<1>4. CASE IsDue(F)
  <2>1. Fprintlog(F, Local, Empty, InPhase("backoff")) BY <1>4 DEF DueFlush
  <2>2. InPhase("backoff") \in Seq(Frame) /\
        \E q \in Frame : /\ q.op = Top.op /\ q.at = Top.at
                         /\ Frames(InPhase("backoff")) = Frames(Below) \cup {q}
    BY <1>1, Known, StackPhase DEF Phases
  <2> QED BY <1>1, <1>2, <1>3, <2>1, <2>2, EmptyShows, PrintStep
<1>5. CASE ~IsDue(F)
  <2>1. stack' = Next1 /\ UNCHANGED files /\ UNCHANGED Books BY <1>5 DEF DueFlush, Books
  <2>2. Brief(F)
    <3>1. F.age \in Nat /\ F.rep \in {1, 2} BY <1>3, EntryFields, MaxAgeNat
    <3>2. RepeatInterval[F.rep] \in Nat BY <3>1 DEF RepeatInterval
    <3> QED BY <1>5, <3>1, <3>2 DEF IsDue, Brief
  <2> QED BY <1>1, <1>2, <2>1, <2>2, PassStep
<1> QED BY <1>4, <1>5

\* A call with one frame on the stack.
LEMMA OneCall ==
  ASSUME NEW r \in Frame PROVE <<r>> \in Seq(Frame) /\ Frames(<<r>>) = {r}
<1>1. <<>> \in Seq(Frame) /\ Append(<<>>, r) = <<r>> OBVIOUS
<1> QED BY <1>1, FramesAppend, FramesEmpty

LEMMA Received ==
  ASSUME NEW m \in Msgs, Receive(m)
  PROVE  stack = <<>> /\ stack' \in Seq(Frame) /\ Frames(stack') = {Call("next", m)}
<1> DEFINE a == Call("next", m)
<1>1. stack = <<>> /\ stack' = IF Twice(m) THEN <<a, a>> ELSE <<a>> BY DEF Receive, Idle
<1>2. a \in Frame /\ a.op = "next" BY CallFrame DEF Ops, Call
<1> HIDE DEF a
<1>3. stack' \in Seq(Frame) /\ Frames(stack') = {a}
  <2>1. CASE Twice(m)
    <3>1. stack' = Append(<<a>>, a) BY <1>1, <2>1
    <3>2. <<a>> \in Seq(Frame) /\ Frames(<<a>>) = {a} BY <1>2, OneCall
    <3> DEFINE s == <<a>>
    <3> HIDE DEF s
    <3>3. Append(s, a) \in Seq(Frame) /\ Frames(Append(s, a)) = Frames(s) \cup {a}
      BY <1>2, <3>2, FramesAppend DEF s
    <3> QED BY <3>1, <3>2, <3>3 DEF s
  <2>2. CASE ~Twice(m) BY <1>1, <1>2, <2>2, OneCall
  <2> QED BY <2>1, <2>2
<1> QED BY <1>1, <1>3 DEF a

LEMMA ReceiveStep == \A m \in Msgs : IInv /\ Receive(m) => IInv'
<1> SUFFICES ASSUME NEW m \in Msgs, IInv, Receive(m) PROVE IInv' OBVIOUS
<1> DEFINE a == Call("next", m)
<1>2. a.op = "next" BY DEF Call
<1>3. stack = <<>> /\ stack' \in Seq(Frame) /\ Frames(stack') = {a} BY Received
<1> HIDE DEF a
<1>4. UNCHANGED <<conf, files, restart, markseq, alarm, dead, read, last, whole, late, hups, faults>>
  BY DEF Receive, history
<1>5. owed' \in Debts BY Known DEF Receive, history
<1>6. batch' \in 0 .. MaxBatch
  <2>1. batch \in 0 .. MaxBatch /\ MaxBatch \in Nat BY Numbers DEF IInv, TInv, TypeOK
  <2>2. batch' \in IF batch > 0 THEN {batch - 1} ELSE 0 .. MaxBatch - 1 BY DEF Receive
  <2> QED BY <2>1, <2>2
<1>7. TInv' BY <1>3, <1>4, <1>5, <1>6 DEF IInv, TInv, TypeOK, Debts, Paired
<1>8. Held'
  <2>1. \A i : ~Due(stack, i) BY <1>3, FramesEmpty DEF Due
  <2> QED BY <1>4, <2>1 DEF IInv, Held
<1>9. Heeded' BY <1>2, <1>3, <1>4 DEF IInv, Heeded, HangupHeeded, Reloading
<1> QED BY <1>7, <1>8, <1>9 DEF IInv

\* Calls that are made while others are in progress.
LEMMA PushStep ==
  ASSUME IInv, stack' \in Seq(Frame), UNCHANGED files, UNCHANGED Rest,
         \A r \in Frames(stack) : r.op = "due" => r \in Frames(stack'),
         \A r \in Frames(stack') : r.op = "reload" => r \in Frames(stack),
         UNCHANGED <<last, whole, faults>>, owed' \in Debts
  PROVE  IInv'
<1>1. Reloading(stack') => Reloading(stack) BY DEF Reloading
<1>2. \A i : Due(stack, i) => Due(stack', i) BY DEF Due
<1> QED BY <1>1, <1>2, Known, Step

LEMMA RestartStep == IInv /\ Restart => IInv'
<1> SUFFICES ASSUME IInv, Restart PROVE IInv' OBVIOUS
<1>1. stack = <<>> /\ stack' = <<Call("close", Restarted)>> BY DEF Restart, Idle
<1>2. Call("close", Restarted) \in Frame /\ Call("close", Restarted).op = "close"
  BY CallFrame, OwnCalls DEF Ops, Call
<1>3. stack' \in Seq(Frame) /\ Frames(stack') = {Call("close", Restarted)} BY <1>1, <1>2, OneCall
<1>4. UNCHANGED files /\ UNCHANGED Rest /\ UNCHANGED <<last, whole, faults>> /\ owed' \in Debts
  BY Known DEF Restart, Rest, history
<1> QED BY <1>1, <1>2, <1>3, <1>4, FramesEmpty, PushStep

LEMMA TermStep == IInv /\ Term => IInv'
<1> SUFFICES ASSUME IInv, Term PROVE IInv' OBVIOUS
<1>1. stack \in Seq(Frame) BY Known
<1>2. Call("die", Exiting) \in Frame /\ Call("die", Exiting).op = "die"
  BY CallFrame, OwnCalls DEF Ops, Call
<1>3. stack' \in Seq(Frame) /\ Frames(stack') = Frames(stack) \cup {Call("die", Exiting)}
  BY <1>1, <1>2, FramesAppend DEF Term
<1>4. UNCHANGED files /\ UNCHANGED Rest /\ UNCHANGED <<last, whole, faults>> /\ owed' \in Debts
  BY Known DEF Term, Rest, history
<1> QED BY <1>2, <1>3, <1>4, PushStep

LEMMA TwoCalls ==
  ASSUME NEW st \in Seq(Frame), NEW a \in Frame, NEW b \in Frame
  PROVE  /\ Append(Append(st, a), b) \in Seq(Frame)
         /\ Frames(Append(Append(st, a), b)) = Frames(st) \cup {a, b}
<1> DEFINE s == Append(st, a)
<1>1. s \in Seq(Frame) /\ Frames(s) = Frames(st) \cup {a} BY FramesAppend
<1> HIDE DEF s
<1>2. Append(s, b) \in Seq(Frame) /\ Frames(Append(s, b)) = Frames(s) \cup {b} BY <1>1, FramesAppend
<1> QED BY <1>1, <1>2 DEF s

LEMMA DieLogStep == IInv /\ DieLog => IInv'
<1> SUFFICES ASSUME IInv, DieLog PROVE IInv' OBVIOUS
<1>1. stack \in Seq(Frame) /\ stack # <<>> /\ Top.op = "die" BY Known DEF DieLog, Running
<1>2. Below \in Seq(Frame) /\ Frames(stack) = Frames(Below) \cup {Top} BY <1>1, FramesTop
<1> DEFINE a == Call("exit", Exiting)
           b == Call("log", Exiting)
<1>3. a \in Frame /\ b \in Frame /\ a.op = "exit" /\ b.op = "log"
  BY CallFrame, OwnCalls DEF Ops, Call
<1>4. stack' = Append(Append(Below, a), b) BY DEF DieLog
<1> HIDE DEF a, b
<1>5. stack' \in Seq(Frame) /\ Frames(stack') = Frames(Below) \cup {a, b}
  BY <1>2, <1>3, <1>4, TwoCalls
<1>6. UNCHANGED files /\ UNCHANGED Rest /\ UNCHANGED <<last, whole, faults>> BY DEF DieLog, Rest
<1>7. owed' \in Debts BY Known, OwingType DEF DieLog
<1> QED BY <1>1, <1>2, <1>3, <1>5, <1>6, <1>7, PushStep

LEMMA LogCallStep == IInv /\ LogCall => IInv'
<1> SUFFICES ASSUME IInv, LogCall PROVE IInv' OBVIOUS
<1>1. stack \in Seq(Frame) /\ stack # <<>> /\ Top.op = "next" BY Known DEF LogCall, Running
<1>2. Below \in Seq(Frame) /\ Top \in Frame /\ Frames(stack) = Frames(Below) \cup {Top}
  BY <1>1, FramesTop
<1> DEFINE b == Call("log", Top.m)
<1>3. Top.m \in Msgs \cup OwnMsgs BY <1>2 DEF Frame
<1>4. b \in Frame /\ b.op = "log" BY <1>3, CallFrame DEF Ops, Call
<1>5. stack' = Append(Below, b) BY DEF LogCall
<1> HIDE DEF b
<1>6. stack' \in Seq(Frame) /\ Frames(stack') = Frames(Below) \cup {b}
  BY <1>2, <1>4, <1>5, FramesAppend
<1>7. UNCHANGED files /\ UNCHANGED Rest /\ UNCHANGED <<last, whole, faults>> BY DEF LogCall, Rest
<1>8. owed' \in Debts BY Known, OwingType DEF LogCall
<1> QED BY <1>1, <1>2, <1>4, <1>6, <1>7, <1>8, PushStep

\* An entry whose repeats have been written and are still counted.
LEMMA TermInWriteStep == IInv /\ TermInWrite => IInv'
<1> SUFFICES ASSUME IInv, TermInWrite PROVE IInv' OBVIOUS
<1>1. stack # <<>> /\ ~AtEnd /\ stack' = Append(stack, Call("die", Exiting)) BY DEF TermInWrite
<1>2. /\ Top.at \in 1 .. Len(files) /\ F = files[Top.at] /\ F \in Entry /\ Paired(F)
      /\ files \in Seq(Entry) /\ stack \in Seq(Frame)
  BY <1>1, AtEntry, Known
<1> DEFINE G == [F EXCEPT !.count = @ + 1]
<1>3. PICK f \in {F, G} :
        /\ Repeating(f) /\ f.type # "UNKN" /\ Arrives(f, Top.m.host, "ok")
        /\ files' = [files EXCEPT ![Top.at] =
                        [Printed(f, Top.m.host, "ok") EXCEPT !.count = f.count]]
        /\ last' = IF f.count > 1 THEN last ELSE [last EXCEPT ![f.dest] = <<f.prev, f.host>>]
        /\ whole' = whole \ {f.dest} /\ owed' = [owed EXCEPT ![f.dest] = Nothing]
  BY DEF TermInWrite
<1>4. G \in Entry /\ Paired(G)
  <2> DEFINE n == F.count + 1
             e == [F EXCEPT !.count = n]
  <2>1. n \in Nat BY <1>2, EntryFields
  <2> HIDE DEF n
  <2>2. e \in Entry /\ e.prev = F.prev /\ e.host = F.host BY <1>2, <2>1, EntryIs
  <2> QED BY <1>2, <2>2 DEF n, Paired
<1> HIDE DEF G
<1>5. f \in Entry /\ Paired(f) /\ f.count \in Nat /\ f.dest \in Dests BY <1>2, <1>3, <1>4, EntryFields
<1> DEFINE p == Printed(f, Top.m.host, "ok")
           n == f.count
           e == [p EXCEPT !.count = n]
<1>6. p \in Entry /\ p.prev = f.prev /\ p.host = f.host /\ p.age = 0
  <2>1. f.type # "UNKN" /\ (f.type \in Locals \/ Sends(f, Top.m.host, "ok")) BY <1>3 DEF Arrives
  <2>2. p.age = 0
    <3> DEFINE t == NextType(f, Top.m.host, "ok")
               k == IF t # "UNKN" THEN 0 ELSE IF Retried(f, "ok") THEN f.count - 1 ELSE f.count
    <3>1. p = [f EXCEPT !.type = t, !.age = 0, !.count = k] BY <2>1 DEF Printed
    <3> HIDE DEF t, k, p
    <3> QED BY <1>5, <3>1, EntryIs
  <2> QED BY <1>5, <2>2, PrintedEntry
<1> HIDE DEF p, n
<1>7. e \in Entry /\ e.prev = f.prev /\ e.host = f.host /\ e.age = 0 /\ e.rep = p.rep
  BY <1>5, <1>6, EntryIs DEF n
<1>8. files' = [files EXCEPT ![Top.at] = e] BY <1>3 DEF p, n
<1> HIDE DEF e
<1>9. Paired(e) BY <1>5, <1>7 DEF Paired
<1>10. Brief(e)
  <2>1. e.rep \in {1, 2} BY <1>7, EntryFields
  <2>2. RepeatInterval[e.rep] \in {1, 2} BY <2>1 DEF RepeatInterval
  <2> QED BY <1>7, <2>2 DEF Brief
<1>11. /\ files' \in Seq(Entry) /\ Len(files') = Len(files) /\ files'[Top.at] = e
       /\ \A i \in 1 .. Len(files) : i # Top.at => files'[i] = files[i]
  BY <1>2, <1>7, <1>8, FilesWith
<1>12. Call("die", Exiting) \in Frame /\ Call("die", Exiting).op = "die"
  BY CallFrame, OwnCalls DEF Ops, Call
<1>13. stack' \in Seq(Frame) /\ Frames(stack') = Frames(stack) \cup {Call("die", Exiting)}
  BY <1>1, <1>2, <1>12, FramesAppend
<1>14. Reloading(stack') => Reloading(stack) BY <1>12, <1>13 DEF Reloading
<1>15. \A i : Due(stack, i) => Due(stack', i) BY <1>13 DEF Due
<1>16. last' \in [Dests -> Lines] /\ owed' \in Debts /\ whole' \in SUBSET Dests
  <2>1. Nothing \in [Lines -> Int] BY DEF Nothing
  <2>2. <<f.prev, f.host>> \in Lines BY <1>5 DEF Paired
  <2>3. last' \in [Dests -> Lines]
    <3> DEFINE d == f.dest
               l == <<f.prev, f.host>>
    <3>1. last \in [Dests -> Lines] /\ d \in Dests /\ l \in Lines BY <1>5, <2>2, Known
    <3> HIDE DEF d, l
    <3>2. [last EXCEPT ![d] = l] \in [Dests -> Lines] BY <3>1
    <3> QED BY <1>3, <3>1, <3>2 DEF d, l
  <2>4. owed' \in Debts
    <3> DEFINE d == f.dest
    <3>1. owed \in Debts /\ d \in Dests BY <1>5, Known
    <3> HIDE DEF d
    <3>2. [owed EXCEPT ![d] = Nothing] \in Debts BY <2>1, <3>1 DEF Debts
    <3> QED BY <1>3, <3>2 DEF d
  <2> QED BY <1>3, <2>3, <2>4, Known
<1>17. \A i \in 1 .. Len(files') : Paired(files'[i]) BY <1>9, <1>11, Known
<1>18. UNCHANGED Rest /\ faults' = faults BY DEF TermInWrite, Rest
<1>19. InBounds(hups, faults') BY <1>18, Known
<1> QED BY <1>10, <1>11, <1>13, <1>14, <1>15, <1>16, <1>17, <1>18, <1>19, Step

\* What init() ends with.
LEMMA Announced ==
  ASSUME NEW st \in Seq(Frame), NEW c
  PROVE  LET q == st \o Announce(c)
         IN  /\ q = IF c = Fallback THEN st ELSE Append(st, Call("next", Restarted))
             /\ q \in Seq(Frame)
             /\ Frames(q) \subseteq Frames(st) \cup {Call("next", Restarted)}
<1> DEFINE b == Call("next", Restarted)
<1>1. b \in Frame BY CallFrame, OwnCalls DEF Ops
<1>2. Announce(c) = IF c = Fallback THEN <<>> ELSE <<b>> BY DEF Announce
<1> HIDE DEF b
<1>3. st \o <<>> = st /\ st \o <<b>> = Append(st, b) BY <1>1
<1>4. Append(st, b) \in Seq(Frame) /\ Frames(Append(st, b)) = Frames(st) \cup {b}
  BY <1>1, FramesAppend
<1> QED BY <1>2, <1>3, <1>4 DEF b

\* The entries made of a file.
LEMMA OpenedFacts ==
  ASSUME NEW c \in Confs, NEW t \in Outcomes(c)
  PROVE  /\ Opened(c, t) \in Seq(Entry)
         /\ \A i \in 1 .. Len(Opened(c, t)) : Paired(Opened(c, t)[i]) /\ Brief(Opened(c, t)[i])
         /\ \A T : DestsOf(Opened(c, t), T) \subseteq Dests
         /\ Faulty(c, t) \in Nat
<1>1. c \in Seq(ConfLine) /\ Len(c) \in Nat BY ConfAssumption
<1>2. \A i \in 1 .. Len(c) : t[i] \in Types BY DEF Outcomes, Types
<1>3. ASSUME NEW i \in 1 .. Len(c)
      PROVE  LET e == Blank(c[i], Cflines(c)[i], t[i])
             IN  e \in Entry /\ Paired(e) /\ Brief(e) /\ e.dest \in Dests
  <2> DEFINE n == IF t[i] = "UNKN" THEN RetryMax ELSE 0
             k == Cflines(c)[i]
             d == c[i].dest
             y == t[i]
             e == Blank(c[i], k, y)
  <2>1. n \in Nat /\ d \in Dests /\ y \in Types /\ (y # "UNKN" => n = 0)
    BY <1>1, <1>2, LineType, Numbers
  <2>2. k \in Masks BY <1>1, MasksFollowRule DEF Masks
  <2>3. Empty \in Texts /\ NoHost \in Hosts BY BlankLines, LineParts
  <2>4. 1 \in 1 .. 2 /\ 0 \in 0 .. MaxAge BY MaxAgeNat
  <2>5. e = [type |-> y, dest |-> d, mask |-> k, prev |-> Empty, host |-> NoHost,
             count |-> n, rep |-> 1, age |-> 0]
    BY DEF Blank
  <2> HIDE DEF n, k, d, y, e
  <2>6. e \in Entry BY <2>1, <2>2, <2>3, <2>4, <2>5, EntryIs
  <2>7. e.prev = Empty /\ e.host = NoHost /\ e.type = y /\ e.count = n /\ e.dest = d BY <2>5
  <2>8. Paired(e) BY <2>7, BlankLines DEF Paired
  <2>9. Brief(e) BY <2>1, <2>7 DEF Brief
  <2> QED BY <2>1, <2>6, <2>7, <2>8, <2>9 DEF e, k, y
<1> DEFINE fs == Opened(c, t)
<1>4. fs = [i \in 1 .. Len(c) |-> Blank(c[i], Cflines(c)[i], t[i])] BY DEF Opened
<1>5. fs \in Seq(Entry) /\ Len(fs) = Len(c)
  <2> DEFINE e(i) == Blank(c[i], Cflines(c)[i], t[i])
             n == Len(c)
  <2>1. \A i \in 1 .. n : e(i) \in Entry BY <1>3
  <2>2. fs = [i \in 1 .. n |-> e(i)] /\ n \in Nat BY <1>1, <1>4
  <2> HIDE DEF e, fs, n
  <2>3. fs \in Seq(Entry) /\ Len(fs) = n BY <2>1, <2>2
  <2> QED BY <2>3 DEF n
<1>6. \A i \in 1 .. Len(fs) : Paired(fs[i]) /\ Brief(fs[i]) /\ fs[i].dest \in Dests
  <2> HIDE DEF fs
  <2> QED BY <1>3, <1>4, <1>5
<1>7. \A T : DestsOf(fs, T) \subseteq Dests
  <2> HIDE DEF fs
  <2> QED BY <1>6 DEF DestsOf
<1>8. Faulty(c, t) \in Nat
  <2> DEFINE S == {i \in 1 .. Len(c) : t[i] # c[i].type}
  <2>1. IsFiniteSet(1 .. Len(c)) BY <1>1, FS_Interval
  <2>2. S \subseteq 1 .. Len(c) OBVIOUS
  <2>3. IsFiniteSet(S)
    <3> HIDE DEF S
    <3> QED BY <2>1, <2>2, FS_Subset
  <2>4. Cardinality(S) \in Nat
    <3> HIDE DEF S
    <3> QED BY <2>3, FS_CardinalityType
  <2> QED BY <2>4 DEF Faulty
<1> QED BY <1>5, <1>6, <1>7, <1>8

LEMMA ReadConfStep == IInv /\ ReadConf => IInv'
<1> SUFFICES ASSUME IInv, ReadConf PROVE IInv' OBVIOUS
<1>1. stack \in Seq(Frame) /\ stack # <<>> BY Known DEF ReadConf, Running
<1>2. Below \in Seq(Frame) BY <1>1, FramesTop
<1> DEFINE a == Call("reload", Restarted)
<1>3. a \in Frame BY CallFrame, OwnCalls DEF Ops
<1>4. stack' = Append(Below, a) \o Announce(conf) BY DEF ReadConf
<1> HIDE DEF a
<1>5. stack' \in Seq(Frame)
  <2>1. Append(Below, a) \in Seq(Frame) BY <1>2, <1>3, FramesAppend
  <2> QED BY <1>4, <2>1, Announced
<1>6. read' = conf /\ late' = FALSE /\ UNCHANGED <<conf, batch, restart, markseq, alarm, dead, last, hups>> BY DEF ReadConf
<1>7. conf \in Confs BY DEF IInv, TInv, TypeOK
<1>8. PICK t \in Outcomes(conf) : /\ hups + faults + Faulty(conf, t) <= MaxTroubles
                                  /\ files' = Opened(conf, t) /\ faults' = faults + Faulty(conf, t)
  BY DEF ReadConf
<1>9. /\ files' \in Seq(Entry) /\ (\A i \in 1 .. Len(files') : Paired(files'[i]) /\ Brief(files'[i]))
      /\ (\A T : DestsOf(files', T) \subseteq Dests) /\ Faulty(conf, t) \in Nat
  BY <1>7, <1>8, OpenedFacts
<1>10. InBounds(hups, faults')
  <2> DEFINE n == Faulty(conf, t)
  <2>1. n \in Nat /\ hups + faults + n <= MaxTroubles /\ faults' = faults + n BY <1>8, <1>9
  <2> HIDE DEF n
  <2>2. hups \in Nat /\ faults \in Nat /\ MaxTroubles \in Nat BY Known, Numbers DEF InBounds
  <2> QED BY <2>1, <2>2 DEF InBounds
<1>11. whole' \in SUBSET Dests
  <2>1. whole' = (whole \ DestsOf(files', {"UNKN", "UNUSED"})) \cup DestsOf(files', Locals \cup {"FORW"})
    BY DEF ReadConf
  <2> QED BY <1>9, <2>1, Known
<1>12. owed' \in Debts
  <2>1. Nothing \in [Lines -> Int] BY DEF Nothing
  <2>2. owed \in Debts BY Known
  <2>3. owed' = [d \in Dests |-> IF d \in whole' THEN owed[d] ELSE Nothing] BY DEF ReadConf
  <2> QED BY <2>1, <2>2, <2>3 DEF Debts
<1>13. TInv' BY <1>5, <1>6, <1>7, <1>9, <1>10, <1>11, <1>12 DEF IInv, TInv, TypeOK, Debts, InBounds
<1>14. Held' BY <1>9 DEF Held
<1>15. Heeded' BY <1>6 DEF Heeded, HangupHeeded
<1> QED BY <1>13, <1>14, <1>15 DEF IInv

LEMMA RestartDoneStep == IInv /\ RestartDone => IInv'
<1> SUFFICES ASSUME IInv, RestartDone PROVE IInv' OBVIOUS
<1>1. stack \in Seq(Frame) /\ stack # <<>> /\ Top.op = "reload" /\ stack' = Below
  BY Known DEF RestartDone, Running
<1>2. Below \in Seq(Frame) /\ Frames(stack) = Frames(Below) \cup {Top} BY <1>1, FramesTop
<1>3. restart' = FALSE
      /\ UNCHANGED <<conf, files, batch, markseq, alarm, dead, read, last, owed, whole, late, hups, faults>>
  BY DEF RestartDone, history
<1>4. Reloading(stack) BY <1>1, <1>2 DEF Reloading
<1>5. TInv' BY <1>1, <1>2, <1>3 DEF IInv, TInv, TypeOK, Paired
<1>6. Held'
  <2>1. ASSUME NEW i, Due(stack, i) PROVE Due(stack', i)
    BY <1>1, <1>2, <2>1 DEF Due
  <2> QED BY <1>3, <2>1 DEF IInv, Held
<1>7. Heeded'
  <2>1. conf = read \/ late BY <1>4 DEF IInv, Heeded
  <2> QED BY <1>3, <2>1 DEF Heeded, HangupHeeded
<1> QED BY <1>5, <1>6, <1>7 DEF IInv

LEMMA HangupStep == IInv /\ Hangup => IInv'
<1> SUFFICES ASSUME IInv, Hangup PROVE IInv' OBVIOUS
<1>1. /\ hups + faults < MaxTroubles /\ hups' = hups + 1 /\ restart' = TRUE /\ conf' \in Confs
      /\ UNCHANGED <<files, stack, batch, markseq, alarm, dead, read, last, owed, whole, faults>>
  BY DEF Hangup, HangupIf
<1>2. late' \in BOOLEAN /\ (late' <=> Reloading(stack))
  <2>1. late' = \E i \in 1 .. Len(stack) : stack[i].op = "reload" BY DEF Hangup, HangupIf
  <2>2. Reloading(stack) <=> \E i \in 1 .. Len(stack) : stack[i].op = "reload" BY DEF Reloading, Frames
  <2> QED BY <2>1, <2>2, Zenon
<1>3. hups' \in Nat /\ hups' + faults' <= MaxTroubles
  BY <1>1, Numbers DEF IInv, TInv, TypeOK
<1>4. TInv' BY <1>1, <1>2, <1>3 DEF IInv, TInv, TypeOK, Paired
<1>5. Held' BY <1>1 DEF IInv, Held
<1>6. Heeded' BY <1>1, <1>2 DEF Heeded, HangupHeeded
<1> QED BY <1>4, <1>5, <1>6 DEF IInv

LEMMA TickStep == IInv /\ Tick => IInv'
<1> SUFFICES ASSUME IInv, Tick PROVE IInv' OBVIOUS
<1>1. /\ alarm' = TRUE
      /\ UNCHANGED <<conf, stack, batch, restart, markseq, dead, read, last, owed, whole, late, hups, faults>>
  BY DEF Tick, history
<1> DEFINE a(i) == IF files[i].age < MaxAge THEN files[i].age + 1 ELSE files[i].age
           e(i) == [files[i] EXCEPT !.age = a(i)]
           n == Len(files)
<1>2. files' = [i \in 1 .. n |-> e(i)] /\ n \in Nat BY Known DEF Tick
<1>3. ASSUME NEW i \in 1 .. n PROVE e(i) \in Entry /\ Paired(e(i))
  <2>1. files[i] \in Entry /\ Paired(files[i]) BY Known
  <2>2. a(i) \in 0 .. MaxAge
    <3>1. files[i].age \in 0 .. MaxAge /\ MaxAge \in Nat BY <2>1, EntryFields, MaxAgeNat
    <3> QED BY <3>1
  <2> DEFINE g == files[i]
             h == [g EXCEPT !.age = a(i)]
  <2> HIDE DEF a, g
  <2>3. g \in Entry BY <2>1 DEF g
  <2>4. h \in Entry /\ h.prev = g.prev /\ h.host = g.host BY <2>2, <2>3, EntryIs
  <2>5. e(i) = h BY DEF g
  <2> HIDE DEF h, e
  <2> QED BY <2>1, <2>4, <2>5 DEF Paired, g
<1> HIDE DEF e, n
<1>4. files' \in Seq(Entry) /\ Len(files') = n BY <1>2, <1>3
<1>5. \A i \in 1 .. Len(files') : Paired(files'[i]) BY <1>2, <1>3, <1>4
<1>6. TInv' BY <1>1, <1>4, <1>5 DEF IInv, TInv, TypeOK
<1>7. Held' BY <1>1 DEF Held
<1>8. Heeded' BY <1>1 DEF IInv, Heeded, HangupHeeded
<1> QED BY <1>6, <1>7, <1>8 DEF IInv

LEMMA DomarkStep == IInv /\ Domark => IInv'
<1> SUFFICES ASSUME IInv, Domark PROVE IInv' OBVIOUS
<1> DEFINE due == MarkInterval > 0 /\ markseq + 1 >= MarkInterval
           a == Call("due", Mark)
           b == Call("log", Mark)
<1>1. UNCHANGED <<conf, files, batch, restart, dead, read, last, owed, whole, late, hups, faults>>
  BY DEF Domark, history
<1>2. stack' = Append(stack, a) \o (IF due THEN <<b>> ELSE <<>>) BY DEF Domark
<1>3. a \in Frame /\ b \in Frame /\ b.op = "log" /\ a.op = "due" /\ a.at = 1 /\ a.phase = "test"
  BY CallFrame, OwnCalls DEF Ops, Call
<1>4. markseq' \in 0 .. MarkInterval
  <2>1. markseq' = IF due \/ MarkInterval = 0 THEN 0 ELSE markseq + 1 BY DEF Domark
  <2>2. markseq \in Nat /\ MarkInterval \in Nat BY Numbers DEF IInv, TInv, TypeOK
  <2> QED BY <2>1, <2>2
<1> HIDE DEF a, b, due
<1>5. stack' \in Seq(Frame) /\ a \in Frames(stack') /\ Frames(stack') \subseteq Frames(stack) \cup {a, b}
  <2> DEFINE s == Append(stack, a)
  <2>1. s \in Seq(Frame) /\ Frames(s) = Frames(stack) \cup {a} BY <1>3, Known, FramesAppend
  <2>2. stack' = s \o (IF due THEN <<b>> ELSE <<>>) BY <1>2
  <2> HIDE DEF s
  <2>3. CASE due
    <3>1. stack' = Append(s, b) BY <1>3, <2>1, <2>2, <2>3
    <3> QED BY <1>3, <2>1, <3>1, FramesAppend
  <2>4. CASE ~due
    <3>1. stack' = s BY <2>1, <2>2, <2>4
    <3> QED BY <2>1, <3>1
  <2> QED BY <2>3, <2>4
<1>6. alarm' = FALSE BY DEF Domark
<1>7. TInv' BY <1>1, <1>4, <1>5, <1>6 DEF IInv, TInv, TypeOK, Paired
<1>8. Held'
  <2>1. ASSUME NEW i \in 1 .. Len(files) PROVE Due(stack', i)
    <3>1. i \in Nat /\ (1 < i \/ 1 = i) BY Known
    <3> QED BY <1>3, <1>5, <3>1 DEF Due
  <2> QED BY <1>1, <2>1 DEF Held
<1>9. Heeded' BY <1>1, <1>3, <1>5 DEF IInv, Heeded, HangupHeeded, Reloading
<1> QED BY <1>7, <1>8, <1>9 DEF IInv

LEMMA ExitStep == IInv /\ Exit => IInv'
<1> SUFFICES ASSUME IInv, Exit PROVE IInv' OBVIOUS
<1>1. dead' = TRUE
      /\ UNCHANGED <<conf, files, stack, batch, restart, markseq, alarm, read, last, owed, whole, late, hups, faults>>
  BY DEF Exit, history
<1>2. TInv' BY <1>1 DEF IInv, TInv, TypeOK, Paired
<1>3. Held' /\ Heeded' BY <1>1 DEF IInv, Held, Heeded, HangupHeeded
<1> QED BY <1>2, <1>3 DEF IInv

LEMMA InitInv == Init => IInv
<1> SUFFICES ASSUME Init PROVE IInv OBVIOUS
<1>1. /\ conf \in Confs /\ read = conf /\ stack = Announce(conf)
      /\ batch = 0 /\ markseq = 0 /\ hups = 0 /\ restart = FALSE /\ alarm = FALSE /\ dead = FALSE
      /\ last = [d \in Dests |-> NoLine] /\ whole = DestsOf(files, Locals \cup {"FORW"})
      /\ owed = [d \in Dests |-> Nothing] /\ late = FALSE
  BY DEF Init
<1>2. PICK t \in Outcomes(conf) : /\ Faulty(conf, t) <= MaxTroubles
                                  /\ files = Opened(conf, t) /\ faults = Faulty(conf, t)
  BY DEF Init
<1>3. /\ files \in Seq(Entry) /\ (\A i \in 1 .. Len(files) : Paired(files[i]) /\ Brief(files[i]))
      /\ (\A T : DestsOf(files, T) \subseteq Dests) /\ Faulty(conf, t) \in Nat
  BY <1>1, <1>2, OpenedFacts
<1>4. InBounds(hups, faults) /\ batch \in 0 .. MaxBatch /\ markseq \in 0 .. MarkInterval
  <2> DEFINE n == Faulty(conf, t)
  <2>1. n \in Nat /\ n <= MaxTroubles /\ faults = n BY <1>2, <1>3
  <2> HIDE DEF n
  <2> QED BY <1>1, <2>1, Numbers DEF InBounds
<1>5. owed \in Debts
  <2>1. Nothing \in [Lines -> Int] BY DEF Nothing
  <2>2. [d \in Dests |-> Nothing] \in Debts BY <2>1 DEF Debts
  <2> QED BY <1>1, <2>2
<1>6. last \in [Dests -> Lines] BY <1>1, BlankLines
<1>8. stack \in Seq(Frame)
  <2>1. <<>> \in Seq(Frame) /\ <<>> \o Announce(conf) = Announce(conf) BY DEF Announce
  <2> QED BY <1>1, <2>1, Announced
<1>9. TInv BY <1>1, <1>3, <1>4, <1>5, <1>6, <1>8 DEF TInv, TypeOK, Debts, InBounds
<1>10. Held /\ Heeded BY <1>1, <1>3 DEF Held, Heeded, HangupHeeded
<1> QED BY <1>9, <1>10 DEF IInv

LEMMA Invariance == Spec => []IInv
<1>1. Init => IInv BY InitInv
<1>2. IInv /\ [Next]_vars => IInv'
  <2> SUFFICES ASSUME IInv, [Next]_vars PROVE IInv' OBVIOUS
  <2>1. CASE UNCHANGED vars
    <3>1. UNCHANGED <<conf, files, stack, batch, restart, markseq, alarm, dead, read, last, owed, whole, late, hups, faults>>
      BY <2>1 DEF vars, sysvars, history
    <3>2. TInv' BY <3>1 DEF IInv, TInv, TypeOK, Paired
    <3>3. Held' /\ Heeded' BY <3>1 DEF IInv, Held, Heeded, HangupHeeded
    <3> QED BY <3>2, <3>3 DEF IInv
  <2>2. CASE \E m \in Msgs : Receive(m) BY <2>2, ReceiveStep
  <2>3. CASE Logmsg
    BY <2>3, LogCallStep, LogSkipStep, LogRepeatStep, LogBackoffStep, LogFlushStep, LogSaveStep, LogReturnStep DEF Logmsg
  <2>4. CASE Restart BY <2>4, RestartStep
  <2>5. CASE Reload BY <2>5, FlushStep, ReadConfStep, RestartDoneStep DEF Reload, CloseFlush
  <2>6. CASE Hangup BY <2>6, HangupStep
  <2>7. CASE Tick BY <2>7, TickStep
  <2>8. CASE Domark BY <2>8, DomarkStep
  <2>9. CASE Handlers
    BY <2>9, DueFlushStep, LogBackoffStep, LogReturnStep, FlushStep, DieLogStep, ExitStep DEF Handlers, DieFlush
  <2>10. CASE Term BY <2>10, TermStep
  <2>11. CASE TermInWrite BY <2>11, TermInWriteStep
  <2> QED BY <2>1, <2>2, <2>3, <2>4, <2>5, <2>6, <2>7, <2>8, <2>9, <2>10, <2>11 DEF Next
<1> QED BY <1>1, <1>2, PTL DEF Spec

-----------------------------------------------------------------------------
(* What follows from it.                                                   *)

\* Every variable of the model of syslogd keeps to its type, whatever files are
\* read and whichever system calls fail.
THEOREM TypeCorrect == Spec => []TypeOK
<1>1. IInv => TypeOK BY DEF IInv, TInv
<1> QED BY <1>1, Invariance, PTL

\* cfline(): for every configuration file, of any length, the masks say of each
\* facility but "mark", and each priority, what the documented rule says: the last
\* selector that speaks of a message decides, and "**" speaks of what was not named
\* before.  Of "mark" the documentation says something else than cfline() does.
THEOREM SelectorRuleCorrect == Spec => []SelectorRule
<1>1. IInv => SelectorRule
  <2> SUFFICES ASSUME IInv PROVE SelectorRule OBVIOUS
  <2>1. TestConfs \cup Confs \subseteq Seq(ConfLine) BY ConfAssumption
  <2> QED BY <2>1, MasksFollowRule DEF SelectorRule
<1> QED BY <1>1, Invariance, PTL

\* logmsg() and domark(): when domark() has returned, no entry whose host is
\* known holds repeats longer than the interval it is at, however many entries,
\* errors and marks there were.
THEOREM RepeatsCorrect == Spec => []RepeatsHeldBriefly
<1>1. IInv => RepeatsHeldBriefly
  <2> SUFFICES ASSUME IInv, Idle, ~alarm PROVE \A i \in 1 .. Len(files) : Brief(files[i])
    BY DEF RepeatsHeldBriefly, Brief
  <2>1. Frames(stack) = {} BY FramesEmpty DEF Idle
  <2> QED BY <2>1 DEF IInv, Held, Due
<1> QED BY <1>1, Invariance, PTL

\* main() and trigger_restart(): a file edited before a hangup has been read or
\* is going to be read, whenever the hangup comes, and any number of them; the one
\* exception is the last hangup coming after init() has read the file and before
\* the statement that resets restart.
THEOREM HangupCorrect == Spec => []HangupHeeded
<1>1. IInv => HangupHeeded BY DEF IInv, Heeded
<1> QED BY <1>1, Invariance, PTL
-----------------------------------------------------------------------------
(* What each destination is owed: the repeats it counts and the lines that *)
(* the calls in progress are still to bring it.                            *)

\* logmsg() is to show message m to entry f, mark or not.
Takes(f, m) == m.pri \in f.mask[m.fac] /\ ~(f.type = "CONSOLE" /\ m.ign)
\* The call r has line l still to bring to entry i, which is f.
Waits(r, f, i, l) ==
    /\ r.op = "log" /\ Line(r.m) = l /\ ~r.m.mark /\ Takes(f, r.m)
    /\ r.at < i \/ (r.at = i /\ r.phase # "backoff")
Waiting(st, f, i, l) == {k \in 1 .. Len(st) : Waits(st[k], f, i, l)}
Coming(st, f, i, l) == Cardinality(Waiting(st, f, i, l))
LineOf(f) == <<f.prev, f.host>>
Kept(f, l) == IF LineOf(f) = l THEN f.count ELSE 0
Shows == Lines \ {Line(Mark)}

\* The entries are those of the file that was read.
Conforms ==
    /\ Len(files) = Len(read)
    /\ \A i \in 1 .. Len(files) :
         /\ files[i].dest = read[i].dest /\ files[i].mask = Cflines(read)[i]
         /\ files[i].dest \in whole => files[i].type = read[i].type
\* What an entry has to answer for.
Fair(i) ==
    files[i].dest \in whole =>
      /\ files[i].prev # Empty => last[files[i].dest] = LineOf(files[i])
      /\ files[i].prev = Empty => files[i].count = 0
      /\ \A l \in Shows : owed[files[i].dest][l] = Kept(files[i], l) + Coming(stack, files[i], i, l)
\* Nothing is owed to others.
Strangers ==
    \A d \in Dests :
      /\ d \notin whole => owed[d] = Nothing
      /\ (\A i \in 1 .. Len(files) : files[i].dest # d) => \A l \in Shows : owed[d][l] = 0
\* A call whose entry has been flushed for a new line is the innermost one, or
\* it is there because of an error, or die() has come in between.
Lost(r) == r.op = "log" /\ r.phase = "save" => ~(r.at <= Len(files) /\ files[r.at].dest \in whole)
Flushed(r) ==
    r.op = "log" /\ r.phase = "save" /\ r.at <= Len(files) /\ files[r.at].dest \in whole =>
      files[r.at].count = 0 /\ Takes(files[r.at], r.m)
Dying(r) == r.op \in {"die", "exit"}
Saving ==
    /\ stack # <<>> => Flushed(Top)
    /\ \A k \in 1 .. Len(stack) - 1 : Lost(stack[k]) \/ \E j \in k + 1 .. Len(stack) : Dying(stack[j])
\* init() has nothing above or below it, and leaves no repeats behind.
Closing ==
    \A k \in 1 .. Len(stack) : stack[k].op = "close" =>
      /\ Len(stack) = 1
      /\ \A i \in 1 .. Len(files) : i < stack[k].at /\ files[i].dest \in whole => files[i].count = 0
Ledger == Conforms /\ (\A i \in 1 .. Len(files) : Fair(i)) /\ Strangers /\ Saving /\ Closing
One(r, f, i, l) == IF Waits(r, f, i, l) THEN 1 ELSE 0

LEMMA WaitingAppend ==
  ASSUME NEW st \in Seq(Frame), NEW r \in Frame, NEW f, NEW i, NEW l
  PROVE  /\ Waiting(Append(st, r), f, i, l) =
              Waiting(st, f, i, l) \cup (IF Waits(r, f, i, l) THEN {Len(st) + 1} ELSE {})
         /\ Len(st) + 1 \notin Waiting(st, f, i, l)
         /\ IsFiniteSet(Waiting(st, f, i, l))
<1> DEFINE s == Append(st, r)
           n == Len(st)
<1>1. Len(s) = n + 1 /\ s[n + 1] = r /\ (\A k \in 1 .. n : s[k] = st[k]) /\ n \in Nat OBVIOUS
<1>2. 1 .. n + 1 = (1 .. n) \cup {n + 1} /\ n + 1 \notin 1 .. n BY <1>1
<1>3. Waiting(st, f, i, l) \subseteq 1 .. n BY DEF Waiting
<1>4. IsFiniteSet(1 .. n) BY <1>1, FS_Interval
<1>5. IsFiniteSet(Waiting(st, f, i, l)) BY <1>3, <1>4, FS_Subset
<1> HIDE DEF s, n
<1>6. Waiting(s, f, i, l) = {k \in 1 .. n + 1 : Waits(s[k], f, i, l)} BY <1>1 DEF Waiting
<1>7. Waiting(st, f, i, l) = {k \in 1 .. n : Waits(st[k], f, i, l)} BY DEF Waiting, n
<1>8. Waiting(s, f, i, l) = Waiting(st, f, i, l) \cup (IF Waits(r, f, i, l) THEN {n + 1} ELSE {})
  BY <1>1, <1>2, <1>6, <1>7
<1> QED BY <1>2, <1>3, <1>5, <1>8 DEF s, n

LEMMA ComingAppend ==
  ASSUME NEW st \in Seq(Frame), NEW r \in Frame, NEW f, NEW i, NEW l
  PROVE  /\ Coming(st, f, i, l) \in Nat
         /\ Coming(Append(st, r), f, i, l) = Coming(st, f, i, l) + One(r, f, i, l)
<1> DEFINE W == Waiting(st, f, i, l)
           n == Len(st) + 1
<1>1. Waiting(Append(st, r), f, i, l) = W \cup (IF Waits(r, f, i, l) THEN {n} ELSE {})
      /\ n \notin W /\ IsFiniteSet(W)
  BY WaitingAppend
<1> HIDE DEF W, n
<1>2. Cardinality(W) \in Nat BY <1>1, FS_CardinalityType
<1>3. Cardinality(W \cup {n}) = Cardinality(W) + 1 BY <1>1, FS_AddElement
<1>4. W \cup {} = W OBVIOUS
<1>5. Coming(Append(st, r), f, i, l) = Cardinality(W) + One(r, f, i, l)
  <2>1. CASE Waits(r, f, i, l)
    <3>1. Waiting(Append(st, r), f, i, l) = W \cup {n} BY <1>1, <2>1
    <3> QED BY <1>3, <2>1, <3>1 DEF Coming, One
  <2>2. CASE ~Waits(r, f, i, l)
    <3>1. Waiting(Append(st, r), f, i, l) = W BY <1>1, <1>4, <2>2
    <3> QED BY <1>2, <2>2, <3>1 DEF Coming, One
  <2> QED BY <2>1, <2>2
<1> QED BY <1>2, <1>5 DEF Coming, W

LEMMA ComingEmpty == ASSUME NEW f, NEW i, NEW l PROVE Coming(<<>>, f, i, l) = 0
<1>1. Waiting(<<>>, f, i, l) = {} BY DEF Waiting
<1> QED BY <1>1, FS_EmptySet DEF Coming

\* Only the mask and the type of the entry matter.
LEMMA ComingSame ==
  ASSUME NEW f, NEW e, e.mask = f.mask, e.type = f.type, NEW i, NEW l
  PROVE  /\ \A st : Coming(st, e, i, l) = Coming(st, f, i, l)
         /\ \A r : One(r, e, i, l) = One(r, f, i, l)
<1>1. \A r : Waits(r, e, i, l) <=> Waits(r, f, i, l) BY DEF Waits, Takes
<1> QED BY <1>1 DEF Coming, Waiting, One

LEMMA OneType == ASSUME NEW r, NEW f, NEW i, NEW l PROVE One(r, f, i, l) \in {0, 1}
  BY DEF One

LEMMA StackParts ==
  ASSUME stack \in Seq(Frame), stack # <<>>
  PROVE  /\ Below \in Seq(Frame) /\ Top \in Frame /\ stack = Append(Below, Top)
         /\ Len(stack) \in Nat \ {0} /\ Len(Below) = Len(stack) - 1 /\ Top = stack[Len(stack)]
         /\ \A k \in 1 .. Len(stack) - 1 : Below[k] = stack[k]
<1> DEFINE n == Len(stack)
<1>1. n \in Nat \ {0} /\ Top = stack[n] /\ Top \in Frame /\ stack \in [1 .. n -> Frame] BY DEF Top
<1>2. Below = SubSeq(stack, 1, n - 1) BY DEF Below
<1> HIDE DEF n
<1>3. 1 .. n = (1 .. n - 1) \cup {n} /\ n - 1 \in Nat /\ (n - 1) + 1 = n /\ n \notin 1 .. n - 1 BY <1>1
<1>4. \A k \in 1 .. n - 1 : stack[k] \in Frame BY <1>1, <1>3
<1>5. 1 \in Int /\ n - 1 \in Int BY <1>1
<1>6. /\ Below \in Seq(Frame)
      /\ Len(Below) = IF 1 <= n - 1 THEN (n - 1) - 1 + 1 ELSE 0
      /\ \A k \in 1 .. (n - 1) - 1 + 1 : Below[k] = stack[1 + k - 1]
  BY <1>2, <1>4, <1>5, SubSeqProperties
<1>7. (n - 1) - 1 + 1 = n - 1 /\ (~(1 <= n - 1) => n - 1 = 0) /\ \A k \in 1 .. n - 1 : 1 + k - 1 = k
  BY <1>1
<1>8. Len(Below) = n - 1 /\ \A k \in 1 .. n - 1 : Below[k] = stack[k] BY <1>6, <1>7
<1>9. stack = Append(Below, Top)
  <2> DEFINE s == Append(Below, Top)
  <2>1. s \in Seq(Frame) /\ Len(s) = n /\ s[n] = Top /\ \A k \in 1 .. n - 1 : s[k] = Below[k]
    BY <1>1, <1>3, <1>6, <1>8
  <2>2. \A k \in 1 .. n : s[k] = stack[k] BY <1>1, <1>3, <1>8, <2>1
  <2>3. Len(stack) = n BY DEF n
  <2> HIDE DEF s
  <2> QED BY <2>1, <2>2, <2>3, SeqEqual DEF s
<1> QED BY <1>1, <1>6, <1>8, <1>9 DEF n

\* Facts about the configuration and the messages that the count needs: each
\* destination has one line, texts are not empty, and there are the priorities
\* syslogd uses itself.
Separate ==
    /\ \A c \in Confs : \A i, j \in 1 .. Len(c) : c[i].dest = c[j].dest => i = j
    /\ \A m \in Msgs : m.text # Empty
    /\ MaxPri >= 6

LEMMA MessageFacts ==
  ASSUME Separate, NEW m \in Msgs \cup OwnMsgs
  PROVE  /\ m.text # Empty /\ m.fac \in Facs /\ m.pri \in Pris
         /\ (m.mark => m = Mark) /\ Mark.mark /\ ~Failed.mark /\ ~Restarted.mark /\ ~Exiting.mark
<1>1. 6 \in Pris /\ 3 \in Pris BY SyslogdAssumption DEF Separate, Pris
<1>2. Mark.mark /\ ~Failed.mark /\ ~Restarted.mark /\ ~Exiting.mark
  BY DEF Mark, Failed, Restarted, Exiting, Own
<1>3. CASE m \in Msgs BY <1>2, <1>3, SyslogdAssumption DEF Separate
<1>4. CASE m \in OwnMsgs
  <2>1. Syslog \in Facs /\ MarkFac \in Facs BY SyslogdAssumption
  <2>2. \A x \in OwnMsgs : x.text # Empty
    <3>1. \A x \in OwnMsgs : x.text \in {"restart", "error", "exiting", "mark"}
      BY DEF OwnMsgs, Mark, Failed, Restarted, Exiting, Own
    <3>2. Empty \notin {"restart", "error", "exiting", "mark"} BY DEF Empty
    <3> QED BY <3>1, <3>2
  <2>3. \A x \in OwnMsgs : x.fac \in {Syslog, MarkFac} /\ x.pri \in {3, 6}
    BY DEF OwnMsgs, Mark, Failed, Restarted, Exiting, Own
  <2>4. m.mark => m = Mark BY <1>2, <1>4 DEF OwnMsgs
  <2> QED BY <1>1, <1>2, <1>4, <2>1, <2>2, <2>3, <2>4
<1> QED BY <1>3, <1>4

\* The entries fs are those of the file c, up to what may happen to them.
FromFile(fs, c) ==
    fs \in Seq(Entry) /\ Len(fs) = Len(c)
    /\ \A i \in 1 .. Len(fs) : fs[i].dest = c[i].dest /\ fs[i].mask = Cflines(c)[i]
\* The debts p are o and what logmsg() of m sets out with.
Adds(p, o, w, fs, m) ==
    /\ \A d \in Dests : d \notin w => p[d] = Nothing
    /\ \A d \in w : (\A i \in 1 .. Len(fs) : fs[i].dest # d) => \A l \in Shows : p[d][l] = o[d][l]
    /\ \A i \in 1 .. Len(fs) : fs[i].dest \in w =>
         \A l \in Shows : p[fs[i].dest][l] = o[fs[i].dest][l] + One(Call("log", m), fs[i], i, l)

LEMMA OwingIs ==
  ASSUME Separate, NEW o \in Debts, NEW w \in SUBSET Dests, NEW c \in Confs, NEW fs, FromFile(fs, c),
         NEW m \in Msgs \cup OwnMsgs
  PROVE  Adds(Owing(o, w, c, fs, m), o, w, fs, m)
<1>0. fs \in Seq(Entry) /\ Len(fs) = Len(c)
      /\ \A i \in 1 .. Len(fs) : fs[i].dest = c[i].dest /\ fs[i].mask = Cflines(c)[i]
  BY DEF FromFile
<1> DEFINE p == Owing(o, w, c, fs, m)
           due(d) == \E i \in 1 .. Len(fs) : fs[i].dest = d /\ Reaches(c, fs, i, m)
<1>1. p = [d \in Dests |-> IF d \notin w THEN Nothing
                           ELSE [l \in Lines |-> o[d][l] + IF l = Line(m) /\ due(d) THEN 1 ELSE 0]]
  BY DEF Owing
<1>2. c \in Seq(ConfLine) /\ Len(c) \in Nat BY ConfAssumption
<1>3. m.fac \in Facs /\ m.pri \in Pris /\ (m.mark => m = Mark) BY MessageFacts
<1>4. ASSUME NEW i \in 1 .. Len(fs) PROVE Reaches(c, fs, i, m) <=> Takes(fs[i], m)
  <2>1. i \in 1 .. Len(c) BY <1>0
  <2>2. m.pri \in Cflines(c)[i][m.fac] <=> Selects(c, i, m.fac, m.pri) BY <1>2, <1>3, <2>1, MasksFollowRule
  <2> QED BY <1>0, <2>2 DEF Reaches, Takes
<1>5. ASSUME NEW i \in 1 .. Len(fs) PROVE due(fs[i].dest) <=> Takes(fs[i], m)
  <2>1. \A j \in 1 .. Len(fs) : fs[j].dest = fs[i].dest => j = i BY <1>0 DEF Separate
  <2> QED BY <1>4, <2>1
<1>6. \A d \in w, l \in Lines : o[d][l] \in Int BY DEF Debts
<1> HIDE DEF due
<1>7. \A d \in w, l \in Lines : p[d][l] = o[d][l] + IF l = Line(m) /\ due(d) THEN 1 ELSE 0 BY <1>1
<1>8. \A d \in Dests : d \notin w => p[d] = Nothing BY <1>1
<1>9. ASSUME NEW d \in w, \A i \in 1 .. Len(fs) : fs[i].dest # d, NEW l \in Shows PROVE p[d][l] = o[d][l]
  <2>1. ~due(d) /\ l \in Lines BY <1>9 DEF due, Shows
  <2> QED BY <1>6, <1>7, <2>1
<1>10. ASSUME NEW i \in 1 .. Len(fs), fs[i].dest \in w, NEW l \in Shows
       PROVE  p[fs[i].dest][l] = o[fs[i].dest][l] + One(Call("log", m), fs[i], i, l)
  <2>1. i \in Nat /\ (1 < i \/ 1 = i) BY <1>0
  <2>2. l \in Lines /\ (l = Line(m) => ~m.mark) BY <1>3 DEF Shows
  <2>3. Waits(Call("log", m), fs[i], i, l) <=> l = Line(m) /\ Takes(fs[i], m)
    BY <2>1, <2>2 DEF Waits, Call
  <2> QED BY <1>5, <1>7, <1>10, <2>2, <2>3 DEF One
<1> HIDE DEF p
<1> QED BY <1>8, <1>9, <1>10 DEF p, Adds

\* The call at the top of the stack deals with its entry, which becomes e, and
\* is then as q says; on an error it is logerror()'s turn.
Deals(e, q, more) ==
    /\ stack # <<>> /\ ~AtEnd /\ e \in Entry /\ q \in Frame
    /\ files' = [files EXCEPT ![Top.at] = e] /\ e.dest = F.dest /\ e.mask = F.mask
    /\ stack' = IF more THEN Append(Append(Below, q), Call("log", Failed)) ELSE Append(Below, q)
    /\ q.op = Top.op /\ q.m = Top.m /\ read' = read
    /\ q.at = Top.at \/ (q.at = Top.at + 1 /\ q.phase = "test")
    /\ whole' \in {whole, whole \ {F.dest}}
    /\ F.dest \in whole' => e.type = F.type
    /\ more => Initialized /\ F.dest \notin whole'
    /\ q.phase = "save" => q.at = Top.at /\ (F.dest \in whole' => e.count = 0 /\ Takes(F, Top.m))
    /\ Top.op = "close" => q.at = Top.at + 1 /\ (F.dest \in whole' => e.count = 0)

LEMMA TurnFiles ==
  ASSUME IInv, NEW e, NEW q, NEW more \in BOOLEAN, Deals(e, q, more)
  PROVE  /\ Top.at \in 1 .. Len(files) /\ F = files[Top.at] /\ F \in Entry /\ Top.at \in Nat
         /\ files' \in Seq(Entry) /\ Len(files') = Len(files) /\ files'[Top.at] = e
         /\ \A i \in 1 .. Len(files) : i # Top.at => files'[i] = files[i]
         /\ \A i \in 1 .. Len(files) : files'[i].dest = files[i].dest /\ files'[i].mask = files[i].mask
         /\ whole' \subseteq whole /\ whole \ {F.dest} \subseteq whole'
<1>1. stack # <<>> /\ ~AtEnd /\ e \in Entry /\ e.dest = F.dest /\ e.mask = F.mask
      /\ files' = [files EXCEPT ![Top.at] = e] /\ whole' \in {whole, whole \ {F.dest}}
  BY DEF Deals
<1>2. Top.at \in 1 .. Len(files) /\ F = files[Top.at] /\ F \in Entry /\ Top.at \in Nat BY <1>1, AtEntry
<1>3. files \in Seq(Entry) BY Known
<1>4. files' \in Seq(Entry) /\ Len(files') = Len(files) /\ files'[Top.at] = e
      /\ \A i \in 1 .. Len(files) : i # Top.at => files'[i] = files[i]
  BY <1>1, <1>2, <1>3, FilesWith
<1> QED BY <1>1, <1>2, <1>4

LEMMA TurnStack ==
  ASSUME IInv, NEW e, NEW q, NEW more \in BOOLEAN, Deals(e, q, more)
  PROVE  /\ Len(stack) \in Nat \ {0} /\ Top = stack[Len(stack)]
         /\ stack' \in Seq(Frame) /\ Len(stack') = IF more THEN Len(stack) + 1 ELSE Len(stack)
         /\ (\A k \in 1 .. Len(stack) - 1 : stack'[k] = stack[k]) /\ stack'[Len(stack)] = q
         /\ more => stack'[Len(stack) + 1] = Call("log", Failed)
<1>1. stack \in Seq(Frame) /\ stack # <<>> /\ q \in Frame BY Known DEF Deals
<1> DEFINE n == Len(stack)
<1>2. Below \in Seq(Frame) /\ n \in Nat \ {0} /\ Len(Below) = n - 1 /\ Top = stack[n]
      /\ \A k \in 1 .. n - 1 : Below[k] = stack[k]
  BY <1>1, StackParts
<1> DEFINE s == Append(Below, q)
           g == Call("log", Failed)
<1>3. g \in Frame BY CallFrame, OwnCalls DEF Ops
<1>4. stack' = IF more THEN Append(s, g) ELSE s BY DEF Deals
<1> HIDE DEF n, g
<1>5. s \in Seq(Frame) /\ Len(s) = n /\ s[n] = q /\ \A k \in 1 .. n - 1 : s[k] = stack[k] BY <1>1, <1>2
<1> HIDE DEF s
<1>6. Append(s, g) \in Seq(Frame) /\ Len(Append(s, g)) = n + 1 /\ Append(s, g)[n + 1] = g
      /\ \A k \in 1 .. n : Append(s, g)[k] = s[k]
  BY <1>3, <1>5
<1>7. n \in 1 .. n /\ \A k \in 1 .. n - 1 : k \in 1 .. n BY <1>2
<1>8. CASE more BY <1>2, <1>4, <1>5, <1>6, <1>7, <1>8 DEF n, g
<1>9. CASE ~more BY <1>2, <1>4, <1>5, <1>9 DEF n
<1> QED BY <1>8, <1>9

LEMMA TurnConforms ==
  ASSUME IInv, Conforms, NEW e, NEW q, NEW more \in BOOLEAN, Deals(e, q, more) PROVE Conforms'
<1>1. read' = read /\ (F.dest \in whole' => e.type = F.type) /\ e.dest = F.dest BY DEF Deals
<1>2. ASSUME NEW i \in 1 .. Len(files), files'[i].dest \in whole' PROVE files'[i].type = read[i].type
  <2>1. files[i].type = read[i].type BY <1>2, TurnFiles DEF Conforms
  <2>2. CASE i = Top.at BY <1>1, <1>2, <2>1, <2>2, TurnFiles
  <2>3. CASE i # Top.at BY <2>1, <2>3, TurnFiles
  <2> QED BY <2>2, <2>3
<1> QED BY <1>1, <1>2, TurnFiles DEF Conforms

LEMMA TurnSaving ==
  ASSUME IInv, Saving, NEW e, NEW q, NEW more \in BOOLEAN, Deals(e, q, more) PROVE Saving'
<1> DEFINE n == Len(stack)
<1>1. q.op = Top.op /\ q.m = Top.m /\ q \in Frame /\ e.mask = F.mask BY DEF Deals
<1>2. stack \in Seq(Frame) /\ Len(files) \in Nat BY Known
<1>3. ASSUME NEW r \in Frame, Lost(r) PROVE Lost(r)'
  <2>1. r.at \in Nat \ {0} BY DEF Frame
  <2>2. r.at <= Len(files) => files'[r.at].dest = files[r.at].dest BY <1>2, <2>1, TurnFiles
  <2> QED BY <1>3, <2>2, TurnFiles DEF Lost
<1>4. n \in Nat \ {0} /\ Top = stack[n]
      /\ (\A k \in 1 .. n - 1 : stack'[k] = stack[k]) /\ stack'[n] = q
      /\ Len(stack') = IF more THEN n + 1 ELSE n
  BY TurnStack
<1>5. \A k \in 1 .. n : stack'[k].op = stack[k].op BY <1>1, <1>4
<1>6. q.phase = "save" /\ F.dest \in whole' => Flushed(q)'
  <2> SUFFICES ASSUME q.phase = "save", F.dest \in whole' PROVE Flushed(q)' OBVIOUS
  <2>1. q.at = Top.at /\ e.count = 0 /\ Takes(F, Top.m) /\ e.type = F.type BY DEF Deals
  <2>2. Takes(e, q.m) BY <1>1, <2>1 DEF Takes
  <2> QED BY <2>1, <2>2, TurnFiles DEF Flushed
<1>7. F.dest \notin whole' \/ q.phase # "save" => Lost(q)' /\ Flushed(q)'
  <2>1. q.phase = "save" => q.at = Top.at BY DEF Deals
  <2>2. e.dest = F.dest /\ files'[Top.at] = e BY TurnFiles DEF Deals
  <2> QED BY <2>1, <2>2 DEF Lost, Flushed
<1>8. Len(stack') # 0 /\ Top' = stack'[Len(stack')] BY <1>4 DEF Top
<1>9. Flushed(Top)'
  <2>1. CASE more
    <3>1. Top' = Call("log", Failed) BY <1>4, <1>8, <2>1, TurnStack
    <3>2. Top'.phase = "test" BY <3>1 DEF Call
    <3> QED BY <3>2 DEF Flushed
  <2>2. CASE ~more
    <3>1. Top' = q BY <1>4, <1>8, <2>2
    <3> QED BY <1>6, <1>7, <3>1 DEF Flushed
  <2> QED BY <2>1, <2>2
<1>10. ASSUME NEW k \in 1 .. Len(stack') - 1
       PROVE  Lost(stack[k])' \/ \E j \in k + 1 .. Len(stack') : Dying(stack[j])'
  <2>1. CASE k \in 1 .. n - 1
    <3>1. stack'[k] = stack[k] /\ stack[k] \in Frame BY <1>2, <1>4, <2>1
    <3>2. CASE Lost(stack[k])
      <4> DEFINE r == stack[k]
      <4>1. r \in Frame /\ Lost(r) /\ stack'[k] = r BY <3>1, <3>2
      <4> QED BY <1>3, <3>1, <3>2 DEF Lost
    <3>3. CASE \E j \in k + 1 .. n : Dying(stack[j])
      <4>1. PICK j \in k + 1 .. n : Dying(stack[j]) BY <3>3
      <4>2. j \in 1 .. n /\ j \in k + 1 .. Len(stack') BY <1>4, <2>1
      <4> QED BY <1>5, <4>1, <4>2 DEF Dying
    <3> QED BY <2>1, <3>2, <3>3 DEF Saving
  <2>2. CASE k \notin 1 .. n - 1
    <3>1. more /\ k = n BY <1>4, <2>2
    <3>2. F.dest \notin whole' BY <3>1 DEF Deals
    <3> QED BY <1>4, <1>7, <3>1, <3>2 DEF Lost
  <2> QED BY <2>1, <2>2
<1> QED BY <1>9, <1>10 DEF Saving

LEMMA TurnClosing ==
  ASSUME IInv, Closing, NEW e, NEW q, NEW more \in BOOLEAN, Deals(e, q, more) PROVE Closing'
<1> DEFINE n == Len(stack)
<1>1. q.op = Top.op /\ e.dest = F.dest BY DEF Deals
<1>2. n \in Nat \ {0} /\ Top = stack[n]
      /\ (\A k \in 1 .. n - 1 : stack'[k] = stack[k]) /\ stack'[n] = q
      /\ Len(stack') = IF more THEN n + 1 ELSE n
  BY TurnStack
<1> SUFFICES ASSUME NEW k \in 1 .. Len(stack'), stack'[k].op = "close"
             PROVE  /\ Len(stack') = 1
                    /\ \A i \in 1 .. Len(files') : i < stack'[k].at /\ files'[i].dest \in whole' => files'[i].count = 0
  BY DEF Closing
<1>3. k \in 1 .. n
  <2>1. CASE more /\ k = n + 1
    <3>1. Call("log", Failed).op = "log" BY DEF Call
    <3> QED BY <2>1, <3>1, TurnStack
  <2> QED BY <1>2, <2>1
<1>4. stack[k].op = "close" BY <1>1, <1>2, <1>3
<1>5. n = 1 /\ k = 1 BY <1>3, <1>4 DEF Closing
<1>6. ~more
  <2>1. more => stack[k].op # "close" BY <1>3 DEF Deals, Initialized
  <2> QED BY <1>4, <2>1
<1>7. Top.op = "close" /\ stack'[k] = q BY <1>2, <1>4, <1>5
<1>8. q.at = Top.at + 1 /\ (F.dest \in whole' => e.count = 0) BY <1>7 DEF Deals
<1>9. ASSUME NEW i \in 1 .. Len(files'), i < q.at, files'[i].dest \in whole' PROVE files'[i].count = 0
  <2>1. i \in 1 .. Len(files) /\ Top.at \in Nat BY TurnFiles
  <2>2. CASE i = Top.at BY <1>1, <1>8, <1>9, <2>2, TurnFiles
  <2>3. CASE i # Top.at
    <3>1. i < Top.at BY <1>8, <1>9, <2>1, <2>3
    <3>2. files'[i] = files[i] /\ files[i].dest \in whole BY <1>9, <2>1, <2>3, TurnFiles
    <3> QED BY <1>2, <1>4, <1>5, <2>1, <3>1, <3>2 DEF Closing
  <2> QED BY <2>2, <2>3
<1> QED BY <1>2, <1>5, <1>6, <1>7, <1>9

\* What it does to the books of the other destinations.
Booked(more) ==
    /\ \A d \in Dests \ {F.dest} : last'[d] = last[d]
    /\ owed' \in Debts
    /\ IF more THEN owed' = Owing(owed, whole', read, files', Failed)
       ELSE \A d \in Dests \ {F.dest} : owed'[d] = owed[d]
    /\ F.dest \notin whole' => owed'[F.dest] = Nothing

LEMMA TurnOwing ==
  ASSUME Separate, IInv, Conforms, NEW e, NEW q, Deals(e, q, TRUE), Booked(TRUE)
  PROVE  Adds(owed', owed, whole', files', Failed)
<1>1. owed' = Owing(owed, whole', read, files', Failed) BY DEF Booked
<1>2. owed \in Debts /\ read \in Confs /\ Failed \in Msgs \cup OwnMsgs
  <2>1. owed \in Debts BY Known
  <2>2. read \in Confs BY DEF IInv, TInv, TypeOK
  <2> QED BY <2>1, <2>2, OwnCalls
<1>4. files' \in Seq(Entry) /\ whole' \in SUBSET Dests BY TurnFiles, Known
<1>5. Conforms' /\ read' = read BY TurnConforms DEF Deals
<1>6. FromFile(files', read) BY <1>4, <1>5 DEF Conforms, FromFile
<1> DEFINE fs == files'
           w == whole'
<1>7. FromFile(fs, read) /\ w \in SUBSET Dests BY <1>4, <1>6
<1> HIDE DEF fs, w
<1>8. Adds(Owing(owed, w, read, fs, Failed), owed, w, fs, Failed) BY <1>2, <1>7, OwingIs
<1> QED BY <1>1, <1>8 DEF fs, w

\* The line of a destination is that of no other.
LEMMA Distinct ==
  ASSUME Separate, IInv, Conforms, NEW i \in 1 .. Len(files), NEW j \in 1 .. Len(files),
         files[i].dest = files[j].dest
  PROVE  i = j
<1>1. read \in Confs BY DEF IInv, TInv, TypeOK
<1> QED BY <1>1 DEF Conforms, Separate

LEMMA TurnComing ==
  ASSUME IInv, NEW e, NEW q, NEW more \in BOOLEAN, Deals(e, q, more), NEW f, NEW i, NEW l
  PROVE  /\ Coming(Below, f, i, l) \in Nat
         /\ Coming(stack, f, i, l) = Coming(Below, f, i, l) + One(Top, f, i, l)
         /\ Coming(stack', f, i, l) = Coming(Below, f, i, l) + One(q, f, i, l)
              + (IF more THEN One(Call("log", Failed), f, i, l) ELSE 0)
<1>1. stack \in Seq(Frame) /\ stack # <<>> /\ q \in Frame BY Known DEF Deals
<1>2. Below \in Seq(Frame) /\ Top \in Frame /\ stack = Append(Below, Top) BY <1>1, StackParts
<1>3. Coming(Below, f, i, l) \in Nat /\ Coming(stack, f, i, l) = Coming(Below, f, i, l) + One(Top, f, i, l)
  BY <1>2, ComingAppend
<1> DEFINE s == Append(Below, q)
           g == Call("log", Failed)
<1>4. Coming(s, f, i, l) = Coming(Below, f, i, l) + One(q, f, i, l) BY <1>1, <1>2, ComingAppend
<1>5. s \in Seq(Frame) BY <1>1, <1>2
<1>6. g \in Frame BY CallFrame, OwnCalls DEF Ops
<1>7. stack' = IF more THEN Append(s, g) ELSE s BY DEF Deals
<1> HIDE DEF s, g
<1>8. Coming(Append(s, g), f, i, l) = Coming(s, f, i, l) + One(g, f, i, l) BY <1>5, <1>6, ComingAppend
<1>9. One(q, f, i, l) \in {0, 1} /\ One(g, f, i, l) \in {0, 1} BY OneType
<1>10. CASE more BY <1>3, <1>4, <1>7, <1>8, <1>9, <1>10 DEF g
<1>11. CASE ~more BY <1>3, <1>4, <1>7, <1>9, <1>11
<1> QED BY <1>10, <1>11

LEMMA TurnPlain ==
  ASSUME IInv, stack # <<>>, NEW q \in Frame, NEW f, NEW i, NEW l
  PROVE  /\ Coming(Below, f, i, l) \in Nat
         /\ Coming(stack, f, i, l) = Coming(Below, f, i, l) + One(Top, f, i, l)
         /\ Coming(Append(Below, q), f, i, l) = Coming(Below, f, i, l) + One(q, f, i, l)
<1>1. stack \in Seq(Frame) BY Known
<1>2. Below \in Seq(Frame) /\ Top \in Frame /\ stack = Append(Below, Top) BY <1>1, StackParts
<1> QED BY <1>2, ComingAppend

LEMMA TurnOthers ==
  ASSUME Separate, IInv, Conforms, NEW e, NEW q, NEW more \in BOOLEAN, Deals(e, q, more), Booked(more),
         NEW i \in 1 .. Len(files), i # Top.at, Fair(i)
  PROVE  Fair(i)'
<1> DEFINE f == files[i]
           d == f.dest
<1>1. files'[i] = f BY TurnFiles
<1> SUFFICES ASSUME files'[i].dest \in whole'
             PROVE  /\ f.prev # Empty => last'[d] = LineOf(f)
                    /\ f.prev = Empty => f.count = 0
                    /\ \A l \in Shows : owed'[d][l] = Kept(f, l) + Coming(stack', f, i, l)
  BY <1>1 DEF Fair
<1>2. d \in whole /\ d \in whole' /\ d \in Dests BY <1>1, TurnFiles, Known
<1>3. d # F.dest BY Distinct, TurnFiles
<1>4. last'[d] = last[d] BY <1>2, <1>3 DEF Booked
<1>5. ASSUME NEW l \in Shows PROVE owed'[d][l] = Kept(f, l) + Coming(stack', f, i, l)
  <2>1. owed[d][l] = Kept(f, l) + Coming(stack, f, i, l) BY <1>2 DEF Fair
  <2>2. l \in Lines BY DEF Shows
  <2>3. One(q, f, i, l) = One(Top, f, i, l)
    <3>1. q.op = Top.op /\ q.m = Top.m /\ (q.at = Top.at \/ (q.at = Top.at + 1 /\ q.phase = "test")) BY DEF Deals
    <3>2. i \in Nat /\ Top.at \in Nat BY TurnFiles
    <3>3. (q.at < i \/ (q.at = i /\ q.phase # "backoff")) <=> (Top.at < i \/ (Top.at = i /\ Top.phase # "backoff"))
      BY <3>1, <3>2
    <3> QED BY <3>1, <3>3 DEF One, Waits
  <2>4. /\ Coming(Below, f, i, l) \in Nat
        /\ Coming(stack, f, i, l) = Coming(Below, f, i, l) + One(Top, f, i, l)
        /\ Coming(stack', f, i, l) = Coming(Below, f, i, l) + One(q, f, i, l)
             + (IF more THEN One(Call("log", Failed), f, i, l) ELSE 0)
    BY TurnComing
  <2>5. One(Top, f, i, l) \in {0, 1} /\ One(Call("log", Failed), f, i, l) \in {0, 1} BY OneType
  <2>6. Kept(f, l) \in Nat BY EntryFields, Known DEF Kept
  <2>7. owed'[d][l] = owed[d][l] + (IF more THEN One(Call("log", Failed), f, i, l) ELSE 0)
    <3>1. CASE more
      <4>1. Deals(e, q, TRUE) /\ Booked(TRUE) BY <3>1
      <4>2. i \in 1 .. Len(files') BY TurnFiles
      <4> QED BY <1>1, <1>2, <2>2, <3>1, <4>1, <4>2, TurnOwing DEF Adds
    <3>2. CASE ~more
      <4>1. owed'[d] = owed[d] BY <1>2, <1>3, <3>2 DEF Booked
      <4>2. owed[d][l] \in Int BY <1>2, <2>2, Known DEF Debts
      <4> QED BY <3>2, <4>1, <4>2
    <3> QED BY <3>1, <3>2
  <2> HIDE DEF f, d
  <2> QED BY <2>1, <2>3, <2>4, <2>5, <2>6, <2>7
<1> QED BY <1>2, <1>4, <1>5 DEF Fair

LEMMA TurnStrangers ==
  ASSUME Separate, IInv, Conforms, Strangers, NEW e, NEW q, NEW more \in BOOLEAN, Deals(e, q, more), Booked(more)
  PROVE  Strangers'
<1>1. ASSUME NEW d \in Dests, d \notin whole' PROVE owed'[d] = Nothing
  <2>1. CASE d = F.dest BY <1>1, <2>1 DEF Booked
  <2>2. CASE d # F.dest
    <3>1. d \notin whole BY <1>1, <2>2, TurnFiles
    <3>2. CASE more
      <4>1. Deals(e, q, TRUE) /\ Booked(TRUE) BY <3>2
      <4> QED BY <1>1, <4>1, TurnOwing DEF Adds
    <3>3. CASE ~more BY <2>2, <3>1, <3>3 DEF Booked, Strangers
    <3> QED BY <3>2, <3>3
  <2> QED BY <2>1, <2>2
<1>2. ASSUME NEW d \in Dests, \A i \in 1 .. Len(files') : files'[i].dest # d, NEW l \in Shows
      PROVE  owed'[d][l] = 0
  <2>1. \A i \in 1 .. Len(files) : files[i].dest # d BY <1>2, TurnFiles
  <2>2. owed[d][l] = 0 /\ l \in Lines BY <2>1 DEF Strangers, Shows
  <2>3. d # F.dest BY <2>1, TurnFiles
  <2>4. CASE more /\ d \in whole'
    <3>1. Deals(e, q, TRUE) /\ Booked(TRUE) BY <2>4
    <3> QED BY <1>2, <2>2, <2>4, <3>1, TurnOwing DEF Adds
  <2>5. CASE d \notin whole' BY <1>1, <2>2, <2>5 DEF Nothing
  <2>6. CASE ~more BY <2>2, <2>3, <2>6 DEF Booked
  <2> QED BY <2>4, <2>5, <2>6
<1> QED BY <1>1, <1>2 DEF Strangers

\* So what is left to show of such a step is that its own entry stays fair.
LEMMA TurnLedger ==
  ASSUME Separate, IInv, Ledger, NEW e, NEW q, NEW more \in BOOLEAN, Deals(e, q, more), Booked(more),
         F.dest \in whole' =>
           /\ e.prev # Empty => last'[F.dest] = LineOf(e)
           /\ e.prev = Empty => e.count = 0
           /\ \A l \in Shows : owed'[F.dest][l] = Kept(e, l) + Coming(stack', F, Top.at, l)
  PROVE  Ledger'
<1>1. ASSUME NEW a, a = Top.at PROVE Fair(a)'
  <2>1. files'[a] = e /\ e.dest = F.dest BY <1>1, TurnFiles DEF Deals
  <2>2. F.dest \in whole' => \A l \in Shows : Coming(stack', e, a, l) = Coming(stack', F, a, l)
    <3> SUFFICES ASSUME F.dest \in whole', NEW l \in Shows PROVE Coming(stack', e, a, l) = Coming(stack', F, a, l)
      OBVIOUS
    <3>1. e.mask = F.mask /\ e.type = F.type BY DEF Deals
    <3> QED BY <3>1, ComingSame
  <2>3. files'[a].dest \in whole' =>
          /\ files'[a].prev # Empty => last'[files'[a].dest] = LineOf(files'[a])
          /\ files'[a].prev = Empty => files'[a].count = 0
          /\ \A l \in Shows : owed'[files'[a].dest][l] = Kept(files'[a], l) + Coming(stack', files'[a], a, l)
    BY <1>1, <2>1, <2>2
  <2> QED BY <2>3 DEF Fair
<1>2. ASSUME NEW i \in 1 .. Len(files') PROVE Fair(i)'
  <2>1. i \in 1 .. Len(files) BY TurnFiles
  <2>2. Fair(i) BY <2>1 DEF Ledger
  <2>3. CASE i # Top.at BY <2>1, <2>2, <2>3, TurnOthers DEF Ledger
  <2>4. CASE i = Top.at BY <1>1, <2>4
  <2> QED BY <2>3, <2>4
<1>3. Conforms' /\ Saving' /\ Closing' /\ Strangers'
  BY TurnConforms, TurnSaving, TurnClosing, TurnStrangers DEF Ledger
<1> QED BY <1>2, <1>3 DEF Ledger

\* What fprintlog() shows, as Account reckons it.
ShownLine(f, text) == IF Shown(f, text).n = 0 THEN Shown(f, text).line ELSE last[f.dest]
ShownNum(f, text) == IF Shown(f, text).n = 0 THEN 1 ELSE Shown(f, text).n

LEMMA PrintedMore ==
  ASSUME NEW f \in Entry, NEW from, NEW fate
  PROVE  LET e == Printed(f, from, fate)
         IN  /\ e.dest = f.dest /\ e.mask = f.mask
             /\ Arrives(f, from, fate) /\ f.type \in Locals \cup {"FORW"} => e.type = f.type
<1> DEFINE t == NextType(f, from, fate)
           a == IF \/ f.type \in Locals \cup {"UNUSED"}
                   \/ Sends(f, from, fate) /\ fate # "nosocket" THEN 0 ELSE f.age
           n == IF t # "UNKN" THEN 0 ELSE IF Retried(f, fate) THEN f.count - 1 ELSE f.count
<1>1. Printed(f, from, fate) = [f EXCEPT !.type = t, !.age = a, !.count = n] BY DEF Printed
<1>2. Arrives(f, from, fate) /\ f.type \in Locals \cup {"FORW"} => t = f.type
  <2> SUFFICES ASSUME Arrives(f, from, fate), f.type \in Locals \cup {"FORW"} PROVE t = f.type OBVIOUS
  <2>1. fate = "ok" BY DEF Arrives
  <2>2. CASE f.type \in Locals BY <2>1, <2>2 DEF NextType
  <2>3. CASE f.type \notin Locals
    <3>1. f.type = "FORW" BY <2>3
    <3>2. Forwards(f, fate) BY <3>1 DEF Forwards
    <3> QED BY <2>1, <2>3, <3>1, <3>2 DEF NextType
  <2> QED BY <2>2, <2>3
<1> HIDE DEF t, a, n
<1> DEFINE e == [f EXCEPT !.type = t, !.age = a, !.count = n]
<1>3. e.dest = f.dest /\ e.mask = f.mask /\ e.type = t BY EntryIs
<1> HIDE DEF e
<1> QED BY <1>1, <1>2, <1>3 DEF e

\* The types of destinations that have lost nothing.
LEMMA WholeType ==
  ASSUME IInv, Conforms, NEW i \in 1 .. Len(files), files[i].dest \in whole
  PROVE  files[i].type \in Locals \cup {"FORW"}
<1>1. read \in Seq(ConfLine) BY ConfAssumption DEF IInv, TInv, TypeOK
<1>2. i \in 1 .. Len(read) /\ files[i].type = read[i].type BY DEF Conforms
<1>3. read[i] \in ConfLine BY <1>1, <1>2
<1>4. read[i].type \in Locals \cup {"FORW"} BY <1>3 DEF ConfLine
<1> QED BY <1>2, <1>4

LEMMA PrintLedger ==
  ASSUME Separate, IInv, Ledger, stack # <<>>, ~AtEnd,
         NEW f \in Entry, f.dest = F.dest, f.mask = F.mask, f.type = F.type,
         NEW from, NEW text, <<IF text = Empty THEN f.prev ELSE text, f.host>> \in Lines,
         NEW q \in Frame, q.op = Top.op, q.m = Top.m,
         q.at = Top.at \/ (q.at = Top.at + 1 /\ q.phase = "test"), read' = read,
         Fprintlog(f, from, text, Append(Below, q)),
         q.phase = "save" => q.at = Top.at /\ Takes(F, Top.m),
         Top.op = "close" => q.at = Top.at + 1,
         F.dest \in whole =>
           /\ f.prev # Empty => ShownLine(f, text) = LineOf(f)
           /\ \A l \in Shows : Kept(F, l) + One(Top, F, Top.at, l) =
                (IF l = ShownLine(f, text) THEN ShownNum(f, text) ELSE 0) + One(q, F, Top.at, l)
  PROVE  Ledger'
<1> DEFINE st == Append(Below, q)
           d == F.dest
<1>1. PICK fate \in Fates(f) :
        LET err == fate = "fail" /\ (f.type \in Locals \/ Sends(f, from, fate)) /\ Initialized
        IN  /\ files' = [files EXCEPT ![Top.at] = Printed(f, from, fate)]
            /\ stack' = IF err THEN Append(st, Call("log", Failed)) ELSE st
            /\ IF err
               THEN /\ whole' = whole \ {f.dest} /\ UNCHANGED last
                    /\ owed' = Owing(owed, whole', read, files', Failed)
               ELSE Account(f, from, text, fate)
  BY DEF Fprintlog
<1> DEFINE err == fate = "fail" /\ (f.type \in Locals \/ Sends(f, from, fate)) /\ Initialized
           e == Printed(f, from, fate)
<1>2. /\ files' = [files EXCEPT ![Top.at] = e]
      /\ stack' = IF err THEN Append(st, Call("log", Failed)) ELSE st
      /\ err => /\ whole' = whole \ {d} /\ UNCHANGED last
                /\ owed' = Owing(owed, whole', read, files', Failed)
      /\ ~err => Account(f, from, text, fate)
  BY <1>1
<1>3. e \in Entry /\ e.prev = f.prev /\ e.host = f.host /\ (e.type # "UNKN" => e.count = 0) BY PrintedEntry
<1>4. e.dest = d /\ e.mask = F.mask
      /\ (Arrives(f, from, fate) /\ f.type \in Locals \cup {"FORW"} => e.type = f.type)
  BY PrintedMore
<1>5. Top.at \in 1 .. Len(files) /\ F = files[Top.at] /\ F \in Entry /\ d \in Dests /\ Top.at \in Nat
  BY AtEntry, EntryFields
<1>6. F.dest \in whole => F.type \in Locals \cup {"FORW"} /\ F.type # "UNKN"
  <2>1. F.dest \in whole => F.type \in Locals \cup {"FORW"} BY <1>5, WholeType DEF Ledger
  <2> QED BY <2>1 DEF Locals
<1>7. err => Initialized OBVIOUS
<1>8. last \in [Dests -> Lines] /\ owed \in Debts /\ whole \in SUBSET Dests BY Known
<1>9. owed' \in Debts
  <2>1. CASE err BY <1>2, <1>8, <2>1, OwingType
  <2>2. CASE ~err BY <1>2, <1>8, <2>2, AccountType
  <2> QED BY <2>1, <2>2
<1> HIDE DEF err, e
<1>10. CASE err \/ ~Arrives(f, from, fate)
  <2>1. whole' = whole \ {d} /\ last' = last
        /\ owed' = IF err THEN Owing(owed, whole', read, files', Failed) ELSE [owed EXCEPT ![d] = Nothing]
    <3>1. CASE err BY <1>2, <3>1
    <3>2. CASE ~err BY <1>2, <1>10, <3>2 DEF Account
    <3> QED BY <3>1, <3>2
  <2>2. Deals(e, q, err) BY <1>2, <1>3, <1>4, <1>7, <2>1 DEF Deals
  <2>3. owed'[d] = Nothing
    <3>1. CASE err BY <1>5, <2>1, <3>1 DEF Owing
    <3>2. CASE ~err BY <1>5, <1>8, <2>1, <3>2 DEF Debts
    <3> QED BY <3>1, <3>2
  <2>4. Booked(err) BY <1>8, <1>9, <2>1, <2>3 DEF Booked, Debts
  <2>5. err \in BOOLEAN BY DEF err
  <2> QED BY <2>1, <2>2, <2>4, <2>5, TurnLedger
<1>11. CASE ~err /\ Arrives(f, from, fate)
  <2> DEFINE line == ShownLine(f, text)
             n == ShownNum(f, text)
  <2>1. /\ last' = [last EXCEPT ![d] = line] /\ whole' = whole
        /\ owed' = IF line = Line(Mark) \/ d \notin whole THEN owed ELSE [owed EXCEPT ![d][line] = @ - n]
    BY <1>2, <1>11 DEF Account, ShownLine, ShownNum
  <2>2. d \in whole => e.type = F.type /\ e.count = 0 BY <1>3, <1>4, <1>6, <1>11
  <2>3. Deals(e, q, FALSE) BY <1>2, <1>3, <1>4, <1>11, <2>1, <2>2 DEF Deals
  <2>4. d \notin whole => owed'[d] = Nothing BY <1>5, <2>1 DEF Ledger, Strangers
  <2> HIDE DEF line, n
  <2>5. \A x \in Dests \ {d} : last'[x] = last[x] /\ owed'[x] = owed[x] BY <1>5, <1>8, <2>1 DEF Debts
  <2>6. Booked(FALSE) BY <1>9, <2>1, <2>4, <2>5 DEF Booked
  <2>7. ASSUME d \in whole
        PROVE  /\ e.prev # Empty => last'[d] = LineOf(e)
               /\ e.prev = Empty => e.count = 0
               /\ \A l \in Shows : owed'[d][l] = Kept(e, l) + Coming(stack', F, Top.at, l)
    <3>1. last'[d] = line BY <1>5, <1>8, <2>1
    <3>2. e.prev # Empty => last'[d] = LineOf(e) BY <1>3, <2>7, <3>1 DEF LineOf, line
    <3>3. ASSUME NEW l \in Shows PROVE owed'[d][l] = Kept(e, l) + Coming(stack', F, Top.at, l)
      <4> DEFINE a == Top.at
      <4>1. l \in Lines /\ l # Line(Mark) BY DEF Shows
      <4>2. owed[d][l] = Kept(F, l) + Coming(stack, F, a, l) BY <1>5, <2>7 DEF Ledger, Fair
      <4>3. Kept(F, l) + One(Top, F, a, l) = (IF l = line THEN n ELSE 0) + One(q, F, a, l)
        BY <2>7 DEF line, n
      <4>4. Kept(e, l) = 0 BY <2>2, <2>7 DEF Kept
      <4>5. /\ Coming(Below, F, a, l) \in Nat
            /\ Coming(stack, F, a, l) = Coming(Below, F, a, l) + One(Top, F, a, l)
            /\ Coming(stack', F, a, l) = Coming(Below, F, a, l) + One(q, F, a, l)
        BY <1>2, <1>11, TurnPlain
      <4>6. One(Top, F, a, l) \in {0, 1} /\ One(q, F, a, l) \in {0, 1} BY OneType
      <4>7. Kept(F, l) \in Nat BY <1>5, EntryFields DEF Kept
      <4>8. n \in Int
        <5>1. f.count \in Nat BY EntryFields
        <5> QED BY <5>1 DEF n, ShownNum, Shown
      <4>9. owed'[d][l] = owed[d][l] - (IF l = line THEN n ELSE 0)
        <5>1. owed[d][l] \in Int BY <1>5, <1>8, <4>1 DEF Debts
        <5>2. CASE line = Line(Mark) BY <2>1, <4>1, <5>1, <5>2
        <5>3. CASE line # Line(Mark)
          <6>1. owed' = [owed EXCEPT ![d][line] = @ - n] BY <2>1, <2>7, <5>3
          <6>2. owed'[d] = [owed[d] EXCEPT ![line] = @ - n] BY <1>5, <1>8, <6>1 DEF Debts
          <6>3. owed[d] \in [Lines -> Int] BY <1>5, <1>8 DEF Debts
          <6> QED BY <4>1, <5>1, <6>2, <6>3
        <5> QED BY <5>2, <5>3
      <4> DEFINE x == IF l = line THEN n ELSE 0
      <4>10. x \in Int BY <4>8
      <4>11. owed[d][l] = Kept(F, l) + Coming(stack, F, a, l) /\ owed'[d][l] = owed[d][l] - x
             /\ Kept(F, l) + One(Top, F, a, l) = x + One(q, F, a, l)
        BY <4>2, <4>3, <4>9
      <4> HIDE DEF x
      <4> QED BY <4>4, <4>5, <4>6, <4>7, <4>10, <4>11
    <3> QED BY <2>2, <2>7, <3>2, <3>3
  <2> QED BY <2>1, <2>3, <2>6, <2>7, TurnLedger
<1> QED BY <1>10, <1>11

\* A step that shows nothing.
LEMMA MoveLedger ==
  ASSUME Separate, IInv, Ledger, stack # <<>>, ~AtEnd, stack' = Next1, read' = read, UNCHANGED Books,
         NEW e \in Entry, files' = [files EXCEPT ![Top.at] = e],
         e.dest = F.dest, e.mask = F.mask, e.type = F.type, e.prev = F.prev, e.host = F.host,
         F.dest \in whole /\ (e.prev = Empty \/ Top.op = "close") => e.count = 0,
         NEW q, q = [Top EXCEPT !.at = @ + 1, !.phase = "test"],
         F.dest \in whole =>
           \A l \in Shows : Kept(F, l) + One(Top, F, Top.at, l) = Kept(e, l) + One(q, F, Top.at, l)
  PROVE  Ledger'
<1>1. Top \in Frame BY Known, FramesTop
<1>2. q \in Frame /\ q.op = Top.op /\ q.m = Top.m /\ q.at = Top.at + 1 /\ q.phase = "test" BY <1>1, FrameNext
<1>3. stack' = Append(Below, q) BY DEF Next1
<1>4. UNCHANGED <<last, owed, whole>> BY DEF Books
<1>5. Deals(e, q, FALSE) BY <1>2, <1>3, <1>4 DEF Deals
<1>6. Top.at \in 1 .. Len(files) /\ F = files[Top.at] /\ F \in Entry BY AtEntry
<1>7. F.dest \in Dests BY <1>6, EntryFields
<1>8. Booked(FALSE)
  <2>1. owed \in Debts BY Known
  <2> QED BY <1>4, <1>7, <2>1 DEF Booked, Ledger, Strangers
<1>9. ASSUME F.dest \in whole'
      PROVE  /\ e.prev # Empty => last'[F.dest] = LineOf(e)
             /\ e.prev = Empty => e.count = 0
             /\ \A l \in Shows : owed'[F.dest][l] = Kept(e, l) + Coming(stack', F, Top.at, l)
  <2>1. Fair(Top.at) /\ F.dest \in whole BY <1>4, <1>6, <1>9 DEF Ledger
  <2>2. e.prev # Empty => last'[F.dest] = LineOf(e) BY <1>4, <1>6, <2>1 DEF Fair, LineOf
  <2>3. ASSUME NEW l \in Shows PROVE owed'[F.dest][l] = Kept(e, l) + Coming(stack', F, Top.at, l)
    <3>1. owed[F.dest][l] = Kept(F, l) + Coming(stack, F, Top.at, l) BY <1>6, <2>1 DEF Fair
    <3>2. Kept(F, l) + One(Top, F, Top.at, l) = Kept(e, l) + One(q, F, Top.at, l) BY <2>1
    <3>3. /\ Coming(Below, F, Top.at, l) \in Nat
          /\ Coming(stack, F, Top.at, l) = Coming(Below, F, Top.at, l) + One(Top, F, Top.at, l)
          /\ Coming(stack', F, Top.at, l) = Coming(Below, F, Top.at, l) + One(q, F, Top.at, l)
      BY <1>2, <1>3, TurnPlain
    <3>4. One(Top, F, Top.at, l) \in {0, 1} /\ One(q, F, Top.at, l) \in {0, 1} BY OneType
    <3>5. Kept(F, l) \in Nat /\ Kept(e, l) \in Nat BY <1>6, EntryFields DEF Kept
    <3> QED BY <1>4, <3>1, <3>2, <3>3, <3>4, <3>5
  <2> QED BY <2>1, <2>2, <2>3
<1> QED BY <1>5, <1>8, <1>9, TurnLedger

-----------------------------------------------------------------------------
(* The steps along Files.                                                  *)

\* A call that has gone on, or is backing off, has nothing for its entry.
LEMMA PastEntry ==
  ASSUME NEW r, NEW f, NEW a \in Nat, NEW l,
         r.at = a + 1 \/ (r.at = a /\ r.phase = "backoff") \/ r.op # "log"
  PROVE  One(r, f, a, l) = 0
<1>1. ~Waits(r, f, a, l) BY DEF Waits
<1> QED BY <1>1 DEF One

\* What one has that is at its entry.
LEMMA AtHand ==
  ASSUME NEW r, NEW f, NEW a, NEW l, r.op = "log", r.at = a, r.phase # "backoff"
  PROVE  One(r, f, a, l) = IF Line(r.m) = l /\ ~r.m.mark /\ Takes(f, r.m) THEN 1 ELSE 0
  BY DEF One, Waits

LEMMA NextFrame ==
  ASSUME IInv, stack # <<>>, ~AtEnd
  PROVE  LET q == [Top EXCEPT !.at = @ + 1, !.phase = "test"]
         IN  /\ q \in Frame /\ q.op = Top.op /\ q.m = Top.m /\ q.at = Top.at + 1 /\ q.phase = "test"
             /\ Next1 = Append(Below, q)
             /\ \A f, l : One(q, f, Top.at, l) = 0
<1> DEFINE q == [Top EXCEPT !.at = @ + 1, !.phase = "test"]
<1>1. Top \in Frame BY Known, FramesTop
<1>2. q \in Frame /\ q.op = Top.op /\ q.m = Top.m /\ q.at = Top.at + 1 /\ q.phase = "test" BY <1>1, FrameNext
<1>3. Next1 = Append(Below, q) BY DEF Next1
<1>4. Top.at \in Nat BY AtEntry
<1> HIDE DEF q
<1>5. \A f, l : One(q, f, Top.at, l) = 0 BY <1>2, <1>4, PastEntry
<1> QED BY <1>2, <1>3, <1>5 DEF q

LEMMA PhaseFrame ==
  ASSUME IInv, stack # <<>>, ~AtEnd, NEW p \in Phases
  PROVE  LET q == [Top EXCEPT !.phase = p]
         IN  /\ q \in Frame /\ q.op = Top.op /\ q.m = Top.m /\ q.at = Top.at /\ q.phase = p
             /\ InPhase(p) = Append(Below, q)
<1>1. Top \in Frame BY Known, FramesTop
<1> QED BY <1>1, FramePhase DEF InPhase

LEMMA SameEntry ==
  ASSUME IInv, stack # <<>>, ~AtEnd, UNCHANGED files PROVE files' = [files EXCEPT ![Top.at] = F]
<1>1. F = files[Top.at] /\ Top.at \in 1 .. Len(files) BY AtEntry
<1>2. files \in Seq(Entry) BY Known
<1> QED BY <1>1, <1>2

\* The innermost call goes on, having nothing for the entry.
LEMMA PassLedger ==
  ASSUME Separate, IInv, Ledger, stack # <<>>, ~AtEnd, stack' = Next1, read' = read, UNCHANGED Books,
         UNCHANGED files, \A l : One(Top, F, Top.at, l) = 0, Top.op = "close" => F.count = 0
  PROVE  Ledger'
<1> DEFINE q == [Top EXCEPT !.at = @ + 1, !.phase = "test"]
<1>1. \A f, l : One(q, f, Top.at, l) = 0 BY NextFrame
<1>2. F \in Entry /\ F = files[Top.at] /\ Top.at \in 1 .. Len(files) BY AtEntry
<1>3. files' = [files EXCEPT ![Top.at] = F] BY SameEntry
<1>4. F.dest \in whole /\ (F.prev = Empty \/ Top.op = "close") => F.count = 0
  BY <1>2 DEF Ledger, Fair
<1>5. \A l \in Shows : Kept(F, l) + One(Top, F, Top.at, l) = Kept(F, l) + One(q, F, Top.at, l) BY <1>1
<1> HIDE DEF q
<1> QED BY <1>2, <1>3, <1>4, <1>5, MoveLedger DEF q

LEMMA LogSkipLedger == ASSUME Separate PROVE IInv /\ Ledger /\ LogSkip => Ledger'
<1> SUFFICES ASSUME IInv, Ledger, LogSkip PROVE Ledger' OBVIOUS
<1>1. stack # <<>> /\ ~AtEnd /\ Top.op = "log" /\ Top.phase = "test" /\ Skipped(F, Top.m) /\ stack' = Next1
  BY DEF LogSkip, Running
<1>2. UNCHANGED files /\ UNCHANGED Books /\ read' = read BY DEF LogSkip, Books, history
<1>3. ASSUME NEW l PROVE One(Top, F, Top.at, l) = 0
  <2>1. Top.m.mark \/ ~Takes(F, Top.m) BY <1>1 DEF Skipped, Takes
  <2> QED BY <1>1, <2>1, AtHand
<1> QED BY <1>1, <1>2, <1>3, PassLedger

LEMMA BackoffLedger == ASSUME Separate PROVE IInv /\ Ledger /\ (LogBackoff \/ DueBackoff) => Ledger'
<1> SUFFICES ASSUME IInv, Ledger, LogBackoff \/ DueBackoff PROVE Ledger' OBVIOUS
<1>1. stack # <<>> /\ ~AtEnd /\ Top.phase = "backoff" /\ stack' = Next1 /\ Top.op # "close"
  BY DEF LogBackoff, DueBackoff, Running
<1>2. UNCHANGED Books /\ read' = read BY DEF LogBackoff, DueBackoff, Books, history
<1>3. F \in Entry /\ Paired(F) /\ F = files[Top.at] /\ Top.at \in 1 .. Len(files) /\ Top.at \in Nat BY <1>1, AtEntry
<1>4. files' = [files EXCEPT ![Top.at] = Backoff(F)] BY <1>3 DEF LogBackoff, DueBackoff
<1> DEFINE e == Backoff(F)
           q == [Top EXCEPT !.at = @ + 1, !.phase = "test"]
<1>5. e \in Entry BY <1>3, BackoffEntry
<1>6. e.dest = F.dest /\ e.mask = F.mask /\ e.type = F.type /\ e.prev = F.prev /\ e.host = F.host /\ e.count = F.count
  <2> DEFINE r == IF F.rep < Len(RepeatInterval) THEN F.rep + 1 ELSE F.rep
  <2>1. e = [F EXCEPT !.rep = r] BY DEF Backoff
  <2> HIDE DEF r, e
  <2> QED BY <1>3, <2>1, EntryIs
<1>7. \A l : One(q, F, Top.at, l) = 0 /\ One(Top, F, Top.at, l) = 0 BY <1>1, <1>3, NextFrame, PastEntry
<1> HIDE DEF e, q
<1>8. F.dest \in whole /\ e.prev = Empty => e.count = 0 BY <1>3, <1>6 DEF Ledger, Fair
<1>9. \A l \in Shows : Kept(F, l) + One(Top, F, Top.at, l) = Kept(e, l) + One(q, F, Top.at, l)
  BY <1>6, <1>7 DEF Kept, LineOf
<1> QED BY <1>1, <1>2, <1>4, <1>5, <1>6, <1>8, <1>9, MoveLedger DEF e, q

\* A flush shows the repeats the entry has counted.
LEMMA FlushShows ==
  ASSUME NEW f \in Entry, f.count > 0, last[f.dest] = LineOf(f)
  PROVE  ShownLine(f, Empty) = LineOf(f) /\ ShownNum(f, Empty) = f.count
<1>1. f.count \in Nat BY EntryFields
<1>2. Shown(f, Empty).n = (IF f.count > 1 THEN f.count ELSE 0) /\ Shown(f, Empty).line = LineOf(f)
  BY DEF Shown, LineOf
<1>3. CASE f.count > 1 BY <1>1, <1>2, <1>3 DEF ShownLine, ShownNum
<1>4. CASE ~(f.count > 1)
  <2>1. f.count = 1 BY <1>1, <1>4
  <2> QED BY <1>2, <2>1 DEF ShownLine, ShownNum
<1> QED BY <1>3, <1>4

\* The entry is flushed, and the call keeps what it has for it.
LEMMA FlushLedger ==
  ASSUME Separate, IInv, Ledger, stack # <<>>, ~AtEnd, F.count > 0, read' = read, NEW from,
         NEW q \in Frame, q.op = Top.op, q.m = Top.m,
         q.at = Top.at \/ (q.at = Top.at + 1 /\ q.phase = "test"),
         Fprintlog(F, from, Empty, Append(Below, q)),
         q.phase = "save" => q.at = Top.at /\ Takes(F, Top.m),
         Top.op = "close" => q.at = Top.at + 1,
         \A l : One(q, F, Top.at, l) = One(Top, F, Top.at, l)
  PROVE  Ledger'
<1>1. F \in Entry /\ Paired(F) /\ F = files[Top.at] /\ Top.at \in 1 .. Len(files) BY AtEntry
<1>2. <<IF Empty = Empty THEN F.prev ELSE Empty, F.host>> \in Lines BY <1>1, EmptyShows
<1>3. F.dest \in whole =>
        /\ F.prev # Empty => ShownLine(F, Empty) = LineOf(F)
        /\ \A l \in Shows : Kept(F, l) + One(Top, F, Top.at, l) =
             (IF l = ShownLine(F, Empty) THEN ShownNum(F, Empty) ELSE 0) + One(q, F, Top.at, l)
  <2> SUFFICES ASSUME F.dest \in whole
               PROVE  /\ F.prev # Empty => ShownLine(F, Empty) = LineOf(F)
                      /\ \A l \in Shows : Kept(F, l) + One(Top, F, Top.at, l) =
                           (IF l = ShownLine(F, Empty) THEN ShownNum(F, Empty) ELSE 0) + One(q, F, Top.at, l)
    OBVIOUS
  <2>1. F.count # 0 BY <1>1, EntryFields
  <2>2. last[F.dest] = LineOf(F) BY <1>1, <2>1 DEF Ledger, Fair
  <2>3. ShownLine(F, Empty) = LineOf(F) /\ ShownNum(F, Empty) = F.count BY <1>1, <2>2, FlushShows
  <2> QED BY <2>3 DEF Kept
<1> QED BY <1>1, <1>2, <1>3, PrintLedger

LEMMA LogFlushLedger == ASSUME Separate PROVE IInv /\ Ledger /\ LogFlush => Ledger'
<1> SUFFICES ASSUME IInv, Ledger, LogFlush PROVE Ledger' OBVIOUS
<1>1. stack # <<>> /\ ~AtEnd /\ Top.op = "log" /\ Top.phase = "test" /\ F.count > 0 /\ IsNew(F, Top.m)
  BY DEF LogFlush, Running
<1>2. read' = read /\ Fprintlog(F, Top.m.host, Empty, InPhase("save")) BY DEF LogFlush
<1> DEFINE q == [Top EXCEPT !.phase = "save"]
<1>3. q \in Frame /\ q.op = Top.op /\ q.m = Top.m /\ q.at = Top.at /\ q.phase = "save"
      /\ InPhase("save") = Append(Below, q)
  BY <1>1, PhaseFrame DEF Phases
<1>4. Takes(F, Top.m) BY <1>1 DEF IsNew, Skipped, Takes
<1> HIDE DEF q
<1>5. \A l : One(q, F, Top.at, l) = One(Top, F, Top.at, l) BY <1>1, <1>3 DEF One, Waits
<1> QED BY <1>1, <1>2, <1>3, <1>4, <1>5, FlushLedger

LEMMA DueFlushLedger == ASSUME Separate PROVE IInv /\ Ledger /\ DueFlush => Ledger'
<1> SUFFICES ASSUME IInv, Ledger, DueFlush PROVE Ledger' OBVIOUS
<1>1. stack # <<>> /\ ~AtEnd /\ Top.op = "due" /\ read' = read BY DEF DueFlush, Running
<1>2. Top.at \in Nat BY <1>1, AtEntry
<1>3. \A l : One(Top, F, Top.at, l) = 0 BY <1>1, <1>2, PastEntry
<1>4. CASE IsDue(F)
  <2>1. Fprintlog(F, Local, Empty, InPhase("backoff")) /\ F.count > 0 BY <1>4 DEF DueFlush, IsDue
  <2> DEFINE q == [Top EXCEPT !.phase = "backoff"]
  <2>2. q \in Frame /\ q.op = Top.op /\ q.m = Top.m /\ q.at = Top.at /\ q.phase = "backoff"
        /\ InPhase("backoff") = Append(Below, q)
    BY <1>1, PhaseFrame DEF Phases
  <2> HIDE DEF q
  <2>3. \A l : One(q, F, Top.at, l) = One(Top, F, Top.at, l) BY <1>1, <1>2, <1>3, <2>2, PastEntry
  <2> QED BY <1>1, <2>1, <2>2, <2>3, FlushLedger
<1>5. CASE ~IsDue(F)
  <2>1. stack' = Next1 /\ UNCHANGED files /\ UNCHANGED Books BY <1>5 DEF DueFlush, Books
  <2> QED BY <1>1, <1>3, <2>1, PassLedger
<1> QED BY <1>4, <1>5

LEMMA DieFlushLedger ==
  ASSUME Separate PROVE \A op \in {"close", "die"} : IInv /\ Ledger /\ Flush(op) => Ledger'
<1> SUFFICES ASSUME NEW op \in {"close", "die"}, IInv, Ledger, Flush(op) PROVE Ledger' OBVIOUS
<1>1. stack # <<>> /\ ~AtEnd /\ Top.op = op /\ read' = read BY DEF Flush, Running
<1>2. Top.at \in Nat /\ F \in Entry BY <1>1, AtEntry
<1>3. \A l : One(Top, F, Top.at, l) = 0 BY <1>1, <1>2, PastEntry
<1>4. CASE F.count > 0
  <2>1. Fprintlog(F, Local, Empty, Next1) BY <1>4 DEF Flush
  <2> DEFINE q == [Top EXCEPT !.at = @ + 1, !.phase = "test"]
  <2>2. /\ q \in Frame /\ q.op = Top.op /\ q.m = Top.m /\ q.at = Top.at + 1 /\ q.phase = "test"
        /\ Next1 = Append(Below, q) /\ \A f, l : One(q, f, Top.at, l) = 0
    BY <1>1, NextFrame
  <2> HIDE DEF q
  <2> QED BY <1>1, <1>3, <1>4, <2>1, <2>2, FlushLedger
<1>5. CASE ~(F.count > 0)
  <2>1. stack' = Next1 /\ UNCHANGED files /\ UNCHANGED Books BY <1>5 DEF Flush, Books
  <2>2. F.count = 0
    <3>1. F.count \in Nat BY <1>2, EntryFields
    <3> QED BY <1>5, <3>1
  <2> QED BY <1>1, <1>3, <2>1, <2>2, PassLedger
<1> QED BY <1>4, <1>5

LEMMA LogRepeatLedger == ASSUME Separate PROVE IInv /\ Ledger /\ LogRepeat => Ledger'
<1> SUFFICES ASSUME IInv, Ledger, LogRepeat PROVE Ledger' OBVIOUS
<1> DEFINE m == Top.m
           c == F.count + 1
           f == [F EXCEPT !.count = c]
<1>1. stack # <<>> /\ ~AtEnd /\ Top.op = "log" /\ Top.phase = "test" /\ ~Skipped(F, m) /\ IsRepeat(F, m)
      /\ read' = read
  BY DEF LogRepeat, Running
<1>2. F \in Entry /\ Paired(F) /\ F = files[Top.at] /\ Top.at \in 1 .. Len(files) /\ Top.at \in Nat BY <1>1, AtEntry
<1>3. F.count \in Nat /\ c \in Nat /\ c > 0 BY <1>2, EntryFields
<1>4. IF Overdue(f) THEN Fprintlog(f, m.host, Empty, InPhase("backoff"))
      ELSE /\ files' = [files EXCEPT ![Top.at] = f] /\ stack' = Next1
           /\ UNCHANGED <<last, owed, whole, faults>>
  BY DEF LogRepeat
<1>5. Top \in Frame BY <1>1, Known, FramesTop
<1>6. m \in Msgs \cup OwnMsgs BY <1>5 DEF Frame
<1>7. m.text # Empty BY <1>6, MessageFacts
<1>8. F.prev # Empty /\ LineOf(F) = Line(m) /\ ~m.mark /\ Takes(F, m)
  BY <1>1, <1>7 DEF IsRepeat, LineOf, Line, Skipped, Takes
<1>9. ASSUME NEW l PROVE One(Top, F, Top.at, l) = IF LineOf(F) = l THEN 1 ELSE 0
  BY <1>1, <1>8, AtHand
<1>10. f \in Entry /\ f.dest = F.dest /\ f.mask = F.mask /\ f.type = F.type /\ f.prev = F.prev /\ f.host = F.host
       /\ f.count = F.count + 1
  <2> HIDE DEF c
  <2>1. LET e == [F EXCEPT !.count = c]
        IN  e \in Entry /\ e.dest = F.dest /\ e.mask = F.mask /\ e.type = F.type /\ e.prev = F.prev
            /\ e.host = F.host /\ e.count = c
    BY <1>2, <1>3, EntryIs
  <2> QED BY <2>1 DEF c
<1> HIDE DEF f, c, m
<1>11. Paired(f) /\ LineOf(f) = LineOf(F) BY <1>2, <1>10 DEF Paired, LineOf
<1>12. CASE Overdue(f)
  <2> DEFINE q == [Top EXCEPT !.phase = "backoff"]
  <2>1. q \in Frame /\ q.op = Top.op /\ q.m = Top.m /\ q.at = Top.at /\ q.phase = "backoff"
        /\ InPhase("backoff") = Append(Below, q)
    BY <1>1, PhaseFrame DEF Phases
  <2> HIDE DEF q
  <2>2. \A l : One(q, F, Top.at, l) = 0 BY <1>2, <2>1, PastEntry
  <2>3. <<IF Empty = Empty THEN f.prev ELSE Empty, f.host>> \in Lines BY <1>10, <1>11, EmptyShows
  <2>4. F.dest \in whole =>
          /\ f.prev # Empty => ShownLine(f, Empty) = LineOf(f)
          /\ \A l \in Shows : Kept(F, l) + One(Top, F, Top.at, l) =
               (IF l = ShownLine(f, Empty) THEN ShownNum(f, Empty) ELSE 0) + One(q, F, Top.at, l)
    <3> SUFFICES ASSUME F.dest \in whole
                 PROVE  /\ f.prev # Empty => ShownLine(f, Empty) = LineOf(f)
                        /\ \A l \in Shows : Kept(F, l) + One(Top, F, Top.at, l) =
                             (IF l = ShownLine(f, Empty) THEN ShownNum(f, Empty) ELSE 0) + One(q, F, Top.at, l)
      OBVIOUS
    <3>1. last[F.dest] = LineOf(F) BY <1>2, <1>8 DEF Ledger, Fair
    <3>2. f.count > 0 BY <1>3, <1>10
    <3>3. ShownLine(f, Empty) = LineOf(f) /\ ShownNum(f, Empty) = f.count
      BY <1>10, <1>11, <3>1, <3>2, FlushShows
    <3>4. ASSUME NEW l \in Shows
          PROVE Kept(F, l) + One(Top, F, Top.at, l) =
                  (IF l = ShownLine(f, Empty) THEN ShownNum(f, Empty) ELSE 0) + One(q, F, Top.at, l)
      <4>1. One(q, F, Top.at, l) = 0 /\ One(Top, F, Top.at, l) = IF LineOf(F) = l THEN 1 ELSE 0 BY <1>9, <2>2
      <4> QED BY <1>3, <1>10, <1>11, <3>3, <4>1 DEF Kept
    <3> QED BY <3>3, <3>4
  <2>5. Fprintlog(f, m.host, Empty, Append(Below, q)) BY <1>4, <1>12, <2>1
  <2> QED BY <1>1, <1>10, <2>1, <2>3, <2>4, <2>5, PrintLedger
<1>13. CASE ~Overdue(f)
  <2> DEFINE q == [Top EXCEPT !.at = @ + 1, !.phase = "test"]
  <2>1. files' = [files EXCEPT ![Top.at] = f] /\ stack' = Next1 /\ UNCHANGED Books BY <1>4, <1>13 DEF Books
  <2>2. \A l : One(q, F, Top.at, l) = 0 BY <1>1, NextFrame
  <2> HIDE DEF q
  <2>3. ASSUME NEW l \in Shows
        PROVE  Kept(F, l) + One(Top, F, Top.at, l) = Kept(f, l) + One(q, F, Top.at, l)
    <3>1. One(q, F, Top.at, l) = 0 /\ One(Top, F, Top.at, l) = IF LineOf(F) = l THEN 1 ELSE 0 BY <1>9, <2>2
    <3> QED BY <1>3, <1>10, <1>11, <3>1 DEF Kept
  <2> QED BY <1>1, <1>8, <1>10, <2>1, <2>3, MoveLedger DEF q
<1> QED BY <1>12, <1>13

LEMMA LogSaveLedger == ASSUME Separate PROVE IInv /\ Ledger /\ LogSave => Ledger'
<1> SUFFICES ASSUME IInv, Ledger, LogSave PROVE Ledger' OBVIOUS
<1> DEFINE m == Top.m
           x == IF m.text \in LongTexts THEN Empty ELSE m.text
           text == IF m.text \in LongTexts THEN m.text ELSE Empty
           f == Saved(F, m)
           q == [Top EXCEPT !.at = @ + 1, !.phase = "test"]
<1>1. stack # <<>> /\ ~AtEnd /\ Top.op = "log" /\ read' = read
      /\ (Top.phase = "save" \/ (Top.phase = "test" /\ IsNew(F, m) /\ F.count = 0))
      /\ Fprintlog(f, m.host, text, Next1)
  BY DEF LogSave, Running
<1>2. F \in Entry /\ F = files[Top.at] /\ Top.at \in 1 .. Len(files) /\ Top.at \in Nat BY <1>1, AtEntry
<1>3. Top \in Frame BY <1>1, Known, FramesTop
<1>4. m \in Msgs \cup OwnMsgs BY <1>3 DEF Frame
<1>5. m.text # Empty /\ (m.mark => m = Mark) BY <1>4, MessageFacts
<1>6. f \in Entry /\ f.dest = F.dest /\ <<IF text = Empty THEN f.prev ELSE text, f.host>> \in Lines
  BY <1>2, <1>4, SavedEntry
<1>7. f.mask = F.mask /\ f.type = F.type /\ f.prev = x /\ f.host = m.host /\ f.count = F.count
  <2> DEFINE h == m.host
  <2>1. f = [F EXCEPT !.rep = 1, !.host = h, !.prev = x] BY DEF Saved
  <2> HIDE DEF h, x, f
  <2>2. f.mask = F.mask /\ f.type = F.type /\ f.prev = x /\ f.host = h /\ f.count = F.count
    BY <1>2, <2>1, EntryIs
  <2> QED BY <2>2 DEF h
<1>8. /\ q \in Frame /\ q.op = Top.op /\ q.m = Top.m /\ q.at = Top.at + 1 /\ q.phase = "test"
      /\ Next1 = Append(Below, q) /\ \A g, l : One(q, g, Top.at, l) = 0
  BY <1>1, NextFrame
<1> HIDE DEF q, f
<1>9. F.dest \in whole =>
        /\ f.prev # Empty => ShownLine(f, text) = LineOf(f)
        /\ \A l \in Shows : Kept(F, l) + One(Top, F, Top.at, l) =
             (IF l = ShownLine(f, text) THEN ShownNum(f, text) ELSE 0) + One(q, F, Top.at, l)
  <2> SUFFICES ASSUME F.dest \in whole
               PROVE  /\ f.prev # Empty => ShownLine(f, text) = LineOf(f)
                      /\ \A l \in Shows : Kept(F, l) + One(Top, F, Top.at, l) =
                           (IF l = ShownLine(f, text) THEN ShownNum(f, text) ELSE 0) + One(q, F, Top.at, l)
    OBVIOUS
  <2>1. F.count = 0 /\ Takes(F, m)
    <3>1. CASE Top.phase = "save"
      <4>1. Flushed(Top) BY <1>1 DEF Ledger, Saving
      <4>2. Top.at <= Len(files) BY <1>2, Known
      <4> QED BY <1>1, <1>2, <3>1, <4>1, <4>2 DEF Flushed
    <3>2. CASE Top.phase = "test" /\ IsNew(F, m) /\ F.count = 0 BY <3>2 DEF IsNew, Skipped, Takes
    <3> QED BY <1>1, <3>1, <3>2
  <2>2. Shown(f, text).n = 0
    <3>1. f.count = 0 BY <1>7, <2>1
    <3>2. ~(f.count > 1) BY <3>1
    <3> QED BY <3>2 DEF Shown
  <2>3. Shown(f, text).line = <<IF text = Empty THEN f.prev ELSE text, f.host>> BY DEF Shown
  <2>4. (IF text = Empty THEN f.prev ELSE text) = m.text BY <1>5, <1>7
  <2>5. ShownLine(f, text) = Line(m) /\ ShownNum(f, text) = 1
    BY <1>7, <2>2, <2>3, <2>4 DEF ShownLine, ShownNum, Line
  <2>6. f.prev # Empty => LineOf(f) = Line(m) BY <1>7 DEF LineOf, Line
  <2>7. ASSUME NEW l \in Shows
        PROVE Kept(F, l) + One(Top, F, Top.at, l) =
                (IF l = Line(m) THEN 1 ELSE 0) + One(q, F, Top.at, l)
    <3>1. One(q, F, Top.at, l) = 0 /\ Kept(F, l) = 0 BY <1>8, <2>1 DEF Kept
    <3>2. One(Top, F, Top.at, l) = IF Line(m) = l /\ ~m.mark /\ Takes(F, m) THEN 1 ELSE 0
      <4>1. Top.phase # "backoff" BY <1>1
      <4> QED BY <1>1, <4>1, AtHand
    <3>3. Line(m) = l => ~m.mark BY <1>5 DEF Shows
    <3> QED BY <2>1, <3>1, <3>2, <3>3
  <2> QED BY <2>5, <2>6, <2>7
<1> HIDE DEF text, m
<1> QED BY <1>1, <1>6, <1>7, <1>8, <1>9, PrintLedger

-----------------------------------------------------------------------------
(* Calls and returns.                                                      *)

LEMMA StackLedger ==
  ASSUME IInv, Ledger, UNCHANGED <<files, last, whole, read>>, NEW m,
         NEW adds \in BOOLEAN, adds => Adds(owed', owed, whole, files, m), ~adds => owed' = owed,
         \A i \in 1 .. Len(files), l \in Shows : files[i].dest \in whole =>
           Coming(stack', files[i], i, l) = Coming(stack, files[i], i, l)
             + (IF adds THEN One(Call("log", m), files[i], i, l) ELSE 0),
         \A i \in 1 .. Len(files), l \in Shows : Coming(stack, files[i], i, l) \in Nat,
         Saving', Closing'
  PROVE  Ledger'
<1>1. UNCHANGED files /\ UNCHANGED last /\ UNCHANGED whole /\ UNCHANGED read OBVIOUS
<1>2. Conforms' BY <1>1 DEF Ledger, Conforms
<1>3. whole \in SUBSET Dests /\ owed \in Debts BY Known
<1>4. Shows \subseteq Lines BY DEF Shows
<1>5. Strangers'
  <2>1. ASSUME NEW d \in Dests, d \notin whole PROVE owed'[d] = Nothing
    <3>1. CASE adds BY <2>1, <3>1 DEF Adds
    <3>2. CASE ~adds BY <2>1, <3>2 DEF Ledger, Strangers
    <3> QED BY <3>1, <3>2
  <2>2. ASSUME NEW d \in Dests, \A i \in 1 .. Len(files) : files[i].dest # d, NEW l \in Shows
        PROVE  owed'[d][l] = 0
    <3>1. owed[d][l] = 0 /\ l \in Lines BY <1>4, <2>2 DEF Ledger, Strangers
    <3>2. CASE adds /\ d \in whole BY <2>2, <3>1, <3>2 DEF Adds
    <3>3. CASE d \notin whole BY <2>1, <3>1, <3>3 DEF Nothing
    <3>4. CASE ~adds BY <3>1, <3>4
    <3> QED BY <3>2, <3>3, <3>4
  <2> QED BY <1>1, <2>1, <2>2 DEF Strangers
<1>6. ASSUME NEW i \in 1 .. Len(files) PROVE Fair(i)'
  <2>1. Fair(i) BY DEF Ledger
  <2>2. ASSUME files[i].dest \in whole, NEW l \in Shows
        PROVE  owed'[files[i].dest][l] = Kept(files[i], l) + Coming(stack', files[i], i, l)
    <3> DEFINE d == files[i].dest
               o == One(Call("log", m), files[i], i, l)
    <3>1. owed[d][l] = Kept(files[i], l) + Coming(stack, files[i], i, l) BY <2>1, <2>2 DEF Fair
    <3>2. Coming(stack', files[i], i, l) = Coming(stack, files[i], i, l) + (IF adds THEN o ELSE 0) BY <2>2
    <3>3. o \in {0, 1} BY OneType
    <3>4. Coming(stack, files[i], i, l) \in Nat OBVIOUS
    <3>5. Kept(files[i], l) \in Nat BY Known, EntryFields DEF Kept
    <3>6. CASE adds
      <4>1. owed'[d][l] = owed[d][l] + o BY <1>4, <2>2, <3>6 DEF Adds
      <4> HIDE DEF d, o
      <4> QED BY <3>1, <3>2, <3>3, <3>4, <3>5, <3>6, <4>1 DEF d
    <3>7. CASE ~adds BY <3>1, <3>2, <3>4, <3>7
    <3> QED BY <3>6, <3>7
  <2> QED BY <1>1, <2>1, <2>2 DEF Fair
<1> QED BY <1>1, <1>2, <1>5, <1>6 DEF Ledger

LEMMA StackSame ==
  ASSUME IInv, Ledger, UNCHANGED <<files, last, whole, read, owed>>, Saving', Closing',
         \A i \in 1 .. Len(files), l \in Shows : files[i].dest \in whole =>
           Coming(stack', files[i], i, l) = Coming(stack, files[i], i, l),
         \A i \in 1 .. Len(files), l \in Shows : Coming(stack, files[i], i, l) \in Nat
  PROVE  Ledger'
<1>1. PICK no \in BOOLEAN : ~no OBVIOUS
<1>2. UNCHANGED <<files, last, whole, read>> /\ (~no => owed' = owed) BY <1>1
<1>3. no => Adds(owed', owed, whole, files, Failed) BY <1>1
<1>4. ASSUME NEW i \in 1 .. Len(files), NEW l \in Shows, files[i].dest \in whole
      PROVE  Coming(stack', files[i], i, l) = Coming(stack, files[i], i, l)
               + (IF no THEN One(Call("log", Failed), files[i], i, l) ELSE 0)
  <2>1. Coming(stack', files[i], i, l) = Coming(stack, files[i], i, l) /\ Coming(stack, files[i], i, l) \in Nat BY <1>4
  <2> QED BY <1>1, <2>1
<1> QED BY <1>2, <1>3, <1>4, StackLedger

LEMMA ComingNat == ASSUME NEW st \in Seq(Frame), NEW f, NEW i, NEW l PROVE Coming(st, f, i, l) \in Nat
<1>1. Call("log", Failed) \in Frame BY CallFrame, OwnCalls DEF Ops
<1> QED BY <1>1, ComingAppend

\* The innermost call returns with nothing left to bring.
LEMMA PopLedger ==
  ASSUME IInv, Ledger, stack # <<>>, stack' = Below, UNCHANGED <<files, last, whole, read, owed>>,
         ~Dying(Top), Top.op = "log" => AtEnd
  PROVE  Ledger'
<1> DEFINE n == Len(stack)
<1>1. stack \in Seq(Frame) /\ Len(files) \in Nat BY Known
<1>2. /\ Below \in Seq(Frame) /\ Top \in Frame /\ stack = Append(Below, Top)
      /\ n \in Nat \ {0} /\ Len(Below) = n - 1 /\ Top = stack[n]
      /\ \A k \in 1 .. n - 1 : Below[k] = stack[k]
  BY <1>1, StackParts
<1>3. ASSUME NEW i \in 1 .. Len(files), NEW l
      PROVE  Coming(stack', files[i], i, l) = Coming(stack, files[i], i, l) /\ Coming(stack, files[i], i, l) \in Nat
  <2>1. Coming(Below, files[i], i, l) \in Nat
        /\ Coming(stack, files[i], i, l) = Coming(Below, files[i], i, l) + One(Top, files[i], i, l)
    BY <1>2, ComingAppend
  <2>2. ~Waits(Top, files[i], i, l)
    <3>1. Top.at \in Nat BY <1>2 DEF Frame
    <3>2. AtEnd => ~(Top.at < i) /\ Top.at # i BY <1>1, <3>1 DEF AtEnd
    <3> QED BY <3>2 DEF Waits
  <2> QED BY <2>1, <2>2 DEF One
<1>4. \A r : /\ Lost(r)' <=> Lost(r)
             /\ Flushed(r)' <=> Flushed(r)
             /\ Dying(r)' <=> Dying(r)
  BY DEF Lost, Flushed, Dying
<1>5. Saving'
  <2>1. ASSUME NEW k \in 1 .. n - 1
        PROVE  Lost(stack[k]) \/ \E j \in k + 1 .. n - 1 : Dying(stack[j])
    <3>1. Lost(stack[k]) \/ \E j \in k + 1 .. n : Dying(stack[j]) BY DEF Ledger, Saving
    <3>2. \A j \in k + 1 .. n : j \in k + 1 .. n - 1 \/ j = n BY <1>2
    <3> QED BY <1>2, <3>1, <3>2
  <2>2. ASSUME Below # <<>> PROVE Flushed(Below[Len(Below)])
    <3>1. n - 1 \in 1 .. n - 1 BY <1>2, <2>2
    <3>2. Lost(stack[n - 1])
      <4>1. (n - 1) + 1 .. n - 1 = {} BY <1>2
      <4> QED BY <2>1, <3>1, <4>1
    <3> QED BY <1>2, <3>1, <3>2 DEF Lost, Flushed
  <2>3. ASSUME NEW k \in 1 .. Len(Below) - 1
        PROVE  Lost(Below[k]) \/ \E j \in k + 1 .. Len(Below) : Dying(Below[j])
    <3>1. k \in 1 .. n - 1 /\ Below[k] = stack[k] /\ \A j \in k + 1 .. n - 1 : Below[j] = stack[j] BY <1>2
    <3> QED BY <1>2, <2>1, <3>1
  <2>4. stack' = Below /\ Top' = Below[Len(Below)] BY DEF Top
  <2>5. stack' # <<>> => Flushed(Top)'
    <3> SUFFICES ASSUME stack' # <<>> PROVE Flushed(Top)' OBVIOUS
    <3>1. PICK r : r = Below[Len(Below)] OBVIOUS
    <3>2. Flushed(r) /\ Top' = r BY <2>2, <2>4, <3>1
    <3>3. Flushed(r)' BY <3>2, <1>4
    <3> QED BY <3>2, <3>3 DEF Flushed
  <2>6. ASSUME NEW k \in 1 .. Len(stack') - 1
        PROVE  Lost(stack[k])' \/ \E j \in k + 1 .. Len(stack') : Dying(stack[j])'
    <3>1. k \in 1 .. Len(Below) - 1 BY <2>4
    <3>2. CASE Lost(Below[k])
      <4>1. PICK r : r = Below[k] OBVIOUS
      <4>2. Lost(r)' /\ stack'[k] = r BY <1>4, <2>4, <3>2, <4>1
      <4> QED BY <4>2 DEF Lost
    <3>3. CASE \E j \in k + 1 .. Len(Below) : Dying(Below[j]) BY <2>4, <3>3 DEF Dying
    <3> QED BY <2>3, <3>1, <3>2, <3>3
  <2> QED BY <2>5, <2>6 DEF Saving
<1>6. Closing'
  <2>1. ASSUME NEW k \in 1 .. Len(Below) PROVE Below[k].op # "close"
    <3>1. k \in 1 .. n - 1 /\ k \in 1 .. n BY <1>2
    <3> QED BY <1>2, <3>1 DEF Ledger, Closing
  <2> QED BY <2>1 DEF Closing
<1> QED BY <1>3, <1>5, <1>6, StackSame

LEMMA ReturnLedger == IInv /\ Ledger /\ (LogReturn \/ DueReturn \/ RestartDone) => Ledger'
<1> SUFFICES ASSUME IInv, Ledger, LogReturn \/ DueReturn \/ RestartDone PROVE Ledger' OBVIOUS
<1>1. stack # <<>> /\ stack' = Below /\ ~Dying(Top) /\ (Top.op = "log" => AtEnd)
  BY DEF LogReturn, DueReturn, RestartDone, Running, Dying
<1>2. UNCHANGED <<files, last, whole, read, owed>> BY DEF LogReturn, DueReturn, RestartDone, history
<1> QED BY <1>1, <1>2, PopLedger

\* Nobody has come to the second phase yet.
LEMMA FreshSaving ==
  ASSUME stack' \in Seq(Frame), \A k \in 1 .. Len(stack') : stack'[k].phase = "test" PROVE Saving'
<1>1. stack' # <<>> => Len(stack') \in 1 .. Len(stack') OBVIOUS
<1>2. stack' # <<>> => Flushed(Top)' BY <1>1 DEF Flushed, Top
<1>3. \A k \in 1 .. Len(stack') - 1 : k \in 1 .. Len(stack') OBVIOUS
<1>4. \A k \in 1 .. Len(stack') - 1 : Lost(stack[k])' BY <1>3 DEF Lost
<1> QED BY <1>2, <1>4 DEF Saving

LEMMA OneFrame ==
  ASSUME NEW r \in Frame
  PROVE  <<r>> \in Seq(Frame) /\ Len(<<r>>) = 1 /\ <<r>>[1] = r
  OBVIOUS

\* Calls that bring nobody a line.
LEMMA ComingQuiet ==
  ASSUME NEW st, \A k \in 1 .. Len(st) : st[k].op # "log", NEW f, NEW i, NEW l
  PROVE  Coming(st, f, i, l) = 0
<1>1. Waiting(st, f, i, l) = {} BY DEF Waiting, Waits
<1> QED BY <1>1, FS_EmptySet DEF Coming

LEMMA QuietLedger ==
  ASSUME IInv, Ledger, stack = <<>>, UNCHANGED <<files, last, whole, read, owed>>, stack' \in Seq(Frame),
         \A k \in 1 .. Len(stack') : stack'[k].op # "log" /\ stack'[k].phase = "test", Closing'
  PROVE  Ledger'
<1>1. Saving' BY FreshSaving
<1>2. ASSUME NEW i \in 1 .. Len(files), NEW l \in Shows
      PROVE  Coming(stack, files[i], i, l) \in Nat /\ Coming(stack', files[i], i, l) = Coming(stack, files[i], i, l)
  <2>1. Coming(stack, files[i], i, l) = 0 BY ComingEmpty
  <2>2. Coming(stack', files[i], i, l) = 0 BY ComingQuiet
  <2> QED BY <2>1, <2>2
<1> QED BY <1>1, <1>2, StackSame

LEMMA ReceiveLedger == \A m \in Msgs : IInv /\ Ledger /\ Receive(m) => Ledger'
<1> SUFFICES ASSUME NEW m \in Msgs, IInv, Ledger, Receive(m) PROVE Ledger' OBVIOUS
<1>1. stack = <<>> /\ UNCHANGED <<files, last, whole, read, owed>> BY DEF Receive, Idle, history
<1>2. stack' \in Seq(Frame) /\ Frames(stack') = {Call("next", m)} BY Received
<1>3. ASSUME NEW k \in 1 .. Len(stack') PROVE stack'[k].op = "next" /\ stack'[k].phase = "test"
  <2>1. stack'[k] = Call("next", m) BY <1>2 DEF Frames
  <2> QED BY <2>1 DEF Call
<1>4. Closing' BY <1>3 DEF Closing
<1> QED BY <1>1, <1>2, <1>3, <1>4, QuietLedger

LEMMA RestartLedger == IInv /\ Ledger /\ Restart => Ledger'
<1> SUFFICES ASSUME IInv, Ledger, Restart PROVE Ledger' OBVIOUS
<1> DEFINE r == Call("close", Restarted)
<1>1. stack = <<>> /\ stack' = <<r>> BY DEF Restart, Idle
<1>2. r \in Frame /\ r.op = "close" /\ r.phase = "test" /\ r.at = 1 BY CallFrame, OwnCalls DEF Ops, Call
<1>3. UNCHANGED <<files, last, whole, read, owed>> BY DEF Restart, history
<1> HIDE DEF r
<1>4. stack' \in Seq(Frame) /\ Len(stack') = 1 /\ stack'[1] = r BY <1>1, <1>2, OneFrame
<1>5. Closing'
  <2>1. \A i \in 1 .. Len(files') : ~(i < 1) OBVIOUS
  <2> QED BY <1>2, <1>4, <2>1 DEF Closing
<1> QED BY <1>1, <1>2, <1>3, <1>4, <1>5, QuietLedger

LEMMA AppendIs ==
  ASSUME NEW z \in Seq(Frame), NEW a \in Frame
  PROVE  /\ Append(z, a) \in Seq(Frame) /\ Len(Append(z, a)) = Len(z) + 1
         /\ Append(z, a)[Len(z) + 1] = a /\ \A k \in 1 .. Len(z) : Append(z, a)[k] = z[k]
  OBVIOUS

\* New calls are made on top of those in progress.
LEMMA PushSaving ==
  ASSUME stack \in Seq(Frame), stack' \in Seq(Frame), Saving, stack # <<>> => Lost(Top),
         Len(stack') > Len(stack), \A k \in 1 .. Len(stack) : stack'[k] = stack[k],
         \A k \in 1 .. Len(stack') : k > Len(stack) => stack'[k].phase = "test",
         UNCHANGED files, UNCHANGED whole
  PROVE  Saving'
<1> DEFINE n == Len(stack)
<1>1. n \in Nat /\ Len(stack') \in Nat /\ Len(stack') \in 1 .. Len(stack') OBVIOUS
<1>2. Top'.phase = "test" BY <1>1 DEF Top
<1>3. Flushed(Top)' BY <1>2 DEF Flushed
<1>4. ASSUME NEW k \in 1 .. Len(stack') - 1
      PROVE  Lost(stack[k])' \/ \E j \in k + 1 .. Len(stack') : Dying(stack[j])'
  <2>1. CASE k > n BY <1>1, <2>1 DEF Lost
  <2>2. CASE k <= n
    <3>1. k \in 1 .. n /\ stack'[k] = stack[k] BY <1>1, <2>2
    <3>2. CASE Lost(stack[k]) BY <3>1, <3>2 DEF Lost
    <3>3. CASE ~Lost(stack[k])
      <4>1. k # n BY <1>1, <3>1, <3>3 DEF Top
      <4>2. k \in 1 .. n - 1 BY <1>1, <3>1, <4>1
      <4>3. PICK j \in k + 1 .. n : Dying(stack[j]) BY <3>3, <4>2 DEF Saving
      <4>4. j \in k + 1 .. Len(stack') /\ stack'[j] = stack[j] BY <1>1, <4>3
      <4> QED BY <4>3, <4>4 DEF Dying
    <3> QED BY <3>2, <3>3
  <2> QED BY <1>1, <2>1, <2>2
<1> QED BY <1>3, <1>4 DEF Saving

LEMMA DomarkLedger == IInv /\ Ledger /\ Domark => Ledger'
<1> SUFFICES ASSUME IInv, Ledger, Domark PROVE Ledger' OBVIOUS
<1> DEFINE due == MarkInterval > 0 /\ markseq + 1 >= MarkInterval
           a == Call("due", Mark)
           b == Call("log", Mark)
<1> DEFINE n == Len(stack)
           s == Append(stack, a)
<1>1. /\ stack = <<>> \/ (stack # <<>> /\ Top.op = "next")
      /\ stack' = s \o (IF due THEN <<b>> ELSE <<>>)
  BY DEF Domark, Idle, Running
<1>2. /\ a \in Frame /\ a.op = "due" /\ a.phase = "test"
      /\ b \in Frame /\ b.op = "log" /\ b.phase = "test" /\ b.m.mark
  BY CallFrame, OwnCalls DEF Ops, Call, Mark, Own
<1>3. UNCHANGED <<files, last, whole, read, owed>> BY DEF Domark, history
<1>4. stack \in Seq(Frame) /\ n \in Nat BY Known
<1> HIDE DEF a, b, due
<1>5. s \in Seq(Frame) /\ Len(s) = n + 1 /\ s[n + 1] = a /\ \A k \in 1 .. n : s[k] = stack[k]
  BY <1>2, <1>4, AppendIs
<1>6. ASSUME NEW i, NEW l
      PROVE  /\ Coming(stack, files[i], i, l) \in Nat /\ Coming(s, files[i], i, l) = Coming(stack, files[i], i, l)
             /\ Coming(Append(s, b), files[i], i, l) = Coming(s, files[i], i, l)
  <2>1. /\ Coming(stack, files[i], i, l) \in Nat
        /\ Coming(s, files[i], i, l) = Coming(stack, files[i], i, l) + One(a, files[i], i, l)
    BY <1>2, <1>4, ComingAppend
  <2> HIDE DEF s
  <2>2. Coming(Append(s, b), files[i], i, l) = Coming(s, files[i], i, l) + One(b, files[i], i, l)
    BY <1>2, <1>5, ComingAppend
  <2>3. One(a, files[i], i, l) = 0 /\ One(b, files[i], i, l) = 0 BY <1>2 DEF One, Waits
  <2> QED BY <2>1, <2>2, <2>3
<1> HIDE DEF s
<1>7. Append(s, b) \in Seq(Frame) /\ Len(Append(s, b)) = n + 2 /\ Append(s, b)[n + 2] = b
      /\ \A k \in 1 .. n + 1 : Append(s, b)[k] = s[k]
  <2>1. Append(s, b) \in Seq(Frame) /\ Len(Append(s, b)) = Len(s) + 1 /\ Append(s, b)[Len(s) + 1] = b
        /\ \A k \in 1 .. Len(s) : Append(s, b)[k] = s[k]
    BY <1>2, <1>5, AppendIs
  <2>2. (n + 1) + 1 = n + 2 BY <1>4
  <2> QED BY <1>5, <2>1, <2>2
<1>8. stack' = s \/ stack' = Append(s, b)
  <2>1. CASE due BY <1>1, <1>2, <1>5, <2>1
  <2>2. CASE ~due BY <1>1, <1>5, <2>2
  <2> QED BY <2>1, <2>2
<1>9. /\ stack' \in Seq(Frame) /\ Len(stack') \in {n + 1, n + 2}
      /\ \A k \in 1 .. n : stack'[k] = stack[k]
      /\ \A k \in 1 .. Len(stack') : k > n => stack'[k] \in {a, b}
  <2>1. CASE stack' = s
    <3>1. \A k \in 1 .. n + 1 : k > n => k = n + 1 BY <1>4
    <3> QED BY <1>5, <2>1, <3>1
  <2>2. CASE stack' = Append(s, b)
    <3>1. \A k \in 1 .. n + 2 : k > n => k = n + 1 \/ k = n + 2 BY <1>4
    <3>2. n + 1 \in 1 .. n + 1 /\ \A k \in 1 .. n : k \in 1 .. n + 1 BY <1>4
    <3> QED BY <1>5, <1>7, <2>2, <3>1, <3>2
  <2> QED BY <1>8, <2>1, <2>2
<1>10. Saving'
  <2>1. stack # <<>> => Lost(Top) BY <1>1 DEF Lost
  <2>2. Len(stack') > n BY <1>4, <1>9
  <2>3. \A k \in 1 .. Len(stack') : k > n => stack'[k].phase = "test" BY <1>2, <1>9
  <2> QED BY <1>3, <1>4, <1>9, <2>1, <2>2, <2>3, PushSaving DEF Ledger
<1>11. Closing'
  <2>1. ASSUME NEW k \in 1 .. n PROVE stack[k].op # "close"
    <3>1. n = 1 => Top = stack[k] BY DEF Top
    <3>2. stack # <<>> BY <1>4
    <3> QED BY <1>1, <3>1, <3>2 DEF Ledger, Closing
  <2>2. \A k \in 1 .. Len(stack') : k \in 1 .. n \/ k > n BY <1>4, <1>9
  <2> QED BY <1>2, <1>9, <2>1, <2>2 DEF Closing
<1>12. \A i \in 1 .. Len(files), l \in Shows :
         Coming(stack, files[i], i, l) \in Nat /\ Coming(stack', files[i], i, l) = Coming(stack, files[i], i, l)
  BY <1>6, <1>8
<1> QED BY <1>3, <1>10, <1>11, <1>12, StackSame

\* A call of logmsg() begins: it owes its line to those it is for.
LEMMA LogCallLedger == ASSUME Separate PROVE IInv /\ Ledger /\ LogCall => Ledger'
<1> SUFFICES ASSUME IInv, Ledger, LogCall PROVE Ledger' OBVIOUS
<1> DEFINE m == Top.m
           b == Call("log", m)
           n == Len(stack)
<1>1. stack \in Seq(Frame) /\ stack # <<>> /\ Top.op = "next" BY Known DEF LogCall, Running
<1>2. /\ Below \in Seq(Frame) /\ Top \in Frame /\ n \in Nat \ {0} /\ Len(Below) = n - 1 /\ Top = stack[n]
      /\ \A k \in 1 .. n - 1 : Below[k] = stack[k]
  BY <1>1, StackParts
<1>3. m \in Msgs \cup OwnMsgs BY <1>2 DEF Frame
<1>4. b \in Frame /\ b.op = "log" /\ b.phase = "test" BY <1>3, CallFrame DEF Ops, Call
<1>5. stack' = Append(Below, b) /\ UNCHANGED <<files, last, whole, read>>
      /\ owed' = Owing(owed, whole, read, files, m)
  BY DEF LogCall
<1>6. owed \in Debts /\ whole \in SUBSET Dests /\ files \in Seq(Entry) BY Known
<1>7. read \in Confs BY DEF IInv, TInv, TypeOK
<1>8. FromFile(files, read) BY <1>6 DEF FromFile, Ledger, Conforms
<1>9. PICK x : x = m OBVIOUS
<1>10. Adds(owed', owed, whole, files, x) BY <1>3, <1>5, <1>6, <1>7, <1>8, <1>9, OwingIs
<1>11. /\ stack' \in Seq(Frame) /\ Len(stack') = n /\ stack'[n] = b
       /\ \A k \in 1 .. n - 1 : stack'[k] = stack[k]
  <2> HIDE DEF b, n
  <2>1. (n - 1) + 1 = n BY <1>2
  <2> QED BY <1>2, <1>4, <1>5, <2>1, AppendIs
<1>12. PICK yes \in BOOLEAN : yes OBVIOUS
<1>13. ASSUME NEW i \in 1 .. Len(files), NEW l \in Shows
       PROVE  /\ Coming(stack, files[i], i, l) \in Nat
              /\ Coming(stack', files[i], i, l) = Coming(stack, files[i], i, l)
                   + (IF yes THEN One(Call("log", x), files[i], i, l) ELSE 0)
  <2>1. /\ Coming(Below, files[i], i, l) \in Nat
        /\ Coming(stack, files[i], i, l) = Coming(Below, files[i], i, l) + One(Top, files[i], i, l)
        /\ Coming(Append(Below, b), files[i], i, l) = Coming(Below, files[i], i, l) + One(b, files[i], i, l)
    BY <1>1, <1>4, TurnPlain
  <2>2. One(Top, files[i], i, l) = 0 BY <1>1 DEF One, Waits
  <2>3. One(b, files[i], i, l) \in {0, 1} BY OneType
  <2>4. One(Call("log", x), files[i], i, l) = One(b, files[i], i, l) BY <1>9
  <2> HIDE DEF b
  <2> QED BY <1>5, <1>12, <2>1, <2>2, <2>3, <2>4
<1> HIDE DEF b, n, m
<1>14. Saving'
  <2>1. Top' = b BY <1>2, <1>11 DEF Top
  <2>2. Flushed(Top)' BY <1>4, <2>1 DEF Flushed
  <2>3. ASSUME NEW k \in 1 .. Len(stack') - 1
        PROVE  Lost(stack[k])' \/ \E j \in k + 1 .. Len(stack') : Dying(stack[j])'
    <3>1. k \in 1 .. n - 1 /\ stack'[k] = stack[k] BY <1>11
    <3>2. CASE Lost(stack[k]) BY <1>5, <3>1, <3>2 DEF Lost
    <3>3. CASE ~Lost(stack[k])
      <4>1. PICK j \in k + 1 .. n : Dying(stack[j]) BY <3>1, <3>3 DEF Ledger, Saving, n
      <4>2. j # n BY <1>1, <1>2, <4>1 DEF Dying
      <4>3. j \in 1 .. n - 1 /\ j \in k + 1 .. Len(stack') BY <1>2, <1>11, <3>1, <4>1, <4>2
      <4> QED BY <1>11, <4>1, <4>3 DEF Dying
    <3> QED BY <3>2, <3>3
  <2> QED BY <2>2, <2>3 DEF Saving
<1>15. Closing'
  <2>1. ASSUME NEW k \in 1 .. n PROVE stack'[k].op # "close"
    <3>1. CASE k = n BY <1>4, <1>11, <3>1
    <3>2. CASE k # n
      <4>1. k \in 1 .. n - 1 /\ n # 1 BY <1>2, <3>2
      <4> QED BY <1>11, <4>1 DEF Ledger, Closing, n
    <3> QED BY <3>1, <3>2
  <2> QED BY <1>11, <2>1 DEF Closing
<1>16. UNCHANGED <<files, last, whole, read>> /\ (~yes => owed' = owed) BY <1>5, <1>12
<1>17. yes => Adds(owed', owed, whole, files, x) BY <1>10
<1>18. \A i \in 1 .. Len(files), l \in Shows : Coming(stack, files[i], i, l) \in Nat BY <1>13
<1>19. \A i \in 1 .. Len(files), l \in Shows : files[i].dest \in whole =>
         Coming(stack', files[i], i, l) = Coming(stack, files[i], i, l)
           + (IF yes THEN One(Call("log", x), files[i], i, l) ELSE 0)
  BY <1>13
<1> QED BY <1>14, <1>15, <1>16, <1>17, <1>18, <1>19, StackLedger

LEMMA TermLedger == IInv /\ Ledger /\ Term => Ledger'
<1> SUFFICES ASSUME IInv, Ledger, Term PROVE Ledger' OBVIOUS
<1> DEFINE r == Call("die", Exiting)
           n == Len(stack)
<1>1. stack \in Seq(Frame) /\ n \in Nat BY Known
<1>2. r \in Frame /\ r.op = "die" /\ r.phase = "test" BY CallFrame, OwnCalls DEF Ops, Call
<1>3. UNCHANGED <<files, last, whole, read, owed>> /\ stack' = Append(stack, r)
      /\ \A k \in 1 .. n : stack[k].op # "close"
  BY DEF Term, Terminable, history
<1> HIDE DEF r
<1>4. Len(stack') = n + 1 /\ stack'[n + 1] = r /\ \A k \in 1 .. n : stack'[k] = stack[k] BY <1>1, <1>2, <1>3
<1>5. Saving'
  <2>1. Flushed(Top)' BY <1>1, <1>2, <1>4 DEF Flushed, Top
  <2>2. ASSUME NEW k \in 1 .. Len(stack') - 1 PROVE \E j \in k + 1 .. Len(stack') : Dying(stack[j])'
    <3>1. n + 1 \in k + 1 .. Len(stack') BY <1>1, <1>4
    <3> QED BY <1>2, <1>4, <3>1 DEF Dying
  <2> QED BY <2>1, <2>2 DEF Saving
<1>6. Closing'
  <2>1. \A k \in 1 .. n + 1 : k \in 1 .. n \/ k = n + 1 BY <1>1
  <2> QED BY <1>2, <1>3, <1>4, <2>1 DEF Closing
<1>7. ASSUME NEW i \in 1 .. Len(files), NEW l \in Shows
      PROVE  Coming(stack, files[i], i, l) \in Nat /\ Coming(stack', files[i], i, l) = Coming(stack, files[i], i, l)
  <2>1. Coming(stack, files[i], i, l) \in Nat
        /\ Coming(stack', files[i], i, l) = Coming(stack, files[i], i, l) + One(r, files[i], i, l)
    BY <1>1, <1>2, <1>3, ComingAppend
  <2>2. One(r, files[i], i, l) = 0 BY <1>2 DEF One, Waits
  <2> QED BY <2>1, <2>2
<1> QED BY <1>3, <1>5, <1>6, <1>7, StackSame

\* SIGTERM in the middle of writing repeats: the destination is given up.
LEMMA TermInWriteLedger == ASSUME Separate PROVE IInv /\ Ledger /\ TermInWrite => Ledger'
<1> SUFFICES ASSUME IInv, Ledger, TermInWrite PROVE Ledger' OBVIOUS
<1> DEFINE r == Call("die", Exiting)
           n == Len(stack)
<1>1. stack # <<>> /\ ~AtEnd /\ stack' = Append(stack, r) /\ read' = read BY DEF TermInWrite
<1>2. Top.at \in 1 .. Len(files) /\ F = files[Top.at] /\ F \in Entry BY <1>1, AtEntry
<1>3. files \in Seq(Entry) /\ stack \in Seq(Frame) /\ n \in Nat BY Known
<1> DEFINE G == [F EXCEPT !.count = @ + 1]
<1>4. PICK f \in {F, G} :
        /\ files' = [files EXCEPT ![Top.at] =
                        [Printed(f, Top.m.host, "ok") EXCEPT !.count = f.count]]
        /\ last' = IF f.count > 1 THEN last ELSE [last EXCEPT ![f.dest] = <<f.prev, f.host>>]
        /\ whole' = whole \ {f.dest} /\ owed' = [owed EXCEPT ![f.dest] = Nothing]
  BY DEF TermInWrite
<1>5. G \in Entry /\ G.dest = F.dest /\ G.mask = F.mask
  <2> DEFINE x == F.count + 1
             e == [F EXCEPT !.count = x]
  <2>1. x \in Nat BY <1>2, EntryFields
  <2> HIDE DEF x
  <2>2. e \in Entry /\ e.dest = F.dest /\ e.mask = F.mask BY <1>2, <2>1, EntryIs
  <2> QED BY <2>2 DEF x
<1> HIDE DEF G
<1>6. f \in Entry /\ f.dest = F.dest /\ f.mask = F.mask /\ f.count \in Nat /\ f.dest \in Dests
  BY <1>2, <1>4, <1>5, EntryFields
<1> DEFINE p == Printed(f, Top.m.host, "ok")
           x == f.count
           e == [p EXCEPT !.count = x]
<1>7. p \in Entry /\ p.dest = F.dest /\ p.mask = F.mask BY <1>6, PrintedEntry, PrintedMore
<1>8. files' = [files EXCEPT ![Top.at] = e] /\ x \in Nat BY <1>4, <1>6
<1> HIDE DEF p, x
<1>9. e \in Entry /\ e.dest = F.dest /\ e.mask = F.mask BY <1>7, <1>8, EntryIs
<1> HIDE DEF e
<1> DEFINE d == F.dest
<1>10. /\ whole' = whole \ {d} /\ owed' = [owed EXCEPT ![d] = Nothing] /\ d \in Dests
       /\ \A y \in Dests \ {d} : last'[y] = last[y] /\ owed'[y] = owed[y]
       /\ owed'[d] = Nothing
  <2>1. owed \in Debts /\ last \in [Dests -> Lines] BY Known
  <2> QED BY <1>4, <1>6, <2>1 DEF Debts
<1>11. /\ Len(files') = Len(files) /\ files'[Top.at] = e
       /\ \A i \in 1 .. Len(files) : i # Top.at => files'[i] = files[i]
  BY <1>2, <1>3, <1>8, <1>9, FilesWith
<1>12. \A i \in 1 .. Len(files) : files'[i].dest = files[i].dest /\ files'[i].mask = files[i].mask
  BY <1>2, <1>9, <1>11
<1>13. Conforms'
  <2>1. ASSUME NEW i \in 1 .. Len(files), files'[i].dest \in whole' PROVE files'[i].type = read[i].type
    <3>1. i # Top.at BY <1>2, <1>10, <1>12, <2>1
    <3> QED BY <1>10, <1>11, <2>1, <3>1 DEF Ledger, Conforms
  <2> QED BY <1>1, <1>11, <1>12, <2>1 DEF Ledger, Conforms
<1>14. Strangers'
  <2>1. ASSUME NEW y \in Dests, y \notin whole' PROVE owed'[y] = Nothing
    BY <1>10, <2>1 DEF Ledger, Strangers
  <2>2. ASSUME NEW y \in Dests, \A i \in 1 .. Len(files') : files'[i].dest # y, NEW l \in Shows
        PROVE  owed'[y][l] = 0
    <3>1. \A i \in 1 .. Len(files) : files[i].dest # y BY <1>11, <1>12, <2>2
    <3>2. y # d BY <1>2, <3>1
    <3> QED BY <1>10, <2>2, <3>1, <3>2 DEF Ledger, Strangers
  <2> QED BY <2>1, <2>2 DEF Strangers
<1>15. r \in Frame /\ r.op = "die" /\ r.phase = "test" BY CallFrame, OwnCalls DEF Ops, Call
<1> HIDE DEF r, n
<1>16. Len(stack') = n + 1 /\ stack'[n + 1] = r /\ \A k \in 1 .. n : stack'[k] = stack[k]
  BY <1>1, <1>3, <1>15, AppendIs DEF n
<1>17. Saving'
  <2>1. Flushed(Top)' BY <1>3, <1>15, <1>16 DEF Flushed, Top
  <2>2. ASSUME NEW k \in 1 .. Len(stack') - 1 PROVE \E j \in k + 1 .. Len(stack') : Dying(stack[j])'
    <3>1. n + 1 \in k + 1 .. Len(stack') BY <1>3, <1>16
    <3> QED BY <1>15, <1>16, <3>1 DEF Dying
  <2> QED BY <2>1, <2>2 DEF Saving
<1>18. Closing'
  <2>1. \A k \in 1 .. n + 1 : k \in 1 .. n \/ k = n + 1 BY <1>3
  <2>2. \A k \in 1 .. n : stack[k].op # "close" BY DEF TermInWrite, Terminable, n
  <2> QED BY <1>15, <1>16, <2>1, <2>2 DEF Closing
<1>19. ASSUME NEW i \in 1 .. Len(files') PROVE Fair(i)'
  <2> DEFINE g == files[i]
             y == g.dest
  <2>1. CASE i = Top.at
    <3>1. files'[i].dest \notin whole' BY <1>9, <1>10, <1>11, <2>1
    <3> QED BY <3>1 DEF Fair
  <2>2. CASE i # Top.at
    <3>1. i \in 1 .. Len(files) /\ files'[i] = g BY <1>11, <2>2
    <3>2. y # d BY <1>2, <2>2, <3>1, Distinct DEF Ledger
    <3>3. ASSUME y \in whole'
          PROVE  /\ g.prev # Empty => last'[y] = LineOf(g)
                 /\ g.prev = Empty => g.count = 0
                 /\ \A l \in Shows : owed'[y][l] = Kept(g, l) + Coming(stack', g, i, l)
      <4>1. y \in whole /\ y \in Dests /\ Fair(i) BY <1>10, <3>1, <3>3, Known DEF Ledger
      <4>2. last'[y] = last[y] /\ owed'[y] = owed[y] BY <1>10, <3>2, <4>1
      <4>3. ASSUME NEW l \in Shows PROVE Coming(stack', g, i, l) = Coming(stack, g, i, l)
        <5>1. Coming(stack, g, i, l) \in Nat /\ Coming(stack', g, i, l) = Coming(stack, g, i, l) + One(r, g, i, l)
          BY <1>1, <1>3, <1>15, ComingAppend
        <5>2. One(r, g, i, l) = 0 BY <1>15 DEF One, Waits
        <5> QED BY <5>1, <5>2
      <4> QED BY <4>1, <4>2, <4>3 DEF Fair
    <3> QED BY <3>1, <3>3 DEF Fair
  <2> QED BY <2>1, <2>2
<1> QED BY <1>13, <1>14, <1>17, <1>18, <1>19 DEF Ledger

LEMMA DieLogLedger == ASSUME Separate PROVE IInv /\ Ledger /\ DieLog => Ledger'
<1> SUFFICES ASSUME IInv, Ledger, DieLog PROVE Ledger' OBVIOUS
<1> DEFINE a == Call("exit", Exiting)
           b == Call("log", Exiting)
           n == Len(stack)
           s == Append(Below, a)
<1>1. stack \in Seq(Frame) /\ stack # <<>> /\ Top.op = "die" BY Known DEF DieLog, Running
<1>2. /\ Below \in Seq(Frame) /\ Top \in Frame /\ stack = Append(Below, Top)
      /\ n \in Nat \ {0} /\ Len(Below) = n - 1 /\ Top = stack[n]
      /\ \A k \in 1 .. n - 1 : Below[k] = stack[k]
  BY <1>1, StackParts
<1>3. a \in Frame /\ b \in Frame /\ a.op = "exit" /\ b.op = "log" /\ a.phase = "test" /\ b.phase = "test"
  BY CallFrame, OwnCalls DEF Ops, Call
<1>4. stack' = Append(s, b) /\ UNCHANGED <<files, last, whole, read>>
      /\ owed' = Owing(owed, whole, read, files, Exiting)
  BY DEF DieLog
<1> HIDE DEF a, n
<1>5. s \in Seq(Frame) /\ Len(s) = n /\ s[n] = a /\ \A k \in 1 .. n - 1 : s[k] = stack[k] BY <1>2, <1>3
<1> DEFINE c == b
<1>6. c \in Frame /\ stack' = Append(s, c) /\ c.op = "log" /\ c.phase = "test" BY <1>3, <1>4
<1> HIDE DEF s, c
<1>7. /\ stack' \in Seq(Frame) /\ Len(stack') = n + 1 /\ stack'[n + 1] = c /\ stack'[n] = a
      /\ \A k \in 1 .. n - 1 : stack'[k] = stack[k]
  BY <1>2, <1>5, <1>6
<1>8. Exiting \in Msgs \cup OwnMsgs BY OwnCalls
<1>10. owed \in Debts /\ whole \in SUBSET Dests /\ files \in Seq(Entry) BY Known
<1>11. read \in Confs BY DEF IInv, TInv, TypeOK
<1>12. FromFile(files, read) BY <1>10 DEF FromFile, Ledger, Conforms
<1>13. Adds(owed', owed, whole, files, Exiting) BY <1>4, <1>8, <1>10, <1>11, <1>12, OwingIs
<1>14. Saving'
  <2>1. Flushed(Top)' BY <1>6, <1>7 DEF Flushed, Top
  <2>2. ASSUME NEW k \in 1 .. Len(stack') - 1
        PROVE  Lost(stack[k])' \/ \E j \in k + 1 .. Len(stack') : Dying(stack[j])'
    <3>1. CASE k = n BY <1>3, <1>7, <3>1 DEF Lost
    <3>2. CASE k # n
      <4>1. n \in k + 1 .. Len(stack') BY <1>2, <1>7, <3>2
      <4> QED BY <1>3, <1>7, <4>1 DEF Dying
    <3> QED BY <3>1, <3>2
  <2> QED BY <2>1, <2>2 DEF Saving
<1>15. Closing'
  <2>1. ASSUME NEW k \in 1 .. Len(stack') PROVE stack'[k].op # "close"
    <3>1. k \in 1 .. n - 1 \/ k = n \/ k = n + 1 BY <1>2, <1>7
    <3>2. CASE k \in 1 .. n - 1
      <4>1. k \in 1 .. n /\ n # 1 BY <1>2, <3>2
      <4> QED BY <1>7, <3>2, <4>1 DEF Ledger, Closing, n
    <3> QED BY <1>3, <1>6, <1>7, <3>1, <3>2
  <2> QED BY <2>1 DEF Closing
<1>16. PICK yes \in BOOLEAN : yes OBVIOUS
<1>17. ASSUME NEW i \in 1 .. Len(files), NEW l \in Shows
       PROVE  /\ Coming(stack, files[i], i, l) \in Nat
              /\ Coming(stack', files[i], i, l) = Coming(stack, files[i], i, l)
                   + (IF yes THEN One(Call("log", Exiting), files[i], i, l) ELSE 0)
  <2>1. Coming(Below, files[i], i, l) \in Nat
        /\ Coming(stack, files[i], i, l) = Coming(Below, files[i], i, l) + One(Top, files[i], i, l)
    BY <1>2, ComingAppend
  <2>2. Coming(s, files[i], i, l) = Coming(Below, files[i], i, l) + One(a, files[i], i, l)
    BY <1>2, <1>3, ComingAppend DEF s
  <2>3. Coming(stack', files[i], i, l) = Coming(s, files[i], i, l) + One(c, files[i], i, l)
    BY <1>5, <1>6, ComingAppend
  <2>4. One(a, files[i], i, l) = 0 /\ One(Top, files[i], i, l) = 0 BY <1>1, <1>3 DEF One, Waits
  <2>5. One(c, files[i], i, l) \in {0, 1} BY OneType
  <2> QED BY <1>16, <2>1, <2>2, <2>3, <2>4, <2>5 DEF c
<1> QED BY <1>4, <1>13, <1>14, <1>15, <1>16, <1>17, StackLedger

LEMMA SameLedger ==
  ASSUME Ledger, UNCHANGED <<files, stack, read, last, owed, whole>> PROVE Ledger'
<1>1. UNCHANGED files /\ UNCHANGED stack /\ UNCHANGED read /\ UNCHANGED last /\ UNCHANGED owed /\ UNCHANGED whole
  OBVIOUS
<1>2. Conforms' /\ Strangers' /\ Closing' BY <1>1 DEF Ledger, Conforms, Strangers, Closing
<1>3. \A i \in 1 .. Len(files') : Fair(i)' BY <1>1 DEF Ledger, Fair
<1>4. Saving' BY <1>1 DEF Ledger, Saving, Top, Lost, Flushed, Dying
<1> QED BY <1>2, <1>3, <1>4 DEF Ledger

LEMMA TickLedger == IInv /\ Ledger /\ Tick => Ledger'
<1> SUFFICES ASSUME IInv, Ledger, Tick PROVE Ledger' OBVIOUS
<1>1. stack = <<>> /\ UNCHANGED <<stack, read, last, owed, whole>> BY DEF Tick, Idle, history
<1> DEFINE a(i) == IF files[i].age < MaxAge THEN files[i].age + 1 ELSE files[i].age
           e(i) == [files[i] EXCEPT !.age = a(i)]
           n == Len(files)
<1>2. files' = [i \in 1 .. n |-> e(i)] /\ n \in Nat BY Known DEF Tick
<1>3. ASSUME NEW i \in 1 .. n
      PROVE  /\ e(i).dest = files[i].dest /\ e(i).mask = files[i].mask /\ e(i).type = files[i].type
             /\ e(i).prev = files[i].prev /\ e(i).host = files[i].host /\ e(i).count = files[i].count
  <2> DEFINE g == files[i]
             x == a(i)
  <2>1. g \in Entry BY Known
  <2> HIDE DEF x, g
  <2>2. LET h == [g EXCEPT !.age = x]
        IN  /\ h.dest = g.dest /\ h.mask = g.mask /\ h.type = g.type
            /\ h.prev = g.prev /\ h.host = g.host /\ h.count = g.count
    BY <2>1, EntryIs
  <2> QED BY <2>2 DEF g, x
<1> HIDE DEF e, n
<1>4. Len(files') = n BY <1>2
<1>5. \A i \in 1 .. n : files'[i] = e(i) BY <1>2
<1>6. Conforms' BY <1>1, <1>3, <1>4, <1>5 DEF Ledger, Conforms, n
<1>7. Strangers' BY <1>1, <1>3, <1>4, <1>5 DEF Ledger, Strangers, n
<1>8. Saving' /\ Closing' BY <1>1 DEF Saving, Closing
<1>9. ASSUME NEW i \in 1 .. n PROVE Fair(i)'
  <2>1. Fair(i) BY DEF Ledger, n
  <2>2. \A l : Coming(stack', files'[i], i, l) = Coming(stack, files[i], i, l) BY <1>1, ComingEmpty
  <2>3. LineOf(files'[i]) = LineOf(files[i]) /\ \A l : Kept(files'[i], l) = Kept(files[i], l)
    BY <1>3, <1>5 DEF LineOf, Kept
  <2> QED BY <1>1, <1>3, <1>5, <2>1, <2>2, <2>3 DEF Fair
<1> QED BY <1>4, <1>6, <1>7, <1>8, <1>9 DEF Ledger

\* The destinations in w after the file fs is opened, when v was whole before.
Sound(w, v, fs) == w = (v \ DestsOf(fs, {"UNKN", "UNUSED"})) \cup DestsOf(fs, Locals \cup {"FORW"})
\* Nothing is owed but marks.
Clear(o) == \A d \in Dests, l \in Shows : o[d][l] = 0
\* The entries fs of the file c are new, and p owes them nothing yet.
Begins(fs, c, w, p) ==
    /\ FromFile(fs, c)
    /\ \A d \in Dests : d \notin w => p[d] = Nothing
    /\ \A d \in Dests, l \in Shows : p[d][l] = 0
    /\ \A i \in 1 .. Len(fs) : fs[i].dest \in w =>
         fs[i].type = c[i].type /\ fs[i].prev = Empty /\ fs[i].count = 0

LEMMA BlankIs ==
  ASSUME NEW line, NEW mask, NEW type
  PROVE  LET e == Blank(line, mask, type)
         IN  /\ e.dest = line.dest /\ e.mask = mask /\ e.type = type /\ e.prev = Empty
             /\ type # "UNKN" => e.count = 0
  BY DEF Blank

\* The entries made of a file start with nothing shown and nothing counted.
LEMMA OpenedBooks ==
  ASSUME Separate, NEW c \in Confs, NEW t \in Outcomes(c),
         NEW w \in SUBSET Dests, NEW v, Sound(w, v, Opened(c, t)), NEW o, Clear(o)
  PROVE  Begins(Opened(c, t), c, w, [d \in Dests |-> IF d \in w THEN o[d] ELSE Nothing])
<1> DEFINE fs == Opened(c, t)
           p == [d \in Dests |-> IF d \in w THEN o[d] ELSE Nothing]
<1>0. w = (v \ DestsOf(fs, {"UNKN", "UNUSED"})) \cup DestsOf(fs, Locals \cup {"FORW"})
      /\ \A d \in Dests, l \in Shows : o[d][l] = 0
  BY DEF Sound, Clear
<1>1. c \in Seq(ConfLine) /\ Len(c) \in Nat BY ConfAssumption
<1>2. fs \in Seq(Entry) BY OpenedFacts
<1>3. fs = [i \in 1 .. Len(c) |-> Blank(c[i], Cflines(c)[i], t[i])] BY DEF Opened
<1> HIDE DEF fs
<1>4. Len(fs) = Len(c) /\ \A i \in 1 .. Len(c) : fs[i] = Blank(c[i], Cflines(c)[i], t[i]) BY <1>1, <1>3
<1>5. ASSUME NEW i \in 1 .. Len(c)
      PROVE  /\ fs[i].dest = c[i].dest /\ fs[i].mask = Cflines(c)[i] /\ fs[i].type = t[i] /\ fs[i].prev = Empty
             /\ t[i] # "UNKN" => fs[i].count = 0
  <2>1. fs[i] = Blank(c[i], Cflines(c)[i], t[i]) BY <1>4
  <2> QED BY <2>1, BlankIs
<1>6. FromFile(fs, c) BY <1>2, <1>4, <1>5 DEF FromFile
<1>7. ASSUME NEW d \in Dests, NEW l \in Shows PROVE p[d][l] = 0
  <2>1. l \in Lines BY DEF Shows
  <2>2. Nothing[l] = 0 BY <2>1 DEF Nothing
  <2>3. o[d][l] = 0 BY <1>0
  <2> QED BY <2>2, <2>3
<1>8. ASSUME NEW i \in 1 .. Len(fs), fs[i].dest \in w
      PROVE  fs[i].type = c[i].type /\ fs[i].prev = Empty /\ fs[i].count = 0
  <2>1. i \in 1 .. Len(c) BY <1>4
  <2>2. t[i] \in {c[i].type, "UNUSED"} \cup (IF c[i].type = "FORW" THEN {"UNKN"} ELSE {}) BY <2>1 DEF Outcomes
  <2>3. fs[i].type \notin {"UNKN", "UNUSED"}
    <3>1. CASE fs[i].dest \notin DestsOf(fs, {"UNKN", "UNUSED"}) BY <3>1 DEF DestsOf
    <3>2. CASE fs[i].dest \in DestsOf(fs, Locals \cup {"FORW"})
      <4>1. PICK j \in 1 .. Len(fs) : fs[j].type \in Locals \cup {"FORW"} /\ fs[j].dest = fs[i].dest
        BY <3>2 DEF DestsOf
      <4>2. j = i BY <1>4, <1>5, <2>1, <4>1 DEF Separate
      <4> QED BY <4>1, <4>2 DEF Locals
    <3> QED BY <1>0, <1>8, <3>1, <3>2
  <2> QED BY <1>5, <2>1, <2>2, <2>3
<1>9. \A d \in Dests : d \notin w => p[d] = Nothing OBVIOUS
<1> HIDE DEF p
<1>10. Begins(fs, c, w, p) BY <1>6, <1>7, <1>8, <1>9 DEF Begins
<1> QED BY <1>10 DEF fs, p

\* What init() leaves to the file it reads.
LEMMA ClosedBooks ==
  ASSUME IInv, Ledger, stack # <<>>, Top.op = "close", AtEnd
  PROVE  Len(stack) = 1 /\ Below = <<>> /\ Clear(owed)
<1>1. stack \in Seq(Frame) /\ Len(files) \in Nat BY Known
<1> DEFINE n == Len(stack)
<1>2. /\ Below \in Seq(Frame) /\ Top \in Frame /\ stack = Append(Below, Top)
      /\ n \in Nat \ {0} /\ Len(Below) = n - 1 /\ Top = stack[n]
  BY <1>1, StackParts
<1>3. n \in 1 .. n BY <1>2
<1>4. n = 1 /\ \A i \in 1 .. Len(files) : i < Top.at /\ files[i].dest \in whole => files[i].count = 0
  BY <1>2, <1>3 DEF Ledger, Closing
<1>5. Below = <<>> BY <1>2, <1>4
<1>6. ASSUME NEW d \in Dests, NEW l \in Shows PROVE owed[d][l] = 0
  <2>0. l \in Lines BY DEF Shows
  <2>1. CASE d \notin whole BY <2>0, <2>1 DEF Ledger, Strangers, Nothing
  <2>2. CASE d \in whole /\ \A i \in 1 .. Len(files) : files[i].dest # d BY <2>2 DEF Ledger, Strangers
  <2>3. CASE d \in whole /\ \E i \in 1 .. Len(files) : files[i].dest = d
    <3>1. PICK i \in 1 .. Len(files) : files[i].dest = d BY <2>3
    <3>2. owed[d][l] = Kept(files[i], l) + Coming(stack, files[i], i, l) BY <2>3, <3>1 DEF Ledger, Fair
    <3>3. Top.at \in Nat BY <1>2 DEF Frame
    <3>4. files[i].count = 0 BY <1>1, <1>4, <2>3, <3>1, <3>3 DEF AtEnd
    <3>5. Kept(files[i], l) = 0 BY <3>4 DEF Kept
    <3>6. Coming(Below, files[i], i, l) = 0 BY <1>5, ComingEmpty
    <3>7. Coming(stack, files[i], i, l) = Coming(Below, files[i], i, l) + One(Top, files[i], i, l)
      BY <1>2, ComingAppend
    <3>8. One(Top, files[i], i, l) = 0 BY DEF One, Waits
    <3> QED BY <3>2, <3>5, <3>6, <3>7, <3>8
  <2> QED BY <2>1, <2>2, <2>3
<1> QED BY <1>4, <1>5, <1>6 DEF Clear

\* After init() nobody is busy with a line.
Begun ==
    /\ Begins(files, read, whole, owed) /\ stack \in Seq(Frame)
    /\ \A k \in 1 .. Len(stack) : stack[k].op \in {"reload", "next"} /\ stack[k].phase = "test"

LEMMA BegunLedger == Begun => Ledger
<1> SUFFICES ASSUME Begun PROVE Ledger OBVIOUS
<1> USE DEF Begun
<1>1. Conforms BY DEF Begins, Conforms, FromFile
<1>2. Strangers BY DEF Begins, Strangers
<1>3. stack # <<>> => Top = stack[Len(stack)] /\ Len(stack) \in 1 .. Len(stack) BY DEF Top
<1>4. Saving BY <1>3 DEF Saving, Flushed, Lost
<1>5. Closing BY DEF Closing
<1>6. ASSUME NEW i \in 1 .. Len(files) PROVE Fair(i)
  <2>1. ASSUME files[i].dest \in whole, NEW l \in Shows
        PROVE  owed[files[i].dest][l] = Kept(files[i], l) + Coming(stack, files[i], i, l)
    <3>1. files[i].dest \in Dests BY EntryFields DEF Begins, FromFile
    <3>2. owed[files[i].dest][l] = 0 BY <3>1 DEF Begins
    <3>3. Kept(files[i], l) = 0 BY <2>1 DEF Begins, Kept
    <3>4. Coming(stack, files[i], i, l) = 0 BY ComingQuiet
    <3> QED BY <3>2, <3>3, <3>4
  <2> QED BY <2>1 DEF Begins, Fair
<1> QED BY <1>1, <1>2, <1>4, <1>5, <1>6 DEF Ledger

LEMMA ReadConfLedger == ASSUME Separate PROVE IInv /\ Ledger /\ ReadConf => Ledger'
<1> SUFFICES ASSUME IInv, Ledger, ReadConf PROVE Ledger' OBVIOUS
<1> DEFINE a == Call("reload", Restarted)
           b == Call("next", Restarted)
           s == Append(Below, a)
<1>1. stack # <<>> /\ Top.op = "close" /\ AtEnd BY DEF ReadConf, Running
<1>2. Below = <<>> /\ Clear(owed) BY <1>1, ClosedBooks
<1>3. Below \in Seq(Frame) BY <1>1, Known, FramesTop
<1>4. a \in Frame /\ a.op = "reload" /\ b.op = "next" /\ a.phase = "test" /\ b.phase = "test"
  BY CallFrame, OwnCalls DEF Ops, Call
<1>5. conf \in Confs /\ read' = conf /\ stack' = s \o Announce(conf) BY DEF ReadConf, IInv, TInv, TypeOK
<1>6. PICK t \in Outcomes(conf) : files' = Opened(conf, t) BY DEF ReadConf
<1>7. /\ whole' = (whole \ DestsOf(files', {"UNKN", "UNUSED"})) \cup DestsOf(files', Locals \cup {"FORW"})
      /\ owed' = [d \in Dests |-> IF d \in whole' THEN owed[d] ELSE Nothing]
  BY DEF ReadConf
<1> DEFINE fs == Opened(conf, t)
<1>8. PICK w : w = whole' OBVIOUS
<1>9. Sound(w, whole, fs) BY <1>6, <1>7, <1>8 DEF Sound
<1>10. w \in SUBSET Dests
  <2>1. \A T : DestsOf(fs, T) \subseteq Dests BY <1>5, OpenedFacts
  <2>2. whole \in SUBSET Dests BY Known
  <2> HIDE DEF fs
  <2> QED BY <1>9, <2>1, <2>2 DEF Sound
<1>11. Begins(fs, conf, w, [d \in Dests |-> IF d \in w THEN owed[d] ELSE Nothing])
  BY <1>2, <1>5, <1>9, <1>10, OpenedBooks
<1>12. Begins(files', read', whole', owed')
  <2>1. owed' = [d \in Dests |-> IF d \in w THEN owed[d] ELSE Nothing] BY <1>7, <1>8
  <2> QED BY <1>5, <1>6, <1>8, <1>11, <2>1
<1>13. stack' \in Seq(Frame) /\ Frames(stack') \subseteq {a, b}
  <2>1. s \in Seq(Frame) /\ Frames(s) = Frames(Below) \cup {a} BY <1>3, <1>4, FramesAppend
  <2>2. Frames(Below) = {} BY <1>2, FramesEmpty
  <2> HIDE DEF s, a
  <2>3. s \o Announce(conf) \in Seq(Frame) /\ Frames(s \o Announce(conf)) \subseteq Frames(s) \cup {b}
    BY <2>1, Announced
  <2> QED BY <1>5, <2>1, <2>2, <2>3
<1>14. \A k \in 1 .. Len(stack') : stack'[k].op \in {"reload", "next"} /\ stack'[k].phase = "test"
  <2> HIDE DEF a, b
  <2>1. \A k \in 1 .. Len(stack') : stack'[k] \in {a, b} BY <1>13 DEF Frames
  <2>2. \A r : r \in {a, b} => r.op \in {"reload", "next"} /\ r.phase = "test" BY <1>4
  <2> QED BY <2>1, <2>2
<1>15. Begun' BY <1>12, <1>13, <1>14 DEF Begun
<1> QED BY <1>15, BegunLedger, PTL

LEMMA InitLedger == ASSUME Separate PROVE Init => Ledger
<1> SUFFICES ASSUME Init PROVE Ledger OBVIOUS
<1> DEFINE b == Call("next", Restarted)
           v == {}
           o == [d \in Dests |-> Nothing]
<1>1. /\ conf \in Confs /\ read = conf /\ stack = Announce(conf)
      /\ whole = DestsOf(files, Locals \cup {"FORW"}) /\ owed = [d \in Dests |-> Nothing]
  BY DEF Init
<1>2. PICK t \in Outcomes(conf) : files = Opened(conf, t) BY DEF Init
<1>3. whole \in SUBSET Dests BY <1>1, <1>2, OpenedFacts
<1>4. Sound(whole, v, files) BY <1>1 DEF Sound
<1>5. Clear(o) /\ owed = [d \in Dests |-> IF d \in whole THEN o[d] ELSE Nothing]
  <2>1. \A l \in Shows : Nothing[l] = 0 BY DEF Nothing, Shows
  <2> QED BY <1>1, <2>1 DEF Clear
<1> HIDE DEF v, o
<1>6. Begins(files, read, whole, owed)
  <2>1. Sound(whole, v, Opened(conf, t)) BY <1>2, <1>4
  <2>2. Begins(Opened(conf, t), conf, whole, [d \in Dests |-> IF d \in whole THEN o[d] ELSE Nothing])
    BY <1>1, <1>3, <1>5, <2>1, OpenedBooks
  <2> QED BY <1>1, <1>2, <1>5, <2>2
<1>7. b.op = "next" /\ b.phase = "test" BY DEF Call
<1>8. stack \in Seq(Frame) /\ Frames(stack) \subseteq {b}
  <2>1. <<>> \in Seq(Frame) /\ Frames(<<>>) = {} BY FramesEmpty
  <2>2. <<>> \o Announce(conf) \in Seq(Frame) /\ Frames(<<>> \o Announce(conf)) \subseteq {b}
    BY <2>1, Announced
  <2>3. <<>> \o Announce(conf) = Announce(conf)
    <3>1. b \in Frame BY CallFrame, OwnCalls DEF Ops
    <3>2. Announce(conf) \in Seq(Frame) BY <3>1 DEF Announce
    <3> QED BY <3>2
  <2> QED BY <1>1, <2>2, <2>3
<1>9. \A k \in 1 .. Len(stack) : stack[k] = b BY <1>8 DEF Frames
<1>10. Begun
  <2> HIDE DEF b
  <2> QED BY <1>6, <1>7, <1>8, <1>9 DEF Begun
<1> QED BY <1>10, BegunLedger

\* The count, and its parts that take errors, reloads and the exit into account.
LEMMA LedgerKept == ASSUME Separate PROVE Spec => [](IInv /\ Ledger)
<1>1. Init => Ledger BY InitLedger
<1>2. IInv /\ Ledger /\ [Next]_vars => Ledger'
  <2> SUFFICES ASSUME IInv, Ledger, [Next]_vars PROVE Ledger' OBVIOUS
  <2>1. CASE UNCHANGED vars BY <2>1, SameLedger DEF vars, sysvars, history
  <2>2. CASE \E m \in Msgs : Receive(m) BY <2>2, ReceiveLedger
  <2>3. CASE Logmsg
    BY <2>3, LogCallLedger, LogSkipLedger, LogRepeatLedger, BackoffLedger, LogFlushLedger, LogSaveLedger, ReturnLedger DEF Logmsg
  <2>4. CASE Restart BY <2>4, RestartLedger
  <2>5. CASE Reload BY <2>5, DieFlushLedger, ReadConfLedger, ReturnLedger DEF Reload, CloseFlush
  <2>6. CASE Hangup BY <2>6, SameLedger DEF Hangup, HangupIf
  <2>7. CASE Tick BY <2>7, TickLedger
  <2>8. CASE Domark BY <2>8, DomarkLedger
  <2>9. CASE Handlers
    <3>1. CASE Exit BY <3>1, SameLedger DEF Exit, history
    <3> QED BY <2>9, <3>1, DueFlushLedger, BackoffLedger, ReturnLedger, DieFlushLedger, DieLogLedger
        DEF Handlers, DieFlush
  <2>10. CASE Term BY <2>10, TermLedger
  <2>11. CASE TermInWrite BY <2>11, TermInWriteLedger
  <2> QED BY <2>1, <2>2, <2>3, <2>4, <2>5, <2>6, <2>7, <2>8, <2>9, <2>10, <2>11 DEF Next
<1> QED BY <1>1, <1>2, Invariance, PTL DEF Spec

\* logmsg(), fprintlog() and the rest: nothing is lost, invented or shown more
\* often than logmsg() was called, which with -S is twice for a message that is
\* not of the kernel.  To a destination without an error is owed what logmsg() is
\* still to bring and the repeats f_prevcount stands for, for any number of lines
\* of the file, messages, repeats, reloads and failing calls, any nesting of
\* logmsg() in itself, and SIGTERM in the middle of it, if each destination has
\* one line and no text is empty.
THEOREM LogFaithfulCorrect == ASSUME Separate PROVE Spec => []LogFaithful
<1>1. IInv /\ Ledger => LogFaithful
  <2> SUFFICES ASSUME IInv, Ledger, NEW d \in whole, NEW l \in Lines \ {Line(Mark)}
               PROVE  owed[d][l] = Repeats(d, l) + InFlight(d, l)
    BY DEF LogFaithful
  <2>1. d \in Dests /\ l \in Shows BY Known DEF Shows
  <2>2. stack \in Seq(Frame) /\ files \in Seq(Entry) BY Known
  <2>3. read \in Confs /\ FromFile(files, read) BY <2>2 DEF IInv, TInv, TypeOK, FromFile, Ledger, Conforms
  <2> DEFINE held == {i \in 1 .. Len(files) : files[i].dest = d /\ <<files[i].prev, files[i].host>> = l}
             flies == {k \in 1 .. Len(stack) :
               /\ stack[k].op = "log" /\ Line(stack[k].m) = l /\ ~stack[k].m.mark
               /\ \E i \in 1 .. Len(files) :
                    /\ files[i].dest = d /\ Reaches(read, files, i, stack[k].m)
                    /\ stack[k].at < i \/ (stack[k].at = i /\ stack[k].phase # "backoff")}
  <2>4. Repeats(d, l) = (IF held = {} THEN 0 ELSE files[CHOOSE i \in held : TRUE].count)
        /\ InFlight(d, l) = Cardinality(flies)
    BY DEF Repeats, InFlight
  <2>5. CASE \A i \in 1 .. Len(files) : files[i].dest # d
    <3>1. owed[d][l] = 0 BY <2>1, <2>5 DEF Ledger, Strangers
    <3>2. held = {} /\ flies = {} BY <2>5
    <3>3. Cardinality(flies) = 0 BY <3>2, FS_EmptySet
    <3>4. Repeats(d, l) = 0 BY <2>4, <3>2
    <3>5. InFlight(d, l) = 0 BY <2>4, <3>3
    <3> QED BY <3>1, <3>4, <3>5
  <2>6. CASE \E i \in 1 .. Len(files) : files[i].dest = d
    <3>1. PICK i \in 1 .. Len(files) : files[i].dest = d BY <2>6
    <3>2. \A j \in 1 .. Len(files) : files[j].dest = d => j = i BY <3>1, Distinct DEF Ledger
    <3>3. owed[d][l] = Kept(files[i], l) + Coming(stack, files[i], i, l) BY <2>1, <3>1 DEF Ledger, Fair
    <3>4. Kept(files[i], l) = Repeats(d, l)
      <4>1. CASE LineOf(files[i]) = l
        <5>1. held = {i} BY <3>1, <3>2, <4>1 DEF LineOf
        <5> QED BY <2>4, <4>1, <5>1 DEF Kept
      <4>2. CASE LineOf(files[i]) # l
        <5>1. held = {} BY <3>2, <4>2 DEF LineOf
        <5> QED BY <2>4, <4>2, <5>1 DEF Kept
      <4> QED BY <4>1, <4>2
    <3>5. ASSUME NEW m \in Msgs \cup OwnMsgs PROVE Reaches(read, files, i, m) <=> Takes(files[i], m)
      <4>1. read \in Seq(ConfLine) /\ i \in 1 .. Len(read) /\ files[i].mask = Cflines(read)[i]
        BY <2>3, ConfAssumption DEF FromFile
      <4>2. m.pri \in Cflines(read)[i][m.fac] <=> Selects(read, i, m.fac, m.pri)
        BY <4>1, MessageFacts, MasksFollowRule
      <4> QED BY <4>1, <4>2 DEF Reaches, Takes
    <3>6. flies = Waiting(stack, files[i], i, l)
      <4>1. \A k \in 1 .. Len(stack) : stack[k].m \in Msgs \cup OwnMsgs
        <5>1. \A k \in 1 .. Len(stack) : stack[k] \in Frame BY <2>2
        <5>2. \A x \in Frame : x.m \in Msgs \cup OwnMsgs BY DEF Frame
        <5> QED BY <5>1, <5>2
      <4> QED BY <3>1, <3>2, <3>5, <4>1 DEF Waiting, Waits
    <3> QED BY <2>4, <3>3, <3>4, <3>6 DEF Coming
  <2> QED BY <2>5, <2>6
<1> QED BY <1>1, LedgerKept, PTL
=============================================================================
