----------------------------- MODULE Talk_proofs -----------------------------
(***************************************************************************)
(* Proofs about Talk, for any users, machines and processes: processes     *)
(* that talk are each other's party; and, as long as no daemon has used up *)
(* its numbers, a process that waits has its invitation with its daemon.   *)
(***************************************************************************)
EXTENDS Talk, SequenceTheorems, WellFoundedInduction, TLAPS

-----------------------------------------------------------------------------
(* Tables.                                                                 *)

Distinct(t) == \A i, j \in DOMAIN t : t[i].id = t[j].id => i = j
Below(t, n) == \A e \in Range(t) : e.id <= n

LEMMA InTable ==
  ASSUME NEW t \in Seq(Entry)
  PROVE  /\ \A i \in 1 .. Len(t) : t[i] \in Range(t) /\ t[i] \in Entry
         /\ \A e \in Range(t) : e \in Entry /\ \E i \in 1 .. Len(t) : t[i] = e
         /\ DOMAIN t = 1 .. Len(t) /\ Len(t) \in Nat
BY DEF Range

LEMMA IdInt ==
  ASSUME NEW t \in Seq(Entry), NEW e \in Range(t)
  PROVE  e \in Entry /\ e.id \in 1 .. MaxId - 1 /\ e.id \in Int /\ e.id # 0
<1>1. e \in Entry BY InTable
<1>2. e.id \in 1 .. MaxId - 1 BY <1>1 DEF Entry
<1> QED BY <1>1, <1>2, TalkAssumption

WithEntry(t, e) == <<e>> \o t
LEMMA Inserted ==
  ASSUME NEW t \in Seq(Entry), NEW e \in Entry
  PROVE  LET u == WithEntry(t, e) IN
         /\ u \in Seq(Entry) /\ Range(u) = Range(t) \cup {e}
         /\ Distinct(t) /\ (\A f \in Range(t) : f.id # e.id) => Distinct(u)
<1> DEFINE u == <<e>> \o t
<1>1. u \in Seq(Entry) /\ Len(u) = Len(t) + 1 OBVIOUS
<1>2. \A j \in 1 .. Len(u) : u[j] = IF j = 1 THEN e ELSE t[j - 1] OBVIOUS
<1>3. \A j \in 1 .. Len(t) : u[j + 1] = t[j] BY <1>1
<1>4. u[1] = e OBVIOUS
<1>5. Range(u) = Range(t) \cup {e}
  <2>1. ASSUME NEW f \in Range(u) PROVE f \in Range(t) \cup {e}
    <3>1. PICK j \in 1 .. Len(u) : u[j] = f BY <1>1, InTable
    <3>2. CASE j = 1 BY <3>1, <3>2, <1>4
    <3>3. CASE j # 1
      <4>1. j - 1 \in 1 .. Len(t) BY <3>3, <1>1
      <4>2. u[j] = t[j - 1] BY <3>3, <1>2
      <4> QED BY <3>1, <4>1, <4>2, InTable
    <3> QED BY <3>2, <3>3
  <2>2. e \in Range(u)
    <3>1. 1 \in 1 .. Len(u) BY <1>1
    <3> QED BY <1>1, <1>4, <3>1, InTable
  <2>3. ASSUME NEW f \in Range(t) PROVE f \in Range(u)
    <3>1. PICK j \in 1 .. Len(t) : t[j] = f BY InTable
    <3>2. j + 1 \in 1 .. Len(u) BY <1>1
    <3> QED BY <1>1, <1>3, <3>1, <3>2, InTable
  <2> QED BY <2>1, <2>2, <2>3
<1>6. ASSUME Distinct(t), \A f \in Range(t) : f.id # e.id,
             NEW i \in 1 .. Len(u), NEW j \in 1 .. Len(u), u[i].id = u[j].id
      PROVE  i = j
  <2>1. CASE i = 1 /\ j = 1 BY <2>1
  <2>2. CASE i # 1 /\ j # 1
    <3>1. i - 1 \in 1 .. Len(t) /\ j - 1 \in 1 .. Len(t) BY <2>2, <1>1
    <3>2. u[i] = t[i - 1] /\ u[j] = t[j - 1] BY <2>2, <1>2
    <3>3. i - 1 = j - 1 BY <1>6, <3>1, <3>2, InTable DEF Distinct
    <3> QED BY <3>3
  <2>3. CASE i = 1 /\ j # 1
    <3>1. j - 1 \in 1 .. Len(t) BY <2>3, <1>1
    <3>2. u[i] = e /\ u[j] = t[j - 1] BY <2>3, <1>2
    <3>3. t[j - 1] \in Range(t) BY <3>1, InTable
    <3> QED BY <1>6, <3>2, <3>3
  <2>4. CASE i # 1 /\ j = 1
    <3>1. i - 1 \in 1 .. Len(t) BY <2>4, <1>1
    <3>2. u[j] = e /\ u[i] = t[i - 1] BY <2>4, <1>2
    <3>3. t[i - 1] \in Range(t) BY <3>1, InTable
    <3> QED BY <1>6, <3>2, <3>3
  <2> QED BY <2>1, <2>2, <2>3, <2>4
<1>7. DOMAIN u = 1 .. Len(u) BY <1>1
<1>8. WithEntry(t, e) = u BY DEF WithEntry
<1> HIDE DEF u
<1> QED BY <1>1, <1>5, <1>6, <1>7, <1>8 DEF Distinct

WithNumber(t, i, n) == [t EXCEPT ![i].id = n]
LEMMA Renumbered ==
  ASSUME NEW t \in Seq(Entry), NEW i \in 1 .. Len(t), NEW n \in 1 .. MaxId - 1,
         NEW e, e = [type |-> t[i].type, by |-> t[i].by, id |-> n]
  PROVE  LET u == WithNumber(t, i, n) IN
         /\ u \in Seq(Entry) /\ e \in Entry /\ e \in Range(u)
         /\ Range(u) \subseteq Range(t) \cup {e} /\ Range(t) \subseteq Range(u) \cup {t[i]}
         /\ Distinct(t) /\ (\A f \in Range(t) : f.id # n) => Distinct(u)
<1> DEFINE u == [t EXCEPT ![i].id = n]
<1>1. t[i] \in Entry OBVIOUS
<1>2. e \in Entry BY <1>1 DEF Entry
<1>3. u[i] = [t[i] EXCEPT !.id = n] OBVIOUS
<1>4. u[i] = e BY <1>1, <1>3 DEF Entry
<1>5. \A j \in 1 .. Len(t) : j # i => u[j] = t[j] OBVIOUS
<1>6. Len(u) = Len(t) /\ DOMAIN u = 1 .. Len(t) OBVIOUS
<1>7. u = [t EXCEPT ![i] = [t[i] EXCEPT !.id = n]] BY Zenon
<1>8. u = [t EXCEPT ![i] = e] BY <1>3, <1>4, <1>7
<1>0. WithNumber(t, i, n) = u BY DEF WithNumber
<1> HIDE DEF u
<1>9. u \in Seq(Entry) BY <1>2, <1>8, ExceptSeq
<1>10. e \in Range(u) BY <1>4, <1>6, <1>9, InTable
<1>11. Range(u) \subseteq Range(t) \cup {e}
  <2> SUFFICES ASSUME NEW f \in Range(u) PROVE f \in Range(t) \cup {e} OBVIOUS
  <2>1. PICK j \in 1 .. Len(t) : u[j] = f BY <1>6, <1>9, InTable
  <2> QED BY <2>1, <1>4, <1>5, InTable
<1>12. Range(t) \subseteq Range(u) \cup {t[i]}
  <2> SUFFICES ASSUME NEW f \in Range(t) PROVE f \in Range(u) \cup {t[i]} OBVIOUS
  <2>1. PICK j \in 1 .. Len(t) : t[j] = f BY InTable
  <2>2. u[j] \in Range(u) BY <1>6, <1>9, InTable
  <2> QED BY <2>1, <2>2, <1>5
<1>13. ASSUME Distinct(t), \A f \in Range(t) : f.id # n,
              NEW j \in 1 .. Len(t), NEW k \in 1 .. Len(t), u[j].id = u[k].id
       PROVE  j = k
  <2>1. u[i].id = n BY <1>4
  <2>2. t[j].id # n /\ t[k].id # n BY <1>13, InTable
  <2>3. t[j].id = t[k].id => j = k BY <1>13 DEF Distinct
  <2> QED BY <2>1, <2>2, <2>3, <1>5, <1>13
<1> QED BY <1>0, <1>2, <1>6, <1>9, <1>10, <1>11, <1>12, <1>13 DEF Distinct

LEMMA Removed ==
  ASSUME NEW t \in Seq(Entry), NEW i \in 1 .. Len(t), NEW u, u = RemoveAt(t, i)
  PROVE  /\ u \in Seq(Entry)
         /\ Range(u) \subseteq Range(t) /\ Range(t) \subseteq Range(u) \cup {t[i]}
         /\ Distinct(t) => Distinct(u)
<1> DEFINE a == SubSeq(t, 1, i - 1)
           b == SubSeq(t, i + 1, Len(t))
<1>1. a \in Seq(Entry) /\ Len(a) = i - 1 /\ \A j \in 1 .. i - 1 : a[j] = t[j] OBVIOUS
<1>2. b \in Seq(Entry) /\ Len(b) = Len(t) - i /\ \A j \in 1 .. Len(t) - i : b[j] = t[j + i]
  OBVIOUS
<1>3. u = a \o b BY DEF RemoveAt
<1> HIDE DEF a, b
<1>4. u \in Seq(Entry) /\ Len(u) = Len(t) - 1
  <2>1. u \in Seq(Entry) /\ Len(u) = Len(a) + Len(b) BY <1>1, <1>2, <1>3, ConcatProperties
  <2> QED BY <2>1, <1>1, <1>2
<1>5. \A j \in 1 .. Len(u) : j < i => u[j] = t[j] BY <1>1, <1>2, <1>3
<1>6. \A j \in 1 .. Len(u) : j >= i => u[j] = t[j + 1]
  <2> SUFFICES ASSUME NEW j \in 1 .. Len(u), j >= i PROVE u[j] = t[j + 1] OBVIOUS
  <2>1. j - Len(a) \in 1 .. Len(b) /\ u[j] = b[j - Len(a)] BY <1>1, <1>2, <1>3, <1>4
  <2>2. b[j - Len(a)] = t[(j - Len(a)) + i] BY <2>1, <1>2
  <2>3. (j - Len(a)) + i = j + 1 BY <1>1
  <2> QED BY <2>1, <2>2, <2>3
<1>7. Range(u) \subseteq Range(t)
  <2> SUFFICES ASSUME NEW f \in Range(u) PROVE f \in Range(t) OBVIOUS
  <2>1. PICK j \in 1 .. Len(u) : u[j] = f BY <1>4, InTable
  <2>2. j \in 1 .. Len(t) /\ j + 1 \in 1 .. Len(t) BY <1>4
  <2>3. u[j] = t[j] \/ u[j] = t[j + 1] BY <1>5, <1>6
  <2> QED BY <2>1, <2>2, <2>3, InTable
<1>8. Range(t) \subseteq Range(u) \cup {t[i]}
  <2> SUFFICES ASSUME NEW f \in Range(t) PROVE f \in Range(u) \cup {t[i]} OBVIOUS
  <2>1. PICK j \in 1 .. Len(t) : t[j] = f BY InTable
  <2>2. CASE j < i
    <3>1. j \in 1 .. Len(u) BY <2>2, <1>4
    <3> QED BY <2>1, <2>2, <3>1, <1>4, <1>5, InTable
  <2>3. CASE j > i
    <3>1. j - 1 \in 1 .. Len(u) /\ j - 1 >= i /\ (j - 1) + 1 = j BY <2>3, <1>4
    <3>2. u[j - 1] = t[j] BY <3>1, <1>6
    <3> QED BY <2>1, <3>1, <3>2, <1>4, InTable
  <2> QED BY <2>1, <2>2, <2>3
<1>9. ASSUME Distinct(t), NEW j \in 1 .. Len(u), NEW k \in 1 .. Len(u), u[j].id = u[k].id
      PROVE  j = k
  <2> DEFINE At(x) == IF x < i THEN x ELSE x + 1
  <2>1. \A x \in 1 .. Len(u) : At(x) \in 1 .. Len(t) /\ u[x] = t[At(x)]
    <3> SUFFICES ASSUME NEW x \in 1 .. Len(u) PROVE At(x) \in 1 .. Len(t) /\ u[x] = t[At(x)]
      OBVIOUS
    <3>1. CASE x < i BY <3>1, <1>4, <1>5
    <3>2. CASE x >= i BY <3>2, <1>4, <1>6
    <3> QED BY <3>1, <3>2
  <2>2. At(j) = At(k)
    <3>1. t[At(j)].id = t[At(k)].id BY <2>1, <1>9
    <3> HIDE DEF At
    <3> QED BY <1>9, <2>1, <3>1, InTable DEF Distinct
  <2> QED BY <2>2
<1>10. DOMAIN u = 1 .. Len(u) BY <1>4
<1> QED BY <1>4, <1>7, <1>8, <1>9, <1>10 DEF Distinct
-----------------------------------------------------------------------------
(* What a daemon finds in its table.                                       *)

LEMMA LeastOf ==
  ASSUME NEW S \in SUBSET Nat, S # {}
  PROVE  Min(S) \in S
<1>1. PICK x \in S : \A y \in S : ~(<<y, x>> \in OpToRel(<, Nat))
  BY NatLessThanWellFounded, WFMin
<1>2. \A y \in S : ~(y < x) BY <1>1 DEF OpToRel
<1>3. x \in Nat /\ \A y \in S : y \in Nat BY <1>2
<1> HIDE <1>1
<1>4. \E z \in S : \A y \in S : z =< y BY <1>2, <1>3
<1> QED BY <1>4 DEF Min

LEMMA FindRequestFacts ==
  ASSUME NEW D, NEW q, D.table \in Seq(Entry)
  PROVE  /\ FindRequest(D, q) \in 0 .. Len(D.table)
         /\ FindRequest(D, q) # 0 => /\ D.table[FindRequest(D, q)].type = q.type
                                     /\ D.table[FindRequest(D, q)].by = q.from
<1> DEFINE I == {i \in 1 .. Len(D.table) : D.table[i].type = q.type /\ D.table[i].by = q.from}
<1>1. FindRequest(D, q) = IF I # {} THEN Min(I) ELSE 0 BY DEF FindRequest, SelectInSeq
<1>2. I \in SUBSET Nat /\ Len(D.table) \in Nat OBVIOUS
<1>3. I # {} => Min(I) \in I
  <2> HIDE DEF I
  <2> QED BY <1>2, LeastOf
<1> QED BY <1>1, <1>2, <1>3

LEMMA FindMatchFacts ==
  ASSUME NEW D, NEW q, D.table \in Seq(Entry)
  PROVE  /\ FindMatch(D, q) \in 0 .. Len(D.table)
         /\ FindMatch(D, q) # 0 => /\ D.table[FindMatch(D, q)].type = "LEAVE_INVITE"
                                   /\ Peer[D.table[FindMatch(D, q)].by] = Me[q.from]
                                   /\ Me[D.table[FindMatch(D, q)].by] = Peer[q.from]
<1> DEFINE I == {i \in 1 .. Len(D.table) : /\ D.table[i].type = "LEAVE_INVITE"
                                           /\ Peer[D.table[i].by] = Me[q.from]
                                           /\ Me[D.table[i].by] = Peer[q.from]}
<1>1. FindMatch(D, q) = IF I # {} THEN Min(I) ELSE 0 BY DEF FindMatch, SelectInSeq
<1>2. I \in SUBSET Nat /\ Len(D.table) \in Nat OBVIOUS
<1>3. I # {} => Min(I) \in I
  <2> HIDE DEF I
  <2> QED BY <1>2, LeastOf
<1>4. CASE I # {}
  <2>1. PICK k \in I : FindMatch(D, q) = k BY <1>1, <1>3, <1>4
  <2> QED BY <2>1
<1>5. CASE I = {}
  <2>1. FindMatch(D, q) = 0 BY <1>1, <1>5
  <2>2. 0 \in 0 .. Len(D.table) BY <1>2
  <2> QED BY <2>1, <2>2
<1> QED BY <1>4, <1>5

FindId(D, q) == SelectInSeq(D.table, LAMBDA e : e.id = q.id)
LEMMA FindIdFacts ==
  ASSUME NEW D, NEW q, D.table \in Seq(Entry)
  PROVE  /\ FindId(D, q) \in 0 .. Len(D.table)
         /\ FindId(D, q) # 0 => D.table[FindId(D, q)].id = q.id
<1> DEFINE I == {i \in 1 .. Len(D.table) : D.table[i].id = q.id}
<1>1. FindId(D, q) = IF I # {} THEN Min(I) ELSE 0 BY DEF FindId, SelectInSeq
<1>2. I \in SUBSET Nat /\ Len(D.table) \in Nat OBVIOUS
<1>3. I # {} => Min(I) \in I
  <2> HIDE DEF I
  <2> QED BY <1>2, LeastOf
<1> QED BY <1>1, <1>2, <1>3

LEMMA NewIdFacts ==
  ASSUME NEW D, D.id \in 0 .. MaxId - 1
  PROVE  /\ NewId(D) \in 1 .. MaxId - 1 /\ NewId(D) \in Nat
         /\ D.id < MaxId - 1 => NewId(D) = D.id + 1
<1> DEFINE n == D.id
<1>1. MaxId \in Nat /\ MaxId > 1 BY TalkAssumption
<1>2. (n + 1) % MaxId = IF n + 1 = MaxId THEN 0 ELSE n + 1 BY <1>1
<1> QED BY <1>1, <1>2 DEF NewId

-----------------------------------------------------------------------------
(* What a request q makes of a table t with current_id n: u and m, and r is *)
(* the response.                                                           *)

Sound(q, u, m, r) ==
    /\ u \in Seq(Entry) /\ m \in 0 .. MaxId - 1
    /\ r \in Response /\ r.to = q.from /\ r.type = q.type /\ r.id < MaxId
    /\ q.type = "LOOK_UP" /\ r.success =>
         r.addr \in Clients /\ Me[r.addr] = Peer[q.from] /\ Peer[r.addr] = Me[q.from]
Entered(t, type, by, id) == \E e \in Range(t) : e.type = type /\ e.by = by /\ e.id = id
Orderly(t, n, q, u, m, r) ==
    /\ n <= m /\ Below(u, m) /\ Distinct(u)
    /\ \A e \in Range(u) : e \in Range(t) \/ (e.id > n /\ e.type = q.type /\ e.by = q.from)
    /\ \A e \in Range(t) : e.type = "LEAVE_INVITE" =>
         e \in Range(u) \/ (q.type = "DELETE" /\ e.id = q.id)
    /\ q.type = "ANNOUNCE" => r.id = 0 \/ Entered(u, "ANNOUNCE", q.from, r.id)
    /\ q.type = "LEAVE_INVITE" => Entered(u, "LEAVE_INVITE", q.from, r.id)
    /\ q.type = "LOOK_UP" /\ r.success => Entered(u, "LEAVE_INVITE", r.addr, r.id)

\* Before the numbers run out.
Early(t, n) == n < MaxId - 1 /\ Below(t, n) /\ Distinct(t)
Outcome(D, q, x) ==
    /\ Sound(q, x.D.table, x.D.id, x.r)
    /\ Early(D.table, D.id) => Orderly(D.table, D.id, q, x.D.table, x.D.id, x.r)

LEMMA AnswerFacts ==
  ASSUME NEW D, NEW q \in Request, NEW ok \in BOOLEAN, NEW id \in Ids,
         NEW addr \in Clients \cup {None}, NEW x, x = Answer(D, q, ok, id, addr)
  PROVE  /\ x.D = D /\ x.r \in Response
         /\ x.r.to = q.from /\ x.r.type = q.type /\ x.r.success = ok
         /\ x.r.id = id /\ x.r.addr = addr
<1>1. q.from \in Clients /\ q.type \in Types BY DEF Request
<1>2. x.D = D /\ x.r = [to |-> q.from, type |-> q.type, success |-> ok, id |-> id, addr |-> addr]
  BY DEF Answer
<1> QED BY <1>1, <1>2 DEF Response

LEMMA IdRanges ==
  /\ 0 \in Ids /\ 0 < MaxId /\ \A i \in 1 .. MaxId - 1 : i \in Ids /\ i \in Nat /\ i < MaxId /\ i # 0
  /\ MaxId \in Ids /\ MaxId \in Nat
BY TalkAssumption DEF Ids

\* Nothing is entered.
LEMMA Untouched ==
  ASSUME NEW D, NEW q \in Request, NEW x, D.table \in Seq(Entry), D.id \in 0 .. MaxId - 1,
         NEW ok \in BOOLEAN, NEW id \in Ids, id < MaxId, NEW addr \in Clients \cup {None},
         x = Answer(D, q, ok, id, addr),
         q.type = "LOOK_UP" /\ ok =>
           addr \in Clients /\ Me[addr] = Peer[q.from] /\ Peer[addr] = Me[q.from],
         q.type = "ANNOUNCE" => id = 0 \/ Entered(D.table, "ANNOUNCE", q.from, id),
         q.type = "LEAVE_INVITE" => Entered(D.table, "LEAVE_INVITE", q.from, id),
         q.type = "LOOK_UP" /\ ok => Entered(D.table, "LEAVE_INVITE", addr, id)
  PROVE  Outcome(D, q, x)
<1>1. /\ x.D = D /\ x.r \in Response
      /\ x.r.to = q.from /\ x.r.type = q.type /\ x.r.success = ok
      /\ x.r.id = id /\ x.r.addr = addr
  BY AnswerFacts
<1>2. Sound(q, x.D.table, x.D.id, x.r) BY <1>1 DEF Sound
<1>3. D.id <= D.id BY TalkAssumption
<1>4. Early(D.table, D.id) => Orderly(D.table, D.id, q, x.D.table, x.D.id, x.r)
  BY <1>1, <1>3 DEF Early, Orderly
<1> QED BY <1>2, <1>4 DEF Outcome
\* An entry is made.
LEMMA InsertF ==
  ASSUME NEW D, NEW q \in Request, NEW x, D.table \in Seq(Entry), D.id \in 0 .. MaxId - 1,
         q.type \in {"ANNOUNCE", "LEAVE_INVITE"}, NEW ok \in BOOLEAN,
         x = Answer(Insert(D, q), q, ok, NewId(D), None)
  PROVE  Outcome(D, q, x)
<1> DEFINE k == NewId(D)
           e == [type |-> q.type, by |-> q.from, id |-> k]
           u == WithEntry(D.table, e)
<1>1. k \in 1 .. MaxId - 1 /\ k \in Nat /\ (D.id < MaxId - 1 => k = D.id + 1) BY NewIdFacts
<1>2. k \in Ids /\ k < MaxId BY <1>1, IdRanges
<1>3. Insert(D, q) = [table |-> u, id |-> k] BY Zenon DEF Insert, WithEntry
<1> HIDE DEF k
<1>4. e \in Entry BY <1>1 DEF Entry, Request
<1>5. e.type = q.type /\ e.by = q.from /\ e.id = k OBVIOUS
<1> HIDE DEF e
<1>6. /\ u \in Seq(Entry) /\ Range(u) = Range(D.table) \cup {e}
      /\ Distinct(D.table) /\ (\A f \in Range(D.table) : f.id # e.id) => Distinct(u)
  BY <1>4, Inserted
<1> HIDE DEF u
<1>7. /\ x.D = Insert(D, q) /\ x.r \in Response
      /\ x.r.to = q.from /\ x.r.type = q.type /\ x.r.success = ok
      /\ x.r.id = k /\ x.r.addr = None
  BY <1>2, AnswerFacts DEF k
<1>8. x.D.table = u /\ x.D.id = k BY <1>3, <1>7
<1>9. k \in 0 .. MaxId - 1 BY <1>1, TalkAssumption
<1>10. Sound(q, u, k, x.r) BY <1>2, <1>6, <1>7, <1>9 DEF Sound
<1>11. ASSUME Early(D.table, D.id) PROVE Orderly(D.table, D.id, q, u, k, x.r)
  <2>1. D.id \in Int /\ k = D.id + 1 BY <1>1, <1>11, TalkAssumption DEF Early
  <2>2. \A f \in Range(D.table) : f.id <= D.id /\ f.id \in Int
    BY <1>11, IdInt DEF Early, Below
  <2>3. \A f \in Range(D.table) : f.id # e.id /\ f.id <= k BY <1>5, <2>1, <2>2
  <2>4. Distinct(u) BY <1>6, <1>11, <2>3 DEF Early
  <2>5. e.id <= k BY <1>5, <2>1
  <2>6. Below(u, k) BY <1>6, <2>3, <2>5 DEF Below
  <2>7. D.id <= k /\ k > D.id BY <2>1
  <2>8. Entered(u, q.type, q.from, k) BY <1>5, <1>6 DEF Entered
  <2>9. \A f \in Range(u) : f \in Range(D.table) \/ (f.id > D.id /\ f.type = q.type /\ f.by = q.from)
    BY <1>5, <1>6, <2>7
  <2> QED BY <1>6, <1>7, <2>4, <2>6, <2>7, <2>8, <2>9 DEF Orderly
<1> QED BY <1>8, <1>10, <1>11 DEF Outcome

\* An entry gets a new number.
LEMMA RenumberF ==
  ASSUME NEW t \in Seq(Entry), NEW n \in 0 .. MaxId - 1, NEW D, D = [table |-> t, id |-> n],
         NEW q \in Request, q.type = "ANNOUNCE", NEW i \in 1 .. Len(t),
         t[i].type = q.type, t[i].by = q.from, NEW ok \in BOOLEAN, NEW x,
         x = Answer([D EXCEPT !.table[i].id = NewId(D), !.id = NewId(D)], q, ok, NewId(D), None)
  PROVE  Outcome(D, q, x)
<1> DEFINE k == NewId(D)
           E == [D EXCEPT !.table[i].id = k, !.id = k]
           u == WithNumber(t, i, k)
           e == [type |-> t[i].type, by |-> t[i].by, id |-> k]
<1>1. D.table = t /\ D.id = n OBVIOUS
<1>2. k \in 1 .. MaxId - 1 /\ k \in Nat /\ (n < MaxId - 1 => k = n + 1) BY <1>1, NewIdFacts
<1>3. k \in Ids /\ k < MaxId BY <1>2, IdRanges
<1>4. E.table = u /\ E.id = k BY <1>1, Zenon DEF WithNumber
<1>5. x = Answer(E, q, ok, k, None) OBVIOUS
<1> HIDE DEF k, E
<1>6. e.type = q.type /\ e.by = q.from /\ e.id = k OBVIOUS
<1>0. e = [type |-> t[i].type, by |-> t[i].by, id |-> k] OBVIOUS
<1> HIDE DEF e
<1>7. /\ u \in Seq(Entry) /\ e \in Entry /\ e \in Range(u)
      /\ Range(u) \subseteq Range(t) \cup {e} /\ Range(t) \subseteq Range(u) \cup {t[i]}
      /\ Distinct(t) /\ (\A f \in Range(t) : f.id # k) => Distinct(u)
  BY <1>0, <1>2, Renumbered
<1> HIDE DEF u
<1>8. /\ x.D = E /\ x.r \in Response
      /\ x.r.to = q.from /\ x.r.type = q.type /\ x.r.success = ok
      /\ x.r.id = k /\ x.r.addr = None
  BY <1>3, <1>5, AnswerFacts
<1>9. k \in 0 .. MaxId - 1 BY <1>2, TalkAssumption
<1>10. Sound(q, u, k, x.r) BY <1>3, <1>7, <1>8, <1>9 DEF Sound
<1>11. ASSUME Early(t, n) PROVE Orderly(t, n, q, u, k, x.r)
  <2>1. n \in Int /\ k = n + 1 BY <1>2, <1>11, TalkAssumption DEF Early
  <2>2. \A f \in Range(t) : f.id <= n /\ f.id \in Int
    BY <1>11, IdInt DEF Early, Below
  <2>3. \A f \in Range(t) : f.id # k /\ f.id <= k BY <2>1, <2>2
  <2>4. Distinct(u) BY <1>7, <1>11, <2>3 DEF Early
  <2>5. e.id <= k BY <1>6, <2>1
  <2>6. Below(u, k) BY <1>7, <2>3, <2>5 DEF Below
  <2>7. n <= k /\ k > n BY <2>1
  <2>8. Entered(u, q.type, q.from, k) BY <1>6, <1>7 DEF Entered
  <2>9. \A f \in Range(u) : f \in Range(t) \/ (f.id > n /\ f.type = q.type /\ f.by = q.from)
    BY <1>6, <1>7, <2>7
  <2>10. \A f \in Range(t) : f.type = "LEAVE_INVITE" => f \in Range(u) BY <1>7
  <2> QED BY <1>8, <2>4, <2>6, <2>7, <2>8, <2>9, <2>10 DEF Orderly
<1> QED BY <1>1, <1>4, <1>8, <1>10, <1>11 DEF Outcome

LEMMA AnnounceF ==
  ASSUME NEW t \in Seq(Entry), NEW n \in 0 .. MaxId - 1, NEW D, D = [table |-> t, id |-> n],
         NEW q \in Request, q.type = "ANNOUNCE", NEW x \in Announce(D, q)
  PROVE  Outcome(D, q, x)
<1> DEFINE i == FindRequest(D, q)
<1>1. D.table = t /\ D.id = n OBVIOUS
<1>2. i \in 0 .. Len(t) /\ (i # 0 => t[i].type = q.type /\ t[i].by = q.from)
  BY <1>1, FindRequestFacts
<1>3. CASE x = Answer(D, q, FALSE, 0, None) BY <1>1, <1>3, IdRanges, Untouched
<1>4. CASE i = 0 /\ x # Answer(D, q, FALSE, 0, None)
  <2>1. FindRequest(D, q) = 0 /\ ~(FindRequest(D, q) > 0) BY <1>4
  <2>2. \E ok \in BOOLEAN : x = Answer(Insert(D, q), q, ok, NewId(D), None)
    BY <1>4, <2>1, Zenon DEF Announce
  <2> QED BY <1>1, <2>2, InsertF
<1>5. CASE i # 0
  <2>1. FindRequest(D, q) > 0 /\ FindRequest(D, q) # 0 BY <1>2, <1>5
  <2>2. i \in 1 .. Len(t) BY <1>2, <1>5
  <2>3. CASE q.id > D.table[FindRequest(D, q)].id
    <3>1. \/ x = Answer(D, q, FALSE, 0, None)
          \/ \E ok \in BOOLEAN :
               x = Answer([D EXCEPT !.table[i].id = NewId(D), !.id = NewId(D)], q, ok, NewId(D), None)
      BY <2>1, <2>3, Zenon DEF Announce
    <3> QED BY <1>2, <1>3, <1>5, <2>2, <3>1, RenumberF
  <2>4. CASE ~(q.id > D.table[FindRequest(D, q)].id)
    <3>1. x = Answer(D, q, FALSE, 0, None) \/ x = Answer(D, q, TRUE, D.table[FindRequest(D, q)].id, None)
      BY <2>1, <2>4, Zenon DEF Announce
    <3>2. t[i] \in Range(t) /\ t[i].id \in 1 .. MaxId - 1 BY <2>2, InTable DEF Entry
    <3>3. Entered(D.table, "ANNOUNCE", q.from, t[i].id) BY <1>1, <1>2, <1>5, <3>2 DEF Entered
    <3>4. t[i].id \in Ids /\ t[i].id < MaxId BY <3>2, IdRanges
    <3>5. CASE x = Answer(D, q, TRUE, t[i].id, None) BY <1>1, <3>3, <3>4, <3>5, Untouched
    <3> QED BY <1>1, <1>3, <3>1, <3>5
  <2> QED BY <2>3, <2>4
<1> QED BY <1>3, <1>4, <1>5

LEMMA LeaveInviteF ==
  ASSUME NEW t \in Seq(Entry), NEW n \in 0 .. MaxId - 1, NEW D, D = [table |-> t, id |-> n],
         NEW q \in Request, q.type = "LEAVE_INVITE", NEW x \in LeaveInvite(D, q)
  PROVE  Outcome(D, q, x)
<1> DEFINE i == FindRequest(D, q)
<1>1. D.table = t /\ D.id = n OBVIOUS
<1>2. i \in 0 .. Len(t) /\ (i # 0 => t[i].type = q.type /\ t[i].by = q.from)
  BY <1>1, FindRequestFacts
<1>3. CASE i = 0
  <2>1. ~(FindRequest(D, q) > 0) BY <1>3
  <2>2. \E ok \in BOOLEAN : x = Answer(Insert(D, q), q, ok, NewId(D), None)
    BY <2>1, Zenon DEF LeaveInvite
  <2> QED BY <1>1, <2>2, InsertF
<1>4. CASE i # 0
  <2>1. FindRequest(D, q) > 0 BY <1>2, <1>4
  <2>2. x = Answer(D, q, TRUE, t[i].id, None) BY <1>1, <2>1, Zenon DEF LeaveInvite
  <2>3. i \in 1 .. Len(t) BY <1>2, <1>4
  <2>4. t[i] \in Range(t) /\ t[i].id \in 1 .. MaxId - 1 BY <2>3, InTable DEF Entry
  <2>5. Entered(D.table, "LEAVE_INVITE", q.from, t[i].id) BY <1>1, <1>2, <1>4, <2>4 DEF Entered
  <2>6. t[i].id \in Ids /\ t[i].id < MaxId BY <2>4, IdRanges
  <2> QED BY <1>1, <2>2, <2>5, <2>6, Untouched
<1> QED BY <1>3, <1>4

LEMMA LookUpF ==
  ASSUME NEW t \in Seq(Entry), NEW n \in 0 .. MaxId - 1, NEW D, D = [table |-> t, id |-> n],
         NEW q \in Request, q.type = "LOOK_UP", NEW x, x = LookUp(D, q)
  PROVE  Outcome(D, q, x)
<1> DEFINE i == FindMatch(D, q)
<1>1. D.table = t /\ D.id = n OBVIOUS
<1>2. /\ i \in 0 .. Len(t)
      /\ i # 0 => t[i].type = "LEAVE_INVITE" /\ Peer[t[i].by] = Me[q.from] /\ Me[t[i].by] = Peer[q.from]
  BY <1>1, FindMatchFacts
<1>3. CASE i = 0
  <2>1. ~(FindMatch(D, q) > 0) BY <1>3
  <2>2. x = Answer(D, q, FALSE, 0, None) BY <2>1, Zenon DEF LookUp
  <2> QED BY <1>1, <2>2, IdRanges, Untouched
<1>4. CASE i # 0
  <2>1. FindMatch(D, q) > 0 BY <1>2, <1>4
  <2>2. x = Answer(D, q, TRUE, t[i].id, t[i].by) BY <1>1, <2>1, Zenon DEF LookUp
  <2>3. i \in 1 .. Len(t) BY <1>2, <1>4
  <2>4. t[i] \in Range(t) /\ t[i].id \in 1 .. MaxId - 1 /\ t[i].by \in Clients
    BY <2>3, InTable DEF Entry
  <2>5. Entered(D.table, "LEAVE_INVITE", t[i].by, t[i].id) BY <1>1, <1>2, <1>4, <2>4 DEF Entered
  <2>6. t[i].id \in Ids /\ t[i].id < MaxId BY <2>4, IdRanges
  <2> QED BY <1>1, <1>2, <1>4, <2>2, <2>4, <2>5, <2>6, Untouched
<1> QED BY <1>3, <1>4
LEMMA DeleteF ==
  ASSUME NEW t \in Seq(Entry), NEW n \in 0 .. MaxId - 1, NEW D, D = [table |-> t, id |-> n],
         NEW q \in Request, q.type = "DELETE", NEW x, x = Delete(D, q)
  PROVE  Outcome(D, q, x)
<1> DEFINE i == FindId(D, q)
<1>1. D.table = t /\ D.id = n OBVIOUS
<1>2. i \in 0 .. Len(t) /\ (i # 0 => t[i].id = q.id) BY <1>1, FindIdFacts
<1>3. x = IF FindId(D, q) > 0 THEN Answer([D EXCEPT !.table = RemoveAt(@, FindId(D, q))], q, TRUE, 0, None)
                               ELSE Answer(D, q, FALSE, 0, None)
  BY Zenon DEF Delete, FindId
<1>4. CASE i = 0
  <2>1. ~(FindId(D, q) > 0) BY <1>4
  <2>2. x = Answer(D, q, FALSE, 0, None) BY <1>3, <2>1
  <2> QED BY <1>1, <2>2, IdRanges, Untouched
<1>5. CASE i # 0
  <2> DEFINE u == RemoveAt(t, i)
             E == [D EXCEPT !.table = RemoveAt(@, FindId(D, q))]
  <2>1. i \in 1 .. Len(t) /\ FindId(D, q) > 0 BY <1>2, <1>5
  <2>2. E.table = u /\ E.id = n BY <1>1
  <2>3. x = Answer(E, q, TRUE, 0, None) BY <1>3, <2>1
  <2>4. u = RemoveAt(t, i) OBVIOUS
  <2> HIDE DEF u, E
  <2>5. /\ u \in Seq(Entry)
        /\ Range(u) \subseteq Range(t) /\ Range(t) \subseteq Range(u) \cup {t[i]}
        /\ Distinct(t) => Distinct(u)
    BY <2>1, <2>4, Removed
  <2>6. /\ x.D = E /\ x.r \in Response
        /\ x.r.to = q.from /\ x.r.type = q.type /\ x.r.id = 0
    <3> DEFINE z == 0
               yes == TRUE
    <3>1. yes \in BOOLEAN /\ z \in Ids /\ None \in Clients \cup {None} BY IdRanges
    <3>2. x = Answer(E, q, yes, z, None) BY <2>3
    <3> HIDE DEF z, yes
    <3>3. x.D = E /\ x.r \in Response /\ x.r.to = q.from /\ x.r.type = q.type /\ x.r.id = z
      BY <3>1, <3>2, AnswerFacts
    <3> QED BY <3>3 DEF z
  <2>7. Sound(q, u, n, x.r) BY <2>5, <2>6, IdRanges DEF Sound
  <2>8. ASSUME Early(t, n) PROVE Orderly(t, n, q, u, n, x.r)
    <3>1. n <= n BY TalkAssumption
    <3>2. Distinct(u) /\ Below(u, n) BY <2>5, <2>8 DEF Early, Below
    <3>3. \A e \in Range(t) : e \in Range(u) \/ e.id = q.id BY <1>2, <1>5, <2>5
    <3> QED BY <2>5, <3>1, <3>2, <3>3 DEF Orderly
  <2> QED BY <1>1, <2>2, <2>6, <2>7, <2>8 DEF Outcome
<1> QED BY <1>4, <1>5

\* What a step of a daemon does.
Serves(h, q, u, m, r) ==
    /\ table' = [table EXCEPT ![h] = u] /\ currentId' = [currentId EXCEPT ![h] = m]
    /\ resps' = Readable(resps \cup {r}, pc)
    /\ Sound(q, u, m, r)
    /\ Early(table[h], currentId[h]) => Orderly(table[h], currentId[h], q, u, m, r)
LEMMA ProcessF ==
  ASSUME TypeOK, NEW h \in Hosts, NEW q \in reqs, Process(h, q)
  PROVE  q \in Request /\ q.to = h /\ \E u, m, r : Serves(h, q, u, m, r)
<1> DEFINE D == [table |-> table[h], id |-> currentId[h]]
<1>1. q \in Request /\ q.to = h BY DEF TypeOK, Process
<1>2. table[h] \in Seq(Entry) /\ currentId[h] \in 0 .. MaxId - 1 BY DEF TypeOK
<1>3. D.table = table[h] /\ D.id = currentId[h] OBVIOUS
<1>4. PICK x \in CASE q.type = "ANNOUNCE"     -> Announce(D, q)
                   [] q.type = "LEAVE_INVITE" -> LeaveInvite(D, q)
                   [] q.type = "LOOK_UP"      -> {LookUp(D, q)}
                   [] q.type = "DELETE"       -> {Delete(D, q)} :
             /\ table' = [table EXCEPT ![h] = x.D.table]
             /\ currentId' = [currentId EXCEPT ![h] = x.D.id]
             /\ resps' = Readable(resps \cup {x.r}, pc)
  BY Zenon DEF Process
<1>5. D = [table |-> table[h], id |-> currentId[h]] OBVIOUS
<1> HIDE DEF D
<1>6. Outcome(D, q, x)
  <2>1. CASE q.type = "ANNOUNCE"
    <3>1. x \in Announce(D, q) BY <2>1, Zenon
    <3> QED BY <1>1, <1>2, <1>5, <2>1, <3>1, AnnounceF
  <2>2. CASE q.type = "LEAVE_INVITE"
    <3>1. x \in LeaveInvite(D, q) BY <2>2, Zenon
    <3> QED BY <1>1, <1>2, <1>5, <2>2, <3>1, LeaveInviteF
  <2>3. CASE q.type = "LOOK_UP"
    <3>1. x = LookUp(D, q) BY <2>3, Zenon
    <3> QED BY <1>1, <1>2, <1>5, <2>3, <3>1, LookUpF
  <2>4. CASE q.type = "DELETE"
    <3>1. x = Delete(D, q) BY <2>4, Zenon
    <3> QED BY <1>1, <1>2, <1>5, <2>4, <3>1, DeleteF
  <2> QED BY <1>1, <2>1, <2>2, <2>3, <2>4 DEF Request, Types
<1>7. Serves(h, q, x.D.table, x.D.id, x.r) BY <1>3, <1>4, <1>6 DEF Outcome, Serves
<1> QED BY <1>1, <1>7
-----------------------------------------------------------------------------
(* Types.                                                                  *)

Phases == {"lookup", "delstale", "announce", "leave", "dellocal", "delremote"}
Places == Phases \cup {"off", "accept", "edit", "talk", "quit"}
LEMMA PhaseFacts ==
  /\ DOMAIN TypeOf = Phases
  /\ TypeOf["lookup"] = "LOOK_UP" /\ TypeOf["delstale"] = "DELETE"
  /\ TypeOf["announce"] = "ANNOUNCE" /\ TypeOf["leave"] = "LEAVE_INVITE"
  /\ TypeOf["dellocal"] = "DELETE" /\ TypeOf["delremote"] = "DELETE"
BY DEF TypeOf, Phases

\* Numbers that talk adds one to, or sends back, are less than MaxId.
Typed ==
    /\ TypeOK
    /\ \A r \in resps : r.id < MaxId
    /\ \A c \in Clients : remoteId[c] < MaxId

LEMMA AskFacts ==
  ASSUME NEW c \in Clients, NEW phase \in Phases, NEW id
  PROVE  LET q == Ask(c, phase, id) IN
         /\ id \in Ids => q \in Request
         /\ q.from = c /\ q.type = TypeOf[phase] /\ q.id = id
         /\ q.to = IF phase \in Mine THEN HostOf[Me[c]] ELSE HostOf[Peer[c]]
<1> DEFINE q == Ask(c, phase, id)
           h == IF phase \in Mine THEN HostOf[Me[c]] ELSE HostOf[Peer[c]]
<1>1. h \in Hosts BY TalkAssumption
<1>2. TypeOf[phase] \in Types BY PhaseFacts DEF Phases, Types
<1>3. q = [to |-> h, from |-> c, type |-> TypeOf[phase], id |-> id] BY Zenon DEF Ask
<1> HIDE DEF q, h
<1>4. q.from = c /\ q.type = TypeOf[phase] /\ q.id = id /\ q.to = h BY <1>3
<1>5. id \in Ids => q \in Request BY <1>1, <1>2, <1>3 DEF Request
<1> QED BY <1>4, <1>5 DEF h, q

\* The three ways in which a process goes on.
LEMMA TransactT ==
  ASSUME TypeOK, NEW c \in Clients, NEW phase \in Phases, NEW id \in Ids, Transact(c, phase, id)
  PROVE  reqs' \subseteq Request /\ pc' \in [Clients -> Places] /\ msgId' \in [Clients -> Ids]
<1>1. Ask(c, phase, id) \in Request BY AskFacts
<1>2. reqs' = reqs \cup {Ask(c, phase, id)} /\ reqs \subseteq Request BY DEF Transact, TypeOK
<1>3. pc \in [Clients -> Places] /\ msgId \in [Clients -> Ids] BY PhaseFacts DEF TypeOK, Places
<1>4. pc' = [pc EXCEPT ![c] = phase] /\ msgId' = [msgId EXCEPT ![c] = id] BY DEF Transact
<1>5. phase \in Places BY DEF Places
<1> HIDE DEF Places
<1> QED BY <1>1, <1>2, <1>3, <1>4, <1>5

LEMMA BecomesT ==
  ASSUME TypeOK, NEW c \in Clients, NEW place \in Places, Becomes(c, place)
  PROVE  reqs' \subseteq Request /\ pc' \in [Clients -> Places] /\ msgId' \in [Clients -> Ids]
<1>1. reqs' = reqs /\ reqs \subseteq Request /\ msgId' = msgId BY DEF Becomes, TypeOK
<1>2. pc \in [Clients -> Places] /\ msgId \in [Clients -> Ids] BY PhaseFacts DEF TypeOK, Places
<1>3. pc' = [pc EXCEPT ![c] = place] BY DEF Becomes
<1> HIDE DEF Places
<1> QED BY <1>1, <1>2, <1>3

LEMMA QuitT ==
  ASSUME TypeOK, NEW c \in Clients, NEW rem \in Ids, NEW loc \in Ids, Quit(c, rem, loc)
  PROVE  reqs' \subseteq Request /\ pc' \in [Clients -> Places] /\ msgId' \in [Clients -> Ids]
<1>1. Ask(c, "delremote", rem) \in Request /\ Ask(c, "dellocal", loc) \in Request
  BY AskFacts DEF Phases
<1>2. reqs' \subseteq reqs \cup {Ask(c, "delremote", rem), Ask(c, "dellocal", loc)} /\ reqs \subseteq Request
  BY DEF Quit, TypeOK
<1>3. pc \in [Clients -> Places] /\ msgId \in [Clients -> Ids] BY PhaseFacts DEF TypeOK, Places
<1>4. pc' = [pc EXCEPT ![c] = "quit"] /\ msgId' = msgId /\ "quit" \in Places BY DEF Quit, Places
<1> HIDE DEF Places
<1> QED BY <1>1, <1>2, <1>3, <1>4

\* What a response does to a process, typed.
Went == reqs' \subseteq Request /\ pc' \in [Clients -> Places] /\ msgId' \in [Clients -> Ids]
Numbered ==
    /\ localId' \in [Clients -> Ids] /\ remoteId' \in [Clients -> Ids]
    /\ \A c \in Clients : remoteId'[c] < MaxId
    /\ conn' \in [Clients -> Clients \cup {None}]

LEMMA NumbersSame ==
  ASSUME Typed, UNCHANGED <<localId, remoteId>>, conn' \in [Clients -> Clients \cup {None}]
  PROVE  Numbered
BY DEF Typed, TypeOK, Numbered

LEMMA ReceivedT ==
  ASSUME Typed, NEW c \in Clients, NEW r \in resps, r.to = c, r.type = TypeOf[pc[c]], Transacting(c),
         \/ pc[c] = "lookup" /\ LookedUp(c, r)
         \/ pc[c] = "delstale" /\ Transact(c, "announce", MaxId)
                               /\ UNCHANGED <<localId, remoteId, conn>>
         \/ pc[c] = "announce" /\ Announced(c, r)
         \/ pc[c] = "leave" /\ Left(c, r)
         \/ pc[c] = "dellocal" /\ Transact(c, "delremote", remoteId[c])
                               /\ UNCHANGED <<localId, remoteId, conn>>
         \/ pc[c] = "delremote" /\ Becomes(c, "edit")
                                /\ UNCHANGED <<localId, remoteId, conn>>
  PROVE  Went /\ Numbered
<1>1. TypeOK /\ r \in Response /\ r.id \in Ids /\ r.id < MaxId BY DEF Typed, TypeOK, Response
<1>2. /\ localId \in [Clients -> Ids] /\ remoteId \in [Clients -> Ids] /\ msgId \in [Clients -> Ids]
      /\ conn \in [Clients -> Clients \cup {None}] /\ \A d \in Clients : remoteId[d] < MaxId
  BY DEF Typed, TypeOK
<1>3. MaxId \in Ids BY IdRanges
<1>4. CASE pc[c] = "lookup" /\ LookedUp(c, r)
  <2>1. r.addr \in Clients \cup {None} BY <1>1 DEF Response
  <2>2. UNCHANGED <<localId, remoteId>> BY <1>4 DEF LookedUp
  <2>3. CASE r.success /\ Becomes(c, "edit") /\ conn' = [conn EXCEPT ![c] = r.addr]
    <3>1. Went BY <1>1, <2>3, BecomesT DEF Places, Went
    <3>2. conn' \in [Clients -> Clients \cup {None}] BY <1>2, <2>1, <2>3
    <3> QED BY <2>2, <3>1, <3>2, NumbersSame
  <2>4. CASE Transact(c, "delstale", r.id) /\ UNCHANGED conn
    BY <1>1, <1>2, <2>2, <2>4, TransactT, NumbersSame DEF Phases, Went
  <2>5. CASE Transact(c, "announce", MaxId) /\ UNCHANGED conn
    BY <1>1, <1>2, <1>3, <2>2, <2>5, TransactT, NumbersSame DEF Phases, Went
  <2> QED BY <1>4, <2>3, <2>4, <2>5 DEF LookedUp
<1>5. CASE Transact(c, "announce", MaxId) /\ UNCHANGED <<localId, remoteId, conn>>
  BY <1>1, <1>2, <1>3, <1>5, TransactT, NumbersSame DEF Phases, Went
<1>6. CASE Announced(c, r)
  <2>1. remoteId' = [remoteId EXCEPT ![c] = r.id] /\ UNCHANGED <<localId, conn>> BY <1>6 DEF Announced
  <2>2. Numbered BY <1>1, <1>2, <2>1 DEF Numbered
  <2>3. CASE Transact(c, "leave", msgId[c]) BY <1>1, <1>2, <2>2, <2>3, TransactT DEF Phases, Went
  <2>4. CASE Quit(c, r.id, localId[c]) BY <1>1, <1>2, <2>2, <2>4, QuitT DEF Went
  <2> QED BY <1>6, <2>3, <2>4 DEF Announced
<1>7. CASE Left(c, r)
  <2>1. localId' = [localId EXCEPT ![c] = r.id] /\ UNCHANGED <<remoteId, conn>> BY <1>7 DEF Left
  <2>2. Numbered BY <1>1, <1>2, <2>1 DEF Numbered
  <2> QED BY <1>1, <1>7, <2>2, BecomesT DEF Left, Places, Went
<1>8. CASE Transact(c, "delremote", remoteId[c]) /\ UNCHANGED <<localId, remoteId, conn>>
  BY <1>1, <1>2, <1>8, TransactT, NumbersSame DEF Phases, Went
<1>9. CASE Becomes(c, "edit") /\ UNCHANGED <<localId, remoteId, conn>>
  BY <1>1, <1>2, <1>9, BecomesT, NumbersSame DEF Places, Went
<1> QED BY <1>4, <1>5, <1>6, <1>7, <1>8, <1>9
Rest ==
    /\ resps \subseteq Response /\ \A r \in resps : r.id < MaxId
    /\ table \in [Hosts -> Seq(Entry)]
    /\ currentId \in [Hosts -> 0 .. MaxId - 1] /\ idle \in [Hosts -> 0 .. MaxIdle]
    /\ dropped \subseteq Clients /\ due \subseteq Clients /\ blocked \subseteq Clients
    /\ rings \in 0 .. MaxRings /\ faults \in 0 .. MaxFaults

LEMMA TypedParts == Typed => Rest BY DEF Typed, TypeOK, Rest

LEMMA TypedFrom == ASSUME Went, Numbered, Rest' PROVE Typed'
BY PhaseFacts DEF Went, Numbered, Rest, Typed, TypeOK, Places

LEMMA OtherVars ==
  ASSUME Typed
  PROVE  /\ UNCHANGED <<reqs, pc, msgId>> => Went
         /\ UNCHANGED <<localId, remoteId, conn>> => Numbered
BY PhaseFacts DEF Typed, TypeOK, Went, Numbered, Places

LEMMA RestSame ==
  ASSUME Typed, resps' \subseteq resps, UNCHANGED <<table, currentId, idle>>,
         dropped' \subseteq Clients, due' \subseteq Clients, blocked' \subseteq Clients,
         rings' \in 0 .. MaxRings, faults' \in 0 .. MaxFaults
  PROVE  Rest'
BY TypedParts DEF Rest

LEMMA RestKept == ASSUME Typed, resps' \subseteq resps,
                         UNCHANGED <<daemonvars, dropped, due, blocked, rings, faults>>
                  PROVE  Rest'
BY TypedParts DEF Rest, daemonvars

LEMMA OneMore ==
  ASSUME Typed
  PROVE  /\ faults < MaxFaults /\ faults' = faults + 1 => faults' \in 0 .. MaxFaults
         /\ rings < MaxRings /\ rings' = rings + 1 => rings' \in 0 .. MaxRings
<1>1. faults \in 0 .. MaxFaults /\ rings \in 0 .. MaxRings /\ MaxFaults \in Nat /\ MaxRings \in Nat
  BY TalkAssumption DEF Typed, TypeOK
<1> QED BY <1>1

LEMMA ReceiveCases ==
  ASSUME NEW c \in Clients, Receive(c)
  PROVE  \E r \in resps :
           /\ r.to = c /\ Transacting(c) /\ resps' = Readable(resps \ {r}, pc')
           /\ UNCHANGED <<daemonvars, dropped, due, blocked, rings, faults>>
           /\ \/ /\ reqs' \subseteq reqs \cup {Ask(c, pc[c], msgId[c])}
                 /\ UNCHANGED <<pc, msgId, localId, remoteId, conn>>
              \/ /\ r.type = TypeOf[pc[c]]
                 /\ \/ pc[c] = "lookup" /\ LookedUp(c, r)
                    \/ pc[c] = "delstale" /\ Transact(c, "announce", MaxId)
                                          /\ UNCHANGED <<localId, remoteId, conn>>
                    \/ pc[c] = "announce" /\ Announced(c, r)
                    \/ pc[c] = "leave" /\ Left(c, r)
                    \/ pc[c] = "dellocal" /\ Transact(c, "delremote", remoteId[c])
                                          /\ UNCHANGED <<localId, remoteId, conn>>
                    \/ pc[c] = "delremote" /\ Becomes(c, "edit")
                                           /\ UNCHANGED <<localId, remoteId, conn>>
BY DEF Receive

LEMMA ReadableIn == ASSUME NEW R, NEW p PROVE Readable(R, p) \subseteq R BY DEF Readable

LEMMA ClientT == ASSUME Typed, NEW c \in Clients, Client(c) PROVE Typed'
<1>0. TypeOK /\ resps \subseteq resps BY DEF Typed
<1>1. CASE Start(c)
  <2>1. Transact(c, "lookup", 0) /\ 0 \in Ids /\ "lookup" \in Phases BY <1>1, IdRanges DEF Start, Phases
  <2>2. /\ UNCHANGED <<localId, remoteId, conn>> /\ resps' \subseteq resps
        /\ UNCHANGED <<daemonvars, dropped, due, blocked, rings, faults>>
    BY <1>1 DEF Start
  <2>3. Went BY <1>0, <2>1, TransactT DEF Went
  <2> QED BY <2>2, <2>3, OtherVars, RestKept, TypedFrom
<1>2. CASE Resend(c)
  <2>1. /\ UNCHANGED <<pc, msgId, localId, remoteId, conn, resps, daemonvars, dropped, due, blocked, rings>>
        /\ reqs' = reqs \cup {Ask(c, pc[c], msgId[c])} /\ pc[c] \in Phases
        /\ faults < MaxFaults /\ faults' = faults + 1
    BY <1>2, PhaseFacts DEF Resend, Transacting
  <2>2. Ask(c, pc[c], msgId[c]) \in Request BY <1>0, <2>1, AskFacts DEF TypeOK
  <2>3. reqs' \subseteq Request BY <1>0, <2>1, <2>2 DEF TypeOK
  <2>4. Went BY <1>0, <2>1, <2>3, PhaseFacts DEF TypeOK, Went, Places
  <2>5. Rest' BY <2>1, TypedParts, OneMore DEF Rest, daemonvars
  <2> QED BY <2>1, <2>4, <2>5, OtherVars, TypedFrom
<1>3. CASE Receive(c)
  <2>1. PICK r \in resps :
           /\ r.to = c /\ Transacting(c) /\ resps' = Readable(resps \ {r}, pc')
           /\ UNCHANGED <<daemonvars, dropped, due, blocked, rings, faults>>
           /\ \/ /\ reqs' \subseteq reqs \cup {Ask(c, pc[c], msgId[c])}
                 /\ UNCHANGED <<pc, msgId, localId, remoteId, conn>>
              \/ /\ r.type = TypeOf[pc[c]]
                 /\ \/ pc[c] = "lookup" /\ LookedUp(c, r)
                    \/ pc[c] = "delstale" /\ Transact(c, "announce", MaxId)
                                          /\ UNCHANGED <<localId, remoteId, conn>>
                    \/ pc[c] = "announce" /\ Announced(c, r)
                    \/ pc[c] = "leave" /\ Left(c, r)
                    \/ pc[c] = "dellocal" /\ Transact(c, "delremote", remoteId[c])
                                          /\ UNCHANGED <<localId, remoteId, conn>>
                    \/ pc[c] = "delremote" /\ Becomes(c, "edit")
                                           /\ UNCHANGED <<localId, remoteId, conn>>
    BY <1>3, ReceiveCases
  <2>2. Rest'
    <3>1. resps' \subseteq resps BY <2>1, ReadableIn
    <3> QED BY <2>1, <3>1, RestKept
  <2>3. Went /\ Numbered
    <3>1. CASE /\ reqs' \subseteq reqs \cup {Ask(c, pc[c], msgId[c])}
               /\ UNCHANGED <<pc, msgId, localId, remoteId, conn>>
      <4>1. pc[c] \in Phases BY <2>1, PhaseFacts DEF Transacting
      <4>2. Ask(c, pc[c], msgId[c]) \in Request BY <1>0, <4>1, AskFacts DEF TypeOK
      <4>3. Went BY <1>0, <3>1, <4>2, PhaseFacts DEF TypeOK, Went, Places
      <4> QED BY <3>1, <4>3, OtherVars
    <3> QED BY <2>1, <3>1, ReceivedT
  <2> QED BY <2>2, <2>3, TypedFrom
<1>4. CASE Accept(c)
  <2>1. /\ Transact(c, "dellocal", localId[c]) /\ "dellocal" \in Phases /\ localId[c] \in Ids
        /\ UNCHANGED <<resps, daemonvars, localId, remoteId, dropped, blocked, rings, faults>>
        /\ due' = due \ {c}
    BY <1>0, <1>4 DEF Accept, Phases, TypeOK
  <2>2. PICK d \in Clients : conn' = [conn EXCEPT ![c] = d] BY <1>4 DEF Accept, Backlog
  <2>3. Went BY <1>0, <2>1, TransactT DEF Went
  <2>4. Numbered BY <2>1, <2>2 DEF Typed, TypeOK, Numbered
  <2>5. Rest' BY <2>1, TypedParts DEF Rest, daemonvars
  <2> QED BY <2>3, <2>4, <2>5, TypedFrom
<1>5. CASE ReInvite(c)
  <2>1. /\ Transact(c, "announce", remoteId[c] + 1) /\ "announce" \in Phases
        /\ UNCHANGED <<resps, daemonvars, localId, remoteId, conn, faults>>
        /\ due' = due \ {c} /\ rings < MaxRings /\ rings' = rings + 1
        /\ blocked' \subseteq blocked \cup {c}
    BY <1>5 DEF ReInvite, Phases
  <2>2. dropped' \subseteq Clients BY <1>0, <1>5 DEF ReInvite, Backlog, TypeOK
  <2>3. remoteId[c] + 1 \in Ids
    <3>1. remoteId[c] \in 0 .. MaxId /\ remoteId[c] < MaxId /\ MaxId \in Nat
      BY TalkAssumption DEF Typed, TypeOK, Ids
    <3> QED BY <3>1 DEF Ids
  <2>4. Went BY <1>0, <2>1, <2>3, TransactT DEF Went
  <2>5. Rest' BY <2>1, <2>2, TypedParts, OneMore DEF Rest, daemonvars
  <2> QED BY <2>1, <2>4, <2>5, OtherVars, TypedFrom
<1>6. CASE EditChars(c)
  <2>1. /\ Becomes(c, "talk") /\ "talk" \in Places /\ resps' \subseteq resps
        /\ UNCHANGED <<localId, remoteId, conn>>
        /\ UNCHANGED <<daemonvars, dropped, due, blocked, rings, faults>>
    BY <1>6 DEF EditChars, Places
  <2>2. Went BY <1>0, <2>1, BecomesT DEF Went
  <2> QED BY <2>1, <2>2, OtherVars, RestKept, TypedFrom
<1>7. CASE Lost(c)
  <2>1. /\ Quit(c, remoteId[c], localId[c]) /\ resps' \subseteq resps
        /\ UNCHANGED <<localId, remoteId, conn>>
        /\ UNCHANGED <<daemonvars, dropped, due, blocked, rings, faults>>
    BY <1>7 DEF Lost
  <2>2. Went BY <1>0, <2>1, QuitT DEF Went, TypeOK
  <2> QED BY <2>1, <2>2, OtherVars, RestKept, TypedFrom
<1>8. CASE Interrupt(c)
  <2>1. /\ Quit(c, remoteId[c], localId[c]) /\ resps' \subseteq resps
        /\ UNCHANGED <<daemonvars, localId, remoteId, conn, dropped, blocked, rings>>
        /\ due' = due \ {c} /\ faults < MaxFaults /\ faults' = faults + 1
    BY <1>8, ReadableIn DEF Interrupt
  <2>2. Went BY <1>0, <2>1, QuitT DEF Went, TypeOK
  <2>3. Rest' BY <2>1, TypedParts, OneMore DEF Rest, daemonvars
  <2> QED BY <2>1, <2>2, <2>3, OtherVars, TypedFrom
<1> QED BY <1>1, <1>2, <1>3, <1>4, <1>5, <1>6, <1>7, <1>8 DEF Client

LEMMA DaemonT == ASSUME Typed, NEW h \in Hosts, Daemon(h) PROVE Typed'
<1>0. 0 \in 0 .. MaxIdle /\ 0 \in 0 .. MaxId - 1 BY TalkAssumption
<1>1. CASE Exit(h)
  <2>1. /\ UNCHANGED <<netvars, clientvars>> /\ idle' = [idle EXCEPT ![h] = 0]
        /\ table' = [table EXCEPT ![h] = <<>>] /\ currentId' = [currentId EXCEPT ![h] = 0]
    BY <1>1 DEF Exit
  <2>2. table' \in [Hosts -> Seq(Entry)]
    <3>1. <<>> \in Seq(Entry) OBVIOUS
    <3> QED BY <2>1, <3>1, TypedParts DEF Rest
  <2>3. currentId' \in [Hosts -> 0 .. MaxId - 1] /\ idle' \in [Hosts -> 0 .. MaxIdle]
    BY <1>0, <2>1, TypedParts DEF Rest
  <2>4. Rest' BY <2>1, <2>2, <2>3, TypedParts DEF Rest, netvars, clientvars
  <2> QED BY <2>1, <2>4, OtherVars, TypedFrom DEF netvars, clientvars
<1>2. ASSUME NEW q \in reqs, Process(h, q) PROVE Typed'
  <2>1. PICK u, m, r : Serves(h, q, u, m, r) BY <1>2, ProcessF DEF Typed
  <2>2. u \in Seq(Entry) /\ m \in 0 .. MaxId - 1 /\ r \in Response /\ r.id < MaxId
    BY <2>1 DEF Serves, Sound
  <2>3. /\ table' = [table EXCEPT ![h] = u] /\ currentId' = [currentId EXCEPT ![h] = m]
        /\ resps' \subseteq resps \cup {r} /\ idle' = [idle EXCEPT ![h] = 0]
        /\ reqs' \subseteq reqs /\ UNCHANGED clientvars
    BY <1>2, <2>1, ReadableIn DEF Serves, Process
  <2>4. Rest' BY <1>0, <2>2, <2>3, TypedParts DEF Rest, clientvars
  <2>5. Went BY <2>3, PhaseFacts DEF Went, Typed, TypeOK, Places, clientvars
  <2> QED BY <2>3, <2>4, <2>5, OtherVars, TypedFrom DEF clientvars
<1> QED BY <1>1, <1>2 DEF Daemon

LEMMA TickT == ASSUME Typed, Tick PROVE Typed'
<1>1. \A h \in Hosts : idle[h] + 1 \in 0 .. MaxIdle
  <2>1. \A h \in Hosts : idle[h] \in 0 .. MaxIdle /\ idle[h] < MaxIdle BY DEF Tick, Typed, TypeOK
  <2>2. MaxIdle \in Nat BY TalkAssumption
  <2> QED BY <2>1, <2>2
<1>2. idle' \in [Hosts -> 0 .. MaxIdle] BY <1>1 DEF Tick
<1>3. Rest' BY <1>2, TypedParts DEF Rest, Tick
<1>4. Went BY PhaseFacts DEF Went, Typed, TypeOK, Places, Tick
<1> QED BY <1>3, <1>4, OtherVars, TypedFrom DEF Tick

LEMMA InitT == Init => Typed
<1> SUFFICES ASSUME Init PROVE Typed OBVIOUS
<1>1. /\ 0 \in 0 .. MaxIdle /\ 0 \in 0 .. MaxId - 1 /\ 0 \in Ids /\ 0 < MaxId
      /\ 0 \in 0 .. MaxRings /\ 0 \in 0 .. MaxFaults
  BY TalkAssumption, IdRanges
<1>2. <<>> \in Seq(Entry) OBVIOUS
<1>3. table \in [Hosts -> Seq(Entry)] BY <1>2 DEF Init
<1> QED BY <1>1, <1>3, PhaseFacts DEF Init, Typed, TypeOK, Phases

LEMMA NextT == ASSUME Typed, [Next]_vars PROVE Typed'
<1>1. CASE UNCHANGED vars
  <2>1. UNCHANGED <<reqs, pc, msgId>> /\ UNCHANGED <<localId, remoteId, conn>>
    BY <1>1 DEF vars, netvars, clientvars
  <2>2. Rest' BY <1>1, TypedParts DEF Rest, vars, netvars, daemonvars, clientvars
  <2> QED BY <2>1, <2>2, OtherVars, TypedFrom
<1> QED BY <1>1, ClientT, DaemonT, TickT DEF Next

\* Every variable keeps its type, for any users, machines and processes: no
\* daemon gives out a number outside 1 .. MaxId - 1, and the number a process
\* rings again with never exceeds MaxId.
THEOREM TypeCorrect == Spec => []TypeOK
<1>1. Typed => TypeOK BY DEF Typed
<1>2. Typed /\ [Next]_vars => Typed' BY NextT
<1> QED BY <1>1, <1>2, InitT, PTL DEF Spec
-----------------------------------------------------------------------------
(* The right party.                                                        *)

Match(d, c) == d \in Clients /\ Me[d] = Peer[c] /\ Peer[d] = Me[c]
LookUpsOK == \A r \in resps : r.type = "LOOK_UP" /\ r.success => Match(r.addr, r.to)
Met == {"edit", "talk", "quit"}
Party(c) ==
    /\ conn[c] # None => Match(conn[c], c)
    /\ pc[c] \in {"dellocal", "delremote", "edit", "talk"} => conn[c] # None
    /\ pc[c] = "talk" => conn[conn[c]] = c /\ pc[conn[c]] \in Met
PInv == Typed /\ LookUpsOK /\ \A c \in Clients : Party(c)

LEMMA PartyStep ==
  ASSUME PInv, NEW c \in Clients,
         \A d \in Clients \ {c} : pc'[d] = pc[d] /\ conn'[d] = conn[d],
         pc[c] \in Met => pc'[c] \in Met /\ conn'[c] = conn[c],
         conn'[c] # None => Match(conn'[c], c),
         pc'[c] \in {"dellocal", "delremote", "edit", "talk"} => conn'[c] # None,
         pc'[c] = "talk" => conn'[c] = conn[c] /\ conn[conn[c]] = c /\ pc[conn[c]] \in Met
  PROVE  \A d \in Clients : Party(d)'
<1>0. \A d \in Clients : Party(d) BY DEF PInv
<1>1. ASSUME NEW d \in Clients, d # c PROVE Party(d)'
  <2>1. pc'[d] = pc[d] /\ conn'[d] = conn[d] BY <1>1
  <2>2. CASE pc[d] = "talk"
    <3>1. conn[d] # None /\ Match(conn[d], d) /\ conn[conn[d]] = d /\ pc[conn[d]] \in Met
      BY <1>0, <2>2 DEF Party
    <3>2. conn[d] \in Clients BY <3>1 DEF Match
    <3>3. conn'[conn[d]] = d /\ pc'[conn[d]] \in Met BY <3>1, <3>2
    <3> QED BY <2>1, <3>1, <3>3 DEF Party, Match
  <2>3. CASE pc[d] # "talk" BY <1>0, <2>1, <2>3 DEF Party, Match
  <2> QED BY <2>2, <2>3
<1>2. Party(c)'
  <2>1. CASE pc'[c] = "talk"
    <3>1. conn'[c] # None /\ Match(conn'[c], c) /\ conn'[c] = conn[c] BY <2>1
    <3>2. conn[c] \in Clients /\ conn[c] # c BY <3>1, TalkAssumption DEF Match
    <3>3. conn'[conn'[c]] = c /\ pc'[conn'[c]] \in Met BY <2>1, <3>1, <3>2
    <3> QED BY <3>1, <3>3 DEF Party, Match
  <2>2. CASE pc'[c] # "talk" BY <2>2 DEF Party, Match
  <2> QED BY <2>1, <2>2
<1> QED BY <1>1, <1>2

\* A step that leaves conn alone and does not bring c to "talk".
LEMMA PartySame ==
  ASSUME PInv, NEW c \in Clients, NEW place, pc' = [pc EXCEPT ![c] = place], UNCHANGED conn,
         place # "talk", pc[c] \in Met => place \in Met,
         place \in {"dellocal", "delremote", "edit"} => pc[c] \in {"dellocal", "delremote", "edit"}
  PROVE  \A d \in Clients : Party(d)'
<1>1. pc'[c] = place /\ \A d \in Clients \ {c} : pc'[d] = pc[d] BY DEF PInv, Typed, TypeOK
<1>2. Party(c) BY DEF PInv
<1> QED BY <1>1, <1>2, PartyStep DEF Party

LEMMA LookUpsKept == ASSUME LookUpsOK, resps' \subseteq resps PROVE LookUpsOK'
BY DEF LookUpsOK, Match

LEMMA PartyUnmoved ==
  ASSUME PInv, UNCHANGED <<pc, conn>> PROVE \A c \in Clients : Party(c)'
BY DEF PInv, Party, Match

LEMMA ReceiveP == ASSUME PInv, NEW c \in Clients, Receive(c) PROVE \A d \in Clients : Party(d)'
<1>1. PICK r \in resps :
           /\ r.to = c /\ Transacting(c) /\ resps' = Readable(resps \ {r}, pc')
           /\ UNCHANGED <<daemonvars, dropped, due, blocked, rings, faults>>
           /\ \/ /\ reqs' \subseteq reqs \cup {Ask(c, pc[c], msgId[c])}
                 /\ UNCHANGED <<pc, msgId, localId, remoteId, conn>>
              \/ /\ r.type = TypeOf[pc[c]]
                 /\ \/ pc[c] = "lookup" /\ LookedUp(c, r)
                    \/ pc[c] = "delstale" /\ Transact(c, "announce", MaxId)
                                          /\ UNCHANGED <<localId, remoteId, conn>>
                    \/ pc[c] = "announce" /\ Announced(c, r)
                    \/ pc[c] = "leave" /\ Left(c, r)
                    \/ pc[c] = "dellocal" /\ Transact(c, "delremote", remoteId[c])
                                          /\ UNCHANGED <<localId, remoteId, conn>>
                    \/ pc[c] = "delremote" /\ Becomes(c, "edit")
                                           /\ UNCHANGED <<localId, remoteId, conn>>
  BY ReceiveCases
<1>2. CASE UNCHANGED <<pc, msgId, localId, remoteId, conn>> BY <1>2, PartyUnmoved
<1>3. CASE r.type = TypeOf[pc[c]] /\ pc[c] = "lookup" /\ LookedUp(c, r)
  <2>1. r.type = "LOOK_UP" BY <1>3, PhaseFacts
  <2>2. CASE r.success /\ Becomes(c, "edit") /\ conn' = [conn EXCEPT ![c] = r.addr]
    <3>1. Match(r.addr, c) BY <1>1, <2>1, <2>2 DEF PInv, LookUpsOK
    <3>2. r.addr # None BY <3>1, TalkAssumption DEF Match
    <3>3. /\ pc'[c] = "edit" /\ conn'[c] = r.addr
          /\ \A d \in Clients \ {c} : pc'[d] = pc[d] /\ conn'[d] = conn[d]
      BY <2>2 DEF PInv, Typed, TypeOK, Becomes
    <3>4. pc[c] \notin Met BY <1>3 DEF Met
    <3> QED BY <3>1, <3>2, <3>3, <3>4, PartyStep
  <2>3. CASE UNCHANGED conn /\ (Transact(c, "delstale", r.id) \/ Transact(c, "announce", MaxId))
    BY <1>3, <2>3, PartySame DEF Transact, Met
  <2> QED BY <1>3, <2>2, <2>3 DEF LookedUp
<1>4. CASE pc[c] = "delstale" /\ Transact(c, "announce", MaxId) /\ UNCHANGED <<localId, remoteId, conn>>
  BY <1>4, PartySame DEF Transact, Met
<1>5. CASE pc[c] = "announce" /\ Announced(c, r)
  <2>1. UNCHANGED conn /\ (pc' = [pc EXCEPT ![c] = "leave"] \/ pc' = [pc EXCEPT ![c] = "quit"])
    BY <1>5 DEF Announced, Transact, Quit
  <2> QED BY <1>5, <2>1, PartySame DEF Met
<1>6. CASE pc[c] = "leave" /\ Left(c, r)
  BY <1>6, PartySame DEF Left, Becomes, Met
<1>7. CASE pc[c] = "dellocal" /\ Transact(c, "delremote", remoteId[c]) /\ UNCHANGED <<localId, remoteId, conn>>
  BY <1>7, PartySame DEF Transact, Met
<1>8. CASE pc[c] = "delremote" /\ Becomes(c, "edit") /\ UNCHANGED <<localId, remoteId, conn>>
  BY <1>8, PartySame DEF Becomes, Met
<1> QED BY <1>1, <1>2, <1>3, <1>4, <1>5, <1>6, <1>7, <1>8

LEMMA FewerResps == ASSUME NEW c \in Clients, Client(c) PROVE resps' \subseteq resps
<1>1. CASE Receive(c)
  <2>1. PICK r \in resps : resps' = Readable(resps \ {r}, pc') BY <1>1 DEF Receive
  <2> QED BY <2>1, ReadableIn
<1>2. CASE Interrupt(c) BY <1>2, ReadableIn DEF Interrupt
<1>3. CASE Start(c) \/ Resend(c) \/ Accept(c) BY <1>3 DEF Start, Resend, Accept
<1>4. CASE ReInvite(c) \/ EditChars(c) \/ Lost(c) BY <1>4 DEF ReInvite, EditChars, Lost
<1> QED BY <1>1, <1>2, <1>3, <1>4 DEF Client

LEMMA ClientP == ASSUME PInv, NEW c \in Clients, Client(c) PROVE PInv'
<1>0. Typed' BY ClientT DEF PInv
<1>1. LookUpsOK'
  <2>1. resps' \subseteq resps BY FewerResps
  <2> QED BY <2>1, LookUpsKept DEF PInv
<1>2. \A d \in Clients : Party(d)'
  <2>1. CASE Start(c) BY <2>1, PartySame DEF Start, Transact, Met
  <2>2. CASE Resend(c) BY <2>2, PartyUnmoved DEF Resend
  <2>3. CASE Receive(c) BY <2>3, ReceiveP
  <2>4. CASE Accept(c)
    <3>1. PICK d \in Clients : conn[d] = c /\ conn' = [conn EXCEPT ![c] = d]
      BY <2>4 DEF Accept, Backlog
    <3>2. Match(d, c)
      <4>1. Match(c, d) BY <3>1, TalkAssumption DEF PInv, Party
      <4> QED BY <4>1 DEF Match
    <3>3. /\ pc'[c] = "dellocal" /\ conn'[c] = d /\ pc[c] = "accept"
          /\ \A e \in Clients \ {c} : pc'[e] = pc[e] /\ conn'[e] = conn[e]
      BY <2>4, <3>1 DEF PInv, Typed, TypeOK, Accept, Transact
    <3>4. d # None /\ pc[c] \notin Met BY <3>3, TalkAssumption DEF Met
    <3> QED BY <3>2, <3>3, <3>4, PartyStep
  <2>5. CASE ReInvite(c) BY <2>5, PartySame DEF ReInvite, Transact, Met
  <2>6. CASE EditChars(c)
    <3>1. /\ pc[c] = "edit" /\ conn[conn[c]] = c /\ pc[conn[c]] \in Met
          /\ pc' = [pc EXCEPT ![c] = "talk"] /\ UNCHANGED conn
      BY <2>6 DEF EditChars, Becomes, Met
    <3>2. pc'[c] = "talk" /\ \A d \in Clients \ {c} : pc'[d] = pc[d] BY <3>1 DEF PInv, Typed, TypeOK
    <3>3. "talk" \in Met BY DEF Met
    <3>4. Party(c) BY DEF PInv
    <3> QED BY <3>1, <3>2, <3>3, <3>4, PartyStep DEF Party
  <2>7. CASE Lost(c) BY <2>7, PartySame DEF Lost, Quit, Met
  <2>8. CASE Interrupt(c) BY <2>8, PartySame DEF Interrupt, Quit, Met
  <2> QED BY <2>1, <2>2, <2>3, <2>4, <2>5, <2>6, <2>7, <2>8 DEF Client
<1> QED BY <1>0, <1>1, <1>2 DEF PInv

LEMMA NextP == ASSUME PInv, [Next]_vars PROVE PInv'
<1>0. Typed' BY NextT DEF PInv
<1>1. CASE UNCHANGED vars
  BY <1>0, <1>1, LookUpsKept, PartyUnmoved DEF PInv, vars, netvars, clientvars
<1>2. CASE Tick
  <2>1. resps' \subseteq resps /\ UNCHANGED <<pc, conn>> BY <1>2 DEF Tick
  <2> QED BY <1>0, <2>1, LookUpsKept, PartyUnmoved DEF PInv
<1>3. ASSUME NEW h \in Hosts, Exit(h) PROVE PInv'
  <2>1. resps' \subseteq resps /\ UNCHANGED <<pc, conn>> BY <1>3 DEF Exit, netvars, clientvars
  <2> QED BY <1>0, <2>1, LookUpsKept, PartyUnmoved DEF PInv
<1>4. ASSUME NEW h \in Hosts, NEW q \in reqs, Process(h, q) PROVE PInv'
  <2>1. PICK u, m, r : Serves(h, q, u, m, r) BY <1>4, ProcessF DEF PInv, Typed
  <2>2. /\ resps' \subseteq resps \cup {r} /\ r.to = q.from /\ r.type = q.type
        /\ q.type = "LOOK_UP" /\ r.success => Match(r.addr, q.from)
    BY <2>1, ReadableIn DEF Serves, Sound, Match
  <2>3. LookUpsOK' BY <2>2 DEF PInv, LookUpsOK, Match
  <2>4. UNCHANGED <<pc, conn>> BY <1>4 DEF Process, clientvars
  <2> QED BY <1>0, <2>3, <2>4, PartyUnmoved DEF PInv
<1> QED BY <1>1, <1>2, <1>3, <1>4, ClientP DEF Next, Daemon

LEMMA InitP == Init => PInv
<1> SUFFICES ASSUME Init PROVE PInv OBVIOUS
<1>1. Typed BY InitT
<1>2. LookUpsOK BY DEF Init, LookUpsOK
<1>3. \A c \in Clients : pc[c] = "off" /\ conn[c] = None BY DEF Init
<1>4. \A c \in Clients : Party(c) BY <1>3 DEF Party
<1> QED BY <1>1, <1>2, <1>4 DEF PInv

\* Two processes that talk were called by each other's users and are connected
\* to each other, for any users, machines and processes, whatever datagrams are
\* lost, repeated or late.
THEOREM RightPartyCorrect == Spec => []RightParty
<1>1. PInv => RightParty
  <2> SUFFICES ASSUME PInv, NEW c \in Clients, pc[c] = "talk"
               PROVE  Me[conn[c]] = Peer[c] /\ Peer[conn[c]] = Me[c] /\ conn[conn[c]] = c
    BY DEF RightParty
  <2>1. Party(c) BY DEF PInv
  <2> QED BY <2>1 DEF Party, Match
<1>2. PInv /\ [Next]_vars => PInv' BY NextP
<1> QED BY <1>1, <1>2, InitP, PTL DEF Spec
-----------------------------------------------------------------------------
(* Numbers.                                                                *)

\* No daemon has given out its last number: with the next one new_id() would
\* begin again at 1.
Unworn == \A h \in Hosts : currentId[h] < MaxId - 1

Numbers == \A h \in Hosts : Below(table[h], currentId[h]) /\ Distinct(table[h])

LEMMA NoEntries == Range(<<>>) = {} /\ \A n : Below(<<>>, n) /\ Distinct(<<>>)
BY DEF Range, Below, Distinct

LEMMA ExitFacts ==
  ASSUME Typed, NEW h \in Hosts, Exit(h)
  PROVE  /\ table'[h] = <<>> /\ currentId'[h] = 0 /\ idle'[h] = 0 /\ idle[h] >= MaxIdle
         /\ \A g \in Hosts \ {h} :
              table'[g] = table[g] /\ currentId'[g] = currentId[g] /\ idle'[g] = idle[g]
         /\ UNCHANGED <<reqs, resps, pc, msgId, localId, remoteId, conn, due, blocked>>
BY DEF Typed, TypeOK, Exit, Idle, netvars, clientvars

LEMMA ServesFacts ==
  ASSUME Typed, Numbers, Unworn, NEW h \in Hosts, NEW q \in reqs, Process(h, q),
         NEW u, NEW m, NEW r, Serves(h, q, u, m, r)
  PROVE  /\ table'[h] = u /\ currentId'[h] = m /\ idle'[h] = 0
         /\ \A g \in Hosts \ {h} :
              table'[g] = table[g] /\ currentId'[g] = currentId[g] /\ idle'[g] = idle[g]
         /\ Orderly(table[h], currentId[h], q, u, m, r) /\ Sound(q, u, m, r)
         /\ reqs' \subseteq reqs /\ resps' \subseteq resps \cup {r}
         /\ UNCHANGED <<pc, msgId, localId, remoteId, conn, due, blocked>>
<1>1. Early(table[h], currentId[h]) BY DEF Numbers, Unworn, Early
<1>2. /\ table' = [table EXCEPT ![h] = u] /\ currentId' = [currentId EXCEPT ![h] = m]
      /\ Orderly(table[h], currentId[h], q, u, m, r) /\ Sound(q, u, m, r)
      /\ resps' \subseteq resps \cup {r}
  BY <1>1, ReadableIn DEF Serves
<1>3. idle' = [idle EXCEPT ![h] = 0] /\ reqs' \subseteq reqs /\ UNCHANGED clientvars BY DEF Process
<1>4. DOMAIN table = Hosts /\ DOMAIN currentId = Hosts /\ DOMAIN idle = Hosts BY DEF Typed, TypeOK
<1> QED BY <1>2, <1>3, <1>4 DEF clientvars

LEMMA ClientKeeps ==
  ASSUME NEW c \in Clients, Client(c) PROVE UNCHANGED <<table, currentId, idle>>
<1>1. CASE Start(c) \/ Resend(c) \/ Accept(c) BY <1>1 DEF Start, Resend, Accept, daemonvars
<1>2. CASE ReInvite(c) \/ EditChars(c) \/ Lost(c) BY <1>2 DEF ReInvite, EditChars, Lost, daemonvars
<1>3. CASE Receive(c) \/ Interrupt(c) BY <1>3 DEF Receive, Interrupt, daemonvars
<1> QED BY <1>1, <1>2, <1>3 DEF Client

LEMMA NextN == ASSUME Typed, Numbers, Unworn, [Next]_vars PROVE Numbers'
<1>1. CASE UNCHANGED <<table, currentId>> BY <1>1 DEF Numbers
<1>2. ASSUME NEW h \in Hosts, Exit(h) PROVE Numbers'
  <2>1. ASSUME NEW g \in Hosts PROVE (Below(table[g], currentId[g]) /\ Distinct(table[g]))'
    BY <1>2, ExitFacts, NoEntries DEF Numbers
  <2> QED BY <2>1 DEF Numbers
<1>3. ASSUME NEW h \in Hosts, NEW q \in reqs, Process(h, q) PROVE Numbers'
  <2>1. PICK u, m, r : Serves(h, q, u, m, r) BY <1>3, ProcessF DEF Typed
  <2>2. /\ table'[h] = u /\ currentId'[h] = m /\ Below(u, m) /\ Distinct(u)
        /\ \A g \in Hosts \ {h} : table'[g] = table[g] /\ currentId'[g] = currentId[g]
    BY <1>3, <2>1, ServesFacts DEF Orderly
  <2> QED BY <2>2 DEF Numbers
<1>4. CASE \E c \in Clients : Client(c)
  BY <1>1, <1>4, ClientKeeps
<1>5. CASE Tick BY <1>1, <1>5 DEF Tick
<1>6. CASE UNCHANGED vars BY <1>1, <1>6 DEF vars, daemonvars
<1> QED BY <1>2, <1>3, <1>4, <1>5, <1>6 DEF Next, Daemon

LEMMA InitN == Init => Numbers
<1> SUFFICES ASSUME Init PROVE Numbers OBVIOUS
<1>1. \A h \in Hosts : table[h] = <<>> BY DEF Init
<1> QED BY <1>1, NoEntries DEF Numbers

-----------------------------------------------------------------------------
(* The invitation of a process that waits.                                 *)

Own(c) == HostOf[Me[c]]
Other(c) == HostOf[Peer[c]]

Listens == {"announce", "leave", "accept"}
Past == {"dellocal", "delremote", "edit", "talk", "quit"}
Called == Listens \cup Past
Calling == Listens \cup {"dellocal", "delremote"}

\* Number n of the daemon at h is given out, and can only be that of an entry
\* of this type by c.
Of(h, n, type, c) ==
    n <= currentId[h] /\ \A e \in Range(table[h]) : e.id = n => e.type = type /\ e.by = c
\* Number n may be deleted at h: whoever left the invitation is past accept().
Doomed(h, n) ==
    /\ n <= currentId[h]
    /\ \A e \in Range(table[h]) : e.id = n /\ e.type = "LEAVE_INVITE" => pc[e.by] \in Past
Holds(c, n) == Entered(table[Own(c)], "LEAVE_INVITE", c, n)

Entries == \A h \in Hosts : \A e \in Range(table[h]) : e.type = "LEAVE_INVITE" => pc[e.by] \in Called
GoodReq(q) ==
    /\ q.type \in {"LOOK_UP", "ANNOUNCE"} => q.to = Other(q.from)
    /\ q.type = "LEAVE_INVITE" => q.to = Own(q.from) /\ pc[q.from] \in Called
    /\ q.type = "DELETE" => Doomed(q.to, q.id) /\ (q.id # 0 => idle[q.to] <= 1)
GoodResp(r) ==
    /\ r.type = "ANNOUNCE" => Of(Other(r.to), r.id, "ANNOUNCE", r.to) /\ idle[Other(r.to)] = 0
    /\ r.type = "LEAVE_INVITE" => /\ Of(Own(r.to), r.id, "LEAVE_INVITE", r.to)
                                  /\ idle[Own(r.to)] = 0 /\ pc[r.to] \in Called
                                  /\ pc[r.to] \in Listens => Holds(r.to, r.id)
    /\ r.type = "LOOK_UP" /\ r.success => /\ Of(Other(r.to), r.id, "LEAVE_INVITE", r.addr)
                                          /\ idle[Other(r.to)] = 0
                                          /\ r.addr \in Clients /\ pc[r.addr] \in Called

\* The numbers a process has are those of its own entries, and the daemons
\* that gave them have not been idle for two periods.
Refs(c) ==
    pc[c] \in Calling =>
      /\ Of(Own(c), localId[c], "LEAVE_INVITE", c) /\ Of(Other(c), remoteId[c], "ANNOUNCE", c)
      /\ localId[c] # 0 => idle[Own(c)] <= 1
      /\ remoteId[c] # 0 => idle[Other(c)] <= 1
Waits(c) ==
    /\ pc[c] = "leave" => idle[Other(c)] = 0
    /\ pc[c] = "accept" /\ c \notin due => idle[Own(c)] = 0 /\ idle[Other(c)] = 0
    /\ pc[c] = "accept" => Holds(c, localId[c])
Deletes(c) ==
    /\ pc[c] = "dellocal" => msgId[c] = localId[c]
    /\ pc[c] = "delremote" => msgId[c] = remoteId[c]
    /\ pc[c] = "delstale" => Doomed(Other(c), msgId[c]) /\ idle[Other(c)] = 0
    /\ pc[c] \in {"off", "lookup", "delstale"} => localId[c] = 0 /\ remoteId[c] = 0
Kept(c) == Refs(c) /\ Waits(c) /\ Deletes(c)

Datagrams == (\A q \in reqs : GoodReq(q)) /\ (\A r \in resps : GoodResp(r))
KInv == Typed /\ Numbers /\ Entries /\ Datagrams /\ (\A c \in Clients : Kept(c)) /\ blocked = {}

LEMMA Machines == \A c \in Clients : Own(c) \in Hosts /\ Other(c) \in Hosts
BY TalkAssumption DEF Own, Other

LEMMA PlaceFacts ==
  /\ Listens \subseteq Called /\ Past \subseteq Called /\ Listens \subseteq Calling
  /\ Calling \subseteq Called
  /\ \A p : p \in Listens => p \notin Past
  /\ \A p : p \in Called /\ p \notin Listens => p \in Past
BY DEF Listens, Past, Called, Calling

LEMMA Ranges ==
  ASSUME Typed
  PROVE  /\ \A h \in Hosts : /\ table[h] \in Seq(Entry) /\ currentId[h] \in Nat
                             /\ idle[h] \in Nat
         /\ \A h \in Hosts : \A e \in Range(table[h]) : e.by \in Clients /\ e.id \in Nat \ {0}
         /\ \A q \in reqs : q.to \in Hosts /\ q.from \in Clients /\ q.id \in Nat /\ q.type \in Types
         /\ \A r \in resps : r.to \in Clients /\ r.id \in Nat
         /\ \A c \in Clients : localId[c] \in Nat /\ remoteId[c] \in Nat /\ msgId[c] \in Nat
<1>1. MaxId \in Nat /\ MaxIdle \in Nat BY TalkAssumption
<1>2. \A i \in Ids : i \in Nat BY <1>1 DEF Ids
<1>3. \A h \in Hosts : table[h] \in Seq(Entry) /\ currentId[h] \in Nat /\ idle[h] \in Nat
  BY <1>1 DEF Typed, TypeOK
<1>4. \A h \in Hosts : \A e \in Range(table[h]) : e.by \in Clients /\ e.id \in Nat \ {0}
  <2> SUFFICES ASSUME NEW h \in Hosts, NEW e \in Range(table[h])
               PROVE  e.by \in Clients /\ e.id \in Nat \ {0}
    OBVIOUS
  <2>1. e \in Entry /\ e.id \in 1 .. MaxId - 1 BY <1>3, IdInt
  <2> QED BY <2>1, <1>1 DEF Entry
<1>5. \A q \in reqs : q.to \in Hosts /\ q.from \in Clients /\ q.id \in Nat /\ q.type \in Types
  BY <1>2 DEF Typed, TypeOK, Request
<1>6. \A r \in resps : r.to \in Clients /\ r.id \in Nat BY <1>2 DEF Typed, TypeOK, Response
<1>7. \A c \in Clients : localId[c] \in Nat /\ remoteId[c] \in Nat /\ msgId[c] \in Nat
  BY <1>2 DEF Typed, TypeOK
<1> QED BY <1>3, <1>4, <1>5, <1>6, <1>7

LEMMA EnteredOf ==
  ASSUME NEW t \in Seq(Entry), NEW n, Below(t, n), Distinct(t), NEW type, NEW by, NEW id,
         Entered(t, type, by, id)
  PROVE  id <= n /\ \A e \in Range(t) : e.id = id => e.type = type /\ e.by = by
<1>1. PICK f \in Range(t) : f.type = type /\ f.by = by /\ f.id = id BY DEF Entered
<1>2. id <= n BY <1>1 DEF Below
<1>3. ASSUME NEW e \in Range(t), e.id = id PROVE e = f
  <2>1. PICK i \in 1 .. Len(t) : t[i] = e BY InTable
  <2>2. PICK j \in 1 .. Len(t) : t[j] = f BY InTable
  <2> QED BY <1>1, <1>3, <2>1, <2>2, InTable DEF Distinct
<1> QED BY <1>1, <1>2, <1>3

-----------------------------------------------------------------------------
(* A request is served.                                                    *)

\* What a daemon that serves a request leaves alone.
Steady(h, q) ==
    /\ \A n, type, d : n \in Nat => \A g \in Hosts : Of(g, n, type, d) => Of(g, n, type, d)'
    /\ \A n : n \in Nat => \A g \in Hosts : Doomed(g, n) => Doomed(g, n)'
    /\ \A c \in Clients : \A n : pc[c] \in Listens /\ Holds(c, n) => Holds(c, n)'
    /\ \A g \in Hosts : idle'[g] \in Nat /\ idle'[g] <= idle[g]

LEMMA ServedSteady ==
  ASSUME KInv, Unworn, NEW h \in Hosts, NEW q \in reqs, Process(h, q),
         NEW u, NEW m, NEW r, Serves(h, q, u, m, r)
  PROVE  Steady(h, q) /\ Entries'
<1> DEFINE t == table[h]
           k == currentId[h]
<1>1. Typed /\ Numbers /\ Entries /\ GoodReq(q) BY DEF KInv, Datagrams
<1>2. /\ table'[h] = u /\ currentId'[h] = m /\ idle'[h] = 0
      /\ \A g \in Hosts \ {h} :
           table'[g] = table[g] /\ currentId'[g] = currentId[g] /\ idle'[g] = idle[g]
      /\ Orderly(t, k, q, u, m, r) /\ Sound(q, u, m, r) /\ pc' = pc
  BY <1>1, ServesFacts
<1>3. t \in Seq(Entry) /\ k \in Nat /\ (\A g \in Hosts : idle[g] \in Nat)
      /\ \A e \in Range(t) : e.by \in Clients /\ e.id \in Nat
  BY <1>1, Ranges
<1>4. u \in Seq(Entry) /\ m \in Nat /\ k <= m BY <1>2, TalkAssumption DEF Sound, Orderly
<1>5. \A e \in Range(u) : e.id \in Nat /\ (e \in Range(t) \/ (e.id > k /\ e.type = q.type /\ e.by = q.from))
  BY <1>2, <1>4, IdInt, TalkAssumption DEF Orderly
<1> HIDE DEF t, k
<1>t. t = table[h] /\ k = currentId[h] BY DEF t, k
<1>6. ASSUME NEW n \in Nat, n <= k, NEW e \in Range(u), e.id = n PROVE e \in Range(t)
  BY <1>3, <1>5, <1>6
<1>7. ASSUME NEW n \in Nat, NEW type, NEW d, NEW g \in Hosts, Of(g, n, type, d)
      PROVE  Of(g, n, type, d)'
  <2>1. CASE g # h BY <1>2, <1>7, <2>1 DEF Of
  <2>2. CASE g = h
    <3>1. n <= k /\ \A e \in Range(t) : e.id = n => e.type = type /\ e.by = d
      BY <1>7, <2>2, <1>t DEF Of
    <3>2. n <= m BY <3>1, <1>3, <1>4
    <3>3. \A e \in Range(u) : e.id = n => e.type = type /\ e.by = d BY <3>1, <1>6
    <3> QED BY <1>2, <2>2, <3>2, <3>3 DEF Of
  <2> QED BY <2>1, <2>2
<1>8. ASSUME NEW n \in Nat, NEW g \in Hosts, Doomed(g, n) PROVE Doomed(g, n)'
  <2>1. CASE g # h BY <1>2, <1>8, <2>1 DEF Doomed
  <2>2. CASE g = h
    <3>1. n <= k /\ \A e \in Range(t) : e.id = n /\ e.type = "LEAVE_INVITE" => pc[e.by] \in Past
      BY <1>8, <2>2, <1>t DEF Doomed
    <3>2. n <= m BY <3>1, <1>3, <1>4
    <3>3. \A e \in Range(u) : e.id = n /\ e.type = "LEAVE_INVITE" => pc[e.by] \in Past BY <3>1, <1>6
    <3> QED BY <1>2, <2>2, <3>2, <3>3 DEF Doomed
  <2> QED BY <2>1, <2>2
<1>9. ASSUME NEW c \in Clients, NEW n, pc[c] \in Listens, Holds(c, n) PROVE Holds(c, n)'
  <2>0. Own(c) \in Hosts BY Machines
  <2>1. CASE Own(c) # h BY <1>2, <1>9, <2>0, <2>1 DEF Holds
  <2>2. CASE Own(c) = h
    <3>1. PICK e \in Range(t) : e.type = "LEAVE_INVITE" /\ e.by = c /\ e.id = n
      BY <1>9, <2>2, <1>t DEF Holds, Entered
    <3>2. e \in Range(u) \/ (q.type = "DELETE" /\ e.id = q.id) BY <1>2, <3>1 DEF Orderly
    <3>3. ~(q.type = "DELETE" /\ e.id = q.id)
      <4> SUFFICES ASSUME q.type = "DELETE", e.id = q.id PROVE FALSE OBVIOUS
      <4>1. q.to = h BY ProcessF, <1>1 DEF Typed
      <4>2. Doomed(h, q.id) BY <1>1, <4>1 DEF GoodReq
      <4>3. pc[c] \in Past BY <4>2, <3>1, <1>t DEF Doomed
      <4> QED BY <4>3, <1>9, PlaceFacts
    <3> QED BY <1>2, <2>2, <3>1, <3>2, <3>3 DEF Holds, Entered
  <2> QED BY <2>1, <2>2
<1>10. \A g \in Hosts : idle'[g] \in Nat /\ idle'[g] <= idle[g]
  <2> SUFFICES ASSUME NEW g \in Hosts PROVE idle'[g] \in Nat /\ idle'[g] <= idle[g] OBVIOUS
  <2>1. idle'[g] = 0 \/ idle'[g] = idle[g] BY <1>2
  <2> QED BY <2>1, <1>3
<1>11. Entries'
  <2> SUFFICES ASSUME NEW g \in Hosts, NEW e \in Range(table'[g]), e.type = "LEAVE_INVITE"
               PROVE  pc'[e.by] \in Called
    BY DEF Entries
  <2>1. CASE g # h \/ e \in Range(t) BY <1>1, <1>2, <1>t, <2>1 DEF Entries
  <2>2. CASE g = h /\ e \notin Range(t)
    <3>1. e.type = q.type /\ e.by = q.from BY <1>2, <1>5, <2>2
    <3> QED BY <1>1, <1>2, <3>1 DEF GoodReq
  <2> QED BY <2>1, <2>2
<1> QED BY <1>7, <1>8, <1>9, <1>10, <1>11 DEF Steady
LEMMA ReqSteady ==
  ASSUME KInv, NEW h, NEW q, Steady(h, q), UNCHANGED pc, NEW x \in reqs PROVE GoodReq(x)'
<1>1. GoodReq(x) /\ x.to \in Hosts /\ x.id \in Nat /\ (\A g \in Hosts : idle[g] \in Nat)
  BY Ranges DEF KInv, Datagrams
<1>2. Doomed(x.to, x.id) => Doomed(x.to, x.id)' BY <1>1 DEF Steady
<1>3. idle[x.to] <= 1 => idle'[x.to] <= 1 BY <1>1 DEF Steady
<1> QED BY <1>1, <1>2, <1>3 DEF GoodReq

LEMMA RespSteady ==
  ASSUME KInv, NEW h, NEW q, Steady(h, q), UNCHANGED pc, NEW x \in resps PROVE GoodResp(x)'
<1>1. GoodResp(x) /\ x.to \in Clients /\ x.id \in Nat /\ (\A g \in Hosts : idle[g] \in Nat)
  BY Ranges DEF KInv, Datagrams
<1>2. Own(x.to) \in Hosts /\ Other(x.to) \in Hosts BY <1>1, Machines
<1>3. \A g \in Hosts : idle[g] = 0 => idle'[g] = 0 BY <1>1 DEF Steady
<1>4. \A type, d : \A g \in Hosts : Of(g, x.id, type, d) => Of(g, x.id, type, d)' BY <1>1 DEF Steady
<1>5. pc[x.to] \in Listens /\ Holds(x.to, x.id) => Holds(x.to, x.id)' BY <1>1 DEF Steady
<1> QED BY <1>1, <1>2, <1>3, <1>4, <1>5 DEF GoodResp

LEMMA KeptSteady ==
  ASSUME KInv, NEW h, NEW q, Steady(h, q), UNCHANGED <<pc, msgId, localId, remoteId, due>>,
         NEW c \in Clients
  PROVE  Kept(c)'
<1>1. /\ Kept(c) /\ (\A g \in Hosts : idle[g] \in Nat)
      /\ localId[c] \in Nat /\ remoteId[c] \in Nat /\ msgId[c] \in Nat
  BY Ranges DEF KInv
<1>2. Own(c) \in Hosts /\ Other(c) \in Hosts BY Machines
<1>3. \A g \in Hosts : (idle[g] = 0 => idle'[g] = 0) /\ (idle[g] <= 1 => idle'[g] <= 1)
  BY <1>1 DEF Steady
<1>4. Refs(c)'
  <2>1. \A n, type, d : n \in Nat => \A g \in Hosts : Of(g, n, type, d) => Of(g, n, type, d)'
    BY DEF Steady
  <2> QED BY <1>1, <1>2, <1>3, <2>1 DEF Kept, Refs
<1>5. Waits(c)'
  <2>1. pc[c] = "accept" /\ Holds(c, localId[c]) => Holds(c, localId[c])'
    BY DEF Steady, Listens
  <2> QED BY <1>1, <1>2, <1>3, <2>1 DEF Kept, Waits
<1>6. Deletes(c)'
  <2>1. Doomed(Other(c), msgId[c]) => Doomed(Other(c), msgId[c])' BY <1>1, <1>2 DEF Steady
  <2> QED BY <1>1, <1>2, <1>3, <2>1 DEF Kept, Deletes
<1> QED BY <1>4, <1>5, <1>6 DEF Kept

LEMMA OfNone ==
  ASSUME Typed, NEW h \in Hosts, NEW type, NEW c PROVE Of(h, 0, type, c) /\ Doomed(h, 0)
<1>1. currentId[h] \in Nat /\ \A e \in Range(table[h]) : e.id # 0 BY Ranges
<1>2. 0 <= currentId[h] BY <1>1
<1> QED BY <1>1, <1>2 DEF Of, Doomed

LEMMA ServedK == ASSUME KInv, Unworn, NEW h \in Hosts, NEW q \in reqs, Process(h, q) PROVE KInv'
<1>0. Typed /\ Numbers /\ GoodReq(q) BY DEF KInv, Datagrams
<1>1. q \in Request /\ q.to = h BY <1>0, ProcessF DEF Typed
<1>2. PICK u, m, r : Serves(h, q, u, m, r) BY <1>0, ProcessF DEF Typed
<1>3. Steady(h, q) /\ Entries' BY <1>2, ServedSteady
<1>4. Typed' /\ Numbers' BY <1>0, NextT, NextN DEF Next, Daemon
<1>5. /\ table'[h] = u /\ currentId'[h] = m /\ idle'[h] = 0
      /\ Orderly(table[h], currentId[h], q, u, m, r) /\ Sound(q, u, m, r)
      /\ reqs' \subseteq reqs /\ resps' \subseteq resps \cup {r}
      /\ UNCHANGED <<pc, msgId, localId, remoteId, conn, due, blocked>>
  BY <1>0, <1>2, ServesFacts
<1>6. /\ r.to = q.from /\ r.type = q.type /\ q.from \in Clients
      /\ u \in Seq(Entry) /\ Below(u, m) /\ Distinct(u) /\ m \in Nat
  BY <1>1, <1>5, TalkAssumption DEF Sound, Orderly, Request
<1>7. \A type, by, id : Entered(u, type, by, id) => Of(h, id, type, by)'
  BY <1>5, <1>6, EnteredOf DEF Of
<1>8. \A type, by : Of(h, 0, type, by)'
  <2>1. \A e \in Range(u) : e.id # 0 BY <1>6, IdInt
  <2>2. 0 <= m BY <1>6
  <2> QED BY <1>5, <2>1, <2>2 DEF Of
<1>9. GoodResp(r)'
  <2>1. CASE r.type = "ANNOUNCE"
    <3>1. Other(r.to) = h BY <1>0, <1>1, <1>6, <2>1 DEF GoodReq
    <3>2. Of(h, r.id, "ANNOUNCE", r.to)' BY <1>5, <1>6, <1>7, <1>8, <2>1 DEF Orderly
    <3> QED BY <1>5, <2>1, <3>1, <3>2 DEF GoodResp
  <2>2. CASE r.type = "LEAVE_INVITE"
    <3>1. Own(r.to) = h /\ pc[r.to] \in Called BY <1>0, <1>1, <1>6, <2>2 DEF GoodReq
    <3>2. Entered(u, "LEAVE_INVITE", r.to, r.id) BY <1>5, <1>6, <2>2 DEF Orderly
    <3>3. Of(h, r.id, "LEAVE_INVITE", r.to)' /\ Holds(r.to, r.id)'
      BY <1>5, <1>7, <3>1, <3>2 DEF Holds
    <3> QED BY <1>5, <2>2, <3>1, <3>3 DEF GoodResp
  <2>3. CASE r.type = "LOOK_UP" /\ r.success
    <3>1. Other(r.to) = h BY <1>0, <1>1, <1>6, <2>3 DEF GoodReq
    <3>2. Entered(u, "LEAVE_INVITE", r.addr, r.id) BY <1>5, <1>6, <2>3 DEF Orderly
    <3>3. Of(h, r.id, "LEAVE_INVITE", r.addr)' BY <1>7, <3>2
    <3>4. pc'[r.addr] \in Called BY <1>3, <1>5, <3>2 DEF Entries, Entered
    <3>5. r.addr \in Clients BY <1>5, <1>6, <2>3 DEF Sound
    <3> QED BY <1>5, <2>3, <3>1, <3>3, <3>4, <3>5 DEF GoodResp
  <2>4. CASE r.type \notin {"ANNOUNCE", "LEAVE_INVITE"} /\ ~(r.type = "LOOK_UP" /\ r.success)
    BY <2>4 DEF GoodResp
  <2> QED BY <2>1, <2>2, <2>3, <2>4
<1>10. Datagrams'
  <2>1. \A x \in reqs' : GoodReq(x)' BY <1>3, <1>5, ReqSteady
  <2>2. \A x \in resps : GoodResp(x)' BY <1>3, <1>5, RespSteady
  <2> QED BY <1>5, <1>9, <2>1, <2>2 DEF Datagrams
<1>11. \A c \in Clients : Kept(c)' BY <1>3, <1>5, KeptSteady
<1>12. blocked' = {} BY <1>5 DEF KInv
<1> QED BY <1>3, <1>4, <1>10, <1>11, <1>12 DEF KInv

-----------------------------------------------------------------------------
(* A daemon exits, and a period passes.                                    *)

\* A daemon that exits has given out no number that anybody still has.
LEMMA ExitK ==
  ASSUME KInv, Unworn, MaxIdle > 1, NEW h \in Hosts, Exit(h) PROVE KInv'
<1>0. Typed /\ Numbers BY DEF KInv
<1>1. /\ table'[h] = <<>> /\ currentId'[h] = 0 /\ idle'[h] = 0 /\ idle[h] >= MaxIdle
      /\ \A g \in Hosts \ {h} :
           table'[g] = table[g] /\ currentId'[g] = currentId[g] /\ idle'[g] = idle[g]
      /\ UNCHANGED <<reqs, resps, pc, msgId, localId, remoteId, conn, due, blocked>>
  BY <1>0, ExitFacts
<1>2. Typed' /\ Numbers' BY <1>0, NextT, NextN DEF Next, Daemon
<1>3. idle[h] # 0 /\ ~(idle[h] <= 1) BY <1>0, <1>1, Ranges, TalkAssumption
<1>4. \A type, c : Of(h, 0, type, c)' BY <1>1, NoEntries DEF Of
<1>5. Doomed(h, 0)' BY <1>1, NoEntries DEF Doomed
<1>6. Entries' BY <1>1, NoEntries DEF KInv, Entries
<1>7. ASSUME NEW q \in reqs PROVE GoodReq(q)'
  <2>1. GoodReq(q) /\ q.to \in Hosts BY <1>0, Ranges, <1>7 DEF KInv, Datagrams
  <2>2. CASE q.to # h BY <1>1, <2>1, <2>2 DEF GoodReq, Doomed
  <2>3. CASE q.to = h
    <3>1. q.type = "DELETE" => q.id = 0 BY <1>3, <2>1, <2>3 DEF GoodReq
    <3> QED BY <1>1, <1>5, <2>1, <2>3, <3>1 DEF GoodReq
  <2> QED BY <2>2, <2>3
<1>8. ASSUME NEW r \in resps PROVE GoodResp(r)'
  <2>1. GoodResp(r) /\ r.to \in Clients BY <1>0, Ranges, <1>8 DEF KInv, Datagrams
  <2>2. Own(r.to) \in Hosts /\ Other(r.to) \in Hosts BY <2>1, Machines
  <2>3. \A g \in Hosts : idle[g] = 0 => g # h BY <1>3
  <2> QED BY <1>1, <2>1, <2>2, <2>3 DEF GoodResp, Of, Holds
<1>9. ASSUME NEW c \in Clients PROVE Kept(c)'
  <2>1. Kept(c) BY DEF KInv
  <2>2. Own(c) \in Hosts /\ Other(c) \in Hosts BY Machines
  <2>3. Refs(c)'
    <3> SUFFICES ASSUME pc[c] \in Calling PROVE Refs(c)' BY <1>1 DEF Refs
    <3>1. Refs(c) BY <2>1 DEF Kept
    <3>2. Of(Own(c), localId[c], "LEAVE_INVITE", c)' /\ (localId'[c] # 0 => idle'[Own(c)] <= 1)
      <4>1. CASE Own(c) # h BY <1>1, <2>2, <3>1, <4>1 DEF Refs, Of
      <4>2. CASE Own(c) = h
        <5>1. localId[c] = 0 BY <1>3, <3>1, <4>2 DEF Refs
        <5> QED BY <1>1, <1>4, <4>2, <5>1
      <4> QED BY <4>1, <4>2
    <3>3. Of(Other(c), remoteId[c], "ANNOUNCE", c)' /\ (remoteId'[c] # 0 => idle'[Other(c)] <= 1)
      <4>1. CASE Other(c) # h BY <1>1, <2>2, <3>1, <4>1 DEF Refs, Of
      <4>2. CASE Other(c) = h
        <5>1. remoteId[c] = 0 BY <1>3, <3>1, <4>2 DEF Refs
        <5> QED BY <1>1, <1>4, <4>2, <5>1
      <4> QED BY <4>1, <4>2
    <3> QED BY <3>2, <3>3 DEF Refs
  <2>4. Waits(c)'
    <3>1. \A g \in Hosts : idle[g] = 0 => idle'[g] = 0 BY <1>1
    <3>2. pc[c] = "accept" => Holds(c, localId[c])'
      <4> SUFFICES ASSUME pc[c] = "accept" PROVE Holds(c, localId[c])' OBVIOUS
      <4>1. Refs(c) /\ Holds(c, localId[c]) BY <2>1 DEF Kept, Waits
      <4>2. localId[c] # 0 BY <4>1, <2>2, <1>0, Ranges DEF Holds, Entered
      <4>3. idle[Own(c)] <= 1 BY <4>1, <4>2 DEF Refs, Calling, Listens
      <4>4. Own(c) # h BY <4>3, <1>3
      <4> QED BY <1>1, <2>2, <4>1, <4>4 DEF Holds
    <3> QED BY <1>1, <2>1, <2>2, <3>1, <3>2 DEF Kept, Waits
  <2>5. Deletes(c)'
    <3>1. pc[c] = "delstale" => Doomed(Other(c), msgId[c])' /\ idle'[Other(c)] = 0
      <4> SUFFICES ASSUME pc[c] = "delstale"
                   PROVE  Doomed(Other(c), msgId[c])' /\ idle'[Other(c)] = 0
        OBVIOUS
      <4>1. Doomed(Other(c), msgId[c]) /\ idle[Other(c)] = 0 BY <2>1 DEF Kept, Deletes
      <4>2. Other(c) # h BY <4>1, <1>3
      <4> QED BY <1>1, <2>2, <4>1, <4>2 DEF Doomed
    <3> QED BY <1>1, <2>1, <3>1 DEF Kept, Deletes
  <2> QED BY <2>3, <2>4, <2>5 DEF Kept
<1>10. blocked' = {} BY <1>1 DEF KInv
<1> QED BY <1>1, <1>2, <1>6, <1>7, <1>8, <1>9, <1>10 DEF KInv, Datagrams

LEMMA TickK == ASSUME KInv, Unworn, Tick PROVE KInv'
<1>0. Typed /\ Numbers /\ Entries BY DEF KInv
<1>1. /\ UNCHANGED <<table, currentId, pc, msgId, localId, remoteId, conn, blocked>>
      /\ reqs' = {} /\ resps' = {}
      /\ due = {} /\ \A c \in Clients : ~Transacting(c)
      /\ due' = {c \in Clients \ blocked : pc[c] = "accept"}
      /\ idle' = [h \in Hosts |-> idle[h] + 1]
  BY DEF Tick
<1>2. Typed' /\ Numbers' BY <1>0, NextT, NextN DEF Next
<1>3. Entries' BY <1>0, <1>1 DEF Entries
<1>4. Datagrams' BY <1>1 DEF Datagrams
<1>5. ASSUME NEW c \in Clients PROVE Kept(c)'
  <2>1. Kept(c) /\ blocked = {} BY DEF KInv
  <2>2. pc[c] \notin Phases BY <1>1, PhaseFacts DEF Transacting
  <2>3. Own(c) \in Hosts /\ Other(c) \in Hosts BY Machines
  <2>4. pc[c] = "accept" => c \in due' BY <1>1, <2>1
  <2>5. pc[c] \in Calling => pc[c] = "accept" BY <2>2 DEF Phases, Calling, Listens
  <2>6. pc[c] = "accept" => idle[Own(c)] = 0 /\ idle[Other(c)] = 0
    BY <1>1, <2>1 DEF Kept, Waits
  <2>7. pc[c] = "accept" => idle'[Own(c)] <= 1 /\ idle'[Other(c)] <= 1
    <3>1. pc[c] = "accept" => idle'[Own(c)] = 1 /\ idle'[Other(c)] = 1 BY <1>1, <2>3, <2>6
    <3> QED BY <3>1
  <2>8. Refs(c)' BY <1>1, <2>1, <2>5, <2>7 DEF Kept, Refs, Of
  <2>9. Waits(c)' BY <1>1, <2>1, <2>2, <2>4 DEF Kept, Waits, Holds, Phases
  <2>10. Deletes(c)' BY <1>1, <2>1, <2>2 DEF Kept, Deletes, Phases
  <2> QED BY <2>8, <2>9, <2>10 DEF Kept
<1>6. blocked' = {} BY <1>1 DEF KInv
<1> QED BY <1>2, <1>3, <1>4, <1>5, <1>6 DEF KInv
-----------------------------------------------------------------------------
(* A step of a process.                                                    *)

\* The request of a transaction, sent for the first time or again.
LEMMA AskGood ==
  ASSUME Typed', NEW c \in Clients, Kept(c)', pc'[c] \in Phases,
         NEW q, q = Ask(c, pc'[c], msgId'[c])
  PROVE  GoodReq(q)'
<1>1. /\ q.from = c /\ q.type = TypeOf[pc'[c]] /\ q.id = msgId'[c]
      /\ q.to = IF pc'[c] \in Mine THEN Own(c) ELSE Other(c)
  BY AskFacts DEF Own, Other
<1>2. Refs(c)' /\ Deletes(c)' BY DEF Kept
<1>3. CASE pc'[c] \in {"lookup", "announce"}
  <2>1. q.type \in {"LOOK_UP", "ANNOUNCE"} /\ q.to = Other(c) BY <1>1, <1>3, PhaseFacts DEF Mine
  <2> QED BY <1>1, <2>1 DEF GoodReq
<1>4. CASE pc'[c] = "leave"
  <2>1. q.type = "LEAVE_INVITE" /\ q.to = Own(c) BY <1>1, <1>4, PhaseFacts DEF Mine
  <2>2. pc'[c] \in Called BY <1>4 DEF Called, Listens
  <2> QED BY <1>1, <2>1, <2>2 DEF GoodReq
<1>5. CASE pc'[c] = "delstale"
  <2>1. q.type = "DELETE" /\ q.to = Other(c) BY <1>1, <1>5, PhaseFacts DEF Mine
  <2>2. Doomed(Other(c), msgId[c])' /\ idle'[Other(c)] = 0 BY <1>2, <1>5 DEF Deletes
  <2>3. Doomed(q.to, q.id)' BY <1>1, <2>1, <2>2 DEF Doomed
  <2>4. idle'[Other(c)] <= 1 BY <2>2
  <2> QED BY <2>1, <2>3, <2>4 DEF GoodReq
<1>6. CASE pc'[c] = "dellocal"
  <2>1. q.type = "DELETE" /\ q.to = Own(c) BY <1>1, <1>6, PhaseFacts DEF Mine
  <2>2. /\ msgId'[c] = localId'[c] /\ Of(Own(c), localId[c], "LEAVE_INVITE", c)'
        /\ (localId'[c] # 0 => idle'[Own(c)] <= 1)
    BY <1>2, <1>6 DEF Deletes, Refs, Calling
  <2>3. Doomed(q.to, q.id)' BY <1>1, <1>6, <2>1, <2>2 DEF Of, Doomed, Past
  <2> QED BY <1>1, <2>1, <2>2, <2>3 DEF GoodReq
<1>7. CASE pc'[c] = "delremote"
  <2>1. q.type = "DELETE" /\ q.to = Other(c) BY <1>1, <1>7, PhaseFacts DEF Mine
  <2>2. /\ msgId'[c] = remoteId'[c] /\ Of(Other(c), remoteId[c], "ANNOUNCE", c)'
        /\ (remoteId'[c] # 0 => idle'[Other(c)] <= 1)
    BY <1>2, <1>7 DEF Deletes, Refs, Calling
  <2>3. Doomed(q.to, q.id)' BY <1>1, <2>1, <2>2 DEF Of, Doomed
  <2> QED BY <1>1, <2>1, <2>2, <2>3 DEF GoodReq
<1> QED BY <1>3, <1>4, <1>5, <1>6, <1>7 DEF Phases

\* The two deletions of send_delete().
LEMMA QuitGood ==
  ASSUME NEW c \in Clients, pc'[c] \in Past, NEW rem, NEW loc,
         Of(Own(c), loc, "LEAVE_INVITE", c)', loc # 0 => idle'[Own(c)] <= 1,
         Of(Other(c), rem, "ANNOUNCE", c)', rem # 0 => idle'[Other(c)] <= 1,
         NEW q \in {Ask(c, "delremote", rem), Ask(c, "dellocal", loc)}
  PROVE  GoodReq(q)'
<1>0. "delremote" \in Phases /\ "dellocal" \in Phases /\ "dellocal" \in Mine /\ "delremote" \notin Mine
  BY DEF Phases, Mine
<1>1. Doomed(Own(c), loc)' /\ Doomed(Other(c), rem)' BY DEF Of, Doomed
<1>2. /\ Ask(c, "delremote", rem).type = "DELETE" /\ Ask(c, "delremote", rem).id = rem
      /\ Ask(c, "delremote", rem).to = Other(c)
  BY <1>0, AskFacts, PhaseFacts DEF Other
<1>3. /\ Ask(c, "dellocal", loc).type = "DELETE" /\ Ask(c, "dellocal", loc).id = loc
      /\ Ask(c, "dellocal", loc).to = Own(c)
  BY <1>0, AskFacts, PhaseFacts DEF Own
<1>4. CASE q = Ask(c, "delremote", rem)
  <2>1. q.type = "DELETE" /\ q.id = rem /\ q.to = Other(c) BY <1>2, <1>4
  <2> QED BY <1>1, <2>1 DEF GoodReq
<1>5. CASE q = Ask(c, "dellocal", loc)
  <2>1. q.type = "DELETE" /\ q.id = loc /\ q.to = Own(c) BY <1>3, <1>5
  <2> QED BY <1>1, <2>1 DEF GoodReq
<1> QED BY <1>4, <1>5

\* What the other processes, the daemons and the datagrams on their way see
\* of a step.
Moves(c) ==
    /\ UNCHANGED <<table, currentId, idle>>
    /\ \A d \in Clients \ {c} : /\ pc'[d] = pc[d] /\ msgId'[d] = msgId[d]
                                /\ localId'[d] = localId[d] /\ remoteId'[d] = remoteId[d]
                                /\ d \in due' <=> d \in due
    /\ pc[c] \in Past => pc'[c] \in Past
    /\ pc[c] \in Called => pc'[c] \in Called
    /\ resps' \subseteq resps /\ blocked' = {}

LEMMA MovesK ==
  ASSUME KInv, Typed', Numbers', NEW c \in Clients, Moves(c), Kept(c)',
         \A q \in reqs' : q \in reqs \/ GoodReq(q)'
  PROVE  KInv'
<1>0. Typed /\ Entries BY DEF KInv
<1>1. \A d \in Clients : (pc[d] \in Past => pc'[d] \in Past) /\ (pc[d] \in Called => pc'[d] \in Called)
  BY DEF Moves
<1>2. UNCHANGED <<table, currentId, idle>> BY DEF Moves
<1>3. \A h \in Hosts : \A e \in Range(table[h]) : e.by \in Clients BY <1>0, Ranges
<1>4. Entries' BY <1>0, <1>1, <1>2, <1>3 DEF Entries
<1>5. \A h \in Hosts : \A n : Doomed(h, n) => Doomed(h, n)' BY <1>1, <1>2, <1>3 DEF Doomed
<1>6. ASSUME NEW q \in reqs' PROVE GoodReq(q)'
  <2>1. CASE q \in reqs
    <3>1. GoodReq(q) /\ q.to \in Hosts /\ q.from \in Clients BY <1>0, <2>1, Ranges DEF KInv, Datagrams
    <3> QED BY <1>1, <1>2, <1>5, <3>1 DEF GoodReq
  <2> QED BY <1>6, <2>1
<1>7. ASSUME NEW r \in resps' PROVE GoodResp(r)'
  <2>1. r \in resps BY <1>7 DEF Moves
  <2>2. GoodResp(r) /\ r.to \in Clients BY <1>0, <2>1, Ranges DEF KInv, Datagrams
  <2>3. pc[r.to] \in Called /\ pc'[r.to] \in Listens => pc[r.to] \in Listens
    BY <1>1, <2>2, PlaceFacts
  <2> QED BY <1>1, <1>2, <2>2, <2>3 DEF GoodResp, Of, Holds
<1>8. ASSUME NEW d \in Clients, d # c PROVE Kept(d)'
  <2>1. Kept(d) BY DEF KInv
  <2>2. /\ pc'[d] = pc[d] /\ msgId'[d] = msgId[d] /\ localId'[d] = localId[d]
        /\ remoteId'[d] = remoteId[d] /\ (d \in due' <=> d \in due)
    BY <1>8 DEF Moves
  <2>3. Other(d) \in Hosts BY Machines
  <2>4. Refs(d)' BY <1>2, <2>1, <2>2 DEF Kept, Refs, Of
  <2>5. Waits(d)' BY <1>2, <2>1, <2>2 DEF Kept, Waits, Holds
  <2>6. Deletes(d)' BY <1>2, <1>5, <2>1, <2>2, <2>3 DEF Kept, Deletes
  <2> QED BY <2>4, <2>5, <2>6 DEF Kept
<1> QED BY <1>4, <1>6, <1>7, <1>8 DEF KInv, Datagrams, Moves
Aside(c) ==
    /\ UNCHANGED <<table, currentId, idle>> /\ resps' \subseteq resps /\ blocked' = {}
    /\ \A d \in Clients \ {c} : /\ localId'[d] = localId[d] /\ remoteId'[d] = remoteId[d]
                                /\ d \in due' <=> d \in due
Onward(p, place) == (p \in Past => place \in Past) /\ (p \in Called => place \in Called)

LEMMA MovesFrom ==
  ASSUME Typed, NEW c \in Clients, Aside(c), NEW place, Onward(pc[c], place),
         pc' = [pc EXCEPT ![c] = place], \A d \in Clients \ {c} : msgId'[d] = msgId[d]
  PROVE  Moves(c) /\ pc'[c] = place
BY DEF Typed, TypeOK, Aside, Onward, Moves

LEMMA TransactK ==
  ASSUME KInv, Typed', Numbers', NEW c \in Clients, Aside(c), NEW phase \in Phases, NEW id,
         Onward(pc[c], phase), Transact(c, phase, id), Kept(c)'
  PROVE  KInv'
<1>1. Typed BY DEF KInv
<1>2. /\ pc' = [pc EXCEPT ![c] = phase] /\ msgId' = [msgId EXCEPT ![c] = id]
      /\ reqs' = reqs \cup {Ask(c, phase, id)}
  BY DEF Transact
<1>3. msgId'[c] = id /\ \A d \in Clients \ {c} : msgId'[d] = msgId[d] BY <1>1, <1>2 DEF Typed, TypeOK
<1>4. Moves(c) /\ pc'[c] = phase BY <1>1, <1>2, <1>3, MovesFrom
<1>5. \A q \in reqs' : q \in reqs \/ q = Ask(c, pc'[c], msgId'[c]) BY <1>2, <1>3, <1>4
<1>6. \A q \in reqs' : q \in reqs \/ GoodReq(q)' BY <1>4, <1>5, AskGood
<1> QED BY <1>4, <1>6, MovesK

LEMMA BecomesK ==
  ASSUME KInv, Typed', Numbers', NEW c \in Clients, Aside(c), NEW place,
         Onward(pc[c], place), Becomes(c, place), Kept(c)'
  PROVE  KInv'
<1>1. Typed BY DEF KInv
<1>2. pc' = [pc EXCEPT ![c] = place] /\ msgId' = msgId /\ reqs' = reqs BY DEF Becomes
<1>3. Moves(c) BY <1>1, <1>2, MovesFrom
<1> QED BY <1>2, <1>3, MovesK

LEMMA QuitK ==
  ASSUME KInv, Typed', Numbers', NEW c \in Clients, Aside(c), NEW rem, NEW loc, Quit(c, rem, loc),
         pc[c] \in Calling => /\ Of(Own(c), loc, "LEAVE_INVITE", c) /\ (loc # 0 => idle[Own(c)] <= 1)
                              /\ Of(Other(c), rem, "ANNOUNCE", c) /\ (rem # 0 => idle[Other(c)] <= 1)
  PROVE  KInv'
<1>1. Typed BY DEF KInv
<1>2. /\ pc' = [pc EXCEPT ![c] = "quit"] /\ msgId' = msgId
      /\ reqs' = IF pc[c] \in Calling THEN reqs \cup {Ask(c, "delremote", rem), Ask(c, "dellocal", loc)}
                                      ELSE reqs
  BY DEF Quit, Calling, Listens
<1>3. "quit" \in Past /\ Onward(pc[c], "quit") BY DEF Onward, Past, Called
<1>4. Moves(c) /\ pc'[c] = "quit" BY <1>1, <1>2, <1>3, MovesFrom
<1>5. Kept(c)' BY <1>4 DEF Kept, Refs, Waits, Deletes, Calling, Listens
<1>6. ASSUME NEW q \in reqs', q \notin reqs PROVE GoodReq(q)'
  <2>1. pc[c] \in Calling /\ q \in {Ask(c, "delremote", rem), Ask(c, "dellocal", loc)} BY <1>2, <1>6
  <2>2. /\ Of(Own(c), loc, "LEAVE_INVITE", c)' /\ (loc # 0 => idle'[Own(c)] <= 1)
        /\ Of(Other(c), rem, "ANNOUNCE", c)' /\ (rem # 0 => idle'[Other(c)] <= 1)
    BY <2>1 DEF Of, Aside
  <2> QED BY <1>3, <1>4, <2>1, <2>2, QuitGood
<1> QED BY <1>4, <1>5, <1>6, MovesK

\* ... and the process keeps what it had.
LEMMA SameK ==
  ASSUME KInv, Typed', Numbers', NEW c \in Clients, Aside(c), UNCHANGED <<pc, msgId, localId, remoteId, due>>,
         reqs' \subseteq reqs \cup {Ask(c, pc[c], msgId[c])}, pc[c] \in Phases
  PROVE  KInv'
<1>1. Moves(c) BY DEF Moves, Aside
<1>2. Kept(c) BY DEF KInv
<1>3. Kept(c)' BY <1>2 DEF Kept, Refs, Waits, Deletes, Of, Doomed, Holds, Aside
<1>4. \A q \in reqs' : q \in reqs \/ GoodReq(q)' BY <1>3, AskGood
<1> QED BY <1>1, <1>3, <1>4, MovesK

LEMMA QuitMine ==
  ASSUME KInv, Typed', Numbers', NEW c \in Clients, Aside(c), Quit(c, remoteId[c], localId[c])
  PROVE  KInv'
<1>1. Refs(c) BY DEF KInv, Kept
<1> QED BY <1>1, QuitK DEF Refs

LEMMA ReceiveK ==
  ASSUME KInv, Typed', Numbers', NEW c \in Clients, Receive(c), UNCHANGED <<table, currentId, idle>>
  PROVE  KInv'
<1>1. PICK r \in resps :
           /\ r.to = c /\ Transacting(c) /\ resps' = Readable(resps \ {r}, pc')
           /\ UNCHANGED <<daemonvars, dropped, due, blocked, rings, faults>>
           /\ \/ /\ reqs' \subseteq reqs \cup {Ask(c, pc[c], msgId[c])}
                 /\ UNCHANGED <<pc, msgId, localId, remoteId, conn>>
              \/ /\ r.type = TypeOf[pc[c]]
                 /\ \/ pc[c] = "lookup" /\ LookedUp(c, r)
                    \/ pc[c] = "delstale" /\ Transact(c, "announce", MaxId)
                                          /\ UNCHANGED <<localId, remoteId, conn>>
                    \/ pc[c] = "announce" /\ Announced(c, r)
                    \/ pc[c] = "leave" /\ Left(c, r)
                    \/ pc[c] = "dellocal" /\ Transact(c, "delremote", remoteId[c])
                                          /\ UNCHANGED <<localId, remoteId, conn>>
                    \/ pc[c] = "delremote" /\ Becomes(c, "edit")
                                           /\ UNCHANGED <<localId, remoteId, conn>>
  BY ReceiveCases
<1>2. Typed /\ Typed' /\ GoodResp(r) /\ Kept(c) BY DEF KInv, Datagrams
<1>3. resps' \subseteq resps /\ blocked' = {} /\ due' = due
  <2>1. resps' \subseteq resps BY <1>1, ReadableIn
  <2> QED BY <1>1, <2>1 DEF KInv
<1>4. UNCHANGED <<localId, remoteId>> => Aside(c) BY <1>3 DEF Aside
<1>5. Own(c) \in Hosts /\ Other(c) \in Hosts BY Machines
<1>6. /\ DOMAIN pc = Clients /\ DOMAIN msgId = Clients
      /\ DOMAIN localId = Clients /\ DOMAIN remoteId = Clients
  BY <1>2 DEF Typed, TypeOK
<1>7. CASE reqs' \subseteq reqs \cup {Ask(c, pc[c], msgId[c])} /\ UNCHANGED <<pc, msgId, localId, remoteId, conn>>
  BY <1>1, <1>3, <1>4, <1>7, PhaseFacts, SameK DEF Transacting
\* Nothing left or announced yet.
<1>8. ASSUME pc[c] \in {"lookup", "delstale"}, Transact(c, "announce", MaxId), UNCHANGED <<localId, remoteId>>
      PROVE  KInv'
  <2>1. pc'[c] = "announce" BY <1>6, <1>8 DEF Transact
  <2>2. localId'[c] = 0 /\ remoteId'[c] = 0 BY <1>2, <1>8 DEF Kept, Deletes
  <2>3. \A type : Of(Own(c), 0, type, c)' /\ Of(Other(c), 0, type, c)'
    BY <1>2, <1>5, OfNone DEF Of
  <2>4. Kept(c)' BY <2>1, <2>2, <2>3 DEF Kept, Refs, Waits, Deletes
  <2>5. Onward(pc[c], "announce") /\ "announce" \in Phases
    BY <1>8 DEF Onward, Past, Called, Listens, Phases
  <2> QED BY <1>4, <1>8, <2>4, <2>5, TransactK
<1>9. CASE r.type = TypeOf[pc[c]] /\ pc[c] = "lookup" /\ LookedUp(c, r)
  <2>0. UNCHANGED <<localId, remoteId>> /\ Aside(c) /\ r.type = "LOOK_UP"
    BY <1>4, <1>9, PhaseFacts DEF LookedUp
  <2>1. CASE Becomes(c, "edit")
    <3>1. pc'[c] = "edit" BY <1>6, <2>1 DEF Becomes
    <3>2. Kept(c)' BY <3>1 DEF Kept, Refs, Waits, Deletes, Calling, Listens
    <3>3. Onward(pc[c], "edit") BY DEF Onward, Past, Called
    <3> QED BY <2>0, <2>1, <3>2, <3>3, BecomesK
  <2>2. CASE r.success /\ ~Listening(r.addr) /\ Transact(c, "delstale", r.id)
    <3>1. pc'[c] = "delstale" /\ msgId'[c] = r.id BY <1>6, <2>2 DEF Transact
    <3>2. /\ Of(Other(c), r.id, "LEAVE_INVITE", r.addr) /\ idle[Other(c)] = 0
          /\ r.addr \in Clients /\ pc[r.addr] \in Past
      BY <1>1, <1>2, <2>0, <2>2, PlaceFacts DEF GoodResp, Listening, Listens
    <3>3. r.addr # c BY <1>9, <3>2 DEF Past
    <3>4. pc'[r.addr] \in Past BY <2>2, <3>2, <3>3 DEF Transact
    <3>5. Doomed(Other(c), msgId[c])' BY <3>1, <3>2, <3>4 DEF Of, Doomed
    <3>6. localId'[c] = 0 /\ remoteId'[c] = 0 BY <1>2, <1>9, <2>0 DEF Kept, Deletes
    <3>7. Refs(c)' /\ Waits(c)' BY <3>1 DEF Refs, Waits, Calling, Listens
    <3>8. Deletes(c)' BY <3>1, <3>2, <3>5, <3>6 DEF Deletes
    <3>9. Onward(pc[c], "delstale") /\ "delstale" \in Phases
      BY <1>9 DEF Onward, Past, Called, Listens, Phases
    <3>10. Kept(c)' BY <3>7, <3>8 DEF Kept
    <3> QED BY <2>0, <2>2, <3>9, <3>10, TransactK
  <2>3. CASE Transact(c, "announce", MaxId) BY <1>8, <1>9, <2>0, <2>3
  <2> QED BY <1>9, <2>1, <2>2, <2>3 DEF LookedUp
<1>10. CASE pc[c] = "delstale" /\ Transact(c, "announce", MaxId) /\ UNCHANGED <<localId, remoteId, conn>>
  BY <1>8, <1>10
<1>11. CASE r.type = TypeOf[pc[c]] /\ pc[c] = "announce" /\ Announced(c, r)
  <2>1. /\ r.type = "ANNOUNCE" /\ remoteId' = [remoteId EXCEPT ![c] = r.id] /\ UNCHANGED localId
        /\ IF r.success THEN Transact(c, "leave", msgId[c]) ELSE Quit(c, r.id, localId[c])
    BY <1>11, PhaseFacts DEF Announced
  <2>2. Aside(c) /\ remoteId'[c] = r.id BY <1>3, <1>6, <2>1 DEF Aside
  <2>3. /\ Of(Other(c), r.id, "ANNOUNCE", c) /\ idle[Other(c)] = 0 /\ idle[Other(c)] <= 1
        /\ Of(Own(c), localId[c], "LEAVE_INVITE", c) /\ (localId[c] # 0 => idle[Own(c)] <= 1)
    BY <1>1, <1>2, <1>11, <2>1 DEF GoodResp, Kept, Refs, Calling, Listens
  <2>4. CASE r.success
    <3>1. pc'[c] = "leave" BY <1>6, <2>1, <2>4 DEF Transact
    <3>2. Refs(c)' BY <2>1, <2>2, <2>3 DEF Refs, Of
    <3>3. Waits(c)' /\ Deletes(c)' BY <2>3, <3>1 DEF Waits, Deletes
    <3>4. Onward(pc[c], "leave") /\ "leave" \in Phases
      BY <1>11 DEF Onward, Past, Called, Listens, Phases
    <3>5. Kept(c)' BY <3>2, <3>3 DEF Kept
    <3>6. Transact(c, "leave", msgId[c]) BY <2>1, <2>4
    <3> QED BY <2>2, <3>4, <3>5, <3>6, TransactK
  <2>5. CASE ~r.success
    <3>1. Quit(c, r.id, localId[c]) BY <2>1, <2>5
    <3> QED BY <2>2, <2>3, <3>1, QuitK
  <2> QED BY <2>4, <2>5
<1>12. CASE r.type = TypeOf[pc[c]] /\ pc[c] = "leave" /\ Left(c, r)
  <2>1. /\ r.type = "LEAVE_INVITE" /\ localId' = [localId EXCEPT ![c] = r.id] /\ UNCHANGED remoteId
        /\ Becomes(c, "accept")
    BY <1>12, PhaseFacts DEF Left
  <2>2. Aside(c) /\ localId'[c] = r.id /\ pc'[c] = "accept" BY <1>3, <1>6, <2>1 DEF Aside, Becomes
  <2>3. /\ Of(Own(c), r.id, "LEAVE_INVITE", c) /\ idle[Own(c)] = 0 /\ Holds(c, r.id)
        /\ Of(Other(c), remoteId[c], "ANNOUNCE", c) /\ idle[Other(c)] = 0
    BY <1>1, <1>2, <1>12, <2>1 DEF GoodResp, Kept, Refs, Waits, Calling, Listens
  <2>4. idle[Own(c)] <= 1 /\ idle[Other(c)] <= 1 BY <2>3
  <2>5. Refs(c)' BY <2>1, <2>2, <2>3, <2>4 DEF Refs, Of
  <2>6. Waits(c)' /\ Deletes(c)' BY <2>2, <2>3 DEF Waits, Deletes, Holds
  <2>7. Onward(pc[c], "accept") BY <1>12 DEF Onward, Past, Called, Listens
  <2>8. Kept(c)' BY <2>5, <2>6 DEF Kept
  <2> QED BY <2>1, <2>2, <2>7, <2>8, BecomesK
<1>13. CASE pc[c] = "dellocal" /\ Transact(c, "delremote", remoteId[c]) /\ UNCHANGED <<localId, remoteId, conn>>
  <2>1. pc'[c] = "delremote" /\ msgId'[c] = remoteId'[c] BY <1>6, <1>13 DEF Transact
  <2>2. Refs(c)' BY <1>2, <1>13 DEF Kept, Refs, Of, Calling
  <2>3. Waits(c)' /\ Deletes(c)' BY <2>1 DEF Waits, Deletes
  <2>4. Onward(pc[c], "delremote") /\ "delremote" \in Phases BY DEF Onward, Past, Called, Phases
  <2>5. Kept(c)' BY <2>2, <2>3 DEF Kept
  <2> QED BY <1>4, <1>13, <2>4, <2>5, TransactK
<1>14. CASE pc[c] = "delremote" /\ Becomes(c, "edit") /\ UNCHANGED <<localId, remoteId, conn>>
  <2>1. pc'[c] = "edit" BY <1>6, <1>14 DEF Becomes
  <2>2. Kept(c)' BY <2>1 DEF Kept, Refs, Waits, Deletes, Calling, Listens
  <2>3. Onward(pc[c], "edit") BY DEF Onward, Past, Called
  <2> QED BY <1>4, <1>14, <2>2, <2>3, BecomesK
<1> QED BY <1>1, <1>7, <1>9, <1>10, <1>11, <1>12, <1>13, <1>14
LEMMA ClientK ==
  ASSUME KInv, Unworn, SetjmpSavesMask, NEW c \in Clients, Client(c) PROVE KInv'
<1>0. Typed /\ Numbers /\ Kept(c) /\ blocked = {} BY DEF KInv
<1>1. Typed' /\ Numbers' BY <1>0, NextT, NextN DEF Next
<1>2. UNCHANGED <<table, currentId, idle>> BY ClientKeeps
<1>3. resps' \subseteq resps BY FewerResps
<1>4. /\ DOMAIN pc = Clients /\ DOMAIN msgId = Clients BY <1>0 DEF Typed, TypeOK
<1>5. ASSUME UNCHANGED <<localId, remoteId, blocked>>, due' = due \/ due' = due \ {c} PROVE Aside(c)
  BY <1>0, <1>2, <1>3, <1>5 DEF Aside
<1>6. CASE Start(c)
  <2>1. /\ pc[c] = "off" /\ Transact(c, "lookup", 0) /\ UNCHANGED <<localId, remoteId>> /\ Aside(c)
    BY <1>5, <1>6 DEF Start
  <2>2. pc'[c] = "lookup" BY <1>4, <2>1 DEF Transact
  <2>3. Kept(c)' BY <1>0, <2>1, <2>2 DEF Kept, Refs, Waits, Deletes, Calling, Listens
  <2>4. Onward(pc[c], "lookup") /\ "lookup" \in Phases
    BY <2>1 DEF Onward, Past, Called, Listens, Phases
  <2> QED BY <1>1, <2>1, <2>3, <2>4, TransactK
<1>7. CASE Resend(c)
  <2>1. /\ pc[c] \in Phases /\ reqs' = reqs \cup {Ask(c, pc[c], msgId[c])} /\ Aside(c)
        /\ UNCHANGED <<pc, msgId, localId, remoteId, due>>
    BY <1>5, <1>7, PhaseFacts DEF Resend, Transacting
  <2> QED BY <1>1, <2>1, SameK
<1>8. CASE Receive(c) BY <1>1, <1>2, <1>8, ReceiveK
<1>9. CASE Accept(c)
  <2>1. /\ pc[c] = "accept" /\ Transact(c, "dellocal", localId[c])
        /\ UNCHANGED <<localId, remoteId>> /\ Aside(c)
    BY <1>5, <1>9 DEF Accept
  <2>2. pc'[c] = "dellocal" /\ msgId'[c] = localId'[c] BY <1>4, <2>1 DEF Transact
  <2>3. Refs(c)' BY <1>0, <1>2, <2>1 DEF Kept, Refs, Of, Calling, Listens
  <2>4. Waits(c)' /\ Deletes(c)' BY <2>2 DEF Waits, Deletes
  <2>5. Kept(c)' BY <2>3, <2>4 DEF Kept
  <2>6. Onward(pc[c], "dellocal") /\ "dellocal" \in Phases BY DEF Onward, Past, Called, Phases
  <2> QED BY <1>1, <2>1, <2>5, <2>6, TransactK
<1>10. CASE ReInvite(c)
  <2>1. /\ pc[c] = "accept" /\ Transact(c, "announce", remoteId[c] + 1)
        /\ UNCHANGED <<localId, remoteId>> /\ Aside(c)
    BY <1>5, <1>10 DEF ReInvite
  <2>2. pc'[c] = "announce" BY <1>4, <2>1 DEF Transact
  <2>3. Refs(c)' BY <1>0, <1>2, <2>1 DEF Kept, Refs, Of, Calling, Listens
  <2>4. Waits(c)' /\ Deletes(c)' BY <2>2 DEF Waits, Deletes
  <2>5. Kept(c)' BY <2>3, <2>4 DEF Kept
  <2>6. Onward(pc[c], "announce") /\ "announce" \in Phases
    BY <2>1 DEF Onward, Past, Called, Listens, Phases
  <2> QED BY <1>1, <2>1, <2>5, <2>6, TransactK
<1>11. CASE EditChars(c)
  <2>1. Becomes(c, "talk") /\ Aside(c) BY <1>5, <1>11 DEF EditChars
  <2>2. pc'[c] = "talk" BY <1>4, <2>1 DEF Becomes
  <2>3. Kept(c)' BY <2>2 DEF Kept, Refs, Waits, Deletes, Calling, Listens
  <2>4. Onward(pc[c], "talk") BY DEF Onward, Past, Called
  <2> QED BY <1>1, <2>1, <2>3, <2>4, BecomesK
<1>12. CASE Lost(c)
  <2>1. Quit(c, remoteId[c], localId[c]) /\ Aside(c) BY <1>5, <1>12 DEF Lost
  <2> QED BY <1>1, <2>1, QuitMine
<1>13. CASE Interrupt(c)
  <2>1. Quit(c, remoteId[c], localId[c]) /\ Aside(c) BY <1>5, <1>13 DEF Interrupt
  <2> QED BY <1>1, <2>1, QuitMine
<1> QED BY <1>6, <1>7, <1>8, <1>9, <1>10, <1>11, <1>12, <1>13 DEF Client

LEMMA NextK ==
  ASSUME KInv, Unworn, SetjmpSavesMask, MaxIdle > 1, [Next]_vars PROVE KInv'
<1>1. CASE UNCHANGED vars
  <2>1. Typed /\ Numbers BY DEF KInv
  <2>2. Typed' /\ Numbers' BY <1>1, <2>1, NextT, NextN
  <2>3. UNCHANGED <<reqs, resps, table, currentId, idle, pc, msgId, localId, remoteId, due, blocked>>
    BY <1>1 DEF vars, netvars, daemonvars, clientvars
  <2>4. Entries' BY <2>3 DEF KInv, Entries
  <2>5. Datagrams' BY <2>3 DEF KInv, Datagrams, GoodReq, GoodResp, Of, Doomed, Holds
  <2>6. \A c \in Clients : Kept(c)' BY <2>3 DEF KInv, Kept, Refs, Waits, Deletes, Of, Doomed, Holds
  <2> QED BY <2>2, <2>3, <2>4, <2>5, <2>6 DEF KInv
<1> QED BY <1>1, ClientK, ServedK, ExitK, TickK DEF Next, Daemon

LEMMA InitK == Init => KInv
<1> SUFFICES ASSUME Init PROVE KInv OBVIOUS
<1>1. Typed /\ Numbers BY InitT, InitN
<1>2. \A h \in Hosts : table[h] = <<>> BY DEF Init
<1>3. Entries BY <1>2, NoEntries DEF Entries
<1>4. reqs = {} /\ resps = {} /\ blocked = {} BY DEF Init
<1>5. Datagrams BY <1>4 DEF Datagrams
<1>6. \A c \in Clients : pc[c] = "off" /\ localId[c] = 0 /\ remoteId[c] = 0 BY DEF Init
<1>7. \A c \in Clients : Kept(c) BY <1>6 DEF Kept, Refs, Waits, Deletes, Calling, Listens
<1> QED BY <1>1, <1>3, <1>4, <1>5, <1>7 DEF KInv

\* A process that waits in accept() has its invitation with its daemon, under
\* the number it will delete it by, whatever the other processes delete, whichever
\* datagrams are repeated or late, and although daemons exit when they are idle:
\* if setjmp() saves the signal mask, so that the process rings again and again,
\* and the idle timeout is longer than the ringing interval.
THEOREM InvitationKeptCorrect ==
  ASSUME SetjmpSavesMask, MaxIdle > 1
  PROVE  Spec /\ []Unworn => []InvitationKept
<1>1. KInv => InvitationKept
  <2> SUFFICES ASSUME KInv, NEW c \in Clients, pc[c] = "accept"
               PROVE  \E i \in DOMAIN table[Own(c)] :
                        table[Own(c)][i] = [type |-> "LEAVE_INVITE", by |-> c, id |-> localId[c]]
    BY DEF InvitationKept, Own
  <2>1. Holds(c, localId[c]) BY DEF KInv, Kept, Waits
  <2>2. table[Own(c)] \in Seq(Entry) BY Machines, Ranges DEF KInv
  <2>3. PICK e \in Range(table[Own(c)]) : e.type = "LEAVE_INVITE" /\ e.by = c /\ e.id = localId[c]
    BY <2>1 DEF Holds, Entered
  <2>4. e \in Entry /\ \E i \in DOMAIN table[Own(c)] : table[Own(c)][i] = e BY <2>2, InTable
  <2>5. e = [type |-> "LEAVE_INVITE", by |-> c, id |-> localId[c]] BY <2>3, <2>4 DEF Entry
  <2> QED BY <2>4, <2>5
<1>2. KInv /\ Unworn /\ [Next]_vars => KInv' BY NextK
<1> QED BY <1>1, <1>2, InitK, PTL DEF Spec
=============================================================================
