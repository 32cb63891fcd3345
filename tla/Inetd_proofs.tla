---------------------------- MODULE Inetd_proofs ----------------------------
(***************************************************************************)
(* Proofs about Inetd, for any number of services, files, processes,       *)
(* requests and signals: SocketOwner, NsockCounts, SingleThreaded and      *)
(* BlocksOnReloadOnly.                                                     *)
(***************************************************************************)
EXTENDS Inetd, FiniteSetTheorems, WellFoundedInduction, TLAPS

\* No service is single-threaded in one version of the files and not in another.
KindsFixed ==
    \A c, d \in Confs, s \in Services : ~(c[s] = "wait" /\ d[s] = "nowait")

\* Services that no reload takes away, be it only until the file that lists
\* them is read; and those of them that are single-threaded.
Stable == {s \in Services : FileOf[s] = 1 /\ \A c \in Confs : c[s] # "none"}
Kept == {s \in Stable : \A c \in Confs : c[s] = "wait"}

\* Other services, which a reload may close, are inetd's own and get their
\* socket when they ask for it.
OthersOwn == \A s \in Services \ Stable : s \in Internal /\ s \notin BindFails

\* Every service that waits is one of Kept.
WaitKept == \A c \in Confs, s \in Services : c[s] = "wait" => s \in Kept

-----------------------------------------------------------------------------
(* The invariant: of the table tb, the sockets as, their number ns and the  *)
(* sockets R the loop has still to visit.                                  *)

\* As Entry, without the bound on se_count.
WeakEntry == [in: BOOLEAN, fd: BOOLEAN, reg: BOOLEAN, wait: {0, 1} \cup Pids, count: Nat]
Typed(tb, as, R) == tb \in [Services -> WeakEntry] /\ as \subseteq Services /\ R \subseteq Services

\* Selected sockets are open and nobody else's; a server that has the socket
\* has an open one; and the loop is not to visit a socket that a server has.
Owned(tb, as, R) ==
    \A s \in Services :
      /\ s \in as => tb[s].fd /\ tb[s].wait \in {0, 1}
      /\ tb[s].fd => tb[s].in
      /\ tb[s].reg => tb[s].fd
      /\ tb[s].wait \notin {0, 1} => tb[s].fd
      /\ s \in R => tb[s].wait \in {0, 1}

\* The other half of SocketOwner; se_wait is not zero for services that wait only.
Registered(tb, as) ==
    \A s \in Services :
      /\ tb[s].reg /\ tb[s].wait \in {0, 1} => s \in as
      /\ tb[s].wait # 0 => \E c \in Confs : c[s] = "wait"

\* The count, the sockets to be visited, and those a reload may close.
Counted(tb, as, ns, R) ==
    /\ ns = Cardinality(as)
    /\ \A s \in Stable : s \in R => s \in as
    /\ \A s \in Services \ Stable : tb[s].in => s \in as

\* The process that has the socket is the only one of its service.
Single ==
    \A s \in Kept :
      /\ tab[s].in /\ tab[s].wait # 0
      /\ \A p \in Pids : kid[p] = "live" /\ owner[p] = s => p = tab[s].wait

ProcTyped ==
    kid \in [Pids -> {"free", "live", "zombie"}] /\ owner = [p \in Pids |-> owner[p]]

IInv ==
    /\ conf \in Confs /\ ProcTyped /\ nsock \in Int /\ timingout \in BOOLEAN
    /\ Typed(tab, allsock, ready) /\ Owned(tab, allsock, ready)
    /\ KindsFixed => Registered(tab, allsock)
    /\ OthersOwn => Counted(tab, allsock, nsock, ready)
    /\ Single

\* For BlocksOnReloadOnly: process p has the socket s of a table T, which the
\* loop will not be told of; each request of a stream or of inetd's own service
\* that the loop is still to take is there, or its bit is stale.
Lent(T, s, p) ==
    T.tab[s].in /\ T.tab[s].fd /\ s \notin T.allsock /\ T.tab[s].wait \in {0, p}
Holding ==
    \A p \in holds : /\ p \in Pids /\ kid[p] = "live" /\ owner[p] \notin Internal
                     /\ owner[p] \in Stream => Lent(Table, owner[p], p) /\ owner[p] \notin ready
Waiting ==
    /\ pend \in [Services -> Nat] /\ Holding
    /\ \A s \in ready \cap (Stream \cup Internal) : s \in stale \/ pend[s] > 0

-----------------------------------------------------------------------------
(* config(): the files one after the other.                                *)

LEMMA LeastOf ==
  ASSUME NEW T \in SUBSET Nat, T # {}
  PROVE  \E x \in T : \A y \in T : x <= y
<1>1. PICK x \in T : \A y \in T : ~(<<y, x>> \in OpToRel(<, Nat))
  BY NatLessThanWellFounded, WFMin
<1>2. \A y \in T : ~(y < x) BY <1>1 DEF OpToRel
<1>3. x \in Nat /\ \A y \in T : y \in Nat BY <1>2
<1> HIDE <1>1
<1> QED BY <1>2, <1>3

\* The table after each file: there is such a function, and it is the one
\* Merged takes the last value of.
After(g, T, n, fails) ==
    g = [f \in 0 .. n |-> IF f = 0 THEN T ELSE Purge(Lines(g[f - 1], f, fails))]

LEMMA AfterExists ==
  ASSUME NEW T, NEW fails
  PROVE  \A n \in Nat : \E g : After(g, T, n, fails)
<1> DEFINE Bad == {n \in Nat : ~\E g : After(g, T, n, fails)}
           Step(t, f) == Purge(Lines(t, f, fails))
<1> SUFFICES ASSUME Bad # {} PROVE FALSE OBVIOUS
<1>1. PICK n \in Bad : \A y \in Bad : n <= y
  <2>1. Bad \in SUBSET Nat OBVIOUS
  <2> HIDE DEF Bad
  <2> QED BY <2>1, LeastOf
<1>2. n # 0
  <2>1. [f \in 0 .. 0 |-> T] = [f \in 0 .. 0 |-> IF f = 0 THEN T ELSE Step([h \in 0 .. 0 |-> T][f - 1], f)]
    OBVIOUS
  <2> QED BY <2>1 DEF After
<1>3. n \in Nat /\ n - 1 \in Nat BY <1>2
<1>4. n - 1 \notin Bad
  <2> HIDE DEF Bad
  <2> QED BY <1>1, <1>3
<1>5. PICK g : g = [f \in 0 .. n - 1 |-> IF f = 0 THEN T ELSE Step(g[f - 1], f)]
  BY <1>3, <1>4 DEF After
<1> HIDE DEF Step
<1> DEFINE h == [f \in 0 .. n |-> IF f = 0 THEN T ELSE Step(g[f - 1], f)]
<1>6. ASSUME NEW f \in 0 .. n - 1 PROVE h[f] = g[f]
  <2>1. f \in 0 .. n BY <1>3
  <2>2. g[f] = IF f = 0 THEN T ELSE Step(g[f - 1], f) BY <1>5
  <2> QED BY <2>1, <2>2
<1>7. h = [f \in 0 .. n |-> IF f = 0 THEN T ELSE Step(h[f - 1], f)]
  <2>1. ASSUME NEW f \in 0 .. n PROVE h[f] = IF f = 0 THEN T ELSE Step(h[f - 1], f)
    <3>1. f # 0 => f - 1 \in 0 .. n - 1 BY <1>3
    <3> QED BY <1>6, <3>1
  <2> QED BY <2>1
<1>8. After(h, T, n, fails) BY <1>7 DEF After, Step
<1> QED BY <1>8

LEMMA MergedIs ==
  ASSUME NEW T, NEW fails
  PROVE  \E g : After(g, T, NFiles, fails) /\ Merged(T, fails) = g[NFiles]
<1> DEFINE g == CHOOSE h : h = [f \in 0 .. NFiles |-> IF f = 0 THEN T ELSE Purge(Lines(h[f - 1], f, fails))]
<1>1. Merged(T, fails) = g[NFiles] BY DEF Merged
<1>2. NFiles \in Nat BY InetdAssumption
<1>3. \E h : After(h, T, NFiles, fails) BY <1>2, AfterExists
<1>4. After(g, T, NFiles, fails) BY <1>3 DEF After
<1> QED BY <1>1, <1>4

\* What Lines and Purge work on, and the sets they look at.
TableType == [tab: [Services -> WeakEntry], allsock: SUBSET Services, nsock: Int,
              timingout: BOOLEAN, checked: SUBSET Services, closed: SUBSET Services]
Listed(f) == {s \in Services : FileOf[s] = f /\ conf[s] # "none"}
Opened(T, f, fails) == {s \in Listed(f) : ~T.tab[s].in \/ ~T.tab[s].fd} \ fails
Out(T) == {s \in Services : T.tab[s].in /\ s \notin T.checked}

LEMMA Finite ==
  ASSUME NEW S \in SUBSET Services
  PROVE  IsFiniteSet(S) /\ Cardinality(S) \in Nat
  BY InetdAssumption, FS_Subset, FS_CardinalityType

LEMMA EnterType ==
  ASSUME NEW T \in TableType, NEW s \in Services
  PROVE  /\ Enter(T, s) \in {0, 1} \cup Pids
         /\ T.tab[s].wait \in {0, 1} => Enter(T, s) \in {0, 1}
  BY DEF Enter, TableType, WeakEntry

LEMMA LinesType ==
  ASSUME NEW T \in TableType, NEW a \in [Services -> WeakEntry], NEW b \in SUBSET Services,
         NEW c \in Int, NEW d \in BOOLEAN, NEW x \in SUBSET Services
  PROVE  [T EXCEPT !.tab = a, !.allsock = b, !.nsock = c, !.timingout = d, !.checked = x] \in TableType
  BY DEF TableType

LEMMA PurgeType ==
  ASSUME NEW T \in TableType, NEW a \in [Services -> WeakEntry], NEW b \in SUBSET Services,
         NEW c \in Int, NEW x \in SUBSET Services
  PROVE  [T EXCEPT !.tab = a, !.allsock = b, !.nsock = c, !.closed = x] \in TableType
  BY DEF TableType

LEMMA LinesFacts ==
  ASSUME NEW T \in TableType, NEW f, NEW fails
  PROVE  LET L == Lines(T, f, fails)
         IN  /\ L \in TableType
             /\ \A s \in Services \ Listed(f) : L.tab[s] = T.tab[s]
             /\ \A s \in Listed(f) :
                  L.tab[s] = [in |-> TRUE, fd |-> T.tab[s].fd \/ s \in Opened(T, f, fails),
                              reg |-> T.tab[s].reg \/ s \in Opened(T, f, fails),
                              wait |-> Enter(T, s), count |-> T.tab[s].count]
             /\ L.allsock = T.allsock \cup Opened(T, f, fails)
             /\ L.nsock = T.nsock + Cardinality(Opened(T, f, fails))
             /\ L.checked = T.checked \cup Listed(f) /\ L.closed = T.closed
<1> DEFINE E == Listed(f)
           O == Opened(T, f, fails)
           e(s) == IF s \notin E THEN T.tab[s]
                   ELSE [in |-> TRUE, fd |-> T.tab[s].fd \/ s \in O,
                         reg |-> T.tab[s].reg \/ s \in O,
                         wait |-> Enter(T, s), count |-> T.tab[s].count]
           L == Lines(T, f, fails)
<1>1. E \subseteq Services /\ O \subseteq Services BY DEF Listed, Opened
<1>2. Cardinality(O) \in Nat BY <1>1, Finite
<1>3. L = [T EXCEPT !.tab = [s \in Services |-> e(s)], !.allsock = @ \cup O,
                    !.nsock = @ + Cardinality(O),
                    !.timingout = @ \/ {s \in E : ~T.tab[s].in \/ ~T.tab[s].fd} \cap fails # {},
                    !.checked = @ \cup E]
  BY DEF Lines, Listed, Opened
<1>4. ASSUME NEW s \in Services PROVE e(s) \in WeakEntry
  <2>1. T.tab[s] \in WeakEntry BY DEF TableType
  <2>2. Enter(T, s) \in {0, 1} \cup Pids BY EnterType
  <2>3. (T.tab[s].fd \/ s \in O) \in BOOLEAN /\ (T.tab[s].reg \/ s \in O) \in BOOLEAN OBVIOUS
  <2>4. T.tab[s].count \in Nat BY <2>1 DEF WeakEntry
  <2>5. [in |-> TRUE, fd |-> T.tab[s].fd \/ s \in O, reg |-> T.tab[s].reg \/ s \in O,
         wait |-> Enter(T, s), count |-> T.tab[s].count] \in WeakEntry
    BY <2>2, <2>3, <2>4 DEF WeakEntry
  <2> QED BY <2>1, <2>5
<1>5. [s \in Services |-> e(s)] \in [Services -> WeakEntry] BY <1>4
<1> HIDE DEF e, O, E
<1>6. /\ L.tab = [s \in Services |-> e(s)] /\ L.allsock = T.allsock \cup O
      /\ L.nsock = T.nsock + Cardinality(O) /\ L.checked = T.checked \cup E
      /\ L.closed = T.closed
  BY <1>3 DEF TableType
<1>7. L \in TableType
  <2>1. T.allsock \cup O \in SUBSET Services /\ T.checked \cup E \in SUBSET Services
    BY <1>1 DEF TableType
  <2>2. T.nsock + Cardinality(O) \in Int BY <1>2 DEF TableType
  <2>3. (T.timingout \/ {s \in E : ~T.tab[s].in \/ ~T.tab[s].fd} \cap fails # {}) \in BOOLEAN OBVIOUS
  <2> DEFINE a == [s \in Services |-> e(s)]
             b == T.allsock \cup O
             c == T.nsock + Cardinality(O)
             d == T.timingout \/ {s \in E : ~T.tab[s].in \/ ~T.tab[s].fd} \cap fails # {}
             x == T.checked \cup E
  <2>4. L = [T EXCEPT !.tab = a, !.allsock = b, !.nsock = c, !.timingout = d, !.checked = x]
    BY <1>3
  <2>5. /\ a \in [Services -> WeakEntry] /\ b \in SUBSET Services /\ c \in Int
        /\ d \in BOOLEAN /\ x \in SUBSET Services
    BY <1>5, <2>1, <2>2, <2>3
  <2> HIDE DEF a, b, c, d, x, L
  <2>6. L \in TableType BY <2>4, <2>5, LinesType
  <2> QED BY <2>6 DEF L
<1>8. \A s \in Services : L.tab[s] = e(s) BY <1>6
<1> QED BY <1>1, <1>6, <1>7, <1>8 DEF e, E, O

LEMMA PurgeFacts ==
  ASSUME NEW T \in TableType
  PROVE  LET L == Purge(T)
         IN  /\ L \in TableType
             /\ \A s \in Services : L.tab[s] = IF s \in Out(T) THEN NoEntry ELSE T.tab[s]
             /\ L.allsock = T.allsock \ Out(T)
             /\ L.nsock = T.nsock - Cardinality({s \in Out(T) : T.tab[s].fd})
             /\ L.checked = T.checked /\ L.closed = T.closed \cup Out(T)
<1> DEFINE O == Out(T)
           n == Cardinality({s \in O : T.tab[s].fd})
           L == Purge(T)
<1>1. L = [T EXCEPT !.tab = [s \in Services |-> IF s \in O THEN NoEntry ELSE T.tab[s]],
                    !.allsock = @ \ O, !.nsock = @ - n, !.closed = @ \cup O]
  BY DEF Purge, Out
<1>2. O \subseteq Services BY DEF Out
<1>3. n \in Nat BY <1>2, Finite
<1>4. NoEntry \in WeakEntry BY DEF NoEntry, WeakEntry
<1>5. [s \in Services |-> IF s \in O THEN NoEntry ELSE T.tab[s]] \in [Services -> WeakEntry]
  BY <1>4 DEF TableType
<1> HIDE DEF O, n
<1>6. /\ L.tab = [s \in Services |-> IF s \in O THEN NoEntry ELSE T.tab[s]]
      /\ L.allsock = T.allsock \ O /\ L.nsock = T.nsock - n /\ L.checked = T.checked
      /\ L.closed = T.closed \cup O
  BY <1>1 DEF TableType
<1>7. L \in TableType
  <2>1. T.allsock \ O \in SUBSET Services /\ T.closed \cup O \in SUBSET Services
    BY <1>2 DEF TableType
  <2>2. T.nsock - n \in Int BY <1>3 DEF TableType
  <2> DEFINE a == [s \in Services |-> IF s \in O THEN NoEntry ELSE T.tab[s]]
             b == T.allsock \ O
             c == T.nsock - n
             x == T.closed \cup O
  <2>3. L = [T EXCEPT !.tab = a, !.allsock = b, !.nsock = c, !.closed = x] BY <1>1
  <2>4. a \in [Services -> WeakEntry] /\ b \in SUBSET Services /\ c \in Int /\ x \in SUBSET Services
    BY <1>5, <2>1, <2>2
  <2> HIDE DEF a, b, c, x, L
  <2>5. L \in TableType BY <2>3, <2>4, PurgeType
  <2> QED BY <2>5 DEF L
<1> QED BY <1>6, <1>7 DEF O, n

\* What the entries of a table are.
LEMMA EntryType ==
  ASSUME NEW tb \in [Services -> WeakEntry], NEW s \in Services
  PROVE  /\ tb[s].in \in BOOLEAN /\ tb[s].fd \in BOOLEAN /\ tb[s].reg \in BOOLEAN
         /\ tb[s].wait \in {0, 1} \cup Pids /\ tb[s].count \in Nat
<1>1. tb[s] \in WeakEntry OBVIOUS
<1> QED BY <1>1 DEF WeakEntry

\* The fields of the entries after the lines of one file.
LEMMA LinesEntries ==
  ASSUME NEW T \in TableType, NEW f, NEW fails, NEW s \in Services
  PROVE  LET L == Lines(T, f, fails)
         IN  /\ s \notin Listed(f) => L.tab[s] = T.tab[s]
             /\ s \in Listed(f) =>
                  /\ L.tab[s].in /\ (L.tab[s].fd <=> T.tab[s].fd \/ s \in Opened(T, f, fails))
                  /\ (L.tab[s].reg <=> T.tab[s].reg \/ s \in Opened(T, f, fails))
                  /\ L.tab[s].wait = Enter(T, s)
<1> DEFINE L == Lines(T, f, fails)
<1>1. CASE s \notin Listed(f) BY <1>1, LinesFacts
<1>2. CASE s \in Listed(f)
  <2>1. L.tab[s] = [in |-> TRUE, fd |-> T.tab[s].fd \/ s \in Opened(T, f, fails),
                    reg |-> T.tab[s].reg \/ s \in Opened(T, f, fails),
                    wait |-> Enter(T, s), count |-> T.tab[s].count]
    BY <1>2, LinesFacts
  <2> HIDE DEF L
  <2>2. /\ L.tab[s].in = TRUE /\ L.tab[s].fd = (T.tab[s].fd \/ s \in Opened(T, f, fails))
        /\ L.tab[s].reg = (T.tab[s].reg \/ s \in Opened(T, f, fails))
        /\ L.tab[s].wait = Enter(T, s)
    BY <2>1
  <2> QED BY <1>2, <2>2, Zenon DEF L
<1> QED BY <1>1, <1>2

LEMMA LinesOwned ==
  ASSUME NEW T \in TableType, NEW f, NEW fails, Owned(T.tab, T.allsock, ready)
  PROVE  LET L == Lines(T, f, fails) IN Owned(L.tab, L.allsock, ready)
<1> DEFINE L == Lines(T, f, fails)
           O == Opened(T, f, fails)
<1>1. L.allsock = T.allsock \cup O BY LinesFacts
<1>2. T.tab \in [Services -> WeakEntry] BY DEF TableType
<1>3. ASSUME NEW s \in Services
      PROVE  /\ s \in L.allsock => L.tab[s].fd /\ L.tab[s].wait \in {0, 1}
             /\ L.tab[s].fd => L.tab[s].in
             /\ L.tab[s].reg => L.tab[s].fd
             /\ L.tab[s].wait \notin {0, 1} => L.tab[s].fd
             /\ s \in ready => L.tab[s].wait \in {0, 1}
  <2>1. /\ s \in T.allsock => T.tab[s].fd /\ T.tab[s].wait \in {0, 1}
        /\ T.tab[s].fd => T.tab[s].in
        /\ T.tab[s].reg => T.tab[s].fd
        /\ T.tab[s].wait \notin {0, 1} => T.tab[s].fd
        /\ s \in ready => T.tab[s].wait \in {0, 1}
    BY DEF Owned
  <2>2. s \in O => s \in Listed(f) /\ ~T.tab[s].fd BY <2>1 DEF Opened
  <2>3. T.tab[s].wait \in {0, 1} => Enter(T, s) \in {0, 1} BY EnterType
  <2>4. CASE s \notin Listed(f)
    <3>1. L.tab[s] = T.tab[s] BY <2>4, LinesEntries
    <3>2. s \in L.allsock => s \in T.allsock BY <1>1, <2>2, <2>4
    <3> QED BY <3>1, <3>2, <2>1
  <2>5. CASE s \in Listed(f)
    <3>1. /\ L.tab[s].in /\ (L.tab[s].fd <=> T.tab[s].fd \/ s \in O)
          /\ (L.tab[s].reg <=> T.tab[s].reg \/ s \in O)
          /\ L.tab[s].wait = Enter(T, s)
      BY <2>5, LinesEntries
    <3>2. s \in L.allsock => s \in T.allsock \/ s \in O BY <1>1
    <3> HIDE DEF L, O
    <3> QED BY <3>1, <3>2, <2>1, <2>2, <2>3
  <2> QED BY <2>4, <2>5
<1> QED BY <1>3 DEF Owned

LEMMA LinesRegistered ==
  ASSUME NEW T \in TableType, NEW f, NEW fails, conf \in Confs, KindsFixed,
         Owned(T.tab, T.allsock, ready), Registered(T.tab, T.allsock)
  PROVE  LET L == Lines(T, f, fails) IN Registered(L.tab, L.allsock)
<1> DEFINE L == Lines(T, f, fails)
           O == Opened(T, f, fails)
<1>1. L.allsock = T.allsock \cup O BY LinesFacts
<1>2. T.tab \in [Services -> WeakEntry] BY DEF TableType
<1>3. ASSUME NEW s \in Services
      PROVE  /\ L.tab[s].reg /\ L.tab[s].wait \in {0, 1} => s \in L.allsock
             /\ L.tab[s].wait # 0 => \E c \in Confs : c[s] = "wait"
  <2>1. /\ T.tab[s].reg /\ T.tab[s].wait \in {0, 1} => s \in T.allsock
        /\ T.tab[s].wait # 0 => \E c \in Confs : c[s] = "wait"
        /\ T.tab[s].reg => T.tab[s].in
    BY DEF Owned, Registered
  <2>2. CASE s \notin Listed(f)
    <3>1. L.tab[s] = T.tab[s] BY <2>2, LinesEntries
    <3> QED BY <3>1, <2>1, <1>1
  <2>3. CASE s \in Listed(f)
    <3>1. /\ (L.tab[s].reg <=> T.tab[s].reg \/ s \in O)
          /\ L.tab[s].wait = Enter(T, s)
      BY <2>3, LinesEntries
    <3>2. conf[s] \in {"wait", "nowait"}
      BY <2>3, InetdAssumption DEF Listed, Types
    <3>3. conf[s] = "nowait" => T.tab[s].wait = 0
      BY <2>1 DEF KindsFixed
    <3>4. T.tab[s].wait \in {0, 1} \cup Pids BY <1>2, EntryType
    <3>5. T.tab[s].in /\ T.tab[s].wait \notin {0, 1} => Enter(T, s) = T.tab[s].wait
      BY <3>2, <3>3, <3>4 DEF Enter
    <3>6. Enter(T, s) # 0 => conf[s] = "wait" \/ T.tab[s].wait # 0 BY DEF Enter
    <3>7. Enter(T, s) # 0 => \E c \in Confs : c[s] = "wait" BY <3>6, <2>1
    <3>8. L.tab[s].reg /\ L.tab[s].wait \in {0, 1} => s \in T.allsock \/ s \in O
      <4> HIDE DEF L, O
      <4> QED BY <3>1, <3>5, <2>1
    <3> QED BY <3>1, <3>7, <3>8, <1>1
  <2> QED BY <2>2, <2>3
<1> QED BY <1>3 DEF Registered

LEMMA LinesCounted ==
  ASSUME NEW T \in TableType, NEW f, NEW fails \in SUBSET BindFails, OthersOwn,
         Owned(T.tab, T.allsock, ready), Counted(T.tab, T.allsock, T.nsock, ready)
  PROVE  LET L == Lines(T, f, fails) IN Counted(L.tab, L.allsock, L.nsock, ready)
<1> DEFINE L == Lines(T, f, fails)
           O == Opened(T, f, fails)
<1>1. L.allsock = T.allsock \cup O /\ L.nsock = T.nsock + Cardinality(O) BY LinesFacts
<1>2. T.allsock \in SUBSET Services /\ O \in SUBSET Services BY DEF TableType, Opened, Listed
<1>3. T.allsock \cap O = {} BY DEF Opened, Listed, Owned
<1>4. L.nsock = Cardinality(L.allsock)
  <2>1. IsFiniteSet(T.allsock) /\ IsFiniteSet(O) BY <1>2, Finite
  <2>2. Cardinality(T.allsock \cup O) =
          Cardinality(T.allsock) + Cardinality(O) - Cardinality(T.allsock \cap O)
    BY <2>1, FS_Union
  <2>3. Cardinality(T.allsock \cap O) = 0 BY <1>3, FS_EmptySet
  <2>4. Cardinality(T.allsock) \in Nat /\ Cardinality(O) \in Nat BY <1>2, Finite
  <2>5. T.nsock = Cardinality(T.allsock) BY DEF Counted
  <2> QED BY <2>2, <2>3, <2>4, <2>5, <1>1
<1>5. ASSUME NEW s \in Services \ Stable, L.tab[s].in PROVE s \in L.allsock
  <2>1. s \notin BindFails BY DEF OthersOwn
  <2>2. CASE s \notin Listed(f)
    <3>1. L.tab[s] = T.tab[s] BY <2>2, LinesEntries
    <3> QED BY <3>1, <1>1, <1>5 DEF Counted
  <2>3. CASE s \in Listed(f)
    <3>1. CASE T.tab[s].in BY <3>1, <1>1 DEF Counted
    <3>2. CASE ~T.tab[s].in BY <3>2, <2>1, <2>3, <1>1 DEF Opened
    <3> QED BY <3>1, <3>2
  <2> QED BY <2>2, <2>3
<1> QED BY <1>1, <1>4, <1>5 DEF Counted

LEMMA PurgeOwned ==
  ASSUME NEW T \in TableType, Owned(T.tab, T.allsock, ready)
  PROVE  LET L == Purge(T)
         IN  /\ Owned(L.tab, L.allsock, ready)
             /\ Registered(T.tab, T.allsock) => Registered(L.tab, L.allsock)
<1> DEFINE L == Purge(T)
<1>1. L.allsock = T.allsock \ Out(T) BY PurgeFacts
<1>2. ASSUME NEW s \in Services PROVE L.tab[s] = IF s \in Out(T) THEN NoEntry ELSE T.tab[s]
  BY PurgeFacts
<1>3. /\ NoEntry.in = FALSE /\ NoEntry.fd = FALSE /\ NoEntry.reg = FALSE /\ NoEntry.wait = 0
  BY DEF NoEntry
<1> HIDE DEF L
<1>4. ASSUME NEW s \in Services
      PROVE  /\ s \in L.allsock => L.tab[s].fd /\ L.tab[s].wait \in {0, 1}
             /\ L.tab[s].fd => L.tab[s].in
             /\ L.tab[s].reg => L.tab[s].fd
             /\ L.tab[s].wait \notin {0, 1} => L.tab[s].fd
             /\ s \in ready => L.tab[s].wait \in {0, 1}
  <2>1. CASE s \in Out(T)
    <3>1. L.tab[s] = NoEntry /\ s \notin L.allsock BY <2>1, <1>1, <1>2
    <3> QED BY <3>1, <1>3
  <2>2. CASE s \notin Out(T)
    <3>1. L.tab[s] = T.tab[s] /\ (s \in L.allsock => s \in T.allsock) BY <2>2, <1>1, <1>2
    <3> QED BY <3>1 DEF Owned
  <2> QED BY <2>1, <2>2
<1>5. ASSUME Registered(T.tab, T.allsock), NEW s \in Services
      PROVE  /\ L.tab[s].reg /\ L.tab[s].wait \in {0, 1} => s \in L.allsock
             /\ L.tab[s].wait # 0 => \E c \in Confs : c[s] = "wait"
  <2>1. CASE s \in Out(T) BY <2>1, <1>2, <1>3
  <2>2. CASE s \notin Out(T)
    <3>1. L.tab[s] = T.tab[s] /\ (s \in T.allsock => s \in L.allsock) BY <2>2, <1>1, <1>2
    <3> QED BY <3>1, <1>5 DEF Registered
  <2> QED BY <2>1, <2>2
<1> QED BY <1>4, <1>5 DEF Owned, Registered, L

LEMMA PurgeCounted ==
  ASSUME NEW T \in TableType, OthersOwn, Stable \subseteq T.checked,
         Owned(T.tab, T.allsock, ready), Counted(T.tab, T.allsock, T.nsock, ready)
  PROVE  LET L == Purge(T) IN Counted(L.tab, L.allsock, L.nsock, ready)
<1> DEFINE L == Purge(T)
           O == Out(T)
<1>1. /\ L.allsock = T.allsock \ O
      /\ L.nsock = T.nsock - Cardinality({s \in O : T.tab[s].fd})
  BY PurgeFacts
<1>2. T.allsock \in SUBSET Services /\ O \in SUBSET Services BY DEF TableType, Out
<1>3. O \cap Stable = {} BY DEF Out
<1>4. O \subseteq T.allsock BY <1>2, <1>3 DEF Counted, Out
<1>5. {s \in O : T.tab[s].fd} = O BY <1>4 DEF Owned, Out
<1>6. L.nsock = Cardinality(L.allsock)
  <2>1. IsFiniteSet(T.allsock) BY <1>2, Finite
  <2>2. Cardinality(T.allsock \ O) = Cardinality(T.allsock) - Cardinality(T.allsock \cap O)
    BY <2>1, FS_Difference
  <2>3. T.allsock \cap O = O BY <1>4
  <2>4. T.nsock = Cardinality(T.allsock) BY DEF Counted
  <2> QED BY <2>2, <2>3, <2>4, <1>1, <1>5
<1>7. ASSUME NEW s \in Stable, s \in ready PROVE s \in L.allsock
  BY <1>1, <1>3, <1>7 DEF Counted
<1>8. ASSUME NEW s \in Services \ Stable, L.tab[s].in PROVE s \in L.allsock
  <2>1. L.tab[s] = IF s \in O THEN NoEntry ELSE T.tab[s] BY PurgeFacts
  <2>2. s \notin O /\ T.tab[s].in BY <2>1, <1>8 DEF NoEntry
  <2> QED BY <2>2, <1>1 DEF Counted
<1> QED BY <1>6, <1>7, <1>8 DEF Counted

\* What config() keeps from file to file; w is se_wait of the services of Kept
\* before the first file, or 1 for those not yet in the table, and was is the
\* table then, whose lent sockets are left alone.
TableInv(T, f, w, was) ==
    /\ T \in TableType /\ Owned(T.tab, T.allsock, ready)
    /\ KindsFixed => Registered(T.tab, T.allsock)
    /\ OthersOwn => Counted(T.tab, T.allsock, T.nsock, ready)
    /\ f > 0 => Stable \subseteq T.checked /\ \A s \in Stable : T.tab[s].in
    /\ \A s \in Kept : \/ f = 0 /\ ~T.tab[s].in /\ w[s] = 1
                       \/ T.tab[s].in /\ T.tab[s].wait = w[s]
    /\ \A s \in Services \ T.closed, p \in Pids : Lent(was, s, p) => Lent(T, s, p)

LEMMA FileStep ==
  ASSUME conf \in Confs, NEW T, NEW w, NEW was, NEW f \in Nat, f > 0, NEW fails \in SUBSET BindFails,
         TableInv(T, f - 1, w, was)
  PROVE  TableInv(Purge(Lines(T, f, fails)), f, w, was)
<1> DEFINE L == Lines(T, f, fails)
           P == Purge(L)
<1>1. T \in TableType BY DEF TableInv
<1>2. L \in TableType /\ L.checked = T.checked \cup Listed(f) BY <1>1, LinesFacts
<1>3. P \in TableType /\ P.checked = L.checked BY <1>2, PurgeFacts
<1>4. Owned(L.tab, L.allsock, ready) BY <1>1, LinesOwned DEF TableInv
<1>5. Owned(P.tab, P.allsock, ready) BY <1>2, <1>4, PurgeOwned
<1>6. KindsFixed => Registered(P.tab, P.allsock)
  <2>1. KindsFixed => Registered(L.tab, L.allsock) BY <1>1, LinesRegistered DEF TableInv
  <2> QED BY <2>1, <1>2, <1>4, PurgeOwned
<1>7. Stable \subseteq L.checked
  <2>1. CASE f = 1
    <3>1. Stable \subseteq Listed(f) BY <2>1 DEF Stable, Listed
    <3> QED BY <3>1, <1>2
  <2>2. CASE f # 1
    <3>1. f - 1 > 0 BY <2>2
    <3> QED BY <3>1, <1>2 DEF TableInv
  <2> QED BY <2>1, <2>2
<1>8. OthersOwn => Counted(P.tab, P.allsock, P.nsock, ready)
  <2>1. OthersOwn => Counted(L.tab, L.allsock, L.nsock, ready) BY <1>1, LinesCounted DEF TableInv
  <2> QED BY <2>1, <1>2, <1>4, <1>7, PurgeCounted
<1>9. ASSUME NEW s \in Kept PROVE P.tab[s].in /\ P.tab[s].wait = w[s]
  <2>1. s \in Services /\ s \in Stable /\ FileOf[s] = 1 /\ conf[s] = "wait" BY DEF Kept, Stable
  <2>2. P.tab[s] = L.tab[s]
    <3>1. s \notin Out(L) BY <2>1, <1>7 DEF Out
    <3> QED BY <3>1, <2>1, <1>2, PurgeFacts
  <2>3. CASE f = 1
    <3>1. s \in Listed(f) BY <2>1, <2>3 DEF Listed
    <3>2. L.tab[s].in /\ L.tab[s].wait = Enter(T, s) BY <3>1, <2>1, <1>1, LinesEntries
    <3>3. (~T.tab[s].in /\ w[s] = 1) \/ (T.tab[s].in /\ T.tab[s].wait = w[s]) BY DEF TableInv
    <3>4. Enter(T, s) = w[s] BY <3>3, <2>1 DEF Enter
    <3> QED BY <3>2, <3>4, <2>2
  <2>4. CASE f # 1
    <3>1. s \notin Listed(f) BY <2>1, <2>4 DEF Listed
    <3>2. L.tab[s] = T.tab[s] BY <3>1, <2>1, <1>1, LinesEntries
    <3>3. f - 1 # 0 BY <2>4
    <3>4. T.tab[s].in /\ T.tab[s].wait = w[s] BY <3>3 DEF TableInv
    <3> QED BY <3>2, <3>4, <2>2
  <2> QED BY <2>3, <2>4
<1>10. P.closed = T.closed \cup Out(L)
  <2>1. L.closed = T.closed BY <1>1, LinesFacts
  <2> QED BY <2>1, <1>2, PurgeFacts
<1>11. ASSUME NEW s \in Services \ P.closed, NEW p \in Pids, Lent(was, s, p)
       PROVE  Lent(P, s, p)
  <2>1. Lent(T, s, p) BY <1>10, <1>11 DEF TableInv
  <2>2. s \notin Out(L) BY <1>10
  <2>3. P.tab[s] = L.tab[s] /\ (s \in P.allsock => s \in L.allsock) BY <2>2, <1>2, PurgeFacts
  <2>4. s \notin Opened(T, f, fails) BY <2>1 DEF Opened, Lent
  <2>5. s \notin L.allsock BY <2>1, <2>4, <1>1, LinesFacts DEF Lent
  <2>6. L.tab[s].in /\ L.tab[s].fd /\ L.tab[s].wait \in {0, p}
    <3>1. CASE s \notin Listed(f) BY <3>1, <2>1, <1>1, LinesEntries DEF Lent
    <3>2. CASE s \in Listed(f)
      <4>1. L.tab[s].in /\ (L.tab[s].fd <=> T.tab[s].fd \/ s \in Opened(T, f, fails))
            /\ L.tab[s].wait = Enter(T, s)
        BY <3>2, <1>1, LinesEntries
      <4>2. p # 1 BY InetdAssumption
      <4>3. Enter(T, s) \in {0, p} BY <2>1, <4>2 DEF Enter, Lent
      <4> QED BY <4>1, <4>3, <2>1 DEF Lent
    <3> QED BY <3>1, <3>2
  <2> QED BY <2>3, <2>5, <2>6 DEF Lent
<1>12. ASSUME NEW s \in Stable PROVE P.tab[s].in
  <2>1. s \in Services /\ s \notin Out(L) BY <1>7 DEF Stable, Out
  <2>2. P.tab[s] = L.tab[s] BY <2>1, <1>2, PurgeFacts
  <2>3. CASE s \in Listed(f)
    <3>1. L.tab[s].in BY <2>1, <2>3, <1>1, LinesEntries
    <3> QED BY <3>1, <2>2
  <2>4. CASE s \notin Listed(f)
    <3>1. L.tab[s] = T.tab[s] BY <2>1, <2>4, <1>1, LinesEntries
    <3>2. f # 1 BY <2>4 DEF Stable, Listed
    <3>3. f - 1 > 0 BY <3>2
    <3> QED BY <3>1, <3>3, <2>2 DEF TableInv
  <2> QED BY <2>3, <2>4
<1> HIDE DEF P, L
<1>13. TableInv(P, f, w, was) BY <1>3, <1>5, <1>6, <1>7, <1>8, <1>9, <1>10, <1>11, <1>12 DEF TableInv
<1> QED BY <1>13 DEF P, L

LEMMA MergedInv ==
  ASSUME conf \in Confs, NEW T, NEW w, NEW was, NEW fails \in SUBSET BindFails, TableInv(T, 0, w, was)
  PROVE  TableInv(Merged(T, fails), NFiles, w, was)
<1>1. PICK g : After(g, T, NFiles, fails) /\ Merged(T, fails) = g[NFiles] BY MergedIs
<1>2. NFiles \in Nat BY InetdAssumption
<1>3. ASSUME NEW f \in 0 .. NFiles
      PROVE  g[f] = IF f = 0 THEN T ELSE Purge(Lines(g[f - 1], f, fails))
  BY <1>1 DEF After
<1> DEFINE Bad == {f \in 0 .. NFiles : ~TableInv(g[f], f, w, was)}
<1>4. Bad = {}
  <2> SUFFICES ASSUME Bad # {} PROVE FALSE OBVIOUS
  <2>1. Bad \in SUBSET Nat BY <1>2
  <2>2. PICK f \in Bad : \A y \in Bad : f <= y
    <3> HIDE DEF Bad
    <3> QED BY <2>1, LeastOf
  <2>3. f \in 0 .. NFiles /\ f \in Nat /\ ~TableInv(g[f], f, w, was) BY <1>2
  <2>4. f # 0 BY <2>3, <1>3
  <2>5. f - 1 \in 0 .. NFiles BY <2>3, <2>4, <1>2
  <2>6. f - 1 \notin Bad
    <3> HIDE DEF Bad
    <3> QED BY <2>2, <2>3, <2>5
  <2>7. TableInv(g[f - 1], f - 1, w, was) BY <2>5, <2>6
  <2>8. TableInv(Purge(Lines(g[f - 1], f, fails)), f, w, was) BY <2>3, <2>4, <2>7, FileStep
  <2> QED BY <2>3, <2>4, <2>8, <1>3
<1>5. NFiles \in 0 .. NFiles BY <1>2
<1>6. TableInv(g[NFiles], NFiles, w, was) BY <1>4, <1>5
<1> QED BY <1>1, <1>6

-----------------------------------------------------------------------------
(* The actions.                                                            *)

LEMMA KeptListed == Kept \subseteq Stable /\ Stable \subseteq Services /\ (Stable # {} => NFiles > 0)
  BY InetdAssumption DEF Kept, Stable

\* What config() leaves is what the invariant says, also of fewer sockets to visit.
LEMMA FromTable ==
  ASSUME NEW T, NEW w, NEW was, TableInv(T, NFiles, w, was), NEW R \in SUBSET ready, ready \subseteq Services
  PROVE  /\ Typed(T.tab, T.allsock, R) /\ Owned(T.tab, T.allsock, R)
         /\ KindsFixed => Registered(T.tab, T.allsock)
         /\ OthersOwn => Counted(T.tab, T.allsock, T.nsock, R)
         /\ \A s \in Kept : T.tab[s].in /\ T.tab[s].wait = w[s]
         /\ T.nsock \in Int /\ T.timingout \in BOOLEAN
<1>1. T \in TableType BY DEF TableInv
<1>2. Typed(T.tab, T.allsock, R) /\ T.nsock \in Int /\ T.timingout \in BOOLEAN
  BY <1>1 DEF TableType, Typed
<1>3. Owned(T.tab, T.allsock, R) BY DEF TableInv, Owned
<1>4. OthersOwn => Counted(T.tab, T.allsock, T.nsock, R) BY DEF TableInv, Counted
<1>5. \A s \in Kept : T.tab[s].in /\ T.tab[s].wait = w[s] BY KeptListed DEF TableInv
<1> QED BY <1>2, <1>3, <1>4, <1>5 DEF TableInv

\* The table config() starts with, at first and later.
LEMMA EmptyTable ==
  ASSUME ready = {}
  PROVE  TableInv([tab |-> [s \in Services |-> NoEntry], allsock |-> {}, nsock |-> 0,
                   timingout |-> FALSE, checked |-> {}, closed |-> {}], 0,
                  [s \in Services |-> 1],
                  [tab |-> [s \in Services |-> NoEntry], allsock |-> {}, nsock |-> 0,
                   timingout |-> FALSE, checked |-> {}, closed |-> {}])
<1> DEFINE T0 == [tab |-> [s \in Services |-> NoEntry], allsock |-> {}, nsock |-> 0,
                  timingout |-> FALSE, checked |-> {}, closed |-> {}]
           w == [s \in Services |-> 1]
<1>1. NoEntry \in WeakEntry BY DEF NoEntry, WeakEntry
<1>2. [s \in Services |-> NoEntry] \in [Services -> WeakEntry] BY <1>1
<1>3. T0 \in TableType BY <1>2 DEF TableType
<1>4. NoEntry.in = FALSE /\ NoEntry.fd = FALSE /\ NoEntry.reg = FALSE /\ NoEntry.wait = 0
  BY DEF NoEntry
<1>5. \A s \in Services : T0.tab[s] = NoEntry OBVIOUS
<1>6. T0.allsock = {} /\ T0.nsock = 0 OBVIOUS
<1> HIDE DEF T0
<1>7. Owned(T0.tab, T0.allsock, ready) BY <1>4, <1>5, <1>6 DEF Owned
<1>8. Registered(T0.tab, T0.allsock) BY <1>4, <1>5 DEF Registered
<1>9. Cardinality({}) = 0 BY FS_EmptySet
<1>10. Counted(T0.tab, T0.allsock, T0.nsock, ready) BY <1>4, <1>5, <1>6, <1>9 DEF Counted
<1>11. \A s \in Kept : ~T0.tab[s].in /\ w[s] = 1 BY <1>4, <1>5, KeptListed
<1> HIDE DEF w
<1>12. TableInv(T0, 0, w, T0) BY <1>3, <1>7, <1>8, <1>10, <1>11 DEF TableInv
<1> QED BY <1>12 DEF T0, w

LEMMA OldTable ==
  ASSUME IInv
  PROVE  TableInv(Table, 0, [s \in Services |-> tab[s].wait], Table)
<1> DEFINE w == [s \in Services |-> tab[s].wait]
<1>1. /\ Table.tab = tab /\ Table.allsock = allsock /\ Table.nsock = nsock
      /\ Table.closed = {}
  BY DEF Table
<1>2. Table \in TableType BY DEF IInv, Typed, TableType, Table
<1>3. \A s \in Kept : tab[s].in /\ w[s] = tab[s].wait BY KeptListed DEF IInv, Single
<1> QED BY <1>1, <1>2, <1>3 DEF TableInv, IInv

LEMMA InitInv == Init => IInv
<1> SUFFICES ASSUME Init PROVE IInv OBVIOUS
<1> DEFINE T0 == [tab |-> [s \in Services |-> NoEntry], allsock |-> {}, nsock |-> 0,
                  timingout |-> FALSE, checked |-> {}, closed |-> {}]
           w == [s \in Services |-> 1]
<1>1. conf \in Confs /\ ready = {} /\ ready \subseteq Services BY DEF Init
<1>2. TableInv(T0, 0, w, T0) BY <1>1, EmptyTable
<1>3. PICK fails \in SUBSET BindFails :
        LET T == Merged(T0, fails)
        IN  tab = T.tab /\ allsock = T.allsock /\ nsock = T.nsock /\ timingout = T.timingout
  BY DEF Init
<1> HIDE DEF T0
<1> DEFINE T == Merged(T0, fails)
<1>4. TableInv(T, NFiles, w, T0) BY <1>1, <1>2, MergedInv
<1> HIDE DEF T, w
<1>5. /\ Typed(T.tab, T.allsock, ready) /\ Owned(T.tab, T.allsock, ready)
      /\ KindsFixed => Registered(T.tab, T.allsock)
      /\ OthersOwn => Counted(T.tab, T.allsock, T.nsock, ready)
      /\ \A s \in Kept : T.tab[s].in /\ T.tab[s].wait = w[s]
      /\ T.nsock \in Int /\ T.timingout \in BOOLEAN
  BY <1>1, <1>4, FromTable
<1>6. tab = T.tab /\ allsock = T.allsock /\ nsock = T.nsock /\ timingout = T.timingout
  BY <1>3 DEF T
<1>7. ProcTyped BY DEF Init, ProcTyped
<1>8. Single
  <2>1. \A s \in Kept : w[s] = 1 BY KeptListed DEF w
  <2>2. \A p \in Pids : kid[p] # "live" BY DEF Init
  <2> QED BY <2>1, <2>2, <1>5, <1>6 DEF Single
<1> QED BY <1>1, <1>5, <1>6, <1>7, <1>8 DEF IInv

\* Steps that touch neither the table nor the processes, and visit a socket
\* or none.
LEMMA QuietStep ==
  ASSUME IInv, conf' \in Confs, UNCHANGED <<loopvars, kid, owner>>, ready' \subseteq ready
  PROVE  IInv'
<1>1. Typed(tab, allsock, ready)' BY DEF IInv, Typed, loopvars
<1>2. Owned(tab, allsock, ready)' BY DEF IInv, Owned, loopvars
<1>3. KindsFixed => Registered(tab, allsock)' BY DEF IInv, Registered, loopvars
<1>4. OthersOwn => Counted(tab, allsock, nsock, ready)' BY DEF IInv, Counted, loopvars
<1>5. Single' BY DEF IInv, Single, loopvars
<1>6. ProcTyped' /\ nsock' \in Int /\ timingout' \in BOOLEAN BY DEF IInv, ProcTyped, loopvars
<1> QED BY <1>1, <1>2, <1>3, <1>4, <1>5, <1>6 DEF IInv

LEMMA SelectStep == IInv /\ Select => IInv'
<1> SUFFICES ASSUME IInv, Select PROVE IInv' OBVIOUS
<1>1. UNCHANGED <<conf, loopvars, kid, owner>> /\ ready' \subseteq allsock
  BY DEF Select, Readable, procvars
<1>2. Typed(tab, allsock, ready)' BY <1>1 DEF IInv, Typed, loopvars
<1>3. Owned(tab, allsock, ready)' BY <1>1 DEF IInv, Owned, loopvars
<1>4. KindsFixed => Registered(tab, allsock)' BY <1>1 DEF IInv, Registered, loopvars
<1>5. OthersOwn => Counted(tab, allsock, nsock, ready)' BY <1>1 DEF IInv, Counted, loopvars
<1>6. Single' BY <1>1 DEF IInv, Single, loopvars
<1>7. ProcTyped' /\ nsock' \in Int /\ timingout' \in BOOLEAN BY <1>1 DEF IInv, ProcTyped, loopvars
<1> QED BY <1>1, <1>2, <1>3, <1>4, <1>5, <1>6, <1>7 DEF IInv

LEMMA ExitStep == \A p \in Pids : IInv /\ Exit(p) => IInv'
<1> SUFFICES ASSUME NEW p \in Pids, IInv, Exit(p) PROVE IInv' OBVIOUS
<1>1. UNCHANGED <<conf, loopvars, ready, owner>> /\ kid' = [kid EXCEPT ![p] = "zombie"]
  BY DEF Exit
<1>2. Typed(tab, allsock, ready)' BY <1>1 DEF IInv, Typed, loopvars
<1>3. Owned(tab, allsock, ready)' BY <1>1 DEF IInv, Owned, loopvars
<1>4. KindsFixed => Registered(tab, allsock)' BY <1>1 DEF IInv, Registered, loopvars
<1>5. OthersOwn => Counted(tab, allsock, nsock, ready)' BY <1>1 DEF IInv, Counted, loopvars
<1>6. Single' BY <1>1 DEF IInv, Single, loopvars, ProcTyped
<1>7. ProcTyped' /\ nsock' \in Int /\ timingout' \in BOOLEAN BY <1>1 DEF IInv, ProcTyped, loopvars
<1> QED BY <1>1, <1>2, <1>3, <1>4, <1>5, <1>6, <1>7 DEF IInv

LEMMA ConfigStep == IInv /\ Config => IInv'
<1> SUFFICES ASSUME IInv, Config PROVE IInv' OBVIOUS
<1> DEFINE w == [s \in Services |-> tab[s].wait]
<1>1. PICK fails \in SUBSET BindFails :
        /\ Apply(Merged(Table, fails))
        /\ \E gone \in SUBSET (ready \cap Merged(Table, fails).closed) : ready' = ready \ gone
  BY DEF Config
<1>2. TableInv(Table, 0, w, Table) BY OldTable
<1> DEFINE T == Merged(Table, fails)
<1>3. TableInv(T, NFiles, w, Table) BY <1>2, MergedInv DEF IInv
<1>4. ready' \in SUBSET ready /\ ready \subseteq Services BY <1>1 DEF IInv, Typed
<1>5. tab' = T.tab /\ allsock' = T.allsock /\ nsock' = T.nsock /\ timingout' = T.timingout
  BY <1>1 DEF Apply
<1> HIDE DEF T
<1>6. /\ Typed(T.tab, T.allsock, ready') /\ Owned(T.tab, T.allsock, ready')
      /\ KindsFixed => Registered(T.tab, T.allsock)
      /\ OthersOwn => Counted(T.tab, T.allsock, T.nsock, ready')
      /\ \A s \in Kept : T.tab[s].in /\ T.tab[s].wait = w[s]
      /\ T.nsock \in Int /\ T.timingout \in BOOLEAN
  BY <1>3, <1>4, FromTable
<1>7. UNCHANGED <<conf, kid, owner>> BY DEF Config
<1>8. Single'
  <2>1. \A s \in Kept : w[s] = tab[s].wait BY KeptListed
  <2> QED BY <2>1, <1>5, <1>6, <1>7 DEF Single, IInv
<1>9. ProcTyped' BY <1>7 DEF IInv, ProcTyped
<1> QED BY <1>5, <1>6, <1>7, <1>8, <1>9 DEF IInv

LEMMA ReapChildStep == IInv /\ ReapChild => IInv'
<1> SUFFICES ASSUME IInv, ReapChild PROVE IInv' OBVIOUS
<1> DEFINE back == {s \in Services : tab[s].in /\ tab[s].wait \in Reaped}
<1>1. /\ tab' = [s \in Services |-> IF s \in back THEN [tab[s] EXCEPT !.wait = 1] ELSE tab[s]]
      /\ allsock' = allsock \cup back /\ nsock' = nsock + Cardinality(back)
      /\ kid' = [p \in Pids |-> IF p \in Reaped THEN "free" ELSE kid[p]]
      /\ UNCHANGED <<conf, timingout, ready, owner>>
  BY DEF ReapChild
<1>2. Typed(tab, allsock, ready) /\ Owned(tab, allsock, ready) BY DEF IInv
<1>3. tab \in [Services -> WeakEntry] BY <1>2 DEF Typed
<1>4. back \subseteq Services /\ \A s \in back : tab[s].in /\ tab[s].wait \in Pids /\ tab[s].wait \notin {0, 1}
  BY InetdAssumption DEF Reaped
<1>5. \A s \in back : tab[s].fd BY <1>2, <1>4 DEF Owned
<1> HIDE DEF back
<1>6. ASSUME NEW s \in Services
      PROVE  /\ tab'[s] \in WeakEntry
             /\ tab'[s].in = tab[s].in /\ tab'[s].fd = tab[s].fd /\ tab'[s].reg = tab[s].reg
             /\ tab'[s].wait = IF s \in back THEN 1 ELSE tab[s].wait
  <2>1. tab[s] \in WeakEntry BY <1>3
  <2>2. tab'[s] = IF s \in back THEN [tab[s] EXCEPT !.wait = 1] ELSE tab[s] BY <1>1
  <2> QED BY <2>1, <2>2 DEF WeakEntry
<1>7. tab' \in [Services -> WeakEntry] BY <1>1, <1>6
<1>8. Typed(tab, allsock, ready)' BY <1>1, <1>2, <1>4, <1>7 DEF Typed
<1>9. Owned(tab, allsock, ready)' BY <1>1, <1>2, <1>5, <1>6 DEF Owned
<1>10. KindsFixed => Registered(tab, allsock)'
  <2>1. ASSUME KindsFixed, NEW s \in Services
        PROVE  /\ tab'[s].reg /\ tab'[s].wait \in {0, 1} => s \in allsock'
               /\ tab'[s].wait # 0 => \E c \in Confs : c[s] = "wait"
    <3>1. CASE s \in back
      <4>1. tab[s].wait # 0 BY <3>1, <1>4
      <4>2. \E c \in Confs : c[s] = "wait" BY <4>1, <2>1 DEF IInv, Registered
      <4> QED BY <3>1, <4>2, <1>1
    <3>2. CASE s \notin back BY <3>2, <2>1, <1>1, <1>6 DEF IInv, Registered
    <3> QED BY <3>1, <3>2
  <2> QED BY <2>1 DEF Registered
<1>11. OthersOwn => Counted(tab, allsock, nsock, ready)'
  <2> SUFFICES ASSUME OthersOwn PROVE Counted(tab, allsock, nsock, ready)' OBVIOUS
  <2>1. Counted(tab, allsock, nsock, ready) BY DEF IInv
  <2>2. allsock \in SUBSET Services /\ back \in SUBSET Services BY <1>2, <1>4 DEF Typed
  <2>3. IsFiniteSet(allsock) /\ IsFiniteSet(back) BY <2>2, Finite
  <2>4. allsock \cap back = {} BY <1>2, <1>4 DEF Owned
  <2>5. Cardinality(allsock \cup back) = Cardinality(allsock) + Cardinality(back) - Cardinality(allsock \cap back)
    BY <2>3, FS_Union
  <2>6. Cardinality(allsock \cap back) = 0 BY <2>4, FS_EmptySet
  <2>7. Cardinality(allsock) \in Nat /\ Cardinality(back) \in Nat BY <2>2, Finite
  <2>8. nsock' = Cardinality(allsock') BY <2>1, <2>5, <2>6, <2>7, <1>1 DEF Counted
  <2>9. \A s \in Services \ Stable : tab'[s].in => s \in allsock' BY <2>1, <1>1, <1>6 DEF Counted
  <2>10. \A s \in Stable : s \in ready' => s \in allsock' BY <2>1, <1>1 DEF Counted
  <2> QED BY <2>8, <2>9, <2>10 DEF Counted
<1>12. Single'
  <2>1. ASSUME NEW s \in Kept
        PROVE  /\ tab'[s].in /\ tab'[s].wait # 0
               /\ \A p \in Pids : kid'[p] = "live" /\ owner'[p] = s => p = tab'[s].wait
    <3>1. s \in Services BY KeptListed
    <3>2. /\ tab[s].in /\ tab[s].wait # 0
          /\ \A p \in Pids : kid[p] = "live" /\ owner[p] = s => p = tab[s].wait
      BY DEF IInv, Single
    <3>3. \A p \in Pids : kid'[p] = "live" => kid[p] = "live" BY <1>1
    <3>4. CASE s \notin back BY <3>1, <3>2, <3>3, <3>4, <1>1, <1>6
    <3>5. CASE s \in back
      <4>1. kid[tab[s].wait] = "zombie" BY <3>5 DEF back, Reaped
      <4>2. \A p \in Pids : ~(kid[p] = "live" /\ owner[p] = s) BY <3>2, <4>1
      <4>3. tab'[s].in = tab[s].in /\ tab'[s].wait = 1 BY <3>1, <3>5, <1>6
      <4>4. owner' = owner BY <1>1
      <4> QED BY <3>2, <3>3, <4>2, <4>3, <4>4
    <3> QED BY <3>4, <3>5
  <2> QED BY <2>1 DEF Single
<1>13. ProcTyped' BY <1>1 DEF IInv, ProcTyped
<1>14. nsock' \in Int
  <2>1. back \in SUBSET Services BY <1>4
  <2>2. Cardinality(back) \in Nat BY <2>1, Finite
  <2> QED BY <2>2, <1>1 DEF IInv
<1> QED BY <1>1, <1>8, <1>9, <1>10, <1>11, <1>12, <1>13, <1>14 DEF IInv

LEMMA RetryStep == IInv /\ Retry => IInv'
<1> SUFFICES ASSUME IInv, Retry PROVE IInv' OBVIOUS
<1>1. PICK opened \in SUBSET {s \in Services : tab[s].in /\ ~tab[s].fd} :
        tab' = [s \in Services |-> IF s \in opened THEN [tab[s] EXCEPT !.fd = TRUE] ELSE tab[s]]
  BY DEF Retry
<1>2. UNCHANGED <<conf, allsock, nsock, ready, kid, owner>> BY DEF Retry, procvars
<1>3. timingout' \in BOOLEAN
  <2>1. \E fails : timingout' = (fails # {}) BY DEF Retry
  <2> QED BY <2>1
<1>4. Typed(tab, allsock, ready) /\ Owned(tab, allsock, ready) BY DEF IInv
<1>5. tab \in [Services -> WeakEntry] BY <1>4 DEF Typed
<1>6. ASSUME NEW s \in Services
      PROVE  /\ tab'[s] \in WeakEntry
             /\ tab'[s].in = tab[s].in /\ tab'[s].reg = tab[s].reg /\ tab'[s].wait = tab[s].wait
             /\ tab'[s].fd = IF s \in opened THEN TRUE ELSE tab[s].fd
  <2>1. tab[s] \in WeakEntry BY <1>5
  <2>2. tab'[s] = IF s \in opened THEN [tab[s] EXCEPT !.fd = TRUE] ELSE tab[s] BY <1>1
  <2> QED BY <2>1, <2>2 DEF WeakEntry
<1>7. tab' \in [Services -> WeakEntry] BY <1>1, <1>6
<1>8. \A s \in opened : tab[s].in BY <1>1
<1>9. Typed(tab, allsock, ready)' BY <1>2, <1>4, <1>7 DEF Typed
<1>10. Owned(tab, allsock, ready)' BY <1>2, <1>4, <1>6, <1>8 DEF Owned
<1>11. KindsFixed => Registered(tab, allsock)' BY <1>2, <1>6 DEF IInv, Registered
<1>12. OthersOwn => Counted(tab, allsock, nsock, ready)' BY <1>2, <1>6 DEF IInv, Counted
<1>13. Single' BY <1>2, <1>6, KeptListed DEF IInv, Single
<1>14. ProcTyped' BY <1>2 DEF IInv, ProcTyped
<1> QED BY <1>2, <1>3, <1>9, <1>10, <1>11, <1>12, <1>13, <1>14 DEF IInv

\* What the three ways to serve a socket do to the table: one entry changes.
LEMMA ServeTable ==
  ASSUME IInv, NEW s \in Services, NEW w \in {0, 1} \cup Pids, NEW n \in Nat,
         tab' = [tab EXCEPT ![s].count = n, ![s].wait = w]
  PROVE  /\ tab' \in [Services -> WeakEntry]
         /\ \A x \in Services \ {s} : tab'[x] = tab[x]
         /\ tab'[s].in = tab[s].in /\ tab'[s].fd = tab[s].fd /\ tab'[s].reg = tab[s].reg
         /\ tab'[s].wait = w
<1>1. tab \in [Services -> WeakEntry] /\ tab[s] \in WeakEntry BY DEF IInv, Typed
<1>2. tab' = [tab EXCEPT ![s] = [tab[s] EXCEPT !.count = n, !.wait = w]] BY <1>1 DEF WeakEntry
<1>3. [tab[s] EXCEPT !.count = n, !.wait = w] \in WeakEntry BY <1>1 DEF WeakEntry
<1>4. tab'[s] = [tab[s] EXCEPT !.count = n, !.wait = w] BY <1>1, <1>2
<1>5. /\ tab'[s].in = tab[s].in /\ tab'[s].fd = tab[s].fd /\ tab'[s].reg = tab[s].reg
      /\ tab'[s].wait = w
  BY <1>1, <1>4 DEF WeakEntry
<1> QED BY <1>1, <1>2, <1>3, <1>5

\* A service that forks and whose socket the loop visits is selected on.
LEMMA Visited ==
  ASSUME IInv, OthersOwn, NEW s \in ready, s \notin Internal
  PROVE  s \in Stable /\ s \in allsock
  BY DEF IInv, Typed, OthersOwn, Counted

LEMMA TakeOne ==
  ASSUME NEW S \in SUBSET Services, NEW s \in S
  PROVE  Cardinality(S \ {s}) = Cardinality(S) - 1
<1>1. IsFiniteSet(S) BY Finite
<1> QED BY <1>1, FS_RemoveElement

LEMMA ServeStep == \A s \in Services, p \in Pids : IInv /\ Serve(s, p) => IInv'
<1> SUFFICES ASSUME NEW s \in Services, NEW p \in Pids, IInv, Serve(s, p) PROVE IInv' OBVIOUS
<1> DEFINE w == IF tab[s].wait = 0 THEN 0 ELSE p
           n == IF OverLimit(s) THEN 1 ELSE tab[s].count + 1
<1>1. Typed(tab, allsock, ready) /\ Owned(tab, allsock, ready) BY DEF IInv
<1>2. tab \in [Services -> WeakEntry] BY <1>1 DEF Typed
<1>3. /\ s \in ready /\ ready' = ready \ {s} /\ tab[s].fd /\ s \notin Internal
      /\ kid[p] = "free" /\ kid' = [kid EXCEPT ![p] = "live"] /\ owner' = [owner EXCEPT ![p] = s]
      /\ UNCHANGED <<conf, timingout>>
      /\ tab[s].wait = 0 => UNCHANGED <<allsock, nsock>>
      /\ tab[s].wait # 0 => allsock' = allsock \ {s} /\ nsock' = nsock - 1
  BY DEF Serve
<1>4. tab' = [tab EXCEPT ![s].count = n, ![s].wait = w] BY DEF Serve
<1>5. tab[s].wait \in {0, 1} /\ tab[s].count \in Nat BY <1>1, <1>2, <1>3, EntryType DEF Owned
<1>6. w \in {0, 1} \cup Pids /\ n \in Nat /\ (w \notin {0, 1} <=> tab[s].wait # 0)
  BY <1>5, InetdAssumption
<1>7. (tab[s].wait # 0 => w = p) /\ (tab[s].wait = 0 => w = 0) OBVIOUS
<1> HIDE DEF w, n
<1>8. /\ tab' \in [Services -> WeakEntry]
      /\ \A x \in Services \ {s} : tab'[x] = tab[x]
      /\ tab'[s].in = tab[s].in /\ tab'[s].fd = tab[s].fd /\ tab'[s].reg = tab[s].reg
      /\ tab'[s].wait = w
  BY <1>4, <1>6, ServeTable
<1>9. allsock' \subseteq allsock /\ allsock \ allsock' \subseteq {s} /\ (tab[s].wait # 0 => s \notin allsock')
  BY <1>3
<1>10. Typed(tab, allsock, ready)' BY <1>1, <1>3, <1>8, <1>9 DEF Typed
<1>11. Owned(tab, allsock, ready)'
  <2>1. ASSUME NEW x \in Services
        PROVE  /\ x \in allsock' => tab'[x].fd /\ tab'[x].wait \in {0, 1}
               /\ tab'[x].fd => tab'[x].in
               /\ tab'[x].reg => tab'[x].fd
               /\ tab'[x].wait \notin {0, 1} => tab'[x].fd
               /\ x \in ready' => tab'[x].wait \in {0, 1}
    <3>1. CASE x = s BY <3>1, <1>1, <1>3, <1>6, <1>8, <1>9 DEF Owned
    <3>2. CASE x # s
      <4>1. tab'[x] = tab[x] BY <3>2, <1>8
      <4> QED BY <4>1, <1>1, <1>3, <1>9 DEF Owned
    <3> QED BY <3>1, <3>2
  <2> QED BY <2>1 DEF Owned
<1>12. KindsFixed => Registered(tab, allsock)'
  <2>1. ASSUME KindsFixed, NEW x \in Services
        PROVE  /\ tab'[x].reg /\ tab'[x].wait \in {0, 1} => x \in allsock'
               /\ tab'[x].wait # 0 => \E c \in Confs : c[x] = "wait"
    <3>1. Registered(tab, allsock) BY <2>1 DEF IInv
    <3>2. CASE x # s
      <4>1. tab'[x] = tab[x] /\ (x \in allsock => x \in allsock') BY <3>2, <1>8, <1>9
      <4> QED BY <4>1, <3>1 DEF Registered
    <3>3. CASE x = s
      <4>1. CASE tab[s].wait = 0
        <5>1. allsock' = allsock /\ tab'[s].wait = 0 BY <4>1, <1>3, <1>7, <1>8
        <5> QED BY <5>1, <4>1, <3>1, <3>3, <1>8 DEF Registered
      <4>2. CASE tab[s].wait # 0
        <5>1. tab'[s].wait \notin {0, 1} BY <4>2, <1>6, <1>8
        <5> QED BY <5>1, <4>2, <3>1, <3>3 DEF Registered
      <4> QED BY <4>1, <4>2
    <3> QED BY <3>2, <3>3
  <2> QED BY <2>1 DEF Registered
<1>13. OthersOwn => Counted(tab, allsock, nsock, ready)'
  <2> SUFFICES ASSUME OthersOwn PROVE Counted(tab, allsock, nsock, ready)' OBVIOUS
  <2>1. Counted(tab, allsock, nsock, ready) BY DEF IInv
  <2>2. s \in Stable /\ s \in allsock BY <1>3, Visited
  <2>3. nsock' = Cardinality(allsock')
    <3>1. CASE tab[s].wait = 0 BY <3>1, <2>1, <1>3 DEF Counted
    <3>2. CASE tab[s].wait # 0
      <4>1. Cardinality(allsock \ {s}) = Cardinality(allsock) - 1 BY <2>2, <1>1, TakeOne DEF Typed
      <4> QED BY <3>2, <4>1, <2>1, <1>3 DEF Counted
    <3> QED BY <3>1, <3>2
  <2>4. \A x \in Stable : x \in ready' => x \in allsock' BY <2>1, <1>3, <1>9 DEF Counted
  <2>5. ASSUME NEW x \in Services \ Stable, tab'[x].in PROVE x \in allsock'
    <3>1. x # s BY <2>2
    <3>2. tab'[x] = tab[x] BY <3>1, <1>8
    <3> QED BY <3>1, <3>2, <2>1, <2>5, <1>9 DEF Counted
  <2> QED BY <2>3, <2>4, <2>5 DEF Counted
<1>14. Single'
  <2>1. ASSUME NEW x \in Kept
        PROVE  /\ tab'[x].in /\ tab'[x].wait # 0
               /\ \A q \in Pids : kid'[q] = "live" /\ owner'[q] = x => q = tab'[x].wait
    <3>1. /\ tab[x].in /\ tab[x].wait # 0
          /\ \A q \in Pids : kid[q] = "live" /\ owner[q] = x => q = tab[x].wait
      BY DEF IInv, Single
    <3>2. x \in Services BY KeptListed
    <3>3. \A q \in Pids \ {p} : kid'[q] = kid[q] /\ owner'[q] = owner[q]
      BY <1>3 DEF IInv, ProcTyped
    <3>4. owner'[p] = s BY <1>3 DEF IInv, ProcTyped
    <3>5. CASE x # s
      <4>1. tab'[x] = tab[x] BY <3>2, <3>5, <1>8
      <4> QED BY <4>1, <3>1, <3>3, <3>4, <3>5
    <3>6. CASE x = s
      <4>1. w = p /\ tab[s].wait = 1 BY <3>1, <3>6, <1>5, <1>7
      <4>2. \A q \in Pids : ~(kid[q] = "live" /\ owner[q] = s)
        BY <3>1, <3>6, <4>1, InetdAssumption
      <4>3. tab'[s].in /\ tab'[s].wait = p /\ p # 0 BY <3>1, <3>6, <4>1, <1>8, InetdAssumption
      <4> QED BY <3>3, <3>6, <4>2, <4>3
    <3> QED BY <3>5, <3>6
  <2> QED BY <2>1 DEF Single
<1>15. ProcTyped' BY <1>3 DEF IInv, ProcTyped
<1>16. nsock' \in Int /\ timingout' \in BOOLEAN /\ conf' \in Confs BY <1>3 DEF IInv
<1> QED BY <1>10, <1>11, <1>12, <1>13, <1>14, <1>15, <1>16 DEF IInv

LEMMA ForkFailsStep == \A s \in Services : IInv /\ ForkFails(s) => IInv'
<1> SUFFICES ASSUME NEW s \in Services, IInv, ForkFails(s) PROVE IInv' OBVIOUS
<1> DEFINE n == IF OverLimit(s) THEN 1 ELSE tab[s].count + 1
<1>1. tab \in [Services -> WeakEntry] /\ tab[s] \in WeakEntry BY DEF IInv, Typed
<1>2. /\ ready' = ready \ {s} /\ UNCHANGED <<conf, allsock, nsock, timingout, kid, owner>>
      /\ tab' = [tab EXCEPT ![s].count = n]
  BY DEF ForkFails, procvars
<1>3. n \in Nat BY <1>1 DEF WeakEntry
<1> HIDE DEF n
<1>4. ASSUME NEW x \in Services
      PROVE  /\ tab'[x] \in WeakEntry /\ tab'[x].in = tab[x].in /\ tab'[x].fd = tab[x].fd
             /\ tab'[x].reg = tab[x].reg /\ tab'[x].wait = tab[x].wait
  <2>1. tab[x] \in WeakEntry BY <1>1
  <2>2. tab'[x] = IF x = s THEN [tab[s] EXCEPT !.count = n] ELSE tab[x] BY <1>1, <1>2
  <2> QED BY <2>1, <2>2, <1>3 DEF WeakEntry
<1>5. tab' \in [Services -> WeakEntry] BY <1>1, <1>2, <1>4
<1>6. Typed(tab, allsock, ready)' BY <1>2, <1>5 DEF IInv, Typed
<1>7. Owned(tab, allsock, ready)' BY <1>2, <1>4 DEF IInv, Owned
<1>8. KindsFixed => Registered(tab, allsock)' BY <1>2, <1>4 DEF IInv, Registered
<1>9. OthersOwn => Counted(tab, allsock, nsock, ready)' BY <1>2, <1>4 DEF IInv, Counted
<1>10. Single' BY <1>2, <1>4, KeptListed DEF IInv, Single
<1>11. ProcTyped' BY <1>2 DEF IInv, ProcTyped
<1> QED BY <1>2, <1>6, <1>7, <1>8, <1>9, <1>10, <1>11 DEF IInv

LEMMA TerminateStep == \A s \in Services : IInv /\ Terminate(s) => IInv'
<1> SUFFICES ASSUME NEW s \in Services, IInv, Terminate(s) PROVE IInv' OBVIOUS
<1> DEFINE w == IF tab[s].wait = 0 THEN 0 ELSE 1
           e == [in |-> TRUE, fd |-> FALSE, reg |-> FALSE, count |-> 0, wait |-> w]
<1>1. Typed(tab, allsock, ready) /\ Owned(tab, allsock, ready) BY DEF IInv
<1>2. tab \in [Services -> WeakEntry] BY <1>1 DEF Typed
<1>3. /\ s \in ready /\ ready' = ready \ {s} /\ s \notin Internal
      /\ allsock' = allsock \ {s} /\ nsock' = nsock - 1
      /\ timingout' = TRUE /\ UNCHANGED <<conf, kid, owner>>
      /\ tab' = [tab EXCEPT ![s] = e]
  BY DEF Terminate
<1>4. tab[s].wait \in {0, 1} /\ w = tab[s].wait BY <1>1, <1>3 DEF Owned
<1>5. e \in WeakEntry BY <1>4 DEF WeakEntry
<1>6. e.in = TRUE /\ e.fd = FALSE /\ e.reg = FALSE /\ e.wait = tab[s].wait BY <1>4
<1> HIDE DEF e, w
<1>7. tab' \in [Services -> WeakEntry] /\ tab'[s] = e /\ \A x \in Services \ {s} : tab'[x] = tab[x]
  BY <1>2, <1>3, <1>5
<1>8. Typed(tab, allsock, ready)' BY <1>1, <1>3, <1>7 DEF Typed
<1>9. Owned(tab, allsock, ready)'
  <2>1. ASSUME NEW x \in Services
        PROVE  /\ x \in allsock' => tab'[x].fd /\ tab'[x].wait \in {0, 1}
               /\ tab'[x].fd => tab'[x].in
               /\ tab'[x].reg => tab'[x].fd
               /\ tab'[x].wait \notin {0, 1} => tab'[x].fd
               /\ x \in ready' => tab'[x].wait \in {0, 1}
    <3>1. CASE x = s BY <3>1, <1>3, <1>4, <1>6, <1>7
    <3>2. CASE x # s
      <4>1. tab'[x] = tab[x] BY <3>2, <1>7
      <4> QED BY <4>1, <1>1, <1>3 DEF Owned
    <3> QED BY <3>1, <3>2
  <2> QED BY <2>1 DEF Owned
<1>10. KindsFixed => Registered(tab, allsock)'
  <2>1. ASSUME KindsFixed, NEW x \in Services
        PROVE  /\ tab'[x].reg /\ tab'[x].wait \in {0, 1} => x \in allsock'
               /\ tab'[x].wait # 0 => \E c \in Confs : c[x] = "wait"
    <3>1. Registered(tab, allsock) BY <2>1 DEF IInv
    <3>2. CASE x = s BY <3>1, <3>2, <1>6, <1>7 DEF Registered
    <3>3. CASE x # s
      <4>1. tab'[x] = tab[x] BY <3>3, <1>7
      <4> QED BY <4>1, <3>1, <3>3, <1>3 DEF Registered
    <3> QED BY <3>2, <3>3
  <2> QED BY <2>1 DEF Registered
<1>11. OthersOwn => Counted(tab, allsock, nsock, ready)'
  <2> SUFFICES ASSUME OthersOwn PROVE Counted(tab, allsock, nsock, ready)' OBVIOUS
  <2>1. Counted(tab, allsock, nsock, ready) BY DEF IInv
  <2>2. s \in Stable /\ s \in allsock BY <1>3, Visited
  <2>3. Cardinality(allsock \ {s}) = Cardinality(allsock) - 1 BY <2>2, <1>1, TakeOne DEF Typed
  <2>4. nsock' = Cardinality(allsock') BY <2>1, <2>3, <1>3 DEF Counted
  <2>5. \A x \in Stable : x \in ready' => x \in allsock' BY <2>1, <1>3 DEF Counted
  <2>6. ASSUME NEW x \in Services \ Stable, tab'[x].in PROVE x \in allsock'
    <3>1. x # s BY <2>2
    <3>2. tab'[x] = tab[x] BY <3>1, <1>7
    <3> QED BY <3>1, <3>2, <2>1, <2>6, <1>3 DEF Counted
  <2> QED BY <2>4, <2>5, <2>6 DEF Counted
<1>12. Single'
  <2>1. ASSUME NEW x \in Kept
        PROVE  tab'[x].in /\ tab'[x].wait = tab[x].wait
    <3>1. x \in Services /\ tab[x].in BY KeptListed DEF IInv, Single
    <3> QED BY <3>1, <1>6, <1>7
  <2> QED BY <2>1, <1>3 DEF IInv, Single
<1>13. ProcTyped' BY <1>3 DEF IInv, ProcTyped
<1>14. nsock' \in Int /\ timingout' \in BOOLEAN /\ conf' \in Confs BY <1>3 DEF IInv
<1> QED BY <1>8, <1>9, <1>10, <1>11, <1>12, <1>13, <1>14 DEF IInv

LEMMA Invariance == Spec => []IInv
<1>1. IInv /\ [Next]_vars => IInv'
  <2> SUFFICES ASSUME IInv, [Next]_vars PROVE IInv' OBVIOUS
  <2>1. conf \in Confs BY DEF IInv
  <2>2. CASE UNCHANGED vars BY <2>1, <2>2, QuietStep DEF vars, procvars
  <2>3. CASE Select BY <2>3, SelectStep
  <2>4. ASSUME NEW s \in Services, Skip(s) \/ ServeInternal(s) PROVE IInv'
    BY <2>1, <2>4, QuietStep DEF Skip, ServeInternal, procvars
  <2>5. ASSUME NEW s \in Services, ForkFails(s) PROVE IInv' BY <2>5, ForkFailsStep
  <2>6. ASSUME NEW s \in Services, Terminate(s) PROVE IInv' BY <2>6, TerminateStep
  <2>7. ASSUME NEW s \in Services, NEW p \in Pids, Serve(s, p) PROVE IInv' BY <2>7, ServeStep
  <2>8. CASE Config BY <2>8, ConfigStep
  <2>9. CASE ReapChild BY <2>9, ReapChildStep
  <2>10. CASE Retry BY <2>10, RetryStep
  <2>11. ASSUME NEW s \in Services, Request(s) PROVE IInv'
    BY <2>1, <2>11, QuietStep DEF Request, procvars
  <2>12. CASE Hangup BY <2>12, QuietStep DEF Hangup, procvars
  <2>13. ASSUME NEW p \in Pids, Read(p) PROVE IInv'
    BY <2>1, <2>13, QuietStep DEF Read, procvars
  <2>14. ASSUME NEW p \in Pids, Exit(p) PROVE IInv' BY <2>14, ExitStep
  <2> QED BY <2>2, <2>3, <2>4, <2>5, <2>6, <2>7, <2>8, <2>9, <2>10, <2>11, <2>12, <2>13, <2>14
          DEF Next, Loop, Handlers, World
<1> QED BY <1>1, InitInv, PTL DEF Spec

-----------------------------------------------------------------------------
(* The theorems.                                                           *)

\* A socket is never lost to both inetd and the server, and never shared: for
\* any table, files in any order, binds that fail, servers that are shut off
\* and signals at any time, as long as no edit of the files turns a
\* single-threaded service into another kind.
THEOREM SocketOwnerCorrect == ASSUME KindsFixed PROVE Spec => []SocketOwner
<1>1. IInv => SocketOwner BY DEF IInv, Owned, Registered, SocketOwner
<1> QED BY <1>1, Invariance, PTL

\* nsock does not drift, if the services a reload may close, those that are not
\* listed first or not always, are inetd's own and can be bound.
THEOREM NsockCorrect == ASSUME OthersOwn PROVE Spec => []NsockCounts
<1>1. IInv => NsockCounts BY DEF IInv, Counted, NsockCounts
<1> QED BY <1>1, Invariance, PTL

\* One server at a time, for services that wait and are always listed, in the
\* first file: through any reload, any pid used again, any order of the deaths
\* of servers.
THEOREM SingleThreadedCorrect == ASSUME WaitKept PROVE Spec => []SingleThreaded
<1>1. IInv => SingleThreaded
  <2> SUFFICES ASSUME IInv, NEW s \in Services, conf[s] = "wait"
               PROVE  Cardinality({p \in Pids : kid[p] = "live" /\ owner[p] = s}) <= 1
    BY DEF SingleThreaded
  <2> DEFINE S == {p \in Pids : kid[p] = "live" /\ owner[p] = s}
  <2>1. s \in Kept BY DEF IInv, WaitKept
  <2>2. \A p \in S : p = tab[s].wait BY <2>1 DEF IInv, Single
  <2>3. CASE S = {} BY <2>3, FS_EmptySet
  <2>4. CASE S # {}
    <3>1. S = {tab[s].wait} BY <2>2, <2>4
    <3>2. Cardinality(S) = 1 BY <3>1, FS_Singleton
    <3> QED BY <3>2
  <2> QED BY <2>3, <2>4
<1> QED BY <1>1, Invariance, PTL

-----------------------------------------------------------------------------
(* What inetd itself takes from a socket is there.                         *)

\* Steps that leave the table and the processes alone.
LEMMA WaitingQuiet ==
  ASSUME IInv, Waiting, UNCHANGED <<tab, allsock, kid, owner, holds>>, pend' \in [Services -> Nat],
         ready' \subseteq ready \cup allsock,
         \A s \in ready' \cap (Stream \cup Internal) : s \in stale' \/ pend'[s] > 0
  PROVE  Waiting'
<1>1. Holding' BY DEF Waiting, Holding, Lent, Table
<1> QED BY <1>1 DEF Waiting

\* A service the loop has visited: its request is taken or its socket lent.
LEMMA WaitingVisit ==
  ASSUME IInv, Waiting, NEW s \in Services, s \in ready, ready' = ready \ {s}, UNCHANGED stale,
         pend' \in [Services -> Nat], \A x \in Services \ {s} : pend'[x] = pend[x],
         Holding'
  PROVE  Waiting'
<1>1. ASSUME NEW x \in ready' \cap (Stream \cup Internal) PROVE x \in stale' \/ pend'[x] > 0
  <2>1. x \in Services \ {s} /\ x \in ready BY DEF IInv, Typed
  <2> QED BY <2>1, <1>1 DEF Waiting
<1> QED BY <1>1 DEF Waiting

\* No process has the stream the loop visits, so none is disturbed by what
\* becomes of its entry.
LEMMA HoldingVisit ==
  ASSUME IInv, Waiting, NEW s \in Services, s \in ready, ready' = ready \ {s},
         holds' \subseteq holds, UNCHANGED <<kid, owner>>, allsock' \subseteq allsock,
         \A x \in Services \ {s} : tab'[x] = tab[x]
  PROVE  Holding'
<1>1. ASSUME NEW p \in holds'
      PROVE  /\ p \in Pids /\ kid'[p] = "live" /\ owner'[p] \notin Internal
             /\ owner'[p] \in Stream => Lent(Table, owner[p], p)' /\ owner'[p] \notin ready'
  <2>1. /\ p \in Pids /\ kid[p] = "live" /\ owner[p] \notin Internal
        /\ owner[p] \in Stream => Lent(Table, owner[p], p) /\ owner[p] \notin ready
    BY DEF Waiting, Holding
  <2>2. ASSUME owner[p] \in Stream PROVE Lent(Table, owner[p], p)'
    <3>1. owner[p] \in Services \ {s} BY <2>1, <2>2, InetdAssumption
    <3> QED BY <3>1, <2>1, <2>2 DEF Lent, Table
  <2> QED BY <2>1, <2>2
<1> QED BY <1>1 DEF Holding

LEMMA WaitingServe ==
  ASSUME IInv, Waiting, NEW s \in Services, NEW p \in Pids, Serve(s, p)
  PROVE  Waiting'
<1> DEFINE w == IF tab[s].wait = 0 THEN 0 ELSE p
           n == IF OverLimit(s) THEN 1 ELSE tab[s].count + 1
<1>1. tab \in [Services -> WeakEntry] BY DEF IInv, Typed
<1>2. /\ s \in ready /\ tab[s].fd /\ s \notin Internal /\ ready' = ready \ {s} /\ UNCHANGED stale
      /\ Accept(s)
      /\ kid[p] = "free" /\ kid' = [kid EXCEPT ![p] = "live"] /\ owner' = [owner EXCEPT ![p] = s]
      /\ holds' = IF Accepts(s) THEN holds ELSE holds \cup {p}
      /\ tab' = [tab EXCEPT ![s].count = n, ![s].wait = w]
      /\ allsock' = IF tab[s].wait = 0 THEN allsock ELSE allsock \ {s}
  BY DEF Serve
<1>3. tab[s].count \in Nat /\ tab[s].wait \in {0, 1} \cup Pids BY <1>1, EntryType
<1>4. w \in {0, 1} \cup Pids /\ n \in Nat BY <1>3, InetdAssumption
<1>5. tab[s].wait # 0 => w = p OBVIOUS
<1> HIDE DEF w, n
<1>6. /\ \A x \in Services \ {s} : tab'[x] = tab[x]
      /\ tab'[s].in = tab[s].in /\ tab'[s].fd = tab[s].fd /\ tab'[s].wait = w
  BY <1>2, <1>4, <1>1, ServeTable
<1>7. pend' \in [Services -> Nat] /\ \A x \in Services \ {s} : pend'[x] = pend[x]
  BY <1>2 DEF Accept, Waiting
<1>8. ASSUME NEW q \in holds'
      PROVE  /\ q \in Pids /\ kid'[q] = "live" /\ owner'[q] \notin Internal
             /\ owner'[q] \in Stream => Lent(Table, owner[q], q)' /\ owner'[q] \notin ready'
  <2>1. CASE q = p
    <3>1. p \notin holds BY <1>2 DEF Waiting, Holding
    <3>2. ~Accepts(s) BY <2>1, <3>1, <1>2, <1>8
    <3>3. owner'[p] = s /\ kid'[p] = "live" BY <1>2 DEF IInv, ProcTyped
    <3>4. tab[s].in BY <1>2 DEF IInv, Owned
    <3>5. ASSUME s \in Stream PROVE Lent(Table, s, p)'
      <4>1. tab[s].wait # 0 BY <3>2, <3>5 DEF Accepts
      <4> QED BY <4>1, <1>2, <1>5, <1>6, <3>4 DEF Lent, Table
    <3> QED BY <2>1, <3>3, <3>5, <1>2
  <2>2. CASE q # p
    <3>1. q \in holds BY <2>2, <1>2, <1>8
    <3>2. /\ q \in Pids /\ kid[q] = "live" /\ owner[q] \notin Internal
          /\ owner[q] \in Stream => Lent(Table, owner[q], q) /\ owner[q] \notin ready
      BY <3>1 DEF Waiting, Holding
    <3>3. owner'[q] = owner[q] /\ kid'[q] = kid[q] BY <2>2, <3>2, <1>2 DEF IInv, ProcTyped
    <3>4. ASSUME owner[q] \in Stream PROVE Lent(Table, owner[q], q)'
      <4>1. owner[q] \in Services \ {s} BY <3>2, <3>4, <1>2, InetdAssumption
      <4>2. tab'[owner[q]] = tab[owner[q]] /\ (owner[q] \in allsock' => owner[q] \in allsock)
        BY <4>1, <1>2, <1>6
      <4>3. Lent(Table, owner[q], q) BY <3>2, <3>4
      <4> QED BY <4>2, <4>3, <3>3 DEF Lent, Table
    <3> QED BY <3>2, <3>3, <3>4, <1>2
  <2> QED BY <2>1, <2>2
<1>9. Holding' BY <1>8 DEF Holding
<1> QED BY <1>2, <1>7, <1>9, WaitingVisit

LEMMA WaitingForkFails ==
  ASSUME IInv, Waiting, NEW s \in Services, ForkFails(s) PROVE Waiting'
<1>1. tab \in [Services -> WeakEntry] BY DEF IInv, Typed
<1>2. /\ s \in ready /\ ready' = ready \ {s} /\ UNCHANGED <<stale, allsock, kid, owner, holds>>
      /\ Accept(s) /\ \A x \in Services \ {s} : tab'[x] = tab[x]
  BY <1>1 DEF ForkFails, procvars
<1>3. pend' \in [Services -> Nat] /\ \A x \in Services \ {s} : pend'[x] = pend[x]
  BY <1>2 DEF Accept, Waiting
<1>4. Holding' BY <1>2, HoldingVisit
<1> QED BY <1>2, <1>3, <1>4, WaitingVisit

LEMMA WaitingTerminate ==
  ASSUME IInv, Waiting, NEW s \in Services, Terminate(s) PROVE Waiting'
<1>1. tab \in [Services -> WeakEntry] BY DEF IInv, Typed
<1>2. /\ s \in ready /\ ready' = ready \ {s} /\ UNCHANGED <<stale, kid, owner>>
      /\ holds' \subseteq holds /\ allsock' \subseteq allsock /\ pend' = [pend EXCEPT ![s] = 0]
      /\ \A x \in Services \ {s} : tab'[x] = tab[x]
  BY <1>1 DEF Terminate
<1>3. pend' \in [Services -> Nat] /\ \A x \in Services \ {s} : pend'[x] = pend[x]
  BY <1>2 DEF Waiting
<1>4. Holding' BY <1>2, HoldingVisit
<1> QED BY <1>2, <1>3, <1>4, WaitingVisit

LEMMA WaitingInternal ==
  ASSUME IInv, Waiting, NEW s \in Services, Skip(s) \/ ServeInternal(s) PROVE Waiting'
<1>1. s \in ready /\ ready' = ready \ {s} /\ UNCHANGED <<stale, tab, allsock, kid, owner, holds>>
  BY DEF Skip, ServeInternal, loopvars, procvars
<1>2. pend' \in [Services -> Nat] /\ \A x \in Services \ {s} : pend'[x] = pend[x]
  BY DEF Waiting, Skip, ServeInternal
<1>3. Holding' BY <1>1, HoldingVisit
<1> QED BY <1>1, <1>2, <1>3, WaitingVisit

\* Servers that take a request or exit.
LEMMA WaitingRead ==
  ASSUME IInv, Waiting, NEW p \in Pids, Read(p) PROVE Waiting'
<1> DEFINE o == owner[p]
<1>1. /\ p \in holds /\ pend[o] > 0 /\ pend' = [pend EXCEPT ![o] = pend[o] - 1]
      /\ UNCHANGED <<tab, allsock, ready, stale, kid, owner, holds>>
  BY DEF Read, loopvars, procvars
<1>2. o \notin Internal /\ (o \in Stream => o \notin ready) BY <1>1 DEF Waiting, Holding
<1> HIDE DEF o
<1>3. pend' \in [Services -> Nat]
  <2>1. CASE o \in Services BY <2>1, <1>1 DEF Waiting
  <2>2. CASE o \notin Services BY <2>2, <1>1 DEF Waiting
  <2> QED BY <2>1, <2>2
<1>4. ASSUME NEW s \in ready' \cap (Stream \cup Internal) PROVE s \in stale' \/ pend'[s] > 0
  <2>1. s # o BY <1>1, <1>2, <1>4
  <2>2. s \in Services BY <1>1 DEF IInv, Typed
  <2>3. pend'[s] = pend[s] BY <2>1, <2>2, <1>1 DEF Waiting
  <2> QED BY <2>3, <1>1, <1>4 DEF Waiting
<1> QED BY <1>1, <1>3, <1>4, WaitingQuiet

LEMMA WaitingExit == ASSUME IInv, Waiting, NEW p \in Pids, Exit(p) PROVE Waiting'
<1>1. /\ kid' = [kid EXCEPT ![p] = "zombie"] /\ holds' = holds \ {p}
      /\ UNCHANGED <<tab, allsock, pend, ready, stale, owner>>
  BY DEF Exit, loopvars
<1>2. Holding' BY <1>1 DEF IInv, ProcTyped, Waiting, Holding, Lent, Table
<1> QED BY <1>1, <1>2 DEF Waiting

\* The handlers: of SIGHUP, whatever it closes, of SIGCHLD and of SIGALRM.
LEMMA WaitingConfig == ASSUME IInv, Waiting, Config PROVE Waiting'
<1> DEFINE w == [s \in Services |-> tab[s].wait]
<1>1. PICK fails \in SUBSET BindFails :
        LET T == Merged(Table, fails)
        IN  /\ Apply(T)
            /\ pend' = [s \in Services |-> IF s \in T.closed THEN 0 ELSE pend[s]]
            /\ holds' = {p \in holds : owner[p] \notin T.closed}
            /\ \E gone \in SUBSET (ready \cap T.closed) : ready' = ready \ gone
            /\ stale' = (stale \cup T.closed) \cap ready'
  BY DEF Config
<1> DEFINE T == Merged(Table, fails)
<1>2. TableInv(Table, 0, w, Table) BY OldTable
<1>3. TableInv(T, NFiles, w, Table) BY <1>2, MergedInv DEF IInv
<1>4. /\ tab' = T.tab /\ allsock' = T.allsock /\ ready' \subseteq ready
      /\ holds' = {p \in holds : owner[p] \notin T.closed}
      /\ pend' = [s \in Services |-> IF s \in T.closed THEN 0 ELSE pend[s]]
      /\ stale' = (stale \cup T.closed) \cap ready'
      /\ UNCHANGED <<kid, owner>>
  BY <1>1 DEF Apply, Config
<1> HIDE DEF T
<1>5. ASSUME NEW p \in holds'
      PROVE  /\ p \in Pids /\ kid'[p] = "live" /\ owner'[p] \notin Internal
             /\ owner'[p] \in Stream => Lent(Table, owner[p], p)' /\ owner'[p] \notin ready'
  <2>1. /\ p \in Pids /\ kid[p] = "live" /\ owner[p] \notin Internal
        /\ owner[p] \in Stream => Lent(Table, owner[p], p) /\ owner[p] \notin ready
    BY <1>4 DEF Waiting, Holding
  <2>2. ASSUME owner[p] \in Stream PROVE Lent(Table, owner[p], p)'
    <3>1. owner[p] \in Services \ T.closed BY <2>2, <1>4, InetdAssumption
    <3>2. Lent(T, owner[p], p) BY <3>1, <2>1, <2>2, <1>3 DEF TableInv
    <3> QED BY <3>2, <1>4 DEF Lent, Table
  <2> QED BY <2>1, <2>2, <1>4
<1>6. Holding' BY <1>5 DEF Holding
<1>7. pend' \in [Services -> Nat] BY <1>4 DEF Waiting
<1>8. ASSUME NEW s \in ready' \cap (Stream \cup Internal) PROVE s \in stale' \/ pend'[s] > 0
  <2>1. s \in Services /\ s \in ready BY <1>4 DEF IInv, Typed
  <2>2. s \in T.closed => s \in stale' BY <1>4
  <2>3. s \in stale => s \in stale' BY <1>4
  <2>4. s \notin T.closed => pend'[s] = pend[s] BY <1>4, <2>1
  <2> QED BY <2>1, <2>2, <2>3, <2>4 DEF Waiting
<1> QED BY <1>6, <1>7, <1>8 DEF Waiting

LEMMA WaitingReapChild == ASSUME IInv, Waiting, ReapChild PROVE Waiting'
<1> DEFINE back == {s \in Services : tab[s].in /\ tab[s].wait \in Reaped}
<1>1. /\ tab' = [s \in Services |-> IF s \in back THEN [tab[s] EXCEPT !.wait = 1] ELSE tab[s]]
      /\ allsock' = allsock \cup back
      /\ kid' = [p \in Pids |-> IF p \in Reaped THEN "free" ELSE kid[p]]
      /\ UNCHANGED <<pend, ready, stale, owner, holds>>
  BY DEF ReapChild
<1>2. ASSUME NEW p \in holds'
      PROVE  /\ p \in Pids /\ kid'[p] = "live" /\ owner'[p] \notin Internal
             /\ owner'[p] \in Stream => Lent(Table, owner[p], p)' /\ owner'[p] \notin ready'
  <2>1. /\ p \in Pids /\ kid[p] = "live" /\ owner[p] \notin Internal
        /\ owner[p] \in Stream => Lent(Table, owner[p], p) /\ owner[p] \notin ready
    BY <1>1 DEF Waiting, Holding
  <2>2. p \notin Reaped BY <2>1 DEF Reaped
  <2>3. kid'[p] = "live" BY <2>1, <2>2, <1>1
  <2>4. ASSUME owner[p] \in Stream PROVE Lent(Table, owner[p], p)'
    <3>1. owner[p] \in Services BY <2>4, InetdAssumption
    <3>2. Lent(Table, owner[p], p) BY <2>1, <2>4
    <3>3. 0 \notin Reaped BY InetdAssumption DEF Reaped
    <3>4. owner[p] \notin back BY <3>2, <3>3, <2>2 DEF Lent, Table
    <3> HIDE DEF back
    <3>5. tab'[owner[p]] = tab[owner[p]] BY <3>1, <3>4, <1>1
    <3>6. owner'[p] = owner[p] /\ (owner[p] \in allsock' => owner[p] \in allsock) BY <3>4, <1>1
    <3> QED BY <3>2, <3>5, <3>6 DEF Lent, Table
  <2> QED BY <2>1, <2>3, <2>4, <1>1
<1>3. Holding' BY <1>2 DEF Holding
<1>4. UNCHANGED <<pend, ready, stale>> BY <1>1
<1> QED BY <1>3, <1>4 DEF Waiting

LEMMA WaitingRetry == ASSUME IInv, Waiting, Retry PROVE Waiting'
<1>1. PICK opened \in SUBSET {s \in Services : tab[s].in /\ ~tab[s].fd} :
        tab' = [s \in Services |-> IF s \in opened THEN [tab[s] EXCEPT !.fd = TRUE] ELSE tab[s]]
  BY DEF Retry
<1>2. UNCHANGED <<allsock, pend, ready, stale, kid, owner, holds>> BY DEF Retry, procvars
<1>3. ASSUME NEW p \in holds', owner[p] \in Stream PROVE Lent(Table, owner[p], p)'
  <2>1. owner[p] \in Services /\ Lent(Table, owner[p], p)
    BY <1>2, <1>3, InetdAssumption DEF Waiting, Holding
  <2>2. owner[p] \notin opened BY <2>1 DEF Lent, Table
  <2>3. tab'[owner[p]] = tab[owner[p]] BY <2>1, <2>2, <1>1
  <2> QED BY <2>1, <2>3, <1>2 DEF Lent, Table
<1>4. Holding' BY <1>2, <1>3 DEF Waiting, Holding
<1> QED BY <1>2, <1>4 DEF Waiting

\* The main loop calls accept(), and its own services read, on sockets that
\* block: all services then wait for that client.  The only way to it is a
\* reload that closes a reported socket and opens it again; no server, child
\* death, alarm, shut-off or edit of the files that leaves the socket open
\* takes away what select() reported.
THEOREM BlocksOnReloadOnlyCorrect == Spec => []BlocksOnReloadOnly
<1>1. Init => Waiting BY DEF Init, Waiting, Holding
<1>2. IInv /\ Waiting /\ [Next]_vars => Waiting'
  <2> SUFFICES ASSUME IInv, Waiting, [Next]_vars PROVE Waiting' OBVIOUS
  <2>1. CASE UNCHANGED vars BY <2>1, WaitingQuiet DEF vars, loopvars, procvars, Waiting
  <2>2. CASE Select
    <3>1. /\ UNCHANGED <<tab, allsock, pend, kid, owner, holds>> /\ ready' \subseteq allsock
          /\ \A s \in ready' : pend[s] > 0
      BY <2>2 DEF Select, Readable, loopvars, procvars
    <3> QED BY <3>1, WaitingQuiet DEF Waiting
  <2>3. ASSUME NEW s \in Services, Skip(s) \/ ServeInternal(s) PROVE Waiting'
    BY <2>3, WaitingInternal
  <2>4. ASSUME NEW s \in Services, ForkFails(s) PROVE Waiting' BY <2>4, WaitingForkFails
  <2>5. ASSUME NEW s \in Services, Terminate(s) PROVE Waiting' BY <2>5, WaitingTerminate
  <2>6. ASSUME NEW s \in Services, NEW p \in Pids, Serve(s, p) PROVE Waiting'
    BY <2>6, WaitingServe
  <2>7. CASE Config BY <2>7, WaitingConfig
  <2>8. CASE ReapChild BY <2>8, WaitingReapChild
  <2>9. CASE Retry BY <2>9, WaitingRetry
  <2>10. ASSUME NEW s \in Services, Request(s) PROVE Waiting'
    <3>1. /\ UNCHANGED <<tab, allsock, ready, stale, kid, owner, holds>>
          /\ pend' = [pend EXCEPT ![s] = pend[s] + 1]
      BY <2>10 DEF Request, loopvars, procvars
    <3>2. pend' \in [Services -> Nat] /\ \A x \in Services : pend'[x] >= pend[x]
      BY <3>1 DEF Waiting
    <3>3. \A x \in ready : x \in Services /\ pend[x] \in Nat /\ pend'[x] \in Nat
      BY <3>2 DEF IInv, Typed, Waiting
    <3>4. ASSUME NEW x \in ready' \cap (Stream \cup Internal) PROVE x \in stale' \/ pend'[x] > 0
      <4>1. x \in stale \/ pend[x] > 0 BY <3>1, <3>4 DEF Waiting
      <4> QED BY <4>1, <3>1, <3>2, <3>3
    <3> QED BY <3>1, <3>2, <3>4, WaitingQuiet
  <2>11. CASE Hangup
    <3>1. UNCHANGED <<tab, allsock, pend, ready, stale, kid, owner, holds>>
      BY <2>11 DEF Hangup, loopvars, procvars
    <3> QED BY <3>1, WaitingQuiet DEF Waiting
  <2>12. ASSUME NEW p \in Pids, Read(p) PROVE Waiting' BY <2>12, WaitingRead
  <2>13. ASSUME NEW p \in Pids, Exit(p) PROVE Waiting' BY <2>13, WaitingExit
  <2> QED BY <2>1, <2>2, <2>3, <2>4, <2>5, <2>6, <2>7, <2>8, <2>9, <2>10, <2>11, <2>12, <2>13
          DEF Next, Loop, Handlers, World
<1>3. IInv /\ Waiting => BlocksOnReloadOnly
  BY DEF Waiting, IInv, Typed, BlocksOnReloadOnly, TakenHere, Accepts
<1> QED BY <1>1, <1>2, <1>3, Invariance, PTL DEF Spec
=============================================================================
