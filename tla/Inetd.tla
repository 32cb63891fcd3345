-------------------------------- MODULE Inetd --------------------------------
(***************************************************************************)
(* src/src/inetd.c: the service table, the set of sockets the main loop    *)
(* selects on, the servers it starts, and the three signal handlers that   *)
(* change all of this: config() on SIGHUP, reapchild() on SIGCHLD and      *)
(* retry() on SIGALRM.  Handlers run where the main loop has not blocked   *)
(* them: while it waits, and between two services of one select().         *)
(*                                                                         *)
(* A service of the configuration is one entry of servtab (one address).   *)
(* "internal" services, which inetd serves without a fork, and external    *)
(* ones are modelled; tcpmux is not.                                       *)
(***************************************************************************)
EXTENDS Integers, FiniteSets

CONSTANTS
    Services,     \* names of services
    Internal,     \* services with se_bi set and bi_fork not: no fork
    Stream,       \* services of socket type SOCK_STREAM
    FileOf,       \* number of the configuration file that lists a service
    NFiles,       \* number of configuration files
    Confs,        \* contents the administrator may give the files
    Max,          \* se_max of each service, 0 if none
    TooMany,      \* toomany
    Pids,         \* process ids, all greater than 1
    BindFails,    \* services whose bind() may fail
    MaxRequests,  \* bound: requests of clients
    MaxSignals    \* bound: hangup signals sent to inetd

Types == {"none", "wait", "nowait"}

ASSUME InetdAssumption ==
    /\ Internal \subseteq Services /\ Stream \subseteq Services
    /\ BindFails \subseteq Services
    /\ FileOf \in [Services -> 1 .. NFiles] /\ NFiles \in Nat
    /\ Confs \subseteq [Services -> Types] /\ Confs # {}
    /\ Max \in [Services -> Nat] /\ TooMany \in Nat
    /\ Pids \subseteq Nat \ {0, 1} /\ IsFiniteSet(Pids)
    /\ IsFiniteSet(Services)
    /\ MaxRequests \in Nat /\ MaxSignals \in Nat

VARIABLES
    conf,       \* what the configuration files say: [Services -> Types]
    tab,        \* servtab and the descriptors: see Tables
    allsock,    \* services whose descriptor is in allsock
    nsock,      \* nsock
    timingout,  \* timingout, which is also whether the alarm is running
    pend,       \* requests waiting on the socket of each service
    ready,      \* services whose descriptor is still set in "readable"
    stale,      \* history: those of them that a reload closed after select()
    kid,        \* state of each process: "free", "live" or "zombie"
    owner,      \* the service each process was started for
    holds,      \* processes that were given the socket of their service
    chld, hup,  \* whether SIGCHLD and SIGHUP are pending
    requests, signals

loopvars == <<tab, allsock, nsock, timingout>>
procvars == <<kid, owner, holds, chld>>
vars == <<conf, loopvars, pend, ready, stale, procvars, hup, requests, signals>>

\* An entry of servtab: whether there is one, se_fd >= 0, whether
\* servent_setup() has made the socket listen and put it into allsock since it
\* was opened, se_wait and se_count.
Entry == [in: BOOLEAN, fd: BOOLEAN, reg: BOOLEAN, wait: {0, 1} \cup Pids,
          count: 0 .. TooMany + 1]
NoEntry == [in |-> FALSE, fd |-> FALSE, reg |-> FALSE, wait |-> 0, count |-> 0]

TypeOK ==
    /\ conf \in [Services -> Types]
    /\ tab \in [Services -> Entry]
    /\ allsock \subseteq Services /\ nsock \in Nat /\ timingout \in BOOLEAN
    /\ pend \in [Services -> Nat] /\ ready \subseteq Services /\ stale \subseteq Services
    /\ kid \in [Pids -> {"free", "live", "zombie"}] /\ owner \in [Pids -> Services]
    /\ holds \subseteq Pids /\ chld \in BOOLEAN /\ hup \in BOOLEAN
    /\ requests \in 0 .. MaxRequests /\ signals \in 0 .. MaxSignals

-----------------------------------------------------------------------------
(* config(): reading the files.  T is a record of the variables it changes.*)

\* enter(): se_wait of an entry found again, and of a new one.
EnterForgetsPid(T, s) == IF conf[s] = "wait" THEN 1 ELSE 0
Enter(T, s) ==
    LET said == IF conf[s] = "wait" THEN 1 ELSE 0
    IN  IF ~T.tab[s].in THEN said
        ELSE IF s \notin Internal /\ (T.tab[s].wait = 1 \/ said = 0) THEN said
        ELSE T.tab[s].wait

\* The lines of file f: expand_enter() with servent_setup(), bind() failing
\* for the services in "fails", which starts the alarm.
Lines(T, f, fails) ==
    LET E == {s \in Services : FileOf[s] = f /\ conf[s] # "none"}
        tried == {s \in E : ~T.tab[s].in \/ ~T.tab[s].fd}
        opened == tried \ fails
    IN  [T EXCEPT
          !.tab = [s \in Services |->
                     IF s \notin E THEN T.tab[s]
                     ELSE [in |-> TRUE, fd |-> T.tab[s].fd \/ s \in opened,
                           reg |-> T.tab[s].reg \/ s \in opened,
                           wait |-> Enter(T, s), count |-> T.tab[s].count]],
          !.allsock = @ \cup opened,
          !.nsock = @ + Cardinality(opened),
          !.timingout = @ \/ tried \cap fails # {},
          !.checked = @ \cup E]

\* "Purge anything not looked at above", at the end of each file.
Purge(T) ==
    LET out == {s \in Services : T.tab[s].in /\ s \notin T.checked}
    IN  [T EXCEPT
          !.tab = [s \in Services |-> IF s \in out THEN NoEntry ELSE T.tab[s]],
          !.allsock = @ \ out,
          !.nsock = @ - Cardinality({s \in out : T.tab[s].fd}),
          !.closed = @ \cup out]

\* config(): all files in turn.
Merged(T, fails) ==
    LET after[f \in 0 .. NFiles] ==
          IF f = 0 THEN T ELSE Purge(Lines(after[f - 1], f, fails))
    IN  after[NFiles]

Table == [tab |-> tab, allsock |-> allsock, nsock |-> nsock,
          timingout |-> timingout, checked |-> {}, closed |-> {}]

Apply(T) == /\ tab' = T.tab /\ allsock' = T.allsock /\ nsock' = T.nsock
            /\ timingout' = T.timingout

Init ==
    /\ conf \in Confs
    /\ \E fails \in SUBSET BindFails :
         LET T == Merged([tab |-> [s \in Services |-> NoEntry], allsock |-> {}, nsock |-> 0,
                          timingout |-> FALSE, checked |-> {}, closed |-> {}], fails)
         IN  tab = T.tab /\ allsock = T.allsock /\ nsock = T.nsock /\ timingout = T.timingout
    /\ pend = [s \in Services |-> 0] /\ ready = {} /\ stale = {}
    /\ kid = [p \in Pids |-> "free"] /\ holds = {}
    /\ owner = [p \in Pids |-> CHOOSE s \in Services : TRUE]
    /\ chld = FALSE /\ hup = FALSE /\ requests = 0 /\ signals = 0

-----------------------------------------------------------------------------
(* The world outside: clients, the administrator, the servers started.     *)

\* A client sends a datagram to an open socket or connects to a listening one.
Request(s) ==
    /\ requests < MaxRequests /\ IF s \in Stream THEN tab[s].reg ELSE tab[s].fd
    /\ requests' = requests + 1
    /\ pend' = [pend EXCEPT ![s] = @ + 1]
    /\ UNCHANGED <<conf, loopvars, ready, procvars, stale, hup, signals>>

\* The administrator edits the files, or leaves them, and sends SIGHUP.
Hangup ==
    /\ signals < MaxSignals
    /\ signals' = signals + 1 /\ hup' = TRUE
    /\ conf' \in Confs
    /\ UNCHANGED <<loopvars, pend, ready, stale, procvars, requests>>

\* A server that was given the socket of the service takes a request from it.
Read(p) ==
    /\ kid[p] = "live" /\ p \in holds /\ pend[owner[p]] > 0
    /\ pend' = [pend EXCEPT ![owner[p]] = @ - 1]
    /\ UNCHANGED <<conf, loopvars, ready, procvars, stale, hup, requests, signals>>

\* A server exits.
Exit(p) ==
    /\ kid[p] = "live"
    /\ kid' = [kid EXCEPT ![p] = "zombie"] /\ chld' = TRUE /\ holds' = holds \ {p}
    /\ UNCHANGED <<conf, loopvars, pend, ready, owner, stale, hup, requests, signals>>

-----------------------------------------------------------------------------
(* The handlers.                                                           *)

\* config() on SIGHUP.  A descriptor closed and opened again may have the
\* number it had, so its bit may or may not survive in "readable".
Config ==
    /\ hup /\ hup' = FALSE
    /\ \E fails \in SUBSET BindFails :
         LET T == Merged(Table, fails)
         IN  /\ Apply(T)
             /\ pend' = [s \in Services |-> IF s \in T.closed THEN 0 ELSE pend[s]]
             /\ holds' = {p \in holds : owner[p] \notin T.closed}
             /\ \E gone \in SUBSET (ready \cap T.closed) : ready' = ready \ gone
             /\ stale' = (stale \cup T.closed) \cap ready'
    /\ UNCHANGED <<conf, kid, owner, chld, requests, signals>>

\* Which of the dead children one SIGCHLD deals with: wait3 in a loop.
ReapedOne == {p \in Pids : kid[p] = "zombie" /\ \A q \in Pids : kid[q] = "zombie" => p <= q}
Reaped == {p \in Pids : kid[p] = "zombie"}

\* reapchild() on SIGCHLD: the sockets of wait services come back.
ReapChild ==
    /\ chld /\ chld' = FALSE
    /\ LET back == {s \in Services : tab[s].in /\ tab[s].wait \in Reaped}
       IN  /\ tab' = [s \in Services |-> IF s \in back THEN [tab[s] EXCEPT !.wait = 1] ELSE tab[s]]
           /\ allsock' = allsock \cup back
           /\ nsock' = nsock + Cardinality(back)
    /\ kid' = [p \in Pids |-> IF p \in Reaped THEN "free" ELSE kid[p]]
    /\ UNCHANGED <<conf, timingout, pend, ready, owner, holds, stale, hup, requests, signals>>

\* retry() on SIGALRM: setup(), which opens and binds a socket; it does not
\* put it into allsock, as servent_setup() does.
Retry ==
    /\ timingout
    /\ LET tried == {s \in Services : tab[s].in /\ ~tab[s].fd}
       IN  \E fails \in SUBSET (tried \cap BindFails) :
             /\ tab' = [s \in Services |-> IF s \in tried \ fails
                                           THEN [tab[s] EXCEPT !.fd = TRUE] ELSE tab[s]]
             /\ timingout' = (fails # {})
    /\ UNCHANGED <<conf, allsock, nsock, pend, ready, procvars, stale, hup, requests, signals>>

-----------------------------------------------------------------------------
(* The main loop.                                                          *)

\* The descriptors select() leaves in "readable".
ReadableAll == allsock
Readable == {s \in allsock : pend[s] > 0}

\* select(), which is called only when nsock is not zero.
Select ==
    /\ ready = {} /\ nsock # 0
    /\ Readable # {} /\ ready' = Readable /\ stale' = {}
    /\ UNCHANGED <<conf, loopvars, pend, procvars, hup, requests, signals>>

\* Entries the loop passes over: descriptor gone since select().
Skip(s) ==
    /\ s \in ready /\ ~tab[s].fd
    /\ ready' = ready \ {s}
    /\ UNCHANGED <<conf, loopvars, pend, procvars, stale, hup, requests, signals>>

\* accept() for nowait services on streams, which waits for a connection.
Accepts(s) == tab[s].wait = 0 /\ s \in Stream
Accept(s) ==
    IF Accepts(s) THEN pend[s] > 0 /\ pend' = [pend EXCEPT ![s] = @ - 1]
                  ELSE UNCHANGED pend

\* A service that inetd provides without a fork takes the request itself.
ServeInternal(s) ==
    /\ s \in ready /\ tab[s].fd /\ s \in Internal
    /\ ready' = ready \ {s}
    /\ pend[s] > 0 /\ pend' = [pend EXCEPT ![s] = @ - 1]
    /\ UNCHANGED <<conf, loopvars, procvars, stale, hup, requests, signals>>

\* The invocation that the rate limit objects to.
OverLimit(s) == /\ tab[s].count > 0
                /\ \/ Max[s] > 0 /\ tab[s].count + 1 > Max[s]
                   \/ tab[s].count + 1 >= TooMany

\* A server is started: fork() with the handlers blocked.  Where the limit is
\* reached but the minute is over, counting starts again.
ServeKeepsSocket(s, p) ==
    /\ s \in ready /\ tab[s].fd /\ s \notin Internal
    /\ ready' = ready \ {s}
    /\ Accept(s)
    /\ kid[p] = "free" /\ kid' = [kid EXCEPT ![p] = "live"] /\ owner' = [owner EXCEPT ![p] = s]
    /\ holds' = IF Accepts(s) THEN holds ELSE holds \cup {p}
    /\ tab' = [tab EXCEPT ![s].count = IF OverLimit(s) THEN 1 ELSE @ + 1,
                          ![s].wait = IF @ = 0 THEN 0 ELSE p]
    /\ UNCHANGED <<conf, allsock, nsock, timingout, chld, stale, hup, requests, signals>>
Serve(s, p) ==
    /\ s \in ready /\ tab[s].fd /\ s \notin Internal
    /\ ready' = ready \ {s}
    /\ Accept(s)
    /\ kid[p] = "free" /\ kid' = [kid EXCEPT ![p] = "live"] /\ owner' = [owner EXCEPT ![p] = s]
    /\ holds' = IF Accepts(s) THEN holds ELSE holds \cup {p}
    /\ tab' = [tab EXCEPT ![s].count = IF OverLimit(s) THEN 1 ELSE @ + 1,
                          ![s].wait = IF @ = 0 THEN 0 ELSE p]
    /\ IF tab[s].wait = 0 THEN UNCHANGED <<allsock, nsock>>
                          ELSE allsock' = allsock \ {s} /\ nsock' = nsock - 1
    /\ UNCHANGED <<conf, timingout, chld, stale, hup, requests, signals>>

\* fork() fails.
ForkFails(s) ==
    /\ s \in ready /\ tab[s].fd /\ s \notin Internal
    /\ ready' = ready \ {s}
    /\ Accept(s)
    /\ tab' = [tab EXCEPT ![s].count = IF OverLimit(s) THEN 1 ELSE @ + 1]
    /\ UNCHANGED <<conf, allsock, nsock, timingout, procvars, stale, hup, requests, signals>>

\* "server failing (looping), service terminated": close_sep(), and the alarm.
Terminate(s) ==
    /\ s \in ready /\ tab[s].fd /\ s \notin Internal
    /\ OverLimit(s)
    /\ ready' = ready \ {s}
    /\ tab' = [tab EXCEPT ![s] = [in |-> TRUE, fd |-> FALSE, reg |-> FALSE, count |-> 0,
                                  wait |-> IF @.wait = 0 THEN 0 ELSE 1]]
    /\ allsock' = allsock \ {s} /\ nsock' = nsock - 1
    /\ timingout' = TRUE
    /\ pend' = [pend EXCEPT ![s] = 0]
    /\ holds' = {p \in holds : owner[p] # s}
    /\ UNCHANGED <<conf, kid, owner, chld, stale, hup, requests, signals>>

-----------------------------------------------------------------------------
Loop == \/ Select
        \/ \E s \in Services : Skip(s) \/ ServeInternal(s) \/ ForkFails(s) \/ Terminate(s)
        \/ \E s \in Services, p \in Pids : Serve(s, p)

Handlers == Config \/ ReapChild \/ Retry

World == \/ \E s \in Services : Request(s)
         \/ Hangup
         \/ \E p \in Pids : Read(p) \/ Exit(p)

Next == Loop \/ Handlers \/ World

Spec == Init /\ [][Next]_vars

\* The loop goes on, signals are delivered, the alarm goes off, fork()
\* succeeds in the end, and servers finish and, if they are started again and
\* again, read; nothing is assumed of clients and administrator.
Fairness ==
    /\ WF_vars(Select) /\ WF_vars(ReapChild) /\ WF_vars(Config) /\ WF_vars(Retry)
    /\ \A s \in Services : /\ WF_vars(Skip(s)) /\ WF_vars(ServeInternal(s))
                            /\ SF_vars(\E p \in Pids : Serve(s, p))
                            /\ SF_vars(\E p \in Pids : owner[p] = s /\ Read(p))
    /\ \A p \in Pids : WF_vars(Exit(p))

FairSpec == Spec /\ Fairness
-----------------------------------------------------------------------------
(* Properties.                                                             *)

\* nsock, which decides whether the loop waits on the sockets or pauses
\* until a signal, is the number of sockets in allsock.
NsockCounts == nsock = Cardinality(allsock)

\* A socket that servent_setup() registered is selected on exactly while no
\* server of a wait service has it: it is never lost to both, and never
\* shared.
SocketOwner ==
    \A s \in Services :
        /\ s \in allsock => tab[s].fd /\ tab[s].wait \in {0, 1}
        /\ tab[s].reg /\ tab[s].wait \in {0, 1} => s \in allsock

\* "wait" services are single-threaded: no second server runs beside one.
SingleThreaded ==
    \A s \in Services : conf[s] = "wait" =>
        Cardinality({p \in Pids : kid[p] = "live" /\ owner[p] = s}) <= 1

\* inetd itself takes the request, on a socket that blocks: for its own
\* services, and by accept().
TakenHere(s) == s \in Internal \/ Accepts(s)

\* The loop asks for a request that is not there, and so stops all services,
\* only on a socket that a reload closed and opened again after select() had
\* reported it: no server takes the request first, whatever kind of service
\* the files make of it, and no other handler puts a bit out of date.
BlocksOnReloadOnly ==
    \A s \in ready : tab[s].fd /\ TakenHere(s) /\ pend[s] = 0 => s \in stale

\* Requests do not stay on a socket for ever: they are taken by a server or
\* by inetd, unless the rate limit shuts the service off.
RequestsTaken == \A s \in Services : pend[s] > 0 ~> pend[s] = 0 \/ ~tab[s].reg

\* The socket of a wait service comes back from the server that took it.
SocketRestored == \A s \in Services : tab[s].wait \notin {0, 1} ~> tab[s].wait \in {0, 1}

\* A service in the table with no usable socket is set up again.
Reenabled == \A s \in Services : tab[s].in /\ s \notin allsock ~> s \in allsock \/ ~tab[s].in
=============================================================================
