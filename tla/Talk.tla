-------------------------------- MODULE Talk --------------------------------
(***************************************************************************)
(* talk and talkd (src/talk, src/talkd): the rendezvous of talk processes  *)
(* through the daemons of their machines, each a table of invitations.     *)
(* Requests and responses are datagrams; the processes then meet over TCP. *)
(*                                                                         *)
(* Time passes in periods of RING_WAIT, which is also the alarm interval   *)
(* of the daemons: a transaction is over within one, and a datagram that   *)
(* has not arrived by the end of it is lost.                               *)
(***************************************************************************)
EXTENDS Integers, Sequences, SequencesExt

CONSTANTS
    Users, Hosts,     \* users, and the machines with their daemons
    HostOf,           \* the machine of each user
    Clients,          \* talk processes
    Me, Peer,         \* l_name and r_name of each process
    None,             \* no process
    MaxId,            \* MAX_ID; also stands for (uint32_t) -1
    MaxIdle,          \* max_idle_time, in periods
    SetjmpSavesMask,  \* whether setjmp saves the signal mask on this system
    MaxRings,         \* bound: how often processes ring again
    MaxFaults         \* bound: requests sent twice and interrupt characters typed

ASSUME TalkAssumption ==
    /\ HostOf \in [Users -> Hosts]
    /\ Me \in [Clients -> Users] /\ Peer \in [Clients -> Users]
    /\ \A c \in Clients : Me[c] # Peer[c]
    /\ None \notin Clients
    /\ MaxId \in Nat \ {0, 1} /\ MaxIdle \in Nat \ {0}
    /\ SetjmpSavesMask \in BOOLEAN /\ MaxRings \in Nat /\ MaxFaults \in Nat

VARIABLES
    reqs, resps,    \* datagrams to daemons, and to processes
    table,          \* table of each daemon, the newest entry first
    currentId,      \* current_id in new_id()
    idle,           \* periods since last_msg_time
    pc,             \* where each process is
    msgId,          \* msg.id_num
    localId, remoteId,
    conn,           \* the process at the other end of sockt
    dropped,        \* connections lost by a longjmp out of accept()
    due,            \* processes whose SIGALRM is pending
    blocked,        \* processes that have SIGALRM blocked
    rings, faults

netvars == <<reqs, resps>>
daemonvars == <<table, currentId, idle>>
clientvars == <<pc, msgId, localId, remoteId, conn, dropped, due, blocked, rings, faults>>
vars == <<netvars, daemonvars, clientvars>>

Types == {"LOOK_UP", "DELETE", "ANNOUNCE", "LEAVE_INVITE"}
Ids == 0 .. MaxId

\* ctl_transact() is called from these places, with these types of message.
TypeOf == [lookup |-> "LOOK_UP", delstale |-> "DELETE", announce |-> "ANNOUNCE",
           leave |-> "LEAVE_INVITE", dellocal |-> "DELETE", delremote |-> "DELETE"]
Transacting(c) == pc[c] \in DOMAIN TypeOf
Mine == {"leave", "dellocal"}   \* those to the daemon on the own machine

Entry == [type: {"ANNOUNCE", "LEAVE_INVITE"}, by: Clients, id: 1 .. MaxId - 1]
Request == [to: Hosts, from: Clients, type: Types, id: Ids]
Response == [to: Clients, type: Types, success: BOOLEAN, id: Ids, addr: Clients \cup {None}]

TypeOK ==
    /\ reqs \subseteq Request /\ resps \subseteq Response
    /\ table \in [Hosts -> Seq(Entry)]
    /\ currentId \in [Hosts -> 0 .. MaxId - 1] /\ idle \in [Hosts -> 0 .. MaxIdle]
    /\ pc \in [Clients -> DOMAIN TypeOf \cup {"off", "accept", "edit", "talk", "quit"}]
    /\ msgId \in [Clients -> Ids]
    /\ localId \in [Clients -> Ids] /\ remoteId \in [Clients -> Ids]
    /\ conn \in [Clients -> Clients \cup {None}]
    /\ dropped \subseteq Clients /\ due \subseteq Clients /\ blocked \subseteq Clients
    /\ rings \in 0 .. MaxRings /\ faults \in 0 .. MaxFaults

Init ==
    /\ reqs = {} /\ resps = {}
    /\ table = [h \in Hosts |-> <<>>]
    /\ currentId = [h \in Hosts |-> 0] /\ idle = [h \in Hosts |-> 0]
    /\ pc = [c \in Clients |-> "off"] /\ msgId = [c \in Clients |-> 0]
    /\ localId = [c \in Clients |-> 0] /\ remoteId = [c \in Clients |-> 0]
    /\ conn = [c \in Clients |-> None]
    /\ dropped = {} /\ due = {} /\ blocked = {}
    /\ rings = 0 /\ faults = 0

-----------------------------------------------------------------------------
(* The daemons.  D is the state of one: its table and current_id.          *)

\* new_id(), for which 0 is reserved.
NewId(D) == LET n == (D.id + 1) % MaxId IN IF n = 0 THEN 1 ELSE n

\* lookup_request() with exact_comp and with fuzzy_comp: the index of the
\* newest entry that matches, or 0.  Entries never expire: the test for it
\* compares ptr->time - now, which is not positive.
FindRequest(D, q) ==
    SelectInSeq(D.table, LAMBDA e : e.type = q.type /\ e.by = q.from)
FindOwn(D, q) ==
    SelectInSeq(D.table, LAMBDA e : e.type = "LEAVE_INVITE" /\ Peer[e.by] = Me[q.from])
FindMatch(D, q) ==
    SelectInSeq(D.table, LAMBDA e : /\ e.type = "LEAVE_INVITE"
                                    /\ Peer[e.by] = Me[q.from] /\ Me[e.by] = Peer[q.from])

\* What a request makes of D, and the response.
Answer(D, q, success, id, addr) ==
    [D |-> D, r |-> [to |-> q.from, type |-> q.type, success |-> success,
                     id |-> id, addr |-> addr]]

\* insert_table().
Insert(D, q) ==
    [table |-> <<[type |-> q.type, by |-> q.from, id |-> NewId(D)]>> \o D.table,
     id |-> NewId(D)]

\* do_announce(): find_user() finds the callee logged on or not, announce()
\* may write to his terminal or not.
Announce(D, q) ==
    LET i == FindRequest(D, q)
        again == [D EXCEPT !.table[i].id = NewId(D), !.id = NewId(D)]
    IN  {Answer(D, q, FALSE, 0, None)}
        \cup CASE i = 0 -> {Answer(Insert(D, q), q, ok, NewId(D), None) : ok \in BOOLEAN}
               [] i > 0 /\ q.id > D.table[i].id ->
                    {Answer(again, q, ok, NewId(D), None) : ok \in BOOLEAN}
               [] OTHER -> {Answer(D, q, TRUE, D.table[i].id, None)}

\* The answer to an invitation that is new is never set: process_request()
\* leaves in it whatever was there.
LeaveInvite(D, q) ==
    LET i == FindRequest(D, q)
    IN  IF i > 0 THEN {Answer(D, q, TRUE, D.table[i].id, None)}
                 ELSE {Answer(Insert(D, q), q, any, NewId(D), None) : any \in BOOLEAN}

LookUp(D, q) ==
    LET i == FindMatch(D, q)
    IN  IF i > 0 THEN Answer(D, q, TRUE, D.table[i].id, D.table[i].by)
                 ELSE Answer(D, q, FALSE, 0, None)

\* delete_invite().
Delete(D, q) ==
    LET i == SelectInSeq(D.table, LAMBDA e : e.id = q.id)
    IN  IF i > 0 THEN Answer([D EXCEPT !.table = RemoveAt(@, i)], q, TRUE, 0, None)
                 ELSE Answer(D, q, FALSE, 0, None)

\* The responses that somebody may still read: after the rendezvous a process
\* does not turn to ctl_sockt again.
Readable(R, p) == {r \in R : p[r.to] \notin {"edit", "talk", "quit"}}

\* process_request() and the response, for a request that arrives.
Process(h, q) ==
    /\ q \in reqs /\ q.to = h
    /\ LET D == [table |-> table[h], id |-> currentId[h]]
       IN  \E x \in CASE q.type = "ANNOUNCE"     -> Announce(D, q)
                      [] q.type = "LEAVE_INVITE" -> LeaveInvite(D, q)
                      [] q.type = "LOOK_UP"      -> {LookUp(D, q)}
                      [] q.type = "DELETE"       -> {Delete(D, q)} :
             /\ table' = [table EXCEPT ![h] = x.D.table]
             /\ currentId' = [currentId EXCEPT ![h] = x.D.id]
             /\ resps' = Readable(resps \cup {x.r}, pc)
    /\ idle' = [idle EXCEPT ![h] = 0]
    /\ reqs' = reqs \ {q}
    /\ UNCHANGED clientvars

\* alarm_handler(): the daemon exits; inetd starts a new one, with an empty
\* table, on the next datagram.
Idle(h) == idle[h] >= MaxIdle
Exit(h) ==
    /\ Idle(h)
    /\ table' = [table EXCEPT ![h] = <<>>] /\ currentId' = [currentId EXCEPT ![h] = 0]
    /\ idle' = [idle EXCEPT ![h] = 0]
    /\ UNCHANGED <<netvars, clientvars>>

-----------------------------------------------------------------------------
(* The processes.                                                          *)

Ask(c, phase, id) == [to |-> IF phase \in Mine THEN HostOf[Me[c]] ELSE HostOf[Peer[c]], from |-> c,
                      type |-> TypeOf[phase], id |-> id]

\* ctl_transact() is entered: the request goes out for the first time.
Transact(c, phase, id) ==
    /\ pc' = [pc EXCEPT ![c] = phase] /\ msgId' = [msgId EXCEPT ![c] = id]
    /\ reqs' = reqs \cup {Ask(c, phase, id)}

Becomes(c, phase) == pc' = [pc EXCEPT ![c] = phase] /\ UNCHANGED <<reqs, msgId>>

\* quit(), with send_delete() if invitation_waiting is set, loc and rem being
\* local_id and remote_id.
Quit(c, rem, loc) ==
    /\ pc' = [pc EXCEPT ![c] = "quit"]
    /\ reqs' = IF pc[c] \in {"announce", "leave", "accept", "dellocal", "delremote"}
               THEN reqs \cup {Ask(c, "delremote", rem), Ask(c, "dellocal", loc)}
               ELSE reqs
    /\ UNCHANGED msgId

\* main(): check_local() looks for an invitation first.
Start(c) ==
    /\ pc[c] = "off"
    /\ Transact(c, "lookup", 0)
    /\ UNCHANGED <<resps, daemonvars, localId, remoteId, conn, dropped, due, blocked, rings, faults>>

\* No response within CTL_WAIT: the request once more.  It makes no difference
\* while the first copy is on its way.
Resend(c) ==
    /\ Transacting(c) /\ Ask(c, pc[c], msgId[c]) \notin reqs
    /\ faults < MaxFaults /\ faults' = faults + 1
    /\ reqs' = reqs \cup {Ask(c, pc[c], msgId[c])}
    /\ UNCHANGED <<resps, daemonvars, pc, msgId, localId, remoteId, conn, dropped, due,
                   blocked, rings>>

\* From listen() to close() in invite_remote().
Listening(c) == pc[c] \in {"announce", "leave", "accept"}

\* The rest of check_local(): an invitation is taken up, or it is stale and
\* is deleted, or there is none and invite_remote() leaves one.
LookedUp(c, r) ==
    /\ \/ /\ r.success /\ Listening(r.addr)
          /\ Becomes(c, "edit") /\ conn' = [conn EXCEPT ![c] = r.addr]
       \/ /\ r.success /\ ~Listening(r.addr)
          /\ Transact(c, "delstale", r.id) /\ UNCHANGED conn
       \/ ~r.success /\ Transact(c, "announce", MaxId) /\ UNCHANGED conn
    /\ UNCHANGED <<localId, remoteId>>

\* announce_invite(): the second half leaves the invitation with the own daemon.
AnnouncedOnly(c, r) ==
    /\ remoteId' = [remoteId EXCEPT ![c] = r.id]
    /\ IF ~r.success THEN Quit(c, r.id, localId[c])
       ELSE IF localId[c] # 0 THEN Becomes(c, "accept") ELSE Transact(c, "leave", msgId[c])
    /\ UNCHANGED <<localId, conn>>
Announced(c, r) ==
    /\ remoteId' = [remoteId EXCEPT ![c] = r.id]
    /\ IF r.success THEN Transact(c, "leave", msgId[c]) ELSE Quit(c, r.id, localId[c])
    /\ UNCHANGED <<localId, conn>>

Left(c, r) ==
    /\ localId' = [localId EXCEPT ![c] = r.id]
    /\ Becomes(c, "accept")
    /\ UNCHANGED <<remoteId, conn>>

\* ctl_transact() reads a datagram.  One of another type is thrown away, and
\* the request goes out again unless more datagrams are waiting; one of the right
\* type ends the transaction, whatever request it answers.
Receive(c) ==
    /\ Transacting(c)
    /\ \E r \in resps :
         /\ r.to = c
         /\ \/ /\ r.type # TypeOf[pc[c]]
               /\ \/ reqs' = reqs \cup {Ask(c, pc[c], msgId[c])}
                  \/ (\E more \in resps \ {r} : more.to = c) /\ UNCHANGED reqs
               /\ UNCHANGED <<pc, msgId, localId, remoteId, conn>>
            \/ /\ r.type = TypeOf[pc[c]]
               /\ \/ pc[c] = "lookup" /\ LookedUp(c, r)
                  \/ pc[c] = "delstale" /\ Transact(c, "announce", MaxId)
                                        /\ UNCHANGED <<localId, remoteId, conn>>
                  \/ pc[c] = "announce" /\ Announced(c, r)
                  \/ pc[c] = "leave" /\ Left(c, r)
                  \/ pc[c] = "dellocal" /\ Transact(c, "delremote", remoteId[c])
                                        /\ UNCHANGED <<localId, remoteId, conn>>
                  \/ pc[c] = "delremote" /\ Becomes(c, "edit")
                                         /\ UNCHANGED <<localId, remoteId, conn>>
         /\ resps' = Readable(resps \ {r}, pc')
    /\ UNCHANGED <<daemonvars, dropped, due, blocked, rings, faults>>

\* Connections that accept() has yet to return.
Backlog(c) == {d \in Clients \ dropped : pc[d] = "edit" /\ conn[d] = c}

\* accept() returns, and invite_remote() has the invitations deleted.
Accept(c) ==
    /\ pc[c] = "accept"
    /\ \E d \in Backlog(c) : conn' = [conn EXCEPT ![c] = d]
    /\ Transact(c, "dellocal", localId[c])
    /\ due' = due \ {c}
    /\ UNCHANGED <<resps, daemonvars, localId, remoteId, dropped, blocked, rings, faults>>

\* re_invite() on SIGALRM, which ends in longjmp.  When it comes just after
\* accept(), the connection is lost.
ReInvite(c) ==
    /\ pc[c] = "accept" /\ c \in due /\ rings < MaxRings
    /\ due' = due \ {c} /\ rings' = rings + 1
    /\ blocked' = IF SetjmpSavesMask THEN blocked ELSE blocked \cup {c}
    /\ Transact(c, "announce", remoteId[c] + 1)
    /\ \/ UNCHANGED dropped
       \/ \E d \in Backlog(c) : dropped' = dropped \cup {d}
    /\ UNCHANGED <<resps, daemonvars, localId, remoteId, conn, faults>>

\* set_edit_chars(): each end writes three characters and reads three.
EditChars(c) ==
    /\ pc[c] = "edit" /\ conn[conn[c]] = c /\ pc[conn[c]] \in {"edit", "talk"}
    /\ Becomes(c, "talk")
    /\ UNCHANGED <<resps, daemonvars, localId, remoteId, conn, dropped, due, blocked, rings, faults>>

\* The connection is closed, or reset with the socket that listened.
Lost(c) ==
    /\ pc[c] \in {"edit", "talk"}
    /\ LET d == conn[c]
       IN  pc[d] = "quit" \/ (c \notin dropped /\ conn[d] \notin {None, c})
    /\ Quit(c, remoteId[c], localId[c])
    /\ UNCHANGED <<resps, daemonvars, localId, remoteId, conn, dropped, due, blocked, rings, faults>>

\* The user types the interrupt character.
Interrupt(c) ==
    /\ pc[c] \notin {"off", "quit"}
    /\ Quit(c, remoteId[c], localId[c])
    /\ faults < MaxFaults /\ faults' = faults + 1
    /\ due' = due \ {c} /\ resps' = Readable(resps, pc')
    /\ UNCHANGED <<daemonvars, localId, remoteId, conn, dropped, blocked, rings>>

-----------------------------------------------------------------------------
\* A period of RING_WAIT passes, at the end of which waiting processes ring
\* again.
Tick ==
    /\ due = {} /\ \A c \in Clients : ~Transacting(c)
    /\ \A h \in Hosts : idle[h] < MaxIdle
    /\ due' = {c \in Clients \ blocked : pc[c] = "accept"}
    /\ idle' = [h \in Hosts |-> idle[h] + 1]
    /\ reqs' = {} /\ resps' = {}
    /\ UNCHANGED <<table, currentId, pc, msgId, localId, remoteId, conn, dropped,
                   blocked, rings, faults>>

Client(c) == \/ Start(c) \/ Resend(c) \/ Receive(c) \/ Accept(c) \/ ReInvite(c)
             \/ EditChars(c) \/ Lost(c) \/ Interrupt(c)

Daemon(h) == Exit(h) \/ \E q \in reqs : Process(h, q)

Next == Tick \/ (\E c \in Clients : Client(c)) \/ \E h \in Hosts : Daemon(h)

Spec == Init /\ [][Next]_vars

-----------------------------------------------------------------------------
(* Properties.                                                             *)

\* While a process waits for its party, the invitation it left is with its
\* daemon, under the number by which it will be deleted: other processes'
\* deletions, late datagrams and the daemon's idle timeout leave it alone.
InvitationKept ==
    \A c \in Clients : pc[c] = "accept" =>
        LET tab == table[HostOf[Me[c]]] IN
        \E i \in DOMAIN tab : tab[i] = [type |-> "LEAVE_INVITE", by |-> c, id |-> localId[c]]

\* Two processes that talk were called by each other's users, and are
\* connected to each other.
RightParty ==
    \A c \in Clients : pc[c] = "talk" =>
        /\ Me[conn[c]] = Peer[c] /\ Peer[conn[c]] = Me[c]
        /\ conn[conn[c]] = c
=============================================================================
