# A TLA+ model of GNU inetutils

GNU inetutils is a collection of network clients and servers: inetd, which
starts the others; tftp and tftpd; telnet and telnetd; talk and talkd; ftp and
ftpd; the r-commands; syslogd and logger; ping, traceroute, whois, ifconfig and
hostname.  The programs are small and share little code, and what is difficult
about them is what happens *between* processes: datagrams that are lost or come
twice, signal handlers that run in the middle of a loop, children that die
while a configuration is read, two ends that change their mind at the same time.
The modules of this directory model that.

How to run: `tlc -config X.cfg M` for the runs listed under "Runs", and
`tlapm M.tla` for the modules with proofs.  PROJECT.json is the index: it maps
every definition to the lines of code it models, and lists the runs, a mutant of
the code for every property, the hazards that the properties are aimed at, the
findings and the theorems.

## 1. Inventory

| component | state it keeps | operations | interacts with |
|---|---|---|---|
| tftp client (`src/tftp.c`) | one UDP socket for the session, peer port, `block`, `timeout`, jump buffers, signal mask | `get`, `put`, retransmission timer, interrupt | tftpd, by datagrams |
| tftpd (`src/tftpd.c`) | a process per request: `block`, `timeout`, the file | refuse, send a file, receive a file, timer | client; inetd starts it |
| TFTP buffers (`libinetutils/tftpsubs.c`) | two buffers `bfs[2]`, `nextone`, `current`, `newline`, `prevchar` | `rw_init`, `readit`, `read_ahead`, `writeit`, `write_behind`, `synchnet` | both programs call it around every packet |
| inetd (`src/inetd.c`) | `servtab`, `allsock`, `nsock`, `timingout`, the copy `readable` of the loop, children | select loop, fork, rate limit, `config` (SIGHUP), `reapchild` (SIGCHLD), `retry` (SIGALRM) | all servers, configuration files |
| telnet, telnetd options (`telnet/telnet.c`, `telnetd/state.c`) | per option: state, wanted state, answers outstanding | four requests, four handlers at each end | each other, over TCP |
| telnetd output (`telnetd/utility.c`), telnet input (`telrcv`, `stilloob`) | `netobuf`, `nbackp`, `neturg`; `telrcv_state`, `SYNCHing` | queue, flush, abort output, urgent mark, scan | carries the negotiation |
| telnet, telnetd terminals (`ring.c`, `slc.c`, `termstat.c`, `pty.c`) | ring buffers, special characters, line mode | copying between terminal, pty and network | options decide the modes |
| libtelnet (`auth.c`, `encrypt.c`) | authentication and encryption state | suboption exchange | telnet, telnetd |
| talkd (`talkd/`) | table of invitations with ids and times | leave, look up, delete, announce; idle timeout | talk by datagrams, terminals |
| talk (`talk/`) | outstanding request, invitation ids at two daemons | rendezvous, retransmission, re-announcement | two daemons, the peer |
| syslogd (`src/syslogd.c`) | list of outputs with a mask each, previous line and count of repeats, suspended hosts, `restart` flag | parse selectors, log, flush repeats, mark, reload, exit | kernel, sockets, terminals; itself, through `logerror()` |
| ftp (`ftp/ftp.c`) | `cpend`, `abrtflag`, `data`, last reply code | command and reply, active and passive transfer, interrupt, `abort_remote` | ftpd, over two connections |
| ftpd (`ftpd/ftpd.c`, `ftpcmd.y`) | `data`, `pdata`, `transflag`, `urgflag` | PORT, PASV, RETR, STOR, NLST, SIGURG and ABOR, exit | ftp |
| rcp, rsh(d), rexec(d), rlogin(d) | one-byte responses; second connection; out-of-band marks | copy a tree, relay | each other, kcmd/rcmd |
| ping, traceroute | sequence numbers, duplicate table | send, match a reply | the network |
| whois, ifconfig, hostname, logger, uucpd, libls, gnulib | almost none | one request, formatting | - |

What is hard:

* **Unreliable delivery and timers** (tftp, talk, ping, traceroute): a late
  answer races the retransmission; a retransmitted request starts a second
  server; a handler leaves `recvfrom` by `longjmp`.
* **Signal handlers as concurrency** (inetd, syslogd, ftp, ftpd, talk): SIGHUP,
  SIGCHLD and SIGALRM change the tables the main loop is walking through;
  SIGINT and SIGURG leave a transfer by `longjmp` at any point.
* **A function that comes back to itself** (syslogd): an error in `logmsg()` is
  logged by `logmsg()`.
* **Two streams that must stay in step** (ftp): commands and replies on one
  connection, the file on another, and ABOR overtaking by urgent data; the same
  in telnet, where SYNCH discards output but no command.
* **Two ends that negotiate without a leader** (telnet options, line mode).
* **Counters and numbers at their limit**: `th_block` has 16 bits and `block`
  does not, `nsock` must not drift, `do_dont_resp` is a char.
* **Partial failure**: an error in one of several steps, with the other steps
  already visible to the peer.

What makes each component correct:

* TFTP: the bytes stored are a prefix of the file, in order; whoever believes
  the transfer is complete is right; no process waits for ever.
* buffers: what is written is what was read, also when a cr lf pair is split
  over two packets; a retransmission repeats the same packet.
* inetd: every socket is either selected on or lent to exactly one live server;
  `nsock` counts the former; every request is served; the loop does not wait for
  one client.
* telnet options: the ends agree when the exchange is over, and it ends, whatever
  `netclear()` and `netflush()` do to the buffer that carries it; output that is
  aborted is not written, nor shown once the client knows, and no byte of a
  command is shown as output.
* talk, talkd: an invitation stays with the daemon while somebody waits for the
  answer, and whoever it brings together has called each other.
* syslogd: every message reaches each output it is selected for, or is counted
  in a "repeated" line there, and soon; a hangup is heeded.
* ftp, ftpd: each reply answers the command it is taken for, 226 means the whole
  file, a transfer uses its own connection, and it ends.

The hazards behind these properties are listed with their lines in PROJECT.json.

## 2. Plan

1. TFTP: `Tftp`, `TftpGet`, `TftpPut`, `TftpSubs`, abstract `FileTransfer`. *Done.*
2. `Inetd`. *Done*, except tcpmux and the parser.
3. `TelnetOption`, and `Telnet`, which carries it. *Done* for ordinary options.
4. `Talk`: the talk clients and the daemons of their machines. *Done*, except
   access control lists.
5. `Syslogd`. *Done*, except the sockets and the formatting of lines.
6. `Ftp`: client and server of one session. *Done* for one transfer at a time;
   login, restart, proxy transfers and the `mget` family are not in it.
7. `Rcp`: source and sink with one-byte responses; rcmd's second connection and
   rlogin's out-of-band messages; line mode and special characters of telnet;
   ping's duplicate table and traceroute's matching; tftpd's fork loop; inetd's
   tcpmux.

Theorems: the safety properties of `TftpGet`, `TftpPut`, `TelnetOption`, `Inetd`,
`Syslogd` (but one), `Ftp` and `Talk`, and both refinements of `FileTransfer` (*done*,
section 6, which says what is left to TLC).

Not planned: gnulib (vendored), `ftpcmd.c` (generated), libls (directory
listing), ifconfig (a series of ioctl calls), Kerberos and DES, whois tables.

## 3. Modules

### Tftp, TftpGet, TftpPut, FileTransfer

`Tftp` has what the directions share: packets, the UDP network and the timer.
The network is a set of packets on their way, each delivered at any time, lost,
or duplicated (`MaxDups` bounds how often), and a bounded queue per socket that
drops what does not fit.  A payload is the number of its segment and the
transfer it belongs to.  `th_block` is taken modulo `BlockMod` (2^16), `block`
of the processes is not.

`TftpGet` is `recvfile()` of the client against `send_file()` of the servers,
`TftpPut` the reverse.  A process runs from one return of `recv` to the next call
in one step; the alarm goes off while it waits, or after `recv` has taken a
packet and before `alarm (0)`, in which case the packet is lost by the `longjmp`
(`AfterAlarm`).  inetd starts a server for every datagram at the tftp port, so a
retransmitted request means two servers.  `SetjmpSavesMask` says whether
`setjmp` saves the signal mask.  The label `abort` of the client sends an ACK of
the *current* block also when it has not been stored; the model keeps that.
`TftpPut` has the file on the server's disk, which all servers of the name share
and each of which truncates it, the write-behind buffer, and the final
acknowledgement with its dally.

`FileTransfer` is the abstract transfer: a file grows by its next segment, the
transfer ends complete or failed, and the sender believes it was delivered only
if that is so or the receiver failed.

### TftpSubs

The two buffers, with a file of characters `plain`, `lf`, `cr`, `nul`:
`readit`/`read_ahead` on the sending side with the conversion to netascii,
`writeit`/`write_behind` on the other, a reliable channel between them, and
packets repeated by the timers.  A text-mode read error ends the file at any
character; in octet mode `read()` fails as a whole.

### Inetd

`servtab` is a function from services to entries (`in`, `fd`, `reg`, `wait`,
`count`).  `se_wait` holds 0, 1 or the pid of the server that has the socket, as
in the code.  `reg` is TRUE from `servent_setup()` to `close_sep()`.  One
iteration of `config()` over all files is one step (the handler is not
interrupted by itself), in which each file enters its lines and then purges the
entries that no file *so far* has named.  `ready` is what is left of `readable`
in the current round of the loop; handlers run between two services of it.
Processes are `free`, `live` or `zombie`; SIGCHLD and SIGHUP are single pending
bits.  Clients, administrator and servers are the environment.

### TelnetOption

One option in one direction, of which the client may be either end.  `state`,
`want` and `resp` are the bits and the counter of `telnet/telnet.c` and
`telnetd/state.c` (`my_state`, `my_want_state`, `do_dont_resp` or
`will_wont_resp`), `chan` is TCP.  `Handled` is the common shape of the eight
handlers; its clause for `kind = "echo"` is the ECHO case of telnetd, where an
accepted option is turned off at once.  `kind` says which ends accept the option.

### Telnet

What is a channel in `TelnetOption` is here `netobuf`, the TCP connection with
its urgent mark, and `telrcv()`.  A command is its bytes: IAC, the verb, the
option; a data byte carries the number of aborts before it, and a byte 255 of the
pty is two IACs.  `Netclear` is `netclear()` with `nextitem()`, `Netflush` is
`netflush()`: `write()` takes any part of what it is offered, which is everything, or,
for a client that survives urgent data (`not42`), what comes before the urgent byte
and then that byte alone, with the mark.  `Urgent` is the client's `select()` finding
urgent data, at any time while the mark is ahead; `Telrcv` is one turn of the loop
of `telrcv()`, data dropped while `SYNCHing`, `StillOob` included.  The client is the
"will" end; its own output has no `netclear()`, whose body is compiled out, and is
`chan["do"]` as before.

History: `chan["will"]` has the negotiations telnetd has sent and the client has not
handled, and `Reliable` says that the client handles just those, in order, as over
the channel of `TelnetOption`.  `sent` and `told` count the aborts whose mark is
written and those the client knows of.  `torn` becomes TRUE when output is aborted
with an item half written, which the code does not survive (section 5): from then
on `OnlyOutput`, `Reliable` and `ComesToRest` claim nothing; `Consensus` and `Settled` speak
of states with nothing on its way, which a lost negotiation keeps away.

### Talk

The state of a daemon is its table, newest entry first, `current_id` and the
time since the last datagram; `Process` is one pass of `talkd_run()`.  A daemon
that has been idle for `max_idle_time` exits, and the one inetd starts in its
place has an empty table and counts from 1.  A process is at one of the places
where it calls `ctl_transact()`, in `accept()`, in `set_edit_chars()` or in
`talk()`; `Receive` is the return of `recv` with all that follows up to the next
wait.  A response is matched by its type only, as in the code.  Datagrams arrive
in any order, are repeated by `Resend`, and are lost at the end of a period of
RING_WAIT.  Entries never expire, because the test at
`talkd/table.c:72` is the wrong way round.  Which user is logged on and takes
messages is a nondeterministic answer of `Announce`.  `ReInvite` is the SIGALRM
handler: its `longjmp` may come between the return of `accept()` and the
assignment of its value, and the connection is then in `dropped`.

### Syslogd

`files` is the list of entries: type, destination, `f_pmask`, previous line and
host, `f_prevcount`, `f_repeatcount` and the age of `f_time` in units of
TIMERINTVL.  `Cflines` makes the masks of all lines selector by selector, as
`cfline()` does, with `facilities_seen` carried from line to line.  A call of
`logmsg()`, `domark()`, `init()` or `die()` in progress is a frame of `stack` with
the entry it has come to, and one step treats one entry; an error pushes the
frame of `logerror()`.  A message that `printline()` has read, and the one that
`init()` ends with, is first a frame "next", a call of `logmsg()` still to be made;
with `-S` there are two of them, and SIGALRM may come between.  `Fallback` is what
is done for a configuration file that cannot be opened.  SIGHUP only sets
`restart`, SIGALRM is taken where it is not blocked, and SIGTERM between any two
steps, and also between the writing of repeats and `f_prevcount = 0`
(`TermInWrite`).  `Fates` says what a write, a send or a name look-up may do.

`owed`, `last` and `whole` are history: how many copies of a line, one for each call
of `logmsg()`, a destination has still to be shown, the line "repeated" refers to
there, and the destinations that no error has touched; `late` says that the last
hangup came when `init()` had read its file and `restart` was not yet 0.

### Ftp

One user, one session, logged in.  `c` is the client and `s` the server, with the
variables the code keeps between two calls (`cpend`, `abrtflag`, `data`, `din`;
`data`, `pdata`, `usedefault`); `pc` is the call in which each waits.  `toS` and
`toC` are the control connection, `urg` is the pending SIGURG, and each transfer
has a data connection that holds `PipeSize` units and is closed by each side.
`Interrupt` is SIGINT, whose handler notes it or leaves the transfer by `longjmp`
to `abort_remote()`, which sends ABOR, drains the data connection and reads one
reply or two.  `SrvOob` is `myoob()`: it does nothing without `transflag`, in which
case the parser meets ABOR later.  Files, binds, accepts and connections fail, and
the server may end at any moment (`SrvDies`).  A file of the client fails in two
ways: a `write()`, a flush or a `ferror()` of which the user is told (`LocalError`), and
the last buffer of an ASCII `get`, which the unchecked `(*closefunc)(fout)` writes and
of which nobody is told (`CloseFails`, noted in `cut`).

## 4. Runs

| run | shows |
|---|---|
| TftpGet_safety | one get, two servers, loss, reordering, failing reads and sends, interrupts: the file is right, each side knows when it is complete, and the programs implement `FileTransfer` |
| TftpGet_liveness | 3 segments with block numbers modulo 3, duplicated packets, where the client cannot complete the file: every transfer and every server ends |
| TftpPut_safety | two servers of one file: segments go to their place, the client moves on only past accepted blocks |
| TftpPut_oneserver | with one server and room on the disk, put is complete, implements `FileTransfer`, and ends |
| TftpSubs | every file of up to 5 characters survives the conversion and the double buffering in both modes, with repeated packets and, in octet mode, reads that fail |
| Inetd_safety | three services (a nowait stream in a second file, a wait datagram, an internal one), reload, failing bind, two processes: the bookkeeping is consistent, and inetd itself waits for a request only on a socket that a reload closed and opened again |
| Inetd_liveness | with an unchanged configuration and a rate limit of 1 requests are served and sockets come back |
| Inetd_retry (violation) | a service shut off by the rate limit never comes back |
| Telnet | whichever ends accept, and for ECHO, requests that cross in a buffer that is cleared, twice, and flushed in parts that end anywhere: until an abort meets a half-written item the two ends agree, negotiate as over two reliable channels, tear no command and do not stay in SYNCH; aborted output is never written, nor shown once the client knows of the abort (373,190 states) |
| Talk | three users on two machines, repeated and late datagrams, a second ring, an interrupt, idle daemons: invitations are kept and lead to the right party |
| Syslogd | two configurations of files, a host and a pipe, and the fallback, with `-S`, a message that repeats and a long one of the kernel, two troubles (failing calls and hangups), marks and SIGTERM: each destination is shown what `logmsg()` was called with, repeats counted out, and what is held at the exit is errors only; 8192 files of three selectors obey the documented rule, `mark` aside; a hangup is heeded unless it comes late in `init()` (2,043,757 states) |
| Ftp | two transfers in either direction, active or passive, with two interrupts and an unrelated command: replies match commands, 226 means the whole file but for the last buffer of an ASCII `get`, no connection is mistaken for another, every transfer ends |

Bounds.  Two segments are enough for "first", "last" and "previous block" to be
different cases, three with `BlockMod` 3 for wrapping to 0; two servers are the
least that disagree, and the theorems of section 6 remove these bounds.
`MaxTimeout` of two periods gives one retransmission of each packet, queues of
two hold a packet and a late one.  Five characters with segments of three make
every alignment of a two-character expansion with a segment border.  Two inetd
children are the least that die under one SIGCHLD; three requests reach the
rate limit where `TooMany` is 2 or `Max` is 1, and `Inetd_safety` keeps it
out of reach (5) because after `Inetd_retry`'s fault the bookkeeping is wrong in
known ways.  Two requests of each telnet end make a change cross with its reversal
and with the other end's; `TelnetOption` by itself holds with three and all four
kinds as well (the correction by two in `Answered` matters only there), and since
`Telnet` implements it, unless `torn`, that carries over.  `MaxEvents` of four is one
budget for requests and aborts, which count one, and bytes of output and
suboptions, which count two: two aborts with a byte, 255 or other, or a suboption
between them, two bytes with nothing else, two requests that cross around an abort
or a byte, four requests.  In talk, three users give every daemon an entry of somebody
else's, and one fault (a repeated request or an interrupt) and one further ring,
each at any point, make every race of two transactions.  `MaxId` 9 is out of reach of the
numbers that these bounds give out: numbers that come again are left out (section 5).
In syslogd `MaxTroubles` of two counts hangups and failing calls together: two hangups,
one during the other, two destinations that fail in one walk, also in that of the
exit message, or a failure around a reload.  `MaxCount` 1 bounds the messages read;
with `-S` each adds two, so that 2, the plural, is reached; intervals of 1 and 2 are
the whole back-off.  In ftp the second transfer is the one that meets what
the first has left, and two units over a connection that holds one let both ends
block; three transfers without the other command hold too (551355 states).  Processes stop when a transfer is over and when the bounds
are used up, so deadlock is not checked.

What the runs assume away.  `Inetd_safety` removes only nowait services and has
no wait service in the second file, `Inetd_liveness` leaves the configuration as
it is; section 5 says what happens otherwise.  `TelnetOption` has at least one end
that accepts the option: two ends that both ask for an option that each would
refuse do disagree, but no option of the programs is of this kind.  `Settled` is
about kind `both`.  `Telnet` has aborts and writes that end anywhere; three of its
properties claim nothing after an abort with an item half written (`torn`).  `Syslogd` leaves out
the errors of `wallmsg()`, a SIGHUP before `main()` has set its action, and a SIGTERM
between other statements of `fprintlog()` than those named in section 3
or while `init()` frees its list.  `Ftp` has no listings and no interrupt in the few instructions
before the last `getreply()` (`GapIntr`); its server refuses PASV but never PORT, after
which `initconn()` would try once more without it (`ftp.c:1435-1440`), which is not
modelled.  Section 5 says what the other values show.
`SetjmpSavesMask` is TRUE in TFTP.  `TftpGet` has one transfer in a session and `TftpPut` a disk
that is not full.  `Talk` has a `setjmp` that saves the mask.

Fairness.  TFTP: a process that can receive does, and the alarm of a process
with an empty queue goes off; the network and the user promise nothing, so the
liveness properties hold under total loss.  inetd: the loop and pending signals
go on (weak), servers exit, `fork` succeeds in the end if it is tried again and
again and a server that has a socket reads from it if it is started again and
again (strong: the process table empties, and a server that never reads is the
server's fault).  telnet: the two programs go on, as one step that is always
possible while there is anything to read, to flush or to hear; nobody need ask
for anything, and the mark may be noticed early or late.  ftp: client, server and
the delivery of a pending SIGURG go on; interrupts, failures and the end of the
server need not happen.  syslogd: no fairness; `RepeatsHeldBriefly` bounds the
time instead.

The type invariants `TypeOK` of `TftpGet` and `NetTypeOK` of `Telnet` are
properties of runs, the others document the state; all were checked with the
bounds above.

## 5. Findings

One line of the repository says something that a run refutes (PROJECT.json quotes
it): inetd's `retry()` opens a socket and does not register it, so that a service
shut off by the rate limit never comes back (`Inetd_retry`).

Changing the constants of the other runs shows more.  These have no run; most
are notes of hazards in PROJECT.json:

* `TftpGet` with `SetjmpSavesMask` FALSE: the `longjmp` leaves SIGALRM blocked, the
  retransmission timer goes off once, and the client may wait for ever.
* `TftpPut`: the final ACK of tftpd is never sent again, although the comment says
  "resend final ack": the test looks at an older buffer (`tftpd.c:693`).
* `TftpGet` with `Transfers = 2`: a late block of the last get is stored as part
  of the next, since the socket is kept and the port is taken from every packet.
* `TftpPut` with `DiskFull`: a put onto a full disk is acknowledged.  With two
  servers, the second truncates a file that is finished.
* `Inetd` with a busy wait service that is removed: its socket is counted twice
  in `nsock`.  With a wait service in the second of two files a reload forgets
  its server and starts another.  A service never changes from nowait to wait.
* `Inetd`: a hangup between `select()` and `accept()` that closes a reported socket and
  opens it again, as every reload does with the services of later files, leaves the
  loop in `accept()` until the next client comes (`BlocksOnReloadOnly` without `stale`).
* `TelnetOption`, for an end that refuses: its refusal may stay unanswered.
* `Telnet`: when output is aborted with a command half written, `netclear()` keeps
  the command and starts again at its first byte, so that its first bytes are sent
  twice and what follows is taken for something else.  The comment at
  `telnetd/utility.c:507` reckons with "the first byte or so of a previous TELNET
  command".  `wewant()` takes a doubled 255 of aborted output for a command, which
  survives `netclear()` and is shown.
* `Syslogd`: a hangup that comes when `init()` has read its file and `restart` is not
  yet 0 is forgotten (`syslogd.c:649`); the manual says that the file is read
  "whenever it receives a hangup signal".  `HangupHeeded` without `late` fails.
* `Syslogd`: `*` selects the facility `mark` as well; the manual says "This is not
  enabled by a facility field containing an asterisk" (`inetutils.texi:2591`).
  `SelectorRule` leaves `mark` out.
* `Syslogd` with `ForceSync`: `printline()` logs each message twice, so that every
  destination counts a repeat of it; the help text has `-S` as "force a file sync on
  every line" (`syslogd.c:349`).
* `Syslogd`: when two destinations fail while the exit message is logged, the second
  error can be a repeat of the first to a third destination, which is never told.
  All errors have one text in the model; in the code it names the file, so that it
  takes two hosts, whose errors both read "sendto" (`syslogd.c:1404`), or the same
  file in two lines.
* `Syslogd`: `f_prevcount` counts attempts to resolve a host and repeats of a message
  at once.
* `Ftp`: the last buffer of an ASCII `get` is written by `fclose()`, whose result
  nobody looks at (`ftp.c:1081`): with a full disk the file is short, the server has
  said 226 and the client says nothing.
* `Talk`: after `MAX_ID` invitations a daemon gives out numbers that entries still
  have, since these never expire; a deletion then takes the newest of them.
* `Ftp` with NLST in `Cmds`: an interrupted listing leaves the data connection open
  on the server's side, and the client reads from it for ever.  With `GapIntr` TRUE
  the reply of a transfer is left unread and taken for that of the next command.
  When the server goes away after an interrupt was noted, the client may loop
  without end (`spin`) or use a closed stream (`crash`): `TransferEnds` excepts
  these two.
* `Talk` with `SetjmpSavesMask` FALSE and `MaxRings` 2: a process rings once
  only, its daemon becomes idle and forgets the invitation it waits for.  Two
  users who call at the same moment wait for each other.

Seen in the code and out of the models' reach: a text-mode read error looks like
the end of the file (`tftpsubs.c:190`); `recvfrom()` overwrites the counter of
tftpd's attempts to fork (`tftpd.c:248`); inetd's and syslogd's handlers may free
the entry the main loop is looking at (`inetd.c:1961`, `syslogd.c:1607`); `nsock++`
is not atomic there (`inetd.c:642`); ftp's `data` keeps the number of a descriptor
that `fclose (din)` has closed (`ftp.c:1344`).

## 6. Proofs

A module `X_proofs` has the theorems about `X`, with proofs that TLAPS checks.
Each follows the same argument: an inductive invariant `IInv`, stronger than the
property, that TLC has checked on the bounds of section 4; `Init => IInv`; one
lemma per action that the action preserves it; and the property as a
consequence.  `Tftp_proofs` has the facts about packets, queues and the network
that both directions of TFTP need.

| module | theorem | states | hypotheses |
|---|---|---|---|
| `TftpGet_proofs` | `TypeCorrect` | `[]TypeOK` | none |
| | `InOrderCorrect`, `DoneCorrect`, `ServerDoneCorrect` | `[]InOrder`, `[]DoneMeansComplete`, `[]ServerDoneMeansDelivered` | `Transfers = 1` |
| | `Refinement` | `ImplementsFileTransfer` | `Transfers = 1` |
| `TftpPut_proofs` | `TypeCorrect`, `AckedCorrect` | `[]TypeOK`, `[]AckedMeansAccepted` | none |
| | `DiskCorrect` | `[]DiskOrdered` | `~DiskFull` |
| | `PutCorrect`, `Refinement` | `[]PutComplete`, `ImplementsFileTransfer` | `~DiskFull`, one server |
| `TelnetOption_proofs` | `TypeCorrect` | `[]TypeOK` | `RespMax >= MaxRequests + 1` |
| | `SettledCorrect`, `ConsensusCorrect` | `[]Settled`, `[](kind = "both" => Consensus)` | none |
| `Inetd_proofs` | `SocketOwnerCorrect` | `[]SocketOwner` | `KindsFixed` |
| | `NsockCorrect` | `[]NsockCounts` | `OthersOwn` |
| | `SingleThreadedCorrect` | `[]SingleThreaded` | `WaitKept` |
| | `BlocksOnReloadOnlyCorrect` | `[]BlocksOnReloadOnly` | none |
| `Syslogd_proofs` | `TypeCorrect`, `SelectorRuleCorrect` | `[]TypeOK`, `[]SelectorRule` | none |
| | `RepeatsCorrect`, `HangupCorrect` | `[]RepeatsHeldBriefly`, `[]HangupHeeded` | none |
| | `LogFaithfulCorrect` | `[]LogFaithful` | `Separate` |
| `Ftp_proofs` | `InStepCorrect` | `[]InStep` | `~GapIntr` |
| | `Complete226Correct`, `OwnConnectionCorrect` | `[]Complete226`, `[]OwnConnection` | `~GapIntr`, no NLST |
| `Talk_proofs` | `TypeCorrect`, `RightPartyCorrect` | `[]TypeOK`, `[]RightParty` | none |
| | `InvitationKeptCorrect` | `[]InvitationKept` | `SetjmpSavesMask`, `MaxIdle > 1`, `[]Unworn` |

The constants are otherwise arbitrary, under the `ASSUME` of each module: any
numbers of servers, blocks, services, processes, requests, files and messages.
Every hypothesis excludes a case in which the code really fails (section 5); where a
property itself names such a case (`late`, `stale`, `cut`), the theorem says that it is
the only one.

**TFTP get.**  Whether the client stores the right segment depends on the
packets in the network and in its queue, and those on the servers.  `IInv` adds
to `TypeOK`

* `PacketsOK`: every DATA packet, in the network or in a queue, carries a segment
  that its server has read, under the block number of that segment, and every
  ACK is of a block that the client has stored, unless the client has aborted;
* `ClientOK`: the client has stored exactly the segments before `cblock`, fewer
  than `BlockMod`, and all of them if it is `done`;
* `ServerOK(s)`: unless the client has aborted, a server is at most one block
  ahead of it, and `done` only when everything is stored.

The block comparison is where the width matters: a DATA packet accepted has
`Wire(seg) = cblock`, so `cblock < BlockMod`, and `seg` is `cblock` because a
server is never further than one block ahead.  With two transfers `InOrder` is
false.  For the refinement each action is shown to append the next segment, to
end the transfer, to set the sender's belief, or to leave all that
`FileTransfer` sees as it was.

**TFTP put.**  The roles of the invariant are exchanged: an ACK in the network
is of a block that *its* server has accepted.  `DiskOK` says that a server that
still receives has written just the blocks it has accepted, so that its next
write goes to its place whatever the other servers have done to the file; on a
full disk that is false, because the failed write is noticed one block later.
`OneOK`, for a single server, says that the file is what it has written.

**Telnet options.**  For an option that both ends accept, `IInv` says that in
each direction the requests under way alternate, beginning with the opposite of
what the receiver has and ending with what the sender wants (`Alternates`), that
an end with no answer outstanding has what it wants (`AtRest`), and that no more
answers are outstanding than requests are under way (`InFlight`).  When nothing is
under way, nobody waits and both ends have what both want.  The other kinds, where
an end refuses or repels, are checked by TLC only.  `TypeCorrect` bounds
`do_dont_resp`, a `char`, by the number of requests.

**inetd.**  `Owned` and `Registered` say who may have each socket, also of those
that the current round of the loop has still to visit; `Counted` that `nsock` is the
number of selected sockets; `Single` that the process whose pid is in `se_wait` is
the only one of its service; `Waiting`, that a socket from which inetd itself takes a
request and which `select()` has reported still has it when its turn comes, unless a
reload has closed the socket and opened it again (`stale`).  One reload is a pass over all
files, in a recursive function; the invariant is shown for each prefix of it, by
the least counterexample.  The hypotheses:

* `KindsFixed`: no service is `wait` in one version of the files and `nowait` in
  another.  Edited from `wait` to `nowait` while its server runs, a service keeps a
  socket that nobody selects on.
* `OthersOwn`: what a reload may close is an internal service whose bind succeeds.
  `close_sep()` counts `nsock` down for every open socket (`inetd.c:669`), also for one
  that is lent to a server and for one that `retry()` has opened and not registered.
* `WaitKept`: every `wait` service is in the first file in all versions.  One of
  a later file is purged and entered again by each reload, and its server forgotten.

`Inetd_safety` satisfies `KindsFixed` and `WaitKept`, the other two runs `OthersOwn`.

**syslogd.**  `SelectorRule` is proved for every configuration file: by induction
over the selectors of a line and over the lines of the file, the masks that
`cfline()` accumulates are those of the rule that the *last* selector about a
facility and level decides, for every facility but `mark`.  For `RepeatsHeldBriefly` the invariant `Held` is about
the calls in progress: once the alarm is taken, an entry holds no repeats for too
long or `domark()` is still to look at it, and `logmsg()`, which may come in between
because of a mark or an error, does not undo that.  For `HangupHeeded` it is that
as long as no hangup has come since `init()` read the file, that file is in force
until `restart` is 0.

`LogFaithful` needs an account for every entry of the file, whatever calls are in
progress: the invariant `Ledger`.  `Fair` says that what the entry's destination is
owed, line by line, is what `f_prevcount` stands for and what the calls on the stack
have still to bring it, counted as the cardinality of a set of frames (`Coming`); a
call or a return changes that count by what its frame waits for (`ComingAppend`), so
that no induction over the depth of `logmsg()` in itself is needed.  The
other parts say why the count is right at the moments when it is read: `Conforms`,
that the entries are those of the file that was read; `Strangers`, that nothing is
owed to destinations without an entry; `Saving`, that a `logmsg()` which has flushed
the repeats of an entry and is to store its own line is the innermost call, or the
destination has had an error, or `die()` came in between and will not return; `Begun`, that calls of `logmsg()`
still to be made stand for nothing owed;
`Closing`, that `init()` is alone when it closes the old entries and leaves no
repeats behind.  The hypothesis `Separate`, which the run's instance satisfies, has
three parts.  Each file has one line per destination: `owed` is kept per destination
and `f_prevcount` per line, so that with two lines the account is of their sum.  No
message is empty: after a line too long to be kept `f_prevline` is empty, and an empty
message of the same host would be taken for its repeat.  And `MaxPri` is at least 6,
as syslogd's own messages have priorities up to `LOG_INFO`.

**ftp.**  `InStep` speaks of the prompt only; what makes it true there is what is
under way at every other place.  `Awaits` says, for each place where the client
may be, which commands the server has still to read, which replies the client
has still to read, and where the server is: while the client waits for the
answer to RETR, say, either the command has not been read, or the server is
opening the file or the connection, or one reply is there that refuses the
transfer, or the preliminary one, perhaps with the final one behind it.  The
cases after ABOR are the delicate ones, as the transfer may have ended before,
so that 226 and the answer to ABOR cross it on the wire, or the server is still
to be interrupted and will say 426 and then 226.  A server that dies says 421
after all that (`Says0`, `Says1`, `Says2`), and then nothing.  `Urgent` says that
urgent data are pending only while an ABOR is, and `Numbered` that the numbers of
the data connections grow, so that the one a new transfer takes was never used.
An interrupt between the last data and `getreply()` is excluded: its `longjmp()`
really leaves a reply unread (section 5).

`Complete226` and `OwnConnection` rest on `InStep`'s invariant and on three facts about
the data connections.  `Begins`: a request starts with a connection nobody has used,
the server's `pdata` is 0 or that connection, and `data` is closed whenever the
server rests.  `Joined`: while both are at the transfer they use that connection,
and what was received and what is under way are together what was sent (`Sum`); a
client that has come to the end without an abort or a lost last buffer has received
all that the server moved, or has sent the whole file; `Received226` keeps that to
the prompt.  `Judged`: when 226 is about to be said or on its way
(`Verdict`), the server has moved the whole file, or a sending client was stopped by
an error of which it told the user.  NLST is excluded since the `longjmp()` out of
`send_file_list()` goes past the closing of `data`: the next transfer then uses a
connection that is not its own, which TLC shows (section 5).

**talk.**  `ProcessF` says once what a request may do to a table and what the
response to it tells; the rest uses only that.  `RightParty` follows from `Party`: a
connection is made to the process that the invitation found names, and no step
takes a party away from one that talks.  `InvitationKept` needs to know what everybody
might still delete, and that the number of every entry is its own, for which
`[]Unworn` says that `new_id()` has not begun again at 1.  `Of` says
that a number somebody has is given out and can only be that of its own entry, so
that numbers in late responses and in `localId` and `remoteId` do no harm; `Doomed`
that a number in a DELETE request, on its way or to be sent again, is not that of
an invitation whose process still waits.  Both would be lost when a daemon exits
and numbers from 1 again, so the invariant also says for how long the daemons
have been idle: not at all while a response is unread, and at most one period
while a process has a number of theirs, since each period it rings again.  That is
where the hypotheses come from.  Where `setjmp` does not save the mask a process
rings once only (section 5); with a timeout as short as the interval the daemon may
exit before the second ring; in the code they are 120 and 30 seconds.

Induction is by the least counterexample (`LeastOf` in `Inetd_proofs` and
`Syslogd_proofs`), as the induction theorems of the library, with their operator
parameter, are of no use to the provers.

Only model-checked:

* everything under fairness (`Terminates`, `RequestsTaken`, `SocketRestored`,
  `ComesToRest`, `TransferEnds`): the prover has no rules for it here;
* `RoundTrip` and `BufferFilled` of `TftpSubs`, whose conversions are RECURSIVE
  operators, which TLAPS cannot reason about;
* `HeldAtExit` of `Syslogd`: it follows the walk of `die()` and that of the exit message
  at once, with an account of the errors logged in between;
* `Consensus` for options that one end refuses or repels;
* the properties of `Telnet`: they rest on what the scans
  of a buffer (`Items`, `Netclear`) return for every sequence of bytes, that is on
  induction over parsed data;
* `Complete226` and `OwnConnection` of `Ftp` with NLST, where they are false, and the
  other theorems outside the hypotheses the table gives.

## 7. Not modelled

See the components with status `not_modelled` or `partly` in PROJECT.json.  In
the modelled ones: parsing of commands and configuration, addresses and name
resolution, logging, IPv6, ACLs and TCP wrappers, login and file permissions
(`validate_access` is a nondeterministic refusal), the failure path of `fork` in
tftpd, use of freed memory in handlers, the contents of telnet's suboptions,
terminal modes, the formatting and the sockets of syslogd, and in ftp restart,
append, proxy transfers and multiple files.

More than half of the C code of the repository is not its own logic: gnulib in
`lib/`, the generated `ftpcmd.c`, and `libls`, a directory lister.  Much of the rest
is straight-line code around one system call (ifconfig, hostname, whois, logger),
terminal handling, or cryptography, where a model would say nothing that a test
does not.  The remaining parts with a protocol of their own (rcp, rlogin, rcmd,
ping, traceroute) are item 7 of the plan: they are sequential dialogues with one
outstanding request, and matter less than those that are here.
