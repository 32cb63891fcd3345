------------------------------ MODULE Syslogd ------------------------------
(***************************************************************************)
(* src/src/syslogd.c: the lines of the configuration file and the selector *)
(* masks cfline() makes of them, logmsg() and fprintlog() with their count  *)
(* of repeated messages, hosts that are suspended or not yet known, the    *)
(* mark and flush of domark() on SIGALRM, init() on SIGHUP and die() on    *)
(* SIGTERM.                                                                *)
(*                                                                         *)
(* logmsg() calls fprintlog(), which on an error calls logerror(), which   *)
(* calls logmsg() again, in the middle of a walk along Files.  A call in   *)
(* progress is a frame of "stack", and "next" one of logmsg() that is next *)
(* to be made; one step deals with one entry of Files.  All errors have    *)
(* one text, as those of sendto() have: a second one repeats the first.    *)
(* The unit of time is TIMERINTVL, 30 seconds, and f_time is kept as the   *)
(* age of the entry.                                                       *)
(***************************************************************************)
EXTENDS Integers, Sequences, FiniteSets

CONSTANTS
    Facs, Syslog, MarkFac,  \* facilities; LOG_SYSLOG and LOG_NFACILITIES
    MaxPri,                 \* LOG_PRIMASK: priorities are 0 .. MaxPri
    Confs,                  \* contents the configuration file may have
    TestConfs,              \* contents the rule for selectors is checked on
    Dests,                  \* files and hosts its lines name
    Msgs, Kernel,           \* messages sent to syslogd, and those of the kernel
    LongTexts,              \* texts of MAXSVLINE characters and more
    Local,                  \* LocalHostName
    NoHops, NoForward, ForceSync,  \* options
    MarkInterval,           \* in units of TIMERINTVL
    SuspendTime,            \* INET_SUSPEND_TIME, likewise
    RetryMax,               \* INET_RETRY_MAX
    MaxBatch,               \* bound: descriptors ready after one poll()
    MaxCount,               \* bound: repeats of a message on one entry
    MaxTroubles             \* bound: hangups and failing system calls together

Pris == 0 .. MaxPri
NoHost == "nohost"
Empty == ""
Locals == {"FILE", "TTY", "CONSOLE", "PIPE", "WALL"}
Forws == {"FORW", "SUSP", "UNKN"}

\* Intervals of repeatinterval[], in units of TIMERINTVL.
RepeatInterval == <<1, 2>>

\* Messages syslogd itself logs.
Own(text, fac, pri, mark) ==
    [text |-> text, host |-> Local, fac |-> fac, pri |-> pri, mark |-> mark, ign |-> FALSE]
Restarted == Own("restart", Syslog, 6, FALSE)
Failed    == Own("error", Syslog, 3, FALSE)
Exiting   == Own("exiting", Syslog, 3, FALSE)
Mark      == Own("mark", MarkFac, 6, TRUE)
OwnMsgs   == {Restarted, Failed, Exiting, Mark}

Line(m) == <<m.text, m.host>>
NoLine == <<Empty, NoHost>>
Lines == {Line(m) : m \in Msgs \cup OwnMsgs} \cup ({Empty} \X ({m.host : m \in Msgs} \cup {Local, NoHost}))

ASSUME SyslogdAssumption ==
    /\ Syslog \in Facs \ {MarkFac} /\ MarkFac \in Facs /\ MaxPri \in Nat
    /\ NoHops \in BOOLEAN /\ NoForward \in BOOLEAN /\ ForceSync \in BOOLEAN /\ Kernel \subseteq Msgs
    /\ {MarkInterval, SuspendTime, RetryMax, MaxBatch, MaxCount, MaxTroubles} \subseteq Nat
    /\ Confs # {} /\ Local # NoHost
    /\ \A m \in Msgs : m.fac \in Facs \ {MarkFac} /\ m.pri \in Pris /\ ~m.mark

-----------------------------------------------------------------------------
(* cfline(): a line is [sel, type, dest]; sel is a sequence of selectors   *)
(* [fac, neg, lev, pri], a list of facilities being a selector for each.   *)

Levels == {"all", "none", "only", "upto"}
Selector == [fac: Facs \cup {"*", "**"}, neg: BOOLEAN, lev: Levels, pri: Pris]
ConfLine == [sel: Seq(Selector), type: Locals \cup {"FORW"}, dest: Dests]

ASSUME ConfAssumption ==
    /\ "*" \notin Facs /\ "**" \notin Facs
    /\ Confs \cup TestConfs \subseteq Seq(ConfLine)

\* Levels a selector enables and disables: lev is "all" for *, "none", "only"
\* for =level and "upto" for a level and the higher ones.
PriSet(s) ==
    IF s.lev = "all" THEN Pris
    ELSE IF s.lev = "none" THEN {}
    ELSE IF s.lev = "only" THEN {s.pri} ELSE 0 .. s.pri
PriClear(s) == IF s.lev = "none" THEN Pris ELSE {}
Enables(s)  == IF s.neg THEN PriClear(s) ELSE PriSet(s)
Disables(s) == IF s.neg THEN PriSet(s) ELSE PriClear(s)

\* Facilities a selector is about, given facilities_seen.
SeesAll(s, seen) == IF s.fac \in {"*", "**"} THEN Facs ELSE {s.fac}
About(s, seen) ==
    IF s.fac = "*" THEN Facs ELSE IF s.fac = "**" THEN Facs \ seen ELSE {s.fac}
Seen(s, seen) == IF s.fac \in {"*", "**"} THEN seen ELSE seen \cup {s.fac}

\* One turn of the loop over the selectors.
Select(T, s) ==
    [mask |-> [g \in Facs |-> IF g \in About(s, T.seen)
                              THEN (T.mask[g] \ Disables(s)) \cup Enables(s) ELSE T.mask[g]],
     seen |-> Seen(s, T.seen)]

\* f_pmask of a line and facilities_seen after it, seen being those before it.
Cfline(sel, seen) ==
    LET turn[k \in 0 .. Len(sel)] ==
          IF k = 0 THEN [mask |-> [g \in Facs |-> {}], seen |-> seen]
          ELSE Select(turn[k - 1], sel[k])
    IN  turn[Len(sel)]

\* f_pmask of every line of the file.
Cflines(c) ==
    LET line[i \in 0 .. Len(c)] ==
          IF i = 0 THEN [mask |-> [g \in Facs |-> {}], seen |-> {}]
          ELSE Cfline(c[i].sel, line[i - 1].seen)
    IN  [i \in 1 .. Len(c) |-> line[i].mask]

\* The documentation's rule for facility g, which is not "mark": of the selectors
\* of the line that speak of the message, the last one decides; "*" speaks of
\* all, and "**" of the facilities no selector has named earlier in the file.
Selects(c, i, g, p) ==
    LET sel == c[i].sel
        named(k) == \E a \in 1 .. i : \E b \in 1 .. Len(c[a].sel) :
                       c[a].sel[b].fac = g /\ (a < i \/ b < k)
        speaks == {k \in 1 .. Len(sel) :
                     /\ sel[k].fac \in {g, "*"} \/ (sel[k].fac = "**" /\ ~named(k))
                     /\ \/ sel[k].lev \in {"all", "none"}
                        \/ p = sel[k].pri
                        \/ sel[k].lev = "upto" /\ p < sel[k].pri}
    IN  \E k \in speaks : /\ \A h \in speaks : h <= k
                          /\ (sel[k].lev = "none") = sel[k].neg

\* What syslogd has for a configuration file that it cannot open, which is how
\* one that cannot be opened is written: "*.ERR /dev/console", "*.PANIC *".
AllFrom(p) == <<[fac |-> "*", neg |-> FALSE, lev |-> "upto", pri |-> p]>>
Fallback == <<[sel |-> AllFrom(3), type |-> "CONSOLE", dest |-> "console"],
              [sel |-> AllFrom(0), type |-> "WALL", dest |-> "users"]>>

-----------------------------------------------------------------------------
VARIABLES
    conf,     \* what the configuration file says
    files,    \* Files, in order
    stack,    \* calls in progress, the innermost last
    batch,    \* descriptors still to be looked at since poll() returned
    restart,  \* restart
    markseq,  \* MarkSeq
    alarm,    \* whether SIGALRM is pending
    dead,     \* die() has come to its exit()
    read,     \* history: the contents init() has read last
    last,     \* history: the last line each destination has been shown
    owed,     \* history: how often each destination is still to be shown a line
    whole,    \* history: destinations that have had no error
    late,     \* history: the last hangup came between init() and restart = 0
    hups, faults

sysvars == <<files, stack, batch, restart, markseq, alarm, dead>>
history == <<read, last, owed, whole, late>>
vars == <<conf, sysvars, history, hups, faults>>

MaxAge == CHOOSE a \in {3, SuspendTime, MarkInterval} :
            a >= 3 /\ a >= SuspendTime /\ a >= MarkInterval  \* ages are told apart up to here
Entry == [type: Locals \cup Forws \cup {"UNUSED"}, dest: Dests, mask: [Facs -> SUBSET Pris],
          prev: {l[1] : l \in Lines}, host: {l[2] : l \in Lines} \cup {NoHost},
          count: Nat, rep: 1 .. Len(RepeatInterval), age: 0 .. MaxAge]
Ops == {"next", "log", "due", "close", "reload", "die", "exit"}
Phases == {"test", "save", "backoff"}
Frame == [op: Ops, m: Msgs \cup OwnMsgs, at: Nat \ {0}, phase: Phases]
Call(op, m) == [op |-> op, m |-> m, at |-> 1, phase |-> "test"]

TypeOK ==
    /\ conf \in Confs /\ read \in Confs
    /\ files \in Seq(Entry) /\ stack \in Seq(Frame)
    /\ batch \in 0 .. MaxBatch /\ markseq \in 0 .. MarkInterval
    /\ restart \in BOOLEAN /\ alarm \in BOOLEAN /\ dead \in BOOLEAN
    /\ last \in [Dests -> Lines] /\ owed \in [Dests -> [Lines -> Int]]
    /\ whole \subseteq Dests /\ late \in BOOLEAN
    /\ hups \in Nat /\ faults \in Nat /\ hups + faults <= MaxTroubles

-----------------------------------------------------------------------------
(* init(): the entries made of the file.  Opening a file may fail, and the  *)
(* name of a host may not be known yet (EAI_AGAIN) or at all.              *)

Blank(line, mask, type) ==
    [type |-> type, dest |-> line.dest, mask |-> mask, prev |-> Empty, host |-> NoHost,
     count |-> IF type = "UNKN" THEN RetryMax ELSE 0, rep |-> 1, age |-> 0]

Opened(c, type) == [i \in 1 .. Len(c) |-> Blank(c[i], Cflines(c)[i], type[i])]
Outcomes(c) ==
    {t \in [1 .. Len(c) -> Locals \cup Forws \cup {"UNUSED"}] :
       \A i \in 1 .. Len(c) :
         t[i] \in {c[i].type, "UNUSED"} \cup IF c[i].type = "FORW" THEN {"UNKN"} ELSE {}}
Faulty(c, t) == Cardinality({i \in 1 .. Len(c) : t[i] # c[i].type})
DestsOf(fs, types) == {fs[i].dest : i \in {j \in 1 .. Len(fs) : fs[j].type \in types}}

\* A message is owed to the destinations the rule selects for it.
Reaches(c, fs, i, m) ==
    /\ Selects(c, i, m.fac, m.pri)
    /\ ~(fs[i].type = "CONSOLE" /\ m.ign)
Nothing == [l \in Lines |-> 0]
Owing(o, w, c, fs, m) ==
    [d \in Dests |->
       IF d \notin w THEN Nothing
       ELSE [l \in Lines |-> o[d][l] +
            IF l = Line(m) /\ \E i \in 1 .. Len(fs) : fs[i].dest = d /\ Reaches(c, fs, i, m)
            THEN 1 ELSE 0]]

\* init() ends with its own message, unless the file could not be opened.
Announce(c) == IF c = Fallback THEN <<>> ELSE <<Call("next", Restarted)>>

Init ==
    /\ conf \in Confs /\ read = conf
    /\ \E t \in Outcomes(conf) :
         /\ Faulty(conf, t) <= MaxTroubles
         /\ files = Opened(conf, t) /\ faults = Faulty(conf, t)
    /\ stack = Announce(conf)
    /\ batch = 0 /\ markseq = 0 /\ hups = 0
    /\ restart = FALSE /\ alarm = FALSE /\ dead = FALSE /\ late = FALSE
    /\ last = [d \in Dests |-> NoLine] /\ owed = [d \in Dests |-> Nothing]
    /\ whole = DestsOf(files, Locals \cup {"FORW"})

-----------------------------------------------------------------------------
(* fprintlog(f, from, flags, msg): text is msg, or Empty for NULL; fate    *)
(* says what the system calls do.  The result has the new entry, what was  *)
(* shown (a line, or the number of repeats) and whether logerror() follows.*)

Fates(f) ==
    CASE f.type = "PIPE"                       -> {"ok", "fail", "full"}
      [] f.type \in {"FILE", "TTY", "CONSOLE"} -> {"ok", "fail"}
      [] f.type \in {"FORW", "SUSP"}           -> {"ok", "fail", "nosocket"}
      [] f.type = "UNKN"                       -> {"ok", "fail", "nosocket", "unknown"}
      [] OTHER                                 -> {"ok"}

\* The branch at the label f_forw is taken.
Forwards(f, fate) ==
    \/ f.type = "FORW"
    \/ f.type = "SUSP" /\ f.age >= SuspendTime
    \/ f.type = "UNKN" /\ f.age >= SuspendTime /\ fate # "unknown"
Sends(f, from, fate) ==
    Forwards(f, fate) /\ (from = Local \/ ~NoHops) /\ ~NoForward

\* The name of the host is asked for again, in vain.
Retried(f, fate) == f.type = "UNKN" /\ f.age >= SuspendTime /\ fate = "unknown"
NextType(f, from, fate) ==
    IF f.type \in Locals THEN IF fate = "fail" THEN "UNUSED" ELSE f.type
    ELSE IF Forwards(f, fate) THEN IF Sends(f, from, fate) /\ fate = "fail" THEN "SUSP" ELSE "FORW"
    ELSE IF Retried(f, fate) /\ f.count = 0 THEN "UNUSED" ELSE f.type

Printed(f, from, fate) ==
    LET type == NextType(f, from, fate)
    IN  [f EXCEPT
          !.type = type,
          !.age = IF \/ f.type \in Locals \cup {"UNUSED"}
                     \/ Sends(f, from, fate) /\ fate # "nosocket" THEN 0 ELSE @,
          !.count = IF type # "UNKN" THEN 0 ELSE IF Retried(f, fate) THEN @ - 1 ELSE @]

\* What the destination is shown: [n, line], n repeats or the line itself.
Shown(f, text) ==
    [n |-> IF text = Empty /\ f.count > 1 THEN f.count ELSE 0,
     line |-> <<IF text = Empty THEN f.prev ELSE text, f.host>>]
Arrives(f, from, fate) ==
    \/ f.type \in Locals /\ fate = "ok"
    \/ Sends(f, from, fate) /\ fate = "ok"

\* The bookkeeping of what a reader of the destination sees.
Account(f, from, text, fate) ==
    LET d == f.dest
        s == Shown(f, text)
        line == IF s.n = 0 THEN s.line ELSE last[d]
    IN  IF Arrives(f, from, fate)
        THEN /\ last' = [last EXCEPT ![d] = line]
             /\ owed' = IF line = Line(Mark) \/ d \notin whole THEN owed
                        ELSE [owed EXCEPT ![d][line] = @ - (IF s.n = 0 THEN 1 ELSE s.n)]
             /\ whole' = whole
        ELSE /\ whole' = whole \ {d}
             /\ owed' = [owed EXCEPT ![d] = Nothing] /\ UNCHANGED last

-----------------------------------------------------------------------------
(* One entry of Files, looked at by the innermost call.                    *)

Top == stack[Len(stack)]
Below == SubSeq(stack, 1, Len(stack) - 1)
Running(op) == ~dead /\ stack # <<>> /\ Top.op = op
AtEnd == Top.at > Len(files)
F == files[Top.at]

Next1 == Append(Below, [Top EXCEPT !.at = @ + 1, !.phase = "test"])
InPhase(p) == Append(Below, [Top EXCEPT !.phase = p])

\* Initialized is 0 while init() closes the files and while die() flushes them.
Initialized == \A i \in 1 .. Len(stack) : stack[i].op \notin {"close", "die"}

\* fprintlog() for entry f, then the stack is st; on an error logerror() runs first.
Fprintlog(f, from, text, st) ==
    \E fate \in Fates(f) :
      /\ fate # "ok" => hups + faults < MaxTroubles
      /\ faults' = faults + (IF fate = "ok" THEN 0 ELSE 1)
      /\ files' = [files EXCEPT ![Top.at] = Printed(f, from, fate)]
      /\ LET err == fate = "fail" /\ (f.type \in Locals \/ Sends(f, from, fate)) /\ Initialized
         IN  /\ stack' = IF err THEN Append(st, Call("log", Failed)) ELSE st
             /\ IF err
                THEN /\ whole' = whole \ {f.dest} /\ UNCHANGED last
                     /\ owed' = Owing(owed, whole', read, files', Failed)
                ELSE Account(f, from, text, fate)

\* The tests at the head of logmsg()'s loop.
Skipped(f, m) ==
    \/ m.pri \notin f.mask[m.fac]
    \/ f.type = "CONSOLE" /\ m.ign
    \/ m.mark /\ f.age < MarkInterval \div 2
IsRepeat(f, m) ==
    ~m.mark /\ m.text = f.prev /\ f.host # NoHost /\ m.host = f.host

Backoff(f) == [f EXCEPT !.rep = IF @ < Len(RepeatInterval) THEN @ + 1 ELSE @]
SavedKeepsLine(f, m) == [f EXCEPT !.rep = 1, !.host = m.host,
                                  !.prev = IF m.text \in LongTexts THEN @ ELSE m.text]
Saved(f, m) == [f EXCEPT !.rep = 1, !.host = m.host,
                         !.prev = IF m.text \in LongTexts THEN Empty ELSE m.text]

\* logmsg() is called, and owes its line to the destinations of the message.
LogCall ==
    /\ Running("next")
    /\ stack' = Append(Below, Call("log", Top.m))
    /\ owed' = Owing(owed, whole, read, files, Top.m)
    /\ UNCHANGED <<conf, files, batch, restart, markseq, alarm, dead, read, last, whole, late, hups, faults>>

LogSkip ==
    /\ Running("log") /\ ~AtEnd /\ Top.phase = "test" /\ Skipped(F, Top.m)
    /\ stack' = Next1
    /\ UNCHANGED <<conf, files, batch, restart, markseq, alarm, dead, history, hups, faults>>

\* "If domark would have logged this by now, flush it now."
NeverOverdue(f) == FALSE
Overdue(f) == f.age > RepeatInterval[f.rep]

\* "Suppress duplicate lines to this file."
LogRepeat ==
    /\ Running("log") /\ ~AtEnd /\ Top.phase = "test" /\ ~Skipped(F, Top.m)
    /\ IsRepeat(F, Top.m)
    /\ LET f == [F EXCEPT !.count = @ + 1]
       IN  IF Overdue(f)
           THEN Fprintlog(f, Top.m.host, Empty, InPhase("backoff"))
           ELSE /\ files' = [files EXCEPT ![Top.at] = f] /\ stack' = Next1
                /\ UNCHANGED <<last, owed, whole, faults>>
    /\ UNCHANGED <<conf, batch, restart, markseq, alarm, dead, read, late, hups>>
LogBackoff ==
    /\ Running("log") /\ ~AtEnd /\ Top.phase = "backoff"
    /\ files' = [files EXCEPT ![Top.at] = Backoff(@)] /\ stack' = Next1
    /\ UNCHANGED <<conf, batch, restart, markseq, alarm, dead, history, hups, faults>>

\* "New line, save it": the repeats counted so far first, then the line.
IsNew(f, m) == ~Skipped(f, m) /\ ~IsRepeat(f, m)
LogFlush ==
    /\ Running("log") /\ ~AtEnd /\ Top.phase = "test"
    /\ IsNew(F, Top.m) /\ F.count > 0
    /\ Fprintlog(F, Top.m.host, Empty, InPhase("save"))
    /\ UNCHANGED <<conf, batch, restart, markseq, alarm, dead, read, late, hups>>
LogSave ==
    /\ Running("log") /\ ~AtEnd
    /\ Top.phase = "save" \/ (Top.phase = "test" /\ IsNew(F, Top.m) /\ F.count = 0)
    /\ Fprintlog(Saved(F, Top.m), Top.m.host,
             IF Top.m.text \in LongTexts THEN Top.m.text ELSE Empty, Next1)
    /\ UNCHANGED <<conf, batch, restart, markseq, alarm, dead, read, late, hups>>

LogReturn ==
    /\ Running("log") /\ AtEnd
    /\ stack' = Below
    /\ UNCHANGED <<conf, files, batch, restart, markseq, alarm, dead, history, hups, faults>>

Logmsg == LogCall \/ LogSkip \/ LogRepeat \/ LogBackoff \/ LogFlush \/ LogSave \/ LogReturn

-----------------------------------------------------------------------------
(* The main loop.                                                          *)

Idle == ~dead /\ stack = <<>>

\* printline() and printsys(): a message is read and logged, with -S twice if it
\* is not one of the kernel.  It is the first one after poll(), when restart is
\* not set, or one of the others.
Twice(m) == ForceSync /\ m \notin Kernel
Receive(m) ==
    /\ Idle /\ (batch > 0 \/ ~restart)
    /\ \A i \in 1 .. Len(files) : IsRepeat(files[i], m) => files[i].count < MaxCount
    /\ batch' \in IF batch > 0 THEN {batch - 1} ELSE 0 .. MaxBatch - 1
    /\ stack' = IF Twice(m) THEN <<Call("next", m), Call("next", m)>> ELSE <<Call("next", m)>>
    /\ UNCHANGED <<conf, files, restart, markseq, alarm, dead, history, hups, faults>>

\* poll() returns, interrupted or not, and restart is set: init().
Restart ==
    /\ Idle /\ batch = 0 /\ restart
    /\ stack' = <<Call("close", Restarted)>>
    /\ UNCHANGED <<conf, files, batch, restart, markseq, alarm, dead, history, hups, faults>>

\* init() and die(): "Flush any pending output."
FlushOnlyClosing(op) ==
    /\ Running(op) /\ ~AtEnd
    /\ IF F.count > 0 /\ op = "close" THEN Fprintlog(F, Local, Empty, Next1)
       ELSE stack' = Next1 /\ UNCHANGED <<files, last, owed, whole, faults>>
    /\ UNCHANGED <<conf, batch, restart, markseq, alarm, dead, read, late, hups>>
Flush(op) ==
    /\ Running(op) /\ ~AtEnd
    /\ IF F.count > 0 THEN Fprintlog(F, Local, Empty, Next1)
       ELSE stack' = Next1 /\ UNCHANGED <<files, last, owed, whole, faults>>
    /\ UNCHANGED <<conf, batch, restart, markseq, alarm, dead, read, late, hups>>
CloseFlush == Flush("close")
DieFlush == Flush("die")

\* init(): the files are closed, the configuration read, and "restart" logged.
ReadConf ==
    /\ Running("close") /\ AtEnd
    /\ \E t \in Outcomes(conf) :
         /\ hups + faults + Faulty(conf, t) <= MaxTroubles
         /\ files' = Opened(conf, t) /\ faults' = faults + Faulty(conf, t)
    /\ read' = conf /\ late' = FALSE
    /\ stack' = Append(Below, Call("reload", Restarted)) \o Announce(conf)
    /\ whole' = (whole \ DestsOf(files', {"UNKN", "UNUSED"})) \cup DestsOf(files', Locals \cup {"FORW"})
    /\ owed' = [d \in Dests |-> IF d \in whole' THEN owed[d] ELSE Nothing]
    /\ UNCHANGED <<conf, batch, restart, markseq, alarm, dead, last, hups>>

\* main(): restart = 0, after init().
RestartDone ==
    /\ Running("reload")
    /\ stack' = Below /\ restart' = FALSE
    /\ UNCHANGED <<conf, files, batch, markseq, alarm, dead, history, hups, faults>>

\* trigger_restart(), after the administrator has edited the file or not.
HangupIf(heeded) ==
    /\ ~dead /\ hups + faults < MaxTroubles
    /\ hups' = hups + 1 /\ restart' = (restart \/ heeded) /\ conf' \in Confs
    /\ late' = \E i \in 1 .. Len(stack) : stack[i].op = "reload"
    /\ UNCHANGED <<files, stack, batch, markseq, alarm, dead, read, last, owed, whole, faults>>
HangupOnlyIdle == HangupIf(Idle)
Hangup == HangupIf(TRUE)

-----------------------------------------------------------------------------
(* domark() and die().                                                     *)

\* TIMERINTVL passes: domark() has set the alarm when it ran last.
Tick ==
    /\ Idle /\ ~alarm
    /\ alarm' = TRUE
    /\ files' = [i \in 1 .. Len(files) |->
                   [files[i] EXCEPT !.age = IF @ < MaxAge THEN @ + 1 ELSE @]]
    /\ UNCHANGED <<conf, stack, batch, restart, markseq, dead, history, hups, faults>>

\* SIGALRM is taken, by main() or by what is about to call logmsg(), which
\* blocks it: the mark, if it is time, then the loop over Files.
Domark ==
    /\ alarm /\ (Idle \/ Running("next"))
    /\ alarm' = FALSE
    /\ LET due == MarkInterval > 0 /\ markseq + 1 >= MarkInterval
       IN  /\ markseq' = IF due \/ MarkInterval = 0 THEN 0 ELSE markseq + 1
           /\ stack' = Append(stack, Call("due", Mark)) \o IF due THEN <<Call("log", Mark)>> ELSE <<>>
    /\ UNCHANGED <<conf, files, batch, restart, dead, history, hups, faults>>

IsDue(f) == f.count > 0 /\ f.age >= RepeatInterval[f.rep]
DueFlush ==
    /\ Running("due") /\ ~AtEnd /\ Top.phase = "test"
    /\ IF IsDue(F) THEN Fprintlog(F, Local, Empty, InPhase("backoff"))
       ELSE stack' = Next1 /\ UNCHANGED <<files, last, owed, whole, faults>>
    /\ UNCHANGED <<conf, batch, restart, markseq, alarm, dead, read, late, hups>>
DueBackoff ==
    /\ Running("due") /\ ~AtEnd /\ Top.phase = "backoff"
    /\ files' = [files EXCEPT ![Top.at] = Backoff(@)] /\ stack' = Next1
    /\ UNCHANGED <<conf, batch, restart, markseq, alarm, dead, history, hups, faults>>
DueReturn ==
    /\ Running("due") /\ AtEnd
    /\ stack' = Below
    /\ UNCHANGED <<conf, files, batch, restart, markseq, alarm, dead, history, hups, faults>>

\* SIGTERM is never blocked: die() may start in the middle of logmsg().  A
\* SIGTERM while init() frees the entries is left out.
Terminable == ~dead /\ \A i \in 1 .. Len(stack) : stack[i].op \notin {"close", "die", "exit"}
Term ==
    /\ Terminable
    /\ stack' = Append(stack, Call("die", Exiting))
    /\ UNCHANGED <<conf, files, batch, restart, markseq, alarm, dead, history, hups, faults>>

\* It may also come when fprintlog() has written the repeats of entry f and has
\* not yet set f_prevcount to 0, so that die() writes them again: that counts as
\* an error of the destination.
Repeating(f) ==
    /\ Top.phase = "test" /\ f.count > 0
    /\ \/ Running("due") /\ f = F /\ IsDue(F)
       \/ Running("log") /\ f = F /\ IsNew(F, Top.m)
       \/ /\ Running("log") /\ ~Skipped(F, Top.m) /\ IsRepeat(F, Top.m)
          /\ f = [F EXCEPT !.count = @ + 1] /\ Overdue(f)
TermInWrite ==
    /\ Terminable /\ stack # <<>> /\ ~AtEnd
    /\ \E f \in {F, [F EXCEPT !.count = @ + 1]} :
         /\ Repeating(f) /\ f.type # "UNKN" /\ Arrives(f, Top.m.host, "ok")
         /\ LET done == Printed(f, Top.m.host, "ok")
            IN  files' = [files EXCEPT ![Top.at] = [done EXCEPT !.count = f.count]]
         /\ last' = IF f.count > 1 THEN last ELSE [last EXCEPT ![f.dest] = <<f.prev, f.host>>]
         /\ whole' = whole \ {f.dest} /\ owed' = [owed EXCEPT ![f.dest] = Nothing]
    /\ stack' = Append(stack, Call("die", Exiting))
    /\ UNCHANGED <<conf, batch, restart, markseq, alarm, dead, read, late, hups, faults>>

DieLog ==
    /\ Running("die") /\ AtEnd
    /\ stack' = Append(Append(Below, Call("exit", Exiting)), Call("log", Exiting))
    /\ owed' = Owing(owed, whole, read, files, Exiting)
    /\ UNCHANGED <<conf, files, batch, restart, markseq, alarm, dead, read, last, whole, late, hups, faults>>
Exit ==
    /\ Running("exit")
    /\ dead' = TRUE
    /\ UNCHANGED <<conf, files, stack, batch, restart, markseq, alarm, history, hups, faults>>

Handlers == DueFlush \/ DueBackoff \/ DueReturn \/ DieFlush \/ DieLog \/ Exit
Reload == CloseFlush \/ ReadConf \/ RestartDone
Next ==
    \/ \E m \in Msgs : Receive(m)
    \/ Logmsg \/ Restart \/ Reload \/ Hangup
    \/ Tick \/ Domark \/ Handlers \/ Term \/ TermInWrite

Spec == Init /\ [][Next]_vars

-----------------------------------------------------------------------------
(* Properties.                                                             *)

\* init() has run for the first time.
Starting == hups + faults = 0 /\ stack = <<Call("next", Restarted)>>

\* cfline() of src/src/syslogd.c, whose masks are built one selector after the
\* other: whether a line selects a message is decided by the last of its
\* selectors that speaks of it, and "**" speaks of what was not named before.
\* Nothing is said of the facility "mark": the documentation does not let "*"
\* enable it, and cfline() does.
SelectorRule ==
    Starting =>
      \A c \in TestConfs \cup Confs :
        \A i \in 1 .. Len(c), g \in Facs \ {MarkFac}, p \in Pris :
          p \in Cflines(c)[i][g] <=> Selects(c, i, g, p)

Repeats(d, l) ==
    LET at == {i \in 1 .. Len(files) : files[i].dest = d /\ <<files[i].prev, files[i].host>> = l}
    IN  IF at = {} THEN 0 ELSE files[CHOOSE i \in at : TRUE].count
InFlight(d, l) ==
    Cardinality({k \in 1 .. Len(stack) :
      /\ stack[k].op = "log" /\ Line(stack[k].m) = l /\ ~stack[k].m.mark
      /\ \E i \in 1 .. Len(files) :
           /\ files[i].dest = d /\ Reaches(read, files, i, stack[k].m)
           /\ stack[k].at < i \/ (stack[k].at = i /\ stack[k].phase # "backoff")})

\* Nothing is lost, invented or shown more often than logmsg() was called: what a
\* destination that has had no error has not been shown yet is what logmsg() is
\* still to bring to it and the repeats f_prevcount stands for; "last message
\* repeated n times" is read as n copies of the line before it.  So it is
\* through reloads, marks, errors of other files logged in between, domark()
\* between the two calls that -S makes of one message, and the exit on SIGTERM.
LogFaithful ==
    \A d \in whole, l \in Lines \ {Line(Mark)} :
      owed[d][l] = Repeats(d, l) + InFlight(d, l)

\* When die() has come to its exit(), no message of others is still held back as
\* a repeat: it has flushed every entry, and what an entry has counted since then
\* are errors, of which the destination has been shown the first.  A line that
\* logmsg() was busy with when SIGTERM came is lost.
HeldAtExit ==
    dead => \A d \in whole, l \in Lines \ {Line(Mark)} : owed[d][l] > 0 =>
      \/ l = Line(Failed) /\ last[d] = l
      \/ \E k \in 1 .. Len(stack) : stack[k].op = "log" /\ Line(stack[k].m) = l

\* logmsg() and domark(), which test f_time at different times with > and >=:
\* repeats are not held back longer than the interval the entry is at, seen
\* when domark() has returned.
RepeatsHeldBriefly ==
    Idle /\ ~alarm =>
      \A i \in 1 .. Len(files) :
        files[i].count > 0 /\ files[i].type # "UNKN" => files[i].age <= RepeatInterval[files[i].rep]

\* main() and trigger_restart(): a file edited before a hangup has been read or
\* is going to be read, even if the hangup comes while messages are logged or
\* the entries of the old file are closed.  A hangup is forgotten in one place,
\* between the reading of the file and restart = 0 after init().
HangupHeeded ==
    conf # read => dead \/ restart \/ late
=============================================================================
