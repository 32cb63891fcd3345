------------------------------ MODULE MCSyslogd ------------------------------
(* Small instances of Syslogd.                                             *)
EXTENDS Syslogd

Sel(fac, lev, pri) == [fac |-> fac, neg |-> FALSE, lev |-> lev, pri |-> pri]
Not(s) == [s EXCEPT !.neg = TRUE]
To(sel, type, dest) == [sel |-> sel, type |-> type, dest |-> dest]

MCFacs == {"user", "syslog", "mark"}

\* All messages to a file, errors also to a host and another file.
ConfA == <<To(<<Sel("*", "all", 0)>>, "FILE", "log"),
           To(<<Sel("syslog", "upto", 3)>>, "FORW", "loghost"),
           To(<<Sel("syslog", "upto", 3)>>, "FILE", "errors")>>
\* The first file read as a pipe, and only for the messages of users.
ConfB == <<To(<<Sel("*", "all", 0), Sel("syslog", "none", 0), Sel("mark", "none", 0)>>, "PIPE", "log")>>
MCConfs == {ConfA, ConfB, Fallback}

Msg(text, host) ==
    [text |-> text, host |-> host, fac |-> "user", pri |-> 6, mark |-> FALSE, ign |-> FALSE]
MCKernel == {Msg("long", "here")}
MCMsgs == {Msg("a", "here")} \cup MCKernel

\* Files of two lines with up to two selectors each.
TestSels ==
    {[fac |-> f, neg |-> n, lev |-> l, pri |-> 3] :
       f \in {"*", "**", "user", "syslog"}, n \in BOOLEAN, l \in {"all", "none", "only", "upto"}}
MCTestConfs ==
    {<<To(<<s>>, "FILE", "log"), To(<<t, u>>, "FILE", "log")>> : s \in {x \in TestSels : x.lev = "upto"}, t, u \in TestSels}
=============================================================================
