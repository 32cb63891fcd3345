---------------------------- MODULE TelnetOption ----------------------------
(***************************************************************************)
(* Option negotiation between telnet (src/telnet/telnet.c) and telnetd     *)
(* (src/telnetd/state.c), for one option in one direction: the "will" end, *)
(* which sends WILL and WONT and receives DO and DONT, and the "do" end,   *)
(* the other way round.  The client is either end, and so is the server:   *)
(* both programs have the same four request functions and four handlers.   *)
(* Options with a treatment of their own (TM, LINEMODE, LOGOUT and the     *)
(* ENVIRON pair) are not modelled, except for ECHO: see kind.              *)
(***************************************************************************)
EXTENDS Integers, Sequences

CONSTANTS
    Kinds,      \* kinds of option, a subset of AllKinds
    RespMax,    \* bound on do_dont_resp[] and will_wont_resp[], of type char
    MaxRequests \* bound: requests that each end sends of its own accord

Ends == {"will", "do"}
Peer(e) == IF e = "will" THEN "do" ELSE "will"

\* Options that both ends accept, only one end accepts, and ECHO where the
\* "do" end is telnetd.
AllKinds == {"both", "will", "do", "echo"}

ASSUME TelnetOptionAssumption ==
    /\ Kinds \subseteq AllKinds
    /\ RespMax \in Nat /\ MaxRequests \in Nat

VARIABLES
    kind,   \* the kind of the option
    state,  \* my_state_is_will() or my_state_is_do() of each end
    want,   \* my_want_state_is_will() or my_want_state_is_do()
    resp,   \* will_wont_resp[] or do_dont_resp[]
    chan,   \* negotiations on their way to each end, TRUE for WILL and DO
    asked   \* requests sent so far

vars == <<kind, state, want, resp, chan, asked>>

TypeOK ==
    /\ kind \in Kinds
    /\ state \in [Ends -> BOOLEAN] /\ want \in [Ends -> BOOLEAN]
    /\ resp \in [Ends -> 0 .. RespMax]
    /\ chan \in [Ends -> Seq(BOOLEAN)]
    /\ asked \in [Ends -> 0 .. MaxRequests]

Init ==
    /\ kind \in Kinds
    /\ state = [e \in Ends |-> FALSE] /\ want = [e \in Ends |-> FALSE]
    /\ resp = [e \in Ends |-> 0] /\ chan = [e \in Ends |-> <<>>]
    /\ asked = [e \in Ends |-> 0]

\* Whether end e agrees to a request of its peer to switch the option on: the
\* switch statements of willoption() and dooption().
Accepts(e) == kind \in {"both", e} \/ (kind = "echo" /\ e = "will")

\* What an end has of the option, for the operators below.
End(e) == [state |-> state[e], want |-> want[e], resp |-> resp[e], out |-> <<>>]

\* send_will, send_wont, send_do and send_dont with init set, on x: nothing
\* if the state is new already or will be.
Send(x, new) ==
    IF (x.resp = 0 /\ x.state = new) \/ x.want = new THEN x
    ELSE [x EXCEPT !.want = new, !.resp = @ + 1, !.out = Append(@, new)]

\* The answers still expected once one has come.
AnsweredNever(x, new) == x.resp
AnsweredBlind(x, new) ==
    IF x.resp > 1 /\ x.state = new THEN x.resp - 2 ELSE x.resp - 1
Answered(x, new) ==
    IF x.resp > 1 /\ x.state = new THEN x.resp - 2
    ELSE IF x.resp > 0 THEN x.resp - 1 ELSE 0

\* willoption() and dooption() if new is TRUE, wontoption() and dontoption()
\* if it is FALSE, at end e.
Handled(e, x, new) ==
    LET y == [x EXCEPT !.resp = Answered(x, new)]
        z == IF y.resp > 0 THEN y
             ELSE IF ~y.want /\ new
                  THEN IF Accepts(e) THEN [y EXCEPT !.want = TRUE, !.out = <<TRUE>>]
                                     ELSE [y EXCEPT !.resp = 1, !.out = <<FALSE>>]
             ELSE IF y.want /\ ~new
                  THEN [y EXCEPT !.want = FALSE, !.out = IF y.state THEN <<FALSE>> ELSE <<>>]
             ELSE IF y.want /\ kind = "echo" /\ e = "do" THEN Send(y, FALSE) ELSE y
    IN  [z EXCEPT !.state = new]

Update(e, x) ==
    /\ state' = [state EXCEPT ![e] = x.state] /\ want' = [want EXCEPT ![e] = x.want]
    /\ resp' = [resp EXCEPT ![e] = x.resp]

\* An end asks for a change of its own accord: user command, terminal mode.  A
\* request that send_will() and the like find needless changes nothing.
Ask(e, new) ==
    /\ asked[e] < MaxRequests
    /\ asked' = [asked EXCEPT ![e] = @ + 1]
    /\ LET x == Send(End(e), new)
       IN  /\ x.out # <<>> /\ Update(e, x)
           /\ chan' = [chan EXCEPT ![Peer(e)] = @ \o x.out]
    /\ UNCHANGED kind

\* telrcv() of end e comes to a negotiation.
Receive(e) ==
    /\ chan[e] # <<>>
    /\ LET x == Handled(e, End(e), Head(chan[e]))
       IN  Update(e, x) /\ chan' = [chan EXCEPT ![e] = Tail(@), ![Peer(e)] = @ \o x.out]
    /\ UNCHANGED <<kind, asked>>

Next == \E e \in Ends : Receive(e) \/ \E new \in BOOLEAN : Ask(e, new)

Spec == Init /\ [][Next]_vars

-----------------------------------------------------------------------------
(* Properties.                                                             *)

Quiet == \A e \in Ends : chan[e] = <<>>

\* When nothing is on its way, the two ends want the same of the option,
\* whoever asked for what, in which order, and however requests crossed.
Consensus == Quiet => want["will"] = want["do"]

\* An option that both ends accept is also settled then: both have what they
\* want, and neither waits for an answer that nobody will send.
Settled == Quiet /\ kind = "both" => \A e \in Ends : state[e] = want[e] /\ resp[e] = 0
=============================================================================
