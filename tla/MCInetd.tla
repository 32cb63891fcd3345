------------------------------- MODULE MCInetd -------------------------------
(* Small instances of Inetd: a datagram service of the "wait" kind (talk), a *)
(* stream of the "nowait" kind (ftp) and a built-in stream (time).           *)
EXTENDS Inetd

Talk == "talk"
Ftp  == "ftp"
Time == "time"

AllServices == {Talk, Ftp, Time}
TwoServices == {Talk, Ftp}
OneFile == [s \in Services |-> 1]
FtpSecond == [s \in Services |-> IF s = Ftp THEN 2 ELSE 1]

\* What the files say: talk waits, the others do not, and "out" is not listed.
Conf(out) == [s \in Services |-> IF s \in out THEN "none"
                                 ELSE IF s = Talk THEN "wait" ELSE "nowait"]
Fixed == {Conf({})}
FtpComesGoes == {Conf({}), Conf({Ftp})}

NoMax == [s \in Services |-> 0]
MaxFtp == [s \in Services |-> IF s = Ftp THEN 1 ELSE 0]
=============================================================================
