----------------------------- MODULE MCTftpSubs -----------------------------
(***************************************************************************)
(* TftpSubs for TLC: every file over a plain character, lf, cr and nul.    *)
(***************************************************************************)
EXTENDS TftpSubs

CONSTANT MaxLen   \* length of the longest file

FilesUpTo == UNION {[1 .. n -> {"x", LF, CR, NUL}] : n \in 0 .. MaxLen}
=============================================================================
