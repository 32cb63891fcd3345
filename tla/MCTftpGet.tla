------------------------------ MODULE MCTftpGet ------------------------------
(***************************************************************************)
(* TftpGet for TLC.                                                        *)
(***************************************************************************)
EXTENDS TftpGet, TLC

\* The tftpd processes are interchangeable; used where no liveness property
\* is checked.
Symmetry == Permutations(Servers)
=============================================================================
