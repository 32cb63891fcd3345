------------------------------ MODULE MCTftpPut ------------------------------
(***************************************************************************)
(* TftpPut for TLC.                                                        *)
(***************************************************************************)
EXTENDS TftpPut, TLC

\* The tftpd processes are interchangeable; used where no liveness property
\* is checked.
Symmetry == Permutations(Servers)
=============================================================================
