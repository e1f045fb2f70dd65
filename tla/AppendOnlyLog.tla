---------------------------- MODULE AppendOnlyLog ----------------------------
(* What a ledger file promises its readers: its log is only ever extended.  *)
EXTENDS Sequences, SequencesExt

VARIABLE log

Init == log = << >>

Extend == log' # log /\ IsPrefix(log, log')

Spec == Init /\ [][Extend]_log
=============================================================================
