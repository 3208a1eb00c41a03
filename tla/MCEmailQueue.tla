---------------------------- MODULE MCEmailQueue ----------------------------
(* Small instances of EmailQueue for TLC *)
EXTENDS EmailQueue

CONSTANTS m1, m2

\* One mail and two faults, or two mails in a batch and none
Loads == {<<{m1}, 2>>, <<{m1, m2}, 0>>}
=============================================================================
