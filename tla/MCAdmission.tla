---------------------------- MODULE MCAdmission ----------------------------
(* Instantiations of Admission for TLC: two or three client processes.    *)
EXTENDS Admission

CONSTANTS c1, c2, c3

TwoClients == {c1, c2}
ThreeClients == {c1, c2, c3}

=============================================================================
