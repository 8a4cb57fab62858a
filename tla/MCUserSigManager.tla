-------------------------- MODULE MCUserSigManager --------------------------
(* Small instances of UserSigManager for TLC. *)
EXTENDS UserSigManager, TLC

CONSTANTS a1, a2, i1, i2

\* Two apps share an identifier; one of them has a second.
SharedIdentifier == {[app |-> a1, id |-> i1], [app |-> a2, id |-> i1],
                     [app |-> a1, id |-> i2]}

\* Threads are interchangeable.
Symmetry == Permutations(Threads)
=============================================================================
