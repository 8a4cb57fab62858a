--------------------------- MODULE MCMutexOptSync ---------------------------
(* Small instances of MutexOptSync for TLC. *)
EXTENDS MutexOptSync

CONSTANTS k1, k2

Ask(key, blocked, timeout, waitSeed) ==
    [key |-> key, stub |-> FALSE, blocked |-> blocked, timeout |-> timeout,
     waitSeed |-> waitSeed]

\* Two keys, both modes, a blank key, timeouts at and above zero, a seed that
\* random.nextInt refuses, and sync as shipped.
SomeCalls ==
    {Ask(k1, TRUE, 2, 100), Ask(k2, TRUE, 2, 100), Ask(k1, FALSE, 2, 100),
     Ask(k1, TRUE, 0, 100), Ask(k1, TRUE, 1, 0), Ask(Blank, TRUE, 1, 100),
     [Ask(k1, TRUE, 1, 100) EXCEPT !.stub = TRUE]}

\* One key, a patient and a non-blocking caller.
OneKeyCalls == {Ask(k1, TRUE, 2, 100), Ask(k1, FALSE, 2, 100)}

AllFailures == {"lockCache", "removeCache", "function", "crash"}
NoFailures  == {}
=============================================================================
