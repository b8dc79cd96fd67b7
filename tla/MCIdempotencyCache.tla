------------------------- MODULE MCIdempotencyCache -------------------------
\* A two-slot cache shared by three calls on up to three keys: full caches,
\* expired entries in front of live ones and calls that join a pending run all
\* occur.  Calls and keys are interchangeable, so one assignment of keys to
\* calls stands for all that are equal to it up to renaming.
EXTENDS IdempotencyCache

MCCalls == 1..3
MCKeys == 1..3

MCInit == Init /\ key \in {<<1, 1, 1>>, <<1, 1, 2>>, <<1, 2, 3>>}
MCSpec == MCInit /\ [][Next]_vars /\ Fairness
=============================================================================
