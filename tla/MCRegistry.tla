------------------------------ MODULE MCRegistry ------------------------------
EXTENDS Registry, TLC

\* Clients and instances are interchangeable; used for safety only.
Interchangeable == Permutations(Clients) \cup Permutations(Actors)

=============================================================================
