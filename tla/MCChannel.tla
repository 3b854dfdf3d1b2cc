------------------------------ MODULE MCChannel ------------------------------
EXTENDS Channel, TLC

\* Sound for safety only: no message is told apart from another.
AnyMessage == Permutations(Messages)

=============================================================================
