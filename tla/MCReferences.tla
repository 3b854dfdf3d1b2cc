---------------------------- MODULE MCReferences ----------------------------
EXTENDS References

=============================================================================
