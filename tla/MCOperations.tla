---------------------------- MODULE MCOperations ----------------------------
EXTENDS Operations

=============================================================================
