--------------------------- MODULE MCPersistence ----------------------------
\* A small instance of the persistence model for TLC.
EXTENDS Persistence
=============================================================================
