------------------------------ MODULE MCPiClient ------------------------------
EXTENDS PiClient

StrictPolicy == [hello |-> TRUE, protocol |-> TRUE]
=============================================================================
