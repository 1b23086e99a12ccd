------------------------ MODULE MCClassicConnections ------------------------
EXTENDS ClassicConnections
=============================================================================
