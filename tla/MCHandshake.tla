---------------------------- MODULE MCHandshake ----------------------------
EXTENDS Handshake
=============================================================================
