--------------------------- MODULE MCResponseCache ---------------------------
EXTENDS ResponseCache
=============================================================================
