----------------------------- MODULE MCLogCursor -----------------------------
EXTENDS LogCursor
=============================================================================
