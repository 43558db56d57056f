------------------------------ MODULE MCCodexLog -----------------------------
(* The Codex adapter alone.                                                   *)
EXTENDS CodexLog
=============================================================================
