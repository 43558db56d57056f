----------------------------- MODULE MCUsageStore -----------------------------
(***************************************************************************)
(* One Codex session with a thread snapshot, two log records and a record  *)
(* that was sanitized at first; two records without a session.             *)
(***************************************************************************)
EXTENDS UsageStore

MCIds == {"thread", "line1", "line2", "fixed", "loose1", "loose2"}
MCSession(i) == IF i \in {"loose1", "loose2"} THEN NoSession ELSE "session"
MCSessionOf == [i \in MCIds |-> MCSession(i)]
MCKindsOf ==
  [i \in MCIds |->
     CASE i = "thread" -> {"aggregate"}
       [] i = "fixed"  -> {"partial", "summed", "detailed"}
       [] OTHER        -> {"detailed"}]

=============================================================================
