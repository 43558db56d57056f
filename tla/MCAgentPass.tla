----------------------------- MODULE MCAgentPass -----------------------------
EXTENDS AgentPassProps
=============================================================================
