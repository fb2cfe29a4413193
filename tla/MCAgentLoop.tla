----------------------------- MODULE MCAgentLoop -----------------------------
(* A small instance of AgentLoop: one protected tool, the fallback tool that *)
(* triggers enrichment, and one MCP tool that enrichment may call.           *)
EXTENDS AgentLoop

CONSTANTS block_ip, investigate_ioc, blocklist_check, ip1

=============================================================================
