----------------------------- MODULE MCPowerSeq -----------------------------
EXTENDS PowerSeq
=============================================================================
