------------------------------ MODULE MCPwrBtn ------------------------------
\* TLC instances of the power button.
EXTENDS PwrBtn
=============================================================================
