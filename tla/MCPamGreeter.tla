----------------------------- MODULE MCPamGreeter -----------------------------
(* The greeter with the constants TLC gives it.                            *)
EXTENDS PamGreeter, TLC

=============================================================================
