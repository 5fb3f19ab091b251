---- MODULE MCMcp ----
EXTENDS McpManager, TLC
====
