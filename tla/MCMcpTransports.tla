---------------------------- MODULE MCMcpTransports -----------------------------
(* The option of app.module.ts, and one for each of the other transports.  *)
EXTENDS McpTransports

MCOptions == {[isList |-> TRUE, types |-> {"sse", "stdio"}],
              [isList |-> TRUE, types |-> {"streamable-http"}],
              [isList |-> FALSE, types |-> {"stdio"}]}
=================================================================================
