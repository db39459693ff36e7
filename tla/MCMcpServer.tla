------------------------------ MODULE MCMcpServer ------------------------------
(* A build, a deployment and a tool that runs no process and whose result is not *)
(* UTF-8, for a server with room for two calls.                                 *)
EXTENDS McpServer

CONSTANTS b, d, t

MCCall == {b, d, t}
MCBuilds == {b}
MCDeploys == {d}
MCUnprintable == {t}
=============================================================================
