------------------------------ MODULE MCMcpExecution ------------------------------
(* A plugin kept running, a plugin started for each call and a remote server. *)
EXTENDS McpExecution

CONSTANTS kept, perCall, remote

AllSources == {kept, perCall, remote}
LocalSingletons == {kept}
AllSingletons == {kept, remote}
RemoteSources == {remote}
OneSource == {kept}
NoSource == {}
=============================================================================
