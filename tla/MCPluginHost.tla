---------------------------- MODULE MCPluginHost ----------------------------
(* An instance of PluginHost for TLC, smaller than that of MCPlugin, for    *)
(* what must come in the end: one plugin, two numbers for its attempts.     *)
EXTENDS PluginHost
=============================================================================
