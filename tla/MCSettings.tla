----------------------------- MODULE MCSettings -----------------------------
(* An instance of Settings for TLC.                                        *)
EXTENDS Settings

CONSTANTS c, d, old, new
=============================================================================
