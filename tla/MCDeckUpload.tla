---------------------------- MODULE MCDeckUpload ----------------------------
(* Instances of DeckUpload for TLC.                                        *)
EXTENDS DeckUpload
=============================================================================
