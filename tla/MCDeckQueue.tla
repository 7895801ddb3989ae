---------------------------- MODULE MCDeckQueue ----------------------------
\* Two plugins with two keys, values the deck can tell apart, and room for one
\* message: every order of three queued slots.
EXTENDS DeckQueue

=============================================================================
