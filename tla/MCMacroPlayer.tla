--------------------------- MODULE MCMacroPlayer ---------------------------
\* Two macros on one control (on different pages) that share enter: `hold`
\* leaves it down when it plays once, and has shift of its own.
EXTENDS MacroPlayer

CONSTANTS hold, tap, shift, enter

Down(k) == [op |-> "down", key |-> k]
Up(k) == [op |-> "up", key |-> k]
Other == [op |-> "other", key |-> None]

\* Between them, every way a press and the end of the steps are dealt with.
TypesOf ==
  [s \in Slots |-> IF s = hold THEN {"sequence", "restart"}
                   ELSE {"sequence", "queue", "toggle", "held_now"}]
OneControl == [s \in Slots |-> "key 1"]
TwoMacros ==
  [s \in Slots |->
     IF s = hold
     THEN [all |-> <<Down(enter)>>, press |-> <<Down(shift)>>, held |-> <<Other>>,
           release |-> <<Up(shift)>>]
     ELSE [all |-> <<Down(enter), Up(enter)>>, press |-> <<>>, held |-> <<>>,
           release |-> <<Up(enter)>>]]

=============================================================================
