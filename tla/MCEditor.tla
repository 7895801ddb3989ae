------------------------------ MODULE MCEditor ------------------------------
\* Two keys, a dial and a shared control; one page, of which the second key is
\* of a newer version.
EXTENDS Editor

OnePage ==
  [pages |-> <<[id |-> 1, slots |-> (0 :> Plain("open"))]>>, small |-> {}, foreign |-> {<<1, 1>>}]
Offered == {Own("a", {"b"})}
OneMacro == "a" :> {}
NoLibrary == [m \in {} |-> {}]
Elsewhere == {"b" :> {"a"}}
OneGroup == {<<<<Plain("open"), Plain("open")>>>>}
=============================================================================
