--------------------------- MODULE MCAutoReindex ----------------------------
(* Names and scopes for model checking AutoReindex. *)
EXTENDS AutoReindex

CONSTANTS c1, c2, c3, s1

MCNames == {"local", "bogus"}
MCKnown == {"local"}
\* The third call names a source that does not exist; everybody else, the
\* scheduler included, asks for the local sources.
MCScope ==
  [c \in Callers |-> IF c = c3 THEN {"bogus"} ELSE {"local"}]
=============================================================================
