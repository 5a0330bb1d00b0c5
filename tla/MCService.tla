------------------------------ MODULE MCService -----------------------------
(***************************************************************************)
(* A small instance of Service: two namespaces, two texts a checker takes  *)
(* for contradictions of each other, one question, one client that pages.  *)
(***************************************************************************)
EXTENDS Service

CONSTANTS n1, n2, rust, go, Lang, null

MCEntitiesOf == [c \in Contents |-> {Lang}]

MCSharesWord == [q \in Contents |-> {q}]

MCDistance == [pair \in Contents \X Contents |-> IF pair[1] = pair[2] THEN 0 ELSE 40]

MCOpposes == [pair \in Contents \X Contents |-> pair = <<go, rust>>]

=============================================================================
