---------------------------- MODULE MCKausaMemory ---------------------------
(***************************************************************************)
(* Small instances of KausaMemory for TLC.  Two texts, "rust" and "rusty", *)
(* are near duplicates; a third, "go", is far from both and contradicts    *)
(* "rust" for a checker that says so.                                      *)
(***************************************************************************)
EXTENDS KausaMemory

CONSTANTS p1, p2, n1, n2, rust, rusty, go, Lang, null

MCEntitiesOf == [c \in Contents |-> IF c = rusty THEN {} ELSE {Lang}]

MCSharesWord == [q \in Contents |-> {q}]

\* Percent of cosine distance: 0 to itself, 6 between the near duplicates, else 40.
MCDistance ==
  [pair \in Contents \X Contents |->
     IF pair[1] = pair[2] THEN 0
     ELSE IF pair[1] # go /\ pair[2] # go THEN 6 ELSE 40]

MCOpposes == [pair \in Contents \X Contents |-> pair = <<go, rust>>]

\* Two programs that store and sweep.
Writers == [p \in Procs |-> {"store", "forget"}]

\* An MCP server that stores and sweeps, a console that searches and shows statistics.
ServerAndConsole ==
  [p \in Procs |-> IF p = p1 THEN {"store", "forget"} ELSE {"search", "stats"}]

\* One agent that stores, and a program beside it that does everything else.
OneAgent == [p \in Procs |-> IF p = p1 THEN Kinds ELSE Kinds \ {"store"}]

StoreOnly == [p \in Procs |-> {"store"}]

=============================================================================
