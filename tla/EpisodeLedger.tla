---------------------------- MODULE EpisodeLedger ---------------------------
(***************************************************************************)
(* What a memory promises its agents, without connections or indexes: an   *)
(* append-only ledger of episodes.  Each call that succeeds is one step,   *)
(* each call that fails is none.                                           *)
(***************************************************************************)
EXTENDS Integers, Sequences

CONSTANT NULL      \* the SQL NULL of an open validTo

VARIABLE ledger

Init == ledger = << >>

Last(s) == s[Len(s)]

\* A new current episode is appended and closes at most one older one of its namespace.
Record ==
  /\ Len(ledger') = Len(ledger) + 1
  /\ LET new == Last(ledger')  id == Len(ledger') IN
     /\ new.validTo = NULL /\ new.supersededBy = NULL /\ new.accessCount = 0
     /\ \/ ledger' = Append(ledger, new)
        \/ \E old \in DOMAIN ledger :
             /\ ledger[old].namespace = new.namespace
             /\ ledger' = Append([ledger EXCEPT ![old].validTo = new.validFrom,
                                                ![old].supersededBy = id], new)

\* Episodes past their expiry are closed, all with the same time.
Sweep ==
  \E ids \in (SUBSET DOMAIN ledger) \ {{}} :
    LET now == ledger'[CHOOSE i \in ids : TRUE].validTo IN
    /\ now # NULL
    /\ \A i \in ids : ledger[i].expiresAt # NULL /\ ledger[i].expiresAt <= now
    /\ ledger' = [i \in DOMAIN ledger |->
                    IF i \in ids THEN [ledger[i] EXCEPT !.validTo = now] ELSE ledger[i]]

\* A search counts one access of every episode it returned.
Access ==
  \E ids \in (SUBSET DOMAIN ledger) \ {{}} :
    ledger' = [i \in DOMAIN ledger |->
                 IF i \in ids THEN [ledger[i] EXCEPT !.accessCount = @ + 1] ELSE ledger[i]]

Next == Record \/ Sweep \/ Access

Spec == Init /\ [][Next]_ledger

=============================================================================
