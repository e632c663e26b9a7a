----------------------------- MODULE MCDirectory -----------------------------
(***************************************************************************)
(* Directory for TLC.  Two spellings of one name and a second name, or one *)
(* spelling of each.                                                       *)
(***************************************************************************)
EXTENDS Directory, TLC

TwoSpellings == [n \in {"Ann", "ann", "bob"} |-> IF n = "bob" THEN "bob" ELSE "ann"]
OneSpelling  == [n \in {"ann", "bob"} |-> n]

AnyOrder == Permutations(Requests) \union Permutations(Keys)

\* The second spelling is brought in by the requests.
LowInit == Init /\ \A k \in Keys : userName[k] # "Ann"
LowSpec == LowInit /\ [][Next]_vars

\* Everybody has a name, and nobody removes whom they are adding: what unbalances a
\* pair is the removal that the one just added sends.
ApartInit ==
  /\ Init
  /\ \A k \in Keys : userName[k] # NoName
  /\ \A g, h \in Requests : op[g] = "add" /\ op[h] = "remove" => caller[g] # caller[h]
ApartSpec == ApartInit /\ [][Next]_vars
=============================================================================
