---------------------------- MODULE MCChatServer ----------------------------
(***************************************************************************)
(* ChatServer for TLC.                                                     *)
(***************************************************************************)
EXTENDS ChatServer, TLC

OneSpelling == [n \in {"ann", "bob"} |-> n]

AnyOrder == Permutations(Requests) \union Permutations(Keys)

\* Adds and removals of the other person, who has a name; the requests that find
\* nobody, or oneself, and claims are in the runs of Directory.
EditInit ==
  /\ ChatInit
  /\ \A h \in Requests :
       /\ op[h] \in {"add", "remove"}
       /\ \E k \in Keys \ {caller[h]} : userName[k] = name[h]
EditSpec == EditInit /\ [][ChatNext]_chatVars
=============================================================================
