---------------------------- MODULE NameRegistry ----------------------------
(***************************************************************************)
(* What claiming a username promises: claims are decided one at a time,    *)
(* and a name goes to whoever is decided first.                            *)
(***************************************************************************)
CONSTANTS Keys, Names, Lower, Requests, NoName

VARIABLES userName,  \* each key's name
          caller,    \* who makes each claim
          name,      \* and what is claimed
          verdict,   \* what was decided of it
          answer     \* what its client was told

vars == <<userName, caller, name, verdict, answer>>

HeldByAnother(k, n) ==
  \E j \in Keys \ {k} : userName[j] # NoName /\ Lower[userName[j]] = Lower[n]

Init ==
  /\ userName \in [Keys -> Names \union {NoName}]
  /\ \A k \in Keys : userName[k] # NoName => ~HeldByAnother(k, userName[k])
  /\ caller \in [Requests -> Keys]
  /\ name \in [Requests -> Names]
  /\ verdict = [h \in Requests |-> "none"]
  /\ answer = [h \in Requests |-> "none"]

\* A claim answered with an error may still be decided: the error says nothing.
Undecided(h) == verdict[h] = "none" /\ answer[h] \in {"none", "error"}

Grant(h) ==
  /\ Undecided(h)
  /\ ~HeldByAnother(caller[h], name[h])
  /\ userName' = [userName EXCEPT ![caller[h]] = name[h]]
  /\ verdict' = [verdict EXCEPT ![h] = "ok"]
  /\ UNCHANGED <<caller, name, answer>>

Refuse(h) ==
  /\ Undecided(h)
  /\ HeldByAnother(caller[h], name[h])
  /\ verdict' = [verdict EXCEPT ![h] = "taken"]
  /\ UNCHANGED <<userName, caller, name, answer>>

Answer(h) ==
  /\ verdict[h] # "none" /\ answer[h] = "none"
  /\ answer' = [answer EXCEPT ![h] = verdict[h]]
  /\ UNCHANGED <<userName, caller, name, verdict>>

\* An error says nothing about whether the claim took effect.
GiveUp(h) ==
  /\ answer[h] = "none"
  /\ answer' = [answer EXCEPT ![h] = "error"]
  /\ UNCHANGED <<userName, caller, name, verdict>>

Next == \E h \in Requests : Grant(h) \/ Refuse(h) \/ Answer(h) \/ GiveUp(h)

Spec == Init /\ [][Next]_vars

=============================================================================
