------------------------------ MODULE Timeline ------------------------------
(***************************************************************************)
(* What the message log promises, with no transaction, lock or poll in     *)
(* sight: sends take effect one at a time, each at the end of one          *)
(* timeline, and every reader has at any moment an initial segment of the  *)
(* part of the timeline it may read.                                       *)
(***************************************************************************)
EXTENDS Integers

CONSTANTS Keys, Requests

VARIABLES last,     \* the id of the last message
          log,      \* the messages posted so far
          outcome,  \* what each sender has been told
          shown     \* what each reader has been shown

vars == <<last, log, outcome, shown>>

Visible(m, k) == m.sender = k \/ k \in m.to

Init ==
  /\ last = 0
  /\ log = {}
  /\ outcome = [r \in Requests |-> "pending"]
  /\ shown = [k \in Keys |-> {}]

Posted(r) == \E m \in log : m.req = r

\* A send takes effect, at most once, and at the end.
Post(r) ==
  /\ ~Posted(r)
  /\ last' = last + 1
  /\ \E k \in Keys, to \in SUBSET Keys :
       /\ k \notin to
       /\ log' = log \union {[id |-> last + 1, req |-> r, sender |-> k, to |-> to]}
  /\ UNCHANGED <<outcome, shown>>

\* Success is reported only of a send that took effect.
Acknowledge(r) ==
  /\ outcome[r] = "pending"
  /\ Posted(r)
  /\ outcome' = [outcome EXCEPT ![r] = "created"]
  /\ UNCHANGED <<last, log, shown>>

\* A failure says nothing: the send may have taken effect or may yet do so.
GiveUp(r) ==
  /\ outcome[r] = "pending"
  /\ outcome' = [outcome EXCEPT ![r] = "failed"]
  /\ UNCHANGED <<last, log, shown>>

Unseen(k) == {m \in log : Visible(m, k)} \ shown[k]

\* A reader is shown the next messages, skipping none.
CatchUp(k) ==
  /\ \E B \in SUBSET Unseen(k) :
       /\ \A m \in B, n \in Unseen(k) : n.id < m.id => n \in B
       /\ shown' = [shown EXCEPT ![k] = @ \union B]
  /\ UNCHANGED <<last, log, outcome>>

StartOver(k) ==
  /\ shown' = [shown EXCEPT ![k] = {}]
  /\ UNCHANGED <<last, log, outcome>>

Next ==
  \/ \E r \in Requests : Post(r) \/ Acknowledge(r) \/ GiveUp(r)
  \/ \E k \in Keys : CatchUp(k) \/ StartOver(k)

Spec == Init /\ [][Next]_vars

=============================================================================
