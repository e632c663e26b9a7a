---------------------------- MODULE SchemaVersion ----------------------------
(***************************************************************************)
(* What migrating promises: the migrations in effect are at all times the  *)
(* first so many, in the order of their versions; only the next one ever   *)
(* takes effect; and a server comes up only over all that its binary needs.*)
(***************************************************************************)
EXTENDS Integers

CONSTANTS Procs, Carries, Latest

VARIABLES inEffect,  \* the migrations in effect
          up         \* the servers that are serving

Init == (\E k \in 0..Latest : inEffect = 1..k) /\ up = {}

Migrate == \E n \in 1..Latest : inEffect = 1..(n - 1) /\ inEffect' = 1..n /\ UNCHANGED up

Serve(p) == 1..Carries[p] \subseteq inEffect /\ up' = up \union {p} /\ UNCHANGED inEffect

Stop(p) == up' = up \ {p} /\ UNCHANGED inEffect

Next == Migrate \/ \E p \in Procs : Serve(p) \/ Stop(p)

Spec == Init /\ [][Next]_<<inEffect, up>>

=============================================================================
