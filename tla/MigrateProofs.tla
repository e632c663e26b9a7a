---------------------------- MODULE MigrateProofs ----------------------------
(***************************************************************************)
(* Proofs about Migrate for any processes, tasks and builds.               *)
(***************************************************************************)
EXTENDS Migrate, TLAPS

-----------------------------------------------------------------------------
(* The inductive invariant.                                                *)

\* A process between its statements has no transaction, one inside applyOne has
\* got as far with it as its next statement says, and only a process that is down
\* can have left one behind.
TxnInv ==
  \A p \in Procs :
    /\ pc[p] \in {"ensuring", "listing", "reading", "deciding", "serving", "finished"}
         => txn[p] = "none"
    /\ pc[p] = "executing"  => txn[p] = "open"
    /\ pc[p] = "recording"  => txn[p] = "executed"
    /\ pc[p] = "committing" => txn[p] = "recorded"
    /\ pc[p] = "awaiting"   => txn[p] \in {"committing", "committed"}
    /\ pc[p] = "down"       => txn[p] # "committed"

\* What a process has read or reported is on record, and whatever -status has
\* listed was on record when the rest was read.
ReadInv ==
  \A p \in Procs :
    /\ done[p] \subseteq recorded
    /\ applied[p] \subseteq recorded
    /\ shown[p] \subseteq recorded
    /\ pc[p] = "finished" => shown[p] \subseteq done[p]
    /\ pc[p] \in {"deciding", "executing", "recording", "committing", "awaiting"}
         => shown[p] \subseteq done[p]

\* A transaction applies one of the process's migrations, and everything below it
\* is on record.
NextInv ==
  \A p \in Procs :
    txn[p] # "none" =>
      /\ at[p] \in 1..Carries[p]
      /\ \A n \in 1..Carries[p] : n < at[p] => n \in recorded

\* The primary key: a row that is inserted and uncommitted is the only one of its
\* version.
Inserted(p) == txn[p] \in {"recorded", "committing"}

KeyInv ==
  \A p \in Procs :
    Inserted(p) =>
      /\ at[p] \notin recorded
      /\ \A q \in Procs \ {p} : Inserted(q) => at[q] # at[p]

\* A commit that is still to be reported is nobody else's.
CommittedInv ==
  \A p \in Procs :
    txn[p] = "committed" =>
      /\ at[p] \in recorded
      /\ \A q \in Procs \ {p} :
           at[p] \notin applied[q] /\ (txn[q] = "committed" => at[q] # at[p])

\* The migrations on record are the first so many.
Prefix == \E k \in 0..Latest : recorded = 1..k

Disjoint == \A p, q \in Procs : p # q => applied[p] \intersect applied[q] = {}

Current ==
  \A p \in Procs :
    pc[p] = "serving" \/ (Task[p] = "migrate" /\ pc[p] = "finished")
      => 1..Carries[p] \subseteq recorded

IInv ==
  /\ TypeOK /\ TxnInv /\ ReadInv /\ NextInv /\ KeyInv /\ CommittedInv
  /\ Prefix /\ RunsOnce /\ Disjoint /\ Current

USE TaskAssumption, LatestAssumption, CarriesAssumption, FaultsAssumption

-----------------------------------------------------------------------------

\* Initially no process is up and the record is that of earlier deployments.
LEMMA InitInv == Init => IInv
<1> SUFFICES ASSUME Init PROVE IInv
  OBVIOUS
<1>1. PICK k \in 0..Latest :
        /\ recorded = 1..k
        /\ ran = [m \in Versions |-> IF m <= k THEN 1 ELSE 0]
        /\ table = (k > 0)
  BY DEF Init
<1>2. TypeOK
  BY <1>1 DEF Init, TypeOK, Versions
<1>3. Prefix /\ RunsOnce
  BY <1>1 DEF Prefix, RunsOnce, Versions
<1>4. TxnInv /\ ReadInv /\ NextInv /\ KeyInv /\ CommittedInv /\ Disjoint /\ Current
  BY DEF Init, TxnInv, ReadInv, NextInv, KeyInv, Inserted, CommittedInv, Disjoint, Current
<1>5. QED
  BY <1>2, <1>3, <1>4 DEF IInv

\* Every step of a process keeps the types (Apply, applyOne and their callers).
LEMMA TypeStep ==
  ASSUME IInv, NEW p \in Procs, Advance(p) \/ Settle(p) \/ Fail(p) \/ Die(p)
  PROVE  TypeOK'
<1> USE DEF TypeOK, IInv, Versions, Step, database, reports
<1>1. CASE Launch(p)
  BY <1>1 DEF Launch
<1>2. CASE EnsureMigrationsTable(p)
  BY <1>2 DEF EnsureMigrationsTable
<1>3. CASE AppliedMigrations(p)
  BY <1>3 DEF AppliedMigrations
<1>4. CASE AppliedVersions(p)
  BY <1>4 DEF AppliedVersions
<1>5. CASE Begin(p)
  BY <1>5 DEF Begin, Left
<1>6. CASE Execute(p)
  BY <1>6 DEF Execute
<1>7. CASE Record(p)
  BY <1>7 DEF Record
<1>8. CASE Clash(p)
  BY <1>8 DEF Clash
<1>9. CASE Commit(p)
  BY <1>9 DEF Commit
<1>10. CASE Applied(p)
  BY <1>10 DEF Applied, TxnInv, CommittedInv
<1>11. CASE Conclude(p)
  BY <1>11 DEF Conclude
<1>12. CASE Durable(p)
  <2>1. at[p] \in Versions
    BY <1>12 DEF Durable, NextInv
  <2>2. recorded' \subseteq Versions
    BY <1>12, <2>1 DEF Durable
  <2>3. ran' \in [Versions -> Nat]
    <3>1. ran \in [Versions -> Nat] /\ ran' = [ran EXCEPT ![at[p]] = ran[at[p]] + 1]
      BY <1>12 DEF Durable
    <3>2. QED
      BY <2>1, <3>1
  <2>4. txn' \in [Procs -> {"none", "open", "executed", "recorded", "committing", "committed"}]
    BY <1>12 DEF Durable
  <2>5. QED
    BY <1>12, <2>2, <2>3, <2>4 DEF Durable
<1>13. CASE Reap(p)
  BY <1>13 DEF Reap
<1>14. CASE Fail(p)
  BY <1>14 DEF Fail
<1>15. CASE Die(p)
  BY <1>15 DEF Die
<1>16. QED
  BY <1>1, <1>2, <1>3, <1>4, <1>5, <1>6, <1>7, <1>8, <1>9, <1>10, <1>11, <1>12, <1>13,
     <1>14, <1>15 DEF Advance, Settle

\* Every step but a commit leaves the record, and what has run, alone.
LEMMA RecordStep ==
  ASSUME IInv, NEW p \in Procs, Advance(p) \/ Fail(p) \/ Die(p) \/ Reap(p)
  PROVE  UNCHANGED <<recorded, ran>>
BY DEF Advance, Launch, EnsureMigrationsTable, AppliedMigrations, AppliedVersions, Begin,
       Execute, Record, Clash, Commit, Applied, Conclude, Reap, Fail, Die, database

\* A transaction commits the one migration that comes next.
LEMMA DurableStep ==
  ASSUME IInv, NEW p \in Procs, Durable(p)
  PROVE  \E k \in 0..Latest - 1 :
           /\ recorded = 1..k
           /\ at[p] = k + 1
           /\ recorded' = 1..(k + 1)
<1>1. PICK k \in 0..Latest : recorded = 1..k
  BY DEF IInv, Prefix
<1>2. at[p] \in 1..Carries[p] /\ at[p] \notin recorded
  BY DEF IInv, NextInv, KeyInv, Inserted, Durable
<1>3. \A n \in 1..Carries[p] : n < at[p] => n \in recorded
  BY DEF IInv, NextInv, Durable
<1>4. Carries[p] \in 0..Latest
  OBVIOUS
<1>5. at[p] = k + 1
  <2>1. at[p] > k
    BY <1>1, <1>2, <1>4
  <2>2. CASE at[p] > k + 1
    BY <1>1, <1>2, <1>3, <1>4, <2>2
  <2>3. QED
    BY <1>2, <1>4, <2>1, <2>2
<1>6. k \in 0..Latest - 1
  BY <1>2, <1>4, <1>5
<1>7. recorded' = 1..(k + 1)
  BY <1>1, <1>5 DEF Durable
<1>8. QED
  BY <1>1, <1>5, <1>6, <1>7

\* Each step keeps every process in step with its transaction.
LEMMA TxnStep ==
  ASSUME IInv, NEW p \in Procs, Advance(p) \/ Settle(p) \/ Fail(p) \/ Die(p)
  PROVE  TxnInv'
<1> USE DEF IInv, TypeOK, TxnInv, Step
<1>1. CASE Launch(p)
  BY <1>1 DEF Launch
<1>2. CASE EnsureMigrationsTable(p)
  BY <1>2 DEF EnsureMigrationsTable
<1>3. CASE AppliedMigrations(p)
  BY <1>3 DEF AppliedMigrations
<1>4. CASE AppliedVersions(p)
  BY <1>4 DEF AppliedVersions
<1>5. CASE Begin(p)
  BY <1>5 DEF Begin
<1>6. CASE Execute(p)
  BY <1>6 DEF Execute
<1>7. CASE Record(p)
  BY <1>7 DEF Record
<1>8. CASE Clash(p)
  BY <1>8 DEF Clash
<1>9. CASE Commit(p)
  BY <1>9 DEF Commit
<1>10. CASE Applied(p)
  BY <1>10 DEF Applied
<1>11. CASE Conclude(p)
  BY <1>11 DEF Conclude
<1>12. CASE Durable(p)
  BY <1>12 DEF Durable
<1>13. CASE Reap(p)
  BY <1>13 DEF Reap, Undecided
<1>14. CASE Fail(p)
  BY <1>14 DEF Fail
<1>15. CASE Die(p)
  BY <1>15 DEF Die
<1>16. QED
  BY <1>1, <1>2, <1>3, <1>4, <1>5, <1>6, <1>7, <1>8, <1>9, <1>10, <1>11, <1>12, <1>13,
     <1>14, <1>15 DEF Advance, Settle

\* Each step keeps what processes have read on record, which only grows.
LEMMA ReadStep ==
  ASSUME IInv, NEW p \in Procs, Advance(p) \/ Settle(p) \/ Fail(p) \/ Die(p)
  PROVE  ReadInv'
<1> USE DEF IInv, TypeOK, ReadInv, Step, reports, database
<1>1. CASE Launch(p)
  BY <1>1 DEF Launch
<1>2. CASE EnsureMigrationsTable(p)
  BY <1>2 DEF EnsureMigrationsTable
<1>3. CASE AppliedMigrations(p)
  BY <1>3 DEF AppliedMigrations
<1>4. CASE AppliedVersions(p)
  BY <1>4 DEF AppliedVersions
<1>5. CASE Begin(p)
  BY <1>5 DEF Begin
<1>6. CASE Execute(p)
  BY <1>6 DEF Execute
<1>7. CASE Record(p)
  BY <1>7 DEF Record
<1>8. CASE Clash(p)
  BY <1>8 DEF Clash
<1>9. CASE Commit(p)
  BY <1>9 DEF Commit
<1>10. CASE Applied(p)
  BY <1>10 DEF Applied, CommittedInv
<1>11. CASE Conclude(p)
  BY <1>11 DEF Conclude
<1>12. CASE Durable(p)
  BY <1>12 DEF Durable
<1>13. CASE Reap(p)
  BY <1>13 DEF Reap
<1>14. CASE Fail(p)
  BY <1>14 DEF Fail
<1>15. CASE Die(p)
  BY <1>15 DEF Die
<1>16. QED
  BY <1>1, <1>2, <1>3, <1>4, <1>5, <1>6, <1>7, <1>8, <1>9, <1>10, <1>11, <1>12, <1>13,
     <1>14, <1>15 DEF Advance, Settle

\* A process begins with the lowest migration it has not seen applied, which leaves
\* nothing lower off the record.
LEMMA NextStep ==
  ASSUME IInv, NEW p \in Procs, Advance(p) \/ Settle(p) \/ Fail(p) \/ Die(p)
  PROVE  NextInv'
<1> USE DEF IInv, TypeOK, TxnInv, ReadInv, NextInv, Step, database, reports
<1>1. CASE Launch(p)
  BY <1>1 DEF Launch
<1>2. CASE EnsureMigrationsTable(p)
  BY <1>2 DEF EnsureMigrationsTable
<1>3. CASE AppliedMigrations(p)
  BY <1>3 DEF AppliedMigrations
<1>4. CASE AppliedVersions(p)
  BY <1>4 DEF AppliedVersions
<1>5. CASE Begin(p)
  BY <1>5 DEF Begin, Left
<1>6. CASE Execute(p)
  BY <1>6 DEF Execute
<1>7. CASE Record(p)
  BY <1>7 DEF Record
<1>8. CASE Clash(p)
  BY <1>8 DEF Clash
<1>9. CASE Commit(p)
  BY <1>9 DEF Commit
<1>10. CASE Applied(p)
  BY <1>10 DEF Applied
<1>11. CASE Conclude(p)
  BY <1>11 DEF Conclude
<1>12. CASE Durable(p)
  BY <1>12 DEF Durable
<1>13. CASE Reap(p)
  BY <1>13 DEF Reap
<1>14. CASE Fail(p)
  BY <1>14 DEF Fail
<1>15. CASE Die(p)
  BY <1>15 DEF Die
<1>16. QED
  BY <1>1, <1>2, <1>3, <1>4, <1>5, <1>6, <1>7, <1>8, <1>9, <1>10, <1>11, <1>12, <1>13,
     <1>14, <1>15 DEF Advance, Settle

\* A row is inserted only if nobody has inserted or committed one of its version.
LEMMA KeyStep ==
  ASSUME IInv, NEW p \in Procs, Advance(p) \/ Settle(p) \/ Fail(p) \/ Die(p)
  PROVE  KeyInv'
<1> USE DEF IInv, TypeOK, TxnInv, NextInv, KeyInv, Inserted, Step, database
<1>1. CASE Launch(p)
  BY <1>1 DEF Launch
<1>2. CASE EnsureMigrationsTable(p)
  BY <1>2 DEF EnsureMigrationsTable
<1>3. CASE AppliedMigrations(p)
  BY <1>3 DEF AppliedMigrations
<1>4. CASE AppliedVersions(p)
  BY <1>4 DEF AppliedVersions
<1>5. CASE Begin(p)
  BY <1>5 DEF Begin
<1>6. CASE Execute(p)
  BY <1>6 DEF Execute
<1>7. CASE Record(p)
  BY <1>7 DEF Record
<1>8. CASE Clash(p)
  BY <1>8 DEF Clash
<1>9. CASE Commit(p)
  BY <1>9 DEF Commit
<1>10. CASE Applied(p)
  BY <1>10 DEF Applied
<1>11. CASE Conclude(p)
  BY <1>11 DEF Conclude
<1>12. CASE Durable(p)
  BY <1>12 DEF Durable
<1>13. CASE Reap(p)
  BY <1>13 DEF Reap
<1>14. CASE Fail(p)
  BY <1>14 DEF Fail
<1>15. CASE Die(p)
  BY <1>15 DEF Die
<1>16. QED
  BY <1>1, <1>2, <1>3, <1>4, <1>5, <1>6, <1>7, <1>8, <1>9, <1>10, <1>11, <1>12, <1>13,
     <1>14, <1>15 DEF Advance, Settle

\* What has been committed and not yet reported is reported by nobody else.
LEMMA CommittedStep ==
  ASSUME IInv, NEW p \in Procs, Advance(p) \/ Settle(p) \/ Fail(p) \/ Die(p)
  PROVE  CommittedInv'
<1> USE DEF IInv, TypeOK, TxnInv, ReadInv, KeyInv, Inserted, CommittedInv, Step, database, reports
<1>1. CASE Launch(p)
  BY <1>1 DEF Launch
<1>2. CASE EnsureMigrationsTable(p)
  BY <1>2 DEF EnsureMigrationsTable
<1>3. CASE AppliedMigrations(p)
  BY <1>3 DEF AppliedMigrations
<1>4. CASE AppliedVersions(p)
  BY <1>4 DEF AppliedVersions
<1>5. CASE Begin(p)
  BY <1>5 DEF Begin
<1>6. CASE Execute(p)
  BY <1>6 DEF Execute
<1>7. CASE Record(p)
  BY <1>7 DEF Record
<1>8. CASE Clash(p)
  BY <1>8 DEF Clash
<1>9. CASE Commit(p)
  BY <1>9 DEF Commit
<1>10. CASE Applied(p)
  BY <1>10 DEF Applied
<1>11. CASE Conclude(p)
  BY <1>11 DEF Conclude
<1>12. CASE Durable(p)
  BY <1>12 DEF Durable
<1>13. CASE Reap(p)
  BY <1>13 DEF Reap
<1>14. CASE Fail(p)
  BY <1>14 DEF Fail
<1>15. CASE Die(p)
  BY <1>15 DEF Die
<1>16. QED
  BY <1>1, <1>2, <1>3, <1>4, <1>5, <1>6, <1>7, <1>8, <1>9, <1>10, <1>11, <1>12, <1>13,
     <1>14, <1>15 DEF Advance, Settle

\* No two processes report the same migration.
LEMMA DisjointStep ==
  ASSUME IInv, NEW p \in Procs, Advance(p) \/ Settle(p) \/ Fail(p) \/ Die(p)
  PROVE  Disjoint'
<1> USE DEF IInv, TypeOK, CommittedInv, Disjoint, Step, database, reports
<1>1. CASE Launch(p)
  BY <1>1 DEF Launch
<1>2. CASE EnsureMigrationsTable(p)
  BY <1>2 DEF EnsureMigrationsTable
<1>3. CASE AppliedMigrations(p)
  BY <1>3 DEF AppliedMigrations
<1>4. CASE AppliedVersions(p)
  BY <1>4 DEF AppliedVersions
<1>5. CASE Begin(p)
  BY <1>5 DEF Begin
<1>6. CASE Execute(p)
  BY <1>6 DEF Execute
<1>7. CASE Record(p)
  BY <1>7 DEF Record
<1>8. CASE Clash(p)
  BY <1>8 DEF Clash
<1>9. CASE Commit(p)
  BY <1>9 DEF Commit
<1>10. CASE Applied(p)
  BY <1>10 DEF Applied
<1>11. CASE Conclude(p)
  BY <1>11 DEF Conclude
<1>12. CASE Durable(p)
  BY <1>12 DEF Durable
<1>13. CASE Reap(p)
  BY <1>13 DEF Reap
<1>14. CASE Fail(p)
  BY <1>14 DEF Fail
<1>15. CASE Die(p)
  BY <1>15 DEF Die
<1>16. QED
  BY <1>1, <1>2, <1>3, <1>4, <1>5, <1>6, <1>7, <1>8, <1>9, <1>10, <1>11, <1>12, <1>13,
     <1>14, <1>15 DEF Advance, Settle

\* A server comes up, and a migrate command succeeds, only with nothing left.
LEMMA CurrentStep ==
  ASSUME IInv, NEW p \in Procs, Advance(p) \/ Settle(p) \/ Fail(p) \/ Die(p)
  PROVE  Current'
<1> USE DEF IInv, TypeOK, TxnInv, ReadInv, Current, Step, database, reports
<1>1. CASE Launch(p)
  BY <1>1 DEF Launch
<1>2. CASE EnsureMigrationsTable(p)
  BY <1>2 DEF EnsureMigrationsTable
<1>3. CASE AppliedMigrations(p)
  BY <1>3 DEF AppliedMigrations
<1>4. CASE AppliedVersions(p)
  BY <1>4 DEF AppliedVersions
<1>5. CASE Begin(p)
  BY <1>5 DEF Begin
<1>6. CASE Execute(p)
  BY <1>6 DEF Execute
<1>7. CASE Record(p)
  BY <1>7 DEF Record
<1>8. CASE Clash(p)
  BY <1>8 DEF Clash
<1>9. CASE Commit(p)
  BY <1>9 DEF Commit
<1>10. CASE Applied(p)
  BY <1>10 DEF Applied
<1>11. CASE Conclude(p)
  BY <1>11 DEF Conclude, Left
<1>12. CASE Durable(p)
  BY <1>12 DEF Durable
<1>13. CASE Reap(p)
  BY <1>13 DEF Reap
<1>14. CASE Fail(p)
  BY <1>14 DEF Fail
<1>15. CASE Die(p)
  BY <1>15 DEF Die
<1>16. QED
  BY <1>1, <1>2, <1>3, <1>4, <1>5, <1>6, <1>7, <1>8, <1>9, <1>10, <1>11, <1>12, <1>13,
     <1>14, <1>15 DEF Advance, Settle

\* A step leaves the record alone or commits the next migration, whose SQL has not
\* run before.
LEMMA HistoryStep ==
  ASSUME IInv, NEW p \in Procs, Advance(p) \/ Settle(p) \/ Fail(p) \/ Die(p)
  PROVE  Prefix' /\ RunsOnce'
<1>1. CASE Durable(p)
  <2>1. PICK k \in 0..Latest - 1 :
          /\ recorded = 1..k
          /\ at[p] = k + 1
          /\ recorded' = 1..(k + 1)
    BY <1>1, DurableStep
  <2>2. Prefix'
    BY <2>1 DEF Prefix
  <2>3. ran \in [Versions -> Nat] /\ ran' = [ran EXCEPT ![at[p]] = ran[at[p]] + 1]
    BY <1>1 DEF Durable, IInv, TypeOK
  <2>4. ASSUME NEW m \in Versions
        PROVE  ran'[m] = IF m \in recorded' THEN 1 ELSE 0
    <3>1. ran[m] = IF m \in recorded THEN 1 ELSE 0
      BY DEF IInv, RunsOnce
    <3>2. CASE m = at[p]
      BY <2>1, <2>3, <3>1, <3>2
    <3>3. CASE m # at[p]
      BY <2>1, <2>3, <3>1, <3>3 DEF Versions
    <3>4. QED
      BY <3>2, <3>3
  <2>5. QED
    BY <2>2, <2>4 DEF RunsOnce
<1>2. CASE ~Durable(p)
  <2>1. UNCHANGED <<recorded, ran>>
    BY <1>2, RecordStep DEF Settle
  <2>2. QED
    BY <2>1 DEF IInv, Prefix, RunsOnce
<1>3. QED
  BY <1>1, <1>2

\* The inductive invariant of migrations holds in every reachable state, whoever
\* migrates at once and wherever they stop.
THEOREM Invariance == Spec => []IInv
<1>1. Init => IInv
  BY InitInv
<1>2. IInv /\ [Next]_vars => IInv'
  <2> SUFFICES ASSUME IInv, [Next]_vars PROVE IInv'
    OBVIOUS
  <2>1. CASE UNCHANGED vars
    BY <2>1 DEF vars, database, reports, IInv, TypeOK, TxnInv, ReadInv, NextInv, KeyInv,
                Inserted, CommittedInv, Prefix, RunsOnce, Disjoint, Current
  <2>2. CASE Next
    <3>1. PICK p \in Procs : Advance(p) \/ Settle(p) \/ Fail(p) \/ Die(p)
      BY <2>2 DEF Next
    <3>2. QED
      BY <3>1, TypeStep, TxnStep, ReadStep, NextStep, KeyStep, CommittedStep, HistoryStep,
         DisjointStep, CurrentStep DEF IInv
  <2>3. QED
    BY <2>1, <2>2
<1>3. QED
  BY <1>1, <1>2, PTL DEF Spec

-----------------------------------------------------------------------------
(* What follows from it.                                                   *)

\* Type correctness.
THEOREM TypeCorrect == Spec => []TypeOK
BY Invariance, PTL DEF IInv

\* Every migration on record has taken effect exactly once, and no other has.
THEOREM MigrationsRunOnce == Spec => []RunsOnce
BY Invariance, PTL DEF IInv

\* Migrations take effect in the order of their versions.
THEOREM MigrationsRunInOrder == Spec => []InOrder
<1>1. IInv => InOrder
  BY DEF IInv, Prefix, InOrder
<1>2. QED
  BY <1>1, Invariance, PTL

\* A server that serves, and a migrate command that succeeded, finds the whole
\* schema of its build in effect.
THEOREM SuccessIsUpToDate == Spec => []UpToDate
<1>1. IInv => UpToDate
  <2> SUFFICES ASSUME IInv,
                      NEW p \in Procs,
                      pc[p] = "serving" \/ (Task[p] = "migrate" /\ pc[p] = "finished"),
                      NEW m \in 1..Carries[p]
               PROVE  m \in Versions /\ ran[m] > 0
    BY DEF UpToDate, InEffect
  <2>1. m \in recorded
    BY DEF IInv, Current
  <2>2. m \in Versions
    BY <2>1 DEF IInv, TypeOK
  <2>3. QED
    BY <2>1, <2>2 DEF IInv, RunsOnce
<1>2. QED
  BY <1>1, Invariance, PTL

\* Every report of applied migrations is true, and no two claim the same one.
THEOREM ReportsAreTrue == Spec => []ReportsTrue
<1>1. IInv => ReportsTrue
  BY DEF IInv, ReadInv, Disjoint, ReportsTrue
<1>2. QED
  BY <1>1, Invariance, PTL

\* -status never lists one migration both as applied and as pending.
THEOREM StatusListsOnce == Spec => []ListedOnce
<1>1. IInv => ListedOnce
  BY DEF IInv, ReadInv, ListedOnce, Left
<1>2. QED
  BY <1>1, Invariance, PTL

-----------------------------------------------------------------------------
(* The schema grows in order.                                              *)

\* What is in effect is what is on record.
LEMMA EffectRecorded == IInv => InEffect = recorded
BY DEF IInv, TypeOK, RunsOnce, InEffect

\* Whatever earlier deployments have left is the first so many, and nobody serves.
LEMMA SchemaInit == Init => Schema!Init
<1> SUFFICES ASSUME Init PROVE Schema!Init
  OBVIOUS
<1>1. PICK k \in 0..Latest : recorded = 1..k
  BY DEF Init
<1>2. InEffect = recorded
  BY InitInv, EffectRecorded
<1>3. Serving = {}
  BY DEF Init, Serving
<1>4. QED
  BY <1>1, <1>2, <1>3 DEF Schema!Init

\* A commit adds the next migration, Conclude brings a server up, Die takes one down;
\* every other step changes neither.
LEMMA SchemaStep ==
  ASSUME IInv, NEW p \in Procs, Advance(p) \/ Settle(p) \/ Fail(p) \/ Die(p)
  PROVE  Schema!Next \/ UNCHANGED <<InEffect, Serving>>
<1>0. InEffect = recorded
  BY EffectRecorded
<1>1. CASE Durable(p)
  <2>1. PICK k \in 0..Latest - 1 : at[p] = k + 1 /\ recorded = 1..k /\ recorded' = 1..(k + 1)
    BY <1>1, DurableStep
  <2>2. InEffect' = InEffect \union {k + 1}
    BY <1>1, <2>1 DEF Durable, InEffect, IInv, TypeOK, Versions
  <2>3. InEffect' = 1..(k + 1)
    BY <1>0, <2>1, <2>2
  <2>4. Serving' = Serving
    BY <1>1 DEF Durable, Serving
  <2>5. k + 1 \in 1..Latest /\ InEffect = 1..((k + 1) - 1)
    BY <1>0, <2>1
  <2>6. QED
    BY <2>3, <2>4, <2>5 DEF Schema!Next, Schema!Migrate
<1>2. CASE Conclude(p)
  <2>1. recorded' = recorded /\ InEffect' = InEffect
    BY <1>2, RecordStep DEF Advance, InEffect
  <2>2. CASE pc'[p] = "serving"
    <3>1. 1..Carries[p] \subseteq InEffect
      BY <1>0, <1>2, <2>1, <2>2, CurrentStep DEF Advance, Current
    <3>2. Serving' = Serving \union {p}
      BY <1>2, <2>2 DEF Conclude, Step, Serving, IInv, TypeOK
    <3>3. QED
      BY <2>1, <3>1, <3>2 DEF Schema!Next, Schema!Serve
  <2>3. CASE pc'[p] # "serving"
    <3>1. Serving' = Serving
      BY <1>2, <2>3 DEF Conclude, Step, Serving, IInv, TypeOK
    <3>2. QED
      BY <2>1, <3>1
  <2>4. QED
    BY <2>2, <2>3
<1>3. CASE Die(p)
  <2>1. InEffect' = InEffect
    BY <1>3, RecordStep DEF InEffect
  <2>2. Serving' = Serving \ {p}
    BY <1>3 DEF Die, Serving, IInv, TypeOK
  <2>3. QED
    BY <2>1, <2>2 DEF Schema!Next, Schema!Stop
<1>4. CASE ~Durable(p) /\ ~Conclude(p) /\ ~Die(p)
  <2>1. InEffect' = InEffect
    BY <1>4, RecordStep DEF Settle, InEffect
  <2>2. Serving' = Serving
    BY <1>4 DEF Advance, Settle, Launch, EnsureMigrationsTable, AppliedMigrations,
                AppliedVersions, Begin, Execute, Record, Clash, Commit, Applied, Reap, Fail,
                Step, Serving, IInv, TypeOK
  <2>3. QED
    BY <2>1, <2>2
<1>5. QED
  BY <1>1, <1>2, <1>3, <1>4

\* Processes of any builds that migrate at once, fail and die implement one schema to
\* which migrations are added in order, and servers that come up only over all they need.
THEOREM Refinement == Spec => ImplementsSchemaVersion
<1>1. Init => Schema!Init
  BY SchemaInit
<1>2. IInv /\ [Next]_vars => [Schema!Next]_<<InEffect, Serving>>
  <2> SUFFICES ASSUME IInv, [Next]_vars
               PROVE  Schema!Next \/ UNCHANGED <<InEffect, Serving>>
    OBVIOUS
  <2>1. CASE UNCHANGED vars
    BY <2>1 DEF vars, database, Serving, InEffect
  <2>2. CASE Next
    BY <2>2, SchemaStep DEF Next
  <2>3. QED
    BY <2>1, <2>2
<1>3. QED
  BY <1>1, <1>2, Invariance, PTL DEF Spec, ImplementsSchemaVersion, Schema!Spec

=============================================================================
