------------------------------- MODULE Migrate -------------------------------
(***************************************************************************)
(* migrate.go and the processes that call it: the migrate command in its   *)
(* three modes, and servers that migrate at startup or, with               *)
(* -require-schema, refuse to start.  They run at once, over one database, *)
(* and from builds that carry different numbers of migrations.             *)
(*                                                                         *)
(* Every statement is an action.  A migration's SQL creates its objects    *)
(* only if they do not exist, so that it waits for, and may then clash     *)
(* with, an uncommitted transaction creating the same ones, and does       *)
(* nothing over committed ones.                                            *)
(***************************************************************************)
EXTENDS Integers

CONSTANTS Procs,     \* processes: jobs, pods, somebody's shell
          Task,      \* what each is started to do
          Carries,   \* the number of migrations embedded in its binary
          Latest,    \* the highest such number
          MaxFaults  \* bound: errors and deaths

Tasks == {"migrate", "serve", "insist", "preview", "status"}

ASSUME TaskAssumption    == Task \in [Procs -> Tasks]
ASSUME LatestAssumption  == Latest \in Nat
ASSUME CarriesAssumption == Carries \in [Procs -> 0..Latest]
ASSUME FaultsAssumption  == MaxFaults \in Nat

VARIABLES
  table,     \* whether schemaMigrations exists
  recorded,  \* its committed rows
  ran,       \* how often each migration's SQL has been committed
  pc,        \* each process's next statement
  txn,       \* its transaction, which may outlive it
  at,        \* the migration it is applying
  done,      \* what it read as already applied
  applied,   \* what it reports to have applied
  shown,     \* what -status lists as applied
  faults     \* the number of faults so far

database == <<table, recorded, ran>>
reports  == <<done, applied, shown>>
vars     == <<database, pc, txn, at, reports, faults>>

-----------------------------------------------------------------------------

Versions == 1..Latest

\* Earlier deployments have left a database at some version.
Init ==
  /\ \E k \in 0..Latest :
       /\ recorded = 1..k
       /\ ran = [m \in Versions |-> IF m <= k THEN 1 ELSE 0]
       /\ table = (k > 0)
  /\ pc = [p \in Procs |-> "down"]
  /\ txn = [p \in Procs |-> "none"]
  /\ at = [p \in Procs |-> 0]
  /\ done = [p \in Procs |-> {}]
  /\ applied = [p \in Procs |-> {}]
  /\ shown = [p \in Procs |-> {}]
  /\ faults = 0

Step(p, here, next) == pc[p] = here /\ pc' = [pc EXCEPT ![p] = next]

\* The process starts, or is started again, in a connection of its own.
Launch(p) ==
  /\ txn[p] = "none"
  /\ Step(p, "down", "ensuring")
  /\ done' = [done EXCEPT ![p] = {}]
  /\ applied' = [applied EXCEPT ![p] = {}]
  /\ shown' = [shown EXCEPT ![p] = {}]
  /\ UNCHANGED <<database, txn, at, faults>>

EnsureMigrationsTable(p) ==
  /\ Step(p, "ensuring", IF Task[p] = "status" THEN "listing" ELSE "reading")
  /\ table' = TRUE
  /\ UNCHANGED <<recorded, ran, txn, at, reports, faults>>

\* -status first lists what has run; the Pending after it ensures the table once
\* more, and finds it.
AppliedMigrations(p) ==
  /\ table
  /\ Step(p, "listing", "reading")
  /\ shown' = [shown EXCEPT ![p] = recorded]
  /\ UNCHANGED <<database, txn, at, done, applied, faults>>

\* Apply and Pending read the applied versions once.
AppliedVersions(p) ==
  /\ table
  /\ Step(p, "reading", "deciding")
  /\ done' = [done EXCEPT ![p] = recorded]
  /\ UNCHANGED <<database, txn, at, applied, shown, faults>>

Left(p) == (1..Carries[p]) \ (done[p] \union applied[p])

-----------------------------------------------------------------------------
(* applyOne: one transaction for a migration and its record.               *)

\* Mutant: in whatever order they come.
BeginAnywhere(p) ==
  /\ Task[p] \in {"migrate", "serve"}
  /\ Step(p, "deciding", "executing")
  /\ \E m \in Left(p) : at' = [at EXCEPT ![p] = m]
  /\ txn' = [txn EXCEPT ![p] = "open"]
  /\ UNCHANGED <<database, reports, faults>>

\* The first of what is left, lowest version first.
Begin(p) ==
  /\ Task[p] \in {"migrate", "serve"}
  /\ Step(p, "deciding", "executing")
  /\ \E m \in Left(p) :
       /\ \A n \in Left(p) : m <= n
       /\ at' = [at EXCEPT ![p] = m]
  /\ txn' = [txn EXCEPT ![p] = "open"]
  /\ UNCHANGED <<database, reports, faults>>

\* Somebody else's transaction has created what migration m creates.
Held(m, p) ==
  /\ ran[m] = 0
  /\ \E q \in Procs \ {p} : at[q] = m /\ txn[q] \in {"executed", "recorded", "committing"}

Execute(p) ==
  /\ Step(p, "executing", "recording")
  /\ ~Held(at[p], p)
  /\ txn' = [txn EXCEPT ![p] = "executed"]
  /\ UNCHANGED <<database, at, reports, faults>>

\* Mutant: a row that is there already is no error.
RecordAgain(p) ==
  /\ Step(p, "recording", "committing")
  /\ txn' = [txn EXCEPT ![p] = "recorded"]
  /\ UNCHANGED <<database, at, reports, faults>>

\* The row's primary key is its version; an uncommitted one is waited for.
Record(p) ==
  /\ at[p] \notin recorded
  /\ \A q \in Procs \ {p} : at[q] = at[p] => txn[q] \notin {"recorded", "committing"}
  /\ Step(p, "recording", "committing")
  /\ txn' = [txn EXCEPT ![p] = "recorded"]
  /\ UNCHANGED <<database, at, reports, faults>>

\* Another process has won: the objects, or the row, are there already.
Clash(p) ==
  /\ at[p] \in recorded
  /\ Step(p, "executing", "down") \/ Step(p, "recording", "down")
  /\ txn' = [txn EXCEPT ![p] = "none"]
  /\ UNCHANGED <<database, at, reports, faults>>

\* Mutant: the report does not wait for COMMIT's answer.
CommitUnheard(p) ==
  /\ Step(p, "committing", "awaiting")
  /\ txn' = [txn EXCEPT ![p] = "committing"]
  /\ applied' = [applied EXCEPT ![p] = @ \union {at[p]}]
  /\ UNCHANGED <<database, at, done, shown, faults>>

Commit(p) ==
  /\ Step(p, "committing", "awaiting")
  /\ txn' = [txn EXCEPT ![p] = "committing"]
  /\ UNCHANGED <<database, at, reports, faults>>

\* The database commits, whether or not anybody still listens.
Durable(p) ==
  /\ txn[p] = "committing"
  /\ recorded' = recorded \union {at[p]}
  /\ ran' = [ran EXCEPT ![at[p]] = @ + 1]
  /\ txn' = [txn EXCEPT ![p] = IF pc[p] = "awaiting" THEN "committed" ELSE "none"]
  /\ UNCHANGED <<table, pc, at, reports, faults>>

Applied(p) ==
  /\ txn[p] = "committed"
  /\ Step(p, "awaiting", "deciding")
  /\ applied' = [applied EXCEPT ![p] = @ \union {at[p]}]
  /\ txn' = [txn EXCEPT ![p] = "none"]
  /\ UNCHANGED <<database, at, done, shown, faults>>

\* Mutant: a server does not look at what is pending.
ConcludeRegardless(p) ==
  /\ Task[p] \in {"migrate", "serve"} => Left(p) = {}
  /\ Step(p, "deciding", IF Task[p] \in {"serve", "insist"} THEN "serving" ELSE "finished")
  /\ UNCHANGED <<database, txn, at, reports, faults>>

\* Nothing to apply, or not asked to: the command prints and exits, a server
\* starts, and one that insists on its schema exits if it is not there.
Conclude(p) ==
  /\ Task[p] \in {"migrate", "serve"} => Left(p) = {}
  /\ Step(p, "deciding", CASE Task[p] \in {"migrate", "preview", "status"} -> "finished"
                           [] Left(p) = {}                                -> "serving"
                           [] OTHER                                       -> "down")
  /\ UNCHANGED <<database, txn, at, reports, faults>>

-----------------------------------------------------------------------------
(* Faults.                                                                 *)

\* Mutant: a lost connection keeps its locks.
UndecidedIdle(p) == txn[p] = "open"

Undecided(p) == txn[p] \in {"open", "executed", "recorded"}

\* A statement fails and the deferred Rollback runs; a COMMIT whose answer is an
\* error may take effect all the same.
Fail(p) ==
  /\ faults < MaxFaults /\ faults' = faults + 1
  /\ pc[p] \notin {"down", "serving", "finished"}
  /\ pc' = [pc EXCEPT ![p] = "down"]
  /\ txn' = [txn EXCEPT ![p] = IF @ = "committing" THEN @ ELSE "none"]
  /\ UNCHANGED <<database, at, reports>>

\* The process ends; the database has yet to notice.
Die(p) ==
  /\ faults < MaxFaults /\ faults' = faults + 1
  /\ pc[p] \notin {"down", "finished"}
  /\ pc' = [pc EXCEPT ![p] = "down"]
  /\ txn' = [txn EXCEPT ![p] = IF @ = "committed" THEN "none" ELSE @]
  /\ UNCHANGED <<database, at, reports>>

\* The database rolls back what a lost connection has left open.
Reap(p) ==
  /\ pc[p] = "down"
  /\ Undecided(p) \/ txn[p] = "committing"
  /\ txn' = [txn EXCEPT ![p] = "none"]
  /\ UNCHANGED <<database, pc, at, reports, faults>>

Advance(p) ==
  \/ Launch(p) \/ EnsureMigrationsTable(p) \/ AppliedMigrations(p) \/ AppliedVersions(p)
  \/ Begin(p) \/ Execute(p) \/ Record(p) \/ Clash(p) \/ Commit(p) \/ Applied(p)
  \/ Conclude(p)

Settle(p) == Durable(p) \/ Reap(p)

Next == \E p \in Procs : Advance(p) \/ Settle(p) \/ Fail(p) \/ Die(p)

Spec == Init /\ [][Next]_vars

\* Processes run, the database decides every transaction, and whatever has
\* exited with an error is started again.
FairSpec == Spec /\ \A p \in Procs : WF_vars(Advance(p)) /\ WF_vars(Settle(p))

-----------------------------------------------------------------------------
(* Properties.                                                             *)

\* Every variable has its type.
TypeOK ==
  /\ table \in BOOLEAN
  /\ recorded \subseteq Versions
  /\ ran \in [Versions -> Nat]
  /\ pc \in [Procs -> {"down", "ensuring", "listing", "reading", "deciding", "executing",
                       "recording", "committing", "awaiting", "serving", "finished"}]
  /\ txn \in [Procs -> {"none", "open", "executed", "recorded", "committing", "committed"}]
  /\ at \in [Procs -> 0..Latest]
  /\ done \in [Procs -> SUBSET Versions]
  /\ applied \in [Procs -> SUBSET Versions]
  /\ shown \in [Procs -> SUBSET Versions]
  /\ faults \in 0..MaxFaults

\* A migration takes effect and is remembered or does neither, and takes effect
\* once, however many processes apply it and wherever they stop (applyOne).
RunsOnce == \A m \in Versions : ran[m] = IF m \in recorded THEN 1 ELSE 0

\* No migration takes effect before a lower one, though each process decides from
\* what it read at its start (Apply).
InOrder == \A m \in recorded : \A n \in 1..m : n \in recorded

InEffect == {m \in Versions : ran[m] > 0}

\* Whoever claims that the schema is up to date is right: a server that serves,
\* having migrated or insisted, and a migrate command that has exited with 0.
UpToDate ==
  \A p \in Procs :
    pc[p] = "serving" \/ (Task[p] = "migrate" /\ pc[p] = "finished")
      => 1..Carries[p] \subseteq InEffect

\* What a process reports to have applied has taken effect, and no two processes
\* report one migration (the result of Apply).
ReportsTrue ==
  \A p \in Procs :
    /\ applied[p] \subseteq recorded
    /\ \A q \in Procs \ {p} : applied[p] \intersect applied[q] = {}

\* -status lists no migration both as applied and as pending, though it reads the
\* records twice while others migrate (showStatus).
ListedOnce == \A p \in Procs : pc[p] = "finished" => shown[p] \intersect Left(p) = {}

\* Documented in README.md and kubernetes.tf: processes that migrate at once end up
\* with a schema that all of them accept, by way of some of them restarting.
Converges ==
  <>[](\A p \in Procs :
         pc[p] = IF Task[p] \in {"serve", "insist"} THEN "serving" ELSE "finished")

-----------------------------------------------------------------------------
(* All these processes implement one schema that grows in order.           *)

Serving == {p \in Procs : pc[p] = "serving"}

Schema == INSTANCE SchemaVersion WITH inEffect <- InEffect, up <- Serving

\* The migrations in effect are always the first so many, whichever processes of
\* whichever builds apply them, each commit adds the next one and nothing else, and a
\* server comes up only over all it carries (Apply, prepareSchema).
ImplementsSchemaVersion == Schema!Spec

=============================================================================
