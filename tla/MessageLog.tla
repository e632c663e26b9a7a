----------------------------- MODULE MessageLog -----------------------------
(***************************************************************************)
(* The message log of messages.go: senders run ChatStore.Add, each as one  *)
(* database transaction whose statements interleave with everybody else's, *)
(* and clients poll ChatStore.Since with the id of the last message they   *)
(* hold.  The replicas keep no message state, so a replica appears only    *)
(* through what it does to the requests it is serving: it runs their       *)
(* statements, and it may die between any two of them.                     *)
(*                                                                         *)
(* A message is identified by the request that sent it; bodies, names and  *)
(* timestamps are left out.  A batch is a set of rows: ORDER BY m.id makes *)
(* its order a function of the set.                                        *)
(***************************************************************************)
EXTENDS Integers, FiniteSets

CONSTANTS Keys,             \* public keys: each one sends and polls
          Requests,         \* POST /api/messages requests, one Add each
          MaxMessageBatch,  \* the LIMIT of one poll
          NoOne             \* "nobody holds the row lock"

ASSUME BatchAssumption == MaxMessageBatch \in Nat \ {0}
ASSUME NoOneAssumption == NoOne \notin Requests

VARIABLES
  nextId,     \* messageSequence.nextId as last committed
  dirtyId,    \* messageSequence.nextId as the lock holder's transaction sees it
  lock,       \* the request whose transaction holds the sequence row's lock
  log,        \* the committed rows of Messages with their messageRecipients
  pc,         \* where each request's transaction is
  sender,     \* Add's senderKey
  to,         \* Add's recipients
  id,         \* Add's local id
  delivered,  \* the messageRecipients rows the transaction has inserted
  outcome,    \* what the sending client has been told
  cursor,     \* the client's lastID
  shown,      \* the client's transcript
  poll,       \* the state of the client's one poll in flight
  since,      \* the ?since= that poll carries
  batch       \* the rows its answer carries

txVars     == <<nextId, dirtyId, lock, log, pc, sender, to, id, delivered, outcome>>
clientVars == <<cursor, shown, poll, since, batch>>
vars       == <<txVars, clientVars>>

-----------------------------------------------------------------------------

Message == [id : Nat \ {0}, req : Requests, sender : Keys, to : SUBSET Keys]

\* A transaction that is open in the database, and those among them that have
\* run the UPDATE and therefore hold the sequence row.
Holding == {"bumped", "numbered", "delivering", "committing"}
Open    == Holding \union {"begun"}

\* A key may read what it wrote and what it was on the delivery list of.
Visible(m, k) == m.sender = k \/ k \in m.to

Init ==
  /\ nextId = 0
  /\ dirtyId = 0
  /\ lock = NoOne
  /\ log = {}
  /\ pc = [r \in Requests |-> "idle"]
  /\ sender \in [Requests -> Keys]
  /\ to \in [Requests -> SUBSET Keys]
  /\ id = [r \in Requests |-> 0]
  /\ delivered = [r \in Requests |-> {}]
  /\ outcome = [r \in Requests |-> "pending"]
  /\ cursor = [k \in Keys |-> 0]
  /\ shown = [k \in Keys |-> {}]
  /\ poll = [k \in Keys |-> "idle"]
  /\ since = [k \in Keys |-> 0]
  /\ batch = [k \in Keys |-> {}]

-----------------------------------------------------------------------------
(* ChatStore.Add, one action per statement.  Each needs the handler to be  *)
(* running still.                                                          *)

Running(r, at) == pc[r] = at /\ outcome[r] = "pending"

Advance(r, next) == pc' = [pc EXCEPT ![r] = next]

Begin(r) ==
  /\ Running(r, "idle")
  /\ Advance(r, "begun")
  /\ UNCHANGED <<nextId, dirtyId, lock, log, sender, to, id, delivered, outcome, clientVars>>

\* Mutant: the id is taken outside the transaction, as from a database sequence.
BumpAutocommitted(r) ==
  /\ Running(r, "begun")
  /\ nextId' = nextId + 1
  /\ dirtyId' = nextId + 1
  /\ Advance(r, "bumped")
  /\ UNCHANGED <<lock, log, sender, to, id, delivered, outcome, clientVars>>

\* UPDATE messageSequence: waits for the row, then keeps it until the
\* transaction ends.
Bump(r) ==
  /\ Running(r, "begun")
  /\ lock = NoOne
  /\ lock' = r
  /\ dirtyId' = nextId + 1
  /\ Advance(r, "bumped")
  /\ UNCHANGED <<nextId, log, sender, to, id, delivered, outcome, clientVars>>

\* SELECT nextId: a transaction reads what it wrote.
ReadId(r) ==
  /\ Running(r, "bumped")
  /\ id' = [id EXCEPT ![r] = dirtyId]
  /\ Advance(r, "numbered")
  /\ UNCHANGED <<nextId, dirtyId, lock, log, sender, to, delivered, outcome, clientVars>>

\* INSERT INTO Messages: id is the primary key, so a taken id is an error (Fail).
InsertMessage(r) ==
  /\ Running(r, "numbered")
  /\ \A m \in log : m.id # id[r]
  /\ Advance(r, "delivering")
  /\ UNCHANGED <<nextId, dirtyId, lock, log, sender, to, id, delivered, outcome, clientVars>>

\* The recipients the loop has not inserted yet; it skips the sender.
Undelivered(r) == to[r] \ (delivered[r] \union {sender[r]})

Deliver(r) ==
  /\ Running(r, "delivering")
  /\ \E k \in Undelivered(r) :
       delivered' = [delivered EXCEPT ![r] = @ \union {k}]
  /\ UNCHANGED <<nextId, dirtyId, lock, log, pc, sender, to, id, outcome, clientVars>>

\* Mutant: the loop over recipients may stop early.
CommitEarly(r) ==
  /\ Running(r, "delivering")
  /\ Advance(r, "committing")
  /\ UNCHANGED <<nextId, dirtyId, lock, log, sender, to, id, delivered, outcome, clientVars>>

\* tx.Commit is called; what the database makes of it is Durable, Fail or Reap.
Commit(r) ==
  /\ Running(r, "delivering")
  /\ Undelivered(r) = {}
  /\ Advance(r, "committing")
  /\ UNCHANGED <<nextId, dirtyId, lock, log, sender, to, id, delivered, outcome, clientVars>>

\* Mutant: the answer does not wait for the commit.
AnswerEarly(r) ==
  /\ Running(r, "committing")
  /\ outcome' = [outcome EXCEPT ![r] = "created"]
  /\ UNCHANGED <<nextId, dirtyId, lock, log, pc, sender, to, id, delivered, clientVars>>

\* 201 with the message.
Answer(r) ==
  /\ Running(r, "stored")
  /\ outcome' = [outcome EXCEPT ![r] = "created"]
  /\ UNCHANGED <<nextId, dirtyId, lock, log, pc, sender, to, id, delivered, clientVars>>

-----------------------------------------------------------------------------
(* The database's side of a transaction's end.                             *)

Row(r) == [id |-> id[r], req |-> r, sender |-> sender[r], to |-> delivered[r]]

\* The transaction becomes visible and gives up the row, whether or not the
\* process that asked for it is still there.
Durable(r) ==
  /\ pc[r] = "committing"
  /\ log' = log \union {Row(r)}
  /\ nextId' = dirtyId
  /\ lock' = NoOne
  /\ Advance(r, "stored")
  /\ UNCHANGED <<dirtyId, sender, to, id, delivered, outcome, clientVars>>

\* Mutant: no deferred rollback, so the row stays locked.
RollbackForgotten(r) == Advance(r, "aborted") /\ UNCHANGED lock

Rollback(r) ==
  /\ Advance(r, "aborted")
  /\ lock' = IF lock = r THEN NoOne ELSE lock

\* A statement, the commit or the answer fails, or the request is cancelled:
\* the deferred tx.Rollback runs, which does nothing to a committed transaction.
Fail(r) ==
  /\ outcome[r] = "pending"
  /\ pc[r] \in Open \union {"stored"}
  /\ outcome' = [outcome EXCEPT ![r] = "failed"]
  /\ IF pc[r] = "stored" THEN UNCHANGED <<pc, lock>> ELSE Rollback(r)
  /\ UNCHANGED <<nextId, dirtyId, log, sender, to, id, delivered, clientVars>>

\* The replica dies: the client sees its connection close, and the database
\* keeps the transaction open until it notices (Reap).
Die(r) ==
  /\ outcome[r] = "pending"
  /\ pc[r] \in Open
  /\ outcome' = [outcome EXCEPT ![r] = "failed"]
  /\ UNCHANGED <<nextId, dirtyId, lock, log, pc, sender, to, id, delivered, clientVars>>

Reap(r) ==
  /\ outcome[r] = "failed"
  /\ pc[r] \in Open
  /\ Rollback(r)
  /\ UNCHANGED <<nextId, dirtyId, log, sender, to, id, delivered, outcome, clientVars>>

-----------------------------------------------------------------------------
(* A client polling for its key: pollMessages of App.jsx, which lets one   *)
(* poll be in flight, and ChatStore.Since, which answers it.               *)

Ask(k) ==
  /\ poll[k] = "idle"
  /\ poll' = [poll EXCEPT ![k] = "asked"]
  /\ since' = [since EXCEPT ![k] = cursor[k]]
  /\ UNCHANGED <<txVars, cursor, shown, batch>>

\* Mutant: m.id >= since.
AfterOrAt(i, viewer) == {m \in log : m.id >= i /\ Visible(m, viewer)}

\* The rows after id that viewer may read.
After(i, viewer) == {m \in log : m.id > i /\ Visible(m, viewer)}

\* Mutant: no ORDER BY, so the LIMIT keeps any rows.
IsAnyBatch(B, rows) ==
  B \subseteq rows /\ (B = rows \/ Cardinality(B) = MaxMessageBatch)

\* B is what ORDER BY m.id LIMIT MaxMessageBatch keeps of rows.
IsFirstBatch(B, rows) ==
  /\ \A m \in B, n \in rows : n.id < m.id => n \in B
  /\ \/ B = rows /\ Cardinality(B) <= MaxMessageBatch
     \/ Cardinality(B) = MaxMessageBatch

Since(k) ==
  /\ poll[k] = "asked"
  /\ \E B \in SUBSET After(since[k], k) :
       /\ IsFirstBatch(B, After(since[k], k))
       /\ batch' = [batch EXCEPT ![k] = B]
  /\ poll' = [poll EXCEPT ![k] = "answered"]
  /\ UNCHANGED <<txVars, cursor, shown, since>>

EndPoll(k) ==
  /\ poll' = [poll EXCEPT ![k] = "idle"]
  /\ batch' = [batch EXCEPT ![k] = {}]
  /\ UNCHANGED since

\* The batch is appended to the transcript, and lastID becomes the largest id.
Receive(k) ==
  /\ poll[k] = "answered"
  /\ shown' = [shown EXCEPT ![k] = @ \union batch[k]]
  /\ \/ batch[k] = {} /\ UNCHANGED cursor
     \/ \E m \in batch[k] :
          /\ \A n \in batch[k] : n.id <= m.id
          /\ cursor' = [cursor EXCEPT ![k] = IF m.id > @ THEN m.id ELSE @]
  /\ EndPoll(k)
  /\ UNCHANGED txVars

\* Mutant: the error path leaves the polling guard set.
LoseKeepingGuard(k) ==
  /\ poll[k] # "idle"
  /\ poll' = [poll EXCEPT ![k] = "guarded"]
  /\ batch' = [batch EXCEPT ![k] = {}]
  /\ UNCHANGED <<txVars, cursor, shown, since>>

\* The request or its answer is lost, or answered with an error.
Lose(k) ==
  /\ poll[k] # "idle"
  /\ EndPoll(k)
  /\ UNCHANGED <<txVars, cursor, shown>>

\* The page is reloaded: nothing of the transcript is kept.
Reload(k) ==
  /\ cursor' = [cursor EXCEPT ![k] = 0]
  /\ shown' = [shown EXCEPT ![k] = {}]
  /\ EndPoll(k)
  /\ UNCHANGED txVars

-----------------------------------------------------------------------------

Next ==
  \/ \E r \in Requests :
       \/ Begin(r) \/ Bump(r) \/ ReadId(r) \/ InsertMessage(r) \/ Deliver(r)
       \/ Commit(r) \/ Durable(r) \/ Answer(r) \/ Fail(r) \/ Die(r) \/ Reap(r)
  \/ \E k \in Keys :
       Ask(k) \/ Since(k) \/ Receive(k) \/ Lose(k) \/ Reload(k)

Spec == Init /\ [][Next]_vars

\* A running handler reaches its next statement, and the database ends every
\* transaction it has been asked to commit or whose client is gone.
AddProgress(r) ==
  \/ Bump(r) \/ ReadId(r) \/ InsertMessage(r) \/ Deliver(r)
  \/ Commit(r) \/ Durable(r) \/ Answer(r) \/ Reap(r)

\* The poll timer keeps firing, and not every poll is lost.
Fairness ==
  /\ \A r \in Requests : WF_vars(AddProgress(r))
  /\ \A k \in Keys : WF_vars(Ask(k)) /\ SF_vars(Since(k)) /\ SF_vars(Receive(k))

FairSpec == Spec /\ Fairness

-----------------------------------------------------------------------------
(* Properties.                                                             *)

\* Every variable has its type; ids are positive, so a first poll with
\* ?since=0 asks for all of them (the cursor a client starts from).
TypeOK ==
  /\ nextId \in Nat /\ dirtyId \in Nat
  /\ lock \in Requests \union {NoOne}
  /\ log \subseteq Message
  /\ pc \in [Requests -> Open \union {"idle", "stored", "aborted"}]
  /\ sender \in [Requests -> Keys]
  /\ to \in [Requests -> SUBSET Keys]
  /\ id \in [Requests -> Nat]
  /\ delivered \in [Requests -> SUBSET Keys]
  /\ outcome \in [Requests -> {"pending", "created", "failed"}]
  /\ cursor \in [Keys -> Nat]
  /\ shown \in [Keys -> SUBSET Message]
  /\ poll \in [Keys -> {"idle", "asked", "answered"}]
  /\ since \in [Keys -> Nat]
  /\ batch \in [Keys -> SUBSET Message]

\* ?since=<id> is a complete cursor: whatever a client may read at or below the
\* id it asks from next, it already holds, however the sends interleaved with
\* its polls (nextMessageID's row lock, Since's ORDER BY and LIMIT).
CursorComplete ==
  \A k \in Keys : \A m \in log :
    Visible(m, k) /\ m.id <= cursor[k] => m \in shown[k]

\* No message reaches a transcript twice: an answer on its way to a client
\* carries nothing the client holds (the strict m.id > since of Since, and one
\* poll in flight).
NothingTwice ==
  \A k \in Keys : poll[k] = "answered" => batch[k] \intersect shown[k] = {}

\* A message is never half-delivered: once it can be read by anybody it can be
\* read by every key the sender addressed, and the sender is not on the list
\* (Add's one transaction and its loop over recipients).
DeliveryWhole ==
  \A m \in log : m.to = to[m.req] \ {sender[m.req]}

\* The log is append-only in id order: a message that becomes visible has a
\* larger id than every message that ever was visible, so ids never repeat and
\* never go backwards (nextMessageID inside Add's transaction).
LogGrowsAtEnd ==
  [][/\ log \subseteq log'
     /\ \A m \in log' \ log, n \in log : n.id < m.id]_log

\* What a sender is told agrees with the log: a 201 is sent only of a message
\* that is stored, one request stores at most one message, and a transaction
\* that was rolled back left nothing (Add's commit before its return).
AnswersMatchLog ==
  /\ \A r \in Requests : outcome[r] = "created" => \E m \in log : m.req = r
  /\ \A m \in log : pc[m.req] = "stored"
  /\ \A m, n \in log : m.req = n.req => m = n

\* Sending never gets stuck behind somebody else's transaction: whoever begins
\* is answered and its transaction ends, whatever fails or dies meanwhile (the
\* deferred Rollback and the database's own cleanup release the row).
SendsSettle ==
  \A r \in Requests :
    pc[r] = "begun" ~> pc[r] \in {"stored", "aborted"} /\ outcome[r] # "pending"

Shown(r, k) == \E m \in shown[k] : m.req = r

\* A stored message is eventually on the screen of every key that may read it,
\* through any number of capped polls and lost ones, unless that client keeps
\* reloading its page (handleMessages GET, pollMessages).
EventuallyShown ==
  \A r \in Requests, k \in Keys :
    \/ []<><<Reload(k)>>_vars
    \/ (\E m \in log : m.req = r /\ Visible(m, k)) ~> Shown(r, k)

-----------------------------------------------------------------------------
(* The log implements the timeline: a message's place in the timeline is   *)
(* its id, and it takes its place when the database commits it.            *)

Abstract == INSTANCE Timeline WITH last <- nextId

\* Every behaviour of the stepwise log is one of the timeline: Durable posts,
\* Answer acknowledges, Fail and Die give up, Receive catches up, Reload starts
\* over, and no other step can be told from the outside.
ImplementsTimeline == Abstract!Spec

=============================================================================
