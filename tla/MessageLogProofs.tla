-------------------------- MODULE MessageLogProofs --------------------------
(***************************************************************************)
(* Proofs about MessageLog for any keys, any number of sends and any batch *)
(* limit.                                                                  *)
(***************************************************************************)
EXTENDS MessageLog, TLAPS

-----------------------------------------------------------------------------
(* The inductive invariant.                                                *)

\* The sequence row is held by exactly the transaction that has updated it and
\* has not ended.
LockInv == \A r \in Requests : pc[r] \in Holding <=> lock = r

\* The holder sees the next number, and it is the only one with an id in use.
IdInv ==
  /\ lock # NoOne => dirtyId = nextId + 1
  /\ \A r \in Requests :
       pc[r] \in {"numbered", "delivering", "committing"} => id[r] = nextId + 1

\* What a transaction has delivered, and what a success answer rests on.
TxInv ==
  \A r \in Requests :
    /\ delivered[r] \subseteq to[r] \ {sender[r]}
    /\ pc[r] = "committing" => Undelivered(r) = {}
    /\ outcome[r] = "created" => pc[r] = "stored"
    /\ pc[r] = "stored" => \E m \in log : m.req = r

\* Every row is whole, numbered no higher than the sequence, and alone with its
\* number and its request.
LogInv ==
  /\ \A m \in log :
       /\ m.id <= nextId
       /\ pc[m.req] = "stored"
       /\ m.to = to[m.req] \ {sender[m.req]}
       /\ m.sender = sender[m.req]
  /\ \A m, n \in log : m.id = n.id \/ m.req = n.req => m = n

\* A client holds exactly the rows it may read up to its cursor.
ShownInv ==
  \A k \in Keys :
    /\ cursor[k] <= nextId
    /\ shown[k] = {m \in log : Visible(m, k) /\ m.id <= cursor[k]}

\* An answer on its way is an initial segment of what is above the cursor.
PollInv ==
  \A k \in Keys :
    /\ poll[k] # "idle" => since[k] = cursor[k]
    /\ poll[k] = "answered" =>
         /\ batch[k] \subseteq After(cursor[k], k)
         /\ \A m \in batch[k], n \in After(cursor[k], k) : n.id < m.id => n \in batch[k]

IInv == TypeOK /\ LockInv /\ IdInv /\ TxInv /\ LogInv /\ ShownInv /\ PollInv

-----------------------------------------------------------------------------
(* Types.                                                                  *)

\* The initial state has the right types: nothing has been sent or shown yet.
LEMMA TypeInit == Init => TypeOK
BY NoOneAssumption DEF Init, TypeOK, Open, Holding

\* Every step of a send keeps the types; the row it stores has a positive id
\* because the sequence row is never negative (Durable after ReadId).
LEMMA TypeAdd ==
  ASSUME TypeOK, IdInv, NEW r \in Requests,
         \/ Begin(r) \/ Bump(r) \/ ReadId(r) \/ InsertMessage(r) \/ Deliver(r)
         \/ Commit(r) \/ Durable(r) \/ Answer(r) \/ Fail(r) \/ Die(r) \/ Reap(r)
  PROVE  TypeOK'
<1> USE NoOneAssumption DEF TypeOK, Open, Holding, Advance, clientVars
<1>1. CASE Begin(r)
  BY <1>1 DEF Begin
<1>2. CASE Bump(r)
  BY <1>2 DEF Bump
<1>3. CASE ReadId(r)
  BY <1>3 DEF ReadId
<1>4. CASE InsertMessage(r)
  BY <1>4 DEF InsertMessage
<1>5. CASE Deliver(r)
  BY <1>5 DEF Deliver, Undelivered
<1>6. CASE Commit(r)
  BY <1>6 DEF Commit
<1>7. CASE Durable(r)
  <2>1. Row(r) \in Message
    BY <1>7 DEF Durable, Row, Message, IdInv
  <2> QED BY <1>7, <2>1 DEF Durable
<1>8. CASE Answer(r)
  BY <1>8 DEF Answer
<1>9. CASE Fail(r)
  BY <1>9 DEF Fail, Rollback
<1>10. CASE Die(r)
  BY <1>10 DEF Die
<1>11. CASE Reap(r)
  BY <1>11 DEF Reap, Rollback
<1> QED BY <1>1, <1>2, <1>3, <1>4, <1>5, <1>6, <1>7, <1>8, <1>9, <1>10, <1>11

\* Every step of a client keeps the types.
LEMMA TypeClient ==
  ASSUME TypeOK, NEW k \in Keys,
         Ask(k) \/ Since(k) \/ Receive(k) \/ Lose(k) \/ Reload(k)
  PROVE  TypeOK'
<1> USE DEF TypeOK, txVars, EndPoll
<1>1. CASE Ask(k)
  BY <1>1 DEF Ask
<1>2. CASE Since(k)
  BY <1>2 DEF Since, After
<1>3. CASE Receive(k)
  <2>1. PICK c \in Nat : cursor' = [cursor EXCEPT ![k] = c]
    BY <1>3 DEF Receive, Message
  <2> QED BY <1>3, <2>1 DEF Receive
<1>4. CASE Lose(k)
  BY <1>4 DEF Lose
<1>5. CASE Reload(k)
  BY <1>5 DEF Reload
<1> QED BY <1>1, <1>2, <1>3, <1>4, <1>5

-----------------------------------------------------------------------------
(* The sending side.                                                       *)

AddInv == LockInv /\ IdInv /\ TxInv /\ LogInv

\* What a commit adds: one whole row, numbered just above all the others.
LEMMA DurableRow ==
  ASSUME TypeOK, AddInv, NEW r \in Requests, Durable(r)
  PROVE  /\ lock = r
         /\ nextId' = nextId + 1
         /\ log' = log \union {Row(r)}
         /\ Row(r).id = nextId + 1
         /\ Row(r).req = r
         /\ Row(r).sender = sender[r]
         /\ Row(r).to = to[r] \ {sender[r]}
         /\ \A m \in log : m.id < Row(r).id /\ m.req # r
<1>1. pc[r] = "committing" /\ log' = log \union {Row(r)} /\ nextId' = dirtyId
  BY DEF Durable
<1>2. lock = r
  BY <1>1 DEF AddInv, LockInv, Holding
<1>3. nextId' = nextId + 1 /\ id[r] = nextId + 1
  BY <1>1, <1>2, NoOneAssumption DEF AddInv, IdInv
<1>4. delivered[r] = to[r] \ {sender[r]}
  BY <1>1 DEF AddInv, TxInv, Undelivered
<1>5. \A m \in log : m.id < nextId + 1 /\ m.req # r
  BY <1>1 DEF AddInv, LogInv, TypeOK, Message
<1> QED BY <1>1, <1>2, <1>3, <1>4, <1>5 DEF Row

\* No send has begun.
LEMMA AddInvInit == Init => AddInv
BY NoOneAssumption DEF Init, AddInv, LockInv, IdInv, TxInv, LogInv, Holding

\* The handler's and the database's steps keep the sending side's invariant.
LEMMA AddInvAdd ==
  ASSUME TypeOK, AddInv, NEW r \in Requests,
         \/ Begin(r) \/ Bump(r) \/ ReadId(r) \/ InsertMessage(r) \/ Deliver(r)
         \/ Commit(r) \/ Durable(r) \/ Answer(r) \/ Fail(r) \/ Die(r) \/ Reap(r)
  PROVE  AddInv'
<1> USE NoOneAssumption
        DEF AddInv, LockInv, IdInv, TxInv, LogInv, TypeOK, Open, Holding, Advance, Running,
            Undelivered
<1>1. CASE Begin(r)
  BY <1>1 DEF Begin
<1>2. CASE Bump(r)
  BY <1>2 DEF Bump
<1>3. CASE ReadId(r)
  BY <1>3 DEF ReadId
<1>4. CASE InsertMessage(r)
  BY <1>4 DEF InsertMessage
<1>5. CASE Deliver(r)
  BY <1>5 DEF Deliver
<1>6. CASE Commit(r)
  BY <1>6 DEF Commit
<1>7. CASE Durable(r)
  <2>1. /\ pc' = [pc EXCEPT ![r] = "stored"] /\ lock' = NoOne
        /\ UNCHANGED <<sender, to, id, delivered, outcome>>
    BY <1>7 DEF Durable
  <2>2. /\ lock = r
        /\ nextId' = nextId + 1
        /\ log' = log \union {Row(r)}
        /\ Row(r).id = nextId + 1
        /\ Row(r).req = r
        /\ Row(r).sender = sender[r]
        /\ Row(r).to = to[r] \ {sender[r]}
        /\ \A m \in log : m.id < Row(r).id /\ m.req # r
    BY <1>7, DurableRow
  <2>3. LockInv' /\ IdInv'
    BY <2>1, <2>2
  <2>4. TxInv'
    <3>1. \A q \in Requests \ {r} :
            pc'[q] = pc[q] /\ (pc[q] = "stored" => \E m \in log' : m.req = q)
      BY <2>1, <2>2
    <3>2. pc'[r] = "stored" /\ \E m \in log' : m.req = r
      BY <2>1, <2>2
    <3> QED BY <2>1, <3>1, <3>2
  <2>5. LogInv'
    <3>1. \A m \in log : m.id \in Nat /\ m.req \in Requests /\ m.id <= nextId'
      BY <2>2 DEF Message
    <3>2. \A m \in log' : pc'[m.req] = "stored" /\ m.id <= nextId'
      BY <2>1, <2>2, <3>1
    <3>3. \A m \in log' : m.to = to'[m.req] \ {sender'[m.req]} /\ m.sender = sender'[m.req]
      BY <2>1, <2>2
    <3>4. \A m, n \in log' : m.id = n.id \/ m.req = n.req => m = n
      BY <2>2, <3>1
    <3> QED BY <3>2, <3>3, <3>4
  <2> QED BY <2>3, <2>4, <2>5
<1>8. CASE Answer(r)
  BY <1>8 DEF Answer
<1>9. CASE Fail(r)
  <2>1. CASE pc[r] = "stored"
    BY <1>9, <2>1 DEF Fail
  <2>2. CASE pc[r] # "stored"
    <3>1. LockInv' /\ IdInv'
      BY <1>9, <2>2 DEF Fail, Rollback
    <3>2. TxInv'
      BY <1>9, <2>2 DEF Fail, Rollback
    <3>3. LogInv'
      <4>1. \A m \in log : m.req \in Requests /\ m.req # r
        BY <2>2 DEF Message
      <4> QED BY <1>9, <2>2, <4>1 DEF Fail, Rollback
    <3> QED BY <3>1, <3>2, <3>3
  <2> QED BY <2>1, <2>2
<1>10. CASE Die(r)
  BY <1>10 DEF Die
<1>11. CASE Reap(r)
  BY <1>11 DEF Reap, Rollback
<1> QED BY <1>1, <1>2, <1>3, <1>4, <1>5, <1>6, <1>7, <1>8, <1>9, <1>10, <1>11

-----------------------------------------------------------------------------
(* The polling side.                                                       *)

PollSideInv == ShownInv /\ PollInv

\* No client has asked for anything.
LEMMA PollSideInit == Init => PollSideInv
BY DEF Init, PollSideInv, ShownInv, PollInv

\* A commit disturbs no client: what it adds is above every cursor and every
\* answer on its way.
LEMMA PollSideDurable ==
  ASSUME IInv, NEW r \in Requests, Durable(r)
  PROVE  PollSideInv'
<1>1. AddInv /\ TypeOK /\ ShownInv /\ PollInv /\ UNCHANGED clientVars
  BY DEF IInv, AddInv, Durable
<1>2. /\ nextId' = nextId + 1
      /\ log' = log \union {Row(r)}
      /\ Row(r).id = nextId + 1
  BY <1>1, DurableRow
<1>3. ShownInv'
  BY <1>1, <1>2 DEF ShownInv, Visible, TypeOK, clientVars
<1>4. ASSUME NEW k \in Keys, poll[k] = "answered"
      PROVE  /\ batch[k] \subseteq After(cursor[k], k)'
             /\ \A m \in batch[k], n \in After(cursor[k], k)' :
                  n.id < m.id => n \in batch[k]
  <2>1. batch[k] \subseteq After(cursor[k], k)
    BY <1>1, <1>4 DEF PollInv
  <2>2. After(cursor[k], k)' \subseteq After(cursor[k], k) \union {Row(r)}
    BY <1>1, <1>2 DEF After, Visible, clientVars
  <2>3. \A m \in batch[k] : m.id \in Nat /\ m.id <= nextId
    BY <1>1, <2>1 DEF After, AddInv, LogInv, TypeOK, Message
  <2>4. After(cursor[k], k) \subseteq After(cursor[k], k)'
    BY <1>1, <1>2 DEF After, Visible, clientVars
  <2> QED BY <1>1, <1>2, <1>4, <2>1, <2>2, <2>3, <2>4 DEF PollInv, TypeOK
<1>5. PollInv'
  BY <1>1, <1>4 DEF PollInv, clientVars
<1> QED BY <1>3, <1>5 DEF PollSideInv

\* A client's own steps keep its side of the invariant: after an answer has been
\* appended, the cursor is the id of its last row and nothing below is missing.
LEMMA PollSideClient ==
  ASSUME IInv, NEW c \in Keys,
         Ask(c) \/ Since(c) \/ Receive(c) \/ Lose(c) \/ Reload(c)
  PROVE  PollSideInv'
<1> USE DEF IInv, TypeOK, txVars, EndPoll, PollSideInv
<1>1. CASE Ask(c)
  BY <1>1 DEF Ask, ShownInv, PollInv, After, Visible
<1>2. CASE Since(c)
  BY <1>2 DEF Since, ShownInv, PollInv, After, IsFirstBatch, Visible
<1>3. CASE Receive(c)
  <2>1. /\ \A k \in Keys \ {c} : /\ cursor'[k] = cursor[k] /\ shown'[k] = shown[k]
                                  /\ poll'[k] = poll[k] /\ since'[k] = since[k]
                                  /\ batch'[k] = batch[k]
        /\ poll'[c] = "idle"
        /\ shown'[c] = shown[c] \union batch[c]
        /\ log' = log /\ nextId' = nextId
    BY <1>3 DEF Receive
  <2>2. PollInv'
    BY <2>1 DEF PollInv, After, Visible
  <2>3. /\ batch[c] \subseteq After(cursor[c], c)
        /\ \A m \in batch[c], n \in After(cursor[c], c) : n.id < m.id => n \in batch[c]
    BY <1>3 DEF Receive, PollInv
  <2>4. cursor'[c] <= nextId /\ shown'[c] = {m \in log : Visible(m, c) /\ m.id <= cursor'[c]}
    <3>1. CASE batch[c] = {} /\ cursor' = cursor
      BY <2>1, <3>1 DEF ShownInv
    <3>2. CASE \E m \in batch[c] :
                 /\ \A n \in batch[c] : n.id <= m.id
                 /\ cursor' = [cursor EXCEPT ![c] = IF m.id > @ THEN m.id ELSE @]
      <4>1. PICK m \in batch[c] :
                 /\ \A n \in batch[c] : n.id <= m.id
                 /\ cursor' = [cursor EXCEPT ![c] = IF m.id > @ THEN m.id ELSE @]
        BY <3>2
      <4>2. /\ m \in log /\ m.id > cursor[c] /\ m.id \in Nat /\ cursor[c] \in Nat
            /\ m.id <= nextId
        BY <2>3 DEF After, LogInv, Message
      <4>3. cursor'[c] = m.id
        BY <4>1, <4>2
      <4>4. ASSUME NEW n \in log, Visible(n, c)
            PROVE  n.id <= m.id <=> n \in shown[c] \union batch[c]
        <5>1. n.id \in Nat
          BY DEF Message
        <5>2. n.id <= cursor[c] <=> n \in shown[c]
          BY <4>4 DEF ShownInv
        <5>3. CASE n.id <= cursor[c]
          BY <5>1, <5>2, <5>3, <4>2
        <5>4. CASE n.id > cursor[c]
          <6>1. n \in After(cursor[c], c)
            BY <5>4, <4>4 DEF After
          <6>2. n.id = m.id => n = m
            BY <4>2 DEF LogInv
          <6> QED BY <6>1, <6>2, <5>1, <5>2, <5>4, <4>1, <4>2, <2>3
        <5> QED BY <5>1, <5>3, <5>4, <4>2
      <4>5. shown[c] \union batch[c] \subseteq {n \in log : Visible(n, c)}
        BY <2>3 DEF ShownInv, After
      <4> QED BY <2>1, <4>2, <4>3, <4>4, <4>5
    <3> QED BY <1>3, <3>1, <3>2 DEF Receive
  <2>5. ShownInv'
    BY <2>1, <2>4 DEF ShownInv, Visible
  <2> QED BY <2>2, <2>5
<1>4. CASE Lose(c)
  BY <1>4 DEF Lose, ShownInv, PollInv, After, Visible
<1>5. CASE Reload(c)
  <2>1. ShownInv'
    BY <1>5 DEF Reload, ShownInv, Visible, Message
  <2>2. PollInv'
    BY <1>5 DEF Reload, PollInv, After, Visible
  <2> QED BY <2>1, <2>2
<1> QED BY <1>1, <1>2, <1>3, <1>4, <1>5

-----------------------------------------------------------------------------
(* The theorems.                                                           *)

\* The empty log satisfies the invariant.
LEMMA IInvInit == Init => IInv
BY TypeInit, AddInvInit, PollSideInit DEF IInv, AddInv, PollSideInv

\* Every step keeps the inductive invariant.
LEMMA IInvStep == IInv /\ [Next]_vars => IInv'
<1> SUFFICES ASSUME IInv, [Next]_vars PROVE IInv'
  OBVIOUS
<1>1. TypeOK /\ AddInv /\ PollSideInv
  BY DEF IInv, AddInv, PollSideInv
<1>2. ASSUME NEW r \in Requests,
             \/ Begin(r) \/ Bump(r) \/ ReadId(r) \/ InsertMessage(r) \/ Deliver(r)
             \/ Commit(r) \/ Durable(r) \/ Answer(r) \/ Fail(r) \/ Die(r) \/ Reap(r)
      PROVE  IInv'
  <2>1. TypeOK' /\ AddInv'
    BY <1>1, <1>2, TypeAdd, AddInvAdd DEF AddInv
  <2>2. PollSideInv'
    <3>1. CASE Durable(r)
      BY <3>1, PollSideDurable
    <3>2. CASE ~Durable(r)
      <4>1. UNCHANGED <<nextId, log, clientVars>>
        BY <1>2, <3>2
           DEF Begin, Bump, ReadId, InsertMessage, Deliver, Commit, Answer, Fail, Die, Reap
      <4> QED BY <1>1, <4>1
              DEF PollSideInv, ShownInv, PollInv, After, Visible, clientVars
    <3> QED BY <3>1, <3>2
  <2> QED BY <2>1, <2>2 DEF IInv, AddInv, PollSideInv
<1>3. ASSUME NEW k \in Keys, Ask(k) \/ Since(k) \/ Receive(k) \/ Lose(k) \/ Reload(k)
      PROVE  IInv'
  <2>1. TypeOK' /\ PollSideInv'
    BY <1>1, <1>3, TypeClient, PollSideClient
  <2>2. UNCHANGED txVars
    BY <1>3 DEF Ask, Since, Receive, Lose, Reload, txVars
  <2>3. AddInv'
    BY <1>1, <2>2 DEF AddInv, LockInv, IdInv, TxInv, LogInv, Undelivered, txVars
  <2> QED BY <2>1, <2>3 DEF IInv, AddInv, PollSideInv
<1>4. CASE UNCHANGED vars
  BY <1>4 DEF IInv, TypeOK, LockInv, IdInv, TxInv, LogInv, ShownInv, PollInv,
              Undelivered, After, Visible, vars, txVars, clientVars
<1> QED BY <1>2, <1>3, <1>4 DEF Next

\* The inductive invariant holds in every reachable state.
THEOREM Invariance == Spec => []IInv
BY IInvInit, IInvStep, PTL DEF Spec

\* Type correctness, with positive message ids.
THEOREM TypeCorrect == Spec => []TypeOK
<1>1. IInv => TypeOK
  BY DEF IInv
<1> QED BY <1>1, Invariance, PTL

\* For any number of senders, however their transactions interleave, fail or are
\* orphaned, a client that asks from its last id misses nothing (messages.go:
\* nextMessageID and Since; migration 0003's "complete cursor").
THEOREM CursorIsComplete == Spec => []CursorComplete
<1>1. IInv => CursorComplete
  BY DEF IInv, ShownInv, CursorComplete
<1> QED BY <1>1, Invariance, PTL

\* No answer repeats what its client holds.
THEOREM NothingIsShownTwice == Spec => []NothingTwice
<1>1. IInv => NothingTwice
  <2> SUFFICES ASSUME IInv, NEW k \in Keys, poll[k] = "answered",
                      NEW m \in batch[k] \intersect shown[k]
               PROVE  FALSE
    BY DEF NothingTwice
  <2>1. m \in log /\ m.id > cursor[k] /\ m.id <= cursor[k]
    BY DEF IInv, PollInv, ShownInv, After
  <2>2. m.id \in Nat /\ cursor[k] \in Nat
    BY <2>1 DEF IInv, TypeOK, Message
  <2> QED BY <2>1, <2>2
<1> QED BY <1>1, Invariance, PTL

\* Every stored message is deliverable to exactly the keys its sender addressed.
THEOREM DeliveryIsWhole == Spec => []DeliveryWhole
<1>1. IInv => DeliveryWhole
  BY DEF IInv, LogInv, DeliveryWhole
<1> QED BY <1>1, Invariance, PTL

\* A 201 means stored, a request is stored at most once, a rolled back
\* transaction leaves nothing.
THEOREM AnswersAreTrue == Spec => []AnswersMatchLog
<1>1. IInv => AnswersMatchLog
  BY DEF IInv, LogInv, TxInv, AnswersMatchLog
<1> QED BY <1>1, Invariance, PTL

\* What a step may do to the log: nothing, or one commit at its end.
LEMMA LogStep ==
  ASSUME IInv, [Next]_vars
  PROVE  \/ log' = log /\ nextId' = nextId
         \/ \E r \in Requests : Durable(r)
BY DEF Next, vars, txVars, Begin, Bump, ReadId, InsertMessage, Deliver, Commit, Answer,
       Fail, Die, Reap, Ask, Since, Receive, Lose, Reload

\* Messages become visible in id order and stay.
THEOREM LogOnlyGrowsAtEnd == Spec => LogGrowsAtEnd
<1> DEFINE Step == /\ log \subseteq log'
                   /\ \A m \in log' \ log, n \in log : n.id < m.id
<1>1. IInv /\ [Next]_vars => [Step]_log
  <2> SUFFICES ASSUME IInv, [Next]_vars PROVE [Step]_log
    OBVIOUS
  <2>1. CASE log' = log
    BY <2>1
  <2>2. ASSUME NEW r \in Requests, Durable(r)
        PROVE  Step
    BY <2>2, DurableRow DEF IInv, AddInv
  <2> QED BY <2>1, <2>2, LogStep
<1> QED BY <1>1, Invariance, PTL DEF Spec, LogGrowsAtEnd

-----------------------------------------------------------------------------
(* The log implements the timeline.                                        *)

\* The empty log is the empty timeline.
LEMMA RefinesInit == Init => Abstract!Init
BY DEF Init, Abstract!Init

\* A step of a send posts, acknowledges, gives up or is not seen.
LEMMA RefinesAdd ==
  ASSUME IInv, NEW r \in Requests,
         \/ Begin(r) \/ Bump(r) \/ ReadId(r) \/ InsertMessage(r) \/ Deliver(r)
         \/ Commit(r) \/ Durable(r) \/ Answer(r) \/ Fail(r) \/ Die(r) \/ Reap(r)
  PROVE  [Abstract!Next]_(Abstract!vars)
<1>1. CASE Durable(r)
  <2>1. /\ nextId' = nextId + 1
        /\ log' = log \union {Row(r)}
        /\ Row(r) = [id |-> nextId + 1, req |-> r, sender |-> sender[r],
                      to |-> to[r] \ {sender[r]}]
        /\ \A m \in log : m.req # r
    BY <1>1, DurableRow DEF IInv, AddInv, Row
  <2>2. sender[r] \in Keys /\ to[r] \ {sender[r]} \in SUBSET Keys
    BY DEF IInv, TypeOK
  <2>3. UNCHANGED <<outcome, shown>>
    BY <1>1 DEF Durable, clientVars
  <2>4. Abstract!Post(r)
    BY <2>1, <2>2, <2>3 DEF Abstract!Post, Abstract!Posted
  <2> QED BY <2>4 DEF Abstract!Next
<1>2. CASE Answer(r)
  <2>1. \E m \in log : m.req = r
    BY <1>2 DEF Answer, Running, IInv, TxInv
  <2>2. Abstract!Acknowledge(r)
    BY <1>2, <2>1 DEF Answer, Running, Abstract!Acknowledge, Abstract!Posted, clientVars
  <2> QED BY <2>2 DEF Abstract!Next
<1>3. CASE Fail(r) \/ Die(r)
  <2>1. Abstract!GiveUp(r)
    BY <1>3 DEF Fail, Die, Abstract!GiveUp, clientVars
  <2> QED BY <2>1 DEF Abstract!Next
<1>4. CASE \/ Begin(r) \/ Bump(r) \/ ReadId(r) \/ InsertMessage(r) \/ Deliver(r)
           \/ Commit(r) \/ Reap(r)
  BY <1>4 DEF Begin, Bump, ReadId, InsertMessage, Deliver, Commit, Reap, clientVars,
              Abstract!vars
<1> QED BY <1>1, <1>2, <1>3, <1>4

\* A step of a client catches up, starts over or is not seen.
LEMMA RefinesClient ==
  ASSUME IInv, NEW k \in Keys,
         Ask(k) \/ Since(k) \/ Receive(k) \/ Lose(k) \/ Reload(k)
  PROVE  [Abstract!Next]_(Abstract!vars)
<1>1. CASE Receive(k)
  <2>1. /\ batch[k] \subseteq After(cursor[k], k)
        /\ \A m \in batch[k], n \in After(cursor[k], k) : n.id < m.id => n \in batch[k]
    BY <1>1 DEF Receive, IInv, PollInv
  <2>2. After(cursor[k], k) = Abstract!Unseen(k)
    <3>1. \A m \in log : m.id > cursor[k] <=> ~(m.id <= cursor[k])
      BY DEF IInv, TypeOK, Message
    <3> QED BY <3>1 DEF IInv, ShownInv, After, Visible, Abstract!Unseen, Abstract!Visible
  <2>3. shown' = [shown EXCEPT ![k] = @ \union batch[k]] /\ UNCHANGED <<nextId, log, outcome>>
    BY <1>1 DEF Receive, txVars
  <2>4. Abstract!CatchUp(k)
    BY <2>1, <2>2, <2>3 DEF Abstract!CatchUp
  <2> QED BY <2>4 DEF Abstract!Next
<1>2. CASE Reload(k)
  <2>1. Abstract!StartOver(k)
    BY <1>2 DEF Reload, Abstract!StartOver, txVars
  <2> QED BY <2>1 DEF Abstract!Next
<1>3. CASE Ask(k) \/ Since(k) \/ Lose(k)
  BY <1>3 DEF Ask, Since, Lose, txVars, Abstract!vars
<1> QED BY <1>1, <1>2, <1>3

\* The message log implements the timeline: sends take effect one at a time at
\* its end, and every transcript is at every moment an initial segment of what
\* its key may read (ChatStore.Add and ChatStore.Since).
THEOREM Refinement == Spec => ImplementsTimeline
<1>1. IInv /\ [Next]_vars => [Abstract!Next]_(Abstract!vars)
  <2> SUFFICES ASSUME IInv, [Next]_vars PROVE [Abstract!Next]_(Abstract!vars)
    OBVIOUS
  <2>1. CASE UNCHANGED vars
    BY <2>1 DEF vars, txVars, clientVars, Abstract!vars
  <2> QED BY <2>1, RefinesAdd, RefinesClient DEF Next
<1> QED BY <1>1, RefinesInit, Invariance, PTL DEF Spec, ImplementsTimeline, Abstract!Spec

=============================================================================
