--------------------------- MODULE WebClientProofs ---------------------------
(***************************************************************************)
(* Proofs about WebClient, for any number of calls in flight, keys and     *)
(* messages: the guard of the poll, and the transcript.                    *)
(***************************************************************************)
EXTENDS WebClient, WellFoundedInduction, SequenceTheorems, TLAPS

-----------------------------------------------------------------------------
(* Ascending sequences.                                                    *)

\* Every non-empty set of numbers has a least one.
LEMMA LeastNumber ==
  ASSUME NEW T \in SUBSET Nat, T # {}
  PROVE  \E m \in T : \A k \in T : m <= k
<1> DEFINE R == OpToRel(<, Nat)
<1>1. IsWellFoundedOn(R, Nat)
  BY NatLessThanWellFounded
<1>2. \A x, y \in Nat : x < y => <<x, y>> \in R
  BY DEF OpToRel
<1> HIDE DEF R
<1>3. PICK x \in T : \A y \in T : ~(<<y, x>> \in R)
  BY <1>1, WFMin
<1>4. \A y \in T : ~(y < x)
  BY <1>2, <1>3
<1>5. x \in Nat /\ \A y \in T : x <= y
  BY <1>4
<1> QED
  BY <1>5

\* Induction, for a set of numbers: no prover here takes the library's theorem, whose
\* parameter is an operator.
LEMMA NumbersByInduction ==
  ASSUME NEW S \in SUBSET Nat, 0 \in S, \A n \in S : n + 1 \in S
  PROVE  S = Nat
<1> SUFFICES ASSUME S # Nat PROVE FALSE
  OBVIOUS
<1>1. Nat \ S # {} /\ Nat \ S \in SUBSET Nat
  OBVIOUS
<1>2. PICK m \in Nat \ S : \A k \in Nat \ S : m <= k
  BY <1>1, LeastNumber
<1>3. m - 1 \in Nat /\ m - 1 \in S
  BY <1>2
<1>4. (m - 1) + 1 \in S
  BY <1>3
<1> QED
  BY <1>2, <1>4

\* A set of the first n numbers is put in order by a sequence that is no longer.
Ordered(n) ==
  \A ids \in SUBSET (1..n) : \E k \in 0..n : \E q \in [1..k -> ids] : InOrder(q, ids)

\* Adding a number above all others.
LEMMA InOrderExtended ==
  ASSUME NEW n \in Nat, NEW ids \in SUBSET (1..n), NEW k \in 0..n,
         NEW q \in [1..k -> ids], InOrder(q, ids)
  PROVE  \E r \in [1..k + 1 -> ids \union {n + 1}] : InOrder(r, ids \union {n + 1})
<1> DEFINE r == [i \in 1..k + 1 |-> IF i = k + 1 THEN n + 1 ELSE q[i]]
<1>1. \A i \in 1..k + 1 : i = k + 1 \/ i \in 1..k
  OBVIOUS
<1>2. r \in [1..k + 1 -> ids \union {n + 1}]
  BY <1>1
<1>3. Range(r) = ids \union {n + 1}
  <2>1. k + 1 \in 1..k + 1 /\ r[k + 1] = n + 1
    OBVIOUS
  <2>2. \A i \in 1..k : i \in 1..k + 1 /\ r[i] = q[i]
    OBVIOUS
  <2>3. DOMAIN r = 1..k + 1 /\ DOMAIN q = 1..k
    OBVIOUS
  <2> HIDE DEF r
  <2>4. \A x \in ids : x \in Range(r)
    BY <2>2, <2>3 DEF InOrder, Range
  <2> QED
    BY <1>2, <2>1, <2>3, <2>4 DEF Range
<1>4. ASSUME NEW i \in 1..k + 1, NEW j \in 1..k + 1, i < j
      PROVE  r[i] < r[j]
  <2>1. i \in 1..k /\ r[i] = q[i]
    BY <1>4
  <2>2. q[i] \in 1..n
    BY <2>1
  <2>3. CASE j = k + 1
    BY <2>1, <2>2, <2>3
  <2>4. CASE j # k + 1
    <3>1. j \in 1..k /\ r[j] = q[j]
      BY <1>4, <2>4
    <3> QED
      BY <1>4, <2>1, <3>1 DEF InOrder
  <2> QED
    BY <2>3, <2>4
<1> QED
  BY <1>2, <1>3, <1>4 DEF InOrder

LEMMA OrderedAll == \A n \in Nat : Ordered(n)
<1> DEFINE S == {n \in Nat : Ordered(n)}
<1>1. 0 \in S
  <2> SUFFICES ASSUME NEW ids \in SUBSET (1..0)
               PROVE  \E k \in 0..0 : \E q \in [1..k -> ids] : InOrder(q, ids)
    BY DEF Ordered
  <2>1. ids = {} /\ 1..0 = {}
    OBVIOUS
  <2> DEFINE q == [i \in 1..0 |-> i]
  <2>2. q \in [1..0 -> ids] /\ InOrder(q, ids)
    BY <2>1 DEF InOrder, Range
  <2> HIDE DEF q
  <2>3. \E f \in [1..0 -> ids] : InOrder(f, ids)
    BY <2>2
  <2>4. 0 \in 0..0
    OBVIOUS
  <2> QED
    BY <2>3, <2>4
<1>2. ASSUME NEW n \in S
      PROVE  n + 1 \in S
  <2> SUFFICES ASSUME NEW ids \in SUBSET (1..n + 1)
               PROVE  \E k \in 0..n + 1 : \E q \in [1..k -> ids] : InOrder(q, ids)
    <3>1. n + 1 \in Nat
      OBVIOUS
    <3> QED
      BY <3>1 DEF Ordered
  <2>1. ids \ {n + 1} \in SUBSET (1..n)
    OBVIOUS
  <2>2. PICK k \in 0..n : \E q \in [1..k -> ids \ {n + 1}] : InOrder(q, ids \ {n + 1})
    BY <2>1 DEF Ordered
  <2>3. PICK q \in [1..k -> ids \ {n + 1}] : InOrder(q, ids \ {n + 1})
    BY <2>2
  <2>4. CASE n + 1 \in ids
    <3>1. (ids \ {n + 1}) \union {n + 1} = ids
      BY <2>4
    <3>2. n \in Nat /\ k + 1 \in 0..n + 1
      OBVIOUS
    <3>3. \E r \in [1..k + 1 -> (ids \ {n + 1}) \union {n + 1}] :
             InOrder(r, (ids \ {n + 1}) \union {n + 1})
      BY <2>1, <2>3, <3>2, InOrderExtended
    <3> QED
      BY <3>1, <3>2, <3>3
  <2>5. CASE n + 1 \notin ids
    <3>1. ids \ {n + 1} = ids /\ k \in 0..n + 1
      BY <2>5
    <3> QED
      BY <2>3, <3>1
  <2> QED
    BY <2>4, <2>5
<1> HIDE DEF S
<1>3. S = Nat
  <2>1. S \in SUBSET Nat
    BY DEF S
  <2> QED
    BY <1>1, <1>2, <2>1, NumbersByInduction
<1> QED
  BY <1>3 DEF S

\* What Ascending chooses is in order.
LEMMA AscendingIsInOrder ==
  ASSUME NEW ids \in SUBSET (1..MaxId)
  PROVE  Ascending(ids) \in Seq(1..MaxId) /\ InOrder(Ascending(ids), ids)
<1>1. PICK k \in 0..MaxId : \E q \in [1..k -> ids] : InOrder(q, ids)
  BY OrderedAll, BoundsAssumption DEF Ordered
<1>2. \E q \in SeqOf(ids, MaxId) : InOrder(q, ids)
  BY <1>1 DEF SeqOf
<1>3. Ascending(ids) \in SeqOf(ids, MaxId) /\ InOrder(Ascending(ids), ids)
  BY <1>2 DEF Ascending
<1>4. PICK m \in 0..MaxId : Ascending(ids) \in [1..m -> ids]
  BY <1>3 DEF SeqOf
<1>5. Ascending(ids) \in Seq(1..MaxId)
  <2> DEFINE a == Ascending(ids)
             S == 1..MaxId
  <2>1. a \in [1..m -> ids] /\ ids \subseteq S /\ m \in Nat
    BY <1>4, BoundsAssumption
  <2> HIDE DEF a, S
  <2>2. a \in [1..m -> S]
    BY <2>1
  <2>3. a \in Seq(S)
    BY <2>1, <2>2
  <2> QED
    BY <2>3 DEF a, S
<1> QED
  BY <1>3, <1>5

\* Sequences in order, the second one of higher numbers, are in order together.
LEMMA InOrderConcat ==
  ASSUME NEW p \in Seq(1..MaxId), NEW q \in Seq(1..MaxId), NEW A, NEW B,
         InOrder(p, A), InOrder(q, B), \A i \in A, j \in B : i < j
  PROVE  p \o q \in Seq(1..MaxId) /\ InOrder(p \o q, A \union B)
<1> DEFINE S == 1..MaxId
           r == p \o q
<1>1. p \in Seq(S) /\ q \in Seq(S)
  OBVIOUS
<1>2. Len(p) \in Nat /\ Len(q) \in Nat /\ DOMAIN p = 1..Len(p) /\ DOMAIN q = 1..Len(q)
  OBVIOUS
<1>3. /\ r \in Seq(S) /\ Len(r) = Len(p) + Len(q)
      /\ \A i \in 1..Len(p) + Len(q) :
           r[i] = IF i <= Len(p) THEN p[i] ELSE q[i - Len(p)]
  <2> HIDE DEF S
  <2> QED
    BY <1>1, ConcatProperties
<1> HIDE DEF r
<1>4. DOMAIN r = 1..Len(p) + Len(q)
  BY <1>2, <1>3
<1>5. \A i \in DOMAIN p : i \in DOMAIN r /\ r[i] = p[i]
  BY <1>2, <1>3, <1>4
<1>6. \A i \in DOMAIN q : Len(p) + i \in DOMAIN r /\ r[Len(p) + i] = q[i]
  BY <1>2, <1>3, <1>4
<1>7. \A i \in DOMAIN r : \/ i \in DOMAIN p /\ r[i] = p[i]
                          \/ i > Len(p) /\ i - Len(p) \in DOMAIN q /\ r[i] = q[i - Len(p)]
  BY <1>2, <1>3, <1>4
<1>8. Range(r) = A \union B
  BY <1>5, <1>6, <1>7 DEF InOrder, Range
<1>9. ASSUME NEW i \in DOMAIN r, NEW j \in DOMAIN r, i < j
      PROVE  r[i] < r[j]
  <2>1. CASE i \in DOMAIN p /\ j \in DOMAIN p
    BY <1>5, <1>9, <2>1 DEF InOrder
  <2>2. CASE i \in DOMAIN p /\ j \notin DOMAIN p
    BY <1>5, <1>7, <2>2 DEF InOrder, Range
  <2>3. CASE i \notin DOMAIN p
    <3>1. /\ i - Len(p) \in DOMAIN q /\ r[i] = q[i - Len(p)]
          /\ j - Len(p) \in DOMAIN q /\ r[j] = q[j - Len(p)]
          /\ i - Len(p) < j - Len(p)
      BY <1>2, <1>4, <1>7, <1>9, <2>3
    <3> QED
      BY <3>1 DEF InOrder
  <2> QED
    BY <2>1, <2>2, <2>3
<1> QED
  BY <1>3, <1>8, <1>9 DEF InOrder, r

-----------------------------------------------------------------------------
(* The invariant.                                                          *)

Ids == {m.id : m \in log}

\* A batch is nothing, or the first of what the present key may read after the cursor.
FirstPart(batch) ==
  batch = {} \/ \E last \in batch : batch = {i \in Readable(pair, lastID) : i <= last}

\* A poll in flight asks from the present cursor with the present key.
InStep(c) ==
  /\ c.since = lastID
  /\ c.stage \in {"keyed", "sent", "answered"} => c.cred = pair
  /\ c.stage = "answered" /\ c.answer = "ok" => FirstPart(c.batch)

Exact == InOrder(messages, {i \in Readable(pair, 0) : i <= lastID})

\* The inductive invariant: one poll at a time, nothing known that the server does not
\* have, nothing in flight while the page starts, and unless a poll was in flight when
\* the key was replaced, the transcript and the poll are in step with each other.
WebInv ==
  /\ TypeOK
  /\ \A s, u \in Slots : call[s].kind = "poll" /\ call[u].kind = "poll" => s = u
  /\ lastID = 0 \/ lastID \in Ids
  /\ \A s \in Slots : call[s].batch \subseteq Ids
  /\ phase = "starting" =>
       /\ messages = <<>> /\ lastID = 0 /\ ~straddled
       /\ \A s \in Slots : call[s].kind = "none"
  /\ ~straddled => Exact /\ \A s \in Slots : call[s].kind = "poll" => InStep(call[s])

-----------------------------------------------------------------------------
(* What a key may read.                                                    *)

LEMMA ReadableIds ==
  ASSUME log \subseteq Message, NEW k, NEW since
  PROVE  Readable(k, since) \subseteq Ids /\ Ids \subseteq 1..MaxId
BY DEF Readable, Ids, Message

LEMMA ReadableFromStart ==
  ASSUME log \subseteq Message, NEW k, NEW since \in 0..MaxId
  PROVE  Readable(k, since) = {i \in Readable(k, 0) : i > since}
<1>1. \A m \in log : m.id \in 1..MaxId
  BY DEF Message
<1>2. \A m \in log : m.id > 0
  BY <1>1
<1> QED
  BY <1>2 DEF Readable

\* Of nothing there is nothing.
LEMMA NothingInOrder == InOrder(<<>>, {})
BY DEF InOrder, Range

\* At the start of a transcript nothing has been read.
LEMMA NothingReadable ==
  ASSUME log \subseteq Message, NEW k
  PROVE  {i \in Readable(k, 0) : i <= 0} = {}
<1>1. \A i \in Readable(k, 0) : i \in 1..MaxId
  BY ReadableIds
<1> QED
  BY <1>1

-----------------------------------------------------------------------------
(* The steps, by what they do to the calls.                                *)

LEMMA FreeTypes ==
  /\ Free \in Calls /\ Free.kind = "none" /\ Free.batch = {}
  /\ \A kind \in Kinds, since \in 0..MaxId :
       /\ Made(kind, since) \in Calls /\ Made(kind, since).kind = kind
       /\ Made(kind, since).stage = "begun" /\ Made(kind, since).since = since
       /\ Made(kind, since).batch = {}
<1>1. 0 \in 0..MaxId /\ 0 \in 0..MaxKey
  BY BoundsAssumption
<1> QED
  BY <1>1 DEF Free, Made, Calls

\* A call goes on, or one that is no poll begins or ends; App may change its phase.
LEMMA CallGoesOn ==
  ASSUME WebInv, NEW s \in Slots, NEW c \in Calls,
         call' = [call EXCEPT ![s] = c],
         c.kind = "poll" <=> call[s].kind = "poll",
         c.batch \subseteq Ids,
         ~straddled /\ c.kind = "poll" => InStep(c),
         phase' \in {"starting", "ready", "denied", "broken"},
         phase' = "starting" => phase = "starting" /\ c.kind = call[s].kind,
         named' \in BOOLEAN,
         UNCHANGED <<authorized, log, pair, lastID, messages, polling, straddled>>
  PROVE  WebInv'
<1>1. /\ call \in [Slots -> Calls] /\ call' \in [Slots -> Calls] /\ call'[s] = c
      /\ \A u \in Slots \ {s} : call'[u] = call[u]
  BY DEF WebInv, TypeOK
<1>2. \A u \in Slots : call'[u].kind = "poll" <=> call[u].kind = "poll"
  BY <1>1
<1>3. TypeOK'
  <2>1. polling' = (\E u \in Slots : call'[u].kind = "poll")
    BY <1>2 DEF WebInv, TypeOK
  <2> QED
    BY <1>1, <2>1 DEF WebInv, TypeOK
<1>4. \A u \in Slots : call'[u].batch \subseteq Ids /\ Ids' = Ids
  BY <1>1 DEF WebInv, Ids
<1>5. phase' = "starting" => \A u \in Slots : call'[u].kind = "none"
  BY <1>1 DEF WebInv
<1>6. ~straddled => \A u \in Slots : call'[u].kind = "poll" => InStep(call'[u])
  BY <1>1 DEF WebInv
<1>7. Exact' = Exact /\ \A u \in Slots : InStep(call[u])' = InStep(call'[u])
  BY DEF Exact, InStep, FirstPart, Readable
<1> QED
  BY <1>2, <1>3, <1>4, <1>5, <1>6, <1>7 DEF WebInv

\* A poll begins where none is under way.
LEMMA PollBegins ==
  ASSUME WebInv, NEW s \in Slots, ~polling, polling' = TRUE, phase # "starting",
         call' = [call EXCEPT ![s] = Made("poll", lastID)],
         UNCHANGED <<authorized, log, phase, pair, named, lastID, messages, straddled>>
  PROVE  WebInv'
<1> DEFINE c == Made("poll", lastID)
<1>1. /\ c \in Calls /\ c.kind = "poll" /\ c.batch = {} /\ c.stage = "begun"
      /\ c.since = lastID
  BY FreeTypes DEF WebInv, TypeOK, Kinds
<1> HIDE DEF c
<1>2. /\ call \in [Slots -> Calls] /\ call' \in [Slots -> Calls] /\ call'[s] = c
      /\ \A u \in Slots \ {s} : call'[u] = call[u] /\ call[u].kind # "poll"
  BY <1>1 DEF WebInv, TypeOK, c
<1>3. \A u \in Slots : call'[u].kind = "poll" => u = s
  BY <1>2
<1>4. TypeOK'
  <2>1. polling' = (\E u \in Slots : call'[u].kind = "poll")
    BY <1>1, <1>2
  <2> QED
    BY <1>2, <2>1 DEF WebInv, TypeOK
<1>5. \A u \in Slots : call'[u].batch \subseteq Ids /\ Ids' = Ids
  BY <1>1, <1>2 DEF WebInv, Ids
<1>6. InStep(call[s])'
  BY <1>1, <1>2 DEF InStep
<1>7. Exact' = Exact
  BY DEF Exact, Readable
<1> QED
  BY <1>3, <1>4, <1>5, <1>6, <1>7 DEF WebInv

\* A poll ends, and the guard is given back: the transcript must be exact again.
LEMMA PollEnds ==
  ASSUME WebInv, NEW s \in Slots, call[s].kind = "poll", polling' = FALSE,
         call' = [call EXCEPT ![s] = Free],
         phase' \in {phase, "denied"},
         messages' \in Seq(1..MaxId),
         lastID' \in 0..MaxId, lastID' = 0 \/ lastID' \in Ids,
         ~straddled => Exact',
         UNCHANGED <<authorized, log, pair, named, straddled>>
  PROVE  WebInv'
<1>1. /\ call \in [Slots -> Calls] /\ call' \in [Slots -> Calls] /\ call'[s] = Free
      /\ \A u \in Slots \ {s} : call'[u] = call[u]
  BY FreeTypes DEF WebInv, TypeOK
<1>2. \A u \in Slots : call'[u].kind # "poll"
  BY <1>1, FreeTypes DEF WebInv
<1>3. phase # "starting" /\ phase' # "starting"
  BY DEF WebInv
<1>4. TypeOK'
  <2>1. polling' = (\E u \in Slots : call'[u].kind = "poll")
    BY <1>2
  <2>2. phase' \in {"starting", "ready", "denied", "broken"}
    BY DEF WebInv, TypeOK
  <2> QED
    BY <1>1, <2>1, <2>2 DEF WebInv, TypeOK
<1>5. \A u \in Slots : call'[u].batch \subseteq Ids
  BY <1>1, FreeTypes DEF WebInv
<1>6. Ids' = Ids
  BY DEF Ids
<1> QED
  BY <1>2, <1>3, <1>4, <1>5, <1>6 DEF WebInv

-----------------------------------------------------------------------------
(* The server.                                                             *)

LEMMA WebInvServer ==
  ASSUME WebInv, (\E k \in Keys : Authorize(k)) \/ (\E readers \in SUBSET Keys : Arrive(readers))
  PROVE  WebInv'
<1>1. ASSUME NEW k \in Keys, Authorize(k) PROVE WebInv'
  <2>1. /\ UNCHANGED <<log, phase, pair, named, lastID, messages, polling, call, straddled>>
        /\ authorized' = authorized \union {k}
    BY <1>1 DEF Authorize, appVars
  <2>2. TypeOK'
    BY <2>1 DEF WebInv, TypeOK
  <2> QED
    BY <2>1, <2>2 DEF WebInv, Ids, Exact, InStep, FirstPart, Readable
<1>2. ASSUME NEW readers \in SUBSET Keys, Arrive(readers) PROVE WebInv'
  <2>1. UNCHANGED <<authorized, phase, pair, named, lastID, messages, polling, call, straddled>>
    BY <1>2 DEF Arrive, appVars
  <2>2. PICK n \in 1..MaxId :
          Ids = 1..n - 1 /\ log' = log \union {[id |-> n, readers |-> readers]}
    BY <1>2 DEF Arrive, Ids
  <2>3. TypeOK'
    <3>1. log' \subseteq Message
      BY <2>2 DEF WebInv, TypeOK, Message
    <3> QED
      BY <2>1, <3>1 DEF WebInv, TypeOK
  <2>4. Ids \subseteq Ids' /\ \A i \in Ids : i < n
    BY <2>2 DEF Ids
  <2>5. /\ Readable(pair, 0) \subseteq Readable(pair, 0)'
        /\ Readable(pair, 0)' \subseteq Readable(pair, 0) \union {n}
        /\ Readable(pair, lastID) \subseteq Readable(pair, lastID)'
        /\ Readable(pair, lastID)' \subseteq Readable(pair, lastID) \union {n}
    BY <2>1, <2>2 DEF Readable
  <2>6. lastID < n
    BY <2>2, <2>4 DEF WebInv
  <2>7. {i \in Readable(pair, 0)' : i <= lastID} = {i \in Readable(pair, 0) : i <= lastID}
    <3>1. ~(n <= lastID)
      BY <2>6 DEF WebInv, TypeOK
    <3> QED
      BY <2>5, <3>1
  <2>8. Exact => Exact'
    BY <2>1, <2>7 DEF Exact, InOrder
  <2>9. ASSUME NEW s \in Slots, InStep(call[s]) PROVE InStep(call[s])'
    <3>1. ASSUME NEW last \in call[s].batch
          PROVE  {i \in Readable(pair, lastID)' : i <= last}
                   = {i \in Readable(pair, lastID) : i <= last}
      <4>1. last \in Ids /\ last < n /\ last \in Int
        BY <2>2, <2>4 DEF WebInv
      <4>2. ~(n <= last)
        BY <4>1
      <4> QED
        BY <2>5, <4>2
    <3>2. FirstPart(call[s].batch) => FirstPart(call[s].batch)'
      BY <2>1, <3>1 DEF FirstPart
    <3> QED
      BY <2>1, <2>9, <3>2 DEF InStep
  <2> QED
    BY <2>1, <2>3, <2>4, <2>8, <2>9 DEF WebInv
<1> QED
  BY <1>1, <1>2

-----------------------------------------------------------------------------
(* The key and the page.                                                   *)

LEMMA WebInvLoadKeys ==
  ASSUME WebInv, LoadKeys
  PROVE  WebInv'
<1>1. /\ UNCHANGED <<authorized, log, named, lastID, messages, polling, call, straddled>>
      /\ phase = "starting" /\ phase' \in {"ready", "broken"} /\ pair' \in Keys
  BY DEF LoadKeys, serverVars, WebInv, TypeOK
<1>2. /\ messages = <<>> /\ lastID = 0 /\ \A s \in Slots : call[s].kind = "none"
  BY <1>1 DEF WebInv
<1>3. TypeOK'
  BY <1>1 DEF WebInv, TypeOK
<1>4. Exact'
  <2>1. {i \in Readable(pair', 0) : i <= 0} = {}
    BY NothingReadable DEF WebInv, TypeOK
  <2> QED
    BY <1>1, <1>2, <2>1, NothingInOrder DEF Exact, Readable
<1> QED
  BY <1>1, <1>2, <1>3, <1>4 DEF WebInv, Ids

LEMMA WebInvNewKey ==
  ASSUME WebInv, NewKey
  PROVE  WebInv'
<1>1. /\ UNCHANGED <<authorized, log, polling, call>>
      /\ phase' = "denied" /\ named' = FALSE /\ pair' = pair + 1 /\ pair < MaxKey
      /\ messages' = <<>> /\ lastID' = 0 /\ straddled' = polling
  BY DEF NewKey, serverVars
<1>2. TypeOK'
  <2>1. pair' \in Keys
    BY <1>1, BoundsAssumption DEF WebInv, TypeOK, Keys
  <2>2. lastID' \in 0..MaxId /\ messages' \in Seq(1..MaxId)
    BY <1>1, BoundsAssumption
  <2>3. straddled' \in BOOLEAN
    BY <1>1 DEF WebInv, TypeOK
  <2> QED
    BY <1>1, <2>1, <2>2, <2>3 DEF WebInv, TypeOK
<1>3. Exact'
  <2>1. {i \in Readable(pair', 0) : i <= 0} = {}
    BY NothingReadable DEF WebInv, TypeOK
  <2> QED
    BY <1>1, <2>1, NothingInOrder DEF Exact, Readable
<1>4. ~straddled' => \A s \in Slots : call'[s].kind # "poll"
  BY <1>1 DEF WebInv, TypeOK
<1> QED
  BY <1>1, <1>2, <1>3, <1>4 DEF WebInv, Ids

LEMMA WebInvReload ==
  ASSUME WebInv, Reload
  PROVE  WebInv'
<1>1. /\ UNCHANGED <<authorized, log, pair>> /\ phase' = "starting" /\ named' = FALSE
      /\ messages' = <<>> /\ lastID' = 0 /\ polling' = FALSE /\ straddled' = FALSE
      /\ call' = [s \in Slots |-> Free]
  BY DEF Reload, serverVars
<1>2. \A s \in Slots : call'[s].kind = "none" /\ call'[s].batch = {}
  BY <1>1, FreeTypes
<1>3. TypeOK'
  <2>1. lastID' \in 0..MaxId /\ messages' \in Seq(1..MaxId)
    BY <1>1, BoundsAssumption
  <2>2. call' \in [Slots -> Calls]
    BY <1>1, FreeTypes
  <2>3. polling' = (\E s \in Slots : call'[s].kind = "poll")
    BY <1>1, <1>2
  <2> QED
    BY <1>1, <2>1, <2>2, <2>3 DEF WebInv, TypeOK
<1>4. Exact'
  <2>1. {i \in Readable(pair, 0) : i <= 0} = {}
    BY NothingReadable DEF WebInv, TypeOK
  <2> QED
    BY <1>1, <2>1, NothingInOrder DEF Exact, Readable
<1> QED
  BY <1>1, <1>2, <1>3, <1>4 DEF WebInv

-----------------------------------------------------------------------------
(* Calls are made, signed and answered.                                    *)

LEMMA WebInvStarts ==
  ASSUME WebInv, NEW s \in Slots, StartPoll(s) \/ Refresh(s) \/ Retry(s) \/ Act(s)
  PROVE  WebInv'
<1>1. CASE StartPoll(s)
  BY <1>1, PollBegins DEF StartPoll, serverVars
<1>2. ASSUME NEW kind \in {"chat", "send", "name"}, Start(s, kind), phase # "starting"
      PROVE  WebInv'
  <2> DEFINE c == Made(kind, 0)
  <2>1. 0 \in 0..MaxId /\ kind \in Kinds
    BY BoundsAssumption DEF Kinds
  <2>2. c \in Calls /\ c.kind = kind /\ c.batch = {}
    BY <2>1, FreeTypes
  <2>3. call' = [call EXCEPT ![s] = c] /\ call[s].kind = "none"
    BY <1>2, FreeTypes DEF Start
  <2>4. /\ UNCHANGED <<authorized, log, pair, lastID, messages, polling, straddled>>
        /\ phase' = phase /\ named' = named
    BY <1>2 DEF Start, serverVars, appVars
  <2>5. phase' \in {"starting", "ready", "denied", "broken"} /\ named' \in BOOLEAN
    BY <2>4 DEF WebInv, TypeOK
  <2> HIDE DEF c
  <2> QED
    BY <1>2, <2>2, <2>3, <2>4, <2>5, CallGoesOn
<1> QED
  BY <1>1, <1>2 DEF Refresh, Retry, Act

\* The call of slot s goes on by a step that is its own.
LEMMA CallSteps ==
  ASSUME WebInv, NEW s \in Slots, NEW c \in Calls,
         call' = [call EXCEPT ![s] = c], c.kind = call[s].kind,
         c.batch \subseteq Ids,
         ~straddled /\ c.kind = "poll" /\ InStep(call[s]) => InStep(c),
         UNCHANGED <<serverVars, appVars, straddled>>
  PROVE  WebInv'
<1>1. UNCHANGED <<authorized, log, phase, pair, named, lastID, messages, polling, straddled>>
  BY DEF serverVars, appVars
<1>2. ~straddled /\ c.kind = "poll" => InStep(c)
  BY DEF WebInv
<1>3. phase' \in {"starting", "ready", "denied", "broken"} /\ named' \in BOOLEAN
  BY <1>1 DEF WebInv, TypeOK
<1> QED
  BY <1>1, <1>2, <1>3, CallGoesOn

LEMMA WebInvSigns ==
  ASSUME WebInv, NEW s \in Slots, ReadKey(s) \/ Sign(s)
  PROVE  WebInv'
<1>1. /\ call[s] \in Calls /\ call \in [Slots -> Calls] /\ call[s].batch \subseteq Ids
      /\ pair \in 0..MaxKey
  BY BoundsAssumption DEF WebInv, TypeOK, Keys
<1>2. CASE ReadKey(s)
  <2> DEFINE c == [call[s] EXCEPT !.stage = "keyed", !.cred = pair]
  <2>1. call' = [call EXCEPT ![s] = c]
    BY <1>1, <1>2 DEF ReadKey
  <2>2. c \in Calls
    BY <1>1 DEF Calls
  <2>3. /\ c.kind = call[s].kind /\ c.batch = call[s].batch /\ c.since = call[s].since
        /\ c.stage = "keyed" /\ c.cred = pair
    BY <1>1 DEF Calls
  <2> HIDE DEF c
  <2>4. InStep(call[s]) => InStep(c)
    BY <2>3 DEF InStep
  <2> QED
    BY <1>1, <1>2, <2>1, <2>2, <2>3, <2>4, CallSteps DEF ReadKey
<1>3. CASE Sign(s)
  <2> DEFINE c == [call[s] EXCEPT !.stage = "sent", !.sig = pair]
  <2>1. call' = [call EXCEPT ![s] = c]
    BY <1>1, <1>3 DEF Sign
  <2>2. c \in Calls
    BY <1>1 DEF Calls
  <2>3. /\ c.kind = call[s].kind /\ c.batch = call[s].batch /\ c.since = call[s].since
        /\ c.stage = "sent" /\ c.cred = call[s].cred /\ call[s].stage = "keyed"
    BY <1>1, <1>3 DEF Calls, Sign
  <2> HIDE DEF c
  <2>4. InStep(call[s]) => InStep(c)
    BY <2>3 DEF InStep
  <2> QED
    BY <1>1, <1>3, <2>1, <2>2, <2>3, <2>4, CallSteps DEF Sign
<1> QED
  BY <1>2, <1>3

\* What a poll is answered with is known, and of the key and the cursor it was asked with.
LEMMA BatchesKnown ==
  ASSUME log \subseteq Message, NEW c \in Calls, NEW batch \in Batches(c)
  PROVE  /\ batch \subseteq Ids
         /\ c.kind = "poll" =>
              batch = {} \/ \E last \in batch :
                              batch = {i \in Readable(c.cred, c.since) : i <= last}
<1> DEFINE ids == Readable(c.cred, c.since)
<1>1. ids \subseteq Ids /\ Ids \subseteq 1..MaxId
  BY ReadableIds
<1>2. CASE c.kind # "poll" \/ ids = {}
  BY <1>2 DEF Batches
<1>3. CASE c.kind = "poll" /\ ids # {}
  <2>1. batch \in {{i \in ids : i <= last} : last \in ids}
    BY <1>3 DEF Batches
  <2> HIDE DEF ids
  <2>2. PICK last \in ids : batch = {i \in ids : i <= last}
    BY <2>1
  <2>3. last \in batch
    BY <1>1, <2>2
  <2> QED
    BY <1>1, <2>2, <2>3 DEF ids
<1> QED
  BY <1>2, <1>3

LEMMA WebInvAnswers ==
  ASSUME WebInv, NEW s \in Slots, Serve(s) \/ Break(s)
  PROVE  WebInv'
<1>1. /\ call[s] \in Calls /\ call \in [Slots -> Calls] /\ log \subseteq Message
      /\ Ids \subseteq 1..MaxId
  BY ReadableIds DEF WebInv, TypeOK
<1>2. call[s].stage = "sent" /\ UNCHANGED <<serverVars, appVars, straddled>>
  BY DEF Serve, Break
<1>3. ASSUME NEW answer \in {"ok", "denied", "error"}, NEW batch, Answered(s, answer, batch),
             batch \subseteq Ids,
             call[s].kind = "poll" /\ answer = "ok" =>
               batch = {} \/ \E last \in batch :
                 batch = {i \in Readable(call[s].cred, call[s].since) : i <= last}
      PROVE  WebInv'
  <2> DEFINE c == [call[s] EXCEPT !.stage = "answered", !.answer = answer, !.batch = batch]
  <2>1. call' = [call EXCEPT ![s] = c]
    BY <1>1, <1>3 DEF Answered
  <2>2. c \in Calls
    BY <1>1, <1>3 DEF Calls
  <2>3. /\ c.kind = call[s].kind /\ c.batch = batch /\ c.since = call[s].since
        /\ c.cred = call[s].cred /\ c.stage = "answered" /\ c.answer = answer
    BY <1>1 DEF Calls
  <2> HIDE DEF c
  <2>4. c.kind = "poll" /\ InStep(call[s]) => InStep(c)
    BY <1>2, <1>3, <2>3 DEF InStep, FirstPart
  <2> QED
    BY <1>2, <1>3, <2>1, <2>2, <2>3, <2>4, CallSteps
<1>4. CASE Serve(s)
  <2>1. CASE \E batch \in Batches(call[s]) : Answered(s, "ok", batch)
    BY <1>1, <1>3, <2>1, BatchesKnown
  <2>2. CASE Answered(s, "denied", {})
    BY <1>3, <2>2
  <2> QED
    BY <1>4, <2>1, <2>2 DEF Serve
<1>5. CASE Break(s)
  BY <1>3, <1>5 DEF Break
<1> QED
  BY <1>4, <1>5

-----------------------------------------------------------------------------
(* Answers land.                                                           *)

\* The answer to a poll in step with the transcript follows what is in it.
LEMMA BatchFollows ==
  ASSUME WebInv, NEW s \in Slots, call[s].kind = "poll", InStep(call[s]), ~straddled,
         call[s].stage = "answered", call[s].answer = "ok",
         NEW last \in call[s].batch, \A j \in call[s].batch : j <= last
  PROVE  /\ last > lastID
         /\ InOrder(messages \o Ascending(call[s].batch),
                    {i \in Readable(pair, 0) : i <= last})
<1> DEFINE batch == call[s].batch
           before == {i \in Readable(pair, 0) : i <= lastID}
<1>1. /\ log \subseteq Message /\ lastID \in 0..MaxId /\ messages \in Seq(1..MaxId)
      /\ batch \subseteq Ids /\ Ids \subseteq 1..MaxId
      /\ InOrder(messages, before)
  BY ReadableIds DEF WebInv, TypeOK, Exact
<1>2. PICK l \in batch : batch = {i \in Readable(pair, lastID) : i <= l}
  BY DEF InStep, FirstPart
<1>3. l = last
  <2>1. l \in 1..MaxId /\ last \in 1..MaxId
    BY <1>1
  <2>2. last <= l /\ l <= last
    BY <1>2
  <2> QED
    BY <2>1, <2>2
<1>4. Readable(pair, lastID) = {i \in Readable(pair, 0) : i > lastID}
  BY <1>1, ReadableFromStart
<1>5. \A i \in Readable(pair, 0) : i \in 1..MaxId
  BY <1>1, ReadableIds
<1>6. batch = {i \in Readable(pair, 0) : i > lastID /\ i <= last} /\ last > lastID
  BY <1>2, <1>3, <1>4
<1> HIDE DEF batch
<1>7. Ascending(batch) \in Seq(1..MaxId) /\ InOrder(Ascending(batch), batch)
  BY <1>1, AscendingIsInOrder
<1>8. \A i \in before, j \in batch : i < j
  BY <1>1, <1>5, <1>6
<1>9. before \union batch = {i \in Readable(pair, 0) : i <= last}
  <2>1. last \in 1..MaxId
    BY <1>1 DEF batch
  <2>2. \A i \in Readable(pair, 0) : i <= last <=> (i <= lastID \/ (i > lastID /\ i <= last))
    BY <1>1, <1>5, <1>6, <2>1
  <2> QED
    BY <1>6, <2>2
<1> HIDE DEF before
<1>10. InOrder(messages \o Ascending(batch), before \union batch)
  BY <1>1, <1>7, <1>8, InOrderConcat
<1> QED
  BY <1>6, <1>9, <1>10 DEF batch

LEMMA WebInvPollLands ==
  ASSUME WebInv, NEW s \in Slots, PollLands(s)
  PROVE  WebInv'
<1> DEFINE batch == call[s].batch
<1>1. /\ call[s].kind = "poll" /\ call[s].stage = "answered" /\ call[s].answer = "ok"
      /\ polling' = FALSE /\ call' = [call EXCEPT ![s] = Free]
      /\ UNCHANGED <<authorized, log, phase, pair, named, straddled>>
      /\ messages' = messages \o Ascending(batch)
  BY DEF PollLands, Landing, Done, serverVars
<1>2. \/ batch = {} /\ lastID' = lastID
      \/ \E i \in batch : /\ \A j \in batch : j <= i
                          /\ lastID' = IF i > lastID THEN i ELSE lastID
  BY DEF PollLands
<1>3. /\ log \subseteq Message /\ lastID \in 0..MaxId /\ messages \in Seq(1..MaxId)
      /\ batch \subseteq Ids /\ Ids \subseteq 1..MaxId /\ (lastID = 0 \/ lastID \in Ids)
  BY ReadableIds DEF WebInv, TypeOK
<1>4. Ascending(batch) \in Seq(1..MaxId) /\ InOrder(Ascending(batch), batch)
  BY <1>3, AscendingIsInOrder
<1>5. messages' \in Seq(1..MaxId)
  <2> DEFINE S == 1..MaxId
             a == Ascending(batch)
  <2>1. messages \in Seq(S) /\ a \in Seq(S) /\ messages' = messages \o a
    BY <1>1, <1>3, <1>4
  <2> HIDE DEF S, a
  <2>2. messages' \in Seq(S)
    BY <2>1, ConcatProperties
  <2> QED
    BY <2>2 DEF S
<1>6. lastID' \in 0..MaxId /\ (lastID' = 0 \/ lastID' \in Ids)
  <2>1. lastID' = lastID \/ lastID' \in batch
    BY <1>2
  <2>2. 1..MaxId \subseteq 0..MaxId
    BY BoundsAssumption
  <2> HIDE DEF batch
  <2> QED
    BY <1>3, <2>1, <2>2
<1>7. ASSUME ~straddled PROVE Exact'
  <2>1. InStep(call[s]) /\ InOrder(messages, {i \in Readable(pair, 0) : i <= lastID})
    BY <1>1, <1>7 DEF WebInv, Exact
  <2>2. InOrder(messages', {i \in Readable(pair, 0) : i <= lastID'})
    <3>1. CASE batch = {} /\ lastID' = lastID
      <4>1. InOrder(messages \o Ascending(batch),
                    {i \in Readable(pair, 0) : i <= lastID} \union batch)
        BY <1>3, <1>4, <2>1, <3>1, InOrderConcat
      <4> QED
        BY <1>1, <3>1, <4>1
    <3>2. ASSUME NEW last \in batch, \A j \in batch : j <= last,
                 lastID' = IF last > lastID THEN last ELSE lastID
          PROVE  InOrder(messages', {i \in Readable(pair, 0) : i <= lastID'})
      BY <1>1, <1>7, <2>1, <3>2, BatchFollows
    <3> QED
      BY <1>2, <3>1, <3>2
  <2> QED
    BY <1>1, <2>2 DEF Exact, Readable
<1> HIDE DEF batch
<1> QED
  BY <1>1, <1>5, <1>6, <1>7, PollEnds

LEMMA WebInvPollFails ==
  ASSUME WebInv, NEW s \in Slots, PollFails(s)
  PROVE  WebInv'
<1>1. /\ call[s].kind = "poll" /\ polling' = FALSE /\ call' = [call EXCEPT ![s] = Free]
      /\ phase' \in {phase, "denied"}
      /\ UNCHANGED <<authorized, log, pair, named, lastID, messages, straddled>>
  BY DEF PollFails, Landing, Done, serverVars
<1>2. ~straddled => Exact'
  BY <1>1 DEF WebInv, Exact, Readable
<1>3. /\ messages' \in Seq(1..MaxId) /\ lastID' \in 0..MaxId
      /\ (lastID' = 0 \/ lastID' \in Ids)
  BY <1>1 DEF WebInv, TypeOK
<1> QED
  BY <1>1, <1>2, <1>3, PollEnds

\* The other calls: none of them is a poll, and only a message that was sent and a
\* name that was saved are followed by a call.
LEMMA WebInvLands ==
  ASSUME WebInv, NEW s \in Slots, ChatLands(s) \/ Fails(s) \/ SendLands(s) \/ NameLands(s)
  PROVE  WebInv'
<1>1. /\ call[s].kind \in {"chat", "send", "name"} /\ phase # "starting"
      /\ UNCHANGED <<authorized, log, pair, lastID, messages, straddled>>
      /\ phase' \in {"starting", "ready", "denied", "broken"} /\ phase' # "starting"
      /\ named' \in BOOLEAN
  <2>1. call[s].kind \in {"chat", "send", "name"}
    BY DEF ChatLands, Fails, SendLands, NameLands, Landing
  <2>2. phase # "starting"
    BY <2>1 DEF WebInv
  <2>3. /\ UNCHANGED <<authorized, log, pair, lastID, messages, straddled>>
        /\ phase' \in {phase, "ready", "denied"} /\ (named' = named \/ named' \in BOOLEAN)
    BY DEF ChatLands, Fails, SendLands, NameLands, serverVars, appVars
  <2> QED
    BY <2>1, <2>2, <2>3 DEF WebInv, TypeOK
<1>2. CASE call' = [call EXCEPT ![s] = Free] /\ polling' = polling
  BY <1>1, <1>2, FreeTypes, CallGoesOn
<1>3. CASE SendLands(s) /\ ~polling
  BY <1>1, <1>3, PollBegins DEF SendLands, serverVars
<1>4. CASE NameLands(s)
  <2> DEFINE c == Made("chat", 0)
  <2>1. 0 \in 0..MaxId /\ "chat" \in Kinds
    BY BoundsAssumption DEF Kinds
  <2>2. call' = [call EXCEPT ![s] = c] /\ polling' = polling
    BY <1>4 DEF NameLands, appVars
  <2>3. c \in Calls /\ c.kind = "chat" /\ c.batch = {}
    BY <2>1, FreeTypes
  <2> HIDE DEF c
  <2> QED
    BY <1>1, <2>2, <2>3, CallGoesOn
<1> QED
  BY <1>2, <1>3, <1>4 DEF ChatLands, Fails, SendLands, Done

-----------------------------------------------------------------------------
(* The invariant is inductive.                                             *)

LEMMA WebInvInit == Init => WebInv
<1> SUFFICES ASSUME Init PROVE WebInv
  OBVIOUS
<1>1. \A s \in Slots : call[s].kind = "none" /\ call[s].batch = {}
  BY FreeTypes DEF Init
<1>2. TypeOK
  <2>1. 1 \in Keys /\ 0 \in 0..MaxId /\ messages \in Seq(1..MaxId)
    BY BoundsAssumption DEF Init, Keys
  <2>2. call \in [Slots -> Calls]
    BY FreeTypes DEF Init
  <2>3. polling = (\E s \in Slots : call[s].kind = "poll")
    BY <1>1 DEF Init
  <2> QED
    BY <2>1, <2>2, <2>3 DEF Init, TypeOK
<1>3. Exact
  <2>1. {i \in Readable(pair, 0) : i <= 0} = {}
    BY <1>2, NothingReadable DEF TypeOK
  <2> QED
    BY <2>1, NothingInOrder DEF Exact, Init
<1> QED
  BY <1>1, <1>2, <1>3 DEF Init, WebInv

LEMMA WebInvNext == WebInv /\ [Next]_vars => WebInv'
<1> SUFFICES ASSUME WebInv, [Next]_vars PROVE WebInv'
  OBVIOUS
<1>1. CASE UNCHANGED vars
  BY <1>1 DEF vars, serverVars, appVars, WebInv, TypeOK, Ids, Exact, InStep, FirstPart, Readable
<1> QED
  BY <1>1, WebInvServer, WebInvLoadKeys, WebInvNewKey, WebInvReload, WebInvStarts, WebInvSigns,
     WebInvAnswers, WebInvPollLands, WebInvPollFails, WebInvLands
  DEF Next

-----------------------------------------------------------------------------
(* What a straddled transcript is still good for.                          *)

\* Messages that are addressed to a key this browser has had.
Own(ids) ==
  \A i \in ids : \E m \in log : m.id = i /\ m.readers \intersect (1..pair) # {}

\* A call is signed with such a key and answered with such messages; a poll asks no
\* earlier than the cursor and brings only later ones.
OwnCall(c) ==
  /\ c.cred <= pair
  /\ c.kind = "poll" => c.since >= lastID /\ \A i \in c.batch : i > c.since
  /\ Own(c.batch)

\* The inductive invariant of TranscriptIsOwn, beside WebInv.
OwnInv ==
  /\ TranscriptIsOwn
  /\ \A i \in Range(messages) : i <= lastID
  /\ \A s \in Slots : OwnCall(call[s])

LEMMA OwnNothing == Own({}) /\ Range(<<>>) = {} /\ InOrder(<<>>, {})
BY NothingInOrder DEF Own, Range

\* Messages stay, and so do the keys.
LEMMA OwnStays ==
  ASSUME WebInv, NEW ids, Own(ids), log \subseteq log', pair' \in Keys, pair <= pair'
  PROVE  Own(ids)'
<1>1. 1..pair \subseteq 1..pair'
  BY DEF WebInv, TypeOK, Keys
<1> QED
  BY <1>1 DEF Own

LEMMA OwnFree == 0 <= pair => OwnCall(Free)
BY DEF OwnCall, Free, Own

LEMMA OwnMade ==
  ASSUME WebInv, NEW kind \in Kinds, NEW since \in 0..MaxId, kind = "poll" => since >= lastID
  PROVE  OwnCall(Made(kind, since))
<1>1. /\ Made(kind, since).kind = kind /\ Made(kind, since).since = since
      /\ Made(kind, since).batch = {} /\ Made(kind, since).cred = 0
  BY FreeTypes DEF Made, Free
<1>2. 0 <= pair
  BY DEF WebInv, TypeOK, Keys
<1> QED
  BY <1>1, <1>2 DEF OwnCall, Own

\* The server gets on, or the key is loaded.
LEMMA OwnGrows ==
  ASSUME WebInv, OwnInv, log \subseteq log', pair' \in Keys, pair <= pair',
         UNCHANGED <<lastID, messages, call>>
  PROVE  OwnInv'
<1>1. Own(Range(messages))' /\ \A s \in Slots : Own(call[s].batch)'
  <2>1. Own(Range(messages)) /\ \A s \in Slots : Own(call[s].batch)
    BY DEF OwnInv, TranscriptIsOwn, Own, OwnCall
  <2> QED
    BY <2>1, OwnStays
<1>2. TranscriptIsOwn'
  BY <1>1 DEF OwnInv, TranscriptIsOwn, Own, InOrder
<1>3. ASSUME NEW s \in Slots PROVE OwnCall(call[s])'
  <2>1. call[s].cred <= pair'
    BY DEF OwnInv, OwnCall, WebInv, TypeOK, Calls, Keys
  <2>2. call[s].kind = "poll" => call[s].since >= lastID /\ \A i \in call[s].batch : i > call[s].since
    BY DEF OwnInv, OwnCall
  <2> QED
    BY <1>1, <2>1, <2>2 DEF OwnCall
<1> QED
  BY <1>2, <1>3 DEF OwnInv

\* One call changes, and the transcript does not.
LEMMA OwnCallGoesOn ==
  ASSUME WebInv, OwnInv, NEW s \in Slots, NEW c, OwnCall(c),
         call' = [call EXCEPT ![s] = c],
         UNCHANGED <<log, pair, lastID, messages>>
  PROVE  OwnInv'
<1>1. \A u \in Slots : call'[u] = IF u = s THEN c ELSE call[u]
  BY DEF WebInv, TypeOK
<1>2. \A u \in Slots : OwnCall(call'[u])
  BY <1>1 DEF OwnInv
<1>3. \A u \in Slots : OwnCall(call[u])'
  BY <1>2 DEF OwnCall, Own
<1> QED
  BY <1>3 DEF OwnInv, TranscriptIsOwn

\* App begins a transcript.
LEMMA OwnBegins ==
  ASSUME WebInv, messages' = <<>>, lastID' = 0, UNCHANGED log,
         \A s \in Slots : OwnCall(call[s])'
  PROVE  OwnInv'
BY OwnNothing DEF OwnInv, TranscriptIsOwn

LEMMA OwnNewKey ==
  ASSUME WebInv, OwnInv, NewKey
  PROVE  OwnInv'
<1>1. /\ UNCHANGED <<log, call>> /\ pair' = pair + 1 /\ pair < MaxKey
      /\ messages' = <<>> /\ lastID' = 0
  BY DEF NewKey, serverVars
<1>2. pair \in Keys /\ pair' \in Keys /\ pair <= pair'
  BY <1>1, BoundsAssumption DEF WebInv, TypeOK, Keys
<1>3. ASSUME NEW s \in Slots PROVE OwnCall(call[s])'
  <2>1. call[s] \in Calls /\ OwnCall(call[s])
    BY DEF WebInv, TypeOK, OwnInv
  <2>2. Own(call[s].batch)'
    BY <1>1, <1>2, <2>1, OwnStays DEF OwnCall
  <2>3. call[s].cred <= pair' /\ call[s].since >= 0
    BY <1>1, <1>2, <2>1 DEF OwnCall, Calls, Keys
  <2> QED
    BY <1>1, <2>1, <2>2, <2>3 DEF OwnCall
<1> QED
  BY <1>1, <1>3, OwnBegins

LEMMA OwnReload ==
  ASSUME WebInv, Reload
  PROVE  OwnInv'
<1>1. /\ UNCHANGED <<log, pair>> /\ messages' = <<>> /\ lastID' = 0
      /\ call' = [s \in Slots |-> Free]
  BY DEF Reload, serverVars
<1>2. Free.cred = 0 /\ Free.kind # "poll" /\ Free.batch = {} /\ 0 <= pair
  BY DEF Free, WebInv, TypeOK, Keys
<1>3. ASSUME NEW s \in Slots PROVE OwnCall(call[s])'
  <2>1. call'[s] = Free
    BY <1>1
  <2> QED
    BY <1>1, <1>2, <2>1 DEF OwnCall, Own
<1> QED
  BY <1>1, <1>3, OwnBegins

LEMMA OwnStarts ==
  ASSUME WebInv, OwnInv, NEW s \in Slots, StartPoll(s) \/ Refresh(s) \/ Retry(s) \/ Act(s)
  PROVE  OwnInv'
<1>1. PICK kind \in Kinds, since \in 0..MaxId :
        /\ call' = [call EXCEPT ![s] = Made(kind, since)]
        /\ kind = "poll" => since >= lastID
  <2>1. 0 \in 0..MaxId /\ lastID \in 0..MaxId /\ lastID >= lastID
    BY BoundsAssumption DEF WebInv, TypeOK
  <2>2. CASE StartPoll(s)
    BY <2>1, <2>2 DEF StartPoll, Kinds
  <2>3. CASE Refresh(s) \/ Retry(s) \/ Act(s)
    BY <2>1, <2>3 DEF Refresh, Retry, Act, Start, Kinds
  <2> QED
    BY <2>2, <2>3
<1>2. UNCHANGED <<log, pair, lastID, messages>>
  BY DEF StartPoll, Refresh, Retry, Act, Start, serverVars, appVars
<1> QED
  BY <1>1, <1>2, OwnMade, OwnCallGoesOn

LEMMA OwnSigns ==
  ASSUME WebInv, OwnInv, NEW s \in Slots, ReadKey(s) \/ Sign(s)
  PROVE  OwnInv'
<1>1. /\ call[s] \in Calls /\ call \in [Slots -> Calls] /\ OwnCall(call[s]) /\ pair \in Keys
  BY DEF WebInv, TypeOK, OwnInv
<1>2. UNCHANGED <<log, pair, lastID, messages>>
  BY DEF ReadKey, Sign, serverVars, appVars
<1>3. PICK c \in Calls :
        /\ call' = [call EXCEPT ![s] = c]
        /\ c.kind = call[s].kind /\ c.batch = call[s].batch /\ c.since = call[s].since
        /\ c.cred \in {pair, call[s].cred}
  <2>1. pair \in 0..MaxKey
    BY <1>1 DEF Keys
  <2>2. CASE ReadKey(s)
    <3> DEFINE c == [call[s] EXCEPT !.stage = "keyed", !.cred = pair]
    <3>1. c \in Calls /\ call' = [call EXCEPT ![s] = c]
      BY <1>1, <2>1, <2>2 DEF ReadKey, Calls
    <3>2. /\ c.kind = call[s].kind /\ c.batch = call[s].batch /\ c.since = call[s].since
          /\ c.cred = pair
      BY <1>1 DEF Calls
    <3> HIDE DEF c
    <3> QED
      BY <3>1, <3>2
  <2>3. CASE Sign(s)
    <3> DEFINE c == [call[s] EXCEPT !.stage = "sent", !.sig = pair]
    <3>1. c \in Calls /\ call' = [call EXCEPT ![s] = c]
      BY <1>1, <2>1, <2>3 DEF Sign, Calls
    <3>2. /\ c.kind = call[s].kind /\ c.batch = call[s].batch /\ c.since = call[s].since
          /\ c.cred = call[s].cred
      BY <1>1 DEF Calls
    <3> HIDE DEF c
    <3> QED
      BY <3>1, <3>2
  <2> QED
    BY <2>2, <2>3
<1>4. pair <= pair
  BY <1>1 DEF Keys
<1>5. OwnCall(c)
  BY <1>1, <1>3, <1>4 DEF OwnCall
<1> QED
  BY <1>2, <1>3, <1>5, OwnCallGoesOn

\* The server answers with what the key of the request may read after its id.
LEMMA OwnAnswers ==
  ASSUME WebInv, OwnInv, NEW s \in Slots, Serve(s) \/ Break(s)
  PROVE  OwnInv'
<1>1. /\ call[s] \in Calls /\ call \in [Slots -> Calls] /\ OwnCall(call[s])
      /\ log \subseteq Message /\ pair \in Keys
  BY DEF WebInv, TypeOK, OwnInv
<1>2. UNCHANGED <<log, pair, lastID, messages>>
  BY DEF Serve, Break, serverVars, appVars
<1>3. PICK answer \in {"ok", "denied", "error"}, batch \in Batches(call[s]) \union {{}} :
        Answered(s, answer, batch)
  BY DEF Serve, Break
<1>4. \A i \in batch : i \in Readable(call[s].cred, call[s].since)
  BY <1>3 DEF Batches
<1>5. ASSUME NEW i \in batch
      PROVE  i > call[s].since /\ \E m \in log : m.id = i /\ m.readers \intersect (1..pair) # {}
  <2>1. PICK m \in log : m.id = i /\ call[s].cred \in m.readers /\ m.id > call[s].since
    BY <1>4 DEF Readable
  <2>2. call[s].cred \in 1..pair
    BY <1>1, <2>1 DEF OwnCall, Message, Keys
  <2> QED
    BY <2>1, <2>2
<1> DEFINE c == [call[s] EXCEPT !.stage = "answered", !.answer = answer, !.batch = batch]
<1>6. call' = [call EXCEPT ![s] = c]
  BY <1>1, <1>3 DEF Answered
<1>7. c.kind = call[s].kind /\ c.batch = batch /\ c.since = call[s].since /\ c.cred = call[s].cred
  BY <1>1 DEF Calls
<1> HIDE DEF c
<1>8. OwnCall(c)
  BY <1>1, <1>5, <1>7 DEF OwnCall, Own
<1> QED
  BY <1>2, <1>6, <1>8, OwnCallGoesOn

\* An answered poll brings later messages than there are, and there is no other poll.
LEMMA OwnPollLands ==
  ASSUME WebInv, OwnInv, NEW s \in Slots, PollLands(s)
  PROVE  OwnInv'
<1> DEFINE batch == call[s].batch
           shown == Range(messages)
<1>1. /\ call[s].kind = "poll" /\ call' = [call EXCEPT ![s] = Free]
      /\ UNCHANGED <<log, pair>>
      /\ messages' = messages \o Ascending(batch)
      /\ \/ batch = {} /\ lastID' = lastID
         \/ \E i \in batch : /\ \A j \in batch : j <= i
                             /\ lastID' = IF i > lastID THEN i ELSE lastID
  BY DEF PollLands, Landing, Done, serverVars
<1>2. /\ lastID \in 0..MaxId /\ messages \in Seq(1..MaxId) /\ batch \in SUBSET (1..MaxId)
      /\ shown \subseteq 1..MaxId /\ call[s].since \in 0..MaxId
  <2>1. call[s] \in Calls /\ messages \in Seq(1..MaxId) /\ lastID \in 0..MaxId
    BY DEF WebInv, TypeOK
  <2>2. batch \in SUBSET (1..MaxId) /\ call[s].since \in 0..MaxId
    BY <2>1 DEF Calls
  <2>3. shown \subseteq 1..MaxId
    BY <2>1, RangeOfSeq
  <2> QED
    BY <2>1, <2>2, <2>3
<1>3. /\ InOrder(messages, shown) /\ Own(shown) /\ Own(batch)
      /\ call[s].since >= lastID /\ \A i \in batch : i > call[s].since
      /\ \A i \in shown : i <= lastID
  BY <1>1 DEF OwnInv, TranscriptIsOwn, OwnCall, Own
<1>4. /\ \A u \in Slots \ {s} : call'[u] = call[u] /\ call[u].kind # "poll"
      /\ call'[s] = Free /\ 0 <= pair
  BY <1>1 DEF WebInv, TypeOK, Keys
<1> HIDE DEF batch, shown
<1>5. \A i \in shown, j \in batch : i < j
  BY <1>2, <1>3
<1>6. Ascending(batch) \in Seq(1..MaxId) /\ InOrder(Ascending(batch), batch)
  BY <1>2, AscendingIsInOrder
<1>7. InOrder(messages', shown \union batch)
  BY <1>1, <1>2, <1>3, <1>5, <1>6, InOrderConcat
<1>8. Range(messages') = shown \union batch
  BY <1>7 DEF InOrder
<1>9. TranscriptIsOwn'
  BY <1>1, <1>3, <1>7, <1>8 DEF TranscriptIsOwn, Own
<1>10. \A i \in shown \union batch : i <= lastID'
  BY <1>1, <1>2, <1>3
<1>11. ASSUME NEW u \in Slots PROVE OwnCall(call[u])'
  <2>1. CASE u = s
    <3>1. Free.cred = 0 /\ Free.kind # "poll" /\ Free.batch = {}
      BY DEF Free
    <3> QED
      BY <1>1, <1>4, <2>1, <3>1 DEF OwnCall, Own
  <2>2. CASE u # s
    BY <1>1, <1>4, <2>2 DEF OwnInv, OwnCall, Own
  <2> QED
    BY <2>1, <2>2
<1> QED
  BY <1>8, <1>9, <1>10, <1>11 DEF OwnInv

\* Other answers leave the transcript alone.
LEMMA OwnLands ==
  ASSUME WebInv, OwnInv, NEW s \in Slots,
         PollFails(s) \/ ChatLands(s) \/ Fails(s) \/ SendLands(s) \/ NameLands(s)
  PROVE  OwnInv'
<1>1. UNCHANGED <<log, pair, lastID, messages>>
  BY DEF PollFails, ChatLands, Fails, SendLands, NameLands, serverVars, appVars
<1>2. 0 \in 0..MaxId /\ lastID \in 0..MaxId /\ lastID >= lastID /\ 0 <= pair
  BY BoundsAssumption DEF WebInv, TypeOK, Keys
<1>3. CASE call' = [call EXCEPT ![s] = Free]
  BY <1>1, <1>2, <1>3, OwnFree, OwnCallGoesOn
<1>4. ASSUME NEW kind \in Kinds, NEW since \in 0..MaxId, kind = "poll" => since >= lastID,
             call' = [call EXCEPT ![s] = Made(kind, since)]
      PROVE  OwnInv'
  BY <1>1, <1>4, OwnMade, OwnCallGoesOn
<1> QED
  BY <1>2, <1>3, <1>4 DEF PollFails, ChatLands, Fails, SendLands, NameLands, Done, Kinds

LEMMA OwnInvInit == Init => OwnInv
<1> SUFFICES ASSUME Init PROVE OwnInv
  OBVIOUS
<1>1. \A s \in Slots : call[s] = Free
  BY DEF Init
<1>2. 0 <= pair
  BY DEF Init
<1>3. \A s \in Slots : OwnCall(call[s])
  BY <1>1, <1>2, OwnFree
<1> QED
  BY <1>3, OwnNothing DEF Init, OwnInv, TranscriptIsOwn

LEMMA OwnInvNext == WebInv /\ OwnInv /\ [Next]_vars => OwnInv'
<1> SUFFICES ASSUME WebInv, OwnInv, [Next]_vars PROVE OwnInv'
  OBVIOUS
<1>1. CASE UNCHANGED vars
  BY <1>1 DEF vars, serverVars, appVars, OwnInv, TranscriptIsOwn, OwnCall, Own
<1>2. pair \in Keys
  BY DEF WebInv, TypeOK
<1>3. CASE (\E k \in Keys : Authorize(k)) \/ (\E readers \in SUBSET Keys : Arrive(readers)) \/ LoadKeys
  <2>1. log \subseteq log' /\ UNCHANGED <<lastID, messages, call>>
    BY <1>3 DEF Authorize, Arrive, LoadKeys, serverVars, appVars
  <2>2. pair' \in Keys /\ pair <= pair'
    BY <1>2, <1>3 DEF Authorize, Arrive, LoadKeys, appVars, Keys
  <2> QED
    BY <2>1, <2>2, OwnGrows
<1> QED
  BY <1>1, <1>3, OwnNewKey, OwnReload, OwnStarts, OwnSigns, OwnAnswers, OwnPollLands, OwnLands
  DEF Next

-----------------------------------------------------------------------------
(* The theorems.                                                           *)

\* The inductive invariant holds in every reachable state of the application.
THEOREM WebInvariance == Spec => []WebInv
<1> QED
  BY WebInvInit, WebInvNext, PTL DEF Spec

\* Every variable has its type, and the guard says whether a poll is in flight
\* (pollMessages).
THEOREM TypeCorrect == Spec => []TypeOK
<1>1. WebInv => TypeOK
  BY DEF WebInv
<1> QED
  BY <1>1, WebInvariance, PTL

\* The transcript is what this key may read up to the cursor, in order and once, unless
\* a poll straddled the replacement of the key (pollMessages, newKey).
THEOREM TranscriptExact == Spec => []TranscriptIsExact
<1>1. WebInv => TranscriptIsExact
  BY DEF WebInv, Exact, TranscriptIsExact
<1> QED
  BY <1>1, WebInvariance, PTL

\* Whatever straddles the replacement of a key, nothing is shown twice, out of order or
\* without having been addressed to a key of this browser (pollMessages, newKey).
THEOREM TranscriptOwn == Spec => []TranscriptIsOwn
<1>1. OwnInv => TranscriptIsOwn
  BY DEF OwnInv
<1> QED
  BY <1>1, OwnInvInit, OwnInvNext, WebInvariance, PTL DEF Spec

=============================================================================
