-------------------------- MODULE PhoneClientProofs --------------------------
(***************************************************************************)
(* Proofs about the iOS app. PhoneClient polls as Polls says, so that what *)
(* is proved here of every polling client is proved of it, and only one of *)
(* its loops goes on; KeyStore's pairs are only mixed where a half could   *)
(* not be written. For any number of tasks, calls, servers and messages.   *)
(***************************************************************************)
EXTENDS PhoneClient, KeyStore, SequenceTheorems, TLAPS

\* Task t has a poll of the present transcript in flight.
Current(t) == at[t] = "polling" /\ srv[t] = server

\* The inductive invariant: beside the types and the two properties, where the
\* polls in flight stand to the cursor.
PollInv ==
  /\ PollTypes
  /\ at = [t \in Tasks |-> at[t]]
  /\ \A t \in Tasks : at[t] = "polling" => srv[t] <= server
  /\ \A t \in Tasks : Current(t) => since[t] <= lastID
  /\ ~overlapped => \A t, u \in Tasks : Current(t) /\ Current(u) => t = u
  /\ ~overlapped /\ ~straddled => \A t \in Tasks : Current(t) => since[t] = lastID
  /\ NothingMissed
  /\ RepeatsExplained

-----------------------------------------------------------------------------
(* What an answer appends.                                                 *)

\* An answer is a sequence of messages, as long as the cursor will move.
LEMMA AnswerIsSeq ==
  ASSUME PollTypes, NEW t \in Tasks, NEW n \in 0..MaxId, n >= since[t]
  PROVE  /\ Answer(t, n) \in Seq(Servers \X (1..MaxId))
         /\ Len(Answer(t, n)) = n - since[t]
         /\ \A i \in 1..n - since[t] : Answer(t, n)[i] = <<srv[t], since[t] + i>>
<1>1. since[t] \in 0..MaxId /\ srv[t] \in Servers /\ n - since[t] \in Nat
  BY MaxIdAssumption DEF PollTypes
<1>2. \A i \in 1..n - since[t] : <<srv[t], since[t] + i>> \in Servers \X (1..MaxId)
  <2> SUFFICES ASSUME NEW i \in 1..n - since[t] PROVE since[t] + i \in 1..MaxId
    BY <1>1
  <2> QED
    BY <1>1, MaxIdAssumption
<1>3. Answer(t, n) \in [1..n - since[t] -> Servers \X (1..MaxId)]
  BY <1>2 DEF Answer
<1>4. Answer(t, n) \in Seq(Servers \X (1..MaxId))
  BY <1>1, <1>3
<1>5. Len(Answer(t, n)) = n - since[t]
  BY <1>1, <1>3, <1>4
<1> QED
  BY <1>4, <1>5 DEF Answer

\* The transcript with an answer appended: what was there, and then what came.
LEMMA Appended ==
  ASSUME PollTypes, NEW t \in Tasks, NEW n \in 0..MaxId, Append_(t, n)
  PROVE  /\ messages' \in Seq(Servers \X (1..MaxId))
         /\ Len(messages') = Len(messages) + (n - since[t])
         /\ \A i \in DOMAIN messages : i \in DOMAIN messages' /\ messages'[i] = messages[i]
         /\ \A i \in 1..n - since[t] :
              /\ Len(messages) + i \in DOMAIN messages'
              /\ messages'[Len(messages) + i] = <<srv[t], since[t] + i>>
<1> DEFINE S == Servers \X (1..MaxId)
           a == Answer(t, n)
<1>1. n >= since[t] /\ n - since[t] \in Nat
  BY MaxIdAssumption DEF PollTypes, Append_
<1>2. a \in Seq(S) /\ Len(a) = n - since[t]
  BY <1>1, AnswerIsSeq
<1>3. \A i \in 1..n - since[t] : a[i] = <<srv[t], since[t] + i>>
  BY <1>1, AnswerIsSeq
<1>4. messages \in Seq(S) /\ messages' = messages \o a /\ Len(messages) \in Nat
  BY DEF PollTypes, Append_
<1> HIDE DEF a, S
<1>5. /\ messages' \in Seq(S)
      /\ Len(messages') = Len(messages) + Len(a)
      /\ \A i \in 1..Len(messages) + Len(a) :
           messages'[i] = IF i <= Len(messages) THEN messages[i] ELSE a[i - Len(messages)]
  BY <1>2, <1>4, ConcatProperties
<1>6. DOMAIN messages' = 1..Len(messages) + Len(a) /\ DOMAIN messages = 1..Len(messages)
  BY <1>4, <1>5
<1>7. ASSUME NEW i \in DOMAIN messages
      PROVE  i \in DOMAIN messages' /\ messages'[i] = messages[i]
  BY <1>1, <1>2, <1>4, <1>5, <1>6
<1>8. ASSUME NEW i \in 1..n - since[t]
      PROVE  /\ Len(messages) + i \in DOMAIN messages'
             /\ messages'[Len(messages) + i] = <<srv[t], since[t] + i>>
  <2>1. Len(messages) + i \in DOMAIN messages'
    BY <1>1, <1>2, <1>4, <1>6
  <2>2. messages'[Len(messages) + i] = a[i]
    BY <1>1, <1>2, <1>4, <1>5
  <2> QED
    BY <2>1, <2>2, <1>3
<1> QED
  BY <1>2, <1>5, <1>7, <1>8 DEF S

-----------------------------------------------------------------------------
(* Polls: the invariant is inductive.                                      *)

LEMMA PollInvInit == PollInit => PollInv
<1> SUFFICES ASSUME PollInit PROVE PollInv
  OBVIOUS
<1> USE MaxServerAssumption, MaxIdAssumption DEF PollInit
<1>1. 1 \in Servers /\ 0 \in 0..MaxId
  BY DEF Servers
<1>2. PollTypes
  <2>1. messages \in Seq(Servers \X (1..MaxId))
    OBVIOUS
  <2>2. since \in [Tasks -> 0..MaxId] /\ srv \in [Tasks -> Servers]
    BY <1>1
  <2> QED
    BY <1>1, <2>1, <2>2 DEF PollTypes
<1>3. \A t \in Tasks : at[t] = "idle" /\ srv[t] = 1
  OBVIOUS
<1>4. NothingMissed
  BY DEF NothingMissed
<1>5. RepeatsExplained
  BY DEF RepeatsExplained
<1> QED
  BY <1>2, <1>3, <1>4, <1>5 DEF PollInv, Current

\* A message arrives: the polls in flight and the transcript are as before.
LEMMA PollInvArrive == PollInv /\ Arrive => PollInv'
<1> SUFFICES ASSUME PollInv, Arrive PROVE PollInv'
  OBVIOUS
<1>1. UNCHANGED <<server, messages, lastID, straddled, at, since, srv, overlapped>>
  BY DEF Arrive, transcript, calls
<1>2. log' \in [Servers -> 0..MaxId]
  <2>1. log[server] + 1 \in 0..MaxId
    BY MaxIdAssumption DEF PollInv, PollTypes, Arrive
  <2> QED
    BY <2>1 DEF PollInv, PollTypes, Arrive
<1>3. PollTypes'
  BY <1>1, <1>2 DEF PollInv, PollTypes
<1>4. NothingMissed' /\ RepeatsExplained'
  BY <1>1 DEF PollInv, NothingMissed, RepeatsExplained
<1> QED
  BY <1>1, <1>3, <1>4 DEF PollInv, Current

\* A task moves to something that is not a poll: one poll in flight fewer, or none.
LEMMA MoveTypes ==
  ASSUME PollInv, NEW t \in Tasks, Move(t)
  PROVE  /\ since' \in [Tasks -> 0..MaxId] /\ srv' \in [Tasks -> Servers]
         /\ at' = [u \in Tasks |-> at'[u]] /\ at'[t] # "polling"
         /\ \A u \in Tasks \ {t} : at'[u] = at[u] /\ since'[u] = since[u] /\ srv'[u] = srv[u]
BY DEF PollInv, PollTypes, Move

LEMMA PollInvElsewhere ==
  ASSUME PollInv, NEW t \in Tasks, Elsewhere(t)
  PROVE  PollInv'
<1>1. UNCHANGED <<server, log, messages, lastID, straddled, overlapped>>
  BY DEF Elsewhere, transcript
<1>2. /\ since' \in [Tasks -> 0..MaxId] /\ srv' \in [Tasks -> Servers]
      /\ at' = [u \in Tasks |-> at'[u]] /\ at'[t] # "polling"
      /\ \A u \in Tasks \ {t} : at'[u] = at[u] /\ since'[u] = since[u] /\ srv'[u] = srv[u]
  BY MoveTypes DEF Elsewhere
<1>3. PollTypes'
  BY <1>1, <1>2 DEF PollInv, PollTypes
<1>4. NothingMissed' /\ RepeatsExplained'
  BY <1>1 DEF PollInv, NothingMissed, RepeatsExplained
<1>5. \A u \in Tasks : (at'[u] = "polling" => u # t) /\ (Current(u)' => Current(u) /\ u # t)
  BY <1>1, <1>2 DEF Current
<1> QED
  BY <1>1, <1>2, <1>3, <1>4, <1>5 DEF PollInv

\* A poll is asked: from the cursor, and overlapping if another one is in flight.
LEMMA PollInvAsks ==
  ASSUME PollInv, NEW t \in Tasks, Asks(t)
  PROVE  PollInv'
<1>1. UNCHANGED <<server, log, messages, lastID, straddled>>
  BY DEF Asks, transcript
<1>2. /\ at' = [at EXCEPT ![t] = "polling"]
      /\ srv' = [srv EXCEPT ![t] = server]
      /\ since' = [since EXCEPT ![t] = lastID]
      /\ overlapped' = (overlapped \/ \E u \in Tasks \ {t} : at[u] = "polling" /\ srv[u] = server)
  BY DEF Asks, AskPoll
<1>3. PollTypes'
  BY <1>1, <1>2 DEF PollInv, PollTypes
<1>4. NothingMissed' /\ RepeatsExplained'
  BY <1>1, <1>2 DEF PollInv, NothingMissed, RepeatsExplained
<1>5. \A u \in Tasks \ {t} : at'[u] = at[u] /\ srv'[u] = srv[u] /\ since'[u] = since[u]
  BY <1>2 DEF PollInv, PollTypes
<1>6. srv'[t] = server /\ since'[t] = lastID /\ server <= server /\ lastID <= lastID
  BY <1>2, MaxServerAssumption, MaxIdAssumption DEF PollInv, PollTypes, Servers
<1>7. ~overlapped' => ~overlapped /\ \A u \in Tasks \ {t} : ~Current(u)
  BY <1>2 DEF Current
<1>8. \A u \in Tasks \ {t} : Current(u)' <=> Current(u)
  BY <1>1, <1>5 DEF Current
<1> QED
  BY <1>1, <1>2, <1>3, <1>4, <1>5, <1>6, <1>7, <1>8 DEF PollInv

\* The transcript is begun anew: no poll in flight is of the new server.
LEMMA PollInvNewServer ==
  ASSUME PollInv, NEW t \in Tasks, NewServer(t)
  PROVE  PollInv'
<1> USE MaxServerAssumption, MaxIdAssumption
<1>1. /\ server' = server + 1 /\ server' \in Servers /\ log' = log
      /\ messages' = <<>> /\ lastID' = 0 /\ ~overlapped' /\ ~straddled'
  BY DEF NewServer, PollInv, PollTypes, Servers
<1>2. /\ since' \in [Tasks -> 0..MaxId] /\ srv' \in [Tasks -> Servers]
      /\ at' = [u \in Tasks |-> at'[u]] /\ at'[t] # "polling"
      /\ \A u \in Tasks \ {t} : at'[u] = at[u] /\ since'[u] = since[u] /\ srv'[u] = srv[u]
  BY MoveTypes DEF NewServer
<1>3. PollTypes'
  <2>1. overlapped' \in BOOLEAN /\ straddled' \in BOOLEAN
    BY DEF NewServer
  <2> QED
    BY <1>1, <1>2, <2>1 DEF PollInv, PollTypes
<1>4. NothingMissed'
  BY <1>1 DEF NothingMissed
<1>5. RepeatsExplained'
  BY <1>1 DEF RepeatsExplained
<1>6. ASSUME NEW u \in Tasks, at'[u] = "polling"
      PROVE  srv'[u] < server'
  <2>1. u # t /\ srv'[u] = srv[u] /\ at[u] = "polling"
    BY <1>2, <1>6
  <2>2. srv[u] <= server /\ server \in Int /\ srv[u] \in Int
    BY <2>1 DEF PollInv, PollTypes, Servers
  <2> QED
    BY <1>1, <2>1, <2>2
<1>7. \A u \in Tasks : ~Current(u)' /\ (at'[u] = "polling" => srv'[u] <= server')
  BY <1>1, <1>2, <1>6 DEF Current, Servers
<1> QED
  BY <1>2, <1>3, <1>4, <1>5, <1>7 DEF PollInv

\* An answer lands: of the server before only if it brings nothing, or the history
\* variable says so, and else it fills the gap between two cursors.
LEMMA PollInvLands ==
  ASSUME PollInv, NEW t \in Tasks, NEW n \in 0..MaxId, Lands(t, n)
  PROVE  PollInv'
<1> DEFINE S == Servers \X (1..MaxId)
<1> USE MaxServerAssumption, MaxIdAssumption
<1>1. /\ UNCHANGED <<server, log, overlapped>> /\ at[t] = "polling"
      /\ Append_(t, n) /\ PollTypes
  BY DEF Lands, PollInv
<1>2. /\ since' \in [Tasks -> 0..MaxId] /\ srv' \in [Tasks -> Servers]
      /\ at' = [u \in Tasks |-> at'[u]] /\ at'[t] # "polling"
      /\ \A u \in Tasks \ {t} : at'[u] = at[u] /\ since'[u] = since[u] /\ srv'[u] = srv[u]
  BY MoveTypes DEF Lands
<1>3. /\ messages' \in Seq(S)
      /\ Len(messages') = Len(messages) + (n - since[t])
      /\ \A i \in DOMAIN messages : i \in DOMAIN messages' /\ messages'[i] = messages[i]
      /\ \A i \in 1..n - since[t] :
           /\ Len(messages) + i \in DOMAIN messages'
           /\ messages'[Len(messages) + i] = <<srv[t], since[t] + i>>
  BY <1>1, Appended
<1>4. /\ n \in Int /\ lastID \in Int /\ since[t] \in Int /\ since[t] >= 0 /\ n >= since[t]
      /\ lastID >= 0 /\ lastID \in 0..MaxId
  BY <1>1 DEF PollTypes, Append_
<1>5. /\ lastID' \in 0..MaxId /\ lastID' >= lastID /\ (lastID' >= n \/ n = since[t])
      /\ lastID' = IF n > since[t] /\ n > lastID THEN n ELSE lastID
  BY <1>1, <1>4 DEF Append_, Larger
<1>6. straddled' = (straddled \/ (srv[t] # server /\ n > since[t]))
  BY <1>1 DEF Append_
<1>7. PollTypes'
  BY <1>1, <1>2, <1>3, <1>5, <1>6 DEF PollTypes
<1>8. \A u \in Tasks : (at'[u] = "polling" => u # t) /\ (Current(u)' => Current(u) /\ u # t)
  BY <1>1, <1>2 DEF Current
<1>9. \A u \in Tasks : Current(u)' => since'[u] <= lastID'
  <2> SUFFICES ASSUME NEW u \in Tasks, Current(u)' PROVE since'[u] <= lastID'
    OBVIOUS
  <2>1. since'[u] = since[u] /\ since[u] <= lastID /\ since[u] \in Int
    BY <1>1, <1>2, <1>8 DEF PollInv, PollTypes
  <2> QED
    BY <1>4, <1>5, <2>1
<1>10. ~straddled' => ~straddled /\ (n = since[t] \/ srv[t] = server)
  <2>1. n > since[t] \/ n = since[t]
    BY <1>4
  <2> QED
    BY <1>6, <2>1, Zenon
<1>11. n = since[t] => lastID' = lastID /\ messages' = messages
  <2> SUFFICES ASSUME n = since[t] PROVE lastID' = lastID /\ messages' = messages
    OBVIOUS
  <2>1. Len(messages') = Len(messages)
    BY <1>3, <1>4, <1>1 DEF PollTypes
  <2>2. messages \in Seq(S) /\ DOMAIN messages = 1..Len(messages)
    BY <1>1 DEF PollTypes
  <2>3. messages' = messages
    <3> HIDE DEF S
    <3> QED
      BY <1>3, <2>1, <2>2, SeqEqual
  <2> QED
    BY <1>5, <2>3
<1>12. NothingMissed'
  <2> SUFFICES ASSUME ~straddled', NEW k \in 1..lastID'
               PROVE  \E i \in DOMAIN messages' : messages'[i] = <<server, k>>
    BY <1>1 DEF NothingMissed
  <2>1. CASE k <= lastID
    <3>1. k \in 1..lastID /\ ~straddled
      BY <1>4, <1>10, <2>1
    <3>2. PICK i \in DOMAIN messages : messages[i] = <<server, k>>
      BY <3>1 DEF PollInv, NothingMissed
    <3> QED
      BY <1>3, <3>2
  <2>2. CASE k > lastID
    <3>1. lastID' = n /\ n > lastID /\ n > since[t]
      BY <1>4, <1>5, <2>2
    <3>2. Current(t)
      BY <1>1, <1>4, <1>10, <3>1 DEF Current
    <3>3. since[t] <= lastID
      BY <3>2 DEF PollInv
    <3> DEFINE i == k - since[t]
    <3>4. i \in 1..n - since[t] /\ since[t] + i = k
      BY <1>4, <2>2, <3>1, <3>3
    <3> HIDE DEF i
    <3>5. messages'[Len(messages) + i] = <<server, k>> /\ Len(messages) + i \in DOMAIN messages'
      BY <1>3, <3>2, <3>4 DEF Current
    <3> QED
      BY <3>5
  <2> QED
    BY <2>1, <2>2, <1>4, <1>5
<1>13. CASE ~overlapped /\ ~straddled'
  <2>1. RepeatsExplained'
    <3>1. CASE n = since[t]
      BY <1>1, <1>10, <1>11, <1>13, <3>1 DEF PollInv, RepeatsExplained
    <3>2. CASE n > since[t]
      <4>1. Current(t) /\ ~straddled /\ since[t] = lastID
        BY <1>1, <1>4, <1>10, <1>13, <3>2 DEF Current, PollInv
      <4>2. messages = [i \in 1..lastID |-> <<server, i>>] /\ Len(messages) = lastID
        <5>1. messages = [i \in 1..lastID |-> <<server, i>>]
          BY <1>13, <4>1 DEF PollInv, RepeatsExplained
        <5>2. DOMAIN messages = 1..lastID /\ DOMAIN messages = 1..Len(messages)
              /\ Len(messages) \in Nat
          BY <1>1, <5>1 DEF PollTypes
        <5> QED
          BY <1>4, <5>1, <5>2
      <4>3. lastID' = n /\ Len(messages') = n
        BY <1>3, <1>4, <1>5, <3>2, <4>1, <4>2
      <4>4. ASSUME NEW k \in 1..n
            PROVE  messages'[k] = <<server, k>>
        <5>1. CASE k <= lastID
          BY <1>3, <1>4, <4>2, <4>4, <5>1
        <5>2. CASE k > lastID
          <6> DEFINE i == k - since[t]
          <6>1. i \in 1..n - since[t] /\ since[t] + i = k /\ Len(messages) + i = k
            BY <1>4, <4>1, <4>2, <4>4, <5>2
          <6> HIDE DEF i
          <6> QED
            BY <1>3, <4>1, <6>1 DEF Current
        <5> QED
          BY <1>4, <4>4, <5>1, <5>2
      <4>5. messages' = [k \in 1..n |-> <<server, k>>]
        <5>1. messages' \in [1..n -> S]
          BY <1>3, <4>3
        <5> HIDE DEF S
        <5> QED
          BY <4>4, <5>1
      <4> QED
        BY <1>1, <4>3, <4>5 DEF RepeatsExplained
    <3> QED
      BY <1>4, <3>1, <3>2
  <2>2. \A u \in Tasks : Current(u)' => since'[u] = lastID'
    <3> SUFFICES ASSUME NEW u \in Tasks, Current(u)' PROVE since'[u] = lastID'
      OBVIOUS
    <3>1. Current(u) /\ u # t /\ since'[u] = since[u] /\ ~straddled
      BY <1>2, <1>8, <1>10, <1>13
    <3>2. since[u] = lastID
      BY <1>13, <3>1 DEF PollInv
    <3>3. n = since[t]
      <4>1. ~Current(t)
        BY <1>13, <3>1 DEF PollInv
      <4> QED
        BY <1>1, <1>10, <1>13, <4>1 DEF Current
    <3> QED
      BY <1>11, <3>1, <3>2, <3>3
  <2> QED
    BY <1>1, <1>2, <1>7, <1>8, <1>9, <1>12, <2>1, <2>2 DEF PollInv
<1>14. CASE overlapped \/ straddled'
  BY <1>1, <1>2, <1>7, <1>8, <1>9, <1>12, <1>14 DEF PollInv, RepeatsExplained
<1> QED
  BY <1>13, <1>14

\* One lemma per disjunct of PollNext, and the step that changes nothing.
LEMMA PollInvNext == PollInv /\ [PollNext]_pollVars => PollInv'
<1> SUFFICES ASSUME PollInv, [PollNext]_pollVars PROVE PollInv'
  OBVIOUS
<1>1. CASE UNCHANGED pollVars
  BY <1>1 DEF pollVars, transcript, calls, PollInv, PollTypes, Current,
     NothingMissed, RepeatsExplained
<1> QED
  BY <1>1, PollInvArrive, PollInvElsewhere, PollInvAsks, PollInvNewServer, PollInvLands
  DEF PollNext

-----------------------------------------------------------------------------
(* What holds of every client that polls in this way.                      *)

\* The inductive invariant holds in every reachable state of a polling client (poll).
THEOREM PollInvariance == PollSpec => []PollInv
<1> QED
  BY PollInvInit, PollInvNext, PTL DEF PollSpec

\* Nothing at or below the cursor is missing, whatever polls overlap, are answered in
\* another order or are lost (poll, appendMessage).
THEOREM PollsMissNothing == PollSpec => []NothingMissed
<1>1. PollInv => NothingMissed
  BY DEF PollInv
<1> QED
  BY <1>1, PollInvariance, PTL

\* Without overlap the transcript is the server's messages, once each and in order.
THEOREM PollsRepeatOnlyOverlapped == PollSpec => []RepeatsExplained
<1>1. PollInv => RepeatsExplained
  BY DEF PollInv
<1> QED
  BY <1>1, PollInvariance, PTL

\* The inductive invariant: only the user's tasks post and edit, and the handle is of
\* a loop that goes on.
PhoneInv ==
  /\ PollInv
  /\ TypeOK
  /\ \A t \in Loops : at[t] \notin {"posting", "editing"}
  /\ pollTask # NoTask => pollTask \in loop \ cancelled
  /\ OneLoop

-----------------------------------------------------------------------------
(* Every step is one of a client that polls.                               *)

\* Going on with something other than a poll is a move.
LEMMA GotoMoves ==
  ASSUME PollTypes, NEW t \in Tasks, NEW where, where # "polling", Goto(t, where),
         at = [u \in Tasks |-> at[u]]
  PROVE  Move(t)
<1>1. 0 \in 0..MaxId /\ 1 \in Servers
  BY MaxIdAssumption, MaxServerAssumption DEF Servers
<1> QED
  BY <1>1 DEF PollTypes, Goto, Move

LEMMA CallMoves ==
  ASSUME PollTypes, NEW t \in Tasks, NEW where, where # "polling", Call(t, where),
         at = [u \in Tasks |-> at[u]]
  PROVE  Move(t)
BY DEF PollTypes, Call, Move

\* Whatever the class does is a step of Polls, or leaves its variables alone.
LEMMA StepsArePolls == PhoneInv /\ [Next]_vars => [PollNext]_pollVars
<1> SUFFICES ASSUME PhoneInv, [Next]_vars PROVE [PollNext]_pollVars
  OBVIOUS
<1>1. PollTypes /\ at = [u \in Tasks |-> at[u]]
  BY DEF PhoneInv, PollInv
<1>2. CASE UNCHANGED vars
  BY <1>2 DEF vars
<1>3. CASE Stop
  BY <1>3 DEF Stop
<1>4. CASE MessageArrives
  BY <1>4 DEF MessageArrives, PollNext
<1>5. ASSUME NEW t \in Tasks, User(t) PROVE PollNext
  <2>1. CASE Start(t)
    <3>1. Move(t)
      BY <1>1, <2>1 DEF Start, Launch, Move, PollTypes
    <3> QED
      BY <2>1, <3>1 DEF Start, Elsewhere, PollNext
  <2>2. CASE Restart(t)
    <3>1. Move(t)
      BY <1>1, <2>2 DEF Restart, Launch, Move, PollTypes
    <3> QED
      BY <2>2, <3>1 DEF Restart, NewServer, PollNext
  <2>3. CASE Send(t)
    <3>1. Move(t)
      BY <1>1, <2>3, GotoMoves DEF Send
    <3> QED
      BY <2>3, <3>1 DEF Send, Elsewhere, PollNext, Goto
  <2>4. CASE Posted(t)
    <3>1. CASE AskPoll(t)
      BY <2>4, <3>1 DEF Posted, Asks, PollNext
    <3>2. CASE Goto(t, "idle")
      <4>1. Move(t)
        BY <1>1, <3>2, GotoMoves
      <4> QED
        BY <2>4, <3>2, <4>1 DEF Posted, Elsewhere, PollNext, Goto
    <3> QED
      BY <2>4, <3>1, <3>2 DEF Posted
  <2>5. CASE Edit(t)
    <3>1. Move(t)
      BY <1>1, <2>5, CallMoves DEF Edit
    <3> QED
      BY <2>5, <3>1 DEF Edit, Elsewhere, PollNext, Call
  <2>6. CASE Edited(t)
    <3>1. Move(t)
      BY <1>1, <2>6, CallMoves, GotoMoves DEF Edited
    <3> QED
      BY <2>6, <3>1 DEF Edited, Elsewhere, PollNext, Call, Goto
  <2> QED
    BY <1>5, <2>1, <2>2, <2>3, <2>4, <2>5, <2>6 DEF User
<1>6. ASSUME NEW t \in Tasks, KeyFails(t) PROVE PollNext
  <2>1. Move(t)
    BY <1>1, <1>6, GotoMoves DEF KeyFails
  <2> QED
    BY <1>6, <2>1 DEF KeyFails, Elsewhere, PollNext, Goto
<1>7. ASSUME NEW t \in Tasks, Loop(t) PROVE PollNext
  <2>1. CASE End(t)
    <3>1. Move(t)
      BY <1>1, <2>1, GotoMoves DEF End
    <3> QED
      BY <2>1, <3>1 DEF End, Elsewhere, PollNext, Goto
  <2>2. CASE Turn(t) \/ Refreshed(t) \/ RefreshFails(t)
    BY <2>2 DEF Turn, Refreshed, RefreshFails, Asks, PollNext
  <2>3. CASE RefreshTurn(t)
    <3>1. Move(t)
      BY <1>1, <2>3, CallMoves DEF RefreshTurn
    <3> QED
      BY <2>3, <3>1 DEF RefreshTurn, Elsewhere, PollNext, Call
  <2>4. CASE PollFails(t)
    <3>1. Move(t)
      BY <1>1, <2>4, GotoMoves DEF PollFails, After
    <3> QED
      BY <2>4, <3>1 DEF PollFails, Elsewhere, PollNext, Goto
  <2>5. ASSUME NEW n \in 0..MaxId, PollLands(t, n) PROVE PollNext
    <3>1. Move(t)
      BY <1>1, <2>5, GotoMoves DEF PollLands, After
    <3> QED
      BY <2>5, <3>1 DEF PollLands, Lands, PollNext, Goto
  <2> QED
    BY <1>7, <2>1, <2>2, <2>3, <2>4, <2>5 DEF Loop
<1> QED
  BY <1>2, <1>3, <1>4, <1>5, <1>6, <1>7 DEF Next

-----------------------------------------------------------------------------
(* PhoneClient: the invariant is inductive.                                *)

LEMMA PhoneInvInit == Init => PhoneInv
<1> SUFFICES ASSUME Init PROVE PhoneInv
  OBVIOUS
<1>1. PollInv
  BY PollInvInit DEF Init
<1>2. at = [t \in Tasks |-> "idle"] /\ \A t \in Loops : at[t] = "idle"
  BY LoopsAssumption DEF Init, PollInit
<1>3. TypeOK
  <2>1. at \in [Tasks -> {"idle", "keying", "refreshing", "polling",
                         "sleeping", "posting", "editing"}]
    BY <1>2
  <2>2. loop = {t \in Loops : at[t] # "idle"} /\ cancelled \subseteq loop
    BY <1>2 DEF Init
  <2>3. pollTask \in Loops \union {NoTask} /\ disowned \in BOOLEAN
    BY DEF Init
  <2>4. roster \in 0..MaxServer
    BY MaxServerAssumption DEF Init
  <2> QED
    BY <1>1, <2>1, <2>2, <2>3, <2>4 DEF PollInv, TypeOK
<1>4. OneLoop
  BY DEF Init, OneLoop
<1> QED
  BY <1>1, <1>2, <1>3, <1>4 DEF Init, PhoneInv

\* The control state apart from the transcript.
Control ==
  /\ at \in [Tasks -> {"idle", "keying", "refreshing", "polling",
                       "sleeping", "posting", "editing"}]
  /\ pollTask \in Loops \union {NoTask}
  /\ loop = {t \in Loops : at[t] # "idle"}
  /\ cancelled \subseteq loop
  /\ roster \in 0..MaxServer /\ disowned \in BOOLEAN
  /\ \A t \in Loops : at[t] \notin {"posting", "editing"}
  /\ pollTask # NoTask => pollTask \in loop \ cancelled
  /\ OneLoop

\* A task that goes on where it is no loop's affair, or a loop that goes on.
LEMMA ControlKept ==
  ASSUME Control, NEW t \in Tasks, NEW where \in {"refreshing", "polling", "sleeping"},
         t \in loop \/ t \notin Loops, at' = [at EXCEPT ![t] = where],
         UNCHANGED <<handle, roster>>
  PROVE  Control'
BY LoopsAssumption DEF Control, handle, OneLoop, Handle

LEMMA UsersTaskKept ==
  ASSUME Control, NEW t \in Tasks \ Loops,
         NEW where \in {"idle", "posting", "editing", "polling"},
         at' = [at EXCEPT ![t] = where],
         UNCHANGED handle, roster' \in 0..MaxServer
  PROVE  Control'
BY LoopsAssumption DEF Control, handle, OneLoop, Handle

\* A loop ends, and leaves the handle as it is or drops it.
LEMMA ControlEnds ==
  ASSUME Control, NEW t \in Tasks, at[t] \in {"keying", "sleeping"},
         at' = [at EXCEPT ![t] = "idle"],
         loop' = loop \ {t}, cancelled' = cancelled \ {t}, roster' = roster,
         \/ t \in cancelled /\ UNCHANGED <<pollTask, disowned>>
         \/ pollTask' = NoTask /\ disowned' = (disowned \/ pollTask \notin {t, NoTask})
  PROVE  Control'
<1>1. at' \in [Tasks -> {"idle", "keying", "refreshing", "polling",
                         "sleeping", "posting", "editing"}]
      /\ loop' = {u \in Loops : at'[u] # "idle"}
      /\ \A u \in Loops : at'[u] \notin {"posting", "editing"}
  BY LoopsAssumption DEF Control
<1>2. cancelled' \subseteq loop' /\ roster' \in 0..MaxServer /\ disowned' \in BOOLEAN
  BY DEF Control
<1>3. CASE t \in cancelled /\ UNCHANGED <<pollTask, disowned>>
  BY <1>1, <1>2, <1>3 DEF Control, OneLoop, Handle
<1>4. CASE pollTask' = NoTask /\ disowned' = (disowned \/ pollTask \notin {t, NoTask})
  <2>1. OneLoop'
    <3> SUFFICES ASSUME ~disowned' PROVE loop' \ cancelled' = {}
      BY DEF OneLoop
    <3>1. ~disowned /\ pollTask \in {t, NoTask}
      BY <1>4
    <3>2. loop \ cancelled \subseteq {t}
      BY <3>1 DEF Control, OneLoop, Handle
    <3> QED
      BY <3>2
  <2> QED
    BY <1>1, <1>2, <1>4, <2>1 DEF Control
<1> QED
  BY <1>3, <1>4

\* A task is launched, and the one whose handle was held is cancelled.
LEMMA ControlLaunches ==
  ASSUME Control, NEW t \in Tasks, Launch(t),
         cancelled' = cancelled \union Handle, disowned' = disowned, roster' \in 0..MaxServer
  PROVE  Control'
<1>1. t \in Loops /\ at[t] = "idle" /\ t \notin loop /\ t # NoTask
  BY LoopsAssumption, NoTaskAssumption DEF Launch, Control
<1>2. /\ at' = [at EXCEPT ![t] = "keying"] /\ pollTask' = t /\ loop' = loop \union {t}
  BY DEF Launch
<1>3. loop' = {u \in Loops : at'[u] # "idle"}
  BY <1>1, <1>2, LoopsAssumption DEF Control
<1>4. Handle \subseteq loop
  BY DEF Control, Handle
<1>5. cancelled' \subseteq loop' /\ t \notin cancelled'
  BY <1>1, <1>2, <1>4 DEF Control
<1>6. OneLoop'
  BY <1>1, <1>2 DEF Control, OneLoop, Handle
<1> QED
  BY <1>1, <1>2, <1>3, <1>5, <1>6, LoopsAssumption DEF Control

LEMMA ControlNext == Control /\ srv \in [Tasks -> Servers] /\ [Next]_vars => Control'
<1> SUFFICES ASSUME Control, srv \in [Tasks -> Servers], [Next]_vars PROVE Control'
  OBVIOUS
<1>1. CASE UNCHANGED vars
  BY <1>1 DEF vars, pollVars, calls, handle, Control, OneLoop, Handle
<1>2. CASE Stop
  <2>1. at' = at /\ pollTask' = NoTask /\ UNCHANGED <<loop, roster, disowned>>
        /\ cancelled' = cancelled \union {pollTask} /\ pollTask \in loop
    BY <1>2 DEF Stop, pollVars, calls, Handle, Control
  <2> QED
    BY <1>2, <2>1 DEF Control, OneLoop, Handle
<1>3. CASE MessageArrives
  BY <1>3 DEF MessageArrives, Arrive, calls, handle, Control, OneLoop, Handle
<1>4. ASSUME NEW t \in Tasks, User(t) PROVE Control'
  <2>1. CASE Start(t)
    <3>1. Handle = {}
      BY <2>1 DEF Start, Handle
    <3> QED
      BY <2>1, <3>1, ControlLaunches DEF Start, Control
  <2>2. CASE Restart(t)
    <3>1. 0 \in 0..MaxServer
      BY MaxServerAssumption
    <3> QED
      BY <2>2, <3>1, ControlLaunches DEF Restart
  <2>3. CASE Send(t)
    BY <2>3, UsersTaskKept DEF Send, Goto, Control
  <2>4. CASE Posted(t)
    <3>1. t \notin Loops
      BY <2>4 DEF Posted, Control
    <3> QED
      BY <2>4, <3>1, UsersTaskKept DEF Posted, Goto, AskPoll, Control
  <2>5. CASE Edit(t)
    BY <2>5, UsersTaskKept DEF Edit, Call, Control
  <2>6. CASE Edited(t)
    <3>1. t \notin Loops
      BY <2>6 DEF Edited, Control
    <3>2. roster' \in 0..MaxServer
      BY <2>6, MaxServerAssumption DEF Edited, Control, Servers
    <3> QED
      BY <2>6, <3>1, <3>2, UsersTaskKept DEF Edited, Goto, Call
  <2> QED
    BY <1>4, <2>1, <2>2, <2>3, <2>4, <2>5, <2>6 DEF User
<1>5. ASSUME NEW t \in Tasks, KeyFails(t) PROVE Control'
  BY <1>5, ControlEnds DEF KeyFails, Goto
<1>6. ASSUME NEW t \in Tasks, Loop(t) PROVE Control'
  <2>1. CASE End(t)
    BY <2>1, ControlEnds DEF End, Top, Goto
  <2>2. ASSUME ~End(t) PROVE t \in loop \/ t \notin Loops
    BY <1>6, <2>2 DEF Loop, Turn, RefreshTurn, Top, Refreshed, RefreshFails, PollLands,
       PollFails, Control
  <2>3. CASE Turn(t) \/ RefreshTurn(t)
    BY <2>1, <2>2, <2>3, ControlKept DEF Turn, RefreshTurn, AskPoll, Call
  <2>4. CASE RefreshFails(t)
    BY <2>1, <2>2, <2>4, ControlKept DEF RefreshFails, AskPoll
  <2>5. CASE Refreshed(t)
    <3>1. at' = [at EXCEPT ![t] = "polling"] /\ UNCHANGED handle /\ roster' \in 0..MaxServer
      BY <2>5, MaxServerAssumption DEF Refreshed, AskPoll, Servers
    <3>2. at[t] = "refreshing"
      BY <2>5 DEF Refreshed
    <3> QED
      BY <3>1, <3>2, LoopsAssumption DEF Control, handle, OneLoop, Handle
  <2>6. CASE PollFails(t) \/ \E n \in 0..MaxId : PollLands(t, n)
    <3>1. at' = [at EXCEPT ![t] = After(t)] /\ UNCHANGED <<handle, roster>>
          /\ at[t] = "polling"
      BY <2>6 DEF PollFails, PollLands, Goto
    <3>2. CASE t \in loop
      BY <3>1, <3>2, ControlKept DEF After
    <3>3. CASE t \notin loop
      <4>1. t \notin Loops
        BY <3>1, <3>3 DEF Control
      <4> QED
        BY <3>1, <3>3, <4>1, UsersTaskKept DEF After, Control
    <3> QED
      BY <3>2, <3>3
  <2> QED
    BY <1>6, <2>1, <2>3, <2>4, <2>5, <2>6 DEF Loop
<1> QED
  BY <1>1, <1>2, <1>3, <1>4, <1>5, <1>6 DEF Next

LEMMA PhoneInvNext == PhoneInv /\ [Next]_vars => PhoneInv'
<1> SUFFICES ASSUME PhoneInv, [Next]_vars PROVE PhoneInv'
  OBVIOUS
<1>1. PollInv'
  BY StepsArePolls, PollInvNext DEF PhoneInv
<1>2. Control /\ srv \in [Tasks -> Servers]
  BY DEF PhoneInv, TypeOK, Control, PollTypes
<1>3. Control'
  BY <1>2, ControlNext
<1> QED
  BY <1>1, <1>3 DEF PhoneInv, PollInv, TypeOK, Control

-----------------------------------------------------------------------------
(* The theorems about ChatClient.                                          *)

\* The inductive invariant holds in every reachable state of the iOS client.
THEOREM PhoneInvariance == Spec => []PhoneInv
<1> QED
  BY PhoneInvInit, PhoneInvNext, PTL DEF Spec

\* Type correctness, with which tasks are in the polling loop (start, run).
THEOREM PhoneTypeCorrect == Spec => []TypeOK
<1>1. PhoneInv => TypeOK
  BY DEF PhoneInv
<1> QED
  BY <1>1, PhoneInvariance, PTL

\* At most one loop goes on, and its handle is held, unless a run that found no key
\* has dropped it (start, stop, restart, run).
THEOREM OneLoopGoesOn == Spec => []OneLoop
<1>1. PhoneInv => OneLoop
  BY DEF PhoneInv
<1> QED
  BY <1>1, PhoneInvariance, PTL

\* ChatClient implements Polls: every await, cancellation and restart of it is a step
\* of a client that polls.
THEOREM PhonePolls == Spec => PollSpec
<1>1. Init => PollInit
  BY DEF Init
<1> QED
  BY <1>1, StepsArePolls, PhoneInvariance, PTL DEF Spec, PollSpec

\* So its transcript misses nothing, but for an answer of the server before (poll,
\* restart).
THEOREM PhoneMissesNothing == Spec => []NothingMissed
<1> QED
  BY PhonePolls, PollsMissNothing, PTL

\* And it shows nothing twice, but where polls have overlapped (poll, send).
THEOREM PhoneRepeatsOnlyOverlapped == Spec => []RepeatsExplained
<1> QED
  BY PhonePolls, PollsRepeatOnlyOverlapped, PTL

-----------------------------------------------------------------------------
(* KeyStore: whole pairs, but where a half could not be written.           *)

Halves == [private : 0..made, public : 0..made]

\* The store's types, and where an installation stands: its first half is written
\* before its second.
StoreTypes ==
  /\ made \in Nat
  /\ settings \in Halves /\ pair \in Halves
  /\ step \in {"idle", "writingPrivate", "writingPublic"}
  /\ step # "idle" => made # 0
  /\ step = "writingPublic" => settings.private = made
  /\ signing \in [Calls -> {"idle", "named", "signed"}]
  /\ signedAs \in [Calls -> [private : Nat, public : Nat]]
  /\ torn \in BOOLEAN

\* The halves that belong together when no installation has been cut in half: those
\* in memory, and those in the table until the next installation has written its first.
Together ==
  ~torn =>
    /\ pair.private = pair.public
    /\ step # "writingPublic" /\ settings.public # 0 => settings.private = settings.public

\* A call that no installation has overtaken uses the pair that is in memory; without
\* a pair in memory no call is under way.
UsesPair ==
  \A c \in Calls : signing[c] # "idle" =>
    /\ pair # None
    /\ c \notin overtaken =>
         /\ signedAs[c].public = pair.public
         /\ signing[c] = "signed" => signedAs[c].private = pair.private

StoreInv == StoreTypes /\ Together /\ UsesPair

LEMMA StoreInvInit == StoreInit => StoreInv
<1> SUFFICES ASSUME StoreInit PROVE StoreInv
  OBVIOUS
<1>1. None = [private |-> 0, public |-> 0] /\ 0 \in 0..0
  BY DEF None, Whole
<1>2. None \in [private : 0..0, public : 0..0] /\ None \in [private : Nat, public : Nat]
  BY <1>1
<1>3. StoreTypes
  BY <1>2 DEF StoreInit, StoreTypes, Halves
<1>4. Together
  BY <1>1 DEF StoreInit, Together
<1>5. UsesPair
  BY DEF StoreInit, UsesPair
<1> QED
  BY <1>3, <1>4, <1>5 DEF StoreInv

\* Steps that write or read the table: no call goes on.
LEMMA StoreInvStorage ==
  ASSUME StoreInv, Load \/ Create \/ Regenerate \/ WritePrivate \/ WritePublic \/ WriteFails
  PROVE  StoreInv'
<1> USE DEF StoreInv
<1>1. CASE Load
  <2>1. UNCHANGED <<settings, step, made, torn, signing, signedAs, overtaken>> /\ pair' = settings
    BY <1>1 DEF Load, signingVars
  <2>2. StoreTypes'
    BY <2>1 DEF StoreTypes, Halves
  <2>3. Together'
    BY <1>1, <2>1 DEF Load, Stored, Together
  <2>4. UsesPair'
    BY <1>1, <2>1 DEF Load, UsesPair
  <2> QED
    BY <2>2, <2>3, <2>4
<1>2. CASE Create \/ Regenerate
  <2>1. /\ UNCHANGED <<settings, pair, torn, signing, signedAs, overtaken>>
        /\ made' = made + 1 /\ step = "idle" /\ step' = "writingPrivate"
    BY <1>2 DEF Create, Regenerate, Generate, signingVars
  <2>2. StoreTypes'
    <3>1. made \in Nat /\ settings \in Halves /\ pair \in Halves
      BY DEF StoreTypes
    <3>2. \A n : n \in 0..made => n \in 0..made + 1
      BY <3>1
    <3>3. settings' \in Halves' /\ pair' \in Halves'
      BY <2>1, <3>1, <3>2 DEF Halves
    <3> QED
      BY <2>1, <3>1, <3>3 DEF StoreTypes
  <2>3. Together' /\ UsesPair'
    BY <2>1 DEF Together, UsesPair
  <2> QED
    BY <2>2, <2>3
<1>3. CASE WritePrivate
  <2>1. /\ UNCHANGED <<pair, made, torn, signing, signedAs, overtaken>>
        /\ settings' = [settings EXCEPT !.private = made]
        /\ step = "writingPrivate" /\ step' = "writingPublic"
    BY <1>3 DEF WritePrivate, signingVars
  <2>2. StoreTypes'
    <3>1. made \in Nat /\ made \in 0..made /\ settings \in Halves
      BY DEF StoreTypes
    <3>2. settings' \in Halves /\ settings'.private = made
      BY <2>1, <3>1 DEF Halves
    <3> QED
      BY <2>1, <3>2 DEF StoreTypes, Halves
  <2>3. Together' /\ UsesPair'
    BY <2>1 DEF Together, UsesPair
  <2> QED
    BY <2>2, <2>3
<1>4. CASE WritePublic
  <2>1. /\ UNCHANGED <<made, signing, signedAs>>
        /\ settings' = [settings EXCEPT !.public = made] /\ step' = "idle"
        /\ step = "writingPublic" /\ pair' = Whole(made) /\ torn' = FALSE
        /\ overtaken' = {c \in Calls : signing[c] # "idle"}
    BY <1>4 DEF WritePublic
  <2>2. pair' = [private |-> made, public |-> made]
    BY <2>1 DEF Whole
  <2>3. StoreTypes'
    <3>1. made \in Nat /\ made \in 0..made /\ settings \in Halves
      BY DEF StoreTypes
    <3>2. settings' \in Halves /\ pair' \in Halves
      BY <2>1, <2>2, <3>1 DEF Halves
    <3> QED
      BY <2>1, <3>2 DEF StoreTypes, Halves
  <2>4. Together'
    BY <2>1, <2>2 DEF StoreTypes, Together, Halves
  <2>5. pair' # None
    BY <2>1 DEF Whole, None, StoreTypes
  <2>6. UsesPair'
    BY <2>1, <2>5 DEF UsesPair
  <2> QED
    BY <2>3, <2>4, <2>6
<1>5. CASE WriteFails
  <2>1. /\ UNCHANGED <<settings, pair, made, signing, signedAs, overtaken>>
        /\ step # "idle" /\ step' = "idle" /\ torn' = (torn \/ CutInHalf)
    BY <1>5 DEF WriteFails, signingVars
  <2>2. StoreTypes'
    <3>1. torn' \in BOOLEAN
      BY <2>1 DEF CutInHalf, StoreTypes
    <3> QED
      BY <2>1, <3>1 DEF StoreTypes, Halves
  <2>3. Together'
    BY <2>1 DEF Together, CutInHalf
  <2>4. UsesPair'
    BY <2>1 DEF UsesPair
  <2> QED
    BY <2>2, <2>3, <2>4
<1> QED
  BY <1>1, <1>2, <1>3, <1>4, <1>5

LEMMA StoreInvRelaunch == ASSUME StoreInv, Relaunch PROVE StoreInv'
<1> USE DEF StoreInv
<1>1. /\ UNCHANGED <<settings, made>> /\ step' = "idle" /\ pair' = None
      /\ torn' = (torn \/ CutInHalf) /\ overtaken' = {}
      /\ signing' = [c \in Calls |-> "idle"] /\ signedAs' = [c \in Calls |-> None]
  BY DEF Relaunch
<1>2. None = [private |-> 0, public |-> 0]
  BY DEF None, Whole
<1>3. StoreTypes'
  <2>1. torn' \in BOOLEAN
    BY <1>1 DEF CutInHalf, StoreTypes
  <2> QED
    BY <1>1, <1>2, <2>1 DEF StoreTypes, Halves
<1>4. Together'
  BY <1>1, <1>2 DEF Together, CutInHalf
<1>5. UsesPair'
  BY <1>1 DEF UsesPair
<1> QED
  BY <1>3, <1>4, <1>5

\* Steps of a call: the store stays as it is.
LEMMA StoreInvCall ==
  ASSUME StoreInv, NEW c \in Calls, Name(c) \/ Sign(c) \/ Finish(c)
  PROVE  StoreInv'
<1> USE DEF StoreInv
<1>1. UNCHANGED <<settings, pair, step, made, torn>>
  BY DEF Name, Sign, Finish, storage
<1>2. /\ signing \in [Calls -> {"idle", "named", "signed"}]
      /\ signedAs \in [Calls -> [private : Nat, public : Nat]]
      /\ pair.private \in Nat /\ pair.public \in Nat
  BY DEF StoreTypes, Halves
<1>3. Together'
  BY <1>1 DEF Together
<1>4. CASE Name(c)
  <2>1. /\ pair # None /\ overtaken' = overtaken
        /\ signing' = [signing EXCEPT ![c] = "named"]
        /\ signedAs' = [signedAs EXCEPT ![c].public = pair.public]
    BY <1>4 DEF Name, Ready
  <2>2. StoreTypes'
    BY <1>1, <1>2, <2>1 DEF StoreTypes, Halves
  <2>3. UsesPair'
    BY <1>1, <1>2, <2>1 DEF UsesPair
  <2> QED
    BY <1>3, <2>2, <2>3
<1>5. CASE Sign(c)
  <2>1. /\ pair # None /\ overtaken' = overtaken /\ signing[c] = "named"
        /\ signing' = [signing EXCEPT ![c] = "signed"]
        /\ signedAs' = [signedAs EXCEPT ![c].private = pair.private]
    BY <1>5 DEF Sign, Ready
  <2>2. StoreTypes'
    BY <1>1, <1>2, <2>1 DEF StoreTypes, Halves
  <2>3. UsesPair'
    BY <1>1, <1>2, <2>1 DEF UsesPair
  <2> QED
    BY <1>3, <2>2, <2>3
<1>6. CASE Finish(c)
  <2>1. /\ overtaken' = overtaken \ {c}
        /\ signing' = [signing EXCEPT ![c] = "idle"]
        /\ signedAs' = [signedAs EXCEPT ![c] = None]
    BY <1>6 DEF Finish
  <2>2. None \in [private : Nat, public : Nat]
    BY DEF None, Whole
  <2>3. StoreTypes'
    BY <1>1, <1>2, <2>1, <2>2 DEF StoreTypes, Halves
  <2>4. UsesPair'
    BY <1>1, <1>2, <2>1 DEF UsesPair
  <2> QED
    BY <1>3, <2>3, <2>4
<1> QED
  BY <1>4, <1>5, <1>6

LEMMA StoreInvNext == StoreInv /\ [StoreNext]_storeVars => StoreInv'
<1> SUFFICES ASSUME StoreInv, [StoreNext]_storeVars PROVE StoreInv'
  OBVIOUS
<1>1. CASE UNCHANGED storeVars
  BY <1>1 DEF storeVars, signingVars, storage, StoreInv, StoreTypes, Halves, Together, UsesPair
<1> QED
  BY <1>1, StoreInvStorage, StoreInvRelaunch, StoreInvCall DEF StoreNext

\* The inductive invariant of the key store holds in every reachable state.
THEOREM StoreInvariance == StoreSpec => []StoreInv
<1> QED
  BY StoreInvInit, StoreInvNext, PTL DEF StoreSpec

\* The halves in memory, and in the table between two installations, belong together,
\* unless the replacement of a pair was cut in half (prepare, regenerate).
THEOREM PairsBelongTogether == StoreSpec => []PairExplained
<1>1. StoreInv => PairExplained
  BY DEF StoreInv, Together, PairExplained
<1> QED
  BY <1>1, StoreInvariance, PTL

\* A request names the key it is signed with, unless a pair was installed in between
\* or the stored one is torn (signed, regenerate).
THEOREM RequestsNameTheirKey == StoreSpec => []SignedExplained
<1>1. StoreInv => SignedExplained
  BY DEF StoreInv, Together, UsesPair, SignedExplained
<1> QED
  BY <1>1, StoreInvariance, PTL
==============================================================================
