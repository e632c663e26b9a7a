----------------------------- MODULE GateProofs -----------------------------
(***************************************************************************)
(* Proofs about Gate for any keys, replicas, requests and deliveries, any  *)
(* skew and any sweep interval.                                            *)
(***************************************************************************)
EXTENDS Gate, TLAPS

-----------------------------------------------------------------------------
(* The inductive invariant.                                                *)

\* A delivery is past its skew check with the clock that passed it, and past the
\* nonce check for good.
FreshInv ==
  /\ \A d \in Deliveries :
       pc[d] # "idle" => clock[d] - stamp[of[d]] \in -MaxSkew .. MaxSkew
  /\ \A d \in spent : pc[d] \in {"verifying", "looking", "recording"}

\* A spent nonce is in the cache until a sweep that comes more than MaxSkew after it.
EntryInv ==
  \A d \in spent :
    \/ <<of[d], clock[d]>> \in seen[at[d]]
    \/ lastSweep[at[d]] > clock[d] + MaxSkew

\* The command deletes a key only after it has inserted it.
ClearingInv == \A k \in Keys : admin[k] \in {"clearing", "done"} => k \in authorized

\* Why a delivery is about to record a key that is authorized by now: the command for
\* it has inserted the key since the delivery looked it up.
Caught(d) ==
  \/ admin[SignerOf(d)] = "failed"
  \/ admin[SignerOf(d)] \in {"clearing", "done"} /\ d \in overtaken

RecordingInv ==
  \A d \in Deliveries : Running(d, "recording") /\ SignerOf(d) \in authorized => Caught(d)

IInv ==
  /\ TypeOK /\ FreshInv /\ EntryInv /\ ClearingInv /\ RecordingInv
  /\ AcceptedOnce /\ TurnedAwayIsKnown /\ PendingExplained

-----------------------------------------------------------------------------

\* Empty caches and disjoint tables satisfy the invariant.
LEMMA IInvInit == Init => IInv
<1> SUFFICES ASSUME Init PROVE IInv
  OBVIOUS
<1>1. TypeOK
  BY TimesAssumption DEF Init, TypeOK, Ended
<1>2. FreshInv /\ EntryInv /\ ClearingInv /\ RecordingInv
  BY DEF Init, FreshInv, EntryInv, ClearingInv, RecordingInv, Running
<1>3. AcceptedOnce /\ TurnedAwayIsKnown /\ PendingExplained
  BY DEF Init, AcceptedOnce, TurnedAwayIsKnown, PendingExplained
<1> QED BY <1>1, <1>2, <1>3 DEF IInv

\* No step of a delivery but the nonce check changes what the cache invariants
\* are about, and the clock is only read before it.
LEMMA CacheKept ==
  ASSUME IInv, UNCHANGED <<cacheVars, requestVars>>,
         \A d \in spent : clock'[d] = clock[d]
  PROVE  EntryInv' /\ AcceptedOnce'
BY DEF IInv, EntryInv, AcceptedOnce, cacheVars, requestVars

\* The tables' invariants look at nothing else.
LEMMA TablesKept ==
  ASSUME IInv, UNCHANGED <<tableVars, requestVars>>
  PROVE  ClearingInv' /\ TurnedAwayIsKnown' /\ PendingExplained'
BY DEF IInv, ClearingInv, TurnedAwayIsKnown, PendingExplained, SignerOf, tableVars, requestVars

\* Nobody comes to be about to record unless it has just found its key unauthorized.
LEMMA RecordingKept ==
  ASSUME IInv, UNCHANGED <<tableVars, requestVars>>,
         \A d \in Deliveries :
           Running(d, "recording")' => Running(d, "recording") \/ SignerOf(d) \notin authorized
  PROVE  RecordingInv'
BY DEF IInv, RecordingInv, Caught, SignerOf, tableVars, requestVars

\* The clock moves on.
LEMMA TickStep == IInv /\ Tick => IInv'
<1> SUFFICES ASSUME IInv, Tick PROVE IInv'
  OBVIOUS
<1>1. TypeOK'
  BY TimesAssumption DEF IInv, TypeOK, Tick, cacheVars, tableVars, requestVars
<1>2. FreshInv'
  BY DEF IInv, FreshInv, Tick, cacheVars, requestVars
<1>3. UNCHANGED <<cacheVars, tableVars, requestVars>> /\ \A d \in spent : clock'[d] = clock[d]
  BY DEF Tick
<1>4. RecordingInv'
  BY <1>3, RecordingKept DEF Tick, Running
<1> QED BY <1>1, <1>2, <1>3, <1>4, CacheKept, TablesKept DEF IInv

\* Reading the clock and checking the skew.
LEMMA CheckFreshStep == ASSUME IInv, NEW d \in Deliveries, CheckFresh(d) PROVE IInv'
<1>1. TypeOK'
  BY DEF IInv, TypeOK, CheckFresh, Advance, Respond, Ended, cacheVars, tableVars, requestVars
<1>2. d \notin spent
  BY DEF IInv, FreshInv, CheckFresh, Running
<1>3. FreshInv'
  BY <1>2 DEF IInv, TypeOK, FreshInv, CheckFresh, Running, Advance, cacheVars, requestVars
<1>4. \A e \in spent : clock'[e] = clock[e]
  BY <1>2 DEF IInv, TypeOK, CheckFresh
<1>5. \A e \in Deliveries : Running(e, "recording")' => Running(e, "recording")
  BY DEF IInv, TypeOK, CheckFresh, Running, Advance, Respond
<1>6. UNCHANGED <<cacheVars, tableVars, requestVars>>
  BY DEF CheckFresh
<1>7. RecordingInv'
  BY <1>5, <1>6, RecordingKept
<1> QED BY <1>1, <1>3, <1>4, <1>6, <1>7, CacheKept, TablesKept DEF IInv

\* A sweep drops only entries that are more than MaxSkew behind it.
LEMMA SweptDrops ==
  ASSUME NEW p, NEW time, NEW e \in seen[p], e \notin Swept(p, time)
  PROVE  DueForSweep(p, time) /\ ~(time - e[2] <= MaxSkew)
BY DEF Swept

\* The nonce check: what it accepts now and what it accepted before.
LEMMA SpendNonceStep == ASSUME IInv, NEW d \in Deliveries, SpendNonce(d) PROVE IInv'
<1> DEFINE p    == at[d]
           left == Swept(p, clock[d])
           dup  == \E e \in left : e[1] = of[d]
<1> USE TimesAssumption
<1>0. TypeOK /\ p \in Replicas /\ of[d] \in Requests /\ clock[d] \in Int /\ lastSweep[p] \in Int
  BY DEF IInv, TypeOK
<1>1. left \subseteq seen[p]
  BY DEF Swept
<1>2. /\ lastSweep' = [lastSweep EXCEPT ![p] = IF DueForSweep(p, clock[d]) THEN clock[d] ELSE @]
      /\ seen' = [seen EXCEPT ![p] = IF dup THEN left ELSE left \union {<<of[d], clock[d]>>}]
      /\ UNCHANGED <<clock, requestVars>>
  BY DEF SpendNonce
<1>3. TypeOK'
  <2>1. lastSweep' \in [Replicas -> 0 .. MaxTime]
    BY <1>0, <1>2 DEF TypeOK
  <2>2. seen' \in [Replicas -> SUBSET (Requests \X (0 .. MaxTime))]
    BY <1>0, <1>1, <1>2 DEF TypeOK
  <2>3. /\ stale' \subseteq spent' /\ spent' \subseteq Deliveries
        /\ pc' \in [Deliveries -> {"idle", "spending", "verifying", "looking", "recording"}]
        /\ status' \in [Deliveries -> Ended \union {"none"}]
    BY <1>0 DEF SpendNonce, TypeOK, Advance, Respond, Ended
  <2> QED BY <1>0, <2>1, <2>2, <2>3 DEF SpendNonce, TypeOK, tableVars, requestVars
<1>4. d \notin spent
  BY DEF IInv, FreshInv, SpendNonce, Running
<1>5. FreshInv'
  BY <1>0, <1>4 DEF IInv, TypeOK, FreshInv, SpendNonce, Running, Advance, requestVars
<1>6. lastSweep'[p] >= lastSweep[p]
  BY <1>0, <1>2 DEF DueForSweep, TypeOK
<1>7. \A e \in spent : \/ <<of[e], clock[e]>> \in seen'[at[e]]
                       \/ lastSweep'[at[e]] > clock[e] + MaxSkew
  <2> SUFFICES ASSUME NEW e \in spent
               PROVE  \/ <<of[e], clock[e]>> \in seen'[at[e]]
                      \/ lastSweep'[at[e]] > clock[e] + MaxSkew
    OBVIOUS
  <2>0. e \in Deliveries /\ at[e] \in Replicas /\ clock[e] \in Int
    BY <1>0 DEF TypeOK
  <2>1. CASE at[e] # p
    BY <1>0, <1>2, <2>0, <2>1 DEF IInv, EntryInv, TypeOK
  <2>2. CASE at[e] = p
    <3>1. CASE lastSweep[p] > clock[e] + MaxSkew
      <4>1. lastSweep'[p] \in Int
        BY <1>3, <1>0 DEF TypeOK
      <4> QED BY <1>0, <1>6, <2>0, <2>2, <3>1, <4>1
    <3>2. CASE <<of[e], clock[e]>> \in left
      BY <1>0, <1>2, <2>2, <3>2 DEF TypeOK
    <3>3. CASE <<of[e], clock[e]>> \in seen[p] /\ <<of[e], clock[e]>> \notin left
      <4>1. DueForSweep(p, clock[d]) /\ ~(clock[d] - clock[e] <= MaxSkew)
        BY <3>3, SweptDrops
      <4>2. lastSweep'[p] = clock[d]
        BY <1>0, <1>2, <4>1 DEF TypeOK
      <4> QED BY <1>0, <2>0, <2>2, <4>1, <4>2
    <3> QED BY <2>2, <3>1, <3>2, <3>3 DEF IInv, EntryInv
  <2> QED BY <2>1, <2>2
<1>8. EntryInv'
  <2>1. CASE dup
    <3>1. spent' = spent
      BY <2>1 DEF SpendNonce
    <3> QED BY <1>2, <1>7, <3>1 DEF EntryInv, requestVars
  <2>2. CASE ~dup
    <3>1. spent' = spent \union {d}
      BY <2>2 DEF SpendNonce
    <3>2. <<of[d], clock[d]>> \in seen'[p]
      BY <1>0, <1>2, <2>2 DEF TypeOK
    <3> QED BY <1>2, <1>7, <3>1, <3>2 DEF EntryInv, requestVars
  <2> QED BY <2>1, <2>2
<1>9. AcceptedOnce'
  <2>1. CASE dup
    <3>1. spent' = spent /\ stale' = stale
      BY <2>1 DEF SpendNonce
    <3> QED BY <1>2, <3>1 DEF IInv, AcceptedOnce, requestVars
  <2>2. CASE ~dup
    <3>1. /\ spent' = spent \union {d}
          /\ stale' = IF clock[d] < lastSweep[p] THEN stale \union {d} ELSE stale
      BY <2>2 DEF SpendNonce
    <3>2. ASSUME NEW e \in spent, of[e] = of[d], at[e] = p, d \notin stale'
          PROVE  /\ clock[e] \in Int /\ clock[d] - clock[e] > MaxSkew
                 /\ stamp[of[d]] - clock[e] >= clock[d] - clock[e] - MaxSkew
      <4>0. clock[e] \in Int /\ stamp[of[d]] \in Int
        BY <1>0 DEF TypeOK
      <4>1. clock[d] - stamp[of[d]] <= MaxSkew
        BY <1>0, <4>0 DEF IInv, FreshInv, SpendNonce, Running
      <4>2. clock[d] - clock[e] > MaxSkew
        <5>1. CASE <<of[e], clock[e]>> \in seen[p]
          <6>1. <<of[e], clock[e]>> \notin left
            BY <2>2, <3>2
          <6>2. ~(clock[d] - clock[e] <= MaxSkew)
            BY <5>1, <6>1, SweptDrops
          <6> QED BY <1>0, <4>0, <6>2
        <5>2. CASE lastSweep[p] > clock[e] + MaxSkew
          <6>1. ~(clock[d] < lastSweep[p])
            BY <3>1, <3>2
          <6> QED BY <1>0, <4>0, <5>2, <6>1
        <5> QED BY <3>2, <5>1, <5>2 DEF IInv, EntryInv
      <4> QED BY <1>0, <4>0, <4>1, <4>2
    <3>3. \A e, f \in spent' \ stale' :
            e # f /\ of[e] = of[f] /\ at[e] = at[f] /\ clock[e] <= clock[f] =>
              /\ clock[f] - clock[e] > MaxSkew
              /\ stamp[of[e]] - clock[e] >= clock[f] - clock[e] - MaxSkew
      <4> SUFFICES ASSUME NEW e \in spent' \ stale', NEW f \in spent' \ stale',
                          e # f, of[e] = of[f], at[e] = at[f], clock[e] <= clock[f]
                   PROVE  /\ clock[f] - clock[e] > MaxSkew
                          /\ stamp[of[e]] - clock[e] >= clock[f] - clock[e] - MaxSkew
        OBVIOUS
      <4>1. CASE e = d
        <5>1. clock[f] \in Int /\ clock[d] - clock[f] > MaxSkew
          BY <3>1, <3>2, <4>1
        <5> QED BY <1>0, <4>1, <5>1
      <4>2. CASE f = d
        BY <3>1, <3>2, <4>2
      <4>3. CASE e # d /\ f # d
        <5>1. e \in spent \ stale /\ f \in spent \ stale
          BY <3>1, <4>3
        <5> QED BY <5>1 DEF IInv, AcceptedOnce
      <4> QED BY <4>1, <4>2, <4>3
    <3> QED BY <1>2, <3>3 DEF AcceptedOnce, requestVars
  <2> QED BY <2>1, <2>2
<1>10. UNCHANGED <<tableVars, requestVars>>
  BY DEF SpendNonce
<1>11. \A e \in Deliveries : Running(e, "recording")' => Running(e, "recording")
  BY <1>0 DEF TypeOK, SpendNonce, Running, Advance, Respond
<1>12. RecordingInv'
  BY <1>10, <1>11, RecordingKept
<1> QED BY <1>3, <1>5, <1>8, <1>9, <1>10, <1>12, TablesKept DEF IInv

\* Steps after the nonce check that change no table.
LEMMA AnsweringStep ==
  ASSUME IInv, NEW d \in Deliveries, Verify(d) \/ LookUp(d)
  PROVE  IInv'
<1>1. TypeOK'
  BY DEF IInv, TypeOK, Verify, LookUp, Advance, Respond, Ended, cacheVars, tableVars, requestVars
<1>2. FreshInv'
  BY DEF IInv, TypeOK, FreshInv, Verify, LookUp, Running, Advance, cacheVars, requestVars
<1>3. UNCHANGED <<clock, cacheVars, tableVars, requestVars>>
  BY DEF Verify, LookUp
<1>4. \A e \in Deliveries :
        Running(e, "recording")' => Running(e, "recording") \/ SignerOf(e) \notin authorized
  BY DEF IInv, TypeOK, Verify, LookUp, Running, Advance, Respond
<1>5. RecordingInv'
  BY <1>3, <1>4, RecordingKept
<1> QED BY <1>1, <1>2, <1>3, <1>5, CacheKept, TablesKept DEF IInv

\* Recording a turned-away key.
LEMMA RecordStep == ASSUME IInv, NEW d \in Deliveries, Record(d) PROVE IInv'
<1>0. UNCHANGED <<clock, pc, cacheVars, authorized, admin, overtaken, requestVars>>
  BY DEF Record
<1>1. TypeOK'
  BY DEF IInv, TypeOK, Record, Respond, SignerOf, Ended, cacheVars, requestVars
<1>2. FreshInv'
  BY <1>0 DEF IInv, FreshInv, cacheVars, requestVars
<1>3. ClearingInv'
  BY <1>0 DEF IInv, ClearingInv
<1>4. TurnedAwayIsKnown'
  BY DEF IInv, TurnedAwayIsKnown, Record, SignerOf, requestVars
<1>5. SignerOf(d) \in authorized => Caught(d)
  BY DEF IInv, RecordingInv, Record
<1>6. PendingExplained'
  BY <1>0, <1>5 DEF IInv, PendingExplained, Caught, Record, SignerOf, requestVars
<1>7. RecordingInv'
  BY <1>0 DEF IInv, TypeOK, RecordingInv, Caught, Record, Running, Respond, SignerOf, requestVars
<1> QED BY <1>0, <1>1, <1>2, <1>3, <1>4, <1>6, <1>7, CacheKept DEF IInv

\* A replaced replica forgets its nonces and every delivery that spent one there.
LEMMA RestartStep == ASSUME IInv, NEW p \in Replicas, Restart(p) PROVE IInv'
<1>1. TypeOK'
  BY DEF IInv, TypeOK, Restart, Ended, tableVars, requestVars
<1>2. FreshInv'
  BY DEF IInv, FreshInv, Restart, requestVars
<1>3. EntryInv'
  BY DEF IInv, TypeOK, EntryInv, Restart, requestVars
<1>4. AcceptedOnce'
  BY DEF IInv, AcceptedOnce, Restart, requestVars
<1>5. \A d \in Deliveries : Running(d, "recording")' => Running(d, "recording")
  BY DEF Restart, Running
<1>6. UNCHANGED <<tableVars, requestVars>>
  BY DEF Restart
<1>7. RecordingInv'
  BY <1>5, <1>6, RecordingKept
<1> QED BY <1>1, <1>2, <1>3, <1>4, <1>6, <1>7, TablesKept DEF IInv

\* The -authorize command's two statements, and its failures.
LEMMA AdminStep ==
  ASSUME IInv, NEW k \in Keys, AdminInsert(k) \/ AdminClear(k) \/ AdminFail(k)
  PROVE  IInv'
<1>0. UNCHANGED <<clock, pc, status, cacheVars, requestVars>>
  BY DEF AdminInsert, AdminClear, AdminFail
<1>1. TypeOK'
  BY DEF IInv, TypeOK, AdminInsert, AdminClear, AdminFail, AboutToRecord, cacheVars, requestVars
<1>2. FreshInv'
  BY <1>0 DEF IInv, FreshInv, cacheVars, requestVars
<1>3. ClearingInv'
  BY DEF IInv, TypeOK, ClearingInv, AdminInsert, AdminClear, AdminFail
<1>4. TurnedAwayIsKnown'
  BY DEF IInv, ClearingInv, TurnedAwayIsKnown, SignerOf, AdminInsert, AdminClear, AdminFail,
         requestVars
<1>5. PendingExplained'
  BY DEF IInv, TypeOK, PendingExplained, SignerOf, AdminInsert, AdminClear, AdminFail, Outrun,
         requestVars
<1>6. RecordingInv'
  BY <1>0 DEF IInv, TypeOK, RecordingInv, Caught, AboutToRecord, Outrun, Running, SignerOf,
              AdminInsert, AdminClear, AdminFail, requestVars
<1> QED BY <1>0, <1>1, <1>2, <1>3, <1>4, <1>5, <1>6, CacheKept DEF IInv

\* Every step preserves the invariant.
LEMMA IInvStep == IInv /\ [Next]_vars => IInv'
<1> SUFFICES ASSUME IInv, [Next]_vars PROVE IInv'
  OBVIOUS
<1>1. CASE UNCHANGED vars
  BY <1>1
     DEF vars, cacheVars, tableVars, requestVars, IInv, TypeOK, FreshInv, EntryInv, ClearingInv,
         RecordingInv, Caught, Running, AcceptedOnce, TurnedAwayIsKnown, PendingExplained, SignerOf
<1> QED BY <1>1, TickStep, CheckFreshStep, SpendNonceStep, AnsweringStep, RecordStep,
           RestartStep, AdminStep DEF Next

-----------------------------------------------------------------------------

\* The inductive invariant holds in every reachable state.
THEOREM Invariance == Spec => []IInv
BY IInvInit, IInvStep, PTL DEF Spec

\* Type correctness; cached nonces carry readings of the clock.
THEOREM TypeCorrect == Spec => []TypeOK
BY Invariance, PTL DEF IInv

\* A process accepts a request again only more than MaxSkew after it first did, and only
\* if its timestamp was ahead of the clock by the rest of that time; or it was accepted
\* by a clock read before a sweep that it then came after.
THEOREM RequestsAreAcceptedOnce == Spec => []AcceptedOnce
BY Invariance, PTL DEF IInv

\* No key that was turned away is lost, wherever the command to authorize it stops.
THEOREM TurnedAwayStayKnown == Spec => []TurnedAwayIsKnown
BY Invariance, PTL DEF IInv

\* A key in both tables was left by a command that did not end, or recorded after it by
\* a delivery that had looked the key up before it.
THEOREM PendingIsExplained == Spec => []PendingExplained
BY Invariance, PTL DEF IInv

=============================================================================
