---------------------------- MODULE LoadTestProofs ----------------------------
(***************************************************************************)
(* Proofs about LoadTest, for any number of workers, keys and requests.    *)
(***************************************************************************)
EXTENDS LoadTest, FiniteSetTheorems, TLAPS

-----------------------------------------------------------------------------
(* Type correctness, part by part.                                         *)

\* The initial state has the right types.
LEMMA TypeInit == Init => TypeOK
<1> SUFFICES ASSUME Init PROVE TypeOK
  OBVIOUS
<1> USE DEF Init
<1>1. StartupOK
  <2>1. made \in 0..MaxKeys /\ made \in Nat /\ file = made
    BY MaxKeysAssumption
  <2>2. allow \subseteq Keys
    OBVIOUS
  <2>3. key = 0 /\ rivalKey = 0 /\ key \in 0..made /\ file \in -1..made
    BY <2>1 DEF NoFile
  <2> QED
    BY <2>1, <2>2, <2>3 DEF StartupOK
<1>2. ClockOK
  <2>1. late \in 0..totalReqs /\ ticks \in Nat
    OBVIOUS
  <2>2. ended \in BOOLEAN /\ tick \in BOOLEAN /\ rated \in BOOLEAN
    OBVIOUS
  <2> QED
    BY <2>1, <2>2 DEF ClockOK
<1>3. WorkOK
  BY DEF WorkOK, Total
<1>4. ReportOK
  BY DEF ReportOK
<1> QED
  BY <1>1, <1>2, <1>3, <1>4 DEF TypeOK

\* A worker's step leaves the startup alone.
LEMMA StartupApart ==
  ASSUME NEW w \in Workers, Pass(w) \/ Work(w)
  PROVE  UNCHANGED <<phase, startup>>
BY DEF Work, Pass, TakeTick, Return, Send, Answer, Fail, Deliver

\* The key, its file and the allow list keep their types.
LEMMA StartupType == StartupOK /\ [Next]_vars => StartupOK'
<1> SUFFICES ASSUME StartupOK, [Next]_vars PROVE StartupOK'
  OBVIOUS
<1> USE MaxKeysAssumption DEF StartupOK
<1>1. CASE LoadKey
  BY <1>1 DEF LoadKey, Keys
<1>2. CASE LoadTorn
  BY <1>2 DEF LoadTorn, startup
<1>3. CASE Generate
  <2>1. key' \in 0..made' /\ made' \in 0..MaxKeys /\ file' \in -1..made' /\ key' \in Keys
    BY <1>3 DEF Generate, Keys
  <2>2. rivalKey' \in 0..made' /\ phase' = "generating" /\ UNCHANGED <<rival, allow>>
    BY <1>3 DEF Generate
  <2>3. muddled' \in BOOLEAN
    BY <1>3 DEF Generate
  <2> QED
    BY <2>1, <2>2, <2>3
<1>4. CASE Truncate
  BY <1>4 DEF Truncate, Torn
<1>5. CASE Save
  BY <1>5 DEF Save
<1>6. CASE SaveFails
  BY <1>6 DEF SaveFails, startup
<1>7. CASE CheckAuthorized
  BY <1>7 DEF CheckAuthorized, startup
<1>8. CASE EnsureUsername
  BY <1>8 DEF EnsureUsername, startup
<1>9. CASE RivalGenerates
  <2>1. rivalKey' \in 0..made' /\ made' \in 0..MaxKeys /\ file' \in -1..made'
    BY <1>9 DEF RivalGenerates
  <2>2. key' \in 0..made' /\ UNCHANGED <<key, phase, allow>>
    BY <1>9 DEF RivalGenerates
  <2>3. rival' = "generating" /\ muddled' \in BOOLEAN
    BY <1>9 DEF RivalGenerates
  <2> QED
    BY <2>1, <2>2, <2>3
<1>10. CASE RivalWrites
  BY <1>10 DEF RivalWrites, Torn
<1>11. CASE Authorize
  BY <1>11 DEF Authorize, Keys
<1>12. CASE Again
  BY <1>12 DEF Again, startup
<1>13. CASE Report
  BY <1>13 DEF Report, startup
<1>14. CASE Deadline \/ Tick \/ UNCHANGED vars \/ \E w \in Workers : Pass(w) \/ Work(w)
  <2>1. UNCHANGED <<phase, startup>>
    BY <1>14, StartupApart DEF Deadline, Tick, vars
  <2> QED
    BY <2>1 DEF startup
<1> QED
  BY <1>1, <1>2, <1>3, <1>4, <1>5, <1>6, <1>7, <1>8, <1>9, <1>10, <1>11, <1>12, <1>13, <1>14
  DEF Next, Startup


\* A step of startup, of the rival or of the administrator leaves the workers alone.
LEMMA WorkersApart ==
  ASSUME [Next]_vars, ~(\E w \in Workers : Pass(w) \/ Work(w)), ~EnsureUsername
  PROVE  UNCHANGED work
BY DEF Next, Startup, vars, LoadKey, LoadTorn, Generate, Truncate, Save, SaveFails,
       CheckAuthorized, RivalGenerates, RivalWrites, Authorize, Again, Deadline, Tick, Report

\* A run that has begun is not given up.
LEMMA PhaseStays ==
  ASSUME [Next]_vars, phase \in {"running", "reported"}
  PROVE  phase' \in {"running", "reported"}
BY DEF Next, Startup, vars, LoadKey, LoadTorn, Generate, Truncate, Save, SaveFails, Making,
       CheckAuthorized, EnsureUsername, RivalGenerates, RivalWrites, Authorize, Again, Deadline,
       Tick, Report, Work, Pass, TakeTick, Return, Send, Answer, Fail, Deliver

\* The deadline and the ticker keep their types.
LEMMA ClockType == ClockOK /\ WorkOK /\ [Next]_vars => ClockOK'
<1> SUFFICES ASSUME ClockOK, WorkOK, [Next]_vars PROVE ClockOK'
  OBVIOUS
<1> USE MaxReqsAssumption DEF ClockOK, WorkOK
<1>1. CASE Deadline
  BY <1>1 DEF Deadline, ticker, work, stats
<1>2. CASE Tick
  BY <1>2 DEF Tick, work, stats, clock
<1>3. CASE Again
  <2>1. late' \in 0..totalReqs' /\ ticks' \in Nat
    BY <1>3 DEF Again, work, ticker
  <2> QED
    BY <1>3, <2>1 DEF Again, ticker
<1>4. CASE Startup \/ RivalGenerates \/ RivalWrites \/ Authorize \/ Report \/ UNCHANGED vars
  BY <1>4 DEF Startup, LoadKey, LoadTorn, Generate, Truncate, Save, SaveFails,
              CheckAuthorized, EnsureUsername, RivalGenerates, RivalWrites, Authorize,
              Report, vars, work, stats, ticker, clock
<1>5. ASSUME NEW w \in Workers, Pass(w) \/ Work(w) PROVE ClockOK'
  <2>1. rated' = rated /\ ticks' = ticks /\ UNCHANGED clock /\ tick' \in {tick, FALSE}
    BY <1>5 DEF Work, Pass, TakeTick, Return, Send, Answer, Fail, Deliver, ticker
  <2>2. totalReqs' \in {totalReqs, totalReqs + 1}
    BY <1>5 DEF Work, Pass, TakeTick, Return, Send, Answer, Fail, Deliver
  <2>3. late' \in 0..totalReqs'
    BY <2>1, <2>2 DEF clock
  <2> QED
    BY <2>1, <2>3 DEF clock
<1> QED
  BY <1>1, <1>2, <1>3, <1>4, <1>5 DEF Next

\* The workers' statistics keep their types.
LEMMA WorkType == WorkOK /\ [Next]_vars => WorkOK'
<1> SUFFICES ASSUME WorkOK, [Next]_vars PROVE WorkOK'
  OBVIOUS
<1> USE DEF WorkOK
<1>1. CASE UNCHANGED work
  <2>1. phase' \notin {"running", "reported"} => phase \notin {"running", "reported"}
    BY <1>1, PhaseStays
  <2> QED
    BY <1>1, <2>1 DEF work, stats, Total
<1>2. CASE EnsureUsername
  BY <1>2 DEF EnsureUsername, Step, stats, Total
<1>3. ASSUME NEW w \in Workers, Pass(w) \/ Work(w) PROVE WorkOK'
  <2>1. CASE Pass(w)
    BY <2>1 DEF Pass, Step, stats, Total
  <2>2. CASE TakeTick(w)
    BY <2>2 DEF TakeTick, Step, stats, Total
  <2>3. CASE Return(w)
    BY <2>3 DEF Return, Step, stats, Total
  <2>4. CASE Send(w)
    BY <2>4 DEF Send, Step, stats, Total
  <2>5. CASE Answer(w)
    <3>1. req[w] \in Total
      BY <2>5 DEF Answer, Step, Total
    <3> QED
      BY <2>5, <3>1 DEF Answer, Step, stats, Total
  <2>6. CASE Fail(w)
    <3>1. req[w] \in Total
      BY <2>6 DEF Fail, Step, Total
    <3> QED
      BY <2>6, <3>1 DEF Fail, Step, stats, Total
  <2>7. CASE Deliver(w)
    BY <2>7 DEF Deliver, Step, stats, Total
  <2> QED
    BY <1>3, <2>1, <2>2, <2>3, <2>4, <2>5, <2>6, <2>7 DEF Work
<1> QED
  BY <1>1, <1>2, <1>3, WorkersApart

\* So does the report.
LEMMA ReportType == WorkOK /\ WorkOK' /\ ReportOK /\ [Next]_vars => ReportOK'
<1> SUFFICES ASSUME WorkOK, WorkOK', ReportOK, [Next]_vars PROVE ReportOK'
  OBVIOUS
<1>1. totalReqs' >= totalReqs /\ totalReqs' \in Nat /\ totalReqs \in Nat
  <2>1. ASSUME NEW w \in Workers, Pass(w) \/ Work(w) PROVE totalReqs' >= totalReqs
    BY <2>1 DEF Work, Pass, TakeTick, Return, Send, Answer, Fail, Deliver, WorkOK
  <2> QED
    BY <2>1, WorkersApart DEF EnsureUsername, work, WorkOK
<1>2. Total \subseteq Total'
  BY <1>1 DEF Total
<1>3. CASE Report
  BY <1>2, <1>3 DEF Report, ReportOK, WorkOK, work, stats
<1>4. CASE ~Report
  <2>1. report' = report
    BY <1>4 DEF Next, vars, Startup, LoadKey, LoadTorn, Generate, Truncate, Save, SaveFails,
       CheckAuthorized, EnsureUsername, RivalGenerates, RivalWrites, Authorize, Again,
       Deadline, Tick, Work, Pass, TakeTick, Return, Send, Answer, Fail, Deliver
  <2> QED
    BY <1>2, <2>1 DEF ReportOK
<1> QED
  BY <1>3, <1>4

\* The types are right in every reachable state.
THEOREM TypeCorrect == Spec => []TypeOK
<1>1. TypeOK /\ [Next]_vars => TypeOK'
  BY StartupType, ClockType, WorkType, ReportType DEF TypeOK
<1> QED
  BY <1>1, TypeInit, PTL DEF Spec

-----------------------------------------------------------------------------
(* Every request is counted once.                                          *)

Mine(w) == ok[w] \union err[w] \union ({req[w]} \ {0})

\* What the workers hold, together with what is under way, are the requests begun, and
\* no request is held twice; the report is what they held when the last one was done.
Accounts ==
  /\ \A w \in Workers : ok[w] \cap err[w] = {} /\ req[w] \notin ok[w] \union err[w]
  /\ \A v, w \in Workers : v # w => Mine(v) \cap Mine(w) = {}
  /\ \A n \in Total : \E w \in Workers : n \in Mine(w)

\* The report is what the workers held when the last of them was done.
Reported ==
  phase = "reported" =>
    /\ \A w \in Workers : pc[w] = "done"
    /\ report = [ok |-> UNION {ok[w] : w \in Workers}, err |-> UNION {err[w] : w \in Workers}]

\* A step of a worker that begins or ends no request, keeps the accounts.
LEMMA AccountsApart ==
  ASSUME Accounts, UNCHANGED <<req, totalReqs, ok, err>>
  PROVE  Accounts'
BY DEF Accounts, Mine, Total

\* A request that is begun has a number of its own.
LEMMA AccountsSend ==
  ASSUME WorkOK, Accounts, NEW w \in Workers, Send(w)
  PROVE  Accounts'
<1> DEFINE n == totalReqs + 1
<1>1. /\ totalReqs' = n /\ n \notin Total /\ Total' = Total \union {n}
      /\ UNCHANGED <<ok, err>> /\ req[w] = 0 /\ req' = [req EXCEPT ![w] = n] /\ n # 0
  BY DEF Send, Step, stats, WorkOK, Total
<1>2. \A v \in Workers : Mine(v) \subseteq Total
  BY DEF WorkOK, Mine, Total
<1>3. Mine(w)' = Mine(w) \union {n}
  BY <1>1 DEF Mine, WorkOK
<1>4. \A v \in Workers : v # w => Mine(v)' = Mine(v) /\ req'[v] = req[v]
  BY <1>1 DEF Mine, WorkOK
<1>5. \A v \in Workers : ok'[v] \cap err'[v] = {} /\ req'[v] \notin ok'[v] \union err'[v]
  BY <1>1, <1>2, <1>4 DEF Accounts, Mine, WorkOK
<1>6. \A u, v \in Workers : u # v => Mine(u)' \cap Mine(v)' = {}
  BY <1>1, <1>2, <1>3, <1>4 DEF Accounts
<1>7. \A m \in Total' : \E v \in Workers : m \in Mine(v)'
  BY <1>1, <1>3, <1>4 DEF Accounts
<1> QED
  BY <1>5, <1>6, <1>7 DEF Accounts

\* A request that ends goes into one of the statistics of its worker.
LEMMA AccountsEnd ==
  ASSUME WorkOK, Accounts, NEW w \in Workers, Answer(w) \/ Fail(w)
  PROVE  Accounts'
<1>1. /\ pc[w] = "waiting" /\ req[w] # 0 /\ req' = [req EXCEPT ![w] = 0]
      /\ totalReqs' = totalReqs /\ Total' = Total
  BY DEF Answer, Fail, Step, WorkOK, Total
<1>2. \/ ok' = [ok EXCEPT ![w] = @ \union {req[w]}] /\ err' = err
      \/ err' = [err EXCEPT ![w] = @ \union {req[w]}] /\ ok' = ok
  BY DEF Answer, Fail
<1>3. req[w] \notin ok[w] \union err[w] /\ ok[w] \cap err[w] = {}
  BY DEF Accounts
<1>4. Mine(w)' = Mine(w)
  BY <1>1, <1>2 DEF Mine, WorkOK
<1>5. \A v \in Workers : v # w => Mine(v)' = Mine(v)
  BY <1>1, <1>2 DEF Mine, WorkOK
<1>6. 0 \notin ok'[w] \union err'[w]
  BY <1>1, <1>2 DEF WorkOK, Total
<1>7. \A v \in Workers : ok'[v] \cap err'[v] = {} /\ req'[v] \notin ok'[v] \union err'[v]
  <2> SUFFICES ASSUME NEW v \in Workers
               PROVE  ok'[v] \cap err'[v] = {} /\ req'[v] \notin ok'[v] \union err'[v]
    OBVIOUS
  <2>1. CASE v = w
    BY <1>1, <1>2, <1>3, <1>6, <2>1 DEF WorkOK
  <2>2. CASE v # w
    BY <1>1, <1>2, <2>2 DEF WorkOK, Accounts
  <2> QED
    BY <2>1, <2>2
<1>8. \A u \in Workers : Mine(u)' = Mine(u)
  BY <1>4, <1>5
<1> QED
  BY <1>1, <1>7, <1>8 DEF Accounts

\* No other step touches the accounts.
LEMMA AccountsKept == WorkOK /\ Accounts /\ [Next]_vars => Accounts'
<1> SUFFICES ASSUME WorkOK, Accounts, [Next]_vars PROVE Accounts'
  OBVIOUS
<1>1. ASSUME NEW w \in Workers, Send(w) PROVE Accounts'
  BY <1>1, AccountsSend
<1>2. ASSUME NEW w \in Workers, Answer(w) \/ Fail(w) PROVE Accounts'
  BY <1>2, AccountsEnd
<1>3. ASSUME NEW w \in Workers, Pass(w) \/ TakeTick(w) \/ Return(w) \/ Deliver(w) PROVE Accounts'
  BY <1>3, AccountsApart DEF Pass, TakeTick, Return, Deliver, stats
<1>4. CASE EnsureUsername
  BY <1>4, AccountsApart DEF EnsureUsername, stats
<1>5. CASE UNCHANGED work
  BY <1>5, AccountsApart DEF work, stats
<1> QED
  BY <1>1, <1>2, <1>3, <1>4, <1>5, WorkersApart DEF Work

\* Once it is printed, no worker counts anything more.
LEMMA ReportedKept == WorkOK /\ Reported /\ [Next]_vars => Reported'
<1> SUFFICES ASSUME WorkOK, Reported, [Next]_vars PROVE Reported'
  OBVIOUS
<1>1. CASE Report
  <2>1. queue = Workers
    BY <1>1 DEF Report, WorkOK
  <2> QED
    BY <1>1, <2>1 DEF Report, Reported, work, stats
<1>2. CASE \E w \in Workers : Pass(w) \/ Work(w)
  <2>1. PICK w \in Workers : Pass(w) \/ Work(w)
    BY <1>2
  <2>2. pc[w] # "done"
    BY <2>1 DEF Work, Pass, TakeTick, Return, Send, Answer, Fail, Deliver, Step
  <2>3. phase' = phase
    BY <2>1, StartupApart
  <2> QED
    BY <2>2, <2>3 DEF Reported
<1>3. CASE ~Report /\ ~(\E w \in Workers : Pass(w) \/ Work(w))
  <2>1. phase' = "reported" => phase = "reported" /\ UNCHANGED <<work, report>>
    BY <1>3 DEF Next, Startup, vars, LoadKey, LoadTorn, Generate, Truncate, Save, SaveFails,
       Making, CheckAuthorized, EnsureUsername, RivalGenerates, RivalWrites, Authorize, Again,
       Deadline, Tick
  <2> QED
    BY <2>1 DEF Reported, work, stats
<1> QED
  BY <1>1, <1>2, <1>3

\* Every request that was begun is in the report exactly once (runWorker and main).
THEOREM EveryRequestReported == Spec => []ReportAddsUp
<1>1. Init => Accounts /\ Reported
  BY DEF Init, Accounts, Reported, Mine, Total
<1>2. WorkOK /\ Accounts /\ Reported /\ [Next]_vars => Accounts' /\ Reported'
  BY AccountsKept, ReportedKept
<1>3. WorkOK /\ Accounts /\ Reported => ReportAddsUp
  <2> SUFFICES ASSUME WorkOK, Accounts, Reported, phase = "reported"
               PROVE  ReportAddsUp
    BY DEF ReportAddsUp
  <2>1. \A w \in Workers : req[w] = 0 /\ Mine(w) = ok[w] \union err[w]
    BY DEF Reported, WorkOK, Mine
  <2>2. \A v, w \in Workers : v # w => (ok[v] \union err[v]) \cap (ok[w] \union err[w]) = {}
    BY <2>1 DEF Accounts
  <2>3. report.ok = UNION {ok[w] : w \in Workers} /\ report.err = UNION {err[w] : w \in Workers}
    BY DEF Reported
  <2>4. report.ok \union report.err \subseteq Total
    BY <2>3 DEF WorkOK
  <2>5. Total \subseteq report.ok \union report.err
    BY <2>1, <2>3 DEF Accounts
  <2>6. report.ok \cap report.err = {}
    BY <2>2, <2>3 DEF Accounts
  <2> QED
    BY <2>2, <2>4, <2>5, <2>6 DEF ReportAddsUp
<1> QED
  BY <1>1, <1>2, <1>3, TypeCorrect, PTL DEF Spec, TypeOK

-----------------------------------------------------------------------------
(* The deadline and the rate.                                              *)

Sending == {w \in Workers : pc[w] = "sending"}

\* After the deadline, who has not begun a late request yet is on its way to one.
LateInv == ended => totalReqs - late + Cardinality(Begun) <= Cardinality(Workers)

\* A tick is in the channel, taken by a worker that will send, or spent on a request.
RateInv ==
  rated => totalReqs + Cardinality(Sending) + (IF tick THEN 1 ELSE 0) <= ticks

\* The two sets are finite.
LEMMA SetsFinite ==
  /\ IsFiniteSet(Begun) /\ Cardinality(Begun) \in Nat
  /\ IsFiniteSet(Sending) /\ Cardinality(Sending) \in Nat
  /\ Cardinality(Workers) \in Nat /\ Cardinality(Begun) <= Cardinality(Workers)
<1>1. Begun \subseteq Workers /\ Sending \subseteq Workers
  BY DEF Begun, Sending
<1> QED
  BY <1>1, WorkersAssumption, FS_Subset, FS_CardinalityType

\* What a worker's step does to the two sets.
LEMMA SetsStep ==
  ASSUME WorkOK, NEW w \in Workers
  PROVE  /\ Send(w) => /\ Begun' = Begun \ {w} /\ w \in Begun
                       /\ Sending' = Sending \ {w} /\ w \in Sending
         /\ TakeTick(w) => /\ Begun' = Begun
                           /\ Sending' = Sending \union {w} /\ w \notin Sending
         /\ Return(w) => Begun' \in {Begun, Begun \ {w}} /\ Sending' = Sending
         /\ Answer(w) \/ Fail(w) \/ Deliver(w) => Begun' = Begun /\ Sending' = Sending
         /\ Pass(w) /\ rated => Sending' = Sending
<1>1. Send(w) => /\ Begun' = Begun \ {w} /\ w \in Begun
                 /\ Sending' = Sending \ {w} /\ w \in Sending
  BY DEF Send, Step, WorkOK, Begun, Sending
<1>2. TakeTick(w) => /\ Begun' = Begun
                     /\ Sending' = Sending \union {w} /\ w \notin Sending
  BY DEF TakeTick, Step, WorkOK, Begun, Sending
<1>3. Return(w) => Begun' \in {Begun, Begun \ {w}} /\ Sending' = Sending
  BY DEF Return, Step, WorkOK, Begun, Sending
<1>4. Answer(w) \/ Fail(w) \/ Deliver(w) => Begun' = Begun /\ Sending' = Sending
  BY DEF Answer, Fail, Deliver, Step, WorkOK, Begun, Sending
<1>5. Pass(w) /\ rated => Sending' = Sending
  BY DEF Pass, Step, WorkOK, Begun, Sending
<1> QED
  BY <1>1, <1>2, <1>3, <1>4, <1>5

\* The steps of all the others leave them as they are.
LEMMA SetsApart ==
  ASSUME WorkOK, [Next]_vars, ~(\E w \in Workers : Pass(w) \/ Work(w))
  PROVE  Begun' = Begun /\ Sending' = Sending /\ totalReqs' = totalReqs
<1>1. CASE EnsureUsername
  BY <1>1 DEF EnsureUsername, WorkOK, Begun, Sending
<1>2. CASE ~EnsureUsername
  <2>1. UNCHANGED work
    BY <1>2, WorkersApart
  <2> QED
    BY <2>1 DEF work, Begun, Sending
<1> QED
  BY <1>1, <1>2

\* A step keeps the account of late requests.
LEMMA LateKept == WorkOK /\ ClockOK /\ LateInv /\ [Next]_vars => LateInv'
<1> SUFFICES ASSUME WorkOK, ClockOK, LateInv, [Next]_vars, ended' PROVE LateInv'
  BY DEF LateInv
<1>0. totalReqs \in Nat /\ late \in Nat /\ late <= totalReqs
  BY DEF WorkOK, ClockOK
<1>1. ASSUME NEW w \in Workers, Pass(w) \/ Work(w) PROVE LateInv'
  <2>1. ended /\ late' = late /\ ~Pass(w) /\ Work(w)
    BY <1>1 DEF Work, Pass, TakeTick, Return, Send, Answer, Fail, Deliver, clock
  <2>2. CASE Send(w)
    <3>1. Cardinality(Begun') = Cardinality(Begun) - 1
      BY <2>2, SetsStep, SetsFinite, FS_RemoveElement
    <3>2. totalReqs' = totalReqs + 1
      BY <2>2 DEF Send
    <3> QED
      BY <1>0, <2>1, <3>1, <3>2, SetsFinite DEF LateInv
  <2>3. CASE ~Send(w)
    <3>1. totalReqs' = totalReqs
      BY <2>1, <2>3 DEF Work, TakeTick, Return, Answer, Fail, Deliver
    <3>2. Begun' \in {Begun, Begun \ {w}}
      BY <2>1, <2>3, SetsStep DEF Work
    <3>3. Cardinality(Begun') <= Cardinality(Begun) /\ Cardinality(Begun') \in Nat
      <4>1. Cardinality(Begun \ {w}) =
              IF w \in Begun THEN Cardinality(Begun) - 1 ELSE Cardinality(Begun)
        BY SetsFinite, FS_RemoveElement
      <4>2. IsFiniteSet(Begun \ {w}) /\ Cardinality(Begun \ {w}) \in Nat
        BY SetsFinite, FS_RemoveElement, FS_CardinalityType
      <4>3. Cardinality(Begun \ {w}) <= Cardinality(Begun)
        BY <4>1, SetsFinite
      <4>4. CASE Begun' = Begun
        BY <4>4, SetsFinite
      <4>5. CASE Begun' = Begun \ {w}
        BY <4>2, <4>3, <4>5
      <4> QED
        BY <3>2, <4>4, <4>5
    <3> QED
      BY <1>0, <2>1, <3>1, <3>3, SetsFinite DEF LateInv
  <2> QED
    BY <2>2, <2>3
<1>2. CASE ~(\E w \in Workers : Pass(w) \/ Work(w))
  <2>1. Begun' = Begun /\ totalReqs' = totalReqs
    BY <1>2, SetsApart
  <2>2. CASE Deadline
    BY <1>0, <2>1, <2>2, SetsFinite DEF Deadline, LateInv
  <2>3. CASE ~Deadline
    <3>1. ended /\ late' = late
      BY <1>2, <2>3 DEF Next, Startup, vars, LoadKey, LoadTorn, Generate, Truncate, Save, SaveFails,
         CheckAuthorized, EnsureUsername, RivalGenerates, RivalWrites, Authorize, Again, Tick,
         Report, clock
    <3> QED
      BY <2>1, <3>1 DEF LateInv
  <2> QED
    BY <2>2, <2>3
<1> QED
  BY <1>1, <1>2

\* A step keeps the account of ticks.
LEMMA RateStep == WorkOK /\ ClockOK /\ RateInv /\ [Next]_vars => RateInv'
<1> SUFFICES ASSUME WorkOK, ClockOK, RateInv, [Next]_vars, rated' PROVE RateInv'
  BY DEF RateInv
<1>0. totalReqs \in Nat /\ ticks \in Nat /\ tick \in BOOLEAN
  BY DEF WorkOK, ClockOK
<1>1. rated
  BY DEF Next, Startup, vars, LoadKey, LoadTorn, Generate, Truncate, Save, SaveFails,
     CheckAuthorized, EnsureUsername, RivalGenerates, RivalWrites, Authorize, Again, Deadline,
     Tick, Report, Work, Pass, TakeTick, Return, Send, Answer, Fail, Deliver, ticker
<1>2. ASSUME NEW w \in Workers, Send(w) PROVE RateInv'
  <2>1. Cardinality(Sending') = Cardinality(Sending) - 1
    BY <1>2, SetsStep, SetsFinite, FS_RemoveElement
  <2>2. totalReqs' = totalReqs + 1 /\ UNCHANGED <<tick, ticks>>
    BY <1>2 DEF Send, ticker
  <2> QED
    BY <1>0, <1>1, <2>1, <2>2, SetsFinite DEF RateInv
<1>3. ASSUME NEW w \in Workers, TakeTick(w) PROVE RateInv'
  <2>1. Cardinality(Sending') = Cardinality(Sending) + 1
    BY <1>3, SetsStep, SetsFinite, FS_AddElement
  <2>2. totalReqs' = totalReqs /\ ticks' = ticks /\ tick /\ ~tick'
    BY <1>3 DEF TakeTick
  <2> QED
    BY <1>0, <1>1, <2>1, <2>2, SetsFinite DEF RateInv
<1>4. ASSUME NEW w \in Workers, Pass(w) \/ Return(w) \/ Answer(w) \/ Fail(w) \/ Deliver(w)
      PROVE  RateInv'
  <2>1. Sending' = Sending
    BY <1>1, <1>4, SetsStep
  <2>2. UNCHANGED <<totalReqs, tick, ticks>>
    BY <1>4 DEF Pass, Return, Answer, Fail, Deliver, ticker
  <2> QED
    BY <1>1, <2>1, <2>2 DEF RateInv
<1>5. CASE ~(\E w \in Workers : Pass(w) \/ Work(w))
  <2>1. Sending' = Sending /\ totalReqs' = totalReqs
    BY <1>5, SetsApart
  <2>2. CASE Tick
    <3>1. ticks' = ticks + 1
      BY <2>2 DEF Tick
    <3> QED
      BY <1>0, <1>1, <2>1, <3>1, SetsFinite DEF RateInv
  <2>3. CASE ~Tick
    <3>1. UNCHANGED <<tick, ticks>>
      BY <1>5, <2>3 DEF Next, Startup, vars, LoadKey, LoadTorn, Generate, Truncate, Save,
         SaveFails, CheckAuthorized, EnsureUsername, RivalGenerates, RivalWrites, Authorize,
         Again, Deadline, Report, ticker
    <3> QED
      BY <1>1, <2>1, <3>1 DEF RateInv
  <2> QED
    BY <2>2, <2>3
<1> QED
  BY <1>2, <1>3, <1>4, <1>5 DEF Work

\* At most one request of each worker is begun after the deadline.
THEOREM FewRequestsAreLate == Spec => []FewAreLate
<1>1. Init => LateInv
  BY DEF Init, LateInv
<1>2. WorkOK /\ ClockOK /\ LateInv => FewAreLate
  BY SetsFinite DEF LateInv, FewAreLate, WorkOK, ClockOK
<1> QED
  BY <1>1, <1>2, LateKept, TypeCorrect, PTL DEF Spec, TypeOK

\* The workers together send no more than the ticker allows.
THEOREM RateIsKept == Spec => []RateKept
<1>1. Init => RateInv
  <2> SUFFICES ASSUME Init PROVE RateInv
    OBVIOUS
  <2>1. Sending = {} /\ totalReqs = 0 /\ ticks = 0 /\ ~tick
    BY DEF Init, Sending
  <2> QED
    BY <2>1, FS_EmptySet DEF RateInv
<1>2. WorkOK /\ ClockOK /\ RateInv => RateKept
  <2> SUFFICES ASSUME WorkOK, ClockOK, RateInv, rated PROVE totalReqs <= ticks
    BY DEF RateKept
  <2>1. (IF tick THEN 1 ELSE 0) \in Nat
    OBVIOUS
  <2> QED
    BY <2>1, SetsFinite DEF RateInv, WorkOK, ClockOK
<1> QED
  BY <1>1, <1>2, RateStep, TypeCorrect, PTL DEF Spec, TypeOK

-----------------------------------------------------------------------------
(* The key.                                                                *)

\* As long as nobody has got in the way, the key that is allowed is the one in the
\* file, and the tool signs with it; while one makes a key the other does not.
KeyInv ==
  ~muddled =>
    /\ allow \subseteq {file}
    /\ phase \in {"checking", "naming", "running", "reported", "refused"} => key = file
    /\ phase = "generating" => file = NoFile /\ rival \notin Making
    /\ phase = "writing" => file = Torn /\ rival \notin Making
    /\ rival = "generating" => file = NoFile
    /\ rival = "writing" => file = Torn

\* A step keeps the key and its file together.
LEMMA KeyKept == StartupOK /\ KeyInv /\ [Next]_vars => KeyInv'
<1> SUFFICES ASSUME StartupOK, KeyInv, [Next]_vars, ~muddled' PROVE KeyInv'
  BY DEF KeyInv
<1> USE DEF StartupOK, KeyInv, Keys, NoFile, Torn, Making
<1>1. CASE LoadKey
  BY <1>1 DEF LoadKey
<1>2. CASE LoadTorn
  BY <1>2 DEF LoadTorn, startup
<1>3. CASE Generate
  BY <1>3 DEF Generate
<1>4. CASE Truncate
  BY <1>4 DEF Truncate
<1>5. CASE Save
  BY <1>5 DEF Save
<1>6. CASE SaveFails
  BY <1>6 DEF SaveFails, startup
<1>7. CASE CheckAuthorized
  BY <1>7 DEF CheckAuthorized, startup
<1>8. CASE EnsureUsername
  BY <1>8 DEF EnsureUsername, startup
<1>9. CASE RivalGenerates
  BY <1>9 DEF RivalGenerates
<1>10. CASE RivalWrites
  BY <1>10 DEF RivalWrites
<1>11. CASE Authorize
  BY <1>11 DEF Authorize
<1>12. CASE Again
  BY <1>12 DEF Again, startup
<1>13. CASE Report
  BY <1>13 DEF Report, startup
<1>14. CASE Deadline \/ Tick \/ UNCHANGED vars \/ \E w \in Workers : Pass(w) \/ Work(w)
  <2>1. UNCHANGED <<phase, startup>>
    BY <1>14, StartupApart DEF Deadline, Tick, vars
  <2> QED
    BY <2>1 DEF startup
<1> QED
  BY <1>1, <1>2, <1>3, <1>4, <1>5, <1>6, <1>7, <1>8, <1>9, <1>10, <1>11, <1>12, <1>13, <1>14
  DEF Next, Startup

\* A key has to be authorized only once (loadIdentity).
THEOREM KeyIsAuthorizedOnce == Spec => []AuthorizedOnce
<1>1. Init => KeyInv
  BY DEF Init, KeyInv, Making
<1>2. KeyInv => AuthorizedOnce
  BY DEF KeyInv, AuthorizedOnce
<1> QED
  BY <1>1, <1>2, KeyKept, TypeCorrect, PTL DEF Spec, TypeOK

=============================================================================
