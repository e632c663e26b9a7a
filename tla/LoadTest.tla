------------------------------- MODULE LoadTest -------------------------------
(***************************************************************************)
(* The load generator: loadtest/main.go and signing.go.  It loads or makes *)
(* the key it signs with, asks whether that key may use the API and claims *)
(* a username, lets its workers send requests until the deadline, and      *)
(* reports what they have counted.                                         *)
(*                                                                         *)
(* A request is the number that totalReqs gave it, so that a worker's      *)
(* statistics are two sets of requests: answered, with whatever status,    *)
(* and failed.  Keys are numbered in the order they were generated.        *)
(***************************************************************************)
EXTENDS Integers, FiniteSets

CONSTANTS Workers,  \* -workers
          MaxKeys,  \* bound: keys ever generated
          MaxReqs   \* bound: requests of a run

ASSUME WorkersAssumption == IsFiniteSet(Workers)
ASSUME MaxKeysAssumption == MaxKeys \in Nat
ASSUME MaxReqsAssumption == MaxReqs \in Nat

VARIABLES
  phase,      \* where main is
  key,        \* the key it signs with
  file,       \* the key in the file; or NoFile, or Torn while it is being written
  made,       \* the number of keys generated
  rival,      \* another load tester that is started in the same directory
  rivalKey,   \* and its key
  allow,      \* the server's allow list
  ended,      \* the context is done: the deadline has passed, or an interrupt
  rated,      \* -rate is given
  tick,       \* the ticker's channel holds a tick
  ticks,      \* the number of ticks so far
  pc, req,    \* where each worker is, and its request under way
  totalReqs,  \* the counter all workers share
  ok, err,    \* each worker's statistics
  queue,      \* the workers whose statistics are in statsCh
  report,     \* what is printed
  muddled,    \* history: two found no key at once, or a key could not be read
  late        \* history: totalReqs at the deadline

startup == <<key, file, made, rival, rivalKey, allow, muddled>>
ticker  == <<rated, tick, ticks>>
stats   == <<ok, err>>
work    == <<pc, req, totalReqs, stats, queue>>
clock   == <<ended, late>>
vars    == <<phase, startup, ticker, work, clock, report>>

NoFile == 0
Torn   == -1
Keys   == 1..MaxKeys

Init ==
  /\ phase = "loading" /\ key = NoFile
  /\ made \in {0, 1} \cap 0..MaxKeys /\ file = made
  /\ allow \in SUBSET ({file} \cap Keys)
  /\ rival = "absent" /\ rivalKey = NoFile /\ muddled = FALSE
  /\ ended = FALSE /\ late = 0
  /\ rated \in BOOLEAN /\ tick = FALSE /\ ticks = 0
  /\ pc = [w \in Workers |-> "idle"] /\ req = [w \in Workers |-> 0]
  /\ totalReqs = 0
  /\ ok = [w \in Workers |-> {}] /\ err = [w \in Workers |-> {}]
  /\ queue = {}
  /\ report = [ok |-> {}, err |-> {}]

-----------------------------------------------------------------------------
(* loadIdentity.                                                           *)

Making == {"generating", "writing"}

LoadKey ==
  /\ phase = "loading" /\ file \in Keys
  /\ key' = file /\ phase' = "checking"
  /\ UNCHANGED <<file, made, rival, rivalKey, allow, muddled, ticker, work, clock, report>>

\* What is in the file is no key.
LoadTorn ==
  /\ phase = "loading" /\ file = Torn
  /\ phase' = "exited"
  /\ UNCHANGED <<startup, ticker, work, clock, report>>

\* The file cannot be read, most often because there is none: a key is generated.
Generate ==
  /\ phase = "loading"
  /\ made < MaxKeys /\ made' = made + 1
  /\ key' = made' /\ phase' = "generating"
  /\ muddled' = (muddled \/ file # NoFile \/ rival \in Making)
  /\ UNCHANGED <<file, rival, rivalKey, allow, ticker, work, clock, report>>

\* WriteFile truncates the file first.
Truncate ==
  /\ phase = "generating"
  /\ file' = Torn /\ phase' = "writing"
  /\ UNCHANGED <<key, made, rival, rivalKey, allow, muddled, ticker, work, clock, report>>

\* Mutant: the key is not kept.
SaveNothing ==
  /\ phase = "writing"
  /\ file' = NoFile /\ phase' = "checking"
  /\ UNCHANGED <<key, made, rival, rivalKey, allow, muddled, ticker, work, clock, report>>

Save ==
  /\ phase = "writing"
  /\ file' = key /\ phase' = "checking"
  /\ UNCHANGED <<key, made, rival, rivalKey, allow, muddled, ticker, work, clock, report>>

SaveFails ==
  /\ phase \in Making
  /\ phase' = "exited"
  /\ UNCHANGED <<startup, ticker, work, clock, report>>

\* The other load tester does the same.
RivalGenerates ==
  /\ rival = "absent" /\ file = NoFile
  /\ made < MaxKeys /\ made' = made + 1
  /\ rival' = "generating" /\ rivalKey' = made'
  /\ muddled' = (muddled \/ phase \in Making)
  /\ UNCHANGED <<phase, key, file, allow, ticker, work, clock, report>>

RivalWrites ==
  /\ \/ rival = "generating" /\ rival' = "writing" /\ file' = Torn
     \/ rival = "writing" /\ rival' = "gone" /\ file' = rivalKey
  /\ UNCHANGED <<phase, key, made, rivalKey, allow, muddled, ticker, work, clock, report>>

-----------------------------------------------------------------------------
(* checkAuthorized and ensureUsername, which no deadline cuts short.       *)

CheckAuthorized ==
  /\ phase = "checking"
  /\ phase' \in {IF key \in allow THEN "naming" ELSE "refused", "exited"}
  /\ UNCHANGED <<startup, ticker, work, clock, report>>

\* The name is claimed, or it belongs to another key.
EnsureUsername ==
  /\ phase = "naming"
  /\ \/ phase' = "running" /\ pc' = [w \in Workers |-> "top"]
     \/ phase' = "exited" /\ UNCHANGED pc
  /\ UNCHANGED <<startup, ticker, req, totalReqs, stats, queue, clock, report>>

\* The key that was printed is authorized.
Authorize ==
  /\ phase = "refused" /\ key \notin allow
  /\ allow' = allow \union {key}
  /\ UNCHANGED <<phase, key, file, made, rival, rivalKey, muddled, ticker, work, clock, report>>

\* The tool is started again.
Again ==
  /\ phase \in {"refused", "exited"}
  /\ phase' = "loading" /\ ended' = FALSE /\ late' = 0
  /\ UNCHANGED <<startup, ticker, work, report>>

-----------------------------------------------------------------------------
(* runWorker.                                                              *)

\* The duration has passed, or the user interrupts.
Deadline ==
  /\ ~ended /\ ended' = TRUE
  /\ late' = totalReqs
  /\ UNCHANGED <<phase, startup, ticker, work, report>>

\* The ticker's channel holds one tick, and another is dropped.
Tick ==
  /\ rated /\ phase = "running"
  /\ ticks < MaxReqs /\ ticks' = ticks + 1
  /\ tick' = TRUE
  /\ UNCHANGED <<phase, startup, rated, work, clock, report>>

Step(w, from, to) ==
  /\ pc[w] = from
  /\ pc' = [pc EXCEPT ![w] = to]

Begun == {w \in Workers : pc[w] \in {"ticking", "sending"}}

\* Mutant: the context is not looked at.
PassRegardless(w) ==
  /\ Step(w, "top", IF rated THEN "ticking" ELSE "sending")
  /\ totalReqs + Cardinality(Begun) < MaxReqs
  /\ UNCHANGED <<phase, startup, ticker, req, totalReqs, stats, queue, clock, report>>

\* The first select: the context is not done.
Pass(w) ==
  /\ ~ended
  /\ Step(w, "top", IF rated THEN "ticking" ELSE "sending")
  /\ totalReqs + Cardinality(Begun) < MaxReqs
  /\ UNCHANGED <<phase, startup, ticker, req, totalReqs, stats, queue, clock, report>>

\* The second select takes a tick, although the context may be done as well.
TakeTick(w) ==
  /\ tick /\ tick' = FALSE
  /\ Step(w, "ticking", "sending")
  /\ UNCHANGED <<phase, startup, rated, ticks, req, totalReqs, stats, queue, clock, report>>

Return(w) ==
  /\ ended
  /\ Step(w, "top", "returning") \/ Step(w, "ticking", "returning")
  /\ UNCHANGED <<phase, startup, ticker, req, totalReqs, stats, queue, clock, report>>

Send(w) ==
  /\ Step(w, "sending", "waiting")
  /\ totalReqs' = totalReqs + 1
  /\ req' = [req EXCEPT ![w] = totalReqs']
  /\ UNCHANGED <<phase, startup, ticker, stats, queue, clock, report>>

\* Answered, whatever the status and although its body may be cut off.
Answer(w) ==
  /\ Step(w, "waiting", "top")
  /\ ok' = [ok EXCEPT ![w] = @ \union {req[w]}]
  /\ req' = [req EXCEPT ![w] = 0]
  /\ UNCHANGED <<phase, startup, ticker, totalReqs, err, queue, clock, report>>

\* Mutant: a failed request is not counted.
FailUncounted(w) ==
  /\ Step(w, "waiting", "top")
  /\ req' = [req EXCEPT ![w] = 0]
  /\ UNCHANGED <<phase, startup, ticker, totalReqs, ok, err, queue, clock, report>>

\* It fails, times out, or the deadline cuts it off.
Fail(w) ==
  /\ Step(w, "waiting", "top")
  /\ err' = [err EXCEPT ![w] = @ \union {req[w]}]
  /\ req' = [req EXCEPT ![w] = 0]
  /\ UNCHANGED <<phase, startup, ticker, totalReqs, ok, queue, clock, report>>

\* Mutant: statsCh is too small by one.
DeliverShort(w) ==
  /\ Cardinality(queue) < Cardinality(Workers) - 1
  /\ Step(w, "returning", "done")
  /\ queue' = queue \union {w}
  /\ UNCHANGED <<phase, startup, ticker, req, totalReqs, stats, clock, report>>

\* The statistics are put in statsCh, and the wait group is told.
Deliver(w) ==
  /\ Cardinality(queue) < Cardinality(Workers)
  /\ Step(w, "returning", "done")
  /\ queue' = queue \union {w}
  /\ UNCHANGED <<phase, startup, ticker, req, totalReqs, stats, clock, report>>

\* wg.Wait is over: main merges what is in statsCh.
Report ==
  /\ phase = "running" /\ \A w \in Workers : pc[w] = "done"
  /\ phase' = "reported"
  /\ report' = [ok |-> UNION {ok[w] : w \in queue}, err |-> UNION {err[w] : w \in queue}]
  /\ UNCHANGED <<startup, ticker, work, clock>>

-----------------------------------------------------------------------------

Startup ==
  \/ LoadKey \/ LoadTorn \/ Generate \/ Truncate \/ Save \/ SaveFails
  \/ CheckAuthorized \/ EnsureUsername

Work(w) ==
  \/ TakeTick(w) \/ Return(w) \/ Send(w) \/ Answer(w) \/ Fail(w) \/ Deliver(w)

Next ==
  \/ Startup \/ RivalGenerates \/ RivalWrites \/ Authorize \/ Again
  \/ Deadline \/ Tick \/ Report
  \/ \E w \in Workers : Pass(w) \/ Work(w)

Spec == Init /\ [][Next]_vars

\* The deadline passes, every request ends by -timeout, and the goroutines run.
Fairness ==
  /\ WF_vars(Deadline) /\ WF_vars(Report)
  /\ \A w \in Workers : WF_vars(Work(w))

FairSpec == Spec /\ Fairness

-----------------------------------------------------------------------------

Total == 1..totalReqs

StartupOK ==
  /\ phase \in {"loading", "generating", "writing", "checking", "naming", "running",
                "reported", "refused", "exited"}
  /\ made \in 0..MaxKeys /\ key \in 0..made /\ file \in -1..made /\ allow \subseteq Keys
  /\ rival \in {"absent", "generating", "writing", "gone"} /\ rivalKey \in 0..made
  /\ phase \notin {"loading", "exited"} => key \in Keys
  /\ muddled \in BOOLEAN

ClockOK ==
  /\ ended \in BOOLEAN /\ late \in 0..totalReqs
  /\ rated \in BOOLEAN /\ tick \in BOOLEAN /\ ticks \in Nat

WorkOK ==
  /\ pc \in [Workers -> {"idle", "top", "ticking", "sending", "waiting", "returning", "done"}]
  /\ req \in [Workers -> 0..totalReqs] /\ totalReqs \in Nat
  /\ \A w \in Workers : pc[w] = "waiting" <=> req[w] # 0
  /\ ok \in [Workers -> SUBSET Total] /\ err \in [Workers -> SUBSET Total]
  /\ queue = {w \in Workers : pc[w] = "done"}
  /\ phase \notin {"running", "reported"} => \A w \in Workers : pc[w] = "idle"

ReportOK == report \in [ok : SUBSET Total, err : SUBSET Total]

\* Type correctness: a worker has a request under way while it waits, and its
\* statistics are in statsCh once it is done.
TypeOK == StartupOK /\ ClockOK /\ WorkOK /\ ReportOK

\* The report counts every request that was started exactly once: none is dropped or
\* counted twice between the shared counter, the workers' statistics, the channel and
\* the merge, even those the deadline cuts off (runWorker, main).
ReportAddsUp ==
  phase = "reported" =>
    /\ report.ok \union report.err = Total
    /\ report.ok \cap report.err = {}
    /\ \A v, w \in Workers : v # w => (ok[v] \union err[v]) \cap (ok[w] \union err[w]) = {}

\* At most one request of each worker is begun after the deadline, in the gap between
\* the look at the context and the send (runWorker).
FewAreLate == ended => totalReqs - late <= Cardinality(Workers)

\* Together the workers never send more than -rate allows (the ticker they share).
RateKept == rated => totalReqs <= ticks

\* A key has to be authorized only once: the tool comes back with the same one,
\* unless two of them made one at the same time or the key could not be read
\* (loadIdentity; signing.go:24).
AuthorizedOnce ==
  phase = "refused" /\ key \notin allow /\ allow # {} => muddled

\* A run that has begun ends with a report: no worker is left blocked on statsCh, and
\* main is not left waiting for one (main).
RunEnds == phase = "running" ~> phase = "reported"

=============================================================================
