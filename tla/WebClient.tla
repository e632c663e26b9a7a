------------------------------ MODULE WebClient ------------------------------
(***************************************************************************)
(* The web application: App.jsx, which polls, refreshes and replaces its   *)
(* key, over api.js, which signs every call in several asynchronous steps, *)
(* and keys.js, which holds one key pair.  Calls are in flight together,   *)
(* and land in any order on whatever state there is by then.               *)
(*                                                                         *)
(* The server is what the other modules promise of it: it refuses a key    *)
(* that is not authorized or did not make the signature, and answers a     *)
(* poll with the first of the messages after the one named that the key    *)
(* may read.                                                               *)
(***************************************************************************)
EXTENDS Integers, Sequences, SequencesExt

CONSTANTS MaxKey,  \* bound of the keys this browser makes
          MaxId,   \* bound of the messages
          Slots    \* calls that can be in flight at once

ASSUME BoundsAssumption == MaxKey \in Nat \ {0} /\ MaxId \in Nat

VARIABLES
  authorized,  \* the server's allow list
  log,         \* its messages: [id, readers]
  phase,       \* what App is doing
  pair,        \* keys.js's pair, the one most recently made
  named,       \* whether App's chat has a username for this browser
  lastID, messages, polling,  \* App's cursor, transcript and guard
  call,        \* each slot's call
  straddled    \* history: a poll was in flight when the key was last replaced

serverVars == <<authorized, log>>
appVars    == <<phase, pair, named, lastID, messages, polling>>
vars       == <<serverVars, appVars, call, straddled>>

-----------------------------------------------------------------------------

Keys  == 1 .. MaxKey
Kinds == {"poll", "chat", "send", "name"}

\* No call, and a call that has just been made.
Free == [kind |-> "none", stage |-> "free", since |-> 0, cred |-> 0, sig |-> 0,
         answer |-> "none", batch |-> {}]
Made(kind, since) == [Free EXCEPT !.kind = kind, !.stage = "begun", !.since = since]

Calls == [kind : Kinds \union {"none"},
          stage : {"free", "begun", "keyed", "sent", "answered"},
          since : 0 .. MaxId, cred : 0 .. MaxKey, sig : 0 .. MaxKey,
          answer : {"none", "ok", "denied", "error"}, batch : SUBSET (1 .. MaxId)]

Message == [id : 1 .. MaxId, readers : SUBSET Keys]

Init ==
  /\ authorized \in SUBSET Keys
  /\ log = {}
  /\ phase = "starting"
  /\ pair = 1
  /\ named = FALSE
  /\ lastID = 0
  /\ messages = <<>>
  /\ polling = FALSE
  /\ call = [s \in Slots |-> Free]
  /\ straddled = FALSE

-----------------------------------------------------------------------------
(* The server and the people around it.                                    *)

Authorize(k) ==
  /\ authorized' = authorized \union {k}
  /\ UNCHANGED <<log, appVars, call, straddled>>

\* A message is stored, after all others.
Arrive(readers) ==
  LET ids == {m.id : m \in log}
  IN /\ MaxId \notin ids
     /\ \E i \in 1 .. MaxId :
          /\ ids = 1 .. i - 1
          /\ log' = log \union {[id |-> i, readers |-> readers]}
     /\ UNCHANGED <<authorized, appVars, call, straddled>>

Readable(k, since) == {m.id : m \in {n \in log : k \in n.readers /\ n.id > since}}

-----------------------------------------------------------------------------
(* App: the key is loaded, timers fire, people press buttons.              *)

\* loadKeys finds the stored pair, replaces one that does not import, or throws.
LoadKeys ==
  /\ phase = "starting"
  /\ \/ phase' = "ready" /\ pair' \in {pair, pair + 1} \intersect Keys
     \/ phase' = "broken" /\ UNCHANGED pair
  /\ UNCHANGED <<serverVars, named, lastID, messages, polling, call, straddled>>

\* pollMessages, up to its first await: one poll at a time.
StartPoll(s) ==
  /\ phase = "ready" /\ ~polling
  /\ call[s] = Free
  /\ call' = [call EXCEPT ![s] = Made("poll", lastID)]
  /\ polling' = TRUE
  /\ UNCHANGED <<serverVars, phase, pair, named, lastID, messages, straddled>>

Start(s, kind) ==
  /\ call[s] = Free
  /\ call' = [call EXCEPT ![s] = Made(kind, 0)]
  /\ UNCHANGED <<serverVars, appVars, straddled>>

\* The roster is refreshed while the app is running, and by Check again.
Refresh(s) == phase = "ready" /\ Start(s, "chat")
Retry(s)   == phase = "denied" /\ Start(s, "chat")

\* The compose bar, which sends for somebody who has a username, and the People panel.
Act(s) ==
  /\ phase = "ready"
  /\ (named /\ Start(s, "send")) \/ Start(s, "name")

\* Mutant: the cursor is kept.
NewKeyKeepingCursor ==
  /\ phase \in {"ready", "denied"}
  /\ pair < MaxKey
  /\ pair' = pair + 1
  /\ messages' = <<>>
  /\ phase' = "denied" /\ named' = FALSE
  /\ straddled' = polling
  /\ UNCHANGED <<serverVars, lastID, polling, call>>

\* createKeys has made a pair: App forgets everything of the old one but its calls.
NewKey ==
  /\ phase \in {"ready", "denied"}
  /\ pair < MaxKey
  /\ pair' = pair + 1
  /\ messages' = <<>>
  /\ lastID' = 0
  /\ phase' = "denied" /\ named' = FALSE
  /\ straddled' = polling
  /\ UNCHANGED <<serverVars, polling, call>>

\* The page is loaded again, with the stored pair.
Reload ==
  /\ phase' = "starting" /\ named' = FALSE
  /\ messages' = <<>>
  /\ lastID' = 0
  /\ polling' = FALSE
  /\ call' = [s \in Slots |-> Free]
  /\ straddled' = FALSE
  /\ UNCHANGED <<serverVars, pair>>

-----------------------------------------------------------------------------
(* api.js request: the public key and the private key are read in two      *)
(* steps, with others in between.                                          *)

ReadKey(s) ==
  /\ call[s].stage = "begun"
  /\ call' = [call EXCEPT ![s].stage = "keyed", ![s].cred = pair]
  /\ UNCHANGED <<serverVars, appVars, straddled>>

Sign(s) ==
  /\ call[s].stage = "keyed"
  /\ call' = [call EXCEPT ![s].stage = "sent", ![s].sig = pair]
  /\ UNCHANGED <<serverVars, appVars, straddled>>

Answered(s, answer, batch) ==
  call' = [call EXCEPT ![s].stage = "answered", ![s].answer = answer, ![s].batch = batch]

\* The answers to a call: a poll is answered with a first part of what there is.
Batches(c) ==
  LET ids == Readable(c.cred, c.since)
  IN IF c.kind # "poll" \/ ids = {} THEN {{}} ELSE {{i \in ids : i <= last} : last \in ids}

Serve(s) ==
  LET c == call[s]
      allowed == c.sig = c.cred /\ c.cred \in authorized
  IN /\ c.stage = "sent"
     /\ \/ allowed /\ \E batch \in Batches(c) : Answered(s, "ok", batch)
        \/ ~allowed /\ Answered(s, "denied", {})
     /\ UNCHANGED <<serverVars, appVars, straddled>>

\* The call or its answer is lost, or the server answers 5xx.
Break(s) ==
  /\ call[s].stage = "sent"
  /\ Answered(s, "error", {})
  /\ UNCHANGED <<serverVars, appVars, straddled>>

-----------------------------------------------------------------------------
(* Answers land.                                                           *)

Landing(s, kind, answer) ==
  call[s].stage = "answered" /\ call[s].kind = kind /\ call[s].answer = answer

Done(s) == call' = [call EXCEPT ![s] = Free]

\* A sequence has each of these ids once, in order.
InOrder(q, ids) ==
  /\ Range(q) = ids
  /\ \A i, j \in DOMAIN q : i < j => q[i] < q[j]

Ascending(ids) == CHOOSE q \in SeqOf(ids, MaxId) : InOrder(q, ids)

\* Messages come in the order of their ids.
PollLands(s) ==
  /\ Landing(s, "poll", "ok")
  /\ messages' = messages \o Ascending(call[s].batch)
  /\ \/ call[s].batch = {} /\ UNCHANGED lastID
     \/ \E i \in call[s].batch :
          /\ \A j \in call[s].batch : j <= i
          /\ lastID' = IF i > lastID THEN i ELSE lastID
  /\ polling' = FALSE
  /\ Done(s)
  /\ UNCHANGED <<serverVars, phase, pair, named, straddled>>

\* Mutant: the guard is put back only by a poll that was answered.
PollFailsKeepingGuard(s) ==
  /\ \E a \in {"denied", "error"} :
       /\ Landing(s, "poll", a)
       /\ phase' = IF a = "denied" THEN "denied" ELSE phase
  /\ Done(s)
  /\ UNCHANGED <<serverVars, pair, named, lastID, messages, polling, straddled>>

\* handle, and finally.
PollFails(s) ==
  /\ \E a \in {"denied", "error"} :
       /\ Landing(s, "poll", a)
       /\ phase' = IF a = "denied" THEN "denied" ELSE phase
  /\ polling' = FALSE
  /\ Done(s)
  /\ UNCHANGED <<serverVars, pair, named, lastID, messages, straddled>>

\* Mutant: an answered refresh only replaces the roster.
ChatLandsKeepingPhase(s) ==
  /\ Landing(s, "chat", "ok")
  /\ named' \in BOOLEAN
  /\ Done(s)
  /\ UNCHANGED <<serverVars, phase, pair, lastID, messages, polling, straddled>>

\* An answered refresh is how the 404 page recovers, and says who this browser is.
ChatLands(s) ==
  /\ Landing(s, "chat", "ok")
  /\ phase' = IF phase = "denied" THEN "ready" ELSE phase
  /\ named' \in BOOLEAN
  /\ Done(s)
  /\ UNCHANGED <<serverVars, pair, lastID, messages, polling, straddled>>

\* Failures of a refresh and of a send go to handle; those of setUsername stay
\* in the panel.
Fails(s) ==
  /\ \E k \in {"chat", "send", "name"}, a \in {"denied", "error"} :
       /\ Landing(s, k, a)
       /\ phase' = IF a = "denied" /\ k # "name" THEN "denied" ELSE phase
  /\ Done(s)
  /\ UNCHANGED <<serverVars, pair, named, lastID, messages, polling, straddled>>

\* A sent message is polled for at once, whatever the phase is by then, unless a
\* poll is in flight.
SendLands(s) ==
  /\ Landing(s, "send", "ok")
  /\ \/ polling /\ Done(s) /\ UNCHANGED polling
     \/ ~polling /\ polling' = TRUE /\ call' = [call EXCEPT ![s] = Made("poll", lastID)]
  /\ UNCHANGED <<serverVars, phase, pair, named, lastID, messages, straddled>>

\* A saved name is followed by a refresh.
NameLands(s) ==
  /\ Landing(s, "name", "ok")
  /\ call' = [call EXCEPT ![s] = Made("chat", 0)]
  /\ UNCHANGED <<serverVars, appVars, straddled>>

Land(s) == PollLands(s) \/ PollFails(s) \/ ChatLands(s) \/ Fails(s) \/ SendLands(s) \/ NameLands(s)

-----------------------------------------------------------------------------

Next ==
  \/ \E k \in Keys : Authorize(k)
  \/ \E readers \in SUBSET Keys : Arrive(readers)
  \/ LoadKeys \/ NewKey \/ Reload
  \/ \E s \in Slots :
       \/ StartPoll(s) \/ Refresh(s) \/ Retry(s) \/ Act(s)
       \/ ReadKey(s) \/ Sign(s) \/ Serve(s) \/ Break(s)
       \/ PollLands(s) \/ PollFails(s) \/ ChatLands(s) \/ Fails(s)
       \/ SendLands(s) \/ NameLands(s)

Spec == Init /\ [][Next]_vars

\* Timers keep firing, calls come to an end, and not every call breaks.
Fairness ==
  /\ WF_vars(LoadKeys)
  /\ SF_vars(\E s \in Slots : StartPoll(s))
  /\ SF_vars(\E s \in Slots : Refresh(s))
  /\ \A s \in Slots :
       WF_vars(ReadKey(s)) /\ WF_vars(Sign(s)) /\ SF_vars(Serve(s)) /\ WF_vars(Land(s))

FairSpec == Spec /\ Fairness

\* The same, with somebody pressing Check again.
AskingSpec == FairSpec /\ SF_vars(\E s \in Slots : Retry(s))

-----------------------------------------------------------------------------
(* Properties.                                                             *)

\* Every variable has its type, and the guard says whether a poll is in flight.
TypeOK ==
  /\ authorized \subseteq Keys
  /\ log \subseteq Message
  /\ phase \in {"starting", "ready", "denied", "broken"}
  /\ pair \in Keys
  /\ named \in BOOLEAN
  /\ lastID \in 0 .. MaxId
  /\ messages \in Seq(1 .. MaxId)
  /\ polling = (\E s \in Slots : call[s].kind = "poll")
  /\ call \in [Slots -> Calls]
  /\ straddled \in BOOLEAN

\* The transcript is what this key may read up to lastID, in order and once,
\* unless a poll straddled the replacement of the key: no other order of calls,
\* refusals, failures, new keys and reloads loses, repeats or mixes messages
\* (pollMessages, newKey).
TranscriptIsExact ==
  ~straddled =>
    InOrder(messages, {i \in Readable(pair, 0) : i <= lastID})

\* Also where a poll did straddle the replacement of its key, nothing is shown twice or
\* out of order, and nothing that was not addressed to a key this browser has had: such
\* a poll can only make a gap (pollMessages's guard, newKey).
TranscriptIsOwn ==
  /\ InOrder(messages, Range(messages))
  /\ \A i \in Range(messages) :
       \E m \in log : m.id = i /\ m.readers \intersect (1 .. pair) # {}

\* Every poll ends and gives the guard back, whatever it is answered (the finally
\* of pollMessages).
PollsEnd == polling ~> ~polling

\* A browser whose key is authorized leaves the 404 page, or asks for a key that
\* is not: if somebody presses Check again it does (refreshChat), and
\* webapp/README.md says that it does so on its own.
TurnedAway == phase = "denied" /\ pair \in authorized
LetIn == TurnedAway ~> ~TurnedAway

=============================================================================
