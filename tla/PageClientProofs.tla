--------------------------- MODULE PageClientProofs ---------------------------
(***************************************************************************)
(* Proofs about PageClient, for any number of tasks, edits and messages:   *)
(* every callback is a step of a client that polls as Polls says, and the  *)
(* results on show are for what is in the search box.                      *)
(***************************************************************************)
EXTENDS PageClient, TLAPS

\* What every step preserves, and what makes it a step of Polls.
CallTypes ==
  /\ server \in Servers /\ lastID \in 0..MaxId
  /\ at = [t \in Tasks |-> at[t]]
  /\ since \in [Tasks -> 0..MaxId]
  /\ srv \in [Tasks -> Servers]
  /\ asked = [t \in Tasks |-> asked[t]]
  /\ crossed \in BOOLEAN /\ armed \in BOOLEAN

\* Once the debouncing timer is not set, the results are for what is in the box or a
\* search of it is under way, beside however many of older ones.
SearchInv ==
  ~crossed /\ ~armed => results = box \/ \E t \in Tasks : Searching(t) /\ asked[t] = box

-----------------------------------------------------------------------------
(* Calls.                                                                  *)

\* Going on with no call, or making one other than a poll, is a move of Polls, and
\* leaves the other tasks alone.
LEMMA GotoMoves ==
  ASSUME CallTypes, NEW t \in Tasks, NEW where, where # "polling", Goto(t, where)
  PROVE  /\ Move(t) /\ at'[t] = where /\ overlapped' = overlapped
         /\ since' \in [Tasks -> 0..MaxId] /\ srv' \in [Tasks -> Servers]
         /\ at' = [u \in Tasks |-> at'[u]]
         /\ \A u \in Tasks \ {t} : at'[u] = at[u]
<1>1. 0 \in 0..MaxId /\ 1 \in Servers
  BY MaxIdAssumption, MaxServerAssumption DEF Servers
<1> QED
  BY <1>1 DEF CallTypes, Goto, Move

LEMMA CallMoves ==
  ASSUME CallTypes, NEW t \in Tasks, NEW where, where # "polling", Call(t, where)
  PROVE  /\ Move(t) /\ at'[t] = where /\ overlapped' = overlapped
         /\ since' \in [Tasks -> 0..MaxId] /\ srv' \in [Tasks -> Servers]
         /\ at' = [u \in Tasks |-> at'[u]]
         /\ \A u \in Tasks \ {t} : at'[u] = at[u]
BY DEF CallTypes, Call, Move

\* A poll is asked with the cursor of the moment.
LEMMA AskPollTypes ==
  ASSUME CallTypes, NEW t \in Tasks, AskPoll(t)
  PROVE  /\ at'[t] = "polling"
         /\ since' \in [Tasks -> 0..MaxId] /\ srv' \in [Tasks -> Servers]
         /\ at' = [u \in Tasks |-> at'[u]]
         /\ \A u \in Tasks \ {t} : at'[u] = at[u]
BY DEF CallTypes, AskPoll

\* A task asks about something, or rests: the other tasks have asked what they have.
LEMMA AskTypes ==
  ASSUME CallTypes, NEW t \in Tasks, NEW what, Ask(t, what)
  PROVE  /\ asked' = [u \in Tasks |-> asked'[u]] /\ asked'[t] = what
         /\ \A u \in Tasks \ {t} : asked'[u] = asked[u]
BY DEF CallTypes, Ask

LEMMA RestTypes ==
  ASSUME CallTypes, NEW t \in Tasks, Rest(t)
  PROVE  /\ asked' = [u \in Tasks |-> asked'[u]]
         /\ \A u \in Tasks \ {t} : asked'[u] = asked[u]
BY DEF CallTypes, Rest

\* What a step of task t does to the calls.
TaskStep(t) ==
  /\ since' \in [Tasks -> 0..MaxId] /\ srv' \in [Tasks -> Servers]
  /\ at' = [u \in Tasks |-> at'[u]]
  /\ asked' = [u \in Tasks |-> asked'[u]]
  /\ \A u \in Tasks \ {t} : at'[u] = at[u] /\ asked'[u] = asked[u]

-----------------------------------------------------------------------------
(* The steps, by what they do to the calls and to the transcript.          *)

\* A step that goes on with something other than a poll, and leaves the transcript.
LEMMA StepsElsewhere ==
  ASSUME CallTypes, NEW t \in Tasks,
         \/ Refresh(t) \/ Send(t) \/ Edit(t) \/ Search(t)
         \/ RefreshLands(t) \/ Edited(t) \/ EditLands(t) \/ SearchLands(t)
         \/ Reload(t) \/ Reloaded(t) \/ PollFails(t) \/ CallFails(t)
         \/ t = Boot /\ (Load \/ LoadFails)
  PROVE  Elsewhere(t) /\ TaskStep(t)
<1> USE DEF Elsewhere, TaskStep
<1>1. CASE Refresh(t)
  BY <1>1, CallMoves, AskTypes DEF Refresh
<1>2. CASE Send(t)
  BY <1>2, GotoMoves, AskTypes DEF Send
<1>3. CASE Edit(t)
  BY <1>3, CallMoves, AskTypes DEF Edit
<1>4. CASE Search(t)
  BY <1>4, CallMoves, AskTypes DEF Search, AskSearch
<1>5. CASE RefreshLands(t)
  BY <1>5, GotoMoves, RestTypes DEF RefreshLands
<1>6. CASE Edited(t)
  BY <1>6, CallMoves DEF Edited, CallTypes
<1>7. CASE EditLands(t)
  BY <1>7, CallMoves, AskTypes DEF EditLands, AskSearch
<1>8. CASE SearchLands(t)
  BY <1>8, GotoMoves, RestTypes DEF SearchLands
<1>9. CASE Reload(t)
  BY <1>9, CallMoves, AskTypes DEF Reload
<1>10. CASE Reloaded(t)
  BY <1>10, CallMoves, AskTypes DEF Reloaded, AskSearch
<1>11. CASE PollFails(t)
  BY <1>11, GotoMoves, RestTypes DEF PollFails
<1>12. CASE CallFails(t)
  BY <1>12, GotoMoves, RestTypes DEF CallFails
<1>13. CASE t = Boot /\ Load
  BY <1>13, CallMoves, AskTypes DEF Load
<1>14. CASE t = Boot /\ LoadFails
  BY <1>14, GotoMoves, RestTypes DEF LoadFails
<1> QED
  BY <1>1, <1>2, <1>3, <1>4, <1>5, <1>6, <1>7, <1>8, <1>9, <1>10, <1>11, <1>12, <1>13, <1>14

\* A step that asks a poll.
LEMMA StepsAsk ==
  ASSUME CallTypes, NEW t \in Tasks, Poll(t) \/ Sent(t) \/ (t = Boot /\ Loaded)
  PROVE  Asks(t) /\ TaskStep(t) /\ at'[t] = "polling"
BY AskPollTypes, AskTypes DEF Poll, Sent, Loaded, Asks, TaskStep

\* A step in which the answer to a poll lands.
LEMMA StepsLand ==
  ASSUME CallTypes, NEW t \in Tasks, NEW n \in 0..MaxId, PollLands(t, n)
  PROVE  Lands(t, n) /\ TaskStep(t) /\ at'[t] = "idle" /\ lastID' \in 0..MaxId
<1>1. Lands(t, n) /\ TaskStep(t) /\ at'[t] = "idle"
  BY GotoMoves, RestTypes DEF PollLands, Lands, TaskStep
<1>2. lastID' \in 0..MaxId
  BY <1>1 DEF Lands, Append_, Larger, CallTypes
<1> QED
  BY <1>1, <1>2

\* The other steps leave the calls alone.
LEMMA StepsOutside ==
  ASSUME Authorize \/ Type \/ MessageArrives \/ UNCHANGED vars
  PROVE  /\ UNCHANGED pollVars \/ Arrive
         /\ UNCHANGED <<server, transcript, calls, asked>>
<1>1. CASE Authorize \/ Type \/ UNCHANGED vars
  BY <1>1 DEF Authorize, Type, vars, pollVars
<1>2. CASE MessageArrives
  BY <1>2 DEF MessageArrives, Arrive
<1> QED
  BY <1>1, <1>2

\* Every step is one of these.
LEMMA StepKinds ==
  ASSUME CallTypes, [Next]_vars
  PROVE  \/ Authorize \/ Type \/ MessageArrives \/ UNCHANGED vars
         \/ \E t \in Tasks : Elsewhere(t) /\ TaskStep(t)
         \/ \E t \in Tasks : Asks(t) /\ TaskStep(t)
         \/ \E t \in Tasks, n \in 0..MaxId : Lands(t, n) /\ TaskStep(t) /\ lastID' \in 0..MaxId
<1>1. CASE Authorize \/ Type \/ MessageArrives \/ UNCHANGED vars
  BY <1>1
<1>2. CASE Load \/ LoadFails
  BY <1>2, BootAssumption, StepsElsewhere
<1>3. CASE Loaded
  BY <1>3, BootAssumption, StepsAsk
<1>4. ASSUME NEW t \in Tasks, Begins(t)
      PROVE  (Elsewhere(t) /\ TaskStep(t)) \/ (Asks(t) /\ TaskStep(t))
  BY <1>4, StepsElsewhere, StepsAsk DEF Begins
<1>5. ASSUME NEW t \in Tasks, Ends(t)
      PROVE  \/ (Elsewhere(t) /\ TaskStep(t)) \/ (Asks(t) /\ TaskStep(t))
             \/ \E n \in 0..MaxId : Lands(t, n) /\ TaskStep(t) /\ lastID' \in 0..MaxId
  <2>1. CASE \E n \in 0..MaxId : PollLands(t, n)
    BY <2>1, StepsLand
  <2>2. CASE Sent(t)
    BY <2>2, StepsAsk
  <2> QED
    BY <1>5, <2>1, <2>2, StepsElsewhere DEF Ends
<1> QED
  BY <1>1, <1>2, <1>3, <1>4, <1>5 DEF Next

\* Hence the types are preserved, and every step is one of Polls.
LEMMA CallTypesStep ==
  ASSUME CallTypes, [Next]_vars
  PROVE  CallTypes'
<1>1. /\ server' = server /\ lastID' \in 0..MaxId
      /\ at' = [t \in Tasks |-> at'[t]] /\ asked' = [t \in Tasks |-> asked'[t]]
      /\ since' \in [Tasks -> 0..MaxId] /\ srv' \in [Tasks -> Servers]
  <2>1. CASE Authorize \/ Type \/ MessageArrives \/ UNCHANGED vars
    BY <2>1, StepsOutside DEF CallTypes, transcript, calls
  <2>2. CASE \E t \in Tasks : Elsewhere(t) /\ TaskStep(t)
    BY <2>2 DEF CallTypes, Elsewhere, TaskStep, transcript
  <2>3. CASE \E t \in Tasks : Asks(t) /\ TaskStep(t)
    BY <2>3 DEF CallTypes, Asks, TaskStep, transcript
  <2>4. CASE \E t \in Tasks, n \in 0..MaxId :
               Lands(t, n) /\ TaskStep(t) /\ lastID' \in 0..MaxId
    BY <2>4 DEF CallTypes, Lands, TaskStep
  <2> QED
    BY <2>1, <2>2, <2>3, <2>4, StepKinds
<1>2. crossed' \in BOOLEAN /\ armed' \in BOOLEAN
  <2>1. CASE UNCHANGED <<crossed, armed>>
    BY <2>1 DEF CallTypes
  <2>2. ASSUME NEW t \in Tasks, SearchLands(t) \/ CallFails(t)
        PROVE  crossed' \in BOOLEAN /\ armed' \in BOOLEAN
    BY <2>2 DEF CallTypes, SearchLands, CallFails
  <2>3. CASE Type
    BY <2>3 DEF CallTypes, Type
  <2>4. CASE Authorize \/ Load \/ Loaded \/ LoadFails \/ MessageArrives \/ UNCHANGED vars
    BY <2>1, <2>4 DEF Authorize, Load, Loaded, LoadFails, MessageArrives, vars, search
  <2>5. ASSUME NEW t \in Tasks, Begins(t)
        PROVE  crossed' \in BOOLEAN /\ armed' \in BOOLEAN
    BY <2>1, <2>5 DEF CallTypes, Begins, Poll, Refresh, Send, Edit, Search, search
  <2>6. ASSUME NEW t \in Tasks, Ends(t)
        PROVE  crossed' \in BOOLEAN /\ armed' \in BOOLEAN
    BY <2>1, <2>2, <2>6
    DEF Ends, Sent, RefreshLands, Edited, EditLands, Reload, Reloaded, PollFails, PollLands,
        search
  <2> QED
    BY <2>3, <2>4, <2>5, <2>6 DEF Next
<1> QED
  BY <1>1, <1>2 DEF CallTypes

LEMMA CallTypesInit == Init => CallTypes
<1> SUFFICES ASSUME Init PROVE CallTypes
  OBVIOUS
<1>1. 0 \in 0..MaxId /\ 1 \in Servers
  BY MaxIdAssumption, MaxServerAssumption DEF Servers
<1> QED
  BY <1>1 DEF Init, PollInit, CallTypes

LEMMA StepsArePolls == CallTypes /\ [Next]_vars => [PollNext]_pollVars
<1> SUFFICES ASSUME CallTypes, [Next]_vars PROVE [PollNext]_pollVars
  OBVIOUS
<1>1. CASE Authorize \/ Type \/ MessageArrives \/ UNCHANGED vars
  BY <1>1, StepsOutside DEF PollNext
<1> QED
  BY <1>1, StepKinds DEF PollNext

-----------------------------------------------------------------------------
(* The search.                                                             *)

\* A search is run of what is in the box.
LEMMA SearchAsked ==
  ASSUME CallTypes, NEW t \in Tasks, AskSearch(t), UNCHANGED box
  PROVE  SearchInv'
<1>1. at'[t] = "searching" /\ asked'[t] = box
  BY CallMoves, AskTypes DEF AskSearch
<1> QED
  BY <1>1 DEF SearchInv, Searching

\* A step of a task that was not searching, or was for something older, leaves the
\* search of what is in the box to go on.
LEMMA SearchLeft ==
  ASSUME CallTypes, SearchInv, NEW t \in Tasks, Searching(t) => asked[t] # box,
         TaskStep(t), UNCHANGED <<box, armed, results>>, crossed' = crossed
  PROVE  SearchInv'
<1>1. \A u \in Tasks : Searching(u) /\ asked[u] = box => Searching(u)' /\ asked'[u] = box
  BY DEF TaskStep, Searching
<1> QED
  BY <1>1 DEF SearchInv

LEMMA SearchInvStep ==
  ASSUME CallTypes, SearchInv, [Next]_vars
  PROVE  SearchInv'
<1>1. CASE Authorize \/ MessageArrives \/ UNCHANGED vars
  <2>1. UNCHANGED <<at, asked, box, armed, results, crossed>>
    BY <1>1, StepsOutside DEF Authorize, MessageArrives, vars, search, calls
  <2> QED
    BY <2>1 DEF SearchInv, Searching
<1>2. CASE Type
  BY <1>2 DEF Type, SearchInv
<1>3. CASE Load \/ Loaded \/ LoadFails
  <2>1. TaskStep(Boot) /\ UNCHANGED search /\ ~Searching(Boot)
    BY <1>3, BootAssumption, StepsElsewhere, StepsAsk DEF Load, Loaded, LoadFails, Searching
  <2> QED
    BY <2>1, BootAssumption, SearchLeft DEF search
<1>4. ASSUME NEW t \in Tasks, Poll(t) \/ Refresh(t) \/ Send(t) \/ Edit(t) \/ Sent(t)
             \/ RefreshLands(t) \/ Edited(t) \/ Reload(t) \/ PollFails(t)
             \/ \E n \in 0..MaxId : PollLands(t, n)
      PROVE  SearchInv'
  <2>1. TaskStep(t)
    BY <1>4, StepsElsewhere, StepsAsk, StepsLand
  <2>2. UNCHANGED search /\ ~Searching(t)
    BY <1>4 DEF Poll, Refresh, Send, Edit, Free, Sent, RefreshLands, Edited, Reload, PollFails,
                PollLands, Searching
  <2> QED
    BY <2>1, <2>2, SearchLeft DEF search
<1>5. ASSUME NEW t \in Tasks, Search(t) \/ EditLands(t) \/ Reloaded(t)
      PROVE  SearchInv'
  <2>1. AskSearch(t) /\ UNCHANGED box
    BY <1>5 DEF Search, EditLands, Reloaded, search
  <2> QED
    BY <2>1, SearchAsked
<1>6. ASSUME NEW t \in Tasks, SearchLands(t) PROVE SearchInv'
  <2>1. /\ results' = asked[t] /\ UNCHANGED <<box, armed>>
        /\ crossed' = IF asked[t] = box THEN FALSE ELSE crossed \/ results = box
        /\ TaskStep(t)
    BY <1>6, StepsElsewhere DEF SearchLands
  <2>2. CASE asked[t] = box
    BY <2>1, <2>2 DEF SearchInv
  <2>3. CASE asked[t] # box
    <3> SUFFICES ASSUME ~crossed', ~armed'
                 PROVE  \E u \in Tasks : Searching(u)' /\ asked'[u] = box'
      BY DEF SearchInv
    <3>1. PICK u \in Tasks : Searching(u) /\ asked[u] = box
      BY <2>1, <2>3 DEF SearchInv
    <3>2. Searching(u)' /\ asked'[u] = box'
      BY <2>1, <2>3, <3>1 DEF TaskStep, Searching
    <3> QED
      BY <3>2
  <2> QED
    BY <2>2, <2>3
<1>7. ASSUME NEW t \in Tasks, CallFails(t) PROVE SearchInv'
  <2>1. /\ UNCHANGED <<box, armed, results>> /\ TaskStep(t)
        /\ crossed' = (crossed \/ (Searching(t) /\ asked[t] = box /\ results # box))
    BY <1>7, StepsElsewhere DEF CallFails
  <2>2. CASE Searching(t) /\ asked[t] = box
    BY <2>1, <2>2 DEF SearchInv
  <2>3. CASE ~(Searching(t) /\ asked[t] = box)
    BY <2>1, <2>3, SearchLeft DEF CallTypes
  <2> QED
    BY <2>2, <2>3
<1> QED
  BY <1>1, <1>2, <1>3, <1>4, <1>5, <1>6, <1>7 DEF Next, Begins, Ends

LEMMA SearchInvInit == Init => SearchInv
BY DEF Init, SearchInv

-----------------------------------------------------------------------------
(* The theorems.                                                           *)

PageInv == CallTypes /\ SearchInv

\* The inductive invariant holds in every reachable state of the page.
THEOREM PageInvariance == Spec => []PageInv
<1>1. Init => PageInv
  BY CallTypesInit, SearchInvInit DEF PageInv
<1>2. PageInv /\ [Next]_vars => PageInv'
  BY CallTypesStep, SearchInvStep DEF PageInv
<1> QED
  BY <1>1, <1>2, PTL DEF Spec

\* The results on show are for what is in the search box, once its timer and every
\* search have come to rest, however many are under way at once, unless an older one is
\* answered after the one for the box or that one fails (runSearch).
THEOREM ResultsAreExplained == Spec => []ResultsExplained
<1>1. PageInv => ResultsExplained
  BY DEF PageInv, SearchInv, ResultsExplained
<1> QED
  BY <1>1, PageInvariance, PTL

\* In all of its callbacks the page polls as Polls says (poll, send, init), so that
\* what is proved of every such client is true of its transcript.
THEOREM PagePolls == Spec => ImplementsPolls
<1>1. Init => PollInit
  BY DEF Init
<1>2. PageInv /\ [Next]_vars => [PollNext]_pollVars
  BY StepsArePolls DEF PageInv
<1> QED
  BY <1>1, <1>2, PageInvariance, PTL DEF Spec, ImplementsPolls, PollSpec

=============================================================================
