------------------------------ MODULE PageClient ------------------------------
(***************************************************************************)
(* The page templates/index.html.  JavaScript runs one callback at a time: *)
(* what stands between two awaits is one action, and at every await other  *)
(* callbacks may run.  Nothing orders the answers: a timer, a click and a  *)
(* key press each start a task, and each task writes what it was answered. *)
(*                                                                         *)
(* The chat, with the name, is a version that edits raise; the search box  *)
(* is the number of times it was typed in.                                 *)
(***************************************************************************)
EXTENDS Polls, FiniteSets

CONSTANTS Boot,      \* the task of init
          MaxEdits,  \* bound: edits of the chat
          MaxTyped   \* bound: changes of the search box

ASSUME BootAssumption == Boot \in Tasks

VARIABLES
  allowed,  \* the key is on the server's allow list
  gate,     \* the page shows its key, to be authorized
  timers,   \* init has ended and started the timers
  asked,    \* what a task has asked about: a version of the chat, or the box
  barred,   \* the tasks whose call was made before the key was allowed
  chat,     \* the version of the chat on the server
  roster,   \* the version on show, or -1
  box,      \* the search box
  armed,    \* its debouncing timer is set
  results,  \* the box that the results on show are for
  crossed   \* history: since the box last changed, the results for it have been replaced
            \* by the answer to an older search, or the search for them has failed

auth   == <<allowed, gate>>
people == <<chat, roster>>
search == <<box, armed, results, crossed>>
vars   == <<pollVars, auth, timers, asked, barred, people, search>>

Init ==
  /\ PollInit
  /\ allowed \in BOOLEAN /\ gate = FALSE
  /\ timers = FALSE
  /\ asked = [t \in Tasks |-> 0]
  /\ barred = {}
  /\ chat = 0 /\ roster = -1
  /\ box = 0 /\ armed = FALSE /\ results = 0 /\ crossed = FALSE

-----------------------------------------------------------------------------
(* signedFetch.                                                            *)

\* A task sends a request about something; every request is signed and may be refused.
Ask(t, what) ==
  /\ asked' = [asked EXCEPT ![t] = what]
  /\ barred' = IF allowed THEN barred \ {t} ELSE barred \union {t}

\* A task of the timers or of the user's: init's is one of these once init has ended.
Free(t) == at[t] = "idle" /\ (t = Boot => timers)

\* Mutant: an answer leaves the gate as it is.
AnsweredBehindGate == allowed /\ UNCHANGED auth

\* The request is answered: the key was allowed, and the gate is taken away.
Answered == allowed /\ gate' = FALSE /\ UNCHANGED allowed

Rest(t) ==
  /\ asked' = [asked EXCEPT ![t] = 0]
  /\ barred' = barred \ {t}

\* 403, before the key was allowed, raises the gate; a call that is lost leaves it,
\* and an answer with any other status takes it away.
Failure(t) ==
  /\ gate' \in {FALSE, gate, gate \/ t \in barred}
  /\ UNCHANGED allowed

\* The administrator authorizes the key.
Authorize ==
  /\ ~allowed /\ allowed' = TRUE
  /\ UNCHANGED <<pollVars, gate, timers, asked, barred, people, search>>

-----------------------------------------------------------------------------
(* init: the chat, then a poll, then the timers; or the timers at once.    *)

Load ==
  /\ at[Boot] = "idle" /\ ~timers
  /\ Call(Boot, "loading")
  /\ Ask(Boot, chat)
  /\ UNCHANGED <<server, log, transcript, auth, timers, people, search>>

Loaded ==
  /\ at[Boot] = "loading"
  /\ Answered
  /\ roster' \in asked[Boot]..chat
  /\ AskPoll(Boot) /\ Ask(Boot, 0)
  /\ UNCHANGED <<server, log, transcript, timers, chat, search>>

\* Mutant: a page that is refused waits to be loaded again.
LoadFailsForGood ==
  /\ at[Boot] = "loading"
  /\ Failure(Boot)
  /\ Goto(Boot, "failed") /\ Rest(Boot)
  /\ UNCHANGED <<server, log, transcript, timers, people, search>>

LoadFails ==
  /\ at[Boot] = "loading"
  /\ Failure(Boot)
  /\ Goto(Boot, "idle") /\ Rest(Boot)
  /\ timers' = TRUE
  /\ UNCHANGED <<server, log, transcript, people, search>>

-----------------------------------------------------------------------------
(* poll and send.                                                          *)

\* Mutant: the timer's poll leaves out the cursor.
PollWithoutCursor(t) ==
  /\ timers /\ at[t] = "idle"
  /\ Call(t, "polling") /\ Ask(t, 0)
  /\ UNCHANGED <<server, log, transcript, auth, timers, people, search>>

Poll(t) ==
  /\ timers /\ at[t] = "idle"
  /\ AskPoll(t) /\ Ask(t, 0)
  /\ UNCHANGED <<server, log, transcript, auth, timers, people, search>>

PollLands(t, n) ==
  /\ at[t] = "polling"
  /\ Answered
  /\ Append_(t, n)
  /\ Goto(t, "idle") /\ Rest(t)
  /\ timers' = (timers \/ t = Boot)
  /\ UNCHANGED <<server, log, people, search>>

PollFails(t) ==
  /\ at[t] = "polling"
  /\ Failure(t)
  /\ Goto(t, "idle") /\ Rest(t)
  /\ timers' = (timers \/ t = Boot)
  /\ UNCHANGED <<server, log, transcript, people, search>>

\* A message is sent, once the page has a username.
Send(t) ==
  /\ Free(t)
  /\ roster # -1
  /\ Goto(t, "posting") /\ Ask(t, 0)
  /\ UNCHANGED <<server, log, transcript, auth, timers, people, search>>

\* Whatever the answer to it, send polls.
Sent(t) ==
  /\ at[t] = "posting"
  /\ Answered
  /\ AskPoll(t) /\ Ask(t, 0)
  /\ UNCHANGED <<server, log, transcript, timers, people, search>>

-----------------------------------------------------------------------------
(* refreshChat, editChat, saveUsername and runSearch.                      *)

Refresh(t) ==
  /\ timers /\ at[t] = "idle"
  /\ Call(t, "refreshing") /\ Ask(t, chat)
  /\ UNCHANGED <<server, log, transcript, auth, timers, people, search>>

\* Mutant: the roster on show is kept.
RefreshLandsOnce(t) ==
  /\ at[t] = "refreshing"
  /\ Answered
  /\ roster' = IF roster = -1 THEN chat ELSE roster
  /\ Goto(t, "idle") /\ Rest(t)
  /\ UNCHANGED <<server, log, transcript, timers, chat, search>>

\* The chat was read at some moment since it was asked for, and is shown now.
RefreshLands(t) ==
  /\ at[t] = "refreshing"
  /\ Answered
  /\ roster' \in asked[t]..chat
  /\ Goto(t, "idle") /\ Rest(t)
  /\ UNCHANGED <<server, log, transcript, timers, chat, search>>

Edit(t) ==
  /\ Free(t)
  /\ roster # -1
  /\ Call(t, "editing") /\ Ask(t, 0)
  /\ UNCHANGED <<server, log, transcript, auth, timers, people, search>>

\* The server makes the edit, of the chat or of this user's name.
Edited(t) ==
  /\ at[t] = "editing" /\ allowed
  /\ chat < MaxEdits /\ chat' = chat + 1
  /\ Call(t, "edited")
  /\ asked' = [asked EXCEPT ![t] = chat']
  /\ UNCHANGED <<server, log, transcript, auth, timers, barred, roster, search>>

Searching(t) == at[t] = "searching"

\* runSearch, of what is in the box now.
AskSearch(t) ==
  /\ Call(t, "searching") /\ Ask(t, box)

\* The answer to the edit is the chat, and the search is run again.
EditLands(t) ==
  /\ at[t] = "edited"
  /\ Answered
  /\ roster' = asked[t]
  /\ AskSearch(t)
  /\ UNCHANGED <<server, log, transcript, timers, chat, search>>

\* A name is saved: the page reads the chat anew, and then the search is run again.
Reload(t) ==
  /\ at[t] = "edited"
  /\ Answered
  /\ Call(t, "reloading") /\ Ask(t, chat)
  /\ UNCHANGED <<server, log, transcript, timers, people, search>>

Reloaded(t) ==
  /\ at[t] = "reloading"
  /\ Answered
  /\ roster' \in asked[t]..chat
  /\ AskSearch(t)
  /\ UNCHANGED <<server, log, transcript, timers, chat, search>>

\* Mutant: the debouncing timer is not set anew.
TypeUnarmed ==
  /\ box < MaxTyped /\ box' = box + 1
  /\ armed' = armed /\ crossed' = FALSE
  /\ UNCHANGED <<pollVars, auth, timers, asked, barred, people, results>>

Type ==
  /\ box < MaxTyped /\ box' = box + 1
  /\ armed' = TRUE /\ crossed' = FALSE
  /\ UNCHANGED <<pollVars, auth, timers, asked, barred, people, results>>

\* The debouncing timer fires, or the panel is opened.
Search(t) ==
  /\ Free(t)
  /\ AskSearch(t)
  /\ armed' \in {FALSE, armed}
  /\ UNCHANGED <<server, log, transcript, auth, timers, people, box, results, crossed>>

\* The results are for what was asked about, whatever is in the box by now.
SearchLands(t) ==
  /\ Searching(t)
  /\ Answered
  /\ results' = asked[t]
  /\ crossed' = IF asked[t] = box THEN FALSE ELSE crossed \/ results = box
  /\ Goto(t, "idle") /\ Rest(t)
  /\ UNCHANGED <<server, log, transcript, timers, people, box, armed>>

\* A call other than a poll fails: its catch does nothing.
CallFails(t) ==
  /\ at[t] \in {"posting", "refreshing", "editing", "edited", "reloading", "searching"}
  /\ Failure(t)
  /\ crossed' = (crossed \/ (Searching(t) /\ asked[t] = box /\ results # box))
  /\ Goto(t, "idle") /\ Rest(t)
  /\ UNCHANGED <<server, log, transcript, timers, people, box, armed, results>>

-----------------------------------------------------------------------------

MessageArrives ==
  /\ Arrive
  /\ UNCHANGED <<auth, timers, asked, barred, people, search>>

Begins(t) == Poll(t) \/ Refresh(t) \/ Send(t) \/ Edit(t) \/ Search(t)

Ends(t) ==
  \/ Sent(t) \/ RefreshLands(t) \/ Edited(t) \/ EditLands(t) \/ SearchLands(t)
  \/ Reload(t) \/ Reloaded(t)
  \/ PollFails(t) \/ CallFails(t) \/ \E n \in 0..MaxId : PollLands(t, n)

Next ==
  \/ Authorize \/ Load \/ Loaded \/ LoadFails \/ Type \/ MessageArrives
  \/ \E t \in Tasks : Begins(t) \/ Ends(t)

Spec == Init /\ [][Next]_vars

\* Every call ends, the timers fire, and not every request fails.
Fairness ==
  /\ WF_vars(Load) /\ WF_vars(Loaded \/ LoadFails)
  /\ \A t \in Tasks : WF_vars(Ends(t))
  /\ SF_vars(\E t \in Tasks : Poll(t)) /\ SF_vars(\E t \in Tasks : Refresh(t))
  /\ SF_vars(\E t \in Tasks : RefreshLands(t) /\ roster' = chat)
  /\ SF_vars(\E t \in Tasks : \E n \in 1..MaxId : n > since[t] /\ PollLands(t, n))

FairSpec == Spec /\ Fairness

-----------------------------------------------------------------------------

\* The results on show are for what is in the box, once the debouncing timer and
\* every search have come to rest, however key presses, edits and several searches at
\* once interleave -- unless the answer to a search of an older box has come after that
\* to the newer one, or the search of this box has failed (runSearch, which looks at
\* neither, and the listener of the box).
ResultsExplained ==
  ~armed /\ ~crossed /\ (\A t \in Tasks : ~Searching(t)) => results = box

\* The page recovers by itself once the key is authorized, and the gate does not come
\* back: a refusal that is late may raise it for a moment only (init's comment).
Recovers == allowed ~> []~gate

\* Every message is shown in the end, also on a page that was refused at first.
EventuallyShown ==
  \A n \in 1..MaxId :
    allowed /\ log[server] >= n ~> \E i \in DOMAIN messages : messages[i] = <<server, n>>

\* The roster on show is the chat again and again, although a refresh that was asked
\* before an edit may be answered after it and bring back the chat of before.
RosterSettles == allowed ~> roster = chat

\* The page polls as Polls says, in all of its callbacks, so that its transcript has
\* what is proved of every such client: nothing is missed, and only overlapping polls
\* repeat anything.
ImplementsPolls == PollSpec

=============================================================================
