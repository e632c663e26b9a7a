----------------------------- MODULE PhoneClient -----------------------------
(***************************************************************************)
(* ChatClient.swift.  The class runs on the main actor, so whatever stands *)
(* between two awaits is one action; at every await anything else may run. *)
(* Cancelling a task only asks it to stop: a call in flight may fail, or   *)
(* its answer be there already.                                            *)
(***************************************************************************)
EXTENDS Polls

CONSTANTS Loops,   \* the tasks that poll; the others are the user's
          NoTask   \* no polling task

ASSUME LoopsAssumption  == Loops \subseteq Tasks
ASSUME NoTaskAssumption == NoTask \notin Tasks

VARIABLES
  pollTask,   \* the handle of the polling task
  loop,       \* which tasks run the polling loop
  cancelled,  \* which of them have been cancelled
  roster,     \* the server whose chat is on show, or 0
  disowned    \* history: a run has cleared the handle of another

handle == <<pollTask, loop, cancelled, disowned>>
vars   == <<pollVars, handle, roster>>

Init ==
  /\ PollInit
  /\ pollTask = NoTask
  /\ loop = {}
  /\ cancelled = {}
  /\ roster = 0
  /\ disowned = FALSE

-----------------------------------------------------------------------------
(* start, stop, restart.                                                   *)

Handle == {pollTask} \ {NoTask}

\* A task that is not running stands for a new one; which of them is all the same.
New == CHOOSE t \in Loops : at[t] = "idle"

\* A new polling task asks the key store for the key.
Launch(t) ==
  /\ t \in Loops /\ at[t] = "idle" /\ t = New
  /\ at' = [at EXCEPT ![t] = "keying"]
  /\ pollTask' = t
  /\ loop' = loop \union {t}

Start(t) ==
  /\ pollTask = NoTask
  /\ Launch(t)
  /\ UNCHANGED <<server, log, transcript, since, srv, overlapped, roster, cancelled, disowned>>

Stop ==
  /\ pollTask # NoTask
  /\ cancelled' = cancelled \union Handle
  /\ pollTask' = NoTask
  /\ UNCHANGED <<pollVars, loop, roster, disowned>>

\* Mutant: restart keeps the cursor.
RestartKeepingCursor(t) ==
  /\ server < MaxServer /\ server' = server + 1
  /\ Launch(t)
  /\ cancelled' = cancelled \union Handle
  /\ messages' = <<>> /\ lastID' = lastID /\ roster' = 0
  /\ overlapped' = FALSE /\ straddled' = FALSE
  /\ UNCHANGED <<log, since, srv, disowned>>

\* Mutant: restart forgets to stop the old task.
RestartUnstopped(t) ==
  /\ server < MaxServer /\ server' = server + 1
  /\ Launch(t)
  /\ cancelled' = cancelled
  /\ messages' = <<>> /\ lastID' = 0 /\ roster' = 0
  /\ overlapped' = FALSE /\ straddled' = FALSE
  /\ UNCHANGED <<log, since, srv, disowned>>

\* The address of the server is changed: stop, begin anew, start.
Restart(t) ==
  /\ server < MaxServer /\ server' = server + 1
  /\ Launch(t)
  /\ cancelled' = cancelled \union Handle
  /\ messages' = <<>> /\ lastID' = 0 /\ roster' = 0
  /\ overlapped' = FALSE /\ straddled' = FALSE
  /\ UNCHANGED <<log, since, srv, disowned>>

-----------------------------------------------------------------------------
(* run, the polling loop: every few turns it reads the roster first.       *)

\* The top of the loop: a cancelled task ends here, and nowhere else.
Top(t) == at[t] \in {"keying", "sleeping"}

\* The key store fails: the handle is dropped, whosever it is.
KeyFails(t) ==
  /\ at[t] = "keying"
  /\ Goto(t, "idle")
  /\ loop' = loop \ {t}
  /\ pollTask' = NoTask
  /\ cancelled' = cancelled \ {t}
  /\ disowned' = (disowned \/ pollTask \notin {t, NoTask})
  /\ UNCHANGED <<server, log, transcript, roster>>

End(t) ==
  /\ Top(t) /\ t \in cancelled
  /\ Goto(t, "idle")
  /\ loop' = loop \ {t}
  /\ cancelled' = cancelled \ {t}
  /\ UNCHANGED <<server, log, transcript, pollTask, roster, disowned>>

Turn(t) ==
  /\ at[t] = "sleeping" /\ t \notin cancelled
  /\ AskPoll(t)
  /\ UNCHANGED <<server, log, transcript, handle, roster>>

RefreshTurn(t) ==
  /\ Top(t) /\ t \notin cancelled
  /\ Call(t, "refreshing")
  /\ UNCHANGED <<server, log, transcript, handle, roster>>

\* refreshChat is answered with the chat, and the turn goes on to poll.
Refreshed(t) ==
  /\ at[t] = "refreshing"
  /\ roster' = srv[t]
  /\ AskPoll(t)
  /\ UNCHANGED <<server, log, transcript, handle>>

\* Or it fails, which is told in the banner, and the turn goes on as well.
RefreshFails(t) ==
  /\ at[t] = "refreshing"
  /\ AskPoll(t)
  /\ UNCHANGED <<server, log, transcript, handle, roster>>

After(t) == IF t \in loop THEN "sleeping" ELSE "idle"

PollLands(t, n) ==
  /\ at[t] = "polling"
  /\ Append_(t, n)
  /\ Goto(t, After(t))
  /\ UNCHANGED <<server, log, handle, roster>>

\* Refused, lost, timed out or cancelled, before the server had it or after.
PollFails(t) ==
  /\ at[t] = "polling"
  /\ Goto(t, After(t))
  /\ UNCHANGED <<server, log, transcript, handle, roster>>

-----------------------------------------------------------------------------
(* What the user does, each in a task of its own.                          *)

\* A message is sent, once there is a username.
Send(t) ==
  /\ t \notin Loops /\ at[t] = "idle"
  /\ roster # 0
  /\ Goto(t, "posting")
  /\ UNCHANGED <<server, log, transcript, handle, roster>>

\* It is posted and send polls at once, or it is not.
Posted(t) ==
  /\ at[t] = "posting"
  /\ AskPoll(t) \/ Goto(t, "idle")
  /\ UNCHANGED <<server, log, transcript, handle, roster>>

\* The name is changed, or somebody is added to the chat or removed.
Edit(t) ==
  /\ t \notin Loops /\ at[t] = "idle"
  /\ Call(t, "editing")
  /\ UNCHANGED <<server, log, transcript, handle, roster>>

\* The answer to an edit is the chat; a change of name is followed by one more call.
Edited(t) ==
  /\ at[t] = "editing"
  /\ roster' \in {roster, srv[t]}
  /\ Call(t, "editing") \/ Goto(t, "idle")
  /\ UNCHANGED <<server, log, transcript, handle>>

-----------------------------------------------------------------------------

MessageArrives ==
  /\ Arrive
  /\ UNCHANGED <<handle, roster>>

User(t) == Start(t) \/ Restart(t) \/ Send(t) \/ Posted(t) \/ Edit(t) \/ Edited(t)

Loop(t) ==
  \/ End(t) \/ Turn(t) \/ RefreshTurn(t) \/ Refreshed(t) \/ RefreshFails(t)
  \/ PollFails(t) \/ \E n \in 0..MaxId : PollLands(t, n)

Next ==
  \/ Stop \/ MessageArrives
  \/ \E t \in Tasks : User(t) \/ KeyFails(t) \/ Loop(t)

Spec == Init /\ [][Next]_vars

\* Every call ends, the loop goes on and refreshes every few turns, and not every
\* request fails: a poll asked often enough when there is a message brings one.
Fairness ==
  /\ \A t \in Loops : WF_vars(Loop(t))
  /\ SF_vars(\E t \in Loops : RefreshTurn(t)) /\ SF_vars(\E t \in Loops : Refreshed(t))
  /\ SF_vars(\E t \in Loops : \E n \in 1..MaxId : n > since[t] /\ PollLands(t, n))

FairSpec == Spec /\ Fairness

-----------------------------------------------------------------------------

\* Type correctness, with the part of the control state a type cannot say: a task
\* is in the loop exactly while it is between the key store and the end.
TypeOK ==
  /\ PollTypes
  /\ at \in [Tasks -> {"idle", "keying", "refreshing", "polling",
                       "sleeping", "posting", "editing"}]
  /\ pollTask \in Loops \union {NoTask}
  /\ loop = {t \in Loops : at[t] # "idle"}
  /\ cancelled \subseteq loop
  /\ roster \in 0..MaxServer /\ disowned \in BOOLEAN

\* However starts, stops and changes of server follow each other, the only loop that
\* goes on is the one whose handle is held, so that stop can end it -- unless a run
\* that found no key has dropped the handle of the run after it (run, stop).
OneLoop == ~disowned => loop \ cancelled \subseteq Handle

\* Every message of the server the client points at is shown, as long as the handle is
\* kept and no answer of the server before has moved the cursor: no other poll, lost
\* answer or edit keeps a message away for ever (run, poll).
EventuallyShown ==
  \A n \in 1..MaxId :
    log[server] >= n
      ~> \/ \E i \in DOMAIN messages : messages[i] = <<server, n>>
         \/ log[server] < n \/ pollTask = NoTask \/ straddled

=============================================================================
