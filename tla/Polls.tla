-------------------------------- MODULE Polls --------------------------------
(***************************************************************************)
(* What the page (templates/index.html) and the iOS client                 *)
(* (ChatClient.swift) have in common: a poll asks for what is after the    *)
(* largest id on show, and appends whatever it is answered, with nothing   *)
(* that keeps a second poll from being asked before the first is answered. *)
(*                                                                         *)
(* A task is one flow of control in the client: a timer's callback, a      *)
(* click, the polling loop.  Ids count a server's messages to this client; *)
(* changing the server starts a new transcript.                            *)
(***************************************************************************)
EXTENDS Integers, Sequences

CONSTANTS Tasks,      \* flows of control that may be suspended at once
          MaxServer,  \* bound: servers, one after the other
          MaxId       \* bound: messages on a server

ASSUME MaxServerAssumption == MaxServer \in Nat \ {0}
ASSUME MaxIdAssumption     == MaxId \in Nat

VARIABLES
  server,      \* the server the client points at
  log,         \* the number of messages on each server
  messages,    \* the transcript: pairs of a server and an id
  lastID,      \* the largest id in it
  at,          \* where each task is suspended
  since,       \* the cursor it has asked with
  srv,         \* the server it has asked
  overlapped,  \* history: two polls of this transcript have been in flight at once
  straddled    \* history: an answer of another server has landed in it

calls      == <<at, since, srv>>
transcript == <<messages, lastID, straddled>>
pollVars   == <<server, log, transcript, calls, overlapped>>

Servers == 1..MaxServer

PollInit ==
  /\ server = 1
  /\ log = [s \in Servers |-> 0]
  /\ messages = <<>>
  /\ lastID = 0
  /\ at = [t \in Tasks |-> "idle"]
  /\ since = [t \in Tasks |-> 0]
  /\ srv = [t \in Tasks |-> 1]
  /\ overlapped = FALSE
  /\ straddled = FALSE

-----------------------------------------------------------------------------

\* Task t makes a call and is suspended in it.
Call(t, where) ==
  /\ at' = [at EXCEPT ![t] = where]
  /\ srv' = [srv EXCEPT ![t] = server]
  /\ UNCHANGED <<since, overlapped>>

\* It goes on with no call under way.
Goto(t, where) ==
  /\ at' = [at EXCEPT ![t] = where]
  /\ srv' = [srv EXCEPT ![t] = 1]
  /\ since' = [since EXCEPT ![t] = 0]
  /\ UNCHANGED overlapped

\* Mutant: it asks for everything.
AskPollFromStart(t) ==
  /\ at' = [at EXCEPT ![t] = "polling"]
  /\ srv' = [srv EXCEPT ![t] = server]
  /\ since' = [since EXCEPT ![t] = 0]
  /\ overlapped' = (overlapped \/ \E u \in Tasks \ {t} : at[u] = "polling" /\ srv[u] = server)

\* It polls, from the cursor of this moment.
AskPoll(t) ==
  /\ at' = [at EXCEPT ![t] = "polling"]
  /\ srv' = [srv EXCEPT ![t] = server]
  /\ since' = [since EXCEPT ![t] = lastID]
  /\ overlapped' = (overlapped \/ \E u \in Tasks \ {t} : at[u] = "polling" /\ srv[u] = server)

Larger(m, n) == IF m > n THEN m ELSE n

Answer(t, n) == [i \in 1..n - since[t] |-> <<srv[t], since[t] + i>>]

\* Mutant: nothing is appended, but the cursor moves.
AppendNothing(t, n) ==
  /\ n \in since[t]..Larger(since[t], log[srv[t]])
  /\ messages' = messages
  /\ lastID' = IF n > since[t] THEN Larger(lastID, n) ELSE lastID
  /\ straddled' = (straddled \/ (srv[t] # server /\ n > since[t]))

\* The answer, the messages after the cursor asked with up to n, is appended as it
\* is, and the cursor never goes back.  The server read them at some moment since it
\* was asked, and leaves the newest for later when there are too many.
Append_(t, n) ==
  /\ n \in since[t]..Larger(since[t], log[srv[t]])
  /\ messages' = messages \o Answer(t, n)
  /\ lastID' = IF n > since[t] THEN Larger(lastID, n) ELSE lastID
  /\ straddled' = (straddled \/ (srv[t] # server /\ n > since[t]))

\* Somebody sends this client a message, on the server it points at: on another one
\* it is as good as sent earlier, or later.
Arrive ==
  /\ log[server] < MaxId
  /\ log' = [log EXCEPT ![server] = @ + 1]
  /\ UNCHANGED <<server, transcript, calls, overlapped>>

-----------------------------------------------------------------------------
(* What every client that polls in this way does with its transcript.      *)

\* Task t goes on to something other than a poll.
Move(t) ==
  /\ at'[t] # "polling"
  /\ at' = [at EXCEPT ![t] = at'[t]]
  /\ since' = [since EXCEPT ![t] = since'[t]] /\ since'[t] \in 0..MaxId
  /\ srv' = [srv EXCEPT ![t] = srv'[t]] /\ srv'[t] \in Servers

Elsewhere(t) ==
  /\ Move(t)
  /\ UNCHANGED <<server, log, transcript, overlapped>>

Asks(t) ==
  /\ at[t] # "polling"
  /\ AskPoll(t)
  /\ UNCHANGED <<server, log, transcript>>

Lands(t, n) ==
  /\ at[t] = "polling"
  /\ Append_(t, n)
  /\ Move(t)
  /\ UNCHANGED <<server, log, overlapped>>

\* The transcript is begun anew, with another server.
NewServer(t) ==
  /\ server < MaxServer /\ server' = server + 1
  /\ messages' = <<>> /\ lastID' = 0
  /\ overlapped' = FALSE /\ straddled' = FALSE
  /\ Move(t)
  /\ UNCHANGED log

PollNext ==
  \/ Arrive
  \/ \E t \in Tasks :
       \/ Elsewhere(t) \/ Asks(t) \/ NewServer(t)
       \/ \E n \in 0..MaxId : Lands(t, n)

PollSpec == PollInit /\ [][PollNext]_pollVars

-----------------------------------------------------------------------------
(* Properties of the transcript.                                           *)

PollTypes ==
  /\ server \in Servers
  /\ log \in [Servers -> 0..MaxId]
  /\ messages \in Seq(Servers \X (1..MaxId))
  /\ lastID \in 0..MaxId
  /\ since \in [Tasks -> 0..MaxId]
  /\ srv \in [Tasks -> Servers]
  /\ overlapped \in BOOLEAN /\ straddled \in BOOLEAN

\* Nothing at or below the cursor is missing, whatever polls overlap, answer in
\* another order than they were asked or are lost, unless an answer of the server
\* before has landed (poll and appendMessage; poll and restart).
NothingMissed ==
  ~straddled =>
    \A n \in 1..lastID : \E i \in DOMAIN messages : messages[i] = <<server, n>>

\* Nothing is shown twice, or out of order, but where polls have overlapped or an
\* answer of the server before has landed.
RepeatsExplained ==
  ~overlapped /\ ~straddled => messages = [i \in 1..lastID |-> <<server, i>>]

=============================================================================
