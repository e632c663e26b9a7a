----------------------------- MODULE ChatServer -----------------------------
(***************************************************************************)
(* POST /api/messages over the directory: handleMessages reads who the     *)
(* sender is and who is in the sender's chat in two statements, and then   *)
(* adds the message, while claims, adds and removals go on.                *)
(*                                                                         *)
(* Directory is used statement by statement.  Of the message log only its  *)
(* promise is used, Timeline, which MessageLog implements: ChatStore.Add   *)
(* takes effect at one instant, possibly after its request has failed.     *)
(***************************************************************************)
EXTENDS Directory

CONSTANT Posts    \* POST /api/messages requests

VARIABLES
  poster,   \* the key that sends each message
  stage,    \* where each handler is
  chat,     \* the recipients it has read
  last, log, outcome,  \* the timeline, and what each sender was told
  settled,  \* history: pairs that an add has joined and no removal has parted since
  parted,   \* history: pairs that a removal has parted and no add has touched since
  owed,     \* history: for each post, who was settled in the poster's chat throughout
  barred    \* history: for each post, who was parted from the poster throughout

lineVars    == <<last, log, outcome>>
historyVars == <<settled, parted, owed, barred>>
postVars    == <<poster, stage, chat>>
chatVars    == <<vars, postVars, lineVars, historyVars>>

Line == INSTANCE Timeline WITH Requests <- Posts, shown <- [k \in Keys |-> {}]

-----------------------------------------------------------------------------

ChatInit ==
  /\ Init
  /\ poster \in [Posts -> Keys]
  /\ stage = [p \in Posts |-> "idle"]
  /\ chat = [p \in Posts |-> {}]
  /\ Line!Init
  /\ settled = {}
  /\ parted = {}
  /\ owed = [p \in Posts |-> {}]
  /\ barred = [p \in Posts |-> {}]

Handling(p, at) == stage[p] = at /\ outcome[p] = "pending"

Proceed(p, next) == stage' = [stage EXCEPT ![p] = next]

\* The partners of a key in a set of pairs.
Partners(pairs, k) == {j \in Keys : {j, k} \in pairs}

BeginPost(p) ==
  /\ Handling(p, "idle")
  /\ Proceed(p, "naming")
  /\ owed' = [owed EXCEPT ![p] = Partners(settled, poster[p])]
  /\ barred' = [barred EXCEPT ![p] = Partners(parted, poster[p])]
  /\ UNCHANGED <<vars, poster, chat, lineVars, settled, parted>>

\* users.Username: a key without a name is answered 409.
ReadSender(p) ==
  /\ Handling(p, "naming")
  /\ \/ /\ userName[poster[p]] # NoName
        /\ Proceed(p, "reading")
        /\ UNCHANGED lineVars
     \/ /\ userName[poster[p]] = NoName
        /\ Line!GiveUp(p)
        /\ UNCHANGED stage
  /\ UNCHANGED <<vars, poster, chat, historyVars>>

\* Mutant: the recipients are the members the chat lists, by name.
ReadChatByName(p) ==
  /\ Handling(p, "reading")
  /\ chat' = [chat EXCEPT ![p] = ChatMembers(poster[p])]
  /\ Proceed(p, "adding")
  /\ UNCHANGED <<vars, poster, lineVars, historyVars>>

ChatMemberKeys(owner) == {k \in Keys : <<owner, k>> \in members}

ReadChat(p) ==
  /\ Handling(p, "reading")
  /\ chat' = [chat EXCEPT ![p] = ChatMemberKeys(poster[p])]
  /\ Proceed(p, "adding")
  /\ UNCHANGED <<vars, poster, lineVars, historyVars>>

\* ChatStore.Add takes effect, whether or not the handler is there to answer.
Add(p) ==
  /\ stage[p] = "adding"
  /\ Line!Post(p)
  /\ \A m \in log' \ log : m.sender = poster[p] /\ m.to = chat[p] \ {poster[p]}
  /\ Proceed(p, "added")
  /\ UNCHANGED <<vars, poster, chat, historyVars>>

AnswerPost(p) ==
  /\ Handling(p, "added")
  /\ Line!Acknowledge(p)
  /\ UNCHANGED <<vars, postVars, historyVars>>

\* A read or the transaction fails, the request is cancelled or its replica dies.
FailPost(p) ==
  /\ stage[p] # "idle"
  /\ Line!GiveUp(p)
  /\ UNCHANGED <<vars, postVars, historyVars>>

-----------------------------------------------------------------------------
(* The directory's requests, with the history of pairs.                    *)

\* An add of the pair has resolved its name and has statements left.
Underway(pair) ==
  \E h \in Requests :
    /\ op[h] = "add" /\ reply[h] \in {"none", "unheard"} /\ {caller[h], target[h]} = pair
    /\ pc[h] \in {"inserting", "insertingBack"}

\* A post goes on being owed, or denied, a recipient only while the pair stays as it was.
WhileSo(history, pairs) == [p \in Posts |-> history[p] \intersect Partners(pairs, poster[p])]

Touch(h) ==
  /\ settled' = settled
  /\ parted' = IF op[h] = "add" THEN parted \ {{caller[h], target'[h]}} ELSE parted

Join(h) ==
  /\ settled' = IF undone[h] = "no" THEN settled \union {{caller[h], target[h]}} ELSE settled
  /\ parted' = parted

Part(h) ==
  LET pair == {caller[h], target[h]}
  IN /\ settled' = settled \ {pair}
     /\ parted' = IF Underway(pair) THEN parted ELSE parted \union {pair}

DirectoryStep(h) ==
  /\ \/ Resolve(h) /\ Touch(h)
     \/ InsertBack(h) /\ Join(h)
     \/ Delete(h) /\ Part(h)
     \/ /\ \/ Start(h) \/ CheckName(h) \/ Claim(h) \/ AnswerClaim(h)
           \/ InsertMember(h) \/ ReadName(h) \/ WriteChat(h) \/ Fail(h)
        /\ UNCHANGED <<settled, parted>>
  /\ owed' = WhileSo(owed, settled')
  /\ barred' = WhileSo(barred, parted')
  /\ UNCHANGED <<postVars, lineVars>>

ChatNext ==
  \/ \E p \in Posts :
       BeginPost(p) \/ ReadSender(p) \/ ReadChat(p) \/ Add(p) \/ AnswerPost(p) \/ FailPost(p)
  \/ \E h \in Requests : DirectoryStep(h)

ChatSpec == ChatInit /\ [][ChatNext]_chatVars

-----------------------------------------------------------------------------
(* Properties.                                                             *)

\* Once an add has joined two people, whatever either of them sends from then on
\* is addressed to the other, until a removal of the pair: the person you added
\* can answer you straight away, named or not, whatever anybody is renamed to and
\* whatever other adds and removals run (AddChatMember, handleMessages).
AddedAreReached == \A m \in log : owed[m.req] \subseteq m.to

\* Once a removal has parted two people with no add of them under way, nothing
\* either of them sends is addressed to the other until somebody adds them again
\* (RemoveChatMember's two sides, handleMessages).
RemovedAreNotReached == \A m \in log : barred[m.req] \intersect m.to = {}

=============================================================================
