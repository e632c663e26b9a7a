------------------------------ MODULE Directory ------------------------------
(***************************************************************************)
(* The people of directory.go, as the handlers of chat.go reach them: who  *)
(* has which username, and who is in whose chat.  A request runs its       *)
(* statements one by one and each commits by itself, so every statement is *)
(* an action and the requests interleave between any two of them.          *)
(*                                                                         *)
(* A name is a spelling; Lower is what lower() makes of it, and names that *)
(* differ only in case are the same name.                                  *)
(***************************************************************************)
EXTENDS Integers, FiniteSets

CONSTANTS Keys,      \* public keys
          Names,     \* valid usernames, as spelled
          Lower,     \* their lower-case forms
          Requests,  \* PUT /api/username and GET, POST, DELETE /api/chat requests
          NoKey,     \* "nobody has that name"
          NoName     \* "no name chosen"

ASSUME LowerAssumption == DOMAIN Lower = Names
ASSUME NoKeyAssumption == NoKey \notin Keys
ASSUME NoNameAssumption == NoName \notin Names

VARIABLES
  userName,  \* userNames: each key's name, or NoName
  members,   \* chatMembers: the rows <<ownerKey, memberKey>>
  pc,        \* each request's next statement
  reply,     \* what each request was answered with; "unheard" is an error answered
             \* while the database still has a statement of the request to run
  op,        \* what it asks for
  caller,    \* the verified key that sent it
  name,      \* the name in it
  target,    \* the key editChat resolved the name to
  listed,    \* the keys whose names the answer lists
  undone     \* history: when a removal undid an add that was still running

requestVars == <<op, caller, name>>
vars        == <<userName, members, pc, reply, requestVars, target, listed, undone>>

-----------------------------------------------------------------------------

Ops      == {"claim", "add", "remove", "list"}
Statuses == {"ok", "taken", "unknown", "self", "error", "unheard"}

\* Names are unique in their lower-case form.
DistinctNames(f) ==
  \A j, k \in Keys :
    f[j] # NoName /\ f[k] # NoName /\ Lower[f[j]] = Lower[f[k]] => j = k

\* A server starts over whatever names earlier ones have left.
Init ==
  /\ userName \in [Keys -> Names \union {NoName}]
  /\ DistinctNames(userName)
  /\ members = {}
  /\ pc = [h \in Requests |-> "idle"]
  /\ reply = [h \in Requests |-> "none"]
  /\ op \in [Requests -> Ops]
  /\ caller \in [Requests -> Keys]
  /\ name \in [Requests -> Names]
  /\ target = [h \in Requests |-> NoKey]
  /\ listed = [h \in Requests |-> {}]
  /\ undone = [h \in Requests |-> "no"]

Running(h, at) == pc[h] = at /\ reply[h] = "none"

Advance(h, next) == pc' = [pc EXCEPT ![h] = next]

Respond(h, status) == reply' = [reply EXCEPT ![h] = status]

\* A statement takes effect.  If its request has failed, nobody hears of it and nothing
\* comes after it.
Executes(h, at, next) ==
  /\ pc[h] = at
  /\ Advance(h, next)
  /\ \/ reply[h] = "none" /\ UNCHANGED reply
     \/ reply[h] = "unheard" /\ Respond(h, "error")

\* The keys that hold a name, whatever its case.
Holders(n) == {k \in Keys : userName[k] # NoName /\ Lower[userName[k]] = Lower[n]}

\* KeyForUsername reads k: a holder of the name, or nobody.
KeyForUsername(n, k) == k \in Holders(n) \/ (Holders(n) = {} /\ k = NoKey)

Start(h) ==
  /\ Running(h, "idle")
  /\ Advance(h, CASE op[h] = "claim" -> "checking"
                  [] op[h] = "list"  -> "naming"
                  [] OTHER           -> "resolving")
  /\ UNCHANGED <<userName, members, reply, requestVars, target, listed, undone>>

-----------------------------------------------------------------------------
(* handleUsername PUT: SetUsername.                                        *)

\* Mutant: a key's own name counts as taken.
CheckNameOfAnybody(h) ==
  /\ Running(h, "checking")
  /\ \E owner \in Keys \union {NoKey} :
       /\ KeyForUsername(name[h], owner)
       /\ Advance(h, IF owner = NoKey THEN "claiming" ELSE "refused")
  /\ UNCHANGED <<userName, members, reply, requestVars, target, listed, undone>>

\* The name is looked up first, for a clear answer in the common case.
CheckName(h) ==
  /\ Running(h, "checking")
  /\ \E owner \in Keys \union {NoKey} :
       /\ KeyForUsername(name[h], owner)
       /\ Advance(h, IF owner \in {NoKey, caller[h]} THEN "claiming" ELSE "refused")
  /\ UNCHANGED <<userName, members, reply, requestVars, target, listed, undone>>

\* Mutant: there is no unique index.
ClaimUnindexed(h) ==
  /\ Executes(h, "claiming", "claimed")
  /\ userName' = [userName EXCEPT ![caller[h]] = name[h]]
  /\ UNCHANGED <<members, requestVars, target, listed, undone>>

\* Mutant: INSERT OR REPLACE, which takes the name away from its holder.
ClaimByReplacing(h) ==
  /\ Executes(h, "claiming", "claimed")
  /\ userName' = [k \in Keys |-> IF k = caller[h] THEN name[h]
                                ELSE IF k \in Holders(name[h]) THEN NoName ELSE userName[k]]
  /\ UNCHANGED <<members, requestVars, target, listed, undone>>

\* The upsert; the unique index on lower(username) has the last word.
Claim(h) ==
  /\ \/ /\ Holders(name[h]) \subseteq {caller[h]}
        /\ userName' = [userName EXCEPT ![caller[h]] = name[h]]
        /\ Executes(h, "claiming", "claimed")
     \/ /\ ~(Holders(name[h]) \subseteq {caller[h]})
        /\ UNCHANGED userName
        /\ Executes(h, "claiming", "refused")
  /\ UNCHANGED <<members, requestVars, target, listed, undone>>

AnswerClaim(h) ==
  /\ \/ Running(h, "claimed") /\ Respond(h, "ok")
     \/ Running(h, "refused") /\ Respond(h, "taken")
  /\ UNCHANGED <<userName, members, pc, requestVars, target, listed, undone>>

-----------------------------------------------------------------------------
(* handleChat: editChat, then writeChat.                                   *)

\* editChat turns the name into the key behind it; AddChatMember refuses the
\* caller's own key, RemoveChatMember does not.
Resolve(h) ==
  /\ Running(h, "resolving")
  /\ \E k \in Keys \union {NoKey} :
       /\ KeyForUsername(name[h], k)
       /\ \/ k = NoKey /\ Respond(h, "unknown") /\ UNCHANGED <<pc, target>>
          \/ /\ k = caller[h] /\ op[h] = "add"
             /\ Respond(h, "self") /\ UNCHANGED <<pc, target>>
          \/ /\ k # NoKey
             /\ ~(k = caller[h] /\ op[h] = "add")
             /\ target' = [target EXCEPT ![h] = k]
             /\ Advance(h, IF op[h] = "add" THEN "inserting" ELSE "deleting")
             /\ UNCHANGED reply
  /\ UNCHANGED <<userName, members, requestVars, listed, undone>>

\* Mutant: both INSERTs write the same row.
InsertBackTwice(h) ==
  /\ Executes(h, "inserting", "insertingBack")
  /\ members' = members \union {<<target[h], caller[h]>>}
  /\ UNCHANGED <<userName, requestVars, target, listed, undone>>

\* AddChatMember's first INSERT: the member into the caller's chat.
InsertMember(h) ==
  /\ Executes(h, "inserting", "insertingBack")
  /\ members' = members \union {<<caller[h], target[h]>>}
  /\ UNCHANGED <<userName, requestVars, target, listed, undone>>

\* Its second INSERT: the caller into the member's chat.
InsertBack(h) ==
  /\ Executes(h, "insertingBack", "naming")
  /\ members' = members \union {<<target[h], caller[h]>>}
  /\ UNCHANGED <<userName, requestVars, target, listed, undone>>

\* The rows RemoveChatMember's one DELETE matches.
Pair(a, b) == {<<a, b>>, <<b, a>>}

\* History: the DELETE of a pair, as seen by a running add of the same pair.
Undoing(rows, h) ==
  IF \/ undone[h] # "no" \/ reply[h] \notin {"none", "unheard"}
     \/ op[h] # "add" \/ <<caller[h], target[h]>> \notin rows THEN undone[h]
  ELSE CASE pc[h] = "insertingBack"         -> "halfway"
         [] pc[h] \in {"naming", "listing"} -> "afterwards"
         [] OTHER                           -> undone[h]

\* Mutant: the DELETE removes the caller's side only.
DeleteOneSide(h) ==
  /\ Executes(h, "deleting", "naming")
  /\ members' = members \ {<<caller[h], target[h]>>}
  /\ undone' = [g \in Requests |-> Undoing({<<caller[h], target[h]>>}, g)]
  /\ UNCHANGED <<userName, requestVars, target, listed>>

Delete(h) ==
  /\ Executes(h, "deleting", "naming")
  /\ members' = members \ Pair(caller[h], target[h])
  /\ undone' = [g \in Requests |-> Undoing(Pair(caller[h], target[h]), g)]
  /\ UNCHANGED <<userName, requestVars, target, listed>>

\* writeChat reads the caller's name and then the members; a member is listed
\* by its name, so one without a name is left out.
ReadName(h) ==
  /\ Running(h, "naming")
  /\ Advance(h, "listing")
  /\ UNCHANGED <<userName, members, reply, requestVars, target, listed, undone>>

ChatMembers(owner) == {k \in Keys : <<owner, k>> \in members /\ userName[k] # NoName}

WriteChat(h) ==
  /\ Running(h, "listing")
  /\ listed' = [listed EXCEPT ![h] = ChatMembers(caller[h])]
  /\ Respond(h, "ok")
  /\ UNCHANGED <<userName, members, pc, requestVars, target, undone>>

-----------------------------------------------------------------------------

\* Its next statements are to change something.
Writing(h) == pc[h] \in {"claiming", "inserting", "insertingBack", "deleting"}

\* A statement fails, the request is cancelled or its replica dies: what its earlier
\* statements did stays done, and the one the database already has may yet take
\* effect, after the answer.
Fail(h) ==
  /\ pc[h] # "idle" /\ reply[h] = "none"
  /\ \/ Respond(h, "error")
     \/ Writing(h) /\ Respond(h, "unheard")
  /\ UNCHANGED <<userName, members, pc, requestVars, target, listed, undone>>

Next ==
  \E h \in Requests :
    \/ Start(h) \/ CheckName(h) \/ Claim(h) \/ AnswerClaim(h)
    \/ Resolve(h) \/ InsertMember(h) \/ InsertBack(h) \/ Delete(h)
    \/ ReadName(h) \/ WriteChat(h) \/ Fail(h)

Spec == Init /\ [][Next]_vars

-----------------------------------------------------------------------------
(* Properties.                                                             *)

\* Every variable has its type, and nobody is in their own chat (AddChatMember
\* refuses it).
TypeOK ==
  /\ userName \in [Keys -> Names \union {NoName}]
  /\ members \subseteq {p \in Keys \X Keys : p[1] # p[2]}
  /\ pc \in [Requests -> {"idle", "checking", "claiming", "claimed", "refused", "resolving",
                          "inserting", "insertingBack", "deleting", "naming", "listing"}]
  /\ reply \in [Requests -> Statuses \union {"none"}]
  /\ op \in [Requests -> Ops]
  /\ caller \in [Requests -> Keys]
  /\ name \in [Requests -> Names]
  /\ target \in [Requests -> Keys \union {NoKey}]
  /\ listed \in [Requests -> SUBSET Keys]
  /\ undone \in [Requests -> {"no", "halfway", "afterwards"}]

\* No two keys hold one name in any spelling, though every claim checks the name
\* in one statement and takes it in another (SetUsername and the unique index).
NamesDistinct == DistinctNames(userName)

\* Membership is one-sided only where an add stands, or stopped, between its two
\* INSERTs, or where a removal of the pair ran between them: no other order of
\* adds, removals and failures unbalances a pair (AddChatMember, RemoveChatMember).
OneSidedExplained ==
  \A a, b \in Keys :
    <<a, b>> \in members /\ <<b, a>> \notin members =>
      \E h \in Requests :
        /\ op[h] = "add"
        /\ \/ pc[h] = "insertingBack" /\ caller[h] = a /\ target[h] = b
           \/ undone[h] = "halfway"   /\ caller[h] = b /\ target[h] = a

\* The answer to an add lists whom it added, even if that user took another name
\* meanwhile, unless a removal of the same pair overtook it (editChat works in
\* keys; writeChat reads after the edit).
AddIsListed ==
  \A h \in Requests :
    op[h] = "add" /\ reply[h] = "ok" /\ undone[h] = "no" => target[h] \in listed[h]

\* A member without a name, whom the answers leave out of the owner's chat, came in by
\* an add of its own that ran both its INSERTs: whom an owner has added is never
\* hidden from that owner, whoever claims which name meanwhile (KeyForUsername finds
\* named users only, and SetUsername's upsert never takes a name from somebody else).
UnnamedExplained ==
  \A owner, k \in Keys :
    <<owner, k>> \in members /\ userName[k] = NoName =>
      \E h \in Requests :
        /\ op[h] = "add" /\ caller[h] = k /\ target[h] = owner
        /\ pc[h] \in {"naming", "listing"}

\* Documented at AddChatMember: membership is symmetric, so that neither side
\* ends up talking into a chat the other is not in.  Asked only when every
\* request has been answered and none of them failed.
SymmetricWhenQuiet ==
  (\A h \in Requests : pc[h] = "idle" \/ reply[h] \notin {"none", "error", "unheard"})
    => \A a, b \in Keys : <<a, b>> \in members => <<b, a>> \in members

-----------------------------------------------------------------------------
(* SetUsername implements a registry that decides each claim in one step.  *)

Verdict(h) == CASE pc[h] = "claimed" -> "ok"
                [] pc[h] = "refused" -> "taken"
                [] OTHER             -> "none"

ClaimAnswer(h) ==
  IF op[h] # "claim" THEN "none"
  ELSE IF reply[h] = "unheard" THEN "error" ELSE reply[h]

Registry == INSTANCE NameRegistry WITH
              verdict <- [h \in Requests |-> Verdict(h)],
              answer  <- [h \in Requests |-> ClaimAnswer(h)]

\* Each claim takes effect, or is refused because somebody else holds the name,
\* at one instant between its request and its answer, or after an error.
ImplementsRegistry == Registry!Spec

=============================================================================
