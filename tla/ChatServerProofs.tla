-------------------------- MODULE ChatServerProofs ---------------------------
(***************************************************************************)
(* Proofs about Directory, and about ChatServer over the directory's       *)
(* invariant, for any keys, names, posts and requests.                     *)
(***************************************************************************)
EXTENDS ChatServer, TLAPS

-----------------------------------------------------------------------------
(* Directory: the inductive invariant.                                     *)

\* Where a request can be, given what it asks for.
FlowInv ==
  \A h \in Requests :
    /\ pc[h] \in {"checking", "claiming", "claimed", "refused"} => op[h] = "claim"
    /\ pc[h] \in {"inserting", "insertingBack"} => op[h] = "add"
    /\ pc[h] = "deleting" => op[h] = "remove"
    /\ pc[h] = "resolving" => op[h] \in {"add", "remove"}
    /\ pc[h] \in {"naming", "listing"} => op[h] # "claim"
    /\ pc[h] \in {"inserting", "insertingBack", "deleting"} => target[h] # NoKey
    /\ op[h] = "add" /\ pc[h] \in {"naming", "listing"} => target[h] # NoKey
    /\ op[h] = "add" => target[h] # caller[h]
    /\ op[h] = "add" /\ reply[h] = "ok" => pc[h] = "listing"
    /\ undone[h] = "afterwards" => pc[h] \in {"naming", "listing"}
    /\ undone[h] = "halfway" => pc[h] \in {"insertingBack", "naming", "listing"}

\* Names are replaced but never given up, so whom a name was resolved to still
\* has one.
TargetInv ==
  \A h \in Requests : target[h] # NoKey => userName[target[h]] # NoName

\* The row that an add with statements left has inserted is there unless a removal
\* undid it.
RowInv ==
  \A h \in Requests :
    op[h] = "add" /\ reply[h] \in {"none", "unheard"} /\ undone[h] = "no"
      /\ pc[h] \in {"insertingBack", "naming", "listing"}
      => <<caller[h], target[h]>> \in members

IInv ==
  /\ TypeOK /\ FlowInv /\ TargetInv /\ RowInv
  /\ NamesDistinct /\ OneSidedExplained /\ AddIsListed /\ UnnamedExplained

-----------------------------------------------------------------------------

\* Empty tables and requests not yet started satisfy the invariant.
LEMMA IInvInit == Init => IInv
<1> SUFFICES ASSUME Init PROVE IInv
  OBVIOUS
<1>1. TypeOK
  BY DEF Init, TypeOK, Statuses
<1>2. FlowInv
  <2>1. \A h \in Requests : /\ pc[h] = "idle" /\ target[h] = NoKey /\ caller[h] \in Keys
                            /\ reply[h] = "none" /\ undone[h] = "no"
    BY DEF Init
  <2> QED BY <2>1, NoKeyAssumption DEF FlowInv
<1>3. TargetInv /\ RowInv /\ AddIsListed
  BY DEF Init, TargetInv, RowInv, AddIsListed
<1>4. NamesDistinct /\ OneSidedExplained /\ UnnamedExplained
  BY DEF Init, NamesDistinct, OneSidedExplained, UnnamedExplained
<1> QED BY <1>1, <1>2, <1>3, <1>4 DEF IInv

\* A history step says no more than what kind of removal it was.
LEMMA UndoingValue ==
  ASSUME NEW rows, NEW h \in Requests, TypeOK
  PROVE  /\ Undoing(rows, h) \in {"no", "halfway", "afterwards"}
         /\ Undoing(rows, h) # "halfway" => undone[h] # "halfway"
         /\ undone[h] # "no" => Undoing(rows, h) = undone[h]
         /\ op[h] # "add" => Undoing(rows, h) = undone[h]
         /\ Undoing(rows, h) = "no" /\ op[h] = "add" /\ reply[h] \in {"none", "unheard"}
              /\ pc[h] \in {"insertingBack", "naming", "listing"}
              => <<caller[h], target[h]>> \notin rows
BY DEF Undoing, TypeOK

\* Every step of a request keeps the types.
LEMMA TypeStep ==
  ASSUME IInv, NEW h \in Requests,
         \/ Start(h) \/ CheckName(h) \/ Claim(h) \/ AnswerClaim(h)
         \/ Resolve(h) \/ InsertMember(h) \/ InsertBack(h) \/ Delete(h)
         \/ ReadName(h) \/ WriteChat(h) \/ Fail(h)
  PROVE  TypeOK'
<1> USE NoKeyAssumption, NoNameAssumption
        DEF IInv, TypeOK, Advance, Respond, Running, Executes, Statuses, requestVars
<1>1. CASE Start(h)
  BY <1>1 DEF Start
<1>2. CASE CheckName(h)
  BY <1>2 DEF CheckName
<1>3. CASE Claim(h)
  BY <1>3 DEF Claim
<1>4. CASE AnswerClaim(h)
  BY <1>4 DEF AnswerClaim
<1>5. CASE Resolve(h)
  BY <1>5 DEF Resolve
<1>6. CASE InsertMember(h)
  BY <1>6 DEF InsertMember, FlowInv
<1>7. CASE InsertBack(h)
  BY <1>7 DEF InsertBack, FlowInv
<1>8. CASE Delete(h)
  BY <1>8, UndoingValue DEF Delete
<1>9. CASE ReadName(h)
  BY <1>9 DEF ReadName
<1>10. CASE WriteChat(h)
  BY <1>10 DEF WriteChat, ChatMembers
<1>11. CASE Fail(h)
  BY <1>11 DEF Fail
<1> QED BY <1>1, <1>2, <1>3, <1>4, <1>5, <1>6, <1>7, <1>8, <1>9, <1>10, <1>11

\* Every step takes a request where its kind of request may be.
LEMMA FlowStep ==
  ASSUME IInv, NEW h \in Requests,
         \/ Start(h) \/ CheckName(h) \/ Claim(h) \/ AnswerClaim(h)
         \/ Resolve(h) \/ InsertMember(h) \/ InsertBack(h) \/ Delete(h)
         \/ ReadName(h) \/ WriteChat(h) \/ Fail(h)
  PROVE  FlowInv'
<1> USE NoKeyAssumption, NoNameAssumption
        DEF IInv, TypeOK, FlowInv, Advance, Respond, Running, Executes, Ops, requestVars
<1>1. CASE Start(h)
  BY <1>1 DEF Start
<1>2. CASE CheckName(h)
  BY <1>2 DEF CheckName
<1>3. CASE Claim(h)
  BY <1>3 DEF Claim
<1>4. CASE AnswerClaim(h)
  BY <1>4 DEF AnswerClaim
<1>5. CASE Resolve(h)
  BY <1>5 DEF Resolve
<1>6. CASE InsertMember(h)
  BY <1>6 DEF InsertMember
<1>7. CASE InsertBack(h)
  BY <1>7 DEF InsertBack
<1>8. CASE Delete(h)
  BY <1>8 DEF Delete, Undoing
<1>9. CASE ReadName(h)
  BY <1>9 DEF ReadName
<1>10. CASE WriteChat(h)
  BY <1>10 DEF WriteChat
<1>11. CASE Fail(h)
  BY <1>11 DEF Fail
<1> QED BY <1>1, <1>2, <1>3, <1>4, <1>5, <1>6, <1>7, <1>8, <1>9, <1>10, <1>11

\* Only a claim that goes through changes a name, to one nobody else holds.
LEMMA NamesStep ==
  ASSUME IInv, NEW h \in Requests,
         \/ Start(h) \/ CheckName(h) \/ Claim(h) \/ AnswerClaim(h)
         \/ Resolve(h) \/ InsertMember(h) \/ InsertBack(h) \/ Delete(h)
         \/ ReadName(h) \/ WriteChat(h) \/ Fail(h)
  PROVE  NamesDistinct' /\ TargetInv'
<1> USE NoKeyAssumption, NoNameAssumption DEF IInv, TypeOK
<1>1. CASE Claim(h) /\ UNCHANGED target
  <2>1. CASE userName' = userName
    BY <1>1, <2>1 DEF NamesDistinct, DistinctNames, TargetInv
  <2>2. CASE /\ Holders(name[h]) \subseteq {caller[h]}
             /\ userName' = [userName EXCEPT ![caller[h]] = name[h]]
    <3>1. name[h] # NoName
      OBVIOUS
    <3>2. \A k \in Keys \ {caller[h]} :
            userName[k] # NoName => Lower[userName[k]] # Lower[name[h]]
      BY <2>2 DEF Holders
    <3>3. NamesDistinct'
      BY <2>2, <3>2 DEF NamesDistinct, DistinctNames
    <3>4. TargetInv'
      BY <1>1, <2>2, <3>1 DEF TargetInv
    <3> QED BY <3>3, <3>4
  <2> QED BY <1>1, <2>1, <2>2 DEF Claim
<1>2. CASE Resolve(h)
  <2>1. UNCHANGED userName
    BY <1>2 DEF Resolve
  <2>2. CASE UNCHANGED target
    BY <2>1, <2>2 DEF NamesDistinct, DistinctNames, TargetInv
  <2>3. ASSUME NEW k \in Holders(name[h]), target' = [target EXCEPT ![h] = k]
        PROVE  TargetInv'
    BY <2>1, <2>3 DEF TargetInv, Holders
  <2>4. NamesDistinct'
    BY <2>1 DEF NamesDistinct, DistinctNames
  <2> QED BY <1>2, <2>2, <2>3, <2>4 DEF Resolve, KeyForUsername
<1>3. CASE UNCHANGED <<userName, target>>
  BY <1>3 DEF NamesDistinct, DistinctNames, TargetInv
<1> QED BY <1>1, <1>2, <1>3
        DEF Start, CheckName, Claim, AnswerClaim, InsertMember, InsertBack, Delete, ReadName,
            WriteChat, Fail

-----------------------------------------------------------------------------
(* Who is in whose chat.                                                   *)

\* The first INSERT explains the one-sided pair it may make.
LEMMA MembersInsert ==
  ASSUME IInv, NEW h \in Requests, InsertMember(h)
  PROVE  OneSidedExplained' /\ RowInv' /\ AddIsListed'
<1> USE DEF IInv, TypeOK, requestVars
<1>1. /\ pc[h] = "inserting" /\ op[h] = "add"
      /\ pc' = [pc EXCEPT ![h] = "insertingBack"]
      /\ members' = members \union {<<caller[h], target[h]>>}
      /\ UNCHANGED <<op, caller, target, listed, undone>>
      /\ UNCHANGED reply \/ reply' = [reply EXCEPT ![h] = "error"]
  BY DEF InsertMember, Executes, Advance, Respond, FlowInv
<1>2. OneSidedExplained'
  <2> SUFFICES ASSUME NEW a \in Keys, NEW b \in Keys,
                      <<a, b>> \in members', <<b, a>> \notin members'
               PROVE  \E g \in Requests :
                        /\ op[g] = "add"
                        /\ \/ pc'[g] = "insertingBack" /\ caller[g] = a /\ target[g] = b
                           \/ undone[g] = "halfway" /\ caller[g] = b /\ target[g] = a
    BY <1>1 DEF OneSidedExplained
  <2>1. CASE <<a, b>> \in members
    <3>1. PICK g \in Requests :
            /\ op[g] = "add"
            /\ \/ pc[g] = "insertingBack" /\ caller[g] = a /\ target[g] = b
               \/ undone[g] = "halfway" /\ caller[g] = b /\ target[g] = a
      BY <1>1, <2>1 DEF OneSidedExplained
    <3> QED BY <1>1, <3>1
  <2>2. CASE <<a, b>> = <<caller[h], target[h]>>
    BY <1>1, <2>2
  <2> QED BY <1>1, <2>1, <2>2
<1>3. RowInv' /\ AddIsListed'
  BY <1>1 DEF RowInv, AddIsListed
<1> QED BY <1>2, <1>3

\* The second INSERT makes a pair whole, unless the first row has been removed.
LEMMA MembersInsertBack ==
  ASSUME IInv, NEW h \in Requests, InsertBack(h)
  PROVE  OneSidedExplained' /\ RowInv' /\ AddIsListed'
<1> USE DEF IInv, TypeOK, requestVars
<1>1. /\ pc[h] = "insertingBack" /\ op[h] = "add" /\ reply[h] \in {"none", "unheard"}
      /\ pc' = [pc EXCEPT ![h] = "naming"]
      /\ members' = members \union {<<target[h], caller[h]>>}
      /\ UNCHANGED <<op, caller, target, listed, undone>>
      /\ UNCHANGED reply \/ reply' = [reply EXCEPT ![h] = "error"]
  BY DEF InsertBack, Executes, Advance, Respond, FlowInv
<1>2. <<caller[h], target[h]>> \in members \/ undone[h] = "halfway"
  BY <1>1 DEF RowInv, FlowInv
<1>3. OneSidedExplained'
  <2> SUFFICES ASSUME NEW a \in Keys, NEW b \in Keys,
                      <<a, b>> \in members', <<b, a>> \notin members'
               PROVE  \E g \in Requests :
                        /\ op[g] = "add"
                        /\ \/ pc'[g] = "insertingBack" /\ caller[g] = a /\ target[g] = b
                           \/ undone[g] = "halfway" /\ caller[g] = b /\ target[g] = a
    BY <1>1 DEF OneSidedExplained
  <2>1. CASE <<a, b>> \in members
    <3>1. PICK g \in Requests :
            /\ op[g] = "add"
            /\ \/ pc[g] = "insertingBack" /\ caller[g] = a /\ target[g] = b
               \/ undone[g] = "halfway" /\ caller[g] = b /\ target[g] = a
      BY <1>1, <2>1 DEF OneSidedExplained
    <3>2. ~(g = h /\ caller[g] = a /\ target[g] = b)
      BY <1>1
    <3> QED BY <1>1, <3>1, <3>2
  <2>2. CASE <<a, b>> = <<target[h], caller[h]>>
    <3>1. <<caller[h], target[h]>> \notin members
      BY <1>1, <2>2
    <3> QED BY <1>1, <1>2, <2>2, <3>1
  <2> QED BY <1>1, <2>1, <2>2
<1>4. RowInv' /\ AddIsListed'
  BY <1>1 DEF RowInv, AddIsListed
<1> QED BY <1>3, <1>4

\* A removal takes both rows of its pair, so it explains nothing away and leaves
\* no pair it touched one-sided.
LEMMA MembersDelete ==
  ASSUME IInv, NEW h \in Requests, Delete(h)
  PROVE  OneSidedExplained' /\ RowInv' /\ AddIsListed'
<1> USE DEF IInv, TypeOK, requestVars
<1> DEFINE gone == Pair(caller[h], target[h])
<1>1. /\ pc[h] = "deleting"
      /\ pc' = [pc EXCEPT ![h] = "naming"]
      /\ members' = members \ gone
      /\ undone' = [g \in Requests |-> Undoing(gone, g)]
      /\ UNCHANGED <<op, caller, target, listed>>
      /\ UNCHANGED reply \/ reply' = [reply EXCEPT ![h] = "error"]
  BY DEF Delete, Executes, Advance, Respond
<1>2. \A g \in Requests :
        /\ undone[g] # "no" => undone'[g] = undone[g]
        /\ op[g] # "add" => undone'[g] = undone[g]
        /\ undone'[g] = "no" /\ op[g] = "add" /\ reply[g] \in {"none", "unheard"}
             /\ pc[g] \in {"insertingBack", "naming", "listing"}
             => <<caller[g], target[g]>> \notin gone
  <2> SUFFICES ASSUME NEW g \in Requests
               PROVE  /\ undone[g] # "no" => undone'[g] = undone[g]
                      /\ op[g] # "add" => undone'[g] = undone[g]
                      /\ undone'[g] = "no" /\ op[g] = "add" /\ reply[g] \in {"none", "unheard"}
                           /\ pc[g] \in {"insertingBack", "naming", "listing"}
                           => <<caller[g], target[g]>> \notin gone
    OBVIOUS
  <2>1. undone'[g] = Undoing(gone, g)
    BY <1>1
  <2> HIDE DEF gone
  <2> QED BY <2>1, UndoingValue
<1>3. op[h] # "add" \/ pc[h] = "deleting"
  BY <1>1
<1>4. OneSidedExplained'
  <2> SUFFICES ASSUME NEW a \in Keys, NEW b \in Keys,
                      <<a, b>> \in members', <<b, a>> \notin members'
               PROVE  \E g \in Requests :
                        /\ op[g] = "add"
                        /\ \/ pc'[g] = "insertingBack" /\ caller[g] = a /\ target[g] = b
                           \/ undone'[g] = "halfway" /\ caller[g] = b /\ target[g] = a
    BY <1>1 DEF OneSidedExplained
  <2>1. <<a, b>> \in members /\ <<b, a>> \notin members
    BY <1>1 DEF Pair
  <2>2. PICK g \in Requests :
          /\ op[g] = "add"
          /\ \/ pc[g] = "insertingBack" /\ caller[g] = a /\ target[g] = b
             \/ undone[g] = "halfway" /\ caller[g] = b /\ target[g] = a
    BY <2>1 DEF OneSidedExplained
  <2>3. pc[g] = "insertingBack" => g # h
    BY <1>1
  <2> QED BY <1>1, <1>2, <2>2, <2>3
<1>5. RowInv'
  <2> SUFFICES ASSUME NEW g \in Requests, op[g] = "add", reply'[g] \in {"none", "unheard"},
                      undone'[g] = "no", pc'[g] \in {"insertingBack", "naming", "listing"}
               PROVE  <<caller[g], target[g]>> \in members'
    BY <1>1 DEF RowInv
  <2>1. g # h
    BY <1>1 DEF FlowInv
  <2>2. undone[g] = "no" /\ pc[g] = pc'[g] /\ reply[g] = reply'[g]
    BY <1>1, <1>2, <2>1
  <2> QED BY <1>1, <1>2, <2>2 DEF RowInv
<1>6. AddIsListed'
  <2>1. \A g \in Requests : undone'[g] = "no" => undone[g] = "no"
    BY <1>2
  <2> QED BY <1>1, <2>1 DEF AddIsListed
<1> QED BY <1>4, <1>5, <1>6

\* The answer to an add is read after both INSERTs, from rows that are there.
LEMMA MembersListed ==
  ASSUME IInv, NEW h \in Requests, WriteChat(h)
  PROVE  OneSidedExplained' /\ RowInv' /\ AddIsListed'
<1> USE DEF IInv, requestVars
<1>0. /\ target \in [Requests -> Keys \union {NoKey}]
      /\ listed \in [Requests -> SUBSET Keys]
      /\ reply \in [Requests -> Statuses \union {"none"}]
  BY DEF TypeOK
<1>1. /\ pc[h] = "listing" /\ reply[h] = "none"
      /\ listed' = [listed EXCEPT ![h] = ChatMembers(caller[h])]
      /\ reply' = [reply EXCEPT ![h] = "ok"]
      /\ UNCHANGED <<userName, members, pc, op, caller, target, undone>>
  BY DEF WriteChat, Running, Respond
<1>2. op[h] = "add" /\ undone[h] = "no" => target[h] \in ChatMembers(caller[h])
  <2>1. op[h] = "add" => target[h] \in Keys /\ userName[target[h]] # NoName
    BY <1>0, <1>1 DEF FlowInv, TargetInv
  <2>2. op[h] = "add" /\ undone[h] = "no" => <<caller[h], target[h]>> \in members
    BY <1>1 DEF RowInv
  <2> QED BY <2>1, <2>2 DEF ChatMembers
<1>3. AddIsListed'
  BY <1>0, <1>1, <1>2 DEF AddIsListed
<1>4. RowInv'
  BY <1>0, <1>1 DEF RowInv
<1>5. OneSidedExplained'
  BY <1>1 DEF OneSidedExplained
<1> QED BY <1>3, <1>4, <1>5

\* Adds and removals, in any order: what explains a one-sided pair stays true.
LEMMA MembersStep ==
  ASSUME IInv, NEW h \in Requests,
         \/ Start(h) \/ CheckName(h) \/ Claim(h) \/ AnswerClaim(h)
         \/ Resolve(h) \/ InsertMember(h) \/ InsertBack(h) \/ Delete(h)
         \/ ReadName(h) \/ WriteChat(h) \/ Fail(h)
  PROVE  OneSidedExplained' /\ RowInv' /\ AddIsListed'
<1> USE DEF IInv, TypeOK, requestVars, Running, Executes, Advance, Respond
<1>1. CASE Start(h)
  BY <1>1 DEF Start, OneSidedExplained, RowInv, AddIsListed
<1>2. CASE CheckName(h)
  BY <1>2 DEF CheckName, OneSidedExplained, RowInv, AddIsListed, FlowInv
<1>3. CASE Claim(h)
  BY <1>3 DEF Claim, OneSidedExplained, RowInv, AddIsListed, FlowInv
<1>4. CASE AnswerClaim(h)
  BY <1>4 DEF AnswerClaim, OneSidedExplained, RowInv, AddIsListed, FlowInv
<1>5. CASE Resolve(h)
  <2>1. /\ pc[h] = "resolving" /\ reply[h] = "none"
        /\ UNCHANGED <<members, op, caller, listed, undone>>
        /\ \A g \in Requests \ {h} :
             pc'[g] = pc[g] /\ reply'[g] = reply[g] /\ target'[g] = target[g]
        /\ pc'[h] \in {"resolving", "inserting", "deleting"} /\ reply'[h] # "ok"
    BY <1>5 DEF Resolve
  <2>2. RowInv' /\ AddIsListed'
    BY <2>1 DEF RowInv, AddIsListed
  <2>3. undone[h] # "halfway"
    BY <2>1 DEF FlowInv
  <2>4. OneSidedExplained'
    <3> SUFFICES ASSUME NEW a \in Keys, NEW b \in Keys,
                        <<a, b>> \in members, <<b, a>> \notin members
                 PROVE  \E g \in Requests :
                          /\ op[g] = "add"
                          /\ \/ pc'[g] = "insertingBack" /\ caller[g] = a /\ target'[g] = b
                             \/ undone[g] = "halfway" /\ caller[g] = b /\ target'[g] = a
      BY <2>1 DEF OneSidedExplained
    <3>1. PICK g \in Requests :
            /\ op[g] = "add"
            /\ \/ pc[g] = "insertingBack" /\ caller[g] = a /\ target[g] = b
               \/ undone[g] = "halfway" /\ caller[g] = b /\ target[g] = a
      BY DEF OneSidedExplained
    <3>2. g # h
      BY <2>1, <2>3, <3>1
    <3> QED BY <2>1, <3>1, <3>2
  <2> QED BY <2>2, <2>4
<1>6. CASE InsertMember(h)
  BY <1>6, MembersInsert
<1>7. CASE InsertBack(h)
  BY <1>7, MembersInsertBack
<1>8. CASE Delete(h)
  BY <1>8, MembersDelete
<1>9. CASE ReadName(h)
  BY <1>9 DEF ReadName, OneSidedExplained, RowInv, AddIsListed
<1>10. CASE WriteChat(h)
  BY <1>10, MembersListed
<1>11. CASE Fail(h)
  BY <1>11 DEF Fail, OneSidedExplained, RowInv, AddIsListed
<1> QED BY <1>1, <1>2, <1>3, <1>4, <1>5, <1>6, <1>7, <1>8, <1>9, <1>10, <1>11

-----------------------------------------------------------------------------
(* Who is in a chat without being seen there.                              *)

\* A step that neither makes rows, nor takes a name, nor moves an add back explains
\* the unnamed members as before.
LEMMA UnnamedKept ==
  ASSUME TypeOK, UnnamedExplained, members' \subseteq members,
         \A k \in Keys : userName[k] # NoName => userName'[k] # NoName,
         UNCHANGED <<op, caller>>,
         \A h \in Requests : op[h] = "add" /\ pc[h] \in {"naming", "listing"} =>
           target'[h] = target[h] /\ pc'[h] \in {"naming", "listing"}
  PROVE  UnnamedExplained'
<1> SUFFICES ASSUME NEW o \in Keys, NEW k \in Keys, <<o, k>> \in members', userName'[k] = NoName
             PROVE  \E h \in Requests :
                      /\ op'[h] = "add" /\ caller'[h] = k /\ target'[h] = o
                      /\ pc'[h] \in {"naming", "listing"}
  BY DEF UnnamedExplained
<1>1. PICK h \in Requests :
        /\ op[h] = "add" /\ caller[h] = k /\ target[h] = o
        /\ pc[h] \in {"naming", "listing"}
  BY DEF UnnamedExplained
<1> QED BY <1>1

\* The first INSERT makes a member of somebody with a name; the second one of the
\* caller, whose add it is.
LEMMA UnnamedStep ==
  ASSUME IInv, NEW h \in Requests,
         \/ Start(h) \/ CheckName(h) \/ Claim(h) \/ AnswerClaim(h)
         \/ Resolve(h) \/ InsertMember(h) \/ InsertBack(h) \/ Delete(h)
         \/ ReadName(h) \/ WriteChat(h) \/ Fail(h)
  PROVE  UnnamedExplained'
<1> USE DEF IInv, TypeOK, requestVars, Running, Executes, Advance, Respond
<1>1. CASE Claim(h)
  <2>1. \A k \in Keys : userName[k] # NoName => userName'[k] # NoName
    BY <1>1, NoNameAssumption DEF Claim
  <2>2. /\ UNCHANGED <<members, op, caller, target>>
        /\ pc[h] = "claiming" /\ \A g \in Requests \ {h} : pc'[g] = pc[g]
    BY <1>1 DEF Claim
  <2> QED BY <2>1, <2>2, UnnamedKept
<1>2. CASE InsertMember(h)
  <2>1. /\ pc[h] = "inserting" /\ pc' = [pc EXCEPT ![h] = "insertingBack"]
        /\ members' = members \union {<<caller[h], target[h]>>}
        /\ UNCHANGED <<userName, op, caller, target>>
    BY <1>2 DEF InsertMember
  <2>2. userName[target[h]] # NoName
    BY <2>1 DEF TargetInv, FlowInv
  <2> SUFFICES ASSUME NEW o \in Keys, NEW k \in Keys, <<o, k>> \in members', userName[k] = NoName
               PROVE  \E g \in Requests :
                        /\ op[g] = "add" /\ caller[g] = k /\ target[g] = o
                        /\ pc'[g] \in {"naming", "listing"}
    BY <2>1 DEF UnnamedExplained
  <2>3. <<o, k>> \in members
    BY <2>1, <2>2
  <2>4. PICK g \in Requests :
          /\ op[g] = "add" /\ caller[g] = k /\ target[g] = o
          /\ pc[g] \in {"naming", "listing"}
    BY <2>3 DEF UnnamedExplained
  <2> QED BY <2>1, <2>4
<1>3. CASE InsertBack(h)
  <2>1. /\ pc[h] = "insertingBack" /\ op[h] = "add" /\ pc' = [pc EXCEPT ![h] = "naming"]
        /\ members' = members \union {<<target[h], caller[h]>>}
        /\ UNCHANGED <<userName, op, caller, target>>
    BY <1>3 DEF InsertBack, FlowInv
  <2> SUFFICES ASSUME NEW o \in Keys, NEW k \in Keys, <<o, k>> \in members', userName[k] = NoName
               PROVE  \E g \in Requests :
                        /\ op[g] = "add" /\ caller[g] = k /\ target[g] = o
                        /\ pc'[g] \in {"naming", "listing"}
    BY <2>1 DEF UnnamedExplained
  <2>2. CASE <<o, k>> = <<target[h], caller[h]>>
    BY <2>1, <2>2
  <2>3. CASE <<o, k>> \in members
    <3>1. PICK g \in Requests :
            /\ op[g] = "add" /\ caller[g] = k /\ target[g] = o
            /\ pc[g] \in {"naming", "listing"}
      BY <2>3 DEF UnnamedExplained
    <3> QED BY <2>1, <3>1
  <2> QED BY <2>1, <2>2, <2>3
<1>4. CASE Resolve(h)
  <2>1. /\ pc[h] = "resolving" /\ UNCHANGED <<userName, members, op, caller>>
        /\ \A g \in Requests \ {h} : pc'[g] = pc[g] /\ target'[g] = target[g]
    BY <1>4 DEF Resolve
  <2> QED BY <2>1, UnnamedKept
<1>5. CASE Delete(h)
  <2>1. /\ pc[h] = "deleting" /\ members' \subseteq members
        /\ UNCHANGED <<userName, op, caller, target>>
        /\ \A g \in Requests \ {h} : pc'[g] = pc[g]
    BY <1>5 DEF Delete
  <2> QED BY <2>1, UnnamedKept
<1>6. CASE Start(h) \/ CheckName(h) \/ AnswerClaim(h) \/ ReadName(h) \/ WriteChat(h) \/ Fail(h)
  <2>1. UNCHANGED <<userName, members, op, caller, target>>
    BY <1>6 DEF Start, CheckName, AnswerClaim, ReadName, WriteChat, Fail
  <2>2. \A g \in Requests \ {h} : pc'[g] = pc[g]
    BY <1>6 DEF Start, CheckName, AnswerClaim, ReadName, WriteChat, Fail
  <2>3. pc[h] \in {"naming", "listing"} => pc'[h] \in {"naming", "listing"}
    BY <1>6 DEF Start, CheckName, AnswerClaim, ReadName, WriteChat, Fail
  <2> QED BY <2>1, <2>2, <2>3, UnnamedKept
<1> QED BY <1>1, <1>2, <1>3, <1>4, <1>5, <1>6

-----------------------------------------------------------------------------
(* The theorems about the directory.                                       *)

\* Every step preserves the invariant.
LEMMA IInvStep == IInv /\ [Next]_vars => IInv'
<1> SUFFICES ASSUME IInv, [Next]_vars PROVE IInv'
  OBVIOUS
<1>1. ASSUME NEW h \in Requests,
             \/ Start(h) \/ CheckName(h) \/ Claim(h) \/ AnswerClaim(h)
             \/ Resolve(h) \/ InsertMember(h) \/ InsertBack(h) \/ Delete(h)
             \/ ReadName(h) \/ WriteChat(h) \/ Fail(h)
      PROVE  IInv'
  BY <1>1, TypeStep, FlowStep, NamesStep, MembersStep, UnnamedStep DEF IInv
<1>2. CASE UNCHANGED vars
  BY <1>2 DEF IInv, TypeOK, FlowInv, TargetInv, RowInv, NamesDistinct, DistinctNames,
              OneSidedExplained, AddIsListed, UnnamedExplained, vars, requestVars
<1> QED BY <1>1, <1>2 DEF Next

\* The inductive invariant holds in every reachable state.
THEOREM Invariance == Spec => []IInv
BY IInvInit, IInvStep, PTL DEF Spec

\* Type correctness, with nobody in their own chat.
THEOREM TypeCorrect == Spec => []TypeOK
<1>1. IInv => TypeOK
  BY DEF IInv
<1> QED BY <1>1, Invariance, PTL

\* For any number of racing claims, no name has two holders (SetUsername over the
\* unique index on lower(username)).
THEOREM NamesStayDistinct == Spec => []NamesDistinct
<1>1. IInv => NamesDistinct
  BY DEF IInv
<1> QED BY <1>1, Invariance, PTL

\* Every one-sided membership comes from an add cut in two, by a failure or by a
\* removal between its INSERTs (AddChatMember).
THEOREM OneSidedIsExplained == Spec => []OneSidedExplained
<1>1. IInv => OneSidedExplained
  BY DEF IInv
<1> QED BY <1>1, Invariance, PTL

\* An answered add lists the added user unless a removal overtook it.
THEOREM AddsAreListed == Spec => []AddIsListed
<1>1. IInv => AddIsListed
  BY DEF IInv
<1> QED BY <1>1, Invariance, PTL

\* Whom an owner's list leaves out for want of a name has added that owner
\* (AddChatMember, ChatMembers).
THEOREM UnnamedAreExplained == Spec => []UnnamedExplained
<1>1. IInv => UnnamedExplained
  BY DEF IInv
<1> QED BY <1>1, Invariance, PTL

-----------------------------------------------------------------------------
(* SetUsername implements the registry.                                    *)

\* What the registry asks is what the unique index asks.
LEMMA HeldByAnother ==
  ASSUME TypeOK, NEW k \in Keys, NEW n \in Names
  PROVE  Registry!HeldByAnother(k, n) <=> ~(Holders(n) \subseteq {k})
BY DEF Registry!HeldByAnother, Holders

\* Before the first step, no claim is decided.
LEMMA RefinesInit == Init => Registry!Init
<1> SUFFICES ASSUME Init PROVE Registry!Init
  OBVIOUS
<1>1. \A h \in Requests : Verdict(h) = "none" /\ ClaimAnswer(h) = "none"
  BY DEF Init, Verdict, ClaimAnswer
<1>2. \A k \in Keys : userName[k] # NoName => ~Registry!HeldByAnother(k, userName[k])
  BY DEF Init, DistinctNames, Registry!HeldByAnother
<1> QED BY <1>1, <1>2 DEF Init, Registry!Init

\* A step that decides no claim and answers none is not seen by the registry.
LEMMA Unseen ==
  ASSUME UNCHANGED <<userName, requestVars>>,
         \A g \in Requests : Verdict(g)' = Verdict(g) /\ ClaimAnswer(g)' = ClaimAnswer(g)
  PROVE  UNCHANGED Registry!vars
BY DEF Registry!vars, requestVars

\* Every step is a step of the registry or changes nothing of it.
LEMMA RefinesStep ==
  ASSUME IInv, NEW h \in Requests,
         \/ Start(h) \/ CheckName(h) \/ Claim(h) \/ AnswerClaim(h)
         \/ Resolve(h) \/ InsertMember(h) \/ InsertBack(h) \/ Delete(h)
         \/ ReadName(h) \/ WriteChat(h) \/ Fail(h)
  PROVE  [Registry!Next]_(Registry!vars)
<1> DEFINE verdicts == [g \in Requests |-> Verdict(g)]
           answers  == [g \in Requests |-> ClaimAnswer(g)]
<1>0. TypeOK /\ FlowInv /\ caller[h] \in Keys /\ name[h] \in Names
  BY DEF IInv, TypeOK
<1>1. ASSUME \/ Running(h, "checking") /\ Advance(h, "refused") /\ UNCHANGED reply
             \/ Executes(h, "claiming", "refused"),
             UNCHANGED <<userName, requestVars>>,
             ~(Holders(name[h]) \subseteq {caller[h]})
      PROVE  Registry!Refuse(h)
  <2>0. /\ pc[h] \in {"checking", "claiming"} /\ reply[h] \in {"none", "unheard"}
        /\ pc' = [pc EXCEPT ![h] = "refused"]
        /\ \/ UNCHANGED reply
           \/ reply[h] = "unheard" /\ reply' = [reply EXCEPT ![h] = "error"]
    BY <1>1 DEF Running, Executes, Advance, Respond
  <2>1. Registry!HeldByAnother(caller[h], name[h])
    BY <1>0, <1>1, HeldByAnother
  <2>2. verdicts[h] = "none" /\ answers[h] \in {"none", "error"}
    BY <2>0 DEF Verdict, ClaimAnswer
  <2>3. verdicts' = [verdicts EXCEPT ![h] = "taken"] /\ answers' = answers
    BY <1>0, <1>1, <2>0 DEF Verdict, ClaimAnswer, TypeOK, requestVars
  <2> QED BY <1>1, <2>1, <2>2, <2>3 DEF Registry!Refuse, Registry!Undecided, requestVars
<1>2. ASSUME Executes(h, "claiming", "claimed"),
             UNCHANGED requestVars,
             Holders(name[h]) \subseteq {caller[h]},
             userName' = [userName EXCEPT ![caller[h]] = name[h]]
      PROVE  Registry!Grant(h)
  <2>0. /\ pc[h] = "claiming" /\ reply[h] \in {"none", "unheard"}
        /\ pc' = [pc EXCEPT ![h] = "claimed"]
        /\ \/ UNCHANGED reply
           \/ reply[h] = "unheard" /\ reply' = [reply EXCEPT ![h] = "error"]
    BY <1>2 DEF Executes, Advance, Respond
  <2>1. ~Registry!HeldByAnother(caller[h], name[h])
    BY <1>0, <1>2, HeldByAnother
  <2>2. verdicts[h] = "none" /\ answers[h] \in {"none", "error"}
    BY <2>0 DEF Verdict, ClaimAnswer
  <2>3. verdicts' = [verdicts EXCEPT ![h] = "ok"] /\ answers' = answers
    BY <1>0, <1>2, <2>0 DEF Verdict, ClaimAnswer, TypeOK, requestVars
  <2> QED BY <1>2, <2>1, <2>2, <2>3 DEF Registry!Grant, Registry!Undecided, requestVars
<1>3. CASE CheckName(h)
  <2>1. PICK owner \in Keys \union {NoKey} :
          /\ KeyForUsername(name[h], owner)
          /\ Advance(h, IF owner \in {NoKey, caller[h]} THEN "claiming" ELSE "refused")
    BY <1>3 DEF CheckName
  <2>2. UNCHANGED <<userName, reply, requestVars>> /\ Running(h, "checking")
    BY <1>3 DEF CheckName
  <2>3. CASE owner \in {NoKey, caller[h]}
    <3>1. \A g \in Requests : Verdict(g)' = Verdict(g) /\ ClaimAnswer(g)' = ClaimAnswer(g)
      BY <1>0, <2>1, <2>2, <2>3
         DEF Running, Advance, Verdict, ClaimAnswer, TypeOK, requestVars
    <3> QED BY <2>2, <3>1, Unseen
  <2>4. CASE owner \notin {NoKey, caller[h]}
    <3>1. ~(Holders(name[h]) \subseteq {caller[h]})
      BY <2>1, <2>4 DEF KeyForUsername
    <3> QED BY <1>1, <2>1, <2>2, <2>4, <3>1 DEF Registry!Next
  <2> QED BY <2>3, <2>4
<1>4. CASE Claim(h)
  BY <1>1, <1>2, <1>4 DEF Claim, Registry!Next
<1>5. ASSUME UNCHANGED <<userName, pc, requestVars>>, reply[h] = "none",
             NEW s \in {"error", "unheard", Verdict(h)}, s # "none", Respond(h, s)
      PROVE  [Registry!Next]_(Registry!vars)
  <2> DEFINE told == IF s = "unheard" THEN "error" ELSE s
  <2>1. \A g \in Requests : Verdict(g)' = Verdict(g)
    BY <1>5 DEF Verdict
  <2>2. CASE op[h] = "claim"
    <3>1. answers[h] = "none" /\ answers' = [answers EXCEPT ![h] = told] /\ verdicts' = verdicts
      BY <1>0, <1>5, <2>1, <2>2 DEF Respond, ClaimAnswer, TypeOK, requestVars
    <3>2. told = "error" \/ (told = verdicts[h] /\ verdicts[h] # "none")
      BY <1>5
    <3> QED BY <1>5, <3>1, <3>2
            DEF Registry!Next, Registry!Answer, Registry!GiveUp, requestVars
  <2>3. CASE op[h] # "claim"
    <3>1. \A g \in Requests : ClaimAnswer(g)' = ClaimAnswer(g)
      BY <1>0, <1>5, <2>3 DEF Respond, ClaimAnswer, TypeOK, requestVars
    <3> QED BY <1>5, <2>1, <3>1, Unseen
  <2> QED BY <2>2, <2>3
<1>6. CASE AnswerClaim(h)
  <2>1. UNCHANGED <<userName, pc, requestVars>> /\ reply[h] = "none"
    BY <1>6 DEF AnswerClaim, Running
  <2>2. Verdict(h) # "none" /\ Respond(h, Verdict(h))
    BY <1>6 DEF AnswerClaim, Running, Verdict
  <2> QED BY <1>5, <2>1, <2>2
<1>7. CASE Fail(h)
  BY <1>5, <1>7 DEF Fail
<1>8. CASE \/ Start(h) \/ Resolve(h) \/ InsertMember(h) \/ InsertBack(h) \/ Delete(h)
           \/ ReadName(h) \/ WriteChat(h)
  <2>1. UNCHANGED <<userName, requestVars>>
    BY <1>8 DEF Start, Resolve, InsertMember, InsertBack, Delete, ReadName, WriteChat
  <2>2. \A g \in Requests : Verdict(g)' = Verdict(g)
    BY <1>0, <1>8
       DEF Start, Resolve, InsertMember, InsertBack, Delete, ReadName, WriteChat, Running,
           Executes, Advance, Verdict, TypeOK
  <2>3. \A g \in Requests : ClaimAnswer(g)' = ClaimAnswer(g)
    <3>1. \A g \in Requests \ {h} : reply'[g] = reply[g]
      BY <1>0, <1>8
         DEF Start, Resolve, InsertMember, InsertBack, Delete, ReadName, WriteChat, Executes,
             Respond, TypeOK
    <3>2. op[h] # "claim" \/ reply'[h] = reply[h]
      BY <1>0, <1>8
         DEF Start, Resolve, InsertMember, InsertBack, Delete, ReadName, WriteChat, Running,
             Executes, FlowInv
    <3> QED BY <2>1, <3>1, <3>2 DEF ClaimAnswer, requestVars
  <2> QED BY <2>1, <2>2, <2>3, Unseen
<1> QED BY <1>3, <1>4, <1>6, <1>7, <1>8

\* Claiming a name is atomic: every claim is decided at one instant between its
\* request and its answer, and refused only while somebody else holds the name.
THEOREM Refinement == Spec => ImplementsRegistry
<1>1. IInv /\ [Next]_vars => [Registry!Next]_(Registry!vars)
  <2> SUFFICES ASSUME IInv, [Next]_vars PROVE [Registry!Next]_(Registry!vars)
    OBVIOUS
  <2>1. CASE UNCHANGED vars
    BY <2>1, Unseen DEF vars, Verdict, ClaimAnswer, requestVars
  <2> QED BY <2>1, RefinesStep DEF Next
<1> QED BY <1>1, RefinesInit, Invariance, PTL DEF Spec, ImplementsRegistry, Registry!Spec

-----------------------------------------------------------------------------
(* ChatServer: the inductive invariant.                                    *)

PostTypeOK ==
  /\ poster \in [Posts -> Keys]
  /\ stage \in [Posts -> {"idle", "naming", "reading", "adding", "added"}]
  /\ chat \in [Posts -> SUBSET Keys]
  /\ owed \in [Posts -> SUBSET Keys]
  /\ barred \in [Posts -> SUBSET Keys]

\* Settled pairs are members of each other's chats; parted ones are not, and
\* nothing is about to make them.
SettledInv == \A j, k \in Keys : {j, k} \in settled => <<j, k>> \in members
PartedInv ==
  \A j, k \in Keys : {j, k} \in parted => <<j, k>> \notin members /\ ~Underway({j, k})

\* What a post is owed or denied is still so.
StillInv ==
  \A p \in Posts : /\ owed[p] \subseteq Partners(settled, poster[p])
                   /\ barred[p] \subseteq Partners(parted, poster[p])

\* What it has read agrees with that.
ReadInv ==
  \A p \in Posts : stage[p] \in {"adding", "added"} =>
    owed[p] \subseteq chat[p] /\ barred[p] \intersect chat[p] = {}

StoredInv == \A m \in log : m.req \in Posts /\ stage[m.req] = "added"

PostInv == PostTypeOK /\ StillInv /\ ReadInv /\ StoredInv
PairInv == SettledInv /\ PartedInv

ChatIInv ==
  /\ IInv /\ PostInv /\ PairInv
  /\ AddedAreReached /\ RemovedAreNotReached

-----------------------------------------------------------------------------

\* Nothing is posted and no pair has a history.
LEMMA ChatIInvInit == ChatInit => ChatIInv
<1> SUFFICES ASSUME ChatInit PROVE ChatIInv
  OBVIOUS
<1>1. IInv
  BY IInvInit DEF ChatInit
<1>2. PostInv
  BY DEF ChatInit, Line!Init, PostInv, PostTypeOK, StillInv, ReadInv, StoredInv
<1>3. PairInv /\ AddedAreReached /\ RemovedAreNotReached
  BY DEF ChatInit, Line!Init, PairInv, SettledInv, PartedInv, AddedAreReached,
         RemovedAreNotReached
<1> QED BY <1>1, <1>2, <1>3 DEF ChatIInv

\* Posts do not touch the directory.
LEMMA DirectoryKept ==
  ASSUME ChatIInv, UNCHANGED vars
  PROVE  IInv'
BY IInvStep DEF ChatIInv

\* Nor do claims and reads: the pairs and their history stay as they are.
LEMMA PairsKept ==
  ASSUME ChatIInv, UNCHANGED <<vars, settled, parted>>
  PROVE  PairInv'
BY DEF ChatIInv, PairInv, SettledInv, PartedInv, Underway, vars, requestVars

\* The steps of a post.
LEMMA PostStep ==
  ASSUME ChatIInv, NEW p \in Posts,
         \/ BeginPost(p) \/ ReadSender(p) \/ ReadChat(p) \/ Add(p) \/ AnswerPost(p)
         \/ FailPost(p)
  PROVE  ChatIInv'
<1> USE DEF PostInv, PostTypeOK, StoredInv
<1>1. UNCHANGED <<vars, settled, parted>>
  BY DEF BeginPost, ReadSender, ReadChat, Add, AnswerPost, FailPost, historyVars
<1>2. IInv' /\ PairInv'
  BY <1>1, DirectoryKept, PairsKept
<1>3. CASE BeginPost(p)
  <2>1. stage[p] = "idle" /\ log' = log /\ UNCHANGED <<poster, chat>>
    BY <1>3 DEF BeginPost, Handling, lineVars
  <2>2. PostTypeOK'
    BY <1>3 DEF ChatIInv, BeginPost, Proceed, Partners
  <2>3. StillInv'
    BY <1>3 DEF ChatIInv, StillInv, BeginPost, Partners
  <2>4. ReadInv'
    BY <1>3, <2>1 DEF ChatIInv, ReadInv, BeginPost, Proceed
  <2>5. StoredInv' /\ AddedAreReached' /\ RemovedAreNotReached'
    BY <1>3, <2>1
       DEF ChatIInv, AddedAreReached, RemovedAreNotReached, BeginPost, Proceed
  <2> QED BY <1>2, <2>2, <2>3, <2>4, <2>5 DEF ChatIInv
<1>4. CASE ReadSender(p) \/ AnswerPost(p) \/ FailPost(p)
  <2>1. /\ log' = log /\ UNCHANGED <<poster, chat, historyVars>>
        /\ \/ UNCHANGED stage
           \/ stage[p] = "naming" /\ stage' = [stage EXCEPT ![p] = "reading"]
    BY <1>4 DEF ReadSender, AnswerPost, FailPost, Handling, Proceed, lineVars, postVars,
                Line!GiveUp, Line!Acknowledge
  <2>2. PostTypeOK' /\ StillInv' /\ ReadInv'
    BY <1>1, <2>1 DEF ChatIInv, StillInv, ReadInv, historyVars
  <2>3. StoredInv' /\ AddedAreReached' /\ RemovedAreNotReached'
    BY <2>1 DEF ChatIInv, AddedAreReached, RemovedAreNotReached, historyVars
  <2> QED BY <1>2, <2>2, <2>3 DEF ChatIInv
<1>5. CASE ReadChat(p)
  <2>1. /\ log' = log /\ UNCHANGED <<poster, historyVars>>
        /\ stage[p] = "reading" /\ stage' = [stage EXCEPT ![p] = "adding"]
        /\ chat' = [chat EXCEPT ![p] = ChatMemberKeys(poster[p])]
    BY <1>5 DEF ReadChat, Handling, Proceed, lineVars
  <2>2. PostTypeOK' /\ StillInv'
    BY <1>1, <2>1 DEF ChatIInv, StillInv, historyVars, ChatMemberKeys
  <2>3. /\ owed[p] \subseteq ChatMemberKeys(poster[p])
        /\ barred[p] \intersect ChatMemberKeys(poster[p]) = {}
    <3>1. \A j \in Keys : {j, poster[p]} = {poster[p], j}
      OBVIOUS
    <3> QED BY <3>1
            DEF ChatIInv, PairInv, SettledInv, PartedInv, StillInv, Partners, ChatMemberKeys
  <2>4. ReadInv'
    BY <2>1, <2>3 DEF ChatIInv, ReadInv, historyVars
  <2>5. StoredInv' /\ AddedAreReached' /\ RemovedAreNotReached'
    BY <2>1 DEF ChatIInv, AddedAreReached, RemovedAreNotReached, historyVars
  <2> QED BY <1>2, <2>2, <2>4, <2>5 DEF ChatIInv
<1>6. CASE Add(p)
  <2>1. /\ UNCHANGED <<poster, chat, historyVars>>
        /\ stage[p] = "adding" /\ stage' = [stage EXCEPT ![p] = "added"]
    BY <1>6 DEF Add, Proceed
  <2>0. PICK k \in Keys, to \in SUBSET Keys :
          log' = log \union {[id |-> last + 1, req |-> p, sender |-> k, to |-> to]}
    BY <1>6 DEF Add, Line!Post
  <2> DEFINE m == [id |-> last + 1, req |-> p, sender |-> k, to |-> to]
  <2>2. log' = log \union {m} /\ m.req = p
    BY <2>0
  <2> HIDE DEF m
  <2>3. \A n \in log : n.req # p
    BY <1>6 DEF Add, Line!Post, Line!Posted
  <2>4. m \notin log
    BY <2>2, <2>3
  <2>5. m.to = chat[p] \ {poster[p]}
    BY <1>6, <2>2, <2>4 DEF Add
  <2>6. poster[p] \notin owed[p]
    <3>0. poster[p] \in Keys
      BY DEF ChatIInv
    <3>1. <<poster[p], poster[p]>> \notin members
      BY DEF ChatIInv, IInv, TypeOK
    <3>2. {poster[p], poster[p]} \notin settled
      BY <3>0, <3>1 DEF ChatIInv, PairInv, SettledInv
    <3> QED BY <3>2 DEF ChatIInv, StillInv, Partners
  <2>7. owed[p] \subseteq m.to /\ barred[p] \intersect m.to = {}
    BY <2>1, <2>5, <2>6 DEF ChatIInv, ReadInv
  <2>8. PostTypeOK' /\ StillInv' /\ ReadInv'
    BY <1>1, <2>1 DEF ChatIInv, StillInv, ReadInv, historyVars
  <2>9. StoredInv' /\ AddedAreReached' /\ RemovedAreNotReached'
    BY <2>1, <2>2, <2>7 DEF ChatIInv, AddedAreReached, RemovedAreNotReached, historyVars
  <2> QED BY <1>2, <2>8, <2>9 DEF ChatIInv
<1> QED BY <1>3, <1>4, <1>5, <1>6

\* What the posts know shrinks with the pairs.
LEMMA HistoryShrinks ==
  ASSUME ChatIInv, UNCHANGED <<postVars, lineVars>>,
         owed' = WhileSo(owed, settled'), barred' = WhileSo(barred, parted')
  PROVE  PostInv' /\ AddedAreReached' /\ RemovedAreNotReached'
<1>1. \A p \in Posts : /\ owed'[p] \subseteq owed[p] /\ barred'[p] \subseteq barred[p]
                       /\ owed'[p] \subseteq Partners(settled', poster[p])
                       /\ barred'[p] \subseteq Partners(parted', poster[p])
  BY DEF WhileSo
<1>2. PostTypeOK'
  BY DEF ChatIInv, PostInv, PostTypeOK, WhileSo, postVars
<1>3. StillInv'
  BY <1>1 DEF StillInv, postVars, Partners
<1>4. ReadInv' /\ StoredInv'
  BY <1>1 DEF ChatIInv, PostInv, ReadInv, StoredInv, postVars, lineVars
<1>5. AddedAreReached' /\ RemovedAreNotReached'
  BY <1>1 DEF ChatIInv, PostInv, StoredInv, AddedAreReached, RemovedAreNotReached, lineVars
<1> QED BY <1>2, <1>3, <1>4, <1>5 DEF PostInv

\* Two ways to write one pair.
LEMMA SamePair ==
  ASSUME NEW a, NEW b, NEW c, NEW d, {a, b} = {c, d}
  PROVE  (a = c /\ b = d) \/ (a = d /\ b = c)
OBVIOUS

\* A directory step that is no statement of an add or a removal changes no row and
\* sets no add under way.
LEMMA OtherStep ==
  ASSUME ChatIInv, NEW h \in Requests,
         \/ Start(h) \/ CheckName(h) \/ Claim(h) \/ AnswerClaim(h)
         \/ ReadName(h) \/ WriteChat(h) \/ Fail(h),
         UNCHANGED <<settled, parted>>
  PROVE  PairInv'
<1>1. UNCHANGED <<members, target, requestVars>>
  BY DEF Start, CheckName, Claim, AnswerClaim, ReadName, WriteChat, Fail
<1>2. \A g \in Requests :
        reply'[g] \in {"none", "unheard"} /\ pc'[g] \in {"inserting", "insertingBack"}
          => reply[g] \in {"none", "unheard"} /\ pc[g] = pc'[g]
  BY DEF Start, CheckName, Claim, AnswerClaim, ReadName, WriteChat, Fail, Running, Executes,
         Advance, Respond, ChatIInv, IInv, TypeOK
<1>3. \A pair : Underway(pair)' => Underway(pair)
  BY <1>1, <1>2 DEF Underway, requestVars
<1> QED BY <1>1, <1>3 DEF ChatIInv, PairInv, SettledInv, PartedInv

\* Resolving a name puts an add of the pair under way: the pair is no longer parted.
LEMMA ResolveStep ==
  ASSUME ChatIInv, NEW h \in Requests, Resolve(h), Touch(h)
  PROVE  PairInv'
<1>1. UNCHANGED <<members, requestVars, settled>>
  BY DEF Resolve, Touch
<1>2. \A g \in Requests \ {h} :
        reply'[g] = reply[g] /\ pc'[g] = pc[g] /\ target'[g] = target[g]
  BY DEF Resolve, Advance, Respond, ChatIInv, IInv, TypeOK
<1>3. \A pair : Underway(pair)' =>
        Underway(pair) \/ (op[h] = "add" /\ pair = {caller[h], target'[h]})
  BY <1>1, <1>2 DEF Underway, requestVars
<1> QED BY <1>1, <1>3 DEF ChatIInv, PairInv, SettledInv, PartedInv, Touch

\* An add's own INSERTs never join a parted pair, because the add is under way.
LEMMA InsertMemberStep ==
  ASSUME ChatIInv, NEW h \in Requests, InsertMember(h), UNCHANGED <<settled, parted>>
  PROVE  PairInv'
<1>1. UNCHANGED <<target, requestVars>> /\ members' = members \union {<<caller[h], target[h]>>}
  BY DEF InsertMember
<1>2. Underway({caller[h], target[h]})
  BY DEF InsertMember, Executes, Underway, ChatIInv, IInv, FlowInv
<1>3. \A g \in Requests :
        /\ pc'[g] \in {"inserting", "insertingBack"} => pc[g] \in {"inserting", "insertingBack"}
        /\ reply'[g] \in {"none", "unheard"} => reply[g] \in {"none", "unheard"}
  BY DEF InsertMember, Executes, Advance, Respond, ChatIInv, IInv, TypeOK
<1>4. \A pair : Underway(pair)' => Underway(pair)
  BY <1>1, <1>3 DEF Underway, requestVars
<1> QED BY <1>1, <1>2, <1>4 DEF ChatIInv, PairInv, SettledInv, PartedInv

\* The second INSERT of an add nothing undid settles the pair, on both sides.
LEMMA InsertBackStep ==
  ASSUME ChatIInv, NEW h \in Requests, InsertBack(h), Join(h)
  PROVE  PairInv'
<1>1. /\ UNCHANGED <<target, requestVars, parted>>
      /\ members' = members \union {<<target[h], caller[h]>>}
  BY DEF InsertBack, Join
<1>2. op[h] = "add" /\ reply[h] \in {"none", "unheard"} /\ pc[h] = "insertingBack"
  BY DEF InsertBack, Executes, ChatIInv, IInv, FlowInv
<1>3. Underway({caller[h], target[h]}) /\ {caller[h], target[h]} = {target[h], caller[h]}
  BY <1>2 DEF Underway
<1>4. \A g \in Requests :
        /\ pc'[g] \in {"inserting", "insertingBack"} => pc[g] \in {"inserting", "insertingBack"}
        /\ reply'[g] \in {"none", "unheard"} => reply[g] \in {"none", "unheard"}
  BY DEF InsertBack, Executes, Advance, Respond, ChatIInv, IInv, TypeOK
<1>5. \A pair : Underway(pair)' => Underway(pair)
  BY <1>1, <1>4 DEF Underway, requestVars
<1>6. PartedInv'
  BY <1>1, <1>3, <1>5 DEF ChatIInv, PairInv, PartedInv
<1>7. undone[h] = "no" => <<caller[h], target[h]>> \in members
  BY <1>2 DEF ChatIInv, IInv, RowInv
<1>8. SettledInv'
  <2> SUFFICES ASSUME NEW j \in Keys, NEW k \in Keys, {j, k} \in settled'
               PROVE  <<j, k>> \in members'
    BY DEF SettledInv
  <2>1. CASE {j, k} \in settled
    BY <1>1, <2>1 DEF ChatIInv, PairInv, SettledInv
  <2>2. CASE {j, k} \notin settled
    <3>1. undone[h] = "no" /\ {j, k} = {caller[h], target[h]}
      BY <2>2 DEF Join
    <3> QED BY <1>1, <1>7, <3>1, SamePair
  <2> QED BY <2>1, <2>2
<1> QED BY <1>6, <1>8 DEF PairInv

\* A removal takes both sides away, so the pair is not settled any more.
LEMMA DeleteStep ==
  ASSUME ChatIInv, NEW h \in Requests, Delete(h), Part(h)
  PROVE  PairInv'
<1> DEFINE pair == {caller[h], target[h]}
<1>1. UNCHANGED <<target, requestVars>> /\ members' = members \ Pair(caller[h], target[h])
  BY DEF Delete
<1>2. \A g \in Requests :
        /\ pc'[g] \in {"inserting", "insertingBack"} => pc[g] \in {"inserting", "insertingBack"}
        /\ reply'[g] \in {"none", "unheard"} => reply[g] \in {"none", "unheard"}
  BY DEF Delete, Executes, Advance, Respond, ChatIInv, IInv, TypeOK
<1>3. \A q : Underway(q)' => Underway(q)
  BY <1>1, <1>2 DEF Underway, requestVars
<1>4. /\ settled' = settled \ {pair}
      /\ parted' = IF Underway(pair) THEN parted ELSE parted \union {pair}
  BY DEF Part
<1>5. SettledInv'
  <2> SUFFICES ASSUME NEW j \in Keys, NEW k \in Keys, {j, k} \in settled'
               PROVE  <<j, k>> \in members'
    BY DEF SettledInv
  <2>1. {j, k} # pair /\ <<j, k>> \in members
    BY <1>4 DEF ChatIInv, PairInv, SettledInv
  <2>2. <<j, k>> \notin Pair(caller[h], target[h])
    <3>1. <<j, k>> # <<caller[h], target[h]>> /\ <<j, k>> # <<target[h], caller[h]>>
      BY <2>1
    <3> QED BY <3>1 DEF Pair
  <2> QED BY <1>1, <2>1, <2>2
<1>6. PartedInv'
  <2> SUFFICES ASSUME NEW j \in Keys, NEW k \in Keys, {j, k} \in parted'
               PROVE  <<j, k>> \notin members' /\ ~Underway({j, k})'
    BY DEF PartedInv
  <2>1. CASE {j, k} \in parted
    BY <1>1, <1>3, <2>1 DEF ChatIInv, PairInv, PartedInv
  <2>2. CASE {j, k} \notin parted
    <3>1. {j, k} = pair /\ ~Underway(pair)
      BY <1>4, <2>2
    <3>2. <<j, k>> \in Pair(caller[h], target[h])
      BY <3>1, SamePair DEF Pair
    <3> QED BY <1>1, <1>3, <3>1, <3>2
  <2> QED BY <2>1, <2>2
<1> QED BY <1>5, <1>6 DEF PairInv

\* The steps of the directory.
LEMMA DirectoryStepKeeps == ASSUME ChatIInv, NEW h \in Requests, DirectoryStep(h) PROVE ChatIInv'
<1>1. IInv'
  <2>1. Next
    BY DEF DirectoryStep, Next
  <2> QED BY <2>1, IInvStep DEF ChatIInv
<1>2. PairInv'
  BY OtherStep, ResolveStep, InsertMemberStep, InsertBackStep, DeleteStep DEF DirectoryStep
<1>3. PostInv' /\ AddedAreReached' /\ RemovedAreNotReached'
  BY HistoryShrinks DEF DirectoryStep
<1> QED BY <1>1, <1>2, <1>3 DEF ChatIInv

\* Every step preserves the invariant.
LEMMA ChatIInvStep == ChatIInv /\ [ChatNext]_chatVars => ChatIInv'
<1> SUFFICES ASSUME ChatIInv, [ChatNext]_chatVars PROVE ChatIInv'
  OBVIOUS
<1>1. CASE UNCHANGED chatVars
  <2>1. UNCHANGED <<vars, postVars, lineVars, historyVars>>
    BY <1>1 DEF chatVars
  <2>2. IInv' /\ PairInv'
    BY <2>1, DirectoryKept, PairsKept DEF historyVars
  <2>3. PostInv' /\ AddedAreReached' /\ RemovedAreNotReached'
    BY <2>1 DEF ChatIInv, PostInv, PostTypeOK, StillInv, ReadInv, StoredInv, AddedAreReached,
                RemovedAreNotReached, Partners, postVars, lineVars, historyVars
  <2> QED BY <2>2, <2>3 DEF ChatIInv
<1> QED BY <1>1, PostStep, DirectoryStepKeeps DEF ChatNext

-----------------------------------------------------------------------------

\* The inductive invariant holds in every reachable state.
THEOREM ChatInvariance == ChatSpec => []ChatIInv
BY ChatIInvInit, ChatIInvStep, PTL DEF ChatSpec

\* Whoever an add has joined is addressed by the other from then on, until a
\* removal of the pair (AddChatMember, handleMessages).
THEOREM AddedAreAddressed == ChatSpec => []AddedAreReached
<1>1. ChatIInv => AddedAreReached
  BY DEF ChatIInv
<1> QED BY <1>1, ChatInvariance, PTL

\* Whoever a removal has parted is not addressed by the other, until an add of the
\* pair (RemoveChatMember, handleMessages).
THEOREM RemovedAreNotAddressed == ChatSpec => []RemovedAreNotReached
<1>1. ChatIInv => RemovedAreNotReached
  BY DEF ChatIInv
<1> QED BY <1>1, ChatInvariance, PTL

\* The directory's invariant survives the composition: posts change nothing of it.
THEOREM DirectoryInvariance == ChatSpec => []IInv
<1>1. ChatIInv => IInv
  BY DEF ChatIInv
<1> QED BY <1>1, ChatInvariance, PTL
==============================================================================
