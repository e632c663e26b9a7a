-------------------------------- MODULE Gate --------------------------------
(***************************************************************************)
(* The way in: Authenticate of auth.go on every replica, and the two key   *)
(* tables of userdb.go behind it, while an administrator authorizes keys.  *)
(*                                                                         *)
(* A request is signed once, with a nonce of its own, and may be delivered *)
(* more than once and to several replicas.  Each replica remembers nonces  *)
(* in memory.  Between any two statements of a delivery, and between       *)
(* reading the clock and locking the nonce cache, others run.              *)
(***************************************************************************)
EXTENDS Integers

CONSTANTS Keys,           \* public keys
          Replicas,       \* server processes
          Requests,       \* signed requests: each is its nonce
          Deliveries,     \* arrivals of a request at a replica
          MaxSkew,        \* how far a timestamp may be from the clock
          SweepInterval,  \* how often the nonce cache is cleared out
          MaxTime         \* bound of the clock

ASSUME TimesAssumption == MaxSkew \in Nat /\ SweepInterval \in Nat /\ MaxTime \in Nat

VARIABLES
  now,           \* the replicas' clock
  seen,          \* nonceCache.seen of each replica: pairs <<nonce, time>>
  lastSweep,     \* nonceCache.lastSweep
  authorized,    \* authorizedUsers
  unauthorized,  \* unauthorizedUsers
  signer,        \* the key each request is signed with
  stamp,         \* its X-Timestamp
  of, at,        \* what each delivery delivers, and to which replica
  pc, status,    \* where each delivery is, and what it was answered
  clock,         \* its verifySignature's now
  admin,         \* where the -authorize command for each key is
  spent,         \* history: the deliveries that passed their replica's nonce check
  stale,         \* history: those whose clock was behind its last sweep by then
  filed,         \* history: the deliveries whose key has been recorded
  overtaken      \* history: those that looked their key up before the command for it
                 \* began, and had not recorded it when the command ended

requestVars == <<signer, stamp, of, at>>
cacheVars   == <<seen, lastSweep, spent, stale>>
tableVars   == <<authorized, unauthorized, admin, filed, overtaken>>
vars == <<now, cacheVars, tableVars, requestVars, pc, status, clock>>

-----------------------------------------------------------------------------

\* A server starts with an empty cache over tables that earlier ones have left.
Init ==
  /\ now = 0
  /\ seen = [p \in Replicas |-> {}]
  /\ lastSweep = [p \in Replicas |-> 0]
  /\ authorized \in SUBSET Keys
  /\ unauthorized \in SUBSET (Keys \ authorized)
  /\ signer \in [Requests -> Keys]
  /\ stamp \in [Requests -> 0 .. MaxTime]
  /\ of \in [Deliveries -> Requests]
  /\ at \in [Deliveries -> Replicas]
  /\ pc = [d \in Deliveries |-> "idle"]
  /\ status = [d \in Deliveries |-> "none"]
  /\ clock = [d \in Deliveries |-> 0]
  /\ admin = [k \in Keys |-> "idle"]
  /\ spent = {}
  /\ stale = {}
  /\ filed = {}
  /\ overtaken = {}

Tick ==
  /\ now < MaxTime
  /\ now' = now + 1
  /\ UNCHANGED <<cacheVars, tableVars, requestVars, pc, status, clock>>

Running(d, where) == pc[d] = where /\ status[d] = "none"

Advance(d, next) == pc' = [pc EXCEPT ![d] = next]

Respond(d, answer) == status' = [status EXCEPT ![d] = answer]

-----------------------------------------------------------------------------
(* verifySignature.                                                        *)

\* time.Now() and the skew check, which looks both ways.
CheckFresh(d) ==
  /\ Running(d, "idle")
  /\ clock' = [clock EXCEPT ![d] = now]
  /\ IF now - stamp[of[d]] \in -MaxSkew .. MaxSkew
       THEN Advance(d, "spending") /\ UNCHANGED status
       ELSE Respond(d, "unsigned") /\ UNCHANGED pc
  /\ UNCHANGED <<now, cacheVars, tableVars, requestVars>>

DueForSweep(p, time) == time - lastSweep[p] >= SweepInterval

\* Mutant: an entry goes a moment before its request stops being fresh.
SweptEarly(p, time) ==
  IF DueForSweep(p, time) THEN {e \in seen[p] : time - e[2] < MaxSkew} ELSE seen[p]

\* What nonceCache.use finds in the cache: old entries go first, if it is time.
Swept(p, time) ==
  IF DueForSweep(p, time) THEN {e \in seen[p] : time - e[2] <= MaxSkew} ELSE seen[p]

\* nonceCache.use, under its mutex, with the time read before it was locked.
SpendNonce(d) ==
  LET p     == at[d]
      nonce == of[d]
      left  == Swept(p, clock[d])
      dup   == \E e \in left : e[1] = nonce
  IN /\ Running(d, "spending")
     /\ lastSweep' = [lastSweep EXCEPT ![p] = IF DueForSweep(p, clock[d]) THEN clock[d] ELSE @]
     /\ seen' = [seen EXCEPT ![p] = IF dup THEN left ELSE left \union {<<nonce, clock[d]>>}]
     /\ IF dup
          THEN Respond(d, "unsigned") /\ UNCHANGED <<pc, spent, stale>>
          ELSE /\ Advance(d, "verifying")
               /\ spent' = spent \union {d}
               /\ stale' = IF clock[d] < lastSweep[p] THEN stale \union {d} ELSE stale
               /\ UNCHANGED status
     /\ UNCHANGED <<now, clock, tableVars, requestVars>>

\* The signature is checked last; nothing is recorded of one that does not match.
Verify(d) ==
  /\ Running(d, "verifying")
  /\ \/ Advance(d, "looking") /\ UNCHANGED status
     \/ Respond(d, "unsigned") /\ UNCHANGED pc
  /\ UNCHANGED <<now, clock, cacheVars, tableVars, requestVars>>

-----------------------------------------------------------------------------
(* Authenticate after the signature.                                       *)

SignerOf(d) == signer[of[d]]

\* IsAuthorized; a failing lookup is 503.
LookUp(d) ==
  /\ Running(d, "looking")
  /\ \/ SignerOf(d) \in authorized /\ Respond(d, "handled") /\ UNCHANGED pc
     \/ SignerOf(d) \notin authorized /\ Advance(d, "recording") /\ UNCHANGED status
     \/ Respond(d, "unavailable") /\ UNCHANGED pc
  /\ UNCHANGED <<now, clock, cacheVars, tableVars, requestVars>>

\* RecordUnauthorized, whose failure is only logged, and the 403.
Record(d) ==
  /\ Running(d, "recording")
  /\ \/ unauthorized' = unauthorized \union {SignerOf(d)} /\ filed' = filed \union {d}
     \/ UNCHANGED <<unauthorized, filed>>
  /\ Respond(d, "forbidden")
  /\ UNCHANGED <<now, clock, pc, cacheVars, authorized, admin, overtaken, requestVars>>

\* A replica is replaced: what it was handling ends unanswered, its cache is empty.
Restart(p) ==
  /\ seen' = [seen EXCEPT ![p] = {}]
  /\ lastSweep' = [lastSweep EXCEPT ![p] = now]
  /\ spent' = {d \in spent : at[d] # p}
  /\ stale' = {d \in stale : at[d] # p}
  /\ status' = [d \in Deliveries |->
                  IF at[d] = p /\ pc[d] # "idle" /\ status[d] = "none"
                    THEN "lost"
                    ELSE status[d]]
  /\ UNCHANGED <<now, clock, pc, tableVars, requestVars>>

-----------------------------------------------------------------------------
(* messageServer -authorize: UserStore.Authorize, two statements.          *)

\* The deliveries of a key that have looked it up and are about to record it.
AboutToRecord(k) == {d \in Deliveries : SignerOf(d) = k /\ Running(d, "recording")}

\* Mutant: the delete comes first.
AdminInsertLast(k) ==
  /\ admin[k] = "idle"
  /\ unauthorized' = unauthorized \ {k}
  /\ admin' = [admin EXCEPT ![k] = "clearing"]
  /\ overtaken' = overtaken \union AboutToRecord(k)
  /\ UNCHANGED <<now, clock, pc, status, cacheVars, authorized, filed, requestVars>>

AdminInsert(k) ==
  /\ admin[k] = "idle"
  /\ authorized' = authorized \union {k}
  /\ admin' = [admin EXCEPT ![k] = "clearing"]
  /\ overtaken' = overtaken \union AboutToRecord(k)
  /\ UNCHANGED <<now, clock, pc, status, cacheVars, unauthorized, filed, requestVars>>

\* History: the deliveries that are no longer about to record have not been overtaken.
Outrun(k) == {d \in overtaken : SignerOf(d) = k} \ AboutToRecord(k)

\* Mutant: the delete is forgotten.
AdminClearNothing(k) ==
  /\ admin[k] = "clearing"
  /\ admin' = [admin EXCEPT ![k] = "done"]
  /\ overtaken' = overtaken \ Outrun(k)
  /\ UNCHANGED <<now, clock, pc, status, cacheVars, authorized, unauthorized, filed, requestVars>>

AdminClear(k) ==
  /\ admin[k] = "clearing"
  /\ unauthorized' = unauthorized \ {k}
  /\ admin' = [admin EXCEPT ![k] = "done"]
  /\ overtaken' = overtaken \ Outrun(k)
  /\ UNCHANGED <<now, clock, pc, status, cacheVars, authorized, filed, requestVars>>

\* Either statement fails, or the command is interrupted.
AdminFail(k) ==
  /\ admin[k] \in {"idle", "clearing"}
  /\ admin' = [admin EXCEPT ![k] = "failed"]
  /\ UNCHANGED <<now, clock, pc, status, cacheVars, authorized, unauthorized, filed, overtaken, requestVars>>

Next ==
  \/ Tick
  \/ \E d \in Deliveries :
       CheckFresh(d) \/ SpendNonce(d) \/ Verify(d) \/ LookUp(d) \/ Record(d)
  \/ \E p \in Replicas : Restart(p)
  \/ \E k \in Keys : AdminInsert(k) \/ AdminClear(k) \/ AdminFail(k)

Spec == Init /\ [][Next]_vars

-----------------------------------------------------------------------------
(* Properties.                                                             *)

Ended == {"unsigned", "handled", "unavailable", "forbidden", "lost"}

\* Every variable has its type; cached times are clock readings.
TypeOK ==
  /\ now \in 0 .. MaxTime
  /\ seen \in [Replicas -> SUBSET (Requests \X (0 .. MaxTime))]
  /\ lastSweep \in [Replicas -> 0 .. MaxTime]
  /\ authorized \subseteq Keys /\ unauthorized \subseteq Keys
  /\ signer \in [Requests -> Keys]
  /\ stamp \in [Requests -> 0 .. MaxTime]
  /\ of \in [Deliveries -> Requests]
  /\ at \in [Deliveries -> Replicas]
  /\ pc \in [Deliveries -> {"idle", "spending", "verifying", "looking", "recording"}]
  /\ status \in [Deliveries -> Ended \union {"none"}]
  /\ clock \in [Deliveries -> 0 .. MaxTime]
  /\ admin \in [Keys -> {"idle", "clearing", "done", "failed"}]
  /\ stale \subseteq spent /\ spent \subseteq Deliveries
  /\ filed \subseteq Deliveries /\ overtaken \subseteq Deliveries

\* A delivery is accepted after an earlier one of its request only if the request's
\* timestamp was ahead of the clock that first accepted it, by as much as the clock has
\* moved on beyond MaxSkew.  So a process accepts a request once if its timestamp is not
\* in the future, however often it is delivered and however its deliveries race for the
\* cache, and never twice within MaxSkew; a delivery that read its clock before a later
\* one swept the cache is the only other exception (nonceCache.use, verifySignature).
AcceptedOnce ==
  \A d, e \in spent \ stale :
    d # e /\ of[d] = of[e] /\ at[d] = at[e] /\ clock[d] <= clock[e] =>
      /\ clock[e] - clock[d] > MaxSkew
      /\ stamp[of[d]] - clock[d] >= clock[e] - clock[d] - MaxSkew

\* No key that was turned away and recorded is lost to the administrator: it is
\* waiting in one table until it is in the other, whatever fails in between
\* (Authorize inserts before it deletes).
TurnedAwayIsKnown ==
  \A d \in filed : SignerOf(d) \in authorized \union unauthorized

\* A key that is in authorizedUsers and still pending was left by a command that was
\* cut short, or is not through, between its statements; or a delivery that looked it
\* up before the command's first statement has recorded it after the last
\* (Authenticate's check and record, Authorize's two statements).
PendingExplained ==
  \A k \in authorized \intersect unauthorized :
    \/ admin[k] \in {"clearing", "failed"}
    \/ \E d \in filed \intersect overtaken : SignerOf(d) = k

=============================================================================
