------------------------------- MODULE KeyStore -------------------------------
(***************************************************************************)
(* KeyStore.swift and what ChatClient.swift asks of it.  The two halves of *)
(* the device's key pair are two rows of the settings table, written one   *)
(* after the other outside a transaction.  The store is an actor: its      *)
(* methods do not suspend, so that calls only interleave between them; but *)
(* the app may be stopped, and a write may fail, between any two steps.    *)
(*                                                                         *)
(* A key pair is the number of its generation; a half is 0 where there is  *)
(* none.                                                                   *)
(***************************************************************************)
EXTENDS Integers

CONSTANTS Calls,   \* calls to the server under way at once
          MaxKeys  \* bound: key pairs ever generated

ASSUME MaxKeysAssumption == MaxKeys \in Nat

VARIABLES
  settings,   \* the halves in the table
  pair,       \* the halves in memory; none until the store is prepared
  step,       \* what the store does next: nothing, or a step of installing a pair
  made,       \* the number of pairs generated
  signing,    \* how far each call's signed has got
  signedAs,   \* the half named in its header and the half it is signed with
  overtaken,  \* history: the calls under way when a pair was installed
  torn        \* history: the last installation over another pair was cut in half

signingVars == <<signing, signedAs, overtaken>>
storage     == <<settings, pair, step, made, torn>>
storeVars   == <<signingVars, storage>>

Whole(k) == [private |-> k, public |-> k]
None == Whole(0)

StoreInit ==
  /\ settings = None /\ pair = None /\ step = "idle" /\ made = 0
  /\ signing = [c \in Calls |-> "idle"]
  /\ signedAs = [c \in Calls |-> None]
  /\ overtaken = {} /\ torn = FALSE

-----------------------------------------------------------------------------
(* prepare and regenerate.                                                 *)

\* Mutant: the private half is enough.
StoredPrivate == settings.private # 0

Stored == settings.private # 0 /\ settings.public # 0

\* The pair that is stored is loaded.  Nothing compares its halves.
Load ==
  /\ step = "idle" /\ pair = None
  /\ Stored
  /\ pair' = settings
  /\ UNCHANGED <<settings, step, made, torn, signingVars>>

Generate ==
  /\ step = "idle"
  /\ made < MaxKeys /\ made' = made + 1
  /\ step' = "writingPrivate"
  /\ UNCHANGED <<settings, pair, torn, signingVars>>

\* Nothing is stored, or what is stored cannot be read or does not import.
Create == pair = None /\ Generate

\* The user asks for a new key.
Regenerate == pair # None /\ Generate

WritePrivate ==
  /\ step = "writingPrivate"
  /\ settings' = [settings EXCEPT !.private = made]
  /\ step' = "writingPublic"
  /\ UNCHANGED <<pair, made, torn, signingVars>>

\* Mutant: only the public half is taken into memory.
WritePublicOnly ==
  /\ step = "writingPublic"
  /\ settings' = [settings EXCEPT !.public = made]
  /\ pair' = [pair EXCEPT !.public = made]
  /\ step' = "idle"
  /\ overtaken' = {c \in Calls : signing[c] # "idle"}
  /\ torn' = FALSE
  /\ UNCHANGED <<made, signing, signedAs>>

\* The second half is written and the pair is taken into memory.
WritePublic ==
  /\ step = "writingPublic"
  /\ settings' = [settings EXCEPT !.public = made]
  /\ pair' = Whole(made)
  /\ step' = "idle"
  /\ overtaken' = {c \in Calls : signing[c] # "idle"}
  /\ torn' = FALSE
  /\ UNCHANGED <<made, signing, signedAs>>

CutInHalf == step = "writingPublic" /\ settings.public # 0

\* A write fails: the pair in memory stays, the table is as it was left.
WriteFails ==
  /\ step # "idle" /\ step' = "idle"
  /\ torn' = (torn \/ CutInHalf)
  /\ UNCHANGED <<settings, pair, made, signingVars>>

\* The system stops the app, and it is launched again.
Relaunch ==
  /\ step' = "idle" /\ pair' = None
  /\ torn' = (torn \/ CutInHalf)
  /\ signing' = [c \in Calls |-> "idle"] /\ signedAs' = [c \in Calls |-> None]
  /\ overtaken' = {}
  /\ UNCHANGED <<settings, made>>

-----------------------------------------------------------------------------
(* signed: two calls to the store, with the pair in memory.                *)

Ready == step = "idle" /\ pair # None

\* publicKey, for X-Public-Key.
Name(c) ==
  /\ Ready /\ signing[c] = "idle"
  /\ signing' = [signing EXCEPT ![c] = "named"]
  /\ signedAs' = [signedAs EXCEPT ![c].public = pair.public]
  /\ UNCHANGED <<storage, overtaken>>

\* signature, for X-Signature.
Sign(c) ==
  /\ Ready /\ signing[c] = "named"
  /\ signing' = [signing EXCEPT ![c] = "signed"]
  /\ signedAs' = [signedAs EXCEPT ![c].private = pair.private]
  /\ UNCHANGED <<storage, overtaken>>

\* The request is sent and answered, or its signing fails.
Finish(c) ==
  /\ signing[c] # "idle"
  /\ signing' = [signing EXCEPT ![c] = "idle"]
  /\ signedAs' = [signedAs EXCEPT ![c] = None]
  /\ overtaken' = overtaken \ {c}
  /\ UNCHANGED storage

StoreNext ==
  \/ Load \/ Create \/ Regenerate \/ WritePrivate \/ WritePublic \/ WriteFails \/ Relaunch
  \/ \E c \in Calls : Name(c) \/ Sign(c) \/ Finish(c)

StoreSpec == StoreInit /\ [][StoreNext]_storeVars

-----------------------------------------------------------------------------
(* Properties.                                                             *)

\* The halves in memory, and in the table between two installations, belong together,
\* whatever writes fail and whenever the app is stopped -- unless one has cut the
\* replacement of a pair in half, which the first creation of a pair survives
\* (prepare, regenerate).
PairExplained ==
  ~torn =>
    /\ pair.private = pair.public
    /\ step = "idle" /\ settings.public # 0 => settings.private = settings.public

\* A request names the key it is signed with, although it asks the store twice, unless
\* a pair was installed in between or the stored one is torn (signed, regenerate).
SignedExplained ==
  \A c \in Calls :
    signing[c] = "signed" /\ c \notin overtaken /\ ~torn
      => signedAs[c].private = signedAs[c].public

=============================================================================
