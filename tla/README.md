# goMessageServer in TLA+

TLA+ models of goMessageServer, the TLC runs that check them and the TLAPS
proofs of what they promise. Paths below are relative to the repository.

## The system

goMessageServer is a chat server. Several identical replicas run over one
PostgreSQL database (or one process over SQLite) and keep no chat state of their
own. Clients sign every request with an RSA key; the key *is* the identity, and an
administrator puts it on an allow list. A key may claim a username; users put each
other in their chats by name; a message goes to the keys in its sender's chat at
that moment. Clients poll.

| component | state | operations | talks to |
|---|---|---|---|
| message log (`messages.go`, migration 0003) | `Messages`, `messageRecipients`, the one row of `messageSequence` | `Add` (one transaction), `Since` | called by `handleMessages` |
| user directory (`directory.go`, `chat.go`, migration 0002) | `userNames`, `chatMembers` | `SetUsername`, `KeyForUsername`, `AddChatMember`, `RemoveChatMember`, `ChatMembers`, `ChatMemberKeys`, `SearchUsernames` | called by `handleUsername`, `handleChat`, `handleUsers`, `handleMessages` |
| request authentication (`auth.go`) | per process: nonces seen, time of the last sweep | `verifySignature`, `nonceCache.use`, `Authenticate` | wraps every API handler; reads and writes the allow list |
| allow list (`userdb.go`, `cmd/messageServer`, migration 0001) | `authorizedUsers`, `unauthorizedUsers` | `IsAuthorized`, `RecordUnauthorized`, `Authorize`, `PendingKeys` | `Authenticate`; the `-authorize` and `-pending` commands, in a process of their own |
| HTTP API (`messageServer.go`) | none | `handleMessages` GET and POST | directory, then message log |
| web application (`webapp/src`) | phase, transcript, `lastID`, in-flight guard, roster; the key pair in the browser | poll, refresh, send, set name, add, remove, new key | HTTP API |
| page (`templates/index.html`) | transcript, last id, key pair | the same, without a guard | HTTP API |
| iOS client (`mobile/iPhone/Sources/ChatClient.swift`) | polling task, transcript, `lastID`, roster | start, stop, restart, poll, send, edits | key store, HTTP API |
| iOS key store (`mobile/iPhone/Sources/KeyStore.swift`) | the `settings` table, the pair in memory | prepare, regenerate, public key, sign | called by `ChatClient` |
| migrations (`internal/database/migrate.go`, `migrate/`) | `schemaMigrations` and the schema itself | `Apply`, `Pending`, `AppliedMigrations` | run by the migrate command and by every replica at startup |
| load generator (`loadtest/`) | the key file; workers' statistics, the shared counter | `loadIdentity`, `checkAuthorized`, `ensureUsername`, `runWorker`, the report | HTTP API |
| database access, static files, deployment | – | – | – |

### What is hard

* **Concurrency on the database.** Only `Add` and `applyOne` use a transaction.
  Everything else is one or more statements that commit by themselves, in requests
  that run on any replica at once: `SetUsername` checks and then upserts,
  `AddChatMember` inserts twice, `editChat` resolves a name and then edits,
  `Authenticate` looks a key up and then records it, `Authorize` inserts and then
  deletes, `handleMessages` reads name and recipients and then adds.
* **Order.** A client asks for the messages after the largest id it has. That is
  complete only if ids become *visible* in order, which is what the row lock of
  `nextMessageID` is for, and only if a capped batch is the oldest part of a backlog.
* **Failure.** A statement may fail, a request be cancelled, a replica be replaced
  (three pods, rolling updates), the answer to a commit be lost.
* **Time.** The nonce cache forgets by the time of arrival; freshness is judged by
  the request's own timestamp; both read one clock at different moments.
* **Callbacks in the clients.** Timers fire while an answer is awaited; answers
  land after the state they belong to was reset; a task that was told to stop is
  still suspended in a call.
* **Deployment.** Builds with different numbers of migrations start at once over one
  database, each deciding from what it read first, and any of them may be killed.
* **Local storage.** The iOS key store and the load generator keep their key in
  several writes without a transaction.

### What makes each component correct

* message log: the cursor is complete, nothing is shown twice, a message is stored
  whole or not at all, what the sender is told is true, sends never block for ever,
  and what is stored is eventually read.
* directory: a name is one person's; claims are decided atomically; membership is
  symmetric, or it is clear why not; an edit means the person, not the name.
* authentication and allow list: a process handles a request once; a key that was
  turned away stays known to the administrator; pending keys are waiting ones.
* HTTP API: a message is delivered to the chat as it was when it was sent.
* clients: the transcript has no gap, no repetition and nothing of another key; a
  client that was turned away recovers when it is authorized.
* migrations: each runs once, in order, whoever runs it and whenever it stops; who
  says that the schema is up to date is right; everybody comes up in the end.
* key stores: the halves of a key pair belong together, a request names the key it is
  signed with, and a key has to be authorized only once.
* load generator: every request is in the report once, the deadline ends the run.

## Modules

| module | what it is |
|---|---|
| `MessageLog` | `Add` statement by statement, `Since`, and the web application's polling |
| `Timeline` | what the message log promises: one step per message, one per catch-up |
| `MessageLogProofs` | proofs about `MessageLog`, and that it implements `Timeline` |
| `Directory` | claims, adds, removals and listings, statement by statement |
| `NameRegistry` | what claiming a name promises |
| `Gate` | `Authenticate` on every replica, the nonce caches, the two key tables and `-authorize` |
| `GateProofs` | proofs about `Gate` |
| `ChatServer` | `POST /api/messages` over `Directory` and `Timeline` |
| `ChatServerProofs` | proofs about `Directory`, that `SetUsername` implements `NameRegistry`, and about `ChatServer` over the directory's invariant |
| `WebClient` | the web application's phases, calls in flight and key replacement |
| `WebClientProofs` | proofs about `WebClient`, with the sequences that put a set of ids in order |
| `Migrate` | the migrate command's modes and two kinds of server, statement by statement |
| `SchemaVersion` | what migrating promises: migrations in effect one after the other, in the order of their versions |
| `MigrateProofs` | proofs about `Migrate`, and that it implements `SchemaVersion` |
| `Polls` | what the page and the iOS client have in common, and `PollSpec`, any client that polls so |
| `PhoneClient` | the iOS client's polling task, restarts, sends and edits, over `Polls` |
| `PageClient` | the page's callbacks, gate and search, over `Polls` |
| `PageClientProofs` | that it implements `PollSpec`, and what its search shows |
| `KeyStore` | the iOS key store's writes, and signing in two calls |
| `PhoneClientProofs` | what holds of the transcript of every client that satisfies `PollSpec`; that `PhoneClient` does, and that one loop goes on; proofs about `KeyStore` |
| `LoadTest` | the load generator: key file, workers, ticker, deadline, report |
| `LoadTestProofs` | proofs about `LoadTest` |
| `MC...` | instances for TLC: symmetry, small inputs, restricted initial states |

In the modules of the server a request is a process: `pc` says which statement it runs next, and
one action is one database statement (or one critical section). That is the grain at
which the code really interleaves: the stores hold no lock across statements, except
that `Add`'s transaction holds the `messageSequence` row, which is modelled. A reply
(`outcome`, `reply`, `status`) ends the request. Operators marked *Mutant* stand just
before the definition they vary: each is a plausible bug (a dropped guard, a swapped
order, a missing rollback) that the property named for it in `PROJECT.json` detects.

### MessageLog

`Begin`, `Bump` (the `UPDATE` that waits for and keeps the row), `ReadId`,
`InsertMessage`, `Deliver` (one recipient), `Commit` and `Answer` are the statements of
`Add` and the handler's 201. `Durable` is the database's commit: it makes the row
visible, publishes the new sequence value and frees the row, whether or not the process
still listens. `nextId` is the committed sequence value and `dirtyId` what the lock's
holder sees. `Fail` is any error or cancellation, with the deferred `Rollback`; `Die` is
a replica that ends mid-transaction, and `Reap` the database noticing. A commit whose
answer is lost is `Commit`, then `Fail` or `Die`, with or without `Durable`.

A client is `cursor` (`lastID`), `shown` (the transcript), and one poll: `Ask` takes
`?since=` from the cursor, `Since` is the query, `Receive` or `Lose` the answer, `Reload`
a page that starts over. The `polling` guard of `App.jsx` is `poll = "idle"` in `Ask`.
Message bodies, names and timestamps are left out; a batch is the *set* of rows the
`ORDER BY ... LIMIT` keeps (`IsFirstBatch`).

`Timeline` has no transactions, ids or polls: `Post` puts a message at the end,
`Acknowledge` and `GiveUp` answer its sender, `CatchUp` shows a reader the next messages
it may read, `StartOver` forgets. The refinement maps its end of the timeline to `nextId`.

### Directory

A request is a claim (`PUT /api/username`), an add, a removal or a listing
(`/api/chat`). `CheckName` and `Claim` are `SetUsername`'s lookup and upsert, the second
with the unique index on `lower(username)`. `Resolve` is `editChat`'s lookup;
`InsertMember` and `InsertBack` are `AddChatMember`'s two statements; `Delete` is
`RemoveChatMember`; `ReadName` and `WriteChat` are the reads `writeChat` answers from.
`Fail` stops a request anywhere and undoes nothing, because nothing in the code does. A
request that was answered with an error while the database had its statement (`reply` is
`unheard`) may have it take effect after the answer, whatever others have done since; an
effect whose answer is lost is the statement, then `Fail`.
`Names` are spellings and `Lower` the function that folds their case. `undone` is a
history variable: it records that a removal of a pair came between, or after, the two
inserts of an add that was still running.

### Gate

A *request* is signed once and is identified by its nonce; a *delivery* is one arrival
of it at one replica, so that duplicates and races between them are in the model.
`CheckFresh` reads the clock and checks the timestamp both ways; `SpendNonce` is
`nonceCache.use` under its mutex, with the time read *before* the mutex was taken;
`Verify` is the signature check, whose outcome is free; `LookUp` and `Record` are
`IsAuthorized` and `RecordUnauthorized`. `Restart` replaces a replica: its cache is
empty and what it was handling is lost. `AdminInsert` and `AdminClear` are `Authorize`'s
two statements, in the command's own process. All processes read one clock, `now`; each
cache is per replica and no property relates two replicas' clocks. `spent`, `stale`, `filed`
and `overtaken` are history variables: what passed the nonce check, what of it with a clock
older than the last sweep, whose key was recorded, and which deliveries had looked their key
up before the command for it began and had not recorded it when it ended.

`AcceptedOnce` says exactly how far the nonce cache goes. The cache forgets a request
`MaxSkew` after it arrived; the freshness check refuses it `MaxSkew` after its timestamp. A
request whose timestamp is ahead of the clock by some amount can therefore be accepted again
in a span of that length, which begins `MaxSkew` after it was first accepted; any other
request cannot.

### ChatServer

`BeginPost`, `ReadSender`, `ReadChat`, `Add` and `AnswerPost` are `handleMessages`: two
reads that see two moments of the directory, then the transaction, then the 201 (a sender
without a name gets the 409). The directory's requests go on statement by statement
between them (`DirectoryStep` is any step of `Directory`). Of the message log only
`Timeline` is used, which `MessageLogProofs` proves it implements, so `Add` is one step;
it may take effect after its request has failed, as a commit whose answer is lost does.
`settled` and `parted` are history variables: the pairs that an add has completely joined
and no removal has parted since, and the other way round. `owed` and `barred` are what
remains of them, for each post, from its first step to its last.

The promise is not "the chat at one instant": a removal and an add can both run between
the read of the chat and the transaction. It is what people can rely on: if the pair was
joined before the post began and stayed so, the message is addressed; if it was parted
and stayed so, it is not (`AddedAreReached`, `RemovedAreNotReached`).

### WebClient

A *slot* holds a call in flight: made (`StartPoll`, `Refresh`, `Retry`, `Act`), then
`ReadKey` and `Sign`, the two awaits of `request` that each read `keys.js`'s current pair,
then `Serve` or `Break`, then one of the landings, which are what follows the `await` in
`pollMessages` (with its `finally`), `refreshChat`, `send` and `setUsername`. `handle` is
the `denied` case of `PollFails` and `Fails`; failures of `setUsername` go to the panel
and change no phase. `named` is the username in App's chat, without which the compose bar
does not send. `NewKey` is `newKey` from the moment `createKeys` has made its pair;
`LoadKeys` may find that the stored pair does not import and make one. The roster's
contents and the fault banner are left out. The timers are on while `phase` is `ready`:
that React may let one fire between a phase change and its effect adds only a poll or a
refresh that `SendLands` and `NameLands` can start in any phase too. `straddled` is a
history variable: `TranscriptIsExact` excepts a poll that was in flight when its key was
replaced, because its answer belongs to the old key, or its cursor does.

### Migrate

A process is what it was started to do (`Task`: the migrate command, its `-dry-run` or
`-status`, a server that migrates, one started with `-require-schema`) and the number of
migrations its binary embeds (`Carries`). `EnsureMigrationsTable`, `AppliedVersions` and
`AppliedMigrations` are statements that commit by themselves; `Begin`, `Execute`,
`Record`, `Commit` and `Applied` are `applyOne`. The SQL of a migration is
`CREATE ... IF NOT EXISTS`: it waits for an uncommitted transaction that creates the same
objects (`Held`), may then find them or the row there (`Clash`), and does nothing over
committed ones. As in the message log, `Durable` is the database's commit and `Reap` its
noticing that a connection is gone; `Fail` is an error, with the deferred rollback, and
`Die` the end of a process. `Launch` is also the restart of whatever exited with an error.
`ran` counts how often a migration's SQL has been committed, which nothing in the
database records: it is what `recorded` is compared with.

### Polls, PhoneClient and PageClient

Both clients are single-threaded: what stands between two awaits is one action. A *task*
is a flow of control (a timer's callback, a click, the polling loop); `at` says where it
is suspended, `since` and `srv` with what cursor and which server it has asked. An id
counts the messages addressed to this client on a server, so that the transcript should
be `1, 2, 3, ...` of the server the client points at. `Append_` is `poll`'s
continuation in both: it appends whatever it is answered and never moves the cursor back.
`overlapped` and `straddled` are history variables that name what the code does not
prevent: two polls in flight at once, and an answer that lands after the server was
changed. `PollSpec` allows a client everything else as long as only such polls touch the
transcript.

`PhoneClient` is `start`, `stop`, `restart` and the loop of `run` (`keying`, then
`refreshing` every few turns, `polling`, `sleeping`), with a cancelled task going on until
it comes to the top of its loop, and `send`, the username and the roster's edits in tasks
of the user's. `disowned` is a history variable: `run` sets `pollTask` to nil when the key
store fails, although by then the handle may be that of the task after it.

`PageClient` is `init`, the two intervals, `send`, `editChat`, `saveUsername` and the
debounced search, with `signedFetch`'s gate: a 403 raises it and any other answer takes
it away, so `barred` keeps which requests were sent before the key was allowed. What a
refresh or a search shows is the version of the chat or of the search box it was asked
about. `init`'s task is free for other callbacks once the timers run. `crossed` is a history
variable: since the box last changed, the results for it were replaced by the answer to an
older search, or the search for it failed.

### KeyStore

`Load` and `Create` are `prepare`, `Regenerate` is `regenerate`; `WritePrivate` and
`WritePublic` are its two statements; between them the app may be stopped (`Relaunch`) or
the second may fail (`WriteFails`). The store is an actor, so calls come between its
methods only; `Name` and `Sign` are the two calls that `ChatClient.signed` makes. `torn` and
`overtaken` are history variables: an installation was cut between its two writes, and the
calls that were under way when a pair was installed.

### LoadTest

`LoadKey` to `SaveFails` are `loadIdentity`, with a second load tester in the same
directory (`RivalGenerates`, `RivalWrites`) and a file that is empty while it is being
written; `CheckAuthorized` and `EnsureUsername` are the two requests before a run. A
worker is `runWorker`: `Pass` is the first `select`, `TakeTick` and `Return` the second,
`Send`, `Answer` and `Fail` the request with its shared counter and its own statistics,
`Deliver` the channel that `Report` merges after `wg.Wait`. A request is its number, so
that a statistic is a set of requests and counting one twice shows.

## Properties and runs

| run | instance | properties | what it shows |
|---|---|---|---|
| `log` | 2 sends, all delivery lists, 2 polling keys, batches of 1 | `CursorComplete`, `NothingTwice`, `DeliveryWhole`, `AnswersMatchLog`, `ImplementsTimeline`, `SendsSettle`, `EventuallyShown` | the message log is a timeline, whatever fails: nothing is skipped, repeated, half stored or wrongly confirmed; every send ends and everything stored is read |
| `directory` | 3 requests of any kind, 2 keys, 2 spellings of one name and another | `NamesDistinct`, `OneSidedExplained`, `AddIsListed`, `UnnamedExplained`, `ImplementsRegistry` | the check-then-upsert is atomic to its clients; what can unbalance a pair, what an add answers, and who is in a chat without being listed there |
| `dir_symmetric` | 3 requests of any kind, 2 users who both have names; nobody both adds and removes | `SymmetricWhenQuiet` (violated) | see below |
| `gate` | 3 deliveries of 2 requests of 1 key, 1 replica, 1 command, 3 clock readings, skew 1 | `AcceptedOnce`, `TurnedAwayIsKnown`, `PendingExplained` | a process accepts a request again only if its timestamp was ahead of the clock, more than `MaxSkew` later, or by a delivery that read the clock before the last sweep; no turned-away key is lost; an authorized key is pending only after a command that did not get through, or a delivery that looked it up before the command and recorded it after |
| `chat_posts` | 1 post, 3 adds or removals, 2 people, one perhaps unnamed | `AddedAreReached`, `RemovedAreNotReached` | whom a message is, and is not, addressed to |
| `web` | 2 calls in flight, 1 message, 2 keys, somebody pressing Check again | `TranscriptIsExact`, `PollsEnd`, `LetIn` | the transcript survives refusals, losses, new keys and reloads, unless a poll straddles the replacement of its key; no poll keeps the guard; an authorized browser gets in |
| `web_unasked` | 2 calls in flight, 1 key, nobody pressing it | `LetIn` (violated) | see below |
| `migrate` | 2 migrations; a job, an older server, a pod that insists, a `-status`; 2 faults; any version to begin with | `RunsOnce`, `UpToDate`, `ReportsTrue`, `Converges`, `ImplementsSchemaVersion` | each migration takes effect once, none before a lower one, claims about the schema are true, and everybody comes up |
| `phone` | 2 polling tasks and one of the user's, 2 servers, 1 message on each | `NothingMissed`, `RepeatsExplained`, `OneLoop`, `EventuallyShown` | across starts, stops and changes of server with calls in flight: what a gap or a repetition needs, which loops go on, and that messages arrive |
| `page` | 2 callbacks at once, one of them `init`'s at first; 2 messages, an edit, 2 changes of the search box | `ResultsExplained`, `ImplementsPolls`, `Recovers`, `EventuallyShown`, `RosterSettles` | the page polls as `PollSpec` says; stale results need an older search answered last, or a search that failed; once authorized the gate goes for good, and messages and roster arrive |
| `loadtest` | 2 workers, 4 requests, 2 keys, with and without a rate | `ReportAddsUp`, `FewAreLate`, `AuthorizedOnce`, `RunEnds` | the report has every request once, the deadline ends the run, and what costs an authorization |
| `keystore` | 2 calls, 3 key pairs | `PairExplained`, `SignedExplained` | what leaves the two halves of a key not belonging together |

### Bounds

Two sends of which each may be overtaken, fail, die or commit unheard give every order of
taking, committing and abandoning two ids; with a batch of one they are a backlog of two
batches. Two keys suffice for delivery, where a message is the sender's own or not. That
the order holds for any number of sends is proved. Three directory requests are an add, its
mirror image and a removal, or three claims of which two collide and one frees the name. `MaxSkew = 1` and
`SweepInterval = 1` with three clock readings contain an entry that is swept, one that is
one tick short of it, a timestamp ahead of the clock whose request is accepted again, and a clock reading overtaken by a
sweep; `SweepInterval < 2 * MaxSkew` as in the code (30 s against 5 min). One replica and
one key are enough: caches belong to one replica, table rows to one key, and two
deliveries interleave in the tables wherever they run. In `directory` nobody has the
second spelling at first; claims bring it in. Two claims and an add are what it takes to hide
a member by taking its name. Three edits and a post are an add, its
mirror image or another add, and a removal, placed anywhere around the post's three
statements; a second post would share nothing with the first. Two slots are a call and
one that overtakes it; two keys are one replacement, with one message to lose or repeat across it.

In `migrate` the job has two migrations to apply beside a server that knows only the
first, from any version on: an order to break, a rival for each, and a newer schema than a
binary knows. Two faults are a death that leaves a transaction open and an error of whoever waits
for it. In `phone` a second polling task is the one that outlives its cancellation, and
the user's task overlaps either; two servers are one change. In `page` two tasks are
suspended at once, the one of `init` being free for the rest once the timers run: two polls,
an edit beside a refresh, two searches of different texts of which either is answered first. Three pairs in `keystore` are one that replaces another and is cut
in half, and one that repairs it. In `loadtest` four requests let a worker send after the
other's deadline, and two keys are the one that was authorized and the one that takes its
place. The proofs have no bounds.

`CHECK_DEADLOCK FALSE` in the `directory`, `dir_symmetric`, `chat_posts`, `migrate`,
`phone` and `loadtest` runs: the system stops when every request has been answered, every
process is up or finished, the user has stopped the client, or the report is printed.

### Where the code and its documentation differ

* `dir_symmetric`: `directory.go:166-168` says membership is symmetric and "neither side
  ends up talking into a chat the other is not in". The two INSERTs commit separately.
  Ann adds Bob; after the first INSERT Bob removes Ann, deleting that one row; Ann's
  second INSERT follows. All requests succeed and Bob's chat contains Ann while hers does
  not contain him. The instance (`ApartSpec`) gives both a name and lets nobody remove whom
  they add themselves, so that the removal is the other user's. `OneSidedExplained` proves that this and an add that stopped half-way
  are the only causes.
* `web_unasked`: `webapp/README.md:53-54` says that the app "also recovers on its own
  within about five seconds of being authorized". The effects that poll and refresh run
  only in phase `ready` (`App.jsx:91`, `:98`), so a browser on its 404 page makes no call
  until somebody presses *Check again* (with which it recovers, as `web` shows) or
  reloads the page. The page of `templates/index.html` has no phases, keeps its timers and
  does recover (`Recovers`).

Others follow from the same models, in the exceptions their properties name; no run is
spent on showing them:

* `messageServer.go:141-142` says nobody could have added a key without a name to their
  chat. A caller without a name may add somebody, and `AddChatMember` (`directory.go:173`)
  then puts that caller into the other's chat; the join of `ChatMembers` does not list it,
  but messages are addressed to it. `UnnamedExplained`: only an add of its own gets a
  nameless key into a chat, whoever takes which name meanwhile.
* `auth.go:90-93` says the nonce cache keeps a signed request from being replayed inside the
  skew window, and that an entry may be dropped after `maxSkew` "because a signature that old
  fails the freshness check anyway"; `ChatClient.swift:288-291`, `templates/index.html:447-449`
  and `mobile/iPhone/README.md:115` say that a request cannot be replayed. An entry is dropped
  by the time the request *arrived* (`auth.go:113`), the freshness check goes by the request's
  own timestamp, and accepts one up to `maxSkew` ahead (`auth.go:194`). A request from a
  client whose clock is ahead, delivered again more than `maxSkew` after its first delivery
  and after a sweep, is accepted a second time while its timestamp is still fresh. So is one
  whose second delivery read the clock before a sweep that another delivery made
  (`auth.go:107`), and one that reaches another replica or a restarted one, as each process
  has a cache of its own. `AcceptedOnce` says how far the promise holds: never twice within
  `maxSkew`, and never twice at all if the timestamp was not ahead.
* `tests/auth_test.go:137-138` says authorizing a key clears it "so -pending only ever
  lists keys still waiting". A request looked up before `-authorize` and recorded after it
  (`auth.go:256`) leaves the key pending until the command is repeated.
  `PendingExplained`: such a request, or an unfinished command, is the only cause.
* `KeyStore.swift:5-6` promises "one RSA key pair, generated the first time the app runs
  and kept in a local SQLite database from then on". `regenerate` writes the private and
  then the public half (`:92-93`) with no transaction around them. If the second write
  fails or the app is stopped between them, the next launch loads a private key with
  another one's public key (`:59-64` compares nothing): every request is refused with 401,
  though the key on show may be authorized, until the user makes another one.
  `PairExplained`: this is the only cause, and the first creation of a pair cannot leave it.
* `ChatClient.swift:121-129` begins a new transcript for a new server, but not a new
  epoch: an answer of the old server that was on its way is appended to it and moves its
  cursor, so that messages of the new server up to that id are never shown. A run that
  finds no key clears `pollTask` whosever it is (`:140`), after which nothing can stop the
  loop of the run after it. `NothingMissed` and `OneLoop` name both as their exceptions.
* `loadtest/signing.go:24` says the tool creates and saves a key "if there is none"; any
  error of `ReadFile` has it generate one and overwrite the file (`AuthorizedOnce`).
* `migrate/main.go:10` says `-dry-run` changes nothing; it creates `schemaMigrations`
  (`EnsureMigrationsTable`).

### Fairness

The runs with a liveness property assume some; no safety property needs any.

In `log` a running handler reaches its next statement, and the database ends a
transaction it was asked to commit or whose client is gone: weak fairness of
`AddProgress(r)`. Weak fairness is enough although `Bump` waits for a row others hold,
because there are finitely many sends and each gives the row up. The poll timer fires
again after every poll: weak fairness of `Ask(k)`. Not every poll is lost: strong
fairness of `Since(k)` and `Receive(k)`, as losing a poll disables them. Nothing is
assumed of `Fail`, `Die`, `Lose` or `Reload`; `EventuallyShown` excepts a client that
reloads for ever.

In `web` and `web_unasked` the timers keep firing: strong fairness of `StartPoll` and `Refresh`,
because another poll, or all slots being taken, disables them for a while. A call in the
browser reaches its next await, and an answer lands (weak fairness); not every call is
lost (strong fairness of `Serve`). `web` adds that somebody presses *Check again*
now and then. Nothing is assumed of `NewKey`, `Reload`, `Break` or the administrator.

In `migrate` processes run, the database decides every transaction, and Kubernetes or the
user starts again whatever exited with an error (`Advance` contains `Launch`): weak
fairness for each process, with faults bounded by `MaxFaults`.

In `phone` every call of a loop ends, by an answer, an error or URLSession's timeout (weak
fairness of `Loop(t)`); the loop counts its turns, so it refreshes again and again, and
neither all refreshes nor all polls that have something to bring fail (strong fairness, as
a failure disables them). Nothing is assumed of the user, who may stop the client, nor of
`KeyFails`; both are exceptions of `EventuallyShown`.

In `page` every call ends and the intervals fire for ever (weak fairness of `Ends(t)`,
strong fairness of polls and refreshes, because the tasks may all be suspended), and not
every request fails; a refresh that is answered with the chat as it is comes again and
again, because edits are finite and answers are. Nothing is assumed of the administrator,
the typist or edits.

In `loadtest` the deadline passes, requests end by `-timeout`, and the goroutines run.

## Proofs

All theorems hold for every value of the constants under the named assumptions of the
modules (`BatchAssumption`: a batch is at least one message; `NoOneAssumption`,
`NoKeyAssumption`, `NoNameAssumption`: the null values are distinct from real ones;
`LowerAssumption`: every name has a lower-case form; `TimesAssumption`: the times are
natural numbers; `TaskAssumption`, `CarriesAssumption`, `LatestAssumption`: processes have
a task and a build; `LoopsAssumption`: the loops are tasks; `WorkersAssumption`: there are
finitely many workers; `BootAssumption`: `init` is a task; and that each bound is a
natural number, positive where it bounds keys or servers). In each proof the invariant (`IInv`, or `ChatIInv`, `PollInv`, `PhoneInv`,
`PageInv`, `StoreInv`, `WebInv`) is inductive: it holds initially, every action preserves
it, in a lemma or a step of its own, and the properties are conjuncts of it or follow from it.

* **`MessageLogProofs`**: `TypeCorrect`, `CursorIsComplete`, `NothingIsShownTwice`,
  `DeliveryIsWhole`, `AnswersAreTrue`, `LogOnlyGrowsAtEnd`, `Refinement`.
  `CursorComplete` is not inductive: that no smaller id can appear later depends on
  the unfinished sends. The invariant says that only the row's holder has an id of its own
  in hand, that it is one more than the committed sequence value, that no stored id
  exceeds that value, that a cursor never does, and what the poll in flight and the batch
  on its way contain relative to the cursor. From the same invariant every step is a step
  of `Timeline` or changes nothing of it.
* **`ChatServerProofs`**, of the directory: `TypeCorrect`, `NamesStayDistinct`,
  `OneSidedIsExplained`, `AddsAreListed`, `UnnamedAreExplained`, `Refinement`. The invariant
  adds where a request can be given its kind, that a resolved key still has a name (names
  are replaced, never given up), and that the row an add with statements left has inserted
  is there unless a removal undid it, also if its request has failed by then. `UnnamedExplained` rests on the second: the first INSERT of an add
  makes a member of somebody who has a name and keeps it, so that a member without one can
  only be the caller of the second.
  Of posts: `AddedAreAddressed`, `RemovedAreNotAddressed`, `DirectoryInvariance`. The
  invariant joins the directory's own with what the history means: a settled pair has both
  rows, a parted one has neither and no add under way that could write one, and what a post
  has read agrees with what it is still owed and barred.
* **`GateProofs`**: `TypeCorrect`, `RequestsAreAcceptedOnce`, `TurnedAwayStayKnown`,
  `PendingIsExplained`. `AcceptedOnce` needs that a spent nonce stays in the cache until a
  sweep more than `MaxSkew` after it (`EntryInv`), and that a delivery past the skew check
  still satisfies it with the clock it read (`FreshInv`): a second acceptance then has a
  clock more than `MaxSkew` past the first one's, which its timestamp must have been ahead
  to allow, or one older than the sweep. `PendingExplained` needs that whoever is about to
  record a key that is authorized by now was overtaken by the command for it
  (`RecordingInv`): it looked the key up before the command's INSERT.
* **`MigrateProofs`**: `TypeCorrect`, `MigrationsRunOnce`, `MigrationsRunInOrder`,
  `SuccessIsUpToDate`, `ReportsAreTrue`, `StatusListsOnce`, `Refinement`. `RunsOnce` needs
  that of all open transactions on one migration at most one has got as far as its row,
  and that none has whose migration is recorded; `InOrder` needs that what a process goes
  by, read at its start, has only grown since, so that everything below the migration it
  applies is in effect. `SchemaVersion`'s migrations in effect are those whose SQL has been
  committed, so that the refinement says of their order what `InOrder` says of the records.
* **`PhoneClientProofs`**, of every client that satisfies `PollSpec`: `PollsMissNothing`,
  `PollsRepeatOnlyOverlapped`. The invariant relates the polls in flight to the cursor: none
  of the present server asks beyond it; without overlap there is one at most; and if nothing
  has straddled either, it asks from the cursor itself. An answer then fills the gap between
  its own cursor and its end, which reaches below the client's.
  Of the iOS client: `PhonePolls` (every step of `ChatClient` is one of `PollSpec`, or
  leaves its variables alone), from which `PhoneMissesNothing` and
  `PhoneRepeatsOnlyOverlapped` follow; `PhoneTypeCorrect` and `OneLoopGoesOn`, whose
  invariant adds that only the user's tasks post and edit, and that the handle, when there
  is one, is of a loop that goes on.
  Of the key store: `PairsBelongTogether`, `RequestsNameTheirKey`. `PairExplained` speaks of
  the table between installations only. The invariant follows an installation through its
  two writes: the private half that is in the table before the public one is of the pair
  being installed, what is in the table *before* the first write is whole, and a call that no
  installation has overtaken uses the halves that are in memory, of which there are some.
* **`PageClientProofs`**: `PagePolls` (`ImplementsPolls`: every callback of the page is a
  step of `PollSpec`, or leaves its variables alone), so that `PollsMissNothing` and
  `PollsRepeatOnlyOverlapped` hold of the page for any number of overlapping callbacks, and
  `ResultsAreExplained`. That the results are for what is in the box once everything rests
  is not inductive: the invariant (`SearchInv`) says that while the debouncing timer is not
  set a search for what is in the box is under way, beside any number of older ones, unless
  its answer is on show, or an older one's has replaced it, or it failed.
* **`WebClientProofs`**: `TypeCorrect`, `TranscriptExact`, `TranscriptOwn`. The invariant says that there is
  one poll at a time, and, as long as no poll was in flight when the key was replaced, that
  it asks from the present cursor, is signed with the present key from the moment it has
  read one, and brings the first part of what that key may still read. While the page
  starts nothing is in flight, which is why a pair that does not import can be replaced
  without straddling anything. An answer is the sequence of a *set* of ids in their order
  (`Ascending`); that every set has one (`OrderedAll`) is proved by induction.
  `TranscriptIsOwn` has no exception: a poll that straddles the replacement of its key can
  make a gap, but nothing twice, out of order or not addressed to a key of this browser. Its
  invariant (`OwnInv`, beside the other) needs that a poll never asks below the cursor, also
  when the cursor has gone back to zero under it, and that no other is under way.
* **`LoadTestProofs`**: `TypeCorrect`, `EveryRequestReported`, `FewRequestsAreLate`,
  `RateIsKept`, `KeyIsAuthorizedOnce`. The requests `1..totalReqs` are at every moment split
  among the workers' statistics and their requests under way; what has been begun after the
  deadline plus what is between the two `select`s is at most one for each worker.

Proved only, and in no run: the type invariants, of every module but `PageClient` and
`KeyStore`, whose types are part of `PageInv` and `StoreInv`; `LogGrowsAtEnd` (messages
become visible in id order and are never removed), `InOrder` of `Migrate`, `ListedOnce`,
`RateKept` and `TranscriptIsOwn`.

Every invariant, action property and refinement that a run checks is proved. Only
model-checked are liveness under fairness (`SendsSettle`, both `EventuallyShown`,
`PollsEnd`, `LetIn`, `Converges`, `Recovers`, `RosterSettles`, `RunEnds`), which is out of
the prover's reach, as `ENABLED` is; and the two violated properties, which are
counterexamples. The induction theorems of the library take an operator as a parameter,
which the provers cannot instantiate; where a proof needs induction (`NumbersByInduction`)
it is over a set of natural numbers, with the least element of a set that is not empty.

## Not modelled, and why

* Static files, routing, HTML and styles, connection strings and SQL dialects
  (`database.go`) and the Terraform files hold no state whose steps could go wrong in the
  sense above; what the deployment and the database do to requests is in `Die`, `Reap`,
  `Fail`, `Launch` and `Restart`.
* RSA, SHA-256 and encodings are taken as given: a signature is valid or it is not.
  The parsing of credentials and of timestamps is left out with them.
* `SearchUsernames` with `handleUsers`, `PendingKeys` and the search of the People panels
  only read. `likePattern`, `ValidateUsername` and the parsing of migration file names are
  functions on strings without state, which the tests cover case by case.
* Web application: the roster's contents, the fault banner, the People panel, and key
  storage across tabs. Two roster refreshes may be answered in the opposite order; the
  page has the same race, which `PageClient` models.
* Page: creating the key, with two tabs that each find none, and the gate for a
  rejected signature (401).
* iOS client: the status banner, the searches, and `regenerateKey`, whose restart is
  `Restart` with another key.
* Load generator: latencies, status codes and the line printed every two seconds, which
  only read; and a `-rate` above a thousand million, for which the ticker panics.

## Plan

Built: the message log, the directory, the gate, posts, the three clients, migrations, the
iOS key store and the load generator, with proofs of every safety property and refinement
among them. Next:

1. The roster in `WebClient`, with refreshes answered in the opposite order.
2. Key creation in the browser (`keys.js`, `index.html`), with several tabs.
