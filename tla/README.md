# PROBEXR in TLA+

PROBEXR is a FastAPI backend (PostgreSQL in production through Alembic migrations, SQLite in
development, Redis optional) with a React frontend. This directory models the parts of it whose
correctness depends on the order in which requests, background tasks and failures interleave.

One fact shapes every backend module. Each HTTP request has its own database session (`app/db.py`,
`get_session`): nothing is committed unless the handler commits, and `expire_on_commit` is off, so a
handler goes on using rows it read before an `await`. The isolation level is the default one (READ
COMMITTED). A handler is therefore split into steps at its awaits: one step reads and decides, a
later one commits what was decided, and anything may happen in between. A request in flight is a
*slot* `p \in Procs`; the record `req[p]` is what its local variables still hold and the next step
it takes. `Abort(p)` is the request dying at an await (disconnect, database error, restart): what it
committed stays, what it was about to commit is lost.

## 1. Inventory

| Component | State | Operations | What is hard | Correct when |
|---|---|---|---|---|
| Refresh tokens (`services/auth.py` 296-401, `routers/auth.py`) | `refresh_token` rows: owner, family, revoked, expiry | login, rotate, logout, logout-all, password reset, erase account | rotation reads row and user, awaits, then writes by primary key; concurrent revocation | an ended session stays ended; families never mix accounts |
| Token GC (`services/token_gc.py`) | none of its own | hourly DELETE of expired or revoked rows and of spent links | deletes rows other requests have read | deletes nothing still accepted, keeps the tables small |
| Magic links, registration, verification (`services/auth.py` 51-80, 137-230, 441-458) | `used_token` rows, `user` rows | make link, spend link, register, verify | spend-once by unique index, just-in-time accounts racing with registration, expiry against the GC | a link logs in once in its life; an account is verified only if its mailbox or a provider vouched for it |
| Social login (`services/social.py`, `services/auth.py` 492-552) | provider id of the user | link or create account, open a session | two lookups and a commit, racing with links, registrations and other identities; addresses that change; erased accounts | an identity opens only accounts of addresses it was named for; no erased account's session is prolonged |
| Lockout (`lockout.py`) | failure counter with a window, in memory or in Redis | is_locked, record_failure, reset | check and record are separated by awaits; INCR and EXPIRE are two commands; Redis errors are swallowed | guesses are bounded, locks end |
| Plans and quota (`rbac.py`, `deps.py`) | `usage_today`, `usage_reset_at` | check and increment on the loaded user; commit by the endpoint | absolute values written late, endpoints that never commit, midnight | the daily limit holds |
| Documents (`services/ingest.py`, `routers/documents.py`) | `document` rows, soft deletion | ingest URL, ingest text, delete | look up, fetch for seconds, insert; unique constraint only in tables made from the model | a live record per key and user, and no more than overlapping requests can add |
| Flashcards, synthesis, audio | result rows | ownership check, model call, commit (two for flashcards) | deletion during the model call, failure between the commits, replies without cards | results only of the user's documents; a set without cards has a reason |
| Chat (`services/chat.py`) | sessions, messages | send, history window | question committed before the answer, a stream and its fallback at once | alternating, complete history; replies follow their questions |
| Streaming (`routers/streaming.py`) | a response in progress | stream, disconnect, store reply | cancellation and failure in mid-stream; the generator goes on after an error | a reply is stored once or not at all; failures are noticed |
| Middleware (`middleware.py`) | counters per client, CSRF cookie | rate limits, double-submit check | window boundaries, two counters per request, INCR without EXPIRE; answers that set cookies in any order | limits are exact, the frontend's own calls get through |
| LLM client (`services/llm.py`) | none | retry with back-off, stream | late answers, rate-limit waits | at most three attempts |
| Summarizer and cache (`summarizer/core.py`, `cache.py`) | cache entries | chunk, map, reduce, cache-aside | chunks answered in any order, failures of single calls, two requests for one key | what is cached was made from the whole text |
| Extractive summarizer (`extractive.py`) | none | trim, score, cluster, select, takeaways | budget against coverage, ties, boundaries of the index arithmetic | length and topics as promised, no sentence lost without need |
| API keys (`routers/api_keys.py`, `services/auth.py` 602-650) | `api_key` rows | create, list, revoke, authenticate | key and owner are two reads; `last_used_at` is written with the endpoint's commit, if it has one; revocation and erasure in between | a key that was dead when a request came opens nothing to it |
| Audit, tasks, mail (`services/audit.py`, `services/email.py`) | tasks in flight, `audit_log` rows | record an event in a task nobody awaits | the task may fail or die with the process | the log tells of what was committed, and loses nothing otherwise |
| Lifecycle (`main.py`) | engine, Redis, HTTP client, GC task | start-up, shutdown | order of disposal, tasks cut off at exit | requests are served only in between |
| Frontend client (`client.js`, `useAuth.js`) | access token, one refresh in flight per tab | request, 401, refresh, retry | tabs sharing one refresh cookie; lost answers; a cookie whose session was ended elsewhere | an honest browser loses no session to reuse detection; every call ends |
| Frontend summarizer (`useSummarizer.js`, `useStreaming.js`, `useSummaryHistory.js`) | phase, abort controller, two copies of the history over one storage key | stream, stop, reset, restore, fall back | late events of an earlier run; whole lists written from stale copies | the page shows one run, and its button always works again |

Interactions: all routers share the `user` row (quota, verification, `is_active`); the GC deletes
rows that rotation and link verification read; login goes lockout, then session; password reset goes
session revocation and (see 5) not lockout; deletion of a document meets ingestion (unique key) and
the results made of it; the quota is charged or not depending on which endpoint commits when. The
frontend repeats requests: after a 401 (`TokenClient`, `Csrf`), and after any stream that did not end
with a done event (`Chat`, `SummaryView`), while the server still works on the first one.

## 2. Modules

`SessionStore` is the abstract specification of login sessions: opened for one user, ended at any
time, several at once, never reopened.

`RefreshTokens` is the refresh-token table. `issued`, `stored`, `revoked`, `owner`, `family`,
`expires` are the columns (a revoked row stays in `revoked` when the GC deletes it from `stored`);
`active` is `User.is_active`. The actions follow the code:

| Action | Code |
|---|---|
| `LoginByCredential`, `LoginBySocialId`, then `create_refresh_token` | find the account; INSERT of a new family |
| `RotateRead`, `RotateLookup`, `RotateCommit`, `RevokeFamily` | `rotate_refresh_token`: SELECT with reuse and expiry checks; user; commit; `_revoke_family` |
| `LogoutRead`, `LogoutCommit` | `POST /auth/logout` |
| `RevokeAllBegin`, `revoke_all_user_tokens`, `Deactivate` | logout-all, password reset, `DELETE /auth/account` (two commits) |
| `CleanupTokens`, `Abort`, `Tick` | the GC's first DELETE, failures, time |

A family is named by its first token, as the default `uuid4()` of the first row names it in effect.
The client may present any token it was ever given. `SessionClaims` extends `RefreshTokens` with one
history variable (the families alive when a revoke-all committed).

`MagicLinks` has the links (`to`, `exp`), `used_token` (`used`), the accounts with the identities linked
to them (`holder`: `google_id`, `github_id`) and four history variables (`spent`, `late`, `sessions`, `vouched`). `DecodeLink`, `_mark_token_used`, `get_user_by_email`,
`ProvisionCheck`, `ProvisionInsert`, `StampLogin`, `IssueSession` are the awaited steps of
`verify_magic_link_token`; `RegisterNew` enters the same account creation from `POST /register`. `SocialLogin` is the callback with the
provider's answer, an identity and its address of the day; `FindBySocialId`, `FindByEmail`, `LinkAccount`,
`CreateLinked` are the awaited steps of `handle_social_login`, which sets `is_verified` on the provider's
word (`services/auth.py:526`, `:540`).

`Lockout` has the counter (`count`, `until`, `keyed`: whether the count expires), the passwords and
the logins in flight. `redis` is chosen in the initial state and says which store runs; `Incr` and
`Expire` are the two Redis commands, `CheckLockFailsOpen` and `RedisError` the `except` branches.

`UsageQuota` has the two columns, and in each slot the loaded user: the value loaded, the value to
be written, and whether the day was reset. `Commit` writes the attributes that changed, as
SQLAlchemy does. Where it happens depends on the endpoint: chat commits before the model call,
flashcards, synthesis ("study") after it, `/summarize` never.

`Documents` has documents, results and the requests in flight. `constrained` is chosen in the
initial state: the unique constraint on `(user_id, url)` is declared in `models/document.py` and so
exists where tables are created from the models, but no migration creates it. `valid` is a history variable:
the results for which the model's reply had content. A flashcard set is committed first and its cards
second (`CardsCommit`), and of the reply only entries with front and back become cards, maybe none.

`Chat` is one conversation, from the click on Send to the tables. `log[s]` is the table of messages
of session `s`; `req[r]` a request handler, where `r` names its ask and its kind, stream or full;
`view` and `run` are the state of the chat view and the local variables of its click handlers.
`Conversation` is its abstract specification: questions are put one at a time, each is entered in the
record, then its answer, then the answer is shown; after a disturbance the order is open, but entries
stay. `Dialogue` in `Chat` maps the clicks, the handler of the last click and the first session to it.

| Action | Code |
|---|---|
| `OpenSession`, `InsertQuestion`, `ReadHistory` | `services/chat.py`: session and question in commits of their own, then the last `HISTORY_LIMIT` messages |
| `CallModel`, `StreamEnds`, `StoreReply` | `generate_full` with its bounded retries; `generate_stream`; commit of the reply, then the answer or the done event |
| `NoticeGone`, `Fail` (`LateReply`, `Interrupted`) | `is_disconnected`; exceptions, cancellation with its partial reply, a commit that went through all the same |
| `Send`, `Stop`, `StreamDone`, `StreamFailed`, `StreamBroken`, `FallbackDone`, `FallbackFailed` | `handleSend` between its awaits, `cancelChatStream` |

`TokenClient` extends `RefreshTokens` with a browser: tabs that share `jar` (the refresh cookie) and
`access` (is the access cookie alive), calls that are denied, join the refresh of their tab
(`_refreshPromise`) and are repeated once, the second refresh of a page load, login, logout and the password
reset (`UserAction`), and what another device does to the account (`Elsewhere`: reset, logout-all, erasure). The
last two leave the cookie as it is, so that the next denied call presents a revoked token. A session request is a `flight`; requests of one group exclude each other. `Lose` is an answer that
never arrives, `Crash` a handler that dies; the server's steps are those of `RefreshTokens`, with the
next free slot and token taken for each new one, since they are interchangeable.

`SummaryView` is the summarizer page: `ui` is the state of the hooks, `run[r]` the handler of the r-th
click, `server[r]` and `chan[r]` the generator of its stream and the events on their way; `hook` and
`app` are the two instances of `useSummaryHistory`, `saved` the storage key they share (`Remove` writes
it from the list of the instance whose button was pressed). `calm` says that
nobody has pressed Stop, reset, restored or removed anything.

`RateLimiter` has both backends under one dispatch. In memory no await suspends a request between its
checks, so a request at a check goes first (`Turn`), except after the body of a request to the auth
routes was read; in Redis `Incr` and `SetExpiry` are the two commands and `RedisError` the branch that
allows the request. `Csrf` has the cookie jar, the calls of the pages with the header each read when
it began, and `Dispatch`, the double-submit check with the cookie its answer sets.

`Summarizer` has requests in flight, the cache and the provider: `Lookup`, one `_map_chunk` per answer of a
chunk in any order, `Merge`, `Takeaways`, `Store`; `_chunk_text` is translated as a function of the
sentence lengths, `AddSentence` is one turn of its loop. A summary is represented by the chunks it was made
from. `Prepare` is the way of the streams, which skips limit, chunks and cache. `Extractive` starts where
scores and similarities are known (small integers): `Trim`, `Cluster`, `Cover`, `Fill`,
`extract_takeaways`.

`Background` is a worker process (`process`: down, up, or behind the `yield` of `lifespan`) with the
tasks of its requests: `writing[p]` is the audit event the task of slot `p` still has to write, `auditLog`
the table, which outlives the process, `lost` the events of tasks that failed or were cancelled. `ApiKeys`
extends it with the keys: `_authenticate_api_key` and `LoadOwner` are the two reads of a request with a key
(`get_current_user` that of one with a session), `Stamp` the one column its commit writes, `RevokeRead`
and `revoke_api_key` the two steps of a revocation, `Record` the call of `record_audit_event` after
the commit, `Erase` the erasure of the owner, `EndProcess` the ways a process ends with its requests.

`MC<Module>` extends a module with the symmetry set for TLC; `MCMagicLinks` also bounds the behaviours with social logins (`Few`); `MCServices` extends the five modules a
request passes through on its way to a summary, and the API keys, and explores one of them per behaviour,
chosen by `part` in the initial state. They share no variable, so the product would add no behaviour. Definitions
commented "Variant" are the module's operations with one plausible bug; they are not used by any
specification and serve to show that each property can fail (the pairs are in `PROJECT.json`).

## 3. Runs

| Run | Shows |
|---|---|
| `refresh_tokens` | types; one owner per family; once an account is erased and the rotations that had seen it active are over, none gets through again; the GC spares every usable row; the table implements `SessionStore` |
| `session_claims` (violated) | a refresh in flight across a password reset survives it |
| `browser` | reuse detection strikes a family that still has a live token only after a lost answer or overlapping refreshes, whatever is reset or revoked here and elsewhere; liveness: denied calls end, revoked rows are deleted |
| `magic_links` | a link is spent at most once up to its expiry; sessions are paid for and verified; an account is verified only if its mailbox or a provider vouched for it, and an identity opens only accounts of addresses it was named for |
| `lockout` | types; concurrent guesses overshoot the threshold by less than the number of requests; a counter outlives its window only through a lost EXPIRE; late failures do not prolong a lock |
| `lockout_reset` (violated) | the password reset the refusal recommends does not unlock |
| `quota_summarize` (violated) | `/summarize` never stores its count |
| `documents` | types; results never cross users; few results after a deletion; with or without the index no more live records of a key than requests in flight, and a deleted key is refused for ever with it; a set without cards belongs to a failed or running request or to a reply without cards |
| `chat` | types; the chat implements `Conversation`; while streams end well the conversation is one alternating session; replies follow their question and are shown only if stored once; liveness: every click ends |
| `summarizer` | types; the undisturbed page is consistent with both histories and the storage; never stuck; no stream that reported an error with a message is a success; liveness: every run ends |
| `stream_error` (violated) | a stream that failed without a message is kept as a full summary |
| `services` | the rate limits are exact up to failing Redis and late checks; the CSRF check refuses own calls only on a first visit or after a race of first visits; quota and its overshoot with two requests at once; what is cached was made from the whole text; the extractive selection keeps its promises; a key that was dead when a request came with it opens nothing, and the audit log tells only of what was committed and loses events only with their task |

Bounds. Two slots are enough for every race of one request with another, and three are used where
the claim is about their number (`lockout`). Three tokens give a login, a rotation and a further
login or rotation, with two accounts so that rows can cross. `Lifetime = 0` with a clock to 1 makes a
token valid up to and including its last instant and expired at the next (the comparisons with `<`
on both sides are what `UsableUntilRevoked` is about). `browser` has one account, two tabs, two calls
in the same tab or in two, and one event (a login, a logout, a reset, something another device does, a lost
answer or a crash) with a lifetime longer than its clock: rows leave by revocation. In `magic_links` the clock runs two ticks past the
earliest expiry, so that a link made early expires while another lives; once somebody came from a provider there is one link and
the clock stops at the first expiry (`SocialTime`), which leaves two identities, two addresses and a link to race.
`documents` has one key (keys do not meet: every condition is about one) for two users and three documents, enough for two
records at once and a third after a deletion. In `lockout` the threshold is
two, the window two ticks and the clock long enough for two windows; `MaxCount` stops a Redis counter
at 3 (above the threshold; lock checks that fail open would let it grow without end). `chat` has two
asks, so four requests that may all be in flight, a window of two messages, shorter than the
conversation, one retry and two faults. `summarizer` has two runs, a history of one entry so that it
overflows, and two events (broken connections or interventions). In `services`: the limiter sees
three requests of two addresses and one subject with a limit of one a minute, over two minutes and
one failing command; CSRF three calls, each possibly repeated; the quota a verified and an unverified user,
two slots, two days and a limit of 3, counted to `MaxServed = 10`, one more than `OvershootBound`
allows (9 are reached, which lowering the bound by one shows); the summarizer two requests at once over
texts too short, too long, fitting, and cut in three chunks with the last two above the limit; the
extractive selection every text of four sentences with lengths 1 and 2, binary scores and binary
similarities, two clusters, and trimming for every length up to 40 with a limit of 12; the API keys one
owner with two keys, two requests at once, and a process that starts twice, so that tasks die with it. `MaxTime`,
`SocialTime`, `MaxDay`, `MaxCount`, `MaxServed`, `MaxEvents`, `MaxFaults`, `MaxAsks`, `MaxRuns`, `MaxCalls`,
`MaxTabs`, `MaxRequests`, `MaxSentences`, `MaxStarts` are the only bounds that are not the code's.

Deadlock checking is on where requests can always come: in `refresh_tokens`, `session_claims`,
`magic_links`, `lockout`, `lockout_reset`, `quota_summarize` and `documents`. The others stop when the
bounded clicks, calls or requests are used up. Symmetry is used for safety only: of users, tokens, slots and
the like where they are interchangeable, in `services` of the API keys and their slots.

Fairness. `browser`: weak fairness of `Progress` (handlers run on, an answer or the end of the
connection arrives, the page handles it) and of `CleanupTokens` (`_gc_loop` sleeps and deletes in an
endless loop, logs and survives its own exceptions, and starts with every process). `chat`: of every
request's `Serve` (each call of the model has a timeout and `generate_full` bounded attempts) and every
ask's `Receive`. `summarizer`: of every run's `Handle` and `Generate`. Nobody is assumed to click, log
in, stop or fail; elsewhere requests have no fairness: clients leave, servers die.

## 4. Proofs

The eight proof modules hold for every value of the constants: any sets of users, tokens, links,
addresses, keys, documents and concurrent requests, any number of calls, tabs, asks, runs, faults and
interventions, every text, limit, lifetime and clock bound. They assume only the named assumptions of
the modules: null values are not real ones; times, limits and bounds are natural numbers (those that
must not be zero are named there); there is a token (`SomeTokenAssumption`) and a slot
(`ProcsAssumption`); in `Lockout`, `UsageQuota` and `Documents`, whose bounds count the slots, these are
finite sets; texts are sequences of sentence lengths (`CoreAssumption`); there is a cluster and a sentence
may stay (`ClustersAssumption`, `SentenceLimitAssumption`). Each follows one pattern: an invariant `IInv` that implies the property, holds initially and is preserved by every
action (one lemma each), then temporal logic.

`TokenClient_proofs`, first part: the table of `RefreshTokens`. `FamilyHasOneOwner` is not inductive: `RotateCommit` copies owner and family
from what the slot holds, so the invariant `IInv` adds to the types that every row points to the
root of its family, which has the same owner (`RowsOK`), and that what a slot carries across an
await agrees with the table (`RequestsOK`). From it follow `TypeCorrect`, `OneOwner`, `ErasedFrozen`
(with `ErasedStays`: no step brings the account or a rotation back; a new row outside a login needs
a slot at `rotate`), `GCSparesUsable` and `Refinement`. The last one maps a family to a session that
is open while one of its rows is usable or a rotation of it is in flight, and shows, one action at a
time, that no step makes an ended family continue: a row inserted by `RotateCommit` belongs to a
family with a rotation in flight, and a new rotation needs a usable row.

`MagicLinks_proofs`. `SpentOnceInTime` needs that a link spent in time still has its row while its
expiry has not passed (the GC's comparison), and that a link never made was never spent; the other
two need what each step of a slot implies about its link and account. `IInv` states these together;
`SpentOnce`, `Earned` and `VouchedFor` follow. For a login through a provider the invariant says that up to the
commit the slot carries the address the provider named (`SocialSteps`), and that an account once found is
never removed; `LinkAccount` may take an identity's place at an account, but gives no account to an identity
that was not named for its address.

`Documents_proofs` (every set of users, keys, documents, results and requests, with and without the
index). `ItemsOfOwnDocuments` needs that the owner a slot has compared is still
the owner when it commits (`RequestsOK`), which holds because an ingestion writes only unused ids.
`DeletedForGood` follows step by step: an INSERT gets past the index only for a key without any row.
`Cards` needs two facts that go from step to step: content a reply did not have is not stored
(`FilledOK`), and content it had is stored unless the request is under way or failed (`ValidOK`). `FewRecords`
counts, without the index: a key's live records and the ingestions of it that wait for their page are together
no more than the slots (`DupOK`), since an ingestion begins to wait only where there is no record, and each
record was one of them. `FewLate` counts: the results made of a document since its deletion, and the requests that have
passed their ownership check and may still make one, are together fewer than the slots (`LateOK`). The
slot that deletes is the one that is missing, and a request that comes later finds nothing.

`Lockout_proofs`. `BoundedOvershoot` counts: each failure on the counter beyond the threshold comes
from a slot that passed the check before. `IInv` bounds failures plus slots still trying, by
cardinalities of sets of slots; a counted failure frees its slot, a new slot is admitted only below the
threshold. `RequestsOK` says whom a slot works for, `WindowOK` that in memory every counter has its window
and no slot is between two commands. `CounterResets` and `LockKept` follow from the same invariant.

`Extractive_proofs` (every number of sentences and clusters, every score, similarity, length, target and
limit). `SelectionIsSound` speaks of the end of a run, and no single phase knows it. `SelectIInv` says what
each phase leaves to the next: in phase 1, what was selected followed by what is still to come is
`ClusterBest`, one sentence of each cluster, the best first, none of its cluster better; so when the budget
ends phase 1, a cluster that is left out has no sentence better than any selected one (`TopicsTaken`). Phase 2
begins with the budget used up or all clusters covered, and never selects a sentence beyond the budget. The
takeaways are a loop over the sentences by score: after each turn (`TakeOne`) the list has no two alike, and
a sentence that was passed over has one in the list that says the same with a score as high, or met a full
list. `TrimOf` is the index arithmetic: above the limit every step of the middle lies before the tail
(`StepsFit`), so exactly as many sentences stay as the limit allows, in their order. The maxima, minima and
sorted lists the module chooses are shown to exist (`FirstMaxIs`, `SortedIs`: the k-th member has k - 1 before
it), and so are its recursive functions.

`Services_proofs` has the other modules of `MCServices`, each with its own invariant.

- *Quota.* `AloneOK`: for a user without overlapping requests a copy still to be written is
  current, so that what is written counts on from what is stored. `CountedOK`: what such a user was served
  today is at most what is counted. `QuotaWithinLimit` and `OnItsDay` follow.
- *Overlapping requests.* `Overshooting` bounds what lost updates can cost by C(Limit + N, N), for N slots.
  The level of a slot is the count it would charge (`Level`), but at most one more than the table's: a copy
  that is ahead of the table may be given up and loaded again. A commit serves one request and lifts its slot
  above the count it has written; it may lower the count of the table, and with it the levels of slots
  above, but never to the level the slot came from. So the numbers of slots above each level grow
  lexicographically, from the lowest level up, with every request served. `Room` weighs them: `d` slots above
  a level with `k` levels over it weigh C(k + d, d - 1) (`Weight`), one more slot above a level outweighs all
  that may fall above it (`OneMoreAbove`), and at most N slots above each level weigh less than the bound
  (`TailBound`). `OverIInv` adds to the quota's invariant that what was served today is within the sum of the
  weights, and that a copy loaded before anything was charged today is still current (`Today`). Pascal's rule
  for the community modules' `choose`, which divides factorials, is proved on the way (`Pascal`).
- *CSRF.* The point is `OneToken`: while no two first visits have raced, everyone - the jar, the
  headers, the cookies and answers in flight - holds one token or none. `OwnPages` then needs, of a call
  whose cookie and header differ, that it began without a cookie.
- *Rate limiter.* `ExactLimit` needs no injection from requests to counts: `RateIInv` compares
  cardinalities of two sets of requests of a window, those that were counted below the limit (`Counted`) and those
  that have asked (`Asked`), with what either backend knows. A step moves at most one request into them.
- *Summarizer.* `WholeResults`: what is cached under a text, and what a configured provider answers, was made
  from every sentence of it. `CacheOK` and `TasksOK` say of each step which chunks it has. That the chunks
  of `_chunk_text` cover the text (`ChunksCover`) is a fact about its loop, a recursive function here:
  one turn keeps "the chunks so far and the open one cover the sentences so far, in their order"
  (`NextSentence`), and induction does the rest.
- *API keys.* `KeysIInv`: a request whose key was dead when it came has not got past its second read
  (`WorkOK`), and what a task is about to write has happened. `DeadKeys` and `TrueTrail` follow.

The library's induction theorems take an operator as a parameter, which none of the provers can
instantiate. `SetInduction` says the same of a set of numbers and is derived from the well-foundedness of the
strict subsets of a finite set. `RecursionExists` and `SameRecursion` give the function that a recursive
definition chooses (`Words`, `_chunk_text`, `factorial`, `Centroids`, `TakenFrom`) its existence and
uniqueness. They stand in `Extractive_proofs`, which `Services_proofs` extends.

`TokenClient_proofs`, second part: the browser. Every step of the browser with the server is one of
that module or leaves it alone (`BrowserStepsAreRequests`), so its invariant holds. `ClientIInv` adds what a
session request in flight has at the server (`FlightsOK`) and, as long as there was no mishap, `Calm`: one
session request at a time, and a slot at the server that issues, rotates or gives back a token works for it
(the others end all sessions of an account, maybe for another device). The cookie may well be revoked, and may
then be presented; but it, or the one in the answer on its way, is all that may be left of its family
(`OnlyLive`): a rotation in flight has revoked nothing yet, and its successor is known to nobody before the
answer. So the family of a revoked cookie has no live token left to lose. `HonestBrowser` follows.

`Chat_proofs`. Four predicates on a list of messages (asked, silent, answered, once) are preserved by
appending someone else's messages, and change in a known way by one's own (`Appended`). `LogOK` and
`RequestOK` tie them to the step of each handler, `RunOK` says that a request is sent once, by its ask,
and that the view believes only answers that were given. `RepliesFollow` follows. `CalmHolds` (while no stream
was stopped, failed or given up) adds `CalmOK`: at most one ask is under way, the table is settled or waits
for the answer to its question as far as the ask's handler has come (`StageOK`), and every other handler is
over. An alternating list that ends with a question has such windows (`AskedNext` and the lemmas after it).
`TypeCorrect` has the bounds that are not in `IInv` (`BoundsOK`): sessions never outnumber the requests that
have opened one. `ConversationRefined` needs in addition that asks are clicked in their order and that a handler
that is over has answered (`TurnsOK`): so the ask under way is the last one, its handler tells the abstract
stage (`StageKnown`), a step of another handler is impossible while nothing is disturbed (`CalmHandler`), and
after a disturbance it is enough that the first session only grows (`RecordKept`). `RecordInOrder` is then proved of
the abstract conversation: while undisturbed, the record is the questions and replies of the clicks in order.

`SummaryView_proofs`. `FlagsOK`: each of the flags that make the page busy belongs to a run in the phase
that sets it. `ChannelsOK`: as long as a run reads a stream that reported an error with a message, that
error lies unread before the first done event. `NeverStuck` and `NoReportedError` follow. `CalmHolds` (while
nobody intervenes and no model answers with nothing) adds `PageOK`: runs are taken up in their order, one
after the other; takeaways or an error come before each done event in the channel (`Led`), so a summary
has its own takeaways; and the list of a history holds the successful runs, so a success, newer than all
of them, is one more entry in front (`EntryAdded`). `TypeCorrect` adds that no more timers are pending
than runs have ended, and that no list outgrows its limit (`TypesOK`).

Only model-checked: liveness (`RevokedPurged`, `CallsSettle`, `SendEnds`, `RunsEnd`), which is out of the
prover's reach. Every other property of a passing run is a theorem.

## 5. Where code and documentation disagree

Shown by a run:

- `services/auth.py:124` "all existing sessions are invalidated": a rotation that has read its row before
  the UPDATE inserts a successor after it (`session_claims`).
- `services/auth.py:470` "try again in 15 minutes or reset your password": `verify_password_reset_token`
  never resets the lockout (`lockout_reset`).
- `rbac.py:94` with `rbac.py:96`: `/summarize` never commits, so its count is rolled back (`quota_summarize`).
- `frontend/README.md:8` "automatic fallback", `useSummarizer.js:184`: `streaming.py:108` sends the
  exception's text as the error, `client.js:217` passes over an empty one (`str(httpx.ReadTimeout(""))`),
  and the done event that follows turns the truncated text into a summary of quality "full"
  (`stream_error`).

Seen while modelling; the models contain the behaviour, and the passing properties state what holds
in spite of it:

- Two refreshes with one token that both read it before either commits both succeed, and the family
  forks; `tests/test_auth.py:231` says the old token cannot be reused. A revoked token reused after the
  GC has deleted its row is only unknown, and its family goes on (`models/refresh_token.py:16`).
- A lost refresh answer, or two tabs that refresh at once, may end the session of an honest user
  (`NoSessionLostToReuse` excepts exactly these). A refresh answered late overwrites the cookie of a newer login.
- A password reset here, and whatever ends the sessions from another device, leaves the refresh cookie in the
  browser. The next denied call sends it and starts `_revoke_family` although nobody stole anything, which
  finds nothing left to revoke (`NoSessionLostToReuse`).
- An identity finds its account without a look at `is_active`: for an erased account `handle_social_login`
  succeeds and a refresh token is inserted, which is refused at its first use (`ErasedSessionsFrozen` is
  about the sessions from before). Erasure is two commits: a crash in between leaves an active account
  without sessions, whose owner has to log in and ask again.
- An identity keeps its account when the provider names another address later, and linking a second identity
  of one provider drops the first without notice (`VerifiedIsVouched` allows both).
- A link decoded before its expiry and spent after it finds no row if the GC has run, and logs in a
  second time (`SpentOnceInTime` is therefore limited to the link's life).
- In Redis a lost EXPIRE leaves a counter for ever (`CounterResetsAfterWindow` excepts exactly that), and
  an EXPIRE delayed over a reset and a new first failure prolongs a lock (`LockNotExtended`).
- Overlapping requests exceed the daily limit (`OvershootBound`), and one that spans midnight while
  another resets the counter writes yesterday's count under today's date (`ChargedOnItsDay` excepts overlaps).
- `rbac.py:142` says unverified users get the extractive fallback; they get the model, uncounted
  (`PassUncounted`).
- On a migrated database two overlapping ingestions of one URL store it twice, where `services/ingest.py:10`
  promises "one record per (user_id, url)" (`FewDuplicates` says how many it can be).
- A reply of `[]`, or of entries without front or back, makes a set without cards and is answered with success
  (`services/flashcards.py:64-67`; `CardsOfReply` allows it).
- Where the constraint exists, "Please try again" (`routers/ingest.py:51`) can never succeed for a deleted
  key (`DeletedForGood`).
- Stop does not stop: both pages send the same request again without streaming. In the chat, where the
  server may still be at work on the first, the question is then asked twice, and in a new conversation in two
  sessions (`CalmConversation` holds until then).
- After a reset, the `finally` of the run left behind clears the abort controller of the next one, whose
  Stop button then aborts nothing. Restoring a summary keeps the document id of another. Entries removed
  from the history come back with the next summary, from the other instance's copy (`CalmPage` holds
  until someone intervenes).
- Streams skip the upper word limit, the chunks and the cache. An empty list of takeaways after a failed
  call is cached for 24 hours, and so is the answer of a provider without content, as "full". Three
  long sentences of overlap make a chunk exceed the limit (`Covers` allows exactly that). When one
  chunk's call fails, `gather` leaves the others running.
- Clustering takes the sentence with the least similarity to any one centroid, where the comment
  (`extractive.py:428`) means the one furthest from all. From 301 to about 449 sentences, trimming drops one
  block of the middle instead of samples of it.
- The limiter in memory does not count refused requests, the one in Redis does (`LimitIsExact`
  holds of both). Windows are minutes of the clock: across a boundary twice the limit gets through in seconds. `Retry-After` may be zero or less for a body that arrives slowly.
- `request()` repeats a call with the CSRF header it read before its first try: after two racing first visits the
  retry is refused (`OwnPagesPass` excepts exactly that). An answer 429 sets no CSRF cookie.
- A request that has passed both reads with a key goes on when the key is revoked (`DeadKeysOpenNothing` is
  about keys that were dead when the request came). `last_used_at` is lost with every endpoint that does not
  commit. `get_optional_user` does not look at keys: a caller with one is anonymous at `/summarize`.
- An event whose task is cut off at exit is missing from the audit log (`AuditTrail` excepts exactly that).

Read in code that is not modelled: the `oauth_state` cookie is set on the injected response while another
`RedirectResponse` is returned, and the frontend posts only the code, so the social callback is
refused to this frontend (`MagicLinks` models what it does when it is reached, as the tests of
`handle_social_login` do). At shutdown the engine is disposed before the GC is stopped, and background tasks are not
awaited. `backend/README.md:12` promises "Non-blocking email delivery with dead-letter queue handling", but
`send_email_background` and its dead letters have no caller. No migration creates `api_key` or `audit_log`:
on a migrated database every use of a key fails, and so does every audit event, which only logs a warning.
`models/api_key.py` gives the prefix 8 characters, the code writes 16: a database that checks the length
refuses every creation.

## 6. Plan

Done: `RefreshTokens` with its abstract specification, `MagicLinks`, `Lockout`, `UsageQuota`, `Documents`;
`Chat` with streaming and retries, `TokenClient` on top of `RefreshTokens`, `SummaryView`, `RateLimiter`,
`Csrf`, `Summarizer`, `Extractive`, `Background` with `ApiKeys`; theorems for all their safety properties, and
for the two refinements (`SessionStore`, `Conversation`); the social logins, in `MagicLinks`.

Left: nothing of what the plan named; what is not modelled and why is the next section.

## 7. Not modelled

Mail: the handlers await it, so it appears as sent or not in `MagicLinks`; nothing calls the background
delivery. Configuration: straight-line code run once; what it decides is chosen in initial states or
constants. One worker process is modelled; gunicorn runs four, which share the tables (modelled as slots) but
not the memory of the limiter and of the lockout store. In development all sessions share the one
connection of SQLite's `StaticPool` (`db.py:44`), which is not modelled: the models have one transaction
per request, as with PostgreSQL.
Health, metrics and error envelopes: stateless. Views of the frontend: rendering.

Of the text processing, what depends on order and bounds is modelled; scores (TF-IDF, TextRank,
positions), the sanitizer, prompts and analytics are floating-point arithmetic and regular
expressions over text. JWT signatures, password hashing, SMTP and OAuth providers appear only as
outcomes (of a provider, the identity and the address it names). Access tokens are stateless and not revocable by design. Verification tokens may be used
at any time (their expiry is abstracted). Fetching and cleaning of pages is a delay that may fail.
Plans of different limits are one `Limit`.
