# A verification project for the hexagonal API

TLA+ models of the API and its worker (TypeScript, Express, Prisma on MySQL,
MongoDB, Redis, BullMQ), the TLC runs that check them on small instances, and
proofs, checked by TLAPS, of what holds on every instance. Paths below are
relative to the repository's root; `README.md` of the repository is quoted as
"the repository's README".

The code is a set of small use cases, each a sequence of `await`s on a database,
a cache or a queue, run by any number of API and worker processes at once. No
use case but one (an organization and its first member) uses a transaction, and
none takes a lock. So every model here makes the same cut: **one `await` is one
step, what a use case has read stays in its own memory, and between two steps
anybody else may act, fail or die.**

## 1. Inventory

| Component | State it keeps | Operations | Talks to | What is hard |
| --- | --- | --- | --- | --- |
| Membership management (`core/use-cases/membership`, `OrganizationAccess`) | `memberships` table | AddMember, ChangeMemberRole, RemoveMember, ListMembers | MySQL; cache invalidation; event recorder | decisions on rows read some awaits before the write |
| Organizations (`core/use-cases/organization`, `Slug`) | `organizations` table | Create (with its owner, in a transaction), Rename, Get, List | MySQL; cache; event recorder | slug race; slugs cut to their limit; cache invalidation |
| Cache of a user's organizations (`OrganizationCache`, `ResilientCache`, `RedisCache`) | one Redis key per user | Read, Write, InvalidateUser, InvalidateOrganization | Redis; memberships | fills racing invalidations, invalidations lost |
| Event recorder and publisher (`core/events`, `BullMqEventPublisher`) | none | record | BullMQ `domain-events` | commit and publication are two steps |
| Worker (`HandleDomainEvent`, `DispatchNotification`, BullMQ workers) | jobs in Redis; audit events and notifications in MongoDB | append, notify, send, mark | both queues, MongoDB, MySQL | retries, stalls, crashes, two runs of one job |
| Accounts (`CreateUser`, `Login`, scrypt) | `users` table | register, log in | MySQL; event recorder | race for an address, spelling of addresses |
| Sessions (`JwtTokenService`, `RedisRevokedTokenStore`, `authMiddleware`, `Logout`) | revoked `jti`s in Redis, expiring | sign, verify, revoke, isRevoked | Redis | two clocks with two resolutions; failing closed |
| Login rate limit (`RedisRateLimitStore`, express-rate-limit) | counters in Redis, expiring | increment | Redis | edges of windows; failing open; commands sent again |
| Start and shutdown (`main.ts`, `worker.ts`, `infrastructure.ts`) | connections, timer | connect, listen, signal, drain, close, exit | everything | early and second signals, hung work, rejections |
| Readiness and the Redis clients (`CheckReadiness`, probes, `redisClient.ts`) | commands a client keeps | check, send, retry | everything | probes that never answer, commands that wait for a server |
| Read-only queries, presenters, schemas, logging, configuration, composition | none | - | - | data shape only |

What makes each component correct, and the definition that says so:

* Membership: one membership per user and organization, one organization per
  slug; an organization keeps an owner; nobody grants above his rank; answers and
  events tell what was written (`OneMembershipPerUser`, `OneOrganizationPerSlug`,
  `AlwaysAnOwner`, `FreshWritesObeyTheRules`, `OwnerlessIsForever`,
  `AnswersMatchEffects`, `EventsReportCommits`), and together: the promised rules
  (`ImplementsRules`).
* Slugs: letters enough make one, and an accepted slug is read as itself
  (`LettersMakeASlug`, `SlugsAreStable`).
* Pipeline: an event that reached the queue is audited, and its notification is
  delivered, once, unless a job is given up (`EventsAreAudited`,
  `NotificationsAreDelivered`, `OneDeliveryWithoutMishap`, `DeliveredIsFinal`,
  `SentIsAudited`), a job that is completed has done its work
  (`JobsKeepTheirWord`), and together: `ImplementsDelivery`.
* Cache: what is cached is what the database has, or there is a nameable cause
  and an end to it (`StaleEntryHasACause`, `CurrentAtRest`,
  `StaleEntriesDieOut`).
* Sessions: a logout that was answered holds (`LoggedOutUntilRunOut`,
  `NobodyEntersAfterLogout`).
* Accounts: one account per address, opened by its own password, always
  (`OneAccountPerAddress`, `OnlyTheWinnerLogsIn`, `RegisteredCanLogIn`), and
  together: `ImplementsRules`.
* Rate limit: a bound on attempts, and no undeserved refusal
  (`LessThanTwoWindowsWorth`, `RefusalsAreDeserved`).
* Start and shutdown: nothing closed under work, nothing lost but by the timer,
  and an end (`WorkKeepsItsConnections`, `OnlyTheTimerLosesWork`,
  `ExitsInTheEnd`).
* Readiness and Redis: a report that is fair and in time, and events that no
  outage loses by itself, but a refusal or the shutdown timer
  (`BlameIsDeserved`, `PraiseIsDeserved`, `ReadinessIsAnswered`,
  `EventLossesHaveACause`, `EventsOutlastAnOutage`).

## 2. Modules, and how they correspond to the code

| Module | Models | Notes |
| --- | --- | --- |
| `Roles` | `MembershipRole`: ranks and what they allow | used by both modules below |
| `MembershipRules` | the promise: the tables change by whole creations and lawful grants, role changes and revocations | abstract specification of `Membership` |
| `Membership` | CreateOrganization, AddMember, ChangeMemberRole, RemoveMember as concurrent requests | `actorRow`, `target`, `owners` are a request's local variables; `pc` names the await it stands at |
| `Slug` | `Slug.Create` and `Slug.FromText` as operators, on a text composed a character at a time | a character stands for all those the code treats alike; removing, trimming and slicing are all `Kept`, the characters at some positions |
| `DeliveryRules` | the promise: audited, saved, sent, delivered, in this order and each once, unless there was a mishap | abstract specification of `EventPipeline` |
| `EventPipeline` | publication, the two queues, both handlers | BullMQ is external: at-least-once jobs, ids, attempts, backoff, locks, stalls, removal |
| `OrganizationCache` | list, create, rename, add and remove against the cached lists | permission is left to `Membership`; here a write only has to be possible |
| `Sessions` | login, logout, and the two checks of `authMiddleware` | time in ticks, `Second` of them to a second; JWT floors, Redis is exact |
| `AccountRules` | the promise: a register written and read in one piece, and answers that say what it held | abstract specification of `Accounts` |
| `Accounts` | CreateUser and Login | an address has two spellings; `Normalize` is `Email.Create` |
| `LoginRateLimit` | `increment` and the middleware's decision | MULTI is one step, the decision another; a command is sent again after a broken connection, and `counted` has each sending |
| `Shutdown` | `bootstrap` and the signal handlers of `main.ts` and `worker.ts` | `role` says which process it is, `boot` how far it has started |
| `Process` | what the work of such a process waits for while servers go down and come back | extends `Shutdown`: each of its actions is one of `Shutdown`'s, or leaves it alone |
| `*Proofs` | theorems about the module they extend | `ProcessProofs` has those about `Shutdown` too |
| `MC*` | model-checking instances: symmetry sets at most | one `.cfg` per run |

The map in `PROJECT.json` names the lines behind each definition. Conventions
shared by the modules:

* `pc[r]` is the await that request `r` stands at; an action is what happens
  from one await to the next, its guard the code's early returns.
* `Goto` moves a request on, `Answer` ends it with what the client is told: the
  domain error's code, `OK` for any 2xx, `INTERNAL_ERROR` for everything
  `errorHandler` does not recognise (Prisma's errors included).
* `Faults` switches on what the environment may do: a query fails, a commit's
  answer is lost (the row is written and the client reads 500), Redis does not
  answer, a process dies. With `Faults = FALSE` a run shows what concurrency
  alone does.
* variables marked `history` in their declaration are not in the program. They
  record what a property has to look back on, and no guard reads them.
* an operator that stands just before another and differs from it in one point
  (`AcceptsWithoutIndex` before `Accepts`) is a plausible mistake in that
  piece of code, kept to show that the property it is listed with would notice.
  Nothing in a specification refers to it.

How the modules fit together: `Membership`, `OrganizationCache` and `Accounts`
end where `EventRecorder.record` hands an event to the queue, and
`EventPipeline` begins there, with events that were recorded. An event's
content is checked on the first side (`EventsReportCommits`), its fate on the
second. `Accounts` ends with a login that is answered, `Sessions` begins with a
token issued. `Shutdown` cuts work short by its timer; what that means for a
job is `Crash` in `EventPipeline`, and for a request `Crash` in the others.
`Process` composes that life of a process with its work and with the servers: a
request there is let in, handles, publishes and answers, a readiness check asks
its probes, and each step says which server and which connection it needs. It
looks at what `Membership` and `EventPipeline` leave nondeterministic, how long a
publication takes and whether it fails: its `NotPublished` is their event lost.
`MCOrganizations` puts `Slug` beside `Membership`, whose `Orgs` are slugs that
were accepted; the two share a run, not a behaviour.

## 3. Runs

All passing runs finish in well under five minutes with two workers.

| Run | Instance | Shows |
| --- | --- | --- |
| `membership_faults` | 1 slug, its organization there or not, 3 people (one without account), 2 concurrent requests, failures; 370 k states | types; one membership per user, one organization per slug; a 4xx wrote nothing and a 2xx wrote it; events report what was committed; a write decided on what is still so is lawful |
| `membership_serial` | 2 slugs, 2 people, 2 requests one after the other; 431 k states. Slugs: texts of up to 5 of 7 kinds of characters, lengths 2 to 4 | the use cases refine `MembershipRules`; an owner remains; letters make a slug, and slugs are stable |
| `membership_lastowner` | 2 concurrent requests, no failures | the last owners lost to each other (section 6) |
| `pipeline_one` | 1 event, its recipient there or not, 2 slots, 2 attempts, 1 stall, failures; 497 k states | the safety properties of the pipeline, and `DeliveryRules` refined, of which `SentIsAudited` is a part |
| `pipeline_retried` | 1 event, 1 slot, 3 attempts, failures; fair; 84 k states | auditing, and delivery by retries |
| `pipeline_twice` | as `pipeline_one` | a delivery repeated (section 6) |
| `cache_stale` | 1 organization, 2 users, 2 names, 2 requests, 3 writes, failures; fair; 823 k states | the three causes of an out-of-date entry, and its end |
| `sessions_logout` | 2 tokens of 2 s, 3 ticks a second, 9 ticks, 2 requests, failures; 1.6 M states | logout holds to the last tick |
| `accounts_accounts` | 2 addresses, 2 passwords, 3 requests, failures; 85 k states | accounts and logins, and `AccountRules` refined |
| `ratelimit_attempts` | limit 1, window of 2 ticks, 3 ticks, 2 clients, 3 requests, 2 of which may be sent again, failures; 1.8 M states | the bound across two windows; refusals are deserved |
| `process_probed` | API and worker, 2 pieces of work, 2 signals, probes of Redis and of the queues, Redis down, full and up again; fair; 186 k states | start, draining, signals, the timer; a fair and timely report; which events are lost |
| `process_outage` | as `process_probed` with 1 piece of work and 1 signal | an answer that waits for Redis (section 6) |

**Why the bounds are enough.** Every known race here is between a read and a
write of two requests, so two requests show it. Two users are an
actor and a target, and the third of `membership_faults` is somebody without an
account. Two slots (`pipeline_one`) are two runs of one job, and more than `MaxStalls` stalls
fail a job, so one stall is enough to have a second run beside the first;
liveness has one slot, because a retry after a failure is a matter of one job in
time. A
rename and a change of members in the same organization is what the
invalidation could miss, so one organization and two users do for the cache. The
ticks of `sessions_logout` let a token be issued and revoked at every offset
within a second. A window's edge needs one window before it and one after; with a limit of one the
bound is a single attempt in any stretch of a window, so a key that goes a tick
too soon, or one attempt too many, breaks it, and one attempt sent twice
reaches the limit. In `process_probed` two
pieces of work are one that a signal must wait for and one on a kept socket
behind it; a second signal is all that can disturb the first. Of the probes the
two on Redis are those whose clients differ; MongoDB's and MySQL's fail like
`redis`. Slugs of at most 4 of 5 characters are cut, on a hyphen and
elsewhere.

**Bounds by name.** `MaxWrites` (requests that change something, in the cache
model), `MaxTime` (clocks), `Resends` (how often one command is sent again) and
`Breaks` (how often that happens in a run: a constraint of the run, not of the
specification), `MaxStalls` and `MaxAttempts` (which are BullMQ's
and the configuration's own), `Concurrency`, and the sets of requests, each of
which is received once. `sends` counts to 2, which stands for more.

**Symmetry** is used in runs without liveness properties only, over sets whose
members nothing but equality distinguishes.

**Deadlock** is checked except where the system does stop: the clock at
`MaxTime` (`Sessions`, `LoginRateLimit`) and a process that has exited
(`Process`). `Membership` and `Accounts` have an explicit final step for when
every request was answered, `EventPipeline` one for when all is quiet.

**Fairness, and why the code justifies it.** In `EventPipeline`: a run of a job
goes on (`WF` of its steps, a crash excepted: it ends the run); a job that waits
is taken in the end (`SF`: workers poll, and a slot that is free again and again
takes it); a backoff ends and a job whose run died is found stalled (BullMQ's
timers). Failures have no fairness, and are bounded by `MaxAttempts` and
`MaxStalls` as in BullMQ, which is why a job given up is an outcome the
properties allow. In `OrganizationCache`: requests go on, and a key that keeps
being there expires, which is Redis's promise about `EX`. In `Process`: the
shutdown timer, the end of a process whose event loop is empty, the timers of
the probes and the report when all have ended, and that a client that stays
connected gets its commands answered (which `WF` grants only when Redis stays
up or full, or the client is closed); nothing makes a request finish, a
server come back or a connection close.

## 4. Theorems

TLC shows a property on the instances above; these hold for all values of the
constants that satisfy the modules' assumptions (which say no more than that
null values are not data, that sets of people, organizations and requests are
finite, and that numbers are numbers).

**Membership** (`MembershipProofs`). The inductive invariant
`IInv` is needed because the properties speak of a write while the code checked
several awaits earlier: it says of a request at each await what it has
established so far (`LocalOK`: its actor's row allows managing, an addition is
within its rank and for somebody registered, a target is below it, an owner was
not the only one when counted) and of each row that its id is its creator's
(`Anchored`), so that a row created twice is the same row.

* `TypeCorrect`, `NeverTwoMemberships`, `OneCreatorPerSlug`: types, one membership
  per user, one creation per slug.
* `FreshWritesAreLawful`: the refinement step. A commit whose snapshots are
  still what the table says is a step of `MembershipRules` taken by the request's
  own actor.
* `OwnerlessStaysOwnerless`: no rank below owner can make one.
* `SerialRequestsImplementRules`: with `Concurrency = 1` snapshots are always
  current (an invariant of its own), so every step refines `MembershipRules`,
  failures and crashes included. `RulesKeepAnOwner` proves of the abstract
  specification by itself that an owner remains, and `SerialRequestsKeepAnOwner` carries
  it over. Between them they locate the defect of section 6: the checks are
  right, and only their distance from the write is wrong.
* `AnswersAreTrue`, `EventsAreTrue`: what the client and the event are told, with
  any number of requests. A second invariant, `EffectsInv`, keeps that a request
  that has changed something is past its write and was not refused
  (`AnswerOK`), and that the row it read is still in the table or was
  `Overtaken`: another request's change replaced just the role it read
  (`ReadOK`). That is why an event may name a role its own change did not
  replace, and never one that nobody replaced.

**Slugs** (`SlugProofs`). Texts of any length, and any two limits of which the
lower is positive and less than the upper. What a text operation computes is
ordinarily an induction over the text, which is out of this prover's reach;
here counting takes its place. `Kept(s, S)` has at its `k`-th place the character
of `s` at the `k`-th smallest position in `S`, which is the one with `k` members of
`S` up to it (`Nth`), and by the theorems on cardinalities `Nth` numbers a finite
set of positions in their order (`Enumeration`). So a step that removes no
letter leaves as many as there were (`KeptOf`), and characters that become
neighbours had nothing kept between them, whence `Hyphenation` leaves no two
hyphens together and `Trimming` brings a letter to each edge. Of a text cut at
`MaxSlugLength` the last character or the one before it is a letter, so that
the second trimming costs one character at most (`TrimmingKeeps`), which is
where `MinSlugLength < MaxSlugLength` is needed.

* `LettersAreEnough`: letters and digits enough make a slug, and none make none.
* `SlugsStayTheSame`: whatever was accepted has the shape on which every step of
  `Slug.Create` and `Slug.FromText` is the identity (`GoodStaysAsItIs`).

**Pipeline** (`EventPipelineProofs`). `IInv` ties a run's place
in its use case to the job it runs and to what is saved; from it
`TypeCorrect` and `SentEventsAreAudited`.
`DInv` adds that a run of an event without a mishap holds its job's lock
(`LockOK`), so that it is the only one, and relates the status of a notification
to the number of times it was sent (`FreshOK`, `SentOK`); from it `DeliveredOnce`
and `DeliveredStaysDelivered`, and the refinement: `PipelineImplementsDelivery` maps
every step of the queues and of the handlers to a step of `DeliveryRules` or to
none. `WInv` adds what a run that has come to the end of its use case leaves
behind, which a later run may rely on (`DoneAt`), and what a completed job says
(`DoneBy`); from it `JobsAreTruthful`. That is what of `NotificationsAreDelivered`
can be proved here: jobs leave the queue completed, with their work done, or
given up.

**Cache** (`OrganizationCacheProofs`). `StaleEntryHasACause` is inductive with
the types: the work is to show that every write owes a deletion to each user
whose list it changed, also when members come and go between a rename and the
reading of the members. `SerialRequestsAreCurrent` adds that without failures
and with one request nothing is ever spoiled.

**Sessions** (`SessionsProofs`). Two lemmas bound the roundings (`exp` in whole
seconds, the lifetime of the key rounded up); the invariant carries the bound
from the computation of the lifetime to the SET that comes any time later.
`LoggedOutStaysOut`, `LogoutIsFinal`.

**Accounts** (`AccountsProofs`). Each row is the work of a registration with the
same credentials whose answer is no refusal (`RowOK`), rows are never removed,
and what a login holds is a row of its address (`RequestOK`).
`TypeCorrect`, `OneAccountEach`, `LosersStayOut`, `RegistrationsHold`.

`AccountsKeepTheRules` is the refinement. A registration takes effect at its
INSERT and a conflict at its lookup. A login is decided where it reads the
row, an `await` on scrypt before its answer: until then `Verdict` is what the
mapping has for it, and it is right to have it, because a row never changes and
is the only one of its address (so "the row that was found has this password"
and "these credentials open an account" are the same). Lookups that find the
address free, and a verification that succeeds, are stuttering steps.

**Rate limit** (`LoginRateLimitProofs`). The two properties speak of counts in
a stretch of time, and the store keeps one counter that is gone when its key
expires. The invariant therefore says that there is a function from sendings (a
request, and the how-manieth time its command was sent) to the times at which
the keys they were counted under were made (`Opened`): no variable has those
times, but they exist, and every step that counts a sending extends the function.
Under one key no two were told the same count, and keys of one client are a
window apart or more, so a stretch of a window meets two keys at most, and each
lets `Limit` requests through at most (their counts are an injection into
`1..Limit`). When it meets two, the attempt that made the first key, whose count
was 1, lies before the stretch: `2 * Limit - 1` in all, `UnderTwoWindowsWorth`, for
every limit, window, number of requests and of sendings. For
`RefusedDeservedly`, the count a request was told is at most the number of counts
of its client's own attempts within a window before it. `TypeCorrect`.

**Start, shutdown and readiness** (`ProcessProofs`). `IInv` of `Shutdown` says how
far the one closing sequence has come, and that none begins while work is under
way; `ProcessImplementsShutdown` shows that every step of `Process` is one of
`Shutdown`'s or leaves its variables alone, so `WorkIsNotCutOff` and `CleanExit`
hold of a process whose work waits for servers that come and go. `PInv` adds
what each piece of work has seen of the servers, and rests on the former: a probe
or a publication under way has its connections, so it can only fail by its
server. `BlameWithCause`, `PraiseWithCause`, and the types of both. `EndOK` adds that a
process that has started ends with a 0 or by its timer; with `CleanExit`, work
that is under way at the end was cut off by the timer: `LossesWithCause`.

**Only model-checked.** Liveness (`EventsAreAudited`,
`NotificationsAreDelivered`, `StaleEntriesDieOut`, `ExitsInTheEnd`,
`ReadinessIsAnswered`, `EventsOutlastAnOutage`), which is out of this prover's
reach, as is `ENABLED`. Induction over data is out of reach too: no installed
prover can instantiate an induction theorem, and no module here needs one. Every
invariant and every action property that a passing run checks is a theorem.

## 5. Abstractions

* Identifiers, names, texts and e-mail addresses are model values. What the
  code does to them is kept where a property tells it apart: the spelling of an
  address, the organization's name in a cached list, and in `Slug` the kinds of
  characters. Slugs never change and no organization or user is ever deleted in
  this code, so a slug is its organization.
* A MySQL statement is atomic, and reads see what is committed (each statement
  is its own transaction in this code, so no snapshot lasts longer).
* A role or a name that is refused is refused by the HTTP schemas already; the use
  cases read their input again, and `Membership` has the check where they have it.
* scrypt is the relation between a password and the hash made from it. A token
  in the models is one that was issued; the check of its signature is not
  modelled.
* BullMQ, ioredis, express-rate-limit and `node:http` are modelled by what this
  code relies on. ioredis sends a command again when a connection breaks before
  the answer, so a publication may happen twice, and so may the count of an
  attempt. `COMMAND_RETRIES` is the number of attempts to connect after which
  commands are rejected; it starts again with each connection, so it does not
  bound how often one command is sent, and `Resends` is any number in the proofs. A
  sending that the client has given up may still be run by Redis, later. The
  resent `MULTI` of one instance may overtake another's here, in more orders than
  one connection has.
* A notification's `attempts` counter and failure text are left out: no decision
  reads them.
* Times other than those of sessions and of the rate limit (TTL of the cache,
  backoff, lock duration, the shutdown timer) are nondeterministic: they may end
  at any moment.
* The API's instances do not appear: they share nothing but what the models
  have as shared, so a request is the same in whichever of them it runs. Clocks
  that differ between instances are not modelled; `Sessions` has one clock.

## 6. Where the code and its documentation disagree

Three have a run whose counterexample shows them, and theorems or properties that
say what does hold.

1. *"a organização nunca fica sem `owner`"* (repository's README, line 180).
   `membership_lastowner`: two owners are removed or demoted at the same time,
   each request having counted two. By `OwnerlessStaysOwnerless`, nothing in the
   application repairs that afterwards.
2. *"Republicar o mesmo evento não duplica [...] nem entrega. Retentativa deixa
   de ser um risco"* (line 339). `pipeline_twice`: between sending and saving
   there is an await. `DeliveredOnce` says that this, or a stalled run, is the
   only way.

3. *"Se o Redis estiver fora, a associação já está gravada e a resposta sai
   igual: a publicação falha, vira log de erro e o caminho principal não cai"*
   (line 81). `process_outage`: the queues' client retries for ever and keeps its
   commands while it is not connected (`redisClient.ts`, line 31), so publishing
   does not fail, and the answer to a change that is made waits with it. What
   holds is `EventsOutlastAnOutage`: the event is published when Redis is back, if
   the process lives that long. A client that gives up and asks again meets
   what it created.

The models contain others, which no run here is dedicated to:

4. *"Ninguém concede um papel acima do próprio"* (line 180). The rank is the one
   read at the beginning of the request, and an owner demoted meanwhile still
   grants owner. What holds is `FreshWritesAreLawful`: of a rank still current.
5. *`CONFLICT`, 409: "E-mail ou slug já cadastrado, membro repetido"* (line
   265). The loser of a race is stopped by the unique index, whose error
   (Prisma's P2002) nobody translates: it is answered 500 (`WriteRefused` in
   `Membership`, for memberships and slugs, `Accepts` in `Accounts`). The data stays
   right (`NeverTwoMemberships`, `OneCreatorPerSlug`, `OneAccountEach`).
6. *"entrou, saiu ou renomeou, a chave morre"* and *"o pior caso de um cache
   fora do ar é ir ao banco"* (line 333). A list read before a write and cached
   after its invalidation, or an invalidation Redis does not get, leaves the old
   list to be served until its key expires: `CurrentAtRest`, which holds for one
   request at a time without failures (`SerialRequestsAreCurrent`), does not hold
   otherwise. `StaleEntriesHaveACause` lists the causes, `cache_stale` shows the
   end.
7. *`TOO_MANY_REQUESTS`, 429: "Tentativas de login acima do limite"* (line 266).
   A connection that breaks between a count and its answer makes the client
   send the `MULTI` again (`redisClient.ts`, lines 5 and 20), which counts again
   (`ReplyLost`, `Resend`, `Increment`), so an attempt within the limit may be
   refused: with the default limit of 10, one that is sent twice and follows
   nine others. `RefusedDeservedly` says what does hold: it is one's own attempts
   that count, and none older than a window.

The loss of an event between commit and publication, which the repository's
README names (line 355: *"Se o Redis cair exatamente nessa janela, [...] o evento
se perde — sobra o log de erro"*), is in the models: `Drop` and `Crash` there,
`EventLost` in `Process`. By `EventLossesHaveACause` it takes more than Redis
going down: the client keeps the command meanwhile (3), and what loses the event
is a Redis that answers with an error, or the end of the process. In `Process`
that end is the shutdown timer's, which is bound to fire when a signal comes
during an outage that outlasts it, since the shutdown waits for the request and
the request for Redis; a process that is killed loses it as well. Then there is
no error log either: it is written when the publication fails, and it never did.

## 7. Not modelled

* Read-only queries (`ListMembers`, `ListAuditEvents`, `ListUserNotifications`,
  `GetOrganization`): they change nothing, and who may read is
  `OrganizationAccess.Resolve`, which `Membership` has.
* Schemas, presenters, request identity, the codec of domain events, logging:
  data shape, with no state and no order.
* Composition and configuration: wiring. The values that matter are constants
  of the models. A `JWT_EXPIRES_IN` without a unit is a mistake of configuration
  that no model of the code would show.
* How much a client keeps: each readiness check during an outage leaves its
  commands in the queues' client, whose offline queue has no limit.
* The TTL index of the audit trail, which acts inside MongoDB.

## 8. Plan

Done, in this order, the most important behaviour first: membership and its
rules, the pipeline, the cache, sessions, accounts, the rate limit, shutdown;
then creation of organizations and slugs, start-up, readiness and outages, and
the abstract specification of delivery.

Proved since: the answers and events of `Membership`, `Shutdown` and `Process`,
`LoginRateLimit`, the types of all modules, and the refinement of `AccountRules`,
written for it.

Then the slugs, by counting instead of induction, and what a completed job has
done.

Left: abstract specifications of a register with expiry, which
`OrganizationCache` without its causes would refine, and of a session that is open
or closed, which `Sessions` would.

## 9. Running

    tlc -workers 2 -config MCMembership_faults.cfg MCMembership.tla
    tlapm MembershipProofs.tla
