# AIDA-Guard broker in TLA+

This directory models the broker of this repository (`apps/broker` and the
packages it loads): what it writes to the Providence chain and when, what it
forwards, and what survives a crash, a timeout or a second process. Modules are
checked with TLC on small instances; every safety property of their passing runs
is also proved with TLAPS, for all values of the constants or under a hypothesis
named below.

## The system

| Part | State | Operations | What makes it correct |
|---|---|---|---|
| Chain writer (`packages/providence-log/src/log.ts`) | `chain-v3.jsonl`, `head-v3.json`, `head-v3.json.tmp`; the head in memory, `failure` | constructor (`openHead`, `indexLines`), `append` (`appendDurably`, `replaceHead`), `exportAnchor`, `page`, `refuseFrom` | one chain, durable before it is acknowledged, and a refusal whenever disk and memory may disagree |
| Encoding (`encoding.ts`) | none | record line, digest, head commitment | a digest commits to the record and to everything before it |
| Anchor scheduler, start and shutdown (`scheduler.ts`, `apps/broker/src/index.ts`, `lib/openclaw-gateway.ts`) | `lastAnchoredSeq`, the `inFlight` promise, the timer; where the process is from its start to its exit | first record, tick, `anchorNow`, `stop`; the wait for the gateway, `listen`, the signal, the close hooks | anchors follow the head; records come under an anchor or the log refuses; starts and closes end |
| Invoke pipeline (`routes/invoke.ts`, `lib/deadline.ts`, `services/providence.ts`) | the request at each await | nine layers, four of them awaits under a deadline | what the client was told, what the chain says and what the transport did agree |
| Admission, revocation, context, cosign (`admit.ts`, `revoke.ts`, `context.ts`, `cosign.ts`) | `registeredManifests`, `sessionLabels` | attest, revoke, register, cosign | nothing is done for a session before its admission is recorded or after it was revoked; nothing goes outward under taint |
| Bindings (`nie-bindings/src/interface.ts`, `mock.ts`) | `activeTokens`, the three sets of revoked principals, `seenNonces` | `attest`, `verifyToken`, `deriveScopedCapability`, `revokeSubject` of each kind, `consumeNonce` | a session that ended does not come back; the nonces of a live one are not forgotten; a child stays within its parent |
| Policy engine, label lattice, adapter (`policy-engine`, `shared-types/src/lineage.ts`, `services/labels.ts`, `openclaw-adapter`) | the role matrix; `SessionLabelStore.labels`; none | `evaluate`, `join`, `joinElements`, `forward` | a decision by every predicate; labels only rise; engine and adapter agree |
| FHE route and gate (`routes/fhe.ts`, `packages/fhe-gate`) | results and receipts of the provider; the request at each await | inference, attestation, dual control, release, `findRecord` | no result without its records; a refused release stays sealed |
| Audit (`routes/audit.ts`, `page()` of `log.ts`) | `lineOffsets`, `chainBytes`; the auditor's `next` | `page` | every record once and in order; every anchor there was |
| MCP and skill routes, mediator, operator authentication (`routes/mcp.ts`, `routes/skill.ts`, `mcp-mediator`, `lib/operator-auth.ts`) | the trust table | classify a request and record a refusal | the code and the record of each refusal |
| Attack simulator (`apps/attack-sim`) | the scenario it is in | 29 scenarios, 9 of them skeletons | each ends the same whatever ran before it and other clients do |
| Preflight, session, version, health, configuration | none that a decision reads | | left out, below |

Interaction. Every route ends in `append`, which is synchronous: within one
process an append never interleaves with another. Routes interleave only at
their awaits. The chain directory is shared by whatever processes are opened on
it. The scheduler hears of appends through a listener, and can put the log into
its refusing state, after which every route answers 500.

What is hard: a kill or a power loss between any two file system calls; an
overlap of two processes at a redeploy; an anchor signed while records land; a
deadline that fires while the call it bounds goes on; state read before an await
and used after it; an append that throws after the action it records was done.
`PROJECT.json` lists each hazard at its line.

## Modules

| Module | Models | State and actions |
|---|---|---|
| `ChainRecords` | records, digests, head commitments | operators only. A digest is the sequence of everything it commits to: collision free |
| `ProvidenceChain` | the abstract promise of the log | `chain`, `acked`; `Commit`, `Acknowledge`, `LoseUnacknowledged` |
| `ProvidenceLog` | the constructor and `append`, one action per file system call | the disk (`lines`, `torn`, `synced`, `linked`, `headFile`, `headMay`, `tmp`, `tmpSynced`) and the processes (`proc`). `headMay` is what the head may be after a power loss |
| `ProvidenceLogProofs` | theorems about `ProvidenceLog` | the inductive invariants `IInv`, with one writer, and `PairInv`, with any number |
| `MCProvidenceLog` | instance of it for TLC | symmetry of the writers |
| `MCProvidencePair` | two chain directories side by side, each an instance of `ProvidenceLog` | one broker on the first, two on the second; a step is taken in one while the other is as first found, since they share nothing |
| `AnchorScheduler` | `start`, `anchorNow`, `stop`, the wait for the gateway, `listen`, the signal handler, the close and the restart | the log at the grain of whole appends; `queue` counts the runs chained on `inFlight`, `signing` is the head captured before the signer is awaited; `phase` is starting, listening, up, draining, releasing, stopping, then exited or down |
| `AnchorSchedulerProofs` | theorems about `AnchorScheduler` | the inductive invariant `IInv` |
| `BindingsPromise` | what the broker needs of its bindings | `live`, `issued`, `consumed`; `Issue`, `Consume`, `End` |
| `NieBindings` | the in-process bindings, one action per method | `token` (history), `active` (`activeTokens`), `revoked`, `seen` (`seenNonces`), `clock` |
| `InvokePipeline` | `/v1/invoke`, `/v1/admit`, `/v1/revoke`, `/v1/context/register`, `/v1/cosign` over an instance of `NieBindings` | a step is one run of the event loop between two awaits; `pending` holds calls made that have not taken effect, and outlives the deadline of the request |
| `InvokePipelineProofs` | theorems about `InvokePipeline` | the inductive invariant `IInv` |
| `MCInvokePipeline` | instances of it for TLC | the calls clients make |
| `Labels` | the lattice of `lineage.ts` | operators only |
| `PolicyRules` | roles, intents, the engine's predicates, the adapter's routing, the join of an element into an entry | operators only: engine and adapter keep no state |
| `PolicyDecision` | the label store under registrations of any session | `entry` is the store; `Register` is `joinElements` |
| `PolicyDecisionProofs` | theorems about `PolicyDecision` | the lattice of labels, and the inductive invariant `IInv` |
| `MCPolicyDecision` | instance of it for TLC | the elements registered |
| `FheRelease` | `/v1/fhe/infer` over the gate and its provider | a step is one run of the event loop between two awaits; the provider's release is its own step, since it writes to the chain |
| `FheReleaseProofs` | theorems about `FheRelease` | the inductive invariant `IInv` |
| `AttackSim` | the attack simulator's scenarios, request by request, over `NieBindings` and `PolicyRules`, with other clients of the broker in between | `at` and `step` are the simulator; `Handled` is what a route changes, `Answered` what it answers, with the type of its record |
| `MCAttackSim` | instance of it for TLC | symmetry of the other clients' handles |
| `AttackSimProofs` | theorems about `NieBindings` and, over them, about `AttackSim` | the inductive invariants `IInv`, of the bindings, and `SimInv`, of the scenarios; the refinements of `BindingsPromise` and of `NieBindings` |
| `AuditPage` | `page()` and auditors that follow `next` | the chain file by its lines' lengths, the index in memory, the anchors' files; `late` is the history of anchors written behind a reader |
| `AuditPageProofs` | theorems about `AuditPage` | the inductive invariants `IInv`, of the anchors, and `PageInv`, of the index and the records |
| `Recursion` | induction and recursive functions, for the proofs about them | lemmas only |

In `ProvidenceLog` a process is at a program counter; `Refuse` is `this.failure`
being set. Reads see the latest write. A power loss keeps what was fsynced, any
prefix of the bytes after it, and one of the directory entries written since the
last fsync of the directory. `CallsFail` lets every call throw; `ShortWrites`
lets a write store a part and return.

In `AnchorScheduler` the close first drains the requests in progress and then
runs the hooks, as Fastify does; a handler whose client has gone is not waited
for (`orphans`).

In `InvokePipeline` an append puts the record on the chain or throws
(`NotRecorded`): the log refuses from then on (`LogFails`, where the record may
be on the chain all the same, when the last fsync is what failed), or the text a
record quotes has no encoding and only that append throws (`Unencodable`).
`QuotesText` says which records quote text: those of an answer or a refusal in
the words of the bindings or of the engine, those under a device whose label is
not a fingerprint, and those of an invoke that take something from its envelope,
which nothing validates against a schema (the intent, the classification, the
target hash, the digest at `invoke.ts:278`). So an invoke can be answered 500
with no record by a log that goes on accepting. The bindings are the in-process
ones of this repository, with one liberty: their interface is asynchronous and
deadlines race it, so a call takes effect some time after it is made, which
includes at once. What is wrong with an envelope is a set of faults in the call,
and `Refusals` lists the layers in the order of the code: the first that fails
names the record. What the shared state decides (token, nonce, role, manifest,
label) is computed. Both denials of a scope and of a taint carry the event type
`scope_fail`, as in the code; the answers 400, 401 and 403 are `denied`. A
registration's record has the kind `register` here and the event type `invoke`
in `context.ts`. The clock and the restarts are those of `NieBindings`.

In `NieBindings` a token is remembered after `activeTokens` forgets it; nothing
that decides reads it then. Handles are random in the code, so a token is a
handle not used before. `deriveScopedCapability` is called by no route: it is
modelled as what embeds the bindings calls it, and the run `clients` drives it.

In `AttackSim` a request is one step. The runner executes its scenarios one
after the other; the other clients are admitted, register, derive capabilities,
replay and are revoked between any two of its requests. `Standing` is what the
answer to a request depends on (the token it names, its nonce, its session's
label, the registered manifests), and `Answered` the answer under it. So
`OwnVerdict` can say how a scenario ends with the broker to itself, from the
standing its own requests alone give it (`Alone`), and `SelfContained` that it
ends so whatever happened around it. Time passes at the places `Pauses` names,
within a scenario no longer than its token lives, and the broker restarts between
two scenarios at the places `Restarts` names: nothing is claimed of a scenario
whose broker dies under it.

In `PolicyRules` a classification is one of the four or any other value, since
nothing validates an envelope against the schema before the engine reads it; the
classification predicate fails for the others, because each of the four has a
mode. In `PolicyDecision`, `taintedBy` is the place of the registration in the
history instead of its correlation id.

In `FheRelease` a handle and a receipt are random UUIDs, so each is named by its
request. `Classification` is a constant because `FHE_COMPUTATIONS` holds one
computation, of regulated data. `MayOmit` lets the provider release without a
record, which the interface of a provider does not rule out and the route checks
for. A provider that never answers holds its request open: the route has no
deadlines, so nothing is claimed about its end. A restart ends every request in
flight and starts with no results and no receipts, which is the initial state
with a longer chain; it is left out. An append throws in three ways
(`NotRecorded`): before anything is on the chain, or after, when the last fsync is
what failed, and the log refuses from then on; or because a text the record quotes
does not encode, and only that append throws.

In `AuditPage` a page is one step, since `page()` is synchronous. A short write
that returns is `ProvidenceLog`'s subject and left out here.

## Runs

| Run | Question | Bounds | Result |
|---|---|---|---|
| `log_sole` | does the writer keep its promises alone, and can two processes make a later start accept a broken chain? | a directory with 1 broker, 4 lines, 2 bodies, any call may throw; a directory with 2 brokers, no throwing calls; 215,286 states | holds; refines `ProvidenceChain` |
| `log_short` | does the head advance only over whole records? | 1 writer, short writes | violated: the count of `writeSync` is not read (`log.ts:431`) |
| `anchors` | do anchors follow the chain from start to close, and do both end? | 3 records, 2 queued runs, 2 handlers, 2 polls, any restarts; 189,944 states | holds |
| `invoke_paths` | do answer, record, forwarding and the life of the session agree on every path? | 1 request, 14 invokes, 2 registrations, 2 cosigns, failing appends, revocation by session and device, expiry, restarts; 458,787 states | holds, and every invoke is answered |
| `invoke_shared` | nonces, labels and manifests across requests | 3 requests of one session, 2 nonces, trusted and untrusted declarations, a subject's revocation, failing appends, restarts; 2.4 million states under symmetry | holds |
| `invoke_unrecorded` | is an action that cannot be recorded denied? | as `invoke_paths` | violated: the forward comes first (`invoke.ts:240`) |
| `invoke_stamped` | is the transport's stamp only on records of operations it was called for? | as `invoke_paths` | violated: a deadline before the adapter stamps the denial (`invoke.ts:50`) |
| `fhe_answers` | does every answer name its own records, and does a refused release stay sealed? | 2 requests, the real window of 8, 8 foreign records, failing appends; 1.2 million states | holds |
| `policy_default` | do the engine, the labels and the adapter agree for every role, operation and intent? | 2 sessions, 4 elements, 2 registrations of up to 2 elements; 1,807 states | holds |
| `clients` | does each scenario end as it would alone, whatever other clients do, and do the bindings keep their promise? | all 29 scenarios, 3 handles of other clients who share a subject and a device, a lifetime of 2, a clock that moves before the last request of scenario 26 and a restart before it; 333,827 states | holds |
| `scenarios` | does every scenario that runs get the answers it wants? | as `clients` | violated: the adapter routes what 06 wants blocked (`engine.ts:129`) |
| `audit_follow` | does an auditor miss a record or an anchor? | 1 auditor, 4 lines of 2 lengths, 2 anchors, limits 1 and 2, restarts; 57,727 states | holds |

Why the bounds are enough. A chain of four lines has a record before, at and
after each crash point, and a restart over a non-empty chain; two bodies tell
two records of one position apart. Two writers are the case of an overlapping
redeploy (`AuditPage` and the pipeline are one process). Three records with two
queued runs let a record land while an anchor is signed and another while one
waits. Two requests are what a nonce needs; the loss of a label needs three: an
untrusted registration, a trusted one and an export. Sessions share only the
manifests' registry, a subject and a device, so one session shows the races
within it, and the proofs are about any number. A revocation needs one request
that arrives after it, so `invoke_paths` has every kind but the subject's, which
`invoke_shared` has. `Lifetime` 1 with `MaxClock` 2 lets a token expire under a
request; the clock of `invoke_shared` stands still, since expiry is one more way
for a token not to verify. In `anchors`, `MaxPolls` is the deadline of the wait:
two polls let the gateway answer at once, late or never. In `clients` the clock
moves before one request (`Pauses`) and the broker restarts before one scenario
(`Restarts`), both in scenario 26, the longest, whose token and label are read
after; the theorem behind it is about every choice of these places, and about
any number of other clients. A derivation or a revocation of theirs comes
between any two requests. The two directories of `log_sole` share nothing, so
that checking them side by side is checking each. For the FHE route the window
is the code's own, and 8 foreign records with the other request's are enough to
fill it and pass it; a result confused with another's needs two requests. Four
elements include two of one origin and every rank; two registrations of two
elements give every order and batch of three. Auditors only read, so one stands
for all. Deadlock checking is off where the finite set of requests,
registrations or lines runs out.

The violated runs are disagreements between the code and its own comments, each
quoted in `PROJECT.json` under `findings`: a short write acknowledges a record
that is not whole (the next start refuses), an operation can be forwarded
without a record, a denial by a deadline before the adapter is stamped as a
forwarded operation, and scenario 06 does not get the answer it wants. A run stops
at the first scenario that fails, and two more of the twenty scenarios that
`README.md:127` of the repository calls implemented do not get theirs: 22 sends no
operator token, so the answer is 401 without its code, and the content of 23
matches no pattern. `OwnVerdict` computes the same for all three, and it is proved
(`OwnVerdicts`) that every other one passes.

More disagreements are known and have no run, because each needs something
this deployment does not have, is a single line, or follows from one of the
above:

- The retry of an operation under dual control passes with any
  `x-xsoc-cosign-receipt` header (`invoke.ts:207-208`): its presence is read and
  no grant is looked up, where `cosign.ts:5-10` has the client retry "with the
  cosign receipt once granted" and `cosign.ts:28` speaks of a distinct principal.
- A partial anchor file, left by a failed write (`log.ts:292`), makes every page
  that covers it throw until someone removes it, where `audit.ts:25` serves a
  refusal with the page. `PagesAnswered` is about pages without such a file.
- `replaceHead` compares the head (`log.ts:356`) and renames over it (`log.ts:362`)
  in two steps, so with two processes on one directory the rename is not
  conditional as its comment says. The log never *accepts* the result
  (`log_sole`, `OpensOnlyChains`), and `SoleWriter` is a hypothesis of the other
  proofs.
- `findRecord` (`fhe.ts:231`) looks back 8 records: a release overtaken by eight
  records of other handlers is answered "without a mode_c_decryption record"
  though the chain holds one. `OvertakenOnly` shows that this is the only way.
  The in-process provider answers in microtasks and hardly leaves the time; a
  provider behind a network does.
- The adapter keeps strict-only operations from the `standard` profile
  (`adapter.ts:36`) and not from `relaxed`, where `openclaw-adapter/src/types.ts:33`
  says strict or scif only. No role of the default matrix is relaxed.
- `deriveScopedCapability` takes a subset equal to the parent's operations, where
  `mock.ts:115` says "strictly contained".

`context/register` fills the manifests' registry before the append that may
throw (`context.ts:55`), so an invoke can be forwarded under a manifest the chain
never names. `AllowedManifestsRecorded` shows how far this goes: the log refuses
from then on, so such an invoke is not answered 200.

An observation that is not a finding: `exportAnchor` captures the head before it
awaits the signer, so an auditor who has already paged past that head is never
served the anchor, unless it asks again from an earlier `seq`. `AnchorsComplete`
says that this is the only way to miss one.

Fairness. `AnchorScheduler`: the event loop runs what is due, the timer keeps
firing, a signer answers or fails, handlers finish, a poll of the gateway times
out and its deadline ends the start (`openclaw-gateway.ts`), and the close of the
gate settles; nothing is assumed about kills or appends. `InvokePipeline`: timers
fire (`withDeadline` sets one at every await) and the adapter's own refusal is
read; the bindings and the transport are not assumed to answer at all. The other
modules have no liveness property: nothing in their code makes them progress
without a caller.

## Proofs

`ProvidenceLogProofs` proves for all values of the constants:

- `TypeCorrect`: the type invariant, for any number of writers, short writes
  included;
- under `SoleWriter` (one process per directory, no silent short write: the
  deployment the durability comment of `log.ts` describes): `ChainStaysLinear`,
  `HeadAlwaysNamesDurable`, `AckedAlwaysSurvives`, `AcceptingAlwaysAgrees`,
  `AlwaysAppendOnly`, and `Refinement`, that the writer implements
  `ProvidenceChain`.

The hypothesis is needed: the run `log_short` drops its second half and loses
the promise, and two writers on one directory spoil the chain file, which a
later start notices (`PairOpensOnlyLinear` of `log_sole`, and `OpensOnlyChains`
below).

The argument. None of the properties is inductive: that the renamed head names
a durable record depends on what the process remembers and on the temporary file.
`IInv` adds `ProcInv`, the agreement of the process's memory with the disk at
each program counter (between the append and the rename the file is one record
ahead of the head; from `synced` on it is durable; from `tmpWritten` the
temporary file holds the next head), and `DiskInv`, which says every head a
power loss could bring back names a durable record and none is behind an
acknowledged one. `Init => IInv` and one lemma per action group give
`Invariance`; the properties follow from `IInv`. The refinement maps the chain
to the records under the head on disk: `RenameHead` is `Commit`, `FsyncDir` is
`Acknowledge`, `PowerLoss` is `LoseUnacknowledged`, the rest stutter.

It also proves `OpensOnlyChains`: with any number of processes on one directory, a
start accepts only a file that is one chain. Its hypothesis is
`WholeWrites`: a line is torn by a power loss only. With a call that throws or
stops short, the bytes it leaves run into the line of another process that is up,
and `openHead` parses only the last line (`log.ts:314`).

The argument. With two writers the lines of the file are a tree, not a chain, and
the head that is renamed may name any branch of it. What every write keeps is
`Rooted`: each line has the whole history its digest commits to among the lines
before it, in order, with room on both sides; and a head that a process appends
to names a line (`Names`), since it was checked against the last line or made by
an append of the process itself. `indexLines` accepts as many lines as the head
counts: then there is no room, and the k-th line is the k-th record of the history
(`FullIsLinear`).

`FheReleaseProofs` proves, for any number of requests, any window, any
classification, a provider that may omit its record and appends that may fail:

- `TypeCorrect`, `ResultsAreRecorded`, `RefusedIsSealed` and `OnlyOvertaken`, the
  four properties of the run `fhe_answers`.

The argument. That a released answer names records of its own request depends on
where the request is when the provider writes: `ReqInv` says what a request at
each await has on the chain (from `attesting` on its inference, and no answer
before `done`), `LogInv` what a record on the chain says of its request (a
decryption is of a request that was released, after its inference; a denial ends
its request, so no decryption follows it), and `HeadInv` that the head in memory
is the length of the chain until an append throws, after which nothing more is
recorded. One lemma for each way a step touches
the chain (`AnswerKeeps`, `InferredKeeps`, `GateRecordsKeeps`, `FoundKeeps`,
`UnreadKeeps`, `MoveKeeps`, `OtherKeeps`) shows that `IInv` is kept, and the
properties follow from it.

`AttackSimProofs` proves in its first part, for any handles, principals, scopes,
lifetime and clock, `BindingsTypeCorrect`, `ChildrenStayWithin`,
`RevokedAlwaysOut` and `BindingsRefinement`.

The argument. `ChildWithinParent` and `RevokedStayOut` speak of tokens that
verify, and a token that does not may become the parent of one that does, so
neither is inductive. `IInv` says the same of every entry of `activeTokens`,
expired or not: its parent is there too, with no fewer operations, no shorter a
life and the same principal, and nothing in it is revoked; and only sessions that
were issued are revoked. The refinement maps `live` to the sessions with a token
that verifies and `issued` to those ever minted: `Attest` is `Issue`,
`ConsumeNonce` is `Consume`, a revocation, the clock and a restart are `End`, and
`Derive` stutters.

Its second part proves, for any number of other clients, `TypeCorrect`,
`ScenariosSelfContained` (`SelfContained`), `ScenariosRecorded`
(`RecordedAsDeclared`), and `SimulatesBindings`: the broker of the simulation is
the bindings, so that `BrokerKept` carries the three properties above over to it.
`SimAssumption` is what a simulation needs of the constants: the built-in role
matrix, the roles the scenarios ask for, and that no other client's handle,
package or device is one of the simulator's, which are random in the code.

The argument. How a scenario ends is about its last request, and depends on what
its earlier ones left. `Apart` says that the handles of the requests to come are
known to nobody (`Fresh`) and that a token of the simulator names no one else, nor
one of the others' a session of the simulator; so every step of another client
leaves the simulator's sessions as they are (`Untouched`), a derivation included,
which extends a session of its parent's. `Reached` is what a scenario underway
has: a session just admitted, one whose nonce is spent, one that was revoked, one
that fetched, each with a token that has not expired. `InvokeAnswers` says which
layer refuses first under a standing, and one lemma for each kind of request
(`RefusedEarly`, `ViewerRefused`, `AdminAnswered`, `ExportAnswered`, ...) which
answer that is. They are used twice: for the standing a request has among all
clients, by one lemma for each shape of scenario (`SingleStep`, `FirstStep`,
`SecondStep`, `ReplayStep`, `RevokedStep`, `TaintStep`, `ExportStep`), and for the
one it has alone (`AloneIs`, `GetsIn` to `OwnVerdicts`). A registered manifest
is a SHA-256 digest (`context.ts:31`), so it is never the constant that scenario
09 or 24 names. No step of the argument reads `Pauses` or `Restarts`.

`AnchorSchedulerProofs` proves, for any bounds, `TypeCorrect`,
`AnchorsFollowChain` and `StopLeavesAnchor`.

The argument. `StopAnchorsHead` is about a process that has exited. `IInv` adds
`StopInv`, what holds while it is stopping: an anchor over the head that `stop()`
read exists, or is being signed, or a run of the queue is still to come; and
`MemoryInv`, that the head remembered as anchored has its anchor on the disk, so
a run that finds the head where it was has nothing to do.

`InvokePipelineProofs` proves, for any number of requests, sessions, nonces,
manifests and registrations, any faults, failing appends, late calls and
restarts, `TypeCorrect`, `NonceSingleUse`, `TaintHolds`, `AllowedRecorded`,
`AdmissionFirst`, `RevocationIsFinal` and `AnswersAreRecorded`. The hypotheses are
the types of the constants, and that a request is not named like a session or
what can be revoked (`PipelineAssumption`).

The argument. A nonce is consumed, a label raised or a session revoked at one
step and used at a later one, with a restart possible in between that forgets
all three; so what the invariant says must hold of sessions this process still
decides for. `InUse` are those: the live ones, and those of requests that read
their token before. `NonceInv` gives each nonce one holder (a request past the
check of its nonce, or that called the transport) and puts it in `seenNonces` while
its session is in use; `LabelInv` says that the label of a session in use covers
every registration the chain has of it; `LateInv` that a request that arrived
after a revocation never gets past its token; `ActInv` that what a request
recorded comes after its session's admission; `ManifestInv` that a registered
manifest is on the chain or the log refuses. `Effect` is what any step does to
the state these look at; a lemma for each action shows its `Effect` and one for
each part of `IInv` that an `Effect` keeps it, so that the seventeen actions and
the eight parts meet once.

`AnswersAreRecorded` (the property `AnswersMatchRecords`) has a second invariant
over `IInv`. `RecordInv` says that a request has no record before it is answered,
and that one at the adapter has called the transport unless the adapter refused
it; `AnswerInv` adds that an answered one agrees with its record: one record, an
allow only of what ran, the stamp on what the transport was called for. That the
stamp is on nothing else is not so (`invoke_stamped`). Every action
leaves a request alone (`ElsewhereAnswers`) or is one request's, and then it
appends that request's one record with the answer (`ReplyAnswers`), or answers
without one (`SilentAnswers`).

`AuditPageProofs` proves `TypeCorrect`, `AnchorsServed` (the property
`AnchorsComplete`), `RecordsServed` (`RecordsInOrder`) and `RangesServed`
(`PagesAnswered`), for lines of any length, any limits and any number of auditors.

The argument. An anchor belongs to one page, the page its head falls inside, if no
page ever ends ahead of a head that is still to be anchored. `LogInv` says that the
index in memory is not ahead of the file, `ReaderInv` that an auditor's next `seq`
is not ahead of either and that what it holds is behind it; `NoneMissed` and
`NoneTwice` then follow a page at a time. For the records, `IndexInv` says that an
open log has the start of each line under its head, which is a sum over the
lines before it (`Ends`), and their end. The sums are strictly increasing, because
a line has a byte at least (`EndsGrow`), and a further line leaves those before it
where they are (`EndsStay`), also when it is a part of one, written by an append
that threw. So what lies between two offsets is the records of the page and
nothing else (`RangeAgrees`).

`PolicyDecisionProofs` proves `TypeCorrect`, `LabelsAreBounds`
(`LabelIsLeastUpperBound`), `TaintReported` (`TaintAlwaysReported`) and
`NothingLoosens` (`NeverLoosens`) for any sessions, elements, batches and role
matrix, and `AllowedRouted` (`AllowedIsRouted`) for `DEFAULT_ROLE_MATRIX`; it
does not hold of every matrix a bundle may bring.

The argument. `JoinFacts` says that `Join` is an upper bound that is one of the
two classifications, and `LabelBounds`, by induction over the elements of a batch,
that the label after it is the least upper bound of the label before and all of
them. `IInv` says that of the history of each session, with the place of the first
registration that tainted it; the decisions' properties follow, since taint is the
one predicate that reads a label.

`Recursion` has what both of these rest on. The library states induction for an
operator, which no backend instantiates; `SetInduction` states it for a set, from
`NatLessThanWellFounded` and `WFMin`, and `FunctionByRecursion` gives a function
defined by recursion over `0..N` the equation it is defined by.

Only model-checked: liveness, since the backends have no rule for fairness or
`ENABLED`.

## Not modelled

The byte encoding, hashes and signatures, and what an envelope seals: a fault of
an envelope is given with the call, an envelope is tied to no session and no
caller asks for a counter (`minCounter`). Which patterns a text matches (MCP and
skill classifiers) is given with the request. The limit of 100 requests a
minute, configuration, health, session, version and preflight routes, which
change nothing a decision reads. The growth of the registries, which nothing
bounds. Mode B of the FHE gate. Redis and Docker files, the Rust crates, the
scripts and the demo client. A crash in the middle of an append is
`ProvidenceLog`'s: the other modules take an append as whole, or as thrown.
Restart in `InvokePipeline` loses the in-process bindings too; bindings that keep
sessions elsewhere would meet an empty label registry after a restart, and
nothing in this repository says what they do.

## Plan

1. Done: `ChainRecords`, `ProvidenceChain`, `ProvidenceLog` and its proofs;
   `AnchorScheduler` with the start and the close of the process, and its proofs;
   `NieBindings`, `BindingsPromise` and the refinement; `InvokePipeline` over them
   with cosign and every kind of revocation, and its proofs; `Labels`,
   `PolicyRules`, `PolicyDecision` and its proofs; `AttackSim` over the rules and
   the bindings, and its proofs; `FheRelease` and its proofs; `AuditPage` and its proofs.
2. Composition: the scheduler's log and the pages' log shown to implement
   `ProvidenceChain`; the pipeline's verdict by `PolicyRules` instead of the
   scope and the taint alone.
3. Proofs: the weakest hypothesis under which the promise of the log holds with
   two writers, in place of `SoleWriter`.
4. Faults: short writes with two writers on one directory (`log.ts:314` parses
   only the last line).
