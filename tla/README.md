# Vigil in TLA+: what is modelled, checked and proved

Vigil watches endpoints for insider data theft. An agent on each endpoint turns
file, USB and logon activity into events and streams them over an authenticated,
encrypted channel to a server; the server groups the events into hourly
behaviour windows, scores them, decides per window between DISMISS, ALERT and
BLOCK, keeps a table of threats, and learns from the verdicts analysts give on
the dashboard. This directory holds TLA+ modules for the parts of that path where
threads, processes, failures and retries meet, the TLC configurations that check
them, and TLAPS proofs about them. Paths below are relative to the repository;
`PROJECT.json` maps every definition to the lines it models.

Run a check with `tlc -config X.cfg M` and the proofs of a module with
`tlapm M.tla`; section 4 says which proof module is about which.

## 1. Inventory

### Agent (one process per endpoint)

| part | state | operations | hard behaviour | what makes it correct |
|---|---|---|---|---|
| Event buffer, `agent/buffer.py` | `_items`, `accepted`, `dropped`, under an RLock | add, extend, drain, requeue; trim | a failed batch returns to the head of a queue collectors filled meanwhile | the cap holds, drops are counted and oldest first, order is kept |
| Transport, `agent/transport.py` | the learned `server_ek`, the `SecureClient` (key, `_seq`), counters | enroll, handshake, send with one re-handshake on 409 | lost or late answers, server restart between any two requests | a failure costs a retry and no data; a send recovers when the fault is over |
| Main loop, `agent/main.py` | `_stop`, `_backoff`, active policy | run, `--once`, `--check`, flush_once, apply policy, shutdown | the signal comes at any point; collectors run until they are joined | nothing is given up, the final flush covers what was collected, the process ends |
| File collector, `agent/collectors/file_collector.py` | `_pending` under a lock; observer and flusher threads; watches | handle, flush_pending, watch, unwatch, stop | three threads report into the buffer, two after releasing the lock | no change is lost, ends discard what is older, nothing left at stop |
| Polling collectors, `base.py`, `usb_collector.py`, `logon_collector.py` | last snapshot, the copy they share, `_stop`, thread | start, poll, diff, stop | the world changes between constructor, first snapshot and polls; snapshots fail | reports alternate and agree with the shared copy |
| Removable-media sync, `agent/main.py:194` | watched roots | watch new drives, unwatch gone ones | drives move while it works; a watch fails | files on a plugged drive are watched |
| Keys and configuration, `agent/keygen.py`, `agent/config.py` | two key files, `enroll_token` | generate, load | a key file without its partner | the endpoint stays who it was |

### Server (one process, an event loop and a thread pool)

| part | state | operations | hard behaviour | what makes it correct |
|---|---|---|---|---|
| Session registry and agent routes, `server/session.py`, `server/api/agent_routes.py` | one session per agent in memory: key, `last_seq` | enroll, handshake, events | late and repeated requests, restart, the commit of the sequence number before the pipeline runs | an answer 200 means stored; a number is never accepted twice |
| Enrollment, `agent_routes.py:83`, `sqlite_store.py:157`, `server/keygen.py` | agents and tokens tables, key files | mint, consume, upsert agent, rotate | two commits; re-enrollment; shared ids and tokens; rotation | a token buys one registration; a connected endpoint stays admitted; no takeover |
| Pipeline, `server/pipeline/*.py`, `vigil/features.py` | behaviour windows in memory; RLock | process_batch, apply_feedback, update_policy | every storage call commits by itself; a window is judged again with every batch, under changing policies | one open threat per window, verdicts stand and are learned, windows agree with the store |
| Q-learner, `server/rl/qlearning.py` | the Q-table: 32 states by 3 actions | seed, decide, update, feedback, reset | two updates per verdict, reset without the pipeline lock | calibrated cold start, convergence, no escalation nobody asked for |
| Policy engine, `server/policy/engine.py` | the current policy and its row | mask, filter, adjust, enforce, update, reset, digest | rules, state and enforcement look at the window before or after masking | masked means silent; no action exceeds the cap |
| Storage, `server/db/sqlite_store.py` | SQLite tables | one write per table and purpose | one commit per call | as the pipeline's and the enrollment's |
| Live feed, `server/api/ws.py`, and dashboard, `frontend/src` | connected sockets; the page's threats | broadcast, connect; load, receive, reconnect | updates sent after the lock is released; missed and crossed messages; a socket nobody reads | a dashboard shows what the table says; everyone is answered |
| Model, `server/ml` | a fitted forest | score, train | none: numeric | out of scope but for the use of the score |

### How they interact

Collector threads call `EventBuffer.add`. The main thread drains a batch, seals
it (`vigil/pqc/channel.py`) and posts it to `/events`, waiting for the answer.
The handler checks session, sequence number and key, commits the number, then
runs the pipeline in a thread under one RLock, broadcasts the results to the
dashboards, and returns acknowledgement, directives and policy in the same
answer. Analysts' verdicts and policy changes arrive by REST and take the same
RLock, the policy routes on the event loop itself; `rl/reset` takes none.

The hazards this leads to, each with its line and the properties about it, are
the `hazards` of `PROJECT.json`.

## 2. Modules

```
EventBuffer  <--INSTANCE--  Delivery   (agent + channel + server)
     ^   ^----EXTENDS-----  AgentLoop  (main thread + collectors)
     |
EventBufferProofs  <--INSTANCE--  DeliveryProofs
         ^-----------EXTENDS----  AgentLoopProofs

Enrollment  <- EnrollmentProofs           Incidents <- IncidentsProofs, MCIncidents
Console     <- ConsoleProofs

FileCollector, Sensors  <-EXTENDS-  CollectorsProofs

Decisions  <-EXTENDS-  Judgement, QLearning  <-EXTENDS-  DecisionProofs
                       Judgement             <-EXTENDS-  MCJudgement
```

**EventBuffer**: the queue and the batch `flush_once` holds outside it. One
action per method (`Extend`, `Drain`, `Requeue`) because each runs under the
lock; `Settle` is what follows a successful send. An event is its number in the
order of acceptance, so order and loss can be told from the queue itself.
This module is the abstract specification of the agent's delivery.

**Delivery**: one agent and the server. Variables of the buffer, the client's
`key` and `seq`, the `call` it waits on, the set of `requests` on their way, the
server's `session`, batches recorded and waiting for the pipeline lock
(`opened`), the one inside it (`pipeline`), and the event `log`. The server's
handler is split where it awaits: `OpenBatch` (guards and `record_batch`),
`Ingest` (the events are committed), `Finish` (the answer). Faults are timeouts
of either request (lost request, late request or lost answer), a refused
handshake, a pipeline error before or after the commit, and a restart. A key is
the number of the handshake that made it: a batch opens under its own key only.
`UsesBufferCorrectly == Buffer!BufferSpec`, with the buffer's variables mapped to
themselves, says that Delivery implements EventBuffer.

**Enrollment**: two endpoints, which may be configured with the same agent_id,
and one server. `AdmitEnroll` spends the token and `Register` stores the agent,
two commits with a crash of the server in between. Tokens may be handed to
several endpoints, be spent, or be blank. Both sides' keys rotate file by file,
so a process may load a pair that does not belong together. `config` ranges over
`require_enroll_token`, `allow_reenroll`, the pinned fingerprint and who has
which agent_id. A session is `sound` when both sides derived one secret.

**AgentLoop**: the process in its modes run, `--once` and `--check`. `Connect`,
`TimerFires`, `Flush` with its two outcomes, `BeginShutdown`, `StopCollector` in
the order of the list, the final flush; collector threads emit at any time,
polling threads may outlive their join (`straggling`), the file collector holds
debounced writes (`held`). A send is one outcome here. `PolicyRaises` is what
`_apply_policy` does where a USB collector exists.

**FileCollector**: the debounce map between watchdog's observer thread, the
flusher and the thread that stops them. `HandleWrite`, `HandleEnd`/`ReportEnd`
(the report comes after the lock's release), `FlusherTakes`/`Report`, and the
steps of `stop`. Changes to the file system are numbered, and every entry knows
which it stands for. Watchdog and the file system are external.

**Sensors**: a polling thread (`FirstSnapshot`, `Poll`, then `Baseline`, `Same`
or `Diff`), of the USB or of the logon collector, beside a world in which drives
and sessions come and go, and the main thread that reads the known drives
(`SyncBegins`) and watches or unwatches them one by one. `known` is the copy the
collector shares with the file collector; the constructor fills it first.

**Decisions**: what the next two modules share: the actions, their order, the
volume buckets with their three thresholds, and `EnforceAction`, which replaces
the learner's choice by what the policy wants.

**Judgement**: one window over its whole life. A batch is enriched, stored and
counted (`Trigger`), the window as it then stands is flagged, masked,
discretized, decided and graded (the operator `Judgement`, stage by stage). The
model's score and the learner's choice are any of a set: what is said of a
judgement holds for every model and every Q-table. `RecordFails` is a storage
error after the count, `Restart` loses the window and reloads the policy.

**QLearning**: one of the 32 states, reached from a feature vector (`Windows`)
whose sizes are constants, in the runs on either side of the thresholds. `Decide`
records what `EnforceAction` makes of the learner's choice under any policy, so
verdicts also fall on actions the row does not prefer. Q-values as integers in units of 10^-8, which the
four-decimal prior and up to four updates of a cell with rate 0.3 fit exactly.
`apply_feedback` is split at its commits (`RewardTaken`, `ReadForEndorsed`,
`RewardEndorsed`) so that a crash or a reset can fall between them. One row
stands for all because the discount is 0.

**Incidents**: the pipeline's commits and the threat table: `StoreEvents`,
`CountEvents`, `Judge` per window (record or leave in the log), `FinishBatch`;
`Learn`, `ApplyStatus`, `LogFeedback`. `work` is the holder of the RLock. `Fail`
(a storage call raises) and `Restart` come between any two commits. The action a
window gets is any: Judgement says which.

**Console**: the handlers around the pipeline's lock (`Acquire`, `Commit`,
`Broadcast`, `Answer`), sockets that fill up, break or are noticed closed, and a
page that loads the table, receives messages and reconnects. The policy routes
block the event loop (`loop`). A card is a version and a status; `muddled` keeps
the cards the page cannot have right, so that the others can be asked for.

The definitions under "Altered forms" in each module are plausible mistakes that
`PROJECT.json` lists under `mutants`: with one put in place of the definition it
alters, TLC finds the named property violated. They are part of no specification.

## 3. Runs

| run | asks | bounds | result |
|---|---|---|---|
| `delivery` | nothing lost uncounted, an acknowledgement means stored, no batch reopened, implements EventBuffer, sends fail only on faults, all acknowledged in the end | cap 2, batch 2, 3 events, 6 handshakes, 10 sealed batches, 3 faults | holds (311 000 states), under fairness |
| `delivery_lost_handshake` | the part of it that excepts lost handshake answers, without the exception | 2 events, 2 faults | **violated** |
| `enrollment` | tokens pay for registrations, no lock-out, no takeover, delivery recovers | 2 endpoints, 2 ids, 1 token, 1 rotation, 1 fault | holds (942 000 states), under fairness |
| `agent_loop` | final flush, the buffer's accounts and order, exit | cap 2, batch 2, 5 events, back-off 2 up to 5 | holds (56 000 states), under fairness |
| `agent_loop_policy` | the agent runs until interrupted | cap 3, 4 events | **violated** |
| `file_collector` | no change lost, pending writes live, stop complete | 3 paths, one excluded, interval 2 ticks, 4 changes | holds (369 000 states) |
| `sensors` | reports add up, shared copy agrees, watches follow drives | 2 roots, one configured, 2 sessions, 4 changes, 2 errors | holds (268 000 states), under fairness |
| `judgement` | window equals aggregate, reasons accumulate, masked is silent, within policy | batches of up to 2 of 7 events, 2 batches, 4 policies, 1 change, 1 fault, hours 20 and 21 | holds (1.0 million states) |
| `learning` | calibration, convergence, rejections do not escalate, confirmations do not relax | all states, rate 0.3, 4 verdicts, 1 reset, 1 crash | holds (11.0 million states) |
| `learning_dismissal_escalates` | escalation was asked for | 2 verdicts | **violated** |
| `incidents` | one open threat per window, verdicts, lessons, log, evidence | 2 windows, 3 batches, 2 verdicts, 2 faults | holds (6.1 million states) |
| `console` | cards right, never wrongly closed, everyone answered | 2 threats, 1 dashboard, 2 sockets, 2 requests, 1 load, 1 message before a send waits | holds (273 000 states), under fairness |

Why the bounds suffice. The buffer overflows while a batch is out and again when
it returns: the cap equals the batch size and more events follow. In Delivery,
three faults include a batch delayed over a restart and a new session, and a
re-sent one beside its late copy; keys and seals are enough that faults run out
before they do, so the liveness is not an artefact of a bound. In Enrollment one
token can be in two configurations, a crash can strike between the two commits,
and one rotation can fall on either side, before or after any step. The back-off
meets its doubling and its cap. Two paths are needed for a move, a third for an
excluded one; two ticks separate first and last write. Four changes let a drive
be swapped, come back, or come before the first snapshot. In Judgement two
batches of two events lie on either side of every edge of the rules, which are
scaled down (volume above 1 and 2, more than 1 file, more than 1 delete), the
three scores are flagged under every, all but the low, and only the high
sensitivity, and one change of policy falls between two judgements; each policy differs from the default in
several settings. Four verdicts are what convergence from the strongest prior
takes; a crash gives its verdict back to the bound, so that it can be asked
again. Two windows let a batch be half judged when it fails, two verdicts let one
threat be decided twice or a window be reopened between; the two windows are
interchangeable, which the run's symmetry uses. In Console two requests are what
it takes to overtake one another, two sockets what a reconnection needs.

Deadlock checking is off in all runs: each stops when a counter reaches its bound
or the process has exited.

**Fairness.** `delivery` assumes weak fairness of the agent's steps and of the
server's: the loop wakes on a timer, every request has a timeout, uvicorn takes
up each request and the thread pool each batch. `enrollment` assumes that the
server handles what arrives and that a running agent's flush timer goes off.
`agent_loop` assumes it of the main thread only, whose waits are all timed
(`_stop.wait`, `request_timeout_s`, `join(timeout)`). `sensors` assumes it of
the polling thread and of the main thread, both on timers. `console` assumes that
workers and event loop go on and that the web server closes a socket that
answers no ping; a page need not read. Collectors, faults, analysts, administrators
and signals are never assumed to act.

### What the violated runs show

* **A lost handshake answer cuts the agent off.** After a server restart a batch
  is answered 409 and the agent re-handshakes. If that answer is late, the server
  has the new key and the agent the old one. Every later batch is answered 400
  "batch could not be decrypted", and only a 409 starts a re-handshake.
* **A dismissal can escalate.** In after-hours + USB + anomaly with no data moved,
  one Dismiss on an ALERT lowers ALERT below the untouched BLOCK value. Only
  rejecting an alert where the policy alerts can do so, unless a reset falls into
  the feedback (`OnlyRejectedAlertsEscalate`).
* **A policy ends the agent.** `_apply_policy` reads `self.usb.running`, which no
  collector defines; where the USB collector is configured and available the
  AttributeError leaves `run`.

### What the models show besides

These are behaviours of the code that the properties except by name, each at the
condition of the property that excepts it.

* Rotating the server's keys strands running agents: they keep the KEM key they
  enrolled with, a re-handshake succeeds on both sides with different secrets,
  and every batch is refused (`DeliveryRecovers`, condition `SameSecret`).
* With `allow_reenroll` an agent needs an unspent token at every start, because
  the known key is not compared any more (`OnceAdmittedNeverRefused`).
* A crash between the two commits of an enrollment spends its token
  (`TokensPayForKeys`, `cut`).
* A delete handled between the flusher's taking a write and reporting it is
  reported before the create; so is a move onto an excluded path, which leaves
  the source's pending write alone (`PendingIsLive` speaks of the map only).
* A path is released one interval after its first write, so a long burst becomes
  several events, each with its own writes (`EveryChangeAccounted`).
* A drive plugged in between the USB collector's constructor and its thread's
  first snapshot is neither reported nor known until something else changes
  (`KnownIsLive`); a volume swapped on its root between two polls keeps a watch
  on the old one (`WatchesFollowDrives`).
* A threat message sent before a verdict may arrive after the feedback message;
  a load and a message may cross; messages missed while reconnecting stay
  missed. In all three cases a closed card is right (`ClosedCardsAreRight`), an
  open one may not be (`CardsTellTruth`, `muddled`).
* The answer to an agent waits for the slowest dashboard until its socket is
  closed, although `server/api/ws.py:3-4` wants a slow socket never to block
  ingest (`AnsweredInTheEnd` says that it ends).
* The untrained policy blocks windows in which no bytes moved, against the comment
  at `server/rl/qlearning.py:119-121`, which calls that disproportionate:
  `volume_bucket` promotes more than 100 files by one bucket, also from 0 bytes.
  101 deletes, which are reported with size 0, after hours with USB and an anomaly
  have risk 1.15, above the 1.08 for BLOCK. The test that "it needs data movement"
  (`tests/test_rl.py:414-416`) asks for the bucket only. `ColdStart` therefore
  says "bytes or a burst of files"; the burst is its exception.
* A reset of the learner is overwritten by a feedback in progress.
* Under the USB policy "blocked" BLOCK is recorded in states that do not prefer
  it, and its verdicts are learned from, although `server/rl/qlearning.py:389-390`
  says that BLOCK "is only ever tried in a state that already prefers it"
  (`Decide`, `Enforced`).
* A batch sent again after a late failure is stored and counted twice, in the
  store and in the window alike (`WindowIsAggregate`).
* A window with USB activity under the policy "blocked" gets what the cap allows
  at most; a cap that is no action lifts it (`WithinPolicy`, "OTHER").
* A window with only a disconnect has the USB bit in its state and no reason that
  says so; the model is shown USB counts the policy declares harmless; an open
  record keeps its severity when its window turns quiet, as nothing is recorded.
* `file_volume_threshold_mb`, `burst_file_count` and `mass_delete_threshold` of
  the policy are read by no rule, which use constants; hour 20 is not after hours
  although the comment at `vigil/features.py:49` says "after 20:00"; the
  comments on the sensitivities at `server/policy/engine.py:43-46` give factors
  that `adjust_anomaly_decision` does not use.

## 4. Proofs

A proof module is about the module it is named after; CollectorsProofs is about
FileCollector and Sensors, DecisionProofs about Judgement and QLearning. Results
are proved for every value of the constants, under the one named assumption of
the module that declares them:
`BufferAssumption`, `DeliveryAssumption` (cap and batch size at least 1, bounds
natural numbers), `LoopAssumption` (back-off times at least 1),
`EnrollmentAssumption` (finitely many endpoints; `None`, which stands for "no
endpoint" and "no agent_id", is neither), `CollectorAssumption` (finitely many
paths; the debounce interval above 0), `SensorsAssumption`,
`IncidentsAssumption`, `ConsoleAssumption` (finite sets, bounds natural
numbers), `BucketAssumption` (thresholds are natural numbers, the low one not
above the medium one), `JudgementAssumption` (sizes are natural numbers, scores
integers, policies have the settings the code knows), `LearningAssumption` (a
learning rate of 0.1 to 1 in tenths, byte and file counts natural numbers). One theorem has a hypothesis of its own:
`VerdictsConverge` takes a rate of at least 0.3, the default and the least in
tenths for which four verdicts are enough. Nothing is assumed about the size of
any set. The counters that bound the runs are constants as well, so the theorems
hold for any number of events, batches, faults, verdicts and changes. All
theorems are listed in `PROJECT.json`; here is the argument of each module.

**EventBuffer.** `InOrder` is not inductive: an event appended by `Extend` must
be newer than all earlier ones, which nothing in it says. `IInv` adds that every
event anywhere carries a number in `1 .. accepted` (`Stamped`) and that each of
the sequences lies below the ones after it (`Ordered`). `DropsAreLosses`, that the
drop counter is the number of accepted events that are nowhere any more, adds
that what is held is numbered from 1 (`Numbered`).

**Delivery** implements EventBuffer (`DeliveryUsesBuffer`): each step is a buffer
step or a stutter, so the buffer's theorems are used of the agent
(`DeliveryBufferHolds`). `AcknowledgedIsStored` needs that an answer 200 belongs
to the batch in flight and that this batch has been through the pipeline
(`Answered`). `LiveBatchIsFresh` and `LateCopiesRefused` are about numbers: the
invariant `Protocol` says which keys requests, batches and handshakes under way
may carry (`Keys`) and how far the server's sequence number can be (`Numbers`);
`FreshOnly` keeps a settled batch's copies closed. `SendsRecover` adds who is to
blame for a failed send (`Blame`) and that, unless a handshake's answer was
lost, client and server agree on the session (`Agreement`).

**AgentLoop** implements EventBuffer too (`LoopUsesBuffer`, `LoopBuffers`). That
nothing noticed is left over needs to know in which phase which collector may run
(`Phases`); that the final flush covers the buffer, to follow its batch from the
drain to the answer (`FinalBatch`).

**Enrollment.** `TokensPay`: `Books` says what the enrollment between its two
commits still owes. `AdmittedStaysWelcome` and `SessionsAreTheHolders` need
`Trust`: without `allow_reenroll` the enrollment being handled cannot displace a
registered key, and whoever shakes hands is still registered, through rotations
of the key files and crashes. It rests on `Waits`: the server handles one
enrollment at a time, and an endpoint that waits for an answer is the one handled.

**FileCollector.** `NoChangeLost` follows each change through eight places, from
the queue to the report or to the delete or move that discards it; how each place
changes in each step is a lemma. `PendingLives` is not inductive: `InSequence`
adds that what is still queued is newer than everything handled. `NothingLeft`
is inductive with the types and shapes.

**Sensors.** `ReportsAdded` and `SharedCopyIsReported` need `Silent`: the first
snapshot may be taken late, after failed ones, and until then nothing has been
reported. `Alternating` (reports about a drive or session alternate) follows.

**Incidents.** `OneOpen` is inductive with the types, and it is what makes the
record an update hits the only open one: the others lean on it. `NoLessonLost`
needs `LessonFirst`, `EvidenceBacked` needs `CountsOnRecord`, and `LogTellsAll`,
which speaks of the moments the lock is free, needs `Audited`, which says how far
the log lags behind at the others. `VerdictsStand` is an action property.

**Judgement.** `WindowsAreAggregates` compares a running value with a sum over
the whole history, for batches of any length. What the loop over a batch computes
is an induction over the batch: `Induction` obtains it from the library's theorem
that the order of the naturals is well-founded, `FoldSteps` follows the fold of
the community modules element by element, and `TriggerAdds` says of a whole batch
what each of its rows adds to each counter. The aggregate is stated with
cardinalities, the bytes as a set of pairs, so the finite-set theorems count it.
The other three speak of the last judgement, which alone is not inductive:
`Grounded` says that it was given for some window no larger than the present one,
and the rest are lemmas about the operators: masking keeps what it does not mask
(`SeenTyped`), more counted means no reason fewer and no smaller bucket
(`RulesGrow`, `BucketGrows`), the USB rule cannot beat the cap (`EnforcedRank`).

**QLearning.** An update ends between the old value and the reward
(`TowardBetween`), so values stay in the range of the rewards (`ValuesSaturate`).
`ColdStartIsCalibrated` needs that a row without visits is the prior's (`Cold`)
and which of the prior's three ramps is highest at a risk (`Worths`).
`ConfirmationNeverRelaxes`: the first of the two updates of a confirmation may
push an alert below a dismissal; `Confirming` says that the second will win it
back, whatever the learning rate. This needs `Modest`, that an alert is never
worth more than one half: its prior is below, and so is each reward for it.
`RejectionRarelyEscalates` likewise: `Rejecting` says, between the two updates of
a rejection, that the row as the reward for DISMISS will make it is no more
disruptive than the row the rejection found. Rejecting a BLOCK can only lower
BLOCK, and rejecting an alert lowers what was on top only where the row alerted,
the case the property excepts.
`VerdictsConverge` counts verdicts against floors (`Converging`): after n verdicts
of one kind the endorsed value is at least the n-th floor, in the row as it stands
and in the copy an update in progress will write, and the fourth floor lies above
everything the other actions can reach. A crash in the middle leaves the count
where it was, a reset takes it back to 0 together with the row.

**Console.** `CardsAreTrue` speaks of a page that has read everything. Its
inductive form speaks of every state and says what reading on would make of a
card (`Truth`): it relates the card, the messages of its threat still in the
page's socket, and what the handlers have yet to send. Threats with an overtaken
message still to be sent are left alone, as the page cannot yet know of them, and
a page waiting for a load stands for a second card, the one the load brings.
`ClosedCardsRight` needs that every message and load on its way that closes a
card is backed by the table (`Closed`, `NewsIsTrue`). `Shape` holds the types
and which request holds the lock and the event loop.

What stays with TLC:

* Liveness, and what depends on ENABLED: `EventuallyAcknowledged`,
  `DeliveryRecovers`, `StopLeadsToExit`, `WatchesFollowDrives`,
  `AnsweredInTheEnd`. The prover does not do fairness.
* The violated properties, of course.

## 5. What is abstracted, and what is left out

* Cryptography is its contract: what verifies, opens or agrees under which key.
* A storage error strikes between commits; a commit is never half done (SQLite).
* The model's raw score is any of a set; training (`server/ml/train.py`) is
  numeric library code.
* A batch is one step of Judgement, because process_batch and the policy updates
  hold one RLock; Incidents opens it up commit by commit. Events of several
  windows in one batch are independent of each other but for that.
* `persist_events` is on, which is the default: with it off there is no store to
  compare a window with.
* FileCollector: joins do not time out, the debounce interval is above 0, drives
  are not watched or unwatched while it runs (Sensors has that), and it is not
  restarted, which the agent never does.
* A final flush sends one batch; the rest of the buffer ends with the process, as
  the code logs. `FinalFlushCovers` is therefore stated for a batch that was not full.
* `ConfirmNeverRelaxes` speaks of feedback no reset interrupts.
* Console leaves out the messages and polls that touch no card, and the page's
  own update after a verdict's answer, which says what the feedback message says.
* Not modelled: what the agent does with a directive (a line in a file, a notice
  on the screen; no state depends on it), lists, reports and statistics (reads),
  the front end's views, model training, tools and scripts (data generation and
  demo clients), the legacy prototype (imported by nothing).

## 6. Plan

Done: the ten modules and their runs, and proofs of every safety invariant and
action property that a passing run checks. Left, should the code around them grow:

* the parts listed in section 5 as not modelled, training first among them if the
  windows it reads ever come from more than one store;
* Judgement with several windows in a batch, if a window's verdict comes to depend
  on another's;
* what a directive does on the agent, once it changes any state there.
