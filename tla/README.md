# A TLA+ model of the vnpy-web-bridge Execution service and tick pipeline

The bridge trades futures through vn.py. Its order path is the *Execution
service*: one or more Linux processes that share a durable document, elect a
leader with a lease, and drive a Windows gateway that places the orders. A
child order placed twice, an order nobody remembers, or a replaced leader that
still trades are the errors the first part of this project is about. It models
that path, from the lease to the native order call. The second part is about the
*tick pipeline*: the worker that makes market data durable and the worker
that measures it from the same files, where the errors are a tick lost, stored
twice or acknowledged without being stored. The research and user interface
parts of the repository are left alone.

## 1. The system

| Part | State | Operations | Hard behaviour |
|---|---|---|---|
| Leader lease (`execution/fencing.py`) | durable lease: owner, epoch, fencing token, expiry, instance; per process the cached token, the last clock sample, the rollback latch | acquire, renew, release, strict and planned admission, remote floor | the clock is sampled before the lock is taken; the clock may step back; a renewal changes the credential a running dispatch holds |
| Durable repository (`execution/repository.py`) | the state file, each process's copy, version and hash chain | snapshot, mutate with or without an expected version, load | several writers, a replacement whose directory sync fails, host crashes, processes that miss writes |
| Execution document (writers in `execution/orchestrator.py`) | lifecycle, reconciliation, authority, plan, intents, unknown outcomes, last broker snapshot | bootstrap, persist intent, mark result or unknown, cancel marks, commands, reconcile | long mixes of transactions of different callers |
| Orchestrator (`execution/orchestrator.py`) | command lock, mutation lock, local halt | send, cancel, stop, revoke, drain, emergency stop, reconcile, query | lock order, state read before a gateway call and used after it, answers that never come |
| Final runtime (`execution/final_runtime.py`, `active_plan_resume.py`) | the dispatch in progress | start, repeated start, resume, finalization, runner failure | restart in the middle of a plan |
| Gateway client (`execution/gateway.py`) | one request at a time | install fence, register receipt, send or cancel, query, snapshot | timeouts with the request still on its way |
| HTTP service (`execution_orchestrator.py`) | – | leader routes, commands, resume | requests of an old leader |
| Windows admission (`scripts/windows_fence_foundation/final_admission_v1.py`) | durable high-water and receipts, active flag in memory | install, register, admit, query | requests of two leaders in any order, restarts |
| Windows fence store (`scripts/windows_fence_foundation/final_store_v1.py`) | state file, anchor ledger, what each process saw last | bootstrap, open, snapshot, mutate, allocate a generation | two files written one after the other, several processes, a failure between the two, files put back |
| Windows native binding (`scripts/windows_rpc_durable_fence_v1.py`) | map from intents to broker orders (memory), OMS facts | send, cancel, facts | a cancel that crosses a fill |
| Verified tick stream (`scripts/phase_b_workers/durable.py`) | tick journal, watermark, acknowledgement journal; the producer's index and poison latch | initialize, group append, acknowledge, lookups, follow | half-written groups, lines without a sync, a reader in another process |
| Market-data worker (`scripts/phase_b_workers/market_data_worker.py`) | sequence cursor file, source fence file, queue, group in hand, batch for the database | poll, group and single ingestion, fence prepare and finalize, flush, acknowledge, recover, replay | every write may fail with its outcome in doubt; handlers of failures that fail; kills between any two writes |
| Execution-quality worker (`scripts/phase_b_workers/execution_quality_worker.py`) | evidence log, checkpoint | recover, measure one tick | reads what the producer is writing |

The service calls the gateway synchronously. Processes interact through the
document and the gateway; the threads of a process through the document and its two locks.
`PROJECT.json` lists every component, the ones that are not modelled with the
reason, and the hazards with the line where each one bites.

## 2. The modules

```
Intents <- WindowsFence ----+
   ^                        +-> Execution <- MCExecution
   +---- ExecutionDocument -+
Intents, FenceStore <- FencedGateway - - implements - -> WindowsFence
LeaderFencer <- MCLeaderFencer          DurableRepository
TickStream <- MarketDataWorker <- TickPipeline
```

`XProofs` extends module `X` and TLAPS; `TickJournalProofs` extends
`TickPipelineProofs`, and `ExecutionProofs` the proofs of the two modules that
`Execution` composes.

* **LeaderFencer**: any number of processes, threads and owners. A call is two
  steps: the clock sample and the transaction. Tokens travel over the API, so
  a caller may present any token ever issued to any process.
* **DurableRepository**: a state is the sequence of writes that led to it,
  which is what the hash chain pins down. The file lock makes a read and a
  mutation one step; a mutation may be written, written without its
  directory sync, or not written.
* **Intents**: the identities of sends (deterministic per child) and of
  cancels (per target and epoch).
* **WindowsFence**: the requests as admission plus effect, and `WindowsSpec`,
  the gateway on its own with clients that send any request at any time.
* **FenceStore**: the two files of the Windows store. As in DurableRepository
  a state is the sequence of mutations that led to it. A mutation replaces the
  state file and then appends an anchor; it may stop after either write.
* **FencedGateway**: the admission on that store. High-water and receipts are
  functions of the state read back before each request; only the active fence is in
  memory. The refinement mapping takes them from `effective`, the newest
  state whose anchor was written.
* **ExecutionDocument**: each writer passed to `mutate` is an operator from a
  document to the next. `DocumentSpec` runs them in any order their own checks
  allow; it is the abstract specification of the service.
* **Execution**: the composition. A process has the threads `run` (dispatch of
  a started plan), `cmd` (inside the command lock) and `req` (resume or repeated
  start); `mut[p]` is the send or cancel in the mutation lock, `call[p][th]` the
  operation of a thread and its place, `net` the requests on their way.
  `Commands` and `Faults` select what a run explores: crash, timeout, storage
  (a failed write, before or after the replacement), conflict (a lost
  compare-and-swap), lease, renew, expiry, gateway (Windows restarts).
* **MCExecution**: besides `Spec` from an empty document, `WarmSpec` starts where
  the leader has just accepted a start.
* **TickStream**: the files of the stream and the operations on them, each with
  its failed form: a prefix of the lines, perhaps a torn one, none of it synced.
* **MarketDataWorker**: one thread with a program counter `pc`. A group of
  envelopes goes through `stage` (settle an old intent, reject, advance or
  prepare the fence), `append`, `mark`, `finalize`, and after a failure through
  `resolve` and `raised` (hand over, try one by one, put back); then `flush` and
  `ack`. A start is `down`, `fence`, `replay`.
* **TickPipeline**: adds the consumer, the crash of the host, fairness and the
  properties.

Operators whose comment starts with *Wrong* are mutated forms: they show
for each property a plausible error of the code that breaks it.

### Abstractions

* The read preflight and the compare-and-swap that persists an intent are one
  step: a swap that succeeds saw an unchanged document. A planned send repeats
  a lost swap twice; the fault `conflict` is the loss that is final.
* A token captured before a renewal is `stale`: the strict admission refuses
  it, the planned-dispatch admission does not. `Execution` has the lease
  in short (owner, epoch, unexpired); release and expiry are one event there.
* Epoch and fencing token are one number outside LeaderFencer, which proves
  that they order tokens alike (`TokensOrdered`).
* The queries of a reconcile are answered when it commits; its snapshot is
  taken when it begins. The snapshot a resume gets with its request is taken when the resume begins.
* A reconcile whose broker snapshot is disconnected, stale, of another gateway or
  account, or has a wrong hash (`orchestrator.py:2721`) fails as one that shows an
  order the document does not know: `SnapshotCloses` stands for all of them, and the
  halt is the same. So is the snapshot after the cancels of a control command;
  that it cannot be taken at all is a failure of `UseSnapshot`.
* `_mark_cancel_failure("all")` halts in memory only: `all` is no identifier,
  so the audit row is refused and the transaction fails.
* Control targets are taken in plan order. An authority's expiry is one event.
* `Execution` takes every process to follow the hash chain (see the
  observations below for the case where it cannot).
* The gateway of `WindowsFence` and `Execution` may write a fence, answer with an
  error and not have it active (`InstallDoubtful`): the refinement by FencedGateway
  showed that the store can do this. A receipt whose write is in doubt is a
  registered one with a lost answer.
* FenceStore: a torn anchor counts as a missing one, since both are refused. In
  FencedGateway files are put back once, under a gateway that is up to date;
  one that starts on old files has nothing to tell them by.
  The exchange is left out there, its steps being those of WindowsFence.
* Tick modules: a tick is its ingest sequence, the source event it came from and
  its content; hash chains are that entries are compared as wholes. Membership filters and
  caches answer as the exact lookup does. A replaced file whose directory sync failed
  is either the old or the new one. A host crash tears an unsynced line of the journal or
  of the evidence; of an acknowledgement the failed write itself (`AcknowledgeCut`)
  leaves out or tears what a crash would, as no process reads the file between the two.
  The limit of a turn (`market_data_worker.py:1609`) may cut any group short. The queue holds one batch; a stop by signal is a
  sequence of drain and flush steps followed by a kill. Left out: a change of
  the source's generation, the legacy pickle source, the JSONL writer, decoding,
  projections.
* Left out: hashes, payloads, timestamps, audit rows, command receipts apart
  from that of start, generations of snapshots, trading-day rollover,
  comparison of positions at start, schemas and authentication.

## 3. The runs

All passing runs check for deadlock except two: a Windows store whose anchor is
missing serves nobody, and a pipeline whose bounded source has ended and whose
workers are up to date, or refuse to start, has nothing to do.

| Run | Bounds | Shows |
|---|---|---|
| `fencer` | 2 processes, a clock step, failed syncs, restarts, remote floor | `OneInstancePerEpoch`, `TokensOrdered`, `OnlyNewestHonoured`; until the clock steps back `NoEarlyTakeover`, `ExpiryNeverShortened`, `PlannedSurvivesRenew` |
| `repository` | 2 processes, 4 writes | `AckedSurvives`, `MemoryIsPrefix`, `CasUnchanged` |
| `fence_store` | gateway and a peer on one store, 1 send, 2 epochs, 3 mutations, crashes, failed writes, one restore | `GenerationsUnique`, `AckedUnlessRolledBack`; FencedGateway implements `WindowsSpec` (`ImplementsFence`), and so its requests obey what is proved of it |
| `cold_start` | 1 process, 1 child, reconcile and repeated start, timeouts, failed writes, from nothing | the service implements `DocumentSpec`; `NoOrderAfterClose` |
| `faults` | 1 process that crashes anywhere, loses its lease, fails to write; gateway restarts; revoke and reconcile against the runner | `DurableOutcome`, `TerminalMeansGone`, `UnknownAccounted`, `NoOrderAfterClose` |
| `failover` | 2 processes, lease loss, crashes, failed writes, gateway restarts, resume | `AtMostOneOrder`, `DurableOutcome` |
| `children` | 2 children, stop and drain, renewals, timeouts, lost swaps, expiry | `AtMostOneOrder`, `TerminalMeansGone` |
| `live` | 1 process, timeouts, revoke, reconcile | `OperationsEnd`, `RevokeDisarms` |
| `tick_pipeline` | 3 source sequences, 2 contents, groups of 2, 3 faults (failed writes, kills of either worker, host crashes) | `TicksUnique`, `WatermarkBacked`, `AckedStored`, `FenceBacked`, `Tracked`, `BatchFits`, `NothingLost`, `EvidenceAnchored`; `AckedAgain`, `MeasuredAgain` |

Why the bounds are enough. Children interact only through the document and the
locks, so one child shows what can happen to an intent, two show the order
of children and targets. Two processes and two epochs give one takeover; more
takeovers repeat it, since a fence compares with the high-water only. Four writes let a process
miss two and write itself. The faults are split over runs so that each stays
small; each action and each disjunct happens in some run.
Three mutations of the Windows store are an install,
a receipt and one of a peer or a second install; a restore needs no more. In
the pipeline three sequences give a group of two and one behind it, and a redelivery
of a content under a new sequence; three faults are needed for a finalize, the
handler's resolve and the next group's settle to fail in turn. The invariants
were also checked once with four sequences (1.1 million states), and all properties
once with three contents (1.7 million states) and once with four faults;
these take too long to keep as runs. The safety properties of the pipeline are
proved for any number of sequences, contents and faults (section 4).

Fairness. In `live`, `Mutation(p)` and the step of each thread's operation
are weakly fair: `ZmqRpcTransport.call` has a timeout, the
file lock and the mutation lock are held for a bounded time. Nothing is assumed
of the gateway, the exchange, the operator or the lease. In `tick_pipeline` the
steps of the producer and those of the consumer are weakly fair, since their loops
go on; a flush is strongly fair, because a
pending batch is due after 50 ms and the loop then flushes before it
receives. That a worker which ended is started again (`Start` and `Follow` from
`down`) is an assumption about the operator, not a fact of the repository: no
compose file gives the workers a restart policy (two name one for other services,
`restart: "no"`), and the watchdog only alerts. `AckedAgain` and
`MeasuredAgain` say what a restart achieves, not that there is one.
Nothing is assumed of the arrival of ticks, and faults are bounded.

Scope of two properties. `NoOrderAfterClose` is a property of one process, and
`TerminalMeansGone` of runs without resume. A query without a receipt is answered REJECTED,
also while the request is on its way; the two-process form of that is the
finding `ClosedStaysClosed`. `RevokeDisarms` is checked without storage faults,
lost swaps and lease loss: if the last transaction of a revoke or of `emergency_stop` fails,
the command ends with an error and the authority as it was.

### Statements the code does not keep

Each of these runs checks a sentence of a document or comment and ends in a
counterexample; `PROJECT.json` quotes the sentence.

| Run | Property | What happens |
|---|---|---|
| `safe_restart_claim` | `SafeMeansQuiet` | a stop races an in-flight send, `safe_to_restart` is true with an active order |
| `terminal_state_claim` | `ClosedStaysClosed` | a standby closes an intent the leader is sending, the answer reopens it |
| `tick_rows_claim` | `RowsJournaled` | a failed journal append hands its ticks to the database as if they were durable, and drops their envelopes |

Observations of the same kind, met while modelling and not checked by a run of
their own.

*Execution.* A process whose copy misses two writes cannot read the state file
until it restarts (`repository.py:773`; `MemoryIsPrefix` holds all the same).
`emergency_stop` says "Cancel all active intents" but takes ACKNOWLEDGED ones
only, and a send is SUBMITTED. The gateway learns of a new lease with the successor's first install, so a
request the old leader had already sent still places its order until then
(`StaleLeaderFenced` says what does hold). After a restart the query loop of
resume alone can make the document RECONCILED and READY. A reconcile whose
snapshot meets a send between its order and its durable answer halts for a
missing send intent although the intent is PERSISTED.

*Windows store.* A failure between the state file and its anchor, or between
the two files of a bootstrap, leaves a store that no process opens again; no
acknowledged fence is lost by it.

*Tick pipeline.* The properties name these states instead of excluding the
faults that lead to them. They do not catch the named states, which the code does
reach; they say that there are no others: `Tracked` exempts `forgotten`,
`NothingLost` its two cases of `HandOver`, and `AckedAgain` exempts `Blocked` and `Refused`.

* `forgotten`: journaled ticks which only the replay of a restart writes. A group
  fails once, its envelopes then succeed one by one, and the handler raises without
  queueing their ticks (`market_data_worker.py:1651`, "batch failure must
  reproduce"). Or a group fails after its append, and so does the handler, while
  `_finalize_recovered_ticks` still holds the tick of an earlier retry (`:1425`):
  that tick is queued in place of the group's (`:1624`). The second way takes four
  faults, more than the run allows; the proof of `Tracked` did not go through
  without it.
* `Refused` (`:1245`): a kill between the prepared fence and the append of a
  group that holds a redelivered content next to a new one leaves a batch of which part is
  in the journal. Every later start refuses it as partial.
* The exceptions of `NothingLost` (`:1624`): `_finalize_recovered_ticks`, left by a
  retry of a single envelope, is found by the next group that fails, whose
  envelopes are then taken for done.
* `Blocked`: an envelope is put back after the fence moved past it, and stands at
  the head of the queue until a restart.
* `undone`: the consumer reads journal lines past the watermark before their sync, and
  takes evidence it finds for synced; a host crash can take back either.
* `failing`: a checkpoint that was replaced but whose directory sync failed leaves the
  consumer's cursor behind it, and every turn raises until a restart.

## 4. What is proved

TLAPS checks the following for every value of the constants. The assumptions
are the named `ASSUME`s of the modules (a lease lasts at least one clock unit,
`NoOwner` is no owner, bounds are natural numbers).

* **LeaderFencerProofs.** Of the properties, `OneInstancePerEpoch` and
  `OnlyNewestHonoured` are not inductive: a step that writes a lease whose
  caller sees an error issues no token, and the next acquire builds on that
  lease. The inductive invariant relates every issued token and every token in
  a call to the lease: its epoch and fence are at most the lease's, equal ones
  mean the same instance, the two orders agree. From it follow `EpochsUnique`,
  `TokensAgree` and `TokensFence`. `TakeoverOnlyWhenFree`,
  `RenewNeverShortens` and `CapturedCredentialSurvives` speak of the time before
  the clock first steps back: there the sampled time of every call is at most the clock, and
  every issued expiry is at most that of a live lease of the same instance
  (`ClockInv`: this holds while `steps`, the number of clock steps so far, is 0).
* **WindowsFenceProofs.** A receipt's epoch is at most the durable high-water
  and an order implies a receipt; so an admitted request, whose receipt equals
  the high-water, is at least as new as every receipt (`ReplacedLeaderFenced`).
* **ExecutionDocumentProofs.** Type correctness and `UnknownAccounted` are
  preserved by each writer; the proof has one step per transaction.
* **DurableRepositoryProofs.** Acknowledged writes lie in the synced prefix,
  every write in the file has a smaller number than the next, memory and
  what a caller saw are prefixes of the file. A prefix with the length of the
  file is the file, which makes the version test a compare-and-swap.
* **TickPipelineProofs.** `WatermarkBacked` and `AckedStored` are not inductive:
  a watermark is written from the index and an acknowledgement names ticks kept
  in memory, so the invariant `PipelineInv` says what these have to do with the
  files. While no write has failed, the index is the whole journal and, but for
  one step, the watermark is the index; the ticks in hand (`pending`,
  `recovered`, `prefix`) are in the journal under their number; a group that is
  handled as durable has no fresh envelope left; `committed` means that the
  batch is in the database. After a failed write the stream is poisoned, only
  bounds are known, and no acknowledgement is written until a restart loads the
  files again. That the new ticks of a group continue the numbering and cover its
  fresh envelopes (`StagedType`) rests on the ranks of a finite set of numbers
  (`RankType`, `RankInjective`, `RankOnto`).

* **TickJournalProofs.** On top of `PipelineInv` the parts of `JournalInv`, and
  `BatchInv`.
  *Unique journal*: sequences are reserved on disk before they are given
  out, so an envelope in hand and a journaled tick with the same sequence have the
  same content (`SourceInv`, `IdentityInv`); a fresh envelope is the first of its
  group with a content that is not journaled, so its event is new as well
  (`UniqueInv`). An append that is cut short leaves ticks that the index does not have,
  but it poisons the stream, and the load of a restart indexes them.
  *Fence*: both copies of the fence point at a content in the synced
  journal, and where they will move to is in the prepared batch (`FenceInv`).
  *Nothing forgotten*: a journaled tick without an acknowledgement is `Found`
  also in the middle of a turn, through the envelopes in hand or the ticks set aside
  (`TrackInv`). `NothingLost` follows because `Durable` and `DurableOne`
  run only after a group without fresh envelopes (`GroupInv`), and the ticks of a group
  have one for each envelope (`TickForEach`).
  *Evidence*: it equals the journal tick by tick until a host crash
  (`FollowInv`).
  *Batch size*: what is queued, the prefix and the envelopes in hand add up to at
  most `BatchMax`, a group has at most as many ticks as envelopes (`SizeOfTicks`,
  which rests on `UniqueInv`), and what an earlier retry left behind is one tick
  (`BatchInv`).
* **FencedGatewayProofs.** `ImplementsFence` needs to know which state a process
  may read. The state file is at most one replacement ahead of its ledger
  (`LineageInv`); a state that both files agree on is `effective`, the newest, or
  belongs to a history that an operator put back and that is still
  behind it (`NewestInv`); after a restore the gateway either refuses, since what it
  saw is no prefix of the file, or what it saw was written again (`BackInv`). So a
  request that passes the read is decided on the fence and receipts that the
  refinement mapping shows. Acknowledged states lie under a synced anchor (`AckedInv`), and
  a generation is counted in the state it was returned with (`HandedInv`). The
  assumption `None \notin Seq(Mutation)` says that a missing file is no state.
* **ExecutionProofs.** Every action is first brought to one of a few kinds of
  steps (`EveryStep`: a persist, a request passed on, an answer written, a
  transaction apart from the order path, ...), each of which is a transaction of
  `DocumentSpec` or a stutter and a step of `WindowsSpec` or a stutter. That gives both
  refinements, and with them `UnknownAccounted` and `StaleLeaderFenced` for the
  composition. `AtMostOneOrder` is not inductive. What `ExecInv` adds is that the right
  to place the order of a child is passed on and never copied: from the document
  without an intent to one holder of a mutation lock, to one request, to the order
  (`SendInv`); that what holds a lock is in the document (`LockInv`); and which
  operation runs on which thread (`ThreadInv`). `DurableOutcome` also needs that the
  intent of a request on its way is held (`DurableInv`), `TerminalMeansGone` that an
  answer that will be believed stands for an order (`TermInv`), `NoOrderAfterClose` that a
  request for the native call has a receipt (`CloseInv`). All hold for any number
  of processes, children and epochs and for every command and fault, with the
  two exceptions of the scope above as hypotheses: `TerminalOrdersGone` assumes no
  resume, because a resume writes the answer of a query it asked before its marks;
  `NothingPlacedAfterClose` assumes besides that there is one process, because the start
  of another one doubts a call in progress, which is the finding
  `ClosedStaysClosed`.

The theorems about `Execution` speak of `Spec`; the warm start is a state that `Spec`
reaches, and TLC found the inductive invariants to hold in the warm runs too.

Every safety property that a passing run checks is thus also proved. Only
model-checked: `OperationsEnd`, `RevokeDisarms`, `AckedAgain` and `MeasuredAgain`,
which are liveness (fairness and ENABLED are out of the prover's reach), and the three
violations.

## 5. Not modelled, and the plan

Not modelled: readiness probe, custody, the monitor worker, deployment drain,
the legacy SimNow path, manual trading, alerts, websocket, frontend, research.
`PROJECT.json` gives the reason for each. Most of the repository's lines are
research scripts, schemas, one-off audits and the legacy path: sequential code
over files and tables, whose errors are in numbers and formats that a model
would abstract away.

Built first were the lease, the gateway, the document and their composition,
because every statement about orders rests on them; then the repository and the
Windows store below them, and the tick pipeline. Next, in this order:

1. Command receipts and idempotency of `_process_envelope`; generations of
   snapshots; rollover; a stuck standby inside `Execution`.
2. The outbox of the monitor worker; custody of target plans
   (`phase_c/custody_service.py`); drain and consume log.
3. A refinement of the tick pipeline: an abstract stream that ticks enter once
   and leave once, stored and measured, which `TickPipeline` implements; and an abstract
   register that `DurableRepository` implements.
