# TLA+ models of the eventing-kafka consumer group manager

This directory holds TLA+ models of `src/pkg/common/consumer/consumer_manager.go`
(the `KafkaConsumerGroupManager` and the consumer-group factory), the TLC
configurations that check them, and
`PROJECT.json`, which maps every model definition to the source lines it
translates. The runs tables cite the findings of `PROJECT.json` by their
position in its list.

## The system

| Part | Code | What it does |
|------|------|--------------|
| Group Manager | `kafkaConsumerGroupManagerImpl` (lines 56-350) | The public facade: `StartConsumerGroup`, `CloseConsumerGroup`, `Errors`, `IsManaged`, `Reconfigure`. It also runs `stopConsumerGroup` and `startConsumerGroup`, both guarded by command locks (`lockBefore`, `unlockAfter`). |
| Control dispatcher | `NewConsumerGroupManager` handlers (94-109), `processAsyncGroupNotification` (335-350) | Turns asynchronous control-protocol stop and start commands into `stopConsumerGroup` and `startConsumerGroup` calls. Checks the command version. Replies with `NotifyFailed` or `NotifySuccess`. |
| Group registry | `groups` map, `getGroup`, `setGroup`, `removeGroup` (293-312) | Maps a group id to its managed group. Each access is made under the `groupLock` RWMutex, except the `range` in `Reconfigure` (line 121). |
| Managed group | `managedGroup`; the code is not in this excerpt | Holds a group's state (running, stopped or closed), its current Sarama session, and its command lock: a token, acquired with a timeout of `defaultLockTimeout`. |
| Consumer factory (module `ConsumerFactory`) | `kafkaConsumerGroupFactoryImpl`, `customConsumerGroup`, `mergeErrorChannels` (line 352 to the end) | Creates Sarama consumer groups from the current (brokers, config) pair. Runs the consume goroutine, which owns an `errorCh` of capacity 10 and an unbuffered `releasedCh`. |
| Config helpers (not modelled) | `src/unnamed/part_000`, lines 81-209 | Pure functions that read auth settings from a secret, plus partition and replication defaults. |

These parts interact as follows:
- **Concurrent callers.** Three kinds of goroutine call the manager at the same time: control-protocol controllers (one per lock token), whoever calls `Reconfigure`, and the reconciler that starts and closes groups.
- **What they share.** They share the groups map, the `factory` pointer (read without synchronisation at lines 152 and 276) and each managed group's lock.
- **How Reconfigure works.** It stops every registered group under `internalToken` and swaps the factory. It then restarts the groups it stopped, and unlocks each one after the restart.

## Module `ConsumerGroupManager`

Each goroutine is a process with a program counter `pc`. A process that is inside `stopConsumerGroup` or `startConsumerGroup` also has a call `frame`. Every call that touches shared state is one atomic step. So two operations interleave at exactly the points where the Go code can be preempted between calls.

| Variable | Code |
|----------|------|
| `groups` | `m.groups`: group id to managed-group instance (0 = nil). It is read through `getGroup` and written through `setGroup` and `removeGroup` (lines 294-312), each one step under `groupLock`. |
| `managed` | the managed-group objects: state, session (the config it was created with), `lockedBy` token, id |
| `factory` | `m.factory` (its configuration) |
| `failures` | count of failing `newConsumerGroup` calls |
| `frame` | locals of `stopConsumerGroup` / `startConsumerGroup`: lock, group, instance, created session |
| `paused`, `pauses` | the controller's own bookkeeping of the group it paused |
| `rc` | locals of `Reconfigure`: new config, `range` progress, `groupsToRestart` |
| `user` | locals of `StartConsumerGroup` / `CloseConsumerGroup` |

The actions and the code they model:

| Action | Code |
|--------|------|
| `LockBefore` | `lockBefore` and the lock wait of `processLock`. It has four disjuncts: skip (the group is absent, or `LockBefore` is false), acquire, busy (wait), and timeout. |
| `GetGroup` | the second `getGroup` in stop and start (lines 240 and 270) |
| `StopGroup` | `managedGrp.stop()`, including its error path |
| `CreateGroup` | `m.factory.createConsumerGroup` in start, including its error return at line 279 |
| `StartGroup` | `managedGrp.start(group)`, whose result is ignored |
| `UnlockAfter` | `unlockAfter`, with the same four disjuncts as `LockBefore` |
| `ProcessAsyncGroupNotification` | the version check and the call |
| `Notify` | `NotifyFailed` or `NotifySuccess` |
| `ReconfigureBegin`, `ReconfigureStopNext`, `ReconfigureStopped`, `ReconfigureSwap`, `ReconfigureStartNext` | the phases of `Reconfigure` |
| `StartConsumerGroup`, `UserCreate`, `UserRegister` | the steps of `StartConsumerGroup`. `UserRegister` is the consume closure, `startExistingConsumerGroup`, `createManagedGroup` and `setGroup` (lines 158-175). The goroutine that `startExistingConsumerGroup` starts is not modelled (see below). |
| `CloseConsumerGroup`, `UserClose`, `UserRemove` | the steps of `CloseConsumerGroup` |

Some parts of the code need more than a one-line mapping:
- **The `range` over the map in Reconfigure.** It follows Go's semantics for a map that changes during iteration:
  - a key removed before it is reached is not produced;
  - a key added during the range may or may not be produced.
- **Waiting for a lock.** The wait is a stutter step, so a process blocked on a lock is not a deadlock. Each wait either ends by acquiring the lock or, when `LockTimeouts` is TRUE, by the `defaultLockTimeout` error.
- **Controllers.** Each controller pauses a group and later resumes it. Which lock flags it sends depends on `LockProtocol`:
  - `"hold"`: a pause locks the group, and the resume unlocks it;
  - `"release"`: every command both locks and unlocks.
- **Which groups a controller may pause.** `PauseUnmanaged` says whether a controller may pause an id that is not registered yet.

`managedGroup` and `processLock` are not in the source tree. `ManagedStop`, `ManagedStart`, `ManagedClose`, `LockAvailable`, `LockWanted`, `LockTaken` and `LockBusy` are therefore modelled from spec.md §4.2 and marked `spec_modelled` in the map.

The definitions whose names end in `Stale`, `RemovedFirst`, `All`, `NoUnlock`, `Unbounded`, `Ignored` or `NoWait` (in both modules) are mutants. Each is a plausible bug in the operator it shadows. Every property of a passing run is broken by one of them, as listed in `PROJECT.json`.

### Properties

- `ReconfiguredGroupsOnNewConfig` (spec.md, consistency invariant 4): when `Reconfigure` has returned, every group it stopped and that is registered and running has a session on the new configuration.
- `NoStrandedInternalLock`: when `Reconfigure` has returned, no managed group is still locked by `internalToken`. The comment at lines 124-126 relies on this: whoever locked a group restarts it.
- `ForeignLockRespected` (an action property): a stop or start never changes a group whose lock is held by a token other than the caller's own.
- `StartOnlyStopped`: the session leak at line 283. Whenever `startConsumerGroup` is about to call `managedGrp.start` with a session it has just created, the group is Stopped. Otherwise `start` is a no-op whose result is ignored, and the session is never closed.
- `LiveGroupsRegistered` (spec.md §3): every Running or Stopped managed group is the one registered under its id, so the manager can still stop, start and close it.

### Runs

| Run | Config | Expect | What it shows |
|-----|--------|--------|---------------|
| hold | `MC_hold.cfg` | pass | Setup: two groups, one controller using the `"hold"` protocol that pauses only managed groups, and two `Reconfigure` calls over two configurations. Result: Reconfigure moves the groups it stopped onto the new configuration, releases its internal lock, never starts a group that is no longer Stopped, and never stops or starts a group another token has locked. About 193,000 states. |
| churn | `MC_churn.cfg` | pass | Setup: one group that is closed and re-added, a factory failure, commands with a wrong version, the `"release"` protocol, and `Reconfigure` racing the controller. Result: every live group stays registered under its id. About 445,000 states. |
| session_leak | `MC_session_leak.cfg` | violation | `CloseConsumerGroup` has closed a group but not yet removed it. A resume command finds it, creates a session, and gives it to a no-op `start` (finding 7). |
| overwrite | `MC_overwrite.cfg` | violation | With `StartManaged`, the caller starts an id that is already managed. `setGroup` overwrites the entry, and the running group is orphaned (finding 8). |
| lock_skip | `MC_lock_skip.cfg` | violation | A stop for an id that is not yet registered skips `lockBefore`. Then `StartConsumerGroup` registers the group, and the stop acts on it while `internalToken` holds its lock (finding 1). |
| stop_strands | `MC_stop_strands.cfg` | violation | A controller using `"release"` pauses a group. Reconfigure then locks the group, its stop fails because the group is not running, and it never unlocks the group (finding 2). |
| restart_strands | `MC_restart_strands.cfg` | violation | The factory fails during Reconfigure's restart. `startConsumerGroup` returns before `unlockAfter`, and the internal lock stays on the group (finding 3). |
| stale_config | `MC_stale_config.cfg` | violation | A group is closed and re-added during Reconfigure, created from the old factory pointer. After Reconfigure returns, it is still running on the old configuration (finding 4). |
| token_collision | `MC_token_collision.cfg` | violation | A second controller sends the string `internal-token` (line 52) as its lock token. Reconfigure takes `g1`'s lock with `lockBefore`. The colliding controller then pauses and resumes `g1`, and its `unlockAfter` clears Reconfigure's lock. Controller `t1` locks `g1`, and Reconfigure's pending stop stops it under `t1`'s lock (finding 9, 26 steps). |

### Bounds

The bounds are chosen so that each hazard can occur:
- **Two groups.** One group can be locked by the controller while Reconfigure handles the other, or both at once.
- **One controller token, plus the internal token.** That is enough for a lock conflict. `Internal` may also be one of `Tokens`: spec.md §4.2 asks for a reserved internal token, but the code's `internalToken` is a plain string any client can send. The token_collision run adds such a controller beside `t1`. With `Internal` as the only controller token, the hold and churn properties other than `NoStrandedInternalLock` still hold (about 307,000 and 394,000 states). `NoStrandedInternalLock` cannot tell the controller's lock from Reconfigure's. It takes the second controller to do harm.
- **Two configurations.** A stale session can then be told apart from a fresh one.
- **Two Reconfigure calls.** The second one meets the leftovers of the first.
- **Up to three instances, one close and one factory failure.** These give close/re-add (ABA on the group id) and the error paths.

The churn run uses one group, to keep its state space small. It still contains every interleaving of the controller, Reconfigure and the reconciler on that group.

### Fairness

`Spec` makes each process weakly fair (`WF_vars`): every controller, Reconfigure's goroutine and the reconciler. A goroutine that can keep running is eventually scheduled by the Go runtime. No process is strongly fair.

No run checks a liveness property of the manager. The one that would matter is that every command is answered and every `Reconfigure` returns. In the model, that holds only because `processLock`'s wait has a timeout. That timeout is part of `managedGroup`, which is not in the source, so the property would hold by the shape of the model and say nothing about the code. What a timed-out or failed step leaves behind is checked instead, by `NoStrandedInternalLock`.

The manager has no type invariant in its runs either. No change to the code could break it, only a change to the model's bounds. TLC still reports any variable that leaves the sets the actions draw from.

## Modules `ConsumerFactory` and `ConsumerGroupHandle`

`ConsumerFactory` models what the factory builds for one group:
- `kafkaConsumerGroupFactoryImpl.StartConsumerGroup` (lines 411-449);
- the consume goroutine it starts;
- `customConsumerGroup.Close` (400-407);
- `customConsumerGroup.Errors` together with `mergeErrorChannels` (395-398, 457-474).

These are the goroutines and the channels between them:

| Goroutine | Steps | Code |
|-----------|-------|------|
| factory caller | `StartConsumerGroup`, which fails or starts the loop | 411-424 |
| consume loop (`loopPc`) | `Consume` (returns `ErrClosedConsumerGroup`, an error or nil), `SendConsumeError`, `CheckContext`, `CloseErrorCh`; `HandlerError`/`HandlerSendDone` | 424-446 |
| each Close caller (`closePc`) | `CallClose` (`c.cancel()`), `Released` (meets the deferred `releasedCh <- true`), `CloseConsumerGroup` | 400-407, 427 |
| the Errors() user | `Errors` starts a new merge; `Receive` reads the newest out channel | 396-398 |
| per merge | `ForwardHandler` and `ForwardSarama` (`for v := range c { out <- v }`), and `CloseOut` (`wg.Wait(); close(out)`) | 457-474 |

The channels are modelled as follows:
- **`errorCh`** is a count `buf`, bounded by `ErrorChCapacity` (10, as in `make(chan error, 10)`).
- **The unbuffered channels** (`releasedCh` and each merge's `out`) do a send and its receive as one step.
- **sarama's own `Errors()` channel** is reduced to "closed by `ConsumerGroup.Close`". The errors sarama itself reports are not modelled.
- **The consumer handler** is not in this excerpt. It is assumed to send its errors to `errorCh` with a blocking send while `Consume` runs (spec.md §9: the handler wrapper is a producer of the error stream). This is marked `spec_modelled`.

`ConsumerGroupHandle` is the abstract specification of what the returned group promises its user, with no goroutines or channels:
- the loop is released only after Close cancelled it;
- the sarama group is closed only after the loop was released;
- the error stream ends only after the group is closed and every emitted error has been delivered;
- no error is delivered twice;
- under fairness, each of these eventually happens.

`ConsumerFactory` instantiates it as `Handle` with a refinement mapping:
- `started` comes from `startPc`;
- `cancelled` is the context cancel;
- `loopDone` is the loop having passed `releasedCh`;
- `groupClosed` is the sarama close;
- `emitted` is `sent`;
- `streamClosed` is the user seeing the end of the range.

The run `factory` checks `Handle!Spec` as a property.

Properties:
- `CloseReturns` (liveness): every Close that has cancelled eventually returns.
- `ErrorsEventuallyDelivered` (liveness): once the user has called `Errors()`, every error sent to `errorCh` is eventually received.
- `HandleSpec`: the refinement.

| Run | Config | Expect | What it shows |
|-----|--------|--------|---------------|
| factory | `MC_factory.cfg` | pass | One Close caller and a user ranging over one stream. 11 errors for a channel of 10, so the handler blocks on a full `errorCh`. Close always returns, and the implementation refines `ConsumerGroupHandle`. |
| factory_double_close | `MC_factory_double_close.cfg` | violation | Two Close calls. Only one value is ever sent on `releasedCh`, so the second Close blocks forever (finding 5). |
| factory_reread | `MC_factory_reread.cfg` | violation | The user calls `Errors()` again. A forwarder of the first merge holds an error on an unread `out` forever (finding 6). |

`CloseReturns` needs the user to drain the stream. With `FairErrorsCall = FALSE` and `MaxMerges = 0`, nobody calls `Errors()`. The 11th error then blocks the goroutine, it never sends on `releasedCh`, and Close hangs at line 404. sarama documents that a user who enables `Consumer.Return.Errors` must read `Errors()`, so no run records this.

**Fairness.** Every goroutine the Go runtime can run is weakly fair: the loop, the merge goroutines, a Close caller waiting on `releasedCh`, and the user's `range`. Two actions are the user's choice and are not fair: calling Close, and calling `Errors()` a second time. In the passing run (`FairErrorsCall = TRUE`), the user does eventually call `Errors()` once and ranges over it, as sarama requires of its users.

## Not modelled yet, and the plan

1. Done: the consume goroutine, `Close` and `Errors()`, in `ConsumerFactory`, refining `ConsumerGroupHandle`.
2. **Compose `ConsumerFactory` with the manager.** The factory calls `manager.AddExistingGroup` and `manager.Consume`. Neither is in this version of `consumer_manager.go`, whose manager half calls `startExistingConsumerGroup` instead. A composition would therefore model code that is not here. For now, the managed group's consume loop is the nondeterministic outcome of `Consume`.
3. **Not done: an abstract `GroupLifecycle` specification with the manager refining it.** The per-group promises (stop only Running, start only Stopped, close ends the group) are those of the managed group. Its code (`createManagedGroup`, `stop`, `start`, `consume`) is not under `src/`, so the model takes it from spec.md. A refinement of those promises would compare the spec's description with itself. The promises the manager's own code makes are checked directly, as invariants and action properties:
   - the lock contract: `ForeignLockRespected`;
   - the registry: `LiveGroupsRegistered`;
   - Reconfigure's contract: `ReconfiguredGroupsOnNewConfig`, and `NoStrandedInternalLock`.
4. **Not modelled: the config helpers** in `src/unnamed/part_000` (`GetAuthConfigFromSecret`, `parseTls`, `NumPartitions`, `ReplicationFactor`, `ConfigmapDataCheckSum`). They are pure functions of one input, with no state and no concurrency, so a table-driven unit test reaches every branch. The project's runs go to the concurrent code instead. The Deployment YAML has no behaviour.
5. Done: violation runs for the overwrite (`overwrite`) and for the session leak through the close/remove window (`session_leak`). The hazards they address were:
   - the `StartConsumerGroup` overwrite of a live group (line 174);
   - the session leaked when `start` is a no-op (line 283);
   - the window between `close` and `removeGroup` (lines 189-195).
6. Done: a colliding `internalToken` (line 52), in the `token_collision` run.

The consume goroutine is not modelled either:
- `startExistingConsumerGroup` starts it (line 169) before `setGroup` registers the group (line 174).
- Its first `m.consume` can therefore find no group and return "consume called on nonexistent groupId" (lines 219-225).
- The factory's comment at lines 416-418 says registration must come before the consume call.
- What the goroutine then does is in `startExistingConsumerGroup`, which is not under `src/`. If it has the shape of the factory's loop (430-444), it sends the error to an `errorCh` of capacity 10 that the manager never reads (line 170 keeps only `cancel`), so it could block before it ever attaches. The hazard is listed without a property.

One thing cannot be modelled: the Go runtime's fatal error on concurrent map iteration and write (line 121). It is a crash of the process. The model only gives the outcomes the range can produce when the race goes undetected.
