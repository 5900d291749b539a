# Verification of Titlan: relay, conversations and sync

TLA+ models of the Titlan messenger: the blind relay (`tezca-relay`), the core of
a device (`tezca-core`) and the Android shell that keeps it running
(`titlan-android`). TLC checks them on small instances. TLAPS proves the relay's
safety properties, that it implements an abstract mailbox service, its rate
limits, and the main safety properties of the client, of pairing, of recovery and of
the sync shell, for every value of the constants.

`PROJECT.json` lists components, runs, mutants, theorems, findings and hazards,
and maps each definition to the source lines it models.

## The system

| Component | State | Operations | Interacts with |
|---|---|---|---|
| Mailbox table (`tezca-relay/src/state.rs`, `api.rs`) | mailboxes: queue, byte counter, last activity, subscriber's channel; global byte counter | POST, PUT, DELETE, deposit, ack, sweep | delivery tasks, limiters |
| Delivery tasks (`api.rs`, `deliver`) | per connection: ids sent, collected frames, wake-ups | register, scan, send, wake, ack and drain, close | table |
| Rate limiters (`limits.rs`) | window per source and per mailbox | admit, prune, forget | handlers, sweep |
| Outbox (`relay_client/mod.rs`, `storage/mod.rs`) | message rows, guard per conversation | `send_chat`, `flush_pending`, `mark_message_sent` | session, relay |
| Listener (`conversation_listener`, `ws.rs`) | subscription, backoff | subscribe, next, decrypt, persist, ack, keepalive retry, stop | session, store, relay |
| Ratchet session (`session.rs`, `signal_stores.rs`) | one record per peer | load, encrypt or decrypt, store | outbox, listener |
| Engine lifecycle (`Engine`, `client.rs`) | set of listeners, cancel channel | start, stop, spawn | shell, listeners |
| Database and identity (`storage/schema.rs`, `identity.rs`) | migrations, identity and prekey tables, conversation and message rows | open, migrate, initialize, mint | all of the core |
| Recovery (`recovery.rs`) | generations, hello ring, exhaustion counters | probe, hello, rotate | listener, relay |
| Pairing (`pairing.rs`) | offers, proofs, handoff | offer, scan, ack, handoff | session, relay |
| Sync shell (`SyncController.kt`, `SyncService.kt`) | `running`, events sink, latch | start, stop, onStartCommand, revival | engine, platform |
| Codecs (`envelope/`, `wire.rs`, `config.rs`) | none | encode, parse, pad | all |
| Android UI and stores, key management, FFI | screens, wrapped database key | | engine |

What makes it hard: the relay's handlers share one mutex and let it go between
the steps of a request; a delivery task sends outside the lock and sleeps on a
channel; two tasks of a device use one session record; a deposit may be taken
although its sender gave up; the process may die between any two commits; the
shell is called from background threads, the main thread and a platform that
kills and revives it.

What should be true: the relay's counters are exact, it never loses a message
silently, never misses a wake-up, and never exceeds a rate. A device never gives
up a message silently, keeps the order, and acknowledges only what it has
persisted. Two devices that pair end with matching routes, and find each other
again when their mailboxes vanish. A stopped client is quiet, and its database
opens. A parser takes only what an encoder writes. The shell never crashes the
process and syncs when it says so.

## Modules

| Module | Models | Checked through |
|---|---|---|
| `Relay` | table, sweep, delivery tasks | `MCRelay` |
| `MailboxService` | what the relay promises: accept, hand over in order, remove on ack, expiry or DELETE | refinement from `Relay` |
| `Limits` | both limiters and the handlers that ask them | `MCLimits` |
| `Chat` | outbox, session, listener of two devices and the network between | `MCChat` |
| `Store` | routing and recovery columns of a conversation; the relay as `http.rs` sees it | `Recovery`, `Pairing` |
| `Recovery` | loss, probe, hello, convergence, exhaustion and rotation of two devices | `MCRecovery` |
| `Pairing` | one offering device and several that scan | `MCPairing` |
| `Client` | opening, identity, and the generations of listeners under several threads | `MCClient` |
| `Codec` | every byte format: layouts, one encoder, one strict parser, offer validation | `Messages` |
| `Messages` | one device's rows and the bytes that go in and out of them | `MCMessages` |
| `SyncShell` | Android sync controller, service and platform | `MCSync` |
| `Sums` | sum, filter and removal on sequences | the others |
| `SumsProofs`, `RelayProofs`, `LimitsProofs`, `ClientProofs`, `PairingProofs`, `RecoveryProofs`, `SyncProofs` | proofs | TLAPS |

**Relay.** An action is what happens under one hold of the `boxes` lock, or
between two awaits. DELETE has two halves because `global_bytes` is adjusted after
the lock. The sweep has two because it reads the clock before it asks for the
lock. A blob is its length, a message id the next unused number. Requests the
relay refuses change no state and are not actions. A connection acknowledges only
ids it was sent: ids are random and a client learns no others.

**Limits.** Source limiter, table and mailbox limiter each have their own mutex,
and a request is a step per mutex. The wall clock (minutes) and the monotonic clock
(idle time) are one clock, so a step of the wall clock is not modelled. The
`granted` variables are history: admissions in the current minute, for a mailbox
since it was last forgotten.

**Chat.** The two mailboxes exist throughout; a message that waits in one for too
long expires (the relay's sweep). The session record is two chains, a counter and the
set of messages opened: what the code relies on libsignal for. A message is its row
number. Each kind of fault has a budget, and the death of each device is a kind of its
own. The tasks that send are interchangeable, so they are symmetric in the run.

**Recovery.** Each device is its conversation's row, its listener (`at`, with the
probe or reply it is in the middle of in `job`), and a flush started by its user. A
step ends at an await whose effect the other side could see. One relay serves both
and forgets everything at a restart. A derived mailbox is a function of root, role
and generation; a fresh one has the relay's next serial number. The operators on
the row are those of `Store`, one per UPDATE of `storage/mod.rs`. A flush between two
messages is raced against the stop and may be cut off with its request on the wire; a
flush inside a handler is not.

**Pairing.** An offer has its own listener, raced against the TTL and dropped at
whichever await it has reached. Keys and prekey ids are numbers: an offer answers a
pair-ack only if the id the bundle names still holds the advertised key. A frame that
decrypts spends that key before anything else is looked at: one that is no inner
frame, no `pair-ack/2`, or a `pair-ack/2` that does not parse is acknowledged and
ignored, and the listener goes on waiting for an offer nobody can answer. Scanners
may have skewed clocks. Calls to the relay fail, the handoff may be late, other
senders write to the pairing mailbox, the offering process may die.

**Client.** A step of a thread ends where it releases its locks, commits, or waits.
A listener is either waiting, where it sees the cancel signal, or inside the span
from an accepted message to its ack, where it does not. It may also return by itself:
for re-pairing, or silently when its row cannot be read or has no mailbox.

**Codec, Messages.** A format is a sequence of fields (literal, number, prefixed
bytes, prefixed text, fixed length, rest). `Encode` and `Parse` interpret it, so
each format in the code is one line of the model. Widths, the byte and the id length
are constants, small in the run. `Messages` scans, types, seals, damages (one byte
changed, added or cut off), receives and lists.

**SyncShell.** Each volatile write of `start` is a step, since `start` takes no
lock. `stop`'s ten-second limit on its wait is not a step: by then the platform has
crashed the process itself.

The operators commented "Mutant" are deliberately wrong versions of the definition
below them, used to see that a property notices. No specification uses them.

## Runs

Passing runs (distinct states in brackets):

| Run | Properties | Instance |
|---|---|---|
| `relay_table` (391k) | `TypeOK`, `ByteAccounting`, `ActivityCoversQueue`, `NoSilentLoss`, `ImplementsService` | 2 mailboxes, 1 connection, blobs of 1 and 2 bytes, 2 deposits, TTL 1, clock to 2 |
| `relay_delivery` (72k) | `NoLostWakeup`, `InOrderOnce`, `EventuallySent`, `PingedCloses` | 1 mailbox, 2 connections, 2 deposits, DELETE |
| `limits` (468k) | `RateHeld`, `SourcesBounded`, `ActiveKept` | 2 sources for a table of 1, three minutes of two ticks |
| `chat_network` (16k) | `ExactlyOnceInOrder`, `EventuallyDelivered` | 2 messages; two dropped connections, a refusal, a rejection |
| `chat_faults` (751k) | `SentMeansAccepted`, `FirstCopiesInOrder`, `AckedMeansPersisted`, `LossBounded` | 2 messages from overlapping sends; any two different faults of nine kinds |
| `recovery` (424k) | `TypeOK`, `PeerGenKnown`, `GivesUpLate`, `GenerationsRise`, `Reconverges` | one message, window 2, 2 probe cycles, a ring of one hello, with and without a root; three restarts, or two and a paced attempt, or one and a skipped leg, a stop or a death, or one side's expiry with a paced attempt and a skipped leg |
| `pairing` (237k) | `PairedAgree`, `OfferKeepsKey`, `AnswersOnce`, `OneIsPaired` | 2 offers, 2 scanners, one clock behind by a second, TTL 1; no fault, or one each of two or three kinds |
| `client` (121k) | `NeverBricked`, `StoppedIsQuiet`, `SyncedListens`, `OneIdentity`, `StopReturns` | 2 threads, 2 conversations, 2 migrations from any earlier version, 2 tasks |
| `messages` (40k) | `OfferClass`, `ParsersStrict`, `OutboxInOrder`, `RowsKeepRules`, `ActivityRises` | bytes of 8 values; samples of each format, every single-byte damage; 2 conversations, 2 rows, a clock that goes back |
| `sync_cycles` (1.8k) | `OrderlyStop`, `EngineHasService`, `CommandSyncs` | start and stop back to back, two process deaths |

The bounds let the cases that matter happen: a queue that fills and empties, an
expired message before a fresh one, a mailbox deleted and created again while its
bytes are unsettled, a second subscriber in the middle of a scan, a full limiter
table, two minute rollovers, two rows in one flush, a late request overtaken by its
retry, a device two generations ahead of its peer, a hello that was evicted from the
ring and comes again, two pair-acks for one offer, an offer valid for one scanner and
early for another, a start between the two halves of a stop, a bucket that fits
exactly, a paced attempt between two losses, a frame that spends an offer's prekey and
is no pair-ack. The theorems remove the bounds for the relay, the limiters, pairing,
and most of recovery, the client and the shell.

The passing `chat` runs send in one direction, because traffic in both directions
runs into `chat_race` below. What they show holds for a conversation whose devices
do not send and receive at the same moment. `ExactlyOnceInOrder` is stated for
exchanges without timeouts, stops, deaths, expiry and store errors: a request given up
and repeated may be persisted twice, the residual that the keepalive design note names
(KA-D11), and the others leave holes.
`CHECK_DEADLOCK` is off because every model is bounded: it stops when its deposits,
ticks or calls are used up.

### Disagreements

These runs check what the documentation says and find it violated.

| Run | What happens |
|---|---|
| `chat_race` | A flush and the listener each load the session record and store it back. One update is lost, a counter is used twice and the second message is dropped as a replay. No fault is needed. |
| `recovery_rotation` | The responder deletes its derived inbox while the offerer still sends there. Chat that the offerer has marked sent is deleted with it; `proto/recovery.md:169` says rotation drops none. |

### Premises

Where a property has a premise or an exception, TLC finds a counterexample once it is
dropped, under the run's own bounds unless said otherwise:

- `PingedCloses`: a replaced subscriber keeps its connection until its client sends
  something, since nothing wakes its task. `proto/relay-api.md:54` says it closes.
- `AckedMeansPersisted` excepts failed store calls, expiry and the receiver's death.
  After a failed store call the code acknowledges what it could not keep
  (`store_failed`). The message key is spent in one transaction and the row stored in
  another; a death of the receiver in between makes the redelivery a replay, which is
  acknowledged and lost. `LossBounded` says what the exceptions cost: one message each.
- `OrderlyStop` excepts a revival, and its one caller starts and stops in turn.
  Otherwise the command of an earlier start counts down the latch of a later one, and
  `stop` runs while the later foreground call is owed.
- `EngineHasService` has one caller. A start beside a stop can set `running` again
  before the service is stopped, and the core then starts without one.
- `CommandSyncs` starts where `running` is set. The service's thread may read it
  before `start` has set it, and in a revived process nothing sets it: the service
  is in the foreground and nothing syncs.
- `Reconverges` excepts what can leave the sides apart for good: a probe leg that is
  skipped (it is not retried), a stop or a death in the middle of a probe, one-sided
  loss of a conversation that has a root, and a third restart. The last needs the
  code's window of 4: a peer's probe may then create again the very mailbox a device
  two generations ahead has lost, so the device sees no loss, and does not repeat the
  hellos that went with it. With the run's window of 2, three restarts converge.
- `GivesUpLate` counts losses and not attempts. An attempt whose own PUT is refused or
  paced counts nothing, as the comment at `relay_client/mod.rs:629` says. But the
  comment also asks for a deposited hello, and `enter_recovery_gen` returns `true` when
  every leg towards the peer was paced (`probe_leg` fails, `probe_done` counts): such a
  probe told the peer nothing and is a cycle all the same.
- `OfferKeepsKey` and `AnswersOnce` end, and start, at the first frame the listener opens,
  which need not be a pair-ack. After one that is ignored, or whose mailbox could not be
  created, the listener still waits and the offer on the screen can no longer be used.
- `PairedAgree` is about scanners that succeeded. A lost ack or handoff, or a TTL that
  ends between the offerer's row and its handoff, leaves a half-made conversation on one
  side or on both; nothing removes it.
- `OneIsPaired` excepts the end of the TTL and each kind of fault. A handoff that comes
  after the scanner gave up is read by its conversation listener, which drops it; the
  offerer has a row and the scanner a half-made one. A refused create spends the
  prekey, and the offer with it.
- `SyncedListens` counts a listener that returned by itself, for re-pairing or because
  its row could not be read (`relay_client/mod.rs:949`), as its conversation's: it stays
  in the listening set, and a start does not spawn it again before a stop. The second
  kind reports nothing to the application. A start interrupted by a stop may leave some
  conversations without a listener.
- `StoppedIsQuiet` speaks when all calls have returned. `client.rs:407` says "when this
  returns, no sync task is running" of each stop; a second stop that overlaps the first
  finds no live generation and returns before the first has joined its listeners.
- `StopReturns` takes it that a handler ends. Its HTTP calls do: they have timeouts
  (`ws.rs:210`), although `docs/threat-model.md:312` (TM-C8) still says that none are
  configured.
- `RowsKeepRules` asks no version of a chat frame: `handle_incoming` stores chat of
  any version, and text that is not UTF-8, where `proto/envelope.md` says that
  unknown versions are not persisted.
- `ParsersStrict` allows an inner frame in a larger bucket than it needs, and a
  bundle that carries a prekey under the absent id: both are accepted by the code.
- `OutboxInOrder` relies on `ChatBody.admit`. The core stores a row before it knows
  whether it fits a bucket, and one that does not ends every later flush.

## Fairness

- *Relay*: `WF(Deliver(c))`. A task that can proceed is polled by tokio. Clients,
  requests, the sweep and the clock are never obliged to move. `PingedCloses` has
  its own premise: the client pings its open socket, as `ws.rs` does.
- *Chat*: strong fairness of a flush, since tokio's mutex is first come, first
  served; strong fairness of the listener's steps, since the keepalive's
  `Event::Idle` is produced only on a silent socket; weak fairness of `idle` and
  `start_sync`. Faults are never obliged to happen and are bounded.
- *Recovery*: weak fairness of the listener, the flush and `start_sync`: ready tasks
  are polled, HTTP calls end, and the user brings the application back.
- *Pairing*: weak fairness of the offerer's and the scanner's own steps. The clock,
  the TTL and the user are not obliged to move.
- *Client*: weak fairness of a stop's own steps and of finishing a message; strong
  fairness of seeing the signal, since `select!` polls its branches in random order
  and a listener that keeps accepting meets the signal in the end.
- *SyncShell*: threads run and the main thread drains its queue. Unlocking, killing
  and reviving are not obliged.

## Proofs

The theorems rest on one named assumption per module (`RelayAssumption`,
`LimitsAssumption`, `ClientAssumption` and so on): the constants have their types, and
the idle time of the limiters is at least a minute. Those about the sync shell state
their own premise on the caller.

| Theorem | Statement |
|---|---|
| `TypeCorrect`, `ActivityCorrect`, `BytesCorrect` (`RelayProofs`) | `Spec => []TypeOK`, `[]ActivityCoversQueue`, `[]ByteAccounting` |
| `WakeupCorrect`, `OrderCorrect` (`RelayProofs`) | `Spec => []NoLostWakeup`, `[]InOrderOnce` |
| `LossCorrect`, `RelayImplementsService` (`RelayProofs`) | `Spec => NoSilentLoss`, `ImplementsService` |
| `RateCorrect`, `SourcesCorrect`, `ActiveCorrect` (`LimitsProofs`) | `Spec => []RateHeld`, `[]SourcesBounded`, `ActiveKept` |
| `OpensCorrect`, `IdentityCorrect` (`ClientProofs`) | `Spec => []NeverBricked`, `OneIdentity` |
| `QuietCorrect`, `ListensCorrect` (`ClientProofs`) | `Spec => []StoppedIsQuiet`, `[]SyncedListens` |
| `PairedCorrect`, `KeysCorrect`, `AnswersCorrect` (`PairingProofs`) | `Spec => []PairedAgree`, `[]OfferKeepsKey`, `AnswersOnce` |
| `RecoveryTypeCorrect`, `PeerGenCorrect`, `GenerationsCorrect` (`RecoveryProofs`) | `Spec => []TypeOK`, `[]PeerGenKnown`, `GenerationsRise` |
| `ServiceCorrect` (`SyncProofs`) | one caller, any script: `Spec => []EngineHasService` |
| `OrderlyStopCorrect` (`SyncProofs`) | one caller that starts and stops in turn: `Spec => []OrderlyStop` |

*Relay.* Types first. Then the table: ids are increasing in a queue and below the
number issued, times increase with them, and last activity is at least the last of
them. That is why the sweep may stop at the first fresh message, and why a mailbox
idle for the TTL has an empty queue once its expired messages are popped. The byte
accounting needs exactly this: the sweep subtracts only what it popped, so dropping a
mailbox with something left would leave the global counter too high. Delivery needs
that what is collected but unsent is later than everything sent, and that an owner
between scan and sleep has a wake-up for whatever was deposited meanwhile. The
refinement maps each action to one of the service, or to a stutter; the sweep maps to
`Expire`, which needs the table invariant again. `SumsProofs` has the lemmas on sums,
filtered sequences and removal.

*Limits.* `RateHeld` speaks of the history only and is not inductive. `Sound` ties it
to the entry: the entry's minute is that of its last touch, its counts are within the
limits, and they are at least the admissions of the current minute; with no entry, or
one of an earlier minute, there were none. Eviction keeps this because an entry idle
for the idle time was last touched in another minute (`MinutesApart`), also when the
sweep's reading of the clock is old. The same step lemma gives `ActiveKept`.

*Client.* The database has migrations 1 to n, all recorded, and an opening thread is
at n + 1. The four identity tables have one owner. For the joined stop: every running
listener is of the live generation, or a thread that is still stopping holds its
generation (`Accounted`); generations are never 0, which is what a stopped engine has.

`SyncedListens` adds that generations are numbered through, that the listening set and
the tasks of the live generation correspond one to one (`Listed`), and that a start no
stop has interrupted has listed, or has still to list, every conversation whose pairing
has returned (`Covered`).

*Pairing.* `PairedAgree` follows back along the frames: a handoff queued for a scanner
names a row the offerer has stored for it, the row was made from the pair-ack the
listener opened, and a pair-ack that proves the offer's secret was made by a device
that scanned it (`FrameInv`, `RowInv`). Each mailbox has one reader because the relay
never picks an id twice (`BoxInv`). For the prekeys, every offer has a key of its own,
which it holds until the first frame is opened and never again (`KeyInv`): ids may be
used again once the largest is spent, keys are not.

*Recovery.* A hello is queued only in a derived mailbox of the side it is for, and
announces at most the generation its sender records next (`Fits`); the mailboxes one
side reads, or will read when it resumes, are never the other's (`OwnInv`). So a side
reads only the peer's hellos, and `PeerGenKnown` is inductive with these. The stored
generations rise because a probe's own target is at least the stored one (`Local`).

*Sync shell.* The block of a stop clears `running` before it stops the engine, and the
engine before the service (`ServiceInv`). For `OrderlyStop`: while the platform has not
revived the service, a command on its way is that of the latest start, and its latch is
not counted down (`SettleInv`).

Only model-checked: liveness, and everything about `Chat`, `Codec` and `Messages`;
of `Recovery`, `GivesUpLate`. Liveness under fairness is beyond the prover, and what
the recursive encoder and parser compute for every input would need induction over
sequences.

## Not modelled

- Cryptography and certificate checks: libsignal and TLS are assumed. A ciphertext
  is what it was made from.
- Delays: backoff, Pong deadlines and polling intervals. A wait is a step that may
  happen at any time; no property depends on its length.
- Key wrapping (`DbKeyManager.kt`) and licensing: sequential calls into the platform
  keystore, and a constant.
- The relay's flags and hardening: start-up code.
- Screens, navigation and the flows they read (`ConversationStore`): views of the
  core, read again at every event. Two overlapping refreshes may show the older
  reading until the next event.
- Callbacks to the application, except as the states they report; logging, wording
  and the INV-2 uniformity of answers.
- Two relays: devices of a conversation may use different ones. `Recovery` and
  `Pairing` use one, whose restart loses both sides' mailboxes at once; one-sided
  loss is a fault of its own (`expire`).
- Traffic of several conversations in one model, beyond `Client` and `Messages`:
  conversations share no state but the database and the set of listeners.
