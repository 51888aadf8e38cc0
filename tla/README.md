# Verification of the NetPlay dialog (FasterMelee 6.0)

This directory holds TLA+ models of `src/Source/Core/DolphinQt/NetPlay/NetPlayDialog.cpp`,
`NetPlayDialog.h` and the config layer order of `src/Source/Core/Common/Config/Enums.h`,
the TLC configurations that check them, and TLAPS proofs.

## The system

`NetPlayDialog` is the Qt window of a NetPlay session. It runs in two contexts:

* **The UI thread.** Widget signals (the Auto button, the buffer spin boxes, the
  authority checkbox, Quit) and the 1 s `QTimer` that drives auto-buffer sampling run
  here. So do the lambdas that `NetPlayUI` callbacks post with `QueueOnObject`, and
  `GameStatusChanged`, which the `EmulationStateChanged` connection calls.
* **The network thread.** The `NetPlayUI` callbacks (`OnMsgChangeGame`,
  `OnMsgStartGame`, `StopGame`, `OnMinimumPadBufferChanged`,
  `OnHostInputAuthorityChanged`, ...) are called here. Part of each one runs on this thread, and part is posted to the UI
  thread.

The dialog talks to a `NetPlayServer` (only when hosting) and a `NetPlayClient`.
Neither is in this repository. It reads per-game settings through
`GetConfigOptionWithSelectedGame`. That helper installs the title's GlobalGame and
LocalGame layers in the process-wide layer table, reads, and removes them again. It is
called from both threads, and nothing locks the table.

The FasterMelee addition is **automatic buffer sizing**:

1. Clicking *Auto* disables the Auto button and the minimum-buffer box, starts the
   timer and takes one sample.
2. Each sample is the server's `FindLongestRoute()`: the pair of players with the
   largest summed ping via the server.
3. A route with a null endpoint (fewer than two players) aborts the run.
4. After three samples, `CalculateBufferFromSamples` tests their stability. If they
   pass, it sets the minimum buffer to `(int)(avg*1.1/(1000/60)*100)`, in hundredths
   of a frame.
5. Both exits re-enable the widgets, clear the list and stop the timer.

## Modules

| Module | Models |
|---|---|
| `AutoBuffer` | The auto-buffer sampler and every UI-thread handler that touches its widgets or the minimum buffer. Details below. |
| `MC_AutoBuffer` | The TLC instance: two players, pings {0, 60}, three titles, manual buffers {0, 200}. |
| `AutoBufferProofs` | TLAPS proofs of type correctness and of the sampler's consistency invariant. |
| `GameLifecycle` | Starting and stopping a game across the network thread, the UI event queue and the emulation core. Details below. |
| `MC_GameLifecycle` | The TLC instance: three games per session. |
| `GameLifecycleProofs` | The TLAPS proof that the lifecycle is well typed. |
| `GameLifecycleOptionsProofs` | The TLAPS proof of `OptionsFollowCore`. |
| `BufferUnits` | The two buffer spin boxes, their unit conversions, and the handlers that write them on both threads. Details below. |
| `BufferUnitsProofs` | The TLAPS proof that every buffer in the boxes' model is a natural number. |
| `BufferUnitsDisplayProofs` | The TLAPS proof of `BoxShowsBuffer`, with host input authority off. |
| `BufferUnitsEchoProofs` | The TLAPS proof of the action property `EchoesBufferWrites`. |
| `MC_BufferUnits` | The TLC instance: typed values {0, 0.29, 1.50, 3.00} frames, with 0.29 truncated to 28 hundredths, and remote minimums {0, 1.50}. |
| `ConfigScope` | The scoped per-title config reads of the UI thread and the network thread over the shared layer table. Details below. |
| `MC_ConfigScope` | The TLC instance: two titles in the game list and one missing. |
| `ConfigScopeProofs` | TLAPS proofs that no game layer leaks, that the layer table stays well typed, and that a network-thread read resolves the game last announced. |

### How `AutoBuffer` maps to the code

The widget and handler names below are the code's own.

**State**
* `samples` is `m_auto_buffer_samples`.
* `timerActive` is whether the sample timer is running.
* `autoEnabled` and `minBoxEnabled` are the enabled flags of the Auto button and the
  minimum-buffer box.
* `game` is `m_current_game`.
* `hia` is `m_host_input_authority`.
* `minBuffer` is the server's minimum buffer, which `OnMinimumPadBufferChanged`
  copies into `m_minimum_buffer_size`.
* `hosting` is whether a server exists.
* `peers` and `rtt` are the server's players and pings. They are the environment.
* `lastAuto` and `autoApplied` are history variables, used only by properties.

**Actions**
* `ClickAutoBuffer` is the button lambda (350-356).
* `TimerTick` is the timer's timeout (129-131, 145).
* Both call `SampleAutoBuffer(busyAuto, busyBox)` (1145-1182), whose three disjuncts
  are the code's three paths: abort, calculate and stop, continue.
* `CalculateBufferFromSamples` keeps the code's deviation formula exactly, including
  the loop starting at index 1.
* `AutoBufferSizes` models the double arithmetic. The result is `avg*66 div 10`, or
  one less when the product is whole, because the double computation can land just
  below a whole number and truncate.
* `AdjustMinimumBuffer` is the minimum-box lambda (326-336).
* `OnMsgChangeGame` is 813-842.
* `OnHostInputAuthorityChanged` is 937-972.
* `Quit` is `reject()` (512-519) followed by the owner destroying the server.
* Every write of the minimum buffer goes through `OnMinimumPadBufferChanged` (886-909).
  It is applied atomically, with the server's change.

**Game settings.** The layered read `GetConfigOptionWithSelectedGame(MAIN_POLL_ON_SIREAD)`
is `GetPollOnSIRead(g)`:
* the title's membership of `PollGames` when the title is in the game list;
* the base value `BasePoll` when it is not.

**Taken from the contract.** `FindLongestRoute` comes from the server's contract,
because the server is outside this repository. It is a *set* of admissible routes,
because ties are broken by the server's iteration order. `MC_AutoBuffer` replaces it
with one deterministic choice, which keeps the state space small.

### How `GameLifecycle` maps to the code

**Queues.**
* `inbox` is the server's messages to this client, in order.
* `uiQueue` is the UI thread's event queue. It holds:
  * the lambda `OnMsgStartGame` posts;
  * the queued `Boot` and `Stop` signals;
  * `EmulationStateChanged`;
  * the lambda `GameStatusChanged` posts.

**Network thread.**
* `NetStartGame` is `OnMsgStartGame` (869-879).
* `StopGame` is 762-769, with its `m_got_stop_request` guard.

**UI thread.**
* `BootGame` is 756-760, called from the posted lambda through `client->StartGame`.
* `GameStatusChanged` is 844-850.
* `SetOptionsEnabled` is 852-867.
* `OnStart` is 406-510. It is abstracted to the successful path: every early return
  leaves the state as it was, and the settings snapshot is data.

**Environment, from contracts.**
* The server: `RemoteStart`, `RemoteStop`, and the stop a `RequestStopGame` causes.
* The main window's Boot and Stop slots.
* The emulation core, which halts when asked or on its own.

**Host or player.** `hosting` is `IsHosting()`. `Init` chooses it and no step changes it,
so one run covers both the host's dialog (`OnStart`) and a player's (`RemoteStart`).

`m_got_stop_request` starts `true` (`.h:173`). The `isVisible()` test of the
`EmulationStateChanged` connection (383-390) is taken as true, because the dialog is
open for the whole session.

### How `BufferUnits` maps to the code

**Units.** A box value is kept times 100, so 0.29 frames is 29. A buffer is what the
client or server holds: hundredths of a frame when the title polls on SI read
(`poll`), whole frames otherwise.
* `ToBuffer` is the lambdas' `ivalue` (328, 340). With `poll` it is `(int)(value*100)`,
  which is one less for the values in the constant `Lossy`. `MC_BufferUnits` takes
  `Lossy = {29}`, because 0.29*100 is 28.999999999999996 in IEEE doubles. Without
  `poll` it is `(int)value`.
* `ToBox` is the `setValue(buffer/100.0)` or `setValue(buffer)` of the echoes
  (889-895, 916-919).
* `Decimals` is the display rule (108-119, 821, 960): 2 decimals only when `poll` and
  not host input authority.
* `Rounded` is `QDoubleSpinBox`'s rounding to its decimals. A tie at .50 goes either
  way.

**State.**
* `box` is the two boxes' values and `decimals` their decimals.
* `size` is `m_minimum_buffer_size` and `m_local_buffer_size`.
* `hia` is `m_host_input_authority` and `poll` the current title's setting.
* `warningHidden` is the below-minimum warning and `enabled` the boxes' enabled flag.
* `netInbox` is the network thread's pending callbacks.
* `uiQueue` is the lambdas they post.
* `requested` is a history variable: the buffer the user last asked for.
* `hosting` is `IsHosting()`, fixed as in `GameLifecycle`. It decides whether the
  minimum box is shown (562-563).

**Actions.**
* `UserEdit` is an edit in a shown, enabled box. It runs the `valueChanged` lambda
  (326-348) with its early return when the value equals the cached size.
* `ClickWarning` is 358-363.
* `NetMinimumChanged` and the network half of `OnLocalPadBufferChanged` run on the
  network thread (886-909, 922-934). The `setValue` each one posts is `ApplySetValue`,
  which runs under a `QSignalBlocker`.
* `NetAuthorityChanged` is `OnHostInputAuthorityChanged` (937-972). It calls
  `setDecimals` on the network thread, outside a blocker, so the rounding runs the
  `valueChanged` lambdas (`DecimalsChanged`). The posted lambda is `ApplyAuthority`.
* `NetChangeGame` and `ApplyChangeGame` are `OnMsgChangeGame` (813-842). The lambda
  sets the decimals (with the same unblocked rounding), resets the local buffer to 150
  or 6, and, on the host, the minimum to 0.

**Environment.** The server's echo of `AdjustMinimumPadBufferSize`, a remote host's
minimum change, game changes and authority toggles. `MaxQueue` bounds what is in
flight between the threads.

### How `ConfigScope` maps to the code

**State.**
* `layers` is the config layer table, keyed by `LayerType` (`Enums.h` 11-22). A layer's
  contents are abstracted to the title it was loaded for. `Base` holds `"base"`, and the
  layers the dialog never installs are taken not to define the options it reads.
* `current` is `m_current_game`. Only the UI thread writes it.
* `posted` is the queue of `OnMsgChangeGame` lambdas posted to the UI thread (816) and
  not yet run, each abstracted to its title. `announced` is the last title the server
  announced.
* `pc`, `op`, `game` and `seen` are each thread's place in its scoped read, the game it
  resolved, and what its `Config::Get` returned.

**Steps.** Each `AddLayer`, `Config::Get` and `RemoveLayer` is one step, so the two
threads interleave between them.
* `Lookup` is `Config::Get`: the first layer of `SEARCH_ORDER` (`Enums.h` 37-46) that
  holds a value.
* `AddLayer` overwrites the entry of its type and `RemoveLayer` erases it. That is the
  table's contract from the Config code, which is not in this repository.
* `Resolve` is `FindGameFile(m_current_game)`. With no game the helper reads at once
  (`.h` 101-105), and `OnStart` returns (425-430).
* UI-thread entries:
  * `UIRead` is any UI-thread caller: the `valueChanged` lambdas, the echo lambdas,
    `MeetsAutoBufferConditions` and the constructor.
  * `UIChangeGame` runs the oldest posted `OnMsgChangeGame` lambda, which writes
    `m_current_game` first (818-821) and then reads.
  * `UIStart` is `OnStart`'s snapshot (425-505). Its `Get` stands for the reads at
    441-499.
* Network-thread entries:
  * `NetChangeGame` is `OnMsgChangeGame` itself (813-816): it posts the lambda and
    returns. The queue is bounded by `MaxPosted`.
  * `NetRead` is a network-thread caller (897, 922, 960). Its `FindGameFile` is the
    lookup `RunOnObject` runs on the UI thread (1057-1066) and waits for. That event
    queues behind every lambda already posted, so it runs with `posted` empty and the
    UI thread idle. The model then lets the lookup and the network thread's table
    operations stand for a read that began after it. This over-approximates when the
    read may start, and never lets it see a game the UI has not yet installed.

## Runs

The check allows twelve runs: four passing runs, one per model, and eight
violations. The host's and a player's dialog are one run each, through the frozen
`hosting` variable.

| Run | cfg | Expect | What it shows |
|---|---|---|---|
| ab_session | `MC_AutoBuffer.cfg` | pass | `TypeOK`, `SamplerConsistent` and `ControlsRestored` hold under every interleaving of sampling, players joining and leaving, ping changes, game changes, authority toggles and manual edits. 218,672 distinct states, depth 29. |
| ab_deviation | `MC_AutoBuffer_deviation.cfg` | violation | `StableSamplesAccepted`: three equal samples of 120 ms are rejected as unstable. |
| ab_units | `MC_AutoBuffer_units.cfg` | violation | `AutoBufferInGameUnits`: a non-zero auto value in hundredths (395, from pings of 60 ms) stays applied to a title that counts its buffer in frames. |
| ab_authority | `MC_AutoBuffer_authority.cfg` | violation | `BufferControlsFollowAuthority`: the end of a run, or a game change, re-enables controls that host input authority disabled. |
| gl_session | `MC_GameLifecycle.cfg` | pass | `TypeOK`, `OptionsFollowCore` and `UnexpectedHaltEndsSession` hold for the host and for a player, across three games that others start and stop at any time. 16,083 distinct states. |
| gl_stale_stop | `MC_GameLifecycle_stale.cfg` | violation | `StopRequestEndsOwnGame`: the halt event of game 1 is handled after the server has started game 2, and its `RequestStopGame` ends game 2. |
| gl_swallowed_stop | `MC_GameLifecycle_swallowed.cfg` | violation | `CoreRunsOnlyLiveGames`: `StopGame` returns early, because `BootGame` has not yet cleared the flag, and the core then runs a game that is already over. |
| bu_session | `MC_BufferUnits.cfg` | pass | `TypeOK`, `BoxShowsBuffer` and `EchoesBufferWrites`: on the host and on a player, each shown box shows its buffer whenever nothing is in flight. The one gap is a truncated 0.29 over a buffer of 28. Every step that writes a buffer leaves its `setValue` lambda as the last one queued for that box. 395,093 distinct states. |
| bu_revert | `MC_BufferUnits_revert.cfg` | violation | `TypedValueApplied`: the host sets the minimum to 3 and back to 0 before the echo arrives. The second edit is dropped, because the cached size is still 0, and the echo leaves 3. |
| bu_authority | `MC_BufferUnits_authority.cfg` | violation | `AuthorityToggleKeepsBuffers`: turning host input authority on rounds a local buffer of 0.29 to 0 through the unblocked `setDecimals(0)`, and applies it. |
| cs_session | `MC_ConfigScope.cfg` | pass | `TypeOK`, `NoLeakedLayers` and `NetReadSeesAnnounced`: no game layer is left installed once both threads are out of their scoped reads, and a network-thread read resolves the title the server announced last, however the change-game lambdas and the read interleave. 3,665 distinct states. |
| cs_race | `MC_ConfigScope_race.cfg` | violation | `ReadSeesOwnGame`: both threads resolve the same title and install its layers. The UI read's `RemoveLayer` then strips the network thread's layers, whose `Get` returns the base value, not the title's. |

Every violation is a finding in `PROJECT.json`.

**Deadlock.** The lifecycle run sets `CHECK_DEADLOCK FALSE`. Once the bounded
session's games are over, the dialog sits idle, and that is a real resting state. A
host left unable to start (no Start button) is caught by `OptionsFollowCore`, not by
deadlock. The other runs never stop: a user can always edit, and a thread can always
read.

**Lifecycle fairness.** Weak fairness on each handler of the two event loops, and on the
core finishing a requested stop. Nothing is assumed of the players, the host, the
server's other clients, or a core halting on its own.

**Bugs found by the models and not in the run set.** Each is a hazard in
`PROJECT.json` with a note:
* **Quit leaves the sampler running.** `reject()` does not stop the sample timer.
  `SamplerNeverOutlivesServer` in `AutoBuffer` is violated by quitting during a run.
* **Authority on, wrong units.** With host input authority on, the lambdas still
  multiply by 100. `TypedValueApplied` is violated with `Authority = {TRUE}`: 3
  frames typed, 300 sent.
* **Strict-sync check on the wrong layers.** `OnStart`'s strict-sync check reads
  `GFX_EFB_SCALE` without the game layers. The snapshot reads it with them.

**Why the bounds are enough.**
* Two players are the fewest for which a route exists. Removing one mid-run takes the
  abort path.
* Pings {0, 60} give both a zero and a non-zero average, and a 120 ms route that
  exercises the deviation check.
* The three titles are one poll NTSC title, one poll PAL title and one non-poll title.
  Together with `NoGame`, they cover each branch of `MeetsAutoBufferConditions`.
* Manual buffers {0, 200} let a manual edit race a run.
* `BufferUnits`:
  * The typed values {0, 29, 150, 300} hold a truncated value (29), a value that
    rounds on a tie at 0 decimals (150), a whole value, and 0, the initial one. The
    last two make the revert case.
  * `MaxQueue = 3` lets an edit, its echo and a game change be in flight at once.
* `ConfigScope`: two listed titles let the threads install different games. The
  missing title covers `FindGameFile` returning null. Two threads are all the code
  has. `MaxPosted = 2` lets a second change-game lambda be posted behind the
  first, so the UI can install a title that is no longer the last announced.

**Fairness.** `BufferUnits` and `ConfigScope` check only safety and assume no fairness.
`AutoBuffer` has weak fairness on `TimerTick` only. The timer is periodic
(`setSingleShot(false)`) and the Qt event loop delivers its timeouts while it runs.
The user's and the network's actions get no fairness.

## Proofs

`AutoBufferProofs` proves, for every value of the constants that satisfies the
module's `ASSUME`s, these three theorems:
* `IInvInductive`: `Spec => []IInv`, with `IInv == TypeOK /\ SamplerConsistent`;
* `TypeCorrect`: `Spec => []TypeOK`;
* `SamplerConsistency`: `Spec => []SamplerConsistent`.

`TypeOK` is not inductive alone, and the strengthening `IInv` is needed for that. The
buffer written on a full list is `AveragePing(s)`, which reads `s[1]`, `s[2]` and `s[3]`.
It is a natural number only because the list then holds exactly three routes. That
follows from `Len(samples) < SampleAmount` in `SamplerConsistent`.

The lemmas:
* `RouteType`: every route the server may return is well typed.
* `SizesNat`: the conversion yields naturals.
* `MeetsBool`, and the history lemma `HistoryType`.
* `StopSamplingIdle`: both exits leave the sampler idle.
* `SampleStep`: one call of `SampleAutoBuffer` preserves `IInv`, whatever values the
  caller leaves the widgets at.

The theorem's step proof has one case per action.

`GameLifecycleProofs` proves `TypeInductive`, `Spec => []TypeOK`, for every
`MaxGames`, with `hosting` either way. `TypeOK` is inductive as it stands: every
game id that enters a message, an event or the core is one of three things:
* the id the server has just started, kept within `MaxGames` by the guards of
  `OnStart` and `RemoteStart`;
* the running session;
* one read from the head of a well-typed queue.

The lemmas `AppendType` and `HeadType` carry queue types through `Append`, `Head` and
`Tail`.

`ConfigScopeProofs` proves two theorems, for every set of titles and game list:
* `NoLeakedLayersHolds`: `Spec => []NoLeakedLayers`;
* `TypeCorrect`: `Spec => []TypeOK`.

`NoLeakedLayers` only speaks of states where both threads are idle, so it is not
inductive. The strengthening `IInv` adds two facts:
* an installed GlobalGame (LocalGame) layer has a thread between its `AddLayer` and its
  `RemoveLayer` of that type, which owns it;
* a thread in that stretch resolved a listed game.

With both threads idle no thread owns a layer, so none is installed. The argument
works because `RemoveLayer` erases by type. A later removal by either thread clears a
layer, whoever installed it. That is also why the race `cs_race` shows is not a leak.

The lemmas:
* `ResolveKeeps`: a thread entering a read was no owner.
* One lemma per table step.
* `LookupType`: `Config::Get` always finds a layer, because `Base` is last in
  `SEARCH_ORDER` and is never removed. The proof names the first supplying index
  explicitly.

`TypeOK` is proved together with `IInv`, because `AddLayer` installs `game[th]`, which
is a title only for a thread that resolved one.

`ConfigScopeProofs` also proves `NetReadSeesAnnouncedHolds`,
`Spec => []NetReadSeesAnnounced`. The property is not inductive: it says nothing of
the queue of posted lambdas. The strengthening `AInv` says:
* with nothing posted, `m_current_game` is the announced title;
* with lambdas posted, the announced title is the last one posted;
* a network thread inside a read found nothing posted when it resolved, and resolved
  the announced title.
`UIChangeGame` keeps the first two facts because it pops the head, and when that
empties the queue, the head was the last title posted. `NetChangeGame` keeps them
because it appends the title it announces. A network read can still be in flight when
a new title is announced: the third fact holds only because `NetChangeGame` waits for
the network thread to be idle, which is the network thread's own ordering (it handles
one message at a time). The proof uses `TypeOK`, which `TypeCorrect` gives.

`GameLifecycleOptionsProofs` proves `OptionsFollowCoreHolds`,
`Spec => []OptionsFollowCore`, for every `MaxGames` and either dialog.
`OptionsFollowCore` speaks only of states where both threads are idle. It is not
inductive, because a state event or a `SetOptionsEnabled` lambda may still be queued
on the UI thread. The strengthening `OInv` says what the queue will do to the options
once it drains: `FinalIs(q, o, v)` holds when one of three things is true.
* The last state event in the queue carries `running = ~v`, so `GameStatusChanged`
  (844-850) will post `SetOptionsEnabled(v)`.
* Otherwise, the last `SetOptionsEnabled` in the queue sets `v`.
* Otherwise, the options are already `v`.

`OInv` has two parts:
* with the core not idle, the queue ends with the options disabled;
* with the core idle and no start pending (no start or boot event in the UI queue
  and no start message in the network inbox), the queue ends with them enabled.

The lemmas carry `FinalIs` and the pending-start condition through `Append` and
`Tail`, one per queue operation. `OInvStep` has one case per action.

`BufferUnitsProofs` proves `TypeCorrect`, `Spec => []TypeOK`, for every set of typed
values in the boxes' range (`setRange(0, 10000)` at 121). `TypeOK` alone does not
constrain the numbers inside messages and queued lambdas, so it is not inductive.
`IInv` adds that every buffer, every message in the network inbox and every lambda on
the UI queue carries a natural number. The lemmas show that the rounding of
`QDoubleSpinBox`, the hundredths-to-frames conversions and the lossy truncation map
naturals to naturals. The other lemmas say that each handler's writes keep the record
of buffers, inbox and UI queue in that set.

`BufferUnitsDisplayProofs` proves `BoxShowsBufferHolds`: under the hypothesis
`Authority \subseteq {FALSE}`, `Spec => []BoxShowsBuffer`, for every set of typed
values, remote minimums and queue bound. The hypothesis is the scope of bu_session,
and it is needed: with authority on, a box at 0 decimals cannot show a
buffer in hundredths, and TLC finds the property false. `BoxShowsBuffer` speaks only
of quiescent states. The strengthening `BInv` says where each box is headed in every
state:
* while a `setValue` lambda for a box is queued, the last one carries the box's
  current buffer (`LastIs`), because every write of a buffer posts one in the same
  handler (886-908, 911-935);
* with none queued, the box shows its buffer, up to the truncation of a `Lossy` value;
* on a host, a minimum still in the network inbox leaves the minimum box
  unconstrained until `OnMinimumPadBufferChanged` handles it;
* the decimals match the title, every box value is already rounded to them, and no
  authority message in the inbox turns authority on.

`ApplyChangeGame` is the one step that changes the units. It always posts a new local
buffer and, on a host, sends a new minimum, so no box is left showing a buffer in the
old units. The lemmas cover three things:
* how `Append` and `Tail` move `HasKey` and `LastIs`;
* that rounding an already rounded value, or converting a buffer to the box and back,
  changes nothing;
* one lemma per action, assembled by `BInvPrime`.

`BufferUnitsEchoProofs` proves `EchoesBufferWritesHolds`: `Spec => EchoesBufferWrites`,
for every value of the constants, with authority on or off. This is an action
property: every step that writes `m_minimum_buffer_size` or `m_local_buffer_size`
leaves the `setValue` lambda with the new buffer as the last one queued for that box.
The argument follows the record a handler threads its calls through.
`EchoKept(s0, s)` says that each buffer `s` has changed since `s0` is echoed last in
`s.ui`. The calls keep it:
* `OnLocalPadBufferChanged` writes the local buffer and appends its lambda, and
  appends nothing for the minimum box;
* the server's broadcast writes no buffer;
* `ValueChanged` and `DecimalsChanged` are made of these calls.

Every action starts its record from the current buffers, so `KeptCommit` turns
`EchoKept` into the step relation. The theorem needs only `IInv` (from
`BufferUnitsProofs`), not `BInv`.

**Left to TLC.**
* `ControlsRestored` and `UnexpectedHaltEndsSession` are liveness properties under
  fairness. TLAPS here proves no liveness or `ENABLED`, so they stay model-checked.
* `BoxShowsBuffer` with host input authority on is false (see above). It is proved
  only for the authority-off scope that bu_session checks.
* `ReadSeesOwnGame` and the other violation properties are false, so there is nothing
  to prove.

## Not modelled yet, and the plan

1. **Session refinement.** This would be an abstract session (lobby, or game n running)
   that `GameLifecycle` refines under a mapping from the queues. It holds only once the
   two lifecycle findings are accounted for. The stale stop and the swallowed stop are
   exactly steps that map to no abstract step. It is therefore left until those steps
   are settled.
2. **The core's own game layers.** While a game runs, the core's boot code installs the
   same GlobalGame and LocalGame layers. A dialog read would then remove them. That
   code is not in this repository.
3. **The std::map race.** Two concurrent table operations are a data race inside
   `std::map`. `ConfigScope` makes each one atomic, which is the most the build can be
   said to do.

Left out on purpose:
* The chat, the MD5 dialog, the traversal messages and the player-table text. These
  are widget updates with no shared state.
* `OnHostInputAuthorityChanged` calls `setSuffix` and `setSingleStep` from the network
  thread. They race the UI thread inside Qt's widget state. This is below the level of
  the models, which run the network thread's widget calls as one step.
* `FMSettings`, `Version` and the Slippi EXI header. They are declarations and
  constants.
* The server and client. Their code is not in this repository.
