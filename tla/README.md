# TLA+ models of surfer's CXXRTL client

This directory holds TLA+ models of the libsurfer sources in `src/`. Each
model is translated from the code and checked with TLC. The main module
covers the CXXRTL client, `src/libsurfer/src/cxxrtl_container.rs`. The
client bridges the waveform viewer to an external simulator. It answers
queries synchronously from a three-state cache, and a background worker
fills that cache asynchronously.

## 1. Inventory

### Components, their state and operations

| Component | Code | State | Operations |
|---|---|---|---|
| Tri-state cache `CachedData<T>` | container.rs 52-113 | `Uncached{prev}`, `Waiting{prev}`, `Filled(v)` | `empty`, `make_uncached`, `get`, `fetch_if_needed` |
| Shared cache state `CxxrtlData` | 115-148 | `scopes_cache`, `module_item_cache` (per scope), `all_items_cache`, `query_result`, `interval_query_cache`, `loaded_signals`, `signal_index_map`, `simulation_status`, `msg_channel` | `on_simulation_status_update`, `invalidate_query_result` |
| Container facade `CxxrtlContainer` | 163-617 | the command channel sender; `Arc<RwLock<CxxrtlData>>` | `get_scopes` (plus `modules`, `root_modules`, `module_exists`, `child_scopes`), `fetch_item`/`fetch_all_items` (`variable_meta`), `fetch_items_in_module` (`variables_in_module`), `max_displayed_timestamp`, `max_timestamp`, `query_variable`, `load_variables`, `raw_simulation_status`/`simulation_status`, `pause`, `unpause`, `run_command` |
| Callbacks | the closures passed to `run_command` | captured data (`max_timestamp`, the `loaded_signals` snapshot, a scope) | fill a cell or invalidate one; `expect_response!` returns early on a wrong variant |
| Background worker `CxxrtlWorker` | not under `src/` (spec 4.3) | transport, `callback_queue` (FIFO), read buffer | write the next command and queue its callback; read a response, pop the oldest callback and run it under the data write lock |
| Interval query store `QueryContainer` | not under `src/` (spec 4.4) | per-signal samples over a window | `populate`, `query` |
| Protocol codec | not under `src/` | none | serde of `CSMessage`/`SCMessage`/`CxxrtlCommand` |
| Connection setup | container.rs 169-252 | none | `new` (greeting, state, worker spawn), `new_tcp`, `new_stdio` |
| WASM glue | `wasm_api.rs` | `MESSAGE_QUEUE` (Vec), `QUERY_QUEUE` (VecDeque of callbacks with oneshot senders) | `inject_message`, `id_of_name`, `perform_query` and its users, `start_cxxrtl`, the CXXRTL and WCP channel bridges, `handle_wasm_external_messages` |
| asm_gheith decoder | `translation/asm_gheith/mod.rs` | none | `TryFrom<u16> for I`, a pure function |

### How the parts interact

* Caller to data. A facade call takes the data write lock through
  `block_on`, looks up a cell and calls `fetch_if_needed`. On `Uncached`
  it calls `run_command`, which sends `(command, callback)` on a bounded
  tokio channel (capacity 100), and moves the cell to `Waiting`. The call
  returns the best value it has at once.
* Caller to worker. The channel is the only path, and the worker takes
  commands in channel order.
* Worker to simulator. The transport is ordered and reliable. Responses
  have no request id, so correlation is positional. The n-th response
  belongs to the n-th command written.
* Worker to data. Each response goes to the oldest queued callback, which
  runs with the data write lock held. Callbacks fill cells, invalidate
  `query_result` and send `InvalidateDrawCommands` on `msg_channel`.

### What is hard

* Two actors share the data: the caller thread and the worker task. A
  call that takes the lock more than once can see data change between
  its sections. `query_variable` takes it three times, and `unpause`
  takes it and then sends without it.
* Responses come back in FIFO order and carry no id. An invalidation
  that reaches a cell while it is `Waiting` lets the cell be requested
  again.
* Failure handling is uneven. A wrong variant strands a cell, while some
  callbacks (`load_variables`, `unpause`) ignore the response entirely.
* The channel is bounded, so a full channel blocks the caller. It blocks
  while still holding the data lock.
* The status set by `unpause` is optimistic and is never refreshed.

### What makes each component correct

* Tri-state cache. Only `Uncached` sends a request, invalidation keeps
  `prev`, and a cell that is `Waiting` is eventually answered.
* Worker. Every callback receives the answer to its own command.
* Facade and callbacks. The interval cache is decoded in the simulator's
  column order. A filled query matches the loaded signals and the status
  window. Run targets never move backwards. `loaded_signals` and
  `signal_index_map` stay inverse.
* WASM glue. Messages are applied in injection order, and each query
  promise eventually resolves.
* Decoder. It agrees with the documented encoding table.

The list of hazards, each at the line where it bites, is in
`PROJECT.json` under `"hazards"`.

## 2. Plan

Modules are listed in order of importance. All eight items are done.

1. **`CxxrtlContainer`** (done). Caller, data, worker and simulator
   composed in one module, since their interaction is the subject. The
   MC module `MC_CxxrtlContainer` supplies the inputs.
2. **Coherence and fault runs** (done). See section 4.
3. **Violation runs** for the disagreements with the spec (done).
4. **`CxxrtlBackpressure`** (done). The write guard held across
   `run_command`'s blocking send, and the worker awaiting that guard.
5. **`CachedCell`** (done). The abstract cell contract of spec 4.1,
   which `CxxrtlContainer`'s static cells are shown to refine.
6. **`WasmMessageQueues`** (done). The two queues of `wasm_api.rs` and
   the tasks that fill them.
7. **`AsmGheithDecode`** (done). `TryFrom<u16>` over every 16-bit word,
   checked against the encoding table.
8. **`ItemKeys`** (done). `item_list_to_hash_map`, the split in
   `get_scopes`, and `child_scopes`, `root_modules` and `module_exists`,
   checked over every short name.

## 3. The module `CxxrtlContainer`

| Code | Model |
|---|---|
| `CachedData` variants and methods | `Uncached`, `Waiting`, `Filled`, `EmptyCell`, `MakeUncached`, `NeedsFetch`/`AfterFetch` (the two halves of `fetch_if_needed`), `Get` |
| `CxxrtlData` fields | variables `scopesCache`, `allItemsCache`, `moduleItemCache`, `queryResult`, `intervalQueryCache`, `loadedSignals`, `signalIndexMap`, `simulationStatus` |
| command channel, `callback_queue`, the byte stream | `commandChannel`, `callbackQueue` (each callback tagged with its command kind), `toSim`, `fromSim` |
| `run_command` | `RunCommands`: append to the channel if it has room |
| each facade lock section | one action: `GetScopes`, `FetchAllItems`, `FetchItemsInModule(s)`, `RawSimulationStatus`, `QvStatus`/`QvItems`/`QvQuery`, `LoadVariables(vs)`, `Pause`, `Unpause` |
| each closure | `ScopesCallback`, `AllItemsCallback`, `ModuleItemsCallback`, `QueryCallback`, `ReferenceCallback`, `StatusCallback`, `UnpauseCallback`, `PauseCallback`; `UnexpectedResponse` is `expect_response!`'s early return |
| worker | `WorkerSend`, `WorkerDispatch` (from the spec) |
| simulator | `SimHandle`, `SimError`, `SimAdvance`, `SimReachUntil` (environment) |

Abstractions:

* The design's scopes and items never change, so the scope list and the
  item tables are tokens. Statuses, timestamps and signal sequences are
  kept exactly.
* `interval_query_cache` is reduced to what `populate` is given: the
  captured signal snapshot, the columns the simulator reported (its
  current reference) and the window.
* `query_variable` is three actions. Between its read of `loaded_signals`
  (line 482) and its write lock (line 486) only the worker runs, and no
  callback writes `loaded_signals`, so those two steps are one action.
* `unpause` reads the status under the lock and then sends without it.
  The worker's steps in between commute with the send, because the send
  only appends to the channel tail and uses the value already read. The
  model therefore treats it as one action.
* `moduleItemCache` is total over `Scopes`. A missing `HashMap` entry
  behaves exactly like `CachedData::empty()`.
* `CallerOps` selects the facade calls a run makes. Cells that no call
  touches stay empty. Every callback writes only its own cell, which
  keeps the split between runs sound.

## 3b. The module `CxxrtlBackpressure`

This module answers one question: can the lock and the bounded channel
stop each other? It drops all cached data and keeps the two shapes of
sender.

* A **locked** sender runs `block_on(self.data.write())` and calls
  `run_command` before the guard is dropped. These are `get_scopes`,
  `fetch_*`, `raw_simulation_status`, `query_variable` and
  `load_variables`. The model splits this into `AcquireAndSend`, which
  takes the guard, and `SendLocked`, which sends once `Room` holds and
  then releases the guard.
* A **free** sender calls `run_command` with no guard held. These are
  `pause` and the send in `unpause`. The model uses `StartFreeSend`
  followed by `SendFree`.
* The worker is one task with two duties. `WorkerSend` is outbound.
  Inbound, `WorkerDispatch` runs when the guard is free. Otherwise
  `WorkerAwaitLock` is followed by `WorkerDispatchAfterWait`. While it
  awaits the guard, the worker serves neither duty.
* tokio's `RwLock` is fair. A caller therefore cannot take the guard
  ahead of a worker already queued for it.
* `channel`, `wire` and `inbox` count the commands that are queued,
  written and answered but not yet applied.
* `Done` is the stutter at rest, once everything is answered.

## 3c. The module `CachedCell` and the refinement

`CachedCell` is the contract of one cache cell, written from spec 4.1
rather than from code. It has a state (`Absent`, `Refreshing`,
`Filled`), a value, and `pending`, the number of requests for the cell
still in flight. `Issue` moves `Absent` to `Refreshing` and adds one
request. `Fill` takes an outstanding request and moves `Refreshing` to
`Filled` with some value. `Drop` takes an outstanding request and leaves
the cell as it is: this is an answer of the wrong variant, which is
logged and dropped. `Invalidate` moves either of the other two states
back to `Absent` and keeps the value and the requests in flight.

At the end of `CxxrtlContainer`, `AbsState` reads `Uncached`, `Waiting`
and `Filled` as `Absent`, `Refreshing` and `Filled`. `pending` is
mapped to the commands for that cell still in the command channel or in
the worker's callback queue (`Pending`, and `PendingModuleItems(s)` for
one scope). `ScopesCell`, `AllItemsCell` and `ModuleItemsCell(s)`
instantiate `CachedCell` through that mapping.
`StaticCellsRefineCachedCell` states that the container implements all
of them. A second request while one is in flight is a step that adds a
request and leaves the state `Refreshing`; no abstract action does that,
so the property fails on it. This is what `fetch_all_items` and
`query_variable`'s item section, which both fill the item table, must
not do. A fill needs an outstanding request and consumes it, so a
second fill from one request also fails it. For
the per-scope cells, TLC cannot check a quantified `Spec`, so the
property is written as the instances' `Init` plus a boxed action over
all scopes.

`query_result` and `simulation_status` are left out of the refinement:

* `unpause` writes the status optimistically, without a request
  (spec 4.5).
* A reference answer invalidates a `Waiting` query, so a second
  request goes out while the first is in flight (see section 4b).

## 3d. The module `WasmMessageQueues`

This module models `wasm_api.rs`. The web build runs on one thread.
JavaScript calls are async tasks that interleave only at their awaits.

| Code | Model |
|---|---|
| `MESSAGE_QUEUE` (`Vec`), `QUERY_QUEUE` (`VecDeque`) | `msgQueue`, `queryQueue` |
| `EGUI_CONTEXT` set by `WebHandle::start` | `ctx`, `Start` |
| `try_repaint` | `TryRepaint`: a repaint is requested only once `ctx` is set |
| `inject_message` | `InjectMessage(t)`: push and repaint, or a message that does not deserialise is dropped |
| `start_cxxrtl`, `start_wcp` | `StartChannel(t)`: push, with no repaint |
| `perform_query` and its callers `index_of_name`, `waves_loaded`, `spade_loaded`; `id_of_name` | `PerformQuery(t)`, `QueryReturns(t)`; `IdOfName(q)`. What a callback reads from the state is abstracted away |
| `draw_text_arrow` | `ArrowFromQuery`, `ArrowToQuery`, `ArrowPush` (two awaited queries, then an optional push) |
| `handle_wasm_external_messages` | `HandleWasmExternalMessages`: pop messages from the top, then run the callbacks front first |
| a frame | `RepaintFrame` (a requested repaint), `InputFrame` (user input) |

`State::update` is abstracted to the log `applied`. The history
variables `pushed`, `before` and `observed` record, for each query, what
had been pushed before it and what had been applied when it ran.

## 3e. The module `AsmGheithDecode`

`TryFrom` is an operator that uses the code's own masks and shifts,
written with `Bitwise`. `Documented` is the encoding table from the
comment at the top of `asm_gheith/mod.rs`, written with bit positions.
`Init` takes any word, and `Decode` moves to the next word as a
wrapping `u16`. `MC_AsmGheithDecode` sets `Words` to all 65536 words.

## 3f. The module `ItemKeys`

The wire names a scope or an item by its path segments joined with a
space. `ItemKeys` models how the client turns those names into cache keys.

| Code | Model |
|---|---|
| `str::split(' ')` | `Split`, a `FoldRight` over the characters; `""` gives one empty piece |
| `ScopeRef { strs: name.split(' ') }` in `get_scopes`' callback | `ScopeRefOf`, `ScopeTables` |
| `item_list_to_hash_map` | `ItemKey` (path is all pieces but the last, name is the last), `ItemListToHashMap` |
| `.collect()` into a `HashMap` | every table that keeps one of the names that collide on a key |
| `child_scopes`, `root_modules`, `module_exists` | `ChildScopes`, `RootModules`, `ModuleExists` |
| the callbacks of `fetch_all_items` and `get_scopes` | `ListItemsAnswer`, `ListScopesAnswer`: each cache is filled once, as the code never makes these cells `Uncached` again |

A string is a sequence of characters. A `CxxrtlItem` is abstracted to the
name it was listed under, and a `CxxrtlScope` likewise.

The reference is the wire convention read backwards. `JoinKey` joins
segments with the separator, and `IsChildName` says that a name extends
a listed parent's name by the separator and one separator-free segment.
The root, named `""` on the wire, has no such form; `RootNotOwnChild`
states what its children must not include. `MC_ItemKeys` takes names
of up to three characters over `{"a", " "}`, and answers of up to two
names. That covers the empty name, leading, trailing and doubled
separators, and every pair of them.

## 4. Runs

The runs of `CxxrtlBackpressure` set their constants in the cfg:

| Run | Bounds | Checks | Result |
|---|---|---|---|
| `backpressure` | 1 locked and 3 free sends, `ChanCap` 3 | `TypeOK` | pass (222 states). Free sends block on the full channel and complete. The worker meets the held guard, waits and resumes. The run fires every action of the module; what it shows of the lock discipline is in `locked_send_full`. |
| `locked_send_full` | 2 locked and 1 free send, `ChanCap` 1 | `NoCircularWait` | violated. The caller is blocked on the full channel holding the guard, while the worker holds a response and awaits that guard. |

The container runs use `MC_CxxrtlContainer` with variables `{v1, v2}`,
one scope, `Quantum = 1`, and load inputs `<<v1>>` and `<<v2, v1>>`. The
second input re-loads `v1`, which must keep its position.

| Run | Calls, bounds | Checks | Result |
|---|---|---|---|
| `coherence` | loads 2, pause 1, unpause 1, queries; no errors; `ChanCap` 4 | `TypeOK`, `ColumnsMatch`, `QueryColumnsCoherent`, `IndexMapInverse`, `ResponseMatchesCallback`, `QueryEventuallyAnswered` | pass (about 337k states) |
| `fetch_faults` | scopes, item tables, module items, status, queries, 1 load, 1 pause; 1 error on any command but `reference_items`; `ChanCap` 3 | `ResponseMatchesCallback`, `StaticCellsRefineCachedCell` | pass (859k states, about a minute). Each answer, an error included, reaches its own callback. The static cells keep the cell contract: one request in flight per miss, filled only by its answer. |
| `errored_reference` | 2 loads, 1 error on `reference_items` | `ColumnsMatch` | violated. `load_variables`' callback ignores the rejection (line 544), and the next query is decoded with the wrong columns. |
| `unpause_target` | pause 1, unpause 3 | `RunTargetsNeverRegress` | violated. After unpause the status is `running` at time 0 forever, so the next target is `0 + quantum`, below the previous one. |
| `stale_window` | load 1, pause 1, unpause 1 | `QueryWindowCoherent` | violated. `max_timestamp` is read (line 480) before a pause response and the query is sent after it, so the filled window stays behind the status. |

The decoder runs use `MC_AsmGheithDecode`:

| Run | Checks | Result |
|---|---|---|
| `asm_decode_fields` | `TypeOK`, `AgreesExceptImmediate` | pass (65536 states). Every word decodes to the table's operation and registers, and every word the table leaves out is `UnknownOpcode`. |
| `asm_decode_table` | `DecodeMatchesTable` | violated at `0x8000`. The code takes the MOVL/MOVH immediate from bits 8..15 (`(value & 0xFF00) >> 8`, line 82). The table puts it in bits 4..11. `0x8000` decodes to `movl r0, 128` where the table gives 0. |

The key run uses `MC_ItemKeys`:

| Run | Checks | Result |
|---|---|---|
| `item_keys` | `TypeOK`, `ItemTableInvertsKeys`, `ChildScopesOneLevelDown` | pass (14,884 states). `item_list_to_hash_map` keeps every listed item, under a key whose path and name join back to its name. `child_scopes` returns exactly the scopes one segment below, for every listed scope. The root is not a parent here; `MC_ItemKeysRootChild.cfg` (4b) shows what `child_scopes` does for it. |

The WASM runs use `MC_WasmMessageQueues`. `wasm_queues` has one
injected message, one `start_cxxrtl`, one query and one `draw_text_arrow`;
`wasm_lifo` has two injected messages:

| Run | Checks | Result |
|---|---|---|
| `wasm_queues` | `QueryObservesEarlierMessages`, `QueriesReturn`, `RepaintedMessagesApplied` | pass (8367 states). A query sees every message pushed before it, and every awaiting query returns. Every message pushed by `inject_message` or `draw_text_arrow` is applied with no user input. This holds even when the message is pushed before `WebHandle::start`, where `try_repaint` only warns: the first frame drains it. |
| `wasm_lifo` | `MessagesInPushOrder` | violated. Two messages pushed before one frame are applied in reverse order, because the queue is drained with `Vec::pop` (line 327). |

Each property of a passing run is paired with a mutant of the code under
that run's configuration. `PROJECT.json` lists them, and TLC finds every
one violated. The mutants are:

* a channel without backpressure;
* a `list_items` command built as the `list_scopes` variant, whose answer
  then reaches the wrong callback;
* a query callback that decodes against the live `loaded_signals`;
* a reference callback that does not invalidate the query;
* a load loop without the `contains_key` check;
* a query section that marks the cell `Waiting` without sending;
* `fetch_if_needed` that sends again for a `Waiting` cell;
* a free send that ignores the channel's capacity;
* the decoder's `rt` read with a five-bit mask, and its selector read
  from the `ra` nibble;
* a frame that runs the query callbacks before applying the messages;
* `perform_query` without `try_repaint`;
* `inject_message` without `try_repaint`;
* a split that keeps each separator in the next piece;
* an item path cut from the second piece (`&sp[1..]`);
* `child_scopes` without its length check.

### 4b. Further checks

These configurations are kept beside the runs above and can be run the
same way (`tlc -config X.cfg MC_...`). Each finds its property
violated.

* `MC_DuplicateQuery.cfg` (`MC_CxxrtlContainer`, `OneOutstandingQuery`).
  A reference response invalidates a `Waiting` query, and a second
  `query_interval` goes out while the first is in flight. The spec asks
  for both "at most one outstanding request" and "invalidation demotes
  `Refreshing` to `Absent`". The code does the second, so it cannot also
  do the first.
* `MC_WasmStartNoRepaint.cfg` (`MC_WasmMessageQueues`,
  `MessagesApplied`). `start_cxxrtl` called after the first frame pushes
  its `SetupCxxrtl` message without `try_repaint` (line 285). With no
  user input, that message is never applied.
* `MC_ItemKeysEmptyName.cfg` (`MC_ItemKeys`, `NoEmptyItemNames`). The
  spec drops a malformed item key with a log entry. `split(' ')` never
  returns an empty vector, so the `sp.is_empty()` branch (line 358) is
  dead. The key `""`, or one ending in a space, becomes a variable with
  an empty name.
* `MC_ItemKeysRoot.cfg` (`MC_ItemKeys`, `RootModuleExists`).
  `root_modules` returns the empty `ScopeRef` (line 396). Every key of
  the scope table comes from `split(' ')` and has at least one segment,
  so `module_exists` never finds the root, even when the simulator lists
  the root scope `""` (that becomes `[""]`).
* `MC_ItemKeysRootChild.cfg` (`MC_ItemKeys`, `RootNotOwnChild`). The same
  mismatch at the boundary of `child_scopes`' length check (line 414):
  for the root (no segments), the children are the keys with one
  segment, and `[""]`, the key of the root scope `""`, is one. A walk of
  the scope tree from `root_modules` meets the root again below itself.

Why these bounds are enough:

* Every container violation above needs at most two loads, one pause
  and three unpauses. TLC finds each within a few thousand states.
* The coherence properties involve one query in flight plus one
  reference or status change. Two loads and one pause/unpause already
  produce that in every order.
* In `MC_CxxrtlContainer` runs, a full channel disables the caller's
  next send instead of blocking it with the guard held; a few loads and
  a pause can fill it. The blocked send, and the deadlock it leads to,
  are the subject of `CxxrtlBackpressure`.
* In `CxxrtlBackpressure`, the circular wait needs only `ChanCap + 1`
  sends with at least one of them locked, so `ChanCap = 1` shows it. The
  code's capacity of 100 changes how many commands must queue, not the
  shape of the wait. The passing run has more free sends than slots, so
  the blocking path is taken and every action fires; it makes no claim
  of progress, because with one more command the wait is reachable, as
  `locked_send_full` shows.
* The decoder runs cover every 16-bit word, so nothing is left to bound.
* For the key run, each shape of split already appears in three
  characters: empty, one segment, two segments, empty segments at either
  end and doubled separators. Two names per answer are enough for a
  collision and for a parent-child pair.
* The WASM runs have two pushes before any frame, which is all the
  order inversion needs. They also have a query that races a push, and
  a two-query task that re-enters the queue after a frame.

## 5. Fairness

`WorkerSend`, `WorkerDispatch`, `SimHandle`, `SimAdvance` and
`SimReachUntil` are weakly fair. The tokio worker task is woken whenever
its channel or socket has data. The spec assumes the simulator answers
and runs. A lost answer is the separate fault `SimError`, which is not
fair. The caller (the UI) gets no fairness, because it may stop calling
at any point.

In `CxxrtlBackpressure`, `SendLocked`, `SendFree`, the worker and
`SimAnswer` are weakly fair. A blocked `send` is woken by the channel
once there is room. Starting a call (`AcquireAndSend`, `StartFreeSend`)
is the application's choice, so those steps get no fairness.

In `WasmMessageQueues`, `Start`, each task and `RepaintFrame` are
weakly fair:

* The page starts the app.
* The wasm executor polls every ready future.
* egui paints a requested repaint on the next animation frame.

`RepaintedMessagesApplied` depends on the first of these for messages
pushed before `WebHandle::start`: their repaint request is lost, and the
first frame after start is what drains them. User input (`InputFrame`)
is not assumed, so no property depends on the user.

`InputFrame` has no fairness, because the user need never touch the
page.

## 6. Not modelled

* The greeting handshake and frame assembly. Both are byte-level I/O
  before or below the command protocol.
* Connect and spawn failures. These return `Err` before any state exists.
* Serde encoding.
* `QueryContainer::query`'s binary search. `QueryContainer` is not under
  `src/`, so only the spec's description of the lookup could be modelled,
  and no code of this repository would be checked by it. The container
  model keeps only which signals, columns and window the store holds.
* Simulator events and `finished`.
* `msg_channel` redraw notifications. They are fire-and-forget sends that
  change no state of the client.
* In `wasm_api.rs`:
  * the CXXRTL and WCP channel bridges, which forward between JavaScript
    and a channel and hold no state of their own;
  * `WebHandle::new` and the DOM setup;
  * the content of `State::update`, which is abstracted to the log of
    applied messages.
* The decoder's `Debug` formatting, which is layout only.
* `variable_meta`, `variables_in_module`, `no_variables_in_module`,
  `modules` and `max_displayed_timestamp`. They only read a cell through
  the fetch calls that are modelled, and they add no state change.
