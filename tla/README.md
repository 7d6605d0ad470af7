# Verification of the debugger clients and recording readers of fe2o3-kernels

The repository is a tutorial site with a few programs inside it. Most of its
lines are lessons, recordings and their validators: static data and pure
functions. The parts that carry state, wait for something and can go wrong over
time are the clients of local debugger bridges, the controllers that guard what
the page shows, the readers of recorded sessions, and the pages that own them.
This directory specifies those parts in TLA+, checks them with TLC and proves
what matters most about seven of them with TLAPS.

## 1. Inventory

| Component | State | Operations | Hard behaviour | What makes it correct |
|---|---|---|---|---|
| `CpuDebugSession` (`src/lib/cpu-debug-session.ts`) | connection with its view, generation, pending exchange, lease, seven retained observations, owner | `connect`, `sendCommand`, `collectQueries`, `collectObserved`, `inspectDeclaredTarget`, `invalidate`, `disconnect` | each `await` lets any other call run; timer, abort and response race; the outcome of a request may be unknown | view equals the bridge's state, no stale observation, one request at a time, no retry, no lost handle, every exchange and lease ends |
| Collectors (`cpu-live-query-collection.ts`, `cpu-observed-collection.ts`, `cpu-observed-protocol.ts`) | local variables across up to six commands, the session's lease | the next command, a result, or giving up | an invalidation or disconnect between two commands, the sequence limit | reservation suffices, lease released, result anchored to its checkpoint |
| Live panel (`LiveCpuDebuggerWorkbench.tsx`) | `busy`, `generation.current`, four things shown | six buttons, two kinds of typing, unmount | superseded handlers continue after their await | what is shown is current, `busy` is exact and ends |
| V20 client (`physical-cpu-v20-session.ts`, `physical-cpu-v20-protocol.ts`) | connection, generation, pending; per connection a protocol object with position, selection, page cursor, end | `connect`, `command` (seven operations), `invalidate`, `disconnect` | a reply is admitted, then a digest is awaited, then the exchange is checked for being current | retained checkpoint and page are of the present event, honest replies are accepted, same promise as above |
| V20 panel (`LivePhysicalCpuDebugV20.tsx`) | epoch, busy, shown reply | as the live panel | as the live panel | as the live panel |
| Resource memory controller (`resource-memory-controller.ts`, with `resource-memory-view.ts`) | selection, live ticket, budget, last request id | `select`, `begin`, `receive`, `fail`, `cancel`, `disconnect` | the owner hands in answers late, twice, or with the wrong ticket | bytes shown are the answer to the request of the present selection |
| Recorded resource import (`RecordedResourceImport.tsx`, `recorded-resource-import.ts`) | two file boxes, ticket and abort of the running import, the recording; in the reader checkpoints, page tokens, ids | choose, start, cancel, reset, leave; one round per pair of lines | two imports overlap, an abort does not stop the digests, results are drawn later than they are set | a superseded import installs nothing; the reader accepts exactly the excerpts of a recording |
| Its views (`ResourceSelectionBookmark.tsx`, `resource-selection-bookmark.ts`, `resource-pointer-memory-navigation.ts`) | selection, pointer, baseline, bookmark reader, object URL and its timers | select at four levels, follow a pointer, save, restore | handlers act on the selection they were drawn with; a restored one is drawn later | each selection can be saved and reopened, the bytes shown are those selected, no download leaks |
| V22 LDS recording reader (`physical-lds-debug-v22-protocol.ts`, `-views.ts`) | position, and per event what was shown of its table and bytes | a line of eight operations, answered or refused | pages in any order, a checkpoint visited again after others | everything accepted is said of one recording, nothing true is refused |
| Frame of every page (`App.tsx`, `useModalDialog.ts`, `SearchDialog.tsx`) | open dialogs, chunks that arrived, what is inert, the focus, the address in the router and the one drawn | open and close a dialog, follow a link, frames of a dialog and of `RouteFocus` | a dialog replaces another, a chunk or route arrives under a dialog, two frames want the focus | the page is locked exactly under a dialog; the focus returns to its trigger or goes to the new content |
| Progress (`useProgress.ts`) | React state and one entry of local storage, with a migration from version 1 | load, toggle, prune | the page ends between two calls of the storage, a write is refused; two tabs: the last writer wins | a stored lesson is not lost, a reload shows the same; nothing is promised between tabs |
| Publication gate (`enforce-publication-gate.mjs`) | none between runs | one pass of refusals | none at run time | nothing unlisted is published |
| Observed lifetimes (`validateLifecycle` in `cpu-observed-protocol.ts`, `cpu-observed-lifetimes.ts`) | maps of what is live, was created and is in each slot; lifetimes, the open ones, bytes and peak of each group | one round per row of a lifecycle page, in each of two loops | a slot used again by another allocation; totals of 64 bits; a peak that stays | admits exactly what a storage can do first; lifetimes and demand are those of the rows |
| Banks, declared target, other validation | none | joins over one reply | none | the join is what the reply says |
| Registries, search scoring, theme, recorded viewers, the pages themselves, evidence scripts | static or local to a page | selection, filtering, drawing | none beyond the import pattern | – |

The components meet as follows. A panel calls one asynchronous method of its
client and awaits it. The client sends one HTTP request to a bridge on the
user's machine, a program that is not in this repository, and awaits the
response, a timer or an abort. A collector runs inside the client and sends
several commands under a lease that excludes every other caller. The resource
memory controller does no input or output: its owner sends the request of a
ticket and hands the answer in. Only the learner's progress is persisted, so only there
a page may end between two writes. In the clients what takes the place of recovery is *doubt*, the state after a request
with an unknown outcome, in which only a disconnect is allowed. The recorded pages
talk to nobody: a file reader delivers text, a reader of the recording accepts
or refuses the whole of it, and the views select in what was accepted. The frame of the
page shares with its routes only the focus of the document.

`PROJECT.json` lists every component, with the reason where it is not modelled,
and every hazard with its line.

## 2. The modules

### `CpuDebugSession` – the session, its collectors and its bridge

JavaScript runs one task at a time. An activation of an `async` method is a
record in `calls` whose `stage` names the await it is suspended at:

| stage | in the code |
|---|---|
| `wire` | awaiting `fetch` or the body in `exchange` |
| `aborted` | the abort has happened, the rejection is due |
| `answered` | `exchange` returned its text (`finally` has cleared `pending`), `connect`, `sendCommand` or `disconnect` has not continued |
| `idle` | ended |

`generation` increases with every exchange, so it also names exchanges,
`AbortController`s, leases (the generation of the collector's first command) and
the panel's handlers. `Quiet` says that no continuation is due: responses and
timers are tasks and are handled only then, while any caller may run *between*
two microtasks. A collector is a record in `jobs`, with `wait` the exchange it
awaits and `next` what it decided to do after the reply.

| code | definition |
|---|---|
| `exchange`: start, timer, response, `catch`/`finally` | `Exchange`, `Timeout`, `Deliver`, `DeliverFailure`, `Unwind`, `Fail` |
| `connect` | `Connect`, `AcceptConnect`, `RejectConnect` |
| `sendCommand` | `CanSend`, `CacheOnSend`, `Send`, `Command`, `AcceptReply`, `RejectReply`, `CacheOnReply`, `OwnersOnReply` |
| `decodeCpuBridgeReply`, `validateCpuObservedReply` | `Decodes`, `Bound`, `RevisionAfter` |
| collectors | `CollectQueries`, `CollectObserved`, `CollectBadSelection`, `InspectDeclaredTarget`, `NextOps`, `JobSend`, `JobReturn`, `JobFail` |
| `invalidate`, `disconnect` | `Invalidate`, `Disconnect`, `AcceptDisconnect`, `RejectDisconnect` |

Data is reduced to what correlates it: connection ids are numbers, an
observation is the connection and revision it was made at (`Stamps`), a payload
is usable or not (`good`). Operations of the same effect share a name: `step`
stands for both directions (`continue`, which yields no checkpoint, is its own operation), `edit` for the four breakpoint and watchpoint changes,
`state` for the reads without context.

The bridge (`ServeConnect`, `ServeCommand`, `ServeDisconnect`, `BridgeStops`) is
external. It is modelled from the codes the client distinguishes and from the
synthetic bridge in `tests/fixtures/cpu-debug-bridge.ts`: one session, commands
anchored to its sequence and revision, errors that may or may not say the
session is closed, requests that are never answered. With `InOrder` false it
serves requests in any order; with `Replay` true it may repeat an old reply.

### `DebugSession` – what a caller is promised

Five phases (closed, opening, live, busy, doubt), fresh session ids, one command
at a time with the next sequence and none past the limit, and no way out of doubt but
closing. It states over whole runs what the documentation promises:
"There is one request at a time and no automatic retry" (`docs/live-cpu-debugger-v1.md:354`),
"Treat live state as unknown, clear it and request cleanup; never retry a
mutation automatically" (line 541), and "Unknown outcome … No retry occurs; the
captured connection becomes cleanup-only" (`docs/physical-entry-cpu-live-v20.md:50`).
Both clients implement it (`ImplementsDebugSession`): `CpuDebugSession` by proof, and
both by model checking.

### `LiveCpuWorkbench` – the panel composed with its session

Extends `CpuDebugSession`. Each control is an action whose guard is the
condition under which the control is not disabled; it calls the client's action
and records a handler. `Continue` is the rest of a handler after its await. The
counter `generation.current` is compared only with itself, so each handler
carries a flag `current` that every increment resets. `Rebuff` is a handler
whose call throws before it sends. The panel's handlers are tasks, so
none starts while a continuation is due (`PanelQuiet`).

### `PhysicalCpuSession` – the V20 client

Session and protocol object in one module, because the order of their changes
is the point: `Deliver` admits a reply (and for everything but a page of values
changes the protocol object at once), `Hashed` is the end of the awaited digest,
`Finish` and `FinishLate` are the check that the exchange is still current and
within its deadline. A protocol object outlives its connection, so `protocols`
is indexed by connection. The recording has events `1..End-1` between the sentinels 0
and `End`; steps clamp there, a seek may ask for `End + 1` and is refused. The
bridge is external, modelled from `tests/fixtures/physical-cpu-v20.ts`.

Calls of this client start only when no continuation is due: the panel is its
only caller, and the handlers of a page are tasks. `disconnect` relies on that.
It forgets the connection one microtask after its exchange ended
(`physical-cpu-v20-session.ts:160`), and a second `disconnect` in that microtask
would start an exchange of a connection that is about to be null. What the panel
can do, a second disconnect or another input while the first disconnect is under
way, is in the model.

### `PhysicalPanel` – the V20 panel composed with its client

Extends `PhysicalCpuSession` as `LiveCpuWorkbench` extends `CpuDebugSession`. The
panel has one `perform` for all its controls: `Await` is its part before the
await, `PerformEnds` the one after it, `Refused` a call that throws before it
sends. `epoch` advances in `clear` and on unmount; a handler keeps a flag that is
reset wherever it does. Disconnect stays enabled while the panel is busy.

### `FileImport`, `RecordedImport`, `RecordedViews` – a page that imports files

`FileImport` is the promise: a recording appears only by an explicit start, only
of the files now in the two boxes, and every change of mind takes it away at once.
`RecordedImport` is the page: an activation of `startImport` is a slot that awaits
a `FileReader` (`Loaded`, `ReadRefused`) or the digests (`Hashed`), which an abort
does not stop. What React has drawn is a variable of its own (`drawn`), because a
handler acts on what it was drawn with; an event draws its own changes
(`PageEvent`), the results of an import are drawn later (`Draw`).

`RecordedViews` extends it with the views of the imported recording. A recording is
the sets of ids it retains, so two recordings may share ids, as real ones do.
`selection` is the React state, `seen` what handlers close over; `restored` holds
between the reading of a bookmark and the next drawing. `Selections`, `Act` and
`Remount` are the four levels of selection and what is mounted anew; `Target`,
`SelectPointer` and `Displayed` the pointer navigation; `Save`, `Expire`, `Revoke`
the downloads with their timers.

### `ResourceRecording` – the reader of the imported lines

The loop of `importResourceRecording`: one action per pair of lines, accepted
(`Read`) or refused, and the checks after the last (`Finish`). A line is one record
with the fields that are compared *across* lines; all that concerns one line alone
is the Boolean `sound`. Checkpoints, tokens and ids are as in the code.

### `ObservedLifetimes` – the rows of a lifecycle page

A lifecycle page lists creations and releases of storage from the start of a run.
`validateLifecycle` refuses a page that no storage can have produced, and
`projectCpuObservedLifetimes` turns an admitted page into lifetimes and the bytes that each
group (an address space with its owner) holds. Both are loops over the rows, and
each prefix of a page is a page, so one step is one row in both: `Valid` and
`Validated` for the first loop, `Projects` and `Projected` for the second. `Refuse`
is a `throw` in either, after which nothing is returned. What one row alone decides
is the Boolean `sound`; access and alignment, which a successor must share with its predecessor, are
one `layout`; and 0 stands for null. The reference definition,
`History` and `Total`, speaks of the rows only and uses none of the maps.

### `LdsRecording`, `LdsRecorder`, `LdsTranscript` – the reader of V22 recordings

`LdsRecording` says what a recording is: for each checkpoint a table of rows, read
page by page, and the bytes of an allocation, read by windows. `LdsRecorder` is the
promise, without any of the reader's bookkeeping: the set of recordings that
explain what was read. A page or a window leaves exactly those that show it, and
moving about leaves all of them. `LdsTranscript` is the loop of `ldsProtocol`:
a Map of the code is the set of its entries, and a revision is kept relative to the
previous one. `Refuse` stands for every line that does not fit.
The instance maps the reader's maps to the tables and images that agree with them.

A table has a row per value at most, since its ids differ, but a *position* is bounded as a number only:
`MaxPosition` is 65536 where there are 768 values, and a page of up to `PageLimit` rows may start
there. The reader so accepts, keeps and shows rows at positions that no table reaches. The model has these lines
too, and `OneRecordingExplains` says that nothing else is wrong with what is accepted.

### `ResourceMemoryController`

The six methods, each one atomic action as in the code: they do not await. The
environment is an owner that may hand in the answer to the request of any ticket
(`u`), with any ticket (`t`), of any snapshot, window and verdict, at any time. A snapshot is a
cursor with a scope: an answer with bytes is held to both and to the window, one that says the memory is
unavailable to the cursor only.
The history variable `accepted` remembers whose answer completed a ticket.

### `ResourceMemoryReentrant` – abort listeners that call back

`AbortController.abort` runs the listeners of the signal inside the call. Here the
operations of the controller are cut where `invalidate` aborts, and a stack holds
the calls that have begun and not returned. The run finds a disagreement between
the code and its comment, see *The finding* below.

### `PageShell` – drawer, search, routes and the focus

`App` holds a drawer and a search dialog, both of which call `useModalDialog`: its
effect makes the rest of the page inert and asks for a frame that focuses the
dialog; its cleanup releases the page and gives the focus back. `RouteFocus` asks
for a frame of its own when a route is drawn. A task of the browser is a step: an
event with all that React commits for it (`Commit`: cleanups, then effects), a
chunk that arrives (`ChunkArrives`) and what waited for it (`MountSidebar`,
`MountDialog`, `Reveal`), the router's transition (`CommitRoute`), a frame
(`InitialFocus`, `Arrive`). The browser is external: which element Tab comes to
(`MoveFocus`) and when an element that became inert loses the focus (`FixFocus`).
The background a dialog releases is what it found when it opened, as in the
code, where the sidebar may be mounted later.

### `LearnerProgress` – local storage

Each call of `localStorage` is a step, and between two of them the page may end
(`Close`) or the disk fill up (`RoomChanges`). `page[t].at` is the next call of a tab:
`loadProgress` reads the two entries (`Open`, `ReadLegacy`), `persist` writes one and
removes the other (`SetItem`, `RemoveItem`). An entry is a list, no JSON, JSON of
another shape, or missing; a tab may be one that must not use the storage at all.
Two history variables say what was refused (`saved`) and what the learner took back
(`withdrawn`).

### Faulty variants

Definitions marked *Faulty variant* are not part of any specification. Each is a
plausible mistake in one definition (a dropped guard, a missing reset, an
off-by-one); with it in place of the right one, the property it is paired with in
`PROJECT.json` is violated. They document that each property can fail.

## 3. The runs

| run | question | distinct states |
|---|---|---|
| `session_collections` | both collectors with every ending, among commands, invalidations and disconnects, and a bridge that serves in order: leases, reservations, does the user always keep the handle of a live session? | 474,332 |
| `session_hostile` | commands of every kind, requests served in any order and old replies repeated: view, observations, anchoring of commands, one request at a time, `DebugSession` | 1,147,426 |
| `workbench` | the panel over its session: shown is current, busy is exact and ends; does each lease end? | 40,951 |
| `resource_memory` | the controller against any owner | 530,556 |
| `physical_panel` | the V20 panel over its client, with pages, digests, deadlines and repeated replies: retained and shown are current, honest replies fit, busy is exact and ends, `DebugSession` | 175,030 |
| `recorded_views` | two recordings with the same ids: overlapping imports, selections, pointers, bookmarks, downloads, `FileImport` | 12,475 |
| `resource_recording` | every excerpt of up to five lines: does the loop accept exactly the recordings? | 181,106 |
| `lds_transcript` | any lines over two checkpoints: is all that is accepted true of one recording but for claims of too many rows, is nothing true refused? | 147,030 |
| `observed_lifetimes` | every page of up to four rows: does the validator admit exactly what a storage can do, is the demand that of the rows? | 7,922 |
| `page_shell` | two dialogs, late chunks, three addresses: is the page locked exactly under a dialog, where does the focus end? | 187,985 |
| `learner_progress` | one tab, any entries, refused writes, an end between any two calls of the storage: is a stored lesson ever lost? | 19,524 |
| `resource_memory_reentrant` | an abort listener that calls back: does a change of selection invalidate the request? It does not | violated |

All but the last pass. What they show, property by property:

* `ViewMirrorsBridge`, `RetainedIsCurrent`: while the bridge holds the session,
  the view the next command will be anchored to is the bridge's own, even if requests are
  reordered and replies repeated.
* `NoStaleObservation`, `ShownIsCurrent`: no checkpoint, stack, inventory, runtime reply,
  collection or target is kept, or stays on the page, over a change of the
  debugged state.
* `CommandsAreNext`: a command that reaches its session is never stale there –
  nothing is sent twice and nothing after a command of unknown outcome.
* `OneRequestAtATime`, `BusyIsAwaiting`: `pending`, the activations and the panel's
  `busy` agree at every step.
* `LeaseIsHeld`, `ReservationSuffices`: a lease belongs to a running collector,
  and the commands a collector may still send are available to it.
* `NoOrphanSession`: with a bridge that serves in order, a session it holds is one
  the client can disconnect. The order matters: a `connect` that is served after
  the `disconnect` the user sent to cancel it leaves a session at the bridge that no
  client knows. The client cannot tell, and the property says so in its premise.
* `HonestRepliesFit`: the V20 client's checks never refuse a bridge that keeps
  to the recording, before and after the end is known.
* `ResultIsOwn`, `CompletesPending`: the controller shows bytes only for the request
  of the present selection, and only as the answer to it.
* `ImplementsFileImport`: whatever import is cancelled, superseded or left behind in
  its digests, the page keeps the promise of `FileImport`.
* `SelectionResolves`, `DisplayedIsSelected`, `DownloadIsTracked`: what is selected
  can be saved and reopened, what is displayed is selected, and an object URL is
  revoked once, by its own timer or before.
* `LoopIsExact`: the loop, which sees a line at a time, accepts a line exactly if the
  lines so far and this one satisfy a definition over whole excerpts (`Excerpt`), and
  its final checks are `Whole`. `EveryPairIsFiled`: each line is filed at the
  checkpoint it was recorded at, and no id names two things.
* `OneRecordingExplains`, `ImplementsRecorder`, `HonestLinesFit`: the V22 reader keeps
  just enough. Two accepted pages never contradict each other: at each checkpoint some table shows them all, exactly if they do
  not claim more rows than there are values, and some image shows all windows. What is recorded in its maps
  excludes exactly the recordings that the lines exclude, and the lines of a recorder
  that tells the truth are accepted in any order.
* `LoopsAreExact`, `DemandIsExact`, `SlotsAreExclusive`: the validator of a lifecycle page
  admits exactly the `History`s; the second loop refuses a page so admitted only
  where the bytes of a group exceed 64 bits, which the first does not look at; what is shown of each
  group is the sum over what exists, and its peak with the first row that reached it; two
  lifetimes never share a slot.
* `LockedWhileModal`, `FocusReturns`, `NoStolenFocus`, `LinkEndsInMain`: when one dialog
  replaces another the page is neither unlocked under the second nor left locked
  after it; the focus comes back to where it was before the first; no frame of a
  route takes it out of a dialog; and a link, even one in a dialog, ends in the
  content of its page although the dialog gives the focus back first.
* `ProgressPersists`, `ReloadShowsTheSame`: whatever call is the last before the page
  ends, or is refused, a valid lesson leaves the storage only because the learner took
  it back, and an idle page shows what a reload will show.
* `LeaseIsReleased`, `BusyEnds`: nothing hangs.

Three more properties of the controller and the V20 client are proved only:
`PendingIsLive` (what is pending is live and of the present selection),
`NothingLeftRunning` (each dropped request is aborted) and, of V20, `OneRequestAtATime`.

### The finding

`src/lib/resource-memory-controller.ts:72` says: "Explicit selection changes
invalidate pending and completed results." `select` calls `invalidate`, which
aborts the live ticket (line 161), and only then installs the new selection (lines
176–189). A listener of that signal which calls `begin` is given a new live
ticket, of the selection that is being replaced. `select` goes on without
invalidating it, so its answer is accepted and shown under the new selection.
`SelectionChangeInvalidates` is violated after begin, select with the nested begin,
and receive. An owner without such a listener is not concerned, and no component
of the repository has one.

### Observations without a run

Met while modelling. No document, comment or test promises the contrary, or
what promises it is another part, so no run calls them violations.

* The dialogs are focusable themselves (`tabIndex={-1}`, `App.tsx:105`,
  `SearchDialog.tsx:73`), and `useModalDialog` sends Tab round only from its first and
  last control. From the container Shift+Tab leaves the dialog, and the skip link is not among the
  parts it makes inert (`useModalDialog.ts:27-31`). `NoStolenFocus` therefore speaks of
  the topbar and the content.
* Two tabs: each writes all it knows (`useProgress.ts:35`), so a lesson completed in one is lost by a toggle
  in the other. With two tabs both properties of `LearnerProgress` are violated.
* `RecordedWatchpointBookmark.tsx` mounts its reader anew (line 101) in the same
  change that sets its message (line 59); the new one says that no bookmark has been reopened (line 17).
* A stored entry that is the empty string counts as missing where version 1 is looked for and as present where it is parsed
  (`useProgress.ts:45-49`), so the migration would store no lesson and remove version 1. Nothing
  writes such an entry, and `Entries` has none.
* The V22 reader accepts pages at positions beyond the number of values (`physical-lds-debug-v22-views.ts:61,86`, ids end at 767 in line 70),
  as long as no two pages disagree; no recording has such rows.
* The V21 page selects the local value space with a read
  (`PhysicalGlobalCopyDebugV21.tsx:133`), the V19 and V20 pages do not.

### Bounds

* `MaxSequence` is 254 and `MaxCommands` 255 in the code. The specifications
  compare them only with the next sequence, so small values reach the limit
  sooner and no other behaviour depends on them; the runs use 3 to 6, so that the limit is reached
  and, with 6, the longest collector (six commands) fits and is refused one command later.
* `MaxGeneration` bounds the calls of the client in one run. 5 to 7 fit a
  connect, commands or a whole collection, an invalidation or disconnect in the
  midst of it, and in the runs with two connections a second connect.
* `MaxConnections` is 2 where a late exchange of one connection could disturb the next, and 1
  elsewhere.
* `End = 3` and `Counts = {1, 2}`: two events, both sentinels, steps that arrive,
  clamp, and overshoot. `MaxEvents`, what the client
  clamps at until it knows the end, is 8192 in the code and 3 here, one more than the events of this recording.
* `ResourceMemory.cfg`: one context, two cursors with two scopes each, two windows, three requests (the first, one that supersedes it, and one after
  the budget has only one left), ids to 4, so that an id can be skipped.
* `PhysicalPanel.cfg`: two connections, four commands and five exchanges: a connect, a
  checkpoint, a page and its continuation over a bound that is reached, or a second connection
  while a digest of the first is still running.
* `session_hostile`: six operations stand for the kinds that differ in what they
  do to the view and to observations; the collectors are in `session_collections` only. That
  `NoStaleObservation` holds with collectors is not model-checked but proved (`ObservationsAreFresh`).
* `PageShell.cfg`: two pages, so that one can be left, and an address with an anchor on the
  second, so that a route can change within a page.
* `LearnerProgress.cfg`: two valid lessons and one that left the curriculum; one tab, since between
  tabs nothing is promised (see above).
* `RecordedViews.cfg`: two activations are enough for one to be superseded while it
  lingers; two recordings, one with two checkpoints and two windows at the first and
  none at the second, the other with one checkpoint and no window, with ids in common;
  two object URLs.
* `ResourceRecording.cfg`: five lines hold two checkpoints with what each needs, or one with
  two continued pages; two tokens, two queries, two captures.
* `LdsTranscript.cfg`: two checkpoints, two values and so tables of up to two rows (a value pending at one
  of them), pages of up to two rows at positions 0 and 1, so that three rows can be claimed of two values; two bytes at the second; three rows and two bytes may be read, so that a page or a byte is
  read again after the cursor left. `End + 1` steps overshoot at both ends.
* `ObservedLifetimes.cfg`: four rows hold a creation, its release, its successor and one allocation
  besides; two slots, three allocations, two layouts, and sizes 0 and 1 where `MaxBytes` is 2, so that the total of a group can
  overflow; a dispatch space, whose storage exists before, and two private scopes, between which a slot may pass. Workgroup storage differs from
  private storage in the name of its owner only, and is left out of the instance.
* Deadlock is checked in `recorded_views`, `page_shell` and `learner_progress`, where the page never stops. Elsewhere it is not: the generation bound, or a user who does nothing more,
  ends every run.

### Fairness

`PanelFairness` is, of either panel and its client, weak fairness of the continuations that are due (the event loop runs every microtask), of the timer
of each exchange (`setTimeout` is armed before `fetch`) and, in V20, of the
digest, which is a local computation.
`ImportFairness` and `ViewFairness` are weak fairness of each activation: a `FileReader` ends in one
of its events and digests are computed. `Fairness` of `PageShell` is that of frames and of routes: frames are drawn, and
the content of a route arrives. There is no fairness of the bridge, the network or the user:
busy ends although no answer may ever come.


## 4. The proofs

Each module below is proved for every value of the constants that satisfies the
named assumptions of the modules it extends.

| module | theorem | statement |
|---|---|---|
| `CpuDebugSession_proofs` | `TypeCorrect`, `SessionInvariant`, `RequestsAreSerial` | `Spec => []TypeOK`, `[]SessionInv`, `[]OneRequestAtATime` |
| | `Refinement` | `Spec => ImplementsDebugSession` |
| | `DueInvariant`, `WireInvariant`, `LeaseInvariant`, `ObservationInvariant`, `OrderInvariant` | `Spec => []DueInv` and so on: five layers of one inductive invariant |
| | `ViewAlwaysMirrors`, `CommandsAlwaysNext`, `LeaseIsAlwaysHeld`, `ReservationAlwaysSuffices`, `ObservationsAreFresh`, `NoOrphanIsLeft` | `Spec => []ViewMirrorsBridge`, `[]CommandsAreNext`, `[]LeaseIsHeld`, `[]ReservationSuffices`, `[]NoStaleObservation`, `[]NoOrphanSession` |
| | `PanelUsesClient`, `PanelInvariant`, `BusyAlwaysAwaits`, `ShownIsAlwaysCurrent` | of the workbench: `PanelSpec => Spec`, `[]PanelInv`, `[]BusyIsAwaiting`, `[]ShownIsCurrent` |
| | `WaitInvariant`, `WaitIsAlwaysServed`, `LeaseIsAlwaysServed` | `PanelSpec => []WaitInv`, `PanelSpec => []WaitIsServed`, `Spec => []LeaseIsServed`: what is waited for is under way or due |
| `PhysicalCpuSession_proofs` | `TypeCorrect`, `ClientInvariant`, `RequestsAreSerial`, `CommandsAlwaysNext`, `RetainedIsAlwaysCurrent`, `HonestReplies` | `Spec => []TypeOK`, `[]ClientInv`, `[]OneRequestAtATime`, `[]CommandsAreNext`, `[]RetainedIsCurrent`, `[]HonestRepliesFit` |
| | `Refinement` | `Spec => ImplementsDebugSession` |
| | `ReplyInvariant` | `Spec => []ReplyInv` |
| | `PanelUsesClient`, `PanelInvariant`, `BusyAlwaysAwaits`, `ShownIsAlwaysCurrent` | of the V20 panel: `PanelSpec => Spec`, `[](ClientInv /\ ReplyInv /\ PanelInv)`, `[]BusyIsAwaiting`, `[]ShownIsCurrent` |
| | `WaitIsAlwaysServed` | of the V20 panel: `PanelSpec => []WaitIsServed` |
| `ResourceMemoryController_proofs` | `ControllerInvariant`, `ResultsAreOwn`, `PendingIsAlwaysLive`, `NothingIsLeftRunning` | `Spec => []ControllerInv`, `[]ResultIsOwn`, `[]PendingIsLive`, `[]NothingLeftRunning` |
| | `CompletesPendingOnly` | `Spec => CompletesPending` |
| `RecordedImport_proofs` | `ImportInvariant`, `KeepsThePromise` | `ImportSpec => []ImportInv`, `ImplementsFileImport` |
| | `ViewInvariant`, `SelectionsResolve`, `DisplayedAreSelected`, `DownloadsAreTracked`, `ViewsKeepThePromise` | `ViewSpec => []ViewInv`, its parts, and `ImplementsFileImport` |
| | `RecordingInvariant`, `EveryPairFiled`, `LoopInvariant`, `LoopIsAlwaysExact` | `Spec => []RecordingInv`, `[]EveryPairIsFiled`, `[]LoopInv`, `[]LoopIsExact` |
| `ObservedLifetimes_proofs` | `LifetimesInvariant`, `SlotsAreNeverShared` | `Spec => []LifetimesInv`, `[]SlotsAreExclusive` |
| | `RowsInvariant`, `LoopsAreAlwaysExact`, `DemandIsAlwaysExact` | `Spec => []RowsInv`, `[]LoopsAreExact`, `[]DemandIsExact` |
| `LdsTranscript_proofs` | `TranscriptInvariant`, `Refinement`, `HonestLines`, `OneRecordingAlwaysExplains` | `Spec => []IInv`, `ImplementsRecorder`, `[]HonestLinesFit`, `[]OneRecordingExplains` |
| `PageShell_proofs` | `ShellInvariant`, `LockedExactlyWhileModal` | `Spec => []ShellInv`, `[]LockedWhileModal` |
| | `FocusAlwaysReturns`, `FocusIsNeverStolen`, `LinkIsAlwaysServed` | `Spec => FocusReturns`, `NoStolenFocus`, `[]LinkIsServed` |
| `LearnerProgress_proofs` | `ProgressInvariant`, `ReloadsShowTheSame`, `ProgressAlwaysPersists` | if `OneTab`: `Spec => []ProgressInv`, `[]ReloadShowsTheSame`, `ProgressPersists` |

*The session.* `OneRequestAtATime` is not inductive. A late exchange could clear
`pending` of another, and a closed session could be found with an exchange on the way. `SessionInv` adds: a closed
session awaits nothing (`ClosedIsQuiet`), a live one has no exchange of its own
under way (`LiveIsQuiet`), every activation knows its connection and is not
newer than `generation` (`CallsAreAddressed`). With these, each way an exchange ends either belongs
to the present generation, and then it is the only one, or changes nothing of the session. The same
invariant gives the refinement: each action maps to one step of `DebugSession` or
to none; the two cases worth reading are `AcceptReply`, where the sequence of the
reply is the one of the request by `Decodes`, and `Fail`, where a superseded
exchange must leave the phase alone.

*The session and its bridge.* None of the properties about the bridge is inductive, because each
speaks of what was said and the steps depend on what is still on its way. `DueInv` says who is due: a live session has no exchange left, the
exchange of a command is the only one (`DueIsAlone`), and each collector awaits a command of its own
(`JobsAwait`). `WireInv` says what the bridge may still receive and repeat. A connection has one request on the way besides
disconnects (`OneOfEach`); for a live session there is none, and for one that waits only what it
waits for (`OneOnTheWay`). A repeated reply is the last one of the session the bridge holds (`EchoIsPresent`), and it has an
older sequence than the request that is not yet served (`EchoIsPast`). Hence an answer that the
checks of the client let pass is the bridge's answer to this very request (`AnswerIsOwn`), in whatever order requests are served. From it come
`ViewMirrorsBridge` and `CommandsAreNext`.

*Leases and observations.* `Rest` counts the commands a collector has left. `LeaseInv` says that the
holder of a lease goes on, waits or is about to fail (`Leased`), and in the first two cases that its `Rest` commands
fit below the limit and the next one is admitted by the cache; the step from one command to the next is `NextFits`.
`ObservationInv` says of what is retained that it is of the view, or of the view the command under way was sent from,
and that neither this command nor anything on the wire changes what was observed (`CacheIsView`); and what `inspectDeclaredTarget` puts
back after its reply is of the view it was called on (`TargetAnchored`).

*A bridge that serves in order.* `NoOrphanSession` speaks of all that the client forgets at the end of a connection: it
forgets it when it was told that the session is closed, so `OrderInv` says that what it is told is so, and stays so since nothing on the way can open
the session again (`ToldIsTrue`). That needs the order: a disconnect follows every other request of its connection (`DisconnectIsLast`).

*The panels.* Each step of a panel is a step of its client or leaves it alone (`PanelUsesClient`), so all that is proved of a client
holds under its panel. `OneWait` strengthens `BusyIsAwaiting`: the one current handler is the one that started the
exchange that is pending, and holds the lease. `ShownInv` says that the workbench shows something only while the client is at
rest and then what the client has, and that a handler that is about to continue was resolved with the present view; the delicate moment is between the
two, when the reply was accepted and the handler has not run. In V20 that needs `ReplyInv`: an accepted
exchange tells where the protocol object is, page and continuation included (`AcceptedIsTold`), also if its digest ended after the reply of
a later one was due (`ReadIsAnswer`).

*The waits.* Of the liveness of the panels the half that is safety is proved: a handler that waits, superseded or not, never waits for something
that is over. In V20 that is inductive as it stands. In the workbench a collector goes through several exchanges, so `WaitInv` adds
that no collector awaits the exchange another handler waits for; otherwise the end of that exchange would resume the collector and
leave the handler. With `JobsAwait` it gives `WaitIsServed`, and with `LeaseIsHeld` the same of a lease (`LeaseIsServed`).

*The V20 client.* What the client retains is current because of what is still on its way.
`ClientInv` says of a connection that has seen no doubtful end (`Trusted`): at most one request of it
is on its way, that of the exchange that may still succeed (`OneOnTheWay`), and the protocol object
is where the bridge is or, before the answer, where that request found it (`ProtocolAgrees`). The hard case is a digest:
`accept` goes on after `invalidate` or a timeout and writes to the protocol object. Either that object is of another connection,
or the connection is not trusted any more, or the exchange is the one that may still succeed and then the page
is of the present checkpoint (`HashedKeeps`). An answer that arrives twice carries a request id that was used (`EchoIsLast`,
`AdmittedIsAnswer`). The invariant is defined with its proof. The refinement needs one more fact: the
first request of a connection has id 1 (`ConnectIsFirst`).
`HonestReplies` rests on `FitInv`: what the client knows of the end is either the end or nothing, and as long as it is nothing
neither its position nor the highest event it saw is the end (`Knows`). Then the arithmetic of the bridge, clamped at `End`, and
that of `accept`, clamped at the end only when known, agree, of the cursor and of the number of events advanced (`MoveFits`), and each admitted reply keeps `Knows`
(`AcceptedKnows`).

*The controller.* `ResultIsOwn` needs that an accepted answer is the ticket's own.
The code compares request ids only, so the invariant carries `IdsIncrease`: the ids of
the tickets tell them apart. That is what makes the check `requestId <=
lastRequestId` in `begin` necessary.

*The import page.* `ImportInv` ties the three ways in which the page knows of an
import: `busy`, `active.current` and the ticket. `OneReader` says that they name the
same activation, which was not aborted and reads the files in the boxes; every other activation can only be in its
digests. Each step of `FileImport` follows from it, and an ending that is not current maps to no step.

*The views.* `ViewInv` is `ImportInv` with the three properties. The cases worth
reading are those that draw: what is drawn resolves, and a pointer is fresh or
leads to the window selected (`DrawnKeeps`). The specification of the views is proved
to behave on the page's variables as `ImportSpec`, which carries the promise over.

*The imported lines.* `RecordingInv` adds to `EveryPairIsFiled` that no id read is greater than
`previousId`; then the next line, whatever it is, cannot be named twice or come before its checkpoint.
`LoopIsExact` needs that the few things the loop keeps are enough to judge a line: `LoopInv` says that
the lines accepted are an excerpt, and that the header, the checkpoints and the tokens kept are what a definition over all the lines
calls so (`HeaderAgrees`, `PointsAgree`, `TokensAgree`). The definition over whole sequences is brought down to one step by `ExcerptOfAppend`: an
excerpt and one more line are an excerpt exactly if that line `Follows`; then the guard of
the loop is compared with `Follows`, field by field (`FitsIsFollows`). The checks after the last line compare a count with what was promised; that they mean
`Whole` rests on the ranks of the lines of a checkpoint being their counts (`RanksAreCounts`, `CompleteIsWhole`).

*The lifetimes.* Allocations are numbered upwards (`LifetimesAreOrdered`), so the map `occupant` names the
last lifetime of a slot, which has its highest generation (`OccupantIsLast`). A row that takes the slot over is
admitted only if that one was released, and the two loops agree about which were
(`LoopsAgree`); every earlier lifetime of the slot had ended before.
`RowsInv` says the same maps of the rows (`MapsAgree`): `live` is what some row created and none released, and `occupant` names
the last creation in the slot. With both, a row is `Valid` exactly if it continues the history: the release half needs `LifetimesInv`, that what is live
is what its slot names (`LiveIsOccupant`); the creation half needs that an allocation which no longer exists has a row that
released it (`GoneIsReleased`). For the sums, the total of a group is defined as the number of the bytes of what exists, a cardinality,
so that one creation adds its bytes and one release takes them (`CreationAdds`, `ReleaseTakes`), with no recursion over the rows. From
`DemandAgrees` follows the demand with its peak, and also that the loop of the projection never finds too few bytes or no lifetime to
close in a page that was admitted (`ProjectsIsRoom`).

*The V22 reader.* The invariant has a query answerable exactly at a checkpoint
(`AnchorIsHere`), and the map from values to positions says nothing that the map of
rows does not (`IdsFollowSlots`). The refinement is an equality of sets: after an
accepted page, the tables that agree with the maps are those that agreed before and
show the page (`PageFilters`). `HonestLines` is the converse of the checks: for
a table that agrees with the maps, no check fails. `OneRecordingAlwaysExplains` needs that the maps are part of *one* table: a position
has one row, a value one position, and once a last page was read the table ends at the last row promised (`RowsAgree`); for bytes it is
`CellsAgree`. If no more rows were claimed than there are values, the rows that were never shown are filled with values that were not shown either, of which there are enough by a
count (`Room`, `RowsExtend`); if more were, no table is that long (`TableIsLong`). `ContentAssumption` says only that there are finitely many values and that a byte holds something.

*The frame of the page.* There is at most one dialog, and what is inert is what its effect took (`DialogLocks`). The element
it gives the focus back to is in the document and in no dialog, and is the one the first dialog took the focus from
(`FocusIsKnown`, `Recalls`); when a dialog replaces another in one commit, the cleanup of the first gives the focus back to that element before the effect of the
second reads it. The names of pages, dialogs and parts must be told apart (`ShellAssumption`).
Of `LinkEndsInMain` the safety half is proved: after a link was followed the address or its first content is still to be drawn, or the frame of `RouteFocus`
is due and still finds the focus it compares with (`LinkIsServed`), since no dialog is there that could have moved it meanwhile.

*The learner's progress.* A page that may use the storage knows every valid lesson stored there, but for those its learner took
back (`PageKnowsStored`), wherever between two calls of the storage it is. The theorems assume `OneTab`, that there
are not two tabs. The assumption is needed: with two, the one opened earlier writes its older list over what the other
stored, and TLC finds both properties violated.

Only model-checked:

* all liveness (`BusyEnds`, `LeaseIsReleased`, `LinkEndsInMain`), which is out of the prover's reach. What is proved towards them is
  `WaitIsServed` of both panels, `OneReader` of the imports, `LeaseIsServed` and `LinkIsServed`; that the timer then fires, the frame is drawn
  and the continuation runs is the fairness TLC assumes.

`SelectionChangeInvalidates` is not proved because it does not hold.

The inductive invariants `SessionInv`, `DueInv`, `WireInv`, `LeaseInv`, `ObservationInv`, `OrderInv`, `ClientInv`, `FitInv`, `ReplyInv`, `ControllerInv`, `ViewInv`, `LifetimesInv`, `RowsInv`, `LoopInv`, `RowsAgree`, `CellsAgree`,
`ShellInv`, `WaitInv`, `LinkIsServed`, `ProgressInv` and those of the panels were model-checked
before they were proved; they are not in the configurations any more, which check what they are for.

## 5. Not modelled

* Payload validation, decoding, digests and rendering: pure functions over one
  reply. Their verdict is a nondeterministic choice, so the state machines are checked with
  both outcomes.
* Streaming: the chunk and byte limits of `read` are one way to fail among others (`lost`, `unusable`).
* Secrets, addresses and their checks, other than that a refused one sends nothing.
* In the imported recording: state that one drawing alone uses (raw lines shown, the
  target assumption, access filters).
* The joins of banks (`cpu-observed-bank.ts`) and of the declared target: each row of one reply is looked up once in
  another, with no state between rows.
* In V22: the order of barriers, writes and reads that `physical-lds-debug-v22-index.ts` asks of the index, and the
  pending-to-ready transitions and memory coverage that `physical-lds-debug-v22.ts`
  asks of the whole recording. They are conditions on fixed numbers of records (128 workitems, three allocations),
  each checked once and in one place.
* The theme, and the query and active option of the search: state that one component alone sets and draws.
* The pages that import other recorded files (watchpoints, V19, V21 and V22): they repeat
  the import of `RecordedResourceImport.tsx`, a ticket and an abort for each import.
* Most lines of the repository are no program with states. `narrative-registry.ts`, `modules-*.ts`, `learning-hub.ts`, `model.ts`
  and `progress.ts` are lesson texts and their lists; `staged-evidence.ts`,
  `debug-sim-milestone.ts`, `debugger-workbench.ts`, `live-kfd-debugger.ts` and `source-isa-agent.ts`
  hold one recorded fixture each and a validator that compares it field by field with constants;
  `search.ts` scores static text; the pages draw them. A specification of these would restate
  the constants. That is why the modelled share of all lines is small, while the files that
  keep state over time are modelled whole or nearly so.

## 6. Plan

1. **Core** – done: `CpuDebugSession`, `DebugSession`, `LiveCpuWorkbench`,
   `ResourceMemoryController`, `PhysicalCpuSession`; the first theorems.
2. **Further components** – done: `PhysicalPanel`; `FileImport`, `RecordedImport`, `RecordedViews`,
   `ResourceRecording`; `ResourceMemoryReentrant`; `LdsRecording`, `LdsRecorder`, `LdsTranscript`; `ObservedLifetimes`; `PageShell`; `LearnerProgress`.
   Next, in this order:
   * the page of the V22 reader (`PhysicalLdsRecordingPage.tsx`) and the watchpoint bookmark
     (`RecordedWatchpointBookmark.tsx`), over `FileImport`, and the pages of V19 to V21;
   * the arithmetic of byte ranges (`lds-bank-model.ts`, `resource-memory-comparison.ts`,
     `resource-memory-access-overlay.ts`) against reference definitions;
   * what the V22 index and the whole recording have to satisfy, as a reference definition;
   * the publication gate, if its order of refusals is worth a model.
3. **Further proofs** – done: the bridge, leases and observations of the session, both panels, the frame of the page, the learner's progress, `OneRecordingExplains`,
   both halves of the exactness of the loops over recorded lines and rows (`LoopIsExact`, `LoopsAreExact`, `DemandIsExact`),
   and the safety half of the liveness properties (`WaitIsServed` of both panels, `LeaseIsServed`, `LinkIsServed`; of the
   imports it is part of `OneReader`).
   Next: the theorems of the components of plan item 2, as they are modelled.
