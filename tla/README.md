# WinIsland in TLA+

WinIsland shows a "dynamic island" on Windows: one UI thread draws it, worker
threads talk to the media sessions, audio, the network and the file system, and
plugins (native libraries) run inside the process with threads of their own.
This directory holds specifications of the parts of WinIsland whose correctness
depends on the order in which several threads, the user and the file system act,
the TLC configurations that check them on small instances, and theorems about
them checked by TLAPS.

Paths below are relative to the repository; `HOST` stands for
`crates/winisland-plugin-host/src`.

| file | what it is |
|---|---|
| `PluginExtensions.tla` | events, timers, commands and requests of plugins |
| `PluginContract.tla` | what the host promises to one plugin instance (abstract) |
| `PluginLifecycle.tla` | load, worker thread, channel, shutdown, unload: implements the contract |
| `PluginStore.tla` | the files of a plugin: installing, updating, removing, loading at the start |
| `CrashMarkers.tla` | which plugin is to blame for the end of the process |
| `PluginInput.tla` | pointer, keyboard and visible-only timers of a plugin's widgets |
| `WidgetFrames.tla` | widgets, surfaces, draw lists, frames and the island's copies |
| `MediaSelection.tla` | which media the island shows: UI thread, session bridge, media worker |
| `MediaInfo.tla` | what is known of the song: tracks, lyrics, seeks |
| `ThumbnailFetcher.tla` | the cover of the song and the thread that fetches it |
| `Notifications.tla` | notifications of other programs |
| `ConfigStore.tla` | `config.toml` and the copies of it |
| `PageOrder.tla` | the order of the expanded island's pages |
| `IslandHiding.tla` | hiding, revealing, dragging of the island |
| `*Proofs.tla` | theorems: `PluginExtensionsProofs`, `PluginLifecycleProofs`, `PluginStoreProofs`, `CrashMarkersProofs` (and `ConfigStore`), `WidgetProofs` (`WidgetFrames`, `PluginInput`), `PageOrderProofs`, `SystemMediaProofs` (`MediaSelection`, `MediaInfo`, `ThumbnailFetcher`), `IslandProofs` (`IslandHiding`, `Notifications`) |
| `MC*.tla`, `MC*.cfg` | instances for TLC |
| `PROJECT.json` | components, runs, mutants, the map from definitions to source lines, findings, hazards, theorems |

`tlc -config MCPluginCommands.cfg MCPluginExtensions.tla` runs a configuration,
`tlapm PluginLifecycleProofs.tla` checks a proof module.

## 1. Inventory

### Components that are modelled

**Plugin services** (`HOST/extensions.rs`, `services/extensions.rs`,
`registry.rs`, `resources.rs`, `runtime.rs`, the request loop in
`src/window/app/plugins.rs`).
*State*: the registry of tokens (live, stopping, gone); the resource table of
handles with owner, kind and quota; `Extensions.state`, one mutex over
callbacks, commands, one bounded delivery queue per token, one bounded queue of
requests to the UI thread, and a request sequence.
*Operations*: subscribe, create a timer, register, enable and execute a
command, release a callback, queue a request; publish a host event; dispatch
deliveries and due timers on the plugin's worker; revoke a token; drain and
answer requests.
*Interaction*: any thread of a plugin calls the services, its worker thread
calls the callbacks without the lock, the UI thread publishes, drains and
revokes.
*Hard*: each service call looks into three tables under three locks; a release
can meet a delivery that is queued, executing, or just finished; a request can
be answered by a worker, a release, a revocation or the UI thread.
*Correct when*: queues stay bounded, keep the order of requests and contain only
what can be delivered to its owner; a callback in execution is leased; a released
handle is silent for ever; each accepted request is held in one place until it is
answered once; nothing of a revoked plugin remains.

**Plugin life cycle** (`HOST/lifecycle.rs`, `lifecycle/lyrics.rs`, `host.rs`,
`host/media.rs`).
*State*: the instance handle and the library of each plugin; `entries` and
`retained_dll`; the `HostRuntime`, forgotten or freed with the host; per
instance the worker thread, `stop_worker`, `tick_failure`, the sender of an
unbounded channel; the lyrics bridge's clones of senders.
*Operations*: load and create; send a media command, a host state, a settings
change (which waits two seconds) or a lyric line; the worker's loop of jobs,
deliveries, ticks and park; shutdown, join, revoke, destroy, unmap; the drop of
the host.
*Interaction*: UI thread, worker and lyrics thread share the channel, the park
token and the flags; `create` and `shutdown` run plugin code on the UI thread.
*Hard*: lost wake-ups between a look into the channel and the park; a failed
create or a refused shutdown leaves code mapped that still calls the host; the
retries of shutdown in unload, `shutdown_all` and two `Drop`s; a receiver that
is dropped while a sender is about to send.
*Correct when*: the calls a plugin sees respect the contract (no overlap, no
call after a successful shutdown except one destroy, unmapped last); the tables
outlive the code; every command is completed once.

**Installation, activation, removal** (`HOST/host.rs`,
`winisland-plugin-package/src/activate.rs`, `src/plugin/inventory.rs`).
*State*: the plugin's directory, a loose DLL beside it, hidden directories
(staging, backup, uninstall), the list of disabled plugins, the loaded entry.
*Operations*: extract on a thread; activate with a backup and two rollbacks;
remove by moving aside, forget, delete; enable, disable; load all at the start.
*Hard*: each is a sequence of file operations, any of which fails, and the
process may stop between any two; a removal takes the directory of an extraction.
*Correct when*: one whole version of an installed plugin is always on the disk,
nothing visible is half of one, a failed update or removal leaves what it found,
and between operations the code that runs is the code that is installed.

**Crash attribution** (`HOST/fault.rs`, `src/utils/logger.rs`).
*State*: a marker file per thread with a plugin call under way, the panic's
record, the crash flag, the list of disabled plugins.
*Operations*: enter and leave a call (nested, on several threads), panic,
recover at the next start.
*Hard*: the process ends between any two file operations, also inside the
recovery; `fs::write` truncates first; thread ids recur in the next process; a
marker that cannot be written, removed or put back is ignored, and the call goes on.
*Correct when*: what was executing at the end, and marked, is disabled, and nothing
else, but for what a marker that could not be changed still says.

**Input routing** (`HOST/extensions/input.rs`, `extensions.rs`,
`route_plugin_input` of `src/window/app/plugins.rs`).
*State*: presentations of the last frame, regions, capture, focus, hover, queued
input, deadlines of timers.
*Operations*: begin and end a frame, draw a widget; pointer, wheel, key and
cancel; set a region, subscribe, release a widget; the worker's dispatch and park.
*Hard*: holders refer to targets that vanish between frames or under the lock of
another call; a full queue drops what tells of it; a timer is due only while its
widget is visible.
*Correct when*: what the events told a widget is what input is routed by; a
visible timer fires.

**Widget frames** (`HOST/runtime.rs`, `services/{widget,image,activity,context}.rs`,
`src/window/app/v2.rs`).
*State*: surfaces with draw list, frame and failure count, images, activities;
the island's copies of all of them.
*Operations*: create, submit, release; prepare a frame; refresh widgets and
activities; draw; revoke.
*Hard*: a list is prepared without the lock while it is replaced or its images
released; the settings window prepares too; the UI reads two snapshots under two
locks.
*Correct when*: only failures of the current list disable a surface; once no
redraw is due the island shows what there is; a released widget goes.

**Media selection** (`src/window/app/plugin_media.rs`,
`src/core/smtc/sessions.rs`, `HOST/host/media.rs`, `services/media.rs`).
*State*: the host's selected media and registered sources; `media_owner` and
`media_selection` of the UI; the `SessionBridge` (active tokens, requests,
results, ready); the worker's ids, its choice and who made it.
*Operations*: select or command a source (at once) or a session (through the
bridge, answered frames later); register and release sources; refresh of the
worker; loading and unloading of plugins.
*Hard*: an answer arrives after its plugin left, after a later request, or after
the source was replaced; the worker copies the active tokens, talks to the
platform, and only then drains the requests.
*Correct when*: every request has one answer or a known reason for having none;
a selection is backed by a registered source and a loaded owner; the last
selection holds in both threads.

**System media, seeking, lyrics, covers** (`src/core/smtc.rs`, `smtc/*`).
*State*: the `MediaInfo` in a watch channel that the worker, the UI, the lyrics
tasks and the cover thread all write; track and request numbers; the seek guard.
*Operations*: poll, switch listening on and off, seek, fetch and publish.
*Hard*: answers come after the track has changed; the UI shows a seek before or
after the worker has sent it; the cover thread is told to end while it waits.
*Correct when*: lyrics and cover belong to the song shown; the position is where
the song is again, in the end, if the player goes on to tell it.

**Notifications of other programs** (`crates/winisland-platform-windows/src/notify/`,
`src/ui/compact`, `crates/pollkit`).
*State*: the centre; signals in statics; the feed's access, read and retry jobs,
what it has seen; the indicator.
*Operations*: signal, frame, background read, failure and retry, probe.
*Hard*: a signal says only that there is something new; whatever fails starts
the feed over, and what it had seen is forgotten.
*Correct when*: nothing is shown twice, and what can be seen is seen at last.

**Configuration store** (`winisland-core/src/persistence.rs`, `src/window/app*`,
`src/window/settings`, `src/core/smtc/session.rs`).
*State*: the file and its modification time; copies in the island, the settings
window, the media worker and the guide; the temporary file.
*Operations*: load with migrations, save, reload on change, drag.
*Hard*: two threads load, change and save; a crash between write and rename; a
failed load returns defaults, which a later save writes over the file.
*Correct when*: a save is whole or has not happened; the island follows the file.

**Page order of the expanded island** (`winisland-core/src/config/widgets.rs`,
`src/window/settings/page_order.rs`, `src/window/app/pages.rs`).
*State*: three lists in the configuration; the settings window's edited copy and
its drag; the pages of plugins.
*Operations*: arrows, check boxes, drags and their cancellation; pages come and go.
*Correct when*: what is listed is what is shown; pages keep their place.

**Hiding and dragging the island** (`src/window/app.rs`, `app/frame.rs`,
`app/input.rs`, `app/layout.rs`).
*State*: `HideState`, the place of the window and its origin, drags, overlays,
the spring.
*Operations*: every frame; hotkey, pointer, swipe, right drag, full screen
programs, notifications and levels, other monitors, a changed file.
*Hard*: four reasons to hide and three to reveal, in any order, while the window
is moved and the place it should come back to changes.
*Correct when*: the way back of a hidden island is known, and it ends where it
belongs, visible or not as its settings say.

### Components that are not modelled

| component | why |
|---|---|
| Background jobs (`crates/pollkit`) | appear in `Notifications` and `PluginStore` as results that are polled; a module of their own would say little more than that a result is sent once |
| Update checker (`src/utils/updater.rs`) | a sequential download behind one flag |
| Audio capture and outputs (`src/core/audio.rs`, `audio_outputs.rs`) | signal processing; the generations of capture workers are a candidate for a later module |
| The rest of the frame loop, layout and animation (`src/window/app`) | springs, geometry and paging on one thread; its calls into the other parts are actions of the modules |
| Settings window (`src/window/settings`) | user interface of one thread; its copy of the configuration is in `ConfigStore` and `PageOrder`, its drawing of surfaces in `WidgetFrames` |
| Rendering (`winisland-render`, `src/ui`) | drawing and the graphics device |
| Platform layer (`winisland-platform*`) | traits, and bindings to the operating system |
| Plugin ABI, loader, SDK (`winisland-plugin-api`, `loader.rs`) | type declarations, pointer checks and wrappers without state |
| Other plugin services (i18n, settings, store, text, log, host state) | the same check, allocate and insert as the services that are modelled, on tables nothing else races with |
| Calendar plugin | a client of the services; date arithmetic and drawing |
| Process start, single instance, logging | a start-up sequence on operating-system primitives |

These are also why the map covers about a tenth of the repository's lines: more
than half of them draw, lay out, bind the operating system or parse. `PROJECT.json`
lists each component with its reason, and under `hazards` every place found to be
hard to test.

## 2. Plan

| # | module | composes / implements | state |
|---|---|---|---|
| 1 | `PluginExtensions` | | modelled, checked, proved |
| 2 | `PluginContract`, `PluginLifecycle` | `PluginLifecycle` implements `PluginContract`; its step "deliver" stands for `PluginExtensions`' `WorkerNext` | modelled, checked, proved |
| 3 | `MediaSelection` | its requests are `QueueRequest`/`ForwardRequest`/`AnswerForwarded` of `PluginExtensions` | modelled, checked, proved |
| 4 | `PluginStore` | load and unload of `PluginLifecycle` as steps between file operations | modelled, checked, proved |
| 5 | `CrashMarkers` | the guards of the threads of `PluginLifecycle` | modelled, checked, proved |
| 6 | `PluginInput` | the queue of `PluginExtensions`, with targets | modelled, checked, proved |
| 7 | `WidgetFrames` | revocation of `PluginExtensions`, seen from the draw lists | modelled, checked, proved |
| 8 | `MediaInfo`, `ThumbnailFetcher` | the worker of `MediaSelection`, for one session | modelled, checked, proved |
| 9 | `Notifications` | | modelled, checked, proved |
| 10 | `ConfigStore` | | modelled, checked, proved |
| 11 | `PageOrder` | the settings window's copy of `ConfigStore` | modelled, checked, proved |
| 12 | `IslandHiding` | reveals by `Notifications`, the file of `ConfigStore` | modelled, checked, proved |

Later candidates: a composition of `PluginExtensions` and `PluginInput` over one
queue; an abstract "result, abort or cancel, once, then a wake-up" specification
of `pollkit`'s jobs; capture generations of `audio.rs`; paging of the expanded
island; the update checker. Every safety property of a passing run is a theorem.

## 3. The modules

### PluginExtensions

One action is one critical section of `Extensions.state`. A service call of a
plugin first asks the registry and only then takes that lock, so it is two
actions: `Enter` (the check, `registry.require`) or `EnterRelease`
(`registry.get`, which a stopping plugin passes too) puts `call[t]` to
`checked` or `releasing`, and `Subscribe`, `CreateTimer`, `RegisterCommand`,
`ExecuteCommand`, `QueueRequest`, `Release`, ... commit it; everything else can
happen in between. `Release` collects the cancelled completions under the lock
and `CompleteCancelled` publishes them one by one after it, as the code does.

| variable | code |
|---|---|
| `registry`, `quiet` | `PluginRegistry`; whether the plugin's own threads are known to be joined |
| `owners`, `issued` | `ResourceTable::owners`, `next` |
| `callbacks`, `commands`, `pending`, `requests`, `sequence` | the fields of `State` |
| `worker`, `delivery` | the worker's place in `Extensions::dispatch`, the delivery it popped |
| `drained`, `forwarded` | the local vector of the request loop, the requests handed to the media worker |
| `accepted`, `answered` | history, for the properties |

Tokens and handles are chosen in any order from their sets but never twice: all
the code promises of them is that they are fresh. `publish` walks a `HashMap`,
so `Published` allows every order of the callbacks, and drops what does not fit.
The unload runs on the UI thread without interruption from a successful
shutdown to the end of `revoke_plugin`; `UiFree` says so for the other UI
actions, while other plugins, and the failed plugin's own threads after a failed
create, go on.

Abstracted: the contents of snapshots; the difference between host and media
events; input, visibility and resize events and presentations (see
`PluginInput`); a plugin has one service call between check and commit at a time
(its threads are serialised between those two points, not between calls).

A commit whose check was made before `begin_shutdown` can come after the revocation
(`services/extensions.rs:182`) and leaves an allocation or a callback of a token that
is gone. The model has that behaviour; `TablesAgree` (live plugins) and
`RevokedOwnsNothing` (quiet ones) do not speak of it. It takes a plugin whose
threads go on after its revocation, as after a failed create, and the clean-up is
promised for a shutdown that succeeded, with the plugin's threads joined.

### PluginContract and PluginLifecycle

`PluginContract` is what the descriptor's documentation asks of a host: calls
come one at a time, a refused shutdown is followed by another shutdown at most,
a successful one by one `destroy`, then the library is unmapped. It knows no
threads. `PluginLifecycle` has the UI thread, the worker and the lyrics thread
with a program counter each (`ui`, `worker`, `lyrics`), the channel, the park
token (`permit`), `stop`, `failure`, and the fate of every job. The refinement
mapping reads `inside` from the two program counters and takes a partial instance
for a live one.

Steps that the code makes under no lock are separate actions: `BeginSend` tests
`stop_worker`, `Send` sends, `AfterSend` unparks; `DrainJob`, `Drained`, `Exit`
are the last loop of the worker, its end, and the drop of the receiver with the
closure. `HostRuntime` is `freed` or `forgotten` in `DropFields`, and the
entries are dropped after that decision, as `Drop for PluginHost` orders them.

Abstracted: one plugin id, loaded up to `MaxLoads` times with a fresh instance;
after a library was retained that id is not loaded again; dispatching the
worker's queue is one call (`deliver`); the widgets to tick are a number; what
`tick` draws is left out. `wait_duration` returns zero or not, freely
(`GoToSleep`). A plugin call returns; the release build aborts on a panic
(`Cargo.toml:71`), so the join never reports one.

A settings change that the UI thread has given up after two seconds may still be
applied by the worker (`lifecycle.rs:361`): that is a behaviour of the model, and no
property forbids it, as neither code nor documentation does.
`AnswersMatchFates` and `CallersHearBack` bound what the caller hears.

### PluginStore

One plugin; a *place* is its directory, a loose DLL, or one of `MaxHidden` hidden
directories. Every rename, removal and write is an action that succeeds or fails
by itself (`Remains`: a failed `remove_dir_all` leaves any part), and `Stop` can
come between any two. `manager` and `op` are the UI thread's place in
`activate_staged_plugin` or `uninstall_plugin` and its locals, `extraction` the
background job. History: `kept` (a version was installed and its removal has not
been decided), `interfered` (a removal took the directory of an extraction:
`Targets` does not leave hidden directories out, as `uninstall_targets` does not).
Abstracted: an archive's contents beyond manifest and entry DLL; downloads.

### CrashMarkers

`PluginCallGuard::enter` and `drop` are two steps each, because `fs::write` makes
room before it writes: `writing` holds what was truncated and not yet written.
`marker[t]` is the file of a thread id, which recurs in the next process. The
recovery disables one plugin after the other and only then removes the names; a
crash may cut it short.

Every one of these file operations may fail. What the code ignores or logs, the
model goes on after: `Write` leaves the marker as it was, or `Blank` (a file that
names nobody), and the plugin runs all the same (`fault.rs:39`, `:59`); `Mark` in
`LeaveRemove` may leave it (`fault.rs:58`); the panic hook may write neither flag nor
record; a list that cannot be read is an empty one, a marker that cannot be read
names nobody, and the flag may stay. What the code returns early for is `GiveUp`.

History: `suspects` had a guard when the process ended; `amiss[t]`, the last change of
the thread's marker failed; `owed`, executing at the end and either not `amiss` or on
record; `gaveUp`, the recovery met an error, or did not begin, as when a record is
left with neither flag nor marker; `interrupted` counts the recoveries cut short.
`OnlyRunningBlamed` leaves out a marker that is `amiss`, as the stale name of a failed
removal blames a plugin with no call under way; the next call on that thread puts it
right. `BlameIsKept` cannot speak of a plugin that ran unmarked. It asks for
`interrupted <= 1`: a first cut can leave some markers erased, their plugins on the
list only, and a second one can fall on the list between its truncation and its new
contents. Left out: a directory of markers that cannot be listed (nothing is then
found); a second directory (a host has one, so the other path that `fault.rs:43-47`
removes does not occur).

### PluginInput

One plugin, with at most one subscription, one region and one visible-only timer
per widget. A frame is `BeginDrawing`, one `Present` per widget drawn, `FinishFrame`;
`MovePointer`, `PressButton`, `TurnWheel`, `TypeKey`, ... are `route_input`, with
the widget under the pointer chosen among those that take the input: geometry is
left out. `router` has
capture, focus, hover, their button and, per widget, the number of input events
queued; the order of the queue is `PluginExtensions`' concern. Which of the due
timers' events find room is free, since `callbacks` is a `HashMap` (`Ticked`).
History: `informed`, what the events say a widget holds; `missed`, widgets an
event for which was not queued or was purged. Both are per widget: a widget that
subscribes anew while it holds the focus was told of it once, though its new
callback never is.

### WidgetFrames

A draw list is known by its serial, as `Arc::ptr_eq` knows it; its meaning is the
images it uses and whether it is malformed. The settings window
prepares too and counts failures. `prepare_widget_frame` is `TakeList`, `JudgeList`
and `SettleFrame`, because it judges without the lock; a redraw of the island is
`Redraw` (the snapshot), `RefreshWidgets` (the drawable ids, under another lock), one
preparation per widget, and `RefreshActivities`. `create_surface`
lists the ids before it takes the lock (`services/extensions.rs`), so two surfaces
of one plugin may be created for one key at a time, which
`Page/plugin-dev/api/surface.md:95` does not expect; the model keeps it.
Abstracted: the validation of commands, titles, sizes, quotas, expiry; an empty
list, which keeps the frame before.

### MediaSelection

`BeginFrame` is `SessionBridge::set_active` with the clean-up for an unloaded
owner, `ReadResults` the loop over the answers, then any number of requests of
that frame, then `EndFrame`. The worker's refresh is three steps, at the locks it
takes: `Look`, `ServeRequests`, `PublishResults`. Sources come and go on threads
of plugins, sessions with the players; neither id is used twice. The bridge's two
queues are sets: requests are put there in the order of their sequences, are served
in that order, and the queues are only ever emptied or filtered, so the order of the
sequences is the order of the queue.

`LatestIsObeyed` is about the latest selection of all, as long as no plugin is
unloaded. A later one that `refresh` drops (its plugin was loaded after `active`
was copied) ends the claim: `media_selection` then waits for an answer that never
comes, and the answer to the one before passes it by.

Abstracted: the error statuses are one, `Failed`; a command may fail in the
platform; the published session snapshots; `Look` reads the tokens and lists the
sessions in one step, which is sound because nothing else touches what the worker
holds between them; a selection that races with the release of its source
behaves as one made before or after it.

### MediaInfo and ThumbnailFetcher

`smtc_poll_loop` is a sequence of steps with the channel's lock in between:
taking a seek, reading the session, updating the info, spawning a lyrics task,
asking for the cover. A position stands for all within the tolerances of each
other. Time passes for the song and for what is shown of it (`SongAdvances`: the
player's `pos`, and `info.pos`, which is `position_ms` with the time since
`last_update`). What a player tells of it (`told`, and `anew` since the last read) is
another matter: it changes with a report only, and `smtc`, `last_smtc_pos`, is the
report that was read last. A seek is refused, as in the code, when there is no
player, when it says no, when another app's song is shown, and when it is not shown
any more (`RefuseSeek`). `Unsought` then puts the *report* back, however old; a
report that is repeated does not correct it (`Synced`), a new one does. So
`PositionFollows` holds because players go on reporting, which is assumed
(see Fairness); a new report is taken to differ from the one before by a millisecond
at least, as `properties.rs:530` compares them.

The UI sends a seek before it applies it (`seeking`). Tasks and tracks are
numbered as `NEXT_TRACK_ID` and the request ids number them. `ThumbnailFetcher`
has the same loop with what touches covers, and the thread with its lock, its
`closed` flag and its wait. Left out: a timeline whose read fails; albums; the
session that is followed (`MediaSelection`).

### Notifications

`feed` is `WindowsNotificationFeed` with its access and read jobs; the statics
`DELIVERY_PENDING` and `ERROR_PENDING` are variables that callbacks set at any
time (`underway`: the callback that has not stored yet). The start-up probe resets
both (`wiped`), and a feed that met `toast_events` missing once is off for good, as
`ui/compact/notification.rs:45` and `mod.rs:180` latch it. A read of the centre is
whole or fails: `mod.rs:253-268` also skips single records whose getters fail, which
are taken not to, since they read objects in memory. Left out: icons, the island's
own toasts.

### ConfigStore

A configuration is five counters, one per part that somebody changes. A *turn*
is what a thread is doing with one: holding a loaded value, writing the temporary
file, renaming. The modification time is taken before the read in `reload`, and
after the load at the start. A failed load returns the defaults, and a later save
writes them over the file. The copies can overwrite each other's changes
(lost updates): nothing here claims otherwise, `estranged` marks where a failure
parted the island from the file. Each change of the file has a modification time of
its own, later than the one before; a real one has the granularity of the file
system, and two changes within a tick, with the island's look in between, would not
be told apart. Actors: the UI thread (island, settings window,
guide, layout of widgets, the migration of the dock) and the media worker.

### PageOrder

`OrderOf`, `SetPageOrder` and `NormalizeExpandedPages` translate `page_order`,
`set_page_order` and `normalize_expanded_pages`; `edited` and `stored` are the
window's copy and the file. One edit is one step, one page of a plugin coming or
going another. `steady` is history: no plugin page came or went since the drag
began. The filters and the sort of the code are written by places, not by recursion:
`Among(s, I)` has the elements of `s` at the places in `I`, in their order, and
`ByPosition` puts a slot where the number of slots before it says; the insertion of
slots one by one, where each moves those behind it, is a recursive function
(`Placing`).

`ListedIsShown` speaks of orders that are `Whole`, with every built-in page and no
page twice, since finding 5 breaks both. One cancelled drag that loses a page repeats
another, but a second one can replace what is repeated and leave the page lost: from
music, P, widgets (P was moved), a drag that is cancelled after P is disabled leaves
music, P, P; and one that begins with pages Q and R and without P, and is cancelled
with P and without Q and R, leaves music, Q, R. The island then shows the widgets
page, which loading puts back, and the window does not list it. To ask only that no
page is repeated, as this property did at first, is therefore not enough; the bounds
of the run do not reach that case, the proof did. `RowsAreKept` speaks of steady
drags.

### IslandHiding

One thread: `app` is the state of the island, `world` what a frame looks at. A
frame is one step in the order of `update_frame` (`Frame(due)`, with the timers
that are due in it); events of the window come between frames. The spring is home,
between, or away, with one bit for its 0.3 threshold. A *place* is a monitor and
an offset; `origin` the place a hidden island comes back to. Left out: positions
reported by the system, touch, timer and link overlays, slider drags, clicks into
the expanded island, plugin input that keeps it awake, a position changed in the
file. `right_click_drag` is on. A drag whose release was dropped
(`input.rs:74-77`) leaves `is_dragging` set; the first part of `EndsWhereItBelongs`
asks where the island is only while it is not dragged, so that drag is outside it
(see the end of section 5).

### Sums

`MCPluginHost` and `MCIsland` put several components into one exploration. The
components share no variable; `machine` picks one in the initial state, the others
rest, and fairness is stated per component, so a behaviour of the sum is a
behaviour of one component. `MCIsland` looks at `MediaInfo` twice: as "song", with
all that changes tracks and lyrics and without seeks, and as "seeks", with seeks,
pauses, jumps and reports and songs whose artist and duration are known at once.
`MCPluginHost` follows a recovery that met an error to its end and no further
(`AfterFailure`), since its properties say nothing from there on. `scene` in `MCPluginExtensions` picks one of two
instances in the same way.

## 4. Runs

| run | instance | properties | what it shows |
|---|---|---|---|
| `plugin_commands` | a provider and a client; "alone": one plugin, 3 handles, masks host/result/both, one request; "together": commands only, handles issued + sequence at most 3; queues of 2; symmetric handles | `InFlightIsLeased`, `TablesAgree`, `QueuedDeliveriesAreOwned`, `EachRequestHeldOnce`, `RevokedOwnsNothing`, `CommandsWaitInOrder`, `ReleaseIsFinal` | a plugin against its own worker and the unload, and requests between two plugins: full queues, releases of queued and executing callbacks, failed creates, revocations with requests under way |
| `plugin_lifecycle` | 2 loads, 2 media commands, a settings change, a lyric line, batches of 1, 1 widget | `RuntimeOutlivesLibrary`, `AnswersMatchFates`, `ImplementsContract`, `LostOnlyAfterFailure` | failing creates, ticks and shutdowns, retries, drops, a lyrics thread left with an old sender |
| `plugin_wakeups` | 1 load, one job of each kind, a batch that holds them all; fair | `JobsAreTaken`, `CallersHearBack` | no wake-up is lost, without help from any timeout |
| `plugin_completion` | 1 media command, 1 widget | `AcceptedIsAnswered` (violated) | finding 1 |
| `plugin_backlog` | 3 media commands, batches of 1, no widget; fair | `ResultsFollow` (violated) | finding 2 |
| `plugin_host` | store: 3 hidden directories, 2 packages, 1 stop; markers: 2 plugins, 2 threads, depth 2, 2 ends, any write, read or removal may fail; input: 2 widgets, 1 periodic, 2 buttons, queue of 3, 3 calls; frames: one widget of each kind, 1 image, 1 activity, 2 keys, 2 failures, 2 strokes | `AVersionSurvives`, `VisibleIsComplete`, `FailedUpdateRestores`, `RemovalIsAllOrNothing`, `RunningIsInstalled`, `BlameIsKept`, `OnlyRunningBlamed`, `ToldTruth`, `VisibleTimersFire`, `DisabledForCause`, `IslandCatchesUp` | what plugins leave behind, are told and draw |
| `ghost_widget` | 1 grid widget, 3 strokes; fair | `ReleasedWidgetsGo` (violated) | finding 4 |
| `media_selection` | 2 plugins, a source, a session, bridge queue of 2, 2 requests; symmetric plugins | `OneAnswerEach`, `SelectionIsBacked`, `LatestIsObeyed`, `LostOnlyIfUnknown` | selections, refusals, unloading and the worker in any order |
| `island` | selection: as above with 1 request; song and seeks: 2 apps, 1 title, 2 positions, 2 inputs; cover: 2 tunes, 4 changes; notes: 2 notifications, 2 failures; configuration: 2 changes, 1 failure; pages: music, widgets and 2 pages of plugins, 3 edits, 2 turns | `ChoiceIsReleased`, `LyricsAreCurrent`, `PositionFollows`, `CoverIsCurrent`, `ShownOnce`, `NewsIsSeen`, `SavesAreWhole`, `IslandFollows`, `ListedIsShown`, `RowsAreKept` | what the island shows and keeps |
| `cover_thread` | 2 tunes, 4 changes; fair | `PollsGoOn` (violated) | finding 3 |
| `page_order` | as pages above, 3 turns | `PagesAreRemembered` (violated) | finding 5 |
| `hiding` | 2 monitors, 2 offsets, 3 acts between frames; fair frames | `WayBackIsKept`, `EndsWhereItBelongs` | the island hides and comes back as its reasons say |

**Bounds.** A queue of two is the smallest in which order, a full queue and
coalescing at the back all occur; one handle more than fits the quota makes reuse
of a released place possible; two plugins are a caller and a callee, and no
service involves three. The sequence is bounded by the number of requests made,
and drawing past the bound is refused as `checked_add` refuses at `u64::MAX`.
Two loads are what the lyrics thread needs to hold the sender of a worker that is
gone; a batch of one makes the end of a batch a frequent event, and the wake-up
run takes a batch that holds all its jobs, because with a longer backlog the
property is false (finding 2). Two packages are an old and a new version, three
hidden directories a staging, a backup and one left over. Two ends of the
process are a crash and a crash in its recovery; two threads and a
depth of two give two plugins on one stack and two stacks. Three calls make two
widgets change holders and one vanish. Two strokes replace a list or release what
it uses while it is judged; two failures are the one that counts and the one that
disables. Two requests are what it takes for one to overtake another, and a bridge
queue of two is what lets both wait there at once; that this queue is full is left to
the proofs and to a longer run by hand (3 requests: 21 million states, five minutes,
no error). Four changes of the tune let a cover
come back for a song left and resumed. Two changes and a failure are one writer
against another or against a crash. Three edits are grab, move, drop or cancel.
Three acts hide the island for two reasons and take one away. The proofs remove
these bounds for the properties they cover.

Deadlock is not checked: each instance may come to rest, when every plugin has
been loaded and unloaded, the host is dropped, or the bounded inputs are used up
(`hiding`, whose frames never end, does check it).

**Fairness.** Safety properties assume none. `PluginLifecycle!FairSpec` assumes
weak fairness of what each of the three threads goes on doing once it has started:
they are OS threads that nobody suspends, and plugin calls are taken to return.
No timeout is assumed to expire, neither the park's nor a caller's, and nobody is
assumed to start anything. `MediaSelection` assumes that frames go on, because
`on_about_to_wait` updates the plugin services on every turn of the event loop,
and the worker's refresh, at most 300 ms apart, wakes that loop; and that the
worker goes on. `PluginInput` assumes its worker goes on (`InputWorker`),
`MediaInfo` that the loop polls, the UI thread applies the seek it has sent and
the seek guard's four seconds run out, and, strongly, that the timeline is read
afresh: it is every 500 ms, and the loop comes to that read again and again. Of the
player, which is not this code, it assumes that one that plays goes on to tell its
position and one that is paused tells where it stopped (`ReportPosition`): without it
a seek that is refused leaves an old position on show (see the end of section 5).
`Notifications` assumes frames, callbacks that have begun and reads that have
begun; `ConfigStore` that the loop looks at the file and a save that has begun goes
on; `ThumbnailFetcher` that both threads go on, strongly where one waits for a
lock; `WidgetFrames` that a redraw that is due happens (strongly, since strokes of
the plugin come in between) and goes on once begun; `IslandHiding` that the next
frame comes.

**Mutants.** For every property there is a definition of the model and a faulty
variant of it (marked "Faulty" in the modules) under which TLC finds the property
violated in the same run: a dropped guard, an off-by-one, a forgotten wake-up or
a clean-up that is left out.

## 5. Findings

1. *A command accepted by a worker about to exit is never answered*
   (`HOST/lifecycle.rs:287`). After a failed tick the worker drains its channel
   and drops the receiver; a send that tested `stop_worker` before and comes after
   the drain returns `Ok(())` and is destroyed. `Page/plugin-dev/services.md:54`:
   "immediate success confirms queuing, and the later event reports the operation
   status". Told to stop by the UI thread, the worker loses nothing
   (`LostOnlyAfterFailure`, proved).
2. *A backlog of more than 256 jobs sleeps* (`HOST/lifecycle.rs:188`). A turn
   takes 256 jobs; `wait_duration` does not look into the channel; without a widget
   to tick the worker parks, for up to an hour, with jobs left. It goes on at the
   next wake-up of any kind.
3. *The media worker can wait for its cover thread for good*
   (`src/core/smtc/properties.rs:125`). `drop` sets `closed` and notifies without
   the lock under which the thread looks at `closed` and begins to wait; a
   notification in between is lost, and `join` does not return.
   `.agents/ARCHITECTURE.md:126`: "Polls session properties every 300ms".
4. *A released widget can stay in the grid* (`src/window/app/v2.rs:96`). The
   widgets and the drawable ids are read under two locks; a widget released in
   between is removed and put back from the older snapshot, and no later redraw
   looks for it. `Page/plugin-dev/api/widget.md:47`: "Removes the widget."
5. *A cancelled drag can push a page out of the order*
   (`src/window/settings/page_order.rs:439`). The rows of the drag's beginning are
   put back by position; a page that a plugin enabled in between shifts them, and
   a saved page loses its slot while a built-in one appears twice.
   `Page/plugin-dev/api/surface.md:56`: "The host remembers each page by plugin ID
   and surface key".

Seen while modelling, without a run: `input.rs:74-77` drops a release of the left
button under a full screen program, so `is_dragging` stays and `frame.rs:883` holds
the spring; `input.rs:92-98` drops a release of the right button when the island is
expanded, so `frame.rs:420-448` moves it with no button down; `frame.rs:711-715`
presents overlays a second time in one frame and so takes a notification that was
deferred under a full screen program (`Page/guide.md:9`); only the latest
`SESSION_SELECT` is remembered (`plugin_media.rs:77`), so if it fails or is dropped the one before
is answered Ok and not applied to the island, while the worker uses it;
`smtc.rs:103-105` puts back the position that was read last with a fresh clock, so
with a player that reports on events only, a refused seek leaves the island behind by
the time since that report, until there is another one (`properties.rs:552` does not
look at the drift of a report that is repeated); a marker whose removal fails
(`fault.rs:58`) gets a plugin disabled that had no call under way, and a plugin
whose marker cannot be written (`fault.rs:39`) can crash the process unnamed.

## 6. Theorems

All of them hold for every value of the constants that satisfies the module's
named assumption (`ExtensionsAssumption`, `LifecycleAssumption`, `StoreAssumption`,
`MarkersAssumption`, `PluginInputAssumption`, `FramesAssumption`,
`MediaAssumption`, `MediaInfoAssumption`, `TuneAssumption`, `NotesAssumption`,
`HidingAssumption`, `PagesAssumption`; `ConfigAssumption` is not needed);
TLC evaluates the assumptions in the runs. They ask that sets of names do not
overlap, that bounds are numbers, and that what the code keeps in finite tables is
finite. Each theorem rests on an inductive invariant that TLC checked on the runs'
instances before it was proved.

`PluginExtensionsProofs` builds its invariant in layers, each inductive given the
ones before.

* `Base` = `TypeOK`, `QueuesAreBounded`, every command is a callback, and a worker
  inside a callback holds a delivery. The bounds are needed for the types of
  `Published`, the worker's delivery for `Complete`. `QueueSteps`, `ReleaseQueues`
  and `RevokeQueues` say once, of all actions, how queues change: they grow by
  deliveries to existing callbacks, or shrink. Gives `TypeCorrectness`,
  `QueueBounds`.
* `Ownership`: handles are issued before they are used, a callback and its
  allocation name the same plugin, commands are the callbacks of that role, until
  its revocation begins a plugin has a callback under exactly its handles
  (`Leased`), and queued deliveries are owned. `TablesAgree` alone is not
  inductive: without `SameOwner` a release by one plugin could remove another's
  callback. Gives `DeliveriesAreOwned`, `TablesStayInAgreement`.
* `WorkersLeave` (a plugin whose unload has begun has no worker in a callback) and
  the lease itself give `CallbacksInFlightAreLeased`, and with freshness of
  handles `ReleasesAreFinal`, an action property.
* `Silence`: a quiet plugin makes no calls, and after each step of the unload the
  corresponding table is empty. Gives `RevocationIsComplete`.
* `QueuesInOrder`: the completions in each delivery queue, and the requests in
  `requests` and `drained`, ascend and none is newer than `sequence`. The bound is
  what makes a new request the last of its queue. Gives `CommandsKeepTheirOrder`.
* `AllAccounted`: a request is in a queue of events to its caller, `requests`,
  `drained`, the hands of a worker, among the cancelled completions or the answers.
  What one of these six kinds of places holds was not answered, no two places hold
  it, and nothing accepted from a live plugin is lost (`Accounted`). That no request
  is newer than `sequence` makes a new one fresh, and `QueuesInOrder` that a queue
  holds it once. With it goes `CallsInLife`: a plugin that is in a call has no
  cancelled completions left from the call before, so a release overwrites none; and
  who made a request was loaded, so no load brings a lost one back to life. Each
  step of the services only moves requests (`Moved`), adds one (`Added`) or ends the
  life of a plugin (`LifeEnds`). Gives `RequestsAreAccounted`.

`PluginLifecycleProofs` has two invariants. `HostInv` ties the stage of the
instance to the UI thread's program counter (`UiKnows`), lets a worker run only
while the instance is whole and no shutdown has begun (`WorkerHasInstance`), and
orders the drop of the host (`DropInOrder`). From it follow `TablesOutlivePlugin`
and `ContractIsKept`, the refinement, by one case per kind of step. `JobsInv` says
where a job is by its fate (`ChannelIsQueued`, `InHands`) and why a worker stops
(`StopHasReason`); it gives `CompletedOnce` and `NothingLostInShutdown`, and with the
types of the threads and the flags `LifecycleTyped`. What the liveness of the thread
rests on is safety, and proved: `JoinersWake` (a worker that has passed the look at the
flag has a permit when it is joined) gives `NoSleeperIsJoined`; `SendersWake` (a worker
that has passed its look into the channel has a permit, or an empty channel, or a
sender about to wake it) gives `NoWakeUpIsLost`. It makes no assumption on the batch:
a history variable, `cut`, says that the last turn used up its batch, the one other
way to sleep on jobs (finding 2), and is set by no other end of a turn.

`PluginStoreProofs`: `StoreInv` says which places an operation and an extraction
refer to and that they differ (`Placed`), that a loaded entry has its files
(`EntryBacked`), that what is visible is whole (`Complete`), what was moved aside by
the step the manager is at (`Aside`), and which place holds a whole version
(`Survivor`, whose witness moves from the destination to the backup or the moved
directory and back). Without `Aside` a rollback could restore anything. Gives
`NothingHalfShown`, `NeverWithoutVersion`, `InstalledIsRunning`. `Updatable` adds, of
an update, that the version found at its beginning is at the destination or in
the backup and that `previous` names it: `UpdatesRollBack`. `RemovalInv` has, of a
removal, that the targets moved so far name distinct places (`Orderly`), that each
can be moved back or is where it was (`Revertible`), and that when all are aside
nothing is visible (`Cleared`): `RemovalsAreWhole`.

`CrashMarkersProofs`: `MarkersInv` has three parts. `FilesOK` are types and what a
thread's step says of its stack; `NamesOK` says whose name a marker carries, while
the process runs (the top of the stack, or the plugin being entered or left) and
when it is down (a suspect), unless the last change of that marker failed (`amiss`);
`DebtOK` where every plugin still owed is: named, on the list, or in what is being
written, by the phase of the recovery and by how often it was cut short. A plugin that
runs unmarked is not owed by its thread, and every failure of the recovery is in
`gaveUp`, so neither theorem assumes that anything can be written. Gives `MarkersTyped`, `BlameIsJust`, `BlameLasts`.
The module also has `config.toml`: `ConfigInv` adds to the types that a thread which is
at a save has a value left to write (`SaversHold`), through saves of two values, of
loads that migrate or normalise, and loads that are held before they are changed. It
gives `ConfigTyped` and the action property `FileStaysWhole`. That the configurations
in hand are also the *latest* ones is not claimed: the two threads do overwrite each
other's changes (last writer wins), which the code accepts.

`WidgetProofs` is about two modules. For `PluginInput`, `SoundRouter(router)` says that capture, focus and hover are held by
at most one widget each, and that whoever missed nothing has been told exactly
what it holds, *subscribed or not*: the property itself could not survive the
purge of a subscription. Every routing operation is a composition of `Inform`,
`Forwarded` and `CancelMissing`, each shown once to keep `SoundRouter`. Gives
`HoldersAreTold`. None of them takes the worker's permit back (`Keeps`), which gives
`NoTimerIsSleptThrough`: a worker that sleeps has a permit or counts on the timers of
all shown widgets (`AlarmCounts`), also of those that came on the screen since.

For `WidgetFrames`: `Typed`; `CauseInv` (a verdict of "unsound" is about the list
taken, and a list in hand was submitted) for `GivenUpForCause`; `ShownInv` and
`NewsInv` (unless a redraw is due, or under way with the widget still to be looked
at, the island's frames and activities are those of the host) for
`IslandIsUpToDate`. They do not include that a released widget goes, which is
false (finding 4): a copy of a widget that is gone is not in `ids`.

`SystemMediaProofs`: tracks and lyrics requests are numbered upwards, so a number
names one song (`CoverInv`, `TracksNumbered`) and one request (`TasksCounted`); a
late answer that matches by number is about the song shown: `CoverBelongs`,
`LyricsBelong`, `MediaInfoTyped`. For the selection of media, `SelectionInv` has five
parts: `BridgeInv` (there is one request of each sequence, and the five places a
request can be in are disjoint), `Routed` (requests for sources never reach the worker,
and what it has served comes before what it has still to serve), `Known`,
`Awaiting` (the UI waits for the last selection only), and `Obeyed`, which follows the
latest selection from the queue to the worker's choice and from there to the
island. It gives `EveryRequestIsAnswered`, `SelectionsAreBacked`, `TheLatestIsObeyed`,
`OnlyTheUnknownAreDropped`. Without `Routed` an earlier answer could overtake a later
choice.

`IslandProofs`: `Sound(app)` adds types to the property; a frame is a composition of
some twenty functions of `app`, and each of them is shown to keep it, so the way back
is known between any two of them: `TheWayBackIsKept`. A notification is *old* once it
was shown or waits to be. `NotesInv` says that no read of the centre misses what is
old and still there, that a feed which has subscribed has seen it (`OldIsKnown`), and
that what the feed offers is not old (`PendingIsNew`), in each stage of the feed's
life and through each new start (`FeedOrder`): `NothingShownTwice`. That nothing is
shown twice is not inductive without what was seen: a restart empties `seen`.

`PageOrderProofs`: `PagesInv` has four parts. `Typed` says that the lists have their
types, that the slots of plugins' pages have ascending places (`Ascending`), and that no
registered page comes twice; a file or a window's copy with places in another order
would not survive the way into the combined order and back. `SomethingShows`: a whole
order has a page that is not hidden, so that loading it has nothing to bring back, which
`ListedIsShown` needs. That it survives a cancelled drag takes `OriginalsAreKnown` (the
rows of the drag's beginning have their place and check mark in the order, or were new),
and `RowsAreKept` takes `OriginalsAreRows` (as long as the drag is steady, they are the
rows there are, in another order): the cancellation may be many steps later. The rest is
an account of the pure operators, which the code writes as loops and a sort. `Among`
has the elements at a set of places, in order (`AmongIs`, from `Ranks`, that
counting from the lowest is a bijection); `PlacingIs` and `PlacingHas` say where the
inserted slots and the others end up, by induction over the slots (`Counting`, a
statement about one set and so within reach: the induction theorems of the library are
not); `ListsOf` and `OrderOfLists` that reading back the three lists gives the combined
order they were written from; `RewrittenKeeps` that listed rows replace listed rows and
nothing else; `NormalizedSame` that loading a whole order of which something shows
changes nothing. `PagesStep` has one case per operation. It gives `PagesTyped`,
`ListIsWhatIsShown`, `RowsStay`. Nothing is said of orders that are not whole, nor of
drags during which pages come or go, which make them so (finding 5).

**Only model-checked.** All liveness properties (the prover handles neither
fairness with ENABLED nor leads-to from it): `JobsAreTaken`, `CallersHearBack`,
`VisibleTimersFire`, `ChoiceIsReleased`, `PositionFollows`, `NewsIsSeen`,
`IslandFollows`, `EndsWhereItBelongs`. That no wake-up is missed, on which the first
three rest, is proved (`NoSleeperIsJoined`, `NoWakeUpIsLost`, `NoTimerIsSleptThrough`);
that a worker which is woken gets there is what fairness and the runs add. Every safety
property of a passing run is proved. That a queue which is not empty keeps a worker
awake is not among them: its length is a sum over widgets, by a recursive fold.
What a RECURSIVE operator computes, as the library's `SelectSeq`, `SortSeq` and
folds, is out of the prover's reach; so what the proofs need of queues and lists is
stated by positions (`Kept`, `Nth`, `Among`) rather than by recursion, and no module
that is proved about declares a RECURSIVE operator.
