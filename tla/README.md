# Formal models of the Stories Of Yggdrasil OSC desktop

The desktop bridges a VRChat avatar and an external game server, Sam.py. OSC
packets of the avatar (contacts, buttons, buses) become combat events and
synchronised values; states of the server become hit points, statuses and
feedback on the avatar. The modules in this directory are translated from
`src/stories_yggdrasil_osc/*.py` (version 0.8.21); line numbers below and in the
comments refer to those files. `PROJECT.json` maps every definition to its lines.

## The system

| part | state it keeps | operations | hard behaviour |
|---|---|---|---|
| Combat engine (`combat.py`) | hit points, combat switch, i-frame, block window, local damage timers, mirrored statuses | hits, statuses, heals, revive, set, rescale, `tick` | late ticks that catch up, refreshes at the due instant, timers surviving KO / switch / ownership change |
| Sam client (`sam_client.py`) | command queue, one-slot newest payload and its marker, retry delay, revision cursor, poll failure streak | one worker thread: command, then poll, forever | shared state read outside the request, lost wake-ups, retries, server restarts, link changes in flight |
| App, Tk thread (`app.py`) | local values, dirty and in-flight flags, sync due time, deferred snapshot, output cache | 45 ms poll round, event handlers, payload builder | acknowledgements, polls and edits crossing; one-shot fields taken by the next payload |
| Controller (`controller.py`) | heaps of hits and debuffs, alignment latches, contact i-frame, action latches, buses, telemetry | `handle_osc` per packet, `tick` per round | packets of one contact in any order, settle times, consumption by unrelated payloads |
| Combat authority (`combat_authority.py`, `app.py` 935-1022) | source hint, catalog, pending events | hints, event building, idempotent retry | stale hints, retry after a served request |
| Avatar link (`avatar_compatibility.py`, `app.py` 762-856) | marker fields, echo cache, RP-combat switch | fail-closed gate before gameplay input, echo filter, acknowledgement | markers of another avatar, echoes taken for changes |
| OSC service (`osc_service.py`) | listener thread, timers | receive, send, start, stop, pulse | one thread per datagram, packets lost while stopped |
| Update manager (`update_manager.py`, `app.py` 1795-1869) | busy flag, found release, button, dialog; a generated installer script with a process of its own | check, confirm, download, install, relaunch | concurrent requests, partial copies, versions compared across formats, a program that closes itself |
| Persistence (`config.py`, autosave, close) | two JSON files, dirty flag, last saved values | load, set aside, replace, autosave, close | crash between change and save, a save or a read that fails |
| The rest | widgets, pure helpers, TLS set-up, scripts, contracts | - | none the models need |

Interactions: OSC threads put packets on a queue the Tk thread drains
(`_poll`, 728-760); it calls the controller, whose results come back through
`_on_result` (858-915) and schedule a sync; `_push_sam_state` hands a payload to
`SamClient.sync`; the worker thread reports on a second queue that the Tk thread
drains in the same round. There is no other shared state than the fields of
`SamClient` under its lock and the engine under its own.

What makes each part correct is what the properties below say; the list of what
could go wrong and where is under "hazards" in `PROJECT.json`.

## Modules

### CombatState (combat.py), with CombatStateProofs

One action per method; each method runs under the engine's lock and is atomic.
The monotonic clock is `now`, advanced by `Advance`; `tick()` is called whenever
the caller likes, so late calls with many due ticks are included. Python's
`round()` is `Rounded` (halves to even). A status without a timer keeps zeros in
its timer fields. History variables `since`, `ticked`, `last_hit` and `disowned`
are only read by properties. `Tick` has a case per outcome (`TickUnconscious`,
`TickSurvived`, `TickKilled`); the order of the dictionary of timers is any order.
The rules of statuses are constants; a settings change of the rules while timers
run is not modelled, only that of the maximum.

### SamSync (sam_client.py, app.py), with SamSyncProofs

The Tk thread, the worker and the server, over one synchronised register. A value
is the identity of the write that made it, so "the same value" means the same
write. Variables carry the source's names. The worker alternates between
`turn = "command"` (`NoCommand`, `TakeSync`, `TakeCommand`) and `turn = "poll"`
(`SkipPoll`, `Poll`), and waits for `request` in between; `Receive` and `Fail` are
the two ends of `_request`, `Fail` before or after the server has served it. Time
exists only as intervals that are over or not (`cooling`, the poll interval). The
server raises its revision exactly when the value changes, and a restart begins a
new epoch at revision 1 with the same value: assumptions about a program outside
this repository, taken from how the client uses revisions. Two simplifications:
`sync()` sets the marker flag and queues the marker in one step (the code releases
the lock in between, and nothing the worker does there depends on the order), and
an unlinked device stops retrying when `MaxBacklog` events are unhandled. A recovery is a
command whose answer carries the state after it. `CommandKinds` selects which commands
may be issued.

### SharedRegister, SamRegister (the same code), with SamSyncProofs

`SharedRegister` is what the synchronisation promises, with queues, threads, retries,
deferrals and polls taken away: the values the desktop has shown and those the server has
held are two lists; a write of the desktop reaches the server in the order in which the
desktop showed the values (`Deliver`), a state of the server is adopted in the order in
which the server held them (`Adopt`). `SamRegister` adds to SamSync the histories that give
the refinement mapping: `shown`, `log` (the server's revision is its length), `pushed`
(which value each payload carries), `sent` and `read`. It is stated for one link and a
server that is not restarted (`OneLink`), which is where the order means something: a restart
resets the revisions the order rests on. The register allows what the code does lose: an edit
overtaken by an answer (`Adopt` after `Edit`), a write delivered twice.

### ContactPipeline (controller.py, app.py), with ContactPipelineProofs

A Contact is one touch whose packets (hit, debuff, alignment on, alignment off) are
under way for at most `Skew`. `handle_osc` is `ReceivePacket`; a round of the Tk loop
is the phases `BeginPoll`, `PopHit`*, `HitsDone`, `PopStatus`*, `StatusesDone`, `Push`,
during which no packet is handled, as in the single-threaded code. Hits either go to
the event endpoint at once (`EndpointReady`) or wait in a field of the next payload.
The device is linked. Assumed of the avatar: alignment is a pulse, the pulses of two
touches do not overlap and one pulse's edges arrive in order. The tiers of a hit, and
with them the critical tier that pierces a block, are left out.

### ActionTelemetry (controller.py, app.py), with ActionTelemetryProofs

Buttons (`Press`, `Repeat`, `Release`) with the KO gate, the raw-value latch and the
echo filter, and one binary bus; `Push` takes and clears the fields. The Tk loop is
modelled by its rounds: `StartRound`, packets handled (`HandleBus` and the buttons) until the
queue is empty (`Drained`), answers of Sam.py (`SyncResolved`), `Tick`, `Push`. A bus packet is on
the wire for at most `Skew`, is stamped when it is received, and re-arms the deadline
`bus_pending_until` by its stamp when it is handled; `Tick` reads the bus when the deadline is
over, whether or not all packets are there. `Work` is the longest time between the drained
queue and the tick. `live_packets` counts the packets that did not come while KO, which is
what a use has to be paid with. The three buses of the code are independent copies, one is
modelled. Avatar changes are left out.

### ContactAuthority (combat_authority.py, app.py, sam_client.py), with ContactAuthorityProofs

A hit that ContactPipeline reports (`JudgedContact`) goes to the payload
(`LegacyContact`), is held for want of a source (`HoldContact`) or becomes a combat
event (`SubmitContact`). Labels are chosen freely, since ContactPipeline says which are
right. The decision reads the clock up to three times; `ClockReads` lets a unit of time
pass in between. An NPC is known by its name and has avatars, of which a selection stores one
(`FirstAvatar`, any of them); a player is known by a label, which the catalog binds to an
identity (VRChat user id and avatar id). A selection stores both, and a refreshed catalog
(`Refreshed`) is compared by name and label only, as in the code. An
event id is the hit's with a number, so that a second id for one hit can be told from the
first. The worker is that of SamSync without link changes; a sync is answered here, its
loss and retry are SamSync's. Assumed of Sam.py, as the client's comments do: it answers
an event id it knows from a cache, and raises the revision when hit points change.
`packets`, `origin`, `attribution` and `applications` are history.

### AvatarLink (avatar_compatibility.py, app.py, controller.py, osc_service.py), with AvatarLinkProofs

The worn avatar, its marker and its RP-combat switch, which the avatar, the window and
Sam.py all set. `HandleOscEvent(i)` handles one of the first `Threads` packets, which is the
order in which the threads of the listener put them on the queue; its branches are the
early returns of `_handle_osc_event`. What `core_marker_complete` and `status` ask of a field is
whether it is current, so that `Compatible` is their conjunction. The gate matters to every
protected parameter; the switch stands for them, being the one that both sides set. The
avatar's side is an assumption taken from how the code uses VRChat: a parameter that
changes is reported, also when a packet changed it (`app.py` 788 expects those echoes).
`source`, `admitted` and `lost` are history: `lost` says that a value of the switch was lost or
blocked and none was sent since.

### VersionOrder, Updater (update_manager.py, app.py, main.py), with UpdaterProofs

`VersionOrder` has the comparison of release tags as the code computes it (`VersionTuple`,
`Newer`) and as it is meant (`Outranks`, on tags of the project's own form). `Updater` is the
life of the program around an update: the button and its dialog on the Tk thread, one
thread per check or download (`Report` emits its event, `Leave` clears the busy flag after
it; `worker` is what it still has to do), the events in between, the automatic check's timer
with its setting `check_on_start`, `Close`, and the installer script as a process with a
phase per step. A file of the installation is a version; `Copy` copies any
subset of an archive's files, but not the executable of a running program. The script is
started by the handler of the `ready` event and the program closes 350 ms later; a close
that raises leaves the program `stuck`, which the user may end. Every part of the script may
raise into its catch, its log and result files included (`failed`); the catch shows a modal
box (`Tell`, phase `asking`) and starts the program when the user has answered it (`Answer`).
`ScriptEnds` is a script that is killed at any point, or whose catch raises itself.
The monotone `published` is GitHub. A failed download, a checksum that differs
and a network error are the same `error` event. One installer runs at a time; what a
process knows is gone with it (`ProcessEnds`). The check 1.6 s after the start is taken for
one of the timer's.

### Persistence (config.py, app_v0814.py, app.py), with PersistenceProofs

The runtime state and the settings, in memory and in their files. A file is written aside
and replaces the old one, so that a save is one step with two outcomes; every save that
may raise has both, at the place where the code lets the exception go: the autosave of the
state ends the timer, that of the settings is caught, a save on request ends its handler, the
first save of `save_settings` is caught by the base class, and `close` is left half way.
Loading may misread either file. Of the settings the profile's maximum, a selected combat
source and the link's switch are modelled by value, because the program changes them by itself:
the state from Sam.py (`ApplyState`), a refreshed catalog (`DropSource`), pairing (`PairWithSam`) and
every start, whose page with the source selectors has an empty catalog (`Unselected`). All other
settings are the set of edits entered so far. `Start` clamps the hit points to the profile's
maximum of the settings it has read (`Clamped`), and takes what it read for saved. Time is the
autosave timer, and `trail` the values each of the last steps has seen, the one read at the
start included.

## Runs

Names of the form `Operator_variant` in the modules are what an operator would be with
a plausible bug; every property is shown to fail under one of them.

| run | question | bounds | result |
|---|---|---|---|
| `combat` | damage over time within its time and before the expiry, timers with their owner, hits spaced, switched-off and KO characters safe | clock to 3, two ticking statuses of different periods, two hit types, maxima 1 and 3 (so that rescaling rounds to zero) | holds |
| `sync` | nothing dirty is stranded, the marker flag never lies, polls never undo unacknowledged edits, a dropped deferred snapshot was not newer, no state is hidden behind the cursor | 2 links, 1 edit, 1 remote change, 1 failure, 2 pairings, unlinkings or switches or one of them and a server restart | holds |
| `sync_live` | the synchronisation implements `SharedRegister`; every sync resolves; the two sides converge | 1 link, 2 edits, 1 remote change, 1 failure, 1 recovery | holds |
| `contacts` | Enemy hits stay Enemy, Friendly hits do not inherit, reports are spaced | 2 touches with hits, clock to 8 (longer than settle + i-frame), 1 avatar change, block or switch | holds |
| `contacts_sync` | the payload path with debuffs: no waiting report without a sync | 2 touches, clock to 4, 1 upset | holds |
| `actions` | each packet of a living actor used at most once and none of a KO one, each Contact of the bus reported once at most and never under a half-read id | a spell and an item button, 2 presses and 1 repeat each, 2 bus contacts of 2 bits (up to symmetry), packets up to 1 unit apart, rounds up to 1 unit, a settle time of 3, clock to 5; 3 packets of buttons, edges of contacts and changes together | holds |
| `authority` | each hit applied at most once, a hint names one hit, pending events are under way, the sources a hit is attributed to are shown by the selectors and listed by the catalog, the shown hit points follow the server's | 2 hits, 1 NPC, 1 label that may be bound to 2 identities, and two of: hint packets (2), a selection, NPC mode or other change, a change on the server, a catalog refresh, a failure | holds |
| `link` | the switch agrees on both sides when nothing is under way, no input passes on an outdated marker, a current avatar is recognised in the end | 3 avatars with one marker field, 2 packets in threads, and three of: an avatar change, 2 changes of the switch or its cache, a lost packet or stopped listener | holds |
| `updates` | the program that starts is never an older one, success means a whole copy, the button comes back while the automatic check is on, a program closed for the installer starts again unless its failure box is left open | a stable version installed without `version.json`, a pre-build and its release (without one, too) published at any time, both channels, automatic checks on and off, 1 script that ends early, 1 unhandled event when a check begins | holds |
| `persistence` | a restart restores what was closed or at most one interval older, clamped to the profile's maximum, saved edits survive, unsaved ones are remembered | hit points to 2, maxima 1 (the default) and 2, 1 source, 1 edit, first start or one with full files, interval of 2, 2 changes, 1 failing save, 1 misread file | holds |
| `actions_repeat`, `link_echo` | a documented promise | smallest that shows it | violated, see Findings |

The bounds are enough for the cases the properties are about: two edits are needed for
an acknowledgement of an older payload, a failure for the restore and retry, two touches
for one Contact's payload to meet another's hit, a KO after a press and one before it
(the actor may start KO); a lost answer and a change on the server between the two tries
for an outcome that is out of date when it arrives; two hint packets for an identity; a
lost packet and the two changes around it; a pre-build and its release for an order to go
wrong on, an archive of two files for a partial copy, and one without `version.json` for a
check that cannot be made; two bits and two edges of two contacts for an id to be read from a
mixture; a change before and one after an autosave, a failing save and a crash. Every action of every module fires in a passing
run. Deadlock is not checked where bounds on edits, presses or the clock end a behaviour.

Sizes: combat 0.6 M distinct states, sync 5.3 M (up to symmetry of the links), sync_live
0.4 M, contacts 4.0 M and contacts_sync 4.0 M (up to symmetry of the touches), actions
1.2 M (up to symmetry of the bits), authority 2.2 M (up to symmetry of the hits and the
identities), link 1.1 M, updates 0.3 M, persistence 1.9 M. With the same result, actions was
also run once with four inputs and the spell button only (9.4 M states), and the invariants of
link with two marker fields, one of them never reported by the older avatar (9.1 M).

### Fairness

`FairSpec` of SamSync assumes weak fairness of `HandleSamEvent` and `PushSamState` (the Tk
loop reschedules itself in every round, `app.py` 728-760, and drains the queue), of each
half of the worker's loop (`sam_client.py` 597-690, it runs until it is stopped), of
`Serve` / `Receive` (a request ends within its timeout; failures are bounded by
`MaxFailures`) and of `CoolDown` (the retry delay is bounded, 150-161). `Poll` is strongly
fair: the poll half of the loop is reached again and again, and the interval, being
bounded, is over at infinitely many of those times.

`FairSpec` of AvatarLink assumes weak fairness of handling the first packet (each thread of
the listener gets to run, and the Tk loop drains the queue), and of VRChat reading its
packets, reporting a loaded avatar's parameters and repeating the beacon.

`FairSpec` of Updater assumes weak fairness of the automatic check's timer, of handling
the first update event and of the delayed close (all Tk timers), of the two steps of a
worker thread (a request ends within its timeout) and of the script (`Installation`) but for its
modal box. It assumes nothing of the user, who need not answer the dialog nor the box
(`Answer` has no fairness: `InstallerRestarts` allows `[]Asking`) nor start the program, and
nothing of the publications. The timer checks only where `check_on_start` is set, which is why
`ButtonComesBack` ends where it is switched off.

## Refinement

SamRegister implements SharedRegister: `ImplementsRegister` is checked in `sync_live` and
proved as `Implementation`. Steps of the poll, the queue and the worker map to stutters;
`Serve` of a sync is `Deliver`; a recovery and a change on the server are `Change`; handling an event is `Adopt`
when its state is applied (`Applied`). The initial state maps to the initial state.

## Theorems

Every safety property of every passing run is a theorem as well: TLC checks it on the bounds
above, the theorem says that it holds for every value of the constants that the module's
assumption admits. Hardly one of the properties is inductive; each section gives the invariant
that is, and why it is needed. TLC evaluates the assumptions in the runs.

### CombatStateProofs

`CombatStateProofs` proves for every value of the constants that satisfies
`CombatAssumption`: `TypeCorrect`, `DotIsPaced`, `DotEndsInTime`, `TimersAreOwned`,
`HitsAreSpaced`, `DisabledIsSafe` and `KoHolds`: types, and one for each property of the run `combat`.
The properties are not inductive. The invariant is

    Inductive == TypeOK /\ Paced /\ TimerOwnership /\ Shielded /\ SwitchedOffClean

`Paced` relates what a timer has dealt to its next tick: `since + ticked + tick_seconds <=
next_tick_at`, which is what a refresh and a catch-up both preserve, and why the dealt time
stays within the clock. `Shielded` says the last hit's i-frame still lies in
`invulnerable_until`, `SwitchedOffClean` that no timer survives the combat switch. The lemmas
`TakeTicksTimers` and `TickTakes` state what one call of `tick()` does to the timers for every
outcome at once, `DueTicksBound` the arithmetic of the catch-up loop. `KoHolds` and
`DisabledIsSafe` are action properties from the same invariant; `KoIsAbsorbing` allows
revive and steps that set the hit points to a given value, since a set value is the
server's word.

### UpdaterProofs

Under `UpdaterAssumption`, for every set of releases: `NewerIsOutranks` (the comparison of
tuples is the order meant, for tags of the project's form), `NeverOlder` (`NeverDowngraded`)
and `SuccessMeansWhole` (`SuccessIsWhole`), from

    IInv == TypeOK /\ ReleaseNamed /\ OfferedNewer /\ NotBehind /\ WholeCopy

A downgrade needs a chain of hand-overs, so the invariant follows the release along it: what
a running program knows, asks for, downloads and hands to the script is newer than itself
(`OfferedNewer`), and the script's release is not behind the installed executable, nor that
behind the program that ran (`NotBehind`). `WholeCopy` says what the script's phase
promises of the files. `NewerIsOutranks` is what turns the tuple comparison of the code into
a strict order; with a tag of another form (`rc.2`) it does not hold, see Limits.

### PersistenceProofs

Under `PersistenceAssumption`, for every interval, set of edits and bounds: `StartRestores`
(`RestartRestores`), `EditsSurvive` (`SettingsSurvive`), `UnsavedRemembered`
(`UnsavedIsRemembered`), from

    IInv == TypeOK /\ FileBehindMemory /\ TrailIsCurrent /\ FileIsRecent /\ ClosedIsStored

`FileIsRecent` is the argument for the crash: while the autosave chain lives, the file holds
`last_saved`, which memory held at most as many steps ago as the timer has run.
`FileBehindMemory` makes every save an extension of the file's edits, and `ClosedIsStored` says that
what a complete close saved is in the files until the next start. The statements speak of
`Clamped` values, so that the maximum, which is in the other file, may come from another
save than the hit points. `UnsavedRemembered` follows the edits and the source through every
handler, those that mark nothing included.

### SamSyncProofs

Under `SyncAssumption`, for any links, commands, failures and restarts: `TypeCorrect`,
`MarkerNeverLost` (`MarkerHasCommand`), `DirtyNeverStranded` (`DirtyHasCarrier`),
`DeferredIsSuperseded` (`AckSupersedesDeferred`), `CursorNeverAhead` (`NoStateSwallowed`) and
`PollsSpareEdits` (`PollSparesEdits`). They rest on each other in this order:

- `FailedIsHeld`, for `DirtyHasCarrier`: when the last report on a sync is a failure not yet
  handled, its payload or a newer one is still with the client, which is why handling it may
  leave the desktop dirty without a new push.
- `Told == AllTrue /\ Chronology /\ Cursor`: whatever anyone holds of the server was its state at
  that epoch and revision; the deferred snapshot, the reports, the worker's answer and the
  server are in this order in time; and neither the cursor nor a poll's `after` is ahead of the
  state last taken over. The acknowledgement that drops a deferred snapshot comes after it in
  that order. One worker and a FIFO queue keep it, across changes of the link because a state
  names its link and epoch.
- `LastIsSeen`, `InflightHasCarrier` and `Mirrored`, for `NoStateSwallowed`: the last state in
  the queue of reports is the one the cursor was taken from; a push in flight has a carrier; and
  a linked desktop shows that state, will be told of a state, or has a change of its own.
- `Known` and `Unheard`, for `PollSparesEdits`: values are named in the order they are made, and
  no server, answer or report has an edit that is still fresh.

Under `OneLink` as well (one link, no restart), for any number of edits, remote changes, failures
and commands: `Implementation` (`ImplementsRegister`), from

    RInv == TypeOK /\ LogInv /\ FlightInv /\ PushInv

`LogInv`: the revision counts the log. `FlightInv`: every state on its way (report or reply)
is an entry of the log, in order, from `read` on; the one worker thread and the FIFO queue
are what preserves it. `PushInv`: payloads carry values in the order shown, the waiting one
not before the one under way, neither before what the server was written with.

### ContactPipelineProofs

Under `PipelineAssumption`, for any touches, avatar changes, blocks and times: `ContactTypes`
(`TypeOK`), `NoReportIsForgotten` (`ReportIsScheduled`) and `HitsAreSpaced` (`ContactSpacing`), the
last because the i-frame of the last report lies in `contact_iframe_until` (`Spaced`).

The two properties about labels are theorems about the path a linked device takes for hits,
`HitsToEndpoint`: touches with hits, sent to the event endpoint, which is what the run `contacts`
checks too (see Limits for what happens to a touch with a debuff). `LabelsAreFresh`
(`EnemyLabelIsFresh`) needs nothing else; `EnemyHitsAreEnemy` (`EnemyHitStaysEnemy`) also needs
`Timely`: the packets of a touch arrive before its hit is judged, which is what the settle time
is for, and the settle time with a round of the loop is within the latch. In the code these
are 0.07 s, at most 0.125 s (a minimized window) and 0.35 s; a `hit_settle_seconds` above
0.225 in the settings is outside the theorem, and without either half of `Timely` TLC finds an
Enemy hit reported as Friendly. The
invariants are

    LabelInv == Types /\ HitsOnly /\ Packets /\ Origin /\ EnemyLabelIsFresh
    HitInv   == LabelInv /\ Polling /\ Awaited /\ Labelled /\ EnemyHitStaysEnemy

`Packets` says how far apart the packets of a touch are, and that its alignment arrives once.
`Origin` finds, behind the telemetry, the latch and the label of a queued hit, the Enemy Contact
they come from. `Polling` bounds how late a hit is judged (its proof needs that a heap that is
not empty has a first entry, lemma `Least`, from the well-foundedness of the order). `Awaited`
and `Labelled` follow the alignment of an Enemy hit while the hit is under way and in the heap:
under way itself, in the latch, already in the entry's label, or consumed by a report whose
i-frame then covers the hit. At the judging all but a label that says Enemy are excluded by the
times, which is the argument `Settle + PollGap + Skew < Iframe` is in the assumption for.

### ActionTelemetryProofs

Under `ActionAssumption`, for any buttons, ids, bits, times and bounds: `ActionTypes` (`TypeOK`),
`ActionsUsedOnce` (`UsedAtMostOnce`) and `ContactsReportedOnce` (`ContactReportedOnce`). Buttons and
bus share nothing but the push, and have an invariant each:

    DirectInv == DirectTypes /\ Unused
    BusInv    == Structure /\ Stamps /\ (Timely => Armed /\ Field)

`Unused`: a field that is set has a packet of a living actor that is not used yet. `Structure`
says where the packets of an edge are and that the bits read so far are those of the last edge
but for the parts `Owed`; `Stamps` how far their stamps are apart. The argument is `Armed`: an active
bus that is owed a part waits longer than the part does, because the deadline runs from the
stamps of parts already handled, a part comes at most `Skew` after them and is handled at most
`Work` before the tick. So no bus is read half (`Field`), and none is read again after its report by
a late bit. `Timely` (`Skew + Work < BusSettle`) is needed: without it TLC finds a half-read id, see
Limits. No step is guarded by the arrival of all packets.

### ContactAuthorityProofs

Under `AuthorityAssumption` and `NoneAssumption` (the mark for "nothing" is no id, value, reply
or request), for any hits, identities, catalogs that Sam.py publishes, failures and bounds:
`AuthorityTypes` (`TypeOK`), `HintsUsedOnce` (`HintNamesOneContact`), `SelectionsAreListed`
(`SelectionIsShown`, with `Lists`: what a catalog lists has avatars and an identity),
`HitsCountOnce` (`OneApplicationPerContact`), `WaitsAreCarried` (`PendingIsCarried`) and `MirrorIsRight` (`MirrorFollows`), in layers:

- `HintInv`: the packets behind an event are neither behind the present hint nor behind another
  event; each field that is set knows its packet.
- `Carriers`: a hit that was judged is in the payload's field, in one command, or in the request,
  and in one of them only.
- `AppliedAtMostOnce`: what still waits has not been applied, and what is being asked for has not
  either, unless the server will find the event answered or the request is an answered sync.
  This is where the retry under the same event id is used.
- `Pending`: the ids the desktop waits for are those in commands, request and reports, each in one
  place, and an answer names the event it answers.
- `Replied`, `AnsweredLately`, `PutRight`, `Follows`, for `MirrorFollows`: what was said at a
  revision was so at that revision; a cached answer that is asked for again is not older than
  the cursor; hit points older than the cursor are followed in the queue by those of the cursor.

### AvatarLinkProofs

Under `LinkAssumption` and `BeaconAssumption`, for any avatars, marker fields, number of threads
and bounds: `LinkTypes` (`TypeOK`), `QuietSidesAgree` (`QuietAgreement`) and `AdmissionIsEarned`
(`AdmittedIsMarked`), from

    IInv == TypeOK /\ Packets /\ Sources /\ LastSent /\ Chase /\ AdmittedIsMarked

`Packets` and `Sources`: a packet says what the avatar it came from says, and a field observed
what its source reports, which is why a field of the marker left from another avatar cannot
help to admit input. `LastSent` and `Chase`: the last value under way to the avatar is the
desktop's present one, and where the two sides differ, something under way will tell one of
them, unless a value was lost.

### Only model-checked

Liveness (`InflightResolves`, `Converges`, `ButtonComesBack`, `InstallerRestarts`,
`CurrentIsRecognised`), which is outside what the prover does, and the two violations below.
Nothing here recurses over data. The type invariants of CombatState, SamSync, Updater and
Persistence are proved and not in a run.

## Findings

1. `actions_repeat`: a repeated packet of a held button fills the field again after the
   payload that used it was sent (`controller.py` 457-459).
2. `link_echo`: the RP-combat switch pressed twice before the first acknowledgement is back
   makes two values circulate, each taken for a change by the other side, and the avatar
   and the desktop never settle (`controller.py` 371, `app.py` 791).

## Limits

What the code does not promise, and what the properties therefore leave out:

- Contacts. `EnemyHitStaysEnemy` is checked for touches with hits only. A touch that also
  carries a debuff can lose it: debuffs settle earlier, the payload built for one clears the
  alignment latch (`controller.py` 713-717), and a hit queued before its alignment packet is
  then judged Friendly (with `Kinds = {"hit", "status"}` TLC finds it). A label judged for a
  waiting report stays in the telemetry until the payload, so a later debuff inherits it
  (615); a second hit judged while the first still waits in `hit_event` overwrites it (617). A
  touch cut off by an avatar change never withdraws its alignment, which the telemetry keeps;
  `EnemyLabelIsFresh` excuses it.
- Hints. All fields of an identity hint share one time stamp (`app.py` 832-833): a field whose
  time to live was over is fresh again when a packet for another field arrives, and can name
  the next hit. The decision on a hit reads the clock up to three times, so a hint that lapses
  in between can turn a Friendly hit into one of the selected NPC (`app.py` 953, 978,
  `combat_authority.py` 168). The NPC page is built with an empty catalog, so sources
  selected in an earlier session are unselected at every start (`app_v0814.py` 552, `app.py`
  1437-1449), which is why `Init` never has one selected before a catalog. A refreshed catalog
  that binds a selected label to another identity leaves the old VRChat user id and avatar id
  selected, and they are what is sent (`app.py` 1444-1449, `combat_authority.py` 208-217), so the
  source is then not the "explicitly selected server-verified catalog identity" of
  `combat_authority.py` 156-158; `SelectionIsShown` promises the label only. With NPC the first
  avatar stored stays likewise when the row's avatars change (1438-1440).
- Actions. `ContactReportedOnce` is about rounds that take their time: where a round is held up
  between the drained queue and its tick, by a modal box an event handler opens (`app.py` 1846,
  1853) for instance, a bus is read when only some of its bits were handled, and bits handled
  after the report re-arm it for a second one (`controller.py` 302, 566-573). The 30 ms of
  `README.md` 171 in the repository are enough only below that. The KO gate looks at the
  actor when a packet is received (429): a press of a living character goes out although a
  KO came before its payload, and a press rejected while KO stays in the latch, so that a
  repeated packet of the held button after a revive fills the field without being a new event
  and is used (430, 457-459), both more than "Dead characters cannot send local Spell or
  Technick actions" (`README.md` 134) lets one expect. `UsedAtMostOnce` counts packets received
  alive, among which that repeated one is. A press released while a sync is in flight is never sent (`controller.py` 454). An
  avatar change resets the spell bus only; the other buses keep their bits (223). A failed
  payload is dropped when a newer one waits (`sam_client.py` 158), with its one-shot fields.
- Synchronisation. An answer in flight while the API base URL changes sets the cursor again to
  the old server's revision (`sam_client.py` 319-325), and a restarted server whose revision
  has caught up with the cursor is not recognised (330-331): `NoStateSwallowed` speaks of one
  server run only, and `ImplementsRegister` of none restarted. The answer to an older payload
  replaces a newer edit made while it was in flight and clears the dirty flag, and the edit is
  lost unless its payload was built before (`app.py` 1338, 1369).
- The poll round. Events are handled inside `_poll` (`app.py` 728-760), whose timer is set at
  its end: an exception from a handler, such as a failing `save_config` at 1293, ends it for
  good. The models take handlers that do not raise.
- Updates. The order holds for tags of the project's form: the tuple of a tag with another
  suffix (`0.8.22-rc.2`) ranks it above `0.8.22`. An automatic check may answer while the
  confirmation is open, so that the release installed is not the one the dialog named
  (`app.py` 1862-1869). A switch of the channel keeps the release already found. The copy is
  not a transaction: a script that dies or fails half way leaves files of two releases, and
  the program starts from whatever executable is there. With `check_on_start` off, a launch
  that fails leaves the button disabled until the next start (`app.py` 1800, 1843-1846), unless a
  check under way answers. A script that failed and whose box is left open does not start the
  program, nor does one whose catch raises, when the log or the result file cannot be written
  (`update_manager.py` 369-381); and one that ended before the program had closed for it does
  not notice that it closes afterwards.
- Persistence. The state's failing save ends the autosave chain without a word (`app_v0814.py`
  1006), and `RestartRestores` excuses what follows. Hit points above the profile's maximum come down
  to it at the start (`combat.py` 36): those of an NPC with a larger maximum, which stays out of
  the profile (`app.py` 1713-1716), those of a combat outcome with a new maximum (1392), those of
  a player whose new maximum was not saved before a crash, or all above the default where the
  settings file was misread. A combat source saved in the settings is unselected at every start,
  and the first autosave writes the file without it, although `app_v0814.py` 840 says that
  selections are saved automatically; `SettingsSurvive` speaks of the other edits. The profile of
  a state, a dropped source and the link's switch while pairing (`app.py` 1714-1716, 1439-1449,
  1041) are changed in memory without a mark, and reach the file with the next save of another
  cause. The modal box of `save_settings` runs the event loop inside a handler, which is taken
  for one step. A save of the runtime state that raises in
  `close` leaves a window whose closing flag is set (`app.py` 2187-2192). A second misread
  settings file overwrites the backup of the first (`config.py` 362), and a misread state file
  is not rewritten before a change. An edit saved on request whose save failed is not marked
  dirty (`UnsavedIsRemembered` says so). Settings a base class rejects half way are saved as far
  as they were entered (`app_v0814.py` 855). Loss of power within a write is left out: the
  files are not flushed to disk before they are replaced.

## Plan

Done, in this order: CombatState and its proofs, SamSync, ContactPipeline, ActionTelemetry,
ContactAuthority, AvatarLink; then Updater, Persistence and SharedRegister with the
refinement, each with proofs.

Then the proofs of ActionTelemetry, ContactAuthority, AvatarLink, ContactPipeline and the rest of
SamSync.

1. ActionTelemetry composed with SamSync and ContactPipeline with ContactAuthority, so that
   one-shot fields ride the retried payload; avatar changes in ActionTelemetry.
2. The label of a hit on the payload path: an invariant that says which hits may inherit a label
   waiting in the telemetry, in place of the two restrictions of `HitsToEndpoint`.

## Not modelled

The helpers of `qol.py` and `telemetry.py` are pure functions read by widgets; widgets and
diagnostics hold no state the other parts read; the TLS and WinHTTP binding is pure I/O whose
outcome is `Receive` or `Fail` of SamSync; `vrchat_config.py` reads a file for a diagnostic
page; build scripts, contracts and tests are not part of the running program. Left out of
modelled parts: the NPC roster and sheet commands, damage tiers and elements, pulse timers,
the migration of single settings, progress reports.
