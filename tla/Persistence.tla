----------------------------- MODULE Persistence -----------------------------
(***************************************************************************)
(* What the program keeps over a restart: the settings and the runtime     *)
(* state, two JSON files (config.py 281-394), the autosave timer and        *)
(* closing (app_v0814.py 998-1026, app.py 2184-2198), and loading at the     *)
(* start (app.py 66-77, 144-147).                                           *)
(*                                                                         *)
(* A file is written beside the old one and then takes its place: a process *)
(* that dies leaves the old file or the new one, so that one of these       *)
(* outcomes is one step.  Of the settings the profile's maximum, a selected *)
(* combat source and the link's switch are kept apart, because the program  *)
(* changes them by itself; the rest is the set of edits made to them.       *)
(* Migration and validation of single values are left out.                  *)
(***************************************************************************)
EXTENDS Integers, Sequences, FiniteSets

CONSTANTS
    Absent,                 \* no file, no source
    MaxHp,                  \* bound on hit points
    DefaultMaximum, StartingHp, \* of the default profile
    Sources,                \* combat sources to select
    Edits,                  \* what may be entered in the settings
    FirstStates, FirstSettings, \* the files of the runs before the first one looked at
    Interval,               \* of the autosave timer, in steps of the clock
    MaxChanges, MaxFailures, MaxMisreads  \* bounds on what may happen

Runtimes == [current_hp : 0..MaxHp, combat_enabled : BOOLEAN]
Settings == [maximum_hp : 1..MaxHp, source : Sources \cup {Absent}, enabled : BOOLEAN, edits : SUBSET Edits]

ASSUME PersistenceAssumption ==
    /\ MaxHp \in Nat \ {0} /\ DefaultMaximum \in 1..MaxHp /\ StartingHp \in 0..MaxHp
    /\ Absent \notin Sources
    /\ Absent \notin Runtimes \cup Settings
    /\ FirstStates \subseteq Runtimes \cup {Absent} /\ FirstSettings \subseteq Settings \cup {Absent}
    /\ Interval \in Nat \ {0}
    /\ MaxChanges \in Nat /\ MaxFailures \in Nat /\ MaxMisreads \in Nat

VARIABLES
    phase,           \* "off", "on", or "stuck": closing was set, the window is still there
    runtime,         \* current_hp and combat_enabled; when off, what they last were
    maximum_hp,      \* of the state; the profile's is in the settings
    last_saved,      \* _last_saved_runtime_state
    settings,        \* config, with what the widgets show
    ui_dirty,        \* _ui_dirty
    autosaving,      \* the autosave timer is set, or was when the process ended
    timer,           \* time until it fires
    closed,          \* the process ended with a complete close()
    kept,            \* and that close() saved the settings too
    state_file, settings_file, backup,
    (* history *)
    trail,           \* the runtime values of this and the last intervals
    astray,          \* the state file was misread and has not been written since
    save_failed,     \* a save on request has failed and no save succeeded since
    rename_failures,
    changes, failures, misreads

memory  == <<runtime, maximum_hp, last_saved, settings, ui_dirty, autosaving, timer, trail, astray, save_failed>>
files   == <<state_file, settings_file, backup>>
bounds  == <<rename_failures, changes, failures, misreads>>
ended   == <<phase, closed, kept>>
vars    == <<ended, memory, files, bounds>>

DefaultRuntime == [current_hp |-> StartingHp, combat_enabled |-> FALSE]
DefaultSettings == [maximum_hp |-> DefaultMaximum, source |-> Absent, enabled |-> FALSE, edits |-> {}]

Init ==
    /\ phase = "off" /\ closed = FALSE /\ kept = FALSE
    /\ runtime = DefaultRuntime /\ last_saved = DefaultRuntime /\ maximum_hp = DefaultMaximum
    /\ settings = DefaultSettings /\ ui_dirty = FALSE
    /\ autosaving = FALSE /\ timer = 0
    /\ trail = <<>> /\ astray = FALSE /\ save_failed = FALSE
    /\ state_file \in FirstStates /\ settings_file \in FirstSettings
    /\ backup = Absent
    /\ rename_failures = 0 /\ changes = 0 /\ failures = 0 /\ misreads = 0
----------------------------------------------------------------------------
(* save_config and save_runtime_state: the file is replaced, or an          *)
(* exception leaves it as it was.                                           *)
Saved(file, value, ok) == file' = IF ok THEN value ELSE file

Fails(n) == failures + n <= MaxFailures /\ failures' = failures + n
Count(oks) == Fails(Cardinality({i \in DOMAIN oks : ~oks[i]}))
----------------------------------------------------------------------------
(* Starting. *)

(* The unreadable file makes room for the defaults; a file of that name     *)
(* left by an earlier start is overwritten.                                 *)
SetAside_not(ok) ==
    /\ UNCHANGED backup
    /\ rename_failures' = IF ok THEN rename_failures ELSE rename_failures + 1
SetAside(ok) ==
    /\ backup' = IF ok THEN settings_file ELSE backup
    /\ rename_failures' = IF ok THEN rename_failures ELSE rename_failures + 1

(* load_config; `loaded` is false if its own save raises, `misread` if the  *)
(* file cannot be read.                                                     *)
LoadConfig(loaded, misread) ==
    \/ /\ settings_file # Absent /\ ~misread /\ loaded
       /\ UNCHANGED <<settings_file, backup, failures, rename_failures>>
    \/ /\ settings_file = Absent /\ ~misread
       /\ Saved(settings_file, DefaultSettings, loaded)
       /\ Count(<<loaded>>)
       /\ UNCHANGED <<backup, rename_failures>>
    \/ /\ settings_file # Absent /\ misread
       /\ \E moved \in BOOLEAN :
             /\ SetAside(moved)
             /\ settings_file' = IF loaded THEN DefaultSettings ELSE IF moved THEN Absent ELSE settings_file
             /\ Count(<<moved, loaded>>)

(* The page with the source selectors is built with an empty catalog, which *)
(* unselects every source (_refresh_combat_source_selectors).               *)
Unselected(s) == [s EXCEPT !.source = Absent]

Clamped(r, maximum) == [r EXCEPT !.current_hp = IF @ > maximum THEN maximum ELSE @]

(* load_runtime_state: an unreadable file counts as none, and stays.  The   *)
(* state clamps the hit points to the profile's maximum; what counts as     *)
(* saved is what was read.                                                  *)
LoadRuntimeState(readable) ==
    /\ state_file = Absent => readable
    /\ last_saved' = IF readable /\ state_file # Absent THEN state_file ELSE DefaultRuntime
    /\ maximum_hp' = settings'.maximum_hp
    /\ runtime' = Clamped(last_saved', maximum_hp')
    /\ astray' = (astray \/ ~readable)

Misread(any) == IF any THEN 1 ELSE 0

Start ==
    /\ phase = "off"
    /\ \E loaded, misread, readable \in BOOLEAN :
         /\ LoadConfig(loaded, misread)
         /\ misreads' = misreads + Misread(misread) + Misread(~readable)
         /\ misreads' <= MaxMisreads
         /\ IF loaded
            THEN /\ phase' = "on" /\ closed' = FALSE /\ kept' = FALSE
                 /\ settings' = Unselected(settings_file')
                 /\ LoadRuntimeState(readable)
                 /\ ui_dirty' = TRUE
                 /\ autosaving' = TRUE /\ timer' = Interval
                 /\ trail' = <<{runtime', last_saved'}>>
                 /\ save_failed' = FALSE
            ELSE readable /\ UNCHANGED <<ended, memory>>
    /\ UNCHANGED <<state_file, changes>>
----------------------------------------------------------------------------
(* Running. *)
MayChange == phase = "on" /\ changes < MaxChanges /\ changes' = changes + 1

(* The runtime values become others. *)
Become(r) == runtime' = r /\ trail' = [trail EXCEPT ![1] = @ \cup {r}]

ChangeRuntime ==
    /\ MayChange
    /\ \E r \in Runtimes \ {runtime} : r.current_hp <= maximum_hp /\ Become(r)
    /\ UNCHANGED <<ended, maximum_hp, last_saved, settings, ui_dirty, autosaving, timer, astray, save_failed,
                   files, rename_failures, failures, misreads>>

(* A state from Sam.py (_apply_sam_state), or an outcome of a combat event: *)
(* the profile follows a player's maximum, and nothing is marked as unsaved.*)
ApplyState ==
    /\ MayChange
    /\ \E r \in Runtimes, player \in BOOLEAN :
         /\ maximum_hp' \in 1..MaxHp /\ r.current_hp <= maximum_hp'
         /\ Become(r)
         /\ settings' = IF player THEN [settings EXCEPT !.maximum_hp = maximum_hp'] ELSE settings
    /\ UNCHANGED <<ended, last_saved, ui_dirty, autosaving, timer, astray, save_failed,
                   files, rename_failures, failures, misreads>>

(* A refreshed catalog without the selected source; nothing is marked.      *)
DropSource ==
    /\ MayChange
    /\ settings.source # Absent
    /\ settings' = Unselected(settings)
    /\ UNCHANGED <<ended, runtime, maximum_hp, last_saved, ui_dirty, autosaving, timer, trail, astray,
                   save_failed, files, rename_failures, failures, misreads>>

(* The settings with one edit more, or none. *)
Edited == {settings} \cup {[settings EXCEPT !.edits = @ \cup {e}] : e \in Edits}

(* Geometry, page, filters, favourites: _mark_ui_dirty. *)
ChangeUi ==
    /\ MayChange
    /\ settings' \in Edited
    /\ ui_dirty' = TRUE
    /\ UNCHANGED <<ended, runtime, maximum_hp, last_saved, autosaving, timer, trail, astray, save_failed,
                   files, rename_failures, failures, misreads>>

(* A selected combat source, the end of pairing and of unlinking, an NPC    *)
(* profile: the handler saves by itself and an exception ends it.           *)
SaveNow ==
    /\ MayChange
    /\ settings' \in Edited \cup {[settings EXCEPT !.source = c] : c \in Sources \cup {Absent}}
                       \cup {[settings EXCEPT !.enabled = b] : b \in BOOLEAN}
    /\ \E ok \in BOOLEAN :
         /\ Saved(settings_file, settings', ok)
         /\ save_failed' = ~ok
         /\ Count(<<ok>>)
    /\ UNCHANGED <<ended, runtime, maximum_hp, last_saved, ui_dirty, autosaving, timer, trail, astray,
                   state_file, backup, rename_failures, misreads>>

(* pair_with_sam: the form is saved, then the link is switched on in memory *)
(* until the answer comes, unless the code is empty.                        *)
PairWithSam ==
    /\ MayChange
    /\ \E form \in Edited, ok, coded \in BOOLEAN :
         /\ Saved(settings_file, form, ok)
         /\ settings' = IF ok /\ coded THEN [form EXCEPT !.enabled = TRUE] ELSE form
         /\ save_failed' = ~ok
         /\ Count(<<ok>>)
    /\ UNCHANGED <<ended, runtime, maximum_hp, last_saved, ui_dirty, autosaving, timer, trail, astray,
                   state_file, backup, rename_failures, misreads>>

(* The hit points of another maximum: a nearest whole number to the ratio.  *)
Rescaled(hp, new) ==
    {x \in 0..new : 2 * (x * maximum_hp - hp * new) \in -maximum_hp..maximum_hp}

(* save_settings: the handler of the base class saves and applies, which    *)
(* brings the profile's maximum to the state, and reports any exception, a  *)
(* field it rejects half way among them; then all is saved once more.       *)
SaveSettings ==
    /\ MayChange
    /\ \E first, applied, second \in BOOLEAN :
         /\ settings' \in Edited
         /\ Saved(settings_file, settings', first \/ second)
         /\ IF first /\ applied
            THEN /\ maximum_hp' = settings.maximum_hp
                 /\ \E hp \in Rescaled(runtime.current_hp, maximum_hp') :
                       Become([runtime EXCEPT !.current_hp = hp])
            ELSE UNCHANGED <<maximum_hp, runtime, trail>>
         /\ ui_dirty' = (ui_dirty /\ ~second)
         /\ save_failed' = ~(first \/ second)
         /\ Count(<<first, second>>)
    /\ UNCHANGED <<ended, last_saved, autosaving, timer, astray,
                   state_file, backup, rename_failures, misreads>>

Unsaved_points_only(r) == r.current_hp # last_saved.current_hp
Unsaved(r) == r # last_saved

StillDirty_never(ok) == FALSE
StillDirty(ok) == ui_dirty /\ ~ok

(* _autosave_tick: an exception from the state's save leaves it before the  *)
(* settings are looked at and before the timer is set again; one from the   *)
(* settings' save is caught.                                                *)
AutosaveTick ==
    /\ phase = "on" /\ autosaving /\ timer = 0
    /\ \E stateOk, uiOk \in BOOLEAN :
         LET writes == Unsaved(runtime)
         IN  /\ Saved(state_file, runtime, writes /\ stateOk)
             /\ last_saved' = IF writes /\ stateOk THEN runtime ELSE last_saved
             /\ astray' = (astray /\ ~(writes /\ stateOk))
             /\ ~writes => stateOk
             /\ IF stateOk
                THEN /\ ~ui_dirty => uiOk
                     /\ Saved(settings_file, settings, ui_dirty /\ uiOk)
                     /\ ui_dirty' = StillDirty(uiOk)
                     /\ save_failed' = (save_failed /\ ~(ui_dirty /\ uiOk))
                     /\ timer' = Interval
                     /\ Count(<<uiOk>>)
                     /\ UNCHANGED autosaving
                ELSE /\ uiOk
                     /\ autosaving' = FALSE
                     /\ Count(<<stateOk>>)
                     /\ UNCHANGED <<settings_file, ui_dirty, save_failed, timer>>
    /\ UNCHANGED <<ended, runtime, maximum_hp, settings, trail, backup, rename_failures, changes, misreads>>

(* The timer is served when it fires; how late the Tk thread comes adds to  *)
(* the interval.                                                            *)
Advance ==
    /\ phase = "on" /\ autosaving /\ timer > 0
    /\ timer' = timer - 1
    /\ trail' = [i \in 1..(IF Len(trail) > Interval THEN Interval + 1 ELSE Len(trail) + 1) |->
                    IF i = 1 THEN {runtime} ELSE trail[i - 1]]
    /\ UNCHANGED <<ended, runtime, maximum_hp, last_saved, settings, ui_dirty, autosaving, astray, save_failed,
                   files, bounds>>

(* close(): the settings' failure is ignored, the state's is not. *)
Close ==
    /\ phase = "on"
    /\ \E settingsOk, stateOk \in BOOLEAN :
         /\ Saved(settings_file, settings, settingsOk)
         /\ Saved(state_file, runtime, stateOk)
         /\ phase' = IF stateOk THEN "off" ELSE "stuck"
         /\ closed' = stateOk /\ kept' = (stateOk /\ settingsOk)
         /\ last_saved' = IF stateOk THEN runtime ELSE last_saved
         /\ astray' = (astray /\ ~stateOk)
         /\ autosaving' = (autosaving /\ stateOk)
         /\ Count(<<settingsOk, stateOk>>)
    /\ UNCHANGED <<runtime, maximum_hp, settings, ui_dirty, timer, trail, save_failed, backup,
                   rename_failures, changes, misreads>>

Crash ==
    /\ phase # "off"
    /\ phase' = "off"
    /\ UNCHANGED <<closed, kept, memory, files, bounds>>

Next == Start \/ ChangeRuntime \/ ApplyState \/ DropSource \/ ChangeUi \/ SaveNow \/ PairWithSam
        \/ SaveSettings \/ AutosaveTick \/ Advance \/ Close \/ Crash

Spec == Init /\ [][Next]_vars
----------------------------------------------------------------------------
TypeOK ==
    /\ phase \in {"off", "on", "stuck"}
    /\ {closed, kept, ui_dirty, autosaving, astray, save_failed} \subseteq BOOLEAN
    /\ runtime \in Runtimes /\ last_saved \in Runtimes
    /\ maximum_hp \in 1..MaxHp
    /\ settings \in Settings
    /\ timer \in 0..Interval
    /\ state_file \in Runtimes \cup {Absent}
    /\ settings_file \in Settings \cup {Absent} /\ backup \in Settings \cup {Absent}
    /\ trail \in Seq(SUBSET Runtimes) /\ Len(trail) \in 0..(Interval + 1)
    /\ phase = "on" => Len(trail) > 0
    /\ {rename_failures, changes, failures, misreads} \subseteq Nat

(* After a complete close the program starts with the combat switch and the *)
(* hit points it closed with, and with its settings but for the selected    *)
(* sources; after a crash with values it had, or had read at its start, at  *)
(* most one autosave interval before.  Hit points above the profile's       *)
(* maximum, as those of an NPC may be, come down to it.  Excused are an     *)
(* autosave chain that a failed save has ended, a state file that could not *)
(* be read, and for the settings a file replaced at the start               *)
(* (app_v0814.py 998-1026, app.py 66-77, 144-147, 2188-2193, config.py      *)
(* 379-394, combat.py 36).                                                  *)
RestartRestores ==
    [][phase = "off" /\ phase' = "on" =>
          /\ kept /\ settings_file' = settings_file => settings' = Unselected(settings)
          /\ ~astray' =>
                IF closed THEN runtime' = Clamped(runtime, settings'.maximum_hp)
                ELSE autosaving => \E r \in UNION {trail[i] : i \in DOMAIN trail} :
                                      runtime' = Clamped(r, settings'.maximum_hp)]_vars

(* An edit that has reached the settings file is never lost by saves,       *)
(* crashes and starts, a misread file included: it stays in the file or     *)
(* moves to the backup with it, unless the file cannot be moved.  A         *)
(* selected source is not among the edits: every start unselects it and the *)
(* next save leaves it out (config.py 281-286, 361-376, app_v0814.py 552,   *)
(* 855, 1008-1014, app.py 1437-1449).                                       *)
SettingsSurvive ==
    [][settings_file # Absent /\ rename_failures' = rename_failures =>
          \/ settings_file' # Absent /\ settings_file.edits \subseteq settings_file'.edits
          \/ backup' = settings_file]_vars

(* An edit or a selected source that the file lacks will be saved by the    *)
(* autosave, or a save the user asked for has failed.  What the program     *)
(* changes by itself, the maximum of a state, a dropped source and the      *)
(* link's switch while it pairs, is in the file only after the next save    *)
(* (app_v0814.py 555-573, 843-856, 975-976, 1008-1014, app.py 1041,         *)
(* 1439-1449, 1714-1716).                                                   *)
UnsavedIsRemembered ==
    phase = "on" /\ ~ui_dirty /\ ~save_failed =>
        /\ settings.edits = settings_file.edits
        /\ settings.source \in {settings_file.source, Absent}
=============================================================================
