------------------------------- MODULE Updater -------------------------------
(***************************************************************************)
(* Self-update: the Tk thread's update button and its timers (app.py        *)
(* 1795-1869), the check and download threads of UpdateManager              *)
(* (update_manager.py 64-410), the installer script it generates, which     *)
(* runs as a process of its own (273-386), closing (app.py 2184-2198) and   *)
(* the next start of the program.                                           *)
(*                                                                         *)
(* Progress reports, wording and the log are left out, as is the content of *)
(* an archive beyond whether it has the executable and which version its    *)
(* version.json names.  One installer runs at a time.                       *)
(***************************************************************************)
EXTENDS VersionOrder, Sequences

CONSTANTS
    None,
    Releases,    \* what may be published: [version, prerelease, asset, exe, stamp]
    Installed,   \* the version installed at first
    FirstStamps, \* what its version.json may say, None when there is none
    MaxBacklog,  \* bound on unhandled update events when a check begins
    MaxLosses    \* bound on scripts that end before they start the program

Buttons == [enabled : BOOLEAN, calls : {"check", "install"}]
Workers == [kind : {"check"}, channel : {"stable", "test"}]
           \cup [kind : {"install"}, release : Releases]
Events  == [kind : {"available", "current", "ready", "error"}, release : Releases \cup {None}]
Phases  == {"waiting", "extracting", "copying", "verifying", "succeeded", "failed", "asking"}
Installers == [release : Releases, phase : Phases]

ASSUME UpdaterAssumption ==
    /\ None \notin WellFormed /\ None \notin Releases
    /\ None \notin Workers /\ None \notin Installers
    /\ Installed \in WellFormed /\ FirstStamps \subseteq WellFormed \cup {None}
    /\ Releases \subseteq [version : WellFormed, prerelease : BOOLEAN, asset : BOOLEAN,
                           exe : BOOLEAN, stamp : WellFormed \cup {None}]
    /\ MaxBacklog \in Nat /\ MaxLosses \in Nat

VARIABLES
    (* the program's process *)
    app,             \* "open", "stuck" (closing has failed half way) or "gone"
    running,         \* the version of the process, of the last one when gone
    button,          \* update_button: whether it is enabled and what it calls
    latest_release,
    dialog,          \* whether the confirmation is open
    channel, check_on_start,
    close_due,       \* root.after(350, self.close)
    (* UpdateManager *)
    busy,            \* _busy
    worker,          \* what the check or install thread is to do, None when it has reported
    update_events,
    (* outside *)
    published,       \* releases on GitHub
    installer,       \* the PowerShell process
    installed,       \* version of each installed file
    losses           \* scripts that ended before they started the program

configVars  == <<channel, check_on_start>>
tkVars      == <<button, latest_release, dialog, configVars, close_due>>
managerVars == <<busy, worker, update_events>>
appVars     == <<app, running, tkVars, managerVars>>
outerVars   == <<published, installer, installed, losses>>
vars        == <<appVars, outerVars>>

Files == {"exe", "library", "stamp"}

FreshButton == [enabled |-> TRUE, calls |-> "check"]

Init ==
    /\ app = "open"
    /\ running = Installed
    /\ button = FreshButton /\ latest_release = None /\ dialog = FALSE /\ close_due = FALSE
    /\ channel \in {"stable", "test"} /\ check_on_start \in BOOLEAN
    /\ busy = FALSE /\ worker = None /\ update_events = <<>>
    /\ published = {}
    /\ installer = None
    /\ \E stamp \in FirstStamps :
          installed = [f \in Files |-> IF f = "stamp" THEN stamp ELSE Installed]
    /\ losses = 0
----------------------------------------------------------------------------
(* The Tk thread.  Timers also run while the confirmation is open. *)

(* check() and download_and_install() return at once while another thread   *)
(* is busy; the caller is not told.                                         *)
StartWorker(task) ==
    IF busy
    THEN UNCHANGED <<busy, worker>>
    ELSE busy' = TRUE /\ worker' = task

CheckForUpdates ==
    /\ button' = [button EXCEPT !.calls = "check"]
    /\ StartWorker([kind |-> "check", channel |-> channel])
    /\ UNCHANGED <<app, running, latest_release, dialog, configVars, close_due, update_events,
                   outerVars>>

(* Also the check at the start, 1.6 s after it; no other thread is busy     *)
(* then.                                                                    *)
AutomaticUpdateTick ==
    /\ app = "open" /\ check_on_start /\ ~busy
    /\ Len(update_events) < MaxBacklog
    /\ CheckForUpdates

ClickCheck ==
    /\ app = "open" /\ ~dialog
    /\ button.enabled /\ button.calls = "check"
    /\ Len(update_events) < MaxBacklog
    /\ CheckForUpdates

(* install_available_update up to its question; the button calls it only    *)
(* when there is a release.                                                 *)
ClickInstall ==
    /\ app = "open" /\ ~dialog
    /\ button.enabled /\ button.calls = "install" /\ latest_release # None
    /\ dialog' = TRUE
    /\ UNCHANGED <<app, running, button, latest_release, configVars, close_due,
                   managerVars, outerVars>>

Decline ==
    /\ app = "open" /\ dialog
    /\ dialog' = FALSE
    /\ UNCHANGED <<app, running, button, latest_release, configVars, close_due,
                   managerVars, outerVars>>

(* The answer comes later: what is installed is latest_release by then. *)
Confirm ==
    /\ app = "open" /\ dialog
    /\ dialog' = FALSE
    /\ button' = [button EXCEPT !.enabled = FALSE]
    /\ StartWorker([kind |-> "install", release |-> latest_release])
    /\ UNCHANGED <<app, running, latest_release, configVars, close_due, update_events,
                   outerVars>>

SaveSettings ==
    /\ app = "open" /\ ~dialog
    /\ channel' \in {"stable", "test"} /\ check_on_start' \in BOOLEAN
    /\ UNCHANGED <<app, running, button, latest_release, dialog, close_due,
                   managerVars, outerVars>>

HandleAvailable(event) ==
    /\ event.kind = "available"
    /\ latest_release' = event.release
    /\ button' = [enabled |-> TRUE, calls |-> "install"]
    /\ UNCHANGED <<close_due, installer>>

HandleDone_still_disabled(event) ==
    /\ event.kind \in {"current", "error"}
    /\ button' = [button EXCEPT !.calls = "check"]
    /\ UNCHANGED <<latest_release, close_due, installer>>
HandleDone(event) ==
    /\ event.kind \in {"current", "error"}
    /\ button' = [enabled |-> TRUE, calls |-> "check"]
    /\ UNCHANGED <<latest_release, close_due, installer>>

(* The launch may fail; the button then stays disabled. *)
HandleReady(event) ==
    /\ event.kind = "ready"
    /\ \/ /\ installer = None
          /\ installer' = [release |-> event.release, phase |-> "waiting"]
          /\ close_due' = TRUE
          /\ UNCHANGED button
       \/ /\ button' = [button EXCEPT !.calls = "install"]
          /\ UNCHANGED <<close_due, installer>>
    /\ UNCHANGED latest_release

HandleUpdateEvent ==
    /\ app = "open" /\ update_events # <<>>
    /\ LET event == Head(update_events)
       IN  HandleAvailable(event) \/ HandleDone(event) \/ HandleReady(event)
    /\ update_events' = Tail(update_events)
    /\ UNCHANGED <<app, running, dialog, configVars, busy, worker, published,
                   installed, losses>>

(* What a process does not leave behind, and begins with. *)
EmptyProcess ==
    /\ button' = FreshButton /\ latest_release' = None /\ dialog' = FALSE /\ close_due' = FALSE
    /\ busy' = FALSE /\ worker' = None /\ update_events' = <<>>
    /\ UNCHANGED configVars

ProcessEnds == app' = "gone" /\ EmptyProcess

(* The last save of the state may raise: `closing` is set by then, so that  *)
(* every timer stops and no later attempt gets further.                     *)
Close ==
    /\ app = "open"
    /\ \/ ProcessEnds
       \/ /\ app' = "stuck" /\ close_due' = FALSE
          /\ UNCHANGED <<button, latest_release, dialog, configVars, managerVars>>
    /\ UNCHANGED <<running, outerVars>>

CloseWhenDue == close_due /\ Close
----------------------------------------------------------------------------
(* The threads of UpdateManager. *)

Emit(kind, release) == update_events' = Append(update_events, [kind |-> kind, release |-> release])

(* The stable channel asks GitHub for its latest release, whichever that    *)
(* is; the test channel chooses among all.                                  *)
Found ==
    IF worker.channel = "test" THEN SelectRelease(published, "test")
                               ELSE {r \in published : ~r.prerelease}

Available(release) == Newer(release.version, running)

Report ==
    /\ worker # None
    /\ \/ Emit("error", None)
       \/ /\ worker.kind = "check"
          /\ \E r \in Found : IF Available(r) THEN Emit("available", r) ELSE Emit("current", None)
       \/ /\ worker.kind = "install" /\ worker.release.asset
          /\ Emit("ready", worker.release)
    /\ worker' = None
    /\ UNCHANGED <<app, running, tkVars, busy, outerVars>>

(* finally: the event is out before the flag is cleared. *)
Leave ==
    /\ busy /\ worker = None
    /\ busy' = FALSE
    /\ UNCHANGED <<app, running, tkVars, worker, update_events, outerVars>>
----------------------------------------------------------------------------
(* The installer script. *)

Phase(p) == installer' = [installer EXCEPT !.phase = p]

InstallerStep == installer # None /\ UNCHANGED <<published, losses>>

(* The log cannot be written, or the program takes longer to close than 240 *)
(* waits of 250 ms.                                                         *)
Wait ==
    /\ InstallerStep
    /\ installer.phase = "waiting"
    /\ \/ app = "gone" /\ Phase("extracting")
       \/ Phase("failed")
    /\ UNCHANGED <<appVars, installed>>

Extract ==
    /\ InstallerStep
    /\ installer.phase = "extracting"
    /\ \/ installer.release.exe /\ Phase("copying")
       \/ Phase("failed")
    /\ UNCHANGED <<appVars, installed>>

Content(release) ==
    [f \in Files \ (IF release.stamp = None THEN {"stamp"} ELSE {}) |->
        IF f = "stamp" THEN release.stamp ELSE release.version]

(* robocopy: each file is copied or not; the executable of a running        *)
(* program cannot be replaced.  A code above 7 says that some were not.     *)
CopyVerdict_lenient(copied, content) == "verifying"
CopyVerdict(copied, content) == IF copied = DOMAIN content THEN "verifying" ELSE "failed"

Copy ==
    /\ InstallerStep
    /\ installer.phase = "copying"
    /\ LET content == Content(installer.release)
       IN  \E copied \in SUBSET DOMAIN content :
             /\ app # "gone" => "exe" \notin copied
             /\ installed' = [f \in Files |-> IF f \in copied THEN content[f] ELSE installed[f]]
             /\ Phase(CopyVerdict(copied, content))
    /\ UNCHANGED appVars

(* version.json, if there is one, must name the expected version; then the  *)
(* result and the log are written, inside the same try.                     *)
Verify ==
    /\ InstallerStep
    /\ installer.phase = "verifying"
    /\ \/ /\ installed["stamp"] \in {None, installer.release.version}
          /\ Phase("succeeded")
       \/ Phase("failed")
    /\ UNCHANGED <<appVars, installed>>

(* The main window is built anew. *)
StartProcess ==
    /\ app' = "open"
    /\ running' = installed["exe"]
    /\ EmptyProcess

(* Start-Process of the installed executable, new or old; a second process  *)
(* of the program ends at once (main.py 21-51).                             *)
Relaunches_success_only(phase) == phase = "succeeded"
Relaunches(phase) == phase \in {"succeeded", "asking"}

EndWithStart ==
    /\ installer' = None
    /\ IF app = "gone" /\ Relaunches(installer.phase) THEN StartProcess ELSE UNCHANGED appVars
    /\ UNCHANGED installed

(* Start-Process may raise, into the catch. *)
Relaunch ==
    /\ InstallerStep
    /\ installer.phase = "succeeded"
    /\ \/ EndWithStart
       \/ Phase("failed") /\ UNCHANGED <<appVars, installed>>

(* The catch has told of the failure: a modal box waits for the user.       *)
Tell ==
    /\ InstallerStep
    /\ installer.phase = "failed"
    /\ Phase("asking")
    /\ UNCHANGED <<appVars, installed>>

Answer ==
    /\ InstallerStep
    /\ installer.phase = "asking"
    /\ EndWithStart

(* Killed at any point; or its catch raises, writing the log or the result  *)
(* or starting the program, and ends it.                                    *)
ScriptEnds ==
    /\ installer # None
    /\ losses < MaxLosses
    /\ losses' = losses + 1
    /\ installer' = None
    /\ UNCHANGED <<appVars, published, installed>>
----------------------------------------------------------------------------
(* The environment. *)
Publish(r) ==
    /\ r \notin published
    /\ published' = published \cup {r}
    /\ UNCHANGED <<appVars, installer, installed, losses>>

UserStart ==
    /\ app = "gone"
    /\ StartProcess
    /\ UNCHANGED outerVars

EndTask ==
    /\ app = "stuck"
    /\ ProcessEnds
    /\ UNCHANGED <<running, outerVars>>
----------------------------------------------------------------------------
Tk == AutomaticUpdateTick \/ ClickCheck \/ ClickInstall \/ Decline \/ Confirm
      \/ SaveSettings \/ HandleUpdateEvent \/ Close

Installation == Wait \/ Extract \/ Copy \/ Verify \/ Relaunch \/ Tell

Next ==
    \/ Tk \/ Report \/ Leave \/ Installation \/ Answer \/ ScriptEnds
    \/ UserStart \/ EndTask
    \/ \E r \in Releases : Publish(r)

Spec == Init /\ [][Next]_vars

(* The Tk loop drains the queue, its timers come round, threads and the     *)
(* script run on.  Nothing is asked of the user, the answer to the script's *)
(* box included.                                                            *)
Fairness ==
    /\ WF_vars(AutomaticUpdateTick)
    /\ WF_vars(HandleUpdateEvent)
    /\ WF_vars(CloseWhenDue)
    /\ WF_vars(Report)
    /\ WF_vars(Leave)
    /\ WF_vars(Installation)

FairSpec == Spec /\ Fairness
----------------------------------------------------------------------------
TypeOK ==
    /\ app \in {"open", "stuck", "gone"}
    /\ running \in WellFormed
    /\ button \in Buttons
    /\ latest_release \in Releases \cup {None}
    /\ dialog \in BOOLEAN
    /\ channel \in {"stable", "test"} /\ check_on_start \in BOOLEAN
    /\ close_due \in BOOLEAN /\ busy \in BOOLEAN
    /\ worker \in Workers \cup {None}
    /\ update_events \in Seq(Events)
    /\ published \subseteq Releases
    /\ installer \in Installers \cup {None}
    /\ installed \in [Files -> WellFormed \cup {None}]
    /\ losses \in 0..MaxLosses

(* Whatever is published, offered, confirmed late, copied in part or        *)
(* killed, the program that starts next is never an older release than the  *)
(* one that ran before (update_manager.py 29-61, 182; app.py 1820-1869).    *)
NeverDowngraded == [][app = "gone" /\ app' = "open" => ~Outranks(running, running')]_vars

(* The installer reports success, and starts the program as the new         *)
(* version, only if every file is of the confirmed release: a copy that     *)
(* stopped half way, a locked executable or a wrong version.json is told    *)
(* (update_manager.py 342-360).                                             *)
SuccessIsWhole ==
    installer # None /\ installer.phase = "succeeded" =>
        /\ \A f \in {"exe", "library"} : installed[f] = installer.release.version
        /\ installed["stamp"] \in {None, installer.release.version}

(* While the automatic check is switched on, a disabled update button is    *)
(* enabled again, though a thread may be busy when the download is asked    *)
(* for, the launch of the installer may fail and an error may answer an     *)
(* automatic check: at the latest the automatic check's answer does it      *)
(* (app.py 1795-1802, 1816-1869).                                           *)
ButtonComesBack ==
    (app = "open" /\ ~button.enabled) ~> (button.enabled \/ app # "open" \/ ~check_on_start)

(* Once the program has closed for the installer it is started again,       *)
(* installed or not, unless the script is killed or raises in its catch, or *)
(* the user leaves its failure box open for good (update_manager.py 363,    *)
(* 367-381).                                                                *)
Asking == installer # None /\ installer.phase = "asking"
InstallerRestarts ==
    \A n \in 0..MaxLosses :
        (installer # None /\ app = "gone" /\ losses = n)
            ~> (app = "open" \/ losses > n \/ []Asking)
=============================================================================
