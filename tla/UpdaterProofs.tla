---------------------------- MODULE UpdaterProofs ----------------------------
(***************************************************************************)
(* Theorems about Updater, for every set of published releases.             *)
(***************************************************************************)
EXTENDS Updater, TLAPS

(* What an installation is started from is a release, down the whole path.  *)
ReleaseNamed ==
    /\ dialog => latest_release # None
    /\ \A i \in DOMAIN update_events :
          update_events[i].kind \in {"available", "ready"} => update_events[i].release # None

(* A running program knows of no release but newer ones. *)
OnlyNewer(r) == r # None => Newer(r.version, running)
OfferedNewer ==
    app # "gone" =>
        /\ OnlyNewer(latest_release)
        /\ worker # None /\ worker.kind = "install" => OnlyNewer(worker.release)
        /\ \A i \in DOMAIN update_events : OnlyNewer(update_events[i].release)

(* A running program is the installed one: its executable cannot be         *)
(* replaced.  Neither is ahead of what an installer brings.                 *)
NotBehind ==
    /\ app # "gone" => running = installed["exe"]
    /\ installed["exe"] # None
    /\ ~Outranks(running, installed["exe"])
    /\ installer # None => /\ ~Outranks(running, installer.release.version)
                           /\ ~Outranks(installed["exe"], installer.release.version)

(* Past the copying the files are those of the release. *)
WholeCopy ==
    installer # None /\ installer.phase \in {"verifying", "succeeded"} =>
        /\ installed["exe"] = installer.release.version
        /\ installed["library"] = installer.release.version
        /\ installer.phase = "succeeded" => installed["stamp"] \in {None, installer.release.version}

IInv == TypeOK /\ ReleaseNamed /\ OfferedNewer /\ NotBehind /\ WholeCopy
----------------------------------------------------------------------------
(* The comparison of version tuples is the order of releases on the         *)
(* project's own tags: the stable release follows its prebuilds.            *)
THEOREM NewerIsOutranks ==
    ASSUME NEW v \in WellFormed, NEW w \in WellFormed
    PROVE  Newer(v, w) <=> Outranks(v, w)
<1> DEFINE stage(x) == IF x.shape = "stable" THEN 1 ELSE IF x.shape = "prebuild" THEN 0 ELSE x.number
           build(x) == IF x.shape = "prebuild" THEN x.number ELSE 0
<1>1. /\ v.base \in Nat /\ w.base \in Nat /\ v.number \in Nat /\ w.number \in Nat
      /\ v.shape \in {"stable", "prebuild"} /\ w.shape \in {"stable", "prebuild"}
      /\ v.shape = "stable" => v.number = 0
      /\ w.shape = "stable" => w.number = 0
  BY DEF WellFormed, Versions, Shapes
<1>2. /\ VersionTuple(v)[1] = v.base /\ VersionTuple(v)[2] = stage(v) /\ VersionTuple(v)[3] = build(v)
      /\ VersionTuple(w)[1] = w.base /\ VersionTuple(w)[2] = stage(w) /\ VersionTuple(w)[3] = build(w)
  BY DEF VersionTuple
<1>3. Newer(v, w) <=> \/ w.base < v.base
                      \/ w.base = v.base /\ stage(w) < stage(v)
                      \/ w.base = v.base /\ stage(w) = stage(v) /\ build(w) < build(v)
  <2> DEFINE s == VersionTuple(w)
             t == VersionTuple(v)
  <2>1. Before(s, t) <=> \/ s[1] < t[1]
                         \/ s[1] = t[1] /\ s[2] < t[2]
                         \/ s[1] = t[1] /\ s[2] = t[2] /\ s[3] < t[3]
    <3> HIDE DEF s, t
    <3> DEFINE C(i) == s[i] < t[i] /\ \A j \in 1..3 : j < i => s[j] = t[j]
    <3>1. C(1) <=> s[1] < t[1]
      BY SMT
    <3>2. C(2) <=> s[2] < t[2] /\ s[1] = t[1]
      BY SMT
    <3>3. C(3) <=> s[3] < t[3] /\ s[1] = t[1] /\ s[2] = t[2]
      BY SMT
    <3>4. Before(s, t) <=> \E i \in {1, 2, 3} : C(i)
      <4>1. 1..3 = {1, 2, 3}
        BY SMT
      <4> QED
        BY <4>1, Zenon DEF Before
    <3> HIDE DEF C
    <3> QED
      BY <3>1, <3>2, <3>3, <3>4, Zenon
  <2> HIDE DEF stage, build
  <2> QED
    BY <2>1, <1>2, Zenon DEF Newer
<1> QED
  BY <1>1, <1>3 DEF Outranks

(* No release outranks one that outranks it, nor itself. *)
LEMMA OutranksStrict ==
    ASSUME NEW v \in WellFormed, NEW w \in WellFormed
    PROVE  ~Outranks(v, v) /\ (Newer(v, w) => ~Outranks(w, v))
<1>1. Outranks(v, w) => ~Outranks(w, v)
  BY DEF Outranks, WellFormed, Versions, Shapes
<1>2. ~Outranks(v, v)
  BY DEF Outranks, WellFormed, Versions, Shapes
<1> QED
  BY <1>1, <1>2, NewerIsOutranks
----------------------------------------------------------------------------
(* Appending to and taking from the queue. *)
LEMMA QueueTypes ==
    ASSUME update_events \in Seq(Events)
    PROVE  /\ \A e \in Events : Append(update_events, e) \in Seq(Events)
           /\ update_events # <<>> => /\ Head(update_events) \in Events
                                     /\ Tail(update_events) \in Seq(Events)
OBVIOUS

LEMMA EmitType ==
    ASSUME TypeOK, NEW kind \in {"available", "current", "ready", "error"}, NEW r \in Releases \cup {None}, Emit(kind, r)
    PROVE  update_events' \in Seq(Events)
<1>1. [kind |-> kind, release |-> r] \in Events
  BY DEF Events
<1>2. update_events \in Seq(Events)
  BY DEF TypeOK
<1> QED
  BY <1>1, <1>2, QueueTypes DEF Emit

LEMMA StartWorkerType ==
    ASSUME TypeOK, NEW task \in Workers, StartWorker(task)
    PROVE  busy' \in BOOLEAN /\ worker' \in Workers \cup {None}
BY DEF TypeOK, StartWorker

LEMMA EmptyProcessType ==
    ASSUME TypeOK, EmptyProcess
    PROVE  /\ button' \in Buttons /\ latest_release' = None /\ dialog' = FALSE
           /\ channel' \in {"stable", "test"} /\ check_on_start' \in BOOLEAN
           /\ close_due' = FALSE /\ busy' = FALSE
           /\ worker' = None /\ update_events' \in Seq(Events)
<1>1. button' \in Buttons
  BY DEF EmptyProcess, FreshButton, Buttons
<1>2. channel' \in {"stable", "test"} /\ check_on_start' \in BOOLEAN
  BY DEF EmptyProcess, configVars, TypeOK
<1>3. update_events' \in Seq(Events)
  BY DEF EmptyProcess
<1> QED
  BY <1>1, <1>2, <1>3, Zenon DEF EmptyProcess

LEMMA StartProcessType ==
    ASSUME TypeOK, installed["exe"] # None, StartProcess
    PROVE  app' = "open" /\ running' \in WellFormed /\ EmptyProcess
<1>1. "exe" \in Files
  BY DEF Files
<1>2. installed["exe"] \in WellFormed
  BY <1>1 DEF TypeOK
<1> QED
  BY <1>2 DEF StartProcess

(* The script's own fields change together. *)
LEMMA PhaseType ==
    ASSUME TypeOK, installer # None, NEW p \in Phases, Phase(p)
    PROVE  /\ installer' \in Installers /\ installer' # None
           /\ installer'.release = installer.release /\ installer'.phase = p
<1>1. installer \in Installers
  BY DEF TypeOK
<1> QED
  BY <1>1, UpdaterAssumption DEF Phase, Installers, Phases
----------------------------------------------------------------------------
(* The steps keep the types; an install thread and a ready event name a     *)
(* release, and the executable is there.                                    *)
LEMMA TypeStep ==
    ASSUME TypeOK, ReleaseNamed, installed["exe"] # None, [Next]_vars
    PROVE  TypeOK'
<1> USE DEF TypeOK
<1>a. ASSUME CheckForUpdates PROVE TypeOK'
  <2>1. busy' \in BOOLEAN /\ worker' \in Workers \cup {None}
    <3>1. [kind |-> "check", channel |-> channel] \in Workers
      BY DEF Workers
    <3> QED
      BY <1>a, <3>1, StartWorkerType DEF CheckForUpdates
  <2>2. button' \in Buttons
    BY <1>a DEF CheckForUpdates, Buttons
  <2> QED
    BY <1>a, <2>1, <2>2 DEF CheckForUpdates, configVars, outerVars
<1>1. CASE AutomaticUpdateTick \/ ClickCheck
  BY <1>1, <1>a DEF AutomaticUpdateTick, ClickCheck
<1>2. CASE ClickInstall \/ Decline
  BY <1>2 DEF ClickInstall, Decline, configVars, managerVars, outerVars
<1>3. CASE Confirm
  <2>1. busy' \in BOOLEAN /\ worker' \in Workers \cup {None}
    <3>1. [kind |-> "install", release |-> latest_release] \in Workers
      BY <1>3 DEF Confirm, ReleaseNamed, Workers
    <3> QED
      BY <1>3, <3>1, StartWorkerType DEF Confirm
  <2>2. button' \in Buttons
    BY <1>3 DEF Confirm, Buttons
  <2> QED
    BY <1>3, <2>1, <2>2 DEF Confirm, configVars, outerVars
<1>4. CASE SaveSettings
  BY <1>4 DEF SaveSettings, managerVars, outerVars
<1>5. CASE HandleUpdateEvent
  <2> DEFINE event == Head(update_events)
  <2>1. event \in Events /\ update_events' \in Seq(Events)
    BY <1>5, QueueTypes DEF HandleUpdateEvent
  <2>2. event.kind \in {"available", "ready"} => event.release \in Releases
    <3>1. update_events # <<>> => 1 \in DOMAIN update_events /\ event = update_events[1]
      OBVIOUS
    <3> QED
      BY <1>5, <2>1, <3>1 DEF ReleaseNamed, HandleUpdateEvent, Events
  <2> HIDE DEF event
  <2>3. button' \in Buttons /\ latest_release' \in Releases \cup {None} /\ close_due' \in BOOLEAN
        /\ installer' \in Installers \cup {None}
    <3>1. CASE HandleAvailable(event)
      BY <3>1, <2>2 DEF HandleAvailable, Buttons
    <3>2. CASE HandleDone(event)
      BY <3>2 DEF HandleDone, Buttons
    <3>3. CASE HandleReady(event)
      <4>1. [release |-> event.release, phase |-> "waiting"] \in Installers
        BY <3>3, <2>2 DEF HandleReady, Installers, Phases
      <4>2. [button EXCEPT !.calls = "install"] \in Buttons
        BY DEF Buttons
      <4> QED
        BY <3>3, <4>1, <4>2 DEF HandleReady
    <3> QED
      BY <1>5, <3>1, <3>2, <3>3 DEF HandleUpdateEvent, event
  <2> QED
    BY <1>5, <2>1, <2>3 DEF HandleUpdateEvent, configVars
<1>6. CASE Close
  <2>1. CASE ProcessEnds
    BY <1>6, <2>1, EmptyProcessType DEF ProcessEnds, Close, outerVars
  <2>2. CASE ~ProcessEnds
    BY <1>6, <2>2 DEF Close, configVars, managerVars, outerVars
  <2> QED
    BY <2>1, <2>2
<1>7. CASE Report
  <2>1. update_events' \in Seq(Events)
    <3>1. \A r \in Found : r \in Releases
      BY DEF Found, SelectRelease, Eligible
    <3>2. worker.kind = "install" => worker.release \in Releases
      BY <1>7 DEF Report, Workers
    <3> QED
      BY <1>7, <3>1, <3>2, EmitType DEF Report
  <2> QED
    BY <1>7, <2>1 DEF Report, tkVars, configVars, outerVars
<1>8. CASE Leave
  BY <1>8 DEF Leave, tkVars, configVars, outerVars
<1>9. CASE Wait \/ Extract \/ Verify \/ Tell
  <2>1. installer # None /\ \E p \in Phases : Phase(p)
    BY <1>9 DEF Wait, Extract, Verify, Tell, InstallerStep, Phases
  <2>2. installer' \in Installers
    BY <2>1, PhaseType
  <2> QED
    BY <1>9, <2>2
       DEF Wait, Extract, Verify, Tell, InstallerStep, appVars, tkVars, configVars, managerVars
<1>10. CASE Copy
  <2> DEFINE content == Content(installer.release)
  <2>1. installer \in Installers /\ installer' \in Installers
    BY <1>10, PhaseType DEF Copy, InstallerStep, CopyVerdict, Phases
  <2>2. \A f \in DOMAIN content : f \in Files /\ content[f] \in WellFormed
    BY <2>1, UpdaterAssumption DEF Content, Installers
  <2>3. installed' \in [Files -> WellFormed \cup {None}]
    BY <1>10, <2>2 DEF Copy
  <2> QED
    BY <1>10, <2>1, <2>3 DEF Copy, InstallerStep, appVars, tkVars, configVars, managerVars
<1>11. CASE Relaunch \/ Answer
  <2>1. installer' \in Installers \cup {None}
    BY <1>11, PhaseType DEF Relaunch, Answer, InstallerStep, EndWithStart, Phases
  <2>2. UNCHANGED <<published, installed, losses>>
    BY <1>11 DEF Relaunch, Answer, InstallerStep, EndWithStart
  <2>3. CASE UNCHANGED appVars
    BY <2>1, <2>2, <2>3 DEF appVars, tkVars, configVars, managerVars
  <2>4. CASE StartProcess
    BY <2>1, <2>2, <2>4, StartProcessType, EmptyProcessType
  <2> QED
    BY <1>11, <2>3, <2>4 DEF Relaunch, Answer, EndWithStart
<1>12. CASE UserStart
  BY <1>12, StartProcessType, EmptyProcessType DEF UserStart, outerVars
<1>13. CASE EndTask
  BY <1>13, EmptyProcessType DEF EndTask, ProcessEnds, outerVars
<1>14. CASE ScriptEnds
  BY <1>14, UpdaterAssumption DEF ScriptEnds, appVars, tkVars, configVars, managerVars
<1>15. CASE \E r \in Releases : Publish(r)
  BY <1>15 DEF Publish, appVars, tkVars, configVars, managerVars
<1>16. CASE UNCHANGED vars
  BY <1>16 DEF vars, appVars, outerVars, tkVars, configVars, managerVars
<1> QED
  BY <1>1, <1>2, <1>3, <1>4, <1>5, <1>6, <1>7, <1>8, <1>9, <1>10, <1>11, <1>12, <1>13, <1>14,
     <1>15, <1>16 DEF Next, Tk, Installation

(* What all events of the queue satisfy, they still do after a step that    *)
(* empties it, takes one or adds one that satisfies it too.                 *)
LEMMA QueueStep ==
    ASSUME TypeOK, NEW P \in SUBSET Events,
           \A i \in DOMAIN update_events : update_events[i] \in P,
           \/ update_events' = update_events
           \/ update_events' = <<>>
           \/ update_events # <<>> /\ update_events' = Tail(update_events)
           \/ \E e \in P : update_events' = Append(update_events, e)
    PROVE  \A i \in DOMAIN update_events' : update_events'[i] \in P
<1>1. update_events \in Seq(Events)
  BY DEF TypeOK
<1>2. CASE update_events # <<>> /\ update_events' = Tail(update_events)
  BY <1>1, <1>2
<1>3. CASE \E e \in P : update_events' = Append(update_events, e)
  BY <1>1, <1>3
<1> QED
  BY <1>2, <1>3

LEMMA HeadInQueue ==
    ASSUME TypeOK, update_events # <<>>
    PROVE  Head(update_events) \in Events /\ \E i \in DOMAIN update_events : Head(update_events) = update_events[i]
<1>1. update_events \in Seq(Events)
  BY DEF TypeOK
<1>2. 1 \in DOMAIN update_events /\ Head(update_events) = update_events[1]
  BY <1>1
<1> QED
  BY <1>1, <1>2

Named == {e \in Events : e.kind \in {"available", "ready"} => e.release # None}
NewerThan(v) == {e \in Events : e.release # None => Newer(e.release.version, v)}

(* What Report tells, when it does. *)
LEMMA ReportTells ==
    ASSUME TypeOK, Report
    PROVE  \E e \in Named : /\ update_events' = Append(update_events, e)
                            /\ \/ e.release = None
                               \/ worker.kind = "install" /\ e.release = worker.release
                               \/ e.release \in Releases /\ Newer(e.release.version, running)
<1> USE DEF Events, Named
<1>1. \A r \in Found : r \in Releases
  BY DEF Found, SelectRelease, Eligible, TypeOK
<1>2. worker.kind = "install" => worker.release \in Releases
  BY DEF Report, TypeOK, Workers
<1>a. ASSUME NEW k \in {"error", "current", "available", "ready"}, NEW r \in Releases \cup {None},
             k \in {"available", "ready"} => r # None, Emit(k, r)
      PROVE  \E e \in Named : update_events' = Append(update_events, e) /\ e.release = r
  <2> DEFINE e == [kind |-> k, release |-> r]
  <2>1. e \in Named /\ e.release = r
    BY <1>a
  <2>2. update_events' = Append(update_events, e)
    BY <1>a DEF Emit
  <2> HIDE DEF e
  <2> QED
    BY <2>1, <2>2
<1> HIDE DEF Named
<1>3. CASE Emit("error", None) \/ Emit("current", None)
  <2>1. \E e \in Named : update_events' = Append(update_events, e) /\ e.release = None
    BY <1>3, <1>a
  <2> QED
    BY <2>1
<1>4. ASSUME NEW r \in Found, Available(r), Emit("available", r)
      PROVE  \E e \in Named : /\ update_events' = Append(update_events, e)
                              /\ e.release \in Releases /\ Newer(e.release.version, running)
  <2>1. r \in Releases /\ r # None
    BY <1>1, UpdaterAssumption
  <2> QED
    BY <1>4, <1>a, <2>1 DEF Available
<1>5. CASE worker.kind = "install" /\ Emit("ready", worker.release)
  <2>1. worker.release \in Releases /\ worker.release # None
    BY <1>2, <1>5, UpdaterAssumption
  <2>2. \E e \in Named : update_events' = Append(update_events, e) /\ e.release = worker.release
    BY <1>5, <2>1, <1>a
  <2> QED
    BY <1>5, <2>2
<1> QED
  BY <1>3, <1>4, <1>5, Zenon DEF Report

LEMMA NamedStep ==
    ASSUME TypeOK, ReleaseNamed, [Next]_vars
    PROVE  ReleaseNamed'
<1> USE DEF ReleaseNamed
<1>0. \A i \in DOMAIN update_events : update_events[i] \in Named
  BY DEF TypeOK, Named
<1>q. ASSUME \A i \in DOMAIN update_events' : update_events'[i] \in Named
      PROVE  \A i \in DOMAIN update_events' :
                update_events'[i].kind \in {"available", "ready"} => update_events'[i].release # None
  BY <1>q DEF Named
<1>n. Named \in SUBSET Events
  BY DEF Named
<1>1. CASE AutomaticUpdateTick \/ ClickCheck
  BY <1>1 DEF AutomaticUpdateTick, ClickCheck, CheckForUpdates
<1>2. CASE ClickInstall \/ Decline \/ SaveSettings
  BY <1>2 DEF ClickInstall, Decline, SaveSettings, managerVars
<1>3. CASE Confirm
  BY <1>3 DEF Confirm, StartWorker
<1>4. CASE HandleUpdateEvent
  <2> DEFINE event == Head(update_events)
  <2>1. event \in Named
    BY <1>4, <1>0, HeadInQueue DEF HandleUpdateEvent
  <2>2. \A i \in DOMAIN update_events' : update_events'[i] \in Named
    BY <1>4, <1>0, <1>n, QueueStep DEF HandleUpdateEvent
  <2> HIDE DEF event
  <2>3. latest_release # None => latest_release' # None
    <3>1. CASE HandleAvailable(event)
      BY <3>1, <2>1 DEF HandleAvailable, Named
    <3>2. CASE HandleDone(event) \/ HandleReady(event)
      BY <3>2 DEF HandleDone, HandleReady
    <3> QED
      BY <1>4, <3>1, <3>2 DEF HandleUpdateEvent, event
  <2> QED
    BY <1>4, <2>2, <2>3, <1>q DEF HandleUpdateEvent
<1>5. CASE EmptyProcess
  BY <1>5 DEF EmptyProcess
<1>6. CASE Report
  <2>1. \A i \in DOMAIN update_events' : update_events'[i] \in Named
    BY <1>6, <1>0, <1>n, ReportTells, QueueStep
  <2> QED
    BY <1>6, <2>1, <1>q DEF Report, tkVars
<1>7. CASE Leave
  BY <1>7 DEF Leave, tkVars
<1>8. CASE UNCHANGED <<dialog, latest_release, update_events>>
  BY <1>8
<1>9. Close \/ EndTask \/ UserStart \/ Relaunch \/ Answer \/ UNCHANGED appVars
      => EmptyProcess \/ UNCHANGED <<dialog, latest_release, update_events>>
  BY DEF Close, EndTask, ProcessEnds, UserStart, Relaunch, Answer, EndWithStart, StartProcess, appVars,
         tkVars, managerVars
<1> QED
  BY <1>1, <1>2, <1>3, <1>4, <1>5, <1>6, <1>7, <1>8, <1>9
     DEF Next, Tk, Installation, Wait, Extract, Copy, Verify, Tell, ScriptEnds, Publish, vars

LEMMA OfferedStep ==
    ASSUME TypeOK, ReleaseNamed, OfferedNewer, [Next]_vars
    PROVE  OfferedNewer'
<1> SUFFICES ASSUME app' # "gone"
             PROVE  /\ OnlyNewer(latest_release)'
                    /\ worker' # None /\ worker'.kind = "install" => OnlyNewer(worker.release)'
                    /\ \A i \in DOMAIN update_events' : update_events'[i] \in NewerThan(running')
  BY DEF OfferedNewer, NewerThan, OnlyNewer
<1>s. CASE EmptyProcess
  BY <1>s DEF EmptyProcess, OnlyNewer
<1>g. ASSUME app # "gone"
      PROVE  /\ OnlyNewer(latest_release) /\ (worker # None /\ worker.kind = "install" => OnlyNewer(worker.release))
             /\ \A i \in DOMAIN update_events : update_events[i] \in NewerThan(running)
  BY <1>g DEF OfferedNewer, TypeOK, NewerThan, OnlyNewer
<1>n. NewerThan(running) \in SUBSET Events
  BY DEF NewerThan
<1>w. ASSUME NEW task, StartWorker(task), app # "gone", task.kind = "install" => OnlyNewer(task.release)
      PROVE  (worker' # None /\ worker'.kind = "install") => OnlyNewer(worker'.release)
  BY <1>w, <1>g DEF StartWorker
<1>1. CASE AutomaticUpdateTick \/ ClickCheck
  <2>1. app # "gone" /\ StartWorker([kind |-> "check", channel |-> channel])
        /\ UNCHANGED <<latest_release, update_events, running>>
    BY <1>1 DEF AutomaticUpdateTick, ClickCheck, CheckForUpdates
  <2>2. (worker' # None /\ worker'.kind = "install") => OnlyNewer(worker'.release)
    BY <2>1, <1>w
  <2> QED
    BY <2>1, <2>2, <1>g DEF OnlyNewer
<1>2. CASE ClickInstall \/ Decline \/ SaveSettings
  BY <1>2, <1>g DEF ClickInstall, Decline, SaveSettings, managerVars, OnlyNewer
<1>3. CASE Confirm
  <2>1. app # "gone" /\ StartWorker([kind |-> "install", release |-> latest_release])
        /\ UNCHANGED <<latest_release, update_events, running>>
    BY <1>3 DEF Confirm
  <2>2. (worker' # None /\ worker'.kind = "install") => OnlyNewer(worker'.release)
    BY <2>1, <1>g, <1>w
  <2> QED
    BY <2>1, <2>2, <1>g DEF OnlyNewer
<1>4. CASE HandleUpdateEvent
  <2> DEFINE event == Head(update_events)
  <2>1. app # "gone" /\ UNCHANGED <<worker, running>>
    BY <1>4 DEF HandleUpdateEvent
  <2>2. event \in NewerThan(running)
    BY <1>4, <2>1, <1>g, HeadInQueue DEF HandleUpdateEvent
  <2>3. \A i \in DOMAIN update_events' : update_events'[i] \in NewerThan(running)
    BY <1>4, <2>1, <1>g, <1>n, QueueStep DEF HandleUpdateEvent
  <2> HIDE DEF event
  <2>4. latest_release' \in {latest_release, event.release}
    BY <1>4 DEF HandleUpdateEvent, HandleAvailable, HandleDone, HandleReady, event
  <2> QED
    BY <2>1, <2>2, <2>3, <2>4, <1>g DEF NewerThan, OnlyNewer
<1>5. CASE Close
  BY <1>5, <1>s, <1>g DEF Close, ProcessEnds, managerVars, OnlyNewer
<1>6. CASE EndTask
  BY <1>6, <1>s DEF EndTask, ProcessEnds
<1>7. CASE Report
  <2>1. app' = app /\ running' = running /\ latest_release' = latest_release /\ worker # None
        /\ worker' = None
    BY <1>7 DEF Report, tkVars
  <2>2. PICK e \in Named : /\ update_events' = Append(update_events, e)
                          /\ \/ e.release = None
                             \/ worker.kind = "install" /\ e.release = worker.release
                             \/ e.release \in Releases /\ Newer(e.release.version, running)
    BY <1>7, ReportTells
  <2>3. e \in NewerThan(running)
    BY <2>1, <2>2, <1>g DEF NewerThan, OnlyNewer, Named
  <2>4. \A i \in DOMAIN update_events' : update_events'[i] \in NewerThan(running)
    BY <2>1, <2>2, <2>3, <1>g, <1>n, QueueStep
  <2> QED
    BY <2>1, <2>4, <1>g DEF OnlyNewer
<1>8. CASE Leave
  BY <1>8, <1>g DEF Leave, tkVars, OnlyNewer
<1>9. CASE UNCHANGED appVars
  BY <1>9, <1>g DEF appVars, tkVars, managerVars, OnlyNewer
<1>10. UserStart \/ Relaunch \/ Answer => EmptyProcess \/ UNCHANGED appVars
  BY DEF UserStart, Relaunch, Answer, EndWithStart, StartProcess
<1> QED
  BY <1>s, <1>1, <1>2, <1>3, <1>4, <1>5, <1>6, <1>7, <1>8, <1>9, <1>10
     DEF Next, Tk, Installation, Wait, Extract, Copy, Verify, Tell, ScriptEnds, Publish, vars

LEMMA NotBehindStep ==
    ASSUME TypeOK, TypeOK', ReleaseNamed, OfferedNewer, NotBehind, [Next]_vars
    PROVE  NotBehind'
<1> USE DEF NotBehind
<1>t. /\ running \in WellFormed /\ installed["exe"] \in WellFormed
      /\ installer # None => installer.release.version \in WellFormed
  BY UpdaterAssumption DEF TypeOK, Files, Installers
<1>o. \A v \in WellFormed : ~Outranks(v, v)
  BY OutranksStrict
<1>s. ASSUME StartProcess, UNCHANGED installed, installer' = installer \/ installer' = None
      PROVE  NotBehind'
  BY <1>s, <1>t, <1>o DEF StartProcess
<1>p. ASSUME InstallerStep, UNCHANGED <<appVars, installed>>, NEW p \in Phases, Phase(p)
      PROVE  NotBehind'
  BY <1>p, PhaseType DEF InstallerStep, appVars
<1>1. CASE HandleUpdateEvent
  <2> DEFINE event == Head(update_events)
  <2>1. event \in Events /\ (event.kind = "ready" =>
           event.release \in Releases /\ Newer(event.release.version, running))
    <3>1. PICK i \in DOMAIN update_events : event = update_events[i]
      BY <1>1, HeadInQueue DEF HandleUpdateEvent
    <3>2. event \in Events
      BY <1>1, HeadInQueue DEF HandleUpdateEvent
    <3> QED
      BY <1>1, <3>1, <3>2 DEF HandleUpdateEvent, ReleaseNamed, OfferedNewer, OnlyNewer, Events
  <2> HIDE DEF event
  <2>2. installer' = installer
        \/ (event.kind = "ready" /\ installer' = [release |-> event.release, phase |-> "waiting"])
    BY <1>1 DEF HandleUpdateEvent, HandleAvailable, HandleDone, HandleReady, event
  <2>3. app # "gone" /\ UNCHANGED <<app, running, installed>>
    BY <1>1 DEF HandleUpdateEvent
  <2>4. CASE event.kind = "ready" /\ installer' = [release |-> event.release, phase |-> "waiting"]
    <3>1. event.release.version \in WellFormed
      BY <2>1, <2>4, UpdaterAssumption
    <3>2. ~Outranks(running, event.release.version)
      BY <2>1, <2>4, <3>1, <1>t, OutranksStrict
    <3> QED
      BY <2>3, <2>4, <3>2
  <2> QED
    BY <2>2, <2>3, <2>4
<1>2. CASE Wait \/ Extract \/ Verify \/ Tell
  BY <1>2, <1>p DEF Wait, Extract, Verify, Tell, InstallerStep, Phases
<1>3. CASE Copy
  <2> DEFINE content == Content(installer.release)
  <2>1. installer # None /\ installer' # None /\ installer'.release = installer.release
    BY <1>3, PhaseType DEF Copy, InstallerStep, CopyVerdict, Phases
  <2>2. PICK copied \in SUBSET DOMAIN content :
           /\ app # "gone" => "exe" \notin copied
           /\ installed' = [f \in Files |-> IF f \in copied THEN content[f] ELSE installed[f]]
    BY <1>3 DEF Copy
  <2>3. "exe" \in copied => content["exe"] = installer.release.version
    BY DEF Content, Files
  <2>4. installed'["exe"] = IF "exe" \in copied THEN installer.release.version ELSE installed["exe"]
    BY <2>2, <2>3 DEF Files
  <2>5. UNCHANGED <<app, running>>
    BY <1>3 DEF Copy, appVars
  <2> QED
    BY <2>1, <2>2, <2>4, <2>5, <1>t, <1>o, UpdaterAssumption
<1>4. CASE Relaunch \/ Answer
  <2>1. CASE EndWithStart
    <3>1. UNCHANGED installed /\ installer' = None
      BY <2>1 DEF EndWithStart
    <3>2. CASE UNCHANGED appVars
      BY <3>1, <3>2 DEF appVars
    <3> QED
      BY <1>s, <2>1, <3>1, <3>2 DEF EndWithStart
  <2> QED
    BY <1>4, <1>p, <2>1 DEF Relaunch, Answer, Phases
<1>5. CASE UserStart
  BY <1>5, <1>s DEF UserStart, outerVars
<1>6. CASE ScriptEnds
  BY <1>6 DEF ScriptEnds, appVars
<1>7. CASE Close
  BY <1>7 DEF Close, ProcessEnds, outerVars
<1>8. CASE UNCHANGED <<app, running, installer, installed>>
  BY <1>8
<1>9. CASE EndTask
  BY <1>9 DEF EndTask, ProcessEnds, outerVars
<1> QED
  BY <1>1, <1>2, <1>3, <1>4, <1>5, <1>6, <1>7, <1>8, <1>9
     DEF Next, Tk, Installation, AutomaticUpdateTick, ClickCheck, CheckForUpdates, ClickInstall, Decline,
         Confirm, SaveSettings, Report, Leave, Publish, vars, appVars, outerVars

(* Only the copying changes files, and it is past only when all are there. *)
LEMMA WholeCopyStep ==
    ASSUME TypeOK, WholeCopy, [Next]_vars
    PROVE  WholeCopy'
<1> USE DEF WholeCopy
<1>1. CASE HandleUpdateEvent
  <2>1. installed' = installed
        /\ (installer' = installer \/ (installer' # None => installer'.phase = "waiting"))
    BY <1>1 DEF HandleUpdateEvent, HandleAvailable, HandleDone, HandleReady
  <2> QED
    BY <2>1
<1>2. CASE Wait \/ Extract \/ Tell
  <2>1. installed' = installed
        /\ \E p \in {"extracting", "copying", "failed", "asking"} : installer # None /\ Phase(p)
    BY <1>2 DEF Wait, Extract, Tell, InstallerStep
  <2>2. PICK p \in {"extracting", "copying", "failed", "asking"} : installer # None /\ Phase(p)
    BY <2>1
  <2>3. installer'.phase = p
    BY <2>2, PhaseType DEF Phases
  <2> QED
    BY <2>3
<1>3. CASE Verify
  <2>1. installer # None /\ installer.phase = "verifying" /\ installed' = installed
    BY <1>3 DEF Verify, InstallerStep
  <2>2. CASE installed["stamp"] \in {None, installer.release.version} /\ Phase("succeeded")
    <3>1. installer'.release = installer.release /\ installer'.phase = "succeeded"
      BY <2>1, <2>2, PhaseType DEF Phases
    <3> QED
      BY <2>1, <2>2, <3>1
  <2>3. CASE Phase("failed")
    <3>1. installer'.phase = "failed"
      BY <2>1, <2>3, PhaseType DEF Phases
    <3> QED
      BY <3>1
  <2> QED
    BY <1>3, <2>2, <2>3 DEF Verify
<1>4. CASE Copy
  <2> DEFINE content == Content(installer.release)
  <2>1. installer # None
    BY <1>4 DEF Copy, InstallerStep
  <2>2. PICK copied \in SUBSET DOMAIN content :
           /\ installed' = [f \in Files |-> IF f \in copied THEN content[f] ELSE installed[f]]
           /\ Phase(CopyVerdict(copied, content))
    BY <1>4 DEF Copy
  <2>3. /\ installer'.release = installer.release /\ installer'.phase = CopyVerdict(copied, content)
    BY <2>1, <2>2, PhaseType DEF CopyVerdict, Phases
  <2>4. /\ {"exe", "library"} \subseteq DOMAIN content
        /\ content["exe"] = installer.release.version /\ content["library"] = installer.release.version
    BY DEF Content, Files
  <2>5. CASE CopyVerdict(copied, content) = "verifying"
    <3>1. copied = DOMAIN content
      BY <2>5 DEF CopyVerdict
    <3> QED
      BY <2>2, <2>3, <2>4, <2>5, <3>1 DEF Files
  <2>6. CASE CopyVerdict(copied, content) = "failed"
    BY <2>3, <2>6
  <2> QED
    BY <2>5, <2>6 DEF CopyVerdict
<1>5. CASE Relaunch \/ Answer \/ ScriptEnds
  <2>1. CASE installer # None /\ Phase("failed")
    BY <2>1, PhaseType DEF Phases
  <2> QED
    BY <1>5, <2>1 DEF Relaunch, Answer, EndWithStart, ScriptEnds, InstallerStep
<1>6. CASE UNCHANGED <<installer, installed>>
  BY <1>6
<1> QED
  BY <1>1, <1>2, <1>3, <1>4, <1>5, <1>6
     DEF Next, Tk, Installation, AutomaticUpdateTick, ClickCheck, CheckForUpdates, ClickInstall, Decline,
         Confirm, SaveSettings, Close, Report, Leave, UserStart, EndTask, Publish, vars, outerVars
----------------------------------------------------------------------------
LEMMA InitInvariant == Init => IInv
<1> SUFFICES ASSUME Init PROVE IInv
  OBVIOUS
<1> USE DEF Init
<1>1. Installed \in WellFormed /\ Installed # None
  BY UpdaterAssumption
<1>2. PICK stamp \in FirstStamps :
         installed = [f \in Files |-> IF f = "stamp" THEN stamp ELSE Installed]
  OBVIOUS
<1>3. installed["exe"] = Installed
  BY <1>2 DEF Files
<1>4. TypeOK
  <2>1. update_events \in Seq(Events)
    OBVIOUS
  <2>2. button \in Buttons
    BY DEF FreshButton, Buttons
  <2>3. installed \in [Files -> WellFormed \cup {None}]
    BY <1>1, <1>2, UpdaterAssumption
  <2>4. latest_release = None /\ dialog = FALSE /\ worker = None /\ installer = None /\ published \subseteq Releases
    OBVIOUS
  <2>5. app = "open" /\ running = Installed /\ channel \in {"stable", "test"}
        /\ check_on_start \in BOOLEAN /\ close_due \in BOOLEAN /\ busy \in BOOLEAN
    OBVIOUS
  <2>6. losses \in 0..MaxLosses
    <3>1. MaxLosses \in Nat /\ losses = 0
      BY UpdaterAssumption
    <3> QED
      BY <3>1
  <2> QED
    BY <1>1, <2>1, <2>2, <2>3, <2>4, <2>5, <2>6, Zenon DEF TypeOK
<1>5. ReleaseNamed /\ OfferedNewer
  BY DEF ReleaseNamed, OfferedNewer, OnlyNewer
<1>6. NotBehind
  BY <1>1, <1>3, OutranksStrict DEF NotBehind
<1> QED
  BY <1>4, <1>5, <1>6 DEF IInv, WholeCopy

(* The invariant holds in every reachable state. *)
LEMMA Invariance == Spec => []IInv
<1>1. IInv /\ [Next]_vars => IInv'
  <2> SUFFICES ASSUME IInv, [Next]_vars PROVE IInv'
    OBVIOUS
  <2>1. TypeOK /\ ReleaseNamed /\ OfferedNewer /\ NotBehind /\ WholeCopy
    BY DEF IInv
  <2>2. TypeOK'
    BY <2>1, TypeStep DEF NotBehind
  <2> QED
    BY <2>1, <2>2, NamedStep, OfferedStep, NotBehindStep, WholeCopyStep DEF IInv
<1> QED
  BY InitInvariant, <1>1, PTL DEF Spec

(* Every variable keeps its type, whatever is published. *)
THEOREM TypeCorrect == Spec => []TypeOK
<1>1. IInv => TypeOK
  BY DEF IInv
<1> QED
  BY <1>1, Invariance, PTL

(* The program that starts next is never an older release than the one that *)
(* ran: what starts is the installed executable (update_manager.py 363).    *)
THEOREM NeverOlder == Spec => NeverDowngraded
<1>1. IInv /\ [Next]_vars => [app = "gone" /\ app' = "open" => ~Outranks(running, running')]_vars
  <2> SUFFICES ASSUME IInv, [Next]_vars, app = "gone", app' = "open"
               PROVE  ~Outranks(running, running')
    OBVIOUS
  <2>1. CASE StartProcess
    BY <2>1 DEF StartProcess, IInv, NotBehind
  <2>2. CASE app' = app
    BY <2>2
  <2>3. CASE app # "gone"
    BY <2>3
  <2> QED
    BY <2>1, <2>2, <2>3
       DEF Next, Tk, Installation, AutomaticUpdateTick, ClickCheck, CheckForUpdates, ClickInstall, Decline,
           Confirm, SaveSettings, HandleUpdateEvent, Close, ProcessEnds, Report, Leave, Wait, Extract,
           Copy, Verify, Tell, Relaunch, Answer, EndWithStart, UserStart, EndTask, ScriptEnds, Publish,
           vars, appVars
<1> QED
  BY <1>1, Invariance, PTL DEF Spec, NeverDowngraded

(* The installer reports success only over a whole copy of the release.     *)
THEOREM SuccessMeansWhole == Spec => []SuccessIsWhole
<1>1. IInv => SuccessIsWhole
  BY DEF IInv, WholeCopy, SuccessIsWhole
<1> QED
  BY <1>1, Invariance, PTL
=============================================================================
