------------------------------ MODULE SamSync ------------------------------
(***************************************************************************)
(* The two-way synchronisation of the desktop's combat state with Sam.py:   *)
(* the Tk thread (app.py: dirty flag, debounced push, event handling), the  *)
(* one worker thread of SamClient (sam_client.py: command queue, newest     *)
(* payload, retry, revision-aware polling) and the external server.         *)
(*                                                                         *)
(* The synchronised values (hit points, RP combat switch) are one register  *)
(* whose values are the identities of the writes to it; 0 is the initial    *)
(* value.  Time only matters as an interval that is over or not.            *)
(***************************************************************************)
EXTENDS Integers, Sequences, FiniteSets

CONSTANTS
    Links,         \* device tokens and base URLs: each names one remote character
    None,          \* no link, no payload, no request, no reply
    MaxEdits,      \* bound on local changes
    MaxRemote,     \* bound on changes made on the server's side
    MaxFailures,   \* bound on requests that fail
    MaxRestarts,   \* bound on server restarts
    MaxCommands,   \* bound on pulls, pairings, unlinks, configuration changes and restarts
    MaxBacklog,    \* bound on unhandled events where an unlinked device retries a sync
    CommandKinds   \* which of those the environment uses

States   == [link : Links, epoch : Nat, revision : Nat, value : Nat]
Payloads == [seq : Nat, value : Nat, link : Links \cup {None}]
Commands == [kind : {"sync_latest", "pull", "unlink", "recovery"}, link : {None}]
            \cup [kind : {"pair"}, link : Links]
Replies  == [changed : BOOLEAN, state : States]

Unknown == 0 - 1   \* _last_revision before any state response

Requests ==
    {r \in [kind : {"sync", "pull", "pair", "unlink", "recovery", "poll", "full"}, link : Links,
            after : Nat \cup {Unknown}, payload : Payloads \cup {None}, reply : Replies \cup {None}] :
        r.kind = "sync" => r.payload # None}

(* What the worker tells of: a failed sync and an unlinking name no state. *)
Reports ==
    {e \in [source : {"sync", "poll", "pull", "pair", "unlink", "recovery"}, ok : BOOLEAN,
            state : States \cup {None}, seq : Nat] :
        /\ e.state = None <=> e.source = "unlink" \/ ~e.ok
        /\ e.ok \/ e.source = "sync"}

ASSUME SyncAssumption ==
    /\ None \notin Links
    /\ None \notin States /\ None \notin Payloads /\ None \notin Replies /\ None \notin Requests
    /\ {MaxEdits, MaxRemote, MaxFailures, MaxRestarts, MaxCommands, MaxBacklog} \subseteq Nat
    /\ CommandKinds \subseteq {"pull", "pair", "unlink", "recovery", "switch"}

VARIABLES
    (* Tk thread *)
    local,          \* the value the desktop shows and plays by
    link,           \* the configured token and base URL
    sam_local_dirty,
    sam_sync_inflight,
    sync_due,       \* sam_sync_due_at is set
    pending_remote, \* sam_pending_remote_state
    client_seq,     \* sam_client_seq
    (* SamClient, shared under its lock *)
    latest,         \* _latest_sync_payload
    marker,         \* _sync_marker_queued
    cooling,        \* now < _sync_retry_at
    last_revision,  \* _last_revision
    failing,        \* _consecutive_poll_failures > 0
    commands,       \* _commands
    turn,           \* where the worker is in its loop: "command" or "poll"
    request,        \* the HTTP request the worker waits for
    (* the queue from the worker to the Tk thread *)
    sam_events,
    (* Sam.py *)
    server,
    (* environment and history *)
    writes, edits, remotes, failures, restarts, asked,
    fresh,          \* local is an edit made under this link that no server has processed
    seen            \* the state the revision cursor was taken from

appVars    == <<local, link, sam_local_dirty, sam_sync_inflight, sync_due, pending_remote, client_seq>>
clientVars == <<latest, marker, cooling, last_revision, failing>>
loopVars   == <<commands, turn, request>>
envVars    == <<writes, edits, remotes, failures, restarts, asked>>
ghostVars  == <<fresh, seen>>
vars       == <<appVars, clientVars, loopVars, sam_events, server, envVars, ghostVars>>

State(l) == [link |-> l, epoch |-> server[l].epoch, revision |-> server[l].revision,
             value |-> server[l].value]

Init ==
    /\ local = 0
    /\ link \in Links \cup {None}
    /\ sam_local_dirty = FALSE
    /\ sam_sync_inflight = FALSE
    /\ sync_due = FALSE
    /\ pending_remote = None
    /\ client_seq = 0
    /\ latest = None
    /\ marker = FALSE
    /\ cooling = FALSE
    /\ last_revision = Unknown
    /\ failing = FALSE
    /\ commands = <<>>
    /\ turn = "command"
    /\ request = None
    /\ sam_events = <<>>
    /\ server = [l \in Links |-> [epoch |-> 0, revision |-> 1, value |-> 0]]
    /\ writes = 0
    /\ edits = 0
    /\ remotes = 0
    /\ failures = 0
    /\ restarts = 0
    /\ asked = 0
    /\ fresh = FALSE
    /\ seen = None
----------------------------------------------------------------------------
(* The Tk thread. *)

(* A result, a toggle or a health update of the avatar or the UI, followed  *)
(* by _schedule_sam_sync, which ignores an unlinked device.                 *)
LocalEdit ==
    /\ edits < MaxEdits
    /\ edits' = edits + 1
    /\ writes' = writes + 1
    /\ local' = writes + 1
    /\ IF link = None
       THEN UNCHANGED <<sam_local_dirty, sync_due, fresh>>
       ELSE sam_local_dirty' = TRUE /\ sync_due' = TRUE /\ fresh' = TRUE
    /\ UNCHANGED <<link, sam_sync_inflight, pending_remote, client_seq, clientVars, loopVars,
                   sam_events, server, remotes, failures, restarts, asked, seen>>

(* SamClient.sync: the newest payload replaces an older one, and the marker *)
(* is queued unless one is queued already or a retry delay is running.      *)
QueueSync(payload) ==
    /\ latest' = payload
    /\ IF marker \/ cooling
       THEN UNCHANGED <<marker, commands>>
       ELSE marker' = TRUE /\ commands' = Append(commands, [kind |-> "sync_latest", link |-> None])

PushSamState ==
    /\ sync_due
    /\ ~sam_sync_inflight
    /\ sync_due' = FALSE
    /\ sam_sync_inflight' = TRUE
    /\ client_seq' = client_seq + 1
    /\ QueueSync([seq |-> client_seq + 1, value |-> local, link |-> link])
    /\ UNCHANGED <<local, link, sam_local_dirty, pending_remote, cooling, last_revision, failing,
                   turn, request, sam_events, server, envVars, ghostVars>>

(* SamClient.reconfigure with another token or base URL. *)
ResetCursor(l) ==
    /\ link' = l
    /\ IF l # link
       THEN last_revision' = Unknown /\ failing' = FALSE /\ cooling' = FALSE
       ELSE UNCHANGED <<last_revision, failing, cooling>>
    /\ fresh' = (fresh /\ l = link)

(* A settings page stores another base URL. *)
SwitchLink(l) ==
    /\ "switch" \in CommandKinds
    /\ link \notin {None, l}
    /\ asked + restarts < MaxCommands
    /\ asked' = asked + 1
    /\ ResetCursor(l)
    /\ UNCHANGED <<local, sam_local_dirty, sam_sync_inflight, sync_due, pending_remote, client_seq,
                   latest, marker, loopVars, sam_events, server, writes, edits, remotes, failures,
                   restarts, seen>>

(* Reconnect All, the connection test, Pair, Unlink and Use Recovery hand   *)
(* the worker a command.                                                    *)
Ask(kind, l) ==
    /\ kind \in CommandKinds
    /\ asked + restarts < MaxCommands
    /\ asked' = asked + 1
    /\ commands' = Append(commands, [kind |-> kind, link |-> l])
    /\ UNCHANGED <<appVars, clientVars, turn, request, sam_events, server, writes, edits, remotes,
                   failures, restarts, ghostVars>>

(* _apply_sam_state past its deferral: the remote values replace the local  *)
(* ones, and a deferred snapshot that is not newer is dropped.              *)
ApplySamState(state) ==
    /\ local' = state.value
    /\ fresh' = (fresh /\ local' = local)

Superseded(state) == pending_remote # None /\ state.revision >= pending_remote.revision

StillInflight_on_success(event) == event.ok
StillInflight(event) == FALSE

HandleSynced(event) ==
    /\ event.source = "sync"
    /\ sam_sync_inflight' = StillInflight(event)
    /\ IF event.ok
       THEN ApplySamState(event.state) /\ sam_local_dirty' = FALSE /\ pending_remote' = None
       ELSE UNCHANGED <<local, sam_local_dirty, pending_remote, fresh>>
    /\ UNCHANGED <<link, last_revision, failing, cooling>>

MustDefer_never == FALSE
MustDefer == sam_local_dirty \/ sam_sync_inflight

HandlePolled(event) ==
    /\ event.source = "poll"
    /\ IF MustDefer
       THEN /\ pending_remote' = IF pending_remote = None \/ event.state.revision >= pending_remote.revision
                                 THEN event.state ELSE pending_remote
            /\ UNCHANGED <<local, fresh>>
       ELSE /\ ApplySamState(event.state)
            /\ pending_remote' = IF Superseded(event.state) THEN None ELSE pending_remote
    /\ UNCHANGED <<link, last_revision, failing, cooling, sam_local_dirty, sam_sync_inflight>>

HandlePulled(event) ==
    /\ event.source \in {"pull", "recovery"}
    /\ ApplySamState(event.state)
    /\ pending_remote' = IF Superseded(event.state) THEN None ELSE pending_remote
    /\ UNCHANGED <<link, last_revision, failing, cooling, sam_local_dirty, sam_sync_inflight>>

HandlePaired(event) ==
    /\ event.source = "pair"
    /\ link' = event.state.link
    /\ IF link' # link
       THEN last_revision' = Unknown /\ failing' = FALSE /\ cooling' = FALSE
       ELSE UNCHANGED <<last_revision, failing, cooling>>
    /\ local' = event.state.value
    /\ fresh' = FALSE
    /\ pending_remote' = IF Superseded(event.state) THEN None ELSE pending_remote
    /\ UNCHANGED <<sam_local_dirty, sam_sync_inflight>>

HandleUnlinked(event) ==
    /\ event.source = "unlink"
    /\ ResetCursor(None)
    /\ UNCHANGED <<local, pending_remote, sam_local_dirty, sam_sync_inflight>>

HandleSamEvent ==
    /\ sam_events # <<>>
    /\ LET event == Head(sam_events)
       IN  HandleSynced(event) \/ HandlePolled(event) \/ HandlePulled(event)
           \/ HandlePaired(event) \/ HandleUnlinked(event)
    /\ sam_events' = Tail(sam_events)
    /\ UNCHANGED <<sync_due, client_seq, latest, marker, loopVars, server, envVars, seen>>
----------------------------------------------------------------------------
(* The worker thread. *)

(* _queue_sync_retry_if_due at the top of the loop. *)
RetryDue == latest # None /\ ~marker /\ ~cooling

Requeued == IF RetryDue THEN Append(commands, [kind |-> "sync_latest", link |-> None]) ELSE commands

Post(kind, l, payload) ==
    request' = [kind |-> kind, link |-> l, after |-> Unknown, payload |-> payload, reply |-> None]

Report(source, ok, state, seq) == [source |-> source, ok |-> ok, state |-> state, seq |-> seq]

Emit_urgent(source, ok, state, seq) ==
    sam_events' = <<Report(source, ok, state, seq)>> \o sam_events
Emit_first_only(source, ok, state, seq) ==
    sam_events' = IF sam_events = <<>> THEN <<Report(source, ok, state, seq)>> ELSE sam_events
Emit(source, ok, state, seq) ==
    sam_events' = Append(sam_events, Report(source, ok, state, seq))

(* A request that needs the device token is refused without one. *)
Paired == link # None

(* _commands.get times out on an empty queue. *)
NoCommand ==
    /\ turn = "command" /\ request = None
    /\ Requeued = <<>>
    /\ turn' = "poll"
    /\ UNCHANGED <<appVars, clientVars, commands, request, sam_events, server, envVars, ghostVars>>

(* The marker: dropped while the retry delay runs, spent on a payload that  *)
(* another marker already took, refused without a token, or sent.           *)
SpentMarker_kept == marker \/ RetryDue
SpentMarker == FALSE

TakeSync ==
    /\ turn = "command" /\ request = None
    /\ Requeued # <<>> /\ Head(Requeued).kind = "sync_latest"
    /\ commands' = Tail(Requeued)
    /\ turn' = "poll"
    /\ marker' = SpentMarker
    /\ \/ /\ cooling \/ latest = None
          /\ UNCHANGED <<latest, cooling, request, sam_events>>
       \/ /\ ~cooling /\ latest # None /\ ~Paired
          /\ Len(sam_events) < MaxBacklog
          /\ cooling' = TRUE
          /\ Emit("sync", FALSE, None, latest.seq)
          /\ UNCHANGED <<latest, request>>
       \/ /\ ~cooling /\ latest # None /\ Paired
          /\ latest' = None
          /\ Post("sync", link, latest)
          /\ UNCHANGED <<cooling, sam_events>>
    /\ UNCHANGED <<appVars, last_revision, failing, server, envVars, ghostVars>>

(* A command that needs the link fails without one; unlinking goes on. *)
RefuseCommand(kind) ==
    /\ ~Paired
    /\ IF kind = "unlink"
       THEN last_revision' = Unknown /\ Emit("unlink", TRUE, None, 0)
       ELSE kind \in {"pull", "recovery"} /\ UNCHANGED <<last_revision, sam_events>>
    /\ UNCHANGED request

SendCommand(command) ==
    /\ \/ command.kind = "pair" /\ Post("pair", command.link, None)
       \/ command.kind # "pair" /\ Paired /\ Post(command.kind, link, None)
    /\ UNCHANGED <<last_revision, sam_events>>

TakeCommand ==
    /\ turn = "command" /\ request = None
    /\ Requeued # <<>> /\ Head(Requeued).kind # "sync_latest"
    /\ SendCommand(Head(Requeued)) \/ RefuseCommand(Head(Requeued).kind)
    /\ commands' = Tail(Requeued)
    /\ marker' = (marker \/ RetryDue)
    /\ turn' = "poll"
    /\ UNCHANGED <<appVars, latest, cooling, failing, server, envVars, ghostVars>>

(* The poll interval is not over, or the device is not linked. *)
SkipPoll ==
    /\ turn = "poll" /\ request = None
    /\ turn' = "command"
    /\ UNCHANGED <<appVars, clientVars, commands, request, sam_events, server, envVars, ghostVars>>

(* _poll_path: the whole state after any failure, else only what is newer.  *)
PollAfter == IF last_revision = Unknown \/ failing THEN Unknown ELSE last_revision

Poll ==
    /\ turn = "poll" /\ request = None
    /\ Paired
    /\ turn' = "command"
    /\ request' = [kind |-> "poll", link |-> link, after |-> PollAfter, payload |-> None, reply |-> None]
    /\ UNCHANGED <<appVars, clientVars, commands, sam_events, server, envVars, ghostVars>>

(* _remember_state_response: a complete state replaces the cursor. *)
Remember(state) ==
    /\ last_revision' = state.revision
    /\ seen' = state

ReceiveSync ==
    /\ request.kind = "sync"
    /\ cooling' = FALSE
    /\ Remember(request.reply.state)
    /\ Emit("sync", TRUE, request.reply.state, request.payload.seq)
    /\ request' = None
    /\ UNCHANGED failing

ReceivePull ==
    /\ request.kind \in {"pull", "pair", "recovery"}
    /\ Remember(request.reply.state)
    /\ Emit(request.kind, TRUE, request.reply.state, 0)
    /\ request' = None
    /\ UNCHANGED <<cooling, failing>>

ReceiveUnlink ==
    /\ request.kind = "unlink"
    /\ last_revision' = Unknown
    /\ Emit("unlink", TRUE, None, 0)
    /\ request' = None
    /\ UNCHANGED <<cooling, failing, seen>>

(* _revision_epoch_rolled_back: the server's process has restarted. *)
RolledBack(revision) == last_revision # Unknown /\ revision < last_revision

ReceivePoll ==
    /\ request.kind = "poll"
    /\ failing' = (~request.reply.changed /\ link = None /\ RolledBack(request.reply.state.revision))
    /\ IF request.reply.changed
       THEN /\ Remember(request.reply.state)
            /\ Emit("poll", TRUE, request.reply.state, 0)
            /\ request' = None
       ELSE IF RolledBack(request.reply.state.revision)
       THEN /\ request' = IF link = None THEN None
                          ELSE [request EXCEPT !.kind = "full", !.link = link, !.after = Unknown, !.reply = None]
            /\ UNCHANGED <<last_revision, seen, sam_events>>
       ELSE /\ last_revision' = request.reply.state.revision
            /\ request' = None
            /\ UNCHANGED <<seen, sam_events>>
    /\ UNCHANGED cooling

ReceiveFull ==
    /\ request.kind = "full"
    /\ Remember(request.reply.state)
    /\ Emit("poll", TRUE, request.reply.state, 0)
    /\ request' = None
    /\ UNCHANGED <<cooling, failing>>

Receive ==
    /\ request # None /\ request.reply # None
    /\ ReceiveSync \/ ReceivePull \/ ReceiveUnlink \/ ReceivePoll \/ ReceiveFull
    /\ UNCHANGED <<appVars, latest, marker, commands, turn, server, envVars, fresh>>

(* _restore_failed_sync: a newer payload wins, else the failed one stays.   *)
Restored_never(payload) == None
Restored(payload) == payload

FailSync ==
    /\ request.kind = "sync"
    /\ latest' = IF latest = None THEN Restored(request.payload) ELSE latest
    /\ marker' = FALSE
    /\ cooling' = TRUE
    /\ Emit("sync", FALSE, None, request.payload.seq)
    /\ UNCHANGED <<last_revision, failing>>

FailPoll ==
    /\ request.kind \in {"poll", "full"}
    /\ failing' = TRUE
    /\ UNCHANGED <<latest, marker, cooling, last_revision, sam_events>>

FailOther ==
    /\ request.kind \in {"pull", "pair", "recovery"}
    /\ UNCHANGED <<latest, marker, cooling, last_revision, failing, sam_events>>

FailUnlink ==
    /\ request.kind = "unlink"
    /\ last_revision' = Unknown
    /\ Emit("unlink", TRUE, None, 0)
    /\ UNCHANGED <<latest, marker, cooling, failing>>

(* A timeout, an HTTP error, a lost connection: before or after the server  *)
(* has served the request.                                                  *)
Fail ==
    /\ request # None
    /\ failures < MaxFailures
    /\ failures' = failures + 1
    /\ FailSync \/ FailPoll \/ FailOther \/ FailUnlink
    /\ request' = None
    /\ UNCHANGED <<appVars, commands, turn, server, writes, edits, remotes, restarts, asked, ghostVars>>

(* The retry delay is over. *)
CoolDown ==
    /\ cooling
    /\ cooling' = FALSE
    /\ UNCHANGED <<appVars, latest, marker, last_revision, failing, loopVars, sam_events, server,
                   envVars, ghostVars>>
----------------------------------------------------------------------------
(* Sam.py, as the client uses it. *)
Write(l, value) ==
    server' = [server EXCEPT ![l] =
        [epoch |-> server[l].epoch,
         revision |-> IF value = server[l].value THEN server[l].revision ELSE server[l].revision + 1,
         value |-> value]]

ServeWrite(value) ==
    LET l == request.link
    IN  /\ Write(l, value)
        /\ request' = [request EXCEPT !.reply =
              [changed |-> TRUE,
               state |-> [link |-> l, epoch |-> server[l].epoch,
                          revision |-> server'[l].revision, value |-> value]]]

(* A sync is applied, or rejected by the DM gate; either way the reply is   *)
(* the state afterwards.                                                    *)
ServeSync ==
    /\ request.kind = "sync"
    /\ ServeWrite(request.payload.value) \/ ServeWrite(server[request.link].value)
    /\ fresh' = (fresh /\ local # request.payload.value)
    /\ UNCHANGED writes

(* A potion or a spell changes the hit points on the server. *)
ServeRecovery ==
    /\ request.kind = "recovery"
    /\ ServeWrite(writes + 1) /\ writes' = writes + 1
    /\ UNCHANGED fresh

ServeState ==
    /\ request.kind \notin {"sync", "recovery"}
    /\ request' = [request EXCEPT !.reply =
          [changed |-> server[request.link].revision > request.after, state |-> State(request.link)]]
    /\ UNCHANGED <<server, writes, fresh>>

Serve ==
    /\ request # None /\ request.reply = None
    /\ ServeSync \/ ServeRecovery \/ ServeState
    /\ UNCHANGED <<appVars, clientVars, commands, turn, sam_events, edits, remotes, failures,
                   restarts, asked, seen>>

RemoteChange(l) ==
    /\ remotes < MaxRemote
    /\ remotes' = remotes + 1
    /\ writes' = writes + 1
    /\ Write(l, writes + 1)
    /\ UNCHANGED <<appVars, clientVars, loopVars, sam_events, edits, failures, restarts, asked, ghostVars>>

(* The revision lives in memory: a restart begins a new epoch. *)
Restart(l) ==
    /\ restarts < MaxRestarts /\ asked + restarts < MaxCommands
    /\ restarts' = restarts + 1
    /\ server' = [server EXCEPT ![l] = [epoch |-> server[l].epoch + 1, revision |-> 1,
                                         value |-> server[l].value]]
    /\ UNCHANGED <<appVars, clientVars, loopVars, sam_events, writes, edits, remotes, failures, asked, ghostVars>>
----------------------------------------------------------------------------
App ==
    \/ LocalEdit \/ PushSamState \/ HandleSamEvent
    \/ \E l \in Links : SwitchLink(l) \/ Ask("pair", l)
    \/ \E kind \in {"pull", "unlink", "recovery"} : link # None /\ Ask(kind, None)

Worker == NoCommand \/ TakeSync \/ TakeCommand \/ SkipPoll \/ Poll \/ Receive \/ Fail \/ CoolDown

Sam == Serve \/ \E l \in Links : RemoteChange(l) \/ Restart(l)

Next == App \/ Worker \/ Sam

Spec == Init /\ [][Next]_vars

(* The Tk loop drains the queue and pushes on every round; the worker loops *)
(* until it is stopped, waits for an answer no longer than its timeout, and *)
(* polls whenever the interval is over; the retry delay is bounded.         *)
Fairness ==
    /\ WF_vars(HandleSamEvent)
    /\ WF_vars(PushSamState)
    /\ WF_vars(NoCommand \/ TakeSync \/ TakeCommand)
    /\ WF_vars(SkipPoll \/ Poll)
    /\ SF_vars(Poll)
    /\ WF_vars(Serve)
    /\ WF_vars(Receive)
    /\ WF_vars(CoolDown)

(* Types of the three parties' state and of everything in flight. *)
TypeOK ==
    /\ local \in Nat
    /\ link \in Links \cup {None}
    /\ {sam_local_dirty, sam_sync_inflight, sync_due, marker, cooling, failing, fresh} \subseteq BOOLEAN
    /\ pending_remote \in States \cup {None}
    /\ client_seq \in Nat
    /\ latest \in Payloads \cup {None}
    /\ last_revision \in Nat \cup {Unknown}
    /\ commands \in Seq(Commands)
    /\ turn \in {"command", "poll"}
    /\ request \in Requests \cup {None}
    /\ sam_events \in Seq(Reports)
    /\ server \in [Links -> [epoch : Nat, revision : Nat, value : Nat]]
    /\ {writes, edits, remotes, failures, restarts, asked} \subseteq Nat
    /\ seen \in States \cup {None}

(* The client still holds, sends or has reported on a payload of this client. *)
Carried ==
    \/ latest # None
    \/ request # None /\ request.kind = "sync"
    \/ \E i \in DOMAIN sam_events : sam_events[i].source = "sync"

(* A change marked dirty is never stranded: a push is due, or the payload   *)
(* (or its outcome) is still on its way through the one-slot mailbox, the   *)
(* request, a failed request's restore and the event queue.  A dirty flag   *)
(* with nothing behind it would defer every poll for good                   *)
(* (sam_client.py:106-117, 143-174, 393-423; app.py:1105-1119, 1649-1664).  *)
DirtyHasCarrier == sam_local_dirty => sync_due \/ Carried

(* The marker flag is never set without a marker in the queue: otherwise    *)
(* sync() and the retry would both wait for the other and no payload would  *)
(* be sent again (sam_client.py:106-117, 143-174, 393-406).                 *)
MarkerHasCommand == marker => \E i \in DOMAIN commands : commands[i].kind = "sync_latest"

(* The revision cursor never runs ahead of the desktop: when the server's   *)
(* current state is the one the cursor names, so that polls answer          *)
(* changed:false, the desktop shows that state, has it in its event queue,  *)
(* or has a push of its own pending whose answer will carry the state       *)
(* (app.py:1654-1658).                                                      *)
NoStateSwallowed ==
    link # None /\ seen # None /\ last_revision = server[link].revision
        /\ seen.link = link /\ seen.epoch = server[link].epoch
    => \/ local = server[link].value
       \/ sam_local_dirty \/ Carried
       \/ \E i \in DOMAIN sam_events :
             sam_events[i].state # None /\ sam_events[i].state.revision = last_revision

(* A polled state never overwrites a local change that no server has        *)
(* processed yet, however the poll and the change cross (app.py:1649-1664). *)
PollSparesEdits ==
    [][ sam_events # <<>> /\ Head(sam_events).source = "poll" /\ local' # local /\ edits' = edits
        => ~fresh ]_vars

(* When the answer to a sync is applied, a deferred poll snapshot of the    *)
(* same server run is not newer: dropping it (app.py:1368-1372) loses       *)
(* nothing.                                                                 *)
AckSupersedesDeferred ==
    \A i \in DOMAIN sam_events :
        LET event == sam_events[i]
        IN  i = 1 /\ event.source = "sync" /\ event.ok /\ pending_remote # None
            /\ pending_remote.link = event.state.link /\ pending_remote.epoch = event.state.epoch
            => event.state.revision >= pending_remote.revision

(* Every sync ends: the in-flight flag, without which no push is made, is   *)
(* cleared by a success or a failure report (app.py:1203-1208, 1329-1330).  *)
InflightResolves == sam_sync_inflight ~> ~sam_sync_inflight

(* Once the world is quiet the desktop and its character on the server      *)
(* agree: every local change is pushed or overruled, every remote change is *)
(* polled.                                                                  *)
Converges == <>[](link # None => local = server[link].value)
============================================================================
