-------------------------- MODULE ContactAuthority --------------------------
(***************************************************************************)
(* Combat authority: how a hit the controller has judged (ContactPipeline)  *)
(* is attributed to a source and sent to Sam.py as a combat event, and how  *)
(* the outcome comes back (combat_authority.py; app.py: hints, submission,  *)
(* results; sam_client.py: the command with its one retry).                 *)
(*                                                                         *)
(* A source is an NPC, known by name and avatars, or a player, known by the *)
(* label the catalog shows and an identity, which stands for VRChat user id *)
(* and avatar id.  The loss and the retry of a sync are in SamSync: here a  *)
(* sync is answered.  One unit of time is a fraction of the hint's time to  *)
(* live; the clock starts at 1 because 0 stands for "no hint".              *)
(***************************************************************************)
EXTENDS Integers, Sequences, FiniteSets

CONSTANTS
    Contacts,      \* the hits of one behaviour
    Npcs, Avatars,   \* names of NPCs, and avatars
    Labels, Players, \* labels of players, and identities
    None,
    Ttl,           \* source_hint_ttl_seconds
    MaxHp,
    Catalogs,      \* what Sam.py may publish
    UnclassifiedEnemy,  \* unclassified_contacts_are_enemy
    MaxTime,       \* bound on the clock
    MaxHints,      \* bound on hint packets
    MaxChanges,    \* bound on configuration and other local changes
    MaxRemote,     \* bound on changes of hit points and catalog on the server
    MaxRefreshes,  \* bound on catalog requests
    MaxFailures,   \* bound on requests that fail
    MaxUpsets      \* bound on all of these together

(* The rows of a catalog: the avatars of each NPC, the identity behind each *)
(* label of a player.                                                       *)
CatalogType ==
    [ready : BOOLEAN, enemies : UNION {[N -> (SUBSET Avatars) \ {{}}] : N \in SUBSET Npcs},
     players : UNION {[L -> Players] : L \in SUBSET Labels}]

ASSUME AuthorityAssumption ==
    /\ None \notin Contacts \cup Npcs \cup Avatars \cup Labels \cup Players
    /\ {Ttl, MaxHp, MaxTime, MaxHints, MaxChanges, MaxRemote, MaxRefreshes, MaxFailures,
         MaxUpsets} \subseteq Nat
    /\ MaxTime > 0
    /\ Catalogs \subseteq CatalogType
    /\ UnclassifiedEnemy \in BOOLEAN

VARIABLES
    now,
    (* the hits *)
    judged,
    (* StoriesOSCApp *)
    config,           \* the selected sources and NPC mode
    hint,             \* combat_source_hint
    catalog,          \* combat_catalog
    pending_events,   \* combat_pending_events
    hit_event,        \* controller.telemetry: the hit behind the field, or None
    current_hp,
    sam_local_dirty, sam_sync_inflight, sync_due,
    pending_remote,   \* sam_pending_remote_state
    (* SamClient *)
    commands, turn, request, last_revision, failing,
    sam_events,
    (* Sam.py *)
    server,           \* [hp, revision, catalog]
    answered,         \* its idempotency cache: the outcome of an event id
    (* environment and history *)
    packets,          \* the number of hint packets so far
    origin,           \* the number of the packet behind each field of the hint, or None
    attribution,      \* per submitted hit the packets its event rests on
    applications,     \* how often a hit has changed hit points or been reported in a payload
    changes, remotes, refreshes, failures

hintVars    == <<hint, packets, origin>>
syncVars    == <<sam_local_dirty, sam_sync_inflight, sync_due, pending_remote>>
clientVars  == <<commands, turn, request, last_revision, failing>>
serverVars  == <<server, answered, applications>>
counterVars == <<changes, remotes, refreshes, failures>>
vars == <<now, judged, config, hintVars, catalog, pending_events, hit_event, current_hp, syncVars,
          clientVars, sam_events, serverVars, attribution, counterVars>>

Fields == {"kind", "avatar_id", "enemy_name", "action"}

Unknown == 0 - 1   \* _last_revision before any state response

EventIds == Contacts \X {1, 2}   \* new_event_id: the first of a Contact, and one that is never made

EmptyCatalog == [ready |-> FALSE, enemies |-> <<>>, players |-> <<>>]

NothingSelected ==
    [npc |-> None, npc_avatar |-> None, player_label |-> None, player |-> None, npc_mode |-> FALSE]

(* _combat_npc_source_selected, _combat_pvp_source_selected: the selector's *)
(* value and what the catalog has for it now.                               *)
FirstAvatar(ids) == CHOOSE a \in ids : TRUE

WithNpc(c, n) ==
    [c EXCEPT !.npc = n, !.npc_avatar = IF n = None THEN None ELSE FirstAvatar(catalog.enemies[n])]

WithPlayer(c, l) ==
    [c EXCEPT !.player_label = l, !.player = IF l = None THEN None ELSE catalog.players[l]]

NoHint == [kind |-> None, avatar_id |-> None, enemy_name |-> None, action |-> None, received_at |-> 0]

(* Before the first catalog has come, or after it when sources are selected. *)
Init ==
    /\ now = 1
    /\ judged = {}
    /\ hint = NoHint
    /\ server \in [hp : {MaxHp}, revision : {1}, catalog : Catalogs]
    /\ catalog \in {server.catalog, EmptyCatalog}
    /\ config \in {WithPlayer(WithNpc(NothingSelected, n), l) :
                      n \in DOMAIN catalog.enemies \cup {None}, l \in DOMAIN catalog.players \cup {None}}
    /\ pending_events = {}
    /\ hit_event = None
    /\ current_hp = MaxHp
    /\ sam_local_dirty = FALSE
    /\ sam_sync_inflight = FALSE
    /\ sync_due = FALSE
    /\ pending_remote = None
    /\ commands = <<>>
    /\ turn = "command"
    /\ request = None
    /\ last_revision = Unknown
    /\ failing = FALSE
    /\ sam_events = <<>>
    /\ answered = [id \in EventIds |-> None]
    /\ packets = 0
    /\ origin = [f \in Fields |-> None]
    /\ attribution = [c \in Contacts |-> {}]
    /\ applications = [c \in Contacts |-> 0]
    /\ changes = 0
    /\ remotes = 0
    /\ refreshes = 0
    /\ failures = 0

(* Whether the environment may do one more thing. *)
Room == packets + changes + remotes + refreshes + failures < MaxUpsets

(* The clock is read against a hint only. *)
Advance ==
    /\ hint # NoHint
    /\ now < MaxTime
    /\ now' = now + 1
    /\ UNCHANGED <<judged, config, hintVars, catalog, pending_events, hit_event, current_hp,
                   syncVars, clientVars, sam_events, serverVars, attribution, counterVars>>
----------------------------------------------------------------------------
(* Identity hints of a companion (_handle_combat_identity_osc). *)
HintValues(field) ==
    CASE field = "kind"       -> {"npc", "player"}
      [] field = "avatar_id"  -> Avatars
      [] field = "enemy_name" -> Npcs
      [] field = "action"     -> {"named"}

(* CombatSourceHint.active, at the time t the clock is read. *)
Active(t) == hint.received_at # 0 /\ t - hint.received_at <= Ttl

(* One stamp for all fields: a packet for any of them makes the others      *)
(* fresh again.                                                             *)
ReceiveHint(field, value) ==
    /\ Room /\ packets < MaxHints
    /\ packets' = packets + 1
    /\ hint' = [hint EXCEPT ![field] = value, !.received_at = now]
    /\ origin' = [origin EXCEPT ![field] = packets + 1]
    /\ UNCHANGED <<now, judged, config, catalog, pending_events, hit_event, current_hp, syncVars,
                   clientVars, sam_events, serverVars, attribution, counterVars>>

Cleared_stamp_only == [hint EXCEPT !.received_at = 0]
Cleared_kind_only == [hint EXCEPT !.kind = None]
Cleared == NoHint

ClearHint ==
    /\ hint' = Cleared
    /\ origin' = [f \in Fields |-> IF hint'[f] = None THEN None ELSE origin[f]]

ReceiveClear ==
    /\ hint # NoHint
    /\ ClearHint
    /\ UNCHANGED <<now, judged, config, packets, catalog, pending_events, hit_event, current_hp,
                   syncVars, clientVars, sam_events, serverVars, attribution, counterVars>>
----------------------------------------------------------------------------
(* A judged hit of a linked device comes to _on_result. *)

EndpointReady == catalog.ready

(* A fresh hint overrides the label; an external Contact without label and  *)
(* without any player to blame counts as an Enemy's.  The clock is read     *)
(* anew for the second question.                                            *)
FromEnemy(labelled, t) == IF Active(t) /\ hint.kind # None THEN hint.kind = "npc" ELSE labelled

FallsToEnemy(canonical, t) ==
    /\ ~canonical
    /\ UnclassifiedEnemy
    /\ config.player = None
    /\ ~(Active(t) /\ hint.kind = "player")

(* build_incoming_contact_event: the identity of the source and the hint's  *)
(* fields it rests on, or None when the Contact must be held.               *)
Hinted(id, fields) == [id |-> id, fields |-> fields]
Selected(id) == [id |-> id, fields |-> {}]

HintedNpc ==
    IF hint.avatar_id # None THEN Hinted(hint.avatar_id, {"kind", "avatar_id", "enemy_name"})
    ELSE IF hint.enemy_name \in DOMAIN catalog.enemies
    THEN Hinted(FirstAvatar(catalog.enemies[hint.enemy_name]), {"kind", "enemy_name"})
    ELSE None

(* The avatar selected with an NPC counts while it is one of the NPC's. *)
SelectedNpc ==
    IF config.npc \notin DOMAIN catalog.enemies THEN None
    ELSE IF config.npc_avatar \in catalog.enemies[config.npc] THEN Selected(config.npc_avatar)
    ELSE Selected(FirstAvatar(catalog.enemies[config.npc]))

HintedPlayer == Hinted(hint.avatar_id, {"kind", "avatar_id"})

SelectedPlayer == IF config.player # None THEN Selected(config.player) ELSE None

IncomingSource(enemy, t) ==
    IF enemy
    THEN IF Active(t) /\ hint.kind = "npc" THEN HintedNpc ELSE SelectedNpc
    ELSE IF Active(t) /\ hint.kind = "player" /\ hint.avatar_id # None THEN HintedPlayer ELSE SelectedPlayer

(* The hint packets a submitted event rests on. *)
UsedPackets(source, t) ==
    {origin[f] : f \in source.fields \cup (IF Active(t) THEN {"action"} ELSE {})} \ {None}

Command(kind, id, contact, hp) == [kind |-> kind, event_id |-> id, contact |-> contact, hp |-> hp]

EventId(c) == <<c, 1>>

(* _schedule_sam_sync of a linked device. *)
ScheduleSync == sam_local_dirty' = TRUE /\ sync_due' = TRUE

(* _consume_hit_telemetry *)
Consumed == None

LegacyContact(c) ==
    /\ config.npc_mode \/ ~EndpointReady
    /\ hit_event' = c
    /\ ScheduleSync
    /\ UNCHANGED <<now, hint, origin, pending_events, commands, attribution>>

HoldContact(c, source) ==
    /\ source = None
    /\ hit_event' = Consumed
    /\ UNCHANGED <<hint, origin, pending_events, commands, sam_local_dirty, sync_due, attribution>>

SubmitContact(c, source, t) ==
    /\ source # None
    /\ hit_event' = Consumed
    /\ pending_events' = pending_events \cup {EventId(c)}
    /\ commands' = Append(commands, Command("combat_event", EventId(c), c, 0))
    /\ attribution' = [attribution EXCEPT ![c] = UsedPackets(source, t)]
    /\ ClearHint
    /\ UNCHANGED <<sam_local_dirty, sync_due>>

ClockReads == IF hint = NoHint THEN {now} ELSE {now, now + 1}

(* _submit_authoritative_contact; a unit of time may pass while it runs. *)
AuthoritativeContact(c) ==
    /\ ~config.npc_mode /\ EndpointReady
    /\ \E labelled, canonical \in BOOLEAN, fallback, built \in ClockReads :
          LET source == IncomingSource(FromEnemy(labelled, now) \/ FallsToEnemy(canonical, fallback), built)
          IN  /\ fallback <= built /\ built <= MaxTime
              /\ now' = built
              /\ HoldContact(c, source) \/ SubmitContact(c, source, built)

JudgedContact(c) ==
    /\ c \notin judged
    /\ judged' = judged \cup {c}
    /\ LegacyContact(c) \/ AuthoritativeContact(c)
    /\ UNCHANGED <<config, packets, catalog, current_hp, sam_sync_inflight,
                   pending_remote, turn, request, last_revision, failing, sam_events, serverVars,
                   counterVars>>
----------------------------------------------------------------------------
(* Other handlers of the Tk thread. *)

Changed ==
    /\ Room /\ changes < MaxChanges
    /\ changes' = changes + 1

(* The two source selectors offer what the catalog holds, or nothing. *)
SelectSource ==
    /\ Changed
    /\ \/ \E n \in DOMAIN catalog.enemies \cup {None} : config' = WithNpc(config, n)
       \/ \E l \in DOMAIN catalog.players \cup {None} : config' = WithPlayer(config, l)
    /\ config' # config
    /\ UNCHANGED <<now, judged, hintVars, catalog, pending_events, hit_event, current_hp, syncVars,
                   clientVars, sam_events, serverVars, attribution, remotes, refreshes, failures>>

(* enable_npc_mode, disable_npc_mode *)
SwitchNpcMode ==
    /\ Changed
    /\ config' = [config EXCEPT !.npc_mode = ~@]
    /\ ScheduleSync
    /\ commands' = Append(commands, Command("pull", None, None, 0))
    /\ UNCHANGED <<now, judged, hintVars, catalog, pending_events, hit_event, current_hp,
                   sam_sync_inflight, pending_remote, turn, request, last_revision, failing, sam_events,
                   serverVars, attribution, remotes, refreshes, failures>>

(* A change of no concern here makes a sync due. *)
LocalChange ==
    /\ Changed
    /\ ScheduleSync
    /\ UNCHANGED <<now, judged, config, hintVars, catalog, pending_events, hit_event, current_hp,
                   sam_sync_inflight, pending_remote, clientVars, sam_events, serverVars, attribution,
                   remotes, refreshes, failures>>

(* _push_sam_state: the payload takes the hit and clears its field. *)
PushSync ==
    /\ sync_due /\ ~sam_sync_inflight
    /\ sync_due' = FALSE
    /\ sam_sync_inflight' = TRUE
    /\ commands' = Append(commands, Command("sync", None, hit_event, current_hp))
    /\ hit_event' = None
    /\ UNCHANGED <<now, judged, config, hintVars, catalog, pending_events, current_hp,
                   sam_local_dirty, pending_remote, turn, request, last_revision, failing, sam_events,
                   serverVars, attribution, counterVars>>

(* _poll asks for the catalog every 20 s, the page's button at any time. *)
RequestCatalog ==
    /\ Room /\ refreshes < MaxRefreshes
    /\ refreshes' = refreshes + 1
    /\ commands' = Append(commands, Command("combat_catalog", None, None, 0))
    /\ UNCHANGED <<now, judged, config, hintVars, catalog, pending_events, hit_event, current_hp,
                   syncVars, turn, request, last_revision, failing, sam_events, serverVars, attribution,
                   changes, remotes, failures>>

(* _handle_combat_event_result: a registered outcome sets the hit points,   *)
(* also of a hit the server had already answered once.                      *)
HandleOutcome(event) ==
    /\ event.kind = "combat_event"
    /\ pending_events' = pending_events \ {event.event_id}
    /\ current_hp' = IF event.ok /\ event.reply.registered THEN event.reply.hp ELSE current_hp
    /\ UNCHANGED <<catalog, config, sam_local_dirty, sam_sync_inflight, pending_remote>>

(* _refresh_combat_source_selectors: a selection whose name or label is no  *)
(* longer listed is dropped.  What a listed label stands for is not looked  *)
(* up again, and the avatar of a dropped NPC stays.                         *)
LabelsListed(c, new) ==
    [c EXCEPT !.npc = IF @ \in DOMAIN new.enemies THEN @ ELSE None,
              !.player_label = IF @ \in DOMAIN new.players THEN @ ELSE None]

Refreshed_label_only(new) == LabelsListed(config, new)
Refreshed(new) ==
    IF config.player_label = None \/ config.player_label \in DOMAIN new.players
    THEN LabelsListed(config, new)
    ELSE [LabelsListed(config, new) EXCEPT !.player = None]

HandleCatalog(event) ==
    /\ event.kind = "combat_catalog"
    /\ IF event.ok
       THEN /\ catalog' = event.reply.catalog
            /\ config' = Refreshed(catalog')
       ELSE UNCHANGED <<catalog, config>>
    /\ UNCHANGED <<pending_events, current_hp, sam_local_dirty, sam_sync_inflight, pending_remote>>

(* The state of an acknowledged sync always replaces the local one. *)
HandleSynced(event) ==
    /\ event.kind = "sync"
    /\ current_hp' = event.reply.hp
    /\ sam_sync_inflight' = FALSE
    /\ sam_local_dirty' = FALSE
    /\ pending_remote' = None
    /\ UNCHANGED <<catalog, config, pending_events>>

(* The state of a poll waits while a local change is unacknowledged. *)
HandlePolled(event) ==
    /\ event.kind = "poll"
    /\ IF sam_local_dirty \/ sam_sync_inflight
       THEN /\ pending_remote' = IF pending_remote = None \/ event.reply.revision >= pending_remote.revision
                                 THEN event.reply ELSE pending_remote
            /\ UNCHANGED current_hp
       ELSE /\ current_hp' = event.reply.hp
            /\ UNCHANGED pending_remote
    /\ UNCHANGED <<catalog, config, pending_events, sam_local_dirty, sam_sync_inflight>>

HandlePulled(event) ==
    /\ event.kind = "pull"
    /\ IF event.ok
       THEN /\ current_hp' = event.reply.hp
            /\ pending_remote' = IF pending_remote # None /\ event.reply.revision >= pending_remote.revision
                                 THEN None ELSE pending_remote
       ELSE UNCHANGED <<current_hp, pending_remote>>
    /\ UNCHANGED <<catalog, config, pending_events, sam_local_dirty, sam_sync_inflight>>

HandleSamEvent ==
    /\ sam_events # <<>>
    /\ LET event == Head(sam_events)
       IN  HandleOutcome(event) \/ HandleCatalog(event) \/ HandleSynced(event) \/ HandlePolled(event)
           \/ HandlePulled(event)
    /\ sam_events' = Tail(sam_events)
    /\ UNCHANGED <<now, judged, hintVars, hit_event, sync_due, clientVars, serverVars,
                   attribution, counterVars>>
----------------------------------------------------------------------------
(* The worker thread: a command, then a poll when one is due. *)
Post(command, after) ==
    request' = [command |-> command, tries |-> 1, after |-> after, reply |-> None]

TakeCommand ==
    /\ request = None /\ commands # <<>>
    /\ commands' = Tail(commands)
    /\ turn' = "poll"
    /\ Post(Head(commands), Unknown)
    /\ UNCHANGED <<now, judged, config, hintVars, catalog, pending_events, hit_event, current_hp,
                   syncVars, last_revision, failing, sam_events, serverVars, attribution, counterVars>>

Poll ==
    /\ request = None
    /\ turn = "poll" \/ commands = <<>>
    /\ turn' = "command"
    /\ Post(Command("poll", None, None, 0), IF failing THEN Unknown ELSE last_revision)
    /\ UNCHANGED <<now, judged, config, hintVars, catalog, pending_events, hit_event, current_hp,
                   syncVars, commands, last_revision, failing, sam_events, serverVars, attribution,
                   counterVars>>

Emit(kind, ok, id, reply) ==
    sam_events' = Append(sam_events, [kind |-> kind, ok |-> ok, event_id |-> id, reply |-> reply])

(* Only a complete state moves the cursor; an outcome carries hit points,   *)
(* but not everything that has changed.                                     *)
Remembered_from_outcome(command, reply) == reply.revision
Remembered(command, reply) ==
    IF command.kind \in {"sync", "poll", "pull"} THEN reply.revision ELSE last_revision

(* A poll that is told "changed: false" emits only a heartbeat. *)
Receive ==
    /\ request # None /\ request.reply # None
    /\ request' = None
    /\ last_revision' = Remembered(request.command, request.reply)
    /\ failing' = (failing /\ request.command.kind # "poll")
    /\ IF request.command.kind = "poll" /\ request.reply.revision = request.after
       THEN UNCHANGED sam_events
       ELSE Emit(request.command.kind, TRUE, request.reply.event_id, request.reply)
    /\ UNCHANGED <<now, judged, config, hintVars, catalog, pending_events, hit_event, current_hp,
                   syncVars, commands, turn, serverVars, attribution, counterVars>>

(* The command fails for good; the event id goes with the error. *)
FailureId_lost(command) == None
FailureId(command) == command.event_id

GiveUp ==
    /\ request' = None
    /\ failing' = (failing \/ request.command.kind = "poll")
    /\ IF request.command.kind = "poll"
       THEN UNCHANGED sam_events
       ELSE Emit(request.command.kind, FALSE, FailureId(request.command), None)

(* A refusal: an HTTP error that is not transient, or no device token. *)
Refused ==
    /\ request.reply = None
    /\ GiveUp

(* A timeout, an overload or a lost connection, before or after Sam.py has  *)
(* served the request: a combat event is sent once more, under its id.      *)
RetryId_fresh(id) == <<id[1], 2>>
RetryId(id) == id

Lost ==
    IF request.command.kind = "combat_event" /\ request.tries = 1
    THEN /\ request' = [request EXCEPT !.tries = 2, !.reply = None,
                                       !.command.event_id = RetryId(@)]
         /\ UNCHANGED <<failing, sam_events>>
    ELSE GiveUp

Fail ==
    /\ request # None /\ request.command.kind # "sync"
    /\ Room /\ failures < MaxFailures
    /\ failures' = failures + 1
    /\ Refused \/ Lost
    /\ UNCHANGED <<now, judged, config, hintVars, catalog, pending_events, hit_event, current_hp,
                   syncVars, commands, turn, last_revision, serverVars, attribution, changes, remotes,
                   refreshes>>
----------------------------------------------------------------------------
(* Sam.py, as the client uses it. *)
Reply(id, registered, hp, revision) ==
    [event_id |-> id, registered |-> registered, hp |-> hp, revision |-> revision,
     catalog |-> server.catalog]

Applied(c) == applications' = [applications EXCEPT ![c] = @ + 1]

WithHp(hp) ==
    [server EXCEPT !.hp = hp, !.revision = IF hp = server.hp THEN @ ELSE @ + 1]

(* An event id is answered from the cache, or registered with damage or     *)
(* with none, or not registered (no active DM).                             *)
ServeEvent(command) ==
    /\ command.kind = "combat_event"
    /\ \/ /\ answered[command.event_id] # None
          /\ request' = [request EXCEPT !.reply = answered[command.event_id]]
          /\ UNCHANGED <<server, answered, applications>>
       \/ /\ answered[command.event_id] = None
          /\ \E registered \in BOOLEAN, damage \in 0 .. 1 :
                LET hp == IF registered /\ server.hp >= damage THEN server.hp - damage ELSE server.hp
                    reply == Reply(command.event_id, registered, hp, WithHp(hp).revision)
                IN  /\ request' = [request EXCEPT !.reply = reply]
                    /\ answered' = [answered EXCEPT ![command.event_id] = reply]
                    /\ server' = WithHp(hp)
                    /\ IF registered THEN Applied(command.contact) ELSE UNCHANGED applications

(* Whether the hit points of a payload are taken is the server's decision. *)
ServeSync(command) ==
    /\ command.kind = "sync"
    /\ \E hp \in {server.hp, command.hp} :
          /\ server' = WithHp(hp)
          /\ request' = [request EXCEPT !.reply = Reply(None, FALSE, hp, WithHp(hp).revision)]
    /\ IF command.contact = None THEN UNCHANGED applications ELSE Applied(command.contact)
    /\ UNCHANGED answered

ServeRead(command) ==
    /\ command.kind \in {"poll", "pull", "combat_catalog"}
    /\ request' = [request EXCEPT !.reply = Reply(None, FALSE, server.hp, server.revision)]
    /\ UNCHANGED <<server, answered, applications>>

Serve ==
    /\ request # None /\ request.reply = None
    /\ ServeEvent(request.command) \/ ServeSync(request.command) \/ ServeRead(request.command)
    /\ UNCHANGED <<now, judged, config, hintVars, catalog, pending_events, hit_event, current_hp,
                   syncVars, commands, turn, last_revision, failing, sam_events, attribution,
                   counterVars>>

RemoteChange ==
    /\ Room /\ remotes < MaxRemote
    /\ remotes' = remotes + 1
    /\ \/ \E hp \in 0 .. MaxHp : hp # server.hp /\ server' = WithHp(hp)
       \/ \E c \in Catalogs : c # server.catalog /\ server' = [server EXCEPT !.catalog = c]
    /\ UNCHANGED <<now, judged, config, hintVars, catalog, pending_events, hit_event, current_hp,
                   syncVars, clientVars, sam_events, answered, applications, attribution, changes,
                   refreshes, failures>>
----------------------------------------------------------------------------
Companion ==
    \/ \E field \in Fields : \E value \in HintValues(field) : ReceiveHint(field, value)
    \/ ReceiveClear

App ==
    \/ \E c \in Contacts : JudgedContact(c)
    \/ SelectSource \/ SwitchNpcMode \/ LocalChange \/ PushSync \/ RequestCatalog \/ HandleSamEvent

Worker == TakeCommand \/ Poll \/ Receive \/ Fail

Next == Advance \/ Companion \/ App \/ Worker \/ Serve \/ RemoteChange

Spec == Init /\ [][Next]_vars
----------------------------------------------------------------------------
Replies  == [event_id : EventIds \cup {None}, registered : BOOLEAN, hp : 0 .. MaxHp, revision : Nat,
             catalog : Catalogs]
CommandType == [kind : {"combat_event", "combat_catalog", "sync", "pull", "poll"}, event_id : EventIds \cup {None},
                contact : Contacts \cup {None}, hp : 0 .. MaxHp]
Requests == [command : CommandType, tries : {1, 2}, after : Nat \cup {Unknown}, reply : Replies \cup {None}]

Configs == [npc : Npcs \cup {None}, npc_avatar : Avatars \cup {None}, player_label : Labels \cup {None},
            player : Players \cup {None}, npc_mode : BOOLEAN]

(* None is no event id, reply or request, nor any value or packet of a hint. *)
ASSUME NoneAssumption ==
    /\ None \notin EventIds /\ None \notin Replies /\ None \notin Requests /\ None \notin Nat
    /\ \A f \in Fields : None \notin HintValues(f)

(* Types; and a hint that was cleared or never set holds no field, so that  *)
(* a later packet cannot bring one back.                                    *)
TypeOK ==
    /\ now \in 1 .. MaxTime
    /\ judged \subseteq Contacts
    /\ config \in Configs
    /\ \A f \in Fields : hint[f] \in HintValues(f) \cup {None}
    /\ hint.received_at \in 0 .. now
    /\ hint.received_at = 0 => \A f \in Fields : hint[f] = None
    /\ \A f \in Fields : origin[f] \in (1 .. packets) \cup {None}
    /\ \A f \in Fields : origin[f] = None <=> hint[f] = None
    /\ packets \in 0 .. MaxHints
    /\ catalog \in Catalogs \cup {EmptyCatalog}
    /\ hit_event \in Contacts \cup {None}
    /\ current_hp \in 0 .. MaxHp
    /\ {sam_local_dirty, sam_sync_inflight, sync_due, failing} \subseteq BOOLEAN
    /\ pending_remote \in Replies \cup {None}
    /\ commands \in Seq(CommandType)
    /\ turn \in {"command", "poll"}
    /\ request \in Requests \cup {None}
    /\ last_revision \in Nat \cup {Unknown}
    /\ server.hp \in 0 .. MaxHp /\ server.revision \in Nat /\ server.catalog \in Catalogs
    /\ \A id \in EventIds : answered[id] \in Replies \cup {None}
    /\ \A c \in Contacts : attribution[c] \subseteq 1 .. packets

(* A hit is applied at most once: no lost answer, retry, change of the      *)
(* catalog's readiness or of the configuration, and no payload pushed in    *)
(* between makes Sam.py register it twice, as an event or as a field of a   *)
(* payload (sam_client.py:132-135, app.py:996-998).                         *)
OneApplicationPerContact == \A c \in Contacts : applications[c] <= 1

(* A packet of an identity hint names or colours the source of one hit      *)
(* only, also when the hint is refilled after it was used (app.py:1015).    *)
HintNamesOneContact ==
    \A c, d \in Contacts : c # d => attribution[c] \cap attribution[d] = {}

(* The desktop waits for exactly the events that are under way: none is     *)
(* forgotten on failure, and none is waited for in vain (app.py:1009-1012,  *)
(* 1212-1216, 1379).                                                        *)
Carried ==
    {commands[i].event_id : i \in 1 .. Len(commands)}
    \cup (IF request = None THEN {} ELSE {request.command.event_id})
    \cup {sam_events[i].event_id : i \in 1 .. Len(sam_events)}

PendingIsCarried == pending_events = Carried \ {None}

(* No Contact is attributed behind the user's back: without a hint, its     *)
(* source is one a selector shows, and the selectors show what the catalog  *)
(* lists, however it changes after the selection.  That the identity behind *)
(* a label is still the catalog's is more than the code does                *)
(* (app.py:1432-1449, combat_authority.py:188-220).                         *)
SelectionIsShown ==
    /\ config.npc \in DOMAIN catalog.enemies \cup {None}
    /\ config.player_label \in DOMAIN catalog.players \cup {None}
    /\ config.player # None => config.player_label # None

(* When nothing is under way and the cursor has caught up, the desktop      *)
(* shows the server's hit points: an outcome from the idempotency cache     *)
(* that was overtaken by another change is put right by the next poll.      *)
Quiet ==
    /\ commands = <<>> /\ request = None /\ sam_events = <<>>
    /\ ~sam_local_dirty /\ ~sam_sync_inflight

MirrorFollows == Quiet /\ last_revision = server.revision => current_hp = server.hp
============================================================================
