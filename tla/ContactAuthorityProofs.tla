----------------------- MODULE ContactAuthorityProofs -----------------------
(***************************************************************************)
(* Theorems about ContactAuthority, for every set of hits and identities,   *)
(* whatever Sam.py publishes, and all bounds.                               *)
(***************************************************************************)
EXTENDS ContactAuthority, SequenceTheorems, TLAPS

Hints == [kind : {"npc", "player", None}, avatar_id : Avatars \cup {None},
          enemy_name : Npcs \cup {None}, action : {"named", None}, received_at : Nat]

(* A hint's time stamp is zero exactly where nothing is set, and each field *)
(* that is set names the packet it came with.                               *)
HintTypes ==
    /\ now \in 1 .. MaxTime
    /\ hint \in Hints /\ hint.received_at <= now
    /\ hint.received_at = 0 => \A f \in Fields : hint[f] = None
    /\ packets \in 0 .. MaxHints
    /\ origin \in [Fields -> (1 .. packets) \cup {None}]
    /\ \A f \in Fields : origin[f] = None <=> hint[f] = None

(* The packets behind an event were used up by it: none is behind the       *)
(* present hint, or behind another event.                                   *)
PacketsUsedUp ==
    /\ attribution \in [Contacts -> SUBSET (1 .. packets)]
    /\ \A f \in Fields, c \in Contacts : origin[f] \notin attribution[c]
    /\ HintNamesOneContact

HintInv == HintTypes /\ PacketsUsedUp
----------------------------------------------------------------------------
(* What becomes of a judged hit. *)

(* A unit of time may pass while it is handled. *)
TimePasses == now' \in {now, now + 1} /\ now' <= MaxTime

Legacy(c) ==
    /\ hit_event' = c /\ sam_local_dirty' = TRUE /\ sync_due' = TRUE
    /\ UNCHANGED <<now, hint, origin, pending_events, commands, attribution>>

Held(c) ==
    /\ hit_event' = None /\ TimePasses
    /\ UNCHANGED <<hint, origin, pending_events, commands, sam_local_dirty, sync_due, attribution>>

Submitted(c) ==
    /\ hit_event' = None /\ TimePasses
    /\ pending_events' = pending_events \cup {EventId(c)}
    /\ commands' = Append(commands, Command("combat_event", EventId(c), c, 0))
    /\ \E used \in SUBSET ({origin[f] : f \in Fields} \ {None}) : attribution' = [attribution EXCEPT ![c] = used]
    /\ ClearHint
    /\ UNCHANGED <<sam_local_dirty, sync_due>>

(* A source rests on fields of the hint. *)
LEMMA SourceFields ==
    ASSUME NEW enemy \in BOOLEAN, NEW t, IncomingSource(enemy, t) # None
    PROVE  IncomingSource(enemy, t).fields \subseteq Fields
<1>1. \A id : Selected(id).fields \subseteq Fields
  BY DEF Selected
<1>2. HintedNpc # None => HintedNpc.fields \subseteq Fields
  BY DEF HintedNpc, Hinted, Fields
<1>3. HintedPlayer.fields \subseteq Fields
  BY DEF HintedPlayer, Hinted, Fields
<1>4. SelectedNpc # None => SelectedNpc.fields \subseteq Fields
  BY <1>1 DEF SelectedNpc
<1>5. SelectedPlayer # None => SelectedPlayer.fields \subseteq Fields
  BY <1>1 DEF SelectedPlayer
<1> QED
  BY <1>2, <1>3, <1>4, <1>5 DEF IncomingSource

LEMMA Judgement ==
    ASSUME HintTypes, NEW c \in Contacts, JudgedContact(c)
    PROVE  /\ c \notin judged /\ judged' = judged \cup {c}
           /\ Legacy(c) \/ Held(c) \/ Submitted(c)
           /\ UNCHANGED <<config, packets, catalog, current_hp, sam_sync_inflight, pending_remote, turn, request,
                          last_revision, failing, sam_events, server, answered, applications>>
<1>1. /\ c \notin judged /\ judged' = judged \cup {c}
      /\ LegacyContact(c) \/ AuthoritativeContact(c)
      /\ UNCHANGED <<config, packets, catalog, current_hp, sam_sync_inflight, pending_remote, turn, request,
                     last_revision, failing, sam_events, server, answered, applications>>
  BY DEF JudgedContact, serverVars
<1>2. CASE LegacyContact(c)
  BY <1>1, <1>2 DEF LegacyContact, ScheduleSync, Legacy
<1>3. CASE AuthoritativeContact(c)
  <2>1. PICK labelled \in BOOLEAN, canonical \in BOOLEAN, fallback \in ClockReads, built \in ClockReads :
           LET source == IncomingSource(FromEnemy(labelled, now) \/ FallsToEnemy(canonical, fallback), built)
           IN  /\ fallback <= built /\ built <= MaxTime
               /\ now' = built
               /\ HoldContact(c, source) \/ SubmitContact(c, source, built)
    BY <1>3 DEF AuthoritativeContact
  <2> DEFINE enemy == FromEnemy(labelled, now) \/ FallsToEnemy(canonical, fallback)
             source == IncomingSource(enemy, built)
  <2>2. TimePasses
    BY <2>1 DEF TimePasses, ClockReads
  <2>3. CASE HoldContact(c, source)
    BY <1>1, <2>2, <2>3 DEF HoldContact, Held, Consumed
  <2>4. CASE SubmitContact(c, source, built)
    <3>1. enemy \in BOOLEAN
      OBVIOUS
    <3>2. source # None
      BY <2>4 DEF SubmitContact
    <3>3. source.fields \subseteq Fields
      BY <3>1, <3>2, SourceFields
    <3> HIDE DEF source
    <3>4. UsedPackets(source, built) \subseteq {origin[f] : f \in Fields} \ {None}
      BY <3>3 DEF UsedPackets, Fields
    <3>5. Submitted(c)
      BY <2>2, <2>4, <3>4 DEF SubmitContact, Submitted, Consumed
    <3> QED
      BY <1>1, <3>5
  <2> QED
    BY <2>1, <2>3, <2>4
<1> QED
  BY <1>1, <1>2, <1>3
----------------------------------------------------------------------------
(* Hints. *)

LEMMA HintSteps ==
    ASSUME [Next]_vars
    PROVE  \/ UNCHANGED <<now, hint, packets, origin, attribution>>
           \/ Advance \/ Companion \/ \E c \in Contacts : JudgedContact(c)
<1> USE DEF hintVars
<1>1. CASE SelectSource \/ SwitchNpcMode \/ LocalChange \/ PushSync \/ RequestCatalog \/ HandleSamEvent
  BY <1>1 DEF SelectSource, SwitchNpcMode, LocalChange, PushSync, RequestCatalog, HandleSamEvent
<1>2. CASE Worker
  BY <1>2 DEF Worker, TakeCommand, Poll, Receive, Fail
<1>3. CASE Serve \/ RemoteChange
  BY <1>3 DEF Serve, RemoteChange
<1>4. CASE UNCHANGED vars
  BY <1>4 DEF vars
<1> QED
  BY <1>1, <1>2, <1>3, <1>4 DEF Next, App

(* A field is set and all fields are stamped. *)
LEMMA Stamped ==
    ASSUME hint \in Hints, NEW field \in Fields, NEW value \in HintValues(field), now \in Nat,
           hint' = [hint EXCEPT ![field] = value, !.received_at = now]
    PROVE  /\ hint' \in Hints /\ hint'.received_at = now
           /\ \A f \in Fields : hint'[f] = IF f = field THEN value ELSE hint[f]
<1>h. hint' = [hint EXCEPT ![field] = value, !.received_at = now]
  OBVIOUS
<1>1. hint' \in Hints
  <2>1. CASE field = "kind"
    <3>1. hint' = [hint EXCEPT !.kind = value, !.received_at = now]
      BY <1>h, <2>1, Zenon
    <3>2. value \in {"npc", "player"}
      BY <2>1 DEF HintValues
    <3> QED
      BY <3>1, <3>2 DEF Hints
  <2>2. CASE field = "avatar_id"
    <3>1. hint' = [hint EXCEPT !.avatar_id = value, !.received_at = now]
      BY <1>h, <2>2, Zenon
    <3>2. value \in Avatars
      BY <2>2 DEF HintValues
    <3> QED
      BY <3>1, <3>2 DEF Hints
  <2>3. CASE field = "enemy_name"
    <3>1. hint' = [hint EXCEPT !.enemy_name = value, !.received_at = now]
      BY <1>h, <2>3, Zenon
    <3>2. value \in Npcs
      BY <2>3 DEF HintValues
    <3> QED
      BY <3>1, <3>2 DEF Hints
  <2>4. CASE field = "action"
    <3>1. hint' = [hint EXCEPT !.action = value, !.received_at = now]
      BY <1>h, <2>4, Zenon
    <3>2. value \in {"named"}
      BY <2>4 DEF HintValues
    <3> QED
      BY <3>1, <3>2 DEF Hints
  <2> QED
    BY <2>1, <2>2, <2>3, <2>4 DEF Fields
<1>2. hint'.received_at = now
  BY DEF Hints, Fields
<1>3. \A f \in Fields : hint'[f] = IF f = field THEN value ELSE hint[f]
  <2>1. DOMAIN hint = Fields \cup {"received_at"} /\ "received_at" \notin Fields
    BY DEF Hints, Fields
  <2> QED
    BY <1>h, <2>1, Zenon
<1> QED
  BY <1>1, <1>2, <1>3

(* A packet of one field; the stamp is everyone's. *)
LEMMA HintPacket ==
    ASSUME HintInv, NEW field \in Fields, NEW value \in HintValues(field), ReceiveHint(field, value)
    PROVE  HintInv'
<1>0. \A f \in Fields : None \notin HintValues(f)
  BY NoneAssumption
<1>1. packets < MaxHints /\ packets' = packets + 1 /\ UNCHANGED <<now, attribution>>
  BY DEF ReceiveHint
<1>h. hint' = [hint EXCEPT ![field] = value, !.received_at = now]
  BY DEF ReceiveHint
<1>o. origin' = [origin EXCEPT ![field] = packets + 1]
  BY DEF ReceiveHint
<1>n. now \in 1 .. MaxTime /\ packets \in Nat /\ hint \in Hints /\ origin \in [Fields -> (1 .. packets) \cup {None}]
  BY AuthorityAssumption DEF HintInv, HintTypes
<1>2. now \in Nat /\ now # 0
  BY <1>n, AuthorityAssumption
<1>i. hint \in Hints
  BY <1>n
<1>3. /\ hint' \in Hints /\ hint'.received_at = now
      /\ \A f \in Fields : hint'[f] = IF f = field THEN value ELSE hint[f]
  BY <1>h, <1>i, <1>2, Stamped
<1> USE AuthorityAssumption DEF HintInv
<1>4. /\ origin' \in [Fields -> (1 .. packets') \cup {None}]
      /\ \A f \in Fields : origin'[f] = IF f = field THEN packets + 1 ELSE origin[f]
  BY <1>n, <1>o, <1>1
<1>5. packets + 1 # None /\ value # None
  <2>1. packets + 1 \in Nat
    BY <1>n
  <2> QED
    BY <1>0, <2>1, NoneAssumption
<1>6. HintTypes'
  BY <1>1, <1>2, <1>3, <1>4, <1>5 DEF HintTypes
<1>7. PacketsUsedUp'
  <2>1. attribution' \in [Contacts -> SUBSET (1 .. packets')]
    BY <1>1, <1>n DEF PacketsUsedUp
  <2>2. \A c \in Contacts : packets + 1 \notin attribution[c]
    BY <1>1, <1>n DEF PacketsUsedUp
  <2> QED
    BY <1>1, <1>4, <2>1, <2>2 DEF PacketsUsedUp, HintNamesOneContact
<1> QED
  BY <1>6, <1>7

(* A cleared hint rests on no packet. *)
LEMMA Clearing ==
    ASSUME HintInv, ClearHint
    PROVE  /\ hint' \in Hints /\ hint'.received_at = 0
           /\ origin' \in [Fields -> {None}] /\ \A f \in Fields : hint'[f] = None /\ origin'[f] = None
<1>1. hint' = NoHint /\ \A f \in Fields : hint'[f] = None
  BY DEF ClearHint, Cleared, NoHint, Fields
<1> QED
  BY <1>1 DEF ClearHint, NoHint, Hints

LEMMA HintStep == HintInv /\ [Next]_vars => HintInv'
<1> SUFFICES ASSUME HintInv, [Next]_vars PROVE HintInv'
  OBVIOUS
<1> USE AuthorityAssumption DEF HintInv
<1>1. CASE UNCHANGED <<now, hint, packets, origin, attribution>>
  BY <1>1 DEF HintTypes, PacketsUsedUp, HintNamesOneContact
<1>2. CASE Advance
  <2>1. now' = now + 1 /\ now' \in 1 .. MaxTime /\ UNCHANGED <<hint, packets, origin, attribution>>
    BY <1>2 DEF Advance, hintVars, HintTypes
  <2>2. hint.received_at <= now'
    BY <2>1 DEF HintTypes, Hints
  <2> QED
    BY <2>1, <2>2 DEF HintTypes, PacketsUsedUp, HintNamesOneContact
<1>3. CASE ReceiveClear
  <2>1. ClearHint /\ UNCHANGED <<now, packets, attribution>>
    BY <1>3 DEF ReceiveClear
  <2>2. HintTypes'
    BY <2>1, Clearing DEF HintTypes
  <2>3. PacketsUsedUp'
    <3>1. \A c \in Contacts : None \notin attribution[c]
      BY NoneAssumption DEF PacketsUsedUp, HintTypes
    <3> QED
      BY <2>1, <3>1, Clearing DEF PacketsUsedUp, HintNamesOneContact
  <2> QED
    BY <2>2, <2>3
<1>4. ASSUME NEW c \in Contacts, JudgedContact(c) PROVE HintInv'
  <2>1. packets' = packets /\ (Legacy(c) \/ Held(c) \/ Submitted(c))
    BY <1>4, Judgement
  <2>2. now' \in 1 .. MaxTime /\ now <= now'
    <3>1. UNCHANGED now \/ TimePasses
      BY <2>1, Zenon DEF Legacy, Held, Submitted
    <3> QED
      BY <3>1 DEF TimePasses, HintTypes
  <2>3. CASE Legacy(c) \/ Held(c)
    <3>1. UNCHANGED <<hint, origin, attribution>>
      BY <2>3 DEF Legacy, Held
    <3>2. hint.received_at <= now'
      BY <2>2 DEF HintTypes, Hints
    <3> QED
      BY <2>1, <2>2, <3>1, <3>2 DEF HintTypes, PacketsUsedUp, HintNamesOneContact
  <2>4. CASE Submitted(c)
    <3>1. PICK used \in SUBSET ({origin[f] : f \in Fields} \ {None}) : attribution' = [attribution EXCEPT ![c] = used]
      BY <2>4 DEF Submitted
    <3>2. HintTypes'
      BY <2>1, <2>2, <2>4, Clearing DEF Submitted, HintTypes
    <3>3. used \subseteq 1 .. packets
      BY DEF HintTypes
    <3>4. /\ attribution' \in [Contacts -> SUBSET (1 .. packets')]
          /\ \A d \in Contacts : attribution'[d] = IF d = c THEN used ELSE attribution[d]
      BY <2>1, <3>1, <3>3 DEF PacketsUsedUp
    <3>5. \A d \in Contacts : None \notin attribution'[d]
      BY <2>1, <3>4, NoneAssumption DEF HintTypes
    <3>6. \A d \in Contacts : used \cap attribution[d] = {}
      BY DEF PacketsUsedUp
    <3>7. HintNamesOneContact'
      BY <3>4, <3>6 DEF PacketsUsedUp, HintNamesOneContact
    <3>8. PacketsUsedUp'
      BY <2>4, <3>4, <3>5, <3>7, Clearing DEF Submitted, PacketsUsedUp
    <3> QED
      BY <3>2, <3>8
  <2> QED
    BY <2>1, <2>3, <2>4
<1> QED
  BY <1>1, <1>2, <1>3, <1>4, HintSteps, HintPacket DEF Companion
----------------------------------------------------------------------------
(* Types of the rest. *)

Kinds == {"combat_event", "combat_catalog", "sync", "pull", "poll"}

(* What the worker tells of: a failure brings no reply, and only a sync or  *)
(* a poll never fails in a way the desktop is told of.                      *)
Events ==
    {e \in [kind : Kinds, ok : BOOLEAN, event_id : EventIds \cup {None}, reply : Replies \cup {None}] :
        /\ e.ok <=> e.reply # None
        /\ e.kind \in {"sync", "poll"} => e.ok}

(* A combat event goes out under its hit's id, nothing else has an id; and  *)
(* only a combat event or a sync carries a hit.                             *)
Sendable ==
    {c \in CommandType :
        /\ c.kind = "combat_event" => c.contact \in Contacts /\ c.event_id = EventId(c.contact)
        /\ c.kind # "combat_event" => c.event_id = None
        /\ c.contact # None => c.kind \in {"combat_event", "sync"}}

AppTypes ==
    /\ judged \subseteq Contacts
    /\ config \in Configs
    /\ catalog \in Catalogs \cup {EmptyCatalog}
    /\ SelectionIsShown
    /\ hit_event \in Contacts \cup {None}
    /\ current_hp \in 0 .. MaxHp
    /\ sam_local_dirty \in BOOLEAN /\ sam_sync_inflight \in BOOLEAN /\ sync_due \in BOOLEAN
    /\ pending_remote \in Replies \cup {None}

ClientTypes ==
    /\ commands \in Seq(Sendable)
    /\ turn \in {"command", "poll"} /\ failing \in BOOLEAN
    /\ request \in Requests \cup {None} /\ (request # None => request.command \in Sendable)
    /\ last_revision \in Nat \cup {Unknown}
    /\ sam_events \in Seq(Events)

ServerTypes ==
    /\ server \in [hp : 0 .. MaxHp, revision : Nat, catalog : Catalogs]
    /\ answered \in [EventIds -> Replies \cup {None}]
    /\ applications \in [Contacts -> Nat]

Types == HintInv /\ AppTypes /\ ClientTypes /\ ServerTypes

(* A catalog that was published, or none yet, lists names with their        *)
(* avatars and labels with an identity each.                                *)
Lists(c) ==
    /\ DOMAIN c.enemies \subseteq Npcs /\ DOMAIN c.players \subseteq Labels
    /\ \A n \in DOMAIN c.enemies : FirstAvatar(c.enemies[n]) \in Avatars
    /\ \A l \in DOMAIN c.players : c.players[l] \in Players

LEMMA CatalogLists ==
    ASSUME NEW c \in Catalogs \cup {EmptyCatalog}
    PROVE  Lists(c)
<1>1. CASE c \in Catalogs
  <2>1. c \in CatalogType
    BY <1>1, AuthorityAssumption
  <2>2. PICK N \in SUBSET Npcs : c.enemies \in [N -> (SUBSET Avatars) \ {{}}]
    BY <2>1 DEF CatalogType
  <2>3. PICK L \in SUBSET Labels : c.players \in [L -> Players]
    BY <2>1 DEF CatalogType
  <2>4. \A ids \in (SUBSET Avatars) \ {{}} : FirstAvatar(ids) \in Avatars
    BY DEF FirstAvatar
  <2>5. \A n \in DOMAIN c.enemies : c.enemies[n] \in (SUBSET Avatars) \ {{}}
    BY <2>2
  <2> QED
    BY <2>2, <2>3, <2>4, <2>5 DEF Lists
<1>2. CASE c = EmptyCatalog
  <2>1. c.enemies = <<>> /\ c.players = <<>>
    BY <1>2 DEF EmptyCatalog
  <2>2. DOMAIN c.enemies = {} /\ DOMAIN c.players = {}
    BY <2>1
  <2> QED
    BY <2>2 DEF Lists
<1> QED
  BY <1>1, <1>2

(* A selection from the catalog at hand. *)
LEMMA SelectionTypes ==
    ASSUME Lists(catalog), NEW c \in Configs
    PROVE  /\ \A n \in DOMAIN catalog.enemies \cup {None} :
                 /\ WithNpc(c, n) \in Configs /\ WithNpc(c, n).npc = n
                 /\ WithNpc(c, n).player_label = c.player_label /\ WithNpc(c, n).player = c.player
           /\ \A l \in DOMAIN catalog.players \cup {None} :
                 /\ WithPlayer(c, l) \in Configs /\ WithPlayer(c, l).npc = c.npc
                 /\ WithPlayer(c, l).player_label = l /\ (l = None => WithPlayer(c, l).player = None)
<1>1. ASSUME NEW n \in DOMAIN catalog.enemies \cup {None}
      PROVE  /\ WithNpc(c, n) \in Configs /\ WithNpc(c, n).npc = n
             /\ WithNpc(c, n).player_label = c.player_label /\ WithNpc(c, n).player = c.player
  <2> DEFINE avatar == IF n = None THEN None ELSE FirstAvatar(catalog.enemies[n])
  <2>1. n \in Npcs \cup {None} /\ avatar \in Avatars \cup {None}
    BY <1>1 DEF Lists
  <2>2. WithNpc(c, n) = [c EXCEPT !.npc = n, !.npc_avatar = avatar]
    BY DEF WithNpc
  <2> HIDE DEF avatar
  <2> QED
    BY <2>1, <2>2 DEF Configs
<1>2. ASSUME NEW l \in DOMAIN catalog.players \cup {None}
      PROVE  /\ WithPlayer(c, l) \in Configs /\ WithPlayer(c, l).npc = c.npc
             /\ WithPlayer(c, l).player_label = l /\ (l = None => WithPlayer(c, l).player = None)
  <2> DEFINE player == IF l = None THEN None ELSE catalog.players[l]
  <2>1. l \in Labels \cup {None} /\ player \in Players \cup {None} /\ (l = None => player = None)
    BY <1>2 DEF Lists
  <2>2. WithPlayer(c, l) = [c EXCEPT !.player_label = l, !.player = player]
    BY DEF WithPlayer
  <2> HIDE DEF player
  <2> QED
    BY <2>1, <2>2 DEF Configs
<1> QED
  BY <1>1, <1>2

LEMMA HeadEvent ==
    ASSUME ClientTypes, sam_events # <<>>
    PROVE  /\ Head(sam_events) \in Events /\ Tail(sam_events) \in Seq(Events)
           /\ Head(sam_events).event_id \in EventIds \cup {None}
           /\ Head(sam_events).reply \in Replies \cup {None}
           /\ Head(sam_events).ok \in BOOLEAN
           /\ Head(sam_events).ok <=> Head(sam_events).reply # None
           /\ Head(sam_events).kind \in {"sync", "poll"} => Head(sam_events).ok
<1>1. Head(sam_events) \in Events /\ Tail(sam_events) \in Seq(Events)
  BY HeadTailProperties DEF ClientTypes
<1> QED
  BY <1>1 DEF Events

(* Handling an event: the hit points come from a reply, and a source that   *)
(* the new catalog does not hold is unselected.                             *)
LEMMA HandleTypes ==
    ASSUME AppTypes, ClientTypes, HandleSamEvent
    PROVE  AppTypes'
<1> DEFINE event == Head(sam_events)
<1>1. /\ event.reply \in Replies \cup {None} /\ event.ok \in BOOLEAN /\ (event.ok <=> event.reply # None)
      /\ event.kind \in {"sync", "poll"} => event.ok
  BY HeadEvent DEF HandleSamEvent
<1>2. HandleOutcome(event) \/ HandleCatalog(event) \/ HandleSynced(event) \/ HandlePolled(event) \/ HandlePulled(event)
  BY DEF HandleSamEvent
<1>3. UNCHANGED <<judged, hit_event, sync_due>>
  BY DEF HandleSamEvent
<1> HIDE DEF event
<1>4. event.ok => event.reply \in Replies /\ event.reply.hp \in 0 .. MaxHp /\ event.reply.catalog \in Catalogs
  BY <1>1 DEF Replies
<1>5. CASE HandleCatalog(event)
  <2>1. CASE ~event.ok
    BY <1>3, <1>5, <2>1 DEF HandleCatalog, AppTypes, SelectionIsShown
  <2>2. CASE event.ok
    <3>1. catalog' = event.reply.catalog /\ catalog' \in Catalogs
      BY <1>4, <1>5, <2>2 DEF HandleCatalog
    <3>2. config \in Configs /\ SelectionIsShown
      BY DEF AppTypes
    <3>3. config' = Refreshed(catalog')
      BY <1>5, <2>2 DEF HandleCatalog
    <3> DEFINE listed == LabelsListed(config, catalog')
    <3>4. /\ listed \in Configs /\ listed.npc \in DOMAIN catalog'.enemies \cup {None}
          /\ listed.player_label \in DOMAIN catalog'.players \cup {None} /\ listed.player = config.player
          /\ config.player_label \in DOMAIN catalog'.players => listed.player_label = config.player_label
      BY <3>2 DEF LabelsListed, Configs
    <3>5. config' = listed \/ config' = [listed EXCEPT !.player = None]
      BY <3>3 DEF Refreshed
    <3>6. config' = listed => config.player_label = None \/ config.player_label \in DOMAIN catalog'.players
                              \/ listed.player = None
      BY <3>3, <3>4 DEF Refreshed, Configs
    <3> HIDE DEF listed
    <3>7. config' \in Configs /\ config'.npc = listed.npc /\ config'.player_label = listed.player_label
          /\ config'.player \in {listed.player, None}
      BY <3>4, <3>5 DEF Configs
    <3>8. config'.player # None => config'.player_label # None
      BY <3>2, <3>4, <3>5, <3>6, <3>7 DEF SelectionIsShown, Configs
    <3> QED
      BY <1>3, <1>5, <3>1, <3>4, <3>7, <3>8 DEF HandleCatalog, AppTypes, SelectionIsShown
  <2> QED
    BY <1>1, <2>1, <2>2
<1>6. CASE HandleOutcome(event) \/ HandleSynced(event) \/ HandlePolled(event) \/ HandlePulled(event)
  <2>1. UNCHANGED <<catalog, config>>
    BY <1>6 DEF HandleOutcome, HandleSynced, HandlePolled, HandlePulled
  <2>2. /\ current_hp' \in 0 .. MaxHp
        /\ sam_local_dirty' \in BOOLEAN /\ sam_sync_inflight' \in BOOLEAN
        /\ pending_remote' \in Replies \cup {None}
    <3>1. CASE HandleOutcome(event)
      BY <1>4, <3>1 DEF HandleOutcome, AppTypes
    <3>2. CASE HandleSynced(event)
      BY <1>1, <1>4, <3>2 DEF HandleSynced
    <3>3. CASE HandlePolled(event)
      BY <1>1, <1>4, <3>3 DEF HandlePolled, AppTypes
    <3>4. CASE HandlePulled(event)
      BY <1>4, <3>4 DEF HandlePulled, AppTypes
    <3> QED
      BY <1>6, <3>1, <3>2, <3>3, <3>4
  <2> QED
    BY <1>3, <2>1, <2>2 DEF AppTypes, SelectionIsShown
<1> QED
  BY <1>2, <1>5, <1>6

LEMMA AppStep ==
    ASSUME HintTypes, AppTypes, ClientTypes, [Next]_vars
    PROVE  AppTypes'
<1> USE DEF syncVars
<1>1. ASSUME NEW c \in Contacts, JudgedContact(c) PROVE AppTypes'
  <2>1. /\ hit_event' \in Contacts \cup {None}
        /\ sam_local_dirty' \in BOOLEAN /\ sync_due' \in BOOLEAN
    BY <1>1, Judgement DEF Legacy, Held, Submitted, AppTypes
  <2> QED
    BY <1>1, <2>1, Judgement DEF AppTypes, SelectionIsShown
<1>2. CASE SelectSource
  <2>1. Lists(catalog) /\ config \in Configs /\ SelectionIsShown
    BY CatalogLists DEF AppTypes
  <2>2. config' \in Configs /\ SelectionIsShown'
    <3>1. UNCHANGED catalog
      BY <1>2 DEF SelectSource
    <3>2. CASE \E n \in DOMAIN catalog.enemies \cup {None} : config' = WithNpc(config, n)
      BY <2>1, <3>1, <3>2, SelectionTypes DEF SelectionIsShown
    <3>3. CASE \E l \in DOMAIN catalog.players \cup {None} : config' = WithPlayer(config, l)
      BY <2>1, <3>1, <3>3, SelectionTypes DEF SelectionIsShown
    <3> QED
      BY <1>2, <3>2, <3>3 DEF SelectSource
  <2> QED
    BY <1>2, <2>2 DEF SelectSource, AppTypes
<1>3. CASE SwitchNpcMode
  <2>1. /\ config' \in Configs /\ config'.npc = config.npc
        /\ config'.player_label = config.player_label /\ config'.player = config.player
    BY <1>3 DEF SwitchNpcMode, AppTypes, Configs
  <2> QED
    BY <1>3, <2>1 DEF SwitchNpcMode, ScheduleSync, AppTypes, SelectionIsShown
<1>4. CASE LocalChange \/ PushSync
  BY <1>4 DEF LocalChange, PushSync, ScheduleSync, AppTypes, SelectionIsShown
<1>5. CASE HandleSamEvent
  BY <1>5, HandleTypes
<1>6. CASE Advance \/ Companion \/ RequestCatalog
  BY <1>6 DEF Advance, Companion, ReceiveHint, ReceiveClear, RequestCatalog, AppTypes, SelectionIsShown
<1>7. CASE Worker
  BY <1>7 DEF Worker, TakeCommand, Poll, Receive, Fail, AppTypes, SelectionIsShown
<1>8. CASE Serve \/ RemoteChange
  BY <1>8 DEF Serve, RemoteChange, AppTypes, SelectionIsShown
<1>9. CASE UNCHANGED vars
  BY <1>9 DEF vars, AppTypes, SelectionIsShown
<1> QED
  BY <1>1, <1>2, <1>3, <1>4, <1>5, <1>6, <1>7, <1>8, <1>9 DEF Next, App

(* A command goes out with its request. *)
LEMMA PostTypes ==
    ASSUME NEW command \in Sendable, NEW after \in Nat \cup {Unknown}, Post(command, after)
    PROVE  /\ request' \in Requests /\ request' # None
           /\ request' = [command |-> command, tries |-> 1, after |-> after, reply |-> None]
<1>0. command \in CommandType
  BY DEF Sendable
<1>1. request' \in Requests
  BY <1>0 DEF Post, Requests
<1> QED
  BY <1>1, NoneAssumption DEF Post

LEMMA RequestTypes ==
    ASSUME ClientTypes, request # None
    PROVE  /\ request \in Requests /\ request.command \in Sendable /\ request.command \in CommandType
           /\ request.command.kind \in Kinds
           /\ request.command.event_id \in EventIds \cup {None}
           /\ request.command.contact \in Contacts \cup {None} /\ request.command.hp \in 0 .. MaxHp
           /\ request.tries \in {1, 2} /\ request.after \in Nat \cup {Unknown}
           /\ request.reply \in Replies \cup {None}
<1>1. request \in Requests /\ request.command \in Sendable
  BY DEF ClientTypes
<1>2. request.command \in CommandType
  BY <1>1 DEF Sendable
<1> QED
  BY <1>1, <1>2 DEF Requests, CommandType, Kinds

LEMMA ReplyTypes ==
    ASSUME NEW r \in Replies
    PROVE  /\ r # None /\ r.event_id \in EventIds \cup {None} /\ r.registered \in BOOLEAN
           /\ r.hp \in 0 .. MaxHp /\ r.revision \in Nat /\ r.catalog \in Catalogs
BY NoneAssumption DEF Replies

LEMMA EventIdType == \A c \in Contacts : EventId(c) \in EventIds /\ EventId(c) # None
<1>1. \A c \in Contacts : EventId(c) \in EventIds
  BY DEF EventId, EventIds
<1> QED
  BY <1>1, NoneAssumption

LEMMA SendableTypes ==
    /\ \A c \in Contacts : Command("combat_event", EventId(c), c, 0) \in Sendable
    /\ \A kind \in {"pull", "poll", "combat_catalog"} : Command(kind, None, None, 0) \in Sendable
    /\ \A c \in Contacts \cup {None}, hp \in 0 .. MaxHp : Command("sync", None, c, hp) \in Sendable
<1>1. 0 \in 0 .. MaxHp
  BY AuthorityAssumption
<1>2. \A c \in Contacts : Command("combat_event", EventId(c), c, 0) \in Sendable
  BY <1>1, EventIdType DEF Command, CommandType, Sendable
<1>3. \A kind \in {"pull", "poll", "combat_catalog"} : Command(kind, None, None, 0) \in Sendable
  BY <1>1 DEF Command, CommandType, Sendable
<1>4. \A c \in Contacts \cup {None}, hp \in 0 .. MaxHp : Command("sync", None, c, hp) \in Sendable
  BY <1>1 DEF Command, CommandType, Sendable
<1> QED
  BY <1>2, <1>3, <1>4

(* The queue of commands grows at its end and is emptied at its head.       *)
LEMMA CommandSteps ==
    ASSUME HintTypes, AppTypes, ClientTypes, [Next]_vars
    PROVE  \/ UNCHANGED commands
           \/ TakeCommand
           \/ \E command \in Sendable :
                 /\ commands' = Append(commands, command)
                 /\ UNCHANGED <<request, last_revision, sam_events, turn, failing>>
<1> USE DEF clientVars, syncVars
<1>1. ASSUME NEW c \in Contacts, JudgedContact(c)
      PROVE  UNCHANGED commands \/ (\E command \in Sendable :
                 /\ commands' = Append(commands, command)
                 /\ UNCHANGED <<request, last_revision, sam_events, turn, failing>>)
  <2>1. Command("combat_event", EventId(c), c, 0) \in Sendable
    BY SendableTypes
  <2> QED
    BY <1>1, <2>1, Judgement DEF Legacy, Held, Submitted
<1>2. CASE SwitchNpcMode
  <2>1. Command("pull", None, None, 0) \in Sendable
    BY SendableTypes
  <2> QED
    BY <1>2, <2>1 DEF SwitchNpcMode
<1>3. CASE PushSync
  <2>1. Command("sync", None, hit_event, current_hp) \in Sendable
    BY SendableTypes DEF AppTypes
  <2> QED
    BY <1>3, <2>1 DEF PushSync
<1>4. CASE RequestCatalog
  <2>1. Command("combat_catalog", None, None, 0) \in Sendable
    BY SendableTypes
  <2> QED
    BY <1>4, <2>1 DEF RequestCatalog
<1>5. CASE Advance \/ Companion \/ SelectSource \/ LocalChange \/ HandleSamEvent
  BY <1>5 DEF Advance, Companion, ReceiveHint, ReceiveClear, SelectSource, LocalChange, HandleSamEvent
<1>6. CASE Poll \/ Receive \/ Fail
  BY <1>6 DEF Poll, Receive, Fail
<1>7. CASE Serve \/ RemoteChange
  BY <1>7 DEF Serve, RemoteChange
<1>8. CASE UNCHANGED vars
  BY <1>8 DEF vars
<1> QED
  BY <1>1, <1>2, <1>3, <1>4, <1>5, <1>6, <1>7, <1>8 DEF Next, App, Worker

(* The steps of the Tk thread and of the rest of the world leave the        *)
(* worker's request alone.                                                  *)
LEMMA RequestSteps ==
    ASSUME [Next]_vars
    PROVE  \/ UNCHANGED <<request, last_revision, turn, failing>>
           \/ Worker \/ Serve
<1> USE DEF clientVars
<1>1. CASE Advance \/ Companion \/ RemoteChange
  BY <1>1 DEF Advance, Companion, ReceiveHint, ReceiveClear, RemoteChange
<1>2. CASE App
  BY <1>2 DEF App, JudgedContact, SelectSource, SwitchNpcMode, LocalChange, PushSync, RequestCatalog, HandleSamEvent
<1>3. CASE UNCHANGED vars
  BY <1>3 DEF vars
<1> QED
  BY <1>1, <1>2, <1>3 DEF Next

LEMMA EventSteps ==
    ASSUME [Next]_vars
    PROVE  UNCHANGED sam_events \/ HandleSamEvent \/ Receive \/ Fail
<1>1. CASE Advance \/ Companion \/ RemoteChange \/ Serve
  BY <1>1 DEF Advance, Companion, ReceiveHint, ReceiveClear, RemoteChange, Serve
<1>2. CASE App
  BY <1>2 DEF App, JudgedContact, SelectSource, SwitchNpcMode, LocalChange, PushSync, RequestCatalog
<1>3. CASE TakeCommand \/ Poll
  BY <1>3 DEF TakeCommand, Poll
<1>4. CASE UNCHANGED vars
  BY <1>4 DEF vars
<1> QED
  BY <1>1, <1>2, <1>3, <1>4 DEF Next, Worker

LEMMA ServerSteps ==
    ASSUME [Next]_vars
    PROVE  UNCHANGED <<server, answered, applications>> \/ Serve \/ RemoteChange
<1> USE DEF serverVars
<1>1. CASE Advance \/ Companion
  BY <1>1 DEF Advance, Companion, ReceiveHint, ReceiveClear
<1>2. CASE App
  BY <1>2 DEF App, JudgedContact, SelectSource, SwitchNpcMode, LocalChange, PushSync, RequestCatalog, HandleSamEvent
<1>3. CASE Worker
  BY <1>3 DEF Worker, TakeCommand, Poll, Receive, Fail
<1>4. CASE UNCHANGED vars
  BY <1>4 DEF vars
<1> QED
  BY <1>1, <1>2, <1>3, <1>4 DEF Next

(* What the server does with a request. *)
CacheHit(r) ==
    /\ request.command.kind = "combat_event"
    /\ r = answered[request.command.event_id]
    /\ UNCHANGED <<server, answered, applications>>

FirstServed(r) ==
    /\ request.command.kind = "combat_event"
    /\ answered[request.command.event_id] = None
    /\ r.event_id = request.command.event_id /\ r.revision = server'.revision
    /\ answered' = [answered EXCEPT ![request.command.event_id] = r]
    /\ server' = WithHp(r.hp)
    /\ Applied(request.command.contact) \/ UNCHANGED applications

SyncServed(r) ==
    /\ request.command.kind = "sync"
    /\ r.event_id = None /\ r.revision = server'.revision
    /\ server' = WithHp(r.hp)
    /\ IF request.command.contact = None THEN UNCHANGED applications ELSE Applied(request.command.contact)
    /\ UNCHANGED answered

ReadServed(r) ==
    /\ request.command.kind \in {"poll", "pull", "combat_catalog"}
    /\ r.event_id = None /\ r.hp = server.hp /\ r.revision = server.revision
    /\ UNCHANGED <<server, answered, applications>>

(* Hit points set for good; the revision tells whether they changed. *)
LEMMA WithHpType ==
    ASSUME ServerTypes, NEW hp \in 0 .. MaxHp
    PROVE  /\ WithHp(hp) \in [hp : 0 .. MaxHp, revision : Nat, catalog : Catalogs]
           /\ WithHp(hp).hp = hp
           /\ WithHp(hp).revision = IF hp = server.hp THEN server.revision ELSE server.revision + 1
<1>1. server \in [hp : 0 .. MaxHp, revision : Nat, catalog : Catalogs]
  BY DEF ServerTypes
<1>2. \A n \in Nat : /\ [server EXCEPT !.hp = hp, !.revision = n] \in [hp : 0 .. MaxHp, revision : Nat, catalog : Catalogs]
                     /\ [server EXCEPT !.hp = hp, !.revision = n].hp = hp
                     /\ [server EXCEPT !.hp = hp, !.revision = n].revision = n
  BY <1>1
<1>3. server.revision \in Nat /\ server.revision + 1 \in Nat
  BY <1>1
<1>4. WithHp(hp) = IF hp = server.hp THEN [server EXCEPT !.hp = hp, !.revision = server.revision]
                   ELSE [server EXCEPT !.hp = hp, !.revision = server.revision + 1]
  BY Zenon DEF WithHp
<1> QED
  BY <1>2, <1>3, <1>4

LEMMA ReplyIsReply ==
    ASSUME ServerTypes, NEW id \in EventIds \cup {None}, NEW registered \in BOOLEAN, NEW hp \in 0 .. MaxHp,
           NEW revision \in Nat
    PROVE  /\ Reply(id, registered, hp, revision) \in Replies
           /\ Reply(id, registered, hp, revision).event_id = id
           /\ Reply(id, registered, hp, revision).hp = hp
           /\ Reply(id, registered, hp, revision).revision = revision
<1>1. server.catalog \in Catalogs
  BY DEF ServerTypes
<1> QED
  BY <1>1 DEF Reply, Replies

LEMMA PlainReply ==
    ASSUME ServerTypes, NEW hp \in 0 .. MaxHp, NEW revision \in Nat
    PROVE  /\ Reply(None, FALSE, hp, revision) \in Replies
           /\ Reply(None, FALSE, hp, revision).event_id = None
           /\ Reply(None, FALSE, hp, revision).hp = hp
           /\ Reply(None, FALSE, hp, revision).revision = revision
<1>1. server.catalog \in Catalogs
  BY DEF ServerTypes
<1> QED
  BY <1>1 DEF Reply, Replies

LEMMA Serving ==
    ASSUME ClientTypes, ServerTypes, Serve
    PROVE  /\ request # None /\ request.reply = None
           /\ \E r \in Replies :
                 /\ request' = [request EXCEPT !.reply = r]
                 /\ CacheHit(r) \/ FirstServed(r) \/ SyncServed(r) \/ ReadServed(r)
<1> DEFINE command == request.command
<1>1. /\ request # None /\ request.reply = None
      /\ ServeEvent(command) \/ ServeSync(command) \/ ServeRead(command)
  BY DEF Serve
<1>2. command \in Sendable /\ command \in CommandType
  BY <1>1, RequestTypes
<1>3. /\ server.hp \in 0 .. MaxHp /\ server.revision \in Nat /\ MaxHp \in Nat
      /\ answered \in [EventIds -> Replies \cup {None}]
  BY AuthorityAssumption DEF ServerTypes
<1> HIDE DEF command
<1>4. CASE ServeEvent(command)
  <2>1. command.kind = "combat_event" /\ command.contact \in Contacts /\ command.event_id \in EventIds
    BY <1>2, <1>4, EventIdType DEF ServeEvent, Sendable
  <2>2. CASE answered[command.event_id] # None
    <3>1. request' = [request EXCEPT !.reply = answered[command.event_id]]
          /\ UNCHANGED <<server, answered, applications>>
      BY <1>4, <2>2 DEF ServeEvent
    <3>2. answered[command.event_id] \in Replies
      BY <1>3, <2>1, <2>2
    <3>3. CacheHit(answered[command.event_id])
      BY <2>1, <3>1 DEF CacheHit, command
    <3> QED
      BY <1>1, <3>1, <3>2, <3>3
  <2>3. CASE answered[command.event_id] = None
    <3>1. PICK registered \in BOOLEAN, damage \in 0 .. 1 :
            LET hp == IF registered /\ server.hp >= damage THEN server.hp - damage ELSE server.hp
                reply == Reply(command.event_id, registered, hp, WithHp(hp).revision)
            IN  /\ request' = [request EXCEPT !.reply = reply]
                /\ answered' = [answered EXCEPT ![command.event_id] = reply]
                /\ server' = WithHp(hp)
                /\ IF registered THEN Applied(command.contact) ELSE UNCHANGED applications
      BY <1>4, <2>3 DEF ServeEvent
    <3> DEFINE hp == IF registered /\ server.hp >= damage THEN server.hp - damage ELSE server.hp
               reply == Reply(command.event_id, registered, hp, WithHp(hp).revision)
    <3>2. hp \in 0 .. MaxHp
      BY <1>3
    <3>3. /\ request' = [request EXCEPT !.reply = reply]
          /\ answered' = [answered EXCEPT ![command.event_id] = reply]
          /\ server' = WithHp(hp)
          /\ Applied(command.contact) \/ UNCHANGED applications
      BY <3>1
    <3> HIDE DEF hp
    <3>4. WithHp(hp).revision \in Nat
      BY <1>3, <3>2, WithHpType
    <3>5. /\ reply \in Replies /\ reply.event_id = command.event_id /\ reply.hp = hp
          /\ reply.revision = WithHp(hp).revision
      BY <2>1, <3>2, <3>4, ReplyIsReply
    <3> HIDE DEF reply
    <3>6. FirstServed(reply)
      BY <2>1, <2>3, <3>3, <3>5 DEF FirstServed, command
    <3> QED
      BY <1>1, <3>3, <3>5, <3>6
  <2> QED
    BY <2>2, <2>3
<1>5. CASE ServeSync(command)
  <2>1. PICK hp \in {server.hp, command.hp} :
           /\ server' = WithHp(hp)
           /\ request' = [request EXCEPT !.reply = Reply(None, FALSE, hp, WithHp(hp).revision)]
    BY <1>5 DEF ServeSync
  <2> DEFINE reply == Reply(None, FALSE, hp, WithHp(hp).revision)
  <2>2. hp \in 0 .. MaxHp
    BY <1>2, <1>3 DEF CommandType
  <2>3. WithHp(hp).revision \in Nat
    BY <1>3, <2>2, WithHpType
  <2>4. reply \in Replies /\ reply.event_id = None /\ reply.hp = hp /\ reply.revision = WithHp(hp).revision
    BY <2>2, <2>3, PlainReply
  <2>5. request' = [request EXCEPT !.reply = reply]
    BY <2>1
  <2> HIDE DEF reply
  <2>6. SyncServed(reply)
    BY <1>5, <2>1, <2>4 DEF ServeSync, SyncServed, command
  <2> QED
    BY <1>1, <2>4, <2>5, <2>6
<1>6. CASE ServeRead(command)
  <2> DEFINE reply == Reply(None, FALSE, server.hp, server.revision)
  <2>1. reply \in Replies /\ reply.event_id = None /\ reply.hp = server.hp /\ reply.revision = server.revision
    BY <1>3, PlainReply
  <2>2. request' = [request EXCEPT !.reply = reply]
    BY <1>6 DEF ServeRead
  <2> HIDE DEF reply
  <2>3. ReadServed(reply)
    BY <1>6, <2>1 DEF ServeRead, ReadServed, command
  <2> QED
    BY <1>1, <2>1, <2>2, <2>3
<1> QED
  BY <1>1, <1>4, <1>5, <1>6
----------------------------------------------------------------------------
(* What the worker does with a request. *)

(* The request is given an answer; all else of it stays. *)
LEMMA Answered ==
    ASSUME ClientTypes, request # None, NEW r \in Replies, request' = [request EXCEPT !.reply = r]
    PROVE  /\ request' \in Requests /\ request' # None
           /\ request'.reply = r /\ request'.command = request.command /\ request'.after = request.after
<1>1. request \in Requests
  BY RequestTypes
<1>2. /\ request' \in Requests
      /\ request'.reply = r /\ request'.command = request.command /\ request'.after = request.after
  BY <1>1 DEF Requests
<1> QED
  BY <1>2, NoneAssumption

(* A combat event goes out again as it was. *)
Retried ==
    /\ request.command.kind = "combat_event"
    /\ request' \in Requests /\ request' # None
    /\ request'.command = request.command /\ request'.reply = None
    /\ UNCHANGED <<failing, sam_events>>

GivenUp ==
    /\ request' = None
    /\ failing' \in BOOLEAN
    /\ \/ request.command.kind = "poll" /\ UNCHANGED sam_events
       \/ /\ request.command.kind # "poll"
          /\ sam_events' = Append(sam_events, [kind |-> request.command.kind, ok |-> FALSE,
                                               event_id |-> request.command.event_id, reply |-> None])

LEMMA Failing ==
    ASSUME ClientTypes, Fail
    PROVE  /\ request # None /\ request.command.kind # "sync"
           /\ Retried \/ GivenUp
           /\ UNCHANGED <<commands, turn, last_revision>>
<1>1. /\ request # None /\ request.command.kind # "sync" /\ (Refused \/ Lost)
      /\ UNCHANGED <<commands, turn, last_revision>>
  BY DEF Fail
<1>2. CASE GiveUp
  <2>1. failing' \in BOOLEAN
    BY <1>2, <1>1 DEF GiveUp, ClientTypes
  <2>2. GivenUp
    BY <1>2, <2>1 DEF GiveUp, GivenUp, Emit, FailureId
  <2> QED
    BY <1>1, <2>2
<1>3. CASE request.command.kind = "combat_event"
           /\ request' = [request EXCEPT !.tries = 2, !.reply = None, !.command.event_id = RetryId(@)]
           /\ UNCHANGED <<failing, sam_events>>
  <2>1. request \in Requests /\ request.command \in CommandType
    BY <1>1, RequestTypes
  <2>2. request' = [request EXCEPT !.tries = 2, !.reply = None, !.command.event_id = request.command.event_id]
    BY <1>3 DEF RetryId
  <2>3. [request.command EXCEPT !.event_id = request.command.event_id] = request.command
    BY <2>1 DEF CommandType
  <2>4. request' = [request EXCEPT !.tries = 2, !.reply = None, !.command = request.command]
    BY <2>1, <2>2, <2>3 DEF Requests
  <2>5. /\ request' \in Requests
        /\ request'.command = request.command /\ request'.reply = None
    BY <2>1, <2>4 DEF Requests
  <2>6. request' # None
    BY <2>5, NoneAssumption
  <2> QED
    BY <1>1, <1>3, <2>5, <2>6 DEF Retried
<1> QED
  BY <1>1, <1>2, <1>3 DEF Refused, Lost

(* The event that tells of an answer. *)
Told == [kind |-> request.command.kind, ok |-> TRUE, event_id |-> request.reply.event_id, reply |-> request.reply]

LEMMA Receiving ==
    ASSUME ClientTypes, Receive
    PROVE  /\ request # None /\ request.reply \in Replies /\ request' = None
           /\ last_revision' = IF request.command.kind \in {"sync", "poll", "pull"} THEN request.reply.revision ELSE last_revision
           /\ last_revision' \in Nat \cup {Unknown} /\ failing' \in BOOLEAN
           /\ \/ request.command.kind = "poll" /\ request.reply.revision = request.after /\ UNCHANGED sam_events
              \/ sam_events' = Append(sam_events, Told)
           /\ UNCHANGED <<commands, turn>>
<1>1. request # None /\ request.reply # None /\ request' = None /\ UNCHANGED <<commands, turn>>
  BY DEF Receive
<1>2. request.reply \in Replies
  BY <1>1, RequestTypes
<1>3. last_revision' = IF request.command.kind \in {"sync", "poll", "pull"} THEN request.reply.revision ELSE last_revision
  BY DEF Receive, Remembered
<1>4. last_revision' \in Nat \cup {Unknown}
  BY <1>2, <1>3, ReplyTypes DEF ClientTypes
<1>5. failing' \in BOOLEAN
  BY DEF Receive, ClientTypes
<1>6. \/ request.command.kind = "poll" /\ request.reply.revision = request.after /\ UNCHANGED sam_events
      \/ sam_events' = Append(sam_events, Told)
  BY DEF Receive, Emit, Told
<1> QED
  BY <1>1, <1>2, <1>3, <1>4, <1>5, <1>6

LEMMA ToldType ==
    ASSUME ClientTypes, request # None, request.reply \in Replies
    PROVE  Told \in Events
<1>1. request.reply.event_id \in EventIds \cup {None} /\ request.reply # None
  BY ReplyTypes
<1>2. request.command.kind \in Kinds
  BY RequestTypes
<1> QED
  BY <1>1, <1>2 DEF Told, Events

LEMMA FailureType ==
    ASSUME ClientTypes, request # None, request.command.kind \notin {"sync", "poll"}
    PROVE  [kind |-> request.command.kind, ok |-> FALSE, event_id |-> request.command.event_id, reply |-> None] \in Events
<1>1. request.command.kind \in Kinds /\ request.command.event_id \in EventIds \cup {None}
  BY RequestTypes
<1> QED
  BY <1>1 DEF Events

LEMMA Taking ==
    ASSUME ClientTypes, TakeCommand
    PROVE  /\ commands # <<>> /\ Head(commands) \in Sendable /\ commands' = Tail(commands)
           /\ commands' \in Seq(Sendable)
           /\ request = None /\ request' \in Requests /\ request' # None
           /\ request'.command = Head(commands) /\ request'.reply = None
           /\ turn' = "poll" /\ UNCHANGED <<last_revision, failing, sam_events>>
<1>1. /\ commands # <<>> /\ commands' = Tail(commands) /\ Post(Head(commands), Unknown)
      /\ request = None /\ turn' = "poll" /\ UNCHANGED <<last_revision, failing, sam_events>>
  BY DEF TakeCommand
<1>2. commands \in Seq(Sendable)
  BY DEF ClientTypes
<1>3. Head(commands) \in Sendable /\ Tail(commands) \in Seq(Sendable)
  BY <1>1, <1>2, HeadTailProperties
<1>4. request' \in Requests /\ request' # None /\ request'.command = Head(commands) /\ request'.reply = None
  BY <1>1, <1>3, PostTypes
<1> QED
  BY <1>1, <1>3, <1>4

PollCommand == Command("poll", None, None, 0)

LEMMA Polling ==
    ASSUME ClientTypes, Poll
    PROVE  /\ request = None /\ request' \in Requests /\ request' # None
           /\ request'.command = PollCommand /\ PollCommand \in Sendable
           /\ request'.reply = None /\ request'.after \in {last_revision, Unknown}
           /\ turn' = "command" /\ UNCHANGED <<commands, last_revision, failing, sam_events>>
<1>1. PollCommand \in Sendable
  BY SendableTypes DEF PollCommand
<1>2. PICK after \in {last_revision, Unknown} : Post(PollCommand, after)
  BY DEF Poll, PollCommand
<1>3. after \in Nat \cup {Unknown}
  BY DEF ClientTypes
<1>4. /\ request' \in Requests /\ request' # None /\ request'.command = PollCommand /\ request'.reply = None
      /\ request'.after = after
  BY <1>1, <1>2, <1>3, PostTypes
<1> QED
  BY <1>1, <1>4 DEF Poll

LEMMA ClientStep ==
    ASSUME HintTypes, AppTypes, ClientTypes, ServerTypes, [Next]_vars
    PROVE  ClientTypes'
<1>1. commands' \in Seq(Sendable)
  <2>1. commands \in Seq(Sendable)
    BY DEF ClientTypes
  <2> QED
    BY <2>1, CommandSteps, Taking
<1>2. sam_events' \in Seq(Events)
  <2>1. sam_events \in Seq(Events)
    BY DEF ClientTypes
  <2>2. CASE HandleSamEvent
    BY <2>2, HeadEvent DEF HandleSamEvent
  <2>3. CASE Receive
    <3>1. Told \in Events
      BY <2>3, Receiving, ToldType
    <3> HIDE DEF Told
    <3> QED
      BY <2>1, <2>3, <3>1, Receiving
  <2>4. CASE Fail
    <3>1. request # None /\ request.command.kind # "sync" /\ (Retried \/ GivenUp)
      BY <2>4, Failing
    <3>2. CASE UNCHANGED sam_events
      BY <2>1, <3>2
    <3>3. CASE request.command.kind # "poll" /\ GivenUp
      <4> DEFINE e == [kind |-> request.command.kind, ok |-> FALSE, event_id |-> request.command.event_id,
                       reply |-> None]
      <4>1. e \in Events
        BY <3>1, <3>3, FailureType
      <4>2. sam_events' = Append(sam_events, e)
        BY <3>3 DEF GivenUp
      <4> HIDE DEF e
      <4> QED
        BY <2>1, <4>1, <4>2
    <3> QED
      BY <3>1, <3>2, <3>3 DEF Retried, GivenUp
  <2> QED
    BY <2>1, <2>2, <2>3, <2>4, EventSteps
<1>3. /\ turn' \in {"command", "poll"} /\ failing' \in BOOLEAN
      /\ request' \in Requests \cup {None} /\ (request' # None => request'.command \in Sendable)
      /\ last_revision' \in Nat \cup {Unknown}
  <2>0. /\ turn \in {"command", "poll"} /\ failing \in BOOLEAN
        /\ request \in Requests \cup {None} /\ (request # None => request.command \in Sendable)
        /\ last_revision \in Nat \cup {Unknown}
    BY DEF ClientTypes
  <2>1. CASE UNCHANGED <<request, last_revision, turn, failing>>
    BY <2>0, <2>1
  <2>2. CASE TakeCommand
    BY <2>0, <2>2, Taking
  <2>3. CASE Poll
    BY <2>0, <2>3, Polling
  <2>4. CASE Receive
    BY <2>0, <2>4, Receiving
  <2>5. CASE Fail
    BY <2>0, <2>5, Failing DEF Retried, GivenUp
  <2>6. CASE Serve
    <3>1. request' \in Requests /\ request'.command = request.command /\ request # None
      BY <2>6, Serving, Answered
    <3>2. UNCHANGED <<turn, failing, last_revision>>
      BY <2>6 DEF Serve
    <3> QED
      BY <2>0, <3>1, <3>2
  <2> QED
    BY <2>1, <2>2, <2>3, <2>4, <2>5, <2>6, RequestSteps DEF Worker
<1> QED
  BY <1>1, <1>2, <1>3 DEF ClientTypes

LEMMA AppliedOnce ==
    ASSUME ServerTypes, NEW c \in Contacts, Applied(c)
    PROVE  /\ applications' \in [Contacts -> Nat]
           /\ \A d \in Contacts : applications'[d] = IF d = c THEN applications[d] + 1 ELSE applications[d]
BY DEF ServerTypes, Applied

LEMMA RemoteSteps ==
    ASSUME ServerTypes, RemoteChange
    PROVE  /\ server' \in [hp : 0 .. MaxHp, revision : Nat, catalog : Catalogs]
           /\ server'.revision \in {server.revision, server.revision + 1}
           /\ server'.revision = server.revision => server'.hp = server.hp
           /\ UNCHANGED <<answered, applications, request, commands, sam_events, last_revision, judged, hit_event,
                          current_hp, pending_events, sam_local_dirty, sam_sync_inflight>>
<1>1. UNCHANGED <<answered, applications, request, commands, sam_events, last_revision, judged, hit_event,
                  current_hp, pending_events, sam_local_dirty, sam_sync_inflight>>
  BY DEF RemoteChange, clientVars, syncVars
<1>2. server \in [hp : 0 .. MaxHp, revision : Nat, catalog : Catalogs]
  BY DEF ServerTypes
<1>3. CASE \E hp \in 0 .. MaxHp : hp # server.hp /\ server' = WithHp(hp)
  BY <1>1, <1>2, <1>3, WithHpType
<1>4. CASE \E c \in Catalogs : c # server.catalog /\ server' = [server EXCEPT !.catalog = c]
  BY <1>1, <1>2, <1>4
<1> QED
  BY <1>3, <1>4 DEF RemoteChange

LEMMA ServerStep ==
    ASSUME ClientTypes, ServerTypes, [Next]_vars
    PROVE  ServerTypes'
<1>0. /\ server \in [hp : 0 .. MaxHp, revision : Nat, catalog : Catalogs]
      /\ answered \in [EventIds -> Replies \cup {None}]
      /\ applications \in [Contacts -> Nat]
  BY DEF ServerTypes
<1>1. CASE UNCHANGED <<server, answered, applications>>
  BY <1>0, <1>1 DEF ServerTypes
<1>2. CASE RemoteChange
  BY <1>0, <1>2, RemoteSteps DEF ServerTypes
<1>3. CASE Serve
  <2>1. PICK r \in Replies : CacheHit(r) \/ FirstServed(r) \/ SyncServed(r) \/ ReadServed(r)
    BY <1>3, Serving
  <2>2. request # None /\ request.command \in Sendable
    BY <1>3, Serving, RequestTypes
  <2>3. r.hp \in 0 .. MaxHp
    BY ReplyTypes
  <2>4. CASE CacheHit(r) \/ ReadServed(r)
    BY <1>0, <2>4 DEF CacheHit, ReadServed, ServerTypes
  <2>5. CASE FirstServed(r)
    <3>1. server' \in [hp : 0 .. MaxHp, revision : Nat, catalog : Catalogs]
      BY <2>3, <2>5, WithHpType DEF FirstServed
    <3>2. answered' \in [EventIds -> Replies \cup {None}]
      BY <1>0, <2>5 DEF FirstServed
    <3>3. request.command.contact \in Contacts
      BY <2>2, <2>5 DEF FirstServed, Sendable
    <3>4. applications' \in [Contacts -> Nat]
      BY <1>0, <2>5, <3>3, AppliedOnce DEF FirstServed
    <3> QED
      BY <3>1, <3>2, <3>4 DEF ServerTypes
  <2>6. CASE SyncServed(r)
    <3>1. server' \in [hp : 0 .. MaxHp, revision : Nat, catalog : Catalogs]
      BY <2>3, <2>6, WithHpType DEF SyncServed
    <3>2. request.command.contact \in Contacts \cup {None}
      BY <2>2, RequestTypes
    <3>3. applications' \in [Contacts -> Nat]
      BY <1>0, <2>6, <3>2, AppliedOnce DEF SyncServed
    <3> QED
      BY <1>0, <2>6, <3>1, <3>3 DEF SyncServed, ServerTypes
  <2> QED
    BY <2>1, <2>4, <2>5, <2>6
<1> QED
  BY <1>1, <1>2, <1>3, ServerSteps
----------------------------------------------------------------------------
LEMMA InitTypes == Init => Types
<1> SUFFICES ASSUME Init PROVE Types
  OBVIOUS
<1>0. MaxHp \in Nat /\ MaxHints \in Nat /\ MaxTime \in Nat /\ MaxTime > 0
  BY AuthorityAssumption
<1>1. HintInv
  <2>1. hint = NoHint /\ now = 1 /\ packets = 0
        /\ origin = [f \in Fields |-> None] /\ attribution = [c \in Contacts |-> {}]
    BY DEF Init
  <2>2. hint \in Hints /\ hint.received_at = 0 /\ \A f \in Fields : hint[f] = None /\ origin[f] = None
    BY <2>1 DEF NoHint, Hints, Fields
  <2>3. HintTypes
    BY <1>0, <2>1, <2>2 DEF HintTypes
  <2>4. PacketsUsedUp
    BY <2>1, <2>2 DEF PacketsUsedUp, HintNamesOneContact
  <2> QED
    BY <2>3, <2>4 DEF HintInv
<1>2. AppTypes
  <2>1. server.catalog \in Catalogs
    BY DEF Init
  <2>2. catalog \in Catalogs \cup {EmptyCatalog}
    BY <2>1 DEF Init
  <2>3. Lists(catalog)
    BY <2>2, CatalogLists
  <2>4. PICK n \in DOMAIN catalog.enemies \cup {None}, l \in DOMAIN catalog.players \cup {None} :
           config = WithPlayer(WithNpc(NothingSelected, n), l)
    BY DEF Init
  <2>5. config \in Configs /\ SelectionIsShown
    <3>1. NothingSelected \in Configs /\ NothingSelected.player = None
      BY DEF NothingSelected, Configs
    <3> DEFINE named == WithNpc(NothingSelected, n)
    <3>2. named \in Configs /\ named.npc = n /\ named.player = None
      BY <2>3, <3>1, SelectionTypes
    <3> HIDE DEF named
    <3>3. /\ WithPlayer(named, l) \in Configs /\ WithPlayer(named, l).npc = n
          /\ WithPlayer(named, l).player_label = l /\ (l = None => WithPlayer(named, l).player = None)
      BY <2>3, <3>2, SelectionTypes
    <3>4. config = WithPlayer(named, l)
      BY <2>4 DEF named
    <3> QED
      BY <3>3, <3>4 DEF SelectionIsShown
  <2>6. /\ judged = {} /\ hit_event = None /\ current_hp = MaxHp /\ pending_remote = None
        /\ sam_local_dirty = FALSE /\ sam_sync_inflight = FALSE /\ sync_due = FALSE
    BY DEF Init
  <2>7. current_hp \in 0 .. MaxHp /\ judged \subseteq Contacts
    BY <1>0, <2>6
  <2>8. sam_local_dirty \in BOOLEAN /\ sam_sync_inflight \in BOOLEAN /\ sync_due \in BOOLEAN
    BY <2>6
  <2> QED
    BY <2>2, <2>5, <2>6, <2>7, <2>8 DEF AppTypes
<1>3. ClientTypes
  <2>1. commands = <<>> /\ sam_events = <<>> /\ turn = "command" /\ request = None /\ last_revision = Unknown
    BY DEF Init
  <2>2. failing \in BOOLEAN
    BY DEF Init
  <2>3. commands \in Seq(Sendable) /\ sam_events \in Seq(Events)
    BY <2>1
  <2> QED
    BY <2>1, <2>2, <2>3 DEF ClientTypes
<1>4. ServerTypes
  <2>1. server \in [hp : 0 .. MaxHp, revision : Nat, catalog : Catalogs]
    BY <1>0 DEF Init
  <2> QED
    BY <2>1 DEF Init, ServerTypes
<1> QED
  BY <1>1, <1>2, <1>3, <1>4 DEF Types

LEMMA NextTypes == Types /\ [Next]_vars => Types'
BY HintStep, AppStep, ClientStep, ServerStep DEF Types, HintInv

(* Types, and the hints behind the events, in every reachable state. *)
LEMMA TypesInvariance == Spec => []Types
<1>1. Types /\ [Next]_vars => Types'
  BY NextTypes
<1> QED
  BY InitTypes, <1>1, PTL DEF Spec

(* Every hint, command, request, event, reply and count of the desktop, the *)
(* worker and Sam.py has its type, in all states.                           *)
THEOREM AuthorityTypes == Spec => []TypeOK
<1>1. Types => TypeOK
  <2> SUFFICES ASSUME Types PROVE TypeOK
    OBVIOUS
  <2>1. /\ now \in 1 .. MaxTime
        /\ \A f \in Fields : hint[f] \in HintValues(f) \cup {None}
        /\ hint.received_at \in 0 .. now
        /\ hint.received_at = 0 => \A f \in Fields : hint[f] = None
        /\ \A f \in Fields : origin[f] \in (1 .. packets) \cup {None}
        /\ \A f \in Fields : origin[f] = None <=> hint[f] = None
        /\ packets \in 0 .. MaxHints
        /\ \A c \in Contacts : attribution[c] \subseteq 1 .. packets
    <3>1. hint \in Hints
      BY DEF Types, HintInv, HintTypes
    <3>2. \A f \in Fields : hint[f] \in HintValues(f) \cup {None}
      BY <3>1 DEF Hints, Fields, HintValues
    <3>3. hint.received_at \in 0 .. now
      BY <3>1 DEF Hints, Types, HintInv, HintTypes
    <3> QED
      BY <3>2, <3>3 DEF Types, HintInv, HintTypes, PacketsUsedUp
  <2>2. commands \in Seq(CommandType)
    <3>1. Sendable \subseteq CommandType
      BY DEF Sendable
    <3> QED
      BY <3>1, SeqMonotonic DEF Types, ClientTypes
  <2>3. /\ request \in Requests \cup {None} /\ turn \in {"command", "poll"}
        /\ last_revision \in Nat \cup {Unknown} /\ failing \in BOOLEAN
    BY DEF Types, ClientTypes
  <2>4. /\ server.hp \in 0 .. MaxHp /\ server.revision \in Nat /\ server.catalog \in Catalogs
        /\ \A id \in EventIds : answered[id] \in Replies \cup {None}
    BY DEF Types, ServerTypes
  <2>5. /\ judged \subseteq Contacts
        /\ config \in Configs
        /\ catalog \in Catalogs \cup {EmptyCatalog}
        /\ hit_event \in Contacts \cup {None}
        /\ current_hp \in 0 .. MaxHp
        /\ sam_local_dirty \in BOOLEAN /\ sam_sync_inflight \in BOOLEAN /\ sync_due \in BOOLEAN
        /\ pending_remote \in Replies \cup {None}
    BY DEF Types, AppTypes
  <2> QED
    BY <2>1, <2>2, <2>3, <2>4, <2>5 DEF TypeOK
<1> QED
  BY <1>1, TypesInvariance, PTL

(* A packet of an identity hint is behind one event only: submitting a hit  *)
(* clears the whole hint, and every packet is newer than those behind       *)
(* earlier events (app.py:1015).                                            *)
THEOREM HintsUsedOnce == Spec => []HintNamesOneContact
<1>1. Types => HintNamesOneContact
  BY DEF Types, HintInv, PacketsUsedUp
<1> QED
  BY <1>1, TypesInvariance, PTL

(* A Contact without a hint is attributed to a source the user sees         *)
(* selected, whose name or label the catalog at hand lists: each catalog    *)
(* that comes drops the labels it lacks with the identity stored for them   *)
(* (app.py:1432-1449).                                                      *)
THEOREM SelectionsAreListed == Spec => []SelectionIsShown
<1>1. Types => SelectionIsShown
  BY DEF Types, AppTypes
<1> QED
  BY <1>1, TypesInvariance, PTL
----------------------------------------------------------------------------
(* The steps, by what they do to hits, commands, answers and hit points. *)

desktop == <<judged, hit_event, pending_events, current_hp, sam_local_dirty, sam_sync_inflight>>
worker  == <<request, sam_events, last_revision>>
sampy   == <<server, answered, applications>>

(* Outside the worker's answers the mirror's two flags only rise. *)
Stir == sam_local_dirty' \in {sam_local_dirty, TRUE} /\ UNCHANGED sam_sync_inflight

Idle ==
    /\ UNCHANGED <<judged, hit_event, pending_events, current_hp, commands, worker, sampy>>
    /\ Stir

Judging(c) ==
    /\ c \notin judged /\ judged' = judged \cup {c}
    /\ Legacy(c) \/ Held(c) \/ Submitted(c)
    /\ UNCHANGED <<current_hp, sam_sync_inflight, worker, sampy>>

Asking ==
    /\ \E kind \in {"pull", "combat_catalog"} : commands' = Append(commands, Command(kind, None, None, 0))
    /\ UNCHANGED <<judged, hit_event, pending_events, current_hp, worker, sampy>>
    /\ Stir

Pushing ==
    /\ commands' = Append(commands, Command("sync", None, hit_event, current_hp))
    /\ hit_event' = None
    /\ sam_sync_inflight' = TRUE
    /\ UNCHANGED <<judged, pending_events, current_hp, sam_local_dirty, worker, sampy>>

Handling ==
    /\ HandleSamEvent
    /\ UNCHANGED <<judged, hit_event, commands, request, last_revision, sampy>>

Working ==
    /\ Worker
    /\ UNCHANGED <<desktop, sampy>>

Answering ==
    /\ Serve
    /\ UNCHANGED <<desktop, commands, sam_events, last_revision>>

LEMMA Steps ==
    ASSUME HintTypes, [Next]_vars
    PROVE  Idle \/ (\E c \in Contacts : Judging(c)) \/ Asking \/ Pushing \/ Handling \/ Working \/ Answering \/ RemoteChange
<1> USE DEF desktop, worker, sampy, clientVars, serverVars, syncVars
<1>1. CASE Advance \/ Companion \/ SelectSource
  BY <1>1 DEF Advance, Companion, ReceiveHint, ReceiveClear, SelectSource, Idle, Stir
<1>2. ASSUME NEW c \in Contacts, JudgedContact(c) PROVE Judging(c)
  BY <1>2, Judgement DEF Judging
<1>3. CASE LocalChange
  BY <1>3 DEF LocalChange, ScheduleSync, Idle, Stir
<1>4. CASE SwitchNpcMode
  BY <1>4 DEF SwitchNpcMode, ScheduleSync, Asking, Stir
<1>5. CASE RequestCatalog
  BY <1>5 DEF RequestCatalog, Asking, Stir
<1>6. CASE PushSync
  BY <1>6 DEF PushSync, Pushing
<1>7. CASE HandleSamEvent
  BY <1>7 DEF HandleSamEvent, Handling
<1>8. CASE Worker
  BY <1>8 DEF Worker, TakeCommand, Poll, Receive, Fail, Working
<1>9. CASE Serve
  BY <1>9 DEF Serve, Answering
<1>10. CASE UNCHANGED vars
  BY <1>10 DEF vars, Idle, Stir
<1> QED
  BY <1>1, <1>2, <1>3, <1>4, <1>5, <1>6, <1>7, <1>8, <1>9, <1>10 DEF Next, App
----------------------------------------------------------------------------
(* Who carries a hit: the field, a queued command or the worker's request.  *)

Queued(s, c) == \E i \in DOMAIN s : s[i].contact = c

Asked(r, c) == r # None /\ r.command.contact = c

(* A hit is in one command only. *)
Apart(s) == \A i, j \in DOMAIN s : s[i].contact = s[j].contact /\ s[i].contact # None => i = j

(* A hit has been judged before it is carried, and has one carrier. *)
Carriers ==
    /\ hit_event \in judged \cup {None}
    /\ Apart(commands)
    /\ \A c \in Contacts :
          /\ Queued(commands, c) \/ Asked(request, c) => c \in judged
          /\ ~(Queued(commands, c) /\ Asked(request, c))
          /\ hit_event = c => ~Queued(commands, c) /\ ~Asked(request, c)

LEMMA Appended ==
    ASSUME NEW S, NEW s \in Seq(S), NEW x \in S
    PROVE  /\ Append(s, x) \in Seq(S)
           /\ DOMAIN s = 1 .. Len(s) /\ Len(s) \in Nat /\ DOMAIN Append(s, x) = 1 .. Len(s) + 1
           /\ \A i \in DOMAIN s : i \in DOMAIN Append(s, x) /\ Append(s, x)[i] = s[i] /\ s[i] \in S
           /\ Len(s) + 1 \in DOMAIN Append(s, x) /\ Append(s, x)[Len(s) + 1] = x
           /\ \A i \in DOMAIN Append(s, x) : i \in DOMAIN s \/ i = Len(s) + 1
OBVIOUS

LEMMA Tailed ==
    ASSUME NEW S, NEW s \in Seq(S), s # <<>>
    PROVE  /\ 1 \in DOMAIN s /\ Head(s) = s[1] /\ Head(s) \in S /\ Tail(s) \in Seq(S)
           /\ \A i \in DOMAIN Tail(s) : i \in Nat /\ i + 1 \in DOMAIN s /\ Tail(s)[i] = s[i + 1] /\ i + 1 # 1
           /\ \A i \in DOMAIN s : i \in Nat /\ (i = 1 \/ (i - 1 \in DOMAIN Tail(s) /\ Tail(s)[i - 1] = s[i]))
OBVIOUS

LEMMA QueuedAppend ==
    ASSUME NEW s \in Seq(Sendable), NEW m \in Sendable
    PROVE  /\ \A c : Queued(Append(s, m), c) <=> Queued(s, c) \/ m.contact = c
           /\ Apart(s) /\ (m.contact # None => ~Queued(s, m.contact)) => Apart(Append(s, m))
<1> DEFINE t == Append(s, m)
<1>1. /\ \A i \in DOMAIN s : i \in DOMAIN t /\ t[i] = s[i]
      /\ Len(s) + 1 \in DOMAIN t /\ t[Len(s) + 1] = m
      /\ \A i \in DOMAIN t : i \in DOMAIN s \/ i = Len(s) + 1
  BY Appended
<1> HIDE DEF t
<1>2. \A c : Queued(t, c) <=> Queued(s, c) \/ m.contact = c
  BY <1>1 DEF Queued
<1>3. Apart(s) /\ (m.contact # None => ~Queued(s, m.contact)) => Apart(t)
  BY <1>1 DEF Queued, Apart
<1> QED
  BY <1>2, <1>3 DEF t

LEMMA QueuedTail ==
    ASSUME NEW s \in Seq(Sendable), s # <<>>
    PROVE  /\ \A c : Queued(s, c) <=> Head(s).contact = c \/ Queued(Tail(s), c)
           /\ Apart(s) => Apart(Tail(s)) /\ (Head(s).contact # None => ~Queued(Tail(s), Head(s).contact))
<1> DEFINE t == Tail(s)
           m == Head(s)
<1>1. /\ 1 \in DOMAIN s /\ m = s[1]
      /\ \A i \in DOMAIN t : i \in Nat /\ i + 1 \in DOMAIN s /\ t[i] = s[i + 1] /\ i + 1 # 1
      /\ \A i \in DOMAIN s : i \in Nat /\ (i = 1 \/ (i - 1 \in DOMAIN t /\ t[i - 1] = s[i]))
  BY Tailed
<1> HIDE DEF t, m
<1>2. \A c : Queued(s, c) <=> m.contact = c \/ Queued(t, c)
  BY <1>1 DEF Queued
<1>3. Apart(s) => Apart(t)
  <2> SUFFICES ASSUME Apart(s), NEW i \in DOMAIN t, NEW j \in DOMAIN t, t[i].contact = t[j].contact, t[i].contact # None
               PROVE  i = j
    BY DEF Apart
  <2>1. i + 1 \in DOMAIN s /\ j + 1 \in DOMAIN s /\ t[i] = s[i + 1] /\ t[j] = s[j + 1] /\ i \in Nat /\ j \in Nat
    BY <1>1
  <2>2. s[i + 1].contact = s[j + 1].contact /\ s[i + 1].contact # None
    BY <2>1
  <2>3. i + 1 = j + 1
    BY <2>1, <2>2, Zenon DEF Apart
  <2> QED
    BY <2>1, <2>3
<1>4. Apart(s) /\ m.contact # None => ~Queued(t, m.contact)
  BY <1>1 DEF Apart, Queued
<1> QED
  BY <1>2, <1>3, <1>4 DEF t, m

LEMMA CommandFields ==
    /\ \A kind, id, contact, hp : /\ Command(kind, id, contact, hp).kind = kind
                                  /\ Command(kind, id, contact, hp).event_id = id
                                  /\ Command(kind, id, contact, hp).contact = contact
                                  /\ Command(kind, id, contact, hp).hp = hp
    /\ \A c \in Contacts : c # None
BY AuthorityAssumption DEF Command

LEMMA CarriersStep ==
    ASSUME Types, Carriers, [Next]_vars
    PROVE  Carriers'
<1> USE DEF Types, HintInv, desktop, worker, sampy
<1>0. /\ commands \in Seq(Sendable) /\ judged \subseteq Contacts /\ hit_event \in Contacts \cup {None}
      /\ current_hp \in 0 .. MaxHp
  BY DEF ClientTypes, AppTypes
<1>a. \A c \in Contacts : c # None
  BY CommandFields
<1>1. CASE Idle
  BY <1>1 DEF Idle, Carriers
<1>2. ASSUME NEW c \in Contacts, Judging(c) PROVE Carriers'
  <2>0. c \notin judged /\ judged' = judged \cup {c} /\ request' = request
    BY <1>2 DEF Judging
  <2>1. ~Queued(commands, c) /\ ~Asked(request, c)
    BY <2>0 DEF Carriers
  <2>2. CASE Legacy(c)
    BY <2>0, <2>1, <2>2 DEF Legacy, Carriers
  <2>3. CASE Held(c)
    BY <2>0, <1>a, <2>3 DEF Held, Carriers
  <2>4. CASE Submitted(c)
    <3> DEFINE m == Command("combat_event", EventId(c), c, 0)
    <3>1. m \in Sendable /\ m.contact = c
      BY SendableTypes, CommandFields
    <3>2. commands' = Append(commands, m) /\ hit_event' = None
      BY <2>4 DEF Submitted
    <3> HIDE DEF m
    <3>3. /\ \A d : Queued(commands', d) <=> Queued(commands, d) \/ d = c
          /\ Apart(commands')
      BY <1>0, <2>1, <3>1, <3>2, QueuedAppend DEF Carriers
    <3> QED
      BY <1>a, <2>0, <2>1, <3>2, <3>3 DEF Carriers
  <2> QED
    BY <1>2, <2>2, <2>3, <2>4 DEF Judging
<1>3. CASE Asking
  <2>1. PICK kind \in {"pull", "combat_catalog"} : commands' = Append(commands, Command(kind, None, None, 0))
    BY <1>3 DEF Asking
  <2> DEFINE m == Command(kind, None, None, 0)
  <2>2. m \in Sendable /\ m.contact = None
    BY SendableTypes, CommandFields
  <2> HIDE DEF m
  <2>3. Apart(commands') /\ \A d \in Contacts : Queued(commands', d) <=> Queued(commands, d)
    BY <1>0, <1>a, <2>1, <2>2, QueuedAppend DEF Carriers, m
  <2> QED
    BY <1>3, <2>3 DEF Asking, Carriers
<1>4. CASE Pushing
  <2> DEFINE m == Command("sync", None, hit_event, current_hp)
  <2>1. m \in Sendable /\ m.contact = hit_event
    BY <1>0, SendableTypes, CommandFields
  <2>2. commands' = Append(commands, m) /\ hit_event' = None /\ UNCHANGED <<judged, request>>
    BY <1>4 DEF Pushing
  <2> HIDE DEF m
  <2>3. hit_event # None => ~Queued(commands, hit_event) /\ ~Asked(request, hit_event) /\ hit_event \in judged
    BY <1>0 DEF Carriers
  <2>4. Apart(commands') /\ \A d \in Contacts : Queued(commands', d) <=> Queued(commands, d) \/ d = hit_event
    BY <1>0, <2>1, <2>2, <2>3, QueuedAppend DEF Carriers
  <2> QED
    BY <1>a, <2>2, <2>3, <2>4 DEF Carriers
<1>5. CASE Handling
  BY <1>5 DEF Handling, Carriers
<1>6. CASE Working
  <2>0. UNCHANGED <<judged, hit_event>>
    BY <1>6 DEF Working
  <2>1. CASE TakeCommand
    <3>1. /\ commands # <<>> /\ commands' = Tail(commands) /\ request = None
          /\ request' # None /\ request'.command = Head(commands)
      BY <2>1, Taking
    <3>2. /\ \A d : Queued(commands, d) <=> Head(commands).contact = d \/ Queued(commands', d)
          /\ Apart(commands') /\ (Head(commands).contact # None => ~Queued(commands', Head(commands).contact))
      BY <1>0, <3>1, QueuedTail DEF Carriers
    <3>3. \A d : Asked(request', d) <=> Head(commands).contact = d
      BY <3>1 DEF Asked
    <3> QED
      BY <1>a, <2>0, <3>2, <3>3 DEF Carriers
  <2>2. CASE Poll
    <3>1. commands' = commands /\ request'.command.contact = None
      BY <2>2, Polling, CommandFields DEF PollCommand
    <3>2. \A d \in Contacts : ~Asked(request', d)
      BY <1>a, <3>1 DEF Asked
    <3> QED
      BY <2>0, <3>1, <3>2 DEF Carriers
  <2>3. CASE Receive
    <3>1. commands' = commands /\ request' = None
      BY <2>3, Receiving
    <3> QED
      BY <2>0, <3>1 DEF Carriers, Asked
  <2>4. CASE Fail
    <3>1. commands' = commands /\ request # None /\ (request' = None \/ request'.command = request.command)
      BY <2>4, Failing DEF Retried, GivenUp
    <3>2. \A d : Asked(request', d) => Asked(request, d)
      BY <3>1 DEF Asked
    <3> QED
      BY <2>0, <3>1, <3>2 DEF Carriers
  <2> QED
    BY <1>6, <2>1, <2>2, <2>3, <2>4 DEF Working, Worker
<1>7. CASE Answering
  <2>1. UNCHANGED <<judged, hit_event, commands>>
    BY <1>7 DEF Answering
  <2>2. request # None /\ request'.command = request.command
    BY <1>7, Serving, Answered DEF Answering
  <2>3. \A d : Asked(request', d) => Asked(request, d)
    BY <2>2 DEF Asked
  <2> QED
    BY <2>1, <2>3 DEF Carriers
<1>8. CASE RemoteChange
  BY <1>8, RemoteSteps DEF Carriers
<1> QED
  BY <1>1, <1>2, <1>3, <1>4, <1>5, <1>6, <1>7, <1>8, Steps
----------------------------------------------------------------------------
(* What has not been sent has not been applied; what is being asked for has *)
(* not been applied either, unless the server will find the event answered, *)
(* or the request is a sync, which is not sent twice.                       *)
Waiting(c) == c \notin judged \/ hit_event = c \/ Queued(commands, c)

AppliedAtMostOnce ==
    \A c \in Contacts :
       /\ applications[c] <= 1
       /\ Waiting(c) => applications[c] = 0
       /\ Asked(request, c) =>
             \/ applications[c] = 0
             \/ request.command.kind = "combat_event" /\ answered[EventId(c)] # None
             \/ request.command.kind = "sync" /\ request.reply # None

(* A hit comes out of waiting for good, with the worker's next request; and *)
(* the worker gives it up or repeats its request.                           *)
LEMMA HitMoves ==
    ASSUME Types, Carriers, [Next]_vars, ~Answering, NEW c \in Contacts
    PROVE  /\ Waiting(c)' => Waiting(c)
           /\ Asked(request', c) => \/ Queued(commands, c)
                                    \/ UNCHANGED request
                                    \/ request # None /\ Retried
           /\ UNCHANGED <<answered, applications>>
<1> USE DEF Types, HintInv, desktop, worker, sampy
<1>0. /\ commands \in Seq(Sendable) /\ hit_event \in Contacts \cup {None} /\ current_hp \in 0 .. MaxHp
  BY DEF ClientTypes, AppTypes
<1>a. \A d \in Contacts : d # None
  BY CommandFields
<1>1. CASE Idle \/ Handling
  BY <1>1 DEF Idle, Handling, Waiting
<1>2. ASSUME NEW d \in Contacts, Judging(d)
      PROVE  (Waiting(c)' => Waiting(c)) /\ UNCHANGED <<request, answered, applications>>
  <2>0. d \notin judged /\ judged' = judged \cup {d} /\ UNCHANGED <<request, answered, applications>>
    BY <1>2 DEF Judging
  <2>1. CASE Legacy(d) \/ Held(d)
    BY <1>a, <2>0, <2>1 DEF Legacy, Held, Waiting
  <2>2. CASE Submitted(d)
    <3> DEFINE m == Command("combat_event", EventId(d), d, 0)
    <3>1. m \in Sendable /\ m.contact = d
      BY SendableTypes, CommandFields
    <3>2. commands' = Append(commands, m) /\ hit_event' = None
      BY <2>2 DEF Submitted
    <3> HIDE DEF m
    <3>3. Queued(commands', c) => Queued(commands, c) \/ d = c
      BY <1>0, <3>1, <3>2, QueuedAppend
    <3> QED
      BY <1>a, <2>0, <3>2, <3>3 DEF Waiting
  <2> QED
    BY <1>2, <2>0, <2>1, <2>2 DEF Judging
<1>3. CASE Asking
  <2>1. PICK kind \in {"pull", "combat_catalog"} : commands' = Append(commands, Command(kind, None, None, 0))
    BY <1>3 DEF Asking
  <2> DEFINE m == Command(kind, None, None, 0)
  <2>2. m \in Sendable /\ m.contact = None
    BY SendableTypes, CommandFields
  <2> HIDE DEF m
  <2>3. Queued(commands', c) => Queued(commands, c)
    BY <1>0, <1>a, <2>1, <2>2, QueuedAppend DEF m
  <2> QED
    BY <1>3, <2>3 DEF Asking, Waiting
<1>4. CASE Pushing
  <2> DEFINE m == Command("sync", None, hit_event, current_hp)
  <2>1. m \in Sendable /\ m.contact = hit_event
    BY <1>0, SendableTypes, CommandFields
  <2>2. commands' = Append(commands, m) /\ hit_event' = None /\ UNCHANGED <<judged, request, answered, applications>>
    BY <1>4 DEF Pushing
  <2> HIDE DEF m
  <2>3. Queued(commands', c) => Queued(commands, c) \/ c = hit_event
    BY <1>0, <2>1, <2>2, QueuedAppend
  <2> QED
    BY <1>a, <2>2, <2>3 DEF Waiting
<1>5. CASE Working
  <2>0. UNCHANGED <<judged, hit_event, answered, applications>>
    BY <1>5 DEF Working
  <2>1. CASE TakeCommand
    <3>1. /\ commands # <<>> /\ commands' = Tail(commands)
          /\ request' # None /\ request'.command = Head(commands)
      BY <2>1, Taking
    <3>2. Queued(commands, c) <=> Head(commands).contact = c \/ Queued(commands', c)
      BY <1>0, <3>1, QueuedTail
    <3> QED
      BY <2>0, <3>1, <3>2 DEF Waiting, Asked
  <2>2. CASE Poll
    BY <1>a, <2>0, <2>2, Polling, CommandFields DEF PollCommand, Waiting, Asked
  <2>3. CASE Receive
    BY <2>0, <2>3, Receiving DEF Waiting, Asked
  <2>4. CASE Fail
    BY <2>0, <2>4, Failing DEF GivenUp, Waiting, Asked
  <2> QED
    BY <1>5, <2>1, <2>2, <2>3, <2>4 DEF Working, Worker
<1>6. CASE RemoteChange
  BY <1>6, RemoteSteps DEF Waiting
<1> QED
  BY <1>1, <1>2, <1>3, <1>4, <1>5, <1>6, Steps

LEMMA AppliedStep ==
    ASSUME Types, Carriers, AppliedAtMostOnce, [Next]_vars
    PROVE  AppliedAtMostOnce'
<1> USE DEF Types, HintInv
<1>1. CASE ~Answering
  <2> SUFFICES ASSUME NEW c \in Contacts
               PROVE  /\ applications'[c] <= 1
                      /\ Waiting(c)' => applications'[c] = 0
                      /\ Asked(request', c) =>
                            \/ applications'[c] = 0
                            \/ request'.command.kind = "combat_event" /\ answered'[EventId(c)] # None
                            \/ request'.command.kind = "sync" /\ request'.reply # None
    BY DEF AppliedAtMostOnce
  <2>1. /\ Waiting(c)' => Waiting(c)
        /\ Asked(request', c) => Queued(commands, c) \/ UNCHANGED request \/ (request # None /\ Retried)
        /\ UNCHANGED <<answered, applications>>
    BY <1>1, HitMoves
  <2>2. Queued(commands, c) => applications[c] = 0
    BY DEF AppliedAtMostOnce, Waiting
  <2>3. request # None /\ Retried => request'.command = request.command /\ request.command.kind = "combat_event"
                                     /\ (Asked(request', c) => Asked(request, c))
    BY DEF Retried, Asked
  <2> QED
    BY <2>1, <2>2, <2>3 DEF AppliedAtMostOnce
<1>2. CASE Answering
  <2>1. /\ Serve /\ UNCHANGED <<judged, hit_event, commands>>
    BY <1>2 DEF Answering, desktop
  <2>2. PICK r \in Replies : /\ request' = [request EXCEPT !.reply = r]
                             /\ CacheHit(r) \/ FirstServed(r) \/ SyncServed(r) \/ ReadServed(r)
    BY <2>1, Serving
  <2>3. /\ request # None /\ request.reply = None
        /\ request'.command = request.command /\ request'.reply = r /\ r # None /\ request' # None
    BY <2>1, <2>2, Serving, Answered, ReplyTypes
  <2>4. \A c \in Contacts : (Asked(request', c) <=> Asked(request, c)) /\ (Waiting(c)' <=> Waiting(c))
    BY <2>1, <2>3 DEF Asked, Waiting
  <2>5. request.command \in Sendable /\ request.command.contact \in Contacts \cup {None}
    BY <2>3, RequestTypes
  <2>6. CASE CacheHit(r) \/ ReadServed(r)
    BY <2>3, <2>4, <2>6 DEF CacheHit, ReadServed, AppliedAtMostOnce
  <2>7. CASE FirstServed(r)
    <3> DEFINE c == request.command.contact
               id == request.command.event_id
    <3>1. c \in Contacts /\ id = EventId(c) /\ id \in EventIds
      BY <2>5, <2>7, EventIdType DEF FirstServed, Sendable
    <3>2. Asked(request, c) /\ ~Waiting(c)
      BY <2>3, <3>1 DEF Asked, Carriers, Waiting
    <3>3. request.command.kind = "combat_event" /\ answered[EventId(c)] = None
      BY <2>7, <3>1 DEF FirstServed
    <3>4. applications[c] = 0
      BY <3>1, <3>2, <3>3 DEF AppliedAtMostOnce
    <3>5. answered'[EventId(c)] = r
      BY <2>7, <3>1 DEF FirstServed, ServerTypes
    <3>6. \A d \in Contacts : d # c => ~Asked(request, d)
      BY DEF Asked
    <3>7. /\ applications'[c] \in {0, 1}
          /\ \A d \in Contacts : d # c => applications'[d] = applications[d]
      BY <2>7, <3>1, <3>4, AppliedOnce DEF FirstServed
    <3> HIDE DEF c, id
    <3> QED
      BY <2>3, <2>4, <3>1, <3>2, <3>3, <3>5, <3>6, <3>7 DEF AppliedAtMostOnce
  <2>8. CASE SyncServed(r)
    <3> DEFINE c == request.command.contact
    <3>1. request.command.kind = "sync"
      BY <2>8 DEF SyncServed
    <3>2. CASE c = None
      BY <2>3, <2>4, <2>8, <3>2 DEF SyncServed, AppliedAtMostOnce
    <3>3. CASE c # None
      <4>1. c \in Contacts /\ Applied(c)
        BY <2>5, <2>8, <3>3 DEF SyncServed
      <4>2. Asked(request, c) /\ ~Waiting(c)
        BY <2>3, <4>1 DEF Asked, Carriers, Waiting
      <4>3. applications[c] = 0
        BY <2>3, <3>1, <4>1, <4>2 DEF AppliedAtMostOnce
      <4>4. /\ applications'[c] = 1
            /\ \A d \in Contacts : d # c => applications'[d] = applications[d]
        BY <4>1, <4>3, AppliedOnce
      <4>5. \A d \in Contacts : d # c => ~Asked(request, d)
        BY DEF Asked
      <4> HIDE DEF c
      <4> QED
        BY <2>3, <2>4, <3>1, <4>2, <4>4, <4>5 DEF AppliedAtMostOnce
    <3> QED
      BY <3>2, <3>3
  <2> QED
    BY <2>2, <2>6, <2>7, <2>8
<1> QED
  BY <1>1, <1>2

(* No hit changes hit points, or is reported in a payload, twice.           *)
HitInv == Types /\ Carriers /\ AppliedAtMostOnce

LEMMA InitHits == Init => HitInv
<1> SUFFICES ASSUME Init PROVE HitInv
  OBVIOUS
<1>1. /\ Types /\ judged = {} /\ hit_event = None /\ commands = <<>> /\ request = None
      /\ applications = [c \in Contacts |-> 0]
  BY InitTypes DEF Init
<1>2. \A c \in Contacts : ~Queued(commands, c) /\ ~Asked(request, c) /\ c # None
  BY <1>1, CommandFields DEF Queued, Asked
<1>3. Carriers
  BY <1>1, <1>2 DEF Carriers, Apart
<1>4. AppliedAtMostOnce
  BY <1>1, <1>2 DEF AppliedAtMostOnce
<1> QED
  BY <1>1, <1>3, <1>4 DEF HitInv

LEMMA NextHits == HitInv /\ [Next]_vars => HitInv'
BY NextTypes, CarriersStep, AppliedStep DEF HitInv

(* Where a hit can be, in every reachable state. *)
LEMMA HitInvariance == Spec => []HitInv
<1>1. HitInv /\ [Next]_vars => HitInv'
  BY NextHits
<1> QED
  BY InitHits, <1>1, PTL DEF Spec

(* Neither a lost answer and its retry, nor a switch between the endpoint   *)
(* and the field of the payload makes Sam.py count a hit twice              *)
(* (sam_client.py:132-135, app.py:996-998).                                 *)
THEOREM HitsCountOnce == Spec => []OneApplicationPerContact
<1>1. HitInv => OneApplicationPerContact
  BY DEF HitInv, AppliedAtMostOnce, OneApplicationPerContact
<1> QED
  BY <1>1, HitInvariance, PTL
----------------------------------------------------------------------------
(* Where the id of an event is: in a queued command, in the worker's        *)
(* request or in what the worker has told the desktop.                      *)
Named(s, id) == \E i \in DOMAIN s : s[i].event_id = id

Bears(r, id) == r # None /\ r.command.event_id = id

(* An id is in one element only, and nothing but a combat event has one. *)
Orderly(s) ==
    /\ \A i, j \in DOMAIN s : s[i].event_id = s[j].event_id /\ s[i].event_id # None => i = j
    /\ \A i \in DOMAIN s : s[i].kind # "combat_event" => s[i].event_id = None

(* The desktop waits for the ids that are under way, and an answer names    *)
(* the event it answers.                                                    *)
Pending ==
    /\ pending_events = {id \in EventIds : Named(commands, id) \/ Bears(request, id) \/ Named(sam_events, id)}
    /\ Orderly(sam_events)
    /\ \A id \in EventIds : Named(sam_events, id) =>
          /\ \E c \in judged : id = EventId(c)
          /\ ~Named(commands, id) /\ ~Bears(request, id)
    /\ request # None /\ request.reply # None => request.reply.event_id = request.command.event_id
    /\ \A id \in EventIds : answered[id] # None => answered[id].event_id = id

LEMMA NamedAppend ==
    ASSUME NEW S, NEW s \in Seq(S), NEW m \in S
    PROVE  /\ \A id : Named(Append(s, m), id) <=> Named(s, id) \/ m.event_id = id
           /\ /\ Orderly(s)
              /\ m.event_id # None => ~Named(s, m.event_id)
              /\ m.kind # "combat_event" => m.event_id = None
              => Orderly(Append(s, m))
<1> DEFINE t == Append(s, m)
<1>1. /\ \A i \in DOMAIN s : i \in DOMAIN t /\ t[i] = s[i]
      /\ Len(s) + 1 \in DOMAIN t /\ t[Len(s) + 1] = m
      /\ \A i \in DOMAIN t : i \in DOMAIN s \/ i = Len(s) + 1
  BY Appended
<1> HIDE DEF t
<1>2. \A id : Named(t, id) <=> Named(s, id) \/ m.event_id = id
  BY <1>1 DEF Named
<1>3. ASSUME Orderly(s), m.event_id # None => ~Named(s, m.event_id), m.kind # "combat_event" => m.event_id = None
      PROVE  Orderly(t)
  BY <1>1, <1>3 DEF Named, Orderly
<1> QED
  BY <1>2, <1>3 DEF t

LEMMA NamedTail ==
    ASSUME NEW S, NEW s \in Seq(S), s # <<>>
    PROVE  /\ \A id : Named(s, id) <=> Head(s).event_id = id \/ Named(Tail(s), id)
           /\ Orderly(s) => /\ Orderly(Tail(s))
                            /\ Head(s).event_id # None => ~Named(Tail(s), Head(s).event_id)
                            /\ Head(s).kind # "combat_event" => Head(s).event_id = None
<1> DEFINE t == Tail(s)
           m == Head(s)
<1>1. /\ 1 \in DOMAIN s /\ m = s[1]
      /\ \A i \in DOMAIN t : i \in Nat /\ i + 1 \in DOMAIN s /\ t[i] = s[i + 1] /\ i + 1 # 1
      /\ \A i \in DOMAIN s : i \in Nat /\ (i = 1 \/ (i - 1 \in DOMAIN t /\ t[i - 1] = s[i]))
  BY Tailed
<1> HIDE DEF t, m
<1>2. \A id : Named(s, id) <=> m.event_id = id \/ Named(t, id)
  BY <1>1 DEF Named
<1>3. ASSUME Orderly(s) PROVE Orderly(t)
  <2>1. ASSUME NEW i \in DOMAIN t, NEW j \in DOMAIN t, t[i].event_id = t[j].event_id, t[i].event_id # None
        PROVE  i = j
    <3>1. i + 1 \in DOMAIN s /\ j + 1 \in DOMAIN s /\ t[i] = s[i + 1] /\ t[j] = s[j + 1] /\ i \in Nat /\ j \in Nat
      BY <1>1
    <3>2. s[i + 1].event_id = s[j + 1].event_id /\ s[i + 1].event_id # None
      BY <2>1, <3>1
    <3>3. i + 1 = j + 1
      BY <1>3, <3>1, <3>2, Zenon DEF Orderly
    <3> QED
      BY <3>1, <3>3
  <2>2. ASSUME NEW i \in DOMAIN t, t[i].kind # "combat_event"
        PROVE  t[i].event_id = None
    <3>1. i + 1 \in DOMAIN s /\ t[i] = s[i + 1]
      BY <1>1
    <3>2. s[i + 1].kind # "combat_event" => s[i + 1].event_id = None
      BY <1>3, <3>1, Zenon DEF Orderly
    <3> QED
      BY <2>2, <3>1, <3>2
  <2> QED
    BY <2>1, <2>2 DEF Orderly
<1>4. ASSUME Orderly(s), m.event_id # None, NEW i \in DOMAIN t, t[i].event_id = m.event_id
      PROVE  FALSE
  <2>1. i + 1 \in DOMAIN s /\ t[i] = s[i + 1] /\ i + 1 # 1
    BY <1>1
  <2>2. 1 = i + 1
    BY <1>1, <1>4, <2>1, Zenon DEF Orderly
  <2> QED
    BY <2>1, <2>2
<1>5. Orderly(s) /\ s[1].kind # "combat_event" => s[1].event_id = None
  BY <1>1, Zenon DEF Orderly
<1> QED
  BY <1>1, <1>2, <1>3, <1>4, <1>5 DEF t, m, Named

(* The id of a command is that of its hit. *)
LEMMA IdIsHits ==
    /\ \A m \in Sendable, id \in EventIds : m.event_id = id => m.contact \in Contacts /\ id = EventId(m.contact)
    /\ \A c, d \in Contacts : EventId(c) = EventId(d) => c = d
    /\ \A id \in EventIds : id # None
BY NoneAssumption DEF Sendable, EventId

LEMMA NamedIsQueued ==
    ASSUME NEW s \in Seq(Sendable), NEW c \in Contacts, Named(s, EventId(c))
    PROVE  Queued(s, c)
<1>1. PICK i \in DOMAIN s : s[i].event_id = EventId(c)
  BY DEF Named
<1>2. s[i] \in Sendable
  BY Appended
<1>3. s[i].contact = c
  BY <1>1, <1>2, IdIsHits, EventIdType
<1> QED
  BY <1>1, <1>3 DEF Queued

LEMMA BearsIsAsked ==
    ASSUME ClientTypes, NEW c \in Contacts, Bears(request, EventId(c))
    PROVE  Asked(request, c)
<1>1. request # None /\ request.command.event_id = EventId(c)
  BY DEF Bears
<1>2. request.command \in Sendable
  BY <1>1, RequestTypes
<1> QED
  BY <1>1, <1>2, IdIsHits, EventIdType DEF Asked

(* A command that has no id makes nothing pending. *)
LEMMA NamelessCommand ==
    ASSUME Types, Pending, NEW m \in Sendable, m.event_id = None, commands' = Append(commands, m),
           UNCHANGED <<judged, pending_events, request, sam_events, answered>>
    PROVE  Pending'
<1>1. commands \in Seq(Sendable)
  BY DEF Types, ClientTypes
<1>2. \A id \in EventIds : Named(commands', id) <=> Named(commands, id)
  BY <1>1, NamedAppend, IdIsHits
<1> QED
  BY <1>2 DEF Pending

(* The desktop stops waiting for what it is told of. *)
LEMMA PendingHandling ==
    ASSUME Types, Pending, Handling
    PROVE  Pending'
<1>0. /\ sam_events # <<>> /\ sam_events \in Seq(Events) /\ sam_events' = Tail(sam_events)
      /\ UNCHANGED <<judged, commands, request, answered>>
  BY DEF Handling, HandleSamEvent, Types, ClientTypes, sampy
<1> DEFINE event == Head(sam_events)
<1>1. /\ \A id : Named(sam_events, id) <=> event.event_id = id \/ Named(sam_events', id)
      /\ Orderly(sam_events')
      /\ event.event_id # None => ~Named(sam_events', event.event_id)
      /\ event.kind # "combat_event" => event.event_id = None
  BY <1>0, NamedTail DEF Pending
<1>2. HandleOutcome(event) \/ HandleCatalog(event) \/ HandleSynced(event) \/ HandlePolled(event) \/ HandlePulled(event)
  BY DEF Handling, HandleSamEvent
<1>3. \/ event.kind = "combat_event" /\ pending_events' = pending_events \ {event.event_id}
      \/ event.kind # "combat_event" /\ pending_events' = pending_events
  BY <1>2 DEF HandleOutcome, HandleCatalog, HandleSynced, HandlePolled, HandlePulled
<1> HIDE DEF event
<1>4. pending_events' = {id \in EventIds : Named(commands', id) \/ Bears(request', id) \/ Named(sam_events', id)}
  <2>1. \A id \in EventIds : id # None
    BY IdIsHits
  <2>2. CASE event.event_id = None
    <3>1. \A id \in EventIds : Named(sam_events, id) <=> Named(sam_events', id)
      BY <1>1, <2>1, <2>2
    <3>2. pending_events' = pending_events
      BY <1>3, <2>1, <2>2 DEF Pending
    <3> QED
      BY <1>0, <3>1, <3>2 DEF Pending
  <2>3. CASE event.event_id # None
    <3>1. event.kind = "combat_event" /\ ~Named(sam_events', event.event_id) /\ Named(sam_events, event.event_id)
      BY <1>1, <2>3
    <3>2. pending_events' = pending_events \ {event.event_id}
      BY <1>3, <3>1
    <3>3. event.event_id \in EventIds => ~Named(commands, event.event_id) /\ ~Bears(request, event.event_id)
      BY <3>1 DEF Pending
    <3> QED
      BY <1>0, <1>1, <3>1, <3>2, <3>3 DEF Pending
  <2> QED
    BY <2>2, <2>3
<1> QED
  BY <1>0, <1>1, <1>4 DEF Pending

(* What the worker tells of takes over the id of its request. *)
LEMMA PendingTold ==
    ASSUME Types, Carriers, Pending, request # None, NEW e \in Events,
           sam_events' = Append(sam_events, e), request' = None,
           e.kind = request.command.kind, e.event_id = request.command.event_id,
           UNCHANGED <<judged, pending_events, commands, answered>>
    PROVE  Pending'
<1>1. sam_events \in Seq(Events) /\ request.command \in Sendable
  BY RequestTypes DEF Types, ClientTypes
<1>2. \A id \in EventIds : Bears(request, id) <=> e.event_id = id
  BY DEF Bears
<1>3. /\ \A id : Named(sam_events', id) <=> Named(sam_events, id) \/ e.event_id = id
      /\ /\ e.event_id # None => ~Named(sam_events, e.event_id)
         /\ e.kind # "combat_event" => e.event_id = None
         => Orderly(sam_events')
  BY <1>1, NamedAppend DEF Pending
<1>4. e.event_id # None => e.event_id \in EventIds /\ ~Named(sam_events, e.event_id)
  BY <1>2 DEF Events, Pending
<1>5. e.kind # "combat_event" => e.event_id = None
  BY <1>1 DEF Sendable
<1>6. \A id \in EventIds : ~Bears(request', id)
  BY DEF Bears
<1>7. ASSUME NEW id \in EventIds, e.event_id = id
      PROVE  ~Named(commands, id) /\ \E c \in judged : id = EventId(c)
  <2> DEFINE c == request.command.contact
  <2>1. c \in Contacts /\ id = EventId(c)
    BY <1>1, <1>7, IdIsHits
  <2>2. Asked(request, c)
    BY DEF Asked
  <2>3. c \in judged /\ ~Queued(commands, c)
    BY <2>1, <2>2 DEF Carriers
  <2>4. commands \in Seq(Sendable)
    BY DEF Types, ClientTypes
  <2> QED
    BY <2>1, <2>3, <2>4, NamedIsQueued
<1> QED
  BY <1>2, <1>3, <1>4, <1>5, <1>6, <1>7 DEF Pending

LEMMA PendingWorking ==
    ASSUME Types, Carriers, Pending, Working
    PROVE  Pending'
<1> USE DEF Types
<1>0. UNCHANGED <<judged, pending_events, answered>>
  BY DEF Working, desktop, sampy
<1>1. CASE TakeCommand
  <2>1. /\ commands # <<>> /\ commands' = Tail(commands) /\ request = None /\ sam_events' = sam_events
        /\ request' # None /\ request'.command = Head(commands) /\ request'.reply = None
    BY <1>1, Taking
  <2>2. commands \in Seq(Sendable) /\ Head(commands) \in Sendable
    BY <1>1, Taking DEF ClientTypes
  <2>3. \A id : Named(commands, id) <=> Head(commands).event_id = id \/ Named(commands', id)
    BY <2>1, <2>2, NamedTail
  <2>4. \A id : (Bears(request', id) <=> Head(commands).event_id = id) /\ ~Bears(request, id)
    BY <2>1 DEF Bears
  <2> QED
    BY <1>0, <2>1, <2>3, <2>4 DEF Pending
<1>2. CASE Poll
  <2>1. /\ request = None /\ request'.reply = None /\ request'.command.event_id = None
        /\ UNCHANGED <<commands, sam_events>>
    BY <1>2, Polling, CommandFields DEF PollCommand
  <2>2. \A id \in EventIds : ~Bears(request', id) /\ ~Bears(request, id)
    BY <2>1, IdIsHits DEF Bears
  <2> QED
    BY <1>0, <2>1, <2>2 DEF Pending
<1>3. CASE Receive
  <2>1. request # None /\ request.reply \in Replies /\ request.reply # None /\ request' = None /\ commands' = commands
    BY <1>3, Receiving, ReplyTypes
  <2>2. request.reply.event_id = request.command.event_id
    BY <2>1 DEF Pending
  <2>3. CASE request.command.kind = "poll" /\ UNCHANGED sam_events
    <3>1. request.command.event_id = None
      BY <2>1, <2>3, RequestTypes DEF Sendable
    <3>2. \A id \in EventIds : ~Bears(request', id) /\ ~Bears(request, id)
      BY <2>1, <3>1, IdIsHits DEF Bears
    <3> QED
      BY <1>0, <2>1, <2>3, <3>2 DEF Pending
  <2>4. CASE sam_events' = Append(sam_events, Told)
    <3>1. Told \in Events
      BY <2>1, ToldType
    <3>2. Told.kind = request.command.kind /\ Told.event_id = request.command.event_id
      BY <2>2 DEF Told
    <3> HIDE DEF Told
    <3> QED
      BY <1>0, <2>1, <2>4, <3>1, <3>2, PendingTold
  <2> QED
    BY <1>3, <2>3, <2>4, Receiving
<1>4. CASE Fail
  <2>1. request # None /\ request.command.kind # "sync" /\ commands' = commands /\ (Retried \/ GivenUp)
    BY <1>4, Failing
  <2>2. CASE Retried
    <3>1. \A id : Bears(request', id) <=> Bears(request, id)
      BY <2>1, <2>2 DEF Bears, Retried
    <3> QED
      BY <1>0, <2>1, <2>2, <3>1 DEF Retried, Pending
  <2>3. CASE request' = None /\ request.command.kind = "poll" /\ UNCHANGED sam_events
    <3>1. request.command.event_id = None
      BY <2>1, <2>3, RequestTypes DEF Sendable
    <3>2. \A id \in EventIds : ~Bears(request', id) /\ ~Bears(request, id)
      BY <2>1, <2>3, <3>1, IdIsHits DEF Bears
    <3> QED
      BY <1>0, <2>1, <2>3, <3>2 DEF Pending
  <2>4. CASE request' = None /\ request.command.kind # "poll" /\ GivenUp
    <3> DEFINE e == [kind |-> request.command.kind, ok |-> FALSE, event_id |-> request.command.event_id, reply |-> None]
    <3>1. e \in Events
      BY <2>1, <2>4, FailureType
    <3>2. e.kind = request.command.kind /\ e.event_id = request.command.event_id
      OBVIOUS
    <3>3. sam_events' = Append(sam_events, e)
      BY <2>4 DEF GivenUp
    <3> HIDE DEF e
    <3> QED
      BY <1>0, <2>1, <2>4, <3>1, <3>2, <3>3, PendingTold
  <2> QED
    BY <2>1, <2>2, <2>3, <2>4 DEF GivenUp
<1> QED
  BY <1>1, <1>2, <1>3, <1>4 DEF Working, Worker

LEMMA PendingAnswering ==
    ASSUME Types, Pending, Answering
    PROVE  Pending'
<1> USE DEF Types
<1>1. Serve /\ UNCHANGED <<judged, pending_events, commands, sam_events>>
  BY DEF Answering, desktop
<1>2. PICK r \in Replies : /\ request' = [request EXCEPT !.reply = r]
                           /\ CacheHit(r) \/ FirstServed(r) \/ SyncServed(r) \/ ReadServed(r)
  BY <1>1, Serving
<1>3. /\ request # None /\ request.command \in Sendable
      /\ request'.command = request.command /\ request'.reply = r /\ r # None /\ request' # None
  BY <1>1, <1>2, Serving, Answered, ReplyTypes, RequestTypes
<1> DEFINE id == request.command.event_id
<1>4. id \in EventIds \cup {None} /\ (request.command.kind = "combat_event" => id \in EventIds)
  BY <1>3, EventIdType DEF Sendable
<1>5. r.event_id = id /\ \A i \in EventIds : answered'[i] # None => answered'[i].event_id = i
  <2>1. CASE CacheHit(r)
    BY <1>3, <1>4, <2>1 DEF CacheHit, Pending
  <2>2. CASE FirstServed(r)
    <3>1. /\ r.event_id = id /\ answered' = [answered EXCEPT ![id] = r]
          /\ answered \in [EventIds -> Replies \cup {None}]
      BY <2>2 DEF FirstServed, ServerTypes
    <3>2. \A i \in EventIds : answered'[i] = IF i = id THEN r ELSE answered[i]
      BY <3>1
    <3> QED
      BY <3>1, <3>2 DEF Pending
  <2>3. CASE SyncServed(r) \/ ReadServed(r)
    BY <1>3, <2>3 DEF SyncServed, ReadServed, Sendable, Pending
  <2> QED
    BY <1>2, <2>1, <2>2, <2>3
<1>6. \A i : Bears(request', i) <=> Bears(request, i)
  BY <1>3 DEF Bears
<1> QED
  BY <1>1, <1>3, <1>5, <1>6 DEF Pending

LEMMA PendingStep ==
    ASSUME Types, Carriers, Pending, [Next]_vars
    PROVE  Pending'
<1> USE DEF desktop, worker, sampy
<1>0. /\ commands \in Seq(Sendable) /\ hit_event \in Contacts \cup {None} /\ current_hp \in 0 .. MaxHp
  BY DEF Types, ClientTypes, AppTypes
<1>1. CASE Idle
  BY <1>1 DEF Idle, Pending
<1>2. ASSUME NEW c \in Contacts, Judging(c) PROVE Pending'
  <2>0. c \notin judged /\ judged' = judged \cup {c} /\ UNCHANGED <<request, sam_events, answered>>
    BY <1>2 DEF Judging
  <2>1. CASE Legacy(c) \/ Held(c)
    BY <2>0, <2>1 DEF Legacy, Held, Pending
  <2>2. CASE Submitted(c)
    <3> DEFINE m == Command("combat_event", EventId(c), c, 0)
    <3>1. m \in Sendable /\ m.event_id = EventId(c)
      BY SendableTypes, CommandFields
    <3>2. commands' = Append(commands, m) /\ pending_events' = pending_events \cup {EventId(c)}
      BY <2>2 DEF Submitted
    <3> HIDE DEF m
    <3>3. \A id : Named(commands', id) <=> Named(commands, id) \/ id = EventId(c)
      BY <1>0, <3>1, <3>2, NamedAppend
    <3>4. ~Bears(request, EventId(c))
      BY <2>0, BearsIsAsked DEF Types, Carriers
    <3>5. judged \subseteq Contacts /\ EventId(c) \in EventIds
      BY EventIdType DEF Types, AppTypes
    <3>6. ~Named(sam_events, EventId(c))
      BY <2>0, <3>5, IdIsHits DEF Pending
    <3> QED
      BY <2>0, <3>2, <3>3, <3>5, <3>6 DEF Pending
  <2> QED
    BY <1>2, <2>1, <2>2 DEF Judging
<1>3. CASE Asking
  <2>1. PICK kind \in {"pull", "combat_catalog"} : commands' = Append(commands, Command(kind, None, None, 0))
    BY <1>3 DEF Asking
  <2>2. Command(kind, None, None, 0) \in Sendable /\ Command(kind, None, None, 0).event_id = None
    BY SendableTypes, CommandFields
  <2> QED
    BY <1>3, <2>1, <2>2, NamelessCommand DEF Asking
<1>4. CASE Pushing
  <2>1. /\ Command("sync", None, hit_event, current_hp) \in Sendable
        /\ Command("sync", None, hit_event, current_hp).event_id = None
    BY <1>0, SendableTypes, CommandFields
  <2> QED
    BY <1>4, <2>1, NamelessCommand DEF Pushing
<1>5. CASE RemoteChange
  BY <1>5, RemoteSteps DEF Types, Pending
<1> QED
  BY <1>1, <1>2, <1>3, <1>4, <1>5, PendingHandling, PendingWorking, PendingAnswering, Steps DEF Types, HintInv

PendingInv == Types /\ Carriers /\ Pending

LEMMA InitPending == Init => PendingInv
<1> SUFFICES ASSUME Init PROVE PendingInv
  OBVIOUS
<1>1. /\ Types /\ Carriers
  BY InitHits DEF HitInv
<1>2. /\ commands = <<>> /\ request = None /\ sam_events = <<>> /\ pending_events = {}
      /\ answered = [id \in EventIds |-> None]
  BY DEF Init
<1>3. /\ \A id : ~Named(commands, id) /\ ~Bears(request, id) /\ ~Named(sam_events, id)
      /\ Orderly(sam_events)
  BY <1>2 DEF Named, Bears, Orderly
<1>4. Pending
  BY <1>2, <1>3 DEF Pending
<1> QED
  BY <1>1, <1>4 DEF PendingInv

(* What the desktop waits for, in every reachable state. *)
LEMMA PendingInvariance == Spec => []PendingInv
<1>1. PendingInv /\ [Next]_vars => PendingInv'
  BY NextTypes, CarriersStep, PendingStep DEF PendingInv
<1> QED
  BY InitPending, <1>1, PTL DEF Spec

(* The desktop waits for exactly the events that are queued, with the       *)
(* worker, or told of and not handled: a failure carries the id of its      *)
(* command, so that the wait for it ends as well (app.py:1212-1216, 1379).  *)
THEOREM WaitsAreCarried == Spec => []PendingIsCarried
<1>1. PendingInv => PendingIsCarried
  <2> SUFFICES ASSUME PendingInv PROVE pending_events = Carried \ {None}
    BY DEF PendingIsCarried
  <2>0. commands \in Seq(Sendable) /\ sam_events \in Seq(Events)
    BY DEF PendingInv, Types, ClientTypes
  <2>1. /\ \A id : Named(commands, id) <=> id \in {commands[i].event_id : i \in 1 .. Len(commands)}
        /\ \A id : Named(sam_events, id) <=> id \in {sam_events[i].event_id : i \in 1 .. Len(sam_events)}
        /\ \A id : Bears(request, id) <=> id \in IF request = None THEN {} ELSE {request.command.event_id}
    BY <2>0 DEF Named, Bears
  <2>2. \A id : id \in Carried <=> Named(commands, id) \/ Bears(request, id) \/ Named(sam_events, id)
    BY <2>1 DEF Carried
  <2>3. \A i \in DOMAIN commands : commands[i].event_id \in EventIds \cup {None}
    <3>1. \A m \in Sendable : m.event_id \in EventIds \cup {None}
      BY DEF Sendable, CommandType
    <3> QED
      BY <2>0, <3>1, Appended
  <2>4. \A i \in DOMAIN sam_events : sam_events[i].event_id \in EventIds \cup {None}
    <3>1. \A e \in Events : e.event_id \in EventIds \cup {None}
      BY DEF Events
    <3> QED
      BY <2>0, <3>1, Appended
  <2>5. request # None => request.command.event_id \in EventIds \cup {None}
    BY RequestTypes DEF PendingInv, Types
  <2>6. \A id : Named(commands, id) \/ Bears(request, id) \/ Named(sam_events, id) => id \in EventIds \cup {None}
    BY <2>3, <2>4, <2>5 DEF Named, Bears
  <2>7. \A id \in EventIds : id # None
    BY IdIsHits
  <2> QED
    BY <2>2, <2>6, <2>7 DEF PendingInv, Pending
<1> QED
  BY <1>1, PendingInvariance, PTL
----------------------------------------------------------------------------
(* Revisions.  What Sam.py has said was so at its revision: hit points of   *)
(* the present revision are the present hit points.                         *)
IsTrue(r, s) == r.revision <= s.revision /\ (r.revision = s.revision => r.hp = s.hp)

Replied ==
    /\ request # None /\ request.reply # None => IsTrue(request.reply, server) /\ request.reply.revision >= last_revision
    /\ \A i \in DOMAIN sam_events : sam_events[i].ok => IsTrue(sam_events[i].reply, server)
    /\ \A id \in EventIds : answered[id] # None => IsTrue(answered[id], server)
    /\ last_revision <= server.revision
    /\ request # None /\ request.command.kind = "poll" => request.after \in {last_revision, Unknown}

(* An event that is asked for a second time was answered after the cursor   *)
(* was last moved: one request at a time moves it.                          *)
AnsweredLately ==
    /\ request # None /\ request.command.kind = "combat_event" /\ answered[request.command.event_id] # None
          => answered[request.command.event_id].revision >= last_revision
    /\ \A id \in EventIds : Named(commands, id) => answered[id] = None
    /\ \A c \in Contacts \ judged : answered[EventId(c)] = None

(* A revision means hit points, and only grows. *)
ServerGrows ==
    /\ server'.revision \in {server.revision, server.revision + 1}
    /\ server'.revision = server.revision => server'.hp = server.hp

LEMMA TruthStays ==
    ASSUME ServerTypes, ServerGrows, NEW r \in Replies, IsTrue(r, server)
    PROVE  IsTrue(r, server')
<1>1. r.revision \in Nat /\ server.revision \in Nat
  BY ReplyTypes DEF ServerTypes
<1> QED
  BY <1>1 DEF IsTrue, ServerGrows

LEMMA Growing ==
    ASSUME HintTypes, ClientTypes, ServerTypes, [Next]_vars
    PROVE  ServerGrows
<1>0. server.revision \in Nat
  BY DEF ServerTypes
<1>1. CASE UNCHANGED server
  BY <1>1 DEF ServerGrows
<1>2. CASE RemoteChange
  BY <1>2, RemoteSteps DEF ServerGrows
<1>3. CASE Serve
  <2>1. PICK r \in Replies : CacheHit(r) \/ FirstServed(r) \/ SyncServed(r) \/ ReadServed(r)
    BY <1>3, Serving
  <2>2. CASE server' = WithHp(r.hp)
    <3>1. r.hp \in 0 .. MaxHp
      BY ReplyTypes
    <3>2. /\ server'.hp = r.hp
          /\ server'.revision = IF r.hp = server.hp THEN server.revision ELSE server.revision + 1
      BY <2>2, <3>1, WithHpType
    <3> QED
      BY <1>0, <3>2 DEF ServerGrows
  <2> QED
    BY <1>1, <2>1, <2>2 DEF CacheHit, FirstServed, SyncServed, ReadServed
<1> QED
  BY <1>1, <1>2, <1>3, ServerSteps

LEMMA OkEvent ==
    ASSUME ClientTypes, NEW i \in DOMAIN sam_events
    PROVE  sam_events[i] \in Events /\ (sam_events[i].ok => sam_events[i].reply \in Replies /\ sam_events[i].reply # None)
<1>1. sam_events \in Seq(Events)
  BY DEF ClientTypes
<1>2. sam_events[i] \in Events
  BY <1>1, Appended
<1> QED
  BY <1>2 DEF Events

(* All that was said stays true, while the request is what it was. *)
LEMMA RepliedKept ==
    ASSUME Types, Replied, ServerGrows, UNCHANGED <<request, sam_events, answered, last_revision>>
    PROVE  Replied'
<1> USE DEF Types
<1>0. server.revision \in Nat /\ last_revision \in Nat \cup {Unknown}
  BY DEF ServerTypes, ClientTypes
<1>1. request # None /\ request.reply # None => IsTrue(request.reply, server')
  BY TruthStays, RequestTypes DEF Replied
<1>2. \A i \in DOMAIN sam_events : sam_events[i].ok => IsTrue(sam_events[i].reply, server')
  BY TruthStays, OkEvent DEF Replied
<1>3. \A id \in EventIds : answered[id] # None => IsTrue(answered[id], server')
  BY TruthStays DEF Replied, ServerTypes
<1>4. last_revision <= server'.revision
  BY <1>0 DEF ServerGrows, Replied, Unknown
<1> QED
  BY <1>1, <1>2, <1>3, <1>4 DEF Replied

LEMMA RepliedWorking ==
    ASSUME Types, Replied, Working
    PROVE  Replied'
<1> USE DEF Types
<1>0. UNCHANGED <<answered, server>>
  BY DEF Working, sampy
<1>1. CASE TakeCommand
  <2>1. /\ commands # <<>> /\ request'.command = Head(commands) /\ request'.reply = None
        /\ UNCHANGED <<last_revision, sam_events>>
    BY <1>1, Taking
  <2>2. request'.after = Unknown
    BY <1>1 DEF TakeCommand, Post
  <2> QED
    BY <1>0, <2>1, <2>2 DEF Replied
<1>2. CASE Poll
  <2>1. request'.reply = None /\ request'.after \in {last_revision, Unknown} /\ UNCHANGED <<last_revision, sam_events>>
    BY <1>2, Polling
  <2> QED
    BY <1>0, <2>1 DEF Replied
<1>3. CASE Receive
  <2>1. /\ request # None /\ request.reply \in Replies /\ request.reply # None /\ request' = None
        /\ last_revision' \in {request.reply.revision, last_revision}
    BY <1>3, Receiving, ReplyTypes
  <2>2. IsTrue(request.reply, server)
    BY <2>1 DEF Replied
  <2>3. last_revision' <= server.revision
    BY <2>1, <2>2 DEF IsTrue, Replied
  <2>4. \A i \in DOMAIN sam_events' : sam_events'[i].ok => IsTrue(sam_events'[i].reply, server)
    <3>1. CASE UNCHANGED sam_events
      BY <3>1 DEF Replied
    <3>2. CASE sam_events' = Append(sam_events, Told)
      <4>1. sam_events \in Seq(Events) /\ Told \in Events
        BY <2>1, ToldType DEF ClientTypes
      <4>2. IsTrue(Told.reply, server)
        BY <2>2 DEF Told
      <4> HIDE DEF Told
      <4>3. \A i \in DOMAIN sam_events' : \/ i \in DOMAIN sam_events /\ sam_events'[i] = sam_events[i]
                                          \/ sam_events'[i] = Told
        BY <3>2, <4>1, Appended
      <4> QED
        BY <4>2, <4>3 DEF Replied
    <3> QED
      BY <1>3, <3>1, <3>2, Receiving
  <2> QED
    BY <1>0, <2>1, <2>3, <2>4 DEF Replied
<1>4. CASE Fail
  <2>1. request # None /\ request.command.kind # "sync" /\ UNCHANGED last_revision /\ (Retried \/ GivenUp)
    BY <1>4, Failing
  <2>2. CASE Retried
    BY <1>0, <2>1, <2>2 DEF Retried, Replied
  <2>3. CASE GivenUp
    <3>1. request' = None
      BY <2>3 DEF GivenUp
    <3>2. \A i \in DOMAIN sam_events' : sam_events'[i].ok => IsTrue(sam_events'[i].reply, server)
      <4>1. CASE UNCHANGED sam_events
        BY <4>1 DEF Replied
      <4>2. CASE request.command.kind # "poll"
        <5> DEFINE e == [kind |-> request.command.kind, ok |-> FALSE, event_id |-> request.command.event_id,
                         reply |-> None]
        <5>1. e \in Events /\ sam_events \in Seq(Events)
          BY <2>1, <4>2, FailureType DEF ClientTypes
        <5>2. ~e.ok
          OBVIOUS
        <5>3. sam_events' = Append(sam_events, e)
          BY <2>3, <4>2 DEF GivenUp
        <5> HIDE DEF e
        <5>4. \A i \in DOMAIN sam_events' : \/ i \in DOMAIN sam_events /\ sam_events'[i] = sam_events[i]
                                            \/ sam_events'[i] = e
          BY <5>1, <5>3, Appended
        <5> QED
          BY <5>2, <5>4 DEF Replied
      <4> QED
        BY <2>3, <4>1, <4>2 DEF GivenUp
    <3> QED
      BY <1>0, <2>1, <3>1, <3>2 DEF Replied
  <2> QED
    BY <2>1, <2>2, <2>3
<1> QED
  BY <1>1, <1>2, <1>3, <1>4 DEF Working, Worker

LEMMA RepliedAnswering ==
    ASSUME Types, Replied, AnsweredLately, ServerGrows, Answering
    PROVE  Replied'
<1> USE DEF Types
<1>1. Serve /\ UNCHANGED <<sam_events, last_revision>>
  BY DEF Answering
<1>2. PICK r \in Replies : /\ request' = [request EXCEPT !.reply = r]
                           /\ CacheHit(r) \/ FirstServed(r) \/ SyncServed(r) \/ ReadServed(r)
  BY <1>1, Serving
<1>3. /\ request # None /\ request.command \in Sendable /\ r # None
      /\ request'.command = request.command /\ request'.reply = r /\ request'.after = request.after
  BY <1>1, <1>2, Serving, Answered, ReplyTypes, RequestTypes
<1>4. /\ server.revision \in Nat /\ last_revision \in Nat \cup {Unknown} /\ r.revision \in Nat
      /\ r.hp \in 0 .. MaxHp /\ answered \in [EventIds -> Replies \cup {None}]
  BY ReplyTypes DEF ServerTypes, ClientTypes
<1>5. last_revision <= server'.revision
  BY <1>4 DEF ServerGrows, Replied, Unknown
<1>6. \A i \in DOMAIN sam_events : sam_events[i].ok => IsTrue(sam_events[i].reply, server')
  BY TruthStays, OkEvent DEF Replied
<1>7. \A id \in EventIds : answered[id] # None => IsTrue(answered[id], server')
  BY <1>4, TruthStays DEF Replied
<1>8. /\ IsTrue(r, server') /\ r.revision >= last_revision
      /\ \A id \in EventIds : answered'[id] # None => IsTrue(answered'[id], server')
  <2>1. CASE CacheHit(r)
    <3>1. request.command.event_id \in EventIds
      BY <1>3, <2>1, EventIdType DEF CacheHit, Sendable
    <3>2. r = answered[request.command.event_id] /\ UNCHANGED answered /\ request.command.kind = "combat_event"
      BY <2>1 DEF CacheHit
    <3> QED
      BY <1>3, <1>7, <3>1, <3>2 DEF AnsweredLately
  <2>2. CASE FirstServed(r)
    <3>1. server' = WithHp(r.hp) /\ r.revision = server'.revision /\ answered' = [answered EXCEPT ![request.command.event_id] = r]
      BY <2>2 DEF FirstServed
    <3>2. server'.hp = r.hp
      BY <1>4, <3>1, WithHpType
    <3>3. IsTrue(r, server') /\ r.revision >= last_revision
      BY <1>4, <1>5, <3>1, <3>2 DEF IsTrue, Unknown
    <3>4. \A id \in EventIds : answered'[id] \in {r, answered[id]}
      BY <1>4, <3>1
    <3> QED
      BY <1>7, <3>3, <3>4
  <2>3. CASE SyncServed(r)
    <3>1. server' = WithHp(r.hp) /\ r.revision = server'.revision /\ UNCHANGED answered
      BY <2>3 DEF SyncServed
    <3>2. server'.hp = r.hp
      BY <1>4, <3>1, WithHpType
    <3>3. IsTrue(r, server') /\ r.revision >= last_revision
      BY <1>4, <1>5, <3>1, <3>2 DEF IsTrue, Unknown
    <3> QED
      BY <1>7, <3>1, <3>3
  <2>4. CASE ReadServed(r)
    <3>1. r.hp = server.hp /\ r.revision = server.revision /\ UNCHANGED <<server, answered>>
      BY <2>4 DEF ReadServed
    <3>2. IsTrue(r, server') /\ r.revision >= last_revision
      BY <1>4, <1>5, <3>1 DEF IsTrue, Unknown
    <3> QED
      BY <1>7, <3>1, <3>2
  <2> QED
    BY <1>2, <2>1, <2>2, <2>3, <2>4
<1>9. request'.command.kind = "poll" => request'.after \in {last_revision', Unknown}
  BY <1>1, <1>3 DEF Replied
<1> QED
  BY <1>1, <1>3, <1>5, <1>6, <1>8, <1>9 DEF Replied

LEMMA RepliedStep ==
    ASSUME Types, Replied, AnsweredLately, [Next]_vars
    PROVE  Replied'
<1> USE DEF worker, sampy
<1>1. ServerGrows
  BY Growing DEF Types, HintInv
<1>2. CASE Idle \/ Asking \/ Pushing \/ RemoteChange \/ \E c \in Contacts : Judging(c)
  <2>1. UNCHANGED <<request, sam_events, answered, last_revision>>
    BY <1>2, RemoteSteps DEF Types, Idle, Asking, Pushing, Judging
  <2> QED
    BY <1>1, <2>1, RepliedKept
<1>3. CASE Handling
  <2>1. /\ sam_events # <<>> /\ sam_events \in Seq(Events) /\ sam_events' = Tail(sam_events)
        /\ UNCHANGED <<request, answered, last_revision, server>>
    BY <1>3 DEF Handling, HandleSamEvent, Types, ClientTypes
  <2>2. \A i \in DOMAIN sam_events' : i + 1 \in DOMAIN sam_events /\ sam_events'[i] = sam_events[i + 1]
    BY <2>1, Tailed
  <2> QED
    BY <2>1, <2>2 DEF Replied
<1> QED
  BY <1>1, <1>2, <1>3, RepliedWorking, RepliedAnswering, Steps DEF Types, HintInv

LEMMA NamelessLately ==
    ASSUME Types, AnsweredLately, NEW m \in Sendable, m.event_id = None, commands' = Append(commands, m),
           UNCHANGED <<judged, request, answered, last_revision>>
    PROVE  AnsweredLately'
<1>1. commands \in Seq(Sendable)
  BY DEF Types, ClientTypes
<1>2. \A id \in EventIds : Named(commands', id) <=> Named(commands, id)
  BY <1>1, NamedAppend, IdIsHits
<1> QED
  BY <1>2 DEF AnsweredLately

LEMMA AnsweredLatelyStep ==
    ASSUME Types, Carriers, Replied, AnsweredLately, [Next]_vars
    PROVE  AnsweredLately'
<1> USE DEF desktop, worker, sampy
<1>0. /\ commands \in Seq(Sendable) /\ hit_event \in Contacts \cup {None} /\ current_hp \in 0 .. MaxHp
      /\ judged \subseteq Contacts
  BY DEF Types, ClientTypes, AppTypes
<1>1. CASE Idle \/ Handling \/ RemoteChange
  <2>1. UNCHANGED <<judged, commands, request, answered, last_revision>>
    BY <1>1, RemoteSteps DEF Types, Idle, Handling
  <2> QED
    BY <2>1 DEF AnsweredLately
<1>2. ASSUME NEW c \in Contacts, Judging(c) PROVE AnsweredLately'
  <2>0. c \notin judged /\ judged' = judged \cup {c} /\ UNCHANGED <<request, last_revision, answered>>
    BY <1>2 DEF Judging
  <2>1. CASE Legacy(c) \/ Held(c)
    BY <2>0, <2>1 DEF Legacy, Held, AnsweredLately
  <2>2. CASE Submitted(c)
    <3> DEFINE m == Command("combat_event", EventId(c), c, 0)
    <3>1. m \in Sendable /\ m.event_id = EventId(c)
      BY SendableTypes, CommandFields
    <3>2. commands' = Append(commands, m)
      BY <2>2 DEF Submitted
    <3> HIDE DEF m
    <3>3. \A id : Named(commands', id) <=> Named(commands, id) \/ id = EventId(c)
      BY <1>0, <3>1, <3>2, NamedAppend
    <3> QED
      BY <2>0, <3>3 DEF AnsweredLately
  <2> QED
    BY <1>2, <2>1, <2>2 DEF Judging
<1>3. CASE Asking
  <2>1. PICK kind \in {"pull", "combat_catalog"} : commands' = Append(commands, Command(kind, None, None, 0))
    BY <1>3 DEF Asking
  <2>2. Command(kind, None, None, 0) \in Sendable /\ Command(kind, None, None, 0).event_id = None
    BY SendableTypes, CommandFields
  <2> QED
    BY <1>3, <2>1, <2>2, NamelessLately DEF Asking
<1>4. CASE Pushing
  <2>1. /\ Command("sync", None, hit_event, current_hp) \in Sendable
        /\ Command("sync", None, hit_event, current_hp).event_id = None
    BY <1>0, SendableTypes, CommandFields
  <2> QED
    BY <1>4, <2>1, NamelessLately DEF Pushing
<1>5. CASE Working
  <2>0. UNCHANGED <<judged, answered>>
    BY <1>5 DEF Working
  <2>1. CASE TakeCommand
    <3>1. /\ commands # <<>> /\ commands' = Tail(commands) /\ request'.command = Head(commands)
          /\ Head(commands) \in Sendable /\ last_revision' = last_revision
      BY <2>1, Taking DEF Types
    <3>2. \A id : Named(commands, id) <=> Head(commands).event_id = id \/ Named(commands', id)
      BY <1>0, <3>1, NamedTail
    <3>3. Head(commands).kind = "combat_event" => Head(commands).event_id \in EventIds
      BY <3>1, EventIdType DEF Sendable
    <3> QED
      BY <2>0, <3>1, <3>2, <3>3 DEF AnsweredLately
  <2>2. CASE Poll
    <3>1. commands' = commands /\ request'.command.kind = "poll"
      BY <2>2, Polling, CommandFields DEF Types, PollCommand
    <3> QED
      BY <2>0, <3>1 DEF AnsweredLately
  <2>3. CASE Receive
    <3>1. commands' = commands /\ request' = None
      BY <2>3, Receiving DEF Types
    <3> QED
      BY <2>0, <3>1 DEF AnsweredLately
  <2>4. CASE Fail
    <3>1. /\ commands' = commands /\ request # None /\ last_revision' = last_revision
          /\ request' = None \/ request'.command = request.command
      BY <2>4, Failing DEF Types, Retried, GivenUp
    <3> QED
      BY <2>0, <3>1 DEF AnsweredLately
  <2> QED
    BY <1>5, <2>1, <2>2, <2>3, <2>4 DEF Working, Worker
<1>6. CASE Answering
  <2>1. Serve /\ UNCHANGED <<judged, commands, last_revision>>
    BY <1>6 DEF Answering
  <2>2. PICK r \in Replies : /\ request' = [request EXCEPT !.reply = r]
                             /\ CacheHit(r) \/ FirstServed(r) \/ SyncServed(r) \/ ReadServed(r)
    BY <2>1, Serving DEF Types
  <2>3. request # None /\ request.command \in Sendable /\ request'.command = request.command
    BY <2>1, <2>2, Serving, Answered, RequestTypes DEF Types
  <2>4. CASE CacheHit(r) \/ SyncServed(r) \/ ReadServed(r)
    BY <2>1, <2>3, <2>4 DEF CacheHit, SyncServed, ReadServed, AnsweredLately
  <2>5. CASE FirstServed(r)
    <3> DEFINE c == request.command.contact
               id == request.command.event_id
    <3>1. c \in Contacts /\ id = EventId(c) /\ id \in EventIds
      BY <2>3, <2>5, EventIdType DEF FirstServed, Sendable
    <3>2. Asked(request, c)
      BY <2>3 DEF Asked
    <3>3. c \in judged /\ ~Queued(commands, c)
      BY <3>1, <3>2 DEF Carriers
    <3>4. ~Named(commands, id)
      BY <1>0, <3>1, <3>3, NamedIsQueued
    <3>5. answered' = [answered EXCEPT ![id] = r] /\ answered \in [EventIds -> Replies \cup {None}]
      BY <2>5 DEF FirstServed, Types, ServerTypes
    <3>6. \A i \in EventIds : answered'[i] = IF i = id THEN r ELSE answered[i]
      BY <3>5
    <3>7. r.revision >= last_revision
      <4>1. r.revision = server'.revision /\ last_revision <= server.revision
        BY <2>5 DEF FirstServed, Replied
      <4>2. server.revision \in Nat /\ last_revision \in Nat \cup {Unknown}
        BY DEF Types, ServerTypes, ClientTypes
      <4> QED
        BY <4>1, <4>2, Growing DEF ServerGrows, Types, HintInv, Unknown
    <3>8. \A d \in Contacts \ judged : EventId(d) # id
      BY <3>1, <3>3, IdIsHits
    <3>9. \A d \in Contacts \ judged' : answered'[EventId(d)] = None
      BY <2>1, <3>6, <3>8, EventIdType DEF AnsweredLately
    <3>10. \A i \in EventIds : Named(commands', i) => answered'[i] = None
      BY <2>1, <3>4, <3>6 DEF AnsweredLately
    <3>11. request'.command.event_id = id /\ answered'[id] = r
      BY <2>3, <3>1, <3>6
    <3> QED
      BY <2>1, <3>7, <3>9, <3>10, <3>11 DEF AnsweredLately
  <2> QED
    BY <2>2, <2>4, <2>5
<1> QED
  BY <1>1, <1>2, <1>3, <1>4, <1>5, <1>6, Steps DEF Types, HintInv
----------------------------------------------------------------------------
(* Hit points.  A complete state that the worker has told of moved the      *)
(* cursor to its revision.                                                  *)
Brings(e, revision) == e.ok /\ e.kind \in {"sync", "poll", "pull"} /\ e.reply.revision = revision

Overtaken(e, revision) == e.ok /\ e.kind # "combat_catalog" /\ e.reply.revision < revision

Shows(s, revision) == \E j \in DOMAIN s : Brings(s[j], revision)

(* Hit points that are older than the cursor are followed by those of it.   *)
PutRight(s, revision) ==
    \A i \in DOMAIN s : Overtaken(s[i], revision) => \E j \in DOMAIN s : j > i /\ Brings(s[j], revision)

(* The desktop shows the hit points of the server, or waits to be told, or  *)
(* has a change of its own under way.                                       *)
Follows ==
    last_revision = server.revision =>
       current_hp = server.hp \/ sam_local_dirty \/ sam_sync_inflight \/ Shows(sam_events, last_revision)

LEMMA ShowsAppend ==
    ASSUME NEW S, NEW s \in Seq(S), NEW e \in S, NEW revision
    PROVE  /\ Shows(s, revision) \/ Brings(e, revision) => Shows(Append(s, e), revision)
           /\ /\ ~Overtaken(e, revision)
              /\ PutRight(s, revision) \/ Brings(e, revision)
              => PutRight(Append(s, e), revision)
<1> DEFINE t == Append(s, e)
           n == Len(s) + 1
<1>1. /\ \A i \in DOMAIN s : i \in DOMAIN t /\ t[i] = s[i] /\ n > i
      /\ n \in DOMAIN t /\ t[n] = e
      /\ \A i \in DOMAIN t : i \in DOMAIN s \/ i = n
  BY Appended
<1> HIDE DEF t, n
<1>2. Shows(s, revision) \/ Brings(e, revision) => Shows(t, revision)
  BY <1>1 DEF Shows
<1>3. ASSUME ~Overtaken(e, revision), PutRight(s, revision) \/ Brings(e, revision) PROVE PutRight(t, revision)
  BY <1>1, <1>3 DEF PutRight
<1> QED
  BY <1>2, <1>3 DEF t

LEMMA ShowsTail ==
    ASSUME NEW S, NEW s \in Seq(S), s # <<>>, NEW revision
    PROVE  /\ Shows(s, revision) => Brings(Head(s), revision) \/ Shows(Tail(s), revision)
           /\ PutRight(s, revision) =>
                 PutRight(Tail(s), revision) /\ (Overtaken(Head(s), revision) => Shows(Tail(s), revision))
<1> DEFINE t == Tail(s)
<1>1. /\ 1 \in DOMAIN s /\ Head(s) = s[1]
      /\ \A i \in DOMAIN t : i \in Nat /\ i + 1 \in DOMAIN s /\ t[i] = s[i + 1]
      /\ \A i \in DOMAIN s : i \in Nat /\ (i = 1 \/ (i - 1 \in DOMAIN t /\ t[i - 1] = s[i]))
  BY Tailed
<1> HIDE DEF t
<1>2. Shows(s, revision) => Brings(Head(s), revision) \/ Shows(t, revision)
  BY <1>1 DEF Shows
<1>3. ASSUME PutRight(s, revision), NEW i \in DOMAIN t, Overtaken(t[i], revision)
      PROVE  \E j \in DOMAIN t : j > i /\ Brings(t[j], revision)
  <2>1. PICK j \in DOMAIN s : j > i + 1 /\ Brings(s[j], revision)
    BY <1>1, <1>3 DEF PutRight
  <2>2. j # 1 /\ i \in Nat /\ j \in Nat
    BY <1>1, <2>1
  <2>3. j - 1 \in DOMAIN t /\ t[j - 1] = s[j] /\ j - 1 > i
    BY <1>1, <2>1, <2>2
  <2> QED
    BY <2>1, <2>3
<1>4. ASSUME PutRight(s, revision), Overtaken(Head(s), revision) PROVE Shows(t, revision)
  <2>1. PICK j \in DOMAIN s : j > 1 /\ Brings(s[j], revision)
    BY <1>1, <1>4 DEF PutRight
  <2>2. j - 1 \in DOMAIN t /\ t[j - 1] = s[j]
    BY <1>1, <2>1
  <2> QED
    BY <2>1, <2>2 DEF Shows
<1> QED
  BY <1>2, <1>3, <1>4 DEF t, PutRight

(* A state that the worker has told of is the one the cursor is at; and an  *)
(* outcome is not older than the cursor.                                    *)
LEMMA Telling ==
    ASSUME Types, Replied, Receive
    PROVE  /\ request # None /\ request.reply \in Replies /\ sam_events \in Seq(Events)
           /\ \/ UNCHANGED <<sam_events, last_revision>>
              \/ /\ sam_events' = Append(sam_events, Told) /\ Told \in Events
                 /\ ~Overtaken(Told, last_revision')
                 /\ Brings(Told, last_revision') \/ UNCHANGED last_revision
<1>1. /\ request # None /\ request.reply \in Replies /\ request.reply # None /\ sam_events \in Seq(Events)
      /\ request.reply.revision \in Nat /\ last_revision \in Nat \cup {Unknown} /\ request.command.kind \in Kinds
  BY Receiving, ReplyTypes, RequestTypes DEF Types, ClientTypes
<1>2. last_revision' = IF request.command.kind \in {"sync", "poll", "pull"} THEN request.reply.revision ELSE last_revision
  BY Receiving DEF Types
<1>3. CASE request.command.kind = "poll" /\ request.reply.revision = request.after /\ UNCHANGED sam_events
  <2>1. request.after \in {last_revision, Unknown}
    BY <1>1, <1>3 DEF Replied
  <2>2. request.reply.revision = last_revision
    BY <1>1, <1>3, <2>1 DEF Unknown
  <2> QED
    BY <1>1, <1>2, <1>3, <2>2
<1>4. CASE sam_events' = Append(sam_events, Told)
  <2>1. Told \in Events
    BY <1>1, ToldType DEF Types
  <2>2. Told.kind = request.command.kind /\ Told.ok /\ Told.reply = request.reply
    BY DEF Told
  <2> HIDE DEF Told
  <2>3. CASE request.command.kind \in {"sync", "poll", "pull"}
    <3>1. last_revision' = Told.reply.revision /\ Told.reply.revision \in Nat
      BY <1>1, <1>2, <2>2, <2>3
    <3>2. Brings(Told, last_revision')
      BY <2>2, <2>3, <3>1 DEF Brings
    <3>3. ~Overtaken(Told, last_revision')
      BY <3>1 DEF Overtaken
    <3> QED
      BY <1>1, <1>4, <2>1, <3>2, <3>3
  <2>4. CASE request.command.kind \in {"combat_event", "combat_catalog"}
    <3>1. last_revision' = last_revision
      BY <1>2, <2>4
    <3>2. request.reply.revision >= last_revision
      BY <1>1 DEF Replied
    <3>3. ~Overtaken(Told, last_revision')
      BY <1>1, <2>2, <3>1, <3>2 DEF Overtaken, Unknown
    <3> QED
      BY <1>1, <1>4, <2>1, <3>1, <3>3
  <2> QED
    BY <1>1, <2>3, <2>4 DEF Kinds
<1> QED
  BY <1>3, <1>4, Receiving DEF Types

(* A failure is told of without hit points. *)
LEMMA Missing ==
    ASSUME Types, Fail
    PROVE  /\ UNCHANGED last_revision /\ sam_events \in Seq(Events)
           /\ \/ UNCHANGED sam_events
              \/ \E e \in Events : sam_events' = Append(sam_events, e) /\ ~e.ok
<1>1. /\ request # None /\ request.command.kind # "sync" /\ UNCHANGED last_revision /\ (Retried \/ GivenUp)
  BY Failing DEF Types
<1>2. sam_events \in Seq(Events)
  BY DEF Types, ClientTypes
<1>3. CASE request.command.kind # "poll" /\ GivenUp
  <2> DEFINE e == [kind |-> request.command.kind, ok |-> FALSE, event_id |-> request.command.event_id, reply |-> None]
  <2>1. e \in Events
    BY <1>1, <1>3, FailureType DEF Types
  <2>2. ~e.ok
    OBVIOUS
  <2>3. sam_events' = Append(sam_events, e)
    BY <1>3 DEF GivenUp
  <2> HIDE DEF e
  <2> QED
    BY <1>1, <1>2, <2>1, <2>2, <2>3
<1> QED
  BY <1>1, <1>2, <1>3 DEF Retried, GivenUp

LEMMA PutRightStep ==
    ASSUME Types, Replied, PutRight(sam_events, last_revision), [Next]_vars
    PROVE  PutRight(sam_events', last_revision')
<1> USE DEF worker
<1>1. CASE UNCHANGED <<sam_events, last_revision>>
  BY <1>1
<1>2. CASE Handling
  <2>1. /\ sam_events # <<>> /\ sam_events \in Seq(Events) /\ sam_events' = Tail(sam_events)
        /\ UNCHANGED last_revision
    BY <1>2 DEF Handling, HandleSamEvent, Types, ClientTypes
  <2> QED
    BY <2>1, ShowsTail
<1>3. CASE Receive
  <2>1. CASE /\ sam_events' = Append(sam_events, Told) /\ Told \in Events /\ sam_events \in Seq(Events)
             /\ ~Overtaken(Told, last_revision')
             /\ Brings(Told, last_revision') \/ UNCHANGED last_revision
    <3> HIDE DEF Told
    <3> QED
      BY <2>1, ShowsAppend
  <2> QED
    BY <1>1, <1>3, <2>1, Telling
<1>4. CASE Fail
  <2>1. CASE \E e \in Events : sam_events' = Append(sam_events, e) /\ ~e.ok
    <3>1. PICK e \in Events : sam_events' = Append(sam_events, e) /\ ~e.ok
      BY <2>1
    <3>2. ~Overtaken(e, last_revision)
      BY <3>1 DEF Overtaken
    <3>3. last_revision' = last_revision /\ sam_events \in Seq(Events)
      BY <1>4, Missing
    <3> QED
      BY <3>1, <3>2, <3>3, ShowsAppend
  <2> QED
    BY <1>1, <1>4, <2>1, Missing
<1>5. CASE TakeCommand \/ Poll
  BY <1>1, <1>5, Taking, Polling DEF Types
<1>6. CASE Idle \/ Asking \/ Pushing \/ Answering \/ RemoteChange \/ \E c \in Contacts : Judging(c)
  <2>1. UNCHANGED <<sam_events, last_revision>>
    BY <1>6, RemoteSteps DEF Idle, Asking, Pushing, Answering, Judging, Types
  <2> QED
    BY <1>1, <2>1
<1> QED
  BY <1>2, <1>3, <1>4, <1>5, <1>6, Steps DEF Working, Worker, Types, HintInv

(* Hit points that are taken from what was told are the server's, or those  *)
(* of the cursor come after them.                                           *)
LEMMA FollowsHandling ==
    ASSUME Types, Replied, PutRight(sam_events, last_revision), Follows, Handling
    PROVE  Follows'
<1>0. /\ sam_events # <<>> /\ sam_events \in Seq(Events) /\ sam_events' = Tail(sam_events)
      /\ UNCHANGED <<last_revision, server>>
  BY DEF Handling, HandleSamEvent, Types, ClientTypes, sampy
<1> DEFINE event == Head(sam_events)
<1>1. HandleOutcome(event) \/ HandleCatalog(event) \/ HandleSynced(event) \/ HandlePolled(event) \/ HandlePulled(event)
  BY DEF Handling, HandleSamEvent
<1>2. event \in Events /\ event = sam_events[1] /\ 1 \in DOMAIN sam_events
  BY <1>0, Tailed
<1>3. event.ok => IsTrue(event.reply, server) /\ event.reply.revision \in Nat
  BY <1>2, OkEvent, ReplyTypes DEF Replied, Types
<1>4. /\ Shows(sam_events, last_revision) => Brings(event, last_revision) \/ Shows(sam_events', last_revision)
      /\ Overtaken(event, last_revision) => Shows(sam_events', last_revision)
  BY <1>0, ShowsTail
<1>5. server.revision \in Nat
  BY DEF Types, ServerTypes
<1>6. event.kind \in {"sync", "poll"} => event.ok
  BY <1>2 DEF Events
<1> HIDE DEF event
<1> SUFFICES ASSUME last_revision = server.revision
             PROVE  current_hp' = server.hp \/ sam_local_dirty' \/ sam_sync_inflight' \/ Shows(sam_events', last_revision)
  BY <1>0 DEF Follows
<1>7. CASE event.ok /\ event.kind # "combat_catalog" /\ current_hp' = event.reply.hp
  <2>1. event.reply.revision = server.revision => current_hp' = server.hp
    BY <1>3, <1>7 DEF IsTrue
  <2>2. event.reply.revision # server.revision => Overtaken(event, last_revision)
    BY <1>3, <1>5, <1>7 DEF IsTrue, Overtaken
  <2> QED
    BY <1>4, <2>1, <2>2
<1>8. CASE /\ current_hp' = current_hp /\ sam_local_dirty' = sam_local_dirty /\ sam_sync_inflight' = sam_sync_inflight
           /\ ~Brings(event, last_revision) \/ sam_local_dirty \/ sam_sync_inflight
  BY <1>0, <1>4, <1>8 DEF Follows
<1>9. CASE HandleOutcome(event)
  <2>1. event.kind = "combat_event" /\ sam_local_dirty' = sam_local_dirty /\ sam_sync_inflight' = sam_sync_inflight
    BY <1>9 DEF HandleOutcome
  <2>2. ~Brings(event, last_revision)
    BY <2>1 DEF Brings
  <2>3. current_hp' = current_hp \/ (event.ok /\ current_hp' = event.reply.hp)
    BY <1>9 DEF HandleOutcome
  <2> QED
    BY <1>7, <1>8, <2>1, <2>2, <2>3
<1>10. CASE HandleCatalog(event)
  <2>1. ~Brings(event, last_revision)
    BY <1>10 DEF HandleCatalog, Brings
  <2> QED
    BY <1>8, <1>10, <2>1 DEF HandleCatalog
<1>11. CASE HandleSynced(event)
  BY <1>6, <1>7, <1>11 DEF HandleSynced
<1>12. CASE HandlePolled(event)
  <2>1. CASE sam_local_dirty \/ sam_sync_inflight
    BY <1>8, <1>12, <2>1 DEF HandlePolled
  <2>2. CASE ~(sam_local_dirty \/ sam_sync_inflight)
    <3>1. event.kind = "poll" /\ current_hp' = event.reply.hp
      BY <1>12, <2>2 DEF HandlePolled
    <3> QED
      BY <1>6, <1>7, <3>1
  <2> QED
    BY <2>1, <2>2
<1>13. CASE HandlePulled(event)
  <2>1. CASE event.ok
    BY <1>7, <1>13, <2>1 DEF HandlePulled
  <2>2. CASE ~event.ok
    <3>1. ~Brings(event, last_revision)
      BY <2>2 DEF Brings
    <3> QED
      BY <1>8, <1>13, <2>2, <3>1 DEF HandlePulled
  <2> QED
    BY <2>1, <2>2
<1> QED
  BY <1>1, <1>9, <1>10, <1>11, <1>12, <1>13

LEMMA FollowsWorking ==
    ASSUME Types, Replied, Follows, Working
    PROVE  Follows'
<1>0. UNCHANGED <<server, current_hp, sam_local_dirty, sam_sync_inflight>>
  BY DEF Working, desktop, sampy
<1>1. CASE UNCHANGED <<sam_events, last_revision>>
  BY <1>0, <1>1 DEF Follows
<1>2. CASE TakeCommand \/ Poll
  BY <1>1, <1>2, Taking, Polling DEF Types
<1>3. CASE Receive
  <2>1. CASE /\ sam_events' = Append(sam_events, Told) /\ Told \in Events /\ sam_events \in Seq(Events)
             /\ Brings(Told, last_revision') \/ UNCHANGED last_revision
    <3> HIDE DEF Told
    <3> QED
      BY <1>0, <2>1, ShowsAppend DEF Follows
  <2> QED
    BY <1>1, <1>3, <2>1, Telling
<1>4. CASE Fail
  BY <1>0, <1>1, <1>4, Missing, ShowsAppend DEF Follows
<1> QED
  BY <1>2, <1>3, <1>4 DEF Working, Worker

LEMMA FollowsStep ==
    ASSUME Types, Replied, PutRight(sam_events, last_revision), Follows, [Next]_vars
    PROVE  Follows'
<1> USE DEF worker, sampy, desktop
<1>1. CASE Idle \/ Asking \/ Pushing \/ \E c \in Contacts : Judging(c)
  <2>1. /\ UNCHANGED <<sam_events, last_revision, server, current_hp>>
        /\ sam_local_dirty => sam_local_dirty'
        /\ sam_sync_inflight => sam_sync_inflight'
    <3>1. CASE Idle \/ Asking
      <4>1. /\ UNCHANGED <<sam_events, last_revision, server, current_hp>>
            /\ UNCHANGED sam_sync_inflight /\ (sam_local_dirty' = sam_local_dirty \/ sam_local_dirty' = TRUE)
        BY <3>1 DEF Idle, Asking, Stir
      <4> QED
        BY <4>1
    <3>2. CASE Pushing
      BY <3>2 DEF Pushing
    <3>3. CASE \E c \in Contacts : Judging(c)
      BY <3>3 DEF Judging, Legacy, Held, Submitted
    <3> QED
      BY <1>1, <3>1, <3>2, <3>3
  <2> QED
    BY <2>1 DEF Follows
<1>2. CASE Answering \/ RemoteChange
  <2>1. UNCHANGED <<sam_events, last_revision, current_hp, sam_local_dirty, sam_sync_inflight>>
    BY <1>2, RemoteSteps DEF Answering, Types
  <2>2. ServerGrows
    BY Growing DEF Types, HintInv
  <2>3. last_revision <= server.revision /\ server.revision \in Nat /\ last_revision \in Nat \cup {Unknown}
    BY DEF Replied, Types, ServerTypes, ClientTypes
  <2>4. last_revision' = server'.revision => last_revision = server.revision /\ server'.hp = server.hp
    BY <2>1, <2>2, <2>3 DEF ServerGrows, Unknown
  <2> QED
    BY <2>1, <2>4 DEF Follows
<1> QED
  BY <1>1, <1>2, FollowsHandling, FollowsWorking, Steps DEF Types, HintInv

MirrorInv ==
    /\ Types /\ Carriers /\ Replied /\ AnsweredLately
    /\ PutRight(sam_events, last_revision) /\ Follows

LEMMA InitMirror == Init => MirrorInv
<1> SUFFICES ASSUME Init PROVE MirrorInv
  OBVIOUS
<1>1. Types /\ Carriers
  BY InitHits DEF HitInv
<1>2. /\ commands = <<>> /\ request = None /\ sam_events = <<>> /\ last_revision = Unknown
      /\ answered = [id \in EventIds |-> None]
  BY DEF Init
<1>3. server.revision = 1
  BY DEF Init
<1>4. Replied /\ AnsweredLately
  BY <1>2, <1>3, EventIdType DEF Replied, AnsweredLately, Named, Unknown
<1>5. PutRight(sam_events, last_revision) /\ Follows
  BY <1>2, <1>3 DEF PutRight, Follows, Unknown
<1> QED
  BY <1>1, <1>4, <1>5 DEF MirrorInv

(* What the desktop knows of the server, in every reachable state. *)
LEMMA MirrorInvariance == Spec => []MirrorInv
<1>1. MirrorInv /\ [Next]_vars => MirrorInv'
  <2> SUFFICES ASSUME MirrorInv, [Next]_vars PROVE MirrorInv'
    OBVIOUS
  <2>1. Types' /\ Carriers' /\ Replied' /\ AnsweredLately' /\ Follows'
    BY NextTypes, CarriersStep, RepliedStep, AnsweredLatelyStep, FollowsStep DEF MirrorInv
  <2>2. PutRight(sam_events', last_revision')
    BY PutRightStep DEF MirrorInv
  <2> QED
    BY <2>1, <2>2 DEF MirrorInv
<1> QED
  BY InitMirror, <1>1, PTL DEF Spec

(* When nothing is under way and the cursor is at the server's revision,    *)
(* the desktop shows the server's hit points: an old outcome that a repeated *)
(* event was answered with has been put right by a later state (app.py:1220, *)
(* sam_client.py:382).                                                      *)
THEOREM MirrorIsRight == Spec => []MirrorFollows
<1>1. MirrorInv => MirrorFollows
  <2> SUFFICES ASSUME MirrorInv, sam_events = <<>>, ~sam_local_dirty, ~sam_sync_inflight,
                      last_revision = server.revision
               PROVE  current_hp = server.hp
    BY DEF MirrorFollows, Quiet
  <2>1. ~Shows(sam_events, last_revision)
    BY DEF Shows
  <2> QED
    BY <2>1 DEF MirrorInv, Follows
<1> QED
  BY <1>1, MirrorInvariance, PTL
============================================================================
