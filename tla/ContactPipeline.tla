-------------------------- MODULE ContactPipeline --------------------------
(***************************************************************************)
(* How an incoming Contact of the avatar becomes a report to Sam.py: the    *)
(* OSC packets of its hit, its debuff and its Enemy alignment arrive in any *)
(* order, the controller (controller.py) queues hits and debuffs for a      *)
(* settle time, labels them Enemy or Friendly, and the app (app.py) submits *)
(* them as combat events or as fields of the next sync payload.             *)
(*                                                                         *)
(* The module is about a linked device (authoritative_sam_actions); the     *)
(* unlinked path, where a hit costs local hit points, is in CombatState.    *)
(* One unit of time is about 50 ms; the values keep the order of the real   *)
(* ones.  A Contact is one touch; its alignment is a pulse of its own.      *)
(***************************************************************************)
EXTENDS Integers, FiniteSets

CONSTANTS
    Contacts,       \* the touches of one behaviour
    Kinds,          \* what a touch may carry: a subset of {"hit", "status"}
    NoContact,
    Settle,         \* hit_settle_seconds
    StatusSettle,   \* the fixed settle of queue_status
    Latch,          \* the 0.35 s of the Enemy alignment latch
    Iframe,         \* global_invulnerability_seconds
    BlockWindow,    \* combat.block.window_seconds
    Skew,           \* how far apart the packets of one touch may arrive
    PollGap,        \* the longest time between two rounds of the Tk loop
    EndpointReady,  \* _combat_endpoint_ready: hits go to /combat/event
    MaxTime,        \* bound on the clock
    MaxUpsets       \* bound on avatar changes, blocks and RP combat switches

ASSUME PipelineAssumption ==
    /\ Kinds \subseteq {"hit", "status"}
    /\ NoContact \notin Contacts
    /\ {Settle, StatusSettle, Latch, Iframe, BlockWindow, Skew, PollGap, MaxTime, MaxUpsets} \subseteq Nat
    /\ Skew < StatusSettle + 1 /\ StatusSettle <= Settle
    /\ Settle + PollGap + Skew < Iframe
    /\ Skew < Latch
    /\ EndpointReady \in BOOLEAN

VARIABLES
    (* the avatar and the network *)
    now,
    touch,                \* per Contact: "none", "on" or "off"
    hostile,              \* the Contacts that come from an Enemy
    wire,                 \* packets under way: [kind, contact, sent]
    (* BridgeController and CombatState *)
    combat_enabled,
    blocked_until,
    damage_source_enemy,  \* telemetry
    enemy_latched_until,  \* _damage_source_enemy_latched_until
    pending_hits,         \* heaps of [contact, due, received, enemy]
    pending_statuses,
    contact_iframe_until, \* _authoritative_contact_iframe_until
    hit_event,            \* telemetry: the Contact behind the field, or NoContact
    status_event,
    (* StoriesOSCApp *)
    sync_due,
    sync_inflight,
    phase,                \* where the Tk loop is: "idle", "hits", "statuses", "push"
    last_poll,
    (* history *)
    aligned,              \* when the Enemy alignment of a Contact arrived
    calmed,               \* when it was withdrawn
    contact_reports,      \* accepted hits and debuffs: [contact, kind, enemy, received, at]
    last_contact,         \* when the last hit of this avatar was reported
    upsets

worldVars   == <<now, touch, hostile, wire>>
alignVars   == <<damage_source_enemy, enemy_latched_until>>
queueVars   == <<pending_hits, pending_statuses>>
fieldVars   == <<hit_event, status_event>>
syncVars    == <<sync_due, sync_inflight>>
loopVars    == <<phase, last_poll>>
ghostVars   == <<aligned, calmed, contact_reports, last_contact>>
vars == <<worldVars, combat_enabled, blocked_until, alignVars, queueVars, contact_iframe_until,
          fieldVars, syncVars, loopVars, ghostVars, upsets>>

Never == 0 - 1

Init ==
    /\ now = 0
    /\ touch = [c \in Contacts |-> "none"]
    /\ hostile \in SUBSET Contacts
    /\ wire = {}
    /\ combat_enabled = TRUE
    /\ blocked_until = 0
    /\ damage_source_enemy = FALSE
    /\ enemy_latched_until = 0
    /\ pending_hits = {}
    /\ pending_statuses = {}
    /\ contact_iframe_until = 0
    /\ hit_event = NoContact
    /\ status_event = NoContact
    /\ sync_due = FALSE
    /\ sync_inflight = FALSE
    /\ phase = "idle"
    /\ last_poll = 0
    /\ aligned = [c \in Contacts |-> Never]
    /\ calmed = [c \in Contacts |-> Never]
    /\ contact_reports = {}
    /\ last_contact = Never
    /\ upsets = 0
----------------------------------------------------------------------------
(* The avatar.  Alignment is a pulse, so the pulses of two touches do not   *)
(* overlap.                                                                 *)
Packet(kind, c) == [kind |-> kind, contact |-> c, sent |-> now]

Touch(c, kinds) ==
    /\ touch[c] = "none"
    /\ c \in hostile => \A d \in hostile : touch[d] # "on"
    /\ touch' = [touch EXCEPT ![c] = "on"]
    /\ wire' = wire \cup {Packet(kind, c) : kind \in kinds \cup (IF c \in hostile THEN {"enemy"} ELSE {})}
    /\ UNCHANGED <<now, hostile, combat_enabled, blocked_until, alignVars, queueVars,
                   contact_iframe_until, fieldVars, syncVars, loopVars, ghostVars, upsets>>

(* A pulse is long enough for its two edges to arrive in order. *)
Leave(c) ==
    /\ touch[c] = "on"
    /\ \A p \in wire : p.contact # c
    /\ touch' = [touch EXCEPT ![c] = "off"]
    /\ wire' = IF c \in hostile THEN wire \cup {Packet("calm", c)} ELSE wire
    /\ UNCHANGED <<now, hostile, combat_enabled, blocked_until, alignVars, queueVars,
                   contact_iframe_until, fieldVars, syncVars, loopVars, ghostVars, upsets>>

Advance ==
    /\ phase = "idle"
    /\ now < MaxTime
    /\ now < last_poll + PollGap
    /\ \A p \in wire : now < p.sent + Skew
    /\ now' = now + 1
    /\ UNCHANGED <<touch, hostile, wire, combat_enabled, blocked_until, alignVars, queueVars,
                   contact_iframe_until, fieldVars, syncVars, loopVars, ghostVars, upsets>>
----------------------------------------------------------------------------
(* BridgeController.handle_osc, once per packet. *)
SourceEnemyNow == damage_source_enemy \/ now < enemy_latched_until

AtLeast(a, b) == IF a >= b THEN a ELSE b

Queued(p, settle) ==
    [contact |-> p.contact, due |-> now + settle, received |-> now, enemy |-> SourceEnemyNow]

LatchEnd_accumulating == AtLeast(enemy_latched_until, now) + Latch
LatchEnd == AtLeast(enemy_latched_until, now + Latch)

ReceiveEnemy(p) ==
    /\ p.kind = "enemy"
    /\ damage_source_enemy' = TRUE
    /\ enemy_latched_until' = LatchEnd
    /\ aligned' = [aligned EXCEPT ![p.contact] = now]
    /\ UNCHANGED <<queueVars, calmed>>

ReceiveCalm(p) ==
    /\ p.kind = "calm"
    /\ damage_source_enemy' = FALSE
    /\ calmed' = [calmed EXCEPT ![p.contact] = now]
    /\ UNCHANGED <<queueVars, enemy_latched_until, aligned>>

ReceiveHit(p) ==
    /\ p.kind = "hit"
    /\ pending_hits' = pending_hits \cup {Queued(p, Settle)}
    /\ UNCHANGED <<pending_statuses, alignVars, aligned, calmed>>

ReceiveStatus(p) ==
    /\ p.kind = "status"
    /\ pending_statuses' = pending_statuses \cup {Queued(p, StatusSettle)}
    /\ UNCHANGED <<pending_hits, alignVars, aligned, calmed>>

ReceivePacket(p) ==
    /\ phase = "idle"
    /\ wire' = wire \ {p}
    /\ ReceiveEnemy(p) \/ ReceiveCalm(p) \/ ReceiveHit(p) \/ ReceiveStatus(p)
    /\ UNCHANGED <<now, touch, hostile, combat_enabled, blocked_until, contact_iframe_until, fieldVars,
                   syncVars, loopVars, contact_reports, last_contact, upsets>>

(* /avatar/change: reset_edges drops the queues and latches, not the telemetry. *)
AvatarChange ==
    /\ phase = "idle"
    /\ upsets < MaxUpsets
    /\ upsets' = upsets + 1
    /\ touch' = [c \in Contacts |-> IF touch[c] = "on" THEN "off" ELSE touch[c]]
    /\ wire' = {}
    /\ pending_hits' = {}
    /\ pending_statuses' = {}
    /\ enemy_latched_until' = 0
    /\ contact_iframe_until' = 0
    /\ sync_due' = TRUE
    /\ last_contact' = Never
    /\ UNCHANGED <<now, hostile, combat_enabled, blocked_until, damage_source_enemy, fieldVars,
                   sync_inflight, loopVars, aligned, calmed, contact_reports>>

Block ==
    /\ phase = "idle" /\ combat_enabled
    /\ upsets < MaxUpsets
    /\ upsets' = upsets + 1
    /\ blocked_until' = AtLeast(blocked_until, now + BlockWindow)
    /\ UNCHANGED <<worldVars, combat_enabled, alignVars, queueVars, contact_iframe_until, fieldVars,
                   syncVars, loopVars, ghostVars>>

(* SoY_CombatEnabled; switching off clears the block window with the statuses. *)
SwitchCombat ==
    /\ phase = "idle"
    /\ upsets < MaxUpsets
    /\ upsets' = upsets + 1
    /\ combat_enabled' = ~combat_enabled
    /\ blocked_until' = IF combat_enabled THEN 0 ELSE blocked_until
    /\ sync_due' = TRUE
    /\ UNCHANGED <<worldVars, alignVars, queueVars, contact_iframe_until, fieldVars, sync_inflight,
                   loopVars, ghostVars>>
----------------------------------------------------------------------------
(* The Tk loop: BridgeController.tick pops the due hits and debuffs in the  *)
(* order they fall due, each result goes through StoriesOSCApp._on_result,  *)
(* and a due sync is pushed last.                                           *)
BeginPoll ==
    /\ phase = "idle"
    /\ now > last_poll \/ pending_hits # {} \/ pending_statuses # {} \/ sync_due
    /\ phase' = "hits"
    /\ last_poll' = now
    /\ UNCHANGED <<worldVars, combat_enabled, blocked_until, alignVars, queueVars,
                   contact_iframe_until, fieldVars, syncVars, ghostVars, upsets>>

DueFirst(heap) ==
    {e \in heap : e.due <= now /\ \A f \in heap : e.due <= f.due}

(* consume_damage_alignment; label is what tick() has just put into the telemetry. *)
Consume_latch_only(label) ==
    /\ damage_source_enemy' = label
    /\ enemy_latched_until' = 0

Consume(label) ==
    /\ damage_source_enemy' = FALSE
    /\ enemy_latched_until' = 0

SourceEnemy_when_queued(e) == e.enemy
SourceEnemy(e) == e.enemy \/ SourceEnemyNow

IframeEnd_from_receipt(e) == e.received + Iframe
IframeEnd(e) == now + Iframe

ContactReport(e, kind) ==
    [contact |-> e.contact, kind |-> kind, enemy |-> SourceEnemy(e), received |-> e.received, at |-> now]

(* RP combat off, a block (no tier pierces it here), or the Contact i-frame.*)
HitIgnored(e) == ~combat_enabled \/ now < blocked_until \/ now < contact_iframe_until

(* hit_contact: to /combat/event, or into the field of the next payload.    *)
SubmitHit(e) ==
    /\ contact_iframe_until' = IframeEnd(e)
    /\ contact_reports' = contact_reports \cup {ContactReport(e, "hit")}
    /\ last_contact' = now
    /\ IF EndpointReady
       THEN Consume(SourceEnemy(e)) /\ hit_event' = NoContact /\ UNCHANGED sync_due
       ELSE /\ damage_source_enemy' = SourceEnemy(e)
            /\ hit_event' = e.contact
            /\ sync_due' = TRUE
            /\ UNCHANGED enemy_latched_until

PopHit ==
    /\ phase = "hits"
    /\ \E e \in DueFirst(pending_hits) :
          /\ pending_hits' = pending_hits \ {e}
          /\ \/ /\ HitIgnored(e)
                /\ UNCHANGED <<alignVars, contact_iframe_until, hit_event, sync_due, contact_reports, last_contact>>
             \/ ~HitIgnored(e) /\ SubmitHit(e)
    /\ UNCHANGED <<worldVars, combat_enabled, blocked_until, pending_statuses, status_event,
                   sync_inflight, loopVars, aligned, calmed, upsets>>

HitsDone ==
    /\ phase = "hits" /\ DueFirst(pending_hits) = {}
    /\ phase' = "statuses"
    /\ UNCHANGED <<worldVars, combat_enabled, blocked_until, alignVars, queueVars,
                   contact_iframe_until, fieldVars, syncVars, last_poll, ghostVars, upsets>>

SubmitStatus_unscheduled(e) ==
    /\ damage_source_enemy' = SourceEnemy(e)
    /\ status_event' = e.contact
    /\ contact_reports' = contact_reports \cup {ContactReport(e, "status")}
    /\ UNCHANGED sync_due

SubmitStatus(e) ==
    /\ damage_source_enemy' = SourceEnemy(e)
    /\ status_event' = e.contact
    /\ sync_due' = TRUE
    /\ contact_reports' = contact_reports \cup {ContactReport(e, "status")}

PopStatus ==
    /\ phase = "statuses"
    /\ \E e \in DueFirst(pending_statuses) :
          /\ pending_statuses' = pending_statuses \ {e}
          /\ \/ ~combat_enabled /\ UNCHANGED <<damage_source_enemy, status_event, sync_due, contact_reports>>
             \/ combat_enabled /\ SubmitStatus(e)
    /\ UNCHANGED <<worldVars, combat_enabled, blocked_until, enemy_latched_until, pending_hits,
                   contact_iframe_until, hit_event, sync_inflight, loopVars, aligned, calmed,
                   last_contact, upsets>>

StatusesDone ==
    /\ phase = "statuses" /\ DueFirst(pending_statuses) = {}
    /\ phase' = "push"
    /\ UNCHANGED <<worldVars, combat_enabled, blocked_until, alignVars, queueVars,
                   contact_iframe_until, fieldVars, syncVars, last_poll, ghostVars, upsets>>

(* _push_sam_state and _build_sam_sync_payload: a payload that carries a    *)
(* hit or a debuff takes the alignment with it.                             *)
Push ==
    /\ phase = "push"
    /\ phase' = "idle"
    /\ IF sync_due /\ ~sync_inflight
       THEN /\ sync_due' = FALSE
            /\ sync_inflight' = TRUE
            /\ hit_event' = NoContact
            /\ status_event' = NoContact
            /\ IF <<hit_event, status_event>> = <<NoContact, NoContact>>
               THEN UNCHANGED alignVars
               ELSE Consume(damage_source_enemy)
       ELSE UNCHANGED <<syncVars, fieldVars, alignVars>>
    /\ UNCHANGED <<worldVars, combat_enabled, blocked_until, queueVars, contact_iframe_until,
                   last_poll, ghostVars, upsets>>

SyncResolved ==
    /\ phase = "idle" /\ sync_inflight
    /\ sync_inflight' = FALSE
    /\ UNCHANGED <<worldVars, combat_enabled, blocked_until, alignVars, queueVars,
                   contact_iframe_until, fieldVars, sync_due, loopVars, ghostVars, upsets>>
----------------------------------------------------------------------------
Avatar ==
    \/ \E c \in Contacts : Leave(c) \/ \E kinds \in (SUBSET Kinds) \ {{}} : Touch(c, kinds)
    \/ AvatarChange \/ Block \/ SwitchCombat

TkLoop == BeginPoll \/ PopHit \/ HitsDone \/ PopStatus \/ StatusesDone \/ Push \/ SyncResolved

Next == Advance \/ Avatar \/ TkLoop \/ \E p \in wire : ReceivePacket(p)

Spec == Init /\ [][Next]_vars
----------------------------------------------------------------------------
Entries == [contact : Contacts, due : Nat, received : Nat, enemy : BOOLEAN]

(* Types of the packets, the two heaps, the telemetry and the windows; no   *)
(* window or deadline reaches further ahead than its length.                *)
TypeOK ==
    /\ now \in Nat
    /\ touch \in [Contacts -> {"none", "on", "off"}]
    /\ wire \subseteq [kind : Kinds \cup {"enemy", "calm"}, contact : Contacts, sent : Nat]
    /\ {combat_enabled, damage_source_enemy, sync_due, sync_inflight} \subseteq BOOLEAN
    /\ {blocked_until, enemy_latched_until, contact_iframe_until, last_poll, upsets} \subseteq Nat
    /\ enemy_latched_until <= now + Latch /\ contact_iframe_until <= now + Iframe
    /\ \A e \in pending_hits \cup pending_statuses : e.due <= now + Settle /\ e.received <= now
    /\ pending_hits \subseteq Entries /\ pending_statuses \subseteq Entries
    /\ {hit_event, status_event} \subseteq Contacts \cup {NoContact}
    /\ phase \in {"idle", "hits", "statuses", "push"}

(* An Enemy Contact is never reported as Friendly, in whatever order its    *)
(* packets arrive and whatever was reported just before: "packet order      *)
(* cannot turn an Enemy hit into a Friendly hit" (controller.py:321-326,    *)
(* 526, 614, 713-717).                                                      *)
EnemyHitStaysEnemy ==
    \A r \in contact_reports : r.kind = "hit" /\ r.contact \in hostile => r.enemy

(* A hit is reported as Enemy only if the alignment of an Enemy Contact was *)
(* there, or not longer than the latch ago, when the hit arrived or when it *)
(* was judged: a consumed alignment is not inherited by a later Contact     *)
(* (controller.py:191-201, 614-618, 713-717; app.py:995-997).  A touch cut  *)
(* off by an avatar change never withdraws its alignment, which the         *)
(* telemetry then keeps.                                                    *)
EnemyLabelIsFresh ==
    \A r \in contact_reports : r.enemy =>
        \E c \in hostile :
            /\ aligned[c] # Never /\ aligned[c] <= r.at
            /\ aligned[c] + Latch > r.received \/ calmed[c] = Never \/ calmed[c] >= r.received

(* "The one-second local Contact i-frame/debounce before an authoritative   *)
(* request" (PATCH_NOTES_v0.8.18.md:18): two hits reported for one avatar   *)
(* are at least the i-frame apart (controller.py:603-623).                  *)
ContactSpacing ==
    [][ last_contact # Never /\ last_contact' # Never /\ contact_reports' # contact_reports
            /\ (\E r \in contact_reports' \ contact_reports : r.kind = "hit")
        => now >= last_contact + Iframe ]_vars

(* A hit or debuff that waits in a payload field always has a sync due,     *)
(* however long another sync is in flight and although an avatar change     *)
(* drops the queues it came from: none is left behind to be sent with an    *)
(* unrelated change later (controller.py:215-236, 616-672; app.py:754-755,  *)
(* 1105-1119, 1174-1180).                                                   *)
ReportIsScheduled ==
    <<hit_event, status_event>> # <<NoContact, NoContact>> => sync_due
============================================================================
