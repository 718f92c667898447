-------------------------- MODULE ActionTelemetry --------------------------
(***************************************************************************)
(* One-shot actions on their way from the avatar to Sam.py (controller.py,  *)
(* app.py).  Direct Int parameters are presses of the local expression menu *)
(* (cast a spell, use a Technick or an item).  A binary bus (Active and     *)
(* bits) is an incoming action Contact whose packets arrive separately and  *)
(* are read when the settle time has passed.  Both end as telemetry fields  *)
(* that the next sync payload takes and clears.                             *)
(*                                                                         *)
(* The Tk loop works in rounds: it drains the packets received, handles the *)
(* answers of Sam.py and of the updater, lets the controller tick and sends *)
(* a payload that is due.  Packets keep coming meanwhile.  One unit of time *)
(* is about 10 ms.                                                          *)
(***************************************************************************)
EXTENDS Integers, Sequences

CONSTANTS
    DirectFields,  \* the direct Int fields
    KoFields,      \* those a KO character may not use: spells and Technicks
    Ids,           \* the ids a button may send
    Bits,          \* the bit positions of the bus
    Active,        \* its Active parameter
    BusSettle,     \* _action_bus_settle_seconds
    Skew,          \* how far apart the packets of one edge of a Contact are received
    Work,          \* the longest time from the drained queue to the tick of its round
    MaxPresses,    \* bound on presses of each button
    MaxRepeats,    \* bound on packets that repeat the value of a held button
    MaxTouches,    \* bound on action Contacts
    MaxTime,       \* bound on the clock
    MaxInputs      \* bound on packets of buttons, edges of Contacts and changes together

ASSUME ActionAssumption ==
    /\ KoFields \subseteq DirectFields
    /\ Ids \subseteq Nat \ {0}
    /\ Active \notin Bits
    /\ {BusSettle, Skew, Work, MaxPresses, MaxRepeats, MaxTouches, MaxTime, MaxInputs} \subseteq Nat
    /\ BusSettle > 0

VARIABLES
    now,
    (* the avatar and the network *)
    button,         \* the value of each direct Int parameter, 0 when released
    contacts,       \* the ids of the action Contacts so far
    touching,       \* the last of them has not ended
    wire,           \* packets under way: [packet, sent]
    osc_events,     \* packets received and not handled: [packet, received]
    (* BridgeController *)
    is_ko,
    latch,          \* _last_direct_action_value, 0 where absent
    telemetry,      \* the direct fields, 0 when empty
    output_zero,    \* the fields whose last outbound value was 0 (output_cache)
    bus_active,
    bus_bits,
    bus_pending_until,
    bus_type,       \* the telemetry field of the bus: a set of bits
    (* StoriesOSCApp *)
    phase,          \* where the round is: "idle", "osc", "events" or "push"
    drained_at,     \* when it found osc_events empty, until its tick
    sync_due,
    sync_inflight,
    (* history *)
    presses,        \* how often each button was pressed
    packets,        \* how often its value came, repeats included
    live_packets,   \* those of them that did not come while KO
    uses,           \* how often each field went out in a payload
    handled,        \* the edge of the last bus packet handled: [contact, on]
    reports,        \* what payloads said of Contacts: [contact, bits], in order
    inputs

avatarVars  == <<button, contacts, touching, wire>>
directVars  == <<latch, telemetry, output_zero>>
busVars     == <<bus_active, bus_bits, bus_pending_until, bus_type, handled>>
roundVars   == <<phase, drained_at>>
syncVars    == <<sync_due, sync_inflight>>
pressVars   == <<presses, packets, live_packets>>
payloadVars == <<uses, reports>>
vars == <<now, avatarVars, osc_events, is_ko, directVars, busVars, roundVars, syncVars, pressVars,
          payloadVars, inputs>>

Init ==
    /\ now = 0
    /\ button = [f \in DirectFields |-> 0]
    /\ contacts = <<>>
    /\ touching = FALSE
    /\ wire = {}
    /\ osc_events = {}
    /\ is_ko \in BOOLEAN
    /\ latch = [f \in DirectFields |-> 0]
    /\ telemetry = [f \in DirectFields |-> 0]
    /\ output_zero = {}
    /\ bus_active = FALSE
    /\ bus_bits = {}
    /\ bus_pending_until = 0
    /\ bus_type = {}
    /\ phase = "idle"
    /\ drained_at = 0
    /\ sync_due = FALSE
    /\ sync_inflight = FALSE
    /\ presses = [f \in DirectFields |-> 0]
    /\ packets = [f \in DirectFields |-> 0]
    /\ live_packets = [f \in DirectFields |-> 0]
    /\ uses = [f \in DirectFields |-> 0]
    /\ handled = [contact |-> 0, on |-> FALSE]
    /\ reports = <<>>
    /\ inputs = 0

(* The environment does one more thing. *)
Input == inputs < MaxInputs /\ inputs' = inputs + 1
----------------------------------------------------------------------------
(* The clock is read for the bus only.  Time stands still for a packet that *)
(* must be received, for a tick that is due in its round, and while packets *)
(* are handled: handlers read no clock, so that only the end of the         *)
(* draining has a time.                                                     *)
Advance ==
    /\ contacts # <<>> /\ now < MaxTime
    /\ \A p \in wire : now < p.sent + Skew
    /\ phase = "idle" \/ (phase = "events" /\ now < drained_at + Work)
    /\ now' = now + 1
    /\ UNCHANGED <<avatarVars, osc_events, is_ko, directVars, busVars, roundVars, syncVars, pressVars,
                   payloadVars, inputs>>
----------------------------------------------------------------------------
(* Direct Int packets. *)

(* The KO gate of _set_telemetry: the press is dropped and the parameter of *)
(* the avatar sent back to zero.                                            *)
RejectDead(f, id) ==
    /\ latch' = [latch EXCEPT ![f] = id]
    /\ telemetry' = [telemetry EXCEPT ![f] = 0]
    /\ output_zero' = output_zero \cup {f}
    /\ UNCHANGED <<sync_due, live_packets>>

IsDead_never(f) == FALSE
IsDead(f) == is_ko /\ f \in KoFields

(* A value the latch knows only fills the field again; a new one is an      *)
(* event, and _on_result schedules an immediate sync.                       *)
AcceptPress(f, id) ==
    /\ latch' = [latch EXCEPT ![f] = id]
    /\ telemetry' = [telemetry EXCEPT ![f] = id]
    /\ sync_due' = (sync_due \/ (latch[f] # id /\ telemetry[f] # id))
    /\ live_packets' = [live_packets EXCEPT ![f] = IF is_ko /\ f \in KoFields THEN @ ELSE @ + 1]
    /\ UNCHANGED output_zero

ReceiveValue(f, id) ==
    /\ phase = "osc"
    /\ packets' = [packets EXCEPT ![f] = @ + 1]
    /\ \/ IsDead(f) /\ RejectDead(f, id)
       \/ ~IsDead(f) /\ AcceptPress(f, id)

Press(f, id) ==
    /\ button[f] = 0 /\ presses[f] < MaxPresses
    /\ Input
    /\ button' = [button EXCEPT ![f] = id]
    /\ presses' = [presses EXCEPT ![f] = @ + 1]
    /\ ReceiveValue(f, id)
    /\ UNCHANGED <<now, contacts, touching, wire, osc_events, is_ko, busVars, roundVars, sync_inflight, payloadVars>>

Repeat(f) ==
    /\ button[f] # 0
    /\ packets[f] < presses[f] + MaxRepeats
    /\ Input
    /\ ReceiveValue(f, button[f])
    /\ UNCHANGED <<now, avatarVars, osc_events, is_ko, busVars, roundVars, sync_inflight, presses,
                   payloadVars>>

Released_latch_only(f) == latch' = [latch EXCEPT ![f] = 0] /\ UNCHANGED telemetry
Released(f) == latch' = [latch EXCEPT ![f] = 0] /\ telemetry' = [telemetry EXCEPT ![f] = 0]

(* A zero the desktop has sent itself is taken for its echo and dropped.    *)
Release(f) ==
    /\ phase = "osc"
    /\ button[f] # 0
    /\ button' = [button EXCEPT ![f] = 0]
    /\ IF f \in output_zero
       THEN UNCHANGED <<latch, telemetry>>
       ELSE Released(f)
    /\ UNCHANGED <<now, contacts, touching, wire, osc_events, is_ko, output_zero, busVars, roundVars,
                   syncVars, pressVars, payloadVars, inputs>>
----------------------------------------------------------------------------
(* The binary bus: the avatar sends the parameters that change, one packet  *)
(* each, when a Contact begins and when it ends.  A Contact and the pause   *)
(* to the next are longer than its packets are apart; both may be shorter   *)
(* than a round.                                                            *)
Edge(c, bits, on) == [contact : {c}, on : {on}, part : bits \cup {Active}]

Sent(edge) == [packet : edge, sent : {now}]

TouchAction(bits) ==
    /\ ~touching /\ wire = {}
    /\ Len(contacts) < MaxTouches
    /\ Input
    /\ contacts' = Append(contacts, bits)
    /\ touching' = TRUE
    /\ wire' = Sent(Edge(Len(contacts) + 1, bits, TRUE))
    /\ UNCHANGED <<now, button, osc_events, is_ko, directVars, busVars, roundVars, syncVars, pressVars,
                   payloadVars>>

LeaveAction ==
    /\ touching /\ wire = {}
    /\ Input
    /\ touching' = FALSE
    /\ wire' = Sent(Edge(Len(contacts), contacts[Len(contacts)], FALSE))
    /\ UNCHANGED <<now, button, contacts, osc_events, is_ko, directVars, busVars, roundVars, syncVars,
                   pressVars, payloadVars>>

(* The listener stamps a packet when it receives it. *)
ReceivePacket(p) ==
    /\ wire' = wire \ {p}
    /\ osc_events' = osc_events \cup {[packet |-> p.packet, received |-> now]}
    /\ UNCHANGED <<now, button, contacts, touching, is_ko, directVars, busVars, roundVars, syncVars, pressVars,
                   payloadVars, inputs>>

(* The settle time runs from the stamp, not from the round that handles it. *)
Deadline_at_once(received) == received
Deadline(received) == received + BusSettle

HandleBit(p, received) ==
    /\ p.part # Active
    /\ bus_bits' = IF p.on THEN bus_bits \cup {p.part} ELSE bus_bits \ {p.part}
    /\ bus_pending_until' = IF bus_active THEN Deadline(received) ELSE bus_pending_until
    /\ UNCHANGED <<bus_active, bus_type>>

HandleActive(p, received) ==
    /\ p.part = Active
    /\ bus_active' = p.on
    /\ bus_pending_until' = IF p.on THEN Deadline(received) ELSE 0
    /\ bus_type' = IF p.on THEN bus_type ELSE {}
    /\ UNCHANGED bus_bits

Before(p, q) == p.contact < q.contact \/ (p.contact = q.contact /\ p.on /\ ~q.on)

(* Packets of one edge may pass each other, the listener has a thread for   *)
(* each; those of different edges keep their order.                         *)
HandleBus(e) ==
    /\ phase = "osc"
    /\ \A d \in osc_events : ~Before(d.packet, e.packet)
    /\ osc_events' = osc_events \ {e}
    /\ HandleBit(e.packet, e.received) \/ HandleActive(e.packet, e.received)
    /\ handled' = [contact |-> e.packet.contact, on |-> e.packet.on]
    /\ UNCHANGED <<now, avatarVars, is_ko, directVars, roundVars, syncVars, pressVars, payloadVars, inputs>>
----------------------------------------------------------------------------
(* The round of the Tk loop. *)
StartRound ==
    /\ phase = "idle"
    /\ phase' = "osc"
    /\ UNCHANGED <<now, avatarVars, osc_events, is_ko, directVars, busVars, drained_at, syncVars,
                   pressVars, payloadVars, inputs>>

Drained ==
    /\ phase = "osc" /\ osc_events = {}
    /\ phase' = "events"
    /\ drained_at' = now
    /\ UNCHANGED <<now, avatarVars, osc_events, is_ko, directVars, busVars, syncVars, pressVars,
                   payloadVars, inputs>>

(* _resolve_action_bus. *)
Resolve ==
    IF bus_active /\ bus_bits # {}
    THEN bus_type' = bus_bits /\ sync_due' = (sync_due \/ bus_type # bus_bits)
    ELSE UNCHANGED <<bus_type, sync_due>>

(* BridgeController.tick. *)
Tick ==
    /\ phase = "events"
    /\ phase' = "push"
    /\ IF bus_pending_until # 0 /\ bus_pending_until <= now
       THEN bus_pending_until' = 0 /\ Resolve
       ELSE UNCHANGED <<bus_pending_until, bus_type, sync_due>>
    /\ drained_at' = 0
    /\ UNCHANGED <<now, avatarVars, osc_events, is_ko, directVars, bus_active, bus_bits, handled,
                   sync_inflight, pressVars, payloadVars, inputs>>

SentFields == {f \in DirectFields : telemetry[f] # 0}

(* _build_sam_sync_payload clears the action fields it has put in. *)
Emptied_never == telemetry
Emptied == [f \in DirectFields |-> 0]

EmptiedBus == {}

Push ==
    /\ phase = "push"
    /\ sync_due /\ ~sync_inflight
    /\ phase' = "idle"
    /\ sync_due' = FALSE
    /\ sync_inflight' = TRUE
    /\ telemetry' = Emptied
    /\ bus_type' = EmptiedBus
    /\ uses' = [f \in DirectFields |-> uses[f] + (IF f \in SentFields THEN 1 ELSE 0)]
    /\ reports' = IF bus_type = {} THEN reports
                  ELSE Append(reports, [contact |-> handled.contact, bits |-> bus_type])
    /\ UNCHANGED <<now, avatarVars, osc_events, is_ko, latch, output_zero, bus_active, bus_bits,
                   bus_pending_until, handled, drained_at, pressVars, inputs>>

NothingToPush ==
    /\ phase = "push"
    /\ ~sync_due \/ sync_inflight
    /\ phase' = "idle"
    /\ UNCHANGED <<now, avatarVars, osc_events, is_ko, directVars, busVars, drained_at, syncVars,
                   pressVars, payloadVars, inputs>>

(* An answer whose state is applied also clears the output cache. *)
SyncResolved ==
    /\ phase = "events"
    /\ sync_inflight
    /\ sync_inflight' = FALSE
    /\ output_zero' \in {output_zero, {}}
    /\ UNCHANGED <<now, avatarVars, osc_events, is_ko, latch, telemetry, busVars, roundVars, sync_due,
                   pressVars, payloadVars, inputs>>

(* Hit points reach or leave zero, or another change makes a sync due. *)
Change ==
    /\ phase # "push"
    /\ Input
    /\ is_ko' \in BOOLEAN
    /\ sync_due' = TRUE
    /\ UNCHANGED <<now, avatarVars, osc_events, directVars, busVars, roundVars, sync_inflight, pressVars,
                   payloadVars>>

Direct == \E f \in DirectFields :
             Release(f) \/ Repeat(f) \/ \E id \in Ids : Press(f, id)

Bus ==
    \/ \E bits \in (SUBSET Bits) \ {{}} : TouchAction(bits)
    \/ LeaveAction
    \/ \E p \in wire : ReceivePacket(p)
    \/ \E e \in osc_events : HandleBus(e)

Round == StartRound \/ Drained \/ Tick \/ Push \/ NothingToPush

Next == Advance \/ Direct \/ Bus \/ Round \/ SyncResolved \/ Change

Spec == Init /\ [][Next]_vars
----------------------------------------------------------------------------
(* Types; a field never holds a value its latch does not know. *)
TypeOK ==
    /\ button \in [DirectFields -> Ids \cup {0}]
    /\ latch \in [DirectFields -> Ids \cup {0}]
    /\ telemetry \in [DirectFields -> Ids \cup {0}]
    /\ \A f \in DirectFields : telemetry[f] \in {0, latch[f]}
    /\ output_zero \subseteq KoFields
    /\ bus_bits \subseteq Bits /\ bus_type \subseteq Bits
    /\ bus_pending_until \in Nat
    /\ {is_ko, bus_active, sync_due, sync_inflight} \subseteq BOOLEAN

(* Every packet of a button is used at most once, and one that came for a   *)
(* KO character not at all: no sync after the one that carried an action    *)
(* carries it again, and after a revive only a packet sent since then is    *)
(* worth a use (controller.py:429-462; app.py:1164-1173).                   *)
UsedAtMostOnce == \A f \in DirectFields : uses[f] <= live_packets[f]

(* What Sam.py is told of the action Contacts: of each at most once, and    *)
(* with the id it has, not one read from half of its bits, from bits of the *)
(* last Contact or from bits that were already on their way out             *)
(* (controller.py:292-316, 478-485, 566-573).                               *)
ReportsAreReal ==
    /\ \A i, j \in DOMAIN reports : reports[i].contact = reports[j].contact => i = j
    /\ \A i \in DOMAIN reports : /\ reports[i].contact \in DOMAIN contacts
                                 /\ reports[i].bits = contacts[reports[i].contact]

(* The settle time outlasts the packets of an edge and the rest of a round. *)
Timely == Skew + Work < BusSettle

(* Every Contact is reported once at most, under its own id, as long as a   *)
(* round is not held up after it drained the packets.                       *)
ContactReportedOnce == Timely => ReportsAreReal

(* controller.py:451: a repeated packet while a button is still held        *)
(* "cannot charge MP or consume an item twice".                             *)
OneUsePerPress == \A f \in DirectFields : uses[f] <= presses[f]
============================================================================
