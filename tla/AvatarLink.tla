----------------------------- MODULE AvatarLink -----------------------------
(***************************************************************************)
(* The link with the avatar: the compatibility marker that admits its       *)
(* gameplay input (avatar_compatibility.py), the cache of outputs by which  *)
(* echoes are recognised, and the RP-combat switch, which both sides set    *)
(* (app.py: _handle_osc_event, _send_parameter; controller.py: the case     *)
(* combat_enabled; osc_service.py: a thread per datagram).                  *)
(*                                                                         *)
(* VRChat is modelled as the code expects it: a parameter that changes, by  *)
(* its user or by a packet, is reported; a loaded avatar reports its        *)
(* parameters once, in any order; the beacon is repeated.                   *)
(***************************************************************************)
EXTENDS Integers, SequencesExt

CONSTANTS
    Avatars,
    StaticFields,  \* protocol, schema_valid, tb, ...: what core_marker_complete asks for
    Marker,        \* what an avatar reports: "current", "other" or "none" of each marker field
    Threads,       \* how many datagrams can be in their threads at once
    MaxLoads,      \* bound on avatar changes
    MaxToggles,    \* bound on changes of the switch and of its cache but by packets
    MaxLosses,     \* bound on lost packets and stops of the listener
    MaxUpsets      \* bound on all of these together

MarkerFields == StaticFields \cup {"beacon"}

ASSUME LinkAssumption ==
    /\ {"beacon", "change", "toggle"} \cap StaticFields = {}
    /\ Marker \in [Avatars -> [MarkerFields -> {"current", "other", "none"}]]
    /\ {Threads, MaxLoads, MaxToggles, MaxLosses, MaxUpsets} \subseteq Nat

(* A beacon of 117 or 118 is only built into an avatar with a current marker. *)
ASSUME BeaconAssumption ==
    \A a \in Avatars : Marker[a]["beacon"] = "current" => \A f \in StaticFields : Marker[a][f] = "current"

VARIABLES
    (* VRChat *)
    loads,           \* the avatars loaded so far, the last one is worn
    avatar_toggle,   \* its SoY_CombatEnabled
    unpublished,     \* parameters it has not reported since it was loaded
    to_avatar,       \* packets to it: values of the switch
    (* the listener *)
    listening, osc_events,
    (* UnityAvatarCompatibility *)
    values,          \* per static field "current", "other" or "none" (not observed)
    (* StoriesOSCApp and CombatState *)
    output_cache,    \* the cached value of the switch, as a set of at most one
    combat_enabled,
    (* history *)
    source,          \* per static field the load whose packet set it, or 0
    admitted,        \* loads whose input was admitted on their own marker alone
    lost,            \* the two sides may differ: a packet was lost or blocked
    toggles, losses

vars == <<loads, avatar_toggle, unpublished, to_avatar, listening, osc_events, values, output_cache,
          combat_enabled, source, admitted, lost, toggles, losses>>

markerVars == <<values, source>>
switchVars == <<output_cache, combat_enabled>>

Worn == loads[Len(loads)]

Unobserved == [f \in StaticFields |-> "none"]

Published(a) == {f \in StaticFields : Marker[a][f] # "none"} \cup {"toggle"}

(* The desktop starts, before the avatar has reported or after it; the two  *)
(* values of the switch are symmetric, so one of them will do.              *)
Init ==
    /\ \E a \in Avatars : loads = <<a>> /\ unpublished \in {{}, Published(a)}
    /\ avatar_toggle \in BOOLEAN
    /\ to_avatar = <<>>
    /\ listening = TRUE
    /\ osc_events = <<>>
    /\ values = Unobserved
    /\ output_cache = {}
    /\ combat_enabled = FALSE
    /\ source = [f \in StaticFields |-> 0]
    /\ admitted = {}
    /\ lost = (unpublished = {} /\ avatar_toggle # combat_enabled)
    /\ toggles = 0
    /\ losses = 0

Room == Len(loads) - 1 + toggles + losses < MaxUpsets

Toggled ==
    /\ Room /\ toggles < MaxToggles
    /\ toggles' = toggles + 1

Lossy ==
    /\ Room /\ losses < MaxLosses
    /\ losses' = losses + 1
----------------------------------------------------------------------------
(* VRChat *)

(* A datagram nobody listens for is gone. *)
Report(param, value, load) ==
    osc_events' = IF listening
                  THEN Append(osc_events, [param |-> param, value |-> value, load |-> load])
                  ELSE osc_events

ReportToggle(value) ==
    /\ Report("toggle", value, Len(loads))
    /\ lost' = (lost \/ ~listening)

(* The new avatar brings its own saved value of the switch. *)
LoadAvatar(a) ==
    /\ Room /\ Len(loads) <= MaxLoads
    /\ loads' = Append(loads, a)
    /\ avatar_toggle' \in BOOLEAN
    /\ unpublished' = Published(a)
    /\ Report("change", "none", Len(loads'))
    /\ UNCHANGED <<to_avatar, listening, markerVars, switchVars, admitted, lost, toggles, losses>>

Publish(param) ==
    /\ param \in unpublished
    /\ unpublished' = unpublished \ {param}
    /\ IF param = "toggle"
       THEN ReportToggle(avatar_toggle)
       ELSE Report(param, Marker[Worn][param], Len(loads)) /\ UNCHANGED lost
    /\ UNCHANGED <<loads, avatar_toggle, to_avatar, listening, markerVars, switchVars, admitted,
                   toggles, losses>>

(* Not before the last beacon was handled: more of them make no difference. *)
RepeatBeacon ==
    /\ Marker[Worn]["beacon"] # "none"
    /\ \A i \in DOMAIN osc_events : osc_events[i].param # "beacon"
    /\ Report("beacon", Marker[Worn]["beacon"], Len(loads))
    /\ UNCHANGED <<loads, avatar_toggle, unpublished, to_avatar, listening, markerVars, switchVars,
                   admitted, lost, toggles, losses>>

AvatarToggle ==
    /\ Toggled
    /\ "toggle" \notin unpublished
    /\ avatar_toggle' = ~avatar_toggle
    /\ ReportToggle(avatar_toggle')
    /\ UNCHANGED <<loads, unpublished, to_avatar, listening, markerVars, switchVars, admitted, losses>>

(* A packet of the desktop sets the parameter; a change is reported. *)
ReceiveOutput ==
    /\ to_avatar # <<>>
    /\ to_avatar' = Tail(to_avatar)
    /\ avatar_toggle' = Head(to_avatar)
    /\ IF avatar_toggle' # avatar_toggle /\ "toggle" \notin unpublished
       THEN ReportToggle(avatar_toggle')
       ELSE UNCHANGED <<osc_events, lost>>
    /\ UNCHANGED <<loads, unpublished, listening, markerVars, switchVars, admitted, toggles, losses>>

LoseOutput ==
    /\ Lossy
    /\ to_avatar # <<>>
    /\ to_avatar' = Tail(to_avatar)
    /\ lost' = TRUE
    /\ UNCHANGED <<loads, avatar_toggle, unpublished, listening, osc_events, markerVars, switchVars,
                   admitted, toggles>>
----------------------------------------------------------------------------
(* The listener; what its threads have put on the queue is still handled. *)
StopListener ==
    /\ Lossy
    /\ listening
    /\ listening' = FALSE
    /\ UNCHANGED <<loads, avatar_toggle, unpublished, to_avatar, osc_events, markerVars, switchVars,
                   admitted, lost, toggles>>

StartListener ==
    /\ ~listening
    /\ listening' = TRUE
    /\ UNCHANGED <<loads, avatar_toggle, unpublished, to_avatar, osc_events, markerVars, switchVars,
                   admitted, lost, toggles, losses>>
----------------------------------------------------------------------------
(* _handle_osc_event: the events come in the order of their threads. *)

Reset_keeping_the_marker == values
Reset == Unobserved

(* /avatar/change: the cache and the marker are forgotten; the outputs sent *)
(* by the controller do not include the switch.                             *)
HandleChange(p) ==
    /\ p.param = "change"
    /\ values' = Reset
    /\ source' = [f \in StaticFields |-> 0]
    /\ output_cache' = {}
    /\ UNCHANGED <<to_avatar, combat_enabled, admitted, lost>>

(* observe_parameter: a valid beacon stands for the whole marker. *)
Observed_without_beacon(p) == IF p.param = "beacon" THEN values ELSE [values EXCEPT ![p.param] = p.value]
Observed(p) ==
    IF p.param # "beacon" THEN [values EXCEPT ![p.param] = p.value]
    ELSE IF p.value = "current" THEN [f \in StaticFields |-> "current"]
    ELSE values

ObserveMarker(p) ==
    /\ p.param \in MarkerFields
    /\ values' = Observed(p)
    /\ source' = [f \in StaticFields |->
                     IF f = p.param \/ (p.param = "beacon" /\ p.value = "current") THEN p.load ELSE source[f]]
    /\ UNCHANGED <<to_avatar, switchVars, admitted, lost>>

Compatible_unless_other == \A f \in StaticFields : values[f] # "other"
Compatible == \A f \in StaticFields : values[f] = "current"

(* _send_parameter: only what the cache does not hold. *)
Send(value, cached) ==
    /\ output_cache' = {value}
    /\ IF value \in cached
       THEN UNCHANGED <<to_avatar, lost>>
       ELSE to_avatar' = Append(to_avatar, value) /\ lost' = FALSE

IgnoreEcho(p) ==
    /\ p.value \in output_cache
    /\ UNCHANGED <<to_avatar, switchVars, admitted, lost>>

BlockInput(p) ==
    /\ p.value \notin output_cache
    /\ ~Compatible
    /\ lost' = (lost \/ p.value # combat_enabled)
    /\ UNCHANGED <<to_avatar, switchVars, admitted>>

(* The controller takes the value over and sends it back. *)
Acknowledge_nothing(p) == UNCHANGED <<to_avatar, output_cache, lost>>
Acknowledge(p) == Send(p.value, output_cache)

AdmitInput(p) ==
    /\ p.value \notin output_cache
    /\ Compatible
    /\ combat_enabled' = p.value
    /\ Acknowledge(p)
    /\ admitted' = IF \A f \in StaticFields : source[f] \in {0, p.load} THEN admitted \cup {p.load} ELSE admitted

HandleToggle(p) ==
    /\ p.param = "toggle"
    /\ IgnoreEcho(p) \/ BlockInput(p) \/ AdmitInput(p)
    /\ UNCHANGED markerVars

HandleOscEvent(i) ==
    /\ i \in DOMAIN osc_events
    /\ osc_events' = RemoveAt(osc_events, i)
    /\ LET p == osc_events[i] IN HandleChange(p) \/ ObserveMarker(p) \/ HandleToggle(p)
    /\ UNCHANGED <<loads, avatar_toggle, unpublished, listening, toggles, losses>>
----------------------------------------------------------------------------
(* The desktop's own changes of the switch. *)
CombatToggleFromUi ==
    /\ Toggled
    /\ combat_enabled' = ~combat_enabled
    /\ Send(combat_enabled', output_cache)
    /\ UNCHANGED <<loads, avatar_toggle, unpublished, listening, osc_events, markerVars, admitted, losses>>

(* _apply_sam_state clears the cache first, so that the value is always sent. *)
ApplySamState(enabled) ==
    /\ Toggled
    /\ combat_enabled' = enabled
    /\ Send(enabled, {})
    /\ UNCHANGED <<loads, avatar_toggle, unpublished, listening, osc_events, markerVars, admitted, losses>>

(* _restore_avatar_after_rejection clears it and sends other parameters. *)
RestoreAfterRejection ==
    /\ Toggled
    /\ output_cache # {}
    /\ output_cache' = {}
    /\ UNCHANGED <<loads, avatar_toggle, unpublished, to_avatar, listening, osc_events, markerVars,
                   combat_enabled, admitted, lost, losses>>
----------------------------------------------------------------------------
VRChat ==
    \/ \E a \in Avatars : LoadAvatar(a)
    \/ \E param \in StaticFields \cup {"toggle"} : Publish(param)
    \/ RepeatBeacon \/ AvatarToggle \/ ReceiveOutput \/ LoseOutput

Desktop ==
    \/ \E i \in 1 .. Threads : HandleOscEvent(i)
    \/ StopListener \/ StartListener
    \/ CombatToggleFromUi \/ RestoreAfterRejection
    \/ \E enabled \in BOOLEAN : ApplySamState(enabled)

Next == VRChat \/ Desktop

Spec == Init /\ [][Next]_vars

(* Every thread gets to run and the Tk loop drains the queue; VRChat reads  *)
(* its packets and reports its parameters.                                  *)
FairSpec ==
    /\ Spec
    /\ WF_vars(HandleOscEvent(1))
    /\ WF_vars(ReceiveOutput)
    /\ WF_vars(RepeatBeacon)
    /\ \A param \in StaticFields \cup {"toggle"} : WF_vars(Publish(param))
----------------------------------------------------------------------------
Values == {"current", "other", "none"}

(* Types; and the cache never holds anything but the switch's own value, so *)
(* that what is taken for an echo agrees with the state.                    *)
TypeOK ==
    /\ loads \in Seq(Avatars) /\ Len(loads) \in 1 .. MaxLoads + 1
    /\ {avatar_toggle, listening, combat_enabled, lost} \subseteq BOOLEAN
    /\ unpublished \subseteq Published(Worn)
    /\ to_avatar \in Seq(BOOLEAN)
    /\ \A i \in DOMAIN osc_events :
          /\ osc_events[i].param \in MarkerFields \cup {"change", "toggle"}
          /\ osc_events[i].load \in DOMAIN loads
    /\ values \in [StaticFields -> Values]
    /\ output_cache \subseteq {combat_enabled}
    /\ source \in [StaticFields -> 0 .. Len(loads)]
    /\ admitted \subseteq DOMAIN loads

(* When no value of the switch is on its way, the avatar and the desktop    *)
(* agree on it, in whatever order the user, the desktop, Sam.py and the     *)
(* threads acted, unless the last value was lost or blocked; any later      *)
(* value the desktop sends puts that right (controller.py:366-371).         *)
InFlight ==
    \/ to_avatar # <<>> \/ "toggle" \in unpublished
    \/ \E i \in DOMAIN osc_events : osc_events[i].param = "toggle"

QuietAgreement == InFlight \/ lost \/ avatar_toggle = combat_enabled

(* Input judged by no packet of another avatar is admitted only from an     *)
(* avatar whose marker is current: neither the marker of an avatar worn     *)
(* before, nor an incomplete one, nor an unknown beacon admits it           *)
(* (app.py:796-801, avatar_compatibility.py:74-78).                         *)
AdmittedIsMarked == \A l \in admitted : \A f \in StaticFields : Marker[loads[l]][f] = "current"

(* A current avatar that stays is recognised for good, also when its marker *)
(* was reported before the desktop listened, or a stale packet of another   *)
(* avatar has overwritten it (avatar_compatibility.py:106-123).             *)
CurrentIsRecognised == <>[](listening /\ Marker[Worn]["beacon"] = "current" => Compatible)

(* controller.py:369-370: the acknowledgement is sent "so the avatar and    *)
(* desktop converge".  Two values under way at once are each taken for a    *)
(* change by the other side, and can chase each other for ever.             *)
ToggleConverges == <>[](lost \/ avatar_toggle = combat_enabled)
============================================================================
