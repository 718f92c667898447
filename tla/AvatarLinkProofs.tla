-------------------------- MODULE AvatarLinkProofs --------------------------
(***************************************************************************)
(* Theorems about AvatarLink, for every set of avatars, marker fields and   *)
(* threads and all bounds.                                                  *)
(***************************************************************************)
EXTENDS AvatarLink, SequenceTheorems, TLAPS

Params == MarkerFields \cup {"change", "toggle"}

Packet == [param : Params, value : Values \cup BOOLEAN, load : Nat]

(* A packet of a marker field says what the avatar it came from says. *)
Genuine(p, worn) ==
    /\ p.load \in DOMAIN worn
    /\ p.param \in MarkerFields => p.value = Marker[worn[p.load]][p.param]
    /\ p.param = "toggle" => p.value \in BOOLEAN

Packets ==
    /\ osc_events \in Seq(Packet)
    /\ \A i \in DOMAIN osc_events : Genuine(osc_events[i], loads)

(* What is observed of a field is what its source reports. *)
Sources ==
    \A f \in StaticFields : values[f] = IF source[f] = 0 THEN "none" ELSE Marker[loads[source[f]]][f]

(* The last value under way to the avatar is the desktop's present one. *)
LastSent == to_avatar # <<>> => to_avatar[Len(to_avatar)] = combat_enabled

(* Where the two sides differ, and nothing was lost, something under way    *)
(* will tell one of them: a value of the desktop, or the avatar's own       *)
(* present value.                                                           *)
Told(i) == osc_events[i].param = "toggle" /\ osc_events[i].value = avatar_toggle

Chase ==
    \/ lost
    \/ to_avatar # <<>>
    \/ "toggle" \in unpublished
    \/ avatar_toggle = combat_enabled
    \/ \E i \in DOMAIN osc_events : Told(i)

IInv == TypeOK /\ Packets /\ Sources /\ LastSent /\ Chase /\ AdmittedIsMarked
----------------------------------------------------------------------------
(* Sequences. *)

LEMMA RemoveAtProperties ==
    ASSUME NEW S, NEW s \in Seq(S), NEW i \in 1 .. Len(s)
    PROVE  /\ RemoveAt(s, i) \in Seq(S)
           /\ Len(RemoveAt(s, i)) = Len(s) - 1
           /\ \A j \in 1 .. Len(s) - 1 : RemoveAt(s, i)[j] = s[IF j < i THEN j ELSE j + 1]
<1> DEFINE a == SubSeq(s, 1, i - 1)
           b == SubSeq(s, i + 1, Len(s))
<1>0. Len(s) \in Nat /\ \A j \in 1 .. Len(s) : s[j] \in S
  BY LenProperties, ElementOfSeq
<1>1. /\ a \in Seq(S) /\ Len(a) = i - 1
      /\ \A j \in 1 .. i - 1 : a[j] = s[j]
  BY <1>0, SubSeqProperties
<1>2. /\ b \in Seq(S) /\ Len(b) = Len(s) - i
      /\ \A j \in 1 .. Len(s) - i : b[j] = s[i + j]
  <2>1. \A j \in i + 1 .. Len(s) : s[j] \in S
    BY <1>0
  <2>2. /\ b \in Seq(S) /\ Len(b) = IF i + 1 <= Len(s) THEN Len(s) - (i + 1) + 1 ELSE 0
        /\ \A j \in 1 .. Len(s) - (i + 1) + 1 : b[j] = s[i + 1 + j - 1]
    BY <1>0, <2>1, SubSeqProperties
  <2> QED
    BY <1>0, <2>2
<1> HIDE DEF a, b
<1>3. RemoveAt(s, i) = a \o b
  BY DEF RemoveAt, a, b
<1>4. /\ a \o b \in Seq(S) /\ Len(a \o b) = Len(a) + Len(b)
      /\ \A j \in 1 .. Len(a) + Len(b) : (a \o b)[j] = IF j <= Len(a) THEN a[j] ELSE b[j - Len(a)]
  BY <1>1, <1>2, ConcatProperties
<1>5. Len(a) + Len(b) = Len(s) - 1
  BY <1>0, <1>1, <1>2
<1>6. \A j \in 1 .. Len(s) - 1 : (a \o b)[j] = s[IF j < i THEN j ELSE j + 1]
  <2> SUFFICES ASSUME NEW j \in 1 .. Len(s) - 1 PROVE (a \o b)[j] = s[IF j < i THEN j ELSE j + 1]
    OBVIOUS
  <2>1. CASE j < i
    BY <1>0, <1>1, <1>4, <1>5, <2>1
  <2>2. CASE ~(j < i)
    <3>1. j - Len(a) \in 1 .. Len(s) - i /\ ~(j <= Len(a)) /\ i + (j - Len(a)) = j + 1
      BY <1>0, <1>1, <2>2
    <3> QED
      BY <1>2, <1>4, <1>5, <2>2, <3>1
  <2> QED
    BY <2>1, <2>2
<1> QED
  BY <1>3, <1>4, <1>5, <1>6

(* Every element of the result is one of the sequence, and every other      *)
(* element of the sequence is one of the result.                            *)
LEMMA RemoveAtKeeps ==
    ASSUME NEW S, NEW s \in Seq(S), NEW i \in 1 .. Len(s)
    PROVE  /\ \A j \in DOMAIN RemoveAt(s, i) : \E k \in DOMAIN s : RemoveAt(s, i)[j] = s[k]
           /\ \A k \in DOMAIN s \ {i} : \E j \in DOMAIN RemoveAt(s, i) : RemoveAt(s, i)[j] = s[k]
<1> DEFINE r == RemoveAt(s, i)
<1>0. /\ Len(s) \in Nat /\ DOMAIN s = 1 .. Len(s)
      /\ r \in Seq(S) /\ Len(r) = Len(s) - 1
      /\ \A j \in 1 .. Len(s) - 1 : r[j] = s[IF j < i THEN j ELSE j + 1]
  BY RemoveAtProperties, LenProperties
<1>1. DOMAIN r = 1 .. Len(s) - 1
  BY <1>0, LenProperties
<1> HIDE DEF r
<1>2. \A j \in DOMAIN r : \E k \in DOMAIN s : r[j] = s[k]
  <2> SUFFICES ASSUME NEW j \in DOMAIN r PROVE \E k \in DOMAIN s : r[j] = s[k]
    OBVIOUS
  <2>1. (IF j < i THEN j ELSE j + 1) \in DOMAIN s
    BY <1>0, <1>1
  <2> QED
    BY <1>0, <1>1, <2>1
<1>3. \A k \in DOMAIN s \ {i} : \E j \in DOMAIN r : r[j] = s[k]
  <2> SUFFICES ASSUME NEW k \in DOMAIN s \ {i} PROVE \E j \in DOMAIN r : r[j] = s[k]
    OBVIOUS
  <2>1. CASE k < i
    <3>1. k \in DOMAIN r /\ r[k] = s[k]
      BY <1>0, <1>1, <2>1
    <3> QED
      BY <3>1
  <2>2. CASE k > i
    <3>1. k - 1 \in DOMAIN r /\ r[k - 1] = s[k]
      BY <1>0, <1>1, <2>2
    <3> QED
      BY <3>1
  <2> QED
    BY <1>0, <2>1, <2>2
<1> QED
  BY <1>2, <1>3 DEF r

(* Append, with the new element and the domain. *)
LEMMA Appended ==
    ASSUME NEW S, NEW s \in Seq(S), NEW e \in S
    PROVE  /\ Append(s, e) \in Seq(S) /\ Append(s, e) # <<>>
           /\ Len(Append(s, e)) = Len(s) + 1 /\ Len(s) \in Nat
           /\ DOMAIN s = 1 .. Len(s) /\ DOMAIN Append(s, e) = 1 .. Len(s) + 1
           /\ \A i \in DOMAIN s : Append(s, e)[i] = s[i]
           /\ Append(s, e)[Len(s) + 1] = e
<1>1. /\ Append(s, e) \in Seq(S) /\ Append(s, e) # <<>>
      /\ Len(Append(s, e)) = Len(s) + 1
      /\ \A i \in 1 .. Len(s) : Append(s, e)[i] = s[i]
  BY AppendProperties
<1>2. Len(s) \in Nat /\ DOMAIN s = 1 .. Len(s) /\ DOMAIN Append(s, e) = 1 .. Len(s) + 1
  BY <1>1, LenProperties
<1>3. Append(s, e)[Len(s) + 1] = e
  OBVIOUS
<1> QED
  BY <1>1, <1>2, <1>3
----------------------------------------------------------------------------
(* Packets. *)

LEMMA PacketsType ==
    ASSUME NEW events \in Seq(Packet), NEW worn, \A i \in DOMAIN events : Genuine(events[i], worn),
           NEW i \in DOMAIN events
    PROVE  events[i] \in Packet /\ events[i].param \in Params /\ events[i].load \in DOMAIN worn
<1>1. i \in 1 .. Len(events)
  BY LenProperties
<1>2. events[i] \in Packet
  BY <1>1, ElementOfSeq
<1> QED
  BY <1>2 DEF Packet, Genuine

(* A report is one more packet, the last, or none because nobody listens.   *)
LEMMA Reported ==
    ASSUME Packets, NEW param \in Params, NEW value \in Values \cup BOOLEAN, NEW load \in Nat,
           Report(param, value, load),
           LET p == [param |-> param, value |-> value, load |-> load] IN Genuine(p, loads'),
           \A l \in DOMAIN loads : l \in DOMAIN loads' /\ loads'[l] = loads[l]
    PROVE  /\ Packets'
           /\ \A i \in DOMAIN osc_events : i \in DOMAIN osc_events' /\ osc_events'[i] = osc_events[i]
           /\ listening => \E i \in DOMAIN osc_events' : osc_events'[i].param = param /\ osc_events'[i].value = value
<1> DEFINE p == [param |-> param, value |-> value, load |-> load]
<1>1. p \in Packet /\ Genuine(p, loads')
  BY DEF Packet
<1>2. \A i \in DOMAIN osc_events : Genuine(osc_events[i], loads')
  BY DEF Packets, Genuine
<1>3. CASE ~listening
  BY <1>2, <1>3 DEF Report, Packets
<1>4. CASE listening
  <2>1. osc_events' = Append(osc_events, p)
    BY <1>4 DEF Report
  <2>2. /\ osc_events' \in Seq(Packet) /\ Len(osc_events) \in Nat
        /\ DOMAIN osc_events = 1 .. Len(osc_events) /\ DOMAIN osc_events' = 1 .. Len(osc_events) + 1
        /\ \A i \in DOMAIN osc_events : osc_events'[i] = osc_events[i]
        /\ osc_events'[Len(osc_events) + 1] = p
    BY <1>1, <2>1, Appended DEF Packets
  <2>3. Packets'
    <3>1. \A i \in DOMAIN osc_events' : i \in DOMAIN osc_events \/ i = Len(osc_events) + 1
      BY <2>2
    <3>2. \A i \in DOMAIN osc_events' : Genuine(osc_events'[i], loads')
      BY <1>1, <1>2, <2>2, <3>1
    <3> QED
      BY <2>2, <3>2 DEF Packets
  <2>4. \E i \in DOMAIN osc_events' : osc_events'[i].param = param /\ osc_events'[i].value = value
    <3>1. Len(osc_events) + 1 \in DOMAIN osc_events'
      BY <2>2
    <3> QED
      BY <2>2, <3>1
  <2> QED
    BY <2>2, <2>3, <2>4
<1> QED
  BY <1>3, <1>4

(* A report of the switch leaves the avatar's present value on its way, or  *)
(* it is lost.                                                              *)
LEMMA ToggleReported ==
    ASSUME TypeOK, Packets, ReportToggle(avatar_toggle'), avatar_toggle' \in BOOLEAN, UNCHANGED loads
    PROVE  Packets' /\ Chase' /\ lost' \in BOOLEAN
<1>1. Len(loads) \in DOMAIN loads /\ Len(loads) \in Nat
  BY LenProperties DEF TypeOK
<1>2. "toggle" \in Params /\ "toggle" \notin MarkerFields
  BY LinkAssumption DEF Params, MarkerFields
<1>3. Genuine([param |-> "toggle", value |-> avatar_toggle', load |-> Len(loads)], loads')
  BY <1>1, <1>2 DEF Genuine
<1>4. /\ Packets'
      /\ listening => \E i \in DOMAIN osc_events' :
                         osc_events'[i].param = "toggle" /\ osc_events'[i].value = avatar_toggle'
  BY <1>1, <1>2, <1>3, Reported DEF ReportToggle
<1>5. lost' = (lost \/ ~listening) /\ lost \in BOOLEAN /\ listening \in BOOLEAN
  BY DEF ReportToggle, TypeOK
<1> QED
  BY <1>4, <1>5 DEF Chase, Told

(* A marker report is what the worn avatar says. *)
LEMMA MarkerReported ==
    ASSUME TypeOK, Packets, NEW param \in MarkerFields, UNCHANGED loads,
           Report(param, Marker[Worn][param], Len(loads))
    PROVE  /\ Packets'
           /\ \A i \in DOMAIN osc_events : i \in DOMAIN osc_events' /\ osc_events'[i] = osc_events[i]
<1>1. Len(loads) \in DOMAIN loads /\ Len(loads) \in Nat /\ Worn \in Avatars
  BY LenProperties, ElementOfSeq DEF TypeOK, Worn
<1>2. param \in Params /\ param # "toggle" /\ Marker[Worn][param] \in Values
  BY <1>1, LinkAssumption DEF Params, MarkerFields, Values
<1>3. Genuine([param |-> param, value |-> Marker[Worn][param], load |-> Len(loads)], loads')
  BY <1>1, <1>2 DEF Genuine, Worn
<1> QED
  BY <1>1, <1>2, <1>3, Reported
----------------------------------------------------------------------------
(* The invariant: at the start, after each step, and so always. *)
LEMMA InitInv == Init => IInv
<1> SUFFICES ASSUME Init PROVE IInv
  OBVIOUS
<1> USE LinkAssumption
<1>1. PICK a \in Avatars : loads = <<a>> /\ unpublished \in {{}, Published(a)}
  BY DEF Init
<1>2. /\ loads \in Seq(Avatars) /\ Len(loads) = 1 /\ DOMAIN loads = 1 .. 1 /\ Worn = a
      /\ 1 \in 1 .. MaxLoads + 1
  BY <1>1 DEF Worn
<1>3. osc_events \in Seq(Packet) /\ DOMAIN osc_events = {} /\ to_avatar \in Seq(BOOLEAN)
  BY DEF Init
<1>4. TypeOK
  <2>1. unpublished \subseteq Published(Worn)
    BY <1>1, <1>2
  <2>2. {avatar_toggle, listening, combat_enabled, lost} \subseteq BOOLEAN
    BY DEF Init
  <2>3. values \in [StaticFields -> Values] /\ source \in [StaticFields -> 0 .. Len(loads)]
    BY <1>2 DEF Init, Unobserved, Values
  <2> QED
    BY <1>2, <1>3, <2>1, <2>2, <2>3 DEF Init, TypeOK
<1>5. Packets
  BY <1>3 DEF Packets
<1>6. Sources
  BY DEF Init, Unobserved, Sources
<1>7. LastSent /\ Chase /\ AdmittedIsMarked
  <2>1. "toggle" \in Published(a)
    BY DEF Published
  <2>2. Chase
    BY <1>1, <2>1 DEF Init, Chase
  <2> QED
    BY <2>2 DEF Init, LastSent, AdmittedIsMarked
<1> QED
  BY <1>4, <1>5, <1>6, <1>7 DEF IInv

(* What a worn avatar's marker says of a load stays so. *)
LEMMA LoadKeeps ==
    ASSUME IInv, NEW a \in Avatars, LoadAvatar(a)
    PROVE  IInv'
<1> USE LinkAssumption DEF IInv
<1>1. /\ loads' \in Seq(Avatars) /\ Len(loads') = Len(loads) + 1 /\ Len(loads) \in Nat
      /\ DOMAIN loads = 1 .. Len(loads) /\ DOMAIN loads' = 1 .. Len(loads) + 1
      /\ \A l \in DOMAIN loads : loads'[l] = loads[l]
      /\ loads'[Len(loads) + 1] = a
      /\ Worn' = a
  <2>1. loads' = Append(loads, a) /\ loads \in Seq(Avatars)
    BY DEF LoadAvatar, TypeOK
  <2> QED
    BY <2>1, Appended DEF Worn
<1>2. \A l \in DOMAIN loads : l \in DOMAIN loads' /\ loads'[l] = loads[l]
  BY <1>1
<1>3. Packets'
  <2>1. "change" \in Params /\ "change" \notin MarkerFields /\ "none" \in Values
    BY DEF Params, MarkerFields, Values
  <2>2. Genuine([param |-> "change", value |-> "none", load |-> Len(loads')], loads')
    BY <1>1, <2>1 DEF Genuine
  <2>3. Report("change", "none", Len(loads')) /\ Len(loads') \in Nat
    BY <1>1 DEF LoadAvatar
  <2> QED
    BY <1>2, <2>1, <2>2, <2>3, Reported
<1>4. TypeOK'
  <2>1. Len(loads') \in 1 .. MaxLoads + 1
    BY <1>1 DEF LoadAvatar
  <2>2. /\ values' \in [StaticFields -> Values] /\ source' \in [StaticFields -> 0 .. Len(loads')]
        /\ admitted' \subseteq DOMAIN loads'
    BY <1>1 DEF LoadAvatar, TypeOK, markerVars
  <2>3. unpublished' \subseteq Published(Worn)'
    BY <1>1 DEF LoadAvatar, Published
  <2>4. /\ {avatar_toggle', listening', combat_enabled', lost'} \subseteq BOOLEAN
        /\ to_avatar' \in Seq(BOOLEAN) /\ output_cache' \subseteq {combat_enabled'}
    BY DEF LoadAvatar, TypeOK, switchVars
  <2>5. \A i \in DOMAIN osc_events' : osc_events'[i].param \in Params /\ osc_events'[i].load \in DOMAIN loads'
    BY <1>3, PacketsType DEF Packets
  <2> QED
    BY <1>1, <2>1, <2>2, <2>3, <2>4, <2>5 DEF TypeOK, Params
<1>5. Sources'
  <2>1. \A f \in StaticFields : source[f] = 0 \/ source[f] \in DOMAIN loads
    BY <1>1 DEF TypeOK
  <2> QED
    BY <1>1, <2>1 DEF LoadAvatar, Sources, markerVars
<1>6. LastSent' /\ Chase'
  BY DEF LoadAvatar, LastSent, Chase, Published, switchVars
<1>7. AdmittedIsMarked'
  BY <1>1 DEF LoadAvatar, AdmittedIsMarked, TypeOK
<1> QED
  BY <1>3, <1>4, <1>5, <1>6, <1>7

(* Packets that only report the worn avatar's marker. *)
LEMMA MarkerKeeps ==
    ASSUME IInv, NEW param \in MarkerFields, Report(param, Marker[Worn][param], Len(loads)),
           unpublished' = unpublished \ {param} \/ UNCHANGED unpublished,
           UNCHANGED <<loads, avatar_toggle, to_avatar, listening, markerVars, switchVars, admitted, lost>>
    PROVE  IInv'
<1> USE LinkAssumption DEF IInv, markerVars, switchVars
<1>1. /\ Packets'
      /\ \A i \in DOMAIN osc_events : i \in DOMAIN osc_events' /\ osc_events'[i] = osc_events[i]
  BY MarkerReported
<1>2. TypeOK'
  <2>1. \A i \in DOMAIN osc_events' : osc_events'[i].param \in Params /\ osc_events'[i].load \in DOMAIN loads'
    BY <1>1, PacketsType DEF Packets
  <2>2. unpublished' \subseteq Published(Worn)'
    BY DEF TypeOK, Published, Worn
  <2> QED
    BY <2>1, <2>2 DEF TypeOK, Params
<1>3. Sources' /\ LastSent' /\ AdmittedIsMarked'
  BY DEF Sources, LastSent, AdmittedIsMarked
<1>4. Chase'
  <2>1. param # "toggle"
    BY DEF MarkerFields
  <2>2. \A i \in DOMAIN osc_events : Told(i) => Told(i)'
    BY <1>1 DEF Told
  <2> QED
    BY <1>1, <2>1, <2>2 DEF Chase
<1> QED
  BY <1>1, <1>2, <1>3, <1>4

(* Packets that report the switch, after it changed or for a new avatar.    *)
LEMMA ToggleKeeps ==
    ASSUME IInv, avatar_toggle' \in BOOLEAN, ReportToggle(avatar_toggle'),
           to_avatar' \in Seq(BOOLEAN), LastSent', unpublished' \subseteq unpublished,
           UNCHANGED <<loads, listening, markerVars, switchVars, admitted>>
    PROVE  IInv'
<1> USE LinkAssumption DEF IInv, markerVars, switchVars
<1>1. Packets' /\ Chase' /\ lost' \in BOOLEAN
  BY ToggleReported
<1>2. TypeOK'
  <2>1. \A i \in DOMAIN osc_events' : osc_events'[i].param \in Params /\ osc_events'[i].load \in DOMAIN loads'
    BY <1>1, PacketsType DEF Packets
  <2>2. unpublished' \subseteq Published(Worn)'
    BY DEF TypeOK, Published, Worn
  <2> QED
    BY <1>1, <2>1, <2>2 DEF TypeOK, Params
<1>3. Sources' /\ AdmittedIsMarked'
  BY DEF Sources, AdmittedIsMarked
<1> QED
  BY <1>1, <1>2, <1>3

(* Taking a packet off a queue leaves the last one where it was. *)
LEMMA LastOfTail ==
    ASSUME NEW S, NEW s \in Seq(S), s # <<>>
    PROVE  /\ Head(s) \in S /\ Tail(s) \in Seq(S)
           /\ Tail(s) = <<>> => Head(s) = s[Len(s)]
           /\ Tail(s) # <<>> => Tail(s)[Len(Tail(s))] = s[Len(s)]
<1>1. Len(s) \in Nat \ {0}
  BY EmptySeq
<1>2. /\ Head(s) \in S /\ Tail(s) \in Seq(S) /\ Len(Tail(s)) = Len(s) - 1
      /\ \A i \in 1 .. Len(Tail(s)) : Tail(s)[i] = s[i + 1]
  BY HeadTailProperties
<1>3. Head(s) = s[1]
  OBVIOUS
<1>4. ASSUME Tail(s) = <<>> PROVE Len(s) = 1
  <2>1. Len(Tail(s)) = 0
    BY <1>4, EmptySeq
  <2>2. Len(Tail(s)) = Len(s) - 1
    BY <1>2
  <2> HIDE <1>4
  <2> QED
    BY <1>1, <2>1, <2>2
<1>5. ASSUME Tail(s) # <<>> PROVE Len(Tail(s)) \in 1 .. Len(Tail(s))
  BY <1>2, <1>5, EmptySeq
<1> QED
  BY <1>1, <1>2, <1>3, <1>4, <1>5

LEMMA OutputKeeps ==
    ASSUME IInv, ReceiveOutput \/ LoseOutput
    PROVE  IInv'
<1> USE LinkAssumption DEF IInv, markerVars, switchVars
<1>1. to_avatar \in Seq(BOOLEAN) /\ to_avatar # <<>> /\ to_avatar' = Tail(to_avatar)
  BY DEF TypeOK, ReceiveOutput, LoseOutput
<1>2. /\ Head(to_avatar) \in BOOLEAN /\ to_avatar' \in Seq(BOOLEAN)
      /\ to_avatar' = <<>> => Head(to_avatar) = combat_enabled
      /\ to_avatar' # <<>> => to_avatar'[Len(to_avatar')] = combat_enabled
  BY <1>1, LastOfTail DEF LastSent
<1>3. combat_enabled' = combat_enabled
  BY DEF ReceiveOutput, LoseOutput
<1>4. LastSent'
  BY <1>2, <1>3 DEF LastSent
<1>5. CASE ReceiveOutput /\ avatar_toggle' # avatar_toggle /\ "toggle" \notin unpublished
  BY <1>2, <1>4, <1>5, ToggleKeeps DEF ReceiveOutput
<1>6. CASE ReceiveOutput /\ ~(avatar_toggle' # avatar_toggle /\ "toggle" \notin unpublished)
  <2>1. TypeOK'
    BY <1>2, <1>6 DEF ReceiveOutput, TypeOK, Published, Worn
  <2>2. Packets' /\ Sources' /\ AdmittedIsMarked'
    BY <1>6 DEF ReceiveOutput, Packets, Genuine, Sources, AdmittedIsMarked
  <2>3. Chase'
    BY <1>2, <1>3, <1>6 DEF ReceiveOutput, Chase, Told
  <2> QED
    BY <1>4, <2>1, <2>2, <2>3
<1>7. CASE LoseOutput
  <2>1. TypeOK'
    BY <1>2, <1>7 DEF LoseOutput, TypeOK, Published, Worn
  <2>2. Packets' /\ Sources' /\ AdmittedIsMarked' /\ Chase'
    BY <1>7 DEF LoseOutput, Packets, Genuine, Sources, AdmittedIsMarked, Chase
  <2> QED
    BY <1>4, <2>1, <2>2
<1> QED
  BY <1>5, <1>6, <1>7

(* The switch is sent when its cache does not hold it: the value under way  *)
(* is then the desktop's present one, and the chase is settled.             *)
LEMMA SendKeeps ==
    ASSUME IInv, NEW value \in BOOLEAN, NEW cached, value \notin cached,
           Send(value, cached), combat_enabled' = value
    PROVE  /\ to_avatar' \in Seq(BOOLEAN) /\ LastSent' /\ Chase'
           /\ lost' = FALSE /\ output_cache' \subseteq {combat_enabled'}
<1>1. /\ to_avatar' = Append(to_avatar, value) /\ lost' = FALSE /\ output_cache' = {value}
      /\ to_avatar \in Seq(BOOLEAN)
  BY DEF Send, IInv, TypeOK
<1>2. /\ to_avatar' \in Seq(BOOLEAN) /\ to_avatar' # <<>>
      /\ Len(to_avatar') = Len(to_avatar) + 1 /\ to_avatar'[Len(to_avatar) + 1] = value
  BY <1>1, Appended
<1>3. LastSent'
  BY <1>2 DEF LastSent
<1> QED
  BY <1>1, <1>2, <1>3 DEF Chase

(* The desktop's own changes of the switch. *)
LEMMA DesktopKeeps ==
    ASSUME IInv, CombatToggleFromUi \/ RestoreAfterRejection \/ \E enabled \in BOOLEAN : ApplySamState(enabled)
    PROVE  IInv'
<1> USE DEF IInv, markerVars
<1>1. UNCHANGED <<loads, avatar_toggle, unpublished, listening, osc_events, values, source, admitted>>
  BY DEF CombatToggleFromUi, RestoreAfterRejection, ApplySamState
<1>2. Packets' /\ Sources' /\ AdmittedIsMarked'
  BY <1>1 DEF Packets, Genuine, Sources, AdmittedIsMarked
<1>3. CASE RestoreAfterRejection
  <2>1. TypeOK' /\ LastSent' /\ Chase'
    BY <1>1, <1>3 DEF RestoreAfterRejection, TypeOK, Published, Worn, LastSent, Chase, Told
  <2> QED
    BY <1>2, <2>1
<1>4. CASE CombatToggleFromUi \/ \E enabled \in BOOLEAN : ApplySamState(enabled)
  <2>1. /\ to_avatar' \in Seq(BOOLEAN) /\ LastSent' /\ Chase' /\ combat_enabled' \in BOOLEAN
        /\ lost' = FALSE /\ output_cache' \subseteq {combat_enabled'}
    <3>1. CASE CombatToggleFromUi
      <4>1. combat_enabled' \in BOOLEAN /\ combat_enabled' \notin output_cache
        BY <3>1 DEF CombatToggleFromUi, TypeOK
      <4>2. Send(combat_enabled', output_cache)
        BY <3>1 DEF CombatToggleFromUi
      <4> QED
        BY <4>1, <4>2, SendKeeps
    <3>2. CASE \E enabled \in BOOLEAN : ApplySamState(enabled)
      <4>1. combat_enabled' \in BOOLEAN /\ Send(combat_enabled', {})
        BY <3>2 DEF ApplySamState
      <4> QED
        BY <4>1, SendKeeps
    <3> QED
      BY <1>4, <3>1, <3>2
  <2>2. TypeOK'
    BY <1>1, <2>1 DEF TypeOK, Published, Worn
  <2> QED
    BY <1>2, <2>1, <2>2
<1> QED
  BY <1>3, <1>4
----------------------------------------------------------------------------
(* Handling a packet: the queue without it. *)
LEMMA Dequeued ==
    ASSUME IInv, NEW i \in DOMAIN osc_events, osc_events' = RemoveAt(osc_events, i), UNCHANGED loads
    PROVE  /\ Packets'
           /\ \A j \in DOMAIN osc_events' : osc_events'[j].param \in Params /\ osc_events'[j].load \in DOMAIN loads'
           /\ \A k \in DOMAIN osc_events \ {i} : \E j \in DOMAIN osc_events' : osc_events'[j] = osc_events[k]
<1>1. osc_events \in Seq(Packet) /\ i \in 1 .. Len(osc_events)
  BY LenProperties DEF IInv, Packets
<1>2. osc_events' \in Seq(Packet)
  BY <1>1, RemoveAtProperties
<1>3. /\ \A j \in DOMAIN osc_events' : \E k \in DOMAIN osc_events : osc_events'[j] = osc_events[k]
      /\ \A k \in DOMAIN osc_events \ {i} : \E j \in DOMAIN osc_events' : osc_events'[j] = osc_events[k]
  BY <1>1, RemoveAtKeeps
<1>4. Packets'
  BY <1>2, <1>3 DEF IInv, Packets, Genuine
<1>5. \A j \in DOMAIN osc_events' : osc_events'[j].param \in Params /\ osc_events'[j].load \in DOMAIN loads'
  BY <1>4, PacketsType DEF Packets
<1> QED
  BY <1>3, <1>4, <1>5

(* The marker's packets: what is observed is what their load reports; a     *)
(* beacon that is current speaks for all fields.                            *)
LEMMA ObservedIsReported ==
    ASSUME IInv, NEW i \in DOMAIN osc_events, ObserveMarker(osc_events[i]), UNCHANGED loads
    PROVE  Sources' /\ values' \in [StaticFields -> Values] /\ source' \in [StaticFields -> 0 .. Len(loads)]
<1> DEFINE p == osc_events[i]
<1> USE LinkAssumption DEF IInv
<1>1. /\ p.param \in MarkerFields /\ values' = Observed(p)
      /\ source' = [f \in StaticFields |->
                       IF f = p.param \/ (p.param = "beacon" /\ p.value = "current") THEN p.load ELSE source[f]]
  BY DEF ObserveMarker
<1>2. /\ p.load \in DOMAIN loads /\ p.value = Marker[loads[p.load]][p.param]
      /\ Len(loads) \in Nat /\ DOMAIN loads = 1 .. Len(loads) /\ loads[p.load] \in Avatars
  <2>1. p.load \in DOMAIN loads /\ p.value = Marker[loads[p.load]][p.param]
    BY <1>1 DEF Packets, Genuine
  <2>2. Len(loads) \in Nat /\ DOMAIN loads = 1 .. Len(loads) /\ loads \in Seq(Avatars)
    BY LenProperties DEF TypeOK
  <2> QED
    BY <2>1, <2>2, ElementOfSeq
<1>3. p.value \in Values
  BY <1>1, <1>2 DEF Values, MarkerFields
<1> HIDE DEF p
<1>4. source' \in [StaticFields -> 0 .. Len(loads)]
  BY <1>1, <1>2 DEF TypeOK
<1>5. CASE p.param # "beacon"
  <2>1. p.param \in StaticFields /\ values' = [values EXCEPT ![p.param] = p.value]
    BY <1>1, <1>5 DEF Observed, MarkerFields
  <2>2. values' \in [StaticFields -> Values]
    BY <1>3, <2>1 DEF TypeOK
  <2>3. \A f \in StaticFields : source'[f] = IF f = p.param THEN p.load ELSE source[f]
    BY <1>1, <1>5
  <2>4. \A f \in StaticFields : values'[f] = IF f = p.param THEN p.value ELSE values[f]
    BY <2>1 DEF TypeOK
  <2>5. values'[p.param] = Marker[loads'[source'[p.param]]][p.param] /\ source'[p.param] # 0
    BY <1>2, <2>1, <2>3, <2>4
  <2>6. ASSUME NEW f \in StaticFields, f # p.param
        PROVE  values'[f] = IF source'[f] = 0 THEN "none" ELSE Marker[loads'[source'[f]]][f]
    BY <2>3, <2>4, <2>6 DEF Sources
  <2> QED
    BY <1>4, <2>2, <2>5, <2>6 DEF Sources
<1>6. CASE p.param = "beacon" /\ p.value = "current"
  <2>1. values' = [f \in StaticFields |-> "current"] /\ \A f \in StaticFields : source'[f] = p.load
    BY <1>1, <1>6 DEF Observed
  <2>2. \A f \in StaticFields : Marker[loads[p.load]][f] = "current"
    BY <1>2, <1>6, BeaconAssumption
  <2>3. p.load # 0
    BY <1>2
  <2>4. Sources'
    BY <2>1, <2>2, <2>3 DEF Sources
  <2> QED
    BY <1>4, <2>1, <2>4 DEF Values
<1>7. CASE p.param = "beacon" /\ p.value # "current"
  <2>1. values' = values
    BY <1>1, <1>7 DEF Observed
  <2>2. \A f \in StaticFields : source'[f] = source[f]
    BY <1>1, <1>7
  <2>3. Sources'
    BY <2>1, <2>2 DEF Sources
  <2> QED
    BY <1>4, <2>1, <2>3 DEF TypeOK
<1> QED
  BY <1>5, <1>6, <1>7

(* Any other packet taken from the queue leaves the avatar's value on its   *)
(* way.                                                                     *)
LEMMA ChaseGoesOn ==
    ASSUME IInv, NEW i \in DOMAIN osc_events, osc_events' = RemoveAt(osc_events, i),
           osc_events[i].param = "toggle" => osc_events[i].value # avatar_toggle,
           UNCHANGED <<loads, avatar_toggle, unpublished, to_avatar, combat_enabled>>, lost => lost'
    PROVE  Chase'
<1>1. ASSUME NEW k \in DOMAIN osc_events, Told(k)
      PROVE  \E j \in DOMAIN osc_events' : Told(j)'
  <2>1. k # i
    BY <1>1 DEF Told
  <2>2. PICK j \in DOMAIN osc_events' : osc_events'[j] = osc_events[k]
    BY <2>1, Dequeued
  <2> QED
    BY <1>1, <2>2 DEF Told
<1> QED
  BY <1>1 DEF IInv, Chase

LEMMA HandleKeeps ==
    ASSUME IInv, NEW i \in 1 .. Threads, HandleOscEvent(i)
    PROVE  IInv'
<1> DEFINE p == osc_events[i]
<1> USE LinkAssumption
<1>1. /\ i \in DOMAIN osc_events /\ osc_events' = RemoveAt(osc_events, i)
      /\ HandleChange(p) \/ ObserveMarker(p) \/ HandleToggle(p)
      /\ UNCHANGED <<loads, avatar_toggle, unpublished, listening, toggles, losses>>
  BY DEF HandleOscEvent
<1>2. /\ Packets'
      /\ \A j \in DOMAIN osc_events' : osc_events'[j].param \in Params /\ osc_events'[j].load \in DOMAIN loads'
  BY <1>1, Dequeued
<1>3. /\ p.load \in DOMAIN loads
      /\ p.param = "toggle" => p.value \in BOOLEAN
  BY <1>1 DEF IInv, Packets, Genuine
<1>4. /\ loads' \in Seq(Avatars) /\ Len(loads') \in 1 .. MaxLoads + 1
      /\ {avatar_toggle', listening'} \subseteq BOOLEAN
      /\ unpublished' \subseteq Published(Worn)'
  BY <1>1 DEF IInv, TypeOK, Published, Worn
<1> HIDE DEF p
<1>5. CASE HandleChange(p)
  <2>1. TypeOK'
    BY <1>1, <1>2, <1>4, <1>5 DEF IInv, HandleChange, TypeOK, Params, Reset, Unobserved, Values
  <2>2. Sources' /\ LastSent' /\ AdmittedIsMarked'
    BY <1>1, <1>5 DEF IInv, HandleChange, Reset, Unobserved, Sources, LastSent, AdmittedIsMarked
  <2>3. Chase'
    BY <1>1, <1>5, ChaseGoesOn DEF HandleChange, p
  <2> QED
    BY <1>2, <2>1, <2>2, <2>3 DEF IInv
<1>6. CASE ObserveMarker(p)
  <2>1. Sources' /\ values' \in [StaticFields -> Values] /\ source' \in [StaticFields -> 0 .. Len(loads)]
    BY <1>1, <1>6, ObservedIsReported DEF p
  <2>2. TypeOK'
    BY <1>1, <1>2, <1>4, <1>6, <2>1 DEF IInv, ObserveMarker, TypeOK, Params, switchVars
  <2>3. LastSent' /\ AdmittedIsMarked'
    BY <1>1, <1>6 DEF IInv, ObserveMarker, LastSent, AdmittedIsMarked, switchVars
  <2>4. p.param # "toggle"
    BY <1>6 DEF ObserveMarker, MarkerFields
  <2>5. Chase'
    BY <1>1, <1>6, <2>4, ChaseGoesOn DEF ObserveMarker, switchVars, p
  <2> QED
    BY <1>2, <2>1, <2>2, <2>3, <2>5 DEF IInv
<1>7. CASE HandleToggle(p)
  <2>1. p.param = "toggle" /\ p.value \in BOOLEAN /\ UNCHANGED markerVars
    BY <1>3, <1>7 DEF HandleToggle
  <2>2. Sources' /\ values' \in [StaticFields -> Values] /\ source' \in [StaticFields -> 0 .. Len(loads')]
    BY <1>1, <2>1 DEF IInv, Sources, TypeOK, markerVars
  <2>3. CASE IgnoreEcho(p)
    <3>1. p.value = combat_enabled
      BY <2>3 DEF IInv, TypeOK, IgnoreEcho
    <3>2. TypeOK' /\ LastSent' /\ AdmittedIsMarked'
      BY <1>1, <1>2, <1>4, <2>2, <2>3
         DEF IInv, IgnoreEcho, TypeOK, Params, LastSent, AdmittedIsMarked, switchVars
    <3>3. UNCHANGED <<avatar_toggle, unpublished, to_avatar, combat_enabled>> /\ (lost => lost')
      BY <1>1, <2>3 DEF IgnoreEcho, switchVars
    <3>4. ASSUME p.value = avatar_toggle PROVE Chase'
      <4>1. avatar_toggle' = combat_enabled'
        BY <3>3, <3>1, <3>4
      <4> QED
        BY <4>1 DEF Chase
    <3>5. ASSUME p.value # avatar_toggle PROVE Chase'
      BY <1>1, <3>3, <3>5, ChaseGoesOn DEF p
    <3> QED
      BY <1>2, <2>2, <3>2, <3>4, <3>5 DEF IInv
  <2>4. CASE BlockInput(p)
    <3>1. /\ lost' = (lost \/ p.value # combat_enabled) /\ lost' \in BOOLEAN
          /\ UNCHANGED <<to_avatar, output_cache, combat_enabled, admitted>>
      BY <2>4 DEF BlockInput, switchVars, IInv, TypeOK
    <3>2. TypeOK' /\ LastSent' /\ AdmittedIsMarked'
      BY <1>1, <1>2, <1>4, <2>2, <3>1
         DEF IInv, TypeOK, Params, LastSent, AdmittedIsMarked
    <3>3. ASSUME p.value = avatar_toggle PROVE Chase'
      <4>1. CASE p.value = combat_enabled
        <5>1. avatar_toggle' = combat_enabled'
          BY <1>1, <3>1, <3>3, <4>1
        <5> QED
          BY <5>1 DEF Chase
      <4>2. CASE p.value # combat_enabled
        <5>1. lost'
          BY <3>1, <4>2
        <5> QED
          BY <5>1 DEF Chase
      <4> QED
        BY <4>1, <4>2
    <3>4. ASSUME p.value # avatar_toggle PROVE Chase'
      <4>1. UNCHANGED <<avatar_toggle, unpublished, to_avatar, combat_enabled>> /\ (lost => lost')
        BY <1>1, <3>1
      <4> QED
        BY <1>1, <3>4, <4>1, ChaseGoesOn DEF p
    <3> QED
      BY <1>2, <2>2, <3>2, <3>3, <3>4 DEF IInv
  <2>5. CASE AdmitInput(p)
    <3>1. p.value \notin output_cache /\ Send(p.value, output_cache) /\ combat_enabled' = p.value
      BY <2>5 DEF AdmitInput, Acknowledge
    <3>2. /\ to_avatar' \in Seq(BOOLEAN) /\ LastSent' /\ Chase'
          /\ lost' = FALSE /\ output_cache' \subseteq {combat_enabled'}
      BY <2>1, <3>1, SendKeeps
    <3>3. admitted' \subseteq DOMAIN loads'
      BY <1>1, <1>3, <2>5 DEF IInv, TypeOK, AdmitInput
    <3>4. TypeOK'
      BY <1>2, <1>4, <2>1, <2>2, <3>1, <3>2, <3>3 DEF TypeOK, Params
    <3>5. ASSUME \A f \in StaticFields : source[f] \in {0, p.load}
          PROVE  \A f \in StaticFields : Marker[loads[p.load]][f] = "current"
      BY <2>5, <3>5 DEF IInv, Sources, AdmitInput, Compatible
    <3>6. AdmittedIsMarked'
      BY <1>1, <2>5, <3>5 DEF IInv, AdmitInput, AdmittedIsMarked
    <3> QED
      BY <1>2, <2>2, <3>2, <3>4, <3>6 DEF IInv
  <2> QED
    BY <1>7, <2>3, <2>4, <2>5 DEF HandleToggle
<1> QED
  BY <1>1, <1>5, <1>6, <1>7
----------------------------------------------------------------------------
LEMMA NextInv == IInv /\ [Next]_vars => IInv'
<1> SUFFICES ASSUME IInv, [Next]_vars PROVE IInv'
  OBVIOUS
<1> USE LinkAssumption
<1>1. CASE \E a \in Avatars : LoadAvatar(a)
  BY <1>1, LoadKeeps
<1>2. ASSUME NEW param \in StaticFields \cup {"toggle"}, Publish(param) PROVE IInv'
  <2>1. CASE param = "toggle"
    <3>1. avatar_toggle' \in BOOLEAN /\ ReportToggle(avatar_toggle')
      BY <1>2, <2>1 DEF Publish, IInv, TypeOK
    <3>2. to_avatar' \in Seq(BOOLEAN) /\ LastSent'
      BY <1>2 DEF Publish, IInv, TypeOK, LastSent, switchVars
    <3>3. /\ unpublished' \subseteq unpublished
          /\ UNCHANGED <<loads, listening, markerVars, switchVars, admitted>>
      BY <1>2 DEF Publish
    <3> QED
      BY <3>1, <3>2, <3>3, ToggleKeeps
  <2>2. CASE param # "toggle"
    <3>1. param \in MarkerFields
      BY <2>2 DEF MarkerFields
    <3> QED
      BY <1>2, <2>2, <3>1, MarkerKeeps DEF Publish
  <2> QED
    BY <2>1, <2>2
<1>3. CASE RepeatBeacon
  <2>1. "beacon" \in MarkerFields
    BY DEF MarkerFields
  <2> QED
    BY <1>3, <2>1, MarkerKeeps DEF RepeatBeacon
<1>4. CASE AvatarToggle
  <2>1. avatar_toggle' \in BOOLEAN /\ ReportToggle(avatar_toggle')
    BY <1>4 DEF AvatarToggle, IInv, TypeOK
  <2>2. to_avatar' \in Seq(BOOLEAN) /\ LastSent'
    BY <1>4 DEF AvatarToggle, IInv, TypeOK, LastSent, switchVars
  <2> QED
    BY <1>4, <2>1, <2>2, ToggleKeeps DEF AvatarToggle
<1>5. CASE ReceiveOutput \/ LoseOutput
  BY <1>5, OutputKeeps
<1>6. ASSUME NEW i \in 1 .. Threads, HandleOscEvent(i) PROVE IInv'
  BY <1>6, HandleKeeps
<1>7. CASE StopListener \/ StartListener
  <2>1. TypeOK'
    BY <1>7 DEF IInv, TypeOK, StopListener, StartListener, markerVars, switchVars, Published, Worn
  <2>2. Packets' /\ Sources'
    BY <1>7 DEF IInv, Packets, Genuine, Sources, StopListener, StartListener, markerVars
  <2>3. LastSent' /\ Chase' /\ AdmittedIsMarked'
    BY <1>7 DEF IInv, LastSent, Chase, Told, AdmittedIsMarked, StopListener, StartListener, switchVars
  <2> QED
    BY <2>1, <2>2, <2>3 DEF IInv
<1>8. CASE CombatToggleFromUi \/ RestoreAfterRejection \/ \E enabled \in BOOLEAN : ApplySamState(enabled)
  BY <1>8, DesktopKeeps
<1>9. CASE UNCHANGED vars
  <2>1. TypeOK'
    BY <1>9 DEF IInv, TypeOK, vars, Published, Worn
  <2>2. Packets' /\ Sources'
    BY <1>9 DEF IInv, Packets, Genuine, Sources, vars
  <2>3. LastSent' /\ Chase' /\ AdmittedIsMarked'
    BY <1>9 DEF IInv, LastSent, Chase, Told, AdmittedIsMarked, vars
  <2> QED
    BY <2>1, <2>2, <2>3 DEF IInv
<1> QED
  BY <1>1, <1>2, <1>3, <1>4, <1>5, <1>6, <1>7, <1>8, <1>9 DEF Next, VRChat, Desktop
----------------------------------------------------------------------------
LEMMA Invariance == Spec => []IInv
BY InitInv, NextInv, PTL DEF Spec

(* The cache holds nothing but the switch's own value: an echo agrees with  *)
(* the state, whatever the avatar, Sam.py and the threads do.               *)
THEOREM LinkTypes == Spec => []TypeOK
<1>1. IInv => TypeOK
  BY DEF IInv
<1> QED
  BY <1>1, Invariance, PTL

(* With nothing of the switch under way, the avatar and the desktop agree   *)
(* on it, for any number of threads, changes and avatars.                   *)
THEOREM QuietSidesAgree == Spec => []QuietAgreement
<1>1. IInv => QuietAgreement
  BY DEF IInv, Chase, Told, QuietAgreement, InFlight
<1> QED
  BY <1>1, Invariance, PTL

(* Only an avatar with a current marker has its input admitted on its own   *)
(* packets, whatever the order of the packets of all avatars worn.          *)
THEOREM AdmissionIsEarned == Spec => []AdmittedIsMarked
<1>1. IInv => AdmittedIsMarked
  BY DEF IInv
<1> QED
  BY <1>1, Invariance, PTL
============================================================================
