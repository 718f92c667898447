------------------------ MODULE ActionTelemetryProofs ------------------------
(***************************************************************************)
(* Theorems about ActionTelemetry, for every set of fields, ids and bits,   *)
(* every time and all bounds.  The direct fields and the bus share no state *)
(* but the sync, so that each has an inductive invariant of its own.        *)
(***************************************************************************)
EXTENDS ActionTelemetry, TLAPS

Values == [DirectFields -> Ids \cup {0}]

DirectTypes ==
    /\ button \in Values /\ latch \in Values /\ telemetry \in Values
    /\ \A f \in DirectFields : telemetry[f] \in {0, latch[f]}
    /\ output_zero \subseteq KoFields
    /\ {is_ko, sync_due, sync_inflight} \subseteq BOOLEAN

(* A field that holds a value has a live packet no payload has used yet. *)
Unused ==
    /\ uses \in [DirectFields -> Nat] /\ live_packets \in [DirectFields -> Nat]
    /\ \A f \in DirectFields : /\ uses[f] <= live_packets[f]
                               /\ telemetry[f] # 0 => uses[f] < live_packets[f]

DirectInv == DirectTypes /\ Unused
----------------------------------------------------------------------------
(* The direct fields. *)

LEMMA ReceiveKeeps ==
    ASSUME DirectInv, NEW f \in DirectFields, NEW id \in Ids, ReceiveValue(f, id),
           button' \in Values, UNCHANGED <<is_ko, sync_inflight, uses>>
    PROVE  DirectInv'
<1> USE ActionAssumption DEF DirectInv, Values
<1>1. CASE IsDead(f) /\ RejectDead(f, id)
  <2>1. DirectTypes'
    BY <1>1 DEF DirectTypes, RejectDead, IsDead
  <2>2. \A g \in DirectFields : telemetry'[g] = IF g = f THEN 0 ELSE telemetry[g]
    BY <1>1 DEF DirectTypes, RejectDead
  <2>3. Unused'
    BY <1>1, <2>2 DEF Unused, RejectDead
  <2> QED
    BY <2>1, <2>3
<1>2. CASE ~IsDead(f) /\ AcceptPress(f, id)
  <2>1. DirectTypes'
    <3>1. sync_due' \in BOOLEAN
      BY <1>2 DEF AcceptPress
    <3>2. /\ latch' \in Values /\ telemetry' \in Values
          /\ \A g \in DirectFields : telemetry'[g] \in {0, latch'[g]}
      BY <1>2 DEF DirectTypes, AcceptPress
    <3>3. output_zero' \subseteq KoFields /\ {is_ko', sync_inflight'} \subseteq BOOLEAN
      BY <1>2 DEF DirectTypes, AcceptPress
    <3> QED
      BY <3>1, <3>2, <3>3 DEF DirectTypes
  <2>2. /\ \A g \in DirectFields : telemetry'[g] = IF g = f THEN id ELSE telemetry[g]
        /\ live_packets' = [live_packets EXCEPT ![f] = @ + 1]
    BY <1>2 DEF DirectTypes, AcceptPress, IsDead
  <2>3. Unused'
    BY <2>2 DEF Unused
  <2> QED
    BY <2>1, <2>3
<1> QED
  BY <1>1, <1>2 DEF ReceiveValue

LEMMA ReleaseKeeps ==
    ASSUME DirectInv, NEW f \in DirectFields, Release(f)
    PROVE  DirectInv'
<1> USE ActionAssumption DEF DirectInv, Values, syncVars, pressVars, payloadVars
<1>1. DirectTypes'
  BY DEF DirectTypes, Release, Released
<1>2. \A g \in DirectFields : telemetry'[g] \in {0, telemetry[g]}
  BY DEF DirectTypes, Release, Released
<1>3. Unused'
  BY <1>2 DEF Unused, Release
<1> QED
  BY <1>1, <1>3

LEMMA PushKeepsDirect ==
    ASSUME DirectInv, Push
    PROVE  DirectInv'
<1> USE DEF DirectInv
<1>1. DirectTypes'
  BY DEF DirectTypes, Push, Emptied, Values, avatarVars
<1>2. \A f \in DirectFields : telemetry'[f] = 0
  BY DEF Push, Emptied
<1>3. uses' = [f \in DirectFields |-> uses[f] + (IF f \in SentFields THEN 1 ELSE 0)]
  BY DEF Push
<1>4. uses' \in [DirectFields -> Nat]
  BY <1>3 DEF Unused
<1>5. \A f \in DirectFields : uses'[f] <= live_packets[f]
  BY <1>3 DEF Unused, SentFields
<1>6. live_packets' = live_packets
  BY DEF Push, pressVars
<1>7. Unused'
  BY <1>2, <1>4, <1>5, <1>6 DEF Unused
<1> QED
  BY <1>1, <1>7

(* The steps of the bus, and those of the program that concern no field.    *)
LEMMA OthersKeepDirect ==
    ASSUME DirectInv,
           UNCHANGED <<button, latch, telemetry, uses, live_packets>>,
           {is_ko', sync_due', sync_inflight'} \subseteq BOOLEAN, output_zero' \subseteq output_zero
    PROVE  DirectInv'
BY DEF DirectInv, DirectTypes, Unused

LEMMA BusKeepsDirect ==
    ASSUME DirectInv, Advance \/ Bus \/ StartRound \/ Drained \/ Tick \/ NothingToPush \/ SyncResolved
                      \/ Change \/ UNCHANGED vars
    PROVE  DirectInv'
<1> USE DEF directVars, pressVars, payloadVars, avatarVars
<1>1. CASE Bus
  <2>1. UNCHANGED <<button, is_ko, directVars, syncVars, pressVars, payloadVars>>
    <3>1. ASSUME NEW bits, TouchAction(bits) PROVE UNCHANGED <<button, is_ko, directVars, syncVars, pressVars, payloadVars>>
      BY <3>1 DEF TouchAction
    <3>2. ASSUME NEW p, ReceivePacket(p) PROVE UNCHANGED <<button, is_ko, directVars, syncVars, pressVars, payloadVars>>
      BY <3>2 DEF ReceivePacket
    <3>3. ASSUME NEW e, HandleBus(e) PROVE UNCHANGED <<button, is_ko, directVars, syncVars, pressVars, payloadVars>>
      BY <3>3 DEF HandleBus
    <3> QED
      BY <1>1, <3>1, <3>2, <3>3 DEF Bus, LeaveAction
  <2> QED
    BY <2>1, OthersKeepDirect DEF DirectInv, DirectTypes, syncVars
<1>2. CASE Tick
  <2>1. sync_due' \in BOOLEAN
    BY <1>2 DEF Tick, Resolve, DirectInv, DirectTypes
  <2> QED
    BY <1>2, <2>1, OthersKeepDirect DEF Tick, DirectInv, DirectTypes
<1>3. CASE SyncResolved
  BY <1>3, OthersKeepDirect DEF SyncResolved, DirectInv, DirectTypes
<1>4. CASE Change
  BY <1>4, OthersKeepDirect DEF Change, DirectInv, DirectTypes
<1>5. CASE Advance \/ StartRound \/ Drained \/ NothingToPush \/ UNCHANGED vars
  BY <1>5, OthersKeepDirect DEF Advance, StartRound, Drained, NothingToPush, vars, DirectInv, DirectTypes, syncVars
<1> QED
  BY <1>1, <1>2, <1>3, <1>4, <1>5

(* The buttons: what their fields, latches and histories keep. *)
LEMMA DirectInvariance == Spec => []DirectInv
<1>1. Init => DirectInv
  <2> SUFFICES ASSUME Init PROVE DirectInv
    OBVIOUS
  <2>1. DirectTypes
    BY DEF Init, DirectTypes, Values
  <2>2. Unused
    BY DEF Init, Unused
  <2> QED
    BY <2>1, <2>2 DEF DirectInv
<1>2. DirectInv /\ [Next]_vars => DirectInv'
  <2> SUFFICES ASSUME DirectInv, [Next]_vars PROVE DirectInv'
    OBVIOUS
  <2>1. ASSUME NEW f \in DirectFields, NEW id \in Ids, Press(f, id) PROVE DirectInv'
    <3>1. button' \in Values
      BY <2>1 DEF Press, DirectInv, DirectTypes, Values
    <3> QED
      BY <2>1, <3>1, ReceiveKeeps DEF Press, payloadVars
  <2>2. ASSUME NEW f \in DirectFields, Repeat(f) PROVE DirectInv'
    <3>1. button[f] \in Ids /\ button' \in Values
      BY <2>2 DEF Repeat, avatarVars, DirectInv, DirectTypes, Values
    <3> QED
      BY <2>2, <3>1, ReceiveKeeps DEF Repeat, payloadVars
  <2>3. ASSUME NEW f \in DirectFields, Release(f) PROVE DirectInv'
    BY <2>3, ReleaseKeeps
  <2> QED
    BY <2>1, <2>2, <2>3, PushKeepsDirect, BusKeepsDirect DEF Next, Direct, Round
<1> QED
  BY <1>1, <1>2, PTL DEF Spec
----------------------------------------------------------------------------
(* The bus: the packets still to be handled, and what the bus has made of   *)
(* those that were.                                                         *)
PacketSet == [contact : DOMAIN contacts, on : BOOLEAN, part : Bits \cup {Active}]

Waiting == {w.packet : w \in wire} \cup {e.packet : e \in osc_events}

EdgeOf(p) == [contact |-> p.contact, on |-> p.on]
Newest == [contact |-> Len(contacts), on |-> touching]

BusTypes ==
    /\ now \in Nat /\ drained_at \in Nat /\ bus_pending_until \in Nat
    /\ contacts \in Seq((SUBSET Bits) \ {{}}) /\ touching \in BOOLEAN
    /\ touching => contacts # <<>>
    /\ wire \subseteq [packet : PacketSet, sent : Nat]
    /\ osc_events \subseteq [packet : PacketSet, received : Nat]
    /\ bus_active \in BOOLEAN /\ bus_bits \subseteq Bits /\ bus_type \subseteq Bits
    /\ handled \in [contact : 0..Len(contacts), on : BOOLEAN]
    /\ handled.on \/ bus_type # {} => handled.contact # 0
    /\ reports \in Seq([contact : Nat, bits : SUBSET Bits])
    /\ \A i \in DOMAIN reports : reports[i].contact \in DOMAIN contacts

(* A packet is in one place, and only those of the last edge are under way. *)
Carriers ==
    /\ \A v, w \in wire : v.sent = w.sent
    /\ \A w \in wire : EdgeOf(w.packet) = Newest
    /\ \A d, e \in osc_events : d.packet = e.packet => d = e
    /\ \A w \in wire, e \in osc_events : w.packet # e.packet

(* What waits is of the edge handled last or of a later one, and all of     *)
(* every later one waits.                                                   *)
Stream ==
    /\ ~Before(Newest, handled)
    /\ \A p \in Waiting : /\ ~Before(p, handled) /\ ~Before(Newest, p)
                          /\ p.part \in contacts[p.contact] \cup {Active}
    /\ \A c \in DOMAIN contacts : \A on \in BOOLEAN : \A x \in contacts[c] \cup {Active} :
          LET p == [contact |-> c, on |-> on, part |-> x]
          IN  Before(handled, p) /\ ~Before(Newest, p) => p \in Waiting

(* The parts of the edge handled last that still wait. *)
Owed == {x \in Bits \cup {Active} : [contact |-> handled.contact, on |-> handled.on, part |-> x] \in Waiting}

HandledBits == IF handled.contact = 0 THEN {} ELSE contacts[handled.contact]

Read ==
    /\ bus_active <=> (handled.on <=> Active \notin Owed)
    /\ bus_bits = IF handled.on THEN HandledBits \ Owed ELSE HandledBits \cap Owed

Structure == BusTypes /\ Carriers /\ Stream /\ Read
----------------------------------------------------------------------------
(* How far the stamps of one edge are apart, and how old the queue is. *)
Stamps ==
    /\ \A w \in wire : w.sent <= now /\ now <= w.sent + Skew
    /\ \A e \in osc_events : e.received <= now
    /\ \A w \in wire, e \in osc_events : EdgeOf(e.packet) = EdgeOf(w.packet) => w.sent <= e.received
    /\ \A d, e \in osc_events : EdgeOf(d.packet) = EdgeOf(e.packet) => d.received <= e.received + Skew
    /\ phase = "events" => /\ drained_at <= now /\ now <= drained_at + Work
                           /\ \A e \in osc_events : drained_at <= e.received

(* An active bus that is owed a part waits longer than the part does. *)
Armed ==
    /\ bus_pending_until # 0 => bus_active
    /\ bus_active /\ Owed # {} =>
          /\ bus_pending_until # 0
          /\ \A w \in wire : EdgeOf(w.packet) = handled => w.sent + BusSettle <= bus_pending_until
          /\ \A e \in osc_events : EdgeOf(e.packet) = handled =>
                e.received + BusSettle <= bus_pending_until + Skew

Unreported(c) == \A i \in DOMAIN reports : reports[i].contact # c

(* The field holds the id of the Contact handled last, which no payload has *)
(* named; while a Contact is not read, the field is empty.                  *)
Field ==
    /\ bus_type # {} => /\ bus_active
                        /\ handled.contact # 0
                        /\ bus_type = HandledBits
                        /\ Unreported(handled.contact)
    /\ handled.on /\ (bus_pending_until # 0 \/ Owed # {}) => bus_type = {} /\ Unreported(handled.contact)
    /\ \A i \in DOMAIN reports : /\ reports[i].contact <= handled.contact
                                 /\ reports[i].bits = contacts[reports[i].contact]
    /\ \A i, j \in DOMAIN reports : reports[i].contact = reports[j].contact => i = j

BusInv == Structure /\ Stamps /\ (Timely => Armed /\ Field)
----------------------------------------------------------------------------
(* What the types say of a packet on its way and of a Contact. *)
LEMMA Typed ==
    ASSUME BusTypes
    PROVE  /\ now \in Nat /\ drained_at \in Nat /\ bus_pending_until \in Nat
           /\ \A w \in wire : w.packet \in PacketSet /\ w.sent \in Nat /\ w = [packet |-> w.packet, sent |-> w.sent]
           /\ \A e \in osc_events : e.packet \in PacketSet /\ e.received \in Nat
           /\ \A c \in DOMAIN contacts : contacts[c] \in (SUBSET Bits) \ {{}}
           /\ \A i \in DOMAIN reports : reports[i].contact \in Nat
<1>1. \A w \in wire : w.packet \in PacketSet /\ w.sent \in Nat /\ w = [packet |-> w.packet, sent |-> w.sent]
  BY DEF BusTypes
<1>2. \A e \in osc_events : e.packet \in PacketSet /\ e.received \in Nat
  BY DEF BusTypes
<1>3. \A c \in DOMAIN contacts : contacts[c] \in (SUBSET Bits) \ {{}}
  BY DEF BusTypes
<1>4. \A i \in DOMAIN reports : reports[i].contact \in Nat
  <2>1. \A i \in DOMAIN reports : reports[i].contact \in DOMAIN contacts
    BY DEF BusTypes
  <2>2. DOMAIN contacts \subseteq Nat
    BY DEF BusTypes
  <2> QED
    BY <2>1, <2>2
<1>5. now \in Nat /\ drained_at \in Nat /\ bus_pending_until \in Nat
  BY DEF BusTypes
<1> QED
  BY <1>1, <1>2, <1>3, <1>4, <1>5

(* Steps that move no packet and read no bit. *)

LEMMA SameStream ==
    ASSUME Structure, UNCHANGED <<contacts, touching, wire, osc_events, handled, bus_active, bus_bits>>
    PROVE  /\ Carriers' /\ Stream' /\ Read'
           /\ PacketSet' = PacketSet /\ Owed' = Owed /\ HandledBits' = HandledBits
BY DEF Structure, PacketSet, Carriers, Stream, Read, Waiting, Owed, HandledBits, Newest

LEMMA OthersKeepBus ==
    ASSUME BusInv, UNCHANGED <<contacts, touching, wire, osc_events, busVars, reports>>,
           \/ UNCHANGED <<now, drained_at>> /\ phase' # "events"
           \/ UNCHANGED <<now, roundVars>>
           \/ Advance \/ Drained
    PROVE  BusInv'
<1> USE ActionAssumption DEF BusInv, busVars
<1>1. Carriers' /\ Stream' /\ Read' /\ PacketSet' = PacketSet /\ Owed' = Owed /\ HandledBits' = HandledBits
  BY SameStream
<1>2. now' \in Nat /\ drained_at' \in Nat
  <2>1. now \in Nat /\ drained_at \in Nat
    BY DEF Structure, BusTypes
  <2>2. CASE Advance
    BY <2>1, <2>2 DEF Advance, roundVars
  <2>3. CASE Drained
    BY <2>1, <2>3 DEF Drained
  <2> QED
    BY <2>1, <2>2, <2>3 DEF roundVars
<1>3. Structure'
  BY <1>1, <1>2 DEF Structure, BusTypes
<1>4. Stamps'
  <2>1. CASE UNCHANGED <<now, drained_at>> /\ phase' # "events"
    BY <2>1 DEF Stamps
  <2>2. CASE UNCHANGED <<now, roundVars>>
    BY <2>2 DEF Stamps, roundVars
  <2>3. CASE Advance
    <3>1. now' = now + 1 /\ phase' = phase /\ drained_at' = drained_at /\ (phase = "events" => now < drained_at + Work)
          /\ \A w \in wire : now < w.sent + Skew
      BY <2>3 DEF Advance, roundVars
    <3>2. /\ now \in Nat /\ drained_at \in Nat
          /\ \A w \in wire : w.sent \in Nat
          /\ \A e \in osc_events : e.received \in Nat
      BY Typed DEF Structure
    <3>3. Work \in Nat /\ Skew \in Nat
      OBVIOUS
    <3>4. \A w \in wire : w.sent <= now' /\ now' <= w.sent + Skew
      BY <3>1, <3>2, <3>3 DEF Stamps
    <3>5. \A e \in osc_events : e.received <= now'
      BY <3>1, <3>2 DEF Stamps
    <3>6. phase' = "events" => drained_at <= now' /\ now' <= drained_at + Work
      BY <3>1, <3>2, <3>3 DEF Stamps
    <3> QED
      BY <3>1, <3>4, <3>5, <3>6 DEF Stamps
  <2>4. CASE Drained
    BY <2>4 DEF Drained, Stamps, Structure, BusTypes
  <2> QED
    BY <2>1, <2>2, <2>3, <2>4
<1>5. Timely => Armed' /\ Field'
  BY <1>1 DEF Armed, Field, Unreported
<1> QED
  BY <1>3, <1>4, <1>5
----------------------------------------------------------------------------
LEMMA InitBus == Init => BusInv
<1> SUFFICES ASSUME Init PROVE BusInv
  OBVIOUS
<1>1. wire = {} /\ osc_events = {} /\ contacts = <<>> /\ Waiting = {} /\ Owed = {} /\ HandledBits = {}
  BY DEF Init, Waiting, Owed, HandledBits
<1>2. BusTypes
  <2>1. contacts \in Seq((SUBSET Bits) \ {{}}) /\ reports \in Seq([contact : Nat, bits : SUBSET Bits]) /\ DOMAIN reports = {}
    BY DEF Init
  <2>2. handled \in [contact : 0..Len(contacts), on : BOOLEAN] /\ ~handled.on
    BY DEF Init
  <2> QED
    BY <1>1, <2>1, <2>2 DEF Init, BusTypes
<1>3. Carriers /\ Read /\ Stream
  BY <1>1 DEF Init, Carriers, Read, Stream, Newest, Before
<1>4. Stamps /\ Armed
  BY <1>1 DEF Init, Stamps, Armed
<1>5. Field
  BY <1>1 DEF Init, Field
<1> QED
  BY <1>2, <1>3, <1>4, <1>5 DEF BusInv, Structure
----------------------------------------------------------------------------
(* The packets of a new edge come after all others. *)
LEMMA NewEdge ==
    ASSUME BusInv, wire = {}, NEW c \in Nat \ {0}, NEW on \in BOOLEAN,
           contacts' \in Seq((SUBSET Bits) \ {{}}), Len(contacts') = c, touching' = on,
           \A i \in DOMAIN contacts : i \in DOMAIN contacts' /\ contacts'[i] = contacts[i],
           Before(Newest, [contact |-> c, on |-> on]),
           \A d \in 1..c, o \in BOOLEAN : LET p == [contact |-> d, on |-> o]
              IN  Before(Newest, p) /\ ~Before([contact |-> c, on |-> on], p) => p = [contact |-> c, on |-> on],
           wire' = Sent(Edge(c, contacts'[c], on)),
           UNCHANGED <<now, osc_events, busVars, roundVars, reports>>
    PROVE  BusInv'
<1> USE ActionAssumption DEF BusInv, Structure
<1> DEFINE new == Edge(c, contacts'[c], on)
<1>1. c \in DOMAIN contacts' /\ contacts'[c] \in (SUBSET Bits) \ {{}} /\ DOMAIN contacts' = 1..c
  OBVIOUS
<1>2. /\ \A p \in new : p.contact = c /\ p.on = on /\ p.part \in contacts'[c] \cup {Active}
      /\ \A x \in contacts'[c] \cup {Active} : [contact |-> c, on |-> on, part |-> x] \in new
      /\ new \subseteq PacketSet'
  BY <1>1 DEF Edge, PacketSet
<1>3. \A w \in wire' : w.packet \in new /\ w.sent = now
  BY DEF Sent
<1>4. \A p \in new : [packet |-> p, sent |-> now] \in wire'
  BY DEF Sent
<1> HIDE DEF new
<1>5. Waiting' = Waiting \cup new
  <2>1. {w.packet : w \in wire'} = new
    <3>1. \A p \in new : p \in {w.packet : w \in wire'}
      <4> SUFFICES ASSUME NEW p \in new PROVE \E w \in wire' : p = w.packet
        OBVIOUS
      <4>1. [packet |-> p, sent |-> now].packet = p
        OBVIOUS
      <4> QED
        BY <1>4, <4>1
    <3> QED
      BY <1>3, <3>1
  <2> QED
    BY <2>1 DEF Waiting
<1>6. Newest' = [contact |-> c, on |-> on]
  BY DEF Newest
<1>7. DOMAIN contacts \subseteq DOMAIN contacts' /\ Len(contacts) \in Nat /\ Len(contacts) <= c
  BY DEF BusTypes, Newest, Before
<1>8. PacketSet \subseteq PacketSet'
  BY <1>7 DEF PacketSet
<1>9. \A p \in Waiting : p \in PacketSet /\ ~Before(Newest, p)
  <2>1. \A p \in Waiting : p \in PacketSet
    BY Typed DEF Waiting
  <2> QED
    BY <2>1 DEF Stream
<1>10. \A p \in Waiting : EdgeOf(p) # Newest' /\ ~Before(Newest', p)
  BY <1>6, <1>7, <1>9 DEF EdgeOf, Before, Newest, PacketSet, BusTypes
<1>11. handled # Newest' /\ ~Before(Newest', handled) /\ Before(handled, Newest')
  BY <1>6, <1>7 DEF Stream, BusTypes, Before, Newest
<1>12. Owed' = Owed
  <2>1. \A x : [contact |-> handled.contact, on |-> handled.on, part |-> x] \notin new
    BY <1>2, <1>6, <1>11 DEF BusTypes
  <2>2. handled' = handled
    BY DEF busVars
  <2> QED
    BY <1>5, <2>1, <2>2 DEF Owed
<1>13. HandledBits' = HandledBits
  <2>1. handled' = handled
    BY DEF busVars
  <2>2. handled.contact # 0 => handled.contact \in DOMAIN contacts
    BY DEF BusTypes
  <2> QED
    BY <2>1, <2>2 DEF HandledBits
<1>14. BusTypes'
  <2>1. wire' \subseteq [packet : PacketSet', sent : Nat]
    BY <1>2, <1>3 DEF BusTypes, Sent, new
  <2>2. osc_events' \subseteq [packet : PacketSet', received : Nat]
    BY <1>8 DEF BusTypes
  <2>3. handled' \in [contact : 0..Len(contacts'), on : BOOLEAN]
    BY <1>7 DEF BusTypes, busVars
  <2>4. reports' \in Seq([contact : Nat, bits : SUBSET Bits]) /\ \A i \in DOMAIN reports' : reports'[i].contact \in DOMAIN contacts'
    BY <1>7 DEF BusTypes
  <2> QED
    BY <1>1, <2>1, <2>2, <2>3, <2>4 DEF BusTypes, busVars, roundVars
<1>15. Carriers'
  <2>1. \A w \in wire' : EdgeOf(w.packet) = Newest'
    BY <1>2, <1>3, <1>6 DEF EdgeOf
  <2>2. \A e \in osc_events : EdgeOf(e.packet) # Newest'
    BY <1>10 DEF Waiting
  <2> QED
    BY <1>3, <2>1, <2>2 DEF Carriers, EdgeOf
<1>16. Stream'
  <2>1. handled' = handled
    BY DEF busVars
  <2>2. \A p \in Waiting' : /\ ~Before(p, handled) /\ ~Before(Newest', p)
                            /\ p.part \in contacts'[p.contact] \cup {Active}
    <3> SUFFICES ASSUME NEW p \in Waiting'
                 PROVE  /\ ~Before(p, handled) /\ ~Before(Newest', p)
                        /\ p.part \in contacts'[p.contact] \cup {Active}
      OBVIOUS
    <3>1. CASE p \in Waiting
      BY <1>9, <1>10, <3>1 DEF Stream, PacketSet
    <3>2. CASE p \in new
      BY <1>2, <1>6, <1>7, <1>11, <3>2 DEF Before, BusTypes
    <3> QED
      BY <1>5, <3>1, <3>2
  <2>3. ASSUME NEW d \in DOMAIN contacts', NEW o \in BOOLEAN, NEW x \in contacts'[d] \cup {Active},
               Before(handled, [contact |-> d, on |-> o, part |-> x]),
               ~Before(Newest', [contact |-> d, on |-> o, part |-> x])
        PROVE  [contact |-> d, on |-> o, part |-> x] \in Waiting'
    <3> DEFINE p == [contact |-> d, on |-> o, part |-> x]
    <3>1. CASE Before(Newest, p)
      <4>1. d = c /\ o = on
        <5>1. Before(Newest, [contact |-> d, on |-> o]) /\ ~Before([contact |-> c, on |-> on], [contact |-> d, on |-> o])
          BY <1>6, <2>3, <3>1 DEF Before
        <5>2. [contact |-> d, on |-> o] = [contact |-> c, on |-> on]
          BY <1>1, <5>1
        <5> QED
          BY <5>2
      <4> QED
        BY <1>2, <1>5, <4>1
    <3>2. CASE ~Before(Newest, p)
      <4>1. d \in DOMAIN contacts /\ contacts'[d] = contacts[d]
        BY <1>1, <1>7, <3>2 DEF Before, Newest, BusTypes
      <4>2. p \in Waiting
        BY <2>3, <3>2, <4>1 DEF Stream
      <4> QED
        BY <1>5, <4>2
    <3> QED
      BY <3>1, <3>2
  <2> QED
    BY <1>11, <2>1, <2>2, <2>3 DEF Stream
<1>17. Read'
  BY <1>12, <1>13 DEF Read, busVars
<1>18. Stamps'
  <2>1. \A w \in wire', e \in osc_events : EdgeOf(e.packet) # EdgeOf(w.packet)
    BY <1>2, <1>3, <1>6, <1>10 DEF EdgeOf, Waiting
  <2>2. \A w \in wire' : w.sent <= now /\ now <= w.sent + Skew
    BY <1>3 DEF BusTypes
  <2> QED
    BY <2>1, <2>2 DEF Stamps, roundVars
<1>19. Timely => Armed' /\ Field'
  <2> SUFFICES ASSUME Timely PROVE Armed' /\ Field'
    OBVIOUS
  <2>1. \A w \in wire' : EdgeOf(w.packet) # handled
    BY <1>2, <1>3, <1>6, <1>11 DEF EdgeOf
  <2>2. Armed'
    BY <1>12, <2>1 DEF Armed, busVars
  <2>3. \A i \in DOMAIN reports : reports[i].contact \in DOMAIN contacts
    BY DEF BusTypes
  <2>4. Field'
    BY <1>12, <1>13, <2>3 DEF Field, Unreported, busVars
  <2> QED
    BY <2>2, <2>4
<1> QED
  BY <1>14, <1>15, <1>16, <1>17, <1>18, <1>19

LEMMA TouchKeeps ==
    ASSUME BusInv, NEW bits \in (SUBSET Bits) \ {{}}, TouchAction(bits)
    PROVE  BusInv'
<1> USE DEF BusInv, Structure
<1>1. /\ ~touching /\ wire = {} /\ contacts' = Append(contacts, bits) /\ touching' = TRUE
      /\ wire' = Sent(Edge(Len(contacts) + 1, bits, TRUE))
      /\ UNCHANGED <<now, osc_events, busVars, roundVars, reports>>
  BY DEF TouchAction, payloadVars
<1>2. /\ contacts' \in Seq((SUBSET Bits) \ {{}}) /\ Len(contacts') = Len(contacts) + 1 /\ Len(contacts) \in Nat
      /\ contacts'[Len(contacts) + 1] = bits
      /\ \A i \in DOMAIN contacts : i \in DOMAIN contacts' /\ contacts'[i] = contacts[i]
  BY <1>1 DEF BusTypes
<1>3. Before(Newest, [contact |-> Len(contacts) + 1, on |-> TRUE])
  BY <1>2 DEF Before, Newest
<1>4. \A d \in 1..(Len(contacts) + 1), o \in BOOLEAN : LET p == [contact |-> d, on |-> o]
         IN  Before(Newest, p) /\ ~Before([contact |-> Len(contacts) + 1, on |-> TRUE], p)
             => p = [contact |-> Len(contacts) + 1, on |-> TRUE]
  <2> SUFFICES ASSUME NEW d \in 1..(Len(contacts) + 1), NEW o \in BOOLEAN,
                      Before(Newest, [contact |-> d, on |-> o]),
                      ~Before([contact |-> Len(contacts) + 1, on |-> TRUE], [contact |-> d, on |-> o])
               PROVE  d = Len(contacts) + 1 /\ o = TRUE
    OBVIOUS
  <2> QED
    BY <1>1, <1>2 DEF Before, Newest
<1>5. Len(contacts) + 1 \in Nat \ {0} /\ wire' = Sent(Edge(Len(contacts) + 1, contacts'[Len(contacts) + 1], TRUE))
  BY <1>1, <1>2
<1> QED
  BY <1>1, <1>2, <1>3, <1>4, <1>5, NewEdge

LEMMA LeaveKeeps ==
    ASSUME BusInv, LeaveAction
    PROVE  BusInv'
<1> USE DEF BusInv, Structure
<1>1. /\ touching /\ wire = {} /\ contacts' = contacts /\ touching' = FALSE
      /\ wire' = Sent(Edge(Len(contacts), contacts[Len(contacts)], FALSE))
      /\ UNCHANGED <<now, osc_events, busVars, roundVars, reports>>
  BY DEF LeaveAction, payloadVars
<1>2. Len(contacts) \in Nat \ {0} /\ contacts \in Seq((SUBSET Bits) \ {{}})
  BY <1>1 DEF BusTypes
<1>3. Before(Newest, [contact |-> Len(contacts), on |-> FALSE])
  BY <1>1, <1>2 DEF Before, Newest
<1>4. \A d \in 1..Len(contacts), o \in BOOLEAN : LET p == [contact |-> d, on |-> o]
         IN  Before(Newest, p) /\ ~Before([contact |-> Len(contacts), on |-> FALSE], p)
             => p = [contact |-> Len(contacts), on |-> FALSE]
  <2> SUFFICES ASSUME NEW d \in 1..Len(contacts), NEW o \in BOOLEAN,
                      Before(Newest, [contact |-> d, on |-> o]),
                      ~Before([contact |-> Len(contacts), on |-> FALSE], [contact |-> d, on |-> o])
               PROVE  d = Len(contacts) /\ o = FALSE
    OBVIOUS
  <2> QED
    BY <1>1, <1>2 DEF Before, Newest
<1> QED
  BY <1>1, <1>2, <1>3, <1>4, NewEdge

LEMMA ReceiveKeepsBus ==
    ASSUME BusInv, NEW w \in wire, ReceivePacket(w)
    PROVE  BusInv'
<1> USE ActionAssumption DEF BusInv, Structure
<1> DEFINE e == [packet |-> w.packet, received |-> now]
<1>1. /\ wire' = wire \ {w} /\ osc_events' = osc_events \cup {e}
      /\ UNCHANGED <<now, contacts, touching, busVars, roundVars, reports>>
  BY DEF ReceivePacket, payloadVars
<1>2. w \in [packet : PacketSet, sent : Nat] /\ now \in Nat
  BY DEF BusTypes
<1>3. e.packet = w.packet /\ e.received = now /\ e \in [packet : PacketSet, received : Nat]
  BY <1>2
<1> HIDE DEF e
<1>4. PacketSet' = PacketSet /\ Newest' = Newest /\ HandledBits' = HandledBits
  BY <1>1 DEF PacketSet, Newest, HandledBits, busVars
<1>5. Waiting' = Waiting
  BY <1>1, <1>3 DEF Waiting
<1>6. Owed' = Owed
  BY <1>1, <1>5 DEF Owed, busVars
<1>7. BusTypes'
  BY <1>1, <1>3, <1>4 DEF BusTypes, busVars, roundVars
<1>8. Carriers'
  <2>1. \A v \in wire : v.packet = w.packet => v = w
    <3>1. \A v \in wire : v.sent = w.sent
      BY DEF Carriers
    <3> QED
      BY <3>1, Typed
  <2> QED
    BY <1>1, <1>3, <1>4, <2>1 DEF Carriers
<1>9. Stream' /\ Read'
  BY <1>1, <1>4, <1>5, <1>6 DEF Stream, Read, busVars
<1>10. Stamps'
  <2>1. w.sent <= now /\ now <= w.sent + Skew
    BY DEF Stamps
  <2>2. \A d \in osc_events : EdgeOf(d.packet) = EdgeOf(w.packet) => w.sent <= d.received /\ d.received <= now
    BY DEF Stamps
  <2>3. \A d \in osc_events : d.received \in Nat
    BY DEF BusTypes
  <2>4. \A d \in osc_events : EdgeOf(d.packet) = EdgeOf(e.packet) =>
           d.received <= e.received + Skew /\ e.received <= d.received + Skew
    BY <1>2, <1>3, <2>1, <2>2, <2>3
  <2>5. \A v \in wire : v.sent <= e.received
    BY <1>3 DEF Stamps
  <2>6. phase' = "events" => drained_at <= e.received
    BY <1>1, <1>2, <1>3 DEF Stamps, BusTypes, roundVars
  <2>7. e.received <= now /\ e.received <= e.received + Skew
    BY <1>2, <1>3
  <2>8. phase' = phase /\ drained_at' = drained_at
    BY <1>1 DEF roundVars
  <2> QED
    BY <1>1, <2>4, <2>5, <2>6, <2>7, <2>8 DEF Stamps
<1>11. Timely => Armed' /\ Field'
  <2> SUFFICES ASSUME Timely PROVE Armed' /\ Field'
    OBVIOUS
  <2>1. EdgeOf(e.packet) = handled /\ bus_active /\ Owed # {} => e.received + BusSettle <= bus_pending_until + Skew
    <3>1. now <= w.sent + Skew
      BY DEF Stamps
    <3>2. EdgeOf(e.packet) = handled /\ bus_active /\ Owed # {} => w.sent + BusSettle <= bus_pending_until
      BY <1>3 DEF Armed
    <3>3. Skew \in Nat /\ BusSettle \in Nat /\ w.sent \in Nat /\ bus_pending_until \in Nat
      BY <1>2 DEF BusTypes
    <3> QED
      BY <1>2, <1>3, <3>1, <3>2, <3>3
  <2>2. Armed'
    BY <1>1, <1>6, <2>1 DEF Armed, busVars
  <2>3. Field'
    BY <1>1, <1>4, <1>6 DEF Field, Unreported, busVars
  <2> QED
    BY <2>2, <2>3
<1> QED
  BY <1>7, <1>8, <1>9, <1>10, <1>11
----------------------------------------------------------------------------
(* The packet handled next is of the same edge as the last one, or the      *)
(* first of the edge after it, and then nothing of the last edge is owed.   *)
LEMMA NextPacket ==
    ASSUME Structure, NEW e \in osc_events, HandleBus(e)
    PROVE  \/ EdgeOf(e.packet) = handled
           \/ /\ Owed = {}
              /\ IF handled.on THEN e.packet.contact = handled.contact /\ ~e.packet.on
                               ELSE e.packet.contact > handled.contact /\ e.packet.on
              /\ \A x \in contacts[e.packet.contact] \cup {Active} :
                    [contact |-> e.packet.contact, on |-> e.packet.on, part |-> x] \in Waiting
<1> USE DEF Structure
<1> DEFINE p == e.packet
<1>1. p \in Waiting /\ p \in PacketSet
  BY DEF Waiting, BusTypes
<1>2. p.contact \in DOMAIN contacts /\ p.contact \in Nat /\ p.on \in BOOLEAN
  BY <1>1 DEF PacketSet, BusTypes
<1>3. handled.contact \in Nat /\ handled.on \in BOOLEAN /\ handled = [contact |-> handled.contact, on |-> handled.on]
  BY DEF BusTypes
<1>4. ~Before(p, handled) /\ ~Before(Newest, p)
  BY <1>1 DEF Stream
<1>5. \A d \in osc_events : ~Before(d.packet, p)
  BY DEF HandleBus
<1>6. Newest.contact \in Nat /\ Newest.on \in BOOLEAN
  BY DEF Newest, BusTypes
<1> HIDE DEF p
<1>7. SUFFICES ASSUME EdgeOf(p) # handled
               PROVE  /\ Owed = {}
                      /\ IF handled.on THEN p.contact = handled.contact /\ ~p.on
                                       ELSE p.contact > handled.contact /\ p.on
                      /\ \A x \in contacts[p.contact] \cup {Active} :
                            [contact |-> p.contact, on |-> p.on, part |-> x] \in Waiting
  BY DEF p
<1>8. Before(handled, p)
  BY <1>2, <1>3, <1>4, <1>7 DEF Before, EdgeOf
<1>9. ASSUME NEW q \in Waiting, Before(q, p), q.contact \in Nat, q.on \in BOOLEAN PROVE FALSE
  <2>1. CASE \E d \in osc_events : q = d.packet
    BY <1>5, <1>9, <2>1
  <2>2. CASE \E w \in wire : q = w.packet
    <3>1. EdgeOf(q) = Newest
      BY <2>2 DEF Carriers
    <3>2. q.contact = Newest.contact /\ q.on = Newest.on
      BY <3>1 DEF EdgeOf
    <3> QED
      BY <1>4, <1>9, <3>2 DEF Before
  <2> QED
    BY <2>1, <2>2 DEF Waiting
<1>10. Owed = {}
  <2> SUFFICES ASSUME NEW x \in Owed PROVE FALSE
    OBVIOUS
  <2> DEFINE q == [contact |-> handled.contact, on |-> handled.on, part |-> x]
  <2>1. q \in Waiting /\ q.contact = handled.contact /\ q.on = handled.on
    BY DEF Owed
  <2>2. Before(q, p)
    BY <1>8, <2>1 DEF Before
  <2> HIDE DEF q
  <2> QED
    BY <1>3, <1>9, <2>1, <2>2
<1>11. ASSUME NEW c \in Nat, NEW on \in BOOLEAN, c # 0,
              Before(handled, [contact |-> c, on |-> on]), Before([contact |-> c, on |-> on], p)
       PROVE  FALSE
  <2> DEFINE q == [contact |-> c, on |-> on, part |-> Active]
  <2>1. q.contact = c /\ q.on = on /\ q.part = Active
    OBVIOUS
  <2>2. c \in DOMAIN contacts
    BY <1>2, <1>11 DEF Before, BusTypes
  <2>3. Before(handled, q) /\ Before(q, p)
    BY <1>11, <2>1 DEF Before
  <2>4. ~Before(Newest, q)
    BY <1>2, <1>4, <1>6, <2>1, <2>3 DEF Before
  <2>5. q \in Waiting
    BY <2>2, <2>3, <2>4 DEF Stream
  <2> HIDE DEF q
  <2> QED
    BY <1>9, <2>1, <2>3, <2>5
<1>12. IF handled.on THEN p.contact = handled.contact /\ ~p.on ELSE p.contact > handled.contact /\ p.on
  <2>1. CASE handled.on
    <3>1. handled.contact # 0
      BY <2>1 DEF BusTypes
    <3>2. Before(handled, [contact |-> handled.contact, on |-> FALSE])
      BY <1>3, <2>1 DEF Before
    <3>3. ~Before([contact |-> handled.contact, on |-> FALSE], p)
      BY <1>3, <1>11, <3>1, <3>2
    <3> QED
      BY <1>2, <1>3, <1>8, <2>1, <3>3 DEF Before
  <2>2. CASE ~handled.on
    <3>1. p.contact > handled.contact
      BY <1>2, <1>3, <1>8, <2>2 DEF Before
    <3>2. Before(handled, [contact |-> p.contact, on |-> TRUE]) /\ p.contact # 0
      BY <1>2, <1>3, <3>1 DEF Before
    <3>3. ~Before([contact |-> p.contact, on |-> TRUE], p)
      BY <1>2, <1>11, <3>2
    <3>4. p.on
      BY <1>2, <3>3 DEF Before
    <3> QED
      BY <2>2, <3>1, <3>4
  <2> QED
    BY <1>3, <2>1, <2>2
<1>13. ASSUME NEW x \in contacts[p.contact] \cup {Active}
       PROVE  [contact |-> p.contact, on |-> p.on, part |-> x] \in Waiting
  <2> DEFINE q == [contact |-> p.contact, on |-> p.on, part |-> x]
  <2>1. q.contact = p.contact /\ q.on = p.on
    OBVIOUS
  <2>2. Before(handled, q) /\ ~Before(Newest, q)
    BY <1>4, <1>8, <2>1 DEF Before
  <2> QED
    BY <1>2, <2>2 DEF Stream
<1> QED
  BY <1>10, <1>12, <1>13
----------------------------------------------------------------------------

(* Before a packet of its edge is handled, the bus reads as if all of that  *)
(* edge waited.                                                             *)
LEMMA HandleKeeps ==
    ASSUME BusInv, NEW e \in osc_events, HandleBus(e)
    PROVE  BusInv'
<1> USE ActionAssumption DEF BusInv, Structure
<1> DEFINE p == e.packet
           all == contacts[p.contact]
           owed == IF EdgeOf(p) = handled THEN Owed ELSE all \cup {Active}
<1>1. p \in Waiting /\ p \in PacketSet /\ p.contact \in DOMAIN contacts /\ p.contact \in Nat \ {0} /\ p.on \in BOOLEAN
      /\ e.received \in Nat
  BY DEF Waiting, BusTypes, PacketSet
<1>2. /\ osc_events' = osc_events \ {e} /\ handled' = [contact |-> p.contact, on |-> p.on]
      /\ UNCHANGED <<now, contacts, touching, wire, phase, drained_at, reports>>
      /\ HandleBit(p, e.received) \/ HandleActive(p, e.received)
  BY DEF HandleBus, avatarVars, roundVars, payloadVars
<1>3. handled'.contact = p.contact /\ handled'.on = p.on /\ handled' = EdgeOf(p)
  BY <1>2 DEF EdgeOf
<1>4. ~Before(p, handled) /\ ~Before(Newest, p) /\ p.part \in all \cup {Active}
  BY <1>1 DEF Stream
<1>5. all \in (SUBSET Bits) \ {{}} /\ Active \notin all
  BY <1>1, Typed
<1>6. Waiting' = Waiting \ {p}
  <2>1. \A w \in wire : w.packet # p
    BY DEF Carriers
  <2>2. \A d \in osc_events : d.packet = p => d = e
    BY DEF Carriers
  <2> QED
    BY <1>2, <2>1, <2>2 DEF Waiting
<1>7. PacketSet' = PacketSet /\ Newest' = Newest
  BY <1>2 DEF PacketSet, Newest
<1>8. \/ EdgeOf(p) = handled
      \/ /\ Owed = {}
         /\ IF handled.on THEN p.contact = handled.contact /\ ~p.on ELSE p.contact > handled.contact /\ p.on
         /\ \A x \in all \cup {Active} : [contact |-> p.contact, on |-> p.on, part |-> x] \in Waiting
  BY NextPacket
<1>9. handled \in [contact : 0..Len(contacts), on : BOOLEAN] /\ handled = [contact |-> handled.contact, on |-> handled.on]
  BY DEF BusTypes
<1>10. p = [contact |-> p.contact, on |-> p.on, part |-> p.part]
  BY <1>1 DEF PacketSet
<1>11. \A q \in Waiting : q.part \in contacts[q.contact] \cup {Active}
  BY DEF Stream
<1> HIDE DEF p
<1>12. HandledBits' = all
  BY <1>1, <1>2, <1>3 DEF HandledBits
<1>13. p.part \in owed
  <2>1. CASE EdgeOf(p) = handled
    BY <1>1, <1>4, <1>5, <1>10, <2>1 DEF Owed, EdgeOf
  <2>2. CASE EdgeOf(p) # handled
    BY <1>4, <2>2
  <2> QED
    BY <2>1, <2>2
<1>14. Owed' = owed \ {p.part}
  <2>1. Owed' = {x \in Bits \cup {Active} : [contact |-> p.contact, on |-> p.on, part |-> x] \in Waiting} \ {p.part}
    BY <1>3, <1>6, <1>10 DEF Owed
  <2>2. {x \in Bits \cup {Active} : [contact |-> p.contact, on |-> p.on, part |-> x] \in Waiting} = owed
    <3>1. CASE EdgeOf(p) = handled
      <4>1. p.contact = handled.contact /\ p.on = handled.on
        BY <1>9, <3>1 DEF EdgeOf
      <4> QED
        BY <3>1, <4>1 DEF Owed
    <3>2. CASE EdgeOf(p) # handled
      <4>1. ASSUME NEW x \in Bits \cup {Active}, [contact |-> p.contact, on |-> p.on, part |-> x] \in Waiting
            PROVE  x \in all \cup {Active}
        BY <1>11, <4>1
      <4> QED
        BY <1>5, <1>8, <3>2, <4>1
    <3> QED
      BY <3>1, <3>2
  <2> QED
    BY <2>1, <2>2
<1>15. /\ bus_active <=> (p.on <=> Active \notin owed)
       /\ bus_bits = IF p.on THEN all \ owed ELSE all \cap owed
  <2>1. CASE EdgeOf(p) = handled
    <3>1. p.contact = handled.contact /\ p.on = handled.on
      BY <1>9, <2>1 DEF EdgeOf
    <3>2. HandledBits = all
      BY <1>1, <3>1 DEF HandledBits
    <3> QED
      BY <2>1, <3>1, <3>2 DEF Read
  <2>2. CASE EdgeOf(p) # handled /\ handled.on
    <3>1. bus_active /\ HandledBits = all /\ bus_bits = all /\ ~p.on
      BY <1>1, <1>8, <2>2 DEF Read, HandledBits
    <3> QED
      BY <2>2, <3>1
  <2>3. CASE EdgeOf(p) # handled /\ ~handled.on
    <3>1. ~bus_active /\ bus_bits = {} /\ p.on
      BY <1>8, <1>9, <2>3 DEF Read, BusTypes
    <3> QED
      BY <2>3, <3>1
  <2> QED
    BY <2>1, <2>2, <2>3
<1>16. owed \subseteq all \cup {Active}
  <2>1. CASE EdgeOf(p) = handled
    <3>1. p.contact = handled.contact /\ p.on = handled.on
      BY <1>9, <2>1 DEF EdgeOf
    <3>2. ASSUME NEW x \in Owed PROVE x \in all \cup {Active}
      BY <1>11, <3>1 DEF Owed
    <3> QED
      BY <2>1, <3>2
  <2>2. CASE EdgeOf(p) # handled
    BY <2>2
  <2> QED
    BY <2>1, <2>2
<1> HIDE DEF owed, all
<1>17. Read'
  <2>1. CASE p.part = Active
    <3>1. bus_active' = p.on /\ bus_bits' = bus_bits
      BY <1>2, <2>1 DEF HandleBit, HandleActive
    <3> QED
      BY <1>1, <1>3, <1>5, <1>12, <1>14, <1>15, <2>1, <3>1 DEF Read
  <2>2. CASE p.part # Active
    <3>1. bus_active' = bus_active /\ bus_bits' = IF p.on THEN bus_bits \cup {p.part} ELSE bus_bits \ {p.part}
      BY <1>2, <2>2 DEF HandleBit, HandleActive
    <3>2. p.part \in all
      BY <1>4, <2>2
    <3> QED
      BY <1>3, <1>12, <1>13, <1>14, <1>15, <2>2, <3>1, <3>2 DEF Read
  <2> QED
    BY <2>1, <2>2
<1>18. BusTypes'
  <2>1. bus_pending_until' \in Nat
    <3>1. bus_pending_until' \in {e.received + BusSettle, bus_pending_until, 0}
      BY <1>2 DEF HandleBit, HandleActive, Deadline
    <3> QED
      BY <1>1, <3>1, Typed
  <2>2. bus_active' \in BOOLEAN /\ bus_bits' \subseteq Bits
    BY <1>1, <1>2, <1>4, <1>5 DEF HandleBit, HandleActive, BusTypes
  <2>3. bus_type' \subseteq Bits
    BY <1>2 DEF HandleBit, HandleActive, BusTypes
  <2>4. handled' \in [contact : 0..Len(contacts'), on : BOOLEAN]
    BY <1>1, <1>2 DEF BusTypes
  <2> QED
    BY <1>1, <1>2, <1>3, <1>7, <2>1, <2>2, <2>3, <2>4 DEF BusTypes
<1>19. Carriers'
  BY <1>2, <1>7 DEF Carriers
<1>20. Stream'
  <2>1. ~Before(Newest, handled')
    BY <1>3, <1>4 DEF Before
  <2>2. ASSUME NEW q \in Waiting, q # p PROVE ~Before(q, handled') /\ ~Before(Newest, q)
    <3>1. ~Before(Newest, q)
      BY DEF Stream
    <3>2. CASE \E d \in osc_events : q = d.packet
      BY <1>3, <3>1, <3>2 DEF HandleBus, Before, p
    <3>3. CASE \E w \in wire : q = w.packet
      <4>1. q.contact = Newest.contact /\ q.on = Newest.on
        BY <3>3 DEF Carriers, EdgeOf, Newest
      <4> QED
        BY <1>3, <1>4, <3>1, <4>1 DEF Before
    <3> QED
      BY <3>1, <3>2, <3>3 DEF Waiting
  <2>3. ASSUME NEW c \in DOMAIN contacts, NEW on \in BOOLEAN, NEW x \in contacts[c] \cup {Active},
               Before(handled', [contact |-> c, on |-> on, part |-> x]),
               ~Before(Newest, [contact |-> c, on |-> on, part |-> x])
        PROVE  [contact |-> c, on |-> on, part |-> x] \in Waiting \ {p}
    <3> DEFINE q == [contact |-> c, on |-> on, part |-> x]
    <3>1. Before(p, q)
      BY <1>3, <2>3 DEF Before
    <3>2. Before(handled, q)
      BY <1>1, <1>4, <1>9, <3>1 DEF Before, BusTypes
    <3>3. q \in Waiting
      BY <2>3, <3>2 DEF Stream
    <3>4. q # p
      BY <1>1, <3>1 DEF Before
    <3> QED
      BY <3>3, <3>4
  <2> QED
    BY <1>2, <1>6, <1>7, <1>11, <2>1, <2>2, <2>3 DEF Stream
<1>21. Stamps'
  BY <1>2 DEF Stamps
<1>22. ASSUME Timely PROVE Armed'
  <2>1. \A d \in osc_events : EdgeOf(d.packet) = EdgeOf(p) => d.received <= e.received + Skew
    BY DEF Stamps, p
  <2>2. \A w \in wire : EdgeOf(w.packet) = EdgeOf(p) => w.sent <= e.received
    BY DEF Stamps, p
  <2>3. bus_active' => bus_pending_until' = e.received + BusSettle
    BY <1>2 DEF HandleBit, HandleActive, Deadline
  <2>4. bus_pending_until' # 0 => bus_active'
    BY <1>2, <1>22 DEF HandleBit, HandleActive, Armed
  <2>5. BusSettle \in Nat \ {0} /\ Skew \in Nat
    OBVIOUS
  <2>6. (\A d \in osc_events : d.received \in Nat) /\ (\A w \in wire : w.sent \in Nat)
    BY DEF BusTypes
  <2>7. ASSUME bus_active'
        PROVE  /\ bus_pending_until' # 0
               /\ \A w \in wire : EdgeOf(w.packet) = handled' => w.sent + BusSettle <= bus_pending_until'
               /\ \A d \in osc_events : EdgeOf(d.packet) = handled' => d.received + BusSettle <= bus_pending_until' + Skew
    BY <1>1, <1>3, <2>1, <2>2, <2>3, <2>5, <2>6, <2>7
  <2> QED
    BY <1>2, <2>4, <2>7 DEF Armed
<1>23. ASSUME Timely PROVE Field'
  <2>1. bus_type' # {} => bus_type' = bus_type /\ bus_active'
    BY <1>2, <1>23 DEF HandleBit, HandleActive, Field
  <2>2. \A i \in DOMAIN reports : reports[i].contact \in Nat
    BY Typed
  <2>3. CASE EdgeOf(p) = handled
    <3>1. p.contact = handled.contact /\ p.on = handled.on /\ HandledBits = all
      BY <1>1, <1>9, <2>3 DEF EdgeOf, HandledBits, all
    <3>2. p.on => bus_type = {} /\ Unreported(p.contact)
      BY <1>13, <1>23, <2>3, <3>1 DEF Field, owed
    <3> QED
      BY <1>1, <1>2, <1>3, <1>12, <1>23, <2>1, <3>1, <3>2 DEF Field, Unreported
  <2>4. CASE EdgeOf(p) # handled /\ handled.on
    <3>1. p.contact = handled.contact /\ ~p.on /\ HandledBits = all
      BY <1>1, <1>8, <2>4 DEF HandledBits, all
    <3> QED
      BY <1>1, <1>2, <1>3, <1>12, <1>23, <2>1, <3>1 DEF Field, Unreported
  <2>5. CASE EdgeOf(p) # handled /\ ~handled.on
    <3>1. p.contact > handled.contact /\ p.on /\ ~bus_active
      BY <1>8, <2>5 DEF Read
    <3>2. bus_type = {} /\ bus_type' = {}
      BY <1>23, <2>1, <3>1 DEF Field
    <3>3. Unreported(p.contact)
      BY <1>1, <1>9, <1>23, <2>2, <3>1 DEF Field, Unreported
    <3>4. \A i \in DOMAIN reports : reports[i].contact <= p.contact
      BY <1>1, <1>9, <1>23, <2>2, <3>1 DEF Field
    <3> QED
      BY <1>2, <1>3, <1>23, <3>2, <3>3, <3>4 DEF Field, Unreported
  <2> QED
    BY <1>9, <2>3, <2>4, <2>5
<1> QED
  BY <1>17, <1>18, <1>19, <1>20, <1>21, <1>22, <1>23

(* A tick that is due in time reads a bus that is owed nothing: what is     *)
(* still to be handled was received after the round had drained the queue.  *)
LEMMA TickKeeps ==
    ASSUME BusInv, Tick
    PROVE  BusInv'
<1> USE ActionAssumption DEF BusInv
<1> DEFINE due == bus_pending_until # 0 /\ bus_pending_until <= now
<1>1. /\ UNCHANGED <<now, contacts, touching, wire, osc_events, handled, bus_active, bus_bits, reports>>
      /\ phase = "events" /\ phase' = "push" /\ drained_at' = 0
      /\ bus_pending_until' = IF due THEN 0 ELSE bus_pending_until
      /\ bus_type' = IF due /\ bus_active /\ bus_bits # {} THEN bus_bits ELSE bus_type
  BY DEF Tick, Resolve, avatarVars, payloadVars
<1>2. Carriers' /\ Stream' /\ Read' /\ PacketSet' = PacketSet /\ Owed' = Owed /\ HandledBits' = HandledBits
  BY <1>1, SameStream
<1>3. Structure'
  <2>1. bus_bits # {} => handled.contact # 0
    BY DEF Structure, Read, HandledBits
  <2>2. bus_type' \subseteq Bits /\ bus_pending_until' \in Nat /\ drained_at' \in Nat
    BY <1>1 DEF Structure, BusTypes
  <2>3. handled.on \/ bus_type' # {} => handled.contact # 0
    BY <1>1, <2>1 DEF Structure, BusTypes
  <2> QED
    BY <1>1, <1>2, <2>2, <2>3 DEF Structure, BusTypes
<1>4. Stamps'
  BY <1>1 DEF Stamps
<1>5. ASSUME Timely PROVE Armed' /\ Field'
  <2>1. CASE ~due
    BY <1>1, <1>2, <1>5, <2>1 DEF Armed, Field, Unreported
  <2>2. CASE due
    <3>1. bus_active
      BY <1>5, <2>2 DEF Armed
    <3>2. Owed = {}
      <4> SUFFICES ASSUME NEW x \in Owed PROVE FALSE
        OBVIOUS
      <4> DEFINE q == [contact |-> handled.contact, on |-> handled.on, part |-> x]
      <4>1. q \in Waiting /\ EdgeOf(q) = handled
        BY DEF Owed, EdgeOf, Structure, BusTypes
      <4> HIDE DEF q
      <4>2. Skew \in Nat /\ Work \in Nat /\ BusSettle \in Nat /\ Skew + Work < BusSettle
            /\ now \in Nat /\ drained_at \in Nat /\ bus_pending_until \in Nat
        BY <1>5 DEF Timely, Structure, BusTypes
      <4>3. ASSUME NEW w \in wire, q = w.packet PROVE FALSE
        <5>1. w.sent + BusSettle <= bus_pending_until /\ now <= w.sent + Skew /\ w.sent \in Nat
          BY <1>5, <3>1, <4>1, <4>3 DEF Armed, Stamps, Structure, BusTypes
        <5> QED
          BY <2>2, <4>2, <5>1
      <4>4. ASSUME NEW d \in osc_events, q = d.packet PROVE FALSE
        <5>1. d.received + BusSettle <= bus_pending_until + Skew /\ d.received \in Nat
          BY <1>5, <3>1, <4>1, <4>4 DEF Armed, Structure, BusTypes
        <5>2. drained_at <= d.received /\ now <= drained_at + Work
          BY <1>1 DEF Stamps
        <5> QED
          BY <2>2, <4>2, <5>1, <5>2
      <4> QED
        BY <4>1, <4>3, <4>4 DEF Waiting
    <3>3. handled.on /\ bus_bits = HandledBits
      BY <3>1, <3>2 DEF Structure, Read
    <3>4. handled.contact # 0 /\ HandledBits # {}
      BY <3>3 DEF Structure, BusTypes, HandledBits
    <3>5. Unreported(handled.contact)
      BY <1>5, <2>2, <3>3 DEF Field
    <3>6. bus_type' = HandledBits /\ bus_pending_until' = 0
      BY <1>1, <2>2, <3>1, <3>3, <3>4
    <3>7. Armed'
      BY <1>1, <1>2, <3>2, <3>6 DEF Armed
    <3>8. Field'
      BY <1>1, <1>2, <1>5, <3>1, <3>2, <3>4, <3>5, <3>6 DEF Field, Unreported
    <3> QED
      BY <3>7, <3>8
  <2> QED
    BY <2>1, <2>2
<1> QED
  BY <1>3, <1>4, <1>5

LEMMA PushKeepsBus ==
    ASSUME BusInv, Push
    PROVE  BusInv'
<1> USE DEF BusInv
<1>1. /\ UNCHANGED <<now, contacts, touching, wire, osc_events, handled, bus_active, bus_bits, bus_pending_until, drained_at>>
      /\ bus_type' = {} /\ phase' = "idle"
      /\ reports' = IF bus_type = {} THEN reports
                    ELSE Append(reports, [contact |-> handled.contact, bits |-> bus_type])
  BY DEF Push, EmptiedBus, avatarVars
<1>2. Carriers' /\ Stream' /\ Read' /\ PacketSet' = PacketSet /\ Owed' = Owed /\ HandledBits' = HandledBits
  BY <1>1, SameStream
<1>3. Stamps'
  BY <1>1 DEF Stamps
<1>4. handled.contact \in Nat /\ bus_type \subseteq Bits
  BY DEF Structure, BusTypes
<1>5. reports \in Seq([contact : Nat, bits : SUBSET Bits]) /\ \A i \in DOMAIN reports : reports[i].contact \in DOMAIN contacts
  BY DEF Structure, BusTypes
<1>6. CASE bus_type = {}
  <2>1. reports' = reports
    BY <1>1, <1>6
  <2>2. Structure'
    BY <1>1, <1>2, <2>1 DEF Structure, BusTypes
  <2>3. Timely => Armed' /\ Field'
    BY <1>1, <1>2, <2>1 DEF Armed, Field, Unreported
  <2> QED
    BY <1>3, <2>2, <2>3
<1>7. CASE bus_type # {}
  <2> DEFINE r == [contact |-> handled.contact, bits |-> bus_type]
  <2>1. reports' = Append(reports, r) /\ r.contact = handled.contact /\ r.bits = bus_type
        /\ r \in [contact : Nat, bits : SUBSET Bits]
    BY <1>1, <1>4, <1>7
  <2> HIDE DEF r
  <2>2. /\ reports' \in Seq([contact : Nat, bits : SUBSET Bits])
        /\ Len(reports') = Len(reports) + 1 /\ Len(reports) \in Nat
        /\ DOMAIN reports' = 1..(Len(reports) + 1) /\ DOMAIN reports = 1..Len(reports)
        /\ reports'[Len(reports) + 1] = r
        /\ \A i \in DOMAIN reports : reports'[i] = reports[i]
    BY <1>5, <2>1
  <2>3. \A i \in DOMAIN reports' : i \in DOMAIN reports \/ (i = Len(reports) + 1 /\ reports'[i] = r)
    BY <2>2
  <2>4. handled.contact \in DOMAIN contacts
    BY <1>7 DEF Structure, BusTypes
  <2>5. Structure'
    BY <1>1, <1>2, <1>5, <2>1, <2>2, <2>3, <2>4 DEF Structure, BusTypes
  <2>6. ASSUME Timely PROVE Armed' /\ Field'
    <3>1. Armed'
      BY <1>1, <1>2, <2>6 DEF Armed
    <3>2. bus_type = contacts[handled.contact] /\ Unreported(handled.contact) /\ ~(handled.on /\ (bus_pending_until # 0 \/ Owed # {}))
      BY <1>4, <1>7, <2>4, <2>6 DEF Field, HandledBits
    <3>3. \A i \in DOMAIN reports : reports[i].contact <= handled.contact /\ reports[i].bits = contacts[reports[i].contact]
      BY <2>6 DEF Field
    <3>4. \A i \in DOMAIN reports' : /\ reports'[i].contact <= handled'.contact
                                     /\ reports'[i].bits = contacts'[reports'[i].contact]
      BY <1>1, <1>4, <2>1, <2>2, <2>3, <3>2, <3>3
    <3>5. \A i, j \in DOMAIN reports' : reports'[i].contact = reports'[j].contact => i = j
      <4>1. \A i \in DOMAIN reports : reports'[i].contact # r.contact
        BY <2>1, <2>2, <3>2 DEF Unreported
      <4>2. \A i, j \in DOMAIN reports : reports'[i].contact = reports'[j].contact => i = j
        BY <2>2, <2>6 DEF Field
      <4> QED
        BY <2>3, <4>1, <4>2
    <3>6. bus_type' = {} /\ handled' = handled /\ bus_pending_until' = bus_pending_until
      BY <1>1
    <3> QED
      BY <1>2, <3>1, <3>2, <3>4, <3>5, <3>6 DEF Field
  <2> QED
    BY <1>3, <2>5, <2>6
<1> QED
  BY <1>6, <1>7

LEMMA BusInvariance == Spec => []BusInv
<1>1. BusInv /\ [Next]_vars => BusInv'
  <2> SUFFICES ASSUME BusInv, [Next]_vars PROVE BusInv'
    OBVIOUS
  <2> USE DEF avatarVars, busVars, roundVars, payloadVars
  <2>1. CASE Advance
    BY <2>1, OthersKeepBus DEF Advance
  <2>2. CASE Direct
    <3>1. UNCHANGED <<now, contacts, touching, wire, osc_events, busVars, roundVars, reports>>
      BY <2>2 DEF Direct, Press, Repeat, Release
    <3> QED
      BY <3>1, OthersKeepBus
  <2>3. CASE Bus
    BY <2>3, TouchKeeps, LeaveKeeps, ReceiveKeepsBus, HandleKeeps DEF Bus
  <2>4. CASE StartRound \/ Drained \/ NothingToPush
    BY <2>4, OthersKeepBus DEF StartRound, Drained, NothingToPush
  <2>5. CASE Tick
    BY <2>5, TickKeeps
  <2>6. CASE Push
    BY <2>6, PushKeepsBus
  <2>7. CASE SyncResolved \/ Change \/ UNCHANGED vars
    BY <2>7, OthersKeepBus DEF SyncResolved, Change, vars
  <2> QED
    BY <2>1, <2>2, <2>3, <2>4, <2>5, <2>6, <2>7 DEF Next, Round
<1> QED
  BY <1>1, InitBus, PTL DEF Spec
----------------------------------------------------------------------------
(* A field never holds a value its latch does not know, and only the fields *)
(* of spells and Technicks are ever taken for echoes.                       *)
THEOREM ActionTypes == Spec => []TypeOK
<1>1. DirectInv /\ BusInv => TypeOK
  BY DEF DirectInv, DirectTypes, Values, BusInv, Structure, BusTypes, TypeOK
<1> QED
  BY <1>1, DirectInvariance, BusInvariance, PTL

(* A payload uses a field only for a packet that came while the character   *)
(* was alive, and for each such packet once.                                *)
THEOREM ActionsUsedOnce == Spec => []UsedAtMostOnce
<1>1. DirectInv => UsedAtMostOnce
  BY DEF DirectInv, Unused, UsedAtMostOnce
<1> QED
  BY <1>1, DirectInvariance, PTL

(* When the packets of an edge and the round are together quicker than the  *)
(* settle time, every report names a Contact with all of its bits, and no   *)
(* Contact is reported twice.                                               *)
THEOREM ContactsReportedOnce == Spec => []ContactReportedOnce
<1>1. BusInv => ContactReportedOnce
  BY DEF BusInv, Structure, BusTypes, Field, ContactReportedOnce, ReportsAreReal
<1> QED
  BY <1>1, BusInvariance, PTL
============================================================================
