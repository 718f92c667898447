----------------------- MODULE ContactPipelineProofs -----------------------
(***************************************************************************)
(* Theorems about ContactPipeline, for every set of touches and all times   *)
(* that its assumption admits.                                              *)
(***************************************************************************)
EXTENDS ContactPipeline, WellFoundedInduction, TLAPS

LEMMA Times ==
    /\ Settle \in Nat /\ StatusSettle \in Nat /\ Latch \in Nat /\ Iframe \in Nat /\ BlockWindow \in Nat
    /\ Skew \in Nat /\ PollGap \in Nat
    /\ StatusSettle <= Settle /\ Settle + PollGap + Skew < Iframe /\ Skew < Latch
BY PipelineAssumption

WirePackets == [kind : Kinds \cup {"enemy", "calm"}, contact : Contacts, sent : Nat]

ReportTypes ==
    [contact : Contacts, kind : {"hit", "status"}, enemy : BOOLEAN, received : Nat, at : Nat]

Histories ==
    /\ hostile \subseteq Contacts
    /\ aligned \in [Contacts -> Nat \cup {Never}] /\ calmed \in [Contacts -> Nat \cup {Never}]
    /\ \A c \in Contacts : aligned[c] <= now
    /\ contact_reports \subseteq ReportTypes
    /\ \A r \in contact_reports : r.received <= r.at /\ r.at <= now

(* The Contact i-frame of the last report is still in force, or over. *)
Spaced ==
    /\ last_contact \in Nat \cup {Never}
    /\ last_contact # Never => last_contact + Iframe <= contact_iframe_until

Types == TypeOK /\ Histories /\ Spaced
----------------------------------------------------------------------------
(* What the steps do. *)

LEMMA EntryTypes ==
    ASSUME Types, NEW e \in pending_hits \cup pending_statuses
    PROVE  /\ e \in Entries /\ e.contact \in Contacts /\ e.due \in Nat /\ e.received \in Nat
           /\ e.enemy \in BOOLEAN /\ e.received <= now
BY DEF Types, TypeOK, Entries

LEMMA PacketTypes ==
    ASSUME Types, NEW p \in wire
    PROVE  /\ p.kind \in Kinds \cup {"enemy", "calm"} /\ p.contact \in Contacts /\ p.sent \in Nat
BY DEF Types, TypeOK

LEMMA NowTypes ==
    ASSUME Types
    PROVE  /\ now \in Nat /\ now + 1 \in Nat /\ now + Settle \in Nat /\ now + StatusSettle \in Nat
           /\ now + Latch \in Nat /\ now + Iframe \in Nat /\ now + BlockWindow \in Nat
           /\ now <= now /\ now <= now + 1 /\ now + StatusSettle <= now + Settle
           /\ 0 <= now + Latch /\ 0 <= now + Iframe
           /\ SourceEnemyNow \in BOOLEAN
<1>1. now \in Nat
  BY DEF Types, TypeOK
<1>2. SourceEnemyNow \in BOOLEAN
  BY DEF SourceEnemyNow, Types, TypeOK
<1> QED
  BY <1>1, <1>2, Times

LEMMA ReportType ==
    ASSUME Types, NEW e \in pending_hits \cup pending_statuses, NEW kind \in {"hit", "status"}
    PROVE  /\ ContactReport(e, kind) \in ReportTypes
           /\ ContactReport(e, kind).received = e.received /\ ContactReport(e, kind).at = now
           /\ ContactReport(e, kind).kind = kind /\ ContactReport(e, kind).contact = e.contact
           /\ ContactReport(e, kind).enemy = SourceEnemy(e) /\ SourceEnemy(e) \in BOOLEAN
<1>1. SourceEnemy(e) \in BOOLEAN
  BY EntryTypes, NowTypes DEF SourceEnemy
<1>2. e.contact \in Contacts /\ e.received \in Nat /\ now \in Nat
  BY EntryTypes, NowTypes
<1> HIDE DEF SourceEnemy
<1> QED
  BY <1>1, <1>2 DEF ContactReport, ReportTypes

(* A packet. *)
LEMMA ReceiveTypes ==
    ASSUME Types, NEW p \in wire, ReceivePacket(p)
    PROVE  Types'
<1>f. /\ UNCHANGED <<now, touch, hostile, combat_enabled, blocked_until, contact_iframe_until, fieldVars,
                     syncVars, loopVars, contact_reports, last_contact, upsets>>
      /\ wire' = wire \ {p}
      /\ ReceiveEnemy(p) \/ ReceiveCalm(p) \/ ReceiveHit(p) \/ ReceiveStatus(p)
  BY DEF ReceivePacket
<1>c. p.contact \in Contacts
  BY PacketTypes
<1>1. /\ damage_source_enemy' \in BOOLEAN /\ enemy_latched_until' \in Nat
      /\ enemy_latched_until' <= now + Latch
  <2>1. CASE UNCHANGED alignVars
    BY <2>1 DEF alignVars, Types, TypeOK
  <2>2. CASE ReceiveEnemy(p)
    <3>1. enemy_latched_until \in Nat /\ enemy_latched_until <= now + Latch
      BY DEF Types, TypeOK
    <3> QED
      BY <2>2, <3>1, NowTypes DEF ReceiveEnemy, LatchEnd, AtLeast
  <2>3. CASE ReceiveCalm(p)
    BY <2>3 DEF ReceiveCalm, Types, TypeOK
  <2> QED
    BY <1>f, <2>1, <2>2, <2>3 DEF ReceiveHit, ReceiveStatus
<1>2. /\ pending_hits' \subseteq Entries /\ pending_statuses' \subseteq Entries
      /\ \A e \in pending_hits' \cup pending_statuses' : e.due <= now + Settle /\ e.received <= now
  <2>1. \A settle \in {Settle, StatusSettle} :
           /\ Queued(p, settle) \in Entries /\ Queued(p, settle).due = now + settle
           /\ Queued(p, settle).received = now
    BY <1>c, NowTypes DEF Queued, Entries
  <2>2. /\ pending_hits' \in {pending_hits, pending_hits \cup {Queued(p, Settle)}}
        /\ pending_statuses' \in {pending_statuses, pending_statuses \cup {Queued(p, StatusSettle)}}
    BY <1>f DEF ReceiveEnemy, ReceiveCalm, ReceiveHit, ReceiveStatus, queueVars
  <2>3. /\ pending_hits \subseteq Entries /\ pending_statuses \subseteq Entries
        /\ \A e \in pending_hits \cup pending_statuses : e.due <= now + Settle /\ e.received <= now
    BY DEF Types, TypeOK
  <2> QED
    BY <2>1, <2>2, <2>3, NowTypes
<1>3. /\ aligned' \in [Contacts -> Nat \cup {Never}] /\ calmed' \in [Contacts -> Nat \cup {Never}]
      /\ \A c \in Contacts : aligned'[c] <= now
  <2>1. /\ aligned \in [Contacts -> Nat \cup {Never}] /\ calmed \in [Contacts -> Nat \cup {Never}]
        /\ \A c \in Contacts : aligned[c] <= now
    BY DEF Types, Histories
  <2>2. /\ aligned' = aligned \/ aligned' = [aligned EXCEPT ![p.contact] = now]
        /\ calmed' = calmed \/ calmed' = [calmed EXCEPT ![p.contact] = now]
    BY <1>f DEF ReceiveEnemy, ReceiveCalm, ReceiveHit, ReceiveStatus
  <2> QED
    BY <2>1, <2>2, NowTypes
<1> QED
  BY <1>f, <1>1, <1>2, <1>3 DEF Types, TypeOK, Histories, Spaced, fieldVars, syncVars, loopVars

(* The avatar's own steps. *)
LEMMA WorldTypes ==
    ASSUME Types, \/ Advance \/ AvatarChange \/ Block \/ SwitchCombat
                  \/ \E c \in Contacts : Leave(c) \/ \E kinds \in (SUBSET Kinds) \ {{}} : Touch(c, kinds)
    PROVE  Types'
<1>t. /\ now \in Nat /\ 0 <= now + Latch /\ 0 <= now + Iframe
      /\ blocked_until \in Nat /\ upsets \in Nat /\ now + BlockWindow \in Nat /\ now + 1 \in Nat
  BY NowTypes DEF Types, TypeOK
<1>1. CASE Advance
  <2>1. /\ now' = now + 1
        /\ UNCHANGED <<touch, hostile, wire, combat_enabled, blocked_until, alignVars, queueVars,
                       contact_iframe_until, fieldVars, syncVars, loopVars, ghostVars, upsets>>
    BY <1>1 DEF Advance
  <2>2. /\ enemy_latched_until \in Nat /\ contact_iframe_until \in Nat
        /\ enemy_latched_until <= now + Latch /\ contact_iframe_until <= now + Iframe
        /\ \A e \in pending_hits \cup pending_statuses :
              e.due \in Nat /\ e.received \in Nat /\ e.due <= now + Settle /\ e.received <= now
        /\ \A c \in Contacts : aligned[c] \in Int /\ aligned[c] <= now
        /\ \A r \in contact_reports : r.at \in Nat /\ r.at <= now
    BY DEF Types, TypeOK, Histories, Never, Entries, ReportTypes
  <2>3. /\ enemy_latched_until <= now' + Latch /\ contact_iframe_until <= now' + Iframe
        /\ \A e \in pending_hits \cup pending_statuses : e.due <= now' + Settle /\ e.received <= now'
        /\ \A c \in Contacts : aligned[c] <= now'
        /\ \A r \in contact_reports : r.at <= now'
    BY <1>t, <2>1, <2>2, Times
  <2> QED
    BY <1>t, <2>1, <2>3 DEF alignVars, queueVars, fieldVars, syncVars, loopVars, ghostVars, Types, TypeOK,
       Histories, Spaced
<1>2. CASE AvatarChange
  BY <1>2, <1>t DEF AvatarChange, fieldVars, loopVars, Types, TypeOK, Histories, Spaced
<1>3. CASE Block
  <2>1. blocked_until' \in Nat
    BY <1>3, <1>t DEF Block, AtLeast
  <2> QED
    BY <1>3, <1>t, <2>1 DEF Block, worldVars, alignVars, queueVars, fieldVars, syncVars, loopVars,
       ghostVars, Types, TypeOK, Histories, Spaced
<1>4. CASE SwitchCombat
  BY <1>4, <1>t DEF SwitchCombat, worldVars, alignVars, queueVars, fieldVars, loopVars,
     ghostVars, Types, TypeOK, Histories, Spaced
<1>5. ASSUME NEW c \in Contacts, Leave(c) \/ \E kinds \in (SUBSET Kinds) \ {{}} : Touch(c, kinds)
      PROVE  Types'
  <2>1. UNCHANGED <<now, hostile, combat_enabled, blocked_until, alignVars, queueVars,
                    contact_iframe_until, fieldVars, syncVars, loopVars, ghostVars, upsets>>
    BY <1>5 DEF Leave, Touch
  <2>2. touch' \in [Contacts -> {"none", "on", "off"}]
    BY <1>5 DEF Leave, Touch, Types, TypeOK
  <2>3. \A kind \in Kinds \cup {"enemy", "calm"} : Packet(kind, c) \in WirePackets
    BY <1>t DEF Packet, WirePackets
  <2>4. wire' \subseteq WirePackets
    <3>1. wire \subseteq WirePackets
      BY DEF Types, TypeOK, WirePackets
    <3>2. CASE Leave(c)
      BY <3>1, <3>2, <2>3 DEF Leave
    <3>3. ASSUME NEW kinds \in (SUBSET Kinds) \ {{}}, Touch(c, kinds)
          PROVE  wire' \subseteq WirePackets
      BY <3>1, <3>3, <2>3 DEF Touch
    <3> QED
      BY <1>5, <3>2, <3>3
  <2> QED
    BY <2>1, <2>2, <2>4 DEF WirePackets, alignVars, queueVars, fieldVars, syncVars, loopVars, ghostVars, Types,
       TypeOK, Histories, Spaced
<1> QED
  BY <1>1, <1>2, <1>3, <1>4, <1>5

(* A popped hit, dropped or judged. *)
LEMMA PopHitSteps ==
    ASSUME Types, PopHit
    PROVE  \E e \in pending_hits :
              /\ e \in DueFirst(pending_hits) /\ pending_hits' = pending_hits \ {e}
              /\ \/ /\ HitIgnored(e)
                    /\ UNCHANGED <<alignVars, contact_iframe_until, hit_event, sync_due, contact_reports,
                                   last_contact>>
                 \/ /\ ~HitIgnored(e)
                    /\ SubmitHit(e)
BY DEF PopHit, DueFirst

LEMMA PopHitTypes ==
    ASSUME Types, PopHit
    PROVE  Types'
<1>f. UNCHANGED <<worldVars, combat_enabled, blocked_until, pending_statuses, status_event,
                  sync_inflight, loopVars, aligned, calmed, upsets>>
  BY DEF PopHit
<1>1. PICK e \in pending_hits :
        /\ e \in DueFirst(pending_hits) /\ pending_hits' = pending_hits \ {e}
        /\ \/ /\ HitIgnored(e)
              /\ UNCHANGED <<alignVars, contact_iframe_until, hit_event, sync_due, contact_reports,
                             last_contact>>
           \/ /\ ~HitIgnored(e)
              /\ SubmitHit(e)
  BY PopHitSteps
<1>2. CASE UNCHANGED <<alignVars, contact_iframe_until, hit_event, sync_due, contact_reports, last_contact>>
  BY <1>1, <1>2, <1>f DEF worldVars, alignVars, loopVars, Types, TypeOK, Histories, Spaced
<1>3. CASE SubmitHit(e)
  <2>1. /\ contact_iframe_until' = now + Iframe /\ last_contact' = now
        /\ contact_reports' = contact_reports \cup {ContactReport(e, "hit")}
    BY <1>3 DEF SubmitHit, IframeEnd
  <2>2. /\ damage_source_enemy' \in BOOLEAN /\ sync_due' \in BOOLEAN
        /\ enemy_latched_until' \in Nat /\ enemy_latched_until' <= now + Latch
        /\ hit_event' \in Contacts \cup {NoContact}
    <3>1. SourceEnemy(e) \in BOOLEAN /\ e.contact \in Contacts /\ sync_due \in BOOLEAN
          /\ enemy_latched_until \in Nat /\ enemy_latched_until <= now + Latch /\ 0 <= now + Latch
      BY ReportType, EntryTypes, NowTypes DEF Types, TypeOK
    <3>2. /\ damage_source_enemy' \in {SourceEnemy(e), FALSE}
          /\ enemy_latched_until' \in {enemy_latched_until, 0}
          /\ hit_event' \in {e.contact, NoContact} /\ sync_due' \in {sync_due, TRUE}
      BY <1>3 DEF SubmitHit, Consume
    <3>3. damage_source_enemy' \in BOOLEAN /\ sync_due' \in BOOLEAN
      <4> HIDE DEF SourceEnemy
      <4> QED
        BY <3>1, <3>2, Zenon
    <3>4. enemy_latched_until' \in Nat /\ enemy_latched_until' <= now + Latch
      BY <3>1, <3>2
    <3> QED
      BY <3>1, <3>2, <3>3, <3>4
  <2>3. contact_reports' \subseteq ReportTypes /\ \A r \in contact_reports' : r.received <= r.at /\ r.at <= now
    <3>1. /\ ContactReport(e, "hit") \in ReportTypes
          /\ ContactReport(e, "hit").received <= ContactReport(e, "hit").at
          /\ ContactReport(e, "hit").at <= now
      BY ReportType, EntryTypes, NowTypes
    <3> QED
      BY <2>1, <3>1 DEF Types, Histories
  <2> QED
    BY <1>1, <1>f, <2>1, <2>2, <2>3, NowTypes DEF worldVars, loopVars, Types, TypeOK, Histories, Spaced
<1> QED
  BY <1>1, <1>2, <1>3

LEMMA PopStatusTypes ==
    ASSUME Types, PopStatus
    PROVE  Types'
<1>f. UNCHANGED <<worldVars, combat_enabled, blocked_until, enemy_latched_until, pending_hits,
                  contact_iframe_until, hit_event, sync_inflight, loopVars, aligned, calmed,
                  last_contact, upsets>>
  BY DEF PopStatus
<1>1. PICK e \in pending_statuses :
        /\ pending_statuses' = pending_statuses \ {e}
        /\ \/ UNCHANGED <<damage_source_enemy, status_event, sync_due, contact_reports>>
           \/ SubmitStatus(e)
  BY DEF PopStatus, DueFirst
<1>2. CASE UNCHANGED <<damage_source_enemy, status_event, sync_due, contact_reports>>
  BY <1>1, <1>2, <1>f DEF worldVars, loopVars, Types, TypeOK, Histories, Spaced
<1>3. CASE SubmitStatus(e)
  <2>1. /\ damage_source_enemy' \in BOOLEAN /\ sync_due' \in BOOLEAN
        /\ status_event' \in Contacts \cup {NoContact}
        /\ contact_reports' = contact_reports \cup {ContactReport(e, "status")}
    <3>1. SourceEnemy(e) \in BOOLEAN /\ e.contact \in Contacts
      BY ReportType, EntryTypes
    <3> HIDE DEF SourceEnemy
    <3> QED
      BY <1>3, <3>1 DEF SubmitStatus
  <2>3. contact_reports' \subseteq ReportTypes /\ \A r \in contact_reports' : r.received <= r.at /\ r.at <= now
    <3>1. /\ ContactReport(e, "status") \in ReportTypes
          /\ ContactReport(e, "status").received <= ContactReport(e, "status").at
          /\ ContactReport(e, "status").at <= now
      BY ReportType, EntryTypes, NowTypes
    <3> QED
      BY <2>1, <3>1 DEF Types, Histories
  <2> QED
    BY <1>1, <1>f, <2>1, <2>3 DEF worldVars, loopVars, Types, TypeOK, Histories, Spaced
<1> QED
  BY <1>1, <1>2, <1>3

(* The other steps of the loop, and the stuttering step. *)
LEMMA LoopTypes ==
    ASSUME Types, BeginPoll \/ HitsDone \/ StatusesDone \/ Push \/ SyncResolved \/ UNCHANGED vars
    PROVE  Types'
<1>t. now \in Nat /\ 0 <= now + Latch
  BY NowTypes
<1>1. UNCHANGED <<worldVars, combat_enabled, blocked_until, queueVars, contact_iframe_until, ghostVars, upsets>>
  BY DEF BeginPoll, HitsDone, StatusesDone, Push, SyncResolved, vars
<1>2. /\ phase' \in {"idle", "hits", "statuses", "push"}
      /\ last_poll' \in Nat
  BY <1>t DEF BeginPoll, HitsDone, StatusesDone, Push, SyncResolved, vars, loopVars, Types, TypeOK
<1>3. /\ damage_source_enemy' \in BOOLEAN /\ enemy_latched_until' \in {enemy_latched_until, 0}
      /\ {hit_event', status_event'} \subseteq Contacts \cup {NoContact}
      /\ sync_due' \in BOOLEAN /\ sync_inflight' \in BOOLEAN
  <2>1. CASE Push
    BY <2>1 DEF Push, Consume, syncVars, fieldVars, alignVars, Types, TypeOK
  <2>2. CASE BeginPoll \/ HitsDone \/ StatusesDone \/ SyncResolved \/ UNCHANGED vars
    BY <2>2 DEF BeginPoll, HitsDone, StatusesDone, SyncResolved, vars, syncVars, fieldVars, alignVars,
       Types, TypeOK
  <2> QED
    BY <2>1, <2>2
<1> QED
  BY <1>t, <1>1, <1>2, <1>3 DEF worldVars, queueVars, ghostVars, Types, TypeOK, Histories, Spaced

(* The types, the histories and the spacing, in every reachable state. *)
LEMMA TypesInvariance == Spec => []Types
<1>1. ASSUME Init
      PROVE  Types
  <2>1. TypeOK
    <3>1. /\ touch \in [Contacts -> {"none", "on", "off"}]
          /\ wire = {} /\ pending_hits = {} /\ pending_statuses = {} /\ phase = "idle"
          /\ hit_event = NoContact /\ status_event = NoContact
      BY <1>1 DEF Init
    <3>2. /\ now = 0 /\ blocked_until = 0 /\ enemy_latched_until = 0 /\ contact_iframe_until = 0
          /\ last_poll = 0 /\ upsets = 0 /\ 0 <= 0 + Latch /\ 0 <= 0 + Iframe
      BY <1>1, Times DEF Init
    <3>3. {combat_enabled, damage_source_enemy, sync_due, sync_inflight} \subseteq BOOLEAN
      BY <1>1 DEF Init
    <3> QED
      BY <3>1, <3>2, <3>3 DEF TypeOK
  <2>2. aligned = [c \in Contacts |-> Never] /\ calmed = [c \in Contacts |-> Never] /\ now = 0
    BY <1>1 DEF Init
  <2>3. Histories
    BY <1>1, <2>2 DEF Init, Histories, Never
  <2> QED
    BY <1>1, <2>1, <2>3 DEF Init, Types, Spaced
<1>2. ASSUME Types, [Next]_vars
      PROVE  Types'
  <2>1. CASE UNCHANGED vars
    BY <1>2, <2>1, LoopTypes
  <2>2. CASE Advance \/ Avatar
    BY <1>2, <2>2, WorldTypes DEF Avatar
  <2>3. CASE TkLoop
    BY <1>2, <2>3, LoopTypes, PopHitTypes, PopStatusTypes DEF TkLoop
  <2>4. CASE \E p \in wire : ReceivePacket(p)
    BY <1>2, <2>4, ReceiveTypes
  <2> QED
    BY <1>2, <2>1, <2>2, <2>3, <2>4 DEF Next
<1> QED
  BY <1>1, <1>2, PTL DEF Spec

(* The types of the packets, the heaps, the telemetry and the windows, and  *)
(* that no window or deadline reaches further ahead than its length, hold   *)
(* in every reachable state (controller.py:113-160, 303-340, 527-672).      *)
THEOREM ContactTypes == Spec => []TypeOK
<1>1. Types => TypeOK
  BY DEF Types
<1> QED
  BY <1>1, TypesInvariance, PTL

(* Two hits reported for one avatar are at least the i-frame apart,         *)
(* whichever Contacts they come from (controller.py:603-623).               *)
THEOREM HitsAreSpaced == Spec => ContactSpacing
<1> DEFINE Apart ==
      last_contact # Never /\ last_contact' # Never /\ contact_reports' # contact_reports
          /\ (\E r \in contact_reports' \ contact_reports : r.kind = "hit")
      => now >= last_contact + Iframe
<1>1. ASSUME Types, [Next]_vars
      PROVE  [Apart]_vars
  <2>1. CASE UNCHANGED contact_reports
    BY <2>1
  <2>2. CASE PopHit
    <3>1. PICK e \in pending_hits :
             UNCHANGED contact_reports \/ ~HitIgnored(e)
      BY <1>1, <2>2, PopHitSteps
    <3>2. CASE ~HitIgnored(e)
      <4>1. ~(now < contact_iframe_until)
        BY <3>2 DEF HitIgnored
      <4>2. now \in Nat /\ contact_iframe_until \in Nat /\ last_contact \in Nat \cup {Never}
            /\ (last_contact # Never => last_contact + Iframe <= contact_iframe_until)
        BY <1>1 DEF Types, TypeOK, Spaced
      <4>3. last_contact # Never => now >= last_contact + Iframe
        BY <4>1, <4>2, Times
      <4> QED
        BY <4>3
    <3> QED
      BY <2>1, <3>1, <3>2
  <2>3. CASE PopStatus
    <3>1. PICK e \in pending_statuses :
             contact_reports' \in {contact_reports, contact_reports \cup {ContactReport(e, "status")}}
      BY <2>3 DEF PopStatus, DueFirst, SubmitStatus
    <3>2. ContactReport(e, "status").kind = "status"
      BY <1>1, ReportType
    <3>3. \A r \in contact_reports' \ contact_reports : r.kind # "hit"
      BY <3>1, <3>2
    <3> QED
      BY <3>3
  <2>4. CASE Advance \/ Avatar \/ \E p \in wire : ReceivePacket(p)
    <3>1. UNCHANGED contact_reports
      BY <2>4 DEF Advance, Avatar, ReceivePacket, Leave, Touch, AvatarChange, Block, SwitchCombat, ghostVars
    <3> QED
      BY <2>1, <3>1
  <2>5. CASE BeginPoll \/ HitsDone \/ StatusesDone \/ Push \/ SyncResolved \/ UNCHANGED vars
    <3>1. UNCHANGED contact_reports
      BY <2>5 DEF BeginPoll, HitsDone, StatusesDone, Push, SyncResolved, vars, ghostVars
    <3> QED
      BY <2>1, <3>1
  <2> QED
    BY <1>1, <2>2, <2>3, <2>4, <2>5 DEF Next, TkLoop
<1>2. Spec => [][Next]_vars
  BY PTL DEF Spec
<1> QED
  BY <1>1, <1>2, TypesInvariance, PTL DEF ContactSpacing

(* A hit or a debuff in a payload field always has a sync due, whatever is  *)
(* in flight (controller.py:616-672; app.py:754-755, 1105-1119).            *)
THEOREM NoReportIsForgotten == Spec => []ReportIsScheduled
<1>1. ASSUME Init
      PROVE  ReportIsScheduled
  BY <1>1 DEF Init, ReportIsScheduled
<1>2. ASSUME ReportIsScheduled, [Next]_vars
      PROVE  ReportIsScheduled'
  <2>1. CASE UNCHANGED <<fieldVars, syncVars>>
    BY <1>2, <2>1 DEF ReportIsScheduled, fieldVars, syncVars
  <2>2. CASE Advance \/ Block \/ BeginPoll \/ HitsDone \/ StatusesDone
    BY <1>2, <2>2 DEF Advance, Block, BeginPoll, HitsDone, StatusesDone, ReportIsScheduled, fieldVars, syncVars
  <2>3. CASE AvatarChange \/ SwitchCombat \/ SyncResolved
    BY <1>2, <2>3 DEF AvatarChange, SwitchCombat, SyncResolved, ReportIsScheduled, fieldVars
  <2>4. CASE \E c \in Contacts : Leave(c) \/ \E kinds \in (SUBSET Kinds) \ {{}} : Touch(c, kinds)
    BY <2>1, <2>4 DEF Leave, Touch
  <2>5. CASE \E p \in wire : ReceivePacket(p)
    BY <2>1, <2>5 DEF ReceivePacket
  <2>6. CASE PopHit
    <3>1. PICK e : UNCHANGED <<hit_event, sync_due>> \/ SubmitHit(e)
      BY <2>6 DEF PopHit
    <3>2. UNCHANGED status_event
      BY <2>6 DEF PopHit
    <3>3. \/ UNCHANGED <<hit_event, sync_due>>
          \/ hit_event' = NoContact /\ sync_due' = sync_due
          \/ sync_due' = TRUE
      BY <3>1 DEF SubmitHit
    <3> QED
      BY <1>2, <3>2, <3>3 DEF ReportIsScheduled
  <2>7. CASE PopStatus
    <3>1. UNCHANGED <<fieldVars, sync_due>> \/ sync_due' = TRUE
      BY <2>7 DEF PopStatus, SubmitStatus, fieldVars
    <3> QED
      BY <1>2, <3>1 DEF ReportIsScheduled, fieldVars
  <2>8. CASE Push
    BY <1>2, <2>8 DEF Push, ReportIsScheduled, fieldVars, syncVars
  <2>9. CASE UNCHANGED vars
    BY <2>1, <2>9 DEF vars
  <2> QED
    BY <1>2, <2>2, <2>3, <2>4, <2>5, <2>6, <2>7, <2>8, <2>9 DEF Next, Avatar, TkLoop
<1> QED
  BY <1>1, <1>2, PTL DEF Spec
----------------------------------------------------------------------------
(* Hits that go to /combat/event.  Where the label of a hit waits in a      *)
(* payload field, or a debuff sets the telemetry between two hits, the next *)
(* hit may inherit it: what follows is about the path the linked device     *)
(* takes for hits, and about hits alone.                                    *)
HitsToEndpoint == Kinds = {"hit"} /\ EndpointReady

(* A hit is judged after the last of its packets, and within the latch of   *)
(* the first: packets that settle within 0.07 s, and a round of the loop    *)
(* every 0.045 s, or 0.125 s minimized, against a latch of 0.35 s           *)
(* (config.py:53, controller.py:321-326, 517-526, app.py:760).              *)
Timely == Skew < Settle /\ Settle + PollGap <= Latch

(* No debuff waits, and no report waits in a field. *)
HitsOnly == pending_statuses = {} /\ hit_event = NoContact /\ status_event = NoContact

(* The packets of one touch are sent together and arrive within the skew;   *)
(* the alignment of a touch arrives once, before it is withdrawn.           *)
Packets ==
    /\ \A p \in wire : /\ p.sent <= now /\ now <= p.sent + Skew
                       /\ touch[p.contact] # "none"
                       /\ p.kind = "enemy" => /\ p.contact \in hostile
                                              /\ aligned[p.contact] = Never /\ calmed[p.contact] = Never
    /\ \A p, q \in wire : p.contact = q.contact => p.sent = q.sent /\ (p.kind = "calm" => q.kind = "calm")
    /\ \A c \in Contacts : touch[c] = "none" => aligned[c] = Never /\ calmed[c] = Never

(* A hit is popped in the round after it falls due. *)
Polling ==
    /\ last_poll <= now /\ now <= last_poll + PollGap
    /\ phase # "idle" => last_poll = now
    /\ \A e \in pending_hits :
          /\ e.due = e.received + Settle
          /\ phase = "idle" => last_poll < e.due
          /\ phase = "hits" => now < e.due + PollGap
          /\ phase \in {"statuses", "push"} => now < e.due

AlignmentComing(c) == \E q \in wire : q.kind = "enemy" /\ q.contact = c

(* An alignment that arrived is in the latch, or the report that consumed   *)
(* it is in the i-frame.                                                    *)
Latched(c) == aligned[c] + Latch <= enemy_latched_until
Covered(c) == aligned[c] + Iframe <= contact_iframe_until

(* A hit packet under way: its alignment is under way too, or kept. *)
Awaited ==
    \A p \in wire : p.kind = "hit" /\ p.contact \in hostile =>
        \/ AlignmentComing(p.contact)
        \/ aligned[p.contact] # Never /\ p.sent <= aligned[p.contact] /\ (Latched(p.contact) \/ Covered(p.contact))

(* A queued hit: the same, or it already has its label. *)
Labelled ==
    \A e \in pending_hits : e.contact \in hostile =>
        \/ \E q \in wire : q.kind = "enemy" /\ q.contact = e.contact /\ q.sent <= e.received
        \/ /\ aligned[e.contact] # Never /\ e.received <= aligned[e.contact] + Skew
           /\ e.enemy \/ Covered(e.contact) \/ (e.received <= aligned[e.contact] /\ Latched(e.contact))

(* The alignment of c was there, or in the latch, at time t. *)
Shown(c, t) ==
    aligned[c] # Never /\ (t < aligned[c] + Latch \/ calmed[c] = Never \/ t <= calmed[c])

(* Where the telemetry, the latch and the label of a queued hit come from. *)
Origin ==
    /\ damage_source_enemy => \E c \in hostile : aligned[c] # Never /\ calmed[c] = Never
    /\ enemy_latched_until > 0 => \E c \in hostile : aligned[c] # Never /\ enemy_latched_until <= aligned[c] + Latch
    /\ \A e \in pending_hits : e.enemy => \E c \in hostile : Shown(c, e.received)

(* The order of the numbers is well-founded, so a set of due times that is  *)
(* not empty has a least one.                                               *)
LEMMA NatOrder == \E R : IsWellFoundedOn(R, Nat) /\ \A x, y \in Nat : <<y, x>> \in R <=> y < x
<1>1. IsWellFoundedOn(OpToRel(<, Nat), Nat)
  BY NatLessThanWellFounded
<1>2. \A x, y \in Nat : <<y, x>> \in OpToRel(<, Nat) <=> y < x
  BY DEF OpToRel
<1> QED
  BY <1>1, <1>2, Zenon

LEMMA Least ==
    ASSUME NEW T \in SUBSET Nat, T # {}
    PROVE  \E n \in T : \A m \in T : n <= m
<1>1. PICK R : IsWellFoundedOn(R, Nat) /\ \A x, y \in Nat : <<y, x>> \in R <=> y < x
  BY NatOrder
<1>2. PICK x \in T : \A y \in T : ~ (<<y, x>> \in R)
  BY <1>1, WFMin
<1>3. \A m \in T : ~(m < x)
  BY <1>1, <1>2
<1>4. x \in Nat /\ \A m \in T : m \in Nat
  OBVIOUS
<1>5. \A m \in Nat : ~(m < x) => x <= m
  BY <1>4
<1> QED
  BY <1>2, <1>3, <1>4, <1>5

LEMMA NothingDue ==
    ASSUME Types, DueFirst(pending_hits) = {}
    PROVE  \A e \in pending_hits : now < e.due
<1> SUFFICES ASSUME NEW e \in pending_hits, ~(now < e.due)
             PROVE  FALSE
  OBVIOUS
<1> DEFINE Dues == {f.due : f \in pending_hits}
<1>1. now \in Nat /\ \A f \in pending_hits : f.due \in Nat
  BY EntryTypes, NowTypes
<1>2. Dues \in SUBSET Nat /\ Dues # {}
  BY <1>1
<1>3. PICK n \in Dues : \A m \in Dues : n <= m
  <2> HIDE DEF Dues
  <2> QED
    BY <1>2, Least
<1>4. PICK f \in pending_hits : f.due = n
  BY <1>3
<1>5. \A g \in pending_hits : f.due <= g.due
  BY <1>3, <1>4
<1>6. f.due <= now
  BY <1>1, <1>5
<1> QED
  BY <1>5, <1>6 DEF DueFirst
----------------------------------------------------------------------------
(* The steps in groups, by what they leave alone. *)

LEMMA StepCases ==
    ASSUME Next
    PROVE  \/ Advance \/ AvatarChange
           \/ \E c \in Contacts : Leave(c)
           \/ \E c \in Contacts : \E kinds \in (SUBSET Kinds) \ {{}} : Touch(c, kinds)
           \/ \E p \in wire : ReceivePacket(p)
           \/ Block \/ SwitchCombat \/ SyncResolved
           \/ BeginPoll \/ HitsDone \/ StatusesDone \/ Push \/ PopHit \/ PopStatus
BY DEF Next, Avatar, TkLoop

(* With hits alone nothing is queued as a debuff. *)
LEMMA HitsOnlyStep ==
    ASSUME HitsToEndpoint, Types, HitsOnly, [Next]_vars
    PROVE  HitsOnly' /\ ~PopStatus
<1>p. ~PopStatus
  BY DEF HitsOnly, PopStatus, DueFirst
<1>1. CASE UNCHANGED <<pending_statuses, fieldVars>>
  BY <1>1, <1>p DEF HitsOnly, fieldVars
<1>2. CASE Advance \/ Block \/ SwitchCombat \/ BeginPoll \/ HitsDone \/ StatusesDone \/ SyncResolved \/ UNCHANGED vars
  BY <1>1, <1>2 DEF Advance, Block, SwitchCombat, BeginPoll, HitsDone, StatusesDone, SyncResolved, vars, queueVars
<1>3. CASE \E c \in Contacts : Leave(c) \/ \E kinds \in (SUBSET Kinds) \ {{}} : Touch(c, kinds)
  BY <1>1, <1>3 DEF Leave, Touch, queueVars
<1>4. ASSUME NEW p \in wire, ReceivePacket(p)
      PROVE  HitsOnly' /\ ~PopStatus
  <2>1. p.kind # "status"
    BY PacketTypes DEF HitsToEndpoint
  <2> QED
    BY <1>1, <1>4, <2>1 DEF ReceivePacket, ReceiveEnemy, ReceiveCalm, ReceiveHit, ReceiveStatus, queueVars
<1>5. CASE AvatarChange
  BY <1>p, <1>5 DEF AvatarChange, HitsOnly, fieldVars
<1>6. CASE Push
  BY <1>p, <1>6 DEF Push, HitsOnly, fieldVars, queueVars
<1>7. CASE PopHit
  <2>1. UNCHANGED <<pending_statuses, status_event>> /\ hit_event' \in {hit_event, NoContact}
    BY <1>7 DEF PopHit, SubmitHit, HitsToEndpoint
  <2> QED
    BY <1>p, <2>1 DEF HitsOnly
<1> QED
  BY <1>p, <1>2, <1>3, <1>4, <1>5, <1>6, <1>7, StepCases

(* The steps that touch neither the avatar, the packets nor the history of  *)
(* the alignments: those of the loop, Block and SwitchCombat.               *)
LEMMA LoopSteps ==
    ASSUME Block \/ SwitchCombat \/ SyncResolved \/ BeginPoll \/ HitsDone \/ StatusesDone \/ Push
           \/ PopHit \/ PopStatus \/ UNCHANGED vars
    PROVE  UNCHANGED <<now, touch, hostile, wire, aligned, calmed>>
<1>1. CASE PopHit \/ PopStatus
  BY <1>1 DEF PopHit, PopStatus, worldVars
<1>2. CASE Block \/ SwitchCombat \/ SyncResolved \/ UNCHANGED vars
  BY <1>2 DEF Block, SwitchCombat, SyncResolved, vars, worldVars, ghostVars
<1>3. CASE BeginPoll \/ HitsDone \/ StatusesDone \/ Push
  BY <1>3 DEF BeginPoll, HitsDone, StatusesDone, Push, worldVars, ghostVars
<1> QED
  BY <1>1, <1>2, <1>3

LEMMA PacketsStep ==
    ASSUME Types, Packets, [Next]_vars
    PROVE  Packets'
<1>t. /\ now \in Nat /\ \A p \in wire : p.sent \in Nat /\ p.contact \in Contacts
      /\ touch \in [Contacts -> {"none", "on", "off"}]
      /\ aligned \in [Contacts -> Nat \cup {Never}] /\ calmed \in [Contacts -> Nat \cup {Never}]
  BY NowTypes, PacketTypes DEF Types, TypeOK, Histories
<1>1. CASE UNCHANGED <<now, touch, hostile, wire, aligned, calmed>>
  BY <1>1 DEF Packets
<1>2. CASE Advance
  <2>1. /\ now' = now + 1 /\ \A p \in wire : now < p.sent + Skew
        /\ UNCHANGED <<touch, hostile, wire, aligned, calmed>>
    BY <1>2 DEF Advance, ghostVars
  <2>2. \A p \in wire : p.sent <= now' /\ now' <= p.sent + Skew
    BY <1>t, <2>1, Times DEF Packets
  <2> QED
    BY <2>1, <2>2 DEF Packets
<1>3. CASE AvatarChange
  BY <1>3, <1>t DEF AvatarChange, Packets
<1>4. ASSUME NEW c \in Contacts, Leave(c)
      PROVE  Packets'
  <2>1. /\ \A p \in wire : p.contact # c
        /\ touch[c] = "on" /\ touch' = [touch EXCEPT ![c] = "off"]
        /\ wire' \subseteq wire \cup {Packet("calm", c)}
        /\ UNCHANGED <<now, hostile, aligned, calmed>>
    BY <1>4 DEF Leave, ghostVars
  <2>2. /\ Packet("calm", c).kind = "calm" /\ Packet("calm", c).contact = c /\ Packet("calm", c).sent = now
    BY DEF Packet
  <2>3. \A d \in Contacts : touch'[d] = IF d = c THEN "off" ELSE touch[d]
    BY <1>t, <2>1
  <2>4. \A p \in wire' : p \in wire \/ p = Packet("calm", c)
    BY <2>1
  <2>5. now <= now /\ now <= now + Skew
    BY <1>t, Times
  <2>6. (\A p \in wire : /\ p.sent <= now /\ now <= p.sent + Skew
                         /\ touch[p.contact] # "none"
                         /\ p.kind = "enemy" => /\ p.contact \in hostile
                                                /\ aligned[p.contact] = Never /\ calmed[p.contact] = Never)'
    BY <1>t, <2>1, <2>2, <2>3, <2>4, <2>5 DEF Packets
  <2>7. \A p, q \in wire' : p.contact = q.contact => p.sent = q.sent /\ (p.kind = "calm" => q.kind = "calm")
    BY <2>1, <2>2, <2>4 DEF Packets
  <2>8. \A d \in Contacts : touch'[d] = "none" => aligned[d] = Never /\ calmed[d] = Never
    BY <2>3 DEF Packets
  <2> QED
    BY <2>1, <2>6, <2>7, <2>8 DEF Packets
<1>5. ASSUME NEW c \in Contacts, NEW kinds \in (SUBSET Kinds) \ {{}}, Touch(c, kinds)
      PROVE  Packets'
  <2> DEFINE Sent == kinds \cup (IF c \in hostile THEN {"enemy"} ELSE {})
  <2>1. /\ touch[c] = "none" /\ touch' = [touch EXCEPT ![c] = "on"]
        /\ wire' = wire \cup {Packet(kind, c) : kind \in Sent}
        /\ UNCHANGED <<now, hostile, aligned, calmed>>
    BY <1>5 DEF Touch, ghostVars
  <2>2. \A kind \in Sent : /\ Packet(kind, c).kind = kind /\ Packet(kind, c).contact = c
                           /\ Packet(kind, c).sent = now
    BY DEF Packet
  <2>3. \A d \in Contacts : touch'[d] = IF d = c THEN "on" ELSE touch[d]
    BY <1>t, <2>1
  <2>4. \A kind \in Sent : kind # "calm" /\ (kind = "enemy" => c \in hostile)
    BY PipelineAssumption
  <2>5. \A p \in wire' : p \in wire \/ (p.contact = c /\ p.sent = now /\ p.kind \in Sent)
    <3> HIDE DEF Sent
    <3> QED
      BY <2>1, <2>2
  <2>6. aligned[c] = Never /\ calmed[c] = Never /\ \A p \in wire : p.contact # c
    BY <2>1 DEF Packets
  <2>7. now <= now /\ now <= now + Skew
    BY <1>t, Times
  <2> HIDE DEF Sent
  <2>8. (\A p \in wire : /\ p.sent <= now /\ now <= p.sent + Skew
                         /\ touch[p.contact] # "none"
                         /\ p.kind = "enemy" => /\ p.contact \in hostile
                                                /\ aligned[p.contact] = Never /\ calmed[p.contact] = Never)'
    BY <1>t, <2>1, <2>3, <2>4, <2>5, <2>6, <2>7 DEF Packets
  <2>9. \A p, q \in wire' : p.contact = q.contact => p.sent = q.sent /\ (p.kind = "calm" => q.kind = "calm")
    BY <2>4, <2>5, <2>6 DEF Packets
  <2>10. \A d \in Contacts : touch'[d] = "none" => aligned[d] = Never /\ calmed[d] = Never
    BY <2>3 DEF Packets
  <2> QED
    BY <2>1, <2>8, <2>9, <2>10 DEF Packets
<1>6. ASSUME NEW p \in wire, ReceivePacket(p)
      PROVE  Packets'
  <2>1. /\ wire' = wire \ {p} /\ UNCHANGED <<now, touch, hostile>>
        /\ \/ UNCHANGED <<aligned, calmed>>
           \/ p.kind = "enemy" /\ aligned' = [aligned EXCEPT ![p.contact] = now] /\ UNCHANGED calmed
           \/ p.kind = "calm" /\ calmed' = [calmed EXCEPT ![p.contact] = now] /\ UNCHANGED aligned
    BY <1>6 DEF ReceivePacket, ReceiveEnemy, ReceiveCalm, ReceiveHit, ReceiveStatus
  <2>2. /\ touch[p.contact] # "none"
        /\ \A c \in Contacts \ {p.contact} : aligned'[c] = aligned[c] /\ calmed'[c] = calmed[c]
    BY <1>t, <2>1 DEF Packets
  <2>3. \A q \in wire' : q.kind = "enemy" => q.contact # p.contact \/ UNCHANGED <<aligned, calmed>>
    <3> SUFFICES ASSUME NEW q \in wire', q.kind = "enemy", q.contact = p.contact,
                        p.kind = "enemy" \/ p.kind = "calm"
                 PROVE  FALSE
      BY <2>1
    <3>1. q \in wire /\ q # p
      BY <2>1
    <3>2. p.sent = q.sent /\ p.kind # "calm"
      BY <3>1 DEF Packets
    <3>3. p \in WirePackets /\ q \in WirePackets /\ p.kind = q.kind
      BY <3>1, <3>2 DEF Types, TypeOK, WirePackets
    <3>4. p = q
      BY <3>2, <3>3 DEF WirePackets
    <3> QED
      BY <3>1, <3>4
  <2>4. (\A q \in wire : /\ q.sent <= now /\ now <= q.sent + Skew
                         /\ touch[q.contact] # "none"
                         /\ q.kind = "enemy" => /\ q.contact \in hostile
                                                /\ aligned[q.contact] = Never /\ calmed[q.contact] = Never)'
    BY <1>t, <2>1, <2>2, <2>3 DEF Packets
  <2>5. \A q, r \in wire' : q.contact = r.contact => q.sent = r.sent /\ (q.kind = "calm" => r.kind = "calm")
    BY <2>1 DEF Packets
  <2>6. \A c \in Contacts : touch'[c] = "none" => aligned'[c] = Never /\ calmed'[c] = Never
    BY <2>1, <2>2 DEF Packets
  <2> QED
    BY <2>4, <2>5, <2>6 DEF Packets
<1> QED
  BY <1>1, <1>2, <1>3, <1>4, <1>5, <1>6, StepCases, LoopSteps

LEMMA PollingStep ==
    ASSUME Timely, Types, Polling, ~PopStatus, [Next]_vars
    PROVE  Polling'
<1>t. /\ now \in Nat /\ last_poll \in Nat
      /\ \A e \in pending_hits : e.due \in Nat /\ e.received \in Nat
  BY NowTypes, EntryTypes DEF Types, TypeOK
<1>1. CASE UNCHANGED <<now, phase, last_poll, pending_hits>>
  BY <1>1 DEF Polling
<1>2. CASE Advance
  <2>1. /\ now' = now + 1 /\ phase = "idle" /\ now < last_poll + PollGap
        /\ UNCHANGED <<phase, last_poll, pending_hits>>
    BY <1>2 DEF Advance, loopVars, queueVars
  <2>2. last_poll <= now' /\ now' <= last_poll + PollGap
    BY <1>t, <2>1, Times DEF Polling
  <2> QED
    BY <2>1, <2>2 DEF Polling
<1>3. CASE AvatarChange
  BY <1>3 DEF AvatarChange, Polling, loopVars
<1>4. ASSUME NEW p \in wire, ReceivePacket(p)
      PROVE  Polling'
  <2>1. /\ phase = "idle" /\ UNCHANGED <<now, phase, last_poll>>
        /\ pending_hits' \in {pending_hits, pending_hits \cup {Queued(p, Settle)}}
    BY <1>4 DEF ReceivePacket, ReceiveEnemy, ReceiveCalm, ReceiveHit, ReceiveStatus, loopVars, queueVars
  <2>2. Queued(p, Settle).due = now + Settle /\ Queued(p, Settle).received = now
    BY DEF Queued
  <2>3. last_poll < now + Settle
    BY <1>t, Times DEF Polling, Timely
  <2> QED
    BY <2>1, <2>2, <2>3 DEF Polling
<1>5. CASE BeginPoll
  <2>1. /\ phase = "idle" /\ phase' = "hits" /\ last_poll' = now /\ UNCHANGED <<now, pending_hits>>
    BY <1>5 DEF BeginPoll, worldVars, queueVars
  <2>2. now <= now + PollGap /\ now <= now
    BY <1>t, Times
  <2>3. \A e \in pending_hits : now < e.due + PollGap /\ e.due = e.received + Settle
    BY <1>t, <2>1, Times DEF Polling
  <2> QED
    BY <2>1, <2>2, <2>3 DEF Polling
<1>6. CASE HitsDone
  <2>1. /\ phase' = "statuses" /\ phase = "hits" /\ UNCHANGED <<now, last_poll, pending_hits>>
        /\ \A e \in pending_hits : now < e.due
    BY <1>6, NothingDue DEF HitsDone, worldVars, queueVars
  <2> QED
    BY <2>1 DEF Polling
<1>7. CASE StatusesDone \/ Push
  <2>1. /\ phase' \in {"push", "idle"} /\ phase \in {"statuses", "push"}
        /\ UNCHANGED <<now, last_poll, pending_hits>>
    BY <1>7 DEF StatusesDone, Push, worldVars, queueVars
  <2> QED
    BY <2>1 DEF Polling
<1>8. CASE PopHit
  <2>1. pending_hits' \subseteq pending_hits /\ UNCHANGED <<now, phase, last_poll>>
    BY <1>8 DEF PopHit, worldVars, loopVars
  <2> QED
    BY <2>1 DEF Polling
<1>9. CASE \/ Block \/ SwitchCombat \/ SyncResolved \/ UNCHANGED vars
           \/ \E c \in Contacts : Leave(c) \/ \E kinds \in (SUBSET Kinds) \ {{}} : Touch(c, kinds)
  BY <1>1, <1>9 DEF Block, SwitchCombat, SyncResolved, vars, Leave, Touch, worldVars, loopVars, queueVars
<1> QED
  BY <1>2, <1>3, <1>4, <1>5, <1>6, <1>7, <1>8, <1>9, StepCases

(* The path of a judged hit. *)
LEMMA Judged ==
    ASSUME HitsToEndpoint, Types, PopHit
    PROVE  \E e \in pending_hits :
              /\ e.due <= now /\ pending_hits' = pending_hits \ {e}
              /\ UNCHANGED <<now, touch, hostile, wire, aligned, calmed>>
              /\ \/ UNCHANGED <<alignVars, contact_iframe_until, contact_reports>>
                 \/ /\ now >= contact_iframe_until /\ contact_iframe_until' = now + Iframe
                    /\ damage_source_enemy' = FALSE /\ enemy_latched_until' = 0
                    /\ contact_reports' = contact_reports \cup {ContactReport(e, "hit")}
<1>1. PICK e \in pending_hits :
        /\ e \in DueFirst(pending_hits) /\ pending_hits' = pending_hits \ {e}
        /\ \/ /\ HitIgnored(e)
              /\ UNCHANGED <<alignVars, contact_iframe_until, hit_event, sync_due, contact_reports,
                             last_contact>>
           \/ /\ ~HitIgnored(e)
              /\ SubmitHit(e)
  BY PopHitSteps
<1>2. e.due <= now /\ UNCHANGED <<now, touch, hostile, wire, aligned, calmed>>
  BY <1>1, LoopSteps DEF DueFirst
<1>3. CASE UNCHANGED <<alignVars, contact_iframe_until, hit_event, sync_due, contact_reports, last_contact>>
  BY <1>1, <1>2, <1>3
<1>4. CASE ~HitIgnored(e) /\ SubmitHit(e)
  <2>1. /\ contact_iframe_until' = now + Iframe
        /\ contact_reports' = contact_reports \cup {ContactReport(e, "hit")}
        /\ damage_source_enemy' = FALSE /\ enemy_latched_until' = 0
    BY <1>4 DEF SubmitHit, IframeEnd, Consume, HitsToEndpoint
  <2>2. now >= contact_iframe_until
    <3>1. now \in Nat /\ contact_iframe_until \in Nat /\ ~(now < contact_iframe_until)
      BY <1>4 DEF HitIgnored, Types, TypeOK
    <3> QED
      BY <3>1
  <2> QED
    BY <1>1, <1>2, <2>1, <2>2
<1> QED
  BY <1>1, <1>3, <1>4

(* The steps after which the queue, the packets and the windows are what    *)
(* they were.                                                               *)
LEMMA QuietSteps ==
    ASSUME HitsToEndpoint, HitsOnly,
           \/ Advance \/ Block \/ SwitchCombat \/ SyncResolved \/ BeginPoll \/ HitsDone \/ StatusesDone
           \/ Push \/ UNCHANGED vars
    PROVE  UNCHANGED <<wire, hostile, aligned, calmed, pending_hits, contact_reports, damage_source_enemy,
                       enemy_latched_until, contact_iframe_until>>
<1>1. CASE Push
  <2>1. UNCHANGED alignVars
    BY <1>1 DEF Push, HitsOnly
  <2> QED
    BY <1>1, <2>1 DEF Push, worldVars, queueVars, ghostVars, alignVars
<1>2. CASE Advance \/ Block \/ SwitchCombat \/ SyncResolved
  BY <1>2 DEF Advance, Block, SwitchCombat, SyncResolved, worldVars, queueVars, ghostVars, alignVars
<1>3. CASE BeginPoll \/ HitsDone \/ StatusesDone \/ UNCHANGED vars
  BY <1>3 DEF BeginPoll, HitsDone, StatusesDone, vars, worldVars, queueVars, ghostVars, alignVars
<1> QED
  BY <1>1, <1>2, <1>3

(* The avatar's packets only add to the wire. *)
LEMMA SendSteps ==
    ASSUME NEW c \in Contacts, Leave(c) \/ \E kinds \in (SUBSET Kinds) \ {{}} : Touch(c, kinds)
    PROVE  /\ wire \subseteq wire'
           /\ \A p \in wire' : p \in wire \/ (p.contact = c /\ (p.kind = "hit" /\ c \in hostile =>
                                                \E q \in wire' : q.kind = "enemy" /\ q.contact = c))
           /\ UNCHANGED <<now, hostile, aligned, calmed, pending_hits, contact_reports, damage_source_enemy,
                          enemy_latched_until, contact_iframe_until>>
<1>1. \A kind : Packet(kind, c).kind = kind /\ Packet(kind, c).contact = c
  BY DEF Packet
<1>2. UNCHANGED <<now, hostile, aligned, calmed, pending_hits, contact_reports, damage_source_enemy,
                  enemy_latched_until, contact_iframe_until>>
  BY DEF Leave, Touch, ghostVars, queueVars, alignVars
<1>3. CASE Leave(c)
  <2>1. wire' \in {wire, wire \cup {Packet("calm", c)}}
    BY <1>3 DEF Leave
  <2> QED
    BY <1>1, <1>2, <2>1
<1>4. ASSUME NEW kinds \in (SUBSET Kinds) \ {{}}, Touch(c, kinds)
      PROVE  /\ wire \subseteq wire'
             /\ \A p \in wire' : p \in wire \/ (p.contact = c /\ (p.kind = "hit" /\ c \in hostile =>
                                                  \E q \in wire' : q.kind = "enemy" /\ q.contact = c))
  <2> DEFINE Sent == kinds \cup (IF c \in hostile THEN {"enemy"} ELSE {})
  <2>1. wire' = wire \cup {Packet(kind, c) : kind \in Sent}
    BY <1>4 DEF Touch
  <2>2. c \in hostile => Packet("enemy", c) \in wire'
    BY <2>1
  <2>3. \A p \in wire' : p \in wire \/ p.contact = c
    BY <2>1, <1>1
  <2> QED
    BY <1>1, <2>1, <2>2, <2>3
<1> QED
  BY <1>2, <1>3, <1>4

(* What an arriving packet does to the latch and to the histories. *)
LEMMA ReceiveSteps ==
    ASSUME Types, NEW p \in wire, ReceivePacket(p)
    PROVE  /\ wire' = wire \ {p}
           /\ UNCHANGED <<now, hostile, contact_iframe_until, contact_reports>>
           /\ enemy_latched_until \in Nat /\ enemy_latched_until' \in Nat
           /\ enemy_latched_until <= enemy_latched_until'
           /\ \/ /\ p.kind = "enemy" /\ damage_source_enemy' = TRUE /\ UNCHANGED <<pending_hits, calmed>>
                 /\ enemy_latched_until' = now + Latch
                 /\ aligned' = [aligned EXCEPT ![p.contact] = now]
              \/ /\ p.kind = "calm" /\ damage_source_enemy' = FALSE /\ UNCHANGED <<pending_hits, aligned>>
                 /\ UNCHANGED enemy_latched_until
                 /\ calmed' = [calmed EXCEPT ![p.contact] = now]
              \/ /\ p.kind = "hit" /\ UNCHANGED <<alignVars, aligned, calmed>>
                 /\ pending_hits' = pending_hits \cup {Queued(p, Settle)}
              \/ /\ p.kind = "status" /\ UNCHANGED <<pending_hits, alignVars, aligned, calmed>>
<1>1. /\ wire' = wire \ {p}
      /\ UNCHANGED <<now, hostile, contact_iframe_until, contact_reports>>
      /\ enemy_latched_until \in Nat
  BY DEF ReceivePacket, Types, TypeOK
<1>2. CASE ReceiveEnemy(p)
  <2>1. enemy_latched_until' = now + Latch /\ now + Latch \in Nat /\ enemy_latched_until <= now + Latch
    <3>1. enemy_latched_until \in Nat /\ enemy_latched_until <= now + Latch /\ now + Latch \in Nat
      BY NowTypes DEF Types, TypeOK
    <3>2. enemy_latched_until' = AtLeast(enemy_latched_until, now + Latch)
      BY <1>2 DEF ReceiveEnemy, LatchEnd
    <3> QED
      BY <3>1, <3>2 DEF AtLeast
  <2>2. /\ p.kind = "enemy" /\ damage_source_enemy' = TRUE /\ UNCHANGED <<pending_hits, calmed>>
        /\ aligned' = [aligned EXCEPT ![p.contact] = now]
    BY <1>2 DEF ReceiveEnemy, queueVars
  <2> QED
    BY <1>1, <2>1, <2>2
<1>3. CASE ReceiveCalm(p) \/ ReceiveHit(p) \/ ReceiveStatus(p)
  <2>1. /\ UNCHANGED enemy_latched_until
        /\ \/ /\ p.kind = "calm" /\ damage_source_enemy' = FALSE /\ UNCHANGED <<pending_hits, aligned>>
              /\ UNCHANGED enemy_latched_until
              /\ calmed' = [calmed EXCEPT ![p.contact] = now]
           \/ /\ p.kind = "hit" /\ UNCHANGED <<alignVars, aligned, calmed>>
              /\ pending_hits' = pending_hits \cup {Queued(p, Settle)}
           \/ /\ p.kind = "status" /\ UNCHANGED <<pending_hits, alignVars, aligned, calmed>>
    BY <1>3 DEF ReceiveCalm, ReceiveHit, ReceiveStatus, queueVars, alignVars
  <2>2. enemy_latched_until <= enemy_latched_until
    BY <1>1
  <2> QED
    BY <1>1, <2>1, <2>2
<1> QED
  BY <1>2, <1>3 DEF ReceivePacket

LEMMA AwaitedStep ==
    ASSUME HitsToEndpoint, Types, HitsOnly, Packets, Awaited, ~PopStatus, [Next]_vars
    PROVE  Awaited'
<1>t. /\ now \in Nat /\ \A p \in wire : p.sent \in Nat /\ p.contact \in Contacts
      /\ aligned \in [Contacts -> Nat \cup {Never}]
      /\ \A c \in Contacts : aligned[c] <= now
      /\ enemy_latched_until \in Nat /\ contact_iframe_until \in Nat
  BY NowTypes, PacketTypes DEF Types, TypeOK, Histories
<1> DEFINE Safe(c, t) ==
      aligned[c] # Never /\ t <= aligned[c] /\ (Latched(c) \/ Covered(c))
<1>a. Awaited <=> \A p \in wire : p.kind = "hit" /\ p.contact \in hostile =>
                     AlignmentComing(p.contact) \/ Safe(p.contact, p.sent)
  BY DEF Awaited
<1>b. Awaited' <=> \A p \in wire' : p.kind = "hit" /\ p.contact \in hostile' =>
                      AlignmentComing(p.contact)' \/ Safe(p.contact, p.sent)'
  BY DEF Awaited
<1>1. CASE \/ Advance \/ Block \/ SwitchCombat \/ SyncResolved \/ BeginPoll \/ HitsDone \/ StatusesDone
           \/ Push \/ UNCHANGED vars
  <2>1. UNCHANGED <<wire, hostile, aligned, enemy_latched_until, contact_iframe_until>>
    BY <1>1, QuietSteps
  <2> QED
    BY <2>1 DEF Awaited, AlignmentComing, Latched, Covered
<1>2. CASE AvatarChange
  BY <1>2 DEF AvatarChange, Awaited
<1>3. ASSUME NEW c \in Contacts, Leave(c) \/ \E kinds \in (SUBSET Kinds) \ {{}} : Touch(c, kinds)
      PROVE  Awaited'
  <2>1. UNCHANGED <<hostile, aligned, enemy_latched_until, contact_iframe_until>>
    BY <1>3, SendSteps
  <2>2. wire \subseteq wire'
    BY <1>3, SendSteps
  <2>3. \A d, t : Safe(d, t) => Safe(d, t)'
    BY <2>1 DEF Latched, Covered
  <2>4. \A d : AlignmentComing(d) => AlignmentComing(d)'
    BY <2>2 DEF AlignmentComing
  <2>5. \A p \in wire' : p \in wire \/ (p.kind = "hit" /\ p.contact \in hostile => AlignmentComing(p.contact)')
    BY <1>3, SendSteps DEF AlignmentComing
  <2> HIDE DEF Safe
  <2> QED
    BY <1>a, <1>b, <2>1, <2>3, <2>4, <2>5
<1>4. ASSUME NEW p \in wire, ReceivePacket(p)
      PROVE  Awaited'
  <2>1. /\ wire' = wire \ {p} /\ UNCHANGED <<now, hostile, contact_iframe_until>>
        /\ enemy_latched_until' \in Nat /\ enemy_latched_until <= enemy_latched_until'
        /\ \/ /\ p.kind = "enemy" /\ enemy_latched_until' = now + Latch
              /\ aligned' = [aligned EXCEPT ![p.contact] = now]
           \/ p.kind # "enemy" /\ UNCHANGED aligned
    BY <1>4, ReceiveSteps
  <2>2. \A c \in Contacts : c # p.contact \/ UNCHANGED aligned => aligned'[c] = aligned[c]
    BY <1>t, <2>1
  <2>3. \A c \in Contacts : \A t : aligned'[c] = aligned[c] /\ Safe(c, t) => Safe(c, t)'
    BY <1>t, <2>1, Times DEF Latched, Covered
  <2>4. ASSUME NEW q \in wire', q.kind = "hit", q.contact \in hostile'
        PROVE  AlignmentComing(q.contact)' \/ Safe(q.contact, q.sent)'
    <3>1. q \in wire /\ q.contact \in Contacts /\ q.sent <= now
      BY <1>t, <2>1, <2>4 DEF Packets
    <3>2. CASE p.kind = "enemy" /\ p.contact = q.contact
      <4>1. aligned'[q.contact] = now /\ enemy_latched_until' = now + Latch
        BY <1>t, <2>1, <3>1, <3>2
      <4> QED
        BY <1>t, <3>1, <4>1, Times DEF Never, Latched
    <3>3. CASE ~(p.kind = "enemy" /\ p.contact = q.contact)
      <4>1. AlignmentComing(q.contact) => AlignmentComing(q.contact)'
        BY <2>1, <3>3 DEF AlignmentComing
      <4>2. aligned'[q.contact] = aligned[q.contact]
        BY <2>1, <2>2, <3>1, <3>3
      <4>3. Safe(q.contact, q.sent) => Safe(q.contact, q.sent)'
        BY <2>3, <3>1, <4>2
      <4>4. AlignmentComing(q.contact) \/ Safe(q.contact, q.sent)
        <5> HIDE DEF Safe
        <5> QED
          BY <1>a, <2>1, <2>4, <3>1
      <4> QED
        BY <4>1, <4>3, <4>4
    <3> QED
      BY <3>2, <3>3
  <2> QED
    BY <1>b, <2>4
<1>5. CASE PopHit
  <2>1. /\ UNCHANGED <<now, hostile, wire, aligned>>
        /\ UNCHANGED <<enemy_latched_until, contact_iframe_until>> \/ contact_iframe_until' = now + Iframe
    BY <1>5, Judged DEF alignVars
  <2>2. \A c \in Contacts : \A t : Safe(c, t) => Safe(c, t)'
    BY <1>t, <2>1, Times DEF Latched, Covered
  <2>3. \A c : AlignmentComing(c) => AlignmentComing(c)'
    BY <2>1 DEF AlignmentComing
  <2> HIDE DEF Safe
  <2> QED
    BY <1>a, <1>b, <1>t, <2>1, <2>2, <2>3
<1> QED
  BY <1>1, <1>2, <1>3, <1>4, <1>5, StepCases

(* A hit whose packet arrives is labelled at once, or its alignment is still *)
(* to come.                                                                 *)
LEMMA LabelledStep ==
    ASSUME HitsToEndpoint, Types, HitsOnly, Packets, Awaited, Labelled, ~PopStatus, [Next]_vars
    PROVE  Labelled'
<1>t. /\ now \in Nat /\ \A p \in wire : p.sent \in Nat /\ p.contact \in Contacts
      /\ aligned \in [Contacts -> Nat \cup {Never}]
      /\ \A c \in Contacts : aligned[c] <= now
      /\ enemy_latched_until \in Nat /\ contact_iframe_until \in Nat
      /\ \A e \in pending_hits : e.contact \in Contacts /\ e.received \in Nat /\ e.received <= now
  BY NowTypes, PacketTypes, EntryTypes DEF Types, TypeOK, Histories
<1> DEFINE Coming(e) == \E q \in wire : q.kind = "enemy" /\ q.contact = e.contact /\ q.sent <= e.received
           Safe(e) == /\ aligned[e.contact] # Never /\ e.received <= aligned[e.contact] + Skew
                      /\ e.enemy \/ Covered(e.contact) \/ (e.received <= aligned[e.contact] /\ Latched(e.contact))
<1>a. Labelled <=> \A e \in pending_hits : e.contact \in hostile => Coming(e) \/ Safe(e)
  BY DEF Labelled
<1>b. Labelled' <=> \A e \in pending_hits' : e.contact \in hostile' => Coming(e)' \/ Safe(e)'
  BY DEF Labelled
<1>1. CASE \/ Advance \/ Block \/ SwitchCombat \/ SyncResolved \/ BeginPoll \/ HitsDone \/ StatusesDone
           \/ Push \/ UNCHANGED vars
  <2>1. UNCHANGED <<wire, hostile, aligned, pending_hits, enemy_latched_until, contact_iframe_until>>
    BY <1>1, QuietSteps
  <2> QED
    BY <2>1 DEF Labelled, Latched, Covered
<1>2. CASE AvatarChange
  BY <1>2 DEF AvatarChange, Labelled
<1>3. ASSUME NEW c \in Contacts, Leave(c) \/ \E kinds \in (SUBSET Kinds) \ {{}} : Touch(c, kinds)
      PROVE  Labelled'
  <2>1. UNCHANGED <<hostile, aligned, pending_hits, enemy_latched_until, contact_iframe_until>>
    BY <1>3, SendSteps
  <2>2. wire \subseteq wire'
    BY <1>3, SendSteps
  <2>3. \A e : (Coming(e) => Coming(e)') /\ (Safe(e) => Safe(e)')
    BY <2>1, <2>2 DEF Latched, Covered
  <2> HIDE DEF Safe, Coming
  <2> QED
    BY <1>a, <1>b, <2>1, <2>3
<1>4. ASSUME NEW p \in wire, ReceivePacket(p)
      PROVE  Labelled'
  <2>1. /\ wire' = wire \ {p} /\ UNCHANGED <<now, hostile, contact_iframe_until>>
        /\ enemy_latched_until' \in Nat /\ enemy_latched_until <= enemy_latched_until'
        /\ \/ /\ p.kind = "enemy" /\ enemy_latched_until' = now + Latch /\ UNCHANGED pending_hits
              /\ aligned' = [aligned EXCEPT ![p.contact] = now]
           \/ p.kind # "enemy" /\ UNCHANGED <<aligned, pending_hits>>
           \/ /\ p.kind = "hit" /\ UNCHANGED <<alignVars, aligned>>
              /\ pending_hits' = pending_hits \cup {Queued(p, Settle)}
    BY <1>4, ReceiveSteps
  <2>2. \A c \in Contacts : c # p.contact \/ UNCHANGED aligned => aligned'[c] = aligned[c]
    BY <1>t, <2>1
  <2>3. ASSUME NEW e \in pending_hits, e.contact \in hostile
        PROVE  Coming(e)' \/ Safe(e)'
    <3>1. CASE p.kind = "enemy" /\ p.contact = e.contact
      <4>1. aligned'[e.contact] = now /\ enemy_latched_until' = now + Latch
        BY <1>t, <2>1, <3>1
      <4>2. aligned'[e.contact] # Never /\ e.received <= aligned'[e.contact] /\ e.received <= aligned'[e.contact] + Skew
        BY <1>t, <4>1, Times DEF Never
      <4>3. Latched(e.contact)'
        BY <1>t, <4>1, Times DEF Latched
      <4> QED
        BY <4>2, <4>3
    <3>2. CASE ~(p.kind = "enemy" /\ p.contact = e.contact)
      <4>1. Coming(e) => Coming(e)'
        BY <2>1, <3>2
      <4>2. aligned'[e.contact] = aligned[e.contact]
        BY <1>t, <2>1, <2>2, <3>2
      <4>3. Covered(e.contact) => Covered(e.contact)'
        BY <2>1, <4>2 DEF Covered
      <4>4. Latched(e.contact) => Latched(e.contact)'
        <5>1. aligned[e.contact] \in Int
          BY <1>t DEF Never
        <5> QED
          BY <1>t, <2>1, <4>2, <5>1, Times DEF Latched
      <4>5. Safe(e) => Safe(e)'
        BY <4>2, <4>3, <4>4
      <4>6. Coming(e) \/ Safe(e)
        <5> HIDE DEF Safe, Coming
        <5> QED
          BY <1>a, <2>3
      <4> QED
        BY <4>1, <4>5, <4>6
    <3> QED
      BY <3>1, <3>2
  <2>4. ASSUME p.kind = "hit", p.contact \in hostile, UNCHANGED <<alignVars, aligned>>,
               NEW e, e = Queued(p, Settle)
        PROVE  Coming(e)' \/ Safe(e)'
    <3>1. e.contact = p.contact /\ e.received = now /\ e.enemy = SourceEnemyNow
      BY <2>4 DEF Queued
    <3>2. p.sent <= now /\ now <= p.sent + Skew
      BY DEF Packets
    <3>3. CASE AlignmentComing(p.contact)
      <4>1. PICK q \in wire : q.kind = "enemy" /\ q.contact = p.contact
        BY <3>3 DEF AlignmentComing
      <4>2. q # p /\ q.sent = p.sent
        BY <2>4, <4>1 DEF Packets
      <4> QED
        BY <2>1, <3>1, <3>2, <4>1, <4>2
    <3>4. CASE aligned[p.contact] # Never /\ p.sent <= aligned[p.contact] /\ (Latched(p.contact) \/ Covered(p.contact))
      <4>1. aligned[p.contact] \in Nat
        BY <1>t, <3>4
      <4>2. now <= aligned[p.contact] + Skew
        BY <1>t, <3>2, <3>4, <4>1, Times
      <4>3. Latched(p.contact) => SourceEnemyNow
        <5>1. now < aligned[p.contact] + Latch
          BY <1>t, <4>1, <4>2, Times
        <5>2. Latched(p.contact) => now < enemy_latched_until
          BY <1>t, <4>1, <5>1, Times DEF Latched
        <5> QED
          BY <5>2 DEF SourceEnemyNow
      <4>4. Covered(p.contact) => Covered(p.contact)'
        BY <2>1, <2>4 DEF Covered
      <4> QED
        <5>1. aligned'[e.contact] = aligned[p.contact]
          BY <2>4, <3>1
        <5>2. e.enemy \/ Covered(e.contact)'
          BY <3>1, <3>4, <4>3, <4>4
        <5> QED
          BY <3>1, <3>4, <4>2, <5>1, <5>2
    <3> QED
      BY <2>4, <3>3, <3>4 DEF Awaited
  <2>5. pending_hits' # pending_hits =>
           /\ p.kind = "hit" /\ UNCHANGED <<alignVars, aligned>>
           /\ pending_hits' = pending_hits \cup {Queued(p, Settle)}
    BY <2>1
  <2>6. Queued(p, Settle).contact = p.contact
    BY DEF Queued
  <2> HIDE DEF Safe, Coming
  <2> QED
    <3> SUFFICES ASSUME NEW e \in pending_hits', e.contact \in hostile'
                 PROVE  Coming(e)' \/ Safe(e)'
      BY <1>b
    <3>1. e.contact \in hostile
      BY <2>1
    <3>2. CASE e \in pending_hits
      BY <2>3, <3>1, <3>2
    <3>3. CASE e \notin pending_hits
      <4>1. p.kind = "hit" /\ UNCHANGED <<alignVars, aligned>> /\ e = Queued(p, Settle)
        BY <2>5, <3>3
      <4> QED
        BY <2>4, <2>6, <3>1, <4>1
    <3> QED
      BY <3>2, <3>3
<1>5. CASE PopHit
  <2>1. /\ UNCHANGED <<now, hostile, wire, aligned>> /\ pending_hits' \subseteq pending_hits
        /\ UNCHANGED <<enemy_latched_until, contact_iframe_until>> \/ contact_iframe_until' = now + Iframe
    BY <1>5, Judged DEF alignVars
  <2>2. \A c \in Contacts : aligned[c] \in Int
    BY <1>t DEF Never
  <2>3. \A c \in Contacts : /\ Covered(c) => Covered(c)'
                            /\ Latched(c) => Latched(c)' \/ Covered(c)'
    BY <1>t, <2>1, <2>2, Times DEF Latched, Covered
  <2>4. \A e \in pending_hits : Safe(e) => Safe(e)'
    BY <1>t, <2>1, <2>3
  <2>5. \A e : Coming(e) => Coming(e)'
    BY <2>1
  <2> HIDE DEF Safe, Coming
  <2> QED
    BY <1>a, <1>b, <2>1, <2>4, <2>5
<1> QED
  BY <1>1, <1>2, <1>3, <1>4, <1>5, StepCases

(* An alignment that has arrived stays what it was, and is withdrawn in the *)
(* present only.                                                            *)
LEMMA AlignmentStays ==
    ASSUME HitsToEndpoint, Types, HitsOnly, Packets, ~PopStatus, [Next]_vars,
           NEW c \in Contacts, aligned[c] # Never
    PROVE  aligned'[c] = aligned[c] /\ calmed'[c] \in {calmed[c], now} /\ UNCHANGED hostile
<1>1. CASE UNCHANGED <<aligned, calmed, hostile>>
  BY <1>1
<1>2. CASE \/ Advance \/ Block \/ SwitchCombat \/ SyncResolved \/ BeginPoll \/ HitsDone \/ StatusesDone
           \/ Push \/ UNCHANGED vars
  BY <1>1, <1>2, QuietSteps
<1>3. CASE AvatarChange
  BY <1>1, <1>3 DEF AvatarChange
<1>4. ASSUME NEW d \in Contacts, Leave(d) \/ \E kinds \in (SUBSET Kinds) \ {{}} : Touch(d, kinds)
      PROVE  aligned'[c] = aligned[c] /\ calmed'[c] \in {calmed[c], now} /\ UNCHANGED hostile
  BY <1>1, <1>4, SendSteps
<1>5. ASSUME NEW p \in wire, ReceivePacket(p)
      PROVE  aligned'[c] = aligned[c] /\ calmed'[c] \in {calmed[c], now} /\ UNCHANGED hostile
  <2>1. /\ UNCHANGED hostile
        /\ \/ p.kind = "enemy" /\ aligned' = [aligned EXCEPT ![p.contact] = now] /\ UNCHANGED calmed
           \/ UNCHANGED aligned /\ calmed' = [calmed EXCEPT ![p.contact] = now]
           \/ UNCHANGED <<aligned, calmed>>
    BY <1>5, ReceiveSteps
  <2>2. p.kind = "enemy" => p.contact # c
    BY DEF Packets
  <2>3. aligned \in [Contacts -> Nat \cup {Never}] /\ calmed \in [Contacts -> Nat \cup {Never}]
    BY DEF Types, Histories
  <2> QED
    BY <2>1, <2>2, <2>3
<1>6. CASE PopHit
  BY <1>1, <1>6, LoopSteps
<1> QED
  BY <1>2, <1>3, <1>4, <1>5, <1>6, StepCases

(* The label of a hit, when it is taken, has an alignment behind it. *)
LEMMA LabelHasOrigin ==
    ASSUME Types, Origin, SourceEnemyNow
    PROVE  \E c \in hostile : Shown(c, now)
<1>1. CASE damage_source_enemy
  BY <1>1 DEF Origin, Shown
<1>2. CASE now < enemy_latched_until
  <2>1. now \in Nat /\ enemy_latched_until \in Nat /\ hostile \subseteq Contacts
        /\ aligned \in [Contacts -> Nat \cup {Never}]
    BY DEF Types, TypeOK, Histories
  <2>2. PICK c \in hostile : aligned[c] # Never /\ enemy_latched_until <= aligned[c] + Latch
    BY <1>2, <2>1 DEF Origin
  <2>3. aligned[c] \in Nat
    BY <2>1, <2>2
  <2>4. now < aligned[c] + Latch
    BY <1>2, <2>1, <2>2, <2>3, Times
  <2> QED
    BY <2>2, <2>4 DEF Shown
<1> QED
  BY <1>1, <1>2 DEF SourceEnemyNow

LEMMA OriginStep ==
    ASSUME HitsToEndpoint, Types, HitsOnly, Packets, Origin, ~PopStatus, [Next]_vars
    PROVE  Origin'
<1>t. /\ now \in Nat /\ hostile \subseteq Contacts
      /\ aligned \in [Contacts -> Nat \cup {Never}] /\ calmed \in [Contacts -> Nat \cup {Never}]
      /\ \A e \in pending_hits : e.received \in Nat /\ e.received <= now
  BY NowTypes, EntryTypes DEF Types, Histories
(* What holds of an alignment holds on. *)
<1>s. \A c \in hostile : aligned[c] # Never =>
         c \in hostile' /\ aligned'[c] = aligned[c] /\ calmed'[c] \in {calmed[c], now}
  BY <1>t, AlignmentStays
<1>q. \A e \in pending_hits : \A c \in hostile : Shown(c, e.received) => c \in hostile' /\ Shown(c, e.received)'
  <2> SUFFICES ASSUME NEW e \in pending_hits, NEW c \in hostile, Shown(c, e.received)
               PROVE  c \in hostile' /\ Shown(c, e.received)'
    OBVIOUS
  <2>1. aligned[c] # Never
    BY DEF Shown
  <2> QED
    BY <1>t, <1>s, <2>1 DEF Shown
<1>e. (\A e \in pending_hits' : e \in pending_hits) =>
         \A e \in pending_hits' : e.enemy => \E c \in hostile' : Shown(c, e.received)'
  BY <1>q DEF Origin
<1>l. enemy_latched_until' \in {enemy_latched_until, 0} =>
         (enemy_latched_until' > 0 =>
            \E c \in hostile' : aligned'[c] # Never /\ enemy_latched_until' <= aligned'[c] + Latch)
  BY <1>s DEF Origin
<1>1. CASE \/ Advance \/ Block \/ SwitchCombat \/ SyncResolved \/ BeginPoll \/ HitsDone \/ StatusesDone
           \/ Push \/ UNCHANGED vars
  <2>1. UNCHANGED <<hostile, aligned, calmed, pending_hits, damage_source_enemy, enemy_latched_until>>
    BY <1>1, QuietSteps
  <2> QED
    BY <2>1 DEF Origin, Shown
<1>2. CASE AvatarChange
  <2>1. /\ UNCHANGED <<hostile, aligned, calmed, damage_source_enemy>> /\ enemy_latched_until' = 0
        /\ pending_hits' = {}
    BY <1>2 DEF AvatarChange
  <2> QED
    BY <2>1 DEF Origin
<1>3. ASSUME NEW c \in Contacts, Leave(c) \/ \E kinds \in (SUBSET Kinds) \ {{}} : Touch(c, kinds)
      PROVE  Origin'
  <2>1. UNCHANGED <<hostile, aligned, calmed, pending_hits, damage_source_enemy, enemy_latched_until>>
    BY <1>3, SendSteps
  <2> QED
    BY <2>1 DEF Origin, Shown
<1>4. ASSUME NEW p \in wire, ReceivePacket(p)
      PROVE  Origin'
  <2>1. CASE /\ p.kind = "enemy" /\ UNCHANGED <<hostile, pending_hits, calmed>>
             /\ enemy_latched_until' = now + Latch
             /\ aligned' = [aligned EXCEPT ![p.contact] = now]
    <3>1. p.contact \in hostile /\ calmed[p.contact] = Never /\ p.contact \in Contacts
      BY <1>t, <2>1 DEF Packets
    <3>2. aligned'[p.contact] = now /\ calmed'[p.contact] = Never /\ p.contact \in hostile' /\ now # Never
          /\ now + Latch <= now + Latch
      BY <1>t, <2>1, <3>1, Times DEF Never
    <3>3. \A e \in pending_hits' : e.enemy => \E c \in hostile' : Shown(c, e.received)'
      BY <1>e, <2>1
    <3> QED
      BY <2>1, <3>2, <3>3 DEF Origin
  <2>2. CASE /\ damage_source_enemy' = FALSE /\ UNCHANGED <<pending_hits, aligned, enemy_latched_until>>
    BY <1>e, <1>l, <2>2 DEF Origin
  <2>3. CASE /\ UNCHANGED <<hostile, alignVars, aligned, calmed>>
             /\ pending_hits' = pending_hits \cup {Queued(p, Settle)}
    <3>1. ASSUME NEW e \in pending_hits', e.enemy
          PROVE  \E c \in hostile' : Shown(c, e.received)'
      <4>1. CASE e \in pending_hits
        BY <1>q, <3>1, <4>1 DEF Origin
      <4>2. CASE e = Queued(p, Settle)
        <5>1. e.received = now /\ SourceEnemyNow
          BY <3>1, <4>2 DEF Queued
        <5>2. PICK c \in hostile : Shown(c, now)
          BY <5>1, LabelHasOrigin
        <5> QED
          BY <2>3, <5>1, <5>2 DEF Shown
      <4> QED
        BY <2>3, <4>1, <4>2
    <3> QED
      BY <2>3, <3>1 DEF Origin, alignVars
  <2>4. CASE UNCHANGED <<hostile, pending_hits, alignVars, aligned, calmed>>
    BY <2>4 DEF Origin, Shown, alignVars
  <2> QED
    BY <1>4, <2>1, <2>2, <2>3, <2>4, ReceiveSteps
<1>5. CASE PopHit
  <2>1. /\ UNCHANGED <<hostile, aligned, calmed>> /\ \A e \in pending_hits' : e \in pending_hits
        /\ \/ UNCHANGED <<damage_source_enemy, enemy_latched_until>>
           \/ damage_source_enemy' = FALSE /\ enemy_latched_until' = 0
    BY <1>5, Judged DEF alignVars
  <2> QED
    BY <1>e, <1>l, <2>1 DEF Origin
<1> QED
  BY <1>1, <1>2, <1>3, <1>4, <1>5, StepCases
----------------------------------------------------------------------------
(* The labels. *)

(* A report is made by PopHit alone. *)
LEMMA ReportSteps ==
    ASSUME HitsToEndpoint, Types, HitsOnly, ~PopStatus, [Next]_vars
    PROVE  contact_reports' = contact_reports \/ PopHit
<1>1. CASE \/ Advance \/ Block \/ SwitchCombat \/ SyncResolved \/ BeginPoll \/ HitsDone \/ StatusesDone
           \/ Push \/ UNCHANGED vars
  BY <1>1, QuietSteps
<1>2. CASE AvatarChange \/ \E p \in wire : ReceivePacket(p)
  BY <1>2 DEF AvatarChange, ReceivePacket
<1>3. ASSUME NEW c \in Contacts, Leave(c) \/ \E kinds \in (SUBSET Kinds) \ {{}} : Touch(c, kinds)
      PROVE  contact_reports' = contact_reports
  BY <1>3, SendSteps
<1> QED
  BY <1>1, <1>2, <1>3, StepCases

LEMMA FreshStep ==
    ASSUME HitsToEndpoint, Types, HitsOnly, Packets, Origin, EnemyLabelIsFresh, ~PopStatus, [Next]_vars
    PROVE  EnemyLabelIsFresh'
<1> DEFINE Fresh(c, received, at) ==
      /\ aligned[c] # Never /\ aligned[c] <= at
      /\ aligned[c] + Latch > received \/ calmed[c] = Never \/ calmed[c] >= received
<1>a. EnemyLabelIsFresh <=> \A r \in contact_reports : r.enemy => \E c \in hostile : Fresh(c, r.received, r.at)
  BY DEF EnemyLabelIsFresh
<1>b. EnemyLabelIsFresh' <=>
        \A r \in contact_reports' : r.enemy => \E c \in hostile' : Fresh(c, r.received, r.at)'
  BY DEF EnemyLabelIsFresh
<1>t. /\ now \in Nat /\ hostile \subseteq Contacts
      /\ aligned \in [Contacts -> Nat \cup {Never}] /\ calmed \in [Contacts -> Nat \cup {Never}]
      /\ \A c \in Contacts : aligned[c] <= now
  BY NowTypes DEF Types, Histories
<1>1. ASSUME NEW received \in Nat, NEW at, received <= now, NEW c \in hostile, Fresh(c, received, at)
      PROVE  c \in hostile' /\ Fresh(c, received, at)'
  <2>1. aligned'[c] = aligned[c] /\ calmed'[c] \in {calmed[c], now} /\ c \in hostile'
    BY <1>t, <1>1, AlignmentStays
  <2> QED
    BY <1>t, <1>1, <2>1
<1>2. \A r \in contact_reports : r.received \in Nat /\ r.received <= now
  <2>1. \A r \in contact_reports : r.received \in Nat /\ r.at \in Nat /\ r.received <= r.at /\ r.at <= now
    BY DEF Types, Histories, ReportTypes
  <2> QED
    BY <1>t, <2>1
<1>3. \A r \in contact_reports : r.enemy => \E c \in hostile' : Fresh(c, r.received, r.at)'
  <2> SUFFICES ASSUME NEW r \in contact_reports, r.enemy
               PROVE  \E c \in hostile' : Fresh(c, r.received, r.at)'
    OBVIOUS
  <2>1. PICK c \in hostile : Fresh(c, r.received, r.at)
    BY <1>a
  <2>2. c \in hostile' /\ Fresh(c, r.received, r.at)'
    <3> HIDE DEF Fresh
    <3> QED
      BY <1>1, <1>2, <2>1
  <2> QED
    BY <2>2
<1>4. ASSUME NEW e \in pending_hits, SourceEnemy(e)
      PROVE  \E c \in hostile : Fresh(c, e.received, now)
  <2>1. e.received \in Nat /\ e.received <= now
    BY EntryTypes
  <2>2. PICK c \in hostile : Shown(c, e.received) \/ Shown(c, now)
    BY <1>4, LabelHasOrigin DEF SourceEnemy, Origin
  <2>3. aligned[c] # Never /\ aligned[c] \in Nat /\ aligned[c] <= now /\ calmed[c] \in Nat \cup {Never}
    BY <1>t, <2>2 DEF Shown
  <2>4. \A time \in Nat : Shown(c, time) /\ e.received <= time => Fresh(c, e.received, now)
    BY <2>1, <2>3, Times DEF Shown, Never
  <2> QED
    BY <1>t, <2>1, <2>2, <2>4
<1>5. CASE PopHit
  <2>1. PICK e \in pending_hits : contact_reports' \in {contact_reports, contact_reports \cup {ContactReport(e, "hit")}}
    BY <1>5, Judged
  <2>2. /\ ContactReport(e, "hit").enemy = SourceEnemy(e) /\ ContactReport(e, "hit").received = e.received
        /\ ContactReport(e, "hit").at = now
    BY ReportType
  <2>3. ASSUME NEW r \in contact_reports', r.enemy
        PROVE  \E c \in hostile' : Fresh(c, r.received, r.at)'
    <3>1. CASE r \in contact_reports
      BY <1>3, <2>3, <3>1
    <3>2. CASE r = ContactReport(e, "hit")
      <4>1. r.received = e.received /\ r.at = now /\ SourceEnemy(e)
        BY <2>2, <2>3, <3>2
      <4>2. PICK c \in hostile : Fresh(c, r.received, r.at)
        <5> HIDE DEF Fresh
        <5> QED
          BY <1>4, <4>1
      <4>3. r.received \in Nat /\ r.received <= now
        BY <4>1, EntryTypes
      <4> HIDE DEF Fresh
      <4> QED
        BY <1>1, <4>2, <4>3
    <3> QED
      BY <2>1, <3>1, <3>2
  <2> HIDE DEF Fresh
  <2> QED
    BY <1>b, <2>3
<1>6. CASE contact_reports' = contact_reports
  <2> HIDE DEF Fresh
  <2> QED
    BY <1>b, <1>3, <1>6
<1> QED
  BY <1>5, <1>6, ReportSteps

(* The alignment of a hit that is judged is no longer under way, not        *)
(* consumed by a report of the last i-frame, and not out of the latch.      *)
LEMMA EnemyStep ==
    ASSUME HitsToEndpoint, Timely, Types, HitsOnly, Packets, Polling, Labelled, EnemyHitStaysEnemy,
           ~PopStatus, [Next]_vars
    PROVE  EnemyHitStaysEnemy'
<1>h. UNCHANGED hostile
  <2>1. CASE Advance \/ AvatarChange \/ \E p \in wire : ReceivePacket(p)
    BY <2>1 DEF Advance, AvatarChange, ReceivePacket
  <2>2. ASSUME NEW c \in Contacts, Leave(c) \/ \E kinds \in (SUBSET Kinds) \ {{}} : Touch(c, kinds)
        PROVE  UNCHANGED hostile
    BY <2>2, SendSteps
  <2> QED
    BY <2>1, <2>2, StepCases, LoopSteps
<1>1. CASE contact_reports' = contact_reports
  BY <1>h, <1>1 DEF EnemyHitStaysEnemy
<1>2. CASE PopHit
  <2>1. PICK e \in pending_hits :
          /\ e.due <= now
          /\ \/ contact_reports' = contact_reports
             \/ /\ now >= contact_iframe_until
                /\ contact_reports' = contact_reports \cup {ContactReport(e, "hit")}
    BY <1>2, Judged
  <2>2. CASE /\ now >= contact_iframe_until
             /\ contact_reports' = contact_reports \cup {ContactReport(e, "hit")}
    <3>1. ASSUME e.contact \in hostile
          PROVE  SourceEnemy(e)
      <4>t. /\ now \in Nat /\ e.due \in Nat /\ e.received \in Nat /\ e.contact \in Contacts
            /\ \A p \in wire : p.sent \in Nat
            /\ aligned \in [Contacts -> Nat \cup {Never}]
            /\ enemy_latched_until \in Nat /\ contact_iframe_until \in Nat
        BY NowTypes, EntryTypes, PacketTypes DEF Types, TypeOK, Histories
      <4>1. e.due = e.received + Settle /\ now < e.due + PollGap
        BY <1>2 DEF Polling, PopHit
      <4>2. e.received + Settle <= now /\ now < e.received + Settle + PollGap
        BY <2>1, <4>t, <4>1, Times
      <4>3. ~ \E q \in wire : q.kind = "enemy" /\ q.contact = e.contact /\ q.sent <= e.received
        <5> SUFFICES ASSUME NEW q \in wire, q.sent <= e.received
                     PROVE  FALSE
          OBVIOUS
        <5>1. now <= q.sent + Skew /\ q.sent \in Nat
          BY <4>t DEF Packets
        <5> QED
          BY <4>t, <4>2, <5>1, Times DEF Timely
      <4>4. /\ aligned[e.contact] # Never /\ e.received <= aligned[e.contact] + Skew
            /\ e.enemy \/ Covered(e.contact) \/ (e.received <= aligned[e.contact] /\ Latched(e.contact))
        BY <3>1, <4>3 DEF Labelled
      <4>5. aligned[e.contact] \in Nat
        BY <4>t, <4>4
      <4>6. ~Covered(e.contact)
        BY <2>2, <4>t, <4>2, <4>4, <4>5, Times DEF Covered
      <4>7. CASE e.received <= aligned[e.contact] /\ Latched(e.contact)
        <5>1. now < enemy_latched_until
          BY <4>t, <4>2, <4>5, <4>7, Times DEF Latched, Timely
        <5> QED
          BY <5>1 DEF SourceEnemy, SourceEnemyNow
      <4>8. CASE e.enemy
        BY <4>8 DEF SourceEnemy
      <4> QED
        BY <4>4, <4>6, <4>7, <4>8
    <3>2. ContactReport(e, "hit").enemy = SourceEnemy(e) /\ ContactReport(e, "hit").contact = e.contact
      BY ReportType
    <3> QED
      BY <1>h, <2>2, <3>1, <3>2 DEF EnemyHitStaysEnemy
  <2> QED
    BY <1>1, <2>1, <2>2
<1> QED
  BY <1>1, <1>2, ReportSteps

(* What the freshness of a label rests on needs nothing of the times. *)
LabelInv == Types /\ HitsOnly /\ Packets /\ Origin /\ EnemyLabelIsFresh

(* Which label a hit will get needs them too. *)
HitInv == LabelInv /\ Polling /\ Awaited /\ Labelled /\ EnemyHitStaysEnemy

LEMMA LabelInvariance ==
    ASSUME HitsToEndpoint
    PROVE  Spec => []LabelInv
<1>1. ASSUME Init, Types
      PROVE  LabelInv
  <2>1. /\ wire = {} /\ pending_hits = {} /\ pending_statuses = {} /\ contact_reports = {}
        /\ hit_event = NoContact /\ status_event = NoContact
        /\ damage_source_enemy = FALSE /\ enemy_latched_until = 0
        /\ \A c \in Contacts : aligned[c] = Never /\ calmed[c] = Never
    BY <1>1 DEF Init
  <2> QED
    BY <1>1, <2>1 DEF LabelInv, HitsOnly, Packets, Origin, EnemyLabelIsFresh
<1>2. ASSUME LabelInv, [Next]_vars, Types'
      PROVE  LabelInv'
  <2>1. HitsOnly' /\ ~PopStatus
    BY <1>2, HitsOnlyStep DEF LabelInv
  <2> QED
    BY <1>2, <2>1, PacketsStep, OriginStep, FreshStep DEF LabelInv
<1> QED
  BY <1>1, <1>2, TypesInvariance, PTL DEF Spec

LEMMA HitInvariance ==
    ASSUME HitsToEndpoint, Timely
    PROVE  Spec => []HitInv
<1>1. ASSUME Init, LabelInv
      PROVE  HitInv
  <2>1. /\ wire = {} /\ pending_hits = {} /\ contact_reports = {} /\ phase = "idle"
        /\ now = 0 /\ last_poll = 0 /\ 0 <= 0 + PollGap
    BY <1>1, Times DEF Init
  <2> QED
    BY <1>1, <2>1 DEF HitInv, Polling, Awaited, Labelled, EnemyHitStaysEnemy
<1>2. ASSUME HitInv, [Next]_vars, LabelInv'
      PROVE  HitInv'
  <2>1. ~PopStatus
    BY <1>2, HitsOnlyStep DEF HitInv, LabelInv
  <2> QED
    BY <1>2, <2>1, PollingStep, AwaitedStep, LabelledStep, EnemyStep DEF HitInv, LabelInv
<1> QED
  BY <1>1, <1>2, LabelInvariance, PTL DEF Spec

(* Where hits go to /combat/event, an Enemy hit is never reported as        *)
(* Friendly: not when the hit packet overtakes its alignment, not when the  *)
(* round before consumed the latch, not when a report of another Contact    *)
(* came between (controller.py:321-326, 526, 614, 713-717).                 *)
THEOREM EnemyHitsAreEnemy ==
    ASSUME HitsToEndpoint, Timely
    PROVE  Spec => []EnemyHitStaysEnemy
<1>1. HitInv => EnemyHitStaysEnemy
  BY DEF HitInv
<1> QED
  BY <1>1, HitInvariance, PTL

(* And a hit is never labelled Enemy by an alignment that was gone, or      *)
(* consumed, before the hit arrived (controller.py:191-201, 614-618;        *)
(* app.py:995-997).                                                         *)
THEOREM LabelsAreFresh ==
    ASSUME HitsToEndpoint
    PROVE  Spec => []EnemyLabelIsFresh
<1>1. LabelInv => EnemyLabelIsFresh
  BY DEF LabelInv
<1> QED
  BY <1>1, LabelInvariance, PTL
=============================================================================
