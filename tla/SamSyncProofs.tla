---------------------------- MODULE SamSyncProofs ----------------------------
(***************************************************************************)
(* Theorems about SamSync, for every set of links and every bound, and, at  *)
(* the end, about SamRegister, for one link.                                *)
(***************************************************************************)
EXTENDS SamRegister, TLAPS

(* What is appended to the queues keeps their types. *)
LEMMA EmitType ==
    ASSUME TypeOK, NEW source, NEW ok, NEW state, NEW seq,
           Report(source, ok, state, seq) \in Reports, Emit(source, ok, state, seq)
    PROVE  sam_events' \in Seq(Reports)
<1>1. sam_events \in Seq(Reports)
  BY DEF TypeOK
<1> QED
  BY <1>1 DEF Emit

LEMMA MarkerType ==
    ASSUME TypeOK
    PROVE  /\ [kind |-> "sync_latest", link |-> None] \in Commands
           /\ Append(commands, [kind |-> "sync_latest", link |-> None]) \in Seq(Commands)
           /\ Requeued \in Seq(Commands)
           /\ Requeued # <<>> => Head(Requeued) \in Commands /\ Tail(Requeued) \in Seq(Commands)
<1>1. [kind |-> "sync_latest", link |-> None] \in Commands /\ commands \in Seq(Commands)
  BY DEF Commands, TypeOK
<1>2. Append(commands, [kind |-> "sync_latest", link |-> None]) \in Seq(Commands)
  BY <1>1
<1>3. Requeued \in Seq(Commands)
  BY <1>1, <1>2 DEF Requeued
<1> HIDE DEF Requeued
<1> QED
  BY <1>1, <1>2, <1>3

LEMMA PostType ==
    ASSUME TypeOK, NEW kind \in {"sync", "pull", "pair", "unlink", "recovery"}, NEW l \in Links,
           NEW payload \in Payloads \cup {None}, kind = "sync" => payload # None, Post(kind, l, payload)
    PROVE  request' \in Requests
BY DEF Post, Requests, Unknown

LEMMA EventType ==
    ASSUME TypeOK, sam_events # <<>>
    PROVE  Head(sam_events) \in Reports /\ Tail(sam_events) \in Seq(Reports)
<1>1. sam_events \in Seq(Reports)
  BY DEF TypeOK
<1> QED
  BY <1>1

(* The handlers of the events. *)
LEMMA HandleType ==
    ASSUME TypeOK, HandleSamEvent
    PROVE  TypeOK'
<1> DEFINE event == Head(sam_events)
<1>1. event \in Reports /\ sam_events' \in Seq(Reports)
  BY EventType DEF HandleSamEvent
<1>2. HandleSynced(event) \/ HandlePolled(event) \/ HandlePulled(event) \/ HandlePaired(event)
      \/ HandleUnlinked(event)
  BY DEF HandleSamEvent
<1>3. UNCHANGED <<sync_due, client_seq, latest, marker, loopVars, server, envVars, seen>>
  BY DEF HandleSamEvent
<1> HIDE DEF event
<1>4. /\ event.state # None => event.state \in States
      /\ event.state # None <=> ~(event.source = "unlink" \/ ~event.ok)
      /\ event.ok \in BOOLEAN /\ (event.ok \/ event.source = "sync")
  BY <1>1 DEF Reports
<1>a. ASSUME event.state \in States, ApplySamState(event.state)
      PROVE  local' \in Nat /\ fresh' \in BOOLEAN
  BY <1>a DEF ApplySamState, States, TypeOK
<1>5. CASE HandleSynced(event)
  <2>1. local' \in Nat /\ fresh' \in BOOLEAN /\ pending_remote' \in States \cup {None}
        /\ sam_local_dirty' \in BOOLEAN /\ sam_sync_inflight' = FALSE
        /\ UNCHANGED <<link, last_revision, failing, cooling>>
    BY <1>4, <1>5, <1>a DEF HandleSynced, StillInflight, TypeOK
  <2> QED
    BY <1>1, <1>3, <2>1 DEF TypeOK, loopVars, envVars
<1>6. CASE HandlePolled(event) \/ HandlePulled(event)
  <2>1. event.state \in States
    BY <1>4, <1>6 DEF HandlePolled, HandlePulled, TypeOK
  <2>2. local' \in Nat /\ fresh' \in BOOLEAN /\ pending_remote' \in States \cup {None}
        /\ UNCHANGED <<link, last_revision, failing, cooling, sam_local_dirty, sam_sync_inflight>>
    BY <1>6, <1>a, <2>1 DEF HandlePolled, HandlePulled, TypeOK
  <2> QED
    BY <1>1, <1>3, <2>2 DEF TypeOK, loopVars, envVars
<1>7. CASE HandlePaired(event)
  <2>1. event.state \in States
    BY <1>4, <1>7 DEF HandlePaired
  <2>2. link' \in Links /\ local' \in Nat /\ fresh' \in BOOLEAN /\ pending_remote' \in States \cup {None}
    BY <1>7, <2>1 DEF HandlePaired, States, TypeOK
  <2>3. last_revision' \in Nat \cup {Unknown} /\ failing' \in BOOLEAN /\ cooling' \in BOOLEAN
    BY <1>7 DEF HandlePaired, TypeOK
  <2> QED
    BY <1>1, <1>3, <1>7, <2>2, <2>3 DEF HandlePaired, TypeOK, loopVars, envVars
<1>8. CASE HandleUnlinked(event)
  <2>1. link' = None /\ last_revision' \in Nat \cup {Unknown} /\ failing' \in BOOLEAN /\ cooling' \in BOOLEAN
        /\ fresh' \in BOOLEAN
    BY <1>8 DEF HandleUnlinked, ResetCursor, TypeOK
  <2> QED
    BY <1>1, <1>3, <1>8, <2>1 DEF HandleUnlinked, TypeOK, loopVars, envVars
<1> QED
  BY <1>2, <1>5, <1>6, <1>7, <1>8

LEMMA ReceiveType ==
    ASSUME TypeOK, Receive
    PROVE  TypeOK'
<1>1. /\ request \in Requests /\ request.reply \in Replies /\ request.reply.state \in States
      /\ request.reply.state.revision \in Nat /\ request.reply.state # None
      /\ request.kind = "sync" => request.payload.seq \in Nat
  BY SyncAssumption DEF Receive, TypeOK, Requests, Replies, States, Payloads
<1>r. \A source \in {"sync", "poll", "pull", "pair", "recovery"}, seq \in Nat :
         Report(source, TRUE, request.reply.state, seq) \in Reports
  BY <1>1 DEF Report, Reports
<1>u. Report("unlink", TRUE, None, 0) \in Reports
  BY DEF Report, Reports
<1>2. UNCHANGED <<appVars, latest, marker, commands, turn, server, envVars, fresh>>
  BY DEF Receive
<1>3. sam_events' \in Seq(Reports)
  <2>0. sam_events \in Seq(Reports)
    BY DEF TypeOK
  <2>1. CASE ReceiveSync
    BY <1>1, <1>r, <2>1, EmitType DEF ReceiveSync
  <2>2. CASE ReceivePull
    BY <1>r, <2>2, EmitType DEF ReceivePull
  <2>3. CASE ReceiveUnlink
    BY <1>u, <2>3, EmitType DEF ReceiveUnlink
  <2>4. CASE ReceivePoll
    BY <1>r, <2>0, <2>4, EmitType DEF ReceivePoll
  <2>5. CASE ReceiveFull
    BY <1>r, <2>5, EmitType DEF ReceiveFull
  <2> QED
    BY <2>1, <2>2, <2>3, <2>4, <2>5 DEF Receive
<1>4. /\ request' \in Requests \cup {None} /\ last_revision' \in Nat \cup {Unknown}
      /\ seen' \in States \cup {None} /\ cooling' \in BOOLEAN /\ failing' \in BOOLEAN
  <2>1. CASE ReceiveSync \/ ReceivePull \/ ReceiveUnlink
    BY <1>1, <2>1 DEF ReceiveSync, ReceivePull, ReceiveUnlink, Remember, TypeOK
  <2>2. CASE ReceivePoll
    <3>1. link # None => [request EXCEPT !.kind = "full", !.link = link, !.after = Unknown, !.reply = None] \in Requests
      BY <1>1 DEF TypeOK, Requests
    <3>2. request' \in Requests \cup {None} /\ last_revision' \in Nat \cup {Unknown}
          /\ seen' \in States \cup {None}
      BY <1>1, <2>2, <3>1 DEF ReceivePoll, Remember, TypeOK
    <3>3. cooling' = cooling /\ failing' \in BOOLEAN
      BY <2>2 DEF ReceivePoll
    <3> QED
      BY <3>2, <3>3 DEF TypeOK
  <2>3. CASE ReceiveFull
    BY <1>1, <2>3 DEF ReceiveFull, Remember, TypeOK
  <2> QED
    BY <2>1, <2>2, <2>3 DEF Receive
<1> QED
  BY <1>2, <1>3, <1>4 DEF TypeOK, appVars, envVars
LEMMA FailType ==
    ASSUME TypeOK, Fail
    PROVE  TypeOK'
<1>1. /\ request \in Requests /\ request' = None /\ failures' = failures + 1
      /\ request.kind = "sync" => request.payload \in Payloads /\ request.payload.seq \in Nat
  BY DEF Fail, TypeOK, Requests, Payloads
<1>2. UNCHANGED <<appVars, commands, turn, server, writes, edits, remotes, restarts, asked, ghostVars>>
  BY DEF Fail
<1>3. /\ latest' \in Payloads \cup {None} /\ last_revision' \in Nat \cup {Unknown}
      /\ marker' \in BOOLEAN /\ cooling' \in BOOLEAN /\ failing' \in BOOLEAN
      /\ sam_events' \in Seq(Reports)
  <2>1. CASE FailSync
    <3>1. Report("sync", FALSE, None, request.payload.seq) \in Reports
      BY <1>1, <2>1 DEF FailSync, Report, Reports
    <3>2. sam_events' \in Seq(Reports)
      BY <2>1, <3>1, EmitType DEF FailSync
    <3> QED
      BY <1>1, <2>1, <3>2 DEF FailSync, Restored, TypeOK
  <2>2. CASE FailPoll \/ FailOther
    BY <2>2 DEF FailPoll, FailOther, TypeOK
  <2>3. CASE FailUnlink
    <3>1. Report("unlink", TRUE, None, 0) \in Reports
      BY DEF Report, Reports
    <3>2. sam_events' \in Seq(Reports)
      BY <2>3, <3>1, EmitType DEF FailUnlink
    <3> QED
      BY <2>3, <3>2 DEF FailUnlink, TypeOK
  <2> QED
    BY <2>1, <2>2, <2>3 DEF Fail
<1> QED
  <2>1. failures' \in Nat
    <3>1. failures \in Nat
      BY DEF TypeOK
    <3> QED
      BY <1>1, <3>1
  <2>2. request' \in Requests \cup {None}
    BY <1>1
  <2> QED
    BY <1>2, <1>3, <2>1, <2>2 DEF TypeOK, appVars, ghostVars

LEMMA TakeType ==
    ASSUME TypeOK, TakeSync \/ TakeCommand
    PROVE  TypeOK'
<1>1. commands' \in Seq(Commands) /\ turn' = "poll"
  BY MarkerType DEF TakeSync, TakeCommand
<1>2. CASE TakeSync
  <2>1. marker' = FALSE
    BY <1>2 DEF TakeSync, SpentMarker
  <2>2. UNCHANGED <<appVars, last_revision, failing, server, envVars, ghostVars>>
    BY <1>2 DEF TakeSync
  <2>3. /\ latest' \in Payloads \cup {None} /\ cooling' \in BOOLEAN /\ request' \in Requests \cup {None}
        /\ sam_events' \in Seq(Reports)
    <3>1. CASE UNCHANGED <<latest, cooling, request, sam_events>>
      BY <3>1 DEF TypeOK
    <3>2. CASE /\ latest # None /\ cooling' = TRUE
               /\ Emit("sync", FALSE, None, latest.seq)
               /\ UNCHANGED <<latest, request>>
      <4>1. Report("sync", FALSE, None, latest.seq) \in Reports
        BY <3>2 DEF Report, Reports, TypeOK, Payloads
      <4>2. sam_events' \in Seq(Reports)
        BY <3>2, <4>1, EmitType
      <4> QED
        BY <3>2, <4>2 DEF TypeOK
    <3>3. CASE /\ latest # None /\ Paired /\ latest' = None
               /\ Post("sync", link, latest)
               /\ UNCHANGED <<cooling, sam_events>>
      <4>1. link \in Links /\ latest \in Payloads /\ latest # None
        BY <3>3 DEF Paired, TypeOK
      <4>2. request' \in Requests
        BY <3>3, <4>1, PostType
      <4> QED
        BY <3>3, <4>2 DEF TypeOK
    <3> QED
      BY <1>2, <3>1, <3>2, <3>3 DEF TakeSync
  <2> QED
    BY <1>1, <2>1, <2>2, <2>3 DEF TypeOK, appVars, envVars, ghostVars
<1>3. CASE TakeCommand
  <2> DEFINE command == Head(Requeued)
  <2>1. command \in Commands /\ command.kind # "sync_latest"
        /\ (SendCommand(command) \/ RefuseCommand(command.kind))
    BY <1>3, MarkerType DEF TakeCommand
  <2>2. UNCHANGED <<appVars, latest, cooling, failing, server, envVars, ghostVars>>
        /\ marker' = (marker \/ RetryDue)
    BY <1>3 DEF TakeCommand
  <2> HIDE DEF command
  <2>3. /\ request' \in Requests \cup {None} /\ last_revision' \in Nat \cup {Unknown}
        /\ sam_events' \in Seq(Reports)
    <3>1. CASE SendCommand(command)
      <4>1. \/ command.kind = "pair" /\ command.link \in Links /\ Post("pair", command.link, None)
            \/ command.kind \in {"pull", "unlink", "recovery"} /\ link \in Links /\ Post(command.kind, link, None)
        BY <2>1, <3>1 DEF SendCommand, Commands, Paired, TypeOK
      <4>2. request' \in Requests
        BY <4>1, PostType
      <4> QED
        BY <3>1, <4>2 DEF SendCommand, TypeOK
    <3>2. CASE RefuseCommand(command.kind)
      <4>1. Report("unlink", TRUE, None, 0) \in Reports
        BY DEF Report, Reports
      <4>2. sam_events' \in Seq(Reports)
        BY <3>2, <4>1, EmitType DEF RefuseCommand, TypeOK
      <4> QED
        BY <3>2, <4>2 DEF RefuseCommand, TypeOK
    <3> QED
      BY <2>1, <3>1, <3>2
  <2>4. marker' \in BOOLEAN
    BY <2>2 DEF RetryDue, TypeOK
  <2> QED
    BY <1>1, <2>2, <2>3, <2>4 DEF TypeOK, appVars, envVars, ghostVars
<1> QED
  BY <1>2, <1>3

LEMMA WriteType ==
    ASSUME TypeOK, NEW l \in Links, NEW value \in Nat, Write(l, value)
    PROVE  server' \in [Links -> [epoch : Nat, revision : Nat, value : Nat]]
<1> DEFINE new == [epoch |-> server[l].epoch,
                   revision |-> IF value = server[l].value THEN server[l].revision ELSE server[l].revision + 1,
                   value |-> value]
<1>1. server \in [Links -> [epoch : Nat, revision : Nat, value : Nat]]
      /\ server[l] \in [epoch : Nat, revision : Nat, value : Nat]
  BY DEF TypeOK
<1>2. new \in [epoch : Nat, revision : Nat, value : Nat]
  BY <1>1
<1>3. server' = [server EXCEPT ![l] = new]
  BY DEF Write
<1> HIDE DEF new
<1> QED
  BY <1>1, <1>2, <1>3

LEMMA ServeType ==
    ASSUME TypeOK, Serve
    PROVE  TypeOK' /\ request' # None /\ request'.kind = request.kind
<1>1. /\ request \in Requests /\ request.link \in Links
      /\ request.kind = "sync" => request.payload.value \in Nat
      /\ server[request.link] \in [epoch : Nat, revision : Nat, value : Nat]
  BY DEF Serve, TypeOK, Requests, Payloads
<1>2. UNCHANGED <<appVars, clientVars, commands, turn, sam_events, edits, remotes, failures,
                  restarts, asked, seen>>
  BY DEF Serve
<1>3. ASSUME NEW reply \in Replies, request' = [request EXCEPT !.reply = reply]
      PROVE  request' \in Requests
  <2>1. /\ request'.kind = request.kind /\ request'.link = request.link /\ request'.after = request.after
        /\ request'.payload = request.payload /\ request'.reply = reply
        /\ request' = [kind |-> request.kind, link |-> request.link, after |-> request.after,
                       payload |-> request.payload, reply |-> reply]
    BY <1>1, <1>3 DEF Requests
  <2> QED
    BY <1>1, <2>1 DEF Requests
<1>w. ASSUME NEW value \in Nat, ServeWrite(value)
      PROVE  server' \in [Links -> [epoch : Nat, revision : Nat, value : Nat]] /\ request' \in Requests
  <2> DEFINE l == request.link
             state == [link |-> l, epoch |-> server[l].epoch, revision |-> server'[l].revision, value |-> value]
  <2>1. Write(l, value)
    BY <1>w DEF ServeWrite
  <2>2. server' \in [Links -> [epoch : Nat, revision : Nat, value : Nat]]
    BY <1>1, <2>1, WriteType
  <2>3. state \in States
    <3>1. server[l].epoch \in Nat /\ server'[l].revision \in Nat /\ l \in Links
      BY <1>1, <2>2
    <3> QED
      BY <3>1 DEF States
  <2>4. [changed |-> TRUE, state |-> state] \in Replies
    BY <2>3 DEF Replies
  <2>5. request' = [request EXCEPT !.reply = [changed |-> TRUE, state |-> state]]
    BY <1>w DEF ServeWrite
  <2> HIDE DEF state
  <2> QED
    BY <1>3, <2>2, <2>4, <2>5
<1>4. /\ server' \in [Links -> [epoch : Nat, revision : Nat, value : Nat]] /\ request' \in Requests
      /\ writes' \in Nat /\ fresh' \in BOOLEAN
  <2>1. CASE ServeSync
    <3>1. request.payload.value \in Nat /\ server[request.link].value \in Nat
      BY <1>1, <2>1 DEF ServeSync
    <3>2. /\ server' \in [Links -> [epoch : Nat, revision : Nat, value : Nat]] /\ request' \in Requests
      BY <1>w, <2>1, <3>1 DEF ServeSync
    <3>3. writes' = writes /\ fresh' \in BOOLEAN
      BY <2>1 DEF ServeSync
    <3> QED
      BY <3>2, <3>3 DEF TypeOK
  <2>2. CASE ServeRecovery
    <3>1. writes + 1 \in Nat /\ fresh \in BOOLEAN
      BY DEF TypeOK
    <3>2. ServeWrite(writes + 1) /\ writes' = writes + 1 /\ fresh' = fresh
      BY <2>2 DEF ServeRecovery
    <3> QED
      BY <1>w, <3>1, <3>2
  <2>3. CASE ServeState
    <3>1. State(request.link) \in States
      <4>1. /\ server[request.link].epoch \in Nat /\ server[request.link].revision \in Nat
            /\ server[request.link].value \in Nat
        BY <1>1
      <4> QED
        BY <1>1, <4>1 DEF State, States
    <3>2. [changed |-> server[request.link].revision > request.after, state |-> State(request.link)] \in Replies
      BY <3>1 DEF Replies
    <3> QED
      BY <1>3, <2>3, <3>2 DEF ServeState, TypeOK
  <2> QED
    BY <2>1, <2>2, <2>3 DEF Serve
<1>5. request'.kind = request.kind
  BY <1>1 DEF Serve, ServeSync, ServeRecovery, ServeState, ServeWrite, Requests
<1> QED
  BY <1>2, <1>4, <1>5, SyncAssumption DEF TypeOK, appVars, clientVars

LEMMA TypeStep ==
    ASSUME TypeOK, [Next]_vars
    PROVE  TypeOK'
<1>1. CASE LocalEdit
  <2>0. writes + 1 \in Nat /\ edits + 1 \in Nat
    BY DEF TypeOK
  <2>1. /\ {writes', edits', remotes', failures', restarts', asked'} \subseteq Nat /\ local' \in Nat
    BY <1>1, <2>0 DEF LocalEdit, TypeOK
  <2>3. {sam_local_dirty', sync_due', fresh'} \subseteq BOOLEAN
    BY <1>1 DEF LocalEdit, TypeOK
  <2>2. UNCHANGED <<link, sam_sync_inflight, pending_remote, client_seq, clientVars, loopVars, sam_events,
                    server, seen>>
    BY <1>1 DEF LocalEdit
  <2> QED
    BY <2>1, <2>2, <2>3 DEF TypeOK, clientVars, loopVars
<1>2. CASE PushSamState
  <2> DEFINE payload == [seq |-> client_seq + 1, value |-> local, link |-> link]
  <2>1. payload \in Payloads
    BY DEF Payloads, TypeOK
  <2>2. latest' \in Payloads /\ marker' \in BOOLEAN /\ commands' \in Seq(Commands)
    BY <1>2, <2>1, MarkerType DEF PushSamState, QueueSync, TypeOK
  <2> HIDE DEF payload
  <2>3. /\ sync_due' = FALSE /\ sam_sync_inflight' = TRUE /\ client_seq' \in Nat
        /\ UNCHANGED <<local, link, sam_local_dirty, pending_remote, cooling, last_revision, failing,
                       turn, request, sam_events, server, envVars, ghostVars>>
    BY <1>2 DEF PushSamState, TypeOK
  <2> QED
    BY <2>2, <2>3 DEF TypeOK, envVars, ghostVars
<1>3. CASE HandleSamEvent
  BY <1>3, HandleType
<1>4. ASSUME NEW l \in Links, SwitchLink(l)
      PROVE  TypeOK'
  <2>1. /\ link' \in Links /\ last_revision' \in Nat \cup {Unknown}
        /\ {failing', cooling', fresh'} \subseteq BOOLEAN /\ asked' \in Nat
    <3>1. asked + 1 \in Nat
      BY DEF TypeOK
    <3>2. link' = l /\ last_revision' \in {last_revision, Unknown} /\ asked' = asked + 1
      BY <1>4 DEF SwitchLink, ResetCursor
    <3>3. failing' \in {failing, FALSE} /\ cooling' \in {cooling, FALSE} /\ fresh' = (fresh /\ l = link)
      BY <1>4 DEF SwitchLink, ResetCursor
    <3>4. {failing', cooling', fresh'} \subseteq BOOLEAN
      BY <3>3 DEF TypeOK
    <3> QED
      BY <3>1, <3>2, <3>4 DEF TypeOK
  <2>2. UNCHANGED <<local, sam_local_dirty, sam_sync_inflight, sync_due, pending_remote, client_seq,
                    latest, marker, loopVars, sam_events, server, writes, edits, remotes, failures,
                    restarts, seen>>
    BY <1>4 DEF SwitchLink
  <2> QED
    BY <2>1, <2>2 DEF TypeOK, loopVars
<1>5. ASSUME NEW kind \in {"pair", "pull", "unlink", "recovery"}, NEW l \in Links \cup {None},
             kind = "pair" <=> l # None, Ask(kind, l)
      PROVE  TypeOK'
  <2>1. [kind |-> kind, link |-> l] \in Commands
    BY <1>5 DEF Commands
  <2>2. commands' \in Seq(Commands)
    BY <1>5, <2>1 DEF Ask, TypeOK
  <2> QED
    <3>1. asked' \in Nat
      <4>1. asked \in Nat
        BY DEF TypeOK
      <4>2. asked' = asked + 1
        BY <1>5 DEF Ask
      <4> QED
        BY <4>1, <4>2
    <3>2. UNCHANGED <<appVars, clientVars, turn, request, sam_events, server, writes, edits, remotes,
                      failures, restarts, ghostVars>>
      BY <1>5 DEF Ask
    <3> QED
      BY <2>2, <3>1, <3>2 DEF TypeOK, appVars, clientVars, ghostVars
<1>6. CASE NoCommand \/ SkipPoll
  BY <1>6 DEF NoCommand, SkipPoll, TypeOK, appVars, clientVars, envVars, ghostVars
<1>7. CASE TakeSync \/ TakeCommand
  BY <1>7, TakeType
<1>8. CASE Poll
  <2>1. request' \in Requests
    BY <1>8 DEF Poll, Paired, PollAfter, Requests, TypeOK
  <2> QED
    BY <1>8, <2>1 DEF Poll, TypeOK, appVars, clientVars, envVars, ghostVars
<1>9. CASE Receive
  BY <1>9, ReceiveType
<1>10. CASE Fail
  BY <1>10, FailType
<1>11. CASE CoolDown
  BY <1>11 DEF CoolDown, TypeOK, appVars, loopVars, envVars, ghostVars
<1>12. CASE Serve
  BY <1>12, ServeType
<1>13. ASSUME NEW l \in Links, RemoteChange(l) \/ Restart(l)
       PROVE  TypeOK'
  <2>1. server' \in [Links -> [epoch : Nat, revision : Nat, value : Nat]] /\ writes' \in Nat
    <3>1. CASE RemoteChange(l)
      <4>1. writes + 1 \in Nat
        BY DEF TypeOK
      <4> QED
        BY <3>1, <4>1, WriteType DEF RemoteChange
    <3>2. CASE Restart(l)
      <4> DEFINE new == [epoch |-> server[l].epoch + 1, revision |-> 1, value |-> server[l].value]
      <4>1. server[l] \in [epoch : Nat, revision : Nat, value : Nat]
        BY DEF TypeOK
      <4>2. new \in [epoch : Nat, revision : Nat, value : Nat]
        BY <4>1
      <4>3. server' = [server EXCEPT ![l] = new]
        BY <3>2 DEF Restart
      <4> HIDE DEF new
      <4> QED
        BY <3>2, <4>2, <4>3 DEF Restart, TypeOK
    <3> QED
      BY <1>13, <3>1, <3>2
  <2>2. remotes' \in Nat /\ restarts' \in Nat
    <3>1. remotes' \in {remotes, remotes + 1} /\ restarts' \in {restarts, restarts + 1}
      BY <1>13 DEF RemoteChange, Restart
    <3> QED
      BY <3>1 DEF TypeOK
  <2>3. UNCHANGED <<appVars, clientVars, loopVars, sam_events, edits, failures, asked, ghostVars>>
    BY <1>13 DEF RemoteChange, Restart
  <2> QED
    BY <2>1, <2>2, <2>3 DEF TypeOK, appVars, clientVars, loopVars, ghostVars
<1>14. CASE UNCHANGED vars
  BY <1>14 DEF vars, appVars, clientVars, loopVars, envVars, ghostVars, TypeOK
<1>15. CASE App
  BY <1>1, <1>2, <1>3, <1>4, <1>5, <1>15, SyncAssumption DEF App
<1> QED
  BY <1>6, <1>7, <1>8, <1>9, <1>10, <1>11, <1>12, <1>13, <1>14, <1>15 DEF Next, Worker, Sam

LEMMA InitType == Init => TypeOK
<1> SUFFICES ASSUME Init PROVE TypeOK
  OBVIOUS
<1>1. commands \in Seq(Commands) /\ sam_events \in Seq(Reports)
  BY DEF Init
<1>2. server \in [Links -> [epoch : Nat, revision : Nat, value : Nat]]
  BY DEF Init
<1>3. {sam_local_dirty, sam_sync_inflight, sync_due, marker, cooling, failing, fresh} \subseteq BOOLEAN
  BY DEF Init
<1>4. {writes, edits, remotes, failures, restarts, asked} \subseteq Nat
  BY DEF Init
<1>5. local \in Nat /\ link \in Links \cup {None} /\ client_seq \in Nat /\ turn \in {"command", "poll"}
  BY DEF Init
<1>6. pending_remote = None /\ latest = None /\ request = None /\ seen = None /\ last_revision = Unknown
  BY DEF Init
<1> QED
  BY <1>1, <1>2, <1>3, <1>4, <1>5, <1>6, Zenon DEF TypeOK

(* Every variable keeps its type: what one party puts into a queue, a       *)
(* request or a reply, the other can read.                                  *)
THEOREM TypeCorrect == Spec => []TypeOK
<1>1. TypeOK /\ [Next]_vars => TypeOK'
  BY TypeStep
<1> QED
  BY InitType, <1>1, PTL DEF Spec
----------------------------------------------------------------------------
(* A set marker flag has its marker in the queue, so that neither sync()    *)
(* nor the retry waits for the other (sam_client.py 106-174, 393-406).      *)
THEOREM MarkerNeverLost == Spec => []MarkerHasCommand
<1>1. Init => MarkerHasCommand
  BY DEF Init, MarkerHasCommand
<1>2. TypeOK /\ MarkerHasCommand /\ [Next]_vars => MarkerHasCommand'
  <2> SUFFICES ASSUME TypeOK, MarkerHasCommand, [Next]_vars, marker'
               PROVE  \E i \in DOMAIN commands' : commands'[i].kind = "sync_latest"
    BY DEF MarkerHasCommand
  <2>q. commands \in Seq(Commands)
    BY DEF TypeOK
  <2>k. ASSUME UNCHANGED <<marker, commands>>
        PROVE  \E i \in DOMAIN commands' : commands'[i].kind = "sync_latest"
    BY <2>k DEF MarkerHasCommand
  <2>a. ASSUME NEW q \in Seq(Commands), NEW c \in Commands,
               (\E i \in DOMAIN q : q[i].kind = "sync_latest") \/ c.kind = "sync_latest"
        PROVE  \E i \in DOMAIN Append(q, c) : Append(q, c)[i].kind = "sync_latest"
    <3>1. CASE c.kind = "sync_latest"
      <4>1. Len(q) + 1 \in DOMAIN Append(q, c) /\ Append(q, c)[Len(q) + 1] = c
        OBVIOUS
      <4> QED
        BY <3>1, <4>1
    <3>2. CASE \E i \in DOMAIN q : q[i].kind = "sync_latest"
      <4>1. PICK i \in DOMAIN q : q[i].kind = "sync_latest"
        BY <3>2
      <4>2. i \in DOMAIN Append(q, c) /\ Append(q, c)[i] = q[i]
        OBVIOUS
      <4> QED
        BY <4>1, <4>2
    <3> QED
      BY <2>a, <3>1, <3>2
  <2>m. [kind |-> "sync_latest", link |-> None] \in Commands
    BY MarkerType
  <2>1. CASE PushSamState
    <3>1. CASE marker \/ cooling
      BY <2>1, <2>k, <3>1 DEF PushSamState, QueueSync
    <3>2. CASE ~(marker \/ cooling)
      <4>1. commands' = Append(commands, [kind |-> "sync_latest", link |-> None])
        BY <2>1, <3>2 DEF PushSamState, QueueSync
      <4> QED
        BY <2>a, <2>m, <2>q, <4>1
    <3> QED
      BY <3>1, <3>2
  <2>2. ASSUME NEW kind \in {"pair", "pull", "unlink", "recovery"}, NEW l \in Links \cup {None},
               kind = "pair" <=> l # None, Ask(kind, l)
        PROVE  \E i \in DOMAIN commands' : commands'[i].kind = "sync_latest"
    <3>1. [kind |-> kind, link |-> l] \in Commands
      BY <2>2 DEF Commands
    <3>2. marker /\ commands' = Append(commands, [kind |-> kind, link |-> l])
      BY <2>2 DEF Ask, clientVars
    <3> QED
      BY <2>a, <2>q, <3>1, <3>2 DEF MarkerHasCommand
  <2>3. CASE TakeSync \/ Fail
    <3>1. CASE TakeSync
      BY <3>1 DEF TakeSync, SpentMarker
    <3>2. CASE Fail
      <4>1. ~FailSync
        BY DEF FailSync
      <4> QED
        BY <2>k, <3>2, <4>1 DEF Fail, FailPoll, FailOther, FailUnlink
    <3> QED
      BY <2>3, <3>1, <3>2
  <2>4. CASE TakeCommand
    <3>1. \E i \in DOMAIN Requeued : Requeued[i].kind = "sync_latest"
      <4>1. CASE RetryDue
        BY <2>a, <2>m, <2>q, <4>1 DEF Requeued
      <4>2. CASE ~RetryDue
        <5>1. marker /\ Requeued = commands
          BY <2>4, <4>2 DEF TakeCommand, Requeued
        <5> QED
          BY <5>1 DEF MarkerHasCommand
      <4> QED
        BY <4>1, <4>2
    <3>2. Requeued \in Seq(Commands) /\ Requeued # <<>> /\ Head(Requeued).kind # "sync_latest"
          /\ commands' = Tail(Requeued)
      BY <2>4, MarkerType DEF TakeCommand
    <3>3. PICK i \in DOMAIN Requeued : Requeued[i].kind = "sync_latest"
      BY <3>1
    <3> HIDE DEF Requeued
    <3>4. i # 1 /\ i - 1 \in DOMAIN Tail(Requeued) /\ Tail(Requeued)[i - 1] = Requeued[i]
      BY <3>2, <3>3
    <3> QED
      BY <3>2, <3>3, <3>4
  <2>5. CASE App
    BY <2>1, <2>2, <2>k, <2>5, SyncAssumption
       DEF App, LocalEdit, HandleSamEvent, SwitchLink, clientVars, loopVars
  <2>6. CASE Worker
    BY <2>3, <2>4, <2>k, <2>6 DEF Worker, NoCommand, SkipPoll, Poll, Receive, CoolDown, clientVars, loopVars
  <2>7. CASE Sam \/ UNCHANGED vars
    BY <2>7, <2>k DEF Sam, Serve, RemoteChange, Restart, vars, clientVars, loopVars
  <2> QED
    BY <2>5, <2>6, <2>7 DEF Next
<1> QED
  BY <1>1, <1>2, TypeCorrect, PTL DEF Spec
----------------------------------------------------------------------------
SyncRequested == request # None /\ request.kind = "sync"
Held == latest # None \/ SyncRequested

HasSync(q) == \E i \in DOMAIN q : q[i].source = "sync"
LastFails(q) == \E i \in DOMAIN q : /\ q[i].source = "sync" /\ ~q[i].ok
                                   /\ \A j \in DOMAIN q : j > i => q[j].source # "sync"

(* When the last report on a sync is a failure, its payload or a newer one  *)
(* is still with the client.                                                *)
FailedIsHeld == LastFails(sam_events) => Held

LEMMA AppendReport ==
    ASSUME NEW q \in Seq(Reports), NEW e \in Reports
    PROVE  /\ HasSync(q) \/ e.source = "sync" => HasSync(Append(q, e))
           /\ e.source # "sync" => (LastFails(Append(q, e)) => LastFails(q))
           /\ e.source = "sync" /\ e.ok => ~LastFails(Append(q, e))
<1> DEFINE r == Append(q, e)
<1>1. /\ r \in Seq(Reports) /\ Len(r) = Len(q) + 1 /\ r[Len(q) + 1] = e
      /\ \A i \in DOMAIN q : i \in DOMAIN r /\ r[i] = q[i]
      /\ DOMAIN q = 1..Len(q) /\ DOMAIN r = 1..(Len(q) + 1) /\ Len(q) \in Nat
  OBVIOUS
<1> HIDE DEF r
<1>2. HasSync(q) \/ e.source = "sync" => HasSync(r)
  BY <1>1 DEF HasSync
<1>3. ASSUME e.source # "sync", LastFails(r)
      PROVE  LastFails(q)
  BY <1>1, <1>3 DEF LastFails
<1>4. ASSUME e.source = "sync", e.ok
      PROVE  ~LastFails(r)
  BY <1>1, <1>4 DEF LastFails
<1> QED
  BY <1>2, <1>3, <1>4 DEF r

LEMMA TailReport ==
    ASSUME NEW q \in Seq(Reports), q # <<>>
    PROVE  /\ HasSync(q) => Head(q).source = "sync" \/ HasSync(Tail(q))
           /\ LastFails(Tail(q)) => LastFails(q)
           /\ Head(q).source = "sync" /\ ~Head(q).ok => HasSync(Tail(q)) \/ LastFails(q)
<1> DEFINE t == Tail(q)
<1>1. /\ t \in Seq(Reports) /\ Len(q) \in Nat /\ DOMAIN q = 1..Len(q) /\ Len(q) > 0
      /\ DOMAIN t = 1..(Len(q) - 1) /\ Head(q) = q[1]
      /\ \A i \in DOMAIN t : t[i] = q[i + 1]
  OBVIOUS
<1> HIDE DEF t
<1>2. ASSUME NEW i \in DOMAIN q, i # 1
      PROVE  i - 1 \in DOMAIN t /\ t[i - 1] = q[i]
  BY <1>1, <1>2
<1>3. HasSync(q) => Head(q).source = "sync" \/ HasSync(t)
  BY <1>1, <1>2 DEF HasSync
<1>4. ASSUME LastFails(t)
      PROVE  LastFails(q)
  <2>1. PICK i \in DOMAIN t : /\ t[i].source = "sync" /\ ~t[i].ok
                              /\ \A j \in DOMAIN t : j > i => t[j].source # "sync"
    BY <1>4 DEF LastFails
  <2>2. i + 1 \in DOMAIN q /\ q[i + 1].source = "sync" /\ ~q[i + 1].ok
    BY <1>1, <2>1
  <2>3. ASSUME NEW j \in DOMAIN q, j > i + 1
        PROVE  q[j].source # "sync"
    <3>1. j # 1 /\ j - 1 > i
      BY <1>1, <2>1, <2>3
    <3> QED
      BY <1>2, <2>1, <3>1
  <2> QED
    BY <2>2, <2>3 DEF LastFails
<1>5. ASSUME Head(q).source = "sync", ~Head(q).ok, ~HasSync(t)
      PROVE  LastFails(q)
  <2>1. 1 \in DOMAIN q /\ q[1].source = "sync" /\ ~q[1].ok
    BY <1>1, <1>5
  <2>2. ASSUME NEW j \in DOMAIN q, j > 1
        PROVE  q[j].source # "sync"
    <3>1. j # 1
      BY <1>1, <2>2
    <3> QED
      BY <1>2, <1>5, <3>1 DEF HasSync
  <2> QED
    BY <2>1, <2>2 DEF LastFails
<1> QED
  BY <1>3, <1>4, <1>5 DEF t

(* What a step of the worker does with payloads and reports on them. *)
LEMMA ReportStep ==
    ASSUME TypeOK, Worker
    PROVE  \/ UNCHANGED <<sam_events, latest>> /\ (SyncRequested => SyncRequested')
           \/ sam_events' = sam_events /\ SyncRequested'
           \/ /\ \E e \in Reports : /\ sam_events' = Append(sam_events, e)
                                    /\ e.source # "sync"
              /\ ~SyncRequested /\ latest' = latest
           \/ \E e \in Reports : /\ sam_events' = Append(sam_events, e)
                                 /\ e.source = "sync"
                                 /\ e.ok \/ latest' # None
<1> USE DEF SyncRequested
<1>t. /\ request # None => request \in Requests
      /\ latest # None => latest \in Payloads /\ latest.seq \in Nat
  BY DEF TypeOK, Payloads
<1>1. CASE NoCommand \/ SkipPoll \/ Poll \/ CoolDown
  BY <1>1 DEF NoCommand, SkipPoll, Poll, CoolDown, clientVars, loopVars
<1>2. CASE TakeSync
  <2>1. CASE UNCHANGED <<latest, cooling, request, sam_events>>
    BY <2>1
  <2>2. CASE latest # None /\ Emit("sync", FALSE, None, latest.seq) /\ UNCHANGED <<latest, request>>
    <3>1. Report("sync", FALSE, None, latest.seq) \in Reports
      BY <1>t, <2>2 DEF Report, Reports
    <3>2. Report("sync", FALSE, None, latest.seq).source = "sync"
      BY DEF Report
    <3> QED
      BY <2>2, <3>1, <3>2 DEF Emit
  <2>3. CASE latest # None /\ Paired /\ Post("sync", link, latest) /\ UNCHANGED <<cooling, sam_events>>
    <3>1. request' \in Requests
      BY <1>t, <2>3, PostType DEF Paired, TypeOK
    <3> QED
      BY <2>3, <3>1, SyncAssumption DEF Post
  <2> QED
    BY <1>2, <2>1, <2>2, <2>3 DEF TakeSync
<1>3. CASE TakeCommand
  <2>1. request = None /\ latest' = latest
        /\ (sam_events' = sam_events \/ Emit("unlink", TRUE, None, 0))
    BY <1>3 DEF TakeCommand, SendCommand, RefuseCommand
  <2>2. Report("unlink", TRUE, None, 0) \in Reports /\ Report("unlink", TRUE, None, 0).source = "unlink"
    BY DEF Report, Reports
  <2> QED
    BY <2>1, <2>2 DEF Emit
<1>4. CASE Receive
  <2>1. request \in Requests /\ request.reply.state \in States /\ request.reply.state # None
        /\ latest' = latest
    BY <1>4, SyncAssumption DEF Receive, TypeOK, Requests, Replies
  <2>2. CASE ReceiveSync
    <3>1. request.payload.seq \in Nat
      BY <2>1, <2>2 DEF ReceiveSync, Requests, Payloads
    <3>2. LET e == Report("sync", TRUE, request.reply.state, request.payload.seq)
          IN  e \in Reports /\ e.source = "sync" /\ e.ok
      BY <2>1, <3>1 DEF Report, Reports
    <3> QED
      BY <2>2, <3>2 DEF ReceiveSync, Emit
  <2>3. CASE ~ReceiveSync
    <3>1. request.kind # "sync"
      BY <1>4, <2>3 DEF Receive, ReceivePull, ReceiveUnlink, ReceivePoll, ReceiveFull
    <3>2. \/ sam_events' = sam_events
          \/ \E source \in {"poll", "pull", "pair", "recovery"} : Emit(source, TRUE, request.reply.state, 0)
          \/ Emit("unlink", TRUE, None, 0)
      BY <1>4, <2>3 DEF Receive, ReceivePull, ReceiveUnlink, ReceivePoll, ReceiveFull
    <3>3. Report("unlink", TRUE, None, 0) \in Reports /\ Report("unlink", TRUE, None, 0).source = "unlink"
      BY DEF Report, Reports
    <3>4. \A source \in {"poll", "pull", "pair", "recovery"} :
             LET e == Report(source, TRUE, request.reply.state, 0)
             IN  e \in Reports /\ e.source # "sync"
      BY <2>1 DEF Report, Reports
    <3> QED
      BY <2>1, <3>1, <3>2, <3>3, <3>4 DEF Emit
  <2> QED
    BY <2>2, <2>3
<1>5. CASE Fail
  <2>1. CASE FailSync
    <3>1. request \in Requests /\ request.payload # None /\ request.payload.seq \in Nat
      BY <1>5, <1>t, <2>1 DEF Fail, FailSync, Requests, Payloads
    <3>2. LET e == Report("sync", FALSE, None, request.payload.seq)
          IN  e \in Reports /\ e.source = "sync"
      BY <3>1 DEF Report, Reports
    <3>3. latest' # None
      BY <2>1, <3>1 DEF FailSync, Restored
    <3> QED
      BY <2>1, <3>2, <3>3 DEF FailSync, Emit
  <2>2. CASE FailPoll \/ FailOther
    BY <2>2 DEF FailPoll, FailOther
  <2>3. CASE FailUnlink
    <3>1. Report("unlink", TRUE, None, 0) \in Reports /\ Report("unlink", TRUE, None, 0).source = "unlink"
      BY DEF Report, Reports
    <3> QED
      BY <2>3, <3>1 DEF FailUnlink, Emit
  <2> QED
    BY <1>5, <2>1, <2>2, <2>3 DEF Fail
<1> QED
  BY <1>1, <1>2, <1>3, <1>4, <1>5 DEF Worker

LEMMA HeldStep ==
    ASSUME TypeOK, FailedIsHeld, [Next]_vars
    PROVE  FailedIsHeld'
<1> USE DEF FailedIsHeld, Held
<1>q. sam_events \in Seq(Reports)
  BY DEF TypeOK
<1>k. ASSUME sam_events' = sam_events, Held => Held'
      PROVE  FailedIsHeld'
  BY <1>k
<1>1. CASE Worker
  <2>1. CASE UNCHANGED <<sam_events, latest>> /\ (SyncRequested => SyncRequested')
    BY <2>1
  <2>2. CASE sam_events' = sam_events /\ SyncRequested'
    BY <2>2
  <2>3. CASE /\ \E e \in Reports : sam_events' = Append(sam_events, e) /\ e.source # "sync"
             /\ ~SyncRequested /\ latest' = latest
    BY <1>q, <2>3, AppendReport
  <2>4. CASE \E e \in Reports : /\ sam_events' = Append(sam_events, e) /\ e.source = "sync"
                                /\ e.ok \/ latest' # None
    BY <1>q, <2>4, AppendReport
  <2> QED
    BY <1>1, <2>1, <2>2, <2>3, <2>4, ReportStep
<1>2. CASE HandleSamEvent
  <2>1. sam_events # <<>> /\ sam_events' = Tail(sam_events) /\ UNCHANGED <<latest, request>>
    BY <1>2 DEF HandleSamEvent, loopVars
  <2> QED
    BY <1>q, <2>1, TailReport DEF SyncRequested
<1>3. CASE PushSamState
  <2>1. latest' \in Payloads
    BY <1>3 DEF PushSamState, QueueSync, Payloads, TypeOK
  <2> QED
    BY <1>3, <1>k, <2>1, SyncAssumption DEF PushSamState
<1>4. CASE Serve
  BY <1>4, <1>k, ServeType DEF Serve, SyncRequested, clientVars
<1>5. CASE UNCHANGED <<sam_events, latest, request>>
  BY <1>5, <1>k DEF SyncRequested
<1> QED
  BY <1>1, <1>2, <1>3, <1>4, <1>5
     DEF Next, App, LocalEdit, SwitchLink, Ask, Sam, RemoteChange, Restart, vars, clientVars, loopVars

(* A change marked dirty has a push due or its payload, or the report on    *)
(* it, on the way (sam_client.py 106-174, 393-423, app.py 1105-1119).       *)
THEOREM DirtyNeverStranded == Spec => []DirtyHasCarrier
<1> DEFINE I == FailedIsHeld /\ DirtyHasCarrier
<1>1. Init => I
  BY DEF Init, FailedIsHeld, LastFails, DirtyHasCarrier
<1>2. TypeOK /\ I /\ [Next]_vars => I'
  <2> SUFFICES ASSUME TypeOK, FailedIsHeld, DirtyHasCarrier, [Next]_vars,
                      sam_local_dirty', ~sync_due'
               PROVE  Carried'
    BY HeldStep DEF DirtyHasCarrier
  <2>c. Carried <=> Held \/ HasSync(sam_events)
    BY DEF Carried, Held, SyncRequested, HasSync
  <2>d. Carried' <=> Held' \/ HasSync(sam_events')
    BY DEF Carried, Held, SyncRequested, HasSync
  <2>q. sam_events \in Seq(Reports)
    BY DEF TypeOK
  <2>k. ASSUME UNCHANGED <<sam_local_dirty, sync_due>>
        PROVE  Held \/ HasSync(sam_events)
    BY <2>c, <2>k DEF DirtyHasCarrier
  <2>1. CASE Worker
    <3>1. UNCHANGED <<sam_local_dirty, sync_due>>
      BY <2>1 DEF Worker, NoCommand, TakeSync, TakeCommand, SkipPoll, Poll, Receive, Fail, CoolDown, appVars
    <3>2. CASE UNCHANGED <<sam_events, latest>> /\ (SyncRequested => SyncRequested')
      BY <2>d, <2>k, <3>1, <3>2 DEF Held
    <3>3. CASE sam_events' = sam_events /\ SyncRequested'
      BY <2>d, <3>3 DEF Held
    <3>4. CASE /\ \E e \in Reports : sam_events' = Append(sam_events, e) /\ e.source # "sync"
               /\ ~SyncRequested /\ latest' = latest
      BY <2>d, <2>k, <2>q, <3>1, <3>4, AppendReport DEF Held
    <3>5. CASE \E e \in Reports : /\ sam_events' = Append(sam_events, e) /\ e.source = "sync"
                                  /\ e.ok \/ latest' # None
      BY <2>d, <2>q, <3>5, AppendReport
    <3> QED
      BY <2>1, <3>2, <3>3, <3>4, <3>5, ReportStep
  <2>2. CASE HandleSamEvent
    <3> DEFINE event == Head(sam_events)
    <3>1. sam_events # <<>> /\ sam_events' = Tail(sam_events) /\ UNCHANGED <<latest, request, sync_due>>
      BY <2>2 DEF HandleSamEvent, loopVars
    <3>2. Held' <=> Held
      BY <3>1 DEF Held, SyncRequested
    <3>3. CASE event.source = "sync"
      <4>1. ~event.ok
        BY <2>2, <3>3 DEF HandleSamEvent, HandleSynced, HandlePolled, HandlePulled, HandlePaired, HandleUnlinked
      <4> QED
        BY <2>d, <2>q, <3>1, <3>2, <3>3, <4>1, TailReport DEF FailedIsHeld
    <3>4. CASE event.source # "sync"
      <4>1. sam_local_dirty' = sam_local_dirty
        BY <2>2, <3>4 DEF HandleSamEvent, HandleSynced, HandlePolled, HandlePulled, HandlePaired, HandleUnlinked
      <4> QED
        BY <2>d, <2>k, <2>q, <3>1, <3>2, <3>4, <4>1, TailReport
    <3> QED
      BY <3>3, <3>4
  <2>3. CASE PushSamState
    <3>1. latest' \in Payloads
      BY <2>3 DEF PushSamState, QueueSync, Payloads, TypeOK
    <3> QED
      BY <2>d, <3>1, SyncAssumption DEF Held
  <2>4. CASE LocalEdit
    <3>1. UNCHANGED <<sam_local_dirty, sync_due, sam_events, latest, request>>
      BY <2>4 DEF LocalEdit, clientVars, loopVars
    <3> QED
      BY <2>d, <2>k, <3>1 DEF Held, SyncRequested
  <2>5. CASE Serve
    <3>1. UNCHANGED <<sam_local_dirty, sync_due, sam_events, latest>> /\ (SyncRequested => SyncRequested')
      BY <2>5, ServeType DEF Serve, appVars, clientVars, SyncRequested
    <3> QED
      BY <2>d, <2>k, <3>1 DEF Held
  <2>6. CASE UNCHANGED <<sam_local_dirty, sync_due, sam_events, latest, request>>
    BY <2>6, <2>d, <2>k DEF Held, SyncRequested
  <2> QED
    BY <2>1, <2>2, <2>3, <2>4, <2>5, <2>6
       DEF Next, App, SwitchLink, Ask, Sam, RemoteChange, Restart, vars, appVars, clientVars, loopVars
<1>3. I => DirtyHasCarrier
  OBVIOUS
<1> QED
  BY <1>1, <1>2, <1>3, TypeCorrect, PTL DEF Spec
----------------------------------------------------------------------------
(* What the server has said, in the order in which it was said: a deferred  *)
(* snapshot, the reports to the desktop, the worker's answer, the server.   *)

(* A state was the server's at its epoch and revision. *)
TrueIn(s, v) ==
    /\ s.epoch <= v[s.link].epoch
    /\ s.epoch = v[s.link].epoch =>
          /\ s.revision <= v[s.link].revision
          /\ s.revision = v[s.link].revision => s.value = v[s.link].value

Later(a, b) == a.link = b.link /\ a.epoch = b.epoch => a.revision <= b.revision

HasReply == request # None /\ request.reply # None

AllTrue ==
    /\ seen # None => TrueIn(seen, server)
    /\ pending_remote # None => TrueIn(pending_remote, server)
    /\ HasReply => TrueIn(request.reply.state, server)
    /\ \A i \in DOMAIN sam_events : sam_events[i].state # None => TrueIn(sam_events[i].state, server)

(* The same as the list q of reports after the state a, if there is one. *)
Before(a, q) == \A i \in DOMAIN q : q[i].state # None => Later(a, q[i].state)

Ascending(q) ==
    \A i, j \in DOMAIN q : i < j /\ q[i].state # None /\ q[j].state # None => Later(q[i].state, q[j].state)

Chronology ==
    /\ Ascending(sam_events)
    /\ pending_remote # None => Before(pending_remote, sam_events)
    /\ HasReply => /\ pending_remote # None => Later(pending_remote, request.reply.state)
                   /\ \A i \in DOMAIN sam_events :
                         sam_events[i].state # None => Later(sam_events[i].state, request.reply.state)

(* The cursor, and the cursor that a poll was sent with, are not ahead of   *)
(* the state last taken over; unchanged means not newer than asked.         *)
Cursor ==
    /\ last_revision # Unknown => seen # None /\ last_revision <= seen.revision
    /\ request # None /\ request.after # Unknown => seen # None /\ request.after <= seen.revision
    /\ HasReply /\ ~request.reply.changed => request.reply.state.revision <= request.after
----------------------------------------------------------------------------
LEMMA ReportAppended ==
    ASSUME NEW q \in Seq(Reports), NEW e \in Reports
    PROVE  /\ Append(q, e) \in Seq(Reports)
           /\ \A i \in DOMAIN q : i \in Nat /\ i < Len(q) + 1 /\ i \in DOMAIN Append(q, e) /\ Append(q, e)[i] = q[i]
           /\ Len(q) + 1 \in DOMAIN Append(q, e) /\ Append(q, e)[Len(q) + 1] = e
           /\ \A i \in DOMAIN Append(q, e) : i \in Nat /\ (i \in DOMAIN q \/ i = Len(q) + 1)
OBVIOUS

LEMMA ReportTailed ==
    ASSUME NEW q \in Seq(Reports), q # <<>>
    PROVE  /\ Tail(q) \in Seq(Reports)
           /\ 1 \in DOMAIN q /\ Head(q) = q[1] /\ Head(q) \in Reports
           /\ \A i \in DOMAIN Tail(q) : i \in Nat /\ 1 < i + 1 /\ i + 1 \in DOMAIN q /\ Tail(q)[i] = q[i + 1]
           /\ \A i \in DOMAIN q : i \in Nat /\ (i = 1 \/ (i - 1 \in DOMAIN Tail(q) /\ Tail(q)[i - 1] = q[i]))
OBVIOUS

LEMMA StateTypes ==
    /\ \A s \in States : s # None /\ s.link \in Links /\ s.epoch \in Nat /\ s.revision \in Nat /\ s.value \in Nat
    /\ \A r \in Replies : r # None /\ r.state \in States /\ r.changed \in BOOLEAN
    /\ \A e \in Reports : (e.state # None => e.state \in States) /\ e.ok \in BOOLEAN
BY SyncAssumption DEF States, Replies, Reports

LEMMA RequestFields ==
    ASSUME TypeOK, request # None
    PROVE  /\ request \in Requests /\ request.link \in Links /\ request.after \in Nat \cup {Unknown}
           /\ request.reply # None => request.reply \in Replies /\ request.reply.state \in States
BY StateTypes DEF TypeOK, Requests

LEMMA ReportOf ==
    ASSUME TypeOK, NEW i \in DOMAIN sam_events
    PROVE  sam_events[i] \in Reports
BY DEF TypeOK

(* The worker leaves a report with no state, or with the state it was       *)
(* answered, or none.                                                       *)
Asks ==
    /\ UNCHANGED <<sam_events, seen, last_revision>>
    /\ request' = None \/ (request'.reply = None /\ request'.after \in {last_revision, Unknown})

Mentions ==
    /\ \E e \in Reports : e.state = None /\ sam_events' = Append(sam_events, e)
    /\ request' = None /\ UNCHANGED seen /\ last_revision' \in {last_revision, Unknown}

NothingNew ==
    /\ HasReply /\ ~request.reply.changed
    /\ request' = None /\ UNCHANGED <<sam_events, seen>>
    /\ last_revision' = request.reply.state.revision

Tells ==
    /\ HasReply
    /\ \E e \in Reports : e.state = request.reply.state /\ sam_events' = Append(sam_events, e)
    /\ request' = None /\ seen' = request.reply.state /\ last_revision' = seen'.revision

LEMMA WorkerMoves ==
    ASSUME TypeOK, Worker
    PROVE  /\ UNCHANGED <<local, link, sam_local_dirty, sam_sync_inflight, pending_remote, server, writes, edits, fresh>>
           /\ UNCHANGED <<sam_events, request, seen, last_revision>> \/ Asks \/ Mentions \/ NothingNew \/ Tells
<1> USE DEF clientVars, appVars, envVars, ghostVars, loopVars
<1>1. UNCHANGED <<local, link, sam_local_dirty, sam_sync_inflight, pending_remote, server, writes, edits, fresh>>
  BY DEF Worker, NoCommand, TakeSync, TakeCommand, SkipPoll, Poll, Receive, Fail, CoolDown
<1>2. CASE NoCommand \/ SkipPoll \/ CoolDown
  BY <1>1, <1>2 DEF NoCommand, SkipPoll, CoolDown
<1>u. Report("unlink", TRUE, None, 0) \in Reports /\ Report("unlink", TRUE, None, 0).state = None
  BY DEF Report, Reports
<1>p. \A kind, l, payload : Post(kind, l, payload) => request'.reply = None /\ request'.after = Unknown
  BY DEF Post
<1>3. CASE TakeSync
  <2>1. UNCHANGED <<seen, last_revision>> /\ request = None
    BY <1>3 DEF TakeSync
  <2>2. CASE UNCHANGED <<latest, cooling, request, sam_events>>
    BY <1>1, <2>1, <2>2
  <2>3. CASE latest # None /\ Emit("sync", FALSE, None, latest.seq) /\ UNCHANGED <<latest, request>>
    <3>1. latest.seq \in Nat
      BY <2>3 DEF TypeOK, Payloads
    <3>2. Report("sync", FALSE, None, latest.seq) \in Reports /\ Report("sync", FALSE, None, latest.seq).state = None
      BY <3>1 DEF Report, Reports
    <3>3. Mentions
      BY <2>1, <2>3, <3>2 DEF Emit, Mentions
    <3> QED
      BY <1>1, <3>3
  <2>4. CASE Post("sync", link, latest) /\ UNCHANGED <<cooling, sam_events>>
    BY <1>1, <1>p, <2>1, <2>4 DEF Asks
  <2> QED
    BY <1>3, <2>2, <2>3, <2>4 DEF TakeSync
<1>4. CASE TakeCommand
  <2>1. UNCHANGED seen /\ request = None
        /\ (SendCommand(Head(Requeued)) \/ RefuseCommand(Head(Requeued).kind))
    BY <1>4 DEF TakeCommand
  <2>2. CASE SendCommand(Head(Requeued))
    BY <1>1, <1>p, <2>1, <2>2 DEF SendCommand, Asks
  <2>3. CASE RefuseCommand(Head(Requeued).kind)
    <3>1. /\ UNCHANGED request
          /\ \/ Emit("unlink", TRUE, None, 0) /\ last_revision' = Unknown
             \/ UNCHANGED <<last_revision, sam_events>>
      BY <2>3 DEF RefuseCommand
    <3> QED
      BY <1>1, <1>u, <2>1, <3>1 DEF Emit, Mentions
  <2> QED
    BY <2>1, <2>2, <2>3
<1>5. CASE Poll
  <2>1. UNCHANGED <<sam_events, seen, last_revision>> /\ request'.reply = None /\ request'.after = PollAfter
    BY <1>5 DEF Poll
  <2> QED
    BY <1>1, <2>1 DEF Asks, PollAfter
<1>6. CASE Receive
  <2>1. HasReply /\ request \in Requests /\ request.reply.state \in States /\ request.reply.state # None
    BY <1>6, RequestFields, StateTypes DEF Receive, HasReply
  <2>2. ASSUME NEW source \in {"sync", "poll", "pull", "pair", "recovery"}, NEW seq \in Nat,
               Emit(source, TRUE, request.reply.state, seq), request' = None, Remember(request.reply.state)
        PROVE  Tells
    <3> DEFINE e == Report(source, TRUE, request.reply.state, seq)
    <3>1. e \in Reports /\ e.state = request.reply.state
      BY <2>1 DEF Report, Reports
    <3> HIDE DEF e
    <3>2. sam_events' = Append(sam_events, e)
      BY <2>2 DEF Emit, e
    <3> QED
      BY <2>1, <2>2, <3>1, <3>2 DEF Remember, Tells
  <2>3. CASE ReceiveSync
    <3>1. request.payload.seq \in Nat
      BY <2>1, <2>3 DEF ReceiveSync, Requests, Payloads
    <3> QED
      BY <1>1, <2>2, <2>3, <3>1 DEF ReceiveSync
  <2>4. CASE ReceivePull
    BY <1>1, <2>2, <2>4 DEF ReceivePull
  <2>5. CASE ReceiveUnlink
    BY <1>1, <1>u, <2>5 DEF ReceiveUnlink, Emit, Mentions
  <2>6. CASE ReceivePoll
    <3>1. CASE request.reply.changed
      BY <1>1, <2>2, <2>6, <3>1 DEF ReceivePoll
    <3>2. CASE ~request.reply.changed /\ RolledBack(request.reply.state.revision)
      <4>1. UNCHANGED <<last_revision, seen, sam_events>>
            /\ request' = IF link = None THEN None
                          ELSE [request EXCEPT !.kind = "full", !.link = link, !.after = Unknown, !.reply = None]
        BY <2>6, <3>2 DEF ReceivePoll
      <4>2. request' = None \/ (request'.reply = None /\ request'.after = Unknown)
        BY <2>1, <4>1 DEF Requests
      <4> QED
        BY <1>1, <4>1, <4>2 DEF Asks
    <3>3. CASE ~request.reply.changed /\ ~RolledBack(request.reply.state.revision)
      BY <1>1, <2>1, <2>6, <3>3 DEF ReceivePoll, NothingNew
    <3> QED
      BY <3>1, <3>2, <3>3
  <2>7. CASE ReceiveFull
    BY <1>1, <2>2, <2>7 DEF ReceiveFull
  <2> QED
    BY <1>6, <2>3, <2>4, <2>5, <2>6, <2>7 DEF Receive
<1>7. CASE Fail
  <2>1. UNCHANGED seen /\ request' = None /\ request # None /\ (FailSync \/ FailPoll \/ FailOther \/ FailUnlink)
    BY <1>7 DEF Fail
  <2>2. CASE FailSync
    <3>1. request.payload.seq \in Nat
      BY <2>1, <2>2, RequestFields DEF FailSync, Requests, Payloads
    <3>2. /\ Report("sync", FALSE, None, request.payload.seq) \in Reports
          /\ Report("sync", FALSE, None, request.payload.seq).state = None
      BY <3>1 DEF Report, Reports
    <3> QED
      BY <1>1, <2>1, <2>2, <3>2 DEF FailSync, Emit, Mentions
  <2>3. CASE FailPoll \/ FailOther
    BY <1>1, <2>1, <2>3 DEF FailPoll, FailOther, Asks
  <2>4. CASE FailUnlink
    BY <1>1, <1>u, <2>1, <2>4 DEF FailUnlink, Emit, Mentions
  <2> QED
    BY <2>1, <2>2, <2>3, <2>4
<1> QED
  BY <1>2, <1>3, <1>4, <1>5, <1>6, <1>7 DEF Worker

(* Handling a report takes it off the queue; it may be put aside.  A new    *)
(* link forgets the cursor.                                                 *)
LEMMA HandleMoves ==
    ASSUME TypeOK, HandleSamEvent
    PROVE  /\ sam_events # <<>> /\ sam_events' = Tail(sam_events)
           /\ UNCHANGED <<request, server, seen, writes, edits, latest>>
           /\ last_revision' \in {last_revision, Unknown}
           /\ pending_remote' \in {pending_remote, None} \/ pending_remote' = Head(sam_events).state
<1> DEFINE event == Head(sam_events)
<1>1. /\ sam_events # <<>> /\ sam_events' = Tail(sam_events)
      /\ UNCHANGED <<request, server, seen, writes, edits, latest>>
      /\ HandleSynced(event) \/ HandlePolled(event) \/ HandlePulled(event) \/ HandlePaired(event)
         \/ HandleUnlinked(event)
  BY DEF HandleSamEvent, loopVars, envVars
<1> HIDE DEF event
<1>2. last_revision' \in {last_revision, Unknown}
  BY <1>1 DEF HandleSynced, HandlePolled, HandlePulled, HandlePaired, HandleUnlinked, ResetCursor
<1>3. pending_remote' \in {pending_remote, None} \/ pending_remote' = event.state
  BY <1>1 DEF HandleSynced, HandlePolled, HandlePulled, HandlePaired, HandleUnlinked
<1> QED
  BY <1>1, <1>2, <1>3 DEF event

(* The other steps of the desktop. *)
Commanded ==
    \/ LocalEdit \/ PushSamState
    \/ \E l \in Links : SwitchLink(l) \/ Ask("pair", l)
    \/ \E kind \in {"pull", "unlink", "recovery"} : link # None /\ Ask(kind, None)

LEMMA CommandMoves ==
    ASSUME TypeOK, Commanded
    PROVE  /\ UNCHANGED <<sam_events, request, server, seen, pending_remote>>
           /\ last_revision' \in {last_revision, Unknown}
BY DEF Commanded, LocalEdit, PushSamState, SwitchLink, ResetCursor, Ask, appVars, clientVars, loopVars,
       envVars, ghostVars

(* The server does not go back. *)
Grown(v, w) == \A s \in States : TrueIn(s, v) => TrueIn(s, w)

LEMMA WriteGrows ==
    ASSUME TypeOK, NEW l \in Links, NEW value \in Nat, Write(l, value)
    PROVE  Grown(server, server')
<1> DEFINE new == [epoch |-> server[l].epoch,
                   revision |-> IF value = server[l].value THEN server[l].revision ELSE server[l].revision + 1,
                   value |-> value]
<1>1. /\ \A k \in Links : server[k].epoch \in Nat /\ server[k].revision \in Nat
      /\ \A k \in Links : server'[k] = IF k = l THEN new ELSE server[k]
  BY DEF Write, TypeOK
<1>2. /\ new.epoch = server[l].epoch
      /\ \/ new.revision = server[l].revision + 1
         \/ new.revision = server[l].revision /\ new.value = server[l].value
  OBVIOUS
<1> HIDE DEF new
<1>3. ASSUME NEW s \in States, TrueIn(s, server)
      PROVE  TrueIn(s, server')
  <2>1. s.link \in Links /\ s.epoch \in Nat /\ s.revision \in Nat
    BY StateTypes
  <2>2. CASE s.link # l
    <3>1. server'[s.link] = server[s.link]
      BY <1>1, <2>1, <2>2
    <3> QED
      BY <1>3, <3>1 DEF TrueIn
  <2>3. CASE s.link = l
    <3>1. server'[s.link] = new /\ server[s.link] = server[l]
      BY <1>1, <2>3
    <3> QED
      BY <1>1, <1>2, <1>3, <2>1, <3>1 DEF TrueIn
  <2> QED
    BY <2>2, <2>3
<1> QED
  BY <1>3 DEF Grown

LEMMA RestartGrows ==
    ASSUME TypeOK, NEW l \in Links, Restart(l)
    PROVE  Grown(server, server')
<1>1. /\ \A k \in Links : server[k].epoch \in Nat
      /\ \A k \in Links : k # l => server'[k] = server[k]
      /\ server'[l].epoch = server[l].epoch + 1
  BY DEF Restart, TypeOK
<1>2. ASSUME NEW s \in States, TrueIn(s, server)
      PROVE  TrueIn(s, server')
  <2>1. s.link \in Links /\ s.epoch \in Nat
    BY StateTypes
  <2>2. CASE s.link # l
    <3>1. server'[s.link] = server[s.link]
      BY <1>1, <2>1, <2>2
    <3> QED
      BY <1>2, <3>1 DEF TrueIn
  <2>3. CASE s.link = l
    BY <1>1, <1>2, <2>1, <2>3 DEF TrueIn
  <2> QED
    BY <2>2, <2>3
<1> QED
  BY <1>2 DEF Grown

(* A reply is the server's state after what was asked. *)
LEMMA ServeMoves ==
    ASSUME TypeOK, Serve
    PROVE  /\ UNCHANGED <<local, link, sam_local_dirty, sam_sync_inflight, pending_remote, sam_events,
                          edits, seen, last_revision, latest>>
           /\ Grown(server, server')
           /\ request # None /\ request.reply = None
           /\ request' # None /\ request'.after = request.after
           /\ request'.reply \in Replies
           /\ request'.reply.state.link = request.link
           /\ request'.reply.state.epoch = server'[request.link].epoch
           /\ request'.reply.state.revision = server'[request.link].revision
           /\ request'.reply.state.value = server'[request.link].value
           /\ ~request'.reply.changed => request'.reply.state.revision <= request'.after
<1>1. /\ UNCHANGED <<local, link, sam_local_dirty, sam_sync_inflight, pending_remote, sam_events,
                     edits, seen, last_revision, latest>>
      /\ request # None /\ request.reply = None
      /\ ServeSync \/ ServeRecovery \/ ServeState
  BY DEF Serve, appVars, clientVars
<1>2. /\ request \in Requests /\ request.link \in Links /\ request.after \in Nat \cup {Unknown}
      /\ request.kind = "sync" => request.payload.value \in Nat
      /\ server[request.link] \in [epoch : Nat, revision : Nat, value : Nat]
  BY <1>1 DEF TypeOK, Requests, Payloads
<1> DEFINE l == request.link
<1>3. ASSUME NEW reply, request' = [request EXCEPT !.reply = reply]
      PROVE  request'.reply = reply /\ request'.after = request.after
  BY <1>2, <1>3 DEF Requests
<1>t. /\ request' # None
      /\ \A k \in Links : server'[k].epoch \in Nat /\ server'[k].revision \in Nat /\ server'[k].value \in Nat
  BY ServeType DEF TypeOK
<1>s. server[l].epoch \in Nat /\ server[l].revision \in Nat /\ server[l].value \in Nat
  BY <1>2
<1>4. ASSUME NEW value \in Nat, ServeWrite(value)
      PROVE  /\ Grown(server, server')
             /\ request'.after = request.after /\ request'.reply.changed = TRUE
             /\ request'.reply \in Replies
             /\ request'.reply.state.link = l
             /\ request'.reply.state.epoch = server'[l].epoch
             /\ request'.reply.state.revision = server'[l].revision
             /\ request'.reply.state.value = server'[l].value
  <2> DEFINE state == [link |-> l, epoch |-> server[l].epoch, revision |-> server'[l].revision, value |-> value]
  <2>1. Write(l, value) /\ request' = [request EXCEPT !.reply = [changed |-> TRUE, state |-> state]]
    BY <1>4 DEF ServeWrite
  <2>2. Grown(server, server')
    BY <1>2, <1>4, <2>1, WriteGrows
  <2>3. server'[l].epoch = server[l].epoch /\ server'[l].value = value
    <3>1. l \in DOMAIN server
      BY <1>2 DEF TypeOK
    <3> QED
      BY <2>1, <3>1 DEF Write
  <2>4. request'.reply = [changed |-> TRUE, state |-> state] /\ request'.after = request.after
    BY <1>3, <2>1
  <2>5. state \in States
    BY <1>2, <1>s, <1>t DEF States
  <2>6. [changed |-> TRUE, state |-> state] \in Replies
    BY <2>5 DEF Replies
  <2>7. state.link = l /\ state.epoch = server[l].epoch /\ state.revision = server'[l].revision /\ state.value = value
    OBVIOUS
  <2> HIDE DEF state
  <2> QED
    BY <2>2, <2>3, <2>4, <2>6, <2>7
<1>5. CASE ServeSync \/ ServeRecovery
  <2>1. \E value \in Nat : ServeWrite(value)
    <3>1. CASE ServeSync
      BY <1>2, <1>s, <3>1 DEF ServeSync
    <3>2. CASE ServeRecovery
      <4>1. writes \in Nat
        BY DEF TypeOK
      <4>2. writes + 1 \in Nat
        BY <4>1
      <4> QED
        BY <3>2, <4>2 DEF ServeRecovery
    <3> QED
      BY <1>5, <3>1, <3>2
  <2> QED
    BY <1>1, <1>4, <1>t, <2>1
<1>6. CASE ServeState
  <2> DEFINE state == State(l)
             reply == [changed |-> server[l].revision > request.after, state |-> state]
  <2>1. request' = [request EXCEPT !.reply = reply] /\ server' = server
    BY <1>6 DEF ServeState
  <2>2. /\ state \in States
        /\ state.link = l /\ state.epoch = server[l].epoch /\ state.revision = server[l].revision
        /\ state.value = server[l].value
    BY <1>2, <1>s DEF State, States
  <2> HIDE DEF state
  <2>3. reply \in Replies /\ reply.state = state
    BY <2>2 DEF Replies
  <2>4. ~reply.changed => server[l].revision <= request.after
    <3>1. \A r \in Nat, a \in Nat \cup {Unknown} : ~(r > a) => r <= a
      BY DEF Unknown
    <3>2. reply.changed <=> server[l].revision > request.after
      OBVIOUS
    <3> HIDE DEF reply
    <3> QED
      BY <1>2, <1>s, <3>1, <3>2
  <2> HIDE DEF reply
  <2>5. request'.reply = reply /\ request'.after = request.after
    BY <1>3, <2>1
  <2>6. Grown(server, server')
    BY <2>1 DEF Grown
  <2> QED
    BY <1>1, <1>t, <2>1, <2>2, <2>3, <2>4, <2>5, <2>6
<1> QED
  BY <1>1, <1>5, <1>6

LEMMA OtherMoves ==
    ASSUME TypeOK, [Next]_vars, ~Worker, ~HandleSamEvent, ~Commanded, ~Serve
    PROVE  /\ UNCHANGED <<local, link, sam_local_dirty, sam_sync_inflight, pending_remote, sam_events,
                          request, seen, last_revision, latest, fresh, edits>>
           /\ Grown(server, server')
<1>1. (\E l \in Links : RemoteChange(l) \/ Restart(l)) \/ UNCHANGED vars
  BY DEF Next, App, Sam, Commanded
<1>2. ASSUME NEW l \in Links, RemoteChange(l)
      PROVE  Grown(server, server')
  <2>1. writes \in Nat
    BY DEF TypeOK
  <2>2. writes + 1 \in Nat
    BY <2>1
  <2> QED
    BY <1>2, <2>2, WriteGrows DEF RemoteChange
<1>3. UNCHANGED vars => Grown(server, server')
  BY DEF vars, Grown
<1>4. Grown(server, server')
  BY <1>1, <1>2, <1>3, RestartGrows
<1> QED
  BY <1>1, <1>4
     DEF RemoteChange, Restart, vars, appVars, clientVars, loopVars, envVars, ghostVars

LEMMA TrueStep ==
    ASSUME TypeOK, AllTrue, [Next]_vars
    PROVE  AllTrue'
<1>t. /\ seen # None => seen \in States
      /\ pending_remote # None => pending_remote \in States
      /\ HasReply => request.reply.state \in States
      /\ \A i \in DOMAIN sam_events : sam_events[i].state # None => sam_events[i].state \in States
      /\ sam_events \in Seq(Reports)
  BY RequestFields, ReportOf, StateTypes DEF TypeOK, HasReply
<1>1. CASE Worker
  <2>1. UNCHANGED <<server, pending_remote>>
    BY <1>1, WorkerMoves
  <2>2. CASE UNCHANGED <<sam_events, request, seen, last_revision>>
    BY <2>1, <2>2 DEF AllTrue, HasReply
  <2>3. CASE Asks
    BY <2>1, <2>3 DEF AllTrue, HasReply, Asks
  <2>4. CASE Mentions
    <3>1. PICK e \in Reports : e.state = None /\ sam_events' = Append(sam_events, e)
      BY <2>4 DEF Mentions
    <3>2. \A i \in DOMAIN sam_events' : sam_events'[i].state # None =>
             i \in DOMAIN sam_events /\ sam_events'[i] = sam_events[i]
      BY <1>t, <3>1, ReportAppended
    <3> QED
      BY <2>1, <2>4, <3>2 DEF AllTrue, HasReply, Mentions
  <2>5. CASE NothingNew
    BY <2>1, <2>5 DEF AllTrue, HasReply, NothingNew
  <2>6. CASE Tells
    <3>1. PICK e \in Reports : e.state = request.reply.state /\ sam_events' = Append(sam_events, e)
      BY <2>6 DEF Tells
    <3>2. \A i \in DOMAIN sam_events' :
             (i \in DOMAIN sam_events /\ sam_events'[i] = sam_events[i]) \/ sam_events'[i] = e
      BY <1>t, <3>1, ReportAppended
    <3>3. TrueIn(request.reply.state, server)
      BY <2>6 DEF AllTrue, Tells
    <3> QED
      BY <2>1, <2>6, <3>1, <3>2, <3>3 DEF AllTrue, HasReply, Tells
  <2> QED
    BY <1>1, <2>2, <2>3, <2>4, <2>5, <2>6, WorkerMoves
<1>2. CASE HandleSamEvent
  <2>1. /\ sam_events # <<>> /\ sam_events' = Tail(sam_events)
        /\ UNCHANGED <<request, server, seen>>
        /\ pending_remote' \in {pending_remote, None} \/ pending_remote' = Head(sam_events).state
    BY <1>2, HandleMoves
  <2>2. \A i \in DOMAIN sam_events' : \E j \in DOMAIN sam_events : sam_events'[i] = sam_events[j]
    BY <1>t, <2>1, ReportTailed
  <2>3. Head(sam_events) = sam_events[1] /\ 1 \in DOMAIN sam_events
    BY <1>t, <2>1, ReportTailed
  <2>4. pending_remote' # None => TrueIn(pending_remote', server)
    BY <2>1, <2>3 DEF AllTrue
  <2> QED
    BY <2>1, <2>2, <2>4 DEF AllTrue, HasReply
<1>3. CASE Commanded
  BY <1>3, CommandMoves DEF AllTrue, HasReply
<1>4. CASE Serve
  <2>1. UNCHANGED <<pending_remote, sam_events, seen>> /\ Grown(server, server')
    BY <1>4, ServeMoves
  <2>2. TrueIn(request'.reply.state, server')
    <3>1. /\ request'.reply.state.link = request.link
          /\ request'.reply.state.epoch = server'[request.link].epoch
          /\ request'.reply.state.revision = server'[request.link].revision
          /\ request'.reply.state.value = server'[request.link].value
          /\ request'.reply.state \in States
      BY <1>4, ServeMoves, StateTypes
    <3>2. request'.reply.state.epoch \in Nat /\ request'.reply.state.revision \in Nat
      BY <3>1, StateTypes
    <3> QED
      BY <3>1, <3>2 DEF TrueIn
  <2> QED
    BY <1>t, <2>1, <2>2 DEF AllTrue, HasReply, Grown
<1>5. CASE ~Worker /\ ~HandleSamEvent /\ ~Commanded /\ ~Serve
  BY <1>5, <1>t, OtherMoves DEF AllTrue, HasReply, Grown
<1> QED
  BY <1>1, <1>2, <1>3, <1>4, <1>5

LEMMA CursorStep ==
    ASSUME TypeOK, Cursor, [Next]_vars
    PROVE  Cursor'
<1>t. /\ seen # None => seen.revision \in Nat
      /\ HasReply => request.reply.state.revision \in Nat /\ request.reply.state # None
      /\ last_revision \in Nat \cup {Unknown}
      /\ request # None => request.after \in Nat \cup {Unknown}
  BY RequestFields, StateTypes DEF TypeOK, HasReply
<1>u. \A n \in Nat : n # Unknown /\ n <= n /\ ~(n <= Unknown)
  BY DEF Unknown
<1> HIDE DEF Unknown
<1>1. CASE Worker
  <2>2. CASE UNCHANGED <<sam_events, request, seen, last_revision>>
    BY <2>2 DEF Cursor, HasReply
  <2>3. CASE Asks
    BY <2>3 DEF Cursor, HasReply, Asks
  <2>4. CASE Mentions
    BY <2>4 DEF Cursor, HasReply, Mentions
  <2>5. CASE NothingNew
    <3>1. request.reply.state.revision <= request.after
      BY <2>5 DEF Cursor, NothingNew
    <3>2. request.after \in Nat /\ request.after # Unknown /\ request # None
      BY <1>t, <1>u, <2>5, <3>1 DEF NothingNew, HasReply
    <3>3. seen # None /\ request.after <= seen.revision
      BY <3>2 DEF Cursor
    <3>4. request.reply.state.revision <= seen.revision
      BY <1>t, <2>5, <3>1, <3>2, <3>3 DEF NothingNew
    <3> QED
      BY <2>5, <3>3, <3>4 DEF Cursor, HasReply, NothingNew
  <2>6. CASE Tells
    BY <1>t, <1>u, <2>6 DEF Cursor, HasReply, Tells
  <2> QED
    BY <1>1, <2>2, <2>3, <2>4, <2>5, <2>6, WorkerMoves
<1>2. CASE HandleSamEvent \/ Commanded
  <2>1. UNCHANGED <<request, seen>> /\ last_revision' \in {last_revision, Unknown}
    BY <1>2, HandleMoves, CommandMoves
  <2> QED
    BY <2>1 DEF Cursor, HasReply
<1>3. CASE Serve
  <2>1. /\ UNCHANGED <<seen, last_revision>> /\ request # None /\ request'.after = request.after
        /\ ~request'.reply.changed => request'.reply.state.revision <= request'.after
    BY <1>3, ServeMoves
  <2> QED
    BY <2>1 DEF Cursor, HasReply
<1>4. CASE ~Worker /\ ~HandleSamEvent /\ ~Commanded /\ ~Serve
  BY <1>4, OtherMoves DEF Cursor, HasReply
<1> QED
  BY <1>1, <1>2, <1>3, <1>4

(* What comes off the queue is not later than what stays.                  *)
LEMMA OrderTail ==
    ASSUME NEW q \in Seq(Reports), q # <<>>, Ascending(q)
    PROVE  /\ Ascending(Tail(q))
           /\ Head(q).state # None => Before(Head(q).state, Tail(q))
           /\ \A a : Before(a, q) => Before(a, Tail(q))
<1> DEFINE t == Tail(q)
<1>1. /\ 1 \in DOMAIN q /\ Head(q) = q[1]
      /\ \A i \in DOMAIN t : i \in Nat /\ 1 < i + 1 /\ i + 1 \in DOMAIN q /\ t[i] = q[i + 1]
  BY ReportTailed
<1> HIDE DEF t
<1>2. ASSUME NEW i \in DOMAIN t, NEW j \in DOMAIN t, i < j, t[i].state # None, t[j].state # None
      PROVE  Later(t[i].state, t[j].state)
  <2>1. i + 1 \in DOMAIN q /\ j + 1 \in DOMAIN q /\ t[i] = q[i + 1] /\ t[j] = q[j + 1] /\ i \in Nat /\ j \in Nat
    BY <1>1
  <2>2. i + 1 < j + 1
    BY <1>2, <2>1
  <2> QED
    BY <1>2, <2>1, <2>2 DEF Ascending
<1>3. ASSUME Head(q).state # None, NEW i \in DOMAIN t, t[i].state # None
      PROVE  Later(Head(q).state, t[i].state)
  <2>1. i + 1 \in DOMAIN q /\ 1 < i + 1 /\ t[i] = q[i + 1]
    BY <1>1
  <2> QED
    BY <1>1, <1>3, <2>1 DEF Ascending
<1>4. \A a : Before(a, q) => Before(a, t)
  BY <1>1 DEF Before
<1> QED
  BY <1>2, <1>3, <1>4 DEF t, Ascending, Before

LEMMA OrderAppended ==
    ASSUME NEW q \in Seq(Reports), Ascending(q), NEW e \in Reports,
           e.state # None => \A i \in DOMAIN q : q[i].state # None => Later(q[i].state, e.state)
    PROVE  /\ Ascending(Append(q, e))
           /\ \A a : Before(a, q) /\ (e.state # None => Later(a, e.state)) => Before(a, Append(q, e))
<1> DEFINE r == Append(q, e)
           n == Len(q) + 1
<1>1. /\ \A i \in DOMAIN q : i \in Nat /\ i < n /\ i \in DOMAIN r /\ r[i] = q[i]
      /\ n \in DOMAIN r /\ r[n] = e /\ n \in Nat
      /\ \A i \in DOMAIN r : i \in Nat /\ (i \in DOMAIN q \/ i = n)
  BY ReportAppended
<1> HIDE DEF r, n
<1>2. ASSUME NEW i \in DOMAIN r, NEW j \in DOMAIN r, i < j, r[i].state # None, r[j].state # None
      PROVE  Later(r[i].state, r[j].state)
  <2>1. i \in DOMAIN q
    <3>1. ~(n < j) /\ i \in Nat
      BY <1>1
    <3> QED
      BY <1>1, <1>2, <3>1
  <2>2. CASE j \in DOMAIN q
    BY <1>1, <1>2, <2>1, <2>2 DEF Ascending
  <2>3. CASE j = n
    BY <1>1, <1>2, <2>1, <2>3
  <2> QED
    BY <1>1, <2>2, <2>3
<1>3. \A a : Before(a, q) /\ (e.state # None => Later(a, e.state)) => Before(a, r)
  BY <1>1 DEF Before
<1> QED
  BY <1>2, <1>3 DEF r, Ascending

(* The server is not behind what it has said. *)
LEMMA TrueIsEarlier ==
    ASSUME NEW s \in States, NEW v, TrueIn(s, v), NEW r,
           r.epoch = v[r.link].epoch, r.revision = v[r.link].revision
    PROVE  Later(s, r)
BY DEF TrueIn, Later

LEMMA ChronologyStep ==
    ASSUME TypeOK, AllTrue, Chronology, [Next]_vars
    PROVE  Chronology'
<1>q. sam_events \in Seq(Reports) /\ Ascending(sam_events)
  BY DEF TypeOK, Chronology
<1>1. CASE Worker
  <2>1. UNCHANGED pending_remote
    BY <1>1, WorkerMoves
  <2>2. CASE UNCHANGED <<sam_events, request, seen, last_revision>>
    BY <2>1, <2>2 DEF Chronology, HasReply
  <2>3. CASE Asks \/ NothingNew
    BY <2>1, <2>3 DEF Chronology, HasReply, Asks, NothingNew
  <2>4. CASE Mentions
    <3>1. PICK e \in Reports : e.state = None /\ sam_events' = Append(sam_events, e)
      BY <2>4 DEF Mentions
    <3>2. Ascending(sam_events') /\ \A a : Before(a, sam_events) => Before(a, sam_events')
      BY <1>q, <3>1, OrderAppended
    <3> QED
      BY <2>1, <2>4, <3>2 DEF Chronology, HasReply, Mentions
  <2>5. CASE Tells
    <3>1. PICK e \in Reports : e.state = request.reply.state /\ sam_events' = Append(sam_events, e)
      BY <2>5 DEF Tells
    <3>2. HasReply /\ request' = None
      BY <2>5 DEF Tells
    <3>3. \A i \in DOMAIN sam_events : sam_events[i].state # None => Later(sam_events[i].state, e.state)
      BY <3>1, <3>2 DEF Chronology
    <3>4. /\ Ascending(sam_events')
          /\ \A a : Before(a, sam_events) /\ (e.state # None => Later(a, e.state)) => Before(a, sam_events')
      BY <1>q, <3>1, <3>3, OrderAppended
    <3>5. pending_remote # None => Later(pending_remote, e.state) /\ Before(pending_remote, sam_events)
      BY <3>1, <3>2 DEF Chronology
    <3> QED
      BY <2>1, <3>2, <3>4, <3>5 DEF Chronology, HasReply
  <2> QED
    BY <1>1, <2>2, <2>3, <2>4, <2>5, WorkerMoves
<1>2. CASE HandleSamEvent
  <2>1. /\ sam_events # <<>> /\ sam_events' = Tail(sam_events) /\ UNCHANGED request
        /\ pending_remote' \in {pending_remote, None} \/ pending_remote' = Head(sam_events).state
    BY <1>2, HandleMoves
  <2>2. /\ Ascending(Tail(sam_events))
        /\ Head(sam_events).state # None => Before(Head(sam_events).state, Tail(sam_events))
        /\ \A a : Before(a, sam_events) => Before(a, Tail(sam_events))
    BY <1>q, <2>1, OrderTail
  <2>3. /\ Head(sam_events) = sam_events[1] /\ 1 \in DOMAIN sam_events
        /\ \A i \in DOMAIN sam_events' : \E j \in DOMAIN sam_events : sam_events'[i] = sam_events[j]
    BY <1>q, <2>1, ReportTailed
  <2>4. pending_remote' # None => Before(pending_remote', sam_events')
    BY <2>1, <2>2 DEF Chronology
  <2>5. HasReply => /\ pending_remote' # None => Later(pending_remote', request.reply.state)
                    /\ \A i \in DOMAIN sam_events' :
                          sam_events'[i].state # None => Later(sam_events'[i].state, request.reply.state)
    BY <2>1, <2>3 DEF Chronology
  <2> QED
    BY <2>1, <2>2, <2>4, <2>5 DEF Chronology, HasReply
<1>3. CASE Commanded
  BY <1>3, CommandMoves DEF Chronology, HasReply
<1>4. CASE Serve
  <2>1. /\ UNCHANGED <<pending_remote, sam_events>> /\ Grown(server, server')
        /\ request'.reply.state.link = request.link
        /\ request'.reply.state.epoch = server'[request.link].epoch
        /\ request'.reply.state.revision = server'[request.link].revision
    BY <1>4, ServeMoves
  <2>2. \A s \in States : TrueIn(s, server) => Later(s, request'.reply.state)
    BY <2>1, TrueIsEarlier DEF Grown
  <2>3. /\ pending_remote # None => pending_remote \in States
        /\ \A i \in DOMAIN sam_events : sam_events[i].state # None => sam_events[i].state \in States
    BY ReportOf, StateTypes DEF TypeOK
  <2> QED
    BY <2>1, <2>2, <2>3 DEF Chronology, AllTrue
<1>5. CASE ~Worker /\ ~HandleSamEvent /\ ~Commanded /\ ~Serve
  BY <1>5, OtherMoves DEF Chronology, HasReply
<1> QED
  BY <1>1, <1>2, <1>3, <1>4, <1>5

Told == AllTrue /\ Chronology /\ Cursor

LEMMA ToldInit == Init => Told
BY DEF Init, Told, AllTrue, Chronology, Cursor, HasReply, Ascending, Before

LEMMA ToldAlways == Spec => []Told
<1>1. TypeOK /\ Told /\ [Next]_vars => Told'
  BY TrueStep, ChronologyStep, CursorStep DEF Told
<1> QED
  BY <1>1, ToldInit, TypeCorrect, PTL DEF Spec

(* The answer to a sync is not older than a deferred snapshot of the same   *)
(* server run, so that dropping the snapshot loses nothing (app.py          *)
(* 1368-1372).                                                              *)
THEOREM DeferredIsSuperseded == Spec => []AckSupersedesDeferred
<1>1. TypeOK /\ Chronology => AckSupersedesDeferred
  <2> SUFFICES ASSUME TypeOK, Chronology, NEW i \in DOMAIN sam_events,
                      sam_events[i].source = "sync", sam_events[i].ok, pending_remote # None,
                      pending_remote.link = sam_events[i].state.link,
                      pending_remote.epoch = sam_events[i].state.epoch
               PROVE  sam_events[i].state.revision >= pending_remote.revision
    BY DEF AckSupersedesDeferred
  <2>1. sam_events[i] \in Reports
    BY ReportOf
  <2>2. sam_events[i].state # None
    BY <2>1 DEF Reports
  <2>3. sam_events[i].state.revision \in Nat /\ pending_remote.revision \in Nat
    BY <2>1, <2>2, StateTypes DEF TypeOK
  <2>4. Later(pending_remote, sam_events[i].state)
    BY <2>2 DEF Chronology, Before
  <2> QED
    BY <2>3, <2>4 DEF Later
<1> QED
  BY <1>1, ToldAlways, TypeCorrect, PTL DEF Told
----------------------------------------------------------------------------
(* The desktop keeps up with the cursor. *)

HasState(q) == \E i \in DOMAIN q : q[i].state # None

(* The last state reported in q is s. *)
EndsWith(q, s) == \E i \in DOMAIN q : /\ q[i].state = s
                                      /\ \A j \in DOMAIN q : i < j => q[j].state = None

LastIsSeen == HasState(sam_events) => seen # None /\ EndsWith(sam_events, seen)

(* A push is under way while its payload, request or outcome is.            *)
InflightHasCarrier == sam_sync_inflight => Carried

(* The desktop shows the state the cursor was taken from, will be told of a *)
(* state, or has a change of its own to push.                               *)
Mirrored ==
    link # None /\ seen # None
    => local = seen.value \/ sam_local_dirty \/ Carried \/ HasState(sam_events)

LEMMA StateAppended ==
    ASSUME NEW q \in Seq(Reports), NEW e \in Reports
    PROVE  /\ HasState(Append(q, e)) <=> HasState(q) \/ e.state # None
           /\ e.state # None => EndsWith(Append(q, e), e.state)
           /\ e.state = None => \A s : EndsWith(q, s) => EndsWith(Append(q, e), s)
<1> DEFINE r == Append(q, e)
           n == Len(q) + 1
<1>1. /\ \A i \in DOMAIN q : i \in Nat /\ i < n /\ i \in DOMAIN r /\ r[i] = q[i]
      /\ n \in DOMAIN r /\ r[n] = e /\ n \in Nat
      /\ \A i \in DOMAIN r : i \in Nat /\ (i \in DOMAIN q \/ i = n)
  BY ReportAppended
<1> HIDE DEF r, n
<1>2. HasState(r) <=> HasState(q) \/ e.state # None
  BY <1>1 DEF HasState
<1>3. ASSUME e.state # None PROVE EndsWith(r, e.state)
  <2>1. \A j \in DOMAIN r : ~(n < j)
    BY <1>1
  <2> QED
    BY <1>1, <2>1 DEF EndsWith
<1>4. ASSUME e.state = None, NEW s, EndsWith(q, s) PROVE EndsWith(r, s)
  <2>1. PICK i \in DOMAIN q : q[i].state = s /\ \A j \in DOMAIN q : i < j => q[j].state = None
    BY <1>4 DEF EndsWith
  <2>2. i \in DOMAIN r /\ r[i].state = s
    BY <1>1, <2>1
  <2>3. \A j \in DOMAIN r : i < j => r[j].state = None
    BY <1>1, <1>4, <2>1
  <2> QED
    BY <2>2, <2>3 DEF EndsWith
<1> QED
  BY <1>2, <1>3, <1>4 DEF r

LEMMA StateTailed ==
    ASSUME NEW q \in Seq(Reports), q # <<>>
    PROVE  /\ HasState(q) <=> Head(q).state # None \/ HasState(Tail(q))
           /\ \A s : EndsWith(q, s) /\ HasState(Tail(q)) => EndsWith(Tail(q), s)
           /\ \A s : EndsWith(q, s) /\ s # None /\ ~HasState(Tail(q)) => Head(q).state = s
<1> DEFINE t == Tail(q)
<1>1. /\ 1 \in DOMAIN q /\ Head(q) = q[1]
      /\ \A i \in DOMAIN t : i \in Nat /\ 1 < i + 1 /\ i + 1 \in DOMAIN q /\ t[i] = q[i + 1]
      /\ \A i \in DOMAIN q : i \in Nat /\ (i = 1 \/ (i - 1 \in DOMAIN t /\ t[i - 1] = q[i]))
  BY ReportTailed
<1> HIDE DEF t
<1>2. HasState(q) <=> Head(q).state # None \/ HasState(t)
  <2>1. ASSUME NEW i \in DOMAIN q, q[i].state # None
        PROVE  Head(q).state # None \/ HasState(t)
    BY <1>1, <2>1 DEF HasState
  <2>2. ASSUME NEW i \in DOMAIN t, t[i].state # None
        PROVE  HasState(q)
    BY <1>1, <2>2 DEF HasState
  <2> QED
    BY <1>1, <2>1, <2>2 DEF HasState
<1>3. ASSUME NEW s, EndsWith(q, s), HasState(t) PROVE EndsWith(t, s)
  <2>1. PICK i \in DOMAIN q : q[i].state = s /\ \A j \in DOMAIN q : i < j => q[j].state = None
    BY <1>3 DEF EndsWith
  <2>2. PICK k \in DOMAIN t : t[k].state # None
    BY <1>3 DEF HasState
  <2>3. i # 1
    BY <1>1, <2>1, <2>2
  <2>4. i - 1 \in DOMAIN t /\ t[i - 1].state = s
    BY <1>1, <2>1, <2>3
  <2>5. ASSUME NEW j \in DOMAIN t, i - 1 < j PROVE t[j].state = None
    <3>1. j + 1 \in DOMAIN q /\ t[j] = q[j + 1] /\ j \in Nat /\ i \in Nat
      BY <1>1
    <3>2. i < j + 1
      BY <2>5, <3>1
    <3> QED
      BY <2>1, <3>1, <3>2
  <2> QED
    BY <2>4, <2>5 DEF EndsWith
<1>4. ASSUME NEW s, EndsWith(q, s), s # None, ~HasState(t) PROVE Head(q).state = s
  <2>1. PICK i \in DOMAIN q : q[i].state = s
    BY <1>4 DEF EndsWith
  <2>2. ASSUME i # 1 PROVE FALSE
    <3>1. i - 1 \in DOMAIN t /\ t[i - 1].state = s
      BY <1>1, <2>1, <2>2
    <3> QED
      BY <1>4, <3>1 DEF HasState
  <2> QED
    BY <1>1, <2>1, <2>2
<1> QED
  BY <1>2, <1>3, <1>4 DEF t

LEMMA LastStep ==
    ASSUME TypeOK, LastIsSeen, [Next]_vars
    PROVE  LastIsSeen'
<1>q. sam_events \in Seq(Reports)
  BY DEF TypeOK
<1>1. CASE Worker
  <2>1. CASE UNCHANGED <<sam_events, seen>>
    BY <2>1 DEF LastIsSeen
  <2>2. CASE Mentions
    <3>1. PICK e \in Reports : e.state = None /\ sam_events' = Append(sam_events, e)
      BY <2>2 DEF Mentions
    <3>2. (HasState(sam_events') => HasState(sam_events)) /\ \A s : EndsWith(sam_events, s) => EndsWith(sam_events', s)
      BY <1>q, <3>1, StateAppended
    <3> QED
      BY <2>2, <3>2 DEF LastIsSeen, Mentions
  <2>3. CASE Tells
    <3>1. PICK e \in Reports : e.state = request.reply.state /\ sam_events' = Append(sam_events, e)
      BY <2>3 DEF Tells
    <3>2. request.reply.state # None /\ seen' = e.state
      BY <2>3, <3>1, RequestFields, StateTypes DEF Tells, HasReply
    <3>3. EndsWith(sam_events', e.state)
      BY <1>q, <3>1, <3>2, StateAppended
    <3> QED
      BY <3>1, <3>2, <3>3 DEF LastIsSeen
  <2> QED
    BY <1>1, <2>1, <2>2, <2>3, WorkerMoves DEF Asks, NothingNew
<1>2. CASE HandleSamEvent
  <2>1. sam_events # <<>> /\ sam_events' = Tail(sam_events) /\ seen' = seen
    BY <1>2, HandleMoves
  <2> QED
    BY <1>q, <2>1, StateTailed DEF LastIsSeen
<1>3. CASE ~Worker /\ ~HandleSamEvent
  <2>1. UNCHANGED <<sam_events, seen>>
    BY <1>3, CommandMoves, ServeMoves, OtherMoves
  <2> QED
    BY <2>1 DEF LastIsSeen
<1> QED
  BY <1>1, <1>2, <1>3

(* What carries a change is let go only for the answer to it. *)
LEMMA CarriedStep ==
    ASSUME TypeOK, FailedIsHeld, [Next]_vars, Carried
    PROVE  Carried' \/ (HandleSamEvent /\ Head(sam_events).source = "sync" /\ Head(sam_events).ok)
<1>c. /\ Carried <=> Held \/ HasSync(sam_events)
      /\ Carried' <=> Held' \/ HasSync(sam_events')
  BY DEF Carried, Held, SyncRequested, HasSync
<1>q. sam_events \in Seq(Reports)
  BY DEF TypeOK
<1>k. Held \/ HasSync(sam_events)
  BY <1>c
<1>1. CASE Worker
  <2>1. CASE UNCHANGED <<sam_events, latest>> /\ (SyncRequested => SyncRequested')
    BY <1>c, <1>k, <2>1 DEF Held
  <2>2. CASE sam_events' = sam_events /\ SyncRequested'
    BY <1>c, <2>2 DEF Held
  <2>3. CASE /\ \E e \in Reports : sam_events' = Append(sam_events, e) /\ e.source # "sync"
             /\ ~SyncRequested /\ latest' = latest
    BY <1>c, <1>k, <1>q, <2>3, AppendReport DEF Held
  <2>4. CASE \E e \in Reports : /\ sam_events' = Append(sam_events, e) /\ e.source = "sync"
                                /\ e.ok \/ latest' # None
    BY <1>c, <1>q, <2>4, AppendReport
  <2> QED
    BY <1>1, <2>1, <2>2, <2>3, <2>4, ReportStep
<1>2. CASE HandleSamEvent
  <2>1. sam_events # <<>> /\ sam_events' = Tail(sam_events) /\ UNCHANGED <<latest, request>>
    BY <1>2, HandleMoves
  <2>2. Held' <=> Held
    BY <2>1 DEF Held, SyncRequested
  <2> QED
    BY <1>2, <1>c, <1>k, <1>q, <2>1, <2>2, TailReport DEF FailedIsHeld
<1>3. CASE PushSamState
  <2>1. latest' \in Payloads
    BY <1>3 DEF PushSamState, QueueSync, Payloads, TypeOK
  <2> QED
    BY <1>c, <2>1, SyncAssumption DEF Held
<1>4. CASE Serve
  <2>1. UNCHANGED <<sam_events, latest>> /\ (SyncRequested => SyncRequested')
    BY <1>4, ServeType DEF Serve, clientVars, SyncRequested
  <2> QED
    BY <1>c, <1>k, <2>1 DEF Held
<1>5. CASE UNCHANGED <<sam_events, latest, request>>
  BY <1>5, <1>c, <1>k DEF Held, SyncRequested
<1> QED
  BY <1>1, <1>2, <1>3, <1>4, <1>5
     DEF Next, App, LocalEdit, SwitchLink, Ask, Sam, RemoteChange, Restart, vars, clientVars, loopVars

LEMMA PushCarries == TypeOK /\ PushSamState => Carried'
<1> SUFFICES ASSUME TypeOK, PushSamState PROVE Carried'
  OBVIOUS
<1>1. latest' \in Payloads
  BY DEF PushSamState, QueueSync, Payloads, TypeOK
<1> QED
  BY <1>1, SyncAssumption DEF Carried

LEMMA InflightStep ==
    ASSUME TypeOK, FailedIsHeld, InflightHasCarrier, [Next]_vars
    PROVE  InflightHasCarrier'
<1>1. CASE PushSamState
  BY <1>1, PushCarries DEF InflightHasCarrier
<1>2. CASE HandleSamEvent
  <2>1. CASE Head(sam_events).source = "sync" /\ Head(sam_events).ok
    <3>1. sam_sync_inflight' = FALSE
      BY <1>2, <2>1 DEF HandleSamEvent, HandleSynced, HandlePolled, HandlePulled, HandlePaired,
                        HandleUnlinked, StillInflight
    <3> QED
      BY <3>1 DEF InflightHasCarrier
  <2>2. CASE ~(Head(sam_events).source = "sync" /\ Head(sam_events).ok)
    <3>1. sam_sync_inflight' \in {sam_sync_inflight, FALSE}
      BY <1>2 DEF HandleSamEvent, HandleSynced, HandlePolled, HandlePulled, HandlePaired,
                  HandleUnlinked, StillInflight
    <3>2. sam_sync_inflight' => sam_sync_inflight
      BY <3>1
    <3> QED
      BY <2>2, <3>2, CarriedStep DEF InflightHasCarrier
  <2> QED
    BY <2>1, <2>2
<1>3. CASE ~PushSamState /\ ~HandleSamEvent
  <2>1. UNCHANGED sam_sync_inflight
    BY <1>3, WorkerMoves, ServeMoves, OtherMoves DEF Commanded, LocalEdit, SwitchLink, Ask, appVars
  <2> QED
    BY <1>3, <2>1, CarriedStep DEF InflightHasCarrier
<1> QED
  BY <1>1, <1>2, <1>3

LEMMA MirroredStep ==
    ASSUME TypeOK, FailedIsHeld, LastIsSeen, InflightHasCarrier, Mirrored, [Next]_vars
    PROVE  Mirrored'
<1>q. sam_events \in Seq(Reports)
  BY DEF TypeOK
<1> DEFINE event == Head(sam_events)
<1>1. CASE HandleSamEvent
  <2>1. sam_events # <<>> /\ sam_events' = Tail(sam_events) /\ seen' = seen
    BY <1>1, HandleMoves
  <2>2. HandleSynced(event) \/ HandlePolled(event) \/ HandlePulled(event) \/ HandlePaired(event)
        \/ HandleUnlinked(event)
    BY <1>1 DEF HandleSamEvent
  <2>3. HasState(sam_events) <=> event.state # None \/ HasState(sam_events')
    BY <1>q, <2>1, StateTailed
  <2>4. event.state # None /\ ~HasState(sam_events') => seen # None /\ event.state = seen
    <3>1. ASSUME event.state # None, ~HasState(sam_events')
          PROVE  seen # None /\ event.state = seen
      <4>1. seen # None /\ EndsWith(sam_events, seen)
        BY <2>3, <3>1 DEF LastIsSeen
      <4> QED
        BY <1>q, <2>1, <3>1, <4>1, StateTailed
    <3> QED
      BY <3>1
  <2>5. event \in Reports
    BY EventType, <2>1
  <2>6. (event.source = "sync" /\ event.ok) \/ (Carried => Carried')
    BY CarriedStep
  <2> HIDE DEF event
  <2>7. event.state = None <=> event.source = "unlink" \/ ~event.ok
    BY <2>5 DEF Reports
  <2>8. ASSUME local' = event.state.value, event.state # None
        PROVE  Mirrored'
    BY <2>1, <2>4, <2>8 DEF Mirrored
  <2>9. ASSUME UNCHANGED <<local, link, sam_local_dirty>>, Carried => Carried', event.state = None
        PROVE  Mirrored'
    BY <2>1, <2>3, <2>9 DEF Mirrored
  <2>10. CASE HandleSynced(event)
    <3>1. CASE event.ok
      BY <2>7, <2>8, <2>10, <3>1 DEF HandleSynced, ApplySamState
    <3>2. CASE ~event.ok
      BY <2>6, <2>7, <2>9, <2>10, <3>2 DEF HandleSynced
    <3> QED
      BY <3>1, <3>2
  <2>11. CASE HandlePolled(event)
    <3>1. event.source = "poll" /\ UNCHANGED <<sam_local_dirty, sam_sync_inflight>>
      BY <2>11 DEF HandlePolled
    <3>2. event.state # None
      <4>1. event.ok
        BY <2>5, <3>1 DEF Reports
      <4> QED
        BY <2>7, <3>1, <4>1
    <3>3. CASE MustDefer
      <4>1. sam_local_dirty' \/ Carried'
        BY <2>6, <3>1, <3>3 DEF MustDefer, InflightHasCarrier
      <4> QED
        BY <4>1 DEF Mirrored
    <3>4. CASE ~MustDefer
      BY <2>8, <2>11, <3>2, <3>4 DEF HandlePolled, ApplySamState
    <3> QED
      BY <3>3, <3>4
  <2>12. CASE HandlePulled(event) \/ HandlePaired(event)
    <3>1. event.state # None
      <4>1. event.source \in {"pull", "recovery", "pair"}
        BY <2>12 DEF HandlePulled, HandlePaired
      <4>2. event.ok
        BY <2>5, <4>1 DEF Reports
      <4> QED
        BY <2>7, <4>1, <4>2
    <3>2. local' = event.state.value
      BY <2>12 DEF HandlePulled, HandlePaired, ApplySamState
    <3> QED
      BY <2>8, <3>1, <3>2
  <2>13. CASE HandleUnlinked(event)
    BY <2>13 DEF HandleUnlinked, ResetCursor, Mirrored
  <2> QED
    BY <2>2, <2>10, <2>11, <2>12, <2>13
<1>2. CASE Worker /\ ~HandleSamEvent
  <2>1. UNCHANGED <<local, link, sam_local_dirty>> /\ (Carried => Carried')
    BY <1>2, WorkerMoves, CarriedStep
  <2>2. CASE UNCHANGED <<sam_events, seen>>
    BY <2>1, <2>2 DEF Mirrored
  <2>3. CASE Mentions
    <3>1. PICK e \in Reports : e.state = None /\ sam_events' = Append(sam_events, e)
      BY <2>3 DEF Mentions
    <3>2. (HasState(sam_events) => HasState(sam_events')) /\ seen' = seen
      BY <1>q, <2>3, <3>1, StateAppended DEF Mentions
    <3> QED
      BY <2>1, <3>2 DEF Mirrored
  <2>4. CASE Tells
    <3>1. PICK e \in Reports : e.state = request.reply.state /\ sam_events' = Append(sam_events, e)
      BY <2>4 DEF Tells
    <3>2. e.state # None
      BY <2>4, <3>1, RequestFields, StateTypes DEF Tells, HasReply
    <3>3. HasState(sam_events')
      BY <1>q, <3>1, <3>2, StateAppended
    <3> QED
      BY <3>3 DEF Mirrored
  <2> QED
    BY <1>2, <2>2, <2>3, <2>4, WorkerMoves DEF Asks, NothingNew
<1>3. CASE PushSamState
  BY <1>3, PushCarries DEF Mirrored
<1>4. CASE LocalEdit
  <2>1. link' # None => sam_local_dirty'
    BY <1>4 DEF LocalEdit
  <2> QED
    BY <2>1 DEF Mirrored
<1>5. ASSUME NEW l \in Links, SwitchLink(l), ~HandleSamEvent
      PROVE  Mirrored'
  <2>1. link # None /\ UNCHANGED <<local, seen, sam_local_dirty, sam_events>> /\ (Carried => Carried')
    BY <1>5, CarriedStep DEF SwitchLink
  <2> QED
    BY <2>1 DEF Mirrored
<1>6. CASE /\ UNCHANGED <<local, link, seen, sam_local_dirty, sam_events>>
           /\ ~HandleSamEvent
  <2>1. Carried => Carried'
    BY <1>6, CarriedStep
  <2> QED
    BY <1>6, <2>1 DEF Mirrored
<1>7. CASE Commanded /\ ~HandleSamEvent
  <2>1. ASSUME NEW kind, NEW l, Ask(kind, l)
        PROVE  Mirrored'
    BY <1>6, <1>7, <2>1 DEF Ask, appVars, ghostVars
  <2> QED
    BY <1>3, <1>4, <1>5, <1>7, <2>1 DEF Commanded
<1>8. CASE Serve /\ ~HandleSamEvent
  BY <1>6, <1>8, ServeMoves
<1>9. CASE ~Worker /\ ~HandleSamEvent /\ ~Commanded /\ ~Serve
  BY <1>6, <1>9, OtherMoves
<1> QED
  BY <1>1, <1>2, <1>7, <1>8, <1>9

(* The cursor never runs ahead of the desktop: when polls answer that       *)
(* nothing has changed, the desktop shows the server's state, will be told  *)
(* of it, or has a change of its own to push (app.py 1654-1658).            *)
THEOREM CursorNeverAhead == Spec => []NoStateSwallowed
<1> DEFINE I == FailedIsHeld /\ LastIsSeen /\ InflightHasCarrier /\ Mirrored
<1>1. Init => I
  BY DEF Init, FailedIsHeld, LastFails, LastIsSeen, HasState, InflightHasCarrier, Mirrored
<1>2. TypeOK /\ I /\ [Next]_vars => I'
  BY HeldStep, LastStep, InflightStep, MirroredStep
<1>3. TypeOK /\ Told /\ I => NoStateSwallowed
  <2> SUFFICES ASSUME TypeOK, Told, I, link # None, seen # None, last_revision = server[link].revision,
                      seen.link = link, seen.epoch = server[link].epoch,
                      local # server[link].value, ~sam_local_dirty, ~Carried
               PROVE  \E i \in DOMAIN sam_events :
                         sam_events[i].state # None /\ sam_events[i].state.revision = last_revision
    BY DEF NoStateSwallowed
  <2>0. server \in [Links -> [epoch : Nat, revision : Nat, value : Nat]] /\ link \in Links /\ seen \in States
    BY DEF TypeOK
  <2>1. last_revision \in Nat /\ last_revision # Unknown /\ seen \in States /\ seen.revision \in Nat
    <3>1. server[link].revision \in Nat
      BY <2>0
    <3> QED
      BY <2>0, <3>1, StateTypes DEF Unknown
  <2>2. last_revision <= seen.revision /\ seen.revision <= server[link].revision
    BY <2>1 DEF Told, Cursor, AllTrue, TrueIn
  <2>3. seen.revision = last_revision
    BY <2>1, <2>2
  <2>4. seen.value = server[link].value
    BY <2>3 DEF Told, AllTrue, TrueIn
  <2>5. HasState(sam_events)
    BY <2>4 DEF Mirrored
  <2>6. EndsWith(sam_events, seen)
    BY <2>5 DEF LastIsSeen
  <2> QED
    BY <2>3, <2>6 DEF EndsWith
<1> QED
  BY <1>1, <1>2, <1>3, ToldAlways, TypeCorrect, PTL DEF Spec
----------------------------------------------------------------------------
(* A fresh edit has the newest identity, and nobody has heard of it. *)

Known ==
    /\ local <= writes
    /\ latest # None => latest.value <= writes
    /\ request # None /\ request.payload # None => request.payload.value <= writes
    /\ HasReply => request.reply.state.value <= writes
    /\ \A i \in DOMAIN sam_events : sam_events[i].state # None => sam_events[i].state.value <= writes
    /\ \A l \in Links : server[l].value <= writes

Unheard ==
    fresh => /\ sam_local_dirty
             /\ HasReply => request.reply.state.value # local
             /\ \A i \in DOMAIN sam_events : sam_events[i].state # None => sam_events[i].state.value # local
             /\ \A l \in Links : server[l].value # local

(* The payloads of the worker are those that it was given. *)
LEMMA PayloadMoves ==
    ASSUME TypeOK, Worker
    PROVE  /\ latest' # None => latest' = latest \/ (request # None /\ latest' = request.payload)
           /\ request' # None /\ request'.payload # None =>
                 \/ latest # None /\ request'.payload = latest
                 \/ request # None /\ request'.payload = request.payload
<1>p. \A kind, l, payload : Post(kind, l, payload) => request'.payload = payload
  BY DEF Post
<1>1. CASE NoCommand \/ SkipPoll \/ CoolDown
  BY <1>1 DEF NoCommand, SkipPoll, CoolDown, clientVars, loopVars
<1>2. CASE TakeSync
  <2>1. request' = request \/ (latest # None /\ request'.payload = latest)
    BY <1>2, <1>p DEF TakeSync
  <2>2. latest' \in {latest, None} /\ request = None
    BY <1>2 DEF TakeSync
  <2> QED
    BY <2>1, <2>2
<1>3. CASE TakeCommand
  <2>1. request' = request \/ request'.payload = None
    BY <1>3, <1>p DEF TakeCommand, SendCommand, RefuseCommand
  <2> QED
    BY <1>3, <2>1 DEF TakeCommand
<1>4. CASE Poll
  BY <1>4 DEF Poll, clientVars
<1>5. CASE Receive
  <2>1. request # None /\ latest' = latest /\ request \in Requests
    BY <1>5, RequestFields DEF Receive
  <2>2. request' = None \/ request' = [request EXCEPT !.kind = "full", !.link = link, !.after = Unknown, !.reply = None]
    BY <1>5 DEF Receive, ReceiveSync, ReceivePull, ReceiveUnlink, ReceivePoll, ReceiveFull
  <2>3. request' = None \/ request'.payload = request.payload
    BY <2>1, <2>2 DEF Requests
  <2> QED
    BY <2>1, <2>3
<1>6. CASE Fail
  BY <1>6 DEF Fail, FailSync, FailPoll, FailOther, FailUnlink, Restored
<1> QED
  BY <1>1, <1>2, <1>3, <1>4, <1>5, <1>6 DEF Worker

(* The values on the server: the one of a sync it processed, or new ones. *)
Overrules(v) ==
    /\ request # None /\ request.payload # None /\ v = request.payload.value
    /\ writes' = writes /\ (fresh' => fresh /\ local # v)

LEMMA WriteValues ==
    ASSUME TypeOK, NEW l \in Links, NEW value, Write(l, value)
    PROVE  server'[l].value = value /\ \A k \in Links : k # l => server'[k].value = server[k].value
BY DEF Write, TypeOK

LEMMA ServeValues ==
    ASSUME TypeOK, Serve
    PROVE  /\ request'.payload = request.payload
           /\ (fresh' => fresh) /\ writes' \in {writes, writes + 1}
           /\ \A k \in Links : \/ server'[k].value = server[k].value
                               \/ Overrules(server'[k].value)
                               \/ server'[k].value = writes + 1 /\ writes' = writes + 1
<1>1. request \in Requests /\ request.link \in Links /\ request # None
  BY RequestFields DEF Serve
<1>2. ASSUME NEW reply, request' = [request EXCEPT !.reply = reply]
      PROVE  request'.payload = request.payload
  BY <1>1, <1>2 DEF Requests
<1>3. ASSUME NEW value, ServeWrite(value)
      PROVE  /\ request'.payload = request.payload
             /\ server'[request.link].value = value
             /\ \A k \in Links : k # request.link => server'[k].value = server[k].value
  BY <1>1, <1>2, <1>3, WriteValues DEF ServeWrite
<1>4. CASE ServeSync
  <2>1. request.payload # None
    BY <1>1, <1>4 DEF ServeSync, Requests
  <2>2. writes' = writes /\ fresh' = (fresh /\ local # request.payload.value)
    BY <1>4 DEF ServeSync
  <2>3. CASE ServeWrite(request.payload.value)
    BY <1>1, <1>3, <2>1, <2>2, <2>3 DEF Overrules
  <2>4. CASE ServeWrite(server[request.link].value)
    BY <1>3, <2>2, <2>4
  <2> QED
    BY <1>4, <2>3, <2>4 DEF ServeSync
<1>5. CASE ServeRecovery
  BY <1>3, <1>5 DEF ServeRecovery
<1>6. CASE ServeState
  BY <1>2, <1>6 DEF ServeState
<1> QED
  BY <1>4, <1>5, <1>6 DEF Serve

LEMMA OtherValues ==
    ASSUME TypeOK, [Next]_vars, ~Worker, ~HandleSamEvent, ~Commanded, ~Serve
    PROVE  /\ writes' \in {writes, writes + 1}
           /\ \A k \in Links : \/ server'[k].value = server[k].value
                               \/ server'[k].value = writes + 1 /\ writes' = writes + 1
<1>1. (\E l \in Links : RemoteChange(l) \/ Restart(l)) \/ UNCHANGED vars
  BY DEF Next, App, Sam, Commanded
<1>2. ASSUME NEW l \in Links, RemoteChange(l)
      PROVE  /\ writes' = writes + 1
             /\ \A k \in Links : server'[k].value = server[k].value \/ server'[k].value = writes + 1
  BY <1>2, WriteValues DEF RemoteChange
<1>3. ASSUME NEW l \in Links, Restart(l)
      PROVE  writes' = writes /\ \A k \in Links : server'[k].value = server[k].value
  BY <1>3 DEF Restart, TypeOK
<1>4. UNCHANGED vars => writes' = writes /\ server' = server
  BY DEF vars, envVars
<1> QED
  BY <1>1, <1>2, <1>3, <1>4

LEMMA ValueTypes ==
    ASSUME TypeOK
    PROVE  /\ local \in Nat /\ writes \in Nat
           /\ latest # None => latest.value \in Nat
           /\ request # None /\ request.payload # None => request.payload.value \in Nat
           /\ HasReply => request.reply.state.value \in Nat
           /\ \A i \in DOMAIN sam_events : sam_events[i].state # None => sam_events[i].state.value \in Nat
           /\ \A l \in Links : server[l].value \in Nat
<1>1. local \in Nat /\ writes \in Nat /\ \A l \in Links : server[l].value \in Nat
  BY DEF TypeOK
<1>2. latest # None => latest.value \in Nat
  BY DEF TypeOK, Payloads
<1>3. request # None /\ request.payload # None => request.payload.value \in Nat
  BY DEF TypeOK, Requests, Payloads
<1> QED
  BY <1>1, <1>2, <1>3, RequestFields, ReportOf, StateTypes DEF HasReply

(* What the desktop shows after a report is what it showed or was told. *)
LEMMA AppliedValue ==
    ASSUME TypeOK, HandleSamEvent
    PROVE  LET event == Head(sam_events)
           IN  /\ local' = local \/ (event.state # None /\ local' = event.state.value)
               /\ sam_local_dirty' = sam_local_dirty \/ (event.state # None /\ local' = event.state.value)
               /\ fresh' => fresh /\ local' = local
               /\ event.source = "poll" /\ local' # local => ~sam_local_dirty
<1> DEFINE event == Head(sam_events)
<1>1. HandleSynced(event) \/ HandlePolled(event) \/ HandlePulled(event) \/ HandlePaired(event)
      \/ HandleUnlinked(event)
  BY DEF HandleSamEvent
<1>2. event \in Reports
  BY EventType DEF HandleSamEvent
<1> HIDE DEF event
<1>3. event.source # "unlink" /\ event.ok => event.state # None
  BY <1>2 DEF Reports
<1>4. event.source # "sync" => event.ok
  BY <1>2 DEF Reports
<1>5. \/ UNCHANGED <<local, sam_local_dirty>> /\ (fresh' => fresh)
      \/ /\ event.state # None /\ local' = event.state.value /\ (fresh' => fresh /\ local' = local)
         /\ event.source = "poll" => ~sam_local_dirty
  <2>1. CASE HandleSynced(event)
    BY <1>3, <2>1 DEF HandleSynced, ApplySamState
  <2>2. CASE HandlePolled(event)
    <3>1. event.source = "poll" /\ event.state # None
      BY <1>3, <1>4, <2>2 DEF HandlePolled
    <3> QED
      BY <2>2, <3>1 DEF HandlePolled, ApplySamState, MustDefer
  <2>3. CASE HandlePulled(event)
    BY <1>3, <1>4, <2>3 DEF HandlePulled, ApplySamState
  <2>4. CASE HandlePaired(event)
    BY <1>3, <1>4, <2>4 DEF HandlePaired
  <2>5. CASE HandleUnlinked(event)
    BY <2>5 DEF HandleUnlinked, ResetCursor
  <2> QED
    BY <1>1, <2>1, <2>2, <2>3, <2>4, <2>5
<1> QED
  BY <1>5 DEF event

LEMMA AppendedReport ==
    ASSUME TypeOK, Worker
    PROVE  \A i \in DOMAIN sam_events' :
              \/ sam_events'[i].state = None
              \/ i \in DOMAIN sam_events /\ sam_events'[i] = sam_events[i]
              \/ HasReply /\ sam_events'[i].state = request.reply.state
<1>1. CASE sam_events' = sam_events
  BY <1>1
<1>2. CASE Mentions \/ Tells
  <2>1. PICK e \in Reports : /\ e.state = None \/ (HasReply /\ e.state = request.reply.state)
                             /\ sam_events' = Append(sam_events, e)
    BY <1>2 DEF Mentions, Tells
  <2>2. sam_events \in Seq(Reports)
    BY DEF TypeOK
  <2> QED
    BY <2>1, <2>2, ReportAppended
<1> QED
  BY <1>1, <1>2, WorkerMoves DEF Asks, NothingNew

LEMMA KnownStep ==
    ASSUME TypeOK, Known, [Next]_vars
    PROVE  Known'
<1>q. sam_events \in Seq(Reports)
  BY DEF TypeOK
<1>1. CASE Worker
  <2>1. UNCHANGED <<local, writes, server>>
    BY <1>1, WorkerMoves
  <2>2. (latest' # None => latest'.value <= writes)
        /\ (request' # None /\ request'.payload # None => request'.payload.value <= writes)
    <3>1. latest' # None => latest' = latest \/ (request # None /\ latest' = request.payload)
      BY <1>1, PayloadMoves
    <3>2. request' # None /\ request'.payload # None =>
                 \/ latest # None /\ request'.payload = latest
                 \/ request # None /\ request'.payload = request.payload
      BY <1>1, PayloadMoves
    <3> QED
      BY <3>1, <3>2 DEF Known
  <2>3. HasReply' => HasReply /\ request' = request
    BY <1>1, WorkerMoves DEF Asks, Mentions, NothingNew, Tells, HasReply
  <2>4. HasReply' => request'.reply.state.value <= writes
    BY <2>3 DEF Known
  <2>5. \A i \in DOMAIN sam_events' :
           \/ sam_events'[i].state = None
           \/ i \in DOMAIN sam_events /\ sam_events'[i] = sam_events[i]
           \/ HasReply /\ sam_events'[i].state = request.reply.state
    BY <1>1, AppendedReport
  <2>6. \A i \in DOMAIN sam_events' : sam_events'[i].state # None => sam_events'[i].state.value <= writes
    BY <2>5 DEF Known
  <2> QED
    BY <2>1, <2>2, <2>4, <2>6 DEF Known
<1>2. CASE HandleSamEvent
  <2>1. sam_events # <<>> /\ sam_events' = Tail(sam_events) /\ UNCHANGED <<request, server, writes, latest>>
    BY <1>2, HandleMoves
  <2>2. \A i \in DOMAIN sam_events' : \E j \in DOMAIN sam_events : sam_events'[i] = sam_events[j]
    BY <1>q, <2>1, ReportTailed
  <2>3. local' <= writes
    <3>1. local' = local \/ (Head(sam_events).state # None /\ local' = Head(sam_events).state.value)
      BY <1>2, AppliedValue
    <3>2. Head(sam_events) = sam_events[1] /\ 1 \in DOMAIN sam_events
      BY <1>q, <2>1, ReportTailed
    <3> QED
      BY <3>1, <3>2 DEF Known
  <2> QED
    BY <2>1, <2>2, <2>3 DEF Known, HasReply
<1>3. CASE Commanded
  <2>1. UNCHANGED <<sam_events, request, server>>
    BY <1>3, CommandMoves
  <2>2. /\ local' <= writes' /\ (latest' # None => latest'.value <= writes')
        /\ writes' \in {writes, writes + 1}
    <3>1. CASE LocalEdit
      <4>1. local' = writes + 1 /\ writes' = writes + 1 /\ latest' = latest
        BY <3>1 DEF LocalEdit, clientVars
      <4> QED
        BY <4>1, ValueTypes DEF Known
    <3>2. CASE PushSamState
      <4>1. /\ UNCHANGED <<local, writes>>
            /\ latest' = [seq |-> client_seq + 1, value |-> local, link |-> link]
        BY <3>2 DEF PushSamState, QueueSync, envVars
      <4> QED
        BY <4>1 DEF Known
    <3>3. CASE UNCHANGED <<local, writes, latest>>
      BY <3>3 DEF Known
    <3> QED
      BY <1>3, <3>1, <3>2, <3>3 DEF Commanded, SwitchLink, Ask, appVars, clientVars
  <2> QED
    BY <2>1, <2>2, ValueTypes DEF Known, HasReply
<1>4. CASE Serve
  <2>1. UNCHANGED <<local, latest, sam_events>>
    BY <1>4, ServeMoves
  <2>2. writes' \in {writes, writes + 1}
    BY <1>4, ServeValues
  <2>3. \A l \in Links : server'[l].value <= writes'
    BY <1>4, <2>2, ServeValues, ValueTypes DEF Known, Overrules
  <2>4. /\ request'.reply.state.value = server'[request.link].value /\ request.link \in Links
        /\ request # None /\ request'.payload = request.payload
    BY <1>4, ServeMoves, ServeValues, RequestFields
  <2> QED
    BY <2>1, <2>2, <2>3, <2>4, ValueTypes DEF Known
<1>5. CASE ~Worker /\ ~HandleSamEvent /\ ~Commanded /\ ~Serve
  BY <1>5, OtherMoves, OtherValues, ValueTypes DEF Known, HasReply
<1> QED
  BY <1>1, <1>2, <1>3, <1>4, <1>5

LEMMA UnheardStep ==
    ASSUME TypeOK, Known, Unheard, [Next]_vars
    PROVE  Unheard'
<1>q. sam_events \in Seq(Reports)
  BY DEF TypeOK
<1>n. \A n \in Nat : n <= writes => n # writes + 1
  BY DEF TypeOK
<1>1. CASE Worker
  <2>1. UNCHANGED <<local, server, fresh, sam_local_dirty>>
    BY <1>1, WorkerMoves
  <2>2. HasReply' => HasReply /\ request' = request
    BY <1>1, WorkerMoves DEF Asks, Mentions, NothingNew, Tells, HasReply
  <2>3. \A i \in DOMAIN sam_events' :
           \/ sam_events'[i].state = None
           \/ i \in DOMAIN sam_events /\ sam_events'[i] = sam_events[i]
           \/ HasReply /\ sam_events'[i].state = request.reply.state
    BY <1>1, AppendedReport
  <2> QED
    BY <2>1, <2>2, <2>3 DEF Unheard
<1>2. CASE HandleSamEvent
  <2>1. sam_events # <<>> /\ sam_events' = Tail(sam_events) /\ UNCHANGED <<request, server>>
    BY <1>2, HandleMoves
  <2>2. \A i \in DOMAIN sam_events' : \E j \in DOMAIN sam_events : sam_events'[i] = sam_events[j]
    BY <1>q, <2>1, ReportTailed
  <2>3. Head(sam_events) = sam_events[1] /\ 1 \in DOMAIN sam_events
    BY <1>q, <2>1, ReportTailed
  <2>4. ASSUME fresh'
        PROVE  fresh /\ local' = local /\ sam_local_dirty' = sam_local_dirty
    <3>1. fresh /\ local' = local
      BY <1>2, <2>4, AppliedValue
    <3>2. sam_local_dirty' = sam_local_dirty
          \/ (sam_events[1].state # None /\ local' = sam_events[1].state.value)
      BY <1>2, <2>3, AppliedValue
    <3>3. sam_events[1].state # None => sam_events[1].state.value # local
      BY <2>3, <3>1 DEF Unheard
    <3> QED
      BY <3>1, <3>2, <3>3
  <2> QED
    BY <2>1, <2>2, <2>4 DEF Unheard, HasReply
<1>3. CASE LocalEdit
  <2>1. local' = writes + 1 /\ UNCHANGED <<request, sam_events, server>>
        /\ (fresh' => sam_local_dirty' \/ (fresh /\ sam_local_dirty' = sam_local_dirty))
    BY <1>3 DEF LocalEdit, loopVars
  <2>2. /\ HasReply => request.reply.state.value # writes + 1
        /\ \A i \in DOMAIN sam_events : sam_events[i].state # None => sam_events[i].state.value # writes + 1
        /\ \A l \in Links : server[l].value # writes + 1
    BY <1>n, ValueTypes DEF Known
  <2> QED
    BY <2>1, <2>2 DEF Unheard, HasReply
<1>4. CASE Commanded /\ ~LocalEdit
  <2>1. UNCHANGED <<sam_events, request, server>>
    BY <1>4, CommandMoves
  <2>2. UNCHANGED <<local, sam_local_dirty>> /\ (fresh' => fresh)
    <3>1. CASE PushSamState
      BY <3>1 DEF PushSamState, ghostVars
    <3>2. ASSUME NEW l, SwitchLink(l)
          PROVE  UNCHANGED <<local, sam_local_dirty>> /\ (fresh' => fresh)
      BY <3>2 DEF SwitchLink, ResetCursor
    <3>3. ASSUME NEW kind, NEW l, Ask(kind, l)
          PROVE  UNCHANGED <<local, sam_local_dirty, fresh>>
      BY <3>3 DEF Ask, appVars, ghostVars
    <3> QED
      BY <1>4, <3>1, <3>2, <3>3 DEF Commanded
  <2> QED
    BY <2>1, <2>2 DEF Unheard, HasReply
<1>5. CASE Serve
  <2>1. UNCHANGED <<local, sam_local_dirty, sam_events>>
    BY <1>5, ServeMoves
  <2>2. ASSUME fresh', NEW k \in Links
        PROVE  server'[k].value # local
    <3>1. fresh
      BY <1>5, <2>2, ServeValues
    <3>2. CASE server'[k].value = server[k].value
      BY <3>1, <3>2 DEF Unheard
    <3>3. CASE Overrules(server'[k].value)
      BY <2>2, <3>3 DEF Overrules
    <3>4. CASE server'[k].value = writes + 1
      BY <1>n, <3>4, ValueTypes DEF Known
    <3> QED
      BY <1>5, <3>2, <3>3, <3>4, ServeValues
  <2>3. request'.reply.state.value = server'[request.link].value /\ request.link \in Links
    BY <1>5, ServeMoves, RequestFields
  <2> QED
    BY <1>5, <2>1, <2>2, <2>3, ServeValues DEF Unheard
<1>6. CASE ~Worker /\ ~HandleSamEvent /\ ~Commanded /\ ~Serve
  <2>1. UNCHANGED <<local, sam_local_dirty, sam_events, request, fresh>>
    BY <1>6, OtherMoves
  <2>2. ASSUME fresh, NEW k \in Links
        PROVE  server'[k].value # local
    <3>1. server[k].value # local /\ local # writes + 1
      BY <1>n, <2>2, ValueTypes DEF Unheard, Known
    <3> QED
      BY <1>6, <3>1, OtherValues
  <2> QED
    BY <2>1, <2>2 DEF Unheard, HasReply
<1> QED
  BY <1>1, <1>2, <1>3, <1>4, <1>5, <1>6

(* A polled state never overwrites a local change that no server has        *)
(* processed yet, however the poll and the change cross (app.py 1649-1664). *)
THEOREM PollsSpareEdits == Spec => PollSparesEdits
<1>1. Init => Known /\ Unheard
  BY DEF Init, Known, Unheard, HasReply
<1>2. TypeOK /\ Known /\ Unheard /\ [Next]_vars => Known' /\ Unheard'
  BY KnownStep, UnheardStep
<1>3. TypeOK /\ Unheard /\ [Next]_vars
      => [sam_events # <<>> /\ Head(sam_events).source = "poll" /\ local' # local /\ edits' = edits
          => ~fresh]_vars
  <2> SUFFICES ASSUME TypeOK, Unheard, [Next]_vars, Head(sam_events).source = "poll",
                      local' # local, edits' = edits
               PROVE  ~fresh
    OBVIOUS
  <2>1. CASE HandleSamEvent
    BY <2>1, AppliedValue DEF Unheard
  <2>2. CASE Commanded
    <3>1. edits \in Nat
      BY DEF TypeOK
    <3>2. ~LocalEdit
      BY <3>1 DEF LocalEdit
    <3> QED
      BY <2>2, <3>2 DEF Commanded, PushSamState, SwitchLink, Ask, appVars
  <2>3. CASE Worker \/ Serve
    BY <2>3, WorkerMoves, ServeMoves
  <2> QED
    BY <2>1, <2>2, <2>3, OtherMoves
<1> QED
  BY <1>1, <1>2, <1>3, TypeCorrect, PTL DEF Spec, PollSparesEdits
----------------------------------------------------------------------------
(* SamRegister implements SharedRegister, for one link and every bound: the *)
(* whole machinery of queue, worker, retries and polls is a register whose  *)
(* reads and writes keep their order.                                       *)

(* The server's revision counts the values it has held. *)
LogInv ==
    /\ log \in Seq(Nat) /\ Len(log) > 0
    /\ server[TheLink].revision = Len(log)
    /\ server[TheLink].value = log[Len(log)]

(* A state on its way to the desktop is one of the server's.                *)
Logged(state) == state.revision \in 1..Len(log) /\ state.value = log[state.revision]

(* States arrive in the order of the log, from what the desktop has read.   *)
AllLogged(q) == \A i \in DOMAIN q : q[i].state # None => Logged(q[i].state)
NotBefore(q, low) == \A i \in DOMAIN q : q[i].state # None => low <= q[i].state.revision
NotAfter(q, high) == \A i \in DOMAIN q : q[i].state # None => q[i].state.revision <= high
InOrder(q) ==
    \A i \in DOMAIN q : \A j \in DOMAIN q :
        i < j /\ q[i].state # None /\ q[j].state # None => q[i].state.revision <= q[j].state.revision

FlightInv ==
    /\ read \in 1..Len(log)
    /\ AllLogged(sam_events) /\ NotBefore(sam_events, read) /\ InOrder(sam_events)
    /\ request # None /\ request.reply # None =>
          /\ Logged(request.reply.state)
          /\ read <= request.reply.state.revision
          /\ NotAfter(sam_events, request.reply.state.revision)

(* A payload names a value the desktop has shown, not before the one the    *)
(* server was written with last.                                            *)
Pending(payload) ==
    /\ payload.seq \in 1..client_seq
    /\ shown[pushed[payload.seq]] = payload.value
    /\ sent <= pushed[payload.seq]

PushInv ==
    /\ shown \in Seq(Nat) /\ Len(shown) > 0 /\ shown[Len(shown)] = local
    /\ pushed \in Seq(Nat) /\ Len(pushed) = client_seq
    /\ \A n \in 1..client_seq : pushed[n] \in 1..Len(shown)
    /\ \A n \in 1..client_seq : \A k \in 1..client_seq : n <= k => pushed[n] <= pushed[k]
    /\ sent \in 1..Len(shown)
    /\ latest # None => Pending(latest)
    /\ SyncRequested => Pending(request.payload)
    /\ SyncRequested /\ latest # None => request.payload.seq <= latest.seq

RInv == TypeOK /\ LogInv /\ FlightInv /\ PushInv
----------------------------------------------------------------------------
LEMMA TheOnlyLink ==
    ASSUME OneLink
    PROVE  TheLink \in Links /\ Links = {TheLink} /\ ~(0 < MaxRestarts)
<1>1. PICK l \in Links : Links = {l}
  BY DEF OneLink
<1>2. \E k \in Links : TRUE
  BY <1>1
<1>3. TheLink \in Links
  BY <1>2, Zenon DEF TheLink
<1> QED
  BY <1>1, <1>3 DEF OneLink

LEMMA TakenCommand ==
    ASSUME TypeOK, TakeCommand
    PROVE  /\ request = None /\ latest' = latest
           /\ request' = request
              \/ \E kind \in {"pull", "pair", "unlink", "recovery"}, l \in Links : Post(kind, l, None)
           /\ sam_events' = sam_events \/ Emit("unlink", TRUE, None, 0)
<1> DEFINE command == Head(Requeued)
<1>1. command \in Commands /\ command.kind # "sync_latest"
      /\ (SendCommand(command) \/ RefuseCommand(command.kind))
  BY MarkerType DEF TakeCommand
<1> HIDE DEF command
<1>2. request = None /\ latest' = latest
  BY DEF TakeCommand
<1>3. CASE SendCommand(command)
  <2>1. \/ command.kind = "pair" /\ command.link \in Links /\ Post("pair", command.link, None)
        \/ command.kind \in {"pull", "unlink", "recovery"} /\ link \in Links /\ Post(command.kind, link, None)
    BY <1>1, <1>3 DEF SendCommand, Commands, Paired, TypeOK
  <2> QED
    BY <1>2, <1>3, <2>1 DEF SendCommand
<1>4. CASE RefuseCommand(command.kind)
  BY <1>2, <1>4 DEF RefuseCommand
<1> QED
  BY <1>1, <1>3, <1>4

(* What the worker puts into the queue has come with the reply, and it      *)
(* takes payloads in their order.                                           *)
LEMMA WorkerStates ==
    ASSUME TypeOK, Worker
    PROVE  /\ UNCHANGED <<local, server, client_seq>>
           /\ \/ sam_events' = sam_events
              \/ \E e \in Reports :
                    /\ sam_events' = Append(sam_events, e)
                    /\ e.state = None \/ (request # None /\ request.reply # None /\ e.state = request.reply.state)
           /\ request' # None => request'.reply = None \/ request' = request
<1>t. /\ request # None => request \in Requests
      /\ latest # None => latest \in Payloads /\ latest.seq \in Nat
  BY DEF TypeOK, Payloads
<1>1. CASE NoCommand \/ SkipPoll \/ CoolDown
  BY <1>1 DEF NoCommand, SkipPoll, CoolDown, appVars, loopVars
<1>2. CASE Poll
  BY <1>2 DEF Poll, appVars
<1>3. CASE TakeSync
  <2>1. UNCHANGED <<local, server, client_seq>>
    BY <1>3 DEF TakeSync, appVars
  <2>2. \/ UNCHANGED <<request, sam_events>>
        \/ latest # None /\ Emit("sync", FALSE, None, latest.seq) /\ UNCHANGED request
        \/ Post("sync", link, latest) /\ UNCHANGED sam_events
    BY <1>3 DEF TakeSync
  <2>3. latest # None => Report("sync", FALSE, None, latest.seq) \in Reports
    BY <1>t DEF Report, Reports
  <2>4. latest # None => Report("sync", FALSE, None, latest.seq).state = None
    BY DEF Report
  <2>5. Post("sync", link, latest) => request'.reply = None
    BY DEF Post
  <2> QED
    BY <2>1, <2>2, <2>3, <2>4, <2>5 DEF Emit
<1>4. CASE TakeCommand
  <2>1. UNCHANGED <<local, server, client_seq>>
    BY <1>4 DEF TakeCommand, appVars
  <2>2. /\ sam_events' = sam_events \/ Emit("unlink", TRUE, None, 0)
        /\ request' = request \/ request'.reply = None
    <3>1. \A kind, l : Post(kind, l, None) => request'.reply = None
      BY DEF Post
    <3> QED
      BY <1>4, <3>1, TakenCommand
  <2>3. Report("unlink", TRUE, None, 0) \in Reports /\ Report("unlink", TRUE, None, 0).state = None
    BY DEF Report, Reports
  <2> QED
    BY <2>1, <2>2, <2>3 DEF Emit
<1>5. CASE Receive
  <2>1. request # None /\ request.reply # None /\ request.reply.state \in States /\ request \in Requests
        /\ UNCHANGED <<local, server, client_seq>>
    BY <1>5, <1>t DEF Receive, Requests, Replies, appVars
  <2>2. request.kind = "sync" => request.payload.seq \in Nat
    BY <2>1 DEF Requests, Payloads
  <2>3. request' # None => request'.reply = None
    BY <1>5, <2>1 DEF Receive, ReceiveSync, ReceivePull, ReceiveUnlink, ReceivePoll, ReceiveFull, Requests
  <2>4. \/ sam_events' = sam_events
        \/ \E source \in {"sync", "poll", "pull", "pair", "recovery"}, seq \in Nat :
              Emit(source, TRUE, request.reply.state, seq)
        \/ Emit("unlink", TRUE, None, 0)
    BY <1>5, <2>2 DEF Receive, ReceiveSync, ReceivePull, ReceiveUnlink, ReceivePoll, ReceiveFull
  <2>5. Report("unlink", TRUE, None, 0) \in Reports /\ Report("unlink", TRUE, None, 0).state = None
    BY DEF Report, Reports
  <2>6. request.reply.state # None
    BY <2>1, SyncAssumption
  <2>7. \A source \in {"sync", "poll", "pull", "pair", "recovery"}, seq \in Nat :
           LET e == Report(source, TRUE, request.reply.state, seq)
           IN  e \in Reports /\ e.state = request.reply.state
    BY <2>1, <2>6 DEF Report, Reports
  <2> QED
    BY <2>1, <2>3, <2>4, <2>5, <2>7 DEF Emit
<1>6. CASE Fail
  <2>1. request' = None /\ UNCHANGED <<local, server, client_seq>>
    BY <1>6 DEF Fail, appVars
  <2>2. request.kind = "sync" => request.payload.seq \in Nat
    BY <1>6, <1>t DEF Fail, Requests, Payloads
  <2>3. \/ sam_events' = sam_events
        \/ \E seq \in Nat : Emit("sync", FALSE, None, seq)
        \/ Emit("unlink", TRUE, None, 0)
    BY <1>6, <2>2 DEF Fail, FailSync, FailPoll, FailOther, FailUnlink
  <2>4. Report("unlink", TRUE, None, 0) \in Reports /\ Report("unlink", TRUE, None, 0).state = None
    BY DEF Report, Reports
  <2>5. \A seq \in Nat : LET e == Report("sync", FALSE, None, seq) IN e \in Reports /\ e.state = None
    BY DEF Report, Reports
  <2> QED
    BY <2>1, <2>3, <2>4, <2>5 DEF Emit
<1> QED
  BY <1>1, <1>2, <1>3, <1>4, <1>5, <1>6 DEF Worker

LEMMA WorkerPayloads ==
    ASSUME TypeOK, Worker
    PROVE  /\ \/ latest' \in {latest, None}
              \/ SyncRequested /\ latest' = request.payload
           /\ SyncRequested' => \/ SyncRequested /\ request'.payload = request.payload /\ latest' = latest
                                \/ latest # None /\ request'.payload = latest /\ latest' = None
<1> USE DEF SyncRequested
<1>t. request # None => request \in Requests
  BY DEF TypeOK
<1>1. CASE NoCommand \/ SkipPoll \/ CoolDown
  BY <1>1 DEF NoCommand, SkipPoll, CoolDown, clientVars, loopVars
<1>2. CASE Poll
  BY <1>2 DEF Poll, clientVars
<1>3. CASE TakeSync
  <2>1. \/ UNCHANGED <<latest, request>>
        \/ latest # None /\ latest' = None /\ Post("sync", link, latest)
    BY <1>3 DEF TakeSync
  <2>2. request = None
    BY <1>3 DEF TakeSync
  <2>3. Post("sync", link, latest) => request'.payload = latest
    BY DEF Post
  <2> QED
    BY <2>1, <2>2, <2>3
<1>4. CASE TakeCommand
  <2>1. latest' = latest /\ request = None
    BY <1>4, TakenCommand
  <2>2. request' = request \/ request'.kind # "sync"
    BY <1>4, TakenCommand DEF Post
  <2> QED
    BY <2>1, <2>2
<1>5. CASE Receive
  <2>1. latest' = latest /\ request \in Requests
    BY <1>5, <1>t DEF Receive
  <2>2. request' = None \/ request'.kind = "full"
    BY <1>5, <2>1 DEF Receive, ReceiveSync, ReceivePull, ReceiveUnlink, ReceivePoll, ReceiveFull, Requests
  <2> QED
    BY <2>1, <2>2
<1>6. CASE Fail
  BY <1>6 DEF Fail, FailSync, FailPoll, FailOther, FailUnlink, Restored
<1> QED
  BY <1>1, <1>2, <1>3, <1>4, <1>5, <1>6 DEF Worker

(* A write to the server: the same value again, or the next in the log.     *)
LEMMA WriteStep ==
    ASSUME OneLink, TypeOK, LogInv, NEW value \in Nat, Write(TheLink, value),
           log' = IF server' = server THEN log ELSE Append(log, server'[TheLink].value)
    PROVE  /\ LogInv'
           /\ \/ UNCHANGED <<server, log>> /\ value = server[TheLink].value
              \/ server' # server /\ log' = Append(log, value)
           /\ server'[TheLink].value = value
<1>1. /\ server \in [Links -> [epoch : Nat, revision : Nat, value : Nat]] /\ TheLink \in Links
      /\ server[TheLink] \in [epoch : Nat, revision : Nat, value : Nat]
  BY TheOnlyLink DEF TypeOK
<1> DEFINE new == [epoch |-> server[TheLink].epoch,
                   revision |-> IF value = server[TheLink].value THEN server[TheLink].revision
                                ELSE server[TheLink].revision + 1,
                   value |-> value]
<1>2. server' = [server EXCEPT ![TheLink] = new]
  BY DEF Write
<1>3. server'[TheLink] = new
  BY <1>1, <1>2
<1>4. new.value = value /\ new.revision = IF value = server[TheLink].value THEN server[TheLink].revision
                                ELSE server[TheLink].revision + 1
  OBVIOUS
<1>5. CASE value = server[TheLink].value
  <2>1. new = server[TheLink]
    BY <1>1, <1>5
  <2> HIDE DEF new
  <2>2. server' = server
    BY <1>1, <1>2, <2>1
  <2> QED
    BY <1>5, <2>2 DEF LogInv
<1>6. CASE value # server[TheLink].value
  <2>1. server' # server /\ log' = Append(log, value)
    BY <1>3, <1>4, <1>6
  <2> HIDE DEF new
  <2>2. server'[TheLink].value = value /\ server'[TheLink].revision = Len(log) + 1
    BY <1>3, <1>4, <1>6 DEF LogInv
  <2>3. log' \in Seq(Nat) /\ Len(log') = Len(log) + 1 /\ log'[Len(log) + 1] = value /\ Len(log) \in Nat
    BY <2>1 DEF LogInv
  <2> QED
    BY <2>1, <2>2, <2>3 DEF LogInv
<1> QED
  BY <1>5, <1>6

LEMMA RewriteSame ==
    ASSUME OneLink, TypeOK, Write(TheLink, server[TheLink].value),
           log' = IF server' = server THEN log ELSE Append(log, server'[TheLink].value)
    PROVE  UNCHANGED <<server, log>>
<1>1. /\ server \in [Links -> [epoch : Nat, revision : Nat, value : Nat]] /\ TheLink \in Links
      /\ server[TheLink] \in [epoch : Nat, revision : Nat, value : Nat]
  BY TheOnlyLink DEF TypeOK
<1> DEFINE new == [epoch |-> server[TheLink].epoch, revision |-> server[TheLink].revision,
                   value |-> server[TheLink].value]
<1>2. server' = [server EXCEPT ![TheLink] = new]
  BY DEF Write
<1>3. new = server[TheLink]
  BY <1>1
<1> HIDE DEF new
<1>4. server' = server
  BY <1>1, <1>2, <1>3
<1> QED
  BY <1>4

LEMMA StateReply ==
    ASSUME OneLink, TypeOK, request \in Requests, request.link = TheLink, ServeState
    PROVE  /\ request'.payload = request.payload /\ request'.reply # None
           /\ request'.reply.state.revision = server[TheLink].revision
           /\ request'.reply.state.value = server[TheLink].value
<1> DEFINE reply == [changed |-> server[TheLink].revision > request.after, state |-> State(TheLink)]
<1>1. State(TheLink) \in States
  <2>1. /\ server[TheLink].epoch \in Nat /\ server[TheLink].revision \in Nat
        /\ server[TheLink].value \in Nat /\ TheLink \in Links
    BY TheOnlyLink DEF TypeOK
  <2> QED
    BY <2>1 DEF State, States
<1>2. reply \in Replies
  BY <1>1 DEF Replies
<1>3. reply.state.revision = server[TheLink].revision /\ reply.state.value = server[TheLink].value
  BY DEF State
<1>4. request' = [request EXCEPT !.reply = reply]
  BY DEF ServeState
<1> HIDE DEF reply
<1>5. request'.payload = request.payload /\ request'.reply = reply
  BY <1>4 DEF Requests
<1> QED
  BY <1>2, <1>3, <1>5, SyncAssumption

(* Serving a request: the reply names the log's last value, and only a      *)
(* sync writes a payload's value.                                           *)
LEMMA ServeStep ==
    ASSUME OneLink, TypeOK, LogInv, Serve, Record
    PROVE  /\ LogInv'
           /\ request # None /\ request' # request
           /\ request' # None /\ request'.kind = request.kind /\ request'.payload = request.payload
           /\ request'.reply # None
           /\ request'.reply.state.revision = Len(log') /\ request'.reply.state.value = log'[Len(log')]
           /\ UNCHANGED <<local, client_seq, latest, sam_events>>
           /\ \/ UNCHANGED <<server, log>>
              \/ \E value \in Nat : server' # server /\ log' = Append(log, value)
                                    /\ (SyncRequested => value = request.payload.value)
<1>1. /\ request \in Requests /\ request.reply = None /\ request.link = TheLink
      /\ request.kind = "sync" => request.payload.value \in Nat
  BY TheOnlyLink DEF Serve, TypeOK, Requests, Payloads
<1>2. /\ server \in [Links -> [epoch : Nat, revision : Nat, value : Nat]] /\ TheLink \in Links
      /\ server[TheLink].value \in Nat
  BY TheOnlyLink DEF TypeOK
<1>l. log' = IF server' = server THEN log ELSE Append(log, server'[TheLink].value)
  BY DEF Record
<1>w. ASSUME NEW value \in Nat, ServeWrite(value)
      PROVE  /\ LogInv' /\ request'.payload = request.payload /\ request'.reply # None
             /\ request'.reply.state.revision = Len(log') /\ request'.reply.state.value = log'[Len(log')]
             /\ \/ UNCHANGED <<server, log>> /\ value = server[TheLink].value
                \/ server' # server /\ log' = Append(log, value)
  <2>1. Write(TheLink, value)
    BY <1>1, <1>w DEF ServeWrite
  <2>2. /\ LogInv' /\ server'[TheLink].value = value
        /\ \/ UNCHANGED <<server, log>> /\ value = server[TheLink].value
           \/ server' # server /\ log' = Append(log, value)
    BY <1>l, <2>1, WriteStep
  <2> DEFINE state == [link |-> TheLink, epoch |-> server[TheLink].epoch,
                       revision |-> server'[TheLink].revision, value |-> value]
             reply == [changed |-> TRUE, state |-> state]
  <2>3. request' = [request EXCEPT !.reply = reply]
    BY <1>1, <1>w DEF ServeWrite
  <2>4. reply.state.revision = server'[TheLink].revision /\ reply.state.value = value
    OBVIOUS
  <2>5. reply \in Replies /\ reply # None
    <3>1. server'[TheLink].revision \in Nat
      BY <1>2, <2>1, WriteType
    <3>2. server[TheLink].epoch \in Nat
      BY <1>2
    <3>3. state \in States
      BY <1>2, <3>1, <3>2 DEF States
    <3> HIDE DEF state
    <3>4. reply \in Replies
      BY <3>3 DEF Replies
    <3> HIDE DEF reply
    <3> QED
      BY <3>4, SyncAssumption
  <2> HIDE DEF reply
  <2>6. request'.payload = request.payload /\ request'.reply = reply
    BY <1>1, <2>3 DEF Requests
  <2>7. server'[TheLink].revision = Len(log') /\ value = log'[Len(log')]
    BY <2>2 DEF LogInv
  <2> QED
    BY <2>2, <2>4, <2>5, <2>6, <2>7
<1>3. request' # request /\ request' # None /\ request'.kind = request.kind /\ request # None
      /\ UNCHANGED <<local, client_seq, latest, sam_events>>
  <2>1. request' # None /\ request'.kind = request.kind
    BY ServeType
  <2>2. request # None /\ UNCHANGED <<local, client_seq, latest, sam_events>>
    BY DEF Serve, appVars, clientVars
  <2>3. CASE request'.reply # None
    BY <1>1, <2>1, <2>2, <2>3
  <2>4. request'.reply # None
    <3>1. CASE ServeSync \/ ServeRecovery
      <4>1. writes + 1 \in Nat
        BY DEF TypeOK
      <4> QED
        BY <1>1, <1>2, <1>w, <3>1, <4>1 DEF ServeSync, ServeRecovery
    <3>2. CASE ServeState
      BY <1>1, <1>2, <3>2, StateReply
    <3> QED
      BY <3>1, <3>2 DEF Serve
  <2> QED
    BY <2>3, <2>4
<1>4. CASE ServeSync
  <2>1. PICK value \in Nat : ServeWrite(value) /\ value \in {request.payload.value, server[TheLink].value}
    BY <1>1, <1>2, <1>4 DEF ServeSync
  <2>2. value # request.payload.value => UNCHANGED <<server, log>>
    <3>1. Write(TheLink, value)
      BY <1>1, <2>1 DEF ServeWrite
    <3> QED
      BY <1>l, <2>1, <3>1, RewriteSame
  <2> QED
    BY <1>3, <1>w, <2>1, <2>2
<1>5. CASE ServeRecovery
  <2>1. writes + 1 \in Nat /\ ServeWrite(writes + 1) /\ ~SyncRequested
    BY <1>5 DEF ServeRecovery, SyncRequested, TypeOK
  <2> QED
    BY <1>3, <1>w, <2>1
<1>6. CASE ServeState
  <2>1. UNCHANGED server
    BY <1>6 DEF ServeState
  <2>2. UNCHANGED log /\ LogInv'
    BY <1>l, <2>1 DEF LogInv
  <2> QED
    BY <1>1, <1>2, <1>3, <1>6, <2>1, <2>2, StateReply DEF LogInv
<1> QED
  BY <1>4, <1>5, <1>6 DEF Serve
----------------------------------------------------------------------------
(* The remaining server step. *)
LEMMA RemoteStep ==
    ASSUME OneLink, TypeOK, LogInv, NEW l \in Links, RemoteChange(l) \/ Restart(l), Record
    PROVE  /\ LogInv'
           /\ UNCHANGED <<local, client_seq, latest, request, sam_events>>
           /\ \/ UNCHANGED <<server, log>>
              \/ server' # server /\ log' = Append(log, writes + 1)
<1>1. l = TheLink /\ ~Restart(l)
  <2>1. restarts \in Nat /\ MaxRestarts = 0
    BY DEF OneLink, TypeOK
  <2> QED
    BY <2>1, TheOnlyLink DEF Restart
<1>2. RemoteChange(TheLink)
  BY <1>1
<1>3. writes + 1 \in Nat /\ Write(TheLink, writes + 1)
  <2>1. writes + 1 \in Nat
    BY DEF TypeOK
  <2> QED
    BY <1>2, <2>1 DEF RemoteChange
<1>4. log' = IF server' = server THEN log ELSE Append(log, server'[TheLink].value)
  BY DEF Record
<1>5. UNCHANGED <<local, client_seq, latest, request, sam_events>>
  BY <1>2 DEF RemoteChange, appVars, clientVars, loopVars
<1> QED
  BY <1>3, <1>4, <1>5, WriteStep

(* Handling an event: it leaves the queue, and unless it is deferred or has *)
(* no state the desktop shows the value it brings.                          *)
LEMMA HandleStep ==
    ASSUME TypeOK, HandleSamEvent
    PROVE  /\ sam_events # <<>> /\ sam_events' = Tail(sam_events)
           /\ UNCHANGED <<server, client_seq, latest, request>>
           /\ local' = IF Applied THEN Head(sam_events).state.value ELSE local
<1> DEFINE event == Head(sam_events)
<1>1. sam_events # <<>> /\ sam_events' = Tail(sam_events) /\ UNCHANGED <<server, client_seq, latest, request>>
  BY DEF HandleSamEvent, loopVars
<1>2. event \in Reports
  BY EventType, <1>1
<1>3. Applied <=> event.state # None /\ (event.source = "poll" => ~MustDefer)
  BY <1>1 DEF Applied
<1>4. HandleSynced(event) \/ HandlePolled(event) \/ HandlePulled(event) \/ HandlePaired(event)
      \/ HandleUnlinked(event)
  BY DEF HandleSamEvent
<1> HIDE DEF event
<1>5. event.state = None <=> event.source = "unlink" \/ ~event.ok
  BY <1>2 DEF Reports
<1>6. event.ok \/ event.source = "sync"
  BY <1>2 DEF Reports
<1>7. local' = IF event.state # None /\ (event.source = "poll" => ~MustDefer) THEN event.state.value ELSE local
  BY <1>4, <1>5, <1>6 DEF HandleSynced, HandlePolled, HandlePulled, HandlePaired, HandleUnlinked, ApplySamState
<1> QED
  BY <1>1, <1>3, <1>7 DEF event

(* No other step of the program looks like one that applies an event. *)
LEMMA AppliedByHandler ==
    ASSUME TypeOK, Applied
    PROVE  /\ sam_events' # sam_events
           /\ \A e : sam_events' # Append(sam_events, e)
<1>1. sam_events \in Seq(Reports) /\ sam_events # <<>> /\ sam_events' = Tail(sam_events)
  BY DEF Applied, TypeOK
<1>2. Len(sam_events) \in Nat /\ Len(sam_events') = Len(sam_events) - 1
  BY <1>1
<1>3. \A e : Len(Append(sam_events, e)) = Len(sam_events) + 1
  BY <1>1
<1> QED
  BY <1>2, <1>3

(* A step other than handling an event does not read. *)
LEMMA ReadStep ==
    ASSUME TypeOK, Next, Record
    PROVE  HandleSamEvent \/ read' = read
<1>1. ASSUME ~HandleSamEvent
      PROVE  sam_events' = sam_events \/ \E e \in Reports : sam_events' = Append(sam_events, e)
  <2>1. CASE App \/ Sam
    BY <1>1, <2>1 DEF App, LocalEdit, PushSamState, SwitchLink, Ask, Sam, Serve, RemoteChange, Restart
  <2>2. CASE Worker
    BY <2>2, WorkerStates
  <2> QED
    BY <2>1, <2>2 DEF Next
<1> QED
  BY <1>1, AppliedByHandler DEF Record
----------------------------------------------------------------------------
LEMMA LogStep ==
    ASSUME OneLink, TypeOK, LogInv, Next, Record
    PROVE  LogInv'
<1>1. CASE UNCHANGED server
  BY <1>1 DEF Record, LogInv
<1>2. CASE Serve
  BY <1>2, ServeStep
<1>3. ASSUME NEW l \in Links, RemoteChange(l) \/ Restart(l)
      PROVE  LogInv'
  BY <1>3, RemoteStep
<1>4. CASE Worker
  BY <1>1, <1>4, WorkerStates
<1> QED
  BY <1>1, <1>2, <1>3, <1>4 DEF Next, App, LocalEdit, PushSamState, HandleSamEvent, SwitchLink, Ask, Sam

(* A longer log still has what it had. *)
LEMMA LogGrows ==
    ASSUME OneLink, TypeOK, LogInv, Next, Record
    PROVE  /\ Len(log) \in Nat /\ Len(log') \in Nat /\ Len(log) <= Len(log')
           /\ \A state : Logged(state) => Logged(state)'
<1>1. log' = log \/ \E value \in Nat : log' = Append(log, value)
  <2>1. CASE server' = server
    BY <2>1 DEF Record
  <2>2. CASE server' # server
    <3>1. log' = Append(log, server'[TheLink].value)
      BY <2>2 DEF Record
    <3>2. server'[TheLink].value \in Nat
      BY TypeStep, TheOnlyLink DEF TypeOK
    <3> QED
      BY <3>1, <3>2
  <2> QED
    BY <2>1, <2>2
<1>2. log \in Seq(Nat)
  BY DEF LogInv
<1>3. CASE log' = log
  BY <1>2, <1>3 DEF Logged
<1>4. ASSUME NEW value \in Nat, log' = Append(log, value)
      PROVE  /\ Len(log) \in Nat /\ Len(log') \in Nat /\ Len(log) <= Len(log')
             /\ \A state : Logged(state) => Logged(state)'
  <2>1. Len(log) \in Nat /\ Len(log') = Len(log) + 1 /\ \A n \in 1..Len(log) : log'[n] = log[n]
    BY <1>2, <1>4
  <2> QED
    BY <2>1 DEF Logged
<1> QED
  BY <1>1, <1>3, <1>4

LEMMA FlightStep ==
    ASSUME OneLink, TypeOK, LogInv, FlightInv, Next, Record
    PROVE  FlightInv'
<1> USE DEF FlightInv
<1>q. /\ sam_events \in Seq(Reports)
      /\ \A i \in DOMAIN sam_events : sam_events[i].state # None => sam_events[i].state.revision \in Nat
  BY DEF TypeOK, Reports, States
<1>g. /\ Len(log) \in Nat /\ Len(log') \in Nat /\ Len(log) <= Len(log')
      /\ \A state : Logged(state) => Logged(state)'
  BY LogGrows
<1>l. \A i \in DOMAIN sam_events : \A state : state = sam_events[i].state /\ state # None => Logged(state)'
  BY <1>g DEF AllLogged
<1>r. read \in 1..Len(log) /\ read \in 1..Len(log')
  BY <1>g
<1>1. CASE UNCHANGED <<sam_events, request, read>>
  <2>1. AllLogged(sam_events)' /\ NotBefore(sam_events, read)' /\ InOrder(sam_events)'
    BY <1>1, <1>l DEF AllLogged, NotBefore, InOrder
  <2>2. request' # None /\ request'.reply # None =>
          /\ Logged(request.reply.state)'
          /\ read' <= request'.reply.state.revision
          /\ NotAfter(sam_events, request.reply.state.revision)'
    BY <1>1, <1>g DEF NotAfter
  <2> QED
    BY <1>1, <1>r, <2>1, <2>2
<1>2. CASE Serve
  <2>1. /\ sam_events' = sam_events /\ read' = read
        /\ request'.reply.state.revision = Len(log') /\ request'.reply.state.value = log'[Len(log')]
    <3>1. ~HandleSamEvent
      BY <1>2, HandleStep, ServeStep
    <3> QED
      BY <1>2, <3>1, ReadStep, ServeStep
  <2>2. AllLogged(sam_events)' /\ NotBefore(sam_events, read)' /\ InOrder(sam_events)'
    BY <2>1, <1>l DEF AllLogged, NotBefore, InOrder
  <2>3. Len(log') \in 1..Len(log')
    BY <1>r, <1>g
  <2>4. Logged(request.reply.state)' /\ read' <= request'.reply.state.revision
    BY <1>r, <2>1, <2>3 DEF Logged
  <2>5. NotAfter(sam_events, request.reply.state.revision)'
    BY <1>g, <2>1 DEF NotAfter, AllLogged, Logged
  <2> QED
    BY <1>r, <2>1, <2>2, <2>4, <2>5
<1>3. CASE HandleSamEvent
  <2> DEFINE event == Head(sam_events)
  <2>1. /\ sam_events # <<>> /\ sam_events' = Tail(sam_events) /\ UNCHANGED <<request, server>>
        /\ read' = IF event.state # None /\ Applied THEN event.state.revision ELSE read
    BY <1>3, HandleStep DEF Record, Applied
  <2>2. log' = log
    BY <2>1 DEF Record
  <2>3. /\ 1 \in DOMAIN sam_events /\ event = sam_events[1]
        /\ \A i \in DOMAIN sam_events' : /\ i + 1 \in DOMAIN sam_events /\ sam_events'[i] = sam_events[i + 1]
                                         /\ i \in Nat \ {0}
    BY <1>q, <2>1
  <2> HIDE DEF event
  <2>4. AllLogged(sam_events)' /\ InOrder(sam_events)' /\ NotBefore(sam_events', read)
    BY <1>l, <2>3 DEF AllLogged, InOrder, NotBefore
  <2>5. event.state # None => NotBefore(sam_events', event.state.revision)
    BY <1>q, <2>3 DEF NotBefore, InOrder
  <2>6. event.state # None => event.state.revision \in 1..Len(log')
    BY <2>2, <2>3 DEF AllLogged, Logged
  <2>7. read' \in 1..Len(log') /\ NotBefore(sam_events', read')
    BY <1>r, <2>1, <2>4, <2>5, <2>6
  <2>8. request' # None /\ request'.reply # None =>
          /\ Logged(request.reply.state)'
          /\ read' <= request'.reply.state.revision
          /\ NotAfter(sam_events, request.reply.state.revision)'
    BY <1>g, <2>1, <2>3 DEF NotAfter
  <2> QED
    BY <2>4, <2>7, <2>8 DEF NotBefore
<1>4. CASE Worker
  <2>1. /\ read' = read /\ log' = log
    <3>1. ~Applied /\ server' = server
      BY <1>4, WorkerStates, AppliedByHandler
    <3> QED
      BY <3>1 DEF Record
  <2>2. request' # None => request'.reply = None \/ request' = request
    BY <1>4, WorkerStates
  <2>3. CASE sam_events' = sam_events
    <3>1. AllLogged(sam_events)' /\ NotBefore(sam_events, read)' /\ InOrder(sam_events)'
      BY <1>l, <2>1, <2>3 DEF AllLogged, NotBefore, InOrder
    <3>2. request' # None /\ request'.reply # None =>
            /\ Logged(request.reply.state)'
            /\ read' <= request'.reply.state.revision
            /\ NotAfter(sam_events, request.reply.state.revision)'
      BY <1>g, <2>1, <2>2, <2>3 DEF NotAfter
    <3> QED
      BY <1>r, <2>1, <3>1, <3>2
  <2>4. ASSUME NEW e \in Reports, sam_events' = Append(sam_events, e),
               e.state = None \/ (request # None /\ request.reply # None /\ e.state = request.reply.state)
        PROVE  FlightInv'
    <3>1. /\ Len(sam_events) \in Nat /\ DOMAIN sam_events = 1..Len(sam_events)
          /\ DOMAIN sam_events' = 1..(Len(sam_events) + 1)
          /\ sam_events'[Len(sam_events) + 1] = e
          /\ \A i \in DOMAIN sam_events : sam_events'[i] = sam_events[i]
      BY <1>q, <2>4
    <3>2. e.state # None => /\ Logged(e.state)' /\ read <= e.state.revision
                            /\ NotAfter(sam_events, e.state.revision)
                            /\ e.state.revision \in Nat
      <4>1. e.state # None => e.state.revision \in Nat
        BY DEF Reports, States
      <4> QED
        BY <1>g, <2>4, <4>1
    <3>3. AllLogged(sam_events)'
      BY <1>l, <3>1, <3>2 DEF AllLogged
    <3>4. NotBefore(sam_events, read)'
      BY <2>1, <3>1, <3>2 DEF NotBefore
    <3>5. InOrder(sam_events)'
      BY <3>1, <3>2 DEF InOrder, NotAfter
    <3>6. request' # None /\ request'.reply # None =>
            /\ Logged(request.reply.state)'
            /\ read' <= request'.reply.state.revision
            /\ NotAfter(sam_events, request.reply.state.revision)'
      <4> SUFFICES ASSUME request' # None, request'.reply # None
                   PROVE  /\ Logged(request.reply.state)'
                          /\ read' <= request'.reply.state.revision
                          /\ NotAfter(sam_events, request.reply.state.revision)'
        OBVIOUS
      <4>1. request' = request /\ request # None /\ request.reply # None
        BY <2>2
      <4>2. Logged(request.reply.state)' /\ read' <= request'.reply.state.revision
        BY <1>g, <2>1, <4>1
      <4>3. NotAfter(sam_events, request.reply.state.revision) /\ request.reply.state.revision \in Nat
        BY <1>g, <4>1 DEF Logged
      <4>4. NotAfter(sam_events, request.reply.state.revision)'
        BY <2>4, <3>1, <4>1, <4>3 DEF NotAfter
      <4> QED
        BY <4>2, <4>4
    <3> QED
      BY <1>r, <2>1, <3>3, <3>4, <3>5, <3>6
  <2> QED
    BY <1>4, <2>3, <2>4, WorkerStates
<1>5. ASSUME NEW l \in Links, RemoteChange(l) \/ Restart(l)
      PROVE  FlightInv'
  <2>1. UNCHANGED <<sam_events, request>>
    BY <1>5, RemoteStep
  <2>2. read' = read
    BY <2>1, AppliedByHandler DEF Record
  <2> QED
    BY <1>1, <2>1, <2>2
<1>6. CASE LocalEdit \/ PushSamState \/ (\E l \in Links : SwitchLink(l)) \/ (\E kind, l : Ask(kind, l))
  <2>1. UNCHANGED <<sam_events, request>>
    BY <1>6 DEF LocalEdit, PushSamState, SwitchLink, Ask, loopVars
  <2>2. read' = read
    BY <2>1, AppliedByHandler DEF Record
  <2> QED
    BY <1>1, <2>1, <2>2
<1> QED
  BY <1>2, <1>3, <1>4, <1>5, <1>6 DEF Next, App, Sam
----------------------------------------------------------------------------
(* What the desktop has shown keeps its place when it shows more. *)
LEMMA ShownGrows ==
    ASSUME TypeOK, PushInv, Next, Record
    PROVE  /\ shown' \in Seq(Nat) /\ Len(shown') > 0 /\ shown'[Len(shown')] = local'
           /\ Len(shown) \in Nat /\ Len(shown') \in Nat /\ Len(shown) <= Len(shown')
           /\ \A n \in 1..Len(shown) : shown'[n] = shown[n]
<1>1. shown \in Seq(Nat) /\ Len(shown) > 0 /\ shown[Len(shown)] = local
  BY DEF PushInv
<1>2. local' \in Nat
  BY TypeStep DEF TypeOK
<1>3. shown' = IF local' = local THEN shown ELSE Append(shown, local')
  BY DEF Record
<1>4. CASE local' = local
  BY <1>1, <1>3, <1>4
<1>5. CASE local' # local
  BY <1>1, <1>2, <1>3, <1>5
<1> QED
  BY <1>4, <1>5

LEMMA PushStep ==
    ASSUME OneLink, TypeOK, LogInv, PushInv, Next, Record
    PROVE  PushInv'
<1> USE DEF PushInv
<1>s. /\ shown' \in Seq(Nat) /\ Len(shown') > 0 /\ shown'[Len(shown')] = local'
      /\ Len(shown) \in Nat /\ Len(shown') \in Nat /\ Len(shown) <= Len(shown')
      /\ \A n \in 1..Len(shown) : shown'[n] = shown[n]
  BY ShownGrows
<1>t. /\ client_seq \in Nat /\ latest \in Payloads \cup {None} /\ request \in Requests \cup {None}
      /\ pushed \in Seq(Nat) /\ Len(pushed) = client_seq
  BY DEF TypeOK
<1>p. ASSUME NEW payload, Pending(payload), UNCHANGED <<client_seq, pushed, sent>>
      PROVE  Pending(payload)'
  BY <1>p, <1>s DEF Pending
<1>m. ASSUME UNCHANGED <<client_seq, pushed, sent>>
      PROVE  /\ pushed' \in Seq(Nat) /\ Len(pushed') = client_seq'
             /\ \A n \in 1..client_seq' : pushed'[n] \in 1..Len(shown')
             /\ \A n \in 1..client_seq' : \A k \in 1..client_seq' : n <= k => pushed'[n] <= pushed'[k]
             /\ sent' \in 1..Len(shown')
  <2>1. \A i \in 1..Len(shown) : i \in 1..Len(shown')
    BY <1>s
  <2>2. \A n \in 1..client_seq : pushed[n] \in 1..Len(shown')
    BY <2>1
  <2>3. sent \in 1..Len(shown')
    BY <2>1
  <2> QED
    BY <1>m, <1>t, <2>2, <2>3
<1>1. ASSUME UNCHANGED <<client_seq, sent, latest, request>>
      PROVE  PushInv'
  <2>1. pushed' = pushed
    BY <1>1 DEF Record
  <2>2. latest' # None => Pending(latest)'
    BY <1>1, <1>p, <2>1
  <2>3. SyncRequested' => Pending(request.payload)'
    BY <1>1, <1>p, <2>1 DEF SyncRequested
  <2>4. SyncRequested' /\ latest' # None => request'.payload.seq <= latest'.seq
    BY <1>1 DEF SyncRequested
  <2> QED
    BY <1>1, <1>m, <1>s, <2>1, <2>2, <2>3, <2>4
<1>a. ASSUME request' = request \/ server' = server \/ ~SyncRequested
      PROVE  sent' = sent
  BY <1>a DEF Record, SyncServed, SyncRequested
<1>2. CASE PushSamState
  <2> DEFINE payload == [seq |-> client_seq + 1, value |-> local, link |-> link]
  <2>1. /\ client_seq' = client_seq + 1 /\ latest' = payload
        /\ UNCHANGED <<local, request, server>>
    BY <1>2 DEF PushSamState, QueueSync
  <2>2. payload.seq = client_seq + 1 /\ payload.value = local
    OBVIOUS
  <2> HIDE DEF payload
  <2>3. pushed' = Append(pushed, Len(shown)) /\ shown' = shown /\ sent' = sent
    BY <1>a, <1>t, <2>1 DEF Record
  <2>4. /\ pushed' \in Seq(Nat) /\ Len(pushed') = client_seq + 1 /\ pushed'[client_seq + 1] = Len(shown)
        /\ \A n \in 1..client_seq : pushed'[n] = pushed[n]
    BY <1>s, <1>t, <2>3
  <2>5. /\ \A n \in 1..(client_seq + 1) : pushed'[n] \in 1..Len(shown)
        /\ \A n \in 1..(client_seq + 1) : \A k \in 1..(client_seq + 1) : n <= k => pushed'[n] <= pushed'[k]
    <3>0. client_seq \in Nat
      BY <1>t
    <3>1. \A n \in 1..(client_seq + 1) : n \in 1..client_seq \/ n = client_seq + 1
      BY <3>0
    <3>2. Len(shown) \in 1..Len(shown)
      BY <1>s
    <3>3. \A n \in 1..(client_seq + 1) : pushed'[n] \in 1..Len(shown)
      <4>1. \A n \in 1..client_seq : pushed'[n] \in 1..Len(shown)
        BY <2>4
      <4>2. pushed'[client_seq + 1] \in 1..Len(shown)
        BY <2>4, <3>2
      <4> QED
        BY <3>1, <4>1, <4>2, Zenon
    <3>4. ASSUME NEW n \in 1..(client_seq + 1), NEW k \in 1..(client_seq + 1), n <= k
          PROVE  pushed'[n] <= pushed'[k]
      <4>1. CASE k = client_seq + 1
        BY <1>s, <2>4, <3>3, <4>1
      <4>2. CASE k # client_seq + 1
        <5>1. n \in 1..client_seq /\ k \in 1..client_seq
          BY <3>0, <3>4, <4>2, SMT
        <5> QED
          BY <2>4, <3>4, <5>1
      <4> QED
        BY <4>1, <4>2
    <3> QED
      BY <3>3, <3>4
  <2>6. Pending(latest)'
    BY <1>s, <1>t, <2>1, <2>2, <2>3, <2>4 DEF Pending
  <2>7. SyncRequested' => Pending(request.payload)' /\ request'.payload.seq <= latest'.seq
    <3>1. SUFFICES ASSUME SyncRequested'
                   PROVE  Pending(request.payload)' /\ request'.payload.seq <= latest'.seq
      OBVIOUS
    <3>2. SyncRequested /\ request' = request
      BY <2>1, <3>1 DEF SyncRequested
    <3> DEFINE seq == request.payload.seq
    <3>3. /\ seq \in 1..client_seq /\ shown[pushed[seq]] = request.payload.value
          /\ sent <= pushed[seq]
      BY <3>2 DEF Pending
    <3>4. seq \in 1..(client_seq + 1) /\ seq <= client_seq + 1 /\ pushed'[seq] = pushed[seq]
      <4>1. seq \in 1..(client_seq + 1) /\ seq <= client_seq + 1
        BY <1>t, <3>3
      <4> QED
        BY <2>4, <3>3, <4>1
    <3>5. Pending(request.payload)'
      BY <2>1, <2>3, <3>2, <3>3, <3>4 DEF Pending
    <3> QED
      BY <2>1, <2>2, <3>2, <3>4, <3>5
  <2> QED
    BY <1>s, <2>1, <2>3, <2>4, <2>5, <2>6, <2>7
<1>3. CASE Worker
  <2>1. UNCHANGED <<client_seq, sent>> /\ pushed' = pushed
    BY <1>3, <1>a, WorkerStates DEF Record
  <2>2. \A payload : Pending(payload) => Pending(payload)'
    BY <1>p, <2>1
  <2>3. latest' # None => Pending(latest)'
    BY <1>3, <2>2, WorkerPayloads
  <2>4. SyncRequested' => Pending(request.payload)'
    BY <1>3, <2>2, WorkerPayloads
  <2>5. SyncRequested' /\ latest' # None => request'.payload.seq <= latest'.seq
    BY <1>3, WorkerPayloads
  <2> QED
    BY <1>m, <1>s, <2>1, <2>3, <2>4, <2>5
<1>4. CASE Serve
  <2>1. /\ UNCHANGED <<local, client_seq, latest>> /\ request' # request /\ request # None /\ request' # None
        /\ request'.kind = request.kind /\ request'.payload = request.payload
    BY <1>4, ServeStep
  <2>2. pushed' = pushed /\ shown' = shown /\ SyncRequested' = SyncRequested
    BY <2>1 DEF Record, SyncRequested
  <2>3. sent' = sent \/ (SyncRequested /\ sent' = pushed[request.payload.seq])
    <3>1. SyncServed => SyncRequested
      BY DEF SyncServed, SyncRequested
    <3>2. sent' = IF SyncServed /\ server' # server THEN pushed[request.payload.seq] ELSE sent
      BY DEF Record
    <3> QED
      BY <3>1, <3>2
  <2>4. CASE sent' = sent
    <3>1. latest' # None => Pending(latest)'
      BY <1>p, <2>1, <2>2, <2>4
    <3>2. SyncRequested' => Pending(request.payload)'
      BY <1>p, <2>1, <2>2, <2>4
    <3> QED
      BY <1>m, <1>s, <2>1, <2>2, <2>4, <3>1, <3>2
  <2>5. CASE SyncRequested /\ sent' = pushed[request.payload.seq]
    <3>1. Pending(request.payload) /\ request.payload.seq \in 1..client_seq
          /\ pushed[request.payload.seq] \in 1..Len(shown)
      BY <2>5 DEF Pending
    <3>2. Pending(request.payload)'
      BY <1>t, <2>1, <2>2, <2>5, <3>1 DEF Pending
    <3>3. latest # None => /\ latest.seq \in 1..client_seq /\ request.payload.seq <= latest.seq
                           /\ pushed[request.payload.seq] <= pushed[latest.seq]
      BY <2>5, <3>1 DEF Pending
    <3>4. latest' # None => Pending(latest)'
      BY <2>1, <2>2, <2>5, <3>3 DEF Pending
    <3> QED
      BY <1>s, <1>t, <2>1, <2>2, <2>5, <3>1, <3>2, <3>3, <3>4
  <2> QED
    BY <2>3, <2>4, <2>5
<1>5. CASE LocalEdit \/ HandleSamEvent \/ (\E l \in Links : SwitchLink(l)) \/ (\E kind, l : Ask(kind, l))
  <2>1. UNCHANGED <<client_seq, latest, request>>
    BY <1>5 DEF LocalEdit, HandleSamEvent, SwitchLink, Ask, appVars, clientVars, loopVars
  <2> QED
    BY <1>1, <1>a, <2>1
<1>6. ASSUME NEW l \in Links, RemoteChange(l) \/ Restart(l)
      PROVE  PushInv'
  <2>1. UNCHANGED <<client_seq, latest, request>>
    BY <1>6, RemoteStep
  <2> QED
    BY <1>1, <1>a, <2>1
<1> QED
  BY <1>2, <1>3, <1>4, <1>5, <1>6 DEF Next, App, Sam
----------------------------------------------------------------------------
LEMMA RegisterInit ==
    ASSUME OneLink
    PROVE  Init /\ HistoryInit => RInv
<1> SUFFICES ASSUME Init, HistoryInit PROVE RInv
  OBVIOUS
<1>1. TypeOK
  BY InitType
<1>2. log = <<0>> /\ shown = <<0>> /\ pushed = <<>> /\ sent = 1 /\ read = 1
  BY DEF HistoryInit
<1>3. log \in Seq(Nat) /\ Len(log) = 1 /\ log[1] = 0 /\ shown \in Seq(Nat) /\ Len(shown) = 1 /\ shown[1] = 0
      /\ pushed \in Seq(Nat) /\ Len(pushed) = 0
  BY <1>2
<1>4. LogInv
  <2>1. server[TheLink].revision = 1 /\ server[TheLink].value = 0
    BY TheOnlyLink DEF Init
  <2> QED
    BY <1>3, <2>1 DEF LogInv
<1>5. FlightInv
  BY <1>2, <1>3 DEF Init, FlightInv, AllLogged, NotBefore, InOrder
<1>6. PushInv
  BY <1>2, <1>3 DEF Init, PushInv, SyncRequested
<1> QED
  BY <1>1, <1>4, <1>5, <1>6 DEF RInv

LEMMA RegisterInvariance ==
    ASSUME OneLink
    PROVE  RegisterSpec => []RInv
<1>1. RInv /\ [Next /\ Record]_allVars => RInv'
  <2> SUFFICES ASSUME RInv, [Next /\ Record]_allVars PROVE RInv'
    OBVIOUS
  <2>1. CASE Next /\ Record
    BY <2>1, TypeStep, LogStep, FlightStep, PushStep DEF RInv
  <2>2. CASE UNCHANGED allVars
    BY <2>2 DEF allVars, historyVars, vars, appVars, clientVars, loopVars, envVars, ghostVars, RInv, TypeOK, LogInv,
       FlightInv, PushInv, AllLogged, NotBefore, NotAfter, InOrder, Logged, Pending, SyncRequested
  <2> QED
    BY <2>1, <2>2
<1> QED
  BY RegisterInit, <1>1, PTL DEF RegisterSpec

(* Every step of the program is a step of the register or none of its own. *)
LEMMA StepImplements ==
    ASSUME OneLink, RInv, Next, Record
    PROVE  [Register!Next]_(Register!vars)
<1> USE DEF RInv
<1>v. \A value : Register!Show(value) <=> local' = value /\ shown' = (IF value = local THEN shown ELSE Append(shown, value))
  BY DEF Register!Show
<1>r. shown' = IF local' = local THEN shown ELSE Append(shown, local')
  BY DEF Record
<1>i. RInv'
  BY TypeStep, LogStep, FlightStep, PushStep
<1>e. UNCHANGED <<local, sent, log, read>> => UNCHANGED Register!vars
  BY <1>r DEF Register!vars
<1>a. request' = request \/ server' = server \/ ~SyncRequested => sent' = sent
  BY DEF Record, SyncServed, SyncRequested
<1>n. sam_events' = sam_events => read' = read
  BY AppliedByHandler DEF Record
<1>c. ASSUME NEW value \in Nat, log' = Append(log, value), UNCHANGED <<local, sent, read>>
      PROVE  Register!Next
  <2>1. log \in Seq(Nat)
    BY DEF LogInv
  <2>2. log' # <<>> /\ log'[Len(log')] = value
    BY <1>c, <2>1
  <2>3. Register!Change
    BY <1>c, <1>r, <2>2 DEF Register!Change
  <2> QED
    BY <2>3 DEF Register!Next
<1>1. CASE LocalEdit
  <2>1. local' \in Nat
    BY <1>i DEF TypeOK
  <2>2. UNCHANGED <<request, server, sam_events>>
    BY <1>1 DEF LocalEdit, loopVars
  <2>3. UNCHANGED <<sent, log, read>>
    BY <1>a, <1>n, <2>2 DEF Record
  <2>4. Register!Edit
    BY <1>r, <1>v, <2>1, <2>3 DEF Register!Edit
  <2> QED
    BY <2>4 DEF Register!Next
<1>2. CASE PushSamState \/ (\E l \in Links : SwitchLink(l)) \/ (\E kind, l : Ask(kind, l))
  <2>1. UNCHANGED <<local, request, server, sam_events>>
    BY <1>2 DEF PushSamState, SwitchLink, Ask, appVars, loopVars
  <2>2. UNCHANGED <<sent, log, read>>
    BY <1>a, <1>n, <2>1 DEF Record
  <2> QED
    BY <1>e, <2>1, <2>2
<1>3. CASE Worker
  <2>1. UNCHANGED <<local, server>> /\ ~Applied
    BY <1>3, WorkerStates, AppliedByHandler
  <2>2. UNCHANGED <<sent, log, read>>
    BY <1>a, <2>1 DEF Record
  <2> QED
    BY <1>e, <2>1, <2>2
<1>4. CASE HandleSamEvent
  <2> DEFINE event == Head(sam_events)
  <2>1. /\ sam_events # <<>> /\ UNCHANGED <<server, request>>
        /\ local' = IF Applied THEN event.state.value ELSE local
    BY <1>4, HandleStep
  <2>2. UNCHANGED <<sent, log>> /\ read' = IF Applied THEN event.state.revision ELSE read
    BY <1>a, <2>1 DEF Record
  <2>3. CASE ~Applied
    BY <1>e, <2>1, <2>2, <2>3
  <2>4. CASE Applied
    <3>1. event.state # None /\ 1 \in DOMAIN sam_events /\ event = sam_events[1]
      <4>1. sam_events \in Seq(Reports)
        BY DEF TypeOK
      <4> QED
        BY <2>1, <2>4, <4>1 DEF Applied
    <3> HIDE DEF event
    <3>2. event.state.revision \in 1..Len(log) /\ event.state.value = log[event.state.revision]
          /\ read <= event.state.revision
      BY <3>1 DEF FlightInv, AllLogged, NotBefore, Logged
    <3>3. event.state.revision \in read..Len(log) /\ read' = event.state.revision
          /\ local' = log[event.state.revision]
      BY <2>1, <2>2, <2>4, <3>2 DEF FlightInv
    <3>4. Register!Show(log[event.state.revision])
      BY <1>r, <1>v, <3>3
    <3>5. Register!Adopt
      BY <2>2, <3>3, <3>4 DEF Register!Adopt
    <3> QED
      BY <3>5 DEF Register!Next
  <2> QED
    BY <2>3, <2>4
<1>5. CASE Serve
  <2>1. /\ request # None /\ request' # request
        /\ UNCHANGED <<local, sam_events>>
        /\ \/ UNCHANGED <<server, log>>
           \/ \E value \in Nat : server' # server /\ log' = Append(log, value)
                                 /\ (SyncRequested => value = request.payload.value)
    BY <1>5, ServeStep
  <2>2. UNCHANGED read
    BY <1>n, <2>1
  <2>3. CASE UNCHANGED <<server, log>>
    BY <1>a, <1>e, <2>1, <2>2, <2>3
  <2>4. ASSUME NEW value \in Nat, server' # server, log' = Append(log, value),
               SyncRequested => value = request.payload.value
        PROVE  Register!Next
    <3>1. CASE ~SyncRequested
      BY <1>a, <1>c, <2>1, <2>2, <2>4, <3>1
    <3>2. CASE SyncRequested
      <4> DEFINE n == pushed[request.payload.seq]
      <4>1. sent' = n
        BY <2>1, <2>4, <3>2 DEF Record, SyncServed, SyncRequested
      <4>2. n \in sent..Len(shown) /\ value = shown[n]
        <5>1. /\ request.payload.seq \in 1..client_seq
              /\ shown[n] = request.payload.value /\ sent <= n
          BY <3>2 DEF PushInv, Pending
        <5>2. n \in 1..Len(shown) /\ sent \in 1..Len(shown)
          BY <5>1 DEF PushInv
        <5> QED
          BY <2>4, <3>2, <5>1, <5>2
      <4> HIDE DEF n
      <4>3. Register!Deliver
        BY <1>r, <2>1, <2>2, <2>4, <4>1, <4>2 DEF Register!Deliver
      <4> QED
        BY <4>3 DEF Register!Next
    <3> QED
      BY <3>1, <3>2
  <2> QED
    BY <2>1, <2>3, <2>4
<1>6. ASSUME NEW l \in Links, RemoteChange(l) \/ Restart(l)
      PROVE  [Register!Next]_(Register!vars)
  <2>1. /\ UNCHANGED <<local, request, sam_events>>
        /\ \/ UNCHANGED <<server, log>>
           \/ server' # server /\ log' = Append(log, writes + 1)
    BY <1>6, RemoteStep
  <2>2. UNCHANGED <<sent, read>> /\ writes + 1 \in Nat
    BY <1>a, <1>n, <2>1 DEF TypeOK
  <2> QED
    BY <1>c, <1>e, <2>1, <2>2
<1> QED
  BY <1>1, <1>2, <1>3, <1>4, <1>5, <1>6 DEF Next, App, Sam

(* The synchronisation is a register with ordered reads and writes: neither *)
(* side is ever shown an older value of the other after a newer one         *)
(* (sam_client.py 106-174, 393-423, 626-690, app.py 1121-1208, 1328-1374).  *)
THEOREM Implementation ==
    ASSUME OneLink
    PROVE  RegisterSpec => ImplementsRegister
<1>1. Init /\ HistoryInit => Register!Init
  BY DEF Init, HistoryInit, Register!Init
<1>2. RInv /\ [Next /\ Record]_allVars => [Register!Next]_(Register!vars)
  <2> SUFFICES ASSUME RInv, [Next /\ Record]_allVars PROVE [Register!Next]_(Register!vars)
    OBVIOUS
  <2>1. CASE Next /\ Record
    BY <2>1, StepImplements
  <2>2. CASE UNCHANGED allVars
    BY <2>2 DEF allVars, historyVars, vars, appVars, Register!vars
  <2> QED
    BY <2>1, <2>2
<1> QED
  BY <1>1, <1>2, RegisterInvariance, PTL DEF RegisterSpec, ImplementsRegister, Register!Spec
=============================================================================
