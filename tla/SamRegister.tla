----------------------------- MODULE SamRegister -----------------------------
(***************************************************************************)
(* SamSync with the histories that relate it to SharedRegister: one link,   *)
(* which no restart of the server resets.                                   *)
(***************************************************************************)
EXTENDS SamSync

(* One link, and a server that is not restarted. *)
OneLink == (\E l \in Links : Links = {l}) /\ MaxRestarts = 0

VARIABLES
    shown,   \* the values the desktop has shown
    pushed,  \* for each payload, how many it had shown
    sent,    \* the value of `shown` the server was last written with
    log,     \* the values the server has held: log[r] is that of revision r
    read     \* the revision the desktop last applied

historyVars == <<shown, pushed, sent, log, read>>
allVars == <<vars, historyVars>>

TheLink == CHOOSE l \in Links : TRUE

(* The event just handled carries a state and it is applied. *)
Applied ==
    /\ sam_events # <<>> /\ sam_events' = Tail(sam_events)
    /\ Head(sam_events).state # None
    /\ Head(sam_events).source = "poll" => ~MustDefer

SyncServed == request # None /\ request.kind = "sync" /\ request' # request

Record ==
    /\ shown' = IF local' = local THEN shown ELSE Append(shown, local')
    /\ pushed' = IF client_seq' = client_seq THEN pushed ELSE Append(pushed, Len(shown))
    /\ log' = IF server' = server THEN log ELSE Append(log, server'[TheLink].value)
    /\ sent' = IF SyncServed /\ server' # server THEN pushed[request.payload.seq] ELSE sent
    /\ read' = IF Applied THEN Head(sam_events).state.revision ELSE read

HistoryInit == shown = <<0>> /\ pushed = <<>> /\ sent = 1 /\ log = <<0>> /\ read = 1

RegisterSpec == Init /\ HistoryInit /\ [][Next /\ Record]_allVars

FairRegisterSpec == RegisterSpec /\ Fairness
----------------------------------------------------------------------------
(* Queues, retries, debounced pushes, deferred and re-asked polls included, *)
(* the synchronisation is no more than a register with reads and writes in  *)
(* order: the desktop never shows a state older than one it has shown, nor  *)
(* does the server take an older value of the desktop after a newer one     *)
(* (sam_client.py 106-174, 393-423, 626-690, app.py 1121-1208, 1328-1374).  *)
Register == INSTANCE SharedRegister WITH Values <- Nat, Initial <- 0
ImplementsRegister == Register!Spec
=============================================================================
