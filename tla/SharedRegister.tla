--------------------------- MODULE SharedRegister ---------------------------
(***************************************************************************)
(* What the synchronisation promises for one linked character, queues,      *)
(* threads, retries and polls aside.  The desktop shows a value and has     *)
(* shown others; the server's value has a history.  The desktop's values    *)
(* reach the server in the order in which it showed them, each any number   *)
(* of times or not at all; the server's values reach the desktop in the     *)
(* order in which the server took them, some not at all.                    *)
(***************************************************************************)
EXTENDS Integers, Sequences

CONSTANTS Values, Initial

VARIABLES
    local,  \* what the desktop shows
    shown,  \* what it has shown, in order
    sent,   \* how far in `shown` the server has been written to
    log,    \* what the server has held, in order
    read    \* how far in `log` the desktop has got

vars == <<local, shown, sent, log, read>>

Init ==
    /\ local = Initial /\ shown = <<Initial>> /\ sent = 1
    /\ log = <<Initial>> /\ read = 1

Show(value) ==
    /\ local' = value
    /\ shown' = IF value = local THEN shown ELSE Append(shown, value)

Edit ==
    /\ local' \in Values /\ Show(local')
    /\ UNCHANGED <<sent, log, read>>

(* A change made on the server's side. *)
Change ==
    /\ log' # <<>> /\ log'[Len(log')] \in Values
    /\ log' = Append(log, log'[Len(log')])
    /\ UNCHANGED <<local, shown, sent, read>>

(* A write of the desktop: not older than the last one. *)
Deliver ==
    /\ \E i \in sent..Len(shown) : sent' = i /\ log' = Append(log, shown[i])
    /\ UNCHANGED <<local, shown, read>>

(* A state of the server: not older than the last one. *)
Adopt ==
    /\ \E i \in read..Len(log) : read' = i /\ Show(log[i])
    /\ UNCHANGED <<sent, log>>

Next == Edit \/ Change \/ Deliver \/ Adopt

Spec == Init /\ [][Next]_vars
=============================================================================
