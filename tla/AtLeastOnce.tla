---------------------------- MODULE AtLeastOnce ----------------------------
(***************************************************************************)
(* What a sender that repeats what was not acknowledged may count on: an   *)
(* item is acknowledged only once its effect is stored, and every item is  *)
(* acknowledged in the end or known to be given up.  Effects may be        *)
(* repeated and come in any order.                                         *)
(***************************************************************************)
CONSTANT Item

VARIABLES
    sent,       \* items that the sender has announced
    applied,    \* items whose effect is stored
    acked,      \* items that the sender need not repeat
    givenUp     \* items that the sender no longer repeats

vars == <<sent, applied, acked, givenUp>>

TypeOK == \A items \in {sent, applied, acked, givenUp} : items \subseteq Item

Init ==
    /\ sent = {}
    /\ applied = {}
    /\ acked = {}
    /\ givenUp = {}

Send(items) ==
    /\ items # {}
    /\ items \cap sent = {}
    /\ sent' = sent \cup items
    /\ UNCHANGED <<applied, acked, givenUp>>

\* The effect of an item that was given up meanwhile may still be stored.
Apply(i) ==
    /\ i \in sent \ applied
    /\ applied' = applied \cup {i}
    /\ UNCHANGED <<sent, acked, givenUp>>

Acknowledge(i) ==
    /\ i \in applied \ acked
    /\ acked' = acked \cup {i}
    /\ UNCHANGED <<sent, applied, givenUp>>

GiveUp(i) ==
    /\ i \in sent \ (acked \cup givenUp)
    /\ givenUp' = givenUp \cup {i}
    /\ UNCHANGED <<sent, applied, acked>>

Handle(i) == Apply(i) \/ Acknowledge(i) \/ GiveUp(i)

Next ==
    \/ \E items \in SUBSET Item : Send(items)
    \/ \E i \in Item : Handle(i)

\* The sender repeats an item until it is acknowledged or given up.
Settle(i) == i \notin givenUp /\ Handle(i)

Spec == Init /\ [][Next]_vars /\ \A i \in Item : WF_vars(Settle(i))
=============================================================================
