---------------------------- MODULE TerminalRegistry ----------------------------
(***************************************************************************)
(* What the terminal service promises about terminal ids, whatever the     *)
(* connections and reader threads do: an id is issued once, it appears in  *)
(* the list at most once and never after it has been retired, and a        *)
(* terminal becomes the default one before it is listed, never later.      *)
(***************************************************************************)
CONSTANTS Ids, Nobody

VARIABLES issued, listed, retired, home

vars == <<issued, listed, retired, home>>

Init == issued = {} /\ listed = {} /\ retired = {} /\ home = Nobody

Issue(i) ==
    /\ i \in Ids \ issued
    /\ issued' = issued \cup {i}
    /\ UNCHANGED <<listed, retired, home>>

Nominate(i) ==
    /\ i \in issued \ (listed \cup retired)
    /\ home' = i
    /\ UNCHANGED <<issued, listed, retired>>

Publish(i) ==
    /\ i \in issued \ (listed \cup retired)
    /\ listed' = listed \cup {i}
    /\ UNCHANGED <<issued, retired, home>>

\* Several terminals may go at once: those of a connection that ends.
Retire(gone) ==
    /\ gone \subseteq listed
    /\ listed' = listed \ gone
    /\ retired' = retired \cup gone
    /\ UNCHANGED <<issued, home>>

Withdraw == home' = Nobody /\ UNCHANGED <<issued, listed, retired>>

Next ==
    \/ \E i \in Ids : Issue(i) \/ Nominate(i) \/ Publish(i)
    \/ \E gone \in SUBSET listed : Retire(gone)
    \/ Withdraw

Spec == Init /\ [][Next]_vars

=============================================================================
