----------------------------- MODULE FailClosed -----------------------------
(***************************************************************************)
(* What the tunnel promises about the device's traffic, without saying how:*)
(*                                                                         *)
(*   Direct    no tun: apps reach the network on their own;                *)
(*   Blocked   the tun holds every route and nothing carries the packets:  *)
(*             they drop;                                                  *)
(*   Proxied   the tun holds every route and a router bridges it to a      *)
(*             live engine.                                                *)
(*                                                                         *)
(* The device is never proxied before its routes are held, and losing the  *)
(* engine blocks it rather than releasing it.  Routes are released only on *)
(* request (the user stops, the OS reports the tun gone, a bring-up fails),*)
(* after some watchdog has used up all of its attempts, or because the OS  *)
(* itself takes the tun.                                                   *)
(***************************************************************************)
EXTENDS Naturals

CONSTANTS Watchdogs, Attempts

VARIABLES
    phase,      \* how the device's traffic is treated
    requested,  \* a requested teardown is being carried out
    failures,   \* failed repairs in a row, per watchdog
    osEvents    \* how often the OS may still take the tun away

vars == <<phase, requested, failures, osEvents>>

Init ==
    /\ phase = "Direct"
    /\ requested = FALSE
    /\ failures = [w \in Watchdogs |-> 0]
    /\ osEvents \in Nat

Hold == phase = "Direct" /\ phase' = "Blocked"

Resume == phase = "Blocked" /\ phase' = "Proxied"

Cut == phase = "Proxied" /\ phase' = "Blocked"

Exhausted == \E w \in Watchdogs : failures[w] >= Attempts

Release == (requested \/ Exhausted) /\ phase' = "Direct"

Taken == osEvents' < osEvents /\ phase' = "Direct"

\* Repairs fail one at a time, and a watchdog that starts over counts from 0.
Count ==
    \A w \in Watchdogs : failures'[w] \in {0, failures[w], failures[w] + 1}

Next ==
    /\ Count
    /\ requested' \in BOOLEAN
    /\ osEvents' <= osEvents
    /\ Hold \/ Resume \/ Cut \/ Release \/ Taken \/ phase' = phase

Spec == Init /\ [][Next]_vars
=============================================================================
