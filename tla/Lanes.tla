------------------------------- MODULE Lanes --------------------------------
(***************************************************************************)
(* The lanes beside the tunnel.  In the source they are optional parts     *)
(* that register themselves, share no state and meet the tunnel only       *)
(* through what each module already models of it; so a behaviour of one    *)
(* lane, with the others at rest, is a behaviour of the app, and checking  *)
(* the lanes one at a time loses nothing.  lane says which one moves.      *)
(***************************************************************************)
EXTENDS Tor, Location, Hotspot, Vault, Servers

VARIABLE lane

LaneNames == {"tor", "location", "hotspot", "vault", "status", "vpngate", "free"}

lanesVars == <<torVars, locVars, hotspotVars, vaultVars, statusVars, gateVars, freeVars, lane>>

LanesInit ==
    /\ lane \in LaneNames
    /\ TorInit /\ LocInit /\ HotspotInit /\ VaultInit /\ StatusInit /\ GateInit /\ FreeInit
    /\ lane # "hotspot" => forward = "0"
    /\ lane # "location" => ~granted

LanesNext ==
    /\ UNCHANGED lane
    /\ \/ /\ lane = "tor" /\ TorNext
          /\ UNCHANGED <<locVars, hotspotVars, vaultVars, statusVars, gateVars, freeVars>>
       \/ /\ lane = "location" /\ LocNext
          /\ UNCHANGED <<torVars, hotspotVars, vaultVars, statusVars, gateVars, freeVars>>
       \/ /\ lane = "hotspot" /\ HotspotNext
          /\ UNCHANGED <<torVars, locVars, vaultVars, statusVars, gateVars, freeVars>>
       \/ /\ lane = "vault" /\ VaultNext
          /\ UNCHANGED <<torVars, locVars, hotspotVars, statusVars, gateVars, freeVars>>
       \/ /\ lane = "status" /\ StatusNext
          /\ UNCHANGED <<torVars, locVars, hotspotVars, vaultVars, gateVars, freeVars>>
       \/ /\ lane = "vpngate" /\ GateNext
          /\ UNCHANGED <<torVars, locVars, hotspotVars, vaultVars, statusVars, freeVars>>
       \/ /\ lane = "free" /\ FreeNext
          /\ UNCHANGED <<torVars, locVars, hotspotVars, vaultVars, statusVars, gateVars>>

\* In the lane that moves threads go on, and what they wait for has a time-out:
\* the bootstrap's poll loop, the geo lookup, the validator's sockets, the
\* fetches.
LanesFairness ==
    /\ \A s \in Starts : WF_torVars(lane = "tor" /\ Coroutine(s))
    /\ \A t \in Tasks : WF_locVars(lane = "location" /\ TaskStep(t))
    /\ \A l \in Loops : WF_locVars(lane = "location" /\ Publishing(l))
    /\ \A c \in Checks : WF_statusVars(lane = "status" /\ Checking(c))
    /\ \A r \in Refreshes : WF_gateVars(lane = "vpngate" /\ Refreshing(r))
    /\ \A r \in Refreshes : WF_freeVars(lane = "free" /\ Sweeping(r))

LanesSpec == LanesInit /\ [][LanesNext]_lanesVars /\ LanesFairness

\* Every lane's variables keep their types.
TypeOK ==
    TorTypeOK /\ LocTypeOK /\ HotspotTypeOK /\ VaultTypeOK /\ ServersTypeOK /\ lane \in LaneNames

\* Whatever shows work in progress stops showing it: Tor's preparation on the
\* ring, a check, a refresh.
SpinnersEnd == PrepareEnds /\ ListsSettle

\* Whatever shows work in progress has somebody at work on it, in every lane:
\* the safety side of SpinnersEnd.
SpinnersOwned == RingOwned /\ ListsOwned

\* What every step of whichever lane moves preserves, the lanes at rest included.
LanesInv ==
    /\ lane \in LaneNames
    /\ TorInv /\ LocInv /\ HotspotInv /\ VaultInv /\ FreeInv
    /\ StatusTypeOK /\ GateTypeOK
    /\ SpinnersOwned
=============================================================================
