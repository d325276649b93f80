-------------------------- MODULE GenerationRouting --------------------------
(***************************************************************************)
(* What the durable state promises to whoever pins a route, whatever        *)
(* happened to the Hosts that wrote it: at most one Generation is routed; a *)
(* Generation is routed only from a candidate that was staged or a          *)
(* predecessor that was kept; each such switch has a routing epoch of its   *)
(* own; and a Generation whose route was withdrawn comes back only that way. *)
(***************************************************************************)
EXTENDS Naturals

CONSTANTS Generations, None

VARIABLES
    stage,   \* stage[g]: what may still become of Generation g
    route,   \* the routed Generation, None when the App has no route
    epoch    \* how often the route was given out or fenced

Stages == {"unknown", "candidate", "routed", "kept"}

routing == <<stage, route, epoch>>

Init ==
    /\ stage = [g \in Generations |-> "unknown"]
    /\ route = None
    /\ epoch = 0

\* The route names the one routed Generation.
Consistent == {g \in Generations : stage[g] = "routed"} = {route} \ {None}

\* g becomes a candidate, by itself: no route is touched.
Nominate(g) ==
    /\ stage[g] = "unknown"
    /\ stage' = [stage EXCEPT ![g] = "candidate"]
    /\ UNCHANGED <<route, epoch>>

\* Generations other than those of G only ever fall back: the routed one may be
\* kept, every other one is forgotten.
FallBack(G) ==
    \A g \in Generations \ G :
        \/ stage'[g] = stage[g]
        \/ stage'[g] = "unknown"
        \/ stage[g] = "routed" /\ stage'[g] = "kept"

\* The route is left alone or withdrawn; callers may be fenced by a new epoch.
Withdraw ==
    /\ stage' \in [Generations -> Stages]
    /\ FallBack({})
    /\ route' \in {route, None}
    /\ epoch' \in {epoch, epoch + 1}

\* The route is given to g under the next epoch.
Switch(g) ==
    /\ stage[g] \in {"candidate", "kept"}
    /\ stage' \in [Generations -> Stages]
    /\ stage'[g] = "routed"
    /\ FallBack({g})
    /\ route' = g
    /\ epoch' = epoch + 1

Next ==
    /\ \/ Withdraw
       \/ \E g \in Generations : Nominate(g) \/ Switch(g)
    /\ Consistent'

Spec == Init /\ [][Next]_routing
=============================================================================
