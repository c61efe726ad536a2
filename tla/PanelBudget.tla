---------------------------- MODULE PanelBudget ----------------------------
(***************************************************************************)
(* What the request limit of a panel promises (ADR-0004, stated in         *)
(* src/src/lib/aapanel/rate-limit.ts): for each panel a set of requests    *)
(* inside it and a line of requests waiting, first come first served.  No  *)
(* counter: the budget is about the requests themselves.                   *)
(***************************************************************************)
EXTENDS Naturals, Sequences, FiniteSets

CONSTANTS Requests, Origins, Limits

VARIABLES inside, line, budget

bvars == <<inside, line, budget>>

BInit ==
    /\ inside = [o \in Origins |-> {}]
    /\ line = [o \in Origins |-> <<>>]
    /\ budget = [o \in Origins |-> 0]

\* The budget of a panel is fixed by the first request to it.
Fixes(o, l) == budget' = IF budget[o] = 0 THEN [budget EXCEPT ![o] = l] ELSE budget

\* Nobody waits while there is room, and nobody enters when there is none.
Arrive(r, o, l) ==
    /\ Fixes(o, l)
    /\ \/ /\ Cardinality(inside[o]) < budget'[o]
          /\ line[o] = <<>>
          /\ inside' = [inside EXCEPT ![o] = @ \cup {r}]
          /\ UNCHANGED line
       \/ /\ Cardinality(inside[o]) >= budget'[o]
          /\ line' = [line EXCEPT ![o] = Append(@, r)]
          /\ UNCHANGED inside

\* A request that leaves makes room for the first in line, at once.
Leave(r, o) ==
    /\ r \in inside[o]
    /\ \/ /\ line[o] = <<>>
          /\ inside' = [inside EXCEPT ![o] = @ \ {r}]
          /\ UNCHANGED line
       \/ /\ line[o] # <<>>
          /\ inside' = [inside EXCEPT ![o] = (@ \ {r}) \cup {Head(line[o])}]
          /\ line' = [line EXCEPT ![o] = Tail(@)]
    /\ UNCHANGED budget

\* A request in line may give up; the others keep their order.
GiveUp(o) ==
    /\ \E n \in DOMAIN line[o] :
        line' = [line EXCEPT ![o] = SubSeq(@, 1, n - 1) \o SubSeq(@, n + 1, Len(@))]
    /\ UNCHANGED <<inside, budget>>

BNext ==
    \E o \in Origins :
        \/ \E r \in Requests, l \in Limits : Arrive(r, o, l)
        \/ \E r \in Requests : Leave(r, o)
        \/ GiveUp(o)

BSpec == BInit /\ [][BNext]_bvars

=============================================================================
