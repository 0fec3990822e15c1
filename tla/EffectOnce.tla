----------------------------- MODULE EffectOnce -----------------------------
(***************************************************************************)
(* What the outbox, the bus and runOnce promise together: an event whose   *)
(* state change committed takes effect in each handler of a consumer once, *)
(* in the handlers' order, unless it is parked for an operator.            *)
(***************************************************************************)
EXTENDS Naturals

CONSTANTS
  Events,
  HandlerCount  \* the consumer's handlers of the event, 1 .. HandlerCount

Handlers == 1 .. HandlerCount

VARIABLES
  committed,    \* events committed with the state change they announce
  effects,      \* how often each handler's effect of an event was committed
  parked        \* events given up on

vars == <<committed, effects, parked>>

Init ==
  /\ committed = {}
  /\ effects = [e \in Events |-> [h \in Handlers |-> 0]]
  /\ parked = {}

Commit(e) ==
  /\ committed' = committed \cup {e}
  /\ UNCHANGED <<effects, parked>>

Apply(e, h) ==
  /\ e \in committed
  /\ effects[e][h] = 0
  /\ \A g \in Handlers : g < h => effects[e][g] = 1
  /\ effects' = [effects EXCEPT ![e] = [effects[e] EXCEPT ![h] = 1]]
  /\ UNCHANGED <<committed, parked>>

GiveUp(e) ==
  /\ e \in committed
  /\ parked' = parked \cup {e}
  /\ UNCHANGED <<committed, effects>>

Next == \E e \in Events : Commit(e) \/ GiveUp(e) \/ \E h \in Handlers : Apply(e, h)

Spec == Init /\ [][Next]_vars
=============================================================================
