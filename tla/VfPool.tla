------------------------------- MODULE VfPool -------------------------------
(***************************************************************************)
(* What QAT's bookkeeping promises about virtual functions, whatever the    *)
(* code does to keep it: a VF has at most one holder, it is taken only from *)
(* nobody, only its own holder gives it back, and the configuration changes *)
(* only while nobody holds a VF.  Who holds what is forgotten when the       *)
(* plugin stops; the configuration is not.                                  *)
(***************************************************************************)
CONSTANTS VFs, Requesters, Nobody

VARIABLES
  serving,   \* the plugin runs
  holder,    \* the requester that holds each VF, or Nobody
  config     \* how the physical function is configured, any value

poolVars == <<serving, holder, config>>

Free == [v \in VFs |-> Nobody]

PoolInit == serving = FALSE /\ holder = Free

Start == ~serving /\ serving' = TRUE /\ UNCHANGED <<holder, config>>

Stop ==
  /\ serving
  /\ serving' = FALSE
  /\ holder' = Free
  /\ UNCHANGED config

Take(r, v) ==
  /\ serving
  /\ holder[v] = Nobody
  /\ holder' = [holder EXCEPT ![v] = r]
  /\ UNCHANGED <<serving, config>>

GiveBack(r, S) ==
  /\ serving
  /\ \A v \in S : holder[v] = r
  /\ holder' = [v \in VFs |-> IF v \in S THEN Nobody ELSE holder[v]]
  /\ UNCHANGED <<serving, config>>

Reconfigure ==
  /\ serving
  /\ holder = Free
  /\ UNCHANGED <<serving, holder>>

PoolNext ==
  \/ Start \/ Stop \/ Reconfigure
  \/ \E r \in Requesters :
       \/ \E v \in VFs : Take(r, v)
       \/ \E S \in SUBSET VFs : GiveBack(r, S)

PoolSpec == PoolInit /\ [][PoolNext]_poolVars
=============================================================================
