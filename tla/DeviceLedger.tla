---------------------------- MODULE DeviceLedger ----------------------------
(***************************************************************************)
(* What a DRA kubelet plugin promises kubelet about devices, whatever it    *)
(* does with drivers, files and caches: a claim is put on record only when *)
(* no other claim on record wants one of its devices, a claim is granted   *)
(* only when it is on record, and it stays on record while it is granted.  *)
(***************************************************************************)
CONSTANTS
  Claims,   \* ResourceClaims
  Wanted    \* Wanted[c]: the devices c was allocated for itself

VARIABLES
  recorded, \* claims the plugin has prepared
  granted   \* claims kubelet runs containers with

ledgerVars == <<recorded, granted>>

Init == recorded = {} /\ granted = {}

Free(c) == \A o \in recorded \ {c} : Wanted[o] \cap Wanted[c] = {}

Record(c) == Free(c) /\ recorded' = recorded \cup {c} /\ UNCHANGED granted

Grant(c) == c \in recorded /\ granted' = granted \cup {c} /\ UNCHANGED recorded

\* kubelet has no use for c any more; its record may go at once or later.
Release(c) ==
  /\ granted' = granted \ {c}
  /\ recorded' \in {recorded, recorded \ {c}}

\* Records of claims that are not granted may be lost.
Lose == \E S \in SUBSET recorded : granted \subseteq S /\ recorded' = S /\ UNCHANGED granted

\* The node reboots: no container runs any more.
Reset == granted' = {} /\ recorded' \subseteq recorded

Next ==
  \/ \E c \in Claims : Record(c) \/ Grant(c) \/ Release(c)
  \/ Lose
  \/ Reset

Spec == Init /\ [][Next]_ledgerVars
=============================================================================
