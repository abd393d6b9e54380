--------------------------- MODULE MCCdiRegistry ---------------------------
(* Small sets of devices for CdiRegistry. *)
EXTENDS CdiRegistry, TLC

CONSTANTS one, two, c1, c2

\* Two GPUs of which one may have an MEI device, a QAT VF and a Gaudi.
MCDevices ==
  [k \in Kinds |-> CASE k = "gpu" -> {one, two} [] k = "mei" -> {"mei0"}
                      [] k = "qat" -> {"vf"} [] OTHER -> {"accel"}]

\* The node with the Gaudi plugin, whose claims come and go, has one GPU and one update.
MCHosts == {{"gpu", "qat"}, {"gpu", "gaudi"}, {"generator"}}

MCInstalled ==
  [h \in MCHosts |-> UNION {MCDevices[k] : k \in Kinds} \ (IF "gaudi" \in h THEN {two} ELSE {})]

MCMaxUpdates == [h \in MCHosts |-> IF "gaudi" \in h THEN 1 ELSE 2]

ClaimSymmetry == Permutations({c1, c2})
=============================================================================
