------------------------- MODULE MCWorkerResources -------------------------
(* One worker any of whose calls may fail, on devices around the limits of *)
(* the architectures, beside one that captures and mines.                  *)
EXTENDS WorkerResources
DeviceKinds == [w \in Workers |-> IF w = 1 THEN {80, 86, 121} ELSE {89}]
=============================================================================
