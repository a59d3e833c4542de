--------------------------- MODULE MCCoordinator ----------------------------
(* Instances of Coordinator for TLC: displays from 0 and their renderers.   *)
EXTENDS CoordinatorProperties

CONSTANTS software, gpu, plain

(* gpu is Deferred and zero-copy; plain draws on device-owned targets too, *)
(* but every submission is waited for in its round.                         *)
Both == {software, gpu}
All == {software, gpu, plain}
Gpu == {gpu}
Devices == {gpu, plain}

(* Display 0 is on the Deferred GPU; the other beside it on the same, on    *)
(* plain, or drawn by the CPU in strips.                                    *)
TwoOnGpu == {[d \in 0 .. 1 |-> gpu]}
GpuAndAny == {[d \in 0 .. 1 |-> IF d = 0 THEN gpu ELSE r] : r \in All}
=============================================================================
