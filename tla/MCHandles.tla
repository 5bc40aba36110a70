------------------------------ MODULE MCHandles ------------------------------
(* Two messages, two gzip streams and two options, for moves among them,   *)
(* and a view of options; a bzip2 stream would be one more stream.         *)
EXTENDS OptionsSettings, TLC

CONSTANTS m1, m2, g1, g2, p1, p2

ClassOf == m1 :> "message" @@ m2 :> "message" @@ g1 :> "gzip" @@ g2 :> "gzip"
             @@ p1 :> "options" @@ p2 :> "options"

(* All settings are off to begin with.                                     *)
AllOff == [f \in TopFields \cup BgpFields |-> FALSE]

Interchangeable == Permutations({m1, m2}) \cup Permutations({g1, g2})
                     \cup Permutations({p1, p2}) \cup Permutations(CObjects)
=============================================================================
