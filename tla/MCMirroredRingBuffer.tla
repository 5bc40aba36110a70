------------------------ MODULE MCMirroredRingBuffer ------------------------
(* Two objects and a third mapping for reserve(): requests that are        *)
(* rounded up, exact, refused as zero and refused because the rounding     *)
(* wraps around size_t.                                                    *)
EXTENDS MirroredRingBuffer, TLC

Interchangeable == Permutations(Objects) \cup Permutations(Regions)
=============================================================================
