---------------------------- MODULE MCTableDump ----------------------------
(* Table dumps and BGP4MP messages with the subtypes 1 to 6, which both    *)
(* types use; peers of either family and of another; entries with and      *)
(* without an AS path of up to two segments, an empty one among them, and  *)
(* communities of both kinds, with hops before them and without.           *)
EXTENDS Dump

Table(present) ==
  [t \in {1, 2, 3, 4, 5, 6, 7, 8, 9, 10, 14, 15, 16, 17, 18, 21, 25, 29, 32} |->
     IF t \in present THEN t ELSE 0]

OtherFamily == 0
SmallPeers == {<<>>, <<AFI_IPV4, AFI_IPV6, OtherFamily>>}

SmallEntries ==
  {[table |-> Table({1, AS_PATH, COMMUNITIES, LARGE_COMMUNITIES}), segments |-> <<2, 0>>,
    communities |-> 2, large |-> 2],
   [table |-> Table({1, AS_PATH, COMMUNITIES}), segments |-> <<>>, communities |-> 3, large |-> 0],
   [table |-> Table({}), segments |-> <<>>, communities |-> 0, large |-> 0]}
=============================================================================
