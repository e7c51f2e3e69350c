------------------------------ MODULE MCMaster ------------------------------
(***************************************************************************)
(* A device of 12 units, 2 of them the superblock and the log; sessions    *)
(* allocate contiguously, in 2 strips over 2 buckets of 6 units, in 2      *)
(* strips over 3 buckets of 4 units, one bucket more than ie_strips has    *)
(* entries here, or with parameters that are refused, a chunk of 3 units.  *)
(* The memory beyond ie_strips may be zero, units in use, or no extent of  *)
(* the device.  One path may be a directory with another one in it.        *)
(***************************************************************************)
EXTENDS Master

CONSTANTS d, f, g

MCParent == [x \in {d, f, g} |-> IF x = f THEN d ELSE Root]
TwoBuckets == [nbuckets |-> 2, nstrips |-> 2, chunk |-> 2]
ThreeBuckets == [nbuckets |-> 3, nstrips |-> 2, chunk |-> 4]
OddChunk == [nbuckets |-> 2, nstrips |-> 1, chunk |-> 3]
MCModes == {Contiguous, TwoBuckets, ThreeBuckets, OddChunk}
MCStray == {[ofs |-> 0, len |-> 0], [ofs |-> 4, len |-> 2],
            [ofs |-> NBits, len |-> 1]}
ContiguousOnly == {Contiguous}
=============================================================================
