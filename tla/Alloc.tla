------------------------------- MODULE Alloc -------------------------------
(***************************************************************************)
(* The space allocator of famfs as functions on its data.  Sizes and       *)
(* offsets are counted in allocation units.  A bitmap is the set of its    *)
(* set bits; an extent is [ofs, len]; a file map is a sequence of extents, *)
(* one for a contiguous file and one per strip for an interleaved one.     *)
(***************************************************************************)
EXTENDS Integers, Sequences, FiniteSets, Functions

CONSTANTS NBits,     \* units on the device (lp->nbits)
          MetaBits,  \* units of the superblock and the log
          MinBucket, \* units in the smallest bucket allowed, 1 GiB
          FAMFS_MAX_NBUCKETS,       \* the largest number of buckets allowed
          FAMFS_MAX_SIMPLE_EXTENTS, \* entries of the array ie_strips
          Stray  \* what memory beyond that array may be read as: extents

ASSUME DeviceAssumption ==
  /\ NBits \in Nat
  /\ MetaBits \in 1 .. NBits
  /\ {MinBucket, FAMFS_MAX_NBUCKETS, FAMFS_MAX_SIMPLE_EXTENTS} \subseteq Nat
  /\ Stray \subseteq [ofs : Nat, len : Nat]

(* 2^64 cut down to a width TLC computes with: u64 arithmetic wraps here.  *)
U64 == 2 ^ 16

Bits(e) == e.ofs .. (e.ofs + e.len - 1)

-----------------------------------------------------------------------------
(* The bitmap of a log: the superblock and the log itself, then every      *)
(* extent of every entry.  errors counts the bits that were set already;   *)
(* fsck reports it.                                                        *)
set_extent_in_bitmap(b, e) ==
  [bitmap |-> b.bitmap \cup Bits(e),
   errors |-> b.errors + Cardinality(b.bitmap \cap Bits(e))]

set_fmap_in_bitmap(b, entry) ==
  LET after[k \in 0 .. Len(entry.fmap)] ==
        IF k = 0 THEN b ELSE set_extent_in_bitmap(after[k - 1], entry.fmap[k])
  IN  after[Len(entry.fmap)]

famfs_build_bitmap(log) ==
  LET after[i \in 0 .. Len(log)] ==
        IF i = 0 THEN [bitmap |-> 0 .. MetaBits - 1, errors |-> 0]
        ELSE set_fmap_in_bitmap(after[i - 1], log[i])
  IN  after[Len(log)]

-----------------------------------------------------------------------------
(* The scan for n free bits from bit start on.  It ends at the first free  *)
(* bit i at which the remainder is too small (failure) or n bits are free  *)
(* (success), or at the end of the bitmap (failure).  The remainder is     *)
(* computed from the start of the range, in unsigned arithmetic, and the   *)
(* bits past the end of the bitmap read as free: the array has a spare     *)
(* byte.  range = 0 stands for the whole bitmap.                           *)
Failed == -1

(* Mutant: the last of the n bits is not tested. *)
alloc_contiguous_short_test(bitmap, n, start, range) ==
  LET remainder(i) == (start + (IF range = 0 THEN NBits ELSE range) - i) % U64
      run(i) == i .. (i + n - 1)
      ends == {i \in start .. NBits - 1 :
                 /\ i \notin bitmap
                 /\ \/ n > remainder(i)
                    \/ (i .. (i + n - 2)) \cap bitmap = {}}
      first == CHOOSE i \in ends : \A k \in ends : i <= k
  IN  IF ends = {} \/ n > remainder(first)
      THEN [ofs |-> Failed, bitmap |-> bitmap, pos |-> start]
      ELSE [ofs |-> first, bitmap |-> bitmap \cup run(first),
            pos |-> first + n]

(* Mutant: the last of the n bits is not set. *)
alloc_contiguous_short_set(bitmap, n, start, range) ==
  LET a == alloc_contiguous_short_test(bitmap, n, start, range)
  IN  [a EXCEPT !.bitmap = @ \ {a.pos - 1}]

bitmap_alloc_contiguous(bitmap, n, start, range) ==
  LET remainder(i) == (start + (IF range = 0 THEN NBits ELSE range) - i) % U64
      run(i) == i .. (i + n - 1)
      ends == {i \in start .. NBits - 1 :
                 /\ i \notin bitmap
                 /\ n > remainder(i) \/ run(i) \cap bitmap = {}}
      first == CHOOSE i \in ends : \A k \in ends : i <= k
  IN  IF ends = {} \/ n > remainder(first)
      THEN [ofs |-> Failed, bitmap |-> bitmap, pos |-> start]
      ELSE [ofs |-> first, bitmap |-> bitmap \cup run(first),
            pos |-> first + n]

(* What an allocation leaves behind: the map, the bitmap and lp->cur_pos.  *)
(* rc is 0, Failed, or Aborted when an assertion ends the process.         *)
(* overrun: it went on past the end of ie_strips, and survived.            *)
Aborted == -2

Allocation(rc, fmap, bitmap, pos) ==
  [rc |-> rc, fmap |-> fmap, bitmap |-> bitmap, pos |-> pos, overrun |-> FALSE]

famfs_file_alloc_contiguous(bitmap, size, pos) ==
  LET a == bitmap_alloc_contiguous(bitmap, size, pos, 0) IN
  IF a.ofs = Failed
  THEN Allocation(Failed, <<>>, bitmap, pos)
  ELSE Allocation(0, <<[ofs |-> a.ofs, len |-> size]>>, a.bitmap, a.pos)

-----------------------------------------------------------------------------
(* Interleaved allocation: nstrips strips of equal size, from buckets      *)
(* tried in a random order.                                                *)
Ceil(a, b) == (a + b - 1) \div b

Contiguous == [nbuckets |-> 0, nstrips |-> 0, chunk |-> 0]
alloc_is_interleaved(mode) == mode # Contiguous

(* A chunk that is a power of two and a multiple of the allocation unit is *)
(* a power of two in units.                                                *)
famfs_validate_interleave_param(mode) ==
  \/ mode = Contiguous
  \/ /\ mode.chunk > 0
     /\ \E k \in 0 .. mode.chunk : mode.chunk = 2 ^ k
     /\ mode.nbuckets \in 1 .. FAMFS_MAX_NBUCKETS
     /\ mode.nstrips <= mode.nbuckets
     /\ NBits \div mode.nbuckets >= MinBucket

strip_size(mode, size) ==
  Ceil(size, mode.nstrips * mode.chunk) * mode.chunk

(* One turn of the loop over the buckets; a bucket may have no room. *)
alloc_strip(s, bucket, mode, size) ==
  LET bucket_size == NBits \div mode.nbuckets
      len == strip_size(mode, size)
      a == bitmap_alloc_contiguous(s.bitmap, len,
                                   bucket * bucket_size, bucket_size)
  IN  IF Len(s.strips) = mode.nstrips \/ a.ofs <= 0 THEN s
      ELSE [bitmap |-> a.bitmap,
            strips |-> Append(s.strips, [ofs |-> a.ofs, len |-> len])]

(* The strips got from the buckets in order, and the bitmap afterwards. *)
alloc_strips(bitmap, mode, size, order) ==
  LET after[k \in 0 .. mode.nbuckets] ==
        IF k = 0 THEN [bitmap |-> bitmap, strips |-> <<>>]
        ELSE alloc_strip(after[k - 1], order[k], mode, size)
  IN  after[mode.nbuckets]

(* The error path gives back as many strips as there are buckets.  It      *)
(* finds those it got, the zeros of the rest of the array ie_strips, and   *)
(* with more buckets than the array has entries whatever lies beyond it.   *)
Beyond(mode) == [FAMFS_MAX_SIMPLE_EXTENTS + 1 .. mode.nbuckets -> Stray]

ie_strip(s, beyond, j) ==
  CASE j \in DOMAIN s.strips -> s.strips[j]
    [] j \in DOMAIN beyond -> beyond[j]
    [] OTHER -> [ofs |-> 0, len |-> 0]

(* It asserts that the bits are there and set. *)
bitmap_free_contiguous(b, e) ==
  IF \/ b.rc = Aborted
     \/ e.ofs + e.len > NBits
     \/ ~(Bits(e) \subseteq b.bitmap)
  THEN [rc |-> Aborted, bitmap |-> {}]
  ELSE [rc |-> b.rc, bitmap |-> b.bitmap \ Bits(e)]

(* Mutant: the last strip of a failed allocation is not given back. *)
free_strips_but_last(s, n, beyond) ==
  [rc |-> Failed,
   bitmap |-> s.bitmap \ UNION {Bits(s.strips[k]) : k \in 1 .. Len(s.strips) - 1}]

free_strips(s, n, beyond) ==
  LET after[j \in 0 .. n] ==
        IF j = 0 THEN [rc |-> Failed, bitmap |-> s.bitmap]
        ELSE bitmap_free_contiguous(after[j - 1], ie_strip(s, beyond, j))
  IN  after[n]

(* The outcome where the strips could not be had. *)
strips_missing(s, mode, pos, beyond) ==
  LET b == free_strips(s, mode.nbuckets, beyond)
  IN  [Allocation(b.rc, <<>>, b.bitmap, pos)
         EXCEPT !.overrun = /\ b.rc # Aborted
                            /\ mode.nbuckets > FAMFS_MAX_SIMPLE_EXTENTS]

(* The outcomes that are possible. *)
famfs_file_strided_alloc(bitmap, mode, size, pos, order) ==
  LET s == alloc_strips(bitmap, mode, size, order)
  IN  CASE ~famfs_validate_interleave_param(mode) ->
             {Allocation(Failed, <<>>, bitmap, pos)}
        [] famfs_validate_interleave_param(mode) /\ size < mode.chunk ->
             {famfs_file_alloc_contiguous(bitmap, size, 0)}
        [] OTHER ->
             IF Len(s.strips) = mode.nstrips
             THEN {Allocation(0, s.strips, s.bitmap, pos)}
             ELSE {strips_missing(s, mode, pos, beyond) : beyond \in Beyond(mode)}

famfs_file_alloc(bitmap, mode, size, pos, order) ==
  IF alloc_is_interleaved(mode)
  THEN famfs_file_strided_alloc(bitmap, mode, size, pos, order)
  ELSE {famfs_file_alloc_contiguous(bitmap, size, pos)}

(* The orders bucket_series_alloc may shuffle the buckets into. *)
bucket_series(mode) == Bijection(1 .. mode.nbuckets, 0 .. mode.nbuckets - 1)
=============================================================================
