-------------------------------- MODULE Fcc --------------------------------
(***************************************************************************)
(* The cache-coherency library of famfs (libfcc) over memory that several  *)
(* hosts share without hardware coherency.  Memory is a set of cache       *)
(* lines.  Each host has a cache of its own: a line is either absent from  *)
(* it (Miss) or cached, and a cached line the host has stored to is dirty  *)
(* until it is written back.                                               *)
(*                                                                         *)
(* The hardware may at any time write a dirty line back (WriteBack), and   *)
(* bring a line in, or evict a clean one and bring it in again (Refetch).  *)
(* An eviction by itself is not a step: a line that was evicted and a line *)
(* that is Refetched just before its next use cannot be told apart.  The   *)
(* software calls are Store, Load, flush_processor_cache and               *)
(* invalidate_processor_cache.                                             *)
(*                                                                         *)
(* A flush walks its range line by line and ends with a fence, and the     *)
(* instructions it issues are not ordered among themselves.  Flush and     *)
(* Invalidate below are the fence: every partial state in between is one   *)
(* that WriteBack and Refetch steps before the fence also reach.  A flush  *)
(* with CLWB keeps the line; CLFLUSH and CLFLUSHOPT also drop it, which is *)
(* a Flush and a Refetch before the next use.                              *)
(***************************************************************************)
CONSTANT Miss

VARIABLES mem,    \* mem[l]: the content of line l in the shared memory
          cache,  \* cache[h][l]: what host h has cached for line l, or Miss
          dirty   \* dirty[h]: the lines host h has stored to, not written back

fccVars == <<mem, cache, dirty>>

(* What a load by host h of line l returns. *)
View(h, l) == IF cache[h][l] = Miss THEN mem[l] ELSE cache[h][l]

(* A load leaves the line in the cache. *)
Load(h, l) ==
  /\ cache' = [cache EXCEPT ![h][l] = View(h, l)]
  /\ UNCHANGED <<mem, dirty>>

Store(h, l, v) ==
  /\ cache' = [cache EXCEPT ![h][l] = v]
  /\ dirty' = [dirty EXCEPT ![h] = @ \cup {l}]
  /\ UNCHANGED mem

(* Memory once the dirty lines of host h within L have been written back. *)
WrittenBack(h, L) ==
  [l \in DOMAIN mem |-> IF l \in L \cap dirty[h] THEN cache[h][l] ELSE mem[l]]

(* flush_processor_cache() over the lines L *)
Flush(h, L) ==
  /\ mem' = WrittenBack(h, L)
  /\ dirty' = [dirty EXCEPT ![h] = @ \ L]
  /\ UNCHANGED cache

(* invalidate_processor_cache() over the lines L: CLFLUSH and CLFLUSHOPT   *)
(* write a dirty line back before they drop it.                            *)
Invalidate(h, L) ==
  /\ mem' = WrittenBack(h, L)
  /\ dirty' = [dirty EXCEPT ![h] = @ \ L]
  /\ cache' = [cache EXCEPT ![h] =
                 [l \in DOMAIN mem |-> IF l \in L THEN Miss ELSE @[l]]]

(* Invalidate line l and then load it. *)
Reload(h, l) ==
  /\ mem' = WrittenBack(h, {l})
  /\ dirty' = [dirty EXCEPT ![h] = @ \ {l}]
  /\ cache' = [cache EXCEPT ![h][l] = mem'[l]]

(***************************************************************************)
(* What the hardware does unasked.                                         *)
(***************************************************************************)
WriteBack(h, l) ==
  /\ l \in dirty[h]
  /\ Flush(h, {l})

Refetch(h, l) ==
  /\ l \notin dirty[h]
  /\ cache[h][l] # mem[l]
  /\ cache' = [cache EXCEPT ![h][l] = mem[l]]
  /\ UNCHANGED <<mem, dirty>>

(* Host h loses power: what it had not written back is gone. *)
PowerLoss(h) ==
  /\ cache' = [cache EXCEPT ![h] = [l \in DOMAIN mem |-> Miss]]
  /\ dirty' = [dirty EXCEPT ![h] = {}]
  /\ UNCHANGED mem
=============================================================================
