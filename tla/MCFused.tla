------------------------------ MODULE MCFused ------------------------------
(***************************************************************************)
(* Fused on a small tree: file f in directory d, and file g in the root.   *)
(* f has as many extents as a file map holds, g is interleaved.            *)
(***************************************************************************)
EXTENDS Fused, Yaml, TLC

CONSTANTS d, f, g

MCParent == (d :> Root) @@ (f :> d) @@ (g :> Root)
MCLog == <<d, g, f>>

MCExtent(offset, len) == [devindex |-> 0, offset |-> offset, len |-> len]

MCFmeta ==
  (f :> [relpath |-> 1, size |-> 5, flags |-> 1, mode |-> 420, uid |-> 7,
         gid |-> 8, nextents |-> 2, ext_type |-> "simple",
         se |-> <<MCExtent(4, 2), MCExtent(8, 4)>>, ie |-> <<>>])
  @@ (g :> [relpath |-> 2, size |-> 3, flags |-> 0, mode |-> 384, uid |-> 9,
            gid |-> 6, nextents |-> 1, ext_type |-> "interleave", se |-> <<>>,
            ie |-> <<[chunk_size |-> 2,
                      strips |-> <<MCExtent(12, 2), MCExtent(20, 2)>>]>>])

MCParsedFull ==
  [x \in File |-> famfs_parse_shadow_yaml(famfs_emit_file_yaml(Fmeta[x]))]
MCParsedEmpty == famfs_parse_shadow_yaml(EmptyFile)

(* famfs_inode_putref_locked as the code has it: recursive. *)
RECURSIVE Putrefs(_, _, _)
Putrefs(ic, n, count) ==
  LET ref == ic[n].refcount - count
  IN IF ref = 0 /\ ~ic[n].pinned /\ n # Root
     THEN Putrefs([ic EXCEPT ![n] = Freed], Parent[n], 1)
     ELSE [ic EXCEPT ![n].refcount = ref]

(* The closed form of Icache is that recursion, whatever the references    *)
(* and the pins of the nodes are.                                          *)
ASSUME PutrefAssumption ==
  LET inodes == {[famfs_inode_alloc("logged", NoMap)
                    EXCEPT !.refcount = ref, !.pinned = pinned] :
                   ref \in 0 .. 2, pinned \in BOOLEAN}
  IN \A ic \in [Node \cup {Root} -> inodes], n \in Node \cup {Root},
        count \in 1 .. 2 :
       ic[n].refcount >= count =>
         famfs_inode_putref_locked(ic, n, count) = Putrefs(ic, n, count)

Load(requests, max, nodes, played) ==
  [requests |-> requests, ops |-> max, nodes |-> nodes, played |-> played]

Locking == {"lookup", "open", "LOCK_EX", "LOCK_UN"}

(* Lookups and forgets on the whole tree; with changes of attributes; with *)
(* the requests that only hold an inode for a while; files that are opened *)
(* and mapped while the log is played; the locks of two files; and those   *)
(* of one that is closed as well.                                          *)
MCLoads ==
  {Load({"lookup", "readdirplus", "forget"}, 0, {d, f, g}, {d, f, g}),
   Load({"lookup", "readdirplus", "forget", "setattr"}, 1, {d, f}, {d, f, g}),
   Load({"lookup", "forget", "getattr", "truncate", "statfs", "opendir"}, 0,
        {d, f, g}, {d, f, g}),
   Load({"lookup", "forget", "open", "get_fmap", "release"}, 1, {d, f},
        {d, g}),
   Load({"lookup", "forget", "open", "get_fmap", "release"}, 2, {g}, {d}),
   Load(Locking, 4, {d, f, g}, {d, f, g}),
   Load(Locking \cup {"release", "LOCK_SH", "LOCK_NB"}, 5, {d, f}, {d, f, g})}

(* Processes that open one file, lock it as famfs_lib.c does (LOCK_EX,     *)
(* which waits) or only read it, and close it.                             *)
MCFlockLoads == {Load({"lookup", "open", "LOCK_EX", "release"}, 5, {g}, {d, f, g})}

MCSymmetry == Permutations(Worker) \cup Permutations(Handle)
=============================================================================
