------------------------------- MODULE Icache -------------------------------
(***************************************************************************)
(* The inode cache of the FUSE daemon: famfs_fused_icache.c.               *)
(*                                                                         *)
(* The operators take the cache ic, a function from the nodes of the tree  *)
(* to inodes, and return it as the call leaves it.  Each one is a critical *)
(* section of icache->mutex, or the part of one that its _locked suffix    *)
(* names.  A nodeid is the address of the inode and an inode number that   *)
(* of the shadow file; both are the node here, which is faithful as long   *)
(* as nobody uses an inode that was freed (RefcountExact of module Fused). *)
(***************************************************************************)
EXTENDS Integers, FiniteSets

CONSTANTS Root,    \* FUSE_ROOT_ID
          Node,    \* the other nodes of the tree
          Parent,  \* Parent[n]: the directory node n is in
          NoMap    \* no fmeta, no file map

Freed == [icache |-> FALSE, refcount |-> 0, pinned |-> FALSE,
          flock_held |-> FALSE, attr |-> "none", fmeta |-> NoMap]

famfs_inode_alloc(attr, fmeta) ==
  [icache |-> TRUE, refcount |-> 1, pinned |-> FALSE, flock_held |-> FALSE,
   attr |-> attr, fmeta |-> fmeta]

famfs_icache_init ==
  [n \in Node \cup {Root} |->
     IF n = Root THEN [famfs_inode_alloc("logged", NoMap) EXCEPT !.refcount = 2]
                 ELSE Freed]

famfs_inode_getref_locked(ic, n) == [ic EXCEPT ![n].refcount = @ + 1]

(* Whether a nodeid names an inode, as famfs_get_inode_from_nodeid_locked  *)
(* tests it.                                                               *)
ValidNodeid(ic, n) == ic[n].icache /\ ic[n].refcount >= 1

(* A new inode starts with two references and holds one on its parent. *)
famfs_icache_insert_locked(ic, n, inode) ==
  famfs_inode_getref_locked(
    [ic EXCEPT ![n] = [inode EXCEPT !.refcount = 2]], Parent[n])

(* The inodes that are not pinned and have no other reference than the     *)
(* count ones of n, or than that of one child.                             *)
Unreferenced(ic, n, count) ==
  {m \in Node : /\ ~ic[m].pinned
                /\ ic[m].refcount = IF m = n THEN count ELSE 1}

(* The inodes that are freed when count references of n are put: n, if     *)
(* they were the last ones, and then one parent after the other, as each   *)
(* inode that is freed puts the reference it holds on its parent.          *)
FreedBy(ic, n, count) ==
  LET free == Unreferenced(ic, n, count)
  IN {m \in free :
        \A S \in SUBSET free :
          (/\ n \in free => n \in S
           /\ \A x \in S : Parent[x] \in free => Parent[x] \in S)
            => m \in S}

(* The recursion over the parents, in closed form.  (The assertion that    *)
(* the count is large enough follows from RefcountExact of module Fused.)  *)
famfs_inode_putref_locked(ic, n, count) ==
  LET freed == FreedBy(ic, n, count)
  IN [m \in Node \cup {Root} |->
        IF m \in freed
        THEN Freed
        ELSE [ic[m] EXCEPT !.refcount =
                @ - (IF m = n THEN count ELSE 0)
                  - Cardinality({x \in freed : Parent[x] = m})]]

(* The search for an inode number, and the references of a lookup that     *)
(* finds it: one for the search and one that the lookup leaves behind.     *)
famfs_icache_find_get_from_ino_locked(ic, n) ==
  famfs_inode_getref_locked(ic, n)
=============================================================================
