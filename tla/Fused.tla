-------------------------------- MODULE Fused --------------------------------
(***************************************************************************)
(* The FUSE daemon famfs_fused: the request handlers of famfs_fused.c over *)
(* the inode cache (Icache), with the shadow tree they read and the file   *)
(* maps they hand to the kernel (Fmap).  What the parser makes of a shadow *)
(* file is a parameter, which MCFused takes from Yaml.                     *)
(*                                                                         *)
(* Several worker threads serve requests at once.  A handler is one action *)
(* per critical section of icache->mutex, flock_mutex and                  *)
(* daxdev_push_mutex, and per unprotected access to flock_held.  The first *)
(* section of a handler is part of the action by which the kernel hands    *)
(* the request to the worker: until then the kernel's own reference keeps  *)
(* the inode.                                                              *)
(*                                                                         *)
(* While the daemon runs, the log is played into the shadow tree by        *)
(* another process, which may crash and start over.                        *)
(***************************************************************************)
EXTENDS Icache, Sequences

CONSTANTS Dir,         \* the directories among Node
          Log,         \* the nodes in the order the log has them
          Loads,       \* what happens in a behaviour: the requests made, a
                       \*   bound on the opens, flocks and setattrs among
                       \*   them, the nodes looked up, and the nodes an
                       \*   earlier play of the log made
          Fmeta,       \* Fmeta[f]: the log entry of file f
          ParsedFull,  \* ParsedFull[f]: what famfs_parse_shadow_yaml() returns
                       \*   for the shadow file of f with its yaml
          ParsedEmpty, \*   and for one that is empty
          Worker,      \* the threads of fuse_session_loop_mt
          Handle,      \* open files
          NoHandle,
          MaxLookup,   \* bound: lookups the kernel counts per node
          MaxCrash,    \* bound: crashes of the log player
          FMAP_MSG_MAX

(* The parents lead to the root, the log has the nodes of the tree, and    *)
(* there is a thread for an unlock while another waits for the flock.      *)
ASSUME FusedAssumption ==
  /\ Root \notin Node
  /\ Dir \subseteq Node
  /\ Parent \in [Node -> Dir \cup {Root}]
  /\ \A S \in SUBSET Node : S # {} => \E n \in S : Parent[n] \notin S
  /\ Log \in Seq(Node)
  /\ NoHandle \notin Handle
  /\ IsFiniteSet(Node) /\ IsFiniteSet(Worker) /\ IsFiniteSet(Handle)
  /\ Cardinality(Worker) > 1

File == Node \ Dir
Children(d) == {n \in Node : Parent[n] = d}

(* Log entries: the extents that nextents announces, all of them on daxdev *)
(* 0.                                                                      *)
Extent == [devindex : {0}, offset : Nat, len : Nat]
Iext == [chunk_size : Nat, strips : Seq(Extent)]

FileMeta(fm) ==
  /\ fm # NoMap
  /\ fm.se \in Seq(Extent) /\ fm.ie \in Seq(Iext)
  /\ \/ fm.ext_type = "simple" /\ fm.nextents = Len(fm.se) /\ fm.ie = <<>>
     \/ fm.ext_type = "interleave" /\ fm.nextents = Len(fm.ie) /\ fm.se = <<>>

ASSUME FmetaAssumption == \A f \in File : FileMeta(Fmeta[f])

(* Yaml that is accepted is read as it was written, and an empty file is   *)
(* not accepted.                                                           *)
ASSUME YamlAssumption ==
  /\ \A f \in File : ParsedFull[f].ok => ParsedFull[f].fm = Fmeta[f]
  /\ ~ParsedEmpty.ok

M == INSTANCE Fmap

VARIABLES inode,        \* the inode cache
          flock_mutex,  \* icache->flock_mutex is locked
          max_pushed,   \* lo->daxdev_max_pushed
          req,          \* req[w]: the request worker w serves
          nlookup,      \* nlookup[n]: the lookups of n the kernel counts
          handle,       \* handle[h]: the file it is open on and its lock
          kmap,         \* kmap[f]: the file map the kernel has for f
          shadow,       \* shadow[n]: absent, empty or full
          load,         \* the member of Loads this behaviour is about
          play,         \* the log player: its entry, and whether it is
                        \*   between creating and writing a file
          ops, crashes, \* how much of load.ops and MaxCrash is used
          leak,         \* leak[n]: references no code will put (history)
          changed,      \* the nodes a setattr has changed (history)
          push_failed   \* a daxdev could not be pushed (history)

kernel == <<nlookup, handle, kmap>>
player == <<load, shadow, play, crashes>>
history == <<leak, changed, push_failed>>
vars == <<inode, flock_mutex, max_pushed, req, kernel, player, ops, history>>

-----------------------------------------------------------------------------
NoCount == [n \in {} |-> 0]

Idle == [op |-> "none", pc |-> "idle", node |-> Root, dir |-> Root,
         todo |-> {}, got |-> {}, h |-> NoHandle, count |-> NoCount,
         fmeta |-> NoMap]

Request(op, pc, n) == [Idle EXCEPT !.op = op, !.pc = pc, !.node = n]

Closed == [node |-> Root, open |-> FALSE, lock |-> FALSE]

Init ==
  /\ inode = famfs_icache_init
  /\ flock_mutex = FALSE
  /\ max_pushed = -1
  /\ req = [w \in Worker |-> Idle]
  /\ nlookup = [n \in Node |-> 0]
  /\ handle = [h \in Handle |-> Closed]
  /\ kmap = [f \in File |-> NoMap]
  /\ load \in Loads
  /\ shadow = [n \in Node |-> IF n \in load.played THEN "full" ELSE "absent"]
  /\ play = [entry |-> 1, writing |-> FALSE]
  /\ ops = 0
  /\ crashes = 0
  /\ leak = [n \in Node \cup {Root} |-> 0]
  /\ changed = {}
  /\ push_failed = FALSE

At(w, op, pc) == req[w].op = op /\ req[w].pc = pc
Goto(w, pc) == req' = [req EXCEPT ![w].pc = pc]
Reply(w) == req' = [req EXCEPT ![w] = Idle]

(* The nodes the kernel may name in a request. *)
Known(n) == n \in {Root} \cup {m \in Node : nlookup[m] > 0}

(* The kernel hands request r to worker w, whose handler begins with       *)
(* famfs_get_inode_from_nodeid(): an address that is no inode crashes it.  *)
Begin(w, r, n) ==
  /\ req[w].op = "none"
  /\ r.op \in load.requests
  /\ IF ValidNodeid(inode, n)
     THEN /\ inode' = famfs_inode_getref_locked(inode, n)
          /\ req' = [req EXCEPT ![w] = r]
     ELSE /\ req' = [req EXCEPT ![w] = [r EXCEPT !.pc = "segv"]]
          /\ UNCHANGED inode

Putref(n, count) == inode' = famfs_inode_putref_locked(inode, n, count)

-----------------------------------------------------------------------------
(***************************************************************************)
(* Lookup.                                                                 *)
(***************************************************************************)
(* A shadow file is read and parsed. *)
famfs_shadow_to_stat(f) ==
  IF shadow[f] = "full" THEN ParsedFull[f] ELSE ParsedEmpty

famfs_lookup(w, n) ==
  /\ n \in load.nodes
  /\ Known(Parent[n])
  /\ nlookup[n] < MaxLookup
  /\ Begin(w, [Request("lookup", "shadow", n) EXCEPT !.dir = Parent[n]],
           Parent[n])
  /\ UNCHANGED <<flock_mutex, max_pushed, kernel, player, ops, history>>

(* The device indices of a file map. *)
Devices(fm) ==
  IF fm.ext_type = "simple"
  THEN {fm.se[i].devindex : i \in 1 .. fm.nextents}
  ELSE UNION {{fm.ie[i].strips[j].devindex : j \in DOMAIN fm.ie[i].strips} :
                i \in 1 .. fm.nextents}

(* Devices are pushed in the order of their index, until one fails; only   *)
(* index 0 can be pushed.                                                  *)
famfs_push_fmap_daxdevs(fm) ==
  LET last == CHOOSE i \in Devices(fm) \cup {-1} :
                \A j \in Devices(fm) : j <= i
  IN IF last <= max_pushed
     THEN UNCHANGED <<max_pushed, push_failed>>
     ELSE /\ max_pushed' \in max_pushed .. 0
          /\ push_failed' = (push_failed \/ max_pushed' < last)

(* Mutant: the daxdevs of a file are not pushed when it is looked up. *)
famfs_do_lookup_open_nopush(w) ==
  LET n == req[w].node
      parsed == famfs_shadow_to_stat(n)
  IN /\ req[w].pc = "shadow"
     /\ IF \/ shadow[n] = "absent"
           \/ n \in File /\ ~parsed.ok
        THEN Goto(w, "out_err")
        ELSE IF n \in Dir
        THEN Goto(w, "find")
        ELSE req' = [req EXCEPT ![w].pc = "find", ![w].fmeta = parsed.fm]
     /\ UNCHANGED <<inode, flock_mutex, max_pushed, kernel, player, ops,
                    history>>

(* Mutant: what the parser returns is not looked at. *)
famfs_do_lookup_open_unchecked(w) ==
  LET n == req[w].node
      parsed == famfs_shadow_to_stat(n)
  IN /\ req[w].pc = "shadow"
     /\ IF shadow[n] = "absent"
        THEN Goto(w, "out_err") /\ UNCHANGED <<max_pushed, push_failed>>
        ELSE IF n \in Dir
        THEN Goto(w, "find") /\ UNCHANGED <<max_pushed, push_failed>>
        ELSE /\ famfs_push_fmap_daxdevs(parsed.fm)
             /\ req' = [req EXCEPT ![w].pc = "find", ![w].fmeta = parsed.fm]
     /\ UNCHANGED <<inode, flock_mutex, kernel, player, ops, leak, changed>>

(* The first half of famfs_do_lookup: open the shadow file and, for a      *)
(* regular file, turn its yaml into the file meta and push its devices.    *)
famfs_do_lookup_open(w) ==
  LET n == req[w].node
      parsed == famfs_shadow_to_stat(n)
  IN /\ req[w].pc = "shadow"
     /\ IF \/ shadow[n] = "absent"
           \/ n \in File /\ ~parsed.ok
        THEN Goto(w, "out_err") /\ UNCHANGED <<max_pushed, push_failed>>
        ELSE IF n \in Dir
        THEN Goto(w, "find") /\ UNCHANGED <<max_pushed, push_failed>>
        ELSE /\ famfs_push_fmap_daxdevs(parsed.fm)
             /\ req' = [req EXCEPT ![w].pc = "find", ![w].fmeta = parsed.fm]
     /\ UNCHANGED <<inode, flock_mutex, kernel, player, ops, leak, changed>>

(* The second half: one critical section finds the inode by its number, or *)
(* makes it.                                                               *)
famfs_do_lookup_find(w) ==
  LET n == req[w].node
      found == famfs_inode_getref_locked(
                 famfs_icache_find_get_from_ino_locked(inode, n), n)
  IN /\ req[w].pc = "find"
     /\ inode' = IF ~inode[n].icache
                 THEN famfs_icache_insert_locked(inode, n,
                        famfs_inode_alloc("logged", req[w].fmeta))
                 ELSE IF n \in File /\ inode[n].fmeta = NoMap
                 THEN [found EXCEPT ![n].fmeta = req[w].fmeta]
                 ELSE found
     /\ Goto(w, "put_parent")
     /\ UNCHANGED <<flock_mutex, max_pushed, kernel, player, ops, history>>

famfs_do_lookup_put_parent(w) ==
  /\ req[w].pc = "put_parent"
  /\ Putref(req[w].dir, 1)
  /\ Goto(w, "put_inode")
  /\ UNCHANGED <<flock_mutex, max_pushed, kernel, player, ops, history>>

(* The end of a lookup that succeeds.  A lookup request is answered with   *)
(* the entry.  readdirplus adds the entry to its buffer, or forgets it     *)
(* again when the buffer is full.                                          *)
famfs_do_lookup_done(w) ==
  LET n == req[w].node
  IN /\ req[w].pc = "put_inode"
     /\ Putref(n, 1)
     /\ IF req[w].op = "lookup"
        THEN /\ nlookup' = [nlookup EXCEPT ![n] = @ + 1]
             /\ Reply(w)
        ELSE /\ req' \in {[req EXCEPT ![w].pc = "entry", ![w].got = @ \cup {n},
                                      ![w].fmeta = NoMap],
                          [req EXCEPT ![w].pc = "forget", ![w].todo = {},
                                      ![w].fmeta = NoMap,
                                      ![w].count = [m \in {n} |-> 1]]}
             /\ UNCHANGED nlookup
     /\ UNCHANGED <<flock_mutex, max_pushed, handle, kmap, player, ops,
                    history>>

(* The end of one that fails.  The errno that is returned may be a stale   *)
(* one or 0: then a lookup is answered with an entry without an inode, and *)
(* readdirplus goes on to the next entry.                                  *)
famfs_do_lookup_out_err(w) ==
  /\ req[w].pc = "out_err"
  /\ Putref(req[w].dir, 1)
  /\ IF req[w].op = "lookup"
     THEN Reply(w)
     ELSE \E todo \in {{}, req[w].todo} :
            req' = [req EXCEPT ![w].pc = "entry", ![w].todo = todo]
  /\ UNCHANGED <<flock_mutex, max_pushed, kernel, player, ops, history>>

famfs_readdirplus(w, d, todo) ==
  /\ req[w].op = "none"
  /\ "readdirplus" \in load.requests
  /\ Known(d)
  /\ todo # {} /\ todo \subseteq load.nodes
  /\ \A n \in todo : shadow[n] # "absent" /\ nlookup[n] < MaxLookup
  /\ req' = [req EXCEPT ![w] = [Request("readdirplus", "entry", Root)
                                  EXCEPT !.dir = d, !.todo = todo]]
  /\ UNCHANGED <<inode, flock_mutex, max_pushed, kernel, player, ops, history>>

famfs_do_readdir_entry(w) ==
  \E n \in req[w].todo :
    /\ req[w].pc = "entry"
    /\ inode' = famfs_inode_getref_locked(inode, req[w].dir)
    /\ req' = [req EXCEPT ![w].pc = "shadow", ![w].node = n,
                          ![w].todo = @ \ {n}]
    /\ UNCHANGED <<flock_mutex, max_pushed, kernel, player, ops, history>>

famfs_do_readdir_reply(w) ==
  /\ req[w].pc = "entry"
  /\ req[w].todo = {}
  /\ nlookup' = [n \in Node |->
                   nlookup[n] + IF n \in req[w].got THEN 1 ELSE 0]
  /\ Reply(w)
  /\ UNCHANGED <<inode, flock_mutex, max_pushed, handle, kmap, player, ops,
                 history>>

-----------------------------------------------------------------------------
(***************************************************************************)
(* Forget.  The kernel evicts inodes nobody uses, takes their lookup       *)
(* counts to 0 and sends those counts.                                     *)
(***************************************************************************)
Evictable(n) ==
  /\ nlookup[n] > 0
  /\ \A c \in Children(n) : nlookup[c] = 0
  /\ \A h \in Handle : handle[h].open => handle[h].node # n
  /\ \A w \in Worker :
       /\ req[w].dir # n
       /\ req[w].op \notin {"lookup", "readdirplus", "forget", "release"}
            => req[w].node # n

famfs_forget_multi(w, S) ==
  /\ req[w].op = "none"
  /\ "forget" \in load.requests
  /\ S # {}
  /\ \A n \in S : Evictable(n)
  /\ req' = [req EXCEPT ![w] = [Request("forget", "forget", Root)
                                  EXCEPT !.count = [n \in S |-> nlookup[n]]]]
  /\ nlookup' = [n \in Node |-> IF n \in S THEN 0 ELSE nlookup[n]]
  /\ kmap' = [f \in File |-> IF f \in S THEN NoMap ELSE kmap[f]]
  /\ UNCHANGED <<inode, flock_mutex, max_pushed, handle, player, ops, history>>

(* famfs_forget_one() gets the inode ...  *)
famfs_forget_one(w) ==
  \E n \in DOMAIN req[w].count :
    /\ req[w].pc = "forget"
    /\ IF ValidNodeid(inode, n)
       THEN /\ inode' = famfs_inode_getref_locked(inode, n)
            /\ req' = [req EXCEPT ![w].pc = "unref", ![w].node = n]
       ELSE Goto(w, "segv") /\ UNCHANGED inode
    /\ UNCHANGED <<flock_mutex, max_pushed, kernel, player, ops, history>>

(* ... and puts the references of the lookups together with its own. *)
Unref(w, own) ==
  LET n == req[w].node
      left == DOMAIN req[w].count \ {n}
  IN /\ req[w].pc = "unref"
     /\ Putref(n, req[w].count[n] + own)
     /\ req' = [req EXCEPT ![w] =
                  IF left # {}
                  THEN [@ EXCEPT !.pc = "forget",
                                 !.count = [m \in left |-> req[w].count[m]]]
                  ELSE IF @.op = "forget" THEN Idle
                  ELSE [@ EXCEPT !.pc = "entry", !.count = NoCount]]
     /\ UNCHANGED <<flock_mutex, max_pushed, kernel, player, ops, history>>

(* Mutants: famfs_forget_one does not put its own reference, or twice. *)
famfs_icache_unref_inode_short(w) == Unref(w, 0)
famfs_icache_unref_inode_twice(w) == Unref(w, 2)

famfs_icache_unref_inode(w) == Unref(w, 1)

-----------------------------------------------------------------------------
(***************************************************************************)
(* Requests that get the inode, use it and put it.                         *)
(***************************************************************************)
BeginRequest(w, op, n) ==
  /\ Known(n)
  /\ op = "setattr" => ops < load.ops
  /\ ops' = IF op = "setattr" THEN ops + 1 ELSE ops
  /\ op = "get_fmap" =>
       n \in File /\ \E h \in Handle : handle[h].open /\ handle[h].node = n
  /\ op = "opendir" => n \notin File
  /\ Begin(w, Request(op, "end", n), n)
  /\ UNCHANGED <<flock_mutex, max_pushed, kernel, player, history>>

(* The attributes of the root are those of the shadow tree, every time. *)
famfs_getattr(w) ==
  /\ At(w, "getattr", "end")
  /\ inode' = famfs_inode_putref_locked(
                IF req[w].node = Root
                THEN [inode EXCEPT ![Root].attr = "logged"] ELSE inode,
                req[w].node, 1)
  /\ Reply(w)
  /\ UNCHANGED <<flock_mutex, max_pushed, kernel, player, ops, history>>

(* Mutant: the inode is not pinned. *)
SetAttr_unpinned(ic, n) == [ic EXCEPT ![n].attr = "changed"]

(* A change of mode, owner or time is kept in the inode and pins it ... *)
SetAttr(ic, n) == [ic EXCEPT ![n].attr = "changed", ![n].pinned = TRUE]

(* ... and a change of size is refused. *)
famfs_setattr(w) ==
  LET n == req[w].node
  IN /\ req[w].op \in {"setattr", "truncate"}
     /\ req[w].pc = "end"
     /\ IF req[w].op = "truncate"
        THEN Putref(n, 1) /\ UNCHANGED changed
        ELSE /\ inode' = famfs_inode_putref_locked(SetAttr(inode, n), n, 1)
             /\ changed' = changed \cup {n}
     /\ Reply(w)
     /\ UNCHANGED <<flock_mutex, max_pushed, kernel, player, ops, leak,
                    push_failed>>

famfs_statfs(w) ==
  /\ At(w, "statfs", "end")
  /\ Putref(req[w].node, 1)
  /\ Reply(w)
  /\ UNCHANGED <<flock_mutex, max_pushed, kernel, player, ops, history>>

famfs_opendir(w) ==
  /\ At(w, "opendir", "end")
  /\ Putref(req[w].node, 1)
  /\ Reply(w)
  /\ UNCHANGED <<flock_mutex, max_pushed, kernel, player, ops, history>>

famfs_get_fmap(w) ==
  LET n == req[w].node
      reply == M!famfs_log_file_meta_to_msg(inode[n].fmeta)
  IN /\ At(w, "get_fmap", "end")
     /\ Putref(n, 1)
     /\ kmap' = IF inode[n].fmeta # NoMap /\ reply.ok
                THEN [kmap EXCEPT ![n] = reply.msg] ELSE kmap
     /\ Reply(w)
     /\ UNCHANGED <<flock_mutex, max_pushed, nlookup, handle, player, ops,
                    history>>

-----------------------------------------------------------------------------
(***************************************************************************)
(* Open files and their locks.                                             *)
(***************************************************************************)
Opens(n) == {h \in Handle : handle[h].open /\ handle[h].node = n}

Busy(h) == \E w \in Worker : req[w].h = h /\ req[w].op # "release"

famfs_open_begin(w, h, n) ==
  /\ Known(n)
  /\ ~handle[h].open /\ ~Busy(h)
  /\ ops < load.ops
  /\ ops' = ops + 1
  /\ Begin(w, [Request("open", "getref", n) EXCEPT !.h = h], n)
  /\ UNCHANGED <<flock_mutex, max_pushed, kernel, player, history>>

famfs_open(w) ==
  LET n == req[w].node
  IN /\ At(w, "open", "getref")
     /\ inode' = famfs_inode_getref_locked(inode, n)
     /\ handle' = [handle EXCEPT ![req[w].h] =
                     [node |-> n, open |-> TRUE, lock |-> FALSE]]
     /\ Reply(w)
     /\ UNCHANGED <<flock_mutex, max_pushed, nlookup, kmap, player, ops,
                    history>>

(* The kernel has its answer before the handler goes on. *)
famfs_release_begin(w, h) ==
  /\ handle[h].open /\ ~Busy(h)
  /\ Begin(w, [Request("release", "test", handle[h].node) EXCEPT !.h = h],
           handle[h].node)
  /\ handle' = [handle EXCEPT ![h] = Closed]
  /\ UNCHANGED <<flock_mutex, max_pushed, nlookup, kmap, player, ops, history>>

(* Mutant: a close leaves the flock alone. *)
famfs_release_test_skip(w) ==
  /\ At(w, "release", "test")
  /\ Goto(w, "done")
  /\ UNCHANGED <<inode, flock_mutex, max_pushed, kernel, player, ops, history>>

(* flock_held is read without a lock, whoever holds the flock. *)
famfs_release_test(w) ==
  /\ At(w, "release", "test")
  /\ Goto(w, IF inode[req[w].node].flock_held THEN "unflock" ELSE "done")
  /\ UNCHANGED <<inode, flock_mutex, max_pushed, kernel, player, ops, history>>

(* For a release and for LOCK_UN: flock_held is tested once more, again    *)
(* without a lock, so of two that come this far at once one may find it    *)
(* clear, or both clear it.                                                *)
famfs_icache_unflock_test(w) ==
  /\ req[w].pc = "unflock"
  /\ Goto(w, IF inode[req[w].node].flock_held THEN "clear" ELSE "done")
  /\ UNCHANGED <<inode, flock_mutex, max_pushed, kernel, player, ops, history>>

famfs_icache_unflock(w) ==
  \/ /\ req[w].pc = "clear"
     /\ inode' = [inode EXCEPT ![req[w].node].flock_held = FALSE]
     /\ Goto(w, "unlock")
     /\ UNCHANGED <<flock_mutex, max_pushed, kernel, player, ops, history>>
  \/ /\ req[w].pc = "unlock"
     /\ flock_mutex' = FALSE
     /\ Goto(w, "done")
     /\ UNCHANGED <<inode, max_pushed, kernel, player, ops, history>>

(* Two references are put: that of this handler and one of the two that    *)
(* famfs_open took.                                                        *)
famfs_release(w) ==
  LET n == req[w].node
  IN /\ At(w, "release", "done")
     /\ Putref(n, 2)
     /\ leak' = [leak EXCEPT ![n] = @ + 1]
     /\ Reply(w)
     /\ UNCHANGED <<flock_mutex, max_pushed, kernel, player, ops, changed, push_failed>>

(* Waiting on flock_mutex occupies a worker.  That a worker stays free to  *)
(* serve the unlock is assumed of the load.                                *)
WorkerToSpare(w) == \E v \in Worker \ {w} : req[v].pc # "lock"

famfs_flock_begin(w, h, op) ==
  /\ handle[h].open /\ ~Busy(h)
  /\ ops < load.ops
  /\ ops' = ops + 1
  /\ op = "LOCK_EX" => WorkerToSpare(w)
  /\ Begin(w, [Request(op, "switch", handle[h].node) EXCEPT !.h = h],
           handle[h].node)
  /\ UNCHANGED <<flock_mutex, max_pushed, kernel, player, history>>

(* The reply of a flock never puts the reference of the handler; lock says *)
(* whether the caller now takes the flock to be theirs.                    *)
FlockReply(w, lock) ==
  /\ handle' = [handle EXCEPT ![req[w].h].lock = lock]
  /\ leak' = [leak EXCEPT ![req[w].node] = @ + 1]
  /\ Reply(w)

(* LOCK_EX of a flock that is held, LOCK_UN of one that is not and LOCK_SH *)
(* are errors.  LOCK_NB is LOCK_EX with that flag: it matches no case, and *)
(* is answered with success though it locks nothing.                       *)
famfs_flock(w) ==
  LET op == req[w].op
      held == inode[req[w].node].flock_held
  IN /\ req[w].pc = "switch"
     /\ CASE op = "LOCK_EX" /\ ~held -> Goto(w, "lock") /\ UNCHANGED <<handle, leak>>
          [] op = "LOCK_UN" /\ held  -> Goto(w, "unflock") /\ UNCHANGED <<handle, leak>>
          [] op = "LOCK_UN" /\ ~held -> FlockReply(w, FALSE)
          [] op = "LOCK_NB"          -> FlockReply(w, TRUE)
          [] OTHER                   -> FlockReply(w, handle[req[w].h].lock)
     /\ UNCHANGED <<inode, flock_mutex, max_pushed, nlookup, kmap, player, ops,
                    changed, push_failed>>

famfs_icache_flock(w) ==
  /\ req[w].op = "LOCK_EX"
  /\ \/ /\ req[w].pc = "lock"
        /\ ~flock_mutex
        /\ flock_mutex' = TRUE
        /\ Goto(w, "set")
        /\ UNCHANGED <<inode, handle, leak>>
     \/ /\ req[w].pc = "set"
        /\ inode' = [inode EXCEPT ![req[w].node].flock_held = TRUE]
        /\ FlockReply(w, TRUE)
        /\ UNCHANGED flock_mutex
  /\ UNCHANGED <<max_pushed, nlookup, kmap, player, ops, changed, push_failed>>

famfs_flock_unflock(w) ==
  /\ At(w, "LOCK_UN", "done")
  /\ FlockReply(w, FALSE)
  /\ UNCHANGED <<inode, flock_mutex, max_pushed, nlookup, kmap, player, ops,
                 changed, push_failed>>

-----------------------------------------------------------------------------
(***************************************************************************)
(* The log is played into the shadow tree.  An entry whose shadow exists   *)
(* is skipped, whatever the shadow file contains; a new file is created    *)
(* empty and then written in one piece.                                    *)
(***************************************************************************)
famfs_shadow_file_create(n) ==
  IF shadow[n] # "absent"
  THEN play' = [play EXCEPT !.entry = @ + 1] /\ UNCHANGED shadow
  ELSE IF n \in Dir
  THEN /\ shadow' = [shadow EXCEPT ![n] = "full"]
       /\ play' = [play EXCEPT !.entry = @ + 1]
  ELSE /\ shadow' = [shadow EXCEPT ![n] = "empty"]
       /\ play' = [play EXCEPT !.writing = TRUE]

shadow_logplay ==
  /\ load.played # Node
  /\ play.entry <= Len(Log)
  /\ IF play.writing
     THEN /\ shadow' = [shadow EXCEPT ![Log[play.entry]] = "full"]
          /\ play' = [entry |-> play.entry + 1, writing |-> FALSE]
     ELSE famfs_shadow_file_create(Log[play.entry])
  /\ UNCHANGED <<inode, flock_mutex, max_pushed, req, kernel, ops, load,
                 crashes, history>>

CrashPlayer ==
  /\ load.played # Node
  /\ crashes < MaxCrash
  /\ crashes' = crashes + 1
  /\ play' = [entry |-> 1, writing |-> FALSE]
  /\ UNCHANGED <<inode, flock_mutex, max_pushed, req, kernel, load, shadow,
                 ops, history>>

-----------------------------------------------------------------------------
(* The kernel sends a request to worker w. *)
Dispatch(w) ==
  \/ \E n \in Node : famfs_lookup(w, n)
  \/ \E d \in Dir \cup {Root} :
       \E todo \in SUBSET Children(d) : famfs_readdirplus(w, d, todo)
  \/ \E S \in SUBSET Node : famfs_forget_multi(w, S)
  \/ \E op \in {"getattr", "setattr", "truncate", "statfs", "opendir",
                "get_fmap"}, n \in Node \cup {Root} : BeginRequest(w, op, n)
  \/ \E h \in Handle, f \in File : famfs_open_begin(w, h, f)
  \/ \E h \in Handle : famfs_release_begin(w, h)
  \/ \E h \in Handle, op \in {"LOCK_EX", "LOCK_UN", "LOCK_SH", "LOCK_NB"} :
       famfs_flock_begin(w, h, op)

(* Worker w goes on with the request it serves. *)
Serve(w) ==
  \/ famfs_do_lookup_open(w)
  \/ famfs_do_lookup_find(w)
  \/ famfs_do_lookup_put_parent(w)
  \/ famfs_do_lookup_done(w)
  \/ famfs_do_lookup_out_err(w)
  \/ famfs_do_readdir_entry(w)
  \/ famfs_do_readdir_reply(w)
  \/ famfs_forget_one(w)
  \/ famfs_icache_unref_inode(w)
  \/ famfs_getattr(w)
  \/ famfs_setattr(w)
  \/ famfs_statfs(w)
  \/ famfs_opendir(w)
  \/ famfs_get_fmap(w)
  \/ famfs_open(w)
  \/ famfs_release_test(w)
  \/ famfs_icache_unflock_test(w)
  \/ famfs_icache_unflock(w)
  \/ famfs_release(w)
  \/ famfs_flock(w)
  \/ famfs_icache_flock(w)
  \/ famfs_flock_unflock(w)

Next ==
  \/ \E w \in Worker : Dispatch(w) \/ Serve(w)
  \/ shadow_logplay
  \/ CrashPlayer

Spec == Init /\ [][Next]_vars

-----------------------------------------------------------------------------
TypeOK ==
  /\ inode \in [Node \cup {Root} ->
       [icache : BOOLEAN, refcount : Nat, pinned : BOOLEAN,
        flock_held : BOOLEAN, attr : {"none", "logged", "changed"},
        fmeta : {NoMap} \cup {Fmeta[f] : f \in File}]]
  /\ flock_mutex \in BOOLEAN
  /\ max_pushed \in {-1, 0}
  /\ nlookup \in [Node -> Nat]
  /\ handle \in [Handle -> [node : File \cup {Root}, open : BOOLEAN,
                            lock : BOOLEAN]]
  /\ shadow \in [Node -> {"absent", "empty", "full"}]
  /\ play \in [entry : 1 .. Len(Log) + 1, writing : BOOLEAN]

(* The references that the request r has on node n.                        *)
RequestRefs(r, n) ==
  LET one(c) == IF c THEN 1 ELSE 0
      lookup == r.op \in {"lookup", "readdirplus"}
  IN one(lookup /\ r.dir = n /\ r.pc \in {"shadow", "find", "put_parent",
                                          "out_err"})
     + (IF lookup /\ r.node = n /\ r.pc \in {"put_parent", "put_inode"}
        THEN 2 ELSE 0)
     + one(n \in r.got)
     + (IF n \in DOMAIN r.count THEN r.count[n] ELSE 0)
     + one(r.pc = "unref" /\ r.node = n)
     + one(r.node = n /\ r.pc \in {"end", "getref", "switch", "lock", "set"})
     + one(/\ r.node = n /\ r.op = "LOCK_UN"
           /\ r.pc \in {"unflock", "clear", "unlock", "done"})
     + (IF r.node = n /\ r.op = "release" THEN 3 ELSE 0)

(* The references of all requests on node n, one pair each. *)
References(n) == UNION {{w} \X (1 .. RequestRefs(req[w], n)) : w \in Worker}

(* Every reference count is the number of the lookups the kernel counts,   *)
(* the cached children, the references of the requests being served, two   *)
(* per open file, and one for each earlier open or flock (those are never  *)
(* put: famfs_open gets two references and famfs_release puts one of them, *)
(* famfs_flock puts none).  So no inode the kernel or a handler still uses *)
(* is freed, however lookups, forgets, opens and closes interleave.        *)
RefcountExact ==
  \A n \in Node \cup {Root} :
    inode[n].refcount =
      (IF n = Root THEN 2 ELSE nlookup[n])
        + Cardinality({c \in Children(n) : inode[c].icache})
        + Cardinality(References(n))
        + 2 * Cardinality(Opens(n))
        + leak[n]

(* A changed mode, owner or time stays for the duration of the mount: the  *)
(* comment of famfs_setattr.  The inode stays in the cache through any     *)
(* forgets and lookups that follow.  (The root is an exception: getattr    *)
(* reads its attributes from the shadow tree again.)                       *)
SetattrSticks ==
  \A n \in changed \ {Root} : inode[n].icache /\ inode[n].attr = "changed"

(* What the log says of where the data of file f is. *)
LoggedMap(f) ==
  [ext_type |-> Fmeta[f].ext_type,
   file_size |-> Fmeta[f].size,
   se |-> Fmeta[f].se,
   ie |-> [i \in DOMAIN Fmeta[f].ie |->
             [nstrips |-> Len(Fmeta[f].ie[i].strips),
              chunk_size |-> Fmeta[f].ie[i].chunk_size,
              nbytes |-> Fmeta[f].size,
              strips |-> Fmeta[f].ie[i].strips]]]

(* A file map in the kernel is the one the log has, after the way through  *)
(* the yaml of the shadow file, the parser, the inode and the GET_FMAP     *)
(* message, also when a lookup reads a shadow file that the player is      *)
(* still writing or left empty when it crashed.                            *)
MapIsLogged ==
  \A f \in File : kmap[f] # NoMap => kmap[f] = LoggedMap(f)

(* A daxdev is registered with the kernel before a map that refers to it   *)
(* is installed: the comment of famfs_push_fmap_daxdevs.  A device that    *)
(* could not be opened leaves maps without it.                             *)
DaxdevBeforeMap ==
  \A f \in File :
    kmap[f] # NoMap => push_failed \/ \A i \in Devices(Fmeta[f]) :
                                        i <= max_pushed

(* The open files whose callers were told that they have the flock, and    *)
(* are not giving it up.                                                   *)
Holders ==
  {h \in Handle : /\ handle[h].lock
                  /\ \A w \in Worker : req[w].h = h => req[w].op # "LOCK_UN"}

(* The flock has one holder at a time, also when several processes have    *)
(* the same file open: src/README.md says that allocation and log append   *)
(* are serialized by a flock on the metadata log file.                     *)
FlockExclusive == Cardinality(Holders) <= 1

(* The flock is never lost: flock_mutex is locked only while some inode    *)
(* has flock_held, is about to get it, or had it until a moment ago, and   *)
(* an inode has it only while one of its files is open or a release of one *)
(* is about to see it.  So whoever waits in famfs_icache_flock waits for a *)
(* process that has a file open, however unlocks and closes of one file    *)
(* interleave.                                                             *)
FlockNotOrphaned ==
  /\ flock_mutex => \/ \E n \in Node : inode[n].flock_held
                    \/ \E w \in Worker : req[w].pc \in {"set", "unlock"}
  /\ \A n \in Node :
       inode[n].flock_held =>
         \/ Opens(n) # {}
         \/ \E w \in Worker : /\ req[w].op = "release"
                              /\ req[w].node = n
                              /\ req[w].pc \in {"test", "unflock", "clear"}
=============================================================================
