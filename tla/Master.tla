------------------------------- MODULE Master -------------------------------
(***************************************************************************)
(* The master's operations on a mounted famfs: mkfile, cp and mkdir, under *)
(* the lock on the log file.  Each instantiates the file or directory in   *)
(* the master's own name space and then logs it; a process may die in      *)
(* between.  An append is atomic here: MetaLog takes it apart.             *)
(***************************************************************************)
EXTENDS Alloc

CONSTANTS Paths,     \* the paths that are created
          Root,      \* the mount point
          Parent,    \* Parent[x]: the directory of path x
          Sizes,     \* file sizes, in allocation units
          Modes,     \* interleave parameters a session may have
          LogSlots,  \* entries the log has room for
          MaxCrash,  \* bound: processes that die while they hold the lock
          MaxFail    \* bound: creations on the master that fail

ASSUME MasterAssumption ==
  /\ Root \notin Paths
  /\ Parent \in [Paths -> Paths \cup {Root}]
  /\ Sizes \subseteq Nat \ {0}
  /\ Modes \subseteq [nbuckets : Nat, nstrips : Nat, chunk : Nat]
  /\ \A m \in Modes :
       m = Contiguous \/ m.nstrips \in 1 .. FAMFS_MAX_SIMPLE_EXTENTS
  /\ LogSlots \in Nat
  /\ MaxCrash \in Nat
  /\ MaxFail \in Nat

(* The scan of the bitmap stays within the bytes famfs_build_bitmap has    *)
(* allocated for it.                                                       *)
ASSUME SpareByteAssumption ==
  \A m \in Modes, s \in Sizes :
    NBits + (IF m = Contiguous THEN s ELSE strip_size(m, s))
      <= 8 * (Ceil(NBits, 8) + 1)

VARIABLES log,     \* the entries of the log
          local,   \* what exists in the master's name space
          lp,      \* struct famfs_locked_log of the process with the lock
          op,      \* what that process is creating
          copied,  \* the paths the session's cp has copied successfully
          ncrash,  \* processes that have died
          nfail,   \* creations that have failed
          overrun  \* a failed allocation read past the end of ie_strips

vars == <<log, local, lp, op, copied, ncrash, nfail, overrun>>

Unlocked == [held |-> FALSE, mode |-> Contiguous, built |-> FALSE,
             bitmap |-> {}, pos |-> 0]
NoOp == [pc |-> "none", cp |-> FALSE]

Init ==
  /\ log = <<>>
  /\ local = {}
  /\ lp = Unlocked
  /\ op = NoOp
  /\ copied = {}
  /\ ncrash = 0
  /\ nfail = 0
  /\ overrun = FALSE

-----------------------------------------------------------------------------
(* Mutant: a directory of that name is overlooked. *)
Exists_file(x) == \E f \in local : f.path = x /\ ~f.dir
(* Mutant: the parent directory is not looked for. *)
IsDir_unchecked(x) == TRUE

Exists(x) == \E f \in local : f.path = x
IsDir(x) == x = Root \/ \E f \in local : f.path = x /\ f.dir

(* A process gets the lock.  Its interleave parameters come from the       *)
(* file system's configuration or from its caller.                         *)
famfs_init_locked_log(mode) ==
  /\ ~lp.held
  /\ lp' = [Unlocked EXCEPT !.held = TRUE, !.mode = mode]
  /\ UNCHANGED <<log, local, op, copied, ncrash, nfail, overrun>>

famfs_release_locked_log ==
  /\ lp.held
  /\ op.pc = "none"
  /\ lp' = Unlocked
  /\ copied' = {}
  /\ UNCHANGED <<log, local, op, ncrash, nfail, overrun>>

(* Idle in a session, between two operations. *)
Ready == lp.held /\ op.pc = "none"

(* __famfs_cp finds its destination there, with the right size, and copies *)
(* into it.                                                                *)
mkfile_open_existing(x, size) ==
  /\ Ready
  /\ \E f \in local : f.path = x /\ ~f.dir /\ f.size = size
  /\ copied' = copied \cup {x}
  /\ UNCHANGED <<log, local, lp, op, ncrash, nfail, overrun>>

(* __famfs_mkfile up to its allocation; the first one of a session builds  *)
(* the bitmap.  An assertion that fails ends the process.                  *)
mkfile_alloc(x, size, cp, order) ==
  LET bitmap == IF lp.built THEN lp.bitmap ELSE famfs_build_bitmap(log).bitmap
  IN
  /\ Ready
  /\ ~Exists(x)
  /\ IsDir(Parent[x])
  /\ \E a \in famfs_file_alloc(bitmap, lp.mode, size, lp.pos, order) :
       /\ IF a.rc = Aborted
          THEN lp' = Unlocked
          ELSE lp' = [lp EXCEPT !.built = TRUE, !.bitmap = a.bitmap,
                                !.pos = a.pos]
       /\ IF a.rc = 0
          THEN op' = [pc |-> "create", cp |-> cp,
                      entry |-> [path |-> x, dir |-> FALSE, size |-> size,
                                 fmap |-> a.fmap]]
          ELSE op' = NoOp
       /\ copied' = IF a.rc = Aborted THEN {} ELSE copied
       /\ overrun' = (overrun \/ a.overrun)
  /\ UNCHANGED <<log, local, ncrash, nfail>>

(* A file that has a name on the master but no map. *)
Stub(entry) == [entry EXCEPT !.size = 0, !.fmap = <<>>]

(* The file appears on the master, as a shadow file or as a stub with its  *)
(* map.  Or a step of that fails: nothing appears, or a shadow file whose  *)
(* yaml could not be written, and the file is not logged; or the new file  *)
(* cannot be opened or its map not set, which the caller is told of after  *)
(* the file has been logged all the same.  In every case its space stays   *)
(* marked until the session ends.                                          *)
mkfile_create ==
  /\ op.pc = "create"
  /\ \/ /\ local' = local \cup {op.entry}
        /\ op' = [op EXCEPT !.pc = "log"]
        /\ UNCHANGED nfail
     \/ /\ nfail < MaxFail
        /\ nfail' = nfail + 1
        /\ \/ /\ local' \in {local, local \cup {Stub(op.entry)}}
              /\ op' = NoOp
           \/ /\ \E e \in {op.entry, Stub(op.entry)} :
                   local' = local \cup {e}
              /\ op' = [op EXCEPT !.pc = "log", !.cp = FALSE]
  /\ UNCHANGED <<log, lp, copied, ncrash, overrun>>

(* __famfs_mkdir up to the directory's appearance on the master.  If its   *)
(* owner cannot be set the directory stays, and is not logged.             *)
mkdir_create(x) ==
  LET e == [path |-> x, dir |-> TRUE, size |-> 0, fmap |-> <<>>] IN
  /\ Ready
  /\ ~Exists(x)
  /\ IsDir(Parent[x])
  /\ local' = local \cup {e}
  /\ \/ /\ op' = [pc |-> "log", cp |-> FALSE, entry |-> e]
        /\ UNCHANGED nfail
     \/ /\ nfail < MaxFail
        /\ nfail' = nfail + 1
        /\ UNCHANGED op
  /\ UNCHANGED <<log, lp, copied, ncrash, overrun>>

(* Mutant: one entry too many. *)
famfs_log_full_late == Len(log) > LogSlots

famfs_log_full == Len(log) >= LogSlots

(* famfs_log_file_creation and famfs_log_dir_creation. *)
log_creation ==
  /\ op.pc = "log"
  /\ IF famfs_log_full
     THEN UNCHANGED <<log, copied>>
     ELSE /\ log' = Append(log, op.entry)
          /\ copied' = IF op.cp THEN copied \cup {op.entry.path} ELSE copied
  /\ op' = NoOp
  /\ UNCHANGED <<local, lp, ncrash, nfail, overrun>>

(* The process dies; the lock goes with its file descriptor. *)
Crash ==
  /\ lp.held
  /\ ncrash < MaxCrash
  /\ ncrash' = ncrash + 1
  /\ lp' = Unlocked
  /\ op' = NoOp
  /\ copied' = {}
  /\ UNCHANGED <<log, local, nfail, overrun>>

(* What __famfs_logplay makes of an entry: nothing if its name exists or   *)
(* its directory does not.                                                 *)
play_entry(fs, e) ==
  IF \/ \E f \in fs : f.path = e.path
     \/ /\ Parent[e.path] # Root
        /\ ~\E f \in fs : f.path = Parent[e.path] /\ f.dir
  THEN fs ELSE fs \cup {e}

(* The name space the log, played in order, makes of an empty one. *)
Played ==
  LET after[i \in 0 .. Len(log)] ==
        IF i = 0 THEN {} ELSE play_entry(after[i - 1], log[i])
  IN  after[Len(log)]

(* The master unmounts and mounts again. *)
Remount ==
  /\ ~lp.held
  /\ local' = Played
  /\ UNCHANGED <<log, lp, op, copied, ncrash, nfail, overrun>>

Next ==
  \/ \E mode \in Modes : famfs_init_locked_log(mode)
  \/ famfs_release_locked_log
  \/ \E x \in Paths, size \in Sizes :
       \/ mkfile_open_existing(x, size)
       \/ \E cp \in BOOLEAN, order \in bucket_series(lp.mode) :
            mkfile_alloc(x, size, cp, order)
  \/ mkfile_create
  \/ \E x \in Paths : mkdir_create(x)
  \/ log_creation
  \/ Crash
  \/ Remount

Spec == Init /\ [][Next]_vars

-----------------------------------------------------------------------------
Entry == [path : Paths, dir : BOOLEAN, size : Nat,
          fmap : Seq([ofs : Nat, len : Nat])]

(* Every variable has its type (struct famfs_log_entry, struct             *)
(* famfs_locked_log).                                                      *)
TypeOK ==
  /\ log \in Seq(Entry)
  /\ Len(log) <= LogSlots
  /\ local \subseteq Entry
  /\ lp \in [held : BOOLEAN, mode : Modes \cup {Contiguous}, built : BOOLEAN,
             bitmap : SUBSET Nat, pos : Nat]
  /\ op = NoOp \/ op \in [pc : {"create", "log"}, cp : BOOLEAN, entry : Entry]
  /\ copied \subseteq Paths
  /\ ncrash \in 0 .. MaxCrash
  /\ nfail \in 0 .. MaxFail
  /\ overrun \in BOOLEAN

(* fsck finds no double allocation: no two extents of logged files, and no *)
(* extent and the superblock or the log, share a unit, whatever sessions,  *)
(* interleaving, failed allocations, failed creations and crashes led to   *)
(* the log, as long as no failed allocation had more buckets to give back  *)
(* than ie_strips has entries.                                             *)
FsckClean == ~overrun => famfs_build_bitmap(log).errors = 0

(* While a session's bitmap is in use it covers everything that is logged  *)
(* and what the session is about to log: an allocation later in the        *)
(* session cannot take it.  Again as long as ie_strips was not overrun.    *)
BitmapCoversLog ==
  ~overrun /\ lp.built =>
    /\ famfs_build_bitmap(log).bitmap \subseteq lp.bitmap
    /\ op.pc # "none" =>
         \A k \in DOMAIN op.entry.fmap :
           Bits(op.entry.fmap[k]) \subseteq lp.bitmap

(* A failed allocation gives back the strips it had taken: after it, the   *)
(* bitmap is what it was, or the one just built from the log; unless it    *)
(* had more buckets than ie_strips has entries, and went on past its end.  *)
FailedAllocRestores ==
  [][~overrun' /\ lp.held /\ lp'.held /\ op = NoOp /\ op' = NoOp /\ lp'.built =>
       lp'.bitmap = IF lp.built THEN lp.bitmap
                    ELSE famfs_build_bitmap(log).bitmap]_vars

(* As long as no process died and no step failed between creating and      *)
(* logging, a directory is logged before what it contains: a client can    *)
(* play the log in order.                                                  *)
ParentLoggedFirst ==
  ncrash = 0 /\ nfail = 0 =>
    \A i \in DOMAIN log :
      \/ Parent[log[i].path] = Root
      \/ \E k \in 1 .. i - 1 : log[k].path = Parent[log[i].path] /\ log[k].dir

(* As long as no process died and no step failed between creating and      *)
(* logging, no path is logged twice, and what is logged exists on the      *)
(* master, with the same extents, also after the master mounts again.      *)
LogAgreesWithLocal ==
  ncrash = 0 /\ nfail = 0 =>
    /\ \A i, k \in DOMAIN log : log[i].path = log[k].path => i = k
    /\ \A i \in DOMAIN log : log[i] \in local

(* Every extent of a logged file lies on the device.                       *)
WithinDevice ==
  \A i \in DOMAIN log : \A k \in DOMAIN log[i].fmap :
    Bits(log[i].fmap[k]) \subseteq 0 .. NBits - 1

(* A file that cp has reported as copied, at the first attempt or when it  *)
(* was restarted, is in the log.                                           *)
CopiedIsLogged ==
  \A x \in copied : \E i \in DOMAIN log : log[i].path = x
=============================================================================
