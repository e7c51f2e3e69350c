-------------------------------- MODULE Mkfs --------------------------------
(***************************************************************************)
(* mkfs.famfs and its companions over Mount: mkfs and its kill option on a *)
(* raw device or through a dummy mount, fsck and logplay of a device, next *)
(* to ordinary mounts, on hosts whose caches are not coherent.             *)
(*                                                                         *)
(* A load is a sequence of commands, one process each, that run one after  *)
(* the other (serial) or at the same time.  Nothing in the code excludes   *)
(* two mkfs from each other, and the cache of a host may still write back  *)
(* what a killed mkfs stored when another host runs the next one: raced    *)
(* says that either has happened.                                          *)
(***************************************************************************)
EXTENDS Mount

VARIABLES fs,      \* the uuid of the last mkfs that succeeded, 0 after a kill
          torn,    \* a mkfs has begun to store and has not succeeded yet
          raced,   \* a mkfs began beside another, or over stores of a killed one
          looked   \* the mounts that invalidated the log since mkfs last succeeded

ghosts == <<fs, torn, raced, looked>>
vars == <<fccVars, mountVars, load, pc, rc, crashes, ghosts>>

Command ==
  [op : {"mount", "mkfs", "fsck", "logplay"}, host : Host,
   fuse : BOOLEAN, raw : BOOLEAN, force : BOOLEAN, kill : BOOLEAN]

BlankOrFormatted(device) ==
  device = Blank \/ \E h \in Host, v \in Versions : device = Formatted(h, v)

ASSUME MkfsAssumption ==
  /\ MaxCrash \in Nat
  /\ Miss \notin Sb0Line \cup Sb1Line \cup LogHeader
  /\ \A ld \in Loads : ld.cmds \in Seq(Command) /\ BlankOrFormatted(ld.device)

Init ==
  /\ load \in Loads
  /\ mem = load.device
  /\ cache = [h \in Host |-> [l \in Lines |-> Miss]]
  /\ dirty = [h \in Host |-> {}]
  /\ pc = [p \in Proc |-> "idle"]
  /\ rc = [p \in Proc |-> 0]
  /\ mnt = [p \in Proc |-> "none"]
  /\ shadow = [p \in Proc |-> {}]
  /\ played = [p \in Proc |-> ZeroLog]
  /\ stuck = {}
  /\ crashes = 0
  /\ fs = mem["log"].uuid
  /\ torn = FALSE
  /\ raced = FALSE
  /\ looked = {}

Forced(p) == load.cmds[p].force
Kill(p) == load.cmds[p].kill /\ Forced(p)
Raw(p) == load.cmds[p].raw
Uuid(p) == p + 1

(* mkfs and kill from the first store to the last flush, and all of them. *)
StorePcs == {"kill_flush", "mkfs_sb0", "mkfs_crc", "mkfs_memset", "mkfs_log",
             "mkfs_flush_log", "mkfs_flush_superblock"}
MkfsPcs == StorePcs \cup {"kill", "mkfs", "mkfs_uuid"}

(* Another mkfs is at work, or another host has its stores to write back.  *)
Interferes(p) ==
  \/ \E q \in Proc \ {p} : pc[q] \in MkfsPcs
  \/ \E h \in Host \ {H(p)} : dirty[h] # {}

(* A command comes to mkfs or kill, or does something else. *)
Enter(p, step) == Goto(p, step) /\ raced' = (raced \/ Interferes(p))
Avoid(step) == step /\ UNCHANGED raced

Begin(p) ==
  /\ At(p, "idle")
  /\ load.serial => \A q \in 1..(p - 1) : At(q, "done")
  /\ Goto(p, IF Dummy(p) /\ Raw(p) THEN "raw" ELSE "mount")
  /\ UNCHANGED <<fccVars, mountVars, ghosts>>

(* The end of a command on a raw device, or of one on a dummy mount. *)
Finish(p, r) == IF Raw(p) THEN Return(p, r) ELSE Unmount(p, r)

(* mkfs or kill returns 0: the device now holds file system u, or none. *)
Succeeds(u) ==
  fs' = u /\ torn' = FALSE /\ looked' = {} /\ UNCHANGED <<mountVars, raced>>

(***************************************************************************)
(* Commands on the raw device: not while it is mounted on this host.       *)
(***************************************************************************)
famfs_mkfs_rawdev(p) ==
  LET role == famfs_get_role(H(p), SeenRaw(H(p)))
  IN  /\ At(p, "raw") /\ Op(p) = "mkfs"
      /\ Resolvable(H(p))
      /\ \/ Avoid(Return(p, -1)) /\ UNCHANGED fccVars     \* mounted, or no device
         \/ /\ ~famfs_get_mpt_by_dev(H(p)) /\ Kill(p)
            /\ famfs_mmap_superblock_and_log_raw(H(p), FALSE)
            /\ Enter(p, "kill")
         \/ /\ ~famfs_get_mpt_by_dev(H(p)) /\ ~Kill(p)
            /\ famfs_mmap_superblock_and_log_raw(H(p), FALSE)
            /\ Avoid(Return(p, -1))                      \* refused, or too small
         \/ /\ ~famfs_get_mpt_by_dev(H(p)) /\ ~Kill(p)
            /\ famfs_mkfs_allowed(role, Forced(p))
            /\ famfs_mmap_superblock_and_log_raw(H(p), TRUE)
            /\ Enter(p, "mkfs")
      /\ UNCHANGED <<mountVars, fs, torn, looked>>

famfs_fsck(p) ==
  /\ At(p, "raw") /\ Op(p) = "fsck"
  /\ Resolvable(H(p))
  /\ IF famfs_get_mpt_by_dev(H(p))
     THEN Return(p, -1) /\ UNCHANGED fccVars
     ELSE \/ Return(p, -1) /\ UNCHANGED fccVars
          \/ /\ famfs_mmap_superblock_and_log_raw(H(p), famfs_check_super(SeenRaw(H(p))) = 0)
             /\ Return(p, IF famfs_check_super(SeenRaw(H(p))) = 0 THEN 0 ELSE -1)
  /\ UNCHANGED <<mountVars, ghosts>>

(* Without a valid superblock there is no log to play; played as a client  *)
(* it is read all the same, at address 0.                                  *)
famfs_dax_shadow_logplay(p) ==
  LET valid == famfs_check_super(SeenRaw(H(p))) = 0
      log == WrittenBack(H(p), Lines)["log"]
  IN  /\ At(p, "raw") /\ Op(p) = "logplay"
      /\ \/ Return(p, -1) /\ UNCHANGED <<fccVars, played>>
         \/ /\ famfs_mmap_superblock_and_log_raw(H(p), valid)
            /\ IF valid /\ log.magic
               THEN /\ played' = [played EXCEPT ![p] = log]
                    /\ Return(p, 0) \/ Return(p, 1)
               ELSE /\ UNCHANGED played
                    /\ Return(p, -1) \/ (~valid /\ Return(p, -9))
      /\ looked' = looked \cup {p}
      /\ UNCHANGED <<mnt, shadow, stuck, fs, torn, raced>>

(***************************************************************************)
(* Commands on a dummy mount, once famfs_mount_fuse or famfs_dummy_mount_v1*)
(* has returned 0.                                                         *)
(***************************************************************************)
famfs_map_superblock_by_path(p) ==
  Visible(p, "superblock") /\ ReadSuper(H(p))

famfs_mkfs_via_dummy_mount(p) ==
  /\ At(p, "ready") /\ Op(p) = "mkfs"
  /\ Answered(p)
  /\ IF ~Visible(p, "superblock")
     THEN Avoid(Unmount(p, -1)) /\ UNCHANGED fccVars
     ELSE /\ famfs_map_superblock_by_path(p)
          /\ IF Kill(p) THEN Enter(p, "kill")
             ELSE IF famfs_mkfs_allowed(famfs_get_role(H(p), Seen(H(p))), Forced(p))
             THEN Avoid(Goto(p, "map_log"))
             ELSE Avoid(Unmount(p, -1))
  /\ UNCHANGED <<mountVars, fs, torn, looked>>

famfs_map_log_by_path(p) ==
  /\ At(p, "map_log")
  /\ Answered(p)
  /\ IF ~(Visible(p, "superblock") /\ Visible(p, "log"))
     THEN Avoid(Unmount(p, -1)) /\ UNCHANGED fccVars
     ELSE Invalidate(H(p), {"log"}) /\ Enter(p, "mkfs")
  /\ UNCHANGED <<mountVars, fs, torn, looked>>

(***************************************************************************)
(* fsck and logplay take the superblock as they see it.  With mmap the log *)
(* is invalidated and its header checked; fsck reads it otherwise, and     *)
(* then looks at what is cached and at no header.                          *)
(***************************************************************************)
famfs_fsck_mounted(p) ==
  /\ At(p, "ready") /\ Op(p) \in {"fsck", "logplay"}
  /\ Answered(p)
  /\ IF ~(Visible(p, "superblock") /\ Visible(p, "log"))
        \/ famfs_check_super(Seen(H(p))) # 0
     THEN Unmount(p, -1) /\ UNCHANGED <<fccVars, played>>
     ELSE \/ /\ Invalidate(H(p), {"log"})
             /\ \/ Unmount(p, IF mem'["log"].magic THEN 0 ELSE -1)
                \/ Op(p) = "logplay" /\ mem'["log"].magic /\ Unmount(p, 1)
             /\ played' = IF Op(p) = "logplay" /\ mem'["log"].magic
                          THEN [played EXCEPT ![p] = mem'["log"]] ELSE played
          \/ /\ Op(p) = "fsck"
             /\ Load(H(p), "log")
             /\ Unmount(p, 0)
             /\ UNCHANGED played
  /\ looked' = looked \cup {p}
  /\ UNCHANGED <<mnt, shadow, stuck, fs, torn, raced>>

(***************************************************************************)
(* famfs_kill_superblock: a store and a flush of the line of ts_magic.     *)
(***************************************************************************)
famfs_kill_superblock(p) ==
  \/ /\ At(p, "kill")
     /\ Store(H(p), "sb0", [View(H(p), "sb0") EXCEPT !.magic = FALSE])
     /\ Goto(p, "kill_flush")
     /\ torn' = TRUE
     /\ UNCHANGED <<mountVars, fs, raced, looked>>
  \/ /\ At(p, "kill_flush")
     /\ Flush(H(p), {"sb0"})
     /\ Finish(p, 0)
     /\ Succeeds(0)

(***************************************************************************)
(* __famfs_mkfs, store by store.                                           *)
(***************************************************************************)
mkfs_check_cached(p) ==
  /\ At(p, "mkfs")
  /\ UNCHANGED fccVars
  /\ IF famfs_check_super(Seen(H(p))) \in {0, 1} /\ ~Forced(p)
     THEN Finish(p, -1)
     ELSE Goto(p, "mkfs_uuid")
  /\ UNCHANGED <<mountVars, ghosts>>

mkfs_check(p) ==
  /\ At(p, "mkfs")
  /\ Invalidate(H(p), SbLines)
  /\ IF famfs_check_super(SeenRaw(H(p))) \in {0, 1} /\ ~Forced(p)
     THEN Finish(p, -1)
     ELSE Goto(p, "mkfs_uuid")
  /\ UNCHANGED <<mountVars, ghosts>>

(* The system uuid comes first, and may not be had. *)
mkfs_uuid(p) ==
  /\ At(p, "mkfs_uuid")
  /\ \/ /\ Store(H(p), "sb1", Sb1(H(p), View(H(p), "sb1").crc))
        /\ Goto(p, "mkfs_sb0")
        /\ torn' = TRUE
     \/ /\ Invalidate(H(p), SbLines)
        /\ Finish(p, -1)
        /\ UNCHANGED torn
  /\ UNCHANGED <<mountVars, fs, raced, looked>>

StoreStep(p, step, l, v, next) ==
  /\ At(p, step)
  /\ Store(H(p), l, v)
  /\ Goto(p, next)
  /\ UNCHANGED <<mountVars, ghosts>>

(* A magic number that does not read back: the daxdev is not writable. *)
mkfs_not_writable(p) ==
  /\ At(p, "mkfs_sb0")
  /\ ~View(H(p), "sb0").magic
  /\ Invalidate(H(p), SbLines)
  /\ Finish(p, -1)
  /\ UNCHANGED <<mountVars, ghosts>>

mkfs_superblock(p) ==
  \/ StoreStep(p, "mkfs_sb0", "sb0", Sb0(TRUE, CurrentVersion, Uuid(p)), "mkfs_crc")
  \/ StoreStep(p, "mkfs_crc", "sb1",
               Sb1(H(p), famfs_gen_superblock_crc(View(H(p), "sb0"), H(p))), "mkfs_memset")
  \/ mkfs_not_writable(p)

mkfs_log(p) ==
  \/ StoreStep(p, "mkfs_memset", "log", ZeroLog, "mkfs_log")
  \/ StoreStep(p, "mkfs_log", "log", LogLine(TRUE, Uuid(p), 0), "mkfs_flush_log")

mkfs_flush_superblock_only(p) ==
  \/ /\ At(p, "mkfs_flush_log")
     /\ Goto(p, "mkfs_flush_superblock")
     /\ UNCHANGED <<fccVars, mountVars, ghosts>>
  \/ /\ At(p, "mkfs_flush_superblock")
     /\ Flush(H(p), SbLines)
     /\ Finish(p, 0)
     /\ Succeeds(Uuid(p))

(* A writeback of the log followed by the superblock. *)
mkfs_flush(p) ==
  \/ /\ At(p, "mkfs_flush_log")
     /\ Flush(H(p), {"log"})
     /\ Goto(p, "mkfs_flush_superblock")
     /\ UNCHANGED <<mountVars, ghosts>>
  \/ /\ At(p, "mkfs_flush_superblock")
     /\ Flush(H(p), SbLines)
     /\ Finish(p, 0)
     /\ Succeeds(Uuid(p))

MkfsStep(p) ==
  \/ Begin(p)
  \/ famfs_mkfs_rawdev(p) \/ famfs_fsck(p) \/ famfs_dax_shadow_logplay(p)
  \/ famfs_mkfs_via_dummy_mount(p) \/ famfs_map_log_by_path(p)
  \/ famfs_fsck_mounted(p) \/ famfs_kill_superblock(p)
  \/ mkfs_check(p) \/ mkfs_uuid(p) \/ mkfs_superblock(p) \/ mkfs_log(p)
  \/ mkfs_flush(p)

(***************************************************************************)
(* What the environment does: unmounts, processes that are killed, hosts   *)
(* that lose power, and the caches.  A process that is killed leaves its   *)
(* stores in the cache of its host and its mount in place.                 *)
(***************************************************************************)
Umount(p) ==
  /\ At(p, "done") /\ Op(p) = "mount"
  /\ mnt[p] \in KernelMounts
  /\ mnt' = [mnt EXCEPT ![p] = "gone"]
  /\ UNCHANGED <<fccVars, pc, rc, shadow, played, stuck, ghosts>>

Running(p) == pc[p] \notin {"idle", "done"}

KillProcess(p) ==
  /\ "process" \in load.crash
  /\ Running(p)
  /\ Return(p, -9)
  /\ stuck' = stuck \cup {p}
  /\ UNCHANGED <<fccVars, mnt, shadow, played, ghosts>>

HostCrash(h) ==
  /\ "host" \in load.crash
  /\ PowerLoss(h)
  /\ pc' = [p \in Proc |-> IF H(p) = h /\ Running(p) THEN "done" ELSE pc[p]]
  /\ rc' = [p \in Proc |-> IF H(p) = h /\ Running(p) THEN -9 ELSE rc[p]]
  /\ mnt' = [p \in Proc |-> IF H(p) = h /\ mnt[p] # "none" THEN "gone" ELSE mnt[p]]
  /\ UNCHANGED <<shadow, played, stuck, ghosts>>

(* The caches of hosts that run no command are nobody's concern. *)
CacheStep ==
  /\ \E h \in {H(p) : p \in Proc}, l \in Lines : Refetch(h, l) \/ WriteBack(h, l)
  /\ UNCHANGED <<pc, rc, mountVars, ghosts>>

Crash ==
  /\ crashes < MaxCrash
  /\ crashes' = crashes + 1
  /\ \/ \E p \in Proc : KillProcess(p)
     \/ "daemon" \in load.crash /\ (\E p \in Proc : DaemonDies(p)) /\ UNCHANGED ghosts
     \/ \E h \in Host : HostCrash(h)

(* A step of a mount, which may be its look at the log, or a command's. *)
Process(p) ==
  \/ /\ MountStep(p)
     /\ looked' = IF At(p, "logplay_map") /\ pc' # pc THEN looked \cup {p} ELSE looked
     /\ UNCHANGED <<fs, torn, raced>>
  \/ MkfsStep(p)

Next ==
  /\ \/ /\ (\E p \in Proc : Process(p) \/ Umount(p)) \/ CacheStep
        /\ UNCHANGED crashes
     \/ Crash
  /\ UNCHANGED load

Spec == Init /\ [][Next]_vars

(***************************************************************************)
(* Properties.                                                             *)
(***************************************************************************)

(* Every variable has its type: the lines of the device hold nothing but   *)
(* what mkfs and kill store (famfs_lib.c), and a process only mounts where *)
(* its command does (famfs_mount.c).                                       *)
TypeOK ==
  /\ mem["log"].uuid = 0 <=> ~mem["log"].magic
  /\ \A p \in Proc :
       /\ rc[p] \in {-9, -1, 0, 1, 99}
       /\ mnt[p] \in KernelMounts \cup {"none", "forked", "dead", "gone"}
       /\ ~Fuse(p) => mnt[p] \in {"none", "serving", "gone"}
       /\ shadow[p] \subseteq {"superblock", "log"}
       /\ Dummy(p) /\ Raw(p) => mnt[p] = "none"
  /\ \A h \in Host : \A l \in dirty[h] : cache[h][l] # Miss
  /\ crashes \in 0..MaxCrash

(* A famfs_mount_fuse that fails with anything but 99, and a mkfs, fsck or *)
(* logplay whose unmount succeeded, leave no mount behind, and no daemon   *)
(* that could still make one.                                              *)
NothingLeftBehind ==
  \A p \in Proc :
    At(p, "done") /\ (Fuse(p) \/ Dummy(p)) /\ mnt[p] \in KernelMounts \cup {"forked"} =>
      \/ rc[p] \in {-9, 99}
      \/ Op(p) = "mount" /\ rc[p] = 0
      \/ Dummy(p) /\ p \in stuck

(* A famfs mount that returns 0 has played a log whose header was valid,   *)
(* through meta files that the daemon it started has shown it: it never    *)
(* reports a mount that was not made.  A daemon that dies once the files   *)
(* are open goes unnoticed (famfs_lib.c: famfs_logplay), and the mount     *)
(* that is reported is then one nobody answers for.                        *)
SuccessIsMounted ==
  \A p \in Proc :
    At(p, "done") /\ Op(p) = "mount" /\ rc[p] = 0 =>
      mnt[p] \in {"serving", "zombie", "gone"} /\ played[p].magic

(* mkfs without force (famfs_lib.c: __famfs_mkfs) never begins to store    *)
(* over a superblock in memory that is valid or of another version,        *)
(* whatever its own host has cached of it, unless mkfs raced: another one  *)
(* may come between the check and the store, which nothing prevents.       *)
MkfsSpares ==
  [][\A p \in Proc :
       At(p, "mkfs_uuid") /\ pc'[p] = "mkfs_sb0" /\ ~Forced(p) /\ ~raced =>
         famfs_check_super(mem) = -1]_vars

(* Unless mkfs raced: once mkfs has returned 0 memory holds its superblock *)
(* and its empty log, and once kill has returned 0 memory holds no         *)
(* superblock.  No loss of power and no cache takes that back, not even    *)
(* that of the same host after an earlier mkfs was killed there.           *)
MkfsIsDurable ==
  ~torn /\ ~raced =>
    IF fs = 0 THEN famfs_check_super(mem) = -1
    ELSE /\ mem["sb0"].uuid = fs
         /\ mem["log"].uuid = fs
         /\ famfs_check_super(mem) \in {0, 1}

(* A mount or logplay that looked at the log after the last mkfs plays the *)
(* log of that mkfs, even on a host that has cached the log of an earlier  *)
(* one, unless a mkfs is under way or was cut short, or mkfs raced.        *)
PlayedIsCurrent ==
  [][\A p \in Proc :
       played'[p] # played[p] /\ p \in looked' /\ ~torn /\ ~raced /\ fs # 0 =>
         played'[p].uuid = fs]_vars
=============================================================================
