------------------------------- MODULE Mount -------------------------------
(***************************************************************************)
(* Mounting famfs: famfs_mount_fuse with the daemon it forks, the          *)
(* temporary ("dummy") mounts of mkfs, fsck and logplay, the standalone    *)
(* (v1) mount, and unmounting.  A process runs one command; mnt[p] is the  *)
(* mount that process p makes:                                             *)
(*   none     nothing yet            serving  the daemon answers requests  *)
(*   forked   the daemon starts      zombie   mounted, the daemon is dead  *)
(*   mounted  mounted, requests wait dead     the daemon died unmounted    *)
(*   gone     unmounted                                                    *)
(* A kernel mount (v1) is serving at once.  Mount points differ, and their *)
(* paths contain "famfs", as those of the tests and the dummy mounts do.   *)
(***************************************************************************)
EXTENDS Super, FiniteSets, Sequences

CONSTANTS Loads,     \* the loads a behaviour may run, see Init of Mkfs
          MaxCrash   \* crashes in a behaviour

VARIABLES load,     \* the commands of this behaviour and how they may start
          pc,       \* pc[p]: where process p is
          rc,       \* rc[p]: its result, so far
          mnt,      \* mnt[p]: the mount that process p made
          shadow,   \* shadow[p]: the meta files p created for its mount
          played,   \* played[p]: the log p played, or ZeroLog
          stuck,    \* the processes whose unmount failed
          crashes   \* crashes so far

mountVars == <<mnt, shadow, played, stuck>>

Proc == DOMAIN load.cmds
H(p) == load.cmds[p].host
Op(p) == load.cmds[p].op
Fuse(p) == load.cmds[p].fuse
Dummy(p) == Op(p) # "mount"

At(p, step) == pc[p] = step
Goto(p, step) == pc' = [pc EXCEPT ![p] = step] /\ UNCHANGED rc
Set(p, step, r) == pc' = [pc EXCEPT ![p] = step] /\ rc' = [rc EXCEPT ![p] = r]
Return(p, r) == Set(p, "done", r)
Unmount(p, r) == Set(p, "out_umount", r)
(* A mount that fails after it was made. *)
Out(p, r) == Set(p, IF Fuse(p) THEN "out" ELSE "out_umount", r)

KernelMounts == {"mounted", "serving", "zombie"}

(***************************************************************************)
(* famfs_get_mpt_by_dev reads /proc/mounts and resolves every mount point: *)
(* it waits for a daemon that does not answer yet, and passes over a mount *)
(* whose daemon is dead.                                                   *)
(***************************************************************************)
Resolvable(h) == ~\E q \in Proc : H(q) = h /\ mnt[q] = "mounted"
famfs_get_mpt_by_dev(h) == \E q \in Proc : H(q) = h /\ mnt[q] = "serving"

(* A meta file of p's mount can be opened; the open waits for the daemon. *)
Visible(p, f) == mnt[p] = "serving" /\ f \in shadow[p]
Answered(p) == mnt[p] # "mounted"

(***************************************************************************)
(* famfs_mount_fuse up to the fork, and famfs_dummy_mount before it.       *)
(***************************************************************************)
famfs_mount_fuse(p) ==
  /\ At(p, "mount") /\ Fuse(p)
  /\ Resolvable(H(p))
  /\ IF famfs_get_mpt_by_dev(H(p))
     THEN Return(p, -1) /\ UNCHANGED mnt
     ELSE \/ Return(p, -1) /\ UNCHANGED mnt   \* no shadow root, no fork
          \/ /\ mnt' = [mnt EXCEPT ![p] = "forked"]
             /\ Goto(p, "mkmeta_superblock")
  /\ UNCHANGED <<fccVars, shadow, played, stuck>>

(***************************************************************************)
(* famfs_fused: main() mounts, then serves.  If execv fails the child      *)
(* returns 0 like its parent and goes through the rest of famfs_mount_fuse *)
(* beside it: it makes the same meta file, finds no daemon and no mount to *)
(* undo, and exits.                                                        *)
(***************************************************************************)
famfs_start_fuse_daemon(p) ==
  /\ \/ /\ mnt[p] = "forked" /\ mnt' = [mnt EXCEPT ![p] = "mounted"]
        /\ UNCHANGED shadow
     \/ /\ Fuse(p) /\ mnt[p] = "mounted" /\ mnt' = [mnt EXCEPT ![p] = "serving"]
        /\ UNCHANGED shadow
     \/ /\ mnt[p] = "forked" /\ mnt' = [mnt EXCEPT ![p] = "dead"]
        /\ shadow' = [shadow EXCEPT ![p] = @ \cup {"superblock"}]
  /\ UNCHANGED <<fccVars, pc, rc, played, stuck>>

(* It may fail to mount, or die later: the mount then stays, unanswered. *)
DaemonDies(p) ==
  /\ Fuse(p) /\ ~At(p, "done")
  /\ \/ mnt[p] = "forked" /\ mnt' = [mnt EXCEPT ![p] = "dead"]
     \/ mnt[p] \in {"mounted", "serving"} /\ mnt' = [mnt EXCEPT ![p] = "zombie"]
  /\ UNCHANGED <<fccVars, pc, rc, shadow, played, stuck>>

(***************************************************************************)
(* The standalone mount: famfs_dummy_mount_v1 refuses a device that is     *)
(* mounted, the command line validates the superblock of a raw device.     *)
(***************************************************************************)
famfs_dummy_mount_v1(p) ==
  /\ At(p, "mount") /\ ~Fuse(p) /\ Dummy(p)
  /\ Resolvable(H(p))
  /\ \/ Return(p, -1) /\ UNCHANGED mnt        \* mounted, no module, mount(2) failed
     \/ /\ ~famfs_get_mpt_by_dev(H(p))
        /\ mnt' = [mnt EXCEPT ![p] = "serving"]
        /\ Goto(p, "mkmeta_superblock")
  /\ UNCHANGED <<fccVars, shadow, played, stuck>>

do_famfs_cli_mount(p) ==
  /\ At(p, "mount") /\ ~Fuse(p) /\ ~Dummy(p)
  /\ IF load.cmds[p].raw
     THEN famfs_mmap_superblock_and_log_raw(H(p), FALSE)
     ELSE UNCHANGED fccVars
  /\ \/ Return(p, -1) /\ UNCHANGED mnt
     \/ /\ load.cmds[p].raw =>
             famfs_get_role(H(p), SeenRaw(H(p))) # "FAMFS_NOSUPER"
        /\ mnt' = [mnt EXCEPT ![p] = "serving"]
        /\ Goto(p, "mkmeta_superblock")
  /\ UNCHANGED <<shadow, played, stuck>>

(***************************************************************************)
(* The meta files.  A shadow file that cannot be written is not an error   *)
(* here: it never appears.  The standalone mount sees the failure.         *)
(***************************************************************************)
mkmeta(p, f, next) ==
  /\ \/ shadow' = [shadow EXCEPT ![p] = @ \cup {f}] /\ Goto(p, next)
     \/ /\ IF Fuse(p) THEN Goto(p, next) ELSE Out(p, -1)
        /\ UNCHANGED shadow
  /\ UNCHANGED <<fccVars, mnt, played, stuck>>

famfs_mkmeta_superblock(p) ==
  At(p, "mkmeta_superblock") /\ mkmeta(p, "superblock", "wait_superblock")

famfs_mkmeta_log(p) == At(p, "mkmeta_log") /\ mkmeta(p, "log", "wait_log")

(* check_file_exists: the file shows before the time is over, or not. *)
check_file_exists(p, f, found, missing) ==
  /\ Answered(p)
  /\ IF Visible(p, f) THEN Goto(p, found) ELSE missing
  /\ UNCHANGED <<fccVars, mountVars>>

wait_superblock(p) ==
  /\ At(p, "wait_superblock")
  /\ check_file_exists(p, "superblock", "read_superblock",
                       IF Fuse(p) THEN Goto(p, "daemon_alive") ELSE Out(p, -1))

(* After the grace period: the socket answers only for a running daemon,   *)
(* and its thread may start later than the mount.                          *)
famfs_fuse_daemon_alive(p) ==
  /\ At(p, "daemon_alive")
  /\ \/ mnt[p] \in {"mounted", "serving"} /\ Goto(p, "wait_extra")
     \/ Out(p, -1)
  /\ UNCHANGED <<fccVars, mountVars>>

wait_extra(p) ==
  /\ At(p, "wait_extra")
  /\ check_file_exists(p, "superblock", "read_superblock", Out(p, -1))

wait_log(p) ==
  /\ At(p, "wait_log")
  /\ check_file_exists(p, "log", IF Dummy(p) THEN "ready" ELSE "logplay", Out(p, -1))

(***************************************************************************)
(* Role and log size from the superblock meta file.  A dummy mount does    *)
(* not ask for a valid superblock, except the standalone one of fsck and   *)
(* logplay.  Without a valid superblock those two have no log size: the    *)
(* FUSE code then uses an uninitialized one, zero or not.                  *)
(***************************************************************************)
famfs_get_role_and_logstats(p) ==
  LET role == famfs_get_role(H(p), Seen(H(p)))
      nosuper == role = "FAMFS_NOSUPER"
      sized == Op(p) = "mkfs"
  IN  /\ At(p, "read_superblock")
      /\ Answered(p)
      /\ IF ~Visible(p, "superblock")
         THEN Out(p, -1) /\ UNCHANGED fccVars
         ELSE /\ ReadSuper(H(p))
              /\ IF nosuper /\ ~sized
                 THEN IF Fuse(p) /\ Dummy(p)
                      THEN Goto(p, "mkmeta_log") \/ Goto(p, "ready")
                      ELSE Out(p, -1)
                 ELSE Goto(p, "mkmeta_log")
      /\ UNCHANGED mountVars

(***************************************************************************)
(* famfs_logplay through the mount: open and map the meta files, for which *)
(* the daemon must answer; invalidate the log; play it.  Once the files    *)
(* are open the daemon may die without the mount noticing.  How much of    *)
(* the log is invalidated is the length in the header that is cached:      *)
(* nothing if that is zero.  If some files of the log cannot be created    *)
(* the result is positive; the standalone mount then stays mounted,        *)
(* whatever the result.                                                    *)
(***************************************************************************)
LogplayFails(p, r) == IF Fuse(p) THEN Out(p, r) ELSE Return(p, r)

open_meta_files(p) ==
  /\ At(p, "logplay")
  /\ Answered(p)
  /\ IF Visible(p, "superblock") /\ Visible(p, "log")
     THEN Goto(p, "logplay_map")
     ELSE LogplayFails(p, -1)
  /\ UNCHANGED <<fccVars, mountVars>>

invalidate_log_cached(p) ==
  /\ At(p, "logplay_map")
  /\ Load(H(p), "log")
  /\ Goto(p, "logplay_play")
  /\ UNCHANGED mountVars

invalidate_log(p) ==
  /\ At(p, "logplay_map")
  /\ IF View(H(p), "log").magic
     THEN Invalidate(H(p), {"log"})
     ELSE Load(H(p), "log")
  /\ Goto(p, "logplay_play")
  /\ UNCHANGED mountVars

PlayLog_unvalidated(p, log) ==
  IF famfs_get_role(H(p), Seen(H(p))) = "FAMFS_NOSUPER"
  THEN LogplayFails(p, -1) /\ UNCHANGED played
  ELSE played' = [played EXCEPT ![p] = log] /\ Return(p, 0)

PlayLog(p, log) ==
  IF famfs_get_role(H(p), Seen(H(p))) = "FAMFS_NOSUPER" \/ ~log.magic
  THEN LogplayFails(p, -1) /\ UNCHANGED played
  ELSE /\ played' = [played EXCEPT ![p] = log]
       /\ Return(p, 0) \/ LogplayFails(p, 1)

play_log(p) ==
  /\ At(p, "logplay_play")
  /\ ReadLines(H(p), Lines)
  /\ PlayLog(p, View(H(p), "log"))
  /\ UNCHANGED <<mnt, shadow, stuck>>

famfs_logplay(p) == open_meta_files(p) \/ invalidate_log(p) \/ play_log(p)

(***************************************************************************)
(* famfs_umount gives up at once unless the mount is busy, and then after  *)
(* the last retry: a daemon that has not mounted yet is left running.      *)
(***************************************************************************)
famfs_umount(p) ==
  \/ /\ mnt[p] \in KernelMounts
     /\ mnt' = [mnt EXCEPT ![p] = "gone"]
     /\ UNCHANGED stuck
  \/ stuck' = stuck \cup {p} /\ UNCHANGED mnt

(* famfs_mount_fuse reports a failed unmount as 99. *)
mount_out_quiet(p) ==
  /\ At(p, "out")
  /\ famfs_umount(p)
  /\ Return(p, rc[p])
  /\ UNCHANGED <<fccVars, shadow, played>>

mount_out_errno(p) ==
  /\ At(p, "out")
  /\ famfs_umount(p)
  /\ Return(p, IF p \in stuck' THEN 16 ELSE rc[p])
  /\ UNCHANGED <<fccVars, shadow, played>>

mount_out(p) ==
  /\ At(p, "out")
  /\ famfs_umount(p)
  /\ Return(p, IF p \in stuck' THEN 99 ELSE rc[p])
  /\ UNCHANGED <<fccVars, shadow, played>>

(* The callers that unmount keep the result they have. *)
out_umount(p) ==
  /\ At(p, "out_umount")
  /\ famfs_umount(p)
  /\ Return(p, rc[p])
  /\ UNCHANGED <<fccVars, shadow, played>>

MountStep(p) ==
  \/ famfs_mount_fuse(p) \/ famfs_start_fuse_daemon(p)
  \/ famfs_dummy_mount_v1(p) \/ do_famfs_cli_mount(p)
  \/ famfs_mkmeta_superblock(p) \/ wait_superblock(p)
  \/ famfs_fuse_daemon_alive(p) \/ wait_extra(p)
  \/ famfs_get_role_and_logstats(p)
  \/ famfs_mkmeta_log(p) \/ wait_log(p)
  \/ famfs_logplay(p) \/ mount_out(p) \/ out_umount(p)
=============================================================================
