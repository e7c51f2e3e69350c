----------------------------- MODULE MkfsProofs -----------------------------
(***************************************************************************)
(* NothingLeftBehind and SuccessIsMounted for every load: any number of    *)
(* commands on any number of hosts, at the same time or in sequence, with  *)
(* any number of crashes.  The second part begins the proof of DeviceInv,  *)
(* which MkfsDurability ends: what the caches do to the lines of the       *)
(* superblock and the log, and what the stores of mkfs keep.               *)
(***************************************************************************)
EXTENDS MkfsInv, TLAPS

(* The invariant is local: a step of p need only reestablish it for p. *)
LEMMA Local ==
  ASSUME IInv, NEW p \in Proc, Only(p), Phase(p)', Left(p)', Mounted(p)'
  PROVE  IInv'
<1>1. Proc' = Proc
  BY DEF Only, Proc
<1>2. ASSUME NEW q \in Proc, q # p
      PROVE  Phase(q)' /\ Left(q)' /\ Mounted(q)'
  <2>1. /\ pc'[q] = pc[q] /\ rc'[q] = rc[q] /\ mnt'[q] = mnt[q] /\ played'[q] = played[q]
        /\ load' = load /\ stuck \subseteq stuck'
    BY <1>2 DEF Only
  <2>2. Phase(q) /\ Left(q) /\ Mounted(q)
    BY <1>2 DEF IInv
  <2>3. Phase(q)'
    BY <2>1, <2>2 DEF Phase, Dummy, Raw, Op, Fuse
  <2>4. Left(q)'
    BY <2>1, <2>2 DEF Left, At, Dummy, Op, Fuse, KernelMounts
  <2>5. Mounted(q)'
    BY <2>1, <2>2 DEF Mounted, At, Op
  <2> QED
    BY <2>3, <2>4, <2>5
<1> QED
  BY <1>1, <1>2 DEF IInv, Only


(* The steps of famfs mount, of its daemon and of a dummy mount.           *)
LEMMA MountSteps ==
  ASSUME IInv, NEW p \in Proc, UNCHANGED load
  PROVE  /\ famfs_mount_fuse(p) => IInv'
         /\ famfs_start_fuse_daemon(p) => IInv'
         /\ famfs_dummy_mount_v1(p) => IInv'
         /\ do_famfs_cli_mount(p) => IInv'
         /\ famfs_mkmeta_superblock(p) => IInv'
         /\ wait_superblock(p) => IInv'
         /\ famfs_fuse_daemon_alive(p) => IInv'
         /\ wait_extra(p) => IInv'
         /\ famfs_get_role_and_logstats(p) => IInv'
         /\ famfs_mkmeta_log(p) => IInv'
         /\ wait_log(p) => IInv'
         /\ famfs_logplay(p) => IInv'
         /\ mount_out(p) => IInv'
         /\ out_umount(p) => IInv'
(* famfs_mount_fuse forks a daemon or returns before it has anything to undo. *)
<1>1. famfs_mount_fuse(p) => IInv'
  <2> HAVE famfs_mount_fuse(p)
  <2>1. Only(p)
    BY DEF famfs_mount_fuse, Resolvable, IInv, Only, MntState, PcState, CommandPcs, At,
           Goto, Set, Return
  <2>2. Phase(p)'
    BY DEF famfs_mount_fuse, Resolvable, IInv, Phase, CommandPcs, At, Goto, Set, Return,
           Dummy, Raw, Op, Fuse
  <2>3. Left(p)' /\ Mounted(p)'
    BY DEF famfs_mount_fuse, Resolvable, IInv, Phase, CommandPcs, Left, Mounted,
           KernelMounts, At, Goto, Set, Return, Dummy, Raw, Op, Fuse
  <2> QED
    BY <2>1, <2>2, <2>3, Local
(* The daemon only moves on from forked, or from mounted: no mount reappears. *)
<1>2. famfs_start_fuse_daemon(p) => IInv'
  <2> HAVE famfs_start_fuse_daemon(p)
  <2>1. Only(p)
    BY DEF famfs_start_fuse_daemon, IInv, Only, MntState, PcState, CommandPcs
  <2>2. Phase(p)'
    BY DEF famfs_start_fuse_daemon, IInv, Phase, CommandPcs, Dummy, Raw, Op, Fuse
  <2>3. Left(p)' /\ Mounted(p)'
    BY DEF famfs_start_fuse_daemon, IInv, Phase, CommandPcs, Left, Mounted, KernelMounts,
           At, Dummy, Raw, Op, Fuse
  <2> QED
    BY <2>1, <2>2, <2>3, Local
(* famfs_dummy_mount_v1 returns -1 before mount(2), or goes on mounted. *)
<1>3. famfs_dummy_mount_v1(p) => IInv'
  <2> HAVE famfs_dummy_mount_v1(p)
  <2>1. Only(p)
    BY DEF famfs_dummy_mount_v1, IInv, Only, MntState, PcState, CommandPcs, At, Goto, Set,
           Return
  <2>2. Phase(p)'
    BY DEF famfs_dummy_mount_v1, IInv, Phase, CommandPcs, At, Goto, Set, Return, Dummy, Raw,
           Op, Fuse
  <2>3. Left(p)' /\ Mounted(p)'
    BY DEF famfs_dummy_mount_v1, IInv, Phase, CommandPcs, Left, Mounted, KernelMounts, At,
           Goto, Set, Return, Dummy, Raw, Op, Fuse
  <2> QED
    BY <2>1, <2>2, <2>3, Local
(* The standalone mount returns -1 before mount(2), or goes on mounted. *)
<1>4. do_famfs_cli_mount(p) => IInv'
  <2> HAVE do_famfs_cli_mount(p)
  <2>1. Only(p)
    BY DEF do_famfs_cli_mount, IInv, Only, MntState, PcState, CommandPcs, At, Goto, Set,
           Return
  <2>2. Phase(p)'
    BY DEF do_famfs_cli_mount, IInv, Phase, CommandPcs, At, Goto, Set, Return, Dummy, Raw,
           Op, Fuse
  <2>3. Left(p)' /\ Mounted(p)'
    BY DEF do_famfs_cli_mount, IInv, Phase, CommandPcs, Left, Mounted, KernelMounts, At,
           Goto, Set, Return, Dummy, Raw, Op, Fuse
  <2> QED
    BY <2>1, <2>2, <2>3, Local
(* Failing to make .meta/.superblock leads to the unmount, never to 0. *)
<1>5. famfs_mkmeta_superblock(p) => IInv'
  <2> HAVE famfs_mkmeta_superblock(p)
  <2>1. Only(p)
    BY DEF famfs_mkmeta_superblock, mkmeta, IInv, Only, MntState, PcState, CommandPcs, At,
           Goto, Set, Out
  <2>2. Phase(p)'
    BY DEF famfs_mkmeta_superblock, mkmeta, IInv, Phase, CommandPcs, At, Goto, Set, Out,
           Dummy, Raw, Op, Fuse
  <2>3. Left(p)' /\ Mounted(p)'
    BY DEF famfs_mkmeta_superblock, mkmeta, IInv, Phase, CommandPcs, Left, Mounted,
           KernelMounts, At, Goto, Set, Out, Dummy, Raw, Op, Fuse
  <2> QED
    BY <2>1, <2>2, <2>3, Local
(* A superblock that does not show leads on, or to the unmount. *)
<1>6. wait_superblock(p) => IInv'
  <2> HAVE wait_superblock(p)
  <2>1. Only(p)
    BY DEF wait_superblock, check_file_exists, Visible, mountVars, IInv, Only, MntState,
           PcState, CommandPcs, At, Goto, Set, Out
  <2>2. Phase(p)'
    BY DEF wait_superblock, check_file_exists, Visible, mountVars, IInv, Phase, CommandPcs,
           At, Goto, Set, Out, Dummy, Raw, Op, Fuse
  <2>3. Left(p)' /\ Mounted(p)'
    BY DEF wait_superblock, check_file_exists, Visible, mountVars, IInv, Phase, CommandPcs,
           Left, Mounted, KernelMounts, At, Goto, Set, Out, Dummy, Raw, Op, Fuse
  <2> QED
    BY <2>1, <2>2, <2>3, Local
(* A daemon that is not alive leads to the unmount. *)
<1>7. famfs_fuse_daemon_alive(p) => IInv'
  <2> HAVE famfs_fuse_daemon_alive(p)
  <2>1. Only(p)
    BY DEF famfs_fuse_daemon_alive, mountVars, IInv, Only, MntState, PcState, CommandPcs,
           At, Goto, Set, Out
  <2>2. Phase(p)'
    BY DEF famfs_fuse_daemon_alive, mountVars, IInv, Phase, CommandPcs, At, Goto, Set, Out,
           Dummy, Raw, Op, Fuse
  <2>3. Left(p)' /\ Mounted(p)'
    BY DEF famfs_fuse_daemon_alive, mountVars, IInv, Phase, CommandPcs, Left, Mounted,
           KernelMounts, At, Goto, Set, Out, Dummy, Raw, Op, Fuse
  <2> QED
    BY <2>1, <2>2, <2>3, Local
(* The second wait for the superblock ends in the unmount at worst. *)
<1>8. wait_extra(p) => IInv'
  <2> HAVE wait_extra(p)
  <2>1. Only(p)
    BY DEF wait_extra, check_file_exists, Visible, mountVars, IInv, Only, MntState, PcState,
           CommandPcs, At, Goto, Set, Out
  <2>2. Phase(p)'
    BY DEF wait_extra, check_file_exists, Visible, mountVars, IInv, Phase, CommandPcs, At,
           Goto, Set, Out, Dummy, Raw, Op, Fuse
  <2>3. Left(p)' /\ Mounted(p)'
    BY DEF wait_extra, check_file_exists, Visible, mountVars, IInv, Phase, CommandPcs, Left,
           Mounted, KernelMounts, At, Goto, Set, Out, Dummy, Raw, Op, Fuse
  <2> QED
    BY <2>1, <2>2, <2>3, Local
(* Only a dummy mount goes on without a valid superblock. *)
<1>9. famfs_get_role_and_logstats(p) => IInv'
  <2> HAVE famfs_get_role_and_logstats(p)
  <2>1. Only(p)
    BY DEF famfs_get_role_and_logstats, mountVars, IInv, Only, MntState, PcState,
           CommandPcs, At, Goto, Set, Out
  <2>2. Phase(p)'
    BY DEF famfs_get_role_and_logstats, mountVars, IInv, Phase, CommandPcs, At, Goto, Set,
           Out, Dummy, Raw, Op, Fuse
  <2>3. Left(p)' /\ Mounted(p)'
    BY DEF famfs_get_role_and_logstats, mountVars, IInv, Phase, CommandPcs, Left, Mounted,
           KernelMounts, At, Goto, Set, Out, Dummy, Raw, Op, Fuse
  <2> QED
    BY <2>1, <2>2, <2>3, Local
(* Failing to make .meta/.log leads to the unmount, never to 0. *)
<1>10. famfs_mkmeta_log(p) => IInv'
  <2> HAVE famfs_mkmeta_log(p)
  <2>1. Only(p)
    BY DEF famfs_mkmeta_log, mkmeta, IInv, Only, MntState, PcState, CommandPcs, At, Goto,
           Set, Out
  <2>2. Phase(p)'
    BY DEF famfs_mkmeta_log, mkmeta, IInv, Phase, CommandPcs, At, Goto, Set, Out, Dummy,
           Raw, Op, Fuse
  <2>3. Left(p)' /\ Mounted(p)'
    BY DEF famfs_mkmeta_log, mkmeta, IInv, Phase, CommandPcs, Left, Mounted, KernelMounts,
           At, Goto, Set, Out, Dummy, Raw, Op, Fuse
  <2> QED
    BY <2>1, <2>2, <2>3, Local
(* Only a mount goes on to logplay, only the others to their command. *)
<1>11. wait_log(p) => IInv'
  <2> HAVE wait_log(p)
  <2>1. Only(p)
    BY DEF wait_log, check_file_exists, Visible, mountVars, IInv, Only, MntState, PcState,
           CommandPcs, At, Goto, Set, Out
  <2>2. Phase(p)'
    BY DEF wait_log, check_file_exists, Visible, mountVars, IInv, Phase, CommandPcs, At,
           Goto, Set, Out, Dummy, Raw, Op, Fuse
  <2>3. Left(p)' /\ Mounted(p)'
    BY DEF wait_log, check_file_exists, Visible, mountVars, IInv, Phase, CommandPcs, Left,
           Mounted, KernelMounts, At, Goto, Set, Out, Dummy, Raw, Op, Fuse
  <2> QED
    BY <2>1, <2>2, <2>3, Local
(* famfs_logplay returns 0 only after it played a log with a valid header, *)
(* through files that the daemon of this very mount showed.                *)
<1>12. famfs_logplay(p) => IInv'
  <2> HAVE famfs_logplay(p)
  <2>1. CASE open_meta_files(p)
    <3>1. /\ At(p, "logplay") /\ UNCHANGED <<mnt, stuck, played>>
          /\ \/ mnt[p] = "serving" /\ Goto(p, "logplay_map")
             \/ IF Fuse(p) THEN Out(p, -1) ELSE Return(p, -1)
      BY <2>1 DEF open_meta_files, LogplayFails, Visible, mountVars
    <3>2. Only(p)
      BY <3>1 DEF IInv, Only, MntState, PcState, CommandPcs, At, Goto, Set, Return, Out
    <3>3. Phase(p)'
      BY <3>1 DEF IInv, Phase, CommandPcs, At, Goto, Set, Return, Out, Dummy, Raw, Op, Fuse
    <3>4. Left(p)' /\ Mounted(p)'
      BY <3>1 DEF IInv, Phase, Left, Mounted, KernelMounts, At, Goto, Set, Return, Out,
             Dummy, Raw, Op, Fuse
    <3> QED
      BY <3>2, <3>3, <3>4, Local
  <2>2. CASE invalidate_log(p)
    <3>1. /\ At(p, "logplay_map") /\ UNCHANGED <<mnt, stuck, played>>
          /\ Goto(p, "logplay_play")
      BY <2>2 DEF invalidate_log, mountVars
    <3>2. Only(p)
      BY <3>1 DEF IInv, Only, MntState, PcState, CommandPcs, At, Goto
    <3>3. Phase(p)'
      BY <3>1 DEF IInv, Phase, CommandPcs, At, Goto, Dummy, Raw, Op, Fuse
    <3>4. Left(p)' /\ Mounted(p)'
      BY <3>1 DEF IInv, Phase, Left, Mounted, KernelMounts, At, Goto, Dummy, Raw, Op, Fuse
    <3> QED
      BY <3>2, <3>3, <3>4, Local
  <2>3. CASE play_log(p)
    <3> DEFINE Fail(r) == IF Fuse(p) THEN Out(p, r) ELSE Return(p, r)
    <3>1. /\ At(p, "logplay_play") /\ UNCHANGED <<mnt, stuck>>
          /\ \/ Fail(-1) /\ UNCHANGED played
             \/ \E log : /\ log.magic
                         /\ played' = [played EXCEPT ![p] = log]
                         /\ Return(p, 0) \/ Fail(1)
      BY <2>3 DEF play_log, PlayLog, LogplayFails
    <3>2. Only(p)
      BY <3>1 DEF IInv, Only, MntState, PcState, CommandPcs, At, Set, Return, Out
    <3>3. Phase(p)'
      BY <3>1 DEF IInv, Phase, CommandPcs, At, Set, Return, Out, Dummy, Raw, Op, Fuse
    <3>4. Left(p)' /\ Mounted(p)'
      BY <3>1 DEF IInv, Phase, Left, Mounted, KernelMounts, At, Set, Return, Out, Dummy, Raw,
             Op, Fuse
    <3> QED
      BY <3>2, <3>3, <3>4, Local
  <2> QED
    BY <2>1, <2>2, <2>3 DEF famfs_logplay
(* famfs_mount_fuse's out: unmounted, or 99. *)
<1>13. mount_out(p) => IInv'
  <2> HAVE mount_out(p)
  <2>1. Only(p)
    BY DEF mount_out, famfs_umount, IInv, Only, MntState, PcState, CommandPcs, At, Set,
           Return
  <2>2. Phase(p)'
    BY DEF mount_out, famfs_umount, KernelMounts, IInv, Phase, CommandPcs, At, Set, Return,
           Dummy, Raw, Op, Fuse
  <2>3. Left(p)' /\ Mounted(p)'
    BY DEF mount_out, famfs_umount, IInv, Phase, CommandPcs, Left, Mounted, KernelMounts,
           At, Set, Return, Dummy, Raw, Op, Fuse
  <2> QED
    BY <2>1, <2>2, <2>3, Local
(* The callers that unmount: unmounted, or recorded as stuck. *)
<1>14. out_umount(p) => IInv'
  <2> HAVE out_umount(p)
  <2>1. Only(p)
    BY DEF out_umount, famfs_umount, IInv, Only, MntState, PcState, CommandPcs, At, Set,
           Return
  <2>2. Phase(p)'
    BY DEF out_umount, famfs_umount, KernelMounts, IInv, Phase, CommandPcs, At, Set, Return,
           Dummy, Raw, Op, Fuse
  <2>3. Left(p)' /\ Mounted(p)'
    BY DEF out_umount, famfs_umount, IInv, Phase, CommandPcs, Left, Mounted, KernelMounts,
           At, Set, Return, Dummy, Raw, Op, Fuse
  <2> QED
    BY <2>1, <2>2, <2>3, Local
<1> QED
  BY <1>1, <1>2, <1>3, <1>4, <1>5, <1>6, <1>7, <1>8, <1>9, <1>10, <1>11, <1>12, <1>13, <1>14

(* A command that has its device or its dummy mount and goes on to its     *)
(* next step leaves the mount alone.                                       *)
LEMMA GoesOn ==
  ASSUME IInv, NEW p \in Proc, UNCHANGED <<load, mnt, played, stuck>>,
         pc[p] \in CommandPcs, NEW step \in CommandPcs \ {"raw"}, Goto(p, step)
  PROVE  IInv'
<1>1. /\ pc \in [Proc -> PcState] /\ pc' = [pc EXCEPT ![p] = step]
      /\ step \in PcState /\ UNCHANGED <<rc, load, mnt, played, stuck>>
  BY DEF IInv, Goto, PcState
<1>2. pc'[p] = step /\ step \in CommandPcs /\ step # "raw"
  BY <1>1
<1>3. Only(p)
  BY <1>1 DEF IInv, Only
<1>4. Phase(p) /\ Dummy(p)
  BY DEF IInv, Phase
<1>5. Phase(p)'
  BY <1>1, <1>2, <1>4 DEF Phase, CommandPcs, Dummy, Raw, Op, Fuse
<1>6. Left(p)' /\ Mounted(p)'
  BY <1>1, <1>2 DEF Left, Mounted, CommandPcs, At
<1> QED
  BY <1>3, <1>5, <1>6, Local

(* A command without a mount returns. *)
LEMMA Returns ==
  ASSUME IInv, NEW p \in Proc, UNCHANGED <<load, mnt, stuck>>, NEW v,
         played' = played \/ played' = [played EXCEPT ![p] = v],
         pc[p] \in CommandPcs, mnt[p] = "none", NEW r \in Int, Return(p, r)
  PROVE  IInv'
<1>1. /\ pc \in [Proc -> PcState] /\ pc' = [pc EXCEPT ![p] = "done"]
      /\ rc \in [Proc -> Int] /\ rc' = [rc EXCEPT ![p] = r]
      /\ "done" \in PcState /\ UNCHANGED <<load, mnt, stuck>>
  BY DEF IInv, Return, Set, PcState
<1>2. pc'[p] = "done" /\ mnt'[p] = "none"
  BY <1>1
<1>3. Only(p)
  BY <1>1 DEF IInv, Only
<1>4. Phase(p) /\ Dummy(p)
  BY DEF IInv, Phase
<1>5. Phase(p)'
  BY <1>1, <1>2, <1>4 DEF Phase, CommandPcs, Dummy, Raw, Op, Fuse
<1>6. Left(p)' /\ Mounted(p)'
  BY <1>1, <1>2, <1>4 DEF Left, Mounted, KernelMounts, Dummy, Op, At
<1> QED
  BY <1>3, <1>5, <1>6, Local

(* A command on a dummy mount goes to the unmount. *)
LEMMA Unmounts ==
  ASSUME IInv, NEW p \in Proc, UNCHANGED <<load, mnt, stuck>>, NEW v,
         played' = played \/ played' = [played EXCEPT ![p] = v],
         pc[p] \in CommandPcs, NEW r \in Int, Unmount(p, r)
  PROVE  IInv'
<1>1. /\ pc \in [Proc -> PcState] /\ pc' = [pc EXCEPT ![p] = "out_umount"]
      /\ rc \in [Proc -> Int] /\ rc' = [rc EXCEPT ![p] = r]
      /\ "out_umount" \in PcState /\ UNCHANGED <<load, mnt, stuck>>
  BY DEF IInv, Unmount, Set, PcState
<1>2. pc'[p] = "out_umount"
  BY <1>1
<1>3. Only(p)
  BY <1>1 DEF IInv, Only
<1>4. Phase(p) /\ Dummy(p)
  BY DEF IInv, Phase
<1>5. Phase(p)'
  BY <1>1, <1>2, <1>4 DEF Phase, CommandPcs, Dummy, Raw, Op, Fuse
<1>6. Left(p)' /\ Mounted(p)'
  BY <1>2 DEF Left, Mounted, At
<1> QED
  BY <1>3, <1>5, <1>6, Local

(* A command ends one way or the other. *)
LEMMA Finishes ==
  ASSUME IInv, NEW p \in Proc, UNCHANGED <<load, mnt, played, stuck>>,
         pc[p] \in CommandPcs, NEW r \in Int, Finish(p, r)
  PROVE  IInv'
<1>1. Dummy(p) /\ (Raw(p) => mnt[p] = "none")
  BY DEF IInv, Phase
<1>2. IF Raw(p) THEN Return(p, r) ELSE Unmount(p, r)
  BY DEF Finish
<1> QED
  BY <1>1, <1>2, Returns, Unmounts

(* The steps of mkfs, fsck, logplay and kill.                               *)
LEMMA MkfsSteps ==
  ASSUME IInv, NEW p \in Proc, UNCHANGED load
  PROVE  /\ Begin(p) => IInv'
         /\ famfs_mkfs_rawdev(p) => IInv'
         /\ famfs_fsck(p) => IInv'
         /\ famfs_dax_shadow_logplay(p) => IInv'
         /\ famfs_mkfs_via_dummy_mount(p) => IInv'
         /\ famfs_map_log_by_path(p) => IInv'
         /\ famfs_fsck_mounted(p) => IInv'
         /\ famfs_kill_superblock(p) => IInv'
         /\ mkfs_check(p) => IInv'
         /\ mkfs_uuid(p) => IInv'
         /\ mkfs_superblock(p) => IInv'
         /\ mkfs_log(p) => IInv'
         /\ mkfs_flush(p) => IInv'
(* A command on a raw device mounts nothing. *)
<1>1. Begin(p) => IInv'
  <2> HAVE Begin(p)
  <2>1. Only(p)
    BY DEF Begin, mountVars, IInv, Only, MntState, PcState, CommandPcs, At, Goto
  <2>2. Phase(p)'
    BY DEF Begin, mountVars, IInv, Phase, CommandPcs, At, Goto, Dummy, Raw, Op, Fuse
  <2>3. Left(p)' /\ Mounted(p)'
    BY DEF Begin, mountVars, IInv, Phase, CommandPcs, Left, Mounted, KernelMounts, At, Goto,
           Dummy, Raw, Op, Fuse
  <2> QED
    BY <2>1, <2>2, <2>3, Local
(* mkfs of a raw device has no mount. *)
<1>2. famfs_mkfs_rawdev(p) => IInv'
  <2> HAVE famfs_mkfs_rawdev(p)
  <2>1. /\ pc[p] \in {"raw"} /\ UNCHANGED <<mnt, played, stuck>>
        /\ Return(p, -1) \/ Goto(p, "kill") \/ Goto(p, "mkfs")
    BY DEF famfs_mkfs_rawdev, Avoid, Enter, mountVars, At
  <2>2. mnt[p] = "none"
    BY <2>1 DEF IInv, Phase
  <2> QED
    BY <2>1, <2>2, Returns, GoesOn DEF CommandPcs
(* fsck of a raw device has no mount. *)
<1>3. famfs_fsck(p) => IInv'
  <2> HAVE famfs_fsck(p)
  <2>1. /\ pc[p] \in {"raw"} /\ UNCHANGED <<mnt, played, stuck>>
        /\ Return(p, -1) \/ Return(p, 0)
    BY DEF famfs_fsck, mountVars, At
  <2>2. mnt[p] = "none"
    BY <2>1 DEF IInv, Phase
  <2> QED
    BY <2>1, <2>2, Returns DEF CommandPcs
(* logplay of a raw device has no mount. *)
<1>4. famfs_dax_shadow_logplay(p) => IInv'
  <2> HAVE famfs_dax_shadow_logplay(p)
  <2>1. /\ pc[p] \in {"raw"} /\ UNCHANGED <<mnt, stuck>>
        /\ Return(p, -1) \/ Return(p, 0) \/ Return(p, 1) \/ Return(p, -9)
        /\ played' = played \/ \E v : played' = [played EXCEPT ![p] = v]
    BY DEF famfs_dax_shadow_logplay, At
  <2>2. mnt[p] = "none"
    BY <2>1 DEF IInv, Phase
  <2> QED
    BY <2>1, <2>2, Returns DEF CommandPcs
(* mkfs on a dummy mount goes on or unmounts. *)
<1>5. famfs_mkfs_via_dummy_mount(p) => IInv'
  <2> HAVE famfs_mkfs_via_dummy_mount(p)
  <2>1. /\ pc[p] \in {"ready"} /\ UNCHANGED <<mnt, played, stuck>>
        /\ Unmount(p, -1) \/ Goto(p, "kill") \/ Goto(p, "map_log")
    BY DEF famfs_mkfs_via_dummy_mount, Avoid, Enter, mountVars, At
  <2> QED
    BY <2>1, Unmounts, GoesOn DEF CommandPcs
(* A log that cannot be mapped leads to the unmount. *)
<1>6. famfs_map_log_by_path(p) => IInv'
  <2> HAVE famfs_map_log_by_path(p)
  <2>1. /\ pc[p] \in {"map_log"} /\ UNCHANGED <<mnt, played, stuck>>
        /\ Unmount(p, -1) \/ Goto(p, "mkfs")
    BY DEF famfs_map_log_by_path, Avoid, Enter, mountVars, At
  <2> QED
    BY <2>1, Unmounts, GoesOn DEF CommandPcs
(* fsck and logplay on a dummy mount unmount it, whatever they find. *)
<1>7. famfs_fsck_mounted(p) => IInv'
  <2> HAVE famfs_fsck_mounted(p)
  <2>1. /\ pc[p] \in {"ready"} /\ UNCHANGED <<mnt, stuck>>
        /\ Unmount(p, -1) \/ Unmount(p, 0) \/ Unmount(p, 1)
        /\ played' = played \/ \E v : played' = [played EXCEPT ![p] = v]
    BY DEF famfs_fsck_mounted, At
  <2> QED
    BY <2>1, Unmounts DEF CommandPcs
(* kill unmounts its dummy mount after the flush. *)
<1>8. famfs_kill_superblock(p) => IInv'
  <2> HAVE famfs_kill_superblock(p)
  <2>1. /\ pc[p] \in {"kill", "kill_flush"} /\ UNCHANGED <<mnt, played, stuck>>
        /\ Goto(p, "kill_flush") \/ Finish(p, 0)
    BY DEF famfs_kill_superblock, Succeeds, mountVars, At
  <2> QED
    BY <2>1, GoesOn, Finishes DEF CommandPcs
(* A refused mkfs unmounts its dummy mount. *)
<1>9. mkfs_check(p) => IInv'
  <2> HAVE mkfs_check(p)
  <2>1. /\ pc[p] \in {"mkfs"} /\ UNCHANGED <<mnt, played, stuck>>
        /\ Goto(p, "mkfs_uuid") \/ Finish(p, -1)
    BY DEF mkfs_check, mountVars, At
  <2> QED
    BY <2>1, GoesOn, Finishes DEF CommandPcs
(* A mkfs without a system uuid unmounts its dummy mount. *)
<1>10. mkfs_uuid(p) => IInv'
  <2> HAVE mkfs_uuid(p)
  <2>1. /\ pc[p] \in {"mkfs_uuid"} /\ UNCHANGED <<mnt, played, stuck>>
        /\ Goto(p, "mkfs_sb0") \/ Finish(p, -1)
    BY DEF mkfs_uuid, mountVars, At
  <2> QED
    BY <2>1, GoesOn, Finishes DEF CommandPcs
(* The stores of the superblock leave the mount alone. *)
<1>11. mkfs_superblock(p) => IInv'
  <2> HAVE mkfs_superblock(p)
  <2>1. /\ pc[p] \in {"mkfs_sb0", "mkfs_crc"} /\ UNCHANGED <<mnt, played, stuck>>
        /\ Goto(p, "mkfs_crc") \/ Goto(p, "mkfs_memset") \/ Finish(p, -1)
    BY Zenon DEF mkfs_superblock, mkfs_not_writable, StoreStep, mountVars, At
  <2> QED
    BY <2>1, GoesOn, Finishes DEF CommandPcs
(* The stores of the log leave the mount alone. *)
<1>12. mkfs_log(p) => IInv'
  <2> HAVE mkfs_log(p)
  <2>1. /\ pc[p] \in {"mkfs_memset", "mkfs_log"} /\ UNCHANGED <<mnt, played, stuck>>
        /\ Goto(p, "mkfs_log") \/ Goto(p, "mkfs_flush_log")
    BY Zenon DEF mkfs_log, StoreStep, mountVars, At
  <2> QED
    BY <2>1, GoesOn DEF CommandPcs
(* The last flush is followed by the unmount. *)
<1>13. mkfs_flush(p) => IInv'
  <2> HAVE mkfs_flush(p)
  <2>1. /\ pc[p] \in {"mkfs_flush_log", "mkfs_flush_superblock"} /\ UNCHANGED <<mnt, played, stuck>>
        /\ Goto(p, "mkfs_flush_superblock") \/ Finish(p, 0)
    BY DEF mkfs_flush, Succeeds, mountVars, At
  <2> QED
    BY <2>1, GoesOn, Finishes DEF CommandPcs
<1> QED
  BY <1>1, <1>2, <1>3, <1>4, <1>5, <1>6, <1>7, <1>8, <1>9, <1>10, <1>11, <1>12, <1>13

(* What is done to a command and to its mount from outside.                *)
LEMMA OutsideSteps ==
  ASSUME IInv, NEW p \in Proc, UNCHANGED load
  PROVE  /\ Umount(p) => IInv'
         /\ DaemonDies(p) => IInv'
         /\ KillProcess(p) => IInv'
(* An administrator's umount only makes a finished mount gone. *)
<1>1. Umount(p) => IInv'
  <2> HAVE Umount(p)
  <2>1. Only(p)
    BY DEF Umount, IInv, Only, MntState, PcState, CommandPcs, At
  <2>2. Phase(p)'
    BY DEF Umount, IInv, Phase, CommandPcs, At, Dummy, Raw, Op, Fuse
  <2>3. Left(p)' /\ Mounted(p)'
    BY DEF Umount, IInv, Phase, CommandPcs, Left, Mounted, KernelMounts, At, Dummy, Raw, Op,
           Fuse
  <2> QED
    BY <2>1, <2>2, <2>3, Local
(* A daemon dies only under a command that has not returned yet. *)
<1>2. DaemonDies(p) => IInv'
  <2> HAVE DaemonDies(p)
  <2>1. Only(p)
    BY DEF DaemonDies, IInv, Only, MntState, PcState, CommandPcs, At
  <2>2. Phase(p)'
    BY DEF DaemonDies, IInv, Phase, CommandPcs, At, Dummy, Raw, Op, Fuse
  <2>3. Left(p)' /\ Mounted(p)'
    BY DEF DaemonDies, IInv, Phase, CommandPcs, Left, Mounted, KernelMounts, At, Dummy, Raw,
           Op, Fuse
  <2> QED
    BY <2>1, <2>2, <2>3, Local
(* A process that is killed returns -9 and may leave anything. *)
<1>3. KillProcess(p) => IInv'
  <2> HAVE KillProcess(p)
  <2>1. /\ pc \in [Proc -> PcState] /\ pc' = [pc EXCEPT ![p] = "done"] /\ "done" \in PcState
        /\ rc \in [Proc -> Int] /\ rc' = [rc EXCEPT ![p] = -9]
        /\ UNCHANGED <<mnt, played>> /\ stuck' = stuck \cup {p}
    BY DEF KillProcess, IInv, PcState, Set, Return
  <2>2. Only(p) /\ pc'[p] = "done" /\ rc'[p] = -9
    BY <2>1 DEF IInv, Only
  <2>3. Phase(p) /\ Phase(p)'
    BY <2>1, <2>2 DEF IInv, Phase, CommandPcs, Dummy, Raw, Op, Fuse
  <2>4. Left(p)' /\ Mounted(p)'
    BY <2>2 DEF Left, Mounted
  <2> QED
    BY <2>2, <2>3, <2>4, Local
<1> QED
  BY <1>1, <1>2, <1>3

(* A host that loses power takes its processes and its mounts with it. *)
LEMMA HostCrash_step ==
  ASSUME IInv, NEW h \in Host, UNCHANGED load, HostCrash(h)
  PROVE  IInv'
<1>1. Proc' = Proc
  BY DEF Proc
<1>2. /\ pc' \in [Proc -> PcState] /\ rc' \in [Proc -> Int] /\ mnt' \in [Proc -> MntState]
      /\ DOMAIN played' = Proc
  BY DEF HostCrash, IInv, PcState, MntState
<1>3. ASSUME NEW p \in Proc
      PROVE  Phase(p)' /\ Left(p)' /\ Mounted(p)'
  <2>1. Phase(p) /\ Left(p) /\ Mounted(p)
    BY DEF IInv
  <2>2. Phase(p)'
    BY <2>1 DEF HostCrash, Running, Phase, CommandPcs, Dummy, Raw, Op, Fuse
  <2>3. Left(p)' /\ Mounted(p)'
    BY <2>1 DEF HostCrash, Running, Left, Mounted, KernelMounts, At, Dummy, Op, Fuse
  <2> QED
    BY <2>2, <2>3
<1> QED
  BY <1>1, <1>2, <1>3 DEF IInv

(* Nothing else moves a process or a mount. *)
LEMMA Quiet ==
  ASSUME IInv, UNCHANGED <<load, pc, rc, mnt, played, stuck>>
  PROVE  IInv'
<1>1. Proc' = Proc
  BY DEF Proc
<1> QED
  BY <1>1 DEF IInv, Phase, Left, Mounted, At, Dummy, Raw, Op, Fuse

(* The invariant holds before any command has begun (Init of Mkfs). *)
LEMMA IInvInit == Init => IInv
BY DEF Init, IInv, Phase, Left, Mounted, At, PcState, MntState, CommandPcs

(* Every step of every command, of a daemon, a cache or a crash keeps it. *)
LEMMA IInvNext == IInv /\ [Next]_vars => IInv'
<1> SUFFICES ASSUME IInv, [Next]_vars PROVE IInv'
  OBVIOUS
<1>1. CASE UNCHANGED vars
  BY <1>1, Quiet DEF vars, mountVars
<1>2. ASSUME Next PROVE IInv'
  <2>1. UNCHANGED load
    BY <1>2 DEF Next
  <2>2. ASSUME NEW p \in Proc, MountStep(p) PROVE IInv'
    BY <2>1, <2>2, MountSteps DEF MountStep
  <2>3. ASSUME NEW p \in Proc, MkfsStep(p) PROVE IInv'
    BY <2>1, <2>3, MkfsSteps DEF MkfsStep
  <2>4. ASSUME NEW p \in Proc, Umount(p) PROVE IInv'
    BY <2>1, <2>4, OutsideSteps
  <2>5. CASE CacheStep
    BY <2>1, <2>5, Quiet DEF CacheStep, mountVars
  <2>6. CASE Crash
    BY <2>1, <2>6, OutsideSteps, HostCrash_step DEF Crash
  <2> QED
    BY <1>2, <2>2, <2>3, <2>4, <2>5, <2>6 DEF Next, Process
<1> QED
  BY <1>1, <1>2

(* The strengthening that the two theorems below follow from: what the step *)
(* a command has reached says about its mount (famfs_mount.c).             *)
THEOREM Inductive == Spec => []IInv
BY IInvInit, IInvNext, PTL DEF Spec

(* For every load, any number of crashes included: a famfs_mount_fuse that *)
(* fails with anything but 99, and a mkfs, fsck or logplay whose unmount   *)
(* succeeded, leave no mount and no starting daemon behind.                *)
THEOREM LeavesNothing == Spec => []NothingLeftBehind
<1>1. IInv => NothingLeftBehind
  BY DEF IInv, Left, NothingLeftBehind
<1> QED
  BY <1>1, Inductive, PTL

(* For every load, with daemons that die at any step: a mount that returns *)
(* 0 has played a log with a valid header, and was made by its own daemon, *)
(* which may be dead by then (famfs_mount.c: famfs_mount_fuse).            *)
THEOREM ReportsItsMount == Spec => []SuccessIsMounted
<1>1. IInv => SuccessIsMounted
  BY DEF IInv, Mounted, SuccessIsMounted
<1> QED
  BY <1>1, Inductive, PTL

-----------------------------------------------------------------------------
(***************************************************************************)
(* The types of what commands return, of their meta files and mounts.      *)
(***************************************************************************)

LEMMA KeepsTypes ==
  ASSUME IInv, Types, UNCHANGED load, crashes' \in 0 .. MaxCrash,
         NEW p \in Proc, SetsCode(p), AddsFile(p), MovesMount(p)
  PROVE  Types'
<1>1. Proc' = Proc /\ \A q \in Proc : Fuse(q)' = Fuse(q)
  BY DEF Proc, Fuse
<1>2. rc' \in [Proc -> Codes]
  BY DEF Types, SetsCode
<1>3. shadow' \in [Proc -> SUBSET MetaFiles]
  BY DEF Types, AddsFile
<1>4. ASSUME NEW q \in Proc, ~Fuse(q) PROVE mnt'[q] \in {"none", "serving", "gone"}
  BY <1>4 DEF IInv, Types, MovesMount
<1> QED
  BY <1>1, <1>2, <1>3, <1>4 DEF Types

LEMMA CodesKept ==
  ASSUME Types, NEW p \in Proc
  PROVE  /\ \A step : Goto(p, step) => SetsCode(p)
         /\ \A step : \A r \in Codes : Set(p, step, r) => SetsCode(p)
         /\ \A r \in Codes : Return(p, r) => SetsCode(p)
         /\ \A r \in Codes : Unmount(p, r) => SetsCode(p)
         /\ \A r \in Codes : Out(p, r) => SetsCode(p)
         /\ \A r \in Codes : Finish(p, r) => SetsCode(p)
         /\ rc[p] \in Codes /\ -9 \in Codes /\ -1 \in Codes /\ 0 \in Codes /\ 1 \in Codes
         /\ 99 \in Codes
<1>1. \A step : Goto(p, step) => SetsCode(p)
  BY DEF Goto, SetsCode
<1>2. \A step : \A r \in Codes : Set(p, step, r) => SetsCode(p)
  BY Zenon DEF Set, SetsCode
<1>3. \A r \in Codes : Return(p, r) \/ Unmount(p, r) \/ Out(p, r) => SetsCode(p)
  BY <1>2, Zenon DEF Return, Unmount, Out
<1>4. \A r \in Codes : Finish(p, r) => SetsCode(p)
  BY <1>3 DEF Finish
<1>5. rc[p] \in Codes
  BY DEF Types
<1>6. -9 \in Codes /\ -1 \in Codes /\ 0 \in Codes /\ 1 \in Codes /\ 99 \in Codes
  BY DEF Codes
<1> QED
  BY <1>1, <1>2, <1>3, <1>4, <1>5, <1>6

LEMMA MountTypes ==
  ASSUME IInv, Types, NEW p \in Proc, MountStep(p)
  PROVE  SetsCode(p) /\ AddsFile(p) /\ MovesMount(p)
<1>1. CASE famfs_mount_fuse(p) \/ famfs_start_fuse_daemon(p)
  <2>1. SetsCode(p)
    BY <1>1, CodesKept DEF famfs_mount_fuse, famfs_start_fuse_daemon, SetsCode
  <2>2. AddsFile(p)
    BY <1>1 DEF famfs_mount_fuse, famfs_start_fuse_daemon, AddsFile, MetaFiles
  <2>3. MovesMount(p)
    BY <1>1 DEF famfs_mount_fuse, famfs_start_fuse_daemon, MovesMount, Types
  <2> QED
    BY <2>1, <2>2, <2>3
<1>2. CASE famfs_dummy_mount_v1(p) \/ do_famfs_cli_mount(p)
  <2>1. SetsCode(p)
    BY <1>2, CodesKept, Zenon DEF famfs_dummy_mount_v1, do_famfs_cli_mount
  <2>2. AddsFile(p) /\ MovesMount(p)
    BY <1>2, Zenon DEF famfs_dummy_mount_v1, do_famfs_cli_mount, AddsFile, MovesMount
  <2> QED
    BY <2>1, <2>2
<1>3. CASE famfs_mkmeta_superblock(p) \/ famfs_mkmeta_log(p)
  <2>1. SetsCode(p)
    BY <1>3, CodesKept DEF famfs_mkmeta_superblock, famfs_mkmeta_log, mkmeta
  <2>2. AddsFile(p) /\ MovesMount(p)
    BY <1>3 DEF famfs_mkmeta_superblock, famfs_mkmeta_log, mkmeta, AddsFile, MovesMount,
       MetaFiles
  <2> QED
    BY <2>1, <2>2
<1>4. CASE wait_superblock(p) \/ famfs_fuse_daemon_alive(p) \/ wait_extra(p) \/ wait_log(p)
  <2>1. SetsCode(p)
    BY <1>4, CodesKept DEF wait_superblock, famfs_fuse_daemon_alive, wait_extra, wait_log,
       check_file_exists
  <2>2. AddsFile(p) /\ MovesMount(p)
    BY <1>4 DEF wait_superblock, famfs_fuse_daemon_alive, wait_extra, wait_log,
       check_file_exists, mountVars, AddsFile, MovesMount
  <2> QED
    BY <2>1, <2>2
<1>5. CASE famfs_get_role_and_logstats(p)
  <2>1. SetsCode(p)
    BY <1>5, CodesKept DEF famfs_get_role_and_logstats
  <2>2. AddsFile(p) /\ MovesMount(p)
    BY <1>5 DEF famfs_get_role_and_logstats, mountVars, AddsFile, MovesMount
  <2> QED
    BY <2>1, <2>2
<1>6. CASE famfs_logplay(p)
  <2>1. SetsCode(p)
    BY <1>6, CodesKept DEF famfs_logplay, open_meta_files, invalidate_log, play_log, PlayLog,
       LogplayFails
  <2>2. AddsFile(p) /\ MovesMount(p)
    BY <1>6 DEF famfs_logplay, open_meta_files, invalidate_log, play_log, mountVars,
       AddsFile, MovesMount
  <2> QED
    BY <2>1, <2>2
<1>7. CASE mount_out(p) \/ out_umount(p)
  <2>1. SetsCode(p)
    BY <1>7, CodesKept DEF mount_out, out_umount
  <2>2. AddsFile(p) /\ MovesMount(p)
    BY <1>7 DEF mount_out, out_umount, famfs_umount, AddsFile, MovesMount
  <2> QED
    BY <2>1, <2>2
<1> QED
  BY <1>1, <1>2, <1>3, <1>4, <1>5, <1>6, <1>7 DEF MountStep

LEMMA MkfsTypes ==
  ASSUME IInv, Types, NEW p \in Proc, MkfsStep(p)
  PROVE  SetsCode(p) /\ AddsFile(p) /\ MovesMount(p)
<1>1. CASE Begin(p)
  BY <1>1, CodesKept DEF Begin, mountVars, AddsFile, MovesMount
<1>2. CASE famfs_mkfs_rawdev(p) \/ famfs_fsck(p) \/ famfs_dax_shadow_logplay(p)
  <2>1. SetsCode(p)
    BY <1>2, CodesKept
       DEF famfs_mkfs_rawdev, famfs_fsck, famfs_dax_shadow_logplay, Avoid, Enter
  <2>2. AddsFile(p) /\ MovesMount(p)
    BY <1>2 DEF famfs_mkfs_rawdev, famfs_fsck, famfs_dax_shadow_logplay, mountVars,
       AddsFile, MovesMount
  <2> QED
    BY <2>1, <2>2
<1>3. CASE famfs_mkfs_via_dummy_mount(p) \/ famfs_map_log_by_path(p) \/ famfs_fsck_mounted(p)
  <2>1. SetsCode(p)
    BY <1>3, CodesKept
       DEF famfs_mkfs_via_dummy_mount, famfs_map_log_by_path,
       famfs_fsck_mounted, Avoid, Enter
  <2>2. AddsFile(p) /\ MovesMount(p)
    BY <1>3 DEF famfs_mkfs_via_dummy_mount, famfs_map_log_by_path, famfs_fsck_mounted,
       mountVars, AddsFile, MovesMount
  <2> QED
    BY <2>1, <2>2
<1>4. CASE famfs_kill_superblock(p) \/ mkfs_check(p) \/ mkfs_uuid(p)
  <2>1. SetsCode(p)
    BY <1>4, CodesKept DEF famfs_kill_superblock, mkfs_check, mkfs_uuid
  <2>2. AddsFile(p) /\ MovesMount(p)
    BY <1>4 DEF famfs_kill_superblock, Succeeds, mkfs_check, mkfs_uuid, mountVars, AddsFile,
       MovesMount
  <2> QED
    BY <2>1, <2>2
<1>5. CASE mkfs_superblock(p) \/ mkfs_log(p) \/ mkfs_flush(p)
  <2>1. SetsCode(p)
    BY <1>5, CodesKept, Zenon DEF mkfs_superblock, mkfs_not_writable, mkfs_log, StoreStep,
       mkfs_flush
  <2>2. AddsFile(p) /\ MovesMount(p)
    BY <1>5, Zenon DEF mkfs_superblock, mkfs_not_writable, mkfs_log, StoreStep, mkfs_flush,
       Succeeds, mountVars, AddsFile, MovesMount
  <2> QED
    BY <2>1, <2>2
<1> QED
  BY <1>1, <1>2, <1>3, <1>4, <1>5 DEF MkfsStep

LEMMA HostCrashTypes ==
  ASSUME Types, UNCHANGED load, crashes' \in 0 .. MaxCrash, NEW h \in Host, HostCrash(h)
  PROVE  Types'
<1>1. Proc' = Proc /\ \A q \in Proc : Fuse(q)' = Fuse(q)
  BY DEF Proc, Fuse
<1>2. rc' \in [Proc -> Codes] /\ shadow' \in [Proc -> SUBSET MetaFiles]
  BY DEF Types, HostCrash, Codes
<1>3. ASSUME NEW q \in Proc, ~Fuse(q) PROVE mnt'[q] \in {"none", "serving", "gone"}
  BY <1>3 DEF Types, HostCrash
<1> QED
  BY <1>1, <1>2, <1>3 DEF Types

LEMMA TypesInit == Init => Types
<1> SUFFICES ASSUME Init PROVE Types
  OBVIOUS
<1>1. /\ rc = [p \in Proc |-> 0] /\ mnt = [p \in Proc |-> "none"]
      /\ shadow = [p \in Proc |-> {}] /\ crashes = 0
  BY DEF Init
<1> QED
  BY <1>1, MkfsAssumption DEF Types, Codes

LEMMA TypesNext == IInv /\ Types /\ [Next]_vars => Types'
<1> SUFFICES ASSUME IInv, Types, [Next]_vars PROVE Types'
  OBVIOUS
<1>1. CASE UNCHANGED <<load, rc, shadow, mnt, crashes>>
  BY <1>1 DEF Types, Proc, Fuse
<1>2. ASSUME Next PROVE Types'
  <2>1. UNCHANGED load /\ crashes \in 0 .. MaxCrash
    BY <1>2 DEF Next, Types
  <2>2. ASSUME NEW p \in Proc, MountStep(p) \/ MkfsStep(p) \/ Umount(p), UNCHANGED crashes
        PROVE  Types'
    <3>1. Umount(p) => SetsCode(p) /\ AddsFile(p) /\ MovesMount(p)
      BY Zenon DEF Umount, SetsCode, AddsFile, MovesMount
    <3> QED
      BY <2>1, <2>2, <3>1, MountTypes, MkfsTypes, KeepsTypes
  <2>3. CASE CacheStep /\ UNCHANGED crashes
    BY <1>1, <2>1, <2>3 DEF CacheStep, mountVars
  <2>4. CASE Crash
    <3>1. crashes' \in 0 .. MaxCrash
      BY <2>1, <2>4, MkfsAssumption DEF Crash
    <3>2. ASSUME NEW p \in Proc, KillProcess(p) \/ DaemonDies(p) PROVE Types'
      <4>1. SetsCode(p)
        BY <3>2, CodesKept DEF KillProcess, DaemonDies, SetsCode
      <4>2. AddsFile(p) /\ MovesMount(p)
        BY <3>2 DEF KillProcess, DaemonDies, AddsFile, MovesMount
      <4> QED
        BY <2>1, <3>1, <4>1, <4>2, KeepsTypes
    <3> QED
      BY <2>1, <2>4, <3>1, <3>2, HostCrashTypes DEF Crash
  <2> QED
    BY <1>2, <2>2, <2>3, <2>4 DEF Next, Process
<1> QED
  BY <1>1, <1>2 DEF vars, mountVars

(* The same for the types: codes, meta files and mounts of every command.  *)
THEOREM TypesInvariant == Spec => []Types
BY TypesInit, TypesNext, Inductive, PTL DEF Spec

-----------------------------------------------------------------------------
(***************************************************************************)
(* Steps of the caches that store nothing: host g writes lines back, drops *)
(* clean ones and brings others in.                                        *)
(***************************************************************************)

LEMMA TameSteps ==
  ASSUME DeviceOK, NEW g \in Host
  PROVE  /\ UNCHANGED fccVars => Tame(g)
         /\ \A L : ReadLines(g, L) => Tame(g)
         /\ ReadSuper(g) => Tame(g)
         /\ \A l \in Lines : Load(g, l) \/ Refetch(g, l) => Tame(g)
         /\ \A L \in SUBSET Lines : Flush(g, L) \/ Invalidate(g, L) => Tame(g)
<1>1. UNCHANGED fccVars => Tame(g)
  BY DEF DeviceOK, Tame, fccVars
<1>2. \A L : ReadLines(g, L) => Tame(g)
  BY DEF DeviceOK, Tame, ReadLines, View
<1>3. \A l \in Lines : Load(g, l) \/ Refetch(g, l) => Tame(g)
  BY DEF DeviceOK, Tame, Load, Refetch, View
<1>4. \A L \in SUBSET Lines : Flush(g, L) => Tame(g)
  BY DEF DeviceOK, Tame, Flush, WrittenBack
<1>5. \A L \in SUBSET Lines : Invalidate(g, L) => Tame(g)
  BY DEF DeviceOK, Tame, Invalidate, WrittenBack
<1> QED
  BY <1>1, <1>2, <1>3, <1>4, <1>5 DEF ReadSuper

LEMMA TameDevice ==
  ASSUME DeviceOK, NEW g \in Host, Tame(g)
  PROVE  DeviceOK'
<1>1. ASSUME NEW l \in Lines PROVE mem'[l] \in Content(l)
  BY DEF DeviceOK, Tame
<1>2. ASSUME NEW h \in Host, NEW l \in Lines
      PROVE  cache'[h][l] \in Content(l) \cup {Miss}
  BY <1>1 DEF DeviceOK, Tame
<1>3. ASSUME NEW h \in Host, NEW l \in dirty'[h] PROVE cache'[h][l] # Miss
  BY DEF DeviceOK, Tame
<1> QED
  BY <1>1, <1>2, <1>3 DEF DeviceOK, Tame

(* What a host sees of a line that no other host has to write back stays.  *)
LEMMA TameHeld ==
  ASSUME DeviceOK, NEW g \in Host, Tame(g), NEW h \in Host, NEW l \in Lines, NEW v,
         Held(h, l, v), g # h => dirty[g] = {}
  PROVE  Held(h, l, v)'
BY DEF DeviceOK, Tame, Held

(* Nothing to write back, nothing that changes. *)
LEMMA TameMem ==
  ASSUME DeviceOK, NEW g \in Host, Tame(g), NEW l \in Lines, l \notin dirty[g]
  PROVE  mem'[l] = mem[l]
BY DEF Tame

LEMMA TameDurable ==
  ASSUME DeviceOK, NEW g \in Host, Tame(g), Durable, UNCHANGED <<fs, torn>>
  PROVE  Durable'
<1>1. CASE ~torn /\ fs = 0
  BY <1>1 DEF Durable, Tame, DeviceOK, Lines, SbLines
<1>2. CASE ~torn /\ fs # 0
  <2>1. \A h \in Host : dirty'[h] = {}
    BY <1>2 DEF Durable, Tame
  <2>2. \A l \in Lines : mem'[l] = mem[l]
    BY <1>2, TameMem DEF Durable
  <2>3. famfs_check_super(mem') = famfs_check_super(mem)
    BY <2>2 DEF famfs_check_super, Lines, SbLines
  <2> QED
    BY <1>2, <2>1, <2>2, <2>3 DEF Durable, Lines, SbLines
<1> QED
  BY <1>1, <1>2 DEF Durable

-----------------------------------------------------------------------------
(***************************************************************************)
(* Commands, and the steps they take.                                      *)
(***************************************************************************)
LEMMA Commands ==
  ASSUME load \in Loads, NEW p \in Proc
  PROVE  /\ p \in Nat \ {0}
         /\ H(p) \in Host /\ Uuid(p) \in Nat \ {0}
<1>1. load.cmds \in Seq(Command)
  BY MkfsAssumption
<1>2. Proc = 1 .. Len(load.cmds) /\ Len(load.cmds) \in Nat /\ load.cmds[p] \in Command
  BY <1>1 DEF Proc
<1> QED
  BY <1>2 DEF H, Uuid, Command

LEMMA TurnsKept ==
  ASSUME Turns, NEW p \in Proc, Advances(p)
  PROVE  Turns'
<1>1. Proc' = Proc /\ load' = load /\ load \in Loads
  BY DEF Proc, Advances, Turns
<1>2. ASSUME NEW x \in Proc, pc'[x] \in MkfsPcs \cup {"map_log"} PROVE Op(x)' = "mkfs"
  BY <1>1, <1>2 DEF Turns, Advances, Op
<1> QED
  BY <1>1, <1>2 DEF Turns, Advances

-----------------------------------------------------------------------------
(***************************************************************************)
(* Steps that store nothing keep the invariant.                            *)
(***************************************************************************)
LEMMA SameCommand ==
  ASSUME load' = load, NEW p \in Proc
  PROVE  /\ H(p)' = H(p) /\ Op(p)' = Op(p) /\ Forced(p)' = Forced(p)
         /\ Uuid(p)' = Uuid(p)
         /\ Sb0Of(p)' = Sb0Of(p) /\ Sb1Of(p)' = Sb1Of(p) /\ LogOf(p)' = LogOf(p)
BY DEF H, Op, Forced, Uuid, Sb0Of, Sb1Of, LogOf

LEMMA StorePcsInMkfs == StorePcs \subseteq MkfsPcs /\ "mkfs_uuid" \in MkfsPcs
                        /\ AfterSb0 \subseteq StorePcs /\ AfterCrc \subseteq StorePcs
                        /\ AfterLog \subseteq StorePcs /\ "kill_flush" \in StorePcs
                        /\ "mkfs_flush_superblock" \in StorePcs
                        /\ "mkfs_uuid" \notin StorePcs
BY DEF StorePcs, MkfsPcs, AfterSb0, AfterCrc, AfterLog

(* A process outside of these steps has nothing to keep. *)
LEMMA NothingStored ==
  ASSUME NEW p \in Proc, pc'[p] \notin StorePcs \cup {"mkfs_uuid"}
  PROVE  Stored(p)'
BY StorePcsInMkfs DEF Stored

LEMMA TameStored ==
  ASSUME DeviceOK, Turns, Sole, NEW g \in Host, Tame(g), UNCHANGED <<load, torn>>,
         NEW p \in Proc, Stored(p), pc'[p] = pc[p]
  PROVE  Stored(p)'
<1>1. CASE pc[p] \notin StorePcs \cup {"mkfs_uuid"}
  BY <1>1, NothingStored
<1>2. CASE pc[p] \in StorePcs \cup {"mkfs_uuid"}
  <2>1. H(p) \in Host /\ pc[p] \in MkfsPcs
    BY <1>2, Commands, StorePcsInMkfs DEF Turns
  <2>2. g # H(p) => dirty[g] = {}
    BY <2>1 DEF Sole
  <2>3. "sb0" \in Lines /\ "sb1" \in Lines /\ "log" \in Lines
    BY DEF Lines, SbLines
  <2>4. dirty'[H(p)] \subseteq dirty[H(p)]
    BY <2>1, <2>2 DEF Tame
  <2>5. pc[p] \in StorePcs => torn'
    BY DEF Stored
  <2>6. ASSUME pc[p] = "mkfs_uuid"
        PROVE  /\ SbLines \cap dirty'[H(p)] = {}
               /\ Forced(p) \/ famfs_check_super(mem') = -1
    <3>1. SbLines \cap dirty[H(p)] = {} /\ (Forced(p) \/ famfs_check_super(mem) = -1)
      BY <2>6 DEF Stored
    <3>2. "sb0" \notin dirty[g] /\ "sb1" \notin dirty[g]
      BY <2>2, <3>1 DEF SbLines
    <3>3. mem'["sb0"] = mem["sb0"] /\ mem'["sb1"] = mem["sb1"]
      BY <2>3, <3>2, TameMem
    <3> QED
      BY <2>4, <3>1, <3>3 DEF famfs_check_super
  <2>7. ASSUME pc[p] = "kill_flush"
        PROVE  ~(IF "sb0" \in dirty'[H(p)] THEN cache'[H(p)] ELSE mem')["sb0"].magic
    <3>1. ~(IF "sb0" \in dirty[H(p)] THEN cache[H(p)] ELSE mem)["sb0"].magic
      BY <2>7 DEF Stored
    <3> QED
      BY <2>1, <2>2, <2>3, <2>4, <3>1 DEF Tame
  <2>8. ASSUME NEW l \in Lines, NEW v, Held(H(p), l, v) PROVE Held(H(p), l, v)'
    <3>1. ASSUME NEW h \in Host, h = H(p), Held(h, l, v) PROVE Held(h, l, v)'
      BY <2>2, <3>1, TameHeld
    <3>2. H(p)' = H(p)
      BY SameCommand
    <3> QED
      BY <2>1, <2>8, <3>1, <3>2 DEF Held
  <2> QED
    BY <2>3, <2>4, <2>5, <2>6, <2>7, <2>8, SameCommand DEF Stored
<1> QED
  BY <1>1, <1>2

(* Nobody comes to mkfs, or one comes when nobody else is there. *)
LEMMA TameSole ==
  ASSUME Sole, NEW g \in Host, Tame(g), NEW p \in Proc, Advances(p),
         pc'[p] \in MkfsPcs => pc[p] \in MkfsPcs \/ ~Interferes(p)
  PROVE  Sole'
<1>1. \A h \in Host : dirty[h] = {} => dirty'[h] = {}
  BY DEF Tame
<1>2. Proc' = Proc /\ load' = load
  BY DEF Proc, Advances
<1>3. \A q \in Proc : H(q)' = H(q)
  BY <1>2 DEF H
<1>4. CASE pc'[p] \in MkfsPcs => pc[p] \in MkfsPcs
  BY <1>1, <1>2, <1>3, <1>4 DEF Sole, Advances
<1>5. CASE ~Interferes(p)
  BY <1>1, <1>2, <1>3, <1>5 DEF Sole, Advances, Interferes
<1> QED
  BY <1>4, <1>5

(* A mount about to play keeps seeing what it looked at. *)
LEMMA TameCurrent ==
  ASSUME DeviceOK, Turns, Durable, NEW g \in Host, Tame(g), UNCHANGED <<load, fs, torn>>,
         NEW p \in Proc, Current(p), ~NewLook(p)
  PROVE  Current(p)'
<1> SUFFICES ASSUME pc'[p] = "logplay_play", p \in looked', ~torn, fs # 0,
                    View(H(p), "log")'.magic
             PROVE  View(H(p), "log")' = mem'["log"]
  BY DEF Current
<1>1. H(p) \in Host /\ H(p)' = H(p) /\ "log" \in Lines
  BY Commands DEF Turns, H, Lines
<1>2. View(H(p), "log").magic => View(H(p), "log") = mem["log"]
  BY DEF Current, NewLook
<1>3. \A h \in Host : dirty[h] = {}
  BY DEF Durable
<1>4. mem'["log"] = mem["log"]
  BY <1>1, <1>3, TameMem
<1>5. \/ cache'[H(p)]["log"] = cache[H(p)]["log"]
      \/ cache'[H(p)]["log"] \in {Miss, mem'["log"]}
  BY <1>1 DEF Tame
<1>6. View(H(p), "log")' = IF cache'[H(p)]["log"] = Miss THEN mem'["log"]
                          ELSE cache'[H(p)]["log"]
  BY <1>1 DEF View
<1>7. View(H(p), "log") = IF cache[H(p)]["log"] = Miss THEN mem["log"]
                         ELSE cache[H(p)]["log"]
  BY DEF View
<1> QED
  BY <1>2, <1>4, <1>5, <1>6, <1>7

LEMMA TameStep ==
  ASSUME DeviceInv, NEW g \in Host, Tame(g), NEW p \in Proc, Advances(p), Harmless(p),
         \A q \in Proc : NewLook(q) => Current(q)', UNCHANGED <<fs, torn>>
  PROVE  DeviceInv'
<1>1. DeviceOK /\ Turns /\ Sole /\ Durable /\ UNCHANGED load
  BY DEF DeviceInv, Advances
<1>2. DeviceOK' /\ Durable' /\ Turns'
  BY <1>1, TameDevice, TameDurable, TurnsKept
<1>3. pc'[p] \in MkfsPcs => pc[p] \in MkfsPcs \/ ~Interferes(p)
  BY DEF Harmless
<1>4. Sole'
  BY <1>1, <1>3, TameSole
<1>5. ASSUME NEW q \in Proc PROVE Stored(q)' /\ Current(q)'
  <2>1. Stored(q) /\ Current(q) /\ (pc'[q] = pc[q] \/ q = p)
    BY DEF DeviceInv, Advances
  <2>2. ASSUME pc'[q] = pc[q] PROVE Stored(q)'
    BY <1>1, <2>1, <2>2, TameStored
  <2>3. ASSUME pc'[q] # pc[q] PROVE Stored(q)'
    BY <2>1, <2>3, NothingStored DEF Harmless
  <2>4. Current(q)'
    BY <1>1, <2>1, TameCurrent
  <2> QED
    BY <2>2, <2>3, <2>4
<1>6. Proc' = Proc
  BY <1>1 DEF Proc
<1> QED
  BY <1>2, <1>4, <1>5, <1>6 DEF DeviceInv

-----------------------------------------------------------------------------
(***************************************************************************)
(* The stores.                                                             *)
(***************************************************************************)
LEMMA ContentIsNoMiss == \A l \in Lines : Miss \notin Content(l)
BY MkfsAssumption DEF Content

LEMMA ViewContent ==
  ASSUME DeviceOK, NEW h \in Host, NEW l \in Lines
  PROVE  View(h, l) \in Content(l)
BY DEF DeviceOK, View

LEMMA StoreDevice ==
  ASSUME DeviceOK, NEW h \in Host, NEW l \in Lines, NEW v \in Content(l), Store(h, l, v)
  PROVE  /\ DeviceOK' /\ dirty'[h] = dirty[h] \cup {l}
         /\ \A g \in Host \ {h} : dirty'[g] = dirty[g]
BY ContentIsNoMiss DEF DeviceOK, Store

LEMMA StoreHeld ==
  ASSUME DeviceOK, NEW h \in Host, NEW l \in Lines, NEW v \in Content(l), Store(h, l, v)
  PROVE  /\ WillHold(h, l, v)
         /\ \A k \in Lines \ {l} : \A w : Held(h, k, w) => WillHold(h, k, w)
BY DEF DeviceOK, Store, Held, WillHold

(* A store of mkfs: nobody else has a claim on memory. *)
LEMMA StoreKeeps ==
  ASSUME DeviceInv, NEW p \in Proc, pc[p] \in MkfsPcs, pc'[p] \in StorePcs, Advances(p),
         NEW l \in Lines, NEW v \in Content(l), Store(H(p), l, v), torn', Stored(p)'
  PROVE  DeviceInv'
<1>1. DeviceOK /\ Turns /\ Sole /\ UNCHANGED load
  BY DEF DeviceInv, Advances
<1>2. H(p) \in Host /\ Op(p) = "mkfs" /\ Proc' = Proc
  BY <1>1, Commands DEF Turns, Proc
<1>3. DeviceOK' /\ Turns' /\ Durable'
  BY <1>1, <1>2, StoreDevice, TurnsKept DEF Durable
<1>4. Sole'
  <2>1. \A h \in Host \ {H(p)} : dirty'[h] = {}
    BY <1>1, <1>2, StoreDevice DEF Sole
  <2>2. \A q \in Proc : pc'[q] \in MkfsPcs => q = p
    BY <1>1 DEF Sole, Advances
  <2>3. H(p)' = H(p)
    BY <1>1, SameCommand
  <2> QED
    BY <1>2, <2>1, <2>2, <2>3 DEF Sole
<1>5. ASSUME NEW q \in Proc, q # p PROVE Stored(q)'
  <2>1. pc'[q] = pc[q] /\ pc[q] \notin MkfsPcs
    BY <1>1, <1>5 DEF Advances, Sole
  <2> QED
    BY <2>1, NothingStored, StorePcsInMkfs
<1>6. \A q \in Proc : Current(q)'
  BY DEF Current
<1> QED
  BY <1>2, <1>3, <1>4, <1>5, <1>6 DEF DeviceInv

LEMMA MkfsContent ==
  ASSUME load \in Loads, NEW p \in Proc
  PROVE  /\ Sb0Of(p) \in Content("sb0") /\ Sb1Of(p) \in Content("sb1")
         /\ LogOf(p) \in Content("log") /\ ZeroLog \in Content("log")
<1>1. Uuid(p) \in Nat \ {0} /\ H(p) \in Host
  BY Commands
<1>2. Sb0Of(p) \in Sb0Line
  BY <1>1 DEF Sb0Of, Sb0, Sb0Line, Versions
<1>3. Sb1Of(p) \in Sb1Line
  BY <1>1, <1>2 DEF Sb1Of, Sb1, famfs_gen_superblock_crc, Sb0Line, Sb1Line, Systems
<1>4. LogOf(p) \in LogHeader /\ ZeroLog \in LogHeader
  BY <1>1 DEF LogOf, ZeroLog, LogLine, LogHeader
<1> QED
  BY <1>2, <1>3, <1>4 DEF Content

(* The steps of mkfs, as Advances sees them. *)
LEMMA MkfsAdvances ==
  ASSUME Turns, NEW p \in Proc, UNCHANGED load, pc[p] \in MkfsPcs, NEW step \in MkfsPcs,
         pc' = [pc EXCEPT ![p] = step]
  PROVE  Advances(p) /\ pc'[p] = step
<1>1. step \in PcState
  BY DEF MkfsPcs, StorePcs, PcState, CommandPcs
<1> QED
  BY <1>1 DEF Turns, Advances

(* famfs_kill_superblock stores an invalid magic number over what it sees. *)
LEMMA KillStore ==
  ASSUME DeviceInv, NEW p \in Proc, UNCHANGED load, At(p, "kill"), Goto(p, "kill_flush"),
         Store(H(p), "sb0", [View(H(p), "sb0") EXCEPT !.magic = FALSE]), torn'
  PROVE  DeviceInv'
<1> DEFINE v == [View(H(p), "sb0") EXCEPT !.magic = FALSE]
<1>1. DeviceOK /\ Turns /\ H(p) \in Host /\ H(p)' = H(p)
  BY Commands, SameCommand DEF DeviceInv, Turns
<1>2. /\ pc[p] \in MkfsPcs /\ pc[p] \notin StorePcs /\ "kill_flush" \in StorePcs
      /\ "kill_flush" \in MkfsPcs
  BY DEF At, MkfsPcs, StorePcs
<1>3. Advances(p) /\ pc'[p] = "kill_flush"
  BY <1>1, <1>2, MkfsAdvances, Zenon DEF Goto
<1>4. "sb0" \in Lines /\ v \in Content("sb0") /\ ~v.magic
  <2>1. "sb0" \in Lines
    BY DEF Lines, SbLines
  <2>2. View(H(p), "sb0") \in Sb0Line
    BY <1>1, <2>1, ViewContent DEF Content
  <2> QED
    BY <2>1, <2>2, Zenon DEF Sb0Line, Content
<1>5. dirty'[H(p)] = dirty[H(p)] \cup {"sb0"} /\ cache'[H(p)]["sb0"] = v
  BY <1>1, <1>4 DEF DeviceOK, Store
<1> HIDE DEF v
<1>7. Stored(p)'
  BY <1>1, <1>3, <1>4, <1>5 DEF Stored, AfterSb0, AfterCrc, AfterLog
<1>8. Store(H(p), "sb0", v)
  BY DEF v
<1> QED
  BY <1>2, <1>3, <1>4, <1>7, <1>8, StoreKeeps

(* mkfs_uuid, mkfs_superblock and mkfs_log: what a step stores it has, and *)
(* what was stored before in other lines stays.                            *)
LEMMA MkfsStore ==
  ASSUME DeviceInv, NEW p \in Proc, UNCHANGED load, pc[p] \in MkfsPcs,
         NEW step \in StorePcs \ {"kill_flush", "mkfs_flush_superblock"},
         pc' = [pc EXCEPT ![p] = step],
         NEW l \in Lines, NEW v \in Content(l), Store(H(p), l, v), torn',
         step \in AfterSb0 =>
           (l = "sb0" /\ v = Sb0Of(p)) \/ (pc[p] \in AfterSb0 /\ l # "sb0"),
         step \in AfterCrc =>
           (l = "sb1" /\ v = Sb1Of(p)) \/ (pc[p] \in AfterCrc /\ l # "sb1"),
         step \in AfterLog => l = "log" /\ v = LogOf(p)
  PROVE  DeviceInv'
<1>1. DeviceOK /\ Turns /\ Stored(p) /\ H(p) \in Host
  BY Commands DEF DeviceInv, Turns
<1>2. Advances(p) /\ pc'[p] = step
  BY <1>1, MkfsAdvances, StorePcsInMkfs, Zenon
<1>3. /\ WillHold(H(p), l, v)
      /\ \A k \in Lines \ {l} : \A w : Held(H(p), k, w) => WillHold(H(p), k, w)
  BY <1>1, StoreHeld, Zenon
<1>4. "sb0" \in Lines /\ "sb1" \in Lines /\ "log" \in Lines
  BY DEF Lines, SbLines
<1>5. /\ step \in AfterSb0 => WillHold(H(p), "sb0", Sb0Of(p))
      /\ step \in AfterCrc => WillHold(H(p), "sb1", Sb1Of(p))
      /\ step \in AfterLog => WillHold(H(p), "log", LogOf(p))
  <2>1. /\ pc[p] \in AfterSb0 => Held(H(p), "sb0", Sb0Of(p))
        /\ pc[p] \in AfterCrc => Held(H(p), "sb1", Sb1Of(p))
    BY <1>1 DEF Stored
  <2> QED
    BY <1>3, <1>4, <2>1
<1>6. H(p)' = H(p) /\ Sb0Of(p)' = Sb0Of(p) /\ Sb1Of(p)' = Sb1Of(p) /\ LogOf(p)' = LogOf(p)
  BY SameCommand
<1>7. /\ step \in AfterSb0 => Held(H(p), "sb0", Sb0Of(p))'
      /\ step \in AfterCrc => Held(H(p), "sb1", Sb1Of(p))'
      /\ step \in AfterLog => Held(H(p), "log", LogOf(p))'
  BY <1>5, <1>6 DEF Held, WillHold
<1>8. Stored(p)'
  BY <1>2, <1>7, StorePcsInMkfs DEF Stored
<1> QED
  BY <1>2, <1>8, StoreKeeps

LEMMA UuidStore ==
  ASSUME DeviceInv, NEW p \in Proc, UNCHANGED load, At(p, "mkfs_uuid"),
         Goto(p, "mkfs_sb0"), Store(H(p), "sb1", Sb1(H(p), View(H(p), "sb1").crc)), torn'
  PROVE  DeviceInv'
<1> DEFINE v == Sb1(H(p), View(H(p), "sb1").crc)
<1>1. DeviceOK /\ H(p) \in Host
  BY Commands DEF DeviceInv, Turns
<1>2. "sb1" \in Lines
  BY DEF Lines, SbLines
<1>3. v \in Content("sb1")
  <2>1. View(H(p), "sb1") \in Sb1Line
    BY <1>1, <1>2, ViewContent DEF Content
  <2> QED
    BY <1>1, <2>1 DEF Content, Sb1Line, Sb1, Systems
<1> HIDE DEF v
<1>4. /\ pc[p] \in MkfsPcs /\ "mkfs_sb0" \in StorePcs \ {"kill_flush", "mkfs_flush_superblock"}
      /\ "mkfs_sb0" \notin AfterSb0 \cup AfterCrc \cup AfterLog
  BY DEF At, MkfsPcs, StorePcs, AfterSb0, AfterCrc, AfterLog
<1>5. Store(H(p), "sb1", v) /\ pc' = [pc EXCEPT ![p] = "mkfs_sb0"]
  BY DEF v, Goto
<1> QED
  BY <1>2, <1>3, <1>4, <1>5, MkfsStore, Zenon
=============================================================================
