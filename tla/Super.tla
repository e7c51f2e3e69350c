------------------------------- MODULE Super -------------------------------
(***************************************************************************)
(* The superblock and the log of a famfs device as mkfs, mount and fsck    *)
(* see them: three lines of the shared memory of Fcc.  struct              *)
(* famfs_superblock puts magic, version and ts_uuid in its first cache     *)
(* line and the system uuid and the checksum in its second; the log stands *)
(* for a line of its own.  The uuid numbers the mkfs that wrote the line.  *)
(***************************************************************************)
EXTENDS Fcc, Integers

CONSTANTS Host,    \* the hosts that share the device; a host is its uuid
          NoHost   \* the system uuid of a device that was never formatted

SbLines == {"sb0", "sb1"}
Lines == SbLines \cup {"log"}

CurrentVersion == 0
OtherVersion == 1

Sb0(magic, version, uuid) == [magic |-> magic, version |-> version, uuid |-> uuid]
Sb1(system, crc) == [system |-> system, crc |-> crc]
LogLine(magic, uuid, next_index) ==
  [magic |-> magic, uuid |-> uuid, next_index |-> next_index]

(* Covers the fields of the superblock before ts_crc. *)
famfs_gen_superblock_crc(sb0, system) == <<sb0.magic, sb0.version, sb0.uuid, system>>

NoCrc == <<FALSE, CurrentVersion, 0, NoHost>>

(* The log as famfs_mkfs leaves it after memset. *)
ZeroLog == LogLine(FALSE, 0, 0)

(* What the lines may hold; a log has a uuid once it has a magic number.   *)
Versions == {CurrentVersion, OtherVersion}
Systems == Host \cup {NoHost}
Sb0Line == [magic : BOOLEAN, version : Versions, uuid : Nat]
Sb1Line == [system : Systems, crc : BOOLEAN \X Versions \X Nat \X Systems]
LogHeader == {log \in [magic : BOOLEAN, uuid : Nat, next_index : Nat] :
                log.uuid = 0 <=> ~log.magic}

(***************************************************************************)
(* What a device may hold before the first command: nothing, a file system *)
(* of host h with one logged file, or one of another version.              *)
(***************************************************************************)
Blank ==
  [l \in Lines |-> CASE l = "sb0" -> Sb0(FALSE, CurrentVersion, 0)
                     [] l = "sb1" -> Sb1(NoHost, NoCrc)
                     [] l = "log" -> ZeroLog]

Formatted(h, version) ==
  LET sb0 == Sb0(TRUE, version, 1)
  IN  [l \in Lines |->
         CASE l = "sb0" -> sb0
           [] l = "sb1" -> Sb1(h, famfs_gen_superblock_crc(sb0, h))
           [] l = "log" -> LogLine(TRUE, 1, 1)]

(* 0: valid, 1: a superblock of another version, -1: none.  s is a         *)
(* function that has at least the lines of the superblock.                 *)
famfs_check_super(s) ==
  IF ~s["sb0"].magic THEN -1
  ELSE IF s["sb0"].version # CurrentVersion THEN 1
  ELSE IF s["sb1"].crc # famfs_gen_superblock_crc(s["sb0"], s["sb1"].system)
       THEN -1
  ELSE 0

(* The role that host h reads from superblock s; its own uuid is readable. *)
famfs_get_role(h, s) ==
  IF famfs_check_super(s) # 0 THEN "FAMFS_NOSUPER"
  ELSE IF s["sb1"].system = h THEN "FAMFS_MASTER"
  ELSE "FAMFS_CLIENT"

(* The superblock as loads of host h return it. *)
Seen(h) == [l \in SbLines |-> View(h, l)]

(* Reading lines through a mapping of a meta file invalidates nothing: a   *)
(* line host h has cached stays what it was.                               *)
ReadLines(h, L) ==
  /\ cache' = [cache EXCEPT ![h] =
                 [l \in Lines |-> IF l \in L THEN View(h, l) ELSE @[l]]]
  /\ UNCHANGED <<mem, dirty>>

ReadSuper(h) == ReadLines(h, SbLines)

(* famfs_mmap_superblock_and_log_raw and what it invalidates. *)
famfs_mmap_superblock_and_log_raw(h, logp) ==
  Invalidate(h, IF logp THEN Lines ELSE SbLines)

(* The superblock that a load of host h returns after that. *)
SeenRaw(h) == WrittenBack(h, SbLines)

(* Only a client without force is turned away; NODEV and small devices are *)
(* failures of the command before it has done anything.                    *)
famfs_mkfs_allowed(role, force) == role = "FAMFS_CLIENT" => force
=============================================================================
