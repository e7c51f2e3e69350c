------------------------------- MODULE MCMkfs -------------------------------
(***************************************************************************)
(* Loads of Mkfs for TLC, on a master m and a client c.                    *)
(***************************************************************************)
EXTENDS Mkfs

CONSTANTS m, c

Cmd(op, host, fuse, raw, force, kill) ==
  [op |-> op, host |-> host, fuse |-> fuse, raw |-> raw, force |-> force, kill |-> kill]

MountOn(host, fuse, raw) == Cmd("mount", host, fuse, raw, FALSE, FALSE)
Mkfs(host, raw, force) == Cmd("mkfs", host, TRUE, raw, force, FALSE)
MkfsV1(host, force) == Cmd("mkfs", host, FALSE, FALSE, force, FALSE)
KillOn(host, fuse, raw) == Cmd("mkfs", host, fuse, raw, TRUE, TRUE)
Look(op, host, fuse, raw) == Cmd(op, host, fuse, raw, FALSE, FALSE)

Load1(device, serial, crash, cmds) ==
  [device |-> device, serial |-> serial, crash |-> crash, cmds |-> cmds]

MCLoads == {
  \* two mkfs at the same time, and one on another host after one was killed
  Load1(Blank, FALSE, {}, <<Mkfs(m, TRUE, FALSE), Mkfs(c, TRUE, FALSE)>>),
  Load1(Formatted(m, CurrentVersion), TRUE, {"process"},
        <<Mkfs(m, TRUE, TRUE), Mkfs(c, TRUE, TRUE), Look("logplay", m, TRUE, TRUE)>>),
  \* two hosts format a blank device, one after the other
  Load1(Blank, TRUE, {"host"}, <<Mkfs(c, TRUE, FALSE), Mkfs(m, FALSE, FALSE)>>),
  \* a client mounts after the master formatted the device again
  Load1(Formatted(m, CurrentVersion), TRUE, {"host", "daemon"},
        <<Mkfs(m, TRUE, TRUE), MountOn(c, TRUE, FALSE)>>),
  \* two mounts of one device on one host at the same time
  Load1(Formatted(m, CurrentVersion), FALSE, {"process", "daemon"},
        <<MountOn(m, TRUE, FALSE), MountOn(m, TRUE, FALSE)>>),
  \* a client mounts while the master formats
  Load1(Blank, FALSE, {"process"}, <<Mkfs(m, TRUE, FALSE), MountOn(c, TRUE, FALSE)>>),
  \* kill and format through dummy mounts
  Load1(Formatted(m, CurrentVersion), TRUE, {"process", "host"},
        <<KillOn(m, TRUE, FALSE), Mkfs(m, FALSE, FALSE)>>),
  \* the standalone file system
  Load1(Formatted(m, OtherVersion), TRUE, {"process"},
        <<MkfsV1(m, FALSE), MkfsV1(m, TRUE), MountOn(m, FALSE, TRUE)>>),
  Load1(Formatted(m, CurrentVersion), TRUE, {},
        <<KillOn(m, TRUE, TRUE), MountOn(c, FALSE, FALSE), Look("logplay", c, FALSE, FALSE)>>),
  \* fsck and logplay of a device that is being mounted
  Load1(Formatted(m, CurrentVersion), FALSE, {},
        <<Look("fsck", m, TRUE, TRUE), MountOn(m, TRUE, FALSE), Look("logplay", c, TRUE, TRUE)>>),
  Load1(Formatted(m, CurrentVersion), FALSE, {"daemon"},
        <<Look("fsck", m, TRUE, FALSE), MountOn(m, TRUE, FALSE)>>) }
=============================================================================
