------------------------------ MODULE MkfsInv ------------------------------
(***************************************************************************)
(* The invariants that the theorems about Mkfs rest on: of a command and   *)
(* its mount, of the types, and of the device and the caches.              *)
(***************************************************************************)
EXTENDS Mkfs

MntState == {"none", "forked", "mounted", "serving", "zombie", "dead", "gone"}

(* The steps of a command once it has its device or its dummy mount. *)
CommandPcs ==
  {"raw", "ready", "map_log", "kill", "kill_flush", "mkfs", "mkfs_uuid", "mkfs_sb0",
   "mkfs_crc", "mkfs_memset", "mkfs_log", "mkfs_flush_log", "mkfs_flush_superblock"}

PcState ==
  CommandPcs \cup
  {"idle", "mount", "mkmeta_superblock", "wait_superblock", "daemon_alive", "wait_extra",
   "read_superblock", "mkmeta_log", "wait_log", "logplay", "logplay_map", "logplay_play",
   "out", "out_umount", "done"}

(* What a process at each step implies of its command and of its mount. *)
Phase(p) ==
  /\ pc[p] \in {"idle", "raw", "mount"} => mnt[p] = "none"
  /\ pc[p] = "mount" => ~(Dummy(p) /\ Raw(p))
  /\ Dummy(p) /\ Raw(p) => mnt[p] = "none"
  /\ pc[p] \in {"logplay", "logplay_map", "logplay_play"} => Op(p) = "mount"
  /\ pc[p] \in {"logplay_map", "logplay_play"} => mnt[p] \in {"serving", "zombie"}
  /\ pc[p] = "out" => Fuse(p)
  /\ pc[p] = "out_umount" => Dummy(p) \/ ~Fuse(p)
  /\ pc[p] \in {"out", "out_umount"} /\ ~Dummy(p) => rc[p] # 0
  /\ pc[p] \in CommandPcs => Dummy(p)

Left(p) ==
  At(p, "done") /\ (Fuse(p) \/ Dummy(p)) /\ mnt[p] \in KernelMounts \cup {"forked"} =>
    \/ rc[p] \in {-9, 99}
    \/ Op(p) = "mount" /\ rc[p] = 0
    \/ Dummy(p) /\ p \in stuck

Mounted(p) ==
  At(p, "done") /\ Op(p) = "mount" /\ rc[p] = 0 =>
    mnt[p] \in {"serving", "zombie", "gone"} /\ played[p].magic

IInv ==
  /\ pc \in [Proc -> PcState]
  /\ rc \in [Proc -> Int]
  /\ mnt \in [Proc -> MntState]
  /\ DOMAIN played = Proc
  /\ \A p \in Proc : Phase(p) /\ Left(p) /\ Mounted(p)

Codes == {-9, -1, 0, 1, 99}

MetaFiles == {"superblock", "log"}

Types ==
  /\ rc \in [Proc -> Codes]
  /\ shadow \in [Proc -> SUBSET MetaFiles]
  /\ \A p \in Proc : ~Fuse(p) => mnt[p] \in {"none", "serving", "gone"}
  /\ crashes \in 0 .. MaxCrash

(* The lines that hold what mkfs means them to hold. *)
AfterSb0 == {"mkfs_crc", "mkfs_memset", "mkfs_log", "mkfs_flush_log",
             "mkfs_flush_superblock"}

AfterCrc == AfterSb0 \ {"mkfs_crc"}

AfterLog == {"mkfs_flush_log", "mkfs_flush_superblock"}

Sb0Of(p) == Sb0(TRUE, CurrentVersion, Uuid(p))

Sb1Of(p) == Sb1(H(p), famfs_gen_superblock_crc(Sb0Of(p), H(p)))

LogOf(p) == LogLine(TRUE, Uuid(p), 0)

Content(l) == IF l = "sb0" THEN Sb0Line ELSE IF l = "sb1" THEN Sb1Line ELSE LogHeader

DeviceOK ==
  /\ DOMAIN mem = Lines
  /\ DOMAIN cache = Host
  /\ \A h \in Host : DOMAIN cache[h] = Lines
  /\ dirty \in [Host -> SUBSET Lines]
  /\ \A l \in Lines : mem[l] \in Content(l)
  /\ \A h \in Host, l \in Lines : cache[h][l] \in Content(l) \cup {Miss}
  /\ \A h \in Host : \A l \in dirty[h] : cache[h][l] # Miss

(* Only mkfs does what mkfs does. *)
Turns ==
  /\ load \in Loads
  /\ pc \in [Proc -> PcState]
  /\ \A p \in Proc : pc[p] \in MkfsPcs \cup {"map_log"} => Op(p) = "mkfs"

(* At most one mkfs is at work, and no host but its own has lines to write *)
(* back.                                                                   *)
Sole ==
  \A p \in Proc : pc[p] \in MkfsPcs =>
    /\ \A q \in Proc : pc[q] \in MkfsPcs => q = p
    /\ \A h \in Host : h # H(p) => dirty[h] = {}

(* Host h sees v in line l, and memory will, whatever is written back or   *)
(* dropped.                                                                *)
Held(h, l, v) ==
  IF l \in dirty[h] THEN cache[h][l] = v
  ELSE mem[l] = v /\ cache[h][l] \in {Miss, v}

Stored(p) ==
  /\ pc[p] \in StorePcs => torn
  /\ pc[p] = "mkfs_uuid" =>
       /\ SbLines \cap dirty[H(p)] = {}
       /\ Forced(p) \/ famfs_check_super(mem) = -1
  /\ pc[p] = "kill_flush" =>
       ~(IF "sb0" \in dirty[H(p)] THEN cache[H(p)] ELSE mem)["sb0"].magic
  /\ pc[p] \in AfterSb0 => Held(H(p), "sb0", Sb0Of(p))
  /\ pc[p] \in AfterCrc => Held(H(p), "sb1", Sb1Of(p))
  /\ pc[p] \in AfterLog => Held(H(p), "log", LogOf(p))
  /\ pc[p] = "mkfs_flush_superblock" => "log" \notin dirty[H(p)]

(* While no mkfs is under way nothing is left to write back that could     *)
(* change what the last one made, or bring a killed superblock back.       *)
Durable ==
  ~torn =>
    IF fs = 0
    THEN ~mem["sb0"].magic /\ \A h \in Host : "sb0" \notin dirty[h]
    ELSE /\ mem["sb0"].uuid = fs /\ mem["log"].uuid = fs
         /\ famfs_check_super(mem) \in {0, 1}
         /\ \A h \in Host : dirty[h] = {}

(* A mount about to play a log that it looked at since the last mkfs will  *)
(* read what is in memory, or nothing that it would play.                  *)
Current(p) ==
  pc[p] = "logplay_play" /\ p \in looked /\ ~torn /\ fs # 0 /\ View(H(p), "log").magic =>
    View(H(p), "log") = mem["log"]

Basic == DeviceOK /\ Turns

DeviceInv ==
  /\ DeviceOK
  /\ Turns
  /\ Sole
  /\ \A p \in Proc : Stored(p) /\ Current(p)
  /\ Durable

(* What holds of the device in any case, and unless mkfs raced. *)
MkfsInvariant == Basic /\ (~raced => DeviceInv)

-----------------------------------------------------------------------------
(***************************************************************************)
(* What a step changes, as far as these invariants can tell.               *)
(***************************************************************************)
(* What a step of process p leaves alone: the load and the other processes. *)
Only(p) ==
  /\ UNCHANGED load
  /\ pc' \in [Proc -> PcState]
  /\ rc' \in [Proc -> Int]
  /\ mnt' \in [Proc -> MntState]
  /\ DOMAIN played' = Proc
  /\ stuck \subseteq stuck'
  /\ \A q \in Proc \ {p} : /\ pc'[q] = pc[q] /\ rc'[q] = rc[q] /\ mnt'[q] = mnt[q]
                           /\ played'[q] = played[q]

(* What a step of p does to its code, its meta files and its mount. *)
SetsCode(p) == rc' = rc \/ \E r \in Codes : rc' = [rc EXCEPT ![p] = r]

AddsFile(p) ==
  shadow' = shadow \/ \E f \in MetaFiles : shadow' = [shadow EXCEPT ![p] = @ \cup {f}]

MovesMount(p) ==
  mnt' = mnt \/ \E v : /\ mnt' = [mnt EXCEPT ![p] = v]
                       /\ Fuse(p) \/ v \in {"serving", "gone"}

(* A step of the caches that stores nothing: host g writes lines back,     *)
(* drops clean ones and brings others in.                                  *)
Tame(g) ==
  /\ DOMAIN mem' = DOMAIN mem /\ DOMAIN cache' = DOMAIN cache
  /\ dirty' \in [Host -> SUBSET Lines] /\ dirty'[g] \subseteq dirty[g]
  /\ \A h \in Host : DOMAIN cache'[h] = DOMAIN cache[h]
  /\ \A h \in Host \ {g} : dirty'[h] = dirty[h] /\ cache'[h] = cache[h]
  /\ \A l \in Lines :
       /\ mem'[l] = IF l \in dirty[g] \ dirty'[g] THEN cache[g][l] ELSE mem[l]
       /\ \/ cache'[g][l] = cache[g][l]
          \/ l \notin dirty'[g] /\ cache'[g][l] \in {Miss, mem'[l]}

(* After the step the host h of the state before sees v in line l. *)
WillHold(h, l, v) ==
  IF l \in dirty'[h] THEN cache'[h][l] = v
  ELSE mem'[l] = v /\ cache'[h][l] \in {Miss, v}

(* A step of process p. *)
Advances(p) ==
  /\ UNCHANGED load
  /\ pc' \in [Proc -> PcState]
  /\ \A q \in Proc \ {p} : pc'[q] = pc[q]
  /\ pc'[p] \in MkfsPcs \cup {"map_log"} => Op(p) = "mkfs"

(* A store by host h. *)
Writes(h) == \E l \in Lines : \E v \in Content(l) : Store(h, l, v)

(* With this step q is about to play a log that it looked at.              *)
NewLook(q) ==
  /\ q \in looked' /\ pc'[q] = "logplay_play"
  /\ ~(q \in looked /\ pc[q] = "logplay_play")

(* A step that stores nothing and stays where it is, or leaves mkfs, or    *)
(* comes to mkfs when no other is at work.                                 *)
Harmless(p) ==
  \/ pc'[p] = pc[p]
  \/ /\ pc'[p] \notin StorePcs \cup {"mkfs_uuid"}
     /\ pc'[p] \in MkfsPcs => ~Interferes(p)

Elsewhere == PcState \ (MkfsPcs \cup {"map_log", "idle", "logplay_play"})

(* A step of a mount looks at the superblock or plays the log.             *)
Looks(p) ==
  \/ UNCHANGED fccVars
  \/ ReadSuper(H(p)) \/ ReadLines(H(p), Lines)
  \/ Load(H(p), "log")
  \/ Invalidate(H(p), SbLines) \/ Invalidate(H(p), {"log"})
  \/ Invalidate(H(p), Lines) \/ Invalidate(H(p), {})

(* Such a step goes to another one that is not of mkfs. *)
Moves(p) ==
  \/ UNCHANGED pc
  \/ /\ pc[p] \notin StorePcs
     /\ \E step \in Elsewhere : pc' = [pc EXCEPT ![p] = step]
=============================================================================
