--------------------------- MODULE MkfsDurability ---------------------------
(***************************************************************************)
(* What mkfs and kill leave in memory, for every load: unless two mkfs ran *)
(* at once, or one over the stores of another that was killed elsewhere,   *)
(* no cache takes back what they did once they have returned 0, mkfs       *)
(* without force spares what is there, and what is played is current.      *)
(***************************************************************************)
EXTENDS MkfsProofs

LEMMA SuperblockStores ==
  ASSUME DeviceInv, NEW p \in Proc, UNCHANGED load, mkfs_superblock(p),
         ~mkfs_not_writable(p)
  PROVE  DeviceInv'
<1>1. /\ DeviceOK /\ Stored(p) /\ load \in Loads /\ H(p) \in Host
      /\ "sb0" \in Lines /\ "sb1" \in Lines
  BY Commands DEF DeviceInv, Turns, Lines, SbLines
<1>2. Sb0Of(p) \in Content("sb0") /\ Sb1Of(p) \in Content("sb1")
  BY <1>1, MkfsContent
<1>3. CASE StoreStep(p, "mkfs_sb0", "sb0", Sb0(TRUE, CurrentVersion, Uuid(p)), "mkfs_crc")
  <2>1. /\ pc[p] \in MkfsPcs /\ "mkfs_crc" \in StorePcs \ {"kill_flush", "mkfs_flush_superblock"}
        /\ pc[p] \in StorePcs /\ "mkfs_crc" \notin AfterCrc \cup AfterLog
    BY <1>3 DEF StoreStep, At, MkfsPcs, StorePcs, AfterSb0, AfterCrc, AfterLog
  <2>2. /\ Store(H(p), "sb0", Sb0Of(p)) /\ pc' = [pc EXCEPT ![p] = "mkfs_crc"]
        /\ torn' = torn
    BY <1>3, Zenon DEF StoreStep, Goto, Sb0Of, ghosts
  <2>3. torn'
    BY <1>1, <2>1, <2>2 DEF Stored
  <2> QED
    BY <1>1, <1>2, <2>1, <2>2, <2>3, MkfsStore, Zenon
<1>4. CASE StoreStep(p, "mkfs_crc", "sb1",
                     Sb1(H(p), famfs_gen_superblock_crc(View(H(p), "sb0"), H(p))),
                     "mkfs_memset")
  <2>1. /\ pc[p] \in MkfsPcs
        /\ "mkfs_memset" \in StorePcs \ {"kill_flush", "mkfs_flush_superblock"}
        /\ pc[p] \in StorePcs /\ pc[p] \in AfterSb0 /\ "mkfs_memset" \notin AfterLog
    BY <1>4 DEF StoreStep, At, MkfsPcs, StorePcs, AfterSb0, AfterCrc, AfterLog
  <2>2. View(H(p), "sb0") = Sb0Of(p)
    <3>1. Held(H(p), "sb0", Sb0Of(p))
      BY <1>1, <2>1 DEF Stored
    <3> QED
      BY <1>1, <3>1 DEF Held, View, DeviceOK
  <2>3. /\ Store(H(p), "sb1", Sb1Of(p)) /\ pc' = [pc EXCEPT ![p] = "mkfs_memset"]
        /\ torn' = torn
    BY <1>4, <2>2 DEF StoreStep, Goto, Sb1Of, ghosts
  <2>4. torn'
    BY <1>1, <2>1, <2>3 DEF Stored
  <2> QED
    BY <1>1, <1>2, <2>1, <2>3, <2>4, MkfsStore, Zenon
<1> QED
  BY <1>3, <1>4, Zenon DEF mkfs_superblock

LEMMA LogStores ==
  ASSUME DeviceInv, NEW p \in Proc, UNCHANGED load, mkfs_log(p)
  PROVE  DeviceInv'
<1>1. Stored(p) /\ load \in Loads /\ "log" \in Lines
  BY DEF DeviceInv, Turns, Lines
<1>2. ZeroLog \in Content("log") /\ LogOf(p) \in Content("log")
  BY <1>1, MkfsContent
<1>3. CASE StoreStep(p, "mkfs_memset", "log", ZeroLog, "mkfs_log")
  <2>1. /\ pc[p] \in MkfsPcs /\ "mkfs_log" \in StorePcs \ {"kill_flush", "mkfs_flush_superblock"}
        /\ pc[p] \in StorePcs /\ pc[p] \in AfterSb0 /\ pc[p] \in AfterCrc
        /\ "mkfs_log" \notin AfterLog
    BY <1>3 DEF StoreStep, At, MkfsPcs, StorePcs, AfterSb0, AfterCrc, AfterLog
  <2>2. /\ Store(H(p), "log", ZeroLog) /\ pc' = [pc EXCEPT ![p] = "mkfs_log"]
        /\ torn' = torn
    BY <1>3 DEF StoreStep, Goto, ghosts
  <2>3. torn'
    BY <1>1, <2>1, <2>2 DEF Stored
  <2> QED
    BY <1>1, <1>2, <2>1, <2>2, <2>3, MkfsStore, Zenon
<1>4. CASE StoreStep(p, "mkfs_log", "log", LogLine(TRUE, Uuid(p), 0), "mkfs_flush_log")
  <2>1. /\ pc[p] \in MkfsPcs
        /\ "mkfs_flush_log" \in StorePcs \ {"kill_flush", "mkfs_flush_superblock"}
        /\ pc[p] \in StorePcs /\ pc[p] \in AfterSb0 /\ pc[p] \in AfterCrc
    BY <1>4 DEF StoreStep, At, MkfsPcs, StorePcs, AfterSb0, AfterCrc, AfterLog
  <2>2. /\ Store(H(p), "log", LogOf(p)) /\ pc' = [pc EXCEPT ![p] = "mkfs_flush_log"]
        /\ torn' = torn
    BY <1>4, Zenon DEF StoreStep, Goto, LogOf, ghosts
  <2>3. torn'
    BY <1>1, <2>1, <2>2 DEF Stored
  <2> QED
    BY <1>1, <1>2, <2>1, <2>2, <2>3, MkfsStore, Zenon
<1> QED
  BY <1>3, <1>4, Zenon DEF mkfs_log

-----------------------------------------------------------------------------
(***************************************************************************)
(* The checks and flushes of mkfs and kill.                                *)
(***************************************************************************)
LEMMA EndAdvances ==
  ASSUME Turns, NEW p \in Proc, UNCHANGED load,
         NEW step \in {"done", "out_umount"}, pc' = [pc EXCEPT ![p] = step]
  PROVE  Advances(p) /\ pc'[p] \notin MkfsPcs \cup {"logplay_play"}
<1>1. step \in PcState /\ step \notin MkfsPcs \cup {"map_log", "logplay_play"}
  BY DEF MkfsPcs, StorePcs, PcState
<1> QED
  BY <1>1 DEF Turns, Advances

LEMMA FinishAdvances ==
  ASSUME Turns, NEW p \in Proc, UNCHANGED load, NEW r, Finish(p, r)
  PROVE  Advances(p) /\ pc'[p] \notin MkfsPcs \cup {"logplay_play"}
<1>1. \/ pc' = [pc EXCEPT ![p] = "done"] \/ pc' = [pc EXCEPT ![p] = "out_umount"]
  BY DEF Finish, Return, Unmount, Set
<1> QED
  BY <1>1, EndAdvances

(* A mkfs or kill that returns 0. *)
LEMMA Completes ==
  ASSUME DeviceInv, NEW p \in Proc, pc[p] \in MkfsPcs, Advances(p), pc'[p] \notin MkfsPcs,
         Tame(H(p)), Durable', looked' = {}
  PROVE  DeviceInv'
<1>1. DeviceOK /\ Turns /\ Sole /\ UNCHANGED load
  BY DEF DeviceInv, Advances
<1>2. H(p) \in Host /\ Proc' = Proc
  BY <1>1, Commands DEF Turns, Proc
<1>3. DeviceOK' /\ Turns'
  BY <1>1, <1>2, TameDevice, TurnsKept
<1>4. Sole'
  BY <1>1, <1>2, TameSole
<1>5. ASSUME NEW q \in Proc PROVE Stored(q)' /\ Current(q)'
  <2>1. pc'[q] \notin MkfsPcs
    BY <1>1 DEF Advances, Sole
  <2>2. Stored(q)'
    BY <2>1, NothingStored, StorePcsInMkfs
  <2>3. Current(q)'
    BY DEF Current
  <2> QED
    BY <2>2, <2>3
<1> QED
  BY <1>2, <1>3, <1>4, <1>5 DEF DeviceInv

(* The last flush of kill: memory has no superblock. *)
LEMMA KillFlush ==
  ASSUME DeviceInv, NEW p \in Proc, UNCHANGED load, At(p, "kill_flush"),
         Flush(H(p), {"sb0"}), Finish(p, 0), fs' = 0, looked' = {}
  PROVE  DeviceInv'
<1>1. /\ DeviceOK /\ Turns /\ Sole /\ Stored(p) /\ H(p) \in Host
      /\ "sb0" \in Lines /\ {"sb0"} \in SUBSET Lines
  BY Commands DEF DeviceInv, Turns, Lines, SbLines
<1>2. pc[p] = "kill_flush" /\ pc[p] \in MkfsPcs /\ pc[p] \in CommandPcs
  BY DEF At, MkfsPcs, StorePcs, CommandPcs
<1>3. Advances(p) /\ pc'[p] \notin MkfsPcs
  BY <1>1, <1>2, FinishAdvances
<1>4. Tame(H(p))
  BY <1>1, TameSteps
<1>5. dirty'[H(p)] = dirty[H(p)] \ {"sb0"}
  BY <1>1 DEF DeviceOK, Flush
<1>7. ~mem'["sb0"].magic
  BY <1>1, <1>2 DEF Stored, DeviceOK, Flush, WrittenBack
<1>8. \A h \in Host : "sb0" \notin dirty'[h]
  BY <1>1, <1>2, <1>4, <1>5 DEF Tame, Sole
<1>9. Durable'
  BY <1>7, <1>8 DEF Durable
<1> QED
  BY <1>2, <1>3, <1>4, <1>9, Completes

(* The first of the two flushes of mkfs. *)
LEMMA LogFlush ==
  ASSUME DeviceInv, NEW p \in Proc, UNCHANGED <<load, fs, torn>>,
         At(p, "mkfs_flush_log"), Flush(H(p), {"log"}), Goto(p, "mkfs_flush_superblock")
  PROVE  DeviceInv'
<1>1. /\ DeviceOK /\ Turns /\ Sole /\ Durable /\ Stored(p) /\ H(p) \in Host
      /\ {"log"} \in SUBSET Lines /\ H(p)' = H(p)
  BY Commands, SameCommand DEF DeviceInv, Turns, Lines
<1>2. /\ pc[p] = "mkfs_flush_log" /\ pc[p] \in MkfsPcs
      /\ "mkfs_flush_superblock" \in MkfsPcs
  BY DEF At, MkfsPcs, StorePcs
<1>3. Advances(p) /\ pc'[p] = "mkfs_flush_superblock"
  BY <1>1, <1>2, MkfsAdvances, Zenon DEF Goto
<1>4. Tame(H(p))
  BY <1>1, TameSteps
<1>5. DeviceOK' /\ Turns' /\ Durable' /\ Proc' = Proc
  BY <1>1, <1>3, <1>4, TameDevice, TameDurable, TurnsKept DEF Proc
<1>6. Sole'
  BY <1>1, <1>2, <1>3, <1>4, TameSole
<1>7. Stored(p)'
  <2>1. ASSUME NEW l \in Lines, NEW v, Held(H(p), l, v) PROVE Held(H(p), l, v)'
    <3>1. ASSUME NEW h \in Host, h = H(p), Held(h, l, v) PROVE Held(h, l, v)'
      BY <1>1, <1>4, <3>1, TameHeld
    <3> QED
      BY <1>1, <2>1, <3>1 DEF Held
  <2>2. /\ Held(H(p), "sb0", Sb0Of(p)) /\ Held(H(p), "sb1", Sb1Of(p))
        /\ Held(H(p), "log", LogOf(p)) /\ torn
    BY <1>1, <1>2 DEF Stored, StorePcs, AfterSb0, AfterCrc, AfterLog
  <2>3. /\ Held(H(p), "sb0", Sb0Of(p))' /\ Held(H(p), "sb1", Sb1Of(p))'
        /\ Held(H(p), "log", LogOf(p))' /\ torn'
    <3>1. /\ Sb0Of(p)' = Sb0Of(p) /\ Sb1Of(p)' = Sb1Of(p) /\ LogOf(p)' = LogOf(p)
      BY SameCommand
    <3> QED
      BY <2>1, <2>2, <3>1 DEF Held, Lines, SbLines
  <2>4. "log" \notin dirty'[H(p)]
    BY <1>1 DEF DeviceOK, Flush
  <2> QED
    BY <1>1, <1>3, <2>3, <2>4 DEF Stored
<1>8. ASSUME NEW q \in Proc, q # p PROVE Stored(q)'
  <2>1. pc'[q] = pc[q] /\ Stored(q)
    BY <1>3, <1>8 DEF Advances, DeviceInv
  <2> QED
    BY <1>1, <1>4, <2>1, TameStored
<1>9. ASSUME NEW q \in Proc PROVE Current(q)'
  BY <1>1, <1>2 DEF Stored, StorePcs, Current
<1> QED
  BY <1>5, <1>6, <1>7, <1>8, <1>9 DEF DeviceInv

(* The last one: memory has the superblock and the log of this mkfs. *)
LEMMA SuperblockFlush ==
  ASSUME DeviceInv, NEW p \in Proc, UNCHANGED load, At(p, "mkfs_flush_superblock"),
         Flush(H(p), SbLines), Finish(p, 0), fs' = Uuid(p), looked' = {}
  PROVE  DeviceInv'
<1>1. /\ DeviceOK /\ Turns /\ Sole /\ Stored(p) /\ H(p) \in Host
      /\ Lines = {"sb0", "sb1", "log"} /\ SbLines = {"sb0", "sb1"}
      /\ Uuid(p) \in Nat \ {0}
  BY Commands DEF DeviceInv, Turns, Lines, SbLines
<1>2. /\ pc[p] = "mkfs_flush_superblock" /\ pc[p] \in MkfsPcs /\ pc[p] \in CommandPcs
  BY DEF At, MkfsPcs, StorePcs, CommandPcs
<1>3. Advances(p) /\ pc'[p] \notin MkfsPcs
  BY <1>1, <1>2, FinishAdvances
<1>4. Tame(H(p))
  BY <1>1, TameSteps
<1>5. /\ Held(H(p), "sb0", Sb0Of(p)) /\ Held(H(p), "sb1", Sb1Of(p))
      /\ Held(H(p), "log", LogOf(p)) /\ "log" \notin dirty[H(p)]
  BY <1>1, <1>2 DEF Stored, AfterSb0, AfterCrc, AfterLog
<1>6. /\ mem'["sb0"] = Sb0Of(p) /\ mem'["sb1"] = Sb1Of(p) /\ mem'["log"] = LogOf(p)
  BY <1>1, <1>5 DEF Held, Flush, WrittenBack, DeviceOK
<1>7. dirty'[H(p)] = {}
  BY <1>1, <1>5 DEF DeviceOK, Flush
<1>8. \A h \in Host : dirty'[h] = {}
  BY <1>1, <1>2, <1>4, <1>7 DEF Tame, Sole
<1>9. /\ mem'["sb0"].uuid = Uuid(p) /\ mem'["log"].uuid = Uuid(p)
      /\ famfs_check_super(mem') = 0
  BY <1>6 DEF Sb0Of, Sb1Of, LogOf, Sb0, Sb1, LogLine, famfs_check_super
<1>10. Durable'
  BY <1>1, <1>8, <1>9 DEF Durable
<1> QED
  BY <1>2, <1>3, <1>4, <1>10, Completes

(* A step of mkfs that stores nothing. *)
LEMMA TameEnters ==
  ASSUME DeviceInv, NEW g \in Host, Tame(g), NEW p \in Proc, Advances(p),
         pc[p] \in MkfsPcs, pc'[p] # "logplay_play", Stored(p)',
         UNCHANGED <<fs, torn, looked>>
  PROVE  DeviceInv'
<1>1. DeviceOK /\ Turns /\ Sole /\ Durable /\ UNCHANGED load
  BY DEF DeviceInv, Advances
<1>2. DeviceOK' /\ Durable' /\ Turns' /\ Proc' = Proc
  BY <1>1, TameDevice, TameDurable, TurnsKept DEF Proc
<1>3. Sole'
  BY <1>1, TameSole
<1>4. ASSUME NEW q \in Proc, q # p PROVE Stored(q)' /\ Current(q)'
  <2>1. pc'[q] = pc[q] /\ Stored(q) /\ Current(q)
    BY <1>4 DEF Advances, DeviceInv
  <2>2. Stored(q)'
    BY <1>1, <2>1, TameStored
  <2>3. ~NewLook(q)
    BY <2>1 DEF NewLook
  <2>4. Current(q)'
    BY <1>1, <2>1, <2>3, TameCurrent
  <2> QED
    BY <2>2, <2>4
<1>5. Current(p)'
  BY DEF Current
<1> QED
  BY <1>2, <1>3, <1>4, <1>5 DEF DeviceInv

(* mkfs looks at memory itself before it stores. *)
LEMMA MkfsCheck ==
  ASSUME DeviceInv, NEW p \in Proc, UNCHANGED load, mkfs_check(p)
  PROVE  DeviceInv'
<1>1. /\ DeviceOK /\ Turns /\ Stored(p) /\ H(p) \in Host /\ SbLines \in SUBSET Lines
      /\ H(p)' = H(p) /\ Forced(p)' = Forced(p)
  BY Commands, SameCommand DEF DeviceInv, Turns, Lines
<1>2. /\ pc[p] = "mkfs" /\ pc[p] \in MkfsPcs /\ pc[p] \in CommandPcs
      /\ pc[p] \notin StorePcs /\ "mkfs_uuid" \in MkfsPcs
      /\ UNCHANGED <<fs, torn, looked>>
  BY DEF mkfs_check, At, MkfsPcs, StorePcs, CommandPcs, ghosts
<1>3. Invalidate(H(p), SbLines)
  BY DEF mkfs_check
<1>4. Tame(H(p))
  BY <1>1, <1>3, TameSteps
<1>5. CASE Finish(p, -1)
  <2>1. Advances(p) /\ pc'[p] \notin MkfsPcs \cup {"logplay_play"}
    BY <1>1, <1>2, <1>5, FinishAdvances
  <2>2. Stored(p)'
    BY <2>1, NothingStored, StorePcsInMkfs
  <2> QED
    BY <1>1, <1>2, <1>4, <2>1, <2>2, TameEnters
<1>6. CASE /\ Goto(p, "mkfs_uuid")
           /\ ~(famfs_check_super(SeenRaw(H(p))) \in {0, 1} /\ ~Forced(p))
  <2>1. Advances(p) /\ pc'[p] = "mkfs_uuid"
    BY <1>1, <1>2, <1>6, MkfsAdvances, Zenon DEF Goto
  <2>2. SbLines \cap dirty'[H(p)] = {} /\ mem' = SeenRaw(H(p))
    BY <1>1, <1>3 DEF Invalidate, DeviceOK, SeenRaw
  <2>3. Forced(p) \/ famfs_check_super(mem') = -1
    BY <1>6, <2>2 DEF famfs_check_super
  <2>4. Stored(p)'
    BY <1>1, <2>1, <2>2, <2>3
    DEF Stored, StorePcs, AfterSb0, AfterCrc, AfterLog
  <2> QED
    BY <1>1, <1>2, <1>4, <2>1, <2>4, TameEnters
<1> QED
  BY <1>5, <1>6 DEF mkfs_check

LEMMA MkfsUuid ==
  ASSUME DeviceInv, NEW p \in Proc, UNCHANGED load, mkfs_uuid(p)
  PROVE  DeviceInv'
<1>1. CASE /\ Store(H(p), "sb1", Sb1(H(p), View(H(p), "sb1").crc))
           /\ Goto(p, "mkfs_sb0") /\ torn' = TRUE
  BY <1>1, UuidStore DEF mkfs_uuid
<1>2. CASE Invalidate(H(p), SbLines) /\ Finish(p, -1) /\ UNCHANGED torn
  <2>1. /\ DeviceOK /\ Turns /\ H(p) \in Host /\ SbLines \in SUBSET Lines
    BY Commands DEF DeviceInv, Turns, Lines
  <2>2. pc[p] \in MkfsPcs /\ UNCHANGED <<fs, torn, looked>>
    BY <1>2 DEF mkfs_uuid, At, MkfsPcs
  <2>3. Tame(H(p))
    BY <1>2, <2>1, TameSteps
  <2>4. Advances(p) /\ pc'[p] \notin MkfsPcs \cup {"logplay_play"}
    BY <1>2, <2>1, <2>2, FinishAdvances
  <2>5. Stored(p)'
    BY <2>4, NothingStored, StorePcsInMkfs
  <2> QED
    BY <2>1, <2>2, <2>3, <2>4, <2>5, TameEnters
<1> QED
  BY <1>1, <1>2, Zenon DEF mkfs_uuid

(* A superblock that cannot be stored: what mkfs did so far stays behind. *)
LEMMA NotWritable ==
  ASSUME DeviceInv, NEW p \in Proc, UNCHANGED load, mkfs_not_writable(p)
  PROVE  DeviceInv'
<1>1. /\ DeviceOK /\ Turns /\ H(p) \in Host /\ SbLines \in SUBSET Lines
  BY Commands DEF DeviceInv, Turns, Lines
<1>2. pc[p] \in MkfsPcs /\ UNCHANGED <<fs, torn, looked>>
  BY DEF mkfs_not_writable, At, MkfsPcs, StorePcs, ghosts
<1>3. Tame(H(p))
  BY <1>1, TameSteps DEF mkfs_not_writable
<1>4. Advances(p) /\ pc'[p] \notin MkfsPcs \cup {"logplay_play"}
  BY <1>1, FinishAdvances DEF mkfs_not_writable
<1>5. Stored(p)'
  BY <1>4, NothingStored, StorePcsInMkfs
<1> QED
  BY <1>1, <1>2, <1>3, <1>4, <1>5, TameEnters

LEMMA KillSteps ==
  ASSUME DeviceInv, NEW p \in Proc, UNCHANGED load, famfs_kill_superblock(p)
  PROVE  DeviceInv'
BY KillStore, KillFlush DEF famfs_kill_superblock, Succeeds

LEMMA FlushSteps ==
  ASSUME DeviceInv, NEW p \in Proc, UNCHANGED load, mkfs_flush(p)
  PROVE  DeviceInv'
BY LogFlush, SuperblockFlush DEF mkfs_flush, ghosts, Succeeds

-----------------------------------------------------------------------------
(***************************************************************************)
(* Everything else: the mounts, the commands up to their first store, the  *)
(* caches and the crashes.                                                 *)
(***************************************************************************)

LEMMA MovesOn ==
  ASSUME Turns, NEW p \in Proc, UNCHANGED load, NEW step \in Elsewhere,
         pc' = [pc EXCEPT ![p] = step]
  PROVE  Advances(p) /\ Harmless(p) /\ pc'[p] # "logplay_play"
<1>1. /\ step \in PcState /\ step \notin MkfsPcs \cup {"map_log"} /\ pc'[p] = step
      /\ step # "logplay_play"
  BY DEF Elsewhere, Turns
<1> QED
  BY <1>1, StorePcsInMkfs DEF Turns, Advances, Harmless

LEMMA StaysPut ==
  ASSUME Turns, NEW p \in Proc, UNCHANGED <<load, pc>>
  PROVE  Advances(p) /\ Harmless(p)
BY DEF Turns, Advances, Harmless

LEMMA TameLooks ==
  ASSUME DeviceOK, NEW p \in Proc, H(p) \in Host, Looks(p)
  PROVE  Tame(H(p))
<1>1. /\ SbLines \in SUBSET Lines /\ {"log"} \in SUBSET Lines /\ Lines \in SUBSET Lines
      /\ {} \in SUBSET Lines /\ "log" \in Lines
  BY DEF Lines
<1> QED
  BY <1>1, TameSteps DEF Looks

(* A look at the log that is not one at the log to be played next. *)
LEMMA NoNewLook ==
  ASSUME NEW p \in Proc, Advances(p), pc'[p] # "logplay_play", looked' \subseteq looked \cup {p},
         NEW q \in Proc
  PROVE  ~NewLook(q)
BY DEF Advances, NewLook

LEMMA LooksOn ==
  ASSUME DeviceInv, NEW p \in Proc, UNCHANGED <<load, fs, torn>>, Looks(p), Moves(p),
         looked' \subseteq looked \cup {p}, UNCHANGED pc => UNCHANGED looked
  PROVE  DeviceInv'
<1>1. DeviceOK /\ Turns /\ H(p) \in Host
  BY Commands DEF DeviceInv, Turns
<1>2. Tame(H(p))
  BY <1>1, TameLooks
<1>3. CASE UNCHANGED pc
  <2>1. Advances(p) /\ Harmless(p) /\ \A q \in Proc : ~NewLook(q)
    BY <1>1, <1>3, StaysPut DEF NewLook
  <2> QED
    BY <1>1, <1>2, <2>1, TameStep
<1>4. CASE \E step \in Elsewhere : pc' = [pc EXCEPT ![p] = step]
  <2>1. Advances(p) /\ Harmless(p) /\ pc'[p] # "logplay_play"
    BY <1>1, <1>4, MovesOn
  <2>2. \A q \in Proc : ~NewLook(q)
    BY <2>1, NoNewLook
  <2> QED
    BY <1>1, <1>2, <2>1, <2>2, TameStep
<1> QED
  BY <1>3, <1>4 DEF Moves

(* A mount looks at the log: what it will see is in memory, unless what it *)
(* saw was no log.                                                         *)
LEMMA LooksAtLog ==
  ASSUME DeviceInv, NEW p \in Proc, UNCHANGED <<load, fs, torn>>, invalidate_log(p),
         looked' \subseteq looked \cup {p}
  PROVE  DeviceInv'
<1>1. DeviceOK /\ Turns /\ Durable /\ H(p) \in Host /\ H(p)' = H(p) /\ "log" \in Lines
  BY Commands, SameCommand DEF DeviceInv, Turns, Lines
<1>2. Tame(H(p))
  <2>1. {"log"} \in SUBSET Lines
    BY <1>1
  <2> QED
    BY <1>1, <2>1, TameSteps DEF invalidate_log
<1>3. /\ pc' = [pc EXCEPT ![p] = "logplay_play"] /\ "logplay_play" \in PcState
      /\ "logplay_play" \notin MkfsPcs \cup {"map_log"}
  BY DEF invalidate_log, Goto, PcState, MkfsPcs, StorePcs
<1>4. Advances(p) /\ Harmless(p)
  BY <1>1, <1>3, StorePcsInMkfs DEF Turns, Advances, Harmless
<1>5. Current(p)'
  <2> SUFFICES ASSUME ~torn, fs # 0, View(H(p), "log")'.magic
               PROVE  View(H(p), "log")' = mem'["log"]
    BY DEF Current
  <2>1. CASE Invalidate(H(p), {"log"})
    <3>1. cache'[H(p)]["log"] = Miss
      BY <1>1, <2>1 DEF DeviceOK, Invalidate
    <3> QED
      BY <1>1, <3>1 DEF View
  <2>2. CASE Load(H(p), "log") /\ ~View(H(p), "log").magic
    <3>1. View(H(p), "log")' = View(H(p), "log")
      BY <1>1, <2>2 DEF DeviceOK, Load, View
    <3> QED
      BY <2>2, <3>1
  <2> QED
    BY <2>1, <2>2 DEF invalidate_log
<1>6. \A q \in Proc : NewLook(q) => q = p
  BY <1>4 DEF Advances, NewLook
<1> QED
  BY <1>1, <1>2, <1>4, <1>5, <1>6, TameStep

LEMMA ElsewhereIs ==
  /\ {"mount", "raw", "ready", "mkmeta_superblock", "wait_superblock", "daemon_alive",
      "wait_extra", "read_superblock", "mkmeta_log", "wait_log", "logplay",
      "logplay_map", "out", "out_umount", "done"} \subseteq Elsewhere
BY DEF Elsewhere, PcState, CommandPcs, MkfsPcs, StorePcs

LEMMA MountMoves ==
  ASSUME NEW p \in Proc, MountStep(p), ~invalidate_log(p)
  PROVE  Moves(p)
<1>1. CASE famfs_mount_fuse(p)
  BY <1>1, ElsewhereIs
  DEF famfs_mount_fuse, At, Goto, Set, Return, Out, Moves, StorePcs
<1>2. CASE famfs_start_fuse_daemon(p)
  BY <1>2 DEF famfs_start_fuse_daemon, Moves
<1>3. CASE famfs_dummy_mount_v1(p)
  BY <1>3, ElsewhereIs
  DEF famfs_dummy_mount_v1, At, Goto, Set, Return, Out, Moves, StorePcs
<1>4. CASE do_famfs_cli_mount(p)
  BY <1>4, ElsewhereIs
  DEF do_famfs_cli_mount, famfs_mmap_superblock_and_log_raw, At, Goto, Set, Return, Out,
      Moves, StorePcs
<1>5. CASE famfs_mkmeta_superblock(p)
  BY <1>5, ElsewhereIs
  DEF famfs_mkmeta_superblock, mkmeta, At, Goto, Set, Return, Out, Moves, StorePcs
<1>6. CASE wait_superblock(p)
  BY <1>6, ElsewhereIs
  DEF wait_superblock, check_file_exists, At, Goto, Set, Return, Out, Moves, StorePcs
<1>7. CASE famfs_fuse_daemon_alive(p)
  BY <1>7, ElsewhereIs
  DEF famfs_fuse_daemon_alive, At, Goto, Set, Return, Out, Moves, StorePcs
<1>8. CASE wait_extra(p)
  BY <1>8, ElsewhereIs
  DEF wait_extra, check_file_exists, At, Goto, Set, Return, Out, Moves, StorePcs
<1>9. CASE famfs_get_role_and_logstats(p)
  BY <1>9, ElsewhereIs
  DEF famfs_get_role_and_logstats, At, Goto, Set, Return, Out, Moves, StorePcs
<1>10. CASE famfs_mkmeta_log(p)
  BY <1>10, ElsewhereIs
  DEF famfs_mkmeta_log, mkmeta, At, Goto, Set, Return, Out, Moves, StorePcs
<1>11. CASE wait_log(p)
  BY <1>11, ElsewhereIs
  DEF wait_log, check_file_exists, At, Goto, Set, Return, Out, Moves, StorePcs
<1>12. CASE famfs_logplay(p)
  BY <1>12, ElsewhereIs
  DEF famfs_logplay, open_meta_files, play_log, PlayLog, LogplayFails, At, Goto, Set,
      Return, Out, Moves, StorePcs
<1>13. CASE mount_out(p)
  BY <1>13, ElsewhereIs, Zenon
  DEF mount_out, At, Goto, Set, Return, Out, Moves, StorePcs
<1>14. CASE out_umount(p)
  BY <1>14, ElsewhereIs, Zenon
  DEF out_umount, At, Goto, Set, Return, Out, Moves, StorePcs
<1> QED
  BY <1>1, <1>2, <1>3, <1>4, <1>5, <1>6, <1>7, <1>8, <1>9, <1>10, <1>11, <1>12, <1>13,
     <1>14 DEF MountStep

LEMMA MountLooks ==
  ASSUME NEW p \in Proc, MountStep(p)
  PROVE  Looks(p)
<1>1. CASE famfs_mount_fuse(p)
  BY <1>1 DEF famfs_mount_fuse, Looks
<1>2. CASE famfs_start_fuse_daemon(p)
  BY <1>2 DEF famfs_start_fuse_daemon, Looks
<1>3. CASE famfs_dummy_mount_v1(p)
  BY <1>3 DEF famfs_dummy_mount_v1, Looks
<1>4. CASE do_famfs_cli_mount(p)
  BY <1>4 DEF do_famfs_cli_mount, famfs_mmap_superblock_and_log_raw, Looks
<1>5. CASE famfs_mkmeta_superblock(p)
  BY <1>5 DEF famfs_mkmeta_superblock, mkmeta, Looks
<1>6. CASE wait_superblock(p)
  BY <1>6 DEF wait_superblock, check_file_exists, Looks
<1>7. CASE famfs_fuse_daemon_alive(p)
  BY <1>7 DEF famfs_fuse_daemon_alive, Looks
<1>8. CASE wait_extra(p)
  BY <1>8 DEF wait_extra, check_file_exists, Looks
<1>9. CASE famfs_get_role_and_logstats(p)
  BY <1>9 DEF famfs_get_role_and_logstats, Looks
<1>10. CASE famfs_mkmeta_log(p)
  BY <1>10 DEF famfs_mkmeta_log, mkmeta, Looks
<1>11. CASE wait_log(p)
  BY <1>11 DEF wait_log, check_file_exists, Looks
<1>12. CASE famfs_logplay(p)
  BY <1>12 DEF famfs_logplay, open_meta_files, invalidate_log, play_log, Looks
<1>13. CASE mount_out(p)
  BY <1>13 DEF mount_out, Looks
<1>14. CASE out_umount(p)
  BY <1>14 DEF out_umount, Looks
<1> QED
  BY <1>1, <1>2, <1>3, <1>4, <1>5, <1>6, <1>7, <1>8, <1>9, <1>10, <1>11, <1>12, <1>13,
     <1>14 DEF MountStep

(* A mkfs on its way to its first store. *)
LEMMA NearsStore ==
  ASSUME DeviceInv, NEW p \in Proc, UNCHANGED <<load, fs, torn, looked>>, Looks(p),
         Op(p) = "mkfs", NEW step \in {"kill", "mkfs", "map_log", "done", "out_umount"},
         pc' = [pc EXCEPT ![p] = step], step \in {"kill", "mkfs"} => ~Interferes(p)
  PROVE  DeviceInv'
<1>1. DeviceOK /\ Turns /\ H(p) \in Host
  BY Commands DEF DeviceInv, Turns
<1>2. Tame(H(p))
  BY <1>1, TameLooks
<1>3. /\ step \in PcState /\ step \notin StorePcs \cup {"mkfs_uuid", "logplay_play"}
      /\ step \in MkfsPcs => step \in {"kill", "mkfs"}
  BY DEF PcState, CommandPcs, StorePcs, MkfsPcs
<1>4. Advances(p) /\ Harmless(p) /\ pc'[p] # "logplay_play"
  BY <1>1, <1>3 DEF Turns, Advances, Harmless
<1>5. \A q \in Proc : ~NewLook(q)
  BY <1>4, NoNewLook
<1> QED
  BY <1>1, <1>2, <1>4, <1>5, TameStep

(* Where a step of a command that stores nothing may take it. *)
LEMMA Avoids ==
  ASSUME NEW p \in Proc, ~raced',
         \/ \E step \in {"map_log", "done", "out_umount"} : pc' = [pc EXCEPT ![p] = step]
         \/ Enter(p, "kill") \/ Enter(p, "mkfs")
  PROVE  \E step \in {"kill", "mkfs", "map_log", "done", "out_umount"} :
           /\ pc' = [pc EXCEPT ![p] = step]
           /\ step \in {"kill", "mkfs"} => ~Interferes(p)
BY DEF Enter, Goto

LEMMA RawSteps ==
  ASSUME DeviceInv, NEW p \in Proc, UNCHANGED load, ~raced',
         famfs_mkfs_rawdev(p) \/ famfs_fsck(p) \/ famfs_dax_shadow_logplay(p)
  PROVE  DeviceInv'
<1>1. pc[p] = "raw" /\ UNCHANGED <<fs, torn>>
  BY DEF famfs_mkfs_rawdev, famfs_fsck, famfs_dax_shadow_logplay, At, ghosts
<1>2. Looks(p)
  BY DEF famfs_mkfs_rawdev, famfs_fsck, famfs_dax_shadow_logplay,
         famfs_mmap_superblock_and_log_raw, Looks
<1>3. CASE famfs_mkfs_rawdev(p)
  <2>1. /\ Op(p) = "mkfs" /\ UNCHANGED looked
        /\ Return(p, -1) \/ Enter(p, "kill") \/ Enter(p, "mkfs")
    BY <1>3 DEF famfs_mkfs_rawdev, Avoid
  <2>2. \E step \in {"kill", "mkfs", "map_log", "done", "out_umount"} :
          /\ pc' = [pc EXCEPT ![p] = step]
          /\ step \in {"kill", "mkfs"} => ~Interferes(p)
    BY <2>1, Avoids DEF Return, Set
  <2> QED
    BY <1>1, <1>2, <2>1, <2>2, NearsStore
<1>4. CASE famfs_fsck(p) \/ famfs_dax_shadow_logplay(p)
  <2>1. /\ Return(p, -1) \/ Return(p, 0) \/ Return(p, 1) \/ Return(p, -9)
        /\ looked' \subseteq looked \cup {p}
    BY <1>4 DEF famfs_fsck, famfs_dax_shadow_logplay, ghosts
  <2>2. pc' = [pc EXCEPT ![p] = "done"] /\ pc' # pc
    BY <1>1, <2>1 DEF Return, Set, DeviceInv, Turns
  <2>3. Moves(p)
    BY <1>1, <2>2, ElsewhereIs DEF Moves, StorePcs
  <2> QED
    BY <1>1, <1>2, <2>1, <2>2, <2>3, LooksOn
<1> QED
  BY <1>3, <1>4

LEMMA DummyMkfsSteps ==
  ASSUME DeviceInv, NEW p \in Proc, UNCHANGED load, ~raced',
         famfs_mkfs_via_dummy_mount(p) \/ famfs_map_log_by_path(p)
  PROVE  DeviceInv'
<1>1. UNCHANGED <<fs, torn, looked>>
  BY DEF famfs_mkfs_via_dummy_mount, famfs_map_log_by_path
<1>2. Looks(p)
  BY DEF famfs_mkfs_via_dummy_mount, famfs_map_log_by_path,
         famfs_map_superblock_by_path, Looks
<1>3. Op(p) = "mkfs"
  BY DEF famfs_mkfs_via_dummy_mount, famfs_map_log_by_path, At, DeviceInv, Turns
<1>4. Unmount(p, -1) \/ Enter(p, "kill") \/ Goto(p, "map_log") \/ Enter(p, "mkfs")
  BY DEF famfs_mkfs_via_dummy_mount, famfs_map_log_by_path, Avoid
<1>5. \E step \in {"kill", "mkfs", "map_log", "done", "out_umount"} :
        /\ pc' = [pc EXCEPT ![p] = step]
        /\ step \in {"kill", "mkfs"} => ~Interferes(p)
  BY <1>4, Avoids DEF Unmount, Set, Goto
<1> QED
  BY <1>1, <1>2, <1>3, <1>5, NearsStore

LEMMA FsckMounted ==
  ASSUME DeviceInv, NEW p \in Proc, UNCHANGED load, famfs_fsck_mounted(p)
  PROVE  DeviceInv'
<1>1. pc[p] = "ready" /\ UNCHANGED <<fs, torn>> /\ looked' = looked \cup {p}
  BY DEF famfs_fsck_mounted, At
<1>2. Looks(p)
  BY DEF famfs_fsck_mounted, Looks
<1>3. Unmount(p, -1) \/ Unmount(p, 0) \/ Unmount(p, 1)
  BY DEF famfs_fsck_mounted
<1>4. pc' = [pc EXCEPT ![p] = "out_umount"] /\ pc' # pc
  BY <1>1, <1>3 DEF Unmount, Set, DeviceInv, Turns
<1>5. Moves(p)
  BY <1>1, <1>4, ElsewhereIs DEF Moves, StorePcs
<1> QED
  BY <1>1, <1>2, <1>4, <1>5, LooksOn

LEMMA Begins ==
  ASSUME DeviceInv, NEW p \in Proc, UNCHANGED load, Begin(p)
  PROVE  DeviceInv'
<1>1. \E step \in {"raw", "mount"} : pc' = [pc EXCEPT ![p] = step]
  BY Zenon DEF Begin, Goto
<1>2. Moves(p)
  BY <1>1, ElsewhereIs DEF Begin, At, StorePcs, Moves
<1>3. UNCHANGED <<fs, torn, looked>> /\ Looks(p)
  BY DEF Begin, ghosts, Looks
<1> QED
  BY <1>2, <1>3, LooksOn

LEMMA KillsProcess ==
  ASSUME DeviceInv, NEW p \in Proc, UNCHANGED load, KillProcess(p)
  PROVE  DeviceInv'
<1>1. DeviceOK /\ Turns /\ H(p) \in Host
  BY Commands DEF DeviceInv, Turns
<1>2. Tame(H(p)) /\ UNCHANGED <<fs, torn, looked>>
  BY <1>1, TameSteps DEF KillProcess, ghosts
<1>3. pc' = [pc EXCEPT ![p] = "done"]
  BY DEF KillProcess, Return, Set
<1>4. Advances(p) /\ pc'[p] \notin MkfsPcs \cup {"logplay_play"}
  BY <1>1, <1>3, EndAdvances, Zenon
<1>5. Harmless(p) /\ \A q \in Proc : ~NewLook(q)
  BY <1>2, <1>4, StorePcsInMkfs, NoNewLook DEF Harmless
<1> QED
  BY <1>1, <1>2, <1>4, <1>5, TameStep

LEMMA CacheSteps ==
  ASSUME DeviceInv, UNCHANGED load, CacheStep
  PROVE  DeviceInv'
<1>1. PICK p \in Proc, l \in Lines :
        Refetch(H(p), l) \/ WriteBack(H(p), l)
  BY DEF CacheStep
<1>2. DeviceOK /\ Turns /\ H(p) \in Host /\ {l} \in SUBSET Lines
  BY Commands DEF DeviceInv, Turns
<1>3. Tame(H(p))
  BY <1>1, <1>2, TameSteps
     DEF WriteBack
<1>4. UNCHANGED <<pc, fs, torn, looked>>
  BY DEF CacheStep, ghosts
<1>5. \A q \in Proc : ~NewLook(q)
  BY <1>4 DEF NewLook
<1> QED
  BY <1>2, <1>3, <1>4, <1>5, StaysPut, TameStep

(* Steps that touch neither processes nor memory. *)
LEMMA Untouched ==
  ASSUME DeviceInv, UNCHANGED <<fccVars, load, pc, fs, torn, looked>>
  PROVE  DeviceInv'
<1>1. Proc' = Proc
  BY DEF Proc
<1>2. DeviceOK' /\ Turns' /\ Sole' /\ Durable'
  BY <1>1
     DEF DeviceInv, DeviceOK, Turns, Sole, Durable, fccVars, Op, H
<1>3. ASSUME NEW p \in Proc PROVE Stored(p)' /\ Current(p)'
  <2>1. Stored(p) /\ Current(p) /\ UNCHANGED <<mem, cache, dirty>>
    BY DEF DeviceInv, fccVars
  <2>2. Stored(p)'
    BY <2>1, SameCommand DEF Stored, Held
  <2>3. Current(p)'
    BY <2>1, SameCommand DEF Current, View
  <2> QED
    BY <2>2, <2>3
<1> QED
  BY <1>1, <1>2, <1>3 DEF DeviceInv

(* A host that loses power loses what it did not write back, and with it   *)
(* every mkfs that relied on it.                                           *)
LEMMA HostCrashes ==
  ASSUME DeviceInv, UNCHANGED load, NEW h \in Host, HostCrash(h)
  PROVE  DeviceInv'
<1>1. Proc' = Proc /\ DeviceOK /\ Turns /\ Sole /\ Durable
  BY DEF Proc, DeviceInv
<1>2. /\ mem' = mem /\ UNCHANGED <<fs, torn, looked>>
      /\ cache' = [cache EXCEPT ![h] = [l \in DOMAIN mem |-> Miss]]
      /\ dirty' = [dirty EXCEPT ![h] = {}]
  BY DEF HostCrash, PowerLoss, ghosts
<1>3. pc' = [p \in Proc |-> IF H(p) = h /\ Running(p) THEN "done" ELSE pc[p]]
  BY DEF HostCrash
<1>4. DeviceOK'
  BY <1>1, <1>2 DEF DeviceOK
<1>5. Turns'
  <2>1. "done" \in PcState /\ "done" \notin MkfsPcs \cup {"map_log"} /\ "done" # "idle"
    BY DEF PcState, MkfsPcs, StorePcs
  <2>2. pc' \in [Proc -> PcState]
    BY <1>1, <1>3, <2>1 DEF Turns
  <2>3. \A p \in Proc : pc'[p] = pc[p] \/ (pc'[p] = "done" /\ pc[p] # "idle")
    BY <1>3 DEF Running
  <2> QED
    BY <1>1, <2>1, <2>2, <2>3 DEF Turns, Op
<1>6. Sole'
  <2>1. \A g \in Host : dirty[g] = {} => dirty'[g] = {}
    BY <1>1, <1>2 DEF DeviceOK
  <2>2. \A p \in Proc : pc'[p] \in MkfsPcs => pc[p] \in MkfsPcs
    BY <1>3 DEF MkfsPcs, StorePcs
  <2> QED
    BY <1>1, <2>1, <2>2 DEF Sole, H
<1>7. ASSUME NEW p \in Proc PROVE Stored(p)' /\ Current(p)'
  <2>1. CASE H(p) = h
    <3>1. pc'[p] \in {"idle", "done"}
      BY <1>3, <2>1 DEF Running
    <3> QED
      BY <3>1 DEF Stored, StorePcs, AfterSb0, AfterCrc, AfterLog, Current
  <2>2. CASE H(p) # h
    <3>1. H(p) \in Host
      BY <1>1, Commands DEF Turns
    <3>2. /\ pc'[p] = pc[p] /\ Stored(p) /\ Current(p)
          /\ dirty'[H(p)] = dirty[H(p)] /\ cache'[H(p)] = cache[H(p)]
      BY <1>1, <1>2, <1>3, <2>2, <3>1 DEF DeviceInv, DeviceOK
    <3>3. UNCHANGED <<H(p), Forced(p), Sb0Of(p), Sb1Of(p), LogOf(p)>>
      BY SameCommand DEF H, Forced, Sb0Of, Sb1Of, LogOf
    <3>4. Stored(p)'
      BY <1>2, <3>2, <3>3, Zenon DEF Stored, Held
    <3>5. Current(p)'
      BY <1>2, <3>2, <3>3, Zenon DEF Current, View
    <3> QED
      BY <3>4, <3>5
  <2> QED
    BY <2>1, <2>2
<1>8. Durable'
  <2>1. \A g \in Host : dirty'[g] \subseteq dirty[g]
    BY <1>1, <1>2 DEF DeviceOK
  <2>2. \A g \in Host : /\ dirty[g] = {} => dirty'[g] = {}
                        /\ "sb0" \notin dirty[g] => "sb0" \notin dirty'[g]
    BY <2>1
  <2> QED
    BY <1>1, <1>2, <2>2, Zenon DEF Durable
<1> QED
  BY <1>1, <1>4, <1>5, <1>6, <1>7, <1>8 DEF DeviceInv

(* Before the first command nothing is cached, and the device is blank or  *)
(* formatted.                                                              *)
LEMMA DeviceInit == Init => DeviceInv
<1> SUFFICES ASSUME Init PROVE DeviceInv
  OBVIOUS
<1>1. load \in Loads /\ BlankOrFormatted(load.device) /\ mem = load.device
  BY MkfsAssumption DEF Init
<1>2. PICK m \in BOOLEAN, v \in Versions, u \in Nat, s \in Systems, n \in Nat :
        /\ DOMAIN mem = Lines
        /\ mem["sb0"] = Sb0(m, v, u)
        /\ mem["sb1"] = Sb1(s, <<m, v, u, s>>)
        /\ mem["log"] = LogLine(m, u, n)
        /\ u = 0 <=> ~m
  <2>1. CASE mem = Blank
    <3>1. /\ DOMAIN mem = Lines
          /\ mem["sb0"] = Sb0(FALSE, CurrentVersion, 0)
          /\ mem["sb1"] = Sb1(NoHost, <<FALSE, CurrentVersion, 0, NoHost>>)
          /\ mem["log"] = LogLine(FALSE, 0, 0)
      BY <2>1 DEF Blank, Lines, SbLines, NoCrc, ZeroLog
    <3>2. FALSE \in BOOLEAN /\ CurrentVersion \in Versions /\ 0 \in Nat /\ NoHost \in Systems
      BY DEF Versions, Systems
    <3> QED
      BY <3>1, <3>2, Zenon
  <2>2. CASE \E h \in Host, w \in Versions : mem = Formatted(h, w)
    <3> PICK h \in Host, w \in Versions : mem = Formatted(h, w)
      BY <2>2
    <3>1. /\ DOMAIN mem = Lines
          /\ mem["sb0"] = Sb0(TRUE, w, 1)
          /\ mem["sb1"] = Sb1(h, famfs_gen_superblock_crc(Sb0(TRUE, w, 1), h))
          /\ mem["log"] = LogLine(TRUE, 1, 1)
      BY DEF Formatted, Lines, SbLines
    <3>2. famfs_gen_superblock_crc(Sb0(TRUE, w, 1), h) = <<TRUE, w, 1, h>>
      BY DEF famfs_gen_superblock_crc, Sb0
    <3>3. TRUE \in BOOLEAN /\ 1 \in Nat /\ h \in Systems /\ 1 # 0
      BY DEF Systems
    <3> QED
      BY <3>1, <3>2, <3>3, Zenon
  <2>3. mem = Blank \/ \E h \in Host, w \in Versions : mem = Formatted(h, w)
    BY <1>1, Zenon DEF BlankOrFormatted
  <2> QED
    BY <2>1, <2>2, <2>3, Zenon
<1>3. /\ mem["sb0"] \in Sb0Line /\ mem["sb0"].magic = m /\ mem["sb0"].uuid = u
      /\ mem["sb0"].version = v
  BY <1>2 DEF Sb0, Sb0Line
<1>4. mem["sb1"] \in Sb1Line /\ mem["sb1"].system = s /\ mem["sb1"].crc = <<m, v, u, s>>
  BY <1>2 DEF Sb1, Sb1Line
<1>5. mem["log"] \in LogHeader /\ mem["log"].uuid = u
  BY <1>2 DEF LogLine, LogHeader
<1>6. \A l \in Lines : mem[l] \in Content(l)
  BY <1>3, <1>4, <1>5 DEF Lines, SbLines, Content
<1>7. m => famfs_check_super(mem) \in {0, 1}
  BY <1>3, <1>4 DEF famfs_check_super, famfs_gen_superblock_crc
<1>8. DeviceOK
  BY <1>2, <1>6 DEF Init, DeviceOK
<1>9. \A p \in Proc : pc[p] = "idle"
  BY DEF Init
<1>10. Turns
  BY <1>1 DEF Init, Turns, PcState, MkfsPcs, StorePcs
<1>11. Sole
  BY <1>9 DEF Sole, MkfsPcs, StorePcs
<1>12. \A p \in Proc : Stored(p) /\ Current(p)
  BY <1>9 DEF Stored, StorePcs, AfterSb0, AfterCrc, AfterLog, Current
<1>13. Durable
  BY <1>2, <1>3, <1>5, <1>7 DEF Init, Durable
<1> QED
  BY <1>8, <1>10, <1>11, <1>12, <1>13 DEF DeviceInv

(* A step of a mount: its look at the log to be played, or another. *)
LEMMA MountKeeps ==
  ASSUME DeviceInv, NEW p \in Proc, UNCHANGED <<load, fs, torn>>, MountStep(p),
         looked' = IF At(p, "logplay_map") /\ pc' # pc THEN looked \cup {p} ELSE looked
  PROVE  DeviceInv'
<1>1. looked' \subseteq looked \cup {p} /\ (UNCHANGED pc => UNCHANGED looked)
  OBVIOUS
<1>2. CASE invalidate_log(p)
  BY <1>1, <1>2, LooksAtLog
<1>3. CASE ~invalidate_log(p)
  BY <1>1, <1>3, MountMoves, MountLooks, LooksOn
<1> QED
  BY <1>2, <1>3

(* Every step of every command, of a daemon, a cache or a crash keeps it,  *)
(* unless mkfs races.                                                      *)
LEMMA DeviceNext == DeviceInv /\ [Next]_vars /\ ~raced' => DeviceInv'
<1> SUFFICES ASSUME DeviceInv, [Next]_vars, ~raced' PROVE DeviceInv'
  OBVIOUS
<1>1. CASE UNCHANGED vars
  BY <1>1, Untouched DEF vars, ghosts
<1>2. ASSUME Next PROVE DeviceInv'
  <2>1. UNCHANGED load
    BY <1>2 DEF Next
  <2>2. ASSUME NEW p \in Proc, Process(p), ~MkfsStep(p) PROVE DeviceInv'
    BY <2>1, <2>2, MountKeeps DEF Process
  <2>3. ASSUME NEW p \in Proc, MkfsStep(p) PROVE DeviceInv'
    BY <2>1, <2>3, Begins, RawSteps, DummyMkfsSteps, FsckMounted, KillSteps, MkfsCheck,
       MkfsUuid, SuperblockStores, NotWritable, LogStores, FlushSteps DEF MkfsStep
  <2>4. ASSUME NEW p \in Proc, Umount(p) PROVE DeviceInv'
    BY <2>1, <2>4, Untouched DEF Umount, ghosts
  <2>5. CASE CacheStep
    BY <2>1, <2>5, CacheSteps
  <2>6. ASSUME NEW p \in Proc, DaemonDies(p), UNCHANGED ghosts PROVE DeviceInv'
    BY <2>1, <2>6, Untouched DEF DaemonDies, ghosts
  <2>7. CASE Crash
    BY <2>1, <2>6, <2>7, KillsProcess, HostCrashes DEF Crash
  <2> QED
    BY <1>2, <2>2, <2>3, <2>4, <2>5, <2>7 DEF Next
<1> QED
  BY <1>1, <1>2

-----------------------------------------------------------------------------
(***************************************************************************)
(* What holds even if mkfs races.                                          *)
(***************************************************************************)
LEMMA BasicStep ==
  ASSUME Basic, NEW p \in Proc, Advances(p), Tame(H(p)) \/ Writes(H(p))
  PROVE  Basic'
<1>1. DeviceOK /\ Turns /\ H(p) \in Host
  BY Commands DEF Basic, Turns
<1>2. Turns'
  BY <1>1, TurnsKept
<1>3. DeviceOK'
  BY <1>1, TameDevice, StoreDevice DEF Writes
<1> QED
  BY <1>2, <1>3 DEF Basic

(* A command goes to its next step. *)
LEMMA StepAdvances ==
  ASSUME Turns, NEW p \in Proc, UNCHANGED load, NEW step \in PcState,
         pc' = [pc EXCEPT ![p] = step], step \in MkfsPcs \cup {"map_log"} => Op(p) = "mkfs"
  PROVE  Advances(p)
BY DEF Turns, Advances

LEMMA MountBasic ==
  ASSUME Basic, NEW p \in Proc, UNCHANGED load, MountStep(p)
  PROVE  Basic'
<1>1. DeviceOK /\ Turns /\ H(p) \in Host
  BY Commands DEF Basic, Turns
<1>2. Tame(H(p))
  BY <1>1, MountLooks, TameLooks
<1>3. CASE invalidate_log(p)
  <2>1. /\ pc' = [pc EXCEPT ![p] = "logplay_play"] /\ "logplay_play" \in PcState
        /\ "logplay_play" \notin MkfsPcs \cup {"map_log"}
    BY <1>3 DEF invalidate_log, Goto, PcState, MkfsPcs, StorePcs
  <2>2. Advances(p)
    BY <1>1, <2>1, StepAdvances
  <2> QED
    BY <1>2, <2>2, BasicStep
<1>4. CASE ~invalidate_log(p)
  <2>1. Advances(p)
    BY <1>1, <1>4, MountMoves, MovesOn, StaysPut DEF Moves
  <2> QED
    BY <1>2, <2>1, BasicStep
<1> QED
  BY <1>3, <1>4

LEMMA CommandBasic ==
  ASSUME Basic, NEW p \in Proc, UNCHANGED load,
         \/ Begin(p)
         \/ famfs_mkfs_rawdev(p) \/ famfs_fsck(p) \/ famfs_dax_shadow_logplay(p)
         \/ famfs_mkfs_via_dummy_mount(p) \/ famfs_map_log_by_path(p)
         \/ famfs_fsck_mounted(p)
  PROVE  Basic'
<1>1. DeviceOK /\ Turns /\ H(p) \in Host
  BY Commands DEF Basic, Turns
<1>2. Looks(p)
  <2>1. Begin(p) \/ famfs_fsck_mounted(p) => Looks(p)
    BY DEF Begin, famfs_fsck_mounted, Looks
  <2>2. famfs_mkfs_rawdev(p) \/ famfs_fsck(p) \/ famfs_dax_shadow_logplay(p) => Looks(p)
    BY DEF famfs_mkfs_rawdev, famfs_fsck, famfs_dax_shadow_logplay,
           famfs_mmap_superblock_and_log_raw, Looks
  <2>3. famfs_mkfs_via_dummy_mount(p) \/ famfs_map_log_by_path(p) => Looks(p)
    BY DEF famfs_mkfs_via_dummy_mount, famfs_map_log_by_path,
           famfs_map_superblock_by_path, Looks
  <2> QED
    BY <2>1, <2>2, <2>3
<1>3. \/ \E step \in {"raw", "mount", "done", "out_umount"} : pc' = [pc EXCEPT ![p] = step]
      \/ /\ Op(p) = "mkfs"
         /\ \E step \in {"kill", "mkfs", "map_log"} : pc' = [pc EXCEPT ![p] = step]
  <2>1. CASE Begin(p)
    BY <2>1, Zenon DEF Begin, Goto
  <2>2. CASE famfs_mkfs_rawdev(p)
    BY <2>2 DEF famfs_mkfs_rawdev, Avoid, Enter, Return, Set, Goto
  <2>3. CASE famfs_fsck(p) \/ famfs_dax_shadow_logplay(p)
    BY <2>3 DEF famfs_fsck, famfs_dax_shadow_logplay, Return, Set
  <2>4. CASE famfs_mkfs_via_dummy_mount(p)
    BY <2>4 DEF famfs_mkfs_via_dummy_mount, Avoid, Enter, Unmount, Set, Goto
  <2>5. CASE famfs_map_log_by_path(p)
    BY <1>1, <2>5 DEF famfs_map_log_by_path, Avoid, Enter, Unmount, Set, Goto, Turns, At
  <2>6. CASE famfs_fsck_mounted(p)
    BY <2>6 DEF famfs_fsck_mounted, Unmount, Set
  <2> QED
    BY <2>1, <2>2, <2>3, <2>4, <2>5, <2>6
<1>4. /\ {"raw", "mount", "done", "out_umount", "kill", "mkfs", "map_log"} \subseteq PcState
      /\ {"raw", "mount", "done", "out_umount"} \cap (MkfsPcs \cup {"map_log"}) = {}
  BY DEF PcState, CommandPcs, MkfsPcs, StorePcs
<1>5. Advances(p)
  BY <1>1, <1>3, <1>4, StepAdvances
<1> QED
  BY <1>1, <1>2, <1>5, TameLooks, BasicStep

(* Stores and flushes. *)
LEMMA StoreBasic ==
  ASSUME Basic, NEW p \in Proc, UNCHANGED load,
         NEW from \in MkfsPcs, At(p, from), NEW step \in MkfsPcs, Goto(p, step),
         NEW l \in Lines, NEW v \in Content(l), Store(H(p), l, v)
  PROVE  Basic'
<1>1. Advances(p)
  BY MkfsAdvances, Zenon DEF Basic, At, Goto
<1> QED
  BY <1>1, BasicStep DEF Writes

LEMMA TameBasic ==
  ASSUME Basic, NEW p \in Proc, UNCHANGED load,
         NEW from \in MkfsPcs, At(p, from), NEW L \in SUBSET Lines,
         Flush(H(p), L) \/ Invalidate(H(p), L),
         \/ \E r : Finish(p, r)
         \/ \E step \in MkfsPcs : Goto(p, step)
  PROVE  Basic'
<1>1. DeviceOK /\ Turns /\ H(p) \in Host
  BY Commands DEF Basic, Turns
<1>2. Tame(H(p))
  BY <1>1, TameSteps
<1>3. CASE \E r : Finish(p, r)
  BY <1>1, <1>2, <1>3, FinishAdvances, BasicStep
<1>4. CASE \E step \in MkfsPcs : Goto(p, step)
  <2>1. Advances(p)
    BY <1>1, <1>4, MkfsAdvances, Zenon DEF At, Goto
  <2> QED
    BY <1>2, <2>1, BasicStep
<1> QED
  BY <1>3, <1>4

LEMMA MkfsBasic ==
  ASSUME Basic, NEW p \in Proc, UNCHANGED load,
         \/ famfs_kill_superblock(p) \/ mkfs_check(p) \/ mkfs_uuid(p)
         \/ mkfs_superblock(p) \/ mkfs_log(p) \/ mkfs_flush(p)
  PROVE  Basic'
<1>1. /\ DeviceOK /\ load \in Loads /\ H(p) \in Host /\ Uuid(p) \in Nat \ {0}
      /\ "sb0" \in Lines /\ "sb1" \in Lines /\ "log" \in Lines
      /\ {"sb0"} \in SUBSET Lines /\ {"log"} \in SUBSET Lines /\ SbLines \in SUBSET Lines
  BY Commands DEF Basic, Turns, Lines, SbLines
<1>2. /\ "kill" \in MkfsPcs /\ "kill_flush" \in MkfsPcs /\ "mkfs" \in MkfsPcs
      /\ "mkfs_uuid" \in MkfsPcs /\ "mkfs_sb0" \in MkfsPcs /\ "mkfs_crc" \in MkfsPcs
      /\ "mkfs_memset" \in MkfsPcs /\ "mkfs_log" \in MkfsPcs
      /\ "mkfs_flush_log" \in MkfsPcs /\ "mkfs_flush_superblock" \in MkfsPcs
  BY DEF MkfsPcs, StorePcs
<1>3. View(H(p), "sb0") \in Sb0Line /\ View(H(p), "sb1") \in Sb1Line
  BY <1>1, ViewContent DEF Content
<1>4. CASE famfs_kill_superblock(p)
  <2>1. [View(H(p), "sb0") EXCEPT !.magic = FALSE] \in Content("sb0")
    BY <1>3 DEF Sb0Line, Content
  <2> QED
    BY <1>1, <1>2, <1>4, <2>1, StoreBasic, TameBasic DEF famfs_kill_superblock
<1>5. CASE mkfs_check(p)
  BY <1>1, <1>2, <1>5, TameBasic DEF mkfs_check
<1>6. CASE mkfs_uuid(p)
  <2>1. Sb1(H(p), View(H(p), "sb1").crc) \in Content("sb1")
    BY <1>1, <1>3 DEF Sb1Line, Sb1, Content, Systems
  <2> QED
    BY <1>1, <1>2, <1>6, <2>1, StoreBasic, TameBasic DEF mkfs_uuid
<1>7. CASE mkfs_superblock(p)
  <2>1. Sb0(TRUE, CurrentVersion, Uuid(p)) \in Content("sb0")
    BY <1>1, MkfsContent DEF Sb0Of
  <2>2. Sb1(H(p), famfs_gen_superblock_crc(View(H(p), "sb0"), H(p))) \in Content("sb1")
    BY <1>1, <1>3 DEF Sb0Line, Sb1Line, Sb1, Content, Systems, famfs_gen_superblock_crc
  <2> QED
    BY <1>1, <1>2, <1>7, <2>1, <2>2, StoreBasic, TameBasic
    DEF mkfs_superblock, StoreStep, mkfs_not_writable
<1>8. CASE mkfs_log(p)
  <2>1. ZeroLog \in Content("log") /\ LogLine(TRUE, Uuid(p), 0) \in Content("log")
    BY <1>1, MkfsContent DEF LogOf
  <2> QED
    BY <1>1, <1>2, <1>8, <2>1, StoreBasic DEF mkfs_log, StoreStep
<1>9. CASE mkfs_flush(p)
  BY <1>1, <1>2, <1>9, TameBasic DEF mkfs_flush
<1> QED
  BY <1>4, <1>5, <1>6, <1>7, <1>8, <1>9

LEMMA HostCrashBasic ==
  ASSUME Basic, UNCHANGED load, NEW h \in Host, HostCrash(h)
  PROVE  Basic'
<1>1. Proc' = Proc /\ DeviceOK /\ Turns
  BY DEF Proc, Basic
<1>2. /\ mem' = mem
      /\ cache' = [cache EXCEPT ![h] = [l \in DOMAIN mem |-> Miss]]
      /\ dirty' = [dirty EXCEPT ![h] = {}]
  BY DEF HostCrash, PowerLoss
<1>3. pc' = [p \in Proc |-> IF H(p) = h /\ Running(p) THEN "done" ELSE pc[p]]
  BY DEF HostCrash
<1>4. DeviceOK'
  BY <1>1, <1>2 DEF DeviceOK
<1>5. Turns'
  <2>1. "done" \in PcState /\ "done" \notin MkfsPcs \cup {"map_log"}
    BY DEF PcState, MkfsPcs, StorePcs
  <2> QED
    BY <1>1, <1>3, <2>1 DEF Turns, Op
<1> QED
  BY <1>4, <1>5 DEF Basic

LEMMA BasicNext == Basic /\ [Next]_vars => Basic'
<1> SUFFICES ASSUME Basic, [Next]_vars PROVE Basic'
  OBVIOUS
<1>1. ASSUME UNCHANGED <<fccVars, load, pc>> PROVE Basic'
  BY <1>1 DEF Basic, DeviceOK, Turns, fccVars, Proc, Op
<1>2. ASSUME Next PROVE Basic'
  <2>1. UNCHANGED load
    BY <1>2 DEF Next
  <2>2. ASSUME NEW p \in Proc, Process(p) PROVE Basic'
    BY <2>1, <2>2, MountBasic, CommandBasic, MkfsBasic DEF Process, MkfsStep
  <2>3. ASSUME NEW p \in Proc, Umount(p) \/ DaemonDies(p) PROVE Basic'
    BY <1>1, <2>1, <2>3 DEF Umount, DaemonDies
  <2>4. CASE CacheStep
    <3>1. PICK p \in Proc, l \in Lines : Refetch(H(p), l) \/ WriteBack(H(p), l)
      BY <2>4 DEF CacheStep
    <3>2. DeviceOK /\ Turns /\ H(p) \in Host /\ {l} \in SUBSET Lines /\ UNCHANGED pc
      BY <2>4, Commands DEF Basic, Turns, CacheStep
    <3>3. Tame(H(p))
      BY <3>1, <3>2, TameSteps DEF WriteBack
    <3> QED
      BY <2>1, <3>2, <3>3, StaysPut, BasicStep
  <2>5. ASSUME NEW p \in Proc, KillProcess(p) PROVE Basic'
    <3>1. DeviceOK /\ Turns /\ H(p) \in Host /\ pc' = [pc EXCEPT ![p] = "done"]
      BY <2>5, Commands DEF Basic, Turns, KillProcess, Return, Set
    <3>2. Tame(H(p))
      BY <2>5, <3>1, TameSteps DEF KillProcess
    <3> QED
      BY <2>1, <3>1, <3>2, EndAdvances, BasicStep
  <2>6. ASSUME NEW h \in Host, HostCrash(h) PROVE Basic'
    BY <2>1, <2>6, HostCrashBasic
  <2> QED
    BY <1>2, <2>2, <2>3, <2>4, <2>5, <2>6 DEF Next, Crash
<1> QED
  BY <1>1, <1>2 DEF vars

(* Whether mkfs raced is not forgotten. *)
LEMMA RacedStays == [Next]_vars /\ raced => raced'
<1> SUFFICES ASSUME Next, raced PROVE raced'
  BY DEF vars, ghosts
<1>1. ASSUME NEW p \in Proc, MkfsStep(p) PROVE raced'
  <2>1. CASE famfs_mkfs_rawdev(p) \/ famfs_mkfs_via_dummy_mount(p) \/ famfs_map_log_by_path(p)
    BY <2>1 DEF famfs_mkfs_rawdev, famfs_mkfs_via_dummy_mount, famfs_map_log_by_path, Avoid,
                Enter
  <2>2. CASE Begin(p) \/ famfs_fsck(p) \/ famfs_dax_shadow_logplay(p) \/ famfs_fsck_mounted(p)
    BY <2>2 DEF Begin, famfs_fsck, famfs_dax_shadow_logplay, famfs_fsck_mounted, ghosts
  <2>3. CASE famfs_kill_superblock(p) \/ mkfs_check(p) \/ mkfs_uuid(p) \/ mkfs_flush(p)
    BY <2>3 DEF famfs_kill_superblock, mkfs_check, mkfs_uuid, mkfs_flush, Succeeds, ghosts
  <2>4. CASE mkfs_superblock(p) \/ mkfs_log(p)
    BY <2>4 DEF mkfs_superblock, mkfs_log, StoreStep, mkfs_not_writable, ghosts
  <2> QED
    BY <1>1, <2>1, <2>2, <2>3, <2>4 DEF MkfsStep
<1> QED
  BY <1>1 DEF Next, Process, Umount, CacheStep, Crash, KillProcess, HostCrash, ghosts

-----------------------------------------------------------------------------
(* The strengthening that the theorems below follow from: what the lines   *)
(* of the device may hold in any case and, unless mkfs raced, what every   *)
(* step of mkfs and kill has put where (famfs_lib.c: __famfs_mkfs,         *)
(* famfs_kill_superblock) and who may still write lines back.              *)
THEOREM DeviceInvariant == Spec => []MkfsInvariant
<1>1. Init => MkfsInvariant
  BY DeviceInit DEF MkfsInvariant, Basic, DeviceInv
<1>2. MkfsInvariant /\ [Next]_vars => MkfsInvariant'
  BY BasicNext, DeviceNext, RacedStays DEF MkfsInvariant
<1> QED
  BY <1>1, <1>2, PTL DEF Spec

(* For every load, two mkfs at once and crashes included: unless a mkfs    *)
(* began while another was at work, or while another host still had stores *)
(* of a killed one to write back, once mkfs has returned 0 its superblock  *)
(* and its log are in memory, once kill has returned 0 no superblock is,   *)
(* and no cache brings back what was there before.                         *)
THEOREM MkfsEndures == Spec => []MkfsIsDurable
<1>1. MkfsInvariant => MkfsIsDurable
  BY DEF MkfsInvariant, DeviceInv, Durable, MkfsIsDurable, famfs_check_super
<1> QED
  BY <1>1, DeviceInvariant, PTL

(* For every load: unless mkfs raced in that sense, between the check of   *)
(* __famfs_mkfs and its first store no valid superblock, and none of       *)
(* another version, comes into memory: mkfs without force spares what it   *)
(* found.                                                                  *)
THEOREM MkfsWithoutForce == Spec => MkfsSpares
<1>1. ASSUME MkfsInvariant, ~raced, NEW p \in Proc, At(p, "mkfs_uuid"), ~Forced(p)
      PROVE  famfs_check_super(mem) = -1
  BY <1>1 DEF MkfsInvariant, DeviceInv, Stored, At
<1>2. MkfsInvariant /\ [Next]_vars =>
        [\A p \in Proc :
           At(p, "mkfs_uuid") /\ pc'[p] = "mkfs_sb0" /\ ~Forced(p) /\ ~raced =>
             famfs_check_super(mem) = -1]_vars
  BY <1>1, Zenon
<1> QED
  BY <1>2, DeviceInvariant, PTL DEF Spec, MkfsSpares

(* No command plays the log in the way of a mount. *)
LEMMA PlaysNoCommand ==
  ASSUME NEW p \in Proc, MkfsStep(p)
  PROVE  pc[p] # "logplay_play"
<1>1. /\ Begin(p) \/ famfs_mkfs_rawdev(p) \/ famfs_fsck(p) => pc[p] # "logplay_play"
      /\ famfs_dax_shadow_logplay(p) \/ famfs_fsck_mounted(p) => pc[p] # "logplay_play"
      /\ famfs_mkfs_via_dummy_mount(p) \/ famfs_map_log_by_path(p) => pc[p] # "logplay_play"
  BY DEF Begin, famfs_mkfs_rawdev, famfs_fsck, famfs_dax_shadow_logplay, famfs_fsck_mounted,
         famfs_mkfs_via_dummy_mount, famfs_map_log_by_path, At
<1>2. /\ famfs_kill_superblock(p) \/ mkfs_check(p) \/ mkfs_uuid(p) => pc[p] # "logplay_play"
      /\ mkfs_superblock(p) \/ mkfs_log(p) \/ mkfs_flush(p) => pc[p] # "logplay_play"
  BY DEF famfs_kill_superblock, mkfs_check, mkfs_uuid, mkfs_superblock, mkfs_log, mkfs_flush,
         StoreStep, mkfs_not_writable, At
<1> QED
  BY <1>1, <1>2 DEF MkfsStep

(* A log that is played is the one in memory, unless lines of it are yet   *)
(* to be written back.                                                     *)
LEMMA PlaysMemory ==
  ASSUME DeviceInv, ~torn, fs # 0, UNCHANGED load, NEW p \in Proc, Process(p),
         NEW q \in Proc, played'[q] # played[q], q \in looked', DOMAIN played = Proc
  PROVE  played'[q] = mem["log"]
<1>1. H(p) \in Host /\ DeviceOK /\ Current(p) /\ \A h \in Host : dirty[h] = {}
  BY Commands DEF DeviceInv, Turns, Durable
<1>2. \A L : WrittenBack(H(p), L)["log"] = mem["log"]
  BY <1>1 DEF WrittenBack, DeviceOK, Lines
<1>3. \A v : played' = [played EXCEPT ![p] = v] => played'[q] = v
  BY Zenon
<1>4. CASE famfs_logplay(p)
  <2>1. UNCHANGED played \/ play_log(p)
    BY <1>4 DEF famfs_logplay, open_meta_files, invalidate_log, mountVars
  <2>2. /\ pc[p] = "logplay_play" /\ View(H(p), "log").magic
        /\ played' = [played EXCEPT ![p] = View(H(p), "log")]
    BY <2>1 DEF play_log, PlayLog, At
  <2>3. q = p /\ p \in looked
    <3>1. q = p
      BY <2>2
    <3>2. looked' = looked
      BY <2>2, PlaysNoCommand DEF Process, At
    <3> QED
      BY <3>1, <3>2
  <2>4. View(H(p), "log") = mem["log"]
    BY <1>1, <2>2, <2>3 DEF Current
  <2> QED
    BY <1>3, <2>2, <2>4
<1>5. CASE famfs_dax_shadow_logplay(p)
  BY <1>2, <1>3, <1>5 DEF famfs_dax_shadow_logplay
<1>6. CASE famfs_fsck_mounted(p)
  <2>1. \E L : Invalidate(H(p), L) /\ played' = [played EXCEPT ![p] = mem'["log"]]
    BY <1>6 DEF famfs_fsck_mounted
  <2> QED
    BY <1>2, <1>3, <2>1 DEF Invalidate
<1>7. CASE ~famfs_logplay(p) /\ MountStep(p)
  <2>1. famfs_mount_fuse(p) \/ famfs_start_fuse_daemon(p) => UNCHANGED played
    BY DEF famfs_mount_fuse, famfs_start_fuse_daemon
  <2>2. famfs_dummy_mount_v1(p) \/ do_famfs_cli_mount(p) => UNCHANGED played
    BY Zenon DEF famfs_dummy_mount_v1, do_famfs_cli_mount
  <2>3. famfs_mkmeta_superblock(p) \/ famfs_mkmeta_log(p) => UNCHANGED played
    BY DEF famfs_mkmeta_superblock, famfs_mkmeta_log, mkmeta
  <2>4. wait_superblock(p) \/ famfs_fuse_daemon_alive(p) \/ wait_extra(p) => UNCHANGED played
    BY DEF wait_superblock, famfs_fuse_daemon_alive, wait_extra, check_file_exists, mountVars
  <2>5. famfs_get_role_and_logstats(p) \/ wait_log(p) => UNCHANGED played
    BY DEF famfs_get_role_and_logstats, wait_log, check_file_exists, mountVars
  <2>6. mount_out(p) \/ out_umount(p) => UNCHANGED played
    BY DEF mount_out, out_umount
  <2> QED
    BY <1>7, <2>1, <2>2, <2>3, <2>4, <2>5, <2>6 DEF MountStep
<1>8. CASE ~famfs_dax_shadow_logplay(p) /\ ~famfs_fsck_mounted(p) /\ MkfsStep(p)
  BY <1>8, Zenon DEF MkfsStep, mountVars, Begin, famfs_mkfs_rawdev, famfs_fsck,
     famfs_mkfs_via_dummy_mount, famfs_map_log_by_path, famfs_kill_superblock, mkfs_check,
     mkfs_uuid, mkfs_superblock, mkfs_not_writable, mkfs_log, StoreStep, mkfs_flush, Succeeds
<1> QED
  BY <1>4, <1>5, <1>6, <1>7, <1>8 DEF Process

(* For every load: unless mkfs raced, a mount or logplay that looked at    *)
(* the log since the last mkfs plays the log of that mkfs, whatever its    *)
(* host has cached (famfs_logplay, famfs_dax_shadow_logplay).              *)
THEOREM PlaysTheLastMkfs == Spec => PlayedIsCurrent
<1>1. ASSUME IInv, MkfsInvariant, Next, NEW q \in Proc, played'[q] # played[q],
             q \in looked', ~torn, ~raced, fs # 0
      PROVE  played'[q].uuid = fs
  <2>1. UNCHANGED load /\ DeviceInv /\ DOMAIN played = Proc
    BY <1>1 DEF Next, IInv, MkfsInvariant
  <2>2. mem["log"].uuid = fs
    BY <1>1, <2>1 DEF DeviceInv, Durable
  <2>3. PICK p \in Proc : Process(p)
    BY <1>1 DEF Next, Umount, CacheStep, mountVars, Crash, KillProcess, DaemonDies, HostCrash
  <2>4. played'[q] = mem["log"]
    BY <1>1, <2>1, <2>3, PlaysMemory
  <2> QED
    BY <2>2, <2>4
<1>2. IInv /\ MkfsInvariant /\ [Next]_vars =>
        [\A p \in Proc :
           played'[p] # played[p] /\ p \in looked' /\ ~torn /\ ~raced /\ fs # 0 =>
             played'[p].uuid = fs]_vars
  BY <1>1, Zenon
<1> QED
  BY <1>2, DeviceInvariant, Inductive, PTL DEF Spec, PlayedIsCurrent

(* For every load the variables keep their types (TypeOK of Mkfs), whether *)
(* or not mkfs raced.                                                      *)
THEOREM MkfsTypeCorrect == Spec => []TypeOK
<1>1. IInv /\ Types /\ MkfsInvariant => TypeOK
  <2> SUFFICES ASSUME IInv, Types, MkfsInvariant PROVE TypeOK
    OBVIOUS
  <2>1. mem["log"].uuid = 0 <=> ~mem["log"].magic
    BY Zenon DEF MkfsInvariant, Basic, DeviceOK, Content, LogHeader, Lines
  <2>2. ASSUME NEW p \in Proc
        PROVE  /\ rc[p] \in {-9, -1, 0, 1, 99}
               /\ mnt[p] \in KernelMounts \cup {"none", "forked", "dead", "gone"}
               /\ ~Fuse(p) => mnt[p] \in {"none", "serving", "gone"}
               /\ shadow[p] \subseteq {"superblock", "log"}
               /\ Dummy(p) /\ Raw(p) => mnt[p] = "none"
    BY DEF IInv, Phase, MntState, KernelMounts, Types, Codes, MetaFiles
  <2>3. \A h \in Host : \A l \in dirty[h] : cache[h][l] # Miss
    BY DEF MkfsInvariant, Basic, DeviceOK
  <2>4. crashes \in 0 .. MaxCrash
    BY DEF Types
  <2> QED
    BY <2>1, <2>2, <2>3, <2>4 DEF TypeOK
<1> QED
  BY <1>1, Inductive, TypesInvariant, DeviceInvariant, PTL
=============================================================================
