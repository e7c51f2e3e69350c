---------------------------- MODULE MasterProofs ----------------------------
(***************************************************************************)
(* No unit is allocated twice and the log stays in step with the master's  *)
(* name space, for any device, paths, sizes, interleave parameters of no   *)
(* more strips than ie_strips has entries, and bounds.  What is said of    *)
(* units ends with a failed allocation that had more buckets than that.    *)
(***************************************************************************)
EXTENDS Master, AllocProofs

(* The units of everything that is logged. *)
LogUnits == MetaUnits \cup UNION {Units(log[i].fmap) : i \in DOMAIN log}

(* What is logged shares no unit, *)
LogDisjoint ==
  /\ \A i \in DOMAIN log : /\ Apart(log[i].fmap)
                           /\ Units(log[i].fmap) \cap MetaUnits = {}
  /\ \A i, k \in DOMAIN log :
       i # k => Units(log[i].fmap) \cap Units(log[k].fmap) = {}

(* nor does what is about to be logged, and the session's bitmap covers    *)
(* both.  Only a session that has built its bitmap creates a file.         *)
Covers ==
  /\ lp.built => LogUnits \subseteq lp.bitmap
  /\ op.pc # "none" =>
       /\ Apart(op.entry.fmap)
       /\ Units(op.entry.fmap) \cap LogUnits = {}
       /\ lp.built => Units(op.entry.fmap) \subseteq lp.bitmap
       /\ ~lp.built => op.entry.fmap = <<>>

LogApart == ~overrun => LogDisjoint
Covered == ~overrun => Covers

Session == ~lp.held => op = NoOp

(* As long as nothing failed, the log and the master's name space differ   *)
(* in what is being created only, or in what a full log did not take.      *)
Logged(x) == \E i \in DOMAIN log : log[i].path = x
ParentLogged(x) ==
  Parent[x] = Root \/ \E i \in DOMAIN log : log[i].path = Parent[x] /\ log[i].dir

InStep ==
  ncrash = 0 /\ nfail = 0 =>
    /\ \A f \in local : \/ \E i \in DOMAIN log : log[i] = f
                        \/ famfs_log_full
                        \/ op.pc = "log" /\ f = op.entry
    /\ op.pc # "none" => /\ ~Logged(op.entry.path)
                         /\ famfs_log_full \/ ParentLogged(op.entry.path)
    /\ op.pc = "log" => op.entry \in local

MasterInv ==
  /\ TypeOK
  /\ Session
  /\ LogApart
  /\ Covered
  /\ ParentLoggedFirst
  /\ LogAgreesWithLocal
  /\ InStep

-----------------------------------------------------------------------------
(***************************************************************************)
(* Playing the log.                                                        *)
(***************************************************************************)
LEMMA PlayType ==
  \A fs \in SUBSET Entry, e \in Entry : play_entry(fs, e) \in SUBSET Entry
BY DEF play_entry

(* r[k]: the name space after k entries of the log. *)
PlayTurns(r, n) ==
  /\ r \in [0 .. n -> SUBSET Entry]
  /\ r[0] = {}
  /\ \A k \in 1 .. n : r[k] = play_entry(r[k - 1], log[k])
  /\ Played = r[n]

LEMMA PlayLoop ==
  ASSUME NEW n \in Nat, log \in [1 .. n -> Entry], n = Len(log)
  PROVE  \E r : PlayTurns(r, n)
<1> DEFINE F == [k \in 1 .. n |-> [v \in SUBSET Entry |-> play_entry(v, log[k])]]
           Turns(g) == g = [k \in 0 .. n |->
                              IF k = 0 THEN {} ELSE play_entry(g[k - 1], log[k])]
           it == CHOOSE g : Turns(g)
<1>1. \A k \in 1 .. n, v \in SUBSET Entry : play_entry(v, log[k]) \in SUBSET Entry
  BY PlayType
<1>2. F \in [1 .. n -> [SUBSET Entry -> SUBSET Entry]]
  BY <1>1
<1>3. \E g : Turns(g)
  <2>1. PICK g : LoopOf(g, n, SUBSET Entry, {}, F)
    <3> HIDE DEF F
    <3> QED
      BY <1>2, LoopExists, Zenon
  <2>2. /\ g \in [0 .. n -> SUBSET Entry] /\ g[0] = {}
        /\ \A k \in 1 .. n : g[k] = F[k][g[k - 1]]
    BY <2>1, Zenon DEF LoopOf
  <2>3. ASSUME NEW k \in 1 .. n PROVE g[k] = play_entry(g[k - 1], log[k])
    <3>1. g[k - 1] \in SUBSET Entry
      BY <2>2
    <3> QED
      BY <2>2, <3>1, Zenon
  <2>4. Turns(g)
    <3>1. \A k \in 0 .. n : k = 0 \/ k \in 1 .. n
      OBVIOUS
    <3> HIDE DEF F
    <3> QED
      BY <2>2, <2>3, <3>1
  <2> QED
    BY <2>4
<1>4. Turns(it)
  BY <1>3, Zenon
<1>5. Played = it[n]
  BY DEF Played
<1> HIDE DEF it
<1>6. it = [k \in 0 .. n |-> it[k]] /\ it[0] = {}
  BY <1>4
<1>7. \A k \in 1 .. n : it[k] = play_entry(it[k - 1], log[k])
  <2> SUFFICES ASSUME NEW k \in 1 .. n
               PROVE  it[k] = play_entry(it[k - 1], log[k])
    OBVIOUS
  <2>1. k \in 0 .. n /\ k # 0
    OBVIOUS
  <2>2. it[k] = IF k = 0 THEN {} ELSE play_entry(it[k - 1], log[k])
    BY <1>4, <2>1, Zenon
  <2> QED
    BY <2>1, <2>2, Zenon
<1>8. \A k \in 0 .. n : it[k] \in SUBSET Entry
  <2>1. \A k \in 1 .. n : it[k - 1] \in SUBSET Entry => it[k] \in SUBSET Entry
    BY <1>1, <1>7
  <2>2. it[0] \in SUBSET Entry
    BY <1>6
  <2> QED
    BY <2>1, <2>2, LoopStays, Zenon
<1>9. it \in [0 .. n -> SUBSET Entry]
  BY <1>6, <1>8
<1>10. PlayTurns(it, n)
  BY <1>5, <1>6, <1>7, <1>9, Zenon DEF PlayTurns
<1> QED
  BY <1>10

ParentsFirst ==
  \A i \in DOMAIN log :
    \/ Parent[log[i].path] = Root
    \/ \E k \in 1 .. i - 1 : log[k].path = Parent[log[i].path] /\ log[k].dir
NamesOnce == \A i, k \in DOMAIN log : log[i].path = log[k].path => i = k

(* A log in which directories come first and names are used once is played *)
(* entry by entry, none skipped.                                           *)
LEMMA Play ==
  ASSUME log \in Seq(Entry)
  PROVE  /\ Played \in SUBSET Entry
         /\ ParentsFirst /\ NamesOnce =>
              \A f : f \in Played <=>
                       \E i \in DOMAIN log : f = log[i]
<1> DEFINE n == Len(log)
<1>1. /\ n \in Nat /\ log \in [1 .. n -> Entry] /\ DOMAIN log = 1 .. n
      /\ n = Len(log)
  BY LenProperties
<1> HIDE DEF n
<1>2. PICK r : PlayTurns(r, n)
  BY <1>1, PlayLoop, Zenon
<1>3. /\ r \in [0 .. n -> SUBSET Entry]
      /\ r[0] = {}
      /\ \A k \in 1 .. n : r[k] = play_entry(r[k - 1], log[k])
      /\ Played = r[n]
  BY <1>2 DEF PlayTurns
<1>4. n \in 0 .. n
  BY <1>1
<1>5. r[n] \in SUBSET Entry
  BY <1>3, <1>4
<1>6. ASSUME ParentsFirst, NamesOnce
      PROVE  \A f : f \in r[n] <=> \E i \in 1 .. n : f = log[i]
  <2> DEFINE Holds(k) == \A f : f \in r[k] <=> \E j \in 1 .. k : f = log[j]
             S == {k \in Nat : k <= n => Holds(k)}
  <2>1. 0 \in S
    BY <1>3
  <2>2. ASSUME NEW k \in Nat, k \in S PROVE k + 1 \in S
    <3> SUFFICES ASSUME k + 1 <= n PROVE Holds(k + 1)
      <4> HIDE DEF Holds
      <4> QED
        OBVIOUS
    <3>1. k <= n /\ k + 1 \in 1 .. n /\ (k + 1) - 1 = k
      BY <1>1
    <3>2. Holds(k)
      BY <2>2, <3>1
    <3>3. r[k + 1] = play_entry(r[k], log[k + 1])
      BY <1>3, <3>1
    <3>4. \A j \in 1 .. k : j \in 1 .. n /\ j # k + 1
      BY <1>1, <3>1
    <3>5. ~\E f \in r[k] : f.path = log[k + 1].path
      <4> SUFFICES ASSUME NEW j \in 1 .. k, log[j].path = log[k + 1].path
                   PROVE  FALSE
        BY <3>2, Zenon
      <4> QED
        BY <1>1, <1>6, <3>1, <3>4, Zenon DEF NamesOnce
    <3>6. \/ Parent[log[k + 1].path] = Root
          \/ \E f \in r[k] : f.path = Parent[log[k + 1].path] /\ f.dir
      <4>1. \/ Parent[log[k + 1].path] = Root
            \/ \E j \in 1 .. k : log[j].path = Parent[log[k + 1].path] /\ log[j].dir
        BY <1>1, <1>6, <3>1 DEF ParentsFirst
      <4> QED
        BY <3>2, <4>1, Zenon
    <3>7. r[k + 1] = r[k] \cup {log[k + 1]}
      BY <3>3, <3>5, <3>6, Zenon DEF play_entry
    <3>8. \A j : j \in 1 .. k + 1 <=> j \in 1 .. k \/ j = k + 1
      OBVIOUS
    <3> QED
      BY <3>2, <3>7, <3>8, Zenon
  <2>3. n \in S
    <3> HIDE DEF S
    <3> QED
      BY <1>1, <2>1, <2>2, NatInd
  <2>4. Holds(n)
    <3> HIDE DEF Holds
    <3> QED
      BY <1>1, <2>3
  <2> QED
    BY <2>4
<1> QED
  BY <1>1, <1>3, <1>5, <1>6, Zenon

-----------------------------------------------------------------------------
(***************************************************************************)
(* The steps of the master.                                                *)
(***************************************************************************)
Op == [pc : {"create", "log"}, cp : BOOLEAN, entry : Entry]
Clean == ncrash = 0 /\ nfail = 0

LEMMA EntryFmap == \A e \in Entry : e.fmap \in Seq(Extent)
BY DEF Entry, Extent

LEMMA InLogUnits ==
  ASSUME NEW u
  PROVE  u \in LogUnits <=>
           u \in MetaUnits \/ \E i \in DOMAIN log : u \in Units(log[i].fmap)
BY Zenon DEF LogUnits

LEMMA LogBitmap ==
  ASSUME log \in Seq(Entry)
  PROVE  /\ famfs_build_bitmap(log).bitmap = LogUnits
         /\ LogDisjoint => famfs_build_bitmap(log).errors = 0
<1> DEFINE n == Len(log)
<1>1. n \in Nat /\ DOMAIN log = 1 .. n /\ log \in [1 .. n -> Entry]
  BY LenProperties
<1>2. \A i \in 1 .. n : log[i].fmap \in Seq(Extent)
  BY <1>1, EntryFmap
<1>3. LogOf(log, n)
  BY <1>1, <1>2 DEF LogOf
<1>4. UnitsOf(log) = LogUnits /\ (LogDisjoint => ApartIn(log))
  BY Zenon DEF UnitsOf, LogUnits, ApartIn, LogDisjoint
<1> QED
  BY <1>3, <1>4, BuildBitmap

LEMMA ModeKinds == Modes \cup {Contiguous} \subseteq Interleaved \cup {Contiguous}
BY MasterAssumption DEF Interleaved

LEMMA OpKinds ==
  ASSUME TypeOK
  PROVE  /\ op.pc = "none" => op = NoOp
         /\ op.pc # "none" => op \in Op /\ op.entry \in Entry
         /\ NoOp.pc = "none"
<1>1. NoOp.pc = "none"
  BY DEF NoOp
<1>2. op = NoOp \/ op \in Op
  BY DEF TypeOK, Op
<1>3. op \in Op => op.pc # "none" /\ op.entry \in Entry
  BY DEF Op
<1> QED
  BY <1>1, <1>2, <1>3

LEMMA LogUnitsType ==
  ASSUME log \in Seq(Entry)
  PROVE  LogUnits \in SUBSET Nat
<1>1. \A e \in Extent : Bits(e) \subseteq Nat
  BY DEF Extent, Bits
<1>2. \A fmap \in Seq(Extent) : Units(fmap) \subseteq Nat
  <2> SUFFICES ASSUME NEW fmap \in Seq(Extent), NEW u \in Units(fmap)
               PROVE  u \in Nat
    BY Zenon
  <2>1. PICK k \in DOMAIN fmap : u \in Bits(fmap[k])
    BY InUnits, Zenon
  <2>2. fmap[k] \in Extent
    OBVIOUS
  <2> QED
    BY <1>1, <2>1, <2>2
<1>3. MetaUnits \subseteq Nat
  BY DeviceAssumption DEF MetaUnits
<1>4. \A i \in DOMAIN log : Units(log[i].fmap) \subseteq Nat
  <2> SUFFICES ASSUME NEW i \in DOMAIN log PROVE Units(log[i].fmap) \subseteq Nat
    OBVIOUS
  <2>1. log[i] \in Entry
    OBVIOUS
  <2> QED
    BY <1>2, <2>1, EntryFmap, Zenon
<1> QED
  BY <1>3, <1>4, InLogUnits, Zenon

(* A step that leaves the log alone keeps what is said of the log. *)
LEMMA LogKept ==
  ASSUME MasterInv, log' = log, Clean' => Clean, overrun => overrun',
         Clean' => \A i \in DOMAIN log : log[i] \in local'
  PROVE  LogApart' /\ LogUnits' = LogUnits /\ ParentLoggedFirst'
           /\ LogAgreesWithLocal'
<1>1. LogApart'
  <2> SUFFICES ASSUME ~overrun' PROVE LogDisjoint'
    BY DEF LogApart
  <2>1. LogDisjoint
    BY DEF MasterInv, LogApart
  <2> QED
    BY <2>1 DEF LogDisjoint
<1>2. LogUnits' = LogUnits
  BY DEF LogUnits
<1>3. ParentLoggedFirst'
  BY Zenon DEF MasterInv, ParentLoggedFirst, Clean
<1>4. LogAgreesWithLocal'
  BY Zenon DEF MasterInv, LogAgreesWithLocal, Clean
<1> QED
  BY <1>1, <1>2, <1>3, <1>4

LEMMA InStepKept ==
  ASSUME InStep, log' = log, local' = local, op' = op, Clean' => Clean
  PROVE  InStep'
BY Zenon DEF InStep, Clean, Logged, ParentLogged, famfs_log_full

(* Nothing is being created: what exists is logged, or the log is full. *)
LEMMA Idle ==
  ASSUME MasterInv, op = NoOp, Clean
  PROVE  /\ \A f \in local : (\E i \in DOMAIN log : log[i] = f) \/ famfs_log_full
         /\ \A x : ~Exists(x) => ~Logged(x)
         /\ \A x : IsDir(Parent[x]) => famfs_log_full \/ ParentLogged(x)
<1>1. op.pc # "log"
  BY DEF NoOp
<1>2. \A f \in local : (\E i \in DOMAIN log : log[i] = f) \/ famfs_log_full
  BY <1>1, Zenon DEF MasterInv, InStep, Clean
<1>3. \A i \in DOMAIN log : log[i] \in local
  BY Zenon DEF MasterInv, LogAgreesWithLocal, Clean
<1>4. \A x : ~Exists(x) => ~Logged(x)
  BY <1>3, Zenon DEF Exists, Logged
<1>5. \A x : IsDir(Parent[x]) => famfs_log_full \/ ParentLogged(x)
  BY <1>2, Zenon DEF IsDir, ParentLogged
<1> QED
  BY <1>2, <1>4, <1>5

(* With nothing under way and no bitmap there is nothing to cover. *)
LEMMA NothingToCover ==
  ASSUME op' = NoOp, lp'.built = FALSE
  PROVE  Covered' /\ Session'
BY SMTT(30) DEF Covered, Covers, Session, NoOp

LEMMA SessionSteps ==
  ASSUME MasterInv,
         \/ \E mode \in Modes : famfs_init_locked_log(mode)
         \/ famfs_release_locked_log
         \/ Crash
  PROVE  MasterInv'
<1> USE DEF Unlocked
<1>1. /\ lp' \in [held : BOOLEAN, mode : Modes \cup {Contiguous},
                  built : BOOLEAN, bitmap : SUBSET Nat, pos : Nat]
      /\ lp'.built = FALSE
  <2>1. CASE \E mode \in Modes : famfs_init_locked_log(mode)
    <3>1. PICK mode \in Modes : famfs_init_locked_log(mode)
      BY <2>1
    <3>2. lp' = [held |-> TRUE, mode |-> mode, built |-> FALSE, bitmap |-> {},
                 pos |-> 0]
      BY <3>1, Zenon DEF famfs_init_locked_log
    <3> QED
      BY <3>2
  <2>2. CASE famfs_release_locked_log
    BY <2>2 DEF famfs_release_locked_log
  <2>3. CASE Crash
    BY <2>3 DEF Crash
  <2> QED
    BY <2>1, <2>2, <2>3, Zenon
<1>2. TypeOK
  BY DEF MasterInv
<1>3. /\ op' = NoOp
      /\ op = NoOp \/ ~Clean'
      /\ log' = log /\ local' = local /\ nfail' = nfail /\ overrun' = overrun
      /\ copied' \subseteq Paths
      /\ ncrash' \in 0 .. MaxCrash
      /\ Clean' => Clean
  <2>1. CASE \E mode \in Modes : famfs_init_locked_log(mode)
    <3>1. /\ ~lp.held /\ log' = log /\ local' = local /\ op' = op
          /\ copied' = copied /\ ncrash' = ncrash /\ nfail' = nfail
          /\ overrun' = overrun
      BY <2>1, Zenon DEF famfs_init_locked_log
    <3>2. op = NoOp
      BY <3>1 DEF MasterInv, Session
    <3>3. copied \subseteq Paths /\ ncrash \in 0 .. MaxCrash
      BY <1>2 DEF TypeOK
    <3> QED
      BY <3>1, <3>2, <3>3 DEF Clean
  <2>2. CASE famfs_release_locked_log
    BY <1>2, <2>2, OpKinds DEF famfs_release_locked_log, Clean, TypeOK
  <2>3. CASE Crash
    <3>1. /\ ncrash' = ncrash + 1 /\ ncrash < MaxCrash /\ ncrash \in 0 .. MaxCrash
          /\ op' = NoOp /\ log' = log /\ local' = local /\ nfail' = nfail
          /\ copied' = {} /\ overrun' = overrun
      BY <1>2, <2>3 DEF Crash, TypeOK
    <3>2. ncrash' \in 0 .. MaxCrash /\ ncrash' # 0
      BY <3>1, MasterAssumption
    <3> QED
      BY <3>1, <3>2 DEF Clean
  <2> QED
    BY <2>1, <2>2, <2>3
<1>4. TypeOK'
  BY <1>1, <1>2, <1>3 DEF TypeOK
<1>5. Covered' /\ Session'
  BY <1>1, <1>3, NothingToCover, Zenon
<1>6. LogApart' /\ ParentLoggedFirst' /\ LogAgreesWithLocal'
  <2>1. Clean' => \A i \in DOMAIN log : log[i] \in local'
    BY <1>3, Zenon DEF MasterInv, LogAgreesWithLocal, Clean
  <2> QED
    BY <1>3, <2>1, LogKept
<1>7. InStep'
  <2>1. CASE op = NoOp
    BY <1>3, <2>1, InStepKept DEF MasterInv
  <2>2. CASE ~Clean'
    BY <2>2 DEF InStep, Clean
  <2> QED
    BY <1>3, <2>1, <2>2
<1> QED
  BY <1>4, <1>5, <1>6, <1>7 DEF MasterInv

LEMMA OpenStep ==
  ASSUME MasterInv, NEW x \in Paths, NEW size \in Sizes,
         mkfile_open_existing(x, size)
  PROVE  MasterInv'
<1>1. /\ log' = log /\ local' = local /\ lp' = lp /\ op' = op
      /\ ncrash' = ncrash /\ nfail' = nfail /\ copied' = copied \cup {x}
      /\ overrun' = overrun
  BY DEF mkfile_open_existing
<1>2. TypeOK'
  BY <1>1 DEF MasterInv, TypeOK
<1>3. Clean' => Clean
  BY <1>1 DEF Clean
<1>4. Clean' => \A i \in DOMAIN log : log[i] \in local'
  BY <1>1, <1>3, Zenon DEF MasterInv, LogAgreesWithLocal, Clean
<1>5. /\ LogApart' /\ LogUnits' = LogUnits
      /\ ParentLoggedFirst' /\ LogAgreesWithLocal'
  BY <1>1, <1>3, <1>4, LogKept
<1>6. Covered' /\ Session'
  BY <1>1, <1>5, SMTT(30) DEF MasterInv, Covered, Covers, Session
<1>7. InStep'
  BY <1>1, <1>3, InStepKept DEF MasterInv
<1> QED
  BY <1>2, <1>5, <1>6, <1>7 DEF MasterInv

(* The bitmap an allocation starts from covers the log. *)
StartBitmap == IF lp.built THEN lp.bitmap ELSE famfs_build_bitmap(log).bitmap

LEMMA StartCovers ==
  ASSUME MasterInv
  PROVE  /\ StartBitmap \in SUBSET Nat
         /\ ~overrun => LogUnits \subseteq StartBitmap
<1>1. log \in Seq(Entry) /\ lp.bitmap \in SUBSET Nat
  BY DEF MasterInv, TypeOK
<1>2. famfs_build_bitmap(log).bitmap = LogUnits /\ LogUnits \in SUBSET Nat
  BY <1>1, LogBitmap, LogUnitsType
<1> QED
  BY <1>1, <1>2, Zenon DEF MasterInv, Covered, Covers, StartBitmap

(* What mkfile_alloc does, by the outcome of the allocation. *)
FileEntry(x, size, a) ==
  [path |-> x, dir |-> FALSE, size |-> size, fmap |-> a.fmap]

Outcome(a, x, size, cp) ==
  /\ Allocates(a, StartBitmap)
  /\ op = NoOp /\ lp.held
  /\ ~Exists(x) /\ IsDir(Parent[x])
  /\ log' = log /\ local' = local /\ ncrash' = ncrash /\ nfail' = nfail
  /\ \/ /\ a.rc = 0
        /\ op' = [pc |-> "create", cp |-> cp, entry |-> FileEntry(x, size, a)]
     \/ a.rc # 0 /\ op' = NoOp
  /\ \/ a.rc = Aborted /\ lp' = Unlocked /\ copied' = {}
     \/ /\ a.rc # Aborted
        /\ lp' = [lp EXCEPT !.built = TRUE, !.bitmap = a.bitmap, !.pos = a.pos]
        /\ copied' = copied
  /\ overrun' = (overrun \/ a.overrun)

LEMMA AllocOutcome ==
  ASSUME MasterInv, NEW x \in Paths, NEW size \in Sizes, NEW cp \in BOOLEAN,
         NEW order \in bucket_series(lp.mode), mkfile_alloc(x, size, cp, order)
  PROVE  \E a : Outcome(a, x, size, cp)
<1>1. /\ lp.held /\ op.pc = "none" /\ ~Exists(x) /\ IsDir(Parent[x])
      /\ log' = log /\ local' = local /\ ncrash' = ncrash /\ nfail' = nfail
  BY DEF mkfile_alloc, Ready
<1>2. /\ lp.mode \in Modes \cup {Contiguous} /\ lp.pos \in Nat /\ size \in Nat
      /\ TypeOK
  BY MasterAssumption DEF MasterInv, TypeOK
<1>3. PICK a \in famfs_file_alloc(StartBitmap, lp.mode, size, lp.pos, order) :
        /\ IF a.rc = Aborted
           THEN lp' = Unlocked
           ELSE lp' = [lp EXCEPT !.built = TRUE, !.bitmap = a.bitmap, !.pos = a.pos]
        /\ IF a.rc = 0
           THEN op' = [pc |-> "create", cp |-> cp, entry |-> FileEntry(x, size, a)]
           ELSE op' = NoOp
        /\ copied' = IF a.rc = Aborted THEN {} ELSE copied
        /\ overrun' = (overrun \/ a.overrun)
  BY Zenon DEF mkfile_alloc, StartBitmap, FileEntry
<1>4. op = NoOp /\ Allocates(a, StartBitmap)
  BY <1>1, <1>2, OpKinds, StartCovers, ModeKinds, FileAlloc, SMTT(30)
<1>5. \/ /\ a.rc = 0
         /\ op' = [pc |-> "create", cp |-> cp, entry |-> FileEntry(x, size, a)]
      \/ a.rc # 0 /\ op' = NoOp
  BY <1>3, Zenon
<1>6. \/ a.rc = Aborted /\ lp' = Unlocked /\ copied' = {}
      \/ /\ a.rc # Aborted
         /\ lp' = [lp EXCEPT !.built = TRUE, !.bitmap = a.bitmap, !.pos = a.pos]
         /\ copied' = copied
  BY <1>3, Zenon
<1>7. Outcome(a, x, size, cp)
  BY <1>1, <1>3, <1>4, <1>5, <1>6, Zenon DEF Outcome
<1> QED
  BY <1>7

LEMMA AllocStep ==
  ASSUME MasterInv, NEW x \in Paths, NEW size \in Sizes, NEW cp \in BOOLEAN,
         NEW order \in bucket_series(lp.mode), mkfile_alloc(x, size, cp, order)
  PROVE  MasterInv'
<1>0. PICK a : Outcome(a, x, size, cp)
  BY AllocOutcome
<1> DEFINE e == FileEntry(x, size, a)
<1>1. /\ Allocates(a, StartBitmap)
      /\ op = NoOp /\ lp.held
      /\ ~Exists(x) /\ IsDir(Parent[x])
      /\ log' = log /\ local' = local /\ ncrash' = ncrash /\ nfail' = nfail
      /\ \/ a.rc = 0 /\ op' = [pc |-> "create", cp |-> cp, entry |-> e]
         \/ a.rc # 0 /\ op' = NoOp
      /\ \/ a.rc = Aborted /\ lp' = Unlocked /\ copied' = {}
         \/ /\ a.rc # Aborted
            /\ lp' = [lp EXCEPT !.built = TRUE, !.bitmap = a.bitmap,
                                !.pos = a.pos]
            /\ copied' = copied
      /\ overrun' = (overrun \/ a.overrun)
  BY <1>0, Zenon DEF Outcome
<1>2. /\ a.fmap \in Seq(Extent) /\ a.bitmap \in SUBSET Nat /\ a.pos \in Nat
      /\ a.rc = 0 => /\ Apart(a.fmap) /\ Units(a.fmap) \cap StartBitmap = {}
                     /\ a.bitmap = StartBitmap \cup Units(a.fmap)
      /\ a.rc # 0 /\ a.rc # Aborted /\ ~a.overrun => a.bitmap = StartBitmap
      /\ a.overrun \in BOOLEAN
  BY <1>1, Zenon DEF Allocates
<1>3. Aborted # 0
  BY DEF Aborted
<1>4. /\ e \in Entry /\ e.path = x /\ e.fmap = a.fmap
      /\ TypeOK
  BY <1>2, MasterAssumption, SMTT(30) DEF FileEntry, Entry, Extent, MasterInv
<1> HIDE DEF e
<1>5. /\ lp' \in [held : BOOLEAN, mode : Modes \cup {Contiguous},
                  built : BOOLEAN, bitmap : SUBSET Nat, pos : Nat]
      /\ \/ a.rc = Aborted /\ lp'.built = FALSE
         \/ a.rc # Aborted /\ lp'.built = TRUE /\ lp'.held /\ lp'.bitmap = a.bitmap
  <2>1. CASE a.rc = Aborted
    <3>1. lp' = Unlocked
      BY <1>1, <2>1
    <3> QED
      BY <2>1, <3>1 DEF Unlocked
  <2>2. CASE a.rc # Aborted
    <3>1. lp' = [lp EXCEPT !.built = TRUE, !.bitmap = a.bitmap, !.pos = a.pos]
      BY <1>1, <2>2, SMTT(30)
    <3>2. lp \in [held : BOOLEAN, mode : Modes \cup {Contiguous},
                  built : BOOLEAN, bitmap : SUBSET Nat, pos : Nat]
      BY <1>4 DEF TypeOK
    <3>3. lp' = [held |-> lp.held, mode |-> lp.mode, built |-> TRUE,
                 bitmap |-> a.bitmap, pos |-> a.pos]
      BY <3>1, <3>2, Zenon
    <3> QED
      BY <1>1, <1>2, <2>2, <3>2, <3>3, SMTT(30)
  <2> QED
    BY <2>1, <2>2, Zenon
<1>6. \/ op' = NoOp
      \/ /\ a.rc = 0
         /\ op' \in Op /\ op'.pc = "create" /\ op'.entry = e
  BY <1>1, <1>4 DEF Op
<1>7. TypeOK'
  <2>1. copied' \subseteq Paths
    BY <1>1, <1>4 DEF TypeOK
  <2>2. op' = NoOp \/ op' \in Op
    BY <1>6
  <2>3. overrun' \in BOOLEAN /\ (overrun => overrun')
    BY <1>1, <1>2, <1>4 DEF TypeOK
  <2> QED
    BY <1>1, <1>4, <1>5, <2>1, <2>2, <2>3, SMTT(30) DEF TypeOK, Op
<1>8. Clean' => Clean
  BY <1>1 DEF Clean
<1>9. Clean' => \A i \in DOMAIN log : log[i] \in local'
  BY <1>1, <1>8, Zenon DEF MasterInv, LogAgreesWithLocal, Clean
<1>10. /\ LogApart' /\ LogUnits' = LogUnits
       /\ ParentLoggedFirst' /\ LogAgreesWithLocal'
  <2>1. overrun => overrun'
    BY <1>1, Zenon
  <2>2. log' = log
    BY <1>1
  <2> QED
    BY <1>8, <1>9, <2>1, <2>2, LogKept
<1>11. NoOp.pc = "none" /\ NoOp.pc # "log"
  BY DEF NoOp
<1>12. Session'
  BY <1>1, <1>3, <1>5, SMTT(30) DEF Session
<1>13. Covered'
  <2> SUFFICES ASSUME ~overrun' PROVE Covers'
    BY DEF Covered
  <2>0. ~overrun /\ ~a.overrun
    BY <1>1
  <2>1. LogUnits \subseteq StartBitmap
    BY <2>0, StartCovers
  <2>2. a.rc # Aborted => LogUnits \subseteq lp'.bitmap
    BY <1>2, <1>5, <2>0, <2>1, Zenon
  <2>3. lp'.built => LogUnits' \subseteq lp'.bitmap
    BY <1>5, <1>10, <2>2
  <2>4. CASE op' = NoOp
    BY <1>11, <2>3, <2>4, SMTT(30) DEF Covers
  <2>5. CASE op' # NoOp
    <3>1. a.rc = 0 /\ op'.entry.fmap = a.fmap /\ a.rc # Aborted
      BY <1>3, <1>4, <1>6, <2>5
    <3>2. /\ Units(a.fmap) \cap LogUnits = {} /\ Apart(a.fmap)
          /\ Units(a.fmap) \subseteq a.bitmap
      BY <1>2, <2>1, <3>1, Zenon
    <3>3. lp'.built /\ lp'.bitmap = a.bitmap
      BY <1>5, <3>1
    <3> QED
      BY <1>10, <2>3, <3>1, <3>2, <3>3, SMTT(30) DEF Covers
  <2> QED
    BY <2>4, <2>5
<1>14. InStep'
  <2> SUFFICES ASSUME Clean' PROVE InStep'
    BY DEF InStep, Clean
  <2>1. /\ \A f \in local : (\E i \in DOMAIN log : log[i] = f) \/ famfs_log_full
        /\ ~Logged(x)
        /\ famfs_log_full \/ ParentLogged(x)
    BY <1>1, <1>8, Idle, Zenon
  <2>2. /\ famfs_log_full' <=> famfs_log_full
        /\ \A y : Logged(y)' <=> Logged(y)
        /\ \A y : ParentLogged(y)' <=> ParentLogged(y)
    BY <1>1, SMTT(30) DEF famfs_log_full, Logged, ParentLogged
  <2>3. op'.pc # "log" /\ (op'.pc # "none" => op'.entry.path = x)
    <3>1. "create" # "log" /\ "create" # "none"
      OBVIOUS
    <3> QED
      BY <1>4, <1>6, <1>11, <3>1, Zenon
  <2>4. \A f \in local' : (\E i \in DOMAIN log' : log'[i] = f) \/ famfs_log_full'
    BY <1>1, <2>1, <2>2, Zenon
  <2>5. op'.pc # "none" => /\ ~Logged(op.entry.path)'
                           /\ famfs_log_full' \/ ParentLogged(op.entry.path)'
    BY <1>1, <2>1, <2>3, SMTT(30) DEF famfs_log_full, Logged, ParentLogged
  <2> QED
    BY <2>3, <2>4, <2>5, Zenon DEF InStep
<1> QED
  BY <1>7, <1>10, <1>12, <1>13, <1>14 DEF MasterInv

LEMMA StubType ==
  ASSUME NEW e \in Entry
  PROVE  Stub(e) \in Entry
<1> DEFINE s == Stub(e)
           T == Seq([ofs : Nat, len : Nat])
<1>1. <<>> \in T /\ 0 \in Nat
  OBVIOUS
<1> HIDE DEF T
<1>2. e \in [path : Paths, dir : BOOLEAN, size : Nat, fmap : T]
  BY DEF Entry, T
<1>3. s = [[e EXCEPT !.size = 0] EXCEPT !.fmap = <<>>]
  BY DEF Stub
<1>4. s \in [path : Paths, dir : BOOLEAN, size : Nat, fmap : T]
  BY <1>1, <1>2, <1>3, Zenon
<1> QED
  BY <1>4 DEF Entry, T

(* A step of the process that creates, on the master's name space. *)
LEMMA CreateStep ==
  ASSUME MasterInv, mkfile_create
  PROVE  MasterInv'
<1> DEFINE e == op.entry
<1>1. /\ op.pc = "create" /\ log' = log /\ lp' = lp /\ copied' = copied
      /\ ncrash' = ncrash /\ overrun' = overrun
  BY DEF mkfile_create
<1>2. TypeOK /\ "create" # "none" /\ "create" # "log" /\ "log" # "none"
  BY DEF MasterInv
<1>3. op \in Op /\ e \in Entry
  BY <1>1, <1>2, OpKinds
<1>4. Stub(e) \in Entry
  BY <1>3, StubType
<1>5. /\ local' \subseteq local \cup {e, Stub(e)}
      /\ local \subseteq local'
      /\ op' = NoOp \/ (op' \in Op /\ op'.pc = "log" /\ op'.entry = e)
      /\ nfail' \in 0 .. MaxFail
      /\ \/ /\ nfail' = nfail
            /\ local' = local \cup {e}
            /\ op'.pc = "log" /\ op'.entry = e
         \/ nfail' # 0
  <2>0. nfail \in 0 .. MaxFail /\ MaxFail \in Nat
    BY <1>2, MasterAssumption DEF TypeOK
  <2>1. CASE /\ local' = local \cup {e}
             /\ op' = [op EXCEPT !.pc = "log"]
             /\ UNCHANGED nfail
    <3>1. op' \in Op /\ op'.pc = "log" /\ op'.entry = e
      BY <1>3, <2>1 DEF Op
    <3> QED
      BY <2>0, <2>1, <3>1, Zenon
  <2>2. CASE /\ nfail < MaxFail
             /\ nfail' = nfail + 1
             /\ local' \in {local, local \cup {Stub(e)}}
             /\ op' = NoOp
    <3>1. nfail' \in 0 .. MaxFail /\ nfail' # 0
      BY <2>0, <2>2
    <3> QED
      BY <2>2, <3>1, Zenon
  <2>3. CASE /\ nfail < MaxFail
             /\ nfail' = nfail + 1
             /\ \E d \in {e, Stub(e)} : local' = local \cup {d}
             /\ op' = [op EXCEPT !.pc = "log", !.cp = FALSE]
    <3>1. nfail' \in 0 .. MaxFail /\ nfail' # 0
      BY <2>0, <2>3
    <3>2. op' \in Op /\ op'.pc = "log" /\ op'.entry = e
      BY <1>3, <2>3, Zenon DEF Op
    <3> QED
      BY <2>3, <3>1, <3>2, Zenon
  <2> QED
    BY <2>1, <2>2, <2>3, Zenon DEF mkfile_create
<1>6. TypeOK'
  <2>1. local' \subseteq Entry
    BY <1>2, <1>3, <1>4, <1>5 DEF TypeOK
  <2>2. op' = NoOp \/ op' \in Op
    BY <1>5
  <2> QED
    BY <1>1, <1>2, <1>5, <2>1, <2>2 DEF TypeOK, Op
<1> HIDE DEF e
<1>7. Clean' => /\ Clean /\ local' = local \cup {e}
                /\ op'.pc = "log" /\ op'.entry = e
  BY <1>1, <1>5 DEF Clean
<1>8. Clean' => \A i \in DOMAIN log : log[i] \in local'
  BY <1>5, <1>7, Zenon DEF MasterInv, LogAgreesWithLocal, Clean
<1>9. /\ LogApart' /\ LogUnits' = LogUnits
      /\ ParentLoggedFirst' /\ LogAgreesWithLocal'
  BY <1>1, <1>7, <1>8, LogKept
<1>10. lp.held
  <2>1. op # NoOp
    BY <1>1, <1>2, OpKinds
  <2> QED
    BY <2>1 DEF MasterInv, Session
<1>11. Session'
  BY <1>1, <1>10 DEF Session
<1>12. NoOp.pc = "none"
  BY DEF NoOp
<1>13. Covered'
  <2> SUFFICES ASSUME ~overrun PROVE Covers'
    BY <1>1 DEF Covered
  <2>1. /\ lp.built => LogUnits \subseteq lp.bitmap
        /\ Apart(e.fmap)
        /\ Units(e.fmap) \cap LogUnits = {}
        /\ lp.built => Units(e.fmap) \subseteq lp.bitmap
        /\ ~lp.built => e.fmap = <<>>
    BY <1>1, <1>2, SMTT(30) DEF MasterInv, Covered, Covers, e
  <2> QED
    BY <1>1, <1>5, <1>9, <1>12, <2>1, SMTT(30) DEF Covers
<1>14. InStep'
  <2> SUFFICES ASSUME Clean' PROVE InStep'
    BY DEF InStep, Clean
  <2>1. /\ \A f \in local : (\E i \in DOMAIN log : log[i] = f) \/ famfs_log_full
        /\ ~Logged(e.path)
        /\ famfs_log_full \/ ParentLogged(e.path)
    BY <1>1, <1>2, <1>7, Zenon DEF MasterInv, InStep, Clean, e
  <2>2. famfs_log_full' <=> famfs_log_full
    BY <1>1 DEF famfs_log_full
  <2>3. \A f \in local' : \/ \E i \in DOMAIN log' : log'[i] = f
                          \/ famfs_log_full'
                          \/ op'.pc = "log" /\ f = op'.entry
    BY <1>1, <1>7, <2>1, <2>2, Zenon
  <2>4. /\ ~Logged(op.entry.path)'
        /\ famfs_log_full' \/ ParentLogged(op.entry.path)'
    BY <1>1, <1>7, <2>1 DEF famfs_log_full, Logged, ParentLogged
  <2>5. op'.entry \in local'
    BY <1>7, Zenon
  <2> QED
    BY <2>3, <2>4, <2>5, Zenon DEF InStep
<1> QED
  BY <1>6, <1>9, <1>11, <1>13, <1>14 DEF MasterInv

LEMMA MkdirStep ==
  ASSUME MasterInv, NEW x \in Paths, mkdir_create(x)
  PROVE  MasterInv'
<1> DEFINE e == [path |-> x, dir |-> TRUE, size |-> 0, fmap |-> <<>>]
<1>1. /\ lp.held /\ op.pc = "none" /\ ~Exists(x) /\ IsDir(Parent[x])
      /\ local' = local \cup {e}
      /\ \/ op' = [pc |-> "log", cp |-> FALSE, entry |-> e] /\ nfail' = nfail
         \/ nfail < MaxFail /\ nfail' = nfail + 1 /\ op' = op
      /\ log' = log /\ lp' = lp /\ copied' = copied /\ ncrash' = ncrash
      /\ overrun' = overrun
  BY DEF mkdir_create, Ready
<1>2. TypeOK /\ "log" # "none"
  BY DEF MasterInv
<1>3. op = NoOp /\ NoOp.pc = "none"
  BY <1>1, <1>2, OpKinds
<1>4. e \in Entry /\ e.path = x /\ e.fmap = <<>>
  <2>1. <<>> \in Seq([ofs : Nat, len : Nat]) /\ 0 \in Nat
    OBVIOUS
  <2> QED
    BY <2>1 DEF Entry
<1> HIDE DEF e
<1>5. nfail' \in 0 .. MaxFail /\ (op' = NoOp => nfail' # 0)
  <2>0. nfail \in 0 .. MaxFail /\ MaxFail \in Nat
    BY <1>2, MasterAssumption DEF TypeOK
  <2>1. CASE op' = [pc |-> "log", cp |-> FALSE, entry |-> e] /\ nfail' = nfail
    <3>1. op'.pc = "log"
      BY <2>1
    <3> QED
      BY <1>2, <1>3, <2>0, <2>1, <3>1
  <2>2. CASE nfail < MaxFail /\ nfail' = nfail + 1
    BY <2>0, <2>2
  <2> QED
    BY <1>1, <2>1, <2>2
<1>6. \/ op' = NoOp
      \/ op' \in Op /\ op'.pc = "log" /\ op'.entry = e /\ nfail' = nfail
  <2>1. CASE op' = [pc |-> "log", cp |-> FALSE, entry |-> e] /\ nfail' = nfail
    <3>1. op' \in Op
      BY <1>4, <2>1, Zenon DEF Op
    <3>2. op'.pc = "log" /\ op'.entry = e
      BY <2>1
    <3> QED
      BY <2>1, <3>1, <3>2
  <2> QED
    BY <1>1, <1>3, <2>1
<1>7. TypeOK'
  <2>1. local' \subseteq Entry
    BY <1>1, <1>2, <1>4 DEF TypeOK
  <2>2. op' = NoOp \/ op' \in Op
    BY <1>6
  <2> QED
    BY <1>1, <1>2, <1>5, <2>1, <2>2 DEF TypeOK, Op
<1>8. Clean' => Clean /\ op'.pc = "log" /\ op'.entry = e
  BY <1>1, <1>5, <1>6 DEF Clean
<1>9. Clean' => \A i \in DOMAIN log : log[i] \in local'
  BY <1>1, <1>8, Zenon DEF MasterInv, LogAgreesWithLocal, Clean
<1>10. /\ LogApart' /\ LogUnits' = LogUnits
       /\ ParentLoggedFirst' /\ LogAgreesWithLocal'
  BY <1>1, <1>8, <1>9, LogKept
<1>11. Session'
  BY <1>1 DEF Session
<1>12. Covered'
  <2> SUFFICES ASSUME ~overrun PROVE Covers'
    BY <1>1 DEF Covered
  <2>1. lp.built => LogUnits \subseteq lp.bitmap
    BY SMTT(30) DEF MasterInv, Covered, Covers
  <2>2. op'.pc # "none" => op'.entry.fmap = <<>>
    BY <1>3, <1>4, <1>6
  <2>3. /\ Apart(<<>>) /\ Units(<<>>) \cap LogUnits = {}
        /\ Units(<<>>) \subseteq lp.bitmap
    BY NoUnits, SMTT(30)
  <2> QED
    BY <1>1, <1>10, <2>1, <2>2, <2>3, SMTT(30) DEF Covers
<1>13. InStep'
  <2> SUFFICES ASSUME Clean' PROVE InStep'
    BY DEF InStep, Clean
  <2>1. /\ \A f \in local : (\E i \in DOMAIN log : log[i] = f) \/ famfs_log_full
        /\ ~Logged(x)
        /\ famfs_log_full \/ ParentLogged(x)
    BY <1>1, <1>3, <1>8, Idle, Zenon
  <2>2. famfs_log_full' <=> famfs_log_full
    BY <1>1 DEF famfs_log_full
  <2>3. \A f \in local' : \/ \E i \in DOMAIN log' : log'[i] = f
                          \/ famfs_log_full'
                          \/ op'.pc = "log" /\ f = op'.entry
    BY <1>1, <1>8, <2>1, <2>2, Zenon
  <2>4. /\ ~Logged(op.entry.path)'
        /\ famfs_log_full' \/ ParentLogged(op.entry.path)'
    BY <1>1, <1>4, <1>8, <2>1 DEF famfs_log_full, Logged, ParentLogged
  <2>5. op'.entry \in local'
    BY <1>1, <1>8, Zenon
  <2> QED
    BY <2>3, <2>4, <2>5, Zenon DEF InStep
<1> QED
  BY <1>7, <1>10, <1>11, <1>12, <1>13 DEF MasterInv

LEMMA LogStep ==
  ASSUME MasterInv, log_creation
  PROVE  MasterInv'
<1> DEFINE e == op.entry
           n == Len(log)
<1>1. /\ op.pc = "log" /\ op' = NoOp
      /\ local' = local /\ lp' = lp /\ ncrash' = ncrash /\ nfail' = nfail
      /\ overrun' = overrun
      /\ \/ famfs_log_full /\ log' = log /\ copied' = copied
         \/ /\ ~famfs_log_full
            /\ log' = Append(log, e)
            /\ copied' \in {copied, copied \cup {e.path}}
  BY DEF log_creation
<1>2. TypeOK /\ "log" # "none"
  BY DEF MasterInv
<1>3. e \in Entry /\ op # NoOp
  BY <1>1, <1>2, OpKinds
<1>4. /\ n \in Nat /\ DOMAIN log = 1 .. n /\ log \in Seq(Entry)
  BY <1>2, LenProperties DEF TypeOK
<1>5. NoOp.pc = "none" /\ NoOp.pc # "log"
  BY DEF NoOp
<1>6. Clean' <=> Clean
  BY <1>1 DEF Clean
<1>7. Session'
  BY <1>1 DEF Session
<1>8. ~overrun => /\ lp.built => LogUnits \subseteq lp.bitmap
                  /\ Apart(e.fmap)
                  /\ Units(e.fmap) \cap LogUnits = {}
                  /\ lp.built => Units(e.fmap) \subseteq lp.bitmap
  BY <1>1, <1>2, SMTT(30) DEF MasterInv, Covered, Covers
<1>9. Clean => /\ \A f \in local : \/ \E i \in DOMAIN log : log[i] = f
                                   \/ famfs_log_full
                                   \/ f = e
               /\ ~Logged(e.path)
               /\ famfs_log_full \/ ParentLogged(e.path)
               /\ e \in local
  BY <1>1, <1>2, Zenon DEF MasterInv, InStep, Clean
<1> HIDE DEF e
<1>10. CASE famfs_log_full
  <2>1. log' = log /\ copied' = copied /\ famfs_log_full'
    BY <1>1, <1>10 DEF famfs_log_full
  <2>2. TypeOK'
    BY <1>1, <1>2, <2>1 DEF TypeOK
  <2>3. Clean' => \A i \in DOMAIN log : log[i] \in local'
    BY <1>1, <1>6, Zenon DEF MasterInv, LogAgreesWithLocal, Clean
  <2>4. /\ LogApart' /\ LogUnits' = LogUnits
        /\ ParentLoggedFirst' /\ LogAgreesWithLocal'
    BY <1>1, <1>6, <2>1, <2>3, LogKept
  <2>5. Covered'
    BY <1>1, <1>5, <1>8, <2>4, SMTT(30) DEF Covered, Covers
  <2>6. InStep'
    BY <1>1, <1>5, <2>1, Zenon DEF InStep
  <2> QED
    BY <1>7, <2>2, <2>4, <2>5, <2>6 DEF MasterInv
<1>11. CASE ~famfs_log_full
  <2>1. log' = Append(log, e)
    BY <1>1, <1>11
  <2>2. /\ DOMAIN log' = 1 .. n + 1 /\ Len(log') = n + 1
        /\ log'[n + 1] = e
        /\ \A i \in 1 .. n : log'[i] = log[i]
        /\ log' \in Seq(Entry)
    BY <1>3, <1>4, <2>1
  <2> HIDE DEF n
  <2>3. \A i : i \in 1 .. n + 1 <=> i \in 1 .. n \/ i = n + 1
    BY <1>4
  <2>4. \A i \in 1 .. n : i # n + 1
    BY <1>4
  <2>5. TypeOK'
    <3>1. Len(log') <= LogSlots
      <4>1. ~(n >= LogSlots)
        BY <1>11 DEF famfs_log_full, n
      <4> QED
        BY <1>4, <2>2, <4>1, MasterAssumption
    <3>2. copied' \subseteq Paths
      <4>1. e.path \in Paths /\ copied \subseteq Paths
        BY <1>2, <1>3 DEF TypeOK, Entry
      <4> QED
        BY <1>1, <1>11, <4>1
    <3> QED
      BY <1>1, <1>2, <2>2, <3>1, <3>2 DEF TypeOK
  <2>6. LogUnits' = LogUnits \cup Units(e.fmap)
    <3>1. ASSUME NEW u
          PROVE  u \in LogUnits' <=> u \in LogUnits \/ u \in Units(e.fmap)
      <4>1. u \in LogUnits' <=>
              u \in MetaUnits \/ \E i \in DOMAIN log' : u \in Units(log'[i].fmap)
        BY Zenon DEF LogUnits, MetaUnits
      <4> QED
        BY <1>4, <2>2, <2>3, <4>1, InLogUnits, Zenon
    <3> QED
      BY <3>1
  <2>7. Covered'
    <3>1. ~overrun /\ lp.built => LogUnits' \subseteq lp.bitmap
      BY <1>8, <2>6, Zenon
    <3> QED
      BY <1>1, <1>5, <3>1, SMTT(30) DEF Covered, Covers
  <2>8. LogApart'
    <3> SUFFICES ASSUME ~overrun PROVE LogDisjoint'
      BY <1>1 DEF LogApart
    <3>1. /\ \A i \in 1 .. n : /\ Apart(log[i].fmap)
                               /\ Units(log[i].fmap) \cap MetaUnits = {}
          /\ \A i, k \in 1 .. n :
               i # k => Units(log[i].fmap) \cap Units(log[k].fmap) = {}
      BY <1>4, Zenon DEF MasterInv, LogApart, LogDisjoint
    <3>2. /\ Units(e.fmap) \cap MetaUnits = {}
          /\ \A i \in 1 .. n : Units(log[i].fmap) \cap Units(e.fmap) = {}
      BY <1>4, <1>8, InLogUnits, Zenon
    <3>3. ASSUME NEW i \in 1 .. n + 1
          PROVE  /\ Apart(log'[i].fmap)
                 /\ Units(log'[i].fmap) \cap MetaUnits = {}
      <4>1. CASE i \in 1 .. n
        BY <2>2, <3>1, <4>1
      <4>2. CASE i = n + 1
        BY <1>8, <2>2, <3>2, <4>2, SMTT(30)
      <4> QED
        BY <2>3, <4>1, <4>2
    <3>4. ASSUME NEW i \in 1 .. n + 1, NEW k \in 1 .. n + 1, i # k
          PROVE  Units(log'[i].fmap) \cap Units(log'[k].fmap) = {}
      <4>1. CASE i \in 1 .. n /\ k \in 1 .. n
        BY <2>2, <3>1, <3>4, <4>1
      <4>2. CASE i \in 1 .. n /\ k = n + 1
        BY <2>2, <3>2, <4>2
      <4>3. CASE i = n + 1 /\ k \in 1 .. n
        BY <2>2, <3>2, <4>3, Zenon
      <4> QED
        BY <2>3, <3>4, <4>1, <4>2, <4>3, Zenon
    <3>5. MetaUnits' = MetaUnits
      BY DEF MetaUnits
    <3> QED
      BY <2>2, <3>3, <3>4, <3>5, Zenon DEF LogDisjoint
  <2>9. ParentLoggedFirst'
    <3> SUFFICES ASSUME Clean', NEW i \in 1 .. n + 1
                 PROVE  \/ Parent[log'[i].path] = Root
                        \/ \E k \in 1 .. i - 1 : /\ log'[k].path = Parent[log'[i].path]
                                                 /\ log'[k].dir
      BY <2>2, Zenon DEF ParentLoggedFirst, Clean
    <3>1. CASE i \in 1 .. n
      <4>1. \/ Parent[log[i].path] = Root
            \/ \E k \in 1 .. i - 1 : log[k].path = Parent[log[i].path] /\ log[k].dir
        BY <1>4, <1>6, <3>1, Zenon DEF MasterInv, ParentLoggedFirst, Clean
      <4>2. \A k \in 1 .. i - 1 : k \in 1 .. n
        BY <1>4, <3>1
      <4> QED
        BY <2>2, <3>1, <4>1, <4>2, Zenon
    <3>2. CASE i = n + 1
      <4>1. \/ Parent[e.path] = Root
            \/ \E k \in 1 .. n : log[k].path = Parent[e.path] /\ log[k].dir
        BY <1>4, <1>6, <1>9, <1>11, Zenon DEF ParentLogged
      <4>2. i - 1 = n
        BY <1>4, <3>2
      <4> QED
        BY <2>2, <3>2, <4>1, <4>2, Zenon
    <3> QED
      BY <2>3, <3>1, <3>2
  <2>10. LogAgreesWithLocal'
    <3> SUFFICES ASSUME Clean'
                 PROVE  /\ \A i, k \in 1 .. n + 1 : log'[i].path = log'[k].path => i = k
                        /\ \A i \in 1 .. n + 1 : log'[i] \in local
      BY <1>1, <2>2, Zenon DEF LogAgreesWithLocal, Clean
    <3>1. /\ \A i, k \in 1 .. n : log[i].path = log[k].path => i = k
          /\ \A i \in 1 .. n : log[i] \in local
      BY <1>4, <1>6, Zenon DEF MasterInv, LogAgreesWithLocal, Clean
    <3>2. e \in local /\ \A i \in 1 .. n : log[i].path # e.path
      BY <1>4, <1>6, <1>9, Zenon DEF Logged
    <3>3. ASSUME NEW i \in 1 .. n + 1, NEW k \in 1 .. n + 1,
                 log'[i].path = log'[k].path
          PROVE  i = k
      <4>1. CASE i \in 1 .. n /\ k \in 1 .. n
        BY <2>2, <3>1, <3>3, <4>1
      <4>2. CASE i \in 1 .. n /\ k = n + 1
        BY <2>2, <3>2, <3>3, <4>2
      <4>3. CASE i = n + 1 /\ k \in 1 .. n
        BY <2>2, <3>2, <3>3, <4>3
      <4> QED
        BY <2>3, <3>3, <4>1, <4>2, <4>3, Zenon
    <3>4. \A i \in 1 .. n + 1 : log'[i] \in local
      BY <2>2, <2>3, <3>1, <3>2, Zenon
    <3> QED
      BY <3>3, <3>4, Zenon
  <2>11. InStep'
    <3> SUFFICES ASSUME Clean'
                 PROVE  \A f \in local : \E i \in 1 .. n + 1 : log'[i] = f
      BY <1>1, <1>5, <2>2, Zenon DEF InStep, Clean
    <3>1. \A f \in local : (\E i \in 1 .. n : log[i] = f) \/ f = e
      BY <1>4, <1>6, <1>9, <1>11, Zenon
    <3> QED
      BY <2>2, <2>3, <3>1, Zenon
  <2> QED
    BY <1>7, <2>5, <2>7, <2>8, <2>9, <2>10, <2>11 DEF MasterInv
<1> QED
  BY <1>10, <1>11

LEMMA RemountStep ==
  ASSUME MasterInv, Remount
  PROVE  MasterInv'
<1>1. /\ ~lp.held /\ local' = Played
      /\ log' = log /\ lp' = lp /\ op' = op /\ copied' = copied
      /\ ncrash' = ncrash /\ nfail' = nfail /\ overrun' = overrun
  BY DEF Remount
<1>2. op = NoOp /\ TypeOK
  BY <1>1 DEF MasterInv, Session
<1>3. log \in Seq(Entry)
  BY <1>2 DEF TypeOK
<1>4. /\ local' \in SUBSET Entry
      /\ ParentsFirst /\ NamesOnce =>
           \A f : f \in local' <=> \E i \in DOMAIN log : f = log[i]
  BY <1>1, <1>3, Play
<1>5. Clean' <=> Clean
  BY <1>1 DEF Clean
<1>6. Clean => ParentsFirst /\ NamesOnce
  BY Zenon DEF MasterInv, ParentLoggedFirst, LogAgreesWithLocal, Clean,
               ParentsFirst, NamesOnce
<1>7. Clean' => \A f : f \in local' <=> \E i \in DOMAIN log : f = log[i]
  BY <1>4, <1>5, <1>6
<1>8. TypeOK'
  BY <1>1, <1>2, <1>4 DEF TypeOK
<1>9. Clean' => \A i \in DOMAIN log : log[i] \in local'
  BY <1>7, Zenon
<1>10. /\ LogApart' /\ LogUnits' = LogUnits
       /\ ParentLoggedFirst' /\ LogAgreesWithLocal'
  BY <1>1, <1>5, <1>9, LogKept
<1>11. Covered' /\ Session'
  BY <1>1, <1>10, SMTT(30) DEF MasterInv, Covered, Covers, Session
<1>12. InStep'
  <2> SUFFICES ASSUME Clean' PROVE InStep'
    BY DEF InStep, Clean
  <2>1. \A f \in local' : \E i \in DOMAIN log' : log'[i] = f
    BY <1>1, <1>7, Zenon
  <2>2. op'.pc = "none" /\ op'.pc # "log"
    BY <1>1, <1>2 DEF NoOp
  <2> QED
    BY <2>1, <2>2, Zenon DEF InStep
<1> QED
  BY <1>8, <1>10, <1>11, <1>12 DEF MasterInv

-----------------------------------------------------------------------------
LEMMA MasterInit == Init => MasterInv
<1> SUFFICES ASSUME Init PROVE MasterInv
  OBVIOUS
<1>1. /\ log = <<>> /\ local = {} /\ lp = Unlocked /\ op = NoOp /\ copied = {}
      /\ ncrash = 0 /\ nfail = 0 /\ overrun = FALSE
  BY DEF Init
<1>2. lp \in [held : BOOLEAN, mode : Modes \cup {Contiguous}, built : BOOLEAN,
              bitmap : SUBSET Nat, pos : Nat] /\ lp.built = FALSE
  BY <1>1 DEF Unlocked
<1>3. log \in Seq(Entry) /\ Len(log) = 0 /\ DOMAIN log = {}
  BY <1>1
<1>4. TypeOK
  <2>0. LogSlots \in Nat /\ MaxCrash \in Nat /\ MaxFail \in Nat
    BY MasterAssumption, Zenon
  <2>1. Len(log) <= LogSlots /\ ncrash \in 0 .. MaxCrash /\ nfail \in 0 .. MaxFail
    <3>1. Len(log) = 0 /\ ncrash = 0 /\ nfail = 0
      BY <1>1, <1>3, Zenon
    <3> QED
      BY <2>0, <3>1
  <2>2. overrun \in BOOLEAN /\ local \subseteq Entry /\ copied \subseteq Paths
    BY <1>1, Zenon
  <2> QED
    BY <1>1, <1>2, <1>3, <2>1, <2>2, Zenon DEF TypeOK
<1>5. op.pc = "none" /\ op.pc # "log"
  BY <1>1 DEF NoOp
<1>6. Session /\ LogApart /\ Covered
  BY <1>1, <1>2, <1>3, <1>5, SMTT(30) DEF Session, LogApart, Covered, LogDisjoint, Covers
<1>7. ParentLoggedFirst /\ LogAgreesWithLocal /\ InStep
  BY <1>1, <1>3, <1>5 DEF ParentLoggedFirst, LogAgreesWithLocal, InStep
<1> QED
  BY <1>4, <1>6, <1>7 DEF MasterInv

LEMMA MasterNext == MasterInv /\ [Next]_vars => MasterInv'
<1> SUFFICES ASSUME MasterInv, [Next]_vars PROVE MasterInv'
  OBVIOUS
<1>1. CASE \/ \E mode \in Modes : famfs_init_locked_log(mode)
           \/ famfs_release_locked_log
           \/ Crash
  BY <1>1, SessionSteps
<1>2. CASE \E x \in Paths, size \in Sizes : mkfile_open_existing(x, size)
  BY <1>2, OpenStep
<1>3. CASE \E x \in Paths, size \in Sizes, cp \in BOOLEAN :
             \E order \in bucket_series(lp.mode) : mkfile_alloc(x, size, cp, order)
  BY <1>3, AllocStep
<1>4. CASE mkfile_create
  BY <1>4, CreateStep
<1>5. CASE \E x \in Paths : mkdir_create(x)
  BY <1>5, MkdirStep
<1>6. CASE log_creation
  BY <1>6, LogStep
<1>7. CASE Remount
  BY <1>7, RemountStep
<1>8. CASE UNCHANGED vars
  <2>1. /\ log' = log /\ local' = local /\ lp' = lp /\ op' = op
        /\ copied' = copied /\ ncrash' = ncrash /\ nfail' = nfail
        /\ overrun' = overrun
    BY <1>8 DEF vars
  <2>2. TypeOK' /\ Session'
    BY <2>1 DEF MasterInv, TypeOK, Session
  <2>3. Clean' <=> Clean
    BY <2>1 DEF Clean
  <2>4. Clean' => \A i \in DOMAIN log : log[i] \in local'
    BY <2>1, <2>3, Zenon DEF MasterInv, LogAgreesWithLocal, Clean
  <2>5. /\ LogApart' /\ LogUnits' = LogUnits
        /\ ParentLoggedFirst' /\ LogAgreesWithLocal'
    BY <2>1, <2>3, <2>4, LogKept
  <2>6. Covered'
    BY <2>1, <2>5, SMTT(30) DEF MasterInv, Covered, Covers
  <2>7. InStep'
    BY <2>1, <2>3, InStepKept DEF MasterInv
  <2> QED
    BY <2>2, <2>5, <2>6, <2>7 DEF MasterInv
<1> QED
  BY <1>1, <1>2, <1>3, <1>4, <1>5, <1>6, <1>7, <1>8, Zenon DEF Next

(* The inductive invariant of the master's operations: in every state the  *)
(* extents of the log, of what is about to be logged and of the session's  *)
(* bitmap are as the allocator assumes, and the log and the master's name  *)
(* space are in step (famfs_file_alloc, __famfs_mkfile, __famfs_mkdir).    *)
THEOREM MasterInvariant == Spec => []MasterInv
BY MasterInit, MasterNext, PTL DEF Spec

(* Every variable has its type, for every device, set of paths, sizes and  *)
(* interleave parameters (struct famfs_log_entry, struct                   *)
(* famfs_locked_log).                                                      *)
THEOREM MasterTypeCorrect == Spec => []TypeOK
<1>1. MasterInv => TypeOK
  BY DEF MasterInv
<1> QED
  BY <1>1, MasterInvariant, PTL

(* fsck counts no doubly allocated unit in any log the master writes,      *)
(* whatever sessions, interleaving, failures and crashes led to it, until  *)
(* a failed allocation reads past the end of ie_strips (famfs_build_bitmap *)
(* over what famfs_file_alloc handed out).                                 *)
THEOREM NoUnitTwice == Spec => []FsckClean
<1>1. MasterInv => FsckClean
  BY LogBitmap DEF MasterInv, TypeOK, FsckClean, LogApart
<1> QED
  BY <1>1, MasterInvariant, PTL

(* The bitmap of a session covers the log and what the session is about to *)
(* log, from the first allocation to the release of the lock, until a      *)
(* failed allocation reads past the end of ie_strips (lp->bitmap in        *)
(* famfs_file_alloc).                                                      *)
THEOREM BitmapCovers == Spec => []BitmapCoversLog
<1>1. MasterInv => BitmapCoversLog
  <2> SUFFICES ASSUME MasterInv, ~overrun, lp.built PROVE BitmapCoversLog
    BY DEF BitmapCoversLog
  <2>1. famfs_build_bitmap(log).bitmap = LogUnits /\ LogUnits \subseteq lp.bitmap
    BY LogBitmap DEF MasterInv, TypeOK, Covered, Covers
  <2>2. op.pc # "none" =>
          \A k \in DOMAIN op.entry.fmap : Bits(op.entry.fmap[k]) \subseteq lp.bitmap
    <3>1. op.pc # "none" => Units(op.entry.fmap) \subseteq lp.bitmap
      BY SMTT(30) DEF MasterInv, Covered, Covers
    <3> QED
      BY <3>1, InUnits, Zenon
  <2> QED
    BY <2>1, <2>2 DEF BitmapCoversLog
<1> QED
  BY <1>1, MasterInvariant, PTL

(* A directory is logged before what it contains, unless a process died or *)
(* a step failed between creating and logging (__famfs_mkfile and          *)
(* __famfs_mkdir check the parent on the master and log afterwards).       *)
THEOREM DirectoryFirst == Spec => []ParentLoggedFirst
<1>1. MasterInv => ParentLoggedFirst
  BY DEF MasterInv
<1> QED
  BY <1>1, MasterInvariant, PTL

(* No path is logged twice and what is logged exists on the master, also   *)
(* after it mounts again and plays the log, unless a process died or a     *)
(* step failed between creating and logging (__famfs_mkfile,               *)
(* __famfs_mkdir, __famfs_logplay).                                        *)
THEOREM LogAgrees == Spec => []LogAgreesWithLocal
<1>1. MasterInv => LogAgreesWithLocal
  BY DEF MasterInv
<1> QED
  BY <1>1, MasterInvariant, PTL

(* A failed allocation leaves the bitmap as it found it: the strips it had *)
(* taken are given back, in whatever order the buckets were tried, and the *)
(* entries of ie_strips it did not fill free nothing.  Not so once the     *)
(* loop, bounded by the number of buckets, has run past the end of         *)
(* ie_strips (the error path of famfs_file_strided_alloc).                 *)
THEOREM FailureRestores == Spec => FailedAllocRestores
<1> DEFINE Restores ==
      ~overrun' /\ lp.held /\ lp'.held /\ op = NoOp /\ op' = NoOp /\ lp'.built =>
        lp'.bitmap = IF lp.built THEN lp.bitmap
                     ELSE famfs_build_bitmap(log).bitmap
<1>1. MasterInv /\ [Next]_vars => [Restores]_vars
  <2> SUFFICES ASSUME MasterInv, Next, lp.held, lp'.held, op = NoOp, op' = NoOp,
                      lp'.built, ~overrun'
               PROVE  lp'.bitmap = StartBitmap
    BY Zenon DEF StartBitmap
  <2>0. /\ Unlocked.held = FALSE /\ NoOp.pc = "none"
        /\ "create" # "none" /\ "log" # "none"
    BY DEF Unlocked, NoOp
  <2>1. CASE lp' = lp
    BY <2>1, Zenon DEF StartBitmap
  <2>2. ASSUME NEW x \in Paths, NEW size \in Sizes, NEW cp \in BOOLEAN,
               NEW order \in bucket_series(lp.mode), mkfile_alloc(x, size, cp, order)
        PROVE  lp'.bitmap = StartBitmap
    <3>1. PICK a : Outcome(a, x, size, cp)
      BY <2>2, AllocOutcome
    <3>2. a.rc # 0
      <4> SUFFICES ASSUME a.rc = 0 PROVE FALSE
        OBVIOUS
      <4>1. op' = [pc |-> "create", cp |-> cp, entry |-> FileEntry(x, size, a)]
        BY <3>1, Zenon DEF Outcome
      <4>2. op'.pc = "create"
        BY <4>1
      <4> QED
        BY <2>0, <4>2
    <3>3. a.bitmap = StartBitmap
      BY <2>0, <3>1, <3>2, Zenon DEF Outcome, Allocates
    <3>4. lp' = [lp EXCEPT !.built = TRUE, !.bitmap = a.bitmap, !.pos = a.pos]
      BY <2>0, <3>1, Zenon DEF Outcome
    <3>5. lp \in [held : BOOLEAN, mode : Modes \cup {Contiguous},
                  built : BOOLEAN, bitmap : SUBSET Nat, pos : Nat]
      BY DEF MasterInv, TypeOK
    <3> QED
      BY <3>3, <3>4, <3>5
  <2>3. CASE famfs_release_locked_log \/ Crash
    <3>1. lp' = Unlocked
      BY <2>3 DEF famfs_release_locked_log, Crash
    <3> QED
      BY <2>0, <3>1
  <2>4. ~Remount /\ \A mode \in Modes : ~famfs_init_locked_log(mode)
    BY DEF Remount, famfs_init_locked_log
  <2>5. ASSUME NEW x \in Paths, NEW size \in Sizes, mkfile_open_existing(x, size)
        PROVE  lp' = lp
    BY <2>5 DEF mkfile_open_existing
  <2>6. mkfile_create \/ log_creation => lp' = lp
    BY DEF mkfile_create, log_creation
  <2>7. ASSUME NEW x \in Paths, mkdir_create(x)
        PROVE  lp' = lp
    BY <2>7 DEF mkdir_create
  <2> QED
    BY <2>1, <2>2, <2>3, <2>4, <2>5, <2>6, <2>7, Zenon DEF Next
<1>2. [][Restores]_vars <=> FailedAllocRestores
  BY PTL DEF FailedAllocRestores
<1> HIDE DEF Restores
<1> QED
  BY <1>1, <1>2, MasterInvariant, PTL DEF Spec
=============================================================================
