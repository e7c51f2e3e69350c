------------------------- MODULE MetaLogDurability -------------------------
(***************************************************************************)
(* With crashes of the master, for any number of clients, log slots and    *)
(* cache lines per entry: an append that returned is durable, and a        *)
(* logplay that returned 0 has instantiated all that was appended before   *)
(* it began.                                                               *)
(***************************************************************************)
EXTENDS MetaLogInv, TLAPS

(***************************************************************************)
(* What the cache operations do, in terms of what the master sees.         *)
(***************************************************************************)

(* The header line is no line of an entry, and no host is both the master  *)
(* and a client.                                                           *)
LEMMA Basics ==
  /\ HdrLine \in Lines
  /\ HdrLine \notin EntryLines
  /\ EntryLines \subseteq Lines
  /\ \A s \in Slots, p \in Parts : <<s, p>> \in EntryLines
  /\ 1 \in Parts
  /\ Master \in Hosts
  /\ \A c \in Clients : c \in Hosts /\ c # Master
  /\ Zeroed \in LineContent
  /\ Blank \in [Parts -> LineContent]
BY BoundsAssumption, NamesAssumption
   DEF HdrLine, EntryLines, Lines, Slots, Parts, Hosts, Zeroed, Blank,
       LineContent

(* What a load of the header or of a line of an entry returns on any host. *)
LEMMA ViewType ==
  ASSUME LinesTypeOK, NEW h \in Hosts
  PROVE  /\ View(h, HdrLine) \in Header
         /\ \A l \in EntryLines : View(h, l) \in LineContent
         /\ \A l \in Lines : View(h, l) \in Content
BY Basics, MissAssumption DEF LinesTypeOK, View, Lines, Content

(* The master's header and entries, in terms of all that it sees. *)
LEMMA LogInView ==
  /\ hdr = view[HdrLine] /\ hdr' = view'[HdrLine]
  /\ \A s \in Slots : LogEntry(s) = [p \in Parts |-> view[<<s, p>>]]
  /\ \A s \in Slots : LogEntry(s)' = [p \in Parts |-> view'[<<s, p>>]]
BY Basics DEF hdr, view, LogEntry

(* A client that loads a line changes nothing the master sees. *)
LEMMA ClientLoad ==
  ASSUME LinesTypeOK, OneWriter, NEW c \in Clients, NEW l \in Lines, Load(c, l)
  PROVE  LinesTypeOK' /\ OneWriter' /\ SameView /\ CatchUp
<1>1. LinesTypeOK'
  <2>1. /\ c \in Hosts /\ View(c, l) \in Content
        /\ l = HdrLine => View(c, l) \in Header
        /\ l \in EntryLines => View(c, l) \in LineContent
    BY Basics, ViewType, Zenon
  <2>2. /\ cache' \in [Hosts -> [Lines -> Content \cup {Miss}]]
        /\ mem' = mem /\ dirty' = dirty
    BY <2>1 DEF LinesTypeOK, Load
  <2>3. \A h \in Hosts, k \in Lines :
          cache'[h][k] = cache[h][k] \/ (k = l /\ cache'[h][k] = View(c, l))
    BY <2>1 DEF LinesTypeOK, Load
  <2> QED
    BY <2>1, <2>2, <2>3, Basics DEF LinesTypeOK
<1>2. cache'[Master] = cache[Master] /\ mem' = mem /\ dirty' = dirty
  BY Basics DEF Load, LinesTypeOK
<1>3. SameView
  BY <1>2 DEF SameView, view, View
<1>4. OneWriter'
  BY <1>2, <1>3 DEF OneWriter, SameView
<1>5. CatchUp
  BY <1>2, Basics DEF CatchUp, Load, LinesTypeOK, View
<1> QED
  BY <1>1, <1>3, <1>4, <1>5

(* Nor does a client that invalidates the log or fetches a line again. *)
LEMMA ClientRefresh ==
  ASSUME LinesTypeOK, OneWriter, NEW c \in Clients,
         \/ Invalidate(c, Lines)
         \/ \E l \in Lines : Refetch(c, l)
  PROVE  LinesTypeOK' /\ OneWriter' /\ SameView /\ CatchUp
<1>1. /\ mem' = mem
      /\ dirty' = dirty
      /\ cache' \in [Hosts -> [Lines -> Content \cup {Miss}]]
      /\ \A h \in Hosts, l \in Lines :
           cache'[h][l] = cache[h][l] \/ (h = c /\ cache'[h][l] \in {Miss, mem[l]})
  <2>1. CASE Invalidate(c, Lines)
    <3>1. dirty[c] = {}
      BY DEF OneWriter
    <3>2. mem' = mem
      BY <2>1, <3>1 DEF Invalidate, WrittenBack, LinesTypeOK
    <3>3. dirty' = dirty
      BY <2>1, <3>1, Basics DEF Invalidate, LinesTypeOK
    <3>4. cache' = [cache EXCEPT ![c] = [l \in Lines |-> Miss]]
      BY Zenon, <2>1, Basics DEF Invalidate, LinesTypeOK
    <3> QED
      BY <3>2, <3>3, <3>4, Basics DEF LinesTypeOK
  <2>2. CASE \E l \in Lines : Refetch(c, l)
    BY <2>2, Basics DEF Refetch, LinesTypeOK
  <2> QED
    BY <2>1, <2>2
<1>2. LinesTypeOK'
  BY <1>1, Basics DEF LinesTypeOK
<1>3. SameView
  BY <1>1, Basics DEF SameView, view, View
<1>4. OneWriter'
  BY <1>1, <1>3, Basics DEF OneWriter, SameView
<1>5. CatchUp
  BY <1>1, Basics DEF CatchUp
<1> QED
  BY <1>2, <1>3, <1>4, <1>5

(* The master's flushes and invalidations move what it sees to memory. *)
LEMMA MasterFlush ==
  ASSUME LinesTypeOK, OneWriter, NEW L \in SUBSET Lines,
         Flush(Master, L) \/ Invalidate(Master, L)
  PROVE  LinesTypeOK' /\ OneWriter' /\ SameView /\ CatchUp
<1>1. /\ mem' = [l \in Lines |-> IF l \in L \cap dirty[Master]
                                  THEN cache[Master][l] ELSE mem[l]]
      /\ dirty' = [dirty EXCEPT ![Master] = @ \ L]
  BY DEF Flush, Invalidate, WrittenBack, LinesTypeOK
<1>2. \/ cache' = cache
      \/ cache' = [cache EXCEPT ![Master] =
                     [l \in Lines |-> IF l \in L THEN Miss ELSE @[l]]]
  BY DEF Flush, Invalidate, LinesTypeOK
<1>3. \A l \in Lines : l \in dirty[Master] => cache[Master][l] # Miss
  BY DEF OneWriter
<1>4. \A l \in Lines : mem'[l] = IF l \in L THEN view[l] ELSE mem[l]
  BY <1>1, <1>3 DEF OneWriter, view, View
<1>5. cache' \in [Hosts -> [Lines -> Content \cup {Miss}]]
  BY <1>2, Basics DEF LinesTypeOK
<1>6. \A h \in Hosts, l \in Lines :
        \/ cache'[h][l] = cache[h][l]
        \/ h = Master /\ l \in L /\ cache'[h][l] = Miss
  BY <1>2, Basics DEF LinesTypeOK
<1>7. LinesTypeOK'
  <2>1. mem' \in [Lines -> Content]
    BY <1>1, <1>4, ViewType, Basics DEF LinesTypeOK, view
  <2>2. mem'[HdrLine] \in Header /\ \A l \in EntryLines : mem'[l] \in LineContent
    BY Zenon, <1>4, ViewType, Basics DEF LinesTypeOK, view
  <2>3. /\ \A h \in Hosts : cache'[h][HdrLine] \in Header \cup {Miss}
        /\ \A h \in Hosts, l \in EntryLines :
              cache'[h][l] \in LineContent \cup {Miss}
    BY Zenon, <1>6, Basics DEF LinesTypeOK
  <2>4. dirty' \in [Hosts -> SUBSET Lines]
    BY <1>1, Zenon DEF LinesTypeOK
  <2> QED
    BY <2>1, <2>2, <2>3, <2>4, <1>5 DEF LinesTypeOK
<1>8. SameView
  BY <1>4, <1>6, Basics DEF SameView, view, View, OneWriter
<1>9. OneWriter'
  <2>1. dirty'[Master] = dirty[Master] \ L /\ \A c \in Clients : dirty'[c] = {}
    BY <1>1, Basics DEF OneWriter, LinesTypeOK
  <2>2. ASSUME NEW l \in Lines, l \in dirty'[Master]
        PROVE  cache'[Master][l] # Miss
    BY <2>1, <2>2, <1>3, <1>6, Basics
  <2>3. ASSUME NEW l \in Lines, l \notin dirty'[Master]
        PROVE  view'[l] = mem'[l]
    BY <2>1, <2>3, <1>4, <1>8 DEF OneWriter, SameView
  <2> QED
    BY <2>1, <2>2, <2>3 DEF OneWriter
<1>10. CatchUp
  BY <1>4, <1>6, Basics DEF CatchUp
<1> QED
  BY <1>7, <1>8, <1>9, <1>10

(* A store of the master changes what it sees in one line and nothing that *)
(* anyone else sees.                                                       *)
LEMMA MasterStore ==
  ASSUME LinesTypeOK, OneWriter, NEW l \in Lines, NEW v \in Content,
         l = HdrLine => v \in Header,
         l # HdrLine => v \in LineContent,
         Store(Master, l, v)
  PROVE  /\ LinesTypeOK'
         /\ OneWriter'
         /\ \A k \in Lines : view'[k] = IF k = l THEN v ELSE view[k]
         /\ mem' = mem
         /\ \A c \in Clients : cache'[c] = cache[c]
<1>1. /\ mem' = mem
      /\ \A c \in Clients : cache'[c] = cache[c] /\ dirty'[c] = dirty[c]
      /\ cache' \in [Hosts -> [Lines -> Content \cup {Miss}]]
      /\ \A k \in Lines :
           cache'[Master][k] = IF k = l THEN v ELSE cache[Master][k]
      /\ dirty' \in [Hosts -> SUBSET Lines]
      /\ dirty'[Master] = dirty[Master] \cup {l}
  BY Basics DEF Store, LinesTypeOK
<1>2. LinesTypeOK'
  BY <1>1, Basics DEF LinesTypeOK, Hosts
<1>3. v # Miss
  BY MissAssumption
<1>4. \A k \in Lines : view'[k] = IF k = l THEN v ELSE view[k]
  BY <1>1, <1>3 DEF view, View
<1>5. OneWriter'
  BY <1>1, <1>3, <1>4 DEF OneWriter
<1> QED
  BY <1>1, <1>2, <1>4, <1>5

(* The log right after mkfs, and caches that have nothing of it. *)
LEMMA InitLines ==
  ASSUME Init
  PROVE  /\ TypeOK /\ OneWriter
         /\ mem[HdrLine].idx = 0 /\ \A h \in Hosts : cache[h][HdrLine] = Miss
         /\ hdr = [seq |-> 0, idx |-> 0] /\ \A l \in EntryLines : view[l] = Zeroed
<1>1. [seq |-> 0, idx |-> 0] \in Header
  BY DEF Header
<1>2. LinesTypeOK
  BY <1>1, Basics DEF Init, LinesTypeOK, Content, Lines
<1>3. TypeOK
  BY <1>2, Basics, BoundsAssumption DEF Init, TypeOK, Logplay
<1>4. \A l \in Lines : view[l] = mem[l]
  BY Basics DEF Init, view, View
<1>5. hdr = [seq |-> 0, idx |-> 0] /\ \A l \in EntryLines : view[l] = Zeroed
  BY <1>4, Basics DEF Init, view, hdr
<1>6. OneWriter
  BY <1>4, Basics DEF Init, OneWriter
<1>7. mem[HdrLine] = hdr /\ \A h \in Hosts : cache[h][HdrLine] = Miss
  BY <1>5, Basics DEF Init
<1> QED
  BY <1>3, <1>5, <1>6, <1>7

-----------------------------------------------------------------------------
(***************************************************************************)
(* CrashInv is inductive: steps of the master and of the hardware.         *)
(***************************************************************************)

(* The fields of the headers in memory and in the caches are numbers. *)
LEMMA HdrTypes ==
  ASSUME LinesTypeOK
  PROVE  /\ hdr \in Header /\ hdr.idx \in Nat /\ hdr.seq \in Nat
         /\ mem[HdrLine].idx \in Nat
         /\ \A c \in Clients : View(c, HdrLine).idx \in Nat
         /\ \A c \in Clients :
              cache[c][HdrLine] # Miss => cache[c][HdrLine].idx \in Nat
<1>1. \A h \in Hosts : View(h, HdrLine) \in Header
  BY ViewType
<1>2. mem[HdrLine] \in Header
  BY DEF LinesTypeOK
<1>3. \A c \in Clients : cache[c][HdrLine] # Miss => cache[c][HdrLine] \in Header
  BY Basics DEF LinesTypeOK
<1> QED
  BY <1>1, <1>2, <1>3, Basics DEF hdr, Header

(* The next_index in memory never goes back. *)
LEMMA MemoryGrows ==
  ASSUME CrashInv, CatchUp
  PROVE  \A s \in Slots : s < mem[HdrLine].idx => s < mem'[HdrLine].idx
<1>1. LinesTypeOK /\ mem[HdrLine].idx <= hdr.idx
  BY DEF CrashInv, TypeOK, HeadersInLog
<1>2. mem'[HdrLine] = mem[HdrLine] \/ mem'[HdrLine] = hdr
  BY Basics, LogInView DEF CatchUp
<1>3. hdr.idx \in Nat /\ mem[HdrLine].idx \in Nat
  BY <1>1, HdrTypes
<1> QED
  BY <1>1, <1>2, <1>3, BoundsAssumption DEF Slots

(* An entry whose append has returned stays where it is. *)
LEMMA AckedKept ==
  ASSUME CrashInv, CatchUp, ViewKept, acked' = acked
  PROVE  AckedInMemory'
<1> SUFFICES ASSUME NEW s \in Slots, acked[s] # NoItem
             PROVE  /\ s < mem'[HdrLine].idx
                    /\ \A p \in Parts : /\ mem'[<<s, p>>].item = acked[s]
                                        /\ view'[<<s, p>>] = mem'[<<s, p>>]
  BY DEF AckedInMemory
<1>1. /\ s < mem[HdrLine].idx
      /\ \A p \in Parts :
           mem[<<s, p>>].item = acked[s] /\ view[<<s, p>>] = mem[<<s, p>>]
  BY DEF CrashInv, AckedInMemory
<1>2. s < mem'[HdrLine].idx
  BY <1>1, MemoryGrows
<1>3. \A p \in Parts : mem'[<<s, p>>] = mem[<<s, p>>]
  BY <1>1, Basics DEF CatchUp
<1>4. \A p \in Parts : view'[<<s, p>>] = mem'[<<s, p>>]
  BY <1>1, <1>3 DEF ViewKept
<1> QED
  BY <1>1, <1>2, <1>3, <1>4

(* A logplay keeps what it has found while caches catch up with memory,    *)
(* name spaces grow and appends return; what its own step does to its      *)
(* locals remains to be shown.                                             *)
LEMMA SlotStep ==
  ASSUME CrashInv, CatchUp, NEW c \in Clients, NEW x \in Items,
         NEW s \in Slots, InSlot(c, x, s), acked'[s] = acked[s],
         play'[c].i = s /\ play'[c].pc \in {"copy", "validate"} =>
           \A p \in Parts \ play'[c].todo : play'[c].le[p].item = x,
         play'[c].rc = "none" /\ s < play'[c].i => Has(c, x)'
  PROVE  InSlot(c, x, s)'
<1>1. /\ s < mem[HdrLine].idx
      /\ \A p \in Parts : mem[<<s, p>>].item = x
  BY NamesAssumption DEF InSlot, CrashInv, AckedInMemory
<1>2. /\ HdrLine \in Lines
      /\ \A p \in Parts : <<s, p>> \in Lines
  BY Basics
<1>3. cache'[c][HdrLine] # Miss => s < cache'[c][HdrLine].idx
  BY <1>1, <1>2 DEF CatchUp, InSlot
<1>4. \A p \in Parts :
        cache'[c][<<s, p>>] # Miss => cache'[c][<<s, p>>].item = x
  BY <1>1, <1>2 DEF CatchUp, InSlot
<1> QED
  BY <1>3, <1>4 DEF InSlot

(* While it makes no step, nothing does. *)
LEMMA SlotKept ==
  ASSUME CrashInv, CatchUp, NEW c \in Clients, NEW x \in Items,
         NEW s \in Slots, InSlot(c, x, s),
         acked'[s] = acked[s], play'[c] = play[c],
         fs[c] \subseteq fs'[c], stubs[c] \subseteq stubs'[c]
  PROVE  InSlot(c, x, s)'
<1>1. Has(c, x) => Has(c, x)'
  BY DEF Has
<1>2. play'[c].i = s /\ play'[c].pc \in {"copy", "validate"} =>
        \A p \in Parts \ play'[c].todo : play'[c].le[p].item = x
  BY DEF InSlot
<1>3. play'[c].rc = "none" /\ s < play'[c].i => Has(c, x)'
  BY Zenon, <1>1 DEF InSlot
<1> QED
  BY <1>2, <1>3, SlotStep

(* A step of the master or of the hardware that leaves the clients' locals *)
(* alone and acknowledges nothing.                                         *)
LEMMA MasterStep ==
  ASSUME CrashInv, TypeOK', OneWriter', CatchUp, ViewKept,
         UNCHANGED <<acked, play, fs, stubs>>,
         mem'[HdrLine].idx <= hdr'.idx, hdr'.idx <= LastIndex + 1,
         AppendingItem'
  PROVE  CrashInv'
<1>1. AckedInMemory'
  BY AckedKept
<1>2. HeadersInLog'
  <2>1. \A c \in Clients : cache'[c][HdrLine] # Miss =>
                             cache'[c][HdrLine].idx <= LastIndex + 1
    <3> SUFFICES ASSUME NEW c \in Clients, cache'[c][HdrLine] # Miss
                 PROVE  cache'[c][HdrLine].idx <= LastIndex + 1
      OBVIOUS
    <3>1. cache'[c][HdrLine] = cache[c][HdrLine] \/ cache'[c][HdrLine] = mem[HdrLine]
      BY Basics DEF CatchUp
    <3>2. /\ mem[HdrLine].idx <= hdr.idx /\ hdr.idx <= LastIndex + 1
          /\ cache[c][HdrLine] # Miss => cache[c][HdrLine].idx <= LastIndex + 1
      BY DEF CrashInv, HeadersInLog
    <3>3. mem[HdrLine].idx \in Nat /\ hdr.idx \in Nat
      BY HdrTypes DEF CrashInv, TypeOK
    <3>4. mem[HdrLine].idx <= LastIndex + 1
      BY <3>2, <3>3, BoundsAssumption
    <3> QED
      BY <3>1, <3>2, <3>4
  <2> QED
    BY <2>1 DEF HeadersInLog
<1>3. Playing' /\ SuccessIsComplete'
  BY DEF CrashInv, Playing, PlayingOf, SuccessIsComplete
<1>4. BaseSeen'
  <2> SUFFICES ASSUME NEW c \in Clients, play[c].pc # "idle",
                      NEW x \in play[c].base
               PROVE  \E s \in Slots : InSlot(c, x, s)'
    BY DEF BaseSeen
  <2>1. PICK s \in Slots : InSlot(c, x, s)
    BY DEF CrashInv, BaseSeen
  <2>2. x \in Items
    BY DEF CrashInv, TypeOK, Logplay
  <2>3. InSlot(c, x, s)'
    BY <2>1, <2>2, SlotKept
  <2> QED
    BY <2>3
<1> QED
  BY <1>1, <1>2, <1>3, <1>4 DEF CrashInv

(* A step that stores nothing moves nothing in the header either. *)
LEMMA SameHeader ==
  ASSUME CrashInv, SameView, CatchUp
  PROVE  /\ hdr' = hdr
         /\ mem'[HdrLine].idx <= hdr'.idx
         /\ hdr'.idx <= LastIndex + 1
         /\ ViewKept
<1>1. hdr' = hdr
  BY LogInView DEF SameView
<1>2. mem'[HdrLine] = mem[HdrLine] \/ mem'[HdrLine] = hdr
  BY Basics, LogInView DEF CatchUp
<1>3. hdr.idx \in Nat /\ mem[HdrLine].idx <= hdr.idx /\ hdr.idx <= LastIndex + 1
  BY HdrTypes DEF CrashInv, TypeOK, HeadersInLog
<1>4. ViewKept
  BY DEF ViewKept, SameView
<1> QED
  BY <1>1, <1>2, <1>3, <1>4

(* Taking and releasing the lock. *)
LEMMA CrashSession ==
  ASSUME CrashInv, famfs_init_locked_log \/ famfs_release_locked_log
  PROVE  CrashInv'
<1>1. LinesTypeOK' /\ OneWriter' /\ SameView /\ CatchUp
  <2>1. LinesTypeOK /\ OneWriter
    BY DEF CrashInv, TypeOK
  <2>2. CASE famfs_init_locked_log
    <3>1. Invalidate(Master, Lines)
      BY <2>2 DEF famfs_init_locked_log
    <3> QED
      BY <2>1, <3>1, MasterFlush
  <2>3. CASE famfs_release_locked_log
    BY <2>1, <2>3 DEF famfs_release_locked_log, fccVars, LinesTypeOK,
                      OneWriter, SameView, CatchUp, view, View
  <2> QED
    BY <2>2, <2>3
<1>2. /\ UNCHANGED <<entry, todo, acked, play, fs, stubs, nerrs, ncrash>>
      /\ pc' \in {"idle", "locked"}
  BY DEF famfs_init_locked_log, famfs_release_locked_log, clientVars
<1>3. TypeOK'
  BY <1>1, <1>2 DEF CrashInv, TypeOK
<1>4. AppendingItem'
  BY <1>2 DEF AppendingItem
<1> QED
  BY <1>1, <1>2, <1>3, <1>4, SameHeader, MasterStep

(* Read-ahead, eviction and early write-back. *)
LEMMA CrashHardware ==
  ASSUME CrashInv,
         EarlyWriteBack \/ \E c \in Clients, l \in Lines : ReadAhead(c, l)
  PROVE  CrashInv'
<1>0. LinesTypeOK /\ OneWriter
  BY DEF CrashInv, TypeOK
<1>1. LinesTypeOK' /\ OneWriter' /\ SameView /\ CatchUp
  <2>1. CASE EarlyWriteBack
    <3>1. PICK l \in Lines : Flush(Master, {l})
      BY <2>1, Zenon DEF EarlyWriteBack, WriteBack
    <3> QED
      BY <1>0, <3>1, MasterFlush
  <2>2. ASSUME NEW c \in Clients, NEW l \in Lines, ReadAhead(c, l)
        PROVE  LinesTypeOK' /\ OneWriter' /\ SameView /\ CatchUp
    <3>1. Refetch(c, l)
      BY <2>2 DEF ReadAhead
    <3> QED
      BY <1>0, <3>1, ClientRefresh
  <2> QED
    BY <2>1, <2>2
<1>2. UNCHANGED <<pc, entry, todo, acked, play, fs, stubs, nerrs, ncrash>>
  BY DEF EarlyWriteBack, ReadAhead, masterVars, clientVars
<1>3. TypeOK'
  BY <1>1, <1>2 DEF CrashInv, TypeOK
<1>4. hdr' = hdr /\ view' = view
  BY <1>1, SameHeader DEF SameView
<1>5. AppendingItem'
  BY <1>2, <1>4 DEF CrashInv, AppendingItem
<1> QED
  BY <1>1, <1>2, <1>3, <1>5, SameHeader, MasterStep

(* famfs_append_log is entered with room for the entry. *)
LEMMA CrashCreation ==
  ASSUME CrashInv, NEW x \in Items, famfs_log_creation(x)
  PROVE  CrashInv'
<1>0. LinesTypeOK /\ OneWriter /\ hdr \in Header
  BY HdrTypes DEF CrashInv, TypeOK
<1>1. /\ ~famfs_log_full
      /\ entry' = [seq |-> hdr.seq, item |-> x]
      /\ todo' = Parts
      /\ pc' = "copy"
      /\ UNCHANGED <<mem, cache, dirty, acked, play, fs, stubs, nerrs, ncrash>>
  BY DEF famfs_log_creation, fccVars, clientVars
<1>2. LinesTypeOK' /\ OneWriter' /\ SameView /\ CatchUp
  BY <1>0, <1>1 DEF LinesTypeOK, OneWriter, SameView, CatchUp, view, View
<1>3. entry' \in LineContent
  BY <1>0, <1>1 DEF LineContent, Header
<1>4. TypeOK'
  BY <1>1, <1>2, <1>3 DEF CrashInv, TypeOK
<1>5. hdr' = hdr /\ hdr.idx \in Nat
  BY <1>0, <1>2, SameHeader DEF Header
<1>6. AppendingItem'
  BY <1>1, <1>5, BoundsAssumption DEF AppendingItem, famfs_log_full
<1> QED
  BY <1>1, <1>2, <1>4, <1>6, SameHeader, MasterStep

(* The memcpy stores at next_index, which is not below the one in memory. *)
LEMMA CrashMemcpy ==
  ASSUME CrashInv, NEW p \in Parts, append_memcpy(p)
  PROVE  CrashInv'
<1> DEFINE l0 == <<hdr.idx, p>>
<1>0. /\ LinesTypeOK /\ OneWriter
      /\ hdr.idx \in Nat /\ mem[HdrLine].idx \in Nat
      /\ mem[HdrLine].idx <= hdr.idx /\ hdr.idx <= LastIndex + 1
      /\ entry \in LineContent
  BY HdrTypes DEF CrashInv, TypeOK, HeadersInLog
<1>1. /\ pc = "copy"
      /\ p \in todo
      /\ Store(Master, l0, entry)
      /\ todo' = todo \ {p}
      /\ pc' = IF todo' = {} THEN "seqnum" ELSE "copy"
      /\ UNCHANGED <<entry, acked, play, fs, stubs, nerrs, ncrash>>
  BY DEF append_memcpy, clientVars
<1>2. /\ hdr.idx <= LastIndex
      /\ \A q \in Parts \ todo : view[<<hdr.idx, q>>].item = entry.item
  BY <1>1 DEF CrashInv, AppendingItem
<1>3. hdr.idx \in Slots
  BY <1>0, <1>2, BoundsAssumption DEF Slots
<1>4. l0 \in Lines /\ l0 # HdrLine /\ entry \in Content
  BY <1>0, <1>3, Basics DEF Content
<1>5. /\ LinesTypeOK'
      /\ OneWriter'
      /\ \A k \in Lines : view'[k] = IF k = l0 THEN entry ELSE view[k]
      /\ mem' = mem
      /\ \A c \in Clients : cache'[c] = cache[c]
  BY <1>0, <1>1, <1>4, MasterStore
<1>6. CatchUp
  BY <1>5 DEF CatchUp
<1>7. hdr' = hdr
  BY <1>4, <1>5, Basics, LogInView
<1>8. \A s \in Slots, q \in Parts :
        view'[<<s, q>>] = IF s = hdr.idx /\ q = p THEN entry ELSE view[<<s, q>>]
  BY <1>5, Basics
<1>9. ViewKept
  <2> SUFFICES ASSUME NEW s \in Slots, NEW q \in Parts, s < mem[HdrLine].idx
               PROVE  view'[<<s, q>>] = view[<<s, q>>]
    BY DEF ViewKept
  <2>1. s # hdr.idx
    BY <1>0 DEF Slots
  <2> QED
    BY <2>1, <1>8
<1>10. TypeOK'
  <2>1. todo' \subseteq Parts /\ pc' \in {"copy", "seqnum"}
    BY <1>1 DEF CrashInv, TypeOK
  <2> QED
    BY <1>1, <1>5, <2>1 DEF CrashInv, TypeOK
<1>11. AppendingItem'
  <2>1. \A q \in Parts \ todo' : view'[<<hdr.idx, q>>].item = entry.item
    BY <1>1, <1>2, <1>3, <1>8
  <2>2. pc' = "seqnum" => todo' = {}
    BY <1>1
  <2>3. pc' \in {"copy", "seqnum"}
    BY <1>1
  <2> QED
    BY <1>1, <1>2, <1>7, <2>1, <2>2, <2>3 DEF AppendingItem
<1>12. mem'[HdrLine].idx <= hdr'.idx /\ hdr'.idx <= LastIndex + 1
  BY <1>0, <1>5, <1>7
<1> QED
  BY <1>1, <1>5, <1>6, <1>9, <1>10, <1>11, <1>12, MasterStep

(* Stores to the header move no line of an entry. *)
LEMMA CrashHeader ==
  ASSUME CrashInv, append_next_seqnum \/ append_next_index
  PROVE  CrashInv'
<1> DEFINE v == IF pc = "seqnum" THEN [hdr EXCEPT !.seq = @ + 1]
                ELSE [hdr EXCEPT !.idx = @ + 1]
<1>0. /\ LinesTypeOK /\ OneWriter
      /\ hdr \in Header
      /\ hdr.idx \in Nat /\ mem[HdrLine].idx \in Nat
      /\ mem[HdrLine].idx <= hdr.idx
  BY HdrTypes DEF CrashInv, TypeOK, HeadersInLog
<1>1. /\ \/ pc = "seqnum" /\ pc' = "index"
         \/ pc = "index" /\ pc' = "flush"
      /\ Store(Master, HdrLine, v)
      /\ UNCHANGED <<entry, todo, acked, play, fs, stubs, nerrs, ncrash>>
  BY DEF append_next_seqnum, append_next_index, clientVars
<1>2. v \in Header /\ v.idx = IF pc = "index" THEN hdr.idx + 1 ELSE hdr.idx
  BY <1>0, <1>1 DEF Header
<1> HIDE DEF v
<1>3. v \in Content
  BY <1>2 DEF Content
<1>4. /\ LinesTypeOK'
      /\ OneWriter'
      /\ \A k \in Lines : view'[k] = IF k = HdrLine THEN v ELSE view[k]
      /\ mem' = mem
      /\ \A c \in Clients : cache'[c] = cache[c]
  BY <1>0, <1>1, <1>2, <1>3, Basics, MasterStore
<1>5. CatchUp
  BY <1>4 DEF CatchUp
<1>6. hdr' = v
  BY <1>4, Basics, LogInView
<1>7. \A s \in Slots, p \in Parts : view'[<<s, p>>] = view[<<s, p>>]
  BY <1>4, Basics
<1>8. ViewKept
  BY <1>7 DEF ViewKept
<1>9. /\ hdr.idx <= LastIndex
      /\ todo = {}
      /\ \A p \in Parts : view[<<hdr.idx, p>>].item = entry.item
  BY <1>1 DEF CrashInv, AppendingItem
<1>10. hdr.idx \in Slots
  BY <1>0, <1>9, BoundsAssumption DEF Slots
<1>11. TypeOK'
  BY <1>1, <1>4 DEF CrashInv, TypeOK
<1>12. AppendingItem'
  <2>1. CASE pc = "seqnum"
    <3>1. pc' = "index" /\ hdr'.idx = hdr.idx
      BY <1>1, <1>2, <1>6, <2>1
    <3> QED
      BY <3>1, <1>1, <1>7, <1>9, <1>10 DEF AppendingItem
  <2>2. CASE pc = "index"
    <3>1. pc' = "flush" /\ hdr'.idx = hdr.idx + 1
      BY <1>1, <1>2, <1>6, <2>2
    <3>2. hdr'.idx - 1 = hdr.idx /\ hdr'.idx > 0
      BY <3>1, <1>0
    <3> QED
      BY <3>1, <3>2, <1>1, <1>7, <1>9, <1>10 DEF AppendingItem
  <2> QED
    BY <1>1, <2>1, <2>2
<1>13. mem'[HdrLine].idx <= hdr'.idx /\ hdr'.idx <= LastIndex + 1
  BY <1>0, <1>2, <1>4, <1>6, <1>9, BoundsAssumption
<1> QED
  BY <1>1, <1>4, <1>5, <1>8, <1>11, <1>12, <1>13, MasterStep

(* The flush puts all that the master sees in memory, so the entry is      *)
(* there when famfs_append_log returns.                                    *)
LEMMA CrashFlush ==
  ASSUME CrashInv, append_flush
  PROVE  CrashInv'
<1> DEFINE n == hdr.idx - 1
<1>0. /\ LinesTypeOK /\ OneWriter
      /\ hdr.idx \in Nat /\ hdr.idx <= LastIndex + 1
      /\ acked \in [Slots -> Items \cup {NoItem}]
      /\ entry.item \in Items \cup {NoItem}
  BY HdrTypes DEF CrashInv, TypeOK, HeadersInLog, LineContent
<1>1. /\ pc = "flush"
      /\ Flush(Master, Lines)
      /\ acked' = [acked EXCEPT ![n] = entry.item]
      /\ entry' = Zeroed
      /\ pc' = "locked"
      /\ UNCHANGED <<todo, play, fs, stubs, nerrs, ncrash>>
  BY DEF append_flush, clientVars
<1>2. LinesTypeOK' /\ OneWriter' /\ SameView /\ CatchUp
  BY <1>0, <1>1, MasterFlush
<1>3. \A l \in Lines : mem'[l] = view[l]
  <2>1. mem' = [l \in Lines |-> IF l \in Lines \cap dirty[Master]
                                 THEN cache[Master][l] ELSE mem[l]]
    BY <1>0, <1>1 DEF Flush, WrittenBack, LinesTypeOK
  <2> QED
    BY <1>0, <2>1 DEF OneWriter, view, View
<1>4. /\ hdr.idx > 0
      /\ \A p \in Parts : view[<<n, p>>].item = entry.item
  BY <1>1 DEF CrashInv, AppendingItem
<1>5. n \in Slots /\ n < hdr.idx
  BY <1>0, <1>4, BoundsAssumption DEF Slots
<1> HIDE DEF n
<1>6. hdr' = hdr /\ mem'[HdrLine] = hdr /\ view' = view
  BY <1>2, <1>3, SameHeader, Basics, LogInView DEF SameView
<1>7. \A s \in Slots : acked'[s] = IF s = n THEN entry.item ELSE acked[s]
  BY <1>0, <1>1, <1>5
<1>8. TypeOK'
  BY <1>0, <1>1, <1>2, <1>5, Basics DEF CrashInv, TypeOK
<1>9. AckedInMemory'
  <2> SUFFICES ASSUME NEW s \in Slots, acked'[s] # NoItem
               PROVE  /\ s < hdr.idx
                      /\ \A p \in Parts : view[<<s, p>>].item = acked'[s]
    BY <1>3, <1>6, Basics DEF AckedInMemory
  <2>1. CASE s = n
    BY <2>1, <1>4, <1>5, <1>7
  <2>2. CASE s # n
    <3>1. acked[s] = acked'[s] /\ acked[s] # NoItem
      BY <2>2, <1>7
    <3>2. /\ s < mem[HdrLine].idx
          /\ \A p \in Parts :
               mem[<<s, p>>].item = acked[s] /\ view[<<s, p>>] = mem[<<s, p>>]
      BY <3>1 DEF CrashInv, AckedInMemory
    <3>3. mem[HdrLine].idx \in Nat /\ mem[HdrLine].idx <= hdr.idx
      BY <1>0, HdrTypes DEF CrashInv, HeadersInLog
    <3> QED
      BY <3>1, <3>2, <3>3, <1>0 DEF Slots
  <2> QED
    BY <2>1, <2>2
<1>10. HeadersInLog'
  <2>1. ASSUME NEW c \in Clients
        PROVE  cache'[c][HdrLine] = cache[c][HdrLine]
    BY <1>1 DEF Flush
  <2> QED
    BY <1>0, <1>6, <2>1 DEF CrashInv, HeadersInLog
<1>11. AppendingItem'
  BY <1>1 DEF AppendingItem
<1>12. Playing' /\ SuccessIsComplete'
  BY <1>1 DEF CrashInv, Playing, PlayingOf, SuccessIsComplete
<1>13. BaseSeen'
  <2> SUFFICES ASSUME NEW c \in Clients, play[c].pc # "idle",
                      NEW x \in play[c].base
               PROVE  \E s \in Slots : InSlot(c, x, s)'
    BY <1>1 DEF BaseSeen
  <2>1. PICK s \in Slots : InSlot(c, x, s)
    BY DEF CrashInv, BaseSeen
  <2>2. x \in Items /\ acked[s] = x /\ x # NoItem
    BY <2>1, NamesAssumption DEF CrashInv, TypeOK, Logplay, InSlot
  <2>3. acked'[s] = acked[s]
    <3>1. CASE s = n
      <4>1. \A p \in Parts :
              mem[<<s, p>>].item = acked[s] /\ view[<<s, p>>] = mem[<<s, p>>]
        BY <2>2 DEF CrashInv, AckedInMemory
      <4>2. view[<<s, 1>>].item = acked[s]
        BY <4>1, Basics
      <4>3. view[<<s, 1>>].item = entry.item
        BY Zenon, <3>1, <1>4, Basics
      <4> QED
        BY <4>2, <4>3, <3>1, <1>7
    <3>2. CASE s # n
      BY <3>2, <1>7
    <3> QED
      BY <3>1, <3>2
  <2>4. InSlot(c, x, s)'
    BY <2>1, <2>2, <2>3, <1>1, <1>2, SlotKept
  <2> QED
    BY <2>4
<1> QED
  BY <1>2, <1>8, <1>9, <1>10, <1>11, <1>12, <1>13 DEF CrashInv

(* A dying process leaves its host's cache as it is; a dying host loses    *)
(* what it had not written back, and sees memory.                          *)
LEMMA CrashCrash ==
  ASSUME CrashInv, ProcessCrash \/ HostCrash
  PROVE  CrashInv'
<1>0. /\ LinesTypeOK /\ OneWriter
      /\ mem[HdrLine].idx <= hdr.idx /\ hdr.idx <= LastIndex + 1
      /\ mem[HdrLine].idx \in Nat /\ hdr.idx \in Nat
  BY HdrTypes DEF CrashInv, TypeOK, HeadersInLog
<1>1. /\ ncrash < MaxCrash /\ ncrash' = ncrash + 1
      /\ pc' = "idle" /\ entry' = Zeroed /\ todo' = {}
      /\ UNCHANGED <<acked, play, fs, stubs, nerrs>>
      /\ UNCHANGED <<mem, cache, dirty>> \/ PowerLoss(Master)
  BY DEF ProcessCrash, HostCrash, clientVars, fccVars
<1>2. /\ LinesTypeOK' /\ OneWriter' /\ CatchUp /\ mem' = mem
      /\ view' = view \/ \A l \in Lines : view'[l] = mem[l]
  <2>1. CASE UNCHANGED <<mem, cache, dirty>>
    BY <2>1, <1>0 DEF LinesTypeOK, OneWriter, CatchUp, view, View
  <2>2. CASE PowerLoss(Master)
    <3>1. /\ mem' = mem
          /\ cache' = [cache EXCEPT ![Master] = [l \in Lines |-> Miss]]
          /\ dirty' = [dirty EXCEPT ![Master] = {}]
      BY <2>2, <1>0 DEF PowerLoss, LinesTypeOK
    <3>2. /\ cache' \in [Hosts -> [Lines -> Content \cup {Miss}]]
          /\ \A l \in Lines : cache'[Master][l] = Miss
          /\ \A c \in Clients : cache'[c] = cache[c]
          /\ dirty' \in [Hosts -> SUBSET Lines]
          /\ dirty'[Master] = {}
          /\ \A c \in Clients : dirty'[c] = dirty[c]
      BY <3>1, <1>0, Basics DEF LinesTypeOK
    <3>3. LinesTypeOK'
      BY <3>1, <3>2, <1>0, Basics DEF LinesTypeOK, Hosts
    <3>4. \A l \in Lines : view'[l] = mem[l]
      BY <3>1, <3>2 DEF view, View
    <3>5. OneWriter'
      BY <3>1, <3>2, <3>4, <1>0 DEF OneWriter
    <3>6. CatchUp
      BY <3>1, <3>2 DEF CatchUp
    <3> QED
      BY <3>1, <3>3, <3>4, <3>5, <3>6
  <2> QED
    BY <1>1, <2>1, <2>2
<1>3. TypeOK'
  <2>1. ncrash' \in 0 .. MaxCrash
    BY <1>1, BoundsAssumption DEF CrashInv, TypeOK
  <2> QED
    BY <1>1, <1>2, <2>1, Basics DEF CrashInv, TypeOK
<1>4. ViewKept
  BY <1>2, Basics DEF ViewKept
<1>5. hdr' = hdr \/ hdr' = mem[HdrLine]
  BY <1>2, Basics, LogInView
<1>6. mem'[HdrLine].idx <= hdr'.idx /\ hdr'.idx <= LastIndex + 1
  BY <1>0, <1>2, <1>5, BoundsAssumption
<1>7. AppendingItem'
  BY <1>1 DEF AppendingItem
<1> QED
  BY <1>1, <1>2, <1>3, <1>4, <1>6, <1>7, MasterStep

-----------------------------------------------------------------------------
(***************************************************************************)
(* CrashInv is inductive: steps of a client.                               *)
(***************************************************************************)

(* A step of client c leaves the master and the other clients alone: what  *)
(* remains to be shown is about c.                                         *)
LEMMA ClientOnly ==
  ASSUME CrashInv, NEW c \in Clients, ClientMoves(c), PlayingOf(c)', SeenBy(c)'
  PROVE  CrashInv'
<1>1. /\ UNCHANGED <<pc, entry, todo, acked>> /\ TypeOK' /\ OneWriter'
  BY DEF ClientMoves, ClientTypes, CrashInv, TypeOK, masterVars
<1>2. SameView /\ CatchUp /\ hdr' = hdr /\ view' = view
  BY SameHeader DEF ClientMoves, ClientTypes, SameView
<1>3. AppendingItem'
  BY <1>1, <1>2 DEF CrashInv, AppendingItem
<1>4. AckedInMemory'
  BY <1>1, <1>2, SameHeader, AckedKept
<1>5. HeadersInLog'
  <2>1. /\ mem'[HdrLine].idx <= hdr'.idx /\ hdr'.idx <= LastIndex + 1
        /\ mem[HdrLine].idx \in Nat /\ hdr.idx \in Nat
    BY <1>2, SameHeader, HdrTypes DEF CrashInv, TypeOK
  <2>2. \A d \in Clients : \/ cache'[d][HdrLine] \in {Miss, cache[d][HdrLine]}
                           \/ cache'[d][HdrLine] = mem[HdrLine]
    BY <1>2, Basics DEF CatchUp
  <2>3. /\ mem[HdrLine].idx <= hdr.idx /\ hdr.idx <= LastIndex + 1
        /\ \A d \in Clients :
             cache[d][HdrLine] # Miss => cache[d][HdrLine].idx <= LastIndex + 1
    BY DEF CrashInv, HeadersInLog
  <2>4. mem[HdrLine].idx <= LastIndex + 1
    BY <2>1, <2>3, BoundsAssumption
  <2> QED
    BY <2>1, <2>2, <2>3, <2>4 DEF HeadersInLog
<1>6. ASSUME NEW d \in Clients PROVE PlayingOf(d)' /\ SeenBy(d)'
  <2>1. CASE d = c
    BY <2>1
  <2>2. CASE d # c
    <3>1. /\ play'[d] = play[d] /\ fs[d] \subseteq fs'[d] /\ stubs[d] \subseteq stubs'[d]
      BY <2>2 DEF ClientMoves
    <3>2. /\ PlayingOf(d)
          /\ play[d].pc # "idle" =>
               \A x \in play[d].base : x \in Items /\ \E s \in Slots : InSlot(d, x, s)
          /\ play[d].rc = "ok" => \A x \in play[d].base : Has(d, x)
      BY DEF CrashInv, Playing, BaseSeen, SuccessIsComplete, Has, TypeOK, Logplay
    <3>3. PlayingOf(d)'
      BY <3>1, <3>2 DEF PlayingOf
    <3>4. \A x : Has(d, x) => Has(d, x)'
      BY <3>1 DEF Has
    <3>5. ASSUME NEW x \in Items, NEW s \in Slots, InSlot(d, x, s) PROVE InSlot(d, x, s)'
      BY <3>1, <3>5, <1>1, <1>2, SlotKept
    <3> QED
      BY <3>1, <3>2, <3>3, <3>4, <3>5 DEF SeenBy
  <2> QED
    BY <2>1, <2>2
<1>7. Playing' /\ BaseSeen' /\ SuccessIsComplete'
  BY <1>6 DEF Playing, BaseSeen, SuccessIsComplete, SeenBy, Has
<1> QED
  BY <1>1, <1>3, <1>4, <1>5, <1>7 DEF CrashInv

(* When a logplay begins, the client has nothing cached, and every append  *)
(* that has returned is in its slot.                                       *)
LEMMA CrashLogplay ==
  ASSUME CrashInv, NEW c \in Clients, famfs_logplay(c)
  PROVE  CrashInv'
<1> DEFINE base == {acked[s] : s \in Slots} \ {NoItem}
           start == [pc |-> "loop", i |-> 0, todo |-> {}, le |-> Blank,
                     rc |-> "none", base |-> base]
<1>1. /\ play' = [play EXCEPT ![c] = start]
      /\ Invalidate(c, Lines)
      /\ UNCHANGED <<masterVars, fs, stubs, nerrs, ncrash>>
  BY DEF famfs_logplay
<1>2. /\ LinesTypeOK /\ OneWriter
      /\ play \in [Clients -> Logplay]
      /\ fs \in [Clients -> SUBSET [Parts -> LineContent]]
      /\ stubs \in [Clients -> SUBSET [Parts -> LineContent]]
      /\ nerrs \in 0 .. MaxErrors
      /\ acked \in [Slots -> Items \cup {NoItem}]
  BY DEF CrashInv, TypeOK
<1>3. base \in SUBSET Items /\ \A x \in base : \E s \in Slots : acked[s] = x
  BY <1>2
<1>4. /\ start \in Logplay /\ start.pc = "loop" /\ start.rc = "none"
      /\ start.i = 0 /\ start.base = base
  <2> HIDE DEF base
  <2> QED
    BY <1>3, Basics DEF Logplay
<1> HIDE DEF start, base
<1>5. LinesTypeOK' /\ OneWriter' /\ SameView /\ CatchUp
  BY <1>1, <1>2, ClientRefresh
<1>6. /\ play' \in [Clients -> Logplay]
      /\ play'[c] = start
      /\ \A d \in Clients : d # c => play'[d] = play[d]
  BY <1>1, <1>2, <1>4
<1>7. \A l \in Lines : cache'[c][l] = Miss
  <2>1. cache' = [cache EXCEPT ![c] = [l \in Lines |-> Miss]]
    BY Zenon, <1>1, <1>2, Basics DEF Invalidate, LinesTypeOK
  <2> QED
    BY <2>1, <1>2, Basics DEF LinesTypeOK
<1>8. ASSUME NEW x \in base
      PROVE  \E s \in Slots : InSlot(c, x, s)'
  <2>1. PICK s \in Slots : acked[s] = x
    BY <1>3
  <2>2. acked' = acked
    BY <1>1 DEF masterVars
  <2>3. ~(s < 0)
    BY DEF Slots
  <2>4. InSlot(c, x, s)'
    BY <2>1, <2>2, <2>3, <1>4, <1>6, <1>7, Basics DEF InSlot
  <2> QED
    BY <2>4
<1>9. PlayingOf(c)'
  BY <1>4, <1>6 DEF PlayingOf
<1>10. \A d \in Clients : fs[d] \subseteq fs'[d] /\ stubs[d] \subseteq stubs'[d]
  BY <1>1
<1> QED
  BY <1>1, <1>2, <1>4, <1>5, <1>6, <1>8, <1>9, <1>10, ClientOnly DEF ClientMoves, ClientTypes, SeenBy

(* What a running logplay knows: the items of its base are in slots below  *)
(* any next_index it can load.                                             *)
LEMMA BaseBelow ==
  ASSUME CrashInv, NEW c \in Clients, play[c].pc # "idle",
         NEW x \in play[c].base
  PROVE  /\ x \in Items
         /\ \E s \in Slots : /\ InSlot(c, x, s)
                             /\ s < View(c, HdrLine).idx
                             /\ \A p \in Parts : mem[<<s, p>>].item = x
<1>1. x \in Items
  BY DEF CrashInv, TypeOK, Logplay
<1>2. PICK s \in Slots : InSlot(c, x, s)
  BY DEF CrashInv, BaseSeen
<1>3. acked[s] = x /\ x # NoItem
  BY <1>1, <1>2, NamesAssumption DEF InSlot
<1>4. s < mem[HdrLine].idx /\ \A p \in Parts : mem[<<s, p>>].item = x
  BY <1>3 DEF CrashInv, AckedInMemory
<1>5. s < View(c, HdrLine).idx
  BY <1>2, <1>4 DEF InSlot, View
<1> QED
  BY <1>1, <1>2, <1>4, <1>5

(* The loop test: next_index is within the log, and a loop that ends       *)
(* without an error has been past every item of its base.                  *)
LEMMA CrashLoop ==
  ASSUME CrashInv, NEW c \in Clients, logplay_loop(c)
  PROVE  CrashInv'
<1> DEFINE goes == play[c].i < View(c, HdrLine).idx
           into == [play[c] EXCEPT !.pc = "copy", !.todo = Parts]
           rc == IF play[c].rc = "none" THEN "ok" ELSE play[c].rc
           out == [play[c] EXCEPT !.pc = "idle", !.rc = rc]
<1>1. /\ play[c].pc = "loop"
      /\ Load(c, HdrLine)
      /\ play' = [play EXCEPT ![c] = IF goes THEN into ELSE out]
      /\ UNCHANGED <<masterVars, fs, stubs, nerrs, ncrash>>
  BY DEF logplay_loop
<1>2. /\ LinesTypeOK /\ OneWriter
      /\ play \in [Clients -> Logplay]
      /\ play[c] \in Logplay
      /\ fs \in [Clients -> SUBSET [Parts -> LineContent]]
      /\ stubs \in [Clients -> SUBSET [Parts -> LineContent]]
      /\ nerrs \in 0 .. MaxErrors
  BY DEF CrashInv, TypeOK
<1>3. LinesTypeOK' /\ OneWriter' /\ SameView /\ CatchUp
  BY <1>1, <1>2, Basics, ClientLoad
<1>4. play[c].rc \in {"none", "errors"}
  BY <1>1 DEF CrashInv, Playing, PlayingOf
<1>5. rc \in {"ok", "errors"} /\ (rc = "ok" => play[c].rc = "none")
  BY <1>4
<1> HIDE DEF rc
<1>6. /\ into \in Logplay /\ into.pc = "copy" /\ into.i = play[c].i
      /\ into.todo = Parts /\ into.rc = play[c].rc /\ into.base = play[c].base
  BY Zenon, <1>2 DEF Logplay
<1>7. /\ out \in Logplay /\ out.pc = "idle" /\ out.rc = rc
      /\ out.base = play[c].base
  BY Zenon, <1>2, <1>5 DEF Logplay
<1> HIDE DEF into, out
<1>8. /\ play' \in [Clients -> Logplay]
      /\ play'[c] = IF goes THEN into ELSE out
      /\ \A d \in Clients : d # c => play'[d] = play[d]
  BY <1>1, <1>2, <1>6, <1>7
<1>9. \A d \in Clients : fs[d] \subseteq fs'[d] /\ stubs[d] \subseteq stubs'[d]
  BY <1>1
<1>10. play[c].i \in Nat /\ View(c, HdrLine).idx \in Nat
  BY <1>2, HdrTypes DEF Logplay
<1>11. CASE goes
  <2>1. View(c, HdrLine).idx <= LastIndex + 1
    <3>1. /\ mem[HdrLine].idx <= hdr.idx /\ hdr.idx <= LastIndex + 1
          /\ cache[c][HdrLine] # Miss => cache[c][HdrLine].idx <= LastIndex + 1
      BY DEF CrashInv, HeadersInLog
    <3>2. mem[HdrLine].idx \in Nat /\ hdr.idx \in Nat
      BY <1>2, HdrTypes
    <3> QED
      BY <3>1, <3>2, BoundsAssumption DEF View
  <2>2. play[c].i <= LastIndex
    BY <2>1, <1>10, <1>11, BoundsAssumption
  <2>3. PlayingOf(c)'
    BY <2>2, <1>4, <1>6, <1>8, <1>11 DEF PlayingOf
  <2>4. ASSUME NEW x \in play'[c].base
        PROVE  \E s \in Slots : InSlot(c, x, s)'
    <3>1. x \in play[c].base
      BY <2>4, <1>6, <1>8, <1>11
    <3>2. PICK s \in Slots : x \in Items /\ InSlot(c, x, s)
      BY <3>1, <1>1, BaseBelow
    <3>3. Has(c, x) => Has(c, x)'
      BY <1>9 DEF Has
    <3>4. play'[c].rc = "none" /\ s < play'[c].i => Has(c, x)'
      BY <3>2, <3>3, <1>6, <1>8, <1>11 DEF InSlot
    <3>5. Parts \ play'[c].todo = {}
      BY <1>6, <1>8, <1>11
    <3>6. InSlot(c, x, s)'
      BY <3>2, <3>4, <3>5, <1>1, <1>3, SlotStep DEF masterVars
    <3> QED
      BY <3>6
  <2>5. play'[c].rc # "ok"
    <3>1. play'[c] = into
      BY <1>8, <1>11
    <3>2. play'[c].rc = play[c].rc
      BY Zenon, <3>1, <1>6
    <3> QED
      BY <3>2, <1>4
  <2> QED
    BY <2>3, <2>4, <2>5, <1>1, <1>2, <1>3, <1>8, <1>9, ClientOnly DEF ClientMoves, ClientTypes, SeenBy
<1>12. CASE ~goes
  <2>1. play'[c].pc = "idle" /\ play'[c].rc = rc /\ play'[c].base = play[c].base
    BY <1>7, <1>8, <1>12
  <2>2. PlayingOf(c)'
    BY <2>1 DEF PlayingOf
  <2>3. ASSUME rc = "ok", NEW x \in play[c].base
        PROVE  Has(c, x)'
    <3>1. PICK s \in Slots : InSlot(c, x, s) /\ s < View(c, HdrLine).idx
      BY <1>1, BaseBelow
    <3>2. s < play[c].i
      BY <3>1, <1>10, <1>12 DEF Slots
    <3>3. Has(c, x)
      BY <3>1, <3>2, <2>3, <1>5 DEF InSlot
    <3> QED
      BY <3>3, <1>9 DEF Has
  <2> QED
    BY <2>1, <2>2, <2>3, <1>1, <1>2, <1>3, <1>8, <1>9, ClientOnly DEF ClientMoves, ClientTypes, SeenBy
<1> QED
  BY <1>11, <1>12

(* A logplay that ends at an invalid entry claims nothing. *)
LEMMA CrashInvalid ==
  ASSUME CrashInv, NEW c \in Clients, logplay_invalid(c)
  PROVE  CrashInv'
<1> DEFINE out == [play[c] EXCEPT !.pc = "idle", !.rc = "failed", !.le = Blank]
<1>1. /\ UNCHANGED <<mem, cache, dirty, masterVars, fs, stubs, nerrs, ncrash>>
      /\ play' = [play EXCEPT ![c].pc = "idle", ![c].rc = "failed",
                              ![c].le = Blank]
  BY DEF logplay_invalid, fccVars
<1>2. /\ LinesTypeOK /\ OneWriter
      /\ play \in [Clients -> Logplay]
      /\ play[c] \in Logplay
      /\ fs \in [Clients -> SUBSET [Parts -> LineContent]]
      /\ stubs \in [Clients -> SUBSET [Parts -> LineContent]]
      /\ nerrs \in 0 .. MaxErrors
  BY DEF CrashInv, TypeOK
<1>3. LinesTypeOK' /\ OneWriter' /\ SameView /\ CatchUp
  BY <1>1, <1>2 DEF LinesTypeOK, OneWriter, SameView, CatchUp, view, View
<1>4. out \in Logplay /\ out.pc = "idle" /\ out.rc = "failed"
  BY Zenon, <1>2, Basics DEF Logplay
<1>5. play' = [play EXCEPT ![c] = out]
  BY <1>1, <1>2, Zenon
<1> HIDE DEF out
<1>6. /\ play' \in [Clients -> Logplay]
      /\ play'[c] = out
      /\ \A d \in Clients : d # c => play'[d] = play[d]
  BY <1>2, <1>4, <1>5
<1>7. PlayingOf(c)' /\ play'[c].pc = "idle" /\ play'[c].rc # "ok"
  BY <1>4, <1>6 DEF PlayingOf
<1>8. \A d \in Clients : fs[d] \subseteq fs'[d] /\ stubs[d] \subseteq stubs'[d]
  BY <1>1
<1> QED
  BY <1>1, <1>2, <1>3, <1>6, <1>7, <1>8, ClientOnly DEF ClientMoves, ClientTypes, SeenBy

(* A line copied from the slot of an item of the base is a line of that    *)
(* item.                                                                   *)
LEMMA CrashCopy ==
  ASSUME CrashInv, NEW c \in Clients, NEW p \in Parts, logplay_copy(c, p)
  PROVE  CrashInv'
<1> DEFINE l == <<play[c].i, p>>
           le == [play[c].le EXCEPT ![p] = View(c, l)]
           t == play[c].todo \ {p}
           q0 == IF play[c].todo = {p} THEN "validate" ELSE "copy"
           into == [play[c] EXCEPT !.le = le, !.todo = t, !.pc = q0]
<1>1. /\ play[c].pc = "copy"
      /\ p \in play[c].todo
      /\ Load(c, l)
      /\ play' = [play EXCEPT ![c].le[p] = View(c, l),
                              ![c].todo = @ \ {p},
                              ![c].pc = q0]
      /\ UNCHANGED <<masterVars, fs, stubs, nerrs, ncrash>>
  BY DEF logplay_copy
<1>2. /\ LinesTypeOK /\ OneWriter
      /\ play \in [Clients -> Logplay]
      /\ play[c] \in Logplay
      /\ fs \in [Clients -> SUBSET [Parts -> LineContent]]
      /\ stubs \in [Clients -> SUBSET [Parts -> LineContent]]
      /\ nerrs \in 0 .. MaxErrors
  BY DEF CrashInv, TypeOK
<1>3. /\ play[c].i <= LastIndex
      /\ play[c].rc \in {"none", "errors"}
  BY <1>1 DEF CrashInv, Playing, PlayingOf
<1>4. play[c].i \in Slots
  BY <1>2, <1>3, BoundsAssumption DEF Logplay, Slots
<1>5. l \in EntryLines /\ l \in Lines
  BY <1>4, Basics
<1>6. LinesTypeOK' /\ OneWriter' /\ SameView /\ CatchUp
  BY <1>1, <1>2, <1>5, ClientLoad
<1>7. View(c, l) \in LineContent
  BY <1>2, <1>5, ViewType, Basics
<1>8. play' = [play EXCEPT ![c] = into]
  BY <1>1, <1>2, Zenon
<1>9. /\ le \in [Parts -> LineContent]
      /\ t \in SUBSET Parts
      /\ q0 \in {"copy", "validate"}
      /\ q0 = "validate" => t = {}
      /\ \A q \in Parts : le[q] = IF q = p THEN View(c, l) ELSE play[c].le[q]
  BY <1>2, <1>7 DEF Logplay
<1> HIDE DEF le, t, q0
<1>10. /\ into \in Logplay /\ into.pc = q0 /\ into.i = play[c].i
       /\ into.todo = t /\ into.le = le /\ into.rc = play[c].rc
       /\ into.base = play[c].base
  BY Zenon, <1>2, <1>9 DEF Logplay
<1> HIDE DEF into
<1>11. /\ play' \in [Clients -> Logplay]
       /\ play'[c] = into
       /\ \A d \in Clients : d # c => play'[d] = play[d]
  BY <1>2, <1>8, <1>10
<1>12. \A d \in Clients : fs[d] \subseteq fs'[d] /\ stubs[d] \subseteq stubs'[d]
  BY <1>1
<1>13. PlayingOf(c)' /\ play'[c].rc # "ok"
  BY <1>3, <1>9, <1>10, <1>11 DEF PlayingOf
<1>14. ASSUME NEW x \in play'[c].base
       PROVE  \E s \in Slots : InSlot(c, x, s)'
  <2>1. x \in play[c].base
    BY <1>10, <1>11, <1>14
  <2>2. PICK s \in Slots : /\ x \in Items /\ InSlot(c, x, s)
                           /\ \A q \in Parts : mem[<<s, q>>].item = x
    BY <2>1, <1>1, BaseBelow
  <2>3. Has(c, x) => Has(c, x)'
    BY <1>12 DEF Has
  <2>4. play'[c].rc = "none" /\ s < play'[c].i => Has(c, x)'
    BY Zenon, <2>2, <2>3, <1>10, <1>11 DEF InSlot
  <2>5. ASSUME play[c].i = s, NEW q \in Parts \ t
        PROVE  le[q].item = x
    <3>1. CASE q = p
      <4>1. View(c, <<s, p>>).item = x
        BY <2>2 DEF View, InSlot
      <4> QED
        BY <4>1, <3>1, <2>5, <1>9
    <3>2. CASE q # p
      <4>1. q \in Parts \ play[c].todo
        BY <3>2, <2>5 DEF t
      <4>2. play[c].pc \in {"copy", "validate"}
        BY <1>1
      <4>3. play[c].le[q].item = x
        BY Zenon, <4>1, <4>2, <2>2, <2>5 DEF InSlot
      <4> QED
        BY <4>3, <3>2, <1>9
    <3> QED
      BY <3>1, <3>2
  <2>6. play'[c].i = s /\ play'[c].pc \in {"copy", "validate"} =>
          \A q \in Parts \ play'[c].todo : play'[c].le[q].item = x
    BY Zenon, <2>5, <1>10, <1>11
  <2>7. acked'[s] = acked[s]
    BY <1>1 DEF masterVars
  <2>8. InSlot(c, x, s)'
    BY <2>2, <2>4, <2>6, <2>7, <1>6, SlotStep
  <2> QED
    BY <2>8
<1> QED
  BY <1>1, <1>2, <1>6, <1>11, <1>12, <1>13, <1>14, ClientOnly DEF ClientMoves, ClientTypes, SeenBy

(* The loop gets past the slot of an item of the base without an error     *)
(* only if the item is there.                                              *)
LEMMA CrashApply ==
  ASSUME CrashInv, NEW c \in Clients, logplay_apply(c)
  PROVE  CrashInv'
<1> DEFINE le == play[c].le
           next == [play EXCEPT ![c].pc = "loop", ![c].i = @ + 1,
                                ![c].le = Blank]
           into(rc) == [play[c] EXCEPT !.pc = "loop", !.i = play[c].i + 1,
                                       !.le = Blank, !.rc = rc]
<1>1. /\ play[c].pc = "validate"
      /\ UNCHANGED <<mem, cache, dirty, masterVars, ncrash>>
      /\ fs' = fs \/ fs' = [fs EXCEPT ![c] = @ \cup {le}]
      /\ stubs' = stubs \/ stubs' = [stubs EXCEPT ![c] = @ \cup {le}]
      /\ nerrs' = nerrs \/ (nerrs < MaxErrors /\ nerrs' = nerrs + 1)
      /\ \/ play' = [next EXCEPT ![c].rc = "errors"]
         \/ /\ play' = next
            /\ \/ Exists(c, le)
               \/ fs' = [fs EXCEPT ![c] = @ \cup {le}]
               \/ stubs' = [stubs EXCEPT ![c] = @ \cup {le}]
  BY DEF logplay_apply, fccVars
<1>2. /\ LinesTypeOK /\ OneWriter
      /\ play \in [Clients -> Logplay]
      /\ play[c] \in Logplay
      /\ fs \in [Clients -> SUBSET [Parts -> LineContent]]
      /\ stubs \in [Clients -> SUBSET [Parts -> LineContent]]
      /\ nerrs \in 0 .. MaxErrors
  BY DEF CrashInv, TypeOK
<1>3. LinesTypeOK' /\ OneWriter' /\ SameView /\ CatchUp
  BY <1>1, <1>2 DEF LinesTypeOK, OneWriter, SameView, CatchUp, view, View
<1>4. play[c].todo = {} /\ play[c].rc \in {"none", "errors"}
  BY <1>1 DEF CrashInv, Playing, PlayingOf
<1>5. PICK rc \in {"none", "errors"} :
        /\ play' = [play EXCEPT ![c] = into(rc)]
        /\ rc = "none" => /\ play[c].rc = "none"
                          /\ \/ Exists(c, le)
                             \/ fs' = [fs EXCEPT ![c] = @ \cup {le}]
                             \/ stubs' = [stubs EXCEPT ![c] = @ \cup {le}]
  <2>1. next = [play EXCEPT ![c] = into(play[c].rc)]
    BY <1>2, Zenon DEF Logplay
  <2>2. [next EXCEPT ![c].rc = "errors"] = [play EXCEPT ![c] = into("errors")]
    BY <1>2, Zenon DEF Logplay
  <2> HIDE DEF next, into
  <2> QED
    BY <2>1, <2>2, <1>1, <1>4
<1>6. play[c].i \in Nat /\ play[c].i + 1 \in Nat /\ le \in [Parts -> LineContent]
  BY <1>2 DEF Logplay
<1>7. /\ into(rc) \in Logplay /\ into(rc).pc = "loop"
      /\ into(rc).i = play[c].i + 1 /\ into(rc).rc = rc
      /\ into(rc).base = play[c].base
  BY Zenon, <1>2, <1>5, <1>6, Basics DEF Logplay
<1> HIDE DEF into, next, le
<1>8. /\ play' \in [Clients -> Logplay]
      /\ play'[c] = into(rc)
      /\ \A d \in Clients : d # c => play'[d] = play[d]
  BY <1>2, <1>5, <1>7
<1>9. /\ fs' \in [Clients -> SUBSET [Parts -> LineContent]]
      /\ stubs' \in [Clients -> SUBSET [Parts -> LineContent]]
      /\ \A d \in Clients : fs[d] \subseteq fs'[d] /\ stubs[d] \subseteq stubs'[d]
  BY <1>1, <1>2, <1>6
<1>10. nerrs' \in 0 .. MaxErrors
  BY <1>1, <1>2, BoundsAssumption
<1>11. PlayingOf(c)' /\ play'[c].rc # "ok"
  BY <1>5, <1>7, <1>8 DEF PlayingOf
<1>12. ASSUME NEW x \in play'[c].base
       PROVE  \E s \in Slots : InSlot(c, x, s)'
  <2>1. x \in play[c].base
    BY <1>7, <1>8, <1>12
  <2>2. PICK s \in Slots : x \in Items /\ InSlot(c, x, s)
    BY Zenon, <2>1, <1>1, BaseBelow
  <2>3. Has(c, x) => Has(c, x)'
    BY <1>9 DEF Has
  <2>4. ASSUME rc = "none", s < play[c].i + 1
        PROVE  Has(c, x)'
    <3>1. CASE s < play[c].i
      BY <3>1, <2>2, <2>3, <2>4, <1>5 DEF InSlot
    <3>2. CASE s = play[c].i
      <4>1. le[1].item = x
        BY <3>2, <2>2, <1>1, <1>4, Basics DEF InSlot, le
      <4>2. Exists(c, le) => Has(c, x)
        BY <4>1 DEF Exists, Has
      <4>3. le \in fs'[c] \cup stubs'[c] => Has(c, x)'
        BY <4>1 DEF Has
      <4>4. Exists(c, le) \/ le \in fs'[c] \cup stubs'[c]
        BY <2>4, <1>2, <1>5
      <4> QED
        BY <4>2, <4>3, <4>4, <2>3
    <3> QED
      BY <3>1, <3>2, <2>4, <1>6 DEF Slots
  <2>5. play'[c].pc = "loop" /\ play'[c].i = play[c].i + 1 /\ play'[c].rc = rc
    BY <1>7, <1>8
  <2>6. InSlot(c, x, s)'
    BY <2>2, <2>4, <2>5, <1>1, <1>3, SlotStep DEF masterVars
  <2> QED
    BY <2>6
<1> QED
  BY <1>1, <1>3, <1>8, <1>9, <1>10, <1>11, <1>12, ClientOnly DEF ClientMoves, ClientTypes, SeenBy

(* CrashInv holds in every state, whatever crashes. *)
LEMMA CrashNextInv == CrashInv /\ [CrashNext]_vars => CrashInv'
<1> SUFFICES ASSUME CrashInv, [CrashNext]_vars PROVE CrashInv'
  OBVIOUS
<1>1. CASE famfs_init_locked_log \/ famfs_release_locked_log
  BY <1>1, CrashSession
<1>2. ASSUME NEW x \in Items, famfs_log_creation(x) PROVE CrashInv'
  BY <1>2, CrashCreation
<1>3. CASE famfs_append_log
  BY <1>3, CrashMemcpy, CrashHeader, CrashFlush DEF famfs_append_log
<1>4. ASSUME NEW c \in Clients, famfs_logplay(c) \/ __famfs_logplay(c)
      PROVE  CrashInv'
  BY <1>4, CrashLogplay, CrashLoop, CrashCopy, CrashInvalid, CrashApply
     DEF __famfs_logplay
<1>5. CASE EarlyWriteBack \/ \E c \in Clients, l \in Lines : ReadAhead(c, l)
  BY <1>5, CrashHardware
<1>6. CASE ProcessCrash \/ HostCrash
  BY <1>6, CrashCrash
<1>7. CASE UNCHANGED vars
  <2>1. /\ UNCHANGED <<mem, cache, dirty, pc, entry, todo, acked>>
        /\ UNCHANGED <<play, fs, stubs, nerrs, ncrash>>
    BY <1>7 DEF vars
  <2>2. LinesTypeOK' /\ OneWriter' /\ SameView /\ CatchUp
    BY <2>1 DEF CrashInv, TypeOK, LinesTypeOK, OneWriter, SameView, CatchUp,
                view, View
  <2>3. TypeOK'
    BY <2>1, <2>2 DEF CrashInv, TypeOK
  <2>4. hdr' = hdr /\ view' = view
    BY <2>2, SameHeader DEF SameView
  <2>5. AppendingItem'
    BY <2>1, <2>4 DEF CrashInv, AppendingItem
  <2> QED
    BY <2>1, <2>2, <2>3, <2>5, SameHeader, MasterStep
<1> QED
  BY <1>1, <1>2, <1>3, <1>4, <1>5, <1>6, <1>7 DEF CrashNext, Next

(* The log right after mkfs, with no logplay running. *)
LEMMA CrashInitInv == Init => CrashInv
<1> SUFFICES ASSUME Init PROVE CrashInv
  OBVIOUS
<1>1. /\ TypeOK /\ OneWriter /\ mem[HdrLine].idx = 0 /\ hdr.idx = 0
      /\ \A h \in Hosts : cache[h][HdrLine] = Miss
  BY InitLines
<1>3. HeadersInLog
  BY <1>1, Basics, BoundsAssumption DEF HeadersInLog
<1>4. AppendingItem /\ AckedInMemory
  BY DEF Init, AppendingItem, AckedInMemory
<1>5. \A c \in Clients : play[c].pc = "idle" /\ play[c].rc = "none"
  BY DEF Init
<1>6. Playing /\ BaseSeen /\ SuccessIsComplete
  BY <1>5 DEF Playing, PlayingOf, BaseSeen, SuccessIsComplete
<1> QED
  BY <1>1, <1>3, <1>4, <1>6 DEF CrashInv

(* CrashInv, which says where the items of returned appends are and what a *)
(* logplay has seen of them, is an invariant with crashes of the process   *)
(* and of the host.                                                        *)
THEOREM CrashInvariant == CrashSpec => []CrashInv
BY CrashInitInv, CrashNextInv, PTL DEF CrashSpec

(* Type correctness of the log, its caches and its readers also when the   *)
(* master crashes in the middle of famfs_append_log.                       *)
THEOREM CrashTypeCorrect == CrashSpec => []TypeOK
<1>1. CrashInv => TypeOK
  BY DEF CrashInv
<1> QED
  BY <1>1, CrashInvariant, PTL

(* The entry of an append that has returned stays in memory, whole: the    *)
(* one flush at the end of famfs_append_log covers it and the header, and  *)
(* no later append, dead process or dead host stores over it.              *)
THEOREM AckedStaysDurable == CrashSpec => []AckedIsDurable
<1>1. CrashInv => AckedIsDurable
  BY DEF CrashInv, AckedInMemory, AckedIsDurable
<1> QED
  BY <1>1, CrashInvariant, PTL

(* When famfs_logplay returns 0, every item whose append had returned when *)
(* it began is in the client's name space, also if the master crashed.     *)
THEOREM SuccessComplete == CrashSpec => []SuccessIsComplete
<1>1. CrashInv => SuccessIsComplete
  BY DEF CrashInv
<1> QED
  BY <1>1, CrashInvariant, PTL
=============================================================================
