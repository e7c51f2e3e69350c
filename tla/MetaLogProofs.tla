--------------------------- MODULE MetaLogProofs ---------------------------
(***************************************************************************)
(* Without crashes, for any number of clients, log slots and cache lines   *)
(* per entry: MetaLog implements SharedLog, clients instantiate only what  *)
(* is logged, and while nothing fails locally what they have is a prefix   *)
(* of the log.                                                             *)
(***************************************************************************)
EXTENDS MetaLogDurability

-----------------------------------------------------------------------------
(***************************************************************************)
(* The invariant is inductive.                                             *)
(***************************************************************************)

(* Steps that store nothing leave the log as the master sees it, and what  *)
(* lags behind it still does.                                              *)
LEMMA LogKept ==
  ASSUME LinesTypeOK, OneWriter, Lagging, SameView, CatchUp
  PROVE  /\ hdr' = hdr
         /\ \A s \in Slots, p \in Parts : view'[<<s, p>>] = view[<<s, p>>]
         /\ \A s \in Slots : LogEntry(s)' = LogEntry(s)
         /\ Lagging'
<1>1. hdr' = hdr
  BY LogInView DEF SameView
<1>2. \A s \in Slots, p \in Parts : view'[<<s, p>>] = view[<<s, p>>]
  BY Basics DEF SameView
<1>3. \A s \in Slots : LogEntry(s)' = LogEntry(s)
  BY Zenon, LogInView DEF SameView
<1>4. \A l \in EntryLines : view'[l] = view[l]
  BY Basics DEF SameView
<1>5. mem'[HdrLine].idx <= hdr'.idx
  <2>1. mem'[HdrLine] = mem[HdrLine] \/ mem'[HdrLine] = hdr
    BY Basics DEF CatchUp, hdr, view
  <2>2. hdr.idx \in Nat
    BY ViewType, Basics DEF hdr, Header
  <2> QED
    BY <2>1, <2>2, <1>1 DEF Lagging
<1>6. \A l \in EntryLines : mem'[l] = Zeroed \/ mem'[l] = view'[l]
  BY <1>4, Basics DEF CatchUp, Lagging
<1>7. ASSUME NEW c \in Clients
      PROVE  /\ cache'[c][HdrLine] # Miss => cache'[c][HdrLine].idx <= hdr'.idx
             /\ \A l \in EntryLines :
                  cache'[c][l] = Miss \/ cache'[c][l] = Zeroed
                                     \/ cache'[c][l] = view'[l]
  BY <1>1, <1>4, Basics DEF CatchUp, Lagging
<1> QED
  BY <1>1, <1>2, <1>3, <1>5, <1>6, <1>7 DEF Lagging

(* The log right after mkfs. *)
LEMMA InitInv == Init => Inv
<1> SUFFICES ASSUME Init PROVE Inv
  OBVIOUS
<1>1. /\ TypeOK /\ OneWriter
      /\ hdr = [seq |-> 0, idx |-> 0] /\ \A l \in EntryLines : view[l] = Zeroed
  BY InitLines
<1>2. Appending /\ LogShape
  BY <1>1, Basics, BoundsAssumption DEF Init, Appending, LogShape, Slots
<1>3. Lagging
  BY <1>1, Basics DEF Init, Lagging
<1>4. Copied /\ AppliedIsLogged
  BY DEF Init, Copied, AppliedIsLogged
<1> QED
  BY <1>1, <1>2, <1>3, <1>4 DEF Inv

(* Steps of the caches, and of the master outside an append. *)
LEMMA QuietStep ==
  ASSUME Inv, LinesTypeOK', OneWriter', SameView, CatchUp,
         UNCHANGED <<todo, clientVars, ncrash>>,
         entry' \in LineContent,
         acked' \in [Slots -> Items \cup {NoItem}],
         \/ UNCHANGED <<pc, entry>>
         \/ pc \in {"idle", "locked", "flush"} /\ pc' \in {"idle", "locked"}
  PROVE  Inv'
<1>1. /\ hdr' = hdr
      /\ \A s \in Slots, p \in Parts : view'[<<s, p>>] = view[<<s, p>>]
      /\ \A s \in Slots : LogEntry(s)' = LogEntry(s)
      /\ Lagging'
  BY LogKept DEF Inv, TypeOK
<1>2. TypeOK'
  BY DEF Inv, TypeOK, clientVars
<1>3. Appending'
  BY <1>1 DEF Inv, Appending
<1>6. LogShape'
  <2> SUFFICES ASSUME NEW s \in Slots, NEW p \in Parts
               PROVE  LogShape!(s, p)'
    BY DEF LogShape
  <2> QED
    BY <1>1, Basics DEF Inv, LogShape
<1>4. Copied'
  <2>1. ASSUME NEW c \in Clients, play[c].pc \in {"copy", "validate"}
        PROVE  play[c].i \in Slots
    BY <2>1, BoundsAssumption, ViewType, Basics
       DEF Inv, Copied, Appending, TypeOK, Logplay, Slots, hdr, Header
  <2> QED
    BY <2>1, <1>1 DEF Inv, Copied, clientVars
<1>5. AppliedIsLogged'
  BY <1>1 DEF Inv, AppliedIsLogged, clientVars
<1> QED
  BY <1>1, <1>2, <1>3, <1>4, <1>5, <1>6 DEF Inv

(* What the proofs below need of the state an append is in. *)
LEMMA HdrFacts ==
  ASSUME Inv
  PROVE  /\ hdr \in Header
         /\ hdr.idx \in Nat
         /\ hdr.seq \in Nat
         /\ pc \in {"copy", "seqnum", "index"} => hdr.idx \in Slots
         /\ \A s \in Slots, p \in Parts : view[<<s, p>>] \in LineContent
BY ViewType, Basics, BoundsAssumption
   DEF Inv, TypeOK, Appending, hdr, Header, Slots, view

(* __famfs_logplay copies and validates only entries below next_index. *)
LEMMA PlayIndex ==
  ASSUME Inv, NEW c \in Clients, play[c].pc \in {"copy", "validate"}
  PROVE  play[c].i \in Slots /\ play[c].i < hdr.idx
<1> DEFINE i == play[c].i
<1>1. i \in Nat
  BY DEF Inv, TypeOK, Logplay
<1>2. i < hdr.idx
  BY DEF Inv, Copied
<1>3. hdr.idx \in Nat /\ hdr.idx <= LastIndex + 1
  BY HdrFacts DEF Inv, Appending
<1> HIDE DEF i
<1>4. i \in Slots /\ i < hdr.idx
  BY <1>1, <1>2, <1>3, BoundsAssumption DEF Slots
<1> QED
  BY <1>4 DEF i

(* The entry handed to famfs_append_log carries the next sequence number.  *)
LEMMA CreationStep ==
  ASSUME Inv, NEW x \in Items, famfs_log_creation(x)
  PROVE  Inv'
<1> USE DEF famfs_log_creation, fccVars, clientVars
<1>1. /\ hdr' = hdr
      /\ view' = view
      /\ \A s \in Slots : LogEntry(s)' = LogEntry(s)
  BY DEF hdr, view, View, LogEntry
<1>2. entry' \in LineContent /\ todo' = Parts
  BY HdrFacts DEF LineContent
<1>3. TypeOK'
  BY <1>2 DEF Inv, TypeOK, LinesTypeOK
<1>4. Appending'
  BY <1>1, HdrFacts, BoundsAssumption
     DEF Inv, Appending, famfs_log_full
<1>5. LogShape'
  <2> SUFFICES ASSUME NEW s \in Slots, NEW p \in Parts
               PROVE  LogShape!(s, p)'
    BY DEF LogShape
  <2> QED
    BY <1>1, <1>2, Basics DEF Inv, LogShape
<1>6. OneWriter' /\ Lagging'
  BY <1>1 DEF Inv, OneWriter, Lagging
<1>7. Copied' /\ AppliedIsLogged'
  BY <1>1 DEF Inv, Copied, AppliedIsLogged
<1> QED
  BY <1>3, <1>4, <1>5, <1>6, <1>7 DEF Inv

(* The memcpy writes to a slot that is still zero for everyone. *)
LEMMA MemcpyStep ==
  ASSUME Inv, NEW p \in Parts, append_memcpy(p)
  PROVE  Inv'
<1> DEFINE l0 == <<hdr.idx, p>>
<1>1. /\ pc = "copy"
      /\ p \in todo
      /\ Store(Master, l0, entry)
      /\ todo' = todo \ {p}
      /\ pc' = IF todo' = {} THEN "seqnum" ELSE "copy"
      /\ UNCHANGED <<entry, acked, play, fs, stubs, nerrs, ncrash>>
  BY DEF append_memcpy, clientVars
<1>2. l0 \in EntryLines /\ l0 \in Lines /\ l0 # HdrLine
  BY <1>1, HdrFacts, Basics
<1>3. entry \in LineContent /\ entry \in Content
  BY DEF Inv, TypeOK, Content
<1>4. /\ LinesTypeOK'
      /\ OneWriter'
      /\ \A k \in Lines : view'[k] = IF k = l0 THEN entry ELSE view[k]
      /\ mem' = mem
      /\ \A c \in Clients : cache'[c] = cache[c]
  <2>1. LinesTypeOK /\ OneWriter
    BY DEF Inv, TypeOK
  <2> QED
    BY <2>1, <1>1, <1>2, <1>3, MasterStore
<1>5. view[l0] = Zeroed
  BY Zenon, <1>1, HdrFacts DEF Inv, LogShape
<1>6. hdr' = hdr
  BY <1>2, <1>4, Basics DEF hdr, view
<1>7. \A s \in Slots, q \in Parts :
        view'[<<s, q>>] = IF s = hdr.idx /\ q = p THEN entry ELSE view[<<s, q>>]
  <2> TAKE s \in Slots, q \in Parts
  <2>1. <<s, q>> = l0 <=> s = hdr.idx /\ q = p
    OBVIOUS
  <2>2. <<s, q>> \in Lines
    BY Basics
  <2> QED
    BY <2>1, <2>2, <1>4
<1>8. \A s \in Slots : s < hdr.idx => LogEntry(s)' = LogEntry(s)
  <2> SUFFICES ASSUME NEW s \in Slots, s < hdr.idx
               PROVE  LogEntry(s)' = LogEntry(s)
    OBVIOUS
  <2>1. s # hdr.idx
    BY HdrFacts DEF Slots
  <2>2. \A q \in Parts : view'[<<s, q>>] = view[<<s, q>>]
    BY <2>1, <1>7
  <2> QED
    BY Zenon, <2>2, LogInView
<1>9. TypeOK'
  BY <1>1, <1>4 DEF Inv, TypeOK
<1>10. Appending'
  BY <1>1, <1>6 DEF Inv, Appending
<1>11. LogShape'
  <2> SUFFICES ASSUME NEW s \in Slots, NEW q \in Parts
               PROVE  LogShape!(s, q)'
    BY DEF LogShape
  <2>1. CASE s # hdr.idx
    BY <2>1, <1>6, <1>7, Basics DEF Inv, LogShape
  <2>2. CASE s = hdr.idx
    BY <2>2, <1>1, <1>6, <1>7, HdrFacts DEF Inv, LogShape
  <2> QED
    BY <2>1, <2>2
<1>12. Lagging'
  <2>1. \A l \in EntryLines : view'[l] = view[l] \/ view[l] = Zeroed
    BY <1>4, <1>5, Basics
  <2>2. Lagging
    BY DEF Inv
  <2>3. \A l \in EntryLines : mem'[l] = Zeroed \/ mem'[l] = view'[l]
    BY Zenon, <2>1, <2>2, <1>4 DEF Lagging
  <2>4. ASSUME NEW c \in Clients, NEW l \in EntryLines
        PROVE  cache'[c][l] = Miss \/ cache'[c][l] = Zeroed \/ cache'[c][l] = view'[l]
    <3>1. cache'[c] = cache[c]
      BY <1>4
    <3>2. cache[c][l] = Miss \/ cache[c][l] = Zeroed \/ cache[c][l] = view[l]
      BY Zenon, <2>2 DEF Lagging
    <3> QED
      BY <3>1, <3>2, <2>1
  <2>5. /\ mem'[HdrLine].idx <= hdr'.idx
        /\ \A c \in Clients :
             cache'[c][HdrLine] # Miss => cache'[c][HdrLine].idx <= hdr'.idx
    BY Zenon, <2>2, <1>4, <1>6 DEF Lagging
  <2> QED
    BY Zenon, <2>3, <2>4, <2>5 DEF Lagging
<1>13. Copied'
  <2>1. ASSUME NEW c \in Clients, play[c].pc \in {"copy", "validate"}, NEW q \in Parts
        PROVE  view'[<<play[c].i, q>>] = view[<<play[c].i, q>>]
    <3>1. play[c].i \in Slots /\ play[c].i < hdr.idx
      BY <2>1, PlayIndex
    <3> QED
      BY <3>1, <1>7, HdrFacts DEF Slots
  <2> QED
    BY <2>1, <1>1, <1>6 DEF Inv, Copied
<1>14. AppliedIsLogged'
  BY <1>1, <1>6, <1>8 DEF Inv, AppliedIsLogged
<1> QED
  BY <1>4, <1>9, <1>10, <1>11, <1>12, <1>13, <1>14 DEF Inv

(* A store to the header moves no line of an entry. *)
LEMMA HeaderStore ==
  ASSUME Inv, NEW v \in Header, Store(Master, HdrLine, v)
  PROVE  /\ LinesTypeOK'
         /\ OneWriter'
         /\ hdr' = v
         /\ \A l \in EntryLines : view'[l] = view[l]
         /\ \A s \in Slots, p \in Parts : view'[<<s, p>>] = view[<<s, p>>]
         /\ \A s \in Slots : LogEntry(s)' = LogEntry(s)
         /\ mem' = mem
         /\ \A c \in Clients : cache'[c] = cache[c]
<1>1. v \in Content
  BY DEF Content
<1>2. /\ LinesTypeOK'
      /\ OneWriter'
      /\ \A k \in Lines : view'[k] = IF k = HdrLine THEN v ELSE view[k]
      /\ mem' = mem
      /\ \A c \in Clients : cache'[c] = cache[c]
  <2>1. LinesTypeOK /\ OneWriter /\ HdrLine \in Lines
    BY Basics DEF Inv, TypeOK
  <2> QED
    BY <2>1, <1>1, MasterStore
<1>3. hdr' = v
  BY <1>2, LogInView, Basics
<1>4. \A l \in EntryLines : view'[l] = view[l]
  BY <1>2, Basics
<1>5. \A s \in Slots, p \in Parts : view'[<<s, p>>] = view[<<s, p>>]
  BY <1>4, Basics
<1>6. \A s \in Slots : LogEntry(s)' = LogEntry(s)
  BY Zenon, <1>5, LogInView
<1> QED
  BY <1>2, <1>3, <1>4, <1>5, <1>6

(* famfs_append_log storing next_seqnum preserves the invariant. *)
LEMMA SeqnumStep ==
  ASSUME Inv, append_next_seqnum
  PROVE  Inv'
<1>1. /\ pc = "seqnum"
      /\ pc' = "index"
      /\ Store(Master, HdrLine, [hdr EXCEPT !.seq = @ + 1])
      /\ UNCHANGED <<entry, todo, acked, play, fs, stubs, nerrs, ncrash>>
  BY DEF append_next_seqnum, clientVars
<1>2. [hdr EXCEPT !.seq = @ + 1] \in Header
  BY HdrFacts DEF Header
<1>3. /\ LinesTypeOK'
      /\ OneWriter'
      /\ hdr'.idx = hdr.idx
      /\ hdr'.seq = hdr.seq + 1
      /\ \A l \in EntryLines : view'[l] = view[l]
      /\ \A s \in Slots, p \in Parts : view'[<<s, p>>] = view[<<s, p>>]
      /\ \A s \in Slots : LogEntry(s)' = LogEntry(s)
      /\ mem' = mem
      /\ \A c \in Clients : cache'[c] = cache[c]
  BY <1>1, <1>2, HeaderStore, HdrFacts DEF Header
<1>4. TypeOK'
  BY <1>1, <1>3 DEF Inv, TypeOK
<1>5. Appending'
  BY <1>1, <1>3, HdrFacts DEF Inv, Appending
<1>6. LogShape'
  <2> SUFFICES ASSUME NEW s \in Slots, NEW p \in Parts
               PROVE  LogShape!(s, p)'
    BY DEF LogShape
  <2> QED
    BY <1>1, <1>3, Basics DEF Inv, LogShape
<1>7. Lagging'
  BY <1>3 DEF Inv, Lagging
<1>8. Copied'
  <2>1. ASSUME NEW c \in Clients, play[c].pc \in {"copy", "validate"}
        PROVE  play[c].i \in Slots
    BY <2>1, PlayIndex
  <2> QED
    BY <2>1, <1>1, <1>3 DEF Inv, Copied
<1>9. AppliedIsLogged'
  BY <1>1, <1>3 DEF Inv, AppliedIsLogged
<1> QED
  BY <1>3, <1>4, <1>5, <1>6, <1>7, <1>8, <1>9 DEF Inv

(* The store to next_index commits the entry: all its lines are in place   *)
(* in the master's view.                                                   *)
LEMMA IndexStep ==
  ASSUME Inv, append_next_index
  PROVE  Inv'
<1>1. /\ pc = "index"
      /\ pc' = "flush"
      /\ Store(Master, HdrLine, [hdr EXCEPT !.idx = @ + 1])
      /\ UNCHANGED <<entry, todo, acked, play, fs, stubs, nerrs, ncrash>>
  BY DEF append_next_index, clientVars
<1>2. [hdr EXCEPT !.idx = @ + 1] \in Header
  BY HdrFacts DEF Header
<1>3. /\ LinesTypeOK'
      /\ OneWriter'
      /\ hdr'.idx = hdr.idx + 1
      /\ hdr'.seq = hdr.seq
      /\ \A l \in EntryLines : view'[l] = view[l]
      /\ \A s \in Slots, p \in Parts : view'[<<s, p>>] = view[<<s, p>>]
      /\ \A s \in Slots : LogEntry(s)' = LogEntry(s)
      /\ mem' = mem
      /\ \A c \in Clients : cache'[c] = cache[c]
  BY <1>1, <1>2, HeaderStore, HdrFacts DEF Header
<1>4. TypeOK'
  BY <1>1, <1>3 DEF Inv, TypeOK
<1>5. Appending'
  BY <1>1, <1>3, HdrFacts, BoundsAssumption DEF Inv, Appending
<1>6. LogShape'
  <2> SUFFICES ASSUME NEW s \in Slots, NEW p \in Parts
               PROVE  LogShape!(s, p)'
    BY DEF LogShape
  <2>1. CASE s < hdr.idx
    <3>1. /\ view[<<s, p>>] = view[<<s, 1>>]
          /\ view[<<s, p>>].seq = s
          /\ view[<<s, p>>].item \in Items
      BY Zenon, <2>1 DEF Inv, LogShape
    <3>2. ~(s > hdr'.idx) /\ s # hdr'.idx
      BY <2>1, <1>3, HdrFacts DEF Slots
    <3>3. view'[<<s, p>>] = view[<<s, p>>] /\ view'[<<s, 1>>] = view[<<s, 1>>]
      BY <1>3, Basics
    <3> QED
      BY <3>1, <3>2, <3>3
  <2>2. CASE s = hdr.idx
    <3>1. view[<<s, p>>] = entry /\ view[<<s, 1>>] = entry
      BY <2>2, <1>1, Basics DEF Inv, LogShape
    <3>2. entry.seq = s /\ entry.item \in Items
      BY <2>2, <1>1 DEF Inv, Appending
    <3>3. ~(s > hdr'.idx) /\ s # hdr'.idx
      BY <2>2, <1>3, HdrFacts
    <3>4. view'[<<s, p>>] = view[<<s, p>>] /\ view'[<<s, 1>>] = view[<<s, 1>>]
      BY <1>3, Basics
    <3> QED
      BY <3>1, <3>2, <3>3, <3>4
  <2>3. CASE s > hdr.idx
    <3>1. view'[<<s, p>>] = Zeroed
      BY Zenon, <2>3, <1>3 DEF Inv, LogShape
    <3>2. ~(s < hdr'.idx)
      BY <2>3, <1>3, HdrFacts DEF Slots
    <3> QED
      BY <3>1, <3>2, <1>1
  <2> QED
    BY <2>1, <2>2, <2>3, HdrFacts DEF Slots
<1>7. Lagging'
  <2>1. hdr.idx <= hdr'.idx
    BY <1>3, HdrFacts
  <2>2. mem[HdrLine].idx \in Nat
    BY DEF Inv, TypeOK, LinesTypeOK, Header
  <2>3. \A c \in Clients : cache[c][HdrLine] # Miss => cache[c][HdrLine].idx \in Nat
    BY Basics DEF Inv, TypeOK, LinesTypeOK, Header
  <2>4. hdr.idx \in Nat /\ hdr'.idx \in Nat
    BY <1>3, HdrFacts
  <2>5. mem'[HdrLine].idx <= hdr'.idx
    <3>1. mem[HdrLine].idx <= hdr.idx /\ mem' = mem
      BY <1>3 DEF Inv, Lagging
    <3> QED
      BY <3>1, <2>1, <2>2, <2>4
  <2>6. ASSUME NEW c \in Clients, cache[c][HdrLine] # Miss
        PROVE  cache[c][HdrLine].idx <= hdr'.idx
    <3>1. cache[c][HdrLine].idx <= hdr.idx
      BY Zenon, <2>6 DEF Inv, Lagging
    <3> QED
      BY <3>1, <2>1, <2>3, <2>4, <2>6
  <2> QED
    BY Zenon, <2>5, <2>6, <1>3 DEF Inv, Lagging
<1>8. Copied'
  <2>1. ASSUME NEW c \in Clients, play[c].pc \in {"copy", "validate"}
        PROVE  play[c].i \in Slots /\ play[c].i < hdr'.idx
    <3>1. play[c].i \in Slots /\ play[c].i < hdr.idx
      BY <2>1, PlayIndex
    <3>2. hdr.idx \in Nat /\ hdr'.idx = hdr.idx + 1
      BY <1>3, HdrFacts
    <3> QED
      BY <3>1, <3>2, BoundsAssumption DEF Slots
  <2> QED
    BY <2>1, <1>1, <1>3 DEF Inv, Copied
<1>9. AppliedIsLogged'
  <2>1. hdr.idx \in Nat /\ hdr'.idx = hdr.idx + 1
    BY <1>3, HdrFacts
  <2>2. \A s \in Slots : s < hdr.idx => s < hdr'.idx
    BY <2>1, BoundsAssumption DEF Slots
  <2>3. AppliedIsLogged /\ UNCHANGED <<fs, stubs>>
    BY <1>1 DEF Inv
  <2>4. \A s \in Slots : LogEntry(s)' = LogEntry(s)
    BY <1>3
  <2> QED
    BY <2>2, <2>3, <2>4 DEF AppliedIsLogged
<1> QED
  BY <1>3, <1>4, <1>5, <1>6, <1>7, <1>8, <1>9 DEF Inv

(* The flush that ends famfs_append_log preserves the invariant. *)
LEMMA FlushStep ==
  ASSUME Inv, append_flush
  PROVE  Inv'
<1>1. LinesTypeOK' /\ OneWriter' /\ SameView /\ CatchUp
  BY MasterFlush DEF append_flush, Inv, TypeOK
<1>2. hdr.idx - 1 \in Slots
  BY HdrFacts, BoundsAssumption DEF append_flush, Inv, Appending, Slots
<1>3. acked' \in [Slots -> Items \cup {NoItem}]
  BY <1>2 DEF append_flush, Inv, TypeOK, LineContent
<1> QED
  BY <1>1, <1>3, QuietStep, Basics DEF append_flush

(* Taking and releasing the lock on the log preserve the invariant. *)
LEMMA SessionStep ==
  ASSUME Inv, famfs_init_locked_log \/ famfs_release_locked_log
  PROVE  Inv'
<1>1. LinesTypeOK' /\ OneWriter' /\ SameView /\ CatchUp
  <2>1. CASE famfs_init_locked_log
    BY <2>1, MasterFlush DEF famfs_init_locked_log, Inv, TypeOK
  <2>2. CASE famfs_release_locked_log
    BY <2>2 DEF famfs_release_locked_log, fccVars, Inv, TypeOK, LinesTypeOK,
                OneWriter, SameView, CatchUp, view, View
  <2> QED
    BY <2>1, <2>2
<1>2. /\ UNCHANGED <<entry, todo, acked, clientVars, ncrash>>
      /\ pc \in {"idle", "locked"} /\ pc' \in {"idle", "locked"}
  BY DEF famfs_init_locked_log, famfs_release_locked_log
<1> QED
  BY <1>1, <1>2, QuietStep DEF Inv, TypeOK

(* Read-ahead, eviction and early write-back preserve the invariant. *)
LEMMA HardwareStep ==
  ASSUME Inv, EarlyWriteBack \/ \E c \in Clients, l \in Lines : ReadAhead(c, l)
  PROVE  Inv'
<1>1. LinesTypeOK' /\ OneWriter' /\ SameView /\ CatchUp
  <2>1. CASE EarlyWriteBack
    <3>1. PICK l \in Lines : Flush(Master, {l})
      BY <2>1 DEF EarlyWriteBack, WriteBack
    <3> QED
      BY <3>1, MasterFlush DEF Inv, TypeOK
  <2>2. ASSUME NEW c \in Clients, NEW l \in Lines, ReadAhead(c, l)
        PROVE  LinesTypeOK' /\ OneWriter' /\ SameView /\ CatchUp
    <3>1. Refetch(c, l)
      BY <2>2 DEF ReadAhead
    <3> QED
      BY <3>1, ClientRefresh DEF Inv, TypeOK
  <2> QED
    BY <2>1, <2>2
<1>2. UNCHANGED <<masterVars, clientVars, ncrash>>
  BY DEF EarlyWriteBack, ReadAhead
<1> QED
  BY <1>1, <1>2, QuietStep DEF masterVars, Inv, TypeOK

(* A step of a client leaves the master and its log alone. *)
LEMMA ClientStep ==
  ASSUME Inv, ClientTypes, Copied', AppliedIsLogged'
  PROVE  Inv'
<1>1. /\ hdr' = hdr
      /\ \A s \in Slots, p \in Parts : view'[<<s, p>>] = view[<<s, p>>]
      /\ Lagging'
  BY LogKept DEF ClientTypes, Inv, TypeOK
<1>2. TypeOK'
  BY DEF ClientTypes, Inv, TypeOK, masterVars
<1>3. Appending'
  BY <1>1 DEF ClientTypes, Inv, Appending, masterVars
<1>4. LogShape'
  <2> SUFFICES ASSUME NEW s \in Slots, NEW p \in Parts
               PROVE  LogShape!(s, p)'
    BY Zenon DEF LogShape
  <2>1. LogShape!(s, p)
    BY Zenon DEF Inv, LogShape
  <2>2. /\ hdr' = hdr /\ view'[<<s, p>>] = view[<<s, p>>]
        /\ view'[<<s, 1>>] = view[<<s, 1>>]
    BY <1>1, Basics
  <2>3. pc' = pc /\ todo' = todo /\ entry' = entry
    BY DEF ClientTypes, masterVars
  <2> QED
    BY <2>1, <2>2, <2>3
<1> QED
  BY <1>1, <1>2, <1>3, <1>4 DEF ClientTypes, Inv

(* Where the logplay of client c stands decides whether its copy is good. *)
LEMMA CopiedKept ==
  ASSUME Inv, SameView, NEW c \in Clients,
         \A d \in Clients : d # c => play'[d] = play[d],
         play'[c].pc \in {"copy", "validate"} =>
           /\ play'[c].i < hdr.idx
           /\ \A p \in Parts : \/ play'[c].le[p] = Zeroed
                               \/ play'[c].le[p] = view[<<play'[c].i, p>>],
         play'[c].pc = "loop" => play'[c].le = Blank
  PROVE  Copied'
<1>1. hdr' = hdr /\ view' = view
  BY LogInView DEF SameView
<1> SUFFICES ASSUME NEW d \in Clients
             PROVE  Copied!(d)'
  BY DEF Copied
<1>2. CASE d = c
  BY <1>1, <1>2
<1>3. CASE d # c
  BY <1>1, <1>3 DEF Inv, Copied
<1> QED
  BY <1>2, <1>3

(* What clients have applied stays logged while the log keeps its entries. *)
LEMMA AppliedKept ==
  ASSUME Inv, SameView, CatchUp, UNCHANGED <<fs, stubs>>
  PROVE  AppliedIsLogged'
<1>1. AppliedIsLogged /\ LinesTypeOK /\ OneWriter /\ Lagging
  BY DEF Inv, TypeOK
<1>2. hdr' = hdr /\ \A s \in Slots : LogEntry(s)' = LogEntry(s)
  BY <1>1, LogKept
<1> QED
  BY Zenon, <1>1, <1>2 DEF AppliedIsLogged

(* famfs_logplay starting on a client preserves the invariant. *)
LEMMA LogplayStep ==
  ASSUME Inv, NEW c \in Clients, famfs_logplay(c)
  PROVE  Inv'
<1> DEFINE base == {acked[s] : s \in Slots} \ {NoItem}
           start == [pc |-> "loop", i |-> 0, todo |-> {}, le |-> Blank,
                     rc |-> "none", base |-> base]
<1>1. /\ play' = [play EXCEPT ![c] = start]
      /\ Invalidate(c, Lines)
      /\ UNCHANGED <<masterVars, fs, stubs, nerrs, ncrash>>
  BY DEF famfs_logplay
<1>2. /\ LinesTypeOK /\ OneWriter
      /\ play \in [Clients -> Logplay]
      /\ fs \in [Clients -> SUBSET [Parts -> LineContent]]
      /\ stubs \in [Clients -> SUBSET [Parts -> LineContent]]
      /\ nerrs \in 0 .. MaxErrors
  BY DEF Inv, TypeOK
<1>3. base \in SUBSET Items
  BY DEF Inv, TypeOK
<1>4. start \in Logplay /\ start.pc = "loop" /\ start.le = Blank
  <2> HIDE DEF base
  <2> QED
    BY <1>3, Basics DEF Logplay
<1> HIDE DEF start
<1>5. LinesTypeOK' /\ OneWriter' /\ SameView /\ CatchUp
  BY <1>1, <1>2, ClientRefresh
<1>6. /\ play' \in [Clients -> Logplay]
      /\ play'[c] = start
      /\ \A d \in Clients : d # c => play'[d] = play[d]
  BY <1>1, <1>2, <1>4
<1>7. Copied'
  BY <1>4, <1>5, <1>6, CopiedKept
<1>8. AppliedIsLogged'
  BY <1>1, <1>5, AppliedKept
<1> QED
  BY <1>1, <1>2, <1>5, <1>6, <1>7, <1>8, ClientStep DEF ClientTypes

(* The loop test of __famfs_logplay preserves the invariant. *)
LEMMA LoopStep ==
  ASSUME Inv, NEW c \in Clients, logplay_loop(c)
  PROVE  Inv'
<1> USE DEF logplay_loop
<1>1. LinesTypeOK' /\ OneWriter' /\ SameView /\ CatchUp
  BY ClientLoad, Basics DEF Inv, TypeOK
<1>2. \A d \in Clients : d # c => play'[d] = play[d]
  BY DEF Inv, TypeOK
<1>3. play[c] \in Logplay
  BY DEF Inv, TypeOK
<1>4. View(c, HdrLine).idx <= hdr.idx
  BY DEF View, Inv, Lagging
<1>5. CASE play[c].i < View(c, HdrLine).idx
  <2>1. play'[c] = [play[c] EXCEPT !.pc = "copy", !.todo = Parts]
    BY <1>5 DEF Inv, TypeOK
  <2>2. /\ play'[c].pc = "copy"
        /\ play'[c].i = play[c].i
        /\ play'[c].le = play[c].le
        /\ play'[c] \in Logplay
    <3> HIDE DEF logplay_loop
    <3> QED
      BY Zenon, <2>1, <1>3 DEF Logplay
  <2>3. play'[c].i < hdr.idx
    BY <2>2, <1>3, <1>4, <1>5, HdrFacts, ViewType, Basics
       DEF Logplay, Header, Inv, TypeOK
  <2>4. \A p \in Parts : play'[c].le[p] = Zeroed
    BY <2>2 DEF Blank, Inv, Copied
  <2>5. Copied'
    BY <2>2, <2>3, <2>4, <1>1, <1>2, CopiedKept
  <2>6. play' \in [Clients -> Logplay]
    BY <2>2, <1>2 DEF Inv, TypeOK
  <2> QED
    BY <2>5, <2>6, <1>1, AppliedKept, ClientStep DEF ClientTypes, Inv, TypeOK
<1>6. CASE ~(play[c].i < View(c, HdrLine).idx)
  <2>1. play'[c] = [play[c] EXCEPT !.pc = "idle",
                                   !.rc = IF play[c].rc = "none"
                                          THEN "ok" ELSE play[c].rc]
    BY <1>6 DEF Inv, TypeOK
  <2>2. play'[c].pc = "idle" /\ play'[c] \in Logplay
    <3> HIDE DEF logplay_loop
    <3> QED
      BY Zenon, <2>1, <1>3 DEF Logplay
  <2>3. Copied'
    BY <2>2, <1>1, <1>2, CopiedKept
  <2>4. play' \in [Clients -> Logplay]
    BY <2>2, <1>2 DEF Inv, TypeOK
  <2> QED
    BY <2>3, <2>4, <1>1, AppliedKept, ClientStep DEF ClientTypes, Inv, TypeOK
<1> QED
  BY <1>5, <1>6

(* A line a client copies is as mkfs left it or as the master sees it. *)
LEMMA CopyStep ==
  ASSUME Inv, NEW c \in Clients, NEW p \in Parts, logplay_copy(c, p)
  PROVE  Inv'
<1> DEFINE l == <<play[c].i, p>>
<1>1. /\ play[c].pc = "copy"
      /\ Load(c, l)
      /\ play' = [play EXCEPT ![c].le[p] = View(c, l),
                              ![c].todo = @ \ {p},
                              ![c].pc = IF play[c].todo = {p}
                                        THEN "validate" ELSE "copy"]
      /\ UNCHANGED <<masterVars, fs, stubs, nerrs, ncrash>>
  BY DEF logplay_copy
<1>2. play[c].i < hdr.idx /\ play[c].i \in Slots
  BY <1>1, HdrFacts, BoundsAssumption
     DEF Inv, Copied, Appending, TypeOK, Logplay, Slots
<1>3. l \in EntryLines /\ l \in Lines
  BY <1>2, Basics
<1>4. LinesTypeOK' /\ OneWriter' /\ SameView /\ CatchUp
  BY <1>1, <1>3, ClientLoad DEF Inv, TypeOK
<1>5. View(c, l) = Zeroed \/ View(c, l) = view[l]
  BY <1>3 DEF View, Inv, Lagging
<1>6. View(c, l) \in LineContent
  BY <1>3, ViewType, Basics DEF Inv, TypeOK
<1>7. \A d \in Clients : d # c => play'[d] = play[d]
  BY <1>1 DEF Inv, TypeOK
<1>8. play[c] \in Logplay
  BY DEF Inv, TypeOK
<1>9. /\ play'[c] \in Logplay
      /\ play'[c].pc \in {"copy", "validate"}
      /\ play'[c].i = play[c].i
      /\ \A q \in Parts :
           play'[c].le[q] = IF q = p THEN View(c, l) ELSE play[c].le[q]
  <2>1. play'[c] = [play[c] EXCEPT !.le[p] = View(c, l), !.todo = @ \ {p},
                                   !.pc = IF play[c].todo = {p}
                                          THEN "validate" ELSE "copy"]
    BY <1>1 DEF Inv, TypeOK
  <2> DEFINE le == [play[c].le EXCEPT ![p] = View(c, l)]
             t == play[c].todo \ {p}
             q0 == IF play[c].todo = {p} THEN "validate" ELSE "copy"
  <2>2. play'[c] = [play[c] EXCEPT !.le = le, !.todo = t, !.pc = q0]
    BY <2>1
  <2>3. /\ le \in [Parts -> LineContent]
        /\ t \in SUBSET Parts
        /\ q0 \in {"copy", "validate"}
    BY <1>6, <1>8 DEF Logplay
  <2>4. \A q \in Parts : le[q] = IF q = p THEN View(c, l) ELSE play[c].le[q]
    BY <1>8 DEF Logplay
  <2> HIDE DEF le, t, q0, l
  <2>5. /\ play'[c] \in Logplay
        /\ play'[c].pc \in {"copy", "validate"}
        /\ play'[c].i = play[c].i
        /\ play'[c].le = le
    BY Zenon, <2>2, <2>3, <1>8 DEF Logplay
  <2> QED
    BY <2>4, <2>5
<1>10. Copied'
  <2>1. \A q \in Parts : \/ play'[c].le[q] = Zeroed
                         \/ play'[c].le[q] = view[<<play[c].i, q>>]
    BY Zenon, <1>1, <1>5, <1>9 DEF Inv, Copied
  <2> QED
    BY <2>1, <1>2, <1>4, <1>7, <1>9, CopiedKept
<1>11. play' \in [Clients -> Logplay]
  BY <1>1, <1>7, <1>9 DEF Inv, TypeOK
<1> QED
  BY <1>1, <1>4, <1>10, <1>11, AppliedKept, ClientStep DEF ClientTypes, Inv, TypeOK

(* A logplay that ends at an invalid entry preserves the invariant. *)
LEMMA InvalidStep ==
  ASSUME Inv, NEW c \in Clients, logplay_invalid(c)
  PROVE  Inv'
<1>1. /\ UNCHANGED <<fccVars, masterVars, fs, stubs, nerrs, ncrash>>
      /\ play' = [play EXCEPT ![c].pc = "idle", ![c].rc = "failed",
                              ![c].le = Blank]
  BY DEF logplay_invalid
<1>2. LinesTypeOK' /\ OneWriter' /\ SameView /\ CatchUp
  BY <1>1 DEF fccVars, Inv, TypeOK, LinesTypeOK, OneWriter, SameView, CatchUp,
              view, View
<1>3. play'[c].pc = "idle" /\ play'[c] \in Logplay
  <2>1. play'[c] = [play[c] EXCEPT !.pc = "idle", !.rc = "failed",
                                   !.le = Blank]
    BY <1>1 DEF Inv, TypeOK
  <2> QED
    BY Zenon, <2>1, Basics DEF Logplay, Inv, TypeOK
<1>4. \A d \in Clients : d # c => play'[d] = play[d]
  BY <1>1 DEF Inv, TypeOK
<1>5. Copied'
  BY <1>2, <1>3, <1>4, CopiedKept
<1>6. play' \in [Clients -> Logplay]
  BY <1>1, <1>3, <1>4 DEF Inv, TypeOK
<1> QED
  BY <1>1, <1>2, <1>5, <1>6, AppliedKept, ClientStep DEF ClientTypes, Inv, TypeOK

(* What passes famfs_validate_log_entry is an entry of the master's log:   *)
(* its lines are not zero, and every other line is the master's.           *)
LEMMA ValidIsLogged ==
  ASSUME Inv, NEW c \in Clients, play[c].pc = "validate",
         famfs_validate_log_entry(play[c].le, play[c].i)
  PROVE  /\ play[c].i \in Slots /\ play[c].i < hdr.idx
         /\ play[c].le = LogEntry(play[c].i)
<1> DEFINE i == play[c].i
           le == play[c].le
<1>1. i < hdr.idx /\ i \in Slots
  BY PlayIndex
<1>2. le \in [Parts -> LineContent]
  BY DEF Inv, TypeOK, Logplay
<1>3. \A p \in Parts : le[p] # Zeroed
  <2>1. le[1].item # NoItem /\ \A p \in Parts : le[p] = le[1]
    BY DEF famfs_validate_log_entry
  <2>2. Zeroed.item = NoItem
    BY DEF Zeroed
  <2> HIDE DEF le
  <2> QED
    BY <2>1, <2>2
<1>4. \A p \in Parts : le[p] = view[<<i, p>>]
  BY <1>3 DEF Inv, Copied
<1>5. le = [p \in Parts |-> view[<<i, p>>]]
  BY Zenon, <1>2, <1>4
<1>6. LogEntry(i) = [p \in Parts |-> view[<<i, p>>]]
  BY Zenon, <1>1, LogInView
<1> QED
  BY Zenon, <1>1, <1>5, <1>6

(* __famfs_logplay instantiating a valid entry preserves the invariant. *)
LEMMA ApplyStep ==
  ASSUME Inv, NEW c \in Clients, logplay_apply(c)
  PROVE  Inv'
<1> DEFINE le == play[c].le
<1>1. /\ play[c].pc = "validate"
      /\ famfs_validate_log_entry(le, play[c].i)
      /\ UNCHANGED <<fccVars, masterVars, ncrash>>
      /\ \/ UNCHANGED fs
         \/ fs' = [fs EXCEPT ![c] = @ \cup {le}]
      /\ \/ UNCHANGED stubs
         \/ stubs' = [stubs EXCEPT ![c] = @ \cup {le}]
      /\ \/ UNCHANGED nerrs
         \/ nerrs < MaxErrors /\ nerrs' = nerrs + 1
  BY DEF logplay_apply
<1>2. LinesTypeOK' /\ OneWriter' /\ SameView /\ CatchUp
  BY Zenon, <1>1 DEF fccVars, Inv, TypeOK, LinesTypeOK, OneWriter, SameView, CatchUp,
              view, View
<1>3. /\ play' \in [Clients -> Logplay]
      /\ play'[c].pc = "loop"
      /\ play'[c].le = Blank
      /\ \A d \in Clients : d # c => play'[d] = play[d]
  <2> DEFINE next == [play EXCEPT ![c].pc = "loop", ![c].i = @ + 1,
                                  ![c].le = Blank]
  <2>1. play' = next \/ play' = [next EXCEPT ![c].rc = "errors"]
    BY DEF logplay_apply
  <2>2. play \in [Clients -> Logplay]
    BY DEF Inv, TypeOK
  <2>3. /\ next \in [Clients -> Logplay]
        /\ next[c].pc = "loop"
        /\ next[c].le = Blank
        /\ \A d \in Clients : d # c => next[d] = play[d]
    <3>1. next[c] = [play[c] EXCEPT !.pc = "loop", !.i = @ + 1, !.le = Blank]
      BY <2>2
    <3>2. play[c] \in Logplay /\ play[c].i + 1 \in Nat
      BY <2>2 DEF Logplay
    <3>3. next[c] \in Logplay /\ next[c].pc = "loop" /\ next[c].le = Blank
      <4> DEFINE n == next[c]
      <4>1. n = [play[c] EXCEPT !.pc = "loop", !.i = play[c].i + 1, !.le = Blank]
        BY <3>1
      <4> HIDE DEF n, next
      <4>2. n \in Logplay /\ n.pc = "loop" /\ n.le = Blank
        BY Zenon, <4>1, <3>2, Basics DEF Logplay
      <4> QED
        BY <4>2 DEF n
    <3> QED
      BY <2>2, <3>3
  <2> HIDE DEF next
  <2>4. CASE play' = [next EXCEPT ![c].rc = "errors"]
    <3>1. play'[c] = [next[c] EXCEPT !.rc = "errors"]
      BY <2>3, <2>4
    <3>2. /\ play'[c] \in Logplay
          /\ play'[c].pc = "loop"
          /\ play'[c].le = Blank
      BY <2>3, <3>1 DEF Logplay
    <3> QED
      BY <2>3, <2>4, <3>2
  <2> QED
    BY <2>1, <2>3, <2>4
<1>4. le \in [Parts -> LineContent]
  BY DEF Inv, TypeOK, Logplay
<1>5. fs' \in [Clients -> SUBSET [Parts -> LineContent]]
  <2>1. fs \in [Clients -> SUBSET [Parts -> LineContent]]
    BY DEF Inv, TypeOK
  <2>2. fs' = fs \/ fs' = [fs EXCEPT ![c] = @ \cup {le}]
    BY <1>1
  <2> HIDE DEF le
  <2> QED
    BY <2>1, <2>2, <1>4
<1>6. stubs' \in [Clients -> SUBSET [Parts -> LineContent]]
  <2>1. stubs \in [Clients -> SUBSET [Parts -> LineContent]]
    BY DEF Inv, TypeOK
  <2>2. stubs' = stubs \/ stubs' = [stubs EXCEPT ![c] = @ \cup {le}]
    BY <1>1
  <2> HIDE DEF le
  <2> QED
    BY <2>1, <2>2, <1>4
<1>7. nerrs' \in 0 .. MaxErrors
  <2>1. nerrs \in 0 .. MaxErrors
    BY DEF Inv, TypeOK
  <2>2. nerrs' = nerrs \/ (nerrs < MaxErrors /\ nerrs' = nerrs + 1)
    BY <1>1
  <2> QED
    BY <2>1, <2>2, BoundsAssumption
<1>8. Copied'
  BY <1>2, <1>3, CopiedKept
<1>9. AppliedIsLogged'
  <2>1. PICK s \in Slots : s < hdr.idx /\ le = LogEntry(s)
    BY <1>1, ValidIsLogged
  <2>2. hdr' = hdr /\ \A t \in Slots : LogEntry(t)' = LogEntry(t)
    <3>1. LinesTypeOK /\ OneWriter /\ Lagging /\ SameView /\ CatchUp
      BY <1>2 DEF Inv, TypeOK
    <3> QED
      BY <3>1, LogKept
  <2>3. \A d \in Clients : fs'[d] \subseteq fs[d] \cup {le}
    <3>1. fs \in [Clients -> SUBSET [Parts -> LineContent]]
      BY DEF Inv, TypeOK
    <3>2. fs' = fs \/ fs' = [fs EXCEPT ![c] = @ \cup {le}]
      BY <1>1
    <3> HIDE DEF le
    <3> QED
      BY <3>1, <3>2
  <2>4. \A d \in Clients : stubs'[d] \subseteq stubs[d] \cup {le}
    <3>1. stubs \in [Clients -> SUBSET [Parts -> LineContent]]
      BY DEF Inv, TypeOK
    <3>2. stubs' = stubs \/ stubs' = [stubs EXCEPT ![c] = @ \cup {le}]
      BY <1>1
    <3> HIDE DEF le
    <3> QED
      BY <3>1, <3>2
  <2>5. AppliedIsLogged
    BY DEF Inv
  <2> HIDE DEF le
  <2>6. ASSUME NEW d \in Clients, NEW e \in fs'[d] \cup stubs'[d]
        PROVE  \E t \in Slots : t < hdr.idx /\ e = LogEntry(t)
    <3>1. e \in fs[d] \cup stubs[d] \/ e = le
      BY <2>3, <2>4, <2>6
    <3> QED
      BY <3>1, <2>1, <2>5, <2>6 DEF AppliedIsLogged
  <2> QED
    BY <2>2, <2>6 DEF AppliedIsLogged
<1> QED
  BY <1>1, <1>2, <1>3, <1>5, <1>6, <1>7, <1>8, <1>9, ClientStep DEF ClientTypes

(* The invariant holds of every step of the log. *)
LEMMA NextInv == Inv /\ [Next]_vars => Inv'
<1> SUFFICES ASSUME Inv, [Next]_vars PROVE Inv'
  OBVIOUS
<1>1. CASE famfs_init_locked_log \/ famfs_release_locked_log
  BY <1>1, SessionStep
<1>2. ASSUME NEW x \in Items, famfs_log_creation(x) PROVE Inv'
  BY <1>2, CreationStep
<1>3. CASE famfs_append_log
  BY <1>3, MemcpyStep, SeqnumStep, IndexStep, FlushStep DEF famfs_append_log
<1>4. ASSUME NEW c \in Clients, famfs_logplay(c) \/ __famfs_logplay(c)
      PROVE  Inv'
  BY <1>4, LogplayStep, LoopStep, CopyStep, InvalidStep, ApplyStep
     DEF __famfs_logplay
<1>5. CASE EarlyWriteBack \/ \E c \in Clients, l \in Lines : ReadAhead(c, l)
  BY <1>5, HardwareStep
<1>6. CASE UNCHANGED vars
  <2>1. view' = view /\ hdr' = hdr /\ \A s : LogEntry(s)' = LogEntry(s)
    <3>1. mem' = mem /\ cache' = cache
      BY Zenon, <1>6 DEF vars
    <3> QED
      BY Zenon, <3>1 DEF view, View, hdr, LogEntry
  <2>2. TypeOK'
    BY Zenon, <1>6 DEF vars, Inv, TypeOK, LinesTypeOK
  <2>3. OneWriter' /\ Appending'
    <3>1. OneWriter /\ Appending
      BY DEF Inv
    <3> QED
      BY Zenon, <3>1, <1>6, <2>1 DEF vars, OneWriter, Appending
  <2>4. LogShape'
    BY Zenon, <1>6, <2>1 DEF vars, Inv, LogShape
  <2>5. Lagging' /\ Copied'
    <3>1. Lagging /\ Copied
      BY DEF Inv
    <3> QED
      BY Zenon, <3>1, <1>6, <2>1 DEF vars, Lagging, Copied
  <2>6. AppliedIsLogged'
    BY Zenon, <1>6, <2>1 DEF vars, Inv, AppliedIsLogged
  <2> QED
    BY <2>2, <2>3, <2>4, <2>5, <2>6 DEF Inv
<1> QED
  BY <1>1, <1>2, <1>3, <1>4, <1>5, <1>6 DEF Next

(* Inv, which ties the log on the master to what famfs_append_log has     *)
(* stored so far and what a logplay has copied, is an invariant. *)
THEOREM Invariant == Spec => []Inv
BY InitInv, NextInv, PTL DEF Spec

(* Type correctness of the log, its caches and its readers, for any number *)
(* of clients, slots and lines per entry.                                  *)
THEOREM TypeCorrect == Spec => []TypeOK
<1>1. Inv => TypeOK
  BY DEF Inv
<1> QED
  BY <1>1, Invariant, PTL

(* As long as the master does not crash, a client never instantiates what  *)
(* is not, line for line, in the master's log: the checks of               *)
(* famfs_validate_log_entry make up for every order in which the lines of  *)
(* an append can become visible.                                           *)
THEOREM AppliedOnlyLogged == Spec => []AppliedIsLogged
<1>1. Inv => AppliedIsLogged
  BY DEF Inv
<1> QED
  BY <1>1, Invariant, PTL

-----------------------------------------------------------------------------
(***************************************************************************)
(* MetaLog implements SharedLog: the log as the master sees it is an       *)
(* append-only sequence of whole entries, and clients instantiate entries  *)
(* of that sequence.  The commit point is the store to next_index.         *)
(***************************************************************************)
(* The entries the master sees do not change below next_index. *)

(* Slot k - 1 holds the k-th entry of the log. *)
LEMMA SlotOf ==
  ASSUME Inv, NEW k \in 1 .. hdr.idx
  PROVE  k - 1 \in Slots /\ k - 1 < hdr.idx
BY HdrFacts, BoundsAssumption DEF Inv, Appending, Slots

(* The log as the master sees it is the same when its header and entries are. *)
LEMMA SameLogView ==
  ASSUME Inv, LogSame
  PROVE  LogView' = LogView
<1>1. LogView' = [k \in 1 .. hdr'.idx |-> LogEntry(k - 1)']
  BY DEF LogView
<1>2. \A k \in 1 .. hdr.idx : LogEntry(k - 1)' = LogEntry(k - 1)
  BY SlotOf DEF LogSame
<1> QED
  BY <1>1, <1>2 DEF LogView, LogSame

(* Steps that leave both the log and the name spaces alone. *)
LEMMA Stutter ==
  ASSUME Inv, LogSame, UNCHANGED <<fs, stubs>>
  PROVE  UNCHANGED <<LogView, Names>>
BY SameLogView DEF Names

(* The store to next_index appends one whole entry. *)
LEMMA IndexCommits ==
  ASSUME Inv, append_next_index
  PROVE  SL!Commit
<1>1. /\ pc = "index"
      /\ Store(Master, HdrLine, [hdr EXCEPT !.idx = @ + 1])
      /\ UNCHANGED <<fs, stubs>>
  BY DEF append_next_index, clientVars
<1>2. [hdr EXCEPT !.idx = @ + 1] \in Header
  BY HdrFacts DEF Header
<1>3. /\ hdr'.idx = hdr.idx + 1
      /\ \A s \in Slots : LogEntry(s)' = LogEntry(s)
  BY <1>1, <1>2, HeaderStore, HdrFacts DEF Header
<1> DEFINE n == hdr.idx
           e == LogEntry(n)
<1>4. n \in Slots /\ n \in Nat
  BY <1>1, HdrFacts
<1>5. e \in WholeEntry
  <2>1. e = [p \in Parts |-> view[<<n, p>>]]
    BY Zenon, <1>4, LogInView
  <2>2. \A p \in Parts : view[<<n, p>>] = entry
    BY Zenon, <1>1, <1>4 DEF Inv, LogShape
  <2>3. entry.seq = n /\ entry.item \in Items /\ entry \in LineContent
    BY <1>1 DEF Inv, Appending, TypeOK
  <2>4. entry = [seq |-> n, item |-> entry.item]
    BY <2>3 DEF LineContent
  <2>5. e = [p \in Parts |-> [seq |-> n, item |-> entry.item]]
    BY <2>1, <2>2, <2>4
  <2> QED
    BY <2>3, <2>5, <1>4 DEF WholeEntry
<1>6. LogView = [k \in 1 .. n |-> LogEntry(k - 1)]
  BY DEF LogView
<1>7. LogView' = [k \in 1 .. n + 1 |-> LogEntry(k - 1)]
  <2>1. LogView' = [k \in 1 .. hdr'.idx |-> LogEntry(k - 1)']
    BY DEF LogView
  <2>2. \A k \in 1 .. n + 1 : k - 1 \in Slots
    BY <1>4, BoundsAssumption DEF Slots
  <2>3. \A k \in 1 .. n + 1 : LogEntry(k - 1)' = LogEntry(k - 1)
    BY <2>2, <1>3
  <2> QED
    BY <2>1, <2>3, <1>3
<1>8. Len(LogView) = n /\ Len(LogView') = n + 1
  BY <1>4, <1>6, <1>7
<1>9. LogView' = Append(LogView, e)
  <2> DEFINE f(k) == LogEntry(k - 1)
  <2>1. LogView = [k \in 1 .. n |-> f(k)] /\ LogView' = [k \in 1 .. n + 1 |-> f(k)]
    BY <1>6, <1>7
  <2>2. e = f(n + 1)
    BY <1>4
  <2> HIDE DEF n, f, e
  <2> QED
    BY <2>1, <2>2, <1>4
<1>10. Names' = Names
  BY <1>1 DEF Names
<1> QED
  BY <1>4, <1>5, <1>8, <1>9, <1>10 DEF SL!Commit

(* The memcpy touches no committed entry. *)
LEMMA MemcpyKeepsLog ==
  ASSUME Inv, NEW p \in Parts, append_memcpy(p)
  PROVE  LogSame
<1> DEFINE l0 == <<hdr.idx, p>>
<1>1. pc = "copy" /\ Store(Master, l0, entry)
  BY DEF append_memcpy
<1>2. hdr.idx \in Slots /\ l0 \in Lines /\ l0 # HdrLine
  BY <1>1, HdrFacts, Basics
<1>3. entry \in LineContent /\ entry \in Content
  BY DEF Inv, TypeOK, Content
<1>4. \A k \in Lines : view'[k] = IF k = l0 THEN entry ELSE view[k]
  BY <1>1, <1>2, <1>3, MasterStore DEF Inv, TypeOK
<1>5. hdr' = hdr
  BY <1>2, <1>4, LogInView, Basics
<1>6. ASSUME NEW s \in Slots, s < hdr.idx
      PROVE  LogEntry(s)' = LogEntry(s)
  <2>1. \A q \in Parts : <<s, q>> # l0 /\ <<s, q>> \in Lines
    BY <1>6, HdrFacts, Basics DEF Slots
  <2>2. \A q \in Parts : view'[<<s, q>>] = view[<<s, q>>]
    BY <2>1, <1>4
  <2> QED
    BY Zenon, <2>2, LogInView
<1> QED
  BY <1>5, <1>6 DEF LogSame

(* What a client instantiates is an entry of the log. *)
LEMMA ApplyPlays ==
  ASSUME Inv, NEW c \in Clients, logplay_apply(c)
  PROVE  SL!Play(c) \/ UNCHANGED <<LogView, Names>>
<1> DEFINE le == play[c].le
<1>1. /\ play[c].pc = "validate"
      /\ famfs_validate_log_entry(le, play[c].i)
      /\ UNCHANGED fccVars
      /\ \/ UNCHANGED <<fs, stubs>>
         \/ fs' = [fs EXCEPT ![c] = @ \cup {le}] /\ UNCHANGED stubs
         \/ stubs' = [stubs EXCEPT ![c] = @ \cup {le}] /\ UNCHANGED fs
  BY DEF logplay_apply
<1>2. LogSame
  BY <1>1 DEF LogSame, fccVars, hdr, LogEntry, View
<1>3. LogView' = LogView
  BY <1>2, SameLogView
<1>4. PICK s \in Slots : s < hdr.idx /\ le = LogEntry(s)
  BY Zenon, <1>1, ValidIsLogged
<1>5. s + 1 \in 1 .. hdr.idx /\ LogView[s + 1] = le
  BY <1>4, HdrFacts DEF LogView, Slots
<1>6. Len(LogView) = hdr.idx
  BY HdrFacts DEF LogView
<1>7. UNCHANGED <<fs, stubs>> \/ Names' = [Names EXCEPT ![c] = @ \cup {le}]
  <2> HIDE DEF le
  <2>1. fs \in [Clients -> SUBSET [Parts -> LineContent]]
        /\ stubs \in [Clients -> SUBSET [Parts -> LineContent]]
    BY DEF Inv, TypeOK
  <2>2. CASE fs' = [fs EXCEPT ![c] = @ \cup {le}] /\ UNCHANGED stubs
    BY Zenon, <2>1, <2>2 DEF Names
  <2>3. CASE stubs' = [stubs EXCEPT ![c] = @ \cup {le}] /\ UNCHANGED fs
    BY Zenon, <2>1, <2>3 DEF Names
  <2> QED
    BY <1>1, <2>2, <2>3
<1>8. CASE Names'[c] = Names[c]
  <2>1. Names' = Names
    BY Zenon, <1>7, <1>8 DEF Names
  <2> QED
    BY <2>1, <1>3
<1>9. CASE Names'[c] # Names[c]
  <2>1. Names' = [Names EXCEPT ![c] = @ \cup {LogView[s + 1]}]
    BY <1>5, <1>7, <1>9 DEF Names
  <2> QED
    BY Zenon, <2>1, <1>3, <1>5, <1>6, <1>9 DEF SL!Play
<1> QED
  BY <1>8, <1>9

(* The store to next_index is the only step that changes the log below it. *)
LEMMA LogMoves ==
  ASSUME Inv, [Next]_vars
  PROVE  LogSame \/ append_next_index
<1>1. ASSUME SameView, CatchUp PROVE LogSame
  BY <1>1, LogKept DEF LogSame, Inv, TypeOK
<1>2. ASSUME UNCHANGED fccVars PROVE LogSame
  BY <1>2 DEF LogSame, fccVars, hdr, LogEntry, View
<1>3. CASE famfs_init_locked_log
  BY <1>1, <1>3, MasterFlush DEF famfs_init_locked_log, Inv, TypeOK
<1>4. ASSUME NEW x \in Items, famfs_log_creation(x) PROVE LogSame
  BY <1>2, <1>4 DEF famfs_log_creation
<1>5. ASSUME NEW p \in Parts, append_memcpy(p) PROVE LogSame
  BY <1>5, MemcpyKeepsLog
<1>6. CASE append_next_seqnum
  <2>1. [hdr EXCEPT !.seq = @ + 1] \in Header
    BY HdrFacts DEF Header
  <2> QED
    BY <1>6, <2>1, HeaderStore, HdrFacts
       DEF append_next_seqnum, LogSame, Header
<1>7. CASE append_flush
  BY <1>1, <1>7, MasterFlush DEF append_flush, Inv, TypeOK
<1>8. CASE famfs_release_locked_log
  BY <1>2, <1>8 DEF famfs_release_locked_log
<1>9. ASSUME NEW c \in Clients, famfs_logplay(c) PROVE LogSame
  BY <1>1, <1>9, ClientRefresh DEF famfs_logplay, Inv, TypeOK
<1>10. ASSUME NEW c \in Clients, logplay_loop(c) PROVE LogSame
  BY <1>1, <1>10, ClientLoad, Basics DEF logplay_loop, Inv, TypeOK
<1>11. ASSUME NEW c \in Clients, NEW p \in Parts, logplay_copy(c, p)
       PROVE  LogSame
  <2>1. play[c].i \in Slots
    BY <1>11, PlayIndex DEF logplay_copy
  <2>2. <<play[c].i, p>> \in Lines
    BY <2>1, Basics
  <2> QED
    BY <1>1, <1>11, <2>2, ClientLoad DEF logplay_copy, Inv, TypeOK
<1>12. ASSUME NEW c \in Clients, logplay_invalid(c) \/ logplay_apply(c)
       PROVE  LogSame
  BY <1>2, <1>12 DEF logplay_invalid, logplay_apply
<1>13. CASE EarlyWriteBack
  <2>1. PICK l \in Lines : Flush(Master, {l})
    BY <1>13 DEF EarlyWriteBack, WriteBack
  <2> QED
    BY <1>1, <2>1, MasterFlush DEF Inv, TypeOK
<1>14. ASSUME NEW c \in Clients, NEW l \in Lines, ReadAhead(c, l)
       PROVE  LogSame
  <2>1. Refetch(c, l)
    BY <1>14 DEF ReadAhead
  <2> QED
    BY <1>1, <2>1, ClientRefresh DEF Inv, TypeOK
<1>15. CASE UNCHANGED vars
  BY <1>2, <1>15 DEF vars, fccVars
<1> QED
  BY <1>3, <1>4, <1>5, <1>6, <1>7, <1>8, <1>9, <1>10, <1>11, <1>12, <1>13,
     <1>14, <1>15
     DEF Next, famfs_append_log, __famfs_logplay

(* Applying an entry is the only step that changes a name space. *)
LEMMA NamesMove ==
  ASSUME [Next]_vars
  PROVE  \/ UNCHANGED <<fs, stubs, nerrs>>
         \/ \E c \in Clients : logplay_apply(c)
<1>1. CASE \/ famfs_init_locked_log \/ famfs_release_locked_log
           \/ \E x \in Items : famfs_log_creation(x)
           \/ EarlyWriteBack
           \/ \E c \in Clients, l \in Lines : ReadAhead(c, l)
  BY <1>1 DEF famfs_init_locked_log, famfs_release_locked_log,
              famfs_log_creation, EarlyWriteBack, ReadAhead, clientVars
<1>2. CASE famfs_append_log
  BY <1>2, Zenon DEF famfs_append_log, append_memcpy, append_next_seqnum,
              append_next_index, append_flush, clientVars
<1>3. ASSUME NEW c \in Clients,
             \/ famfs_logplay(c) \/ logplay_loop(c)
             \/ \E p \in Parts : logplay_copy(c, p)
             \/ logplay_invalid(c)
      PROVE  UNCHANGED <<fs, stubs, nerrs>>
  BY <1>3, Zenon DEF famfs_logplay, logplay_loop, logplay_copy, logplay_invalid
<1>4. CASE UNCHANGED vars
  BY <1>4 DEF vars
<1> QED
  BY <1>1, <1>2, <1>3, <1>4 DEF Next, __famfs_logplay

(* Every step of the log is a step of SharedLog or changes none of it. *)
LEMMA StepRefines ==
  ASSUME Inv, [Next]_vars
  PROVE  [SL!Next]_<<LogView, Names>>
<1>1. CASE append_next_index
  BY <1>1, IndexCommits DEF SL!Next
<1>2. ASSUME NEW c \in Clients, logplay_apply(c)
      PROVE  SL!Next \/ UNCHANGED <<LogView, Names>>
  BY <1>2, ApplyPlays DEF SL!Next
<1>3. CASE LogSame /\ UNCHANGED <<fs, stubs>>
  BY <1>3, Stutter
<1> QED
  BY <1>1, <1>2, <1>3, LogMoves, NamesMove

(* The log and its replay implement an append-only log that clients play   *)
(* entry by entry, whatever the caches do.                                 *)
THEOREM LogImplementsSharedLog == Spec => ImplementsSharedLog
<1>1. Init => SL!Init
  <2> SUFFICES ASSUME Init PROVE SL!Init
    OBVIOUS
  <2>1. hdr = [seq |-> 0, idx |-> 0]
    BY Basics DEF Init, hdr, View
  <2>2. LogView = <<>>
    BY <2>1 DEF LogView
  <2>3. Names = [c \in Clients |-> {}]
    BY DEF Init, Names
  <2> QED
    BY <2>2, <2>3 DEF SL!Init
<1>2. Inv /\ [Next]_vars => [SL!Next]_<<LogView, Names>>
  BY StepRefines
<1> QED
  BY <1>1, <1>2, Invariant, PTL DEF Spec, ImplementsSharedLog, SL!Spec
-----------------------------------------------------------------------------
(***************************************************************************)
(* PrefixInv is inductive while the master does not crash.                 *)
(***************************************************************************)

(* next_index only grows, over a log that does not change below it. *)
LEMMA LogGrows ==
  ASSUME Inv, [Next]_vars
  PROVE  /\ hdr.idx \in Nat /\ hdr'.idx \in Nat /\ hdr.idx <= hdr'.idx
         /\ \A s \in Slots : s < hdr.idx => LogEntry(s)' = LogEntry(s)
<1>1. hdr.idx \in Nat /\ hdr \in Header
  BY HdrFacts
<1>2. CASE LogSame
  BY <1>1, <1>2 DEF LogSame
<1>3. CASE append_next_index
  <2>1. Store(Master, HdrLine, [hdr EXCEPT !.idx = @ + 1])
    BY <1>3 DEF append_next_index
  <2>2. [hdr EXCEPT !.idx = @ + 1] \in Header
    BY <1>1 DEF Header
  <2>3. /\ hdr' = [hdr EXCEPT !.idx = @ + 1]
        /\ \A s \in Slots : LogEntry(s)' = LogEntry(s)
    BY <2>1, <2>2, HeaderStore
  <2> QED
    BY <1>1, <2>3 DEF Header
<1> QED
  BY <1>2, <1>3, LogMoves

(* While no append is entered, its item stays new to the log. *)
LEMMA DifferKept ==
  ASSUME Inv, ItemsDiffer, LogSame,
         pc' \in {"copy", "seqnum", "index"} =>
           pc \in {"copy", "seqnum", "index"} /\ entry' = entry
  PROVE  ItemsDiffer'
<1>1. hdr'.idx = hdr.idx
  BY DEF LogSame
<1>2. \A s \in Slots : s < hdr.idx => LogEntry(s)' = LogEntry(s)
  BY DEF LogSame
<1>3. hdr.idx \in Nat
  BY HdrFacts
<1>4. \A s, t \in Slots : s < t /\ t < hdr.idx => s < hdr.idx
  BY <1>3 DEF Slots
<1>5. \A s, t \in Slots : s < t /\ t < hdr.idx =>
        LogEntry(s)'[1].item # LogEntry(t)'[1].item
  BY Zenon, <1>2, <1>4 DEF ItemsDiffer
<1>6. pc' \in {"copy", "seqnum", "index"} =>
        \A s \in Slots : s < hdr.idx => LogEntry(s)'[1].item # entry'.item
  BY Zenon, <1>2 DEF ItemsDiffer
<1> QED
  BY Zenon, <1>1, <1>5, <1>6 DEF ItemsDiffer

(* The creator of an item has looked for it below next_index. *)
LEMMA DifferCreation ==
  ASSUME Inv, ItemsDiffer, LogSame, NEW x \in Items, famfs_log_creation(x)
  PROVE  ItemsDiffer'
<1>1. /\ \A s \in Slots : s < hdr.idx => LogEntry(s)[1].item # x
      /\ entry' = [seq |-> hdr.seq, item |-> x]
  BY DEF famfs_log_creation
<1>2. entry'.item = x
  BY <1>1
<1>3. hdr'.idx = hdr.idx
  BY DEF LogSame
<1>4. \A s \in Slots : s < hdr.idx => LogEntry(s)' = LogEntry(s)
  BY DEF LogSame
<1>5. \A s, t \in Slots : s < t /\ t < hdr.idx => s < hdr.idx
  BY HdrFacts DEF Slots
<1>6. \A s, t \in Slots : s < t /\ t < hdr.idx =>
        LogEntry(s)'[1].item # LogEntry(t)'[1].item
  BY Zenon, <1>4, <1>5 DEF ItemsDiffer
<1>7. \A s \in Slots : s < hdr.idx => LogEntry(s)'[1].item # entry'.item
  BY Zenon, <1>1, <1>2, <1>4
<1> QED
  BY Zenon, <1>3, <1>6, <1>7 DEF ItemsDiffer

(* The store to next_index commits the item that was looked for. *)
LEMMA DifferIndex ==
  ASSUME Inv, ItemsDiffer, append_next_index
  PROVE  ItemsDiffer'
<1>1. /\ pc = "index"
      /\ pc' = "flush"
      /\ Store(Master, HdrLine, [hdr EXCEPT !.idx = @ + 1])
  BY DEF append_next_index
<1>2. hdr.idx \in Nat /\ hdr \in Header /\ hdr.idx \in Slots
  BY <1>1, HdrFacts
<1>3. [hdr EXCEPT !.idx = @ + 1] \in Header
  BY <1>2 DEF Header
<1>4. /\ hdr'.idx = hdr.idx + 1
      /\ \A s \in Slots : LogEntry(s)' = LogEntry(s)
  BY <1>1, <1>2, <1>3, HeaderStore DEF Header
<1>5. LogEntry(hdr.idx)[1] = entry
  <2>1. view[<<hdr.idx, 1>>] = entry
    BY <1>1, <1>2, Basics DEF Inv, LogShape
  <2> QED
    BY <2>1, <1>2, LogInView, Basics
<1>6. ASSUME NEW s \in Slots, NEW t \in Slots, s < t, t < hdr'.idx
      PROVE  LogEntry(s)[1].item # LogEntry(t)[1].item
  <2>1. s < hdr.idx /\ (t < hdr.idx \/ t = hdr.idx)
    BY <1>2, <1>4, <1>6 DEF Slots
  <2>2. CASE t < hdr.idx
    BY Zenon, <2>2, <1>6 DEF ItemsDiffer
  <2>3. CASE t = hdr.idx
    BY Zenon, <2>1, <2>3, <1>1, <1>5 DEF ItemsDiffer
  <2> QED
    BY <2>1, <2>2, <2>3
<1>7. pc' \notin {"copy", "seqnum", "index"}
  BY <1>1
<1> QED
  BY Zenon, <1>4, <1>6, <1>7 DEF ItemsDiffer

(* No item is logged twice. *)
LEMMA DifferStep ==
  ASSUME Inv, ItemsDiffer, [Next]_vars
  PROVE  ItemsDiffer'
<1>1. CASE append_next_index
  BY <1>1, DifferIndex
<1>2. CASE LogSame
  <2>1. ASSUME NEW x \in Items, famfs_log_creation(x) PROVE ItemsDiffer'
    BY <1>2, <2>1, DifferCreation
  <2>2. CASE \/ famfs_init_locked_log \/ famfs_release_locked_log
             \/ append_next_index \/ append_flush
    <3>1. pc' \notin {"copy", "seqnum", "index"}
      BY <2>2 DEF famfs_init_locked_log, famfs_release_locked_log,
                  append_next_index, append_flush
    <3> QED
      BY <1>2, <3>1, DifferKept
  <2>3. CASE append_next_seqnum \/ \E p \in Parts : append_memcpy(p)
    <3>1. pc \in {"copy", "seqnum", "index"} /\ entry' = entry
      BY <2>3 DEF append_next_seqnum, append_memcpy
    <3> QED
      BY <1>2, <3>1, DifferKept
  <2>4. ASSUME UNCHANGED <<pc, entry>> PROVE ItemsDiffer'
    BY <1>2, <2>4, DifferKept
  <2>5. ASSUME NEW c \in Clients, famfs_logplay(c) \/ __famfs_logplay(c)
        PROVE  UNCHANGED <<pc, entry>>
    BY <2>5 DEF famfs_logplay, __famfs_logplay, logplay_loop, logplay_copy,
                logplay_invalid, logplay_apply, masterVars
  <2>6. CASE EarlyWriteBack \/ \E c \in Clients, l \in Lines : ReadAhead(c, l)
    BY <2>4, <2>6 DEF EarlyWriteBack, ReadAhead, masterVars
  <2>7. CASE UNCHANGED vars
    BY <2>4, <2>7 DEF vars
  <2> QED
    BY <2>1, <2>2, <2>3, <2>4, <2>5, <2>6, <2>7 DEF Next, famfs_append_log
<1> QED
  BY <1>1, <1>2, LogMoves

(* A prefix of the log stays one. *)
LEMMA PrefixKept ==
  ASSUME Inv, [Next]_vars, NEW n \in 0 .. hdr.idx
  PROVE  /\ n \in 0 .. hdr'.idx
         /\ \A s \in 0 .. (n - 1) : LogEntry(s)' = LogEntry(s)
         /\ {LogEntry(s)' : s \in 0 .. (n - 1)} = {LogEntry(s) : s \in 0 .. (n - 1)}
<1>1. n \in 0 .. hdr'.idx
  BY LogGrows
<1>2. \A s \in 0 .. (n - 1) : s \in Slots /\ s < hdr.idx
  BY LogGrows, BoundsAssumption DEF Inv, Appending, Slots
<1>3. \A s \in 0 .. (n - 1) : LogEntry(s)' = LogEntry(s)
  BY <1>2, LogGrows
<1> QED
  BY <1>1, <1>3

(* Between two entries the loop index of a logplay does not move. *)
LEMMA IndexMoves ==
  ASSUME Inv, [Next]_vars, NEW d \in Clients, ~logplay_apply(d),
         play'[d].pc # "idle"
  PROVE  \/ play'[d].i = 0
         \/ play[d].pc # "idle" /\ play'[d].i = play[d].i
<1>1. play \in [Clients -> Logplay] /\ play[d] \in Logplay
  BY DEF Inv, TypeOK
<1>2. ASSUME play' = play PROVE play[d].pc # "idle" /\ play'[d].i = play[d].i
  BY <1>2
<1>3. CASE \/ famfs_init_locked_log \/ famfs_release_locked_log
           \/ \E x \in Items : famfs_log_creation(x)
           \/ EarlyWriteBack
           \/ \E c \in Clients, l \in Lines : ReadAhead(c, l)
  BY <1>2, <1>3 DEF famfs_init_locked_log, famfs_release_locked_log,
              famfs_log_creation, EarlyWriteBack, ReadAhead, clientVars
<1>4. CASE famfs_append_log
  BY <1>2, <1>4 DEF famfs_append_log, append_memcpy, append_next_seqnum,
              append_next_index, append_flush, clientVars
<1>5. ASSUME NEW c \in Clients, c # d, famfs_logplay(c) \/ __famfs_logplay(c)
      PROVE  play[d].pc # "idle" /\ play'[d].i = play[d].i
  <2>1. play'[d] = play[d]
    BY <1>1, <1>5 DEF famfs_logplay, __famfs_logplay, logplay_loop,
                      logplay_copy, logplay_invalid, logplay_apply
  <2> QED
    BY <2>1
<1>6. CASE famfs_logplay(d)
  BY <1>1, <1>6 DEF famfs_logplay
<1>7. CASE logplay_loop(d)
  <2>1. play[d].pc = "loop"
    BY <1>7 DEF logplay_loop
  <2>2. play'[d].i = play[d].i
    BY <1>1, <1>7 DEF logplay_loop, Logplay
  <2> QED
    BY <2>1, <2>2
<1>8. ASSUME NEW p \in Parts, logplay_copy(d, p)
      PROVE  play[d].pc # "idle" /\ play'[d].i = play[d].i
  <2>1. play[d].pc = "copy"
    BY <1>8 DEF logplay_copy
  <2>2. play'[d].i = play[d].i
    BY <1>1, <1>8 DEF logplay_copy, Logplay
  <2> QED
    BY <2>1, <2>2
<1>9. CASE logplay_invalid(d)
  <2>1. play[d].pc = "validate"
    BY <1>9 DEF logplay_invalid
  <2>2. play'[d].i = play[d].i
    BY <1>1, <1>9 DEF logplay_invalid, Logplay
  <2> QED
    BY <2>1, <2>2
<1>10. CASE UNCHANGED vars
  BY <1>2, <1>10 DEF vars
<1> QED
  BY <1>3, <1>4, <1>5, <1>6, <1>7, <1>8, <1>9, <1>10 DEF Next, __famfs_logplay

(* Applying entry i to a prefix that reaches up to i extends it by that    *)
(* entry; applying it to a longer one finds the name there.                *)
LEMMA PrefixApply ==
  ASSUME Inv, ItemsDiffer, [Next]_vars, NEW c \in Clients, logplay_apply(c),
         nerrs = 0, nerrs' = 0, stubs[c] = {},
         NEW n \in 0 .. hdr.idx, IsPrefix(c, n)
  PROVE  stubs'[c] = {} /\ \E m \in 0 .. hdr'.idx : IsPrefix(c, m)'
<1> DEFINE le == play[c].le
           i == play[c].i
           next == [play EXCEPT ![c].pc = "loop", ![c].i = @ + 1,
                                ![c].le = Blank]
<1>1. /\ play[c].pc = "validate"
      /\ famfs_validate_log_entry(le, i)
      /\ \/ Exists(c, le) /\ UNCHANGED fs
         \/ ~Exists(c, le) /\ fs' = [fs EXCEPT ![c] = @ \cup {le}]
      /\ play' = next
      /\ UNCHANGED stubs
  BY DEF logplay_apply
<1>2. /\ play \in [Clients -> Logplay] /\ play[c] \in Logplay
      /\ fs \in [Clients -> SUBSET [Parts -> LineContent]]
  BY DEF Inv, TypeOK
<1>3. i \in Nat /\ i \in Slots /\ i < hdr.idx
  BY <1>1, <1>2, PlayIndex DEF Logplay
<1>4. play'[c].i = i + 1
  BY <1>1, <1>2 DEF Logplay
<1>5. le = LogEntry(i)
  BY Zenon, <1>1, ValidIsLogged
<1>6. i <= n /\ fs[c] = {LogEntry(s) : s \in 0 .. (n - 1)}
  BY <1>1 DEF IsPrefix
<1>7. n \in Nat /\ hdr.idx \in Nat /\ \A s \in 0 .. (n - 1) : s \in Slots /\ s < hdr.idx
  BY LogGrows, BoundsAssumption DEF Inv, Appending, Slots
<1> HIDE DEF le, i, next
<1>8. CASE Exists(c, le) /\ UNCHANGED fs
  <2>1. PICK e \in fs[c] : e[1].item = le[1].item
    BY <1>8 DEF Exists
  <2>2. PICK s \in 0 .. (n - 1) : e = LogEntry(s)
    BY <2>1, <1>6
  <2>3. s = i
    <3>1. s \in Slots /\ s < hdr.idx /\ LogEntry(s)[1].item = LogEntry(i)[1].item
      BY Zenon, <2>1, <2>2, <1>5, <1>7
    <3>2. ~(s < i) /\ ~(i < s)
      BY Zenon, <3>1, <1>3 DEF ItemsDiffer
    <3> QED
      BY <3>1, <3>2, <1>3 DEF Slots
  <2>4. i + 1 <= n
    BY <2>3, <1>3, <1>7
  <2>5. n \in 0 .. hdr'.idx /\ fs'[c] = {LogEntry(s_1)' : s_1 \in 0 .. (n - 1)}
    BY <1>6, <1>8, PrefixKept
  <2>6. IsPrefix(c, n)'
    BY <2>4, <2>5, <1>4 DEF IsPrefix
  <2> QED
    BY <2>5, <2>6, <1>1
<1>9. CASE ~Exists(c, le) /\ fs' = [fs EXCEPT ![c] = @ \cup {le}]
  <2>1. n = i
    <3>1. CASE i < n
      <4>1. i \in 0 .. (n - 1)
        BY <3>1, <1>3, <1>7
      <4>2. le \in fs[c]
        BY <4>1, <1>5, <1>6
      <4> QED
        BY <4>2, <1>9 DEF Exists
    <3> QED
      BY <3>1, <1>3, <1>6, <1>7
  <2>2. n + 1 \in 0 .. hdr.idx /\ (n + 1) - 1 = n
    BY <2>1, <1>3, <1>7
  <2>3. fs'[c] = {LogEntry(s) : s \in 0 .. (n - 1)} \cup {LogEntry(n)}
    BY <2>1, <1>2, <1>5, <1>6, <1>9
  <2>4. 0 .. n = (0 .. (n - 1)) \cup {n}
    BY <1>7
  <2>5. fs'[c] = {LogEntry(s) : s \in 0 .. n}
    BY <2>3, <2>4
  <2>6. n + 1 \in 0 .. hdr'.idx /\ fs'[c] = {LogEntry(s)' : s \in 0 .. ((n + 1) - 1)}
    BY <2>2, <2>5, PrefixKept
  <2>7. IsPrefix(c, n + 1)'
    BY <2>1, <2>6, <1>4 DEF IsPrefix
  <2> QED
    BY <2>6, <2>7, <1>1
<1> QED
  BY <1>1, <1>8, <1>9

LEMMA PrefixNext == PrefixInv /\ [Next]_vars => PrefixInv'
<1> SUFFICES ASSUME PrefixInv, [Next]_vars PROVE PrefixInv'
  OBVIOUS
<1>1. Inv /\ ItemsDiffer
  BY DEF PrefixInv
<1>2. Inv' /\ ItemsDiffer'
  BY <1>1, NextInv, DifferStep
<1>3. ASSUME nerrs' = 0, NEW d \in Clients
      PROVE  stubs'[d] = {} /\ \E n \in 0 .. hdr'.idx : IsPrefix(d, n)'
  <2>1. nerrs = 0
    <3>1. nerrs \in Nat
      BY <1>1, BoundsAssumption DEF Inv, TypeOK
    <3>2. ASSUME NEW c \in Clients, logplay_apply(c)
          PROVE  nerrs' = nerrs \/ nerrs' = nerrs + 1
      BY <3>2 DEF logplay_apply
    <3> QED
      BY <3>1, <3>2, <1>3, NamesMove
  <2>2. stubs[d] = {} /\ \E n \in 0 .. hdr.idx : IsPrefix(d, n)
    BY <2>1 DEF PrefixInv
  <2>3. PICK n \in 0 .. hdr.idx : IsPrefix(d, n)
    BY <2>2
  <2>4. CASE logplay_apply(d)
    BY <1>1, <1>3, <2>1, <2>2, <2>3, <2>4, PrefixApply
  <2>5. CASE ~logplay_apply(d)
    <3>1. fs'[d] = fs[d] /\ stubs'[d] = stubs[d]
      <4>1. ASSUME NEW c \in Clients, c # d, logplay_apply(c)
            PROVE  fs'[d] = fs[d] /\ stubs'[d] = stubs[d]
        BY <4>1, <1>1 DEF logplay_apply, Inv, TypeOK
      <4> QED
        BY <4>1, <2>5, NamesMove
    <3>2. n \in 0 .. hdr'.idx /\ fs'[d] = {LogEntry(s)' : s \in 0 .. (n - 1)}
      BY <1>1, <2>3, <3>1, PrefixKept DEF IsPrefix
    <3>3. play'[d].pc # "idle" => play'[d].i <= n
      <4>1. play'[d].pc # "idle" =>
              \/ play'[d].i = 0
              \/ play[d].pc # "idle" /\ play'[d].i = play[d].i
        BY <1>1, <2>5, IndexMoves
      <4> QED
        BY <4>1, <2>3 DEF IsPrefix
    <3>4. IsPrefix(d, n)'
      BY <3>2, <3>3 DEF IsPrefix
    <3> QED
      BY <2>2, <3>1, <3>2, <3>4
  <2> QED
    BY <2>4, <2>5
<1> QED
  BY <1>2, <1>3 DEF PrefixInv

LEMMA PrefixInit == Init => PrefixInv
<1> SUFFICES ASSUME Init PROVE PrefixInv
  OBVIOUS
<1>1. hdr.idx = 0
  <2>1. hdr = [seq |-> 0, idx |-> 0]
    BY Basics DEF Init, hdr, View
  <2> QED
    BY <2>1
<1>2. \A s \in Slots : ~(s < hdr.idx)
  BY <1>1 DEF Slots
<1>3. ItemsDiffer
  BY Zenon, <1>2 DEF ItemsDiffer
<1>4. \A c \in Clients : stubs[c] = {} /\ fs[c] = {} /\ play[c].pc = "idle"
  BY DEF Init
<1>5. 0 \in 0 .. hdr.idx /\ 0 .. (0 - 1) = {}
  BY <1>1
<1>6. \A c \in Clients : IsPrefix(c, 0)
  BY <1>4, <1>5 DEF IsPrefix
<1> QED
  BY <1>3, <1>4, <1>5, <1>6, InitInv DEF PrefixInv

(* The invariant behind the prefix property: no item is logged twice, and  *)
(* the loop of __famfs_logplay is never past the entries instantiated.     *)
THEOREM PrefixInvariant == Spec => []PrefixInv
BY PrefixInit, PrefixNext, PTL DEF Spec

(* As long as the master does not crash and nothing fails locally, a       *)
(* client's name space is a prefix of the master's log at every moment of  *)
(* every __famfs_logplay, for any number of clients, slots and lines.      *)
THEOREM ClientHasPrefix == Spec => []NamespaceIsPrefix
<1>1. PrefixInv => NamespaceIsPrefix
  BY DEF PrefixInv, IsPrefix, NamespaceIsPrefix
<1> QED
  BY <1>1, PrefixInvariant, PTL
=============================================================================
