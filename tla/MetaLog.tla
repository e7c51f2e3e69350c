------------------------------ MODULE MetaLog ------------------------------
(***************************************************************************)
(* The famfs metadata log: the master host appends entries to it in shared *)
(* memory (famfs_append_log), client hosts play it into their own name     *)
(* space (famfs_logplay).  No hardware keeps the hosts' caches coherent;   *)
(* the flush and invalidate calls of the code and the sequence number and  *)
(* checksum of every entry take its place.                                 *)
(*                                                                         *)
(* The log header is one cache line.  It holds famfs_log_next_seqnum and   *)
(* famfs_log_next_index; its other fields never change after mkfs.  A log  *)
(* entry spans several lines (Parts).  A line of an entry is abstracted to *)
(* the append that wrote it: its sequence number and the file or directory *)
(* it records.  The checksum holds exactly when all the lines of an entry  *)
(* come from one append; the zeroes mkfs leaves never satisfy it.          *)
(***************************************************************************)
EXTENDS Naturals, Fcc

CONSTANTS Master,     \* the master host
          Clients,    \* the client hosts
          Items,      \* what entries record: files and directories, by path
          Files,      \* the items that are files
          NoItem,     \* the item of a line mkfs zeroed
          LastIndex,  \* famfs_log_last_index
          NParts,     \* cache lines per log entry
          MaxErrors,  \* bound: local failures while a client plays the log
          MaxCrash    \* bound: crashes of the master

ASSUME BoundsAssumption ==
  /\ LastIndex \in Nat
  /\ NParts \in Nat \ {0}
  /\ MaxErrors \in Nat
  /\ MaxCrash \in Nat

ASSUME NamesAssumption ==
  /\ Master \notin Clients
  /\ NoItem \notin Items
  /\ Files \subseteq Items

Hosts == Clients \cup {Master}
Slots == 0 .. LastIndex
Parts == 1 .. NParts
HdrLine == <<0, 0>>
EntryLines == Slots \X Parts
Lines == {HdrLine} \cup EntryLines

Header == [seq : Nat, idx : Nat]
LineContent == [seq : Nat, item : Items \cup {NoItem}]
Content == Header \cup LineContent
Zeroed == [seq |-> 0, item |-> NoItem]
Blank == [p \in Parts |-> Zeroed]

(* Miss stands for "not cached" and is no content of a line. *)
ASSUME MissAssumption == Miss \notin Content

VARIABLES pc,      \* the process that holds the log's lock on the master
          entry,   \* the entry it is appending
          todo,    \* the lines of it still to be copied into the log
          acked,   \* acked[s]: the item whose append to slot s has returned
          play,    \* play[c]: the logplay running on client c
          fs,      \* fs[c]: the entries client c has instantiated
          stubs,   \* stubs[c]: those whose name exists but has no file map
          nerrs,   \* local failures so far
          ncrash   \* crashes so far

masterVars == <<pc, entry, todo, acked>>
clientVars == <<play, fs, stubs, nerrs>>
vars == <<mem, cache, dirty, pc, entry, todo, acked, play, fs, stubs, nerrs,
          ncrash>>

Init ==
  /\ mem = [l \in Lines |->
              IF l = HdrLine THEN [seq |-> 0, idx |-> 0] ELSE Zeroed]
  /\ cache = [h \in Hosts |-> [l \in Lines |-> Miss]]
  /\ dirty = [h \in Hosts |-> {}]
  /\ pc = "idle"
  /\ entry = Zeroed
  /\ todo = {}
  /\ acked = [s \in Slots |-> NoItem]
  /\ play = [c \in Clients |-> [pc |-> "idle", i |-> 0, todo |-> {},
                                le |-> Blank,
                                rc |-> "none", base |-> {}]]
  /\ fs = [c \in Clients |-> {}]
  /\ stubs = [c \in Clients |-> {}]
  /\ nerrs = 0
  /\ ncrash = 0

-----------------------------------------------------------------------------
(***************************************************************************)
(* The master.                                                             *)
(***************************************************************************)

(* The header and the items of the log as the processes of the master host *)
(* see them.                                                               *)
hdr == View(Master, HdrLine)
LogEntry(s) == [p \in Parts |-> View(Master, <<s, p>>)]

(* Mutant: the log is full one entry too late. *)
famfs_log_full_late == hdr.idx > LastIndex + 1

famfs_log_full == hdr.idx > LastIndex

(* A process takes the lock and invalidates its view of the log. *)
famfs_init_locked_log ==
  /\ pc = "idle"
  /\ pc' = "locked"
  /\ Invalidate(Master, Lines)
  /\ UNCHANGED <<entry, todo, acked, clientVars, ncrash>>

(* famfs_log_file_creation and famfs_log_dir_creation build the entry and  *)
(* enter famfs_append_log, which stamps it with the next sequence number.  *)
(* An item is logged once: its creator has made sure the path is new.      *)
famfs_log_creation(x) ==
  /\ pc = "locked"
  /\ ~famfs_log_full
  /\ \A s \in Slots : s < hdr.idx => LogEntry(s)[1].item # x
  /\ entry' = [seq |-> hdr.seq, item |-> x]
  /\ todo' = Parts
  /\ pc' = "copy"
  /\ UNCHANGED <<fccVars, acked, clientVars, ncrash>>

(* Mutant: the memcpy goes to the last committed entry. *)
append_memcpy_last(p) ==
  /\ pc = "copy"
  /\ p \in todo
  /\ Store(Master, <<IF hdr.idx = 0 THEN 0 ELSE hdr.idx - 1, p>>, entry)
  /\ todo' = todo \ {p}
  /\ pc' = IF todo' = {} THEN "seqnum" ELSE "copy"
  /\ UNCHANGED <<entry, acked, clientVars, ncrash>>

(* The memcpy into entries[next_index], one cache line at a time. *)
append_memcpy(p) ==
  /\ pc = "copy"
  /\ p \in todo
  /\ Store(Master, <<hdr.idx, p>>, entry)
  /\ todo' = todo \ {p}
  /\ pc' = IF todo' = {} THEN "seqnum" ELSE "copy"
  /\ UNCHANGED <<entry, acked, clientVars, ncrash>>

append_next_seqnum ==
  /\ pc = "seqnum"
  /\ Store(Master, HdrLine, [hdr EXCEPT !.seq = @ + 1])
  /\ pc' = "index"
  /\ UNCHANGED <<entry, todo, acked, clientVars, ncrash>>

append_next_index ==
  /\ pc = "index"
  /\ Store(Master, HdrLine, [hdr EXCEPT !.idx = @ + 1])
  /\ pc' = "flush"
  /\ UNCHANGED <<entry, todo, acked, clientVars, ncrash>>

(* Mutant: only the header is flushed. *)
append_flush_header ==
  /\ pc = "flush"
  /\ Flush(Master, {HdrLine})
  /\ acked' = [acked EXCEPT ![hdr.idx - 1] = entry.item]
  /\ entry' = Zeroed
  /\ pc' = "locked"
  /\ UNCHANGED <<todo, clientVars, ncrash>>

(* The flush of the whole log, after which famfs_append_log returns. *)
append_flush ==
  /\ pc = "flush"
  /\ Flush(Master, Lines)
  /\ acked' = [acked EXCEPT ![hdr.idx - 1] = entry.item]
  /\ entry' = Zeroed
  /\ pc' = "locked"
  /\ UNCHANGED <<todo, clientVars, ncrash>>

famfs_append_log ==
  \/ \E p \in Parts : append_memcpy(p)
  \/ append_next_seqnum
  \/ append_next_index
  \/ append_flush

famfs_release_locked_log ==
  /\ pc = "locked"
  /\ pc' = "idle"
  /\ UNCHANGED <<fccVars, entry, todo, acked, clientVars, ncrash>>

-----------------------------------------------------------------------------
(***************************************************************************)
(* A client.                                                               *)
(***************************************************************************)

(* Mutant: the log is played as the cache has it. *)
famfs_logplay_cached(c) ==
  /\ play[c].pc = "idle"
  /\ play' = [play EXCEPT ![c] =
                [pc |-> "loop", i |-> 0, todo |-> {},
                 le |-> Blank, rc |-> "none",
                 base |-> {acked[s] : s \in Slots} \ {NoItem}]]
  /\ UNCHANGED <<fccVars, masterVars, fs, stubs, nerrs, ncrash>>

(* famfs_logplay maps the log and invalidates the processor cache for it.  *)
(* base remembers the items whose append had returned by then.             *)
famfs_logplay(c) ==
  /\ play[c].pc = "idle"
  /\ Invalidate(c, Lines)
  /\ play' = [play EXCEPT ![c] =
                [pc |-> "loop", i |-> 0, todo |-> {},
                 le |-> Blank, rc |-> "none",
                 base |-> {acked[s] : s \in Slots} \ {NoItem}]]
  /\ UNCHANGED <<masterVars, fs, stubs, nerrs, ncrash>>

(* Mutant: the last entry is not played. *)
logplay_loop_short(c) ==
  /\ play[c].pc = "loop"
  /\ Load(c, HdrLine)
  /\ play' = [play EXCEPT ![c] =
                IF play[c].i + 1 < View(c, HdrLine).idx
                THEN [@ EXCEPT !.pc = "copy", !.todo = Parts]
                ELSE [@ EXCEPT !.pc = "idle",
                               !.rc = IF play[c].rc = "none"
                                      THEN "ok" ELSE play[c].rc]]
  /\ UNCHANGED <<masterVars, fs, stubs, nerrs, ncrash>>

(* The loop test reads famfs_log_next_index again before every entry.  The *)
(* return value counts the errors; here "ok" is 0 and "errors" more than 0.*)
logplay_loop(c) ==
  /\ play[c].pc = "loop"
  /\ Load(c, HdrLine)
  /\ play' = [play EXCEPT ![c] =
                IF play[c].i < View(c, HdrLine).idx
                THEN [@ EXCEPT !.pc = "copy", !.todo = Parts]
                ELSE [@ EXCEPT !.pc = "idle",
                               !.rc = IF play[c].rc = "none"
                                      THEN "ok" ELSE play[c].rc]]
  /\ UNCHANGED <<masterVars, fs, stubs, nerrs, ncrash>>

(* The structure copy of entries[i] onto the stack, line by line. *)
logplay_copy(c, p) ==
  /\ play[c].pc = "copy"
  /\ p \in play[c].todo
  /\ Load(c, <<play[c].i, p>>)
  /\ play' = [play EXCEPT ![c].le[p] = View(c, <<play[c].i, p>>),
                          ![c].todo = @ \ {p},
                          ![c].pc = IF play[c].todo = {p}
                                    THEN "validate" ELSE "copy"]
  /\ UNCHANGED <<masterVars, fs, stubs, nerrs, ncrash>>

(* Mutant: no checksum. *)
validate_seqnum_only(le, index) ==
  /\ le[1].seq = index
  /\ le[1].item # NoItem

(* The sequence number is in the first line; the checksum covers them all. *)
(* The retry of the function re-reads the caller's copy on the stack, so   *)
(* it cannot change the verdict of a logplay.                              *)
famfs_validate_log_entry(le, index) ==
  /\ le[1].seq = index
  /\ le[1].item # NoItem
  /\ \A p \in Parts : le[p] = le[1]

(* Mutant: an invalid entry is skipped. *)
logplay_invalid_skips(c) ==
  /\ play[c].pc = "validate"
  /\ ~famfs_validate_log_entry(play[c].le, play[c].i)
  /\ play' = [play EXCEPT ![c].pc = "loop", ![c].i = @ + 1, ![c].le = Blank]
  /\ UNCHANGED <<fccVars, masterVars, fs, stubs, nerrs, ncrash>>

logplay_invalid(c) ==
  /\ play[c].pc = "validate"
  /\ ~famfs_validate_log_entry(play[c].le, play[c].i)
  /\ play' = [play EXCEPT ![c].pc = "idle", ![c].rc = "failed",
                          ![c].le = Blank]
  /\ UNCHANGED <<fccVars, masterVars, fs, stubs, nerrs, ncrash>>

(* The name of an entry exists already in the client's name space. *)
Exists(c, le) ==
  \E e \in fs[c] \cup stubs[c] : e[1].item = le[1].item

(* A valid entry is instantiated; a name that exists is left alone.        *)
(* Locally, creating it may fail and be counted (f_errs, d_errs).  A file  *)
(* may also be created and get no file map, or no yaml in its shadow file, *)
(* which the code reports but does not count.                              *)
logplay_apply(c) ==
  LET le == play[c].le
      next == [play EXCEPT ![c].pc = "loop", ![c].i = @ + 1,
                           ![c].le = Blank]
  IN
  /\ play[c].pc = "validate"
  /\ famfs_validate_log_entry(le, play[c].i)
  /\ \/ /\ Exists(c, le)
        /\ play' = next
        /\ UNCHANGED <<fs, stubs, nerrs>>
     \/ /\ ~Exists(c, le)
        /\ fs' = [fs EXCEPT ![c] = @ \cup {le}]
        /\ play' = next
        /\ UNCHANGED <<stubs, nerrs>>
     \/ /\ ~Exists(c, le)
        /\ nerrs < MaxErrors
        /\ nerrs' = nerrs + 1
        /\ play' = [next EXCEPT ![c].rc = "errors"]
        /\ UNCHANGED <<fs, stubs>>
     \/ /\ ~Exists(c, le)
        /\ le[1].item \in Files
        /\ nerrs < MaxErrors
        /\ nerrs' = nerrs + 1
        /\ stubs' = [stubs EXCEPT ![c] = @ \cup {le}]
        /\ play' = next
        /\ UNCHANGED fs
  /\ UNCHANGED <<fccVars, masterVars, ncrash>>

__famfs_logplay(c) ==
  \/ logplay_loop(c)
  \/ \E p \in Parts : logplay_copy(c, p)
  \/ logplay_invalid(c)
  \/ logplay_apply(c)

-----------------------------------------------------------------------------
(***************************************************************************)
(* The hardware: a client's cache may read ahead and may drop a line; the  *)
(* master's may write a line back early.  What a client's cache does while *)
(* no logplay runs is left out: the next one begins by invalidating it.    *)
(***************************************************************************)
ReadAhead(c, l) ==
  /\ play[c].pc # "idle"
  /\ Refetch(c, l)
  /\ UNCHANGED <<masterVars, clientVars, ncrash>>

EarlyWriteBack ==
  /\ \E l \in Lines : WriteBack(Master, l)
  /\ UNCHANGED <<masterVars, clientVars, ncrash>>

Next ==
  \/ famfs_init_locked_log
  \/ \E x \in Items : famfs_log_creation(x)
  \/ famfs_append_log
  \/ famfs_release_locked_log
  \/ \E c \in Clients : famfs_logplay(c) \/ __famfs_logplay(c)
  \/ \E c \in Clients, l \in Lines : ReadAhead(c, l)
  \/ EarlyWriteBack

Spec == Init /\ [][Next]_vars

(* The process that holds the lock dies.  What it stored is still in the   *)
(* cache of its host, and the lock is released with its file descriptor.   *)
ProcessCrash ==
  /\ pc # "idle"
  /\ ncrash < MaxCrash
  /\ ncrash' = ncrash + 1
  /\ pc' = "idle"
  /\ entry' = Zeroed
  /\ todo' = {}
  /\ UNCHANGED <<fccVars, acked, clientVars>>

(* The master host dies: what its cache had not written back is lost. *)
HostCrash ==
  /\ ncrash < MaxCrash
  /\ ncrash' = ncrash + 1
  /\ PowerLoss(Master)
  /\ pc' = "idle"
  /\ entry' = Zeroed
  /\ todo' = {}
  /\ UNCHANGED <<acked, clientVars>>

CrashNext == Next \/ ProcessCrash \/ HostCrash

CrashSpec == Init /\ [][CrashNext]_vars

(* An append once begun and a logplay once begun run to their end, and a   *)
(* client whose logplay has ended runs it again: the retry famfs_append_log*)
(* counts on.  A dirty line does not stay in the master's cache for ever.  *)
Fairness ==
  /\ WF_vars(famfs_append_log)
  /\ WF_vars(EarlyWriteBack)
  /\ \A c \in Clients : WF_vars(famfs_logplay(c) \/ __famfs_logplay(c))

FairSpec == Spec /\ Fairness
FairCrashSpec == CrashSpec /\ Fairness

-----------------------------------------------------------------------------
(***************************************************************************)
(* Properties.                                                             *)
(***************************************************************************)

(* A header line holds a header, every other line a line of an entry. *)
LinesTypeOK ==
  /\ mem \in [Lines -> Content]
  /\ mem[HdrLine] \in Header
  /\ \A l \in EntryLines : mem[l] \in LineContent
  /\ cache \in [Hosts -> [Lines -> Content \cup {Miss}]]
  /\ \A h \in Hosts : cache[h][HdrLine] \in Header \cup {Miss}
  /\ \A h \in Hosts, l \in EntryLines :
        cache[h][l] \in LineContent \cup {Miss}
  /\ dirty \in [Hosts -> SUBSET Lines]

Logplay == [pc : {"idle", "loop", "copy", "validate"}, i : Nat,
            todo : SUBSET Parts, le : [Parts -> LineContent],
            rc : {"none", "ok", "errors", "failed"}, base : SUBSET Items]

(* Every variable has its type: the log in memory and in the caches        *)
(* (struct famfs_log), famfs_append_log's and __famfs_logplay's locals.    *)
TypeOK ==
  /\ LinesTypeOK
  /\ pc \in {"idle", "locked", "copy", "seqnum", "index", "flush"}
  /\ entry \in LineContent
  /\ todo \subseteq Parts
  /\ acked \in [Slots -> Items \cup {NoItem}]
  /\ play \in [Clients -> Logplay]
  /\ fs \in [Clients -> SUBSET [Parts -> LineContent]]
  /\ stubs \in [Clients -> SUBSET [Parts -> LineContent]]
  /\ nerrs \in 0 .. MaxErrors
  /\ ncrash \in 0 .. MaxCrash

(* A client instantiates nothing but what the master has logged: every     *)
(* entry it has played is, line for line, one below next_index in the      *)
(* master's log, whatever its cache held when __famfs_logplay read the     *)
(* header and the entry, and however much of an append was visible.        *)
AppliedIsLogged ==
  \A c \in Clients : \A e \in fs[c] \cup stubs[c] :
    \E s \in Slots : s < hdr.idx /\ e = LogEntry(s)

(* As long as nothing has failed locally, a client's name space is the     *)
(* result of a prefix of the log: __famfs_logplay never gets past an entry *)
(* it could not validate, so no file appears before its directory.         *)
NamespaceIsPrefix ==
  nerrs = 0 =>
    \A c \in Clients : \E n \in 0 .. hdr.idx :
      fs[c] = {LogEntry(s) : s \in 0 .. (n - 1)}

(* When famfs_logplay returns 0, every item whose append had returned on   *)
(* the master when the logplay began exists on the client: the invalidate  *)
(* at its start is enough for it to see a header that recent, and every    *)
(* entry below it has been instantiated.                                   *)
SuccessIsComplete ==
  \A c \in Clients : play[c].rc = "ok" =>
    \A x \in play[c].base : \E e \in fs[c] \cup stubs[c] : e[1].item = x

(* Once famfs_append_log has returned, its entry is in memory in one piece *)
(* and stays there: no later append, crash of a process, or loss of the    *)
(* master's cache takes it away.                                           *)
AckedIsDurable ==
  \A s \in Slots : acked[s] # NoItem =>
    \A p \in Parts : mem[<<s, p>>].item = acked[s]

(* The log as the master sees it, and the whole system as an instance of   *)
(* the append-only log clients replay.                                     *)
LogView == [k \in 1 .. hdr.idx |-> LogEntry(k - 1)]
WholeEntry ==
  {[p \in Parts |-> [seq |-> s, item |-> x]] : s \in Slots, x \in Items}
Names == [c \in Clients |-> fs[c] \cup stubs[c]]
SL == INSTANCE SharedLog WITH Entry <- WholeEntry, log <- LogView, fs <- Names

(* The log and its replay implement SharedLog: famfs_append_log commits    *)
(* one whole entry in the one step that stores next_index and never        *)
(* changes a committed one, and a step of a client adds at most one        *)
(* committed entry to its name space.                                      *)
ImplementsSharedLog == SL!Spec

(* A logplay that met an invalid entry succeeds when it is retried: the    *)
(* promise of the comment in famfs_append_log on a header that becomes     *)
(* visible before its entry.                                               *)
RetrySucceeds ==
  \A c \in Clients : play[c].rc = "failed" ~> play[c].rc = "ok"

(* A client that keeps playing the log always comes to a famfs_logplay     *)
(* that returns 0 with every item instantiated whose append has returned   *)
(* by then, whatever the header, entries and errors that it met before.    *)
(* So every such item is instantiated in the end, and a logplay that       *)
(* failed succeeds when it is retried.                                     *)
EventuallyPlayed ==
  \A c \in Clients :
    []<>(/\ play[c].rc = "ok"
         /\ \A s \in Slots : acked[s] # NoItem =>
              \E e \in fs[c] \cup stubs[c] : e[1].item = acked[s])
=============================================================================
