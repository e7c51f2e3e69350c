----------------------------- MODULE MetaLogInv -----------------------------
(***************************************************************************)
(* The invariants that the theorems about MetaLog rest on.                 *)
(***************************************************************************)
EXTENDS MetaLog, Sequences

(* What the master host sees in every line. *)
view == [l \in Lines |-> View(Master, l)]

(* The master is the only host that stores to the log, so what it sees is  *)
(* memory wherever its cache is not dirty, and no client has dirty lines.  *)
OneWriter ==
  /\ \A l \in Lines : l \in dirty[Master] => cache[Master][l] # Miss
  /\ \A l \in Lines : l \notin dirty[Master] => view[l] = mem[l]
  /\ \A c \in Clients : dirty[c] = {}

(* The header and the append in progress. *)
Appending ==
  /\ hdr.idx <= LastIndex + 1
  /\ hdr.seq = IF pc = "index" THEN hdr.idx + 1 ELSE hdr.idx
  /\ pc \in {"copy", "seqnum", "index"} =>
       /\ hdr.idx <= LastIndex
       /\ entry.seq = hdr.idx
       /\ entry.item \in Items
  /\ pc = "flush" => hdr.idx > 0

(* The log as the master sees it: whole entries below next_index, the one  *)
(* being copied at next_index, zeroes from there on.                       *)
LogShape ==
  \A s \in Slots, p \in Parts :
    /\ s < hdr.idx => /\ view[<<s, p>>] = view[<<s, 1>>]
                      /\ view[<<s, p>>].seq = s
                      /\ view[<<s, p>>].item \in Items
    /\ s > hdr.idx => view[<<s, p>>] = Zeroed
    /\ s = hdr.idx =>
         /\ pc \in {"idle", "locked", "flush"} => view[<<s, p>>] = Zeroed
         /\ pc = "copy" /\ p \in todo => view[<<s, p>>] = Zeroed
         /\ pc = "copy" /\ p \notin todo => view[<<s, p>>] = entry
         /\ pc \in {"seqnum", "index"} => view[<<s, p>>] = entry

(* Memory, the clients' caches and their copies of entries lag behind the  *)
(* master: a line of an entry is as mkfs left it or as the master sees it. *)
Lagging ==
  /\ mem[HdrLine].idx <= hdr.idx
  /\ \A l \in EntryLines : mem[l] = Zeroed \/ mem[l] = view[l]
  /\ \A c \in Clients :
       /\ cache[c][HdrLine] # Miss => cache[c][HdrLine].idx <= hdr.idx
       /\ \A l \in EntryLines :
            cache[c][l] = Miss \/ cache[c][l] = Zeroed \/ cache[c][l] = view[l]

Copied ==
  \A c \in Clients :
    /\ play[c].pc \in {"copy", "validate"} =>
         /\ play[c].i < hdr.idx
         /\ \A p \in Parts : \/ play[c].le[p] = Zeroed
                             \/ play[c].le[p] = view[<<play[c].i, p>>]
    /\ play[c].pc = "loop" => play[c].le = Blank

Inv ==
  /\ TypeOK
  /\ OneWriter
  /\ Appending
  /\ LogShape
  /\ Lagging
  /\ Copied
  /\ AppliedIsLogged

-----------------------------------------------------------------------------
(***************************************************************************)
(* Without crashes: no item is logged twice, and the loop of a logplay is  *)
(* never past the end of the prefix that is instantiated.                  *)
(***************************************************************************)
ItemsDiffer ==
  /\ \A s, t \in Slots : s < t /\ t < hdr.idx =>
       LogEntry(s)[1].item # LogEntry(t)[1].item
  /\ pc \in {"copy", "seqnum", "index"} =>
       \A s \in Slots : s < hdr.idx => LogEntry(s)[1].item # entry.item

IsPrefix(c, n) ==
  /\ fs[c] = {LogEntry(s) : s \in 0 .. (n - 1)}
  /\ play[c].pc # "idle" => play[c].i <= n

PrefixInv ==
  /\ Inv
  /\ ItemsDiffer
  /\ nerrs = 0 =>
       \A c \in Clients :
         stubs[c] = {} /\ \E n \in 0 .. hdr.idx : IsPrefix(c, n)

-----------------------------------------------------------------------------
(***************************************************************************)
(* With crashes.  The log may end in a torn or an abandoned entry, and its *)
(* sequence number may be ahead of its index, so little of Inv is left.    *)
(* What remains is about the entries whose append has returned: no slot    *)
(* below the next_index in memory is stored to again.                      *)
(***************************************************************************)

(* next_index never leaves the log, whoever looks at it. *)
HeadersInLog ==
  /\ mem[HdrLine].idx <= hdr.idx
  /\ hdr.idx <= LastIndex + 1
  /\ \A c \in Clients :
       cache[c][HdrLine] # Miss => cache[c][HdrLine].idx <= LastIndex + 1

(* The append in progress: the lines copied so far, and all of them once   *)
(* the header moves.                                                       *)
AppendingItem ==
  /\ pc \in {"copy", "seqnum", "index"} =>
       /\ hdr.idx <= LastIndex
       /\ \A p \in Parts \ todo : view[<<hdr.idx, p>>].item = entry.item
  /\ pc \in {"seqnum", "index"} => todo = {}
  /\ pc = "flush" =>
       /\ hdr.idx > 0
       /\ \A p \in Parts : view[<<hdr.idx - 1, p>>].item = entry.item

(* An append that has returned is covered by the next_index in memory, and *)
(* memory and the master agree on its lines.                               *)
AckedInMemory ==
  \A s \in Slots : acked[s] # NoItem =>
    /\ s < mem[HdrLine].idx
    /\ \A p \in Parts :
         mem[<<s, p>>].item = acked[s] /\ view[<<s, p>>] = mem[<<s, p>>]

(* The locals of a logplay. *)
PlayingOf(c) ==
  /\ play[c].pc \in {"copy", "validate"} => play[c].i <= LastIndex
  /\ play[c].pc = "validate" => play[c].todo = {}
  /\ play[c].pc # "idle" => play[c].rc \in {"none", "errors"}

Playing == \A c \in Clients : PlayingOf(c)

Has(c, x) == \E e \in fs[c] \cup stubs[c] : e[1].item = x

(* Item x was in slot s when the logplay of client c began: whatever the   *)
(* client has cached since covers it, and once the loop is past it the     *)
(* item is there.                                                          *)
InSlot(c, x, s) ==
  /\ acked[s] = x
  /\ cache[c][HdrLine] # Miss => s < cache[c][HdrLine].idx
  /\ \A p \in Parts :
       cache[c][<<s, p>>] # Miss => cache[c][<<s, p>>].item = x
  /\ play[c].i = s /\ play[c].pc \in {"copy", "validate"} =>
       \A p \in Parts \ play[c].todo : play[c].le[p].item = x
  /\ play[c].rc = "none" /\ s < play[c].i => Has(c, x)

BaseSeen ==
  \A c \in Clients : play[c].pc # "idle" =>
    \A x \in play[c].base : \E s \in Slots : InSlot(c, x, s)

CrashInv ==
  /\ TypeOK
  /\ OneWriter
  /\ HeadersInLog
  /\ AppendingItem
  /\ AckedInMemory
  /\ Playing
  /\ BaseSeen
  /\ SuccessIsComplete

-----------------------------------------------------------------------------
(***************************************************************************)
(* What a step changes, as far as these invariants can tell.               *)
(***************************************************************************)

(* A step of caches and memory that stores nothing: the master sees what   *)
(* it saw, memory may catch up with it and clients with memory.            *)
SameView == view' = view

CatchUp ==
  /\ \A l \in Lines : mem'[l] = mem[l] \/ mem'[l] = view[l]
  /\ \A c \in Clients, l \in Lines :
       cache'[c][l] = Miss \/ cache'[c][l] = cache[c][l]
                          \/ cache'[c][l] = mem[l]

LogSame == hdr'.idx = hdr.idx
           /\ \A s \in Slots : s < hdr.idx => LogEntry(s)' = LogEntry(s)

(* Below the next_index in memory the master stores nothing. *)
ViewKept ==
  \A s \in Slots, p \in Parts : s < mem[HdrLine].idx =>
    view'[<<s, p>>] = view[<<s, p>>] \/ view'[<<s, p>>] = mem'[<<s, p>>]

(* A step of a client leaves the master alone, *)
ClientTypes ==
  /\ LinesTypeOK' /\ OneWriter' /\ SameView /\ CatchUp
  /\ UNCHANGED <<masterVars, ncrash>>
  /\ play' \in [Clients -> Logplay]
  /\ fs' \in [Clients -> SUBSET [Parts -> LineContent]]
  /\ stubs' \in [Clients -> SUBSET [Parts -> LineContent]]
  /\ nerrs' \in 0 .. MaxErrors

(* and the other clients, and only adds to the name space of its own. *)
ClientMoves(c) ==
  /\ ClientTypes
  /\ \A d \in Clients : fs[d] \subseteq fs'[d] /\ stubs[d] \subseteq stubs'[d]
  /\ \A d \in Clients : d # c => play'[d] = play[d]

(* What the logplay of client c has seen of its base. *)
SeenBy(c) ==
  /\ play[c].pc # "idle" =>
       \A x \in play[c].base : \E s \in Slots : InSlot(c, x, s)
  /\ play[c].rc = "ok" => \A x \in play[c].base : Has(c, x)
=============================================================================
