----------------------------- MODULE PcqProofs -----------------------------
(***************************************************************************)
(* The queue hands over every message once, whole and in order, for any    *)
(* number of buckets, lines per bucket, messages and hosts, whether or not *)
(* producer and consumer run on one host.                                  *)
(***************************************************************************)
EXTENDS Pcq, TLAPS

(* Each line is written by one host, and what that host sees of its lines  *)
(* is the truth about the queue; memory and other caches lag behind.       *)
Owner(l) == IF l \in {consumer_index, consumer_seq} THEN chost ELSE PHost
own == [l \in Lines |-> View(Owner(l), l)]

LinesOK ==
  /\ mem \in [Lines -> Int]
  /\ cache \in [Hosts -> [Lines -> Int \cup {Miss}]]
  /\ dirty \in [Hosts -> SUBSET Lines]
  /\ chost \in Hosts

Owned ==
  \A h \in Hosts, l \in Lines :
    /\ l \in dirty[h] => h = Owner(l) /\ cache[h][l] # Miss
    /\ h = Owner(l) /\ l \notin dirty[h] => cache[h][l] \in {Miss, mem[l]}

(* The numbers of puts begun and of gets that have found a message. *)
reserved ==
  p.nsent + (IF p.pc \in {"seq", "copy", "flush", "index", "publish"}
             THEN 1 ELSE 0)
taken ==
  nget + (IF c.pc \in {"seq", "copy", "crc", "index", "badseq"}
          THEN 1 ELSE 0)

(* The producer's words and locals follow the number of its put; outside   *)
(* of a put it owes memory nothing.                                        *)
Producing ==
  /\ own[producer_index] = nput % NBuckets
  /\ own[producer_seq] =
       p.nsent + (IF p.pc \in {"copy", "flush", "index", "publish"}
                  THEN 1 ELSE 0)
  /\ p.pc \in {"seq", "copy", "flush", "index", "publish"} =>
       p.index = p.nsent % NBuckets
  /\ p.pc \in {"copy", "flush", "index"} => p.seq = p.nsent
  /\ producer_index \in dirty[PHost] => p.pc = "publish"
  /\ \A q \in Parts :
       /\ p.pc = "copy" => q \in p.todo \/ own[<<p.index, q>>] = p.nsent
       /\ p.pc \in {"flush", "index"} => own[<<p.index, q>>] = p.nsent
       /\ p.pc = "index" => <<p.index, q>> \notin dirty[PHost]

(* So do the consumer's; what it accepts is the message it is due.         *)
Consuming ==
  /\ own[consumer_index] = nget % NBuckets
  /\ own[consumer_seq] =
       nget + (IF c.pc \in {"copy", "crc", "index", "badseq"} THEN 1 ELSE 0)
  /\ c.pc \in {"copy", "crc", "index"} => c.seq = nget
  /\ c.pc = "crc" => c.todo = {}
  /\ c.pc = "index" => c.entry[1] = nget
  /\ RetryRepairsCrc
  /\ CoherentNeverFatal

(* A bucket that was invalidated once, or that is coherent, is read right. *)
Fresh ==
  c.pc \in {"copy", "crc"} /\ (c.retries < CONSUMER_NRETRIES \/ chost = PHost) =>
    \A q \in Parts : /\ View(chost, <<nget % NBuckets, q>>) = nget
                     /\ q \in c.todo \/ c.entry[q] = nget

(* The messages between the indices, in memory and as the producer sees    *)
(* them.                                                                   *)
Intact ==
  \A k \in nget .. nput - 1 : \A q \in Parts :
    /\ mem[<<k % NBuckets, q>>] = k
    /\ own[<<k % NBuckets, q>>] = k

(* The producer_index in memory covers what the consumer has found, *)
Published == \E M \in taken .. nput : mem[producer_index] = M % NBuckets

(* and the consumer_index the producer works with leaves room for the puts *)
(* begun: it is no younger than the one in memory, and that no younger     *)
(* than the consumer's.                                                    *)
RoomFor(n) ==
  \E j \in 0 .. nget :
    /\ View(PHost, consumer_index) = j % NBuckets
    /\ n <= j + NBuckets - 1
    /\ chost # PHost => \E m \in j .. nget : mem[consumer_index] = m % NBuckets

Room == RoomFor(reserved)

Draining ==
  /\ c.drain => p.pc = "done" /\ timed
  /\ DrainEmpties

PcqInv ==
  /\ TypeOK
  /\ Owned
  /\ Producing
  /\ Consuming
  /\ Fresh
  /\ Intact
  /\ Published
  /\ Room
  /\ Draining

-----------------------------------------------------------------------------
(***************************************************************************)
(* What the cache operations do to the lines and to what their owners see. *)
(***************************************************************************)
LEMMA PcqLines ==
  /\ producer_index \in Lines /\ producer_seq \in Lines
  /\ consumer_index \in Lines /\ consumer_seq \in Lines
  /\ producer_index # producer_seq /\ producer_index # consumer_index
  /\ producer_index # consumer_seq /\ producer_seq # consumer_index
  /\ producer_seq # consumer_seq /\ consumer_index # consumer_seq
  /\ \A b \in Buckets, q \in Parts :
       /\ <<b, q>> \in Lines
       /\ <<b, q>> # producer_index /\ <<b, q>> # producer_seq
       /\ <<b, q>> # consumer_index /\ <<b, q>> # consumer_seq
BY DEF producer_index, producer_seq, consumer_index, consumer_seq, Lines,
       Words, BucketLines, Parts

LEMMA Owners ==
  ASSUME chost \in Hosts
  PROVE  /\ \A l \in Lines : Owner(l) \in Hosts
         /\ Owner(producer_index) = PHost /\ Owner(producer_seq) = PHost
         /\ Owner(consumer_index) = chost /\ Owner(consumer_seq) = chost
         /\ \A b \in Buckets, q \in Parts : Owner(<<b, q>>) = PHost
BY PcqLines, PcqAssumption DEF Owner

LEMMA ViewInt ==
  ASSUME LinesOK, NEW h \in Hosts, NEW l \in Lines
  PROVE  View(h, l) \in Int
BY DEF LinesOK, View

(* A line its owner has not dirty is in memory as its owner sees it. *)
LEMMA CleanIsOwn ==
  ASSUME Owned, NEW l \in Lines, Owner(l) \in Hosts, l \notin dirty[Owner(l)]
  PROVE  mem[l] = own[l]
<1>1. cache[Owner(l)][l] \in {Miss, mem[l]}
  BY DEF Owned
<1> QED
  BY <1>1 DEF own, View

(* A step that stores nothing: what is written back is what the owner      *)
(* sees, and what comes into a cache is what is in memory.                 *)
Quiet ==
  /\ own' = own
  /\ \A l \in Lines : mem'[l] = mem[l] \/ mem'[l] = own[l]
  /\ \A h \in Hosts : dirty'[h] \subseteq dirty[h]
  /\ \A h \in Hosts, l \in Lines :
       View(h, l)' = View(h, l) \/ View(h, l)' = mem'[l]

(* All of them in one form: host h writes lines of L back and may drop or  *)
(* reload lines that are not dirty.                                        *)
QuietOp(h, L) ==
  /\ LinesOK'
  /\ \A k \in Lines :
       mem'[k] = IF k \in L /\ k \in dirty[h] THEN cache[h][k] ELSE mem[k]
  /\ \A g \in Hosts : dirty'[g] = IF g = h THEN dirty[g] \ L ELSE dirty[g]
  /\ \A g \in Hosts : g # h => cache'[g] = cache[g]
  /\ \A k \in Lines : \/ cache'[h][k] = cache[h][k]
                      \/ k \notin dirty'[h] /\ cache'[h][k] \in {Miss, mem'[k]}

LEMMA OpIsQuiet ==
  ASSUME LinesOK, Owned, chost' = chost, NEW h \in Hosts, NEW L \in SUBSET Lines,
         QuietOp(h, L)
  PROVE  LinesOK' /\ Owned' /\ Quiet
<1>1. \A l \in Lines : Owner(l)' = Owner(l) /\ Owner(l) \in Hosts
  BY Owners DEF Owner, LinesOK
<1>2. LinesOK'
  BY DEF QuietOp
<1>3. \A l \in Lines : Miss # mem'[l] /\ Miss # mem[l]
  BY <1>2, PcqAssumption DEF LinesOK
<1>4. ASSUME NEW g \in Hosts, NEW l \in Lines
      PROVE  View(g, l)' = View(g, l) \/ View(g, l)' = mem'[l]
  <2>1. CASE cache'[g][l] = cache[g][l]
    BY <2>1 DEF View
  <2>2. CASE cache'[g][l] \in {Miss, mem'[l]}
    BY <2>2 DEF View
  <2> QED
    BY <2>1, <2>2 DEF QuietOp
<1>5. ASSUME NEW l \in Lines
      PROVE  mem'[l] = mem[l] \/ mem'[l] = own[l]
  <2>1. CASE l \in L /\ l \in dirty[h]
    <3>1. mem'[l] = cache[h][l] /\ h = Owner(l) /\ cache[h][l] # Miss
      BY <2>1 DEF QuietOp, Owned
    <3> QED
      BY <3>1 DEF own, View
  <2>2. CASE ~(l \in L /\ l \in dirty[h])
    BY <2>2 DEF QuietOp
  <2> QED
    BY <2>1, <2>2
<1>6. Owned'
  <2> SUFFICES ASSUME NEW g \in Hosts, NEW l \in Lines
               PROVE  /\ l \in dirty'[g] => g = Owner(l) /\ cache'[g][l] # Miss
                      /\ g = Owner(l) /\ l \notin dirty'[g] =>
                           cache'[g][l] \in {Miss, mem'[l]}
    BY <1>1 DEF Owned
  <2>1. /\ l \in dirty[g] => g = Owner(l) /\ cache[g][l] # Miss
        /\ g = Owner(l) /\ l \notin dirty[g] => cache[g][l] \in {Miss, mem[l]}
        /\ l \in dirty[h] => h = Owner(l)
    BY DEF Owned
  <2>2. /\ mem'[l] = IF l \in L /\ l \in dirty[h] THEN cache[h][l] ELSE mem[l]
        /\ dirty'[g] = IF g = h THEN dirty[g] \ L ELSE dirty[g]
        /\ g # h => cache'[g] = cache[g]
        /\ \/ cache'[h][l] = cache[h][l]
           \/ l \notin dirty'[h] /\ cache'[h][l] \in {Miss, mem'[l]}
    BY DEF QuietOp
  <2>3. CASE g # h
    BY <2>1, <2>2, <2>3
  <2>4. CASE g = h
    BY <2>1, <2>2, <2>4
  <2> QED
    BY <2>3, <2>4
<1>7. ASSUME NEW l \in Lines
      PROVE  View(Owner(l), l)' = View(Owner(l), l)
  <2> DEFINE g == Owner(l)
  <2>1. g \in Hosts /\ g' = g
    BY <1>1
  <2>2. CASE l \in dirty'[g]
    <3>1. l \in dirty[g] /\ cache'[g][l] = cache[g][l] /\ cache[g][l] # Miss
      BY <2>1, <2>2, Zenon DEF QuietOp, Owned
    <3> QED
      BY <3>1, <2>1 DEF View
  <2>3. CASE l \notin dirty'[g]
    <3>1. cache'[g][l] \in {Miss, mem'[l]}
      BY <1>1, <1>6, <2>1, <2>3 DEF Owned
    <3>2. View(g, l)' = mem'[l]
      BY <3>1, <2>1 DEF View
    <3>3. CASE l \in dirty[g]
      <4>1. g = h /\ l \in L /\ cache[g][l] # Miss
        BY <2>1, <2>3, <3>3, Zenon DEF QuietOp, Owned
      <4>2. mem'[l] = cache[g][l]
        BY <3>3, <4>1 DEF QuietOp
      <4> QED
        BY <3>2, <4>1, <4>2 DEF View
    <3>4. CASE l \notin dirty[g]
      <4>1. cache[g][l] \in {Miss, mem[l]}
        BY <2>1, <3>4 DEF Owned
      <4>2. l \notin dirty[h]
        BY <2>1, <3>4 DEF Owned
      <4>3. mem'[l] = mem[l]
        BY <4>2 DEF QuietOp
      <4> QED
        BY <3>2, <4>1, <4>3 DEF View
    <3> QED
      BY <3>3, <3>4
  <2> QED
    BY <2>2, <2>3
<1>8. own' = own
  BY <1>1, <1>7 DEF own
<1>9. \A g \in Hosts : dirty'[g] \subseteq dirty[g]
  BY Zenon DEF QuietOp
<1> QED
  BY <1>2, <1>4, <1>5, <1>6, <1>8, <1>9 DEF Quiet

LEMMA LoadIsQuiet ==
  ASSUME LinesOK, Owned, chost' = chost, NEW h \in Hosts, NEW l \in Lines,
         Load(h, l) \/ Refetch(h, l)
  PROVE  LinesOK' /\ Owned' /\ Quiet
<1>1. mem' = mem /\ dirty' = dirty
  BY DEF Load, Refetch
<1>2. PICK v \in {Miss, mem[l], cache[h][l]} :
        /\ cache' = [cache EXCEPT ![h][l] = v]
        /\ v = cache[h][l] \/ l \notin dirty[h]
  BY DEF Load, Refetch, View, Owned
<1>3. v \in Int \cup {Miss}
  BY <1>2 DEF LinesOK
<1>4. LinesOK'
  BY <1>1, <1>2, <1>3 DEF LinesOK
<1>5. /\ \A g \in Hosts : g # h => cache'[g] = cache[g]
      /\ \A k \in Lines : cache'[h][k] = IF k = l THEN v ELSE cache[h][k]
  BY <1>2 DEF LinesOK
<1>6. QuietOp(h, {})
  <2>1. \A k \in Lines : \/ cache'[h][k] = cache[h][k]
                         \/ k \notin dirty'[h] /\ cache'[h][k] \in {Miss, mem'[k]}
    BY <1>1, <1>2, <1>5
  <2> QED
    BY <1>1, <1>4, <1>5, <2>1 DEF QuietOp
<1> QED
  BY <1>6, OpIsQuiet

LEMMA FlushIsQuiet ==
  ASSUME LinesOK, Owned, chost' = chost, NEW h \in Hosts, NEW L \in SUBSET Lines,
         Flush(h, L)
  PROVE  LinesOK' /\ Owned' /\ Quiet /\ dirty'[h] \cap L = {}
<1>1. /\ mem' = [l \in Lines |-> IF l \in L \cap dirty[h]
                                  THEN cache[h][l] ELSE mem[l]]
      /\ dirty' = [dirty EXCEPT ![h] = @ \ L]
      /\ cache' = cache
  BY DEF Flush, WrittenBack, LinesOK
<1>2. \A l \in dirty[h] : l \in Lines /\ cache[h][l] \in Int
  BY DEF LinesOK, Owned
<1>3. LinesOK'
  BY <1>1, <1>2 DEF LinesOK
<1>4. QuietOp(h, L)
  BY <1>1, <1>3, Zenon DEF QuietOp, LinesOK
<1>5. dirty'[h] \cap L = {}
  BY <1>1 DEF LinesOK
<1> QED
  BY <1>4, <1>5, OpIsQuiet

LEMMA InvalidateIsQuiet ==
  ASSUME LinesOK, Owned, chost' = chost, NEW h \in Hosts, NEW L \in SUBSET Lines,
         Invalidate(h, L)
  PROVE  /\ LinesOK' /\ Owned' /\ Quiet
         /\ \A l \in L : View(h, l)' = mem'[l]
<1>1. /\ mem' = [l \in Lines |-> IF l \in L \cap dirty[h]
                                  THEN cache[h][l] ELSE mem[l]]
      /\ dirty' = [dirty EXCEPT ![h] = @ \ L]
      /\ cache' = [cache EXCEPT ![h] =
                     [l \in Lines |-> IF l \in L THEN Miss ELSE cache[h][l]]]
  BY DEF Invalidate, WrittenBack, LinesOK
<1>2. \A l \in dirty[h] : l \in Lines /\ cache[h][l] \in Int
  BY DEF LinesOK, Owned
<1>3. /\ \A g \in Hosts : g # h => cache'[g] = cache[g]
      /\ \A k \in Lines : cache'[h][k] = IF k \in L THEN Miss ELSE cache[h][k]
  BY <1>1 DEF LinesOK
<1>4. LinesOK'
  BY <1>1, <1>2 DEF LinesOK
<1>5. /\ \A k \in Lines :
           mem'[k] = IF k \in L /\ k \in dirty[h] THEN cache[h][k] ELSE mem[k]
      /\ \A g \in Hosts : dirty'[g] = IF g = h THEN dirty[g] \ L ELSE dirty[g]
  BY <1>1, Zenon DEF LinesOK
<1>6. QuietOp(h, L)
  BY <1>3, <1>4, <1>5, Zenon DEF QuietOp
<1> QED
  BY <1>3, <1>6, OpIsQuiet DEF View

LEMMA ReloadIsQuiet ==
  ASSUME LinesOK, Owned, chost' = chost, NEW h \in Hosts, NEW l \in Lines,
         Reload(h, l)
  PROVE  /\ LinesOK' /\ Owned' /\ Quiet
         /\ mem'[l] = IF h = Owner(l) THEN own[l] ELSE mem[l]
<1>1. /\ mem' = [k \in Lines |-> IF k \in {l} \cap dirty[h]
                                  THEN cache[h][k] ELSE mem[k]]
      /\ dirty' = [dirty EXCEPT ![h] = @ \ {l}]
      /\ cache' = [cache EXCEPT ![h][l] = mem'[l]]
  BY DEF Reload, WrittenBack, LinesOK
<1>2. \A k \in dirty[h] : k \in Lines /\ cache[h][k] \in Int
  BY DEF LinesOK, Owned
<1>3. mem' \in [Lines -> Int]
  BY <1>1, <1>2 DEF LinesOK
<1>4. LinesOK'
  BY <1>1, <1>3 DEF LinesOK
<1>5. /\ \A g \in Hosts : g # h => cache'[g] = cache[g]
      /\ \A k \in Lines : cache'[h][k] = IF k = l THEN mem'[l] ELSE cache[h][k]
  BY <1>1 DEF LinesOK
<1>6. /\ \A k \in Lines :
           mem'[k] = IF k \in {l} /\ k \in dirty[h] THEN cache[h][k] ELSE mem[k]
      /\ \A g \in Hosts : dirty'[g] = IF g = h THEN dirty[g] \ {l} ELSE dirty[g]
  BY <1>1, Zenon DEF LinesOK
<1>7. QuietOp(h, {l})
  BY <1>4, <1>5, <1>6 DEF QuietOp
<1>8. mem'[l] = IF h = Owner(l) THEN own[l] ELSE mem[l]
  <2>1. CASE l \in dirty[h]
    BY <2>1, <1>6 DEF Owned, own, View
  <2>2. CASE l \notin dirty[h]
    BY <2>2, <1>6 DEF Owned, own, View
  <2> QED
    BY <2>1, <2>2
<1> QED
  BY <1>7, <1>8, OpIsQuiet

(* A step that touches no line. *)
LEMMA NothingIsQuiet ==
  ASSUME LinesOK, Owned, chost' = chost, UNCHANGED fccVars
  PROVE  LinesOK' /\ Owned' /\ Quiet
<1>1. PHost \in Hosts
  BY PcqAssumption
<1>2. mem' = mem /\ cache' = cache /\ dirty' = dirty
  BY DEF fccVars
<1>3. LinesOK'
  BY <1>2 DEF LinesOK
<1>4. QuietOp(PHost, {})
  BY <1>2, <1>3 DEF QuietOp
<1> QED
  BY <1>1, <1>4, OpIsQuiet

(* A store by the owner of a line. *)
Stored(l, v) ==
  /\ mem' = mem
  /\ own' = [own EXCEPT ![l] = v]
  /\ \A h \in Hosts, k \in Lines :
       (h # Owner(l) \/ k # l) => View(h, k)' = View(h, k)
  /\ \A h \in Hosts : dirty'[h] \subseteq dirty[h] \cup {l}

LEMMA OwnerStores ==
  ASSUME LinesOK, Owned, chost' = chost, NEW l \in Lines, NEW v \in Int,
         Store(Owner(l), l, v)
  PROVE  LinesOK' /\ Owned' /\ Stored(l, v)
<1> DEFINE h == Owner(l)
<1>1. /\ \A k \in Lines : Owner(k)' = Owner(k) /\ Owner(k) \in Hosts
      /\ h \in Hosts
  BY Owners DEF Owner, LinesOK
<1>2. /\ mem' = mem
      /\ dirty' = [dirty EXCEPT ![h] = @ \cup {l}]
      /\ cache' = [cache EXCEPT ![h][l] = v]
  BY DEF Store
<1> HIDE DEF h
<1>3. LinesOK'
  BY <1>1, <1>2 DEF LinesOK
<1>4. /\ \A g \in Hosts, k \in Lines :
           cache'[g][k] = IF g = h /\ k = l THEN v ELSE cache[g][k]
      /\ \A g \in Hosts : dirty'[g] = IF g = h THEN dirty[g] \cup {l} ELSE dirty[g]
      /\ v # Miss
  BY <1>1, <1>2, PcqAssumption, Zenon DEF LinesOK
<1>5. Owned'
  BY <1>1, <1>2, <1>4 DEF Owned, h
<1>6. \A g \in Hosts, k \in Lines :
        View(g, k)' = IF g = h /\ k = l THEN v ELSE View(g, k)
  BY <1>2, <1>4 DEF View
<1>7. \A k \in Lines : View(Owner(k), k)' = IF k = l THEN v ELSE View(Owner(k), k)
  BY <1>1, <1>6 DEF h
<1>8. own' = [own EXCEPT ![l] = v]
  BY <1>7, Zenon DEF own
<1> QED
  BY <1>2, <1>3, <1>4, <1>5, <1>6, <1>8 DEF Stored, h

-----------------------------------------------------------------------------
(***************************************************************************)
(* Numbers modulo a number that is a parameter, and equal sequences.       *)
(***************************************************************************)
(* What % returns is the remainder of a division. *)
LEMMA Remainder ==
  ASSUME NEW N \in Nat \ {0}, NEW k \in Int, NEW r \in 0 .. N - 1,
         NEW a \in Int, a = (N * k) + r
  PROVE  a % N = r
OBVIOUS

LEMMA Quotient ==
  ASSUME NEW N \in Nat \ {0}, NEW a \in Nat
  PROVE  \E k \in Nat : a = (N * k) + (a % N) /\ a % N \in 0 .. N - 1
<1>1. a \div N \in Nat /\ a % N \in 0 .. N - 1
  OBVIOUS
<1>2. a = (N * (a \div N)) + (a % N)
  OBVIOUS
<1> QED
  BY <1>1, <1>2, Zenon

(* The slot of a number is a slot of the ring, *)
LEMMA ModRange ==
  ASSUME NEW N \in Nat \ {0}, NEW a \in Nat
  PROVE  a % N \in 0 .. N - 1
BY Quotient

(* the next slot is that of the next number, *)
LEMMA ModNext ==
  ASSUME NEW N \in Nat \ {0}, NEW a \in Nat
  PROVE  ((a % N) + 1) % N = (a + 1) % N
<1> DEFINE r == a % N
<1>1. PICK k \in Nat : a = (N * k) + r /\ r \in 0 .. N - 1
  BY Quotient, Zenon
<1> HIDE DEF r
<1>2. CASE r + 1 \in 0 .. N - 1
  <2>1. r + 1 = (N * 0) + (r + 1) /\ a + 1 = (N * k) + (r + 1)
    BY <1>1
  <2>2. (r + 1) % N = r + 1 /\ (a + 1) % N = r + 1
    BY <1>1, <1>2, <2>1, Remainder
  <2> QED
    BY <2>2 DEF r
<1>3. CASE r + 1 = N
  <2>1. r + 1 = (N * 1) + 0 /\ a + 1 = (N * (k + 1)) + 0 /\ 0 \in 0 .. N - 1
    BY <1>1, <1>3
  <2>2. (r + 1) % N = 0 /\ (a + 1) % N = 0
    BY <1>1, <2>1, Remainder
  <2> QED
    BY <2>2 DEF r
<1> QED
  BY <1>1, <1>2, <1>3

(* a number and the one a whole ring later share a slot, *)
LEMMA ModWrap ==
  ASSUME NEW N \in Nat \ {0}, NEW a \in Nat
  PROVE  (a + N) % N = a % N
<1>1. PICK k \in Nat : a = (N * k) + (a % N) /\ a % N \in 0 .. N - 1
  BY Quotient, Zenon
<1> DEFINE r == a % N
<1>2. r \in 0 .. N - 1 /\ a = (N * k) + r
  BY <1>1
<1> HIDE DEF r
<1>3. a + N = (N * (k + 1)) + r
  BY <1>2
<1>4. (a + N) % N = r
  BY <1>2, <1>3, Remainder
<1> QED
  BY <1>4 DEF r

(* and fewer numbers than there are slots have slots of their own. *)
LEMMA ModInjective ==
  ASSUME NEW N \in Nat \ {0}, NEW a \in Nat, NEW b \in Nat,
         a <= b, b - a < N, a % N = b % N
  PROVE  a = b
<1> DEFINE r == a % N
<1>1. PICK k \in Nat : a = (N * k) + r /\ r \in 0 .. N - 1
  BY Quotient, Zenon
<1>2. PICK l \in Nat : b = (N * l) + r
  BY Quotient, Zenon
<1> HIDE DEF r
<1>3. b - a = N * (l - k)
  BY <1>1, <1>2
<1>4. \A d \in Int : N * d \in 0 .. N - 1 => d = 0
  OBVIOUS
<1>5. l - k = 0
  <2>1. b - a \in 0 .. N - 1
    OBVIOUS
  <2> QED
    BY <1>3, <1>4, <2>1
<1> QED
  BY <1>1, <1>2, <1>5

LEMMA SameSequence ==
  ASSUME NEW S, NEW s \in Seq(S), NEW t \in Seq(S),
         Len(s) = Len(t), \A i \in 1 .. Len(s) : s[i] = t[i]
  PROVE  s = t
OBVIOUS

-----------------------------------------------------------------------------
(***************************************************************************)
(* The ring, and what a step that stores nothing preserves.                *)
(***************************************************************************)
LEMMA Ring ==
  /\ \A a \in Nat : a % NBuckets \in Buckets /\ a % NBuckets \in Nat
  /\ \A a \in Nat : next_index(a % NBuckets) = (a + 1) % NBuckets
  /\ \A a, b \in Nat : a <= b /\ b - a < NBuckets /\ a % NBuckets = b % NBuckets
                         => a = b
  /\ \A a \in Nat : (a + NBuckets) % NBuckets = a % NBuckets
<1>1. NBuckets \in Nat \ {0}
  BY PcqAssumption
<1>2. \A a \in Nat : a % NBuckets \in Buckets /\ a % NBuckets \in Nat
  BY <1>1, ModRange DEF Buckets
<1>3. \A a \in Nat : next_index(a % NBuckets) = (a + 1) % NBuckets
  BY <1>1, ModNext, Zenon DEF next_index
<1>4. \A a, b \in Nat : a <= b /\ b - a < NBuckets /\ a % NBuckets = b % NBuckets
                          => a = b
  BY <1>1, ModInjective, Zenon
<1>5. \A a \in Nat : (a + NBuckets) % NBuckets = a % NBuckets
  BY <1>1, ModWrap, Zenon
<1> QED
  BY Zenon, <1>2, <1>3, <1>4, <1>5

LEMMA Counts ==
  ASSUME TypeOK
  PROVE  /\ LinesOK
         /\ chost \in Hosts
         /\ p \in PutLocals /\ c \in GetLocals
         /\ p.nsent \in Nat /\ nput \in Nat /\ reserved \in Nat
         /\ nget \in Nat /\ taken \in Nat /\ nget <= taken
         /\ nput % NBuckets \in Buckets
         /\ nget % NBuckets \in Buckets
<1>1. LinesOK /\ chost \in Hosts /\ p \in PutLocals /\ c \in GetLocals
  BY DEF TypeOK, LinesOK
<1>2. p.nsent \in Nat
  BY <1>1 DEF PutLocals
<1>3. nget \in Nat
  BY DEF TypeOK, nget
<1>4. nput \in Nat /\ reserved \in Nat /\ taken \in Nat /\ nget <= taken
  BY <1>2, <1>3 DEF nput, reserved, taken
<1> QED
  BY Zenon, <1>1, <1>2, <1>3, <1>4, Ring

LEMMA Bounds ==
  ASSUME PcqInv
  PROVE  /\ taken <= nput /\ nput <= reserved
         /\ reserved <= nget + NBuckets - 1
<1>1. TypeOK /\ Published /\ Room
  BY DEF PcqInv
<1>2. p.nsent \in Nat /\ nput \in Nat /\ reserved \in Nat /\ nget \in Nat /\ taken \in Nat
  BY <1>1, Counts
<1>3. taken <= nput
  BY <1>1, <1>2 DEF Published
<1>4. reserved <= nget + NBuckets - 1
  BY <1>1, <1>2, PcqAssumption DEF Room, RoomFor
<1>5. nput <= reserved
  BY <1>2 DEF nput, reserved
<1> QED
  BY <1>3, <1>4, <1>5

LEMMA IntactKept ==
  ASSUME PcqInv, Quiet, nget' = nget, nput' = nput
  PROVE  Intact'
<1> SUFFICES ASSUME NEW k \in nget .. nput - 1, NEW q \in Parts
             PROVE  mem'[<<k % NBuckets, q>>] = k /\ own'[<<k % NBuckets, q>>] = k
  BY DEF Intact
<1>1. k \in Nat
  BY Counts DEF PcqInv
<1>2. <<k % NBuckets, q>> \in Lines
  BY <1>1, Ring, PcqLines
<1> QED
  BY <1>2 DEF PcqInv, Intact, Quiet

LEMMA PublishedKept ==
  ASSUME PcqInv, Quiet, nput' = nput, taken' \in Nat, taken' <= taken
  PROVE  Published'
<1>1. taken \in Nat /\ nput \in Nat /\ taken <= nput
  BY Counts, Bounds DEF PcqInv
<1>2. PICK M \in taken .. nput : mem[producer_index] = M % NBuckets
  BY DEF PcqInv, Published
<1>3. mem'[producer_index] = mem[producer_index] \/ mem'[producer_index] = nput % NBuckets
  BY PcqLines DEF Quiet, PcqInv, Producing
<1>4. M \in taken' .. nput' /\ nput \in taken' .. nput'
  BY <1>1, <1>2
<1> QED
  BY <1>2, <1>3, <1>4 DEF Published

LEMMA RoomKept ==
  ASSUME PcqInv, Quiet, chost' = chost, nget' = nget,
         NEW n \in Nat, RoomFor(n), reserved' \in Nat, reserved' <= n
  PROVE  Room'
<1>1. nget \in Nat /\ chost \in Hosts /\ NBuckets \in Nat
  BY Counts, PcqAssumption DEF PcqInv
<1>2. PICK j \in 0 .. nget :
        /\ View(PHost, consumer_index) = j % NBuckets
        /\ n <= j + NBuckets - 1
        /\ chost # PHost => \E m \in j .. nget : mem[consumer_index] = m % NBuckets
  BY DEF RoomFor
<1>3. own[consumer_index] = nget % NBuckets
  BY DEF PcqInv, Consuming
<1>4. CASE chost = PHost
  <2>1. View(PHost, consumer_index)' = View(PHost, consumer_index)
    <3>1. own'[consumer_index] = own[consumer_index]
      BY DEF Quiet
    <3>2. own[consumer_index] = View(PHost, consumer_index)
      BY <1>1, <1>4, Owners, PcqLines DEF own
    <3>3. own'[consumer_index] = View(PHost, consumer_index)'
      BY <1>1, <1>4, Owners, PcqLines DEF own, Owner
    <3> QED
      BY <3>1, <3>2, <3>3
  <2>2. reserved' <= j + NBuckets - 1 /\ j \in 0 .. nget'
    BY <1>1, <1>2
  <2>3. View(PHost, consumer_index)' = j % NBuckets
    BY Zenon, <1>2, <2>1
  <2> QED
    BY Zenon, <1>4, <2>2, <2>3 DEF Room, RoomFor
<1>5. CASE chost # PHost
  <2>1. PICK m \in j .. nget : mem[consumer_index] = m % NBuckets
    BY <1>2, <1>5
  <2>2. PICK i \in j .. nget : mem'[consumer_index] = i % NBuckets
    <3>1. mem'[consumer_index] = mem[consumer_index] \/ mem'[consumer_index] = own[consumer_index]
      BY PcqLines DEF Quiet
    <3>2. nget \in j .. nget
      BY <1>1, <1>2
    <3> QED
      BY <3>1, <3>2, <2>1, <1>3
  <2>3. \/ View(PHost, consumer_index)' = j % NBuckets
        \/ View(PHost, consumer_index)' = i % NBuckets
    BY <1>2, <2>2, PcqLines, PcqAssumption DEF Quiet
  <2>4. /\ i \in 0 .. nget' /\ i \in i .. nget' /\ j \in 0 .. nget' /\ i \in j .. nget'
        /\ reserved' <= i + NBuckets - 1 /\ reserved' <= j + NBuckets - 1
    BY <1>1, <1>2, <2>2
  <2> QED
    BY Zenon, <2>2, <2>3, <2>4 DEF Room, RoomFor
<1> QED
  BY <1>4, <1>5

(* What the consumer relies on is its own or in memory. *)
LEMMA FreshKept ==
  ASSUME PcqInv, Intact', chost' = chost, c' = c, out' = out,
         nput' \in Nat, nput <= nput',
         \A q \in Parts :
           LET l == <<nget % NBuckets, q>>
           IN  nget < nput => \/ View(chost, l)' = View(chost, l)
                              \/ View(chost, l)' = mem'[l]
  PROVE  Fresh'
<1>1. nget' = nget
  BY DEF nget
<1> SUFFICES ASSUME c.pc \in {"copy", "crc"},
                    c.retries < CONSUMER_NRETRIES \/ chost = PHost,
                    NEW q \in Parts
             PROVE  /\ View(chost, <<nget % NBuckets, q>>)' = nget
                    /\ q \in c.todo \/ c.entry[q] = nget
  BY <1>1 DEF Fresh
<1>2. /\ View(chost, <<nget % NBuckets, q>>) = nget
      /\ q \in c.todo \/ c.entry[q] = nget
  BY DEF PcqInv, Fresh
<1>3. nget < nput /\ nget \in nget' .. nput' - 1
  <2>1. taken = nget + 1
    BY DEF taken
  <2>2. nget \in Nat /\ nput \in Nat /\ taken <= nput
    BY Counts, Bounds DEF PcqInv
  <2> QED
    BY <2>1, <2>2, <1>1
<1>4. mem'[<<nget % NBuckets, q>>] = nget
  BY <1>1, <1>3, Zenon DEF Intact
<1>5. LET l == <<nget % NBuckets, q>>
      IN  View(chost, l)' = View(chost, l) \/ View(chost, l)' = mem'[l]
  BY <1>3
<1> QED
  BY <1>1, <1>2, <1>4, <1>5

LEMMA QuietFresh ==
  ASSUME PcqInv, Quiet, Intact', chost' = chost, c' = c, out' = out,
         nput' = nput
  PROVE  Fresh'
<1>1. nput \in Nat /\ nput <= nput' /\ chost \in Hosts
      /\ nget % NBuckets \in Buckets /\ nget' = nget
  BY Counts DEF PcqInv, nget
<1>2. \A q \in Parts :
        LET l == <<nget % NBuckets, q>>
        IN  View(chost, l)' = View(chost, l) \/ View(chost, l)' = mem'[l]
  BY <1>1, PcqLines DEF Quiet
<1> QED
  BY <1>1, <1>2, FreshKept

LEMMA ProducingCarries ==
  ASSUME Producing, p' = p,
         own'[producer_index] = own[producer_index],
         own'[producer_seq] = own[producer_seq],
         producer_index \in dirty'[PHost] => producer_index \in dirty[PHost],
         \A q \in Parts :
           /\ own'[<<p.index, q>>] = own[<<p.index, q>>]
           /\ <<p.index, q>> \in dirty'[PHost] => <<p.index, q>> \in dirty[PHost]
  PROVE  Producing'
<1>1. nput' = nput
  BY DEF nput
<1> QED
  BY Zenon, <1>1 DEF Producing

LEMMA ProducingKept ==
  ASSUME PcqInv, Quiet, p' = p
  PROVE  Producing'
<1>1. own' = own /\ dirty'[PHost] \subseteq dirty[PHost]
  BY PcqAssumption DEF Quiet
<1> QED
  BY <1>1, ProducingCarries DEF PcqInv

LEMMA ConsumingKept ==
  ASSUME PcqInv, chost' = chost, c' = c, out' = out,
         own'[consumer_index] = own[consumer_index],
         own'[consumer_seq] = own[consumer_seq]
  PROVE  Consuming'
<1>1. nget' = nget
  BY DEF nget
<1> QED
  BY <1>1 DEF PcqInv, Consuming, RetryRepairsCrc, CoherentNeverFatal

(* A step that stores nothing and leaves both threads where they are. *)
LEMMA QuietStep ==
  ASSUME PcqInv, LinesOK', Owned', Quiet,
         UNCHANGED <<chost, timed, p, c, out>>, stop' \subseteq {"p", "c"}
  PROVE  PcqInv'
<1>1. nget' = nget /\ nput' = nput /\ taken' = taken /\ reserved' = reserved
  BY DEF nget, nput, taken, reserved
<1>2. taken \in Nat /\ reserved \in Nat
  BY Counts DEF PcqInv
<1>3. Intact' /\ Published' /\ Room'
  BY <1>1, <1>2, IntactKept, PublishedKept, RoomKept DEF PcqInv, Room
<1>4. Fresh' /\ Producing' /\ Consuming'
  BY <1>1, <1>3, QuietFresh, ProducingKept, ConsumingKept DEF Quiet
<1>5. TypeOK'
  BY DEF PcqInv, TypeOK, LinesOK
<1>6. Draining'
  BY <1>1 DEF PcqInv, Draining, DrainEmpties
<1> QED
  BY <1>3, <1>4, <1>5, <1>6 DEF PcqInv

LEMMA HardwareStep ==
  ASSUME PcqInv, Hardware, UNCHANGED <<chost, timed>>
  PROVE  PcqInv'
<1>1. LinesOK /\ Owned
  BY Counts DEF PcqInv
<1>2. UNCHANGED <<p, c, stop, out>>
  BY DEF Hardware
<1>3. stop' \subseteq {"p", "c"}
  BY <1>2 DEF PcqInv, TypeOK
<1>4. ASSUME NEW h \in Hosts, NEW l \in ReadBy(h), Refetch(h, l)
      PROVE  LinesOK' /\ Owned' /\ Quiet
  <2>1. l \in Lines
    BY PcqLines DEF ReadBy, Lines
  <2> QED
    BY <1>1, <1>4, <2>1, LoadIsQuiet
<1>5. ASSUME NEW h \in Hosts, NEW l \in Lines, WriteBack(h, l)
      PROVE  LinesOK' /\ Owned' /\ Quiet
  BY <1>1, <1>5, FlushIsQuiet DEF WriteBack
<1>6. LinesOK' /\ Owned' /\ Quiet
  BY <1>4, <1>5 DEF Hardware
<1> QED
  BY <1>2, <1>3, <1>6, QuietStep

LEMMA StopStep ==
  ASSUME PcqInv, NEW t \in {"p", "c"}, StopNow(t), UNCHANGED <<chost, timed>>
  PROVE  PcqInv'
<1>1. UNCHANGED fccVars /\ UNCHANGED <<p, c, out>> /\ stop' = stop \cup {t}
  BY DEF StopNow
<1>2. stop' \subseteq {"p", "c"}
  BY <1>1 DEF PcqInv, TypeOK
<1>3. LinesOK' /\ Owned' /\ Quiet
  BY <1>1, Counts, NothingIsQuiet DEF PcqInv
<1> QED
  BY <1>1, <1>2, <1>3, QuietStep

(* The put finds the queue full and looks again. *)
LEMMA WaitStep ==
  ASSUME PcqInv, put_wait, UNCHANGED <<chost, timed>>
  PROVE  PcqInv'
<1>1. Invalidate(PHost, {consumer_index}) /\ UNCHANGED <<p, c, stop, out>>
  BY DEF put_wait
<1>2. stop' \subseteq {"p", "c"}
  BY <1>1 DEF PcqInv, TypeOK
<1>3. LinesOK' /\ Owned' /\ Quiet
  BY <1>1, Counts, InvalidateIsQuiet, PcqLines, PcqAssumption DEF PcqInv
<1> QED
  BY <1>1, <1>2, <1>3, QuietStep

-----------------------------------------------------------------------------
(***************************************************************************)
(* The steps of pcq_producer_put.                                          *)
(***************************************************************************)

(* While a put runs, no drain does. *)
LEMMA ProducerStep ==
  ASSUME PcqInv, TypeOK', Owned', UNCHANGED <<chost, timed, c, out>>,
         p.pc # "done",
         own'[consumer_index] = own[consumer_index],
         own'[consumer_seq] = own[consumer_seq],
         Producing', Fresh', Intact', Published', Room'
  PROVE  PcqInv'
<1>1. Consuming'
  BY ConsumingKept
<1>2. ~c.drain
  BY DEF PcqInv, Draining
<1>3. Draining'
  BY <1>2 DEF Draining, DrainEmpties
<1> QED
  BY <1>1, <1>3 DEF PcqInv

(* The same, for a step that stores nothing and puts nothing. *)
LEMMA QuietPut ==
  ASSUME PcqInv, LinesOK', Owned', Quiet,
         UNCHANGED <<chost, timed, c, stop, out>>, p.pc # "done",
         p' \in PutLocals, nput' = nput, NEW n \in Nat, RoomFor(n),
         reserved' \in Nat, reserved' <= n,
         Producing'
  PROVE  PcqInv'
<1>1. nget' = nget /\ taken' = taken
  BY DEF nget, taken
<1>2. taken \in Nat
  BY Counts DEF PcqInv
<1>3. Intact' /\ Published'
  BY <1>1, <1>2, IntactKept, PublishedKept
<1>4. Room'
  BY <1>1, RoomKept
<1>5. Fresh'
  BY <1>3, QuietFresh
<1>6. TypeOK'
  BY DEF PcqInv, TypeOK, LinesOK
<1>7. /\ own'[consumer_index] = own[consumer_index]
      /\ own'[consumer_seq] = own[consumer_seq]
  BY DEF Quiet
<1> QED
  BY <1>3, <1>4, <1>5, <1>6, <1>7, ProducerStep

(* The queue is not full: the put has a bucket to itself. *)
LEMMA NotFullStep ==
  ASSUME PcqInv, put_not_full, UNCHANGED <<chost, timed>>
  PROVE  PcqInv'
<1>1. /\ p.pc = "check" /\ ~full
      /\ Load(PHost, consumer_index)
      /\ p' = [p EXCEPT !.pc = "seq", !.index = View(PHost, producer_index)]
      /\ UNCHANGED <<c, stop, out>>
  BY DEF put_not_full
<1>2. /\ LinesOK /\ Owned /\ Producing /\ Room /\ p \in PutLocals
      /\ p.nsent \in Nat /\ nget \in Nat /\ nput \in Nat /\ reserved \in Nat
      /\ nput % NBuckets \in Buckets /\ NBuckets \in Nat
      /\ chost \in Hosts
  BY Counts, PcqAssumption DEF PcqInv
<1>3. LinesOK' /\ Owned' /\ Quiet
  BY SMTT(30), <1>1, <1>2, LoadIsQuiet, PcqLines, PcqAssumption
<1>4. View(PHost, producer_index) = nput % NBuckets
  BY <1>2, Owners, PcqLines DEF own, Producing
<1>5. /\ p' \in PutLocals /\ p'.pc = "seq" /\ p'.nsent = p.nsent
      /\ p'.index = nput % NBuckets
  BY Zenon, <1>1, <1>2, <1>4 DEF PutLocals
<1>6. /\ nput = p.nsent /\ nput' = p.nsent
      /\ reserved = p.nsent /\ reserved' = p.nsent + 1
  BY <1>1, <1>2, <1>5 DEF nput, reserved
<1>7. RoomFor(p.nsent + 1)
  <2>1. PICK j \in 0 .. nget :
          /\ View(PHost, consumer_index) = j % NBuckets
          /\ reserved <= j + NBuckets - 1
          /\ chost # PHost => \E m \in j .. nget : mem[consumer_index] = m % NBuckets
    BY <1>2, Zenon DEF Room, RoomFor
  <2>2. (p.nsent + 1) % NBuckets # j % NBuckets
    BY <1>1, <1>2, <1>4, <1>6, <2>1, Ring DEF full
  <2>3. p.nsent + 1 # j + NBuckets
    <3>1. j \in Nat
      BY <1>2
    <3> QED
      BY Zenon, <2>2, <3>1, Ring
  <2>4. /\ p.nsent <= j + NBuckets - 1
        /\ p.nsent \in Nat /\ j \in Nat /\ NBuckets \in Nat
    BY <1>2, <1>6, <2>1
  <2>5. p.nsent + 1 <= j + NBuckets - 1
    BY <2>3, <2>4
  <2> QED
    BY Zenon, <2>1, <2>5 DEF RoomFor
<1>8. Producing'
  <2>1. own' = own /\ dirty'[PHost] \subseteq dirty[PHost]
    BY <1>3, PcqAssumption DEF Quiet
  <2>2. producer_index \notin dirty'[PHost]
    BY <1>1, <1>2, <2>1 DEF Producing
  <2> QED
    BY SMTT(30), <1>1, <1>2, <1>5, <1>6, <2>1, <2>2 DEF Producing
<1> QED
  BY <1>1, <1>2, <1>3, <1>5, <1>6, <1>7, <1>8, QuietPut

(* The wait for room ends because the thread is to stop. *)
LEMMA StoppedStep ==
  ASSUME PcqInv, put_stopped, UNCHANGED <<chost, timed>>
  PROVE  PcqInv'
<1>1. /\ p.pc = "check"
      /\ UNCHANGED fccVars
      /\ p' = [p EXCEPT !.pc = "done"]
      /\ UNCHANGED <<c, stop, out>>
  BY DEF put_stopped
<1>2. /\ LinesOK /\ Owned /\ Producing /\ Room /\ p \in PutLocals
      /\ p.nsent \in Nat /\ reserved \in Nat
  BY Counts DEF PcqInv
<1>3. LinesOK' /\ Owned' /\ Quiet
  BY <1>1, <1>2, NothingIsQuiet
<1>4. p' \in PutLocals /\ p'.pc = "done" /\ p'.nsent = p.nsent
  BY Zenon, <1>1, <1>2 DEF PutLocals
<1>5. nput' = nput /\ reserved' = reserved
  BY <1>1, <1>4 DEF nput, reserved
<1>6. Producing'
  <2>1. own' = own /\ dirty'[PHost] \subseteq dirty[PHost]
    BY <1>3, PcqAssumption DEF Quiet
  <2>2. producer_index \notin dirty'[PHost]
    BY <1>1, <1>2, <2>1 DEF Producing
  <2> QED
    BY <1>1, <1>2, <1>4, <1>5, <2>1, <2>2 DEF Producing
<1> QED
  BY <1>1, <1>2, <1>3, <1>4, <1>5, <1>6, QuietPut DEF Room

(* The bucket is flushed before the index moves. *)
LEMMA FlushBucketStep ==
  ASSUME PcqInv, put_flush_bucket, UNCHANGED <<chost, timed>>
  PROVE  PcqInv'
<1> DEFINE L == {p.index} \X Parts
<1>1. /\ p.pc = "flush"
      /\ Flush(PHost, L)
      /\ p' = [p EXCEPT !.pc = "index"]
      /\ UNCHANGED <<c, stop, out>>
  BY DEF put_flush_bucket
<1>2. /\ LinesOK /\ Owned /\ Producing /\ Room /\ p \in PutLocals
      /\ p.nsent \in Nat /\ reserved \in Nat
  BY Counts DEF PcqInv
<1>3. L \in SUBSET Lines
  BY <1>2, PcqLines DEF PutLocals
<1>4. LinesOK' /\ Owned' /\ Quiet /\ dirty'[PHost] \cap L = {}
  <2> HIDE DEF L
  <2> QED
    BY <1>1, <1>2, <1>3, FlushIsQuiet, PcqAssumption
<1>5. /\ p' \in PutLocals /\ p'.pc = "index" /\ p'.nsent = p.nsent
      /\ p'.index = p.index /\ p'.seq = p.seq
  BY Zenon, <1>1, <1>2 DEF PutLocals
<1>6. nput' = nput /\ reserved' = reserved
  BY <1>1, <1>5 DEF nput, reserved
<1>7. Producing'
  <2>1. own' = own /\ dirty'[PHost] \subseteq dirty[PHost]
    BY <1>4, PcqAssumption DEF Quiet
  <2>2. producer_index \notin dirty'[PHost]
    BY <1>1, <1>2, <2>1 DEF Producing
  <2>3. \A q \in Parts : /\ <<p.index, q>> \notin dirty'[PHost]
                         /\ own[<<p.index, q>>] = p.nsent
    BY <1>1, <1>2, <1>4 DEF Producing
  <2> QED
    BY <1>1, <1>2, <1>5, <1>6, <2>1, <2>2, <2>3 DEF Producing
<1> QED
  BY <1>1, <1>2, <1>4, <1>5, <1>6, <1>7, QuietPut DEF Room

(* The flush of the index ends the put. *)
LEMMA PublishStep ==
  ASSUME PcqInv, put_publish, UNCHANGED <<chost, timed>>
  PROVE  PcqInv'
<1>1. /\ p.pc = "publish"
      /\ Flush(PHost, {producer_index})
      /\ p' = [p EXCEPT !.nsent = @ + 1, !.index = 0, !.seq = 0,
                        !.pc = IF p.nsent + 1 >= NMessages \/ pstop
                               THEN "done" ELSE "check"]
      /\ UNCHANGED <<c, stop, out>>
  BY DEF put_publish
<1>2. /\ LinesOK /\ Owned /\ Producing /\ Room /\ p \in PutLocals
      /\ p.nsent \in Nat /\ reserved \in Nat
  BY Counts DEF PcqInv
<1>3. LinesOK' /\ Owned' /\ Quiet /\ dirty'[PHost] \cap {producer_index} = {}
  BY <1>1, <1>2, FlushIsQuiet, PcqLines, PcqAssumption
<1>4. 0 \in Buckets /\ p.nsent + 1 \in Nat
  BY <1>2, PcqAssumption DEF Buckets
<1>5. /\ p' \in PutLocals /\ p'.pc \in {"check", "done"} /\ p'.nsent = p.nsent + 1
  BY Zenon, <1>1, <1>2, <1>4 DEF PutLocals
<1>6. nput' = nput /\ reserved' = reserved
  BY <1>1, <1>2, <1>5 DEF nput, reserved
<1>7. Producing'
  <2>1. own' = own /\ producer_index \notin dirty'[PHost]
    BY <1>3 DEF Quiet
  <2> QED
    BY <1>1, <1>2, <1>5, <1>6, <2>1 DEF Producing
<1> QED
  BY <1>1, <1>2, <1>3, <1>5, <1>6, <1>7, QuietPut DEF Room

(* A store of the producer's leaves what the consumer works with alone. *)
LEMMA StorePut ==
  ASSUME PcqInv, NEW l \in Lines, NEW v \in Int,
         LinesOK', Owned', Stored(l, v), Owner(l) = PHost,
         l # consumer_index, l # consumer_seq,
         UNCHANGED <<chost, timed, c, stop, out>>, p.pc # "done",
         p' \in PutLocals, nput' \in Nat, nput <= nput', reserved' = reserved,
         \A q \in Parts : nget < nput => l # <<nget % NBuckets, q>>,
         Producing', Intact'
  PROVE  PcqInv'
<1>1. nget' = nget /\ taken' = taken
  BY DEF nget, taken
<1>2. /\ chost \in Hosts /\ taken \in Nat /\ nput \in Nat
      /\ nget % NBuckets \in Buckets
  BY Counts DEF PcqInv
<1>3. /\ mem' = mem
      /\ own'[consumer_index] = own[consumer_index]
      /\ own'[consumer_seq] = own[consumer_seq]
      /\ \A h \in Hosts, k \in Lines : k # l => View(h, k)' = View(h, k)
  BY PcqLines, Zenon DEF Stored, own
<1>4. Published'
  <2>1. PICK M \in taken .. nput : mem[producer_index] = M % NBuckets
    BY DEF PcqInv, Published
  <2>2. M \in taken' .. nput'
    BY <1>1, <1>2, <2>1
  <2> QED
    BY <1>3, <2>1, <2>2 DEF Published
<1>5. Room'
  <2>1. View(PHost, consumer_index)' = View(PHost, consumer_index)
    BY SMTT(30), <1>3, PcqLines, PcqAssumption
  <2> QED
    BY SMTT(30), <1>1, <1>3, <2>1 DEF PcqInv, Room, RoomFor
<1>6. Fresh'
  <2>1. \A q \in Parts :
          LET k == <<nget % NBuckets, q>>
          IN  nget < nput => View(chost, k)' = View(chost, k)
    BY <1>1, <1>2, <1>3, PcqLines
  <2> QED
    BY <2>1, FreshKept
<1>7. TypeOK'
  BY DEF PcqInv, TypeOK, LinesOK
<1> QED
  BY <1>3, <1>4, <1>5, <1>6, <1>7, ProducerStep

LEMMA PutSeqStep ==
  ASSUME PcqInv, put_seq, UNCHANGED <<chost, timed>>
  PROVE  PcqInv'
<1>1. /\ p.pc = "seq"
      /\ p' = [p EXCEPT !.pc = "copy", !.todo = Parts,
                        !.seq = View(PHost, producer_seq)]
      /\ Store(PHost, producer_seq, View(PHost, producer_seq) + 1)
      /\ UNCHANGED <<c, stop, out>>
  BY DEF put_seq
<1>2. /\ LinesOK /\ Owned /\ Producing /\ Intact /\ p \in PutLocals
      /\ p.nsent \in Nat /\ nput \in Nat /\ nget \in Nat
      /\ chost \in Hosts /\ nget % NBuckets \in Buckets
  BY Counts DEF PcqInv
<1>3. View(PHost, producer_seq) = p.nsent
  BY <1>1, <1>2, Owners, PcqLines DEF own, Producing
<1>4. LinesOK' /\ Owned' /\ Stored(producer_seq, p.nsent + 1)
  <2>1. Store(Owner(producer_seq), producer_seq, p.nsent + 1)
    BY <1>1, <1>2, <1>3, Owners
  <2> QED
    BY <1>2, <2>1, OwnerStores, PcqLines
<1>5. /\ p' \in PutLocals /\ p'.pc = "copy" /\ p'.nsent = p.nsent
      /\ p'.index = p.index /\ p'.seq = p.nsent /\ p'.todo = Parts
  BY Zenon, <1>1, <1>2, <1>3 DEF PutLocals
<1>6. nput' = nput /\ nput = p.nsent /\ reserved' = reserved /\ nget' = nget
  BY SMTT(30), <1>1, <1>2, <1>5 DEF nput, reserved, nget
<1>7. /\ mem' = mem
      /\ own'[producer_seq] = p.nsent + 1
      /\ \A k \in Lines : k # producer_seq => own'[k] = own[k]
      /\ dirty'[PHost] \subseteq dirty[PHost] \cup {producer_seq}
  BY <1>4, PcqLines, PcqAssumption, Zenon DEF Stored, own
<1>8. Producing'
  <2>1. own'[producer_index] = own[producer_index]
    BY <1>7, PcqLines
  <2>2. producer_index \notin dirty'[PHost]
    BY <1>1, <1>2, <1>7, PcqLines DEF Producing
  <2> QED
    BY <1>1, <1>2, <1>5, <1>6, <1>7, <2>1, <2>2 DEF Producing
<1>9. Intact'
  <2> SUFFICES ASSUME NEW k \in nget .. nput - 1, NEW q \in Parts
               PROVE  mem'[<<k % NBuckets, q>>] = k /\ own'[<<k % NBuckets, q>>] = k
    BY <1>6 DEF Intact
  <2>1. k % NBuckets \in Buckets
    <3>1. k \in Nat
      BY <1>2
    <3> QED
      BY Zenon, <3>1, Ring
  <2>2. <<k % NBuckets, q>> \in Lines /\ <<k % NBuckets, q>> # producer_seq
    BY Zenon, <2>1, PcqLines
  <2> QED
    BY <1>2, <1>7, <2>2 DEF Intact
<1>10. /\ Owner(producer_seq) = PHost
       /\ producer_seq \in Lines /\ producer_seq # consumer_index
       /\ producer_seq # consumer_seq
       /\ \A q \in Parts : producer_seq # <<nget % NBuckets, q>>
  BY <1>2, Owners, PcqLines
<1>11. p.nsent + 1 \in Int /\ nput' \in Nat /\ nput <= nput' /\ p.pc # "done"
  BY <1>1, <1>2, <1>6
<1> QED
  BY SMTT(30), <1>1, <1>4, <1>5, <1>6, <1>8, <1>9, <1>10, <1>11, StorePut

(* The bucket of the put is none of those that hold a message. *)
LEMMA OwnBucket ==
  ASSUME PcqInv, p.pc \in {"seq", "copy", "flush", "index"},
         NEW k \in nget .. nput - 1
  PROVE  /\ p.index \in Buckets /\ p.index = nput % NBuckets /\ nput = p.nsent
         /\ k % NBuckets \in Buckets
         /\ k % NBuckets # p.index
<1>1. /\ p.nsent \in Nat /\ nput \in Nat /\ nget \in Nat /\ reserved \in Nat
      /\ nput % NBuckets \in Buckets /\ NBuckets \in Nat
  BY Counts, PcqAssumption DEF PcqInv
<1>2. nput = p.nsent /\ reserved = p.nsent + 1
  <2>1. p.nsent \in Nat
    BY <1>1
  <2> QED
    BY <2>1 DEF nput, reserved
<1>3. p.index = nput % NBuckets
  BY <1>2 DEF PcqInv, Producing
<1>4. reserved <= nget + NBuckets - 1
  BY Bounds
<1>5. k \in Nat /\ k <= nput /\ nput - k < NBuckets /\ k # nput
  BY <1>1, <1>2, <1>4
<1>6. k % NBuckets # nput % NBuckets
  BY Zenon, <1>1, <1>5, Ring
<1> QED
  BY Zenon, <1>1, <1>2, <1>3, <1>5, <1>6, Ring

LEMMA PutMemcpyStep ==
  ASSUME PcqInv, NEW q \in Parts, put_memcpy(q), UNCHANGED <<chost, timed>>
  PROVE  PcqInv'
<1> DEFINE l == <<p.index, q>>
<1>1. /\ p.pc = "copy" /\ q \in p.todo
      /\ Store(PHost, l, p.seq)
      /\ p' = [p EXCEPT !.todo = @ \ {q},
                        !.pc = IF p.todo = {q} THEN "flush" ELSE "copy"]
      /\ UNCHANGED <<c, stop, out>>
  BY DEF put_memcpy
<1>2. /\ LinesOK /\ Owned /\ Producing /\ Intact /\ p \in PutLocals
      /\ p.nsent \in Nat /\ nput \in Nat /\ nget \in Nat
      /\ chost \in Hosts /\ nget % NBuckets \in Buckets
      /\ nput % NBuckets \in Buckets
  BY Counts DEF PcqInv
<1>3. p.seq = p.nsent /\ p.index = p.nsent % NBuckets /\ nput = p.nsent
  BY <1>1, <1>2 DEF Producing, nput
<1>4. /\ p.index \in Buckets /\ l \in Lines /\ l # producer_index
      /\ l # producer_seq /\ l # consumer_index /\ l # consumer_seq
      /\ Owner(l) = PHost
  BY <1>2, <1>3, PcqLines, Owners
<1>5. /\ p' \in PutLocals /\ p'.nsent = p.nsent
      /\ p'.index = p.index /\ p'.seq = p.seq /\ p'.todo = p.todo \ {q}
      /\ p'.pc = IF p.todo = {q} THEN "flush" ELSE "copy"
  BY Zenon, <1>1, <1>2 DEF PutLocals
<1> HIDE DEF l
<1>6. LinesOK' /\ Owned' /\ Stored(l, p.nsent)
  BY SMTT(30), <1>1, <1>2, <1>3, <1>4, OwnerStores
<1>7. /\ mem' = mem
      /\ own'[l] = p.nsent
      /\ \A k \in Lines : k # l => own'[k] = own[k]
      /\ dirty'[PHost] \subseteq dirty[PHost] \cup {l}
  BY <1>4, <1>6, PcqAssumption, Zenon DEF Stored, own
<1>8. nput' = nput /\ reserved' = reserved /\ nget' = nget
  BY <1>1, <1>2, <1>5 DEF nput, reserved, nget
<1>9. Producing'
  <2>1. /\ own'[producer_index] = own[producer_index]
        /\ own'[producer_seq] = own[producer_seq]
    BY <1>4, <1>7, PcqLines
  <2>2. producer_index \notin dirty'[PHost]
    BY <1>1, <1>2, <1>4, <1>7 DEF Producing
  <2>3. ASSUME NEW r \in Parts
        PROVE  r \in p'.todo \/ own'[<<p.index, r>>] = p.nsent
    <3>1. CASE r = q
      BY <3>1, <1>7 DEF l
    <3>2. CASE r # q
      <4>1. <<p.index, r>> \in Lines /\ <<p.index, r>> # l
        BY <3>2, <1>4, PcqLines DEF l
      <4> QED
        BY SMTT(30), <3>2, <4>1, <1>1, <1>2, <1>5, <1>7 DEF Producing
    <3> QED
      BY <3>1, <3>2
  <2>4. p'.pc = "flush" => p'.todo = {}
    BY <1>5
  <2>5. p'.pc \in {"copy", "flush"}
    BY <1>5
  <2> QED
    BY <1>1, <1>2, <1>3, <1>5, <1>8, <2>1, <2>2, <2>3, <2>4, <2>5 DEF Producing
<1>10. Intact'
  <2> SUFFICES ASSUME NEW k \in nget .. nput - 1, NEW r \in Parts
               PROVE  mem'[<<k % NBuckets, r>>] = k /\ own'[<<k % NBuckets, r>>] = k
    BY <1>8 DEF Intact
  <2>1. k % NBuckets \in Buckets /\ k % NBuckets # p.index
    BY <1>1, OwnBucket
  <2>2. <<k % NBuckets, r>> \in Lines /\ <<k % NBuckets, r>> # l
    BY <2>1, PcqLines DEF l
  <2> QED
    BY <1>2, <1>7, <2>2 DEF Intact
<1>11. ASSUME NEW r \in Parts, nget < nput
       PROVE  l # <<nget % NBuckets, r>>
  <2>1. nget \in nget .. nput - 1
    BY <1>2, <1>11
  <2>2. nget % NBuckets # p.index
    BY <1>1, <2>1, OwnBucket
  <2> QED
    BY <2>2 DEF l
<1>12. p.nsent \in Int /\ nput' \in Nat /\ nput <= nput' /\ p.pc # "done"
  BY <1>1, <1>2, <1>8
<1> QED
  BY <1>1, <1>4, <1>5, <1>6, <1>8, <1>9, <1>10, <1>11, <1>12, StorePut, Zenon

LEMMA PutIndexStep ==
  ASSUME PcqInv, put_index, UNCHANGED <<chost, timed>>
  PROVE  PcqInv'
<1>1. /\ p.pc = "index"
      /\ Store(PHost, producer_index, next_index(p.index))
      /\ p' = [p EXCEPT !.pc = "publish"]
      /\ UNCHANGED <<c, stop, out>>
  BY DEF put_index
<1>2. /\ LinesOK /\ Owned /\ Producing /\ Intact /\ p \in PutLocals
      /\ p.nsent \in Nat /\ nput \in Nat /\ nget \in Nat
      /\ chost \in Hosts /\ nget % NBuckets \in Buckets
  BY Counts DEF PcqInv
<1>3. /\ p' \in PutLocals /\ p'.pc = "publish" /\ p'.nsent = p.nsent
      /\ p'.index = p.index /\ p'.seq = p.seq /\ p'.todo = p.todo
  BY Zenon, <1>1, <1>2 DEF PutLocals
<1>4. nput = p.nsent /\ nput' = nput + 1 /\ reserved' = reserved /\ nget' = nget
  BY <1>1, <1>2, <1>3 DEF nput, reserved, nget
<1>5. /\ p.index = nput % NBuckets /\ p.index \in Buckets
      /\ next_index(p.index) = nput' % NBuckets /\ nput' % NBuckets \in Int
  <2>1. p.index = p.nsent % NBuckets
    BY <1>1, <1>2 DEF Producing
  <2>2. nput' \in Nat
    BY <1>2, <1>4
  <2>3. /\ nput % NBuckets \in Buckets
        /\ next_index(nput % NBuckets) = (nput + 1) % NBuckets
        /\ nput' % NBuckets \in Nat
    BY Zenon, <1>2, <2>2, Ring
  <2>4. \A n \in Nat : n \in Int
    OBVIOUS
  <2> QED
    BY Zenon, <1>4, <2>1, <2>3, <2>4
<1>6. LinesOK' /\ Owned' /\ Stored(producer_index, nput' % NBuckets)
  <2>1. Store(Owner(producer_index), producer_index, nput' % NBuckets)
    BY SMTT(30), <1>1, <1>2, <1>5, Owners
  <2> QED
    BY <1>2, <1>5, <2>1, OwnerStores, PcqLines
<1>7. /\ mem' = mem
      /\ own'[producer_index] = nput' % NBuckets
      /\ \A k \in Lines : k # producer_index => own'[k] = own[k]
      /\ dirty'[PHost] \subseteq dirty[PHost] \cup {producer_index}
  BY <1>6, PcqLines, PcqAssumption, Zenon DEF Stored, own
<1>8. Producing'
  <2>1. own'[producer_seq] = own[producer_seq]
    BY <1>7, PcqLines
  <2>2. own[producer_seq] = p.nsent + 1
    BY <1>1, <1>2 DEF Producing
  <2> QED
    BY <1>3, <1>4, <1>5, <1>7, <2>1, <2>2 DEF Producing
<1>9. Intact'
  <2> SUFFICES ASSUME NEW k \in nget .. nput, NEW q \in Parts
               PROVE  mem'[<<k % NBuckets, q>>] = k /\ own'[<<k % NBuckets, q>>] = k
    BY <1>2, <1>4 DEF Intact
  <2>1. k % NBuckets \in Buckets
    <3>1. k \in Nat
      BY <1>2
    <3> QED
      BY Zenon, <3>1, Ring
  <2>2. <<k % NBuckets, q>> \in Lines /\ <<k % NBuckets, q>> # producer_index
    BY Zenon, <2>1, PcqLines
  <2>3. own'[<<k % NBuckets, q>>] = own[<<k % NBuckets, q>>]
    BY Zenon, <1>7, <2>2
  <2>4. CASE k = nput
    <3>1. own[<<p.index, q>>] = p.nsent /\ <<p.index, q>> \notin dirty[PHost]
      BY <1>1, <1>2 DEF Producing
    <3>2. <<p.index, q>> \in Lines /\ Owner(<<p.index, q>>) = PHost
      BY SMTT(30), <1>2, <1>5, Owners, PcqLines
    <3>3. mem[<<p.index, q>>] = own[<<p.index, q>>]
      BY SMTT(30), <1>2, <3>1, <3>2, PcqAssumption, CleanIsOwn
    <3> QED
      BY SMTT(30), <1>4, <1>5, <1>7, <2>3, <2>4, <3>1, <3>3
  <2>5. CASE k # nput
    <3>1. k \in nget .. nput - 1
      BY <1>2, <2>5
    <3> QED
      BY <1>2, <1>7, <2>3, <3>1 DEF Intact
  <2> QED
    BY <2>4, <2>5
<1>10. /\ Owner(producer_index) = PHost
       /\ producer_index \in Lines /\ producer_index # consumer_index
       /\ producer_index # consumer_seq
       /\ \A q \in Parts : producer_index # <<nget % NBuckets, q>>
  BY <1>2, Owners, PcqLines
<1>11. nput' \in Nat /\ nput <= nput' /\ p.pc # "done"
  BY SMTT(30), <1>1, <1>2, <1>4
<1> QED
  BY SMTT(30), <1>1, <1>3, <1>4, <1>5, <1>6, <1>8, <1>9, <1>10, <1>11, StorePut

-----------------------------------------------------------------------------
(***************************************************************************)
(* The steps of pcq_consumer_get.                                          *)
(***************************************************************************)
LEMMA GetIndex ==
  ASSUME PcqInv
  PROVE  /\ get_index = nget % NBuckets
         /\ get_index \in Buckets
         /\ View(chost, consumer_seq) = own[consumer_seq]
<1>1. chost \in Hosts /\ nget % NBuckets \in Buckets
  BY Counts DEF PcqInv
<1>2. own[consumer_index] = View(chost, consumer_index)
  BY <1>1, Owners, PcqLines DEF own
<1>3. own[consumer_seq] = View(chost, consumer_seq)
  BY <1>1, Owners, PcqLines DEF own
<1> QED
  BY <1>1, <1>2, <1>3 DEF PcqInv, Consuming, get_index

(* A step of the consumer's that stores nothing. *)
LEMMA QuietGet ==
  ASSUME PcqInv, LinesOK', Owned', Quiet,
         UNCHANGED <<chost, timed, p, stop, out>>, c' \in GetLocals,
         Consuming', Intact' => Fresh', Published', Draining'
  PROVE  PcqInv'
<1>1. nget' = nget /\ nput' = nput /\ reserved' = reserved
  BY DEF nget, nput, reserved
<1>2. reserved \in Nat
  BY Counts DEF PcqInv
<1>3. Intact' /\ Room'
  BY <1>1, <1>2, IntactKept, RoomKept DEF PcqInv, Room
<1>4. Producing'
  BY ProducingKept
<1>5. TypeOK'
  BY DEF PcqInv, TypeOK, LinesOK
<1> QED
  BY <1>3, <1>4, <1>5 DEF PcqInv

(* The bucket the consumer has found a message in. *)
LEMMA DueIsIntact ==
  ASSUME PcqInv, c.pc \in {"seq", "copy", "crc", "index"}
  PROVE  /\ nget \in nget .. nput - 1
         /\ taken = nget + 1
<1>1. nget \in Nat /\ nput \in Nat /\ taken <= nput
  BY Counts, Bounds DEF PcqInv
<1>2. taken = nget + 1
  BY DEF taken
<1> QED
  BY <1>1, <1>2

(* What the poll finds in memory is an index the producer has published. *)
LEMMA PolledIndex ==
  ASSUME PcqInv, Quiet, nput' = nput
  PROVE  \E M \in taken .. nput : mem'[producer_index] = M % NBuckets
<1>1. taken \in Nat /\ nput \in Nat /\ taken <= nput
  BY Counts, Bounds DEF PcqInv
<1>2. PICK M \in taken .. nput : mem[producer_index] = M % NBuckets
  BY DEF PcqInv, Published
<1>3. mem'[producer_index] = mem[producer_index] \/ mem'[producer_index] = nput % NBuckets
  BY PcqLines DEF Quiet, PcqInv, Producing
<1>4. nput \in taken .. nput
  BY <1>1
<1> QED
  BY Zenon, <1>2, <1>3, <1>4

LEMMA PollStep ==
  ASSUME PcqInv, get_poll, UNCHANGED <<chost, timed>>
  PROVE  PcqInv'
<1>1. /\ c.pc = "poll"
      /\ Reload(chost, producer_index)
      /\ UNCHANGED <<p, stop, out>>
      /\ IF get_index # mem'[producer_index]
         THEN c' = [c EXCEPT !.pc = "seq"]
         ELSE c' = [c EXCEPT !.pc = IF cstop \/ c.drain THEN "done" ELSE "poll"]
  BY DEF get_poll
<1>2. /\ LinesOK /\ Owned /\ Producing /\ Consuming /\ Draining /\ c \in GetLocals
      /\ nput \in Nat /\ nget \in Nat /\ reserved \in Nat /\ chost \in Hosts
      /\ NBuckets \in Nat
  BY Counts, PcqAssumption DEF PcqInv
<1>3. /\ LinesOK' /\ Owned' /\ Quiet
      /\ mem'[producer_index] = IF chost = PHost THEN own[producer_index]
                                                 ELSE mem[producer_index]
  BY <1>1, <1>2, ReloadIsQuiet, PcqLines, Owners
<1>4. nget' = nget /\ nput' = nput /\ own' = own
  BY <1>1, <1>3 DEF nget, nput, Quiet
<1>5. PICK M \in taken .. nput : mem'[producer_index] = M % NBuckets
  BY <1>3, <1>4, PolledIndex
<1>6. taken = nget /\ M \in Nat /\ nget <= M
  <2>1. taken = nget
    BY <1>1, <1>2 DEF taken
  <2> QED
    BY <1>2, <2>1
<1>7. get_index = nget % NBuckets
  BY GetIndex
<1>8. CASE get_index # mem'[producer_index]
  <2>1. c' \in GetLocals /\ c'.pc = "seq" /\ c'.drain = c.drain
    BY Zenon, <1>1, <1>2, <1>8 DEF GetLocals
  <2>2. M # nget
    BY Zenon, <1>5, <1>7, <1>8
  <2>3. taken' = nget + 1
    BY <1>4, <2>1 DEF taken
  <2>4. M \in taken' .. nput'
    BY <1>2, <1>4, <1>6, <2>2, <2>3
  <2>5. Published'
    BY Zenon, <1>5, <2>4 DEF Published
  <2>6. Consuming'
    BY <1>1, <1>2, <1>4, <2>1 DEF Consuming, RetryRepairsCrc, CoherentNeverFatal
  <2>7. Fresh'
    BY <2>1 DEF Fresh
  <2>8. Draining'
    BY <1>1, <1>2, <2>1 DEF Draining, DrainEmpties
  <2> QED
    BY <1>1, <1>3, <2>1, <2>5, <2>6, <2>7, <2>8, QuietGet
<1>9. CASE get_index = mem'[producer_index]
  <2>1. /\ c' \in GetLocals /\ c'.drain = c.drain
        /\ c'.pc = IF cstop \/ c.drain THEN "done" ELSE "poll"
    BY Zenon, <1>1, <1>2, <1>9 DEF GetLocals
  <2>2. c'.pc \in {"done", "poll"}
    BY <2>1
  <2>3. taken' = taken
    BY <1>2, <1>4, <1>6, <2>2 DEF taken
  <2>4. Published'
    BY Zenon, <1>4, <1>5, <2>3 DEF Published
  <2>5. Consuming'
    BY <1>1, <1>2, <1>4, <2>2 DEF Consuming, RetryRepairsCrc, CoherentNeverFatal
  <2>6. Fresh'
    BY <2>2 DEF Fresh
  <2>7. ASSUME c.drain PROVE nget = nput
    <3>1. p.pc = "done"
      BY <1>2, <2>7 DEF Draining
    <3>2. producer_index \notin dirty[PHost]
      BY SMTT(30), <1>2, <3>1 DEF Producing
    <3>3. mem[producer_index] = own[producer_index]
      BY SMTT(30), <1>2, <3>2, CleanIsOwn, Owners, PcqLines, PcqAssumption
    <3>4. nget % NBuckets = nput % NBuckets
      BY SMTT(30), <1>2, <1>3, <1>7, <1>9, <3>3 DEF Producing
    <3>5. nget <= nput /\ nput - nget < NBuckets
      <4>1. reserved <= nget + NBuckets - 1 /\ taken <= nput /\ nput <= reserved
        BY Bounds
      <4> QED
        BY <1>2, <1>6, <4>1
    <3> QED
      BY Zenon, <1>2, <3>4, <3>5, Ring
  <2>8. Draining'
    BY <1>1, <1>2, <1>4, <2>1, <2>7 DEF Draining, DrainEmpties
  <2> QED
    BY SMTT(30), <1>1, <1>3, <2>1, <2>4, <2>5, <2>6, <2>8, QuietGet
<1> QED
  BY <1>8, <1>9

(* One line of the bucket, from the cache or from memory. *)
LEMMA GetMemcpyStep ==
  ASSUME PcqInv, NEW q \in Parts, get_memcpy(q), UNCHANGED <<chost, timed>>
  PROVE  PcqInv'
<1> DEFINE l == <<nget % NBuckets, q>>
<1>1. /\ c.pc = "copy" /\ q \in c.todo
      /\ Load(chost, l)
      /\ c' = [c EXCEPT !.entry[q] = View(chost, l),
                        !.todo = @ \ {q},
                        !.pc = IF c.todo = {q} THEN "crc" ELSE "copy"]
      /\ UNCHANGED <<p, stop, out>>
  BY GetIndex, Zenon DEF get_memcpy
<1>2. /\ LinesOK /\ Owned /\ Consuming /\ Draining /\ Fresh /\ c \in GetLocals
      /\ nput \in Nat /\ nget \in Nat /\ taken \in Nat /\ chost \in Hosts
      /\ nget % NBuckets \in Buckets
  BY Counts DEF PcqInv
<1>3. l \in Lines /\ View(chost, l) \in Int
  BY <1>2, PcqLines, ViewInt
<1> HIDE DEF l
<1>4. /\ c' \in GetLocals /\ c'.drain = c.drain /\ c'.retries = c.retries
      /\ c'.seq = c.seq /\ c'.todo = c.todo \ {q}
      /\ c'.pc = IF c.todo = {q} THEN "crc" ELSE "copy"
      /\ c'.entry = [c.entry EXCEPT ![q] = View(chost, l)]
  BY <1>1, <1>2, <1>3, Zenon DEF GetLocals
<1>5. /\ c'.pc \in {"copy", "crc"} /\ c'.pc = "crc" => c'.todo = {}
      /\ \A r \in Parts : c'.entry[r] = IF r = q THEN View(chost, l) ELSE c.entry[r]
  <2>1. c.entry \in [Parts -> Int]
    BY <1>2 DEF GetLocals
  <2> QED
    BY <1>4, <2>1
<1>6. LinesOK' /\ Owned' /\ Quiet
  BY <1>1, <1>2, <1>3, LoadIsQuiet
<1>7. nget' = nget /\ nput' = nput /\ own' = own /\ taken' = taken
  BY <1>1, <1>5, <1>6 DEF nget, nput, Quiet, taken
<1>8. Published'
  BY <1>2, <1>6, <1>7, PublishedKept
<1>9. Consuming'
  BY SMTT(30), <1>1, <1>2, <1>4, <1>5, <1>7
     DEF Consuming, RetryRepairsCrc, CoherentNeverFatal
<1>10. ASSUME Intact' PROVE Fresh'
  <2> SUFFICES ASSUME c.retries < CONSUMER_NRETRIES \/ chost = PHost,
                      NEW r \in Parts
               PROVE  /\ View(chost, <<nget % NBuckets, r>>)' = nget
                      /\ r \in c'.todo \/ c'.entry[r] = nget
    BY <1>4, <1>7 DEF Fresh
  <2>1. /\ View(chost, <<nget % NBuckets, r>>) = nget
        /\ r \in c.todo \/ c.entry[r] = nget
        /\ View(chost, l) = nget
    BY <1>1, <1>2 DEF Fresh, l
  <2>2. mem'[<<nget % NBuckets, r>>] = nget
    BY SMTT(30), <1>1, <1>7, <1>10, DueIsIntact DEF Intact
  <2>3. LET k == <<nget % NBuckets, r>>
        IN  View(chost, k)' = View(chost, k) \/ View(chost, k)' = mem'[k]
    BY <1>2, <1>6, <1>7, PcqLines DEF Quiet
  <2> QED
    BY SMTT(30), <1>4, <1>5, <1>7, <2>1, <2>2, <2>3
<1>11. Draining'
  BY <1>1, <1>2, <1>4, <1>5 DEF Draining, DrainEmpties
<1> QED
  BY SMTT(30), <1>1, <1>4, <1>6, <1>8, <1>9, <1>10, <1>11, QuietGet

(* Once the bucket was invalidated, or on one host, the copy is the        *)
(* message that is due.                                                    *)
LEMMA FreshCopy ==
  ASSUME PcqInv, c.pc = "crc", c.retries < CONSUMER_NRETRIES \/ chost = PHost
  PROVE  good_crc(c.entry) /\ c.entry[1] = c.seq
<1>1. c.todo = {} /\ c.seq = nget /\ nget \in Nat
  BY Counts DEF PcqInv, Consuming
<1>2. \A q \in Parts : c.entry[q] = nget
  BY <1>1, Zenon DEF PcqInv, Fresh
<1>3. 1 \in Parts
  BY PcqAssumption DEF Parts
<1> QED
  BY <1>1, <1>2, <1>3 DEF good_crc, Unwritten

LEMMA GoodCrcStep ==
  ASSUME PcqInv, get_good_crc, UNCHANGED <<chost, timed>>
  PROVE  PcqInv'
<1>1. /\ c.pc = "crc"
      /\ c' = [c EXCEPT !.pc = IF c.entry[1] = c.seq THEN "index" ELSE "badseq"]
      /\ UNCHANGED fccVars /\ UNCHANGED <<p, stop, out>>
  BY DEF get_good_crc
<1>2. /\ LinesOK /\ Owned /\ Consuming /\ Draining /\ c \in GetLocals
      /\ taken \in Nat
  BY Counts DEF PcqInv
<1>3. /\ c' \in GetLocals /\ c'.drain = c.drain /\ c'.seq = c.seq
      /\ c'.entry = c.entry
      /\ c'.pc = IF c.entry[1] = c.seq THEN "index" ELSE "badseq"
  BY Zenon, <1>1, <1>2 DEF GetLocals
<1>4. LinesOK' /\ Owned' /\ Quiet
  BY <1>1, <1>2, NothingIsQuiet
<1>5. nget' = nget /\ nput' = nput /\ own' = own /\ taken' = taken
  BY <1>1, <1>3, <1>4 DEF nget, nput, Quiet, taken
<1>6. Published'
  BY SMTT(30), <1>2, <1>4, <1>5, PublishedKept
<1>7. c'.pc = "index" \/ (c'.pc = "badseq" /\ chost # PHost)
  BY <1>1, <1>3, FreshCopy
<1>8. c'.pc = "index" => c'.entry[1] = nget
  BY <1>1, <1>2, <1>3 DEF Consuming
<1>9. Consuming'
  BY SMTT(30), <1>1, <1>2, <1>3, <1>5, <1>7, <1>8
     DEF Consuming, RetryRepairsCrc, CoherentNeverFatal
<1>10. Fresh'
  BY <1>7 DEF Fresh
<1>11. Draining'
  BY <1>1, <1>2, <1>3, <1>7 DEF Draining, DrainEmpties
<1> QED
  BY SMTT(30), <1>1, <1>3, <1>4, <1>6, <1>9, <1>10, <1>11, QuietGet

LEMMA BadCrcStep ==
  ASSUME PcqInv, get_bad_crc, UNCHANGED <<chost, timed>>
  PROVE  PcqInv'
<1> DEFINE L == {nget % NBuckets} \X Parts
<1>1. /\ c.pc = "crc" /\ ~good_crc(c.entry)
      /\ Invalidate(chost, L)
      /\ c' = IF c.retries = 0
              THEN [c EXCEPT !.pc = "badcrc"]
              ELSE [c EXCEPT !.pc = "copy", !.todo = Parts, !.retries = @ - 1]
      /\ UNCHANGED <<p, stop, out>>
  BY GetIndex DEF get_bad_crc
<1>2. /\ LinesOK /\ Owned /\ Consuming /\ Draining /\ c \in GetLocals
      /\ taken \in Nat /\ chost \in Hosts /\ nget % NBuckets \in Buckets
  BY Counts DEF PcqInv
<1>3. c.retries = 2 /\ chost # PHost
  <2>1. c.retries \in 0 .. 2
    BY <1>2 DEF GetLocals, CONSUMER_NRETRIES
  <2>2. ~(c.retries < CONSUMER_NRETRIES \/ chost = PHost)
    BY <1>1, FreshCopy
  <2> QED
    BY <2>1, <2>2 DEF CONSUMER_NRETRIES
<1>4. /\ c' \in GetLocals /\ c'.drain = c.drain /\ c'.seq = c.seq
      /\ c'.pc = "copy" /\ c'.todo = Parts
  <2>1. c.retries - 1 \in 0 .. CONSUMER_NRETRIES /\ c.retries # 0
    BY <1>3 DEF CONSUMER_NRETRIES
  <2>2. Parts \in SUBSET Parts
    OBVIOUS
  <2> QED
    BY Zenon, <1>1, <1>2, <2>1, <2>2 DEF GetLocals
<1>5. L \in SUBSET Lines
  BY <1>2, PcqLines
<1>6. \A q \in Parts : <<nget % NBuckets, q>> \in L
  OBVIOUS
<1> HIDE DEF L
<1>7. LinesOK' /\ Owned' /\ Quiet /\ \A l \in L : View(chost, l)' = mem'[l]
  BY <1>1, <1>2, <1>5, InvalidateIsQuiet
<1>8. nget' = nget /\ nput' = nput /\ own' = own /\ taken' = taken
  BY <1>1, <1>4, <1>7 DEF nget, nput, Quiet, taken
<1>9. Published'
  BY SMTT(30), <1>2, <1>7, <1>8, PublishedKept
<1>10. Consuming'
  BY SMTT(30), <1>1, <1>2, <1>4, <1>8
     DEF Consuming, RetryRepairsCrc, CoherentNeverFatal
<1>11. ASSUME Intact' PROVE Fresh'
  <2> SUFFICES ASSUME NEW q \in Parts
               PROVE  View(chost, <<nget % NBuckets, q>>)' = nget
    BY <1>4, <1>8 DEF Fresh
  <2>1. mem'[<<nget % NBuckets, q>>] = nget
    BY SMTT(30), <1>1, <1>8, <1>11, DueIsIntact DEF Intact
  <2> QED
    BY SMTT(30), <1>6, <1>7, <1>8, <2>1
<1>12. Draining'
  BY <1>1, <1>2, <1>4 DEF Draining, DrainEmpties
<1> QED
  BY SMTT(30), <1>1, <1>4, <1>7, <1>9, <1>10, <1>11, <1>12, QuietGet

LEMMA GetPublishStep ==
  ASSUME PcqInv, get_publish, UNCHANGED <<chost, timed>>
  PROVE  PcqInv'
<1>1. /\ c.pc = "publish"
      /\ Flush(chost, {consumer_index})
      /\ c' = [c EXCEPT !.nreceived = @ + 1, !.seq = 0, !.retries = 0,
                        !.entry = [q \in Parts |-> Unwritten],
                        !.pc = IF cstop \/ (~timed /\ c.nreceived + 1 >= NMessages)
                               THEN "done" ELSE "poll"]
      /\ UNCHANGED <<p, stop, out>>
  BY DEF get_publish
<1>2. /\ LinesOK /\ Owned /\ Consuming /\ Draining /\ c \in GetLocals
      /\ taken \in Nat /\ chost \in Hosts
  BY Counts DEF PcqInv
<1>3. /\ c' \in GetLocals /\ c'.drain = c.drain /\ c'.pc \in {"poll", "done"}
      /\ c'.pc = "done" => (cstop \/ ~timed)
  <2>1. c.nreceived \in Nat
    BY <1>2 DEF GetLocals
  <2>2. /\ c.nreceived + 1 \in Nat /\ 0 \in Nat /\ 0 \in 0 .. CONSUMER_NRETRIES
        /\ [q \in Parts |-> Unwritten] \in [Parts -> Int]
    BY <2>1 DEF CONSUMER_NRETRIES, Unwritten
  <2> QED
    BY Zenon, <1>1, <1>2, <2>2 DEF GetLocals
<1>4. LinesOK' /\ Owned' /\ Quiet
  BY <1>1, <1>2, FlushIsQuiet, PcqLines
<1>5. nget' = nget /\ nput' = nput /\ own' = own /\ taken' = taken
  BY <1>1, <1>3, <1>4 DEF nget, nput, Quiet, taken
<1>6. Published'
  BY SMTT(30), <1>2, <1>4, <1>5, PublishedKept
<1>7. Consuming'
  BY SMTT(30), <1>1, <1>2, <1>3, <1>5
     DEF Consuming, RetryRepairsCrc, CoherentNeverFatal
<1>8. Fresh'
  BY <1>3 DEF Fresh
<1>9. Draining'
  BY <1>1, <1>2, <1>3 DEF Draining, DrainEmpties, cstop
<1> QED
  BY SMTT(30), <1>1, <1>3, <1>4, <1>6, <1>7, <1>8, <1>9, QuietGet

LEMMA DrainStep ==
  ASSUME PcqInv, Drain, UNCHANGED <<chost, timed>>
  PROVE  PcqInv'
<1>1. /\ p.pc = "done" /\ c.pc = "done" /\ timed
      /\ c' = [c EXCEPT !.pc = "poll", !.drain = TRUE, !.nreceived = 0]
      /\ UNCHANGED fccVars /\ UNCHANGED <<p, stop, out>>
  BY DEF Drain
<1>2. /\ LinesOK /\ Owned /\ Consuming /\ c \in GetLocals /\ taken \in Nat
  BY Counts DEF PcqInv
<1>3. c' \in GetLocals /\ c'.pc = "poll" /\ c'.drain = TRUE
  BY <1>1, <1>2, Zenon DEF GetLocals
<1>4. LinesOK' /\ Owned' /\ Quiet
  BY <1>1, <1>2, NothingIsQuiet
<1>5. nget' = nget /\ nput' = nput /\ own' = own /\ taken' = taken
  BY <1>1, <1>3, <1>4 DEF nget, nput, Quiet, taken
<1>6. Published'
  BY SMTT(30), <1>2, <1>4, <1>5, PublishedKept
<1>7. Consuming'
  BY SMTT(30), <1>1, <1>2, <1>3, <1>5
     DEF Consuming, RetryRepairsCrc, CoherentNeverFatal
<1>8. Fresh'
  BY <1>3 DEF Fresh
<1>9. Draining'
  BY <1>1, <1>3 DEF Draining, DrainEmpties
<1> QED
  BY SMTT(30), <1>1, <1>3, <1>4, <1>6, <1>7, <1>8, <1>9, QuietGet

(* A store of the consumer's leaves what the producer works with alone. *)
LEMMA StoreGet ==
  ASSUME PcqInv, NEW l \in Lines, NEW v \in Int, Stored(l, v),
         l \in {consumer_index, consumer_seq},
         UNCHANGED <<chost, timed, p, stop>>, taken' = taken
  PROVE  /\ Producing' /\ Published'
         /\ mem' = mem /\ own'[l] = v
         /\ \A k \in Lines : k # l => own'[k] = own[k]
<1>1. nput' = nput
  BY SMTT(30) DEF nput
<1>2. /\ mem' = mem /\ own'[l] = v
      /\ \A k \in Lines : k # l => own'[k] = own[k]
      /\ dirty'[PHost] \subseteq dirty[PHost] \cup {l}
  BY PcqAssumption, Zenon DEF Stored, own
<1>3. /\ own'[producer_index] = own[producer_index]
      /\ own'[producer_seq] = own[producer_seq]
      /\ producer_index \in dirty'[PHost] => producer_index \in dirty[PHost]
  BY <1>2, PcqLines
<1>4. p \in PutLocals /\ Producing
  BY Counts DEF PcqInv
<1>5. ASSUME NEW q \in Parts
      PROVE  /\ own'[<<p.index, q>>] = own[<<p.index, q>>]
             /\ <<p.index, q>> \in dirty'[PHost] => <<p.index, q>> \in dirty[PHost]
  <2>1. p.index \in Buckets
    BY <1>4 DEF PutLocals
  <2>2. <<p.index, q>> \in Lines /\ <<p.index, q>> # l
    BY Zenon, <2>1, PcqLines
  <2> QED
    BY <1>2, <2>2
<1>6. Producing'
  BY <1>3, <1>4, <1>5, ProducingCarries
<1>7. Published'
  <2>1. Published
    BY DEF PcqInv
  <2> QED
    BY Zenon, <1>1, <1>2, <2>1 DEF Published
<1> QED
  BY <1>2, <1>6, <1>7

LEMMA GetSeqStep ==
  ASSUME PcqInv, get_seq, UNCHANGED <<chost, timed>>
  PROVE  PcqInv'
<1>1. /\ c.pc = "seq"
      /\ c' = [c EXCEPT !.pc = "copy", !.todo = Parts,
                        !.retries = CONSUMER_NRETRIES,
                        !.seq = View(chost, consumer_seq)]
      /\ Store(chost, consumer_seq, View(chost, consumer_seq) + 1)
      /\ UNCHANGED <<p, stop, out>>
  BY DEF get_seq
<1>2. /\ LinesOK /\ Owned /\ Consuming /\ Draining /\ Intact /\ c \in GetLocals
      /\ nget \in Nat /\ taken \in Nat /\ chost \in Hosts
      /\ nget % NBuckets \in Buckets
  BY Counts DEF PcqInv
<1>3. View(chost, consumer_seq) = nget
  BY <1>1, <1>2, GetIndex DEF Consuming
<1>4. LinesOK' /\ Owned' /\ Stored(consumer_seq, nget + 1)
  <2>1. Store(Owner(consumer_seq), consumer_seq, nget + 1)
    BY <1>1, <1>2, <1>3, Owners
  <2> QED
    BY <1>2, <2>1, OwnerStores, PcqLines
<1>5. /\ c' \in GetLocals /\ c'.pc = "copy" /\ c'.todo = Parts
      /\ c'.seq = nget /\ c'.drain = c.drain /\ c'.retries = CONSUMER_NRETRIES
  <2>1. CONSUMER_NRETRIES \in 0 .. CONSUMER_NRETRIES /\ Parts \in SUBSET Parts
    BY DEF CONSUMER_NRETRIES
  <2> QED
    BY Zenon, <1>1, <1>2, <1>3, <2>1 DEF GetLocals
<1>6. nget' = nget /\ nput' = nput /\ reserved' = reserved /\ taken' = taken
  BY <1>1, <1>5 DEF nget, nput, reserved, taken
<1>7. /\ Producing' /\ Published' /\ mem' = mem
      /\ own'[consumer_seq] = nget + 1
      /\ \A k \in Lines : k # consumer_seq => own'[k] = own[k]
  BY SMTT(30), <1>1, <1>2, <1>4, <1>6, StoreGet, PcqLines
<1>8. Consuming'
  <2>1. own'[consumer_index] = own[consumer_index]
    BY SMTT(30), <1>7, PcqLines
  <2> QED
    BY SMTT(30), <1>1, <1>2, <1>5, <1>6, <1>7, <2>1
       DEF Consuming, RetryRepairsCrc, CoherentNeverFatal
<1>9. Intact'
  <2> SUFFICES ASSUME NEW k \in nget .. nput - 1, NEW q \in Parts
               PROVE  mem'[<<k % NBuckets, q>>] = k /\ own'[<<k % NBuckets, q>>] = k
    BY <1>6 DEF Intact
  <2>1. k % NBuckets \in Buckets
    <3>1. k \in Nat
      BY <1>2
    <3> QED
      BY Zenon, <3>1, Ring
  <2>2. <<k % NBuckets, q>> \in Lines /\ <<k % NBuckets, q>> # consumer_seq
    BY Zenon, <2>1, PcqLines
  <2> QED
    BY <1>2, <1>7, <2>2 DEF Intact
<1>10. Fresh'
  <2> SUFFICES ASSUME chost = PHost, NEW q \in Parts
               PROVE  View(chost, <<nget % NBuckets, q>>)' = nget
    BY SMTT(30), <1>5, <1>6 DEF Fresh, CONSUMER_NRETRIES
  <2>1. /\ <<nget % NBuckets, q>> \in Lines
        /\ Owner(<<nget % NBuckets, q>>)' = PHost
    BY <1>2, <1>6, PcqLines, Owners DEF Owner
  <2>2. own'[<<nget % NBuckets, q>>] = nget
    BY SMTT(30), <1>1, <1>6, <1>9, DueIsIntact DEF Intact
  <2> QED
    BY SMTT(30), <1>6, <2>1, <2>2 DEF own
<1>11. Room'
  <2>1. View(PHost, consumer_index)' = View(PHost, consumer_index)
    BY <1>4, PcqLines, PcqAssumption DEF Stored
  <2> QED
    BY SMTT(30), <1>6, <1>7, <2>1 DEF PcqInv, Room, RoomFor
<1>12. TypeOK'
  BY <1>1, <1>4, <1>5 DEF PcqInv, TypeOK, LinesOK
<1>13. Draining'
  BY <1>1, <1>2, <1>5 DEF Draining, DrainEmpties
<1> QED
  BY <1>4, <1>7, <1>8, <1>9, <1>10, <1>11, <1>12, <1>13 DEF PcqInv

(* The consumer moves consumer_index: the message is received. *)
LEMMA UpdateIndexStep ==
  ASSUME PcqInv, get_update_index, UNCHANGED <<chost, timed>>
  PROVE  /\ PcqInv'
         /\ out' = Append(out, nget) /\ nget' = nget + 1
<1>1. /\ c.pc = "index"
      /\ Store(chost, consumer_index, next_index(get_index))
      /\ out' = Append(out, c.entry[1])
      /\ c' = [c EXCEPT !.pc = "publish"]
      /\ UNCHANGED <<p, stop>>
  BY DEF get_update_index
<1>2. /\ LinesOK /\ Owned /\ Consuming /\ Draining /\ Intact /\ Room
      /\ c \in GetLocals
      /\ nget \in Nat /\ taken \in Nat /\ chost \in Hosts
      /\ nput \in Nat /\ reserved \in Nat /\ NBuckets \in Nat
  BY Counts, PcqAssumption DEF PcqInv
<1>3. out \in Seq(Nat) /\ c.entry[1] = nget
  BY <1>1, <1>2 DEF PcqInv, TypeOK, Consuming
<1>4. out' = Append(out, nget) /\ nget' = nget + 1 /\ out' \in Seq(Nat)
  BY <1>1, <1>2, <1>3 DEF nget
<1>5. c' \in GetLocals /\ c'.pc = "publish" /\ c'.drain = c.drain
  BY Zenon, <1>1, <1>2 DEF GetLocals
<1>6. nput' = nput /\ reserved' = reserved /\ taken' = taken
  BY <1>1, <1>2, <1>4, <1>5 DEF nput, reserved, taken
<1>7. nget + 1 \in Nat /\ nget' \in Nat /\ nget <= nget'
  BY <1>2, <1>4
<1>8. /\ next_index(get_index) = nget' % NBuckets
      /\ nget' % NBuckets \in Int
  <2>1. \A n \in Nat : n \in Int
    OBVIOUS
  <2> QED
    BY Zenon, <1>2, <1>4, <1>7, <2>1, GetIndex, Ring
<1>9. LinesOK' /\ Owned' /\ Stored(consumer_index, nget' % NBuckets)
  <2>1. Store(Owner(consumer_index), consumer_index, nget' % NBuckets)
    BY <1>1, <1>2, <1>8, Owners
  <2> QED
    BY <1>2, <1>8, <2>1, OwnerStores, PcqLines
<1>10. /\ Producing' /\ Published' /\ mem' = mem
       /\ own'[consumer_index] = nget' % NBuckets
       /\ \A k \in Lines : k # consumer_index => own'[k] = own[k]
  BY SMTT(30), <1>1, <1>6, <1>8, <1>9, StoreGet, PcqLines
<1>11. Consuming'
  <2>1. own'[consumer_seq] = own[consumer_seq]
    BY <1>10, PcqLines
  <2>2. own[consumer_seq] = nget + 1
    BY <1>1, <1>2 DEF Consuming
  <2>3. \A n \in Nat : n + 0 = n
    OBVIOUS
  <2>4. nget' + 0 = nget'
    BY Zenon, <1>7, <2>3
  <2> QED
    BY SMTT(30), <1>4, <1>5, <1>10, <2>1, <2>2, <2>4
       DEF Consuming, RetryRepairsCrc, CoherentNeverFatal
<1>12. Intact'
  <2> SUFFICES ASSUME NEW k \in nget + 1 .. nput - 1, NEW q \in Parts
               PROVE  mem'[<<k % NBuckets, q>>] = k /\ own'[<<k % NBuckets, q>>] = k
    BY <1>4, <1>6 DEF Intact
  <2>1. k \in nget .. nput - 1 /\ k \in Nat
    BY <1>2
  <2>2. k % NBuckets \in Buckets
    BY Zenon, <2>1, Ring
  <2>3. <<k % NBuckets, q>> \in Lines /\ <<k % NBuckets, q>> # consumer_index
    BY Zenon, <2>2, PcqLines
  <2> QED
    BY SMTT(30), <1>2, <1>10, <2>1, <2>3 DEF Intact
<1>13. Fresh'
  BY <1>5 DEF Fresh
<1>14. Room'
  <2>1. PICK j \in 0 .. nget :
          /\ View(PHost, consumer_index) = j % NBuckets
          /\ reserved <= j + NBuckets - 1
          /\ chost # PHost => \E m \in j .. nget : mem[consumer_index] = m % NBuckets
    BY <1>2 DEF Room, RoomFor
  <2>2. CASE chost = PHost
    <3>1. View(PHost, consumer_index)' = own'[consumer_index]
      BY <2>2, PcqLines DEF own, Owner
    <3>2. reserved <= nget' + NBuckets - 1 /\ nget' \in 0 .. nget'
      BY <1>2, <1>4, <2>1
    <3> QED
      BY Zenon, <1>6, <1>10, <2>2, <3>1, <3>2 DEF Room, RoomFor
  <2>3. CASE chost # PHost
    <3>1. View(PHost, consumer_index)' = View(PHost, consumer_index)
      BY SMTT(30), <1>2, <1>9, <2>3, PcqLines, PcqAssumption, Owners DEF Stored
    <3>2. PICK m \in j .. nget : mem[consumer_index] = m % NBuckets
      BY <2>1, <2>3
    <3>3. j \in 0 .. nget' /\ m \in j .. nget'
      BY <1>2, <1>4, <3>2
    <3> QED
      BY Zenon, <1>6, <1>10, <2>1, <3>1, <3>2, <3>3 DEF Room, RoomFor
  <2> QED
    BY <2>2, <2>3
<1>15. TypeOK'
  BY <1>1, <1>4, <1>5, <1>9 DEF PcqInv, TypeOK, LinesOK
<1>16. Draining'
  BY Zenon, <1>1, <1>2, <1>5 DEF Draining, DrainEmpties
<1>17. PcqInv'
  BY <1>9, <1>10, <1>11, <1>12, <1>13, <1>14, <1>15, <1>16 DEF PcqInv
<1> QED
  BY <1>4, <1>17

-----------------------------------------------------------------------------
(***************************************************************************)
(* The invariant and what follows from it.                                 *)
(***************************************************************************)
LEMMA PcqInit == Init => PcqInv
<1> SUFFICES ASSUME Init PROVE PcqInv
  OBVIOUS
<1>1. /\ \A l \in Lines : mem[l] = IF l \in Words THEN 0 ELSE Unwritten
      /\ \A h \in Hosts, l \in Lines : View(h, l) = mem[l] /\ cache[h][l] = Miss
      /\ \A h \in Hosts : dirty[h] = {}
      /\ chost \in Hosts
  BY DEF Init, View
<1>2. /\ p.pc = "check" /\ p.nsent = 0 /\ c.pc = "poll" /\ c.drain = FALSE
      /\ out = <<>>
  BY DEF Init
<1>3. nput = 0 /\ reserved = 0 /\ nget = 0 /\ taken = 0
  BY <1>2 DEF nput, reserved, nget, taken
<1>4. 0 % NBuckets = 0 /\ 0 \in Buckets
  BY PcqAssumption, Remainder DEF Buckets
<1>5. TypeOK
  <2>1. mem \in [Lines -> Int] /\ cache \in [Hosts -> [Lines -> Int \cup {Miss}]]
    BY DEF Init, Unwritten
  <2>2. dirty \in [Hosts -> SUBSET Lines] /\ timed \in BOOLEAN /\ stop \subseteq {"p", "c"}
    BY SMTT(30) DEF Init
  <2>3. p \in PutLocals
    BY SMTT(30), <1>4 DEF Init, PutLocals
  <2>4. c \in GetLocals
    <3>1. /\ [q \in Parts |-> Unwritten] \in [Parts -> Int]
          /\ 0 \in 0 .. CONSUMER_NRETRIES /\ 0 \in Nat
      BY DEF Unwritten, CONSUMER_NRETRIES
    <3> QED
      BY <3>1 DEF Init, GetLocals
  <2>5. out \in Seq(Nat)
    BY <1>2
  <2> QED
    BY SMTT(30), <1>1, <2>1, <2>2, <2>3, <2>4, <2>5 DEF TypeOK
<1>6. Owned
  BY SMTT(30), <1>1 DEF Owned
<1>7. /\ own[producer_index] = 0 /\ own[producer_seq] = 0
      /\ own[consumer_index] = 0 /\ own[consumer_seq] = 0
      /\ mem[producer_index] = 0 /\ mem[consumer_index] = 0
      /\ View(PHost, consumer_index) = 0
  BY SMTT(30), <1>1, Owners, PcqLines, PcqAssumption DEF own, Words
<1>8. Producing
  BY SMTT(30), <1>1, <1>2, <1>3, <1>4, <1>7, PcqAssumption DEF Producing
<1>9. Consuming
  BY <1>2, <1>3, <1>4, <1>7 DEF Consuming, RetryRepairsCrc, CoherentNeverFatal
<1>10. Fresh
  BY <1>2 DEF Fresh
<1>11. Intact
  BY <1>3 DEF Intact
<1>12. Published
  BY <1>3, <1>4, <1>7 DEF Published
<1>13. Room
  <2>1. 0 <= 0 + NBuckets - 1 /\ 0 \in 0 .. 0
    BY PcqAssumption
  <2> QED
    BY Zenon, <1>3, <1>4, <1>7, <2>1 DEF Room, RoomFor
<1>14. Draining
  BY <1>2 DEF Draining, DrainEmpties
<1> QED
  BY SMTT(30), <1>5, <1>6, <1>8, <1>9, <1>10, <1>11, <1>12, <1>13, <1>14 DEF PcqInv

LEMMA PcqNext == PcqInv /\ [Next]_vars => PcqInv'
<1> SUFFICES ASSUME PcqInv, [Next]_vars PROVE PcqInv'
  OBVIOUS
<1>1. CASE UNCHANGED vars
  <2>1. /\ UNCHANGED fccVars
        /\ UNCHANGED <<chost, timed, p, c, out>> /\ stop' = stop
    BY <1>1 DEF vars, fccVars
  <2>2. LinesOK' /\ Owned' /\ Quiet
    BY <2>1, Counts, NothingIsQuiet DEF PcqInv
  <2>3. stop' \subseteq {"p", "c"}
    BY <2>1 DEF PcqInv, TypeOK
  <2> QED
    BY <2>1, <2>2, <2>3, QuietStep
<1>2. CASE Next
  <2>1. UNCHANGED <<chost, timed>>
    BY <1>2 DEF Next
  <2>2. CASE pcq_producer_put
    BY SMTT(30), <2>1, <2>2, NotFullStep, WaitStep, StoppedStep, PutSeqStep, PutMemcpyStep,
       FlushBucketStep, PutIndexStep, PublishStep DEF pcq_producer_put
  <2>3. CASE pcq_consumer_get
    BY SMTT(30), <2>1, <2>3, PollStep, GetSeqStep, GetMemcpyStep, GoodCrcStep, BadCrcStep,
       UpdateIndexStep, GetPublishStep DEF pcq_consumer_get
  <2>4. CASE \E t \in {"p", "c"} : StopNow(t)
    BY <2>1, <2>4, StopStep
  <2>5. CASE Drain
    BY <2>1, <2>5, DrainStep
  <2>6. CASE Hardware
    BY <2>1, <2>6, HardwareStep
  <2> QED
    BY <1>2, <2>2, <2>3, <2>4, <2>5, <2>6 DEF Next
<1> QED
  BY <1>1, <1>2

(* The inductive invariant of the queue.                                   *)
THEOREM PcqInvariant == Spec => []PcqInv
BY PcqInit, PcqNext, PTL DEF Spec

(* Every variable of the two threads and of both files keeps its type.     *)
THEOREM PcqTypeCorrect == Spec => []TypeOK
<1>1. PcqInv => TypeOK
  BY DEF PcqInv
<1> QED
  BY <1>1, PcqInvariant, PTL

(* However stale the consumer_index is that pcq_producer_put tests for     *)
(* room with, it never overwrites a message that is not yet consumed.      *)
THEOREM MessagesStayIntact == Spec => []UnconsumedIntact
<1>1. PcqInv => UnconsumedIntact
  BY DEF PcqInv, Intact, UnconsumedIntact
<1> QED
  BY <1>1, PcqInvariant, PTL

(* The retries of pcq_consumer_get never run out: one invalidation of the  *)
(* bucket repairs a bad crc.                                               *)
THEOREM CrcIsRepaired == Spec => []RetryRepairsCrc
<1>1. PcqInv => RetryRepairsCrc
  BY DEF PcqInv, Consuming
<1> QED
  BY <1>1, PcqInvariant, PTL

(* A drain that reports an empty queue leaves no message behind.           *)
THEOREM DrainLeavesNothing == Spec => []DrainEmpties
<1>1. PcqInv => DrainEmpties
  BY DEF PcqInv, Draining
<1> QED
  BY <1>1, PcqInvariant, PTL

(* With producer and consumer on one host, pcq_consumer_get never takes    *)
(* one of its fatal exits.                                                 *)
THEOREM CoherentIsSafe == Spec => []CoherentNeverFatal
<1>1. PcqInv => CoherentNeverFatal
  BY DEF PcqInv, Consuming
<1> QED
  BY <1>1, PcqInvariant, PTL

-----------------------------------------------------------------------------
(***************************************************************************)
(* The queue implements the bounded FIFO.  In every state that satisfies   *)
(* the invariant, Queued is the run of numbers from nget to nput - 1.      *)
(***************************************************************************)
Run(a, b) == [i \in 1 .. b - a |-> a + i - 1]

LEMMA RunFacts ==
  ASSUME NEW a \in Nat, NEW b \in Nat, a <= b
  PROVE  /\ Run(a, b) \in Seq(Nat) /\ Len(Run(a, b)) = b - a
         /\ Append(Run(a, b), b) = Run(a, b + 1)
         /\ a < b => /\ Run(a, b) # <<>>
                     /\ Head(Run(a, b)) = a /\ Tail(Run(a, b)) = Run(a + 1, b)
<1>1. /\ b - a \in Nat /\ (b + 1) - a = (b - a) + 1 /\ b - (a + 1) = (b - a) - 1
  OBVIOUS
<1>2. Run(a, b) \in Seq(Nat) /\ Len(Run(a, b)) = b - a
  <2>1. Run(a, b) \in [1 .. b - a -> Nat]
    BY <1>1 DEF Run
  <2> QED
    BY <1>1, <2>1
<1>3. Run(a, b + 1) \in Seq(Nat) /\ Len(Run(a, b + 1)) = (b - a) + 1
  <2>1. Run(a, b + 1) \in [1 .. (b - a) + 1 -> Nat]
    BY <1>1 DEF Run
  <2> QED
    BY <1>1, <2>1
<1>4. Append(Run(a, b), b) = Run(a, b + 1)
  <2>1. /\ Append(Run(a, b), b) \in Seq(Nat)
        /\ Len(Append(Run(a, b), b)) = (b - a) + 1
    BY <1>1, <1>2
  <2>2. ASSUME NEW i \in 1 .. (b - a) + 1
        PROVE  Append(Run(a, b), b)[i] = Run(a, b + 1)[i]
    <3>1. CASE i = (b - a) + 1
      BY <3>1, <1>1, <1>2 DEF Run
    <3>2. CASE i # (b - a) + 1
      <4>1. i \in 1 .. b - a
        BY <3>2, <1>1
      <4>2. Append(Run(a, b), b)[i] = Run(a, b)[i]
        BY <4>1, <1>2
      <4> QED
        BY <4>1, <4>2, <1>1 DEF Run
    <3> QED
      BY <3>1, <3>2, Zenon
  <2> QED
    BY <1>3, <2>1, <2>2, SameSequence, Zenon
<1>5. ASSUME a < b
      PROVE  /\ Run(a, b) # <<>>
             /\ Head(Run(a, b)) = a /\ Tail(Run(a, b)) = Run(a + 1, b)
  <2>1. Run(a, b) # <<>>
    BY <1>2, <1>5
  <2>2. Head(Run(a, b)) = a
    BY <1>1, <1>2, <1>5, <2>1 DEF Run
  <2>3. Run(a + 1, b) \in Seq(Nat) /\ Len(Run(a + 1, b)) = (b - a) - 1
    <3>1. Run(a + 1, b) \in [1 .. (b - a) - 1 -> Nat] /\ (b - a) - 1 \in Nat
      BY <1>1, <1>5 DEF Run
    <3> QED
      BY <3>1
  <2>4. Tail(Run(a, b)) \in Seq(Nat) /\ Len(Tail(Run(a, b))) = (b - a) - 1
    BY <1>2, <2>1
  <2>5. ASSUME NEW i \in 1 .. (b - a) - 1
        PROVE  Tail(Run(a, b))[i] = Run(a + 1, b)[i]
    <3>1. Tail(Run(a, b))[i] = Run(a, b)[i + 1]
      BY <1>1, <1>2, <2>1
    <3>2. i + 1 \in 1 .. b - a /\ i \in 1 .. b - (a + 1)
      BY <1>1
    <3> QED
      BY <3>1, <3>2 DEF Run
  <2>6. Tail(Run(a, b)) = Run(a + 1, b)
    BY <2>3, <2>4, <2>5, SameSequence, Zenon
  <2> QED
    BY <2>1, <2>2, <2>6
<1> QED
  BY <1>2, <1>4, <1>5

LEMMA QueuedIsRun ==
  PcqInv => /\ Queued = Run(nget, nput)
            /\ nget \in Nat /\ nput \in Nat /\ nget <= nput
<1> SUFFICES ASSUME PcqInv
             PROVE  /\ Queued = Run(nget, nput)
                    /\ nget \in Nat /\ nput \in Nat /\ nget <= nput
  OBVIOUS
<1>1. /\ nget \in Nat /\ nput \in Nat /\ nget <= nput
      /\ chost \in Hosts /\ Intact
  <2>1. nget \in Nat /\ nput \in Nat /\ taken \in Nat /\ nget <= taken /\ taken <= nput
        /\ chost \in Hosts
    BY Counts, Bounds DEF PcqInv
  <2> QED
    BY <2>1 DEF PcqInv
<1>2. ASSUME NEW i \in 1 .. nput - nget
      PROVE  View(PHost, <<(nget + i - 1) % NBuckets, 1>>) = nget + i - 1
  <2> DEFINE k == nget + i - 1
  <2>1. k \in nget .. nput - 1 /\ k \in Nat
    BY <1>1
  <2> HIDE DEF k
  <2>2. k % NBuckets \in Buckets /\ 1 \in Parts
    BY <2>1, Ring, PcqAssumption DEF Parts
  <2>3. own[<<k % NBuckets, 1>>] = k
    BY <1>1, <2>1, <2>2 DEF Intact
  <2>4. own[<<k % NBuckets, 1>>] = View(PHost, <<k % NBuckets, 1>>)
    BY <1>1, <2>2, Owners, PcqLines DEF own
  <2> QED
    BY <2>3, <2>4 DEF k
<1> QED
  BY <1>1, <1>2, Zenon DEF Queued, Run

(* A step puts a message, receives the message that is due, or does        *)
(* neither.                                                                *)
LEMMA QueueMoves ==
  ASSUME PcqInv, [Next]_vars
  PROVE  \/ nput' = nput /\ nget' = nget /\ out' = out
         \/ /\ nput' = nput + 1 /\ nget' = nget /\ out' = out
            /\ nput - nget < NBuckets - 1
         \/ /\ nput' = nput /\ nget' = nget + 1 /\ out' = Append(out, nget)
            /\ nget < nput
<1>1. /\ p \in PutLocals /\ p.nsent \in Nat /\ nput \in Nat /\ nget \in Nat
      /\ reserved <= nget + NBuckets - 1 /\ NBuckets \in Nat
  BY Counts, Bounds, PcqAssumption DEF PcqInv
<1>2. CASE p' = p /\ out' = out
  BY <1>2 DEF nput, nget
<1>3. CASE /\ p.pc # "publish" /\ out' = out
           /\ p'.pc # "publish" /\ p'.nsent = p.nsent
  BY <1>3 DEF nput, nget
<1>4. CASE put_index
  <2>1. /\ p.pc = "index" /\ p' = [p EXCEPT !.pc = "publish"] /\ out' = out
    BY <1>4 DEF put_index
  <2>2. p'.pc = "publish" /\ p'.nsent = p.nsent
    BY Zenon, <1>1, <2>1 DEF PutLocals
  <2>3. nput = p.nsent /\ nput' = nput + 1 /\ reserved = nput + 1 /\ nget' = nget
    BY <1>1, <2>1, <2>2 DEF nput, reserved, nget
  <2> QED
    BY <1>1, <2>1, <2>3
<1>5. CASE put_publish
  <2>1. /\ p.pc = "publish" /\ out' = out
        /\ p' = [p EXCEPT !.nsent = @ + 1, !.index = 0, !.seq = 0,
                          !.pc = IF p.nsent + 1 >= NMessages \/ pstop
                                 THEN "done" ELSE "check"]
    BY <1>5 DEF put_publish
  <2>2. p'.pc \in {"done", "check"} /\ p'.nsent = p.nsent + 1
    BY Zenon, <1>1, <2>1 DEF PutLocals
  <2>3. nput' = nput /\ nget' = nget
    BY <1>1, <2>1, <2>2 DEF nput, nget
  <2> QED
    BY <2>1, <2>3
<1>6. CASE get_update_index /\ UNCHANGED <<chost, timed>>
  <2>1. c.pc = "index" /\ p' = p
    BY <1>6 DEF get_update_index
  <2>2. out' = Append(out, nget) /\ nget' = nget + 1
    BY <1>6, UpdateIndexStep
  <2>3. nput' = nput
    BY <2>1 DEF nput
  <2>4. nget < nput
    BY <1>1, <2>1, DueIsIntact
  <2> QED
    BY <2>2, <2>3, <2>4
<1>7. ASSUME put_not_full \/ put_stopped \/ put_seq \/ put_flush_bucket
      PROVE  /\ p.pc # "publish" /\ out' = out
             /\ p'.pc # "publish" /\ p'.nsent = p.nsent
  <2>1. /\ p.pc # "publish" /\ out' = out
        /\ \/ p' = [p EXCEPT !.pc = "seq", !.index = View(PHost, producer_index)]
           \/ p' = [p EXCEPT !.pc = "done"]
           \/ p' = [p EXCEPT !.pc = "copy", !.todo = Parts,
                             !.seq = View(PHost, producer_seq)]
           \/ p' = [p EXCEPT !.pc = "index"]
    BY <1>7 DEF put_not_full, put_stopped, put_seq, put_flush_bucket
  <2> QED
    BY Zenon, <1>1, <2>1 DEF PutLocals
<1>8. ASSUME NEW q \in Parts, put_memcpy(q)
      PROVE  /\ p.pc # "publish" /\ out' = out
             /\ p'.pc # "publish" /\ p'.nsent = p.nsent
  <2>1. /\ p.pc # "publish" /\ out' = out
        /\ p' = [p EXCEPT !.todo = @ \ {q},
                          !.pc = IF p.todo = {q} THEN "flush" ELSE "copy"]
    BY SMTT(30), <1>8 DEF put_memcpy
  <2> QED
    BY Zenon, <1>1, <2>1 DEF PutLocals
<1>9. CASE pcq_producer_put
  BY SMTT(30), <1>2, <1>3, <1>4, <1>5, <1>7, <1>8, <1>9
     DEF pcq_producer_put, put_wait
<1>10. CASE pcq_consumer_get /\ UNCHANGED <<chost, timed>>
  <2>1. CASE get_poll
    BY <1>2, <2>1 DEF get_poll
  <2>2. CASE get_seq
    BY <1>2, <2>2 DEF get_seq
  <2>3. CASE \E q \in Parts : get_memcpy(q)
    <3>1. p' = p /\ out' = out
      BY Zenon, <2>3 DEF get_memcpy
    <3> QED
      BY <1>2, <3>1
  <2>4. CASE get_good_crc
    BY <1>2, <2>4 DEF get_good_crc
  <2>5. CASE get_bad_crc
    BY <1>2, <2>5 DEF get_bad_crc
  <2>6. CASE get_publish
    BY <1>2, <2>6 DEF get_publish
  <2> QED
    BY SMTT(30), <1>6, <1>10, <2>1, <2>2, <2>3, <2>4, <2>5, <2>6 DEF pcq_consumer_get
<1>11. CASE (\E t \in {"p", "c"} : StopNow(t)) \/ Drain \/ Hardware \/ UNCHANGED vars
  BY <1>2, <1>11 DEF StopNow, Drain, Hardware, vars
<1> QED
  BY <1>9, <1>10, <1>11 DEF Next

LEMMA FifoInit == Init => Fifo!Init
<1> SUFFICES ASSUME Init PROVE Fifo!Init
  OBVIOUS
<1>1. nput = 0 /\ nget = 0 /\ out = <<>>
  BY DEF Init, nput, nget
<1>2. Queued = <<>>
  BY <1>1 DEF Queued
<1> QED
  BY SMTT(30), <1>1, <1>2 DEF Fifo!Init

LEMMA FifoStep ==
  ASSUME PcqInv, PcqInv', [Next]_vars
  PROVE  [Fifo!Put \/ Fifo!Get]_<<Queued, out>>
<1>1. Queued = Run(nget, nput) /\ nget \in Nat /\ nput \in Nat /\ nget <= nput
  BY QueuedIsRun
<1>2. Queued' = Run(nget', nput')
  <2>1. (PcqInv => Queued = Run(nget, nput))'
    BY QueuedIsRun, PTL
  <2> QED
    BY <2>1 DEF Run
<1>3. Len(out) = nget
  BY DEF nget
<1>4. CASE nput' = nput /\ nget' = nget /\ out' = out
  BY <1>1, <1>2, <1>4
<1>5. CASE /\ nput' = nput + 1 /\ nget' = nget /\ out' = out
           /\ nput - nget < NBuckets - 1
  <2>1. Queued' = Append(Queued, nput) /\ Len(Queued) = nput - nget
    BY <1>1, <1>2, <1>5, RunFacts, Zenon
  <2>2. Len(out) + Len(Queued) = nput
    BY <1>1, <1>3, <2>1
  <2> QED
    BY <1>5, <2>1, <2>2 DEF Fifo!Put
<1>6. CASE /\ nput' = nput /\ nget' = nget + 1 /\ out' = Append(out, nget)
           /\ nget < nput
  <2>1. Queued # <<>> /\ Queued' = Tail(Queued) /\ Head(Queued) = nget
    BY <1>1, <1>2, <1>6, RunFacts, Zenon
  <2> QED
    BY <1>6, <2>1 DEF Fifo!Get
<1> QED
  BY <1>4, <1>5, <1>6, QueueMoves

(* The queue is a FIFO that holds at most NBuckets - 1 messages: a put     *)
(* takes effect when pcq_producer_put moves producer_index and a get when  *)
(* pcq_consumer_get moves consumer_index; no other step, and nothing the   *)
(* caches do, shows.                                                       *)
THEOREM QueueIsFifo == Spec => ImplementsFifo
<1>1. PcqInv /\ PcqInv' /\ [Next]_vars => [Fifo!Put \/ Fifo!Get]_<<Queued, out>>
  BY FifoStep
<1> QED
  BY <1>1, FifoInit, PcqInvariant, PTL DEF Spec, ImplementsFifo, Fifo!Spec
=============================================================================
