-------------------------------- MODULE Pcq --------------------------------
(***************************************************************************)
(* The producer/consumer queue (pcq): a ring of buckets in shared memory   *)
(* with one producer and one consumer, each the only writer of its own     *)
(* file.  The two may run on one host or on two whose caches nothing keeps *)
(* coherent: chost is the consumer's host.                                 *)
(*                                                                         *)
(* A bucket spans several cache lines (Parts).  A line of a bucket is      *)
(* abstracted to the sequence number of the put that wrote it; the crc is  *)
(* good exactly when all the lines come from one put.                      *)
(***************************************************************************)
EXTENDS Integers, Sequences, Fcc

CONSTANTS Hosts, PHost,  \* the hosts, and the one the producer runs on
          NBuckets,      \* pcq->nbuckets
          NParts,        \* cache lines per bucket
          NMessages      \* a->nmessages; the producer's bound when timed

ASSUME PcqAssumption ==
  /\ NBuckets \in Nat \ {0}
  /\ NParts \in Nat \ {0}
  /\ NMessages \in Nat \ {0}
  /\ PHost \in Hosts
  /\ Miss \notin Int

CONSUMER_NRETRIES == 2

Buckets == 0 .. NBuckets - 1
Parts == 1 .. NParts

(* The four words of struct pcq and struct pcq_consumer that change, each  *)
(* on a line of its own (the paddings), and the lines of the buckets.      *)
producer_index == <<0, 0>>
producer_seq   == <<1, 0>>
consumer_index == <<2, 0>>
consumer_seq   == <<3, 0>>
Words == {producer_index, producer_seq, consumer_index, consumer_seq}
BucketLines == Buckets \X Parts
Lines == Words \cup BucketLines
Unwritten == -1

VARIABLES chost, \* the consumer's host
          timed, \* stop_mode is STOP_FLAG, not NMESSAGES
          p,     \* the producer thread in pcq_producer_put
          c,     \* the consumer thread in pcq_consumer_get
          stop,  \* the threads whose stop_now is set
          out    \* the messages pcq_consumer_get has returned

vars == <<mem, cache, dirty, chost, timed, p, c, stop, out>>

(* pcq_create has flushed both structures. *)
Init ==
  /\ mem = [l \in Lines |-> IF l \in Words THEN 0 ELSE Unwritten]
  /\ cache = [h \in Hosts |-> [l \in Lines |-> Miss]]
  /\ dirty = [h \in Hosts |-> {}]
  /\ chost \in Hosts
  /\ timed \in BOOLEAN
  /\ p = [pc |-> "check", index |-> 0, seq |-> 0, todo |-> {}, nsent |-> 0]
  /\ c = [pc |-> "poll", seq |-> 0, todo |-> {}, retries |-> 0,
          entry |-> [q \in Parts |-> Unwritten], drain |-> FALSE,
          nreceived |-> 0]
  /\ stop = {}
  /\ out = <<>>

-----------------------------------------------------------------------------
(***************************************************************************)
(* pcq_producer_put(), called again and again by run_producer() with wait. *)
(***************************************************************************)
(* Mutant: no wrap-around. *)
next_index_no_wrap(i) == i + 1

next_index(i) == (i + 1) % NBuckets
pstop == "p" \in stop
(* Mutant: no test for room. *)
full_never == FALSE

(* Mutant: producer_index is compared, not the index after it. *)
full_when_equal == View(PHost, producer_index) = View(PHost, consumer_index)

full == next_index(View(PHost, producer_index)) = View(PHost, consumer_index)

put_not_full ==
  /\ p.pc = "check"
  /\ ~full
  /\ Load(PHost, consumer_index)
  /\ p' = [p EXCEPT !.pc = "seq", !.index = View(PHost, producer_index)]
  /\ UNCHANGED <<c, stop, out>>

(* The queue looks full: look again with a fresh consumer_index, or stop. *)
put_wait ==
  /\ p.pc = "check"
  /\ full
  /\ ~pstop
  /\ Invalidate(PHost, {consumer_index})
  /\ UNCHANGED <<p, c, stop, out>>

put_stopped ==
  /\ p.pc = "check"
  /\ full
  /\ pstop
  /\ p' = [p EXCEPT !.pc = "done"]
  /\ UNCHANGED <<fccVars, c, stop, out>>

(* Mutant: a message is stamped with the number after its own. *)
put_seq_next ==
  /\ p.pc = "seq"
  /\ p' = [p EXCEPT !.pc = "copy", !.todo = Parts,
                    !.seq = View(PHost, producer_seq) + 1]
  /\ Store(PHost, producer_seq, View(PHost, producer_seq) + 1)
  /\ UNCHANGED <<c, stop, out>>

put_seq ==
  /\ p.pc = "seq"
  /\ p' = [p EXCEPT !.pc = "copy", !.todo = Parts,
                    !.seq = View(PHost, producer_seq)]
  /\ Store(PHost, producer_seq, View(PHost, producer_seq) + 1)
  /\ UNCHANGED <<c, stop, out>>

put_memcpy(q) ==
  /\ p.pc = "copy"
  /\ q \in p.todo
  /\ Store(PHost, <<p.index, q>>, p.seq)
  /\ p' = [p EXCEPT !.todo = @ \ {q},
                    !.pc = IF p.todo = {q} THEN "flush" ELSE "copy"]
  /\ UNCHANGED <<c, stop, out>>

(* Mutant: the bucket is not flushed before producer_index moves. *)
put_no_flush ==
  /\ p.pc = "flush"
  /\ p' = [p EXCEPT !.pc = "index"]
  /\ UNCHANGED <<fccVars, c, stop, out>>

put_flush_bucket ==
  /\ p.pc = "flush"
  /\ Flush(PHost, {p.index} \X Parts)
  /\ p' = [p EXCEPT !.pc = "index"]
  /\ UNCHANGED <<c, stop, out>>

put_index ==
  /\ p.pc = "index"
  /\ Store(PHost, producer_index, next_index(p.index))
  /\ p' = [p EXCEPT !.pc = "publish"]
  /\ UNCHANGED <<c, stop, out>>

(* The put returns; run_producer() decides whether to go on. *)
put_publish ==
  /\ p.pc = "publish"
  /\ Flush(PHost, {producer_index})
  /\ p' = [p EXCEPT !.nsent = @ + 1, !.index = 0, !.seq = 0,
                    !.pc = IF p.nsent + 1 >= NMessages \/ pstop
                           THEN "done" ELSE "check"]
  /\ UNCHANGED <<c, stop, out>>

pcq_producer_put ==
  \/ put_not_full \/ put_wait \/ put_stopped \/ put_seq
  \/ \E q \in Parts : put_memcpy(q)
  \/ put_flush_bucket \/ put_index \/ put_publish

-----------------------------------------------------------------------------
(***************************************************************************)
(* pcq_consumer_get(), called by run_consumer() with wait; or without it   *)
(* and until the queue is empty, to drain it.                              *)
(***************************************************************************)
cstop == "c" \in stop /\ ~c.drain
get_index == View(chost, consumer_index)

(* Mutant: producer_index as the cache has it. *)
get_poll_cached ==
  /\ c.pc = "poll"
  /\ Load(chost, producer_index)
  /\ IF get_index # View(chost, producer_index)
     THEN c' = [c EXCEPT !.pc = "seq"]
     ELSE c' = [c EXCEPT !.pc = IF cstop \/ c.drain THEN "done" ELSE "poll"]
  /\ UNCHANGED <<p, stop, out>>

get_poll ==
  /\ c.pc = "poll"
  /\ Reload(chost, producer_index)
  /\ IF get_index # mem'[producer_index]
     THEN c' = [c EXCEPT !.pc = "seq"]
     ELSE c' = [c EXCEPT !.pc = IF cstop \/ c.drain THEN "done" ELSE "poll"]
  /\ UNCHANGED <<p, stop, out>>

get_seq ==
  /\ c.pc = "seq"
  /\ c' = [c EXCEPT !.pc = "copy", !.todo = Parts,
                    !.retries = CONSUMER_NRETRIES,
                    !.seq = View(chost, consumer_seq)]
  /\ Store(chost, consumer_seq, View(chost, consumer_seq) + 1)
  /\ UNCHANGED <<p, stop, out>>

(* The memcpy of the bucket, which does not invalidate it first. *)
get_memcpy(q) ==
  /\ c.pc = "copy"
  /\ q \in c.todo
  /\ Load(chost, <<get_index, q>>)
  /\ c' = [c EXCEPT !.entry[q] = View(chost, <<get_index, q>>),
                    !.todo = @ \ {q},
                    !.pc = IF c.todo = {q} THEN "crc" ELSE "copy"]
  /\ UNCHANGED <<p, stop, out>>

good_crc(entry) ==
  entry[1] # Unwritten /\ \A q \in Parts : entry[q] = entry[1]

(* Mutant: a good crc is enough. *)
get_good_crc_only ==
  /\ c.pc = "crc"
  /\ good_crc(c.entry)
  /\ c' = [c EXCEPT !.pc = "index"]
  /\ UNCHANGED <<fccVars, p, stop, out>>

(* A good crc: the sequence number decides.  A mismatch is fatal. *)
get_good_crc ==
  /\ c.pc = "crc"
  /\ good_crc(c.entry)
  /\ c' = [c EXCEPT !.pc = IF c.entry[1] = c.seq THEN "index" ELSE "badseq"]
  /\ UNCHANGED <<fccVars, p, stop, out>>

(* A bad crc: invalidate the bucket and copy it again, while retries last. *)
get_bad_crc ==
  /\ c.pc = "crc"
  /\ ~good_crc(c.entry)
  /\ Invalidate(chost, {get_index} \X Parts)
  /\ c' = IF c.retries = 0
          THEN [c EXCEPT !.pc = "badcrc"]
          ELSE [c EXCEPT !.pc = "copy", !.todo = Parts, !.retries = @ - 1]
  /\ UNCHANGED <<p, stop, out>>

get_update_index ==
  /\ c.pc = "index"
  /\ Store(chost, consumer_index, next_index(get_index))
  /\ out' = Append(out, c.entry[1])
  /\ c' = [c EXCEPT !.pc = "publish"]
  /\ UNCHANGED <<p, stop>>

(* The get returns; run_consumer() decides whether to go on. *)
get_publish ==
  /\ c.pc = "publish"
  /\ Flush(chost, {consumer_index})
  /\ c' = [c EXCEPT !.nreceived = @ + 1, !.seq = 0, !.retries = 0,
                    !.entry = [q \in Parts |-> Unwritten],
                    !.pc = IF cstop \/ (~timed /\ c.nreceived + 1 >= NMessages)
                           THEN "done" ELSE "poll"]
  /\ UNCHANGED <<p, stop, out>>

pcq_consumer_get ==
  \/ get_poll \/ get_seq
  \/ \E q \in Parts : get_memcpy(q)
  \/ get_good_crc \/ get_bad_crc \/ get_update_index \/ get_publish

-----------------------------------------------------------------------------
(* The main thread's sleep(runtime) ends: it sets stop_now, of one thread  *)
(* after the other.                                                        *)
StopNow(t) ==
  /\ timed
  /\ t \notin stop
  /\ stop' = stop \cup {t}
  /\ UNCHANGED <<fccVars, p, c, out>>

(* pcq --drain on the consumer's host, after producer and consumer ended:  *)
(* stop_mode EMPTY, without wait.                                          *)
Drain ==
  /\ p.pc = "done"
  /\ c.pc = "done"
  /\ timed
  /\ ~c.drain
  /\ c' = [c EXCEPT !.pc = "poll", !.drain = TRUE, !.nreceived = 0]
  /\ UNCHANGED <<fccVars, p, stop, out>>

(* Read-ahead and eviction of the lines a host reads and the other writes, *)
(* and early write-back of those lines by their writer.  The two next_seq  *)
(* words are read by their writers only, and producer_index by the         *)
(* consumer only after an invalidate.                                      *)
ReadBy(h) ==
  (IF h = chost THEN BucketLines ELSE {})
    \cup (IF h = PHost THEN {consumer_index} ELSE {})

Hardware ==
  /\ \/ \E h \in Hosts : \E l \in ReadBy(h) : Refetch(h, l)
     \/ \E h \in Hosts :
          \E l \in Lines \ {producer_seq, consumer_seq} : WriteBack(h, l)
  /\ UNCHANGED <<p, c, stop, out>>

Next ==
  /\ \/ pcq_producer_put
     \/ pcq_consumer_get
     \/ \E t \in {"p", "c"} : StopNow(t)
     \/ Drain
     \/ Hardware
  /\ UNCHANGED <<chost, timed>>

Spec == Init /\ [][Next]_vars

(* Both threads keep running; a thread that waits yields and looks again.  *)
FairSpec ==
  /\ Spec
  /\ WF_vars(pcq_producer_put /\ UNCHANGED <<chost, timed>>)
  /\ WF_vars(pcq_consumer_get /\ UNCHANGED <<chost, timed>>)

-----------------------------------------------------------------------------
(***************************************************************************)
(* Properties.                                                             *)
(***************************************************************************)
nput == p.nsent + (IF p.pc = "publish" THEN 1 ELSE 0)
nget == Len(out)

PutLocals ==
  [pc : {"check", "seq", "copy", "flush", "index", "publish", "done"},
   index : Buckets, seq : Nat, todo : SUBSET Parts, nsent : Nat]

GetLocals ==
  [pc : {"poll", "seq", "copy", "crc", "index", "publish", "done", "badseq",
         "badcrc"},
   seq : Nat, todo : SUBSET Parts, retries : 0 .. CONSUMER_NRETRIES,
   entry : [Parts -> Int], drain : BOOLEAN, nreceived : Nat]

(* Every variable has its type (struct pcq, struct pcq_consumer, the       *)
(* locals of pcq_producer_put and pcq_consumer_get).                       *)
TypeOK ==
  /\ mem \in [Lines -> Int]
  /\ cache \in [Hosts -> [Lines -> Int \cup {Miss}]]
  /\ dirty \in [Hosts -> SUBSET Lines]
  /\ chost \in Hosts
  /\ timed \in BOOLEAN
  /\ p \in PutLocals
  /\ c \in GetLocals
  /\ stop \subseteq {"p", "c"}
  /\ out \in Seq(Nat)

(* No message is overwritten before it is consumed: from the moment the    *)
(* producer moves producer_index over a bucket until the consumer moves    *)
(* consumer_index over it, memory holds that message in one piece, however *)
(* old the consumer_index was that pcq_producer_put found the queue not    *)
(* full with.                                                              *)
UnconsumedIntact ==
  \A k \in nget .. nput - 1 : \A q \in Parts :
    mem[<<k % NBuckets, q>>] = k

(* The crc of a message never stays bad: by the time the consumer sees the *)
(* producer_index that covers a bucket, memory holds all of the message,   *)
(* so invalidating the bucket once repairs what the cache had torn and the *)
(* retries of pcq_consumer_get never run out.                              *)
RetryRepairsCrc == c.pc # "badcrc"

(* A drain that finds the queue empty has emptied it: every message whose  *)
(* put has returned was received.                                          *)
DrainEmpties ==
  c.drain /\ c.pc = "done" => nget = nput

(* Where the hardware keeps producer and consumer coherent (one host),     *)
(* pcq_consumer_get never meets the errors it calls fatal: what it copies  *)
(* out of the bucket at consumer_index is the next message.                *)
CoherentNeverFatal == chost = PHost => c.pc \notin {"badseq", "badcrc"}

(* With one producer and one consumer, pcq_consumer_get never finds a      *)
(* message with a good crc and the wrong sequence number.                  *)
NoSeqMismatch == c.pc # "badseq"

(* Every message is received, unless the consumer meets a fatal error or   *)
(* the threads are stopped: no interleaving and no stale index leaves the  *)
(* producer waiting for room that is there or the consumer for a message   *)
(* that is.  With a message count, both threads then end by themselves.    *)
AllDelivered ==
  <>(\/ c.pc \in {"badseq", "badcrc"}
     \/ stop # {}
     \/ p.pc = "done" /\ Len(out) = NMessages /\ (timed \/ c.pc = "done"))

(* The queue as a bounded FIFO: what lies between consumer_index and       *)
(* producer_index, as their owners see them.                               *)
Queued == [i \in 1 .. nput - nget |->
             View(PHost, <<(nget + i - 1) % NBuckets, 1>>)]
Fifo == INSTANCE BoundedFifo WITH Capacity <- NBuckets - 1, q <- Queued

(* The queue implements a bounded FIFO: pcq_consumer_get returns each      *)
(* message once, whole and in the order of the puts, or does not return.   *)
ImplementsFifo == Fifo!Spec
=============================================================================
