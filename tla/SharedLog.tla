----------------------------- MODULE SharedLog -----------------------------
(***************************************************************************)
(* What the metadata log promises: one append-only sequence of entries,    *)
(* and clients whose name spaces only ever grow, by entries of that        *)
(* sequence.                                                               *)
(***************************************************************************)
EXTENDS Naturals, Sequences

CONSTANTS Clients, Entry

VARIABLES log,   \* the entries committed so far
          fs     \* fs[c]: the entries client c has instantiated

Init ==
  /\ log = <<>>
  /\ fs = [c \in Clients |-> {}]

Commit ==
  /\ Len(log') = Len(log) + 1
  /\ \E e \in Entry : log' = Append(log, e)
  /\ UNCHANGED fs

Play(c) ==
  /\ fs'[c] # fs[c]
  /\ \E k \in 1 .. Len(log) : fs' = [fs EXCEPT ![c] = @ \cup {log[k]}]
  /\ UNCHANGED log

Next == Commit \/ \E c \in Clients : Play(c)

Spec == Init /\ [][Next]_<<log, fs>>
=============================================================================
