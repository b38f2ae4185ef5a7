--------------------------- MODULE CircularBuffer ---------------------------
(***************************************************************************)
(* The index arithmetic and the copies of the byte ring in src/cb.c.       *)
(*                                                                         *)
(* A byte is abstracted to its position in the stream of all bytes ever    *)
(* written to the ring: the model asks whether bytes come out complete and *)
(* in order, never what a byte is.  A cell nothing was written to holds    *)
(* Junk.                                                                   *)
(***************************************************************************)
EXTENDS Integers

CONSTANT N      \* cb.n, the number of bytes cb_init allocates

ASSUME NAssumption == N \in Nat \ {0}

Index == 0 .. N - 1
Junk  == -1
Cell  == Nat \cup {Junk}

(* cb_size: bytes between head h and tail t.                               *)
CbSize(h, t) == IF h <= t THEN t - h ELSE t + (N - h)

(* Mutant: the free cell is given away, so a full ring looks empty.        *)
CbSpaceFull(h, t) == N - CbSize(h, t)

(* cb_space: one cell always stays free, so that h = t means empty.        *)
CbSpace(h, t) == N - (1 + CbSize(h, t))

(* Mutant: off by one, an index may become n.                              *)
WrapsLate(p, n) == N < p + n

(* The test of cb_write and cb_read that splits a copy of n bytes at p.    *)
Wraps(p, n) == N <= p + n

(* The ring index i cells after p.                                         *)
Slot(p, i) == IF Wraps(p, i) THEN p + i - N ELSE p + i

(* memcpy of the n stream bytes from, from + 1, ... to ring index p on.    *)
Fill(d, p, n, from) ==
    [j \in Index |-> IF p <= j /\ j < p + n THEN from + (j - p) ELSE d[j]]

(* Mutant: the second memcpy starts at buf again (t += e is missing).      *)
DrainOver(d, p, n, buf) ==
    [i \in Index |-> IF i < (p + n) - N THEN d[i]
                     ELSE IF i < n /\ p + i < N THEN d[p + i] ELSE buf[i]]

(* The one or two memcpy calls of cb_read: n ring bytes from index p on    *)
(* replace the first n bytes of buf.                                       *)
Drain(d, p, n, buf) ==
    [i \in Index |-> IF i < n THEN d[Slot(p, i)] ELSE buf[i]]

(* The ring holds the stream bytes from, from + 1, ... in order.           *)
Holds(d, h, t, from) ==
    \A i \in 0 .. CbSize(h, t) - 1 : d[Slot(h, i)] = from + i

=============================================================================
