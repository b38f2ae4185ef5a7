-------------------------------- MODULE Codec --------------------------------
(***************************************************************************)
(* What happens to a q object between publish on one side and the callback *)
(* on the other: encodeToSolaceContainer turns it into a stream of SDT     *)
(* fields, decodeFromSolaceContainer turns fields back into a q object.    *)
(*                                                                         *)
(* A q object is [t, v] (an atom, t < 0), [t, vs] (a vector, t > 0),       *)
(* [t, xs] (a list, t = 0), or [t, keys, vals] (a dictionary, t = 99); a   *)
(* table (98) and :: (101) have vs = <<>>.  Text arrives as a character    *)
(* vector, [t, s].  Values are small numbers: what is modelled of them is  *)
(* whether they survive a change of type.  The SDT containers are external *)
(* (solClientMsg.h:69-109): what they cost in bytes is kept, because the   *)
(* encoder builds nested ones in a buffer of 1024.                         *)
(*                                                                         *)
(* The code's recursion over lists and containers is recursive functions   *)
(* here: nested and decode, and those of the reference.                    *)
(***************************************************************************)
EXTENDS Integers, Sequences

CONSTANTS
    MapSize,    \* sizeof(map): room of a nested container
    Bits,       \* width of a 32-bit integer, scaled down
    Own,        \* q objects this library publishes, and what is inside them
    Depth(_),   \* how deep the lists of a q object are nested
    MaxDepth,   \* bound on the nesting of a message
    Foreign     \* messages published by others: one SDT field each

ASSUME SizeAssumption == MapSize \in Nat /\ Bits \in Nat \ {0} /\ MaxDepth \in Nat

Atoms    == [t : -19 .. -1, v : Int]
Vectors  == [t : 1 .. 19, vs : Seq(Int)] \cup [t : {98, 101}, vs : {<<>>}]
Lists    == [t : {0}, xs : Seq(Own)]
Dictionaries ==
    {d \in [t : {99}, keys : [t : 0 .. 19, vs : Seq(Int)],
            vals : [t : 1 .. 19, vs : Seq(Int)] \cup Lists] :
        Len(d.keys.vs) = Len(IF d.vals.t = 0 THEN d.vals.xs ELSE d.vals.vs)}

\* Objects are finite: what is inside a list is less deep than the list.
OwnAssumption ==
    \A y \in Own :
        /\ y \in Atoms \/ y \in Vectors \/ y \in Lists \/ y \in Dictionaries
        /\ Depth(y) \in 0 .. MaxDepth
        /\ y.t = 0 => \A i \in DOMAIN y.xs : Depth(y.xs[i]) < Depth(y)

ASSUME OwnIsFinite == OwnAssumption

VARIABLES
    pc,         \* start, refused, wire, unread, crashed or got
    x,          \* the q object, or the foreign field
    own,        \* x is published by this library
    wire,       \* the message's own field
    got         \* what the receiver's q is given

vars == <<pc, x, own, wire, got>>

OK   == 0
FAIL == -1

NullPtr == [t |-> 1000]     \* (K)0: not a q object
Raw     == [sdt |-> "raw"]  \* a message that holds no SDT field

-----------------------------------------------------------------------------
(* SDT fields and containers (external).                                   *)

Field(kind, v) == [sdt |-> kind, v |-> v]

Nested == {"stream", "map"}
Kinds  == {"bool", "int8", "uint8", "int16", "uint16", "int32", "uint32", "int64",
           "uint64", "float", "double", "wchar", "string", "bytes", "unknown",
           "null", "destination", "smf"}

\* The fields of a message, nested n deep at most.
fields[n \in Nat] ==
    [sdt : Kinds, v : Int]
    \cup (IF n = 0 THEN {}
          ELSE [sdt : Nested, names : Seq(Int), fs : Seq(fields[n - 1]),
                used : Nat, room : Int])

Fields == fields[MaxDepth + 2]

ASSUME ForeignAssumption == \A f \in Foreign : f = Raw \/ f \in Fields

NameCost == 4
Cost(f) ==
    IF f.sdt \in Nested THEN f.used
    ELSE CASE f.sdt = "bool" -> 3
           [] f.sdt \in {"int16", "wchar", "string"} -> 4
           [] f.sdt \in {"int32", "float"} -> 6
           [] OTHER -> 10

Grows == -1     \* the room of a container without a buffer of its own

New(kind, room) == [sdt |-> kind, names |-> <<>>, fs |-> <<>>,
                    used |-> 5, room |-> room]

\* The solClient_container_add functions; name 0 is NULL.
Put(c, name, f) ==
    LET used == c.used + Cost(f) + (IF name = 0 THEN 0 ELSE NameCost)
    IN  IF c.room # Grows /\ used > c.room
        THEN [rc |-> FAIL, c |-> c]
        ELSE [rc |-> OK, c |-> [c EXCEPT !.names = Append(@, name),
                                         !.fs = Append(@, f), !.used = used]]

-----------------------------------------------------------------------------
(* The encoder.  Results are [rc, c]: code and container; g is the global  *)
(* rc, which the dictionary encoder uses for want of one of its own.       *)

\* The switch on the type, the same for atoms (negated) and vector elements.
SdtKinds == <<"bool", "none", "none", "none", "int16", "int32", "int64",
              "float", "double", "wchar", "string", "int64", "int32", "int32",
              "float", "int64", "int32", "int32", "int32">>

\* Mutant: a byte goes out as a byte array.
SdtKindBytes(t) ==
    IF t = 4 THEN "bytes" ELSE IF t \in 1 .. 19 THEN SdtKinds[t] ELSE "none"

SdtKind(t) == IF t \in 1 .. 19 THEN SdtKinds[t] ELSE "none"

\* A datetime is a double, read as if it were a real.
Datetime == 15
Misread  == 100

Element(c, name, t, v) ==
    IF SdtKind(t) = "none" THEN [rc |-> FAIL, c |-> c]
    ELSE Put(c, name, Field(SdtKind(t), IF t = Datetime THEN Misread ELSE v))

\* Mutant: the name is lost.
AtomUnnamed(c, name, a) ==
    IF a.t < 0 THEN Element(c, 0, -a.t, a.v) ELSE [rc |-> FAIL, c |-> c]

Atom(c, name, a) ==
    IF a.t < 0 THEN Element(c, name, -a.t, a.v) ELSE [rc |-> FAIL, c |-> c]

\* Mutant: values shifted against the names.
DictionaryLoopShifted(c, d, g) ==
    LET n == Len(d.keys.vs)
        run[i \in Nat] ==
            IF i = 0 THEN [rc |-> g, c |-> c]
            ELSE IF d.vals.t = 0 THEN Atom(run[i - 1].c, d.keys.vs[i], d.vals.xs[i])
            ELSE Element(run[i - 1].c, d.keys.vs[i], d.vals.t, d.vals.vs[(i % n) + 1])
    IN  run

\* The loop over the keys, after i rounds.  Every value replaces the code of
\* the one before, in the global rc.
DictionaryLoop(c, d, g) ==
    LET run[i \in Nat] ==
            IF i = 0 THEN [rc |-> g, c |-> c]
            ELSE IF d.vals.t = 0 THEN Atom(run[i - 1].c, d.keys.vs[i], d.vals.xs[i])
            ELSE Element(run[i - 1].c, d.keys.vs[i], d.vals.t, d.vals.vs[i])
    IN  run

Dictionary(c, d, g) ==
    IF d.keys.t # 11 \/ g = FAIL THEN [rc |-> FAIL, c |-> c]
    ELSE DictionaryLoop(c, d, g)[Len(d.keys.vs)]

\* Mutant: the result of an element is not looked at.
VectorRoundIgnores(r, t, v) == [rc |-> OK, c |-> Element(r.c, 0, t, v).c]

\* One element; the loop ends with the first that fails.
VectorRound(r, t, v) == IF r.rc = FAIL THEN r ELSE Element(r.c, 0, t, v)

VectorLoop(c, y) ==
    LET run[i \in Nat] == IF i = 0 THEN [rc |-> OK, c |-> c]
                          ELSE VectorRound(run[i - 1], y.t, y.vs[i])
    IN  run

Vector(c, y, g) ==
    IF y.t = 99 THEN Dictionary(c, y, g)
    ELSE IF y.t = 98 THEN [rc |-> FAIL, c |-> c]
    ELSE VectorLoop(c, y)[Len(y.vs)]

\* The global rc afterwards: only a dictionary that gets to its values sets it.
GlobalAfter(y, r, g) ==
    IF y.t = 99 /\ y.keys.t = 11 THEN r.rc ELSE g

\* What goes into the nested container of an element that is no atom, in a
\* buffer of its own: a list by lists, the recursive call.
Inside(lists, e, g) ==
    IF e.t = 0 THEN lists[e][g]
    ELSE LET r == Vector(New(IF e.t = 99 THEN "map" ELSE "stream", MapSize), e, g)
         IN  [rc |-> r.rc, c |-> r.c, g |-> GlobalAfter(e, r, g)]

\* One element of a list: it replaces the code of the one before, and of a
\* list inside a list only the addContainer counts.
ListRound(lists, r, e) ==
    IF e.t < 0
    THEN LET a == Atom(r.c, 0, e) IN [rc |-> a.rc, c |-> a.c, g |-> r.g]
    ELSE LET inner == Inside(lists, e, r.g)
             add   == Put(r.c, 0, inner.c)
         IN  [rc |-> IF e.t = 0 THEN add.rc ELSE inner.rc + add.rc,
              c  |-> add.c, g |-> inner.g]

ListLoop(lists, c, y, g) ==
    LET run[i \in Nat] == IF i = 0 THEN [rc |-> FAIL, c |-> c, g |-> g]
                          ELSE ListRound(lists, run[i - 1], y.xs[i])
    IN  run

\* encodeToSolaceContainer, called for a list inside a list.
OwnLists == {y \in Own : y.t = 0}
nested[y \in OwnLists] ==
    [g \in {OK, FAIL} |->
        ListLoop(nested, New("stream", MapSize), y, g)[Len(y.xs)]]

\* encodeToSolaceContainer, called by publishToSolace, which has set the global
\* rc to OK just before.
Encode(y) ==
    LET top == New("stream", Grows)
    IN  IF y.t = 99
        THEN LET inner == Dictionary(New("map", MapSize), y, OK)
                 add   == Put(top, 0, inner.c)
             IN  [rc |-> inner.rc + add.rc, c |-> add.c]
        ELSE IF y.t = 0
        THEN LET r == ListLoop(nested, top, y, OK)[Len(y.xs)]
             IN  [rc |-> r.rc, c |-> r.c]
        ELSE Vector(top, y, OK)

-----------------------------------------------------------------------------
(* The decoder.                                                            *)

Low == 2 ^ (Bits - 1)

\* (float) of a double or a 64-bit integer: only even values are that short.
Single(v)  == IF v = Misread THEN v ELSE v - (v % 2)
\* (int) of an unsigned 32-bit integer.
AsInt(v)   == IF v < Low THEN v ELSE v - 2 * Low

\* NULL, DESTINATION, SMF and BYTEARRAY fields have no q object.
DecodedTypes == [bool |-> -1, int8 |-> -5, uint8 |-> -6, uint16 |-> -6,
                 int16 |-> -6, int32 |-> -6, uint32 |-> -7, int64 |-> -7,
                 uint64 |-> -9, double |-> -9, float |-> -8, wchar |-> -10]

\* Mutant: a short unsigned integer is read as signed.
DecodedValueSigned(kind, v) ==
    CASE kind \in {"uint16", "uint32"} -> AsInt(v)
      [] kind \in {"double", "uint64"} -> Single(v)
      [] OTHER -> v

DecodedValue(kind, v) ==
    CASE kind = "uint32" -> AsInt(v)
      [] kind \in {"double", "uint64"} -> Single(v)
      [] OTHER -> v

\* A function, of the elements of a sequence.
Each(fn, s) == [i \in DOMAIN s |-> fn[s[i]]]

decode[f \in Fields] ==
    CASE f.sdt = "stream" -> [t |-> 0, xs |-> Each(decode, f.fs)]
      [] f.sdt = "map" ->
            [t |-> 99, keys |-> [t |-> 11, vs |-> f.names],
             vals |-> [t |-> 0, xs |-> Each(decode, f.fs)]]
      [] f.sdt \in {"string", "unknown"} -> [t |-> 10, s |-> f.v]
      [] f.sdt \in DOMAIN DecodedTypes ->
            [t |-> DecodedTypes[f.sdt], v |-> DecodedValue(f.sdt, f.v)]
      [] OTHER -> NullPtr

\* The q object made of f has a null pointer somewhere inside.
hollow[f \in Fields] ==
    IF f.sdt \in Nested THEN \E i \in DOMAIN f.fs : hollow[f.fs[i]]
    ELSE decode[f] = NullPtr

\* decodeFromSolace.  The bytes are read as a symbol if the message's own field
\* has no case, and can be had.  Without an SDT field the local variable field
\* is as the stack left it.
RawText == [t |-> -11, v |-> 0]
NoCase  == {"null", "destination", "smf"}
Stack   == {Field(k, 0) : k \in {"bool", "int32"}}
Decoded(f) ==
    IF f = Raw THEN {RawText, NullPtr} \cup {decode[s] : s \in Stack}
    ELSE IF f.sdt \in NoCase THEN {RawText, NullPtr}
    ELSE {decode[f]}

-----------------------------------------------------------------------------
(* A message on its way.                                                   *)

\* publishtosolace refuses atoms.
Published == {y \in Own : y.t >= 0}

Init ==
    /\ pc = "start" /\ wire = Raw /\ got = NullPtr
    /\ \/ own = TRUE /\ x \in Published
       \/ own = FALSE /\ x \in Foreign

\* publishToSolace sends what the encoder says OK to.
Publish ==
    /\ pc = "start" /\ own
    /\ LET e == Encode(x)
       IN  IF e.rc = OK THEN pc' = "wire" /\ wire' = e.c
           ELSE pc' = "refused" /\ wire' = wire
    /\ UNCHANGED <<x, own, got>>

Others ==
    /\ pc = "start" /\ ~own
    /\ pc' = "wire" /\ wire' = x
    /\ UNCHANGED <<x, own, got>>

\* messageReceiveCallback hands over nothing when there is nothing to read; b9
\* follows a null pointer further inside.
Receive ==
    /\ pc = "wire"
    /\ \E k \in Decoded(wire) :
          IF k = NullPtr THEN pc' = "unread" /\ got' = got
          ELSE IF wire.sdt \in Nested /\ hollow[wire] THEN pc' = "crashed" /\ got' = got
          ELSE pc' = "got" /\ got' = k
    /\ UNCHANGED <<x, own, wire>>

Next == Publish \/ Others \/ Receive

Spec == Init /\ [][Next]_vars

-----------------------------------------------------------------------------
(* What should arrive: a reference that knows nothing of codes, buffers    *)
(* and loops.                                                              *)

Uncarried == [t |-> 1001]

\* Widths grow, temporal types become plain numbers, symbols become text.
Arrives(t, v) ==
    CASE t = 1 -> [t |-> -1, v |-> v]
      [] t \in {5, 6, 13, 14, 17, 18, 19} -> [t |-> -6, v |-> v]
      [] t \in {7, 12, 16} -> [t |-> -7, v |-> v]
      [] t = 8 -> [t |-> -8, v |-> v]
      [] t = Datetime -> [t |-> -8, v |-> Misread]
      [] t = 9 -> [t |-> -9, v |-> Single(v)]
      [] t = 10 -> [t |-> -10, v |-> v]
      [] t = 11 -> [t |-> 10, s |-> v]
      [] OTHER -> Uncarried

\* The values of a dictionary, as atoms where they can be.
Value(d, i) == IF d.vals.t = 0 THEN d.vals.xs[i]
               ELSE [t |-> -d.vals.t, v |-> d.vals.vs[i]]
AtomArrives(a) == IF a.t < 0 THEN Arrives(-a.t, a.v) ELSE Uncarried

\* A dictionary, a list, with what is in it.
DictionaryOf(names, values) ==
    [t |-> 99, keys |-> [t |-> 11, vs |-> names], vals |-> [t |-> 0, xs |-> values]]
ListOf(elements) == [t |-> 0, xs |-> elements]

\* All of an object, as it arrives.
whole[y \in Own] ==
    IF y.t < 0 THEN AtomArrives(y)
    ELSE IF y.t = 0 THEN ListOf(Each(whole, y.xs))
    ELSE IF y.t = 99
    THEN DictionaryOf(y.keys.vs, [i \in DOMAIN y.keys.vs |-> AtomArrives(Value(y, i))])
    ELSE ListOf([i \in DOMAIN y.vs |-> Arrives(y.t, y.vs[i])])

Payload(y) == IF y.t = 99 THEN ListOf(<<whole[y]>>) ELSE whole[y]

\* The bytes a value, a sequence of parts and an object take in a container.
Width(t) == CASE t = 1 -> 3 [] t \in {5, 10, 11} -> 4
              [] t \in {6, 8, 13, 14, 15, 17, 18, 19} -> 6 [] OTHER -> 10
Sum(s) == LET sum[i \in Nat] == IF i = 0 THEN 0 ELSE sum[i - 1] + s[i] IN sum
bytes[y \in Own] ==
    IF y.t < 0 THEN Width(-y.t)
    ELSE IF y.t = 0
    THEN 5 + Sum(Each(bytes, y.xs))[Len(y.xs)]
    ELSE IF y.t = 99
    THEN 5 + Sum([i \in DOMAIN y.keys.vs |-> NameCost + Width(-Value(y, i).t)])
                [Len(y.keys.vs)]
    ELSE 5 + Sum([i \in DOMAIN y.vs |-> Width(y.t)])[Len(y.vs)]

\* Every part of y has an SDT type, and no nested part is larger than the
\* encoder's buffer.
carried[y \in Own] ==
    IF y.t < 0 THEN AtomArrives(y) # Uncarried
    ELSE /\ bytes[y] <= MapSize
         /\ IF y.t = 0 THEN \A i \in DOMAIN y.xs : carried[y.xs[i]]
            ELSE IF y.t = 99
            THEN y.keys.t = 11
                 /\ \A i \in DOMAIN y.keys.vs : AtomArrives(Value(y, i)) # Uncarried
            ELSE y.t # 98 /\ \A i \in DOMAIN y.vs : Arrives(y.t, y.vs[i]) # Uncarried

\* Only what is nested has to fit; the empty list has no encoding.
Carried(y) ==
    IF y.t = 0 THEN y.xs # <<>> /\ \A i \in DOMAIN y.xs : carried[y.xs[i]]
    ELSE IF y.t = 99 THEN carried[y]
    ELSE y.t # 98 /\ \A i \in DOMAIN y.vs : Arrives(y.t, y.vs[i]) # Uncarried

\* Sequences with a part of each of the first i forms, in their order, or of
\* some of them.
Longer(ss, form) == {Append(p[1], p[2]) : p \in ss \X form}
Remains(forms) ==
    LET some[i \in Nat] == IF i = 0 THEN {<<>>}
                           ELSE some[i - 1] \cup Longer(some[i - 1], forms[i])
    IN  some

Pairs(d, i) == {r \in {[name |-> d.keys.vs[i], value |-> AtomArrives(Value(d, i))]} :
                    d.keys.t = 11 /\ r.value # Uncarried}

\* What may arrive of an object if parts are left out: nothing changed, nothing
\* moved; a vector loses its end.
partly[y \in Own] ==
    IF y.t < 0 THEN {AtomArrives(y)} \ {Uncarried}
    ELSE IF y.t = 0
    THEN {ListOf(s) : s \in Remains(Each(partly, y.xs))[Len(y.xs)]}
    ELSE IF y.t = 99
    THEN {DictionaryOf([i \in DOMAIN s |-> s[i].name], [i \in DOMAIN s |-> s[i].value]) :
            s \in Remains([i \in DOMAIN y.keys.vs |-> Pairs(y, i)])[Len(y.keys.vs)]}
    ELSE {ListOf([i \in 1 .. k |-> Arrives(y.t, y.vs[i])]) : k \in 0 .. Len(y.vs)}

Partial(y) == IF y.t = 99 THEN {ListOf(<<k>>) : k \in partly[y]} ELSE partly[y]

-----------------------------------------------------------------------------
(* Correctness.                                                            *)

\* Whatever can be carried is sent and arrives whole, in the documented types
\* (a datetime as a number that is not its value, a float at the precision of
\* a real); at whatever depth its parts stand, such an object is not refused.
RoundTrip ==
    own /\ Carried(x) =>
        /\ pc # "refused"
        /\ pc = "got" => got = Payload(x)

\* Of what cannot be carried, parts may be missing, also when publish reports
\* success; but what arrives is what was sent, in its order and its place, and
\* a vector arrives complete or is refused.
NothingAltered ==
    own /\ pc = "got" =>
        /\ got \in Partial(x)
        /\ x.t \in 1 .. 19 => got = Payload(x)

\* What this library lets out it can read back: no message of its own is
\* refused by the receiver, or leads b9 to a null pointer.
OwnReadable == own => pc \notin {"unread", "crashed"}

\* The readable numbers of a message of another publisher.
ExactTypes == [bool |-> -1, int8 |-> -5, uint8 |-> -6, int16 |-> -6, uint16 |-> -6,
               int32 |-> -6, int64 |-> -7]

exact[f \in Fields] ==
    IF f.sdt \in Nested THEN \A i \in DOMAIN f.fs : exact[f.fs[i]]
    ELSE f.sdt \in DOMAIN ExactTypes

plain[f \in Fields] ==
    IF f.sdt = "stream" THEN ListOf(Each(plain, f.fs))
    ELSE IF f.sdt = "map" THEN DictionaryOf(f.names, Each(plain, f.fs))
    ELSE [t |-> ExactTypes[f.sdt], v |-> f.v]

\* The signed and the small unsigned integers of other publishers arrive with
\* the value and in the place they were sent with, however deep they are nested.
ForeignIntegersKept ==
    ~own /\ x # Raw /\ exact[x] =>
        /\ pc \notin {"unread", "crashed"}
        /\ pc = "got" => got = plain[x]

-----------------------------------------------------------------------------
(* The inductive invariant.                                                *)

\* A message of this library is what the encoder made of the object, and what
\* q gets is what it is decoded to.
OwnInv ==
    own => /\ x \in Published
           /\ pc \in {"start", "refused", "wire", "got"}
           /\ pc = "refused" => Encode(x).rc # OK
           /\ pc \in {"wire", "got"} => Encode(x).rc = OK /\ wire = Encode(x).c
           /\ pc = "got" => got = decode[wire]

\* So it is with the readable numbers of others.
ForeignInv ==
    ~own => /\ x \in Foreign
            /\ pc \in {"wire", "unread", "crashed", "got"} => wire = x
            /\ x # Raw /\ exact[x] => /\ pc \notin {"unread", "crashed"}
                                      /\ pc = "got" => got = decode[wire]

IInv == OwnInv /\ ForeignInv

-----------------------------------------------------------------------------
(* What the repository says, and the code does not do.                     *)

\* src/src/solace.c:937: "Encode the K objected into a solace container": an
\* object whose publish succeeds has been encoded, all of it.  A byte in a list
\* is refused, and the int after it sets rc back to OK.  (With the objects of
\* MCCodec.cfg TLC also finds a list in a list: addContainer's result is the
\* only one that solace.c:696 keeps of it.)
OkMeansComplete == own /\ pc = "got" => got = Payload(x)

\* TLC refutes the next two as well, as invariants of MCCodec.cfg.
\* src/include/solclient/solClient.h:642: the field a float travels in is a
\* "64-bit floating point number", and src/tests/csv/pubsubpayload.csv:97 expects
\* a published float vector to arrive as it was.
FloatsArrive ==
    (own /\ pc = "got" /\ x.t = 9) =>
        \A i \in DOMAIN x.vs : got.xs[i].v = x.vs[i]

\* src/src/solace.c:625: a message without an SDT field is read through "a
\* pointer to the binary attachment of the message".
RawReadAsBytes == pc = "got" /\ x = Raw => got = RawText

=============================================================================
