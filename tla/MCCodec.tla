------------------------------- MODULE MCCodec -------------------------------
(* Codec for TLC: the objects that are published.  Every q type occurs as  *)
(* a vector; lists mix atoms the encoder knows, one it does not know       *)
(* (byte), vectors that fit the nested buffer and one that does not,       *)
(* dictionaries with good and bad keys and values, tables and lists.       *)
EXTENDS Codec, SequencesExt

Vec(t, vs)   == [t |-> t, vs |-> vs]
Lst(xs)      == [t |-> 0, xs |-> xs]
Dict(ks, vl) == [t |-> 99, keys |-> Vec(11, ks), vals |-> vl]

Int1    == [t |-> -6, v |-> 1]
Long1   == [t |-> -7, v |-> 1]
Byte1   == [t |-> -4, v |-> 1]
Symbol == [t |-> -11, v |-> 0]
Table  == Vec(98, <<>>)
Null   == Vec(101, <<>>)

SomeAtoms == {Int1, Long1, Byte1, Symbol}
Dicts    == {Dict(<<>>, Lst(<<>>)), Dict(<<1>>, Lst(<<Int1>>)), Dict(<<1>>, Lst(<<Byte1>>)),
             Dict(<<1, 2>>, Vec(1, <<0, 1>>)), Dict(<<1, 2>>, Lst(<<Byte1, Symbol>>)),
             Dict(<<1, 2>>, Lst(<<Int1, Long1>>)), Dict(<<1, 2>>, Lst(<<Null, Symbol>>)),
             [t |-> 99, keys |-> Vec(6, <<1>>), vals |-> Vec(6, <<1>>)]}
Elements == SomeAtoms \union Dicts \union
            {Vec(1, <<1, 0>>), Vec(4, <<1>>), Vec(7, <<0, 1>>), Vec(6, <<>>), Table, Null}
SomeLists == {Lst(xs) : xs \in BoundedSeq(Elements, 2)}
Mixed    == SomeAtoms \union {Vec(1, <<1, 0>>), Vec(4, <<1>>)} \union Dicts

RECURSIVE Nesting(_)
Nesting(y) == IF y.t # 0 THEN 0
              ELSE CHOOSE n \in 1 .. 4 :
                      /\ \A i \in DOMAIN y.xs : Nesting(y.xs[i]) < n
                      /\ n = 1 \/ \E i \in DOMAIN y.xs : Nesting(y.xs[i]) = n - 1

OwnObjects == Elements \union
    {Vec(t, vs) : t \in 1 .. 19, vs \in BoundedSeq(0 .. 1, 3)}
    \union {Table, Null} \union Dicts \union SomeLists
    \union {Lst(xs) : xs \in [1 .. 3 -> Mixed]}
    \union {Lst(<<e, xs>>) : e \in {Int1, Byte1}, xs \in SomeLists}
    \union {Lst(<<xs>>) : xs \in SomeLists}
    \union {Lst(<<Lst(<<xs>>), e>>) : e \in {Int1, Byte1}, xs \in SomeLists}

\* For the run about rc: a byte the encoder refuses, and what follows it in its list.
Forgotten  == {Byte1, Int1, Lst(<<Byte1, Int1>>)}
NoMessages == {}

Leaves  == {Field(k, v) : k \in {"bool"}, v \in 0 .. 1}
           \union {Field(k, v) : k \in {"int8", "uint8", "int16", "uint16", "int32", "uint32",
                                        "int64", "uint64", "double"}, v \in {0, 5, Low + 1}}
           \union {Field(k, 0) : k \in {"null", "bytes", "unknown", "string"}}
Con(kind, fs) == [New(kind, Grows) EXCEPT !.names = [i \in DOMAIN fs |-> i], !.fs = fs]
Flat    == {Con(k, fs) : k \in Nested, fs \in BoundedSeq(Leaves, 2)}
OthersMessages == Leaves \union Flat \union {Raw}
                  \union {Con(k, <<a, f>>) : k \in Nested, a \in {Field("int8", 1), Field("null", 0)}, f \in Flat}
=============================================================================
