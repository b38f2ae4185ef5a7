--------------------------- MODULE Options_proofs ---------------------------
(***************************************************************************)
(* Invariance proofs for Options.                                          *)
(***************************************************************************)
EXTENDS Options, TLAPS

USE ValuesAssumption

\* What a dictionary may hold is a number of the model.
LEMMA ValueTypes ==
    ASSUME NEW t \in Types
    PROVE  ValuesOf(t) \subseteq Int
BY DEF Types, ValuesOf, Symbol, Long, Bool, Dict, Given

\* Only options are accepted.
LEMMA AcceptedKnown ==
    ASSUME NEW key, NEW t, Accepts(key, t)
    PROVE  key \in Known
BY DEF Accepts, Known

LEMMA ErrorNameKnown ==
    ASSUME NEW key \in Known
    PROVE  ErrorName(key) \in Known
BY DEF ErrorName, Known, IntKeys

LEMMA SetOption ==
    ASSUME NEW f \in [Known -> Int], NEW key, NEW v \in Int
    PROVE  [f EXCEPT ![key] = v] \in [Known -> Int]
OBVIOUS

LEMMA DefaultsType == Defaults \in [Known -> Int]
<1>1. [k \in Known |-> 0] \in [Known -> Int]
    OBVIOUS
<1> QED BY <1>1, SetOption DEF Defaults

LEMMA NoSchemaType == opts \in [Known -> Int] => NoSchema \in [Known -> Int]
BY SetOption DEF NoSchema, Empty

\* One pair: the dictionary is longer by it, and the rest is as before.
LEMMA Appended ==
    ASSUME TypeOK, NEW key \in TryKeys, NEW t \in Types, NEW v \in Int,
           Reads(key, t, v)
    PROVE  /\ dict \in Seq([key: TryKeys, type: Types, value: Int])
           /\ dict' \in Seq([key: TryKeys, type: Types, value: Int])
           /\ Len(dict) \in Nat /\ Len(dict') = Len(dict) + 1
           /\ DOMAIN dict = 1 .. Len(dict) /\ DOMAIN dict' = 1 .. Len(dict')
           /\ \A i \in DOMAIN dict : dict'[i] = dict[i]
           /\ dict'[Len(dict')] = [key |-> key, type |-> t, value |-> v]
BY DEF Reads, TypeOK

-----------------------------------------------------------------------------
(* Types.                                                                  *)

LEMMA TypeStep ==
    ASSUME TypeOK, [Next]_vars
    PROVE  TypeOK'
<1> USE DefaultsType
<1>1. CASE UNCHANGED vars
    BY <1>1 DEF TypeOK, vars
<1>2. CASE InitBegin
    BY <1>2, NoSchemaType DEF InitBegin, TypeOK
<1>3. CASE InitRefused
    BY <1>3, NoSchemaType DEF InitRefused, TypeOK
<1>4. CASE ConfigEnd
    BY <1>4 DEF ConfigEnd, TypeOK
<1>5. CASE FreeDictionary
    <2>1. Freed \in Int
        BY DEF Freed
    <2>2. opts' \in [Known -> Int]
        BY <1>5, <2>1, SetOption DEF FreeDictionary, TypeOK
    <2> QED BY <1>5, <2>2 DEF FreeDictionary, TypeOK
<1>6. CASE Configure
    <2>1. DOMAIN props' = Lasting \union {"address", "retries"}
        BY <1>6 DEF Configure, Properties, Lasting
    <2>2. <<>> \in Seq([key: TryKeys, type: Types, value: Int])
        OBVIOUS
    <2> QED BY <1>6, <2>1, <2>2 DEF Configure, TypeOK
<1>7. CASE ConnectOk
    BY <1>7 DEF ConnectOk, TypeOK
<1>8. CASE ConnectFails
    BY <1>8 DEF ConnectFails, TypeOK
<1>9. CASE SessionEnds
    BY <1>9 DEF SessionEnds, Properties, TypeOK, Lasting
<1>10. ASSUME NEW key \in TryKeys, NEW t \in Types, NEW v \in ValuesOf(t),
              ConfigPair(key, t, v) \/ ConfigMisread(key, t, v)
       PROVE  TypeOK'
    <2>1. v \in Int
        BY ValueTypes
    <2>2. Reads(key, t, v)
        BY <1>10 DEF ConfigPair, ConfigMisread
    <2>3. dict' \in Seq([key: TryKeys, type: Types, value: Int])
        BY <2>1, <2>2, Appended
    <2>4. opts' \in [Known -> Int]
        BY <1>10, <2>1, SetOption DEF ConfigPair, ConfigMisread, TypeOK
    <2>5. answer' \in Known \union {"none", "alreadyinit", "expecteddict", "rc"}
        BY <1>10, ErrorNameKnown DEF ConfigPair, ConfigMisread, TypeOK
    <2>6. pc' \in {"config", "connect", "crashed"}
        BY <1>10 DEF ConfigPair, ConfigMisread, Reads
    <2> QED BY <2>2, <2>3, <2>4, <2>5, <2>6 DEF TypeOK, Reads
<1>11. ASSUME NEW v \in Ints, ChangeLogLevel(v)
       PROVE  TypeOK'
    BY <1>11, SetOption DEF ChangeLogLevel, TypeOK
<1> QED
    BY <1>1, <1>2, <1>3, <1>4, <1>5, <1>6, <1>7, <1>8, <1>9, <1>10, <1>11 DEF Next

-----------------------------------------------------------------------------
(* What has been read is in opts.                                          *)

\* One pair leaves every option as the pairs so far give it.
LEMMA PairAsGiven ==
    ASSUME TypeOK, NEW key \in TryKeys, NEW t \in Types, NEW v \in Int,
           ConfigPair(key, t, v), \A k \in Known : AsGiven(k),
           \A i \in DOMAIN dict : Good(i)
    PROVE  /\ \A k \in Known : AsGiven(k)'
           /\ pc' = "config" => (\A i \in DOMAIN dict : Good(i))'
<1> DEFINE m == Len(dict')
<1>0. Reads(key, t, v) /\ ~uniform /\ pc = "config" /\ ~uniform' /\ before' = before
    BY DEF ConfigPair, Reads
<1>1. /\ Len(dict) \in Nat /\ m = Len(dict) + 1
      /\ DOMAIN dict = 1 .. Len(dict) /\ DOMAIN dict' = 1 .. m
      /\ \A i \in DOMAIN dict : dict'[i] = dict[i]
      /\ dict'[m] = [key |-> key, type |-> t, value |-> v]
    BY <1>0, Appended
<1>2. \A i \in DOMAIN dict : Good(i)'
    BY <1>1 DEF Good
<1>3. Good(Len(dict))' <=> (key \in Known => Accepts(key, t))
    <2>1. \A j \in DOMAIN dict : dict[j].key \in Known => Accepts(dict[j].key, dict[j].type)
        BY <1>1 DEF Good
    <2> QED BY <1>1, <2>1 DEF Good
<1>4. ASSUME NEW k \in Known
      PROVE  About(k)' = About(k) \union (IF Good(Len(dict))' /\ key = k THEN {m} ELSE {})
    BY <1>1, <1>2 DEF About
<1>5. ASSUME NEW k \in Known
      PROVE  AsGiven(k)'
    <2>1. AsGiven(k) /\ About(k) \subseteq 1 .. Len(dict)
        BY <1>1 DEF About
    <2>2. CASE Good(Len(dict))' /\ key = k
        <3>1. opts' = [opts EXCEPT ![key] = v]
            BY <1>3, <2>2 DEF ConfigPair
        <3>2. opts'[k] = dict'[m].value
            BY <1>1, <2>2, <3>1 DEF TypeOK
        <3>3. m \in About(k)' /\ \A j \in About(k)' : j <= m
            BY <1>1, <1>4, <2>1, <2>2
        <3> QED BY <1>0, <3>2, <3>3 DEF AsGiven
    <2>3. CASE ~(Good(Len(dict))' /\ key = k)
        <3>1. opts'[k] = opts[k]
            BY <1>3, <2>3, AcceptedKnown DEF ConfigPair, TypeOK
        <3>2. About(k)' = About(k)
            BY <1>4, <2>3
        <3>3. \A i \in About(k) : dict'[i] = dict[i]
            BY <1>1, <2>1
        <3> QED BY <1>0, <2>1, <3>1, <3>2, <3>3 DEF AsGiven
    <2> QED BY <2>2, <2>3
<1>6. pc' = "config" => (\A i \in DOMAIN dict : Good(i))'
    <2>1. pc' = "config" => (key \in Known => Accepts(key, t))
        BY <1>0 DEF ConfigPair
    <2> QED BY <1>1, <1>2, <1>3, <2>1
<1> QED BY <1>5, <1>6

LEMMA InitIInv == Init => IInv
<1> SUFFICES ASSUME Init PROVE IInv
    OBVIOUS
<1>1. DOMAIN Properties(Defaults) = Lasting \union {"address", "retries"}
    BY DEF Properties, Lasting
<1>2. <<>> \in Seq([key: TryKeys, type: Types, value: Int])
    OBVIOUS
<1> QED BY <1>1, <1>2, DefaultsType DEF Init, IInv, TypeOK

LEMMA IndStep ==
    ASSUME IInv, [Next]_vars
    PROVE  IInv'
<1>0. TypeOK /\ TypeOK'
    BY TypeStep DEF IInv
<1>1. CASE UNCHANGED vars
    BY <1>0, <1>1 DEF IInv, vars, AsGiven, About, Good, MadeOf, Properties
<1>2. CASE InitBegin
    <2>1. dict' = <<>> /\ opts' = before' /\ pc' = "config" /\ ~initiated'
        BY <1>2 DEF InitBegin
    <2>2. \A k \in Known : AsGiven(k)'
        BY <2>1 DEF AsGiven, About
    <2> QED BY <1>0, <2>1, <2>2 DEF IInv
<1>3. CASE InitRefused
    <2>1. pc' = "ready" /\ initiated' = initiated /\ session' = session
        BY <1>3 DEF InitRefused, IInv
    <2>2. initiated => opts' = opts
        BY <1>3 DEF InitRefused
    <2> QED BY <1>0, <2>1, <2>2 DEF IInv, MadeOf, Properties
<1>4. CASE ConfigEnd
    BY <1>0, <1>4 DEF ConfigEnd, IInv, AsGiven, About, Good
<1>5. CASE FreeDictionary
    <2>1. \A f \in Lasting : Properties(opts)'[f] = Properties(opts)[f]
        BY <1>0, <1>5 DEF FreeDictionary, Lasting, Properties, TypeOK, Known,
                          SymbolKeys, IntKeys, BoolKeys
    <2> QED BY <1>0, <1>5, <2>1 DEF FreeDictionary, IInv, MadeOf
<1>6. CASE Configure
    <2>1. ~initiated' /\ pc' = "create" /\ props' = Properties(opts) /\ opts' = opts
        BY <1>6 DEF Configure
    <2> QED BY <1>0, <2>1 DEF IInv, MadeOf, Properties
<1>7. CASE ConnectOk
    <2>1. pc = "create" /\ pc' = "ready" /\ opts' = opts
        BY <1>7 DEF ConnectOk
    <2>2. \A f \in Lasting : session'[f] = props[f]
        BY <1>0, <1>7 DEF ConnectOk, TypeOK, Lasting
    <2>3. MadeOf(session)'
        BY <2>1, <2>2 DEF IInv, MadeOf, Properties
    <2> QED BY <1>0, <2>1, <2>3 DEF IInv
<1>8. CASE ConnectFails
    BY <1>0, <1>8 DEF ConnectFails, IInv
<1>9. CASE SessionEnds
    <2>1. pc = "ready" /\ pc' = "ready" /\ ~initiated'
        BY <1>9 DEF SessionEnds, IInv
    <2> QED BY <1>0, <2>1 DEF IInv
<1>10. ASSUME NEW key \in TryKeys, NEW t \in Types, NEW v \in ValuesOf(t),
              ConfigPair(key, t, v)
       PROVE  IInv'
    <2>1. v \in Int
        BY ValueTypes
    <2>2. pc = "config" /\ pc' \in {"config", "connect"} /\ ~initiated'
        BY <1>10 DEF ConfigPair, Reads, IInv
    <2>3. /\ \A k \in Known : AsGiven(k)'
          /\ pc' = "config" => (\A i \in DOMAIN dict : Good(i))'
        BY <1>0, <1>10, <2>1, <2>2, PairAsGiven DEF IInv
    <2> QED BY <1>0, <2>2, <2>3 DEF IInv
<1>11. ASSUME NEW key \in TryKeys, NEW t \in Types, NEW v \in ValuesOf(t),
              ConfigMisread(key, t, v)
       PROVE  IInv'
    <2>1. /\ pc = "config" /\ uniform /\ uniform' /\ ~initiated' /\ opts' = opts
          /\ before' = before
        BY <1>11 DEF ConfigMisread, Reads, IInv
    <2>2. \A k \in Known : AsGiven(k)'
        BY <2>1 DEF AsGiven, IInv
    <2>3. pc' = "config" => key \notin Known
        BY <1>11, <2>1 DEF ConfigMisread
    <2>4. pc' = "config" => (\A i \in DOMAIN dict : Good(i))'
        <3>1. v \in Int
            BY ValueTypes
        <3>2. /\ Len(dict) \in Nat /\ Len(dict') = Len(dict) + 1
              /\ DOMAIN dict = 1 .. Len(dict) /\ DOMAIN dict' = 1 .. Len(dict')
              /\ \A i \in DOMAIN dict : dict'[i] = dict[i]
              /\ dict'[Len(dict')] = [key |-> key, type |-> t, value |-> v]
            BY <1>0, <1>11, <3>1, Appended DEF ConfigMisread
        <3>3. \A j \in DOMAIN dict : dict[j].key \in Known => Accepts(dict[j].key, dict[j].type)
            BY <2>1, <3>2 DEF IInv, Good
        <3> QED BY <2>3, <3>2, <3>3 DEF Good
    <2>5. pc' \in {"config", "connect", "crashed"}
        BY <1>11, <2>1 DEF ConfigMisread
    <2> QED BY <1>0, <2>1, <2>2, <2>4, <2>5 DEF IInv
<1>12. ASSUME NEW v \in Ints, ChangeLogLevel(v)
       PROVE  IInv'
    <2>1. pc = "ready" /\ pc' = "ready" /\ initiated' = initiated /\ session' = session
        BY <1>12 DEF ChangeLogLevel
    <2>2. \A f \in Lasting : Properties(opts)'[f] = Properties(opts)[f]
        BY <1>0, <1>12 DEF ChangeLogLevel, Lasting, Properties, TypeOK, Known,
                           SymbolKeys, IntKeys, BoolKeys
    <2> QED BY <1>0, <2>1, <2>2 DEF IInv, MadeOf
<1> QED
    BY <1>1, <1>2, <1>3, <1>4, <1>5, <1>6, <1>7, <1>8, <1>9, <1>10, <1>11, <1>12 DEF Next

-----------------------------------------------------------------------------
(* The theorems.                                                           *)

LEMMA Invariance == Spec => []IInv
BY InitIInv, IndStep, PTL DEF Spec

\* The options stay numbers of the model, and init answers with an error of its
\* own or with the name of an option, whatever is in the dictionary.
THEOREM TypeCorrect == Spec => []TypeOK
<1>1. IInv => TypeOK
    BY DEF IInv
<1> QED BY <1>1, Invariance, PTL

\* What config_opts reads is what connectToSolace uses: each option is what the
\* last acceptable pair about it says, or what it was before.
THEOREM AsGivenCorrect == Spec => []OptionsAsGiven
<1>1. IInv => OptionsAsGiven
    BY DEF IInv, OptionsAsGiven
<1> QED BY <1>1, Invariance, PTL

LEMMA GetOptsMembers ==
    /\ GetOpts["user"] = opts["user"] /\ GetOpts["password"] = opts["password"]
    /\ GetOpts["vpn"] = opts["vpn"] /\ GetOpts["usegss"] = opts["usegss"]
    /\ GetOpts["enablecompression"] = opts["enablecompression"]
    /\ GetOpts["dumptoscreen"] = opts["dumptoscreen"]
    /\ GetOpts["solaceloglevel"] = opts["loglevel"]
BY DEF GetOpts, Known, SymbolKeys, IntKeys, BoolKeys

\* While calls are let in, getopts shows what the session was created with.
THEOREM GetoptsCorrect == Spec => []GetoptsTellsSession
<1>1. IInv => GetoptsTellsSession
    <2> SUFFICES ASSUME IInv, initiated PROVE GetoptsTellsSession
        BY DEF GetoptsTellsSession
    <2>1. \A f \in Lasting : session[f] = Properties(opts)[f]
        BY DEF IInv, MadeOf
    <2>2. /\ session.user = opts["user"] /\ session.password = opts["password"]
          /\ session.vpn = opts["vpn"] /\ session.gss = opts["usegss"]
          /\ session.compression = IF opts["enablecompression"] = 1 THEN 9 ELSE 0
          /\ session.dump = opts["dumptoscreen"] /\ session.level = opts["loglevel"]
        BY <2>1 DEF Lasting, Properties
    <2> QED BY <2>2, GetOptsMembers DEF GetoptsTellsSession
<1> QED BY <1>1, Invariance, PTL
=============================================================================
