------------------------------- MODULE Options -------------------------------
(***************************************************************************)
(* From the dictionary q gives init to the session the SDK creates:        *)
(* config_opts copies it pair by pair into the global opts, which outlives *)
(* every init; configure_session_properties turns opts into strings for    *)
(* solClient_session_create; getopts shows opts.  The members of opts go   *)
(* by the name of their key (user is opts.username, and so on); values are *)
(* numbers, for symbols too.                                               *)
(***************************************************************************)
EXTENDS Integers, Sequences

CONSTANTS
    Names, Ints,   \* values given for symbols and for integers
    TryKeys,       \* keys that dictionaries use, known or not
    MaxPairs       \* bound on the pairs of a dictionary

ASSUME ValuesAssumption == Names \subseteq Int /\ Ints \subseteq Int

VARIABLES
    pc,         \* ready, config, connect, create or crashed
    opts,       \* the global struct
    initiated,  \* the global flag
    answer,     \* what the last init told q: an error, or none
    uniform,    \* the dictionary's values are a vector, not a list
    props,      \* sessionProps and the callback, as they are filled in
    session,    \* what the session was created with
    dict,       \* history: the pairs read by this init
    before      \* history: opts when this init began to read

vars == <<pc, opts, initiated, answer, uniform, props, session, dict, before>>

SymbolKeys == {"user", "password", "host", "callback", "vpn", "topic",
               "tablename", "rcvfunc"}
IntKeys    == {"port", "loglevel", "connectretries", "msgstosend", "loglvl"}
BoolKeys   == {"enablecompression", "usegss", "dumptoscreen"}
Known      == SymbolKeys \union IntKeys \union BoolKeys \union {"schema", "handle"}

\* Values of opts.schema: setup_schema's empty one, the caller's, and the
\* caller's after q has freed it.
Empty == 0
Given == 1
Freed == 2

\* q types, and what a dictionary may hold under each.
Symbol == -11
Long   == -7
Bool   == -1
Dict   == 99
Types  == {Symbol, Long, Bool, Dict}
ValuesOf(t) == CASE t = Symbol -> Names [] t = Long -> Ints
                 [] t = Bool -> {0, 1} [] t = Dict -> {Given}

\* The test on handle is never passed: its two inequalities are joined by "or".
Accepts(key, t) == \/ key \in SymbolKeys /\ t = Symbol
                   \/ key \in IntKeys /\ t = Long
                   \/ key \in BoolKeys /\ t = Bool
                   \/ key = "schema" /\ t = Dict

ErrorName(key) == IF key = "vpn" THEN "loglevel" ELSE key

\* snprintf of an int into sizeof(int) bytes: three characters.
Cut(n, digits) ==
    IF n < 10 ^ digits THEN n
    ELSE CHOOSE m \in 10 ^ (digits - 1) .. 10 ^ digits - 1 :
            \E k \in 1 .. 9 : n \div (10 ^ k) = m
Printed(n) == IF n >= 0 THEN Cut(n, 3) ELSE -Cut(-n, 2)

\* configure_session_properties and setSolaceCallback.
Properties(o) ==
    [address |-> <<o["host"], o["port"]>>, user |-> o["user"],
     password |-> o["password"], vpn |-> o["vpn"],
     retries |-> Printed(o["connectretries"]),
     compression |-> IF o["enablecompression"] = 1 THEN 9 ELSE 0,
     gss |-> o["usegss"], dump |-> o["dumptoscreen"], level |-> o["loglevel"]]

\* What getopts shows of opts.
GetOpts ==
    [k \in (Known \ {"schema", "loglevel", "loglvl"})
           \union {"solaceloglevel", "clientloglevel"} |->
        CASE k = "solaceloglevel" -> opts["loglevel"]
          [] k = "clientloglevel" -> opts["loglvl"]
          [] OTHER -> opts[k]]

Defaults == [[k \in Known |-> 0] EXCEPT !["connectretries"] = 3, !["msgstosend"] = 10]

Init ==
    /\ pc = "ready" /\ opts = Defaults /\ initiated = FALSE
    /\ answer = "none" /\ uniform = FALSE
    /\ props = Properties(Defaults) /\ session = Properties(Defaults)
    /\ dict = <<>> /\ before = Defaults

-----------------------------------------------------------------------------
(* init.                                                                   *)

\* setup_schema comes before the test that x is a dictionary.
NoSchema == [opts EXCEPT !["schema"] = Empty]

\* Mutant: the flag is looked at when the options have been read.
InitBeginAnyway ==
    /\ pc = "ready"
    /\ opts' = NoSchema /\ before' = NoSchema /\ dict' = <<>>
    /\ uniform' \in BOOLEAN
    /\ answer' = "none" /\ pc' = "config"
    /\ UNCHANGED <<initiated, props, session>>

\* :: counts as a dictionary without pairs.
InitBegin ==
    /\ pc = "ready" /\ ~initiated
    /\ opts' = NoSchema /\ before' = NoSchema /\ dict' = <<>>
    /\ uniform' \in BOOLEAN
    /\ answer' = "none" /\ pc' = "config"
    /\ UNCHANGED <<initiated, props, session>>

InitRefused ==
    /\ pc = "ready"
    /\ IF initiated THEN answer' = "alreadyinit" /\ opts' = opts
       ELSE answer' = "expecteddict" /\ opts' = NoSchema
    /\ UNCHANGED <<pc, initiated, uniform, props, session, dict, before>>

Reads(key, t, v) ==
    /\ pc = "config" /\ Len(dict) < MaxPairs
    /\ dict' = Append(dict, [key |-> key, type |-> t, value |-> v])
    /\ UNCHANGED <<initiated, uniform, props, session, before>>

\* Mutant: a bad value is skipped like an unknown key.
ConfigPairSkips(key, t, v) ==
    /\ ~uniform /\ Reads(key, t, v)
    /\ opts' = IF Accepts(key, t) THEN [opts EXCEPT ![key] = v] ELSE opts
    /\ UNCHANGED <<pc, answer>>

\* Mutant: an unknown key is an error.
ConfigPairUnknown(key, t, v) ==
    /\ ~uniform /\ Reads(key, t, v)
    /\ IF Accepts(key, t) THEN opts' = [opts EXCEPT ![key] = v] /\ UNCHANGED <<pc, answer>>
       ELSE opts' = opts /\ answer' = key /\ pc' = "connect"

\* One pair.  Unknown keys are skipped, the first bad value ends the loop; init
\* does not look at the result and goes on to connect, with the error set.
ConfigPair(key, t, v) ==
    /\ ~uniform /\ Reads(key, t, v)
    /\ IF Accepts(key, t)
       THEN opts' = [opts EXCEPT ![key] = v] /\ UNCHANGED <<pc, answer>>
       ELSE /\ opts' = opts
            /\ IF key \in Known THEN answer' = ErrorName(key) /\ pc' = "connect"
               ELSE UNCHANGED <<pc, answer>>

\* kK(values)[i] of a vector: a symbol's characters or a number are taken for a
\* K object.
ConfigMisread(key, t, v) ==
    /\ uniform /\ Reads(key, t, v)
    /\ IF key \notin Known THEN UNCHANGED <<opts, pc, answer>>
       ELSE \/ pc' = "crashed" /\ UNCHANGED <<opts, answer>>
            \/ opts' = opts /\ answer' = ErrorName(key) /\ pc' = "connect"

ConfigEnd ==
    /\ pc = "config"
    /\ pc' = "connect"
    /\ UNCHANGED <<opts, initiated, answer, uniform, props, session, dict, before>>

-----------------------------------------------------------------------------
(* connectToSolace.                                                        *)

Configure ==
    /\ pc = "connect"
    /\ initiated' = FALSE
    /\ props' = Properties(opts)
    /\ pc' = "create"
    /\ dict' = <<>> /\ before' = Defaults
    /\ UNCHANGED <<opts, answer, uniform, session>>

Junk == -1000

\* The strings for host:port and retries are locals of a function that has
\* returned when solClient_session_create reads them.  init returns 0, and with
\* it an error set by config_opts.
ConnectOk ==
    /\ pc = "create"
    /\ \E r \in {props.retries, Junk}, a \in {props.address, <<Junk, Junk>>} :
          session' = [props EXCEPT !.retries = r, !.address = a]
    /\ initiated' = TRUE
    /\ pc' = "ready"
    /\ UNCHANGED <<opts, answer, uniform, props, dict, before>>

ConnectFails ==
    /\ pc = "create"
    /\ answer' = "rc"
    /\ pc' = "ready"
    /\ UNCHANGED <<opts, initiated, uniform, props, session, dict, before>>

\* sessiondisconnect, or DOWN_ERROR.
SessionEnds ==
    /\ initiated
    /\ initiated' = FALSE /\ session' = Properties(Defaults)
    /\ UNCHANGED <<pc, opts, answer, uniform, props, dict, before>>

ChangeLogLevel(v) ==
    /\ pc = "ready"
    /\ opts' = [opts EXCEPT !["loglvl"] = v]
    /\ UNCHANGED <<pc, initiated, answer, uniform, props, session, dict, before>>

\* q drops the dictionary; opts.schema was made of its parts without r1.
FreeDictionary ==
    /\ pc = "ready" /\ opts["schema"] = Given
    /\ opts' = [opts EXCEPT !["schema"] = Freed]
    /\ UNCHANGED <<pc, initiated, answer, uniform, props, session, dict, before>>

Next ==
    \/ InitBegin \/ InitRefused \/ ConfigEnd \/ FreeDictionary
    \/ Configure \/ ConnectOk \/ ConnectFails \/ SessionEnds
    \/ \E key \in TryKeys, t \in Types : \E v \in ValuesOf(t) :
          ConfigPair(key, t, v) \/ ConfigMisread(key, t, v)
    \/ \E v \in Ints : ChangeLogLevel(v)

Spec == Init /\ [][Next]_vars

-----------------------------------------------------------------------------
(* Correctness.                                                            *)

Lasting == {"user", "password", "vpn", "compression", "gss", "dump", "level"}

\* Types.  What init answers is an error of its own or the name of an option.
TypeOK ==
    /\ pc \in {"ready", "config", "connect", "create", "crashed"}
    /\ opts \in [Known -> Int] /\ before \in [Known -> Int]
    /\ initiated \in BOOLEAN /\ uniform \in BOOLEAN
    /\ answer \in Known \union {"none", "alreadyinit", "expecteddict", "rc"}
    /\ dict \in Seq([key: TryKeys, type: Types, value: Int])
    /\ DOMAIN props = Lasting \union {"address", "retries"}
    /\ DOMAIN session = DOMAIN props

\* The pairs of the dictionary before its first bad value, and of those the
\* last one about key.
Good(i)  == \A j \in 1 .. i : dict[j].key \in Known => Accepts(dict[j].key, dict[j].type)
About(k) == {i \in DOMAIN dict : Good(i) /\ dict[i].key = k}

AsGiven(k) ==
    \/ opts[k] = before[k] /\ (uniform \/ About(k) = {})
    \/ /\ ~uniform
       /\ \E i \in About(k) : opts[k] = dict[i].value /\ \A j \in About(k) : j <= i

\* When the session is about to be made, each option is what the dictionary
\* says, or what an earlier init left: no key writes another's option, and
\* nothing behind a bad value counts.
OptionsAsGiven == pc = "connect" => \A k \in Known : AsGiven(k)

\* While calls are let in, getopts shows what the live session was created
\* with, whatever inits were refused, failed or stopped half way before.  Host,
\* port and the retries are left out: what solClient_session_create reads for
\* them may be anything (RetriesAsGiven, PropsReachSession).
GetoptsTellsSession ==
    initiated =>
        /\ GetOpts["user"] = session.user /\ GetOpts["password"] = session.password
        /\ GetOpts["vpn"] = session.vpn /\ GetOpts["usegss"] = session.gss
        /\ (GetOpts["enablecompression"] = 1) = (session.compression = 9)
        /\ GetOpts["dumptoscreen"] = session.dump
        /\ GetOpts["solaceloglevel"] = session.level

\* The inductive invariant of the three: what has been read so far is in opts,
\* and props and session are made of opts.
MadeOf(p) == \A f \in Lasting : p[f] = Properties(opts)[f]
IInv ==
    /\ TypeOK
    /\ pc \in {"config", "connect"} => \A k \in Known : AsGiven(k)
    /\ pc = "config" => \A i \in DOMAIN dict : Good(i)
    /\ pc = "create" => MadeOf(props)
    /\ initiated => /\ pc = "ready"
                    /\ MadeOf(session)

-----------------------------------------------------------------------------
(* What the repository says, and the code does not do: TLC refutes each of *)
(* these as an invariant of Options.cfg.                                   *)

\* src/README.md:200: solaceloglevel is the log level of the SDK.
DocumentedInputsTaken ==
    pc = "connect" /\ answer = "none" /\ ~uniform /\ Len(dict) = 1 =>
        (dict[1].key = "solaceloglevel" /\ dict[1].type = Long
            => opts["loglevel"] = dict[1].value)

\* src/src/solace.c:390: "Set up sessionProps using values in opts".
RetriesAsGiven == pc = "create" => props.retries = opts["connectretries"]

\* The same, for what solClient_session_create reads.
PropsReachSession == initiated => session = Properties(opts)

\* src/README.md:175: init takes a "Dictionary o of inputs".
DictionariesRead == pc # "crashed"

\* src/README.md:178: printargs "Prints all library settings and current
\* values", the number of columns of opts.schema among them.
SchemaPrintable == opts["schema"] # Freed
=============================================================================
