# kdb-solace in TLA+

TLA+ modules, TLC configurations and TLAPS proofs for the library in `src/`: a shared
object that gives a q process a connection to a Solace broker (`src/src/cb.c`,
`src/src/solace.c`, `src/src/solace_k.c`).

The library is small, and what is hard in it is concurrency. Two threads meet in it:

* the **q main thread**, which runs the exported functions (`init`, `subscribetopic`,
  `publishtosolace`, `disconnect`, ...) when q code calls them, and `callback` when q's
  event loop finds the library's socket readable;
* the **context thread** of the Solace SDK, which calls `messageReceiveCallback` for every
  message and `common_eventCallback` for every session event.

They share a byte ring (under a mutex, mostly), a socket pair, and three globals without
any protection: `initiated`, `rc` and the counters.

## 1. Inventory

| Component | State | Operations | Hard behaviour | What makes it correct |
|---|---|---|---|---|
| **Ring buffer** `cb.c` | `queue.d`, `h`, `t`; mutex; condition variables `o` (space) and `u` (data) | `cb_init`, `cb_size`, `cb_space`, `cb_write`, `cb_read` | full and empty differ by one slot left unused; a write or read that wraps takes two copies; the signal is sent after the unlock | the bytes between `h` and `t` are those written and not yet read, in order; a writer waits exactly when there is no room, and is woken |
| **Receive path** `solace.c:92-290`, `solace_k.c:246-265, 345-379` | ring, socket pair, `rbuf`, `msg_recv`, `msg_processed`, `callbackcounter` | `messageReceiveCallback`, `common_eventCallback`, `write_to_buffer`, `callback` | `cb_size` called without the mutex; `.` bytes dropped when the socket is full; one call reads several frames, later calls find none; the writer blocks in an SDK callback | every accepted record reaches q once, whole and in order; no lost wake-up; sequence numbers identify records; the length assertion holds |
| **Connection life cycle** `solace_k.c:87-120, 246-302`, `solace.c:92-155, 332-455` | `initiated`, `context_p`, `session_p`, and the ring and socket pair `init` makes anew | `init`, `setup_socket`, `connectToSolace`, `sessiondisconnect`, `checkconnect`, DOWN_ERROR | the event races the call that is changing the same flag; events of an earlier session; partial failure of connect; `cb_init` and `feedreset` while an old context thread is in a callback | `checkconnect` tells the truth; no session is left running with nobody able to close it; nothing freed is used again; every life of the ring starts afresh and keeps its promises |
| **Topic table** `solace_k.c:19-26, 413-518, 564-598` | `topicindex` | `subscribe`, `unsubscribe`, `gettopics` | written before the SDK call and not undone; confirmation timeouts; the size kept after the strings are freed | one row per topic, never more than `MAX_TOPIC_COUNT`, and it agrees with the broker |
| **Publish and return codes** `solace.c:53-62, 332-388, 448-488, 757-786, 897-963`, `solace_k.c:87-117, 381-411` | the global `rc`, `msg_sent` | `publishtosolace`, `publishToSolace`, `connectToSolace`, encoders, topic calls, `make_msg_dict` | `rc` is stored, tested, returned and named by both threads, each mention a separate load or store | a call reports what the SDK did; `sent` counts what was sent; a record has its own fields |
| **Statistics** `solace_k.c:547-562` | `msg_sent`, `msg_recv`, `msg_processed`, `callbackcounter` | `getstats`, `feedreset` | counted at different moments on two threads | see the two rows above |
| **Encoder and decoder** `solace.c:494-890` | none of its own; the dictionary encoder uses the global `rc` | K object to SDT container and back | recursion over data; nested containers in 1024 bytes; error codes added together or overwritten element by element; an unset variable for a message without an SDT field | what can be carried arrives whole, and what arrives is what was sent |
| **Options** `solace_k.c:40-59, 122-238, 304-315, 641-685`, `solace.c:312-324, 390-442` | `opts`, `sessionProps` | `config_opts`, `setup_schema`, `configure_session_properties`, `getopts`, `changeloglevel` | `opts` outlives every `init`; the loop stops half-way and `init` ignores its result; strings on a dead stack frame | the session gets the options of the dictionary, and `getopts` tells the truth |
| **Logging, display** | none | `logtofile`, `printargs`, dumps | none | output only |
| **q scripts, tests** | | load the library; csv cases against a live broker | none | read for what they expect |
| **Solace SDK, kdb+** | | headers only | external | modelled by what the code relies on |

How the parts interact: `init` makes the ring, the socket pair and the session and installs
the two SDK callbacks. They feed the ring on the context thread; `callback` empties it on the
q thread and calls the user's q function with `k(0, ...)`. `subscribe`, `unsubscribe`,
`disconnect` and `publishtosolace` are synchronous calls into the SDK; the first two wait for
the broker's confirmation, which the context thread must process. DOWN_ERROR on the context
thread clears `initiated`, the flag at which every q function looks first.

`PROJECT.json` lists the components with what is and is not modelled, and every hazard with
the line where it bites and the properties that cover it.

## 2. Modules

| Module | Models | Lines of TLA+ stand for |
|---|---|---|
| `CircularBuffer` | arithmetic of the ring as operators: size, space, wrap, copy in, copy out | `cb.c` |
| `Feed` | the receive path, both threads, on `CircularBuffer` | `cb_write`, `cb_read`, `write_to_buffer`, the two callbacks, `callback` |
| `FeedChannel` | the abstract specification `Feed` implements: a channel of whole records | - |
| `Confirm` | two threads that wait for each other: a confirmed call on the one, a full ring on the other; implements `FeedChannel` | `subscribe`, `unsubscribe` up to the broker's answer, `cb_write`'s wait, `callback` and the user's function |
| `Restart` | `init` again, beside callbacks of earlier sessions | `init`, `setup_socket`, `cb_init`, `feedreset`, the two SDK callbacks, `callback` |
| `RestartChannel` | the abstract specification `Restart` implements: a record channel that may be started afresh | - |
| `Session` | connection life cycle and topic table, with the SDK's sessions and the broker's subscriptions beside them; implements `Connection` | `init`, `connectToSolace`, `subscribe`, `unsubscribe`, `sessiondisconnect`, `common_eventCallback` |
| `Connection` | the abstract specification `Session` implements: what a connection promises q code | - |
| `ReturnCode` | publishing and the global `rc` on both threads | `publishtosolace`, `publishToSolace`, `connectToSolace`, `make_msg_dict` |
| `Codec` | a q object from publish to callback | every encode and decode function |
| `Options` | from `init`'s dictionary to the session the SDK creates, and back to `getopts` | `opts`, `config_opts`, `configure_session_properties`, `getopts` |
| `MCFeed`, `MCSession`, `MCConfirm`, `MCRestart`, `MCCodec` | instances for TLC | - |
| `Recursion` | what recursive functions and induction over data rest on, proved | - |
| `Feed_proofs`, `Session_proofs`, `ReturnCode_proofs`, `Confirm_proofs`, `Restart_proofs`, `Codec_proofs`, `Options_proofs` | lemmas and theorems | - |

### Feed

`d, h, t` are the fields of `queue`; `tokens` is the number of `.` bytes in the socket pair;
`rbuf, qsize, off` are the buffer and locals of `callback` (`off` is its `offset`). `wpc` and
`rpc` say where the two threads are. A step is everything a thread does up to the next point
where the other can see or change something:

* `cb_write` holds the mutex, so its test and its copy are one step, except that a wrapping
  write is two (`CbWriteFirst`, `CbWriteRest`): `callback` calls `cb_size` without the mutex
  (`solace_k.c:352`) and can look while `t` is 0. `h` and `t` are ints, each load and store of
  which is whole on the platform the Makefile builds for (x86-64); `cb_size` copies each into a
  local once, and `h` is only ever changed by the thread that runs that `cb_size`, so what it
  computes is the size at the moment it reads `t`.
* `cb_read` is one step (`CbRead`), and the signal after its unlock another (`SignalSpace`).
* `write_to_buffer` writes the `.` after `cb_write` has returned (`WriteDot`), and
  `messageReceiveCallback` counts after that (`CountMessage`).

A byte in the ring is its position in the stream of all bytes ever written (or `Junk`), which
is all that is needed to say whose byte it is. A record has a length, a kind (stream message
or admin event), its position and its `seqn`. `log`, `wpos`, `rpos`, `torn`, `got` and
`dropped` are history variables. `torn` becomes true when `cb_size` was evaluated inside a
wrapping write; several properties hold only while it is false, and `feed_msize` shows what
happens otherwise.

The pieces `callback` cuts when the length field is no length field are left open
(`ParseGarbage`, `AssertFails`, `DecodeFails`): any length, a failed assertion, or a
null K object used after a failed `d9`.

### Session

Each q function that calls the SDK is split at that call (`qpc`), the time in which sessions
go down (`GoesDown`) and events are delivered (`DownError`). `link` is what the SDK knows of
each session ever connected, `cur` which of them `session_p` is; `subs` is what the broker
holds for it. `index` is `topicindex`, each row with the two times reduced to what `gettopics`
makes of them; `freed` says that its strings have been given to `free`. `doubt`, `missed`
and `stale` are history: topics whose last call failed, DOWN_ERROR of the session being
initialised handled before `initiated` was set, and DOWN_ERROR of an older session.

`Connection` is what q code may rely on: one connection at a time (`live`); `checkconnect`
(`told`) turns false only over one that has ended; the subscriptions (`held`) change only in a
call about that topic; and a topic shows as on or off (`view`) only when the broker agrees, being
`unsure` during a call about it and after one that failed. In `Session`, `live` is a session
that is up, `told` is `initiated`, `held` is `subs`, and `view` is what `gettopics` shows (`View`).
The promise ends (`broken`) where the code's does: the DOWN_ERROR of an older session is taken
for the current one's (`stale`).

External assumptions: the SDK delivers DOWN_ERROR some time after a session is lost for good;
nothing is assumed about events still queued when a session is disconnected; a failed or
timed-out call may or may not have been applied; a duplicate subscription is no error (the
SDK's default).

### ReturnCode

`Makefile` compiles without optimisation and `rc` is a plain global, so every mention of `rc`
is one store or one load: those are the steps. `Publish` to `NameError` follow one call of
`publishtosolace` through the six SDK calls of `publishToSolace` (the fifth, for a dictionary,
is the encoder, which starts by testing whatever `rc` holds); `TopicCall` is the shape shared
by `subscribeToTopic`, `unsubscribeFromTopic` and `disconnectFromSolace`. `InitCall` to `Cleanup`
are an `init` made after `DOWN_ERROR` or a disconnect, through the four SDK calls of
`connectToSolace`, while callbacks of the context thread may run; the model starts when a first
`init` has succeeded, because before it there is no context thread. `RxMessage`,
`RxStore` and `RxTest` are the stores and tests of `make_msg_dict` and
`decodeFromSolaceContainer` on the context thread. `writer` remembers which thread stored
`rc` last; a load of the other thread's value sets `crossed` (this call), `everCrossed` or
`cCrossed` (this message). The races are real: the properties say what is still true without
one, and `return_code_sent` shows what one does.

### Confirm

`wait` is the call the q thread sleeps in, `cpc = "cb_write"` with a full `ring` the context
thread asleep in a callback. `inbox` is all the SDK has for that thread, messages and
confirmations in one order. `Call` writes the row of the index (`shown`) and sends the request;
it can be made from the top level of q or from inside the user's function (`qpc = "callback"`).
`Timeout` is the SDK giving up (10 seconds unless set): the row stays, and so does the request,
which the broker may still apply. Records are whole, there is always a wake-up for q (`Feed` has
the bytes and the `.`), and the link stays up (`Session` has the other cases).

### Restart

Each `init` that gets as far as `setup_socket` begins a new life of the ring. `wpc`, `rec` and
`put` say, for each context thread ever made, where it is in its callback, what it writes and
what it has copied; `msgbuff` is the one static buffer all of them write through; `lock` and
`waiting` are the mutex and the condition variable `o`, which `CbInit` makes anew whoever holds
or awaits the old ones; `tokens` is per socket pair, for the old ones stay registered. The ring
holds whole frames, or `Torn` where `t` moved over bytes nobody wrote or two threads mixed theirs.
`init` is five steps (`InitBegin` with `feedreset`, `CbInit`, `Socketpair`, `ConnectOk` or
`ConnectFails`, `InitDone`) and can be called by the user's function, inside `callback`. An `init`
whose argument is no dictionary runs `feedreset` and returns before `setup_socket` (`InitRefused`):
`msg_recv` starts again in the middle of a life, and two records of it may have the same `seqn`.
`since` is history, the record of this life that the count starts from, and `SeqnRestarts` says
that `seqn` counts the stream messages from there. What the
SDK's disconnect and cleanup do about callbacks that are running is not documented: `CallsWait`
stands for both answers. `overlap` is history: a callback ran beside another one, or beside
`init`'s reset of the ring and the counters; the races are real, and most properties say what
holds without one. `WakeupKept` holds always.

### Codec

One object's way: `Publish` encodes it and sends it if the result is OK, `Receive` decodes it. A
value is a small number, and what is modelled of it is whether it survives a change of type
(`Single`, `AsInt`, `Misread`). Encoder functions return the container and their result code and
take the global `rc` where the code has no local one (`Dictionary`, `GlobalAfter`). `Put` fails
when a nested container is full; what fields cost is the overhead that
`src/include/solclient/solClientMsg.h:67-109` gives, with short names. The reference (`Payload`,
`carried`, `Partial`) knows nothing of codes, buffers and loops. An atom is refused by
`publishtosolace` before it reaches the encoder and so is not an own object.

The code's recursion is recursive functions here, not RECURSIVE operators, so that it can be
reasoned about: `nested` for the lists the encoder calls itself for, `decode` for containers, and
loops as functions of the number of rounds made. `Own` is any set of q objects with whatever
stands inside them, and `Depth` says how deep the lists of each are nested; `OwnIsFinite` asks that
what is inside a list be less deep than the list, as it is of every K object, and that `MaxDepth`
bound it.

### Options

`opts` is a function from the keys of `config_opts`; the dictionary is read pair by pair
(`ConfigPair`), each good, bad or unknown. `ConfigMisread` is a dictionary whose values are a
vector, which the code reads as pointers. `Properties` is what `configure_session_properties`
makes of `opts`; `ConnectOk` lets the two strings that are locals of that function be anything.
`dict` and `before` are history.

## 3. Runs

| Run | Checks | Bounds, and why they are enough |
|---|---|---|
| `feed` | `TypeOK`, `BytesInOrder`, `SnapshotBounded`, `WakeupPending`, `NoLostSignal`, `DeliveredInOrder`, `EndsOnlyTorn`, `SeqnOrder`; liveness `CallbackReturns`; refinement `ChannelSpec` | ring of 8, header 2, lengths 1-4 of which 4 is too big: frames of 3 to 5 bytes, so two fill the ring exactly (3+4) or do not fit (4+4), writes wrap at several offsets, cut inside the header and inside the body; 4 records, so the writer can wait and wrap again after a wrap; a socket pair of 2, so that `.` bytes are dropped. 306,273 states |
| `feed_msize` | violation of `MsizeInRange` (assertion at `solace_k.c:363`) | the same |
| `session` | `TypeOK`, `OneRowPerTopic`, `NoUseAfterFree`, `NoSessionForgotten`, `StatusAgrees`, `DownIsSeen`; refinement `ConnectionSpec` | 3 topics against a table of 2, so it fills and refuses; 3 sessions, so an event of an old session can arrive after two more were made; topics are symmetric. 40,938 states |
| `session_checkconnect` | violation of `CheckconnectTellsStatus` (`src/README.md:182`) | two sessions |
| `return_code` | `TypeOK`, `ReportIsTrue`, `SentIsAccepted`, `FieldIsTrue` | 2 calls, so that what one leaves in `rc` meets the next, and a call can follow an `init`; received messages are not bounded. 1,235,055 states |
| `return_code_sent` | violation of `SentWereSent` (comment at `solace_k.c:550`) | one call |
| `confirm` | `TypeOK`, `SettledAgrees`; liveness `CallbackResumes`; refinement `ChannelSpec` | a ring of two records, so that it fills; three calls about two topics, so that one contradicts an earlier one that timed out and is still under way; four messages, so that the ring fills again after it was read. 26,223 states |
| `confirm_wait` | violation of `NoMutualWait` (`solClient.h:101`) | the same |
| `restart` | `TypeOK`, `WakeupKept`, `SeqnRestarts`, `EndsOnlyOverlap`, `SleeperHeard`; liveness `CallbackReturns`; refinement `ChannelSpec` | two inits that get as far as the ring, hence two context threads, two socket pairs, and an `init` that meets the callbacks of an earlier life; two records in a life and a ring of one frame, so that a callback waits in `cb_write`; socket pairs of one, so that `.` bytes are dropped; any number of inits refused for their argument. 284,877 states |
| `codec` | `RoundTrip`, `NothingAltered`, `OwnReadable`, `ForeignIntegersKept` | every q type as a vector of up to three; lists of up to three of atoms, vectors and dictionaries, good and bad, two levels of lists below; a nested buffer of 19 bytes, which two fields fill; integers of 3 bits for the change of sign. 31,627 states |
| `codec_ok` | violation of `OkMeansComplete` (comment at `solace.c:937`) | one list: a byte, which the encoder refuses, and an int after it |
| `options` | `TypeOK`, `OptionsAsGiven`, `GetoptsTellsSession` | dictionaries of up to two pairs over a symbol, an integer, a boolean, a dictionary and an unknown key, so that the second pair repeats, follows or spoils the first; any number of inits. 77,760 states |

`MCConfirm` and `MCRestart` add a stutter where the bounds are used up and everything has been
handled (`Finished`, `Stopped`), so that any other state without a successor is a deadlock.
`MCRestart` lets nothing new begin once callbacks overlap (`Winding`): what is under way runs on
to its end, which is where torn frames come from. `Codec` and `Options` do not look for
deadlocks: a message has arrived when it is received, and a process that followed a stray pointer
is gone.

`MCFeed` adds a `Stopped` stutter at the two places where the program really stops (the
process ended; nothing more arrives and q has caught up), so TLC's deadlock check looks for
all others. `Session` and `ReturnCode` never stop: a call can always be refused or end with
an error, a message can always arrive.

**Fairness.** `Feed`, `Confirm` and `Restart` state liveness. `WF(SolaceStep)`, `WF(Context)` and
`WF(ContextStep(s))` say that a context thread keeps running when it can, `WF(QStep)` and
`WF(QReads)` that the q thread does: the SDK's context thread is an ordinary thread, q's event loop
calls `callback` for a readable descriptor, and the user's function ends. `Feed` leaves out that
the q thread may be inside another call; `Confirm` is about that, and adds `WF(Timeout)`, the
SDK's timer on a confirmed call. Nothing is assumed of arrivals, of spurious wake-ups, or of the
broker: `CallbackResumes` holds although it may never answer, and although the user's function may
make one confirmed call after another.

**Mutants.** Each property of a passing run is broken by a mutant named in `PROJECT.json`, an
operator beside the definition it replaces, with a comment saying what bug it is: the off-by-one
in the ring, the missing signal, the socket emptied late, the flag not cleared, and so on.

### What disagrees with the code

The runs that expect a violation:

1. `MsizeInRange`: `callback` evaluates `cb_size` without the mutex. Between the two halves of a
   wrapping write it reads part of a frame, and a later call takes the middle of that frame for a
   length; `assert((msize > 0) && (msize < MAX_MSG_SIZE))` may end the process.
2. `CheckconnectTellsStatus`: DOWN_ERROR handled between the return of the connect call and
   `initiated = true` is overwritten; `checkconnect` stays true and `init` refuses.
3. `SentWereSent`: `make_msg_dict` stores OK in `rc` between a failed SDK call and its test; the
   publish is reported as a success and counted as sent.
4. `NoMutualWait`: the context thread waits for room in the ring inside a callback of the SDK, while
   the q thread, which makes room, waits in a confirmed call for an answer that thread must bring.
   Neither moves until the call times out; then both go on (`CallbackResumes`).
5. `OkMeansComplete`: a byte in a list is refused, the int after it sets `rc` back to OK, and the
   message is sent without the byte and reported as OK (`solace.c:675`). With the objects of
   `MCCodec.cfg` TLC also finds a list in a list that loses its byte: of that one only the result of
   `addContainer` is kept (`solace.c:696`).

Stated in the modules in the same way, without a run of their own (TLC refutes each as an invariant
of the configuration the module's comment names):

* `GettopicsTellsStatus` (`Session`): a subscription that fails is shown as subscribed.
* `BatchedCountsCalls` (`Feed`): `callbackcounter` also counts calls that found the ring empty.
* `MsizeInRange` (`Restart`): `init`, called between DOWN_ERROR's `initiated = false`
  (`solace.c:123`) and the end of the record it writes (`solace.c:153`), resets the ring under it.
* `FloatsArrive`, `RawReadAsBytes` (`Codec`): a float comes back with the precision of a real; a
  message without an SDT field is decoded by whatever an unset variable holds.
* `DocumentedInputsTaken`, `RetriesAsGiven`, `PropsReachSession`, `DictionariesRead`,
  `SchemaPrintable` (`Options`): the documented key `solaceloglevel` is unknown; the number of
  retries is cut to three characters; host, port and retries are read from a dead stack frame; a
  dictionary whose values have one type is misread; `opts.schema` holds no reference of its own.

An `init` with a bad value reports its name and connects all the same, with the pairs before it
(`ConfigPair`, `ConnectOk`); no document says otherwise, and `OptionsAsGiven` says what it uses.

## 4. Proofs

Each proof module shows `Spec => []IInv` for an inductive `IInv` defined beside the
specification, by one lemma per conjunct and one case per action, for every value of the
constants; TLC checked every `IInv` as an invariant first. Each property then is a theorem of its
own.

* **`Feed_proofs`** starts with the ring's operators, for every ring size: sizes and slots stay in
  range (`SizeBounds`, `SlotInRange`), a copy in, plain or up to the end of the array, extends the
  run of bytes by what was written (`WriteTail`, `WriteToEnd`), a read takes the oldest bytes and
  leaves the others in order (`ReadHead`, `HeadMoves`). Its theorems: `TypeCorrect`, `RingCorrect` (`BytesInOrder`), `SnapshotCorrect`,
  `NoLostWakeup` (`WakeupPending`), `SignalCorrect` (`NoLostSignal`), `DeliveryCorrect`
  (`DeliveredInOrder`), `EndsCorrect` (`EndsOnlyTorn`), `SeqnCorrect`, and `ImplementsChannel`: `Spec => Channel!SafeSpec`. The
  properties do not support themselves: `LogInv` says the records lie one after the other in
  the byte stream, `WriterInv` where the writer is in its record, and `ReaderInv` that an untorn
  snapshot starts and ends where records do, so parsing always finds a length field. Assumed: at least
  one header byte, `MaxMsgSize > 1`, and that one frame fits the ring (`FitsAssumption`; 8 + 499
  bytes against 1,000,000).
* **`Session_proofs`**: `TypeCorrect`, `IndexCorrect`, `FreeCorrect`, `SessionsCorrect`, `StatusCorrect`,
  `DownCorrect` and `ImplementsConnection`: `Spec => ConnectionSpec`, all of it, for the abstract
  specification has no fairness. `InitInv` (the table is empty and the flag down during `init`), `LinkInv` (which
  sessions exist), and `DownInv` and `StatusInv`, which extend `DownIsSeen` and `StatusAgrees` to
  the middle of a call. The refinement rests on `HeldInv` (only a session that is up has
  subscriptions) and on `LiveIsCurrent`: the one session that can be up is the current one, so no
  step opens a second and each loss is the loss of `session_p`. Assumed: `MaxTopicCount` and `MaxSessions` are natural numbers.
* **`ReturnCode_proofs`**: `TypeCorrect`, `ReportCorrect`, `SentCorrect`, `FieldCorrect`. `CallInv` says what `rc`
  stands for at each point of a call, provided the q thread stored it; `StepInv` what the
  position alone says; `CountInv` adds the message that is done and not yet counted to the
  balance; `RxInv` that the context thread finds its own code in `rc` if it stored last. Assumed:
  `MaxCalls` is a natural number.

* **`Confirm_proofs`**: `TypeCorrect`, `Settles` (`SettledAgrees`) and `ImplementsChannel`.
  `SettledAgrees` says nothing while requests are under way, so `IndexInv` does: a row shows what
  the last request about its topic asks for, and without one what the broker holds. `RecordInv`
  lays delivered records, batch and ring end to end. Assumed: the ring has room for one record.
* **`Restart_proofs`**: `TypeCorrect`, `WakeupCorrect`, `SeqnCorrect`, `EndsCorrect`,
  `SleeperCorrect` (`SleeperHeard`) and `ImplementsChannel`: `Spec => Channel!SafeSpec`. Without overlap at most one context thread is in
  a callback and its record is the last one made (`ThreadInv`), delivered records, batch and ring
  are the records of this life in order (`FeedInv`), and `msg_recv` counts those from `since` on (`CountInv`);
  with overlap only `WakeupKept` and the types remain, and `NumberInv` (no record is of a life
  still to come), which is why a broken channel still hands over nothing but old numbers. `SleeperHeard` is the
  safety half of `CallbackReturns`: `SleepInv` says that the sleeper is one the next `cb_read`
  wakes and that the ring holds a frame, `WakeupKept` that q is on its way to that `cb_read`. Assumed:
  the ring and a socket pair have room for one frame, one byte.
* **`Recursion`**: a function defined by recursion over a ranked set satisfies its defining
  equation (`Recursive`), and induction over the rank (`Induction`, `NatInduct`). The library's
  theorems of this kind take an operator as a parameter, which the provers cannot instantiate;
  here the body of the definition is a constant operator of the module, so that an instance of the
  module gives theorems without parameters, and the property shown by induction is a set.
* **`Codec_proofs`**: `RoundTripCorrect`, `NothingAlteredCorrect`, `OwnReadableCorrect` and
  `ForeignIntegersCorrect`, for every set of objects and messages, lists of any length and
  depth, and any room in a nested container. Behind them stands an equation for each recursive
  function, from `Recursion`. A loop of the encoder has an invariant over the rounds it has made
  (`VectorFills`, `DictionaryFills`, `ListFills`) which relates the container built so far, read
  by `decode`, to what the reference says of the elements gone through: all of it while the code
  is OK, a part of it otherwise. `NestedEncodes` is the induction over the depth of lists,
  `ExactDecoded` the one over containers on the way back; `Encodes` puts them together, and
  `IInv` (`OwnInv`, `ForeignInv`) only says where each message is on its way. Assumed: q objects
  are well formed and finitely deep (`OwnIsFinite`), a foreign message is an SDT field of finite
  depth or holds none (`ForeignAssumption`), and sizes are natural numbers (`SizeAssumption`).
* **`Options_proofs`**: `TypeCorrect`, `AsGivenCorrect` (`OptionsAsGiven`) and `GetoptsCorrect`
  (`GetoptsTellsSession`), for dictionaries of any length and any values that are integers.

So every invariant the runs check is a theorem, and every refinement up to fairness. Only
model-checked: liveness (`CallbackReturns` of `Feed` and `Restart`,
`CallbackResumes`, and the fairness half of the three `ChannelSpec`), since fairness and ENABLED are
outside what the prover handles. What is provable of it is proved: `NoLostSignal` and
`WakeupPending` in `Feed`, `SleeperHeard` in `Restart`, say that a thread that waits is one that
will be woken if the other runs.

## 5. Not modelled, and the plan

Abstracted everywhere: the contents of messages (but for `Codec`), logging, `malloc` failure, and
32-bit overflow of counters. What remains: `Restart` byte by byte on `CircularBuffer`, as `Feed`
is, so that what `Torn` stands for is computed and not left open; the loop of `callback` then
needs a bound on the garbage it parses.

Left out for good: logging and display, the q scripts and the test driver (no state the other
parts read), the overflow of counters (nothing reads them but `getstats`), and the inside of the
SDK and of kdb+, of which only headers are here. Those headers are most of the lines under `src/`
that are not tests: the library itself is 1,842 lines of C, of which the modules stand for about
1,400, and of the headers only the field types, return codes and `struct kopts` are modelled.
