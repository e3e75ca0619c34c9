# TLA+ models of the MUSCLE Python client library

This directory holds TLA+ models of the Python MUSCLE client under `src/`. Each model is checked with TLC. `PROJECT.json` lists every run, the source lines each definition models (`map`), the mutants that show each property can fail, and the findings and hazards.

## The system

| Part | Source | State it keeps | Operations |
|---|---|---|---|
| Transceiver engine | `src/lang/python2/message_transceiver_thread.py` | worker: `toremote`, `_connectStillInProgress`, `inHeader`/`inBody`/`inBodySize`, `outHeader`/`outBody`; shared: `__outQ`, `__inQ`, the two wakeup sockets, the TCP connection | `__init__`, `start`/`run`, `SendOutgoingMessage`, `Destroy`, `GetNextIncomingEvent`, `NotifyMainThread` |
| Socket-pair primitive | same file, `CreateConnectedSocketPair` | two connected non-blocking sockets | a byte written on one wakes a select() on the other |
| Host loop (example) | `src/python/python_chat.py` | none beyond the transceiver | select on stdin and the notification socket, `recv(1024)`, drain `GetNextIncomingEvent` until None |
| BitChord | `src/lang/python3/bit_chord.py` | `_numBits`, `_words` (array of 32-bit words) | bit and word get/set/toggle, all-bits ops, queries, `Flatten`/`Unflatten` |
| Message codec | `src/lang/python3/message.py`, `src/python/message.py` | `what`, an ordered map name → (type code, list) | Put/Get/Remove/Clear, `PutFlat`/`GetFlat` (with a BitChord), `FlattenedSize`, `Flatten`, `Unflatten` |
| ZLib envelope | `src/python/zlib_utility_functions.py` | none | deflate a Message into one `_zlib` field, inflate back |

These parts interact as follows:
- The host thread calls `SendOutgoingMessage`. It puts the Message on `__outQ` and writes one byte to `__mainsocket` to wake the worker.
- The worker's `run()` loop selects on the wakeup socket, the TCP socket and (in accept mode) the listening socket. It does the following:
  - frames each outgoing Message with an 8-byte header: the body size and the magic `Enc0`, little-endian;
  - writes the frames with partial `send()`s;
  - reassembles incoming frames from partial `recv()`s;
  - puts `Connected`, `Disconnected` and received Messages on `__inQ`, then writes a byte to the notification socket.
- `Destroy` enqueues the `_endSession` sentinel and joins the thread.
- In connect mode the first disconnection ends the thread. In accept mode the worker goes back to waiting for the next client.

### What is hard, and what must hold

- **Interleavings:** the host and the worker share the two Queues and the two sockets. A TCP peer can write, close or reset at any byte.
  - Events must reach the host in order: a received Message only between a `Connected` and its `Disconnected`.
  - No event may be stranded behind a consumed notification byte.
- **Framing under partial I/O:** the peer must read whole frames in Send order, and the host must receive exactly the frames the peer sent, in order.
- **Shutdown:**
  - every Message sent before `Destroy` is written whole;
  - `Destroy` returns;
  - a worker that stops for any other reason says so with `Disconnected`.
- **Reconnection in accept mode:** per-connection state must not leak from one client to the next.
- **BitChord:**
  - the unused tail of the last word stays zero;
  - `AreAllBitsSet` looks only at the real bits;
  - `Unflatten` pads or drops words when the sizes differ;
  - `Flatten`/`Unflatten` round-trips.
- **Codec:**
  - `FlattenedSize` must equal the number of bytes `Flatten` writes, because a parent MSGG field and a frame header announce a Message's length with it;
  - `Unflatten(Flatten(m)) = m`, with field order kept;
  - a buffer cut short must be rejected, not decoded into a smaller Message;
  - in python2, `InflateMessage(DeflateMessage(m))` must give `m` back. That needs the envelope header, the zlib framing and the inner codec to agree.

## Modules

### `MessageTransceiverThread.tla` (transceiver, host, peers)

State:
- **Worker:** `wpc` (init / select / finished) and the locals of `run()`. `outMsg` and `outSent` stand for `outHeader`/`outBody`. `notifyDue` counts the notification bytes still owed.
- **Host side:** `hpc`, `outQ`, `inQ`, `seen` (events the host has taken), `wake` and `notify` (unread bytes in the two sockets).
- **Network:** `pstate`, `queued` (the listen backlog), `net` (the async connect's outcome), `frames`/`tail` (what each peer wrote), `rd`, `fromW`, `wclosed`.

Bytes:
- A header byte is a record `[val |-> 0..255]`, built by `LE32` as `struct.pack("<2L")` does. The magic check really compares the bytes.
- A body byte is `[m |-> message, i |-> position]`. A body decodes to its Message only when it is exactly that Message's bytes. Any other byte string gives garbage or an exception (`UnflattenOutcomes`).

Actions:
- **Worker:**
  - `Start`: the code before the loop, including `__createConnectingSocket` with its second attempt. Each attempt connects at once, is left in progress, or raises.
  - `LoopPass`: one whole pass of the while loop, composed from `AcceptBlock`, `ReadBlock`/`Consume`, `WakeBlock`, `WriteBlock` and `EndOfPass`. `EndOfPass` runs the refill from the out-queue, or the `except socket.error` handlers (`OnSocketError`).
  - `NotifyMainThread`: the byte sends.
- **Host:** `SendOutgoingMessage`, `Destroy`, `Joined`, `HostWakeup` and `GetNextIncomingEvent`. The last two are python_chat's loop.
- **Environment:** `PeerConnect`, `PeerSend`, `PeerClose`, `PeerReset` (possibly after part of a frame) and `ConnectCompletes`.

**Why one pass is one step.** Between two select() calls the worker touches only these things:
- its locals;
- sockets select() has just reported ready, whose readiness the peer cannot take back;
- the two Queues, where a get only removes what the host had already put.

So any interleaving of the host's or a peer's steps into the middle of a pass is equivalent to one before or after it. The notification byte is the exception. `__sendReplyToMainThread` puts the event first and sends the byte after, and the host can take the event in between, so the bytes are separate `NotifyMainThread` steps.

**A full notification socket.** `__mainsocket` holds `NotifyCap` unread bytes.
- `SendReply` is `__sendReplyToMainThread` inside the pass. When the bytes of this pass's earlier events would fill the socket, the send raises after the put.
- The handler reached then reports Disconnected, and that report raises too (`InnerHandlerFails`, `OuterHandlerFails`). The host has not read in between, since its not reading is what filled the buffer. The thread dies, and only the bytes that fitted are sent.
- Every run but the fault run uses `NotifyCap` 16, more than any run posts.

**Fairness.**
- Weak fairness is assumed for:
  - the worker (`Start`, `LoopPass`, `NotifyMainThread`), which runs whenever select() returns;
  - the host's reaction to a notification (`HostWakeup`, `GetNextIncomingEvent`), which python_chat's loop always performs;
  - `Joined`;
  - `ConnectCompletes`, because the OS ends a pending connect by completion or timeout.
- No fairness is assumed for the user's `Send`/`Destroy`, or for peers connecting, sending or closing.

### `BitChord.tla`, `BitChordSpec.tla` (BitChord and what it promises)

`BitChord.tla` models the class directly:
- A 32-bit word is the set of its 1-bit offsets, which keeps 32-bit values out of TLC's 32-bit signed integers. `|` with a shifted 1 is union, `& ~` is removal, and `^ 0xFFFFFFFF` is complement.
- Each public method is an action. `ret` records the returned value and `op` the call and its argument.
- `Flatten` produces real little-endian bytes (`FlattenOf`). `Unflatten` parses real bytes, including a short read that raises part way (`UnflattenResult`). `FlattenedSize` is its own formula (line 113), and `RoundTrip` checks that it equals the length of the bytes `Flatten` writes, in every reachable state, and that `Unflatten` of those bytes gives back the words.

`BitChordSpec.tla` is the specification from spec sections 3.3 and 4.1: a set of bit positions `0..N-1`, each call's effect on it, and its return value. `BitChord` is shown to implement it with the mapping `bits <- {b < NumBits : bit b set}` (property `Refines`).
- `AreAnyBitsSet` returns `None`, not `False`, when no bit is set. The abstract spec allows any value Python treats as false there.

### `MessageCodec.tla` (python3 `message.py`)

State: one Message object, `msg = [what, fields]`. `fields` is the dict's field sequence in insertion order, each `[name, type, items]`.

Data:
- A str is its sequence of code points. `Encode`/`Decode` are UTF-8 over them, with 1-, 2- and 3-byte characters; `Decode` fails on a cut character.
- An item is `[int |-> i]` (numeric types), `[str |-> s]`, `[msg |-> m]` or `[raw |-> bytes]`.
- Bytes are integers 0..255. `LEBytes` writes two's complement little-endian, as `array.array(...)`/`bytes()` do on a little-endian host. `FromLEU`/`FromLES` read it back the way `struct.unpack("<L")` and `array.frombytes` do.

Operators:
- `Flatten`, `FieldData`, `FlattenedSize` and `GetFieldContentsLength` follow the code branch by branch. They are RECURSIVE through nested Messages. Like Python's `len(str)`, `FlattenedSize` counts a name in characters.
- `Unflatten(b, p)` parses real bytes. `inFile.read(k)` returns what is left (all of it for `k < 0`). `struct.unpack` raises on a short read, `frombytes` on a length that is not a multiple of the item size, and `decode()` on bad UTF-8.
  - Each reader returns `ok` and the new position.
  - On a raise, the Message keeps the `what` code and the fields put so far, as the Python object does.
  - The loops are mutually recursive operators: `ReadFields`/`NextField` for the field loop, `SubMessages`/`SubMessage` for the MSGG `while` loop, and `Unflatten` for a sub-Message. Each recursive result is handed to the next operator as a parameter, so it is never named in a LET and referenced several times. This keeps TLC's coverage profiling of the group small.

Actions:
- `New(w)` is `Message(what)`; `Clear` and `RemoveName` are the methods of those names.
- `Put(name, in)` is `PutFieldContents` and its `Put<Type>` wrappers. A list is stored as given, a scalar as a one-item list, and an existing name keeps its place.
- `SetFromFlattenedBuffer(k)` decodes the first `k` bytes of the Message's own flattened buffer: the whole buffer, or a buffer cut in transit.

The floating-point types are left out: TLC has no floating-point numbers, and IEEE encoding is not what the properties are about.

`MessageWire.tla` holds what both codecs share: the type codes, the item sizes, the little-endian writers (`LEBytes`, `U32`) and the readers over a byte sequence (`Read`, `ReadU32`, `ReadArray`). Each reader returns `[ok, v, p]`.

### `MessageCodecPy2.tla` (python2 `message.py`)

State: one Message object, `msg = [what, fields]`. Here `fields` is a function name → `[type, items]`, as the code keeps `self.__fields` in a dict.

Data and order:
- Strings are Python 2 byte strings: names and CSTR items are written and read as raw bytes, with no encoding and no decoding that could fail.
- `GetFieldNames` is `keys()`. Its order is the CONSTANT `HashOrder` restricted to the names present. The model uses the order CPython 2 gives on 64-bit builds for the names "a", "_zlib" and "b", which is a, _zlib, b whatever order the fields were put in.
- INT64 is read through `array('l')` when the CONSTANT `LongIs64Bits` is TRUE. Otherwise it is read as `fieldDataLength/8` `struct.unpack("<q")` items (`Int64Items`), where a short read raises. The run uses FALSE, the path that differs from the other numeric types.

Operators and actions follow the same branches as the Python 3 module. `GetFieldItem` is added, since the envelope uses it. `PutFieldContents` replaces an existing name in place. `RemoveName` deletes a key that is present. `MessageNext` is the disjunction of the Message's own actions.

### `ZlibEnvelope.tla` (`zlib_utility_functions.py`)

This module EXTENDS `MessageCodecPy2`, with the same `msg`, and adds the test stub's `msg = DeflateMessage(msg)` (`Deflate(force)`) and `msg = InflateMessage(msg)` (`Inflate`).
- `DeflateMessage` returns the Message unchanged when it already has a `_zlib` RAWT item. Otherwise it builds the one-field Message: the magic, `FlattenedSize`, and the zlib stream of `Flatten(msg)`. With `force` 0 it keeps the original unless the result is smaller.
- zlib is modelled at `compressionLevel` 0, where its output is fixed by the format (`Compressed`): the CMF/FLG header, one stored block, and the empty block `Z_SYNC_FLUSH` appends.
- `Decompress` checks the header, then `StoredBlocks` decodes blocks, checking NLEN = ~LEN. A bad header or a bad NLEN is `zlib.error`, and a cut stream yields the bytes that arrived.
- `InflateMessage` returns `[ok, m]`. It returns the Message as it is when there is no item, the item is under 8 bytes, or the magic differs. Otherwise it gives the unflattened Message, or `ok = FALSE` when zlib or `Unflatten` raises. `Inflate` is enabled only when `ok` holds: when the call raises, `msg` keeps its value.

### `FlatBitChord.tla` (a BitChord carried in a Message)

This module composes `BitChord` with `MessageCodec`. The sender's BitChord (`snd`) changes through `SetBit`. `PutFlat(name, k)` is `Message.PutFlat` with one object (k = 1) or a list of k objects. It files `bc.Flatten()` under `bc.TypeCode()` as bytes items; this uses `MessageCodec.PutFlat`. `Put` is any other Put<Type> under the same name. `Transmit(k)` replaces the Message with what `SetFromFlattenedBuffer` makes of the first k bytes of its flattened form. `GetFlat(name, index)` is `Message.GetFlat` into a new `BitChord(NumBits)` with the default `None`. `GetFieldItem` picks the item, and `BitChord.Unflatten` reads it into `rcv`, or raises. `got` is what the last call returned. `putWords` is a history variable: per name, the words last flattened there.

`GetFlatIntact` says that a GetFlat that returns its object carries exactly the bits last put under that name. This holds even though `Message.Unflatten` silently keeps a last bytes item that was cut short. What catches the cut is `BitChord.Unflatten`'s own short-read errors. The mutant that reads a missing word as zero breaks it.

### `MCMessageCodecs.tla` (both codecs in one run)

The Python 3 module and the envelope module are INSTANCEd with the inputs of `MCCodecInputs.tla`, on variables `msg3` and `msg2`, and `FlatBitChord` on `fsnd, fmsg, frcv, fgot, fput`. Each behaviour runs one of the three and leaves the others `Idle` and leaves the other `Idle`, as in the two-chain environments of IBC specifications. The state space is the sum of the two, not the product. The two violation runs of the Python 3 codec use `MCMessageCodec.tla`, which instantiates `MessageCodec` alone with the same inputs.

## Runs

Connect and accept mode use `MCMessageTransceiverThread`, whose host and peer Messages are model values `h1, h2, p1, p2`. Bodies are 2 bytes long, so a frame is 10 bytes. That is enough to split a frame inside the header, at its end, and inside the body.

Passing runs:

| Run | Config | Bounds | Checks |
|---|---|---|---|
| active_safety | `MCActive.cfg` | connect mode, 2 Messages each way, the server may close or reset mid-frame | `TypeOK`, `ConnectionEventOrder`, `ReceivedInSendOrder`, `OutgoingFramedInOrder`, `SentBeforeShutdownWritten`, `WorkerEndAnnounced` (445k states, about 30 s) |
| active_liveness | `MCActiveLive.cfg` | connect mode, 1 Message each way | `EventuallySeen`, `DestroyReturns` (5.9k states, about 3 min, the liveness checking dominating) |
| passive_safety | `MCPassive.cfg` | accept mode, 2 clients in turn, 1 host and 2 peer Messages, clean closes | `ConnectionEventOrder` (663k states, about 80 s). `ReceivedInSendOrder` is not checked here. With clean closes every client ends on a frame boundary, so it would only repeat `active_safety`. When a client may leave mid-frame, it fails on the second connection: see `passive_stale_state` |
| codec | `MCMessageCodecs.cfg` | python3: names "a" and "b"; inputs INT32 [-1, 300], INT8 -1, CSTR "a\u00e9", a nested Message, RAWT [b"\x00\xff"]; what 0 or 7. python2: names "a" and "_zlib"; inputs INT64 [-1, 300], a nested Message, RAWT "\x00\xff"; what 7; 4-byte longs. Both: every cut of the buffer. python2 also deflates with force 0 and 1, and inflates | `SizeMatches3`, `RoundTrip3`, `SizeMatches2`, `RoundTrip2`, `EnvelopeRoundTrip`, `GetFlatIntact` (13.3k states, under 4 min). FlatBitChord: a 40-bit BitChord (two words) with bit 39 set or cleared. One name gets PutFlat of 0, 1 or 2 objects, or an INT32 put. The buffer is cut at every length, and GetFlat uses index 0, -1 or 1 |
| bitchord | `MCBitChord.cfg` | `BitChord(40)`; bits 0, 31, 32, 39; word inputs with clean tails; encodings of 40, 96 and 8 bits | `TypeOK`, `TailClear`, `RoundTrip`, `Refines` (8k states) |

Violation runs. Each shows a finding in `PROJECT.json`. Where one run stands for several findings, each was also found alone by narrowing the run's constants to that one input.

| Run | Config | Property violated | What TLC shows |
|---|---|---|---|
| passive_stale_state | `MCStaleState.cfg` | `FreshConnection` | a client closes with a frame to it half sent, and the second client is accepted with that frame's rest pending. The same handler also leaves a dead client's partial header or body in `inHeader`/`inBody`, which the next client's bytes complete |
| passive_event_order_faults | `MCPassiveFaults.cfg` | `ConnectionEventOrder` | either fault alone breaks the order. `accept()` raising produces a Disconnected with no Connected. With `NotifyCap` 1, a full `__mainsocket` makes the report of a client's close raise again in the outer handler: two Disconnected in a row, and a dead worker |
| passive_destroy_hang | `MCPassiveDestroy.cfg` | `DestroyReturns` | Destroy after a Send with no client connected blocks in `join()` |
| bad_body_silent_exit | `MCBadBody.cfg` | `WorkerEndAnnounced` | an undecodable body kills the worker with no Disconnected |
| bitchord_dirty_tail | `MCBitChordDirtyTail.cfg` | `TailClear` | any of these sets a tail bit: `SetBit(45)` on `BitChord(40)`, `SetWord` with bits above `NumBits`, or `Unflatten` of a short encoding, which raises after a partial copy |
| codec_size_mismatch | `MCCodecSize.cfg` | `SizeMatches` | either of these makes `FlattenedSize` disagree with the bytes `Flatten` writes: a field named "\u00e9", or a str item under type 555 (as in the file's test stub). The str item also comes back from `Unflatten` as bytes ending in NUL |
| codec_truncation_silent | `MCCodecTruncated.cfg` | `TruncationDetected` | an INT8 field cut before its data byte decodes without error, with no items |

**Why the bounds are enough:**
- Two Messages each way let a partial write of one frame interleave with the next Send, and a reset land in either frame.
- Two clients are the least that shows state crossing connections. `FreshConnection` states directly what must not cross: any pending frame bytes at the moment a new client is accepted.
- With `BodySize` 2, every read of 1..want bytes splits the header and body at every position.
- `MaxConns` 1 in connect mode is the code's own bound.
- For the codec, one input per branch of `Flatten`/`Unflatten` reaches every branch. Two names make both a new field and a replaced field, and both orders. Negative values and 300 exercise the sign byte and a carry into the second byte. Cutting at every length reaches every read in the decoder.
- For the python2 side, "_zlib" as a name lets a user's RAWT field sit where the envelope looks. It also lets a deflated Message get more fields put beside its `_zlib` item, be cut, and be inflated again. A CSTR input is left to the python3 side: with it, the composed run grows past the time a run may take, and the CSTR branches of the two classes are the same code.

## Not modelled, and why

- **Contents of Messages in the transceiver:** they are model values there. The codecs are the separate `MessageCodec` and `MessageCodecPy2` modules.
- **zlib compression levels 1-9:** Huffman coding is out of TLC's reach, and the envelope's logic does not depend on the level.
- **The python2 big-endian byteswap path and the pre-2.2 path without `struct "<q"`:** the model is a little-endian host with a current Python 2.
- **The codec's list getters, `ToString`, and the floating-point types:** the getters and `ToString` change no state. `PutFlat` and `GetFlat` are modelled only with a BitChord, the one Flattenable class in the source. Two disagreements were found while modelling these but are not checked, because every run slot is in use:
  - FLOT items are written with `array('f')`, which rounds them to 32 bits. So the Message of scenario S2 (`put_float([1.0, 2.2, 3.3])`) does not round-trip.
  - `GetFlat` passes its `defaultValue` to `GetFieldItem`. A non-`None` default for a missing field is therefore unflattened into the object instead of being returned.

  Both are hazards in `PROJECT.json`.
- **The socket pair's construction, name resolution, and a full wakeup socket** (hazards in `PROJECT.json`). The wakeup socket is an unbounded counter. A full wakeup socket makes the host's `SendOutgoingMessage` raise, not the worker.
- **`GetPort`, `GetNotificationSocket` and `PrintToStream`-style formatting:** they change no state.
- **The `__main__` test stubs and python_chat's BeShare handling:** they are examples, not library code, and spec section 1 puts BeShare out of scope. Printing or answering BeShare messages would add host sends to the transceiver. Each send multiplies the states of `active_safety`, which already has 446k, and of the liveness run, which takes minutes. So python_chat stays partly modelled: only its select/drain loop is modelled.
- **`AllowsTypeCode`** calls `TypeCode()` without `self` and so raises NameError. Type codes are not modelled.

## Plan for the remaining work

1. A refinement of `MessageCodec` to an abstract ordered map (spec 3.2 and 4.2), with the getters as queries.
2. A run on the python2 field order, which follows hash order where spec 4.1 requires insertion order (a hazard in `PROJECT.json`).
3. An abstract FIFO-channel spec with Connected/Disconnected that the transceiver refines in connect mode.
4. A liveness run in accept mode.
