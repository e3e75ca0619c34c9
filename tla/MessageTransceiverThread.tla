---------------------- MODULE MessageTransceiverThread ----------------------
(***************************************************************************)
(* The MessageTransceiverThread of src/lang/python2/message_transceiver_   *)
(* thread.py: one worker thread that owns a TCP endpoint (outgoing        *)
(* connect, or passive accept), frames outgoing Messages and reassembles  *)
(* incoming ones, and a host thread that talks to it through two Queues   *)
(* and a pair of notification sockets.                                    *)
(*                                                                         *)
(* One pass of the worker's while-loop (run(), lines 210-288) is one     *)
(* step: between select() and the next select() the worker touches only  *)
(* its own locals, the sockets it has just found ready, and the two       *)
(* Queues, whose puts and gets the other side cannot tell apart from one  *)
(* atomic step (a pass that dequeues from outQ only removes what the host *)
(* had already put there).  The notification bytes the pass owes the     *)
(* host (__sendReplyToMainThread sends one after each put on inQ) are     *)
(* separate steps, so the host can take the events before the bytes.     *)
(*                                                                         *)
(* Bytes are abstracted: a frame header is 8 real byte values (the        *)
(* little-endian body size and magic, as struct.pack("<2L") writes them); *)
(* a body byte is the record [m |-> message, i |-> position], opaque to   *)
(* the header decoder.  A Message body decodes to its message only when   *)
(* it is exactly that message's body bytes.                               *)
(***************************************************************************)
EXTENDS Integers, Sequences, SequencesExt, FiniteSets

CONSTANTS
    Passive,        \* TRUE iff constructed with hostname None (accept mode)
    HostMsgs,       \* sequence of distinct messages the host sends, in order
    PeerMsgs,       \* sequence of distinct messages the remote peer(s) send
    BadBodyMsgs,    \* peer messages whose body Message.Unflatten rejects
    BadMagicMsgs,   \* peer messages framed with a magic other than 'Enc0'
    MaxConns,       \* number of peer connections (1 in connect mode)
    PeerMayAbort,   \* may a peer reset its connection, possibly mid-frame
    AcceptMayFail,  \* may accept() raise (e.g. EMFILE) after select said ready
    BodySize,       \* FlattenedSize() of every message (12 = an empty Message)
    NotifyCap,      \* notification bytes __mainsocket can hold unread
    NONE,           \* Python's None
    Garbage         \* a Message unflattened from bytes of no single frame

ASSUME /\ Passive \in BOOLEAN
       /\ MaxConns \in Nat \ {0}
       /\ Passive = FALSE => MaxConns = 1
       /\ BodySize \in Nat \ {0}
       /\ NotifyCap \in Nat \ {0}
       /\ PeerMayAbort \in BOOLEAN /\ AcceptMayFail \in BOOLEAN

MUSCLE_MESSAGE_ENCODING_DEFAULT == 1164862256   \* 'Enc0'
HeaderSize == 8                                 \* 2*sizeof(int32)
FrameLen   == HeaderSize + BodySize
Conns      == 1..MaxConns
HostMsgSet == Range(HostMsgs)
PeerMsgSet == Range(PeerMsgs)
Connected    == "MTT_EVENT_CONNECTED"
Disconnected == "MTT_EVENT_DISCONNECTED"
EndSession   == "endSession"                    \* self._endSession sentinel

VARIABLES
    \* --- worker thread (run() locals and self._connectStillInProgress) ---
    wpc,         \* where the worker is in run()
    toremote,    \* connection of the toremote socket, 0 for None
    connecting,  \* self._connectStillInProgress
    inHdr,       \* inHeader: bytes read so far, or NONE while reading a body
    inBody,      \* inBody: body bytes read so far
    inBodySize,  \* inBodySize
    outMsg,      \* message whose outHeader/outBody are pending, or NONE
    outSent,     \* bytes of outMsg's frame already sent
    notifyDue,   \* events put on inQ whose notification byte is not yet sent
    \* --- host thread and shared objects ---
    hpc,         \* where the host is
    outQ,        \* self.__outQ
    inQ,         \* self.__inQ, entries [ev |-> event, conn |-> connection]
    seen,        \* events the host has taken from inQ, in order
    hostNext,    \* index of the next HostMsgs element to send
    wake,        \* unread bytes in __threadsocket (host -> worker)
    notify,      \* unread bytes in __mainsocket (worker -> host)
    \* --- TCP connections and the remote peers ---
    pstate,      \* peer side of each connection
    queued,      \* connections in the listen backlog, not yet accept()ed
    net,         \* outcome of the asynchronous connect (connect mode)
    frames,      \* whole frames each peer wrote, as messages
    tail,        \* bytes of a frame a peer wrote before it reset
    rd,          \* bytes of each connection's stream the worker has read
    fromW,       \* bytes the worker wrote on each connection
    wclosed,     \* connections the worker has closed
    peerNext     \* index of the next PeerMsgs element a peer sends

workerVars == <<wpc, toremote, connecting, inHdr, inBody, inBodySize,
                outMsg, outSent, notifyDue>>
hostVars   == <<hpc, outQ, inQ, seen, hostNext, wake, notify>>
netVars    == <<pstate, queued, net, frames, tail, rd, fromW, wclosed, peerNext>>
vars       == <<workerVars, hostVars, netVars>>

-----------------------------------------------------------------------------
(* Wire encoding.                                                          *)

\* struct.pack("<L", v): four bytes, least significant first; a byte of
\* known value is the record [val |-> v].
LE32(v) == [k \in 1..4 |-> [val |-> (v \div (256 ^ (k - 1))) % 256]]
\* struct.unpack("<L", bs)
FromLE32(bs) == bs[1].val + 256 * bs[2].val + 65536 * bs[3].val
                  + 16777216 * bs[4].val

BodyOf(m) == [k \in 1..BodySize |-> [m |-> m, i |-> k]]

\* The frame a peer writes: (FlattenedSize, magic) header, then the body.
PeerFrame(m) ==
    LE32(BodySize)
      \o LE32(IF m \in BadMagicMsgs THEN 0 ELSE MUSCLE_MESSAGE_ENCODING_DEFAULT)
      \o BodyOf(m)

\* Everything peer c has written on its connection.
Stream(c) == FlattenSeq([j \in DOMAIN frames[c] |-> PeerFrame(frames[c][j])])
               \o tail[c]

IsByte(b) == "val" \in DOMAIN b

\* Decoding a full 8-byte inHeader (lines 242-244).  A header byte that is
\* really a body byte is opaque: the magic check may go either way and the
\* size is then taken to be BodySize.
HeaderOutcomes(h) ==
    LET sizes == IF \A k \in 1..4 : IsByte(h[k])
                 THEN {FromLE32(SubSeq(h, 1, 4))} ELSE {BodySize}
        oks   == IF \A k \in 5..8 : IsByte(h[k])
                 THEN {FromLE32(SubSeq(h, 5, 8)) = MUSCLE_MESSAGE_ENCODING_DEFAULT}
                 ELSE BOOLEAN
    IN [ok : oks, size : sizes]

\* Message.Unflatten of a complete inBody (lines 252-253): "error" is the
\* IOError / struct.error it raises.
UnflattenOutcomes(b) ==
    IF \E m \in PeerMsgSet : b = BodyOf(m)
    THEN LET m == CHOOSE x \in PeerMsgSet : b = BodyOf(x)
         IN IF m \in BadBodyMsgs THEN {"error"} ELSE {m}
    ELSE {"error", Garbage}

\* The bytes of a host message's frame, as the peer receives them.
OutByte(m, k) == [m |-> m, i |-> k]

-----------------------------------------------------------------------------
(* The worker's locals.  One pass of the while-loop is a function of the  *)
(* record L of run()'s locals and of the shared objects it touches; each   *)
(* block of the loop body maps L to the set of records it may leave.       *)
(* L.st is "go" while the pass goes on, "error" once socket.error is       *)
(* raised, "crashed" once an uncaught exception ends the thread, "exited"  *)
(* once the endSession sentinel is dequeued.                               *)

Finished == {"exited", "disconnected", "crashed"}

Locals == [st |-> "go", toremote |-> toremote, connecting |-> connecting,
           inHdr |-> inHdr, inBody |-> inBody, inBodySize |-> inBodySize,
           outMsg |-> outMsg, outSent |-> outSent, outQ |-> outQ,
           wake |-> wake, queued |-> queued, rd |-> rd, fromW |-> fromW,
           wclosed |-> wclosed, posted |-> <<>>]

CloseIn(w, c) == IF c # 0 THEN [w EXCEPT ![c] = TRUE] ELSE w

\* __sendReplyToMainThread, first half: self.__inQ.put(what, 0).  The
\* connection tag is a history annotation, not part of the event.
Post(L, e) == [L EXCEPT !.posted = Append(@, [ev |-> e, conn |-> L.toremote])]

Raise(L) == [L EXCEPT !.st = "error"]

\* Is there room in __mainsocket for the notification byte of one more
\* event of this pass?  The bytes of the events posted before it in the
\* pass have been sent already.
NotifyRoom(L) == notify + Len(L.posted) < NotifyCap

\* The non-blocking send() of NotifyMainThread (line 188) raises
\* socket.error when __mainsocket is full, after the put on inQ.  The
\* handler reached then calls __sendReplyToMainThread(MTT_EVENT_DISCONNECTED)
\* (lines 285, 292), which raises again: the host, whose not reading filled
\* the buffer, has not read in between.  From the inner handler the raise
\* goes to the outer one; from the outer one it leaves run(), and the
\* thread dies without closing toremote (line 297 is not reached).
OuterHandlerFails(P) == [Post(P, Disconnected) EXCEPT !.st = "crashed"]

InnerHandlerFails(P) ==
    IF Passive THEN OuterHandlerFails(Post(P, Disconnected)) ELSE OuterHandlerFails(P)

\* __sendReplyToMainThread (lines 300-302) called in the loop body.
SendReply(L, e) ==
    IF NotifyRoom(L) THEN Post(L, e) ELSE InnerHandlerFails(Post(L, e))

MinOf(a, b) == IF a < b THEN a ELSE b

waitingForAccept(L) == Passive /\ L.toremote = 0

\* The sockets handed to select() (lines 212-224).
Interest(L) ==
    LET useinlist  == IF L.connecting THEN {"thread"}
                      ELSE IF waitingForAccept(L) THEN {"thread", "accept"}
                      ELSE {"thread", "remote_in"}
        useoutlist == IF (L.outMsg # NONE \/ L.connecting) /\ ~waitingForAccept(L)
                      THEN {"remote_out"} ELSE {}
    IN useinlist \cup useoutlist

IsReady(L, fd) ==
    CASE fd = "thread"     -> L.wake > 0
      [] fd = "accept"     -> L.queued # {}
      [] fd = "remote_in"  -> L.toremote # 0
                              /\ (Len(Stream(L.toremote)) > L.rd[L.toremote]
                                  \/ pstate[L.toremote] \in {"fin", "rst"})
      [] fd = "remote_out" -> L.toremote # 0
                              /\ (L.connecting => net \in {"ok", "refused"})

\* Mutation: the out-queue is peeked at, not popped.
GetNextPeek(L) ==
    IF L.outQ = <<>> THEN [L EXCEPT !.outMsg = NONE, !.outSent = 0]
    ELSE IF Head(L.outQ) = EndSession
    THEN [L EXCEPT !.st = "exited", !.wclosed = CloseIn(@, L.toremote)]
    ELSE [L EXCEPT !.outMsg = Head(L.outQ), !.outSent = 0]

\* Mutation: the endSession sentinel is not recognised and is sent on.
GetNextNoSentinel(L) ==
    IF L.outQ = <<>> THEN [L EXCEPT !.outMsg = NONE, !.outSent = 0]
    ELSE [L EXCEPT !.outMsg = Head(L.outQ), !.outSent = 0, !.outQ = Tail(@)]

\* __getNextMessageFromMain (lines 304-313).  Dequeuing the endSession
\* sentinel raises it: run() ends without an event and closes toremote
\* (lines 291-298).
GetNextMessageFromMain(L) ==
    IF L.outQ = <<>>
    THEN [L EXCEPT !.outMsg = NONE, !.outSent = 0]
    ELSE IF Head(L.outQ) = EndSession
    THEN [L EXCEPT !.outQ = Tail(@), !.st = "exited",
                   !.wclosed = CloseIn(@, L.toremote)]
    ELSE [L EXCEPT !.outMsg = Head(L.outQ), !.outSent = 0, !.outQ = Tail(@)]

\* Mutation: an accepting session keeps the dead toremote.
OnSocketErrorKeepRemote(L) ==
    LET P == Post(L, Disconnected) IN
    [P EXCEPT !.wclosed = CloseIn(@, L.toremote),
              !.st      = IF Passive THEN "go" ELSE "disconnected"]

\* Mutation: the outer handler ends run() without reporting.
OnSocketErrorSilent(L) ==
    [L EXCEPT !.wclosed  = CloseIn(@, L.toremote),
              !.toremote = IF Passive THEN 0 ELSE @,
              !.st       = IF Passive THEN "go" ELSE "disconnected"]

\* The inner "except socket.error" (lines 283-288): an accepting session
\* reports the disconnect, drops toremote (CPython closes it) and goes round
\* the loop again; a connecting session re-raises into the outer handler
\* (lines 289-290, 297-298), which reports it, closes toremote and ends
\* run().  inHeader, inBody, inBodySize, outHeader and outBody are left as
\* they are.  With __mainsocket full, the report itself raises.
OnSocketError(L) ==
    LET P == Post(L, Disconnected) IN
    IF ~NotifyRoom(L)
    THEN IF Passive THEN OuterHandlerFails(P) ELSE [P EXCEPT !.st = "crashed"]
    ELSE [P EXCEPT !.wclosed  = CloseIn(@, L.toremote),
                   !.toremote = IF Passive THEN 0 ELSE @,
                   !.st       = IF Passive THEN "go" ELSE "disconnected"]

-----------------------------------------------------------------------------
(* The blocks of the loop body.                                            *)

\* Lines 228-232: accept the connection waiting in the backlog.
AcceptBlock(L, r) ==
    IF L.st # "go" \/ ~(waitingForAccept(L) /\ "accept" \in r) THEN {L}
    ELSE LET c == CHOOSE x \in L.queued : \A y \in L.queued : x <= y IN
         {SendReply([L EXCEPT !.toremote = c, !.queued = @ \ {c}], Connected)}
           \cup (IF AcceptMayFail THEN {Raise(L)} ELSE {})

\* Mutation: after a Message is delivered inHeader is not reset to "".
ConsumeNoHeaderReset(L, got) ==
    IF L.inHdr # NONE
    THEN LET h == L.inHdr \o got IN
         IF Len(h) < HeaderSize THEN {[L EXCEPT !.inHdr = h]}
         ELSE {IF o.ok THEN [L EXCEPT !.inHdr = NONE, !.inBodySize = o.size]
                       ELSE Raise([L EXCEPT !.inHdr = h])
               : o \in HeaderOutcomes(h)}
    ELSE LET b == L.inBody \o got IN
         IF Len(b) < L.inBodySize THEN {[L EXCEPT !.inBody = b]}
         ELSE {IF u = "error" THEN [L EXCEPT !.inBody = b, !.st = "crashed"]
               ELSE SendReply([L EXCEPT !.inBody = <<>>], u)
               : u \in UnflattenOutcomes(b)}

\* Lines 239-255, after recv() returned the bytes got: complete inHeader and
\* check its magic, or complete inBody and unflatten it.  Message.Unflatten's
\* IOError / struct.error is caught by neither handler and kills the thread.
Consume(L, got) ==
    IF L.inHdr # NONE
    THEN LET h == L.inHdr \o got IN
         IF Len(h) < HeaderSize THEN {[L EXCEPT !.inHdr = h]}
         ELSE {IF o.ok THEN [L EXCEPT !.inHdr = NONE, !.inBodySize = o.size]
                       ELSE Raise([L EXCEPT !.inHdr = h])
               : o \in HeaderOutcomes(h)}
    ELSE LET b == L.inBody \o got IN
         IF Len(b) < L.inBodySize THEN {[L EXCEPT !.inBody = b]}
         ELSE {IF u = "error" THEN [L EXCEPT !.inBody = b, !.st = "crashed"]
               ELSE SendReply([L EXCEPT !.inHdr = <<>>, !.inBody = <<>>,
                                   !.inBodySize = 0], u)
               : u \in UnflattenOutcomes(b)}

\* Mutation: recv() asks for one byte more than the frame still lacks.
ReadBlockOverread(L, r) ==
    IF L.st # "go" \/ "remote_in" \notin r THEN {L}
    ELSE LET c     == L.toremote
             s     == Stream(c)
             avail == Len(s) - L.rd[c]
             want  == IF L.inHdr # NONE THEN HeaderSize - Len(L.inHdr) + 1
                      ELSE L.inBodySize - Len(L.inBody) + 1
         IN IF pstate[c] = "rst" \/ avail = 0 THEN {Raise(L)}
            ELSE UNION {Consume([L EXCEPT !.rd[c] = @ + n],
                                SubSeq(s, L.rd[c] + 1, L.rd[c] + n))
                        : n \in 1..MinOf(want, avail)}

\* Lines 234-238, 246-249: one recv() of what inHeader or inBody still
\* lacks.  It returns from one byte to all of them; an empty result (end of
\* stream, or a request for zero bytes) and a reset connection raise
\* socket.error.
ReadBlock(L, r) ==
    IF L.st # "go" \/ "remote_in" \notin r THEN {L}
    ELSE LET c     == L.toremote
             s     == Stream(c)
             avail == Len(s) - L.rd[c]
             want  == IF L.inHdr # NONE THEN HeaderSize - Len(L.inHdr)
                      ELSE L.inBodySize - Len(L.inBody)
         IN IF pstate[c] = "rst" \/ want = 0 \/ avail = 0 THEN {Raise(L)}
            ELSE UNION {Consume([L EXCEPT !.rd[c] = @ + n],
                                SubSeq(s, L.rd[c] + 1, L.rd[c] + n))
                        : n \in 1..MinOf(want, avail)}

\* Lines 259-260: drain up to 1024 wakeup bytes.  recv() returns "" only
\* once __mainsocket is closed, which Destroy does after join().
WakeBlock(L, r) ==
    IF L.st # "go" \/ "thread" \notin r THEN {L}
    ELSE {[L EXCEPT !.wake = @ - MinOf(@, 1024)]}

\* Lines 262-279: finalize a pending connect with send(""), or send part of
\* outHeader, or else part of outBody.
WriteBlock(L, r) ==
    IF L.st # "go" \/ "remote_out" \notin r THEN {L}
    ELSE IF L.connecting
    THEN IF net = "ok" THEN {SendReply([L EXCEPT !.connecting = FALSE], Connected)}
         ELSE {Raise(L)}
    ELSE IF pstate[L.toremote] = "rst" THEN {Raise(L)}
    ELSE IF L.outMsg = NONE THEN {L}
    ELSE LET limit == IF L.outSent < HeaderSize THEN HeaderSize ELSE FrameLen IN
         {[L EXCEPT !.fromW[L.toremote] =
                      @ \o [k \in 1..n |-> OutByte(L.outMsg, L.outSent + k)],
                    !.outSent = @ + n,
                    !.outMsg  = IF L.outSent + n = FrameLen THEN NONE ELSE @]
          : n \in 1..(limit - L.outSent)}

\* Mutation: the out-queue is consulted even with a frame half sent.
EndOfPassNoGuard(L) ==
    IF L.st = "error" THEN OnSocketError(L)
    ELSE IF L.st = "go" THEN GetNextMessageFromMain(L)
    ELSE L

\* Lines 281-282, or the except clause if the pass raised.
EndOfPass(L) ==
    IF L.st = "error" THEN OnSocketError(L)
    ELSE IF L.st = "go" /\ L.outMsg = NONE THEN GetNextMessageFromMain(L)
    ELSE L

\* The state the worker leaves after a pass (or after Start).
Commit(L) ==
    /\ wpc' = IF L.st = "go" THEN "select" ELSE L.st
    /\ toremote' = L.toremote /\ connecting' = L.connecting
    /\ inHdr' = L.inHdr /\ inBody' = L.inBody /\ inBodySize' = L.inBodySize
    /\ outMsg' = L.outMsg /\ outSent' = L.outSent
    /\ outQ' = L.outQ /\ wake' = L.wake /\ queued' = L.queued
    /\ rd' = L.rd /\ fromW' = L.fromW /\ wclosed' = L.wclosed
    /\ inQ' = inQ \o L.posted
    /\ notifyDue' = MinOf(Len(L.posted), NotifyCap - notify)

-----------------------------------------------------------------------------
(* Worker actions: run().                                                  *)

\* __createConnectingSocket (lines 321-346): the non-blocking connect()
\* succeeds at once (Connected is posted), is left in progress (EINPROGRESS
\* and friends), or raises.
ConnectAttempts == {"sync", "inprogress", "error"}

Start ==
    /\ wpc = "init"
    /\ IF Passive
       THEN /\ Commit(GetNextMessageFromMain(Locals))
            /\ UNCHANGED <<net, pstate>>
       ELSE \E a1, a2 \in ConnectAttempts :
              LET r == IF a1 # "error" THEN a1 ELSE a2
                  L == [Locals EXCEPT !.toremote = 1,
                                      !.connecting = (r = "inprogress")]
              IN IF r = "error"
                 THEN /\ Commit([Post(Locals, Disconnected) EXCEPT !.st = "disconnected"])
                      /\ UNCHANGED <<net, pstate>>
                 ELSE /\ net' = IF r = "sync" THEN "ok" ELSE "pending"
                      /\ pstate' = IF r = "sync" THEN [pstate EXCEPT ![1] = "open"]
                                   ELSE pstate
                      /\ Commit(GetNextMessageFromMain(
                                  IF r = "sync" THEN Post(L, Connected) ELSE L))
    /\ UNCHANGED <<hpc, seen, hostNext, notify, frames, tail, peerNext>>

\* One pass of the while-loop (lines 211-288): select() blocks until one
\* of the sockets it is given is ready, then the accept, read, wakeup and
\* write blocks run in turn, and the out-queue is consulted.
LoopPass ==
    /\ wpc = "select" /\ notifyDue = 0
    /\ LET L0 == Locals
           r  == {fd \in Interest(L0) : IsReady(L0, fd)}
       IN /\ r # {}
          /\ \E L1 \in AcceptBlock(L0, r) : \E L2 \in ReadBlock(L1, r) :
             \E L3 \in WakeBlock(L2, r) : \E L4 \in WriteBlock(L3, r) :
                Commit(EndOfPass(L4))
    /\ UNCHANGED <<hpc, seen, hostNext, notify, pstate, net, frames, tail,
                   peerNext>>

\* __sendReplyToMainThread, second half: NotifyMainThread() sends one byte
\* to the notification socket per event posted (lines 188, 302).
NotifyMainThread ==
    /\ notifyDue > 0
    /\ notify' = notify + 1
    /\ notifyDue' = notifyDue - 1
    /\ UNCHANGED <<wpc, toremote, connecting, inHdr, inBody, inBodySize,
                   outMsg, outSent, hpc, outQ, inQ, seen, hostNext,
                   wake, netVars>>

-----------------------------------------------------------------------------
(* Host actions: the public methods, called from the host's main loop the *)
(* way python_chat.py calls them.                                          *)

HostRunning == hpc \in {"run", "drain"}

\* SendOutgoingMessage (lines 131-132): put on outQ, wake the worker.
SendOutgoingMessage ==
    /\ HostRunning
    /\ hostNext <= Len(HostMsgs)
    /\ outQ' = Append(outQ, HostMsgs[hostNext])
    /\ wake' = wake + 1
    /\ hostNext' = hostNext + 1
    /\ UNCHANGED <<workerVars, hpc, inQ, seen, notify, netVars>>

\* Destroy (lines 139-141): enqueue the endSession sentinel, wake the
\* worker, then block in join().
Destroy ==
    /\ HostRunning
    /\ outQ' = Append(outQ, EndSession)
    /\ wake' = wake + 1
    /\ hpc' = "joining"
    /\ UNCHANGED <<workerVars, inQ, seen, hostNext, notify, netVars>>

\* join() returns once run() has returned; Destroy then drops the queues
\* and closes the sockets (lines 141-149).
Joined ==
    /\ hpc = "joining"
    /\ wpc \in Finished /\ notifyDue = 0
    /\ hpc' = "done"
    /\ UNCHANGED <<workerVars, outQ, inQ, seen, hostNext, wake, notify, netVars>>

\* python_chat.py lines 58-60: select() on the notification socket returns,
\* recv(1024) clears the notification bytes.
HostWakeup ==
    /\ hpc = "run"
    /\ notify > 0
    /\ notify' = notify - MinOf(notify, 1024)
    /\ hpc' = "drain"
    /\ UNCHANGED <<workerVars, outQ, inQ, seen, hostNext, wake, netVars>>

\* Mutation: the host takes one event per notification.
GetNextIncomingEventOnce ==
    /\ hpc = "drain"
    /\ hpc' = "run"
    /\ IF inQ = <<>> THEN UNCHANGED <<inQ, seen>>
       ELSE /\ seen' = Append(seen, Head(inQ))
            /\ inQ' = Tail(inQ)
    /\ UNCHANGED <<workerVars, outQ, hostNext, wake, notify, netVars>>

\* GetNextIncomingEvent(False) (lines 166-169), called until it returns
\* None (python_chat.py lines 61-84).
GetNextIncomingEvent ==
    /\ hpc = "drain"
    /\ IF inQ = <<>>
       THEN /\ hpc' = "run"
            /\ UNCHANGED <<inQ, seen>>
       ELSE /\ seen' = Append(seen, Head(inQ))
            /\ inQ' = Tail(inQ)
            /\ UNCHANGED hpc
    /\ UNCHANGED <<workerVars, outQ, hostNext, wake, notify, netVars>>

-----------------------------------------------------------------------------
(* The remote peers and the network.                                       *)

PeerMayAct(c) == pstate[c] = "open" /\ ~wclosed[c]

\* A client connects to the listening socket (listen(1): one in the
\* backlog); clients arrive one after the other.
PeerConnect(c) ==
    /\ Passive
    /\ pstate[c] = "idle"
    /\ c > 1 => pstate[c - 1] # "idle"
    /\ queued = {}
    /\ pstate' = [pstate EXCEPT ![c] = "open"]
    /\ queued' = {c}
    /\ UNCHANGED <<workerVars, hostVars, net, frames, tail, rd, fromW,
                   wclosed, peerNext>>

\* The peer writes one whole frame.
PeerSend(c) ==
    /\ PeerMayAct(c)
    /\ peerNext <= Len(PeerMsgs)
    /\ frames' = [frames EXCEPT ![c] = Append(@, PeerMsgs[peerNext])]
    /\ peerNext' = peerNext + 1
    /\ UNCHANGED <<workerVars, hostVars, pstate, queued, net, tail, rd,
                   fromW, wclosed>>

\* The peer closes its socket: the worker reads end-of-stream.
PeerClose(c) ==
    /\ PeerMayAct(c)
    /\ pstate' = [pstate EXCEPT ![c] = "fin"]
    /\ UNCHANGED <<workerVars, hostVars, queued, net, frames, tail, rd,
                   fromW, wclosed, peerNext>>

\* The peer dies, possibly after writing only the first k bytes of its next
\* frame: the connection is reset.
PeerReset(c) ==
    /\ PeerMayAbort
    /\ PeerMayAct(c)
    /\ \E k \in 0..(FrameLen - 1) :
         /\ k > 0 => peerNext <= Len(PeerMsgs)
         /\ tail' = [tail EXCEPT ![c] =
                       IF k = 0 THEN <<>> ELSE SubSeq(PeerFrame(PeerMsgs[peerNext]), 1, k)]
         /\ peerNext' = IF k = 0 THEN peerNext ELSE peerNext + 1
    /\ pstate' = [pstate EXCEPT ![c] = "rst"]
    /\ UNCHANGED <<workerVars, hostVars, queued, net, frames, rd, fromW,
                   wclosed>>

\* An in-progress connect completes or is refused.
ConnectCompletes ==
    /\ net = "pending"
    /\ \E r \in {"ok", "refused"} :
         /\ net' = r
         /\ pstate' = IF r = "ok" THEN [pstate EXCEPT ![1] = "open"] ELSE pstate
    /\ UNCHANGED <<workerVars, hostVars, queued, frames, tail, rd, fromW,
                   wclosed, peerNext>>

-----------------------------------------------------------------------------

Init ==
    /\ wpc = "init"
    /\ toremote = 0
    /\ connecting = FALSE
    /\ inHdr = <<>> /\ inBody = <<>> /\ inBodySize = 0
    /\ outMsg = NONE /\ outSent = 0
    /\ notifyDue = 0
    /\ hpc = "run"
    /\ outQ = <<>> /\ inQ = <<>> /\ seen = <<>>
    /\ hostNext = 1
    /\ wake = 0 /\ notify = 0
    /\ pstate = [c \in Conns |-> "idle"]
    /\ queued = {}
    /\ net = "none"
    /\ frames = [c \in Conns |-> <<>>]
    /\ tail = [c \in Conns |-> <<>>]
    /\ rd = [c \in Conns |-> 0]
    /\ fromW = [c \in Conns |-> <<>>]
    /\ wclosed = [c \in Conns |-> FALSE]
    /\ peerNext = 1

WorkerStep ==
    \/ Start \/ LoopPass \/ NotifyMainThread

HostStep ==
    \/ SendOutgoingMessage \/ Destroy \/ Joined
    \/ HostWakeup \/ GetNextIncomingEvent

PeerStep ==
    \/ ConnectCompletes
    \/ \E c \in Conns : PeerConnect(c) \/ PeerSend(c) \/ PeerClose(c) \/ PeerReset(c)

\* After Destroy has returned the program may stop.
Stopped == hpc = "done" /\ UNCHANGED vars

Next == WorkerStep \/ HostStep \/ PeerStep \/ Stopped

\* The worker runs whenever select() has something for it; the host's main
\* loop answers every notification; a pending connect ends (completes or
\* times out).  The user (Send, Destroy) and the peers owe nothing.
Fairness ==
    /\ WF_vars(Start) /\ WF_vars(LoopPass) /\ WF_vars(NotifyMainThread)
    /\ WF_vars(Joined) /\ WF_vars(HostWakeup) /\ WF_vars(GetNextIncomingEvent)
    /\ WF_vars(ConnectCompletes)

Spec == Init /\ [][Next]_vars /\ Fairness

-----------------------------------------------------------------------------
(* Properties.                                                             *)

Events     == {Connected, Disconnected}
AllEvents  == Events \cup PeerMsgSet \cup {Garbage}
ByteVal    == [val : 0..255] \cup [m : PeerMsgSet, i : 1..BodySize]

TypeOK ==
    /\ wpc \in {"init", "select"} \cup Finished
    /\ toremote \in 0..MaxConns
    /\ connecting \in BOOLEAN /\ notifyDue \in 0..3
    /\ inHdr = NONE \/ (inHdr \in Seq(ByteVal) /\ Len(inHdr) <= HeaderSize)
    /\ inBody \in Seq(ByteVal) /\ Len(inBody) <= BodySize
    /\ outMsg \in {NONE} \cup HostMsgSet /\ outSent \in 0..FrameLen
    /\ hpc \in {"run", "drain", "joining", "done"}
    /\ outQ \in Seq(HostMsgSet \cup {EndSession})
    /\ inQ \in Seq([ev : AllEvents, conn : 0..MaxConns])
    /\ seen \in Seq([ev : AllEvents, conn : 0..MaxConns])
    /\ wake \in Nat /\ notify \in 0..NotifyCap
    /\ pstate \in [Conns -> {"idle", "open", "fin", "rst"}]
    /\ queued \subseteq Conns
    /\ net \in {"none", "pending", "ok", "refused"}
    /\ rd \in [Conns -> Nat] /\ wclosed \in [Conns -> BOOLEAN]
    /\ \A c \in Conns : rd[c] <= Len(Stream(c))

\* Every event the host has been given, in the order the worker posted it.
History == seen \o inQ

IsMsg(e) == e \notin Events

\* For each position of the history, the last Connected / Disconnected
\* before it (NONE if there is none).
LastConnEvent(i) ==
    LET prior == SelectSeq(SubSeq(History, 1, i - 1), LAMBDA x : x.ev \in Events)
    IN IF prior = <<>> THEN NONE ELSE Last(prior).ev

\* The event sequence the host sees (spec section 5 and 8.6): a received
\* Message only inside a connection, i.e. after a Connected and before the
\* Disconnected that ends it; every Disconnected ends a connection.  In
\* connect mode there is at most one connection and a failed connect is
\* reported by a lone Disconnected, after which nothing follows.
ConnectionEventOrder ==
    \A i \in DOMAIN History :
      LET e == History[i].ev  l == LastConnEvent(i) IN
      /\ e = Connected    => IF Passive THEN l # Connected ELSE l = NONE
      /\ e = Disconnected => l = Connected \/ (~Passive /\ l = NONE)
      /\ IsMsg(e)         => l = Connected

\* The Messages the host receives on a connection are the frames the peer
\* sent on it, in order, none lost before a later one, none invented
\* (Received order is the sender's Send order, spec 8.6).
ReceivedOn(c) == LET r == SelectSeq(History, LAMBDA x : x.conn = c /\ IsMsg(x.ev))
                 IN [j \in DOMAIN r |-> r[j].ev]

ReceivedInSendOrder == \A c \in Conns : IsPrefix(ReceivedOn(c), frames[c])

\* Accept mode: every client the worker accepts starts on a fresh frame
\* both ways (spec section 5, one framing state per connection): when
\* toremote becomes a new connection, no header or body bytes of an earlier
\* client are held in inHeader/inBody, and no half-sent outHeader/outBody
\* is waiting to be finished on it.
FreshConnection ==
    [][toremote' # 0 /\ toremote' # toremote =>
         inHdr' = <<>> /\ inBody' = <<>> /\ outSent' = 0]_vars

\* A byte stream that is whole frames, one after the other, possibly with
\* the last one still incomplete.
WellFramed(s) ==
    \A j \in DOMAIN s :
      IF j = 1 THEN s[j].i = 1
      ELSE IF s[j - 1].i = FrameLen THEN s[j].i = 1
      ELSE s[j].i = s[j - 1].i + 1 /\ s[j].m = s[j - 1].m

\* Messages whose frame starts on connection c, in order.
FramesOn(c) == LET starts == SelectSeq(fromW[c], LAMBDA b : b.i = 1)
               IN [j \in DOMAIN starts |-> starts[j].m]

\* What the peer of each connection reads is a sequence of whole frames of
\* the host's Messages, and over the connections in turn the host's Sends
\* in FIFO order with none skipped or repeated (spec 5, 6.1).
OutgoingFramedInOrder ==
    /\ \A c \in Conns : WellFramed(fromW[c])
    /\ FlattenSeq([c \in Conns |-> FramesOn(c)])
         = SubSeq(HostMsgs, 1, Len(FlattenSeq([c \in Conns |-> FramesOn(c)])))

\* A worker that ends because of Destroy has first written out, whole,
\* every Message sent before Destroy (spec S6: a prefix, never a partial
\* frame -- here the whole queue, as nothing cancels a Send).
SentBeforeShutdownWritten ==
    wpc = "exited" =>
      \A j \in 1..(hostNext - 1) : \A k \in 1..FrameLen :
        \E c \in Conns : OutByte(HostMsgs[j], k) \in Range(fromW[c])

\* A worker that stops for any reason but Destroy has told the host so:
\* the last event it posted is Disconnected (spec section 7).
WorkerEndAnnounced ==
    wpc \in {"disconnected", "crashed"} =>
      History # <<>> /\ Last(History).ev = Disconnected

\* Every event the worker posts is eventually taken by the host, unless the
\* host has begun Destroy: the notification byte is never lost.
MaxEvents == 2 * MaxConns + Len(PeerMsgs) + 1
EventuallySeen ==
    \A n \in 1..MaxEvents :
      (Len(History) >= n) ~> (Len(seen) >= n \/ hpc \in {"joining", "done"})

\* Destroy returns: the worker ends once the endSession sentinel is queued.
DestroyReturns == (hpc = "joining") ~> (hpc = "done")

====
