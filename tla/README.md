# mxsms: specifications and proofs

mxsms is a gateway between users of MX telephone servers and mobile phones. A
user's message goes from an MX server through the gateway to an SMSC (an SMPP
server); what a phone answers comes back the same way. The repository also holds
a small SMPP server that ESMEs can bind to.

This directory holds TLA+ modules translated from the Go source, TLC
configurations that check them on small instances, and TLAPS proofs of some of
their properties for every value of the constants. `PROJECT.json` maps every
definition to the lines it models and lists runs, mutants, findings, hazards and
theorems.

## 1. The system

| component | source | state | operations |
|---|---|---|---|
| SMPP pool | `sms/smpp.go`, `sms/tranceiver.go` | per address: loop counter `i`, `lastErrorTime`, the transceiver; map `trxs`; channels `send`, `Receive` | `Connect`, `Close`, `Send`, one supervisor goroutine per address, one `sending` goroutine per transceiver ever made |
| long SMS | `sms/tranceiver.go` | cache `incomming` by reference byte, local to `reading` | splitting in `Send`, joining in `reading` |
| SMPP transceiver | `smpp/transceiver.go` | `Bound`, `Err`, two timers, the connection | `newTransceiver`/`Bind`, `bindCheck`, `startEnquireLink`, `Read`, `Close` |
| codec and framing | `smpp/smpp.go`, `smpp/pdu*.go` | `Sequence`, the byte stream | `Write`, `Read`, `ParsePdu`, one writer per PDU |
| SMPP server | `smpp/server.go`, `sms/smpp_server.go` | `Clients`, `clientAddresses`, `pendingReceipts`, `IncomingChannel` | accept, bind, register, submit, receipt, `Stop` |
| history | `history.go` | contact -> number -> (user, time) | `Add`, `Get`, `GetFrom` under a mutex |
| gateway, MX side | `smsgate.go`, `mx.go`, `msghandler.go`, `config.go` | per MX: supervisor, `handler`, `client`; the sessions that wait to hand over an SMS | `SMSGate.Send`, `SMSGate.Receive`, `MXConnect`, `MXClose`, `Handle` |
| text coding | `sms/coder.go` | none | `Encode`, `Decode` |
| main loop | `main.go` | configuration | start, signal, reload |
| SQL log, Zabbix | `sqlog/`, `zabbix/` | none that is used | no-ops, an external program |

Interaction: `Handle` (one goroutine per MX connection) calls `SMSGate.Send`,
which picks a number from the history, calls `SMPP.Send` and records the choice.
`SMPP.Send` writes to an unbuffered channel that every `sending` goroutine
reads; those call `Transceiver.Send`, which splits the text and writes PDUs. The
`reading` loops of all transceivers write to the one channel `SMPP.Receive`; one
goroutine reads it and calls `SMSGate.Receive`, which asks the history for the
user and waits for that user's MX connection.

What is hard in it, and what would make it right:

- **Goroutines that outlive what they serve.** The sending goroutine of a closed
  transceiver still takes messages; the map, the flag `isClosed` and the socket
  of a session change in separate steps, while `Close` goes through them. Right:
  the map names exactly the sessions that run, `Close` reaches all of them and
  they end as planned stops, a message's parts leave once and in order.
- **Timers against answers.** The check timer is armed after the write whose
  answer stops it; a bind check sleeps beside the bind. Right: a silent peer is
  noticed, a failed bind leaves no connection, a live connection is left alone.
- **Bytes.** `Read` uses what one `conn.Read` returned. Right: a cut in the stream
  ends the session and never becomes a PDU that nobody sent. The code keeps this but
  for PDUs of certain lengths (section 4), which the properties name.
- **Parts.** They come out of order, twice, over a reconnect, with a reference
  that is already in use. Right: a text is handed on whole or not at all.
- **Choice, sending and recording of a number are three steps.** Right: a
  conversation stays on one number, numbers are taken from the user who used them
  longest ago, the answer goes to the one who wrote.
- **One receiver for everything.** Right: no SMS blocks the others for ever.
- **Hand over first, acknowledge later.** A session hands an SMS to the receiver and
  only then answers the SMSC; it may be lost anywhere in between, and the SMSC
  delivers again. Right: what was acknowledged was handed over, and nothing is
  handed over twice without a session lost in between. Parts of a long SMS are the
  exception: all but the last are acknowledged once they are in the session's cache,
  and can be lost there; the properties list the ways.
- **Fields that are set one after the other.** `handler` is set before the login,
  `client` after it, and a closed client stays in its field. Right: whoever is in the
  history can be reached, and an SMS is lost only while its server is away.
- **Two tables for one alphabet.** Right: a text is read as it was written, except
  for the characters the tables lose, and those are known.
- **Cleanup by name.** The server removes sessions by system id while the client
  may be back already. Right: no dead session is registered, receipts go to the
  submitter's id, no receipt entry leaks.

## 2. Modules

| module | models | abstracts |
|---|---|---|
| `SmppPool` | the pool: supervisors (`pc`, `errs`, `recent`, `conn`), map (`trxs`, `trxsNil`), `Close` (`closePc`, `toClose`), a reader that hands up a PDU (`HandOver`) or an error (`Report`) to a receiver that may have stopped (`stalled`), sockets (`sock`, `isClosed`), sending goroutines (`senders`, `work`, `part`), messages (`msg`, `wire`) | a text is its number of parts; 30 minutes since the last dial error is `recent` |
| `Outbox` | what a caller of `SMPP.Send` may rely on: refused or queued, accepted or lost, parts one by one | connections, goroutines |
| `LongSms` | splitting a text and joining its parts, with an SMSC that reorders, and redelivers what was not acknowledged | bytes are slices of a text of given length |
| `Transceiver` | the four goroutines of one transceiver, Go timers before 1.23 (go.mod: 1.21), the peer | PDUs are kinds, time is in units of 5 s |
| `Pdu` | every PDU the program builds: writer and parser, byte by byte | status texts, setters' type checks |
| `Coder` (extends `Pdu`) | `Encode`, `Decode` and both GSM tables; the choice of a coding in `Send`, the text in `reading` | UTF-16 and Windows-1252 are library code |
| `Wire` (extends `Coder`) | `Smpp.Write` and `Smpp.Read` over a stream cut anywhere; PDUs and texts | one connection, one direction |
| `SmppServer` | the server's handlers, registration, receipts, `Stop` | ESMEs are sessions that may bind under any accepted id |
| `History` | the history and its choice of numbers | time is counted in calls of `Add` |
| `Gateway` (extends `History`) | MX supervisors (`link`, `errs`, `handler`, `client`), `Handle`/`Send` (`task`), the SMPP sessions that bring SMS (`sess`, `up`) with their caches of parts (`kept`, `gone`), the SMSC behind them (`mail`, `acked`), the receiver (`recv`) | a long SMS has two parts; parsing of the phone number, templates; why a session is lost, which is `SmppPool`'s and `Transceiver`'s |
| `MC*` | values of constants, symmetry | |
| `SmppPoolProofs`, `OutboxProofs`, `TransceiverProofs`, `LongSmsProofs`, `SmppServerProofs`, `GatewayProofs`, `PduProofs`, `WireProofs` | the proofs | |

One action stands for the code between two points at which another goroutine can
interfere: a lock taken or released, a channel operation, a read or write of the
socket, an access to an unlocked shared field. Pool and server follow their
goroutines with a program counter; where a mutex is held over several steps
(`Close` of the pool, `Stop` of the server) the actions that need it are disabled.
A nil map write, an index out of range, a send on a closed channel and a nil client
end the process: `panicked`, after which nothing happens.

`SmppPool` states that it implements `Outbox` through `INSTANCE Outbox WITH`: the
fate of a message is its `msg`, what is out is the number of places it has in
`wire`. TLC checks that on an instance and `OutboxProofs` proves it.

A submit in `SmppServer` takes five actions, because other goroutines can come
between them: `ReadSubmit`, the look at the map in `isAuthenticated`, the entry in
`pendingReceipts`, the send on the channel, the response. In `Gateway` a session of the
pool is its loop: `ReadSms`, the hand-over (`Route`, taken by the receiver), `Reply`;
for a part that is not the last one `ReadPart` and `Reply`, with nothing handed over;
a lost one hands over its error (`TakeError`) before its address connects again, with
an empty cache. In `SmppPool` the receiver of all this is one variable, `stalled`: it may
stop for good at any time, as `gateway_stall` shows it can.

## 3. Runs

| run | instance | shows |
|---|---|---|
| `pool_safety` | 2 addresses, 3 connections, budget 2, no messages | `RegisteredIsCurrent`, `CloseReachesAll`, `PlannedStop` |
| `pool_live` | 1 address, 3 connections, messages of two parts and one | `PartsOnceInOrder`, `OutboxSpec`, `OfferedSettles`, `DeadSessionRemoved`, `CloseStops` |
| `pool_loss` | 1 address, 2 connections, 1 message | `NoLossWhileConnected` fails |
| `pool_panic` | the same | `NoPanic` fails |
| `trx_live` | interval 10 s, 2 PDUs in flight, 1 unasked PDU | `DeadPeerDetected`, `BindDecides`, `FailedBindClosed`, `ReaderEnds`, `ClosedGoesQuiet` |
| `trx_timer` | no unasked PDU | `TimerOnlyWhenOwed` fails |
| `wire_frames` | any 2 of 12 PDUs, among them one of 256, 260 and 384 bytes each, and of 45 texts | `ReceivedIsSent`, `NothingSwallowed`, `ClosedMeansCut`, `TextReadBack` |
| `longsms` | 2 messages of 8 texts, 2 references, `MaxParts` 3, 1 reconnect | `SplitIsSound`, `WholeWhenRunIsClean`, `HandledIsKept`, `TwiceOnlyIfCut`, `PanicNeedsMixing` |
| `longsms_order` | 1 message of 2 parts | `FullMeansFull` fails |
| `server_live` | 2 sessions, 2 ids, 2 messages, channel of 1 | `NoDeadClient`, `PendingExact`, `ReceiptToSubmitter`, `SubmitAnswered`, `DeadSessionRemoved` |
| `gateway_safety` | 3 users of one MX with 2 numbers, 1 user of another, who has the jid of one of the 3; 2 sessions; up to 3 SMS out, 2 SMS or parts in, 1 session lost | `NumberOfMx`, `OneNumberPerUser`, `TakesOldestOnly`, `RoutedToLastWriter`, `KnownUserReachable`, `LostOnlyOffline`, `AckedWasTaken`, `AgainOnlyIfCut` |
| `gateway_stall` | no SMS out, 2 in; MX servers that need not be reached | `IncomingProcessed` fails |

Every passing run except `pool_live` and `wire_frames` also checks its module's
type invariant (the pool's is in `pool_safety`).

### Bounds, and why they are enough

- *Pool.* In `pool_live` budget 3 lets the one address connect three times, so the
  goroutines of two transceivers that were dropped or closed and of the current one
  compete for the channel. In `pool_safety` two addresses share three connections: one
  reconnects while the other registers and `Close` is between them. Budget 2 is the
  smallest with which a supervisor goes on after an error and also gives up.
  Connections are interchangeable and are taken in one order (`Fresh`). `pool_safety`
  leaves messages out, which its properties do not read.
- *Transceiver.* The check timer is half an interval: 10 s is the smallest interval
  at which its expiry and the next tick differ. Two PDUs in flight let a late answer
  and an unasked PDU queue up behind each other. The peer answers in order, falls
  silent or goes at any moment.
- *Wire.* What the runs cannot enumerate, any PDUs and any number of them, is proved.
  Lengths 256 and 260 are where a length cut after three bytes and a
  length whose last byte is zero matter; 384 is the first length of which a cut makes
  another PDU; two PDUs are enough for a shift of the
  frame to show in the second one.
- *LongSms.* The texts are at and just past every limit of both codings: one part,
  two parts, exactly `MaxParts` and one more. Two references give messages that
  share one and messages that do not. That the split is right for all lengths is
  proved, not only checked.
- *Server.* Two sessions under two ids contain a client that comes back under its
  own id before its first session is cleaned up; a channel of one is full when a
  second message waits.
- *Texts.* Every ASCII character that does not survive by itself, one text of all the
  others, and texts beyond ASCII at both ends of the range of one UTF-16 unit, with a
  surrogate pair, a byte order mark and characters that coding 0 would lose.
- *Gateway.* Three users for two numbers make the third one take a number. `Loads`
  bounds a behaviour as a whole: three messages out and one SMS in (both numbers used
  and one taken over, an answer before and after that), two out and two in, one out,
  one in and a session lost, or two in and a session lost. Two in are two SMS, or the
  two parts of a long one: with a lost session an SMS is handed over twice, or
  acknowledged by the session that got it or not at all, and a part is acknowledged,
  lost with its cache, and the last part handed over without it. The two servers have
  error budgets of 2 and 1 and a user each with the same jid, so that one writes from
  the other's number. In `gateway_stall` two SMS are one that waits for an MX server
  and one behind it. Numbers are not shared between servers in these instances:
  `TakesOldestOnly` and `RoutedToLastWriter` are stated for such numbers (see 6); the
  others are proved for shared numbers as well, and so are those two for the numbers
  they speak of. The users whose jid is their own, the numbers they compete for and the
  sessions are interchangeable, hence the symmetry.

### Fairness

Weak fairness of each goroutine: the Go scheduler runs every goroutine that can
run. Three places have strong fairness: `CheckExpired` (a `select` with several ready
channels picks at random, so it does not pass over one for ever), the server's `Push`,
and the gateway's `Route` and `TakeError`, which hand over what a session waits to send
(senders blocked on a channel are queued first in, first out). The
environment is fair only where the code's libraries are: a read on a dead connection
returns, a dial and a login return, sleeps end. Nothing is assumed of how often or how
soon peers, users, SMSC or network do anything, and no run assumes that a connection
can be made again. Of what a peer may send one thing is left out: an ENQUIRE_LINK_RESP
nobody asked for, which before the timers are made is a nil dereference
(`smpp/transceiver.go:173`).

In the pool the goroutine that reads `SMPP.Receive` may stop for good (`Stall`), and no
fairness says otherwise. `DeadSessionRemoved` and `CloseStops` name what is then stuck: the
readers with a PDU or an error to hand up, whose dead sessions stay in the map, and
nothing else: `Close` returns, and every other session ends. In
the server the consumer of `IncomingChannel` keeps consuming, as
`processIncomingMessages` does.

## 4. What the violations say

Each is a behaviour of the code that contradicts its own comments or error texts;
`PROJECT.json` quotes the lines.

1. `pool_loss`: the sending goroutine of a closed transceiver keeps taking messages
   from the shared channel and throws them away, while a live session waits.
2. `pool_panic`: a supervisor that is dialling while `Close` runs writes to the map
   that `Close` has set to nil.
3. `trx_timer`: an answer that is read between the write of the enquire link and
   `Reset` of the check timer does not stop the timer; half an interval later it
   closes a healthy connection.
4. `longsms_order`: the part with the highest number makes a text "full", whichever
   parts are missing.
5. `gateway_stall`: one SMS for an MX server that was never reached blocks the only
   receiver for good.

Seen in the models and given no run of their own: the pool's error budget is not
reset by session errors (`sms/smpp.go:107`); the server's cleanup by system id may
unregister a client that is already back (`smpp/server.go:285`); `clientAddresses`
only grows (`:286`); `Stop` closes channels handlers may be sending on (`:296`); the
receiver may meet a nil MX client between `mx.go:51` and `mx.go:58`, but only for a
`defaultJID` (`KnownUserReachable`); an answer that
arrives between `SMPP.Send` and `history.Add` goes to the `defaultJID`; `bindCheck`
sets the error "BIND Resp not received" also when a refusal was received; a
reference left in the cache by an unfinished message mixes texts or ends the process
(`PanicNeedsMixing` says exactly when); the two GSM tables do not invert each other, and
`TextReadBack` names every character a text of coding 0 loses; a PDU of 384, 640, 896...
bytes whose length is cut behind its third byte (`smpp/smpp.go:232`) is read as a
GENERIC_NACK nobody sent: the zero that stands for the missing byte makes the length
256, 512, 768..., and the byte 0x80 that follows, with the zeros behind it, is that
command's number. The SMSC can send such a PDU (the gateway's own are shorter). The
transceiver then ends the session (`smpp/transceiver.go:179`), a server's handler goes on
with what is left of the stream. `wire_frames` reaches this with a PDU of 384 bytes, and
its properties allow it and no other PDU that nobody sent (`Deceived`); a user may write
from a number of another MX server if it has a user with his jid (`history.go:60`,
`NumberOfMx`); a part of a long SMS that was acknowledged is lost with its session
(`AckedWasTaken` and `HandledIsKept` say when); a reload ends the process,
because `main.go:74` closes a log that `main.go:61-64` does not open.

## 5. What is proved

For every value of the constants that satisfies the named assumptions, every
invariant and every other safety property of the passing runs but one
(`TwiceOnlyIfCut`) is proved.

**`SmppPoolProofs`** (assumption `PoolAssumption`).
`TypeCorrect`: `TypeOK` needs two additions to be inductive, that a supervisor that
goes on has budget left (`BudgetLeft`) and that one in a session has a transceiver
(`HasConn`). `PoolInvariant`: on top of it `SessionInv` is inductive. It adds that no
two supervisors own one transceiver (`ConnOwned`), that the socket that ended a
session stays down (`DownStaysDown`), that the flag is set before the socket is
closed (`FlagFirst`), that while `Close` runs every session is closed or still on
its list (`LoopCovers`), and that the map is not made again (`MapDropped`). From
these follow `MapIsCurrent`, `CloseIsComplete` and `StopIsPlanned`, the three safety
properties of `pool_safety`: for instance `CloseReachesAll` holds when the list runs
empty because of `LoopCovers`, and nobody can register after that because the map
is nil.

**`OutboxProofs`** (`PoolAssumption`). `WireInvariant`: nothing is on a wire before a
goroutine has taken the message (`NothingEarly`), one goroutine at a time works on it
(`OneWorker`), and what it has written are the last `part[c]` places of its own wire
(`TailOfWire`). The last one is why parts stay together: a goroutine takes the next
message only when it is done with this one. `PlacesGrow` says what `SubmitPart` does to
the places of all messages; with it `PartsStayTogether` follows, and so does
`ImplementsOutbox`, the refinement: `BoxStep` gives each action on messages the action of
`Outbox` it is, and the count of places, which is `part[c]` while a message is
under way, tells `Emit` when the last part has left. All other actions stutter.

**`TransceiverProofs`** (`TimerAssumption`, `BoundAssumption`). `TransceiverTypes`, with
the addition that timers run only between their making and the end of the enquire-link
loop (`TimersMade`).

**`SmppServerProofs`** (`ServerAssumption`). `ServerInvariant` joins the type invariant and
`NoDeadClient`, `PendingExact` and `ReceiptToSubmitter` with what they need: where a
handler stands determines its id and its registration (`SessionInv`), a message that is
not submitted has left no trace (`FreshInv`), the message a handler submits is its own
(`SubmitInv`), and a receipt goroutine has looked up a session of the right id
(`ReceiptInv`). From it follow `ServerTypes`, `ClientsAlive`, `PendingIsExact` and
`ReceiptsGoHome`, for any number of clients that share ids, come back and leave.

**`LongSmsProofs`** (`LongSmsAssumption`). `SplitHolds`: for every length of text, both
codings and every `MaxParts` from 1 to 255 the parts follow one another without gap,
end where the text ends unless the limit cuts it, are never empty and fit a short
message with its header. The argument is one lemma on rounding up (`RoundUp`) and the
invariant that what is sent is a text. `LongInvariant`: the cache entry of a reference
is exactly what the parts handled since the last last-part of that reference have
left, the first of them giving its length and the later ones its slots. The other
theorems read that off: `CleanRunIsWhole`, and `PanicHasCause`, for an index is out of range
only if the entry was made by a shorter message. `NothingElseDropped` also follows the
parts of lost connections: when a connection ends, what is in its cache has had no last
part since (`EndsLost`), and what is said of its parts then stays true (`StaysLost`).

**`GatewayProofs`** (`HistoryAssumption`, `GatewayAssumption`: a jid is unique on one
server, as `sms/data.go:16` says, and may occur on several).
`NumbersOfJid` and `ThreadsStayWhole`: a message leaves from a number of a server that has
a user with its sender's jid, which is the sender's own server if nobody else has the
jid, and no such user has two numbers for one contact. Neither is inductive:
`GetFrom` trusts the history, so every entry must be for a number of a server with its
user's jid (`EntryOfMx`); and a message under way is recorded only later, so it must not
be able to give its user a second number then (`TaskKeepsNumber`), which holds because a
server handles one message at a time and nobody elsewhere has the user's jid.
`OldestIsTaken` and `AnswersGoBack`, both action properties, need that between choice
and record nobody else touches the entries of the server's numbers (`TaskFresh`,
`LastWriter`), hence their conditions on shared numbers and on users of other servers.
`AckedTaken` follows from what a session can be doing with an SMS (`SmsInv`), what is in its
cache (`CacheHolds`) and what it is joining (`Offering`). `NoSpuriousCopy` counts: copies
handed over, offered and in the cache of a live session together are at most one more
than the sessions lost with the SMS, and not even that while the SMSC may deliver it
again (`CopyInv`). `UsersOfHistory` and
`LostWhileOffline` rest on the order in which a supervisor sets its fields
(`LinkFields`) and on users writing only through a session that is reading.

`GatewayTypes`, the type invariant, adds the counters (`BudgetInv`, `LossInv`, `RecordInv`)
and the SMS the receiver holds (`RecvInv`).

**`PduProofs`** (no assumption). `RoundTrip`: a PDU that fits its layout (`Fits`: C strings
without a zero, a text of at most 255 bytes, tags and lengths of two bytes) is parsed
back from what its writer makes of it, with any values in its fields and any set of
optional fields. The parsers loop over fields and bytes, so this is an induction over
data. The library states induction with an operator for a parameter, which the provers
cannot instantiate; `UpTo` states it with a set, from the well-foundedness of `<`. On it
rest what `FlattenSeq` returns (`FlattenAt`: every string at a place of its own), that
fields and optional fields that stand one after the other are read one after the other
(`FieldsRead`, `TlvsRead`), and that no header is mistaken for another's (`Commands`).

**`WireProofs`** (`WireAssumption`). The PDUs fit their layout and the reader's limit, and the
texts are made of Unicode scalar values; that is what `Sendable` and `IsText` say, and
nothing else is assumed of PDUs, texts, their number, or where the stream is cut.
`Framing` is the inductive invariant, `Inv` until a GENERIC_NACK was made up and `Lost` after
it, of which nothing more is said than that it was. `Inv` says: between
two PDUs the stream is exactly the frames of the PDUs that are not yet read (`Framed`).
In a PDU the reader has its length, whole (`Whole`) or all but a last byte that counts as
zero (`ButOne`): these are the only cuts of the length after which it goes on. In the
second case the command number the parser sees begins with the last byte of the length;
unless the length is a multiple of 256 plus 128 that is no command (`NotOne`), and if it
is one the command is GENERIC_NACK. `ReadBack`, `AllRead` and `ClosedByCut` follow, each a statement on the
state `Framing` describes.

`CodedBack` adds the texts. `GsmReadBack`: a text in coding 0 comes back if and only if
all its characters take one byte and none is read as another; one that takes two makes
what is read longer than the text. `Ucs2ReadBack`: behind every character the UTF-16
decoder waits for nothing (`Between`), whether the character took a unit (`UnitRead`) or a
pair (`Halves`, `PairRead`). `TextSent`: the coding and the bytes survive both PDUs, and
`TextInv` ties every text to the PDU of its place. `EncodeUcs2` and `DecodeUcs2` stand for the
library golang.org/x/text, so what is proved of them is proved of the model of it.

Only model-checked: every liveness property, since fairness and `ENABLED` are beyond the
prover, and `TwiceOnlyIfCut`, which counts places in a growing list of texts.

## 6. What is not modelled, and why

- *Main loop*: connect, wait for a signal, close, and for a reload start again. Each
  round is what the other modules model, and a second one cannot happen: the log of
  `main.go:74` is nil, its `Connect` in `main.go:61-64` being a comment, so the process
  ends there after a reload as after a stop. Two configurations never meet.
- *`MXClose`* runs just before that line, and nothing after it matters.
- *Windows-1252 in `Encode`*: `Send` asks for codings 0 and 8 only.
- *Zabbix, SQL log, configuration parsing, number parsing, message templates*: no
  state, or pure text.
- *csta_old*, the MX client library, is not in the repository; `Gateway` models it as
  `mx.go` uses it.
- *`sendMessage` of `sms/smpp_server.go`*, called once from an example.
- *Server handlers that only answer* (ENQUIRE_LINK, UNBIND, DELIVER_SM_RESP, unknown
  PDUs): they change nothing another step reads.
- *QUERY_SM_RESP*: the program never sends QUERY_SM to get one.
- *Sequence numbers beyond 2^31*: `NewSeqNum` (`smpp/smpp.go:74`) is a plain counter; the
  wrap-around is listed as a hazard.
- *Receipts whose text does not match `reStatus`* (`sms/tranceiver.go:212`): a hazard of
  the SMSC's wording, which the models keep abstract.
- *Numbers shared by several MX servers*: allowed by `Gateway` and in its proofs;
  two servers then choose and record side by side, and the order of records may
  differ from the order of sending, so "oldest first" and "last writer" are not
  what the code does for them.
- *Delivery receipts and SUBMIT_SM_RESP in `reading`*: passed on and only logged.

## 7. Plan

Done: pool, transceiver, server, gateway with its SMPP sessions, codec, framing and text
coding, long SMS; the proofs of section 5, the refinement of `Outbox` among them.

The codec's proof, an induction over data, is done (`RoundTrip`).

Left, in order: the gateway over the pool itself, with `Receive` as the channel both
share, so that `Stall` becomes the receiver's own step; the second half of a
text's way in `LongSms` with the user at its end, to state how often he sees it.

## 8. Running

    tlc -workers 2 -config SmppPool_safety.cfg MCSmppPool
    tlapm SmppPoolProofs.tla

The module of each run is named in `PROJECT.json`. The longest runs are `longsms`,
`pool_live` and `gateway_safety`, about two minutes each with two workers.
