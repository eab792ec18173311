------------------------------ MODULE WsWriter ------------------------------
(***************************************************************************)
(* The write path of one connection: Websocket::send and on_write          *)
(* (src/src/websocket.h).                                                  *)
(*                                                                         *)
(* send() appends the request to w_buffer_ and starts an async_write of    *)
(* the whole buffer; on_write() consumes as many bytes as that write       *)
(* transferred.  Nothing waits for a write in progress: a request sent     *)
(* before the previous on_write starts a second async_write, whose data    *)
(* still include the previous request.  The second write refers to memory  *)
(* of w_buffer_ that the first on_write may have consumed meanwhile, so    *)
(* what its frame holds is anybody's guess.                                *)
(*                                                                         *)
(* Beast allows one async_write at a time and promises nothing for more.   *)
(* The model ASSUMES the mildest outcome: overlapping writes are served in *)
(* the order of the calls, and on_write of one comes before the frame of   *)
(* the next.  What it shows to go wrong goes wrong even then; what holds   *)
(* of overlapping writes (BufferDrained, IntactWhenAlone) holds under this *)
(* assumption only.                                                        *)
(*                                                                         *)
(* A request is a number, in the order of the calls, and one unit long.    *)
(***************************************************************************)
EXTENDS Naturals, Sequences

CONSTANT MaxSends  \* bound: requests

ASSUME WriterAssumption == MaxSends \in Nat

VARIABLES
    w_buffer,  \* w_buffer_: the requests not consumed yet
    writes,    \* outstanding async_writes, oldest first: the data of each
    written,   \* the frame of the oldest write is out, its on_write still due
    sent,      \* calls of send()
    wire,      \* frames sent to the remote server
    up,        \* the stream still carries frames
    alone      \* history: requests sent when no write was outstanding

vars == <<w_buffer, writes, written, sent, wire, up, alone>>

Request == Nat \ {0}
Garbled == <<0>>      \* a frame with bytes that belong to no request

TypeOK ==
    /\ w_buffer \in Seq(Request)
    /\ writes \in Seq(Seq(Request))
    /\ written \in BOOLEAN /\ up \in BOOLEAN
    /\ sent \in Nat
    /\ wire \in Seq(Seq(Nat))
    /\ alone \subseteq Request

Init ==
    /\ w_buffer = <<>> /\ writes = <<>> /\ written = FALSE
    /\ sent = 0 /\ wire = <<>> /\ up = TRUE /\ alone = {}

-----------------------------------------------------------------------------
\* A definition whose comment starts with "Mutant" is a plausible bug in the
\* one after it: no specification uses it.

\* Mutant of prepared: the request overwrites what is still being written.
preparedInPlace(m) == IF w_buffer = <<>> THEN <<m>> ELSE [w_buffer EXCEPT ![1] = m]

\* Mutant of prepared: commit without buffer_copy.
preparedUninitialised(m) == Append(w_buffer, 0)

\* w_buffer_.prepare, buffer_copy and commit.
prepared(m) == Append(w_buffer, m)

\* buffer_copy, commit and async_write(w_buffer_.data()); the connection may be
\* on its way down already, which send() does not ask.
send ==
    /\ sent < MaxSends
    /\ sent' = sent + 1
    /\ w_buffer' = prepared(sent')
    /\ writes' = Append(writes, w_buffer')
    /\ alone' = IF writes = <<>> THEN alone \cup {sent'} ELSE alone
    /\ UNCHANGED <<written, wire, up>>

\* data is what the buffer still starts with.
Intact(data) == Len(data) <= Len(w_buffer) /\ SubSeq(w_buffer, 1, Len(data)) = data

\* What the frame of an async_write of data may hold: the data, unless some of
\* it was consumed since; then the old bytes, those in the buffer, or neither.
Frames(data) == IF Intact(data) THEN {data} ELSE {data, w_buffer, Garbled}

\* Beast writes the frame of the oldest outstanding write: an assumption when
\* there are several.
async_write ==
    /\ up /\ writes # <<>> /\ ~written
    /\ \E frame \in Frames(Head(writes)) : wire' = Append(wire, frame)
    /\ written' = TRUE
    /\ UNCHANGED <<w_buffer, writes, sent, up, alone>>

\* Mutant of consume: one byte is left behind.
consumeShort(n) == SubSeq(w_buffer, n, Len(w_buffer))

\* multi_buffer::consume(n): at most what is there.
consume(n) == SubSeq(w_buffer, n + 1, Len(w_buffer))

\* on_write without an error.
on_write ==
    /\ written
    /\ w_buffer' = consume(Len(Head(writes)))
    /\ writes' = Tail(writes)
    /\ written' = FALSE
    /\ UNCHANGED <<sent, wire, up, alone>>

\* on_write with an error: nothing is consumed.  (fail() and close() are
\* actions of WebsocketProxy.)
on_write_error ==
    /\ ~up /\ writes # <<>> /\ ~written
    /\ writes' = Tail(writes)
    /\ UNCHANGED <<w_buffer, written, sent, wire, up, alone>>

\* The connection fails, or a close frame is sent: no further frame goes out.
Break ==
    /\ up
    /\ up' = FALSE
    /\ UNCHANGED <<w_buffer, writes, written, sent, wire, alone>>

Next == send \/ async_write \/ on_write \/ on_write_error \/ Break

Spec == Init /\ [][Next]_vars

-----------------------------------------------------------------------------
\* Whatever overlapped, once the last write is done the buffer is empty: no
\* left-over of a burst of requests ends up in the frame of a later one.
BufferDrained == up /\ writes = <<>> => w_buffer = <<>>

\* A request sent when no write was outstanding gets a frame of its own, even
\* if others are sent before its on_write.
IntactWhenAlone == \A i \in DOMAIN wire : i \in alone => wire[i] = <<i>>

\* The frames before the first request that was sent too early.
Undisturbed == {i \in DOMAIN wire : 1..i \subseteq alone}
PassedOn == [i \in Undisturbed |-> wire[i]]

\* Until a request is sent before its predecessor is written, send() and
\* on_write() implement PassThrough, through any break of the connection.
Pass == INSTANCE PassThrough WITH wire <- PassedOn
PassesThrough == Pass!Spec

\* "Transparent message pass-through works with any WebSocket API"
\* (README.md:14): every request arrives whole, once and in order.
Transparent == \A i \in DOMAIN wire : wire[i] = <<i>>
=============================================================================
