------------------------------ MODULE BodyRead ------------------------------
(***************************************************************************)
(* How fetch_weather fills its buffer: the two read loops of weather.c     *)
(* over webclient_read (webclient.c), for a response                       *)
(*   length   with a Content-Length,                                       *)
(*   chunked  with Transfer-Encoding: chunked,                             *)
(*   close    with neither: the server closes the connection.              *)
(*                                                                         *)
(* The body is the numbers 1 .. sent; a cell of the buffer holds the       *)
(* number of the byte last stored there, 0 is the NUL rt_calloc left.  The *)
(* network delivers the bytes in order, in pieces of any size; a receive   *)
(* may time out (the server stalls) or find the connection closed.         *)
(***************************************************************************)
EXTENDS Integers

CONSTANTS
    BufSz,   \* GET_RESP_BUFSZ, 4096
    MaxBody  \* bound on the length of a body

ASSUME SizeAssumption == BufSz \in Nat \ {0} /\ MaxBody \in Nat \ {0}

VARIABLES
    mode,         \* how the response is delimited
    declared,     \* session->content_length: -1 without the header
    sent,         \* the bytes of the body the server sends before it closes
    received,     \* those that webclient_recv has delivered
    chunk_left,   \* chunk_sz - chunk_offset
    ended,        \* chunk_sz = -1: the last chunk was read
    socket,       \* the socket is open
    buffer,       \* the buffer of fetch_weather
    content_pos,  \* fetch_weather's local
    total_read,   \* webclient_read's locals
    left,
    pc            \* "loop": in fetch_weather, "recv": in webclient_read

\* History variables.
VARIABLES
    reads,        \* calls of webclient_read that returned data
    stalled       \* a receive timed out

response == <<mode, declared, sent>>
session  == <<chunk_left, ended, socket>>
vars     == <<response, received, session, buffer, content_pos, total_read,
              left, pc, reads, stalled>>

Least(m, n) == IF m <= n THEN m ELSE n

\* webclient_handle_response has read the header and, of a chunked body, the
\* size of the first chunk; the buffer is filled with b.
InitFilled(b) ==
    /\ mode \in {"length", "chunked", "close"}
    /\ sent \in (IF mode = "chunked" THEN 1 ELSE 0) .. MaxBody
    /\ declared \in IF mode = "length" THEN sent .. MaxBody ELSE {-1}
    /\ chunk_left \in IF mode = "chunked" THEN 1 .. MaxBody ELSE {0}
    /\ received = 0
    /\ ended = FALSE /\ socket = TRUE
    /\ buffer = [k \in 1 .. BufSz |-> b]
    /\ content_pos = 0 /\ total_read = 0 /\ left = 0
    /\ pc = "loop"
    /\ reads = 0 /\ stalled = FALSE

\* A buffer that is not cleared.
InitMalloc == InitFilled(MaxBody)

\* rt_calloc fills it with NULs.
Init == InitFilled(0)

-----------------------------------------------------------------------------
\* The length fetch_weather asks for, clipped by webclient_read to what is left
\* of the chunk (what is left of the Content-Length is never less).
Clipped(n) == IF mode = "chunked" THEN Least(n, chunk_left) ELSE n

CallFor(n) ==
    /\ pc = "loop"
    /\ IF ended \/ ~socket \/ n = 0
       THEN pc' = "parse" /\ UNCHANGED <<left, total_read>>
       ELSE pc' = "recv" /\ left' = Clipped(n) /\ total_read' = 0
    /\ UNCHANGED <<response, received, session, buffer, content_pos, reads,
                   stalled>>

\* A call that asks for the rest of the body, however long.
CallUnclipped == CallFor(IF declared < 0 THEN BufSz ELSE declared - content_pos)

\* One turn of fetch_weather's loop calls webclient_read, always with the start
\* of the buffer.  A result of 0 or less ends the loop.
Call == CallFor(IF declared < 0 THEN BufSz ELSE Least(BufSz, declared - content_pos))

\* webclient_read returns n > 0 bytes: the loop goes on, in length mode while
\* content_pos < content_length.
ReturnData(n) ==
    /\ reads' = reads + 1
    /\ IF mode = "length"
       THEN /\ content_pos' = content_pos + n
            /\ pc' = IF content_pos + n < declared THEN "loop" ELSE "parse"
       ELSE pc' = "loop" /\ UNCHANGED content_pos

\* webclient_next_chunk: the size of another chunk (the server may close before
\* it has sent all of it), the chunk of size 0, or no line at all.
NextChunk ==
    \/ received' < sent /\ chunk_left' \in 1 .. MaxBody /\ UNCHANGED <<ended, socket>>
    \/ received' = sent /\ chunk_left' = 0 /\ ended' = TRUE /\ socket' = FALSE
    \/ chunk_left' = 0 /\ socket' = FALSE /\ UNCHANGED ended

\* webclient_recv delivers n bytes, stored from the given offset.  In chunked
\* mode webclient_read returns them; otherwise it goes on until it has all it
\* was asked for.
RecvAt(offset, rest, returns) ==
    /\ pc = "recv"
    /\ \E n \in 1 .. Least(left, sent - received) :
          /\ received' = received + n
          /\ buffer' = [k \in 1 .. BufSz |->
                IF k \in offset + 1 .. offset + n THEN received + k - offset
                ELSE buffer[k]]
          /\ total_read' = total_read + n
          /\ left' = IF rest THEN left - n ELSE left
          /\ IF mode = "chunked"
             THEN IF n = chunk_left THEN NextChunk
                  ELSE chunk_left' = chunk_left - n /\ UNCHANGED <<ended, socket>>
             ELSE UNCHANGED session
          /\ IF mode = "chunked" \/ left' = 0 \/ returns
             THEN ReturnData(total_read')
             ELSE UNCHANGED <<pc, content_pos, reads>>
    /\ UNCHANGED <<response, stalled>>

\* Bytes stored at the start of the buffer, a count of bytes left that is not
\* kept, and a return after the first piece.
RecvAtStart     == RecvAt(0, TRUE, FALSE)
RecvKeepsLeft   == RecvAt(total_read, FALSE, FALSE)
RecvReturnsSoon == RecvAt(total_read, TRUE, TRUE)

Recv == RecvAt(total_read, TRUE, FALSE)

\* A receive that fails and is tried again.
FailRetries ==
    /\ pc = "recv"
    /\ UNCHANGED vars

\* webclient_recv fails: it timed out, or the server has sent everything and
\* closed.  What was read before is returned; with nothing read the result is
\* 0 or less, and a closed socket is closed on this side too.
RecvFails ==
    /\ pc = "recv"
    /\ \/ received < sent /\ stalled' = TRUE /\ UNCHANGED socket
       \/ /\ received = sent
          /\ UNCHANGED stalled
          /\ IF total_read = 0 THEN socket' \in {FALSE, socket} ELSE UNCHANGED socket
    /\ IF total_read > 0
       THEN ReturnData(total_read)
       ELSE pc' = "parse" /\ UNCHANGED <<content_pos, reads>>
    /\ UNCHANGED <<response, received, chunk_left, ended, buffer, total_read, left>>

\* At "parse" nothing is read any more: the model ends there.
Next == Call \/ Recv \/ RecvFails

Spec == Init /\ [][Next]_vars /\ WF_vars(Next)

-----------------------------------------------------------------------------
(* Properties.                                                             *)

\* Every variable has its type; a receive never asks for more than the buffer.
TypeOK ==
    /\ mode \in {"length", "chunked", "close"}
    /\ declared \in -1 .. MaxBody
    /\ sent \in 0 .. MaxBody
    /\ received \in 0 .. sent
    /\ chunk_left \in 0 .. MaxBody
    /\ ended \in BOOLEAN /\ socket \in BOOLEAN /\ stalled \in BOOLEAN
    /\ buffer \in [1 .. BufSz -> 0 .. MaxBody]
    /\ content_pos \in 0 .. MaxBody
    /\ total_read \in 0 .. BufSz
    /\ left \in 0 .. BufSz
    /\ pc \in {"loop", "recv", "parse"}
    /\ reads \in 0 .. MaxBody

\* Every receive stores inside the buffer, whatever length is announced, in
\* whatever pieces the body comes.
InBounds == pc = "recv" => total_read + left <= BufSz

\* The first n bytes of the body, and NULs after them.
Holds(n) == \A k \in 1 .. BufSz : buffer[k] = IF k <= n THEN k ELSE 0

\* When a single webclient_read returned data, the parser finds exactly the
\* bytes received, in order, and NULs after them.
OneReadFaithful == pc = "parse" /\ reads <= 1 => Holds(received)

\* A body announced by a Content-Length that fits is parsed as the server sent
\* it, in whatever pieces it came, if the server never stalled for 6 s.
AnnouncedBodyStored ==
    pc = "parse" /\ mode = "length" /\ declared <= BufSz /\ ~stalled => Holds(sent)

\* cJSON_Parse reads the buffer as a string: it finds a NUL there, however many
\* reads the body came in, unless it has as many bytes as the buffer.
Terminated == pc = "parse" /\ received < BufSz => \E k \in 1 .. BufSz : buffer[k] = 0

\* The loops end, whatever the server sends and wherever it stops.
LoopsEnd == <>(pc = "parse")

\* weather.c: the buffer holds the received data.  Every body that arrived and
\* fits is there as it was sent.
ReceivedDataStored ==
    pc = "parse" /\ received = sent /\ sent < BufSz => Holds(sent)

-----------------------------------------------------------------------------
(* The strengthening that makes the invariants inductive.                  *)

\* What the kinds of response differ in.
ModeInv ==
    /\ mode = "length" => declared \in sent .. MaxBody /\ ~ended
    /\ mode = "length" /\ pc # "parse" => socket
    /\ mode # "length" => declared = -1 /\ content_pos = 0
    /\ mode = "chunked" /\ socket => chunk_left > 0

\* How far a receive can get.
ReachInv ==
    /\ total_read <= received
    /\ mode = "length" => content_pos <= declared
    /\ pc = "recv" =>
          /\ left > 0 /\ total_read + left <= BufSz
          /\ mode = "length" => content_pos + total_read + left <= declared
          /\ mode = "chunked" => socket /\ left <= chunk_left /\ total_read = 0
          /\ reads < received \/ total_read = 0
    /\ reads <= received

\* Behind what was received there are NULs.
TailInv == \A k \in 1 .. BufSz : k > received => buffer[k] = 0

\* The first read stores the body.
FirstReadInv ==
    /\ reads = 0 => received = IF pc = "recv" THEN total_read ELSE 0
    /\ reads = 0 \/ (reads = 1 /\ (pc = "recv" => total_read = 0)) => Holds(received)

\* A body that fits and does not stall is stored by the first read, and there is
\* nothing left for a second.
AnnouncedInv ==
    mode = "length" /\ declared <= BufSz /\ ~stalled =>
        /\ Holds(received)
        /\ pc = "parse" => received = sent
        /\ pc = "loop" => received = sent \/ (received = 0 /\ content_pos = 0)
        /\ pc = "recv" => \/ received = sent
                         \/ /\ total_read = received /\ content_pos = 0
                            /\ left = declared - received

IInv == TypeOK /\ ModeInv /\ ReachInv /\ TailInv /\ FirstReadInv /\ AnnouncedInv
=============================================================================
