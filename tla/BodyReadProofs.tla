--------------------------- MODULE BodyReadProofs ---------------------------
(* Proofs about BodyRead, for every size of the buffer and every body.      *)
EXTENDS BodyRead, TLAPS

LEMMA LeastIs ==
  ASSUME NEW m \in Int, NEW n \in Int
  PROVE  Least(m, n) \in Int /\ Least(m, n) <= m /\ Least(m, n) <= n
         /\ (Least(m, n) = m \/ Least(m, n) = n)
BY DEF Least

\* After the header the inductive invariant holds.
LEMMA InitIInv == Init => IInv
<1> SUFFICES ASSUME Init PROVE IInv
  OBVIOUS
<1> USE SizeAssumption DEF Init, InitFilled
<1>1. TypeOK
  <2>1. /\ mode \in {"length", "chunked", "close"} /\ pc \in {"loop", "recv", "parse"}
        /\ ended \in BOOLEAN /\ socket \in BOOLEAN /\ stalled \in BOOLEAN
    OBVIOUS
  <2>2. sent \in 0 .. MaxBody /\ declared \in -1 .. MaxBody /\ chunk_left \in 0 .. MaxBody
    OBVIOUS
  <2>3. buffer \in [1 .. BufSz -> 0 .. MaxBody]
    OBVIOUS
  <2> QED
    BY <2>1, <2>2, <2>3 DEF TypeOK
<1>2. ModeInv /\ ReachInv
  BY DEF ModeInv, ReachInv
<1>3. TailInv /\ FirstReadInv /\ AnnouncedInv
  BY DEF TailInv, FirstReadInv, AnnouncedInv, Holds
<1> QED
  BY <1>1, <1>2, <1>3 DEF IInv

\* A call of webclient_read asks for a byte at least, and for no more than the
\* buffer, the announced length and the chunk have left.
LEMMA CallAsks ==
  ASSUME IInv, Call, pc' = "recv"
  PROVE  /\ left' \in 1 .. BufSz /\ total_read' = 0 /\ socket
         /\ mode = "length" => content_pos + left' <= declared
         /\ mode = "length" /\ declared <= BufSz => left' = declared - content_pos
         /\ mode = "chunked" => left' <= chunk_left
<1> USE SizeAssumption DEF IInv, TypeOK, ModeInv, ReachInv
<1>1. socket /\ total_read' = 0
  BY DEF Call, CallFor
<1>2. CASE mode = "length"
  BY <1>1, <1>2 DEF Call, CallFor, Clipped, Least
<1>3. CASE mode # "length"
  BY <1>1, <1>3 DEF Call, CallFor, Clipped, Least
<1> QED
  BY <1>1, <1>2, <1>3

LEMMA CallKeeps == ASSUME IInv, Call PROVE IInv'
<1> USE SizeAssumption
<1>1. /\ pc = "loop" /\ pc' \in {"recv", "parse"}
      /\ UNCHANGED <<mode, declared, sent, received, chunk_left, ended, socket, buffer,
                     content_pos, reads, stalled>>
  BY DEF Call, CallFor, response, session
<1>2. CASE pc' = "recv"
  <2>1. TypeOK' /\ ModeInv'
    BY <1>1, <1>2, CallAsks DEF IInv, TypeOK, ModeInv
  <2>2. ReachInv'
    BY <1>1, <1>2, CallAsks DEF IInv, TypeOK, ModeInv, ReachInv
  <2>3. TailInv' /\ FirstReadInv'
    BY <1>1, <1>2, CallAsks DEF IInv, TypeOK, TailInv, FirstReadInv, Holds
  <2>4. AnnouncedInv'
    BY <1>1, <1>2, CallAsks DEF IInv, TypeOK, ModeInv, AnnouncedInv, Holds
  <2> QED
    BY <2>1, <2>2, <2>3, <2>4 DEF IInv
<1>3. CASE pc' = "parse"
  <2>1. left' = left /\ total_read' = total_read
    BY <1>1, <1>3 DEF Call, CallFor
  <2>2. mode = "length" => declared = content_pos
    BY <1>1, <1>3 DEF Call, CallFor, Least, IInv, TypeOK, ModeInv, ReachInv
  <2>3. TypeOK' /\ ModeInv' /\ ReachInv'
    BY <1>1, <1>3, <2>1 DEF IInv, TypeOK, ModeInv, ReachInv
  <2>4. TailInv' /\ FirstReadInv'
    BY <1>1, <1>3, <2>1 DEF IInv, TypeOK, TailInv, FirstReadInv, Holds
  <2>5. AnnouncedInv'
    BY <1>1, <1>3, <2>1, <2>2 DEF IInv, TypeOK, ModeInv, AnnouncedInv, Holds
  <2> QED
    BY <2>3, <2>4, <2>5 DEF IInv
<1> QED
  BY <1>1, <1>2, <1>3

\* What a receive of n bytes does; it returns from webclient_read or goes on.
Received(n) ==
    /\ pc = "recv"
    /\ n <= left /\ n <= sent - received
    /\ received' = received + n
    /\ buffer' = [k \in 1 .. BufSz |->
          IF k \in total_read + 1 .. total_read + n THEN received + k - total_read
          ELSE buffer[k]]
    /\ total_read' = total_read + n
    /\ left' = left - n
    /\ UNCHANGED <<mode, declared, sent, stalled>>

LEMMA RecvDoes ==
  ASSUME IInv, Recv
  PROVE  \E n \in 1 .. BufSz :
            /\ Received(n)
            /\ \/ /\ mode = "chunked"
                  /\ \/ n < chunk_left /\ chunk_left' = chunk_left - n
                                       /\ ended' = ended /\ socket' = socket
                     \/ /\ chunk_left' \in 0 .. MaxBody /\ ended' \in BOOLEAN
                        /\ socket' \in BOOLEAN /\ (socket' => chunk_left' > 0)
               \/ mode # "chunked" /\ UNCHANGED session
            /\ \/ ReturnData(total_read') /\ (mode = "chunked" \/ left' = 0)
               \/ mode # "chunked" /\ left' # 0 /\ UNCHANGED <<pc, content_pos, reads>>
<1> USE SizeAssumption
<1>1. PICK n \in 1 .. Least(left, sent - received) :
        /\ received' = received + n
        /\ buffer' = [k \in 1 .. BufSz |->
              IF k \in total_read + 1 .. total_read + n THEN received + k - total_read
              ELSE buffer[k]]
        /\ total_read' = total_read + n
        /\ left' = left - n
        /\ IF mode = "chunked"
           THEN IF n = chunk_left THEN NextChunk
                ELSE chunk_left' = chunk_left - n /\ UNCHANGED <<ended, socket>>
           ELSE UNCHANGED session
        /\ IF mode = "chunked" \/ left' = 0
           THEN ReturnData(total_read')
           ELSE UNCHANGED <<pc, content_pos, reads>>
  BY DEF Recv, RecvAt
<1>2. pc = "recv" /\ UNCHANGED <<mode, declared, sent, stalled>>
  BY DEF Recv, RecvAt, response
<1>3. n \in 1 .. BufSz /\ n <= left /\ n <= sent - received
  <2>1. left \in 0 .. BufSz /\ left \in Int /\ sent - received \in Int
    BY DEF IInv, TypeOK
  <2>2. /\ Least(left, sent - received) \in Int
        /\ Least(left, sent - received) <= left
        /\ Least(left, sent - received) <= sent - received
    BY <2>1, LeastIs
  <2> QED
    BY <2>1, <2>2
<1>4. Received(n)
  BY <1>1, <1>2, <1>3 DEF Received
<1>5. \/ /\ mode = "chunked"
         /\ \/ n < chunk_left /\ chunk_left' = chunk_left - n
                              /\ ended' = ended /\ socket' = socket
            \/ /\ chunk_left' \in 0 .. MaxBody /\ ended' \in BOOLEAN
               /\ socket' \in BOOLEAN /\ (socket' => chunk_left' > 0)
      \/ mode # "chunked" /\ UNCHANGED session
  <2>1. CASE mode = "chunked" /\ n = chunk_left
    <3>1. NextChunk
      BY <1>1, <2>1
    <3>2. chunk_left' \in 0 .. MaxBody
      BY <3>1 DEF NextChunk
    <3>3. ended' \in BOOLEAN /\ socket' \in BOOLEAN
      BY <3>1 DEF NextChunk, IInv, TypeOK
    <3>4. socket' => chunk_left' > 0
      BY <3>1 DEF NextChunk
    <3> QED
      BY <2>1, <3>2, <3>3, <3>4
  <2>2. CASE mode = "chunked" /\ n # chunk_left
    <3>1. n < chunk_left
      BY <1>2, <1>3, <2>2 DEF IInv, TypeOK, ReachInv
    <3> QED
      BY <1>1, <2>2, <3>1
  <2>3. CASE mode # "chunked"
    BY <1>1, <2>3
  <2> QED
    BY <2>1, <2>2, <2>3
<1>6. \/ ReturnData(total_read') /\ (mode = "chunked" \/ left' = 0)
      \/ mode # "chunked" /\ left' # 0 /\ UNCHANGED <<pc, content_pos, reads>>
  BY <1>1
<1> QED
  BY <1>3, <1>4, <1>5, <1>6

\* Whether or not a receive returns from webclient_read.
LEMMA ReturnDoes ==
  ASSUME IInv, NEW n \in 1 .. BufSz, Received(n),
         \/ ReturnData(total_read') /\ (mode = "chunked" \/ left' = 0)
         \/ mode # "chunked" /\ left' # 0 /\ UNCHANGED <<pc, content_pos, reads>>
  PROVE  \/ /\ mode = "length" /\ pc' \in {"loop", "parse"} /\ left' = 0
            /\ content_pos' = content_pos + total_read'
            /\ pc' = "loop" => content_pos' < declared
            /\ pc' = "parse" => content_pos' >= declared
            /\ reads' = reads + 1
         \/ /\ mode # "length" /\ pc' = "loop"
            /\ content_pos' = content_pos /\ reads' = reads + 1
         \/ /\ mode # "chunked" /\ left' > 0 /\ pc' = "recv"
            /\ content_pos' = content_pos /\ reads' = reads
<1> USE DEF IInv, TypeOK, Received
<1>1. CASE ReturnData(total_read') /\ (mode = "chunked" \/ left' = 0)
  <2>1. CASE mode = "length"
    BY <1>1, <2>1 DEF ReturnData
  <2>2. CASE mode # "length"
    BY <1>1, <2>2 DEF ReturnData
  <2> QED
    BY <2>1, <2>2
<1>2. CASE mode # "chunked" /\ left' # 0 /\ UNCHANGED <<pc, content_pos, reads>>
  BY <1>2
<1> QED
  BY <1>1, <1>2

LEMMA RecvKeeps == ASSUME IInv, Recv PROVE IInv'
<1> USE SizeAssumption
<1>1. PICK n \in 1 .. BufSz :
        /\ Received(n)
        /\ \/ /\ mode = "chunked"
              /\ \/ n < chunk_left /\ chunk_left' = chunk_left - n
                                   /\ ended' = ended /\ socket' = socket
                 \/ /\ chunk_left' \in 0 .. MaxBody /\ ended' \in BOOLEAN
                    /\ socket' \in BOOLEAN /\ (socket' => chunk_left' > 0)
           \/ mode # "chunked" /\ UNCHANGED session
        /\ \/ ReturnData(total_read') /\ (mode = "chunked" \/ left' = 0)
           \/ mode # "chunked" /\ left' # 0 /\ UNCHANGED <<pc, content_pos, reads>>
  BY RecvDoes
<1>2. /\ pc = "recv" /\ n <= left /\ n <= sent - received
      /\ received' = received + n /\ total_read' = total_read + n /\ left' = left - n
      /\ UNCHANGED <<mode, declared, sent, stalled>>
  BY <1>1 DEF Received
<1>3. \/ /\ mode = "length" /\ pc' \in {"loop", "parse"} /\ left' = 0
         /\ content_pos' = content_pos + total_read'
         /\ pc' = "loop" => content_pos' < declared
         /\ pc' = "parse" => content_pos' >= declared
         /\ reads' = reads + 1
      \/ /\ mode # "length" /\ pc' = "loop"
         /\ content_pos' = content_pos /\ reads' = reads + 1
      \/ /\ mode # "chunked" /\ left' > 0 /\ pc' = "recv"
         /\ content_pos' = content_pos /\ reads' = reads
  BY <1>1, ReturnDoes
<1>4. \A k \in 1 .. BufSz :
        /\ k > total_read /\ k <= total_read + n => buffer'[k] = received + k - total_read
        /\ k <= total_read \/ k > total_read + n => buffer'[k] = buffer[k]
  BY <1>1 DEF Received, IInv, TypeOK
<1>5. buffer' \in [1 .. BufSz -> 0 .. MaxBody]
  BY <1>1 DEF Received, IInv, TypeOK
<1>6. /\ chunk_left' \in 0 .. MaxBody /\ ended' \in BOOLEAN /\ socket' \in BOOLEAN
      /\ mode # "chunked" => ended' = ended /\ socket' = socket
      /\ mode = "chunked" /\ socket' => chunk_left' > 0
  <2>1. CASE mode = "chunked" /\ n < chunk_left /\ chunk_left' = chunk_left - n
               /\ ended' = ended /\ socket' = socket
    <3>1. chunk_left' \in 0 .. MaxBody /\ chunk_left' > 0
      BY <2>1 DEF IInv, TypeOK
    <3> QED
      BY <2>1, <3>1 DEF IInv, TypeOK
  <2>2. CASE mode # "chunked" /\ UNCHANGED session
    BY <2>2 DEF IInv, TypeOK, session
  <2> QED
    BY <1>1, <2>1, <2>2
<1>7. /\ reads' \in 0 .. MaxBody /\ reads' <= received' /\ received' \in 0 .. sent
      /\ total_read' <= received' /\ total_read' + left' <= BufSz
      /\ (pc' = "recv" => reads' < received')
  BY <1>2, <1>3 DEF IInv, TypeOK, ReachInv
<1>8. content_pos' \in 0 .. MaxBody /\ (mode = "length" => content_pos' <= declared)
  BY <1>2, <1>3 DEF IInv, TypeOK, ModeInv, ReachInv
<1>9. TypeOK'
  <2>1. total_read' \in 0 .. BufSz /\ left' \in 0 .. BufSz /\ pc' \in {"loop", "recv", "parse"}
    BY <1>2, <1>3, <1>7 DEF IInv, TypeOK
  <2>2. /\ mode' \in {"length", "chunked", "close"} /\ declared' \in -1 .. MaxBody
        /\ sent' \in 0 .. MaxBody /\ stalled' \in BOOLEAN /\ received' \in 0 .. sent'
    BY <1>2, <1>7 DEF IInv, TypeOK
  <2> QED
    BY <1>5, <1>6, <1>7, <1>8, <2>1, <2>2 DEF TypeOK
<1>10. ModeInv'
  BY <1>2, <1>3, <1>6 DEF IInv, TypeOK, ModeInv
<1>11. ReachInv'
  <2>1. pc' = "recv" => left' > 0 /\ mode # "chunked" /\ content_pos' = content_pos
    BY <1>3
  <2>2. mode = "length" /\ pc' = "recv" => content_pos' + total_read' + left' <= declared
    BY <1>2, <2>1 DEF IInv, TypeOK, ReachInv
  <2> QED
    BY <1>2, <1>7, <1>8, <2>1, <2>2 DEF ReachInv
<1>12. TailInv'
  BY <1>2, <1>4 DEF IInv, TypeOK, ReachInv, TailInv
\* A receive that goes on where the last one stopped.
<1>13. Holds(received) /\ total_read = received => Holds(received)'
  BY <1>2, <1>4 DEF IInv, TypeOK, Holds
<1>14. FirstReadInv'
  <2>1. reads = 0 => received = total_read /\ Holds(received)
    BY <1>2 DEF IInv, FirstReadInv
  <2>2. reads' = 0 => reads = 0 /\ pc' = "recv"
    BY <1>2, <1>3 DEF IInv, TypeOK
  <2>3. reads' = 1 /\ (pc' = "recv" => total_read' = 0) => reads = 0
    BY <1>2, <1>3 DEF IInv, TypeOK
  <2>4. reads = 0 => received' = total_read'
    BY <1>2, <2>1
  <2> QED
    BY <1>13, <2>1, <2>2, <2>3, <2>4 DEF FirstReadInv
<1>15. AnnouncedInv'
  <2> SUFFICES ASSUME mode = "length", declared <= BufSz, ~stalled
               PROVE  /\ Holds(received)'
                      /\ pc' = "parse" => received' = sent
                      /\ pc' = "loop" => received' = sent \/ (received' = 0 /\ content_pos' = 0)
                      /\ pc' = "recv" => \/ received' = sent
                                         \/ /\ total_read' = received' /\ content_pos' = 0
                                            /\ left' = declared - received'
    BY <1>2 DEF AnnouncedInv
  <2>1. /\ Holds(received) /\ total_read = received /\ content_pos = 0
        /\ left = declared - received
    BY <1>2 DEF IInv, TypeOK, AnnouncedInv
  <2>2. Holds(received)'
    BY <1>13, <2>1
  <2>3. pc' \in {"loop", "parse"} => received' = sent
    BY <1>2, <1>3, <2>1 DEF IInv, TypeOK, ModeInv
  <2>4. pc' = "recv" => total_read' = received' /\ content_pos' = 0 /\ left' = declared - received'
    BY <1>2, <1>3, <2>1 DEF IInv, TypeOK
  <2> QED
    BY <2>2, <2>3, <2>4
<1> QED
  BY <1>9, <1>10, <1>11, <1>12, <1>14, <1>15 DEF IInv

\* A receive that fails ends the loop, or returns what was read before.
LEMMA FailsKeeps == ASSUME IInv, RecvFails PROVE IInv'
<1> USE SizeAssumption
<1>1. /\ pc = "recv" /\ pc' \in {"loop", "parse"}
      /\ UNCHANGED <<mode, declared, sent, received, chunk_left, ended, buffer,
                     total_read, left>>
  BY DEF RecvFails, ReturnData, response
<1>2. /\ stalled' \in BOOLEAN /\ socket' \in BOOLEAN
      /\ ~stalled' => ~stalled /\ received = sent
      /\ socket' => socket
      /\ total_read > 0 => socket' = socket
  <2>1. total_read > 0 => total_read # 0
    BY DEF IInv, TypeOK
  <2>2. stalled \in BOOLEAN /\ socket \in BOOLEAN
    BY DEF IInv, TypeOK
  <2>3. CASE received < sent /\ stalled' = TRUE /\ UNCHANGED socket
    BY <2>2, <2>3
  <2>4. CASE received = sent /\ UNCHANGED stalled /\ total_read = 0 /\ socket' \in {FALSE, socket}
    <3>1. socket' = FALSE \/ socket' = socket
      BY <2>4
    <3>2. ~(total_read > 0)
      BY <2>1, <2>4
    <3>3. CASE socket' = FALSE
      BY <2>2, <2>4, <3>2, <3>3
    <3>4. CASE socket' = socket
      BY <2>2, <2>4, <3>2, <3>4
    <3> QED
      BY <3>1, <3>3, <3>4
  <2>5. CASE received = sent /\ UNCHANGED stalled /\ total_read # 0 /\ UNCHANGED socket
    BY <2>2, <2>5
  <2> QED
    BY <2>3, <2>4, <2>5 DEF RecvFails
<1>3. \/ /\ total_read > 0 /\ mode = "length"
         /\ content_pos' = content_pos + total_read /\ reads' = reads + 1
      \/ /\ total_read > 0 /\ mode # "length" /\ pc' = "loop"
         /\ content_pos' = content_pos /\ reads' = reads + 1
      \/ /\ total_read = 0 /\ pc' = "parse"
         /\ content_pos' = content_pos /\ reads' = reads
  BY DEF RecvFails, ReturnData, IInv, TypeOK
<1>4. /\ reads' \in 0 .. MaxBody /\ reads' <= received
      /\ content_pos' \in 0 .. MaxBody /\ (mode = "length" => content_pos' <= declared)
  BY <1>1, <1>3 DEF IInv, TypeOK, ModeInv, ReachInv
<1>5. TypeOK'
  BY <1>1, <1>2, <1>4 DEF IInv, TypeOK
<1>6. ModeInv'
  BY <1>1, <1>2, <1>3 DEF IInv, TypeOK, ModeInv
<1>7. ReachInv'
  BY <1>1, <1>4 DEF IInv, ReachInv
<1>8. TailInv'
  BY <1>1 DEF IInv, TailInv
<1>9. FirstReadInv'
  BY <1>1, <1>3 DEF IInv, TypeOK, FirstReadInv, Holds
<1>10. AnnouncedInv'
  BY <1>1, <1>2 DEF IInv, AnnouncedInv, Holds
<1> QED
  BY <1>5, <1>6, <1>7, <1>8, <1>9, <1>10 DEF IInv

\* The inductive invariant of both read loops.
THEOREM InductiveInvariant == Spec => []IInv
<1>1. IInv /\ [Next]_vars => IInv'
  <2> SUFFICES ASSUME IInv, [Next]_vars PROVE IInv'
    OBVIOUS
  <2>1. CASE Next
    BY <2>1, CallKeeps, RecvKeeps, FailsKeeps DEF Next
  <2>2. CASE UNCHANGED vars
    BY <2>2 DEF vars, response, session, IInv, TypeOK, ModeInv, ReachInv, TailInv,
                FirstReadInv, AnnouncedInv, Holds
  <2> QED
    BY <2>1, <2>2
<1> QED
  BY <1>1, InitIInv, PTL DEF Spec

\* Every variable of the loops keeps its type.
THEOREM TypeCorrect == Spec => []TypeOK
<1>1. IInv => TypeOK
  BY DEF IInv
<1> QED
  BY <1>1, InductiveInvariant, PTL

\* No receive stores outside the buffer of fetch_weather, whatever its size, the
\* announced length and the pieces the body comes in.
THEOREM BufferInBounds == Spec => []InBounds
<1>1. IInv => InBounds
  BY DEF IInv, ReachInv, InBounds
<1> QED
  BY <1>1, InductiveInvariant, PTL

\* A body that one webclient_read delivered is what the parser finds.
THEOREM OneReadStored == Spec => []OneReadFaithful
<1>1. IInv => OneReadFaithful
  BY DEF IInv, TypeOK, FirstReadInv, OneReadFaithful
<1> QED
  BY <1>1, InductiveInvariant, PTL

\* An announced body that fits is parsed as it was sent if the server never
\* stalls.
THEOREM AnnouncedStored == Spec => []AnnouncedBodyStored
<1>1. IInv => AnnouncedBodyStored
  BY DEF IInv, AnnouncedInv, AnnouncedBodyStored, Holds
<1> QED
  BY <1>1, InductiveInvariant, PTL

\* cJSON_Parse finds a NUL behind every body shorter than the buffer.
THEOREM NulFound == Spec => []Terminated
<1>1. IInv => Terminated
  <2> SUFFICES ASSUME IInv, received < BufSz
               PROVE  \E k \in 1 .. BufSz : buffer[k] = 0
    BY DEF Terminated
  <2>1. BufSz \in 1 .. BufSz /\ BufSz > received
    BY SizeAssumption DEF IInv, TypeOK
  <2> QED
    BY <2>1 DEF IInv, TailInv
<1> QED
  BY <1>1, InductiveInvariant, PTL
=============================================================================
