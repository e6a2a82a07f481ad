---------------------------- MODULE LcdBusProofs ----------------------------
(* Proofs about LcdBus, for any number of painters, a panel of any size, any *)
(* windows within it, any number of pixels and any way to split them.       *)
EXTENDS LcdBus, TLAPS

-----------------------------------------------------------------------------
(* The writes of a draw.                                                   *)

LEMMA ScreenWithin == WithinPanel(NoDraw)
<1>1. ASSUME NEW w \in Nat \ {0}, NEW h \in Nat \ {0} PROVE w * h \in Nat \ {0}
  OBVIOUS
<1>2. Size(Screen) = W * H /\ W \in Nat \ {0} /\ H \in Nat \ {0}
  BY PanelAssumption DEF Size, Screen
<1>3. Size(Screen) \in Nat \ {0}
  BY <1>1, <1>2
<1> HIDE DEF Size
<1> QED
  BY <1>2, <1>3 DEF WithinPanel, NoDraw, Screen

\* Every painter draws within the panel, also before its first draw.
LEMMA DrawWithin ==
  ASSUME TypeOK, NEW p \in Painters
  PROVE  WithinPanel(draw[p])
BY ScreenWithin, DrawsAssumption DEF TypeOK, WritingOK

LEMMA ProductGrows ==
  ASSUME NEW a \in Nat, NEW b \in Nat, NEW c \in Nat, a <= b
  PROVE  a * c <= b * c
OBVIOUS

LEMMA Distribute ==
  ASSUME NEW a \in Int, NEW c \in Int
  PROVE  (a + 1) * c = a * c + c
OBVIOUS

\* The transfers share the pixels evenly, and each has some.
LEMMA Shares ==
  ASSUME NEW d, WithinPanel(d)
  PROVE  /\ d.rect.x1 \in Nat /\ d.rect.x2 \in Nat /\ d.rect.y1 \in Nat /\ d.rect.y2 \in Nat
         /\ d.rect.x1 <= d.rect.x2 /\ d.rect.x2 < W
         /\ d.rect.y1 <= d.rect.y2 /\ d.rect.y2 < H
         /\ d.sends \in Nat \ {0} /\ d.pixels \in Nat \ {0}
         /\ Size(d.rect) \in Nat /\ d.pixels <= Size(d.rect)
         /\ PerSend(d) \in Nat \ {0} /\ d.sends * PerSend(d) = d.pixels
<1>1. /\ d.rect.x1 \in Nat /\ d.rect.x2 \in Nat /\ d.rect.y1 \in Nat /\ d.rect.y2 \in Nat
      /\ d.rect.x1 <= d.rect.x2 /\ d.rect.x2 < W
      /\ d.rect.y1 <= d.rect.y2 /\ d.rect.y2 < H
  <2>1. W \in Nat /\ H \in Nat
    BY PanelAssumption
  <2> QED
    BY <2>1 DEF WithinPanel
<1>2. Size(d.rect) \in Nat
  <2>1. d.rect.x2 - d.rect.x1 + 1 \in Nat /\ d.rect.y2 - d.rect.y1 + 1 \in Nat
    BY <1>1
  <2> QED
    BY <2>1 DEF Size
<1>3. /\ d.pixels \in Nat \ {0} /\ d.pixels <= Size(d.rect)
      /\ d.sends \in Nat \ {0} /\ d.sends <= d.pixels /\ d.pixels % d.sends = 0
  BY <1>2 DEF WithinPanel
<1>4. ASSUME NEW s \in Nat, NEW n \in Nat \ {0}, n <= s, s % n = 0
      PROVE  s \div n \in Nat \ {0} /\ n * (s \div n) = s /\ s # 0
  BY <1>4
<1>5. PerSend(d) \in Nat \ {0} /\ d.sends * PerSend(d) = d.pixels
  BY <1>2, <1>3, <1>4 DEF PerSend
<1> QED
  BY <1>1, <1>2, <1>3, <1>5

WriteSet == [pin : {"low", "high", "keep"}, bytes : Seq(Byte)]

LEMMA CoordinateBytes ==
  ASSUME NEW n \in Nat, n < 256 * 256
  PROVE  n \div 256 \in Byte /\ n % 256 \in Byte /\ 256 * (n \div 256) + (n % 256) = n
BY DEF Byte

LEMMA AddressWrites ==
  ASSUME NEW d, WithinPanel(d)
  PROVE  /\ AddressSet(d.rect) \in Seq(WriteSet) /\ Len(AddressSet(d.rect)) = 11
         /\ \A i \in 1 .. 11 :
               /\ AddressSet(d.rect)[i].pin = IF i \in {1, 6, 11} THEN "low" ELSE "high"
               /\ Len(AddressSet(d.rect)[i].bytes) = 1
         /\ AddressSet(d.rect)[1].bytes[1] = CASET
         /\ AddressSet(d.rect)[6].bytes[1] = RASET
         /\ AddressSet(d.rect)[11].bytes[1] = RAMWR
         /\ \A i \in 2 .. 5 :
               AddressSet(d.rect)[i].bytes[1] = Pair(d.rect.x1, d.rect.x2)[i - 1]
         /\ \A i \in 7 .. 10 :
               AddressSet(d.rect)[i].bytes[1] = Pair(d.rect.y1, d.rect.y2)[i - 6]
<1> DEFINE r == d.rect
<1>1. \A n \in {r.x1, r.x2, r.y1, r.y2} : n \in Nat /\ n < 256 * 256
  BY Shares, PanelAssumption
<1>2. \A b \in Byte : Cmd(b) \in WriteSet /\ Data(b) \in WriteSet
  BY DEF Cmd, Data, Write, WriteSet
<1>3. CASET \in Byte /\ RASET \in Byte /\ RAMWR \in Byte
  BY DEF CASET, RASET, RAMWR, Byte
<1>4. \A n \in {r.x1, r.x2, r.y1, r.y2} : n \div 256 \in Byte /\ n % 256 \in Byte
  BY <1>1, CoordinateBytes
<1>5. AddressSet(r) \in Seq(WriteSet) /\ Len(AddressSet(r)) = 11
  BY <1>2, <1>3, <1>4 DEF AddressSet
<1>6. \A b : /\ Cmd(b).pin = "low" /\ Data(b).pin = "high"
             /\ Cmd(b).bytes = <<b>> /\ Data(b).bytes = <<b>>
  BY DEF Cmd, Data, Write
<1>7. /\ AddressSet(r)[1] = Cmd(CASET)
      /\ AddressSet(r)[2] = Data(r.x1 \div 256) /\ AddressSet(r)[3] = Data(r.x1 % 256)
      /\ AddressSet(r)[4] = Data(r.x2 \div 256) /\ AddressSet(r)[5] = Data(r.x2 % 256)
      /\ AddressSet(r)[6] = Cmd(RASET)
      /\ AddressSet(r)[7] = Data(r.y1 \div 256) /\ AddressSet(r)[8] = Data(r.y1 % 256)
      /\ AddressSet(r)[9] = Data(r.y2 \div 256) /\ AddressSet(r)[10] = Data(r.y2 % 256)
      /\ AddressSet(r)[11] = Cmd(RAMWR)
  BY DEF AddressSet
<1>8. ASSUME NEW i \in 1 .. 11
      PROVE  /\ AddressSet(r)[i].pin = IF i \in {1, 6, 11} THEN "low" ELSE "high"
             /\ Len(AddressSet(r)[i].bytes) = 1
  <2>1. /\ i \in {1, 6, 11} => \E b : AddressSet(r)[i] = Cmd(b)
        /\ i \notin {1, 6, 11} => \E b : AddressSet(r)[i] = Data(b)
    <3>1. i \notin {1, 6, 11} => i \in {2, 3, 4, 5, 7, 8, 9, 10}
      OBVIOUS
    <3> QED
      BY <1>7, <3>1
  <2>2. \A b : Len(<<b>>) = 1
    OBVIOUS
  <2> QED
    BY <1>6, <2>1, <2>2
<1>9. \A i \in 2 .. 5 : AddressSet(r)[i].bytes[1] = Pair(r.x1, r.x2)[i - 1]
  BY <1>6, <1>7 DEF Pair
<1>10. \A i \in 7 .. 10 : AddressSet(r)[i].bytes[1] = Pair(r.y1, r.y2)[i - 6]
  BY <1>6, <1>7 DEF Pair
<1> QED
  BY <1>5, <1>6, <1>7, <1>8, <1>9, <1>10

LEMMA TransferWrites ==
  ASSUME NEW p \in Painters, NEW d, WithinPanel(d)
  PROVE  /\ Transfers(p, d) \in Seq(WriteSet) /\ Len(Transfers(p, d)) = d.sends
         /\ Len(Bytes(p, PerSend(d))) = 2 * PerSend(d)
         /\ \A i \in 1 .. d.sends :
               /\ Transfers(p, d)[i].pin = IF i = 1 \/ d.pinEach THEN "high" ELSE "keep"
               /\ Transfers(p, d)[i].bytes = Bytes(p, PerSend(d))
<1>1. d.sends \in Nat \ {0} /\ PerSend(d) \in Nat \ {0}
  BY Shares
<1>2. Bytes(p, PerSend(d)) \in Seq(Byte) /\ Len(Bytes(p, PerSend(d))) = 2 * PerSend(d)
  <2>1. ASSUME NEW n \in Nat PROVE Bytes(p, n) \in Seq(Byte) /\ Len(Bytes(p, n)) = 2 * n
    <3>1. 2 * n \in Nat /\ Hi[p] \in Byte /\ Lo[p] \in Byte
      BY PanelAssumption DEF Byte
    <3> QED
      BY <3>1 DEF Bytes
  <2> QED
    BY <1>1, <2>1
<1>3. ASSUME NEW i \in 1 .. d.sends
      PROVE  Write(IF i = 1 \/ d.pinEach THEN "high" ELSE "keep", Bytes(p, PerSend(d)))
                \in WriteSet
  BY <1>2 DEF Write, WriteSet
<1> QED
  BY <1>1, <1>2, <1>3 DEF Transfers, Write

LEMMA Concatenation ==
  ASSUME NEW S, NEW s \in Seq(S), NEW t \in Seq(S)
  PROVE  /\ s \o t \in Seq(S) /\ Len(s \o t) = Len(s) + Len(t)
         /\ \A i \in 1 .. Len(s) : (s \o t)[i] = s[i]
         /\ \A i \in Len(s) + 1 .. Len(s) + Len(t) : (s \o t)[i] = t[i - Len(s)]
OBVIOUS

\* lcd_address_set makes eleven writes of a byte, then come the transfers.
LEMMA WritesAre ==
  ASSUME NEW p \in Painters, NEW d, WithinPanel(d)
  PROVE  /\ Writes(p, d) \in Seq(WriteSet) /\ DOMAIN Writes(p, d) = 1 .. 11 + d.sends
         /\ Len(Writes(p, d)) = 11 + d.sends
         /\ \A i \in 1 .. 11 : Writes(p, d)[i] = AddressSet(d.rect)[i]
         /\ \A i \in 12 .. 11 + d.sends : Writes(p, d)[i] = Transfers(p, d)[i - 11]
<1>1. d.sends \in Nat
  BY Shares
<1> DEFINE a == AddressSet(d.rect)
           t == Transfers(p, d)
<1>2. /\ a \in Seq(WriteSet) /\ Len(a) = 11
      /\ t \in Seq(WriteSet) /\ Len(t) = d.sends
  BY AddressWrites, TransferWrites
<1>3. Writes(p, d) = a \o t
  BY DEF Writes
<1> HIDE DEF a, t
<1>4. /\ Writes(p, d) \in Seq(WriteSet) /\ Len(Writes(p, d)) = 11 + d.sends
      /\ \A i \in 1 .. 11 : Writes(p, d)[i] = a[i]
      /\ \A i \in 12 .. 11 + d.sends : Writes(p, d)[i] = t[i - 11]
  <2>1. /\ a \o t \in Seq(WriteSet) /\ Len(a \o t) = Len(a) + Len(t)
        /\ \A i \in 1 .. Len(a) : (a \o t)[i] = a[i]
        /\ \A i \in Len(a) + 1 .. Len(a) + Len(t) : (a \o t)[i] = t[i - Len(a)]
    BY <1>2, Concatenation
  <2>2. /\ Len(a \o t) = 11 + d.sends
        /\ \A i \in 1 .. 11 : (a \o t)[i] = a[i]
    BY <1>2, <2>1, Zenon
  <2>3. \A i \in 12 .. 11 + d.sends : (a \o t)[i] = t[i - 11]
    <3>1. \A i \in 11 + 1 .. 11 + d.sends : (a \o t)[i] = t[i - 11]
      BY <1>2, <2>1, Zenon
    <3>2. 12 = 11 + 1
      OBVIOUS
    <3> QED
      BY <3>1, <3>2, Zenon
  <2> QED
    BY <1>3, <2>1, <2>2, <2>3, Zenon
<1> QED
  BY <1>1, <1>4 DEF a, t

\* What a painter that shifts finds: the byte it shifts is a byte.
LEMMA NextByte ==
  ASSUME TypeOK, NEW p \in Painters
  PROVE  /\ at[p] \in 1 .. 11 + draw[p].sends /\ draw[p].sends \in Nat \ {0}
         /\ Writes(p, draw[p])[at[p]] \in WriteSet
         /\ Len(Writes(p, draw[p])[at[p]].bytes) \in Nat
         /\ Len(Writes(p, draw[p])) = 11 + draw[p].sends
         /\ sent[p] \in Nat /\ sent[p] < Len(Writes(p, draw[p])[at[p]].bytes)
         /\ Writes(p, draw[p])[at[p]].bytes[sent[p] + 1] \in Byte
<1>1. WithinPanel(draw[p])
  BY DrawWithin
<1>2. /\ Writes(p, draw[p]) \in Seq(WriteSet)
      /\ DOMAIN Writes(p, draw[p]) = 1 .. 11 + draw[p].sends
      /\ Len(Writes(p, draw[p])) = 11 + draw[p].sends
  BY <1>1, WritesAre
<1>3. draw[p].sends \in Nat \ {0}
  BY <1>1, Shares
<1>4. /\ at[p] \in 1 .. 11 + draw[p].sends
      /\ sent[p] \in Nat /\ sent[p] < Len(Writes(p, draw[p])[at[p]].bytes)
  BY <1>2 DEF TypeOK, WritingOK
<1>5. Writes(p, draw[p])[at[p]] \in WriteSet
  BY <1>2, <1>3, <1>4
<1>6. Writes(p, draw[p])[at[p]].bytes \in Seq(Byte)
  BY <1>5 DEF WriteSet
<1> QED
  BY <1>2, <1>3, <1>4, <1>5, <1>6

\* Every write has a byte, the first as every other.
LEMMA WritesNotEmpty ==
  ASSUME NEW p \in Painters, NEW d, WithinPanel(d), NEW k \in 1 .. 11 + d.sends
  PROVE  /\ k \in DOMAIN Writes(p, d) /\ Len(Writes(p, d)[k].bytes) \in Nat \ {0}
         /\ k <= 11 => Len(Writes(p, d)[k].bytes) = 1
         /\ k > 11 => Len(Writes(p, d)[k].bytes) = 2 * PerSend(d)
<1>1. d.sends \in Nat \ {0} /\ PerSend(d) \in Nat \ {0}
  BY Shares
<1>2. k \in DOMAIN Writes(p, d)
  BY WritesAre
<1>3. CASE k <= 11
  <2>1. k \in 1 .. 11
    BY <1>1, <1>3
  <2>2. Writes(p, d)[k] = AddressSet(d.rect)[k]
    BY <2>1, WritesAre
  <2>3. Len(AddressSet(d.rect)[k].bytes) = 1
    BY <2>1, AddressWrites
  <2> QED
    BY <1>2, <1>3, <2>2, <2>3
<1>4. CASE k > 11
  <2>1. k \in 12 .. 11 + d.sends /\ k - 11 \in 1 .. d.sends
    BY <1>1, <1>4
  <2>2. Writes(p, d)[k] = Transfers(p, d)[k - 11]
    BY <2>1, WritesAre
  <2>3. /\ Transfers(p, d)[k - 11].bytes = Bytes(p, PerSend(d))
        /\ Len(Bytes(p, PerSend(d))) = 2 * PerSend(d)
    BY <2>1, TransferWrites
  <2>4. 2 * PerSend(d) \in Nat \ {0}
    BY <1>1
  <2> QED
    BY <1>1, <1>2, <1>4, <2>2, <2>3, <2>4
<1> QED
  BY <1>1, <1>3, <1>4

-----------------------------------------------------------------------------
(* The panel.                                                              *)

LEMMA Windows ==
  /\ Nowhere \notin Span(W) /\ Nowhere \notin Span(H) /\ Nowhere \notin Pixels
  /\ Nowhere = <<W, H>> /\ W \in Nat \ {0} /\ H \in Nat \ {0}
BY PanelAssumption DEF Nowhere, Span, Pixels

LEMMA CommandType ==
  ASSUME PanelOK, NEW b, TakeCommand(b)
  PROVE  PanelOK'
<1>1. Start \in Pixels \cup {Nowhere}
      /\ (Start # Nowhere => cols # Nowhere /\ rows # Nowhere)
  BY Windows DEF PanelOK, Start, Span, Pixels
<1>2. /\ cmd' \in {0, CASET, RASET, RAMWR} /\ args' = <<>>
      /\ UNCHANGED <<cols, rows, ram>>
      /\ cursor' = Nowhere \/ (cursor' = Start /\ cmd' = RAMWR)
  BY DEF TakeCommand
<1>3. args' \in Seq(Byte) /\ Len(args') < 4
  BY <1>2
<1> QED
  BY <1>1, <1>2, <1>3 DEF PanelOK

LEMMA GivenType ==
  ASSUME NEW a \in Seq(Byte), Len(a) = 4, NEW n \in Nat
  PROVE  Given(a, n) \in Span(n) \cup {Nowhere}
<1>1. a[1] \in Byte /\ a[2] \in Byte /\ a[3] \in Byte /\ a[4] \in Byte
  OBVIOUS
<1>2. \A x, y \in Byte : 256 * x + y \in Nat
  BY DEF Byte
<1>3. 256 * a[1] + a[2] \in Nat /\ 256 * a[3] + a[4] \in Nat
  BY <1>1, <1>2
<1>4. \A x, y \in Nat : x <= y /\ y < n => <<x, y>> \in Span(n)
  BY DEF Span
<1> QED
  BY <1>3, <1>4 DEF Given

LEMMA OneMore ==
  ASSUME NEW S, NEW s \in Seq(S), NEW b \in S
  PROVE  Append(s, b) \in Seq(S) /\ Len(Append(s, b)) = Len(s) + 1 /\ Len(s) \in Nat
OBVIOUS

LEMMA ParameterType ==
  ASSUME PanelOK, NEW b \in Byte, cmd \in {CASET, RASET}, TakeParameter(b)
  PROVE  PanelOK'
<1>1. /\ Append(args, b) \in Seq(Byte) /\ Len(Append(args, b)) = Len(args) + 1
      /\ Len(args) \in Nat /\ Len(args) < 4
  BY OneMore DEF PanelOK
<1>n. cursor = Nowhere
  BY DEF PanelOK, CASET, RASET, RAMWR
<1>2. CASE Len(Append(args, b)) < 4
  BY <1>1, <1>2 DEF TakeParameter, PanelOK
<1>3. CASE ~(Len(Append(args, b)) < 4)
  <2>1. /\ Given(Append(args, b), W) \in Span(W) \cup {Nowhere}
        /\ Given(Append(args, b), H) \in Span(H) \cup {Nowhere}
    <3>1. Len(Append(args, b)) = 4
      BY <1>1, <1>3
    <3> QED
      BY <1>1, <3>1, GivenType, Windows
  <2>2. /\ cmd' = 0 /\ args' = <<>> /\ UNCHANGED <<cursor, ram>>
        /\ cols' \in {Given(Append(args, b), W), cols}
        /\ rows' \in {Given(Append(args, b), H), rows}
    BY <1>3 DEF TakeParameter
  <2>3. args' \in Seq(Byte) /\ Len(args') < 4
    BY <2>2
  <2> QED
    BY <1>n, <2>1, <2>2, <2>3 DEF PanelOK
<1> QED
  BY <1>2, <1>3

LEMMA AdvanceType ==
  ASSUME PanelOK
  PROVE  /\ Advance(cursor) \in Pixels \cup {Nowhere}
         /\ Advance(cursor) # Nowhere => cursor # Nowhere
<1>1. CASE cursor = Nowhere
  BY <1>1 DEF Advance
<1>2. CASE cursor # Nowhere
  <2>1. /\ cursor \in Pixels /\ cols \in Span(W) /\ rows \in Span(H)
        /\ cols # Nowhere /\ rows # Nowhere
    BY <1>2 DEF PanelOK
  <2>2. /\ cursor[1] \in 0 .. W-1 /\ cursor[2] \in 0 .. H-1
        /\ cols[1] \in 0 .. W-1 /\ cols[2] \in 0 .. W-1
        /\ rows[1] \in 0 .. H-1 /\ rows[2] \in 0 .. H-1
    BY <2>1 DEF Pixels, Span
  <2>3. \A x \in 0 .. W-1, y \in 0 .. H-1 : <<x, y>> \in Pixels
    BY DEF Pixels
  <2>4. Start \in Pixels
    BY <2>1, <2>2, <2>3 DEF Start
  <2>5. cursor[1] < cols[2] => cursor[1] + 1 \in 0 .. W-1
    BY <2>2, Windows
  <2>6. cursor[2] < rows[2] => cursor[2] + 1 \in 0 .. H-1
    BY <2>2, Windows
  <2> QED
    BY <1>2, <2>2, <2>3, <2>4, <2>5, <2>6 DEF Advance
<1> QED
  BY <1>1, <1>2

LEMMA PixelType ==
  ASSUME PanelOK, NEW b \in Byte, TakePixel(b)
  PROVE  PanelOK'
<1>1. <<>> \in Seq(Byte) /\ <<b>> \in Seq(Byte) /\ Len(<<>>) = 0 /\ Len(<<b>>) = 1
  OBVIOUS
<1>2. CASE args = <<>>
  <2>1. args' = <<b>> /\ UNCHANGED <<cmd, cols, rows, cursor, ram>>
    BY <1>2 DEF TakePixel
  <2>2. args' \in Seq(Byte) /\ Len(args') < 4
    BY <1>1, <2>1
  <2> QED
    BY <2>1, <2>2 DEF PanelOK
<1>3. CASE args # <<>>
  <2>1. Len(args) >= 1 /\ args[1] \in Byte
    BY <1>3 DEF PanelOK
  <2>2. Colour(args[1], b) \in Colours
    BY <2>1 DEF Colour, Colours
  <2>3. /\ args' = <<>> /\ cursor' = Advance(cursor) /\ UNCHANGED <<cmd, cols, rows>>
        /\ ram' = [c \in Pixels |-> IF c = cursor THEN Colour(args[1], b) ELSE ram[c]]
    BY <1>3 DEF TakePixel
  <2>4. ram' \in [Pixels -> Colours]
    BY <2>2, <2>3 DEF PanelOK
  <2> QED
    BY <1>1, <2>3, <2>4, AdvanceType DEF PanelOK
<1> QED
  BY <1>2, <1>3

LEMMA ReceiveType ==
  ASSUME PanelOK, NEW b \in Byte, Receive(b)
  PROVE  PanelOK'
<1>1. \/ TakeCommand(b) \/ (TakeParameter(b) /\ cmd \in {CASET, RASET})
      \/ TakePixel(b) \/ UNCHANGED panel
  BY DEF Receive
<1>2. CASE UNCHANGED panel
  BY <1>2 DEF panel, PanelOK
<1> QED
  BY <1>1, <1>2, CommandType, ParameterType, PixelType

-----------------------------------------------------------------------------
(* The types.                                                              *)

LEMMA InitIInv == Init => IInv
<1> SUFFICES ASSUME Init PROVE IInv
  OBVIOUS
<1>1. PanelOK
  <2>1. <<0, W-1>> \in Span(W) /\ <<0, H-1>> \in Span(H) /\ <<0, 0>> \in Pixels
    BY Windows DEF Span, Pixels
  <2>2. args \in Seq(Byte) /\ Len(args) = 0
    BY DEF Init
  <2>3. ram \in [Pixels -> Colours]
    BY DEF Init, Colours
  <2> QED
    BY <2>1, <2>2, <2>3, Windows DEF Init, PanelOK
<1>2. ASSUME NEW p \in Painters
      PROVE  /\ draw[p] = NoDraw /\ at[p] = 1 /\ sent[p] = 0 /\ bus # p /\ pc[p] = "idle"
             /\ at[p] \in DOMAIN Writes(p, draw[p])
             /\ sent[p] < Len(Writes(p, draw[p])[at[p]].bytes)
  <2>1. 1 \in 1 .. 11 + NoDraw.sends
    BY ScreenWithin, Shares
  <2>2. 1 \in DOMAIN Writes(p, NoDraw) /\ Len(Writes(p, NoDraw)[1].bytes) \in Nat \ {0}
    BY <2>1, ScreenWithin, WritesNotEmpty
  <2> QED
    BY <2>2, PanelAssumption DEF Init
<1>3. TypeOK
  <2>1. /\ pc \in [Painters -> {"idle", "pin", "shift", "done"}]
        /\ draw \in [Painters -> AllDraws]
        /\ at \in [Painters -> Nat] /\ sent \in [Painters -> Nat]
        /\ before \in [Painters -> [Pixels -> Colours] \cup {None}]
    BY DEF Init, AllDraws
  <2>2. dc \in {"low", "high"} /\ bus \in Painters \cup {None}
    BY DEF Init
  <2> QED
    BY <1>1, <1>2, <2>1, <2>2 DEF TypeOK, WritingOK
<1>4. DrawInv
  BY DEF Init, DrawInv
<1> QED
  BY <1>3, <1>4 DEF IInv

\* What a step of shifting is: one byte is received, and the write goes on, the
\* next begins, or the draw is over.
Shifted(p) ==
    LET w == Writes(p, draw[p])
    IN \/ /\ sent[p] + 1 < Len(w[at[p]].bytes)
          /\ sent'[p] = sent[p] + 1 /\ at'[p] = at[p] /\ pc'[p] = "shift" /\ bus' = p
       \/ /\ sent[p] + 1 = Len(w[at[p]].bytes) /\ at[p] < Len(w)
          /\ sent'[p] = 0 /\ at'[p] = at[p] + 1 /\ pc'[p] = "pin" /\ bus' = None
       \/ /\ sent[p] + 1 = Len(w[at[p]].bytes) /\ at[p] = Len(w)
          /\ sent'[p] = 0 /\ at'[p] = 1 /\ pc'[p] = "done" /\ bus' = None

LEMMA ShiftIs ==
  ASSUME TypeOK, NEW p \in Painters, Shift(p)
  PROVE  /\ pc[p] = "shift" /\ TakeBus(p) /\ Shifted(p)
         /\ Receive(Writes(p, draw[p])[at[p]].bytes[sent[p] + 1])
         /\ UNCHANGED <<dc, draw>>
         /\ pc' \in [Painters -> {"idle", "pin", "shift", "done"}]
         /\ at' \in [Painters -> Nat] /\ sent' \in [Painters -> Nat]
         /\ \A q \in Painters : q # p => pc'[q] = pc[q] /\ at'[q] = at[q] /\ sent'[q] = sent[q]
<1> DEFINE w == Writes(p, draw[p])
           n == Len(w[at[p]].bytes)
<1>1. /\ at[p] \in Nat /\ Len(w) \in Nat /\ at[p] <= Len(w)
      /\ sent[p] \in Nat /\ n \in Nat /\ sent[p] < n
  <2>1. /\ at[p] \in 1 .. 11 + draw[p].sends /\ draw[p].sends \in Nat \ {0}
        /\ n \in Nat /\ Len(w) = 11 + draw[p].sends /\ sent[p] \in Nat /\ sent[p] < n
    BY NextByte
  <2> HIDE DEF n, w
  <2> QED
    BY <2>1
<1>2. /\ pc[p] = "shift" /\ TakeBus(p)
      /\ Receive(w[at[p]].bytes[sent[p] + 1]) /\ UNCHANGED <<dc, draw>>
  BY DEF Shift, ShiftThen
<1>3. IF sent[p] + 1 < n
      THEN sent' = [sent EXCEPT ![p] = @ + 1] /\ bus' = p /\ UNCHANGED <<pc, at>>
      ELSE /\ sent' = [sent EXCEPT ![p] = 0] /\ bus' = None
           /\ IF at[p] < Len(w)
              THEN pc' = [pc EXCEPT ![p] = "pin"] /\ at' = [at EXCEPT ![p] = @ + 1]
              ELSE pc' = [pc EXCEPT ![p] = "done"] /\ at' = [at EXCEPT ![p] = 1]
  BY DEF Shift, ShiftThen
<1>4. /\ pc \in [Painters -> {"idle", "pin", "shift", "done"}]
      /\ at \in [Painters -> Nat] /\ sent \in [Painters -> Nat]
  BY DEF TypeOK
<1>5. Shifted(p) <=>
         \/ /\ sent[p] + 1 < n
            /\ sent'[p] = sent[p] + 1 /\ at'[p] = at[p] /\ pc'[p] = "shift" /\ bus' = p
         \/ /\ sent[p] + 1 = n /\ at[p] < Len(w)
            /\ sent'[p] = 0 /\ at'[p] = at[p] + 1 /\ pc'[p] = "pin" /\ bus' = None
         \/ /\ sent[p] + 1 = n /\ at[p] = Len(w)
            /\ sent'[p] = 0 /\ at'[p] = 1 /\ pc'[p] = "done" /\ bus' = None
  BY DEF Shifted
<1> DEFINE Moved ==
      /\ pc' \in [Painters -> {"idle", "pin", "shift", "done"}]
      /\ at' \in [Painters -> Nat] /\ sent' \in [Painters -> Nat]
      /\ \A q \in Painters : q # p => pc'[q] = pc[q] /\ at'[q] = at[q] /\ sent'[q] = sent[q]
<1> HIDE DEF w, n
<1>6. CASE sent[p] + 1 < n
  <2>1. sent' = [sent EXCEPT ![p] = sent[p] + 1] /\ bus' = p /\ UNCHANGED <<pc, at>>
    BY <1>3, <1>6
  <2>2. Moved /\ sent'[p] = sent[p] + 1 /\ at'[p] = at[p] /\ pc'[p] = "shift"
    BY <1>1, <1>2, <1>4, <2>1
  <2> QED
    BY <1>2, <1>5, <1>6, <2>1, <2>2 DEF w
<1>7. CASE ~(sent[p] + 1 < n)
  <2>1. sent[p] + 1 = n /\ (at[p] < Len(w) \/ at[p] = Len(w))
    BY <1>1, <1>7
  <2>2. sent' = [sent EXCEPT ![p] = 0] /\ bus' = None
    BY <1>3, <1>7
  <2>3. CASE at[p] < Len(w)
    <3>1. pc' = [pc EXCEPT ![p] = "pin"] /\ at' = [at EXCEPT ![p] = at[p] + 1]
      BY <1>3, <1>7, <2>3
    <3>2. Moved /\ sent'[p] = 0 /\ at'[p] = at[p] + 1 /\ pc'[p] = "pin"
      BY <1>1, <1>4, <2>2, <3>1
    <3> QED
      BY <1>2, <1>5, <2>1, <2>2, <2>3, <3>2 DEF w
  <2>4. CASE at[p] = Len(w)
    <3>1. pc' = [pc EXCEPT ![p] = "done"] /\ at' = [at EXCEPT ![p] = 1]
      BY <1>1, <1>3, <1>7, <2>4
    <3>2. Moved /\ sent'[p] = 0 /\ at'[p] = 1 /\ pc'[p] = "done"
      BY <1>1, <1>4, <2>2, <3>1
    <3> QED
      BY <1>2, <1>5, <2>1, <2>2, <2>4, <3>2 DEF w
  <2> QED
    BY <2>1, <2>3, <2>4
<1> QED
  BY <1>6, <1>7

\* The step of one painter leaves every other where it is.
LEMMA OthersWriting ==
  ASSUME NEW q \in Painters, WritingOK(q), pc'[q] = pc[q], draw'[q] = draw[q],
         at'[q] = at[q], sent'[q] = sent[q], bus' = q <=> bus = q
  PROVE  WritingOK(q)'
BY DEF WritingOK

LEMMA FirstWrite ==
  ASSUME NEW p \in Painters, NEW d \in Draws[p] \cup {NoDraw}
  PROVE  /\ d \in AllDraws
         /\ 1 \in DOMAIN Writes(p, d) /\ Len(Writes(p, d)[1].bytes) \in Nat \ {0}
<1>1. WithinPanel(d)
  BY ScreenWithin, DrawsAssumption
<1>2. 1 \in 1 .. 11 + d.sends
  BY <1>1, Shares
<1> QED
  BY <1>1, <1>2, WritesNotEmpty DEF AllDraws

LEMMA TypeStep ==
  ASSUME TypeOK, Next
  PROVE  TypeOK'
<1>t. \A q \in Painters : WritingOK(q)
  BY DEF TypeOK
<1>n. None \notin Painters
  BY PanelAssumption
<1>1. ASSUME NEW p \in Painters, Begin(p) PROVE TypeOK'
  <2>1. PICK d \in Draws[p] : draw' = [draw EXCEPT ![p] = d]
    BY <1>1 DEF Begin
  <2>2. /\ pc[p] = "idle" /\ pc' = [pc EXCEPT ![p] = "pin"]
        /\ UNCHANGED <<dc, bus, panel, at, sent, before>>
    BY <1>1 DEF Begin
  <2>3. d \in AllDraws /\ 1 \in DOMAIN Writes(p, d) /\ Len(Writes(p, d)[1].bytes) \in Nat \ {0}
    BY FirstWrite
  <2>4. at[p] = 1 /\ sent[p] = 0 /\ bus # p
    BY <1>t, <2>2 DEF WritingOK
  <2>5. WritingOK(p)'
    BY <2>1, <2>2, <2>3, <2>4 DEF WritingOK, TypeOK
  <2>6. \A q \in Painters : q # p => WritingOK(q)'
    BY <1>t, <2>1, <2>2, OthersWriting DEF TypeOK
  <2>7. PanelOK'
    BY <2>2 DEF TypeOK, PanelOK, panel
  <2> QED
    BY <2>1, <2>2, <2>3, <2>5, <2>6, <2>7 DEF TypeOK
<1>2. ASSUME NEW p \in Painters, WritePin(p) PROVE TypeOK'
  <2>1. /\ pc[p] = "pin" /\ pc' = [pc EXCEPT ![p] = "shift"]
        /\ UNCHANGED <<bus, panel, draw, at, sent>>
        /\ Disturb(p, IF at[p] = 1 THEN ram ELSE before[p])
        /\ dc' \in {dc, Writes(p, draw[p])[at[p]].pin} /\ dc' # "keep"
    BY <1>2 DEF WritePin, TypeOK
  <2>2. Writes(p, draw[p])[at[p]].pin \in {"low", "high", "keep"}
    BY NextByte DEF WriteSet
  <2>3. before' \in [Painters -> [Pixels -> Colours] \cup {None}]
    BY <2>1 DEF Disturb, TypeOK, PanelOK
  <2>4. WritingOK(p)'
    BY <1>t, <2>1 DEF WritingOK, TypeOK
  <2>5. \A q \in Painters : q # p => WritingOK(q)'
    BY <1>t, <2>1, OthersWriting DEF TypeOK
  <2>6. PanelOK'
    BY <2>1 DEF TypeOK, PanelOK, panel
  <2> QED
    BY <2>1, <2>2, <2>3, <2>4, <2>5, <2>6 DEF TypeOK
<1>3. ASSUME NEW p \in Painters, Shift(p) PROVE TypeOK'
  <2>1. /\ pc[p] = "shift" /\ TakeBus(p) /\ Shifted(p)
        /\ Receive(Writes(p, draw[p])[at[p]].bytes[sent[p] + 1])
        /\ UNCHANGED <<dc, draw>>
        /\ pc' \in [Painters -> {"idle", "pin", "shift", "done"}]
        /\ at' \in [Painters -> Nat] /\ sent' \in [Painters -> Nat]
        /\ \A q \in Painters : q # p => pc'[q] = pc[q] /\ at'[q] = at[q] /\ sent'[q] = sent[q]
    BY <1>3, ShiftIs
  <2>2. PanelOK'
    <3>1. Writes(p, draw[p])[at[p]].bytes[sent[p] + 1] \in Byte
      BY NextByte
    <3> QED
      BY <2>1, <3>1, ReceiveType DEF TypeOK
  <2>3. before' \in [Painters -> [Pixels -> Colours] \cup {None}]
    BY <2>1 DEF TakeBus, Disturb, TypeOK
  <2>4. bus' \in {p, None} /\ bus \in {p, None}
    BY <2>1 DEF Shifted, TakeBus
  <2>5. \A q \in Painters : q # p => WritingOK(q)'
    BY <1>t, <1>n, <2>1, <2>4, OthersWriting
  <2>6. WritingOK(p)'
    <3> DEFINE w == Writes(p, draw[p])
    <3>1. draw'[p] = draw[p] /\ draw[p] \in Draws[p] \cup {NoDraw} /\ at[p] \in DOMAIN w
      BY <1>t, <2>1 DEF WritingOK
    <3>2. /\ WithinPanel(draw[p]) /\ draw[p].sends \in Nat \ {0}
          /\ at[p] \in 1 .. 11 + draw[p].sends /\ Len(w) = 11 + draw[p].sends
          /\ sent[p] \in Nat
      BY DrawWithin, NextByte
    <3>3. at'[p] \in 1 .. 11 + draw[p].sends
      BY <2>1, <3>2 DEF Shifted
    <3>4. at'[p] \in DOMAIN w /\ Len(w[at'[p]].bytes) \in Nat \ {0}
      BY <3>2, <3>3, WritesNotEmpty
    <3>5. sent'[p] < Len(w[at'[p]].bytes)
      BY <2>1, <3>4 DEF Shifted
    <3>6. sent'[p] > 0 <=> bus' = p
      BY <1>n, <2>1, <3>2 DEF Shifted
    <3>7. /\ pc'[p] \in {"idle", "done"} => at'[p] = 1
          /\ pc'[p] # "shift" => sent'[p] = 0
      BY <2>1 DEF Shifted
    <3> QED
      BY <3>1, <3>4, <3>5, <3>6, <3>7 DEF WritingOK
  <2> QED
    BY <1>n, <2>1, <2>2, <2>3, <2>4, <2>5, <2>6 DEF TypeOK
<1>4. ASSUME NEW p \in Painters, Return(p) PROVE TypeOK'
  <2>1. /\ pc[p] = "done" /\ pc' = [pc EXCEPT ![p] = "idle"]
        /\ draw' = [draw EXCEPT ![p] = NoDraw] /\ before' = [before EXCEPT ![p] = None]
        /\ UNCHANGED <<dc, bus, panel, at, sent>>
    BY <1>4 DEF Return
  <2>2. /\ NoDraw \in AllDraws /\ 1 \in DOMAIN Writes(p, NoDraw)
        /\ Len(Writes(p, NoDraw)[1].bytes) \in Nat \ {0}
    BY FirstWrite
  <2>3. at[p] = 1 /\ sent[p] = 0 /\ bus # p
    BY <1>t, <2>1 DEF WritingOK
  <2>4. WritingOK(p)'
    BY <2>1, <2>2, <2>3 DEF WritingOK, TypeOK
  <2>5. \A q \in Painters : q # p => WritingOK(q)'
    BY <1>t, <2>1, OthersWriting DEF TypeOK
  <2>6. PanelOK'
    BY <2>1 DEF TypeOK, PanelOK, panel
  <2> QED
    BY <2>1, <2>2, <2>4, <2>5, <2>6 DEF TypeOK
<1> QED
  BY <1>1, <1>2, <1>3, <1>4 DEF Next, Work

-----------------------------------------------------------------------------
(* The cursor runs through the window.                                     *)

\* A pixel of an earlier row comes before.
LEMMA RowsInOrder ==
  ASSUME NEW a \in Nat, NEW b \in Nat, NEW e \in Nat, NEW f \in Nat, NEW w \in Nat,
         a < e, b < w
  PROVE  a * w + b < e * w + f
<1>1. a + 1 \in Nat /\ a + 1 <= e
  OBVIOUS
<1>2. (a + 1) * w <= e * w
  BY <1>1, ProductGrows
<1>3. (a + 1) * w = a * w + w
  BY Distribute
<1>4. a * w \in Nat /\ e * w \in Nat
  OBVIOUS
<1> QED
  BY <1>2, <1>3, <1>4

\* Where the cursor goes from a pixel of the window that is not the last.
NextPixel(r, c) == IF c[1] < r.x2 THEN <<c[1] + 1, c[2]>> ELSE <<r.x1, c[2] + 1>>

LEMMA CountIs ==
  ASSUME NEW r, NEW x, NEW y
  PROVE  Count(r, <<x, y>>) = (y - r.y1) * (r.x2 - r.x1 + 1) + (x - r.x1)
BY DEF Count

LEMMA WindowSteps ==
  ASSUME NEW r, r.x1 \in Nat, r.x2 \in Nat, r.y1 \in Nat, r.y2 \in Nat,
         r.x1 <= r.x2, r.y1 <= r.y2, NEW c \in Area(r)
  PROVE  /\ Count(r, c) \in Nat
         /\ {e \in Area(r) : Count(r, e) < Count(r, c) + 1} = Behind(r, c) \cup {c}
         /\ c # <<r.x2, r.y2>> =>
               /\ NextPixel(r, c) \in Area(r)
               /\ Count(r, NextPixel(r, c)) = Count(r, c) + 1
               /\ Behind(r, NextPixel(r, c)) = Behind(r, c) \cup {c}
         /\ c = <<r.x2, r.y2>> => Count(r, c) + 1 = Size(r)
<1> DEFINE w == r.x2 - r.x1 + 1
           h == r.y2 - r.y1 + 1
           b == c[1] - r.x1
           a == c[2] - r.y1
<1>1. /\ c[1] \in r.x1 .. r.x2 /\ c[2] \in r.y1 .. r.y2 /\ c = <<c[1], c[2]>>
  BY DEF Area
<1>2. /\ w \in Nat \ {0} /\ h \in Nat \ {0} /\ a \in Nat /\ b \in Nat /\ a < h /\ b < w
  BY <1>1
<1>3. Count(r, c) = a * w + b /\ Size(r) = w * h
  BY DEF Count, Size
<1>4. Count(r, c) \in Nat
  <2>1. a * w \in Nat
    BY <1>2
  <2> HIDE DEF a, b, w
  <2> QED
    BY <1>2, <1>3, <2>1
<1>5. ASSUME NEW x \in Int, NEW y \in Int
      PROVE  <<x, y>> \in Area(r) <=> r.x1 <= x /\ x <= r.x2 /\ r.y1 <= y /\ y <= r.y2
  BY DEF Area
<1>6. \A e \in Area(r) : /\ e[1] \in Int /\ e[2] \in Int /\ e = <<e[1], e[2]>>
                         /\ r.x1 <= e[1] /\ e[1] <= r.x2 /\ r.y1 <= e[2] /\ e[2] <= r.y2
  BY DEF Area
<1>7. {e \in Area(r) : Count(r, e) < Count(r, c) + 1} = Behind(r, c) \cup {c}
  <2>1. ASSUME NEW e \in Area(r)
        PROVE  Count(r, e) < Count(r, c) + 1 <=>
                  (e[2] < c[2] \/ (e[2] = c[2] /\ e[1] < c[1])) \/ e = c
    <3> DEFINE f == e[1] - r.x1
               g == e[2] - r.y1
    <3>1. /\ f \in Nat /\ g \in Nat /\ f < w
          /\ (g < a <=> e[2] < c[2]) /\ (g = a <=> e[2] = c[2]) /\ (f < b <=> e[1] < c[1])
          /\ (f = b <=> e[1] = c[1])
      BY <1>1, <1>6
    <3>2. Count(r, e) = g * w + f
      BY DEF Count
    <3>3. g * w \in Nat /\ a * w \in Nat
      <4>1. ASSUME NEW u \in Nat, NEW v \in Nat PROVE u * v \in Nat
        OBVIOUS
      <4> HIDE DEF a, w, g
      <4> QED
        BY <1>2, <3>1, <4>1
    <3>4. e = c <=> e[1] = c[1] /\ e[2] = c[2]
      BY <1>1, <1>6
    <3> HIDE DEF a, b, w, h, f, g
    <3>5. CASE g < a
      <4>1. g * w + f < a * w + b
        BY <1>2, <3>1, <3>5, RowsInOrder
      <4> QED
        BY <1>2, <1>3, <3>1, <3>2, <3>3, <3>5, <4>1
    <3>6. CASE a < g
      <4>1. a * w + b < g * w + f
        BY <1>2, <3>1, <3>6, RowsInOrder
      <4>2. ~(Count(r, e) < Count(r, c) + 1)
        BY <1>2, <1>3, <3>1, <3>2, <3>3, <4>1
      <4>3. ~(g < a) /\ g # a
        BY <1>2, <3>1, <3>6
      <4> QED
        BY <3>1, <3>4, <4>2, <4>3
    <3>7. CASE g = a
      <4>1. g * w = a * w
        BY <3>7
      <4>2. Count(r, e) < Count(r, c) + 1 <=> f < b \/ f = b
        BY <1>2, <1>3, <3>1, <3>2, <3>3, <4>1
      <4>3. ~(g < a)
        BY <1>2, <3>7
      <4> QED
        BY <3>1, <3>4, <3>7, <4>2, <4>3
    <3>8. g < a \/ a < g \/ g = a
      BY <1>2, <3>1
    <3> QED
      BY <3>5, <3>6, <3>7, <3>8
  <2> QED
    BY <2>1 DEF Behind
<1>8. ASSUME c # <<r.x2, r.y2>>
      PROVE  /\ NextPixel(r, c) \in Area(r)
             /\ Count(r, NextPixel(r, c)) = Count(r, c) + 1
             /\ Behind(r, NextPixel(r, c)) = Behind(r, c) \cup {c}
  <2>1. CASE c[1] < r.x2
    <3>1. NextPixel(r, c) = <<c[1] + 1, c[2]>> /\ c[1] + 1 \in Int
      BY <1>1, <2>1 DEF NextPixel
    <3>2. NextPixel(r, c) \in Area(r)
      BY <1>1, <1>5, <2>1, <3>1
    <3>3. Count(r, NextPixel(r, c)) = a * w + (c[1] + 1 - r.x1)
      <4>1. ASSUME NEW x PROVE Count(r, <<x, c[2]>>) = a * w + (x - r.x1)
        BY CountIs
      <4>2. Count(r, NextPixel(r, c)) = a * w + ((c[1] + 1) - r.x1)
        BY <3>1, <4>1, Zenon
      <4> QED
        BY <1>1, <1>2, <4>2
    <3>4. Count(r, NextPixel(r, c)) = Count(r, c) + 1
      <4>1. a * w \in Nat /\ c[1] + 1 - r.x1 = b + 1
        BY <1>1, <1>2
      <4> HIDE DEF a, b, w
      <4> QED
        BY <1>2, <1>3, <3>3, <4>1
    <3>5. \A e \in Area(r) :
             (e[2] < c[2] \/ (e[2] = c[2] /\ e[1] < c[1] + 1)) <=>
             (e[2] < c[2] \/ (e[2] = c[2] /\ e[1] < c[1])) \/ e = c
      BY <1>1, <1>6
    <3> QED
      BY <3>1, <3>2, <3>4, <3>5 DEF Behind
  <2>2. CASE ~(c[1] < r.x2)
    <3>1. c[1] = r.x2 /\ c[2] < r.y2
      BY <1>1, <1>8, <2>2
    <3>2. NextPixel(r, c) = <<r.x1, c[2] + 1>> /\ c[2] + 1 \in Int
      BY <1>1, <2>2 DEF NextPixel
    <3>3. NextPixel(r, c) \in Area(r)
      BY <1>1, <1>5, <3>1, <3>2
    <3>4. Count(r, NextPixel(r, c)) = (a + 1) * w + (r.x1 - r.x1)
      <4>1. c[2] + 1 - r.y1 = a + 1
        BY <1>1
      <4>2. Count(r, NextPixel(r, c)) = (c[2] + 1 - r.y1) * w + (r.x1 - r.x1)
        BY <1>1, <3>2, CountIs
      <4> HIDE DEF a, w
      <4> QED
        BY <4>1, <4>2
    <3>5. Count(r, NextPixel(r, c)) = Count(r, c) + 1
      <4>1. b + 1 = w /\ r.x1 - r.x1 = 0
        BY <1>1, <3>1
      <4> HIDE DEF a, b, w
      <4>2. (a + 1) * w = a * w + w /\ a * w \in Nat
        BY <1>2, Distribute
      <4> QED
        BY <1>2, <1>3, <3>4, <4>1, <4>2
    <3>6. \A e \in Area(r) :
             (e[2] < c[2] + 1 \/ (e[2] = c[2] + 1 /\ e[1] < r.x1)) <=>
             (e[2] < c[2] \/ (e[2] = c[2] /\ e[1] < c[1])) \/ e = c
      BY <1>1, <1>6, <3>1
    <3> QED
      BY <3>2, <3>3, <3>5, <3>6 DEF Behind
  <2> QED
    BY <2>1, <2>2
<1>9. ASSUME c = <<r.x2, r.y2>> PROVE Count(r, c) + 1 = Size(r)
  <2>1. b + 1 = w /\ a + 1 = h
    BY <1>1, <1>9
  <2> HIDE DEF a, b, w, h
  <2>2. (a + 1) * w = a * w + w /\ a * w \in Nat /\ w * h = h * w
    BY <1>2, Distribute
  <2>3. h * w = (a + 1) * w
    BY <2>1
  <2> QED
    BY <1>2, <1>3, <2>1, <2>2, <2>3
<1> QED
  BY <1>4, <1>7, <1>8, <1>9

-----------------------------------------------------------------------------
(* A draw that nobody disturbs.                                            *)

LEMMA PrefixGrows ==
  ASSUME NEW S, NEW s \in Seq(S), NEW m \in Nat, m < Len(s)
  PROVE  /\ Append(SubSeq(s, 1, m), s[m + 1]) = SubSeq(s, 1, m + 1)
         /\ Len(SubSeq(s, 1, m)) = m
OBVIOUS

LEMMA WholePrefix ==
  ASSUME NEW S, NEW s \in Seq(S)
  PROVE  SubSeq(s, 1, Len(s)) = s /\ SubSeq(s, 1, 0) = <<>>
OBVIOUS

\* The panel puts together again what lcd_address_set took apart.
LEMMA PairIs ==
  ASSUME NEW a \in Nat, NEW b \in Nat, NEW n \in Nat, a <= b, b < n, n <= 256 * 256
  PROVE  Pair(a, b) \in Seq(Byte) /\ Len(Pair(a, b)) = 4 /\ Given(Pair(a, b), n) = <<a, b>>
<1>1. /\ a \div 256 \in Byte /\ a % 256 \in Byte /\ 256 * (a \div 256) + (a % 256) = a
      /\ b \div 256 \in Byte /\ b % 256 \in Byte /\ 256 * (b \div 256) + (b % 256) = b
  BY CoordinateBytes
<1>2. Pair(a, b) \in Seq(Byte) /\ Len(Pair(a, b)) = 4
  BY <1>1 DEF Pair
<1>3. /\ Pair(a, b)[1] = a \div 256 /\ Pair(a, b)[2] = a % 256
      /\ Pair(a, b)[3] = b \div 256 /\ Pair(a, b)[4] = b % 256
  BY DEF Pair
<1>4. 256 * Pair(a, b)[1] + Pair(a, b)[2] = a /\ 256 * Pair(a, b)[3] + Pair(a, b)[4] = b
  BY <1>1, <1>3
<1> QED
  BY <1>2, <1>4 DEF Given

\* The bytes of lcd_address_set, each a write of its own.
LEMMA AddressByte ==
  ASSUME TypeOK, NEW p \in Painters, Shift(p), at[p] <= 11
  PROVE  /\ sent[p] = 0 /\ sent'[p] = 0 /\ at'[p] = at[p] + 1 /\ pc'[p] = "pin" /\ bus' = None
         /\ at[p] \in 1 .. 11
         /\ Receive(AddressSet(draw[p].rect)[at[p]].bytes[1])
<1>1. WithinPanel(draw[p])
  BY DrawWithin
<1>2. /\ at[p] \in 1 .. 11 + draw[p].sends /\ draw[p].sends \in Nat \ {0}
      /\ Len(Writes(p, draw[p])) = 11 + draw[p].sends
      /\ sent[p] \in Nat /\ sent[p] < Len(Writes(p, draw[p])[at[p]].bytes)
  BY NextByte
<1>3. Len(Writes(p, draw[p])[at[p]].bytes) = 1
  BY <1>1, <1>2, WritesNotEmpty
<1>4. at[p] \in 1 .. 11 /\ at[p] < Len(Writes(p, draw[p])) /\ sent[p] = 0
  <2>1. ASSUME NEW k, NEW n \in Nat \ {0}, k \in 1 .. 11 + n, k <= 11
        PROVE  k \in 1 .. 11 /\ k < 11 + n
    BY <2>1
  <2>2. at[p] \in 1 .. 11 /\ at[p] < 11 + draw[p].sends
    BY <1>2, <2>1
  <2> QED
    BY <1>2, <1>3, <2>2
<1>5. Writes(p, draw[p])[at[p]] = AddressSet(draw[p].rect)[at[p]]
  <2>1. \A i \in 1 .. 11 : Writes(p, draw[p])[i] = AddressSet(draw[p].rect)[i]
    BY <1>1, WritesAre
  <2> QED
    BY <1>4, <2>1
<1>6. Shifted(p) /\ Receive(Writes(p, draw[p])[at[p]].bytes[sent[p] + 1])
  BY ShiftIs
<1>7. sent'[p] = 0 /\ at'[p] = at[p] + 1 /\ pc'[p] = "pin" /\ bus' = None
  BY <1>3, <1>4, <1>6 DEF Shifted
<1> QED
  BY <1>4, <1>5, <1>6, <1>7

\* An undisturbed draw between two writes.
LEMMA BetweenWrites ==
  ASSUME NEW p \in Painters, pc'[p] = "pin", bus' = None, at'[p] \in Nat, at'[p] > 1,
         Addressed(draw[p].rect, at[p])',
         at'[p] < 12 => ram' = before'[p],
         at'[p] >= 12 => Painting(p, draw[p], at[p] - 12)',
         at'[p] > 12 => dc' = "high"
  PROVE  Undisturbed(p)'
BY DEF Undisturbed

LEMMA ReceiveIs ==
  ASSUME NEW b, Receive(b)
  PROVE  /\ dc = "low" => TakeCommand(b)
         /\ dc = "high" /\ cmd \in {CASET, RASET} => TakeParameter(b)
         /\ dc = "high" /\ cmd = RAMWR => TakePixel(b)
<1>1. RAMWR \notin {CASET, RASET}
  BY DEF CASET, RASET, RAMWR
<1>2. CASE dc = "low"
  BY <1>2 DEF Receive
<1>3. CASE dc = "high" /\ cmd \in {CASET, RASET}
  <2>1. dc # "low" /\ cmd # RAMWR
    BY <1>1, <1>3
  <2> QED
    BY <1>1, <1>3, <2>1 DEF Receive
<1>4. CASE dc = "high" /\ cmd = RAMWR
  <2>1. dc # "low" /\ cmd \notin {CASET, RASET}
    BY <1>1, <1>4
  <2> QED
    BY <1>4, <2>1 DEF Receive
<1> QED
  BY <1>2, <1>3, <1>4

LEMMA ParameterIs ==
  ASSUME NEW b, NEW a, a = Append(args, b), TakeParameter(b)
  PROVE  /\ ram' = ram
         /\ Len(a) < 4 => args' = a /\ cmd' = cmd /\ cols' = cols /\ rows' = rows
         /\ ~(Len(a) < 4) /\ cmd = CASET => cols' = Given(a, W)
         /\ ~(Len(a) < 4) /\ cmd = RASET => rows' = Given(a, H) /\ cols' = cols
<1>1. CASET # RASET
  BY DEF CASET, RASET
<1>2. /\ IF Len(a) < 4
         THEN args' = a /\ UNCHANGED <<cmd, cols, rows>>
         ELSE /\ cmd' = 0 /\ args' = <<>>
              /\ cols' = IF cmd = CASET THEN Given(a, W) ELSE cols
              /\ rows' = IF cmd = RASET THEN Given(a, H) ELSE rows
      /\ UNCHANGED <<cursor, ram>>
  BY DEF TakeParameter
<1> QED
  BY <1>1, <1>2

\* One byte of lcd_address_set takes the panel to the next stage.
LEMMA AddressStep ==
  ASSUME TypeOK, NEW p \in Painters, before[p] # None, Undisturbed(p), Shift(p),
         at[p] <= 11, before'[p] = before[p]
  PROVE  Undisturbed(p)'
<1> DEFINE r == draw[p].rect
           k == at[p]
           b == AddressSet(r)[k].bytes[1]
           X == Pair(r.x1, r.x2)
           Y == Pair(r.y1, r.y2)
<1>1. /\ sent[p] = 0 /\ sent'[p] = 0 /\ at'[p] = k + 1 /\ pc'[p] = "pin" /\ bus' = None
      /\ k \in 1 .. 11 /\ Receive(b)
  BY AddressByte
<1>2. pc[p] = "shift" /\ draw' = draw /\ dc' = dc
  BY ShiftIs
<1>3. WithinPanel(draw[p])
  BY DrawWithin
<1>4. /\ r.x1 \in Nat /\ r.x2 \in Nat /\ r.y1 \in Nat /\ r.y2 \in Nat
      /\ r.x1 <= r.x2 /\ r.x2 < W /\ r.y1 <= r.y2 /\ r.y2 < H
  BY <1>3, Shares
<1>5. /\ X \in Seq(Byte) /\ Len(X) = 4 /\ Given(X, W) = <<r.x1, r.x2>>
      /\ Y \in Seq(Byte) /\ Len(Y) = 4 /\ Given(Y, H) = <<r.y1, r.y2>>
  BY <1>4, PairIs, PanelAssumption
<1>6. /\ k = 1 => b = CASET
      /\ k = 6 => b = RASET
      /\ k = 11 => b = RAMWR
      /\ k \in 2 .. 5 => b = X[k - 1]
      /\ k \in 7 .. 10 => b = Y[k - 6]
  <2>1. /\ AddressSet(r)[1].bytes[1] = CASET
        /\ AddressSet(r)[6].bytes[1] = RASET
        /\ AddressSet(r)[11].bytes[1] = RAMWR
        /\ \A i \in 2 .. 5 : AddressSet(r)[i].bytes[1] = X[i - 1]
        /\ \A i \in 7 .. 10 : AddressSet(r)[i].bytes[1] = Y[i - 6]
    BY <1>3, AddressWrites
  <2> HIDE DEF r, X, Y
  <2> QED
    BY <2>1
<1>7. /\ ram = before[p]
      /\ dc = IF k \in {1, 6, 11} THEN "low" ELSE "high"
      /\ k > 1 => Addressed(r, k)
  BY <1>1, <1>2 DEF Undisturbed
<1> HIDE DEF r, b, X, Y
<1>8. CASE k \in {1, 6}
  <2>1. TakeCommand(b)
    BY <1>1, <1>7, <1>8 DEF Receive
  <2>2. args' = <<>> /\ cols' = cols /\ ram' = ram /\ cmd' = b
    BY <1>6, <1>8, <2>1 DEF TakeCommand
  <2>3. SubSeq(X, 1, 0) = <<>> /\ SubSeq(Y, 1, 0) = <<>>
    BY <1>5, WholePrefix
  <2>4. k = 6 => cols = <<r.x1, r.x2>>
    BY <1>7 DEF Addressed
  <2>5. Addressed(draw[p].rect, at[p])'
    BY <1>1, <1>2, <1>6, <1>8, <2>2, <2>3, <2>4 DEF Addressed, r, X, Y
  <2> QED
    BY <1>1, <1>7, <1>8, <2>2, <2>5, BetweenWrites
<1>9. CASE k \in 2 .. 5
  <2>1. cmd = CASET /\ args = SubSeq(X, 1, k - 2)
    BY <1>7, <1>9 DEF Addressed, X
  <2>2. TakeParameter(b)
    <3>1. dc = "high" /\ cmd \in {CASET, RASET}
      BY <1>7, <1>9, <2>1
    <3> QED
      BY <1>1, <3>1, ReceiveIs
  <2>3. /\ k - 2 \in Nat /\ k - 2 < Len(X) /\ (k - 2) + 1 = k - 1
    BY <1>5, <1>9
  <2>4. Append(args, b) = SubSeq(X, 1, k - 1) /\ Len(Append(args, b)) = k - 1
    <3>1. Append(SubSeq(X, 1, k - 2), X[k - 1]) = SubSeq(X, 1, k - 1) /\ Len(SubSeq(X, 1, k - 2)) = k - 2
      BY <1>5, <2>3, PrefixGrows
    <3>2. b = X[k - 1]
      BY <1>6, <1>9
    <3>3. Append(args, b) = SubSeq(X, 1, k - 1)
      BY <2>1, <3>1, <3>2
    <3>4. Len(Append(args, b)) = Len(args) + 1
      BY OneMore DEF TypeOK, PanelOK
    <3> QED
      BY <2>1, <2>3, <3>1, <3>3, <3>4
  <2>5. CASE k < 5
    <3>1. args' = SubSeq(X, 1, k - 1) /\ cmd' = CASET /\ ram' = ram
      <4>1. Len(Append(args, b)) < 4
        BY <1>9, <2>4, <2>5
      <4> QED
        BY <2>1, <2>2, <2>4, <4>1, ParameterIs
    <3>2. Addressed(draw[p].rect, at[p])'
      BY <1>1, <1>2, <1>9, <2>5, <3>1 DEF Addressed, r, X
    <3> QED
      BY <1>1, <1>7, <1>9, <3>1, <3>2, BetweenWrites
  <2>6. CASE k = 5
    <3>1. Append(args, b) = X
      BY <1>5, <2>4, <2>6, WholePrefix
    <3>2. cols' = Given(X, W) /\ ram' = ram
      <4>1. ~(Len(Append(args, b)) < 4)
        <5>1. Len(Append(args, b)) = 4
          BY <1>5, <3>1, Zenon
        <5> QED
          BY <5>1
      <4> QED
        BY <2>1, <2>2, <3>1, <4>1, ParameterIs
    <3>3. Addressed(draw[p].rect, at[p])'
      BY <1>1, <1>2, <1>5, <2>6, <3>2 DEF Addressed, r
    <3> QED
      BY <1>1, <1>7, <1>9, <3>2, <3>3, BetweenWrites
  <2> QED
    BY <1>9, <2>5, <2>6
<1>10. CASE k \in 7 .. 10
  <2>1. cmd = RASET /\ args = SubSeq(Y, 1, k - 7) /\ cols = <<r.x1, r.x2>>
    BY <1>7, <1>10 DEF Addressed, Y
  <2>2. TakeParameter(b)
    <3>1. dc = "high" /\ cmd \in {CASET, RASET}
      BY <1>7, <1>10, <2>1
    <3> QED
      BY <1>1, <3>1, ReceiveIs
  <2>3. /\ k - 7 \in Nat /\ k - 7 < Len(Y) /\ (k - 7) + 1 = k - 6
    BY <1>5, <1>10
  <2>4. Append(args, b) = SubSeq(Y, 1, k - 6) /\ Len(Append(args, b)) = k - 6
    <3>1. Append(SubSeq(Y, 1, k - 7), Y[k - 6]) = SubSeq(Y, 1, k - 6) /\ Len(SubSeq(Y, 1, k - 7)) = k - 7
      BY <1>5, <2>3, PrefixGrows
    <3>2. b = Y[k - 6]
      BY <1>6, <1>10
    <3>3. Append(args, b) = SubSeq(Y, 1, k - 6)
      BY <2>1, <3>1, <3>2
    <3>4. Len(Append(args, b)) = Len(args) + 1
      BY OneMore DEF TypeOK, PanelOK
    <3> QED
      BY <2>1, <2>3, <3>1, <3>3, <3>4
  <2>5. CASE k < 10
    <3>1. args' = SubSeq(Y, 1, k - 6) /\ cmd' = RASET /\ ram' = ram /\ cols' = cols
      <4>1. Len(Append(args, b)) < 4
        <5>1. k - 6 < 4
          BY <1>10, <2>5
        <5> QED
          BY <2>4, <5>1
      <4> QED
        BY <2>1, <2>2, <2>4, <4>1, ParameterIs
    <3>2. Addressed(draw[p].rect, at[p])'
      BY <1>1, <1>2, <1>10, <2>1, <2>5, <3>1 DEF Addressed, r, Y
    <3> QED
      BY <1>1, <1>7, <1>10, <3>1, <3>2, BetweenWrites
  <2>6. CASE k = 10
    <3>1. Append(args, b) = Y
      BY <1>5, <2>4, <2>6, WholePrefix
    <3>2. rows' = Given(Y, H) /\ ram' = ram /\ cols' = cols
      <4>1. ~(Len(Append(args, b)) < 4)
        <5>1. Len(Append(args, b)) = 4
          BY <1>5, <3>1, Zenon
        <5> QED
          BY <5>1
      <4> QED
        BY <2>1, <2>2, <3>1, <4>1, ParameterIs
    <3>3. Addressed(draw[p].rect, at[p])'
      BY <1>1, <1>2, <1>5, <2>1, <2>6, <3>2 DEF Addressed, r
    <3> QED
      BY <1>1, <1>7, <1>10, <3>2, <3>3, BetweenWrites
  <2> QED
    BY <1>10, <2>5, <2>6
<1>11. CASE k = 11
  <2>1. TakeCommand(RAMWR) /\ cols = <<r.x1, r.x2>> /\ rows = <<r.y1, r.y2>>
    BY <1>1, <1>6, <1>7, <1>11 DEF Receive, Addressed
  <2>2. Start = <<r.x1, r.y1>>
    <3>1. cols # Nowhere /\ rows # Nowhere
      BY <1>4, <2>1, Windows
    <3> QED
      BY <2>1, <3>1 DEF Start
  <2>3. /\ cmd' = RAMWR /\ args' = <<>> /\ cursor' = <<r.x1, r.y1>>
        /\ cols' = cols /\ rows' = rows /\ ram' = ram
    BY <2>1, <2>2 DEF TakeCommand
  <2>4. Addressed(draw[p].rect, at[p])'
    BY <1>1, <1>2, <1>11, <2>1, <2>3 DEF Addressed, r
  <2>5. Painting(p, draw[p], at[p] - 12)'
    <3>1. cursor' \in Area(r) /\ Behind(r, cursor') = {} /\ Count(r, cursor') = 0
      <4>1. <<r.x1, r.y1>> \in Area(r)
        BY <1>4 DEF Area
      <4>2. Behind(r, <<r.x1, r.y1>>) = {}
        BY <1>4 DEF Behind, Area
      <4>3. Count(r, <<r.x1, r.y1>>) = (r.y1 - r.y1) * (r.x2 - r.x1 + 1) + (r.x1 - r.x1)
        BY CountIs
      <4>4. (r.y1 - r.y1) * (r.x2 - r.x1 + 1) = 0 /\ r.x1 - r.x1 = 0
        BY <1>4
      <4> QED
        BY <2>3, <4>1, <4>2, <4>3, <4>4
    <3>2. ram = [c \in Pixels |-> before[p][c]]
      BY <1>7 DEF TypeOK, PanelOK
    <3>3. at'[p] - 12 = 0 /\ 0 * PerSend(draw[p]) = 0 /\ Len(args') = 0
      <4>1. PerSend(draw[p]) \in Nat
        BY <1>3, Shares
      <4> QED
        BY <1>1, <1>11, <2>3, <4>1
    <3>4. sent'[p] = 2 * (Count(r, cursor') - (at'[p] - 12) * PerSend(draw[p])) + Len(args')
      BY <1>1, <3>1, <3>3
    <3>5. ram' = [c \in Pixels |-> IF c \in Behind(r, cursor') THEN <<Hi[p], Lo[p]>>
                                   ELSE before'[p][c]]
      BY <2>3, <3>1, <3>2
    <3> QED
      BY <1>2, <2>3, <3>1, <3>4, <3>5 DEF Painting, PerSend, r
  <2> QED
    BY <1>1, <1>11, <2>4, <2>5, BetweenWrites
<1> QED
  BY <1>1, <1>8, <1>9, <1>10, <1>11

-----------------------------------------------------------------------------
(* The pixels of the draw.                                                 *)

\* s bytes of a transfer are out: C pixels and no byte, or one byte, of the next,
\* of which m pixels were sent in the transfers before.
LEMMA Halves ==
  ASSUME NEW C \in Nat, NEW m \in Nat, NEW n \in Nat \ {0}, NEW s \in Nat, s < 2 * n
  PROVE  /\ s = 2 * (C - m) + 0 => (s + 1) % 2 = 1 /\ s + 1 < 2 * n
         /\ s = 2 * (C - m) + 1 =>
               /\ (s + 1) % 2 = 0 /\ s + 1 = 2 * ((C + 1) - m) + 0
               /\ s + 1 < 2 * n => C + 1 < m + n
               /\ s + 1 = 2 * n => C + 1 = m + n
OBVIOUS

\* The byte that follows, in the transfer a painter is at.
LEMMA PixelByte ==
  ASSUME TypeOK, NEW p \in Painters, Shift(p), at[p] >= 12
  PROVE  LET d == draw[p]
             n == PerSend(d)
         IN /\ at[p] - 12 \in Nat /\ at[p] - 12 < d.sends /\ sent[p] \in Nat /\ sent[p] < 2 * n
            /\ Receive(IF (sent[p] + 1) % 2 = 1 THEN Hi[p] ELSE Lo[p])
            /\ \/ /\ sent[p] + 1 < 2 * n
                  /\ sent'[p] = sent[p] + 1 /\ at'[p] = at[p] /\ pc'[p] = "shift" /\ bus' = p
               \/ /\ sent[p] + 1 = 2 * n /\ (at[p] - 12) + 1 < d.sends
                  /\ sent'[p] = 0 /\ at'[p] = at[p] + 1 /\ pc'[p] = "pin" /\ bus' = None
               \/ /\ sent[p] + 1 = 2 * n /\ (at[p] - 12) + 1 = d.sends
                  /\ sent'[p] = 0 /\ at'[p] = 1 /\ pc'[p] = "done" /\ bus' = None
<1> DEFINE d == draw[p]
           n == PerSend(d)
           w == Writes(p, d)
           k == at[p]
<1>1. WithinPanel(d)
  BY DrawWithin
<1>2. /\ k \in 1 .. 11 + d.sends /\ d.sends \in Nat \ {0} /\ Len(w) = 11 + d.sends
      /\ sent[p] \in Nat /\ sent[p] < Len(w[k].bytes)
  BY NextByte
<1>3. n \in Nat \ {0}
  BY <1>1, Shares
<1>4. k \in 12 .. 11 + d.sends /\ k - 11 \in 1 .. d.sends /\ k > 11 /\ k \in Nat
  <2>1. ASSUME NEW j, NEW m \in Nat, j \in 1 .. 11 + m, j >= 12
        PROVE  j \in 12 .. 11 + m /\ j - 11 \in 1 .. m /\ j > 11 /\ j \in Nat
    BY <2>1
  <2> QED
    BY <1>2, <2>1
<1>5. w[k].bytes = Bytes(p, n)
  <2>1. \A i \in 12 .. 11 + d.sends : w[i] = Transfers(p, d)[i - 11]
    BY <1>1, WritesAre
  <2>2. \A i \in 1 .. d.sends : Transfers(p, d)[i].bytes = Bytes(p, n)
    BY <1>1, TransferWrites
  <2> QED
    BY <1>4, <2>1, <2>2
<1>6. Len(w[k].bytes) = 2 * n
  BY <1>1, <1>2, <1>4, WritesNotEmpty
<1>7. Shifted(p) /\ Receive(w[k].bytes[sent[p] + 1])
  BY ShiftIs
<1>8. w[k].bytes[sent[p] + 1] = IF (sent[p] + 1) % 2 = 1 THEN Hi[p] ELSE Lo[p]
  <2>1. ASSUME NEW s \in Nat, NEW m \in Nat, s < 2 * m
        PROVE  Bytes(p, m)[s + 1] = IF (s + 1) % 2 = 1 THEN Hi[p] ELSE Lo[p]
    BY <2>1 DEF Bytes
  <2> QED
    BY <1>2, <1>3, <1>5, <1>6, <2>1
<1>9. \/ /\ sent[p] + 1 < 2 * n
         /\ sent'[p] = sent[p] + 1 /\ at'[p] = k /\ pc'[p] = "shift" /\ bus' = p
      \/ /\ sent[p] + 1 = 2 * n /\ k < 11 + d.sends
         /\ sent'[p] = 0 /\ at'[p] = k + 1 /\ pc'[p] = "pin" /\ bus' = None
      \/ /\ sent[p] + 1 = 2 * n /\ k = 11 + d.sends
         /\ sent'[p] = 0 /\ at'[p] = 1 /\ pc'[p] = "done" /\ bus' = None
  BY <1>2, <1>6, <1>7, Zenon DEF Shifted
<1> HIDE DEF d, n, w
<1>10. /\ k < 11 + d.sends => (k - 12) + 1 < d.sends
       /\ k = 11 + d.sends => (k - 12) + 1 = d.sends
       /\ k - 12 \in Nat /\ k - 12 < d.sends
  BY <1>2, <1>4
<1>11. sent[p] \in Nat /\ sent[p] < 2 * n
  BY <1>2, <1>6
<1>12. Receive(IF (sent[p] + 1) % 2 = 1 THEN Hi[p] ELSE Lo[p])
  BY <1>7, <1>8, Zenon
<1> QED
  BY <1>9, <1>10, <1>11, <1>12 DEF d, n

\* The panel goes on along the window.
LEMMA AdvanceIs ==
  ASSUME NEW r, r.x1 \in Nat, r.x2 \in Nat, r.y1 \in Nat, r.y2 \in Nat,
         r.x1 <= r.x2, r.x2 < W, r.y1 <= r.y2, r.y2 < H,
         cols = <<r.x1, r.x2>>, rows = <<r.y1, r.y2>>,
         NEW c \in Area(r), c # <<r.x2, r.y2>>
  PROVE  Advance(c) = NextPixel(r, c)
<1>1. c[1] \in r.x1 .. r.x2 /\ c[2] \in r.y1 .. r.y2 /\ c = <<c[1], c[2]>>
  BY DEF Area
<1>2. c # Nowhere
  <2>1. c[1] # W
    BY <1>1
  <2>2. Nowhere[1] = W
    BY DEF Nowhere
  <2> QED
    BY <2>1, <2>2
<1>3. c[1] < r.x2 \/ c[2] < r.y2
  BY <1>1
<1>4. cols[1] = r.x1 /\ cols[2] = r.x2 /\ rows[2] = r.y2
  OBVIOUS
<1> QED
  BY <1>2, <1>3, <1>4, Zenon DEF Advance, NextPixel

LEMMA ColourIs ==
  ASSUME NEW p \in Painters
  PROVE  Colour(Hi[p], Lo[p]) = <<Hi[p], Lo[p]>>
BY DEF Colour

\* The second byte of a pixel paints it.
LEMMA PixelPainted ==
  ASSUME NEW p \in Painters, NEW r, NEW old, TakePixel(Lo[p]), args = <<Hi[p]>>,
         ram = [c \in Pixels |-> IF c \in Behind(r, cursor) THEN <<Hi[p], Lo[p]>> ELSE old[c]]
  PROVE  /\ args' = <<>> /\ cursor' = Advance(cursor)
         /\ UNCHANGED <<cmd, cols, rows>>
         /\ ram' = [c \in Pixels |-> IF c \in Behind(r, cursor) \cup {cursor}
                                     THEN <<Hi[p], Lo[p]>> ELSE old[c]]
<1>1. args # <<>> /\ args[1] = Hi[p]
  OBVIOUS
<1>2. /\ args' = <<>> /\ cursor' = Advance(cursor) /\ UNCHANGED <<cmd, cols, rows>>
      /\ ram' = [c \in Pixels |-> IF c = cursor THEN Colour(args[1], Lo[p]) ELSE ram[c]]
  BY <1>1, Zenon DEF TakePixel
<1>3. Colour(args[1], Lo[p]) = <<Hi[p], Lo[p]>>
  BY <1>1, ColourIs
<1>4. \A c \in Pixels : ram[c] = IF c \in Behind(r, cursor) THEN <<Hi[p], Lo[p]>> ELSE old[c]
  OBVIOUS
<1>5. [c \in Pixels |-> IF c = cursor THEN Colour(args[1], Lo[p]) ELSE ram[c]]
         = [c \in Pixels |-> IF c \in Behind(r, cursor) \cup {cursor}
                             THEN <<Hi[p], Lo[p]>> ELSE old[c]]
  BY <1>3, <1>4, Zenon
<1> QED
  BY <1>2, <1>5

\* One byte of a transfer: half a pixel, a pixel, the last pixel of the transfer
\* or the last of the draw.
LEMMA PixelStep ==
  ASSUME TypeOK, NEW p \in Painters, before[p] # None, Undisturbed(p), Shift(p),
         at[p] >= 12, before'[p] = before[p]
  PROVE  Undisturbed(p)'
<1> DEFINE d == draw[p]
           r == d.rect
           n == PerSend(d)
           i == at[p] - 12
           s == sent[p]
           C == Count(r, cursor)
           m == i * n
           b == IF (s + 1) % 2 = 1 THEN Hi[p] ELSE Lo[p]
<1>1. /\ i \in Nat /\ i < d.sends /\ s \in Nat /\ s < 2 * n /\ Receive(b)
      /\ \/ /\ s + 1 < 2 * n
            /\ sent'[p] = s + 1 /\ at'[p] = at[p] /\ pc'[p] = "shift" /\ bus' = p
         \/ /\ s + 1 = 2 * n /\ i + 1 < d.sends
            /\ sent'[p] = 0 /\ at'[p] = at[p] + 1 /\ pc'[p] = "pin" /\ bus' = None
         \/ /\ s + 1 = 2 * n /\ i + 1 = d.sends
            /\ sent'[p] = 0 /\ at'[p] = 1 /\ pc'[p] = "done" /\ bus' = None
  BY PixelByte
<1>2. pc[p] = "shift" /\ draw' = draw /\ dc' = dc
  BY ShiftIs
<1>3. WithinPanel(d)
  BY DrawWithin
<1>4. /\ r.x1 \in Nat /\ r.x2 \in Nat /\ r.y1 \in Nat /\ r.y2 \in Nat
      /\ r.x1 <= r.x2 /\ r.x2 < W /\ r.y1 <= r.y2 /\ r.y2 < H
      /\ d.sends \in Nat \ {0} /\ d.pixels \in Nat \ {0}
      /\ Size(r) \in Nat /\ d.pixels <= Size(r)
      /\ n \in Nat \ {0} /\ d.sends * n = d.pixels
  BY <1>3, Shares
<1>5. at[p] \in Nat
  BY DEF TypeOK
<1>6. Addressed(r, at[p]) /\ Painting(p, d, i) /\ dc = "high"
  <2>1. at[p] > 1 /\ at[p] \notin {6, 11}
    BY <1>5
  <2> QED
    BY <1>2, <2>1 DEF Undisturbed
<1>7. cols = <<r.x1, r.x2>> /\ rows = <<r.y1, r.y2>>
  <2>1. at[p] >= 6 /\ at[p] >= 11
    BY <1>5
  <2> QED
    BY <1>6, <2>1 DEF Addressed
<1>8. /\ cmd = RAMWR /\ cursor \in Area(r) /\ args \in {<<>>, <<Hi[p]>>}
      /\ s = 2 * (C - m) + Len(args)
      /\ ram = [c \in Pixels |-> IF c \in Behind(r, cursor) THEN <<Hi[p], Lo[p]>>
                                 ELSE before[p][c]]
  BY <1>6 DEF Painting
<1>9. /\ C \in Nat
      /\ {c \in Area(r) : Count(r, c) < C + 1} = Behind(r, cursor) \cup {cursor}
      /\ cursor # <<r.x2, r.y2>> =>
            /\ NextPixel(r, cursor) \in Area(r)
            /\ Count(r, NextPixel(r, cursor)) = C + 1
            /\ Behind(r, NextPixel(r, cursor)) = Behind(r, cursor) \cup {cursor}
      /\ cursor = <<r.x2, r.y2>> => C + 1 = Size(r)
  BY <1>4, <1>8, WindowSteps
<1>10. m \in Nat /\ (i + 1) * n = m + n
  <2>1. i \in Int /\ n \in Int
    BY <1>1, <1>4
  <2>2. (i + 1) * n = m + n
    BY <2>1, Distribute
  <2>3. ASSUME NEW u \in Nat, NEW v \in Nat PROVE u * v \in Nat
    OBVIOUS
  <2> QED
    BY <1>1, <1>4, <2>2, <2>3
<1>11. TakePixel(b)
  BY <1>1, <1>6, <1>8, ReceiveIs
<1>12. ASSUME at'[p] = at[p], pc'[p] = "shift", bus' = p,
              cols' = cols, rows' = rows, Painting(p, d, i)'
       PROVE  Undisturbed(p)'
  <2>1. Addressed(draw[p].rect, at[p])'
    BY <1>2, <1>5, <1>7, <1>12 DEF Addressed
  <2>2. at'[p] \in Nat /\ at'[p] >= 12 /\ at'[p] > 1 /\ at'[p] \notin {6, 11} /\ ~(at'[p] < 12)
    BY <1>5, <1>12
  <2> QED
    BY <1>2, <1>6, <1>12, <2>1, <2>2 DEF Undisturbed
<1> HIDE DEF d, r, n, i, s, C, m, b
<1>13. CASE args = <<>>
  <2>1. s = 2 * (C - m) + 0
    BY <1>8, <1>13
  <2>2. (s + 1) % 2 = 1 /\ s + 1 < 2 * n
    BY <1>1, <1>4, <1>9, <1>10, <2>1, Halves
  <2>3. b = Hi[p]
    BY <2>2 DEF b
  <2>4. /\ args' = <<Hi[p]>>
        /\ UNCHANGED <<cmd, cols, rows, cursor, ram>>
    BY <1>11, <1>13, <2>3 DEF TakePixel
  <2>5. sent'[p] = s + 1 /\ at'[p] = at[p] /\ pc'[p] = "shift" /\ bus' = p
    <3>1. s + 1 # 2 * n
      BY <1>1, <1>4, <2>2
    <3> QED
      BY <1>1, <3>1
  <2>6. sent'[p] = 2 * (C - m) + Len(args')
    <3>1. Len(args') = 1
      BY <2>4
    <3> QED
      BY <1>9, <1>10, <2>1, <2>5, <3>1
  <2>7. Painting(p, d, i)'
    <3>1. d' = d /\ i' = i /\ r' = r /\ n' = n
      BY <1>2, <2>5 DEF d, i, r, n, PerSend
    <3>2. /\ cmd' = RAMWR /\ cursor' \in Area(r) /\ args' \in {<<>>, <<Hi[p]>>}
          /\ ram' = [c \in Pixels |-> IF c \in Behind(r, cursor') THEN <<Hi[p], Lo[p]>>
                                      ELSE before'[p][c]]
      BY <1>8, <2>4
    <3>3. sent'[p] = 2 * (Count(r, cursor') - i * n) + Len(args')
      BY <2>4, <2>6 DEF C, m
    <3> QED
      BY <3>1, <3>2, <3>3 DEF Painting, r, n
  <2> QED
    BY <1>12, <2>4, <2>5, <2>7
<1>14. CASE args = <<Hi[p]>>
  <2>1. s = 2 * (C - m) + 1
    <3>1. Len(args) = 1
      BY <1>14
    <3> QED
      BY <1>8, <3>1
  <2>2. /\ (s + 1) % 2 = 0 /\ s + 1 = 2 * ((C + 1) - m) + 0
        /\ s + 1 < 2 * n => C + 1 < m + n
        /\ s + 1 = 2 * n => C + 1 = m + n
    BY <1>1, <1>4, <1>9, <1>10, <2>1, Halves
  <2>3. b = Lo[p]
    BY <2>2 DEF b
  <2>4. /\ args' = <<>> /\ cursor' = Advance(cursor) /\ UNCHANGED <<cmd, cols, rows>>
        /\ ram' = [c \in Pixels |-> IF c \in Behind(r, cursor) \cup {cursor}
                                    THEN <<Hi[p], Lo[p]>> ELSE before[p][c]]
    BY <1>8, <1>11, <1>14, <2>3, PixelPainted
  <2>5. m + n <= d.pixels /\ (i + 1 < d.sends => m + n < d.pixels)
        /\ (i + 1 = d.sends => m + n = d.pixels)
    <3>1. i + 1 \in Nat /\ i + 1 <= d.sends /\ n \in Nat
      BY <1>1, <1>4
    <3>2. (i + 1) * n <= d.sends * n
      BY <1>4, <3>1, ProductGrows
    <3>3. ASSUME i + 1 < d.sends PROVE m + n < d.pixels
      <4>1. (i + 1) + 1 \in Nat /\ (i + 1) + 1 <= d.sends
        BY <1>1, <1>4, <3>3
      <4>2. ((i + 1) + 1) * n <= d.sends * n
        BY <1>4, <3>1, <4>1, ProductGrows
      <4>3. ((i + 1) + 1) * n = (i + 1) * n + n
        BY <3>1, Distribute
      <4> QED
        BY <1>4, <1>10, <4>2, <4>3
    <3>4. ASSUME i + 1 = d.sends PROVE m + n = d.pixels
      BY <1>4, <1>10, <3>4
    <3> QED
      BY <1>4, <1>10, <3>2, <3>3, <3>4
  <2>6. ASSUME C + 1 < Size(r)
        PROVE  /\ cursor' \in Area(r) /\ Count(r, cursor') = C + 1
               /\ ram' = [c \in Pixels |-> IF c \in Behind(r, cursor') THEN <<Hi[p], Lo[p]>>
                                           ELSE before'[p][c]]
    <3>1. cursor # <<r.x2, r.y2>>
      BY <1>4, <1>9, <2>6
    <3>2. cursor' = NextPixel(r, cursor)
      BY <1>4, <1>7, <1>8, <2>4, <3>1, AdvanceIs
    <3> QED
      BY <1>9, <2>4, <3>1, <3>2
  <2>7. CASE /\ s + 1 < 2 * n
             /\ sent'[p] = s + 1 /\ at'[p] = at[p] /\ pc'[p] = "shift" /\ bus' = p
    <3>1. C + 1 < Size(r)
      BY <1>4, <1>9, <1>10, <2>2, <2>5, <2>7
    <3>2. Len(args') = 0
      BY <2>4
    <3>3. sent'[p] = 2 * (Count(r, cursor') - i * n) + Len(args')
      BY <2>2, <2>6, <2>7, <3>1, <3>2 DEF m
    <3>4. d' = d /\ i' = i /\ r' = r /\ n' = n
      BY <1>2, <2>7 DEF d, i, r, n, PerSend
    <3>5. Painting(p, d, i)'
      BY <1>8, <2>4, <2>6, <3>1, <3>3, <3>4 DEF Painting, r, n
    <3> QED
      BY <1>12, <2>4, <2>7, <3>5
  <2>8. CASE /\ s + 1 = 2 * n /\ i + 1 < d.sends
             /\ sent'[p] = 0 /\ at'[p] = at[p] + 1 /\ pc'[p] = "pin" /\ bus' = None
    <3>1. C + 1 = m + n /\ C + 1 < Size(r)
      BY <1>4, <1>9, <1>10, <2>2, <2>5, <2>8
    <3>2. Len(args') = 0
      BY <2>4
    <3>3. at'[p] - 12 = i + 1
      BY <1>5, <2>8 DEF i
    <3>4. sent'[p] = 2 * (Count(r, cursor') - (i + 1) * n) + Len(args')
      <4>1. Count(r, cursor') = (i + 1) * n /\ (i + 1) * n \in Nat
        BY <1>4, <1>10, <2>6, <3>1
      <4> QED
        BY <2>8, <3>2, <4>1
    <3>5. d' = d /\ r' = r /\ n' = n
      BY <1>2 DEF d, r, n, PerSend
    <3>6. Painting(p, draw[p], at[p] - 12)'
      BY <1>8, <2>4, <2>6, <3>1, <3>3, <3>4, <3>5 DEF Painting, r, n, d
    <3>7. Addressed(draw[p].rect, at[p])'
      BY <1>2, <1>5, <1>7, <2>4, <2>8 DEF Addressed, r, d
    <3>8. at'[p] \in Nat /\ at'[p] > 1 /\ ~(at'[p] < 12)
      BY <1>5, <2>8
    <3> QED
      BY <1>2, <1>6, <2>8, <3>6, <3>7, <3>8, BetweenWrites
  <2>9. CASE /\ s + 1 = 2 * n /\ i + 1 = d.sends
             /\ sent'[p] = 0 /\ at'[p] = 1 /\ pc'[p] = "done" /\ bus' = None
    <3>1. C + 1 = d.pixels
      BY <2>2, <2>5, <2>9
    <3>2. Painted(d) = Behind(r, cursor) \cup {cursor}
      BY <1>9, <3>1 DEF Painted, r
    <3>3. ram' = [c \in Pixels |-> IF c \in Painted(d) THEN <<Hi[p], Lo[p]>> ELSE before'[p][c]]
      BY <2>4, <3>2
    <3>4. draw'[p] = d
      BY <1>2 DEF d
    <3> QED
      BY <2>9, <3>3, <3>4 DEF Undisturbed
  <2> QED
    BY <1>1, <2>7, <2>8, <2>9
<1> QED
  BY <1>8, <1>13, <1>14

-----------------------------------------------------------------------------
(* Every step leaves the undisturbed draws in order.                       *)

LEMMA PaintingKept ==
  ASSUME NEW p \in Painters, UNCHANGED panel, draw'[p] = draw[p], at'[p] = at[p],
         sent'[p] = sent[p], before'[p] = before[p]
  PROVE  /\ Addressed(draw[p].rect, at[p]) => Addressed(draw[p].rect, at[p])'
         /\ Painting(p, draw[p], at[p] - 12) => Painting(p, draw[p], at[p] - 12)'
<1>1. /\ cmd' = cmd /\ args' = args /\ cols' = cols /\ rows' = rows /\ cursor' = cursor
      /\ ram' = ram
  BY DEF panel
<1> QED
  BY <1>1 DEF Addressed, Painting, PerSend

\* Steps that change neither panel, pin nor bus, nor what q is at.
LEMMA LeftAlone ==
  ASSUME NEW q \in Painters, Undisturbed(q), UNCHANGED <<dc, bus, panel>>,
         pc'[q] = pc[q], draw'[q] = draw[q], at'[q] = at[q], sent'[q] = sent[q],
         before'[q] = before[q]
  PROVE  Undisturbed(q)'
<1>1. /\ Addressed(draw[q].rect, at[q]) => Addressed(draw[q].rect, at[q])'
      /\ Painting(q, draw[q], at[q] - 12) => Painting(q, draw[q], at[q] - 12)'
  BY PaintingKept
<1>2. ram' = ram /\ dc' = dc /\ bus' = bus
  BY DEF panel
<1> QED
  BY <1>1, <1>2 DEF Undisturbed

\* The pin is low for the commands and high for all else.
LEMMA PinLevel ==
  ASSUME TypeOK, NEW p \in Painters, at[p] > 12 => dc = "high"
  PROVE  LET w == Writes(p, draw[p])[at[p]]
         IN (IF w.pin = "keep" THEN dc ELSE w.pin) = IF at[p] \in {1, 6, 11} THEN "low" ELSE "high"
<1> DEFINE d == draw[p]
           k == at[p]
           w == Writes(p, d)[k]
<1>1. WithinPanel(d)
  BY DrawWithin
<1>2. k \in 1 .. 11 + d.sends /\ d.sends \in Nat \ {0}
  BY NextByte
<1>3. CASE k <= 11
  <2>1. k \in 1 .. 11
    BY <1>2, <1>3
  <2>2. w = AddressSet(d.rect)[k]
    <3>1. \A i \in 1 .. 11 : Writes(p, d)[i] = AddressSet(d.rect)[i]
      BY <1>1, WritesAre
    <3> QED
      BY <2>1, <3>1
  <2>3. w.pin = IF k \in {1, 6, 11} THEN "low" ELSE "high"
    <3>1. \A i \in 1 .. 11 :
             AddressSet(d.rect)[i].pin = IF i \in {1, 6, 11} THEN "low" ELSE "high"
      BY <1>1, AddressWrites
    <3> HIDE DEF d, k, w
    <3> QED
      BY <2>1, <2>2, <3>1
  <2> QED
    BY <2>3
<1>4. CASE k > 11
  <2>1. k \in 12 .. 11 + d.sends /\ k - 11 \in 1 .. d.sends /\ k \notin {1, 6, 11}
    BY <1>2, <1>4
  <2>2. w = Transfers(p, d)[k - 11]
    <3>1. \A i \in 12 .. 11 + d.sends : Writes(p, d)[i] = Transfers(p, d)[i - 11]
      BY <1>1, WritesAre
    <3> QED
      BY <2>1, <3>1
  <2>3. w.pin = IF k - 11 = 1 \/ d.pinEach THEN "high" ELSE "keep"
    <3>1. \A i \in 1 .. d.sends :
             Transfers(p, d)[i].pin = IF i = 1 \/ d.pinEach THEN "high" ELSE "keep"
      BY <1>1, TransferWrites
    <3> HIDE DEF d, k, w
    <3> QED
      BY <2>1, <2>2, <3>1
  <2>4. k - 11 # 1 => k > 12
    BY <1>2, <1>4
  <2> QED
    BY <2>1, <2>3, <2>4
<1> QED
  BY <1>2, <1>3, <1>4

LEMMA PinStep ==
  ASSUME TypeOK, DrawInv, NEW p \in Painters, WritePin(p), before'[p] # None
  PROVE  Undisturbed(p)'
<1>1. /\ pc[p] = "pin" /\ pc'[p] = "shift" /\ UNCHANGED <<bus, panel, draw, at, sent>>
      /\ before'[p] = IF at[p] = 1 THEN ram ELSE before[p]
      /\ dc' = LET w == Writes(p, draw[p])[at[p]]
               IN IF w.pin = "keep" THEN dc ELSE w.pin
  BY DEF WritePin, Disturb, TypeOK
<1>2. at[p] \in Nat /\ at[p] >= 1
  BY NextByte
<1>3. ram' = ram
  BY <1>1 DEF panel
<1>4. CASE at[p] = 1
  <2>1. dc' = "low"
    <3>1. at[p] > 12 => dc = "high"
      BY <1>4
    <3> QED
      BY <1>1, <1>4, <3>1, PinLevel
  <2> QED
    BY <1>1, <1>3, <1>4, <2>1 DEF Undisturbed
<1>5. CASE at[p] # 1
  <2>1. at[p] > 1 /\ before'[p] = before[p]
    BY <1>1, <1>2, <1>5
  <2>2. Undisturbed(p)
    BY <2>1 DEF DrawInv
  <2>3. at[p] > 12 => dc = "high"
    BY <2>1, <2>2 DEF Undisturbed
  <2>4. dc' = IF at[p] \in {1, 6, 11} THEN "low" ELSE "high"
    BY <1>1, <2>3, PinLevel
  <2>5. dc' = IF at[p] \in {6, 11} THEN "low" ELSE "high"
    BY <1>5, <2>4
  <2>6. /\ Addressed(draw[p].rect, at[p]) => Addressed(draw[p].rect, at[p])'
        /\ Painting(p, draw[p], at[p] - 12) => Painting(p, draw[p], at[p] - 12)'
    BY <1>1, <2>1, PaintingKept
  <2>7. at[p] > 12 => at[p] \notin {6, 11}
    BY <1>2
  <2> QED
    BY <1>1, <1>3, <1>5, <2>1, <2>2, <2>5, <2>6, <2>7 DEF Undisturbed
<1> QED
  BY <1>4, <1>5

\* Another painter's byte reaches the panel in the middle of a transfer only, and
\* then is a command.
LEMMA OthersByte ==
  ASSUME TypeOK, DrawInv, NEW p \in Painters, NEW q \in Painters, q # p,
         Shift(p), before'[q] # None
  PROVE  Undisturbed(q)'
<1>1. /\ TakeBus(p) /\ Receive(Writes(p, draw[p])[at[p]].bytes[sent[p] + 1])
      /\ UNCHANGED <<dc, draw>> /\ pc'[q] = pc[q] /\ at'[q] = at[q]
  BY ShiftIs
<1>2. bus = p /\ before' = before
  BY <1>1 DEF TakeBus, Disturb
<1>3. Undisturbed(q)
  BY <1>2 DEF DrawInv
<1>4. p # None
  BY PanelAssumption
<1>5. ~(at[q] > 1) /\ pc[q] # "done"
  BY <1>2, <1>3, <1>4 DEF Undisturbed
<1>6. at[q] = 1
  <2>1. at[q] \in Nat /\ at[q] >= 1
    BY NextByte
  <2> QED
    BY <1>5, <2>1
<1>7. pc[q] = "shift" /\ dc = "low" /\ ram = before[q]
  <2>1. pc[q] \in {"idle", "pin", "shift", "done"}
    BY DEF TypeOK
  <2> QED
    BY <1>3, <1>5, <1>6, <2>1 DEF Undisturbed
<1>8. ram' = ram
  BY <1>1, <1>7, ReceiveIs DEF TakeCommand
<1> QED
  BY <1>1, <1>2, <1>6, <1>7, <1>8 DEF Undisturbed

LEMMA DrawStep ==
  ASSUME IInv, Next
  PROVE  DrawInv'
<1> USE DEF IInv
<1>1. ASSUME NEW p \in Painters, Begin(p) PROVE DrawInv'
  <2> SUFFICES ASSUME NEW q \in Painters, before'[q] # None PROVE Undisturbed(q)'
    BY DEF DrawInv
  <2>1. /\ pc[p] = "idle" /\ UNCHANGED <<dc, bus, panel, at, sent, before>>
        /\ q # p => pc'[q] = pc[q] /\ draw'[q] = draw[q]
    BY <1>1 DEF Begin, TypeOK
  <2>2. Undisturbed(q)
    BY <2>1 DEF DrawInv
  <2>3. q # p
    BY <2>1, <2>2 DEF Undisturbed
  <2> QED
    BY <2>1, <2>2, <2>3, LeftAlone
<1>2. ASSUME NEW p \in Painters, WritePin(p) PROVE DrawInv'
  <2> SUFFICES ASSUME NEW q \in Painters, before'[q] # None PROVE Undisturbed(q)'
    BY DEF DrawInv
  <2>1. q = p
    BY <1>2 DEF WritePin, Disturb
  <2> QED
    BY <1>2, <2>1, PinStep
<1>3. ASSUME NEW p \in Painters, Shift(p) PROVE DrawInv'
  <2> SUFFICES ASSUME NEW q \in Painters, before'[q] # None PROVE Undisturbed(q)'
    BY DEF DrawInv
  <2>1. CASE q # p
    BY <1>3, <2>1, OthersByte
  <2>2. CASE q = p
    <3>1. before'[p] = before[p]
      <4>1. TakeBus(p)
        BY <1>3, ShiftIs
      <4> QED
        BY <4>1 DEF TakeBus, Disturb
    <3>2. before[p] # None /\ Undisturbed(p)
      BY <2>2, <3>1 DEF DrawInv
    <3>3. at[p] <= 11 \/ at[p] >= 12
      <4>1. at[p] \in Nat
        BY DEF TypeOK
      <4> QED
        BY <4>1
    <3> QED
      BY <1>3, <2>2, <3>1, <3>2, <3>3, AddressStep, PixelStep
  <2> QED
    BY <2>1, <2>2
<1>4. ASSUME NEW p \in Painters, Return(p) PROVE DrawInv'
  <2> SUFFICES ASSUME NEW q \in Painters, before'[q] # None PROVE Undisturbed(q)'
    BY DEF DrawInv
  <2>1. /\ UNCHANGED <<dc, bus, panel, at, sent>> /\ q # p /\ before'[q] = before[q]
        /\ pc'[q] = pc[q] /\ draw'[q] = draw[q]
    BY <1>4 DEF Return, TypeOK
  <2>2. Undisturbed(q)
    BY <2>1 DEF DrawInv
  <2> QED
    BY <2>1, <2>2, LeftAlone
<1> QED
  BY <1>1, <1>2, <1>3, <1>4 DEF Next, Work

-----------------------------------------------------------------------------
(* The theorems.                                                           *)

LEMMA InductiveInvariant == Spec => []IInv
<1>1. Init => IInv
  BY InitIInv
<1>2. IInv /\ [Next]_vars => IInv'
  <2>1. ASSUME IInv, Next PROVE IInv'
    BY <2>1, TypeStep, DrawStep DEF IInv
  <2>2. ASSUME IInv, UNCHANGED vars PROVE IInv'
    <3>1. /\ UNCHANGED <<dc, bus, panel>> /\ pc' = pc /\ draw' = draw /\ at' = at
          /\ sent' = sent /\ before' = before
      BY <2>2 DEF vars
    <3>2. TypeOK'
      BY <2>2, <3>1 DEF IInv, TypeOK, PanelOK, WritingOK, panel
    <3>3. DrawInv'
      BY <2>2, <3>1, LeftAlone DEF IInv, DrawInv
    <3> QED
      BY <3>2, <3>3 DEF IInv
  <2> QED
    BY <2>1, <2>2
<1> QED
  BY <1>1, <1>2, PTL DEF Spec

\* Whatever draws interleave, a painter in lcd_address_set or in its pixels is at
\* a write of its draw and holds the bus exactly in the middle of a transfer of
\* rt_spi_transfer, and the panel never has a cursor without a window.
THEOREM TypeCorrect == Spec => []TypeOK
<1>1. IInv => TypeOK
  BY DEF IInv
<1> QED
  BY <1>1, InductiveInvariant, PTL

\* lcd_address_set takes the panel from whatever an interrupted draw left in it to
\* the window of this draw, and its transfers paint the first pixels of that
\* window in row order, as many as it sends and nothing else, however they share
\* them: all of the window for lcd_clear and the fonts, all but the last pixel for
\* lcd_draw_line.  Another painter spoils this only by touching the pin or taking
\* the bus after the draw began.
THEOREM LeftAloneIsExact == Spec => []UndisturbedDrawIsExact
<1>1. IInv => UndisturbedDrawIsExact
  BY DEF IInv, DrawInv, Undisturbed, UndisturbedDrawIsExact
<1> QED
  BY <1>1, InductiveInvariant, PTL
=============================================================================
