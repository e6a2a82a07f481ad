------------------------------- MODULE LcdBus -------------------------------
(***************************************************************************)
(* The panel as drv_lcd.c drives it.                                       *)
(*                                                                         *)
(* Every drawing function sets a window (lcd_address_set) and then sends   *)
(* pixels.  The panel tells a command byte from a data byte by the level   *)
(* of the DC pin while the byte is shifted out.  Only one transfer at a    *)
(* time has the bus (the mutex of rt_spi_transfer), but neither the pin    *)
(* nor the window is locked, so the draws of two threads may interleave at *)
(* every byte.  The painters here have equal priorities, as the threads    *)
(* asr and key have: they are time-sliced, and any interleaving happens.   *)
(***************************************************************************)
EXTENDS Integers, Sequences

CONSTANTS
    Painters,   \* the threads that draw
    W, H,       \* LCD_W and LCD_H, 240 each
    Draws,      \* what each painter draws
    Hi, Lo,     \* the two bytes of each painter's colour
    None

ASSUME PanelAssumption ==
    /\ W \in Nat \ {0} /\ H \in Nat \ {0}
    /\ W <= 256 * 256 /\ H <= 256 * 256   \* coordinates are rt_uint16_t
    /\ Hi \in [Painters -> 0 .. 255] /\ Lo \in [Painters -> 0 .. 255]
    /\ None \notin Painters

\* The commands of lcd_address_set.
CASET == 42
RASET == 43
RAMWR == 44

Pixels == (0 .. W-1) \X (0 .. H-1)
Screen == [x1 |-> 0, x2 |-> W-1, y1 |-> 0, y2 |-> H-1]
Area(r) == (r.x1 .. r.x2) \X (r.y1 .. r.y2)
Size(r) == (r.x2 - r.x1 + 1) * (r.y2 - r.y1 + 1)

\* A draw is a window, how many pixels it sends into it, in how many transfers,
\* and whether each transfer sets the pin.
\*   lcd_clear       the screen, in 20 transfers, or one per pixel when there
\*                   is no memory; the pin is set once
\*   Show_BMP, fonts lcd_write_half_word for each pixel
\*   lcd_show_char   one transfer, or lcd_write_half_word for each pixel
\*   lcd_draw_line   one transfer, of one pixel fewer than the window has
\* Nothing in the application calls lcd_fill, which sends fewer, too.
WithinPanel(d) ==
    /\ d.rect.x2 \in 0 .. W-1 /\ d.rect.x1 \in 0 .. d.rect.x2
    /\ d.rect.y2 \in 0 .. H-1 /\ d.rect.y1 \in 0 .. d.rect.y2
    /\ d.pixels \in 1 .. Size(d.rect)
    /\ d.sends \in 1 .. d.pixels /\ d.pixels % d.sends = 0
    /\ d.pinEach \in BOOLEAN
ASSUME DrawsAssumption == \A p \in Painters : \A d \in Draws[p] : WithinPanel(d)

VARIABLES
    dc,      \* the level of LCD_DC_PIN
    bus,     \* the painter that holds the lock of the bus
    cmd,     \* the panel: the command it executes
    args,    \* the bytes it has received for it
    cols,    \* the columns of the window, first and last
    rows,    \* the rows of the window
    cursor,  \* the pixel it writes next
    ram,     \* the colour of each pixel; None before the first draw
    pc,      \* what each painter does next: "idle", "pin", "shift" or "done"
    draw,    \* what it draws
    at,      \* the write of the draw it is at
    sent     \* the bytes of that write that are out

\* History: the pixels when this draw began, None once another painter has
\* touched the pin or the bus since.
VARIABLE before

panel == <<cmd, args, cols, rows, cursor, ram>>
vars  == <<dc, bus, panel, pc, draw, at, sent, before>>

-----------------------------------------------------------------------------
(* A draw is a sequence of writes.  A write sets the pin, or keeps it, and *)
(* makes one transfer.                                                     *)

Write(pin, bytes) == [pin |-> pin, bytes |-> bytes]

\* lcd_write_cmd and lcd_write_data.
Cmd(c)  == Write("low", <<c>>)
Data(b) == Write("high", <<b>>)

\* A window that does not start the transfer of pixels.
AddressSetOnly(r) ==
    <<Cmd(CASET), Data(r.x1 \div 256), Data(r.x1 % 256), Data(r.x2 \div 256), Data(r.x2 % 256),
      Cmd(RASET), Data(r.y1 \div 256), Data(r.y1 % 256), Data(r.y2 \div 256), Data(r.y2 % 256)>>

\* Of each coordinate the high byte comes first.
AddressSet(r) ==
    <<Cmd(CASET), Data(r.x1 \div 256), Data(r.x1 % 256), Data(r.x2 \div 256), Data(r.x2 % 256),
      Cmd(RASET), Data(r.y1 \div 256), Data(r.y1 % 256), Data(r.y2 \div 256), Data(r.y2 % 256),
      Cmd(RAMWR)>>

\* The bytes of n pixels.
Bytes(p, n) == [i \in 1 .. 2 * n |-> IF i % 2 = 1 THEN Hi[p] ELSE Lo[p]]

PerSend(d) == d.pixels \div d.sends

Transfers(p, d) == [i \in 1 .. d.sends |->
    Write(IF i = 1 \/ d.pinEach THEN "high" ELSE "keep",
          Bytes(p, PerSend(d)))]

\* No draw yet.
NoDraw == [rect |-> Screen, pixels |-> Size(Screen), sends |-> 1, pinEach |-> TRUE]

Writes(p, d) == AddressSet(d.rect) \o Transfers(p, d)

-----------------------------------------------------------------------------
(* The panel's controller.                                                 *)

\* A window that is not within the panel: its pixels are dropped.
Nowhere == <<W, H>>

\* The cursor runs along the rows of the window and starts again after the last.
Start == IF cols = Nowhere \/ rows = Nowhere THEN Nowhere
         ELSE <<cols[1], rows[1]>>

Advance(c) ==
    IF c = Nowhere THEN Nowhere
    ELSE IF c[1] < cols[2] THEN <<c[1] + 1, c[2]>>
    ELSE IF c[2] < rows[2] THEN <<cols[1], c[2] + 1>>
    ELSE Start

\* The two bytes of a pixel; those that are no painter's are not told apart.
Colour(h, l) == IF \E p \in Painters : Hi[p] = h /\ Lo[p] = l THEN <<h, l>> ELSE "bad"

\* A command starts over; one that is none of the three has no effect here.
TakeCommand(b) ==
    /\ cmd' = IF b \in {CASET, RASET, RAMWR} THEN b ELSE 0
    /\ args' = <<>>
    /\ cursor' = IF b = RAMWR THEN Start ELSE Nowhere
    /\ UNCHANGED <<cols, rows, ram>>

\* What the four parameter bytes of a window say of its columns, or rows.
Given(a, n) ==
    LET first == 256 * a[1] + a[2]
        last  == 256 * a[3] + a[4]
    IN IF first <= last /\ last < n THEN <<first, last>> ELSE Nowhere

\* After the fourth the command is over.
TakeParameter(b) ==
    LET a == Append(args, b)
    IN /\ IF Len(a) < 4
          THEN args' = a /\ UNCHANGED <<cmd, cols, rows>>
          ELSE /\ cmd' = 0 /\ args' = <<>>
               /\ cols' = IF cmd = CASET THEN Given(a, W) ELSE cols
               /\ rows' = IF cmd = RASET THEN Given(a, H) ELSE rows
       /\ UNCHANGED <<cursor, ram>>

\* Two bytes make a pixel; one outside the panel is dropped.
TakePixel(b) ==
    /\ IF args = <<>>
       THEN args' = <<b>> /\ UNCHANGED <<cursor, ram>>
       ELSE /\ args' = <<>> /\ cursor' = Advance(cursor)
            /\ ram' = [c \in Pixels |-> IF c = cursor THEN Colour(args[1], b) ELSE ram[c]]
    /\ UNCHANGED <<cmd, cols, rows>>

Receive(b) ==
    CASE dc = "low" -> TakeCommand(b)
      [] dc = "high" /\ cmd \in {CASET, RASET} -> TakeParameter(b)
      [] dc = "high" /\ cmd = RAMWR -> TakePixel(b)
      [] OTHER -> UNCHANGED panel

-----------------------------------------------------------------------------
\* rt_hw_lcd_init has cleared the panel.
Init ==
    /\ dc = "high"
    /\ bus = None
    /\ cmd = RAMWR /\ args = <<>>
    /\ cols = <<0, W-1>> /\ rows = <<0, H-1>> /\ cursor = <<0, 0>>
    /\ ram = [c \in Pixels |-> None]
    /\ pc = [p \in Painters |-> "idle"]
    /\ draw = [p \in Painters |-> NoDraw]
    /\ at = [p \in Painters |-> 1]
    /\ sent = [p \in Painters |-> 0]
    /\ before = [p \in Painters |-> None]

\* A drawing function is called.
Begin(p) ==
    /\ pc[p] = "idle"
    /\ \E d \in Draws[p] : draw' = [draw EXCEPT ![p] = d]
    /\ pc' = [pc EXCEPT ![p] = "pin"]
    /\ UNCHANGED <<dc, bus, panel, at, sent, before>>

\* The draws of the others are disturbed.
Disturb(p, mine) ==
    before' = [q \in Painters |-> IF q = p THEN mine ELSE None]

\* rt_pin_write, if the write has one.
WritePin(p) ==
    /\ pc[p] = "pin"
    /\ LET w == Writes(p, draw[p])[at[p]]
       IN dc' = IF w.pin = "keep" THEN dc ELSE w.pin
    /\ pc' = [pc EXCEPT ![p] = "shift"]
    /\ Disturb(p, IF at[p] = 1 THEN ram ELSE before[p])
    /\ UNCHANGED <<bus, panel, draw, at, sent>>

\* rt_spi_transfer: the mutex of the bus.  Nobody can tell when before the first
\* byte it was taken.
TakeBus(p) ==
    \/ sent[p] = 0 /\ bus = None /\ Disturb(p, before[p])
    \/ sent[p] > 0 /\ bus = p /\ UNCHANGED before

\* spixfer shifts one byte out; after the last the mutex is released.
ShiftThen(p, released) ==
    LET w == Writes(p, draw[p])
        bytes == w[at[p]].bytes
    IN /\ pc[p] = "shift"
       /\ TakeBus(p)
       /\ Receive(bytes[sent[p] + 1])
       /\ IF sent[p] + 1 < Len(bytes)
          THEN /\ sent' = [sent EXCEPT ![p] = @ + 1]
               /\ bus' = p
               /\ UNCHANGED <<pc, at>>
          ELSE /\ sent' = [sent EXCEPT ![p] = 0]
               /\ bus' = released
               /\ IF at[p] < Len(w)
                  THEN pc' = [pc EXCEPT ![p] = "pin"] /\ at' = [at EXCEPT ![p] = @ + 1]
                  ELSE pc' = [pc EXCEPT ![p] = "done"] /\ at' = [at EXCEPT ![p] = 1]
       /\ UNCHANGED <<dc, draw>>

\* A transfer that keeps the mutex.
ShiftKeepsBus(p) == ShiftThen(p, p)

Shift(p) == ShiftThen(p, None)

\* The drawing function returns to its caller.
Return(p) ==
    /\ pc[p] = "done"
    /\ pc' = [pc EXCEPT ![p] = "idle"]
    /\ draw' = [draw EXCEPT ![p] = NoDraw]
    /\ before' = [before EXCEPT ![p] = None]
    /\ UNCHANGED <<dc, bus, panel, at, sent>>

Work(p) == WritePin(p) \/ Shift(p) \/ Return(p)

Next == \E p \in Painters : Begin(p) \/ Work(p)

Spec == Init /\ [][Next]_vars

-----------------------------------------------------------------------------
(* Properties.                                                             *)

Byte    == 0 .. 255
Colours == (Byte \X Byte) \cup {None, "bad"}

\* The columns, or the rows, of a window within the panel.
Span(n) == {s \in (0 .. n-1) \X (0 .. n-1) : s[1] <= s[2]}

AllDraws == (UNION {Draws[p] : p \in Painters}) \cup {NoDraw}

\* The panel has a cursor only while it writes pixels and has a window.
PanelOK ==
    /\ cmd \in {0, CASET, RASET, RAMWR}
    /\ args \in Seq(Byte) /\ Len(args) < 4
    /\ cols \in Span(W) \cup {Nowhere} /\ rows \in Span(H) \cup {Nowhere}
    /\ cursor \in Pixels \cup {Nowhere}
    /\ cursor # Nowhere => cmd = RAMWR /\ cols # Nowhere /\ rows # Nowhere
    /\ ram \in [Pixels -> Colours]

\* A painter is at a write of its draw; in the middle of a transfer it holds the
\* bus, and at no other time.
WritingOK(p) ==
    /\ draw[p] \in Draws[p] \cup {NoDraw}
    /\ at[p] \in DOMAIN Writes(p, draw[p])
    /\ sent[p] < Len(Writes(p, draw[p])[at[p]].bytes)
    /\ sent[p] > 0 <=> bus = p
    /\ pc[p] \in {"idle", "done"} => at[p] = 1
    /\ pc[p] # "shift" => sent[p] = 0

\* Every variable has its type, and every painter is in order.
TypeOK ==
    /\ dc \in {"low", "high"}
    /\ bus \in Painters \cup {None}
    /\ PanelOK
    /\ pc \in [Painters -> {"idle", "pin", "shift", "done"}]
    /\ draw \in [Painters -> AllDraws]
    /\ at \in [Painters -> Nat] /\ sent \in [Painters -> Nat]
    /\ before \in [Painters -> [Pixels -> Colours] \cup {None}]
    /\ \A p \in Painters : WritingOK(p)

\* How many pixels of a window come before one, row by row, and the pixels a
\* draw paints.
Count(r, c) == (c[2] - r.y1) * (r.x2 - r.x1 + 1) + (c[1] - r.x1)
Painted(d)  == {c \in Area(d.rect) : Count(d.rect, c) < d.pixels}

\* A draw paints the first pixels of its window, as many as it sends, in its
\* colour and nothing else, whatever interrupted draws left of window, cursor and
\* half a pixel in the panel, and although a transfer of another painter may have
\* been under way when it began: it takes another painter's touch of the pin or
\* of the bus after that to spoil it.
UndisturbedDrawIsExact ==
    \A p \in Painters : pc[p] = "done" /\ before[p] # None =>
        ram = [c \in Pixels |-> IF c \in Painted(draw[p]) THEN <<Hi[p], Lo[p]>>
                                ELSE before[p][c]]

-----------------------------------------------------------------------------
(* The strengthening that makes the invariants inductive: what a draw that *)
(* nobody disturbed has made of the panel when it is at write k.           *)

\* The bytes that carry a first and a last coordinate.
Pair(a, b) == <<a \div 256, a % 256, b \div 256, b % 256>>

\* The parameters of a command that are out, then the window they make.
Addressed(r, k) ==
    /\ k \in 2 .. 5  => /\ cmd = CASET
                        /\ args = SubSeq(Pair(r.x1, r.x2), 1, k - 2)
    /\ k \in 7 .. 10 => /\ cmd = RASET
                        /\ args = SubSeq(Pair(r.y1, r.y2), 1, k - 7)
    /\ k >= 6  => cols = <<r.x1, r.x2>>
    /\ k >= 11 => rows = <<r.y1, r.y2>>

\* The pixels before the cursor.
Behind(r, c) == {a \in Area(r) : a[2] < c[2] \/ (a[2] = c[2] /\ a[1] < c[1])}

\* The bytes that are out are the pixels before the cursor and half of the next.
Painting(p, d, i) ==
    /\ cmd = RAMWR
    /\ cursor \in Area(d.rect)
    /\ args \in {<<>>, <<Hi[p]>>}
    /\ sent[p] = 2 * (Count(d.rect, cursor) - i * PerSend(d)) + Len(args)
    /\ ram = [c \in Pixels |-> IF c \in Behind(d.rect, cursor) THEN <<Hi[p], Lo[p]>>
                               ELSE before[p][c]]

\* Before its first byte another painter's transfer may still be under way, but
\* the pin makes commands of its bytes.
Undisturbed(p) ==
    /\ pc[p] # "idle" /\ ~(pc[p] = "pin" /\ at[p] = 1)
    /\ pc[p] = "shift" /\ at[p] = 1 => dc = "low" /\ ram = before[p]
    /\ at[p] > 1 \/ pc[p] = "done" => bus \in {None, p}
    /\ at[p] > 1 =>
          /\ Addressed(draw[p].rect, at[p])
          /\ at[p] < 12 => ram = before[p]
          /\ at[p] >= 12 => Painting(p, draw[p], at[p] - 12)
          /\ pc[p] = "shift" => dc = IF at[p] \in {6, 11} THEN "low" ELSE "high"
          /\ at[p] > 12 => dc = "high"
    /\ pc[p] = "done" =>
          ram = [c \in Pixels |-> IF c \in Painted(draw[p]) THEN <<Hi[p], Lo[p]>>
                                  ELSE before[p][c]]

DrawInv == \A p \in Painters : before[p] # None => Undisturbed(p)

IInv == TypeOK /\ DrawInv
=============================================================================
