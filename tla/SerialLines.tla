------------------------------- MODULE SerialLines -------------------------------
(***************************************************************************)
(* The SA and TH lines as bytes: what _write_line() of serial_bridge puts  *)
(* on the port, what is left of it when a write fails half way or the      *)
(* receive buffer of the board is full, and what parseSerial() of          *)
(* mando_ver2 makes of a line glued from two.                              *)
(*                                                                         *)
(* A byte is a letter, a newline or a number: the text of a number counts  *)
(* as one, which may be cut into a head and a tail.  A head without more   *)
(* digits reads as a value between zero and the number; a tail, or digits  *)
(* that follow digits, read as any value.  Time is left to CommandChain,   *)
(* which has a cut line as one value: between two writes the board reads   *)
(* all it has.                                                             *)
(***************************************************************************)
EXTENDS Integers, Sequences

CONSTANTS
  Commands,         \* what on_cmd_vel makes: records [sa, th]
  Full, SteerLimit, \* 1.0 and MAX_STEER_TIRE_DEG, to which values are clamped
  BufferSize,       \* SERIAL_BUFFER_SIZE - 1
  Room              \* receive buffer of the board, which nobody reads during setup()

Stop == [sa |-> 0, th |-> 0]
Clamped(limit) == -limit..limit

ASSUME LinesAssumption ==
  /\ Full \in Nat /\ SteerLimit \in Nat /\ Room \in Nat
  /\ BufferSize \in Nat /\ BufferSize >= 3   \* a line fits
  /\ Commands \subseteq [sa : Clamped(SteerLimit), th : Clamped(Full)]
  /\ Stop \in Commands

VARIABLES
  port,          \* self.ser is not None
  halted,        \* destroy_node has written its stop, or tried to
  booting,       \* the board is in setup()
  rx,            \* bytes received and not read
  serialBuffer,  \* the line so far
  throttle_cmd, steer_auto_deg,
  sent,          \* history: commands of which something was sent since the reset
  meant,         \* history: what the last whole write says
  inStep,        \* history: writes without loss since the last cut, up to 2
  lost           \* history: the board has lost bytes, and is not in step again

hostVars  == <<port, halted>>
boardVars == <<booting, rx, serialBuffer, throttle_cmd, steer_auto_deg>>
history   == <<sent, meant, inStep, lost>>
linesVars == <<hostVars, boardVars, history>>
-----------------------------------------------------------------------------
(* Text. *)

Letter(k) == [kind |-> k, value |-> 0]
Newline   == Letter("newline")
Number(x) == [kind |-> "number", value |-> x]
Digits    == {"number", "head", "tail"}

Line(a, b, x) == <<Letter(a), Letter(b), Number(x), Newline>>

\* Mutant: the throttle goes first.
ThrottleFirst(c) == Line("T", "H", c.th) \o Line("S", "A", c.sa)

\* The one write of _send_last_cmd().
Pair(c) == Line("S", "A", c.sa) \o Line("T", "H", c.th)

\* What destroy_node writes.
FinalLine == Line("T", "H", 0)

Numbers(text) == {n \in DOMAIN text : text[n].kind = "number"}

\* A text that ends, or begins, anywhere.
Heads(text) ==
  {SubSeq(text, 1, n) : n \in 0..Len(text)} \cup
  {[SubSeq(text, 1, n) EXCEPT ![n].kind = "head"] : n \in Numbers(text)}
Tails(text) ==
  {SubSeq(text, n, Len(text)) : n \in 1..(Len(text) + 1)} \cup
  {[SubSeq(text, n, Len(text)) EXCEPT ![1].kind = "tail"] : n \in Numbers(text)}

\* A head and a tail of one text do not overlap.
Apart(head, tail, text) ==
  \/ Len(head) + Len(tail) <= Len(text)
  \/ /\ Len(head) + Len(tail) = Len(text) + 1 /\ head # <<>> /\ tail # <<>>
     /\ head[Len(head)].kind = "head" /\ tail[1].kind = "tail"

Constrain(x, limit) == IF x > limit THEN limit ELSE IF x < -limit THEN -limit ELSE x

\* x is v, or v with digits missing at its end.
Shortened(x, v) == (0 <= x /\ x <= v) \/ (v <= x /\ x <= 0)

\* Mutant: the line is not terminated, and old digits follow its own.
Unterminated(text, limit) == Clamped(limit)

\* atof() and the clamp of parseSerial(), after the two letters.
Readings(text, limit) ==
  IF text = <<>> \/ text[1].kind \notin Digits THEN {0}
  ELSE IF text[1].kind = "tail" \/ (Len(text) > 1 /\ text[2].kind \in Digits) THEN Clamped(limit)
  ELSE IF text[1].kind = "head" THEN {x \in Clamped(limit) : Shortened(x, text[1].value)}
  ELSE {Constrain(text[1].value, limit)}
-----------------------------------------------------------------------------
LinesInit ==
  /\ port = FALSE /\ halted = FALSE
  /\ booting = TRUE /\ rx = <<>> /\ serialBuffer = <<>>
  /\ throttle_cmd = 0 /\ steer_auto_deg = 0
  /\ sent = {} /\ meant = Stop /\ inStep = 2 /\ lost = FALSE

\* What the board receives of a text.  During setup() it keeps what there is room for,
\* and the end of the text as well when setup() ends while it comes in.
Receives(text, gap) ==
  \/ ~booting /\ rx = <<>> /\ rx' = text /\ ~gap /\ UNCHANGED booting
  \/ /\ booting
     /\ \E head \in Heads(text) :
          /\ Len(rx) + Len(head) <= Room /\ (head # text => Len(rx) + Len(head) = Room)
          /\ gap <=> head # text
          /\ \/ rx' = rx \o head /\ UNCHANGED booting
             \/ /\ gap /\ booting' = FALSE
                /\ \E tail \in Tails(text) : Apart(head, tail, text) /\ rx' = rx \o head \o tail

Receiving(text, gap) ==
  Receives(text, gap) /\ UNCHANGED <<serialBuffer, throttle_cmd, steer_auto_deg>>

\* _send_last_cmd(), a write that succeeds.
SendCommand(c) ==
  /\ port
  /\ \E gap \in BOOLEAN :
       /\ Receiving(Pair(c), gap)
       /\ inStep' = IF gap THEN 0 ELSE IF inStep = 0 THEN 1 ELSE 2
       /\ lost' = (gap \/ (lost /\ inStep < 2))
  /\ sent' = sent \cup {c} /\ meant' = c
  /\ UNCHANGED hostVars

\* A write of a text that fails: any part of it may have left before.
Breaks(text) ==
  \E part \in Heads(text), gap \in BOOLEAN :
    /\ Receiving(part, gap)
    /\ inStep' = IF part = <<>> THEN inStep ELSE 0
    /\ lost' = (gap \/ lost)

\* _send_last_cmd(), a write that fails: _drop_serial().  With no part sent this is
\* also a port that goes away between two writes.
SendFails(c) ==
  /\ port /\ port' = FALSE
  /\ Breaks(Pair(c))
  /\ sent' = sent \cup {c}
  /\ UNCHANGED <<halted, meant>>

\* destroy_node(): the stop, written or failed, and the port is closed.
DestroyNode ==
  /\ port /\ port' = FALSE /\ halted' = TRUE
  /\ \/ \E gap \in BOOLEAN :
          /\ Receiving(FinalLine, gap)
          /\ inStep' = IF gap THEN 0 ELSE inStep
          /\ lost' = (gap \/ lost)
          /\ meant' = [meant EXCEPT !.th = 0]
     \/ Breaks(FinalLine) /\ UNCHANGED meant
  /\ UNCHANGED sent

\* The globals of the board, and its receive buffer.
BoardReset ==
  /\ booting' = TRUE /\ rx' = <<>> /\ serialBuffer' = <<>>
  /\ throttle_cmd' = 0 /\ steer_auto_deg' = 0
  /\ sent' = {} /\ meant' = Stop /\ inStep' = 2 /\ lost' = FALSE

\* _reconnect_loop(): opening the port resets the board, or does not.
Reconnect ==
  /\ ~port /\ ~halted /\ port' = TRUE
  /\ BoardReset \/ UNCHANGED <<boardVars, history>>
  /\ UNCHANGED halted

\* The power or the button of the board.
PowerCycle == BoardReset /\ UNCHANGED hostVars

SetupDone ==
  /\ booting /\ booting' = FALSE
  /\ UNCHANGED <<hostVars, rx, serialBuffer, throttle_cmd, steer_auto_deg, history>>

\* A newline: TH and SA by their two letters, and anything else is dropped.
ParseLine ==
  LET begins(a, b) == Len(serialBuffer) >= 2 /\ serialBuffer[1].kind = a /\ serialBuffer[2].kind = b
      text == SubSeq(serialBuffer, 3, Len(serialBuffer))
  IN /\ IF begins("T", "H") THEN throttle_cmd' \in Readings(text, Full) ELSE UNCHANGED throttle_cmd
     /\ IF begins("S", "A") THEN steer_auto_deg' \in Readings(text, SteerLimit)
        ELSE UNCHANGED steer_auto_deg
     /\ serialBuffer' = <<>>

\* parseSerial() takes a byte.
ParseSerial ==
  /\ ~booting /\ rx # <<>> /\ rx' = Tail(rx)
  /\ IF Head(rx) = Newline THEN ParseLine
     ELSE /\ serialBuffer' = IF Len(serialBuffer) < BufferSize THEN Append(serialBuffer, Head(rx))
                             ELSE <<>>
          /\ UNCHANGED <<throttle_cmd, steer_auto_deg>>
  /\ UNCHANGED <<hostVars, booting, history>>

LinesNext ==
  \/ \E c \in Commands : SendCommand(c) \/ SendFails(c)
  \/ DestroyNode \/ Reconnect \/ PowerCycle
  \/ SetupDone \/ ParseSerial

LinesSpec == LinesInit /\ [][LinesNext]_linesVars
-----------------------------------------------------------------------------
(* Properties. *)

\* Whatever was cut, glued or lost before, the board holds the throttle of a write that
\* arrived whole, the stop of destroy_node included, if one whole pair came before it or
\* it is one; the steering takes a pair more, because SA comes first and is what a
\* fragment is glued to.
HealsWithTheNextPair ==
  ~booting /\ rx = <<>> =>
    /\ inStep >= 1 => throttle_cmd = meant.th
    /\ inStep = 2 => steer_auto_deg = meant.sa

\* A write that breaks off never makes a command that was not sent: while the board has
\* lost no byte, its throttle and its steering are shortened ones of commands sent since
\* its reset, so the motors never turn against all that was asked.
CutsOnlyShorten ==
  ~lost =>
    \E c, d \in sent \cup {Stop} :
      Shortened(throttle_cmd, c.th) /\ Shortened(steer_auto_deg, d.sa)
=============================================================================
