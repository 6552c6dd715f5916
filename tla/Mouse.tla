--------------------------------- MODULE Mouse ---------------------------------
(***************************************************************************)
(* What mouse.c makes of a packet of the mouse: the position of the        *)
(* pointer.  Module Keyboard has how packets are put together.             *)
(***************************************************************************)
EXTENDS Integers

CONSTANTS
  Byte, Word,                   \* 2^8 and 2^16
  x_max, y_max,                 \* the greatest intern coordinates
  screen_width, screen_height,  \* the greatest screen coordinates
  delta_max                     \* dx_max and dy_max, which are the same

ASSUME MouseAssumption ==
  /\ {Byte, Word, x_max, y_max} \subseteq Nat \ {0}
  /\ {screen_width, screen_height, delta_max} \subseteq Nat
  /\ Word % 2 = 0 /\ Byte < Word \div 2

VARIABLE event

Event ==
  [x : 0 .. x_max, y : 0 .. y_max,
   screen_x : 0 .. screen_width, screen_y : 0 .. screen_height, pressed : BOOLEAN]

MouseInit == event = [x |-> 0, y |-> 0, screen_x |-> 0, screen_y |-> 0, pressed |-> FALSE]

\* What the mouse sends for a movement: the low byte and the sign of each count, which
\* grows to the right and upwards.
Packet(mx, my, overflow, pressed) ==
  [x_sign |-> mx < 0, x_movement |-> mx % Byte,
   y_sign |-> my < 0, y_movement |-> my % Byte,
   overflow |-> overflow, pressed |-> pressed]

-----------------------------------------------------------------------------
Int16(v) == IF v < Word \div 2 THEN v ELSE v - Word

\* A plausible slip: the sign is taken for that of a magnitude.
MagnitudeMutant(movement, sign) == IF sign THEN -movement ELSE movement

\* dx |= 0xFF00: the high byte is set if the sign is.
Delta(movement, sign) == Int16(IF sign THEN (Word - Byte) + movement ELSE movement)

ABS(n) == IF n < 0 THEN -n ELSE n

Sum(coord, dcoord, max) ==
  IF coord + dcoord < 0 THEN 0 ELSE IF coord + dcoord > max THEN max ELSE coord + dcoord

map(c, in_max, out_max) == (c * out_max) \div in_max

\* event after a packet.
mouse_process_packet(packet) ==
  LET dx == Delta(packet.x_movement, packet.x_sign)
      dy == -Delta(packet.y_movement, packet.y_sign)
      x  == Sum(event.x, dx, x_max)
      y  == Sum(event.y, dy, y_max)
  IN IF packet.overflow \/ ABS(dx) > delta_max \/ ABS(dy) > delta_max
     THEN event
     ELSE [x |-> x, y |-> y,
           screen_x |-> map(x, x_max, screen_width),
           screen_y |-> map(y, y_max, screen_height),
           pressed |-> packet.pressed]

Counts == -Byte .. Byte - 1

MouseNext ==
  \E mx, my \in Counts, overflow, pressed \in BOOLEAN :
    event' = mouse_process_packet(Packet(mx, my, overflow, pressed))

MouseSpec == MouseInit /\ [][MouseNext]_event

-----------------------------------------------------------------------------
(* The place on a line from 0 to max that is nearest to c.                 *)
Nearest(c, max) == CHOOSE p \in 0 .. max : \A q \in 0 .. max : ABS(p - c) <= ABS(q - c)

(* The pointer goes with the mouse, as far as there is room and unless the *)
(* movement is suspiciously large; it is always on the screen, whose edges *)
(* it reaches.                                                             *)
MovesWithMouse ==
  /\ event \in Event
  /\ event.x = x_max => event.screen_x = screen_width
  /\ event.y = y_max => event.screen_y = screen_height
  /\ \A mx, my \in Counts :
       LET e == mouse_process_packet(Packet(mx, my, FALSE, event.pressed)) IN
       IF ABS(mx) <= delta_max /\ ABS(my) <= delta_max
       THEN e.x = Nearest(event.x + mx, x_max) /\ e.y = Nearest(event.y - my, y_max)
       ELSE e = event
=============================================================================
