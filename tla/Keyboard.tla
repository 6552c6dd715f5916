------------------------------ MODULE Keyboard -------------------------------
(***************************************************************************)
(* The keyboard and mouse drivers, src/src/kernel/hardware/io/keyboard.c   *)
(* and mouse.c, as operators: the state of a driver and a byte yield the   *)
(* next state.  The texts and the layout of keys are left out.             *)
(***************************************************************************)
EXTENDS Naturals, SequencesExt

\* Records with the name, the make code and the break code of a key; an empty break code
\* is never sent.  The order is that of keyboard_get_keycode_from_scancode.
CONSTANT KeyTable

BREAK_CODE == 240      \* 0xF0
EXTENDED_CODE == 224   \* 0xE0
SCANCODE_LEN == 8
KEY_UNKNOWN == "unknown"

KeyNames == {KeyTable[i].name : i \in DOMAIN KeyTable}
Bytes == 1 .. 255

ASSUME KeyTableAssumption ==
  /\ DOMAIN KeyTable \subseteq Nat
  /\ \A i \in DOMAIN KeyTable :
       /\ KeyTable[i].make \in Seq(Bytes) /\ Len(KeyTable[i].make) \in 1 .. SCANCODE_LEN
       /\ KeyTable[i].break \in Seq(Bytes)

LockKeys == {"SCROLL", "NUM", "CAPS"}
ShiftKeys == {"L SHFT", "R SHFT"}

\* buf is scancode_buf up to scancode_len, keys the bitmap key_states, locks the lock flags
\* of event; keycode and pressed are those of the last event.
Driver ==
  [keyboard_state : {"START", "BREAK_RECEIVED", "EXTENDED_RECEIVED", "SPECIAL_RECEIVED"},
   buf : Seq(Bytes), keys : SUBSET (KeyNames \union {KEY_UNKNOWN}),
   locks : SUBSET LockKeys, shift : BOOLEAN,
   keycode : KeyNames \union {KEY_UNKNOWN}, pressed : BOOLEAN]

InitialDriver ==
  [keyboard_state |-> "START", buf |-> <<>>, keys |-> {}, locks |-> {}, shift |-> FALSE,
   keycode |-> KEY_UNKNOWN, pressed |-> FALSE]

-----------------------------------------------------------------------------
(* Recognising scancodes.                                                  *)

\* A scancode is compared as far as it was received.
Candidates(buf) == {i \in DOMAIN KeyTable : IsPrefix(buf, KeyTable[i].make)}

keyboard_get_keycode_from_scancode(buf) ==
  IF Candidates(buf) = {} THEN KEY_UNKNOWN
  ELSE KeyTable[CHOOSE i \in Candidates(buf) : \A j \in Candidates(buf) : i <= j].name

keyboard_set_key_pressed(k, key, value) ==
  [k EXCEPT !.keys = IF value THEN @ \union {key} ELSE @ \ {key}]

Toggled(set, x) == IF x \in set THEN set \ {x} ELSE set \union {x}

\* What is pressed is noted before the modifiers are looked at.
Event(k, key, is_makecode) ==
  [(IF key \in LockKeys \union {"PAUSE"} THEN k
    ELSE keyboard_set_key_pressed(k, key, is_makecode)) EXCEPT
     !.keycode = key, !.pressed = is_makecode,
     !.keyboard_state = "START", !.buf = <<>>]

Modified(k) ==
  [k EXCEPT !.shift = k.keys \intersect ShiftKeys # {},
            !.locks = IF k.pressed /\ k.keycode \in LockKeys THEN Toggled(@, k.keycode) ELSE @]

keyboard_process_scancode(k, is_makecode) ==
  Modified(Event(k, keyboard_get_keycode_from_scancode(k.buf), is_makecode))

IS_PAUSE_MK(buf) == Len(buf) >= 1 /\ buf[1] = 225
IS_PR_SC_MK(buf) == Len(buf) >= 2 /\ SubSeq(buf, 1, 2) = <<224, 18>>
IS_PR_BR_MK(buf) == Len(buf) >= 3 /\ SubSeq(buf, 1, 3) = <<224, 240, 124>>

\* A plausible slip in the next operator: an off-by-one in the length.
OneMoreByteMutant(k, len, is_makecode) ==
  IF Len(k.buf) = len + 1 THEN keyboard_process_scancode(k, is_makecode)
  ELSE [k EXCEPT !.keyboard_state = "SPECIAL_RECEIVED"]

keyboard_process_special_scancode(k, len, is_makecode) ==
  IF Len(k.buf) = len THEN keyboard_process_scancode(k, is_makecode)
  ELSE [k EXCEPT !.keyboard_state = "SPECIAL_RECEIVED"]

\* What is done with a byte that was saved as the last one of buf.
Recognise(k) ==
  LET data == Last(k.buf)
  IN  CASE IS_PAUSE_MK(k.buf) -> keyboard_process_special_scancode(k, 8, TRUE)
        [] IS_PR_SC_MK(k.buf) -> keyboard_process_special_scancode(k, 4, TRUE)
        [] IS_PR_BR_MK(k.buf) -> keyboard_process_special_scancode(k, 6, FALSE)
        [] OTHER ->
           CASE k.keyboard_state \in {"START", "EXTENDED_RECEIVED"} /\ data = BREAK_CODE ->
                  [k EXCEPT !.keyboard_state = "BREAK_RECEIVED"]
             [] k.keyboard_state = "START" /\ data = EXTENDED_CODE ->
                  [k EXCEPT !.keyboard_state = "EXTENDED_RECEIVED"]
             [] k.keyboard_state = "SPECIAL_RECEIVED" -> k
             [] OTHER -> keyboard_process_scancode(k, k.keyboard_state # "BREAK_RECEIVED")

\* A plausible slip in the next operator: the byte BREAK_CODE stays in the buffer.
KeepBreakMutant(k, data) == Recognise([k EXCEPT !.buf = Append(@, data)])

\* The byte BREAK_CODE is overwritten by its successor.
keyboard_handle_data(k, data) ==
  Recognise([k EXCEPT !.buf =
    Append(IF k.keyboard_state = "BREAK_RECEIVED" THEN Front(@) ELSE @, data)])

-----------------------------------------------------------------------------
(* The mouse.  What a packet says is left out.                             *)

PACKET_LEN == 3
FLAG_ALWAYS_ONE == 8
HasFlag(data) == (data \div FLAG_ALWAYS_ONE) % 2 = 1

\* A plausible slip in the next operator: all bytes of a packet need the flag.
FlagEverywhereMutant(packet_len, data) ==
  IF ~ HasFlag(data) \/ packet_len = PACKET_LEN - 1 THEN 0 ELSE packet_len + 1

\* The first byte of a packet has the flag; a full packet is processed.
mouse_handle_data(packet_len, data) ==
  IF (packet_len = 0 /\ ~ HasFlag(data)) \/ packet_len = PACKET_LEN - 1 THEN 0
  ELSE packet_len + 1

=============================================================================
