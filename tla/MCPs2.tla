-------------------------------- MODULE MCPs2 --------------------------------
EXTENDS Ps2

Key(name, make, break) == [name |-> name, make |-> make, break |-> break]

\* One key of each kind, with the scancodes of set 2 that keyboard.c lists; some make codes
\* are prefixes or suffixes of others.
Pause  == Key("PAUSE", <<225, 20, 119, 225, 240, 20, 240, 119>>, <<>>)
Num    == Key("NUM", <<119>>, <<240, 119>>)
LShift == Key("L SHFT", <<18>>, <<240, 18>>)
RCtrl  == Key("R CTRL", <<224, 20>>, <<224, 240, 20>>)
LCtrl  == Key("L CTRL", <<20>>, <<240, 20>>)
PrintScreen ==
  Key("PRNT SCRN", <<224, 18, 224, 124>>, <<224, 240, 124, 224, 240, 18>>)

\* With MCPrintScreen in place of MCKeys KeysRecognised fails, see README.md.
MCKeys == <<Pause, Num, LShift, LCtrl, RCtrl>>
MCPrintScreen == <<PrintScreen, LShift>>
=============================================================================
