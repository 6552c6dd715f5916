------------------------------- MODULE MCVm86 --------------------------------
(***************************************************************************)
(* The call of INT 10h that main2 makes, with a video BIOS in segment      *)
(* C000h and a system BIOS in segment F000h, of a few bytes each.          *)
(***************************************************************************)
EXTENDS Vm86, TLC

MCFlags == 514
MCSegments == {0, 49152, 61440}
MCIvt == 16 :> [segment |-> 49152, offset |-> 336] @@ 21 :> [segment |-> 61440, offset |-> 59122]

Simple(ops) == {[op |-> o] : o \in ops}
IO == [op : {"in", "out"}, width : {8, 16, 32}, immediate : BOOLEAN]
SystemCall == [op |-> "int", vector |-> 21]

\* What there may be at each address.
MCProgram ==
     1280 :> {[op |-> "int", vector |-> 16]}
  @@ 1282 :> Simple({"int3"})
  @@ 786768 :> IO \union Simple({"sti"})
  @@ 786769 :> {SystemCall, [op |-> "call", to |-> 339]}
  @@ 786770 :> {SystemCall} \union Simple({"pushf"})
  @@ 786771 :> {SystemCall} \union Simple({"iret", "ret", "pop", "popf"})
  @@ 786772 :> Simple({"iret", "ret", "pop"})
  @@ 786773 :> Simple({"iret", "ret"})
  @@ 1042162 :> {[op |-> "push", word |-> 338]} \union Simple({"pushf", "iret"})
  @@ 1042163 :> Simple({"popf", "cli", "iret"})
  @@ 1042164 :> Simple({"iret"})

MCStackArea == {5376 - 2 * k : k \in 0 .. 6}
=============================================================================
