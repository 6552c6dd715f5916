---------------------------- MODULE MCInterrupts -----------------------------
(* Lines at both PICs, among them the timer's, the keyboard's, the mouse's and *)
(* one without a handler; one ELF task, created again whenever it is gone; a   *)
(* screen of two characters, on which the time, the mouse and a line feed at   *)
(* the end meet.                                                               *)
EXTENDS Interrupts
=============================================================================
