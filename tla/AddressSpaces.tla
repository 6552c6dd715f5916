---------------------------- MODULE AddressSpaces ----------------------------
(***************************************************************************)
(* What the kernel promises about the memory of tasks: an owner has pages, *)
(* each of which stands for a frame; owner 0 is the kernel.  A task gets   *)
(* all of its pages when it is created and loses them when it is           *)
(* destroyed; nothing that happens in between or to others changes them.   *)
(***************************************************************************)
EXTENDS Functions

CONSTANT SharedPages   \* the pages that mean the same to all owners

VARIABLE space         \* owner -> page -> frame

UsedFrames == UNION {Range(space[o]) : o \in DOMAIN space}
UsedPages == UNION {DOMAIN space[o] : o \in DOMAIN space}

Init == DOMAIN space = {0} /\ IsInjective(space[0])

\* A task gets frames, and shared pages, that nobody has.
Create(task) ==
  /\ task \notin DOMAIN space
  /\ DOMAIN space' = DOMAIN space \union {task}
  /\ \A o \in DOMAIN space : space'[o] = space[o]
  /\ IsInjective(space'[task])
  /\ Range(space'[task]) \intersect UsedFrames = {}
  /\ DOMAIN space'[task] \intersect UsedPages \intersect SharedPages = {}

Destroy(task) ==
  /\ task # 0
  /\ space' = [o \in DOMAIN space \ {task} |-> space[o]]

Next ==
  \/ \E task \in DOMAIN space' : Create(task)
  \/ \E task \in DOMAIN space : Destroy(task)

Spec == Init /\ [][Next]_space

=============================================================================
