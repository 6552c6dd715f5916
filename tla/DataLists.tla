------------------------------ MODULE DataLists ------------------------------
(***************************************************************************)
(* What lib/list.h promises: every list is a sequence of data, the same    *)
(* datum may be in it several times, and a call on one list leaves the     *)
(* others alone.  It says nothing of nodes, links or memory.               *)
(***************************************************************************)
EXTENDS Integers, SequencesExt

CONSTANTS Lists, Data, Void

VARIABLES
  content,  \* the sequence of data of each list that exists
  call      \* the last call: the operation, its arguments and what it returned

svars == <<content, call>>

SInit == content = [l \in {} |-> <<>>] /\ call = <<Void>>

Put(l, s) == content' = [content EXCEPT ![l] = s]

Create(l) ==
  /\ content' = [k \in DOMAIN content \cup {l} |-> IF k = l THEN <<>> ELSE content[k]]
  /\ call' = <<"create", l>>
Destroy(l) ==
  /\ content' = [k \in DOMAIN content \ {l} |-> content[k]]
  /\ call' = <<"destroy", l>>

PushFront(l, d) == Put(l, <<d>> \o content[l]) /\ call' = <<"push_front", l, d>>
PushBack(l, d)  == Put(l, Append(content[l], d)) /\ call' = <<"push_back", l, d>>
PopFront(l) == Put(l, Tail(content[l])) /\ call' = <<"pop_front", l, Head(content[l])>>
PopBack(l)  == Put(l, Front(content[l])) /\ call' = <<"pop_back", l, Last(content[l])>>

\* The first occurrence goes; a datum that is not in the list changes nothing.
Drop(l, d) == Put(l, RemoveFirst(content[l], d)) /\ call' = <<"remove", l, d>>

Ask(l) ==
  /\ UNCHANGED content
  /\ \/ \E d \in Data : call' = <<"find", l, d, d \in ToSet(content[l])>>
     \/ call' = <<"size", l, Len(content[l])>>
     \/ call' = <<"empty", l, content[l] = <<>>>>
     \/ content[l] # <<>> /\ call' = <<"front", l, Head(content[l])>>
     \/ content[l] # <<>> /\ call' = <<"back", l, Last(content[l])>>

SNext ==
  \/ \E l \in Lists \ DOMAIN content : Create(l)
  \/ \E l \in DOMAIN content :
       \/ Destroy(l)
       \/ Ask(l)
       \/ content[l] # <<>> /\ (PopFront(l) \/ PopBack(l))
       \/ \E d \in Data : PushFront(l, d) \/ PushBack(l, d) \/ Drop(l, d)

SSpec == SInit /\ [][SNext]_svars
=============================================================================
