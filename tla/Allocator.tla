------------------------------ MODULE Allocator ------------------------------
(***************************************************************************)
(* What whoever asks for memory counts on (allocator_def.h): a block is    *)
(* given to one client at a time, it is at least as long as was asked for, *)
(* and it stays so until it is returned.                                   *)
(***************************************************************************)
EXTENDS Naturals

CONSTANTS Block, MaxLen

VARIABLES
    asked,     \* how much its client asked for; 0 for a block nobody has
    size       \* how long every block is

vars == <<asked, size>>

Sizes == [Block -> 0..MaxLen]
Given == {b \in Block : asked[b] # 0}

Init == asked = [b \in Block |-> 0] /\ size \in Sizes

Request(b, n) ==
    /\ b \notin Given
    /\ asked' = [asked EXCEPT ![b] = n]
    /\ size' \in Sizes /\ size'[b] >= n
    /\ \A c \in Given : size'[c] = size[c]

Return(b) ==
    /\ b \in Given
    /\ asked' = [asked EXCEPT ![b] = 0]
    /\ size' \in Sizes
    /\ \A c \in Given : size'[c] = size[c]

Next == \E b \in Block : Return(b) \/ \E n \in 1..MaxLen : Request(b, n)

Spec == Init /\ [][Next]_vars
=============================================================================
