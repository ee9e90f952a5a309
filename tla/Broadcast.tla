----------------------------- MODULE Broadcast ------------------------------
(***************************************************************************)
(* What a broadcast queue promises to its users (the class comment of      *)
(* broadcast_queue: "every consumer sees all the produced elements"): each *)
(* consumer pops the pushed elements once, in the order they were pushed,  *)
(* and a pop fails exactly when empty() holds.  Memory, files and the pop  *)
(* queues are not visible.                                                 *)
(***************************************************************************)
EXTENDS Naturals

CONSTANTS Consumers

VARIABLES
  pushed,   \* number of elements pushed; the i-th one is i
  popped,   \* number of elements each consumer has popped
  ret       \* the result of the last pop

vars == <<pushed, popped, ret>>

NoResult == [consumer |-> 0, ok |-> FALSE, el |-> 0]

Init == /\ pushed = 0
        /\ popped = [c \in Consumers |-> 0]
        /\ ret = NoResult

Push == /\ pushed' = pushed + 1
        /\ ret' = NoResult
        /\ UNCHANGED popped

Pop(c) == /\ popped[c] < pushed
          /\ popped' = [popped EXCEPT ![c] = @ + 1]
          /\ ret' = [consumer |-> c, ok |-> TRUE, el |-> popped[c] + 1]
          /\ UNCHANGED pushed

PopEmpty(c) == /\ popped[c] = pushed
               /\ ret' = [consumer |-> c, ok |-> FALSE, el |-> 0]
               /\ UNCHANGED <<pushed, popped>>

Reset == /\ popped' = [c \in {} |-> 0]
         /\ ret' = NoResult
         /\ UNCHANGED pushed

Next == \/ Push
        \/ \E c \in DOMAIN popped : Pop(c) \/ PopEmpty(c)
        \/ Reset

Spec == Init /\ [][Next]_vars
=============================================================================
