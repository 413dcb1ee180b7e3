------------------------------ MODULE KeyQueue ------------------------------
(***************************************************************************)
(* What the keyboard driver promises its readers: a bounded FIFO queue of  *)
(* characters.  A key that finds the queue full is dropped; a character is *)
(* delivered once, in the order typed, to one reader, which handles it     *)
(* before the next one is delivered.                                       *)
(***************************************************************************)
EXTENDS Naturals, Sequences

CONSTANTS Chars, NoChar, Capacity

VARIABLES queue,
          held      \* the character delivered and not handled yet

Put(c) == /\ Len(queue) < Capacity
          /\ queue' = Append(queue, c)
          /\ UNCHANGED held

Get == /\ queue # <<>> /\ held = NoChar
       /\ queue' = Tail(queue)
       /\ held' = Head(queue)

Handle == /\ held # NoChar
          /\ held' = NoChar
          /\ UNCHANGED queue

Init == queue = <<>> /\ held = NoChar

Spec == Init /\ [][Get \/ Handle \/ \E c \in Chars : Put(c)]_<<queue, held>>
=============================================================================
