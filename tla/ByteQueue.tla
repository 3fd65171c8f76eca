----------------------------- MODULE ByteQueue ------------------------------
(***************************************************************************)
(* What a receive buffer promises: the bytes that came, in their order,    *)
(* each once; when it is full, the oldest gives way to the newest.         *)
(***************************************************************************)
EXTENDS Integers, Sequences

CONSTANT Capacity

VARIABLES q, came, read  \* in the buffer; how many came; those read

Init == q = <<>> /\ came = 0 /\ read = <<>>

Put ==
  /\ came' = came + 1
  /\ q' = Append(IF Len(q) = Capacity THEN Tail(q) ELSE q, came')
  /\ UNCHANGED read

Get ==
  /\ q # <<>>
  /\ read' = Append(read, Head(q)) /\ q' = Tail(q)
  /\ UNCHANGED came

Spec == Init /\ [][Put \/ Get]_<<q, came, read>>
=============================================================================
