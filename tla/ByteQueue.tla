----------------------------- MODULE ByteQueue -----------------------------
(***************************************************************************)
(* What a Buffer promises: a queue of bytes, written at one end and read   *)
(* at the other, in which capacity, indices and copies play no part.       *)
(***************************************************************************)
EXTENDS Naturals, Sequences

CONSTANT Byte

VARIABLE content

Init == content = <<>>

\* Bytes are written behind the content.
Put ==
  /\ Len(content') > Len(content)
  /\ content' \in Seq(Byte)
  /\ SubSeq(content', 1, Len(content)) = content

\* Bytes are read off the front.
Take == \E n \in 1..Len(content) : content' = SubSeq(content, n + 1, Len(content))

Next == Put \/ Take

Spec == Init /\ [][Next]_content
=============================================================================
