--------------------------- MODULE MCBufferQueue ---------------------------
(* Model values for BufferQueue. *)
EXTENDS BufferQueue

\* Buffers allocated by DequeueBuffer all have handle 0.
OneHandle == [b \in Buffers |-> 0]

\* Buffers the game made out of different nvmap objects.
OwnHandles == [b \in Buffers |-> b]
=============================================================================
