----------------------------- MODULE MCChunkPeer -----------------------------
(* Instances of ChunkPeer for TLC. *)
EXTENDS ChunkPeer

NoParts == {}
TwoParts == {<<>>, <<<<2, 1>>, <<4, 2>>>>, <<<<6, 1>>>>}

\* A reader that gave up takes no step, and the peer's next ones are not followed.
Reading == err = ""
=============================================================================
