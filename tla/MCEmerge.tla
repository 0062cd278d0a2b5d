------------------------------- MODULE MCEmerge -------------------------------
(* A small instance of Emerge: two threads; two chunks of one block, each in *)
(* the border of the other, and a block over the limit of the map.           *)
EXTENDS Emerge

MCThread == {1, 2}
MCBlock == {1, 2, 3}
MCChunkOf == [b \in {1, 2} |-> b]
MCArea == [c \in {1, 2} |-> {1, 2}]
MCOver == {3}
Saved(g) == [gen |-> g, edits |-> {}]
MCDisks == {<<Saved(FALSE), Saved(TRUE), None>>, <<Unreadable, None, None>>}

ForLua(b) == [block |-> b, peer |-> None, gen |-> TRUE, lua |-> TRUE]
ForPeer(p, b) == [block |-> b, peer |-> p, gen |-> TRUE, lua |-> FALSE]
MCWanted == {ForLua(1), ForLua(3)} \cup {ForPeer(p, 2) : p \in Peer}
MCNested == {ForLua(2)}
=============================================================================
