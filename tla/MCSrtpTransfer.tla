--------------------------- MODULE MCSrtpTransfer ---------------------------
(***************************************************************************)
(* Instances of SrtpTransfer for TLC.                                      *)
(***************************************************************************)
EXTENDS SrtpTransfer

CONSTANTS c1, c2, c3, c4    \* client addresses

OneClient == {c1}
FourClients == {c1, c2, c3, c4}

\* Files of client c1 alone, by their number of chunks.
Chunks3 == [c \in OneClient |-> 3]
Chunks6 == [c \in OneClient |-> 6]
Readable == [c \in OneClient |-> "readable"]

\* c1 and c2 ask for files, c3 for a missing one, c4 for an unreadable one.
ChunksOfFour == [c \in FourClients |-> CASE c = c1 -> 2 [] c = c2 -> 1 [] OTHER -> 0]
AccessOfFour == [c \in FourClients |->
    CASE c = c3 -> "missing" [] c = c4 -> "unreadable" [] OTHER -> "readable"]
=============================================================================
