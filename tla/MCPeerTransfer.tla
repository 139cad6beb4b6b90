--------------------------- MODULE MCPeerTransfer ---------------------------
(***************************************************************************)
(* Instances of PeerTransfer for TLC.                                      *)
(***************************************************************************)
EXTENDS PeerTransfer

Run(client, server, link, faults, files) ==
    [client : {client}, server : {server}, link : {link}, faults : {faults}, chunks : files]

\* Every group with itself, and those of G12 and 3 with each other: files with
\* more packets than numbers over a path that keeps the order, short ones over
\* a path that does not, or that does everything else to the datagrams.
AllRuns ==
    UNION {Run(g, g, "ordered", {"loss"}, {Missing, 6})
             \cup Run(g, g, "ordered", {"loss", "damage"}, {1})
             \cup Run(g, g, "ordered", FaultKinds, {1})
             \cup Run(g, g, "reordering", {"loss"}, {3}) : g \in Groups}
      \cup Run("G2", "G2", "ordered", {"loss", "cut"}, {2})
      \cup Run("G12", "G3", "ordered", {"loss"}, {6})
      \cup Run("G3", "G12", "ordered", {"loss"}, {1})

\* The programs of group 2 over a path that cuts datagrams.
G2Cut == Run("G2", "G2", "ordered", {"cut"}, {1})

\* The programs of group 2 over a path that loses and reorders datagrams.
G2Reordered == Run("G2", "G2", "reordering", {"loss"}, {3})
=============================================================================
