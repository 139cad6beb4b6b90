------------------------------ MODULE MCLinkSim ------------------------------
(***************************************************************************)
(* Instances of LinkSim for TLC.                                           *)
(***************************************************************************)
EXTENDS LinkSim

CONSTANTS dest, remote, stranger

OneRemote == {remote}
TwoRemotes == {remote, stranger}

ForwardOnly == {"forward"}
=============================================================================
