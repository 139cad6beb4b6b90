---------------------------- MODULE FileTransfer ----------------------------
(***************************************************************************)
(* What the file transfer promises a client, with no network, no window    *)
(* and no sequence numbers: the saved file only ever grows, it is at every *)
(* moment a beginning of the file asked for, and the client announces the  *)
(* end of the transfer exactly when it has all of it.                      *)
(***************************************************************************)
EXTENDS Integers, Sequences

CONSTANTS
    Clients,
    Chunks      \* Chunks[c]: the number of chunks of the file c asks for

VARIABLES
    saved,      \* saved[c]: what c has written
    outcome     \* outcome[c]: "running", "complete" or "failed"

abstractVars == <<saved, outcome>>

\* The first n chunks of a file; a chunk is named by its index.
Beginning(n) == [i \in 1 .. n |-> i - 1]

Start ==
    /\ saved = [c \in Clients |-> Beginning(0)]
    /\ outcome = [c \in Clients |-> "running"]

\* The file of c grows, possibly to its end.
Grow(c) ==
    \E n \in Len(saved[c]) .. Chunks[c] :
      /\ saved' = [saved EXCEPT ![c] = Beginning(n)]
      /\ \/ UNCHANGED outcome
         \/ n = Chunks[c] /\ outcome' = [outcome EXCEPT ![c] = "complete"]

\* c gives up with what it has.
GiveUp(c) ==
    /\ outcome' = [outcome EXCEPT ![c] = "failed"]
    /\ UNCHANGED saved

Progress == \E c \in Clients : outcome[c] = "running" /\ (Grow(c) \/ GiveUp(c))

Promise == Start /\ [][Progress]_abstractVars
=============================================================================
