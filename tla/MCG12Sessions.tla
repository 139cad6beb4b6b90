--------------------------- MODULE MCG12Sessions ---------------------------
(***************************************************************************)
(* Instances of G12Sessions for TLC.                                       *)
(***************************************************************************)
EXTENDS G12Sessions

\* A file of two chunks, one of one, one that does not exist, and one that
\* cannot be read.
AllFiles == {"long", "short", "missing", "unreadable"}

Lengths ==
    [f \in AllFiles |-> CASE f = "long" -> 2 [] f = "short" -> 1
                          [] f = "missing" -> Missing [] f = "unreadable" -> Unreadable]

\* One client on port a, and two on b, one after the other.
OnceAndTwice == [p \in {"a", "b"} |-> IF p = "a" THEN 1 ELSE 2]
=============================================================================
