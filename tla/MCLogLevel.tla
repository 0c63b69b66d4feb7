----------------------------- MODULE MCLogLevel -----------------------------
(***************************************************************************)
(* Instances of LogLevel for TLC: levels 10 and 20; the lists found at the *)
(* start hold both, the commands set the second.                           *)
(***************************************************************************)
EXTENDS LogLevel

CONSTANTS p1, p2

Line(op, c) == [op |-> op, component |-> c, level |-> 20]
Setters == {Line("set", c) : c \in Components}
Racers == Setters \cup {Line("unset", 1), Line("show", 1)}
=============================================================================
