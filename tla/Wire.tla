-------------------------------- MODULE Wire --------------------------------
(***************************************************************************)
(* What a USB interface promises the transfer engine: packets reach the    *)
(* probe and answers reach the caller in the order they were written, none *)
(* twice and none made up.  Closing or opening it throws the oldest        *)
(* answers away.  This is the wire that module DapLink is built on.        *)
(***************************************************************************)
EXTENDS Naturals, Sequences

VARIABLES
    written,     \* how many packets were written; each has its number
    toProbe,     \* packets the probe has not executed
    fromProbe,   \* answers the caller has not read
    got          \* the answer the last read returned

vars == <<written, toProbe, fromProbe, got>>

Init == written = 0 /\ toProbe = << >> /\ fromProbe = << >> /\ got = 0

Write ==
    /\ written' = written + 1
    /\ toProbe' = Append(toProbe, written')
    /\ UNCHANGED <<fromProbe, got>>

Execute ==
    /\ toProbe # << >>
    /\ fromProbe' = Append(fromProbe, Head(toProbe))
    /\ toProbe' = Tail(toProbe)
    /\ UNCHANGED <<written, got>>

Read ==
    /\ fromProbe # << >>
    /\ got' = Head(fromProbe)
    /\ fromProbe' = Tail(fromProbe)
    /\ UNCHANGED <<written, toProbe>>

Discard(n) ==
    /\ fromProbe' = SubSeq(fromProbe, n + 1, Len(fromProbe))
    /\ UNCHANGED <<written, toProbe, got>>

Next == Write \/ Execute \/ Read \/ \E n \in 1 .. Len(fromProbe) : Discard(n)

Spec == Init /\ [][Next]_vars
=============================================================================
