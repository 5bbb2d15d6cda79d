------------------------------- MODULE DapPort -------------------------------
(***************************************************************************)
(* What the deferred transfer engine promises the code above it, without   *)
(* packets or a wire: reads are answered in the order they were asked for, *)
(* each with the words it asked for; an error fails every read that is     *)
(* still unanswered, all at once; and an answer or a failure is final.     *)
(***************************************************************************)
EXTENDS Naturals

CONSTANT Reads    \* the reads, in the order they are asked for: 1 .. n

VARIABLE status   \* of each read: free, pending, answered or failed

Oldest(r) == \A q \in Reads : q < r => status[q] # "pending"

Init == status = [r \in Reads |-> "free"]

Ask(r) ==
    /\ status[r] = "free"
    /\ \A q \in Reads : q < r => status[q] # "free"
    /\ status' = [status EXCEPT ![r] = "pending"]

AnswerWithOwnWords(r) ==
    /\ status[r] = "pending"
    /\ Oldest(r)
    /\ status' = [status EXCEPT ![r] = "answered"]

FailPending ==
    status' = [r \in Reads |-> IF status[r] = "pending" THEN "failed" ELSE status[r]]

Next == (\E r \in Reads : Ask(r) \/ AnswerWithOwnWords(r)) \/ FailPending

Spec == Init /\ [][Next]_status
=============================================================================
