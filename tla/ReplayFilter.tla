---------------------------- MODULE ReplayFilter ----------------------------
(***************************************************************************)
(* What a replay filter promises: a counter is accepted if it was not      *)
(* accepted before and is above the highest accepted one or less than      *)
(* Window below it.                                                        *)
(***************************************************************************)
EXTENDS Naturals

CONSTANTS Window, MaxCounter

Counters == 0 .. MaxCounter

VARIABLES
    accepted,  \* every counter accepted so far
    answer     \* the last counter offered and what was answered

Init == accepted = {} /\ answer = <<>>

Fresh(c) == c \notin accepted /\ \A a \in accepted : c + Window > a

Accept(c) ==
    /\ answer' = <<c, Fresh(c)>>
    /\ accepted' = IF Fresh(c) THEN accepted \cup {c} ELSE accepted

Next == \E c \in Counters : Accept(c)

Spec == Init /\ [][Next]_<<accepted, answer>>
=============================================================================
