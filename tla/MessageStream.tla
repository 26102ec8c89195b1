---------------------------- MODULE MessageStream ----------------------------
(***************************************************************************)
(* What a connection is to the application: a sequence of messages that    *)
(* are delivered one or more at a time, in order, and all of them in the   *)
(* end.                                                                    *)
(***************************************************************************)
EXTENDS Integers, Sequences

VARIABLES
  coming,      \* messages sent and not yet delivered
  delivered

vars == <<coming, delivered>>

Init == delivered = <<>>

Deliver ==
  \E n \in 1 .. Len(coming) :
    /\ delivered' = delivered \o SubSeq(coming, 1, n)
    /\ coming' = SubSeq(coming, n + 1, Len(coming))

Spec == Init /\ [][Deliver]_vars

FairSpec == Spec /\ WF_vars(Deliver)
=============================================================================
