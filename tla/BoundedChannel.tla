--------------------------- MODULE BoundedChannel ---------------------------
(***************************************************************************)
(* What a value exchange promises the operators on its two sides: a        *)
(* bounded first-in first-out channel that is closed once, takes nothing   *)
(* after that, and tells a consumer that there is no more only when it is  *)
(* closed and empty.  A rewind empties it for the next run.                *)
(***************************************************************************)
EXTENDS Naturals, Sequences

CONSTANTS Item,       \* what can be sent
          Readers,    \* who is told the end of the stream
          Capacity    \* how much the channel holds

VARIABLES buf, isClosed, told

Init == buf = <<>> /\ isClosed = FALSE /\ told = {}

Put == /\ ~isClosed /\ Len(buf) < Capacity
       /\ \E v \in Item : buf' = Append(buf, v)
       /\ UNCHANGED <<isClosed, told>>

Take == /\ buf # <<>>
        /\ buf' = Tail(buf)
        /\ UNCHANGED <<isClosed, told>>

Close == /\ isClosed' = TRUE
         /\ UNCHANGED <<buf, told>>

TellEnd == /\ isClosed /\ buf = <<>>
           /\ \E c \in Readers : told' = told \cup {c}
           /\ UNCHANGED <<buf, isClosed>>

Rewind == /\ isClosed
          /\ buf' = <<>> /\ isClosed' = FALSE /\ told' = {}

Next == Put \/ Take \/ Close \/ TellEnd \/ Rewind

Spec == Init /\ [][Next]_<<buf, isClosed, told>>

=============================================================================
