------------------------------ MODULE SseStream ------------------------------
(***************************************************************************)
(* What a client of `stream: true` is promised: keepalives while it waits, *)
(* then one whole answer, frames or an in-band error, closed by [DONE];    *)
(* and the body ends only after that.                                      *)
(***************************************************************************)
EXTENDS Naturals, Sequences

CONSTANTS Keepalive, \* the comment frame
          Answers    \* the frame sequences an answer may consist of

VARIABLES seen,      \* the frames the client has read
          ended      \* the client has read the end of the body

IsKeepalives(s) == \A i \in 1 .. Len(s) : s[i] = Keepalive

\* s is keepalives and then the first m frames of the answer a.
Shows(s, a, m) ==
  /\ m <= Len(s) /\ m <= Len(a)
  /\ IsKeepalives(SubSeq(s, 1, Len(s) - m))
  /\ SubSeq(s, Len(s) - m + 1, Len(s)) = SubSeq(a, 1, m)

Init == seen = <<>> /\ ended = FALSE

SeeKeepalive ==
  /\ ~ended
  /\ IsKeepalives(seen)
  /\ seen' = Append(seen, Keepalive)
  /\ UNCHANGED ended

SeeFrame ==
  /\ ~ended
  /\ \E a \in Answers : \E m \in 0 .. Len(a) - 1 :
        Shows(seen, a, m) /\ seen' = Append(seen, a[m + 1])
  /\ UNCHANGED ended

SeeEnd ==
  /\ ~ended
  /\ \E a \in Answers : Shows(seen, a, Len(a))
  /\ ended' = TRUE
  /\ UNCHANGED seen

Spec == Init /\ [][SeeKeepalive \/ SeeFrame \/ SeeEnd]_<<seen, ended>>
=============================================================================
