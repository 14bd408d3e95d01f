----------------------------- MODULE DurableLog -----------------------------
(***************************************************************************)
(* What the persistence seam promises of one session's log                 *)
(* (session/session-persistence/src/index.ts): appends are best effort, a  *)
(* resolved flush is a durability barrier, and a crash leaves a prefix     *)
(* that holds everything a barrier covered.                                *)
(***************************************************************************)
EXTENDS Naturals, Sequences, SequencesExt

VARIABLES
  accepted,   \* the log as its live session, or after a crash a reader, sees it
  promised    \* how many of its events resolved barriers cover

Init == accepted = <<>> /\ promised = 0

\* The session appends events; barriers may resolve.
Extend ==
  /\ IsPrefix(accepted, accepted')
  /\ promised' \in promised .. Len(accepted')

\* The process dies, or gives its session up.
Lose ==
  /\ Len(accepted') \in promised .. Len(accepted)
  /\ IsPrefix(accepted', accepted)
  /\ promised' \in promised .. Len(accepted')

Next == Extend \/ Lose

Spec == Init /\ [][Next]_<<accepted, promised>>

=============================================================================
