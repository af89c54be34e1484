---------------------------- MODULE FrameService ----------------------------
(***************************************************************************)
(* What the layers above may rely on when they hand frames to a transport  *)
(* (enp_transport.h): accepted frames are put on the air one at a time, in *)
(* the order of their acceptance and at most once each, and the results    *)
(* are passed up in that order, at most one for each frame, each naming    *)
(* the frame it belongs to and telling what really became of it.           *)
(* Frames and results may be lost when the transport stops, and a result   *)
(* may be dropped: nothing here says that every frame gets one.            *)
(***************************************************************************)
EXTENDS Naturals, Sequences

CONSTANT Frames \* the numbers of the frames the upper layers send, in their order

VARIABLES
  fate,   \* what became of each frame
  told    \* the results passed up, oldest first

vars == <<fate, told>>

\* How a transmission can end, and the stations of a frame.
Verdicts == {"ok", "failed", "refused"}
Fates == {"new", "queued", "flying", "lost"} \cup Verdicts

\* The result the upper layers see of each verdict.
ResultOf(verdict) == IF verdict = "ok" THEN "ok" ELSE "failed"

Earlier(f) == {g \in Frames : g < f}
Flying == {f \in Frames : fate[f] = "flying"}

Init ==
  /\ fate = [f \in Frames |-> "new"]
  /\ told = <<>>

Accept(f) ==
  /\ fate[f] = "new"
  /\ \A g \in Earlier(f) : fate[g] # "new"
  /\ fate' = [fate EXCEPT ![f] = "queued"]
  /\ UNCHANGED told

\* The oldest frame goes on the air, alone, or the driver refuses it.
Transmit(f) ==
  /\ fate[f] = "queued"
  /\ \A g \in Earlier(f) : fate[g] # "queued"
  /\ Flying = {}
  /\ \E end \in {"flying", "refused"} : fate' = [fate EXCEPT ![f] = end]
  /\ UNCHANGED told

Land(f) ==
  /\ fate[f] = "flying"
  /\ \E end \in {"ok", "failed"} : fate' = [fate EXCEPT ![f] = end]
  /\ UNCHANGED told

\* The result of a frame is passed up, once and in order.
Tell(f) ==
  /\ fate[f] \in Verdicts
  /\ \A k \in DOMAIN told : told[k].frame < f
  /\ told' = Append(told, [frame |-> f, result |-> ResultOf(fate[f])])
  /\ UNCHANGED fate

\* A transport that stops loses frames it has not seen the end of.
Lose ==
  /\ \E gone \in SUBSET {f \in Frames : fate[f] \in {"new", "queued", "flying"}} :
       fate' = [f \in Frames |-> IF f \in gone THEN "lost" ELSE fate[f]]
  /\ UNCHANGED told

Next ==
  \/ \E f \in Frames : Accept(f) \/ Transmit(f) \/ Land(f) \/ Tell(f)
  \/ Lose

Spec == Init /\ [][Next]_vars
=============================================================================
