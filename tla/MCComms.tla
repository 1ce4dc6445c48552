------------------------------ MODULE MCComms -------------------------------
(***************************************************************************)
(* Five small components of the communication core, for TLC.  They share   *)
(* no state, so a behaviour is one of one of them, and the states of the   *)
(* run are the sum of theirs and not the product.                          *)
(***************************************************************************)
EXTENDS StatusQueue, MissionUpload, LinkTimers, Persistence, LoraRing

VARIABLE part

vars == <<part, queueVars, uploadVars, timerVars, persistVars, ringVars>>

Init ==
  /\ part \in {"texts", "mission", "timers", "flash", "lora"}
  /\ QInit /\ UInit /\ LInit /\ PInit /\ RInit
  /\ part = "timers" \/ clock = 0
  /\ part = "flash" \/ flash.row["gain"] = Absent

Only(name, A, others) == part = name /\ A /\ UNCHANGED <<part, others>>

Texting(A)   == Only("texts", A, <<uploadVars, timerVars, persistVars, ringVars>>)
Uploading(A) == Only("mission", A, <<queueVars, timerVars, persistVars, ringVars>>)
Timing(A)    == Only("timers", A, <<queueVars, uploadVars, persistVars, ringVars>>)
Flashing(A)  == Only("flash", A, <<queueVars, uploadVars, timerVars, ringVars>>)
Tapping(A)   == Only("lora", A, <<queueVars, uploadVars, timerVars, persistVars>>)

Next ==
  Texting(QNext) \/ Uploading(UNext) \/ Timing(LNext) \/ Flashing(PNext) \/ Tapping(RNext)

Spec == Init /\ [][Next]_vars

\* The fairness of QFairSpec and UFairSpec.
FairSpec ==
  /\ Spec /\ WF_vars(Texting(Flush))
  /\ WF_vars(Uploading(Retry)) /\ WF_vars(Uploading(Handle)) /\ WF_vars(Uploading(Hear))
=============================================================================
