--------------------------- MODULE RevertibleApp ---------------------------
(***************************************************************************)
(* What the patching pipeline promises about the application it edits, in  *)
(* terms of one bit per file: the file is the original one or it is not.   *)
(*                                                                         *)
(* A stage of the promise is one of                                        *)
(*   stopped    no run is in progress,                                     *)
(*   reverting  restore_app_from_baks is at work, files are in flux,       *)
(*   open       the application was original when the stage began and one  *)
(*              patch is being written into it,                            *)
(*   sealed     the patch is under test: nothing edits the application.    *)
(*                                                                         *)
(* PatchStore implements it file-system step by file-system step and       *)
(* PatchLoop drives it from the control flow of the pipeline.              *)
(***************************************************************************)

CONSTANT Files

VARIABLES
    image,  \* image[f]: "original" or "modified"
    stage

vars == <<image, stage>>

TypeOK ==
    /\ image \in [Files -> {"original", "modified"}]
    /\ stage \in {"stopped", "reverting", "open", "sealed"}

\* The application may have been left patched by an earlier invocation.
Init ==
    /\ image \in [Files -> {"original", "modified"}]
    /\ stage = "stopped"

AllOriginal == \A f \in Files : image[f] = "original"

\* A run, or the retry of an attempt, begins by reverting.
Revert ==
    /\ stage' = "reverting"
    /\ UNCHANGED image

\* While files are put back each passes through states that are not original.
PutBack ==
    /\ stage = "reverting"
    /\ \E f \in Files, v \in {"original", "modified"} :
            image' = [image EXCEPT ![f] = v]
    /\ UNCHANGED stage

\* An attempt is opened on an application that is original as a whole.
Open ==
    /\ stage = "reverting"
    /\ AllOriginal
    /\ stage' = "open"
    /\ UNCHANGED image

Edit ==
    /\ stage = "open"
    /\ \E f \in Files, v \in {"original", "modified"} :
            image' = [image EXCEPT ![f] = v]
    /\ UNCHANGED stage

\* The attempt is complete (or given up): its files are final until a revert.
Seal ==
    /\ stage = "open"
    /\ stage' = "sealed"
    /\ UNCHANGED image

\* The run ends, by return, by exception or by a crash, whatever the stage.
Halt ==
    /\ stage' = "stopped"
    /\ UNCHANGED image

Next == Revert \/ PutBack \/ Open \/ Edit \/ Seal \/ Halt

Spec == Init /\ [][Next]_vars
=============================================================================
