------------------------------- MODULE MCFiles -------------------------------
(***************************************************************************)
(* What several processes or threads keep in files, for TLC: the bindings  *)
(* of the gate's hooks, the event log of a window, the experiments and the *)
(* cross-window runs of the Studio.  They share no state; focus says which *)
(* one moves.                                                              *)
(***************************************************************************)
EXTENDS MCGate, MCRegionLog, Experiments, MCCrossWindow

CONSTANTS scw, flat

SpecConditions == <<scw, flat>>

VARIABLE focus

filesVars == <<gateVars, regionVars, expVars, runVars, focus>>

FilesInit ==
  /\ focus \in {"hooks", "regions", "experiments", "runs"}
  /\ IF focus = "hooks" THEN GateStart ELSE GateInit
  /\ RegionInit /\ ExpInit /\ RunInit

(* FileAndWindowAgree is about orderly behaviours; what may follow the      *)
(* others is taken with one experiment.                                     *)
ExperimentScenario == ExpNext /\ (orderly' \/ \E e \in Exps : doc'[e] = Absent)

FilesNext ==
  /\ \/ focus = "hooks" /\ WhileUndisturbed /\ UNCHANGED <<regionVars, expVars, runVars>>
     \/ focus = "regions" /\ BeforeAFailure /\ UNCHANGED <<gateVars, expVars, runVars>>
     \/ focus = "experiments" /\ ExperimentScenario /\ UNCHANGED <<gateVars, regionVars, runVars>>
     \/ focus = "runs" /\ RunNext /\ UNCHANGED <<gateVars, regionVars, expVars>>
  /\ UNCHANGED focus

FilesSpec == FilesInit /\ [][FilesNext]_filesVars
=============================================================================
