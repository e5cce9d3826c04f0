-------------------------- MODULE MCScwStructure --------------------------
(***************************************************************************)
(* Three scenarios of MCScw under one set of constants: the lifecycle of   *)
(* regions, the content of a sealed window, and the nesting of loops.      *)
(***************************************************************************)
EXTENDS MCScw

VARIABLE scenario

StructurePolicies == LifePolicies \union ContentPolicies \union NestingPolicies
StructureLoopSpecs == LifeLoopSpecs \union ContentLoopSpecs \union NestingLoopSpecs
StructureGrantSpecs == LifeGrantSpecs \union ContentGrantSpecs

StructureInit ==
  \/ scenario = "life" /\ Init
  \/ scenario = "content" /\ ContentInit
  \/ scenario = "nesting" /\ NestingInit

StructureNext ==
  /\ \/ scenario = "life" /\ LifeNext
     \/ scenario = "content" /\ ContentNext
     \/ scenario = "nesting" /\ NestingNext
  /\ UNCHANGED scenario

StructureSpecification == StructureInit /\ [][StructureNext]_<<vars, scenario>>
=============================================================================
