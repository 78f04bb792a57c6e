---------------------------- MODULE MCQProcessor ----------------------------
(***************************************************************************)
(* The processor of one node, for TLC: every merge and split it can be     *)
(* asked for, on qubits that it creates itself (QProcessor) or, in other   *)
(* behaviours, on two objects of the caller that are handed in up to three *)
(* times (HandedStates).  What is not the behaviour's part keeps its first *)
(* value.                                                                  *)
(***************************************************************************)
EXTENDS QProcessor, HandedStates

VARIABLE handedIn

allVars == <<procVars, handedIn, handedVars>>

ASSUME HandedStatesAssumption

MCInit == handedIn \in BOOLEAN /\ ProcInit /\ HandedInit

MCNext ==
  \/ ~handedIn /\ ProcNext /\ UNCHANGED <<handedIn, handedVars>>
  \/ handedIn /\ HandedNext /\ UNCHANGED <<handedIn, procVars>>

MCSpec == MCInit /\ [][MCNext]_allVars

=============================================================================
