------------------------------- MODULE MCEngine -------------------------------
(***************************************************************************)
(* The parts of the script engine side by side.  Their models share no     *)
(* state, so a behaviour follows one of them.                              *)
(***************************************************************************)
EXTENDS AtomicsWait, Promises, CycleGC, ModuleGraph, AsyncGenerator, Shapes, MapRecords

(* Graphs of four modules: a diamond; a cycle that is entered from two
   sides and needs a module outside; a diamond over a cycle; nested cycles;
   a module that requests itself, and one twice. *)
MCModules == 1 .. 4
MCGraphs == {
  <<<<2, 3>>, <<4>>, <<4>>, <<>>>>,
  <<<<2>>, <<3>>, <<2, 4>>, <<>>>>,
  <<<<2, 3>>, <<3>>, <<2, 4>>, <<>>>>,
  <<<<2>>, <<3, 1>>, <<4>>, <<3>>>>,
  <<<<1, 2>>, <<3, 3>>, <<>>, <<3, 2>>>>}

-----------------------------------------------------------------------------
VARIABLE part

engineVars == <<part, atomicsVars, promiseVars, gcVars, moduleVars, genVars, shapeVars, mapVars>>

OthersRest(p) ==
  /\ UNCHANGED part
  /\ p # "atomics" => UNCHANGED atomicsVars
  /\ p # "promises" => UNCHANGED promiseVars
  /\ p # "memory" => UNCHANGED gcVars
  /\ p # "modules" => UNCHANGED moduleVars
  /\ p # "generator" => UNCHANGED genVars
  /\ p # "shapes" => UNCHANGED shapeVars
  /\ p # "map" => UNCHANGED mapVars

EngineInit ==
  /\ part \in {"atomics", "promises", "memory", "modules", "generator", "shapes", "map"}
  /\ AtomicsInit /\ PromisesInit /\ CycleGCInit /\ AsyncGeneratorInit /\ ShapesInit
  /\ MapInit /\ (part # "map" => ~isWeak)
  /\ ModuleGraphInit
  /\ part # "modules" => requests = (CHOOSE g \in Graphs : TRUE) /\ tla = {} /\ faulty = {}

Alone(p, Step) == part = p /\ Step /\ OthersRest(p)

EngineNext ==
  \/ Alone("atomics", AtomicsNext)
  \/ Alone("promises", PromisesNext)
  \/ Alone("memory", CycleGCNext)
  \/ Alone("modules", ModuleGraphNext)
  \/ Alone("generator", AsyncGeneratorNext)
  \/ Alone("shapes", ShapesNext)
  \/ Alone("map", MapNext)

(* The fairness of AtomicsSpec. *)
EngineSpec ==
  /\ EngineInit /\ [][EngineNext]_engineVars
  /\ \A g \in Agents : /\ SF_engineVars(Alone("atomics", InCall(g)))
                       /\ WF_engineVars(Alone("atomics", Signalled(g)))
=============================================================================
