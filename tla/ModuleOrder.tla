---------------------------- MODULE ModuleOrder ----------------------------
(***************************************************************************)
(* The order in which modules are compiled (sortModulesAndValidate in      *)
(* fromTrip.ts): a depth-first walk over the imports from the entry module.*)
(* A frame is a call of dfs with the dependencies it has still to visit.   *)
(***************************************************************************)
EXTENDS Naturals, Sequences, FiniteSets

CONSTANTS Name,      \* names of modules
          Prelude,   \* the module that may be missing
          NoName,    \* no module: dfs is not being entered
          DepLists   \* the lists of dependencies a module may have
ASSUME NameAssumption == Prelude \in Name /\ NoName \notin Name /\ DepLists \subseteq Seq(Name)

VARIABLES present,   \* the modules that are given
          deps,      \* the dependencies of each, sorted by name
          entry, calling, frames, visited, order, outcome
graph == <<present, deps, entry>>
walkVars == <<present, deps, entry, calling, frames, visited, order, outcome>>

Frame(name, rest) == [name |-> name, rest |-> rest]
Outcomes == {"running", "sorted", "cycle", "unknown"}

WalkStarts == calling = entry /\ frames = <<>> /\ visited = {} /\ order = <<>> /\ outcome = "running"
WalkInit ==
  /\ present \in SUBSET Name /\ deps \in [Name -> DepLists] /\ entry \in Name
  /\ \A n \in Name : \A i \in DOMAIN deps[n] : deps[n][i] # n
  /\ WalkStarts

Innermost == frames[Len(frames)]
MayBeMissing(n) == n = Prelude /\ n \notin present
Visiting == {frames[i].name : i \in DOMAIN frames}
Entered(n) == outcome = "running" /\ calling # NoName /\ calling = n

Skip ==
  /\ \E n \in Name : Entered(n) /\ (MayBeMissing(n) \/ (n \in visited /\ n \notin Visiting))
  /\ calling' = NoName
  /\ UNCHANGED <<graph, frames, visited, order, outcome>>
(* A fault: a module is still being visited when its call has ended.       *)
ReportCycleLate ==
  /\ \E n \in Name : Entered(n) /\ n \in Visiting \cup visited /\ ~ MayBeMissing(n)
  /\ outcome' = "cycle"
  /\ UNCHANGED <<graph, calling, frames, visited, order>>
ReportCycle ==
  /\ \E n \in Name : Entered(n) /\ n \in Visiting /\ ~ MayBeMissing(n)
  /\ outcome' = "cycle"
  /\ UNCHANGED <<graph, calling, frames, visited, order>>
ReportUnknown ==
  /\ \E n \in Name : Entered(n) /\ n \notin present \cup Visiting \cup visited /\ ~ MayBeMissing(n)
  /\ outcome' = "unknown"
  /\ UNCHANGED <<graph, calling, frames, visited, order>>
Descend ==
  /\ \E n \in Name : Entered(n) /\ n \in present /\ n \notin Visiting \cup visited
                     /\ frames' = Append(frames, Frame(n, deps[n]))
  /\ calling' = NoName
  /\ UNCHANGED <<graph, visited, order, outcome>>
NextDep ==
  /\ outcome = "running" /\ calling = NoName /\ frames # <<>>
  /\ Innermost.rest # <<>>
  /\ calling' = Head(Innermost.rest)
  /\ frames' = [frames EXCEPT ![Len(frames)] = Frame(Innermost.name, Tail(Innermost.rest))]
  /\ UNCHANGED <<graph, visited, order, outcome>>
Leave ==
  /\ outcome = "running" /\ calling = NoName /\ frames # <<>>
  /\ Innermost.rest = <<>>
  /\ visited' = visited \cup {Innermost.name}
  /\ order' = Append(order, Innermost.name)
  /\ frames' = SubSeq(frames, 1, Len(frames) - 1)
  /\ UNCHANGED <<graph, calling, outcome>>
Finish ==
  /\ outcome = "running" /\ calling = NoName /\ frames = <<>>
  /\ outcome' = "sorted"
  /\ UNCHANGED <<graph, calling, frames, visited, order>>

WalkNext == Skip \/ ReportCycle \/ ReportUnknown \/ Descend \/ NextDep \/ Leave \/ Finish
WalkSpec == WalkInit /\ [][WalkNext]_walkVars

-----------------------------------------------------------------------------
WalkTypeOK ==
  /\ present \subseteq Name /\ deps \in [Name -> DepLists] /\ entry \in Name
  /\ calling \in Name \cup {NoName}
  /\ frames \in Seq([name : Name, rest : Seq(Name)])
  /\ visited \subseteq Name /\ order \in Seq(Name) /\ outcome \in Outcomes

(* A module comes after every module it imports, so that the constructors  *)
(* and the types it needs are there when it is compiled.                   *)
Before(d, i) == \E j \in 1 .. i - 1 : order[j] = d
DepsComeFirst ==
  \A i \in 1 .. Len(order) : \A k \in 1 .. Len(deps[order[i]]) :
    MayBeMissing(deps[order[i]][k]) \/ Before(deps[order[i]][k], i)

(* No module is compiled twice.                                            *)
OnceEach == \A i, j \in 1 .. Len(order) : order[i] = order[j] => i = j

(* What the modules of a set lead to: nothing outside the set.             *)
Imports(n) == {deps[n][i] : i \in DOMAIN deps[n]}
Closed(S) == \A n \in S \cap present : Imports(n) \subseteq S
Reached == {n \in Name : \A S \in SUBSET Name : entry \in S /\ Closed(S) => n \in S}
ReachedFrom(m) == {n \in Name : \A S \in SUBSET Name : Imports(m) \subseteq S /\ Closed(S) => n \in S}
Circular == \E n \in Reached \cap present : n \in ReachedFrom(n)
Unknowns == {n \in Reached : n \notin present /\ ~ MayBeMissing(n)}

(* A cycle is reported only when modules reachable from the entry import   *)
(* each other in a circle, an unknown module only when one of them imports *)
(* a module that is not given; the walk succeeds only when neither is so,  *)
(* and then the order has exactly the modules that can be reached.         *)
OutcomeIsRight ==
  /\ outcome = "cycle" => Circular
  /\ outcome = "unknown" => Unknowns # {}
  /\ outcome = "sorted" => /\ ~ Circular /\ Unknowns = {}
                           /\ {order[i] : i \in DOMAIN order} = Reached \cap present

(* What sortModulesAndValidate promises: dependencies first, each module   *)
(* once, and the right answer of success, cycle and unknown module.        *)
SortIsRight == DepsComeFirst /\ OnceEach /\ OutcomeIsRight
=============================================================================
