---------------------------- MODULE Substitution ----------------------------
(***************************************************************************)
(* Substitution that avoids capture (substitution.ts), on the nodes of     *)
(* ExternalRefs: one name at a time, for terms and for types, and many     *)
(* names at once.  A name is a string, as a fresh name is made by adding a *)
(* number to it.  Nodes are compared by what they are, not by identity.    *)
(***************************************************************************)
EXTENDS ExternalRefs, SequencesExt

(* The parts of a node, and the node with other parts in their places.     *)
PartNodes(x) == [i \in DOMAIN Parts(x, {}) |-> Parts(x, {})[i].node]
WithParts(x, F(_)) ==
  CASE x.kind = "non-terminal" -> App(F(x.lft), F(x.rgt))
    [] x.kind = "type-app" -> TypeOf(F(x.fn), F(x.arg))
    [] x.kind = "systemF-abs" -> Abs(x.name, F(x.ty), F(x.body))
    [] x.kind = "systemF-let" -> Let(x.name, F(x.value), F(x.body))
    [] x.kind = "systemF-match" ->
         Match(F(x.scrutinee), F(x.ty), [i \in DOMAIN x.arms |-> [x.arms[i] EXCEPT !.body = F(@)]])
    [] x.kind \in {"systemF-type-abs", "forall"} -> [x EXCEPT !.body = F(@)]
    [] x.kind = "systemF-type-app" -> TypeApp(F(x.term), F(x.ty))
    [] OTHER -> x

(* Type variables are put among the bound names here too.                  *)
RECURSIVE freeTermVarsIn(_, _)
freeTermVarsIn(x, b) ==
  (IF x.kind = "systemF-var" /\ ~ IsLiteral(x.name) THEN {x.name} \ b ELSE {})
    \cup UNION {freeTermVarsIn(p.node, p.bound) : p \in ToSet(Parts(x, b))}
freeTermVars(x) == freeTermVarsIn(x, {})

(* The bound names are one set that is passed along: to leave a binder     *)
(* takes its name out, also when a binder around it has the same name.     *)
RECURSIVE collectFree(_, _)
collectFree(x, bound) ==
  LET parts == PartNodes(x)
      Left(i) == UNION {TypeBinders(parts[j]) : j \in 1 .. i - 1}
  IN  CASE x.kind = "type-var" -> {x.name} \ bound
        [] x.kind \in {"systemF-type-abs", "forall"} -> collectFree(x.body, bound \cup {x.name})
        [] OTHER -> UNION {collectFree(parts[i], bound \ Left(i)) : i \in DOMAIN parts}
freeTypeVars(x) == collectFree(x, {})

Numbered(base, k) == base \o "_" \o ToString(k)
(* The first number from "from" on that gives a name not to be avoided.    *)
FirstFree(base, avoid, from) ==
  Numbered(base, CHOOSE k \in from .. from + Cardinality(avoid) :
                   /\ Numbered(base, k) \notin avoid
                   /\ \A j \in from .. k - 1 : Numbered(base, j) \in avoid)
fresh(base, avoid) == IF base \in avoid THEN FirstFree(base, avoid, 0) ELSE base

-----------------------------------------------------------------------------
(* Renaming of a binder: a binder of the new name ends it, a binder of the *)
(* old name is renamed too; the value of a let is renamed with its body.   *)
(* What is under a type abstraction is left as it is.                      *)
RECURSIVE alphaRenameTermBinder(_, _, _)
alphaRenameTermBinder(x, old, new) ==
  LET Renamed(y) == alphaRenameTermBinder(y, old, new)
      Binder == IF x.name = old THEN new ELSE x.name
      Body == IF x.name = new THEN x.body ELSE Renamed(x.body)
      OfArm(arm) ==
        IF new \in Params(arm) THEN arm
        ELSE Arm(arm.ctor, [i \in DOMAIN arm.params |-> IF arm.params[i] = old THEN new ELSE arm.params[i]],
                 Renamed(arm.body))
  IN  CASE x.kind = "systemF-var" -> Var(Binder)
        [] x.kind = "systemF-abs" -> Abs(Binder, Renamed(x.ty), Body)
        [] x.kind = "systemF-let" -> Let(Binder, Renamed(x.value), Body)
        [] x.kind = "systemF-match" ->
             Match(Renamed(x.scrutinee), Renamed(x.ty), [i \in DOMAIN x.arms |-> OfArm(x.arms[i])])
        [] x.kind \in {"non-terminal", "systemF-type-app"} -> WithParts(x, Renamed)
        [] OTHER -> x

RECURSIVE alphaRenameTypeBinder(_, _, _)
alphaRenameTypeBinder(x, old, new) ==
  LET Renamed(y) == alphaRenameTypeBinder(y, old, new)
      Binder == IF x.name = old THEN new ELSE x.name
  IN  CASE x.kind = "type-var" -> TypeVar(Binder)
        [] x.kind \in {"forall", "systemF-type-abs"} ->
             IF x.name = new THEN x ELSE [x EXCEPT !.name = Binder, !.body = Renamed(@)]
        [] OTHER -> WithParts(x, Renamed)

(* A node whose binder would capture a free name of the replacement gets   *)
(* another name.  A fault: it never does.                                  *)
Unmoved(x, fv, bound) == x
Away(x, fv, bound) ==
  IF x.name \in fv THEN alphaRenameTermBinder(x, x.name, fresh(x.name, fv \cup bound)) ELSE x
AwayType(x, fv, bound) ==
  IF x.name \in fv THEN alphaRenameTypeBinder(x, x.name, fresh(x.name, fv \cup bound)) ELSE x
(* The parameters of an arm, one after the other.                          *)
ArmAway(arm, fv, bound) ==
  FoldLeft(LAMBDA a, i :
             IF arm.params[i] \notin fv THEN a
             ELSE LET new == fresh(arm.params[i], a.avoid)
                  IN  [params |-> [a.params EXCEPT ![i] = new],
                       body |-> alphaRenameTermBinder(a.body, arm.params[i], new),
                       avoid |-> a.avoid \cup {new}],
           [params |-> arm.params, body |-> arm.body, avoid |-> fv \cup bound \cup Params(arm)],
           [i \in DOMAIN arm.params |-> i])

(* F of v, which is computed once however often F uses it.                 *)
With(v, F(_)) == CHOOSE r \in {F(w) : w \in {v}} : TRUE

RECURSIVE substituteHygienic(_, _, _, _)
substituteHygienic(x, name, new, bound) ==
  LET fv == freeTermVars(new)
      Here(y) == substituteHygienic(y, name, new, bound)
      Under(y, names) == substituteHygienic(y, name, new, bound \cup names)
      OfArm(arm) == With(ArmAway(arm, fv, bound), LAMBDA a : Arm(arm.ctor, a.params, Under(a.body, ToSet(a.params))))
  IN  CASE x.kind = "systemF-var" -> IF x.name = name /\ name \notin bound THEN new ELSE x
        [] x.kind = "systemF-abs" ->
             With(Away(x, fv, bound), LAMBDA c : Abs(c.name, Here(c.ty), Under(c.body, {c.name})))
        [] x.kind = "systemF-let" ->
             With(Away(x, fv, bound), LAMBDA c : Let(c.name, Here(c.value), Under(c.body, {c.name})))
        [] x.kind = "systemF-match" ->
             Match(Here(x.scrutinee), Here(x.ty), [i \in DOMAIN x.arms |-> OfArm(x.arms[i])])
        [] OTHER -> WithParts(x, Here)

RECURSIVE substituteTypeHygienic(_, _, _, _)
substituteTypeHygienic(x, name, new, bound) ==
  LET Here(y) == substituteTypeHygienic(y, name, new, bound)
  IN  CASE x.kind = "type-var" -> IF x.name = name /\ name \notin bound THEN new ELSE x
        [] x.kind \in {"forall", "systemF-type-abs"} ->
             With(AwayType(x, freeTypeVars(new), bound),
                  LAMBDA c : [c EXCEPT !.body = substituteTypeHygienic(@, name, new, bound \cup {c.name})])
        [] OTHER -> WithParts(x, Here)

-----------------------------------------------------------------------------
(* Many names at once: "subs" maps them to what replaces them, "fvs" are   *)
(* the free names of all of that.                                          *)
Without(subs, names) == [n \in DOMAIN subs \ names |-> subs[n]]
BatchAway(x, fvs, bound) ==
  IF x.name \in fvs THEN alphaRenameTermBinder(x, x.name, FirstFree(x.name, fvs \cup bound, 1)) ELSE x
RECURSIVE substituteTermHygienicBatch(_, _, _, _)
(* The parameters of an arm are gone through up to the first that has to   *)
(* be renamed, the only one that is.  When none has, an arm with a         *)
(* parameter of a name to be replaced is left as it is.                    *)
FirstCaught(arm, fvs) == CHOOSE i \in 1 .. Len(arm.params) + 1 :
  /\ i <= Len(arm.params) => arm.params[i] \in fvs
  /\ \A j \in 1 .. i - 1 : arm.params[j] \notin fvs
ParamsBefore(arm, i) == {arm.params[j] : j \in 1 .. i - 1}
NewParam(arm, i, fvs, bound) == FirstFree(arm.params[i], fvs \cup bound \cup Params(arm), 1)
BatchArm(arm, subs, fvs, bound) ==
  LET S(y, s, b) == substituteTermHygienicBatch(y, s, fvs, b)
      first == FirstCaught(arm, fvs)
      before == ParamsBefore(arm, first)
      new == NewParam(arm, first, fvs, bound)
  IN  CASE first <= Len(arm.params) ->
             Arm(arm.ctor, [arm.params EXCEPT ![first] = new],
                 S(alphaRenameTermBinder(arm.body, arm.params[first], new),
                   Without(subs, before \cup {new}), bound \cup before \cup {new}))
        [] first > Len(arm.params) /\ before \cap DOMAIN subs # {} -> arm
        [] OTHER -> Arm(arm.ctor, arm.params, S(arm.body, subs, bound \cup before))

(* What is below a binder, whose name is not replaced there.               *)
BatchUnder(c, subs, fvs, bound) ==
  substituteTermHygienicBatch(c.body, Without(subs, {c.name}), fvs, bound \cup {c.name})
substituteTermHygienicBatch(x, subs, fvs, bound) ==
  LET S(y, s, b) == substituteTermHygienicBatch(y, s, fvs, b)
      Here(y) == S(y, subs, bound)
      Body(c) == BatchUnder(c, subs, fvs, bound)
  IN  CASE DOMAIN subs = {} -> x
        [] DOMAIN subs # {} /\ x.kind = "systemF-var" ->
             IF ~ IsLiteral(x.name) /\ x.name \in DOMAIN subs \ bound THEN subs[x.name] ELSE x
        [] DOMAIN subs # {} /\ x.kind = "systemF-abs" ->
             With(BatchAway(x, fvs, bound), LAMBDA c : Abs(c.name, Here(c.ty), Body(c)))
        [] DOMAIN subs # {} /\ x.kind = "systemF-let" ->
             With(BatchAway(x, fvs, bound), LAMBDA c : Let(c.name, Here(x.value), Body(c)))
        [] DOMAIN subs # {} /\ x.kind = "systemF-match" ->
             Match(Here(x.scrutinee), Here(x.ty),
                   [i \in DOMAIN x.arms |-> BatchArm(x.arms[i], subs, fvs, bound)])
        [] OTHER -> WithParts(x, Here)
substituteTripLangTermDirectBatch(x, subs) ==
  substituteTermHygienicBatch(x, subs, UNION {freeTermVars(subs[n]) : n \in DOMAIN subs}, {})

-----------------------------------------------------------------------------
(* What a term means, whatever its binders are called: a bound name is the *)
(* number of binders between it and its own, names that are not bound stay.*)
(* Terms and types have names of their own.  To fill in free names is then *)
(* plain replacement: this is the definition that substitution is held to. *)
Nearest(n, names) == CHOOSE i \in DOMAIN names : names[i] = n /\ \A j \in 1 .. i - 1 : names[j] # n
RECURSIVE NamelessIn(_, _, _)
NamelessIn(x, terms, types) ==
  LET Here(y) == NamelessIn(y, terms, types)
      Under(y, names) == NamelessIn(y, Reverse(names) \o terms, types)
  IN  CASE x.kind = "systemF-var" /\ x.name \in ToSet(terms) -> [kind |-> "bound", at |-> Nearest(x.name, terms)]
        [] x.kind = "type-var" /\ x.name \in ToSet(types) -> [kind |-> "bound-type", at |-> Nearest(x.name, types)]
        [] x.kind = "systemF-abs" -> Abs("", Here(x.ty), Under(x.body, <<x.name>>))
        [] x.kind = "systemF-let" -> Let("", Here(x.value), Under(x.body, <<x.name>>))
        [] x.kind = "systemF-match" ->
             Match(Here(x.scrutinee), Here(x.ty),
                   [i \in DOMAIN x.arms |->
                      Arm(x.arms[i].ctor, [j \in DOMAIN x.arms[i].params |-> ""], Under(x.arms[i].body, x.arms[i].params))])
        [] x.kind \in {"systemF-type-abs", "forall"} ->
             [x EXCEPT !.name = "", !.body = NamelessIn(@, terms, <<x.name>> \o types)]
        [] OTHER -> WithParts(x, Here)
Meant(x) == NamelessIn(x, <<>>, <<>>)

(* "terms" and "types" map the names to fill in to what they mean.         *)
RECURSIVE Filled(_, _, _)
Filled(x, terms, types) ==
  LET Here(y) == Filled(y, terms, types)
  IN  CASE x.kind = "systemF-var" /\ x.name \in DOMAIN terms -> terms[x.name]
        [] x.kind = "type-var" /\ x.name \in DOMAIN types -> types[x.name]
        [] OTHER -> WithParts(x, Here)
NoNames == [n \in {} |-> n]

-----------------------------------------------------------------------------
(* The substitutions that keep the binders.  The others lose them, in the  *)
(* code as here: the name made for a binder only avoids the names put in   *)
(* and those bound around it, and a renaming leaves out what it has to     *)
(* reach.  In the scope of a binder that is renamed, the new name may not  *)
(* be free, and no old one may be below a type abstraction or a binder of  *)
(* the new name, where a renaming ends.                                    *)
RECURSIVE Unreached(_, _, _)
Unreached(x, old, new) ==
  IF x.kind = "systemF-type-abs" THEN old \in FreeTerms(x.body, {})
  ELSE \E p \in ToSet(Parts(x, {})) :
         IF new \in p.bound THEN old \in FreeTerms(p.node, p.bound) ELSE Unreached(p.node, old, new)
Movable(x, old, new) == new \notin FreeTerms(x, {}) /\ ~ Unreached(x, old, new)
RECURSIVE UnreachedType(_, _, _)
UnreachedType(x, old, new) ==
  IF x.kind \in {"forall", "systemF-type-abs"} /\ x.name = new THEN old \in FreeTypes(x, {})
  ELSE \E y \in ToSet(PartNodes(x)) : UnreachedType(y, old, new)
MovableType(x, old, new) == new \notin FreeTypes(x, {}) /\ ~ UnreachedType(x, old, new)

(* One name at a time.  The value of a let that is renamed is not in its   *)
(* scope and must not have its name.                                       *)
RECURSIVE RenamesKeep(_, _, _)
RenamesKeep(x, fv, bound) ==
  LET new == fresh(x.name, fv \cup bound)
      Below(c) == RenamesKeep(c.body, fv, bound \cup {c.name})
      OfArm(arm) ==
        With(ArmAway(arm, fv, bound), LAMBDA a :
          /\ \A i \in DOMAIN arm.params : arm.params[i] \in fv => Movable(arm.body, arm.params[i], a.params[i])
          /\ RenamesKeep(a.body, fv, bound \cup ToSet(a.params)))
  IN  CASE x.kind = "systemF-abs" ->
             /\ x.name \in fv => Movable(x.body, x.name, new)
             /\ With(Away(x, fv, bound), Below)
        [] x.kind = "systemF-let" ->
             /\ x.name \in fv =>
                  Movable(x.body, x.name, new) /\ Movable(x.value, x.name, new) /\ x.name \notin FreeTerms(x.value, {})
             /\ RenamesKeep(Away(x, fv, bound).value, fv, bound)
             /\ With(Away(x, fv, bound), Below)
        [] x.kind = "systemF-match" ->
             RenamesKeep(x.scrutinee, fv, bound) /\ \A i \in DOMAIN x.arms : OfArm(x.arms[i])
        [] OTHER -> \A y \in ToSet(PartNodes(x)) : RenamesKeep(y, fv, bound)

RECURSIVE TypeRenamesKeep(_, _, _)
TypeRenamesKeep(x, fv, bound) ==
  IF x.kind \in {"forall", "systemF-type-abs"}
  THEN /\ x.name \in fv => MovableType(x.body, x.name, fresh(x.name, fv \cup bound))
       /\ With(AwayType(x, fv, bound), LAMBDA c : TypeRenamesKeep(c.body, fv, bound \cup {c.name}))
  ELSE \A y \in ToSet(PartNodes(x)) : TypeRenamesKeep(y, fv, bound)

(* Many names at once.  After a parameter that is renamed, no other is     *)
(* renamed, replaced or taken for bound; where none is renamed but one has *)
(* a name to be replaced, nothing is replaced.                             *)
RECURSIVE BatchRenamesKeep(_, _, _, _)
BatchRenamesKeep(x, names, fvs, bound) ==
  LET new == FirstFree(x.name, fvs \cup bound, 1)
      Here(y) == BatchRenamesKeep(y, names, fvs, bound)
      Below(c) == BatchRenamesKeep(c.body, names \ {c.name}, fvs, bound \cup {c.name})
      OfArm(arm) ==
        LET first == FirstCaught(arm, fvs)
            before == ParamsBefore(arm, first)
            param == NewParam(arm, first, fvs, bound)
        IN  CASE first <= Len(arm.params) ->
                   /\ \A j \in first + 1 .. Len(arm.params) : arm.params[j] \notin fvs \cup names
                   /\ Movable(arm.body, arm.params[first], param)
                   /\ BatchRenamesKeep(alphaRenameTermBinder(arm.body, arm.params[first], param),
                                       names \ (before \cup {param}), fvs, bound \cup before \cup {param})
              [] first > Len(arm.params) /\ before \cap names # {} -> FreeTerms(arm.body, before) \cap names = {}
              [] OTHER -> BatchRenamesKeep(arm.body, names, fvs, bound \cup before)
  IN  CASE names = {} -> TRUE
        [] names # {} /\ x.kind \in {"systemF-abs", "systemF-let"} ->
             /\ x.name \in fvs => Movable(x.body, x.name, new)
             /\ x.kind = "systemF-let" => Here(x.value)
             /\ With(BatchAway(x, fvs, bound), Below)
        [] names # {} /\ x.kind = "systemF-match" -> Here(x.scrutinee) /\ \A i \in DOMAIN x.arms : OfArm(x.arms[i])
        [] OTHER -> \A y \in ToSet(PartNodes(x)) : Here(y)

(* A type variable of what is put in may be bound where it is put, as only *)
(* term variables are looked at; and it may not have the name of a term,   *)
(* as binders of types are taken for binders of terms.                     *)
TypesStayFree(x, new) == FreeTypes(new, {}) \cap TypeBinders(x) = {} /\ TypeBinders(new) \cap FreeTerms(new, {}) = {}
KeepsBinders(x, new) == TypesStayFree(x, new) /\ RenamesKeep(x, freeTermVars(new), {})
TypeKeepsBinders(x, new) == TypeRenamesKeep(x, freeTypeVars(new), {})
BatchKeepsBinders(x, subs) ==
  /\ \A n \in DOMAIN subs : TypesStayFree(x, subs[n])
  /\ BatchRenamesKeep(x, DOMAIN subs, UNION {freeTermVars(subs[n]) : n \in DOMAIN subs}, {})
=============================================================================
