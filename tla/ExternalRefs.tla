---------------------------- MODULE ExternalRefs ----------------------------
(***************************************************************************)
(* The names a definition takes from outside (externalReferences.ts, and   *)
(* collectMatchConstructors of reachability.ts): one loop over a stack of  *)
(* nodes, each with the names bound around it, terms and types alike.      *)
(***************************************************************************)
EXTENDS Naturals, Sequences, FiniteSets

(* The nodes of terms and of types.                                        *)
Var(n) == [kind |-> "systemF-var", name |-> n]
App(l, r) == [kind |-> "non-terminal", lft |-> l, rgt |-> r]
Abs(n, ty, body) == [kind |-> "systemF-abs", name |-> n, ty |-> ty, body |-> body]
Let(n, value, body) == [kind |-> "systemF-let", name |-> n, value |-> value, body |-> body]
TypeAbs(n, body) == [kind |-> "systemF-type-abs", name |-> n, body |-> body]
TypeApp(t, ty) == [kind |-> "systemF-type-app", term |-> t, ty |-> ty]
Arm(c, params, body) == [ctor |-> c, params |-> params, body |-> body]
Match(s, ty, arms) == [kind |-> "systemF-match", scrutinee |-> s, ty |-> ty, arms |-> arms]
TypeVar(n) == [kind |-> "type-var", name |-> n]
Arrow(l, r) == [kind |-> "non-terminal", lft |-> l, rgt |-> r]
TypeOf(f, a) == [kind |-> "type-app", fn |-> f, arg |-> a]
Forall(n, body) == [kind |-> "forall", name |-> n, body |-> body]
Terminal == [kind |-> "terminal"]
Params(arm) == {arm.params[i] : i \in DOMAIN arm.params}

(* A node that waits on the stack, with the names that are bound there.    *)
Scoped(node, bound) == [node |-> node, bound |-> bound]
(* A name that stands for a number, "0", or a byte, "1", is no reference.  *)
IsNatLiteral(n) == n = "0"
IsLiteral(n) == n \in {"0", "1"}

(* What is pushed for a node: its parts, the one the loop goes on with     *)
(* last, each with the names bound in it.                                  *)
Parts(x, b) ==
  CASE x.kind = "non-terminal" -> <<Scoped(x.lft, b), Scoped(x.rgt, b)>>
    [] x.kind = "type-app" -> <<Scoped(x.fn, b), Scoped(x.arg, b)>>
    [] x.kind = "systemF-abs" -> <<Scoped(x.ty, b), Scoped(x.body, b \cup {x.name})>>
    [] x.kind = "systemF-let" -> <<Scoped(x.value, b), Scoped(x.body, b \cup {x.name})>>
    [] x.kind = "systemF-match" ->
         <<Scoped(x.scrutinee, b), Scoped(x.ty, b)>>
           \o [i \in DOMAIN x.arms |-> Scoped(x.arms[i].body, b \cup Params(x.arms[i]))]
    [] x.kind = "systemF-type-abs" -> <<Scoped(x.body, b \cup {x.name})>>
    [] x.kind = "systemF-type-app" -> <<Scoped(x.term, b), Scoped(x.ty, b)>>
    [] x.kind = "forall" -> <<Scoped(x.body, b \cup {x.name})>>
    [] OTHER -> <<>>

NoRefs == [terms |-> {}, types |-> {}]
Seen(refs, x, b) ==
  CASE x.kind = "systemF-var" /\ x.name \notin b /\ ~ IsLiteral(x.name) ->
         [refs EXCEPT !.terms = @ \cup {x.name}]
    [] x.kind = "type-var" /\ x.name \notin b -> [refs EXCEPT !.types = @ \cup {x.name}]
    [] OTHER -> refs

RECURSIVE collectIterative(_, _)
collectIterative(stack, refs) ==
  IF stack = <<>> THEN refs
  ELSE LET top == stack[Len(stack)]
       IN  collectIterative(SubSeq(stack, 1, Len(stack) - 1) \o Parts(top.node, top.bound),
                            Seen(refs, top.node, top.bound))
externalReferences(x) == collectIterative(<<Scoped(x, {})>>, NoRefs)

(* The constructors that the matches of a term name.                       *)
RECURSIVE matchConstructors(_)
matchConstructors(x) ==
  LET Sub == {Parts(x, {})[i].node : i \in DOMAIN Parts(x, {})}
      Own == IF x.kind = "systemF-match" THEN {x.arms[i].ctor : i \in DOMAIN x.arms} ELSE {}
  IN  Own \cup UNION {matchConstructors(y) : y \in Sub}

-----------------------------------------------------------------------------
(* What the names of a term are, by the rules of System F: terms and types *)
(* have names of their own.                                                *)
RECURSIVE FreeTerms(_, _)
FreeTerms(x, b) ==
  CASE x.kind = "systemF-var" -> IF IsLiteral(x.name) THEN {} ELSE {x.name} \ b
    [] x.kind = "non-terminal" -> FreeTerms(x.lft, b) \cup FreeTerms(x.rgt, b)
    [] x.kind = "systemF-abs" -> FreeTerms(x.body, b \cup {x.name})
    [] x.kind = "systemF-let" -> FreeTerms(x.value, b) \cup FreeTerms(x.body, b \cup {x.name})
    [] x.kind = "systemF-match" ->
         FreeTerms(x.scrutinee, b) \cup UNION {FreeTerms(x.arms[i].body, b \cup Params(x.arms[i])) : i \in DOMAIN x.arms}
    [] x.kind = "systemF-type-abs" -> FreeTerms(x.body, b)
    [] x.kind = "systemF-type-app" -> FreeTerms(x.term, b)
    [] OTHER -> {}
RECURSIVE FreeTypes(_, _)
FreeTypes(x, b) ==
  CASE x.kind = "type-var" -> {x.name} \ b
    [] x.kind = "non-terminal" -> FreeTypes(x.lft, b) \cup FreeTypes(x.rgt, b)
    [] x.kind = "type-app" -> FreeTypes(x.fn, b) \cup FreeTypes(x.arg, b)
    [] x.kind = "forall" -> FreeTypes(x.body, b \cup {x.name})
    [] x.kind = "systemF-abs" -> FreeTypes(x.ty, b) \cup FreeTypes(x.body, b)
    [] x.kind = "systemF-let" -> FreeTypes(x.value, b) \cup FreeTypes(x.body, b)
    [] x.kind = "systemF-match" ->
         FreeTypes(x.scrutinee, b) \cup FreeTypes(x.ty, b) \cup UNION {FreeTypes(x.arms[i].body, b) : i \in DOMAIN x.arms}
    [] x.kind = "systemF-type-abs" -> FreeTypes(x.body, b \cup {x.name})
    [] x.kind = "systemF-type-app" -> FreeTypes(x.term, b) \cup FreeTypes(x.ty, b)
    [] OTHER -> {}

(* The names that a term binds, as terms and as types.                     *)
RECURSIVE Binders(_, _)
Binders(x, kinds) ==
  (IF x.kind \in kinds THEN IF x.kind = "systemF-match" THEN UNION {Params(x.arms[i]) : i \in DOMAIN x.arms}
                            ELSE {x.name} ELSE {})
    \cup UNION {Binders(y, kinds) : y \in {Parts(x, {})[i].node : i \in DOMAIN Parts(x, {})}}
TermBinders(x) == Binders(x, {"systemF-abs", "systemF-let", "systemF-match"})
TypeBinders(x) == Binders(x, {"systemF-type-abs", "forall"})
(* No name is bound as a term and used as a type, or the other way round.  *)
NamespacesApart(x) ==
  /\ TypeBinders(x) \cap FreeTerms(x, {}) = {} /\ TermBinders(x) \cap FreeTypes(x, {}) = {}
=============================================================================
