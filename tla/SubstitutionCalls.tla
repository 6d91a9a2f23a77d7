-------------------------- MODULE SubstitutionCalls -------------------------
(***************************************************************************)
(* One term on which substitutions are made, one after the other, as the   *)
(* resolution of a definition does: of a name by a term, of a type name by *)
(* a type, of several names at once.  "meant" is what the term has to mean.*)
(***************************************************************************)
EXTENDS Substitution

CONSTANTS Subjects,    \* the terms to start from
          PutTerms,     \* the functions from names to the terms put for them
          PutTypes,     \* the same for type names and types
          MaxCalls     \* how many substitutions are made

VARIABLES subject, meant, last, calls,
          orderly      \* no call yet was one that may lose a binder
vars == <<subject, meant, last, calls, orderly>>

Init == subject \in Subjects /\ meant = Meant(subject) /\ last = "none" /\ calls = 0 /\ orderly = TRUE

Called(kind, x, terms, types, keeps) ==
  /\ calls < MaxCalls /\ calls' = calls + 1
  /\ orderly' = (orderly /\ keeps)
  /\ last' = kind /\ subject' = x
  /\ meant' = Filled(meant, [n \in DOMAIN terms |-> Meant(terms[n])], [n \in DOMAIN types |-> Meant(types[n])])

SubstituteTerm ==
  \E s \in PutTerms : \E n \in DOMAIN s :
    Called("term", substituteHygienic(subject, n, s[n], {}), [m \in {n} |-> s[n]], NoNames,
           KeepsBinders(subject, s[n]))
SubstituteType ==
  \E s \in PutTypes : \E n \in DOMAIN s :
    Called("type", substituteTypeHygienic(subject, n, s[n], {}), NoNames, [m \in {n} |-> s[n]],
           TypeKeepsBinders(subject, s[n]))
SubstituteBatch ==
  \E s \in PutTerms :
    Called("batch", substituteTripLangTermDirectBatch(subject, s), s, NoNames, BatchKeepsBinders(subject, s))

Next == SubstituteTerm \/ SubstituteType \/ SubstituteBatch
Spec == Init /\ [][Next]_vars

-----------------------------------------------------------------------------
(* A substitution replaces the free occurrences of its name and no other,  *)
(* no free name of what is put in is bound by the term around it, and each *)
(* bound name keeps its binder, whatever was substituted before: as long as*)
(* none of them was of those that lose one (KeepsBinders and the two like  *)
(* it): where the name made for a binder is in its scope already, a binder *)
(* is renamed above a type abstraction that uses it, or a let whose value  *)
(* has its name; where a free type variable of what is put in is bound; and*)
(* in the arms that a batch leaves half done.                              *)
TermsAsMeant == orderly /\ last = "term" => Meant(subject) = meant
TypesAsMeant == orderly /\ last = "type" => Meant(subject) = meant
BatchAsMeant == orderly /\ last = "batch" => Meant(subject) = meant
=============================================================================
