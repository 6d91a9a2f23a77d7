------------------------------ MODULE MCBundle ------------------------------
(* Bundles of up to two modules with sources that look like the format, and *)
(* every input one edit away from what is written for some of them.        *)
EXTENDS Bundle

Char == <<"text", "x">>
MCPieces == {Char, LF, Header(2, 1)}
MCSources == UNION {[1 .. n -> MCPieces] : n \in 0 .. 2} \cup {<<High>>, <<Char, High>>}
MCModules == {[name |-> n, source |-> s] : n \in 0 .. 3, s \in MCSources}
MCSmallModules == {[name |-> n, source |-> s] : n \in 1 .. 3, s \in {<<>>, <<Char>>, <<LF>>, <<Char, LF>>, <<LF, Header(2, 1)>>}}
BundleOf(modules, entry, target, wrapper) ==
  [entry |-> entry, target |-> target, wrapper |-> wrapper, modules |-> modules]
MCBundles ==
  {BundleOf(<<m>>, e, t, w) : m \in MCModules, e \in 0 .. 2, t \in {"generic", "linux"}, w \in BOOLEAN}
  \cup {BundleOf(<<m, n>>, e, "generic", TRUE) : m, n \in MCSmallModules, e \in 1 .. 3}
  \cup {BundleOf(<<>>, 1, "generic", FALSE)}

MCItems == {LF, Char, High, Magic, Directive("entry", 1), Directive("entry", 3), Directive("entry", 0),
            Directive("target", "generic"), Directive("target", "other"), Directive("wrapper", "none"),
            Directive("wrapper", "maybe"), Directive("modules", 0), Directive("modules", 1),
            Directive("modules", 2), Directive("modules", 3), Header(1, 0), Header(1, 1), Header(2, 1), Header(2, 2),
            Header(2, 3), Header(3, 1), Header(0, 1)}
Edits(s) ==
  {SubSeq(s, 1, i) : i \in 0 .. Len(s)}
  \cup {RemoveAt(s, i) : i \in DOMAIN s}
  \cup {ReplaceAt(s, i, x) : i \in DOMAIN s, x \in MCItems}
  \cup {InsertAt(s, i, x) : i \in 1 .. Len(s) + 1, x \in MCItems}
BaseBundles ==
  {BundleOf(<<m, n>>, 2, "generic", FALSE) :
     m \in {[name |-> 1, source |-> s] : s \in {<<>>, <<Char>>, <<LF, Header(2, 1)>>}},
     n \in {[name |-> 2, source |-> s] : s \in {<<>>, <<Char, LF>>}}}
MCForeignInputs == UNION {Edits(serializeTripBundleV1(b)) : b \in BaseBundles}
=============================================================================
