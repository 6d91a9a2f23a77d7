------------------------------- MODULE Bundle -------------------------------
(***************************************************************************)
(* The bundle-v1 source format (bundleV1.ts): what serializeTripBundleV1   *)
(* writes and how parseTripBundleV1 reads it, line by line.  A byte is LF, *)
(* a piece of a line or a piece of a source; the text of a directive counts*)
(* as one byte; a line of several pieces matches no directive.  A source   *)
(* may hold anything, a directive included.                                *)
(***************************************************************************)
EXTENDS Naturals, Sequences, SequencesExt, TLC

CONSTANTS Bundles,       \* what is given to the serializer
          ForeignInputs  \* what is given to the parser directly

LF == <<"LF">>
Magic == <<"magic">>
High == <<"high">>    \* a byte that is not ASCII
Directive(kind, value) == <<kind, value>>
Header(name, length) == <<"module", name, length>>
(* A name is a number in the order of compareAscii; no valid name is zero. *)
ValidName(name) == name # 0
Targets == {"generic", "linux", "darwin", "windows"}
wrapperToString(wrapper) == IF wrapper THEN "enabled" ELSE "none"
AsciiBytes(bytes) == \A i \in DOMAIN bytes : bytes[i] # High

-----------------------------------------------------------------------------
NamesOf(modules) == {modules[i].name : i \in DOMAIN modules}
Sorted(modules) == SortSeq(modules, LAMBDA m, n : m.name < n.name)
Accepted(b) ==
  /\ \A i \in DOMAIN b.modules : ValidName(b.modules[i].name) /\ AsciiBytes(b.modules[i].source)
  /\ \A i, j \in DOMAIN b.modules : b.modules[i].name = b.modules[j].name => i = j
  /\ b.entry \in NamesOf(b.modules) /\ ValidName(b.entry)
Lines(parts) == FoldLeft(LAMBDA text, part : IF text = <<>> THEN part ELSE text \o <<LF>> \o part, <<>>, parts)
(* The sources are joined like lines, the empty ones included.             *)
serializeTripBundleV1(b) ==
  LET ms == Sorted(b.modules)
      start == <<<<Magic>>, <<Directive("entry", b.entry)>>, <<Directive("target", b.target)>>,
                 <<Directive("wrapper", wrapperToString(b.wrapper))>>,
                 <<Directive("modules", Len(ms))>>>>
      Record(m) == <<<<Header(m.name, Len(m.source))>>, m.source>>
  IN  Lines(start \o FlattenSeq([i \in DOMAIN ms |-> Record(ms[i])]))
-----------------------------------------------------------------------------
VARIABLES given,   \* the bundle given to the serializer, or none
          input,   \* the bytes given to the parser
          stage,   \* where the parser is
          offset,  \* bytes read so far
          parsed   \* what has been read
vars == <<given, input, stage, offset, parsed>>

None == <<>>
NothingRead == [entry |-> 0, target |-> "none", wrapper |-> FALSE, count |-> 0, modules |-> <<>>]
Init ==
  /\ offset = 0 /\ parsed = NothingRead
  /\ \/ given \in Bundles /\ input = <<>> /\ stage = "bundle"
     \/ given = None /\ input \in ForeignInputs /\ stage = "magic"

Serialize ==
  /\ stage = "bundle"
  /\ stage' = IF Accepted(given) THEN "magic" ELSE "refused"
  /\ input' = IF Accepted(given) THEN serializeTripBundleV1(given) ELSE <<>>
  /\ UNCHANGED <<given, offset, parsed>>

(* A line ends at the next LF or at the end of the input.                  *)
LineEnd == LET ends == {i \in offset + 1 .. Len(input) : input[i] = LF}
           IN  IF ends = {} THEN Len(input) + 1 ELSE CHOOSE i \in ends : \A j \in ends : i <= j
readLine == SubSeq(input, offset + 1, LineEnd - 1)
AfterLine == IF LineEnd > Len(input) THEN Len(input) ELSE LineEnd
Reject == stage' = "rejected" /\ UNCHANGED <<given, input, offset, parsed>>
(* The line is the directive alone, with a value.                          *)
Has(line, kind) == Len(line) = 1 /\ line[1][1] = kind
ReadLineAs(from, to, ok, result) ==
  /\ stage = from
  /\ IF ok THEN /\ stage' = to /\ offset' = AfterLine /\ parsed' = result
                /\ UNCHANGED <<given, input>>
     ELSE Reject

ReadMagic == ReadLineAs("magic", "entry", readLine = <<Magic>>, parsed)
ReadEntry ==
  LET ok == Has(readLine, "entry") /\ ValidName(readLine[1][2])
  IN  ReadLineAs("entry", "target", ok, IF ok THEN [parsed EXCEPT !.entry = readLine[1][2]] ELSE parsed)
ReadTarget ==
  LET ok == Has(readLine, "target") /\ readLine[1][2] \in Targets
  IN  ReadLineAs("target", "wrapper", ok, IF ok THEN [parsed EXCEPT !.target = readLine[1][2]] ELSE parsed)
ReadWrapper ==
  LET ok == Has(readLine, "wrapper") /\ readLine[1][2] \in {"none", "enabled"}
  IN  ReadLineAs("wrapper", "count", ok,
                 IF ok THEN [parsed EXCEPT !.wrapper = (readLine[1][2] = "enabled")] ELSE parsed)
ReadCount ==
  LET ok == Has(readLine, "modules")
  IN  ReadLineAs("count", "modules", ok, IF ok THEN [parsed EXCEPT !.count = readLine[1][2]] ELSE parsed)

(* A fault: only the name before is told apart.                            *)
NotRepeated(modules, name) == modules # <<>> => modules[Len(modules)].name # name
InOrder(modules, name) == modules # <<>> => modules[Len(modules)].name < name
(* A record: a header, that many bytes, and LF unless it is the last.      *)
ReadModule ==
  LET ms == parsed.modules
      named == Has(readLine, "module") /\ ValidName(readLine[1][2])
      name == readLine[1][2]
      end == AfterLine + readLine[1][3]
      last == Len(ms) + 1 = parsed.count
      source == SubSeq(input, AfterLine + 1, end)
      ok == /\ named
            /\ InOrder(ms, name)
            /\ end <= Len(input) /\ AsciiBytes(source)
            /\ IF last THEN end = Len(input) ELSE end < Len(input) /\ input[end + 1] = LF
  IN  /\ stage = "modules" /\ Len(ms) < parsed.count
      /\ IF ok THEN /\ parsed' = [parsed EXCEPT !.modules = Append(@, [name |-> name, source |-> source])]
                    /\ offset' = IF last THEN end ELSE end + 1
                    /\ UNCHANGED <<given, input, stage>>
         ELSE Reject
FinishParse ==
  /\ stage = "modules" /\ Len(parsed.modules) = parsed.count
  /\ IF parsed.entry \in NamesOf(parsed.modules) /\ offset = Len(input)
       THEN stage' = "parsed" /\ UNCHANGED <<given, input, offset, parsed>>
       ELSE Reject

Next == Serialize \/ ReadMagic \/ ReadEntry \/ ReadTarget \/ ReadWrapper \/ ReadCount
        \/ ReadModule \/ FinishParse
Spec == Init /\ [][Next]_vars

-----------------------------------------------------------------------------
ParsedBundle == [entry |-> parsed.entry, target |-> parsed.target, wrapper |-> parsed.wrapper,
                 modules |-> parsed.modules]
(* A bundle the serializer takes is never rejected by the parser, whatever *)
(* its sources hold, and comes back with its modules sorted by name.       *)
RoundTrip ==
  given # None =>
    /\ stage # "rejected"
    /\ stage = "parsed" => ParsedBundle = [given EXCEPT !.modules = Sorted(@)]

(* What the parser accepts is what the serializer writes ("Parsing is      *)
(* byte-exact", README.md), but for the LF after the header of a last,     *)
(* empty module, which the serializer writes and the parser does without.  *)
NearlyByteExact ==
  stage = "parsed" =>
    LET bytes == serializeTripBundleV1(ParsedBundle)
    IN  input = bytes \/ (Last(parsed.modules).source = <<>> /\ Append(input, LF) = bytes)
=============================================================================
