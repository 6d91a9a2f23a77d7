---------------------------- MODULE TopoDagWire ----------------------------
(***************************************************************************)
(* The topological wire format of terms (lib/ski/topoDagWire.ts): records  *)
(* of a fixed width, children first, separated by bars, with offsets into  *)
(* the text for pointers.  The text is a sequence of cells, one per field  *)
(* and one per separator, so offsets count cells; the streaming decoder    *)
(* gets the text in pieces cut anywhere between cells.                     *)
(***************************************************************************)
EXTENDS TopoOrder, Integers, FiniteSets

CONSTANTS PerChunk,     \* recordsPerChunk
          MaxPiece,     \* bound: cells handed to the decoder at once
          ForeignWires  \* texts that do not come from the encoder
ASSUME ChunkAssumption == PerChunk \in Nat \ {0} /\ MaxPiece \in Nat \ {0}

VARIABLES mode,       \* what is done with the text: "stream", "combine", "foreign"
          roots,      \* the terms that are encoded
          enc,        \* where the encoder is: "order", "write", "done"
          written, chunk, inChunk,   \* records written, and the chunk being filled
          wires,      \* the texts encoded so far
          sent,       \* the text the decoder is given
          taken,      \* how much of it the decoder has
          pending, nodes, dec        \* TopoDagWireDecoder
encVars == <<mode, roots, enc, written, chunk, inChunk, wires>>
decVars == <<taken, pending, nodes, dec>>
vars == <<orderVars, encVars, sent, decVars>>

(* Objects with an odd number are one terminal, those with an even number  *)
(* the other, when they are no applications.                               *)
Leaf(n) == 1 + (n % 2)
AppTerm == 0
Null == -1
TermCell(t) == <<"term", t>>
Pointer(offset) == <<"pointer", offset>>
Separator == <<"bar", 0>>
RecordWidth == 3
Stride == RecordWidth + 1

-----------------------------------------------------------------------------
(* The encoder.                                                            *)
nodeToOffset(n) == ((CHOOSE i \in DOMAIN dagOrder : dagOrder[i] = n) - 1) * Stride
buildTopoDagRecord(n) ==
  IF IsApp(n) THEN <<TermCell(AppTerm), Pointer(nodeToOffset(lft[n])), Pointer(nodeToOffset(rgt[n]))>>
  ELSE <<TermCell(Leaf(n)), Pointer(Null), Pointer(Null)>>

Init ==
  /\ OrderInit
  /\ mode \in {"stream", "combine", "foreign"}
  /\ mode = "foreign" => root = 1 /\ \A n \in Node : lft[n] = 0
  /\ IF mode = "combine" THEN \E n \in Node : roots = <<root, n>> ELSE roots = <<root>>
  /\ enc = IF mode = "foreign" THEN "done" ELSE "order"
  /\ written = 0 /\ chunk = <<>> /\ inChunk = 0 /\ wires = <<>>
  /\ sent \in IF mode = "foreign" THEN ForeignWires ELSE {<<>>}
  /\ taken = 0 /\ pending = <<>> /\ nodes = <<>> /\ dec = "open"

VisitNode ==
  /\ enc = "order" /\ OrderNext
  /\ UNCHANGED <<encVars, sent, decVars>>
StartWriting ==
  /\ enc = "order" /\ stack = <<>>
  /\ enc' = "write"
  /\ wires' = Append(wires, <<>>)
  /\ UNCHANGED <<orderVars, mode, roots, written, chunk, inChunk, sent, decVars>>

(* The sink of the chunks: the decoder, or the text that is put together.  *)
Sink(text) ==
  /\ wires' = [wires EXCEPT ![Len(wires)] = @ \o text]
  /\ sent' = IF mode = "stream" THEN sent \o text ELSE sent
writeRecord ==
  LET bar == IF written = 0 THEN <<>> ELSE <<Separator>>
      text == chunk \o bar \o buildTopoDagRecord(dagOrder[written + 1])
  IN  /\ enc = "write" /\ written < Len(dagOrder)
      /\ written' = written + 1
      /\ IF inChunk + 1 >= PerChunk THEN Sink(text) /\ chunk' = <<>> /\ inChunk' = 0
         ELSE chunk' = text /\ inChunk' = inChunk + 1 /\ UNCHANGED <<wires, sent>>
      /\ UNCHANGED <<orderVars, mode, roots, enc, decVars>>
(* The last chunk, and the next term or the end.                           *)
finishWriting ==
  /\ enc = "write" /\ written = Len(dagOrder)
  /\ Sink(chunk)
  /\ chunk' = <<>> /\ inChunk' = 0 /\ written' = 0
  /\ IF Len(wires) < Len(roots)
       THEN /\ enc' = "order"
            /\ root' = roots[Len(wires) + 1]
            /\ stack' = <<roots[Len(wires) + 1]>>
            /\ expanded' = {} /\ emitted' = {} /\ dagOrder' = <<>>
            /\ UNCHANGED <<lft, rgt>>
       ELSE enc' = "done" /\ UNCHANGED orderVars
  /\ UNCHANGED <<mode, roots, decVars>>

(* combineTopoDagWires: the records of the right text, their pointers moved*)
(* past the left text, then the application of both roots.                 *)
RecordCount(text) == (Len(text) + 1) \div Stride
shiftPointerField(cell, offset) ==
  IF cell[1] = "pointer" /\ cell[2] # Null THEN Pointer(cell[2] + offset) ELSE cell
Shifted(text, offset) == [i \in DOMAIN text |-> shiftPointerField(text[i], offset)]
(* A fault: the pointers are moved by the left text without its separator. *)
combineTopoDagWiresShort(left, right) ==
  left \o <<Separator>> \o Shifted(right, Len(left)) \o
  <<Separator, TermCell(AppTerm), Pointer((RecordCount(left) - 1) * Stride),
    Pointer(Len(left) + (RecordCount(right) - 1) * Stride)>>
combineTopoDagWires(left, right) ==
  LET rightOffset == Len(left) + 1
  IN  left \o <<Separator>> \o Shifted(right, rightOffset) \o
      <<Separator, TermCell(AppTerm), Pointer((RecordCount(left) - 1) * Stride),
        Pointer(rightOffset + (RecordCount(right) - 1) * Stride)>>
Combine ==
  /\ enc = "done" /\ mode = "combine" /\ sent = <<>>
  /\ sent' = combineTopoDagWires(wires[1], wires[2])
  /\ UNCHANGED <<orderVars, encVars, decVars>>

-----------------------------------------------------------------------------
(* The decoder.  A node has a term and, for an application, its children.  *)
validateChildPointer(offset, currentOffset) ==
  /\ offset # Null
  /\ offset % Stride = 0
  /\ offset < currentOffset
ValidRecord(record, recordCount) ==
  /\ Len(record) = RecordWidth
  /\ record[1][1] = "term" /\ record[2][1] = "pointer" /\ record[3][1] = "pointer"
  /\ IF record[1][2] = AppTerm
       THEN /\ validateChildPointer(record[2][2], recordCount * Stride)
            /\ validateChildPointer(record[3][2], recordCount * Stride)
       ELSE record[2][2] = Null /\ record[3][2] = Null
NodeOf(record) ==
  [term |-> record[1][2],
   children |-> IF record[1][2] = AppTerm
                  THEN <<record[2][2] \div Stride + 1, record[3][2] \div Stride + 1>> ELSE <<>>]

SeparatorAt(text) ==
  IF \E i \in DOMAIN text : text[i] = Separator
    THEN CHOOSE i \in DOMAIN text : text[i] = Separator /\ \A j \in 1 .. i - 1 : text[j] # Separator
    ELSE 0
Decoder(p, ns, ok) == [pending |-> p, nodes |-> ns, ok |-> ok]
consumeRecord(record, d) ==
  IF ValidRecord(record, Len(d.nodes))
    THEN Decoder(d.pending, Append(d.nodes, NodeOf(record)), TRUE)
    ELSE Decoder(d.pending, d.nodes, FALSE)
RECURSIVE ConsumeAll(_)
ConsumeAll(d) ==
  LET at == SeparatorAt(d.pending)
      rest == SubSeq(d.pending, at + 1, Len(d.pending))
      next == consumeRecord(SubSeq(d.pending, 1, at - 1), [d EXCEPT !.pending = rest])
  IN  IF at = 0 \/ ~ d.ok THEN d ELSE ConsumeAll(next)

Decode ==   \* write(chunk)
  LET piece(k) == SubSeq(sent, taken + 1, taken + k)
  IN  \E k \in 1 .. MaxPiece :
        LET d == ConsumeAll(Decoder(pending \o piece(k), nodes, TRUE))
        IN  /\ dec = "open" /\ taken + k <= Len(sent)
            /\ taken' = taken + k
            /\ pending' = d.pending /\ nodes' = d.nodes
            /\ dec' = IF d.ok THEN "open" ELSE "failed"
            /\ UNCHANGED <<orderVars, encVars, sent>>
finish ==
  LET d == consumeRecord(pending, Decoder(<<>>, nodes, TRUE))
  IN  /\ dec = "open" /\ enc = "done" /\ taken = Len(sent)
      /\ mode = "combine" => sent # <<>>
      /\ nodes' = d.nodes /\ pending' = <<>>
      /\ dec' = IF d.ok THEN "done" ELSE "failed"
      /\ UNCHANGED <<orderVars, encVars, sent, taken>>

Next == VisitNode \/ StartWriting \/ writeRecord \/ finishWriting \/ Combine \/ Decode \/ finish
Spec == Init /\ [][Next]_vars

(* The other reader: it trusts the widths and looks at the separators.     *)
IteratedRecords(text) ==
  [i \in 1 .. RecordCount(text) |-> SubSeq(text, (i - 1) * Stride + 1, i * Stride - 1)]
iterateAccepts(text) ==
  /\ text # <<>>
  /\ (Len(text) + 1) % Stride = 0
  /\ \A i \in 1 .. RecordCount(text) - 1 : text[i * Stride] = Separator

-----------------------------------------------------------------------------
TypeOK ==
  /\ OrderTypeOK
  /\ enc \in {"order", "write", "done"} /\ dec \in {"open", "done", "failed"}
  /\ written \in 0 .. Len(dagOrder) /\ inChunk \in 0 .. PerChunk - 1
  /\ taken \in 0 .. Len(sent)

(* The meaning of an object and of a decoded node: the term, written out.  *)
TermOf(start) ==
  LET term[n \in Node] == IF IsApp(n) THEN <<term[lft[n]], term[rgt[n]]>> ELSE <<Leaf(n)>>
  IN  term[start]
TermRead ==
  LET term[i \in DOMAIN nodes] ==
        IF nodes[i].children # <<>> THEN <<term[nodes[i].children[1]], term[nodes[i].children[2]]>>
        ELSE <<nodes[i].term>>
  IN  term[Len(nodes)]
Shared(start) ==
  LET below[n \in Node] == IF IsApp(n) THEN {n} \cup below[lft[n]] \cup below[rgt[n]] ELSE {n}
  IN  below[start]

(* The decoder gets back the term, or the application of the two terms that*)
(* were combined, wherever the text was cut (fromTopoDagWire,              *)
(* TopoDagWireDecoder).                                                    *)
RoundTrip ==
  dec = "done" /\ mode # "foreign" =>
    TermRead = IF mode = "combine" THEN <<TermOf(roots[1]), TermOf(roots[2])>> ELSE TermOf(roots[1])

(* What the encoder writes is never refused.                               *)
EncodedIsAccepted == mode # "foreign" => dec # "failed"

(* Sharing survives: one record for each object of each term, and one for  *)
(* the application that combines two.                                      *)
SharingKept ==
  dec = "done" /\ mode # "foreign" =>
    Len(nodes) = IF mode = "combine" THEN Cardinality(Shared(roots[1])) + Cardinality(Shared(roots[2])) + 1
                 ELSE Cardinality(Shared(roots[1]))

(* A text the decoder accepts has the records the iterator gives, and each *)
(* application refers to nodes that exist.                                 *)
ReadersAgree ==
  dec = "done" =>
    /\ iterateAccepts(sent)
    /\ RecordCount(sent) = Len(nodes)
    /\ \A i \in DOMAIN nodes : /\ nodes[i] = NodeOf(IteratedRecords(sent)[i])
                               /\ \A c \in DOMAIN nodes[i].children :
                                    nodes[i].children[c] \in 1 .. i - 1
=============================================================================
