------------------------------ MODULE LamaReader ------------------------------
(***************************************************************************)
(* The two programs that list a bytecode file: disasm (disasm.cpp) and     *)
(* bcdump (dump.cpp), which reads instructions with the InstReader of the  *)
(* compiler (read.cpp) and prints them (print.cpp).  The regression tests  *)
(* run one after the other and compare their listings, as the check that   *)
(* the compiler reads what the file says.                                  *)
(*                                                                         *)
(* Code is a sequence of bytes; an integer takes four of them, the first   *)
(* holds its value.  A string is its position in the string table.  A line *)
(* of a listing is the offset of an instruction and its words.             *)
(***************************************************************************)
EXTENDS Integers, SequencesExt

CONSTANTS
  Instructions,   \* bound: the instructions of the files, as bytes
  MaxBody,        \* bound: how many of them follow the first function's Begin
  PublicLists,    \* bound: lists of public functions, names and offsets
  GlobalSizes, StringSize,
  Cuts,           \* bound: how many bytes may be missing at the end
  IntBits         \* bits of an int

INT_SIZE  == 4
HeadSize  == 40   \* offsetof(bytefile, stringtab_size)
StructSize == 56  \* sizeof(bytefile)

VARIABLES
  file,             \* code, publics, stringtab_size, global_area_size
  phase,            \* "load", "disasm", "bcdump", "done"
  disasm, bcdump,   \* the two programs: ip, out, status
  function_index, strings   \* of bcdump's InstReader

rdvars == <<file, phase, disasm, bcdump, function_index, strings>>

code == file.code
Listing == [ip |-> 0, out |-> << >>, status |-> "running"]

-----------------------------------------------------------------------------
(* bytefile.cpp.                                                           *)

file_size(f) == HeadSize + 3 * INT_SIZE + 2 * INT_SIZE * Len(f.publics) + f.stringtab_size + Len(f.code)

\* The globals are counted although the file does not hold them.
total_sections_size(f) ==
  f.stringtab_size + 2 * INT_SIZE * Len(f.publics) + INT_SIZE * f.global_area_size

sections_fit(f) == total_sections_size(f) + StructSize <= file_size(f)

string_exists(pos)  == pos \in 0..(file.stringtab_size - 1)
publics_readable(f) ==
  \A i \in DOMAIN f.publics :
    f.publics[i].name \in 0..(f.stringtab_size - 1) /\ f.publics[i].offset <= file_size(f)

read_file ==
  /\ phase = "load"
  /\ phase' = IF sections_fit(file) /\ publics_readable(file) THEN "disasm" ELSE "done"
  /\ UNCHANGED <<file, disasm, bcdump, function_index, strings>>

-----------------------------------------------------------------------------
(* Operands.  acc: where the program is, what it has taken so far, whether *)
(* it goes on.                                                             *)

Taken(acc, n, vs) == [acc EXCEPT !.ip = @ + n, !.args = @ \o vs]
Stops(acc, why)   == [acc EXCEPT !.status = why]
Goes(acc)         == acc.status = "running"
At(acc)           == code[acc.ip + 1]

\* read_byte and read_int end the program at the end of the file.
read_cell(acc, size) ==
  IF acc.ip + size <= Len(code) THEN Taken(acc, size, <<At(acc)>>) ELSE Stops(acc, "fatal")

checked(acc) == IF string_exists(Last(acc.args)) THEN acc ELSE Stops(acc, "fatal")

read_int(acc) == read_cell(acc, INT_SIZE)
read_string(acc) ==
  LET a == read_int(acc) IN IF Goes(a) THEN checked(a) ELSE a

\* String passes the integer on to read_string, where -1 means that there is none yet.
read_string_at(acc) ==
  LET a == read_int(acc)
  IN  IF ~Goes(a) THEN a
      ELSE IF Last(a.args) = -1 THEN read_string([a EXCEPT !.args = Front(@)])
      ELSE checked(a)

read_loc(acc) ==
  LET a == read_cell(acc, 1) IN IF Goes(a) THEN read_int(a) ELSE a

read_locs(acc) ==
  LET a == read_int(acc)
  IN  IF ~Goes(a) THEN a
      ELSE FoldLeft(LAMBDA b, i : IF Goes(b) THEN read_loc(b) ELSE b,
                    [a EXCEPT !.args = Front(@)], [i \in 1..Last(a.args) |-> i])

read_operand(acc, k) ==
  IF ~Goes(acc) THEN acc
  ELSE CASE k = "int" -> read_int(acc)
         [] k = "string" -> read_string(acc)
         [] k = "string at" -> read_string_at(acc)
         [] k = "locations" -> read_locs(acc)

-----------------------------------------------------------------------------
(* read_inst: the class that stands for an opcode, and its operands.       *)

Int1 == <<"int">>
Int2 == <<"int", "int">>
Inst(name, operands) == [name |-> name, operands |-> operands]

Opcode ==
     16 :> Inst("Const", Int1)  @@ 17 :> Inst("String", <<"string at">>)
  @@ 18 :> Inst("SExpression", <<"string", "int">>)
  @@ 19 :> Inst("StoreStack", << >>) @@ 20 :> Inst("StoreArray", << >>)
  @@ 21 :> Inst("Jump", Int1)        @@ 22 :> Inst("End", << >>)
  @@ 23 :> Inst("Return", << >>)     @@ 24 :> Inst("Drop", << >>)
  @@ 25 :> Inst("Duplicate", << >>)  @@ 26 :> Inst("Swap", << >>)
  @@ 27 :> Inst("Elem", << >>)
  @@ 80 :> Inst("ConditionalJump z", Int1) @@ 81 :> Inst("ConditionalJump nz", Int1)
  @@ 82 :> Inst("Begin", Int2)             @@ 83 :> Inst("CBegin", Int2)
  @@ 84 :> Inst("Closure", <<"int", "locations">>)
  @@ 85 :> Inst("CallClosure", Int1) @@ 86 :> Inst("Call", Int2)
  @@ 87 :> Inst("Tag", <<"string", "int">>)
  @@ 88 :> Inst("Array", Int1)       @@ 89 :> Inst("Fail", Int2)
  @@ 90 :> Inst("Line", Int1)

LCall ==
  <<Inst("BuiltinRead", << >>), Inst("BuiltinWrite", << >>), Inst("BuiltinLength", << >>),
    Inst("BuiltinString", << >>), Inst("BuiltinArray", Int1)>>

\* The opcodes that hold an operand in their lower half.
HOpcode ==
     0 :> Inst("Binop", << >>) @@ 2 :> Inst("Load", Int1) @@ 3 :> Inst("LoadArray", Int1)
  @@ 4 :> Inst("Store", Int1)  @@ 6 :> Inst("PatternInst", << >>)

High(x) == x \div 16
Low(x)  == x % 16
StopCode == 15

known(x) ==
  x \in DOMAIN Opcode \/ High(x) \in DOMAIN HOpcode \/ (High(x) = 7 /\ Low(x) < Len(LCall))

inst_of(x) ==
  IF x \in DOMAIN Opcode THEN Opcode[x]
  ELSE IF High(x) = 7 THEN LCall[Low(x) + 1] ELSE HOpcode[High(x)]

-----------------------------------------------------------------------------
(* print.cpp.                                                              *)

Unprintable == {"StoreStack", "Return", "Swap", "LoadArray"}

\* BOX in the constructor of Const, >> 1 in its print.
Boxed(n)   == ((2 * n + 1 + 2^(IntBits-1)) % 2^IntBits) - 2^(IntBits-1)
shown_const(n) == Boxed(n) \div 2

Printed ==
  [Const |-> "CONST", String |-> "STRING", SExpression |-> "SEXP", StoreArray |-> "STA",
   Jump |-> "JMP", End |-> "END", Drop |-> "DROP", Duplicate |-> "DUP", Elem |-> "ELEM",
   Closure |-> "CLOSURE", CBegin |-> "CBEGIN", Begin |-> "BEGIN", CallClosure |-> "CALLC",
   Tag |-> "TAG", Array |-> "ARRAY", Fail |-> "FAIL", Line |-> "LINE", Load |-> "LD",
   Store |-> "ST", Call |-> "CALL",
   BuiltinRead |-> "CALL Lread", BuiltinWrite |-> "CALL Lwrite", BuiltinLength |-> "CALL Llength",
   BuiltinString |-> "CALL Lstring", BuiltinArray |-> "CALL Barray"]
  @@ "ConditionalJump z" :> "CJMPz" @@ "ConditionalJump nz" :> "CJMPnz"

\* BinopKind and PATTERNS.  A line of an operator or a pattern is known by its name,
\* which is empty for a number outside the enumeration.
binop_names ==
  <<"+", "-", "*", "/", "%", "<", "<=", ">", ">=", "==", "!=", "&&", "||">>
pattern_names ==
  <<"=str", "#string", "#array", "#sexp", "#ref", "#val", "#fun">>

NameAt(names, i) == IF i \in DOMAIN names THEN names[i] ELSE ""

printed_word(name, args) ==
  CASE name = "Binop" -> NameAt(binop_names, args[1])
    [] name = "PatternInst" -> NameAt(pattern_names, args[1] + 1)
    [] OTHER -> Printed[name]

Line(offset, word, args, names) == [offset |-> offset, word |-> word, args |-> args, names |-> names]

-----------------------------------------------------------------------------
(* bcdump.                                                                 *)

\* Mistaken variant: a build without assertions.
Unasserted(index, offset) == TRUE

\* DCHECK_EQ: the functions with the lowest offsets are the public ones, in this order.
public_matches(index, offset) == file.publics[index + 1].offset = offset

read_inst ==
  LET start == [ip |-> bcdump.ip, args |-> << >>, status |-> "running"]
      op    == read_cell(start, 1)
      x     == op.args[1]
  IN  IF ~Goes(op) THEN [op EXCEPT !.args = << >>]
      ELSE IF High(x) = StopCode THEN Stops(op, "end")
      ELSE IF ~known(x) THEN Stops(op, "fatal")
      ELSE FoldLeft(read_operand,
                    [op EXCEPT !.args = IF High(x) \in DOMAIN HOpcode THEN <<Low(x)>> ELSE << >>],
                    inst_of(x).operands)

bcdump_line ==
  /\ phase = "bcdump"
  /\ bcdump.status = "running"
  /\ LET i        == read_inst
         offset   == bcdump.ip
         name     == inst_of(code[offset + 1]).name
         isBegin  == Goes(i) /\ name = "Begin"
         isPublic == isBegin /\ function_index < Len(file.publics)
         mismatch == isPublic /\ ~public_matches(function_index, offset)
         names    == IF isPublic THEN <<file.publics[function_index + 1].name>> ELSE << >>
         table    == IF Goes(i) /\ name = "String" THEN Append(strings, i.args[1]) ELSE strings
         args     == CASE name = "Const" -> <<shown_const(i.args[1])>>
                       [] name = "String" -> <<table[Len(table)]>>
                       [] name \in {"Binop", "PatternInst"} -> << >>
                       [] OTHER -> i.args
         status   == IF mismatch \/ (Goes(i) /\ name \in Unprintable) THEN "fatal" ELSE i.status
     IN  /\ bcdump' = [ip |-> i.ip, status |-> status,
                       out |-> IF status = "running"
                               THEN Append(bcdump.out, Line(offset, printed_word(name, i.args), args, names))
                               ELSE bcdump.out]
         /\ function_index' = IF isBegin THEN function_index + 1 ELSE function_index
         /\ strings' = table
         /\ phase' = IF status = "running" THEN phase ELSE "done"
  /\ UNCHANGED <<file, disasm>>

-----------------------------------------------------------------------------
(* disassemble: the same file, without assertions and without classes.     *)

\* INT, BYTE and STRING: what lies behind the file is undefined.
INT(acc) ==
  IF acc.ip + INT_SIZE <= Len(code) THEN Taken(acc, INT_SIZE, <<At(acc)>>) ELSE Stops(acc, "undefined")
STRING_at(acc) ==
  LET a == INT(acc) IN IF Goes(a) THEN checked(a) ELSE a

\* A kind of location that does not exist is reported, and its index not skipped.
LOCATION(acc) ==
  IF acc.ip >= Len(code) THEN Stops(acc, "undefined")
  ELSE LET kind == At(acc)
       IN  IF kind \in 0..3 THEN INT(Taken(acc, 1, <<kind>>)) ELSE Taken(acc, 1, << >>)

LOCATIONS(acc) ==
  LET a == INT(acc)
  IN  IF ~Goes(a) THEN a
      ELSE FoldLeft(LAMBDA b, i : IF Goes(b) THEN LOCATION(b) ELSE b,
                    [a EXCEPT !.args = Front(@)], [i \in 1..Last(a.args) |-> i])

OPERAND(acc, k) ==
  IF ~Goes(acc) THEN acc
  ELSE CASE k = "i" -> INT(acc) [] k = "s" -> STRING_at(acc) [] k = "l" -> LOCATIONS(acc)

Text(word, operands) == [word |-> word, operands |-> operands]
Invalid == Text("", << >>)

lds  == <<"LD", "LDA", "ST">>
row1 == <<Text("CONST", <<"i">>), Text("STRING", <<"s">>), Text("SEXP", <<"s", "i">>), Text("STI", << >>),
          Text("STA", << >>), Text("JMP", <<"i">>), Text("END", << >>), Text("RET", << >>),
          Text("DROP", << >>), Text("DUP", << >>), Text("SWAP", << >>), Text("ELEM", << >>)>>
row5 == <<Text("CJMPz", <<"i">>), Text("CJMPnz", <<"i">>), Text("BEGIN", <<"i", "i">>),
          Text("CBEGIN", <<"i", "i">>), Text("CLOSURE", <<"i", "l">>), Text("CALLC", <<"i">>),
          Text("CALL", <<"i", "i">>), Text("TAG", <<"s", "i">>), Text("ARRAY", <<"i">>),
          Text("FAIL", <<"i", "i">>), Text("LINE", <<"i">>)>>
row7 == <<Text("CALL Lread", << >>), Text("CALL Lwrite", << >>), Text("CALL Llength", << >>),
          Text("CALL Lstring", << >>), Text("CALL Barray", <<"i">>)>>
ops  == <<"+", "-", "*", "/", "%", "<", "<=", ">", ">=", "==", "!=", "&&", "!!">>
pats == <<"=str", "#string", "#array", "#sexp", "#ref", "#val", "#fun">>

\* The two switches.
text_of(h, l) ==
  CASE h = 0 -> Text(ops[l], << >>)
    [] h = 1 /\ l < Len(row1) -> row1[l + 1]
    [] h \in 2..4 -> Text(lds[h - 1], IF l \in 0..3 THEN <<"i">> ELSE << >>)
    [] h = 5 /\ l < Len(row5) -> row5[l + 1]
    [] h = 6 -> Text(pats[l + 1], << >>)
    [] h = 7 /\ l < Len(row7) -> row7[l + 1]
    [] OTHER -> Invalid

\* ops[l - 1] and pats[l].
outside_tables(h, l) == (h = 0 /\ l \notin 1..Len(ops)) \/ (h = 6 /\ l >= Len(pats))

disassemble_line ==
  /\ phase = "disasm"
  /\ disasm.status = "running"
  /\ LET offset == disasm.ip
         inside == offset < Len(code)
         x      == IF inside THEN code[offset + 1] ELSE 0
         h      == High(x)
         l      == Low(x)
         start  == [ip |-> offset + 1, status |-> "running",
                    args |-> IF h \in 2..4 THEN <<l>> ELSE << >>]
         i      == IF ~inside \/ outside_tables(h, l) THEN Stops([start EXCEPT !.args = << >>], "undefined")
                   ELSE IF h = StopCode THEN Stops(start, "end")
                   ELSE FoldLeft(OPERAND, start, text_of(h, l).operands)
         names  == IF h = 5 /\ l = 2
                   THEN LET here == SelectSeq(file.publics, LAMBDA p : p.offset = offset)
                        IN  [k \in DOMAIN here |-> here[k].name]
                   ELSE << >>
     IN  /\ disasm' = [ip |-> i.ip, status |-> i.status,
                       out |-> IF Goes(i) THEN Append(disasm.out, Line(offset, text_of(h, l).word, i.args, names))
                               ELSE disasm.out]
         /\ phase' = IF Goes(i) THEN phase ELSE "bcdump"
  /\ UNCHANGED <<file, bcdump, function_index, strings>>

-----------------------------------------------------------------------------
BeginCode == 16 * 5 + 2
EndCode   == 16 * StopCode

StartOf(is, k) == Len(FlattenSeq(SubSeq(is, 1, k - 1)))
function_starts(is) == {StartOf(is, k) : k \in {m \in DOMAIN is : is[m][1] = BeginCode}}

\* What lamac writes: instructions, the end, and the offsets of some functions;
\* and the same file when its end is missing.
ReaderInit ==
  /\ \E first \in {i \in Instructions : i[1] = BeginCode}, body \in [1..MaxBody -> Instructions],
        ps \in PublicLists, cut \in Cuts, g \in GlobalSizes :
       LET is == <<first>> \o body
           bs == FlattenSeq(is) \o <<EndCode>>
       IN  /\ \A k \in DOMAIN ps : ps[k].offset \in function_starts(is)
           /\ file = [code |-> SubSeq(bs, 1, Len(bs) - cut), publics |-> ps,
                      stringtab_size |-> StringSize, global_area_size |-> g]
  /\ phase = "load"
  /\ disasm = Listing /\ bcdump = Listing
  /\ function_index = 0
  /\ strings = << >>

ReaderNext == read_file \/ disassemble_line \/ bcdump_line

ReaderSpec == ReaderInit /\ [][ReaderNext]_rdvars

-----------------------------------------------------------------------------
\* Two lines say the same, but for constants that BOX does not fit into an int and
\* for the operator 13, whose names differ.
SameLine(b, d) ==
  \/ b = d
  \/ b.word = "||" /\ d.word = "!!" /\ b.offset = d.offset
  \/ /\ b.word = "CONST" /\ d.word = "CONST" /\ b.offset = d.offset
     /\ d.args[1] \notin -(2^(IntBits-2))..(2^(IntBits-2) - 1)

\* bcdump ends where disasm does, or at an instruction that it knows not how to
\* print, an opcode that disasm reports, or a function that is not the public one
\* which its place in the code stands for.
EndExplained ==
  LET k == Len(bcdump.out) + 1
  IN  \/ disasm.status \in {"fatal", "undefined"} /\ Len(disasm.out) = Len(bcdump.out)
      \/ /\ k \in DOMAIN disasm.out
         /\ \/ disasm.out[k].word \in {"STI", "RET", "SWAP", "LDA", ""}
            \/ /\ disasm.out[k].word = "BEGIN"
               /\ function_index <= Len(file.publics)
               /\ disasm.out[k].names # <<file.publics[function_index].name>>

\* regression/Makefile:20: the listings are the same, line by line, with the same
\* offsets, operands, patterns, operators but one, and names of functions, although
\* the reader of the compiler finds the names of functions by counting and keeps the
\* strings in a table of its own; if bcdump stops before the end there is a reason in
\* the file.
ReadersAgree ==
  /\ \A k \in DOMAIN bcdump.out : k \in DOMAIN disasm.out /\ SameLine(bcdump.out[k], disasm.out[k])
  /\ bcdump.status = "end" => disasm.status = "end" /\ Len(disasm.out) = Len(bcdump.out)
  /\ bcdump.status = "fatal" => EndExplained
  /\ phase = "bcdump" /\ disasm.status = "end" => disasm.ip <= Len(code)
  /\ LET shown == SelectSeq(bcdump.out, LAMBDA line : line.word = "STRING")
     IN  \A k \in DOMAIN shown : shown[k].args = <<strings[k]>>
=============================================================================
