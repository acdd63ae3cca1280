------------------------------ MODULE LamaCode ------------------------------
(***************************************************************************)
(* The RISC-V code that the compiler emits for an instruction, and what it *)
(* does to registers and memory: the symbolic stack (symb_stack.h), whose  *)
(* cells are registers first and words under the frame afterwards, the     *)
(* prologue and the epilogue of a function, and the sequence around a call *)
(* (compile_call).                                                         *)
(*                                                                         *)
(* The program is any sequence of bytecode instructions.  With the machine *)
(* runs the stack machine that the code is to imitate: frames and globals  *)
(* hold its operands, arguments, locals and globals.  The height of the    *)
(* symbolic stack is the number of operands (see LamaEmit).                *)
(*                                                                         *)
(* Addresses count words.  Registers that hold no cell and words below the *)
(* stack pointer are taken to hold nothing that anybody may rely on.       *)
(***************************************************************************)
EXTENDS Integers, Sequences, FiniteSets

CONSTANTS
  SReg, TReg,   \* SymbolicStack::regs: callee-saved ones, then caller-saved ones
  AReg,         \* a0 and its followers, the registers of arguments
  Val,          \* bound: words of the program, boxed integers
  MainLocals,   \* locals of main
  Shapes,       \* bound: arguments and locals of the functions that are called
  Runtimes,     \* bound: operands of a runtime function, and whether BOX(n) comes first
  Globals,      \* how many globals there are
  GlobalBase,   \* the label globals
  StackTop,     \* bound: sp when main is entered, a multiple of 16 bytes; the stack ends at 0
  StoredArgs,   \* arguments that the program assigns to
  MaxOperands,  \* bound: the operands of one activation
  MaxResult,    \* bound: the result of a call becomes at most this operand
  MaxFrames     \* bound: how deep calls nest

StackRegs == SReg \o TReg
Saved     == <<"fp">> \o SReg                          \* saved_apply
Temps     == <<"gp">> \o TReg \o <<"temp1", "temp2">>  \* temp_apply
AtCall    == <<"ra">> \o Temps \o AReg

Elements(s) == {s[i] : i \in 1..Len(s)}
Place(r, s) == CHOOSE i \in 1..Len(s) : s[i] = r
Register    == {"sp"} \cup Elements(Saved) \cup Elements(AtCall)

IsSequence(s)  == s \in Seq(Elements(s))
Disjoint(s, t) == Elements(s) \cap Elements(t) = {}

ASSUME CodeAssumption ==
  /\ \A s \in {SReg, TReg, AReg} :
       /\ IsSequence(s)
       /\ \A i, j \in 1..Len(s) : s[i] = s[j] => i = j
       /\ Disjoint(s, <<"sp", "fp", "ra", "gp", "temp1", "temp2">>)
  /\ Disjoint(SReg, TReg) /\ Disjoint(SReg, AReg) /\ Disjoint(TReg, AReg)
  /\ Len(SReg) >= 1 /\ Len(AReg) >= 1
  /\ Len(Saved) % 2 = 0 /\ Len(AtCall) % 2 = 0   \* 12 and 16 in the code
  /\ StackTop \in Nat /\ StackTop % 2 = 0
  /\ GlobalBase \in Nat /\ GlobalBase > StackTop /\ Globals \in Nat
  /\ MainLocals \in Nat
  /\ \A s \in Shapes : s.argc \in Nat /\ s.locc \in Nat
  /\ \A f \in Runtimes : f.operands \in Nat /\ f.add \in {0, 1}
  /\ MaxOperands \in Nat /\ MaxResult \in 1..MaxOperands /\ MaxFrames \in Nat \ {0}

VARIABLES
  reg,      \* the registers
  mem,      \* the words of the stack and of the global area
  pc,       \* body, or where in a prologue or a call the machine is
  frames,   \* activations of the stack machine, the running one last
  globals   \* its globals

vars == <<reg, mem, pc, frames, globals>>

Junk       == -1             \* a word that means nothing
Foreign(i) == 200 + 2 * i    \* what the caller of main keeps in a register
Return(n)  == 300 + 2 * n    \* where the n-th activation has to return to

StackArea  == 0..StackTop
GlobalArea == GlobalBase..GlobalBase + Globals - 1
F   == frames[Len(frames)]
top == Len(F.stack)

-----------------------------------------------------------------------------
(* The symbolic stack.  Cell k of it is a register, or the word that many  *)
(* below sp as it lies behind the registers.                               *)

in_register(k)   == k < Len(StackRegs)
slot(k)          == k - Len(StackRegs)
spilled_count(n) == IF n > Len(StackRegs) THEN slot(n) ELSE 0

WordAt(m, a) == IF a \in DOMAIN m THEN m[a] ELSE Junk
Stored(m, a, w) == IF a \in DOMAIN m THEN [m EXCEPT ![a] = w] ELSE m

\* to_reg: the register of the cell, or a scratch register loaded from it.
CellFrom(sp, m, k) ==
  IF in_register(k) THEN reg[StackRegs[k + 1]] ELSE WordAt(m, sp - slot(k))
Cell(k) == CellFrom(reg["sp"], mem, k)

\* An instruction whose destination is a cell.  For a cell in memory the word
\* stays in the scratch register (li, la, ld, mv, addi, ... of code_buffer.h).
Written(r, k, w) == IF in_register(k) THEN [r EXCEPT ![StackRegs[k + 1]] = w] ELSE r

\* The cells from n on hold no operand, and nothing below the last cell counts.
LiveRegs(r, n) ==
  [x \in Register |-> IF \E k \in n + 1..Len(StackRegs) : StackRegs[k] = x THEN Junk ELSE r[x]]
LiveMem(m, sp, n) ==
  [a \in DOMAIN m |->
     IF a \in StackArea /\ a < sp /\ a <= sp - spilled_count(n) THEN Junk ELSE m[a]]

Running     == pc = "body"
Room        == top < MaxOperands
Operand(k)  == F.stack[k + 1]
Popped(n)   == SubSeq(F.stack, 1, top - n)
With(stack) == [frames EXCEPT ![Len(frames)].stack = stack]

-----------------------------------------------------------------------------
\* main has been called like any C function, and premain has run: it records fp
\* as the bottom of the stack and loads gp.  The loader has cleared the globals.
CodeInit ==
  /\ reg = [r \in Register |->
              CASE r = "sp" -> StackTop
                [] r = "ra" -> Return(1)
                [] r = "gp" -> GlobalBase
                [] r \in Elements(Saved) -> Foreign(Place(r, Saved))
                [] OTHER -> Junk]
  /\ mem = [a \in StackArea \cup GlobalArea |->
              IF a \in StackArea THEN Junk ELSE 0]
  /\ pc = "main"
  /\ frames = <<[argc |-> 0, locc |-> MainLocals, begun |-> FALSE, stack |-> << >>, args |-> << >>,
                 locals |-> << >>, call |-> << >>, result |-> Junk]>>
  /\ globals = [i \in 0..Globals - 1 |-> 0]

\* A cell in memory is written relative to fp.
Const ==
  /\ Running /\ Room
  /\ \E v \in Val :
       /\ reg' = Written(reg, top, v)
       /\ mem' = IF in_register(top) THEN mem ELSE Stored(mem, reg["fp"] - slot(top), v)
       /\ frames' = With(Append(F.stack, v))
  /\ UNCHANGED <<pc, globals>>

\* Mistaken variant: the first argument is looked for behind the array length.
NextArgumentWord(i) == IF i + 2 <= Len(AReg) THEN reg[AReg[i + 2]] ELSE Junk

\* An argument beyond the registers is looked for i - 8 bytes above fp.
argument_word(i) ==
  CASE i < Len(AReg) -> reg[AReg[i + 1]]
    [] i = Len(AReg) -> WordAt(mem, reg["fp"])
    [] OTHER         -> Junk

LoadArg ==
  /\ Running /\ Room
  /\ \E i \in 0..F.argc - 1 :
       /\ reg' = Written(reg, top, argument_word(i))
       /\ frames' = With(Append(F.stack, F.args[i + 1]))
  /\ UNCHANGED <<mem, pc, globals>>

\* Mistaken variant: locals are counted from one.
LocalBelowNext(i) == reg["fp"] - i - 1

local_address(i) == reg["fp"] - i

LoadLocal ==
  /\ Running /\ Room
  /\ \E i \in DOMAIN F.locals :
       /\ reg' = Written(reg, top, WordAt(mem, local_address(i)))
       /\ frames' = With(Append(F.stack, F.locals[i]))
  /\ UNCHANGED <<mem, pc, globals>>

LoadGlobal ==
  /\ Running /\ Room
  /\ \E i \in DOMAIN globals :
       /\ reg' = Written(reg, top, WordAt(mem, reg["gp"] + i))
       /\ frames' = With(Append(F.stack, globals[i]))
  /\ UNCHANGED <<mem, pc, globals>>

\* Storing to an argument in a register copies the register to the cell; an
\* argument on the stack is written relative to fp.
StoreArg ==
  /\ Running /\ top >= 1
  /\ \E i \in StoredArgs \cap 0..F.argc - 1 :
       /\ reg' = IF i < Len(AReg) THEN Written(reg, top - 1, reg[AReg[i + 1]]) ELSE reg
       /\ mem' = IF i < Len(AReg) THEN mem
                 ELSE Stored(mem, reg["fp"] + (i - Len(AReg)), Cell(top - 1))
       /\ frames' = [frames EXCEPT ![Len(frames)].args[i + 1] = Operand(top - 1)]
  /\ UNCHANGED <<pc, globals>>

\* Store keeps its operand.  A local is read only after it has been stored to.
StoreLocal ==
  /\ Running /\ top >= 1
  /\ \E i \in 0..F.locc - 1 :
       /\ mem' = Stored(mem, reg["fp"] - i, Cell(top - 1))
       /\ frames' = [frames EXCEPT ![Len(frames)].locals =
                       [j \in DOMAIN F.locals \cup {i} |->
                          IF j = i THEN Operand(top - 1) ELSE F.locals[j]]]
  /\ UNCHANGED <<reg, pc, globals>>

StoreGlobal ==
  /\ Running /\ top >= 1
  /\ \E i \in DOMAIN globals :
       /\ mem' = Stored(mem, reg["gp"] + i, Cell(top - 1))
       /\ globals' = [globals EXCEPT ![i] = Operand(top - 1)]
  /\ UNCHANGED <<reg, pc, frames>>

Drop ==
  /\ Running /\ top >= 1
  /\ reg' = LiveRegs(reg, top - 1)
  /\ mem' = LiveMem(mem, reg["sp"], top - 1)
  /\ frames' = With(Popped(1))
  /\ UNCHANGED <<pc, globals>>

\* g++ evaluates peek() before alloc(), the last argument first.
Duplicate ==
  /\ Running /\ Room /\ top >= 1
  /\ reg' = Written(reg, top, Cell(top - 1))
  /\ frames' = With(Append(F.stack, Operand(top - 1)))
  /\ UNCHANGED <<mem, pc, globals>>

\* Three moves through temp1, which a load from memory overwrites.
Swap ==
  /\ Running /\ top >= 2
  /\ LET a == top - 1
         b == top - 2
         temp1 == IF in_register(b) THEN Cell(a) ELSE Cell(b)
     IN  /\ reg' = Written(Written(reg, a, Cell(b)), b, temp1)
         /\ frames' = With(Popped(2) \o <<Operand(a), Operand(b)>>)
  /\ UNCHANGED <<mem, pc, globals>>

\* The result of an R-type instruction is stored back to a cell in memory.
StoredBack(k, w) ==
  IF in_register(k) THEN mem ELSE Stored(mem, reg["sp"] - slot(k), w)

\* The result of an I-type instruction is not: a cell in memory stays tagged.
Untagged(k) == IF in_register(k) THEN Cell(k) \div 2 ELSE Cell(k)

\* The comparison "less than"; the other binary operators differ in one insn.
Binop ==
  /\ Running /\ top >= 2
  /\ LET first  == top - 2
         second == top - 1
         slt    == IF Untagged(first) < Untagged(second) THEN 1 ELSE 0
         meant  == IF Operand(first) \div 2 < Operand(second) \div 2 THEN 3 ELSE 1
     IN  /\ reg' = LiveRegs(Written(reg, first, 2 * slt + 1), top - 1)
         /\ mem' = LiveMem(StoredBack(first, slt), reg["sp"], top - 1)
         /\ frames' = With(Append(Popped(2), meant))
  /\ UNCHANGED <<pc, globals>>

-----------------------------------------------------------------------------
(* compile_call up to the call instruction.  argc counts BOX(n), add tells *)
(* whether there is one.                                                   *)

on_stack(argc)   == IF argc > Len(AReg) THEN argc - Len(AReg) ELSE 0
in_regs(argc)    == argc - on_stack(argc)

\* Mistaken variant: the padding forgets the locals of the frame.
AlignWithoutLocals(argc) == (spilled_count(top) + on_stack(argc)) % 2

alignment(argc) == (F.locc + spilled_count(top) + on_stack(argc)) % 2

\* The stack pointer below the spilled cells, below the saved registers and
\* with its padding.
skipped     == reg["sp"] - spilled_count(top)
pushed      == skipped - Len(AtCall)

\* Mistaken variant: the padding gives back a word of the saved registers.
PaddedUpwards(argc) == pushed + alignment(argc)

padded(argc) == pushed - alignment(argc)

\* Mistaken variant: the top is looked at and not popped.
PeekedCell(argc, i) == top - 1

\* The cell that argument register i is loaded from.
argument_cell(argc, i) == top - 1 - (in_regs(argc) - i)

\* The registers when n operands have been popped; before the prologue they are
\* the caller's.
left(n) == IF F.begun THEN LiveRegs(reg, top - n) ELSE reg

with_saved ==
  [a \in DOMAIN mem |-> IF a \in pushed..skipped - 1 THEN reg[AtCall[skipped - a]] ELSE mem[a]]

\* The cells behind those in registers are pushed one by one.
extra_arguments(argc, add) ==
  LET Extra[j \in 1..on_stack(argc)] ==
        LET k == top - (in_regs(argc) - add) - j
        IN  IF j > 1 /\ ~in_register(k) /\ slot(k) = 0 THEN Extra[j - 1]
            ELSE CellFrom(padded(argc) - (j - 1), with_saved, k)
  IN  Extra

\* The stack is taken to be large enough.
Prepare(argc, add, target) ==
  /\ padded(argc) - on_stack(argc) >= 0
  /\ mem' = [a \in DOMAIN mem |->
               IF a \in padded(argc) - on_stack(argc)..padded(argc) - 1
               THEN extra_arguments(argc, add)[padded(argc) - a] ELSE with_saved[a]]
  /\ reg' = [r \in Register |->
               CASE r = "sp" -> padded(argc) - on_stack(argc)
                 [] r = "ra" -> Return(Len(frames) + 1)
                 [] r = AReg[1] /\ add = 1 -> 2 * (argc - add) + 1
                 [] \E i \in add + 1..in_regs(argc) : AReg[i] = r ->
                      CellFrom(pushed, with_saved, argument_cell(argc, Place(r, AReg)))
                 [] OTHER -> left(argc - add)[r]]
  /\ pc' = target

\* Mistaken variant: only the extra arguments are dropped after the call.
DroppedWithoutPadding(argc) == on_stack(argc)

dropped(argc) == on_stack(argc) + alignment(argc)

\* What the code behind the call knows, and what the caller expects back.
Calling(argc, add) ==
  [frames EXCEPT ![Len(frames)].stack = Popped(argc - add),
                 ![Len(frames)].call =
                   [dropped |-> dropped(argc),
                    kept |-> [r \in Elements(Saved) |-> left(argc - add)[r]],
                    sp |-> padded(argc) - on_stack(argc)]]

\* Begin of main, which calls __init before it saves registers.
CallInit ==
  /\ pc = "main"
  /\ Prepare(0, 0, "runtime")
  /\ frames' = Calling(0, 0)
  /\ UNCHANGED globals

CallRuntime ==
  /\ Running
  /\ \E f \in Runtimes :
       /\ f.operands <= top /\ top - f.operands < MaxResult
       /\ Prepare(f.operands + f.add, f.add, "runtime")
       /\ frames' = Calling(f.operands + f.add, f.add)
  /\ UNCHANGED globals

\* A C function keeps the callee-saved registers and nothing else.
RuntimeReturns ==
  /\ pc = "runtime"
  /\ \E v \in Val :
       /\ reg' = [r \in Register |->
                    CASE r = AReg[1] -> v
                      [] r \in Elements(AtCall) \ {AReg[1]} -> Junk
                      [] OTHER -> reg[r]]
       /\ frames' = [frames EXCEPT ![Len(frames)].result = v]
  /\ mem' = LiveMem(mem, reg["sp"], 0)
  /\ pc' = "returned"
  /\ UNCHANGED globals

CallFunction ==
  /\ Running
  /\ Len(frames) < MaxFrames
  /\ \E s \in Shapes :
       /\ s.argc <= top /\ top - s.argc < MaxResult
       /\ Prepare(s.argc, 0, "entry")
       /\ frames' = Append(Calling(s.argc, 0),
                           [argc |-> s.argc, locc |-> s.locc, begun |-> FALSE, stack |-> << >>,
                            args |-> SubSeq(F.stack, top - s.argc + 1, top), locals |-> << >>,
                            call |-> << >>, result |-> Junk])
  /\ UNCHANGED globals

-----------------------------------------------------------------------------
(* Behind the call, and the ends of a function.                            *)

\* Mistaken variant: the result is moved when a0 has its argument back.
ResultAfterRestore == WordAt(mem, reg["sp"] + F.call.dropped + Len(AReg) - 1)

result_word == reg[AReg[1]]

\* Mistaken variant: t0 is taken for the gp of the ABI, which no call changes.
TempsOfABI == Elements(Temps) \ {"gp"}

\* Mistaken variant: arguments are restored in the order they were saved in.
ArgumentsInOrder(i) == i - 1

temp_offset(i) == i + 1
argument_offset(i) == Len(AReg) - i
restored_temps == Elements(Temps)

AfterCall ==
  /\ pc = "returned"
  /\ LET at_args  == reg["sp"] + F.call.dropped
         at_temps == at_args + Len(AReg) + Len(Temps) + 1
         moved    == Written(reg, top, result_word)
     IN  reg' = [r \in Register |->
                   CASE r = "sp" -> at_temps + spilled_count(top + 1)
                     [] r = "ra" -> WordAt(mem, at_temps - 1)
                     [] r \in restored_temps -> WordAt(mem, at_temps - temp_offset(Place(r, Temps)))
                     [] r \in Elements(AReg) -> WordAt(mem, at_args + argument_offset(Place(r, AReg)))
                     [] OTHER -> moved[r]]
  /\ mem' = LiveMem(mem, reg'["sp"], top + 1)
  /\ frames' = [frames EXCEPT ![Len(frames)] =
                  [F EXCEPT !.stack = Append(F.stack, F.result), !.call = << >>, !.result = Junk]]
  /\ pc' = IF F.begun THEN "body" ELSE "entry"
  /\ UNCHANGED globals

\* Mistaken variants: the saved registers lie where the locals do, or below a
\* frame that has room for the locals only.
SavedOverLocals(i)  == i
FrameWithoutSaved   == F.locc

saved_offset(i) == i + F.locc
frame_size      == F.locc + Len(Saved)

SaveRegisters ==
  /\ pc = "entry"
  /\ reg["sp"] >= frame_size
  /\ mem' = [a \in DOMAIN mem |->
               IF \E i \in 1..Len(Saved) : a = reg["sp"] - saved_offset(i)
               THEN LET i == CHOOSE i \in 1..Len(Saved) : a = reg["sp"] - saved_offset(i)
                    IN  reg[Saved[i]]
               ELSE mem[a]]
  /\ reg' = [LiveRegs(reg, top) EXCEPT !["fp"] = reg["sp"], !["sp"] = reg["sp"] - frame_size]
  /\ frames' = [frames EXCEPT ![Len(frames)].begun = TRUE]
  /\ pc' = "body"
  /\ UNCHANGED globals

\* In main the result is untagged (postmain).
End ==
  /\ Running /\ top >= 1
  /\ LET main   == Len(frames) = 1
         result == Cell(top - 1)
     IN  /\ reg' = [r \in Register |->
                      CASE r = "sp" -> reg["fp"]
                        [] r = AReg[1] -> IF main THEN result \div 2 ELSE result
                        [] r \in Elements(Saved) ->
                             WordAt(mem, reg["fp"] - saved_offset(Place(r, Saved)))
                        [] r \in Elements(TReg) -> Junk
                        [] OTHER -> reg[r]]
         /\ frames' = IF main THEN frames
                      ELSE [SubSeq(frames, 1, Len(frames) - 1) EXCEPT
                              ![Len(frames) - 1].result = Operand(top - 1)]
         /\ pc' = IF main THEN "exit" ELSE "returned"
  /\ mem' = LiveMem(mem, reg["fp"], 0)
  /\ UNCHANGED globals

CodeNext ==
  \/ CallInit \/ AfterCall \/ SaveRegisters \/ End
  \/ CallRuntime \/ RuntimeReturns \/ CallFunction
  \/ Const \/ LoadArg \/ LoadLocal \/ LoadGlobal
  \/ StoreArg \/ StoreLocal \/ StoreGlobal
  \/ Drop \/ Duplicate \/ Swap \/ Binop

CodeSpec == CodeInit /\ [][CodeNext]_vars

-----------------------------------------------------------------------------
(* What the emitted code has to keep.                                      *)

\* Whenever an instruction starts, cell k of the symbolic stack holds operand k of
\* the stack machine, whatever calls and moves came in between (alloc, pop).
OperandsInPlace == Running => \A k \in 0..top - 1 : Cell(k) = Operand(k)

\* An argument is still where Load looks for it after every call (compile_call).
ArgumentsInPlace == Running => \A i \in 0..F.argc - 1 : argument_word(i) = F.args[i + 1]

\* A local keeps its value: no saved register and no callee writes over it.
LocalsInPlace ==
  Running => \A i \in DOMAIN F.locals : WordAt(mem, local_address(i)) = F.locals[i]

\* t0, which holds the address of the globals, survives every call, and their
\* words hold the globals.
GlobalsInPlace ==
  Running => /\ reg["gp"] = GlobalBase
             /\ \A i \in DOMAIN globals : mem[GlobalBase + i] = globals[i]

\* Whenever an instruction starts, the stack pointer is at the end of the frame
\* and ra leads back to the caller: nothing is left of any call.
FrameInPlace ==
  Running => /\ reg["sp"] = reg["fp"] - (F.locc + Len(Saved))
             /\ reg["ra"] = Return(Len(frames))

\* A function returns with the callee-saved registers and the stack pointer of its
\* caller (Begin and End).
CalleeRestores ==
  pc = "returned" => /\ \A r \in Elements(Saved) : reg[r] = F.call.kept[r]
                     /\ reg["sp"] = F.call.sp

\* "Align sp to 16 bytes": every function is entered with an aligned stack.
CallsAligned == pc \in {"runtime", "entry"} => reg["sp"] % 2 = 0

\* main returns to where it was called from with the stack pointer and the saved
\* registers of its caller, but for s1, which the call of __init overwrites.
LeavesAsFound ==
  pc = "exit" => /\ reg["sp"] = StackTop /\ reg["ra"] = Return(1)
                 /\ \A r \in Elements(Saved) \ {SReg[1]} : reg[r] = Foreign(Place(r, Saved))

\* The words that the collector scans while a runtime function runs: it starts
\* one word above the stack pointer of the call (for_each_root, PRE_GC).
Scanned == {mem[a] : a \in reg["sp"] + 1..StackTop - 1}

\* While a runtime function runs, every operand that is left lies where the
\* collector finds it (gc.h: "it never interleaves with runtime function's
\* activation records").
RootsCovered == pc = "runtime" => Elements(F.stack) \subseteq Scanned

-----------------------------------------------------------------------------
(* The inductive invariants that the theorems of LamaCode_proofs rest on.  *)
(* The frames of the activations follow each other down the stack; between *)
(* two of them lie the registers that the call has saved, the padding and  *)
(* the extra arguments.                                                    *)

\* Every operand has a register (see MaxOperands).
OperandsInRegisters == MaxOperands <= Len(StackRegs)

\* fp and the end of the frame of activation j, and whether it has called.
Base(j)      == IF j = 1 THEN StackTop ELSE frames[j - 1].call.sp
FrameEnd(j)  == IF frames[j].begun THEN Base(j) - (frames[j].locc + Len(Saved)) ELSE Base(j)
Suspended(j) == j < Len(frames) \/ pc \in {"runtime", "returned"}

\* What activation j finds in a register, and the registers that it leaves so.
Found(j, r) == IF j = 1 THEN Foreign(Place(r, Saved)) ELSE frames[j - 1].call.kept[r]
Restored(j) == IF j = 1 THEN Elements(Saved) \ {SReg[1]} ELSE Elements(Saved)

IsActivation(f) ==
  /\ f = [argc |-> f.argc, locc |-> f.locc, begun |-> f.begun, stack |-> f.stack,
          args |-> f.args, locals |-> f.locals, call |-> f.call, result |-> f.result]
  /\ f.argc \in Nat /\ f.locc \in Nat /\ f.begun \in BOOLEAN
  /\ IsSequence(f.stack) /\ Len(f.stack) <= MaxOperands
  /\ DOMAIN f.locals \subseteq 0..f.locc - 1

MachineOK ==
  /\ DOMAIN reg = Register /\ DOMAIN mem = StackArea \cup GlobalArea
  /\ DOMAIN globals = 0..Globals - 1
  /\ IsSequence(frames) /\ Len(frames) \in 1..MaxFrames
  /\ \A j \in 1..Len(frames) : IsActivation(frames[j])
  /\ frames[1].locc = MainLocals
  /\ pc \in {"main", "entry", "body", "runtime", "returned", "exit"}
  /\ pc \in {"main", "exit"} => Len(frames) = 1
  /\ pc \in {"main", "entry"} => ~F.begun
  /\ pc \in {"body", "exit"} => F.begun
  /\ \A j \in 1..Len(frames) :
       Suspended(j) => frames[j].begun \/ (j = 1 /\ Len(frames) = 1)

\* Where the last call of activation j has put the stack pointer, and what the
\* code behind it is going to find.
CallInPlace(j) ==
  /\ frames[j].call.sp \in Nat /\ frames[j].call.dropped \in Nat
  /\ frames[j].call.sp + frames[j].call.dropped + Len(AtCall) = FrameEnd(j)
  /\ MainLocals % 2 = 0 => frames[j].call.sp % 2 = 0
  /\ Len(frames[j].stack) < MaxResult
  /\ frames[j].begun => frames[j].call.kept["fp"] = Base(j)
  /\ ~frames[j].begun => /\ Len(frames[j].stack) = 0
                         /\ \A r \in Elements(Saved) : frames[j].call.kept[r] = Found(j, r)

CallsInOrder == \A j \in 1..Len(frames) : Suspended(j) => CallInPlace(j)

FramesApart ==
  /\ \A i, j \in 1..Len(frames) : i < j => Base(j) + Len(AtCall) <= FrameEnd(i)
  /\ \A j \in 1..Len(frames) :
       /\ FrameEnd(j) >= 0
       /\ on_stack(frames[j].argc) <= IF j = 1 THEN 0 ELSE frames[j - 1].call.dropped

RegistersHold ==
  LET n == Len(frames)
  IN  /\ pc \in {"main", "entry"} => reg["sp"] = Base(n)
      /\ pc = "body" => reg["fp"] = Base(n) /\ reg["sp"] = FrameEnd(n)
      /\ pc \in {"main", "entry", "body"} => reg["ra"] = Return(n) /\ reg["gp"] = GlobalBase
      /\ pc = "main" => top = 0 /\ \A r \in Elements(Saved) : reg[r] = Found(n, r)
      /\ pc \in {"entry", "exit"} => \A r \in Restored(n) : reg[r] = Found(n, r)
      /\ pc = "exit" => reg["sp"] = StackTop /\ reg["ra"] = Return(1)
      /\ pc \in {"runtime", "returned"} =>
           /\ reg["sp"] = F.call.sp
           /\ \A r \in Elements(Saved) : reg[r] = F.call.kept[r]

\* The words that an activation needs to return, and those that it needs after a
\* call.
ReturnWords(j) ==
  frames[j].begun =>
    \A i \in 1..Len(Saved) : Saved[i] \in Restored(j) =>
      mem[Base(j) - (i + frames[j].locc)] = Found(j, Saved[i])

CallWords(j) == mem[FrameEnd(j) - 1] = Return(j) /\ mem[FrameEnd(j) - 2] = GlobalBase

WordsHold ==
  \A j \in 1..Len(frames) :
    /\ pc # "exit" => ReturnWords(j)
    /\ Suspended(j) => CallWords(j)

ConventionInvariant ==
  /\ MachineOK
  /\ CallsInOrder
  /\ FramesApart
  /\ RegistersHold
  /\ WordsHold

-----------------------------------------------------------------------------
\* Every operand has a register, no result gets one that is restored after the
\* call, no callee has a local in a word that its caller needs, and arguments are
\* not assigned (see README).
ValuesFit ==
  /\ OperandsInRegisters
  /\ MaxResult <= Len(SReg)
  /\ \A s \in Shapes : s.argc < Len(AReg)
  /\ StoredArgs = {}

\* What an activation keeps through its calls: operands in the registers that a
\* callee restores, arguments in the words that the call saves, locals in its frame.
KeptOperands(j) ==
  \A k \in 1..Len(frames[j].stack) : frames[j].call.kept[SReg[k]] = frames[j].stack[k]

ArgumentWords(j) ==
  \A i \in 1..frames[j].argc : mem[FrameEnd(j) - (1 + Len(Temps) + i)] = frames[j].args[i]

LocalWords(j) ==
  /\ ~frames[j].begun => DOMAIN frames[j].locals = {}
  /\ \A i \in DOMAIN frames[j].locals : mem[Base(j) - i] = frames[j].locals[i]

ActivationHolds(j) ==
  /\ frames[j].argc < Len(AReg)
  /\ pc # "exit" => LocalWords(j)
  /\ Suspended(j) => KeptOperands(j) /\ ArgumentWords(j)

ValuesInRegisters ==
  /\ pc \in {"main", "entry", "body"} =>
       /\ \A k \in 1..top : reg[StackRegs[k]] = F.stack[k]
       /\ \A i \in 1..F.argc : reg[AReg[i]] = F.args[i]
  /\ pc = "returned" => reg[AReg[1]] = F.result

GlobalsHeld == \A i \in DOMAIN globals : mem[GlobalBase + i] = globals[i]

ValuesInvariant ==
  /\ ConventionInvariant
  /\ \A j \in 1..Len(frames) : ActivationHolds(j)
  /\ ValuesInRegisters
  /\ GlobalsHeld
=============================================================================
