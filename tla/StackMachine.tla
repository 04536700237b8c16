----------------------------- MODULE StackMachine -----------------------------
(***************************************************************************)
(* The primitives of src/src/runtime/prim.c that work on a task's stacks,  *)
(* with the checks of src/src/include/af/inner.h that a DEBUG build makes. *)
(*                                                                         *)
(* A machine m has the stacks of one task and the interpreter pointer:     *)
(*                                                                         *)
(*   data    the data stack, top first: cells of Width bits, 64 in C       *)
(*   float   the depth of the float stack; floats themselves are left out, *)
(*           so a word that turns them into a cell gives any cell          *)
(*   ret     the return stack, top first: cells and return addresses       *)
(*   ip      the cell of threaded code the task is at                      *)
(*   state   "runs"; "stray" after an access outside a stack, "wild" when  *)
(*           the address its check computed had wrapped, and "trap" after  *)
(*           a division the processor refuses: C defines none of them      *)
(*                                                                         *)
(* The code the task runs is any code: at every cell any word may stand.   *)
(* What a word does is an effect, one record:                              *)
(*                                                                         *)
(*   dread, droom, fread, froom, rread, rroom                              *)
(*                   the arguments of its AF_VERIFY_*_STACK macros, 0 for  *)
(*                   none; dnext is ROLL's, made when its index is popped  *)
(*   ok              what it tests in every build                          *)
(*   dtake, ftake, rtake, dgive, fgive, rgive                              *)
(*                   how many entries of a stack it reads or takes away,   *)
(*                   and what it leaves in their place; dgive is the set   *)
(*                   of the possible ones                                  *)
(*   trap            whether the processor refuses                         *)
(*   jump            where it goes, {} for AF_ADVANCE_IP by one            *)
(***************************************************************************)
EXTENDS Integers, Sequences, SequencesExt, Arithmetic

CONSTANTS Width, DataSize, FloatSize, RetSize, CodeSize,
          Space,          \* cells that addresses can tell apart, 2^61 in C
          DataBase, FloatBase,  \* *_stack_base, counted in cells
          Given,          \* bound: the cells that literals and memory hold
          Debug,          \* whether AF_VERIFY_* check
          Vocabularies    \* sets of words; a task keeps to one of them

ASSUME MachineSizes ==
  /\ Width \in Nat \ {0, 1, 2} /\ {DataSize, FloatSize} \subseteq Nat
  /\ RetSize \in Nat \ {0}   \* a reset calls the abort word
  /\ CodeSize \in Nat \ {0, 1} /\ Debug \in BOOLEAN
  /\ Given # {} /\ Given \subseteq 0..(Power(2, Width) - 1)

ASSUME AddressSpace ==
  /\ Space \in Nat \ {0} /\ Space <= Power(2, Width) /\ Power(2, Width) % Space = 0
  /\ DataBase \in DataSize..(Space - 1) /\ FloatBase \in FloatSize..(Space - 1)

Cell == 0..(Power(2, Width) - 1)
Code == 0..(CodeSize - 1)

\* NULL + 1, which docol pushes for a word called at no cell of code
Nowhere == [to |-> -1]
Addresses == [to : 0..CodeSize]   \* the last one past the code
Kept == [cell : Cell]

-----------------------------------------------------------------------------
Signed(x) == IF x < Power(2, Width - 1) THEN x ELSE x - Power(2, Width)
Wrap(x) == x % Power(2, Width)

\* what a comparison leaves
Flag(p) == IF p THEN Power(2, Width) - 1 ELSE 0
Least == -(Power(2, Width - 1))

\* C divides towards zero
Magnitude(x) == IF x < 0 THEN -x ELSE x
Quotient(a, b) ==
  LET q == Magnitude(a) \div Magnitude(b)
  IN  IF (a < 0) = (b < 0) THEN q ELSE -q
Remainder(a, b) == a - b * Quotient(a, b)

Nothing == [dread |-> 0, dnext |-> 0, droom |-> 0, fread |-> 0, froom |-> 0,
            rread |-> 0, rroom |-> 0, ok |-> TRUE, trap |-> FALSE, jump |-> {},
            dtake |-> 0, ftake |-> 0, rtake |-> 0,
            dgive |-> {<<>>}, fgive |-> 0, rgive |-> <<>>]

Anything == {<<x>> : x \in Given}

Cells(read, room, take, give) ==
  [Nothing EXCEPT !.dread = read, !.droom = room, !.dtake = take, !.dgive = {give}]

Floats(read, room, take, give) ==
  [Nothing EXCEPT !.fread = read, !.froom = room, !.ftake = take, !.fgive = give]

-----------------------------------------------------------------------------
(* The groups of words; S is the data stack, S[1] its top.                 *)

\* how far an index leads: eight bytes to a cell, modulo 2^64
Reach(index) == index % Space

DataShuffle(w, S) ==
  CASE w = "DUP"  -> Cells(1, 1, 1, <<S[1], S[1]>>)
    [] w = "DROP" -> Cells(1, 0, 1, <<>>)
    [] w = "SWAP" -> Cells(2, 0, 2, <<S[2], S[1]>>)
    [] w = "OVER" -> Cells(2, 1, 2, <<S[2], S[1], S[2]>>)
    [] w = "ROT"  -> Cells(3, 0, 3, <<S[3], S[1], S[2]>>)
    [] w = "PICK" ->
         LET depth == Reach(S[1] + 1) + 1
         IN  Cells(S[1] + 2, 0, depth,
                   [i \in 1..depth |-> IF i = 1 THEN S[depth] ELSE S[i]])
    [] w = "ROLL" ->
         [Cells(1, 0, S[1] + 2,
                [i \in 1..(S[1] + 1) |-> IF i = 1 THEN S[S[1] + 2] ELSE S[i]]) EXCEPT
            !.dnext = S[1] + 1]

Divide(w, a, b) ==
  CASE w = "/"    -> Wrap(Quotient(Signed(a), Signed(b)))
    [] w = "MOD"  -> Wrap(Remainder(Signed(a), Signed(b)))
    [] w = "U/"   -> a \div b
    [] w = "UMOD" -> a % b

\* a zero divisor resets; the quotient of the least cell and -1 is no cell
Division(w, S) ==
  IF S[1] = 0 THEN [Cells(2, 0, 2, <<0>>) EXCEPT !.ok = FALSE]
  ELSE [Cells(2, 0, 2, <<Divide(w, S[2], S[1])>>) EXCEPT
          !.trap = w \in {"/", "MOD"} /\ Signed(S[2]) = Least /\ Signed(S[1]) = -1]

Arithmetic(w, S) ==
  CASE w = "+" -> Cells(2, 0, 2, <<Wrap(S[2] + S[1])>>)
    [] w = "-" -> Cells(2, 0, 2, <<Wrap(S[2] - S[1])>>)
    [] w = "*" -> Cells(2, 0, 2, <<Wrap(S[2] * S[1])>>)
    [] OTHER   -> Division(w, S)

\* the processor shifts by the count modulo the width
Shifted(w, x, count, width) ==
  CASE w = "L" -> (x * Power(2, count % width)) % Power(2, width)
    [] w = "R" -> x \div Power(2, count % width)
    [] w = "A" -> (IF x < Power(2, width - 1) THEN x \div Power(2, count % width)
                   ELSE (x - Power(2, width)) \div Power(2, count % width)) % Power(2, width)

Logic(w, S) ==
  CASE w = "INVERT"  -> Cells(1, 0, 1, <<Wrap(- S[1] - 1)>>)
    [] w = "AND"     -> Cells(2, 0, 2, <<And(S[2], S[1], Width)>>)
    [] w = "OR"      -> Cells(2, 0, 2, <<Or(S[2], S[1], Width)>>)
    [] w = "XOR"     -> Cells(2, 0, 2, <<Xor(S[2], S[1], Width)>>)
    [] w = "LSHIFT"  -> Cells(2, 0, 2, <<Shifted("L", S[2], S[1], Width)>>)
    [] w = "RSHIFT"  -> Cells(2, 0, 2, <<Shifted("R", S[2], S[1], Width)>>)
    [] w = "ARSHIFT" -> Cells(2, 0, 2, <<Shifted("A", S[2], S[1], Width)>>)

Compared(w, a, b) ==
  CASE w = "<" -> a < b [] w = "<=" -> a <= b [] w = ">" -> a > b
    [] w = ">=" -> a >= b [] w = "=" -> a = b [] w = "<>" -> a # b

\* U< and its like compare the cells as they are
Unsigned == [w \in {"U<", "U<=", "U>", "U>="} |->
               CASE w = "U<" -> "<" [] w = "U<=" -> "<=" [] w = "U>" -> ">"
                 [] w = "U>=" -> ">="]

Comparison(w, S) ==
  Cells(2, 0, 2,
        <<Flag(IF w \in DOMAIN Unsigned THEN Compared(Unsigned[w], S[2], S[1])
               ELSE Compared(w, Signed(S[2]), Signed(S[1])))>>)

\* FPICK makes no check for room
FloatShuffle(w, S) ==
  CASE w = "FDUP"  -> Floats(1, 1, 1, 2)
    [] w = "FDROP" -> Floats(1, 0, 1, 0)
    [] w = "FSWAP" -> Floats(2, 0, 2, 2)
    [] w = "FOVER" -> Floats(2, 1, 2, 3)
    [] w = "FROT"  -> Floats(3, 0, 3, 3)
    [] w = "FPICK" -> [Floats(S[1] + 1, 0, Reach(S[1]) + 1, Reach(S[1]) + 2) EXCEPT
                         !.dread = 1, !.dtake = 1]
    [] w = "FROLL" -> [Floats(S[1] + 1, 0, S[1] + 1, S[1] + 1) EXCEPT
                         !.dread = 1, !.dtake = 1]

Conversion(w, S) ==
  CASE w = "S>F" -> [Cells(1, 0, 1, <<>>) EXCEPT !.froom = 1, !.fgive = 1]
    [] w = "D>F" -> [Cells(2, 0, 2, <<>>) EXCEPT !.froom = 1, !.fgive = 1]
    [] w = "F>S" -> [Floats(1, 0, 1, 0) EXCEPT !.droom = 1, !.dgive = Anything]
    [] w = "F>D" -> [Floats(1, 0, 1, 0) EXCEPT
                       !.droom = 2, !.dgive = {<<x, y>> : x, y \in Given}]

\* F+ F- F* F/ FMOD F**
FloatArithmetic == Floats(2, 0, 2, 1)

FloatComparison ==
  [Floats(2, 0, 2, 0) EXCEPT !.droom = 1, !.dgive = {<<Flag(TRUE)>>, <<Flag(FALSE)>>}]

-----------------------------------------------------------------------------
(* Double cells: the high cell is on top.                                  *)

\* mutant: the low cell is on top
Double_Swapped(S, i) == S[i + 1] * Power(2, Width) + S[i]

Double(S, i) == S[i] * Power(2, Width) + S[i + 1]

SignedDouble(S, i) ==
  LET d == Double(S, i)
  IN  IF d < Power(2, 2 * Width - 1) THEN d ELSE d - Power(2, 2 * Width)

Halves(d) == <<(d % Power(2, 2 * Width)) \div Power(2, Width), d % Power(2, Width)>>

DoubleArithmetic(w, S) ==
  LET a == SignedDouble(S, 3)
      b == SignedDouble(S, 1)
      Four(d) == Cells(4, 0, 4, Halves(d))
  IN  CASE w = "D+" -> Four(a + b)
        [] w = "D-" -> Four(a - b)
        [] w = "D*" -> Four(a * b)
        [] w \in {"D/", "DMOD", "DU/", "DUMOD"} /\ b = 0 -> [Four(0) EXCEPT !.ok = FALSE]
        [] w = "D/" /\ b # 0 -> Four(Quotient(a, b))
        [] w = "DMOD" /\ b # 0 -> Four(Remainder(a, b))
        [] w = "DU/" /\ b # 0 -> Four(Double(S, 3) \div Double(S, 1))
        [] w = "DUMOD" /\ b # 0 -> Four(Double(S, 3) % Double(S, 1))

DoubleLogic(w, S) ==
  CASE w = "DINVERT"  -> Cells(2, 0, 2, Halves(- Double(S, 1) - 1))
    [] w = "DAND"     -> Cells(4, 0, 4, Halves(And(Double(S, 3), Double(S, 1), 2 * Width)))
    [] w = "DOR"      -> Cells(4, 0, 4, Halves(Or(Double(S, 3), Double(S, 1), 2 * Width)))
    [] w = "DXOR"     -> Cells(4, 0, 4, Halves(Xor(Double(S, 3), Double(S, 1), 2 * Width)))
    [] w = "DLSHIFT"  ->
         Cells(3, 0, 3, Halves(Shifted("L", Double(S, 2), S[1], 2 * Width)))
    [] w = "DRSHIFT"  ->
         Cells(3, 0, 3, Halves(Shifted("R", Double(S, 2), S[1], 2 * Width)))
    [] w = "DARSHIFT" ->
         Cells(3, 0, 3, Halves(Shifted("A", Double(S, 2), S[1], 2 * Width)))

SingleOf == [w \in {"D<", "D<=", "D>", "D>=", "D=", "D<>"} |->
               CASE w = "D<" -> "<" [] w = "D<=" -> "<=" [] w = "D>" -> ">"
                 [] w = "D>=" -> ">=" [] w = "D=" -> "=" [] w = "D<>" -> "<>"]
UnsignedOf == [w \in {"DU<", "DU<=", "DU>", "DU>="} |->
               CASE w = "DU<" -> "<" [] w = "DU<=" -> "<=" [] w = "DU>" -> ">"
                 [] w = "DU>=" -> ">="]

DoubleComparison(w, S) ==
  Cells(4, 0, 4,
        <<Flag(IF w \in DOMAIN UnsignedOf
               THEN Compared(UnsignedOf[w], Double(S, 3), Double(S, 1))
               ELSE Compared(SingleOf[w], SignedDouble(S, 3), SignedDouble(S, 1)))>>)

-----------------------------------------------------------------------------
(* Memory is left out: a fetch gives any cell.                             *)

\* @ W@ H@ C@
CellFetch == [Cells(1, 0, 1, <<>>) EXCEPT !.dgive = Anything]

\* ! +! W! H! C!
CellStore == Cells(2, 0, 2, <<>>)

\* F@ SF@ DF@
FloatFetch == [Cells(1, 0, 1, <<>>) EXCEPT !.froom = 1, !.fgive = 1]

\* F! F+! SF! SF+! DF! DF+!
FloatStore == [Cells(1, 0, 1, <<>>) EXCEPT !.fread = 1, !.ftake = 1]

\* SP@ SP0 SPF FP@ ... CELL-SIZE FORTH-WORDLIST: an address or a size
Push == [Cells(0, 1, 0, <<>>) EXCEPT !.dgive = Anything]

ReturnShuffle(w, S, m) ==
  LET cell == IF m.ret # <<>> /\ m.ret[1] \in Kept THEN {<<m.ret[1].cell>>} ELSE Anything
  IN  CASE w = ">R" -> [Cells(1, 0, 1, <<>>) EXCEPT
                          !.rroom = 1, !.rgive = <<[cell |-> S[1]]>>]
        [] w = "R>" -> [Cells(0, 1, 0, <<>>) EXCEPT
                          !.rread = 1, !.rtake = 1, !.dgive = cell]
        [] w = "R@" -> [Cells(0, 1, 0, <<>>) EXCEPT !.rread = 1, !.dgive = cell]

-----------------------------------------------------------------------------
(* Threaded code.                                                          *)

\* mutant: the cell of the call
ReturnAddress_Call(m) == [to |-> m.ip]

\* the cell after the call
ReturnAddress(m) == [to |-> m.ip + 1]

Control(w, m) ==
  CASE w = "docol" -> [Nothing EXCEPT
         !.ok = Len(m.ret) < RetSize, !.rgive = <<ReturnAddress(m)>>, !.jump = Code]
    [] w = "does" -> [Cells(0, 0, 0, <<>>) EXCEPT
         !.ok = Len(m.data) < DataSize /\ Len(m.ret) < RetSize,
         !.dgive = Anything, !.rgive = <<ReturnAddress(m)>>, !.jump = Code]
    [] w = "EXIT" -> [Nothing EXCEPT
         !.ok = m.ret # <<>>, !.rtake = 1,
         !.jump = IF m.ret # <<>> /\ m.ret[1] \in Addresses THEN {m.ret[1].to}
                  ELSE Code]
    [] w = "data" -> [Push EXCEPT !.droom = 0, !.ok = Len(m.data) < DataSize]
    [] w = "BRANCH" -> [Nothing EXCEPT !.jump = Code]
    [] w = "?BRANCH" -> [Cells(1, 0, 1, <<>>) EXCEPT
         !.jump = IF m.data # <<>> /\ m.data[1] = 0 THEN Code ELSE {m.ip + 2}]
    [] w = "(FLITERAL)" -> [Nothing EXCEPT
         !.ok = m.float < FloatSize, !.fgive = 1, !.jump = {m.ip + 2}]

\* (LITERAL) with the operand x
Literal(x, m) ==
  [Cells(0, 0, 0, <<x>>) EXCEPT !.ok = Len(m.data) < DataSize, !.jump = {m.ip + 2}]

-----------------------------------------------------------------------------
ShuffleWords == {"DUP", "DROP", "SWAP", "OVER", "ROT", "PICK", "ROLL"}
ArithmeticWords == {"+", "-", "*", "/", "MOD", "U/", "UMOD"}
LogicWords == {"INVERT", "AND", "OR", "XOR", "LSHIFT", "RSHIFT", "ARSHIFT"}
ComparisonWords == {"<", "<=", ">", ">=", "=", "<>", "U<", "U<=", "U>", "U>="}
FloatShuffleWords == {"FDUP", "FDROP", "FSWAP", "FOVER", "FROT", "FPICK", "FROLL"}
ConversionWords == {"S>F", "D>F", "F>S", "F>D"}
FloatArithmeticWords == {"F+", "F-", "F*", "F/", "FMOD", "F**"}
FloatComparisonWords == {"F<", "F<=", "F>", "F>=", "F=", "F<>"}
DoubleArithmeticWords == {"D+", "D-", "D*", "D/", "DMOD", "DU/", "DUMOD"}
DoubleLogicWords == {"DINVERT", "DAND", "DOR", "DXOR", "DLSHIFT", "DRSHIFT", "DARSHIFT"}
DoubleComparisonWords == DOMAIN SingleOf \cup DOMAIN UnsignedOf
MemoryWords == {"@", "!", "F@", "F!", "SP@"}
ReturnWords == {">R", "R>", "R@"}
ControlWords == {"docol", "does", "EXIT", "data", "BRANCH", "?BRANCH", "(FLITERAL)"}

Words ==
  UNION {ShuffleWords, ArithmeticWords, LogicWords, ComparisonWords, FloatShuffleWords,
         ConversionWords, FloatArithmeticWords, FloatComparisonWords,
         DoubleArithmeticWords, DoubleLogicWords, DoubleComparisonWords,
         MemoryWords, ReturnWords, ControlWords}

ASSUME KnownWords == \A v \in Vocabularies : v \subseteq Words \cup {"(LITERAL)", "EXECUTE"}

\* what the word w does in m
Effect(w, m) ==
  LET S == [i \in 1..(Power(2, Width) + 2) |-> IF i <= Len(m.data) THEN m.data[i] ELSE 0]
  IN  CASE w \in ShuffleWords          -> DataShuffle(w, S)
        [] w \in ArithmeticWords       -> Arithmetic(w, S)
        [] w \in LogicWords            -> Logic(w, S)
        [] w \in ComparisonWords       -> Comparison(w, S)
        [] w \in FloatShuffleWords     -> FloatShuffle(w, S)
        [] w \in ConversionWords       -> Conversion(w, S)
        [] w \in FloatArithmeticWords  -> FloatArithmetic
        [] w \in FloatComparisonWords  -> FloatComparison
        [] w \in DoubleArithmeticWords -> DoubleArithmetic(w, S)
        [] w \in DoubleLogicWords      -> DoubleLogic(w, S)
        [] w \in DoubleComparisonWords -> DoubleComparison(w, S)
        [] w = "@" -> CellFetch [] w = "!" -> CellStore
        [] w = "F@" -> FloatFetch [] w = "F!" -> FloatStore [] w = "SP@" -> Push
        [] w \in ReturnWords           -> ReturnShuffle(w, S, m)
        [] w \in ControlWords          -> Control(w, m)

\* mutant: the macro compares with one cell too many
HasRoom_Loose(depth, size, n) == depth + n <= size + 1

\* AF_VERIFY_*_STACK_EXPAND
HasRoom(depth, size, n) == depth + n <= size

\* AF_VERIFY_*_STACK_READ: the stack holds its top depth cells below its base,
\* and the address base - (cells - 1) wraps where it would be negative
CanRead(base, depth, cells) == cells = 0 \/ base - depth < (base - (cells - 1)) % Space

\* whether it wraps; without an index a word reads four cells at most
Wraps(e) ==
  e.dread > DataBase + 1 \/ e.dnext > DataBase + 1 \/ e.fread > FloatBase + 1

\* AF_VERIFY_*_STACK_READ and _EXPAND, empty unless DEBUG; on the return stack no
\* word reads more than one cell
Verified(e, m) ==
  Debug => /\ CanRead(DataBase, Len(m.data), e.dread)
           /\ CanRead(DataBase, Len(m.data) - 1, e.dnext)
           /\ HasRoom(Len(m.data), DataSize, e.droom)
           /\ CanRead(FloatBase, m.float, e.fread) /\ HasRoom(m.float, FloatSize, e.froom)
           /\ e.rread <= Len(m.ret) /\ HasRoom(Len(m.ret), RetSize, e.rroom)

\* af_reset: the stacks are emptied and the abort word, a colon definition,
\* is called from no cell of code
Reset(m) == [data |-> <<>>, float |-> 0, ret |-> <<Nowhere>>, ip |-> 0, state |-> "runs"]

\* the stack s with take entries replaced by give
Replaced(s, take, give) == give \o SubSeq(s, take + 1, Len(s))

\* whether the effect stays within the stacks
StaysInside(e, m) ==
  /\ e.dtake <= Len(m.data) /\ e.ftake <= m.float /\ e.rtake <= Len(m.ret)
  /\ \A give \in e.dgive : Len(m.data) - e.dtake + Len(give) <= DataSize
  /\ m.float - e.ftake + e.fgive <= FloatSize
  /\ Len(m.ret) - e.rtake + Len(e.rgive) <= RetSize

\* the machines a task may be in after e
After(e, m) ==
  IF ~ Verified(e, m) \/ ~ e.ok THEN {Reset(m)}
  ELSE IF ~ StaysInside(e, m) THEN {[m EXCEPT !.state = IF Wraps(e) THEN "wild" ELSE "stray"]}
  ELSE IF e.trap THEN {[m EXCEPT !.state = "trap"]}
  ELSE {[data |-> Replaced(m.data, e.dtake, give),
         float |-> m.float - e.ftake + e.fgive,
         ret |-> Replaced(m.ret, e.rtake, e.rgive),
         ip |-> next, state |-> "runs"] :
          give \in e.dgive, next \in IF e.jump = {} THEN {m.ip + 1} ELSE e.jump}

\* What a program may not do: FPICK on a full float stack, which it does not
\* check, and EXIT to what is no address.
Lawful(w, m) ==
  /\ w = "FPICK" => m.float < FloatSize
  /\ w = "EXIT" /\ m.ret # <<>> => m.ret[1] \in Addresses

-----------------------------------------------------------------------------
VARIABLES machine,      \* the task's stacks and pointer
          vocabulary,   \* the words its program uses
          held          \* the word at ip, where it is known; "" elsewhere

vars == <<machine, vocabulary, held>>

Init ==
  /\ machine = [data |-> <<>>, float |-> 0, ret |-> <<Nowhere>>, ip |-> 0, state |-> "runs"]
  /\ vocabulary \in Vocabularies /\ held = ""

Become(m) ==
  /\ m.ip \in Code /\ machine' = m
  /\ vocabulary' = vocabulary

Running == machine.state = "runs"

\* AF_WORD_EXECUTE of the word at ip.  F<= does not advance ip (prim.c:2552),
\* so the same cell is next.
Run(w) ==
  /\ Running /\ held \in {"", w} /\ Lawful(w, machine)
  /\ LET e == Effect(w, machine)
         stuck == w = "F<=" /\ Verified(e, machine)
     IN  /\ \E m \in After(e, machine) :
              Become(IF stuck THEN [m EXCEPT !.ip = machine.ip] ELSE m)
         /\ held' = IF stuck THEN w ELSE ""

RunLiteral(x) ==
  /\ Running /\ held = "" /\ held' = held
  /\ \E m \in After(Literal(x, machine), machine) : Become(m)

\* EXECUTE pops the word before it is executed
Execute(w) ==
  /\ Running /\ held = "" /\ held' = held
  /\ IF machine.data = <<>> /\ Debug THEN Become(Reset(machine))
     ELSE LET popped == [machine EXCEPT !.data = Tail(@)]
          IN  /\ machine.data # <<>> /\ w # "F<=" /\ Lawful(w, popped)
              /\ \E m \in After(Effect(w, popped), popped) : Become(m)

Next ==
  \/ \E w \in vocabulary \ {"(LITERAL)", "EXECUTE"} : Run(w)
  \/ "(LITERAL)" \in vocabulary /\ \E x \in Given : RunLiteral(x)
  \/ "EXECUTE" \in vocabulary
       /\ \E w \in vocabulary \ {"(LITERAL)", "EXECUTE"} : Execute(w)

Spec == Init /\ [][Next]_vars

-----------------------------------------------------------------------------
(* Properties.                                                             *)

\* In a DEBUG build the checks at the head of every primitive cover all it reads
\* and writes: no sequence of words leaves a stack, at either end, but by a check
\* whose address has wrapped, which takes an index beyond the base of the stack.
ChecksSuffice == Debug => machine.state # "stray"

\* a word of a program, and a literal
W(word) == <<word, 0>>
Lit(x) == <<"(LITERAL)", x>>
Program(words) == [i \in DOMAIN words |-> W(words[i])]

\* all that the straight program p may make of m
Results(p, m) ==
  LET Step(M, word) ==
        UNION {IF x.state # "runs" THEN {x}
               ELSE After(IF word[1] = "(LITERAL)" THEN Literal(word[2], x)
                          ELSE Effect(word[1], x), x) : x \in M}
  IN  FoldLeft(Step, {m}, p)

\* a cell made a double cell, the sign (S>D of builtin.c) or zero on top
Signs == <<W("DUP"), Lit(0), W("<")>>
Zero == <<Lit(0)>>
Both(extend) == extend \o Program(<<">R", ">R">>) \o extend \o Program(<<"R>", "R>">>)

\* a divided by b times b, and the remainder
Undivided(div, mod) ==
  Program(<<"OVER", "OVER", mod, ">R", "SWAP", "OVER", div, "*", "R>", "+">>)

SameOnDoubles ==
  {<<Both(Signs) \o Program(<<w[1], "DROP">>), Program(<<w[2]>>)>> :
     w \in {<<"D+", "+">>, <<"D-", "-">>, <<"D*", "*">>, <<"D/", "/">>, <<"DMOD", "MOD">>}}
  \cup {<<Both(Zero) \o Program(<<w[1], "DROP">>), Program(<<w[2]>>)>> :
     w \in {<<"DU/", "U/">>, <<"DUMOD", "UMOD">>}}
  \cup {<<Both(Signs) \o Program(<<w>>), Program(<<SingleOf[w]>>)>> : w \in DOMAIN SingleOf}
  \cup {<<Both(Zero) \o Program(<<w[1]>>), Program(<<w[2]>>)>> :
     w \in {<<"DU<", "U<">>, <<"DU<=", "U<=">>, <<"DU>", "U>">>, <<"DU>=", "U>=">>}}

Equal ==
  { <<Program(<<"ROT">>), <<Lit(2), W("ROLL")>>>>,
    <<Program(<<"SWAP">>), <<Lit(1), W("ROLL")>>>>,
    <<Program(<<"OVER">>), <<Lit(1), W("PICK")>>>>,
    <<Undivided("/", "MOD"), Program(<<"OVER", "OVER", "/", "DROP", "DROP">>)>>,
    <<Undivided("U/", "UMOD"), Program(<<"OVER", "OVER", "U/", "DROP", "DROP">>)>>,
    <<<<W("INVERT"), Lit(1), W("+"), W("+")>>, Program(<<"-">>)>>,
    <<Program(<<"OVER", "OVER", "XOR", ">R", "AND", "DUP", "+", "R>", "+">>),
      Program(<<"+">>)>>,
    <<Program(<<"OVER", "OVER", "XOR", ">R", "AND", "R>", "+">>), Program(<<"OR">>)>>,
    <<<<W("DUP"), Lit(1), W("ARSHIFT"), Lit(1), W("LSHIFT"), W("SWAP"), Lit(1),
        W("AND"), W("OR")>>, Program(<<"DUP", "DROP">>)>>,
    <<Signs \o <<Lit(1), W("DARSHIFT"), W("DROP")>>, <<Lit(1), W("ARSHIFT")>>>>,
    <<Program(<<"OVER", "OVER", "D+">>), <<Lit(1), W("DLSHIFT")>>>>,
    <<Program(<<"INVERT", "SWAP", "INVERT", "SWAP">>), Program(<<"DINVERT">>)>> }

\* where two programs are compared: two cells of every stack are free
Comparable(m) == m.state = "runs" /\ Len(m.data) <= DataSize - 2 /\ Len(m.ret) <= RetSize - 2

Ends(p, m) == {[x EXCEPT !.ip = 0] : x \in Results(p, m)}
Traps(p, m) == \E x \in Results(p, m) : x.state = "trap"

\* In a DEBUG build programs that should do the same do so with every stack, a
\* reset included: the stack words agree with ROLL and PICK, quotient and remainder
\* with the product, the operations on bits with the sums, and every double cell
\* word with its single one, unless that one traps.
ProgramsAgree ==
  Debug /\ Comparable(machine) =>
    \A pair \in Equal \cup SameOnDoubles :
      Ends(pair[1], machine) = Ends(pair[2], machine) \/ Traps(pair[2], machine)

\* A call comes back to the cell after it and leaves the stacks as they were,
\* whatever the word called has put on the return stack and taken off again.
CallsComeBack ==
  Comparable(machine) =>
    /\ Results(<<W("docol"), Lit(1), W(">R"), W("R>"), W("DROP"), W("EXIT")>>, machine)
         = {[machine EXCEPT !.ip = @ + 1]}
    /\ Results(Program(<<"does", "DROP", "EXIT">>), machine)
         = {[machine EXCEPT !.ip = @ + 1]}

=============================================================================
