-------------------------- MODULE StackMachineProofs --------------------------
(***************************************************************************)
(* The stack machine for cells of any width, stacks of any size, code of   *)
(* any length and any vocabulary: no word of it reads or leaves more than  *)
(* its checks allow for, unless the address of a check has wrapped, and a  *)
(* call comes back.                                                        *)
(***************************************************************************)
EXTENDS StackMachine, ArithmeticProofs, SequenceTheorems

Entries == Kept \cup Addresses \cup {Nowhere}

Machines == [data : Seq(Cell), float : Nat, ret : Seq(Entries), ip : Int,
             state : {"runs", "stray", "wild", "trap"}]

\* no stack holds more than it may
Sized(m) == Len(m.data) <= DataSize /\ m.float <= FloatSize /\ Len(m.ret) <= RetSize

-----------------------------------------------------------------------------
(* The arithmetic of the words leaves cells.                               *)

P == Power(2, Width)
PP == Power(2, 2 * Width)

\* a cell holds the numbers below a power of two, a pair of them those below its square
LEMMA Sizes ==
  /\ P \in Nat \ {0} /\ PP = P * P /\ PP \in Nat \ {0}
  /\ P = 2 * Power(2, Width - 1) /\ Power(2, Width - 1) \in Nat /\ Power(2, Width - 1) >= 4
  /\ Cell = 0..(P - 1) /\ 0 \in Cell /\ 1 \in Cell
<1>1. Width \in Nat /\ Width - 3 \in Nat /\ Width - 2 \in Nat /\ Width - 1 \in Nat
      /\ Width = (Width - 1) + 1 /\ Width - 1 = (Width - 2) + 1 /\ Width - 2 = (Width - 3) + 1
      /\ 2 * Width = Width + Width
  BY MachineSizes
<1>2. P = 2 * Power(2, Width - 1) /\ P \in Nat \ {0}
  BY <1>1, PowerOfTwo DEF P
<1>3. Power(2, Width - 1) = 2 * Power(2, Width - 2)
  BY <1>1, PowerOfTwo
<1>4. Power(2, Width - 2) = 2 * Power(2, Width - 3) /\ Power(2, Width - 3) \in Nat \ {0}
  BY <1>1, PowerOfTwo
<1>5. PP = P * P
  BY <1>1, PowerSum DEF P, PP
<1>6. PP \in Nat \ {0}
  BY <1>2, <1>5
<1>7. Cell = 0..(P - 1)
  BY DEF Cell, P
<1> QED BY <1>2, <1>3, <1>4, <1>5, <1>6, <1>7

\* a cell is a number below a power of two
LEMMA CellIs == P \in Nat \ {0} /\ Cell = 0..(P - 1)
BY Sizes

\* a quotient is no greater than what is divided
LEMMA DivWithin ==
  ASSUME NEW x \in Nat, NEW m \in Nat \ {0}
  PROVE  x \div m \in 0..x
<1> DEFINE q == x \div m
           r == x % m
<1>1. q \in Int /\ r \in 0..(m - 1) /\ x = q * m + r
  BY Dividing
<1> HIDE DEF q, r
<1>2. q >= 0
  <2>1. SUFFICES ASSUME q <= -1 PROVE FALSE
    BY <1>1
  <2>2. q * m <= (-1) * m
    BY <1>1, <2>1
  <2> QED BY <1>1, <2>2
<1>3. q * m >= q
  BY <1>1, <1>2
<1>4. q \in 0..x
  BY <1>1, <1>2, <1>3
<1> QED BY <1>4 DEF q

\* ... and below a when what is divided is below a times the divisor
LEMMA DivUnder ==
  ASSUME NEW a \in Nat, NEW m \in Nat \ {0}, NEW x \in Nat, x < a * m
  PROVE  x \div m \in 0..(a - 1)
<1> DEFINE q == x \div m
           r == x % m
<1>1. q \in 0..x /\ r \in 0..(m - 1) /\ x = q * m + r
  <2>1. q \in 0..x
    BY DivWithin
  <2>2. r \in 0..(m - 1) /\ x = q * m + r
    BY Dividing
  <2> QED BY <2>1, <2>2
<1> HIDE DEF q, r
<1>2. q < a
  <2>1. SUFFICES ASSUME q >= a PROVE FALSE
    BY <1>1
  <2>2. q * m >= a * m
    BY <1>1, <2>1
  <2> QED BY <1>1, <2>2
<1>3. q \in 0..(a - 1)
  BY <1>1, <1>2
<1> QED BY <1>3 DEF q

\* every number wraps to a cell
LEMMA WrapCell ==
  ASSUME NEW x \in Int
  PROVE  Wrap(x) \in Cell
<1>1. x % P \in 0..(P - 1)
  BY Sizes, Dividing
<1> QED BY <1>1, Sizes DEF Wrap, P

\* a flag is a cell
LEMMA FlagCell ==
  ASSUME NEW p \in BOOLEAN
  PROVE  Flag(p) \in Cell
BY Sizes DEF Flag, P

\* a cell read as a signed number is a number
LEMMA SignedType ==
  ASSUME NEW x \in Cell
  PROVE  x \in Nat /\ Signed(x) \in Int
BY Sizes DEF Signed, P

\* quotients and remainders of whole numbers are whole numbers
LEMMA QuotientType ==
  ASSUME NEW a \in Int, NEW b \in Int, b # 0
  PROVE  Quotient(a, b) \in Int /\ Remainder(a, b) \in Int
<1>1. Magnitude(a) \in Int /\ Magnitude(b) \in Nat \ {0}
  BY DEF Magnitude
<1>2. PICK q \in Int : q = Magnitude(a) \div Magnitude(b)
  BY <1>1, Dividing
<1>3. Quotient(a, b) \in Int
  BY <1>2 DEF Quotient
<1> QED BY <1>3 DEF Remainder

\* a shift of a cell, or of a double cell, stays below the power of its width
LEMMA ShiftedType ==
  ASSUME NEW w \in {"L", "R", "A"}, NEW x \in Nat, NEW count \in Nat, NEW width \in Nat \ {0}
  PROVE  /\ Shifted(w, x, count, width) \in Nat
         /\ x < Power(2, width) => Shifted(w, x, count, width) < Power(2, width)
<1>1. PICK k \in Nat : k = count % width
  <2>1. count % width \in 0..(width - 1)
    BY Dividing
  <2> QED BY <2>1
<1>2. PICK s \in Nat \ {0} : s = Power(2, k)
  BY PowerOfTwo
<1>3. PICK m \in Nat \ {0} : m = Power(2, width)
  BY PowerOfTwo
<1>4. CASE w = "L"
  <2>1. Shifted(w, x, count, width) = (x * s) % m
    BY <1>1, <1>2, <1>3, <1>4 DEF Shifted
  <2>2. PICK y \in Int : y = x * s
    OBVIOUS
  <2>3. y % m \in 0..(m - 1)
    BY Dividing
  <2> QED BY <1>3, <2>1, <2>2, <2>3
<1>5. CASE w = "R"
  <2>1. Shifted(w, x, count, width) = x \div s
    BY <1>1, <1>2, <1>5 DEF Shifted
  <2>2. x \div s \in 0..x
    BY DivWithin
  <2> QED BY <1>3, <2>1, <2>2
<1>6. CASE w = "A"
  <2>1. PICK y \in Int : Shifted(w, x, count, width) = y % m
    <3>1. Power(2, width - 1) \in Int
      BY PowerOfTwo
    <3>2. PICK a \in Int : a = x \div s
      BY Dividing
    <3>3. PICK c \in Int : c = x - m
      OBVIOUS
    <3>4. PICK b \in Int : b = c \div s
      BY Dividing
    <3>5. Shifted(w, x, count, width) =
            (IF x < Power(2, width - 1) THEN a ELSE b) % m
      BY <1>1, <1>2, <1>3, <1>6, <3>2, <3>3, <3>4 DEF Shifted
    <3> QED BY <3>1, <3>5
  <2>2. y % m \in 0..(m - 1)
    BY Dividing
  <2> QED BY <1>3, <2>1, <2>2
<1> QED BY <1>4, <1>5, <1>6

\* every number wraps to two cells
LEMMA HalvesType ==
  ASSUME NEW d \in Int
  PROVE  Halves(d) \in Seq(Cell) /\ Len(Halves(d)) = 2
<1>1. PICK r \in Nat : r = d % PP /\ r < P * P
  <2>1. PICK n \in Nat \ {0} : n = PP /\ n = P * P
    BY Sizes
  <2>2. d % n \in 0..(n - 1)
    BY <2>1, Dividing
  <2>3. PICK r \in Nat : r = d % n /\ r < n
    BY <2>2
  <2> QED BY <2>1, <2>3
<1>2. r \div P \in Cell
  <2>1. r \div P \in 0..(P - 1)
    BY <1>1, Sizes, DivUnder
  <2> QED BY <2>1, Sizes
<1>3. d % P \in Cell
  BY Sizes, Dividing
<1>4. Halves(d) = <<r \div P, d % P>>
  BY <1>1 DEF Halves, P, PP
<1> QED BY <1>2, <1>3, <1>4

\* two cells read as a double cell are a number
LEMMA DoubleType ==
  ASSUME NEW S, NEW i \in Nat, S[i] \in Cell, S[i + 1] \in Cell
  PROVE  Double(S, i) \in Nat /\ SignedDouble(S, i) \in Int
<1>1. S[i] \in Nat /\ S[i + 1] \in Nat
  BY CellIs
<1>2. Double(S, i) \in Nat
  <2>1. PICK p \in Nat : p = P
    BY CellIs
  <2>2. Double(S, i) = S[i] * p + S[i + 1]
    BY <2>1 DEF Double, P
  <2>3. S[i] * p \in Nat
    BY <1>1
  <2> QED BY <1>1, <2>2, <2>3
<1>3. Power(2, 2 * Width - 1) \in Int
  <2>1. 2 * Width - 1 \in Nat
    BY MachineSizes
  <2> QED BY <2>1, PowerOfTwo
<1> QED BY <1>2, <1>3, Sizes DEF SignedDouble, PP

-----------------------------------------------------------------------------
(* The effects of the words.                                               *)

\* the effect changes the stacks of m to such as they may be, and in a DEBUG
\* build what it has checked covers what it takes and leaves, unless the address
\* the check computed has wrapped
Fits(e, m) ==
  /\ e.dtake \in Nat /\ e.ftake \in Nat /\ e.rtake \in Nat /\ e.fgive \in Nat
  /\ e.dgive \subseteq Seq(Cell) /\ e.rgive \in Seq(Entries) /\ e.jump \subseteq Int
  /\ Debug /\ Verified(e, m) /\ e.ok /\ ~ Wraps(e) => StaysInside(e, m)

\* a check whose address does not wrap counts the cells below the top of the stack
LEMMA ReadFits ==
  ASSUME NEW base \in 0..(Space - 1), NEW depth \in Int, NEW cells \in Nat \ {0},
         cells <= base + 1, CanRead(base, depth, cells)
  PROVE  cells <= depth
<1>1. PICK space \in Nat \ {0} : space = Space
  BY AddressSpace
<1>2. PICK x \in Int : x = base - (cells - 1)
  BY <1>1
<1>3. x \in 0..(space - 1)
  BY <1>1, <1>2
<1>4. x % space = x
  BY <1>1, <1>3, ModSmall
<1>5. base - depth < x
  BY <1>1, <1>2, <1>4 DEF CanRead
<1> QED BY <1>1, <1>2, <1>5

\* ... and passes where there are so many
LEMMA ReadPasses ==
  ASSUME NEW base \in 0..(Space - 1), NEW depth \in 0..base, NEW cells \in 0..depth
  PROVE  CanRead(base, depth, cells)
<1>1. PICK space \in Nat \ {0} : space = Space
  BY AddressSpace
<1>2. PICK x \in Int : x = base - (cells - 1)
  BY <1>1
<1>3. CASE cells = 0
  BY <1>3 DEF CanRead
<1>4. CASE cells # 0
  <2>1. x \in 0..(space - 1) /\ base - depth < x
    BY <1>1, <1>2, <1>4
  <2>2. x % space = x
    BY <1>1, <2>1, ModSmall
  <2> QED BY <1>1, <1>2, <2>1, <2>2 DEF CanRead
<1> QED BY <1>3, <1>4

\* the bases of the stacks are addresses, above the whole of their stacks
LEMMA Bases ==
  /\ DataBase \in 0..(Space - 1) /\ FloatBase \in 0..(Space - 1) /\ Space \in Nat \ {0}
  /\ DataBase \in Nat /\ FloatBase \in Nat
  /\ DataSize \in Nat /\ DataSize <= DataBase /\ FloatSize \in Nat /\ FloatSize <= FloatBase
BY MachineSizes, AddressSpace

\* an effect that reads what it takes and has room for what it leaves, on any stacks
Covered(e) ==
  /\ e.dtake \in Nat /\ e.ftake \in Nat /\ e.rtake \in Nat /\ e.fgive \in Nat
  /\ e.dread \in Nat /\ e.fread \in Nat /\ e.rread \in Nat
  /\ e.droom \in Nat /\ e.froom \in Nat /\ e.rroom \in Nat
  /\ e.dgive \subseteq Seq(Cell) /\ e.rgive \in Seq(Entries) /\ e.jump \subseteq Int
  /\ e.dtake <= e.dread /\ e.ftake <= e.fread /\ e.rtake <= e.rread
  /\ \A give \in e.dgive : Len(give) <= e.dtake + e.droom
  /\ e.fgive <= e.ftake + e.froom /\ Len(e.rgive) <= e.rtake + e.rroom

\* a stack of depth entries has what is read and the room that is filled
Allows(depth, size, read, room, take, give) ==
  /\ {depth, size, read, room, take, give} \subseteq Nat
  /\ read <= depth /\ depth + room <= size /\ take <= read /\ give <= take + room

\* a stack that has what is read and room for what is left neither runs empty nor over
LEMMA StackFits ==
  ASSUME NEW depth, NEW size, NEW read, NEW room, NEW take, NEW give,
         Allows(depth, size, read, room, take, give)
  PROVE  take <= depth /\ depth - take + give <= size
BY DEF Allows

\* An effect whose checks cover what it takes and gives stays inside the stacks.
LEMMA CoveredFits ==
  ASSUME NEW m \in Machines, NEW e, Covered(e)
  PROVE  Fits(e, m)
<1>1. ASSUME Debug, Verified(e, m), e.ok, ~ Wraps(e) PROVE StaysInside(e, m)
  <2>1. Len(m.data) \in Nat /\ m.float \in Nat /\ Len(m.ret) \in Nat
    BY DEF Machines
  <2>2. DataSize \in Nat /\ FloatSize \in Nat /\ RetSize \in Nat
    BY MachineSizes
  <2>3. /\ e.dread <= Len(m.data) /\ Len(m.data) + e.droom <= DataSize
        /\ e.fread <= m.float /\ m.float + e.froom <= FloatSize
        /\ e.rread <= Len(m.ret) /\ Len(m.ret) + e.rroom <= RetSize
    <3>1. /\ CanRead(DataBase, Len(m.data), e.dread) /\ Len(m.data) + e.droom <= DataSize
          /\ CanRead(FloatBase, m.float, e.fread) /\ m.float + e.froom <= FloatSize
          /\ e.rread <= Len(m.ret) /\ Len(m.ret) + e.rroom <= RetSize
      BY <1>1 DEF Verified, HasRoom
    <3>2. e.dread \in Nat /\ e.fread \in Nat
      BY DEF Covered
    <3>3. e.dread <= DataBase + 1 /\ e.fread <= FloatBase + 1
      BY <1>1, <3>2, Bases DEF Wraps
    <3>4. e.dread <= Len(m.data)
      <4>1. CASE e.dread = 0
        BY <2>1, <4>1
      <4>2. CASE e.dread # 0
        <5>1. PICK depth \in Int, cells \in Nat \ {0} : depth = Len(m.data) /\ cells = e.dread
          BY <2>1, <3>2, <4>2
        <5>2. cells <= DataBase + 1 /\ CanRead(DataBase, depth, cells)
          BY <3>1, <3>3, <5>1
        <5>3. cells <= depth
          BY <5>2, Bases, ReadFits
        <5> QED BY <5>1, <5>3
      <4> QED BY <4>1, <4>2
    <3>5. e.fread <= m.float
      <4>1. CASE e.fread = 0
        BY <2>1, <4>1
      <4>2. CASE e.fread # 0
        <5>1. PICK depth \in Int, cells \in Nat \ {0} : depth = m.float /\ cells = e.fread
          BY <2>1, <3>2, <4>2
        <5>2. cells <= FloatBase + 1 /\ CanRead(FloatBase, depth, cells)
          BY <3>1, <3>3, <5>1
        <5>3. cells <= depth
          BY <5>2, Bases, ReadFits
        <5> QED BY <5>1, <5>3
      <4> QED BY <4>1, <4>2
    <3> QED BY <3>1, <3>4, <3>5
  <2>4. /\ e.dtake \in Nat /\ e.ftake \in Nat /\ e.rtake \in Nat /\ e.fgive \in Nat
        /\ e.dread \in Nat /\ e.fread \in Nat /\ e.rread \in Nat
        /\ e.droom \in Nat /\ e.froom \in Nat /\ e.rroom \in Nat
        /\ e.dtake <= e.dread /\ e.ftake <= e.fread /\ e.rtake <= e.rread
        /\ e.fgive <= e.ftake + e.froom /\ Len(e.rgive) <= e.rtake + e.rroom
        /\ Len(e.rgive) \in Nat
    BY DEF Covered
  <2>5. e.dtake <= Len(m.data)
    <3>1. e.dtake <= e.dread /\ e.dread <= Len(m.data)
      BY <2>3, <2>4
    <3>2. e.dtake \in Nat /\ e.dread \in Nat /\ Len(m.data) \in Nat
      BY <2>1, <2>4
    <3> QED BY <3>1, <3>2
  <2>6. ASSUME NEW give \in e.dgive PROVE Len(m.data) - e.dtake + Len(give) <= DataSize
    <3>1. Len(give) \in Nat /\ Len(give) <= e.dtake + e.droom
      BY DEF Covered
    <3>2. Allows(Len(m.data), DataSize, e.dread, e.droom, e.dtake, Len(give))
      BY <2>1, <2>2, <2>3, <2>4, <3>1 DEF Allows
    <3> QED BY <3>2, StackFits
  <2>7. e.ftake <= m.float /\ m.float - e.ftake + e.fgive <= FloatSize
    <3>1. Allows(m.float, FloatSize, e.fread, e.froom, e.ftake, e.fgive)
      BY <2>1, <2>2, <2>3, <2>4 DEF Allows
    <3> QED BY <3>1, StackFits
  <2>8. e.rtake <= Len(m.ret) /\ Len(m.ret) - e.rtake + Len(e.rgive) <= RetSize
    <3>1. Allows(Len(m.ret), RetSize, e.rread, e.rroom, e.rtake, Len(e.rgive))
      BY <2>1, <2>2, <2>3, <2>4 DEF Allows
    <3> QED BY <3>1, StackFits
  <2> QED BY <2>5, <2>6, <2>7, <2>8 DEF StaysInside
<1> QED BY <1>1 DEF Fits, Covered

\* what a word that works on one stack alone reads, takes and leaves
Gives(read, room, take, give) ==
  /\ {read, room, take, give} \subseteq Nat
  /\ take <= read /\ give <= take + room

\* an effect on the data stack alone is covered by what it reads and the room it asks for
LEMMA CellsCovered ==
  ASSUME NEW read, NEW room, NEW take, NEW give \in Seq(Cell), Gives(read, room, take, Len(give))
  PROVE  Covered(Cells(read, room, take, give))
<1>1. {give} \subseteq Seq(Cell) /\ <<>> \in Seq(Entries) /\ Len(<<>>) = 0
  OBVIOUS
<1> QED BY <1>1 DEF Covered, Cells, Nothing, Gives

\* the effects differ in no more than that they may reset or trap
Like(e, f) ==
  /\ e.dread = f.dread /\ e.droom = f.droom /\ e.dtake = f.dtake /\ e.dgive = f.dgive
  /\ e.fread = f.fread /\ e.froom = f.froom /\ e.ftake = f.ftake /\ e.fgive = f.fgive
  /\ e.rread = f.rread /\ e.rroom = f.rroom /\ e.rtake = f.rtake /\ e.rgive = f.rgive
  /\ e.jump = f.jump

\* ... and so is one that checks and moves the same
LEMMA LikeCovered ==
  ASSUME NEW f, Covered(f), NEW e, Like(e, f)
  PROVE  Covered(e)
BY DEF Like, Covered

\* an effect on the float stack alone is covered in the same way
LEMMA FloatsCovered ==
  ASSUME NEW read, NEW room, NEW take, NEW give, Gives(read, room, take, give)
  PROVE  Covered(Floats(read, room, take, give))
<1>1. {<<>>} \subseteq Seq(Cell) /\ <<>> \in Seq(Entries) /\ Len(<<>>) = 0
  OBVIOUS
<1> QED BY <1>1 DEF Covered, Floats, Nothing, Gives

\* the cells on the data stack, and 0 under them
TopOf(m) == [i \in 1..(Power(2, Width) + 2) |-> IF i <= Len(m.data) THEN m.data[i] ELSE 0]

\* the cells read from a data stack are cells, those below its bottom included
LEMMA TopType ==
  ASSUME NEW m \in Machines
  PROVE  /\ \A i \in 1..(P + 2) : TopOf(m)[i] \in Cell
         /\ {1, 2, 3, 4} \subseteq 1..(P + 2)
<1>1. ASSUME NEW i \in 1..(P + 2) PROVE TopOf(m)[i] \in Cell
  <2>1. TopOf(m)[i] = IF i <= Len(m.data) THEN m.data[i] ELSE 0
    BY DEF TopOf, P
  <2>2. i <= Len(m.data) => m.data[i] \in Cell
    <3>1. m.data \in Seq(Cell) /\ i \in Nat /\ i >= 1
      BY Sizes DEF Machines
    <3>2. PICK d \in Seq(Cell) : d = m.data
      BY <3>1
    <3>3. i <= Len(d) => d[i] \in Cell
      BY <3>1
    <3> QED BY <3>2, <3>3
  <2> QED BY <2>1, <2>2, Sizes
<1> QED BY <1>1, Sizes

\* the lengths of the few cells a word leaves
LEMMA Tuples ==
  ASSUME NEW a \in Cell, NEW b \in Cell, NEW c \in Cell
  PROVE  /\ <<>> \in Seq(Cell) /\ Len(<<>>) = 0
         /\ <<a>> \in Seq(Cell) /\ Len(<<a>>) = 1
         /\ <<a, b>> \in Seq(Cell) /\ Len(<<a, b>>) = 2
         /\ <<a, b, c>> \in Seq(Cell) /\ Len(<<a, b, c>>) = 3
OBVIOUS

\* the three words that take one or two cells and leave one
LEMMA OneCell ==
  ASSUME NEW a \in Cell, NEW take \in {1, 2}
  PROVE  Covered(Cells(take, 0, take, <<a>>))
<1>1. <<a>> \in Seq(Cell) /\ Len(<<a>>) = 1
  BY Tuples
<1>2. Gives(take, 0, take, Len(<<a>>))
  BY <1>1 DEF Gives
<1> QED BY <1>1, <1>2, CellsCovered

\* DUP, SWAP, OVER and the others check for the cells they take and leave.
LEMMA StackWords ==
  ASSUME NEW S, {S[1], S[2], S[3]} \subseteq Cell, NEW w \in ShuffleWords \ {"PICK", "ROLL"}
  PROVE  Covered(DataShuffle(w, S))
<1>1. PICK a \in Cell, b \in Cell, c \in Cell : a = S[1] /\ b = S[2] /\ c = S[3]
  OBVIOUS
<1>2. /\ <<>> \in Seq(Cell) /\ Len(<<>>) = 0
      /\ <<a, a>> \in Seq(Cell) /\ Len(<<a, a>>) = 2
      /\ <<b, a>> \in Seq(Cell) /\ Len(<<b, a>>) = 2
      /\ <<b, a, b>> \in Seq(Cell) /\ Len(<<b, a, b>>) = 3
      /\ <<c, a, b>> \in Seq(Cell) /\ Len(<<c, a, b>>) = 3
  BY Tuples
<1>3. PICK e : e = DataShuffle(w, S)
  OBVIOUS
<1>4. CASE w = "DUP"
  <2>1. e = Cells(1, 1, 1, <<a, a>>)
    BY <1>1, <1>3, <1>4 DEF DataShuffle
  <2>2. Gives(1, 1, 1, Len(<<a, a>>))
    BY <1>2 DEF Gives
  <2> QED BY <1>2, <1>3, <2>1, <2>2, CellsCovered
<1>5. CASE w = "DROP"
  <2>1. e = Cells(1, 0, 1, <<>>)
    BY <1>1, <1>3, <1>5 DEF DataShuffle
  <2>2. Gives(1, 0, 1, Len(<<>>))
    BY <1>2 DEF Gives
  <2> QED BY <1>2, <1>3, <2>1, <2>2, CellsCovered
<1>6. CASE w = "SWAP"
  <2>1. e = Cells(2, 0, 2, <<b, a>>)
    BY <1>1, <1>3, <1>6 DEF DataShuffle
  <2>2. Gives(2, 0, 2, Len(<<b, a>>))
    BY <1>2 DEF Gives
  <2> QED BY <1>2, <1>3, <2>1, <2>2, CellsCovered
<1>7. CASE w = "OVER"
  <2>1. e = Cells(2, 1, 2, <<b, a, b>>)
    BY <1>1, <1>3, <1>7 DEF DataShuffle
  <2>2. Gives(2, 1, 2, Len(<<b, a, b>>))
    BY <1>2 DEF Gives
  <2> QED BY <1>2, <1>3, <2>1, <2>2, CellsCovered
<1>8. CASE w = "ROT"
  <2>1. e = Cells(3, 0, 3, <<c, a, b>>)
    BY <1>1, <1>3, <1>8 DEF DataShuffle
  <2>2. Gives(3, 0, 3, Len(<<c, a, b>>))
    BY <1>2 DEF Gives
  <2> QED BY <1>2, <1>3, <2>1, <2>2, CellsCovered
<1> QED BY <1>4, <1>5, <1>6, <1>7, <1>8 DEF ShuffleWords

\* so do the four divisions, which reset when they divide by zero
LEMMA DivisionFits ==
  ASSUME NEW S, {S[1], S[2]} \subseteq Cell, NEW w \in {"/", "MOD", "U/", "UMOD"}
  PROVE  Covered(Division(w, S))
<1>1. PICK a \in Cell, b \in Cell : a = S[2] /\ b = S[1]
  OBVIOUS
<1>2. CASE b = 0
  <2>1. <<0>> \in Seq(Cell) /\ Len(<<0>>) = 1
    BY Sizes
  <2>2. Like(Division(w, S), Cells(2, 0, 2, <<0>>))
    BY <1>1, <1>2 DEF Division, Like, Cells, Nothing
  <2>3. Gives(2, 0, 2, Len(<<0>>))
    BY <2>1 DEF Gives
  <2> QED BY <2>1, <2>2, <2>3, CellsCovered, LikeCovered
<1>3. CASE b # 0
  <2>1. a \in Nat /\ b \in Nat \ {0} /\ Signed(a) \in Int /\ Signed(b) \in Int
    BY <1>3, SignedType
  <2>2. Signed(b) # 0
    BY <1>3, <2>1, Sizes DEF Signed, P
  <2>3. Quotient(Signed(a), Signed(b)) \in Int /\ Remainder(Signed(a), Signed(b)) \in Int
    BY <2>1, <2>2, QuotientType
  <2>4. a \div b \in Cell /\ a % b \in Cell
    <3>1. a \div b \in 0..a
      BY <2>1, DivWithin
    <3>2. a % b \in 0..(b - 1)
      BY <2>1, Dividing
    <3>3. PICK q, r : q = a \div b /\ r = a % b
      OBVIOUS
    <3>4. PICK p \in Nat : p = P /\ a < p /\ b < p
      <4>1. PICK p \in Nat : p = P /\ Cell = 0..(p - 1)
        BY CellIs
      <4> QED BY <4>1
    <3>5. q \in 0..a /\ r \in 0..(b - 1)
      BY <3>1, <3>2, <3>3
    <3>6. q \in 0..(p - 1) /\ r \in 0..(p - 1)
      BY <2>1, <3>4, <3>5
    <3> QED BY <3>3, <3>4, <3>6, Sizes
  <2>5. PICK x \in Cell : x = Divide(w, a, b)
    <3>1. CASE w = "/"
      BY <2>3, <3>1, WrapCell DEF Divide
    <3>2. CASE w = "MOD"
      BY <2>3, <3>2, WrapCell DEF Divide
    <3>3. CASE w = "U/"
      BY <2>4, <3>3 DEF Divide
    <3>4. CASE w = "UMOD"
      BY <2>4, <3>4 DEF Divide
    <3> QED BY <3>1, <3>2, <3>3, <3>4
  <2>7. Like(Division(w, S), Cells(2, 0, 2, <<x>>))
    BY <1>1, <1>3, <2>5 DEF Division, Like, Cells, Nothing
  <2>8. <<x>> \in Seq(Cell) /\ Len(<<x>>) = 1
    BY Tuples
  <2>9. Gives(2, 0, 2, Len(<<x>>))
    BY <2>8 DEF Gives
  <2> QED BY <2>7, <2>8, <2>9, CellsCovered, LikeCovered
<1> QED BY <1>2, <1>3

\* ... the words of single cell arithmetic
LEMMA ArithmeticFits ==
  ASSUME NEW S, {S[1], S[2]} \subseteq Cell, NEW w \in ArithmeticWords
  PROVE  Covered(Arithmetic(w, S))
<1>1. PICK a \in Nat, b \in Nat : a = S[2] /\ b = S[1]
  BY Sizes
<1>2. PICK x \in Int, y \in Int, z \in Int : x = a + b /\ y = a - b /\ z = a * b
  OBVIOUS
<1>3. Wrap(x) \in Cell /\ Wrap(y) \in Cell /\ Wrap(z) \in Cell
  BY WrapCell
<1>4. CASE w = "+"
  <2>1. Arithmetic(w, S) = Cells(2, 0, 2, <<Wrap(x)>>)
    BY <1>1, <1>2, <1>4 DEF Arithmetic
  <2> QED BY <1>3, <2>1, OneCell
<1>5. CASE w = "-"
  <2>1. Arithmetic(w, S) = Cells(2, 0, 2, <<Wrap(y)>>)
    BY <1>1, <1>2, <1>5 DEF Arithmetic
  <2> QED BY <1>3, <2>1, OneCell
<1>6. CASE w = "*"
  <2>1. Arithmetic(w, S) = Cells(2, 0, 2, <<Wrap(z)>>)
    BY <1>1, <1>2, <1>6 DEF Arithmetic
  <2> QED BY <1>3, <2>1, OneCell
<1>7. CASE w \notin {"+", "-", "*"}
  <2>1. w \in {"/", "MOD", "U/", "UMOD"}
    BY <1>7 DEF ArithmeticWords
  <2>2. Arithmetic(w, S) = Division(w, S)
    BY <2>1 DEF Arithmetic
  <2> QED BY <2>1, <2>2, DivisionFits
<1> QED BY <1>4, <1>5, <1>6, <1>7

\* ... those on bits and shifts
LEMMA LogicFits ==
  ASSUME NEW S, {S[1], S[2]} \subseteq Cell, NEW w \in LogicWords
  PROVE  Covered(Logic(w, S))
<1>1. PICK a \in Nat, b \in Nat : a = S[2] /\ b = S[1] /\ a < Power(2, Width)
  BY Sizes DEF P
<1>2. Width \in Nat \ {0}
  BY MachineSizes
<1>3. PICK x \in Cell, take \in {1, 2} : Logic(w, S) = Cells(take, 0, take, <<x>>)
  <2>1. CASE w = "INVERT"
    <3>1. PICK y \in Int : y = - S[1] - 1
      BY <1>1
    <3>2. Logic(w, S) = Cells(1, 0, 1, <<Wrap(y)>>)
      BY <2>1, <3>1 DEF Logic
    <3> QED BY <3>2, WrapCell
  <2>2. CASE w \in {"AND", "OR", "XOR"}
    <3>1. /\ And(a, b, Width) \in Cell /\ Or(a, b, Width) \in Cell /\ Xor(a, b, Width) \in Cell
      BY <1>2, BitOperations DEF Cell
    <3>2. CASE w = "AND"
      BY <1>1, <3>1, <3>2 DEF Logic
    <3>3. CASE w = "OR"
      BY <1>1, <3>1, <3>3 DEF Logic
    <3>4. CASE w = "XOR"
      BY <1>1, <3>1, <3>4 DEF Logic
    <3> QED BY <2>2, <3>2, <3>3, <3>4
  <2>3. CASE w \in {"LSHIFT", "RSHIFT", "ARSHIFT"}
    <3>1. ASSUME NEW u \in {"L", "R", "A"} PROVE Shifted(u, a, b, Width) \in Cell
      <4>1. Shifted(u, a, b, Width) \in Nat /\ Shifted(u, a, b, Width) < Power(2, Width)
        BY <1>1, <1>2, ShiftedType
      <4> QED BY <4>1, Sizes DEF P
    <3>2. CASE w = "LSHIFT"
      BY <1>1, <3>1, <3>2 DEF Logic
    <3>3. CASE w = "RSHIFT"
      BY <1>1, <3>1, <3>3 DEF Logic
    <3>4. CASE w = "ARSHIFT"
      BY <1>1, <3>1, <3>4 DEF Logic
    <3> QED BY <2>3, <3>2, <3>3, <3>4
  <2> QED BY <2>1, <2>2, <2>3 DEF LogicWords
<1> QED BY <1>3, OneCell

\* a comparison of two numbers is a truth value
LEMMA ComparedType ==
  ASSUME NEW w \in {"<", "<=", ">", ">=", "=", "<>"}, NEW a \in Int, NEW b \in Int
  PROVE  Compared(w, a, b) \in BOOLEAN
<1>1. CASE w = "<"
  BY <1>1 DEF Compared
<1>2. CASE w = "<="
  BY <1>2 DEF Compared
<1>3. CASE w = ">"
  BY <1>3 DEF Compared
<1>4. CASE w = ">="
  BY <1>4 DEF Compared
<1>5. CASE w = "="
  BY <1>5 DEF Compared
<1>6. CASE w = "<>"
  BY <1>6 DEF Compared
<1> QED BY <1>1, <1>2, <1>3, <1>4, <1>5, <1>6

\* ... the comparisons of cells
LEMMA ComparisonFits ==
  ASSUME NEW S, {S[1], S[2]} \subseteq Cell, NEW w \in ComparisonWords
  PROVE  Covered(Comparison(w, S))
<1>1. PICK a \in Nat, b \in Nat : a = S[2] /\ b = S[1]
  BY Sizes
<1>2. Signed(a) \in Int /\ Signed(b) \in Int
  BY <1>1, SignedType
<1>3. PICK p \in BOOLEAN : Comparison(w, S) = Cells(2, 0, 2, <<Flag(p)>>)
  <2>1. CASE w \in DOMAIN Unsigned
    <3>1. Unsigned[w] \in {"<", "<=", ">", ">="}
      BY <2>1 DEF Unsigned
    <3>2. Compared(Unsigned[w], a, b) \in BOOLEAN
      BY <3>1, ComparedType
    <3>3. Comparison(w, S) = Cells(2, 0, 2, <<Flag(Compared(Unsigned[w], a, b))>>)
      BY <1>1, <2>1, Zenon DEF Comparison
    <3> QED BY <3>2, <3>3
  <2>2. CASE w \notin DOMAIN Unsigned
    <3>1. w \in {"<", "<=", ">", ">=", "=", "<>"}
      BY <2>2 DEF Unsigned, ComparisonWords
    <3>2. Compared(w, Signed(a), Signed(b)) \in BOOLEAN
      BY <1>2, <3>1, ComparedType
    <3>3. Comparison(w, S) = Cells(2, 0, 2, <<Flag(Compared(w, Signed(a), Signed(b)))>>)
      BY <1>1, <2>2, Zenon DEF Comparison
    <3> QED BY <3>2, <3>3
  <2> QED BY <2>1, <2>2
<1> QED BY <1>3, FlagCell, OneCell

\* ... the float arithmetic
LEMMA FloatArithmeticFits == Covered(FloatArithmetic)
<1>1. Gives(2, 0, 2, 1)
  BY DEF Gives
<1> QED BY <1>1, FloatsCovered DEF FloatArithmetic

\* ... FDUP, FSWAP, FOVER and the others
LEMMA FloatStackWords ==
  ASSUME NEW S, NEW w \in FloatShuffleWords \ {"FPICK", "FROLL"}
  PROVE  Covered(FloatShuffle(w, S))
<1>1. Gives(1, 1, 1, 2) /\ Gives(1, 0, 1, 0) /\ Gives(2, 0, 2, 2) /\ Gives(2, 1, 2, 3)
      /\ Gives(3, 0, 3, 3)
  BY DEF Gives
<1>2. \/ FloatShuffle(w, S) = Floats(1, 1, 1, 2) \/ FloatShuffle(w, S) = Floats(1, 0, 1, 0)
      \/ FloatShuffle(w, S) = Floats(2, 0, 2, 2) \/ FloatShuffle(w, S) = Floats(2, 1, 2, 3)
      \/ FloatShuffle(w, S) = Floats(3, 0, 3, 3)
  BY Zenon DEF FloatShuffle, FloatShuffleWords
<1> QED BY <1>1, <1>2, FloatsCovered

\* an effect on the data and the float stack alone, D what it may leave on the first
Uses(e, dread, droom, D, fread, froom, fgive) ==
  /\ e.dread = dread /\ e.dtake = dread /\ e.droom = droom /\ e.dgive = D
  /\ e.fread = fread /\ e.ftake = fread /\ e.froom = froom /\ e.fgive = fgive
  /\ e.rread = 0 /\ e.rtake = 0 /\ e.rroom = 0 /\ e.rgive = <<>> /\ e.jump = {}

\* what may be left on the data stack is n cells
Leaves(D, n) == \A give \in D : give \in Seq(Cell) /\ Len(give) = n

\* an effect on the data and the float stack is covered if each of them is
LEMMA UsesCovered ==
  ASSUME NEW e, NEW dread \in 0..2, NEW droom \in 0..2, NEW D, NEW n \in 0..2,
         NEW fread \in 0..2, NEW froom \in 0..2, NEW fgive \in 0..2,
         Uses(e, dread, droom, D, fread, froom, fgive), Leaves(D, n),
         n <= dread + droom, fgive <= fread + froom
  PROVE  Covered(e)
<1>1. D \subseteq Seq(Cell) /\ \A give \in D : Len(give) <= dread + droom
  BY DEF Leaves
<1>2. <<>> \in Seq(Entries) /\ Len(<<>>) = 0
  OBVIOUS
<1> QED BY <1>1, <1>2 DEF Uses, Covered

\* ... the float comparisons, whichever flag they leave
LEMMA FloatComparisonFits == Covered(FloatComparison)
<1> DEFINE D == {<<Flag(TRUE)>>, <<Flag(FALSE)>>}
<1>1. Leaves(D, 1)
  <2>1. Flag(TRUE) \in Cell /\ Flag(FALSE) \in Cell
    BY FlagCell
  <2>2. PICK a \in Cell, b \in Cell : D = {<<a>>, <<b>>}
    BY <2>1
  <2> HIDE DEF D
  <2>3. \A give \in D : give = <<a>> \/ give = <<b>>
    BY <2>2
  <2>4. ASSUME NEW give \in D PROVE give \in Seq(Cell) /\ Len(give) = 1
    <3>1. PICK c \in Cell : give = <<c>>
      BY <2>3
    <3> QED BY <3>1
  <2> QED BY <2>4 DEF Leaves
<1>2. Uses(FloatComparison, 0, 1, D, 2, 0, 0)
  BY DEF FloatComparison, Floats, Nothing, Uses
<1> HIDE DEF D
<1> QED BY <1>1, <1>2, UsesCovered

\* a cell that comes from elsewhere is a cell
LEMMA AnythingType == Leaves(Anything, 1)
<1>1. ASSUME NEW give \in Anything PROVE give \in Seq(Cell) /\ Len(give) = 1
  <2>1. PICK x \in Cell : give = <<x>>
    BY MachineSizes DEF Anything, Cell
  <2> QED BY <2>1
<1> QED BY <1>1 DEF Leaves

\* ... and nothing is no cell
LEMMA NothingLeft == Leaves({<<>>}, 0)
BY DEF Leaves

\* ... the conversions between cells, double cells and floats
LEMMA ConversionFits ==
  ASSUME NEW S, NEW w \in ConversionWords
  PROVE  Covered(Conversion(w, S))
<1>1. CASE w = "S>F"
  <2>1. Uses(Conversion(w, S), 1, 0, {<<>>}, 0, 1, 1)
    <3>1. Conversion(w, S) = [Cells(1, 0, 1, <<>>) EXCEPT !.froom = 1, !.fgive = 1]
      BY <1>1 DEF Conversion
    <3> QED BY <3>1 DEF Cells, Nothing, Uses
  <2> QED BY <2>1, NothingLeft, UsesCovered
<1>2. CASE w = "D>F"
  <2>1. Uses(Conversion(w, S), 2, 0, {<<>>}, 0, 1, 1)
    <3>1. Conversion(w, S) = [Cells(2, 0, 2, <<>>) EXCEPT !.froom = 1, !.fgive = 1]
      BY <1>2 DEF Conversion
    <3> QED BY <3>1 DEF Cells, Nothing, Uses
  <2> QED BY <2>1, NothingLeft, UsesCovered
<1>3. CASE w = "F>S"
  <2>1. Uses(Conversion(w, S), 0, 1, Anything, 1, 0, 0)
    <3>1. Conversion(w, S) = [Floats(1, 0, 1, 0) EXCEPT !.droom = 1, !.dgive = Anything]
      BY <1>3 DEF Conversion
    <3> QED BY <3>1 DEF Floats, Nothing, Uses
  <2> QED BY <2>1, AnythingType, UsesCovered
<1>4. CASE w = "F>D"
  <2> DEFINE D == {<<x, y>> : x, y \in Given}
  <2>1. Leaves(D, 2)
    <3>1. ASSUME NEW give \in D PROVE give \in Seq(Cell) /\ Len(give) = 2
      <4>1. PICK x \in Given, y \in Given : give = <<x, y>>
        OBVIOUS
      <4>2. x \in Cell /\ y \in Cell
        BY MachineSizes DEF Cell
      <4> QED BY <4>1, <4>2
    <3> QED BY <3>1 DEF Leaves
  <2>2. Uses(Conversion(w, S), 0, 2, D, 1, 0, 0)
    <3>1. Conversion(w, S) = [Floats(1, 0, 1, 0) EXCEPT !.droom = 2, !.dgive = D]
      BY <1>4 DEF Conversion
    <3> HIDE DEF D
    <3> QED BY <3>1 DEF Floats, Nothing, Uses
  <2> HIDE DEF D
  <2> QED BY <2>1, <2>2, UsesCovered
<1> QED BY <1>1, <1>2, <1>3, <1>4 DEF ConversionWords

\* the words on memory
LEMMA MemoryFits ==
  Covered(CellFetch) /\ Covered(CellStore) /\ Covered(FloatFetch) /\ Covered(FloatStore)
    /\ Covered(Push)
<1>1. Uses(CellFetch, 1, 0, Anything, 0, 0, 0)
  BY DEF CellFetch, Cells, Nothing, Uses
<1>2. Uses(CellStore, 2, 0, {<<>>}, 0, 0, 0)
  BY DEF CellStore, Cells, Nothing, Uses
<1>3. Uses(FloatFetch, 1, 0, {<<>>}, 0, 1, 1)
  BY DEF FloatFetch, Cells, Nothing, Uses
<1>4. Uses(FloatStore, 1, 0, {<<>>}, 1, 0, 0)
  BY DEF FloatStore, Cells, Nothing, Uses
<1>5. Uses(Push, 0, 1, Anything, 0, 0, 0)
  BY DEF Push, Cells, Nothing, Uses
<1>6. Covered(CellFetch) /\ Covered(Push)
  BY <1>1, <1>5, AnythingType, UsesCovered
<1>7. Covered(CellStore) /\ Covered(FloatFetch)
  BY <1>2, <1>3, NothingLeft, UsesCovered
<1>8. Covered(FloatStore)
  BY <1>4, NothingLeft, UsesCovered
<1> QED BY <1>6, <1>7, <1>8

\* a word that takes two to four cells and leaves a double cell checks enough
LEMMA TwoHalves ==
  ASSUME NEW d \in Int, NEW take \in {2, 3, 4}
  PROVE  Covered(Cells(take, 0, take, Halves(d)))
<1>1. PICK h \in Seq(Cell) : h = Halves(d) /\ Len(h) = 2
  BY HalvesType
<1>2. Gives(take, 0, take, Len(h))
  BY <1>1 DEF Gives
<1> QED BY <1>1, <1>2, CellsCovered

\* ... the double cell arithmetic, its four divisions included
LEMMA DoubleArithmeticFits ==
  ASSUME NEW S, {S[1], S[2], S[3], S[4]} \subseteq Cell, NEW w \in DoubleArithmeticWords
  PROVE  Covered(DoubleArithmetic(w, S))
<1>1. PICK a \in Int : a = SignedDouble(S, 3)
  BY DoubleType
<1>2. PICK b \in Int : b = SignedDouble(S, 1)
  BY DoubleType
<1>3. PICK u \in Nat, v \in Nat : u = Double(S, 3) /\ v = Double(S, 1)
  BY DoubleType
<1>4. b # 0 => v # 0
  <2>1. CASE v = 0
    <3>1. 0 < Power(2, 2 * Width - 1)
      <4>1. 2 * Width - 1 \in Nat
        BY MachineSizes
      <4> QED BY <4>1, PowerOfTwo
    <3> QED BY <1>2, <1>3, <2>1, <3>1 DEF SignedDouble
  <2> QED BY <2>1
<1>5. PICK d \in Int : Like(DoubleArithmetic(w, S), Cells(4, 0, 4, Halves(d)))
  <2>1. ASSUME NEW d \in Int, DoubleArithmetic(w, S) = Cells(4, 0, 4, Halves(d))
        PROVE  Like(DoubleArithmetic(w, S), Cells(4, 0, 4, Halves(d)))
    BY <2>1 DEF Like
  <2>2. CASE w = "D+"
    <3>1. DoubleArithmetic(w, S) = Cells(4, 0, 4, Halves(a + b))
      BY <1>1, <1>2, <2>2 DEF DoubleArithmetic
    <3>2. PICK d \in Int : d = a + b
      OBVIOUS
    <3> QED BY <2>1, <3>1, <3>2
  <2>3. CASE w = "D-"
    <3>1. DoubleArithmetic(w, S) = Cells(4, 0, 4, Halves(a - b))
      BY <1>1, <1>2, <2>3 DEF DoubleArithmetic
    <3>2. PICK d \in Int : d = a - b
      OBVIOUS
    <3> QED BY <2>1, <3>1, <3>2
  <2>4. CASE w = "D*"
    <3>1. DoubleArithmetic(w, S) = Cells(4, 0, 4, Halves(a * b))
      BY <1>1, <1>2, <2>4 DEF DoubleArithmetic
    <3>2. PICK d \in Int : d = a * b
      OBVIOUS
    <3> QED BY <2>1, <3>1, <3>2
  <2>5. CASE w \in {"D/", "DMOD", "DU/", "DUMOD"} /\ b = 0
    <3>1. DoubleArithmetic(w, S) = [Cells(4, 0, 4, Halves(0)) EXCEPT !.ok = FALSE]
      BY <1>2, <2>5 DEF DoubleArithmetic
    <3>2. Like(DoubleArithmetic(w, S), Cells(4, 0, 4, Halves(0)))
      BY <3>1 DEF Like, Cells, Nothing
    <3> QED BY <3>2
  <2>6. CASE b # 0 /\ w = "D/"
    <3>1. PICK d \in Int : d = Quotient(a, b)
      BY <2>6, QuotientType
    <3> QED BY <1>1, <1>2, <2>1, <2>6, <3>1 DEF DoubleArithmetic
  <2>7. CASE b # 0 /\ w = "DMOD"
    <3>1. PICK d \in Int : d = Remainder(a, b)
      BY <2>7, QuotientType
    <3> QED BY <1>1, <1>2, <2>1, <2>7, <3>1 DEF DoubleArithmetic
  <2>8. CASE b # 0 /\ w = "DU/"
    <3>1. PICK d \in Int : d = u \div v
      BY <1>4, <2>8, Dividing
    <3> QED BY <1>2, <1>3, <2>1, <2>8, <3>1 DEF DoubleArithmetic
  <2>9. CASE b # 0 /\ w = "DUMOD"
    <3>1. PICK d \in Int : d = u % v
      BY <1>4, <2>9, Dividing
    <3> QED BY <1>2, <1>3, <2>1, <2>9, <3>1 DEF DoubleArithmetic
  <2> QED BY <2>2, <2>3, <2>4, <2>5, <2>6, <2>7, <2>8, <2>9 DEF DoubleArithmeticWords
<1> QED BY <1>5, TwoHalves, LikeCovered

\* ... the double cell words on bits and shifts
LEMMA DoubleLogicFits ==
  ASSUME NEW S, {S[1], S[2], S[3], S[4]} \subseteq Cell, NEW w \in DoubleLogicWords
  PROVE  Covered(DoubleLogic(w, S))
<1>1. PICK u \in Nat, v \in Nat : u = Double(S, 3) /\ v = Double(S, 1)
  BY DoubleType
<1>2. PICK x \in Nat : x = Double(S, 2)
  BY DoubleType
<1>3. PICK n \in Nat : n = S[1]
  BY CellIs
<1>0. PICK width \in Nat \ {0} : width = 2 * Width
  BY MachineSizes
<1>4. PICK d \in Int, take \in {2, 3, 4} : DoubleLogic(w, S) = Cells(take, 0, take, Halves(d))
  <2>1. CASE w = "DINVERT"
    <3>1. PICK d \in Int : d = - v - 1
      OBVIOUS
    <3>2. DoubleLogic(w, S) = Cells(2, 0, 2, Halves(d))
      BY <1>0, <1>1, <2>1, <3>1 DEF DoubleLogic
    <3> QED BY <3>2
  <2>2. CASE w = "DAND"
    <3>1. PICK d \in Int : d = And(u, v, width)
      BY BitOperations
    <3>2. DoubleLogic(w, S) = Cells(4, 0, 4, Halves(d))
      BY <1>0, <1>1, <2>2, <3>1 DEF DoubleLogic
    <3> QED BY <3>2
  <2>3. CASE w = "DOR"
    <3>1. PICK d \in Int : d = Or(u, v, width)
      BY BitOperations
    <3>2. DoubleLogic(w, S) = Cells(4, 0, 4, Halves(d))
      BY <1>0, <1>1, <2>3, <3>1 DEF DoubleLogic
    <3> QED BY <3>2
  <2>4. CASE w = "DXOR"
    <3>1. PICK d \in Int : d = Xor(u, v, width)
      BY BitOperations
    <3>2. DoubleLogic(w, S) = Cells(4, 0, 4, Halves(d))
      BY <1>0, <1>1, <2>4, <3>1 DEF DoubleLogic
    <3> QED BY <3>2
  <2>5. CASE w = "DLSHIFT"
    <3>1. PICK d \in Int : d = Shifted("L", x, n, width)
      BY ShiftedType
    <3>2. DoubleLogic(w, S) = Cells(3, 0, 3, Halves(d))
      BY <1>0, <1>2, <1>3, <2>5, <3>1 DEF DoubleLogic
    <3> QED BY <3>2
  <2>6. CASE w = "DRSHIFT"
    <3>1. PICK d \in Int : d = Shifted("R", x, n, width)
      BY ShiftedType
    <3>2. DoubleLogic(w, S) = Cells(3, 0, 3, Halves(d))
      BY <1>0, <1>2, <1>3, <2>6, <3>1 DEF DoubleLogic
    <3> QED BY <3>2
  <2>7. CASE w = "DARSHIFT"
    <3>1. PICK d \in Int : d = Shifted("A", x, n, width)
      BY ShiftedType
    <3>2. DoubleLogic(w, S) = Cells(3, 0, 3, Halves(d))
      BY <1>0, <1>2, <1>3, <2>7, <3>1 DEF DoubleLogic
    <3> QED BY <3>2
  <2> QED BY <2>1, <2>2, <2>3, <2>4, <2>5, <2>6, <2>7 DEF DoubleLogicWords
<1> QED BY <1>4, TwoHalves

\* ... the double cell comparisons
LEMMA DoubleComparisonFits ==
  ASSUME NEW S, {S[1], S[2], S[3], S[4]} \subseteq Cell, NEW w \in DoubleComparisonWords
  PROVE  Covered(DoubleComparison(w, S))
<1>1. PICK u \in Int, v \in Int : u = Double(S, 3) /\ v = Double(S, 1)
  BY DoubleType
<1>2. PICK a \in Int, b \in Int : a = SignedDouble(S, 3) /\ b = SignedDouble(S, 1)
  BY DoubleType
<1>3. PICK p \in BOOLEAN : DoubleComparison(w, S) = Cells(4, 0, 4, <<Flag(p)>>)
  <2>1. CASE w \in DOMAIN UnsignedOf
    <3>1. UnsignedOf[w] \in {"<", "<=", ">", ">="}
      BY <2>1 DEF UnsignedOf
    <3>2. Compared(UnsignedOf[w], u, v) \in BOOLEAN
      BY <3>1, ComparedType
    <3>3. DoubleComparison(w, S) = Cells(4, 0, 4, <<Flag(Compared(UnsignedOf[w], u, v))>>)
      BY <1>1, <2>1, Zenon DEF DoubleComparison
    <3> QED BY <3>2, <3>3
  <2>2. CASE w \notin DOMAIN UnsignedOf
    <3>1. w \in DOMAIN SingleOf
      BY <2>2 DEF DoubleComparisonWords
    <3>2. SingleOf[w] \in {"<", "<=", ">", ">=", "=", "<>"}
      BY <3>1 DEF SingleOf
    <3>3. Compared(SingleOf[w], a, b) \in BOOLEAN
      BY <1>2, <3>2, ComparedType
    <3>4. DoubleComparison(w, S) = Cells(4, 0, 4, <<Flag(Compared(SingleOf[w], a, b))>>)
      BY <1>2, <2>2, Zenon DEF DoubleComparison
    <3> QED BY <3>3, <3>4
  <2> QED BY <2>1, <2>2
<1>4. PICK f \in Cell : f = Flag(p)
  BY FlagCell
<1>5. <<f>> \in Seq(Cell) /\ Len(<<f>>) = 1
  BY Tuples
<1>6. Gives(4, 0, 4, Len(<<f>>))
  BY <1>5 DEF Gives
<1> QED BY <1>3, <1>4, <1>5, <1>6, CellsCovered

\* an effect on the data and the return stack alone; J is where it may go
Shifts(e, dread, droom, D, rread, rroom, rtake, R, J) ==
  /\ e.dread = dread /\ e.dtake = dread /\ e.droom = droom /\ e.dgive = D
  /\ e.fread = 0 /\ e.ftake = 0 /\ e.froom = 0 /\ e.fgive = 0
  /\ e.rread = rread /\ e.rtake = rtake /\ e.rroom = rroom /\ e.rgive = R /\ e.jump = J

\* what it reads covers what it takes, and the room what it leaves
Provides(dread, droom, D, n, rread, rroom, rtake, R, J) ==
  /\ {dread, droom, n, rread, rroom, rtake} \subseteq Nat
  /\ Leaves(D, n) /\ n <= dread + droom
  /\ R \in Seq(Entries) /\ rtake <= rread /\ Len(R) <= rtake + rroom
  /\ J \subseteq Int

\* an effect on the data and the return stack is covered if each of them is
LEMMA ShiftsCovered ==
  ASSUME NEW e, NEW dread, NEW droom, NEW D, NEW n, NEW rread, NEW rroom, NEW rtake,
         NEW R, NEW J, Shifts(e, dread, droom, D, rread, rroom, rtake, R, J),
         Provides(dread, droom, D, n, rread, rroom, rtake, R, J)
  PROVE  Covered(e)
<1>1. D \subseteq Seq(Cell) /\ \A give \in D : Len(give) <= dread + droom
  BY DEF Leaves, Provides
<1> QED BY <1>1 DEF Shifts, Covered, Provides

\* one entry of the return stack
LEMMA OneEntry ==
  ASSUME NEW entry \in Entries
  PROVE  <<entry>> \in Seq(Entries) /\ Len(<<entry>>) = 1
OBVIOUS

\* ... and none
LEMMA NoEntry == <<>> \in Seq(Entries) /\ Len(<<>>) = 0
OBVIOUS

\* ... the words between the data and the return stack
LEMMA ReturnFits ==
  ASSUME NEW m \in Machines, NEW S, S[1] \in Cell, NEW w \in ReturnWords
  PROVE  Covered(ReturnShuffle(w, S, m))
<1> DEFINE cell == IF m.ret # <<>> /\ m.ret[1] \in Kept THEN {<<m.ret[1].cell>>} ELSE Anything
<1>1. Leaves(cell, 1)
  <2>1. CASE m.ret # <<>> /\ m.ret[1] \in Kept
    <3>1. PICK x \in Cell : x = m.ret[1].cell
      BY <2>1 DEF Kept
    <3>2. cell = {<<x>>}
      BY <2>1, <3>1
    <3>3. <<x>> \in Seq(Cell) /\ Len(<<x>>) = 1
      BY Tuples
    <3> HIDE DEF cell
    <3> QED BY <3>2, <3>3 DEF Leaves
  <2>2. CASE ~ (m.ret # <<>> /\ m.ret[1] \in Kept)
    <3>1. cell = Anything
      BY <2>2
    <3> HIDE DEF cell
    <3> QED BY <3>1, AnythingType
  <2> QED BY <2>1, <2>2
<1>2. CASE w = ">R"
  <2>1. PICK entry \in Entries : entry = [cell |-> S[1]]
    BY DEF Entries, Kept
  <2>2. ReturnShuffle(w, S, m) = [Cells(1, 0, 1, <<>>) EXCEPT !.rroom = 1, !.rgive = <<entry>>]
    BY <1>2, <2>1 DEF ReturnShuffle
  <2>3. Shifts(ReturnShuffle(w, S, m), 1, 0, {<<>>}, 0, 1, 0, <<entry>>, {})
    BY <2>2 DEF Cells, Nothing, Shifts
  <2>4. Provides(1, 0, {<<>>}, 0, 0, 1, 0, <<entry>>, {})
    BY OneEntry, NothingLeft DEF Provides
  <2> QED BY <2>3, <2>4, ShiftsCovered
<1>3. CASE w = "R>"
  <2>1. ReturnShuffle(w, S, m) =
          [Cells(0, 1, 0, <<>>) EXCEPT !.rread = 1, !.rtake = 1, !.dgive = cell]
    BY <1>3 DEF ReturnShuffle
  <2> HIDE DEF cell
  <2>2. Shifts(ReturnShuffle(w, S, m), 0, 1, cell, 1, 0, 1, <<>>, {})
    BY <2>1 DEF Cells, Nothing, Shifts
  <2>3. Provides(0, 1, cell, 1, 1, 0, 1, <<>>, {})
    BY <1>1, NoEntry DEF Provides
  <2> QED BY <2>2, <2>3, ShiftsCovered
<1>4. CASE w = "R@"
  <2>1. ReturnShuffle(w, S, m) = [Cells(0, 1, 0, <<>>) EXCEPT !.rread = 1, !.dgive = cell]
    BY <1>4 DEF ReturnShuffle
  <2> HIDE DEF cell
  <2>2. Shifts(ReturnShuffle(w, S, m), 0, 1, cell, 1, 0, 0, <<>>, {})
    BY <2>1 DEF Cells, Nothing, Shifts
  <2>3. Provides(0, 1, cell, 1, 1, 0, 0, <<>>, {})
    BY <1>1, NoEntry DEF Provides
  <2> QED BY <2>2, <2>3, ShiftsCovered
<1> QED BY <1>2, <1>3, <1>4 DEF ReturnWords

\* the words that test their own room: what they take, leave and where they go
Acts(e, dtake, D, ftake, fgive, rtake, R, J) ==
  /\ e.dtake = dtake /\ e.dgive = D /\ e.ftake = ftake /\ e.fgive = fgive
  /\ e.rtake = rtake /\ e.rgive = R /\ e.jump = J

Suits(dtake, D, n, ftake, fgive, rtake, R, k, J) ==
  /\ {dtake, n, ftake, fgive, rtake} \subseteq Nat
  /\ Leaves(D, n) /\ R \in Seq(Entries) /\ Len(R) = k /\ J \subseteq Int

\* the stacks of m have what is taken and the room for what is left
Room(m, dtake, n, ftake, fgive, rtake, k) ==
  /\ dtake <= Len(m.data) /\ Len(m.data) - dtake + n <= DataSize
  /\ ftake <= m.float /\ m.float - ftake + fgive <= FloatSize
  /\ rtake <= Len(m.ret) /\ Len(m.ret) - rtake + k <= RetSize

\* a word that checks what it does by itself fits where it does so
LEMMA ActsFits ==
  ASSUME NEW m, NEW e, NEW dtake, NEW D, NEW n, NEW ftake, NEW fgive, NEW rtake, NEW R, NEW k,
         NEW J, Acts(e, dtake, D, ftake, fgive, rtake, R, J),
         Suits(dtake, D, n, ftake, fgive, rtake, R, k, J),
         e.ok => Room(m, dtake, n, ftake, fgive, rtake, k)
  PROVE  Fits(e, m)
<1>1. D \subseteq Seq(Cell) /\ \A give \in D : Len(give) = n
  BY DEF Leaves, Suits
<1>2. ASSUME e.ok PROVE StaysInside(e, m)
  BY <1>1, <1>2 DEF Acts, StaysInside, Suits, Room
<1> QED BY <1>1, <1>2 DEF Acts, Fits, Suits

\* the depths of the stacks are numbers within their sizes
LEMMA Depths ==
  ASSUME NEW m \in Machines, Sized(m)
  PROVE  /\ Len(m.data) \in 0..DataSize /\ m.float \in 0..FloatSize /\ Len(m.ret) \in 0..RetSize
         /\ DataSize \in Nat /\ FloatSize \in Nat /\ RetSize \in Nat /\ m.ip \in Int
BY MachineSizes DEF Machines, Sized

\* a literal checks for the room of its cell
LEMMA LiteralFits ==
  ASSUME NEW m \in Machines, Sized(m), NEW x \in Given
  PROVE  Fits(Literal(x, m), m)
<1>1. Acts(Literal(x, m), 0, {<<x>>}, 0, 0, 0, <<>>, {m.ip + 2})
  BY DEF Literal, Cells, Nothing, Acts
<1>2. Literal(x, m).ok <=> Len(m.data) < DataSize
  BY DEF Literal, Cells, Nothing
<1>3. Leaves({<<x>>}, 1)
  <2>1. x \in Cell
    BY MachineSizes DEF Cell
  <2>2. <<x>> \in Seq(Cell) /\ Len(<<x>>) = 1
    BY <2>1, Tuples
  <2> QED BY <2>2 DEF Leaves
<1>4. Suits(0, {<<x>>}, 1, 0, 0, 0, <<>>, 0, {m.ip + 2})
  BY <1>3, NoEntry, Depths DEF Suits
<1>5. Literal(x, m).ok => Room(m, 0, 1, 0, 0, 0, 0)
  BY <1>2, Depths DEF Room
<1> QED BY <1>1, <1>4, <1>5, ActsFits

\* Branches, calls, returns and loops stay inside the stacks.
LEMMA ControlFits ==
  ASSUME NEW m \in Machines, Sized(m), m.ip \in Code, NEW w \in ControlWords
  PROVE  Fits(Control(w, m), m)
<1>1. ReturnAddress(m) \in Entries /\ Code \subseteq Int
  BY MachineSizes DEF ReturnAddress, Entries, Addresses, Code
<1>2. PICK entry \in Entries : entry = ReturnAddress(m)
  BY <1>1
<1>3. <<entry>> \in Seq(Entries) /\ Len(<<entry>>) = 1
  BY OneEntry
<1>4. CASE w = "docol"
  <2>1. Control(w, m) = [Nothing EXCEPT
           !.ok = Len(m.ret) < RetSize, !.rgive = <<entry>>, !.jump = Code]
    BY <1>2, <1>4 DEF Control
  <2>2. Acts(Control(w, m), 0, {<<>>}, 0, 0, 0, <<entry>>, Code)
    BY <2>1 DEF Nothing, Acts
  <2>3. Suits(0, {<<>>}, 0, 0, 0, 0, <<entry>>, 1, Code)
    BY <1>1, <1>3, NothingLeft DEF Suits
  <2>4. Control(w, m).ok => Room(m, 0, 0, 0, 0, 0, 1)
    <3>1. Control(w, m).ok <=> Len(m.ret) < RetSize
      BY <2>1 DEF Nothing
    <3> QED BY <3>1, Depths DEF Room
  <2> QED BY <2>2, <2>3, <2>4, ActsFits
<1>5. CASE w = "does"
  <2>1. Control(w, m) = [Cells(0, 0, 0, <<>>) EXCEPT
           !.ok = Len(m.data) < DataSize /\ Len(m.ret) < RetSize,
           !.dgive = Anything, !.rgive = <<entry>>, !.jump = Code]
    BY <1>2, <1>5 DEF Control
  <2>2. Acts(Control(w, m), 0, Anything, 0, 0, 0, <<entry>>, Code)
    BY <2>1 DEF Cells, Nothing, Acts
  <2>3. Suits(0, Anything, 1, 0, 0, 0, <<entry>>, 1, Code)
    BY <1>1, <1>3, AnythingType DEF Suits
  <2>4. Control(w, m).ok => Room(m, 0, 1, 0, 0, 0, 1)
    <3>1. Control(w, m).ok <=> Len(m.data) < DataSize /\ Len(m.ret) < RetSize
      BY <2>1 DEF Cells, Nothing
    <3> QED BY <3>1, Depths DEF Room
  <2> QED BY <2>2, <2>3, <2>4, ActsFits
<1>6. CASE w = "EXIT"
  <2> DEFINE J == IF m.ret # <<>> /\ m.ret[1] \in Addresses THEN {m.ret[1].to} ELSE Code
  <2>1. J \subseteq Int
    <3>1. m.ret # <<>> /\ m.ret[1] \in Addresses => m.ret[1].to \in Int
      <4>1. ASSUME NEW a \in Addresses PROVE a.to \in Int
        BY MachineSizes DEF Addresses
      <4> QED BY <4>1
    <3> QED BY <1>1, <3>1
  <2>2. Control(w, m) = [Nothing EXCEPT !.ok = m.ret # <<>>, !.rtake = 1, !.jump = J]
    BY <1>6 DEF Control
  <2> HIDE DEF J
  <2>3. Acts(Control(w, m), 0, {<<>>}, 0, 0, 1, <<>>, J)
    BY <2>2 DEF Nothing, Acts
  <2>4. Suits(0, {<<>>}, 0, 0, 0, 1, <<>>, 0, J)
    BY <2>1, NoEntry, NothingLeft DEF Suits
  <2>5. Control(w, m).ok => Room(m, 0, 0, 0, 0, 1, 0)
    <3>1. Control(w, m).ok <=> m.ret # <<>>
      BY <2>2 DEF Nothing
    <3>2. m.ret # <<>> => Len(m.ret) >= 1
      BY DEF Machines
    <3> QED BY <3>1, <3>2, Depths DEF Room
  <2> QED BY <2>3, <2>4, <2>5, ActsFits
<1>7. CASE w = "data"
  <2>1. Control(w, m) = [Push EXCEPT !.droom = 0, !.ok = Len(m.data) < DataSize]
    BY <1>7 DEF Control
  <2>2. Acts(Control(w, m), 0, Anything, 0, 0, 0, <<>>, {})
    BY <2>1 DEF Push, Cells, Nothing, Acts
  <2>3. Suits(0, Anything, 1, 0, 0, 0, <<>>, 0, {})
    BY NoEntry, AnythingType DEF Suits
  <2>4. Control(w, m).ok => Room(m, 0, 1, 0, 0, 0, 0)
    <3>1. Control(w, m).ok <=> Len(m.data) < DataSize
      BY <2>1 DEF Push, Cells, Nothing
    <3> QED BY <3>1, Depths DEF Room
  <2> QED BY <2>2, <2>3, <2>4, ActsFits
<1>8. CASE w = "BRANCH"
  <2>1. Control(w, m) = [Nothing EXCEPT !.jump = Code]
    BY <1>8 DEF Control
  <2>2. Shifts(Control(w, m), 0, 0, {<<>>}, 0, 0, 0, <<>>, Code)
    BY <2>1 DEF Nothing, Shifts
  <2>3. Provides(0, 0, {<<>>}, 0, 0, 0, 0, <<>>, Code)
    BY <1>1, NoEntry, NothingLeft DEF Provides
  <2> QED BY <2>2, <2>3, ShiftsCovered, CoveredFits
<1>9. CASE w = "?BRANCH"
  <2> DEFINE J == IF m.data # <<>> /\ m.data[1] = 0 THEN Code ELSE {m.ip + 2}
  <2>1. J \subseteq Int
    <3>1. PICK i \in Int : i = m.ip
      BY Depths
    <3>2. J \in {Code, {i + 2}}
      BY <3>1
    <3> HIDE DEF J
    <3> QED BY <1>1, <3>2
  <2>2. Control(w, m) = [Cells(1, 0, 1, <<>>) EXCEPT !.jump = J]
    BY <1>9 DEF Control
  <2> HIDE DEF J
  <2>3. Shifts(Control(w, m), 1, 0, {<<>>}, 0, 0, 0, <<>>, J)
    BY <2>2 DEF Cells, Nothing, Shifts
  <2>4. Provides(1, 0, {<<>>}, 0, 0, 0, 0, <<>>, J)
    BY <2>1, NoEntry, NothingLeft DEF Provides
  <2> QED BY <2>3, <2>4, ShiftsCovered, CoveredFits
<1>10. CASE w = "(FLITERAL)"
  <2>1. Control(w, m) = [Nothing EXCEPT
           !.ok = m.float < FloatSize, !.fgive = 1, !.jump = {m.ip + 2}]
    BY <1>10 DEF Control
  <2>2. Acts(Control(w, m), 0, {<<>>}, 0, 1, 0, <<>>, {m.ip + 2})
    BY <2>1 DEF Nothing, Acts
  <2>3. Suits(0, {<<>>}, 0, 0, 1, 0, <<>>, 0, {m.ip + 2})
    BY NoEntry, NothingLeft, Depths DEF Suits
  <2>4. Control(w, m).ok => Room(m, 0, 0, 0, 1, 0, 0)
    <3>1. Control(w, m).ok <=> m.float < FloatSize
      BY <2>1 DEF Nothing
    <3> QED BY <3>1, Depths DEF Room
  <2> QED BY <2>2, <2>3, <2>4, ActsFits
<1> QED BY <1>4, <1>5, <1>6, <1>7, <1>8, <1>9, <1>10 DEF ControlWords

\* where an index leads, and that it is no farther than the index
LEMMA ReachType ==
  ASSUME NEW x \in Nat
  PROVE  /\ Reach(x) \in Nat /\ Reach(x) < P
         /\ x < Space => Reach(x) = x
<1>1. PICK space \in Nat \ {0} : space = Space /\ space <= P
  BY AddressSpace DEF P
<1>2. PICK y : y = x % space
  OBVIOUS
<1>3. y \in 0..(space - 1)
  BY <1>2, Dividing
<1>4. x < space => y = x
  BY <1>2, ModSmall
<1>5. Reach(x) = y
  BY <1>1, <1>2 DEF Reach
<1>6. P \in Nat
  BY Sizes
<1> QED BY <1>1, <1>3, <1>4, <1>5, <1>6

\* the index a word finds on the stack
LEMMA IndexType ==
  ASSUME NEW m \in Machines
  PROVE  TopOf(m)[1] \in Nat /\ TopOf(m)[1] < P
<1>1. PICK x \in Cell : x = TopOf(m)[1]
  BY TopType
<1>2. x \in Nat /\ x < P
  BY Sizes
<1> QED BY <1>1, <1>2

\* the cells a word takes from below its index, one of them first
LEMMA Picked ==
  ASSUME NEW m \in Machines, NEW n \in Nat, NEW k \in 1..(P + 2), n <= P + 2,
         NEW give, give = [i \in 1..n |-> IF i = 1 THEN TopOf(m)[k] ELSE TopOf(m)[i]]
  PROVE  give \in Seq(Cell) /\ Len(give) = n
<1>1. ASSUME NEW i \in 1..n PROVE i \in 1..(P + 2)
  <2>1. PICK p \in Nat : p = P
    BY Sizes
  <2> QED BY <2>1
<1>2. ASSUME NEW i \in 1..n PROVE TopOf(m)[k] \in Cell /\ TopOf(m)[i] \in Cell
  BY <1>1, TopType
<1>3. give \in [1..n -> Cell]
  BY <1>2
<1> QED BY <1>3, LenProperties

\* PICK reads its index first and then checks for all the cells under it.
LEMMA PickFits ==
  ASSUME NEW m \in Machines, Sized(m)
  PROVE  Fits(DataShuffle("PICK", TopOf(m)), m)
<1>1. PICK x \in Nat : x = TopOf(m)[1] /\ x < P
  BY IndexType
<1>2. PICK y \in Nat : y = Reach(x + 1) /\ y < P /\ (x + 1 < Space => y = x + 1)
  BY ReachType
<1>3. PICK n \in Nat : n = y + 1 /\ n \in 1..(P + 2) /\ n <= P + 2
  BY <1>2, Sizes
<1>4. PICK give : give = [i \in 1..n |-> IF i = 1 THEN TopOf(m)[n] ELSE TopOf(m)[i]]
  OBVIOUS
<1>5. give \in Seq(Cell) /\ Len(give) = n
  BY <1>3, <1>4, Picked
<1>6. PICK e : e = DataShuffle("PICK", TopOf(m))
  OBVIOUS
<1>7. e = Cells(x + 2, 0, n, give)
  BY <1>1, <1>2, <1>3, <1>4, <1>6 DEF DataShuffle
<1>8. /\ e.dread = x + 2 /\ e.droom = 0 /\ e.dtake = n /\ e.dgive = {give} /\ e.fread = 0
      /\ e.froom = 0 /\ e.ftake = 0 /\ e.fgive = 0 /\ e.rread = 0 /\ e.rroom = 0
      /\ e.rtake = 0 /\ e.rgive = <<>> /\ e.jump = {}
  BY <1>7 DEF Cells, Nothing
<1>9. ASSUME Debug, Verified(e, m), ~ Wraps(e) PROVE StaysInside(e, m)
  <2>1. x + 2 <= DataBase + 1 /\ CanRead(DataBase, Len(m.data), x + 2)
    BY <1>8, <1>9, Bases DEF Wraps, Verified
  <2>2. Len(m.data) \in Int /\ x + 2 \in Nat \ {0}
    BY Depths
  <2>3. x + 2 <= Len(m.data)
    BY <2>1, <2>2, Bases, ReadFits
  <2>4. n = x + 2
    BY <1>2, <1>3, <2>1, Bases
  <2>5. n <= Len(m.data) /\ Len(m.data) - n + n <= DataSize
    <3>1. PICK depth \in 0..DataSize : depth = Len(m.data)
      BY Depths
    <3>2. PICK size \in Nat : size = DataSize /\ depth <= size
      BY <3>1, Bases
    <3>3. n <= depth /\ depth - n + n <= size
      <4>1. n <= depth
        BY <2>3, <2>4, <3>1
      <4>2. depth - n + n = depth
        BY <3>1
      <4> QED BY <3>2, <4>1, <4>2
    <3> QED BY <3>1, <3>2, <3>3
  <2>6. 0 <= m.float /\ m.float - 0 + 0 <= FloatSize
        /\ 0 <= Len(m.ret) /\ Len(m.ret) - 0 + Len(<<>>) <= RetSize
    BY NoEntry, Depths
  <2> QED BY <1>5, <1>8, <2>5, <2>6 DEF StaysInside
<1>10. {give} \subseteq Seq(Cell) /\ {} \subseteq Int
  BY <1>5
<1>11. /\ e.dtake \in Nat /\ e.ftake \in Nat /\ e.rtake \in Nat /\ e.fgive \in Nat
       /\ e.dgive \subseteq Seq(Cell) /\ e.rgive \in Seq(Entries) /\ e.jump \subseteq Int
  BY <1>3, <1>8, <1>10, NoEntry
<1>12. Fits(e, m)
  BY <1>9, <1>11, Zenon DEF Fits
<1> QED BY <1>6, <1>12

\* ... and ROLL takes it away before it checks
LEMMA RollFits ==
  ASSUME NEW m \in Machines, Sized(m)
  PROVE  Fits(DataShuffle("ROLL", TopOf(m)), m)
<1>1. PICK x \in Nat : x = TopOf(m)[1] /\ x < P
  BY IndexType
<1>2. PICK n \in Nat, k \in Nat : n = x + 1 /\ k = x + 2 /\ k \in 1..(P + 2) /\ n <= P + 2
  <2>1. PICK p \in Nat : p = P
    BY Sizes
  <2>2. x + 1 \in Nat /\ x + 2 \in 1..(p + 2) /\ x + 1 <= p + 2
    BY <1>1, <2>1
  <2> QED BY <2>1, <2>2
<1>4. PICK give : give = [i \in 1..n |-> IF i = 1 THEN TopOf(m)[k] ELSE TopOf(m)[i]]
  OBVIOUS
<1>5. give \in Seq(Cell) /\ Len(give) = n
  BY <1>2, <1>4, Picked
<1>6. PICK e : e = DataShuffle("ROLL", TopOf(m))
  OBVIOUS
<1>7. e = [Cells(1, 0, k, give) EXCEPT !.dnext = n]
  BY <1>1, <1>2, <1>4, <1>6 DEF DataShuffle
<1>8. /\ e.dread = 1 /\ e.dnext = n /\ e.droom = 0 /\ e.dtake = k /\ e.dgive = {give}
      /\ e.fread = 0 /\ e.froom = 0 /\ e.ftake = 0 /\ e.fgive = 0 /\ e.rread = 0
      /\ e.rroom = 0 /\ e.rtake = 0 /\ e.rgive = <<>> /\ e.jump = {}
  BY <1>7 DEF Cells, Nothing
<1>9. ASSUME Debug, Verified(e, m), ~ Wraps(e) PROVE StaysInside(e, m)
  <2>1. n <= DataBase + 1 /\ CanRead(DataBase, Len(m.data) - 1, n)
    BY <1>8, <1>9, Bases DEF Wraps, Verified
  <2>2. Len(m.data) - 1 \in Int /\ n \in Nat \ {0}
    BY <1>2, Depths
  <2>3. n <= Len(m.data) - 1
    BY <2>1, <2>2, Bases, ReadFits
  <2>5. k <= Len(m.data) /\ Len(m.data) - k + n <= DataSize
    <3>1. PICK depth \in 0..DataSize : depth = Len(m.data)
      BY Depths
    <3>2. PICK size \in Nat : size = DataSize /\ depth <= size
      BY <3>1, Bases
    <3>3. k <= depth /\ depth - k + n <= size
      <4>1. n <= depth - 1
        BY <2>3, <3>1
      <4>2. depth \in Int /\ k = n + 1
        BY <1>2, <3>1, Bases
      <4>3. k <= depth /\ depth - k + n = depth - 1
        BY <4>1, <4>2
      <4> QED BY <3>2, <4>2, <4>3
    <3> QED BY <3>1, <3>2, <3>3
  <2>6. 0 <= m.float /\ m.float - 0 + 0 <= FloatSize
        /\ 0 <= Len(m.ret) /\ Len(m.ret) - 0 + Len(<<>>) <= RetSize
    BY NoEntry, Depths
  <2> QED BY <1>5, <1>8, <2>5, <2>6 DEF StaysInside
<1>10. {give} \subseteq Seq(Cell) /\ {} \subseteq Int
  BY <1>5
<1>11. /\ e.dtake \in Nat /\ e.ftake \in Nat /\ e.rtake \in Nat /\ e.fgive \in Nat
       /\ e.dgive \subseteq Seq(Cell) /\ e.rgive \in Seq(Entries) /\ e.jump \subseteq Int
  BY <1>2, <1>8, <1>10, NoEntry
<1>12. Fits(e, m)
  BY <1>9, <1>11, Zenon DEF Fits
<1> QED BY <1>6, <1>12

\* ... as do FPICK, where there is room for what it leaves, and FROLL
LEMMA FloatIndexFits ==
  ASSUME NEW w \in {"FPICK", "FROLL"}, NEW m \in Machines, Sized(m), Lawful(w, m)
  PROVE  Fits(FloatShuffle(w, TopOf(m)), m)
<1>1. PICK x \in Nat : x = TopOf(m)[1] /\ x < P
  BY IndexType
<1>2. PICK y \in Nat : y = (IF w = "FPICK" THEN Reach(x) ELSE x) /\ (x < Space => y = x)
  BY ReachType
<1>3. PICK n \in Nat : n = (IF w = "FPICK" THEN y + 2 ELSE y + 1)
  OBVIOUS
<1>4. PICK e : e = FloatShuffle(w, TopOf(m))
  OBVIOUS
<1>5. e = [Floats(x + 1, 0, y + 1, n) EXCEPT !.dread = 1, !.dtake = 1]
  BY <1>1, <1>2, <1>3, <1>4 DEF FloatShuffle
<1>6. /\ e.dread = 1 /\ e.droom = 0 /\ e.dtake = 1 /\ e.dgive = {<<>>} /\ e.fread = x + 1
      /\ e.froom = 0 /\ e.ftake = y + 1 /\ e.fgive = n /\ e.rread = 0 /\ e.rroom = 0
      /\ e.rtake = 0 /\ e.rgive = <<>> /\ e.jump = {}
  BY <1>5 DEF Floats, Nothing
<1>7. {<<>>} \subseteq Seq(Cell) /\ \A give \in {<<>>} : Len(give) = 0
  OBVIOUS
<1>8. w = "FPICK" => m.float < FloatSize
  BY DEF Lawful
<1>9. ASSUME Debug, Verified(e, m), ~ Wraps(e) PROVE StaysInside(e, m)
  <2>1. /\ x + 1 <= FloatBase + 1 /\ CanRead(FloatBase, m.float, x + 1)
        /\ CanRead(DataBase, Len(m.data), 1)
    BY <1>6, <1>9, Bases DEF Wraps, Verified
  <2>2. m.float \in Int /\ Len(m.data) \in Int /\ x + 1 \in Nat \ {0}
    BY Depths
  <2>3. x + 1 <= m.float
    BY <2>1, <2>2, Bases, ReadFits
  <2>4. 1 <= Len(m.data)
    <3>1. PICK depth \in Int : depth = Len(m.data)
      BY <2>2
    <3>9. PICK cells \in Nat \ {0} : cells = 1
      OBVIOUS
    <3>2. cells <= DataBase + 1 /\ CanRead(DataBase, depth, cells)
      BY <2>1, <3>9, <3>1, Bases
    <3>3. cells <= depth
      BY <3>2, Bases, ReadFits
    <3> QED BY <3>9, <3>1, <3>3
  <2>5. y = x
    BY <1>2, <2>1, Bases
  <2>6. 1 <= Len(m.data) /\ Len(m.data) - 1 + 0 <= DataSize
    BY <2>4, Depths
  <2>7. y + 1 <= m.float /\ m.float - (y + 1) + n <= FloatSize
    BY <1>3, <1>8, <2>3, <2>5, Depths
  <2>8. 0 <= Len(m.ret) /\ Len(m.ret) - 0 + Len(<<>>) <= RetSize
    BY NoEntry, Depths
  <2> QED BY <1>6, <1>7, <2>6, <2>7, <2>8 DEF StaysInside
<1> QED BY <1>4, <1>6, <1>7, <1>9, NoEntry DEF Fits

\* whatever a word does, it fits the machine that may run it
LEMMA EffectFits ==
  ASSUME NEW w \in Words, NEW m \in Machines, Sized(m), m.ip \in Code, Lawful(w, m)
  PROVE  Fits(Effect(w, m), m)
<1>1. PICK S : S = TopOf(m) /\ {S[1], S[2], S[3], S[4]} \subseteq Cell
  BY TopType
<1>2. CASE w \in ShuffleWords
  <2>1. Effect(w, m) = DataShuffle(w, S)
    BY <1>1, <1>2 DEF Effect, TopOf, ShuffleWords, ArithmeticWords, LogicWords, ComparisonWords, FloatShuffleWords,
       ConversionWords, FloatArithmeticWords, FloatComparisonWords, DoubleArithmeticWords,
       DoubleLogicWords, DoubleComparisonWords, ReturnWords, ControlWords, SingleOf, UnsignedOf
  <2>2. CASE w = "PICK"
    BY <1>1, <2>1, <2>2, PickFits
  <2>3. CASE w = "ROLL"
    BY <1>1, <2>1, <2>3, RollFits
  <2>4. CASE w \notin {"PICK", "ROLL"}
    BY <1>1, <1>2, <2>1, <2>4, StackWords, CoveredFits
  <2> QED BY <2>2, <2>3, <2>4
<1>3. CASE w \in ArithmeticWords
  <2>1. Effect(w, m) = Arithmetic(w, S)
    BY <1>1, <1>3 DEF Effect, TopOf, ShuffleWords, ArithmeticWords, LogicWords, ComparisonWords, FloatShuffleWords,
       ConversionWords, FloatArithmeticWords, FloatComparisonWords, DoubleArithmeticWords,
       DoubleLogicWords, DoubleComparisonWords, ReturnWords, ControlWords, SingleOf, UnsignedOf
  <2> QED BY <1>3, <2>1, <1>1, ArithmeticFits, CoveredFits
<1>4. CASE w \in LogicWords
  <2>1. Effect(w, m) = Logic(w, S)
    BY <1>1, <1>4 DEF Effect, TopOf, ShuffleWords, ArithmeticWords, LogicWords, ComparisonWords, FloatShuffleWords,
       ConversionWords, FloatArithmeticWords, FloatComparisonWords, DoubleArithmeticWords,
       DoubleLogicWords, DoubleComparisonWords, ReturnWords, ControlWords, SingleOf, UnsignedOf
  <2> QED BY <1>4, <2>1, <1>1, LogicFits, CoveredFits
<1>5. CASE w \in ComparisonWords
  <2>1. Effect(w, m) = Comparison(w, S)
    BY <1>1, <1>5 DEF Effect, TopOf, ShuffleWords, ArithmeticWords, LogicWords, ComparisonWords, FloatShuffleWords,
       ConversionWords, FloatArithmeticWords, FloatComparisonWords, DoubleArithmeticWords,
       DoubleLogicWords, DoubleComparisonWords, ReturnWords, ControlWords, SingleOf, UnsignedOf
  <2> QED BY <1>5, <2>1, <1>1, ComparisonFits, CoveredFits
<1>6. CASE w \in FloatShuffleWords
  <2>1. Effect(w, m) = FloatShuffle(w, S)
    BY <1>1, <1>6 DEF Effect, TopOf, ShuffleWords, ArithmeticWords, LogicWords, ComparisonWords, FloatShuffleWords,
       ConversionWords, FloatArithmeticWords, FloatComparisonWords, DoubleArithmeticWords,
       DoubleLogicWords, DoubleComparisonWords, ReturnWords, ControlWords, SingleOf, UnsignedOf
  <2>2. CASE w \in {"FPICK", "FROLL"}
    BY <1>1, <2>1, <2>2, FloatIndexFits
  <2>3. CASE w \notin {"FPICK", "FROLL"}
    BY <1>6, <2>1, <2>3, FloatStackWords, CoveredFits
  <2> QED BY <2>2, <2>3
<1>7. CASE w \in ConversionWords
  <2>1. Effect(w, m) = Conversion(w, S)
    BY <1>1, <1>7 DEF Effect, TopOf, ShuffleWords, ArithmeticWords, LogicWords, ComparisonWords, FloatShuffleWords,
       ConversionWords, FloatArithmeticWords, FloatComparisonWords, DoubleArithmeticWords,
       DoubleLogicWords, DoubleComparisonWords, ReturnWords, ControlWords, SingleOf, UnsignedOf
  <2> QED BY <1>7, <2>1, ConversionFits, CoveredFits
<1>8. CASE w \in FloatArithmeticWords
  <2>1. Effect(w, m) = FloatArithmetic
    BY <1>1, <1>8 DEF Effect, TopOf, ShuffleWords, ArithmeticWords, LogicWords, ComparisonWords, FloatShuffleWords,
       ConversionWords, FloatArithmeticWords, FloatComparisonWords, DoubleArithmeticWords,
       DoubleLogicWords, DoubleComparisonWords, ReturnWords, ControlWords, SingleOf, UnsignedOf
  <2> QED BY <1>8, <2>1, FloatArithmeticFits, CoveredFits
<1>9. CASE w \in FloatComparisonWords
  <2>1. Effect(w, m) = FloatComparison
    BY <1>1, <1>9 DEF Effect, TopOf, ShuffleWords, ArithmeticWords, LogicWords, ComparisonWords, FloatShuffleWords,
       ConversionWords, FloatArithmeticWords, FloatComparisonWords, DoubleArithmeticWords,
       DoubleLogicWords, DoubleComparisonWords, ReturnWords, ControlWords, SingleOf, UnsignedOf
  <2> QED BY <1>9, <2>1, FloatComparisonFits, CoveredFits
<1>10. CASE w \in DoubleArithmeticWords
  <2>1. Effect(w, m) = DoubleArithmetic(w, S)
    BY <1>1, <1>10 DEF Effect, TopOf, ShuffleWords, ArithmeticWords, LogicWords, ComparisonWords, FloatShuffleWords,
       ConversionWords, FloatArithmeticWords, FloatComparisonWords, DoubleArithmeticWords,
       DoubleLogicWords, DoubleComparisonWords, ReturnWords, ControlWords, SingleOf, UnsignedOf
  <2> QED BY <1>10, <2>1, <1>1, DoubleArithmeticFits, CoveredFits
<1>11. CASE w \in DoubleLogicWords
  <2>1. Effect(w, m) = DoubleLogic(w, S)
    BY <1>1, <1>11 DEF Effect, TopOf, ShuffleWords, ArithmeticWords, LogicWords, ComparisonWords, FloatShuffleWords,
       ConversionWords, FloatArithmeticWords, FloatComparisonWords, DoubleArithmeticWords,
       DoubleLogicWords, DoubleComparisonWords, ReturnWords, ControlWords, SingleOf, UnsignedOf
  <2> QED BY <1>11, <2>1, <1>1, DoubleLogicFits, CoveredFits
<1>12. CASE w \in DoubleComparisonWords
  <2>1. Effect(w, m) = DoubleComparison(w, S)
    BY <1>1, <1>12 DEF Effect, TopOf, ShuffleWords, ArithmeticWords, LogicWords, ComparisonWords, FloatShuffleWords,
       ConversionWords, FloatArithmeticWords, FloatComparisonWords, DoubleArithmeticWords,
       DoubleLogicWords, DoubleComparisonWords, ReturnWords, ControlWords, SingleOf, UnsignedOf
  <2> QED BY <1>12, <2>1, <1>1, DoubleComparisonFits, CoveredFits
<1>13. CASE w \in ReturnWords
  <2>1. Effect(w, m) = ReturnShuffle(w, S, m)
    BY <1>1, <1>13 DEF Effect, TopOf, ShuffleWords, ArithmeticWords, LogicWords, ComparisonWords, FloatShuffleWords,
       ConversionWords, FloatArithmeticWords, FloatComparisonWords, DoubleArithmeticWords,
       DoubleLogicWords, DoubleComparisonWords, ReturnWords, ControlWords, SingleOf, UnsignedOf
  <2> QED BY <1>13, <2>1, <1>1, ReturnFits, CoveredFits
<1>14. CASE w \in ControlWords
  <2>1. Effect(w, m) = Control(w, m)
    BY <1>1, <1>14 DEF Effect, TopOf, ShuffleWords, ArithmeticWords, LogicWords, ComparisonWords, FloatShuffleWords,
       ConversionWords, FloatArithmeticWords, FloatComparisonWords, DoubleArithmeticWords,
       DoubleLogicWords, DoubleComparisonWords, ReturnWords, ControlWords, SingleOf, UnsignedOf
  <2> QED BY <1>14, <2>1, ControlFits
<1>15. CASE w \in MemoryWords
  <2>1. Effect(w, m) \in {CellFetch, CellStore, FloatFetch, FloatStore, Push}
    BY <1>15 DEF Effect, MemoryWords, ShuffleWords, ArithmeticWords, LogicWords, ComparisonWords, FloatShuffleWords,
       ConversionWords, FloatArithmeticWords, FloatComparisonWords, DoubleArithmeticWords,
       DoubleLogicWords, DoubleComparisonWords, ReturnWords, ControlWords, SingleOf, UnsignedOf
  <2> QED BY <2>1, MemoryFits, CoveredFits
<1> QED BY <1>2, <1>3, <1>4, <1>5, <1>6, <1>7, <1>8, <1>9, <1>10, <1>11, <1>12, <1>13, <1>14, <1>15 DEF Words

-----------------------------------------------------------------------------
(* The machines after an effect.                                           *)

\* a stack from which entries are taken and on which others are left
LEMMA ReplacedType ==
  ASSUME NEW T, NEW s \in Seq(T), NEW give \in Seq(T), NEW take \in 0..Len(s)
  PROVE  /\ Replaced(s, take, give) \in Seq(T)
         /\ Len(Replaced(s, take, give)) = Len(s) - take + Len(give)
<1>1. take + 1 \in Int /\ Len(s) \in Nat /\ Len(give) \in Nat /\ take \in Nat /\ take <= Len(s)
  OBVIOUS
<1>2. SubSeq(s, take + 1, Len(s)) \in Seq(T)
      /\ Len(SubSeq(s, take + 1, Len(s))) = Len(s) - take
  <2>1. \A i \in (take + 1)..Len(s) : s[i] \in T
    BY <1>1
  <2>2. /\ SubSeq(s, take + 1, Len(s)) \in Seq(T)
        /\ Len(SubSeq(s, take + 1, Len(s))) =
             IF take + 1 <= Len(s) THEN Len(s) - (take + 1) + 1 ELSE 0
    BY <1>1, <2>1, SubSeqProperties
  <2>3. PICK n \in Nat : n = Len(s)
    BY <1>1
  <2>4. (IF take + 1 <= n THEN n - (take + 1) + 1 ELSE 0) = n - take
    BY <1>1, <2>3
  <2> QED BY <2>2, <2>3, <2>4
<1>3. PICK rest : rest = SubSeq(s, take + 1, Len(s))
  OBVIOUS
<1>4. rest \in Seq(T) /\ Len(rest) = Len(s) - take
  BY <1>2, <1>3
<1>5. give \o rest \in Seq(T) /\ Len(give \o rest) = Len(give) + Len(rest)
  BY <1>4, ConcatProperties
<1>6. Len(give) + Len(rest) = Len(s) - take + Len(give)
  BY <1>1, <1>4
<1>7. Replaced(s, take, give) = give \o rest
  BY <1>3 DEF Replaced
<1> QED BY <1>5, <1>6, <1>7

\* an effect that fits leaves a machine whose stacks hold no more than they may, and
\* in a DEBUG build nothing outside them was touched past a check that did not wrap
LEMMA AfterFits ==
  ASSUME NEW m \in Machines, Sized(m), NEW e, Fits(e, m), NEW x \in After(e, m)
  PROVE  /\ x \in Machines /\ Sized(x)
         /\ Debug /\ m.state # "stray" => x.state # "stray"
<1>1. CASE x = Reset(m)
  <2>1. Nowhere \in Entries
    BY DEF Entries
  <2>2. x = [data |-> <<>>, float |-> 0, ret |-> <<Nowhere>>, ip |-> 0, state |-> "runs"]
    BY <1>1 DEF Reset
  <2>3. <<>> \in Seq(Cell) /\ Len(<<>>) = 0 /\ <<Nowhere>> \in Seq(Entries)
        /\ Len(<<Nowhere>>) = 1
    BY <2>1
  <2>4. 0 <= DataSize /\ 0 <= FloatSize /\ 1 <= RetSize
    BY MachineSizes
  <2> QED BY <2>2, <2>3, <2>4 DEF Machines, Sized
<1>2. CASE Verified(e, m) /\ e.ok /\ ~ StaysInside(e, m)
           /\ x = [m EXCEPT !.state = IF Wraps(e) THEN "wild" ELSE "stray"]
  <2>1. CASE Wraps(e)
    BY <1>2, <2>1 DEF Machines, Sized
  <2>2. CASE ~ Wraps(e)
    <3>1. ~ Debug
      BY <1>2, <2>2 DEF Fits
    <3> QED BY <1>2, <2>2, <3>1 DEF Machines, Sized
  <2> QED BY <2>1, <2>2
<1>3. CASE x = [m EXCEPT !.state = "trap"]
  BY <1>3 DEF Machines, Sized
<1>4. CASE /\ StaysInside(e, m)
           /\ \E give \in e.dgive, next \in IF e.jump = {} THEN {m.ip + 1} ELSE e.jump :
                x = [data |-> Replaced(m.data, e.dtake, give),
                     float |-> m.float - e.ftake + e.fgive,
                     ret |-> Replaced(m.ret, e.rtake, e.rgive),
                     ip |-> next, state |-> "runs"]
  <2>1. PICK give \in e.dgive, next \in IF e.jump = {} THEN {m.ip + 1} ELSE e.jump :
          x = [data |-> Replaced(m.data, e.dtake, give),
               float |-> m.float - e.ftake + e.fgive,
               ret |-> Replaced(m.ret, e.rtake, e.rgive),
               ip |-> next, state |-> "runs"]
    BY <1>4
  <2>2. PICK data \in Seq(Cell) : data = Replaced(m.data, e.dtake, give) /\ Len(data) <= DataSize
    <3>1. m.data \in Seq(Cell) /\ give \in Seq(Cell) /\ e.dtake \in 0..Len(m.data)
      <4>1. m.data \in Seq(Cell)
        BY DEF Machines
      <4>2. e.dtake \in Nat /\ give \in Seq(Cell)
        BY DEF Fits
      <4>3. e.dtake <= Len(m.data)
        BY <1>4 DEF StaysInside
      <4> QED BY <4>1, <4>2, <4>3
    <3>2. Len(m.data) - e.dtake + Len(give) <= DataSize
      BY <1>4 DEF StaysInside
    <3> QED BY <3>1, <3>2, ReplacedType
  <2>3. PICK ret \in Seq(Entries) : ret = Replaced(m.ret, e.rtake, e.rgive) /\ Len(ret) <= RetSize
    <3>1. m.ret \in Seq(Entries) /\ e.rgive \in Seq(Entries) /\ e.rtake \in 0..Len(m.ret)
      BY <1>4 DEF Machines, Fits, StaysInside
    <3>2. Len(m.ret) - e.rtake + Len(e.rgive) <= RetSize
      BY <1>4 DEF StaysInside
    <3> QED BY <3>1, <3>2, ReplacedType
  <2>4. PICK float \in Nat : float = m.float - e.ftake + e.fgive /\ float <= FloatSize
    <3>1. PICK f \in Nat, t \in Nat, g \in Nat : f = m.float /\ t = e.ftake /\ g = e.fgive
      BY DEF Machines, Fits
    <3>2. t <= f /\ f - t + g <= FloatSize
      BY <1>4, <3>1 DEF StaysInside
    <3>3. f - t + g \in Nat
      BY <3>2
    <3> QED BY <3>1, <3>2, <3>3
  <2>5. next \in Int
    BY <2>1 DEF Machines, Fits
  <2>6. x = [data |-> data, float |-> float, ret |-> ret, ip |-> next, state |-> "runs"]
    BY <2>1, <2>2, <2>3, <2>4
  <2> QED BY <2>2, <2>3, <2>4, <2>5, <2>6 DEF Machines, Sized
<1>5. CASE ~ Verified(e, m) \/ ~ e.ok
  BY <1>1, <1>5 DEF After
<1>6. CASE Verified(e, m) /\ e.ok /\ ~ StaysInside(e, m)
  BY <1>2, <1>6 DEF After
<1>7. CASE Verified(e, m) /\ e.ok /\ StaysInside(e, m)
  <2>1. CASE e.trap
    BY <1>3, <1>7, <2>1 DEF After
  <2>2. CASE ~ e.trap
    <3>1. x \in {[data |-> Replaced(m.data, e.dtake, give),
                  float |-> m.float - e.ftake + e.fgive,
                  ret |-> Replaced(m.ret, e.rtake, e.rgive),
                  ip |-> next, state |-> "runs"] :
                   give \in e.dgive, next \in IF e.jump = {} THEN {m.ip + 1} ELSE e.jump}
      BY <1>7, <2>2 DEF After
    <3> QED BY <1>4, <1>7, <3>1
  <2> QED BY <2>1, <2>2
<1> QED BY <1>5, <1>6, <1>7

-----------------------------------------------------------------------------
(* The invariant.                                                          *)

\* The stacks hold cells, floats, addresses and no more of them than they may, the
\* task is at a cell of its code, and in a DEBUG build it has touched nothing else but
\* past a check whose address had wrapped.
IInv ==
  /\ machine \in Machines /\ Sized(machine) /\ machine.ip \in Code
  /\ vocabulary \in Vocabularies
  /\ ChecksSuffice

\* It holds of a machine that has not begun,
LEMMA InitIInv == Init => IInv
<1> SUFFICES ASSUME Init PROVE IInv
  OBVIOUS
<1>1. machine = [data |-> <<>>, float |-> 0, ret |-> <<Nowhere>>, ip |-> 0, state |-> "runs"]
      /\ vocabulary \in Vocabularies
  BY DEF Init
<1>2. <<>> \in Seq(Cell) /\ Len(<<>>) = 0 /\ <<Nowhere>> \in Seq(Entries)
      /\ Len(<<Nowhere>>) = 1
  BY DEF Entries
<1>3. 0 <= DataSize /\ 0 <= FloatSize /\ 1 <= RetSize /\ 0 \in Code
  BY MachineSizes DEF Code
<1> QED BY <1>1, <1>2, <1>3 DEF IInv, Machines, Sized, ChecksSuffice

\* a machine the task becomes after an effect that fits
LEMMA BecomeIInv ==
  ASSUME IInv, Running, NEW m \in Machines, Sized(m), m.state = "runs",
         NEW e, Fits(e, m), NEW x \in After(e, m), Become(x)
  PROVE  IInv'
<1>1. x \in Machines /\ Sized(x) /\ (Debug => x.state # "stray")
  BY AfterFits
<1>2. machine' = x /\ x.ip \in Code /\ vocabulary' = vocabulary
  BY DEF Become
<1>3. Sized(machine)'
  BY <1>1, <1>2 DEF Sized
<1> QED BY <1>1, <1>2, <1>3 DEF IInv, ChecksSuffice

\* so does every word of the vocabulary,
LEMMA RunIInv ==
  ASSUME IInv, NEW w \in Words, Run(w)
  PROVE  IInv'
<1> DEFINE e == Effect(w, machine)
<1>1. machine \in Machines /\ Sized(machine) /\ machine.ip \in Code /\ machine.state = "runs"
      /\ Lawful(w, machine)
  BY DEF IInv, Run, Running
<1>2. Fits(e, machine)
  BY <1>1, EffectFits
<1>3. PICK m \in After(e, machine) :
        Become(IF w = "F<=" /\ Verified(e, machine) THEN [m EXCEPT !.ip = machine.ip] ELSE m)
  BY DEF Run
<1> HIDE DEF e
<1>4. m \in Machines /\ Sized(m) /\ (Debug => m.state # "stray")
  BY <1>1, <1>2, AfterFits
<1>5. PICK x : x = IF w = "F<=" /\ Verified(e, machine) THEN [m EXCEPT !.ip = machine.ip] ELSE m
  OBVIOUS
<1>6. x \in Machines /\ Sized(x) /\ (Debug => x.state # "stray")
  BY <1>1, <1>4, <1>5 DEF Machines, Sized
<1>7. machine' = x /\ x.ip \in Code /\ vocabulary' = vocabulary
  BY <1>3, <1>5 DEF Become
<1>8. Sized(machine)'
  BY <1>6, <1>7 DEF Sized
<1> QED BY <1>6, <1>7, <1>8 DEF IInv, ChecksSuffice

\* every literal
LEMMA RunLiteralIInv ==
  ASSUME IInv, NEW x \in Given, RunLiteral(x)
  PROVE  IInv'
<1>1. machine \in Machines /\ Sized(machine) /\ machine.state = "runs"
  BY DEF IInv, RunLiteral, Running
<1>2. Fits(Literal(x, machine), machine)
  BY <1>1, LiteralFits
<1>3. PICK m \in After(Literal(x, machine), machine) : Become(m)
  BY DEF RunLiteral
<1> QED BY <1>1, <1>2, <1>3, BecomeIInv DEF Running

\* and every word that EXECUTE takes from the data stack.
LEMMA ExecuteIInv ==
  ASSUME IInv, NEW w \in Words, Execute(w)
  PROVE  IInv'
<1>1. machine \in Machines /\ Sized(machine) /\ machine.ip \in Code /\ machine.state = "runs"
      /\ vocabulary \in Vocabularies
  BY DEF IInv, Execute, Running
<1>2. CASE machine.data = <<>> /\ Debug
  <2>1. machine' = Reset(machine) /\ vocabulary' = vocabulary
    BY <1>2 DEF Execute, Become
  <2>2. <<>> \in Seq(Cell) /\ Len(<<>>) = 0 /\ <<Nowhere>> \in Seq(Entries)
        /\ Len(<<Nowhere>>) = 1
    BY DEF Entries
  <2>3. 0 <= DataSize /\ 0 <= FloatSize /\ 1 <= RetSize /\ 0 \in Code
    BY MachineSizes DEF Code
  <2> QED BY <1>1, <2>1, <2>2, <2>3 DEF IInv, Reset, Machines, Sized, ChecksSuffice
<1>3. CASE ~ (machine.data = <<>> /\ Debug)
  <2>1. PICK popped : popped = [machine EXCEPT !.data = Tail(@)]
    OBVIOUS
  <2>2. machine.data # <<>> /\ Lawful(w, popped)
        /\ \E m \in After(Effect(w, popped), popped) : Become(m)
    BY <1>3, <2>1 DEF Execute
  <2>3. popped \in Machines /\ Sized(popped) /\ popped.ip \in Code /\ popped.state = "runs"
    <3>1. Tail(machine.data) \in Seq(Cell) /\ Len(Tail(machine.data)) <= DataSize
      <4>1. machine.data \in Seq(Cell) /\ Len(machine.data) <= DataSize
        BY <1>1 DEF Machines, Sized
      <4>2. Tail(machine.data) \in Seq(Cell) /\ Len(Tail(machine.data)) = Len(machine.data) - 1
        BY <2>2, <4>1, HeadTailProperties
      <4>3. Len(machine.data) \in Nat /\ DataSize \in Nat
        BY <4>1, MachineSizes
      <4> QED BY <4>1, <4>2, <4>3
    <3>2. PICK data : data = Tail(machine.data)
      OBVIOUS
    <3>3. data \in Seq(Cell) /\ Len(data) <= DataSize
      BY <3>1, <3>2
    <3>4. popped = [machine EXCEPT !.data = data]
      BY <2>1, <3>2
    <3> QED BY <1>1, <3>3, <3>4 DEF Machines, Sized
  <2>4. PICK e : e = Effect(w, popped) /\ Fits(e, popped)
    BY <2>3, <2>2, EffectFits
  <2>5. PICK m \in After(e, popped) : Become(m)
    BY <2>2, <2>4
  <2> QED BY <1>1, <2>3, <2>4, <2>5, BecomeIInv DEF Running
<1> QED BY <1>2, <1>3

\* So every step keeps the invariant.
LEMMA NextIInv == IInv /\ [Next]_vars => IInv'
<1> SUFFICES ASSUME IInv, [Next]_vars PROVE IInv'
  OBVIOUS
<1>1. vocabulary \ {"(LITERAL)", "EXECUTE"} \subseteq Words
  BY KnownWords DEF IInv
<1>2. ASSUME NEW w \in vocabulary \ {"(LITERAL)", "EXECUTE"}, Run(w) PROVE IInv'
  BY <1>1, <1>2, RunIInv
<1>3. ASSUME NEW x \in Given, RunLiteral(x) PROVE IInv'
  BY <1>3, RunLiteralIInv
<1>4. ASSUME NEW w \in vocabulary \ {"(LITERAL)", "EXECUTE"}, Execute(w) PROVE IInv'
  BY <1>1, <1>4, ExecuteIInv
<1>5. CASE UNCHANGED vars
  BY <1>5 DEF vars, IInv, Sized, ChecksSuffice
<1> QED BY <1>2, <1>3, <1>4, <1>5 DEF Next

\* the inductive invariant holds in every state
THEOREM SpecInv == Spec => []IInv
BY InitIInv, NextIInv, PTL DEF Spec

\* ChecksSuffice, for cells of any width, stacks of any size at any base, any index
\* and any words
THEOREM SpecChecksSuffice == Spec => []ChecksSuffice
<1>1. IInv => ChecksSuffice
  BY DEF IInv
<1> QED BY <1>1, SpecInv, PTL

-----------------------------------------------------------------------------
(* A call comes back.                                                      *)

\* what one word makes of the machines M
Stage(M, word) ==
  UNION {IF x.state # "runs" THEN {x}
         ELSE After(IF word[1] = "(LITERAL)" THEN Literal(word[2], x)
                    ELSE Effect(word[1], x), x) : x \in M}

\* the machines r[k] there may be after k of the n words of p, from m
Traces(r, p, n, m) ==
  /\ r[0] = {m} /\ Results(p, m) = r[n]
  /\ \A k \in 0..(n - 1) : r[k + 1] = Stage(r[k], p[k + 1])

\* The results of a program of n words are made word by word.
LEMMA ResultsSteps ==
  ASSUME NEW p, NEW n \in Nat, DOMAIN p = 1..n, NEW m
  PROVE  \E r : Traces(r, p, n, m)
<1> DEFINE A == 1..n
           Folds(g, B) == \A s \in SUBSET B :
                            g[s] = IF s = {} THEN {m} ELSE Stage(g[s \ {Max(s)}], p[Max(s)])
           iter == CHOOSE g : g = [s \in SUBSET A |-> IF s = {} THEN {m}
                                    ELSE Stage(g[s \ {Max(s)}], p[Max(s)])]
           T == {k \in Nat : \E g : Folds(g, 1..k)}
<1>1. Results(p, m) = iter[A]
  BY DEF Results, FoldLeft, MapThenFoldSet, Stage
<1>2. ASSUME NEW k \in Nat, NEW s \in SUBSET (1..k), s # {}
      PROVE  Max(s) \in s /\ \A y \in s : Max(s) >= y
  BY <1>2, MaxIsGreatest
<1>3. T = Nat
  <2>1. 0 \in T
    <3>1. SUBSET (1..0) = {{}}
      OBVIOUS
    <3>2. Folds([s \in {{}} |-> {m}], 1..0)
      BY <3>1
    <3> QED BY <3>2
  <2>2. ASSUME NEW k \in T PROVE k + 1 \in T
    <3>1. k \in Nat /\ k + 1 \in Nat
      OBVIOUS
    <3>2. PICK g : Folds(g, 1..k)
      OBVIOUS
    <3> DEFINE h == [s \in SUBSET (1..(k + 1)) |->
                       IF s = {} THEN {m} ELSE Stage(g[s \ {Max(s)}], p[Max(s)])]
    <3>3. ASSUME NEW t \in SUBSET (1..k) PROVE h[t] = g[t]
      <4>1. t \in SUBSET (1..(k + 1))
        BY <3>1
      <4> QED BY <3>2, <4>1
    <3>4. ASSUME NEW s \in SUBSET (1..(k + 1)), s # {} PROVE s \ {Max(s)} \in SUBSET (1..k)
      <4>1. Max(s) \in s /\ \A y \in s : Max(s) >= y
        BY <1>2, <3>1, <3>4
      <4>2. PICK x : x = Max(s)
        OBVIOUS
      <4>3. ASSUME NEW y \in s \ {x} PROVE y \in 1..k
        <5>1. y \in 1..(k + 1) /\ x \in 1..(k + 1) /\ x >= y /\ x # y
          BY <4>1, <4>2
        <5> QED BY <3>1, <5>1
      <4> QED BY <4>2, <4>3
    <3>5. Folds(h, 1..(k + 1))
      <4>1. ASSUME NEW s \in SUBSET (1..(k + 1))
            PROVE  h[s] = IF s = {} THEN {m} ELSE Stage(h[s \ {Max(s)}], p[Max(s)])
        <5>1. CASE s = {}
          BY <5>1
        <5>2. CASE s # {}
          <6>1. h[s] = Stage(g[s \ {Max(s)}], p[Max(s)])
            BY <5>2
          <6>2. h[s \ {Max(s)}] = g[s \ {Max(s)}]
            BY <3>3, <3>4, <5>2
          <6> HIDE DEF h
          <6> QED BY <5>2, <6>1, <6>2
        <5> QED BY <5>1, <5>2
      <4> QED BY <4>1
    <3> HIDE DEF h
    <3> QED BY <3>1, <3>5
  <2>3. T \subseteq Nat
    OBVIOUS
  <2>4. \A k \in T : k + 1 \in T
    BY <2>2
  <2> HIDE DEF T
  <2> QED BY <2>1, <2>3, <2>4, Induction
<1>4. PICK g : Folds(g, A)
  BY <1>3
<1>5. \E h : h = [s \in SUBSET A |-> IF s = {} THEN {m}
                                     ELSE Stage(h[s \ {Max(s)}], p[Max(s)])]
  <2> DEFINE h == [s \in SUBSET A |-> g[s]]
  <2>1. ASSUME NEW s \in SUBSET A
        PROVE  h[s] = IF s = {} THEN {m} ELSE Stage(h[s \ {Max(s)}], p[Max(s)])
    <3>1. s \ {Max(s)} \in SUBSET A
      OBVIOUS
    <3>2. h[s] = g[s] /\ h[s \ {Max(s)}] = g[s \ {Max(s)}]
      BY <3>1
    <3> HIDE DEF h
    <3> QED BY <1>4, <3>2
  <2>2. h = [s \in SUBSET A |-> h[s]]
    OBVIOUS
  <2> HIDE DEF h
  <2>3. h = [s \in SUBSET A |-> IF s = {} THEN {m} ELSE Stage(h[s \ {Max(s)}], p[Max(s)])]
    BY <2>1, <2>2
  <2> QED BY <2>3
<1>6. iter = [s \in SUBSET A |-> IF s = {} THEN {m} ELSE Stage(iter[s \ {Max(s)}], p[Max(s)])]
  BY <1>5
<1> DEFINE r == [k \in 0..n |-> iter[1..k]]
<1>7. r[0] = {m}
  <2>1. 1..0 = {} /\ {} \in SUBSET A /\ 0 \in 0..n
    OBVIOUS
  <2>2. iter[{}] = {m}
    BY <1>6, <2>1
  <2> QED BY <2>1, <2>2
<1>8. ASSUME NEW k \in 0..(n - 1) PROVE r[k + 1] = Stage(r[k], p[k + 1])
  <2>1. 1..(k + 1) \in SUBSET A /\ 1..(k + 1) # {} /\ k \in 0..n /\ k + 1 \in 0..n
    OBVIOUS
  <2>2. Max(1..(k + 1)) = k + 1
    BY DEF Max
  <2>3. (1..(k + 1)) \ {k + 1} = 1..k
    OBVIOUS
  <2>4. iter[1..(k + 1)] = Stage(iter[(1..(k + 1)) \ {Max(1..(k + 1))}], p[Max(1..(k + 1))])
    BY <1>6, <2>1
  <2> HIDE DEF iter
  <2> QED BY <2>1, <2>2, <2>3, <2>4
<1>9. Results(p, m) = r[n]
  BY <1>1
<1> HIDE DEF r
<1> QED BY <1>7, <1>8, <1>9 DEF Traces

\* a task that runs
At(d, f, r, c) == [data |-> d, float |-> f, ret |-> r, ip |-> c, state |-> "runs"]

\* stacks that are no fuller than they may be
Stacks(d, f, r) ==
  /\ d \in Seq(Cell) /\ f \in Nat /\ r \in Seq(Entries)
  /\ Len(d) <= DataSize /\ f <= FloatSize /\ Len(r) <= RetSize

\* what is put on a stack that gives nothing up
LEMMA ReplacedNone ==
  ASSUME NEW T, NEW s \in Seq(T), NEW give \in Seq(T)
  PROVE  Replaced(s, 0, give) = give \o s
<1>1. SubSeq(s, 1, Len(s)) = s
  BY SubSeqFull
<1>2. SubSeq(s, 0 + 1, Len(s)) = s
  BY <1>1
<1> QED BY <1>2, Zenon DEF Replaced

\* ... and on one that gives up its top
LEMMA ReplacedTop ==
  ASSUME NEW T, NEW s \in Seq(T), NEW give \in Seq(T), NEW x \in T
  PROVE  Replaced(<<x>> \o s, 1, give) = give \o s
<1>2. <<x>> \in Seq(T) /\ Len(<<x>>) = 1 /\ Len(s) \in Nat
  OBVIOUS
<1>3. <<x>> \o s \in Seq(T) /\ Len(<<x>> \o s) = Len(s) + 1
  BY <1>2, ConcatProperties
<1>4. PICK t \in Seq(T) : t = <<x>> \o s
  BY <1>3
<1>5. SubSeq(t, 2, Len(t)) = s
  <2>1. SubSeq(t, Len(<<x>>) + 1, Len(t)) = s
    BY <1>2, <1>3, <1>4, SubSeqOfConcat2
  <2> QED BY <1>2, <2>1
<1>6. Replaced(t, 1, give) = give \o s
  <2>1. SubSeq(t, 1 + 1, Len(t)) = s
    BY <1>5
  <2> QED BY <2>1, Zenon DEF Replaced
<1> QED BY <1>4, <1>6

\* one more element on top of a stack
LEMMA PutOn ==
  ASSUME NEW T, NEW s \in Seq(T), NEW x \in T
  PROVE  /\ <<x>> \o s \in Seq(T) /\ Len(<<x>> \o s) = Len(s) + 1
         /\ (<<x>> \o s)[1] = x /\ <<x>> \o s # <<>>
<1>2. <<x>> \in Seq(T) /\ Len(<<x>>) = 1 /\ Len(s) \in Nat
  OBVIOUS
<1>3. <<x>> \o s \in Seq(T) /\ Len(<<x>> \o s) = Len(s) + 1
  BY <1>2, ConcatProperties
<1>4. PICK t \in Seq(T) : t = <<x>> \o s
  BY <1>3
<1>7. t[1] = x /\ t # <<>>
  <2>1. 1 <= Len(<<x>>) /\ 1 \in 1..(Len(<<x>>) + Len(s))
    BY <1>2
  <2>2. t[1] = <<x>>[1]
    BY <1>2, <1>4, <2>1, ConcatProperties
  <2>3. Len(t) # 0
    BY <1>2, <1>3, <1>4
  <2> QED BY <2>2, <2>3
<1> QED BY <1>3, <1>4, <1>7

\* the stack has it all: what is read, the room, what is taken, and room for n more
Enough(depth, size, read, room, take, n) ==
  /\ read \in Nat /\ read <= depth /\ depth + room <= size
  /\ take <= depth /\ depth - take + n <= size

\* an effect on the data and the return stack of m, which have what it needs
Works(e, m) ==
  /\ e.fread = 0 /\ e.froom = 0 /\ e.ftake = 0 /\ e.fgive = 0
  /\ e.ok /\ e.trap = FALSE /\ e.dnext = 0
  /\ \A give \in e.dgive :
       Enough(Len(m.data), DataSize, e.dread, e.droom, e.dtake, Len(give))
  /\ e.dgive # {}
  /\ Enough(Len(m.ret), RetSize, e.rread, e.rroom, e.rtake, Len(e.rgive))

\* where it leads
Leads(e, m) == IF e.jump = {} THEN {m.ip + 1} ELSE e.jump

\* Where nothing is refused the machine goes on with every result there may be,
LEMMA AfterWorks ==
  ASSUME NEW m, Stacks(m.data, m.float, m.ret), NEW e, Works(e, m)
  PROVE  After(e, m) =
           {At(Replaced(m.data, e.dtake, give), m.float, Replaced(m.ret, e.rtake, e.rgive), next) :
              give \in e.dgive, next \in Leads(e, m)}
<1>2. m.float \in Nat /\ m.float <= FloatSize /\ FloatSize \in Nat
  BY MachineSizes DEF Stacks
<1>3. Verified(e, m)
  <2>1. PICK give \in e.dgive :
          Enough(Len(m.data), DataSize, e.dread, e.droom, e.dtake, Len(give))
    BY DEF Works
  <2>2. e.dread \in Nat /\ e.dread <= Len(m.data) /\ Len(m.data) \in Nat
        /\ Len(m.data) <= DataSize /\ e.dread <= DataBase + 1
    BY <2>1, Bases DEF Enough, Works, Stacks
  <2>3. CanRead(DataBase, Len(m.data), e.dread)
    <3>1. PICK depth, cells : depth = Len(m.data) /\ cells = e.dread
      OBVIOUS
    <3>2. depth \in 0..DataBase /\ cells \in 0..depth
      BY <2>2, <3>1, Bases
    <3>3. CanRead(DataBase, depth, cells)
      BY <3>2, Bases, ReadPasses
    <3> QED BY <3>1, <3>3
  <2>4. CanRead(DataBase, Len(m.data) - 1, e.dnext) /\ CanRead(FloatBase, m.float, e.fread)
    BY DEF CanRead, Works
  <2>5. Len(m.data) + e.droom <= DataSize /\ m.float + e.froom <= FloatSize
        /\ e.rread <= Len(m.ret) /\ Len(m.ret) + e.rroom <= RetSize
    BY <1>2, <2>1 DEF Works, Enough
  <2> QED BY <2>3, <2>4, <2>5 DEF Verified, HasRoom
<1>4. StaysInside(e, m)
  BY <1>2 DEF StaysInside, Works, Enough
<1>5. m.float - e.ftake + e.fgive = m.float
  BY <1>2 DEF Works
<1>6. After(e, m) =
        {[data |-> Replaced(m.data, e.dtake, give),
          float |-> m.float - e.ftake + e.fgive,
          ret |-> Replaced(m.ret, e.rtake, e.rgive),
          ip |-> next, state |-> "runs"] :
           give \in e.dgive, next \in IF e.jump = {} THEN {m.ip + 1} ELSE e.jump}
  BY <1>3, <1>4 DEF After, Works
<1> QED BY <1>5, <1>6 DEF At, Leads

\* there is one thing to leave and one place to go
Leaving(e, m, give, next) == e.dgive = {give} /\ Leads(e, m) = {next}

\* ... and with one if there is only one
LEMMA AfterOne ==
  ASSUME NEW m, Stacks(m.data, m.float, m.ret), NEW e, Works(e, m),
         NEW give, NEW next, Leaving(e, m, give, next)
  PROVE  After(e, m) =
           {At(Replaced(m.data, e.dtake, give), m.float, Replaced(m.ret, e.rtake, e.rgive), next)}
<1>1. After(e, m) =
        {At(Replaced(m.data, e.dtake, g), m.float, Replaced(m.ret, e.rtake, e.rgive), n) :
           g \in {give}, n \in {next}}
  BY AfterWorks DEF Leaving
<1> QED BY <1>1

\* the effect of a word of control flow
LEMMA EffectOfControl ==
  ASSUME NEW m, NEW w \in ControlWords
  PROVE  Effect(w, m) = Control(w, m)
BY DEF Effect, ShuffleWords, ArithmeticWords, LogicWords, ComparisonWords, FloatShuffleWords,
     ConversionWords, FloatArithmeticWords, FloatComparisonWords, DoubleArithmeticWords,
     DoubleLogicWords, DoubleComparisonWords, ReturnWords, ControlWords, SingleOf, UnsignedOf

\* ... of a word on the return stack
LEMMA EffectOfReturn ==
  ASSUME NEW m, NEW w \in ReturnWords
  PROVE  Effect(w, m) = ReturnShuffle(w, TopOf(m), m)
BY DEF Effect, TopOf, ShuffleWords, ArithmeticWords, LogicWords, ComparisonWords,
     FloatShuffleWords, ConversionWords, FloatArithmeticWords, FloatComparisonWords,
     DoubleArithmeticWords, DoubleLogicWords, DoubleComparisonWords, ReturnWords, ControlWords,
     SingleOf, UnsignedOf

\* ... and of DROP
LEMMA EffectOfDrop ==
  ASSUME NEW m
  PROVE  Effect("DROP", m) = Cells(1, 0, 1, <<>>)
<1>1. PICK w : w = "DROP"
  OBVIOUS
<1>2. w \in ShuffleWords
  BY <1>1 DEF ShuffleWords
<1>3. Effect(w, m) = DataShuffle(w, TopOf(m))
  BY <1>2 DEF Effect, TopOf, ShuffleWords, ArithmeticWords, LogicWords, ComparisonWords,
     FloatShuffleWords, ConversionWords, FloatArithmeticWords, FloatComparisonWords,
     DoubleArithmeticWords, DoubleLogicWords, DoubleComparisonWords, ReturnWords, ControlWords,
     SingleOf, UnsignedOf
<1>4. DataShuffle(w, TopOf(m)) = Cells(1, 0, 1, <<>>)
  BY <1>1 DEF DataShuffle
<1> QED BY <1>1, <1>3, <1>4

\* what docol and does put on the return stack
Back(c) == [to |-> c + 1]

\* the address a call keeps is that of the cell after it
LEMMA BackType ==
  ASSUME NEW c \in Code
  PROVE  Back(c) \in Entries /\ Back(c) \in Addresses /\ Back(c).to = c + 1
<1>1. c + 1 \in 0..CodeSize
  BY MachineSizes DEF Code
<1> QED BY <1>1 DEF Back, Addresses, Entries

\* the parts of a task that runs
LEMMA AtFields ==
  ASSUME NEW d, NEW f, NEW r, NEW c
  PROVE  /\ At(d, f, r, c).data = d /\ At(d, f, r, c).float = f /\ At(d, f, r, c).ret = r
         /\ At(d, f, r, c).ip = c /\ At(d, f, r, c).state = "runs"
BY DEF At

\* a literal
LEMMA LiteralMoves ==
  ASSUME NEW d, NEW f, NEW r, NEW c, Stacks(d, f, r), Len(d) < DataSize, NEW x \in Cell
  PROVE  After(Literal(x, At(d, f, r, c)), At(d, f, r, c)) = {At(<<x>> \o d, f, r, c + 2)}
<1>1. PICK m : m = At(d, f, r, c)
  OBVIOUS
<1>2. m.data = d /\ m.float = f /\ m.ret = r /\ m.ip = c
  BY <1>1, AtFields
<1>3. PICK e : e = Literal(x, m)
  OBVIOUS
<1>4. /\ e.dread = 0 /\ e.droom = 0 /\ e.dtake = 0 /\ e.dgive = {<<x>>} /\ e.fread = 0
      /\ e.froom = 0 /\ e.ftake = 0 /\ e.fgive = 0 /\ e.rread = 0 /\ e.rroom = 0
      /\ e.rtake = 0 /\ e.rgive = <<>> /\ e.jump = {c + 2} /\ e.trap = FALSE /\ e.dnext = 0
      /\ e.ok = (Len(d) < DataSize)
  BY <1>2, <1>3 DEF Literal, Cells, Nothing
<1>5. Len(d) \in Nat /\ Len(r) \in Nat /\ Len(r) <= RetSize /\ Len(<<x>>) = 1 /\ Len(<<>>) = 0
      /\ DataSize \in Nat /\ RetSize \in Nat
  BY Tuples, MachineSizes DEF Stacks
<1>6. Enough(Len(d), DataSize, 0, 0, 0, Len(<<x>>)) /\ Enough(Len(r), RetSize, 0, 0, 0, Len(<<>>))
  BY <1>5 DEF Enough
<1>7. Works(e, m)
  BY <1>2, <1>4, <1>6 DEF Works
<1>8. Leads(e, m) = {c + 2}
  BY <1>4 DEF Leads
<1>9. After(e, m) = {At(Replaced(d, 0, <<x>>), f, Replaced(r, 0, <<>>), c + 2)}
  <2>1. PICK g, n : g = <<x>> /\ n = c + 2
    OBVIOUS
  <2>2. Stacks(m.data, m.float, m.ret)
    BY <1>2
  <2>3. Leaving(e, m, g, n)
    BY <1>4, <1>8, <2>1 DEF Leaving
  <2>4. After(e, m) =
          {At(Replaced(m.data, e.dtake, g), m.float, Replaced(m.ret, e.rtake, e.rgive), n)}
    BY <1>7, <2>2, <2>3, AfterOne
  <2> QED BY <1>2, <1>4, <2>1, <2>4
<1>10. Replaced(d, 0, <<x>>) = <<x>> \o d
  BY Tuples, ReplacedNone DEF Stacks
<1>11. Replaced(r, 0, <<>>) = r
  BY NoEntry, ReplacedNone, ConcatEmptySeq DEF Stacks
<1> QED BY <1>1, <1>3, <1>9, <1>10, <1>11

\* DROP
LEMMA DropMoves ==
  ASSUME NEW d, NEW f, NEW r, NEW c, Stacks(d, f, r), Len(d) < DataSize, NEW x \in Cell
  PROVE  After(Effect("DROP", At(<<x>> \o d, f, r, c)), At(<<x>> \o d, f, r, c)) = {At(d, f, r, c + 1)}
<1>1. PICK data, ret : data = <<x>> \o d /\ ret = r
  OBVIOUS
<1>2. PICK m : m = At(data, f, ret, c)
  OBVIOUS
<1>3. m.data = data /\ m.float = f /\ m.ret = ret /\ m.ip = c
  BY <1>2, AtFields
<1>4. /\ Stacks(data, f, ret) /\ Len(data) = Len(d) + 1 /\ Len(d) \in Nat /\ Len(ret) \in Nat
      /\ Len(d) < DataSize /\ Len(ret) <= RetSize /\ DataSize \in Nat /\ RetSize \in Nat
      /\ Len(<<>>) = 0
  <2>1. <<x>> \o d \in Seq(Cell) /\ Len(<<x>> \o d) = Len(d) + 1
    BY PutOn DEF Stacks
  <2> QED BY <1>1, <2>1, MachineSizes DEF Stacks
<1>5. PICK e : e = Effect("DROP", m)
  OBVIOUS
<1>6. /\ e.dread = 1 /\ e.droom = 0 /\ e.dtake = 1 /\ e.dgive = {<<>>} /\ e.fread = 0
      /\ e.froom = 0 /\ e.ftake = 0 /\ e.fgive = 0 /\ e.rread = 0 /\ e.rroom = 0
      /\ e.rtake = 0 /\ e.rgive = <<>> /\ e.jump = {} /\ e.trap = FALSE /\ e.dnext = 0 /\ e.ok = TRUE
  <2>1. e = Cells(1, 0, 1, <<>>)
    BY <1>5, EffectOfDrop
  <2> QED BY <2>1 DEF Cells, Nothing
<1>7. Enough(Len(data), DataSize, 1, 0, 1, Len(<<>>)) /\ Enough(Len(ret), RetSize, 0, 0, 0, Len(<<>>))
  BY <1>4 DEF Enough
<1>8. Works(e, m)
  BY <1>3, <1>4, <1>6, <1>7 DEF Works
<1>9. After(e, m) = {At(Replaced(data, 1, <<>>), f, Replaced(ret, 0, <<>>), c + 1)}
  <2>1. PICK g, n : g = <<>> /\ n = c + 1
    OBVIOUS
  <2>2. Stacks(m.data, m.float, m.ret)
    BY <1>3, <1>4
  <2>3. Leaving(e, m, g, n)
    BY <1>3, <1>6, <2>1 DEF Leaving, Leads
  <2>4. After(e, m) =
          {At(Replaced(m.data, e.dtake, g), m.float, Replaced(m.ret, e.rtake, e.rgive), n)}
    BY <1>8, <2>2, <2>3, AfterOne
  <2> QED BY <1>3, <1>6, <2>1, <2>4
<1>10. Replaced(data, 1, <<>>) = d
  <2>1. d \in Seq(Cell) /\ <<>> \in Seq(Cell) /\ <<>> \o d = d
    BY ConcatEmptySeq DEF Stacks
  <2> QED BY <1>1, <2>1, ReplacedTop
<1>11. Replaced(ret, 0, <<>>) = r
  BY <1>1, NoEntry, ReplacedNone, ConcatEmptySeq DEF Stacks
<1> QED BY <1>1, <1>2, <1>5, <1>9, <1>10, <1>11

\* >R
LEMMA ToReturnMoves ==
  ASSUME NEW d, NEW f, NEW r, NEW c, Stacks(d, f, r), Len(d) < DataSize, Len(r) < RetSize,
         NEW x \in Cell
  PROVE  After(Effect(">R", At(<<x>> \o d, f, r, c)), At(<<x>> \o d, f, r, c)) = {At(d, f, <<[cell |-> x]>> \o r, c + 1)}
<1>1. PICK data, ret : data = <<x>> \o d /\ ret = r
  OBVIOUS
<1>2. PICK m : m = At(data, f, ret, c)
  OBVIOUS
<1>3. m.data = data /\ m.float = f /\ m.ret = ret /\ m.ip = c
  BY <1>2, AtFields
<1>4. /\ Stacks(data, f, ret) /\ Len(data) = Len(d) + 1 /\ Len(d) \in Nat /\ Len(ret) \in Nat
      /\ Len(d) < DataSize /\ Len(ret) < RetSize /\ DataSize \in Nat /\ RetSize \in Nat
      /\ Len(<<>>) = 0 /\ data[1] = x /\ Len(<<[cell |-> x]>>) = 1
  <2>1. <<x>> \o d \in Seq(Cell) /\ Len(<<x>> \o d) = Len(d) + 1 /\ (<<x>> \o d)[1] = x
    BY PutOn DEF Stacks
  <2>2. [cell |-> x] \in Entries
    BY DEF Entries, Kept
  <2>3. Len(<<[cell |-> x]>>) = 1
    BY <2>2, OneEntry
  <2> QED BY <1>1, <2>1, <2>3, MachineSizes DEF Stacks
<1>5. PICK e : e = Effect(">R", m)
  OBVIOUS
<1>6. /\ e.dread = 1 /\ e.droom = 0 /\ e.dtake = 1 /\ e.dgive = {<<>>} /\ e.fread = 0
      /\ e.froom = 0 /\ e.ftake = 0 /\ e.fgive = 0 /\ e.rread = 0 /\ e.rroom = 1
      /\ e.rtake = 0 /\ e.rgive = <<[cell |-> x]>> /\ e.jump = {} /\ e.trap = FALSE /\ e.dnext = 0
      /\ e.ok = TRUE
  <2>1. Effect(">R", m) = ReturnShuffle(">R", TopOf(m), m)
    BY EffectOfReturn DEF ReturnWords
  <2>2. ReturnShuffle(">R", TopOf(m), m) =
          [Cells(1, 0, 1, <<>>) EXCEPT !.rroom = 1, !.rgive = <<[cell |-> TopOf(m)[1]]>>]
    BY DEF ReturnShuffle
  <2>3. TopOf(m)[1] = x
    <3>1. 1 \in 1..(P + 2)
      BY Sizes
    <3>2. TopOf(m)[1] = IF 1 <= Len(m.data) THEN m.data[1] ELSE 0
      BY <3>1 DEF TopOf, P
    <3> QED BY <1>3, <1>4, <3>2
  <2>4. e = [Cells(1, 0, 1, <<>>) EXCEPT !.rroom = 1, !.rgive = <<[cell |-> x]>>]
    BY <1>5, <2>1, <2>2, <2>3
  <2> QED BY <2>4 DEF Cells, Nothing
<1>7. Enough(Len(data), DataSize, 1, 0, 1, Len(<<>>)) /\ Enough(Len(ret), RetSize, 0, 1, 0, Len(<<[cell |-> x]>>))
  BY <1>4 DEF Enough
<1>8. Works(e, m)
  BY <1>3, <1>4, <1>6, <1>7 DEF Works
<1>9. After(e, m) = {At(Replaced(data, 1, <<>>), f, Replaced(ret, 0, <<[cell |-> x]>>), c + 1)}
  <2>1. PICK g, n : g = <<>> /\ n = c + 1
    OBVIOUS
  <2>2. Stacks(m.data, m.float, m.ret)
    BY <1>3, <1>4
  <2>3. Leaving(e, m, g, n)
    BY <1>3, <1>6, <2>1 DEF Leaving, Leads
  <2>4. After(e, m) =
          {At(Replaced(m.data, e.dtake, g), m.float, Replaced(m.ret, e.rtake, e.rgive), n)}
    BY <1>8, <2>2, <2>3, AfterOne
  <2> QED BY <1>3, <1>6, <2>1, <2>4
<1>10. Replaced(data, 1, <<>>) = d
  <2>1. d \in Seq(Cell) /\ <<>> \in Seq(Cell) /\ <<>> \o d = d
    BY ConcatEmptySeq DEF Stacks
  <2> QED BY <1>1, <2>1, ReplacedTop
<1>11. Replaced(ret, 0, <<[cell |-> x]>>) = <<[cell |-> x]>> \o r
  <2>1. PICK entry \in Entries : entry = [cell |-> x]
    BY DEF Entries, Kept
  <2>2. <<entry>> \in Seq(Entries) /\ r \in Seq(Entries)
    BY OneEntry DEF Stacks
  <2>3. Replaced(r, 0, <<entry>>) = <<entry>> \o r
    BY <2>2, ReplacedNone
  <2> QED BY <1>1, <2>1, <2>3
<1> QED BY <1>1, <1>2, <1>5, <1>9, <1>10, <1>11

\* R>
LEMMA FromReturnMoves ==
  ASSUME NEW d, NEW f, NEW r, NEW c, Stacks(d, f, r), Len(d) < DataSize, Len(r) < RetSize,
         NEW x \in Cell
  PROVE  After(Effect("R>", At(d, f, <<[cell |-> x]>> \o r, c)), At(d, f, <<[cell |-> x]>> \o r, c)) = {At(<<x>> \o d, f, r, c + 1)}
<1>1. PICK data, ret : data = d /\ ret = <<[cell |-> x]>> \o r
  OBVIOUS
<1>2. PICK m : m = At(data, f, ret, c)
  OBVIOUS
<1>3. m.data = data /\ m.float = f /\ m.ret = ret /\ m.ip = c
  BY <1>2, AtFields
<1>4. /\ Stacks(data, f, ret) /\ Len(ret) = Len(r) + 1 /\ Len(r) \in Nat /\ Len(data) \in Nat
      /\ Len(data) < DataSize /\ Len(r) < RetSize /\ DataSize \in Nat /\ RetSize \in Nat
      /\ Len(<<>>) = 0 /\ Len(<<x>>) = 1
      /\ ret # <<>> /\ ret[1] \in Kept /\ ret[1].cell = x
  <2>1. PICK entry \in Entries : entry = [cell |-> x]
    BY DEF Entries, Kept
  <2>5. entry \in Kept /\ entry.cell = x
    BY <2>1 DEF Kept
  <2>2. <<entry>> \o r \in Seq(Entries) /\ Len(<<entry>> \o r) = Len(r) + 1
        /\ (<<entry>> \o r)[1] = entry /\ <<entry>> \o r # <<>>
    BY PutOn DEF Stacks
  <2>3. ret = <<entry>> \o r
    BY <1>1, <2>1
  <2>4. Len(<<x>>) = 1
    BY Tuples
  <2> QED BY <1>1, <2>2, <2>3, <2>4, <2>5, MachineSizes DEF Stacks
<1>5. PICK e : e = Effect("R>", m)
  OBVIOUS
<1>6. /\ e.dread = 0 /\ e.droom = 1 /\ e.dtake = 0 /\ e.dgive = {<<x>>} /\ e.fread = 0
      /\ e.froom = 0 /\ e.ftake = 0 /\ e.fgive = 0 /\ e.rread = 1 /\ e.rroom = 0
      /\ e.rtake = 1 /\ e.rgive = <<>> /\ e.jump = {} /\ e.trap = FALSE /\ e.dnext = 0 /\ e.ok = TRUE
  <2>1. Effect("R>", m) = ReturnShuffle("R>", TopOf(m), m)
    BY EffectOfReturn DEF ReturnWords
  <2>2. m.ret # <<>> /\ m.ret[1] \in Kept /\ m.ret[1].cell = x
    BY <1>3, <1>4
  <2>3. ReturnShuffle("R>", TopOf(m), m) =
          [Cells(0, 1, 0, <<>>) EXCEPT !.rread = 1, !.rtake = 1, !.dgive = {<<m.ret[1].cell>>}]
    BY <2>2 DEF ReturnShuffle
  <2>4. e = [Cells(0, 1, 0, <<>>) EXCEPT !.rread = 1, !.rtake = 1, !.dgive = {<<x>>}]
    BY <1>5, <2>1, <2>2, <2>3
  <2> QED BY <2>4 DEF Cells, Nothing
<1>7. Enough(Len(data), DataSize, 0, 1, 0, Len(<<x>>)) /\ Enough(Len(ret), RetSize, 1, 0, 1, Len(<<>>))
  BY <1>4 DEF Enough
<1>8. Works(e, m)
  BY <1>3, <1>4, <1>6, <1>7 DEF Works
<1>9. After(e, m) = {At(Replaced(data, 0, <<x>>), f, Replaced(ret, 1, <<>>), c + 1)}
  <2>1. PICK g, n : g = <<x>> /\ n = c + 1
    OBVIOUS
  <2>2. Stacks(m.data, m.float, m.ret)
    BY <1>3, <1>4
  <2>3. Leaving(e, m, g, n)
    BY <1>3, <1>6, <2>1 DEF Leaving, Leads
  <2>4. After(e, m) =
          {At(Replaced(m.data, e.dtake, g), m.float, Replaced(m.ret, e.rtake, e.rgive), n)}
    BY <1>8, <2>2, <2>3, AfterOne
  <2> QED BY <1>3, <1>6, <2>1, <2>4
<1>10. Replaced(data, 0, <<x>>) = <<x>> \o d
  BY <1>1, Tuples, ReplacedNone DEF Stacks
<1>11. Replaced(ret, 1, <<>>) = r
  <2>1. PICK entry \in Entries : entry = [cell |-> x]
    BY DEF Entries, Kept
  <2>2. r \in Seq(Entries) /\ <<>> \in Seq(Entries) /\ <<>> \o r = r
    BY ConcatEmptySeq DEF Stacks
  <2>3. Replaced(<<entry>> \o r, 1, <<>>) = r
    BY <2>2, ReplacedTop
  <2> QED BY <1>1, <2>1, <2>3
<1> QED BY <1>1, <1>2, <1>5, <1>9, <1>10, <1>11

\* EXIT
LEMMA ExitMoves ==
  ASSUME NEW d, NEW f, NEW r, NEW c, Stacks(d, f, r), Len(r) < RetSize,
         NEW back \in Addresses
  PROVE  After(Effect("EXIT", At(d, f, <<back>> \o r, c)), At(d, f, <<back>> \o r, c)) = {At(d, f, r, back.to)}
<1>1. PICK data, ret : data = d /\ ret = <<back>> \o r
  OBVIOUS
<1>2. PICK m : m = At(data, f, ret, c)
  OBVIOUS
<1>3. m.data = data /\ m.float = f /\ m.ret = ret /\ m.ip = c
  BY <1>2, AtFields
<1>4. /\ Stacks(data, f, ret) /\ Len(ret) = Len(r) + 1 /\ Len(r) \in Nat /\ Len(data) \in Nat
      /\ Len(data) <= DataSize /\ Len(r) < RetSize /\ DataSize \in Nat /\ RetSize \in Nat
      /\ Len(<<>>) = 0 /\ ret # <<>> /\ ret[1] = back
  <2>1. back \in Entries
    BY DEF Entries
  <2>2. <<back>> \o r \in Seq(Entries) /\ Len(<<back>> \o r) = Len(r) + 1
        /\ (<<back>> \o r)[1] = back /\ <<back>> \o r # <<>>
    BY <2>1, PutOn DEF Stacks
  <2> QED BY <1>1, <2>2, MachineSizes DEF Stacks
<1>5. PICK e : e = Effect("EXIT", m)
  OBVIOUS
<1>6. /\ e.dread = 0 /\ e.droom = 0 /\ e.dtake = 0 /\ e.dgive = {<<>>} /\ e.fread = 0
      /\ e.froom = 0 /\ e.ftake = 0 /\ e.fgive = 0 /\ e.rread = 0 /\ e.rroom = 0
      /\ e.rtake = 1 /\ e.rgive = <<>> /\ e.jump = {back.to} /\ e.trap = FALSE /\ e.dnext = 0 /\ e.ok = TRUE
  <2>1. Effect("EXIT", m) = Control("EXIT", m)
    BY EffectOfControl DEF ControlWords
  <2>2. m.ret # <<>> /\ m.ret[1] \in Addresses /\ m.ret[1].to = back.to
    BY <1>3, <1>4
  <2>3. Control("EXIT", m) = [Nothing EXCEPT !.ok = TRUE, !.rtake = 1, !.jump = {back.to}]
    <3>1. Control("EXIT", m) =
            [Nothing EXCEPT
              !.ok = m.ret # <<>>, !.rtake = 1,
              !.jump = IF m.ret # <<>> /\ m.ret[1] \in Addresses THEN {m.ret[1].to} ELSE Code]
      BY DEF Control
    <3>2. (m.ret # <<>>) = TRUE
      BY <2>2
    <3> QED BY <2>2, <3>1, <3>2
  <2>4. e = [Nothing EXCEPT !.ok = TRUE, !.rtake = 1, !.jump = {back.to}]
    BY <1>5, <2>1, <2>3
  <2> QED BY <2>4 DEF Nothing
<1>7. Enough(Len(data), DataSize, 0, 0, 0, Len(<<>>)) /\ Enough(Len(ret), RetSize, 0, 0, 1, Len(<<>>))
  BY <1>4 DEF Enough
<1>8. Works(e, m)
  BY <1>3, <1>4, <1>6, <1>7 DEF Works
<1>9. After(e, m) = {At(Replaced(data, 0, <<>>), f, Replaced(ret, 1, <<>>), back.to)}
  <2>1. PICK g, n : g = <<>> /\ n = back.to
    OBVIOUS
  <2>2. Stacks(m.data, m.float, m.ret)
    BY <1>3, <1>4
  <2>3. Leaving(e, m, g, n)
    BY <1>3, <1>6, <2>1 DEF Leaving, Leads
  <2>4. After(e, m) =
          {At(Replaced(m.data, e.dtake, g), m.float, Replaced(m.ret, e.rtake, e.rgive), n)}
    BY <1>8, <2>2, <2>3, AfterOne
  <2> QED BY <1>3, <1>6, <2>1, <2>4
<1>10. Replaced(data, 0, <<>>) = d
  <2>1. <<>> \in Seq(Cell) /\ <<>> \o d = d
    BY ConcatEmptySeq DEF Stacks
  <2> QED BY <1>1, <2>1, ReplacedNone DEF Stacks
<1>11. Replaced(ret, 1, <<>>) = r
  <2>1. back \in Entries /\ r \in Seq(Entries) /\ <<>> \in Seq(Entries) /\ <<>> \o r = r
    BY ConcatEmptySeq DEF Stacks, Entries
  <2> QED BY <1>1, <2>1, ReplacedTop
<1> QED BY <1>1, <1>2, <1>5, <1>9, <1>10, <1>11

\* docol
LEMMA DocolMoves ==
  ASSUME NEW d, NEW f, NEW r, NEW c \in Code, Stacks(d, f, r), Len(r) < RetSize
  PROVE  After(Effect("docol", At(d, f, r, c)), At(d, f, r, c)) =
           {At(d, f, <<Back(c)>> \o r, n) : n \in Code}
<1>1. PICK m : m = At(d, f, r, c)
  OBVIOUS
<1>2. m.data = d /\ m.float = f /\ m.ret = r /\ m.ip = c
  BY <1>1, AtFields
<1>3. PICK back \in Entries : back = Back(c)
  BY BackType
<1>4. PICK e : e = Effect("docol", m)
  OBVIOUS
<1>5. /\ e.dread = 0 /\ e.droom = 0 /\ e.dtake = 0 /\ e.dgive = {<<>>} /\ e.fread = 0
      /\ e.froom = 0 /\ e.ftake = 0 /\ e.fgive = 0 /\ e.rread = 0 /\ e.rroom = 0
      /\ e.rtake = 0 /\ e.rgive = <<back>> /\ e.jump = Code /\ e.trap = FALSE /\ e.dnext = 0
      /\ e.ok = (Len(r) < RetSize)
  <2>1. Effect("docol", m) = Control("docol", m)
    BY EffectOfControl DEF ControlWords
  <2>2. ReturnAddress(m) = back
    BY <1>2, <1>3 DEF ReturnAddress, Back
  <2>3. e = [Nothing EXCEPT !.ok = Len(r) < RetSize, !.rgive = <<back>>, !.jump = Code]
    BY <1>2, <1>4, <2>1, <2>2 DEF Control
  <2> QED BY <2>3 DEF Nothing
<1>6. Len(d) \in Nat /\ Len(r) \in Nat /\ Len(d) <= DataSize /\ Len(<<back>>) = 1
      /\ Len(<<>>) = 0 /\ DataSize \in Nat /\ RetSize \in Nat
  BY OneEntry, MachineSizes DEF Stacks
<1>7. Enough(Len(d), DataSize, 0, 0, 0, Len(<<>>)) /\ Enough(Len(r), RetSize, 0, 0, 0, Len(<<back>>))
  BY <1>6 DEF Enough
<1>8. Works(e, m)
  BY <1>2, <1>5, <1>7 DEF Works
<1>9. Leads(e, m) = Code
  BY <1>5, MachineSizes DEF Leads, Code
<1>10. After(e, m) = {At(Replaced(m.data, e.dtake, give), m.float, Replaced(m.ret, e.rtake, e.rgive), next) :
                        give \in e.dgive, next \in Leads(e, m)}
  BY <1>2, <1>8, AfterWorks
<1>11. Replaced(d, 0, <<>>) = d
  <2>1. <<>> \in Seq(Cell) /\ <<>> \o d = d
    BY ConcatEmptySeq DEF Stacks
  <2> QED BY <2>1, ReplacedNone DEF Stacks
<1>12. Replaced(r, 0, <<back>>) = <<back>> \o r
  BY OneEntry, ReplacedNone DEF Stacks
<1>13. PICK q : q = <<back>> \o r
  OBVIOUS
<1>14. After(e, m) = {At(d, f, q, next) : next \in Code}
  <2>1. \A give \in e.dgive :
          At(Replaced(m.data, e.dtake, give), m.float, Replaced(m.ret, e.rtake, e.rgive), 0)
            = At(Replaced(m.data, e.dtake, give), m.float, Replaced(m.ret, e.rtake, e.rgive), 0)
    OBVIOUS
  <2>2. \A give \in e.dgive : Replaced(m.data, e.dtake, give) = d
    BY <1>2, <1>5, <1>11
  <2>3. Replaced(m.ret, e.rtake, e.rgive) = q
    BY <1>2, <1>5, <1>12, <1>13
  <2>4. e.dgive # {}
    BY <1>5
  <2> QED BY <1>2, <1>9, <1>10, <2>2, <2>3, <2>4
<1> QED BY <1>1, <1>3, <1>4, <1>13, <1>14

\* does: the address of the data goes on the data stack
LEMMA DoesMoves ==
  ASSUME NEW d, NEW f, NEW r, NEW c \in Code, Stacks(d, f, r), Len(d) < DataSize, Len(r) < RetSize
  PROVE  After(Effect("does", At(d, f, r, c)), At(d, f, r, c)) =
           {At(give \o d, f, <<Back(c)>> \o r, n) : give \in Anything, n \in Code}
<1>1. PICK m : m = At(d, f, r, c)
  OBVIOUS
<1>2. m.data = d /\ m.float = f /\ m.ret = r /\ m.ip = c
  BY <1>1, AtFields
<1>3. PICK back \in Entries : back = Back(c)
  BY BackType
<1>4. PICK e : e = Effect("does", m)
  OBVIOUS
<1>5. /\ e.dread = 0 /\ e.droom = 0 /\ e.dtake = 0 /\ e.dgive = Anything /\ e.fread = 0
      /\ e.froom = 0 /\ e.ftake = 0 /\ e.fgive = 0 /\ e.rread = 0 /\ e.rroom = 0
      /\ e.rtake = 0 /\ e.rgive = <<back>> /\ e.jump = Code /\ e.trap = FALSE /\ e.dnext = 0
      /\ e.ok = (Len(d) < DataSize /\ Len(r) < RetSize)
  <2>1. Effect("does", m) = Control("does", m)
    BY EffectOfControl DEF ControlWords
  <2>2. ReturnAddress(m) = back
    BY <1>2, <1>3 DEF ReturnAddress, Back
  <2>3. e = [Cells(0, 0, 0, <<>>) EXCEPT
              !.ok = Len(d) < DataSize /\ Len(r) < RetSize,
              !.dgive = Anything, !.rgive = <<back>>, !.jump = Code]
    BY <1>2, <1>4, <2>1, <2>2 DEF Control
  <2> QED BY <2>3 DEF Cells, Nothing
<1>6. Len(d) \in Nat /\ Len(r) \in Nat /\ Len(<<back>>) = 1
      /\ DataSize \in Nat /\ RetSize \in Nat
  BY OneEntry, MachineSizes DEF Stacks
<1>7. Enough(Len(r), RetSize, 0, 0, 0, Len(<<back>>))
  BY <1>6 DEF Enough
<1>8. \A give \in Anything : Enough(Len(d), DataSize, 0, 0, 0, Len(give)) /\ give \in Seq(Cell)
  <2>1. ASSUME NEW give \in Anything
        PROVE  Enough(Len(d), DataSize, 0, 0, 0, Len(give)) /\ give \in Seq(Cell)
    <3>1. give \in Seq(Cell) /\ Len(give) = 1
      BY AnythingType DEF Leaves
    <3> QED BY <1>6, <3>1 DEF Enough
  <2> QED BY <2>1
<1>9. Anything # {}
  BY MachineSizes DEF Anything
<1>10. Works(e, m)
  BY <1>2, <1>5, <1>7, <1>8, <1>9 DEF Works
<1>11. Leads(e, m) = Code
  BY <1>5, MachineSizes DEF Leads, Code
<1>12. After(e, m) = {At(Replaced(m.data, e.dtake, give), m.float, Replaced(m.ret, e.rtake, e.rgive), next) :
                        give \in e.dgive, next \in Leads(e, m)}
  BY <1>2, <1>10, AfterWorks
<1>13. \A give \in Anything : Replaced(d, 0, give) = give \o d
  BY <1>8, ReplacedNone DEF Stacks
<1>14. Replaced(r, 0, <<back>>) = <<back>> \o r
  BY OneEntry, ReplacedNone DEF Stacks
<1>15. PICK q : q = <<back>> \o r
  OBVIOUS
<1>16. After(e, m) = {At(give \o d, f, q, n) : give \in Anything, n \in Code}
  <2>1. \A give \in Anything : Replaced(m.data, e.dtake, give) = give \o d
    BY <1>2, <1>5, <1>13
  <2>2. Replaced(m.ret, e.rtake, e.rgive) = q
    BY <1>2, <1>5, <1>14, <1>15
  <2>3. After(e, m) = {At(Replaced(m.data, e.dtake, give), f, q, n) : give \in Anything, n \in Code}
    BY <1>2, <1>5, <1>11, <1>12, <2>2
  <2>4. ASSUME NEW y \in After(e, m)
        PROVE  \E give \in Anything, n \in Code : y = At(give \o d, f, q, n)
    <3>1. PICK give \in Anything, n \in Code : y = At(Replaced(m.data, e.dtake, give), f, q, n)
      BY <2>3
    <3> QED BY <2>1, <3>1
  <2>5. ASSUME NEW give \in Anything, NEW n \in Code
        PROVE  At(give \o d, f, q, n) \in After(e, m)
    <3>1. At(Replaced(m.data, e.dtake, give), f, q, n) \in After(e, m)
      BY <2>3
    <3> QED BY <2>1, <3>1
  <2> QED BY <2>4, <2>5
<1> QED BY <1>1, <1>3, <1>4, <1>15, <1>16

\* M is the machines F[k]
Family(M, K, F) == M = {F[k] : k \in K}

\* the word takes every machine F[k] to G[k]
Takes(word, K, F, G) ==
  \A k \in K : F[k].state = "runs" /\ Stage({F[k]}, word) = {G[k]}

\* ... and so takes them all together
LEMMA StageEach ==
  ASSUME NEW word, NEW K, NEW F, NEW G, Takes(word, K, F, G), NEW M, Family(M, K, F)
  PROVE  Family(Stage(M, word), K, G)
<1> DEFINE Moved(x) == IF x.state # "runs" THEN {x}
                       ELSE After(IF word[1] = "(LITERAL)" THEN Literal(word[2], x)
                                  ELSE Effect(word[1], x), x)
<1>1. \A N : Stage(N, word) = UNION {Moved(x) : x \in N}
  BY DEF Stage
<1> HIDE DEF Moved
<1>2. ASSUME NEW k \in K PROVE Moved(F[k]) = {G[k]}
  <2>1. UNION {Moved(x) : x \in {F[k]}} = Moved(F[k])
    OBVIOUS
  <2> QED BY <1>1, <2>1 DEF Takes
<1>3. M = {F[k] : k \in K}
  BY DEF Family
<1>4. Stage(M, word) = UNION {Moved(x) : x \in M}
  BY <1>1
<1>5. ASSUME NEW y \in Stage(M, word) PROVE \E k \in K : y = G[k]
  <2>1. PICK x \in M : y \in Moved(x)
    BY <1>4
  <2>2. PICK k \in K : x = F[k]
    BY <1>3
  <2> QED BY <1>2, <2>1, <2>2
<1>6. ASSUME NEW k \in K PROVE G[k] \in Stage(M, word)
  <2>1. F[k] \in M /\ G[k] \in Moved(F[k])
    BY <1>2, <1>3
  <2> QED BY <1>4, <2>1
<1>7. Stage(M, word) = {G[k] : k \in K}
  BY <1>5, <1>6
<1> QED BY <1>7 DEF Family

\* one machine and one word
LEMMA StageOfWord ==
  ASSUME NEW w, w # "(LITERAL)", NEW m, m.state = "runs"
  PROVE  Stage({m}, W(w)) = After(Effect(w, m), m)
BY DEF Stage, W

\* one machine and one literal
LEMMA StageOfLiteral ==
  ASSUME NEW x, NEW m, m.state = "runs"
  PROVE  Stage({m}, Lit(x)) = After(Literal(x, m), m)
BY DEF Stage, Lit

\* The stack a call is made from is fuller by one entry when it is executed.
LEMMA CallStacks ==
  ASSUME NEW d, NEW f, NEW r, NEW c \in Code, Stacks(d, f, r),
         Len(d) <= DataSize - 2, Len(r) <= RetSize - 2
  PROVE  /\ Stacks(d, f, <<Back(c)>> \o r)
         /\ Len(d) < DataSize /\ Len(r) < RetSize /\ Len(<<Back(c)>> \o r) < RetSize
<1>1. PICK back \in Entries : back = Back(c)
  BY BackType
<1>2. <<back>> \o r \in Seq(Entries) /\ Len(<<back>> \o r) = Len(r) + 1
  BY PutOn DEF Stacks
<1>3. Len(d) \in Nat /\ Len(r) \in Nat /\ DataSize \in Nat /\ RetSize \in Nat
  BY MachineSizes DEF Stacks
<1> QED BY <1>1, <1>2, <1>3 DEF Stacks

\* A colon definition that uses the return stack comes back.
LEMMA ColonComesBack ==
  ASSUME NEW d, NEW f, NEW r, NEW c \in Code, Stacks(d, f, r),
         Len(d) <= DataSize - 2, Len(r) <= RetSize - 2
  PROVE  Results(<<W("docol"), Lit(1), W(">R"), W("R>"), W("DROP"), W("EXIT")>>, At(d, f, r, c))
           = {At(d, f, r, c + 1)}
<1> DEFINE p == <<W("docol"), Lit(1), W(">R"), W("R>"), W("DROP"), W("EXIT")>>
<1>1. DOMAIN p = 1..6
  OBVIOUS
<1>2. /\ p[1] = W("docol") /\ p[2] = Lit(1) /\ p[3] = W(">R") /\ p[4] = W("R>")
      /\ p[5] = W("DROP") /\ p[6] = W("EXIT")
  OBVIOUS
<1> HIDE DEF p
<1>3. PICK M : /\ M[0] = {At(d, f, r, c)} /\ Results(p, At(d, f, r, c)) = M[6]
               /\ \A k \in 0..5 : M[k + 1] = Stage(M[k], p[k + 1])
  <2>1. PICK m : m = At(d, f, r, c)
    OBVIOUS
  <2>2. PICK n \in Nat : n = 6
    OBVIOUS
  <2>3. DOMAIN p = 1..n
    BY <1>1, <2>2
  <2>4. PICK M : Traces(M, p, n, m)
    BY <2>2, <2>3, ResultsSteps
  <2>5. n - 1 = 5
    BY <2>2
  <2> QED BY <2>1, <2>2, <2>4, <2>5 DEF Traces
<1>4. /\ M[1] = Stage(M[0], W("docol")) /\ M[2] = Stage(M[1], Lit(1))
      /\ M[3] = Stage(M[2], W(">R")) /\ M[4] = Stage(M[3], W("R>"))
      /\ M[5] = Stage(M[4], W("DROP")) /\ M[6] = Stage(M[5], W("EXIT"))
  <2>1. /\ 0 \in 0..5 /\ 1 \in 0..5 /\ 2 \in 0..5 /\ 3 \in 0..5 /\ 4 \in 0..5 /\ 5 \in 0..5
        /\ 0 + 1 = 1 /\ 1 + 1 = 2 /\ 2 + 1 = 3 /\ 3 + 1 = 4 /\ 4 + 1 = 5 /\ 5 + 1 = 6
    OBVIOUS
  <2>2. \A k \in 0..5 : M[k + 1] = Stage(M[k], p[k + 1])
    BY <1>3
  <2>3. /\ M[1] = Stage(M[0], p[1]) /\ M[2] = Stage(M[1], p[2]) /\ M[3] = Stage(M[2], p[3])
        /\ M[4] = Stage(M[3], p[4]) /\ M[5] = Stage(M[4], p[5]) /\ M[6] = Stage(M[5], p[6])
    BY <2>1, <2>2
  <2> QED BY <1>2, <2>3
<1>5. PICK b : b = <<Back(c)>> \o r
  OBVIOUS
<1>one. PICK x \in Cell : x = 1
  BY Sizes
<1>6. PICK t : t = <<[cell |-> x]>> \o b
  OBVIOUS
<1>7. PICK u : u = <<x>> \o d
  OBVIOUS
<1>8. Stacks(d, f, b) /\ Len(d) < DataSize /\ Len(r) < RetSize /\ Len(b) < RetSize
  BY <1>5, CallStacks
<1>9. Code \subseteq Int /\ Code # {}
  BY MachineSizes DEF Code
<1>old. Stacks(d, f, r) /\ Len(r) < RetSize
  BY <1>8
<1> DEFINE F1 == [n \in Code |-> At(d, f, b, n)]
           F2 == [n \in Code |-> At(u, f, b, n + 2)]
           F3 == [n \in Code |-> At(d, f, t, (n + 2) + 1)]
           F4 == [n \in Code |-> At(u, f, b, ((n + 2) + 1) + 1)]
           F5 == [n \in Code |-> At(d, f, b, (((n + 2) + 1) + 1) + 1)]
           F6 == [n \in Code |-> At(d, f, r, c + 1)]
<1>10. Family(M[1], Code, F1)
  <2>1. Stage({At(d, f, r, c)}, W("docol")) = After(Effect("docol", At(d, f, r, c)), At(d, f, r, c))
    BY AtFields, StageOfWord
  <2>2. M[1] = {At(d, f, b, n) : n \in Code}
    BY <1>3, <1>4, <1>5, <1>8, <2>1, DocolMoves
  <2> QED BY <2>2 DEF Family
<1>11. Family(M[2], Code, F2)
  <2>1. ASSUME NEW n \in Code PROVE F1[n].state = "runs" /\ Stage({F1[n]}, Lit(1)) = {F2[n]}
    <3>1. PICK m : m = At(d, f, b, n)
      OBVIOUS
    <3>2. m.state = "runs"
      BY <3>1, AtFields
    <3>3. Stage({m}, Lit(1)) = After(Literal(1, m), m)
      BY <3>2, StageOfLiteral
    <3>4. After(Literal(1, m), m) = {At(u, f, b, n + 2)}
      BY <1>one, <1>7, <1>8, <3>1, LiteralMoves
    <3> QED BY <3>1, <3>2, <3>3, <3>4
  <2>2. Takes(Lit(1), Code, F1, F2)
    BY <2>1 DEF Takes
  <2> HIDE DEF F1, F2
  <2> QED BY <1>4, <1>10, <2>2, StageEach
<1>12. Family(M[3], Code, F3)
  <2>1. ASSUME NEW n \in Code PROVE F2[n].state = "runs" /\ Stage({F2[n]}, W(">R")) = {F3[n]}
    <3>0. PICK k : k = n + 2
      OBVIOUS
    <3>1. PICK m : m = At(u, f, b, k)
      OBVIOUS
    <3>2. m.state = "runs"
      BY <3>1, AtFields
    <3>3. Stage({m}, W(">R")) = After(Effect(">R", m), m)
      BY <3>2, StageOfWord
    <3>4. After(Effect(">R", At(<<x>> \o d, f, b, k)), At(<<x>> \o d, f, b, k)) = {At(d, f, <<[cell |-> x]>> \o b, k + 1)}
      BY <1>one, <1>8, ToReturnMoves
    <3>5. After(Effect(">R", m), m) = {At(d, f, t, k + 1)}
      BY <1>5, <1>6, <1>7, <3>1, <3>4
    <3> QED BY <3>0, <3>1, <3>2, <3>3, <3>5
  <2>2. Takes(W(">R"), Code, F2, F3)
    BY <2>1 DEF Takes
  <2> HIDE DEF F2, F3
  <2> QED BY <1>4, <1>11, <2>2, StageEach
<1>13. Family(M[4], Code, F4)
  <2>1. ASSUME NEW n \in Code PROVE F3[n].state = "runs" /\ Stage({F3[n]}, W("R>")) = {F4[n]}
    <3>0. PICK k : k = (n + 2) + 1
      OBVIOUS
    <3>1. PICK m : m = At(d, f, t, k)
      OBVIOUS
    <3>2. m.state = "runs"
      BY <3>1, AtFields
    <3>3. Stage({m}, W("R>")) = After(Effect("R>", m), m)
      BY <3>2, StageOfWord
    <3>4. After(Effect("R>", At(d, f, <<[cell |-> x]>> \o b, k)), At(d, f, <<[cell |-> x]>> \o b, k)) = {At(<<x>> \o d, f, b, k + 1)}
      BY <1>one, <1>8, FromReturnMoves
    <3>5. After(Effect("R>", m), m) = {At(u, f, b, k + 1)}
      BY <1>5, <1>6, <1>7, <3>1, <3>4
    <3> QED BY <3>0, <3>1, <3>2, <3>3, <3>5
  <2>2. Takes(W("R>"), Code, F3, F4)
    BY <2>1 DEF Takes
  <2> HIDE DEF F3, F4
  <2> QED BY <1>4, <1>12, <2>2, StageEach
<1>14. Family(M[5], Code, F5)
  <2>1. ASSUME NEW n \in Code PROVE F4[n].state = "runs" /\ Stage({F4[n]}, W("DROP")) = {F5[n]}
    <3>0. PICK k : k = ((n + 2) + 1) + 1
      OBVIOUS
    <3>1. PICK m : m = At(u, f, b, k)
      OBVIOUS
    <3>2. m.state = "runs"
      BY <3>1, AtFields
    <3>3. Stage({m}, W("DROP")) = After(Effect("DROP", m), m)
      BY <3>2, StageOfWord
    <3>4. After(Effect("DROP", At(<<x>> \o d, f, b, k)), At(<<x>> \o d, f, b, k)) = {At(d, f, b, k + 1)}
      BY <1>one, <1>8, DropMoves
    <3>5. After(Effect("DROP", m), m) = {At(d, f, b, k + 1)}
      BY <1>5, <1>6, <1>7, <3>1, <3>4
    <3> QED BY <3>0, <3>1, <3>2, <3>3, <3>5
  <2>2. Takes(W("DROP"), Code, F4, F5)
    BY <2>1 DEF Takes
  <2> HIDE DEF F4, F5
  <2> QED BY <1>4, <1>13, <2>2, StageEach
<1>15. Family(M[6], Code, F6)
  <2>1. ASSUME NEW n \in Code PROVE F5[n].state = "runs" /\ Stage({F5[n]}, W("EXIT")) = {F6[n]}
    <3>0. PICK k : k = (((n + 2) + 1) + 1) + 1
      OBVIOUS
    <3>1. PICK m : m = At(d, f, b, k)
      OBVIOUS
    <3>2. m.state = "runs"
      BY <3>1, AtFields
    <3>3. Stage({m}, W("EXIT")) = After(Effect("EXIT", m), m)
      BY <3>2, StageOfWord
    <3>4. After(Effect("EXIT", At(d, f, <<Back(c)>> \o r, k)), At(d, f, <<Back(c)>> \o r, k)) = {At(d, f, r, Back(c).to)}
      BY <1>one, <1>8, BackType, <1>old, ExitMoves
    <3>5. After(Effect("EXIT", m), m) = {At(d, f, r, Back(c).to)}
      BY <1>5, <1>6, <1>7, <3>1, <3>4
    <3> QED BY <3>0, <3>1, <3>2, <3>3, <3>5, BackType
  <2>2. Takes(W("EXIT"), Code, F5, F6)
    BY <2>1 DEF Takes
  <2> HIDE DEF F5, F6
  <2> QED BY <1>4, <1>14, <2>2, StageEach
<1>16. M[6] = {At(d, f, r, c + 1)}
  BY <1>9, <1>15 DEF Family
<1>17. Results(p, At(d, f, r, c)) = {At(d, f, r, c + 1)}
  BY <1>3, <1>16
<1> QED BY <1>17 DEF p

\* A word made by DOES> comes back when it drops the address it is given.
LEMMA DoesComesBack ==
  ASSUME NEW d, NEW f, NEW r, NEW c \in Code, Stacks(d, f, r),
         Len(d) <= DataSize - 2, Len(r) <= RetSize - 2
  PROVE  Results(Program(<<"does", "DROP", "EXIT">>), At(d, f, r, c)) = {At(d, f, r, c + 1)}
<1> DEFINE p == Program(<<"does", "DROP", "EXIT">>)
<1>1. DOMAIN p = 1..3 /\ p[1] = W("does") /\ p[2] = W("DROP") /\ p[3] = W("EXIT")
  BY DEF Program
<1> HIDE DEF p
<1>2. PICK M : /\ M[0] = {At(d, f, r, c)} /\ Results(p, At(d, f, r, c)) = M[3]
               /\ \A k \in 0..2 : M[k + 1] = Stage(M[k], p[k + 1])
  <2>1. PICK m : m = At(d, f, r, c)
    OBVIOUS
  <2>2. PICK n \in Nat : n = 3
    OBVIOUS
  <2>3. DOMAIN p = 1..n
    BY <1>1, <2>2
  <2>4. PICK M : Traces(M, p, n, m)
    BY <2>2, <2>3, ResultsSteps
  <2>5. n - 1 = 2
    BY <2>2
  <2> QED BY <2>1, <2>2, <2>4, <2>5 DEF Traces
<1>3. /\ M[1] = Stage(M[0], W("does")) /\ M[2] = Stage(M[1], W("DROP"))
      /\ M[3] = Stage(M[2], W("EXIT"))
  <2>1. /\ 0 \in 0..2 /\ 1 \in 0..2 /\ 2 \in 0..2
        /\ 0 + 1 = 1 /\ 1 + 1 = 2 /\ 2 + 1 = 3
    OBVIOUS
  <2> QED BY <1>1, <1>2, <2>1
<1>4. PICK b : b = <<Back(c)>> \o r
  OBVIOUS
<1>5. Stacks(d, f, b) /\ Len(d) < DataSize /\ Len(r) < RetSize /\ Len(b) < RetSize
  BY <1>4, CallStacks
<1>6. Stacks(d, f, r) /\ Len(r) < RetSize
  BY <1>5
<1> DEFINE K == Given \X Code
           F1 == [k \in K |-> At(<<k[1]>> \o d, f, b, k[2])]
           F2 == [k \in K |-> At(d, f, b, k[2] + 1)]
           F3 == [k \in K |-> At(d, f, r, c + 1)]
<1>7. Family(M[1], K, F1)
  <2>1. Stage({At(d, f, r, c)}, W("does")) = After(Effect("does", At(d, f, r, c)), At(d, f, r, c))
    BY AtFields, StageOfWord
  <2>2. M[1] = {At(give \o d, f, b, n) : give \in Anything, n \in Code}
    BY <1>2, <1>3, <1>4, <1>5, <2>1, DoesMoves
  <2>3. ASSUME NEW y \in M[1] PROVE \E k \in K : y = F1[k]
    <3>1. PICK give \in Anything, n \in Code : y = At(give \o d, f, b, n)
      BY <2>2
    <3>2. PICK x \in Given : give = <<x>>
      BY DEF Anything
    <3>3. PICK k : k = <<x, n>>
      OBVIOUS
    <3>4. k \in K /\ k[1] = x /\ k[2] = n
      BY <3>3
    <3> QED BY <3>1, <3>2, <3>4
  <2>4. ASSUME NEW k \in K PROVE F1[k] \in M[1]
    <3>1. PICK x \in Given, n \in Code : k[1] = x /\ k[2] = n
      OBVIOUS
    <3>2. PICK give : give = <<x>>
      OBVIOUS
    <3>3. give \in Anything
      BY <3>1, <3>2 DEF Anything
    <3>4. At(give \o d, f, b, n) \in M[1]
      BY <2>2, <3>1, <3>3
    <3> QED BY <3>1, <3>2, <3>4
  <2> HIDE DEF K, F1
  <2>5. M[1] = {F1[k] : k \in K}
    BY <2>3, <2>4
  <2> QED BY <2>5 DEF Family
<1>8. Family(M[2], K, F2)
  <2>1. ASSUME NEW k \in K PROVE F1[k].state = "runs" /\ Stage({F1[k]}, W("DROP")) = {F2[k]}
    <3>1. PICK x : x = k[1]
      OBVIOUS
    <3>2. x \in Cell
      BY <3>1, MachineSizes DEF Cell
    <3>3. PICK n : n = k[2]
      OBVIOUS
    <3>4. PICK m : m = At(<<x>> \o d, f, b, n)
      OBVIOUS
    <3>5. m.state = "runs"
      BY <3>4, AtFields
    <3>6. Stage({m}, W("DROP")) = After(Effect("DROP", m), m)
      BY <3>5, StageOfWord
    <3>7. After(Effect("DROP", At(<<x>> \o d, f, b, n)), At(<<x>> \o d, f, b, n)) = {At(d, f, b, n + 1)}
      BY <1>5, <3>2, DropMoves
    <3> QED BY <3>1, <3>3, <3>4, <3>5, <3>6, <3>7
  <2>2. Takes(W("DROP"), K, F1, F2)
    BY <2>1 DEF Takes
  <2> HIDE DEF K, F1, F2
  <2> QED BY <1>3, <1>7, <2>2, StageEach
<1>9. Family(M[3], K, F3)
  <2>1. ASSUME NEW k \in K PROVE F2[k].state = "runs" /\ Stage({F2[k]}, W("EXIT")) = {F3[k]}
    <3>1. PICK n : n = k[2] + 1
      OBVIOUS
    <3>2. PICK m : m = At(d, f, b, n)
      OBVIOUS
    <3>3. m.state = "runs"
      BY <3>2, AtFields
    <3>4. Stage({m}, W("EXIT")) = After(Effect("EXIT", m), m)
      BY <3>3, StageOfWord
    <3>5. After(Effect("EXIT", At(d, f, <<Back(c)>> \o r, n)), At(d, f, <<Back(c)>> \o r, n)) = {At(d, f, r, Back(c).to)}
      BY <1>6, BackType, ExitMoves
    <3>6. After(Effect("EXIT", m), m) = {At(d, f, r, Back(c).to)}
      BY <1>4, <3>2, <3>5
    <3> QED BY <3>1, <3>2, <3>3, <3>4, <3>6, BackType
  <2>2. Takes(W("EXIT"), K, F2, F3)
    BY <2>1 DEF Takes
  <2> HIDE DEF K, F2, F3
  <2> QED BY <1>3, <1>8, <2>2, StageEach
<1>10. K # {}
  <2>1. c \in Code /\ Given # {}
    BY MachineSizes
  <2>2. PICK x \in Given : <<x, c>> \in K
    BY <2>1
  <2> QED BY <2>2
<1>11. M[3] = {At(d, f, r, c + 1)}
  BY <1>9, <1>10 DEF Family
<1>12. Results(p, At(d, f, r, c)) = {At(d, f, r, c + 1)}
  BY <1>2, <1>11
<1> QED BY <1>12 DEF p

\* A call comes back to the cell after it with the stacks as they were, wherever
\* it is made and whatever is on the stacks.
THEOREM SpecCallsComeBack == Spec => []CallsComeBack
<1>1. ASSUME IInv, Comparable(machine) PROVE CallsComeBack
  <2>1. PICK d, f, r, c : d = machine.data /\ f = machine.float /\ r = machine.ret /\ c = machine.ip
    OBVIOUS
  <2>2. machine = At(d, f, r, c) /\ [machine EXCEPT !.ip = @ + 1] = At(d, f, r, c + 1)
    BY <1>1, <2>1 DEF IInv, Machines, Comparable, At
  <2>3. /\ c \in Code /\ Stacks(d, f, r)
        /\ Len(d) <= DataSize - 2 /\ Len(r) <= RetSize - 2
    BY <1>1, <2>1 DEF IInv, Machines, Sized, Comparable, Stacks
  <2>4. Results(<<W("docol"), Lit(1), W(">R"), W("R>"), W("DROP"), W("EXIT")>>, machine)
          = {[machine EXCEPT !.ip = @ + 1]}
    BY <2>2, <2>3, ColonComesBack
  <2>5. Results(Program(<<"does", "DROP", "EXIT">>), machine) = {[machine EXCEPT !.ip = @ + 1]}
    BY <2>2, <2>3, DoesComesBack
  <2> QED BY <2>4, <2>5 DEF CallsComeBack
<1>2. IInv => CallsComeBack
  BY <1>1 DEF CallsComeBack
<1> QED BY <1>2, SpecInv, PTL

===============================================================================
