------------------------------ MODULE Dictionary ------------------------------
(***************************************************************************)
(* The dictionary and the data spaces: the words of src/src/runtime/prim.c *)
(* that define words and compile code, af_guarantee, af_allot and          *)
(* af_lookup of src/src/runtime/inner.c, and the lambdas of lambda.fs.     *)
(*                                                                         *)
(* The dictionary is shared: words holds every word defined, oldest first, *)
(* and chains[l] the words of the wordlist l, newest first, which the C    *)
(* code links by next_word.  Everything else a definition needs is the     *)
(* task's own: where its data space goes on, whether it compiles, the word *)
(* it has most recently made.  The order in which wordlists are searched   *)
(* and the one new words go to are those every task begins with.           *)
(*                                                                         *)
(* A data space is a chunk of cells, and a new chunk when that is nearly   *)
(* full; an address is <<task, chunk, cell>>.  code holds the instructions *)
(* compiled, at the address of their first cell.  For two questions a task *)
(* remembers what the C code does not: floor is the cell up to which its   *)
(* chunk holds headers and instructions, where the data it may give back   *)
(* begin, and beyond has the addresses outside any chunk it has stored to. *)
(*                                                                         *)
(* A task may execute any of these words at any time, in its outer         *)
(* interpreter or from within a word it runs, compiling or not; what a     *)
(* word defined by a program does is what the words it is made of do.      *)
(* The build is the default one, without AF_VERIFY_* checks.               *)
(***************************************************************************)
EXTENDS Naturals, Sequences, FiniteSets, FiniteSetsExt

CONSTANTS Tasks, Names, Lists,
          Order,          \* the wordlists searched; words go to the first
          NoData,         \* the tasks SPAWN-NO-DATA made
          FreeOnExit,     \* the tasks whose data space ends with them
          HeaderCells, MinGuaranteed, ChunkCells,
          MaxWords, MaxChunks,    \* bounds, of all words and of a task's chunks
          DataCells,              \* bound: the cells ALLOT allots
          MaxCode                 \* bound: the instructions compiled

ASSUME DictionarySizes ==
  /\ NoData \subseteq Tasks /\ FreeOnExit \subseteq Tasks
  /\ {HeaderCells, MinGuaranteed, ChunkCells, MaxWords, MaxChunks, DataCells, MaxCode} \subseteq Nat
  /\ HeaderCells > 0 /\ HeaderCells <= MinGuaranteed /\ MinGuaranteed <= ChunkCells
  /\ MaxChunks > 0
  /\ Order \in Seq(Lists) \ {<<>>}

VARIABLES words, chains, code, task

vars == <<words, chains, code, task>>

Addresses == Tasks \X (0..MaxChunks) \X (0..(ChunkCells + 3))
NoWord == 0
NoName == "no name"
WordIds == 1..MaxWords

Words == [name : Names \cup {NoName}, hidden : BOOLEAN, immediate : BOOLEAN,
          code : {"docol", "push", "does"}, secondary : Addresses]

Instructions == [op : {"call"}, word : WordIds]
                \cup [op : {"literal"}, word : WordIds \cup {NoWord}]
                \cup [op : {"branch"}, to : Addresses]
                \cup [op : {"does", "exit"}]

\* what [: leaves on the data stack for ;]
Frames == [branch : Addresses, outer : WordIds \cup {NoWord}, xt : WordIds]

-----------------------------------------------------------------------------
(* Data spaces.                                                            *)

At(t) == <<t, task[t].chunk, task[t].here>>
After(a, n) == <<a[1], a[2], a[3] + n>>
Elsewhere(t) == <<t, 0, 0>>      \* no address of a data space
Top(t) == IF task[t].chunk = 0 THEN 0 ELSE ChunkCells
Remaining(t) == Top(t) - task[t].here

\* mutant: one cell too many
Allots_Loose(t, n) == n <= Remaining(t) + 1

\* af_allot finds the cells
Allots(t, n) == n <= Remaining(t)

\* af_guarantee of the cells of a header, used cells further on: it stays in
\* the chunk, leaves it for a new one, or fails
Stays(t, used) ==
  LET room == Remaining(t) - used
  IN  HeaderCells <= room /\ (MinGuaranteed <= room \/ t \in FreeOnExit)
Moves(t, used) == ~ Stays(t, used) /\ t \notin FreeOnExit

\* af_reset, with the data space going on at here and the stores made outside
Reset(t, here, beyond) ==
  task' = [task EXCEPT ![t].compiling = FALSE, ![t].recent = NoWord,
                       ![t].frames = <<>>, ![t].here = here, ![t].beyond = beyond]

\* a message, and af_reset
Fail(t) ==
  Reset(t, task[t].here, task[t].beyond) /\ UNCHANGED <<words, chains, code>>

-----------------------------------------------------------------------------
(* Lookup.                                                                 *)

\* af_search_wordlist
FoundIn(l, n) ==
  LET hits == {i \in DOMAIN chains[l] :
                 words[chains[l][i]].name = n /\ ~ words[chains[l][i]].hidden}
  IN  IF hits = {} THEN NoWord ELSE chains[l][Min(hits)]

\* af_lookup
Lookup(n) ==
  LET hits == {i \in DOMAIN Order : FoundIn(Order[i], n) # NoWord}
  IN  IF hits = {} THEN NoWord ELSE FoundIn(Order[Min(hits)], n)

-----------------------------------------------------------------------------
Init ==
  /\ words = <<>> /\ chains = [l \in Lists |-> <<>>] /\ code = [a \in {} |-> {}]
  /\ task = [t \in Tasks |->
               [compiling |-> FALSE, recent |-> NoWord, here |-> 0, floor |-> 0,
                frames |-> <<>>, beyond |-> {},
                chunk |-> IF t \in NoData THEN 0 ELSE 1]]

\* whether the definition of the word made last goes on
Open(t) == task[t].recent # NoWord /\ words[task[t].recent].hidden

\* A program defines no word between [: and ;].
NoLambda(t) == task[t].frames = <<>>

-----------------------------------------------------------------------------
(* Headers.                                                                *)

\* mutant: the list ends at the new word
Linked_Alone(list, w) == <<w>>

\* next_word of w is the first of the list, w its first
Linked(list, w) == <<w>> \o list

\* af_allocate of a header used cells further on, and the word linked in the
\* current wordlist unless it has no name
MakeWord(t, used, name, hidden, kind) ==
  LET place == IF Stays(t, used) THEN After(At(t), used) ELSE <<t, task[t].chunk + 1, 0>>
  IN  /\ Stays(t, used) \/ Moves(t, used)
      /\ Len(words) < MaxWords /\ (Moves(t, used) => task[t].chunk < MaxChunks)
      /\ words' = Append(words, [name |-> name, hidden |-> hidden, immediate |-> FALSE,
                                 code |-> kind,
                                 secondary |-> IF kind = "docol" THEN After(place, HeaderCells)
                                               ELSE Elsewhere(t)])
      /\ chains' = IF name = NoName THEN chains
                   ELSE [chains EXCEPT ![Order[1]] = Linked(@, Len(words) + 1)]

\* the task with the code compiled up to here
UpTo(r, here) == [r EXCEPT !.here = here, !.floor = here]

\* mutant: a new chunk is used from the cell the old one was left at
Headed_Late(t, used) ==
  [UpTo(task[t], task[t].here + used + HeaderCells) EXCEPT
     !.chunk = IF Stays(t, used) THEN @ ELSE @ + 1, !.recent = Len(words) + 1]

\* the task with the new header
Headed(t, used) ==
  [UpTo(task[t], (IF Stays(t, used) THEN task[t].here + used ELSE 0) + HeaderCells) EXCEPT
     !.chunk = IF Stays(t, used) THEN @ ELSE @ + 1, !.recent = Len(words) + 1]

\* CREATE and CREATE-WITH-NAME
Create(t, n) ==
  /\ NoLambda(t) /\ MakeWord(t, 0, n, FALSE, "push")
  /\ task' = [task EXCEPT ![t] = Headed(t, 0)]
  /\ UNCHANGED code

\* mutant: the word is not hidden
Colon_Visible(t, n) ==
  /\ NoLambda(t) /\ MakeWord(t, 0, n, FALSE, "docol")
  /\ task' = [task EXCEPT ![t] = [Headed(t, 0) EXCEPT !.compiling = TRUE]]
  /\ UNCHANGED code

\* : and, for NoName, :NONAME
Colon(t, n) ==
  /\ NoLambda(t) /\ MakeWord(t, 0, n, TRUE, "docol")
  /\ task' = [task EXCEPT ![t] = [Headed(t, 0) EXCEPT !.compiling = TRUE]]
  /\ UNCHANGED code

\* CREATE and : without a name in the input, or without room for the header
NoHeader(t) == Fail(t)

\* CREATE-NONAME-AT of a closure, in memory of its own
CreateNonameAt(t) ==
  /\ NoLambda(t) /\ Len(words) < MaxWords
  /\ words' = Append(words, [name |-> NoName, hidden |-> FALSE, immediate |-> FALSE,
                             code |-> "push", secondary |-> Elsewhere(t)])
  /\ task' = [task EXCEPT ![t].compiling = FALSE, ![t].recent = Len(words) + 1]
  /\ UNCHANGED <<chains, code>>

-----------------------------------------------------------------------------
(* Compiled code.                                                          *)

Call(w) == [op |-> "call", word |-> w]
Literal(w) == [op |-> "literal", word |-> w]
Branch(a) == [op |-> "branch", to |-> a]
DoesCode == [op |-> "does"]
Exit == [op |-> "exit"]

\* the cells of an instruction, (LITERAL) and EXIT with one more and BRANCH
\* with two
Size(i) == CASE i.op \in {"call", "does"} -> 1 [] i.op = "branch" -> 3 [] OTHER -> 2

\* the code, with the instruction i at the address a
With(a, i, before) ==
  [b \in DOMAIN before \cup {a} |-> IF b = a THEN i ELSE before[b]]

\* af_allot, and the instruction i in the cells
Compile(t, i) ==
  /\ Allots(t, Size(i)) /\ Cardinality(DOMAIN code) < MaxCode
  /\ code' = With(At(t), i, code)
  /\ UNCHANGED chains

Further(t, i) == [task EXCEPT ![t] = UpTo(@, @.here + Size(i))]

\* the interpreter compiles a word it finds
CompileName(t, n) ==
  LET w == Lookup(n)
  IN  /\ task[t].compiling /\ w # NoWord /\ ~ words[w].immediate
      /\ Compile(t, Call(w)) /\ task' = Further(t, Call(w))
      /\ words' = words

\* ... or the primitive DOES>
CompileDoes(t) ==
  /\ task[t].compiling
  /\ Compile(t, DoesCode) /\ task' = Further(t, DoesCode)
  /\ words' = words

\* ... or a number, which LITERAL compiles as well; a double cell is two
CompileNumber(t) ==
  /\ task[t].compiling
  /\ Compile(t, Literal(NoWord)) /\ task' = Further(t, Literal(NoWord))
  /\ words' = words

\* [']
BracketTick(t, n) ==
  LET w == Lookup(n)
  IN  /\ task[t].compiling
      /\ \/ /\ w # NoWord
            /\ Compile(t, Literal(w)) /\ task' = Further(t, Literal(w))
            /\ words' = words
         \/ /\ w = NoWord /\ Allots(t, 2) /\ Reset(t, task[t].here + 2, task[t].beyond)
            /\ UNCHANGED <<words, chains, code>>

\* ; compiles EXIT in the word made last.  A program executes neither this nor
\* IMMEDIATE before it has made one: the default build does not check.
Semi(t) ==
  /\ NoLambda(t) /\ task[t].recent # NoWord
  /\ Compile(t, Exit)
  /\ task' = [Further(t, Exit) EXCEPT ![t].compiling = FALSE]
  /\ words' = [words EXCEPT ![task[t].recent].hidden = FALSE]

\* a name that is no number, and one of the words above with no cells left
ParseError(t, n) == Lookup(n) = NoWord /\ Fail(t)
DataSpaceOverflow(t) == ~ Allots(t, 2) /\ Fail(t)

Immediate(t) ==
  /\ task[t].recent # NoWord
  /\ words' = [words EXCEPT ![task[t].recent].immediate = TRUE]
  /\ UNCHANGED <<chains, code, task>>

\* [ and ]; a program compiles no code outside of a definition
Bracket(t, compiling) ==
  /\ compiling => Open(t)
  /\ task' = [task EXCEPT ![t].compiling = compiling]
  /\ UNCHANGED <<words, chains, code>>

\* ALLOT, and , of data; a program leaves no hole in a definition
Allot(t) ==
  /\ ~ Open(t) /\ Allots(t, DataCells)
  /\ task' = [task EXCEPT ![t].here = @ + DataCells]
  /\ UNCHANGED <<words, chains, code>>

\* ALLOT of a negative number, for which af_allot checks nothing; a program
\* gives back cells that hold data only, not code it may still run
GiveBack(t) ==
  /\ ~ Open(t) /\ task[t].floor + DataCells <= task[t].here
  /\ task' = [task EXCEPT ![t].here = @ - DataCells]
  /\ UNCHANGED <<words, chains, code>>

\* ALLOT fails in , and in the words made of it, RECURSE, [: and ;], which fill
\* the cells there are first.  By then , has stored one more cell, at HERE: the
\* memory after the chunk is in no data space, and what it held is not followed.
CommaFull(t) ==
  /\ task[t].chunk # 0 /\ Remaining(t) < 4
  /\ Reset(t, Top(t), task[t].beyond \cup {<<t, task[t].chunk, Top(t)>>})
  /\ UNCHANGED <<words, chains, code>>

-----------------------------------------------------------------------------
(* Lambdas.                                                                *)

\* [: compiles a BRANCH over the lambda, then :NONAME begins it; when that
\* leaves the chunk, the BRANCH is what brings the definition on.
OpenLambda(t) ==
  /\ task[t].compiling /\ Open(t) /\ Allots(t, 3) /\ Cardinality(DOMAIN code) < MaxCode
  /\ MakeWord(t, 3, NoName, TRUE, "docol")
  /\ code' = With(At(t), Branch(Elsewhere(t)), code)
  /\ task' = [task EXCEPT ![t] =
       [Headed(t, 3) EXCEPT
          !.frames = <<[branch |-> At(t), outer |-> task[t].recent,
                        xt |-> Len(words) + 1]>> \o @]]

\* the word that goes on after ;]
\* mutant: LATESTXT is not set back
Outer_Lambda(frame) == frame.xt

Outer(frame) == frame.outer

\* ;] compiles EXIT, makes the BRANCH come here and compiles the lambda's token.
CloseLambda(t) ==
  /\ task[t].compiling /\ ~ NoLambda(t) /\ Allots(t, 4)
  /\ Cardinality(DOMAIN code) < MaxCode - 1
  /\ LET frame == Head(task[t].frames)
         end == After(At(t), 2)
     IN  /\ code' = With(end, Literal(frame.xt), With(At(t), Exit,
                          With(frame.branch, Branch(end), code)))
         /\ task' = [task EXCEPT ![t] = [UpTo(task[t], task[t].here + 4) EXCEPT
                       !.recent = Outer(frame), !.frames = Tail(@)]]
  /\ UNCHANGED <<words, chains>>

\* RECURSE
Recurse(t) ==
  /\ task[t].compiling /\ Open(t)
  /\ Compile(t, Call(task[t].recent)) /\ task' = Further(t, Call(task[t].recent))
  /\ words' = words

-----------------------------------------------------------------------------
(* Where control goes.                                                     *)

\* the first instruction of a word that has code; a token of it may be executed
Entry(w) ==
  IF w # NoWord /\ words[w].code \in {"docol", "does"} THEN {words[w].secondary} ELSE {}

Flow(a) ==
  LET i == code[a]
  IN  CASE i.op \in {"call", "literal"} -> {After(a, Size(i))} \cup Entry(i.word)
        [] i.op = "branch" -> {i.to}
        [] i.op = "does" -> {After(a, 1)}      \* in the words it is executed for
        [] OTHER -> {}

\* where control may come to from the addresses S
Reached(S) ==
  LET R[n \in 0..(Cardinality(DOMAIN code) + 1)] ==
        IF n = 0 THEN S
        ELSE LET before == R[n - 1]
             IN  before \cup UNION {Flow(a) : a \in before \cap DOMAIN code}
  IN  R[Cardinality(DOMAIN code) + 1]

Runnable == Reached(UNION {Entry(w) : w \in {v \in DOMAIN words : ~ words[v].hidden}})

\* DOES> in a word that runs: the word made last goes on after it.
Does(t) ==
  /\ task[t].recent # NoWord
  /\ \E a \in Runnable \cap DOMAIN code :
       /\ code[a] = DoesCode
       /\ words' = [words EXCEPT ![task[t].recent].code = "does",
                                 ![task[t].recent].secondary = After(a, 1)]
  /\ UNCHANGED <<chains, code, task>>

-----------------------------------------------------------------------------
Define(t) ==
  \/ \E n \in Names : Create(t, n) \/ Colon(t, n)
  \/ Colon(t, NoName) \/ CreateNonameAt(t) \/ NoHeader(t)
  \/ Immediate(t) \/ Does(t)

CompileStep(t) ==
  \/ \E n \in Names : CompileName(t, n) \/ BracketTick(t, n) \/ ParseError(t, n)
  \/ CompileDoes(t) \/ CompileNumber(t) \/ Semi(t) \/ DataSpaceOverflow(t)
  \/ \E compiling \in BOOLEAN : Bracket(t, compiling)
  \/ Allot(t) \/ GiveBack(t) \/ CommaFull(t)
  \/ OpenLambda(t) \/ CloseLambda(t) \/ Recurse(t)

Next ==
  \E t \in Tasks : Define(t) \/ CompileStep(t)

Spec == Init /\ [][Next]_vars

-----------------------------------------------------------------------------
(* Properties.                                                             *)

\* Every variable has its type; a wordlist links words and only once.
DictionaryTypeOK ==
  /\ words \in Seq(Words) /\ Len(words) <= MaxWords
  /\ \A l \in Lists : /\ chains[l] \in Seq(DOMAIN words)
                      /\ \A i, j \in DOMAIN chains[l] : chains[l][i] = chains[l][j] => i = j
  /\ DOMAIN code \subseteq Addresses /\ \A a \in DOMAIN code : code[a] \in Instructions
  /\ \A t \in Tasks :
       /\ task[t].compiling \in BOOLEAN /\ task[t].recent \in {NoWord} \cup DOMAIN words
       /\ task[t].chunk \in 0..MaxChunks /\ task[t].here \in 0..Top(t)
       /\ task[t].floor \in 0..task[t].here
       /\ task[t].frames \in Seq(Frames) /\ task[t].beyond \subseteq Addresses

\* What a word that can be found, or whose token a running word holds, does is
\* all there: control never leaves the code compiled, whatever resets cut
\* definitions short and wherever a chunk ended in the middle of one.
CodeEnds == Runnable \subseteq DOMAIN code

\* While a definition is open, what its task compiles next is where control
\* comes to in the word that ; will let be found: a lambda in the middle of it
\* is jumped over, into another chunk if need be.
CompilesRecent ==
  \A t \in Tasks :
    Open(t) /\ words[task[t].recent].code = "docol" =>
      LET reached == Reached({words[task[t].recent].secondary})
      IN  At(t) \in reached /\ reached \subseteq DOMAIN code \cup Runnable \cup
                                  {At(u) : u \in Tasks}

\* No two instructions overlap, none reaches past the end of its chunk, and none
\* lies where the task has yet to allot or in data it may give back, over ALLOTs
\* forth and back, chunks that run out and definitions cut short.  What , stores
\* past the end of a chunk is the one cell next to it.
CellsApart ==
  /\ \A a \in DOMAIN code :
       /\ a[3] + Size(code[a]) <= ChunkCells
       /\ a[2] = task[a[1]].chunk => a[3] + Size(code[a]) <= task[a[1]].floor
       /\ \A b \in DOMAIN code \ {a} :
            <<a[1], a[2]>> = <<b[1], b[2]>> /\ a[3] <= b[3] => a[3] + Size(code[a]) <= b[3]
  /\ \A t \in Tasks : \A b \in task[t].beyond : b[3] = ChunkCells

\* What a wordlist finds for a name is replaced by a newer word of that name and
\* by nothing else: no definition, reset or other task takes a name away.
NamesKept ==
  [][\A l \in Lists, n \in Names : FoundIn(l, n) <= FoundIn(l, n)']_vars

=============================================================================
