--------------------------- MODULE DictionaryProofs ---------------------------
(***************************************************************************)
(* The layout of the data spaces, the wordlists and where the compiled     *)
(* code goes, for every number of tasks, names and words and every size of *)
(* chunks and headers.                                                     *)
(*                                                                         *)
(* The first half is about where things lie: DictIInv.  The second is      *)
(* about where control goes: FlowInv says that some set of addresses has   *)
(* all that can be executed and is never left, and of each task that the   *)
(* word it has made last, and each definition around a lambda, has a set   *)
(* of its own that is left at one place only.  None of these sets is given *)
(* a definition, so that no step needs to say how far control has come.    *)
(***************************************************************************)
EXTENDS Dictionary, WellFoundedInduction, FiniteSetTheorems, TLAPS

-----------------------------------------------------------------------------
(* Names.  FoundIn is the newest of the words of a name that can be seen.  *)

\* The least element of a set of numbers exists.
LEMMA LeastExists ==
  ASSUME NEW T, T \subseteq Nat, T # {}
  PROVE  \E x \in T : \A y \in T : x <= y
<1>1. PICK x \in T : \A y \in T : ~ (<<y, x>> \in OpToRel(<, Nat))
  BY NatLessThanWellFounded, WFMin
<1>2. \A y \in T : ~ (y < x)
  BY <1>1 DEF OpToRel
<1> QED BY <1>2

LEMMA MinIsLeast ==
  ASSUME NEW T, T \subseteq Nat, T # {}
  PROVE  Min(T) \in T /\ \A y \in T : Min(T) <= y
BY LeastExists DEF Min

\* words and wordlists have their types, and a wordlist has its newest first
WordsInv ==
  /\ words \in Seq(Words) /\ Len(words) <= MaxWords
  /\ chains \in [Lists -> Seq(DOMAIN words)]
  /\ \A l \in Lists : \A i, j \in DOMAIN chains[l] :
       i < j => chains[l][i] > chains[l][j]

Hits(l, n) == {i \in DOMAIN chains[l] :
                 words[chains[l][i]].name = n /\ ~ words[chains[l][i]].hidden}
Visible(l, n) == {chains[l][i] : i \in Hits(l, n)}

FoundLaw(l, n) ==
  /\ Visible(l, n) = {} => FoundIn(l, n) = NoWord
  /\ Visible(l, n) # {} => FoundIn(l, n) \in Visible(l, n)
  /\ FoundIn(l, n) \in {NoWord} \cup DOMAIN words
  /\ \A w \in Visible(l, n) : w <= FoundIn(l, n)

LEMMA FoundNewest ==
  ASSUME WordsInv, NEW l \in Lists, NEW n
  PROVE  FoundLaw(l, n)
<1>1. /\ chains[l] \in Seq(DOMAIN words) /\ DOMAIN words \subseteq Nat
      /\ DOMAIN words = 1..Len(words) /\ Len(words) \in Nat
      /\ \A i, j \in DOMAIN chains[l] : i < j => chains[l][i] > chains[l][j]
  BY DEF WordsInv
<1>2. Hits(l, n) \subseteq Nat /\ Hits(l, n) \subseteq DOMAIN chains[l]
  BY <1>1 DEF Hits
<1>3. FoundIn(l, n) = IF Hits(l, n) = {} THEN NoWord ELSE chains[l][Min(Hits(l, n))]
  BY DEF FoundIn, Hits
<1>4. CASE Hits(l, n) = {}
  BY <1>3, <1>4 DEF Visible, FoundLaw
<1>5. CASE Hits(l, n) # {}
  <2> DEFINE first == Min(Hits(l, n))
  <2>1. first \in Hits(l, n) /\ \A i \in Hits(l, n) : first <= i
    BY <1>2, <1>5, MinIsLeast
  <2>2. FoundIn(l, n) = chains[l][first]
    BY <1>3, <1>5
  <2> HIDE DEF first
  <2>3. ASSUME NEW i \in Hits(l, n)
        PROVE  chains[l][i] <= chains[l][first]
    <3>1. i = first \/ first < i
      BY <1>2, <2>1
    <3>2. chains[l][i] \in Nat /\ chains[l][first] \in Nat
      BY <1>1, <1>2, <2>1
    <3> QED BY <1>1, <1>2, <2>1, <3>1, <3>2
  <2>4. FoundIn(l, n) \in DOMAIN words
    BY <1>1, <1>2, <2>1, <2>2
  <2> QED BY <1>5, <2>1, <2>2, <2>3, <2>4 DEF Visible, FoundLaw
<1> QED BY <1>4, <1>5

LEMMA FoundNewestNext ==
  ASSUME NEW CONSTANT l \in Lists, NEW CONSTANT n
  PROVE  WordsInv' => FoundLaw(l, n)'
<1>1. WordsInv => FoundLaw(l, n)
  BY FoundNewest
<1> QED BY <1>1, PTL

LEMMA LookupType ==
  ASSUME WordsInv, NEW n, Lookup(n) # NoWord
  PROVE  Lookup(n) \in DOMAIN words
<1> DEFINE hits == {i \in DOMAIN Order : FoundIn(Order[i], n) # NoWord}
<1>1. hits # {}
  BY DEF Lookup
<1>2. hits \subseteq Nat /\ \A i \in hits : Order[i] \in Lists
  BY DictionarySizes
<1>3. Min(hits) \in hits
  BY <1>1, <1>2, MinIsLeast
<1>4. Lookup(n) = FoundIn(Order[Min(hits)], n)
  BY <1>1 DEF Lookup
<1> HIDE DEF hits
<1> QED BY <1>2, <1>3, <1>4, FoundNewest DEF FoundLaw

\* No name is taken away from a word, no word is hidden again, and no wordlist
\* loses one.
WordsKept ==
  /\ DOMAIN words \subseteq DOMAIN words'
  /\ \A w \in DOMAIN words : /\ words'[w].name = words[w].name
                             /\ words'[w].hidden => words[w].hidden
  /\ \A l \in Lists : \A i \in DOMAIN chains[l] :
       \E j \in DOMAIN chains'[l] : chains'[l][j] = chains[l][i]

LEMMA KeptNames ==
  ASSUME WordsInv, WordsInv', WordsKept, NEW l \in Lists, NEW n
  PROVE  FoundIn(l, n) <= FoundIn(l, n)'
<1>1. \A i \in DOMAIN chains[l] : chains[l][i] \in DOMAIN words
  BY DEF WordsInv
<1>2. Visible(l, n) \subseteq Visible(l, n)'
  <2>1. ASSUME NEW i \in Hits(l, n)
        PROVE  chains[l][i] \in Visible(l, n)'
    <3>1. PICK j \in DOMAIN chains'[l] : chains'[l][j] = chains[l][i]
      BY DEF WordsKept, Hits
    <3>2. chains[l][i] \in DOMAIN words
      BY <1>1 DEF Hits
    <3>3. j \in Hits(l, n)'
      BY <3>1, <3>2 DEF WordsKept, Hits
    <3> QED BY <3>1, <3>3 DEF Visible
  <2> QED BY <2>1 DEF Visible
<1>3. /\ FoundIn(l, n)' \in {NoWord} \cup DOMAIN words'
      /\ \A w \in Visible(l, n)' : w <= FoundIn(l, n)'
  BY FoundNewestNext DEF FoundLaw
<1>4. FoundIn(l, n)' \in Nat
  BY <1>3 DEF WordsInv, NoWord
<1>5. CASE Visible(l, n) = {}
  BY <1>4, <1>5, FoundNewest DEF NoWord, FoundLaw
<1>6. CASE Visible(l, n) # {}
  BY <1>2, <1>3, <1>6, FoundNewest DEF FoundLaw
<1> QED BY <1>5, <1>6
LEMMA WordAdded ==
  ASSUME WordsInv, NEW r \in Words, words' = Append(words, r),
         Len(words) < MaxWords,
         \/ chains' = chains
         \/ chains' = [chains EXCEPT ![Order[1]] = Linked(@, Len(words) + 1)]
  PROVE  WordsInv' /\ WordsKept /\ Len(words) + 1 \in DOMAIN words'
<1>1. /\ words \in Seq(Words) /\ Len(words) \in Nat /\ MaxWords \in Nat
      /\ DOMAIN words = 1..Len(words)
      /\ chains \in [Lists -> Seq(DOMAIN words)]
      /\ \A l \in Lists : \A i, j \in DOMAIN chains[l] :
           i < j => chains[l][i] > chains[l][j]
  BY DictionarySizes DEF WordsInv
<1>2. /\ words' \in Seq(Words) /\ Len(words') = Len(words) + 1
      /\ DOMAIN words' = 1..(Len(words) + 1)
      /\ \A w \in DOMAIN words : words'[w] = words[w]
      /\ Len(words') <= MaxWords
  BY <1>1
<1>3. Order[1] \in Lists
  BY DictionarySizes
<1> DEFINE w == Len(words) + 1
<1>4. ASSUME NEW l \in Lists
      PROVE  /\ chains'[l] \in Seq(DOMAIN words')
             /\ \A i, j \in DOMAIN chains'[l] :
                  i < j => chains'[l][i] > chains'[l][j]
             /\ \A i \in DOMAIN chains[l] :
                  \E j \in DOMAIN chains'[l] : chains'[l][j] = chains[l][i]
  <2> DEFINE list == chains[l]
             more == <<w>> \o list
  <2>1. list \in Seq(1..Len(words))
    BY <1>1
  <2>2. CASE chains'[l] = list
    <3>1. list \in Seq(DOMAIN words')
      BY <1>1, <1>2, <2>1
    <3> QED BY <1>1, <2>2, <3>1
  <2>3. CASE chains'[l] = more
    <3>1. /\ more \in Seq(1..w) /\ Len(more) = Len(list) + 1
          /\ \A i \in 1..Len(more) : more[i] = IF i = 1 THEN w ELSE list[i - 1]
      <4>1. list \in Seq(1..w) /\ w \in 1..w
        BY <1>1, <2>1
      <4> HIDE DEF list, w
      <4> QED BY <4>1
    <3>2. \A i \in 1..Len(list) : list[i] \in Nat /\ list[i] < w
      BY <1>1, <2>1
    <3>3. \A i, j \in 1..Len(list) : i < j => list[i] > list[j]
      BY <1>1, <2>1
    <3>4. Len(list) \in Nat /\ w \in Nat
      BY <1>1, <2>1
    <3>5. DOMAIN words' = 1..w
      BY <1>2
    <3> HIDE DEF list, more, w
    <3>6. ASSUME NEW i \in 1..Len(more), NEW j \in 1..Len(more), i < j
          PROVE  more[i] > more[j]
      <4>1. j # 1 /\ j - 1 \in 1..Len(list)
        BY <3>1, <3>4, <3>6
      <4>2. CASE i = 1
        BY <3>1, <3>2, <3>4, <4>1, <4>2
      <4>3. CASE i # 1
        <5>1. i - 1 \in 1..Len(list) /\ i - 1 < j - 1
          BY <3>1, <3>4, <3>6, <4>3
        <5> QED BY <3>1, <3>3, <4>1, <4>3, <5>1
      <4> QED BY <4>2, <4>3
    <3>7. ASSUME NEW i \in 1..Len(list)
          PROVE  i + 1 \in 1..Len(more) /\ more[i + 1] = list[i]
      BY <3>1, <3>4
    <3>8. DOMAIN more = 1..Len(more) /\ DOMAIN list = 1..Len(list)
      BY <2>1, <3>1
    <3> QED BY <2>3, <3>1, <3>5, <3>6, <3>7, <3>8 DEF list
  <2>4. chains'[l] \in {list, more}
    BY <1>1, <1>3 DEF Linked
  <2> QED BY <2>2, <2>3, <2>4
<1>5. chains' = [l \in Lists |-> chains'[l]]
  BY <1>1
<1>6. WordsInv'
  BY <1>2, <1>4, <1>5 DEF WordsInv
<1>7. WordsKept
  BY <1>1, <1>2, <1>4 DEF WordsKept
<1> QED BY <1>1, <1>2, <1>6, <1>7

LEMMA WordChanged ==
  ASSUME WordsInv, NEW w \in DOMAIN words, NEW r \in Words,
         r.name = words[w].name, r.hidden => words[w].hidden,
         words' = [words EXCEPT ![w] = r], chains' = chains
  PROVE  WordsInv' /\ WordsKept
<1>1. /\ words \in Seq(Words) /\ chains \in [Lists -> Seq(DOMAIN words)]
      /\ Len(words) \in Nat /\ DOMAIN words = 1..Len(words)
  BY DEF WordsInv
<1>2. /\ words' \in Seq(Words) /\ Len(words') = Len(words)
      /\ DOMAIN words' = DOMAIN words
      /\ \A v \in DOMAIN words : words'[v] = IF v = w THEN r ELSE words[v]
  BY <1>1
<1>3. WordsInv'
  BY <1>2 DEF WordsInv
<1>4. WordsKept
  BY <1>2 DEF WordsKept
<1> QED BY <1>3, <1>4

LEMMA WordsSame ==
  ASSUME WordsInv, words' = words, chains' = chains
  PROVE  WordsInv' /\ WordsKept
BY DEF WordsInv, WordsKept
-----------------------------------------------------------------------------
(* Cells.                                                                  *)

LEMMA SizeOf ==
  ASSUME NEW i \in Instructions
  PROVE  /\ Size(i) \in 1..3
         /\ i.op \in {"call", "does"} => Size(i) = 1
         /\ i.op = "branch" => Size(i) = 3
         /\ i.op \in {"literal", "exit"} => Size(i) = 2
<1>1. i.op \in {"call", "literal", "branch", "does", "exit"}
  BY DEF Instructions
<1> QED BY <1>1 DEF Size

\* the cell next to a chunk, for each chunk
NextCells == Tasks \X (0..MaxChunks) \X {ChunkCells}

TaskRecords == [compiling : BOOLEAN, recent : {NoWord} \cup WordIds, here : Nat,
                floor : Nat, frames : Seq(Frames), chunk : 0..MaxChunks,
                beyond : SUBSET NextCells]

\* the code c lies in the chunks of the tasks as it should: below the cells each
\* may give back, with no two instructions in the same cell
Laid(c, tasks) ==
  /\ DOMAIN c \subseteq Addresses
  /\ \A a \in DOMAIN c :
       /\ c[a] \in Instructions /\ a[3] + Size(c[a]) <= ChunkCells
       /\ a[2] <= tasks[a[1]].chunk
       /\ a[2] = tasks[a[1]].chunk => a[3] + Size(c[a]) <= tasks[a[1]].floor
       /\ \A b \in DOMAIN c \ {a} :
            <<a[1], a[2]>> = <<b[1], b[2]>> /\ a[3] <= b[3]
              => a[3] + Size(c[a]) <= b[3]

\* a data space keeps the code it has, or goes on in a later chunk
Onward(old, new) == \/ new.chunk = old.chunk /\ old.floor <= new.floor
                    \/ new.chunk > old.chunk

\* the code of a data space goes on n cells further, or in a later chunk
Past(old, new, n) == \/ new.chunk = old.chunk /\ old.here + n <= new.floor
                     \/ new.chunk > old.chunk

LEMMA PastOnward ==
  ASSUME NEW old \in TaskRecords, NEW new \in TaskRecords, NEW n \in Nat,
         old.floor <= old.here, Past(old, new, n)
  PROVE  Onward(old, new)
<1>1. /\ old.floor \in Nat /\ old.here \in Nat /\ new.floor \in Nat
      /\ \/ new.chunk = old.chunk /\ old.here + n <= new.floor
         \/ new.chunk > old.chunk
  BY DEF TaskRecords, Past
<1> QED BY <1>1 DEF Onward

LEMMA UpToIs ==
  ASSUME NEW r \in TaskRecords, NEW n \in Nat
  PROVE  /\ UpTo(r, n) \in TaskRecords
         /\ UpTo(r, n).here = n /\ UpTo(r, n).floor = n
         /\ UpTo(r, n).recent = r.recent /\ UpTo(r, n).frames = r.frames
         /\ UpTo(r, n).chunk = r.chunk
BY DEF UpTo, TaskRecords

LEMMA AddressParts ==
  ASSUME NEW a \in Addresses
  PROVE  /\ a[1] \in Tasks /\ a[2] \in 0..MaxChunks /\ a[3] \in 0..(ChunkCells + 3)
         /\ a[2] \in Nat /\ a[3] \in Nat
BY DictionarySizes DEF Addresses

LEMMA LaidOn ==
  ASSUME NEW c, NEW tasks \in [Tasks -> TaskRecords], Laid(c, tasks),
         NEW t \in Tasks, NEW r \in TaskRecords, Onward(tasks[t], r)
  PROVE  Laid(c, [tasks EXCEPT ![t] = r])
<1> DEFINE after == [tasks EXCEPT ![t] = r]
<1>1. ASSUME NEW a \in DOMAIN c
      PROVE  /\ a[2] <= after[a[1]].chunk
             /\ a[2] = after[a[1]].chunk => a[3] + Size(c[a]) <= after[a[1]].floor
  <2>1. /\ a[1] \in Tasks /\ a[2] \in Nat /\ a[3] \in Nat
        /\ c[a] \in Instructions
        /\ a[2] <= tasks[a[1]].chunk
        /\ a[2] = tasks[a[1]].chunk => a[3] + Size(c[a]) <= tasks[a[1]].floor
    BY AddressParts DEF Laid
  <2>2. Size(c[a]) \in Nat
    BY <2>1, SizeOf
  <2>3. /\ tasks[t].chunk \in Nat /\ tasks[t].floor \in Nat
        /\ r.chunk \in Nat /\ r.floor \in Nat
    BY DictionarySizes DEF TaskRecords
  <2>4. \/ r.chunk = tasks[t].chunk /\ tasks[t].floor <= r.floor
        \/ r.chunk > tasks[t].chunk
    BY <2>3 DEF Onward
  <2>5. after[a[1]] = IF a[1] = t THEN r ELSE tasks[a[1]]
    BY <2>1
  <2> HIDE DEF after
  <2> QED BY <2>1, <2>2, <2>3, <2>4, <2>5
<1> HIDE DEF after
<1>2. Laid(c, after)
  BY <1>1 DEF Laid
<1> QED BY <1>2 DEF after

LEMMA LaidMore ==
  ASSUME NEW c, NEW tasks \in [Tasks -> TaskRecords], Laid(c, tasks),
         NEW t \in Tasks, NEW r \in TaskRecords, NEW i \in Instructions,
         tasks[t].here + Size(i) <= ChunkCells, Past(tasks[t], r, Size(i)),
         tasks[t].floor <= tasks[t].here
  PROVE  LET here == <<t, tasks[t].chunk, tasks[t].here>> IN
         /\ Laid(With(here, i, c), [tasks EXCEPT ![t] = r])
         /\ here \in Addresses /\ here \notin DOMAIN c
<1> DEFINE here == <<t, tasks[t].chunk, tasks[t].here>>
           more == With(here, i, c)
           after == [tasks EXCEPT ![t] = r]
<1>1. /\ tasks[t].chunk \in 0..MaxChunks /\ tasks[t].here \in Nat
      /\ r.chunk \in Nat /\ r.floor \in Nat /\ ChunkCells \in Nat
      /\ tasks[t].chunk \in Nat /\ tasks[t].floor \in Nat
  BY DictionarySizes DEF TaskRecords
<1>2. Size(i) \in Nat /\ Size(i) > 0
  BY SizeOf
<1>3. /\ here \in Addresses /\ here[1] = t /\ here[2] = tasks[t].chunk
      /\ here[3] = tasks[t].here
  <2>1. tasks[t].here \in 0..(ChunkCells + 3)
    BY <1>1, <1>2
  <2> QED BY <1>1, <2>1 DEF Addresses
<1>4. ASSUME NEW a \in DOMAIN c
      PROVE  /\ a[1] \in Tasks /\ a[2] \in Nat /\ a[3] \in Nat /\ a \in Addresses
             /\ c[a] \in Instructions /\ Size(c[a]) \in Nat /\ Size(c[a]) > 0
             /\ a[2] <= tasks[a[1]].chunk
             /\ a[2] = tasks[a[1]].chunk => a[3] + Size(c[a]) <= tasks[a[1]].floor
             /\ a[3] + Size(c[a]) <= ChunkCells
  BY AddressParts, SizeOf DEF Laid
<1>5. here \notin DOMAIN c
  BY <1>1, <1>3, <1>4
<1>6. /\ DOMAIN more = DOMAIN c \cup {here} /\ more[here] = i
      /\ \A a \in DOMAIN c : more[a] = c[a]
  BY <1>5 DEF With
<1>7. /\ \A u \in Tasks : after[u] = IF u = t THEN r ELSE tasks[u]
      /\ \/ r.chunk = tasks[t].chunk /\ tasks[t].here + Size(i) <= r.floor
         \/ r.chunk > tasks[t].chunk
  BY DEF Past
<1> HIDE DEF here, more, after
<1>8. ASSUME NEW a \in DOMAIN more
      PROVE  /\ more[a] \in Instructions /\ a[3] + Size(more[a]) <= ChunkCells
             /\ a[2] <= after[a[1]].chunk
             /\ a[2] = after[a[1]].chunk => a[3] + Size(more[a]) <= after[a[1]].floor
  <2>1. CASE a = here
    BY <1>1, <1>2, <1>3, <1>6, <1>7, <2>1
  <2>2. CASE a \in DOMAIN c
    <3>1. CASE a[1] = t
      BY <1>1, <1>2, <1>4, <1>6, <1>7, <2>2, <3>1
    <3>2. CASE a[1] # t
      BY <1>4, <1>6, <1>7, <2>2, <3>2
    <3> QED BY <3>1, <3>2
  <2> QED BY <1>6, <2>1, <2>2
<1>9. ASSUME NEW a \in DOMAIN more, NEW b \in DOMAIN more \ {a},
             <<a[1], a[2]>> = <<b[1], b[2]>>, a[3] <= b[3]
      PROVE  a[3] + Size(more[a]) <= b[3]
  <2>1. a[1] = b[1] /\ a[2] = b[2]
    BY <1>9
  <2>2. CASE a = here
    <3>1. b \in DOMAIN c
      BY <1>6, <2>2
    <3>2. b[3] + Size(c[b]) <= tasks[t].floor
      BY <1>3, <1>4, <2>1, <2>2, <3>1
    <3> QED BY <1>1, <1>3, <1>4, <1>9, <2>2, <3>1, <3>2
  <2>3. CASE b = here
    <3>1. a \in DOMAIN c
      BY <1>6, <2>3
    <3>2. a[3] + Size(c[a]) <= tasks[t].floor
      BY <1>3, <1>4, <2>1, <2>3, <3>1
    <3> QED BY <1>1, <1>3, <1>4, <1>6, <2>3, <3>1, <3>2
  <2>4. CASE a \in DOMAIN c /\ b \in DOMAIN c
    BY <1>6, <1>9, <2>4 DEF Laid
  <2> QED BY <1>6, <2>2, <2>3, <2>4
<1>10. DOMAIN more \subseteq Addresses
  BY <1>3, <1>4, <1>6
<1>11. Laid(more, after)
  BY <1>8, <1>9, <1>10 DEF Laid
<1> QED BY <1>3, <1>5, <1>11 DEF here, more, after

\* an instruction put in the place of one of the same size
LEMMA LaidInPlace ==
  ASSUME NEW c, NEW tasks, Laid(c, tasks), NEW i \in Instructions,
         NEW a \in DOMAIN c, Size(i) = Size(c[a])
  PROVE  Laid(With(a, i, c), tasks)
<1> DEFINE more == With(a, i, c)
<1>1. /\ DOMAIN more = DOMAIN c
      /\ \A b \in DOMAIN c : /\ more[b] \in Instructions
                             /\ Size(more[b]) = Size(c[b])
  BY DEF With, Laid
<1> HIDE DEF more
<1>2. Laid(more, tasks)
  BY <1>1 DEF Laid
<1> QED BY <1>2 DEF more
-----------------------------------------------------------------------------
(* The invariant.                                                          *)

\* the cells of a task's chunk, none before it has one
End(r) == IF r.chunk = 0 THEN 0 ELSE ChunkCells

TasksInv ==
  /\ task \in [Tasks -> TaskRecords]
  /\ \A t \in Tasks : /\ task[t].recent \in {NoWord} \cup DOMAIN words
                      /\ task[t].here \in 0..End(task[t])
                      /\ task[t].floor \in 0..task[t].here

\* what [: has left for ;] is still there, a BRANCH to be made come to the end
FrameLaw(frame) ==
  /\ frame.branch \in DOMAIN code /\ code[frame.branch].op = "branch"
  /\ frame.outer \in {NoWord} \cup DOMAIN words

\* the same after a step, of a frame as it is before it
FrameLawNext(frame) ==
  /\ frame.branch \in DOMAIN code' /\ code'[frame.branch].op = "branch"
  /\ frame.outer \in {NoWord} \cup DOMAIN words'

FramesInv ==
  \A t \in Tasks : \A i \in DOMAIN task[t].frames : FrameLaw(task[t].frames[i])

DictIInv == WordsInv /\ TasksInv /\ Laid(code, task) /\ FramesInv

LEMMA InvType ==
  ASSUME DictIInv
  PROVE  DictionaryTypeOK /\ CellsApart
<1>1. \A l \in Lists : /\ chains[l] \in Seq(DOMAIN words)
                       /\ \A i, j \in DOMAIN chains[l] :
                            chains[l][i] = chains[l][j] => i = j
  <2> SUFFICES ASSUME NEW l \in Lists
               PROVE  /\ chains[l] \in Seq(DOMAIN words)
                      /\ \A i, j \in DOMAIN chains[l] :
                           chains[l][i] = chains[l][j] => i = j
    OBVIOUS
  <2>1. /\ chains[l] \in Seq(DOMAIN words) /\ DOMAIN words = 1..Len(words)
        /\ Len(words) \in Nat
        /\ \A i, j \in DOMAIN chains[l] : i < j => chains[l][i] > chains[l][j]
    BY DEF DictIInv, WordsInv
  <2>2. DOMAIN chains[l] = 1..Len(chains[l]) /\ Len(chains[l]) \in Nat
        /\ \A i \in DOMAIN chains[l] : chains[l][i] \in Nat
    BY <2>1
  <2>3. ASSUME NEW i \in DOMAIN chains[l], NEW j \in DOMAIN chains[l], i # j
        PROVE  chains[l][i] # chains[l][j]
    <3>1. i < j \/ j < i
      BY <2>2, <2>3
    <3> QED BY <2>1, <2>2, <3>1
  <2> QED BY <2>1, <2>3
<1>2. \A t \in Tasks :
        /\ task[t].compiling \in BOOLEAN /\ task[t].recent \in {NoWord} \cup DOMAIN words
        /\ task[t].chunk \in 0..MaxChunks /\ task[t].here \in 0..Top(t)
        /\ task[t].floor \in 0..task[t].here
        /\ task[t].frames \in Seq(Frames) /\ task[t].beyond \subseteq NextCells
  BY DEF DictIInv, TasksInv, TaskRecords, Top, End
<1>3. NextCells \subseteq Addresses /\ \A b \in NextCells : b[3] = ChunkCells
  BY DictionarySizes DEF NextCells, Addresses
<1>4. DictionaryTypeOK
  <2>1. \A t \in Tasks : task[t].beyond \subseteq Addresses
    BY <1>2, <1>3
  <2> QED BY <1>1, <1>2, <2>1 DEF DictIInv, WordsInv, Laid, DictionaryTypeOK
<1>5. CellsApart
  <2>1. \A t \in Tasks : \A b \in task[t].beyond : b[3] = ChunkCells
    BY <1>2, <1>3
  <2> QED BY <2>1 DEF DictIInv, Laid, CellsApart
<1> QED BY <1>4, <1>5

\* One task makes a step, and every law holds for what it leaves.
LEMMA Assemble ==
  ASSUME DictIInv, WordsInv', WordsKept, NEW t \in Tasks, NEW r \in TaskRecords,
         task' = [task EXCEPT ![t] = r],
         r.recent \in {NoWord} \cup DOMAIN words', r.here \in 0..End(r),
         r.floor \in 0..r.here, Laid(code', task'),
         \A a \in DOMAIN code : /\ a \in DOMAIN code'
                                /\ code[a].op = "branch" => code'[a].op = "branch",
         \A i \in DOMAIN r.frames :
           \/ \E j \in DOMAIN task[t].frames : r.frames[i] = task[t].frames[j]
           \/ FrameLawNext(r.frames[i])
  PROVE  DictIInv' /\ WordsKept
<1>1. /\ task \in [Tasks -> TaskRecords]
      /\ \A u \in Tasks : /\ task[u].recent \in {NoWord} \cup DOMAIN words
                          /\ task[u].here \in 0..End(task[u])
                          /\ task[u].floor \in 0..task[u].here
  BY DEF DictIInv, TasksInv
<1>2. /\ task' \in [Tasks -> TaskRecords]
      /\ \A u \in Tasks : task'[u] = IF u = t THEN r ELSE task[u]
  BY <1>1
<1>3. DOMAIN words \subseteq DOMAIN words'
  BY DEF WordsKept
<1>4. TasksInv'
  <2>1. \A u \in Tasks : /\ task'[u].recent \in {NoWord} \cup DOMAIN words'
                         /\ task'[u].here \in 0..End(task'[u])
                         /\ task'[u].floor \in 0..task'[u].here
    BY <1>1, <1>2, <1>3
  <2>2. \A u \in Tasks : End(task[u])' = End(task'[u])
    BY DEF End
  <2> QED BY <1>2, <2>1 DEF TasksInv, End
<1>5. FramesInv'
  <2>1. ASSUME NEW frame, FrameLaw(frame)
        PROVE  /\ frame.branch \in DOMAIN code' /\ code'[frame.branch].op = "branch"
               /\ frame.outer \in {NoWord} \cup DOMAIN words'
    BY <1>3, <2>1 DEF FrameLaw
  <2>2. ASSUME NEW u \in Tasks, NEW i \in DOMAIN task'[u].frames
        PROVE  LET frame == task'[u].frames[i] IN
               /\ frame.branch \in DOMAIN code' /\ code'[frame.branch].op = "branch"
               /\ frame.outer \in {NoWord} \cup DOMAIN words'
    <3>1. CASE u # t
      <4>1. task'[u] = task[u]
        BY <1>2, <3>1
      <4>2. FrameLaw(task[u].frames[i])
        BY <4>1 DEF DictIInv, FramesInv
      <4> QED BY <2>1, <4>1, <4>2
    <3>2. CASE u = t
      <4>1. task'[u] = r
        BY <1>2, <3>2
      <4>2. CASE \E j \in DOMAIN task[t].frames : r.frames[i] = task[t].frames[j]
        <5>1. FrameLaw(r.frames[i])
          BY <4>2 DEF DictIInv, FramesInv
        <5> QED BY <2>1, <4>1, <5>1
      <4>3. CASE ~ \E j \in DOMAIN task[t].frames : r.frames[i] = task[t].frames[j]
        BY <4>1, <4>3 DEF FrameLawNext
      <4> QED BY <4>2, <4>3
    <3> QED BY <3>1, <3>2
  <2> QED BY <2>2 DEF FramesInv, FrameLaw
<1>6. Laid(code, task)'
  BY DEF Laid
<1> QED BY <1>4, <1>5, <1>6 DEF DictIInv
-----------------------------------------------------------------------------
(* Steps that leave words and code alone.                                  *)

LEMMA TaskFacts ==
  ASSUME DictIInv, NEW t \in Tasks
  PROVE  /\ task[t] \in TaskRecords
         /\ task[t].compiling \in BOOLEAN /\ task[t].frames \in Seq(Frames)
         /\ task[t].recent \in {NoWord} \cup WordIds
         /\ task[t].recent \in {NoWord} \cup DOMAIN words
         /\ task[t].chunk \in 0..MaxChunks /\ task[t].chunk \in Nat
         /\ task[t].here \in Nat /\ task[t].here \in 0..End(task[t])
         /\ task[t].floor \in Nat /\ task[t].floor \in 0..task[t].here
         /\ task[t].floor <= task[t].here
         /\ Top(t) = End(task[t]) /\ Top(t) \in Nat /\ Top(t) <= ChunkCells
         /\ ChunkCells \in Nat
         /\ DOMAIN words = 1..Len(words) /\ DOMAIN words \subseteq WordIds
<1>1. task[t] \in TaskRecords
  BY DEF DictIInv, TasksInv
<1>2. /\ task[t].compiling \in BOOLEAN /\ task[t].frames \in Seq(Frames)
      /\ task[t].recent \in {NoWord} \cup WordIds
      /\ task[t].chunk \in 0..MaxChunks /\ task[t].here \in Nat
      /\ task[t].floor \in Nat
  BY <1>1 DEF TaskRecords
<1>3. /\ task[t].recent \in {NoWord} \cup DOMAIN words /\ task[t].here \in 0..End(task[t])
      /\ task[t].floor \in 0..task[t].here
  BY DEF DictIInv, TasksInv
<1>4. ChunkCells \in Nat /\ MaxChunks \in Nat /\ MaxWords \in Nat
  BY DictionarySizes
<1>5. Top(t) = End(task[t]) /\ Top(t) \in Nat /\ Top(t) <= ChunkCells
  BY <1>4 DEF Top, End
<1>6. DOMAIN words = 1..Len(words) /\ DOMAIN words \subseteq WordIds
  BY <1>4 DEF DictIInv, WordsInv, WordIds
<1>7. task[t].chunk \in Nat
  BY <1>2, <1>4
<1>8. task[t].floor <= task[t].here
  BY <1>2, <1>3
<1> QED BY <1>1, <1>2, <1>3, <1>4, <1>5, <1>6, <1>7, <1>8

\* what a reset and the rest of these steps leave of the task
LEMMA TaskStep ==
  ASSUME DictIInv, NEW t \in Tasks, UNCHANGED <<words, chains, code>>,
         NEW r \in TaskRecords, task' = [task EXCEPT ![t] = r],
         r.recent \in {NoWord, task[t].recent}, r.here \in task[t].floor..Top(t),
         r.floor = task[t].floor,
         r.frames \in {<<>>, task[t].frames}, r.chunk = task[t].chunk
  PROVE  DictIInv' /\ WordsKept
<1>2. WordsInv' /\ WordsKept
  BY WordsSame DEF DictIInv
<1>3. task \in [Tasks -> TaskRecords] /\ Laid(code, task)
  BY DEF DictIInv, TasksInv
<1>4. Onward(task[t], r)
  BY TaskFacts DEF Onward
<1>5. Laid(code', task')
  BY <1>3, <1>4, LaidOn
<1>6. r.recent \in {NoWord} \cup DOMAIN words'
  BY TaskFacts
<1>7. r.here \in 0..End(r) /\ r.floor \in 0..r.here
  <2>1. End(r) = Top(t)
    BY DEF End, Top
  <2> QED BY <2>1, TaskFacts
<1>8. \A i \in DOMAIN r.frames :
        \E j \in DOMAIN task[t].frames : r.frames[i] = task[t].frames[j]
  <2>1. CASE r.frames = <<>>
    <3>1. DOMAIN r.frames = {}
      BY <2>1
    <3> QED BY <3>1
  <2>2. CASE r.frames = task[t].frames
    BY <2>2
  <2> QED BY <2>1, <2>2
<1> QED BY <1>2, <1>5, <1>6, <1>7, <1>8, Assemble

LEMMA ResetStep ==
  ASSUME DictIInv, NEW t \in Tasks, NEW here \in task[t].here..Top(t),
         NEW beyond \in SUBSET NextCells, Reset(t, here, beyond),
         UNCHANGED <<words, chains, code>>
  PROVE  DictIInv' /\ WordsKept
<1> DEFINE r == [task[t] EXCEPT !.compiling = FALSE, !.recent = NoWord,
                                !.frames = <<>>, !.here = here, !.beyond = beyond]
<1>1. task \in [Tasks -> TaskRecords]
  BY DEF DictIInv, TasksInv
<1>2. task' = [task EXCEPT ![t] = r]
  BY <1>1 DEF Reset
<1>3. /\ here \in Nat /\ <<>> \in Seq(Frames) /\ task[t] \in TaskRecords
      /\ here \in task[t].floor..Top(t)
  BY TaskFacts
<1>4. /\ r \in TaskRecords /\ r.recent = NoWord /\ r.here = here
      /\ r.frames = <<>> /\ r.chunk = task[t].chunk /\ r.floor = task[t].floor
  BY <1>3 DEF TaskRecords
<1> HIDE DEF r
<1> QED BY <1>2, <1>3, <1>4, TaskStep

LEMMA FailStep ==
  ASSUME DictIInv, NEW t \in Tasks, Fail(t)
  PROVE  DictIInv' /\ WordsKept
<1>1. task[t].here \in task[t].here..Top(t) /\ task[t].beyond \in SUBSET NextCells
  BY TaskFacts DEF TaskRecords
<1> QED BY <1>1, ResetStep DEF Fail

LEMMA SpaceStep ==
  ASSUME DictIInv, NEW t \in Tasks,
         \/ \E compiling \in BOOLEAN : Bracket(t, compiling)
         \/ Allot(t) \/ GiveBack(t) \/ CommaFull(t)
  PROVE  DictIInv' /\ WordsKept
<1>1. task \in [Tasks -> TaskRecords] /\ task[t] \in TaskRecords
  BY DEF DictIInv, TasksInv
<1>2. ASSUME NEW compiling \in BOOLEAN, Bracket(t, compiling)
      PROVE  DictIInv' /\ WordsKept
  <2> DEFINE r == [task[t] EXCEPT !.compiling = compiling]
  <2>1. task[t].here \in task[t].floor..Top(t)
    BY TaskFacts
  <2>2. task' = [task EXCEPT ![t] = r] /\ UNCHANGED <<words, chains, code>>
    BY <1>1, <1>2 DEF Bracket
  <2>3. /\ r \in TaskRecords /\ r.recent = task[t].recent /\ r.here = task[t].here
        /\ r.frames = task[t].frames /\ r.chunk = task[t].chunk
        /\ r.floor = task[t].floor
    BY <1>1 DEF TaskRecords
  <2> HIDE DEF r
  <2> QED BY <2>1, <2>2, <2>3, TaskStep
<1>3. ASSUME NEW here \in task[t].floor..Top(t), UNCHANGED <<words, chains, code>>,
             task' = [task EXCEPT ![t].here = here]
      PROVE  DictIInv' /\ WordsKept
  <2> DEFINE r == [task[t] EXCEPT !.here = here]
  <2>1. here \in Nat
    BY TaskFacts
  <2>2. task' = [task EXCEPT ![t] = r]
    BY <1>1, <1>3
  <2>3. /\ r \in TaskRecords /\ r.recent = task[t].recent /\ r.here = here
        /\ r.frames = task[t].frames /\ r.chunk = task[t].chunk
        /\ r.floor = task[t].floor
    BY <1>1, <2>1 DEF TaskRecords
  <2> HIDE DEF r
  <2> QED BY <1>3, <2>2, <2>3, TaskStep
<1>4. /\ task[t].here \in Nat /\ task[t].floor \in Nat /\ Top(t) \in Nat
      /\ task[t].floor <= task[t].here /\ task[t].here <= Top(t) /\ DataCells \in Nat
  BY TaskFacts, DictionarySizes
<1>5. CASE Allot(t)
  <2> DEFINE here == task[t].here + DataCells
  <2>1. DataCells <= Top(t) - task[t].here
    BY <1>5 DEF Allot, Allots, Remaining
  <2>2. here \in task[t].floor..Top(t)
    BY <1>4, <2>1
  <2>3. task' = [task EXCEPT ![t].here = here] /\ UNCHANGED <<words, chains, code>>
    BY <1>1, <1>5 DEF Allot
  <2> HIDE DEF here
  <2> QED BY <1>3, <2>2, <2>3
<1>6. CASE GiveBack(t)
  <2> DEFINE here == task[t].here - DataCells
  <2>1. task[t].floor + DataCells <= task[t].here
    BY <1>6 DEF GiveBack
  <2>2. here \in task[t].floor..Top(t)
    BY <1>4, <2>1
  <2>3. task' = [task EXCEPT ![t].here = here] /\ UNCHANGED <<words, chains, code>>
    BY <1>1, <1>6 DEF GiveBack
  <2> HIDE DEF here
  <2> QED BY <1>3, <2>2, <2>3
<1>7. CASE CommaFull(t)
  <2> DEFINE beyond == task[t].beyond \cup {<<t, task[t].chunk, Top(t)>>}
  <2>1. Top(t) \in task[t].here..Top(t)
    BY <1>4
  <2>2. Top(t) = ChunkCells
    BY <1>7 DEF CommaFull, Top
  <2>3. beyond \in SUBSET NextCells
    BY <2>2, TaskFacts DEF NextCells, TaskRecords
  <2>4. Reset(t, Top(t), beyond) /\ UNCHANGED <<words, chains, code>>
    BY <1>7 DEF CommaFull
  <2> HIDE DEF beyond
  <2> QED BY <2>1, <2>3, <2>4, ResetStep
<1> QED BY <1>2, <1>5, <1>6, <1>7
-----------------------------------------------------------------------------
(* Steps that compile an instruction.                                      *)

LEMMA InstructionTypes ==
  /\ \A w \in WordIds : Call(w) \in Instructions
  /\ \A w \in WordIds \cup {NoWord} : Literal(w) \in Instructions
  /\ \A a \in Addresses : Branch(a) \in Instructions /\ Branch(a).op = "branch"
  /\ DoesCode \in Instructions /\ Exit \in Instructions
BY DEF Call, Literal, Branch, DoesCode, Exit, Instructions

LEMMA Sizes ==
  /\ \A w : Size(Call(w)) = 1 /\ Size(Literal(w)) = 2
  /\ \A a : Size(Branch(a)) = 3
  /\ Size(DoesCode) = 1 /\ Size(Exit) = 2
BY DEF Call, Literal, Branch, DoesCode, Exit, Size

LEMMA CompileStepKeeps ==
  ASSUME DictIInv, NEW t \in Tasks, NEW i \in Instructions,
         Allots(t, Size(i)), code' = With(At(t), i, code),
         NEW r \in TaskRecords, task' = [task EXCEPT ![t] = r],
         r.recent = task[t].recent, r.here = task[t].here + Size(i), r.floor = r.here,
         r.frames = task[t].frames, r.chunk = task[t].chunk,
         WordsInv', WordsKept
  PROVE  DictIInv' /\ WordsKept
<1>1. task \in [Tasks -> TaskRecords] /\ Laid(code, task)
  BY DEF DictIInv, TasksInv
<1>2. Size(i) \in Nat /\ task[t].here + Size(i) <= Top(t)
  BY SizeOf, TaskFacts DEF Allots, Remaining
<1>3. task[t].here + Size(i) <= ChunkCells
  BY <1>2, TaskFacts
<1>4. Past(task[t], r, Size(i))
  BY <1>2, TaskFacts DEF Past
<1>5. Laid(With(At(t), i, code), [task EXCEPT ![t] = r]) /\ At(t) \notin DOMAIN code
  BY <1>1, <1>3, <1>4, TaskFacts, LaidMore DEF At
<1>6. Laid(code', task')
  BY <1>5
<1>7. \A a \in DOMAIN code : /\ a \in DOMAIN code'
                             /\ code[a].op = "branch" => code'[a].op = "branch"
  BY <1>5 DEF With
<1>8. r.recent \in {NoWord} \cup DOMAIN words'
  BY TaskFacts DEF WordsKept
<1>9. r.here \in 0..End(r) /\ r.floor \in 0..r.here
  <2>1. End(r) = Top(t)
    BY DEF End, Top
  <2> QED BY <1>2, <2>1, TaskFacts
<1>10. \A k \in DOMAIN r.frames :
         \E j \in DOMAIN task[t].frames : r.frames[k] = task[t].frames[j]
  OBVIOUS
<1> QED BY <1>6, <1>7, <1>8, <1>9, <1>10, Assemble

\* the task of Further
LEMMA FurtherTask ==
  ASSUME DictIInv, NEW t \in Tasks, NEW i \in Instructions
  PROVE  LET r == UpTo(task[t], task[t].here + Size(i)) IN
         /\ Further(t, i) = [task EXCEPT ![t] = r] /\ r \in TaskRecords
         /\ r.recent = task[t].recent /\ r.here = task[t].here + Size(i)
         /\ r.frames = task[t].frames /\ r.chunk = task[t].chunk /\ r.floor = r.here
<1> DEFINE here == task[t].here + Size(i)
           r == UpTo(task[t], here)
<1>1. task \in [Tasks -> TaskRecords] /\ task[t] \in TaskRecords
  BY DEF DictIInv, TasksInv
<1>2. here \in Nat
  BY SizeOf, TaskFacts
<1>3. Further(t, i) = [task EXCEPT ![t] = r]
  BY <1>1 DEF Further
<1> HIDE DEF here
<1>4. /\ r \in TaskRecords /\ r.recent = task[t].recent /\ r.here = here
      /\ r.frames = task[t].frames /\ r.chunk = task[t].chunk /\ r.floor = r.here
  BY <1>1, <1>2, UpToIs
<1> QED BY <1>3, <1>4 DEF here

LEMMA OneInstruction ==
  ASSUME DictIInv, NEW t \in Tasks, NEW i \in Instructions,
         Compile(t, i), task' = Further(t, i), words' = words
  PROVE  DictIInv' /\ WordsKept
<1>1. /\ Allots(t, Size(i)) /\ code' = With(At(t), i, code) /\ chains' = chains
  BY DEF Compile
<1>2. WordsInv' /\ WordsKept
  BY <1>1, WordsSame DEF DictIInv
<1> DEFINE r == UpTo(task[t], task[t].here + Size(i))
<1>3. /\ task' = [task EXCEPT ![t] = r] /\ r \in TaskRecords
      /\ r.recent = task[t].recent /\ r.here = task[t].here + Size(i)
      /\ r.frames = task[t].frames /\ r.chunk = task[t].chunk /\ r.floor = r.here
  BY FurtherTask
<1> HIDE DEF r
<1> QED BY <1>1, <1>2, <1>3, CompileStepKeeps

LEMMA CompileWords ==
  ASSUME DictIInv, NEW t \in Tasks,
         \/ \E n \in Names : CompileName(t, n) \/ BracketTick(t, n)
         \/ CompileDoes(t) \/ CompileNumber(t) \/ Recurse(t)
  PROVE  DictIInv' /\ WordsKept
<1>0. WordsInv
  BY DEF DictIInv
<1>1. ASSUME NEW n \in Names, CompileName(t, n)
      PROVE  DictIInv' /\ WordsKept
  <2>1. Lookup(n) \in WordIds
    BY <1>0, <1>1, LookupType, TaskFacts DEF CompileName
  <2>2. Call(Lookup(n)) \in Instructions
    BY <2>1, InstructionTypes
  <2> QED BY <1>1, <2>2, OneInstruction DEF CompileName
<1>2. ASSUME NEW n \in Names, BracketTick(t, n)
      PROVE  DictIInv' /\ WordsKept
  <2>1. CASE Lookup(n) # NoWord
    <3>1. Lookup(n) \in WordIds
      BY <1>0, <2>1, LookupType, TaskFacts
    <3>2. Literal(Lookup(n)) \in Instructions
      BY <3>1, InstructionTypes
    <3>3. /\ Compile(t, Literal(Lookup(n))) /\ task' = Further(t, Literal(Lookup(n)))
          /\ words' = words
      BY <1>2, <2>1 DEF BracketTick
    <3> QED BY <3>2, <3>3, OneInstruction
  <2>2. CASE Lookup(n) = NoWord
    <3>1. /\ Allots(t, 2) /\ Reset(t, task[t].here + 2, task[t].beyond)
          /\ UNCHANGED <<words, chains, code>>
      BY <1>2, <2>2 DEF BracketTick
    <3> DEFINE here == task[t].here + 2
    <3>2. here \in task[t].here..Top(t)
      BY <3>1, TaskFacts DEF Allots, Remaining
    <3>3. Reset(t, here, task[t].beyond) /\ task[t].beyond \in SUBSET NextCells
      BY <3>1, TaskFacts DEF TaskRecords
    <3> HIDE DEF here
    <3> QED BY <3>1, <3>2, <3>3, ResetStep
  <2> QED BY <2>1, <2>2
<1>3. CASE CompileDoes(t)
  BY <1>3, InstructionTypes, OneInstruction DEF CompileDoes
<1>4. CASE CompileNumber(t)
  <2>1. Literal(NoWord) \in Instructions
    BY InstructionTypes
  <2> QED BY <1>4, <2>1, OneInstruction DEF CompileNumber
<1>5. CASE Recurse(t)
  <2>1. task[t].recent \in WordIds
    BY <1>5, TaskFacts DEF Recurse, Open
  <2>2. Call(task[t].recent) \in Instructions
    BY <2>1, InstructionTypes
  <2> QED BY <1>5, <2>2, OneInstruction DEF Recurse
<1> QED BY <1>1, <1>2, <1>3, <1>4, <1>5

LEMMA SemiStep ==
  ASSUME DictIInv, NEW t \in Tasks, Semi(t)
  PROVE  DictIInv' /\ WordsKept
<1> DEFINE w == task[t].recent
           open == [words[w] EXCEPT !.hidden = FALSE]
           r == UpTo(task[t], task[t].here + Size(Exit))
           s == [r EXCEPT !.compiling = FALSE]
<1>1. /\ Allots(t, Size(Exit)) /\ code' = With(At(t), Exit, code) /\ chains' = chains
      /\ task' = [Further(t, Exit) EXCEPT ![t].compiling = FALSE]
      /\ words' = [words EXCEPT ![w].hidden = FALSE] /\ w # NoWord
  BY DEF Semi, Compile
<1>2. Exit \in Instructions
  BY InstructionTypes
<1>3. w \in DOMAIN words
  BY <1>1, TaskFacts
<1>4. WordsInv /\ words \in Seq(Words) /\ words[w] \in Words
  BY <1>3 DEF DictIInv, WordsInv
<1>5. open \in Words /\ open.name = words[w].name /\ open.hidden = FALSE
  BY <1>4 DEF Words
<1>6. words' = [words EXCEPT ![w] = open]
  BY <1>1, <1>3
<1>7. WordsInv' /\ WordsKept
  <2> HIDE DEF open, w
  <2> QED BY <1>1, <1>3, <1>4, <1>5, <1>6, WordChanged
<1>8. /\ Further(t, Exit) = [task EXCEPT ![t] = r] /\ r \in TaskRecords
      /\ r.recent = task[t].recent /\ r.here = task[t].here + Size(Exit)
      /\ r.frames = task[t].frames /\ r.chunk = task[t].chunk /\ r.floor = r.here
  BY <1>2, FurtherTask
<1>9. task \in [Tasks -> TaskRecords]
  BY DEF DictIInv, TasksInv
<1> HIDE DEF r
<1>10. task' = [task EXCEPT ![t] = s]
  BY <1>1, <1>8, <1>9
<1>11. /\ s \in TaskRecords /\ s.recent = r.recent /\ s.here = r.here
       /\ s.frames = r.frames /\ s.chunk = r.chunk /\ s.floor = r.floor
  BY <1>8 DEF TaskRecords
<1>12. /\ s.recent = task[t].recent /\ s.here = task[t].here + Size(Exit)
       /\ s.frames = task[t].frames /\ s.chunk = task[t].chunk /\ s.floor = s.here
  BY <1>8, <1>11
<1>13. Allots(t, Size(Exit)) /\ code' = With(At(t), Exit, code)
  BY <1>1
<1> HIDE DEF s, w, open
<1> QED BY <1>2, <1>7, <1>10, <1>11, <1>12, <1>13, CompileStepKeeps
-----------------------------------------------------------------------------
(* Steps that make a word or change the one made last.                     *)

\* A header fits where it is put, in the chunk or at the start of a new one.
LEMMA HeaderMade ==
  ASSUME DictIInv, NEW t \in Tasks, NEW used \in 0..3,
         NEW name \in Names \cup {NoName}, NEW hidden \in BOOLEAN,
         NEW kind \in {"docol", "push"}, MakeWord(t, used, name, hidden, kind)
  PROVE  /\ WordsInv' /\ WordsKept
         /\ Len(words) + 1 \in DOMAIN words' /\ Len(words) + 1 \in WordIds
         /\ LET h == Headed(t, used) IN
            /\ h \in TaskRecords /\ h.recent = Len(words) + 1
            /\ h.here \in 0..End(h) /\ h.floor = h.here
            /\ h.frames = task[t].frames /\ Past(task[t], h, used)
<1> DEFINE place == IF Stays(t, used) THEN After(At(t), used)
                    ELSE <<t, task[t].chunk + 1, 0>>
           code1 == After(place, HeaderCells)
           secondary == IF kind = "docol" THEN code1 ELSE Elsewhere(t)
           word == [name |-> name, hidden |-> hidden, immediate |-> FALSE,
                    code |-> kind, secondary |-> secondary]
           chunk == IF Stays(t, used) THEN task[t].chunk ELSE task[t].chunk + 1
           here == (IF Stays(t, used) THEN task[t].here + used ELSE 0) + HeaderCells
           h == Headed(t, used)
<1>1. /\ HeaderCells \in Nat /\ HeaderCells > 0 /\ HeaderCells <= ChunkCells
      /\ ChunkCells \in Nat /\ MaxChunks \in Nat /\ MaxWords \in Nat
      /\ MinGuaranteed \in Nat
  BY DictionarySizes
<1>2. /\ task[t].chunk \in Nat /\ task[t].chunk \in 0..MaxChunks
      /\ task[t].here \in Nat /\ task[t] \in TaskRecords
      /\ Top(t) \in Nat /\ Top(t) <= ChunkCells /\ Top(t) = End(task[t])
  BY TaskFacts
<1>3. Stays(t, used) => /\ task[t].here + used + HeaderCells <= Top(t)
                        /\ task[t].chunk # 0
  <2>1. Stays(t, used) => HeaderCells <= Top(t) - task[t].here - used
    BY DEF Stays, Remaining
  <2>2. Stays(t, used) => task[t].here + used + HeaderCells <= Top(t)
    BY <1>1, <1>2, <2>1
  <2>3. task[t].chunk = 0 => Top(t) = 0
    BY DEF Top
  <2> QED BY <1>1, <1>2, <2>2, <2>3
<1>4. /\ Len(words) < MaxWords
      /\ ~ Stays(t, used) => task[t].chunk < MaxChunks
      /\ words' = Append(words, word)
      /\ \/ chains' = chains
         \/ chains' = [chains EXCEPT ![Order[1]] = Linked(@, Len(words) + 1)]
  BY DEF MakeWord
<1>5. /\ chunk \in 0..MaxChunks /\ chunk # 0 /\ here \in 0..ChunkCells /\ here \in Nat
  <2>1. CASE Stays(t, used)
    <3>1. chunk = task[t].chunk /\ here = task[t].here + used + HeaderCells
      BY <2>1
    <3> QED BY <1>1, <1>2, <1>3, <2>1, <3>1
  <2>2. CASE ~ Stays(t, used)
    <3>1. chunk = task[t].chunk + 1 /\ here = HeaderCells
      BY <1>1, <2>2
    <3>2. task[t].chunk < MaxChunks
      BY <1>4, <2>2
    <3> QED BY <1>1, <1>2, <3>1, <3>2
  <2> QED BY <2>1, <2>2
<1>6. code1 = <<t, chunk, here>>
  BY <1>2 DEF At, After
<1>7. <<t, chunk, here>> \in Addresses /\ Elsewhere(t) \in Addresses
  <2>1. 0 \in 0..MaxChunks /\ 0 \in 0..(ChunkCells + 3)
    BY <1>1
  <2>2. here \in 0..(ChunkCells + 3)
    BY <1>1, <1>5
  <2> HIDE DEF here, chunk
  <2> QED BY <1>5, <2>1, <2>2 DEF Addresses, Elsewhere
<1>8. h = [task[t] EXCEPT !.chunk = chunk, !.here = here, !.floor = here,
                          !.recent = Len(words) + 1]
  BY <1>2 DEF Headed, UpTo, TaskRecords
<1>9. \/ chunk = task[t].chunk /\ task[t].here + used <= here
      \/ chunk > task[t].chunk
  BY <1>1, <1>2
<1>10. secondary \in Addresses
  BY <1>6, <1>7
<1> HIDE DEF chunk, here, code1, secondary, h
<1>11. word \in Words
  BY <1>10 DEF Words
<1>12. WordsInv
  BY DEF DictIInv
<1>13. Len(words) + 1 \in WordIds
  BY <1>1, <1>4, <1>12 DEF WordsInv, WordIds
<1>14. /\ h \in TaskRecords /\ h.recent = Len(words) + 1 /\ h.here = here
       /\ h.chunk = chunk /\ h.frames = task[t].frames /\ h.floor = here
  BY <1>2, <1>5, <1>8, <1>13 DEF TaskRecords
<1>15. h.here \in 0..End(h) /\ Past(task[t], h, used)
  BY <1>5, <1>9, <1>14 DEF End, Past
<1> HIDE DEF word
<1>16. WordsInv' /\ WordsKept /\ Len(words) + 1 \in DOMAIN words'
  BY <1>4, <1>11, <1>12, WordAdded
<1> QED BY <1>13, <1>14, <1>15, <1>16 DEF h

LEMMA HeaderStep ==
  ASSUME DictIInv, NEW t \in Tasks,
         \/ \E n \in Names : Create(t, n)
         \/ \E n \in Names \cup {NoName} : Colon(t, n)
  PROVE  DictIInv' /\ WordsKept
<1> DEFINE h == Headed(t, 0)
           c == [h EXCEPT !.compiling = TRUE]
<1>1. /\ WordsInv' /\ WordsKept
      /\ Len(words) + 1 \in DOMAIN words'
      /\ h \in TaskRecords /\ h.recent = Len(words) + 1
      /\ h.here \in 0..End(h) /\ h.floor = h.here
      /\ h.frames = task[t].frames /\ Past(task[t], h, 0)
  <2>1. PICK n \in Names \cup {NoName}, hidden \in BOOLEAN, kind \in {"docol", "push"} :
          MakeWord(t, 0, n, hidden, kind)
    BY DEF Create, Colon
  <2> HIDE DEF h
  <2>2. 0 \in 0..3
    OBVIOUS
  <2> QED BY <2>1, <2>2, HeaderMade DEF h
<1>2. code' = code /\ (task' = [task EXCEPT ![t] = h] \/ task' = [task EXCEPT ![t] = c])
  BY DEF Create, Colon
<1> HIDE DEF h
<1>3. /\ c \in TaskRecords /\ c.recent = h.recent /\ c.here = h.here
      /\ c.frames = h.frames /\ c.chunk = h.chunk /\ c.floor = h.floor
  BY <1>1 DEF TaskRecords
<1> HIDE DEF c
<1>4. PICK r \in {h, c} : task' = [task EXCEPT ![t] = r]
  BY <1>2
<1>5. /\ r \in TaskRecords /\ r.recent \in DOMAIN words' /\ r.here \in 0..End(r)
      /\ r.floor = r.here /\ r.floor \in 0..r.here
      /\ r.frames = task[t].frames /\ Onward(task[t], r)
  <2>1. /\ r \in TaskRecords /\ r.recent \in DOMAIN words' /\ r.here \in 0..End(r)
        /\ r.frames = task[t].frames /\ r.floor = r.here /\ Past(task[t], r, 0)
    BY <1>1, <1>3 DEF End, Past
  <2>2. Onward(task[t], r)
    BY <2>1, TaskFacts, PastOnward
  <2>3. r.floor \in 0..r.here
    BY <2>1 DEF TaskRecords
  <2> QED BY <2>1, <2>2, <2>3
<1>6. task \in [Tasks -> TaskRecords] /\ Laid(code, task)
  BY DEF DictIInv, TasksInv
<1>7. Laid(code', task')
  BY <1>2, <1>4, <1>5, <1>6, LaidOn
<1>8. \A i \in DOMAIN r.frames :
        \E j \in DOMAIN task[t].frames : r.frames[i] = task[t].frames[j]
  BY <1>5
<1> QED BY <1>1, <1>2, <1>4, <1>5, <1>7, <1>8, Assemble

LEMMA NonameAtStep ==
  ASSUME DictIInv, NEW t \in Tasks, CreateNonameAt(t)
  PROVE  DictIInv' /\ WordsKept
<1> DEFINE word == [name |-> NoName, hidden |-> FALSE, immediate |-> FALSE,
                    code |-> "push", secondary |-> Elsewhere(t)]
           r == [task[t] EXCEPT !.compiling = FALSE, !.recent = Len(words) + 1]
<1>1. task \in [Tasks -> TaskRecords] /\ task[t] \in TaskRecords /\ Laid(code, task)
      /\ WordsInv
  BY DEF DictIInv, TasksInv
<1>2. /\ words' = Append(words, word) /\ Len(words) < MaxWords
      /\ chains' = chains /\ code' = code
  BY DEF CreateNonameAt
<1>3. task' = [task EXCEPT ![t] = r]
  BY <1>1 DEF CreateNonameAt
<1>4. word \in Words
  <2>1. Elsewhere(t) \in Addresses
    BY DictionarySizes DEF Elsewhere, Addresses
  <2> QED BY <2>1 DEF Words
<1> HIDE DEF word
<1>5. WordsInv' /\ WordsKept /\ Len(words) + 1 \in DOMAIN words'
  BY <1>1, <1>2, <1>4, WordAdded
<1>6. Len(words) + 1 \in WordIds
  BY <1>1, <1>2, DictionarySizes DEF WordsInv, WordIds
<1>7. /\ r \in TaskRecords /\ r.recent = Len(words) + 1 /\ r.here = task[t].here
      /\ r.frames = task[t].frames /\ r.chunk = task[t].chunk
      /\ r.floor = task[t].floor
  BY <1>1, <1>6 DEF TaskRecords
<1> HIDE DEF r
<1>8. Onward(task[t], r)
  BY <1>7, TaskFacts DEF Onward
<1>9. Laid(code', task')
  BY <1>1, <1>2, <1>3, <1>7, <1>8, LaidOn
<1>10. r.here \in 0..End(r) /\ r.floor \in 0..r.here
  BY <1>7, TaskFacts DEF End
<1>11. \A i \in DOMAIN r.frames :
         \E j \in DOMAIN task[t].frames : r.frames[i] = task[t].frames[j]
  BY <1>7
<1> QED BY <1>2, <1>3, <1>5, <1>7, <1>9, <1>10, <1>11, Assemble

\* IMMEDIATE and DOES> change the word the task has made last.
LEMMA MarkStep ==
  ASSUME DictIInv, NEW t \in Tasks, Immediate(t) \/ Does(t)
  PROVE  DictIInv' /\ WordsKept
<1> DEFINE w == task[t].recent
<1>1. task[t].recent # NoWord /\ UNCHANGED <<chains, code, task>>
  BY DEF Immediate, Does
<1>2. w \in DOMAIN words
  BY <1>1, TaskFacts
<1>3. WordsInv /\ words \in Seq(Words) /\ words[w] \in Words
  BY <1>2 DEF DictIInv, WordsInv
<1>4. PICK word \in Words : /\ word.name = words[w].name
                            /\ word.hidden = words[w].hidden
                            /\ words' = [words EXCEPT ![w] = word]
  <2>1. CASE Immediate(t)
    <3> DEFINE word == [words[w] EXCEPT !.immediate = TRUE]
    <3>1. words' = [words EXCEPT ![w] = word]
      BY <1>2, <1>3, <2>1 DEF Immediate
    <3>2. word \in Words /\ word.name = words[w].name /\ word.hidden = words[w].hidden
      BY <1>3 DEF Words
    <3> QED BY <3>1, <3>2
  <2>2. CASE Does(t)
    <3>1. PICK a \in DOMAIN code :
            words' = [words EXCEPT ![w].code = "does", ![w].secondary = After(a, 1)]
      BY <2>2 DEF Does
    <3> DEFINE place == After(a, 1)
               word == [words[w] EXCEPT !.code = "does", !.secondary = place]
    <3>2. place \in Addresses
      <4>1. /\ a \in Addresses /\ code[a] \in Instructions
            /\ a[3] + Size(code[a]) <= ChunkCells
        BY DEF DictIInv, Laid
      <4>2. /\ a[1] \in Tasks /\ a[2] \in 0..MaxChunks /\ a[3] \in Nat
        BY <4>1, AddressParts
      <4>3. Size(code[a]) \in Nat /\ Size(code[a]) >= 1
        BY <4>1, SizeOf
      <4>4. a[3] + 1 \in 0..(ChunkCells + 3)
        <5>1. PICK n \in Nat, here \in Nat :
                n = Size(code[a]) /\ n >= 1 /\ here = a[3] /\ here + n <= ChunkCells
          BY <4>1, <4>2, <4>3
        <5>2. ChunkCells \in Nat
          BY DictionarySizes
        <5> QED BY <5>1, <5>2
      <4> QED BY <4>2, <4>4 DEF After, Addresses
    <3>3. words' = [words EXCEPT ![w] = word]
      BY <1>2, <1>3, <3>1
    <3> HIDE DEF place
    <3>4. word \in Words /\ word.name = words[w].name /\ word.hidden = words[w].hidden
      BY <1>3, <3>2 DEF Words
    <3> QED BY <3>3, <3>4
  <2> QED BY <2>1, <2>2
<1>5. WordsInv' /\ WordsKept
  <2> HIDE DEF w
  <2> QED BY <1>1, <1>2, <1>3, <1>4, WordChanged
<1>6. task[t] \in TaskRecords /\ task' = [task EXCEPT ![t] = task[t]]
  BY <1>1 DEF DictIInv, TasksInv
<1>7. /\ task[t].recent \in {NoWord} \cup DOMAIN words'
      /\ task[t].here \in 0..End(task[t]) /\ task[t].floor \in 0..task[t].here
  BY <1>5, TaskFacts DEF WordsKept
<1>8. Laid(code', task')
  BY <1>1 DEF DictIInv
<1> QED BY <1>1, <1>5, <1>6, <1>7, <1>8, Assemble
-----------------------------------------------------------------------------
(* Lambdas.                                                                *)

LEMMA OpenStep ==
  ASSUME DictIInv, NEW t \in Tasks, OpenLambda(t)
  PROVE  DictIInv' /\ WordsKept
<1> DEFINE h == Headed(t, 3)
           i == Branch(Elsewhere(t))
           frame == [branch |-> At(t), outer |-> task[t].recent, xt |-> Len(words) + 1]
           frames == <<frame>> \o h.frames
           r == [h EXCEPT !.frames = frames]
<1>1. /\ Allots(t, 3) /\ MakeWord(t, 3, NoName, TRUE, "docol")
      /\ code' = With(At(t), i, code)
      /\ task' = [task EXCEPT ![t] = r]
  BY DEF OpenLambda
<1>2. /\ WordsInv' /\ WordsKept
      /\ Len(words) + 1 \in DOMAIN words' /\ Len(words) + 1 \in WordIds
      /\ h \in TaskRecords /\ h.recent = Len(words) + 1
      /\ h.here \in 0..End(h) /\ h.floor = h.here
      /\ h.frames = task[t].frames /\ Past(task[t], h, 3)
  <2>1. 3 \in 0..3
    OBVIOUS
  <2> HIDE DEF h
  <2> QED BY <1>1, <2>1, HeaderMade DEF h
<1>3. Elsewhere(t) \in Addresses
  BY DictionarySizes DEF Elsewhere, Addresses
<1>4. i \in Instructions /\ i.op = "branch" /\ Size(i) = 3
  BY <1>3, InstructionTypes, Sizes
<1>5. task[t].here + 3 <= ChunkCells
  BY <1>1, TaskFacts DEF Allots, Remaining
<1>6. task \in [Tasks -> TaskRecords] /\ Laid(code, task)
  BY DEF DictIInv, TasksInv
<1> HIDE DEF h, i
<1>7. At(t) \in Addresses /\ At(t) \notin DOMAIN code
      /\ Laid(code', [task EXCEPT ![t] = h])
  <2>1. /\ Past(task[t], h, Size(i)) /\ task[t].here + Size(i) <= ChunkCells
        /\ task[t].floor <= task[t].here
    BY <1>2, <1>4, <1>5, TaskFacts
  <2>2. LET here == <<t, task[t].chunk, task[t].here>> IN
        /\ Laid(With(here, i, code), [task EXCEPT ![t] = h])
        /\ here \in Addresses /\ here \notin DOMAIN code
    BY <1>2, <1>4, <1>6, <2>1, LaidMore
  <2> QED BY <1>1, <2>2 DEF At
<1>8. frame \in Frames
  BY <1>2, <1>7, TaskFacts DEF Frames
<1>9. frames \in Seq(Frames) /\ Len(frames) = Len(task[t].frames) + 1
      /\ \A k \in 1..Len(frames) :
           frames[k] = IF k = 1 THEN frame ELSE task[t].frames[k - 1]
  <2>1. task[t].frames \in Seq(Frames) /\ h.frames = task[t].frames
    BY <1>2, TaskFacts
  <2> HIDE DEF frame
  <2> QED BY <1>8, <2>1
<1> HIDE DEF frames
<1>10. /\ r \in TaskRecords /\ r.recent = h.recent /\ r.here = h.here
       /\ r.frames = frames /\ r.chunk = h.chunk /\ r.floor = h.floor
  BY <1>2, <1>9 DEF TaskRecords
<1> HIDE DEF r
<1>11. Laid(code', task')
  <2>1. task' = [[task EXCEPT ![t] = h] EXCEPT ![t] = r]
    BY <1>1, <1>6
  <2>2. Onward(h, r)
    BY <1>2, <1>10 DEF Onward, TaskRecords
  <2>3. [task EXCEPT ![t] = h] \in [Tasks -> TaskRecords]
        /\ [task EXCEPT ![t] = h][t] = h
    BY <1>2, <1>6
  <2> QED BY <1>7, <1>10, <2>1, <2>2, <2>3, LaidOn
<1>12. /\ DOMAIN code' = DOMAIN code \cup {At(t)} /\ code'[At(t)] = i
       /\ \A a \in DOMAIN code : code'[a] = code[a]
  BY <1>1, <1>7 DEF With
<1>13. FrameLawNext(frame)
  <2>1. frame.branch = At(t) /\ frame.outer \in {NoWord} \cup DOMAIN words'
    BY <1>2, TaskFacts DEF WordsKept
  <2>2. /\ frame.branch \in DOMAIN code' /\ code'[frame.branch].op = "branch"
        /\ frame.outer \in {NoWord} \cup DOMAIN words'
    BY <1>4, <1>12, <2>1
  <2> QED BY <2>2 DEF FrameLawNext
<1>14. \A k \in DOMAIN r.frames :
         \/ \E j \in DOMAIN task[t].frames : r.frames[k] = task[t].frames[j]
         \/ FrameLawNext(r.frames[k])
  <2> SUFFICES ASSUME NEW k \in DOMAIN r.frames, r.frames[k] # frame
               PROVE  \E j \in DOMAIN task[t].frames : r.frames[k] = task[t].frames[j]
    BY <1>13
  <2>1. task[t].frames \in Seq(Frames)
    BY TaskFacts
  <2>2. k \in 1..Len(frames) /\ k # 1 /\ k - 1 \in 1..Len(task[t].frames)
    BY <1>9, <1>10, <2>1
  <2>3. r.frames[k] = task[t].frames[k - 1]
    BY <1>9, <1>10, <2>2
  <2> QED BY <2>1, <2>2, <2>3
<1>15. /\ r.recent \in DOMAIN words' /\ r.here \in 0..End(r)
       /\ r.floor \in 0..r.here
  BY <1>2, <1>10 DEF End, TaskRecords
<1>16. task' = [task EXCEPT ![t] = r]
  BY <1>1 DEF r
<1>17. \A a \in DOMAIN code : /\ a \in DOMAIN code'
                              /\ code[a].op = "branch" => code'[a].op = "branch"
  BY <1>12
<1> QED BY <1>2, <1>10, <1>11, <1>14, <1>15, <1>16, <1>17, Assemble
LEMMA CloseStep ==
  ASSUME DictIInv, NEW t \in Tasks, CloseLambda(t)
  PROVE  DictIInv' /\ WordsKept
<1> DEFINE frame == Head(task[t].frames)
           here == At(t)
           end == After(At(t), 2)
           i == Branch(end)
           l == Literal(frame.xt)
           c1 == With(frame.branch, i, code)
           c2 == With(here, Exit, c1)
           c3 == With(end, l, c2)
           n1 == task[t].here + 2
           n2 == task[t].here + 4
           rest == Tail(task[t].frames)
           r1 == UpTo(task[t], n1)
           t1 == [task EXCEPT ![t] = r1]
           r2 == UpTo(task[t], n2)
           r == [r2 EXCEPT !.recent = frame.outer, !.frames = rest]
<1>1. task \in [Tasks -> TaskRecords] /\ Laid(code, task) /\ WordsInv
  BY DEF DictIInv, TasksInv
<1>2. /\ Allots(t, 4) /\ task[t].frames # <<>> /\ code' = c3
      /\ UNCHANGED <<words, chains>>
  BY DEF CloseLambda, NoLambda
<1>3. task' = [task EXCEPT ![t] = r]
  <2>1. task' = [task EXCEPT ![t] = [r2 EXCEPT !.recent = frame.outer,
                                              !.frames = Tail(r2.frames)]]
    BY <1>1 DEF CloseLambda, Outer
  <2>2. r2.frames = task[t].frames
    BY <1>1 DEF UpTo, TaskRecords
  <2> QED BY <2>1, <2>2
<1>4. WordsInv' /\ WordsKept
  BY <1>1, <1>2, WordsSame
<1>5. /\ frame \in Frames /\ rest \in Seq(Frames)
      /\ \A k \in DOMAIN rest : k + 1 \in DOMAIN task[t].frames
                                /\ rest[k] = task[t].frames[k + 1]
      /\ FrameLaw(frame)
  <2>1. task[t].frames \in Seq(Frames)
    BY TaskFacts
  <2>2. 1 \in DOMAIN task[t].frames /\ frame = task[t].frames[1]
    BY <1>2, <2>1
  <2>3. FrameLaw(frame)
    BY <2>2 DEF DictIInv, FramesInv
  <2> QED BY <1>2, <2>1, <2>2, <2>3
<1>6. /\ frame.branch \in DOMAIN code /\ code[frame.branch].op = "branch"
      /\ frame.outer \in {NoWord} \cup DOMAIN words
      /\ frame.xt \in WordIds /\ frame.outer \in {NoWord} \cup WordIds
  BY <1>5 DEF FrameLaw, Frames
<1>7. /\ task[t].here + 4 <= Top(t) /\ task[t].here + 4 <= ChunkCells
      /\ n1 \in Nat /\ n2 \in Nat
  BY <1>2, TaskFacts DEF Allots, Remaining
<1>8. here = <<t, task[t].chunk, task[t].here>> /\ end = <<t, task[t].chunk, n1>>
  BY DEF At, After
<1>9. end \in Addresses
  <2>1. n1 \in 0..(ChunkCells + 3)
    <3>1. task[t].here \in Nat /\ ChunkCells \in Nat /\ task[t].here + 4 <= ChunkCells
      BY <1>7, TaskFacts
    <3> QED BY <3>1
  <2> HIDE DEF n1
  <2> QED BY <1>8, <2>1, TaskFacts DEF Addresses
<1> HIDE DEF frame, here, end, rest
<1>10. /\ i \in Instructions /\ i.op = "branch" /\ Size(i) = 3
       /\ Exit \in Instructions /\ Size(Exit) = 2
       /\ l \in Instructions /\ Size(l) = 2
  BY <1>6, <1>9, InstructionTypes, Sizes
<1>11. task[t] \in TaskRecords
  BY <1>1
<1> HIDE DEF n1, n2, i, l
<1>12. /\ r1 \in TaskRecords /\ r1.here = n1 /\ r1.chunk = task[t].chunk
       /\ r1.floor = n1
  BY <1>7, <1>11, UpToIs
<1>13. /\ r \in TaskRecords /\ r.here = n2 /\ r.chunk = task[t].chunk
       /\ r.recent = frame.outer /\ r.frames = rest /\ r.floor = n2
  <2>1. /\ r2 \in TaskRecords /\ r2.here = n2 /\ r2.chunk = task[t].chunk
        /\ r2.floor = n2
    BY <1>7, <1>11, UpToIs
  <2> HIDE DEF r2
  <2> QED BY <1>5, <1>6, <2>1 DEF TaskRecords
<1> HIDE DEF r1, r2, r
\* the BRANCH is made come to the end
<1>14. Laid(c1, task) /\ DOMAIN c1 = DOMAIN code
       /\ \A a \in DOMAIN code : c1[a] = IF a = frame.branch THEN i ELSE code[a]
  <2>1. Size(i) = Size(code[frame.branch])
    <3>1. code[frame.branch] \in Instructions
      BY <1>1, <1>6 DEF Laid
    <3> QED BY <1>6, <1>10, <3>1, SizeOf
  <2>2. Laid(c1, task)
    BY <1>1, <1>6, <1>10, <2>1, LaidInPlace
  <2> QED BY <1>6, <2>2 DEF With
<1> HIDE DEF c1
\* EXIT
<1>15. Laid(c2, t1) /\ here \notin DOMAIN c1
  <2>1. /\ task[t].here + Size(Exit) <= ChunkCells
        /\ Past(task[t], r1, Size(Exit)) /\ task[t].floor <= task[t].here
    BY <1>7, <1>10, <1>12, TaskFacts DEF Past, n1
  <2>2. LET a == <<t, task[t].chunk, task[t].here>> IN
        /\ Laid(With(a, Exit, c1), [task EXCEPT ![t] = r1])
        /\ a \in Addresses /\ a \notin DOMAIN c1
    BY <1>1, <1>10, <1>12, <1>14, <2>1, LaidMore
  <2> QED BY <1>8, <2>2
<1>16. DOMAIN c2 = DOMAIN c1 \cup {here} /\ \A a \in DOMAIN c1 : c2[a] = c1[a]
  BY <1>15 DEF With
<1>17. t1 \in [Tasks -> TaskRecords] /\ t1[t] = r1 /\ [t1 EXCEPT ![t] = r] = task'
  BY <1>1, <1>3, <1>12
<1> HIDE DEF c2, t1
\* and the token
<1>18. Laid(c3, task') /\ end \notin DOMAIN c2
  <2>1. /\ t1[t].here + Size(l) <= ChunkCells /\ Past(t1[t], r, Size(l))
        /\ t1[t].floor <= t1[t].here
    <3>1. task[t].here \in Nat /\ ChunkCells \in Nat
      BY TaskFacts
    <3>2. n1 = task[t].here + 2 /\ n2 = task[t].here + 4 /\ n2 <= ChunkCells
      BY <1>7 DEF n1, n2
    <3>3. /\ t1[t].here = n1 /\ r.floor = n2 /\ t1[t].chunk = r.chunk /\ Size(l) = 2
          /\ t1[t].floor = n1 /\ n1 \in Nat
      BY <1>7, <1>10, <1>12, <1>13, <1>17
    <3>4. n1 + 2 = n2
      BY <3>1, <3>2
    <3> QED BY <3>1, <3>2, <3>3, <3>4 DEF Past
  <2>2. LET a == <<t, t1[t].chunk, t1[t].here>> IN
        /\ Laid(With(a, l, c2), [t1 EXCEPT ![t] = r])
        /\ a \in Addresses /\ a \notin DOMAIN c2
    BY <1>10, <1>13, <1>15, <1>17, <2>1, LaidMore
  <2> QED BY <1>8, <1>12, <1>17, <2>2
<1>19. /\ DOMAIN c3 = DOMAIN c2 \cup {end} /\ \A a \in DOMAIN c2 : c3[a] = c2[a]
  BY <1>18 DEF With
<1> HIDE DEF c3
<1>20. \A a \in DOMAIN code : /\ a \in DOMAIN code'
                              /\ code[a].op = "branch" => code'[a].op = "branch"
  BY <1>2, <1>10, <1>14, <1>16, <1>19
<1>21. /\ r.recent \in {NoWord} \cup DOMAIN words' /\ r.here \in 0..End(r)
       /\ r.floor \in 0..r.here
  <2>1. End(r) = Top(t)
    BY <1>13 DEF End, Top
  <2> QED BY <1>2, <1>6, <1>7, <1>13, <2>1, TaskFacts DEF n2
<1>22. \A k \in DOMAIN r.frames :
         \E j \in DOMAIN task[t].frames : r.frames[k] = task[t].frames[j]
  BY <1>5, <1>13
<1>23. Laid(code', task')
  BY <1>2, <1>18
<1> QED BY <1>3, <1>4, <1>13, <1>20, <1>21, <1>22, <1>23, Assemble

-----------------------------------------------------------------------------
(* The theorems.                                                           *)

LEMMA DictInit ==
  Init => DictIInv
<1> SUFFICES ASSUME Init PROVE DictIInv
  OBVIOUS
<1>1. WordsInv
  <2>1. words = <<>> /\ MaxWords \in Nat /\ chains = [l \in Lists |-> <<>>]
    BY DictionarySizes DEF Init
  <2>2. chains \in [Lists -> Seq(DOMAIN words)]
    BY <2>1
  <2>3. words \in Seq(Words) /\ Len(words) <= MaxWords
    BY <2>1
  <2>4. \A l \in Lists : DOMAIN chains[l] = {}
    BY <2>1
  <2> QED BY <2>2, <2>3, <2>4 DEF WordsInv
<1>2. MaxChunks \in Nat /\ MaxChunks > 0
  BY DictionarySizes
<1>3. /\ task \in [Tasks -> TaskRecords]
      /\ \A t \in Tasks : task[t].recent = NoWord /\ task[t].here = 0
                          /\ task[t].frames = <<>> /\ task[t].floor = 0
  <2>1. \A t \in Tasks :
          [compiling |-> FALSE, recent |-> NoWord, here |-> 0, floor |-> 0,
           frames |-> <<>>, beyond |-> {},
           chunk |-> IF t \in NoData THEN 0 ELSE 1] \in TaskRecords
    BY <1>2 DEF TaskRecords
  <2> QED BY <2>1 DEF Init
<1>4. TasksInv
  <2>1. \A t \in Tasks : 0 \in 0..End(task[t])
    BY DictionarySizes DEF End
  <2> QED BY <1>3, <2>1 DEF TasksInv
<1>5. Laid(code, task)
  <2>1. DOMAIN code = {}
    BY DEF Init
  <2> QED BY <2>1 DEF Laid
<1>6. FramesInv
  <2>1. \A t \in Tasks : DOMAIN task[t].frames = {}
    BY <1>3
  <2> QED BY <2>1 DEF FramesInv
<1> QED BY <1>1, <1>4, <1>5, <1>6 DEF DictIInv

LEMMA DictStep ==
  ASSUME DictIInv, [Next]_vars
  PROVE  DictIInv' /\ WordsKept
<1>1. ASSUME NEW t \in Tasks, Define(t)
      PROVE  DictIInv' /\ WordsKept
  <2>1. CASE \E n \in Names : Create(t, n) \/ Colon(t, n)
    BY <2>1, HeaderStep
  <2>2. CASE Colon(t, NoName)
    BY <2>2, HeaderStep
  <2>3. CASE CreateNonameAt(t)
    BY <2>3, NonameAtStep
  <2>4. CASE NoHeader(t)
    BY <2>4, FailStep DEF NoHeader
  <2>5. CASE Immediate(t) \/ Does(t)
    BY <2>5, MarkStep
  <2> QED BY <1>1, <2>1, <2>2, <2>3, <2>4, <2>5 DEF Define
<1>2. ASSUME NEW t \in Tasks, CompileStep(t)
      PROVE  DictIInv' /\ WordsKept
  <2>1. CASE \/ \E n \in Names : CompileName(t, n) \/ BracketTick(t, n)
             \/ CompileDoes(t) \/ CompileNumber(t) \/ Recurse(t)
    BY <2>1, CompileWords
  <2>2. CASE Semi(t)
    BY <2>2, SemiStep
  <2>3. CASE (\E n \in Names : ParseError(t, n)) \/ DataSpaceOverflow(t)
    BY <2>3, FailStep DEF ParseError, DataSpaceOverflow
  <2>4. CASE \/ \E compiling \in BOOLEAN : Bracket(t, compiling)
             \/ Allot(t) \/ GiveBack(t) \/ CommaFull(t)
    BY <2>4, SpaceStep
  <2>5. CASE OpenLambda(t)
    BY <2>5, OpenStep
  <2>6. CASE CloseLambda(t)
    BY <2>6, CloseStep
  <2> QED BY <1>2, <2>1, <2>2, <2>3, <2>4, <2>5, <2>6 DEF CompileStep
<1>3. CASE UNCHANGED vars
  <2>1. words' = words /\ chains' = chains /\ code' = code /\ task' = task
    BY <1>3 DEF vars
  <2>2. WordsInv' /\ TasksInv' /\ Laid(code, task)'
    BY <2>1, WordsSame DEF DictIInv, TasksInv, End
  <2>3. FramesInv'
    BY <2>1 DEF DictIInv, FramesInv, FrameLaw
  <2>4. WordsKept
    BY <2>1, WordsSame DEF DictIInv
  <2> QED BY <2>2, <2>3, <2>4 DEF DictIInv
<1> QED BY <1>1, <1>2, <1>3 DEF Next

\* The words, the wordlists, the data spaces and what the lambdas have open obey
\* their laws in every state (prim.c:1746-1930, inner.c:807-890).
THEOREM DictInductive ==
  Spec => []DictIInv
BY DictInit, DictStep, PTL DEF Spec

\* Every variable has its type and a wordlist links a word only once, whatever
\* the sizes of headers and chunks.
THEOREM DictTypeCorrect ==
  Spec => []DictionaryTypeOK
BY DictInductive, InvType, PTL

\* No instruction is compiled over another, past the end of a chunk, where a task
\* has yet to allot or into data it may give back (af_guarantee, af_allocate,
\* af_allot, inner.c:807-849); what , stores past the end of a chunk, which it
\* does where the chunk is full, is the one cell next to it (builtin.c:74).
THEOREM CellsApartCorrect ==
  Spec => []CellsApart
BY DictInductive, InvType, PTL

\* No definition, reset, ; or IMMEDIATE of any task takes a name away: what a
\* wordlist finds for it stays or is replaced by a newer word (prim.c:1777-1779,
\* 1910-1923, af_search_wordlist, inner.c:851-875).
THEOREM NamesKeptCorrect ==
  Spec => NamesKept
<1>1. DictIInv /\ [Next]_vars
        => [\A l \in Lists, n \in Names : FoundIn(l, n) <= FoundIn(l, n)']_vars
  <2> SUFFICES ASSUME DictIInv, [Next]_vars, NEW l \in Lists, NEW n \in Names
               PROVE  FoundIn(l, n) <= FoundIn(l, n)'
    OBVIOUS
  <2>1. DictIInv' /\ WordsKept
    BY DictStep
  <2>2. WordsInv /\ WordsInv'
    BY <2>1 DEF DictIInv
  <2> QED BY <2>1, <2>2, KeptNames
<1> QED BY <1>1, DictInductive, PTL DEF Spec, NamesKept

-----------------------------------------------------------------------------
(* Where control goes, from one address to the next and into the words it  *)
(* meets.  The operators have the code and the words as parameters, so     *)
(* that a law can be stated of a state and of the next one.                *)

EntryIn(W, w) ==
  IF w # NoWord /\ W[w].code \in {"docol", "does"} THEN {W[w].secondary} ELSE {}

\* on from the instruction i at a, without what it calls
AlongOf(a, i) ==
  CASE i.op = "branch" -> {i.to}
    [] i.op = "exit" -> {}
    [] OTHER -> {After(a, Size(i))}

CalledBy(W, i) == IF i.op \in {"call", "literal"} THEN EntryIn(W, i.word) ELSE {}

FlowOf(W, a, i) == AlongOf(a, i) \cup CalledBy(W, i)

\* control does not leave D, where there is code
Closed(c, W, D) == \A a \in D \cap DOMAIN c : FlowOf(W, a, c[a]) \subseteq D

\* what the word w does lies in D, and in D there is code but for one end
PartOf(c, W, D, w, end) ==
  D \subseteq DOMAIN c \cup {end} /\ Closed(c, W, D) /\ EntryIn(W, w) \subseteq D

OnlyFrom(c, W, D, end, b) ==
  \A a \in D \cap DOMAIN c : end \in FlowOf(W, a, c[a]) => a = b

\* what can be executed lies in C
RunsIn(c, W, C) ==
  /\ C \subseteq DOMAIN c /\ Closed(c, W, C)
  /\ \A w \in DOMAIN W : ~ W[w].hidden => EntryIn(W, w) \subseteq C

\* the code leads on from the address s to the address e, jumping over what it
\* calls
Leads(c, s, e) ==
  \A D : s \in D /\ (\A a \in D \cap DOMAIN c : AlongOf(a, c[a]) \subseteq D) => e \in D

LEMMA EntryIs ==
  ASSUME NEW w
  PROVE  Entry(w) = EntryIn(words, w)
BY DEF Entry, EntryIn

LEMMA FlowIs ==
  ASSUME NEW a \in DOMAIN code, code[a] \in Instructions
  PROVE  Flow(a) = FlowOf(words, a, code[a])
<1>1. code[a].op \in {"call", "literal", "branch", "does", "exit"}
  BY DEF Instructions
<1>2. code[a].op = "does" => Size(code[a]) = 1
  BY DEF Size
<1>3. CASE code[a].op \in {"call", "literal"}
  BY <1>3, EntryIs DEF Flow, FlowOf, AlongOf, CalledBy
<1>4. CASE code[a].op = "branch"
  BY <1>4 DEF Flow, FlowOf, AlongOf, CalledBy
<1>5. CASE code[a].op = "does"
  BY <1>2, <1>5 DEF Flow, FlowOf, AlongOf, CalledBy
<1>6. CASE code[a].op = "exit"
  BY <1>6 DEF Flow, FlowOf, AlongOf, CalledBy
<1> QED BY <1>1, <1>3, <1>4, <1>5, <1>6

LEMMA FlowNew ==
  ASSUME NEW W, NEW a
  PROVE  /\ \A w : FlowOf(W, a, Call(w)) = {After(a, 1)} \cup EntryIn(W, w)
         /\ \A w : FlowOf(W, a, Literal(w)) = {After(a, 2)} \cup EntryIn(W, w)
         /\ \A x : FlowOf(W, a, Branch(x)) = {x}
         /\ FlowOf(W, a, DoesCode) = {After(a, 1)}
         /\ FlowOf(W, a, Exit) = {}
<1>1. ASSUME NEW w
      PROVE  /\ FlowOf(W, a, Call(w)) = {After(a, 1)} \cup EntryIn(W, w)
             /\ FlowOf(W, a, Literal(w)) = {After(a, 2)} \cup EntryIn(W, w)
  BY Sizes DEF FlowOf, AlongOf, CalledBy, Call, Literal
<1>2. \A x : FlowOf(W, a, Branch(x)) = {x}
  BY DEF FlowOf, AlongOf, CalledBy, Branch
<1>3. FlowOf(W, a, DoesCode) = {After(a, 1)}
  BY Sizes DEF FlowOf, AlongOf, CalledBy, DoesCode
<1>4. FlowOf(W, a, Exit) = {}
  BY DEF FlowOf, AlongOf, CalledBy, Exit
<1> QED BY <1>1, <1>2, <1>3, <1>4

LEMMA FlowBranch ==
  \A W, a, x : FlowOf(W, a, Branch(x)) = {x}
BY FlowNew

LEMMA FlowLiteral ==
  \A W, a, w : FlowOf(W, a, Literal(w)) = {After(a, 2)} \cup EntryIn(W, w)
BY FlowNew

LEMMA AlongNew ==
  ASSUME NEW a
  PROVE  /\ \A w : AlongOf(a, Call(w)) = {After(a, 1)}
         /\ \A w : AlongOf(a, Literal(w)) = {After(a, 2)}
         /\ \A x : AlongOf(a, Branch(x)) = {x}
         /\ AlongOf(a, DoesCode) = {After(a, 1)}
BY Sizes DEF AlongOf, Call, Literal, Branch, DoesCode

LEMMA AlongBranch ==
  \A a, x : AlongOf(a, Branch(x)) = {x}
BY AlongNew

\* A part is a part of the code that comes after it, wherever that code is new
\* or says something else.
LEMMA ClosedKept ==
  ASSUME NEW c, NEW W, NEW c2, NEW W2, NEW D, NEW end,
         D \subseteq DOMAIN c \cup {end}, Closed(c, W, D),
         end \notin DOMAIN c2, DOMAIN c \subseteq DOMAIN c2,
         \A a \in D \cap DOMAIN c : /\ c2[a] = c[a]
                                    /\ CalledBy(W2, c[a]) = CalledBy(W, c[a])
  PROVE  /\ Closed(c2, W2, D) /\ D \subseteq DOMAIN c2 \cup {end}
         /\ \A e, b : OnlyFrom(c, W, D, e, b) => OnlyFrom(c2, W2, D, e, b)
<1>1. \A a \in D \cap DOMAIN c2 : a \in DOMAIN c
  OBVIOUS
<1>2. \A a \in D \cap DOMAIN c2 : FlowOf(W2, a, c2[a]) = FlowOf(W, a, c[a])
  BY <1>1 DEF FlowOf
<1> QED BY <1>1, <1>2 DEF Closed, OnlyFrom

LEMMA LeadsKept ==
  ASSUME NEW c, NEW c2, NEW s, NEW e, NEW x, Leads(c, s, e),
         DOMAIN c \subseteq DOMAIN c2, x \notin DOMAIN c, x # e,
         \A a \in DOMAIN c : c2[a] = c[a] \/ c[a] = Branch(x)
  PROVE  Leads(c2, s, e)
<1> SUFFICES ASSUME NEW D, s \in D,
                    \A a \in D \cap DOMAIN c2 : AlongOf(a, c2[a]) \subseteq D
             PROVE  e \in D
  BY DEF Leads
<1> DEFINE F == D \cup {x}
<1>1. ASSUME NEW a \in F \cap DOMAIN c
      PROVE  AlongOf(a, c[a]) \subseteq F
  <2>1. a \in D \cap DOMAIN c2
    OBVIOUS
  <2>2. CASE c2[a] = c[a]
    BY <2>1, <2>2
  <2>3. CASE c[a] = Branch(x)
    <3>1. AlongOf(a, c[a]) = {x}
      BY <2>3, AlongBranch
    <3> QED BY <3>1
  <2> QED BY <2>2, <2>3
<1>2. s \in F
  OBVIOUS
<1> HIDE DEF F
<1>3. e \in F
  BY <1>1, <1>2 DEF Leads
<1> QED BY <1>3 DEF F

\* One more instruction leads further on.
LEMMA LeadsOn ==
  ASSUME NEW c, NEW s, NEW a, NEW e, Leads(c, s, a), a \in DOMAIN c,
         e \in AlongOf(a, c[a])
  PROVE  Leads(c, s, e)
BY DEF Leads
-----------------------------------------------------------------------------
(* The invariant.                                                          *)

Refs(c, W) ==
  /\ IsFiniteSet(DOMAIN c)
  /\ \A a \in DOMAIN c :
       /\ a[2] # 0
       /\ c[a].op \in {"call", "literal"} => c[a].word \in {NoWord} \cup DOMAIN W

Place(t, r) == <<t, r.chunk, r.here>>

\* the definition of w is not complete, nor has DOES> made another word of it
Going(W, w) == w # NoWord /\ W[w].hidden /\ W[w].code = "docol"

\* The word t has made last goes on where t compiles next, if it goes on.
RecentLaw(c, W, t, r) ==
  /\ r.recent # NoWord => \E D : PartOf(c, W, D, r.recent, Place(t, r))
  /\ Going(W, r.recent) => Leads(c, W[r.recent].secondary, Place(t, r))

\* A word with a lambda in it that is not complete goes on at that lambda's
\* BRANCH, the only way out of it, which goes nowhere yet.
OuterLaw(c, W, t, f) ==
  /\ \E D : /\ PartOf(c, W, D, f.outer, Elsewhere(t))
            /\ OnlyFrom(c, W, D, Elsewhere(t), f.branch)
  /\ Elsewhere(t) \notin EntryIn(W, f.outer)
  /\ Going(W, f.outer) => Leads(c, W[f.outer].secondary, f.branch)

\* The lambdas are within one another, the word made last is the innermost.
Nested(c, t, r) ==
  \A i \in DOMAIN r.frames :
    /\ r.frames[i].branch \in DOMAIN c
    /\ r.frames[i].branch[1] = t /\ c[r.frames[i].branch] = Branch(Elsewhere(t))
    /\ r.frames[i].outer # NoWord
    /\ r.frames[i].xt = IF i = 1 THEN r.recent ELSE r.frames[i - 1].outer
    /\ \A j \in DOMAIN r.frames : r.frames[i].branch = r.frames[j].branch => i = j

TaskLaw(c, W, t, r) ==
  /\ RecentLaw(c, W, t, r) /\ Nested(c, t, r)
  /\ \A i \in DOMAIN r.frames : OuterLaw(c, W, t, r.frames[i])

FlowInv ==
  /\ Refs(code, words)
  /\ \E C : RunsIn(code, words, C)
  /\ \A t \in Tasks : TaskLaw(code, words, t, task[t])

\* what a step leaves alone of the words there are
WordsStay ==
  /\ DOMAIN words \subseteq DOMAIN words'
  /\ \A w \in {NoWord} \cup DOMAIN words : EntryIn(words', w) = EntryIn(words, w)
  /\ \A w \in {NoWord} \cup DOMAIN words :
       Going(words', w) => Going(words, w) /\ words'[w].secondary = words[w].secondary

\* what a step of t leaves alone of the code there is
CodeStays(t) ==
  /\ DOMAIN code \subseteq DOMAIN code'
  /\ \A a \in DOMAIN code :
       code'[a] = code[a] \/ (code[a] = Branch(Elsewhere(t)) /\ a[1] = t)

\* No task has compiled anything yet where it compiles next.
LEMMA NotYet ==
  ASSUME NEW c, NEW T \in [Tasks -> TaskRecords], Laid(c, T), NEW t \in Tasks,
         T[t].floor <= T[t].here
  PROVE  Place(t, T[t]) \notin DOMAIN c
<1> DEFINE a == Place(t, T[t])
<1>1. a[1] = t /\ a[2] = T[t].chunk /\ a[3] = T[t].here /\ T[t].here \in Nat
      /\ T[t].floor \in Nat /\ T[t].floor <= T[t].here
  BY DEF Place, TaskRecords
<1> HIDE DEF a
<1>2. SUFFICES ASSUME a \in DOMAIN c PROVE FALSE
  BY DEF a
<1>3. c[a] \in Instructions /\ a[3] + Size(c[a]) <= T[t].floor
  BY <1>1, <1>2 DEF Laid
<1>4. Size(c[a]) \in Nat /\ Size(c[a]) > 0
  BY <1>3, SizeOf
<1> QED BY <1>1, <1>3, <1>4

\* the same of the state before a step, and of the one after it
LEMMA NotYetCompiled ==
  ASSUME DictIInv, NEW t \in Tasks
  PROVE  Place(t, task[t]) \notin DOMAIN code
BY TaskFacts, NotYet DEF DictIInv, TasksInv

LEMMA NotYetCompiledNext ==
  ASSUME DictIInv', NEW t \in Tasks
  PROVE  Place(t, task'[t]) \notin DOMAIN code'
<1>1. /\ task' \in [Tasks -> TaskRecords] /\ Laid(code', task')
      /\ task'[t].floor \in 0..task'[t].here
  BY DEF DictIInv, TasksInv
<1>2. task'[t] \in TaskRecords
  BY <1>1
<1>3. task'[t].floor <= task'[t].here
  BY <1>1, <1>2 DEF TaskRecords
<1> QED BY <1>1, <1>3, NotYet

LEMMA ElsewhereNot ==
  ASSUME NEW c, NEW W, Refs(c, W), NEW t
  PROVE  Elsewhere(t) \notin DOMAIN c
BY DEF Refs, Elsewhere

LEMMA PlaceIs ==
  ASSUME NEW t \in Tasks
  PROVE  At(t) = Place(t, task[t])
BY DEF At, Place

LEMMA CalledStay ==
  ASSUME Refs(code, words), WordsStay, NEW a \in DOMAIN code
  PROVE  CalledBy(words', code[a]) = CalledBy(words, code[a])
BY DEF Refs, WordsStay, CalledBy

LEMMA OuterKept ==
  ASSUME Refs(code, words), Refs(code', words'), WordsStay, NEW t \in Tasks,
         CodeStays(t), NEW u \in Tasks, NEW f, OuterLaw(code, words, u, f),
         f.outer \in DOMAIN words, f.branch \in DOMAIN code,
         u = t => code'[f.branch] = code[f.branch]
  PROVE  OuterLaw(code', words', u, f)
<1>1. Elsewhere(u) \notin DOMAIN code' /\ Elsewhere(t) \notin DOMAIN code
  BY ElsewhereNot
<1>2. Elsewhere(u)[1] = u /\ Elsewhere(t)[1] = t
  BY DEF Elsewhere
<1>3. PICK D : /\ PartOf(code, words, D, f.outer, Elsewhere(u))
               /\ OnlyFrom(code, words, D, Elsewhere(u), f.branch)
  BY DEF OuterLaw
<1>4. ASSUME NEW a \in D \cap DOMAIN code, code'[a] # code[a]
      PROVE  FALSE
  <2>1. code[a] = Branch(Elsewhere(t))
    BY <1>4 DEF CodeStays
  <2>2. FlowOf(words, a, code[a]) = {Elsewhere(t)}
    BY <2>1, FlowBranch
  <2>3. Elsewhere(t) \in DOMAIN code \cup {Elsewhere(u)}
    BY <1>3, <2>2 DEF PartOf, Closed
  <2>4. u = t
    BY <1>1, <1>2, <2>3
  <2>5. a = f.branch
    BY <1>3, <2>2, <2>4 DEF OnlyFrom
  <2> QED BY <1>4, <2>4, <2>5
<1>5. \A a \in D \cap DOMAIN code : CalledBy(words', code[a]) = CalledBy(words, code[a])
  BY CalledStay
<1>6. /\ Closed(code', words', D) /\ D \subseteq DOMAIN code' \cup {Elsewhere(u)}
      /\ OnlyFrom(code', words', D, Elsewhere(u), f.branch)
  <2>1. D \subseteq DOMAIN code \cup {Elsewhere(u)} /\ Closed(code, words, D)
    BY <1>3 DEF PartOf
  <2>2. DOMAIN code \subseteq DOMAIN code'
    BY DEF CodeStays
  <2>3. \A a \in D \cap DOMAIN code : /\ code'[a] = code[a]
                                      /\ CalledBy(words', code[a]) = CalledBy(words, code[a])
    BY <1>4, <1>5
  <2>4. /\ Closed(code', words', D) /\ D \subseteq DOMAIN code' \cup {Elsewhere(u)}
        /\ \A e, b : OnlyFrom(code, words, D, e, b) => OnlyFrom(code', words', D, e, b)
    BY <1>1, <2>1, <2>2, <2>3, ClosedKept
  <2> QED BY <1>3, <2>4
<1>7. EntryIn(words', f.outer) \subseteq D /\ Elsewhere(u) \notin EntryIn(words', f.outer)
  BY <1>3 DEF PartOf, WordsStay, OuterLaw
<1>8. Going(words', f.outer) => Leads(code', words'[f.outer].secondary, f.branch)
  <2> SUFFICES ASSUME Going(words', f.outer)
               PROVE  Leads(code', words'[f.outer].secondary, f.branch)
    OBVIOUS
  <2>1. /\ Leads(code, words[f.outer].secondary, f.branch)
        /\ words'[f.outer].secondary = words[f.outer].secondary
    BY DEF OuterLaw, WordsStay
  <2> QED BY <1>1, <2>1, LeadsKept DEF CodeStays
<1> QED BY <1>6, <1>7, <1>8 DEF OuterLaw, PartOf

LEMMA RecentKept ==
  ASSUME Refs(code, words), Refs(code', words'), WordsStay, NEW t \in Tasks,
         CodeStays(t), NEW u \in Tasks, NEW r, RecentLaw(code, words, u, r),
         r.recent \in {NoWord} \cup DOMAIN words, Place(u, r) \notin DOMAIN code',
         u = t => \A a \in DOMAIN code : code'[a] = code[a]
  PROVE  RecentLaw(code', words', u, r)
<1>1. Elsewhere(t) \notin DOMAIN code /\ Elsewhere(t)[1] = t /\ Place(u, r)[1] = u
  BY ElsewhereNot DEF Elsewhere, Place
<1>2. ASSUME r.recent # NoWord
      PROVE  \E D : PartOf(code', words', D, r.recent, Place(u, r))
  <2>1. PICK D : PartOf(code, words, D, r.recent, Place(u, r))
    BY <1>2 DEF RecentLaw
  <2>2. ASSUME NEW a \in D \cap DOMAIN code, code'[a] # code[a]
        PROVE  FALSE
    <3>1. code[a] = Branch(Elsewhere(t)) /\ u # t
      BY <2>2 DEF CodeStays
    <3>2. FlowOf(words, a, code[a]) = {Elsewhere(t)}
      BY <3>1, FlowBranch
    <3>3. Elsewhere(t) \in DOMAIN code \cup {Place(u, r)}
      BY <2>1, <3>2 DEF PartOf, Closed
    <3> QED BY <1>1, <3>1, <3>3
  <2>3. \A a \in D \cap DOMAIN code : CalledBy(words', code[a]) = CalledBy(words, code[a])
    BY CalledStay
  <2>4. Closed(code', words', D) /\ D \subseteq DOMAIN code' \cup {Place(u, r)}
    BY <2>1, <2>2, <2>3, ClosedKept DEF PartOf, CodeStays
  <2>5. EntryIn(words', r.recent) \subseteq D
    BY <2>1 DEF PartOf, WordsStay
  <2> QED BY <2>4, <2>5 DEF PartOf
<1>3. ASSUME Going(words', r.recent)
      PROVE  Leads(code', words'[r.recent].secondary, Place(u, r))
  <2>1. /\ Leads(code, words[r.recent].secondary, Place(u, r))
        /\ words'[r.recent].secondary = words[r.recent].secondary
    BY <1>3 DEF RecentLaw, WordsStay
  <2>2. CASE u = t
    <3>1. \A a \in DOMAIN code : code'[a] = code[a]
      BY <2>2
    <3>2. \A D : (\A a \in D \cap DOMAIN code' : AlongOf(a, code'[a]) \subseteq D)
              => (\A a \in D \cap DOMAIN code : AlongOf(a, code[a]) \subseteq D)
      BY <3>1 DEF CodeStays
    <3> QED BY <2>1, <3>2 DEF Leads
  <2>3. CASE u # t
    <3>1. Elsewhere(t) # Place(u, r)
      BY <1>1, <2>3
    <3> QED BY <1>1, <2>1, <3>1, LeadsKept DEF CodeStays
  <2> QED BY <2>2, <2>3
<1> QED BY <1>2, <1>3 DEF RecentLaw

LEMMA NestedKept ==
  ASSUME NEW t \in Tasks, CodeStays(t), NEW u \in Tasks \ {t}, NEW r,
         Nested(code, u, r)
  PROVE  Nested(code', u, r)
BY DEF Nested, CodeStays

\* Nothing that can be executed changes, unless DOES> or ; has its way.
LEMMA RunKept ==
  ASSUME Refs(code, words), Refs(code', words'), WordsStay, NEW t \in Tasks, CodeStays(t),
         \A w \in DOMAIN words' :
           ~ words'[w].hidden => \/ w \in DOMAIN words /\ ~ words[w].hidden
                                 \/ EntryIn(words', w) = {},
         NEW C, RunsIn(code, words, C)
  PROVE  RunsIn(code', words', C)
<1>1. Elsewhere(t) \notin DOMAIN code /\ Elsewhere(t) \notin DOMAIN code'
  BY ElsewhereNot
<1>2. ASSUME NEW a \in C \cap DOMAIN code, code'[a] # code[a]
      PROVE  FALSE
  <2>1. FlowOf(words, a, code[a]) = {Elsewhere(t)}
    BY <1>2, FlowBranch DEF CodeStays
  <2> QED BY <1>1, <2>1 DEF RunsIn, Closed
<1>3. \A a \in C \cap DOMAIN code : CalledBy(words', code[a]) = CalledBy(words, code[a])
  BY CalledStay
<1>4. Closed(code', words', C)
  <2>1. C \subseteq DOMAIN code \cup {Elsewhere(t)} /\ Closed(code, words, C)
    BY DEF RunsIn
  <2> QED BY <1>1, <1>2, <1>3, <2>1, ClosedKept DEF CodeStays
<1>5. C \subseteq DOMAIN code'
  BY DEF RunsIn, CodeStays
<1>6. ASSUME NEW w \in DOMAIN words', ~ words'[w].hidden
      PROVE  EntryIn(words', w) \subseteq C
  BY <1>6 DEF RunsIn, WordsStay
<1> QED BY <1>4, <1>5, <1>6 DEF RunsIn

\* A step of t is to be followed by what t itself and the words that can be
\* executed have of it.
LEMMA FlowAssemble ==
  ASSUME DictIInv, DictIInv', FlowInv, NEW t \in Tasks, NEW r,
         task' = [task EXCEPT ![t] = r], Refs(code', words'), WordsStay, CodeStays(t),
         \E C : RunsIn(code', words', C), TaskLaw(code', words', t, r)
  PROVE  FlowInv'
<1>1. /\ task \in [Tasks -> TaskRecords] /\ FramesInv
      /\ \A u \in Tasks : task[u].recent \in {NoWord} \cup DOMAIN words
  BY DEF DictIInv, TasksInv
<1>2. task' \in [Tasks -> TaskRecords] /\ Laid(code', task')
  BY DEF DictIInv, TasksInv
<1>3. Refs(code, words)
  BY DEF FlowInv
<1>4. ASSUME NEW u \in Tasks \ {t}
      PROVE  TaskLaw(code', words', u, task'[u])
  <2>1. task'[u] = task[u] /\ TaskLaw(code, words, u, task[u])
    BY <1>1 DEF FlowInv
  <2>2. Place(u, task[u]) \notin DOMAIN code'
    BY <2>1, NotYetCompiledNext
  <2>3. RecentLaw(code', words', u, task[u])
    BY <1>1, <1>3, <2>1, <2>2, RecentKept DEF TaskLaw
  <2>4. Nested(code', u, task[u])
    BY <2>1, NestedKept DEF TaskLaw
  <2>5. ASSUME NEW i \in DOMAIN task[u].frames
        PROVE  OuterLaw(code', words', u, task[u].frames[i])
    <3>1. FrameLaw(task[u].frames[i]) /\ task[u].frames[i].outer # NoWord
      BY <1>1, <2>1 DEF FramesInv, TaskLaw, Nested
    <3>2. task[u].frames[i].outer \in DOMAIN words /\ task[u].frames[i].branch \in DOMAIN code
      BY <3>1 DEF FrameLaw
    <3>3. OuterLaw(code, words, u, task[u].frames[i])
      BY <2>1 DEF TaskLaw
    <3> QED BY <1>3, <3>2, <3>3, OuterKept
  <2> QED BY <2>1, <2>3, <2>4, <2>5 DEF TaskLaw
<1>5. task'[t] = r
  BY <1>1
<1> QED BY <1>4, <1>5 DEF FlowInv

\* What the words of a task's own lambdas have of its step, but for the one that
\* the step has to do with.
LEMMA OwnOuters ==
  ASSUME DictIInv, FlowInv, Refs(code', words'), WordsStay, NEW t \in Tasks, CodeStays(t),
         NEW i \in DOMAIN task[t].frames,
         code'[task[t].frames[i].branch] = code[task[t].frames[i].branch]
  PROVE  OuterLaw(code', words', t, task[t].frames[i])
<1>1. FrameLaw(task[t].frames[i]) /\ task[t].frames[i].outer # NoWord
  BY DEF DictIInv, FramesInv, FlowInv, TaskLaw, Nested
<1>2. task[t].frames[i].outer \in DOMAIN words /\ task[t].frames[i].branch \in DOMAIN code
  BY <1>1 DEF FrameLaw
<1>3. OuterLaw(code, words, t, task[t].frames[i]) /\ Refs(code, words)
  BY DEF FlowInv, TaskLaw
<1> QED BY <1>2, <1>3, OuterKept

\* A word that can be found is part of what can be executed, wherever its task
\* goes on.
LEMMA VisibleRecent ==
  ASSUME NEW c, NEW W, NEW C, RunsIn(c, W, C), NEW t, NEW r,
         r.recent # NoWord => r.recent \in DOMAIN W /\ ~ W[r.recent].hidden
  PROVE  RecentLaw(c, W, t, r)
<1>1. r.recent # NoWord => PartOf(c, W, C, r.recent, Place(t, r))
  BY DEF RunsIn, PartOf
<1>2. ~ Going(W, r.recent)
  BY DEF Going
<1> QED BY <1>1, <1>2 DEF RecentLaw

LEMMA NoFrames ==
  ASSUME NEW c, NEW W, NEW t, NEW r, RecentLaw(c, W, t, r), r.frames = <<>>
  PROVE  TaskLaw(c, W, t, r)
<1>1. DOMAIN r.frames = {}
  OBVIOUS
<1> QED BY <1>1 DEF TaskLaw, Nested

-----------------------------------------------------------------------------
(* Steps that compile nothing and make no word.                            *)

LEMMA SameWords ==
  ASSUME words' = words, code' = code, Refs(code, words), NEW t
  PROVE  WordsStay /\ CodeStays(t) /\ Refs(code', words')
BY DEF WordsStay, CodeStays, Going

LEMMA FlowReset ==
  ASSUME DictIInv, DictIInv', FlowInv, NEW t \in Tasks, NEW here, NEW beyond,
         Reset(t, here, beyond), UNCHANGED <<words, chains, code>>
  PROVE  FlowInv'
<1> DEFINE r == [task[t] EXCEPT !.compiling = FALSE, !.recent = NoWord, !.frames = <<>>,
                                !.here = here, !.beyond = beyond]
<1>1. task \in [Tasks -> TaskRecords] /\ task[t] \in TaskRecords
  BY DEF DictIInv, TasksInv
<1>2. task' = [task EXCEPT ![t] = r]
  BY <1>1 DEF Reset
<1>3. r.recent = NoWord /\ r.frames = <<>>
  BY <1>1 DEF TaskRecords
<1> HIDE DEF r
<1>4. WordsStay /\ CodeStays(t) /\ Refs(code', words')
  BY SameWords DEF FlowInv
<1>5. PICK C : RunsIn(code', words', C)
  BY DEF FlowInv
<1>6. TaskLaw(code', words', t, r)
  <2>1. RecentLaw(code', words', t, r)
    BY <1>3, <1>5, VisibleRecent
  <2> QED BY <1>3, <2>1, NoFrames
<1> QED BY <1>2, <1>4, <1>5, <1>6, FlowAssemble

\* [ and ], ALLOT forth and back, and IMMEDIATE
LEMMA FlowSame ==
  ASSUME DictIInv, DictIInv', FlowInv, NEW t \in Tasks,
         \/ \E compiling \in BOOLEAN : Bracket(t, compiling)
         \/ Allot(t) \/ GiveBack(t) \/ Immediate(t)
  PROVE  FlowInv'
<1>1. /\ task \in [Tasks -> TaskRecords] /\ task[t] \in TaskRecords
      /\ task[t].recent \in {NoWord} \cup DOMAIN words /\ words \in Seq(Words)
  BY DEF DictIInv, TasksInv, WordsInv
<1>2. code' = code /\ Refs(code, words) /\ TaskLaw(code, words, t, task[t])
  BY DEF Bracket, Allot, GiveBack, Immediate, FlowInv
<1>3. /\ DOMAIN words' = DOMAIN words
      /\ \A w \in DOMAIN words : /\ words'[w].hidden = words[w].hidden
                                 /\ words'[w].code = words[w].code
                                 /\ words'[w].secondary = words[w].secondary
  <2>1. CASE Immediate(t)
    <3>1. words' = [words EXCEPT ![task[t].recent].immediate = TRUE]
      BY <2>1 DEF Immediate
    <3>2. \A w \in DOMAIN words : words[w] \in Words
      BY <1>1
    <3> HIDE DEF Words
    <3>3. DOMAIN words' = DOMAIN words
      BY <3>1
    <3>4. \A w \in DOMAIN words :
            words'[w] = IF w = task[t].recent THEN [words[w] EXCEPT !.immediate = TRUE]
                        ELSE words[w]
      BY <3>1
    <3> QED BY <3>2, <3>3, <3>4 DEF Words
  <2>2. CASE words' = words
    BY <2>2
  <2> QED BY <2>1, <2>2 DEF Bracket, Allot, GiveBack
<1>4. WordsStay /\ CodeStays(t) /\ Refs(code', words')
  BY <1>2, <1>3 DEF WordsStay, CodeStays, Refs, EntryIn, Going
<1>5. PICK C : RunsIn(code, words, C)
  BY DEF FlowInv
<1>6. RunsIn(code', words', C)
  BY <1>2, <1>3, <1>4, <1>5, RunKept
<1>7. PICK r : /\ task' = [task EXCEPT ![t] = r]
               /\ r.recent = task[t].recent /\ r.frames = task[t].frames
               /\ \/ r.here = task[t].here /\ r.chunk = task[t].chunk
                  \/ ~ Open(t)
  <2>1. ASSUME NEW compiling \in BOOLEAN, Bracket(t, compiling)
        PROVE  /\ task' = [task EXCEPT ![t] = [task[t] EXCEPT !.compiling = compiling]]
               /\ LET s == [task[t] EXCEPT !.compiling = compiling] IN
                  /\ s.recent = task[t].recent /\ s.frames = task[t].frames
                  /\ s.here = task[t].here /\ s.chunk = task[t].chunk
    BY <1>1, <2>1 DEF Bracket, TaskRecords
  <2>2. CASE Allot(t) \/ GiveBack(t)
    <3>1. PICK here : task' = [task EXCEPT ![t].here = here] /\ ~ Open(t)
      BY <1>1, <2>2 DEF Allot, GiveBack
    <3> DEFINE s == [task[t] EXCEPT !.here = here]
    <3>3. task' = [task EXCEPT ![t] = s]
      BY <1>1, <3>1
    <3>2. s.recent = task[t].recent /\ s.frames = task[t].frames
      BY <1>1 DEF TaskRecords
    <3> QED BY <3>1, <3>2, <3>3
  <2>3. CASE Immediate(t)
    <3>1. task' = [task EXCEPT ![t] = task[t]]
      BY <1>1, <2>3 DEF Immediate
    <3> QED BY <3>1
  <2> QED BY <2>1, <2>2, <2>3
<1>8. RecentLaw(code', words', t, r)
  <2>1. CASE r.here = task[t].here /\ r.chunk = task[t].chunk
    <3>1. Place(t, r) = Place(t, task[t])
      BY <2>1 DEF Place
    <3>2. Place(t, r) \notin DOMAIN code'
      BY <1>2, <3>1, NotYetCompiled
    <3>3. RecentLaw(code, words, t, r)
      BY <1>2, <1>7, <3>1 DEF TaskLaw, RecentLaw
    <3> QED BY <1>1, <1>2, <1>4, <1>7, <3>2, <3>3, RecentKept
  <2>2. CASE ~ Open(t)
    BY <1>1, <1>3, <1>6, <1>7, <2>2, VisibleRecent DEF Open
  <2> QED BY <1>7, <2>1, <2>2
<1>9. Nested(code', t, r)
  BY <1>2, <1>7 DEF TaskLaw, Nested
<1>10. \A i \in DOMAIN r.frames : OuterLaw(code', words', t, r.frames[i])
  BY <1>2, <1>4, <1>7, OwnOuters
<1> QED BY <1>4, <1>6, <1>7, <1>8, <1>9, <1>10, FlowAssemble DEF TaskLaw

-----------------------------------------------------------------------------
(* Steps that make a word.                                                 *)

LEMMA Appended ==
  ASSUME DictIInv, NEW word, words' = Append(words, word)
  PROVE  /\ WordsStay /\ DOMAIN words' = DOMAIN words \cup {Len(words) + 1}
         /\ Len(words) + 1 \notin DOMAIN words /\ Len(words) + 1 # NoWord
         /\ words'[Len(words) + 1] = word
         /\ \A w \in DOMAIN words : words'[w] = words[w]
<1>1. words \in Seq(Words) /\ DOMAIN words = 1..Len(words) /\ Len(words) \in Nat
  BY DEF DictIInv, WordsInv
<1>2. words \in Seq(Words \cup {word}) /\ word \in Words \cup {word}
  BY <1>1
<1>3. /\ DOMAIN words' = 1..(Len(words) + 1) /\ words'[Len(words) + 1] = word
      /\ \A w \in 1..Len(words) : words'[w] = words[w]
  BY <1>2
<1>4. /\ DOMAIN words' = DOMAIN words \cup {Len(words) + 1}
      /\ Len(words) + 1 \notin DOMAIN words /\ Len(words) + 1 # NoWord
  BY <1>1, <1>3 DEF NoWord
<1>5. \A w \in DOMAIN words : words'[w] = words[w]
  BY <1>1, <1>3
<1>6. WordsStay
  BY <1>4, <1>5 DEF WordsStay, EntryIn, Going
<1> QED BY <1>3, <1>4, <1>5, <1>6

\* The code of a new word is to go where its task goes on.
HeaderOf(t, used, name, hidden, kind) ==
  [name |-> name, hidden |-> hidden, immediate |-> FALSE, code |-> kind,
   secondary |-> IF kind = "docol" THEN Place(t, Headed(t, used)) ELSE Elsewhere(t)]

LEMMA HeaderAt ==
  ASSUME DictIInv, NEW t \in Tasks, NEW used \in 0..3, NEW name, NEW hidden, NEW kind,
         MakeWord(t, used, name, hidden, kind)
  PROVE  words' = Append(words, HeaderOf(t, used, name, hidden, kind))
<1> DEFINE place == IF Stays(t, used) THEN After(At(t), used)
                    ELSE <<t, task[t].chunk + 1, 0>>
<1>1. task[t] \in TaskRecords /\ task[t].here \in Nat /\ HeaderCells \in Nat
  BY TaskFacts, DictionarySizes
<1>2. Place(t, Headed(t, used)) = After(place, HeaderCells)
  <2>1. /\ Headed(t, used).chunk = IF Stays(t, used) THEN task[t].chunk ELSE task[t].chunk + 1
        /\ Headed(t, used).here = (IF Stays(t, used) THEN task[t].here + used ELSE 0)
                                  + HeaderCells
    BY <1>1 DEF Headed, UpTo, TaskRecords
  <2>2. CASE Stays(t, used)
    BY <2>1, <2>2 DEF Place, After, At
  <2>3. CASE ~ Stays(t, used)
    BY <2>1, <2>3 DEF Place, After
  <2> QED BY <2>2, <2>3
<1> QED BY <1>2 DEF MakeWord, HeaderOf

\* a word of which no code has been compiled yet
LEMMA NewDefinition ==
  ASSUME NEW c, NEW W, NEW t, NEW r, Place(t, r) \notin DOMAIN c,
         r.recent # NoWord => EntryIn(W, r.recent) \subseteq {Place(t, r)}
                              /\ (Going(W, r.recent) => W[r.recent].secondary = Place(t, r))
  PROVE  RecentLaw(c, W, t, r)
<1>1. Closed(c, W, {Place(t, r)})
  BY DEF Closed
<1>2. r.recent # NoWord => PartOf(c, W, {Place(t, r)}, r.recent, Place(t, r))
  BY <1>1 DEF PartOf
<1>3. Going(W, r.recent) => Leads(c, W[r.recent].secondary, Place(t, r))
  BY DEF Leads, Going
<1> QED BY <1>2, <1>3 DEF RecentLaw

LEMMA FlowHeader ==
  ASSUME DictIInv, DictIInv', FlowInv, NEW t \in Tasks,
         \/ \E n \in Names : Create(t, n)
         \/ \E n \in Names \cup {NoName} : Colon(t, n)
         \/ CreateNonameAt(t)
  PROVE  FlowInv'
<1> DEFINE last == Len(words) + 1
<1>1. /\ task \in [Tasks -> TaskRecords] /\ task[t] \in TaskRecords
      /\ task[t].frames = <<>> /\ code' = code
      /\ task' \in [Tasks -> TaskRecords] /\ Laid(code', task')
  BY DEF DictIInv, TasksInv, Create, Colon, CreateNonameAt, NoLambda
<1>2. PICK word, r : /\ words' = Append(words, word) /\ task' = [task EXCEPT ![t] = r]
                     /\ r.recent = last /\ r.frames = <<>>
                     /\ \/ ~ word.hidden /\ word.code = "push"
                        \/ word.hidden /\ word.secondary = Place(t, r)
  <2> DEFINE h == Headed(t, 0)
             c == [h EXCEPT !.compiling = TRUE]
             e == [task[t] EXCEPT !.compiling = FALSE, !.recent = last]
  <2>1. /\ h.recent = last /\ h.frames = <<>>
        /\ c.recent = last /\ c.frames = <<>> /\ Place(t, c) = Place(t, h)
        /\ e.recent = last /\ e.frames = <<>>
    BY <1>1 DEF Headed, UpTo, TaskRecords, Place
  <2>2. 0 \in 0..3
    OBVIOUS
  <2>3. ASSUME NEW n \in Names, Create(t, n)
        PROVE  \E word : words' = Append(words, word) /\ ~ word.hidden
                         /\ word.code = "push" /\ task' = [task EXCEPT ![t] = h]
    <3> DEFINE word == HeaderOf(t, 0, n, FALSE, "push")
    <3>1. words' = Append(words, word)
      BY <2>2, <2>3, HeaderAt DEF Create
    <3>2. ~ word.hidden /\ word.code = "push"
      BY DEF HeaderOf
    <3>3. task' = [task EXCEPT ![t] = h]
      BY <2>3 DEF Create
    <3> HIDE DEF word
    <3> QED BY <3>1, <3>2, <3>3
  <2>4. ASSUME NEW n \in Names \cup {NoName}, Colon(t, n)
        PROVE  \E word : words' = Append(words, word) /\ word.hidden
                         /\ word.secondary = Place(t, h) /\ task' = [task EXCEPT ![t] = c]
    <3> DEFINE word == HeaderOf(t, 0, n, TRUE, "docol")
    <3>1. words' = Append(words, word)
      BY <2>2, <2>4, HeaderAt DEF Colon
    <3>2. word.hidden /\ word.secondary = Place(t, h)
      BY DEF HeaderOf
    <3>3. task' = [task EXCEPT ![t] = c]
      BY <2>4 DEF Colon
    <3> HIDE DEF word, c
    <3> QED BY <3>1, <3>2, <3>3
  <2>5. CASE CreateNonameAt(t)
    <3> DEFINE word == [name |-> NoName, hidden |-> FALSE, immediate |-> FALSE,
                        code |-> "push", secondary |-> Elsewhere(t)]
    <3>1. words' = Append(words, word) /\ task' = [task EXCEPT ![t] = e]
      BY <1>1, <2>5 DEF CreateNonameAt
    <3>2. ~ word.hidden /\ word.code = "push"
      OBVIOUS
    <3> HIDE DEF word, e
    <3> QED BY <2>1, <3>1, <3>2
  <2> HIDE DEF h, c, e, last
  <2> QED BY <2>1, <2>3, <2>4, <2>5
<1>3. /\ WordsStay /\ DOMAIN words' = DOMAIN words \cup {last}
      /\ last \notin DOMAIN words /\ last # NoWord /\ words'[last] = word
      /\ \A w \in DOMAIN words : words'[w] = words[w]
  BY <1>2, Appended
<1> HIDE DEF last
<1>4. CodeStays(t) /\ Refs(code, words) /\ Refs(code', words')
  BY <1>1, <1>3 DEF CodeStays, Refs, FlowInv
<1>5. PICK C : RunsIn(code, words, C)
  BY DEF FlowInv
<1>6. RunsIn(code', words', C)
  <2>1. \A w \in DOMAIN words' :
          ~ words'[w].hidden => \/ w \in DOMAIN words /\ ~ words[w].hidden
                                \/ EntryIn(words', w) = {}
    BY <1>2, <1>3 DEF EntryIn
  <2> QED BY <1>3, <1>4, <1>5, <2>1, RunKept
<1>7. RecentLaw(code', words', t, r)
  <2>1. CASE ~ word.hidden
    BY <1>2, <1>3, <1>6, <2>1, VisibleRecent
  <2>2. CASE word.hidden
    <3>1. task'[t] = r
      BY <1>1, <1>2
    <3>2. Place(t, r) \notin DOMAIN code'
      BY <3>1, NotYetCompiledNext
    <3>3. words'[r.recent].secondary = Place(t, r)
      BY <1>2, <1>3, <2>2
    <3>4. EntryIn(words', r.recent) \subseteq {Place(t, r)}
      BY <3>3 DEF EntryIn
    <3> QED BY <3>2, <3>3, <3>4, NewDefinition
  <2> QED BY <1>2, <2>1, <2>2
<1>8. TaskLaw(code', words', t, r)
  BY <1>2, <1>7, NoFrames
<1> QED BY <1>2, <1>3, <1>4, <1>6, <1>8, FlowAssemble

-----------------------------------------------------------------------------
(* Steps that compile.                                                     *)

\* what one more instruction makes of the code
LEMMA OneMore ==
  ASSUME DictIInv, FlowInv, NEW t \in Tasks, NEW i \in Instructions, Allots(t, Size(i)),
         code' = With(At(t), i, code), DOMAIN words \subseteq DOMAIN words',
         i.op \in {"call", "literal"} => i.word \in {NoWord} \cup DOMAIN words'
  PROVE  /\ At(t) \notin DOMAIN code /\ DOMAIN code' = DOMAIN code \cup {At(t)}
         /\ code'[At(t)] = i /\ \A a \in DOMAIN code : code'[a] = code[a]
         /\ CodeStays(t) /\ Refs(code', words')
         /\ At(t) # Elsewhere(t) /\ Elsewhere(t) \notin DOMAIN code
<1>1. task \in [Tasks -> TaskRecords] /\ Laid(code, task)
  BY DEF DictIInv, TasksInv
<1>2. At(t) \notin DOMAIN code
  BY NotYetCompiled, PlaceIs
<1>3. /\ DOMAIN code' = DOMAIN code \cup {At(t)} /\ code'[At(t)] = i
      /\ \A a \in DOMAIN code : code'[a] = code[a]
  BY <1>2 DEF With
<1>4. CodeStays(t)
  BY <1>3 DEF CodeStays
<1>5. At(t)[2] # 0
  <2>1. Size(i) \in Nat /\ Size(i) > 0
    BY SizeOf
  <2>2. Top(t) # 0
    BY <2>1, TaskFacts DEF Allots, Remaining
  <2> QED BY <2>2 DEF Top, At
<1>6. Refs(code', words')
  <2>1. Refs(code, words)
    BY DEF FlowInv
  <2>2. IsFiniteSet(DOMAIN code')
    BY <1>3, <2>1, FS_AddElement DEF Refs
  <2> QED BY <1>3, <1>5, <2>1, <2>2 DEF Refs
<1>7. At(t) # Elsewhere(t)
  BY <1>5 DEF Elsewhere
<1>8. Elsewhere(t) \notin DOMAIN code
  BY ElsewhereNot DEF FlowInv
<1> QED BY <1>2, <1>3, <1>4, <1>6, <1>7, <1>8

\* An instruction that calls a word that can be found, or the one being defined,
\* goes on after it.
LEMMA FlowCompile ==
  ASSUME DictIInv, DictIInv', FlowInv, NEW t \in Tasks, NEW i \in Instructions,
         Compile(t, i), task' = Further(t, i), words' = words,
         i.op \notin {"branch", "exit"},
         i.op \in {"call", "literal"} =>
           \/ i.word = NoWord \/ i.word = task[t].recent
           \/ i.word \in DOMAIN words /\ ~ words[i.word].hidden
  PROVE  FlowInv'
<1> DEFINE r == UpTo(task[t], task[t].here + Size(i))
<1>1. /\ task' = [task EXCEPT ![t] = r] /\ r \in TaskRecords
      /\ r.recent = task[t].recent /\ r.here = task[t].here + Size(i)
      /\ r.frames = task[t].frames /\ r.chunk = task[t].chunk
  BY FurtherTask
<1> HIDE DEF r
<1>2. /\ task' \in [Tasks -> TaskRecords] /\ Laid(code', task') /\ task'[t] = r
      /\ task[t].recent \in {NoWord} \cup DOMAIN words
  BY <1>1 DEF DictIInv, TasksInv
<1>3. /\ At(t) \notin DOMAIN code /\ DOMAIN code' = DOMAIN code \cup {At(t)}
      /\ code'[At(t)] = i /\ \A a \in DOMAIN code : code'[a] = code[a]
      /\ CodeStays(t) /\ Refs(code', words')
      /\ At(t) # Elsewhere(t) /\ Elsewhere(t) \notin DOMAIN code
  BY <1>2, OneMore DEF Compile
<1>4. Refs(code, words) /\ TaskLaw(code, words, t, task[t])
  BY DEF FlowInv
<1>5. WordsStay
  BY DEF WordsStay, Going
<1>6. PICK C : RunsIn(code, words, C)
  BY DEF FlowInv
<1>7. RunsIn(code', words', C)
  BY <1>3, <1>4, <1>5, <1>6, RunKept
<1>8. Place(t, r) \notin DOMAIN code' /\ AlongOf(At(t), i) = {Place(t, r)}
  <2>1. Place(t, r) = After(At(t), Size(i))
    BY <1>1 DEF Place, After, At
  <2>2. Place(t, r) \notin DOMAIN code'
    BY <1>2, NotYetCompiledNext
  <2>3. AlongOf(At(t), i) = {After(At(t), Size(i))}
    BY DEF AlongOf
  <2> QED BY <2>1, <2>2, <2>3
<1>9. RecentLaw(code', words', t, r)
  <2>1. ASSUME task[t].recent # NoWord
        PROVE  \E D : PartOf(code', words', D, task[t].recent, Place(t, r))
    <3>1. PICK D : PartOf(code, words, D, task[t].recent, At(t))
      BY <1>4, <2>1, PlaceIs DEF TaskLaw, RecentLaw
    <3> DEFINE F == D \cup C \cup {Place(t, r)}
    <3>2. F \subseteq DOMAIN code' \cup {Place(t, r)}
      BY <1>3, <1>6, <3>1 DEF PartOf, RunsIn
    <3>3. ASSUME NEW a \in F \cap DOMAIN code'
          PROVE  FlowOf(words', a, code'[a]) \subseteq F
      <4>1. a \in D \cup C
        BY <1>8
      <4>2. CASE a = At(t)
        <5>1. CalledBy(words, i) \subseteq D \cup C
          BY <1>6, <3>1 DEF CalledBy, PartOf, RunsIn, EntryIn
        <5> QED BY <1>3, <1>8, <4>2, <5>1 DEF FlowOf
      <4>3. CASE a \in DOMAIN code
        <5>1. FlowOf(words', a, code'[a]) = FlowOf(words, a, code[a])
          BY <1>3, <4>3
        <5> QED BY <1>6, <3>1, <4>1, <4>3, <5>1 DEF PartOf, RunsIn, Closed
      <4> QED BY <1>3, <4>2, <4>3
    <3>4. EntryIn(words', task[t].recent) \subseteq F
      BY <3>1 DEF PartOf
    <3> HIDE DEF F
    <3> QED BY <3>2, <3>3, <3>4 DEF PartOf, Closed
  <2>2. ASSUME Going(words', task[t].recent)
        PROVE  Leads(code', words'[task[t].recent].secondary, Place(t, r))
    <3>1. Leads(code, words[task[t].recent].secondary, At(t))
      BY <1>4, <2>2, PlaceIs DEF TaskLaw, RecentLaw
    <3>2. Leads(code', words[task[t].recent].secondary, At(t))
      BY <1>3, <3>1, LeadsKept
    <3> QED BY <1>3, <1>8, <3>2, LeadsOn
  <2> QED BY <1>1, <2>1, <2>2 DEF RecentLaw
<1>10. Nested(code', t, r)
  BY <1>1, <1>3, <1>4, SMTT(30) DEF TaskLaw, Nested
<1>11. ASSUME NEW k \in DOMAIN r.frames
       PROVE  OuterLaw(code', words', t, r.frames[k])
  <2>1. r.frames[k].branch \in DOMAIN code
    BY <1>1, <1>4 DEF TaskLaw, Nested
  <2> QED BY <1>1, <1>3, <1>5, <2>1, OwnOuters
<1> QED BY <1>1, <1>3, <1>5, <1>7, <1>9, <1>10, <1>11, FlowAssemble DEF TaskLaw

LEMMA LookupSeen ==
  ASSUME WordsInv, NEW n, Lookup(n) # NoWord
  PROVE  Lookup(n) \in DOMAIN words /\ ~ words[Lookup(n)].hidden
<1> DEFINE hits == {i \in DOMAIN Order : FoundIn(Order[i], n) # NoWord}
<1>1. hits # {}
  BY DEF Lookup
<1>2. hits \subseteq Nat /\ \A i \in hits : Order[i] \in Lists
  BY DictionarySizes
<1>3. Min(hits) \in hits
  BY <1>1, <1>2, MinIsLeast
<1>4. Lookup(n) = FoundIn(Order[Min(hits)], n)
  BY <1>1 DEF Lookup
<1> HIDE DEF hits
<1>5. PICK l \in Lists : Lookup(n) = FoundIn(l, n)
  BY <1>2, <1>3, <1>4
<1>6. Lookup(n) \in Visible(l, n)
  BY <1>5, FoundNewest DEF FoundLaw
<1>7. \A w \in Visible(l, n) : ~ words[w].hidden
  BY DEF Visible, Hits
<1> QED BY <1>6, <1>7, LookupType

LEMMA FlowCompileWords ==
  ASSUME DictIInv, DictIInv', FlowInv, NEW t \in Tasks,
         \/ \E n \in Names : CompileName(t, n) \/ BracketTick(t, n)
         \/ CompileDoes(t) \/ CompileNumber(t) \/ Recurse(t)
  PROVE  FlowInv'
<1>1. WordsInv
  BY DEF DictIInv
<1>2. ASSUME NEW n \in Names, Lookup(n) # NoWord
      PROVE  /\ Lookup(n) \in WordIds /\ Lookup(n) \in DOMAIN words
             /\ ~ words[Lookup(n)].hidden
  BY <1>1, <1>2, LookupSeen, TaskFacts
<1>3. ASSUME NEW w, w \in WordIds \cup {NoWord}, NEW i \in {Call(w), Literal(w)},
             w = NoWord => i = Literal(w),
             Compile(t, i), task' = Further(t, i), words' = words,
             \/ w = NoWord \/ w = task[t].recent
             \/ w \in DOMAIN words /\ ~ words[w].hidden
      PROVE  FlowInv'
  <2>1. i \in Instructions
    BY <1>3, InstructionTypes
  <2>2. i.word = w /\ i.op \in {"call", "literal"}
    BY DEF Call, Literal
  <2>3. i.op \notin {"branch", "exit"}
    BY <2>2
  <2> QED BY <1>3, <2>1, <2>2, <2>3, FlowCompile
<1>4. ASSUME NEW n \in Names, CompileName(t, n)
      PROVE  FlowInv'
  <2> DEFINE w == Lookup(n)
  <2>1. /\ w # NoWord /\ Compile(t, Call(w)) /\ task' = Further(t, Call(w))
        /\ words' = words
    BY <1>4 DEF CompileName
  <2>2. w \in WordIds /\ w \in DOMAIN words /\ ~ words[w].hidden
    BY <1>2, <2>1
  <2> HIDE DEF w
  <2> QED BY <1>3, <2>1, <2>2
<1>5. ASSUME NEW n \in Names, BracketTick(t, n)
      PROVE  FlowInv'
  <2> DEFINE w == Lookup(n)
  <2>1. CASE w # NoWord
    <3>1. /\ Compile(t, Literal(w)) /\ task' = Further(t, Literal(w)) /\ words' = words
      BY <1>5, <2>1 DEF BracketTick
    <3>2. w \in WordIds /\ w \in DOMAIN words /\ ~ words[w].hidden
      BY <1>2, <2>1
    <3> HIDE DEF w
    <3> QED BY <1>3, <2>1, <3>1, <3>2
  <2>2. CASE w = NoWord
    <3>1. /\ Reset(t, task[t].here + 2, task[t].beyond)
          /\ UNCHANGED <<words, chains, code>>
      BY <1>5, <2>2 DEF BracketTick
    <3> QED BY <3>1, FlowReset
  <2> QED BY <2>1, <2>2
<1>6. CASE CompileDoes(t)
  <2>1. DoesCode.op = "does"
    BY DEF DoesCode
  <2> QED BY <1>6, <2>1, InstructionTypes, FlowCompile DEF CompileDoes
<1>7. CASE CompileNumber(t)
  <2> DEFINE w == NoWord
  <2>1. Compile(t, Literal(w)) /\ task' = Further(t, Literal(w)) /\ words' = words
    BY <1>7 DEF CompileNumber
  <2>2. w = NoWord
    OBVIOUS
  <2> HIDE DEF w
  <2> QED BY <1>3, <2>1, <2>2
<1>8. CASE Recurse(t)
  <2> DEFINE w == task[t].recent
  <2>1. /\ w # NoWord /\ Compile(t, Call(w)) /\ task' = Further(t, Call(w))
        /\ words' = words
    BY <1>8 DEF Recurse, Open
  <2>2. w \in WordIds /\ w = task[t].recent
    BY <2>1, TaskFacts
  <2> HIDE DEF w
  <2> QED BY <1>3, <2>1, <2>2
<1> QED BY <1>4, <1>5, <1>6, <1>7, <1>8

-----------------------------------------------------------------------------
(* Where control may come to.                                              *)

\* one step on from X
OnFrom(X) == X \cup UNION {Flow(a) : a \in X \cap DOMAIN code}

\* f lists, from S on, where m steps lead
Listed(f, S, m) == f = [n \in 0..m |-> IF n = 0 THEN S ELSE OnFrom(f[n - 1])]

LEMMA ListExists ==
  ASSUME NEW S, NEW m \in Nat
  PROVE  \E f : Listed(f, S, m)
<1> DEFINE T == {k \in Nat : ~ \E f : Listed(f, S, k)}
<1>1. SUFFICES ASSUME T # {} PROVE FALSE
  OBVIOUS
<1>2. PICK k \in T : \A j \in T : k <= j
  BY <1>1, LeastExists
<1>3. k \in Nat /\ ~ \E f : Listed(f, S, k)
  OBVIOUS
<1>4. CASE k = 0
  <2>1. Listed([n \in 0..k |-> S], S, k)
    BY <1>4 DEF Listed
  <2> QED BY <1>3, <2>1
<1>5. CASE k # 0
  <2>1. k - 1 \in Nat /\ k - 1 \notin T
    BY <1>2, <1>3, <1>5
  <2>2. PICK f : Listed(f, S, k - 1)
    BY <2>1
  <2> DEFINE g == [n \in 0..k |-> IF n = k THEN OnFrom(f[k - 1]) ELSE f[n]]
  <2>3. ASSUME NEW n \in 0..k
        PROVE  g[n] = IF n = 0 THEN S ELSE OnFrom(g[n - 1])
    <3>1. \A j \in 0..(k - 1) : f[j] = IF j = 0 THEN S ELSE OnFrom(f[j - 1])
      BY <2>2 DEF Listed
    <3>2. \A j \in 0..(k - 1) : g[j] = f[j]
      BY <1>3
    <3>3. CASE n = k
      <4>1. g[n] = OnFrom(f[k - 1]) /\ k - 1 \in 0..(k - 1)
        BY <1>3, <1>5, <3>3
      <4> HIDE DEF g
      <4> QED BY <1>5, <3>2, <3>3, <4>1
    <3>4. CASE n # k /\ n # 0
      <4>1. n \in 0..(k - 1) /\ n - 1 \in 0..(k - 1)
        BY <1>3, <3>4
      <4> HIDE DEF g
      <4> QED BY <3>1, <3>2, <3>4, <4>1
    <3>5. CASE n # k /\ n = 0
      <4>1. n \in 0..(k - 1)
        BY <1>3, <3>5
      <4> HIDE DEF g
      <4> QED BY <3>1, <3>2, <3>5, <4>1
    <3> QED BY <3>3, <3>4, <3>5
  <2>4. g = [n \in 0..k |-> g[n]]
    OBVIOUS
  <2> HIDE DEF g
  <2>5. g = [n \in 0..k |-> IF n = 0 THEN S ELSE OnFrom(g[n - 1])]
    BY <2>3, <2>4
  <2>6. Listed(g, S, k)
    BY <2>5 DEF Listed
  <2> QED BY <1>3, <2>6
<1> QED BY <1>4, <1>5

LEMMA ReachedIs ==
  ASSUME NEW S, Cardinality(DOMAIN code) \in Nat
  PROVE  \E f : /\ Listed(f, S, Cardinality(DOMAIN code) + 1)
                /\ Reached(S) = f[Cardinality(DOMAIN code) + 1]
<1> DEFINE m == Cardinality(DOMAIN code) + 1
           f == CHOOSE g : Listed(g, S, m)
<1>1. m \in Nat
  OBVIOUS
<1>2. \E g : Listed(g, S, m)
  <2> HIDE DEF m
  <2> QED BY <1>1, ListExists
<1>3. Listed(f, S, m)
  BY <1>2
<1>4. Reached(S) = f[m]
  BY DEF Reached, Listed, OnFrom
<1> QED BY <1>3, <1>4

\* Where control stays is where it can come to.
LEMMA ReachedWithin ==
  ASSUME NEW S, NEW D, Cardinality(DOMAIN code) \in Nat, S \subseteq D,
         \A a \in D \cap DOMAIN code : Flow(a) \subseteq D
  PROVE  Reached(S) \subseteq D
<1> DEFINE m == Cardinality(DOMAIN code) + 1
<1>1. PICK f : Listed(f, S, m) /\ Reached(S) = f[m]
  BY ReachedIs
<1>2. m \in Nat
  OBVIOUS
<1> HIDE DEF m
<1>3. \A n \in 0..m : f[n] = IF n = 0 THEN S ELSE OnFrom(f[n - 1])
  BY <1>1 DEF Listed
<1> DEFINE T == {n \in Nat : n <= m /\ ~ (f[n] \subseteq D)}
<1>4. ASSUME T # {}
      PROVE  FALSE
  <2>1. PICK k \in T : \A j \in T : k <= j
    BY <1>4, LeastExists
  <2>2. k \in 0..m /\ ~ (f[k] \subseteq D)
    BY <1>2
  <2>3. k # 0
    BY <1>3, <2>2
  <2>4. k - 1 \in Nat /\ k - 1 <= m /\ k - 1 \notin T
    BY <1>2, <2>1, <2>2, <2>3
  <2>5. f[k - 1] \subseteq D
    BY <2>4
  <2>6. OnFrom(f[k - 1]) \subseteq D
    BY <2>5 DEF OnFrom
  <2> QED BY <1>3, <2>2, <2>3, <2>6
<1>5. m \notin T
  BY <1>4
<1> QED BY <1>1, <1>2, <1>5

\* From where control can come to it comes nowhere else: the steps Reached goes
\* are enough.
LEMMA ReachedClosed ==
  ASSUME NEW S, IsFiniteSet(DOMAIN code)
  PROVE  /\ S \subseteq Reached(S)
         /\ \A a \in Reached(S) \cap DOMAIN code : Flow(a) \subseteq Reached(S)
<1> DEFINE K == Cardinality(DOMAIN code)
           m == K + 1
<1>0. K \in Nat
  BY FS_CardinalityType
<1>1. PICK f : Listed(f, S, m) /\ Reached(S) = f[m]
  BY <1>0, ReachedIs
<1>2. /\ f[0] = S
      /\ \A n \in 0..K : f[n + 1] = OnFrom(f[n])
  <2>1. \A n \in 0..m : f[n] = IF n = 0 THEN S ELSE OnFrom(f[n - 1])
    BY <1>1 DEF Listed
  <2>2. 0 \in 0..m
    BY <1>0
  <2>3. ASSUME NEW n \in 0..K
        PROVE  f[n + 1] = OnFrom(f[n])
    <3>1. n + 1 \in 0..m /\ n + 1 # 0 /\ n + 1 - 1 = n
      BY <1>0
    <3> HIDE DEF m, K
    <3> QED BY <2>1, <3>1
  <2> QED BY <2>1, <2>2, <2>3
<1> DEFINE B(n) == f[n] \cap DOMAIN code
           More(n) == B(n + 1) = B(n) \/ Cardinality(B(n + 1)) >= n + 1
           T == {n \in Nat : n <= K /\ ~ More(n)}
<1>3. \A n : B(n) \subseteq DOMAIN code /\ IsFiniteSet(B(n)) /\ Cardinality(B(n)) \in Nat
      /\ Cardinality(B(n)) <= K
  BY FS_Subset, FS_CardinalityType
<1>4. \A n \in 0..K : B(n) \subseteq B(n + 1)
  BY <1>2 DEF OnFrom
<1>5. ASSUME NEW n \in 0..K, B(n + 1) # B(n)
      PROVE  Cardinality(B(n)) < Cardinality(B(n + 1))
  <2>1. /\ IsFiniteSet(B(n + 1)) /\ B(n) \subseteq B(n + 1)
        /\ Cardinality(B(n)) \in Nat /\ Cardinality(B(n + 1)) \in Nat
    BY <1>3, <1>4
  <2>2. Cardinality(B(n)) <= Cardinality(B(n + 1))
        /\ (Cardinality(B(n)) = Cardinality(B(n + 1)) => B(n) = B(n + 1))
    <3> HIDE DEF B
    <3> QED BY <2>1, FS_Subset
  <2> HIDE DEF B
  <2> QED BY <1>5, <2>1, <2>2
<1>6. ASSUME NEW n \in 0..K, n # 0, B(n) = B(n - 1)
      PROVE  B(n + 1) = B(n)
  <2>1. n - 1 \in 0..K /\ n - 1 + 1 = n
    BY <1>0, <1>6
  <2>2. f[n] = OnFrom(f[n - 1]) /\ f[n + 1] = OnFrom(f[n])
    BY <1>2, <2>1
  <2>3. f[n + 1] = f[n]
    BY <1>6, <2>2 DEF OnFrom
  <2> QED BY <2>3
<1>7. ASSUME T # {}
      PROVE  FALSE
  <2>1. PICK k \in T : \A j \in T : k <= j
    BY <1>7, LeastExists
  <2>2. k \in 0..K /\ B(k + 1) # B(k) /\ ~ (Cardinality(B(k + 1)) >= k + 1)
    BY <1>0
  <2>3. Cardinality(B(k)) < Cardinality(B(k + 1))
    BY <1>5, <2>2
  <2>4. /\ Cardinality(B(k)) \in Nat /\ Cardinality(B(k + 1)) \in Nat
    BY <1>3
  <2>5. CASE k = 0
    BY <2>2, <2>3, <2>4, <2>5
  <2>6. CASE k # 0
    <3>1. k - 1 \in Nat /\ k - 1 <= K /\ k - 1 \notin T /\ k - 1 + 1 = k
      BY <1>0, <2>1, <2>2, <2>6
    <3>2. More(k - 1)
      BY <3>1
    <3>3. B(k) = B(k - 1) \/ Cardinality(B(k)) >= k
      BY <3>1, <3>2
    <3>4. B(k) # B(k - 1)
      BY <1>6, <2>2, <2>6
    <3> HIDE DEF B
    <3> QED BY <2>2, <2>3, <2>4, <3>3, <3>4
  <2> QED BY <2>5, <2>6
<1>8. B(K + 1) = B(K)
  <2>1. K \notin T
    BY <1>7
  <2>2. More(K)
    BY <1>0, <2>1
  <2>3. Cardinality(B(K + 1)) \in Nat /\ Cardinality(B(K + 1)) <= K
    BY <1>3
  <2> HIDE DEF B, K
  <2> QED BY <1>0, <2>2, <2>3
<1>9. f[K + 1] = OnFrom(f[K])
  BY <1>0, <1>2
<1>10. \A a \in f[m] \cap DOMAIN code : Flow(a) \subseteq f[m]
  BY <1>8, <1>9 DEF OnFrom
<1>11. S \subseteq f[m]
  <2> DEFINE U == {n \in Nat : n <= m /\ ~ (S \subseteq f[n])}
  <2>1. ASSUME U # {}
        PROVE  FALSE
    <3>1. PICK k \in U : \A j \in U : k <= j
      BY <2>1, LeastExists
    <3>2. k \in Nat /\ k <= m /\ ~ (S \subseteq f[k]) /\ k # 0
      BY <1>2
    <3>3. k - 1 \in 0..K /\ k - 1 + 1 = k /\ k - 1 \notin U
      BY <1>0, <3>1, <3>2
    <3>4. S \subseteq f[k - 1]
      BY <1>0, <3>3
    <3>5. f[k] = OnFrom(f[k - 1])
      BY <1>2, <3>3
    <3> QED BY <3>2, <3>4, <3>5 DEF OnFrom
  <2>2. m \notin U
    BY <2>1
  <2> QED BY <1>0, <2>2
<1> QED BY <1>1, <1>10, <1>11

-----------------------------------------------------------------------------
(* ; and the lambdas.                                                      *)

\* EXIT is where the word ends, which may be executed from then on.
LEMMA FlowSemi ==
  ASSUME DictIInv, DictIInv', FlowInv, NEW t \in Tasks, Semi(t)
  PROVE  FlowInv'
<1> DEFINE w == task[t].recent
           s == UpTo(task[t], task[t].here + Size(Exit))
           r == [s EXCEPT !.compiling = FALSE]
<1>1. /\ Allots(t, Size(Exit)) /\ code' = With(At(t), Exit, code) /\ w # NoWord
      /\ task' = [Further(t, Exit) EXCEPT ![t].compiling = FALSE]
      /\ words' = [words EXCEPT ![w].hidden = FALSE] /\ task[t].frames = <<>>
  BY DEF Semi, Compile, NoLambda
<1>2. Exit \in Instructions /\ Exit.op = "exit"
  BY InstructionTypes DEF Exit
<1>3. w \in DOMAIN words /\ words \in Seq(Words) /\ task \in [Tasks -> TaskRecords]
  BY <1>1, TaskFacts DEF DictIInv, WordsInv, TasksInv
<1>4. /\ Further(t, Exit) = [task EXCEPT ![t] = s] /\ s \in TaskRecords
      /\ s.recent = w /\ s.frames = task[t].frames
  BY <1>2, FurtherTask
<1> HIDE DEF s
<1>5. task' = [task EXCEPT ![t] = r] /\ r.recent = w /\ r.frames = <<>>
  BY <1>1, <1>3, <1>4 DEF TaskRecords
<1>6. /\ DOMAIN words' = DOMAIN words
      /\ \A v \in DOMAIN words : /\ words'[v].code = words[v].code
                                 /\ words'[v].secondary = words[v].secondary
                                 /\ words'[v].hidden = (words[v].hidden /\ v # w)
  <2>1. DOMAIN words' = DOMAIN words
    BY <1>1
  <2>2. \A v \in DOMAIN words :
          words'[v] = IF v = w THEN [words[v] EXCEPT !.hidden = FALSE] ELSE words[v]
    BY <1>1, <1>3
  <2>3. \A v \in DOMAIN words : words[v] \in Words
    BY <1>3
  <2> HIDE DEF w
  <2> QED BY <2>1, <2>2, <2>3 DEF Words
<1> HIDE DEF r
<1>7. /\ At(t) \notin DOMAIN code /\ DOMAIN code' = DOMAIN code \cup {At(t)}
      /\ code'[At(t)] = Exit /\ \A a \in DOMAIN code : code'[a] = code[a]
      /\ CodeStays(t) /\ Refs(code', words')
  BY <1>1, <1>2, <1>6, OneMore
<1>8. /\ WordsStay
      /\ \A v \in {NoWord} \cup DOMAIN words : EntryIn(words', v) = EntryIn(words, v)
  BY <1>6 DEF WordsStay, EntryIn, Going
<1>9. Refs(code, words) /\ RecentLaw(code, words, t, task[t])
  BY DEF FlowInv, TaskLaw
<1>10. PICK D : PartOf(code, words, D, w, At(t))
  BY <1>1, <1>9, PlaceIs DEF RecentLaw
<1>11. PICK C : RunsIn(code, words, C)
  BY DEF FlowInv
<1> DEFINE F == C \cup D
<1>12. RunsIn(code', words', F)
  <2>1. F \subseteq DOMAIN code'
    BY <1>7, <1>10, <1>11 DEF PartOf, RunsIn
  <2>2. ASSUME NEW a \in F \cap DOMAIN code'
        PROVE  FlowOf(words', a, code'[a]) \subseteq F
    <3>1. CASE a = At(t)
      BY <1>7, <3>1, FlowNew
    <3>2. CASE a \in DOMAIN code
      <4>1. FlowOf(words', a, code'[a]) = FlowOf(words, a, code[a])
        BY <1>7, <1>8, <1>9, <3>2, CalledStay DEF FlowOf
      <4> QED BY <1>10, <1>11, <3>2, <4>1 DEF PartOf, RunsIn, Closed
    <3> QED BY <1>7, <3>1, <3>2
  <2>3. ASSUME NEW v \in DOMAIN words', ~ words'[v].hidden
        PROVE  EntryIn(words', v) \subseteq F
    BY <1>6, <1>8, <1>10, <1>11, <2>3 DEF PartOf, RunsIn
  <2> HIDE DEF F
  <2> QED BY <2>1, <2>2, <2>3 DEF RunsIn, Closed
<1> HIDE DEF F, w
<1>13. TaskLaw(code', words', t, r)
  <2>1. r.recent # NoWord => r.recent \in DOMAIN words' /\ ~ words'[r.recent].hidden
    BY <1>3, <1>5, <1>6
  <2>2. RecentLaw(code', words', t, r)
    BY <1>12, <2>1, VisibleRecent
  <2> QED BY <1>5, <2>2, NoFrames
<1> QED BY <1>5, <1>7, <1>8, <1>12, <1>13, FlowAssemble

\* The definition goes on at the BRANCH over the lambda, which goes nowhere yet;
\* the lambda begins.
LEMMA FlowOpen ==
  ASSUME DictIInv, DictIInv', FlowInv, NEW t \in Tasks, OpenLambda(t)
  PROVE  FlowInv'
<1> DEFINE h == Headed(t, 3)
           i == Branch(Elsewhere(t))
           w == task[t].recent
           old == task[t].frames
           last == Len(words) + 1
           frame == [branch |-> At(t), outer |-> w, xt |-> last]
           frames == <<frame>> \o h.frames
           r == [h EXCEPT !.frames = frames]
           word == HeaderOf(t, 3, NoName, TRUE, "docol")
<1>1. /\ Allots(t, 3) /\ MakeWord(t, 3, NoName, TRUE, "docol") /\ Open(t)
      /\ code' = With(At(t), i, code) /\ task' = [task EXCEPT ![t] = r]
  BY DEF OpenLambda
<1>2. words' = Append(words, word)
  <2>1. 3 \in 0..3
    OBVIOUS
  <2> QED BY <1>1, <2>1, HeaderAt
<1>3. word.hidden /\ word.code = "docol" /\ word.secondary = Place(t, h)
  BY DEF HeaderOf
<1>4. task \in [Tasks -> TaskRecords] /\ task[t] \in TaskRecords /\ old \in Seq(Frames)
      /\ task' \in [Tasks -> TaskRecords] /\ Laid(code', task')
  BY TaskFacts DEF DictIInv, TasksInv
<1>5. w \in DOMAIN words /\ w # NoWord
  BY <1>1, TaskFacts DEF Open
<1>6. h.frames = old
  BY <1>4 DEF Headed, UpTo, TaskRecords
<1>7. r.recent = last /\ r.frames = frames /\ Place(t, r) = Place(t, h)
  BY <1>4 DEF Headed, UpTo, TaskRecords, Place
<1> HIDE DEF h, i, word, r
<1>8. Elsewhere(t) \in Addresses
  BY DictionarySizes DEF Elsewhere, Addresses
<1>9. i \in Instructions /\ i.op = "branch" /\ Size(i) = 3
  BY <1>8, InstructionTypes, Sizes DEF i
<1>10. /\ WordsStay /\ DOMAIN words' = DOMAIN words \cup {last}
       /\ last \notin DOMAIN words /\ last # NoWord /\ words'[last] = word
       /\ \A v \in DOMAIN words : words'[v] = words[v]
  BY <1>2, Appended
<1> HIDE DEF last
<1>11. /\ At(t) \notin DOMAIN code /\ DOMAIN code' = DOMAIN code \cup {At(t)}
       /\ code'[At(t)] = i /\ \A a \in DOMAIN code : code'[a] = code[a]
       /\ CodeStays(t) /\ Refs(code', words')
       /\ At(t) # Elsewhere(t) /\ Elsewhere(t) \notin DOMAIN code
  BY <1>1, <1>9, <1>10, OneMore
<1>12. Refs(code, words) /\ TaskLaw(code, words, t, task[t])
  BY DEF FlowInv
<1>13. PICK C : RunsIn(code, words, C)
  BY DEF FlowInv
<1>14. RunsIn(code', words', C)
  <2>1. \A v \in DOMAIN words' :
          ~ words'[v].hidden => \/ v \in DOMAIN words /\ ~ words[v].hidden
                                \/ EntryIn(words', v) = {}
    BY <1>3, <1>10
  <2> QED BY <1>10, <1>11, <1>12, <1>13, <2>1, RunKept
<1>15. RecentLaw(code', words', t, r)
  <2>1. task'[t] = r
    BY <1>1, <1>4
  <2>2. Place(t, r) \notin DOMAIN code'
    BY <2>1, NotYetCompiledNext
  <2>3. words'[r.recent].secondary = Place(t, r)
    BY <1>3, <1>7, <1>10
  <2>4. EntryIn(words', r.recent) \subseteq {Place(t, r)}
    BY <2>3 DEF EntryIn
  <2> QED BY <2>2, <2>3, <2>4, NewDefinition
<1>16. OuterLaw(code', words', t, frame)
  <2>1. PICK D : PartOf(code, words, D, w, At(t))
    BY <1>5, <1>12, PlaceIs DEF TaskLaw, RecentLaw
  <2> DEFINE F == D \cup {Elsewhere(t)}
  <2>2. frame.outer = w /\ frame.branch = At(t)
    OBVIOUS
  <2>3. EntryIn(words', w) \subseteq D
    BY <1>5, <1>10, <2>1 DEF PartOf, WordsStay
  <2>4. Elsewhere(t) \notin D
    BY <1>11, <2>1 DEF PartOf
  <2>5. F \subseteq DOMAIN code' \cup {Elsewhere(t)}
    BY <1>11, <2>1 DEF PartOf
  <2>6. ASSUME NEW a \in F \cap DOMAIN code'
        PROVE  /\ FlowOf(words', a, code'[a]) \subseteq F
               /\ Elsewhere(t) \in FlowOf(words', a, code'[a]) => a = At(t)
    <3>1. CASE a = At(t)
      BY <1>11, <3>1, FlowBranch DEF i
    <3>2. CASE a # At(t)
      <4>1. a \in D /\ a \in DOMAIN code
        BY <1>11, <3>2
      <4>2. FlowOf(words', a, code'[a]) = FlowOf(words, a, code[a])
        BY <1>10, <1>11, <1>12, <4>1, CalledStay DEF FlowOf
      <4>3. FlowOf(words, a, code[a]) \subseteq D
        BY <2>1, <4>1 DEF PartOf, Closed
      <4> QED BY <2>4, <4>2, <4>3
    <3> QED BY <3>1, <3>2
  <2>7. Going(words', w) => Leads(code', words'[w].secondary, At(t))
    <3>1. Going(words', w) => Leads(code, words'[w].secondary, At(t))
      BY <1>5, <1>10, <1>12, PlaceIs DEF TaskLaw, RecentLaw, WordsStay
    <3> QED BY <1>11, <3>1, LeadsKept
  <2>8. PartOf(code', words', F, w, Elsewhere(t))
        /\ OnlyFrom(code', words', F, Elsewhere(t), At(t))
    <3>1. EntryIn(words', w) \subseteq F
      BY <2>3
    <3> HIDE DEF F
    <3> QED BY <2>5, <2>6, <3>1 DEF PartOf, Closed, OnlyFrom
  <2>9. Elsewhere(t) \notin EntryIn(words', w)
    BY <2>3, <2>4
  <2> HIDE DEF F, frame
  <2> QED BY <2>2, <2>7, <2>8, <2>9 DEF OuterLaw
<1>17. /\ Len(frames) = Len(old) + 1 /\ Len(old) \in Nat
       /\ DOMAIN old = 1..Len(old) /\ DOMAIN frames = 1..Len(frames)
       /\ \A k \in 1..Len(frames) : frames[k] = IF k = 1 THEN frame ELSE old[k - 1]
  <2> DEFINE every == Frames \cup {frame}
  <2>1. old \in Seq(every) /\ frame \in every
    BY <1>4
  <2>2. frames = <<frame>> \o old
    BY <1>6
  <2> HIDE DEF old, frame, every, frames
  <2> QED BY <2>1, <2>2
<1> HIDE DEF frames, old
<1>18. ASSUME NEW k \in DOMAIN r.frames
       PROVE  /\ k # 1 => k - 1 \in DOMAIN old /\ r.frames[k] = old[k - 1]
              /\ k = 1 => r.frames[k] = frame
  BY <1>7, <1>17
<1>19. ASSUME NEW k \in DOMAIN r.frames
       PROVE  OuterLaw(code', words', t, r.frames[k])
  <2>1. CASE k = 1
    BY <1>16, <1>18, <2>1
  <2>2. CASE k # 1
    <3>1. k - 1 \in DOMAIN task[t].frames /\ r.frames[k] = task[t].frames[k - 1]
      BY <1>18, <2>2 DEF old
    <3>2. task[t].frames[k - 1].branch \in DOMAIN code
      BY <1>12, <3>1 DEF TaskLaw, Nested
    <3> QED BY <1>10, <1>11, <3>1, <3>2, OwnOuters
  <2> QED BY <2>1, <2>2
<1>20. Nested(code', t, r)
  <2>1. \A j \in DOMAIN old :
          /\ old[j].branch \in DOMAIN code
          /\ old[j].branch[1] = t /\ code[old[j].branch] = i
          /\ old[j].outer # NoWord
          /\ old[j].xt = IF j = 1 THEN w ELSE old[j - 1].outer
          /\ \A k \in DOMAIN old : old[j].branch = old[k].branch => j = k
    BY <1>12 DEF TaskLaw, Nested, old, i
  <2>2. /\ frame.branch = At(t) /\ frame.outer = w /\ frame.xt = last /\ At(t)[1] = t
    BY DEF At
  <2> HIDE DEF frame
  <2>3. ASSUME NEW k \in DOMAIN r.frames
        PROVE  /\ r.frames[k].branch \in DOMAIN code' /\ r.frames[k].branch[1] = t
               /\ code'[r.frames[k].branch] = i /\ r.frames[k].outer # NoWord
    <3>1. CASE k = 1
      BY <1>5, <1>11, <1>18, <2>2, <3>1
    <3>2. CASE k # 1
      BY <1>11, <1>18, <2>1, <3>2
    <3> QED BY <3>1, <3>2
  <2>4. ASSUME NEW k \in DOMAIN r.frames
        PROVE  r.frames[k].xt = IF k = 1 THEN r.recent ELSE r.frames[k - 1].outer
    <3>1. CASE k = 1
      BY <1>7, <1>18, <2>2, <3>1
    <3>2. CASE k = 2
      <4>1. 1 \in DOMAIN old /\ r.frames[2] = old[1]
        BY <1>18, <3>2
      <4>2. 1 \in DOMAIN r.frames
        BY <1>7, <1>17
      <4>3. r.frames[1] = frame
        BY <1>18, <4>2
      <4> QED BY <2>1, <2>2, <3>2, <4>1, <4>3
    <3>3. CASE k # 1 /\ k # 2
      <4>1. /\ k - 1 \in DOMAIN old /\ k - 1 # 1 /\ r.frames[k] = old[k - 1]
            /\ k - 1 \in DOMAIN r.frames /\ k - 1 - 1 = k - 2
        BY <1>7, <1>17, <1>18, <3>3
      <4>2. r.frames[k - 1] = old[k - 2]
        BY <1>18, <4>1
      <4>3. old[k - 1].xt = old[k - 2].outer
        BY <2>1, <4>1
      <4> QED BY <3>3, <4>1, <4>2, <4>3
    <3> QED BY <3>1, <3>2, <3>3
  <2>5. ASSUME NEW k \in DOMAIN r.frames, NEW j \in DOMAIN r.frames,
               r.frames[k].branch = r.frames[j].branch
        PROVE  k = j
    <3>1. k \in Nat /\ j \in Nat
      BY <1>7, <1>17
    <3>2. CASE k # 1 /\ j # 1
      <4>1. k - 1 = j - 1
        BY <1>18, <2>1, <2>5, <3>2
      <4> QED BY <3>1, <4>1
    <3>3. CASE k = 1 \/ j = 1
      BY <1>11, <1>18, <2>1, <2>2, <2>5, <3>3
    <3> QED BY <3>2, <3>3
  <2> QED BY <2>3, <2>4, <2>5 DEF Nested, i
<1> QED BY <1>1, <1>10, <1>11, <1>14, <1>15, <1>19, <1>20, FlowAssemble DEF TaskLaw

\* what ;] makes of the code
LEMMA ClosedCode ==
  ASSUME DictIInv, FlowInv, NEW t \in Tasks, CloseLambda(t), NEW b, NEW end, NEW l,
         b = Head(task[t].frames).branch, end = After(At(t), 2),
         l = Literal(Head(task[t].frames).xt)
  PROVE  /\ b \in DOMAIN code /\ b # At(t) /\ b # end
         /\ At(t) \notin DOMAIN code /\ end \notin DOMAIN code /\ end # At(t)
         /\ DOMAIN code' = DOMAIN code \cup {At(t), end}
         /\ code'[b] = Branch(end) /\ code'[At(t)] = Exit /\ code'[end] = l
         /\ \A a \in DOMAIN code \ {b} : code'[a] = code[a]
         /\ At(t)[2] # 0 /\ end[2] # 0
<1>1. task \in [Tasks -> TaskRecords] /\ Laid(code, task)
  BY DEF DictIInv, TasksInv
<1>2. /\ Allots(t, 4) /\ task[t].frames # <<>>
      /\ code' = With(end, l, With(At(t), Exit, With(b, Branch(end), code)))
  BY DEF CloseLambda, NoLambda
<1>3. b \in DOMAIN code
  <2>1. task[t].frames \in Seq(Frames)
    BY TaskFacts
  <2>2. 1 \in DOMAIN task[t].frames /\ b = task[t].frames[1].branch
    BY <1>2, <2>1
  <2> QED BY <2>2 DEF DictIInv, FramesInv, FrameLaw
<1>4. At(t) \notin DOMAIN code
  BY NotYetCompiled, PlaceIs
<1>5. /\ At(t)[1] = t /\ At(t)[2] = task[t].chunk /\ At(t)[3] = task[t].here
      /\ end[1] = t /\ end[2] = task[t].chunk /\ end[3] = task[t].here + 2
      /\ task[t].here \in Nat
  BY TaskFacts DEF At, After
<1>6. end \notin DOMAIN code
  <2> SUFFICES ASSUME end \in DOMAIN code PROVE FALSE
    OBVIOUS
  <2>1. /\ code[end] \in Instructions /\ end[3] + Size(code[end]) <= task[t].floor
        /\ task[t].floor \in Nat /\ task[t].floor <= task[t].here
    BY <1>5, TaskFacts DEF DictIInv, Laid
  <2>2. Size(code[end]) \in Nat
    BY <2>1, SizeOf
  <2> QED BY <1>5, <2>1, <2>2
<1>7. end # At(t)
  BY <1>5
<1>8. task[t].chunk # 0
  <2>1. Top(t) # 0
    BY <1>2, TaskFacts DEF Allots, Remaining
  <2> QED BY <2>1 DEF Top
<1>9. b # At(t) /\ b # end
  BY <1>3, <1>4, <1>6
<1> DEFINE c1 == With(b, Branch(end), code)
           c2 == With(At(t), Exit, c1)
<1>10. DOMAIN c1 = DOMAIN code
       /\ \A a \in DOMAIN code : c1[a] = IF a = b THEN Branch(end) ELSE code[a]
  BY <1>3 DEF With
<1> HIDE DEF c1
<1>11. DOMAIN c2 = DOMAIN c1 \cup {At(t)} /\ c2[At(t)] = Exit
       /\ \A a \in DOMAIN c1 \ {At(t)} : c2[a] = c1[a]
  BY DEF With
<1> HIDE DEF c2
<1>12. code' = With(end, l, c2)
  BY <1>2 DEF c1, c2
<1>13. DOMAIN code' = DOMAIN c2 \cup {end} /\ code'[end] = l
       /\ \A a \in DOMAIN c2 \ {end} : code'[a] = c2[a]
  BY <1>12 DEF With
<1>14. DOMAIN code' = DOMAIN code \cup {At(t), end}
  BY <1>10, <1>11, <1>13
<1>15. code'[b] = Branch(end) /\ code'[At(t)] = Exit
  BY <1>3, <1>4, <1>7, <1>9, <1>10, <1>11, <1>13
<1>16. \A a \in DOMAIN code \ {b} : code'[a] = code[a]
  BY <1>4, <1>6, <1>10, <1>11, <1>13
<1> QED BY <1>3, <1>4, <1>5, <1>6, <1>7, <1>8, <1>9, <1>13, <1>14, <1>15, <1>16

\* EXIT ends the lambda, which the token after it brings into the definition
\* that goes on; the BRANCH over it has come there.
LEMMA FlowClose ==
  ASSUME DictIInv, DictIInv', FlowInv, NEW t \in Tasks, CloseLambda(t)
  PROVE  FlowInv'
<1> DEFINE old == task[t].frames
           frame == Head(old)
           b == frame.branch
           w == frame.outer
           x == frame.xt
           end == After(At(t), 2)
           l == Literal(x)
           rest == Tail(old)
           s == UpTo(task[t], task[t].here + 4)
           r == [s EXCEPT !.recent = w, !.frames = rest]
<1>1. task \in [Tasks -> TaskRecords] /\ task[t] \in TaskRecords /\ old # <<>>
      /\ old \in Seq(Frames) /\ words' = words
  BY TaskFacts DEF DictIInv, TasksInv, CloseLambda, NoLambda
<1>2. task' = [task EXCEPT ![t] = r] /\ r.recent = w /\ r.frames = rest
      /\ r.here = task[t].here + 4 /\ r.chunk = task[t].chunk
  <2>1. task' = [task EXCEPT ![t] = [s EXCEPT !.recent = w, !.frames = Tail(s.frames)]]
    BY <1>1 DEF CloseLambda, Outer
  <2>2. /\ s \in TaskRecords /\ s.frames = old /\ s.chunk = task[t].chunk
        /\ s.here = task[t].here + 4
    <3>1. task[t].here + 4 \in Nat
      BY <1>1 DEF TaskRecords
    <3> QED BY <1>1, <3>1, UpToIs
  <2> HIDE DEF s
  <2> QED BY <2>1, <2>2 DEF TaskRecords
<1>3. task' \in [Tasks -> TaskRecords] /\ Laid(code', task') /\ task'[t] = r
  BY <1>1, <1>2 DEF DictIInv, TasksInv
<1>4. /\ 1 \in DOMAIN old /\ frame = old[1]
      /\ \A k \in DOMAIN rest : k + 1 \in DOMAIN old /\ rest[k] = old[k + 1]
      /\ \A k \in DOMAIN rest : k \in Nat /\ k # 0
      /\ \A k \in DOMAIN rest : k # 1 => k - 1 \in DOMAIN rest
  BY <1>1
<1>5. /\ b \in DOMAIN code /\ b # At(t) /\ b # end
      /\ At(t) \notin DOMAIN code /\ end \notin DOMAIN code /\ end # At(t)
      /\ DOMAIN code' = DOMAIN code \cup {At(t), end}
      /\ code'[b] = Branch(end) /\ code'[At(t)] = Exit /\ code'[end] = l
      /\ \A a \in DOMAIN code \ {b} : code'[a] = code[a]
      /\ At(t)[2] # 0 /\ end[2] # 0
  BY ClosedCode
<1>6. Place(t, r) = After(end, 2) /\ Place(t, r) \notin DOMAIN code'
  <2>1. Place(t, r) = After(end, 2)
    BY <1>2, TaskFacts DEF Place, After, At
  <2> QED BY <1>3, <2>1, NotYetCompiledNext
<1>7. Refs(code, words) /\ TaskLaw(code, words, t, task[t])
  BY DEF FlowInv
<1>8. /\ b[1] = t /\ code[b] = Branch(Elsewhere(t)) /\ w # NoWord /\ x = task[t].recent
      /\ \A k \in DOMAIN old :
           /\ old[k].branch \in DOMAIN code /\ old[k].branch[1] = t
           /\ code[old[k].branch] = Branch(Elsewhere(t)) /\ old[k].outer # NoWord
           /\ k # 1 => old[k].xt = old[k - 1].outer
           /\ \A j \in DOMAIN old : old[k].branch = old[j].branch => k = j
  BY <1>4, <1>7 DEF TaskLaw, Nested
<1>9. w \in DOMAIN words /\ x \in DOMAIN words /\ x # NoWord
  <2>1. FrameLaw(frame) /\ frame \in Frames
    BY <1>1, <1>4 DEF DictIInv, FramesInv
  <2>2. w \in DOMAIN words
    BY <1>8, <2>1 DEF FrameLaw
  <2>3. x \in WordIds
    BY <2>1 DEF Frames
  <2>4. x # NoWord
    BY <2>3 DEF WordIds, NoWord
  <2> QED BY <1>8, <2>2, <2>4, TaskFacts
<1> HIDE DEF end, l, r
<1>10. WordsStay /\ CodeStays(t)
  BY <1>1, <1>5, <1>8 DEF WordsStay, CodeStays, Going
<1>11. Exit.op = "exit" /\ Branch(end).op = "branch" /\ l.op = "literal" /\ l.word = x
  BY DEF Exit, Branch, l, Literal
<1>12. Refs(code', words')
  <2>1. IsFiniteSet(DOMAIN code \cup {At(t)})
    BY <1>7, FS_AddElement DEF Refs
  <2>2. IsFiniteSet((DOMAIN code \cup {At(t)}) \cup {end})
    BY <2>1, FS_AddElement
  <2>3. IsFiniteSet(DOMAIN code')
    <3>1. DOMAIN code' = (DOMAIN code \cup {At(t)}) \cup {end}
      BY <1>5
    <3> QED BY <2>2, <3>1
  <2>4. ASSUME NEW a \in DOMAIN code'
        PROVE  /\ a[2] # 0
               /\ code'[a].op \in {"call", "literal"} =>
                    code'[a].word \in {NoWord} \cup DOMAIN words'
    <3>1. CASE a \in {At(t), end, b}
      BY <1>1, <1>5, <1>7, <1>9, <1>11, <3>1 DEF Refs
    <3>2. CASE a \in DOMAIN code \ {b}
      BY <1>1, <1>5, <1>7, <3>2 DEF Refs
    <3> QED BY <1>5, <3>1, <3>2
  <2> QED BY <2>3, <2>4 DEF Refs
<1>13. Elsewhere(t) \notin DOMAIN code /\ Elsewhere(t) \notin DOMAIN code'
  BY <1>7, <1>12, ElsewhereNot
<1>14. PICK C : RunsIn(code, words, C)
  BY DEF FlowInv
<1>15. RunsIn(code', words', C)
  BY <1>1, <1>7, <1>10, <1>12, <1>14, RunKept
<1>16. OuterLaw(code, words, t, frame)
  BY <1>4, <1>7 DEF TaskLaw
<1>17. PICK D1 : /\ PartOf(code, words, D1, w, Elsewhere(t))
                 /\ OnlyFrom(code, words, D1, Elsewhere(t), b)
  BY <1>16 DEF OuterLaw
<1>18. PICK D0 : PartOf(code, words, D0, x, At(t))
  BY <1>7, <1>8, <1>9, PlaceIs DEF TaskLaw, RecentLaw
<1> DEFINE F == (D1 \ {Elsewhere(t)}) \cup D0 \cup {end, Place(t, r)}
<1>19. PartOf(code', words', F, w, Place(t, r))
  <2>1. F \subseteq DOMAIN code' \cup {Place(t, r)}
    BY <1>5, <1>17, <1>18 DEF PartOf
  <2>2. EntryIn(words', w) \subseteq F
    BY <1>1, <1>16, <1>17 DEF PartOf, OuterLaw
  <2>3. ASSUME NEW a \in F \cap DOMAIN code'
        PROVE  FlowOf(words', a, code'[a]) \subseteq F
    <3>1. CASE a = b
      BY <1>5, <3>1, FlowBranch
    <3>2. CASE a = At(t)
      BY <1>5, <3>2, FlowNew
    <3>3. CASE a = end
      <4>1. FlowOf(words', end, l) = {Place(t, r)} \cup EntryIn(words, x)
        BY <1>1, <1>6, FlowLiteral DEF l
      <4>2. EntryIn(words, x) \subseteq D0
        BY <1>18 DEF PartOf
      <4> QED BY <1>5, <3>3, <4>1, <4>2
    <3>4. CASE a \in DOMAIN code \ {b}
      <4>1. FlowOf(words', a, code'[a]) = FlowOf(words, a, code[a])
        BY <1>1, <1>5, <3>4
      <4>2. a \in D1 \/ a \in D0
        BY <1>5, <1>6, <3>4
      <4>3. a \in D1 => FlowOf(words, a, code[a]) \subseteq D1 \ {Elsewhere(t)}
        BY <1>17, <3>4 DEF PartOf, Closed, OnlyFrom
      <4>4. a \in D0 => FlowOf(words, a, code[a]) \subseteq D0
        BY <1>18, <3>4 DEF PartOf, Closed
      <4> QED BY <4>1, <4>2, <4>3, <4>4
    <3> QED BY <1>5, <3>1, <3>2, <3>3, <3>4
  <2> HIDE DEF F
  <2> QED BY <2>1, <2>2, <2>3 DEF PartOf, Closed
<1> HIDE DEF F
<1>20. ASSUME Going(words', w)
       PROVE  Leads(code', words'[w].secondary, Place(t, r))
  <2>1. Leads(code, words[w].secondary, b)
    BY <1>1, <1>16, <1>20 DEF OuterLaw
  <2>2. \A a \in DOMAIN code : code'[a] = code[a] \/ code[a] = Branch(Elsewhere(t))
    BY <1>5, <1>8
  <2>3. Leads(code', words[w].secondary, b)
    BY <1>5, <1>13, <2>1, <2>2, LeadsKept
  <2>4. end \in AlongOf(b, code'[b])
    BY <1>5, AlongBranch
  <2>5. Leads(code', words[w].secondary, end)
    BY <1>5, <2>3, <2>4, LeadsOn
  <2>6. Place(t, r) \in AlongOf(end, code'[end])
    BY <1>5, <1>6, AlongNew DEF l
  <2>7. Leads(code', words[w].secondary, Place(t, r))
    BY <1>5, <2>5, <2>6, LeadsOn
  <2> QED BY <1>1, <2>7
<1>21. RecentLaw(code', words', t, r)
  BY <1>2, <1>19, <1>20 DEF RecentLaw
<1>22. ASSUME NEW k \in DOMAIN rest
       PROVE  OuterLaw(code', words', t, rest[k])
  <2>1. /\ k + 1 \in DOMAIN old /\ rest[k] = old[k + 1] /\ k + 1 # 1
    BY <1>4, <1>22
  <2>2. old[k + 1].branch \in DOMAIN code \ {b}
    BY <1>4, <1>8, <2>1
  <2> QED BY <1>5, <1>10, <1>12, <2>1, <2>2, OwnOuters
<1>23. Nested(code', t, r)
  <2> HIDE DEF b, w, x
  <2>1. b = old[1].branch /\ w = old[1].outer
    BY <1>4 DEF b, w
  <2>2. ASSUME NEW k \in DOMAIN rest
        PROVE  /\ rest[k].branch \in DOMAIN code' /\ rest[k].branch[1] = t
               /\ code'[rest[k].branch] = Branch(Elsewhere(t)) /\ rest[k].outer # NoWord
               /\ rest[k].xt = IF k = 1 THEN w ELSE rest[k - 1].outer
               /\ \A j \in DOMAIN rest : rest[k].branch = rest[j].branch => k = j
    <3>1. k + 1 \in DOMAIN old /\ rest[k] = old[k + 1] /\ k + 1 # 1
         /\ k + 1 - 1 = k /\ k \in Nat
      BY <1>4
    <3>2. old[k + 1].branch # b
      BY <1>4, <1>8, <2>1, <3>1
    <3>3. rest[k].xt = old[k].outer
      BY <1>8, <3>1
    <3>4. k # 1 => rest[k - 1] = old[k]
      BY <1>4, <3>1
    <3>5. ASSUME NEW j \in DOMAIN rest, rest[k].branch = rest[j].branch
          PROVE  k = j
      <4>1. j + 1 \in DOMAIN old /\ rest[j] = old[j + 1] /\ j \in Nat
        BY <1>4
      <4>2. k + 1 = j + 1
        BY <1>8, <3>1, <3>5, <4>1
      <4> QED BY <3>1, <4>1, <4>2
    <3>6. rest[k].branch \in DOMAIN code' /\ rest[k].branch[1] = t
      <4>1. old[k + 1].branch \in DOMAIN code \ {b} /\ old[k + 1].branch[1] = t
        BY <1>8, <2>1, <3>1, <3>2
      <4> QED BY <1>5, <3>1, <4>1
    <3>7. code'[rest[k].branch] = Branch(Elsewhere(t)) /\ rest[k].outer # NoWord
      <4>1. old[k + 1].branch \in DOMAIN code \ {b}
        BY <1>8, <2>1, <3>1, <3>2
      <4>2. code[old[k + 1].branch] = Branch(Elsewhere(t)) /\ old[k + 1].outer # NoWord
        BY <1>8, <2>1, <3>1
      <4> QED BY <1>5, <3>1, <4>1, <4>2
    <3>8. rest[k].xt = IF k = 1 THEN w ELSE rest[k - 1].outer
      BY <2>1, <3>3, <3>4
    <3> QED BY <3>5, <3>6, <3>7, <3>8
  <2> HIDE DEF rest, old
  <2> QED BY <1>2, <2>2 DEF Nested
<1> HIDE DEF rest, old
<1> QED BY <1>2, <1>10, <1>12, <1>15, <1>21, <1>22, <1>23, FlowAssemble DEF TaskLaw

-----------------------------------------------------------------------------
(* DOES>                                                                   *)

\* Control is in code that can be executed, with all that comes after it.
LEMMA RunnableIn ==
  ASSUME Laid(code, task), Refs(code, words), NEW C, RunsIn(code, words, C)
  PROVE  Runnable \subseteq C
<1> DEFINE S == UNION {Entry(w) : w \in {v \in DOMAIN words : ~ words[v].hidden}}
<1>1. Cardinality(DOMAIN code) \in Nat
  BY FS_CardinalityType DEF Refs
<1>2. S \subseteq C
  BY EntryIs DEF RunsIn
<1>3. \A a \in C \cap DOMAIN code : Flow(a) \subseteq C
  <2>1. \A a \in DOMAIN code : code[a] \in Instructions
    BY DEF Laid
  <2> QED BY <2>1, FlowIs DEF RunsIn, Closed
<1> HIDE DEF S
<1>4. Reached(S) \subseteq C
  BY <1>1, <1>2, <1>3, ReachedWithin
<1> QED BY <1>4 DEF Runnable, S

\* The word made last goes on in a word that can be executed, after its DOES>.
LEMMA FlowDoes ==
  ASSUME DictIInv, FlowInv, NEW t \in Tasks, Does(t)
  PROVE  FlowInv'
<1> DEFINE w == task[t].recent
<1>1. /\ w \in DOMAIN words /\ w # NoWord /\ words \in Seq(Words)
      /\ code' = code /\ task' = task
  BY TaskFacts DEF Does, DictIInv, WordsInv
<1>2. PICK a \in Runnable \cap DOMAIN code :
        /\ code[a] = DoesCode
        /\ words' = [words EXCEPT ![w].code = "does", ![w].secondary = After(a, 1)]
  BY DEF Does
<1>3. PICK C : RunsIn(code, words, C)
  BY DEF FlowInv
<1>4. Refs(code, words) /\ \A u \in Tasks : TaskLaw(code, words, u, task[u])
  BY DEF FlowInv
<1> DEFINE place == After(a, 1)
<1>5. place \in C
  <2>1. a \in C
    BY <1>2, <1>3, <1>4, RunnableIn DEF DictIInv
  <2>2. place \in FlowOf(words, a, code[a])
    BY <1>2, FlowNew
  <2> QED BY <1>2, <1>3, <2>1, <2>2 DEF RunsIn, Closed
<1> HIDE DEF place
<1>6. /\ DOMAIN words' = DOMAIN words
      /\ \A v \in DOMAIN words :
           /\ words'[v].hidden = words[v].hidden
           /\ v # w => words'[v] = words[v]
      /\ words'[w].code = "does" /\ words'[w].secondary = place
  <2>1. DOMAIN words' = DOMAIN words
    BY <1>2
  <2>2. \A v \in DOMAIN words :
          words'[v] = IF v = w THEN [words[v] EXCEPT !.code = "does", !.secondary = place]
                      ELSE words[v]
    BY <1>1, <1>2 DEF place
  <2>3. \A v \in DOMAIN words : words[v] \in Words
    BY <1>1
  <2> HIDE DEF w
  <2> QED BY <1>1, <2>1, <2>2, <2>3 DEF Words
<1> HIDE DEF w
<1>7. /\ EntryIn(words', w) = {place}
      /\ \A v \in {NoWord} \cup DOMAIN words :
           v # w => EntryIn(words', v) = EntryIn(words, v)
      /\ \A v \in {NoWord} \cup DOMAIN words :
           Going(words', v) => Going(words, v) /\ words'[v].secondary = words[v].secondary
  BY <1>1, <1>6 DEF EntryIn, Going
<1>8. \A v \in {NoWord} \cup DOMAIN words :
        EntryIn(words', v) \subseteq EntryIn(words, v) \cup {place}
  BY <1>7
<1>9. ASSUME NEW b \in DOMAIN code
      PROVE  FlowOf(words', b, code[b]) \subseteq FlowOf(words, b, code[b]) \cup {place}
  BY <1>4, <1>8 DEF FlowOf, CalledBy, Refs
<1>10. Refs(code, words')
  BY <1>4, <1>6 DEF Refs
<1>11. ASSUME NEW D, Closed(code, words, D)
       PROVE  Closed(code, words', D \cup C)
  <2>1. Closed(code, words, C)
    BY <1>3 DEF RunsIn
  <2> QED BY <1>5, <1>9, <1>11, <2>1 DEF Closed
<1>12. RunsIn(code, words', C)
  <2>1. Closed(code, words', C \cup C)
    BY <1>3, <1>11 DEF RunsIn
  <2>2. ASSUME NEW v \in DOMAIN words', ~ words'[v].hidden
        PROVE  EntryIn(words', v) \subseteq C
    BY <1>3, <1>5, <1>6, <1>8, <2>2 DEF RunsIn
  <2>3. C \subseteq DOMAIN code /\ C \cup C = C
    BY <1>3 DEF RunsIn
  <2> QED BY <2>1, <2>2, <2>3 DEF RunsIn
<1>13. ASSUME NEW D, NEW v \in {NoWord} \cup DOMAIN words, NEW end,
              PartOf(code, words, D, v, end)
       PROVE  PartOf(code, words', D \cup C, v, end)
  <2>1. D \cup C \subseteq DOMAIN code \cup {end} /\ Closed(code, words', D \cup C)
    BY <1>3, <1>11, <1>13 DEF PartOf, RunsIn
  <2>2. EntryIn(words', v) \subseteq D \cup C
    BY <1>5, <1>8, <1>13 DEF PartOf
  <2> QED BY <2>1, <2>2 DEF PartOf
<1>14. ASSUME NEW u \in Tasks
       PROVE  RecentLaw(code, words', u, task[u])
  <2>1. task[u].recent \in {NoWord} \cup DOMAIN words /\ RecentLaw(code, words, u, task[u])
    BY <1>4, TaskFacts DEF TaskLaw
  <2>2. ASSUME task[u].recent # NoWord
        PROVE  \E D : PartOf(code, words', D, task[u].recent, Place(u, task[u]))
    <3>1. PICK D : PartOf(code, words, D, task[u].recent, Place(u, task[u]))
      BY <2>1, <2>2 DEF RecentLaw
    <3>2. PartOf(code, words', D \cup C, task[u].recent, Place(u, task[u]))
      BY <1>13, <2>1, <3>1
    <3> QED BY <3>2
  <2>3. Going(words', task[u].recent)
          => Leads(code, words'[task[u].recent].secondary, Place(u, task[u]))
    BY <1>7, <2>1 DEF RecentLaw
  <2> QED BY <2>2, <2>3 DEF RecentLaw
<1>15. ASSUME NEW u \in Tasks, NEW i \in DOMAIN task[u].frames
       PROVE  OuterLaw(code, words', u, task[u].frames[i])
  <2> DEFINE f == task[u].frames[i]
  <2>1. OuterLaw(code, words, u, f)
    BY <1>4 DEF TaskLaw
  <2>2. f.outer \in {NoWord} \cup DOMAIN words
    BY DEF DictIInv, FramesInv, FrameLaw
  <2> HIDE DEF f
  <2>3. PICK D : /\ PartOf(code, words, D, f.outer, Elsewhere(u))
                 /\ OnlyFrom(code, words, D, Elsewhere(u), f.branch)
    BY <2>1 DEF OuterLaw
  <2>4. PartOf(code, words', D \cup C, f.outer, Elsewhere(u))
    BY <1>13, <2>2, <2>3
  <2>5. Elsewhere(u) \notin DOMAIN code /\ Elsewhere(u) \notin C /\ Elsewhere(u) # place
    <3>1. Elsewhere(u) \notin DOMAIN code
      BY <1>4, ElsewhereNot
    <3> QED BY <1>3, <1>5, <3>1 DEF RunsIn
  <2>6. OnlyFrom(code, words', D \cup C, Elsewhere(u), f.branch)
    <3>1. ASSUME NEW b \in (D \cup C) \cap DOMAIN code,
                 Elsewhere(u) \in FlowOf(words', b, code[b])
          PROVE  b = f.branch
      <4>1. Elsewhere(u) \in FlowOf(words, b, code[b])
        BY <1>9, <2>5, <3>1
      <4>2. b \notin C
        BY <1>3, <2>5, <4>1 DEF RunsIn, Closed
      <4> QED BY <2>3, <4>1, <4>2 DEF OnlyFrom
    <3> QED BY <3>1 DEF OnlyFrom
  <2>7. Elsewhere(u) \notin EntryIn(words', f.outer)
    BY <1>8, <2>1, <2>2, <2>5 DEF OuterLaw
  <2>8. Going(words', f.outer) => Leads(code, words'[f.outer].secondary, f.branch)
    BY <1>7, <2>1, <2>2 DEF OuterLaw
  <2>9. OuterLaw(code, words', u, f)
    BY <2>4, <2>6, <2>7, <2>8 DEF OuterLaw
  <2> QED BY <2>9 DEF f
<1>16. \A u \in Tasks : TaskLaw(code, words', u, task[u])
  BY <1>4, <1>14, <1>15 DEF TaskLaw
<1> QED BY <1>1, <1>10, <1>12, <1>16 DEF FlowInv

-----------------------------------------------------------------------------
(* What control can and will come to.                                      *)

LEMMA FlowInit ==
  Init => FlowInv
<1> SUFFICES ASSUME Init PROVE FlowInv
  OBVIOUS
<1>1. DOMAIN code = {} /\ DOMAIN words = {}
  BY DEF Init
<1>2. Refs(code, words)
  BY <1>1, FS_EmptySet DEF Refs
<1>3. RunsIn(code, words, {})
  BY <1>1 DEF RunsIn, Closed
<1>4. ASSUME NEW t \in Tasks
      PROVE  TaskLaw(code, words, t, task[t])
  <2>1. task[t].recent = NoWord /\ task[t].frames = <<>>
    BY DEF Init
  <2>2. RecentLaw(code, words, t, task[t])
    BY <1>3, <2>1, VisibleRecent
  <2> QED BY <2>1, <2>2, NoFrames
<1> QED BY <1>2, <1>3, <1>4 DEF FlowInv

LEMMA FlowStep ==
  ASSUME DictIInv, DictIInv', FlowInv, [Next]_vars
  PROVE  FlowInv'
<1>1. ASSUME NEW t \in Tasks, Define(t)
      PROVE  FlowInv'
  <2>1. CASE \E n \in Names : Create(t, n) \/ Colon(t, n)
    BY <2>1, FlowHeader
  <2>2. CASE Colon(t, NoName)
    BY <2>2, FlowHeader
  <2>3. CASE CreateNonameAt(t)
    BY <2>3, FlowHeader
  <2>4. CASE NoHeader(t)
    BY <2>4, FlowReset DEF NoHeader, Fail
  <2>5. CASE Immediate(t)
    BY <2>5, FlowSame
  <2>6. CASE Does(t)
    BY <2>6, FlowDoes
  <2> QED BY <1>1, <2>1, <2>2, <2>3, <2>4, <2>5, <2>6 DEF Define
<1>2. ASSUME NEW t \in Tasks, CompileStep(t)
      PROVE  FlowInv'
  <2>1. CASE \/ \E n \in Names : CompileName(t, n) \/ BracketTick(t, n)
             \/ CompileDoes(t) \/ CompileNumber(t) \/ Recurse(t)
    BY <2>1, FlowCompileWords
  <2>2. CASE Semi(t)
    BY <2>2, FlowSemi
  <2>3. CASE (\E n \in Names : ParseError(t, n)) \/ DataSpaceOverflow(t)
    BY <2>3, FlowReset DEF ParseError, DataSpaceOverflow, Fail
  <2>4. CASE \/ \E compiling \in BOOLEAN : Bracket(t, compiling)
             \/ Allot(t) \/ GiveBack(t)
    BY <2>4, FlowSame
  <2>5. CASE CommaFull(t)
    BY <2>5, FlowReset DEF CommaFull
  <2>6. CASE OpenLambda(t)
    BY <2>6, FlowOpen
  <2>7. CASE CloseLambda(t)
    BY <2>7, FlowClose
  <2> QED BY <1>2, <2>1, <2>2, <2>3, <2>4, <2>5, <2>6, <2>7 DEF CompileStep
<1>3. CASE UNCHANGED vars
  <2>1. words' = words /\ code' = code /\ task' = task
    BY <1>3 DEF vars
  <2> QED BY <2>1 DEF FlowInv
<1> QED BY <1>1, <1>2, <1>3 DEF Next

LEMMA FlowEnds ==
  ASSUME DictIInv, FlowInv
  PROVE  CodeEnds
<1>1. PICK C : RunsIn(code, words, C)
  BY DEF FlowInv
<1>2. Runnable \subseteq C
  BY <1>1, RunnableIn DEF DictIInv, FlowInv
<1> QED BY <1>1, <1>2 DEF CodeEnds, RunsIn

LEMMA FlowRecent ==
  ASSUME DictIInv, FlowInv
  PROVE  CompilesRecent
<1> SUFFICES ASSUME NEW t \in Tasks, Open(t), words[task[t].recent].code = "docol"
             PROVE  LET reached == Reached({words[task[t].recent].secondary})
                    IN  /\ At(t) \in reached
                        /\ reached \subseteq DOMAIN code \cup Runnable \cup
                                               {At(u) : u \in Tasks}
  BY DEF CompilesRecent
<1> DEFINE w == task[t].recent
           S == {words[w].secondary}
<1>1. w # NoWord /\ Going(words, w) /\ EntryIn(words, w) = S
  BY DEF Open, Going, EntryIn
<1>2. /\ Refs(code, words) /\ RecentLaw(code, words, t, task[t])
      /\ \A a \in DOMAIN code : code[a] \in Instructions
  BY DEF DictIInv, Laid, FlowInv, TaskLaw
<1>3. IsFiniteSet(DOMAIN code) /\ Cardinality(DOMAIN code) \in Nat
  BY <1>2, FS_CardinalityType DEF Refs
<1>4. \A a \in DOMAIN code : Flow(a) = FlowOf(words, a, code[a])
  BY <1>2, FlowIs
<1>5. PICK D : PartOf(code, words, D, w, At(t))
  BY <1>1, <1>2, PlaceIs DEF RecentLaw
<1>6. Leads(code, words[w].secondary, At(t))
  BY <1>1, <1>2, PlaceIs DEF RecentLaw
<1> HIDE DEF w
<1>7. Reached(S) \subseteq DOMAIN code \cup {At(t)}
  <2>1. S \subseteq D /\ \A a \in D \cap DOMAIN code : Flow(a) \subseteq D
    BY <1>1, <1>4, <1>5 DEF PartOf, Closed
  <2> HIDE DEF S
  <2>2. Reached(S) \subseteq D
    BY <1>3, <2>1, ReachedWithin
  <2> QED BY <1>5, <2>2 DEF PartOf
<1>8. At(t) \in Reached(S)
  <2> DEFINE R == Reached(S)
  <2>1. S \subseteq R /\ \A a \in R \cap DOMAIN code : Flow(a) \subseteq R
    <3> HIDE DEF S
    <3> QED BY <1>3, ReachedClosed
  <2> HIDE DEF R
  <2>2. \A a \in R \cap DOMAIN code : AlongOf(a, code[a]) \subseteq R
    BY <1>4, <2>1 DEF FlowOf
  <2>3. At(t) \in R
    BY <1>6, <2>1, <2>2 DEF Leads
  <2> QED BY <2>3 DEF R
<1> HIDE DEF S
<1> QED BY <1>7, <1>8 DEF S, w

\* Where the code goes, in the words that can be executed, in the definitions
\* that are not complete and around the lambdas in them, obeys its laws in every
\* state (prim.c:1746-1930 and 3085-3093, lambda.fs:42-46).
THEOREM FlowInductive ==
  Spec => []FlowInv
<1>1. DictIInv /\ FlowInv /\ [Next]_vars => FlowInv'
  BY DictStep, FlowStep
<1> QED BY <1>1, FlowInit, DictInductive, PTL DEF Spec

\* Control never leaves the code compiled, in whatever order the tasks define,
\* compile, run out of cells and are reset: a word that can be found or whose
\* token a running word holds is all there up to its EXIT (;, prim.c:1911-1923,
\* DOES>, prim.c:3085-3093, af_reset, inner.c:648).
THEOREM CodeEndsCorrect ==
  Spec => []CodeEnds
BY FlowInductive, DictInductive, FlowEnds, PTL

\* What a task compiles next is where control comes to in the word it defines,
\* also after a lambda that began in one chunk and ended in another
\* (lambda.fs:42-46, af_guarantee, inner.c:807-833).
THEOREM CompilesRecentCorrect ==
  Spec => []CompilesRecent
BY FlowInductive, DictInductive, FlowRecent, PTL

=============================================================================
