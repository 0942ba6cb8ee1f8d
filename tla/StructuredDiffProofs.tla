------------------------ MODULE StructuredDiffProofs ------------------------
(***************************************************************************)
(* Proofs about the structured diff, for files of any length: the loop     *)
(* over the lines of a file keeps what lies outside the managed fields,    *)
(* the hash tells two files apart that differ in one line, and with that   *)
(* the results of a comparison are neither spurious nor incomplete.        *)
(***************************************************************************)
EXTENDS StructuredDiff, FiniteSetTheorems, SequenceTheorems,
        WellFoundedInduction, TLAPS

-----------------------------------------------------------------------------
(* Induction over the numbers up to a length.                              *)

\* A set that has 0 and with each number the next has all up to a bound.
LEMMA CountingUp ==
    ASSUME NEW n \in Nat, NEW S, 0 \in S,
           \A i \in 1..n : i - 1 \in S => i \in S
    PROVE  0..n \subseteq S
<1> DEFINE R == OpToRel(<, Nat)
           Missing == {i \in 0..n : i \notin S}
<1> SUFFICES ASSUME Missing # {} PROVE FALSE
  OBVIOUS
<1>1. IsWellFoundedOn(R, Nat)
  BY NatLessThanWellFounded, Zenon
<1>2. R = {pair \in Nat \X Nat : pair[1] < pair[2]}
  BY Zenon DEF OpToRel
<1> HIDE DEF R
<1>3. Missing \subseteq Nat
  OBVIOUS
<1>4. PICK i \in Missing : \A j \in Missing : ~(<<j, i>> \in R)
  <2> HIDE DEF Missing
  <2> QED
    BY <1>1, <1>3, WFMin
<1>5. \A j \in Missing : ~(j < i)
  BY <1>2, <1>3, <1>4
<1>6. i \in 1..n /\ i - 1 \in 0..n
  BY <1>4
<1>7. i - 1 \in S
  BY <1>5, <1>6
<1> QED
  BY <1>4, <1>6, <1>7

\* The values up to a bound, where a function says at each number how to go
\* on from the value before.
Recursion(n, S, s, step) ==
    {f \in [0..n -> S] :
        /\ f[0] = s
        /\ \A i \in 1..n : f[i] = step[i][f[i - 1]]}

\* There are such values.
LEMMA RecursionIsThere ==
    ASSUME NEW n \in Nat, NEW S, NEW s \in S, NEW step \in [1..n -> [S -> S]]
    PROVE  Recursion(n, S, s, step) # {}
<1> USE DEF Recursion
<1> DEFINE Upto(m) == {f \in [0..m -> S] :
                          /\ f[0] = s
                          /\ \A i \in 1..m : f[i] = step[i][f[i - 1]]}
           Good == {m \in 0..n : Upto(m) # {}}
<1>1. 0 \in Good
  <2>1. [i \in 0..0 |-> s] \in Upto(0)
    OBVIOUS
  <2> QED
    BY <2>1
<1>2. ASSUME NEW m \in 1..n, m - 1 \in Good
      PROVE  m \in Good
  <2>1. PICK f \in [0..(m - 1) -> S] :
            /\ f[0] = s
            /\ \A i \in 1..(m - 1) : f[i] = step[i][f[i - 1]]
    BY <1>2
  <2> DEFINE g == [i \in 0..m |-> IF i = m THEN step[m][f[m - 1]] ELSE f[i]]
  <2>2. f[m - 1] \in S /\ step[m] \in [S -> S]
    BY <2>1
  <2>3. g \in [0..m -> S]
    BY <2>1, <2>2
  <2>4. g[0] = s
    BY <2>1
  <2>5. \A i \in 1..m : g[i] = step[i][g[i - 1]]
    BY <2>1
  <2>6. g \in Upto(m)
    <3> HIDE DEF g
    <3> QED
      BY <2>3, <2>4, <2>5
  <2> QED
    BY <2>6
<1>3. n \in Good
  <2> HIDE DEF Good
  <2>1. 0..n \subseteq Good
    BY <1>1, <1>2, CountingUp
  <2> QED
    BY <2>1
<1> QED
  BY <1>3

-----------------------------------------------------------------------------
(* Reading a file.                                                         *)

\* Lines as they are kept: of tokens and of what stands for omitted ones.
Kept(Token) == Seq(Token \cup {"omitted " \o ToString(n) : n \in Nat})
Reading(Token) == [inside : BOOLEAN, lines : Seq(Kept(Token))]

\* Trimming a line gives a line, and one within the limit stays as it is.
LEMMA TrimKeeps ==
    ASSUME NEW Token, NEW line \in Seq(Token)
    PROVE  /\ Trim(line) \in Kept(Token)
           /\ Len(line) <= MaxLineLength => Trim(line) = line
<1> DEFINE All == Token \cup {"omitted " \o ToString(n) : n \in Nat}
<1>1. line \in Seq(All)
  BY Zenon, SeqMonotonic
<1>2. ASSUME ~(Len(line) <= MaxLineLength)
      PROVE  Trim(line) \in Seq(All)
  <2> DEFINE left == Len(line) - MaxLineLength
             note == "omitted " \o ToString(left)
  <2>1. MaxLineLength \in Nat /\ Len(line) \in Nat
    BY DiffAssumption
  <2>2. left \in Nat
    BY <1>2, <2>1
  <2>3. note \in All
    BY <2>2
  <2>4. Trim(line) = SubSeq(line, 1, MaxLineLength) \o <<note>>
    BY <1>2 DEF Trim
  <2> HIDE DEF All, note
  <2>5. SubSeq(line, 1, MaxLineLength) \in Seq(All) /\ <<note>> \in Seq(All)
    BY <1>1, <1>2, <2>1, <2>3
  <2> QED
    BY <2>4, <2>5
<1> QED
  BY <1>1, <1>2 DEF Trim, Kept

\* The loop takes a state of reading to one.
LEMMA ReadLineReads ==
    ASSUME NEW Token, NEW state \in Reading(Token), NEW line \in Seq(Token)
    PROVE  /\ ReadLine(state, line) \in Reading(Token)
           /\ ReadLine(state, line).inside
                 <=> (OpensManaged(line) \/ (state.inside /\ StaysManaged(line)))
           /\ ReadLine(state, line).lines
                 = IF OpensManaged(line) \/ (state.inside /\ StaysManaged(line))
                   THEN state.lines
                   ELSE Append(state.lines, Trim(line))
<1>1. /\ state.inside \in BOOLEAN /\ state.lines \in Seq(Kept(Token))
      /\ state = [inside |-> state.inside, lines |-> state.lines]
  BY DEF Reading
<1>2. Trim(line) \in Kept(Token)
  BY TrimKeeps
<1>3. CASE OpensManaged(line) \/ (state.inside /\ StaysManaged(line))
  <2>1. ReadLine(state, line) = [inside |-> TRUE, lines |-> state.lines]
    BY <1>1, <1>3 DEF ReadLine
  <2>2. ReadLine(state, line) \in Reading(Token)
    BY <1>1, <2>1 DEF Reading
  <2>3. /\ ReadLine(state, line).inside
        /\ ReadLine(state, line).lines = state.lines
    BY <2>1
  <2> QED
    BY <1>3, <2>2, <2>3
<1>4. CASE ~(OpensManaged(line) \/ (state.inside /\ StaysManaged(line)))
  <2>1. ReadLine(state, line)
        = [inside |-> FALSE, lines |-> Append(state.lines, Trim(line))]
    BY <1>4 DEF ReadLine
  <2>2. Append(state.lines, Trim(line)) \in Seq(Kept(Token))
    BY <1>1, <1>2
  <2>3. ReadLine(state, line) \in Reading(Token)
    BY <2>1, <2>2 DEF Reading
  <2>4. /\ ~ReadLine(state, line).inside
        /\ ReadLine(state, line).lines = Append(state.lines, Trim(line))
    BY <2>1
  <2> QED
    BY <1>4, <2>3, <2>4
<1> QED
  BY <1>3, <1>4

\* What has been kept after each line is defined line by line.
LEMMA ReadingIsThere ==
    ASSUME NEW Token, NEW file \in Seq(Seq(Token))
    PROVE  /\ ReadUpTo(file) \in [0..Len(file) -> Reading(Token)]
           /\ ReadUpTo(file)[0] = [inside |-> FALSE, lines |-> <<>>]
           /\ \A i \in 1..Len(file) :
                 ReadUpTo(file)[i] = ReadLine(ReadUpTo(file)[i - 1], file[i])
<1> DEFINE n == Len(file)
           start == [inside |-> FALSE, lines |-> <<>>]
           step == [i \in 1..n |->
                       [state \in Reading(Token) |-> ReadLine(state, file[i])]]
<1>1. /\ n \in Nat
      /\ \A i \in 1..n : file[i] \in Seq(Token) /\ i - 1 \in 0..n
  OBVIOUS
<1>2. start \in Reading(Token)
  BY DEF Reading
<1>3. step \in [1..n -> [Reading(Token) -> Reading(Token)]]
  BY <1>1, ReadLineReads
<1>4. PICK f \in [0..n -> Reading(Token)] :
          f[0] = start /\ \A i \in 1..n : f[i] = step[i][f[i - 1]]
  <2> DEFINE S == Reading(Token)
  <2>1. n \in Nat /\ start \in S /\ step \in [1..n -> [S -> S]]
    BY <1>1, <1>2, <1>3
  <2>2. Recursion(n, S, start, step) # {}
    <3> HIDE DEF n, start, step, S
    <3> QED
      BY <2>1, RecursionIsThere
  <2> QED
    BY <2>2 DEF Recursion
<1>5. \A i \in 1..n : f[i] = ReadLine(f[i - 1], file[i])
  <2> SUFFICES ASSUME NEW i \in 1..n PROVE f[i] = ReadLine(f[i - 1], file[i])
    OBVIOUS
  <2>1. f[i - 1] \in Reading(Token)
    BY <1>1
  <2> QED
    BY <1>4, <2>1
<1>6. f = [i \in 0..n |-> IF i = 0 THEN start ELSE ReadLine(f[i - 1], file[i])]
  BY <1>1, <1>4, <1>5
<1> DEFINE Is(g) ==
               g = [i \in 0..n |-> IF i = 0 THEN start ELSE ReadLine(g[i - 1], file[i])]
<1>7. ReadUpTo(file) = CHOOSE g : Is(g)
  BY DEF ReadUpTo
<1>8. Is(ReadUpTo(file))
  <2>1. \E g : Is(g)
    BY <1>6
  <2> HIDE DEF Is
  <2> QED
    BY <1>7, <2>1
<1> DEFINE r == ReadUpTo(file)
<1>9. r[0] = start /\ \A i \in 1..n : r[i] = ReadLine(r[i - 1], file[i])
  <2> HIDE DEF r
  <2>1. r = [i \in 0..n |-> IF i = 0 THEN start ELSE ReadLine(r[i - 1], file[i])]
    BY <1>8 DEF r
  <2> HIDE DEF start
  <2>2. 0 \in 0..n /\ \A i \in 1..n : i \in 0..n /\ i # 0
    BY <1>1
  <2> QED
    BY <2>1, <2>2
<1>10. \A i \in 0..n : r[i] \in Reading(Token)
  <2> DEFINE S == {i \in 0..n : r[i] \in Reading(Token)}
  <2>1. 0 \in S
    BY <1>1, <1>2, <1>9
  <2>2. ASSUME NEW i \in 1..n, i - 1 \in S PROVE i \in S
    <3>1. r[i - 1] \in Reading(Token) /\ file[i] \in Seq(Token) /\ i \in 0..n
      BY <1>1, <2>2
    <3>2. r[i] = ReadLine(r[i - 1], file[i])
      BY <1>9
    <3> HIDE DEF r
    <3>3. ReadLine(r[i - 1], file[i]) \in Reading(Token)
      BY <3>1, ReadLineReads
    <3> QED
      BY <3>1, <3>2, <3>3
  <2>3. 0..n \subseteq S
    <3> HIDE DEF S
    <3> QED
      BY <1>1, <2>1, <2>2, CountingUp
  <2> QED
    BY <2>3
<1>11. r \in [0..n -> Reading(Token)]
  <2>1. DOMAIN r = 0..n /\ r = [i \in DOMAIN r |-> r[i]]
    BY <1>8
  <2> HIDE DEF r
  <2> QED
    BY <1>10, <2>1
<1> QED
  BY <1>9, <1>11
-----------------------------------------------------------------------------
(* What is kept is what lies outside the managed fields.                   *)

\* The first lines that lie outside, and the place of one among them.
OwnTo(file, n) == {i \in 1..n : ~IsManaged(file, i)}
Place(file, i) == Cardinality(OwnTo(file, i))

\* Whether a line is managed follows from the line before it and its text.
LEMMA ManagedStep ==
    ASSUME NEW file, NEW i \in Nat, i > 0
    PROVE  IsManaged(file, i)
              <=> \/ OpensManaged(file[i])
                  \/ i > 1 /\ IsManaged(file, i - 1) /\ StaysManaged(file[i])
<1>1. ASSUME OpensManaged(file[i]) PROVE IsManaged(file, i)
  <2>1. i \in 1..i /\ \A k \in (i + 1)..i : FALSE
    OBVIOUS
  <2> QED
    BY <1>1, <2>1 DEF IsManaged
<1>2. ASSUME i > 1, IsManaged(file, i - 1), StaysManaged(file[i])
      PROVE  IsManaged(file, i)
  <2>1. PICK m \in 1..(i - 1) :
            /\ OpensManaged(file[m])
            /\ \A k \in (m + 1)..(i - 1) :
                  OpensManaged(file[k]) \/ StaysManaged(file[k])
    BY <1>2 DEF IsManaged
  <2>2. m \in 1..i
    OBVIOUS
  <2>3. \A k \in (m + 1)..i : k = i \/ k \in (m + 1)..(i - 1)
    OBVIOUS
  <2> QED
    BY <1>2, <2>1, <2>2, <2>3 DEF IsManaged
<1>3. ASSUME IsManaged(file, i), ~OpensManaged(file[i])
      PROVE  i > 1 /\ IsManaged(file, i - 1) /\ StaysManaged(file[i])
  <2>1. PICK m \in 1..i :
            /\ OpensManaged(file[m])
            /\ \A k \in (m + 1)..i :
                  OpensManaged(file[k]) \/ StaysManaged(file[k])
    BY <1>3 DEF IsManaged
  <2>2. m # i
    BY <1>3, <2>1
  <2>3. i > 1 /\ m \in 1..(i - 1) /\ i \in (m + 1)..i
    BY <2>2
  <2>4. \A k \in (m + 1)..(i - 1) : k \in (m + 1)..i
    BY <2>3
  <2> QED
    BY <1>3, <2>1, <2>3, <2>4 DEF IsManaged
<1> QED
  BY <1>1, <1>2, <1>3

\* A line outside has the place after all that come before it.
LEMMA Places ==
    ASSUME NEW file
    PROVE  /\ \A n \in Nat : Place(file, n) \in Nat
           /\ Place(file, 0) = 0
           /\ \A n \in Nat \ {0} :
                 Place(file, n) = IF IsManaged(file, n)
                                  THEN Place(file, n - 1)
                                  ELSE Place(file, n - 1) + 1
<1>1. \A n \in Nat : IsFiniteSet(OwnTo(file, n))
  <2> SUFFICES ASSUME NEW n \in Nat PROVE IsFiniteSet(OwnTo(file, n))
    OBVIOUS
  <2>1. IsFiniteSet(1..n)
    BY FS_Interval
  <2>2. OwnTo(file, n) \in SUBSET (1..n)
    BY DEF OwnTo
  <2> QED
    BY <2>1, <2>2, FS_Subset
<1>2. Place(file, 0) = 0
  <2>1. OwnTo(file, 0) = {}
    BY DEF OwnTo
  <2> QED
    BY <2>1, FS_EmptySet DEF Place
<1>3. ASSUME NEW n \in Nat \ {0}
      PROVE  Place(file, n) = IF IsManaged(file, n)
                              THEN Place(file, n - 1)
                              ELSE Place(file, n - 1) + 1
  <2>1. n - 1 \in Nat
    OBVIOUS
  <2>2. CASE IsManaged(file, n)
    <3>1. OwnTo(file, n) = OwnTo(file, n - 1)
      BY <2>1, <2>2 DEF OwnTo
    <3> QED
      BY <2>2, <3>1 DEF Place
  <2>3. CASE ~IsManaged(file, n)
    <3>1. OwnTo(file, n) = OwnTo(file, n - 1) \cup {n}
      BY <2>1, <2>3 DEF OwnTo
    <3>2. n \notin OwnTo(file, n - 1)
      BY DEF OwnTo
    <3> QED
      BY <1>1, <2>1, <2>3, <3>1, <3>2, FS_AddElement DEF Place
  <2> QED
    BY <2>2, <2>3
<1> QED
  BY <1>1, <1>2, <1>3, FS_CardinalityType DEF Place

\* The loop is in the managed fields exactly at a line of theirs, and has kept
\* each line outside them, trimmed, at its place.
LEMMA LoopKeepsOwn ==
    ASSUME NEW Token, NEW file \in Seq(Seq(Token)), NEW n \in 0..Len(file)
    PROVE  /\ Len(ReadUpTo(file)[n].lines) = Place(file, n)
           /\ \A i \in OwnTo(file, n) :
                 /\ Place(file, i) \in 1..Place(file, n)
                 /\ ReadUpTo(file)[n].lines[Place(file, i)] = Trim(file[i])
           /\ \A k \in 1..Place(file, n) :
                 \E i \in OwnTo(file, n) : Place(file, i) = k
<1> DEFINE r == ReadUpTo(file)
           len == Len(file)
           Inside(m) == r[m].inside <=> m > 0 /\ IsManaged(file, m)
           Length(m) == Len(r[m].lines) = Place(file, m)
           AtPlace(m) == \A i \in OwnTo(file, m) :
                             /\ Place(file, i) \in 1..Place(file, m)
                             /\ r[m].lines[Place(file, i)] = Trim(file[i])
           Onto(m) == \A k \in 1..Place(file, m) :
                          \E i \in OwnTo(file, m) : Place(file, i) = k
           Good == {m \in 0..len :
                       Inside(m) /\ Length(m) /\ AtPlace(m) /\ Onto(m)}
<1>1. /\ len \in Nat
      /\ r \in [0..len -> Reading(Token)]
      /\ r[0] = [inside |-> FALSE, lines |-> <<>>]
      /\ \A i \in 1..len : r[i] = ReadLine(r[i - 1], file[i])
  BY ReadingIsThere
<1>2. 0 \in Good
  <2>1. OwnTo(file, 0) = {} /\ Place(file, 0) = 0
    BY Places DEF OwnTo
  <2> HIDE DEF r
  <2> QED
    BY <1>1, <2>1
<1>3. ASSUME NEW m \in 1..len, m - 1 \in Good
      PROVE  m \in Good
  <2> DEFINE was == r[m - 1]
             is == r[m]
             line == file[m]
             managed == OpensManaged(line) \/ (was.inside /\ StaysManaged(line))
  <2>1. /\ m \in Nat /\ m > 0 /\ m - 1 \in 0..len /\ m - 1 \in Nat
        /\ m \in 0..len /\ m \in Nat \ {0}
    BY <1>1
  <2>2. was \in Reading(Token) /\ line \in Seq(Token)
    <3>1. line \in Seq(Token)
      OBVIOUS
    <3>2. was \in Reading(Token)
      <4> HIDE DEF r, len
      <4> QED
        BY <1>1, <2>1
    <3> QED
      BY <3>1, <3>2
  <2>3. /\ is.inside <=> managed
        /\ is.lines = IF managed THEN was.lines
                      ELSE Append(was.lines, Trim(line))
    <3>1. is = ReadLine(was, line)
      BY <1>1
    <3> HIDE DEF is, was, line
    <3> QED
      BY <2>2, <3>1, ReadLineReads
  <2>4. managed <=> IsManaged(file, m)
    <3>1. was.inside <=> m - 1 > 0 /\ IsManaged(file, m - 1)
      BY <1>3
    <3>2. m - 1 > 0 <=> m > 1
      BY <2>1
    <3>3. IsManaged(file, m)
             <=> \/ OpensManaged(line)
                 \/ m > 1 /\ IsManaged(file, m - 1) /\ StaysManaged(line)
      BY <2>1, ManagedStep
    <3> HIDE DEF was, line
    <3> QED
      BY <3>1, <3>2, <3>3
  <2>5. /\ was.lines \in Seq(Kept(Token)) /\ Trim(line) \in Kept(Token)
        /\ Len(was.lines) = Place(file, m - 1)
    BY <1>3, <2>2, TrimKeeps DEF Reading
  <2>6. /\ Place(file, m - 1) \in Nat
        /\ Place(file, m) = IF IsManaged(file, m) THEN Place(file, m - 1)
                            ELSE Place(file, m - 1) + 1
    BY <2>1, Places
  <2>7. OwnTo(file, m) = IF IsManaged(file, m) THEN OwnTo(file, m - 1)
                         ELSE OwnTo(file, m - 1) \cup {m}
    BY <2>1 DEF OwnTo
  <2>8. AtPlace(m - 1) /\ Onto(m - 1)
    BY <1>3
  <2>9. Inside(m)
    BY <2>1, <2>3, <2>4
  <2>10. Length(m) /\ AtPlace(m) /\ Onto(m)
    <3> HIDE DEF was, is, line, managed
    <3>1. CASE IsManaged(file, m)
      <4>1. /\ is.lines = was.lines /\ Place(file, m) = Place(file, m - 1)
            /\ OwnTo(file, m) = OwnTo(file, m - 1)
        BY <2>3, <2>4, <2>6, <2>7, <3>1
      <4> QED
        BY <2>5, <2>8, <4>1 DEF was, is
    <3>2. CASE ~IsManaged(file, m)
      <4> DEFINE p == Place(file, m - 1)
                 text == Trim(line)
      <4>1. /\ is.lines = Append(was.lines, text) /\ Place(file, m) = p + 1
            /\ OwnTo(file, m) = OwnTo(file, m - 1) \cup {m}
        BY <2>3, <2>4, <2>6, <2>7, <3>2
      <4>2. /\ \A k \in 1..p : is.lines[k] = was.lines[k]
            /\ is.lines[p + 1] = text
            /\ Len(is.lines) = p + 1
        <5> HIDE DEF p, text
        <5> QED
          BY <2>5, <2>6, <4>1 DEF p, text
      <4>3. Length(m)
        BY <4>1, <4>2 DEF is
      <4>4. ASSUME NEW i \in OwnTo(file, m)
            PROVE  /\ Place(file, i) \in 1..Place(file, m)
                   /\ is.lines[Place(file, i)] = Trim(file[i])
        <5>1. CASE i = m
          BY <2>6, <4>1, <4>2, <5>1 DEF line
        <5>2. CASE i \in OwnTo(file, m - 1)
          <6>1. /\ Place(file, i) \in 1..p
                /\ was.lines[Place(file, i)] = Trim(file[i])
            BY <2>8, <5>2 DEF was
          <6> QED
            BY <2>6, <4>1, <4>2, <6>1
        <5> QED
          BY <4>1, <5>1, <5>2
      <4>5. ASSUME NEW k \in 1..Place(file, m)
            PROVE  \E i \in OwnTo(file, m) : Place(file, i) = k
        <5>1. CASE k = p + 1
          BY <4>1, <5>1
        <5>2. CASE k \in 1..p
          BY <2>8, <4>1, <5>2
        <5> QED
          BY <2>6, <4>1, <5>1, <5>2
      <4> QED
        BY <4>3, <4>4, <4>5 DEF is
    <3> QED
      BY <3>1, <3>2
  <2> QED
    BY <2>1, <2>9, <2>10
<1>4. 0..len \subseteq Good
  <2> HIDE DEF Good
  <2> QED
    BY <1>1, <1>2, <1>3, CountingUp
<1> QED
  BY <1>4
\* The lines that a comparison sees are those outside the managed fields, one
\* by one, trimmed.
LEMMA LinesAreOwn ==
    ASSUME NEW Token, Files \subseteq Seq(Seq(Token)),
           NEW file \in Files \cup {NoFile}
    PROVE  /\ Own(file) \in Seq(Seq(Token))
           /\ Lines(file) \in Seq(Kept(Token))
           /\ Len(Lines(file)) = Len(Own(file))
           /\ \A k \in 1..Len(Own(file)) : Lines(file)[k] = Trim(Own(file)[k])
<1>1. CASE file = NoFile
  <2>1. OwnLines(file) = {} /\ Lines(file) = <<>>
    BY <1>1 DEF OwnLines, Lines
  <2>2. Cardinality(OwnLines(file)) = 0
    BY <2>1, FS_EmptySet
  <2>3. Own(file) = <<>>
    BY <2>2 DEF Own
  <2> QED
    BY <2>1, <2>3
<1>2. CASE file # NoFile
  <2> DEFINE len == Len(file)
             n == Place(file, len)
             lines == ReadUpTo(file)[len].lines
             of(k) == CHOOSE i \in OwnLines(file) :
                         Cardinality(OwnLines(file) \cap 1..i) = k
  <2>1. file \in Seq(Seq(Token))
    BY <1>2
  <2>2. /\ len \in Nat /\ len \in 0..len
        /\ \A i \in 1..len : file[i] \in Seq(Token)
    BY <2>1
  <2>3. OwnLines(file) = OwnTo(file, len)
    BY <1>2 DEF OwnLines, OwnTo
  <2>4. \A i \in OwnTo(file, len) : OwnTo(file, len) \cap 1..i = OwnTo(file, i)
    BY <2>2 DEF OwnTo
  <2>5. n \in Nat
    BY <2>2, Places
  <2>6. /\ Len(lines) = n
        /\ \A i \in OwnTo(file, len) : lines[Place(file, i)] = Trim(file[i])
        /\ \A k \in 1..n : \E i \in OwnTo(file, len) : Place(file, i) = k
    BY <2>1, <2>2, LoopKeepsOwn
  <2>7. \A k \in 1..n : of(k) \in OwnTo(file, len) /\ Place(file, of(k)) = k
    <3> SUFFICES ASSUME NEW k \in 1..n
                 PROVE  of(k) \in OwnTo(file, len) /\ Place(file, of(k)) = k
      OBVIOUS
    <3>1. \E i \in OwnLines(file) : Cardinality(OwnLines(file) \cap 1..i) = k
      <4> HIDE DEF n, len, lines
      <4>1. PICK i \in OwnTo(file, len) : Place(file, i) = k
        BY <2>6
      <4>2. OwnLines(file) \cap 1..i = OwnTo(file, i)
        BY <2>3, <2>4
      <4>3. Cardinality(OwnLines(file) \cap 1..i) = k
        BY <4>1, <4>2 DEF Place
      <4> QED
        BY <2>3, <4>1, <4>3
    <3>2. of(k) \in OwnLines(file) /\ Cardinality(OwnLines(file) \cap 1..of(k)) = k
      BY <3>1
    <3> HIDE DEF of
    <3> QED
      BY <2>3, <2>4, <3>2 DEF Place
  <2>8. Own(file) = [k \in 1..n |-> file[of(k)]]
    BY <2>3 DEF Own, Place
  <2>9. \A k \in 1..n : file[of(k)] \in Seq(Token)
    <3> HIDE DEF of
    <3> QED
      BY <2>2, <2>7 DEF OwnTo
  <2>10. Own(file) \in Seq(Seq(Token)) /\ Len(Own(file)) = n
    <3> HIDE DEF of, n
    <3> QED
      BY <2>5, <2>8, <2>9
  <2>11. \A k \in 1..n : Lines(file)[k] = Trim(Own(file)[k])
    <3>1. Lines(file) = lines
      BY <1>2 DEF Lines
    <3> HIDE DEF of, n, lines
    <3> QED
      BY <2>6, <2>7, <2>8, <3>1
  <2>12. Lines(file) \in Seq(Kept(Token))
    <3>1. ReadUpTo(file)[len] \in Reading(Token)
      BY <2>1, <2>2, ReadingIsThere
    <3> QED
      BY <1>2, <3>1 DEF Lines, Reading
  <2>13. Len(Lines(file)) = n
    BY <1>2, <2>6 DEF Lines
  <2> HIDE DEF n
  <2> QED
    BY <2>10, <2>11, <2>12, <2>13
<1> QED
  BY <1>1, <1>2

\* Two files that agree outside the managed fields are the same to a
\* comparison.
LEMMA OwnDecides ==
    ASSUME NEW Token, Files \subseteq Seq(Seq(Token)),
           NEW was \in Files \cup {NoFile}, NEW becomes \in Files \cup {NoFile},
           Own(was) = Own(becomes)
    PROVE  Lines(was) = Lines(becomes)
<1>1. /\ Lines(was) \in Seq(Kept(Token)) /\ Lines(becomes) \in Seq(Kept(Token))
      /\ Len(Lines(was)) = Len(Lines(becomes))
      /\ \A k \in 1..Len(Lines(was)) : Lines(was)[k] = Lines(becomes)[k]
  BY LinesAreOwn
<1> DEFINE s == Lines(was)
           t == Lines(becomes)
<1> HIDE DEF s, t
<1>2. s = t
  BY <1>1, SeqEqual DEF s, t
<1> QED
  BY <1>2 DEF s, t

-----------------------------------------------------------------------------
(* The hash.                                                               *)

\* The text of the first lines is defined line by line.
LEMMA JoiningIsThere ==
    ASSUME NEW S, NEW lines \in Seq(Seq(S))
    PROVE  /\ JoinedUpTo(lines) \in [0..Len(lines) -> Seq(S)]
           /\ JoinedUpTo(lines)[0] = <<>>
           /\ \A i \in 1..Len(lines) :
                 JoinedUpTo(lines)[i] = JoinedUpTo(lines)[i - 1] \o lines[i]
<1> DEFINE n == Len(lines)
           X == Seq(S)
           none == <<>>
           step == [i \in 1..n |-> [text \in X |-> text \o lines[i]]]
<1>1. /\ n \in Nat
      /\ \A i \in 1..n : lines[i] \in X /\ i - 1 \in 0..n
  OBVIOUS
<1>2. \A s, t \in X : s \o t \in X
  OBVIOUS
<1>3. none \in X
  OBVIOUS
<1>4. step \in [1..n -> [X -> X]]
  BY <1>1, <1>2
<1>5. Recursion(n, X, none, step) # {}
  <2> HIDE DEF n, none, step, X
  <2> QED
    BY <1>1, <1>3, <1>4, RecursionIsThere
<1>6. PICK f \in [0..n -> X] :
          f[0] = none /\ \A i \in 1..n : f[i] = step[i][f[i - 1]]
  BY <1>5 DEF Recursion
<1>7. \A i \in 1..n : f[i] = f[i - 1] \o lines[i]
  <2> SUFFICES ASSUME NEW i \in 1..n PROVE f[i] = f[i - 1] \o lines[i]
    OBVIOUS
  <2>1. f[i - 1] \in X
    <3> HIDE DEF X, n
    <3> QED
      BY <1>1
  <2> QED
    BY <1>6, <2>1
<1>8. f = [i \in 0..n |-> IF i = 0 THEN none ELSE f[i - 1] \o lines[i]]
  <2>1. \A i \in 0..n : f[i] = IF i = 0 THEN none ELSE f[i - 1] \o lines[i]
    <3> HIDE DEF none
    <3>1. \A i \in 0..n : i = 0 \/ i \in 1..n
      BY <1>1
    <3>2. \A i \in 1..n : i # 0
      BY <1>1
    <3> HIDE DEF n
    <3> QED
      BY <1>6, <1>7, <3>1, <3>2
  <2> HIDE DEF n, none, X
  <2> QED
    BY <2>1
<1> DEFINE Is(g) ==
               g = [i \in 0..n |-> IF i = 0 THEN none ELSE g[i - 1] \o lines[i]]
<1>9. JoinedUpTo(lines) = CHOOSE g : Is(g)
  BY DEF JoinedUpTo
<1>10. Is(JoinedUpTo(lines))
  <2>1. \E g : Is(g)
    BY <1>8
  <2> HIDE DEF Is
  <2> QED
    BY <1>9, <2>1
<1> DEFINE r == JoinedUpTo(lines)
<1>11. r[0] = none /\ \A i \in 1..n : r[i] = r[i - 1] \o lines[i]
  <2>1. r = [i \in 0..n |-> IF i = 0 THEN none ELSE r[i - 1] \o lines[i]]
    BY <1>10
  <2>2. 0 \in 0..n /\ \A i \in 1..n : i \in 0..n /\ i # 0
    BY <1>1
  <2> HIDE DEF r, none, n
  <2> QED
    BY <2>1, <2>2
<1>12. \A i \in 0..n : r[i] \in X
  <2> DEFINE T == {i \in 0..n : r[i] \in X}
  <2>1. 0 \in T
    <3> HIDE DEF r, none, X
    <3> QED
      BY <1>1, <1>3, <1>11
  <2>2. ASSUME NEW i \in 1..n, i - 1 \in T PROVE i \in T
    <3>1. r[i - 1] \in X /\ lines[i] \in X /\ i \in 0..n
      BY <1>1, <2>2
    <3> HIDE DEF r, X
    <3> QED
      BY <1>2, <1>11, <3>1
  <2>3. 0..n \subseteq T
    <3> HIDE DEF T
    <3> QED
      BY <1>1, <2>1, <2>2, CountingUp
  <2> QED
    BY <2>3
<1>13. r \in [0..n -> X]
  <2>1. DOMAIN r = 0..n /\ r = [i \in DOMAIN r |-> r[i]]
    BY <1>10
  <2> HIDE DEF r
  <2> QED
    BY <1>12, <2>1
<1> QED
  BY <1>11, <1>13
\* Two texts that differ in one line differ as a whole.
LEMMA JoinedApart ==
    ASSUME NEW S, NEW s \in Seq(Seq(S)), NEW t \in Seq(Seq(S)),
           Len(s) = Len(t), NEW i \in 1..Len(s), s[i] # t[i],
           \A k \in 1..Len(s) : k # i => s[k] = t[k]
    PROVE  JoinedUpTo(s)[Len(s)] # JoinedUpTo(t)[Len(t)]
<1> DEFINE n == Len(s)
           a == JoinedUpTo(s)
           b == JoinedUpTo(t)
<1>1. /\ n \in Nat /\ n = Len(t)
      /\ \A k \in 1..n : s[k] \in Seq(S) /\ t[k] \in Seq(S)
      /\ \A k \in 1..n : k - 1 \in 0..n
  OBVIOUS
<1>2. /\ a \in [0..n -> Seq(S)] /\ a[0] = <<>>
      /\ b \in [0..n -> Seq(S)] /\ b[0] = <<>>
      /\ \A k \in 1..n : a[k] = a[k - 1] \o s[k] /\ b[k] = b[k - 1] \o t[k]
  BY <1>1, JoiningIsThere
<1>3. \A k \in 0..n : a[k] \in Seq(S) /\ b[k] \in Seq(S)
  <2> HIDE DEF a, b
  <2> QED
    BY <1>2
<1>4. a[i - 1] = b[i - 1]
  <2> DEFINE Same == {k \in 0..n : k < i => a[k] = b[k]}
  <2>1. 0 \in Same
    <3> HIDE DEF a, b
    <3> QED
      BY <1>1, <1>2
  <2>2. ASSUME NEW k \in 1..n, k - 1 \in Same PROVE k \in Same
    <3> HIDE DEF a, b
    <3>1. ASSUME k < i PROVE a[k] = b[k]
      <4>1. a[k - 1] = b[k - 1] /\ s[k] = t[k]
        BY <1>1, <2>2, <3>1
      <4> QED
        BY <1>2, <4>1
    <3> QED
      BY <1>1, <3>1
  <2>3. 0..n \subseteq Same
    <3> HIDE DEF Same
    <3> QED
      BY <1>1, <2>1, <2>2, CountingUp
  <2>4. i - 1 \in 0..n /\ i - 1 < i
    BY <1>1
  <2> QED
    BY <2>3, <2>4
<1>5. n \in {k \in 0..n : k >= i => a[k] # b[k]}
  <2> DEFINE Apart == {k \in 0..n : k >= i => a[k] # b[k]}
  <2>1. 0 \in Apart
    BY <1>1
  <2>2. ASSUME NEW k \in 1..n, k - 1 \in Apart PROVE k \in Apart
    <3> HIDE DEF a, b
    <3>1. /\ a[k - 1] \in Seq(S) /\ b[k - 1] \in Seq(S)
          /\ s[k] \in Seq(S) /\ t[k] \in Seq(S)
      BY <1>1, <1>3
    <3>2. a[k] = a[k - 1] \o s[k] /\ b[k] = b[k - 1] \o t[k]
      BY <1>2
    <3>3. CASE k = i
      <4>1. a[k - 1] \o s[k] = a[k - 1] \o t[k] => s[k] = t[k]
        <5> DEFINE x == a[k - 1]
                   y == s[k]
                   z == t[k]
        <5>1. x \in Seq(S) /\ y \in Seq(S) /\ z \in Seq(S)
          BY <3>1
        <5> HIDE DEF x, y, z
        <5>2. x \o y = x \o z => y = z
          BY <5>1, ConcatSimplifications
        <5> QED
          BY <5>2 DEF x, y, z
      <4>2. /\ a[k] = a[k - 1] \o s[k] /\ b[k] = a[k - 1] \o t[k]
            /\ s[k] # t[k]
        BY <1>4, <3>2, <3>3
      <4>3. a[k] # b[k]
        BY <4>1, <4>2
      <4> QED
        BY <4>3
    <3>4. CASE k > i
      <4>1. a[k - 1] # b[k - 1] /\ s[k] = t[k]
        BY <1>1, <2>2, <3>4
      <4>2. a[k - 1] \o s[k] = b[k - 1] \o s[k] => a[k - 1] = b[k - 1]
        <5> DEFINE x == a[k - 1]
                   y == b[k - 1]
                   z == s[k]
        <5>1. x \in Seq(S) /\ y \in Seq(S) /\ z \in Seq(S)
          BY <3>1
        <5> HIDE DEF x, y, z
        <5>2. x \o z = y \o z => x = y
          BY <5>1, ConcatSimplifications
        <5> QED
          BY <5>2 DEF x, y, z
      <4>3. a[k] # b[k]
        BY <3>2, <4>1, <4>2
      <4> QED
        BY <1>1, <4>3
    <3>5. CASE k < i
      BY <1>1, <3>5
    <3> QED
      BY <1>1, <3>3, <3>4, <3>5
  <2>3. 0..n \subseteq Apart
    <3> HIDE DEF Apart
    <3> QED
      BY <1>1, <2>1, <2>2, CountingUp
  <2> QED
    BY <1>1, <2>3
<1> QED
  BY <1>1, <1>5
-----------------------------------------------------------------------------
(* What one comparison reports.                                            *)

\* The lines that a comparison reads are of tokens.
Readable(Token) == Files \subseteq Seq(Seq(Token))

\* The files have the same number of lines of their own and differ in one,
\* which is shown in full.
OneLineChanged(was, becomes) ==
    /\ Len(Own(was)) = Len(Own(becomes))
    /\ \E i \in DOMAIN Own(was) :
          /\ Own(was)[i] # Own(becomes)[i]
          /\ Len(Own(was)[i]) <= MaxLineLength
          /\ Len(Own(becomes)[i]) <= MaxLineLength
          /\ \A k \in DOMAIN Own(was) \ {i} : Own(was)[k] = Own(becomes)[k]

\* A change of one line that is shown changes the lines and their hash.
LEMMA LineChangeCounts ==
    ASSUME NEW Token, Readable(Token),
           NEW was \in Files \cup {NoFile}, NEW becomes \in Files \cup {NoFile},
           OneLineChanged(was, becomes)
    PROVE  Lines(was) # Lines(becomes) /\ Hash(was) # Hash(becomes)
<1> DEFINE s == Lines(was)
           t == Lines(becomes)
           u == Own(was)
           v == Own(becomes)
<1>1. /\ u \in Seq(Seq(Token)) /\ v \in Seq(Seq(Token))
      /\ s \in Seq(Kept(Token)) /\ t \in Seq(Kept(Token))
      /\ Len(s) = Len(u) /\ Len(t) = Len(v)
      /\ \A k \in 1..Len(u) : s[k] = Trim(u[k])
      /\ \A k \in 1..Len(v) : t[k] = Trim(v[k])
  BY LinesAreOwn DEF Readable
<1>2. PICK i \in DOMAIN u :
          /\ u[i] # v[i]
          /\ Len(u[i]) <= MaxLineLength /\ Len(v[i]) <= MaxLineLength
          /\ \A k \in DOMAIN u \ {i} : u[k] = v[k]
  BY DEF OneLineChanged
<1>3. Len(u) = Len(v)
  BY DEF OneLineChanged
<1>4. was # NoFile /\ becomes # NoFile
  <2> SUFFICES ASSUME was = NoFile \/ becomes = NoFile PROVE FALSE
    OBVIOUS
  <2>1. Len(s) = 0 \/ Len(t) = 0
    BY DEF Lines
  <2> HIDE DEF s, t, u, v
  <2> QED
    BY <1>1, <1>2, <1>3, <2>1
<1> HIDE DEF s, t, u, v
<1>5. i \in 1..Len(u) /\ i \in 1..Len(s) /\ i \in 1..Len(v)
  BY <1>1, <1>2, <1>3
<1>6. s[i] # t[i]
  <2>1. u[i] \in Seq(Token) /\ v[i] \in Seq(Token)
    BY <1>1, <1>5
  <2>2. Trim(u[i]) = u[i] /\ Trim(v[i]) = v[i]
    BY <1>2, <2>1, TrimKeeps
  <2> QED
    BY <1>1, <1>2, <1>5, <2>2
<1>7. \A k \in 1..Len(s) : k # i => s[k] = t[k]
  BY <1>1, <1>2, <1>3
<1>8. JoinedUpTo(s)[Len(s)] # JoinedUpTo(t)[Len(t)]
  <2> DEFINE All == Token \cup {"omitted " \o ToString(n) : n \in Nat}
  <2>1. s \in Seq(Seq(All)) /\ t \in Seq(Seq(All))
    BY <1>1 DEF Kept
  <2>2. Len(s) = Len(t)
    BY <1>1, <1>3
  <2> HIDE DEF All
  <2> QED
    BY <1>5, <1>6, <1>7, <2>1, <2>2, JoinedApart
<1>9. Hash(was) # Hash(becomes)
  BY <1>4, <1>8 DEF Hash, s, t
<1> QED
  BY <1>6, <1>9 DEF s, t

-----------------------------------------------------------------------------
(* The invariant.                                                          *)

\* As long as no file failed, what lies behind the comparison has been read in
\* full and what it had to report is among the results.
ComparedInv ==
    /\ old \in [Names -> Files \cup {NoFile}]
    /\ new \in [Names -> Files \cup {NoFile}]
    /\ todo \subseteq Names
    /\ status # "error" =>
          \A name \in Names \ todo :
              /\ Scannable(old[name]) /\ Scannable(new[name])
              /\ EvalDiffs(name) \subseteq results
    /\ status = "done" => todo = {}
    /\ status = "error" => results = {}

\* The comparison keeps that.
LEMMA Compared == Spec => []ComparedInv
<1>1. Init => ComparedInv
  <2> SUFFICES ASSUME Init PROVE ComparedInv
    OBVIOUS
  <2>1. \A name \in Names \ todo : old[name] = NoFile /\ new[name] = NoFile
    BY DEF Init
  <2>2. \A name \in Names \ todo :
            /\ Scannable(old[name]) /\ Scannable(new[name])
            /\ EvalDiffs(name) \subseteq results
    BY <2>1 DEF Scannable, EvalDiffs
  <2> QED
    BY <2>2 DEF Init, ComparedInv
<1>2. ComparedInv /\ [Next]_vars => ComparedInv'
  <2> SUFFICES ASSUME ComparedInv, [Next]_vars PROVE ComparedInv'
    OBVIOUS
  <2>1. ASSUME old' = old, new' = new
        PROVE  \A name : EvalDiffs(name)' = EvalDiffs(name)
    BY <2>1 DEF EvalDiffs
  <2>2. CASE CompareNext
    <3>1. /\ status = "running" /\ status' = status
          /\ old' = old /\ new' = new
      BY <2>2 DEF CompareNext
    <3>2. PICK name \in todo :
              /\ Scannable(old[name]) /\ Scannable(new[name])
              /\ results' = results \cup EvalDiffs(name)
              /\ todo' = todo \ {name}
      BY <2>2 DEF CompareNext
    <3>3. \A other \in Names \ todo' :
              /\ Scannable(old[other]) /\ Scannable(new[other])
              /\ EvalDiffs(other) \subseteq results'
      BY <3>1, <3>2 DEF ComparedInv
    <3>4. \A other \in Names \ todo' :
              /\ Scannable(old'[other]) /\ Scannable(new'[other])
              /\ EvalDiffs(other)' \subseteq results'
      BY <2>1, <3>1, <3>3
    <3> QED
      BY <3>1, <3>2, <3>4 DEF ComparedInv
  <2>3. CASE ReadFails
    BY <2>3 DEF ReadFails, ComparedInv
  <2>4. CASE Return \/ UNCHANGED vars
    <3>1. /\ old' = old /\ new' = new /\ todo' = todo /\ results' = results
          /\ status' = "error" => status = "error"
          /\ status = "error" => status' = "error"
          /\ status' = "done" => todo = {}
      BY <2>4 DEF Return, vars, ComparedInv
    <3>2. \A name : EvalDiffs(name)' = EvalDiffs(name)
      BY <2>1, <3>1
    <3> QED
      BY <3>1, <3>2 DEF ComparedInv
  <2> QED
    BY <2>2, <2>3, <2>4 DEF Next
<1> QED
  BY <1>1, <1>2, PTL DEF Spec

\* What is reported differs in lines of its own.
ResultsInv ==
    \A result \in results :
        /\ result.name \in Names
        /\ Own(old[result.name]) # Own(new[result.name])

\* The comparison keeps that, whatever tokens the files are made of.
LEMMA ResultsDiffer ==
    ASSUME NEW Token, Readable(Token)
    PROVE  Spec => []ResultsInv
<1>1. Init => ResultsInv
  BY DEF Init, ResultsInv
<1>2. ComparedInv /\ ResultsInv /\ [Next]_vars => ResultsInv'
  <2> SUFFICES ASSUME ComparedInv, ResultsInv, [Next]_vars PROVE ResultsInv'
    OBVIOUS
  <2>1. CASE CompareNext
    <3>1. old' = old /\ new' = new
      BY <2>1 DEF CompareNext
    <3>2. PICK name \in todo : results' = results \cup EvalDiffs(name)
      BY <2>1 DEF CompareNext
    <3>3. ASSUME NEW result \in EvalDiffs(name)
          PROVE  /\ result.name \in Names
                 /\ Own(old[result.name]) # Own(new[result.name])
      <4>1. result.name = name /\ Lines(old[name]) # Lines(new[name])
        BY <3>3 DEF EvalDiffs
      <4>2. /\ name \in Names
            /\ old[name] \in Files \cup {NoFile}
            /\ new[name] \in Files \cup {NoFile}
        BY DEF ComparedInv
      <4>3. Own(old[name]) # Own(new[name])
        BY <4>1, <4>2, OwnDecides DEF Readable
      <4> QED
        BY <4>1, <4>2, <4>3
    <3> QED
      BY <3>1, <3>2, <3>3 DEF ResultsInv
  <2>2. CASE ReadFails
    BY <2>2 DEF ReadFails, ResultsInv
  <2>3. CASE Return \/ UNCHANGED vars
    BY <2>3 DEF Return, vars, ResultsInv
  <2> QED
    BY <2>1, <2>2, <2>3 DEF Next
<1> QED
  BY <1>1, <1>2, Compared, PTL DEF Spec

-----------------------------------------------------------------------------
(* The theorems.                                                           *)

\* A comparison that is done has read every file in full, and one that failed
\* reports nothing: the error returns of DiffKube and evalDiffs leave no plan
\* that looks complete.
THEOREM ComparesAllOrFails == Spec => []CompleteOrFailed
<1>1. ComparedInv => CompleteOrFailed
  BY DEF ComparedInv, CompleteOrFailed
<1> QED
  BY <1>1, Compared, PTL

\* What is reported differs outside the fields that the server manages,
\* however the managed fields of the two files differ, at any length: the loop
\* of getFileLines drops these lines and no other.
THEOREM DiffsAreNotSpurious ==
    ASSUME NEW Token, Readable(Token)
    PROVE  Spec => []NoSpuriousDiff
<1>1. ResultsInv => NoSpuriousDiff
  BY DEF ResultsInv, NoSpuriousDiff, Reported
<1> QED
  BY <1>1, ResultsDiffer, PTL

\* The change of a single line that is short enough to be shown is reported,
\* wherever it stands in files of any length: the hash of evalDiffs, which
\* runs the lines together, cannot miss it.
THEOREM LineChangesAreReported ==
    ASSUME NEW Token, Readable(Token)
    PROVE  Spec => []LineChangeReported
<1>1. ComparedInv => LineChangeReported
  <2> SUFFICES ASSUME ComparedInv, status = "done", NEW name \in Names,
                      OneLineChanged(old[name], new[name])
               PROVE  Reported(name)
    BY DEF LineChangeReported, OneLineChanged
  <2>1. EvalDiffs(name) \subseteq results
    BY DEF ComparedInv
  <2>2. /\ old[name] \in Files \cup {NoFile}
        /\ new[name] \in Files \cup {NoFile}
    BY DEF ComparedInv
  <2>3. /\ Lines(old[name]) # Lines(new[name])
        /\ Hash(old[name]) # Hash(new[name])
    BY <2>2, LineChangeCounts
  <2>4. \E result \in EvalDiffs(name) : result.name = name
    BY <2>3 DEF EvalDiffs
  <2> QED
    BY <2>1, <2>4 DEF Reported
<1> QED
  BY <1>1, Compared, PTL
=============================================================================
