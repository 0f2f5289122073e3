-------------------------- MODULE PtySidecarProofs --------------------------
(***************************************************************************)
(* Theorems about PtySidecar, for rollouts of any number of pieces and     *)
(* lines split in any way.                                                 *)
(***************************************************************************)
EXTENDS PtySidecar, Induction, FiniteSetTheorems, SequenceTheorems, TLAPS

Pieces == Entries \cup {Partial}
Tails == Entries \cup {Partial, None}

Writes(piece) == \E next \in Tails : CodexWrites(piece, next)

\* The pieces among the first n that end a line.
Enders(n) == {i \in 1..n : Ends(i)}

-----------------------------------------------------------------------------
(* Counting lines. *)

LEMMA CountType ==
  ASSUME NEW n \in Nat
  PROVE  LinesIn(n) \in Nat /\ IsFiniteSet(Enders(n)) /\ LinesIn(n) = Cardinality(Enders(n))
<1>1. IsFiniteSet(1..n) /\ Enders(n) \in SUBSET (1..n)
  BY FS_Interval DEF Enders
<1>2. IsFiniteSet(Enders(n))
  BY <1>1, FS_Subset
<1>3. LinesIn(n) = Cardinality(Enders(n))
  BY DEF LinesIn, Enders
<1>4. QED BY <1>2, <1>3, FS_CardinalityType

LEMMA NoLines == LinesIn(0) = 0
<1>1. Enders(0) = {}
  BY DEF Enders
<1>2. QED BY <1>1, CountType, FS_EmptySet

LEMMA CountGrows ==
  ASSUME NEW n \in Nat, NEW m \in 0..n
  PROVE  LinesIn(m) <= LinesIn(n)
<1>1. Enders(m) \in SUBSET Enders(n)
  BY DEF Enders
<1>2. QED BY <1>1, CountType, FS_Subset

\* The piece that ends a line adds one, the others none.
LEMMA CountStep ==
  ASSUME NEW n \in Nat, n # 0
  PROVE  LinesIn(n) = LinesIn(n - 1) + (IF Ends(n) THEN 1 ELSE 0)
<1>1. n - 1 \in Nat
  OBVIOUS
<1>2. CASE Ends(n)
  <2>1. Enders(n) = Enders(n - 1) \cup {n} /\ n \notin Enders(n - 1)
    BY <1>1, <1>2 DEF Enders
  <2>2. QED BY <1>1, <1>2, <2>1, CountType, FS_AddElement
<1>3. CASE ~Ends(n)
  <2>1. Enders(n) = Enders(n - 1)
    BY <1>1, <1>3 DEF Enders
  <2>2. QED BY <1>1, <1>3, <2>1, CountType
<1>4. QED BY <1>2, <1>3

\* Two pieces that end a line end different ones.
LEMMA CountStrict ==
  ASSUME NEW n \in Nat, NEW m \in 0..n, m # n, Ends(n)
  PROVE  LinesIn(m) < LinesIn(n)
<1>1. n - 1 \in Nat /\ m \in 0..n - 1 /\ n # 0
  OBVIOUS
<1>2. LinesIn(m) <= LinesIn(n - 1)
  BY <1>1, CountGrows
<1>3. LinesIn(n) = LinesIn(n - 1) + 1
  BY <1>1, CountStep
<1>4. QED BY <1>1, <1>2, <1>3, CountType

LEMMA CountSame ==
  ASSUME NEW n \in Nat, NEW m \in 0..n, \A i \in m + 1..n : ~Ends(i)
  PROVE  LinesIn(m) = LinesIn(n)
<1>1. Enders(m) = Enders(n)
  BY DEF Enders
<1>2. QED BY <1>1, CountType

\* Every line among the first n pieces has a piece that ends it.
LEMMA LineEnds ==
  ASSUME NEW n \in Nat, NEW k \in 1..LinesIn(n)
  PROVE  \E i \in 1..n : Ends(i) /\ LinesIn(i) = k
<1> DEFINE T == 1..LinesIn(n)
           f == [i \in Enders(n) |-> LinesIn(i)]
<1>1. LinesIn(n) \in Nat /\ IsFiniteSet(T) /\ Cardinality(T) = LinesIn(n)
  BY CountType, FS_Interval
<1>2. ASSUME NEW i \in Enders(n) PROVE LinesIn(i) \in T
  <2>1. i \in Nat /\ i \in 0..n /\ 0 \in 0..i /\ i # 0 /\ Ends(i)
    BY DEF Enders
  <2>2. LinesIn(i) <= LinesIn(n) /\ LinesIn(0) < LinesIn(i)
    BY <2>1, CountGrows, CountStrict
  <2>3. QED BY <1>1, <2>1, <2>2, NoLines, CountType
<1>3. ASSUME NEW i \in Enders(n), NEW j \in Enders(n), LinesIn(i) = LinesIn(j)
      PROVE  i = j
  <2>1. i \in Nat /\ j \in Nat /\ Ends(i) /\ Ends(j)
    BY DEF Enders
  <2>2. CASE i < j
    <3>1. i \in 0..j /\ i # j
      BY <2>1, <2>2
    <3>2. LinesIn(i) < LinesIn(j)
      BY <2>1, <3>1, CountStrict
    <3>3. QED BY <1>3, <2>1, <3>2, CountType
  <2>3. CASE j < i
    <3>1. j \in 0..i /\ i # j
      BY <2>1, <2>3
    <3>2. LinesIn(j) < LinesIn(i)
      BY <2>1, <3>1, CountStrict
    <3>3. QED BY <1>3, <2>1, <3>2, CountType
  <2>4. QED BY <2>1, <2>2, <2>3
<1>4. f \in Injection(Enders(n), T)
  BY <1>2, <1>3 DEF Injection, IsInjective
<1>5. f \in Surjection(Enders(n), T)
  BY <1>1, <1>4, CountType, FS_Injection
<1>6. PICK i \in Enders(n) : LinesIn(i) = k
  BY <1>5 DEF Surjection
<1>7. QED BY <1>6 DEF Enders

\* The piece that ends a line is the last of it, and tells its entry.
LEMMA EndOfLine ==
  ASSUME NEW e \in 1..Len(file), Len(file) \in Nat, Ends(e)
  PROVE  /\ LinesIn(e) \in 1..Complete
         /\ EndOf(LinesIn(e)) = e /\ Lines[LinesIn(e)] = file[e]
         /\ Max(Line(LinesIn(e))) = e
<1>1. /\ e \in Nat /\ e # 0 /\ e \in 0..Len(file) /\ e - 1 \in Nat
  OBVIOUS
<1>2. LinesIn(e) = LinesIn(e - 1) + 1 /\ LinesIn(e) <= Complete
  BY <1>1, CountStep, CountGrows DEF Complete
<1>3. LinesIn(e) \in 1..Complete
  BY <1>1, <1>2, CountType DEF Complete
<1>4. ASSUME NEW i \in 1..Len(file), Ends(i), LinesIn(i) = LinesIn(e) PROVE i = e
  <2>1. i \in Nat
    OBVIOUS
  <2>2. CASE i < e
    <3>1. i \in 0..e /\ i # e
      BY <2>2
    <3>2. LinesIn(i) < LinesIn(e)
      BY <1>1, <3>1, CountStrict
    <3>3. QED BY <1>1, <1>4, <2>1, <3>2, CountType
  <2>3. CASE e < i
    <3>1. e \in 0..i /\ i # e
      BY <2>3
    <3>2. LinesIn(e) < LinesIn(i)
      BY <1>4, <2>1, <3>1, CountStrict
    <3>3. QED BY <1>1, <1>4, <2>1, <3>2, CountType
  <2>4. QED BY <1>1, <2>2, <2>3
<1>5. EndOf(LinesIn(e)) = e
  BY <1>4 DEF EndOf
<1>6. e \in Line(LinesIn(e))
  BY <1>1, <1>2, CountType DEF Line
<1>7. ASSUME NEW i \in Line(LinesIn(e)) PROVE i <= e
  <2>1. i \in 1..Len(file) /\ LinesIn(i - 1) = LinesIn(e) - 1 /\ i - 1 \in Nat
    BY DEF Line
  <2>2. CASE i > e
    <3>1. e \in 0..i - 1
      BY <1>1, <2>1, <2>2
    <3>2. LinesIn(e) <= LinesIn(i - 1)
      BY <2>1, <3>1, CountGrows
    <3>3. QED BY <1>1, <2>1, <3>2, CountType
  <2>3. QED BY <1>1, <2>1, <2>2
<1>8. Max(Line(LinesIn(e))) = e
  <2>1. Line(LinesIn(e)) \subseteq Nat
    BY DEF Line
  <2>2. \A x \in Line(LinesIn(e)) : (\A y \in Line(LinesIn(e)) : x >= y) => x = e
    BY <1>6, <1>7, <2>1, <1>1
  <2>3. \A y \in Line(LinesIn(e)) : e >= y
    BY <1>1, <1>7, <2>1
  <2>4. QED BY <1>6, <2>2, <2>3 DEF Max
<1>9. QED BY <1>3, <1>5, <1>8 DEF Lines

\* The same of one file, to be used before and after a step.
Counting ==
  /\ \A n \in Nat : LinesIn(n) \in Nat
  /\ \A n \in Nat : n # 0 => LinesIn(n) = LinesIn(n - 1) + (IF Ends(n) THEN 1 ELSE 0)
  /\ Len(file) \in Nat =>
       \A e \in 1..Len(file) : Ends(e) =>
         LinesIn(e) \in 1..Complete /\ Lines[LinesIn(e)] = file[e]

LEMMA Counted == Counting
BY CountType, CountStep, EndOfLine DEF Counting

\* What codex writes leaves the lines before it as they are.
LEMMA WriteKeepsLines ==
  ASSUME file \in Seq(Pieces), NEW piece \in Pieces, file' = Append(file, piece),
         NEW len \in Nat, len = Len(file)
  PROVE  /\ Len(file') = Len(file) + 1
         /\ file' \in Seq(Pieces) /\ file'[Len(file) + 1] = piece
         /\ \A i \in 1..Len(file) : file'[i] = file[i]
         /\ \A n \in 0..Len(file) : LinesIn(n)' = LinesIn(n)
         /\ Complete <= Complete'
         /\ \A k \in Nat : {i \in Line(k)' : i <= Len(file)} = Line(k)
         /\ \A k \in 1..Complete : Line(k)' = Line(k) /\ Lines'[k] = Lines[k]
<1>1. /\ Len(file') = Len(file) + 1
      /\ file' \in Seq(Pieces) /\ file'[Len(file) + 1] = piece
      /\ \A i \in 1..Len(file) : file'[i] = file[i]
  BY AppendProperties
<1>2. ASSUME NEW n \in 0..Len(file) PROVE LinesIn(n)' = LinesIn(n)
  <2>1. {i \in 1..n : Ends(i)'} = {i \in 1..n : Ends(i)}
    BY <1>1 DEF Ends
  <2>2. QED BY <2>1 DEF LinesIn
<1>3. Counting'
  BY Counted, PTL
<1>4. Complete <= Complete' /\ Complete \in Nat
  <2>1. LinesIn(len)' = Complete
    BY <1>1, <1>2 DEF Complete
  <2>2. LinesIn(len + 1)' >= LinesIn(len)'
    <3>1. len + 1 \in Nat /\ len + 1 # 0 /\ (len + 1) - 1 = len
      OBVIOUS
    <3>2. \A n \in Nat : n # 0 =>
            LinesIn(n)' = LinesIn(n - 1)' + (IF Ends(n)' THEN 1 ELSE 0)
      BY <1>3 DEF Counting
    <3>3. LinesIn(len)' \in Nat
      BY <1>3 DEF Counting
    <3>4. LinesIn(len + 1)' = LinesIn(len)' + (IF Ends(len + 1)' THEN 1 ELSE 0)
      BY <3>1, <3>2
    <3>5. QED BY <3>3, <3>4
  <2>3. Complete' = LinesIn(len + 1)'
    BY <1>1 DEF Complete
  <2>4. QED BY <1>1, <2>1, <2>2, <2>3, CountType DEF Complete
<1>5. ASSUME NEW k \in Nat PROVE {i \in Line(k)' : i <= Len(file)} = Line(k)
  <2>1. \A i \in 1..len : i - 1 \in 0..len /\ LinesIn(i - 1)' = LinesIn(i - 1)
    BY <1>1, <1>2
  <2>2. Line(k)' = {i \in 1..len + 1 : LinesIn(i - 1)' = k - 1}
    BY <1>1 DEF Line
  <2>3. QED BY <1>1, <2>1, <2>2 DEF Line
<1>6. ASSUME NEW k \in 1..Complete PROVE Line(k)' = Line(k) /\ Lines'[k] = Lines[k]
  <2>1. Line(k)' = Line(k)
    <3>1. Line(k)' \subseteq 1..len + 1
      BY <1>1 DEF Line
    <3>2. len + 1 \notin Line(k)'
      <4>1. LinesIn(len)' # k - 1
        BY <1>1, <1>2, <1>4 DEF Complete
      <4>2. (len + 1) - 1 = len
        BY <1>1
      <4>3. Line(k)' = {i \in 1..len + 1 : LinesIn(i - 1)' = k - 1}
        BY <1>1 DEF Line
      <4>4. QED BY <4>1, <4>2, <4>3
    <3>3. \A i \in Line(k)' : i <= len
      BY <1>1, <3>1, <3>2
    <3>4. k \in Nat
      BY <1>4
    <3>5. {i \in Line(k)' : i <= Len(file)} = Line(k)'
      BY <3>3
    <3>6. QED BY <1>5, <3>4, <3>5
  <2>2. PICK e \in 1..len : Ends(e) /\ LinesIn(e) = k
    BY LineEnds DEF Complete
  <2>3. Lines[k] = file[e]
    BY <1>1, <2>2, EndOfLine
  <2>4. e \in 1..Len(file') /\ Ends(e)' /\ LinesIn(e)' = k /\ file'[e] = file[e]
    BY <1>1, <1>2, <2>2 DEF Ends
  <2>5. Lines'[k] = file'[e]
    <3>1. Len(file') \in Nat
      BY <1>1
    <3>2. \A i \in 1..Len(file') : Ends(i)' => Lines'[LinesIn(i)'] = file'[i]
      BY <1>3, <3>1 DEF Counting
    <3>3. QED BY <2>4, <3>2
  <2>6. QED BY <2>1, <2>3, <2>4, <2>5
<1>7. QED BY <1>1, <1>2, <1>4, <1>5, <1>6

\* Reading the next line: it is the one after those read.
LEMMA NextLine ==
  ASSUME file \in Seq(Pieces), offset \in 0..Len(file), existing \in 0..Len(file),
         pending = {i \in Line(LinesIn(offset) + 1) : i <= offset},
         NEW end \in offset + 1..Len(file), Ends(end),
         \A i \in offset + 1..end - 1 : ~Ends(i)
  PROVE  /\ LinesIn(offset) \in Nat /\ LinesIn(existing) \in Nat
         /\ LinesIn(end) = LinesIn(offset) + 1
         /\ LinesIn(end) \in 1..Complete
         /\ Lines[LinesIn(end)] = file[end]
         /\ Line(LinesIn(end)) = KeepPending(end)
         /\ PostsLine(end) <=> LinesIn(end) > LinesIn(existing)
         /\ {i \in Line(LinesIn(end) + 1) : i <= end} = {}
<1>1. Len(file) \in Nat /\ offset \in Nat /\ existing \in Nat /\ end \in Nat
  BY LenProperties
<1>2. end - 1 \in Nat /\ offset \in 0..end - 1 /\ end # 0 /\ end \in 1..Len(file)
  BY <1>1
<1>3. LinesIn(end - 1) = LinesIn(offset)
  BY <1>2, CountSame
<1>4. LinesIn(end) = LinesIn(offset) + 1 /\ LinesIn(offset) \in Nat /\ LinesIn(existing) \in Nat
  BY <1>1, <1>2, <1>3, CountStep, CountType
<1>5. LinesIn(end) \in 1..Complete /\ Lines[LinesIn(end)] = file[end]
  BY <1>1, <1>2, EndOfLine
<1>6. ASSUME NEW i \in 1..Len(file)
      PROVE  /\ i \in offset + 1..end => LinesIn(i - 1) = LinesIn(offset)
             /\ i > end => LinesIn(i - 1) >= LinesIn(end)
             /\ i <= end => LinesIn(i - 1) <= LinesIn(offset)
             /\ LinesIn(i - 1) \in Nat
  <2>1. i - 1 \in Nat
    OBVIOUS
  <2>2. CASE i \in offset + 1..end
    <3>1. offset \in 0..i - 1 /\ \A j \in offset + 1..i - 1 : ~Ends(j)
      BY <1>1, <2>2
    <3>2. LinesIn(offset) = LinesIn(i - 1)
      BY <2>1, <3>1, CountSame
    <3>3. QED BY <1>1, <1>4, <2>1, <2>2, <3>2, CountType
  <2>3. CASE i > end
    <3>1. end \in 0..i - 1
      BY <1>1, <2>3
    <3>2. LinesIn(end) <= LinesIn(i - 1)
      BY <2>1, <3>1, CountGrows
    <3>3. QED BY <1>1, <2>1, <2>3, <3>2, CountType
  <2>4. CASE i <= offset
    <3>1. i - 1 \in 0..offset
      BY <1>1, <2>4
    <3>2. LinesIn(i - 1) <= LinesIn(offset)
      BY <1>1, <3>1, CountGrows
    <3>3. QED BY <1>1, <1>2, <2>1, <2>4, <3>2, CountType
  <2>5. QED BY <1>1, <2>2, <2>3, <2>4
<1>7. Line(LinesIn(end)) = KeepPending(end)
  <2>1. \A i \in Line(LinesIn(end)) : i \in 1..Len(file) /\ i <= end
    BY <1>1, <1>4, <1>6 DEF Line
  <2>2. offset + 1..end \subseteq Line(LinesIn(end))
    <3>1. \A i \in offset + 1..end :
            i \in 1..Len(file) /\ LinesIn(i - 1) = LinesIn(offset)
      <4>1. \A i \in offset + 1..end : i \in 1..Len(file)
        BY <1>1
      <4>2. QED BY <1>6, <4>1
    <3>2. LinesIn(offset) = LinesIn(end) - 1
      BY <1>4
    <3>3. QED BY <3>1, <3>2 DEF Line
  <2>3. pending = {i \in Line(LinesIn(end)) : i <= offset}
    BY <1>4
  <2>4. QED BY <1>1, <2>1, <2>2, <2>3 DEF KeepPending
<1>8. PostsLine(end) <=> LinesIn(end) > LinesIn(existing)
  <2>1. CASE end > existing
    <3>1. existing \in 0..end - 1
      BY <1>1, <2>1
    <3>2. LinesIn(existing) <= LinesIn(offset)
      BY <1>2, <1>3, <3>1, CountGrows
    <3>3. QED BY <1>4, <2>1, <3>2 DEF PostsLine
  <2>2. CASE ~(end > existing)
    <3>1. end \in 0..existing
      BY <1>1, <2>2
    <3>2. LinesIn(end) <= LinesIn(existing)
      BY <1>1, <3>1, CountGrows
    <3>3. QED BY <1>4, <2>2, <3>2 DEF PostsLine
  <2>3. QED BY <2>1, <2>2
<1>9. {i \in Line(LinesIn(end) + 1) : i <= end} = {}
  <2>1. \A i \in Line(LinesIn(end) + 1) : i \in 1..Len(file) /\ LinesIn(i - 1) = LinesIn(end)
    BY <1>4 DEF Line
  <2>2. QED BY <1>4, <1>6, <2>1
<1>10. QED BY <1>4, <1>5, <1>7, <1>8, <1>9

\* Reading to the end of the file without one.
LEMMA UnfinishedLine ==
  ASSUME file \in Seq(Pieces), offset \in 0..Len(file),
         pending = {i \in Line(LinesIn(offset) + 1) : i <= offset},
         \A i \in offset + 1..Len(file) : ~Ends(i)
  PROVE  /\ LinesIn(offset) = Complete
         /\ KeepPending(Len(file)) = {i \in Line(Complete + 1) : i <= Len(file)}
<1>1. Len(file) \in Nat /\ offset \in Nat
  BY LenProperties
<1>2. LinesIn(offset) = Complete /\ Complete \in Nat
  BY <1>1, CountSame, CountType DEF Complete
<1>3. ASSUME NEW i \in offset + 1..Len(file) PROVE i \in Line(Complete + 1)
  <2>1. i - 1 \in Nat /\ offset \in 0..i - 1 /\ \A j \in offset + 1..i - 1 : ~Ends(j)
    BY <1>1
  <2>2. LinesIn(i - 1) = Complete
    BY <1>2, <2>1, CountSame
  <2>3. QED BY <1>1, <1>2, <2>2 DEF Line
<1>4. \A i \in Line(Complete + 1) : i \in 1..Len(file)
  BY DEF Line
<1>5. QED BY <1>1, <1>2, <1>3, <1>4 DEF KeepPending
-----------------------------------------------------------------------------
(* Type correctness, and that no output is written before its call. *)

Events ==
  {Called} \cup [kind : {"output"}, named : BOOLEAN]
    \cup [kind : {"turn"}, error : BOOLEAN, usage : Nat]
Postings == [line : SUBSET Nat, event : Events]

\* An output has its call before it, and no other output.
OutputsFollowCalls ==
  \A i \in 1..Len(file) : file[i] = "output" =>
    /\ \E j \in 1..i - 1 : file[j] = "call"
    /\ \A j \in 1..i - 1 : file[j] # "output"

TypeInv ==
  /\ TypeOK
  /\ state.usage \in 0..offset
  /\ posted \in Seq(Postings)
  /\ pc \in {"find", "wait"} => offset = 0
  /\ pc = "done" => stop
  /\ OutputsFollowCalls

LEMMA PartialIsNoEntry == Partial \notin Entries /\ None \notin Entries /\ None # Partial
BY DEF Partial, None, Entries

\* A piece leaves no unfinished line when it ends one.
LEMMA TailOf ==
  ASSUME NEW before, NEW t, NEW piece, NEW next, MayFollow(before, t, piece, next)
  PROVE  /\ next \in Tails
         /\ next = None <=> piece # Partial
         /\ piece = "output" => CodexMayWrite(before, "output")
BY PartialIsNoEntry DEF MayFollow, Whole, Tails, Entries, Partial, None

LEMMA TypeInit == Init => TypeInv
<1> SUFFICES ASSUME Init PROVE TypeInv
  OBVIOUS
<1>0. PICK n \in 0..MaxEarlier : \E tails \in [0..n -> Tails] :
        /\ file \in [1..n -> Pieces] /\ tail = tails[n] /\ tails[0] = None
        /\ \A i \in 1..n :
             MayFollow(SubSeq(file, 1, i - 1), tails[i - 1], file[i], tails[i])
  BY DEF Init, Pieces, Tails
<1>1. PICK tails \in [0..n -> Tails] :
        /\ file \in [1..n -> Pieces] /\ tail = tails[n] /\ tails[0] = None
        /\ \A i \in 1..n :
             MayFollow(SubSeq(file, 1, i - 1), tails[i - 1], file[i], tails[i])
  BY <1>0
<1>2. n \in Nat /\ n <= MaxPieces
  BY <1>1, SidecarAssumption
<1>3. file \in Seq(Pieces) /\ Len(file) = n
  BY <1>1, <1>2
<1>4. Complete \in Nat /\ LinesIn(0) = 0
  BY <1>2, <1>3, CountType, NoLines DEF Complete
<1>5. {i \in Line(LinesIn(0) + 1) : i <= 0} = {}
  BY <1>2, <1>3 DEF Line
<1>6. state.named \in BOOLEAN /\ state.usage = 0
  BY DEF Init, NewReader
<1>7. TypeOK
  <2>1. file \in Seq(Entries \cup {Partial}) /\ Len(file) <= MaxPieces
    BY <1>2, <1>3 DEF Pieces
  <2>2. /\ resumed \in BOOLEAN /\ stop = FALSE /\ stopping = FALSE /\ pc = "find"
        /\ existing = 0 /\ offset = 0 /\ pending = {} /\ posted = <<>> /\ atStop = 0
    BY DEF Init
  <2>3. 0 \in 0..Len(file) /\ 0 \in 0..Complete
    BY <1>2, <1>3, <1>4
  <2>4. pending = {i \in Line(LinesIn(offset) + 1) : i <= offset}
    BY <1>5, <2>2
  <2>5. \A m \in DOMAIN posted : posted[m].line \subseteq 1..Len(file)
    BY <2>2
  <2>6. tail \in Tails /\ (tail = None <=> file = <<>> \/ Ends(Len(file)))
    <3>1. CASE n = 0
      BY <1>1, <1>3, <3>1 DEF Tails
    <3>2. CASE n # 0
      <4>1. n \in 1..n
        BY <1>2, <3>2
      <4>2. tails[n] \in Tails /\ (tails[n] = None <=> file[n] # Partial)
        BY <1>1, <4>1, TailOf
      <4>3. QED BY <1>1, <1>3, <3>2, <4>2 DEF Ends
    <3>3. QED BY <3>1, <3>2
  <2>7. QED BY <1>6, <2>1, <2>2, <2>3, <2>4, <2>5, <2>6 DEF TypeOK, Tails
<1>8. OutputsFollowCalls
  <2> SUFFICES ASSUME NEW i \in 1..Len(file), file[i] = "output"
               PROVE  /\ \E j \in 1..i - 1 : file[j] = "call"
                      /\ \A j \in 1..i - 1 : file[j] # "output"
    BY DEF OutputsFollowCalls
  <2> DEFINE before == SubSeq(file, 1, i - 1)
  <2>1. CodexMayWrite(before, "output")
    BY <1>1, <1>3, TailOf
  <2>2. Len(before) = i - 1 /\ DOMAIN before = 1..i - 1
          /\ \A j \in 1..i - 1 : before[j] = file[j]
    <3>1. i \in Nat /\ i - 1 \in 0..Len(file)
      BY <1>2, <1>3
    <3>2. QED BY <1>3, <3>1, SubSeqProperties
  <2>3. QED BY <2>1, <2>2 DEF CodexMayWrite
<1>9. posted \in Seq(Postings)
  BY DEF Init
<1>10. QED BY <1>6, <1>7, <1>8, <1>9 DEF Init, TypeInv

LEMMA WriteType ==
  ASSUME TypeInv, NEW piece \in Pieces, Writes(piece)
  PROVE  TypeInv'
<1> USE DEF reader
<1>1. PICK len \in Nat : len = Len(file)
  BY LenProperties DEF TypeInv, TypeOK
<1>2. file \in Seq(Pieces) /\ file' = Append(file, piece)
  BY DEF TypeInv, TypeOK, Writes, CodexWrites, Pieces
<1>3. /\ Len(file') = len + 1
      /\ file' \in Seq(Pieces) /\ file'[len + 1] = piece
      /\ \A i \in 1..len : file'[i] = file[i]
      /\ \A n \in 0..len : LinesIn(n)' = LinesIn(n)
      /\ Complete <= Complete'
      /\ \A k \in Nat : {i \in Line(k)' : i <= len} = Line(k)
  BY <1>1, <1>2, WriteKeepsLines
<1>4. UNCHANGED <<resumed, pc, stop, existing, offset, pending, stopping, state, posted, atStop>>
  BY DEF Writes, CodexWrites
<1>5. offset \in 0..len /\ existing \in 0..len
  BY <1>1 DEF TypeInv, TypeOK
<1>6. LinesIn(offset)' = LinesIn(offset) /\ LinesIn(offset) + 1 \in Nat
  <2>1. LinesIn(offset)' = LinesIn(offset)
    BY <1>3, <1>4, <1>5
  <2>2. QED BY <1>5, <2>1, CountType
<1>7. pending' = {i \in Line(LinesIn(offset) + 1)' : i <= offset'}
  <2>1. PICK k \in Nat : k = LinesIn(offset) + 1
    BY <1>6
  <2>2. Line(k)' \subseteq 1..len + 1
    BY <1>3 DEF Line
  <2>3. {i \in Line(k)' : i <= offset} = {i \in Line(k) : i <= offset}
    BY <1>3, <1>5, <2>2
  <2>4. Line(LinesIn(offset) + 1)' = Line(k)'
    BY <1>6, <2>1 DEF Line
  <2>5. pending = {i \in Line(k) : i <= offset}
    BY <2>1 DEF TypeInv, TypeOK
  <2>6. QED BY <1>4, <2>3, <2>4, <2>5
<1>8. Complete \in Nat /\ Complete' \in Nat
  <2>1. Complete \in Nat
    BY <1>1, CountType DEF Complete
  <2>2. Counting'
    BY Counted, PTL
  <2>3. QED BY <1>3, <2>1, <2>2 DEF Counting, Complete
<1>9. atStop' \in 0..Complete'
  BY <1>3, <1>4, <1>8 DEF TypeInv, TypeOK
<1>10. TypeOK'
  <2>1. len + 1 <= MaxPieces
    BY <1>1, SidecarAssumption DEF Writes, CodexWrites
  <2>2. \A n \in DOMAIN posted : posted[n].line \subseteq 1..len + 1
    BY <1>1 DEF TypeInv, TypeOK
  <2>3. /\ existing \in 0..len + 1 /\ offset \in 0..len + 1 /\ state.usage \in 0..len + 1
        /\ state.named \in BOOLEAN
    BY <1>1, <1>5 DEF TypeInv, TypeOK
  <2>4. file' \in Seq(Entries \cup {Partial})
    BY <1>3 DEF Pieces
  <2>5. /\ resumed' \in BOOLEAN /\ stop' \in BOOLEAN /\ stopping' \in BOOLEAN
        /\ pc' \in {"find", "wait", "read", "eof", "done", "failed"}
        /\ stopping' => stop'
    BY <1>4 DEF TypeInv, TypeOK
  <2>6. tail' \in Tails /\ (tail' = None <=> file' = <<>> \/ Ends(Len(file))')
    <3>1. PICK next \in Tails : MayFollow(file, tail, piece, next) /\ tail' = next
      BY DEF Writes, CodexWrites
    <3>2. next = None <=> piece # Partial
      BY <3>1, TailOf
    <3>3. file' # <<>> /\ (Ends(Len(file))' <=> piece # Partial)
      BY <1>3 DEF Ends
    <3>4. QED BY <3>1, <3>2, <3>3
  <2>7. QED BY <1>3, <1>4, <1>7, <1>9, <2>1, <2>2, <2>3, <2>4, <2>5, <2>6
            DEF TypeOK, Tails
<1>11. OutputsFollowCalls'
  <2> SUFFICES ASSUME NEW i \in 1..len + 1, file'[i] = "output"
               PROVE  /\ \E j \in 1..i - 1 : file'[j] = "call"
                      /\ \A j \in 1..i - 1 : file'[j] # "output"
    BY <1>3 DEF OutputsFollowCalls
  <2>1. CASE i \in 1..len
    <3>1. \A j \in 1..i - 1 : j \in 1..len
      BY <2>1
    <3>2. QED BY <1>1, <1>3, <2>1, <3>1 DEF TypeInv, OutputsFollowCalls
  <2>2. CASE i = len + 1
    <3>1. DOMAIN file = 1..len /\ i - 1 = len
      BY <1>1, <1>2, <2>2
    <3>2. CodexMayWrite(file, "output")
      BY <1>3, <2>2, TailOf DEF Writes, CodexWrites
    <3>3. (\E j \in 1..len : file[j] = "call") /\ \A j \in 1..len : file[j] # "output"
      BY <3>1, <3>2 DEF CodexMayWrite
    <3>4. QED BY <1>3, <3>1, <3>3
  <2>3. QED BY <1>1, <2>1, <2>2
<1>12. QED BY <1>4, <1>10, <1>11 DEF TypeInv

\* The event of an entry, when it has one.
LEMMA EventsType ==
  ASSUME NEW r, r.named \in BOOLEAN, r.usage \in Nat, NEW e \in Entries
  PROVE  /\ EventsOf(r, e) = <<>> <=> e \in {"usage", "unreadable"}
         /\ e \notin {"usage", "unreadable"} =>
              \E ev \in Events : EventsOf(r, e) = <<ev>>
         /\ ReaderAfter(r, e).named \in BOOLEAN
         /\ ReaderAfter(r, e).usage \in 0..r.usage + 1
<1>1. ReaderAfter(r, e).named \in BOOLEAN /\ ReaderAfter(r, e).usage \in 0..r.usage + 1
  BY DEF ReaderAfter, UsageAfter
<1>2. CASE e = "call"
  BY <1>1, <1>2 DEF EventsOf, Events
<1>3. CASE e = "output"
  BY <1>1, <1>3 DEF EventsOf, Events, ToolResult
<1>4. CASE e = "complete"
  <2>1. EventsOf(r, e) = <<TurnResult(FALSE, r.usage)>>
    BY <1>4 DEF EventsOf
  <2>2. TurnResult(FALSE, r.usage) \in Events
    BY DEF TurnResult, Events
  <2>3. PICK ev \in Events : EventsOf(r, e) = <<ev>>
    BY <2>1, <2>2
  <2>4. <<ev>> # <<>>
    OBVIOUS
  <2>5. QED BY <1>1, <1>4, <2>3, <2>4
<1>5. CASE e = "aborted"
  <2>1. EventsOf(r, e) = <<TurnResult(TRUE, r.usage)>>
    BY <1>5 DEF EventsOf
  <2>2. TurnResult(TRUE, r.usage) \in Events
    BY DEF TurnResult, Events
  <2>3. PICK ev \in Events : EventsOf(r, e) = <<ev>>
    BY <2>1, <2>2
  <2>4. <<ev>> # <<>>
    OBVIOUS
  <2>5. QED BY <1>1, <1>5, <2>3, <2>4
<1>6. CASE e \in {"usage", "unreadable"}
  BY <1>1, <1>6 DEF EventsOf
<1>7. QED BY <1>2, <1>3, <1>4, <1>5, <1>6 DEF Entries

\* What is posted of a line.
LEMMA ReadPosts ==
  ASSUME TypeInv, NEW end \in offset + 1..Len(file), Ends(end),
         posted' =
            IF PostsLine(end)
            THEN posted \o [n \in DOMAIN EventsOf(state, file[end]) |->
                   [line |-> KeepPending(end), event |-> EventsOf(state, file[end])[n]]]
            ELSE posted
  PROVE  IF PostsLine(end) /\ file[end] \notin {"usage", "unreadable"}
         THEN \E ev \in Events :
                /\ EventsOf(state, file[end]) = <<ev>>
                /\ posted' = Append(posted, [line |-> KeepPending(end), event |-> ev])
                /\ [line |-> KeepPending(end), event |-> ev] \in Postings
         ELSE posted' = posted
<1>1. /\ file \in Seq(Pieces) /\ end \in 1..Len(file) /\ posted \in Seq(Postings)
      /\ state.named \in BOOLEAN /\ state.usage \in Nat /\ offset \in Nat
      /\ Len(file) \in Nat
  BY LenProperties DEF TypeInv, TypeOK, Pieces
<1>2. file[end] \in Entries
  BY <1>1 DEF Ends, Pieces
<1>3. KeepPending(end) \subseteq Nat
  <2>1. pending \subseteq Nat
    BY DEF TypeInv, TypeOK, Line
  <2>2. QED BY <1>1, <2>1 DEF KeepPending
<1>4. CASE ~PostsLine(end)
  BY <1>4
<1>5. CASE PostsLine(end) /\ file[end] \in {"usage", "unreadable"}
  <2>1. EventsOf(state, file[end]) = <<>>
    BY <1>1, <1>2, <1>5, EventsType
  <2>2. posted' = posted \o <<>>
    <3>1. [n \in DOMAIN <<>> |-> [line |-> KeepPending(end), event |-> <<>>[n]]] = <<>>
      OBVIOUS
    <3>2. QED BY <1>5, <2>1, <3>1
  <2>3. QED BY <1>1, <1>5, <2>2, ConcatEmptySeq
<1>6. CASE PostsLine(end) /\ file[end] \notin {"usage", "unreadable"}
  <2>1. PICK ev \in Events : EventsOf(state, file[end]) = <<ev>>
    BY <1>1, <1>2, <1>6, EventsType
  <2> DEFINE p == [line |-> KeepPending(end), event |-> ev]
  <2>2. p \in Postings
    BY <1>3 DEF Postings
  <2>3. [n \in DOMAIN <<ev>> |-> [line |-> KeepPending(end), event |-> <<ev>>[n]]] = <<p>>
    OBVIOUS
  <2>4. posted' = posted \o <<p>>
    BY <1>6, <2>1, <2>3
  <2>5. posted \o <<p>> = Append(posted, p)
    BY <1>1, <2>2, AppendIsConcat
  <2>6. QED BY <1>6, <2>1, <2>2, <2>4, <2>5
<1>7. QED BY <1>4, <1>5, <1>6

\* A step that neither writes nor reads.
Quiet ==
  \/ Stop \/ OpenResumed \/ FindNew \/ WaitStopped \/ WaitExpires
  \/ ReadFails \/ SeeStop \/ PauseExpires \/ UNCHANGED vars

LEMMA QuietStep ==
  ASSUME TypeInv, Quiet
  PROVE  /\ UNCHANGED <<file, tail, offset, pending, state, posted>>
         /\ existing' = existing \/ (offset = 0 /\ existing' = Len(file))
         /\ atStop' = atStop \/ (~stop /\ stop' /\ pc' = pc /\ atStop' = Complete)
         /\ pc' = "done" => pc = "done" \/ offset = 0
BY DEF Quiet, TypeInv, Stop, OpenResumed, FindNew, WaitStopped, WaitExpires, ReadFails,
   SeeStop, PauseExpires, vars, reader

LEMMA QuietType ==
  ASSUME TypeInv, Quiet
  PROVE  TypeInv'
<1> USE DEF reader, vars
<1>1. UNCHANGED <<file, tail, offset, pending, state, posted>>
  BY QuietStep
<1>2. Len(file) \in Nat /\ Complete \in Nat
  <2>1. Len(file) \in Nat
    BY LenProperties DEF TypeInv, TypeOK
  <2>2. QED BY <2>1, CountType DEF Complete
<1>3. existing' \in 0..Len(file)
  BY <1>2, QuietStep DEF TypeInv, TypeOK
<1>4. Complete' = Complete /\ \A n \in Nat : LinesIn(n)' = LinesIn(n)
  BY <1>1 DEF Complete, LinesIn, Ends
<1>5. atStop' \in 0..Complete'
  BY <1>2, <1>4, QuietStep DEF TypeInv, TypeOK
<1>6. /\ resumed' = resumed /\ stop' \in BOOLEAN /\ stopping' \in BOOLEAN
      /\ pc' \in {"find", "wait", "read", "eof", "done", "failed"}
      /\ stopping' => stop'
      /\ pc' = "done" => stop'
      /\ pc' \in {"find", "wait"} => pc \in {"find", "wait"}
  <2>0. /\ stop \in BOOLEAN /\ stopping \in BOOLEAN /\ (stopping => stop)
        /\ pc \in {"find", "wait", "read", "eof", "done", "failed"}
        /\ pc = "done" => stop
    BY DEF TypeInv, TypeOK
  <2>1. CASE Stop
    BY <2>0, <2>1 DEF Stop
  <2>2. CASE OpenResumed \/ FindNew
    BY <2>0, <2>2 DEF OpenResumed, FindNew
  <2>3. CASE WaitStopped \/ WaitExpires
    BY <2>0, <2>3 DEF WaitStopped, WaitExpires
  <2>4. CASE ReadFails
    BY <2>0, <2>4 DEF ReadFails
  <2>5. CASE SeeStop
    BY <2>0, <2>5 DEF SeeStop
  <2>6. CASE PauseExpires
    BY <2>0, <2>6 DEF PauseExpires
  <2>7. CASE UNCHANGED vars
    BY <2>0, <2>7
  <2>8. QED BY <2>1, <2>2, <2>3, <2>4, <2>5, <2>6, <2>7 DEF Quiet
<1>7. pending' = {i \in Line(LinesIn(offset) + 1)' : i <= offset'}
  <2>1. Line(LinesIn(offset) + 1)' = Line(LinesIn(offset) + 1)
    BY <1>1 DEF Line, LinesIn, Ends
  <2>2. QED BY <1>1, <2>1 DEF TypeInv, TypeOK
<1>8. TypeOK'
  BY <1>1, <1>3, <1>5, <1>6, <1>7 DEF TypeInv, TypeOK, Ends
<1>9. OutputsFollowCalls'
  BY <1>1 DEF TypeInv, OutputsFollowCalls
<1>10. QED BY <1>1, <1>6, <1>8, <1>9 DEF TypeInv

\* What ReadLine reads.
LEMMA ReadLineStep ==
  ASSUME TypeInv, ReadLine
  PROVE  \E end \in offset + 1..Len(file) :
           /\ Ends(end) /\ file[end] \in Entries /\ end \in Nat
           /\ \A i \in offset + 1..end - 1 : ~Ends(i)
           /\ state' = ReaderAfter(state, file[end])
           /\ offset' = end
           /\ LinesIn(offset) \in Nat /\ LinesIn(existing) \in Nat
           /\ LinesIn(end) = LinesIn(offset) + 1
           /\ LinesIn(end) \in 1..Complete
           /\ Lines[LinesIn(end)] = file[end]
           /\ Line(LinesIn(end)) = KeepPending(end)
           /\ PostsLine(end) <=> LinesIn(end) > LinesIn(existing)
           /\ {i \in Line(LinesIn(end) + 1) : i <= end} = {}
           /\ IF PostsLine(end) /\ file[end] \notin {"usage", "unreadable"}
              THEN \E ev \in Events :
                     /\ EventsOf(state, file[end]) = <<ev>>
                     /\ posted' = Append(posted, [line |-> KeepPending(end), event |-> ev])
                     /\ [line |-> KeepPending(end), event |-> ev] \in Postings
              ELSE posted' = posted
<1>1. PICK end \in offset + 1..Len(file) :
       /\ Ends(end) /\ \A i \in offset + 1..end - 1 : ~Ends(i)
       /\ state' = ReaderAfter(state, file[end])
       /\ posted' =
            IF PostsLine(end)
            THEN posted \o [n \in DOMAIN EventsOf(state, file[end]) |->
                   [line |-> KeepPending(end), event |-> EventsOf(state, file[end])[n]]]
            ELSE posted
       /\ offset' = end
  BY DEF ReadLine, StateAfterLine
<1>2. /\ file \in Seq(Pieces) /\ offset \in 0..Len(file) /\ existing \in 0..Len(file)
      /\ pending = {i \in Line(LinesIn(offset) + 1) : i <= offset}
  BY DEF TypeInv, TypeOK, Pieces
<1>3. end \in Nat /\ end \in 1..Len(file)
  BY <1>1, <1>2, LenProperties
<1>4. file[end] \in Entries
  BY <1>1, <1>2, <1>3 DEF Ends, Pieces
<1>5. /\ LinesIn(offset) \in Nat /\ LinesIn(existing) \in Nat
      /\ LinesIn(end) = LinesIn(offset) + 1
      /\ LinesIn(end) \in 1..Complete
      /\ Lines[LinesIn(end)] = file[end]
      /\ Line(LinesIn(end)) = KeepPending(end)
      /\ PostsLine(end) <=> LinesIn(end) > LinesIn(existing)
      /\ {i \in Line(LinesIn(end) + 1) : i <= end} = {}
  BY <1>1, <1>2, NextLine
<1>6. IF PostsLine(end) /\ file[end] \notin {"usage", "unreadable"}
      THEN \E ev \in Events :
             /\ EventsOf(state, file[end]) = <<ev>>
             /\ posted' = Append(posted, [line |-> KeepPending(end), event |-> ev])
             /\ [line |-> KeepPending(end), event |-> ev] \in Postings
      ELSE posted' = posted
  BY <1>1, ReadPosts
<1>7. QED BY <1>1, <1>3, <1>4, <1>5, <1>6

\* The file and so its lines are the same after reading.
LEMMA SameFile ==
  ASSUME UNCHANGED file
  PROVE  /\ Complete' = Complete /\ Lines' = Lines
         /\ \A n : LinesIn(n)' = LinesIn(n)
         /\ \A k : Line(k)' = Line(k)
BY DEF Complete, Lines, LinesIn, Line, Ends, EndOf

LEMMA ReadLineType ==
  ASSUME TypeInv, ReadLine
  PROVE  TypeInv'
<1>1. UNCHANGED <<file, tail, resumed, pc, stop, existing, stopping, atStop>> /\ pending' = {}
        /\ pc = "read"
  BY DEF ReadLine
<1>2. PICK end \in offset + 1..Len(file) :
           /\ Ends(end) /\ file[end] \in Entries /\ end \in Nat
           /\ state' = ReaderAfter(state, file[end])
           /\ offset' = end
           /\ Line(LinesIn(end)) = KeepPending(end)
           /\ {i \in Line(LinesIn(end) + 1) : i <= end} = {}
           /\ IF PostsLine(end) /\ file[end] \notin {"usage", "unreadable"}
              THEN \E ev \in Events :
                     /\ posted' = Append(posted, [line |-> KeepPending(end), event |-> ev])
                     /\ [line |-> KeepPending(end), event |-> ev] \in Postings
              ELSE posted' = posted
  BY ReadLineStep
<1>3. Len(file) \in Nat /\ offset \in Nat
  BY LenProperties DEF TypeInv, TypeOK
<1>4. end \in 0..Len(file) /\ offset < end
  BY <1>2, <1>3
<1>5. state'.named \in BOOLEAN /\ state'.usage \in 0..end
  <2>1. state.named \in BOOLEAN /\ state.usage \in Nat /\ state.usage <= offset
    BY <1>3 DEF TypeInv, TypeOK
  <2>2. state'.named \in BOOLEAN /\ state'.usage \in 0..state.usage + 1
    BY <1>2, <2>1, EventsType
  <2>3. QED BY <1>2, <1>3, <1>4, <2>1, <2>2
<1>6. pending' = {i \in Line(LinesIn(offset) + 1)' : i <= offset'}
  <2>1. PICK k : k = LinesIn(end) + 1
    OBVIOUS
  <2>2. Line(LinesIn(offset) + 1)' = Line(k)
    BY <1>1, <1>2, <2>1 DEF Line, LinesIn, Ends
  <2>3. QED BY <1>1, <1>2, <2>1, <2>2
<1>7. KeepPending(end) \subseteq 1..Len(file)
  BY <1>2 DEF Line
<1>8. posted' \in Seq(Postings) /\ \A n \in DOMAIN posted' : posted'[n].line \subseteq 1..Len(file)
  <2>1. posted \in Seq(Postings) /\ \A n \in DOMAIN posted : posted[n].line \subseteq 1..Len(file)
    BY DEF TypeInv, TypeOK
  <2>2. CASE posted' = posted
    BY <2>1, <2>2
  <2>3. CASE \E ev \in Events :
               /\ posted' = Append(posted, [line |-> KeepPending(end), event |-> ev])
               /\ [line |-> KeepPending(end), event |-> ev] \in Postings
    <3>1. PICK ev \in Events :
               /\ posted' = Append(posted, [line |-> KeepPending(end), event |-> ev])
               /\ [line |-> KeepPending(end), event |-> ev] \in Postings
      BY <2>3
    <3>2. /\ posted' \in Seq(Postings) /\ Len(posted') = Len(posted) + 1
          /\ \A n \in 1..Len(posted) : posted'[n] = posted[n]
          /\ posted'[Len(posted) + 1].line = KeepPending(end)
          /\ DOMAIN posted = 1..Len(posted) /\ DOMAIN posted' = 1..Len(posted) + 1
          /\ Len(posted) \in Nat
      BY <2>1, <3>1, AppendProperties
    <3>3. ASSUME NEW n \in DOMAIN posted' PROVE posted'[n].line \subseteq 1..Len(file)
      <4>1. n \in 1..Len(posted) \/ n = Len(posted) + 1
        BY <3>2
      <4>2. QED BY <1>7, <2>1, <3>2, <4>1
    <3>4. QED BY <3>2, <3>3
  <2>4. QED BY <1>2, <2>2, <2>3
<1>9. TypeOK'
  <2>1. Complete' = Complete
    BY <1>1, SameFile
  <2>2. state'.usage \in 0..Len(file)
    BY <1>3, <1>4, <1>5
  <2>3. QED BY <1>1, <1>2, <1>4, <1>5, <1>6, <1>8, <2>1, <2>2 DEF TypeInv, TypeOK, Ends
<1>10. OutputsFollowCalls'
  BY <1>1 DEF TypeInv, OutputsFollowCalls
<1>11. QED BY <1>1, <1>2, <1>5, <1>8, <1>9, <1>10 DEF TypeInv

LEMMA ReadEOFStep ==
  ASSUME TypeInv, ReadEOF
  PROVE  /\ UNCHANGED <<file, tail, resumed, stop, existing, stopping, state, posted,
                        atStop>>
         /\ offset' = Len(file) /\ Len(file) \in Nat /\ LinesIn(offset) = Complete
         /\ \A i \in offset + 1..Len(file) : file[i] = Partial
         /\ pending' = {i \in Line(Complete + 1) : i <= Len(file)}
         /\ pc' \in {"done", "eof"} /\ (pc' = "done" => stopping)
<1>1. file \in Seq(Pieces) /\ offset \in 0..Len(file)
        /\ pending = {i \in Line(LinesIn(offset) + 1) : i <= offset}
  BY DEF TypeInv, TypeOK, Pieces
<1>2. QED BY <1>1, UnfinishedLine, LenProperties DEF ReadEOF, Ends

LEMMA ReadEOFType ==
  ASSUME TypeInv, ReadEOF
  PROVE  TypeInv'
<1>1. /\ UNCHANGED <<file, tail, resumed, stop, existing, stopping, state, posted,
                        atStop>>
      /\ offset' = Len(file) /\ Len(file) \in Nat
      /\ pending' = {i \in Line(Complete + 1) : i <= Len(file)}
      /\ pc' \in {"done", "eof"} /\ (pc' = "done" => stopping)
  BY ReadEOFStep
<1>2. Complete' = Complete
  BY <1>1, SameFile
<1>3. pending' = {i \in Line(LinesIn(offset) + 1)' : i <= offset'}
  <2>1. PICK k : k = Complete + 1
    OBVIOUS
  <2>2. Line(LinesIn(offset) + 1)' = Line(k)
    BY <1>1, <2>1 DEF Line, LinesIn, Ends, Complete
  <2>3. QED BY <1>1, <2>1, <2>2
<1>4. offset' \in 0..Len(file) /\ state.usage \in 0..offset'
  BY <1>1 DEF TypeInv, TypeOK
<1>5. TypeOK'
  BY <1>1, <1>2, <1>3, <1>4 DEF TypeInv, TypeOK, Ends
<1>6. QED BY <1>1, <1>4, <1>5 DEF TypeInv, TypeOK, OutputsFollowCalls

LEMMA TypeNext == TypeInv /\ [Next]_vars => TypeInv'
BY WriteType, QuietType, ReadLineType, ReadEOFType DEF Next, Sidecar, Quiet, Pieces,
   Tails, Writes

\* Every reachable state of PtySidecar is of its type: in particular what the
\* sidecar holds back are the pieces of the unfinished line it has read.
THEOREM TypeCorrect == Spec => []TypeOK
<1>1. TypeInv => TypeOK
  BY DEF TypeInv
<1>2. QED BY <1>1, TypeInit, TypeNext, PTL DEF Spec

\* A sidecar that was stopped ends only after a pass that began after the stop, so
\* it has read every line complete then, whatever codex goes on writing.
THEOREM LastLinesAlwaysRead == Spec => []LastLinesRead
<1>1. Init => LastLinesRead
  BY DEF Init, LastLinesRead
<1>2. TypeInv /\ LastLinesRead /\ [Next]_vars => LastLinesRead'
  <2> SUFFICES ASSUME TypeInv, LastLinesRead, [Next]_vars, pc' = "done", offset' > 0
               PROVE  LinesIn(offset)' >= atStop'
    BY DEF LastLinesRead
  <2>0. Len(file) \in Nat /\ offset \in 0..Len(file) /\ atStop \in 0..Complete
    BY LenProperties DEF TypeInv, TypeOK
  <2>1. CASE Quiet
    <3>1. pc = "done" /\ offset > 0 /\ stop /\ atStop' = atStop
      BY <2>0, <2>1, QuietStep DEF TypeInv
    <3>2. LinesIn(offset)' = LinesIn(offset)
      BY <2>1, QuietStep DEF LinesIn, Ends
    <3>3. QED BY <3>1, <3>2 DEF LastLinesRead
  <2>2. CASE ReadLine
    BY <2>2 DEF ReadLine
  <2>3. CASE ReadEOF
    <3>1. UNCHANGED <<file, atStop>> /\ offset' = Len(file)
      BY <2>3, ReadEOFStep
    <3>2. LinesIn(offset)' = Complete
      BY <3>1 DEF Complete, LinesIn, Ends
    <3>3. Complete \in Nat
      BY <2>0, CountType DEF Complete
    <3>4. QED BY <2>0, <3>1, <3>2, <3>3
  <2>4. ASSUME NEW piece \in Pieces, Writes(piece) PROVE LinesIn(offset)' >= atStop'
    <3>1. UNCHANGED <<pc, offset, atStop>> /\ file' = Append(file, piece)
      BY <2>4 DEF Writes, CodexWrites, reader
    <3>2. file \in Seq(Pieces)
      BY DEF TypeInv, TypeOK, Pieces
    <3>3. PICK len \in Nat : len = Len(file)
      BY <2>0
    <3>4. \A n \in 0..Len(file) : LinesIn(n)' = LinesIn(n)
      BY <3>1, <3>2, <3>3, WriteKeepsLines
    <3>5. LinesIn(offset)' = LinesIn(offset)
      BY <2>0, <3>1, <3>4
    <3>6. QED BY <3>1, <3>5 DEF LastLinesRead
  <2>5. QED BY <2>1, <2>2, <2>3, <2>4 DEF Next, Sidecar, Quiet, Pieces,
   Tails, Writes
<1>3. QED BY <1>1, <1>2, TypeInit, TypeNext, PTL DEF Spec
-----------------------------------------------------------------------------
(* What is posted. *)

\* The lines to be posted among those complete in the first m pieces.
New(m) == {k \in LinesIn(existing) + 1..LinesIn(m) : Reported(k)}

LEMMA NewFinite ==
  ASSUME TypeInv
  PROVE  IsFiniteSet(New(offset)) /\ LinesIn(offset) \in Nat /\ LinesIn(existing) \in Nat
<1>1. offset \in Nat /\ existing \in Nat
  BY LenProperties DEF TypeInv, TypeOK
<1>2. LinesIn(offset) \in Nat /\ LinesIn(existing) \in Nat
  BY <1>1, CountType
<1>3. New(offset) \in SUBSET (LinesIn(existing) + 1..LinesIn(offset))
  BY DEF New
<1>4. IsFiniteSet(LinesIn(existing) + 1..LinesIn(offset))
  <2>1. LinesIn(existing) + 1 \in Int /\ LinesIn(offset) \in Int
    BY <1>2
  <2>2. QED BY <2>1, FS_Interval
<1>5. IsFiniteSet(New(offset))
  BY <1>3, <1>4, FS_Subset
<1>6. QED BY <1>2, <1>5

\* A step that posts nothing and leaves the lines to be posted as they are.
LEMMA SamePosted ==
  ASSUME PostedOnce, posted' = posted, New(offset)' = New(offset),
         \A k \in New(offset) : Line(k)' = Line(k)
  PROVE  PostedOnce'
<1>1. Len(posted) = Cardinality(New(offset))
  BY DEF PostedOnce, New
<1>2. \A n \in DOMAIN posted : \E k \in New(offset) :
        posted[n].line = Line(k) /\ n = Cardinality({j \in New(offset) : j <= k})
  BY DEF PostedOnce, New
<1>3. PICK new : new = New(offset)
  OBVIOUS
<1>4. /\ Len(posted') = Cardinality(new)
      /\ \A n \in DOMAIN posted' : \E k \in new :
           posted'[n].line = Line(k)' /\ n = Cardinality({j \in new : j <= k})
  BY <1>1, <1>2, <1>3
<1>5. new = {k \in LinesIn(existing)' + 1..LinesIn(offset)' : Reported(k)'}
  BY <1>3 DEF New
<1>6. QED BY <1>4, <1>5 DEF PostedOnce

LEMMA QuietPosted ==
  ASSUME TypeInv, PostedOnce, Quiet
  PROVE  PostedOnce'
<1>1. /\ UNCHANGED <<file, offset, posted>>
      /\ existing' = existing \/ (offset = 0 /\ existing' = Len(file))
  BY QuietStep
<1>2. \A k : Line(k)' = Line(k) /\ Reported(k)' = Reported(k)
  BY <1>1, SameFile DEF Reported
<1>3. CASE existing' = existing
  <2>1. New(offset)' = New(offset)
    BY <1>1, <1>2, <1>3 DEF New, LinesIn, Ends
  <2>2. QED BY <1>1, <1>2, <2>1, SamePosted
<1>4. CASE offset = 0 /\ existing' = Len(file)
  <2>1. New(offset) = {}
    <3>1. LinesIn(offset) = 0
      BY <1>4, NoLines
    <3>2. QED BY <3>1, NewFinite DEF New
  <2>2. LinesIn(offset)' = 0 /\ LinesIn(existing)' \in Nat
    <3>1. LinesIn(offset)' = LinesIn(offset)
      BY <1>1 DEF LinesIn, Ends
    <3>2. LinesIn(existing)' = Complete
      BY <1>1, <1>4 DEF Complete, LinesIn, Ends
    <3>3. Len(file) \in Nat
      BY LenProperties DEF TypeInv, TypeOK
    <3>4. QED BY <1>4, <3>1, <3>2, <3>3, NoLines, CountType DEF Complete
  <2>3. New(offset)' = {}
    BY <2>2 DEF New
  <2>4. QED BY <1>1, <2>1, <2>3, SamePosted
<1>5. QED BY <1>1, <1>3, <1>4

LEMMA ReadEOFPosted ==
  ASSUME TypeInv, PostedOnce, ReadEOF
  PROVE  PostedOnce'
<1>1. UNCHANGED <<file, existing, posted>> /\ offset' = Len(file) /\ LinesIn(offset) = Complete
  BY ReadEOFStep
<1>2. \A k : Line(k)' = Line(k) /\ Reported(k)' = Reported(k)
  BY <1>1, SameFile DEF Reported
<1>3. LinesIn(offset)' = LinesIn(offset) /\ LinesIn(existing)' = LinesIn(existing)
  BY <1>1 DEF LinesIn, Ends, Complete
<1>4. New(offset)' = New(offset)
  BY <1>2, <1>3 DEF New
<1>5. QED BY <1>1, <1>2, <1>4, SamePosted

LEMMA WritePosted ==
  ASSUME TypeInv, PostedOnce, NEW piece \in Pieces, Writes(piece)
  PROVE  PostedOnce'
<1>1. UNCHANGED <<existing, offset, posted>> /\ file' = Append(file, piece)
  BY DEF Writes, CodexWrites, reader
<1>2. PICK len \in Nat : len = Len(file)
  BY LenProperties DEF TypeInv, TypeOK
<1>3. file \in Seq(Pieces) /\ offset \in 0..len /\ existing \in 0..len
  BY <1>2 DEF TypeInv, TypeOK, Pieces
<1>4. /\ \A n \in 0..len : LinesIn(n)' = LinesIn(n)
      /\ \A k \in 1..Complete : Line(k)' = Line(k) /\ Lines'[k] = Lines[k]
  BY <1>1, <1>2, <1>3, WriteKeepsLines
<1>5. LinesIn(offset)' = LinesIn(offset) /\ LinesIn(existing)' = LinesIn(existing)
  BY <1>1, <1>3, <1>4
<1>6. LinesIn(offset) <= Complete /\ Complete \in Nat
  BY <1>2, <1>3, CountGrows, CountType DEF Complete
<1>7. \A k \in LinesIn(existing) + 1..LinesIn(offset) :
        Line(k)' = Line(k) /\ Reported(k)' = Reported(k)
  <2>1. \A k \in LinesIn(existing) + 1..LinesIn(offset) : k \in 1..Complete
    BY <1>6, NewFinite
  <2>2. QED BY <1>4, <2>1 DEF Reported
<1>8. New(offset)' = New(offset)
  BY <1>5, <1>7 DEF New
<1>9. QED BY <1>1, <1>7, <1>8, SamePosted DEF New

LEMMA ReadLinePosted ==
  ASSUME TypeInv, PostedOnce, ReadLine
  PROVE  PostedOnce'
<1>1. UNCHANGED <<file, existing>>
  BY DEF ReadLine
<1>2. PICK end \in offset + 1..Len(file) :
           /\ file[end] \in Entries /\ end \in Nat
           /\ offset' = end
           /\ LinesIn(end) = LinesIn(offset) + 1
           /\ Lines[LinesIn(end)] = file[end]
           /\ Line(LinesIn(end)) = KeepPending(end)
           /\ PostsLine(end) <=> LinesIn(end) > LinesIn(existing)
           /\ IF PostsLine(end) /\ file[end] \notin {"usage", "unreadable"}
              THEN \E ev \in Events :
                     /\ posted' = Append(posted, [line |-> KeepPending(end), event |-> ev])
                     /\ [line |-> KeepPending(end), event |-> ev] \in Postings
              ELSE posted' = posted
  BY ReadLineStep
<1>3. \A k : Line(k)' = Line(k) /\ Reported(k)' = Reported(k)
  BY <1>1, SameFile DEF Reported
<1>4. PICK k0 : k0 = LinesIn(end)
  OBVIOUS
<1>5. /\ LinesIn(offset)' = k0 /\ LinesIn(existing)' = LinesIn(existing)
      /\ k0 = LinesIn(offset) + 1 /\ LinesIn(offset) \in Nat /\ LinesIn(existing) \in Nat
  BY <1>1, <1>2, <1>4, NewFinite DEF LinesIn, Ends
<1>6. New(offset)' = {k \in LinesIn(existing) + 1..k0 : Reported(k)}
  BY <1>3, <1>5 DEF New
<1>7. Reported(k0) <=> file[end] \notin {"usage", "unreadable"}
  BY <1>2, <1>4 DEF Reported
<1>8. CASE ~(PostsLine(end) /\ file[end] \notin {"usage", "unreadable"})
  <2>1. ~(k0 > LinesIn(existing) /\ Reported(k0))
    BY <1>2, <1>4, <1>7, <1>8
  <2>2. New(offset)' = New(offset)
    BY <1>5, <1>6, <2>1 DEF New
  <2>3. posted' = posted
    BY <1>2, <1>8
  <2>4. QED BY <1>3, <2>2, <2>3, SamePosted
<1>9. CASE PostsLine(end) /\ file[end] \notin {"usage", "unreadable"}
  <2>1. PICK new : new = New(offset)
    OBVIOUS
  <2>2. New(offset)' = new \cup {k0} /\ k0 \notin new /\ \A k \in new : k \in Nat /\ k < k0
    BY <1>2, <1>4, <1>5, <1>6, <1>7, <1>9, <2>1 DEF New
  <2>3. PICK ev \in Events :
               /\ posted' = Append(posted, [line |-> Line(k0), event |-> ev])
               /\ [line |-> Line(k0), event |-> ev] \in Postings
    BY <1>2, <1>4, <1>9
  <2>4. /\ Len(posted) = Cardinality(new)
        /\ \A n \in DOMAIN posted : \E k \in new :
             posted[n].line = Line(k) /\ n = Cardinality({j \in new : j <= k})
    BY <2>1 DEF PostedOnce, New
  <2>5. IsFiniteSet(new) /\ Cardinality(new \cup {k0}) = Len(posted) + 1
    <3>1. IsFiniteSet(new)
      BY <2>1, NewFinite
    <3>2. Cardinality(new \cup {k0}) = Cardinality(new) + 1
      BY <2>2, <3>1, FS_AddElement
    <3>3. QED BY <2>4, <3>1, <3>2
  <2>6. /\ Len(posted') = Len(posted) + 1 /\ Len(posted) \in Nat
        /\ DOMAIN posted = 1..Len(posted) /\ DOMAIN posted' = 1..Len(posted) + 1
        /\ \A n \in 1..Len(posted) : posted'[n] = posted[n]
        /\ posted'[Len(posted) + 1].line = Line(k0)
    <3>1. posted \in Seq(Postings)
      BY DEF TypeInv
    <3>2. QED BY <2>3, <3>1, AppendProperties
  <2>7. ASSUME NEW n \in DOMAIN posted'
        PROVE  \E k \in new \cup {k0} :
                 /\ posted'[n].line = Line(k)
                 /\ n = Cardinality({j \in new \cup {k0} : j <= k})
    <3>1. CASE n = Len(posted) + 1
      <4>1. {j \in new \cup {k0} : j <= k0} = new \cup {k0}
        BY <1>5, <2>2
      <4>2. QED BY <2>5, <2>6, <3>1, <4>1
    <3>2. CASE n \in 1..Len(posted)
      <4>1. PICK k \in new : posted[n].line = Line(k) /\ n = Cardinality({j \in new : j <= k})
        BY <2>4, <2>6, <3>2
      <4>2. {j \in new \cup {k0} : j <= k} = {j \in new : j <= k}
        BY <1>5, <2>2
      <4>3. QED BY <2>6, <3>2, <4>1, <4>2
    <3>3. n \in 1..Len(posted) \/ n = Len(posted) + 1
      BY <2>6
    <3>4. QED BY <3>1, <3>2, <3>3
  <2>8. new \cup {k0} = {k \in LinesIn(existing)' + 1..LinesIn(offset)' : Reported(k)'}
    BY <2>2 DEF New
  <2>9. Len(posted') = Cardinality(new \cup {k0})
    BY <2>5, <2>6
  <2>10. \A n \in DOMAIN posted' : \E k \in new \cup {k0} :
           /\ posted'[n].line = Line(k)'
           /\ n = Cardinality({j \in new \cup {k0} : j <= k})
    BY <1>3, <2>7
  <2>11. QED BY <2>8, <2>9, <2>10 DEF PostedOnce
<1>10. QED BY <1>8, <1>9

\* Each line not complete when the file was opened is posted once, whole and in
\* order, and no line that was; however codex splits the lines and wherever the
\* sidecar's reads fall.
THEOREM AlwaysPostedOnce == Spec => []PostedOnce
<1>1. Init => PostedOnce
  <2> SUFFICES ASSUME Init PROVE PostedOnce
    OBVIOUS
  <2>1. LinesIn(offset) = 0 /\ LinesIn(existing) = 0 /\ posted = <<>>
    BY NoLines DEF Init
  <2>2. New(offset) = {}
    BY <2>1 DEF New
  <2>3. Cardinality(New(offset)) = 0
    BY <2>2, FS_EmptySet
  <2>4. QED BY <2>1, <2>3 DEF PostedOnce, New
<1>2. TypeInv /\ PostedOnce /\ [Next]_vars => PostedOnce'
  BY QuietPosted, ReadLinePosted, ReadEOFPosted, WritePosted DEF Next, Sidecar, Quiet, Pieces,
   Tails, Writes
<1>3. QED BY <1>1, <1>2, TypeInit, TypeNext, PTL DEF Spec
-----------------------------------------------------------------------------
(* What is posted of a line agrees with the lines before it, read before or  *)
(* after the file was opened: what the reader carries is true of them.       *)

NamesKnown ==
  /\ \E i \in 1..offset : file[i] = "call"
  /\ \A i \in 1..offset : file[i] # "output"
  => state.named

UsageKnown == state.usage = Cardinality(UsagesOfTurn(LinesIn(offset) + 1))

\* What may be said of the k-th line.
SaysOf(event, k) ==
  /\ event.kind = "output" => event.named
  /\ event.kind = "turn" => event.usage = Cardinality(UsagesOfTurn(k))

EventsInContext ==
  \A n \in DOMAIN posted : \E k \in 1..LinesIn(offset) :
    posted[n].line = Line(k) /\ SaysOf(posted[n].event, k)

ContextInv == NamesKnown /\ UsageKnown /\ EventsInContext

\* A step that reads no line.
LEMMA SameContext ==
  ASSUME TypeInv, ContextInv, UNCHANGED <<state, posted>>,
         LinesIn(offset)' = LinesIn(offset),
         \A k \in 1..LinesIn(offset) : Line(k)' = Line(k) /\ Lines'[k] = Lines[k],
         \A i \in 1..offset' : IF i <= offset THEN file'[i] = file[i] ELSE file'[i] = Partial,
         offset' \in Nat, offset <= offset'
  PROVE  ContextInv'
<1>1. NamesKnown'
  <2>1. Partial # "call"
    BY DEF Partial
  <2>2. offset \in Nat /\ offset' \in Nat
    BY LenProperties DEF TypeInv, TypeOK
  <2>3. \A i \in 1..offset : i \in 1..offset' /\ i <= offset
    BY <2>2
  <2>4. \A i \in 1..offset' : file'[i] = "call" => i \in 1..offset /\ file[i] = "call"
    BY <2>1, <2>2
  <2>5. \A i \in 1..offset : file'[i] = file[i]
    BY <2>3
  <2>6. QED BY <2>3, <2>4, <2>5 DEF ContextInv, NamesKnown
<1>2. LinesIn(offset) \in Nat
  BY NewFinite
<1>3. \A k \in 1..LinesIn(offset) + 1 : UsagesOfTurn(k)' = UsagesOfTurn(k)
  <2> SUFFICES ASSUME NEW k \in 1..LinesIn(offset) + 1
               PROVE  UsagesOfTurn(k)' = UsagesOfTurn(k)
    OBVIOUS
  <2>1. \A j \in 1..k - 1 : Lines'[j] = Lines[j]
    BY <1>2
  <2>2. \A j \in 1..k - 1 : \A i \in j..k - 1 : Lines'[i] = Lines[i]
    BY <1>2, <2>1
  <2>3. QED BY <2>1, <2>2 DEF UsagesOfTurn
<1>4. UsageKnown'
  <2>1. PICK k \in 1..LinesIn(offset) + 1 : k = LinesIn(offset) + 1
    BY <1>2
  <2>2. (UsagesOfTurn(LinesIn(offset) + 1))' = UsagesOfTurn(k)'
    BY <2>1 DEF UsagesOfTurn
  <2>3. QED BY <1>3, <2>1, <2>2 DEF ContextInv, UsageKnown
<1>5. EventsInContext'
  <2>1. PICK len \in Nat : len = LinesIn(offset)
    BY <1>2
  <2>2. \A k \in 1..len : Line(k)' = Line(k) /\ UsagesOfTurn(k)' = UsagesOfTurn(k)
    BY <1>3, <2>1
  <2>3. ASSUME NEW n \in DOMAIN posted
        PROVE  \E k \in 1..len : posted'[n].line = Line(k)' /\ SaysOf(posted[n].event, k)'
    <3>1. PICK k \in 1..len : posted[n].line = Line(k) /\ SaysOf(posted[n].event, k)
      BY <2>1 DEF ContextInv, EventsInContext
    <3>2. posted'[n].line = Line(k)'
      BY <2>2, <3>1
    <3>3. SaysOf(posted[n].event, k)'
      BY <2>2, <3>1 DEF SaysOf
    <3>4. QED BY <3>2, <3>3
  <2>4. 1..LinesIn(offset)' = 1..len
    BY <2>1
  <2>5. QED BY <2>3, <2>4 DEF EventsInContext
<1>6. QED BY <1>1, <1>4, <1>5 DEF ContextInv

LEMMA QuietContext ==
  ASSUME TypeInv, ContextInv, Quiet
  PROVE  ContextInv'
<1>1. UNCHANGED <<file, offset, state, posted>>
  BY QuietStep
<1>2. LinesIn(offset)' = LinesIn(offset)
  BY <1>1 DEF LinesIn, Ends
<1>3. offset \in Nat
  BY LenProperties DEF TypeInv, TypeOK
<1>4. QED BY <1>1, <1>2, <1>3, SameFile, SameContext

LEMMA ReadEOFContext ==
  ASSUME TypeInv, ContextInv, ReadEOF
  PROVE  ContextInv'
<1>1. /\ UNCHANGED <<file, state, posted>> /\ offset' = Len(file) /\ Len(file) \in Nat
      /\ LinesIn(offset) = Complete /\ \A i \in offset + 1..Len(file) : file[i] = Partial
  BY ReadEOFStep
<1>2. offset \in Nat /\ offset' \in Nat /\ offset <= offset'
  BY <1>1 DEF TypeInv, TypeOK
<1>3. LinesIn(offset)' = LinesIn(offset)
  BY <1>1 DEF LinesIn, Ends, Complete
<1>4. \A i \in 1..offset' : IF i <= offset THEN file'[i] = file[i] ELSE file'[i] = Partial
  BY <1>1, <1>2
<1>5. QED BY <1>1, <1>2, <1>3, <1>4, SameFile, SameContext

LEMMA WriteContext ==
  ASSUME TypeInv, ContextInv, NEW piece \in Pieces, Writes(piece)
  PROVE  ContextInv'
<1>1. UNCHANGED <<offset, state, posted>> /\ file' = Append(file, piece)
  BY DEF Writes, CodexWrites, reader
<1>2. PICK len \in Nat : len = Len(file)
  BY LenProperties DEF TypeInv, TypeOK
<1>3. file \in Seq(Pieces) /\ offset \in 0..len
  BY <1>2 DEF TypeInv, TypeOK, Pieces
<1>4. /\ \A i \in 1..len : file'[i] = file[i]
      /\ \A n \in 0..len : LinesIn(n)' = LinesIn(n)
      /\ \A k \in 1..Complete : Line(k)' = Line(k) /\ Lines'[k] = Lines[k]
  BY <1>1, <1>2, <1>3, WriteKeepsLines
<1>5. LinesIn(offset)' = LinesIn(offset)
  BY <1>1, <1>3, <1>4
<1>6. \A k \in 1..LinesIn(offset) : k \in 1..Complete
  <2>1. LinesIn(offset) <= Complete /\ Complete \in Nat /\ LinesIn(offset) \in Nat
    BY <1>2, <1>3, CountGrows, CountType DEF Complete
  <2>2. QED BY <2>1
<1>7. offset' \in Nat /\ offset <= offset' /\ \A i \in 1..offset' : i <= offset /\ file'[i] = file[i]
  <2>1. offset' = offset /\ offset \in Nat /\ offset <= len
    BY <1>1, <1>2, <1>3
  <2>2. \A i \in 1..offset : i \in 1..len /\ i <= offset
    BY <1>2, <2>1
  <2>3. QED BY <1>4, <2>1, <2>2
<1>8. QED BY <1>1, <1>4, <1>5, <1>6, <1>7, SameContext

\* Which line an event is of.
LEMMA OneEvent ==
  ASSUME NEW s, NEW e \in Entries, NEW ev, EventsOf(s, e) = <<ev>>
  PROVE  /\ ev.kind = "output" => e = "output" /\ ev = ToolResult(s.named)
         /\ ev.kind = "turn" => ev.usage = s.usage
<1>0. \A x, y : <<x>> = <<y>> => x = y
  OBVIOUS
<1>1. CASE e = "call"
  BY <1>1, <1>0 DEF EventsOf, Called
<1>2. CASE e = "output"
  <2>1. ev = ToolResult(s.named)
    BY <1>2, <1>0 DEF EventsOf
  <2>2. QED BY <1>2, <2>1 DEF ToolResult
<1>3. CASE e \in {"complete", "aborted"}
  <2>1. \E f : ev = TurnResult(f, s.usage)
    BY <1>3, <1>0 DEF EventsOf
  <2>2. QED BY <2>1 DEF TurnResult
<1>4. CASE e \notin {"call", "output", "complete", "aborted"}
  <2>1. EventsOf(s, e) = << >>
    BY <1>4 DEF EventsOf
  <2>2. <<ev>> # << >>
    OBVIOUS
  <2>3. QED BY <2>1, <2>2
<1>5. QED BY <1>1, <1>2, <1>3, <1>4

LEMMA ReadLineContext ==
  ASSUME TypeInv, ContextInv, ReadLine
  PROVE  ContextInv'
<1>1. UNCHANGED <<file, existing>>
  BY DEF ReadLine
<1>2. PICK end \in offset + 1..Len(file) :
           /\ file[end] \in Entries /\ end \in Nat
           /\ \A i \in offset + 1..end - 1 : ~Ends(i)
           /\ state' = ReaderAfter(state, file[end])
           /\ offset' = end
           /\ LinesIn(end) = LinesIn(offset) + 1
           /\ LinesIn(end) \in 1..Complete
           /\ Lines[LinesIn(end)] = file[end]
           /\ Line(LinesIn(end)) = KeepPending(end)
           /\ IF PostsLine(end) /\ file[end] \notin {"usage", "unreadable"}
              THEN \E ev \in Events :
                     /\ EventsOf(state, file[end]) = <<ev>>
                     /\ posted' = Append(posted, [line |-> KeepPending(end), event |-> ev])
                     /\ [line |-> KeepPending(end), event |-> ev] \in Postings
              ELSE posted' = posted
  BY ReadLineStep
<1>3. PICK k0 \in Nat : k0 = LinesIn(offset)
  BY NewFinite
<1>4. PICK e \in Entries : e = file[end]
  BY <1>2
<1>5. /\ offset \in Nat /\ Len(file) \in Nat /\ end \in 1..Len(file)
      /\ state.named \in BOOLEAN /\ state.usage \in Nat
  BY <1>2, LenProperties DEF TypeInv, TypeOK
<1>6. /\ Lines' = Lines /\ LinesIn(offset)' = k0 + 1 /\ Lines[k0 + 1] = e
      /\ \A k : Line(k)' = Line(k)
  <2>1. LinesIn(offset)' = LinesIn(end)
    BY <1>1, <1>2 DEF LinesIn, Ends
  <2>2. QED BY <1>1, <1>2, <1>3, <1>4, <2>1, SameFile
<1>7. \A k : UsagesOfTurn(k)' = UsagesOfTurn(k)
  BY <1>6 DEF UsagesOfTurn
<1>8. \A i \in 1..end : i <= offset \/ file[i] = Partial \/ i = end
  BY <1>2, <1>5 DEF Ends
<1>9. NamesKnown'
  <2> SUFFICES ASSUME NEW i \in 1..end, file[i] = "call",
                      \A j \in 1..end : file[j] # "output"
               PROVE  ReaderAfter(state, e).named
    BY <1>1, <1>2, <1>4 DEF NamesKnown
  <2>1. e # "output"
    BY <1>4, <1>5
  <2>2. CASE e = "call"
    BY <2>2 DEF ReaderAfter
  <2>3. CASE e # "call"
    <3>1. i \in 1..offset
      BY <1>4, <1>5, <1>8, <2>3 DEF Partial
    <3>2. \A j \in 1..offset : file[j] # "output"
      BY <1>2, <1>5
    <3>3. state.named
      BY <3>1, <3>2 DEF ContextInv, NamesKnown
    <3>4. QED BY <2>1, <3>3 DEF ReaderAfter
  <2>4. QED BY <2>2, <2>3
<1>10. IsFiniteSet(UsagesOfTurn(k0 + 1)) /\ state.usage = Cardinality(UsagesOfTurn(k0 + 1))
  <2>1. UsagesOfTurn(k0 + 1) \in SUBSET (1..k0)
    BY DEF UsagesOfTurn
  <2>2. IsFiniteSet(1..k0)
    BY FS_Interval
  <2>3. IsFiniteSet(UsagesOfTurn(k0 + 1))
    BY <2>1, <2>2, FS_Subset
  <2>4. QED BY <1>3, <2>3 DEF ContextInv, UsageKnown
<1>11. UsageKnown'
  <2> DEFINE Open(j) == \A i \in j..k0 : Lines[i] \notin {"complete", "aborted"}
             OpenNow(j) == \A i \in j..k0 + 1 : Lines[i] \notin {"complete", "aborted"}
  <2>1. UsagesOfTurn(k0 + 1) = {j \in 1..k0 : Lines[j] = "usage" /\ Open(j)}
    BY DEF UsagesOfTurn
  <2>2. UsagesOfTurn(k0 + 2) = {j \in 1..k0 + 1 : Lines[j] = "usage" /\ OpenNow(j)}
    <3>1. (k0 + 2) - 1 = k0 + 1
      OBVIOUS
    <3>2. QED BY <3>1 DEF UsagesOfTurn
  <2>3. \A j \in 1..k0 + 1 : OpenNow(j) <=> Open(j) /\ e \notin {"complete", "aborted"}
    <3>1. \A j \in 1..k0 + 1 : j..k0 + 1 = (j..k0) \cup {k0 + 1}
      OBVIOUS
    <3>2. QED BY <1>6, <3>1
  <2>4. Open(k0 + 1)
    BY <1>3
  <2> HIDE DEF Open, OpenNow
  <2>5. UsageAfter(state, e) = Cardinality(UsagesOfTurn(k0 + 2))
    <3>1. CASE e = "usage"
      <4>1. UsagesOfTurn(k0 + 2) = UsagesOfTurn(k0 + 1) \cup {k0 + 1}
              /\ k0 + 1 \notin UsagesOfTurn(k0 + 1)
        BY <1>6, <2>1, <2>2, <2>3, <2>4, <3>1
      <4>2. QED BY <1>10, <3>1, <4>1, FS_AddElement DEF UsageAfter
    <3>2. CASE e \in {"complete", "aborted"}
      <4>1. UsagesOfTurn(k0 + 2) = {}
        BY <2>2, <2>3, <3>2
      <4>2. QED BY <3>2, <4>1, FS_EmptySet DEF UsageAfter
    <3>3. CASE e \notin {"usage", "complete", "aborted"}
      <4>1. UsagesOfTurn(k0 + 2) = UsagesOfTurn(k0 + 1)
        <5>1. \A j \in 1..k0 + 1 : OpenNow(j) <=> Open(j)
          BY <2>3, <3>3
        <5>2. \A j \in 1..k0 + 1 : Lines[j] = "usage" => j \in 1..k0
          BY <1>6, <3>3
        <5>3. \A j \in 1..k0 : j \in 1..k0 + 1
          OBVIOUS
        <5>4. QED BY <2>1, <2>2, <5>1, <5>2, <5>3
      <4>2. QED BY <1>10, <3>3, <4>1 DEF UsageAfter
    <3>4. QED BY <3>1, <3>2, <3>3
  <2>6. state'.usage = UsageAfter(state, e)
    BY <1>2, <1>4 DEF ReaderAfter
  <2>7. (UsagesOfTurn(LinesIn(offset) + 1))' = UsagesOfTurn(k0 + 2)
    <3>1. PICK k : k = k0 + 2
      OBVIOUS
    <3>2. LinesIn(offset)' + 1 = k
      BY <1>6, <3>1
    <3>3. (UsagesOfTurn(LinesIn(offset) + 1))' = UsagesOfTurn(k)'
      BY <3>2 DEF UsagesOfTurn
    <3>4. QED BY <1>7, <3>1, <3>3
  <2>8. QED BY <2>5, <2>6, <2>7 DEF UsageKnown
<1>12. \A event, k : SaysOf(event, k)' <=> SaysOf(event, k)
  BY <1>7 DEF SaysOf
<1>13. \A n \in DOMAIN posted : \E k \in 1..k0 :
         posted[n].line = Line(k) /\ SaysOf(posted[n].event, k)
  BY <1>3 DEF ContextInv, EventsInContext
<1>14. EventsInContext'
  <2> SUFFICES ASSUME NEW n \in DOMAIN posted'
               PROVE  \E k \in 1..k0 + 1 :
                        posted'[n].line = Line(k) /\ SaysOf(posted'[n].event, k)
    BY <1>6, <1>12 DEF EventsInContext, SaysOf
  <2>1. 1..k0 \subseteq 1..k0 + 1 /\ k0 + 1 \in 1..k0 + 1
    OBVIOUS
  <2>2. CASE posted' = posted
    BY <1>13, <2>1, <2>2
  <2>3. CASE posted' # posted
    <3>1. PICK ev \in Events :
            /\ EventsOf(state, e) = <<ev>>
            /\ posted' = Append(posted, [line |-> KeepPending(end), event |-> ev])
            /\ [line |-> KeepPending(end), event |-> ev] \in Postings
      BY <1>2, <1>4, <2>3
    <3>2. /\ DOMAIN posted = 1..Len(posted) /\ DOMAIN posted' = 1..Len(posted) + 1
          /\ Len(posted) \in Nat
          /\ \A m \in 1..Len(posted) : posted'[m] = posted[m]
          /\ posted'[Len(posted) + 1] = [line |-> KeepPending(end), event |-> ev]
      <4>1. posted \in Seq(Postings)
        BY DEF TypeInv
      <4>2. QED BY <3>1, <4>1, AppendProperties
    <3>3. CASE n \in 1..Len(posted)
      BY <1>13, <2>1, <3>2, <3>3
    <3>4. CASE n = Len(posted) + 1
      <4>1. posted'[n].line = Line(k0 + 1) /\ posted'[n].event = ev
        BY <1>2, <1>3, <3>2, <3>4
      <4>2. ev.kind = "output" => ev.named
        <5> SUFFICES ASSUME ev.kind = "output" PROVE ev.named
          OBVIOUS
        <5>1. e = "output" /\ ev = ToolResult(state.named)
          BY <3>1, OneEvent
        <5>2. (\E j \in 1..end - 1 : file[j] = "call")
                /\ \A j \in 1..end - 1 : file[j] # "output"
          BY <1>4, <1>5, <5>1 DEF TypeInv, OutputsFollowCalls
        <5>3. PICK j \in 1..end - 1 : file[j] = "call"
          BY <5>2
        <5>4. j \in 1..offset
          BY <1>2, <1>5, <1>8, <5>3 DEF Partial
        <5>5. \A i \in 1..offset : i \in 1..end - 1
          BY <1>2, <1>5
        <5>6. state.named
          BY <5>2, <5>3, <5>4, <5>5 DEF ContextInv, NamesKnown
        <5>7. QED BY <5>1, <5>6 DEF ToolResult
      <4>3. ev.kind = "turn" => ev.usage = Cardinality(UsagesOfTurn(k0 + 1))
        <5> SUFFICES ASSUME ev.kind = "turn" PROVE ev.usage = state.usage
          BY <1>10
        <5>1. QED BY <3>1, OneEvent DEF TurnResult
      <4>4. SaysOf(ev, k0 + 1)
        BY <4>2, <4>3 DEF SaysOf
      <4>5. QED BY <2>1, <4>1, <4>4
    <3>5. n \in 1..Len(posted) \/ n = Len(posted) + 1
      BY <3>2
    <3>6. QED BY <3>3, <3>4, <3>5
  <2>4. QED BY <2>2, <2>3
<1>15. QED BY <1>9, <1>11, <1>14 DEF ContextInv

\* What is posted of a line is what the whole rollout says of it, wherever in the
\* rollout the sidecar opened the file: it reads the lines it does not post.
THEOREM AlwaysPostedInContext == Spec => []PostedInContext
<1>1. Init => ContextInv
  <2> SUFFICES ASSUME Init PROVE ContextInv
    OBVIOUS
  <2>1. offset = 0 /\ posted = <<>> /\ state.usage = 0 /\ LinesIn(offset) = 0
    BY NoLines DEF Init, NewReader
  <2>2. UsagesOfTurn(LinesIn(offset) + 1) = {}
    BY <2>1 DEF UsagesOfTurn
  <2>3. QED BY <2>1, <2>2, FS_EmptySet DEF ContextInv, NamesKnown, UsageKnown, EventsInContext
<1>2. TypeInv /\ ContextInv /\ [Next]_vars => ContextInv'
  BY QuietContext, ReadLineContext, ReadEOFContext, WriteContext
     DEF Next, Sidecar, Quiet, Pieces,
   Tails, Writes
<1>3. TypeInv /\ ContextInv => PostedInContext
  <2> SUFFICES ASSUME TypeInv, ContextInv, NEW n \in DOMAIN posted
               PROVE  SaysOf(posted[n].event, LinesIn(Max(posted[n].line)))
    BY DEF PostedInContext, SaysOf
  <2>1. PICK k \in 1..LinesIn(offset) :
          posted[n].line = Line(k) /\ SaysOf(posted[n].event, k)
    BY DEF ContextInv, EventsInContext
  <2>2. offset \in Nat /\ offset <= Len(file) /\ Len(file) \in Nat
    BY LenProperties DEF TypeInv, TypeOK
  <2>3. PICK e \in 1..offset : Ends(e) /\ LinesIn(e) = k
    BY <2>2, LineEnds
  <2>4. Max(Line(k)) = e
    BY <2>2, <2>3, EndOfLine
  <2>5. QED BY <2>1, <2>3, <2>4
<1>4. QED BY <1>1, <1>2, <1>3, TypeInit, TypeNext, PTL DEF Spec

-----------------------------------------------------------------------------
(* What an import writes. *)

Imported ==
  {Called, ToolResult(TRUE), ToolResult(FALSE), TurnResult(FALSE, 0), Raw}

\* The lines an import reads are the first ones, up to one that cannot be read.
LEMMA ReadableFirst ==
  ASSUME NEW N \in Nat, NEW lines, DOMAIN lines = 1..N
  PROVE  \E m \in 0..N : Readable(lines) = 1..m
<1> DEFINE T == {n \in 0..N : \A k \in 1..n : lines[k] # "unreadable"}
<1>1. T \in SUBSET (0..N) /\ 0 \in T
  OBVIOUS
<1>2. PICK m \in T : \A n \in T : n <= m
  BY <1>1, GreatestNat
<1>3. m \in 0..N /\ \A k \in 1..m : lines[k] # "unreadable"
  BY <1>2
<1>4. ASSUME NEW n \in 1..m PROVE n \in Readable(lines)
  BY <1>3 DEF Readable
<1>5. ASSUME NEW n \in Readable(lines) PROVE n \in 1..m
  <2>1. n \in 1..N /\ n \in T
    BY DEF Readable
  <2>2. QED BY <1>2, <1>3, <2>1
<1>6. Readable(lines) = 1..m
  BY <1>4, <1>5
<1>7. QED BY <1>3, <1>6

\* What an import writes of these records.
ImportOf(records) ==
  [n \in Readable(records) |->
     ImportedEvent({records[k] : k \in 1..n - 1}, records[n])]

LEMMA ImportIs ==
  ASSUME NEW m \in Nat, NEW lines, Readable(lines) = 1..m
  PROVE  /\ ImportOf(lines) \in Seq(Imported) /\ Len(ImportOf(lines)) = m
         /\ \A n \in 1..m : ImportOf(lines)[n] =
              ImportedEvent({lines[k] : k \in 1..n - 1}, lines[n])
<1>1. ASSUME NEW before, NEW e PROVE ImportedEvent(before, e) \in Imported
  <2>1. ToolResult("call" \in before) \in {ToolResult(TRUE), ToolResult(FALSE)}
    <3>1. CASE "call" \in before
      <4>1. ("call" \in before) = TRUE
        BY <3>1
      <4>2. QED BY <4>1
    <3>2. CASE "call" \notin before
      <4>1. ("call" \in before) = FALSE
        BY <3>2
      <4>2. QED BY <4>1
    <3>3. QED BY <3>1, <3>2
  <2>2. QED BY <2>1 DEF ImportedEvent, Imported
<1> DEFINE events == [n \in 1..m |-> ImportedEvent({lines[k] : k \in 1..n - 1}, lines[n])]
<1>2. events \in [1..m -> Imported]
  BY <1>1
<1>3. ImportOf(lines) = events
  BY DEF ImportOf
<1>4. \A n \in 1..m : events[n] = ImportedEvent({lines[k] : k \in 1..n - 1}, lines[n])
  OBVIOUS
<1> HIDE DEF events
<1>5. events \in Seq(Imported) /\ Len(events) = m
  BY <1>2
<1>6. QED BY <1>3, <1>4, <1>5

\* More records add to what is written and change none of it.
LEMMA ImportGrows ==
  ASSUME NEW N \in Nat, NEW M \in Nat, N <= M,
         NEW lines, DOMAIN lines = 1..N, NEW more, DOMAIN more = 1..M,
         \A k \in 1..N : more[k] = lines[k]
  PROVE  IsPrefix(ImportOf(lines), ImportOf(more))
<1>1. PICK m \in 0..N : Readable(lines) = 1..m
  BY ReadableFirst
<1>2. PICK n \in 0..M : Readable(more) = 1..n
  BY ReadableFirst
<1>3. m <= n
  <2>1. \A k \in 1..m : lines[k] # "unreadable"
    <3>1. ASSUME NEW k \in 1..m PROVE k \in Readable(lines) /\ k \in 1..k
      BY <1>1
    <3>2. QED BY <3>1 DEF Readable
  <2>2. CASE m = 0
    BY <1>2, <2>2
  <2>3. CASE m # 0
    <3>1. m \in 1..M /\ \A k \in 1..m : k \in 1..N
      BY <1>1, <2>3
    <3>2. \A k \in 1..m : more[k] # "unreadable"
      BY <2>1, <3>1
    <3>3. m \in Readable(more)
      BY <3>1, <3>2 DEF Readable
    <3>4. QED BY <1>2, <3>3
  <2>4. QED BY <2>2, <2>3
<1>4. PICK s, t : s = ImportOf(lines) /\ t = ImportOf(more)
  OBVIOUS
<1> m \in Nat /\ n \in Nat
  BY <1>1, <1>2
<1>5. /\ s \in Seq(Imported) /\ Len(s) = m
      /\ \A k \in 1..m : s[k] = ImportedEvent({lines[j] : j \in 1..k - 1}, lines[k])
  BY <1>1, <1>4, ImportIs
<1>6. /\ t \in Seq(Imported) /\ Len(t) = n
      /\ \A k \in 1..n : t[k] = ImportedEvent({more[j] : j \in 1..k - 1}, more[k])
  BY <1>2, <1>4, ImportIs
<1>7. ASSUME NEW k \in 1..m PROVE s[k] = t[k]
  <2>1. k \in 1..N /\ k \in 1..n /\ \A j \in 1..k - 1 : j \in 1..N
    BY <1>1, <1>2, <1>3
  <2>2. {lines[j] : j \in 1..k - 1} = {more[j] : j \in 1..k - 1} /\ lines[k] = more[k]
    BY <2>1
  <2>3. QED BY <1>5, <1>6, <2>1, <2>2
<1>8. SubSeq(s, 1, m) = [k \in 1..m |-> s[k]] /\ SubSeq(t, 1, m) = [k \in 1..m |-> t[k]]
  BY <1>1, <1>2, <1>3, <1>5, <1>6
<1>9. [k \in 1..m |-> s[k]] = [k \in 1..m |-> t[k]]
  BY <1>7
<1>10. QED BY <1>1, <1>2, <1>3, <1>4, <1>5, <1>6, <1>8, <1>9 DEF IsPrefix

\* What codex writes ends a line or none.
LEMMA WrittenLine ==
  ASSUME file \in Seq(Pieces), NEW piece \in Pieces, file' = Append(file, piece),
         NEW c \in Nat, c = Complete
  PROVE  /\ piece = Partial => Complete' = c
         /\ piece # Partial => Complete' = c + 1 /\ Lines'[c + 1] = piece
<1>1. PICK len \in Nat : len = Len(file)
  BY LenProperties
<1>2. /\ Len(file') = len + 1 /\ file'[len + 1] = piece
      /\ \A n \in 0..len : LinesIn(n)' = LinesIn(n)
  BY <1>1, WriteKeepsLines
<1>3. Counting'
  BY Counted, PTL
<1>4. LinesIn(len)' = c
  BY <1>1, <1>2 DEF Complete
<1>5. LinesIn(len + 1)' = c + (IF Ends(len + 1)' THEN 1 ELSE 0)
  <2>1. len + 1 \in Nat /\ len + 1 # 0 /\ (len + 1) - 1 = len
    OBVIOUS
  <2>2. \A n \in Nat : n # 0 =>
          LinesIn(n)' = LinesIn(n - 1)' + (IF Ends(n)' THEN 1 ELSE 0)
    BY <1>3 DEF Counting
  <2>3. QED BY <1>4, <2>1, <2>2
<1>6. Complete' = LinesIn(len + 1)' /\ (Ends(len + 1)' <=> piece # Partial)
  BY <1>2 DEF Complete, Ends
<1>7. ASSUME piece # Partial PROVE Lines'[c + 1] = piece
  <2>1. len + 1 \in 1..Len(file') /\ Ends(len + 1)' /\ LinesIn(len + 1)' = c + 1
    BY <1>2, <1>5, <1>6, <1>7
  <2>2. Len(file') \in Nat
    BY <1>2
  <2>3. \A e \in 1..Len(file') : Ends(e)' => Lines'[LinesIn(e)'] = file'[e]
    BY <1>3, <2>2 DEF Counting
  <2>4. QED BY <1>2, <2>1, <2>3
<1>8. QED BY <1>5, <1>6, <1>7

\* The records of a rollout: its lines, and the unfinished one when it is whole.
LEMMA RecordsAre ==
  ASSUME NEW N \in Nat, NEW lines \in Seq(Entries), Len(lines) = N, NEW t
  PROVE  /\ t \notin Entries => Records(lines, t) = lines
         /\ t \in Entries =>
              /\ DOMAIN Records(lines, t) = 1..N + 1
              /\ \A k \in 1..N : Records(lines, t)[k] = lines[k]
              /\ Records(lines, t)[N + 1] = t
<1>1. CASE t \notin Entries
  <2>1. Records(lines, t) = lines \o <<>>
    BY <1>1 DEF Records
  <2>2. QED BY <1>1, <2>1, ConcatEmptySeq
<1>2. CASE t \in Entries
  <2>1. Records(lines, t) = lines \o <<t>> /\ lines \o <<t>> = Append(lines, t)
    BY <1>2, AppendIsConcat DEF Records
  <2>2. QED BY <1>2, <2>1, AppendProperties
<1>3. QED BY <1>1, <1>2

\* Whatever codex writes, an import made later starts with all an earlier one wrote,
\* unless codex goes on after a whole record whose line it died in: then with all it
\* wrote of complete lines.
THEOREM ImportAlwaysGrows == Spec => ImportOnlyGrows
<1>1. TypeInv /\ Next => (file' # file =>
        IsPrefix(IF AbandonsRecord THEN Import(Lines, None) ELSE ImportHistory,
                 ImportHistory'))
  <2> SUFFICES ASSUME TypeInv, Next, file' # file
               PROVE  IsPrefix(IF AbandonsRecord THEN Import(Lines, None)
                               ELSE ImportHistory, ImportHistory')
    OBVIOUS
  <2>1. file \in Seq(Pieces) /\ Len(file) \in Nat
    BY LenProperties DEF TypeInv, TypeOK, Pieces
  <2>2. PICK piece \in Pieces, next \in Tails : CodexWrites(piece, next)
    BY DEF Next, Sidecar, OpenResumed, FindNew, WaitStopped, WaitExpires, ReadLine,
       ReadEOF, ReadFails, SeeStop, PauseExpires, Stop, Pieces, Tails
  <2>3. file' = Append(file, piece) /\ tail' = next /\ MayFollow(file, tail, piece, next)
    BY <2>2 DEF CodexWrites
  <2>4. PICK len \in Nat, N \in Nat : len = Len(file) /\ N = Complete
    BY <2>1, CountType DEF Complete
  <2>5. PICK M, lines, more :
          /\ M = Complete' /\ lines = Lines /\ more = Lines'
          /\ ImportHistory' = Import(more, next)
    BY <2>3 DEF ImportHistory
  <2>6. /\ piece = Partial => M = N
        /\ piece # Partial => M = N + 1 /\ more[N + 1] = piece
        /\ \A k \in 1..N : more[k] = lines[k]
    BY <2>1, <2>3, <2>4, <2>5, WrittenLine, WriteKeepsLines
  <2>7. lines \in Seq(Entries) /\ Len(lines) = N
    <3>1. \A k \in 1..N : lines[k] \in Entries
      <4> SUFFICES ASSUME NEW k \in 1..N PROVE Lines[k] \in Entries
        BY <2>5
      <4>1. PICK e \in 1..len : Ends(e) /\ LinesIn(e) = k
        BY <2>4, LineEnds DEF Complete
      <4>2. Lines[k] = file[e]
        BY <2>1, <2>4, <4>1, EndOfLine
      <4>3. QED BY <2>1, <2>4, <4>1, <4>2 DEF Ends, Pieces
    <3>2. lines = [k \in 1..N |-> lines[k]]
      BY <2>4, <2>5 DEF Lines
    <3>3. QED BY <3>1, <3>2
  <2>8. more \in Seq(Entries) /\ Len(more) = M /\ M \in Nat /\ N <= M
    <3>1. M \in Nat /\ N <= M
      BY <2>6
    <3>2. \A k \in 1..M : more[k] \in Entries
      <4>1. \A k \in 1..N : more[k] \in Entries
        BY <2>6, <2>7
      <4>2. QED BY <2>6, <4>1 DEF Pieces
    <3>3. more = [k \in 1..M |-> more[k]]
      BY <2>5 DEF Lines
    <3>4. QED BY <3>1, <3>2, <3>3
  <2>9. Import(lines, tail) = ImportOf(Records(lines, tail))
          /\ Import(lines, None) = ImportOf(Records(lines, None))
          /\ Import(more, next) = ImportOf(Records(more, next))
    BY DEF Import, ImportOf
  <2>10. PICK last : last = IF AbandonsRecord THEN None ELSE tail
    OBVIOUS
  <2>11. PICK A, B : A = Records(lines, last) /\ B = Records(more, next)
    OBVIOUS
  <2>12. \E a \in Nat, b \in Nat :
           /\ DOMAIN A = 1..a /\ DOMAIN B = 1..b /\ a <= b
           /\ \A k \in 1..a : B[k] = A[k]
    <3>1. \E b \in Nat : DOMAIN B = 1..b /\ M <= b /\ \A k \in 1..M : B[k] = more[k]
      BY <2>8, <2>11, RecordsAre
    <3>2. CASE last \notin Entries
      <4>1. A = lines /\ DOMAIN A = 1..N
        BY <2>7, <2>11, <3>2, RecordsAre
      <4>2. QED BY <2>6, <2>8, <3>1, <4>1
    <3>3. CASE last \in Entries
      <4>1. last = tail /\ tail \in Entries /\ Last(file') = tail
        BY <2>10, <3>3, PartialIsNoEntry DEF AbandonsRecord
      <4>2. Last(file') = piece
        BY <2>1, <2>3, AppendProperties DEF Last
      <4>3. piece = tail /\ M = N + 1 /\ more[N + 1] = tail
        BY <2>6, <4>1, <4>2, PartialIsNoEntry
      <4>4. /\ DOMAIN A = 1..N + 1 /\ A[N + 1] = tail
            /\ \A k \in 1..N : A[k] = lines[k]
        BY <2>7, <2>11, <4>1, RecordsAre
      <4>5. \A k \in 1..N + 1 : more[k] = A[k]
        BY <2>6, <4>3, <4>4
      <4>6. PICK b \in Nat :
              DOMAIN B = 1..b /\ M <= b /\ \A k \in 1..M : B[k] = more[k]
        BY <3>1
      <4>7. N + 1 \in Nat /\ N + 1 <= b /\ \A k \in 1..N + 1 : B[k] = A[k]
        BY <4>3, <4>5, <4>6
      <4>8. QED BY <4>4, <4>6, <4>7
    <3>4. QED BY <3>2, <3>3
  <2>13. IsPrefix(ImportOf(A), ImportOf(B))
    BY <2>12, ImportGrows
  <2>14. QED
    <3>1. (IF AbandonsRecord THEN Import(Lines, None) ELSE ImportHistory) = ImportOf(A)
      <4>1. CASE AbandonsRecord
        BY <2>5, <2>9, <2>10, <2>11, <4>1
      <4>2. CASE ~AbandonsRecord
        BY <2>5, <2>9, <2>10, <2>11, <4>2 DEF ImportHistory
      <4>3. QED BY <4>1, <4>2
    <3>2. ImportHistory' = ImportOf(B)
      BY <2>5, <2>9, <2>11
    <3>3. QED BY <2>13, <3>1, <3>2
<1>2. UNCHANGED vars => file' = file
  BY DEF vars
<1>3. QED BY <1>1, <1>2, TypeInit, TypeNext, PTL DEF Spec, ImportOnlyGrows
=============================================================================
