--------------------------- MODULE TarWalkProofs ---------------------------
(***************************************************************************)
(* The loops of lib/tar.c compute what Tar says, for archives of any       *)
(* length, any set of paths and any prefixes among them, in the NAS build. *)
(***************************************************************************)
EXTENDS TarWalk, NaturalsLemmas, FiniteSetTheorems, TLAPS

\* Entries that make an archive: every path once, files with data, and the RTK
\* header only in front.
WellFormed(s) ==
    /\ s \in Seq(Entry)
    /\ NamesOnce(s)
    /\ \A n \in DOMAIN s : /\ s[n].name \in Path => s[n].data \in Data
                           /\ s[n].rtk \/ s[n].name = Root => n = 1

\* What the entries of s up to k take.
TakenUpTo(s, k) == {b \in Taken(s) : b[1] <= k}

\* What the call makes of the archive.
Result ==
    IF call.add THEN tar_add(Abs(buf), call.f, call.d, tail)
                ELSE tar_delete(Abs(buf), call.f, tail)

Arguments ==
    /\ call.f \in Path /\ call.add \in BOOLEAN
    /\ call.add => /\ call.d \in Data
                   /\ Blocks[call.d] + Size(buf) + 1 + Padding <= TmpLen

\* The new entry for the file, wherever its header was built.
IsNew(e) == e.name = call.f /\ e.data = call.d

\* How far the walk has come: tmp holds the entries met that do not match, the
\* first of them still in front, and the file if an entry was replaced by it.
Copied ==
    /\ i \in Nat /\ 1 <= i /\ i <= Len(Met) + 1
    /\ done <=> call.add /\ \E n \in DOMAIN Met : n < i /\ Matches(Met[n], call.f)
    /\ \A n \in DOMAIN buf : n < i /\ ~Matches(buf[n], call.f) =>
          /\ \E m \in DOMAIN tmp : tmp[m] = buf[n]
          /\ n = 1 => tmp # <<>> /\ tmp[1] = buf[1]
    /\ \A m \in DOMAIN tmp :
          \/ \E n \in DOMAIN buf : n < i /\ ~Matches(buf[n], call.f) /\ tmp[m] = buf[n]
          \/ done /\ IsNew(tmp[m])
    /\ done => \E m \in DOMAIN tmp : IsNew(tmp[m])

\* Whatever is dropped, the copy takes no more room than the entries met and
\* the file.
CopyFits ==
    Size(tmp) <= Cardinality(TakenUpTo(buf, i - 1))
                   + IF done THEN 1 + Blocks[call.d] ELSE 0

\* The inductive invariant.
IInv ==
    /\ WellFormed(buf) /\ WellFormed(tmp)
    /\ tail \in BOOLEAN /\ done \in BOOLEAN
    /\ tail => buf # <<>>
    /\ Size(buf) + Padding <= TmpLen
    /\ pc \in {"idle", "walk"}
    /\ pc = "idle" => tmp = <<>> /\ im = Abs(buf)
    /\ pc = "walk" => Arguments /\ Copied /\ CopyFits /\ im = Result

-----------------------------------------------------------------------------
(* Entries and their blocks *)

\* An entry of an archive takes its header and the blocks of its data.
LEMMA EntrySizeType ==
    ASSUME NEW e \in Entry, e.name \in Path => e.data \in Data
    PROVE  EntrySize(e) \in 1..(MaxBlocks + 1)
<1>1. CASE e.name = Root
  BY <1>1, TarAssumption DEF EntrySize
<1>2. CASE e.name # Root
  <2>1. e.data \in Data
    BY <1>2 DEF Entry
  <2>2. Blocks[e.data] \in 0..MaxBlocks
    BY <2>1, TarAssumption
  <2> QED
    BY <1>2, <2>2, TarAssumption DEF EntrySize
<1> QED
  BY <1>1, <1>2

\* The blocks of finitely many entries are finitely many.
LEMMA TakenFinite ==
    ASSUME NEW s \in Seq(Entry)
    PROVE  IsFiniteSet(Taken(s)) /\ Size(s) \in Nat
<1>1. IsFiniteSet(0..MaxBlocks)
  BY FS_Interval, TarAssumption
<1>2. DOMAIN s = 1..Len(s) /\ Len(s) \in Nat
  OBVIOUS
<1>3. IsFiniteSet(DOMAIN s)
  BY <1>2, FS_Interval
<1>4. IsFiniteSet((DOMAIN s) \X (0..MaxBlocks))
  BY <1>1, <1>3, FS_Product
<1>5. IsFiniteSet(Taken(s))
  BY <1>4, FS_Subset DEF Taken
<1> QED
  BY <1>5, FS_CardinalityType DEF Size

\* The blocks of one entry.
LEMMA EntryTaken ==
    ASSUME NEW n, NEW z \in 1..(MaxBlocks + 1)
    PROVE  /\ IsFiniteSet({n} \X (0..(z - 1)))
           /\ Cardinality({n} \X (0..(z - 1))) = z
<1>1. z \in Nat /\ z >= 1 /\ z - 1 \in Nat
  BY TarAssumption
<1>2. IsFiniteSet({n}) /\ Cardinality({n}) = 1
  BY FS_Singleton
<1>3. IsFiniteSet(0..(z - 1)) /\ Cardinality(0..(z - 1)) = z
  BY <1>1, FS_Interval
<1>4. /\ IsFiniteSet({n} \X (0..(z - 1)))
      /\ Cardinality({n} \X (0..(z - 1))) = Cardinality({n}) * Cardinality(0..(z - 1))
  BY <1>2, <1>3, FS_Product
<1> QED
  BY <1>1, <1>2, <1>3, <1>4

\* A set of blocks and those of a further entry.
LEMMA AddTaken ==
    ASSUME NEW A, IsFiniteSet(A), NEW n, NEW z \in 1..(MaxBlocks + 1),
           \A x \in A : x[1] # n
    PROVE  /\ IsFiniteSet(A \cup ({n} \X (0..(z - 1))))
           /\ Cardinality(A \cup ({n} \X (0..(z - 1)))) = Cardinality(A) + z
<1> DEFINE B == {n} \X (0..(z - 1))
<1>1. IsFiniteSet(B) /\ Cardinality(B) = z
  BY EntryTaken
<1>2. A \cap B = {}
  OBVIOUS
<1>3. Cardinality(A \cap B) = 0
  BY <1>2, FS_EmptySet
<1>4. Cardinality(A) \in Nat
  BY FS_CardinalityType
<1>5. /\ IsFiniteSet(A \cup B)
      /\ Cardinality(A \cup B) = Cardinality(A) + Cardinality(B) - Cardinality(A \cap B)
  <2> HIDE DEF B
  <2> QED BY <1>1, FS_Union
<1>6. z \in Nat
  BY TarAssumption
<1> QED
  BY <1>1, <1>3, <1>4, <1>5, <1>6

\* An entry copied to tmp_buf adds its size.
LEMMA AppendSize ==
    ASSUME NEW s \in Seq(Entry), NEW e \in Entry,
           e.name \in Path => e.data \in Data
    PROVE  Size(Append(s, e)) = Size(s) + EntrySize(e)
<1> DEFINE t == Append(s, e)
           n == Len(s) + 1
           z == EntrySize(e)
<1>1. z \in 1..(MaxBlocks + 1)
  BY EntrySizeType
<1>2. Len(s) \in Nat /\ DOMAIN s = 1..Len(s) /\ DOMAIN t = 1..n
  OBVIOUS
<1>3. t[n] = e /\ \A k \in DOMAIN s : t[k] = s[k]
  OBVIOUS
<1>4. Taken(t) = Taken(s) \cup ({n} \X (0..(z - 1)))
  <2>1. ASSUME NEW x \in Taken(t)
        PROVE  x \in Taken(s) \cup ({n} \X (0..(z - 1)))
    <3>1. PICK k \in DOMAIN t, h \in 0..MaxBlocks : x = <<k, h>> /\ h < EntrySize(t[k])
      BY <2>1 DEF Taken
    <3>2. CASE k = n
      BY <1>1, <1>3, <3>1, <3>2, TarAssumption
    <3>3. CASE k # n
      <4>1. k \in DOMAIN s
        BY <1>2, <3>3
      <4> QED BY <1>3, <3>1, <4>1 DEF Taken
    <3> QED BY <3>2, <3>3
  <2>2. ASSUME NEW x \in Taken(s)
        PROVE  x \in Taken(t)
    <3>1. PICK k \in DOMAIN s, h \in 0..MaxBlocks : x = <<k, h>> /\ h < EntrySize(s[k])
      BY <2>2 DEF Taken
    <3>2. k \in DOMAIN t
      BY <1>2
    <3> QED BY <1>3, <3>1, <3>2 DEF Taken
  <2>3. ASSUME NEW x \in {n} \X (0..(z - 1))
        PROVE  x \in Taken(t)
    <3>1. PICK h \in 0..(z - 1) : x = <<n, h>>
      BY <2>3
    <3>2. h \in 0..MaxBlocks /\ h < z
      BY <1>1, TarAssumption
    <3> QED BY <1>2, <1>3, <3>1, <3>2 DEF Taken
  <2> QED BY <2>1, <2>2, <2>3
<1>5. \A x \in Taken(s) : x[1] # n
  BY <1>2 DEF Taken
<1>6. IsFiniteSet(Taken(s))
  BY TakenFinite
<1> QED
  <2> HIDE DEF t, n, z
  <2>1. Cardinality(Taken(s) \cup ({n} \X (0..(z - 1)))) = Cardinality(Taken(s)) + z
    BY <1>1, <1>5, <1>6, AddTaken, Zenon
  <2> QED BY <1>4, <2>1 DEF Size, t, z

\* So does an entry that the walk has met.
LEMMA UpToStep ==
    ASSUME NEW s \in Seq(Entry), NEW n \in DOMAIN s,
           s[n].name \in Path => s[n].data \in Data
    PROVE  /\ Cardinality(TakenUpTo(s, n)) =
                 Cardinality(TakenUpTo(s, n - 1)) + EntrySize(s[n])
           /\ Cardinality(TakenUpTo(s, n - 1)) \in Nat
<1> DEFINE z == EntrySize(s[n])
<1>1. s[n] \in Entry /\ n \in Nat /\ \A k \in DOMAIN s : k \in Nat
  OBVIOUS
<1>2. z \in 1..(MaxBlocks + 1)
  BY <1>1, EntrySizeType
<1>3. IsFiniteSet(TakenUpTo(s, n - 1))
  BY TakenFinite, FS_Subset DEF TakenUpTo
<1>4. TakenUpTo(s, n) = TakenUpTo(s, n - 1) \cup ({n} \X (0..(z - 1)))
  <2>1. ASSUME NEW x \in TakenUpTo(s, n)
        PROVE  x \in TakenUpTo(s, n - 1) \cup ({n} \X (0..(z - 1)))
    <3>1. PICK k \in DOMAIN s, h \in 0..MaxBlocks :
             x = <<k, h>> /\ h < EntrySize(s[k]) /\ k <= n
      BY <2>1 DEF Taken, TakenUpTo
    <3>2. CASE k = n
      BY <1>2, <3>1, <3>2, TarAssumption
    <3>3. CASE k # n
      <4>1. k <= n - 1
        BY <1>1, <3>1, <3>3
      <4> QED BY <3>1, <4>1 DEF Taken, TakenUpTo
    <3> QED BY <3>2, <3>3
  <2>2. ASSUME NEW x \in TakenUpTo(s, n - 1)
        PROVE  x \in TakenUpTo(s, n)
    <3>1. x \in Taken(s) /\ x[1] \in Nat /\ x[1] <= n - 1
      BY <1>1, <2>2 DEF Taken, TakenUpTo
    <3> QED BY <1>1, <3>1 DEF TakenUpTo
  <2>3. ASSUME NEW x \in {n} \X (0..(z - 1))
        PROVE  x \in TakenUpTo(s, n)
    <3>1. PICK h \in 0..(z - 1) : x = <<n, h>>
      BY <2>3
    <3>2. h \in 0..MaxBlocks /\ h < z
      BY <1>2, TarAssumption
    <3> QED BY <1>1, <3>1, <3>2 DEF Taken, TakenUpTo
  <2> QED BY <2>1, <2>2, <2>3
<1>5. \A x \in TakenUpTo(s, n - 1) : x[1] # n
  BY <1>1 DEF Taken, TakenUpTo
<1> QED
  <2> HIDE DEF z
  <2>1. Cardinality(TakenUpTo(s, n - 1) \cup ({n} \X (0..(z - 1)))) =
          Cardinality(TakenUpTo(s, n - 1)) + z
    BY <1>2, <1>3, <1>5, AddTaken, Zenon
  <2>2. Cardinality(TakenUpTo(s, n - 1)) \in Nat
    BY <1>3, FS_CardinalityType
  <2> QED BY <1>4, <2>1, <2>2 DEF z

\* Up to any entry there are no more blocks than in all.
LEMMA UpToBound ==
    ASSUME NEW s \in Seq(Entry), NEW k
    PROVE  /\ Cardinality(TakenUpTo(s, k)) \in Nat
           /\ Cardinality(TakenUpTo(s, k)) <= Size(s)
<1>1. TakenUpTo(s, k) \in SUBSET Taken(s)
  BY DEF TakenUpTo
<1>2. IsFiniteSet(Taken(s))
  BY TakenFinite
<1>3. /\ IsFiniteSet(TakenUpTo(s, k))
      /\ Cardinality(TakenUpTo(s, k)) <= Cardinality(Taken(s))
  BY <1>1, <1>2, FS_Subset
<1> QED
  BY <1>3, FS_CardinalityType DEF Size

\* Nothing takes no blocks.
LEMMA EmptySize == Size(<<>>) = 0
<1>1. DOMAIN <<>> = {}
  OBVIOUS
<1>2. Taken(<<>>) = {}
  BY <1>1 DEF Taken
<1> QED
  BY <1>2, FS_EmptySet DEF Size

-----------------------------------------------------------------------------
(* The archive that the entries stand for *)

\* A path that has an entry has its data, another one has none.
LEMMA FileOf ==
    ASSUME NEW s, WellFormed(s), NEW f \in Path
    PROVE  /\ \A n \in DOMAIN s : s[n].name = f => Abs(s).files[f] = s[n].data
           /\ (\A n \in DOMAIN s : s[n].name # f) => Abs(s).files[f] = NoFile
<1> DEFINE has == \E n \in DOMAIN s : s[n].name = f
           at == CHOOSE n \in DOMAIN s : s[n].name = f
<1>1. Abs(s).files[f] = IF has THEN s[at].data ELSE NoFile
  BY DEF Abs
<1>2. ASSUME NEW n \in DOMAIN s, s[n].name = f
      PROVE  s[at].data = s[n].data
  <2>1. at \in DOMAIN s /\ s[at].name = f
    BY <1>2
  <2>2. at = n
    <3> HIDE DEF at
    <3> QED BY <1>2, <2>1 DEF WellFormed, NamesOnce
  <2> QED BY <2>2
<1> QED
  <2> HIDE DEF at
  <2> QED BY <1>1, <1>2

\* There is no redundant RTK header among the entries.
LEMMA AbsShape ==
    ASSUME NEW s, WellFormed(s)
    PROVE  /\ Abs(s).rooted <=> s # <<>> /\ s[1].name = Root
           /\ Abs(s).rooted \in BOOLEAN
           /\ Abs(s).dups = 0
           /\ Abs(s).files \in [Path -> Data \cup {NoFile}]
           /\ Abs(s) \in Image
<1>1. /\ Abs(s).rooted <=> s # <<>> /\ s[1].name = Root
      /\ Abs(s).rooted \in BOOLEAN
  BY DEF Abs
<1>2. {n \in DOMAIN s : n > 1 /\ s[n].name = Root} = {}
  BY DEF WellFormed
<1>3. Abs(s).dups = 0
  BY <1>2, FS_EmptySet DEF Abs
<1>4. ASSUME NEW f \in Path
      PROVE  Abs(s).files[f] \in Data \cup {NoFile}
  <2>1. CASE \A n \in DOMAIN s : s[n].name # f
    BY <2>1, FileOf
  <2>2. CASE \E n \in DOMAIN s : s[n].name = f
    <3>1. PICK n \in DOMAIN s : s[n].name = f
      BY <2>2
    <3>2. s[n].data \in Data
      BY <3>1 DEF WellFormed
    <3>3. Abs(s).files[f] = s[n].data
      BY <3>1, FileOf
    <3> QED BY <3>2, <3>3
  <2> QED BY <2>1, <2>2
<1>5. Abs(s).files = [f \in Path |-> Abs(s).files[f]]
  BY DEF Abs
<1>6. Abs(s).files \in [Path -> Data \cup {NoFile}]
  BY <1>4, <1>5
<1>7. Abs(s) = [rooted |-> Abs(s).rooted, files |-> Abs(s).files, dups |-> Abs(s).dups]
  BY DEF Abs
<1> QED
  BY <1>1, <1>3, <1>6, <1>7 DEF Image

\* Two archives are the same if they agree in these parts.
LEMMA SameArchive ==
    ASSUME NEW x \in Image, NEW y \in Image,
           x.rooted <=> y.rooted, x.dups = y.dups,
           \A f \in Path : x.files[f] = y.files[f]
    PROVE  x = y
<1>1. x.files = y.files
  BY DEF Image
<1>2. x.rooted = y.rooted
  BY DEF Image
<1> QED
  BY <1>1, <1>2 DEF Image

\* What tar_add_or_delete returns is the size of the archive: the blocks of the
\* files are those of their entries.
LEMMA SizeIsTar ==
    ASSUME NEW s, WellFormed(s)
    PROVE  Size(s) = tar_size(Abs(s))
<1> DEFINE y == Abs(s)
           R == IF y.rooted THEN {<<1, 0>>} ELSE {}
           F == {b \in Taken(s) : s[b[1]].name # Root}
           m == [b \in F |-> <<s[b[1]].name, b[2]>>]
<1> HIDE DEF y
<1>0. s \in Seq(Entry) /\ DOMAIN s = 1..Len(s) /\ Len(s) \in Nat
  BY DEF WellFormed
<1>1. IsFiniteSet(Taken(s))
  BY <1>0, TakenFinite
<1>2. IsFiniteSet(F)
  BY <1>1, FS_Subset
<1>3. /\ y.rooted \in BOOLEAN
      /\ y.dups = 0
      /\ y.rooted <=> s # <<>> /\ s[1].name = Root
  BY AbsShape DEF y
<1>4. ASSUME NEW b \in F
      PROVE  /\ b = <<b[1], b[2]>> /\ b[1] \in DOMAIN s /\ b[2] \in 0..MaxBlocks
             /\ s[b[1]].name \in Path /\ y.files[s[b[1]].name] = s[b[1]].data
             /\ s[b[1]].data \in Data /\ b[2] <= Blocks[s[b[1]].data]
  <2>1. b = <<b[1], b[2]>> /\ b[1] \in DOMAIN s /\ b[2] \in 0..MaxBlocks
        /\ b[2] < EntrySize(s[b[1]]) /\ s[b[1]].name # Root
    BY DEF Taken
  <2>2. s[b[1]].name \in Path /\ s[b[1]].data \in Data
    <3> DEFINE n == b[1]
    <3>1. n \in DOMAIN s /\ s[n].name # Root
      BY <2>1
    <3> HIDE DEF n
    <3>2. s[n] \in Entry
      BY <1>0, <3>1
    <3>3. s[n].name \in Path
      BY <3>1, <3>2 DEF Entry
    <3>4. s[n].data \in Data
      BY <3>1, <3>3 DEF WellFormed
    <3> QED BY <3>3, <3>4 DEF n
  <2>3. y.files[s[b[1]].name] = s[b[1]].data
    BY <2>1, <2>2, FileOf DEF y
  <2>4. Blocks[s[b[1]].data] \in 0..MaxBlocks
    BY <2>2, TarAssumption
  <2>5. b[2] <= Blocks[s[b[1]].data]
    BY <2>1, <2>4, TarAssumption DEF EntrySize
  <2> QED BY <2>1, <2>2, <2>3, <2>5
<1>5. m \in [F -> tar_blocks(y)]
  <2> SUFFICES ASSUME NEW b \in F
               PROVE  <<s[b[1]].name, b[2]>> \in tar_blocks(y)
    OBVIOUS
  <2>1. /\ s[b[1]].name \in Path /\ b[2] \in 0..MaxBlocks
        /\ y.files[s[b[1]].name] = s[b[1]].data
        /\ s[b[1]].data \in Data /\ b[2] <= Blocks[s[b[1]].data]
    BY <1>4
  <2> QED BY <2>1, TarAssumption DEF tar_blocks
<1>6. \A b, c \in F : m[b] = m[c] => b = c
  <2> SUFFICES ASSUME NEW b \in F, NEW c \in F, m[b] = m[c]
               PROVE  b = c
    OBVIOUS
  <2>1. s[b[1]].name = s[c[1]].name /\ b[2] = c[2]
    OBVIOUS
  <2>2. b[1] \in DOMAIN s /\ c[1] \in DOMAIN s /\ b = <<b[1], b[2]>> /\ c = <<c[1], c[2]>>
    BY <1>4
  <2>3. b[1] = c[1]
    BY <2>1, <2>2 DEF WellFormed, NamesOnce
  <2> QED BY <2>1, <2>2, <2>3
<1>7. \A t \in tar_blocks(y) : \E b \in F : m[b] = t
  <2> SUFFICES ASSUME NEW t \in tar_blocks(y)
               PROVE  \E b \in F : <<s[b[1]].name, b[2]>> = t
    OBVIOUS
  <2>1. PICK f \in Path, h \in 0..MaxBlocks :
           t = <<f, h>> /\ y.files[f] # NoFile /\ h <= Blocks[y.files[f]]
    BY DEF tar_blocks
  <2>2. PICK n \in DOMAIN s : s[n].name = f
    BY <2>1, FileOf DEF y
  <2>3. y.files[f] = s[n].data
    BY <2>2, FileOf DEF y
  <2>4. s[n].name # Root
    BY <2>2, WalkAssumption
  <2>5. s[n].data \in Data
    BY <2>2 DEF WellFormed
  <2>6. Blocks[s[n].data] \in 0..MaxBlocks
    BY <2>5, TarAssumption
  <2>7. h < EntrySize(s[n])
    BY <2>1, <2>3, <2>4, <2>6, TarAssumption DEF EntrySize
  <2>8. <<n, h>> \in F
    BY <2>2, <2>4, <2>7 DEF Taken
  <2> QED BY <2>1, <2>2, <2>8
<1>8. Cardinality(tar_blocks(y)) = Cardinality(F)
  <2>1. m \in Bijection(F, tar_blocks(y))
    <3> HIDE DEF m, F
    <3> QED BY <1>5, <1>6, <1>7 DEF Bijection, Injection, Surjection, IsInjective
  <2>2. ExistsBijection(F, tar_blocks(y))
    BY <2>1 DEF ExistsBijection
  <2> QED
    <3> HIDE DEF F
    <3> QED BY <1>2, <2>2, FS_Bijection
<1>9. Taken(s) = F \cup R
  <2>1. ASSUME NEW b \in Taken(s), b \notin F
        PROVE  b \in R
    <3>1. PICK n \in DOMAIN s, h \in 0..MaxBlocks : b = <<n, h>> /\ h < EntrySize(s[n])
      BY DEF Taken
    <3>2. s[n].name = Root
      BY <2>1, <3>1
    <3>3. n = 1
      BY <3>2 DEF WellFormed
    <3>4. h = 0
      BY <3>1, <3>2, TarAssumption DEF EntrySize
    <3>5. s # <<>>
      BY <1>0, <3>1
    <3>6. y.rooted
      BY <1>3, <3>2, <3>3, <3>5
    <3> QED BY <3>1, <3>3, <3>4, <3>6
  <2>2. ASSUME NEW b \in R
        PROVE  b \in Taken(s)
    <3>1. y.rooted /\ b = <<1, 0>>
      OBVIOUS
    <3>2. s # <<>> /\ s[1].name = Root
      BY <1>3, <3>1
    <3>3. 1 \in DOMAIN s
      BY <1>0, <3>2
    <3>4. EntrySize(s[1]) = 1
      BY <3>2 DEF EntrySize
    <3> QED BY <3>1, <3>3, <3>4, TarAssumption DEF Taken
  <2> QED BY <2>1, <2>2
<1>10. Cardinality(R) = (IF y.rooted THEN 1 ELSE 0) /\ IsFiniteSet(R)
  BY FS_Singleton, FS_EmptySet
<1>11. F \cap R = {}
  BY <1>3
<1>12. Cardinality(F \cup R) = Cardinality(F) + Cardinality(R)
  <2>1. Cardinality(F \cap R) = 0
    BY <1>11, FS_EmptySet
  <2>2. Cardinality(F) \in Nat
    BY <1>2, FS_CardinalityType
  <2>3. Cardinality(F \cup R) = Cardinality(F) + Cardinality(R) - Cardinality(F \cap R)
    <3> HIDE DEF F, R
    <3> QED BY <1>2, <1>10, FS_Union
  <2> QED BY <1>10, <2>1, <2>2, <2>3
<1>13. Cardinality(F) \in Nat
  BY <1>2, FS_CardinalityType
<1> QED
  <2> HIDE DEF F, R
  <2> QED BY <1>3, <1>8, <1>9, <1>10, <1>12, <1>13 DEF Size, tar_size, y

-----------------------------------------------------------------------------
(* The entries that a walk meets *)

\* The walk meets the entries of the archive and, behind them, a signed copy of
\* the first.
LEMMA MetShape ==
    ASSUME WellFormed(buf), tail \in BOOLEAN, tail => buf # <<>>
    PROVE  /\ Met \in Seq(Entry) /\ Len(Met) \in Nat /\ DOMAIN Met = 1..Len(Met)
           /\ Len(buf) \in Nat /\ DOMAIN buf = 1..Len(buf) /\ Len(buf) <= Len(Met)
           /\ \A n \in DOMAIN buf : n \in DOMAIN Met /\ Met[n] = buf[n]
           /\ \A n \in DOMAIN Met : n \notin DOMAIN buf =>
                 /\ tail /\ n = Len(buf) + 1 /\ n > 1 /\ 1 \in DOMAIN buf
                 /\ Met[n] = Signed(buf[1])
<1>1. buf \in Seq(Entry) /\ Len(buf) \in Nat /\ DOMAIN buf = 1..Len(buf)
  BY DEF WellFormed
<1>2. CASE ~tail
  BY <1>1, <1>2 DEF Met
<1>3. CASE tail
  <2>1. 1 \in DOMAIN buf /\ buf[1] \in Entry
    BY <1>1, <1>3
  <2>2. Signed(buf[1]) \in Entry
    BY <2>1 DEF Signed, Entry
  <2>3. Met = Append(buf, Signed(buf[1]))
    BY <1>3 DEF Met
  <2> HIDE DEF Met
  <2> QED BY <1>1, <1>3, <2>1, <2>2, <2>3
<1> QED
  BY <1>2, <1>3

\* The copy matches what the first entry matches, and is always signed.
LEMMA TailMatches ==
    ASSUME NEW e, NEW f
    PROVE  /\ Matches(Signed(e), f) <=> Matches(e, f)
           /\ Signed(e).rtk
  BY DEF Signed, Matches

\* A file matches its own name, and the RTK header has none.
LEMMA OwnName ==
    ASSUME NEW f \in Path, NEW e, e.name = f
    PROVE  Matches(e, f) /\ f # Root
  BY TarAssumption, WalkAssumption DEF Matches

\* One entry more never takes less.
LEMMA UpToGrows ==
    ASSUME NEW s \in Seq(Entry), NEW k \in Nat
    PROVE  Cardinality(TakenUpTo(s, k - 1)) <= Cardinality(TakenUpTo(s, k))
<1>1. TakenUpTo(s, k - 1) \in SUBSET TakenUpTo(s, k)
  <2> SUFFICES ASSUME NEW b \in TakenUpTo(s, k - 1)
               PROVE  b \in TakenUpTo(s, k)
    OBVIOUS
  <2>1. b \in Taken(s) /\ b[1] \in Nat /\ b[1] <= k - 1
    BY DEF TakenUpTo, Taken
  <2> QED BY <2>1 DEF TakenUpTo
<1>2. IsFiniteSet(TakenUpTo(s, k))
  BY TakenFinite, FS_Subset DEF TakenUpTo
<1> QED
  BY <1>1, <1>2, FS_Subset

\* An entry with a new name may go behind the others, signed only in front.
LEMMA AppendWellFormed ==
    ASSUME NEW s, WellFormed(s), NEW e \in Entry,
           e.name \in Path => e.data \in Data,
           \A n \in DOMAIN s : s[n].name # e.name,
           e.rtk \/ e.name = Root => s = <<>>
    PROVE  WellFormed(Append(s, e))
<1> DEFINE t == Append(s, e)
<1>1. s \in Seq(Entry) /\ Len(s) \in Nat /\ DOMAIN s = 1..Len(s)
  BY DEF WellFormed
<1>2. /\ t \in Seq(Entry) /\ DOMAIN t = 1..(Len(s) + 1)
      /\ t[Len(s) + 1] = e /\ \A n \in DOMAIN s : t[n] = s[n]
  BY <1>1
<1> HIDE DEF t
<1>3. \A n \in DOMAIN t : n \in DOMAIN s \/ n = Len(s) + 1
  BY <1>1, <1>2
<1>4. NamesOnce(t)
  BY <1>1, <1>2, <1>3 DEF NamesOnce, WellFormed
<1>5. ASSUME NEW n \in DOMAIN t
      PROVE  /\ t[n].name \in Path => t[n].data \in Data
             /\ t[n].rtk \/ t[n].name = Root => n = 1
  <2>1. CASE n \in DOMAIN s
    BY <1>2, <2>1 DEF WellFormed
  <2>2. CASE n = Len(s) + 1
    <3>1. e.rtk \/ e.name = Root => Len(s) = 0
      OBVIOUS
    <3> QED BY <1>2, <2>2, <3>1
  <2> QED BY <1>3, <2>1, <2>2
<1> QED
  BY <1>2, <1>4, <1>5 DEF WellFormed, t

-----------------------------------------------------------------------------
(* The archive at the end of a walk *)

\* What the call makes of the archive, part by part.
LEMMA ResultShape ==
    ASSUME NAS, WellFormed(buf), tail \in BOOLEAN,
           call.f \in Path, call.add \in BOOLEAN, call.add => call.d \in Data
    PROVE  /\ Result \in Image
           /\ Result.rooted <=> Abs(buf).rooted /\ call.f \notin RootPrefix
           /\ Result.dups = 0
           /\ \A g \in Path : Result.files[g] =
                 IF call.add /\ g = call.f THEN call.d
                 ELSE IF <<call.f, g>> \in Prefix THEN NoFile ELSE Abs(buf).files[g]
<1> DEFINE a == Abs(buf)
           u == Unmatched(a, call.f, tail)
<1>1. a \in Image
  BY AbsShape
<1> HIDE DEF a
<1>2. /\ u \in Image
      /\ u.rooted <=> a.rooted /\ call.f \notin RootPrefix
      /\ u.dups = 0
      /\ \A g \in Path : u.files[g] = IF <<call.f, g>> \in Prefix THEN NoFile ELSE a.files[g]
  BY <1>1 DEF Unmatched, Image
<1>3. CASE ~call.add
  <2>1. Result = u
    BY <1>3 DEF Result, tar_delete, a
  <2> HIDE DEF u
  <2> QED BY <1>2, <1>3, <2>1 DEF a
<1>4. CASE call.add
  <2>1. Result = [u EXCEPT !.files[call.f] = call.d]
    BY <1>4 DEF Result, tar_add, a
  <2> HIDE DEF u
  <2>2. /\ Result = [u EXCEPT !.files = [u.files EXCEPT ![call.f] = call.d]]
    BY <2>1
  <2> DEFINE w == [u.files EXCEPT ![call.f] = call.d]
  <2>3. /\ w \in [Path -> Data \cup {NoFile}]
        /\ \A g \in Path : w[g] = IF g = call.f THEN call.d ELSE u.files[g]
    BY <1>2, <1>4 DEF Image
  <2> HIDE DEF w
  <2>4. Result = [rooted |-> u.rooted, files |-> w, dups |-> u.dups]
    BY <1>2, <2>2 DEF w, Image
  <2> QED BY <1>2, <1>4, <2>3, <2>4 DEF Image, a
<1> QED
  BY <1>3, <1>4

\* Entries that are the ones that do not match, the first still in front, and
\* the file that was added, stand for that archive.
LEMMA CopyIsResult ==
    ASSUME NAS, WellFormed(buf), tail \in BOOLEAN,
           call.f \in Path, call.add \in BOOLEAN, call.add => call.d \in Data,
           NEW s, WellFormed(s),
           \A n \in DOMAIN buf : ~Matches(buf[n], call.f) =>
              /\ \E m \in DOMAIN s : s[m] = buf[n]
              /\ n = 1 => s # <<>> /\ s[1] = buf[1],
           \A m \in DOMAIN s :
              \/ \E n \in DOMAIN buf : ~Matches(buf[n], call.f) /\ s[m] = buf[n]
              \/ call.add /\ IsNew(s[m]),
           call.add => \E m \in DOMAIN s : IsNew(s[m])
    PROVE  Abs(s) = Result
<1>0. DOMAIN buf = 1..Len(buf) /\ DOMAIN s = 1..Len(s) /\ Len(s) \in Nat /\ Len(buf) \in Nat
      /\ s \in Seq(Entry) /\ buf \in Seq(Entry)
  BY DEF WellFormed
<1>1. Abs(s) \in Image /\ Abs(s).dups = 0
  BY AbsShape
<1>2. Result \in Image /\ Result.dups = 0
  BY ResultShape
<1>3. ASSUME Abs(s).rooted PROVE Result.rooted
  <2>1. s # <<>> /\ s[1].name = Root
    BY <1>3, AbsShape
  <2>2. 1 \in DOMAIN s
    BY <1>0, <2>1
  <2>3. ~IsNew(s[1])
    BY <2>1, WalkAssumption DEF IsNew
  <2>4. PICK n \in DOMAIN buf : ~Matches(buf[n], call.f) /\ s[1] = buf[n]
    BY <2>2, <2>3
  <2>5. buf[n].name = Root /\ n = 1
    BY <2>1, <2>4 DEF WellFormed
  <2>6. call.f \notin RootPrefix
    BY <2>4, <2>5 DEF Matches
  <2>7. buf # <<>> /\ buf[1].name = Root
    BY <1>0, <2>5
  <2>8. Abs(buf).rooted
    BY <2>7, AbsShape
  <2> QED BY <2>6, <2>8, ResultShape
<1>4. ASSUME Result.rooted PROVE Abs(s).rooted
  <2>1. Abs(buf).rooted /\ call.f \notin RootPrefix
    BY <1>4, ResultShape
  <2>2. buf # <<>> /\ buf[1].name = Root
    BY <2>1, AbsShape
  <2>3. 1 \in DOMAIN buf /\ ~Matches(buf[1], call.f)
    BY <1>0, <2>1, <2>2 DEF Matches
  <2>4. s # <<>> /\ s[1] = buf[1]
    BY <2>3
  <2> QED BY <2>2, <2>4, AbsShape
<1>5. ASSUME NEW g \in Path PROVE Abs(s).files[g] = Result.files[g]
  <2>0. /\ \A m \in DOMAIN s : s[m].name = g => Abs(s).files[g] = s[m].data
        /\ (\A m \in DOMAIN s : s[m].name # g) => Abs(s).files[g] = NoFile
        /\ \A n \in DOMAIN buf : buf[n].name = g => Abs(buf).files[g] = buf[n].data
        /\ (\A n \in DOMAIN buf : buf[n].name # g) => Abs(buf).files[g] = NoFile
    BY FileOf
  <2>1. Result.files[g] =
          IF call.add /\ g = call.f THEN call.d
          ELSE IF <<call.f, g>> \in Prefix THEN NoFile ELSE Abs(buf).files[g]
    BY ResultShape
  <2>2. CASE call.add /\ g = call.f
    <3>1. PICK m \in DOMAIN s : s[m].name = call.f /\ s[m].data = call.d
      BY <2>2 DEF IsNew
    <3> QED BY <2>0, <2>1, <2>2, <3>1
  <2>3. CASE ~(call.add /\ g = call.f) /\ <<call.f, g>> \in Prefix
    <3>1. ASSUME NEW m \in DOMAIN s, s[m].name = g PROVE FALSE
      <4>1. CASE call.add /\ IsNew(s[m])
        BY <2>3, <3>1, <4>1 DEF IsNew
      <4>2. CASE \E n \in DOMAIN buf : ~Matches(buf[n], call.f) /\ s[m] = buf[n]
        BY <2>3, <3>1, <4>2, WalkAssumption DEF Matches
      <4> QED BY <4>1, <4>2
    <3>2. Abs(s).files[g] = NoFile
      BY <2>0, <3>1
    <3> QED BY <2>1, <2>3, <3>2
  <2>4. CASE ~(call.add /\ g = call.f) /\ <<call.f, g>> \notin Prefix
    <3>1. Result.files[g] = Abs(buf).files[g]
      BY <2>1, <2>4
    <3>2. CASE \E n \in DOMAIN buf : buf[n].name = g
      <4>1. PICK n \in DOMAIN buf : buf[n].name = g
        BY <3>2
      <4>2. ~Matches(buf[n], call.f)
        BY <2>4, <4>1, WalkAssumption DEF Matches
      <4>3. PICK m \in DOMAIN s : s[m] = buf[n]
        BY <4>2
      <4> QED BY <2>0, <3>1, <4>1, <4>3
    <3>3. CASE \A n \in DOMAIN buf : buf[n].name # g
      <4>1. ASSUME NEW m \in DOMAIN s, s[m].name = g PROVE FALSE
        <5>1. CASE call.add /\ IsNew(s[m])
          BY <2>4, <4>1, <5>1 DEF IsNew
        <5>2. CASE \E n \in DOMAIN buf : ~Matches(buf[n], call.f) /\ s[m] = buf[n]
          BY <3>3, <4>1, <5>2
        <5> QED BY <5>1, <5>2
      <4>2. Abs(s).files[g] = NoFile
        BY <2>0, <4>1
      <4> QED BY <2>0, <3>1, <3>3, <4>2
    <3> QED BY <3>2, <3>3
  <2> QED BY <2>2, <2>3, <2>4
<1> QED
  BY <1>1, <1>2, <1>3, <1>4, <1>5, SameArchive

-----------------------------------------------------------------------------
(* The steps *)

\* The archive that the boot loader starts with.
LEMMA InitStep == Init => IInv
<1> SUFFICES ASSUME Init PROVE IInv
  OBVIOUS
<1>1. RootEntry \in Entry /\ RootEntry.name = Root /\ RootEntry.rtk
  BY DEF RootEntry, Entry
<1>2. WellFormed(<<>>)
  BY DEF WellFormed, NamesOnce
<1>3. buf \in Seq(Entry) /\ DOMAIN buf = 1..1 /\ buf[1] = RootEntry
  BY <1>1 DEF Init
<1>4. WellFormed(buf)
  BY <1>1, <1>3, WalkAssumption DEF WellFormed, NamesOnce
<1>5. Size(buf) = 1
  <2>1. Size(Append(<<>>, RootEntry)) = Size(<<>>) + EntrySize(RootEntry)
    <3>1. <<>> \in Seq(Entry)
      OBVIOUS
    <3>2. RootEntry.name \in Path => RootEntry.data \in Data
      BY <1>1, WalkAssumption
    <3> QED BY <1>1, <3>1, <3>2, AppendSize, Zenon
  <2>2. buf = Append(<<>>, RootEntry)
    BY DEF Init
  <2>3. EntrySize(RootEntry) = 1
    BY <1>1 DEF EntrySize
  <2> QED BY <2>1, <2>2, <2>3, EmptySize
<1>6. Size(buf) + Padding <= TmpLen
  BY <1>5, WalkAssumption DEF Padding
<1>7. Abs(buf) = EmptyImage
  <2>1. EmptyImage \in Image /\ EmptyImage.rooted /\ EmptyImage.dups = 0
        /\ \A f \in Path : EmptyImage.files[f] = NoFile
    BY DEF EmptyImage, Image
  <2>2. Abs(buf) \in Image /\ Abs(buf).dups = 0
    BY <1>4, AbsShape
  <2>3. buf # <<>> /\ buf[1].name = Root
    BY <1>1, <1>3
  <2>4. Abs(buf).rooted
    BY <1>4, <2>3, AbsShape
  <2>5. ASSUME NEW f \in Path PROVE Abs(buf).files[f] = NoFile
    <3>1. \A n \in DOMAIN buf : buf[n].name # f
      BY <1>1, <1>3, WalkAssumption
    <3> QED BY <1>4, <3>1, FileOf
  <2> QED BY <2>1, <2>2, <2>4, <2>5, SameArchive
<1> QED
  BY <1>2, <1>4, <1>6, <1>7 DEF Init, IInv

\* A call starts with nothing copied.
LEMMA CallStep ==
    ASSUME IInv, NEW f \in Path, NEW d, NEW add \in BOOLEAN, Call(f, d, add),
           add => d \in Data /\ Blocks[d] + Size(buf) + 1 + Padding <= TmpLen
    PROVE  IInv'
<1>1. /\ buf' = buf /\ tail' = tail /\ tmp' = <<>> /\ i' = 1 /\ done' = FALSE
      /\ pc' = "walk" /\ pc = "idle" /\ im = Abs(buf)
      /\ call'.f = f /\ call'.d = d /\ call'.add = add
  BY DEF Call, IInv
<1>2. WellFormed(buf)' /\ WellFormed(tmp)'
  BY <1>1 DEF WellFormed, NamesOnce, IInv
<1>3. Arguments'
  BY <1>1 DEF Arguments, Size, Taken, EntrySize
<1>4. Met' = Met /\ Len(Met) \in Nat
  BY <1>1, MetShape DEF Met, IInv
<1>5. Copied'
  <2>1. 1 <= Len(Met) + 1
    BY <1>4
  <2>2. \A n \in DOMAIN Met : ~(n < 1)
    BY MetShape DEF IInv
  <2>3. \A n \in DOMAIN buf : ~(n < 1)
    BY MetShape DEF IInv
  <2>4. DOMAIN tmp' = {}
    BY <1>1
  <2> QED BY <1>1, <1>4, <2>1, <2>2, <2>3, <2>4 DEF Copied
<1>6. CopyFits'
  <2>1. Cardinality(TakenUpTo(buf, 0)) \in Nat
    BY UpToBound DEF IInv, WellFormed
  <2>2. Size(tmp)' = 0
    BY <1>1, EmptySize DEF Size, Taken
  <2>3. TakenUpTo(buf, i - 1)' = TakenUpTo(buf, 0)
    BY <1>1 DEF TakenUpTo, Taken, EntrySize
  <2> QED BY <1>1, <2>1, <2>2, <2>3 DEF CopyFits
<1>7. im' = Result'
  <2>1. im' = IF add THEN tar_add(Abs(buf), f, d, tail) ELSE tar_delete(Abs(buf), f, tail)
    BY <1>1 DEF Call
  <2>2. Abs(buf)' = Abs(buf)
    BY <1>1 DEF Abs
  <2> QED BY <1>1, <2>1, <2>2 DEF Result, tar_add, tar_delete, Unmatched
<1>8. Size(buf)' = Size(buf)
  BY <1>1 DEF Size, Taken, EntrySize
<1> QED
  BY <1>1, <1>2, <1>3, <1>5, <1>6, <1>7, <1>8 DEF IInv

\* While a walk is on, nothing but the copy changes.
LEMMA WalkFrame ==
    ASSUME IInv, UNCHANGED <<buf, tail, call, pc, im>>
    PROVE  /\ WellFormed(buf)' /\ tail' \in BOOLEAN /\ (tail' => buf' # <<>>)
           /\ (Size(buf) + Padding <= TmpLen)'
           /\ Arguments <=> Arguments'
           /\ Met' = Met /\ Result' = Result
           /\ \A k : TakenUpTo(buf, k)' = TakenUpTo(buf, k')
<1>1. buf' = buf /\ tail' = tail /\ call' = call /\ im' = im
  OBVIOUS
<1>2. Size(buf)' = Size(buf)
  BY <1>1 DEF Size, Taken, EntrySize
<1>3. Abs(buf)' = Abs(buf)
  BY <1>1 DEF Abs
<1>4. Result' = Result
  BY <1>1, <1>3 DEF Result, tar_add, tar_delete, Unmatched
<1>5. Met' = Met
  BY <1>1 DEF Met
<1>6. WellFormed(buf)'
  BY <1>1 DEF IInv, WellFormed, NamesOnce
<1> QED
  BY <1>1, <1>2, <1>4, <1>5, <1>6 DEF IInv, Arguments, TakenUpTo, Taken, EntrySize

\* Nothing has been copied before the first entry is met.
LEMMA NothingYet ==
    ASSUME IInv, pc = "walk", i = 1
    PROVE  tmp = <<>>
<1>1. \A n \in DOMAIN Met : ~(n < i)
  BY MetShape DEF IInv
<1>2. \A n \in DOMAIN buf : ~(n < i)
  BY MetShape DEF IInv
<1>3. ~done
  BY <1>1 DEF IInv, Copied
<1>4. \A m \in DOMAIN tmp : FALSE
  BY <1>2, <1>3 DEF IInv, Copied
<1>5. tmp \in Seq(Entry) /\ Len(tmp) \in Nat /\ DOMAIN tmp = 1..Len(tmp)
  BY DEF IInv, WellFormed
<1>6. Len(tmp) = 0
  BY <1>4, <1>5
<1> QED
  BY <1>5, <1>6

\* What a step of the loop does to the copy: it stays as it is, or e is
\* appended, an entry that the copy does not hold.
LEMMA GrownCopy ==
    ASSUME IInv, pc = "walk", NEW e \in Entry,
           e.name \in Path => e.data \in Data,
           \A m \in DOMAIN tmp : tmp[m].name # e.name,
           e.rtk \/ e.name = Root => i = 1,
           tmp' = Append(tmp, e)
    PROVE  /\ WellFormed(tmp)' /\ Size(tmp)' = Size(tmp) + EntrySize(e)
           /\ tmp' # <<>> /\ Len(tmp) \in Nat /\ Len(tmp) + 1 \in DOMAIN tmp'
           /\ tmp'[Len(tmp) + 1] = e
           /\ \A m \in DOMAIN tmp : m \in DOMAIN tmp' /\ tmp'[m] = tmp[m]
           /\ \A m \in DOMAIN tmp' : m \in DOMAIN tmp \/ m = Len(tmp) + 1
           /\ tmp # <<>> => tmp'[1] = tmp[1]
           /\ i = 1 => tmp'[1] = e
           /\ Size(tmp) \in Nat /\ EntrySize(e) \in Nat
<1>1. WellFormed(tmp) /\ tmp \in Seq(Entry)
  BY DEF IInv, WellFormed
<1>2. i = 1 => tmp = <<>>
  BY NothingYet
<1>3. WellFormed(Append(tmp, e))
  BY <1>1, <1>2, AppendWellFormed
<1>4. Size(Append(tmp, e)) = Size(tmp) + EntrySize(e)
  BY <1>1, AppendSize
<1>5. WellFormed(tmp)' /\ Size(tmp)' = Size(tmp) + EntrySize(e)
  BY <1>3, <1>4 DEF WellFormed, NamesOnce, Size, Taken, EntrySize
<1>6. Size(tmp) \in Nat /\ EntrySize(e) \in Nat
  BY <1>1, TakenFinite, EntrySizeType, TarAssumption
<1> QED
  BY <1>1, <1>2, <1>5, <1>6

\* How far the walk has come after a step of the loop.
LEMMA CopiedNext ==
    ASSUME IInv, pc = "walk", UNCHANGED <<buf, tail, call, pc, im>>,
           i \in Nat, i <= Len(Met), i' = i + 1,
           done' <=> call.add /\ \E n \in DOMAIN Met : n < i + 1 /\ Matches(Met[n], call.f),
           \A n \in DOMAIN buf : n < i + 1 /\ ~Matches(buf[n], call.f) =>
              /\ \E m \in DOMAIN tmp' : tmp'[m] = buf[n]
              /\ n = 1 => tmp' # <<>> /\ tmp'[1] = buf[1],
           \A m \in DOMAIN tmp' :
              \/ \E n \in DOMAIN buf : n < i + 1 /\ ~Matches(buf[n], call.f) /\ tmp'[m] = buf[n]
              \/ done' /\ IsNew(tmp'[m]),
           done' => \E m \in DOMAIN tmp' : IsNew(tmp'[m])
    PROVE  Copied'
<1>1. buf' = buf /\ call' = call /\ Met' = Met /\ Len(Met) \in Nat
  BY WalkFrame, MetShape DEF IInv
<1>2. (i \in Nat /\ 1 <= i /\ i <= Len(Met) + 1)'
  BY <1>1
<1>3. (done <=> call.add /\ \E n \in DOMAIN Met : n < i /\ Matches(Met[n], call.f))'
  BY <1>1, Zenon
<1>4. (\A n \in DOMAIN buf : n < i /\ ~Matches(buf[n], call.f) =>
          /\ \E m \in DOMAIN tmp : tmp[m] = buf[n]
          /\ n = 1 => tmp # <<>> /\ tmp[1] = buf[1])'
  BY <1>1, Zenon
<1>5. (\A m \in DOMAIN tmp :
          \/ \E n \in DOMAIN buf : n < i /\ ~Matches(buf[n], call.f) /\ tmp[m] = buf[n]
          \/ done /\ IsNew(tmp[m]))'
  BY <1>1, Zenon DEF IsNew
<1>6. (done => \E m \in DOMAIN tmp : IsNew(tmp[m]))'
  BY <1>1, Zenon DEF IsNew
<1> QED
  BY <1>2, <1>3, <1>4, <1>5, <1>6, Zenon DEF Copied

\* An entry that matches is replaced by the file, the first time, or dropped.
LEMMA MatchStep ==
    ASSUME NAS, IInv, WalkMatch
    PROVE  IInv'
<1> DEFINE e == [name |-> call.f, data |-> call.d, rtk |-> Met[i].rtk]
<1>0. /\ pc = "walk" /\ pc' = "walk" /\ i <= Len(Met) /\ Matches(Met[i], call.f)
      /\ i' = i + 1 /\ done' = (done \/ call.add) /\ call' = call /\ buf' = buf
      /\ tail' = tail /\ im' = im
      /\ tmp' = IF call.add /\ ~done THEN Append(tmp, e) ELSE tmp
  BY DEF WalkMatch
<1> HIDE DEF e
<1>1. /\ Arguments /\ Copied /\ CopyFits /\ im = Result /\ WellFormed(tmp)
      /\ tail \in BOOLEAN /\ done \in BOOLEAN /\ buf \in Seq(Entry)
      /\ i \in Nat /\ i >= 1
  BY <1>0 DEF IInv, WellFormed, Copied
<1>2. /\ Met \in Seq(Entry) /\ Len(Met) \in Nat /\ DOMAIN Met = 1..Len(Met)
      /\ \A n \in DOMAIN buf : n \in Nat /\ n \in DOMAIN Met /\ Met[n] = buf[n]
      /\ i \in DOMAIN Met
  BY <1>0, <1>1, MetShape DEF IInv
<1>3. /\ WellFormed(buf)' /\ tail' \in BOOLEAN /\ (tail' => buf' # <<>>)
      /\ (Size(buf) + Padding <= TmpLen)' /\ Arguments' /\ Met' = Met /\ Result' = Result
      /\ TakenUpTo(buf, i - 1)' = TakenUpTo(buf, i' - 1)
  BY <1>0, <1>1, WalkFrame
<1>4. /\ Cardinality(TakenUpTo(buf, i - 1)) \in Nat
      /\ Cardinality(TakenUpTo(buf, i)) \in Nat
      /\ Cardinality(TakenUpTo(buf, i - 1)) <= Cardinality(TakenUpTo(buf, i))
      /\ TakenUpTo(buf, i - 1)' = TakenUpTo(buf, i)
  <2>1. i' - 1 = i
    BY <1>0, <1>1
  <2> QED BY <1>1, <1>3, <2>1, UpToBound, UpToGrows
<1>5. /\ done' \in BOOLEAN
      /\ done' <=> call.add /\ \E n \in DOMAIN Met : n < i + 1 /\ Matches(Met[n], call.f)
  <2>1. i < i + 1 /\ \A n \in DOMAIN Met : n < i => n < i + 1
    BY <1>1, <1>2
  <2> QED BY <1>0, <1>1, <1>2, <2>1 DEF Copied, Arguments
<1>6. \A n \in DOMAIN buf : n < i + 1 /\ ~Matches(buf[n], call.f) => n < i
  BY <1>0, <1>1, <1>2
<1>7. \A n \in DOMAIN buf : n < i => n < i + 1
  BY <1>1, <1>2
<1>8. CASE call.add /\ ~done
  <2>1. i \in DOMAIN buf
    <3> SUFFICES ASSUME i \notin DOMAIN buf PROVE FALSE
      OBVIOUS
    <3>1. 1 \in DOMAIN buf /\ i > 1 /\ Met[i] = Signed(buf[1])
      BY <1>1, <1>2, MetShape DEF IInv
    <3>2. Matches(Met[1], call.f) /\ 1 \in DOMAIN Met /\ 1 < i
      BY <1>0, <1>2, <3>1, TailMatches
    <3> QED BY <1>1, <1>8, <3>2 DEF Copied
  <2>2. call.f \in Path /\ call.d \in Data
    BY <1>1, <1>8 DEF Arguments
  <2>3. Met[i] \in Entry /\ Met[i].rtk \in BOOLEAN
    <3>1. Met[i] \in Entry
      BY <1>2
    <3> QED BY <3>1 DEF Entry
  <2>4. e \in Entry /\ e.name = call.f /\ e.data = call.d /\ e.rtk = Met[i].rtk
    BY <2>2, <2>3 DEF e, Entry
  <2>5. ASSUME NEW m \in DOMAIN tmp PROVE tmp[m].name # e.name
    <3>1. PICK n \in DOMAIN buf : ~Matches(buf[n], call.f) /\ tmp[m] = buf[n]
      BY <1>1, <1>8 DEF Copied
    <3> QED BY <2>2, <2>4, <3>1, OwnName
  <2>6. e.rtk \/ e.name = Root => i = 1
    BY <1>2, <2>1, <2>2, <2>4, WalkAssumption DEF IInv, WellFormed
  <2>7. tmp' = Append(tmp, e)
    BY <1>0, <1>8
  <2>8. /\ WellFormed(tmp)' /\ Size(tmp)' = Size(tmp) + EntrySize(e)
        /\ tmp' # <<>> /\ Len(tmp) \in Nat /\ Len(tmp) + 1 \in DOMAIN tmp'
        /\ tmp'[Len(tmp) + 1] = e
        /\ \A m \in DOMAIN tmp : m \in DOMAIN tmp' /\ tmp'[m] = tmp[m]
        /\ \A m \in DOMAIN tmp' : m \in DOMAIN tmp \/ m = Len(tmp) + 1
        /\ tmp # <<>> => tmp'[1] = tmp[1]
        /\ Size(tmp) \in Nat /\ EntrySize(e) \in Nat
    BY <1>0, <2>2, <2>4, <2>5, <2>6, <2>7, GrownCopy
  <2>9. IsNew(e) /\ EntrySize(e) = 1 + Blocks[call.d]
    BY <2>2, <2>4, WalkAssumption DEF IsNew, EntrySize
  <2>10. \A n \in DOMAIN buf : n < i + 1 /\ ~Matches(buf[n], call.f) =>
            /\ \E m \in DOMAIN tmp' : tmp'[m] = buf[n]
            /\ n = 1 => tmp' # <<>> /\ tmp'[1] = buf[1]
    <3> SUFFICES ASSUME NEW n \in DOMAIN buf, n < i + 1, ~Matches(buf[n], call.f)
                 PROVE  /\ \E m \in DOMAIN tmp' : tmp'[m] = buf[n]
                        /\ n = 1 => tmp' # <<>> /\ tmp'[1] = buf[1]
      OBVIOUS
    <3>1. /\ \E m \in DOMAIN tmp : tmp[m] = buf[n]
          /\ n = 1 => tmp # <<>> /\ tmp[1] = buf[1]
      BY <1>1, <1>6 DEF Copied
    <3> QED BY <2>8, <3>1
  <2>11. \A m \in DOMAIN tmp' :
            \/ \E n \in DOMAIN buf : n < i + 1 /\ ~Matches(buf[n], call.f) /\ tmp'[m] = buf[n]
            \/ done' /\ IsNew(tmp'[m])
    <3> SUFFICES ASSUME NEW m \in DOMAIN tmp'
                 PROVE
            \/ \E n \in DOMAIN buf : n < i + 1 /\ ~Matches(buf[n], call.f) /\ tmp'[m] = buf[n]
            \/ done' /\ IsNew(tmp'[m])
      OBVIOUS
    <3>1. CASE m \in DOMAIN tmp
      <4>1. \E n \in DOMAIN buf : n < i /\ ~Matches(buf[n], call.f) /\ tmp[m] = buf[n]
        BY <1>1, <1>8, <3>1 DEF Copied
      <4> QED BY <1>7, <2>8, <3>1, <4>1
    <3>2. CASE m = Len(tmp) + 1
      BY <1>0, <1>8, <2>8, <2>9, <3>2
    <3> QED BY <2>8, <3>1, <3>2
  <2>12. Copied'
    <3>1. \E m \in DOMAIN tmp' : IsNew(tmp'[m])
      BY <2>8, <2>9
    <3> QED BY <1>0, <1>1, <1>5, <2>10, <2>11, <3>1, CopiedNext
  <2>13. CopyFits'
    <3>1. Size(tmp) <= Cardinality(TakenUpTo(buf, i - 1))
      BY <1>1, <1>4, <1>8, <2>8 DEF CopyFits
    <3>2. done' = TRUE
      BY <1>0, <1>8
    <3>3. Blocks[call.d] \in Nat
      BY <2>2, TarAssumption
    <3> QED BY <1>0, <1>4, <2>8, <2>9, <3>1, <3>2, <3>3 DEF CopyFits
  <2> QED BY <1>0, <1>1, <1>3, <1>5, <2>8, <2>12, <2>13 DEF IInv
<1>9. CASE ~(call.add /\ ~done)
  <2>1. tmp' = tmp /\ done' = done
    BY <1>0, <1>1, <1>9 DEF Copied, Arguments
  <2>2. WellFormed(tmp)' /\ Size(tmp)' = Size(tmp)
    BY <1>1, <2>1 DEF WellFormed, NamesOnce, Size, Taken, EntrySize
  <2>3. Copied'
    <3>1. \A n \in DOMAIN buf : n < i + 1 /\ ~Matches(buf[n], call.f) =>
              /\ \E m \in DOMAIN tmp : tmp[m] = buf[n]
              /\ n = 1 => tmp # <<>> /\ tmp[1] = buf[1]
      BY <1>1, <1>6 DEF Copied
    <3>2. \A m \in DOMAIN tmp :
            \/ \E n \in DOMAIN buf : n < i + 1 /\ ~Matches(buf[n], call.f) /\ tmp[m] = buf[n]
            \/ done /\ IsNew(tmp[m])
      BY <1>1, <1>7 DEF Copied
    <3>3. done => \E m \in DOMAIN tmp : IsNew(tmp[m])
      BY <1>1 DEF Copied
    <3> QED BY <1>0, <1>1, <1>5, <2>1, <3>1, <3>2, <3>3, CopiedNext
  <2>4. CopyFits'
    <3>1. Size(tmp) \in Nat
      BY <1>1, TakenFinite DEF WellFormed
    <3>2. done => Blocks[call.d] \in Nat
      BY <1>1, TarAssumption DEF Copied, Arguments
    <3> QED BY <1>0, <1>1, <1>4, <2>1, <2>2, <3>1, <3>2 DEF CopyFits
  <2> QED BY <1>0, <1>1, <1>3, <2>1, <2>2, <2>3, <2>4 DEF IInv
<1> QED
  BY <1>8, <1>9

\* Any other entry is kept, but for the copy of the first.
LEMMA KeepStep ==
    ASSUME NAS, IInv, WalkKeep
    PROVE  IInv'
<1> DEFINE e == Met[i]
<1>0. /\ pc = "walk" /\ pc' = "walk" /\ i <= Len(Met) /\ ~Matches(e, call.f)
      /\ i' = i + 1 /\ done' = done /\ call' = call /\ buf' = buf
      /\ tail' = tail /\ im' = im
      /\ tmp' = IF e.rtk /\ i > 1 THEN tmp ELSE Append(tmp, e)
  BY DEF WalkKeep
<1>1. /\ Arguments /\ Copied /\ CopyFits /\ im = Result /\ WellFormed(tmp)
      /\ tail \in BOOLEAN /\ done \in BOOLEAN /\ buf \in Seq(Entry)
      /\ i \in Nat /\ i >= 1
  BY <1>0 DEF IInv, WellFormed, Copied
<1>2. /\ Met \in Seq(Entry) /\ Len(Met) \in Nat /\ DOMAIN Met = 1..Len(Met)
      /\ \A n \in DOMAIN Met : n \in Nat
      /\ \A n \in DOMAIN buf : n \in Nat /\ n \in DOMAIN Met /\ Met[n] = buf[n]
      /\ i \in DOMAIN Met
  BY <1>0, <1>1, MetShape DEF IInv
<1>3. /\ WellFormed(buf)' /\ tail' \in BOOLEAN /\ (tail' => buf' # <<>>)
      /\ (Size(buf) + Padding <= TmpLen)' /\ Arguments' /\ Met' = Met /\ Result' = Result
      /\ TakenUpTo(buf, i - 1)' = TakenUpTo(buf, i' - 1)
  BY <1>0, <1>1, WalkFrame
<1>4. /\ Cardinality(TakenUpTo(buf, i - 1)) \in Nat
      /\ Cardinality(TakenUpTo(buf, i)) \in Nat
      /\ Cardinality(TakenUpTo(buf, i - 1)) <= Cardinality(TakenUpTo(buf, i))
      /\ TakenUpTo(buf, i - 1)' = TakenUpTo(buf, i)
  <2>1. i' - 1 = i
    BY <1>0, <1>1
  <2> QED BY <1>1, <1>3, <2>1, UpToBound, UpToGrows
<1>5. done' <=> call.add /\ \E n \in DOMAIN Met : n < i + 1 /\ Matches(Met[n], call.f)
  <2>1. \A n \in DOMAIN Met : n < i + 1 <=> n < i \/ n = i
    BY <1>1, <1>2
  <2> QED BY <1>0, <1>1, <1>2, <2>1 DEF Copied
<1>6. \A n \in DOMAIN buf : n < i + 1 <=> n < i \/ n = i
  BY <1>1, <1>2
<1>7. done => Blocks[call.d] \in Nat
  BY <1>1, TarAssumption DEF Copied, Arguments
<1> HIDE DEF e
<1>8. CASE i \notin DOMAIN buf
  <2>1. i > 1 /\ e.rtk
    BY <1>1, <1>2, <1>8, MetShape, TailMatches DEF IInv, e
  <2>2. tmp' = tmp
    BY <1>0, <2>1
  <2>3. WellFormed(tmp)' /\ Size(tmp)' = Size(tmp)
    BY <1>1, <2>2 DEF WellFormed, NamesOnce, Size, Taken, EntrySize
  <2>4. \A n \in DOMAIN buf : n < i + 1 <=> n < i
    BY <1>6, <1>8
  <2>5. Copied'
    <3>1. \A n \in DOMAIN buf : n < i + 1 /\ ~Matches(buf[n], call.f) =>
              /\ \E m \in DOMAIN tmp : tmp[m] = buf[n]
              /\ n = 1 => tmp # <<>> /\ tmp[1] = buf[1]
      BY <1>1, <2>4 DEF Copied
    <3>2. \A m \in DOMAIN tmp :
            \/ \E n \in DOMAIN buf : n < i + 1 /\ ~Matches(buf[n], call.f) /\ tmp[m] = buf[n]
            \/ done /\ IsNew(tmp[m])
      BY <1>1, <2>4 DEF Copied
    <3>3. done => \E m \in DOMAIN tmp : IsNew(tmp[m])
      BY <1>1 DEF Copied
    <3> QED BY <1>0, <1>1, <1>5, <2>2, <3>1, <3>2, <3>3, CopiedNext
  <2>6. CopyFits'
    <3>1. Size(tmp) \in Nat
      BY <1>1, TakenFinite DEF WellFormed
    <3> QED BY <1>0, <1>1, <1>4, <1>7, <2>3, <3>1 DEF CopyFits
  <2> QED BY <1>0, <1>1, <1>3, <2>3, <2>5, <2>6 DEF IInv
<1>9. CASE i \in DOMAIN buf
  <2>1. /\ e = buf[i] /\ e \in Entry
        /\ e.name \in Path => e.data \in Data
        /\ e.rtk \/ e.name = Root => i = 1
    BY <1>1, <1>2, <1>9 DEF IInv, WellFormed, e
  <2>2. tmp' = Append(tmp, e)
    BY <1>0, <2>1
  <2>3. ASSUME NEW m \in DOMAIN tmp PROVE tmp[m].name # e.name
    <3>1. CASE \E n \in DOMAIN buf : n < i /\ ~Matches(buf[n], call.f) /\ tmp[m] = buf[n]
      <4>1. PICK n \in DOMAIN buf : n < i /\ tmp[m] = buf[n]
        BY <3>1
      <4>2. n # i
        BY <1>1, <1>2, <4>1
      <4> QED BY <1>9, <2>1, <4>1, <4>2 DEF IInv, WellFormed, NamesOnce
    <3>2. CASE done /\ IsNew(tmp[m])
      <4>1. tmp[m].name = call.f /\ call.f \in Path
        BY <1>1, <3>2 DEF IsNew, Arguments
      <4> QED BY <1>0, <4>1, OwnName
    <3> QED BY <1>1, <3>1, <3>2 DEF Copied
  <2>4. /\ WellFormed(tmp)' /\ Size(tmp)' = Size(tmp) + EntrySize(e)
        /\ tmp' # <<>> /\ Len(tmp) \in Nat /\ Len(tmp) + 1 \in DOMAIN tmp'
        /\ tmp'[Len(tmp) + 1] = e
        /\ \A m \in DOMAIN tmp : m \in DOMAIN tmp' /\ tmp'[m] = tmp[m]
        /\ \A m \in DOMAIN tmp' : m \in DOMAIN tmp \/ m = Len(tmp) + 1
        /\ tmp # <<>> => tmp'[1] = tmp[1]
        /\ i = 1 => tmp'[1] = e
        /\ Size(tmp) \in Nat /\ EntrySize(e) \in Nat
    <3>1. e \in Entry /\ (e.name \in Path => e.data \in Data) /\ (e.rtk \/ e.name = Root => i = 1)
      BY <2>1
    <3> QED BY <1>0, <2>2, <2>3, <3>1, GrownCopy
  <2>5. \A n \in DOMAIN buf : n < i + 1 /\ ~Matches(buf[n], call.f) =>
            /\ \E m \in DOMAIN tmp' : tmp'[m] = buf[n]
            /\ n = 1 => tmp' # <<>> /\ tmp'[1] = buf[1]
    <3> SUFFICES ASSUME NEW n \in DOMAIN buf, n < i + 1, ~Matches(buf[n], call.f)
                 PROVE  /\ \E m \in DOMAIN tmp' : tmp'[m] = buf[n]
                        /\ n = 1 => tmp' # <<>> /\ tmp'[1] = buf[1]
      OBVIOUS
    <3>1. CASE n < i
      <4>1. /\ \E m \in DOMAIN tmp : tmp[m] = buf[n]
            /\ n = 1 => tmp # <<>> /\ tmp[1] = buf[1]
        BY <1>1, <3>1 DEF Copied
      <4> QED BY <2>4, <4>1
    <3>2. CASE n = i
      BY <2>1, <2>4, <3>2
    <3> QED BY <1>6, <3>1, <3>2
  <2>6. \A m \in DOMAIN tmp' :
            \/ \E n \in DOMAIN buf : n < i + 1 /\ ~Matches(buf[n], call.f) /\ tmp'[m] = buf[n]
            \/ done' /\ IsNew(tmp'[m])
    <3> SUFFICES ASSUME NEW m \in DOMAIN tmp'
                 PROVE
            \/ \E n \in DOMAIN buf : n < i + 1 /\ ~Matches(buf[n], call.f) /\ tmp'[m] = buf[n]
            \/ done' /\ IsNew(tmp'[m])
      OBVIOUS
    <3>1. CASE m \in DOMAIN tmp
      <4>1. \/ \E n \in DOMAIN buf : n < i /\ ~Matches(buf[n], call.f) /\ tmp[m] = buf[n]
            \/ done /\ IsNew(tmp[m])
        BY <1>1, <3>1 DEF Copied
      <4> QED BY <1>0, <1>6, <2>4, <3>1, <4>1
    <3>2. CASE m = Len(tmp) + 1
      BY <1>0, <1>6, <1>9, <2>1, <2>4, <3>2
    <3> QED BY <2>4, <3>1, <3>2
  <2>7. Copied'
    <3>1. done' => \E m \in DOMAIN tmp' : IsNew(tmp'[m])
      BY <1>0, <1>1, <2>4 DEF Copied
    <3> QED BY <1>0, <1>1, <1>5, <2>5, <2>6, <3>1, CopiedNext
  <2>8. CopyFits'
    <3>1. Cardinality(TakenUpTo(buf, i)) = Cardinality(TakenUpTo(buf, i - 1)) + EntrySize(e)
      BY <1>1, <1>9, <2>1, UpToStep
    <3> DEFINE room == IF done THEN 1 + Blocks[call.d] ELSE 0
    <3>2. room \in Nat
      BY <1>7
    <3>3. Size(tmp) <= Cardinality(TakenUpTo(buf, i - 1)) + room
      BY <1>1 DEF CopyFits
    <3>4. room' = room
      BY <1>0
    <3> HIDE DEF room
    <3>5. Size(tmp)' <= Cardinality(TakenUpTo(buf, i)) + room'
      BY <1>4, <2>4, <3>1, <3>2, <3>3, <3>4
    <3> QED BY <1>4, <3>5 DEF CopyFits, room
  <2> QED BY <1>0, <1>1, <1>3, <2>4, <2>7, <2>8 DEF IInv
<1> QED
  BY <1>8, <1>9

\* The copy, and the file if it replaced nothing, is the new archive.
LEMMA EndStep ==
    ASSUME NAS, IInv, WalkEnd
    PROVE  IInv'
<1> DEFINE e == [name |-> call.f, data |-> call.d, rtk |-> FALSE]
<1>0. /\ pc = "walk" /\ i > Len(Met) /\ pc' = "idle" /\ tmp' = <<>> /\ i' = 1
      /\ done' = FALSE /\ tail' = FALSE /\ im' = im
      /\ buf' = IF call.add /\ ~done THEN Append(tmp, e) ELSE tmp
  BY DEF WalkEnd
<1> HIDE DEF e
<1>1. /\ Arguments /\ Copied /\ CopyFits /\ im = Result
      /\ WellFormed(tmp) /\ tmp \in Seq(Entry)
      /\ WellFormed(buf) /\ buf \in Seq(Entry)
      /\ tail \in BOOLEAN /\ done \in BOOLEAN /\ i \in Nat
      /\ Size(buf) + Padding <= TmpLen
      /\ call.f \in Path /\ call.add \in BOOLEAN
      /\ call.add => call.d \in Data
  BY <1>0 DEF IInv, WellFormed, Copied, Arguments
<1>2. \A n \in DOMAIN buf : n < i
  BY <1>0, <1>1, MetShape DEF IInv
<1>3. /\ Size(tmp) \in Nat /\ Size(buf) \in Nat
      /\ Padding \in Nat /\ TmpLen \in Nat
      /\ Cardinality(TakenUpTo(buf, i - 1)) \in Nat
      /\ Cardinality(TakenUpTo(buf, i - 1)) <= Size(buf)
  BY <1>1, TakenFinite, UpToBound, WalkAssumption DEF Padding
<1>4. /\ WellFormed(buf')
      /\ Size(buf') + Padding <= TmpLen
      /\ Abs(buf') = Result
  <2>1. CASE call.add /\ ~done
    <3>1. e \in Entry /\ e.name = call.f /\ e.data = call.d /\ e.rtk = FALSE
      BY <1>1, <2>1 DEF e, Entry
    <3>2. ASSUME NEW m \in DOMAIN tmp PROVE tmp[m].name # e.name
      <4>1. PICK n \in DOMAIN buf : ~Matches(buf[n], call.f) /\ tmp[m] = buf[n]
        BY <1>1, <2>1 DEF Copied
      <4> QED BY <1>1, <3>1, <4>1, OwnName
    <3>3. e.name \in Path => e.data \in Data
      BY <1>1, <2>1, <3>1
    <3>4. ~(e.rtk \/ e.name = Root)
      BY <1>1, <3>1, WalkAssumption
    <3>5. WellFormed(Append(tmp, e))
      BY <1>1, <3>1, <3>2, <3>3, <3>4, AppendWellFormed
    <3>6. Size(Append(tmp, e)) = Size(tmp) + EntrySize(e)
      BY <1>1, <3>1, <3>3, AppendSize
    <3>7. EntrySize(e) = 1 + Blocks[call.d] /\ Blocks[call.d] \in Nat
      BY <1>1, <2>1, <3>1, <3>4, TarAssumption DEF EntrySize
    <3>8. Size(tmp) <= Size(buf)
      BY <1>1, <1>3, <2>1 DEF CopyFits
    <3>9. Blocks[call.d] + Size(buf) + 1 + Padding <= TmpLen
      BY <1>1, <2>1 DEF Arguments
    <3>10. Size(Append(tmp, e)) + Padding <= TmpLen
      BY <1>3, <3>6, <3>7, <3>8, <3>9
    <3> DEFINE s == Append(tmp, e)
    <3>11. /\ Len(tmp) \in Nat /\ Len(tmp) + 1 \in DOMAIN s /\ s # <<>>
           /\ s[Len(tmp) + 1] = e
           /\ \A m \in DOMAIN tmp : m \in DOMAIN s /\ s[m] = tmp[m]
           /\ \A m \in DOMAIN s : m \in DOMAIN tmp \/ m = Len(tmp) + 1
           /\ tmp # <<>> => s[1] = tmp[1]
      <4>1. Len(tmp) \in Nat /\ DOMAIN tmp = 1..Len(tmp)
        BY <1>1
      <4>2. DOMAIN s = 1..(Len(tmp) + 1) /\ s[Len(tmp) + 1] = e
        BY <1>1, <3>1
      <4>3. \A m \in DOMAIN tmp : m \in DOMAIN s /\ s[m] = tmp[m]
        BY <1>1, <3>1, <4>1
      <4>4. \A m \in DOMAIN s : m \in DOMAIN tmp \/ m = Len(tmp) + 1
        BY <4>1, <4>2
      <4>5. tmp # <<>> => 1 \in DOMAIN tmp
        BY <1>1, <4>1
      <4>6. s # <<>>
        BY <1>1, <3>1
      <4> QED BY <4>1, <4>2, <4>3, <4>4, <4>5, <4>6
    <3> HIDE DEF s
    <3>12. \A n \in DOMAIN buf : ~Matches(buf[n], call.f) =>
              /\ \E m \in DOMAIN s : s[m] = buf[n]
              /\ n = 1 => s # <<>> /\ s[1] = buf[1]
      <4> SUFFICES ASSUME NEW n \in DOMAIN buf, ~Matches(buf[n], call.f)
                   PROVE  /\ \E m \in DOMAIN s : s[m] = buf[n]
                          /\ n = 1 => s # <<>> /\ s[1] = buf[1]
        OBVIOUS
      <4>1. /\ \E m \in DOMAIN tmp : tmp[m] = buf[n]
            /\ n = 1 => tmp # <<>> /\ tmp[1] = buf[1]
        BY <1>1, <1>2 DEF Copied
      <4> QED BY <3>11, <4>1
    <3>13. IsNew(e)
      BY <3>1 DEF IsNew
    <3>14. \A m \in DOMAIN s :
              \/ \E n \in DOMAIN buf : ~Matches(buf[n], call.f) /\ s[m] = buf[n]
              \/ call.add /\ IsNew(s[m])
      <4> SUFFICES ASSUME NEW m \in DOMAIN s
                   PROVE  \/ \E n \in DOMAIN buf : ~Matches(buf[n], call.f) /\ s[m] = buf[n]
                          \/ call.add /\ IsNew(s[m])
        OBVIOUS
      <4>1. CASE m \in DOMAIN tmp
        BY <1>1, <2>1, <3>11, <4>1 DEF Copied
      <4>2. CASE m = Len(tmp) + 1
        BY <2>1, <3>11, <3>13, <4>2
      <4> QED BY <3>11, <4>1, <4>2
    <3>15. \E m \in DOMAIN s : IsNew(s[m])
      BY <3>11, <3>13
    <3>16. Abs(s) = Result
      BY <1>1, <3>5, <3>12, <3>14, <3>15, CopyIsResult DEF s
    <3>17. buf' = Append(tmp, e)
      BY <1>0, <2>1
    <3> QED BY <3>5, <3>10, <3>16, <3>17 DEF s
  <2>2. CASE ~(call.add /\ ~done)
    <3>1. buf' = tmp
      BY <1>0, <2>2
    <3>2. done <=> call.add
      BY <1>1, <2>2 DEF Copied
    <3>3. Size(tmp) + Padding <= TmpLen
      <4>1. CASE done
        <5>1. Blocks[call.d] \in Nat /\ Blocks[call.d] + Size(buf) + 1 + Padding <= TmpLen
          BY <1>1, <3>2, <4>1, TarAssumption DEF Arguments
        <5>2. Size(tmp) <= Cardinality(TakenUpTo(buf, i - 1)) + (1 + Blocks[call.d])
          BY <1>1, <4>1 DEF CopyFits
        <5> QED BY <1>3, <5>1, <5>2
      <4>2. CASE ~done
        BY <1>1, <1>3, <4>2 DEF CopyFits
      <4> QED BY <4>1, <4>2
    <3>4. \A n \in DOMAIN buf : ~Matches(buf[n], call.f) =>
              /\ \E m \in DOMAIN tmp : tmp[m] = buf[n]
              /\ n = 1 => tmp # <<>> /\ tmp[1] = buf[1]
      BY <1>1, <1>2 DEF Copied
    <3>5. \A m \in DOMAIN tmp :
              \/ \E n \in DOMAIN buf : ~Matches(buf[n], call.f) /\ tmp[m] = buf[n]
              \/ call.add /\ IsNew(tmp[m])
      BY <1>1, <3>2 DEF Copied
    <3>6. call.add => \E m \in DOMAIN tmp : IsNew(tmp[m])
      BY <1>1, <3>2 DEF Copied
    <3>7. Abs(tmp) = Result
      BY <1>1, <3>4, <3>5, <3>6, CopyIsResult
    <3> QED BY <1>1, <3>1, <3>3, <3>7
  <2> QED BY <2>1, <2>2
<1>5. WellFormed(buf)' /\ (Size(buf) + Padding <= TmpLen)' /\ Abs(buf)' = Result
  BY <1>4
<1>6. WellFormed(tmp)'
  BY <1>0 DEF WellFormed, NamesOnce
<1> QED
  BY <1>0, <1>1, <1>5, <1>6 DEF IInv

\* Signing the first header changes neither files nor sizes.
LEMMA TailStep ==
    ASSUME IInv, LeaveTail
    PROVE  IInv'
<1>0. /\ pc = "idle" /\ pc' = "idle" /\ ~tail /\ tail' = TRUE /\ buf # <<>>
      /\ buf' = [buf EXCEPT ![1] = Signed(@)]
      /\ tmp' = tmp /\ i' = i /\ done' = done /\ call' = call /\ im' = im
  BY DEF LeaveTail
<1>1. /\ WellFormed(buf) /\ buf \in Seq(Entry) /\ Len(buf) \in Nat
      /\ DOMAIN buf = 1..Len(buf)
      /\ tmp = <<>> /\ im = Abs(buf) /\ WellFormed(tmp) /\ done \in BOOLEAN
      /\ Size(buf) + Padding <= TmpLen
  BY <1>0 DEF IInv, WellFormed
<1>2. 1 \in DOMAIN buf /\ buf[1] \in Entry
  BY <1>0, <1>1
<1>3. Signed(buf[1]) \in Entry /\ Signed(buf[1]).name = buf[1].name
      /\ Signed(buf[1]).data = buf[1].data /\ Signed(buf[1]).rtk
  BY <1>2 DEF Signed, Entry
<1> DEFINE s == buf'
<1>4. /\ s \in Seq(Entry) /\ DOMAIN s = DOMAIN buf
      /\ \A n \in DOMAIN buf : s[n] = IF n = 1 THEN Signed(buf[1]) ELSE buf[n]
  BY <1>0, <1>1, <1>2, <1>3
<1> HIDE DEF s
<1>5. \A n \in DOMAIN buf : s[n].name = buf[n].name /\ s[n].data = buf[n].data
  BY <1>3, <1>4
<1>6. WellFormed(s)
  <2>1. NamesOnce(s)
    BY <1>1, <1>4, <1>5 DEF WellFormed, NamesOnce
  <2>2. ASSUME NEW n \in DOMAIN s
        PROVE  /\ s[n].name \in Path => s[n].data \in Data
               /\ s[n].rtk \/ s[n].name = Root => n = 1
    BY <1>1, <1>4, <1>5 DEF WellFormed
  <2> QED BY <1>4, <2>1, <2>2 DEF WellFormed
<1>7. Size(s) = Size(buf)
  <2>1. \A n \in DOMAIN buf : EntrySize(s[n]) = EntrySize(buf[n])
    BY <1>5 DEF EntrySize
  <2>2. Taken(s) = Taken(buf)
    BY <1>4, <2>1 DEF Taken
  <2> QED BY <2>2 DEF Size
<1>8. Abs(s) = Abs(buf)
  <2>1. Abs(s) \in Image /\ Abs(buf) \in Image /\ Abs(s).dups = 0 /\ Abs(buf).dups = 0
    BY <1>1, <1>6, AbsShape
  <2>2. Abs(s).rooted <=> Abs(buf).rooted
    <3>1. s # <<>> /\ s[1].name = buf[1].name
      BY <1>2, <1>4, <1>5
    <3>2. Abs(s).rooted <=> s # <<>> /\ s[1].name = Root
      BY <1>6, AbsShape
    <3>3. Abs(buf).rooted <=> buf # <<>> /\ buf[1].name = Root
      BY <1>1, AbsShape
    <3> QED BY <1>0, <3>1, <3>2, <3>3
  <2>3. ASSUME NEW f \in Path PROVE Abs(s).files[f] = Abs(buf).files[f]
    <3>1. /\ \A n \in DOMAIN s : s[n].name = f => Abs(s).files[f] = s[n].data
          /\ (\A n \in DOMAIN s : s[n].name # f) => Abs(s).files[f] = NoFile
      BY <1>6, FileOf
    <3>2. /\ \A n \in DOMAIN buf : buf[n].name = f => Abs(buf).files[f] = buf[n].data
          /\ (\A n \in DOMAIN buf : buf[n].name # f) => Abs(buf).files[f] = NoFile
      BY <1>1, FileOf
    <3>3. CASE \E n \in DOMAIN buf : buf[n].name = f
      BY <1>4, <1>5, <3>1, <3>2, <3>3
    <3>4. CASE \A n \in DOMAIN buf : buf[n].name # f
      BY <1>4, <1>5, <3>1, <3>2, <3>4
    <3> QED BY <3>3, <3>4
  <2> QED BY <2>1, <2>2, <2>3, SameArchive
<1>9. /\ WellFormed(buf)' /\ (Size(buf) + Padding <= TmpLen)' /\ im' = Abs(buf)'
      /\ buf' # <<>>
  <2>1. s # <<>>
    BY <1>2, <1>4
  <2> QED BY <1>0, <1>1, <1>6, <1>7, <1>8, <2>1 DEF s
<1>10. WellFormed(tmp)'
  BY <1>0, <1>1 DEF WellFormed, NamesOnce
<1> QED
  BY <1>0, <1>1, <1>9, <1>10 DEF IInv

\* The inductive invariant holds throughout.
LEMMA WalkInvariant ==
    ASSUME NAS
    PROVE  Spec => []IInv
<1>1. Init => IInv
  BY InitStep
<1>2. IInv /\ [Next]_vars => IInv'
  <2> SUFFICES ASSUME IInv, [Next]_vars PROVE IInv'
    OBVIOUS
  <2>1. CASE \E f \in Path, d \in Data : CallAdd(f, d)
    <3>1. PICK f \in Path, d \in Data : CallAdd(f, d)
      BY <2>1
    <3>2. Call(f, d, TRUE) /\ Blocks[d] + Size(buf) + 1 + Padding <= TmpLen
      BY <3>1 DEF CallAdd
    <3> QED BY <3>2, CallStep
  <2>2. CASE \E f \in Path : CallDelete(f)
    <3>1. PICK f \in Path : Call(f, NoFile, FALSE)
      BY <2>2 DEF CallDelete
    <3> QED BY <3>1, CallStep
  <2>3. CASE WalkMatch
    BY <2>3, MatchStep
  <2>4. CASE WalkKeep
    BY <2>4, KeepStep
  <2>5. CASE WalkEnd
    BY <2>5, EndStep
  <2>6. CASE LeaveTail
    BY <2>6, TailStep
  <2>7. CASE UNCHANGED vars
    <3>1. /\ buf' = buf /\ tail' = tail /\ tmp' = tmp /\ i' = i /\ done' = done
          /\ call' = call /\ pc' = pc /\ im' = im
      BY <2>7 DEF vars
    <3>2. /\ WellFormed(buf)' /\ tail' \in BOOLEAN /\ (tail' => buf' # <<>>)
          /\ (Size(buf) + Padding <= TmpLen)' /\ (Arguments <=> Arguments')
          /\ Met' = Met /\ Result' = Result
          /\ TakenUpTo(buf, i - 1)' = TakenUpTo(buf, i' - 1)
      BY <3>1, WalkFrame
    <3>3. WellFormed(tmp)' /\ Size(tmp)' = Size(tmp) /\ Abs(buf)' = Abs(buf)
      BY <3>1 DEF IInv, WellFormed, NamesOnce, Size, Taken, EntrySize, Abs
    <3>4. Copied => Copied'
      BY <3>1, <3>2 DEF Copied, IsNew
    <3>5. CopyFits => CopyFits'
      BY <3>1, <3>2, <3>3 DEF CopyFits
    <3> QED BY <3>1, <3>2, <3>3, <3>4, <3>5 DEF IInv
  <2> QED
    BY <2>1, <2>2, <2>3, <2>4, <2>5, <2>6, <2>7 DEF Next
<1> QED
  BY <1>1, <1>2, PTL DEF Spec

-----------------------------------------------------------------------------
(* Counting *)

\* The members of a finite set of numbers stand at 0, 1, 2, ...: each at a
\* place of its own, and none of the places is free.
LEMMA Places ==
    ASSUME NEW E \in SUBSET Nat, IsFiniteSet(E)
    PROVE  /\ Cardinality(E) \in Nat
           /\ \A n \in E : Cardinality({m \in E : m < n}) \in 0..(Cardinality(E) - 1)
           /\ \A n, k \in E : Cardinality({m \in E : m < n}) = Cardinality({m \in E : m < k})
                                => n = k
           /\ \A c \in 0..(Cardinality(E) - 1) :
                 \E n \in E : Cardinality({m \in E : m < n}) = c
<1> DEFINE B(n) == {m \in E : m < n}
           c == Cardinality(E)
           p == [n \in E |-> Cardinality(B(n))]
<1>1. c \in Nat
  BY FS_CardinalityType
<1>2. ASSUME NEW n \in E
      PROVE  IsFiniteSet(B(n)) /\ Cardinality(B(n)) \in Nat
  <2>1. B(n) \in SUBSET E
    OBVIOUS
  <2>2. IsFiniteSet(B(n))
    <3> HIDE DEF B
    <3> QED BY <2>1, FS_Subset
  <2> QED
    <3> HIDE DEF B
    <3> QED BY <2>2, FS_CardinalityType
<1>3. ASSUME NEW S, NEW T, IsFiniteSet(T), S \subseteq T, NEW x \in T, x \notin S
      PROVE  Cardinality(S) < Cardinality(T)
  <2>1. IsFiniteSet(S) /\ Cardinality(S) <= Cardinality(T) /\ Cardinality(T) # Cardinality(S)
    BY <1>3, FS_Subset
  <2>2. Cardinality(S) \in Nat /\ Cardinality(T) \in Nat
    BY <1>3, <2>1, FS_CardinalityType
  <2> QED BY <2>1, <2>2
<1>4. ASSUME NEW n \in E
      PROVE  Cardinality(B(n)) \in 0..(c - 1)
  <2>1. B(n) \subseteq E /\ n \notin B(n)
    OBVIOUS
  <2>2. Cardinality(B(n)) < c
    <3> HIDE DEF B
    <3> QED BY <1>3, <2>1
  <2> HIDE DEF B, c
  <2> QED BY <1>1, <1>2, <2>2
<1>5. ASSUME NEW n \in E, NEW k \in E, n < k
      PROVE  Cardinality(B(n)) < Cardinality(B(k))
  <2>1. B(n) \subseteq B(k) /\ n \in B(k) /\ n \notin B(n)
    <3>1. \A m \in E : m \in Nat
      OBVIOUS
    <3>2. \A m \in E : m < n => m < k
      BY <1>5, <3>1
    <3>3. n \in B(k) /\ n \notin B(n)
      BY <1>5, <3>1
    <3> QED BY <3>2, <3>3
  <2>2. IsFiniteSet(B(k))
    BY <1>2
  <2> HIDE DEF B
  <2> QED BY <1>3, <2>1, <2>2
<1>6. ASSUME NEW n \in E, NEW k \in E, Cardinality(B(n)) = Cardinality(B(k))
      PROVE  n = k
  <2>1. ~(n < k) /\ ~(k < n)
    <3> HIDE DEF B
    <3> QED BY <1>2, <1>5, <1>6
  <2> QED BY <2>1
<1>7. p \in Injection(E, 0..(c - 1))
  <2>1. p \in [E -> 0..(c - 1)]
    <3> HIDE DEF B, c
    <3> QED BY <1>4
  <2>2. \A n, k \in E : p[n] = p[k] => n = k
    <3> HIDE DEF B
    <3> QED BY <1>6
  <2> HIDE DEF p, c
  <2> QED BY <2>1, <2>2 DEF Injection, IsInjective
<1>8. IsFiniteSet(0..(c - 1)) /\ Cardinality(0..(c - 1)) = c
  <2> HIDE DEF c
  <2>1. 0 \in Int /\ c - 1 \in Int
    BY <1>1
  <2>2. /\ IsFiniteSet(0..(c - 1))
        /\ Cardinality(0..(c - 1)) = IF 0 > c - 1 THEN 0 ELSE (c - 1) - 0 + 1
    BY <2>1, FS_Interval, Zenon
  <2> QED BY <1>1, <2>2
<1>9. p \in Surjection(E, 0..(c - 1))
  <2>1. Cardinality(E) = Cardinality(0..(c - 1)) <=> p \in Surjection(E, 0..(c - 1))
    <3> HIDE DEF p, c
    <3> QED BY <1>7, <1>8, FS_Injection
  <2> QED BY <1>8, <2>1
<1>10. \A k \in 0..(c - 1) : \E n \in E : Cardinality(B(n)) = k
  <2>1. \A k \in 0..(c - 1) : \E n \in E : p[n] = k
    <3> HIDE DEF p, c
    <3> QED BY <1>9 DEF Surjection
  <2> HIDE DEF B, c
  <2> QED BY <2>1
<1> QED
  BY <1>1, <1>4, <1>6, <1>10, Zenon

-----------------------------------------------------------------------------
(* The theorems *)

\* tar_add_or_delete computes what Tar says, whatever the archive, the file and
\* the paths that it is a prefix of, and returns the size of the result.
THEOREM WalkComputes ==
    ASSUME NAS
    PROVE  Spec => []WalkComputesTar
<1>1. IInv => WalkComputesTar
  <2> SUFFICES ASSUME IInv, pc = "idle"
               PROVE  Abs(buf) = im /\ Size(buf) = tar_size(im) /\ NamesOnce(buf)
    BY DEF WalkComputesTar
  <2>1. WellFormed(buf) /\ im = Abs(buf)
    BY DEF IInv
  <2>2. Size(buf) = tar_size(Abs(buf))
    BY <2>1, SizeIsTar
  <2> QED BY <2>1, <2>2 DEF WellFormed
<1> QED
  BY <1>1, WalkInvariant, PTL

\* factory_buffer2 never overflows, and an archive always leaves room for its
\* padding.
THEOREM WalkFits ==
    ASSUME NAS
    PROVE  Spec => []TmpFits
<1>1. IInv => TmpFits
  <2> SUFFICES ASSUME IInv PROVE TmpFits
    OBVIOUS
  <2>1. /\ WellFormed(buf) /\ WellFormed(tmp) /\ buf \in Seq(Entry) /\ tmp \in Seq(Entry)
        /\ Size(buf) + Padding <= TmpLen /\ done \in BOOLEAN
    BY DEF IInv, WellFormed
  <2>2. Size(buf) \in Nat /\ Size(tmp) \in Nat /\ Padding \in Nat /\ TmpLen \in Nat
        /\ TmpLen > Padding
    BY <2>1, TakenFinite, WalkAssumption DEF Padding
  <2>3. Size(tmp) + Padding <= TmpLen
    <3>1. CASE pc = "idle"
      <4>1. Size(tmp) = 0
        BY <3>1, EmptySize DEF IInv
      <4> QED BY <2>2, <4>1
    <3>2. CASE pc = "walk"
      <4>1. Arguments /\ Copied /\ CopyFits
        BY <3>2 DEF IInv
      <4>2. /\ Cardinality(TakenUpTo(buf, i - 1)) \in Nat
            /\ Cardinality(TakenUpTo(buf, i - 1)) <= Size(buf)
        BY <2>1, UpToBound
      <4>3. CASE done
        <5>1. Blocks[call.d] \in Nat /\ Blocks[call.d] + Size(buf) + 1 + Padding <= TmpLen
          BY <4>1, <4>3, TarAssumption DEF Arguments, Copied
        <5>2. Size(tmp) <= Cardinality(TakenUpTo(buf, i - 1)) + (1 + Blocks[call.d])
          BY <4>1, <4>3 DEF CopyFits
        <5> QED BY <2>2, <4>2, <5>1, <5>2
      <4>4. CASE ~done
        <5>1. Size(tmp) <= Cardinality(TakenUpTo(buf, i - 1))
          BY <2>2, <4>1, <4>2, <4>4 DEF CopyFits
        <5> QED BY <2>1, <2>2, <4>2, <5>1
      <4> QED BY <4>3, <4>4
    <3> QED BY <3>1, <3>2 DEF IInv
  <2> QED BY <2>1, <2>2, <2>3 DEF TmpFits
<1> QED
  BY <1>1, WalkInvariant, PTL

\* tar_read returns what was written last, also when a header lies behind the
\* archive.
THEOREM WalkReadsBack ==
    ASSUME NAS
    PROVE  Spec => []ReadsBack
<1>1. IInv => ReadsBack
  <2> SUFFICES ASSUME IInv, pc = "idle", NEW f \in Path
               PROVE  read(f) = tar_read(im, f)
    BY DEF ReadsBack
  <2> DEFINE hits == {n \in DOMAIN Met : Met[n].name = f}
  <2>1. WellFormed(buf) /\ im = Abs(buf)
    BY DEF IInv
  <2>2. /\ \A n \in DOMAIN Met : n \in Nat
        /\ \A n \in DOMAIN buf : n \in DOMAIN Met /\ Met[n] = buf[n]
        /\ \A n \in DOMAIN Met : n \notin DOMAIN buf =>
              1 \in DOMAIN buf /\ Met[n].name = buf[1].name /\ Met[n].data = buf[1].data
    BY MetShape DEF IInv, Signed
  <2>3. /\ \A n \in DOMAIN buf : buf[n].name = f => Abs(buf).files[f] = buf[n].data
        /\ (\A n \in DOMAIN buf : buf[n].name # f) => Abs(buf).files[f] = NoFile
    BY <2>1, FileOf
  <2>4. \A n \in hits : Met[n].data = Abs(buf).files[f]
    BY <2>2, <2>3
  <2>5. hits = {} => Abs(buf).files[f] = NoFile
    BY <2>2, <2>3
  <2>6. hits # {} => Min(hits) \in hits
    <3> SUFFICES ASSUME hits # {} PROVE Min(hits) \in hits
      OBVIOUS
    <3>1. hits \in SUBSET Nat
      BY <2>2
    <3> HIDE DEF hits
    <3>2. \E x \in hits : \A y \in hits : x <= y
      BY <3>1, LeastNumber
    <3> QED BY <3>2 DEF Min
  <2>7. read(f) = IF hits = {} THEN NoFile ELSE Met[Min(hits)].data
    BY DEF read
  <2> HIDE DEF hits
  <2> QED BY <2>1, <2>4, <2>5, <2>6, <2>7 DEF tar_read
<1> QED
  BY <1>1, WalkInvariant, PTL

\* tar_read_by_index, called with 0, 1, 2, ... until it finds nothing, returns
\* every file of the environment once, with its data.
THEOREM WalkEnumerates ==
    ASSUME NAS
    PROVE  Spec => []IndexEnumerates
<1>1. IInv => IndexEnumerates
  <2> SUFFICES ASSUME IInv, pc = "idle", im.rooted PROVE IndexEnumerates
    BY DEF IndexEnumerates
  <2> DEFINE files == {f \in EnvPath : im.files[f] # NoFile}
             E == EnvEntries
             c == Cardinality(files)
             place(n) == Cardinality({m \in E : m < n})
             name == [n \in E |-> Met[n].name]
  <2>1. WellFormed(buf) /\ im = Abs(buf) /\ buf \in Seq(Entry)
    BY DEF IInv, WellFormed
  <2>2. /\ \A n \in DOMAIN Met : n \in Nat
        /\ \A n \in DOMAIN buf : n \in DOMAIN Met /\ Met[n] = buf[n]
        /\ \A n \in DOMAIN Met : n \notin DOMAIN buf => Met[n].name = buf[1].name
        /\ DOMAIN Met = 1..Len(Met) /\ Len(Met) \in Nat
    BY MetShape DEF IInv, Signed
  <2>3. buf[1].name = Root
    BY <2>1, AbsShape
  <2>4. \A n \in E : /\ n \in DOMAIN buf /\ n \in Nat /\ Met[n] = buf[n]
                     /\ Met[n].name \in EnvPath /\ Met[n].name \in Path
    BY <2>2, <2>3, WalkAssumption DEF EnvEntries
  <2>5. ASSUME NEW n \in E
        PROVE  /\ Met[n].data = im.files[Met[n].name]
               /\ Met[n].name \in files
    <3>1. n \in DOMAIN buf /\ Met[n] = buf[n] /\ Met[n].name \in Path /\ Met[n].name \in EnvPath
      BY <2>4
    <3>2. Met[n].data = im.files[Met[n].name]
      BY <2>1, <3>1, FileOf
    <3>3. Met[n].data # NoFile
      BY <2>1, <3>1, TarAssumption DEF WellFormed
    <3> QED BY <3>1, <3>2, <3>3
  <2>6. ASSUME NEW n \in E, NEW k \in E, Met[n].name = Met[k].name
        PROVE  n = k
    BY <2>1, <2>4, <2>6 DEF WellFormed, NamesOnce
  <2>7. ASSUME NEW f \in files
        PROVE  \E n \in E : Met[n].name = f
    <3>1. f \in Path /\ f \in EnvPath /\ Abs(buf).files[f] # NoFile
      BY <2>1, WalkAssumption
    <3>2. PICK n \in DOMAIN buf : buf[n].name = f
      BY <2>1, <3>1, FileOf
    <3> QED BY <2>2, <3>1, <3>2 DEF EnvEntries
  <2>8. E \in SUBSET Nat /\ IsFiniteSet(E)
    <3>1. IsFiniteSet(DOMAIN Met)
      BY <2>2, FS_Interval
    <3>2. E \in SUBSET DOMAIN Met
      BY DEF EnvEntries
    <3> HIDE DEF E
    <3> QED BY <2>4, <3>1, <3>2, FS_Subset
  <2> HIDE DEF E, files
  <2>9. Cardinality(E) = c
    <3>1. name \in Bijection(E, files)
      <4>1. name \in [E -> files]
        BY <2>5
      <4>2. \A n, k \in E : name[n] = name[k] => n = k
        BY <2>6
      <4>3. \A f \in files : \E n \in E : name[n] = f
        BY <2>7
      <4> HIDE DEF name
      <4> QED BY <4>1, <4>2, <4>3 DEF Bijection, Injection, Surjection, IsInjective
    <3>2. ExistsBijection(E, files)
      BY <3>1 DEF ExistsBijection
    <3> QED BY <2>8, <3>2, FS_Bijection
  <2>10. /\ Cardinality(E) \in Nat
         /\ \A n \in E : place(n) \in 0..(Cardinality(E) - 1)
         /\ \A n, k \in E : place(n) = place(k) => n = k
         /\ \A k \in 0..(Cardinality(E) - 1) : \E n \in E : place(n) = k
    BY <2>8, Places
  <2>11. \A k : by_index(k) = {n \in E : place(n) = k}
    BY DEF by_index, E
  <2> HIDE DEF place, c
  <2>12. by_index(c) = {}
    <3>1. ASSUME NEW n \in E, place(n) = c PROVE FALSE
      BY <2>9, <2>10, <3>1
    <3> QED BY <2>11, <3>1
  <2>13. ASSUME NEW k \in 0..(c - 1)
         PROVE  \E n \in by_index(k) :
                   by_index(k) = {n} /\ Met[n].data = im.files[Met[n].name]
    <3>1. PICK n \in E : place(n) = k
      BY <2>9, <2>10
    <3>2. by_index(k) = {n}
      BY <2>10, <2>11, <3>1
    <3> QED BY <2>5, <3>1, <3>2
  <2>14. ASSUME NEW f \in files
         PROVE  \E k \in 0..(c - 1) : \E n \in by_index(k) : Met[n].name = f
    <3>1. PICK n \in E : Met[n].name = f
      BY <2>7
    <3>2. place(n) \in 0..(c - 1) /\ n \in by_index(place(n))
      BY <2>9, <2>10, <2>11
    <3> QED BY <3>1, <3>2
  <2>15. /\ by_index(Cardinality(files)) = {}
         /\ \A k \in 0..(Cardinality(files) - 1) : \E n \in by_index(k) :
                by_index(k) = {n} /\ Met[n].data = im.files[Met[n].name]
         /\ \A f \in files : \E k \in 0..(Cardinality(files) - 1) :
                \E n \in by_index(k) : Met[n].name = f
    BY <2>12, <2>13, <2>14, Zenon DEF c
  <2> QED BY <2>15, Zenon DEF IndexEnumerates, files
<1> QED
  BY <1>1, WalkInvariant, PTL
=============================================================================
