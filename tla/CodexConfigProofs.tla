------------------------- MODULE CodexConfigProofs -------------------------
(***************************************************************************)
(* Proofs about CodexConfig, for every set of servers, words and sections, *)
(* every document and every number of edits: whatever the user writes, an  *)
(* install of Codex keeps it, refuses what is not lore's, leaves a document *)
(* that parses and says what was asked for, and changes nothing when it is *)
(* repeated.                                                               *)
(***************************************************************************)
EXTENDS CodexConfig, FiniteSetTheorems, SequenceTheorems, WellFoundedInduction, TLAPS

-----------------------------------------------------------------------------
(* Least and greatest positions.                                            *)

\* Every set of naturals that is not empty has a least one.
LEMMA Least ==
  ASSUME NEW S \in SUBSET Nat, S # {}
  PROVE  \E m \in S : \A k \in S : m <= k
<1>1. IsWellFoundedOn(OpToRel(<, Nat), Nat)  BY NatLessThanWellFounded
<1>2. PICK m \in S : \A k \in S : ~(<<k, m>> \in OpToRel(<, Nat))
  <2> DEFINE R == OpToRel(<, Nat)
  <2> HIDE DEF R
  <2>1. IsWellFoundedOn(R, Nat)  BY <1>1 DEF R
  <2>2. \E m \in S : \A k \in S : ~(<<k, m>> \in R)  BY <2>1, WFMin
  <2> QED  BY <2>2 DEF R
<1>3. m \in S /\ \A k \in S : ~(k < m)  BY <1>2 DEF OpToRel
<1> QED  BY <1>3

\* Every set of positions that is not empty has a last one.
LEMMA Greatest ==
  ASSUME NEW n \in Nat, NEW S \in SUBSET (0 .. n), S # {}
  PROVE  \E m \in S : \A k \in S : k <= m
<1> DEFINE T == {n - k : k \in S}
<1>1. T \in SUBSET Nat /\ T # {}
  <2>1. \A k \in S : n - k \in Nat  OBVIOUS
  <2>2. T \subseteq Nat  BY <2>1
  <2> QED  BY <2>2
<1>2. PICK m \in T : \A k \in T : m <= k  BY <1>1, Least
<1>3. PICK j \in S : m = n - j  BY <1>2
<1>4. \A k \in S : n - k \in T  OBVIOUS
<1>5. ASSUME NEW k \in S  PROVE k <= j
  <2>1. m <= n - k  BY <1>2, <1>4
  <2> QED  BY <1>3, <2>1
<1> QED  BY <1>5

-----------------------------------------------------------------------------
(* Picked lines: how many lines of I come up to line i counts them off, so  *)
(* that the lines of Pick(c, I) are those of I in their order.              *)

\* Strictly increasing from the lines of a picked document to those of I.
Order(f, n, I) ==
  /\ f \in [1 .. n -> I]
  /\ \A i, j \in 1 .. n : i < j => f[i] < f[j]
  /\ \A i \in I : \E k \in 1 .. n : f[k] = i

UpTo(I, i) == {j \in I : j <= i}

\* Positions of a document are finite in number.
LEMMA PositionsFinite ==
  ASSUME NEW n \in Nat, NEW I \in SUBSET (1 .. n)
  PROVE  IsFiniteSet(I) /\ Cardinality(I) \in 0 .. n
<1>1. IsFiniteSet(1 .. n) /\ Cardinality(1 .. n) = n  BY FS_Interval
<1>2. IsFiniteSet(I) /\ Cardinality(I) <= n  BY <1>1, FS_Subset
<1> QED  BY <1>2, FS_CardinalityType

\* A later position of I has more of I up to it.
LEMMA RankRises ==
  ASSUME NEW n \in Nat, NEW I \in SUBSET (1 .. n), NEW i \in I, NEW j \in I, i < j
  PROVE  Cardinality(UpTo(I, i)) < Cardinality(UpTo(I, j))
<1>0. I \subseteq Int /\ i \in Int /\ j \in Int  OBVIOUS
<1>1. UpTo(I, i) \in SUBSET UpTo(I, j) /\ j \in UpTo(I, j) /\ j \notin UpTo(I, i)
  <2>1. ASSUME NEW k \in UpTo(I, i)  PROVE k \in UpTo(I, j)
    <3>1. k \in I /\ k \in Int /\ k <= i  BY <1>0 DEF UpTo
    <3> QED  BY <1>0, <3>1 DEF UpTo
  <2>2. j \in UpTo(I, j)  BY <1>0 DEF UpTo
  <2>3. j \notin UpTo(I, i)  BY <1>0 DEF UpTo
  <2> QED  BY <2>1, <2>2, <2>3
<1>2. UpTo(I, j) \in SUBSET (1 .. n) /\ UpTo(I, i) \in SUBSET (1 .. n)  BY DEF UpTo
<1>3. IsFiniteSet(UpTo(I, j)) /\ Cardinality(UpTo(I, j)) \in Nat /\ Cardinality(UpTo(I, i)) \in Nat
  BY <1>2, PositionsFinite
<1> QED  BY <1>1, <1>3, FS_Subset

\* Each count up to that of I is the rank of one position of I.
LEMMA RankOnto ==
  ASSUME NEW n \in Nat, NEW I \in SUBSET (1 .. n)
  PROVE  \A k \in 1 .. Cardinality(I) : \E i \in I : Cardinality(UpTo(I, i)) = k
<1> DEFINE m == Cardinality(I)
           r == [i \in I |-> Cardinality(UpTo(I, i))]
<1>1. IsFiniteSet(I) /\ m \in Nat  BY PositionsFinite
<1>2. ASSUME NEW i \in I  PROVE Cardinality(UpTo(I, i)) \in 1 .. m
  <2>1. UpTo(I, i) \in SUBSET I /\ i \in UpTo(I, i)  BY DEF UpTo
  <2>2. IsFiniteSet(UpTo(I, i)) /\ Cardinality(UpTo(I, i)) <= m  BY <1>1, <2>1, FS_Subset
  <2>3. Cardinality(UpTo(I, i)) \in Nat  BY <2>2, FS_CardinalityType
  <2>4. Cardinality(UpTo(I, i)) # 0  BY <2>1, <2>2, FS_EmptySet
  <2> QED  BY <1>1, <2>2, <2>3, <2>4
<1>3. r \in Injection(I, 1 .. m)
  <2>1. r \in [I -> 1 .. m]  BY <1>2
  <2>2. ASSUME NEW i \in I, NEW j \in I, i # j  PROVE r[i] # r[j]
    <3>1. i < j \/ j < i  BY <2>2
    <3>2. r[i] \in Int /\ r[j] \in Int  BY <2>1
    <3>3. CASE i < j
      <4>1. Cardinality(UpTo(I, i)) < Cardinality(UpTo(I, j))  BY <3>3, RankRises
      <4> QED  BY <3>2, <4>1
    <3>4. CASE j < i
      <4>1. Cardinality(UpTo(I, j)) < Cardinality(UpTo(I, i))  BY <3>4, RankRises
      <4> QED  BY <3>2, <4>1
    <3> QED  BY <3>1, <3>3, <3>4
  <2> QED  BY <2>1, <2>2 DEF Injection, IsInjective
<1>4. IsFiniteSet(1 .. m) /\ Cardinality(1 .. m) = m  BY <1>1, FS_Interval
<1>5. r \in Surjection(I, 1 .. m)  BY <1>3, <1>4, FS_Injection
<1> QED  BY <1>5 DEF Surjection

\* What Pick returns: lines of c at positions of I, each once and in order.
LEMMA Picked ==
  ASSUME NEW S, NEW c \in Seq(S), NEW I \in SUBSET DOMAIN c
  PROVE  /\ Pick(c, I) \in Seq(S)
         /\ \E f : /\ Order(f, Len(Pick(c, I)), I)
                 /\ \A k \in 1 .. Len(Pick(c, I)) : Pick(c, I)[k] = c[f[k]]
<1>1. Len(c) \in Nat /\ DOMAIN c = 1 .. Len(c) /\ \A i \in DOMAIN c : c[i] \in S
  BY LenProperties, ElementOfSeq
<1> DEFINE m == Cardinality(I)
           at(k) == CHOOSE i \in I : Cardinality({j \in I : j <= i}) = k
           f == [k \in 1 .. m |-> at(k)]
<1>2. m \in Nat /\ \A i \in I : i \in Nat  BY <1>1, PositionsFinite
<1>3. \A k \in 1 .. m : at(k) \in I /\ Cardinality(UpTo(I, at(k))) = k
  <2> TAKE k \in 1 .. m
  <2>1. \E i \in I : Cardinality(UpTo(I, i)) = k  BY <1>1, RankOnto
  <2>2. \E i \in I : Cardinality({j \in I : j <= i}) = k  BY <2>1 DEF UpTo
  <2>3. at(k) \in I /\ Cardinality({j \in I : j <= at(k)}) = k  BY <2>2
  <2> QED  BY <2>3 DEF UpTo
<1>7. Pick(c, I) = [k \in 1 .. m |-> c[at(k)]]  BY DEF Pick
<1> HIDE DEF at, m
<1>4. \A i, j \in 1 .. m : i < j => f[i] < f[j]
  <2> SUFFICES ASSUME NEW i \in 1 .. m, NEW j \in 1 .. m, i < j, ~(at(i) < at(j))
               PROVE  FALSE
    OBVIOUS
  <2>1. at(i) \in I /\ at(j) \in I /\ at(i) \in Nat /\ at(j) \in Nat  BY <1>2, <1>3
  <2>2. at(j) < at(i) \/ at(i) = at(j)  BY <2>1
  <2>3. CASE at(i) = at(j)
    <3>1. i = j  BY <1>3, <2>3
    <3> QED  BY <3>1
  <2>4. CASE at(j) < at(i)
    <3>1. Cardinality(UpTo(I, at(j))) < Cardinality(UpTo(I, at(i)))
      BY <1>1, <2>1, <2>4, RankRises
    <3>2. j < i  BY <1>3, <3>1
    <3> QED  BY <3>2
  <2> QED  BY <2>2, <2>3, <2>4
<1>5. \A i \in I : \E k \in 1 .. m : f[k] = i
  <2> TAKE i \in I
  <2> DEFINE k == Cardinality(UpTo(I, i))
  <2>1. UpTo(I, i) \in SUBSET I /\ i \in UpTo(I, i)  BY <1>1 DEF UpTo
  <2>2. IsFiniteSet(I)  BY <1>1, PositionsFinite
  <2>3. k \in 1 .. m
    <3>1. IsFiniteSet(UpTo(I, i)) /\ k <= m  BY <2>1, <2>2, FS_Subset DEF m
    <3>2. k \in Nat /\ k # 0  BY <2>1, <3>1, FS_CardinalityType, FS_EmptySet
    <3> QED  BY <1>2, <3>1, <3>2
  <2>4. at(k) = i
    <3>1. at(k) \in I /\ Cardinality(UpTo(I, at(k))) = k  BY <1>3, <2>3
    <3>2. at(k) \in Nat /\ i \in Nat  BY <1>1, <3>1
    <3>3. ~(at(k) < i)
      <4>1. SUFFICES ASSUME at(k) < i PROVE FALSE  OBVIOUS
      <4>2. Cardinality(UpTo(I, at(k))) < k  BY <1>1, <3>1, <4>1, RankRises
      <4> QED  BY <2>3, <3>1, <4>2
    <3>4. ~(i < at(k))
      <4>1. SUFFICES ASSUME i < at(k) PROVE FALSE  OBVIOUS
      <4>2. k < Cardinality(UpTo(I, at(k)))  BY <1>1, <3>1, <4>1, RankRises
      <4> QED  BY <2>3, <3>1, <4>2
    <3> HIDE DEF k
    <3> QED  BY <3>2, <3>3, <3>4
  <2> QED  BY <2>3, <2>4
<1>6. Order(f, m, I)  BY <1>3, <1>4, <1>5 DEF Order
<1>8. \A k \in 1 .. m : c[at(k)] \in S  BY <1>1, <1>3
<1>9. Pick(c, I) \in Seq(S) /\ Len(Pick(c, I)) = m
  <2>1. Pick(c, I) \in [1 .. m -> S]  BY <1>7, <1>8
  <2> QED  BY <1>2, <2>1
<1>10. \A k \in 1 .. m : Pick(c, I)[k] = c[f[k]]  BY <1>7
<1> QED  BY <1>6, <1>9, <1>10

\* To pick every line is to take the document as it is.
LEMMA PickedAll ==
  ASSUME NEW S, NEW c \in Seq(S)
  PROVE  Pick(c, DOMAIN c) = c
<1> DEFINE n == Len(c)
           at(k) == CHOOSE i \in 1 .. n : Cardinality({j \in 1 .. n : j <= i}) = k
<1>1. n \in Nat /\ DOMAIN c = 1 .. n  BY LenProperties
<1>2. \A i \in 1 .. n : {j \in 1 .. n : j <= i} = 1 .. i  BY <1>1
<1>3. \A i \in 1 .. n : Cardinality(1 .. i) = i  BY <1>1, FS_Interval
<1>4. Cardinality(1 .. n) = n  BY <1>1, FS_Interval
<1>5. \A k \in 1 .. n : at(k) = k
  <2> TAKE k \in 1 .. n
  <2>1. Cardinality({j \in 1 .. n : j <= k}) = k  BY <1>2, <1>3
  <2>2. at(k) \in 1 .. n /\ Cardinality({j \in 1 .. n : j <= at(k)}) = k  BY <2>1
  <2>3. Cardinality(1 .. at(k)) = k  BY <1>2, <2>2
  <2>4. Cardinality(1 .. at(k)) = at(k)  BY <1>3, <2>2
  <2> QED  BY <2>3, <2>4
<1>6. Pick(c, DOMAIN c) = [k \in 1 .. n |-> c[at(k)]]  BY <1>1, <1>4 DEF Pick
<1> HIDE DEF at
<1>7. Pick(c, DOMAIN c) = [k \in 1 .. n |-> c[k]]  BY <1>5, <1>6
<1> QED  BY <1>1, <1>7

-----------------------------------------------------------------------------
(* Documents and their tables.                                              *)

\* A document has a length, and its lines are at the positions up to it.
LEMMA Doc ==
  ASSUME NEW c \in Seq(Line)
  PROVE  /\ Len(c) \in Nat /\ DOMAIN c = 1 .. Len(c)
         /\ \A i \in 1 .. Len(c) : c[i] \in Line
BY LenProperties, ElementOfSeq

\* A header is that of one table.
LEMMA HeadIsTable ==
  /\ \A l \in Line : IsHead(l) => l = Table(l.name)
  /\ \A t : IsHead(Table(t)) /\ Table(t).name = t
<1>1. ASSUME NEW l \in Line, IsHead(l)  PROVE l = Table(l.name)
  <2>1. l = [kind |-> l.kind, name |-> l.name, value |-> l.value]  BY DEF Line
  <2>2. l.kind = "head" /\ l.value = ""  BY <1>1 DEF Line, IsHead
  <2> QED  BY <2>1, <2>2 DEF Table
<1>2. \A t : IsHead(Table(t)) /\ Table(t).name = t  BY DEF IsHead, Table
<1> QED  BY <1>1, <1>2

\* No document is the refusal.
LEMMA NotRefused ==
  /\ \A c \in Seq(Line) : c # Refused
  /\ \A c : c # Refused => TRUE
<1>1. ASSUME NEW c \in Seq(Line), c = Refused  PROVE FALSE
  <2>1. Len(c) = 1 /\ c[1].kind = "refused"  BY <1>1 DEF Refused
  <2>2. c[1] \in Line  BY <2>1, Doc
  <2> QED  BY <2>1, <2>2 DEF Line
<1> QED  BY <1>1

\* What the merges write are lines.
LEMMA Lines ==
  /\ \A t \in Words : Table(t) \in Line
  /\ \A k, v \in Words : Key(k, v) \in Line
  /\ Start \in Line /\ End \in Line
<1>1. \A t \in Words : Table(t) \in Line  BY DocumentsAreLines DEF Line, Table
<1>2. \A k, v \in Words : Key(k, v) \in Line  BY DEF Line, Key
<1>3. Start \in Line  BY DocumentsAreLines DEF Line, Start
<1>4. End \in Line  BY DocumentsAreLines DEF Line, End
<1> QED  BY <1>1, <1>2, <1>3, <1>4

\* x is what remains of the lines of c from p to q when whole tables of lore
\* are taken out: f leads back to them.
Remains(x, c, p, q, f) ==
  /\ f \in [1 .. Len(x) -> p .. q]
  /\ \A k, l \in 1 .. Len(x) : k < l => f[k] < f[l]
  /\ \A k \in 1 .. Len(x) : x[k] = c[f[k]]
  /\ \A l \in 1 .. Len(x) : \A m \in p .. f[l] :
       IsHead(c[m]) => \E k \in 1 .. l : IsHead(x[k]) /\ m <= f[k]
  /\ \A i \in p .. q : ~InTable(c, i, "lore") /\ ~InTable(c, i, "env") =>
       \E k \in 1 .. Len(x) : f[k] = i

\* Above a line with a header above it there is a last header.
LEMMA LastHead ==
  ASSUME NEW c \in Seq(Line), NEW i \in 1 .. Len(c), NEW m \in 1 .. i, IsHead(c[m])
  PROVE  \E h \in m .. i : IsHead(c[h]) /\ Plain(c, h + 1, i)
<1>1. Len(c) \in Nat /\ i \in Nat  BY Doc
<1> DEFINE H == {h \in 0 .. i : m <= h /\ IsHead(c[h])}
<1>2. H \in SUBSET (0 .. i) /\ m \in H  BY <1>1
<1>3. PICK h \in H : \A k \in H : k <= h  BY <1>1, <1>2, Greatest
<1>4. ASSUME NEW k \in h + 1 .. i, IsHead(c[k])  PROVE FALSE
  <2>1. k \in H  BY <1>1, <1>3, <1>4
  <2>2. k <= h  BY <1>3, <2>1
  <2> QED  BY <1>1, <1>3, <1>4, <2>2
<1> QED  BY <1>1, <1>3, <1>4 DEF Plain

\* A table is taken out as a whole.
LEMMA TableOut ==
  ASSUME NEW c \in Seq(Line), NEW t \in {"lore", "env"}
  PROVE  LET x == Pick(c, {i \in DOMAIN c : ~InTable(c, i, t)})
         IN  /\ x \in Seq(Line) /\ ~Has(x, Table(t))
             /\ \E f : Remains(x, c, 1, Len(c), f)
<1> DEFINE I == {i \in DOMAIN c : ~InTable(c, i, t)}
           x == Pick(c, I)
           n == Len(x)
<1>1. x \in Seq(Line)  BY Picked
<1>0. \E f : Order(f, Len(x), I) /\ \A k \in 1 .. Len(x) : x[k] = c[f[k]]
  <2>1. I \in SUBSET DOMAIN c  OBVIOUS
  <2> HIDE DEF I
  <2> QED  BY <2>1, Picked
<1>2. n \in Nat /\ DOMAIN x = 1 .. n /\ Len(c) \in Nat /\ DOMAIN c = 1 .. Len(c)  BY <1>1, Doc
<1>3. PICK f : Order(f, n, I) /\ \A k \in 1 .. n : x[k] = c[f[k]]  BY <1>0
<1>4. \A k \in 1 .. n : f[k] \in I  BY <1>3 DEF Order
<1> HIDE DEF x, n
<1>5. \A i \in 1 .. Len(c) : c[i] = Table(t) => i \notin I
  <2> SUFFICES ASSUME NEW i \in 1 .. Len(c), c[i] = Table(t)  PROVE InTable(c, i, t)
    OBVIOUS
  <2>1. Plain(c, i + 1, i)  BY <1>2 DEF Plain
  <2> QED  BY <1>2, <2>1 DEF InTable
<1>6. ~Has(x, Table(t))  BY <1>2, <1>3, <1>4, <1>5 DEF Has
<1>7. ASSUME NEW l \in 1 .. n, NEW m \in 1 .. f[l], IsHead(c[m])
      PROVE  \E k \in 1 .. l : IsHead(x[k]) /\ m <= f[k]
  <2>1. f[l] \in 1 .. Len(c) /\ ~InTable(c, f[l], t)  BY <1>2, <1>4
  <2>2. PICK h \in m .. f[l] : IsHead(c[h]) /\ Plain(c, h + 1, f[l])
    BY <1>7, <2>1, LastHead
  <2>3. h \in 1 .. f[l] /\ h \in 1 .. Len(c)  BY <1>2, <2>1
  <2>4. c[h] # Table(t)  BY <2>1, <2>2, <2>3 DEF InTable
  <2>5. ~InTable(c, h, t)
    <3> SUFFICES ASSUME NEW g \in 1 .. h, c[g] = Table(t), Plain(c, g + 1, h)  PROVE FALSE
      BY DEF InTable
    <3>1. g # h  BY <2>4
    <3>2. h \in g + 1 .. h  BY <2>3, <3>1
    <3> QED  BY <2>2, <3>2 DEF Plain
  <2>6. PICK k \in 1 .. n : f[k] = h  BY <1>2, <1>3, <2>3, <2>5 DEF Order
  <2>7. k <= l
    <3>1. SUFFICES ASSUME l < k PROVE FALSE  BY <1>2
    <3>2. f[l] < f[k]  BY <1>3, <3>1 DEF Order
    <3> QED  BY <2>1, <2>3, <2>6, <3>2
  <2> QED  BY <1>2, <1>3, <2>2, <2>6, <2>7
<1>8. Remains(x, c, 1, Len(c), f)
  <2>1. f \in [1 .. Len(x) -> 1 .. Len(c)]  BY <1>2, <1>3 DEF Order, n
  <2> QED  BY <1>2, <1>3, <1>7, <2>1 DEF Remains, Order, n
<1> QED  BY <1>1, <1>6, <1>8 DEF x

\* What is left once the obsolete env tables are taken out, if they all are.
LEMMA EnvOut ==
  ASSUME NEW c \in Seq(Line), StripEnv(c) # Refused
  PROVE  /\ StripEnv(c) \in Seq(Line) /\ ~Has(StripEnv(c), Table("env"))
         /\ \E f : Remains(StripEnv(c), c, 1, Len(c), f)
<1>1. StripEnv(c) = Pick(c, {i \in DOMAIN c : ~InTable(c, i, "env")})  BY DEF StripEnv
<1> QED  BY <1>1, TableOut

\* What is left once lore's own tables are taken out.
LEMMA LoreOut ==
  ASSUME NEW c \in Seq(Line)
  PROVE  /\ StripLore(c) \in Seq(Line) /\ ~Has(StripLore(c), Table("lore"))
         /\ \E f : Remains(StripLore(c), c, 1, Len(c), f)
<1>1. StripLore(c) = Pick(c, {i \in DOMAIN c : ~InTable(c, i, "lore")})  BY DEF StripLore
<1> QED  BY <1>1, TableOut

\* Two documents one after the other.
LEMMA Joined ==
  ASSUME NEW u \in Seq(Line), NEW v \in Seq(Line)
  PROVE  /\ u \o v \in Seq(Line) /\ Len(u \o v) = Len(u) + Len(v)
         /\ \A i \in 1 .. Len(u) : (u \o v)[i] = u[i]
         /\ \A i \in 1 .. Len(v) : (u \o v)[Len(u) + i] = v[i]
<1>1. Len(u) \in Nat /\ Len(v) \in Nat  BY Doc
<1>2. /\ u \o v \in Seq(Line) /\ Len(u \o v) = Len(u) + Len(v)
      /\ \A i \in 1 .. Len(u) + Len(v) :
           (u \o v)[i] = IF i <= Len(u) THEN u[i] ELSE v[i - Len(u)]
  BY ConcatProperties
<1>3. \A i \in 1 .. Len(u) : i \in 1 .. Len(u) + Len(v) /\ i <= Len(u)  BY <1>1
<1>4. \A i \in 1 .. Len(v) : /\ Len(u) + i \in 1 .. Len(u) + Len(v)
                            /\ ~(Len(u) + i <= Len(u)) /\ (Len(u) + i) - Len(u) = i
  BY <1>1
<1> QED  BY <1>2, <1>3, <1>4

\* A part of a document, line by line.
LEMMA Slice ==
  ASSUME NEW c \in Seq(Line), NEW p \in 1 .. Len(c) + 1, NEW q \in p - 1 .. Len(c)
  PROVE  /\ SubSeq(c, p, q) \in Seq(Line) /\ Len(SubSeq(c, p, q)) = q - p + 1
         /\ \A i \in 1 .. q - p + 1 : SubSeq(c, p, q)[i] = c[p + i - 1]
<1>1. Len(c) \in Nat /\ \A i \in 1 .. Len(c) : c[i] \in Line  BY Doc
<1>2. p \in Int /\ q \in Int /\ \A i \in p .. q : c[i] \in Line  BY <1>1
<1>3. /\ SubSeq(c, p, q) \in Seq(Line)
      /\ Len(SubSeq(c, p, q)) = IF p <= q THEN q - p + 1 ELSE 0
      /\ \A i \in 1 .. q - p + 1 : SubSeq(c, p, q)[i] = c[p + i - 1]
  BY <1>2, SubSeqProperties
<1> QED  BY <1>1, <1>3

\* What remains of a part remains of the document.
LEMMA Shifted ==
  ASSUME NEW c \in Seq(Line), NEW p \in 1 .. Len(c) + 1, NEW q \in p - 1 .. Len(c),
         NEW x \in Seq(Line), NEW f, Remains(x, SubSeq(c, p, q), 1, Len(SubSeq(c, p, q)), f)
  PROVE  Remains(x, c, p, q, [k \in 1 .. Len(x) |-> f[k] + p - 1])
<1> DEFINE d == SubSeq(c, p, q)
           g == [k \in 1 .. Len(x) |-> f[k] + p - 1]
<1>1. Len(c) \in Nat /\ Len(x) \in Nat  BY Doc
<1>2. Len(d) = q - p + 1 /\ \A i \in 1 .. q - p + 1 : d[i] = c[p + i - 1]  BY Slice
<1>3. Remains(x, d, 1, q - p + 1, f)  BY <1>2
<1> HIDE DEF d
<1>4. \A k \in 1 .. Len(x) : f[k] \in 1 .. q - p + 1 /\ g[k] = f[k] + p - 1
  BY <1>3 DEF Remains
<1>5. g \in [1 .. Len(x) -> p .. q]  BY <1>1, <1>4
<1>6. \A k, l \in 1 .. Len(x) : k < l => g[k] < g[l]  BY <1>1, <1>3, <1>4 DEF Remains
<1>7. \A k \in 1 .. Len(x) : x[k] = c[g[k]]
  <2> TAKE k \in 1 .. Len(x)
  <2>1. x[k] = d[f[k]]  BY <1>3 DEF Remains
  <2>2. d[f[k]] = c[p + f[k] - 1]  BY <1>2, <1>4
  <2>3. p + f[k] - 1 = g[k]  BY <1>1, <1>4
  <2> QED  BY <2>1, <2>2, <2>3
<1>8. ASSUME NEW l \in 1 .. Len(x), NEW m \in p .. g[l], IsHead(c[m])
      PROVE  \E k \in 1 .. l : IsHead(x[k]) /\ m <= g[k]
  <2>1. m - p + 1 \in 1 .. f[l] /\ m - p + 1 \in 1 .. q - p + 1  BY <1>1, <1>4, <1>8
  <2>2. d[m - p + 1] = c[m]  BY <1>1, <1>2, <2>1
  <2>3. PICK k \in 1 .. l : IsHead(x[k]) /\ m - p + 1 <= f[k]
    BY <1>3, <1>8, <2>1, <2>2 DEF Remains
  <2>4. k \in 1 .. Len(x)  BY <1>1
  <2>5. m <= g[k]  BY <1>1, <1>4, <2>3, <2>4
  <2> QED  BY <2>3, <2>5
<1>9. ASSUME NEW t, NEW i \in 1 .. q - p + 1, InTable(d, i, t)
      PROVE  InTable(c, i + p - 1, t)
  <2>1. PICK h \in 1 .. i : d[h] = Table(t) /\ Plain(d, h + 1, i)  BY <1>9 DEF InTable
  <2>2. c[h + p - 1] = Table(t) /\ h + p - 1 \in 1 .. i + p - 1  BY <1>1, <1>2, <2>1
  <2>3. Plain(c, (h + p - 1) + 1, i + p - 1)
    <3> SUFFICES ASSUME NEW k \in (h + p - 1) + 1 .. i + p - 1  PROVE ~IsHead(c[k])
      BY DEF Plain
    <3>1. k - p + 1 \in h + 1 .. i /\ k - p + 1 \in 1 .. q - p + 1  BY <1>1
    <3>2. d[k - p + 1] = c[k]  BY <1>1, <1>2, <3>1
    <3> QED  BY <2>1, <3>1, <3>2 DEF Plain
  <2> QED  BY <2>2, <2>3 DEF InTable
<1>10. ASSUME NEW i \in p .. q, ~InTable(c, i, "lore"), ~InTable(c, i, "env")
       PROVE  \E k \in 1 .. Len(x) : g[k] = i
  <2>1. i - p + 1 \in 1 .. q - p + 1 /\ (i - p + 1) + p - 1 = i  BY <1>1
  <2>2. ~InTable(d, i - p + 1, "lore") /\ ~InTable(d, i - p + 1, "env")
    BY <1>9, <1>10, <2>1
  <2>3. PICK k \in 1 .. Len(x) : f[k] = i - p + 1  BY <1>3, <2>1, <2>2 DEF Remains
  <2> QED  BY <1>4, <2>1, <2>3
<1> QED  BY <1>5, <1>6, <1>7, <1>8, <1>10 DEF Remains

\* What remains of a remainder.
LEMMA Both ==
  ASSUME NEW c \in Seq(Line), NEW y \in Seq(Line), NEW x \in Seq(Line), NEW f, NEW g,
         Remains(y, c, 1, Len(c), g), Remains(x, y, 1, Len(y), f)
  PROVE  Remains(x, c, 1, Len(c), [k \in 1 .. Len(x) |-> g[f[k]]])
<1> DEFINE e == [k \in 1 .. Len(x) |-> g[f[k]]]
<1>1. Len(c) \in Nat /\ Len(x) \in Nat /\ Len(y) \in Nat  BY Doc
<1>2. \A k \in 1 .. Len(x) : f[k] \in 1 .. Len(y) /\ e[k] = g[f[k]]  BY DEF Remains
<1>3. \A k \in 1 .. Len(y) : g[k] \in 1 .. Len(c)  BY DEF Remains
<1>4. e \in [1 .. Len(x) -> 1 .. Len(c)]  BY <1>2, <1>3
<1> HIDE DEF e
<1>5. \A k, l \in 1 .. Len(x) : k < l => e[k] < e[l]  BY <1>2 DEF Remains
<1>6. \A k \in 1 .. Len(x) : x[k] = c[e[k]]
  <2> TAKE k \in 1 .. Len(x)
  <2>1. x[k] = y[f[k]]  BY DEF Remains
  <2>2. y[f[k]] = c[g[f[k]]]  BY <1>2 DEF Remains
  <2> QED  BY <1>2, <2>1, <2>2
<1>7. ASSUME NEW l \in 1 .. Len(x), NEW m \in 1 .. e[l], IsHead(c[m])
      PROVE  \E k \in 1 .. l : IsHead(x[k]) /\ m <= e[k]
  <2>1. PICK j \in 1 .. f[l] : IsHead(y[j]) /\ m <= g[j]  BY <1>2, <1>7 DEF Remains
  <2>2. PICK k \in 1 .. l : IsHead(x[k]) /\ j <= f[k]  BY <2>1 DEF Remains
  <2>3. k \in 1 .. Len(x) /\ f[k] \in 1 .. Len(y) /\ j \in 1 .. Len(y)  BY <1>1, <1>2
  <2>4. g[j] <= g[f[k]]
    <3>1. CASE j = f[k]  BY <1>3, <2>3, <3>1
    <3>2. CASE j < f[k]
      <4>1. g[j] < g[f[k]]  BY <2>3, <3>2 DEF Remains
      <4> QED  BY <1>3, <2>3, <4>1
    <3> QED  BY <2>2, <2>3, <3>1, <3>2
  <2>5. m <= e[k]  BY <1>2, <1>3, <2>1, <2>3, <2>4
  <2> QED  BY <2>2, <2>5
<1>8. ASSUME NEW t, NEW k \in 1 .. Len(y), InTable(y, k, t)  PROVE InTable(c, g[k], t)
  <2>1. PICK h \in 1 .. k : y[h] = Table(t) /\ Plain(y, h + 1, k)  BY <1>8 DEF InTable
  <2>2. h \in 1 .. Len(y)  BY <1>1
  <2>3. c[g[h]] = Table(t) /\ g[h] \in 1 .. g[k]
    <3>1. h = k \/ h < k  BY <2>2
    <3>2. g[h] <= g[k]  BY <1>3, <2>2, <3>1 DEF Remains
    <3>3. y[h] = c[g[h]]  BY <2>2 DEF Remains
    <3> QED  BY <1>3, <2>1, <2>2, <3>2, <3>3
  <2>4. Plain(c, g[h] + 1, g[k])
    <3> SUFFICES ASSUME NEW m \in g[h] + 1 .. g[k], IsHead(c[m])  PROVE FALSE  BY DEF Plain
    <3>1. m \in 1 .. g[k]  BY <1>3, <2>2
    <3>2. PICK j \in 1 .. k : IsHead(y[j]) /\ m <= g[j]  BY <3>1 DEF Remains
    <3>3. j \in 1 .. Len(y)  BY <1>1
    <3>4. j \notin h + 1 .. k  BY <2>1, <3>2 DEF Plain
    <3>5. j = h \/ j < h  BY <2>2, <3>3, <3>4
    <3>6. g[j] <= g[h]  BY <1>3, <2>2, <3>3, <3>5 DEF Remains
    <3> QED  BY <1>3, <2>2, <3>2, <3>3, <3>6
  <2> QED  BY <2>3, <2>4 DEF InTable
<1>9. ASSUME NEW i \in 1 .. Len(c), ~InTable(c, i, "lore"), ~InTable(c, i, "env")
      PROVE  \E k \in 1 .. Len(x) : e[k] = i
  <2>1. PICK j \in 1 .. Len(y) : g[j] = i  BY <1>9 DEF Remains
  <2>2. ~InTable(y, j, "lore") /\ ~InTable(y, j, "env")  BY <1>8, <1>9, <2>1
  <2>3. PICK k \in 1 .. Len(x) : f[k] = j  BY <2>2 DEF Remains
  <2> QED  BY <1>2, <2>1, <2>3
<1>10. Remains(x, c, 1, Len(c), e)  BY <1>4, <1>5, <1>6, <1>7, <1>9 DEF Remains
<1> QED  BY <1>10 DEF e

\* First finds the first.
LEMMA FirstIs ==
  ASSUME NEW c \in Seq(Line), NEW l
  PROVE  /\ Has(c, l) => /\ First(c, l) \in 1 .. Len(c) /\ c[First(c, l)] = l
                         /\ \A k \in 1 .. First(c, l) - 1 : c[k] # l
         /\ ~Has(c, l) => First(c, l) = 0
<1>1. Len(c) \in Nat /\ DOMAIN c = 1 .. Len(c)  BY Doc
<1>2. ASSUME Has(c, l)
      PROVE  \E i \in DOMAIN c : c[i] = l /\ \A k \in 1 .. i - 1 : c[k] # l
  <2> DEFINE I == {i \in 1 .. Len(c) : c[i] = l}
  <2>1. I \in SUBSET Nat /\ I # {}  BY <1>1, <1>2 DEF Has
  <2>2. PICK i \in I : \A k \in I : i <= k  BY <2>1, Least
  <2>3. ASSUME NEW k \in 1 .. i - 1, c[k] = l  PROVE FALSE
    <3>1. k \in I  BY <1>1, <2>2, <2>3
    <3> QED  BY <1>1, <2>2, <2>3, <3>1
  <2> QED  BY <1>1, <2>2, <2>3
<1> QED  BY <1>1, <1>2 DEF First

\* A line that does not stand before position i, and stands there, is first there.
LEMMA FirstIsIt ==
  ASSUME NEW c \in Seq(Line), NEW i \in 1 .. Len(c), \A k \in 1 .. i - 1 : c[k] # c[i]
  PROVE  First(c, c[i]) = i
<1>1. Len(c) \in Nat /\ DOMAIN c = 1 .. Len(c)  BY Doc
<1> DEFINE j == First(c, c[i])
<1>2. Has(c, c[i])  BY <1>1 DEF Has
<1>3. j \in 1 .. Len(c) /\ c[j] = c[i] /\ \A k \in 1 .. j - 1 : c[k] # c[i]
  BY <1>2, FirstIs
<1> HIDE DEF j
<1>4. ~(j < i)  BY <1>1, <1>3
<1>5. ~(i < j)  BY <1>1, <1>3
<1> QED  BY <1>1, <1>3, <1>4, <1>5 DEF j

-----------------------------------------------------------------------------
(* The merge of the block.                                                  *)

\* The block with x above it and y below.
Around(x, s, y) == x \o Managed(s) \o y

\* m is the document c with the managed block in the place of the lines after
\* p and up to q, and with x and y remaining around them.
Framed(c, s, m, p, q, x, y, f, g) ==
  /\ m = Around(x, s, y)
  /\ p \in 0 .. Len(c) /\ q \in p .. Len(c)
  /\ x \in Seq(Line) /\ y \in Seq(Line)
  /\ Remains(x, c, 1, p, f) /\ Remains(y, c, q + 1, Len(c), g)
  /\ ~Has(x, Start) /\ ~Has(x, End) /\ ~Has(x, Table("env")) /\ ~Has(y, Table("env"))
  /\ \A i \in 1 .. Len(c) : InBlock(c, i) <=> p < i /\ i <= q
  /\ HasBlock(c) => q = First(c, End)
  /\ ~HasBlock(c) => y = << >> /\ ~Has(x, Table("lore"))

\* The six lines of the block.
LEMMA ManagedLines ==
  ASSUME NEW s \in Words
  PROVE  /\ Managed(s) \in Seq(Line) /\ Len(Managed(s)) = 6
         /\ Managed(s)[1] = Start /\ Managed(s)[2] = Table("lore")
         /\ Managed(s)[3] = Key("url", s) /\ Managed(s)[4] = Table("context7")
         /\ Managed(s)[5] = Key("url", "hosted") /\ Managed(s)[6] = End
<1>1. /\ Start \in Line /\ End \in Line /\ Table("lore") \in Line /\ Table("context7") \in Line
      /\ Key("url", s) \in Line /\ Key("url", "hosted") \in Line
  BY Lines, DocumentsAreLines
<1> QED  BY <1>1 DEF Managed

\* What mergeCodexMCPConfig returns, unless it refuses: the block, and what remains
\* around it.
LEMMA BlockIsFramed ==
  ASSUME NEW c \in Seq(Line), NEW owned \in BOOLEAN, NEW s \in Words,
         MergeBlock(c, owned, s) # Refused
  PROVE  \E p, q, x, y, f, g : Framed(c, s, MergeBlock(c, owned, s), p, q, x, y, f, g)
<1> DEFINE m == MergeBlock(c, owned, s)
           n == Len(c)
<1>1. n \in Nat /\ DOMAIN c = 1 .. n  BY Doc
<1>2. CASE HasBlock(c)
  <2> DEFINE a == First(c, Start)
             b == First(c, End)
             x == StripEnv(SubSeq(c, 1, a - 1))
             y == StripEnv(SubSeq(c, b + 1, n))
  <2>1. m = Around(x, s, y) /\ a # 0 /\ ~(b < a) /\ x # Refused /\ y # Refused
    BY <1>2 DEF MergeBlock, Around
  <2>2. a \in 1 .. n /\ c[a] = Start /\ \A k \in 1 .. a - 1 : c[k] # Start
    BY <2>1, FirstIs
  <2>3. b \in a .. n /\ c[b] = End /\ \A k \in 1 .. b - 1 : c[k] # End
    <3>1. b \in 0 .. n  BY <1>1, FirstIs
    <3>2. b \in a .. n /\ b # 0  BY <1>1, <2>1, <2>2, <3>1
    <3> QED  BY <3>2, FirstIs
  <2> HIDE DEF a, b
  <2>4. /\ SubSeq(c, 1, a - 1) \in Seq(Line) /\ Len(SubSeq(c, 1, a - 1)) = a - 1
        /\ SubSeq(c, b + 1, n) \in Seq(Line) /\ Len(SubSeq(c, b + 1, n)) = n - b
    <3>1. a - 1 \in 0 .. n /\ b + 1 \in 1 .. n + 1 /\ n \in b .. n  BY <1>1, <2>2, <2>3
    <3>2. SubSeq(c, 1, a - 1) \in Seq(Line) /\ Len(SubSeq(c, 1, a - 1)) = (a - 1) - 1 + 1
      BY <1>1, <3>1, Slice
    <3>3. SubSeq(c, b + 1, n) \in Seq(Line) /\ Len(SubSeq(c, b + 1, n)) = n - (b + 1) + 1
      <4>1. n \in (b + 1) - 1 .. n  BY <1>1, <2>3
      <4> QED  BY <3>1, <4>1, Slice
    <3>4. (a - 1) - 1 + 1 = a - 1 /\ n - (b + 1) + 1 = n - b  BY <1>1, <2>2, <2>3
    <3> QED  BY <3>2, <3>3, <3>4
  <2>5. /\ x \in Seq(Line) /\ ~Has(x, Table("env"))
        /\ y \in Seq(Line) /\ ~Has(y, Table("env"))
    BY <2>1, <2>4, EnvOut
  <2>6. PICK f : Remains(x, c, 1, a - 1, f)
    <3>1. PICK e : Remains(x, SubSeq(c, 1, a - 1), 1, Len(SubSeq(c, 1, a - 1)), e)
      BY <2>1, <2>4, EnvOut
    <3>2. 1 \in 1 .. n + 1 /\ a - 1 \in 1 - 1 .. n  BY <1>1, <2>2
    <3> HIDE DEF x
    <3> QED  BY <2>5, <3>1, <3>2, Shifted
  <2>7. PICK g : Remains(y, c, b + 1, n, g)
    <3>1. PICK e : Remains(y, SubSeq(c, b + 1, n), 1, Len(SubSeq(c, b + 1, n)), e)
      BY <2>1, <2>4, EnvOut
    <3>2. b + 1 \in 1 .. n + 1 /\ n \in (b + 1) - 1 .. n  BY <1>1, <2>2, <2>3
    <3> HIDE DEF y
    <3> QED  BY <2>5, <3>1, <3>2, Shifted
  <2> HIDE DEF x, y
  <2>8. ~Has(x, Start) /\ ~Has(x, End)
    <3>1. DOMAIN x = 1 .. Len(x)  BY <2>5, Doc
    <3>2. \A k \in 1 .. Len(x) : x[k] # Start /\ x[k] # End
      <4> TAKE k \in 1 .. Len(x)
      <4>1. x[k] = c[f[k]] /\ f[k] \in 1 .. a - 1  BY <2>6 DEF Remains
      <4>2. f[k] \in 1 .. b - 1  BY <1>1, <2>2, <2>3, <4>1
      <4> QED  BY <2>2, <2>3, <4>1, <4>2
    <3> QED  BY <3>1, <3>2 DEF Has
  <2>9. \A i \in 1 .. n : InBlock(c, i) <=> a - 1 < i /\ i <= b
    BY <1>1, <2>2, <2>3 DEF InBlock, a, b
  <2>10. Framed(c, s, m, a - 1, b, x, y, f, g)
    <3>1. a - 1 \in 0 .. n /\ b \in a - 1 .. n  BY <1>1, <2>2, <2>3
    <3> HIDE DEF m
    <3> QED  BY <1>2, <2>1, <2>5, <2>6, <2>7, <2>8, <2>9, <3>1 DEF Framed, b
  <2> QED  BY <2>10
<1>3. CASE ~HasBlock(c)
  <2> DEFINE z == IF owned THEN StripLore(c) ELSE c
             x == StripEnv(z)
  <2>1. m = x \o Managed(s) /\ x # Refused /\ ~(HasLoreTable(c) /\ ~owned)
    BY <1>3 DEF MergeBlock
  <2>2. z \in Seq(Line) /\ ~Has(z, Table("lore"))
    BY <2>1, LoreOut DEF HasLoreTable
  <2>3. \E e : Remains(z, c, 1, n, e)
    <3>1. CASE owned  BY <3>1, LoreOut
    <3>2. CASE ~owned
      <4> DEFINE e == [i \in 1 .. n |-> i]
      <4>1. \A i \in 1 .. n : e[i] = i  OBVIOUS
      <4>2. e \in [1 .. n -> 1 .. n]  OBVIOUS
      <4> HIDE DEF e
      <4>3. \A l \in 1 .. n : l \in 1 .. l  BY <1>1
      <4>4. \A l \in 1 .. n : \A k \in 1 .. l : k \in 1 .. n  BY <1>1
      <4>5. Remains(c, c, 1, n, e)
        <5>1. \A k, l \in 1 .. n : k < l => e[k] < e[l]  BY <4>1
        <5>2. \A k \in 1 .. n : c[k] = c[e[k]]  BY <4>1
        <5>3. ASSUME NEW l \in 1 .. n, NEW k \in 1 .. e[l], IsHead(c[k])
              PROVE  \E j \in 1 .. l : IsHead(c[j]) /\ k <= e[j]
          BY <4>1, <4>4, <5>3
        <5> QED  BY <4>1, <4>2, <5>1, <5>2, <5>3 DEF Remains
      <4> QED  BY <3>2, <4>5
    <3> QED  BY <3>1, <3>2
  <2>4. PICK e : Remains(z, c, 1, n, e)  BY <2>3
  <2> HIDE DEF z
  <2>5. x \in Seq(Line) /\ ~Has(x, Table("env"))  BY <2>1, <2>2, EnvOut
  <2>6. PICK h : Remains(x, z, 1, Len(z), h)  BY <2>1, <2>2, EnvOut
  <2> HIDE DEF x
  <2>7. PICK f : Remains(x, c, 1, n, f)  BY <2>2, <2>4, <2>5, <2>6, Both
  <2>8. DOMAIN x = 1 .. Len(x) /\ DOMAIN z = 1 .. Len(z)  BY <2>2, <2>5, Doc
  <2>9. ~Has(x, Table("lore"))
    <3>1. \A k \in 1 .. Len(x) : x[k] = z[h[k]] /\ h[k] \in 1 .. Len(z)
      BY <2>6 DEF Remains
    <3> QED  BY <2>2, <2>8, <3>1 DEF Has
  <2>10. ~Has(x, Start) /\ ~Has(x, End)
    <3>1. \A k \in 1 .. Len(x) : x[k] = c[f[k]] /\ f[k] \in 1 .. n
      BY <2>7 DEF Remains
    <3> QED  BY <1>1, <1>3, <2>8, <3>1 DEF HasBlock, Has
  <2>11. << >> \in Seq(Line) /\ Len(<< >>) = 0  BY EmptySeq
  <2>12. \A i \in 1 .. n : ~InBlock(c, i) /\ ~(n < i)
    BY <1>1, <1>3, FirstIs DEF InBlock, HasBlock
  <2>13. Managed(s) \in Seq(Line)  BY ManagedLines
  <2>14. m = Around(x, s, << >>)
    <3>1. x \o Managed(s) \in Seq(Line)  BY <2>5, <2>13, ConcatProperties
    <3> QED  BY <2>1, <3>1, ConcatEmptySeq DEF Around
  <2>15. \E g : Remains(<< >>, c, n + 1, n, g)
    <3> DEFINE g == [k \in 1 .. 0 |-> k]
    <3>1. Len(<< >>) = 0 /\ 1 .. 0 = {} /\ n + 1 .. n = {}  BY <1>1
    <3>2. g \in [{} -> {}]  BY <3>1
    <3> HIDE DEF g
    <3>3. Remains(<< >>, c, n + 1, n, g)  BY <3>1, <3>2 DEF Remains
    <3> QED  BY <3>3
  <2>16. PICK g : Remains(<< >>, c, n + 1, n, g)  BY <2>15
  <2>17. ~Has(<< >>, Table("env"))  BY DEF Has
  <2>18. Framed(c, s, m, n, n, x, << >>, f, g)
    <3>1. n \in 0 .. n /\ n \in n .. n  BY <1>1
    <3> HIDE DEF m
    <3> QED  BY <1>3, <2>5, <2>7, <2>9, <2>10, <2>11, <2>12, <2>14, <2>16, <2>17, <3>1
             DEF Framed
  <2> QED  BY <2>18
<1> QED  BY <1>2, <1>3

\* The framed document m line by line.
LaidOut(m, x, s, y) ==
  /\ m \in Seq(Line) /\ Len(m) = Len(x) + 6 + Len(y)
  /\ \A i \in 1 .. Len(x) : m[i] = x[i]
  /\ m[Len(x) + 1] = Start /\ m[Len(x) + 2] = Table("lore")
  /\ m[Len(x) + 3] = Key("url", s) /\ m[Len(x) + 4] = Table("context7")
  /\ m[Len(x) + 5] = Key("url", "hosted") /\ m[Len(x) + 6] = End
  /\ \A i \in 1 .. Len(y) : m[Len(x) + 6 + i] = y[i]

\* The block with x above it and y below, line by line.
LEMMA FramedLines ==
  ASSUME NEW x \in Seq(Line), NEW y \in Seq(Line), NEW s \in Words
  PROVE  LaidOut(Around(x, s, y), x, s, y)
<1> DEFINE b == Managed(s)
           xb == x \o b
           m == xb \o y
           k == Len(x)
<1>0. Around(x, s, y) = m  BY DEF Around
<1>1. k \in Nat /\ Len(y) \in Nat  BY Doc
<1>2. /\ b \in Seq(Line) /\ Len(b) = 6
      /\ b[1] = Start /\ b[2] = Table("lore") /\ b[3] = Key("url", s)
      /\ b[4] = Table("context7") /\ b[5] = Key("url", "hosted") /\ b[6] = End
  BY ManagedLines
<1> HIDE DEF b
<1>3. /\ xb \in Seq(Line) /\ Len(xb) = k + Len(b)
      /\ \A i \in 1 .. k : xb[i] = x[i]
      /\ \A i \in 1 .. Len(b) : xb[k + i] = b[i]
  BY <1>2, Joined
<1> HIDE DEF xb
<1>4. /\ m \in Seq(Line) /\ Len(m) = Len(xb) + Len(y)
      /\ \A i \in 1 .. Len(xb) : m[i] = xb[i]
      /\ \A i \in 1 .. Len(y) : m[Len(xb) + i] = y[i]
  BY <1>3, Joined
<1> HIDE DEF m
<1>5. \A i \in 1 .. k : m[i] = x[i]
  <2> TAKE i \in 1 .. k
  <2>1. i \in 1 .. Len(xb)  BY <1>1, <1>2, <1>3
  <2> QED  BY <1>3, <1>4, <2>1
<1>6. \A j \in 1 .. 6 : m[k + j] = b[j]
  <2> TAKE j \in 1 .. 6
  <2>1. k + j \in 1 .. Len(xb) /\ j \in 1 .. Len(b)  BY <1>1, <1>2, <1>3
  <2> QED  BY <1>3, <1>4, <2>1
<1>7. \A j \in 1 .. Len(y) : m[k + 6 + j] = y[j]
  BY <1>1, <1>2, <1>3, <1>4
<1>8. m[k + 1] = b[1] /\ m[k + 2] = b[2] /\ m[k + 3] = b[3] /\ m[k + 4] = b[4]
      /\ m[k + 5] = b[5] /\ m[k + 6] = b[6]
  BY <1>6
<1>9. Len(m) = k + 6 + Len(y)  BY <1>1, <1>2, <1>3, <1>4
<1>10. LaidOut(m, x, s, y)  BY <1>2, <1>4, <1>5, <1>7, <1>8, <1>9 DEF LaidOut, b
<1> QED  BY <1>0, <1>10

-----------------------------------------------------------------------------
(* The merge of a table.                                                    *)

Runtime == {"features", "agents"}

\* The keys mergeCodexRuntimeTable wants have distinct names of their table's own.
LEMMA WantedLines ==
  ASSUME NEW t \in Runtime
  PROVE  LET w == Wanted(t)
         IN  /\ w \in Seq(Line) /\ Len(w) \in 1 .. 2 /\ DOMAIN w = 1 .. Len(w)
             /\ \A n \in 1 .. Len(w) : IsKey(w[n])
             /\ \A n, k \in 1 .. Len(w) : w[n].name = w[k].name => n = k
             /\ \A n \in 1 .. Len(w) : w[n].name \in
                  (IF t = "features" THEN {"multi_agent"} ELSE {"max_threads", "max_depth"})
<1>0. /\ Key("multi_agent", "true") \in Line /\ Key("max_threads", "4") \in Line
      /\ Key("max_depth", "2") \in Line
  BY Lines, DocumentsAreLines
<1>1. CASE t = "features"
  <2>1. Wanted(t) = << Key("multi_agent", "true") >>  BY <1>1 DEF Wanted
  <2>2. Len(Wanted(t)) = 1 /\ DOMAIN Wanted(t) = 1 .. 1 /\ 1 .. 1 = {1}  BY <2>1
  <2>3. Wanted(t)[1] = Key("multi_agent", "true")  BY <2>1
  <2>4. Wanted(t) \in Seq(Line)  BY <1>0, <2>1
  <2> QED  BY <1>1, <2>2, <2>3, <2>4 DEF Key, IsKey
<1>2. CASE t = "agents"
  <2>1. Wanted(t) = << Key("max_threads", "4"), Key("max_depth", "2") >>  BY <1>2 DEF Wanted
  <2>2. Len(Wanted(t)) = 2 /\ DOMAIN Wanted(t) = 1 .. 2 /\ 1 .. 2 = {1, 2}  BY <2>1
  <2>3. Wanted(t)[1] = Key("max_threads", "4") /\ Wanted(t)[2] = Key("max_depth", "2")  BY <2>1
  <2>4. Wanted(t) \in Seq(Line)  BY <1>0, <2>1
  <2> QED  BY <1>2, <2>2, <2>3, <2>4 DEF Key, IsKey
<1> QED  BY <1>1, <1>2 DEF Runtime

\* r is the document d with the lines new before line e.
Opened(r, d, e, new) ==
  /\ r \in Seq(Line) /\ Len(r) = Len(d) + Len(new)
  /\ \A i \in 1 .. e - 1 : r[i] = d[i]
  /\ \A i \in 1 .. Len(new) : r[e - 1 + i] = new[i]
  /\ \A i \in e .. Len(d) : r[i + Len(new)] = d[i]

\* Insert opens the document at line e.
LEMMA Inserted ==
  ASSUME NEW d \in Seq(Line), NEW e \in 1 .. Len(d) + 1, NEW new \in Seq(Line)
  PROVE  Opened(Insert(d, e, new), d, e, new)
<1> DEFINE k == Len(d)
           n == Len(new)
           u == SubSeq(d, 1, e - 1)
           v == SubSeq(d, e, k)
           un == u \o new
           r == un \o v
<1>1. k \in Nat /\ n \in Nat  BY Doc
<1>2. u \in Seq(Line) /\ Len(u) = e - 1 /\ \A i \in 1 .. e - 1 : u[i] = d[i]
  <2>1. 1 \in 1 .. k + 1 /\ e - 1 \in 1 - 1 .. k /\ (e - 1) - 1 + 1 = e - 1  BY <1>1
  <2>2. /\ u \in Seq(Line) /\ Len(u) = (e - 1) - 1 + 1
        /\ \A i \in 1 .. (e - 1) - 1 + 1 : u[i] = d[1 + i - 1]
    BY <2>1, Slice
  <2>3. \A i \in 1 .. e - 1 : 1 + i - 1 = i  OBVIOUS
  <2> HIDE DEF u
  <2> QED  BY <2>1, <2>2, <2>3
<1>3. v \in Seq(Line) /\ Len(v) = k - e + 1 /\ \A i \in 1 .. k - e + 1 : v[i] = d[e + i - 1]
  <2>1. k \in e - 1 .. k  BY <1>1
  <2> QED  BY <2>1, Slice
<1> HIDE DEF u, v
<1>4. /\ un \in Seq(Line) /\ Len(un) = Len(u) + n
      /\ \A i \in 1 .. Len(u) : un[i] = u[i]
      /\ \A i \in 1 .. n : un[Len(u) + i] = new[i]
  BY <1>2, Joined
<1> HIDE DEF un
<1>5. /\ r \in Seq(Line) /\ Len(r) = Len(un) + Len(v)
      /\ \A i \in 1 .. Len(un) : r[i] = un[i]
      /\ \A i \in 1 .. Len(v) : r[Len(un) + i] = v[i]
  BY <1>3, <1>4, Joined
<1>6. r = Insert(d, e, new)  BY DEF Insert, un, u, v
<1> HIDE DEF r
<1>7. Len(r) = k + n  BY <1>1, <1>2, <1>3, <1>4, <1>5
<1>8. \A i \in 1 .. e - 1 : r[i] = d[i]
  <2> TAKE i \in 1 .. e - 1
  <2>1. i \in 1 .. Len(un) /\ i \in 1 .. Len(u)  BY <1>1, <1>2, <1>4
  <2> QED  BY <1>2, <1>4, <1>5, <2>1
<1>9. ASSUME NEW i \in 1 .. n  PROVE r[e - 1 + i] = new[i]
  <2>1. Len(u) + i \in 1 .. Len(un) /\ Len(u) + i = e - 1 + i  BY <1>1, <1>2, <1>4
  <2> QED  BY <1>4, <1>5, <2>1
<1>10. ASSUME NEW i \in e .. k  PROVE r[i + n] = d[i]
  <2>1. /\ i - e + 1 \in 1 .. Len(v) /\ Len(un) + (i - e + 1) = i + n
        /\ i - e + 1 \in 1 .. k - e + 1 /\ e + (i - e + 1) - 1 = i
    BY <1>1, <1>2, <1>3, <1>4
  <2>2. r[Len(un) + (i - e + 1)] = v[i - e + 1]  BY <1>5, <2>1
  <2>3. v[i - e + 1] = d[e + (i - e + 1) - 1]  BY <1>3, <2>1
  <2> QED  BY <2>1, <2>2, <2>3
<1>11. Opened(r, d, e, new)  BY <1>5, <1>7, <1>8, <1>9, <1>10 DEF Opened
<1> QED  BY <1>6, <1>11

\* Forcing changes values only, of the wanted keys on the lines i to j only.
LEMMA ForcedLines ==
  ASSUME NEW c \in Seq(Line), NEW i, NEW j, NEW t \in Runtime
  PROVE  LET d == Forced(c, i, j, t)
         IN  /\ d \in Seq(Line) /\ Len(d) = Len(c)
             /\ \A k \in 1 .. Len(c) :
                  /\ d[k].kind = c[k].kind /\ d[k].name = c[k].name
                  /\ d[k] # c[k] => /\ k \in i .. j /\ IsKey(c[k])
                                    /\ \E n \in DOMAIN Wanted(t) : Wanted(t)[n].name = c[k].name
                  /\ k \in i .. j /\ IsKey(c[k]) =>
                       \A n \in DOMAIN Wanted(t) : Wanted(t)[n].name = c[k].name => d[k] = Wanted(t)[n]
<1> DEFINE d == Forced(c, i, j, t)
           w == Wanted(t)
           at(k) == CHOOSE n \in DOMAIN w : w[n].name = c[k].name
           mine(k) == k \in i .. j /\ IsKey(c[k]) /\ \E n \in DOMAIN w : w[n].name = c[k].name
<1>1. Len(c) \in Nat /\ DOMAIN c = 1 .. Len(c) /\ \A k \in 1 .. Len(c) : c[k] \in Line  BY Doc
<1>2. /\ DOMAIN w = 1 .. Len(w) /\ \A n \in 1 .. Len(w) : w[n] \in Line /\ IsKey(w[n])
      /\ \A n, k \in 1 .. Len(w) : w[n].name = w[k].name => n = k
  BY WantedLines, Doc
<1>3. d = [k \in 1 .. Len(c) |-> IF mine(k) THEN w[at(k)] ELSE c[k]]
  BY <1>1 DEF Forced
<1>4. \A k \in 1 .. Len(c) : mine(k) =>
        /\ at(k) \in DOMAIN w /\ w[at(k)].name = c[k].name
        /\ \A n \in DOMAIN w : w[n].name = c[k].name => n = at(k)
  <2> TAKE k \in 1 .. Len(c)
  <2> SUFFICES ASSUME mine(k)
               PROVE  /\ at(k) \in DOMAIN w /\ w[at(k)].name = c[k].name
                      /\ \A n \in DOMAIN w : w[n].name = c[k].name => n = at(k)
    OBVIOUS
  <2>1. at(k) \in DOMAIN w /\ w[at(k)].name = c[k].name  OBVIOUS
  <2> HIDE DEF at, w
  <2> QED  BY <1>2, <2>1
<1>5. \A k \in 1 .. Len(c) : mine(k) => k \in i .. j /\ IsKey(c[k]) /\ \E n \in DOMAIN w : w[n].name = c[k].name
  OBVIOUS
<1>6. \A k \in 1 .. Len(c) : k \in i .. j /\ IsKey(c[k]) =>
        \A n \in DOMAIN w : w[n].name = c[k].name => mine(k)
  OBVIOUS
<1> HIDE DEF at, mine, w, d
<1>7. \A k \in 1 .. Len(c) : d[k] = IF mine(k) THEN w[at(k)] ELSE c[k]  BY <1>3
<1>8. d \in Seq(Line) /\ Len(d) = Len(c)
  <2>1. d \in [1 .. Len(c) -> Line]  BY <1>1, <1>2, <1>3, <1>4
  <2> QED  BY <1>1, <2>1
<1>9. \A k \in 1 .. Len(c) : d[k].kind = c[k].kind /\ d[k].name = c[k].name
  BY <1>2, <1>4, <1>5, <1>7 DEF IsKey
<1>10. \A k \in 1 .. Len(c) : d[k] # c[k] =>
         k \in i .. j /\ IsKey(c[k]) /\ \E n \in DOMAIN w : w[n].name = c[k].name
  BY <1>5, <1>7
<1>11. \A k \in 1 .. Len(c) : k \in i .. j /\ IsKey(c[k]) =>
         \A n \in DOMAIN w : w[n].name = c[k].name => d[k] = w[n]
  BY <1>4, <1>6, <1>7
<1> QED  BY <1>8, <1>9, <1>10, <1>11 DEF d, w

\* What is missing is what is wanted and not set, each key once.
LEMMA MissingLines ==
  ASSUME NEW c \in Seq(Line), NEW i, NEW j, NEW t \in Runtime
  PROVE  LET v == Missing(c, i, j, t)  w == Wanted(t)
         IN  /\ v \in Seq(Line)
             /\ \A n \in 1 .. Len(v) : \E k \in DOMAIN w : v[n] = w[k] /\ ~Sets(c, i, j, w[k])
             /\ \A n, l \in 1 .. Len(v) : v[n].name = v[l].name => n = l
             /\ \A k \in DOMAIN w : ~Sets(c, i, j, w[k]) => \E n \in 1 .. Len(v) : v[n] = w[k]
<1> DEFINE w == Wanted(t)
           I == {k \in DOMAIN w : ~Sets(c, i, j, w[k])}
           v == Pick(w, I)
<1>1. /\ w \in Seq(Line) /\ DOMAIN w = 1 .. Len(w) /\ Len(w) \in Nat
      /\ \A n, k \in 1 .. Len(w) : w[n].name = w[k].name => n = k
  BY WantedLines, Doc
<1>2. I \in SUBSET DOMAIN w /\ \A k \in DOMAIN w : k \in I <=> ~Sets(c, i, j, w[k])  OBVIOUS
<1>3. v = Missing(c, i, j, t)  BY DEF Missing
<1> HIDE DEF I, w
<1>4. v \in Seq(Line)  BY <1>1, <1>2, Picked
<1>5. PICK f : Order(f, Len(v), I) /\ \A k \in 1 .. Len(v) : v[k] = w[f[k]]
  BY <1>1, <1>2, Picked
<1>6. Len(v) \in Nat  BY <1>4, Doc
<1> HIDE DEF v
<1>7. \A n \in 1 .. Len(v) : f[n] \in I /\ f[n] \in DOMAIN w  BY <1>2, <1>5 DEF Order
<1>8. \A n \in 1 .. Len(v) : v[n] = w[f[n]] /\ ~Sets(c, i, j, w[f[n]])  BY <1>2, <1>5, <1>7
<1>9. ASSUME NEW n \in 1 .. Len(v), NEW l \in 1 .. Len(v), v[n].name = v[l].name  PROVE n = l
  <2>1. f[n] = f[l] /\ f[n] \in Nat  BY <1>1, <1>7, <1>8, <1>9
  <2>2. ~(n < l) /\ ~(l < n)  BY <1>5, <2>1 DEF Order
  <2> QED  BY <2>2
<1>10. \A k \in DOMAIN w : ~Sets(c, i, j, w[k]) => \E n \in 1 .. Len(v) : v[n] = w[k]
  <2> TAKE k \in DOMAIN w
  <2> HAVE ~Sets(c, i, j, w[k])
  <2>1. PICK n \in 1 .. Len(v) : f[n] = k  BY <1>2, <1>5 DEF Order
  <2> QED  BY <1>8, <2>1
<1>11. \A n \in 1 .. Len(v) : \E k \in DOMAIN w : v[n] = w[k] /\ ~Sets(c, i, j, w[k])
  BY <1>7, <1>8
<1> QED  BY <1>3, <1>4, <1>9, <1>10, <1>11 DEF w

\* The last table t of a document, if there is one, has one place.
LEMMA TableFound ==
  ASSUME NEW c \in Seq(Line), NEW t, Has(c, Table(t))
  PROVE  \E h \in 1 .. Len(c) : \E e \in h + 1 .. Len(c) + 1 : LastTable(c, t, h, e)
<1> DEFINE n == Len(c)
           H == {h \in 0 .. n : h # 0 /\ c[h] = Table(t)}
<1>1. n \in Nat /\ DOMAIN c = 1 .. n  BY Doc
<1>2. H \in SUBSET (0 .. n) /\ H # {}  BY <1>1 DEF Has
<1>3. PICK h \in H : \A k \in H : k <= h  BY <1>1, <1>2, Greatest
<1>4. h \in 1 .. n /\ c[h] = Table(t)  BY <1>1, <1>3
<1>5. ASSUME NEW k \in h + 1 .. n, c[k] = Table(t)  PROVE FALSE
  <2>1. k \in H  BY <1>1, <1>4, <1>5
  <2> QED  BY <1>1, <1>3, <1>4, <2>1
<1> DEFINE E == {e \in h + 1 .. n + 1 : e = n + 1 \/ IsHead(c[e])}
<1>6. E \in SUBSET Nat /\ n + 1 \in E  BY <1>1, <1>4
<1>7. PICK e \in E : \A k \in E : e <= k  BY <1>6, Least
<1>8. ASSUME NEW k \in h + 1 .. e - 1, IsHead(c[k])  PROVE FALSE
  <2>1. k \in E  BY <1>1, <1>4, <1>7, <1>8
  <2> QED  BY <1>1, <1>4, <1>7, <2>1
<1>9. e \in 1 .. n => IsHead(c[e])  BY <1>1, <1>7
<1> QED  BY <1>1, <1>4, <1>5, <1>7, <1>8, <1>9 DEF LastTable, Plain

\* There is one last table t, and one place where it ends.
LEMMA TableOnce ==
  ASSUME NEW c \in Seq(Line), NEW t,
         NEW h \in 1 .. Len(c), NEW e \in h + 1 .. Len(c) + 1, LastTable(c, t, h, e),
         NEW g \in 1 .. Len(c), NEW d \in g + 1 .. Len(c) + 1, LastTable(c, t, g, d)
  PROVE  h = g /\ e = d
<1>1. Len(c) \in Nat /\ DOMAIN c = 1 .. Len(c)  BY Doc
<1>2. h = g
  <2>1. ~(h < g)  BY <1>1 DEF LastTable
  <2>2. ~(g < h)  BY <1>1 DEF LastTable
  <2> QED  BY <1>1, <2>1, <2>2
<1>3. ~(e < d)
  <2> SUFFICES ASSUME e < d PROVE FALSE  OBVIOUS
  <2>1. e \in DOMAIN c /\ e \in g + 1 .. d - 1  BY <1>1, <1>2
  <2> QED  BY <2>1 DEF LastTable, Plain
<1>4. ~(d < e)
  <2> SUFFICES ASSUME d < e PROVE FALSE  OBVIOUS
  <2>1. d \in DOMAIN c /\ d \in h + 1 .. e - 1  BY <1>1, <1>2
  <2> QED  BY <2>1 DEF LastTable, Plain
<1> QED  BY <1>1, <1>2, <1>3, <1>4

\* MergeTable in a document that has the table.
LEMMA MergeOfTable ==
  ASSUME NEW c \in Seq(Line), NEW t \in Runtime, NEW force \in BOOLEAN,
         NEW h \in 1 .. Len(c), NEW e \in h + 1 .. Len(c) + 1, LastTable(c, t, h, e),
         \A i \in 1 .. Len(c) : IsKey(c[i]) => c[i].name # t
  PROVE  MergeTable(c, t, force) =
           Insert(IF force THEN Forced(c, h + 1, e - 1, t) ELSE c, e,
                  Missing(c, h + 1, e - 1, t))
<1> DEFINE hh == CHOOSE x \in DOMAIN c : \E y \in x + 1 .. Len(c) + 1 : LastTable(c, t, x, y)
           ee == CHOOSE y \in hh + 1 .. Len(c) + 1 : LastTable(c, t, hh, y)
<1>1. Len(c) \in Nat /\ DOMAIN c = 1 .. Len(c)  BY Doc
<1>2. hh \in DOMAIN c /\ \E y \in hh + 1 .. Len(c) + 1 : LastTable(c, t, hh, y)
  BY <1>1
<1>3. ee \in hh + 1 .. Len(c) + 1 /\ LastTable(c, t, hh, ee)
  <2> HIDE DEF hh
  <2> QED  BY <1>2
<1>4. c # Refused  BY NotRefused
<1>5. Has(c, Table(t))  BY <1>1 DEF Has, LastTable
<1>6. ~ \E i \in DOMAIN c : IsKey(c[i]) /\ c[i].name = t  BY <1>1
<1>7. MergeTable(c, t, force) =
        Insert(IF force THEN Forced(c, hh + 1, ee - 1, t) ELSE c, ee,
               Missing(c, hh + 1, ee - 1, t))
  BY <1>4, <1>5, <1>6 DEF MergeTable
<1> HIDE DEF hh, ee
<1>8. hh = h /\ ee = e  BY <1>1, <1>2, <1>3, TableOnce
<1> QED  BY <1>7, <1>8

\* r is b after the merge of table t, which stands at line h of b and ends
\* before line e: k lines came in at e, the others moved or, forced, changed.
Filled(b, r, t, force, h, e, k) ==
  /\ r \in Seq(Line) /\ k \in Nat /\ Len(r) = Len(b) + k
  /\ h \in 1 .. Len(b) /\ e \in h + 1 .. Len(b) + 1 /\ LastTable(b, t, h, e)
  /\ \A i \in 1 .. Len(b) : IsKey(b[i]) => b[i].name # t
  /\ \A i \in 1 .. e - 1 :
       /\ r[i].kind = b[i].kind /\ r[i].name = b[i].name
       /\ r[i] # b[i] => /\ force /\ i \in h + 1 .. e - 1 /\ IsKey(b[i])
                         /\ \E n \in DOMAIN Wanted(t) : Wanted(t)[n].name = b[i].name
  /\ \A i \in e .. Len(b) : r[i + k] = b[i]
  /\ \A j \in e .. e + k - 1 :
       \E n \in DOMAIN Wanted(t) : r[j] = Wanted(t)[n] /\ ~Sets(b, h + 1, e - 1, Wanted(t)[n])
  /\ \A i, j \in e .. e + k - 1 : r[i].name = r[j].name => i = j
  /\ \A n \in DOMAIN Wanted(t) : Sets(r, h + 1, e + k - 1, Wanted(t)[n])
  /\ force => \A j \in h + 1 .. e + k - 1 : IsKey(r[j]) =>
       \A n \in DOMAIN Wanted(t) : Wanted(t)[n].name = r[j].name => r[j] = Wanted(t)[n]

\* What mergeCodexRuntimeTable makes of a document that has the table.
LEMMA MergeFills ==
  ASSUME NEW c \in Seq(Line), NEW t \in Runtime, NEW force \in BOOLEAN,
         NEW h \in 1 .. Len(c), NEW e \in h + 1 .. Len(c) + 1, LastTable(c, t, h, e),
         \A i \in 1 .. Len(c) : IsKey(c[i]) => c[i].name # t
  PROVE  Filled(c, MergeTable(c, t, force), t, force, h, e, Len(Missing(c, h + 1, e - 1, t)))
<1> DEFINE w == Wanted(t)
           v == Missing(c, h + 1, e - 1, t)
           d == IF force THEN Forced(c, h + 1, e - 1, t) ELSE c
           k == Len(v)
           n == Len(c)
           r == Insert(d, e, v)
<1>1. n \in Nat /\ \A i \in 1 .. n : c[i] \in Line  BY Doc
<1>2. /\ v \in Seq(Line)
      /\ \A l \in 1 .. k : \E m \in DOMAIN w : v[l] = w[m] /\ ~Sets(c, h + 1, e - 1, w[m])
      /\ \A l, m \in 1 .. k : v[l].name = v[m].name => l = m
      /\ \A m \in DOMAIN w : ~Sets(c, h + 1, e - 1, w[m]) => \E l \in 1 .. k : v[l] = w[m]
  BY MissingLines
<1>3. k \in Nat  BY <1>2, Doc
<1>4. /\ d \in Seq(Line) /\ Len(d) = n
      /\ \A i \in 1 .. n : /\ d[i].kind = c[i].kind /\ d[i].name = c[i].name
                           /\ d[i] # c[i] => /\ force /\ i \in h + 1 .. e - 1 /\ IsKey(c[i])
                                             /\ \E m \in DOMAIN w : w[m].name = c[i].name
      /\ force => \A i \in h + 1 .. e - 1 : i \in 1 .. n /\ IsKey(c[i]) =>
           \A m \in DOMAIN w : w[m].name = c[i].name => d[i] = w[m]
  <2>1. CASE force
    <3>1. d = Forced(c, h + 1, e - 1, t)  BY <2>1
    <3> HIDE DEF d
    <3>2. d \in Seq(Line) /\ Len(d) = n  BY <3>1, ForcedLines
    <3>3. \A i \in 1 .. n :
            /\ d[i].kind = c[i].kind /\ d[i].name = c[i].name
            /\ d[i] # c[i] => /\ i \in h + 1 .. e - 1 /\ IsKey(c[i])
                              /\ \E m \in DOMAIN w : w[m].name = c[i].name
            /\ i \in h + 1 .. e - 1 /\ IsKey(c[i]) =>
                 \A m \in DOMAIN w : w[m].name = c[i].name => d[i] = w[m]
      BY <3>1, ForcedLines
    <3> HIDE DEF w
    <3> QED  BY <2>1, <3>2, <3>3
  <2>2. CASE ~force  BY <2>2
  <2> QED  BY <2>1, <2>2
<1>5. \A m \in DOMAIN w : IsKey(w[m])  BY WantedLines
<1>6. MergeTable(c, t, force) = r  BY MergeOfTable
<1> HIDE DEF d, v, w
<1>7. /\ r \in Seq(Line) /\ Len(r) = n + k
      /\ \A i \in 1 .. e - 1 : r[i] = d[i]
      /\ \A i \in 1 .. k : r[e - 1 + i] = v[i]
      /\ \A i \in e .. n : r[i + k] = d[i]
  <2>1. e \in 1 .. Len(d) + 1  BY <1>1, <1>4
  <2>2. v \in Seq(Line) /\ d \in Seq(Line)  BY <1>2, <1>4
  <2>3. Opened(r, d, e, v)  BY <2>1, <2>2, Inserted
  <2> HIDE DEF r
  <2> QED  BY <1>4, <2>3 DEF Opened
<1> HIDE DEF r, k
<1>8. \A i \in 1 .. e - 1 : i \in 1 .. n  BY <1>1
<1>9. \A i \in 1 .. e - 1 :
        /\ r[i].kind = c[i].kind /\ r[i].name = c[i].name
        /\ r[i] # c[i] => /\ force /\ i \in h + 1 .. e - 1 /\ IsKey(c[i])
                          /\ \E m \in DOMAIN w : w[m].name = c[i].name
  BY <1>4, <1>7, <1>8
<1>10. ASSUME NEW i \in e .. n  PROVE r[i + k] = c[i]
  <2>1. i \in 1 .. n /\ i \notin h + 1 .. e - 1  BY <1>1
  <2> QED  BY <1>4, <1>7, <2>1
<1>11. \A j \in e .. e + k - 1 : j - e + 1 \in 1 .. k /\ e - 1 + (j - e + 1) = j  BY <1>3
<1>12. \A j \in e .. e + k - 1 : r[j] = v[j - e + 1]  BY <1>7, <1>11
<1>13. \A j \in e .. e + k - 1 : \E m \in DOMAIN w : r[j] = w[m] /\ ~Sets(c, h + 1, e - 1, w[m])
  <2> TAKE j \in e .. e + k - 1
  <2>1. j - e + 1 \in 1 .. k /\ r[j] = v[j - e + 1]  BY <1>11, <1>12
  <2>2. PICK m \in DOMAIN w : v[j - e + 1] = w[m] /\ ~Sets(c, h + 1, e - 1, w[m])  BY <1>2, <2>1
  <2> QED  BY <2>1, <2>2
<1>14. ASSUME NEW i \in e .. e + k - 1, NEW j \in e .. e + k - 1, r[i].name = r[j].name
       PROVE  i = j
  <2>0. /\ i - e + 1 \in 1 .. k /\ j - e + 1 \in 1 .. k
        /\ v[i - e + 1].name = v[j - e + 1].name
    BY <1>11, <1>12, <1>14
  <2>1. i - e + 1 = j - e + 1  BY <1>2, <2>0
  <2> QED  BY <1>3, <2>1
<1>15. ASSUME NEW m \in DOMAIN w  PROVE Sets(r, h + 1, e + k - 1, w[m])
  <2>1. CASE Sets(c, h + 1, e - 1, w[m])
    <3>1. PICK i \in h + 1 .. e - 1 : IsKey(c[i]) /\ c[i].name = w[m].name  BY <2>1 DEF Sets
    <3>2. i \in 1 .. e - 1 /\ i \in h + 1 .. e + k - 1  BY <1>1, <1>3
    <3>3. IsKey(r[i]) /\ r[i].name = w[m].name  BY <1>9, <3>1, <3>2 DEF IsKey
    <3> QED  BY <3>2, <3>3 DEF Sets
  <2>2. CASE ~Sets(c, h + 1, e - 1, w[m])
    <3>1. PICK l \in 1 .. k : v[l] = w[m]  BY <1>2, <2>2
    <3>2. r[e - 1 + l] = w[m] /\ e - 1 + l \in h + 1 .. e + k - 1  BY <1>1, <1>3, <1>7, <3>1
    <3> QED  BY <1>5, <3>2 DEF Sets
  <2> QED  BY <2>1, <2>2
<1>16. ASSUME force, NEW j \in h + 1 .. e + k - 1, IsKey(r[j]),
              NEW m \in DOMAIN w, w[m].name = r[j].name
       PROVE  r[j] = w[m]
  <2>1. CASE j <= e - 1
    <3>1. j \in 1 .. e - 1 /\ j \in h + 1 .. e - 1 /\ j \in 1 .. n  BY <1>1, <1>3, <2>1
    <3>2. IsKey(c[j]) /\ c[j].name = w[m].name  BY <1>9, <1>16, <3>1 DEF IsKey
    <3> QED  BY <1>4, <1>7, <1>16, <3>1, <3>2
  <2>2. CASE ~(j <= e - 1)
    <3>1. j \in e .. e + k - 1  BY <1>1, <1>3, <2>2
    <3>2. PICK l \in DOMAIN w : r[j] = w[l]  BY <1>13, <3>1
    <3>3. l = m  BY <1>16, <3>2, WantedLines DEF w
    <3> QED  BY <3>2, <3>3
  <2> QED  BY <2>1, <2>2
<1>17. Filled(c, r, t, force, h, e, k)
  BY <1>3, <1>7, <1>9, <1>10, <1>13, <1>14, <1>15, <1>16 DEF Filled, w, n
<1> QED  BY <1>6, <1>17 DEF k, v

\* Documents with the same lines are the same.
LEMMA Same ==
  ASSUME NEW c \in Seq(Line), NEW d \in Seq(Line), Len(c) = Len(d),
         \A i \in 1 .. Len(c) : c[i] = d[i]
  PROVE  c = d
BY SeqEqual

\* Nothing is forced where what is set is what is wanted.
LEMMA NothingForced ==
  ASSUME NEW c \in Seq(Line), NEW i, NEW j, NEW t \in Runtime,
         \A k \in 1 .. Len(c) : k \in i .. j /\ IsKey(c[k]) =>
           \A n \in DOMAIN Wanted(t) : Wanted(t)[n].name = c[k].name => c[k] = Wanted(t)[n]
  PROVE  Forced(c, i, j, t) = c
<1> DEFINE d == Forced(c, i, j, t)
           w == Wanted(t)
<1>1. /\ d \in Seq(Line) /\ Len(d) = Len(c)
      /\ \A k \in 1 .. Len(c) :
           /\ d[k] # c[k] => /\ k \in i .. j /\ IsKey(c[k])
                             /\ \E n \in DOMAIN w : w[n].name = c[k].name
           /\ k \in i .. j /\ IsKey(c[k]) =>
                \A n \in DOMAIN w : w[n].name = c[k].name => d[k] = w[n]
  BY ForcedLines
<1> HIDE DEF d, w
<1>2. \A k \in 1 .. Len(c) : d[k] = c[k]
  <2> TAKE k \in 1 .. Len(c)
  <2> SUFFICES ASSUME d[k] # c[k] PROVE FALSE  OBVIOUS
  <2>1. PICK n \in DOMAIN w : w[n].name = c[k].name  BY <1>1
  <2>2. d[k] = w[n]  BY <1>1, <2>1
  <2>3. c[k] = w[n]  BY <1>1, <2>1 DEF w
  <2> QED  BY <2>2, <2>3
<1> QED  BY <1>1, <1>2, Same DEF d

\* Inserting nothing changes nothing.
LEMMA NothingInserted ==
  ASSUME NEW d \in Seq(Line), NEW e \in 1 .. Len(d) + 1
  PROVE  Insert(d, e, << >>) = d
<1> DEFINE o == << >>
<1>1. o \in Seq(Line) /\ Len(o) = 0  BY EmptySeq
<1> HIDE DEF o
<1> DEFINE r == Insert(d, e, o)
<1>2. /\ r \in Seq(Line) /\ Len(r) = Len(d) + Len(o)
      /\ \A i \in 1 .. e - 1 : r[i] = d[i]
      /\ \A i \in e .. Len(d) : r[i + Len(o)] = d[i]
  <2>1. Opened(r, d, e, o)  BY <1>1, Inserted
  <2> HIDE DEF r
  <2> QED  BY <2>1 DEF Opened
<1> HIDE DEF r
<1>3. Len(d) \in Nat  BY Doc
<1>4. Len(r) = Len(d)  BY <1>1, <1>2, <1>3
<1>5. \A i \in 1 .. Len(d) : r[i] = d[i]
  <2> TAKE i \in 1 .. Len(d)
  <2>1. CASE i <= e - 1  BY <1>2, <2>1
  <2>2. CASE ~(i <= e - 1)
    <3>1. i \in e .. Len(d) /\ i + Len(o) = i  BY <1>1, <1>3, <2>2
    <3> QED  BY <1>2, <3>1
  <2> QED  BY <2>1, <2>2
<1> QED  BY <1>2, <1>4, <1>5, Same DEF r, o

\* What a table is merged into: the document, with the header if it lacks it.
Based(b, c, t) == b = IF Has(c, Table(t)) THEN c ELSE c \o << Table(t) >>

\* The document with a header appended.
LEMMA BasedLines ==
  ASSUME NEW c \in Seq(Line), NEW t \in Runtime, ~Has(c, Table(t))
  PROVE  LET b == c \o << Table(t) >>  n == Len(c)
         IN  /\ b \in Seq(Line) /\ Len(b) = n + 1 /\ b[n + 1] = Table(t)
             /\ \A i \in 1 .. n : b[i] = c[i]
             /\ LastTable(b, t, n + 1, n + 2)
<1> DEFINE one == << Table(t) >>
           b == c \o one
           n == Len(c)
<1>1. one \in Seq(Line) /\ Len(one) = 1 /\ one[1] = Table(t)
  <2>1. Table(t) \in Line  BY Lines, DocumentsAreLines DEF Runtime
  <2> QED  BY <2>1
<1> HIDE DEF one
<1>2. /\ b \in Seq(Line) /\ Len(b) = n + Len(one)
      /\ \A i \in 1 .. n : b[i] = c[i]
      /\ \A i \in 1 .. Len(one) : b[n + i] = one[i]
  BY <1>1, Joined
<1> HIDE DEF b
<1>3. n \in Nat  BY Doc
<1>4. Len(b) = n + 1 /\ b[n + 1] = Table(t) /\ DOMAIN b = 1 .. n + 1  BY <1>1, <1>2, <1>3, Doc
<1>5. LastTable(b, t, n + 1, n + 2)
  <2>1. (n + 1) + 1 .. Len(b) = {} /\ (n + 1) + 1 .. (n + 2) - 1 = {} /\ n + 2 \notin DOMAIN b
    BY <1>3, <1>4
  <2> QED  BY <1>4, <2>1 DEF LastTable, Plain
<1> QED  BY <1>2, <1>4, <1>5 DEF b, one

\* What mergeCodexRuntimeTable makes of any document, unless it refuses.
LEMMA MergedTable ==
  ASSUME NEW c \in Seq(Line), NEW t \in Runtime, NEW force \in BOOLEAN,
         MergeTable(c, t, force) # Refused
  PROVE  /\ \A i \in 1 .. Len(c) : IsKey(c[i]) => c[i].name # t
         /\ \E b, h, e, k : Based(b, c, t) /\ b \in Seq(Line)
                              /\ Filled(b, MergeTable(c, t, force), t, force, h, e, k)
<1> DEFINE n == Len(c)
           w == Wanted(t)
<1>1. n \in Nat /\ DOMAIN c = 1 .. n  BY Doc
<1>2. \A i \in 1 .. n : IsKey(c[i]) => c[i].name # t  BY <1>1 DEF MergeTable
<1>3. CASE Has(c, Table(t))
  <2>1. PICK h \in 1 .. n : \E e \in h + 1 .. n + 1 : LastTable(c, t, h, e)
    BY <1>3, TableFound
  <2>2. PICK e \in h + 1 .. n + 1 : LastTable(c, t, h, e)  BY <2>1
  <2>3. Filled(c, MergeTable(c, t, force), t, force, h, e, Len(Missing(c, h + 1, e - 1, t)))
    BY <1>2, <2>2, MergeFills
  <2> QED  BY <1>2, <1>3, <2>3 DEF Based
<1>4. CASE ~Has(c, Table(t))
  <2> DEFINE b == c \o << Table(t) >>
  <2>1. /\ b \in Seq(Line) /\ Len(b) = n + 1 /\ b[n + 1] = Table(t)
        /\ \A i \in 1 .. n : b[i] = c[i]
        /\ LastTable(b, t, n + 1, n + 2)
    BY <1>4, BasedLines
  <2>2. MergeTable(c, t, force) = b \o w
    <3>1. c # Refused  BY NotRefused
    <3>2. ~ \E i \in DOMAIN c : IsKey(c[i]) /\ c[i].name = t  BY <1>1, <1>2
    <3> QED  BY <1>4, <3>1, <3>2 DEF MergeTable
  <2>3. Based(b, c, t)  BY <1>4 DEF Based
  <2> HIDE DEF b
  <2>4. \A i \in 1 .. Len(b) : IsKey(b[i]) => b[i].name # t
    <3> TAKE i \in 1 .. Len(b)
    <3>1. i \in 1 .. n \/ i = n + 1  BY <1>1, <2>1
    <3>2. ~IsKey(Table(t))  BY DEF IsKey, Table
    <3> QED  BY <1>2, <2>1, <3>1, <3>2
  <2>5. /\ n + 1 \in 1 .. Len(b) /\ n + 2 \in (n + 1) + 1 .. Len(b) + 1
        /\ (n + 1) + 1 .. (n + 2) - 1 = {}
    BY <1>1, <2>1
  <2>6. MergeTable(b, t, force) =
          Insert(IF force THEN Forced(b, (n + 1) + 1, (n + 2) - 1, t) ELSE b, n + 2,
                 Missing(b, (n + 1) + 1, (n + 2) - 1, t))
    BY <2>1, <2>4, <2>5, MergeOfTable
  <2>7. Forced(b, (n + 1) + 1, (n + 2) - 1, t) = b
    BY <2>1, <2>5, NothingForced
  <2>8. w \in Seq(Line)  BY WantedLines
  <2>9. Missing(b, (n + 1) + 1, (n + 2) - 1, t) = w
    <3>1. \A k \in DOMAIN w : ~Sets(b, (n + 1) + 1, (n + 2) - 1, w[k])  BY <2>5 DEF Sets
    <3>2. {k \in DOMAIN w : ~Sets(b, (n + 1) + 1, (n + 2) - 1, w[k])} = DOMAIN w  BY <3>1
    <3>3. Pick(w, DOMAIN w) = w  BY <2>8, PickedAll
    <3> QED  BY <3>2, <3>3 DEF Missing
  <2>10. Insert(b, n + 2, w) = b \o w
    <3>1. SubSeq(b, 1, (n + 2) - 1) = b
      <4>1. 1 \in 1 .. Len(b) + 1 /\ (n + 2) - 1 \in 1 - 1 .. Len(b)  BY <1>1, <2>1
      <4>2. /\ SubSeq(b, 1, (n + 2) - 1) \in Seq(Line)
            /\ Len(SubSeq(b, 1, (n + 2) - 1)) = ((n + 2) - 1) - 1 + 1
            /\ \A i \in 1 .. ((n + 2) - 1) - 1 + 1 : SubSeq(b, 1, (n + 2) - 1)[i] = b[1 + i - 1]
        BY <2>1, <4>1, Slice
      <4>3. ((n + 2) - 1) - 1 + 1 = Len(b) /\ \A i \in 1 .. Len(b) : 1 + i - 1 = i
        BY <1>1, <2>1
      <4> QED  BY <2>1, <4>2, <4>3, Same
    <3>2. SubSeq(b, n + 2, Len(b)) = << >>
      <4>1. Len(b) < n + 2  BY <1>1, <2>1
      <4> QED  BY <1>1, <2>1, <4>1, SubSeqEmpty
    <3>3. b \o w \in Seq(Line)  BY <2>1, <2>8, Joined
    <3>4. (b \o w) \o << >> = b \o w  BY <3>3, ConcatEmptySeq
    <3> QED  BY <3>1, <3>2, <3>4 DEF Insert
  <2>11. MergeTable(b, t, force) = MergeTable(c, t, force)
    BY <2>2, <2>6, <2>7, <2>9, <2>10
  <2>12. Filled(b, MergeTable(b, t, force), t, force, n + 1, n + 2,
                Len(Missing(b, (n + 1) + 1, (n + 2) - 1, t)))
    BY <2>1, <2>4, <2>5, MergeFills
  <2> QED  BY <1>2, <2>1, <2>3, <2>11, <2>12
<1> QED  BY <1>3, <1>4

-----------------------------------------------------------------------------
(* The three merges.                                                        *)

\* A refusal is passed on.
LEMMA RefusedStays ==
  ASSUME NEW t, NEW force
  PROVE  MergeTable(Refused, t, force) = Refused
BY DEF MergeTable

Blocked(c, l, s) == MergeBlock(c, Owned(c, l), s)
Featured(c, l, s) == MergeTable(Blocked(c, l, s), "features", TRUE)

\* A merge that is not refused is three merges that are not.
LEMMA MergeParts ==
  ASSUME NEW c \in Seq(Line), NEW l \in BOOLEAN, NEW s \in Words, Merge(c, l, s) # Refused
  PROVE  /\ Blocked(c, l, s) # Refused /\ Blocked(c, l, s) \in Seq(Line)
         /\ Featured(c, l, s) # Refused /\ Featured(c, l, s) \in Seq(Line)
         /\ Merge(c, l, s) \in Seq(Line)
         /\ Merge(c, l, s) = MergeTable(Featured(c, l, s), "agents", FALSE)
         /\ Owned(c, l) \in BOOLEAN
<1>1. Merge(c, l, s) = MergeTable(Featured(c, l, s), "agents", FALSE)
  BY DEF Merge, Featured, Blocked
<1>2. Featured(c, l, s) # Refused  BY <1>1, RefusedStays
<1>3. Blocked(c, l, s) # Refused  BY <1>2, RefusedStays DEF Featured
<1>4. Owned(c, l) \in BOOLEAN  BY DEF Owned
<1>5. Blocked(c, l, s) \in Seq(Line)
  <2>1. PICK p, q, x, y, f, g : Framed(c, s, Blocked(c, l, s), p, q, x, y, f, g)
    BY <1>3, <1>4, BlockIsFramed DEF Blocked
  <2>2. Blocked(c, l, s) = Around(x, s, y) /\ x \in Seq(Line) /\ y \in Seq(Line)
    BY <2>1 DEF Framed
  <2>3. LaidOut(Blocked(c, l, s), x, s, y)  BY <2>2, FramedLines
  <2> QED  BY <2>3 DEF LaidOut
<1>6. Featured(c, l, s) \in Seq(Line)
  <2>1. "features" \in Runtime /\ TRUE \in BOOLEAN  BY DEF Runtime
  <2>2. \E b, h, e, k : Filled(b, Featured(c, l, s), "features", TRUE, h, e, k)
    BY <1>2, <1>5, <2>1, MergedTable DEF Featured
  <2> QED  BY <2>2 DEF Filled
<1>7. Merge(c, l, s) \in Seq(Line)
  <2>1. "agents" \in Runtime /\ FALSE \in BOOLEAN  BY DEF Runtime
  <2> DEFINE r == MergeTable(Featured(c, l, s), "agents", FALSE)
  <2>2. r # Refused  BY <1>1
  <2>3. \E b, h, e, k : Filled(b, r, "agents", FALSE, h, e, k)
    BY <1>6, <2>1, <2>2, MergedTable
  <2>4. Merge(c, l, s) = r  BY <1>1
  <2> HIDE DEF r
  <2>5. r \in Seq(Line)  BY <2>3 DEF Filled
  <2> QED  BY <2>4, <2>5
<1> QED  BY <1>1, <1>2, <1>3, <1>4, <1>5, <1>6, <1>7

\* The bound of the edits is a number.
LEMMA EditsBounded == Edits \in Nat
BY DocumentsAreLines, Zenon

\* A setting with the value of the user is a line.
LEMMA Mine ==
  ASSUME NEW l \in Line, IsKey(l)
  PROVE  [l EXCEPT !.value = "mine"] \in Line
<1>0. l \in [kind : {"head", "key", "start", "end"}, name : Words, value : Words]  BY DEF Line
<1>1. [l EXCEPT !.value = "mine"] = [kind |-> l.kind, name |-> l.name, value |-> "mine"]
  BY <1>0
<1>2. l.kind = "key" /\ l.name \in Words  BY DEF Line, IsKey
<1> QED  BY <1>1, <1>2, DocumentsAreLines DEF Line

\* What the next-state relation does to a document.
LEMMA EditedStays ==
  ASSUME NEW c \in Seq(Line), TypeOK, Edited(c)
  PROVE  TypeOK'
<1>1. config' \in Seq(Line)  BY DEF Edited
<1>2. listed' \in BOOLEAN  BY Zenon DEF TypeOK, Edited
<1>3. server' \in Servers  BY DEF TypeOK, Edited
<1>4. edits' \in 0 .. Edits
  <2>1. edits \in 0 .. Edits  BY DEF TypeOK
  <2>2. edits' = edits + 1 /\ edits < Edits  BY DEF Edited
  <2> QED  BY <2>1, <2>2, EditsBounded
<1>5. last' \in {"", "ok", "refused"}  BY DEF Edited
<1> QED  BY <1>1, <1>2, <1>3, <1>4, <1>5 DEF TypeOK

\* However the user edits and whatever is installed, the file holds a document:
\* no refusal is ever written out (planCodexRenderedFileAction).
THEOREM CodexTypeOK == Spec => []TypeOK
<1>1. ASSUME Init PROVE TypeOK
  <2>1. PICK p \in Parts \X Parts : config = p[1] \o p[2]  BY <1>1 DEF Init, Documents
  <2>2. p[1] \in Seq(Line) /\ p[2] \in Seq(Line)  BY DocumentsAreLines, EmptySeq DEF Parts
  <2>3. config \in Seq(Line)  BY <2>1, <2>2, Joined
  <2>4. listed \in BOOLEAN /\ server \in Servers  BY <1>1 DEF Init
  <2>5. edits \in 0 .. Edits
    <3>1. edits = 0  BY <1>1 DEF Init
    <3> QED  BY <3>1, EditsBounded
  <2>6. last \in {"", "ok", "refused"}  BY <1>1 DEF Init
  <2> QED  BY <2>3, <2>4, <2>5, <2>6 DEF TypeOK
<1>2. ASSUME TypeOK, [Next]_vars PROVE TypeOK'
  <2>0. config \in Seq(Line) /\ DOMAIN config = 1 .. Len(config) /\ Len(config) \in Nat
        /\ server \in Words /\ listed \in BOOLEAN
    BY <1>2, Doc, DocumentsAreLines DEF TypeOK
  <2>1. CASE Install
    <3>1. CASE Merge(config, listed, server) = Refused  BY <1>2, <2>1, <3>1 DEF Install, TypeOK
    <3>2. CASE Merge(config, listed, server) # Refused
      <4>1. Merge(config, listed, server) \in Seq(Line)  BY <2>0, <3>2, MergeParts
      <4> QED  BY <1>2, <2>1, <3>2, <4>1 DEF Install, TypeOK
    <3> QED  BY <3>1, <3>2
  <2>2. CASE AddSection
    <3>1. PICK s \in Sections : Edited(config \o s)  BY <2>2 DEF AddSection
    <3>2. s \in Seq(Line)  BY DocumentsAreLines
    <3>3. config \o s \in Seq(Line)  BY <2>0, <3>2, Joined
    <3> QED  BY <1>2, <3>1, <3>3, EditedStays
  <2>3. CASE Delete
    <3>1. PICK i \in DOMAIN config :
            Edited(SubSeq(config, 1, i - 1) \o SubSeq(config, i + 1, Len(config)))
      BY <2>3 DEF Delete
    <3>2. SubSeq(config, 1, i - 1) \in Seq(Line)
      <4>1. 1 \in 1 .. Len(config) + 1 /\ i - 1 \in 1 - 1 .. Len(config)  BY <2>0
      <4> QED  BY <2>0, <4>1, Slice
    <3>3. SubSeq(config, i + 1, Len(config)) \in Seq(Line)
      <4>1. i + 1 \in 1 .. Len(config) + 1 /\ Len(config) \in (i + 1) - 1 .. Len(config)
        BY <2>0
      <4> QED  BY <2>0, <4>1, Slice
    <3>4. SubSeq(config, 1, i - 1) \o SubSeq(config, i + 1, Len(config)) \in Seq(Line)
      BY <3>2, <3>3, Joined
    <3> QED  BY <1>2, <3>1, <3>4, EditedStays
  <2>4. CASE Change
    <3>1. PICK i \in DOMAIN config :
            IsKey(config[i]) /\ Edited([config EXCEPT ![i].value = "mine"])
      BY <2>4 DEF Change
    <3> DEFINE l == [config[i] EXCEPT !.value = "mine"]
    <3>2. l \in Line
      <4>1. config[i] \in Line  BY <2>0, <3>1, Doc
      <4> QED  BY <3>1, <4>1, Mine
    <3>3. [config EXCEPT ![i].value = "mine"] = [config EXCEPT ![i] = l]  OBVIOUS
    <3> HIDE DEF l
    <3>4. [config EXCEPT ![i] = l] \in Seq(Line)  BY <2>0, <3>1, <3>2
    <3> QED  BY <1>2, <3>1, <3>3, <3>4, EditedStays
  <2>5. CASE Login  BY <1>2, <2>5 DEF Login, TypeOK
  <2>6. CASE Forget  BY <1>2, <2>6 DEF Forget, TypeOK
  <2>7. CASE UNCHANGED vars  BY <1>2, <2>7 DEF vars, TypeOK
  <2> QED  BY <1>2, <2>1, <2>2, <2>3, <2>4, <2>5, <2>6, <2>7 DEF Next
<1> QED  BY <1>1, <1>2, PTL DEF Spec

-----------------------------------------------------------------------------
(* Which steps install, and with what.                                      *)

\* A step that ends an install is the install.
LEMMA InstallsMerge ==
  ASSUME TypeOK, [Next]_vars, Installs
  PROVE  \/ Install
         \/ UNCHANGED vars
BY DEF TypeOK, Next, Installs, AddSection, Delete, Change, Edited, Login, Forget

\* A lore table nobody recorded refuses the merge.
LEMMA LoreKept ==
  ASSUME NEW c \in Seq(Line), NEW l \in BOOLEAN, NEW s, HasLoreTable(c), ~Owned(c, l)
  PROVE  Merge(c, l, s) = Refused
<1>1. MergeBlock(c, Owned(c, l), s) = Refused
  <2>1. CASE HasBlock(c)
    <3>1. ~(Has(c, Start) /\ Has(c, End))  BY DEF Owned
    <3>2. CASE ~Has(c, Start)
      <4>1. First(c, Start) = 0  BY <3>2, FirstIs
      <4> QED  BY <2>1, <4>1 DEF MergeBlock
    <3>3. CASE Has(c, Start) /\ ~Has(c, End)
      <4>1. First(c, Start) \in 1 .. Len(c) /\ First(c, End) = 0 /\ Len(c) \in Nat
        BY <3>3, FirstIs, Doc
      <4>2. First(c, End) < First(c, Start)  BY <4>1
      <4> QED  BY <2>1, <4>2 DEF MergeBlock
    <3> QED  BY <3>1, <3>2, <3>3
  <2>2. CASE ~HasBlock(c)  BY <2>2 DEF MergeBlock
  <2> QED  BY <2>1, <2>2
<1> QED  BY <1>1, RefusedStays DEF Merge

\* A lore table that neither the markers nor the manifest claim is never
\* overwritten (isCodexConfigTomlManaged, mergeCodexMCPConfig).
THEOREM ForeignLoreStays == Spec => ForeignLoreKept
<1>1. ASSUME TypeOK, [Next]_vars
      PROVE  [(Installs /\ HasLoreTable(config) /\ ~Owned(config, listed))
                => (last' = "refused" /\ config' = config)]_vars
  <2> SUFFICES ASSUME Installs, HasLoreTable(config), ~Owned(config, listed), ~UNCHANGED vars
               PROVE  last' = "refused" /\ config' = config
    OBVIOUS
  <2>1. Install  BY <1>1, InstallsMerge
  <2>2. Merge(config, listed, server) = Refused  BY <1>1, LoreKept DEF TypeOK
  <2> QED  BY <2>1, <2>2 DEF Install
<1>2. Spec => []TypeOK  BY CodexTypeOK
<1> QED  BY <1>1, <1>2, PTL DEF Spec, ForeignLoreKept

-----------------------------------------------------------------------------
(* Where the lines of a document are after the merge of a table.            *)

Move(i, e, k) == IF i < e THEN i ELSE i + k

\* The wanted lines are keys, of names that no table has.
LEMMA WantedNames ==
  ASSUME NEW t \in Runtime, NEW l, \E n \in DOMAIN Wanted(t) : l = Wanted(t)[n]
  PROVE  /\ l \in Line /\ IsKey(l) /\ ~IsHead(l) /\ l.name # "features" /\ l.name # "agents"
         /\ l # Start /\ l # End
         /\ t = "features" => l.name = "multi_agent"
         /\ t = "agents" => l.name \in {"max_threads", "max_depth"}
<1>1. PICK n \in 1 .. Len(Wanted(t)) : l = Wanted(t)[n]  BY WantedLines
<1>2. l \in Line  BY <1>1, WantedLines, Doc
<1>3. IsKey(l)  BY <1>1, WantedLines
<1>4. l.name \in (IF t = "features" THEN {"multi_agent"} ELSE {"max_threads", "max_depth"})
  BY <1>1, WantedLines
<1>5. l.kind = "key"  BY <1>3 DEF IsKey
<1>6. ~IsHead(l)  BY <1>5 DEF IsHead
<1>7. Start.kind = "start" /\ End.kind = "end"  BY DEF Start, End
<1>8. l # Start /\ l # End  BY <1>5, <1>7
<1>9. t = "features" => l.name = "multi_agent"  BY <1>4
<1>10. t = "agents" => l.name \in {"max_threads", "max_depth"}  BY <1>4
<1>11. l.name # "features" /\ l.name # "agents"  BY <1>4
<1> QED  BY <1>2, <1>3, <1>6, <1>8, <1>9, <1>10, <1>11

\* After the merge of a table every line is a line of before or one of the k new.
LEMMA Filling ==
  ASSUME NEW b \in Seq(Line), NEW t \in Runtime, NEW r, NEW force, NEW h, NEW e, NEW k,
         Filled(b, r, t, force, h, e, k)
  PROVE  /\ \A i \in 1 .. Len(b) :
              /\ Move(i, e, k) \in 1 .. Len(r)
              /\ r[Move(i, e, k)].kind = b[i].kind /\ r[Move(i, e, k)].name = b[i].name
              /\ r[Move(i, e, k)] # b[i] =>
                   /\ force /\ i \in h + 1 .. e - 1 /\ IsKey(b[i])
                   /\ \E n \in DOMAIN Wanted(t) : Wanted(t)[n].name = b[i].name
         /\ \A i, j \in 1 .. Len(b) : i < j => Move(i, e, k) < Move(j, e, k)
         /\ \A j \in 1 .. Len(r) :
              j \in e .. e + k - 1 \/ \E i \in 1 .. Len(b) : j = Move(i, e, k)
         /\ \A j \in e .. e + k - 1 : j \in 1 .. Len(r) /\ j \notin {Move(i, e, k) : i \in 1 .. Len(b)}
<1>1. /\ Len(b) \in Nat /\ k \in Nat /\ Len(r) = Len(b) + k
      /\ h \in 1 .. Len(b) /\ e \in h + 1 .. Len(b) + 1
  BY Doc DEF Filled
<1>2. ASSUME NEW i \in 1 .. Len(b)
      PROVE  /\ Move(i, e, k) \in 1 .. Len(r)
             /\ r[Move(i, e, k)].kind = b[i].kind /\ r[Move(i, e, k)].name = b[i].name
             /\ r[Move(i, e, k)] # b[i] =>
                  /\ force /\ i \in h + 1 .. e - 1 /\ IsKey(b[i])
                  /\ \E n \in DOMAIN Wanted(t) : Wanted(t)[n].name = b[i].name
  <2>1. CASE i < e
    <3>1. i \in 1 .. e - 1 /\ Move(i, e, k) = i /\ i \in 1 .. Len(r)
      BY <1>1, <2>1 DEF Move
    <3> QED  BY <3>1 DEF Filled
  <2>2. CASE ~(i < e)
    <3>1. i \in e .. Len(b) /\ Move(i, e, k) = i + k /\ i + k \in 1 .. Len(r)
      BY <1>1, <2>2 DEF Move
    <3>2. r[i + k] = b[i]  BY <3>1 DEF Filled
    <3> QED  BY <3>1, <3>2
  <2> QED  BY <2>1, <2>2
<1>3. \A i, j \in 1 .. Len(b) : i < j => Move(i, e, k) < Move(j, e, k)  BY <1>1 DEF Move
<1>4. ASSUME NEW j \in 1 .. Len(r), j \notin e .. e + k - 1
      PROVE  \E i \in 1 .. Len(b) : j = Move(i, e, k)
  <2>1. CASE j < e
    <3>1. j \in 1 .. Len(b) /\ j = Move(j, e, k)  BY <1>1, <2>1 DEF Move
    <3> QED  BY <3>1
  <2>2. CASE ~(j < e)
    <3>1. j - k \in 1 .. Len(b) /\ j = Move(j - k, e, k)  BY <1>1, <1>4, <2>2 DEF Move
    <3> QED  BY <3>1
  <2> QED  BY <2>1, <2>2
<1>5. \A j \in e .. e + k - 1 : j \in 1 .. Len(r)  BY <1>1
<1>6. \A j \in e .. e + k - 1 : \A i \in 1 .. Len(b) : j # Move(i, e, k)  BY <1>1 DEF Move
<1> QED  BY <1>2, <1>3, <1>4, <1>5, <1>6

-----------------------------------------------------------------------------
(* The lines of the user.                                                   *)

\* The lines of c at I stand in r, in their order: f finds them.
Kept(c, I, r, f) ==
  /\ \A i \in I : f[i] \in 1 .. Len(r) /\ r[f[i]] = c[i]
  /\ \A i, j \in I : i < j => f[i] < f[j]

\* What two merges keep in turn is kept.
LEMMA KeptTwice ==
  ASSUME NEW c, NEW I, NEW m, NEW f, NEW r, NEW g,
         Kept(c, I, m, f), Kept(m, {f[i] : i \in I}, r, g)
  PROVE  Kept(c, I, r, [i \in I |-> g[f[i]]])
BY DEF Kept

\* The merge of the block keeps the user's lines.
LEMMA KeptByBlock ==
  ASSUME NEW c \in Seq(Line), NEW owned \in BOOLEAN, NEW s \in Words,
         MergeBlock(c, owned, s) # Refused
  PROVE  \E f : Kept(c, Foreign(c), MergeBlock(c, owned, s), f)
<1> DEFINE m == MergeBlock(c, owned, s)
           I == Foreign(c)
<1>1. PICK p, q, x, y, f, g : Framed(c, s, m, p, q, x, y, f, g)  BY BlockIsFramed
<1> HIDE DEF m
<1>2. /\ m = Around(x, s, y)
      /\ p \in 0 .. Len(c) /\ q \in p .. Len(c)
      /\ x \in Seq(Line) /\ y \in Seq(Line)
      /\ Remains(x, c, 1, p, f) /\ Remains(y, c, q + 1, Len(c), g)
      /\ \A i \in 1 .. Len(c) : InBlock(c, i) <=> p < i /\ i <= q
  BY <1>1 DEF Framed
<1>3. /\ m \in Seq(Line) /\ Len(m) = Len(x) + 6 + Len(y)
      /\ \A i \in 1 .. Len(x) : m[i] = x[i]
      /\ \A i \in 1 .. Len(y) : m[Len(x) + 6 + i] = y[i]
  <2>1. LaidOut(m, x, s, y)  BY <1>2, FramedLines
  <2> QED  BY <2>1 DEF LaidOut
<1>4. Len(c) \in Nat /\ Len(x) \in Nat /\ Len(y) \in Nat /\ DOMAIN c = 1 .. Len(c)
  BY <1>2, Doc
<1>5. \A i \in I : /\ i \in 1 .. Len(c) /\ (i \in 1 .. p \/ i \in q + 1 .. Len(c))
                   /\ ~InTable(c, i, "lore") /\ ~InTable(c, i, "env")
  <2> TAKE i \in I
  <2>1. i \in 1 .. Len(c) /\ ~InBlock(c, i) /\ ~InTable(c, i, "lore") /\ ~InTable(c, i, "env")
    BY <1>4 DEF Foreign
  <2>2. i \in 1 .. p \/ i \in q + 1 .. Len(c)  BY <1>2, <1>4, <2>1
  <2> QED  BY <2>1, <2>2
<1> HIDE DEF I
<1> DEFINE before(i) == CHOOSE k \in 1 .. Len(x) : f[k] = i
           after(i) == CHOOSE k \in 1 .. Len(y) : g[k] = i
           at == [i \in I |-> IF i <= p THEN before(i) ELSE Len(x) + 6 + after(i)]
<1>6. \A i \in I : i <= p => before(i) \in 1 .. Len(x) /\ f[before(i)] = i
  <2> TAKE i \in I
  <2> HAVE i <= p
  <2>1. i \in 1 .. p  BY <1>2, <1>4, <1>5
  <2>2. \E k \in 1 .. Len(x) : f[k] = i  BY <1>2, <1>5, <2>1 DEF Remains
  <2> QED  BY <2>2
<1>7. \A i \in I : ~(i <= p) => after(i) \in 1 .. Len(y) /\ g[after(i)] = i
  <2> TAKE i \in I
  <2> HAVE ~(i <= p)
  <2>1. i \in q + 1 .. Len(c)  BY <1>2, <1>4, <1>5
  <2>2. \E k \in 1 .. Len(y) : g[k] = i  BY <1>2, <1>5, <2>1 DEF Remains
  <2> QED  BY <2>2
<1>8. \A i \in I : at[i] = IF i <= p THEN before(i) ELSE Len(x) + 6 + after(i)  OBVIOUS
<1> HIDE DEF before, after, at
<1>9. ASSUME NEW i \in I  PROVE at[i] \in 1 .. Len(m) /\ m[at[i]] = c[i]
  <2>1. CASE i <= p
    <3>1. before(i) \in 1 .. Len(x) /\ f[before(i)] = i /\ at[i] = before(i)
      BY <1>6, <1>8, <2>1
    <3>2. x[before(i)] = c[i]  BY <1>2, <3>1 DEF Remains
    <3> QED  BY <1>3, <1>4, <3>1, <3>2
  <2>2. CASE ~(i <= p)
    <3>1. after(i) \in 1 .. Len(y) /\ g[after(i)] = i /\ at[i] = Len(x) + 6 + after(i)
      BY <1>7, <1>8, <2>2
    <3>2. y[after(i)] = c[i]  BY <1>2, <3>1 DEF Remains
    <3> QED  BY <1>3, <1>4, <3>1, <3>2
  <2> QED  BY <2>1, <2>2
<1>10. ASSUME NEW i \in I, NEW j \in I, i < j  PROVE at[i] < at[j]
  <2>0. i \in Nat /\ j \in Nat /\ p \in Nat  BY <1>2, <1>4, <1>5
  <2>1. CASE j <= p
    <3>1. /\ before(i) \in 1 .. Len(x) /\ f[before(i)] = i /\ at[i] = before(i)
          /\ before(j) \in 1 .. Len(x) /\ f[before(j)] = j /\ at[j] = before(j)
      BY <1>6, <1>8, <1>10, <2>0, <2>1
    <3>2. ~(before(j) < before(i)) /\ before(i) # before(j)
      BY <1>2, <1>10, <2>0, <3>1 DEF Remains
    <3> QED  BY <1>4, <3>1, <3>2
  <2>2. CASE i <= p /\ ~(j <= p)
    <3>1. /\ before(i) \in 1 .. Len(x) /\ at[i] = before(i)
          /\ after(j) \in 1 .. Len(y) /\ at[j] = Len(x) + 6 + after(j)
      BY <1>6, <1>7, <1>8, <2>2
    <3> QED  BY <1>4, <3>1
  <2>3. CASE ~(i <= p)
    <3>1. /\ after(i) \in 1 .. Len(y) /\ g[after(i)] = i /\ at[i] = Len(x) + 6 + after(i)
          /\ after(j) \in 1 .. Len(y) /\ g[after(j)] = j /\ at[j] = Len(x) + 6 + after(j)
      BY <1>7, <1>8, <1>10, <2>0, <2>3
    <3>2. ~(after(j) < after(i)) /\ after(i) # after(j)
      BY <1>2, <1>10, <2>0, <3>1 DEF Remains
    <3> QED  BY <1>4, <3>1, <3>2
  <2> QED  BY <1>10, <2>0, <2>1, <2>2, <2>3
<1>11. Kept(c, I, m, at)  BY <1>9, <1>10 DEF Kept
<1> QED  BY <1>11 DEF m, I

\* The merge of a table keeps every line but a forced multi_agent.
LEMMA KeptByTable ==
  ASSUME NEW c \in Seq(Line), NEW I \in SUBSET (1 .. Len(c)),
         NEW t \in Runtime, NEW force \in BOOLEAN, force => t = "features",
         MergeTable(c, t, force) # Refused, \A i \in I : c[i].name # "multi_agent"
  PROVE  \E f : Kept(c, I, MergeTable(c, t, force), f)
<1> DEFINE r == MergeTable(c, t, force)
<1>1. PICK b, h, e, k : Based(b, c, t) /\ b \in Seq(Line) /\ Filled(b, r, t, force, h, e, k)
  BY MergedTable
<1> HIDE DEF r
<1>2. Len(c) \in Nat /\ Len(b) \in Nat /\ Len(c) <= Len(b) /\ \A i \in 1 .. Len(c) : b[i] = c[i]
  <2>1. CASE Has(c, Table(t))  BY <1>1, <2>1, Doc DEF Based
  <2>2. CASE ~Has(c, Table(t))
    <3>1. b = c \o << Table(t) >>  BY <1>1, <2>2 DEF Based
    <3>2. Len(b) = Len(c) + 1 /\ \A i \in 1 .. Len(c) : b[i] = c[i]
      BY <2>2, <3>1, BasedLines
    <3>3. Len(c) \in Nat  BY Doc
    <3> QED  BY <3>2, <3>3
  <2> QED  BY <2>1, <2>2
<1> DEFINE f == [i \in I |-> Move(i, e, k)]
<1>3. \A i \in I : i \in 1 .. Len(b) /\ b[i] = c[i] /\ f[i] = Move(i, e, k)  BY <1>2
<1> HIDE DEF f
<1>4. ASSUME NEW i \in I  PROVE f[i] \in 1 .. Len(r) /\ r[f[i]] = c[i]
  <2>1. f[i] \in 1 .. Len(r)  BY <1>1, <1>3, Filling
  <2>2. ASSUME r[f[i]] # c[i]  PROVE FALSE
    <3>1. force /\ \E n \in DOMAIN Wanted(t) : Wanted(t)[n].name = b[i].name
      BY <1>1, <1>3, <2>2, Filling
    <3>2. t = "features" /\ b[i].name = "multi_agent"  BY <3>1, WantedNames
    <3> QED  BY <1>3, <3>2
  <2> QED  BY <2>1, <2>2
<1>5. \A i, j \in I : i < j => f[i] < f[j]  BY <1>1, <1>3, Filling
<1>6. Kept(c, I, r, f)  BY <1>4, <1>5 DEF Kept
<1> QED  BY <1>6 DEF r

\* All three merges in turn keep the user's lines.
LEMMA KeptByMerge ==
  ASSUME NEW c \in Seq(Line), NEW l \in BOOLEAN, NEW s \in Words, Merge(c, l, s) # Refused
  PROVE  \E f : Kept(c, Foreign(c), Merge(c, l, s), f)
<1> DEFINE I == Foreign(c)
           m == Blocked(c, l, s)
           n == Featured(c, l, s)
           r == Merge(c, l, s)
<1>1. /\ m # Refused /\ m \in Seq(Line) /\ n # Refused /\ n \in Seq(Line)
      /\ r = MergeTable(n, "agents", FALSE) /\ Owned(c, l) \in BOOLEAN
  BY MergeParts
<1>2. n = MergeTable(m, "features", TRUE)  BY DEF Featured
<1>3. PICK f : Kept(c, I, m, f)  BY <1>1, KeptByBlock DEF Blocked
<1>4. I \subseteq 1 .. Len(c) /\ \A i \in I : c[i].name # "multi_agent"  BY Doc DEF Foreign
<1>5. "features" \in Runtime /\ "agents" \in Runtime /\ TRUE \in BOOLEAN /\ FALSE \in BOOLEAN
  BY DEF Runtime
<1> HIDE DEF I, m, n, r
<1> DEFINE J == {f[i] : i \in I}
<1>6. J \in SUBSET (1 .. Len(m)) /\ \A j \in J : m[j].name # "multi_agent"
  BY <1>3, <1>4 DEF Kept
<1>7. PICK g : Kept(m, J, n, g)
  <2> HIDE DEF J
  <2>1. MergeTable(m, "features", TRUE) # Refused  BY <1>1, <1>2
  <2>2. \E g : Kept(m, J, MergeTable(m, "features", TRUE), g)
    BY <1>1, <1>5, <1>6, <2>1, KeptByTable
  <2> QED  BY <1>2, <2>2
<1> DEFINE fg == [i \in I |-> g[f[i]]]
<1>8. Kept(c, I, n, fg)  BY <1>3, <1>7, KeptTwice
<1> HIDE DEF fg, J
<1> DEFINE K == {fg[i] : i \in I}
<1>9. K \in SUBSET (1 .. Len(n)) /\ \A j \in K : n[j].name # "multi_agent"
  BY <1>4, <1>8 DEF Kept
<1>10. PICK e : Kept(n, K, r, e)
  <2> HIDE DEF K
  <2>1. MergeTable(n, "agents", FALSE) # Refused  BY <1>1 DEF r
  <2>2. \E e : Kept(n, K, MergeTable(n, "agents", FALSE), e)
    BY <1>1, <1>5, <1>9, <2>1, KeptByTable
  <2> QED  BY <1>1, <2>2
<1>11. Kept(c, I, r, [i \in I |-> e[fg[i]]])  BY <1>8, <1>10, KeptTwice
<1> QED  BY <1>11 DEF I, r

\* Every install keeps every line of the user, in the order they stood in
\* (mergeCodexConfigToml).
THEOREM UserLinesStay == Spec => UserLinesKept
<1> DEFINE Stays ==
      Merges => \A i \in Foreign(config) : \E k \in DOMAIN config' :
        /\ config'[k] = config[i]
        /\ \A j \in Foreign(config) :
             /\ j < i => \E l \in 1 .. k - 1 : config'[l] = config[j]
             /\ j > i => \E l \in k + 1 .. Len(config') : config'[l] = config[j]
<1>1. ASSUME TypeOK, [Next]_vars  PROVE [Stays]_vars
  <2> SUFFICES ASSUME Merges, ~UNCHANGED vars, NEW i \in Foreign(config)
      PROVE  \E k \in DOMAIN config' :
        /\ config'[k] = config[i]
        /\ \A j \in Foreign(config) :
             /\ j < i => \E l \in 1 .. k - 1 : config'[l] = config[j]
             /\ j > i => \E l \in k + 1 .. Len(config') : config'[l] = config[j]
    OBVIOUS
  <2>1. Install /\ last' = "ok"  BY <1>1, InstallsMerge DEF Merges
  <2>2. config' = Merge(config, listed, server) /\ Merge(config, listed, server) # Refused
    BY <2>1 DEF Install
  <2>3. config \in Seq(Line) /\ listed \in BOOLEAN /\ server \in Words
    BY <1>1, DocumentsAreLines DEF TypeOK
  <2>4. PICK f : Kept(config, Foreign(config), config', f)  BY <2>2, <2>3, KeptByMerge
  <2>5. config' \in Seq(Line)  BY <2>2, <2>3, MergeParts
  <2>6. DOMAIN config' = 1 .. Len(config') /\ Len(config') \in Nat  BY <2>5, Doc
  <2>7. f[i] \in 1 .. Len(config') /\ config'[f[i]] = config[i]  BY <2>4 DEF Kept
  <2>8. ASSUME NEW j \in Foreign(config), j < i
        PROVE  \E l \in 1 .. f[i] - 1 : config'[l] = config[j]
    <3>1. f[j] \in 1 .. Len(config') /\ config'[f[j]] = config[j] /\ f[j] < f[i]
      BY <2>4, <2>8 DEF Kept
    <3>2. f[j] \in 1 .. f[i] - 1  BY <2>6, <2>7, <3>1
    <3> QED  BY <3>1, <3>2
  <2>9. ASSUME NEW j \in Foreign(config), j > i
        PROVE  \E l \in f[i] + 1 .. Len(config') : config'[l] = config[j]
    <3>0. i < j
      <4>1. i \in Int /\ j \in Int  BY <2>3, Doc DEF Foreign
      <4> QED  BY <2>9, <4>1
    <3>1. f[j] \in 1 .. Len(config') /\ config'[f[j]] = config[j] /\ f[i] < f[j]
      BY <2>4, <3>0 DEF Kept
    <3>2. f[j] \in f[i] + 1 .. Len(config')  BY <2>6, <2>7, <3>1
    <3> QED  BY <3>1, <3>2
  <2> QED  BY <2>6, <2>7, <2>8, <2>9
<1>2. Spec => []TypeOK  BY CodexTypeOK
<1> QED  BY <1>1, <1>2, PTL DEF Spec, UserLinesKept

-----------------------------------------------------------------------------
(* The tables of a document after the merge of one of them.                 *)

\* The merge of a table neither makes nor moves a header past another line.
LEMMA Heads ==
  ASSUME NEW b \in Seq(Line), NEW t \in Runtime, NEW r, NEW force, NEW h, NEW e, NEW k,
         Filled(b, r, t, force, h, e, k)
  PROVE  /\ \A i \in 1 .. Len(b) : /\ IsHead(r[Move(i, e, k)]) <=> IsHead(b[i])
                                   /\ IsKey(r[Move(i, e, k)]) <=> IsKey(b[i])
                                   /\ ~IsKey(b[i]) => r[Move(i, e, k)] = b[i]
         /\ \A j \in e .. e + k - 1 : IsKey(r[j]) /\ ~IsHead(r[j])
         /\ \A j \in 1 .. Len(r) : IsHead(r[j]) =>
              \E i \in 1 .. Len(b) : j = Move(i, e, k) /\ IsHead(b[i]) /\ r[j] = b[i]
<1>1. \A i \in 1 .. Len(b) : /\ IsHead(r[Move(i, e, k)]) <=> IsHead(b[i])
                             /\ IsKey(r[Move(i, e, k)]) <=> IsKey(b[i])
                             /\ ~IsKey(b[i]) => r[Move(i, e, k)] = b[i]
  BY Filling DEF IsHead, IsKey
<1>2. \A j \in e .. e + k - 1 : IsKey(r[j]) /\ ~IsHead(r[j])
  <2> TAKE j \in e .. e + k - 1
  <2>1. \E n \in DOMAIN Wanted(t) : r[j] = Wanted(t)[n]  BY DEF Filled
  <2> QED  BY <2>1, WantedNames
<1>3. ASSUME NEW j \in 1 .. Len(r), IsHead(r[j])
      PROVE  \E i \in 1 .. Len(b) : j = Move(i, e, k) /\ IsHead(b[i]) /\ r[j] = b[i]
  <2>1. PICK i \in 1 .. Len(b) : j = Move(i, e, k)  BY <1>2, <1>3, Filling
  <2>2. IsHead(b[i])  BY <1>1, <1>3, <2>1
  <2>3. ~IsKey(b[i])  BY <2>2 DEF IsHead, IsKey
  <2> QED  BY <1>1, <2>1, <2>2, <2>3
<1> QED  BY <1>1, <1>2, <1>3

\* A stretch without headers stays one.
LEMMA PlainMoved ==
  ASSUME NEW b \in Seq(Line), NEW t \in Runtime, NEW r, NEW force, NEW h, NEW e, NEW k,
         Filled(b, r, t, force, h, e, k), NEW i \in 1 .. Len(b), NEW j \in 1 .. Len(b)
  PROVE  /\ Plain(r, Move(i, e, k), Move(j, e, k)) => Plain(b, i, j)
         /\ Plain(r, Move(i, e, k) + 1, Move(j, e, k)) <=> Plain(b, i + 1, j)
         /\ Plain(r, 1, Move(j, e, k)) <=> Plain(b, 1, j)
<1> DEFINE M(l) == Move(l, e, k)
<1>1. /\ Len(b) \in Nat /\ Len(r) \in Nat
      /\ \A l \in 1 .. Len(b) : M(l) \in 1 .. Len(r)
      /\ \A l, m \in 1 .. Len(b) : l < m => M(l) < M(m)
  <2>1. r \in Seq(Line)  BY DEF Filled
  <2>2. Len(b) \in Nat /\ Len(r) \in Nat  BY <2>1, Doc
  <2> QED  BY <2>2, Filling
<1>2. /\ \A l \in 1 .. Len(b) : IsHead(r[M(l)]) <=> IsHead(b[l])
      /\ \A m \in 1 .. Len(r) : IsHead(r[m]) => \E l \in 1 .. Len(b) : m = M(l) /\ IsHead(b[l])
  BY Heads
<1> HIDE DEF M
<1>3. \A l, m \in 1 .. Len(b) : (M(l) < M(m) <=> l < m) /\ (M(l) <= M(m) <=> l <= m)
  <2> TAKE l, m \in 1 .. Len(b)
  <2>1. l < m => M(l) < M(m)  BY <1>1
  <2>2. m < l => M(m) < M(l)  BY <1>1
  <2>3. M(l) \in Int /\ M(m) \in Int  BY <1>1
  <2> QED  BY <2>1, <2>2, <2>3
<1>4. ASSUME Plain(r, M(i), M(j))  PROVE Plain(b, i, j)
  <2> SUFFICES ASSUME NEW l \in i .. j, IsHead(b[l])  PROVE FALSE  BY DEF Plain
  <2>1. l \in 1 .. Len(b) /\ M(l) \in M(i) .. M(j)  BY <1>1, <1>3
  <2> QED  BY <1>2, <1>4, <2>1 DEF Plain
<1>5. ASSUME Plain(r, M(i) + 1, M(j))  PROVE Plain(b, i + 1, j)
  <2> SUFFICES ASSUME NEW l \in i + 1 .. j, IsHead(b[l])  PROVE FALSE  BY DEF Plain
  <2>1. l \in 1 .. Len(b) /\ i < l /\ l <= j  BY <1>1
  <2>2. M(i) < M(l) /\ M(l) <= M(j) /\ M(l) \in Int /\ M(i) \in Int /\ M(j) \in Int
    BY <1>1, <1>3, <2>1
  <2>3. M(l) \in M(i) + 1 .. M(j)  BY <2>2
  <2> QED  BY <1>2, <1>5, <2>1, <2>3 DEF Plain
<1>6. ASSUME Plain(b, i + 1, j)  PROVE Plain(r, M(i) + 1, M(j))
  <2> SUFFICES ASSUME NEW m \in M(i) + 1 .. M(j), IsHead(r[m])  PROVE FALSE  BY DEF Plain
  <2>1. m \in 1 .. Len(r)  BY <1>1
  <2>2. PICK l \in 1 .. Len(b) : m = M(l) /\ IsHead(b[l])  BY <1>2, <2>1
  <2>3. M(i) < M(l) /\ M(l) <= M(j)  BY <1>1, <2>2
  <2>4. l \in i + 1 .. j  BY <1>1, <1>3, <2>3
  <2> QED  BY <1>6, <2>2, <2>4 DEF Plain
<1>7. ASSUME Plain(r, 1, M(j))  PROVE Plain(b, 1, j)
  <2> SUFFICES ASSUME NEW l \in 1 .. j, IsHead(b[l])  PROVE FALSE  BY DEF Plain
  <2>1. l \in 1 .. Len(b) /\ M(l) \in 1 .. M(j)  BY <1>1, <1>3
  <2> QED  BY <1>2, <1>7, <2>1 DEF Plain
<1>8. ASSUME Plain(b, 1, j)  PROVE Plain(r, 1, M(j))
  <2> SUFFICES ASSUME NEW m \in 1 .. M(j), IsHead(r[m])  PROVE FALSE  BY DEF Plain
  <2>1. m \in 1 .. Len(r)  BY <1>1
  <2>2. PICK l \in 1 .. Len(b) : m = M(l) /\ IsHead(b[l])  BY <1>2, <2>1
  <2>3. l \in 1 .. j  BY <1>1, <1>3, <2>2
  <2> QED  BY <1>8, <2>2, <2>3 DEF Plain
<1> QED  BY <1>4, <1>5, <1>6, <1>7, <1>8 DEF M

\* The table that was merged, in its new place.
LEMMA Region ==
  ASSUME NEW b \in Seq(Line), NEW t \in Runtime, NEW r, NEW force, NEW h, NEW e, NEW k,
         Filled(b, r, t, force, h, e, k)
  PROVE  /\ h \in 1 .. Len(r) /\ e + k \in h + 1 .. Len(r) + 1
         /\ r[h] = Table(t) /\ Plain(r, h + 1, e + k - 1) /\ LastTable(r, t, h, e + k)
<1>1. /\ Len(b) \in Nat /\ k \in Nat /\ Len(r) = Len(b) + k
      /\ h \in 1 .. Len(b) /\ e \in h + 1 .. Len(b) + 1 /\ LastTable(b, t, h, e)
      /\ r \in Seq(Line)
  BY Doc DEF Filled
<1>2. DOMAIN b = 1 .. Len(b) /\ DOMAIN r = 1 .. Len(r)  BY <1>1, Doc
<1>3. Move(h, e, k) = h  BY <1>1 DEF Move
<1>4. r[h] = Table(t)
  <2>1. b[h] = Table(t) /\ ~IsKey(Table(t))  BY <1>1 DEF LastTable, IsKey, Table
  <2> QED  BY <1>1, <1>3, <2>1, Heads
<1>5. ASSUME NEW j \in h + 1 .. e + k - 1, IsHead(r[j])  PROVE FALSE
  <2>1. j \in 1 .. Len(r)  BY <1>1
  <2>2. PICK i \in 1 .. Len(b) : j = Move(i, e, k) /\ IsHead(b[i])  BY <1>5, <2>1, Heads
  <2>3. i \in h + 1 .. e - 1  BY <1>1, <2>2 DEF Move
  <2> QED  BY <1>1, <2>2, <2>3 DEF LastTable, Plain
<1>6. ASSUME NEW j \in h + 1 .. Len(r), r[j] = Table(t)  PROVE FALSE
  <2>1. j \in 1 .. Len(r) /\ IsHead(r[j])  BY <1>1, <1>6, HeadIsTable
  <2>2. PICK i \in 1 .. Len(b) : j = Move(i, e, k) /\ r[j] = b[i]  BY <2>1, Heads
  <2>3. i \in h + 1 .. Len(b)  BY <1>1, <2>2 DEF Move
  <2> QED  BY <1>1, <1>6, <2>2, <2>3 DEF LastTable
<1>7. ASSUME e + k \in DOMAIN r  PROVE IsHead(r[e + k])
  <2>1. e \in 1 .. Len(b) /\ Move(e, e, k) = e + k  BY <1>1, <1>2, <1>7 DEF Move
  <2>2. IsHead(b[e])  BY <1>1, <1>2, <2>1 DEF LastTable
  <2> QED  BY <2>1, <2>2, Heads
<1>8. Plain(r, h + 1, e + k - 1)  BY <1>5 DEF Plain
<1>9. LastTable(r, t, h, e + k)
  <2>1. \A j \in h + 1 .. Len(r) : r[j] # Table(t)  BY <1>6
  <2>2. Plain(r, h + 1, (e + k) - 1)
    <3>1. e + k - 1 = (e + k) - 1  BY <1>1
    <3> QED  BY <1>8, <3>1
  <2>3. (e + k) \in DOMAIN r => IsHead(r[e + k])  BY <1>7
  <2> HIDE DEF Plain
  <2> QED  BY <1>4, <2>1, <2>2, <2>3 DEF LastTable
<1>10. h \in 1 .. Len(r) /\ e + k \in h + 1 .. Len(r) + 1  BY <1>1
<1> QED  BY <1>4, <1>8, <1>9, <1>10

\* A line stands in one table.
LEMMA OneTable ==
  ASSUME NEW c \in Seq(Line), NEW i \in 1 .. Len(c), NEW t, NEW u,
         InTable(c, i, t), InTable(c, i, u)
  PROVE  t = u
<1>1. PICK g \in 1 .. i : c[g] = Table(t) /\ Plain(c, g + 1, i)  BY DEF InTable
<1>2. PICK h \in 1 .. i : c[h] = Table(u) /\ Plain(c, h + 1, i)  BY DEF InTable
<1>3. IsHead(c[g]) /\ IsHead(c[h])  BY <1>1, <1>2, HeadIsTable
<1>4. i \in Nat  BY Doc
<1>5. g \notin h + 1 .. i /\ h \notin g + 1 .. i  BY <1>1, <1>2, <1>3 DEF Plain
<1>6. g = h  BY <1>4, <1>5
<1> QED  BY <1>1, <1>2, <1>6, HeadIsTable

\* Every line stays in its table, and the new ones are in the merged table.
LEMMA TablesMoved ==
  ASSUME NEW b \in Seq(Line), NEW t \in Runtime, NEW r, NEW force, NEW h, NEW e, NEW k,
         Filled(b, r, t, force, h, e, k)
  PROVE  /\ \A i \in 1 .. Len(b) : \A u : InTable(r, Move(i, e, k), u) <=> InTable(b, i, u)
         /\ \A j \in h .. e + k - 1 : /\ InTable(r, j, t) /\ ~AtTop(r, j)
                                      /\ \A u : InTable(r, j, u) => u = t
<1> DEFINE M(l) == Move(l, e, k)
<1>1. /\ Len(b) \in Nat /\ Len(r) \in Nat /\ r \in Seq(Line)
      /\ \A l \in 1 .. Len(b) : M(l) \in 1 .. Len(r)
      /\ \A l, m \in 1 .. Len(b) : l < m => M(l) < M(m)
  <2>1. r \in Seq(Line)  BY DEF Filled
  <2>2. Len(b) \in Nat /\ Len(r) \in Nat  BY <2>1, Doc
  <2> QED  BY <2>1, <2>2, Filling
<1>2. \A u : IsHead(Table(u)) /\ ~IsKey(Table(u))  BY DEF IsHead, IsKey, Table
<1>3. \A l \in 1 .. Len(b) : ~IsKey(b[l]) => r[M(l)] = b[l]  BY Heads
<1>4. \A m \in 1 .. Len(r) : IsHead(r[m]) => \E l \in 1 .. Len(b) : m = M(l) /\ r[m] = b[l]
  BY Heads
<1>5. \A l, m \in 1 .. Len(b) : Plain(r, M(l) + 1, M(m)) <=> Plain(b, l + 1, m)
  BY PlainMoved
<1> HIDE DEF M
<1>6. ASSUME NEW i \in 1 .. Len(b), NEW u, InTable(b, i, u)  PROVE InTable(r, M(i), u)
  <2>1. PICK g \in 1 .. i : b[g] = Table(u) /\ Plain(b, g + 1, i)  BY <1>6 DEF InTable
  <2>2. g \in 1 .. Len(b) /\ (g < i \/ g = i)  BY <1>1
  <2>3. r[M(g)] = Table(u) /\ Plain(r, M(g) + 1, M(i))  BY <1>2, <1>3, <1>5, <2>1, <2>2
  <2>4. M(g) \in 1 .. M(i)  BY <1>1, <2>2
  <2> QED  BY <2>3, <2>4 DEF InTable
<1>7. ASSUME NEW i \in 1 .. Len(b), NEW u, InTable(r, M(i), u)  PROVE InTable(b, i, u)
  <2>1. PICK m \in 1 .. M(i) : r[m] = Table(u) /\ Plain(r, m + 1, M(i))  BY <1>7 DEF InTable
  <2>2. m \in 1 .. Len(r)  BY <1>1
  <2>3. PICK g \in 1 .. Len(b) : m = M(g) /\ b[g] = Table(u)  BY <1>2, <1>4, <2>1, <2>2
  <2>4. ~(i < g)
    <3> SUFFICES ASSUME i < g PROVE FALSE  OBVIOUS
    <3>1. M(i) < M(g) /\ M(i) \in Int  BY <1>1
    <3> QED  BY <2>3, <3>1
  <2>5. g \in 1 .. i  BY <1>1, <2>4
  <2>6. Plain(b, g + 1, i)  BY <1>5, <2>1, <2>3
  <2> QED  BY <2>3, <2>5, <2>6 DEF InTable
<1>8. ASSUME NEW j \in h .. e + k - 1
      PROVE  InTable(r, j, t) /\ ~AtTop(r, j) /\ \A u : InTable(r, j, u) => u = t
  <2>1. /\ h \in 1 .. Len(r) /\ e + k \in h + 1 .. Len(r) + 1
        /\ r[h] = Table(t) /\ Plain(r, h + 1, e + k - 1)
    BY Region
  <2>0. e \in Int /\ k \in Nat /\ h \in Int  BY <1>1 DEF Filled
  <2>2. j \in 1 .. Len(r) /\ h \in 1 .. j /\ h + 1 .. j \subseteq h + 1 .. e + k - 1
    BY <1>1, <2>0, <2>1
  <2>3. Plain(r, h + 1, j)  BY <2>1, <2>2 DEF Plain
  <2>4. InTable(r, j, t)  BY <2>1, <2>2, <2>3 DEF InTable
  <2>5. ~AtTop(r, j)  BY <1>2, <2>1, <2>2 DEF AtTop, Plain
  <2>6. \A u : InTable(r, j, u) => u = t  BY <1>1, <2>2, <2>4, OneTable
  <2> QED  BY <2>4, <2>5, <2>6
<1> QED  BY <1>6, <1>7, <1>8 DEF M

-----------------------------------------------------------------------------
(* A document that parses.                                                  *)

OneHead(c) == \A i, j \in DOMAIN c : i # j /\ IsHead(c[i]) => c[i] # c[j]
OneKey(c) == \A i, j \in DOMAIN c :
    i < j /\ IsKey(c[i]) /\ IsKey(c[j]) /\ Plain(c, i, j) => c[i].name # c[j].name
NoClash(c) == \A i, j \in DOMAIN c :
    IsKey(c[i]) /\ AtTop(c, i) /\ IsHead(c[j])
        => /\ c[i].name # c[j].name
           /\ ~(c[i].name = "features.multi_agent" /\ c[j].name = "features")

\* A document parses when its tables, its keys and its names are apart.
LEMMA ParsesIs == \A c : Parses(c) <=> OneHead(c) /\ OneKey(c) /\ NoClash(c)
BY DEF Parses, OneHead, OneKey, NoClash

\* Filling a table leaves a document that parses: no key comes in twice.
LEMMA FilledParses ==
  ASSUME NEW b \in Seq(Line), NEW t \in Runtime, NEW r, NEW force, NEW h, NEW e, NEW k,
         Filled(b, r, t, force, h, e, k), Parses(b)
  PROVE  Parses(r)
<1> DEFINE M(l) == Move(l, e, k)
<1>1. /\ Len(b) \in Nat /\ Len(r) \in Nat /\ r \in Seq(Line) /\ k \in Nat
      /\ h \in 1 .. Len(b) /\ e \in h + 1 .. Len(b) + 1 /\ LastTable(b, t, h, e)
      /\ Len(r) = Len(b) + k
  BY Doc DEF Filled
<1>2. DOMAIN b = 1 .. Len(b) /\ DOMAIN r = 1 .. Len(r)  BY <1>1, Doc
<1>3. OneHead(b) /\ OneKey(b) /\ NoClash(b)  BY ParsesIs
<1>4. OneHead(r)
  <2> SUFFICES ASSUME NEW i \in 1 .. Len(r), NEW j \in 1 .. Len(r), i # j, IsHead(r[i]), r[i] = r[j]
               PROVE  FALSE
    BY <1>2 DEF OneHead
  <2>1. PICK l \in 1 .. Len(b) : i = Move(l, e, k) /\ IsHead(b[l]) /\ r[i] = b[l]  BY Heads
  <2>2. IsHead(r[j])  OBVIOUS
  <2>3. PICK m \in 1 .. Len(b) : j = Move(m, e, k) /\ IsHead(b[m]) /\ r[j] = b[m]  BY <2>2, Heads
  <2>4. l # m  BY <2>1, <2>3
  <2> QED  BY <1>2, <1>3, <2>1, <2>3, <2>4 DEF OneHead
<1>5. NoClash(r)
  <2> SUFFICES ASSUME NEW i \in 1 .. Len(r), NEW j \in 1 .. Len(r),
                      IsKey(r[i]), AtTop(r, i), IsHead(r[j])
               PROVE  /\ r[i].name # r[j].name
                      /\ ~(r[i].name = "features.multi_agent" /\ r[j].name = "features")
    BY <1>2 DEF NoClash
  <2>1. PICK m \in 1 .. Len(b) : j = Move(m, e, k) /\ IsHead(b[m]) /\ r[j] = b[m]  BY Heads
  <2>2. i \notin e .. e + k - 1
    <3> SUFFICES ASSUME i \in e .. e + k - 1 PROVE FALSE  OBVIOUS
    <3>1. i \in h .. e + k - 1  BY <1>1
    <3> QED  BY <3>1, TablesMoved
  <2>3. PICK l \in 1 .. Len(b) : i = Move(l, e, k)  BY <2>2, Filling
  <2>4. IsKey(b[l]) /\ r[i].name = b[l].name  BY <2>3, Heads, Filling
  <2>5. AtTop(b, l)  BY <2>3, PlainMoved DEF AtTop
  <2> QED  BY <1>2, <1>3, <2>1, <2>4, <2>5 DEF NoClash
<1>6. OneKey(r)
  <2> SUFFICES ASSUME NEW i \in 1 .. Len(r), NEW j \in 1 .. Len(r), i < j,
                      IsKey(r[i]), IsKey(r[j]), Plain(r, i, j), r[i].name = r[j].name
               PROVE  FALSE
    BY <1>2 DEF OneKey
  <2>1. CASE i \notin e .. e + k - 1 /\ j \notin e .. e + k - 1
    <3>1. PICK l \in 1 .. Len(b) : i = Move(l, e, k)  BY <2>1, Filling
    <3>2. PICK m \in 1 .. Len(b) : j = Move(m, e, k)  BY <2>1, Filling
    <3>3. IsKey(b[l]) /\ IsKey(b[m]) /\ b[l].name = b[m].name  BY <3>1, <3>2, Heads, Filling
    <3>4. Plain(b, l, m)  BY <3>1, <3>2, PlainMoved
    <3>5. l < m  BY <1>1, <3>1, <3>2 DEF Move
    <3> QED  BY <1>2, <1>3, <3>3, <3>4, <3>5 DEF OneKey
  <2>2. CASE i \in e .. e + k - 1 /\ j \in e .. e + k - 1
    <3>1. i = j  BY <2>2 DEF Filled
    <3> QED  BY <3>1
  <2>3. CASE i \notin e .. e + k - 1 /\ j \in e .. e + k - 1
    <3>1. i < e  BY <1>1, <2>3
    <3>2. ~(i <= h)
      <4> SUFFICES ASSUME i <= h PROVE FALSE  OBVIOUS
      <4>1. h \in i .. j  BY <1>1, <2>3
      <4>2. IsHead(r[h])  BY Region, HeadIsTable
      <4> QED  BY <4>1, <4>2 DEF Plain
    <3>3. i \in h + 1 .. e - 1 /\ i \in 1 .. Len(b) /\ i = Move(i, e, k)
      BY <1>1, <3>1, <3>2 DEF Move
    <3>4. IsKey(b[i]) /\ b[i].name = r[j].name  BY <3>3, Heads, Filling
    <3>5. PICK n \in DOMAIN Wanted(t) :
            r[j] = Wanted(t)[n] /\ ~Sets(b, h + 1, e - 1, Wanted(t)[n])
      BY <2>3 DEF Filled
    <3> QED  BY <3>3, <3>4, <3>5 DEF Sets
  <2>4. CASE i \in e .. e + k - 1 /\ j \notin e .. e + k - 1
    <3>1. e + k \in i .. j /\ e + k \in 1 .. Len(r)  BY <1>1, <2>4
    <3>2. IsHead(r[e + k])
      <4>1. LastTable(r, t, h, e + k)  BY Region
      <4> QED  BY <1>2, <3>1, <4>1 DEF LastTable
    <3> QED  BY <3>1, <3>2 DEF Plain
  <2> QED  BY <2>1, <2>2, <2>3, <2>4
<1> QED  BY <1>4, <1>5, <1>6, ParsesIs

\* Appending a header leaves a document that parses.
LEMMA BasedParses ==
  ASSUME NEW c \in Seq(Line), NEW t \in Runtime, NEW b, Based(b, c, t), Parses(c),
         \A i \in 1 .. Len(c) : IsKey(c[i]) => c[i].name # t,
         t = "features" => \A i \in 1 .. Len(c) : IsKey(c[i]) /\ AtTop(c, i) =>
                                                    c[i].name # "features.multi_agent"
  PROVE  Parses(b)
<1>1. CASE Has(c, Table(t))  BY <1>1 DEF Based
<1>2. CASE ~Has(c, Table(t))
  <2> DEFINE n == Len(c)
  <2>1. b = c \o << Table(t) >>  BY <1>2 DEF Based
  <2>2. /\ b \in Seq(Line) /\ Len(b) = n + 1 /\ b[n + 1] = Table(t)
        /\ \A i \in 1 .. n : b[i] = c[i]
    BY <1>2, <2>1, BasedLines
  <2>3. n \in Nat /\ DOMAIN c = 1 .. n /\ DOMAIN b = 1 .. n + 1  BY <2>2, Doc
  <2>4. OneHead(c) /\ OneKey(c) /\ NoClash(c)  BY ParsesIs
  <2>5. IsHead(Table(t)) /\ ~IsKey(Table(t)) /\ Table(t).name = t  BY DEF IsHead, IsKey, Table
  <2>6. \A i \in 1 .. n + 1 : i \in 1 .. n \/ i = n + 1  BY <2>3
  <2>7. \A i \in 1 .. n : c[i] # Table(t)  BY <1>2, <2>3 DEF Has
  <2> HIDE DEF n
  <2>8. OneHead(b)
    <3> SUFFICES ASSUME NEW i \in 1 .. n + 1, NEW j \in 1 .. n + 1, i # j, IsHead(b[i])
                 PROVE  b[i] # b[j]
      BY <2>3 DEF OneHead
    <3>1. CASE i \in 1 .. n /\ j \in 1 .. n  BY <2>2, <2>3, <2>4, <3>1 DEF OneHead
    <3>2. CASE i \in 1 .. n /\ j = n + 1  BY <2>2, <2>7, <3>2
    <3>3. CASE i = n + 1 /\ j \in 1 .. n  BY <2>2, <2>7, <3>3
    <3> QED  BY <2>6, <3>1, <3>2, <3>3
  <2>9. \A i, j \in 1 .. n : Plain(b, i, j) => Plain(c, i, j)
    <3> TAKE i, j \in 1 .. n
    <3>1. \A k \in i .. j : k \in 1 .. n  BY <2>3
    <3> QED  BY <2>2, <3>1 DEF Plain
  <2>10. OneKey(b)
    <3> SUFFICES ASSUME NEW i \in 1 .. n + 1, NEW j \in 1 .. n + 1, i < j,
                        IsKey(b[i]), IsKey(b[j]), Plain(b, i, j)
                 PROVE  b[i].name # b[j].name
      BY <2>3 DEF OneKey
    <3>1. i \in 1 .. n /\ j \in 1 .. n  BY <2>2, <2>5, <2>6
    <3> QED  BY <2>2, <2>3, <2>4, <2>9, <3>1 DEF OneKey
  <2>11. NoClash(b)
    <3> SUFFICES ASSUME NEW i \in 1 .. n + 1, NEW j \in 1 .. n + 1,
                        IsKey(b[i]), AtTop(b, i), IsHead(b[j])
                 PROVE  /\ b[i].name # b[j].name
                        /\ ~(b[i].name = "features.multi_agent" /\ b[j].name = "features")
      BY <2>3 DEF NoClash
    <3>1. i \in 1 .. n /\ b[i] = c[i]  BY <2>2, <2>5, <2>6
    <3>2. AtTop(c, i)
      <4>1. 1 \in 1 .. n  BY <2>3, <3>1
      <4> QED  BY <2>9, <3>1, <4>1 DEF AtTop
    <3>3. CASE j \in 1 .. n
      <4>1. IsHead(c[j]) /\ b[j] = c[j]  BY <2>2, <3>3
      <4> QED  BY <2>3, <2>4, <3>1, <3>2, <3>3, <4>1 DEF NoClash
    <3>4. CASE j = n + 1
      <4>1. b[j].name = t  BY <2>2, <2>5, <3>4
      <4>2. c[i].name # t /\ (t = "features" => c[i].name # "features.multi_agent")
        BY <3>1, <3>2 DEF n
      <4> QED  BY <3>1, <4>1, <4>2
    <3> QED  BY <2>6, <3>3, <3>4
  <2> QED  BY <2>8, <2>10, <2>11, ParsesIs
<1> QED  BY <1>1, <1>2

\* Lines taken out whole tables at a time separate no line from its header.
LEMMA RemainsPlain ==
  ASSUME NEW c \in Seq(Line), NEW x \in Seq(Line), NEW p \in Nat, NEW q \in Int, NEW f,
         Remains(x, c, p, q, f)
  PROVE  /\ \A j \in 1 .. Len(x) : Plain(x, 1, j) => Plain(c, p, f[j])
         /\ \A i, j \in 1 .. Len(x) : Plain(x, i, j) => Plain(c, f[i], f[j])
<1>1. Len(x) \in Nat /\ \A k \in 1 .. Len(x) : f[k] \in p .. q  BY Doc DEF Remains
<1>2. \A l \in 1 .. Len(x) : \A m \in p .. f[l] :
        IsHead(c[m]) => \E k \in 1 .. l : IsHead(x[k]) /\ m <= f[k]
  BY DEF Remains
<1>3. ASSUME NEW j \in 1 .. Len(x), Plain(x, 1, j)  PROVE Plain(c, p, f[j])
  BY <1>2, <1>3 DEF Plain
<1>4. ASSUME NEW i \in 1 .. Len(x), NEW j \in 1 .. Len(x), Plain(x, i, j)
      PROVE  Plain(c, f[i], f[j])
  <2> SUFFICES ASSUME NEW m \in f[i] .. f[j], IsHead(c[m])  PROVE FALSE  BY DEF Plain
  <2>1. m \in p .. f[j] /\ m \in Int  BY <1>1
  <2>2. PICK k \in 1 .. j : IsHead(x[k]) /\ m <= f[k]  BY <1>2, <2>1
  <2>3. k \in 1 .. Len(x) /\ f[i] \in Int /\ f[k] \in Int /\ f[i] <= f[k]  BY <1>1, <2>2
  <2>4. ~(k < i)
    <3> SUFFICES ASSUME k < i PROVE FALSE  OBVIOUS
    <3>1. f[k] < f[i]  BY <2>3 DEF Remains
    <3> QED  BY <2>3, <3>1
  <2>5. k \in i .. j  BY <1>1, <2>3, <2>4
  <2> QED  BY <1>4, <2>2, <2>5 DEF Plain
<1> QED  BY <1>3, <1>4

\* Where the lines of a framed document come from.
LEMMA FramedOrigin ==
  ASSUME NEW c \in Seq(Line), NEW s \in Words, NEW m, NEW p, NEW q, NEW x, NEW y, NEW f, NEW g,
         Framed(c, s, m, p, q, x, y, f, g)
  PROVE  LET a == Len(x) + 1
         IN  /\ a \in Nat \ {0} /\ Len(y) \in Nat /\ m \in Seq(Line) /\ Len(m) = a + 5 + Len(y)
             /\ m[a] = Start /\ m[a + 1] = Table("lore") /\ m[a + 2] = Key("url", s)
             /\ m[a + 3] = Table("context7") /\ m[a + 4] = Key("url", "hosted") /\ m[a + 5] = End
             /\ \A i \in 1 .. a - 1 :
                  f[i] \in 1 .. Len(c) /\ f[i] <= p /\ m[i] = c[f[i]] /\ ~InBlock(c, f[i])
             /\ \A i \in 1 .. Len(y) :
                  g[i] \in 1 .. Len(c) /\ q < g[i] /\ m[a + 5 + i] = c[g[i]] /\ ~InBlock(c, g[i])
             /\ \A i, j \in 1 .. a - 1 : i < j => f[i] < f[j]
             /\ \A i, j \in 1 .. Len(y) : i < j => g[i] < g[j]
             /\ \A i \in 1 .. a - 1 : Plain(m, 1, i) => Plain(c, 1, f[i])
             /\ \A i, j \in 1 .. a - 1 : Plain(m, i, j) => Plain(c, f[i], f[j])
             /\ \A i \in 1 .. Len(y) : Plain(m, a + 6, a + 5 + i) => Plain(c, q + 1, g[i])
             /\ \A i, j \in 1 .. Len(y) : Plain(m, a + 5 + i, a + 5 + j) => Plain(c, g[i], g[j])
<1> DEFINE a == Len(x) + 1
<1>1. /\ m = Around(x, s, y) /\ x \in Seq(Line) /\ y \in Seq(Line)
      /\ p \in 0 .. Len(c) /\ q \in p .. Len(c)
      /\ Remains(x, c, 1, p, f) /\ Remains(y, c, q + 1, Len(c), g)
      /\ \A i \in 1 .. Len(c) : InBlock(c, i) <=> p < i /\ i <= q
  BY DEF Framed
<1>2. /\ m \in Seq(Line) /\ Len(m) = Len(x) + 6 + Len(y)
      /\ \A i \in 1 .. Len(x) : m[i] = x[i]
      /\ m[Len(x) + 1] = Start /\ m[Len(x) + 2] = Table("lore")
      /\ m[Len(x) + 3] = Key("url", s) /\ m[Len(x) + 4] = Table("context7")
      /\ m[Len(x) + 5] = Key("url", "hosted") /\ m[Len(x) + 6] = End
      /\ \A i \in 1 .. Len(y) : m[Len(x) + 6 + i] = y[i]
  <2>1. LaidOut(m, x, s, y)  BY <1>1, FramedLines
  <2> QED  BY <2>1 DEF LaidOut
<1>3. Len(x) \in Nat /\ Len(y) \in Nat /\ Len(c) \in Nat /\ p \in Int /\ q \in Int
  BY <1>1, Doc
<1>4. /\ a \in Nat \ {0} /\ a - 1 = Len(x) /\ Len(m) = a + 5 + Len(y)
      /\ m[a] = Start /\ m[a + 1] = Table("lore") /\ m[a + 2] = Key("url", s)
      /\ m[a + 3] = Table("context7") /\ m[a + 4] = Key("url", "hosted") /\ m[a + 5] = End
  <2>1. /\ a + 1 = Len(x) + 2 /\ a + 2 = Len(x) + 3 /\ a + 3 = Len(x) + 4
        /\ a + 4 = Len(x) + 5 /\ a + 5 = Len(x) + 6
    BY <1>3
  <2>2. a \in Nat \ {0} /\ a - 1 = Len(x) /\ Len(m) = a + 5 + Len(y)  BY <1>2, <1>3
  <2> QED  BY <1>2, <2>1, <2>2
<1>5. \A i \in 1 .. Len(y) : m[a + 5 + i] = y[i]
  <2> TAKE i \in 1 .. Len(y)
  <2>1. a + 5 + i = Len(x) + 6 + i  BY <1>3
  <2> QED  BY <1>2, <2>1
<1> HIDE DEF a
<1>6. ASSUME NEW i \in 1 .. a - 1
      PROVE  f[i] \in 1 .. Len(c) /\ f[i] <= p /\ m[i] = c[f[i]] /\ ~InBlock(c, f[i])
  <2>1. i \in 1 .. Len(x)  BY <1>4
  <2>2. f[i] \in 1 .. p /\ x[i] = c[f[i]]  BY <1>1, <2>1 DEF Remains
  <2>3. f[i] \in 1 .. Len(c) /\ f[i] <= p  BY <1>1, <1>3, <2>2
  <2> QED  BY <1>1, <1>2, <1>3, <2>1, <2>2, <2>3
<1>7. ASSUME NEW i \in 1 .. Len(y)
      PROVE  g[i] \in 1 .. Len(c) /\ q < g[i] /\ m[a + 5 + i] = c[g[i]] /\ ~InBlock(c, g[i])
  <2>1. g[i] \in q + 1 .. Len(c) /\ y[i] = c[g[i]]  BY <1>1 DEF Remains
  <2>2. g[i] \in 1 .. Len(c) /\ q < g[i] /\ ~(g[i] <= q)  BY <1>1, <1>3, <2>1
  <2>3. ~InBlock(c, g[i])  BY <1>1, <2>2
  <2> QED  BY <1>5, <2>1, <2>2, <2>3
<1>8. \A i, j \in 1 .. a - 1 : i < j => f[i] < f[j]  BY <1>1, <1>4 DEF Remains
<1>9. \A i, j \in 1 .. Len(y) : i < j => g[i] < g[j]  BY <1>1 DEF Remains
<1>10. /\ \A j \in 1 .. Len(x) : Plain(x, 1, j) => Plain(c, 1, f[j])
       /\ \A i, j \in 1 .. Len(x) : Plain(x, i, j) => Plain(c, f[i], f[j])
  BY <1>1, <1>3, RemainsPlain
<1>11. /\ \A j \in 1 .. Len(y) : Plain(y, 1, j) => Plain(c, q + 1, g[j])
       /\ \A i, j \in 1 .. Len(y) : Plain(y, i, j) => Plain(c, g[i], g[j])
  <2>1. q + 1 \in Nat /\ Len(c) \in Int  BY <1>1, <1>3
  <2> QED  BY <1>1, <2>1, RemainsPlain
<1>12. \A i, j \in 1 .. Len(x) : Plain(m, i, j) => Plain(x, i, j)
  <2> TAKE i, j \in 1 .. Len(x)
  <2>1. \A k \in i .. j : k \in 1 .. Len(x)  BY <1>3
  <2> QED  BY <1>2, <2>1 DEF Plain
<1>13. \A i, j \in 1 .. Len(y) : Plain(m, a + 5 + i, a + 5 + j) => Plain(y, i, j)
  <2> SUFFICES ASSUME NEW i \in 1 .. Len(y), NEW j \in 1 .. Len(y),
                      Plain(m, a + 5 + i, a + 5 + j), NEW k \in i .. j
               PROVE  ~IsHead(y[k])
    BY DEF Plain
  <2>1. k \in 1 .. Len(y) /\ a + 5 + k \in a + 5 + i .. a + 5 + j  BY <1>3, <1>4
  <2> QED  BY <1>5, <2>1 DEF Plain
<1>14. \A i \in 1 .. a - 1 : Plain(m, 1, i) => Plain(c, 1, f[i])
  <2> TAKE i \in 1 .. a - 1
  <2>1. 1 \in 1 .. Len(x) /\ i \in 1 .. Len(x)  BY <1>3, <1>4
  <2> QED  BY <1>10, <1>12, <2>1
<1>15. \A i, j \in 1 .. a - 1 : Plain(m, i, j) => Plain(c, f[i], f[j])
  BY <1>4, <1>10, <1>12
<1>16. \A i \in 1 .. Len(y) : Plain(m, a + 6, a + 5 + i) => Plain(c, q + 1, g[i])
  <2> TAKE i \in 1 .. Len(y)
  <2>1. 1 \in 1 .. Len(y) /\ a + 6 = a + 5 + 1  BY <1>3, <1>4
  <2>2. Plain(m, a + 5 + 1, a + 5 + i) => Plain(y, 1, i)  BY <1>13, <2>1
  <2>3. Plain(m, a + 6, a + 5 + i) => Plain(y, 1, i)  BY <2>1, <2>2
  <2> QED  BY <1>11, <2>3
<1>17. \A i, j \in 1 .. Len(y) : Plain(m, a + 5 + i, a + 5 + j) => Plain(c, g[i], g[j])
  BY <1>11, <1>13
<1> QED  BY <1>2, <1>3, <1>4, <1>6, <1>7, <1>8, <1>9, <1>14, <1>15, <1>16, <1>17 DEF a

\* A separate document parses with the block in it.
LEMMA FramedParses ==
  ASSUME NEW c \in Seq(Line), NEW s \in Words, NEW m, NEW p, NEW q, NEW x, NEW y, NEW f, NEW g,
         Framed(c, s, m, p, q, x, y, f, g), Parses(c), Separate(c)
  PROVE  /\ Parses(m)
         /\ \A i \in 1 .. Len(m) : IsKey(m[i]) /\ AtTop(m, i) => m[i].name # "features.multi_agent"
<1> DEFINE a == Len(x) + 1
<1>1. /\ a \in Nat \ {0} /\ Len(y) \in Nat /\ m \in Seq(Line) /\ Len(m) = a + 5 + Len(y)
      /\ m[a] = Start /\ m[a + 1] = Table("lore") /\ m[a + 2] = Key("url", s)
      /\ m[a + 3] = Table("context7") /\ m[a + 4] = Key("url", "hosted") /\ m[a + 5] = End
  BY FramedOrigin
<1>2. \A i \in 1 .. a - 1 : f[i] \in 1 .. Len(c) /\ f[i] <= p /\ m[i] = c[f[i]] /\ ~InBlock(c, f[i])
  BY FramedOrigin
<1>3. \A i \in 1 .. Len(y) : g[i] \in 1 .. Len(c) /\ q < g[i] /\ m[a + 5 + i] = c[g[i]] /\ ~InBlock(c, g[i])
  BY FramedOrigin
<1>4. /\ \A i, j \in 1 .. a - 1 : i < j => f[i] < f[j]
      /\ \A i, j \in 1 .. Len(y) : i < j => g[i] < g[j]
  BY SMTT(30), FramedOrigin
<1>5. /\ \A i \in 1 .. a - 1 : Plain(m, 1, i) => Plain(c, 1, f[i])
      /\ \A i, j \in 1 .. a - 1 : Plain(m, i, j) => Plain(c, f[i], f[j])
  BY FramedOrigin
<1>6. /\ \A i \in 1 .. Len(y) : Plain(m, a + 6, a + 5 + i) => Plain(c, q + 1, g[i])
      /\ \A i, j \in 1 .. Len(y) : Plain(m, a + 5 + i, a + 5 + j) => Plain(c, g[i], g[j])
  BY SMTT(30), FramedOrigin
<1>7. /\ Len(c) \in Nat /\ DOMAIN c = 1 .. Len(c) /\ DOMAIN m = 1 .. Len(m)
      /\ p \in Int /\ q \in Int /\ p <= q
  BY <1>1, Doc DEF Framed
<1>8. OneHead(c) /\ OneKey(c) /\ NoClash(c)  BY ParsesIs
<1>9. /\ HasBlock(c) => q = First(c, End)
      /\ ~HasBlock(c) => y = << >> /\ ~Has(x, Table("lore"))
      /\ x \in Seq(Line) /\ m = Around(x, s, y) /\ y \in Seq(Line)
  BY DEF Framed
<1>10. ~HasBlock(c) => Len(y) = 0  BY <1>9, EmptySeq
<1>11. \A i \in 1 .. a - 1 : m[i] # Table("lore") /\ m[i] # Table("context7")
  <2> TAKE i \in 1 .. a - 1
  <2>1. m[i] # Table("context7")  BY <1>2, <1>7 DEF Separate
  <2>2. CASE HasBlock(c)  BY <1>2, <1>7, <2>1, <2>2 DEF Separate
  <2>3. CASE ~HasBlock(c)
    <3>1. i \in 1 .. Len(x) /\ DOMAIN x = 1 .. Len(x)  BY <1>1, <1>9, Doc
    <3>2. LaidOut(m, x, s, y)  BY <1>9, FramedLines
    <3>3. m[i] = x[i]  BY <3>1, <3>2 DEF LaidOut
    <3> QED  BY <1>9, <2>1, <2>3, <3>1, <3>3 DEF Has
  <2> QED  BY <2>2, <2>3
<1>12. \A i \in 1 .. Len(y) : m[a + 5 + i] # Table("lore") /\ m[a + 5 + i] # Table("context7")
  <2> TAKE i \in 1 .. Len(y)
  <2>1. HasBlock(c)  BY <1>10
  <2> QED  BY <1>3, <1>7, <2>1 DEF Separate
<1> HIDE DEF a
<1>13. \A i \in 1 .. Len(m) : \/ i \in 1 .. a - 1
                              \/ i \in a .. a + 5
                              \/ \E l \in 1 .. Len(y) : i = a + 5 + l
  <2> TAKE i \in 1 .. Len(m)
  <2>1. i > a + 5 => i - (a + 5) \in 1 .. Len(y) /\ i = a + 5 + (i - (a + 5))  BY <1>1
  <2>2. \/ i \in 1 .. a - 1
        \/ i \in a .. a + 5
        \/ i > a + 5
    BY <1>1
  <2> QED  BY <2>1, <2>2
<1>14. \A i \in a .. a + 5 : i \in {a, a + 1, a + 2, a + 3, a + 4, a + 5}  BY <1>1
<1>15. /\ ~IsHead(Start) /\ ~IsHead(End) /\ ~IsKey(Start) /\ ~IsKey(End)
       /\ \A k, v : IsKey(Key(k, v)) /\ ~IsHead(Key(k, v)) /\ Key(k, v).name = k
       /\ \A t : ~IsKey(Table(t)) /\ IsHead(Table(t)) /\ Table(t).name = t
  BY DEF IsHead, IsKey, Start, End, Key, Table
<1>16. \A i \in a .. a + 5 : /\ IsHead(m[i]) => (i = a + 1 \/ i = a + 3)
                             /\ IsKey(m[i]) => (i = a + 2 \/ i = a + 4)
  <2>1. /\ ~IsHead(m[a]) /\ ~IsHead(m[a + 2]) /\ ~IsHead(m[a + 4]) /\ ~IsHead(m[a + 5])
        /\ ~IsKey(m[a]) /\ ~IsKey(m[a + 1]) /\ ~IsKey(m[a + 3]) /\ ~IsKey(m[a + 5])
    BY <1>1, <1>15
  <2> QED  BY <1>14, <2>1
<1>17. m[a + 1] # m[a + 3]  BY <1>1, <1>15
<1>18. \A i \in 1 .. Len(m) : i \notin a .. a + 5 => m[i] # m[a + 1] /\ m[i] # m[a + 3]
  BY <1>1, <1>11, <1>12, <1>13
<1>19. OneHead(m)
  <2> SUFFICES ASSUME NEW i \in 1 .. Len(m), NEW j \in 1 .. Len(m), i # j, IsHead(m[i]), m[i] = m[j]
               PROVE  FALSE
    BY <1>7 DEF OneHead
  <2>0. IsHead(m[j])  OBVIOUS
  <2>1. CASE i \in a .. a + 5
    <3>1. i = a + 1 \/ i = a + 3  BY <1>16, <2>1
    <3>2. j \in a .. a + 5  BY <1>18, <3>1
    <3>3. j = a + 1 \/ j = a + 3  BY <1>16, <2>0, <3>2
    <3> QED  BY <1>17, <3>1, <3>3
  <2>2. CASE j \in a .. a + 5
    <3>1. j = a + 1 \/ j = a + 3  BY <1>16, <2>0, <2>2
    <3>2. i \in a .. a + 5  BY <1>18, <3>1
    <3>3. i = a + 1 \/ i = a + 3  BY <1>16, <3>2
    <3> QED  BY <1>17, <3>1, <3>3
  <2>3. CASE i \in 1 .. a - 1 /\ j \in 1 .. a - 1
    <3>1. i < j \/ j < i  OBVIOUS
    <3>2. f[i] # f[j]  BY <1>2, <1>4, <2>3, <3>1
    <3> QED  BY <1>2, <1>7, <1>8, <2>3, <3>2 DEF OneHead
  <2>4. CASE i \in 1 .. a - 1 /\ \E l \in 1 .. Len(y) : j = a + 5 + l
    <3>1. PICK l \in 1 .. Len(y) : j = a + 5 + l  BY <2>4
    <3>2. f[i] # g[l]  BY <1>2, <1>3, <1>7, <2>4
    <3>3. m[i] = c[f[i]] /\ m[j] = c[g[l]] /\ f[i] \in 1 .. Len(c) /\ g[l] \in 1 .. Len(c)
      BY <1>2, <1>3, <2>4, <3>1
    <3> QED  BY <1>7, <1>8, <3>2, <3>3 DEF OneHead
  <2>5. CASE j \in 1 .. a - 1 /\ \E l \in 1 .. Len(y) : i = a + 5 + l
    <3>1. PICK l \in 1 .. Len(y) : i = a + 5 + l  BY <2>5
    <3>2. f[j] # g[l]  BY <1>2, <1>3, <1>7, <2>5
    <3>3. m[j] = c[f[j]] /\ m[i] = c[g[l]] /\ f[j] \in 1 .. Len(c) /\ g[l] \in 1 .. Len(c)
      BY <1>2, <1>3, <2>5, <3>1
    <3> QED  BY <1>7, <1>8, <3>2, <3>3 DEF OneHead
  <2>6. CASE (\E l \in 1 .. Len(y) : i = a + 5 + l) /\ \E l \in 1 .. Len(y) : j = a + 5 + l
    <3>1. PICK l \in 1 .. Len(y) : i = a + 5 + l  BY <2>6
    <3>2. PICK k \in 1 .. Len(y) : j = a + 5 + k  BY <2>6
    <3>3. l < k \/ k < l  BY <3>1, <3>2
    <3>4. g[l] # g[k]
      <4>1. g[l] \in Int /\ g[k] \in Int  BY <1>3
      <4>2. g[l] < g[k] \/ g[k] < g[l]  BY <1>4, <3>3
      <4> QED  BY <4>1, <4>2
    <3>5. m[i] = c[g[l]] /\ m[j] = c[g[k]] /\ g[l] \in 1 .. Len(c) /\ g[k] \in 1 .. Len(c)
      BY <1>3, <3>1, <3>2
    <3> QED  BY <1>7, <1>8, <3>4, <3>5 DEF OneHead
  <2> QED  BY <1>13, <2>1, <2>2, <2>3, <2>4, <2>5, <2>6
<1>20. \A i \in 1 .. Len(m) : AtTop(m, i) => i \in 1 .. a
  <2> SUFFICES ASSUME NEW i \in 1 .. Len(m), i \notin 1 .. a, AtTop(m, i)  PROVE FALSE
    OBVIOUS
  <2>1. a + 1 \in 1 .. i  BY <1>1
  <2> QED  BY <1>1, <1>15, <2>1 DEF AtTop, Plain
<1>21. ASSUME NEW i \in 1 .. Len(m), IsKey(m[i]), AtTop(m, i)
       PROVE  /\ i \in 1 .. a - 1 /\ IsKey(c[f[i]]) /\ AtTop(c, f[i]) /\ m[i].name = c[f[i]].name
              /\ m[i].name \notin {"lore", "context7", "features.multi_agent"}
  <2>1. i \in 1 .. a  BY <1>20, <1>21
  <2>2. i # a  BY <1>1, <1>15, <1>21
  <2>3. i \in 1 .. a - 1  BY <1>1, <2>1, <2>2
  <2>4. AtTop(c, f[i])  BY <1>5, <1>21, <2>3 DEF AtTop
  <2>5. IsKey(c[f[i]]) /\ m[i].name = c[f[i]].name  BY <1>2, <1>21, <2>3
  <2>6. c[f[i]].name \notin {"lore", "context7", "features.multi_agent"}
    BY <1>2, <1>7, <2>3, <2>4, <2>5 DEF Separate
  <2> QED  BY <2>3, <2>4, <2>5, <2>6
<1>22. NoClash(m)
  <2> SUFFICES ASSUME NEW i \in 1 .. Len(m), NEW j \in 1 .. Len(m),
                      IsKey(m[i]), AtTop(m, i), IsHead(m[j])
               PROVE  m[i].name # m[j].name
    BY <1>7, <1>21 DEF NoClash
  <2>1. /\ i \in 1 .. a - 1 /\ IsKey(c[f[i]]) /\ AtTop(c, f[i]) /\ m[i].name = c[f[i]].name
        /\ m[i].name \notin {"lore", "context7", "features.multi_agent"}
    BY <1>21
  <2>2. CASE j \in a .. a + 5
    <3>1. m[j].name \in {"lore", "context7"}  BY <1>1, <1>15, <1>16, <2>2
    <3> QED  BY <2>1, <3>1
  <2>3. CASE j \in 1 .. a - 1
    <3>1. IsHead(c[f[j]]) /\ m[j] = c[f[j]] /\ f[j] \in 1 .. Len(c) /\ f[i] \in 1 .. Len(c)
      BY <1>2, <2>1, <2>3
    <3> QED  BY <1>7, <1>8, <2>1, <3>1 DEF NoClash
  <2>4. CASE \E l \in 1 .. Len(y) : j = a + 5 + l
    <3>1. PICK l \in 1 .. Len(y) : j = a + 5 + l  BY <2>4
    <3>2. IsHead(c[g[l]]) /\ m[j] = c[g[l]] /\ g[l] \in 1 .. Len(c) /\ f[i] \in 1 .. Len(c)
      BY <1>2, <1>3, <2>1, <3>1
    <3> QED  BY <1>7, <1>8, <2>1, <3>2 DEF NoClash
  <2> QED  BY <1>13, <2>2, <2>3, <2>4
<1>23. OneKey(m)
  <2> SUFFICES ASSUME NEW i \in 1 .. Len(m), NEW j \in 1 .. Len(m), i < j,
                      IsKey(m[i]), IsKey(m[j]), Plain(m, i, j), m[i].name = m[j].name
               PROVE  FALSE
    BY <1>7 DEF OneKey
  <2>0. /\ IsHead(m[a + 1]) /\ IsHead(m[a + 3])  BY <1>1, <1>15
  <2>1. ~(a + 1 \in i .. j) /\ ~(a + 3 \in i .. j)  BY <2>0 DEF Plain
  <2>2. CASE j \in 1 .. a - 1
    <3>1. i \in 1 .. a - 1  BY <1>1, <2>2
    <3>2. Plain(c, f[i], f[j]) /\ f[i] < f[j]  BY <1>4, <1>5, <2>2, <3>1
    <3>3. /\ m[j] = c[f[j]] /\ m[i] = c[f[i]] /\ f[j] \in 1 .. Len(c) /\ f[i] \in 1 .. Len(c)
      BY <1>2, <2>2, <3>1
    <3> QED  BY <1>7, <1>8, <3>2, <3>3 DEF OneKey
  <2>3. CASE j \in a .. a + 5
    <3>1. j = a + 2 \/ j = a + 4  BY <1>16, <2>3
    <3>2. i \in 1 .. a + 3  BY <1>1, <3>1
    <3>3. i \in 1 .. a - 1 \/ i \in a .. a + 5  BY <1>1, <3>2
    <3>4. i \in 1 .. a - 1 \/ i = a + 2  BY <1>1, <1>16, <3>2, <3>3
    <3>5. a + 1 \in i .. j \/ a + 3 \in i .. j  BY <1>1, <3>1, <3>4
    <3> QED  BY <2>1, <3>5
  <2>4. CASE \E l \in 1 .. Len(y) : j = a + 5 + l
    <3>1. PICK l \in 1 .. Len(y) : j = a + 5 + l  BY <2>4
    <3>2. /\ m[j] = c[g[l]] /\ g[l] \in 1 .. Len(c) /\ q < g[l] /\ ~InBlock(c, g[l])
      BY <1>3, <3>1
    <3>3. CASE \E k \in 1 .. Len(y) : i = a + 5 + k
      <4>1. PICK k \in 1 .. Len(y) : i = a + 5 + k  BY <3>3
      <4>2. Plain(c, g[k], g[l])  BY <1>6, <3>1, <4>1
      <4>3. k < l  BY <1>1, <3>1, <4>1
      <4>4. g[k] < g[l]  BY <1>4, <4>3
      <4>5. m[i] = c[g[k]] /\ g[k] \in 1 .. Len(c)  BY <1>3, <4>1
      <4> QED  BY <1>7, <1>8, <3>2, <4>2, <4>4, <4>5 DEF OneKey
    <3>4. CASE i \in 1 .. a - 1
      <4>1. a + 1 \in i .. j  BY <1>1, <3>1, <3>4
      <4> QED  BY <2>1, <4>1
    <3>5. CASE i \in a .. a + 5
      <4>1. i = a + 2 \/ i = a + 4  BY <1>16, <3>5
      <4>2. i = a + 4  BY <1>1, <2>1, <3>1, <4>1
      <4>3. m[j].name = "url"  BY <1>1, <1>15, <4>2
      <4>4. Plain(m, a + 6, j)
        <5>1. \A k \in a + 6 .. j : k \in i .. j  BY <1>1, <4>2
        <5> QED  BY <5>1 DEF Plain
      <4>5. Plain(c, q + 1, g[l])  BY <1>6, <3>1, <4>4
      <4>6. HasBlock(c)  BY <1>10
      <4>7. /\ g[l] \in DOMAIN c /\ g[l] > First(c, End) /\ IsKey(c[g[l]])
            /\ Plain(c, First(c, End) + 1, g[l])
        BY <1>7, <1>9, <3>2, <4>5, <4>6
      <4>8. c[g[l]].name # "url"  BY <3>2, <4>6, <4>7 DEF Separate
      <4> QED  BY <3>2, <4>3, <4>8
    <3> QED  BY <1>13, <3>3, <3>4, <3>5
  <2> QED  BY <1>13, <2>2, <2>3, <2>4
<1> QED  BY <1>19, <1>21, <1>22, <1>23, ParsesIs

-----------------------------------------------------------------------------
(* What a document says.                                                    *)

\* What it means that a key has a value.
LEMMA ValueOf ==
  ASSUME NEW c \in Seq(Line), NEW t, NEW k, NEW v
  PROVE  v \in ValueIn(c, t, k) <=>
           \E i \in 1 .. Len(c) : IsKey(c[i]) /\ c[i].name = k /\ InTable(c, i, t) /\ v = c[i].value
<1>1. DOMAIN c = 1 .. Len(c)  BY Doc
<1> QED  BY <1>1 DEF ValueIn

\* Filling one table leaves the values of another.
LEMMA FilledValues ==
  ASSUME NEW b \in Seq(Line), NEW t \in Runtime, NEW r, NEW force, NEW h, NEW e, NEW k,
         Filled(b, r, t, force, h, e, k), NEW u, u # t, NEW n
  PROVE  ValueIn(r, u, n) = ValueIn(b, u, n)
<1>1. /\ r \in Seq(Line) /\ Len(b) \in Nat /\ k \in Nat
      /\ h \in 1 .. Len(b) /\ e \in h + 1 .. Len(b) + 1 /\ LastTable(b, t, h, e)
  BY Doc DEF Filled
<1>2. ASSUME NEW i \in 1 .. Len(b), InTable(b, i, u)  PROVE r[Move(i, e, k)] = b[i]
  <2> SUFFICES ASSUME r[Move(i, e, k)] # b[i] PROVE FALSE  OBVIOUS
  <2>1. i \in h + 1 .. e - 1  BY Filling
  <2>2. h \in 1 .. i /\ h + 1 .. i \subseteq h + 1 .. e - 1  BY <1>1, <2>1
  <2>3. b[h] = Table(t) /\ Plain(b, h + 1, i)  BY <1>1, <2>2 DEF LastTable, Plain
  <2>4. InTable(b, i, t)  BY <2>2, <2>3 DEF InTable
  <2> QED  BY <1>2, <2>4, OneTable
<1>3. ASSUME NEW v \in ValueIn(b, u, n)  PROVE v \in ValueIn(r, u, n)
  <2>1. PICK i \in 1 .. Len(b) : IsKey(b[i]) /\ b[i].name = n /\ InTable(b, i, u) /\ v = b[i].value
    BY ValueOf
  <2>2. r[Move(i, e, k)] = b[i] /\ Move(i, e, k) \in 1 .. Len(r)  BY <1>2, <2>1, Filling
  <2>3. InTable(r, Move(i, e, k), u)  BY <2>1, TablesMoved
  <2> QED  BY <1>1, <2>1, <2>2, <2>3, ValueOf
<1>4. ASSUME NEW v \in ValueIn(r, u, n)  PROVE v \in ValueIn(b, u, n)
  <2>1. PICK j \in 1 .. Len(r) : IsKey(r[j]) /\ r[j].name = n /\ InTable(r, j, u) /\ v = r[j].value
    BY <1>1, ValueOf
  <2>2. j \notin e .. e + k - 1
    <3> SUFFICES ASSUME j \in e .. e + k - 1 PROVE FALSE  OBVIOUS
    <3>1. j \in h .. e + k - 1  BY <1>1
    <3> QED  BY <2>1, <3>1, TablesMoved
  <2>3. PICK i \in 1 .. Len(b) : j = Move(i, e, k)  BY <2>2, Filling
  <2>4. InTable(b, i, u)  BY <2>1, <2>3, TablesMoved
  <2>5. r[j] = b[i]  BY <1>2, <2>3, <2>4
  <2> QED  BY <2>1, <2>4, <2>5, ValueOf
<1> QED  BY <1>3, <1>4

\* Appending a header leaves the values of other tables.
LEMMA BasedValues ==
  ASSUME NEW c \in Seq(Line), NEW t \in Runtime, NEW b \in Seq(Line), Based(b, c, t),
         NEW u, u # t, NEW n
  PROVE  ValueIn(b, u, n) = ValueIn(c, u, n)
<1>1. CASE Has(c, Table(t))  BY <1>1 DEF Based
<1>2. CASE ~Has(c, Table(t))
  <2>1. b = c \o << Table(t) >>  BY <1>2 DEF Based
  <2>2. /\ Len(b) = Len(c) + 1 /\ b[Len(c) + 1] = Table(t)
        /\ \A i \in 1 .. Len(c) : b[i] = c[i]
    BY <1>2, <2>1, BasedLines
  <2>3. Len(c) \in Nat  BY Doc
  <2>4. ~IsKey(b[Len(c) + 1])
    <3>1. ~IsKey(Table(t))  BY DEF IsKey, Table
    <3> QED  BY <2>2, <3>1
  <2>5. \A i \in 1 .. Len(c) : InTable(b, i, u) <=> InTable(c, i, u)
    <3> TAKE i \in 1 .. Len(c)
    <3>1. \A k \in 1 .. i : b[k] = c[k]  BY <2>2, <2>3
    <3>2. \A k \in 1 .. i : Plain(b, k + 1, i) <=> Plain(c, k + 1, i)
      <4> TAKE k \in 1 .. i
      <4>1. \A l \in k + 1 .. i : l \in 1 .. i  BY <2>3
      <4> QED  BY <3>1, <4>1 DEF Plain
    <3> QED  BY <3>1, <3>2 DEF InTable
  <2>6. \A i \in 1 .. Len(b) : IsKey(b[i]) => i \in 1 .. Len(c)  BY <2>2, <2>3, <2>4
  <2>7. \A i \in 1 .. Len(c) : i \in 1 .. Len(b)  BY <2>2, <2>3
  <2>8. ASSUME NEW v  PROVE v \in ValueIn(b, u, n) <=> v \in ValueIn(c, u, n)
    BY <2>2, <2>5, <2>6, <2>7, ValueOf
  <2> QED  BY <2>8
<1> QED  BY <1>1, <1>2

\* The merge of a table: it parses, says what is wanted, and no more.
LEMMA MergedParses ==
  ASSUME NEW c \in Seq(Line), NEW t \in Runtime, NEW force \in BOOLEAN,
         MergeTable(c, t, force) # Refused, Parses(c),
         t = "features" => \A i \in 1 .. Len(c) : IsKey(c[i]) /\ AtTop(c, i) =>
                                                    c[i].name # "features.multi_agent"
  PROVE  LET r == MergeTable(c, t, force)
         IN  /\ Parses(r)
             /\ \A u, n : u # t => ValueIn(r, u, n) = ValueIn(c, u, n)
             /\ \A n \in DOMAIN Wanted(t) :
                  /\ ValueIn(r, t, Wanted(t)[n].name) # {}
                  /\ force => ValueIn(r, t, Wanted(t)[n].name) = {Wanted(t)[n].value}
<1> DEFINE r == MergeTable(c, t, force)
<1>1. PICK b, h, e, k : Based(b, c, t) /\ b \in Seq(Line) /\ Filled(b, r, t, force, h, e, k)
  BY MergedTable
<1>2. \A i \in 1 .. Len(c) : IsKey(c[i]) => c[i].name # t  BY MergedTable
<1> HIDE DEF r
<1>3. Parses(b)  BY <1>1, <1>2, BasedParses
<1>4. Parses(r)  BY <1>1, <1>3, FilledParses
<1>5. \A u, n : u # t => ValueIn(r, u, n) = ValueIn(c, u, n)
  <2> TAKE u, n
  <2> HAVE u # t
  <2>1. ValueIn(r, u, n) = ValueIn(b, u, n)  BY <1>1, FilledValues
  <2>2. ValueIn(b, u, n) = ValueIn(c, u, n)  BY <1>1, BasedValues
  <2> QED  BY <2>1, <2>2
<1>6. /\ r \in Seq(Line) /\ Len(b) \in Nat /\ k \in Nat /\ Len(r) \in Nat
      /\ e \in Int /\ h \in Int
  <2>1. /\ r \in Seq(Line) /\ k \in Nat /\ h \in 1 .. Len(b) /\ e \in h + 1 .. Len(b) + 1
    BY <1>1 DEF Filled
  <2> QED  BY <1>1, <2>1, Doc
<1>7. DOMAIN r = 1 .. Len(r)  BY <1>6, Doc
<1>8. /\ h \in 1 .. Len(r) /\ e + k \in h + 1 .. Len(r) + 1
      /\ r[h] = Table(t) /\ LastTable(r, t, h, e + k)
  BY <1>1, Region
<1>9. ASSUME NEW n \in DOMAIN Wanted(t)  PROVE ValueIn(r, t, Wanted(t)[n].name) # {}
  <2>1. Sets(r, h + 1, e + k - 1, Wanted(t)[n])  BY <1>1 DEF Filled
  <2>2. PICK j \in h + 1 .. e + k - 1 : IsKey(r[j]) /\ r[j].name = Wanted(t)[n].name
    BY <2>1 DEF Sets
  <2>3. j \in 1 .. Len(r) /\ j \in h .. e + k - 1  BY <1>6, <1>8
  <2>4. InTable(r, j, t)  BY <1>1, <2>3, TablesMoved
  <2>5. r[j].value \in ValueIn(r, t, Wanted(t)[n].name)  BY <1>6, <2>2, <2>3, <2>4, ValueOf
  <2> QED  BY <2>5
<1>10. ASSUME force, NEW n \in DOMAIN Wanted(t), NEW v \in ValueIn(r, t, Wanted(t)[n].name)
       PROVE  v = Wanted(t)[n].value
  <2>1. PICK j \in 1 .. Len(r) : /\ IsKey(r[j]) /\ r[j].name = Wanted(t)[n].name
                                 /\ InTable(r, j, t) /\ v = r[j].value
    BY <1>6, ValueOf
  <2>2. PICK g \in 1 .. j : r[g] = Table(t) /\ Plain(r, g + 1, j)  BY <2>1 DEF InTable
  <2>3. g = h
    <3>1. IsHead(r[g]) /\ g \in DOMAIN r /\ h \in DOMAIN r
      BY <1>6, <1>7, <1>8, <2>2, HeadIsTable
    <3>2. OneHead(r)  BY <1>4, ParsesIs
    <3> QED  BY <1>8, <2>2, <3>1, <3>2 DEF OneHead
  <2>4. j # h
    <3>1. ~IsKey(Table(t))  BY DEF IsKey, Table
    <3> QED  BY <1>8, <2>1, <3>1
  <2>5. ~(e + k <= j)
    <3> SUFFICES ASSUME e + k <= j PROVE FALSE  OBVIOUS
    <3>1. e + k \in DOMAIN r /\ e + k \in g + 1 .. j  BY <1>6, <1>7, <1>8, <2>3
    <3> QED  BY <1>8, <2>2, <3>1 DEF LastTable, Plain
  <2>6. j \in h + 1 .. e + k - 1  BY <1>6, <1>8, <2>2, <2>3, <2>4, <2>5
  <2>7. r[j] = Wanted(t)[n]  BY <1>1, <1>10, <2>1, <2>6 DEF Filled
  <2> QED  BY <2>1, <2>7
<1>11. \A n \in DOMAIN Wanted(t) :
         /\ ValueIn(r, t, Wanted(t)[n].name) # {}
         /\ force => ValueIn(r, t, Wanted(t)[n].name) = {Wanted(t)[n].value}
  BY <1>9, <1>10
<1> QED  BY <1>4, <1>5, <1>11 DEF r

\* The one url of lore is that of the block.
LEMMA FramedValue ==
  ASSUME NEW c \in Seq(Line), NEW s \in Words, NEW m, NEW p, NEW q, NEW x, NEW y, NEW f, NEW g,
         Framed(c, s, m, p, q, x, y, f, g), Parses(c), Separate(c)
  PROVE  ValueIn(m, "lore", "url") = {s}
<1> DEFINE a == Len(x) + 1
<1>1. /\ a \in Nat \ {0} /\ Len(y) \in Nat /\ m \in Seq(Line) /\ Len(m) = a + 5 + Len(y)
      /\ m[a + 1] = Table("lore") /\ m[a + 2] = Key("url", s) /\ m[a + 3] = Table("context7")
  BY FramedOrigin
<1> HIDE DEF a
<1>2. OneHead(m) /\ DOMAIN m = 1 .. Len(m)  BY <1>1, FramedParses, ParsesIs, Doc
<1>3. /\ \A t : IsHead(Table(t)) /\ ~IsKey(Table(t))
      /\ IsKey(Key("url", s)) /\ ~IsHead(Key("url", s))
      /\ Key("url", s).name = "url" /\ Key("url", s).value = s
  BY DEF IsHead, IsKey, Table, Key
<1>4. ASSUME NEW v \in ValueIn(m, "lore", "url")  PROVE v = s
  <2>1. PICK j \in 1 .. Len(m) : /\ IsKey(m[j]) /\ m[j].name = "url"
                                 /\ InTable(m, j, "lore") /\ v = m[j].value
    BY SMTT(30), <1>1, ValueOf
  <2>2. PICK h \in 1 .. j : m[h] = Table("lore") /\ Plain(m, h + 1, j)  BY <2>1 DEF InTable
  <2>3. h = a + 1
    <3>1. h \in DOMAIN m /\ a + 1 \in DOMAIN m /\ IsHead(m[h])  BY <1>1, <1>2, <1>3, <2>2
    <3> QED  BY <1>1, <1>2, <2>2, <3>1 DEF OneHead
  <2>4. j # a + 1  BY <1>1, <1>3, <2>1
  <2>5. ~(a + 3 <= j)
    <3> SUFFICES ASSUME a + 3 <= j PROVE FALSE  OBVIOUS
    <3>1. a + 3 \in h + 1 .. j  BY <1>1, <2>3
    <3> QED  BY <1>1, <1>3, <2>2, <3>1 DEF Plain
  <2>6. j = a + 2  BY <1>1, <2>2, <2>3, <2>4, <2>5
  <2> QED  BY <1>1, <1>3, <2>1, <2>6
<1>5. s \in ValueIn(m, "lore", "url")
  <2>1. a + 2 \in 1 .. Len(m) /\ a + 1 \in 1 .. a + 2  BY <1>1
  <2>2. \A k \in (a + 1) + 1 .. a + 2 : k = a + 2  BY <1>1
  <2>3. Plain(m, (a + 1) + 1, a + 2)  BY <1>1, <1>3, <2>2 DEF Plain
  <2>4. InTable(m, a + 2, "lore")  BY <1>1, <2>1, <2>3 DEF InTable
  <2> QED  BY <1>1, <1>3, <2>1, <2>4, ValueOf
<1> QED  BY <1>4, <1>5

\* All three merges in turn: the document parses and says what was asked for.
LEMMA MergeSays ==
  ASSUME NEW c \in Seq(Line), NEW l \in BOOLEAN, NEW s \in Words, Merge(c, l, s) # Refused,
         Parses(c), Separate(c)
  PROVE  LET r == Merge(c, l, s)
         IN  /\ Parses(r)
             /\ ValueIn(r, "lore", "url") = {s}
             /\ ValueIn(r, "features", "multi_agent") = {"true"}
             /\ ValueIn(r, "agents", "max_threads") # {}
             /\ ValueIn(r, "agents", "max_depth") # {}
<1> DEFINE m == Blocked(c, l, s)
           n == Featured(c, l, s)
           r == Merge(c, l, s)
<1>1. /\ m # Refused /\ m \in Seq(Line) /\ n # Refused /\ n \in Seq(Line)
      /\ r = MergeTable(n, "agents", FALSE) /\ Owned(c, l) \in BOOLEAN
  BY MergeParts
<1>2. n = MergeTable(m, "features", TRUE)  BY DEF Featured
<1>3. PICK p, q, x, y, f, g : Framed(c, s, m, p, q, x, y, f, g)
  BY <1>1, BlockIsFramed DEF Blocked
<1>4. r # Refused  OBVIOUS
<1> HIDE DEF m, n, r
<1>5. /\ Parses(m) /\ ValueIn(m, "lore", "url") = {s}
      /\ \A i \in 1 .. Len(m) : IsKey(m[i]) /\ AtTop(m, i) => m[i].name # "features.multi_agent"
  BY <1>3, FramedParses, FramedValue
<1>6. /\ "features" \in Runtime /\ "agents" \in Runtime /\ TRUE \in BOOLEAN /\ FALSE \in BOOLEAN
      /\ "features" # "agents" /\ "lore" # "features" /\ "lore" # "agents"
  BY DEF Runtime
<1>7. /\ DOMAIN Wanted("features") = {1} /\ Wanted("features")[1] = Key("multi_agent", "true")
      /\ DOMAIN Wanted("agents") = {1, 2} /\ Wanted("agents")[1] = Key("max_threads", "4")
      /\ Wanted("agents")[2] = Key("max_depth", "2")
  <2>1. Wanted("features") = << Key("multi_agent", "true") >>  BY DEF Wanted
  <2>2. Wanted("agents") = << Key("max_threads", "4"), Key("max_depth", "2") >>  BY DEF Wanted
  <2>3. 1 .. 1 = {1} /\ 1 .. 2 = {1, 2}  OBVIOUS
  <2> QED  BY <2>1, <2>2, <2>3
<1>8. /\ Parses(n)
      /\ \A u, k : u # "features" => ValueIn(n, u, k) = ValueIn(m, u, k)
      /\ \A k \in DOMAIN Wanted("features") :
           ValueIn(n, "features", Wanted("features")[k].name) = {Wanted("features")[k].value}
  <2> DEFINE z == MergeTable(m, "features", TRUE)
  <2>1. z # Refused  BY <1>1, <1>2
  <2>2. /\ Parses(z)
        /\ \A u, k : u # "features" => ValueIn(z, u, k) = ValueIn(m, u, k)
        /\ \A k \in DOMAIN Wanted("features") :
             /\ ValueIn(z, "features", Wanted("features")[k].name) # {}
             /\ TRUE => ValueIn(z, "features", Wanted("features")[k].name)
                          = {Wanted("features")[k].value}
    BY <1>1, <1>5, <1>6, <2>1, MergedParses
  <2>3. n = z  BY <1>2
  <2> HIDE DEF z
  <2> QED  BY <2>2, <2>3
<1>9. /\ Parses(r)
      /\ \A u, k : u # "agents" => ValueIn(r, u, k) = ValueIn(n, u, k)
      /\ \A k \in DOMAIN Wanted("agents") : ValueIn(r, "agents", Wanted("agents")[k].name) # {}
  <2> DEFINE z == MergeTable(n, "agents", FALSE)
  <2>1. z # Refused  BY <1>1, <1>4
  <2>2. /\ Parses(z)
        /\ \A u, k : u # "agents" => ValueIn(z, u, k) = ValueIn(n, u, k)
        /\ \A k \in DOMAIN Wanted("agents") :
             /\ ValueIn(z, "agents", Wanted("agents")[k].name) # {}
             /\ FALSE => ValueIn(z, "agents", Wanted("agents")[k].name)
                           = {Wanted("agents")[k].value}
    BY <1>1, <1>6, <1>8, <2>1, MergedParses
  <2>3. r = z  BY <1>1
  <2> HIDE DEF z
  <2> QED  BY <2>2, <2>3
<1>10. /\ Key("multi_agent", "true").name = "multi_agent" /\ Key("multi_agent", "true").value = "true"
       /\ Key("max_threads", "4").name = "max_threads" /\ Key("max_depth", "2").name = "max_depth"
  BY DEF Key
<1>11. ValueIn(r, "lore", "url") = {s}  BY <1>5, <1>6, <1>8, <1>9
<1>12. ValueIn(r, "features", "multi_agent") = {"true"}
  <2>1. 1 \in DOMAIN Wanted("features")  BY <1>7
  <2>2. ValueIn(n, "features", "multi_agent") = {"true"}  BY <1>7, <1>8, <1>10, <2>1
  <2>3. ValueIn(r, "features", "multi_agent") = ValueIn(n, "features", "multi_agent")
    BY <1>6, <1>9
  <2> QED  BY <2>2, <2>3
<1>13. ValueIn(r, "agents", "max_threads") # {} /\ ValueIn(r, "agents", "max_depth") # {}
  BY <1>7, <1>9, <1>10
<1> QED  BY <1>9, <1>11, <1>12, <1>13 DEF r

\* A document that parses and is separate from the block parses after every
\* install (mergeCodexConfigToml).
THEOREM ParseableStays == Spec => StaysParseable
<1>1. ASSUME TypeOK, [Next]_vars
      PROVE  [(Merges /\ Parses(config) /\ Separate(config)) => Parses(config')]_vars
  <2> SUFFICES ASSUME Merges, Parses(config), Separate(config), ~UNCHANGED vars
               PROVE  Parses(config')
    OBVIOUS
  <2>1. Install /\ last' = "ok"  BY <1>1, InstallsMerge DEF Merges
  <2>2. config' = Merge(config, listed, server) /\ Merge(config, listed, server) # Refused
    BY <2>1 DEF Install
  <2>3. config \in Seq(Line) /\ listed \in BOOLEAN /\ server \in Words
    BY <1>1, DocumentsAreLines DEF TypeOK
  <2>4. Parses(Merge(config, listed, server))  BY <2>2, <2>3, MergeSays
  <2> QED  BY <2>2, <2>4
<1>2. Spec => []TypeOK  BY CodexTypeOK
<1> QED  BY <1>1, <1>2, PTL DEF Spec, StaysParseable

\* After every install the document says what the projection promises: the server
\* of the login, multi_agent on, both limits (mergeCodexRuntimeTable).
THEOREM ProjectionHolds == Spec => Projected
<1> DEFINE Says ==
      (Merges /\ Parses(config) /\ Separate(config)) =>
        /\ ValueIn(config', "lore", "url") = {server}
        /\ ValueIn(config', "features", "multi_agent") = {"true"}
        /\ ValueIn(config', "agents", "max_threads") # {}
        /\ ValueIn(config', "agents", "max_depth") # {}
<1>1. ASSUME TypeOK, [Next]_vars  PROVE [Says]_vars
  <2> SUFFICES ASSUME Merges, Parses(config), Separate(config), ~UNCHANGED vars
               PROVE  /\ ValueIn(config', "lore", "url") = {server}
                      /\ ValueIn(config', "features", "multi_agent") = {"true"}
                      /\ ValueIn(config', "agents", "max_threads") # {}
                      /\ ValueIn(config', "agents", "max_depth") # {}
    OBVIOUS
  <2>1. Install /\ last' = "ok"  BY <1>1, InstallsMerge DEF Merges
  <2> DEFINE r == Merge(config, listed, server)
  <2>2. config' = r /\ r # Refused  BY <2>1 DEF Install
  <2>3. config \in Seq(Line) /\ listed \in BOOLEAN /\ server \in Words
    BY <1>1, DocumentsAreLines DEF TypeOK
  <2>4. /\ ValueIn(r, "lore", "url") = {server}
        /\ ValueIn(r, "features", "multi_agent") = {"true"}
        /\ ValueIn(r, "agents", "max_threads") # {}
        /\ ValueIn(r, "agents", "max_depth") # {}
    BY <2>2, <2>3, MergeSays
  <2> HIDE DEF r
  <2> QED  BY <2>2, <2>4
<1>2. Spec => []TypeOK  BY CodexTypeOK
<1> QED  BY <1>1, <1>2, PTL DEF Spec, Projected

-----------------------------------------------------------------------------
(* A table that needs no merge, and one that another merge leaves alone.    *)

\* The last table t of c stands from h to before e and says what is wanted.
Holds(c, t, force, h, e) ==
  /\ LastTable(c, t, h, e)
  /\ \A n \in DOMAIN Wanted(t) : Sets(c, h + 1, e - 1, Wanted(t)[n])
  /\ force => \A j \in h + 1 .. e - 1 : IsKey(c[j]) =>
       \A n \in DOMAIN Wanted(t) : Wanted(t)[n].name = c[j].name => c[j] = Wanted(t)[n]

Done(c, t, force) ==
  /\ \A i \in 1 .. Len(c) : IsKey(c[i]) => c[i].name # t
  /\ \E h \in 1 .. Len(c) : \E e \in h + 1 .. Len(c) + 1 : Holds(c, t, force, h, e)

\* Merging a table that says what is wanted changes nothing.
LEMMA DoneStays ==
  ASSUME NEW c \in Seq(Line), NEW t \in Runtime, NEW force \in BOOLEAN, Done(c, t, force)
  PROVE  MergeTable(c, t, force) = c
<1>1. Len(c) \in Nat  BY Doc
<1>2. PICK h \in 1 .. Len(c) : \E e \in h + 1 .. Len(c) + 1 : Holds(c, t, force, h, e)
  BY DEF Done
<1>3. PICK e \in h + 1 .. Len(c) + 1 : Holds(c, t, force, h, e)  BY <1>2
<1>4. \A i \in 1 .. Len(c) : IsKey(c[i]) => c[i].name # t  BY DEF Done
<1> DEFINE v == Missing(c, h + 1, e - 1, t)
           d == IF force THEN Forced(c, h + 1, e - 1, t) ELSE c
<1>5. MergeTable(c, t, force) = Insert(d, e, v)
  <2>1. LastTable(c, t, h, e)  BY <1>3 DEF Holds
  <2> QED  BY <1>4, <2>1, MergeOfTable
<1>6. v = << >>
  <2>1. /\ v \in Seq(Line)
        /\ \A n \in 1 .. Len(v) : \E k \in DOMAIN Wanted(t) :
             v[n] = Wanted(t)[k] /\ ~Sets(c, h + 1, e - 1, Wanted(t)[k])
    BY MissingLines
  <2>2. \A n \in DOMAIN Wanted(t) : Sets(c, h + 1, e - 1, Wanted(t)[n])  BY <1>3 DEF Holds
  <2> HIDE DEF v
  <2>3. Len(v) \in Nat /\ \A n \in 1 .. Len(v) : FALSE  BY <2>1, <2>2, Doc
  <2>4. Len(v) = 0
    <3> SUFFICES ASSUME Len(v) # 0 PROVE FALSE  OBVIOUS
    <3>1. 1 \in 1 .. Len(v)  BY <2>3
    <3> QED  BY <2>3, <3>1
  <2> QED  BY <2>1, <2>4, EmptySeq
<1>7. d = c
  <2>1. CASE force
    <3>1. \A k \in 1 .. Len(c) : k \in h + 1 .. e - 1 /\ IsKey(c[k]) =>
            \A n \in DOMAIN Wanted(t) : Wanted(t)[n].name = c[k].name => c[k] = Wanted(t)[n]
      BY <1>3, <2>1 DEF Holds
    <3>2. Forced(c, h + 1, e - 1, t) = c  BY <3>1, NothingForced
    <3> QED  BY <2>1, <3>2
  <2>2. CASE ~force  BY <2>2
  <2> QED  BY <2>1, <2>2
<1> HIDE DEF d, v
<1>8. e \in 1 .. Len(c) + 1  BY <1>1
<1> QED  BY <1>5, <1>6, <1>7, <1>8, NothingInserted

\* A merged table says what is wanted.
LEMMA FilledDone ==
  ASSUME NEW b \in Seq(Line), NEW t \in Runtime, NEW r, NEW force, NEW h, NEW e, NEW k,
         Filled(b, r, t, force, h, e, k)
  PROVE  Done(r, t, force)
<1>1. /\ r \in Seq(Line) /\ Len(b) \in Nat /\ k \in Nat
      /\ h \in 1 .. Len(b) /\ e \in h + 1 .. Len(b) + 1
      /\ \A i \in 1 .. Len(b) : IsKey(b[i]) => b[i].name # t
  BY Doc DEF Filled
<1>2. ASSUME NEW j \in 1 .. Len(r), IsKey(r[j])  PROVE r[j].name # t
  <2>1. CASE j \in e .. e + k - 1
    <3>1. \E n \in DOMAIN Wanted(t) : r[j] = Wanted(t)[n]  BY <2>1 DEF Filled
    <3> QED  BY <3>1, WantedNames DEF Runtime
  <2>2. CASE \E i \in 1 .. Len(b) : j = Move(i, e, k)
    <3>1. PICK i \in 1 .. Len(b) : j = Move(i, e, k)  BY <2>2
    <3>2. IsKey(b[i]) /\ r[j].name = b[i].name  BY <1>2, <3>1, Heads, Filling
    <3> QED  BY <1>1, <3>2
  <2> QED  BY <2>1, <2>2, Filling
<1>3. /\ h \in 1 .. Len(r) /\ e + k \in h + 1 .. Len(r) + 1 /\ LastTable(r, t, h, e + k)
  BY Region
<1>4. e + k - 1 = (e + k) - 1  BY <1>1
<1>5. \A n \in DOMAIN Wanted(t) : Sets(r, h + 1, e + k - 1, Wanted(t)[n])  BY DEF Filled
<1>6. force => \A j \in h + 1 .. e + k - 1 : IsKey(r[j]) =>
        \A n \in DOMAIN Wanted(t) : Wanted(t)[n].name = r[j].name => r[j] = Wanted(t)[n]
  BY DEF Filled
<1>7. Holds(r, t, force, h, e + k)
  <2> DEFINE z == e + k - 1
  <2>1. z = (e + k) - 1  BY <1>4
  <2>2. \A n \in DOMAIN Wanted(t) : Sets(r, h + 1, z, Wanted(t)[n])  BY <1>5
  <2>3. force => \A j \in h + 1 .. z : IsKey(r[j]) =>
          \A n \in DOMAIN Wanted(t) : Wanted(t)[n].name = r[j].name => r[j] = Wanted(t)[n]
    BY <1>6
  <2> HIDE DEF z
  <2> QED  BY <1>3, <2>1, <2>2, <2>3 DEF Holds
<1> QED  BY <1>2, <1>3, <1>7 DEF Done

\* The last table u, from g to before d, is found z lines further on in r,
\* where k lines were put before line e.
MovedBy(b, r, u, g, d, e, k, z) ==
  /\ z \in Nat /\ ((z = k /\ e <= g) \/ (z = 0 /\ d < e))
  /\ g + z \in 1 .. Len(r) /\ d + z \in (g + z) + 1 .. Len(r) + 1
  /\ LastTable(r, u, g + z, d + z)
  /\ \A i \in g .. d - 1 : r[i + z] = b[i]

\* A table u is moved as a whole by the merge of another table.
LEMMA Untouched ==
  ASSUME NEW b \in Seq(Line), NEW t \in Runtime, NEW r, NEW force, NEW h, NEW e, NEW k,
         Filled(b, r, t, force, h, e, k),
         NEW u, u # t, NEW g \in 1 .. Len(b), NEW d \in g + 1 .. Len(b) + 1, LastTable(b, u, g, d)
  PROVE  \E z : MovedBy(b, r, u, g, d, e, k, z)
<1>1. /\ r \in Seq(Line) /\ Len(b) \in Nat /\ k \in Nat /\ Len(r) = Len(b) + k
      /\ h \in 1 .. Len(b) /\ e \in h + 1 .. Len(b) + 1 /\ LastTable(b, t, h, e)
  BY Doc DEF Filled
<1>2. DOMAIN b = 1 .. Len(b) /\ DOMAIN r = 1 .. Len(r)  BY <1>1, Doc
<1>3. /\ b[h] = Table(t) /\ b[g] = Table(u) /\ IsHead(b[h]) /\ IsHead(b[g]) /\ b[h] # b[g]
  BY <1>1, HeadIsTable DEF LastTable
<1>4. e \in 1 .. Len(b) => IsHead(b[e])  BY <1>1, <1>2 DEF LastTable
<1>5. d \in 1 .. Len(b) => IsHead(b[d])  BY <1>2 DEF LastTable
<1>6. \A i \in h + 1 .. e - 1 : ~IsHead(b[i])  BY <1>1 DEF LastTable, Plain
<1>7. \A i \in g + 1 .. d - 1 : ~IsHead(b[i])  BY DEF LastTable, Plain
<1>8. e <= g \/ d < e
  <2> SUFFICES ASSUME g < e, e <= d PROVE FALSE  BY <1>1
  <2>1. CASE e < d
    <3>1. e \in g + 1 .. d - 1 /\ e \in 1 .. Len(b)  BY <1>1, <2>1
    <3> QED  BY <1>4, <1>7, <3>1
  <2>2. CASE e = d
    <3>1. h # g  BY <1>3
    <3>2. CASE h < g
      <4>1. g \in h + 1 .. e - 1  BY <1>1, <3>2
      <4> QED  BY <1>3, <1>6, <4>1
    <3>3. CASE g < h
      <4>1. h \in g + 1 .. d - 1  BY <1>1, <2>2, <3>3
      <4> QED  BY <1>3, <1>7, <4>1
    <3> QED  BY <1>1, <3>1, <3>2, <3>3
  <2> QED  BY <1>1, <2>1, <2>2
<1> DEFINE z == IF e <= g THEN k ELSE 0
<1>9. z \in Nat /\ ((z = k /\ e <= g) \/ (z = 0 /\ d < e))  BY <1>1, <1>8
<1>10. d < e => d <= h
  <2> SUFFICES ASSUME d < e, ~(d <= h) PROVE FALSE  OBVIOUS
  <2>1. d \in h + 1 .. e - 1 /\ d \in 1 .. Len(b)  BY <1>1
  <2> QED  BY <1>5, <1>6, <2>1
<1> HIDE DEF z
<1>11. \A i \in 1 .. Len(b) : i \in g .. d => Move(i, e, k) = i + z
  BY <1>1, <1>9 DEF Move
<1>12. ASSUME NEW i \in g .. d - 1  PROVE r[i + z] = b[i]
  <2>1. i \in 1 .. Len(b) /\ Move(i, e, k) = i + z  BY <1>1, <1>11
  <2>2. i \notin h + 1 .. e - 1  BY <1>1, <1>9, <1>10
  <2> QED  BY <2>1, <2>2, Filling
<1>13. g + z \in 1 .. Len(r) /\ d + z \in (g + z) + 1 .. Len(r) + 1  BY <1>1, <1>9
<1>14. LastTable(r, u, g + z, d + z)
  <2>1. r[g + z] = Table(u)
    <3>1. g \in g .. d - 1  BY <1>1
    <3> QED  BY <1>3, <1>12, <3>1
  <2>2. ASSUME NEW j \in (g + z) + 1 .. Len(r), r[j] = Table(u)  PROVE FALSE
    <3>1. j \in 1 .. Len(r) /\ IsHead(r[j])  BY <1>1, <1>9, <2>2, HeadIsTable
    <3>2. PICK l \in 1 .. Len(b) : j = Move(l, e, k) /\ r[j] = b[l]  BY <3>1, Heads
    <3>3. l \in g + 1 .. Len(b)  BY SMTT(30), <1>1, <1>9, <3>2 DEF Move
    <3> QED  BY <2>2, <3>2, <3>3 DEF LastTable
  <2>3. ASSUME NEW j \in (g + z) + 1 .. (d + z) - 1  PROVE ~IsHead(r[j])
    <3>1. j - z \in g .. d - 1 /\ j - z \in g + 1 .. d - 1 /\ (j - z) + z = j  BY <1>1, <1>9
    <3>2. r[(j - z) + z] = b[j - z]  BY <1>12, <3>1
    <3> QED  BY <1>7, <3>1, <3>2
  <2>4. ASSUME d + z \in DOMAIN r  PROVE IsHead(r[d + z])
    <3>1. d \in 1 .. Len(b) /\ d \in g .. d  BY <1>1, <1>2, <1>9, <2>4
    <3>2. Move(d, e, k) = d + z  BY <1>11, <3>1
    <3> QED  BY <1>5, <3>1, <3>2, Heads
  <2>5. \A j \in (g + z) + 1 .. Len(r) : r[j] # Table(u)  BY <2>2
  <2>6. Plain(r, (g + z) + 1, (d + z) - 1)  BY <2>3 DEF Plain
  <2>7. d + z \in DOMAIN r => IsHead(r[d + z])  BY <2>4
  <2> QED  BY <2>1, <2>5, <2>6, <2>7 DEF LastTable
<1> QED  BY <1>9, <1>12, <1>13, <1>14 DEF MovedBy

\* The header that a merge appends comes after all that was there.
LEMMA BasedTables ==
  ASSUME NEW c \in Seq(Line), NEW t \in Runtime, NEW b, Based(b, c, t),
         NEW u, u # t, NEW g \in 1 .. Len(c), NEW d \in g + 1 .. Len(c) + 1, LastTable(c, u, g, d)
  PROVE  /\ b \in Seq(Line) /\ Len(c) <= Len(b) /\ \A i \in 1 .. Len(c) : b[i] = c[i]
         /\ g \in 1 .. Len(b) /\ d \in g + 1 .. Len(b) + 1 /\ LastTable(b, u, g, d)
<1>1. Len(c) \in Nat /\ DOMAIN c = 1 .. Len(c)  BY Doc
<1>2. CASE Has(c, Table(t))
  <2>1. b = c  BY <1>2 DEF Based
  <2> QED  BY <1>1, <2>1
<1>3. CASE ~Has(c, Table(t))
  <2>1. b = c \o << Table(t) >>  BY <1>3 DEF Based
  <2>2. /\ b \in Seq(Line) /\ Len(b) = Len(c) + 1 /\ b[Len(c) + 1] = Table(t)
        /\ \A i \in 1 .. Len(c) : b[i] = c[i]
    BY <1>3, <2>1, BasedLines
  <2>3. DOMAIN b = 1 .. Len(c) + 1  BY <2>2, Doc
  <2>4. IsHead(Table(t)) /\ Table(t) # Table(u)  BY HeadIsTable
  <2>5. b[g] = Table(u)  BY <2>2 DEF LastTable
  <2>6. \A k \in g + 1 .. Len(b) : b[k] # Table(u)
    <3> TAKE k \in g + 1 .. Len(b)
    <3>1. k \in g + 1 .. Len(c) \/ k = Len(c) + 1  BY <1>1, <2>2
    <3>2. k \in g + 1 .. Len(c) => k \in 1 .. Len(c)  BY <1>1
    <3> QED  BY <2>2, <2>4, <3>1, <3>2 DEF LastTable
  <2>7. Plain(b, g + 1, d - 1)
    <3>1. \A k \in g + 1 .. d - 1 : k \in 1 .. Len(c)  BY <1>1
    <3> QED  BY <2>2, <3>1 DEF LastTable, Plain
  <2>8. d \in DOMAIN b => IsHead(b[d])
    <3>1. CASE d \in 1 .. Len(c)  BY <1>1, <2>2, <3>1 DEF LastTable
    <3>2. CASE d = Len(c) + 1  BY <2>2, <2>4, <3>2
    <3> QED  BY <1>1, <3>1, <3>2
  <2>9. LastTable(b, u, g, d)  BY <2>5, <2>6, <2>7, <2>8 DEF LastTable
  <2>10. Len(c) <= Len(b) /\ g \in 1 .. Len(b) /\ d \in g + 1 .. Len(b) + 1  BY <1>1, <2>2
  <2> QED  BY <2>2, <2>9, <2>10
<1> QED  BY <1>2, <1>3

\* The merge of one table leaves another as it should be.
LEMMA OtherDone ==
  ASSUME NEW c \in Seq(Line), NEW t \in Runtime, NEW force \in BOOLEAN,
         MergeTable(c, t, force) # Refused, NEW u \in Runtime, u # t, NEW f, Done(c, u, f)
  PROVE  Done(MergeTable(c, t, force), u, f)
<1> DEFINE r == MergeTable(c, t, force)
<1>1. PICK b, h, e, k : Based(b, c, t) /\ b \in Seq(Line) /\ Filled(b, r, t, force, h, e, k)
  BY MergedTable
<1> HIDE DEF r
<1>2. Len(c) \in Nat /\ Len(b) \in Nat  BY <1>1, Doc
<1>3. PICK g \in 1 .. Len(c) : \E d \in g + 1 .. Len(c) + 1 : Holds(c, u, f, g, d)
  BY DEF Done
<1>4. PICK d \in g + 1 .. Len(c) + 1 : Holds(c, u, f, g, d)  BY <1>3
<1>5. LastTable(c, u, g, d)  BY <1>4 DEF Holds
<1>6. /\ Len(c) <= Len(b) /\ \A i \in 1 .. Len(c) : b[i] = c[i]
      /\ g \in 1 .. Len(b) /\ d \in g + 1 .. Len(b) + 1 /\ LastTable(b, u, g, d)
  BY <1>1, <1>5, BasedTables
<1>7. PICK z : MovedBy(b, r, u, g, d, e, k, z)
  <2>1. Filled(b, r, t, force, h, e, k) /\ b \in Seq(Line)  BY <1>1
  <2>2. g \in 1 .. Len(b) /\ d \in g + 1 .. Len(b) + 1 /\ LastTable(b, u, g, d)  BY <1>6
  <2> QED  BY <2>1, <2>2, Untouched
<1>14. /\ z \in Nat /\ g + z \in 1 .. Len(r) /\ d + z \in (g + z) + 1 .. Len(r) + 1
       /\ LastTable(r, u, g + z, d + z)
       /\ \A i \in g .. d - 1 : r[i + z] = b[i]
  BY <1>7 DEF MovedBy
<1>8. \A i \in g + 1 .. d - 1 : /\ i + z \in (g + z) + 1 .. (d + z) - 1
                                /\ r[i + z] = c[i]
  <2> TAKE i \in g + 1 .. d - 1
  <2>1. i \in 1 .. Len(c) /\ i \in g .. d - 1  BY <1>2
  <2>2. i + z \in (g + z) + 1 .. (d + z) - 1  BY <1>14
  <2> QED  BY <1>6, <1>14, <2>1, <2>2
<1>9. \A j \in (g + z) + 1 .. (d + z) - 1 : j - z \in g + 1 .. d - 1 /\ (j - z) + z = j
  BY <1>2, <1>14
<1>10. \A n \in DOMAIN Wanted(u) : Sets(r, (g + z) + 1, (d + z) - 1, Wanted(u)[n])
  <2> TAKE n \in DOMAIN Wanted(u)
  <2>1. PICK i \in g + 1 .. d - 1 : IsKey(c[i]) /\ c[i].name = Wanted(u)[n].name
    BY <1>4 DEF Holds, Sets
  <2> QED  BY <1>8, <2>1 DEF Sets
<1>11. f => \A j \in (g + z) + 1 .. (d + z) - 1 : IsKey(r[j]) =>
         \A n \in DOMAIN Wanted(u) : Wanted(u)[n].name = r[j].name => r[j] = Wanted(u)[n]
  <2> SUFFICES ASSUME f, NEW j \in (g + z) + 1 .. (d + z) - 1, IsKey(r[j]),
                      NEW n \in DOMAIN Wanted(u), Wanted(u)[n].name = r[j].name
               PROVE  r[j] = Wanted(u)[n]
    OBVIOUS
  <2>1. j - z \in g + 1 .. d - 1 /\ r[j] = c[j - z]  BY <1>8, <1>9
  <2> QED  BY <1>4, <2>1 DEF Holds
<1>12. Holds(r, u, f, g + z, d + z)  BY <1>14, <1>10, <1>11 DEF Holds
<1>13. ASSUME NEW j \in 1 .. Len(r), IsKey(r[j])  PROVE r[j].name # u
  <2>1. CASE j \in e .. e + k - 1
    <3>1. \E n \in DOMAIN Wanted(t) : r[j] = Wanted(t)[n]  BY <1>1, <2>1 DEF Filled
    <3> QED  BY <3>1, WantedNames DEF Runtime
  <2>2. CASE \E i \in 1 .. Len(b) : j = Move(i, e, k)
    <3>1. PICK i \in 1 .. Len(b) : j = Move(i, e, k)  BY <2>2
    <3>2. IsKey(b[i]) /\ r[j].name = b[i].name  BY <1>1, <1>13, <3>1, Heads, Filling
    <3>3. i \in 1 .. Len(c)
      <4>1. CASE Has(c, Table(t))  BY <1>1, <4>1 DEF Based
      <4>2. CASE ~Has(c, Table(t))
        <5>1. b = c \o << Table(t) >>  BY <1>1, <4>2 DEF Based
        <5>2. Len(b) = Len(c) + 1 /\ b[Len(c) + 1] = Table(t)  BY <4>2, <5>1, BasedLines
        <5>3. ~IsKey(Table(t))  BY DEF IsKey, Table
        <5> QED  BY <1>2, <3>2, <5>2, <5>3
      <4> QED  BY <4>1, <4>2
    <3>4. IsKey(c[i]) /\ c[i].name = r[j].name  BY <1>6, <3>2, <3>3
    <3> QED  BY <3>3, <3>4 DEF Done
  <2> QED  BY <1>1, <2>1, <2>2, Filling
<1> QED  BY <1>14, <1>12, <1>13 DEF Done, r

-----------------------------------------------------------------------------
(* The block: where it begins, and the k keys that a merge of the table     *)
(* above it has put between its start marker and its first table.           *)

Enclosed(r, s, a, k) ==
  /\ a \in Nat \ {0} /\ k \in Nat /\ a + k + 5 <= Len(r)
  /\ r[a] = Start /\ \A i \in 1 .. a - 1 : r[i] # Start /\ r[i] # End
  /\ \A i \in a + 1 .. a + k : IsKey(r[i])
  /\ r[a + k + 1] = Table("lore") /\ r[a + k + 2] = Key("url", s)
  /\ r[a + k + 3] = Table("context7") /\ r[a + k + 4] = Key("url", "hosted")
  /\ r[a + k + 5] = End
  /\ \A i \in 1 .. Len(r) : r[i] # Table("env")

\* Headers, keys and markers are different lines.
LEMMA Kinds ==
  /\ ~IsHead(Start) /\ ~IsHead(End) /\ ~IsKey(Start) /\ ~IsKey(End) /\ Start # End
  /\ \A k, v : IsKey(Key(k, v)) /\ ~IsHead(Key(k, v)) /\ Key(k, v).name = k
                 /\ Key(k, v) # Start /\ Key(k, v) # End
  /\ \A t : ~IsKey(Table(t)) /\ IsHead(Table(t)) /\ Table(t).name = t
              /\ Table(t) # Start /\ Table(t) # End
<1>1. Start.kind = "start" /\ End.kind = "end"  BY DEF Start, End
<1>2. \A k, v : Key(k, v).kind = "key" /\ Key(k, v).name = k  BY DEF Key
<1>3. \A t : Table(t).kind = "head" /\ Table(t).name = t  BY DEF Table
<1> QED  BY <1>1, <1>2, <1>3 DEF IsHead, IsKey

\* Where no env table is, none is taken out.
LEMMA NoEnv ==
  ASSUME NEW c \in Seq(Line), \A i \in 1 .. Len(c) : c[i] # Table("env")
  PROVE  StripEnv(c) = c /\ c # Refused
<1>1. Len(c) \in Nat /\ DOMAIN c = 1 .. Len(c)  BY Doc
<1>2. \A i \in DOMAIN c : ~InTable(c, i, "env")
  <2> SUFFICES ASSUME NEW i \in DOMAIN c, NEW h \in 1 .. i, c[h] = Table("env")  PROVE FALSE
    BY DEF InTable
  <2>1. h \in 1 .. Len(c)  BY <1>1
  <2> QED  BY <2>1
<1>3. {i \in DOMAIN c : ~InTable(c, i, "env")} = DOMAIN c  BY <1>2
<1>4. Pick(c, DOMAIN c) = c  BY PickedAll
<1>5. ~ \E h \in DOMAIN c : c[h] = Table("env") /\ ~ObsoleteEnv(c, h)  BY <1>1
<1>6. StripEnv(c) = c  BY <1>3, <1>4, <1>5 DEF StripEnv
<1> QED  BY <1>6, NotRefused

\* d is r without the k lines below line a.
Without(r, d, a, k) ==
  /\ Len(d) + k = Len(r)
  /\ \A i \in 1 .. a : d[i] = r[i]
  /\ \A i \in a + 1 .. Len(d) : d[i] = r[i + k]

\* Merging the block again takes those keys out and changes nothing else.
LEMMA BlockAgain ==
  ASSUME NEW r \in Seq(Line), NEW d \in Seq(Line), NEW s \in Words, NEW a, NEW k,
         Enclosed(r, s, a, k), Without(r, d, a, k)
  PROVE  MergeBlock(r, TRUE, s) = d
<1> DEFINE n == Len(r)
           b == a + k + 5
           x == SubSeq(r, 1, a - 1)
           y == SubSeq(r, b + 1, n)
           m == Around(x, s, y)
<1>0. /\ Len(d) + k = n /\ \A i \in 1 .. a : d[i] = r[i]
      /\ \A i \in a + 1 .. Len(d) : d[i] = r[i + k]
  BY DEF Without
<1>1. /\ n \in Nat /\ DOMAIN r = 1 .. n /\ Len(d) \in Nat
      /\ a \in Nat \ {0} /\ k \in Nat /\ b \in Nat /\ b <= n /\ a < b
  BY Doc DEF Enclosed
<1>2. /\ r[a] = Start /\ \A i \in 1 .. a - 1 : r[i] # Start /\ r[i] # End
      /\ \A i \in a + 1 .. a + k : IsKey(r[i])
      /\ r[a + k + 1] = Table("lore") /\ r[a + k + 2] = Key("url", s)
      /\ r[a + k + 3] = Table("context7") /\ r[a + k + 4] = Key("url", "hosted") /\ r[b] = End
      /\ \A i \in 1 .. n : r[i] # Table("env")
  BY DEF Enclosed
<1>3. First(r, Start) = a /\ Has(r, Start)
  <2>1. a \in 1 .. n /\ \A i \in 1 .. a - 1 : r[i] # r[a]  BY <1>1, <1>2
  <2>2. First(r, r[a]) = a  BY <2>1, FirstIsIt
  <2> QED  BY <1>1, <1>2, <2>1, <2>2 DEF Has
<1>4. First(r, End) = b
  <2>1. ASSUME NEW i \in 1 .. b - 1  PROVE r[i] # End
    <3>1. \/ i \in 1 .. a - 1
          \/ i = a
          \/ i \in a + 1 .. a + k
          \/ i = a + k + 1
          \/ i = a + k + 2
          \/ i = a + k + 3
          \/ i = a + k + 4
      <4>1. i \in Nat /\ 1 <= i /\ i <= b - 1 /\ b - 1 = a + k + 4 /\ a \in Nat /\ k \in Nat
        BY <1>1
      <4> HIDE DEF b
      <4>2. i < a \/ i = a \/ (a < i /\ i <= a + k) \/ a + k < i  BY <4>1
      <4>3. i < a => i \in 1 .. a - 1  BY <4>1
      <4>4. a < i /\ i <= a + k => i \in a + 1 .. a + k  BY <4>1
      <4>5. a + k < i => i = a + k + 1 \/ i = a + k + 2 \/ i = a + k + 3 \/ i = a + k + 4
        BY <4>1
      <4> QED  BY <4>2, <4>3, <4>4, <4>5
    <3>2. i \in a + 1 .. a + k => r[i] # End  BY <1>2, Kinds
    <3>3. r[a] # End /\ r[a + k + 1] # End /\ r[a + k + 2] # End /\ r[a + k + 3] # End
          /\ r[a + k + 4] # End
      BY <1>2, Kinds
    <3> QED  BY <1>2, <3>1, <3>2, <3>3
  <2>2. b \in 1 .. n  BY <1>1
  <2>3. First(r, r[b]) = b
    <3> HIDE DEF b
    <3> QED  BY <1>2, <2>1, <2>2, FirstIsIt
  <2> QED  BY <1>2, <2>3
<1> HIDE DEF b
<1>5. /\ x \in Seq(Line) /\ Len(x) = a - 1 /\ \A i \in 1 .. a - 1 : x[i] = r[i]
  <2>1. 1 \in 1 .. n + 1 /\ a - 1 \in 1 - 1 .. n /\ (a - 1) - 1 + 1 = a - 1  BY <1>1
  <2>2. /\ x \in Seq(Line) /\ Len(x) = (a - 1) - 1 + 1
        /\ \A i \in 1 .. (a - 1) - 1 + 1 : x[i] = r[1 + i - 1]
    BY <2>1, Slice
  <2>3. \A i \in 1 .. a - 1 : 1 + i - 1 = i  BY <1>1
  <2> HIDE DEF x
  <2> QED  BY <2>1, <2>2, <2>3
<1>6. /\ y \in Seq(Line) /\ Len(y) = n - b /\ \A i \in 1 .. n - b : y[i] = r[b + i]
  <2>1. b + 1 \in 1 .. n + 1 /\ n \in (b + 1) - 1 .. n /\ n - (b + 1) + 1 = n - b  BY <1>1
  <2>2. /\ y \in Seq(Line) /\ Len(y) = n - (b + 1) + 1
        /\ \A i \in 1 .. n - (b + 1) + 1 : y[i] = r[(b + 1) + i - 1]
    BY <2>1, Slice
  <2>3. \A i \in 1 .. n - b : (b + 1) + i - 1 = b + i  BY <1>1
  <2> HIDE DEF y
  <2> QED  BY <2>1, <2>2, <2>3
<1>7. StripEnv(x) = x /\ x # Refused /\ StripEnv(y) = y /\ y # Refused
  <2>1. \A i \in 1 .. Len(x) : x[i] # Table("env")
    <3> HIDE DEF x
    <3> TAKE i \in 1 .. Len(x)
    <3>1. i \in 1 .. a - 1 /\ i \in 1 .. n  BY <1>1, <1>5
    <3> QED  BY <1>2, <1>5, <3>1
  <2>2. \A i \in 1 .. Len(y) : y[i] # Table("env")
    <3> HIDE DEF y
    <3> TAKE i \in 1 .. Len(y)
    <3>1. i \in 1 .. n - b /\ b + i \in 1 .. n  BY <1>1, <1>6
    <3> QED  BY <1>2, <1>6, <3>1
  <2> HIDE DEF x, y
  <2> QED  BY <1>5, <1>6, <2>1, <2>2, NoEnv
<1>8. MergeBlock(r, TRUE, s) = m
  <2>1. HasBlock(r) /\ ~(a = 0) /\ ~(b < a)  BY <1>1, <1>3 DEF HasBlock
  <2> QED  BY <1>3, <1>4, <1>7, <2>1 DEF MergeBlock, Around
<1> HIDE DEF x, y
<1>9. /\ m \in Seq(Line) /\ Len(m) = Len(x) + 6 + Len(y)
      /\ \A i \in 1 .. Len(x) : m[i] = x[i]
      /\ m[Len(x) + 1] = Start /\ m[Len(x) + 2] = Table("lore")
      /\ m[Len(x) + 3] = Key("url", s) /\ m[Len(x) + 4] = Table("context7")
      /\ m[Len(x) + 5] = Key("url", "hosted") /\ m[Len(x) + 6] = End
      /\ \A i \in 1 .. Len(y) : m[Len(x) + 6 + i] = y[i]
  <2>1. LaidOut(m, x, s, y)  BY <1>5, <1>6, FramedLines
  <2> QED  BY <2>1 DEF LaidOut
<1> HIDE DEF m
<1>10. Len(m) = Len(d)
  <2>1. Len(m) = (a - 1) + 6 + (n - b)  BY <1>5, <1>6, <1>9
  <2>2. b = a + k + 5  BY DEF b
  <2>3. (a - 1) + 6 + (n - b) = n - k  BY <1>1, <2>2
  <2>4. Len(d) = n - k  BY <1>0, <1>1
  <2> QED  BY <2>1, <2>3, <2>4
<1>11. ASSUME NEW i \in 1 .. Len(m)  PROVE m[i] = d[i]
  <2>0. Len(m) = a + 5 + (n - b)  BY <1>1, <1>5, <1>6, <1>9
  <2>1. CASE i < a
    <3>1. i \in 1 .. Len(x) /\ i \in 1 .. a - 1 /\ i \in 1 .. a  BY <1>1, <1>5, <2>1
    <3> QED  BY <1>0, <1>5, <1>9, <3>1
  <2>2. CASE i = a
    <3>1. Len(x) + 1 = a /\ a \in 1 .. a  BY <1>1, <1>5
    <3> QED  BY <1>0, <1>2, <1>9, <2>2, <3>1
  <2>3. CASE i \in a + 1 .. a + 5
    <3>1. i = a + 1 \/ i = a + 2 \/ i = a + 3 \/ i = a + 4 \/ i = a + 5  BY <1>1, <2>3
    <3>2. i \in a + 1 .. Len(d) /\ d[i] = r[i + k]  BY <1>0, <1>1, <1>10, <2>3
    <3>3. Len(x) + 2 = a + 1 /\ Len(x) + 3 = a + 2 /\ Len(x) + 4 = a + 3
          /\ Len(x) + 5 = a + 4 /\ Len(x) + 6 = a + 5
      BY <1>1, <1>5
    <3>4. (a + 1) + k = a + k + 1 /\ (a + 2) + k = a + k + 2 /\ (a + 3) + k = a + k + 3
          /\ (a + 4) + k = a + k + 4 /\ (a + 5) + k = b
      BY <1>1 DEF b
    <3>5. CASE i = a + 1  BY <1>2, <1>9, <3>2, <3>3, <3>4, <3>5
    <3>6. CASE i = a + 2  BY <1>2, <1>9, <3>2, <3>3, <3>4, <3>6
    <3>7. CASE i = a + 3  BY <1>2, <1>9, <3>2, <3>3, <3>4, <3>7
    <3>8. CASE i = a + 4  BY <1>2, <1>9, <3>2, <3>3, <3>4, <3>8
    <3>9. CASE i = a + 5  BY <1>2, <1>9, <3>2, <3>3, <3>4, <3>9
    <3> QED  BY <3>1, <3>5, <3>6, <3>7, <3>8, <3>9
  <2>4. CASE a + 5 < i
    <3>1. i - (a + 5) \in 1 .. Len(y) /\ i - (a + 5) \in 1 .. n - b
      BY <1>1, <1>6, <2>0, <2>4
    <3>2. Len(x) + 6 + (i - (a + 5)) = i  BY <1>1, <1>5
    <3>3. b + (i - (a + 5)) = i + k  BY <1>1 DEF b
    <3>4. m[i] = y[i - (a + 5)]  BY <1>9, <3>1, <3>2
    <3>5. y[i - (a + 5)] = r[i + k]  BY <1>6, <3>1, <3>3
    <3>6. i \in a + 1 .. Len(d)  BY <1>1, <1>10, <2>4
    <3> QED  BY <1>0, <3>4, <3>5, <3>6
  <2>5. i < a \/ i = a \/ i \in a + 1 .. a + 5 \/ a + 5 < i  BY <1>1
  <2> QED  BY <2>1, <2>2, <2>3, <2>4, <2>5
<1>12. m = d  BY <1>9, <1>10, <1>11, Same
<1> QED  BY <1>8, <1>12

\* The block as it was merged, with nothing below its start marker.
LEMMA FramedEnclosed ==
  ASSUME NEW c \in Seq(Line), NEW s \in Words, NEW m, NEW p, NEW q, NEW x, NEW y, NEW f, NEW g,
         Framed(c, s, m, p, q, x, y, f, g)
  PROVE  \E a : Enclosed(m, s, a, 0)
<1> DEFINE a == Len(x) + 1
<1>1. /\ a \in Nat \ {0} /\ Len(y) \in Nat /\ m \in Seq(Line) /\ Len(m) = a + 5 + Len(y)
      /\ m[a] = Start /\ m[a + 1] = Table("lore") /\ m[a + 2] = Key("url", s)
      /\ m[a + 3] = Table("context7") /\ m[a + 4] = Key("url", "hosted") /\ m[a + 5] = End
  BY FramedOrigin
<1>2. /\ m = Around(x, s, y) /\ x \in Seq(Line) /\ y \in Seq(Line)
      /\ ~Has(x, Start) /\ ~Has(x, End) /\ ~Has(x, Table("env")) /\ ~Has(y, Table("env"))
  BY DEF Framed
<1>3. /\ \A i \in 1 .. Len(x) : m[i] = x[i]
      /\ \A i \in 1 .. Len(y) : m[Len(x) + 6 + i] = y[i]
  <2>1. LaidOut(m, x, s, y)  BY <1>2, FramedLines
  <2> QED  BY <2>1 DEF LaidOut
<1>4. Len(x) \in Nat /\ DOMAIN x = 1 .. Len(x) /\ DOMAIN y = 1 .. Len(y)  BY <1>2, Doc
<1>5. \A i \in 1 .. a - 1 : m[i] # Start /\ m[i] # End /\ m[i] # Table("env")
  <2> TAKE i \in 1 .. a - 1
  <2>1. i \in 1 .. Len(x)  BY <1>4
  <2> QED  BY <1>2, <1>3, <1>4, <2>1 DEF Has
<1>6. \A i \in 1 .. Len(y) : m[a + 5 + i] # Table("env")
  <2> TAKE i \in 1 .. Len(y)
  <2>1. a + 5 + i = Len(x) + 6 + i  BY <1>4
  <2>2. m[a + 5 + i] = y[i] /\ i \in DOMAIN y  BY <1>3, <1>4, <2>1
  <2> QED  BY <1>2, <2>2 DEF Has
<1> HIDE DEF a
<1>7. ASSUME NEW i \in 1 .. Len(m)  PROVE m[i] # Table("env")
  <2>1. CASE i \in 1 .. a - 1  BY <1>5, <2>1
  <2>2. CASE i = a \/ i = a + 1 \/ i = a + 2 \/ i = a + 3 \/ i = a + 4 \/ i = a + 5
    <3>1. Table("env") # Table("lore") /\ Table("env") # Table("context7")
      <4>1. Table("env").name = "env" /\ Table("lore").name = "lore"
            /\ Table("context7").name = "context7"
        BY Kinds
      <4> QED  BY <4>1
    <3>2. Table("env") # Start /\ Table("env") # End  BY Kinds
    <3>3. Key("url", s) # Table("env") /\ Key("url", "hosted") # Table("env")
      <4>1. IsKey(Key("url", s)) /\ IsKey(Key("url", "hosted")) /\ ~IsKey(Table("env"))  BY Kinds
      <4> QED  BY <4>1
    <3> QED  BY <1>1, <2>2, <3>1, <3>2, <3>3
  <2>3. CASE a + 5 < i
    <3>1. i - (a + 5) \in 1 .. Len(y) /\ a + 5 + (i - (a + 5)) = i  BY <1>1, <2>3
    <3> QED  BY <1>6, <3>1
  <2>4. \/ i \in 1 .. a - 1
        \/ i = a \/ i = a + 1 \/ i = a + 2 \/ i = a + 3 \/ i = a + 4 \/ i = a + 5
        \/ a + 5 < i
    BY <1>1
  <2> QED  BY <2>1, <2>2, <2>3, <2>4
<1>8. /\ a + 0 + 5 = a + 5 /\ a + 0 + 1 = a + 1 /\ a + 0 + 2 = a + 2 /\ a + 0 + 3 = a + 3
      /\ a + 0 + 4 = a + 4 /\ a + 5 <= Len(m) /\ a + 1 .. a + 0 = {} /\ 0 \in Nat
  BY <1>1
<1>9. Enclosed(m, s, a, 0)  BY <1>1, <1>5, <1>7, <1>8 DEF Enclosed
<1> QED  BY <1>9

\* A merge of a table moves the block, leaves it alone, or, when the table is
\* the last before it, puts its keys below the start marker.
LEMMA BlockMoves ==
  ASSUME NEW b \in Seq(Line), NEW t \in Runtime, NEW r, NEW force, NEW h, NEW e, NEW k,
         Filled(b, r, t, force, h, e, k), NEW s \in Words, NEW a, NEW j, Enclosed(b, s, a, j)
  PROVE  \/ e < a /\ Enclosed(r, s, a + k, j)
         \/ h < a /\ e = a + j + 1 /\ Enclosed(r, s, a, j + k)
         \/ a + j + 5 < h /\ Enclosed(r, s, a, j)
<1>1. /\ r \in Seq(Line) /\ Len(b) \in Nat /\ k \in Nat /\ Len(r) = Len(b) + k
      /\ h \in 1 .. Len(b) /\ e \in h + 1 .. Len(b) + 1 /\ LastTable(b, t, h, e)
      /\ DOMAIN b = 1 .. Len(b)
  BY Doc DEF Filled
<1>2. /\ a \in Nat \ {0} /\ j \in Nat /\ a + j + 5 <= Len(b)
      /\ b[a] = Start /\ \A i \in 1 .. a - 1 : b[i] # Start /\ b[i] # End
      /\ \A i \in a + 1 .. a + j : IsKey(b[i])
      /\ b[a + j + 1] = Table("lore") /\ b[a + j + 2] = Key("url", s)
      /\ b[a + j + 3] = Table("context7") /\ b[a + j + 4] = Key("url", "hosted")
      /\ b[a + j + 5] = End
      /\ \A i \in 1 .. Len(b) : b[i] # Table("env")
  BY DEF Enclosed
<1>3. \A l \in 1 .. Len(r) : ~IsKey(r[l]) => \E i \in 1 .. Len(b) : l = Move(i, e, k) /\ r[l] = b[i]
  <2> TAKE l \in 1 .. Len(r)
  <2> HAVE ~IsKey(r[l])
  <2>1. PICK i \in 1 .. Len(b) : l = Move(i, e, k)  BY Filling, Heads
  <2>2. ~IsKey(b[i])  BY <2>1, Heads
  <2> QED  BY <2>1, <2>2, Heads
<1>4. \A l \in 1 .. Len(r) : r[l] # Table("env")
  <2> SUFFICES ASSUME NEW l \in 1 .. Len(r), r[l] = Table("env") PROVE FALSE  OBVIOUS
  <2>1. ~IsKey(Table("env"))  BY Kinds
  <2>2. ~IsKey(r[l])  BY <2>1
  <2>3. PICK i \in 1 .. Len(b) : l = Move(i, e, k) /\ r[l] = b[i]  BY <1>3, <2>2
  <2> QED  BY <1>2, <2>3
<1>5. ASSUME NEW z \in Nat, \A i \in 1 .. Len(b) : Move(i, e, k) < a + z => i < a,
             a + z <= Len(r)
      PROVE  \A l \in 1 .. (a + z) - 1 : r[l] # Start /\ r[l] # End
  <2> TAKE l \in 1 .. (a + z) - 1
  <2>1. l \in 1 .. Len(r) /\ l < a + z  BY <1>1, <1>2, <1>5
  <2> SUFFICES ASSUME r[l] = Start \/ r[l] = End PROVE FALSE  OBVIOUS
  <2>2. PICK i \in 1 .. Len(b) : l = Move(i, e, k) /\ r[l] = b[i]  BY <1>3, <2>1, Kinds
  <2>3. i \in 1 .. a - 1  BY <1>1, <1>2, <1>5, <2>1, <2>2
  <2> QED  BY <1>2, <2>2, <2>3
<1>6. b[h] = Table(t) /\ b[h] # Table("lore") /\ b[h] # Table("context7") /\ ~IsKey(b[h])
      /\ b[h] # Start /\ b[h] # End /\ IsHead(b[h])
  <2>1. b[h] = Table(t)  BY <1>1 DEF LastTable
  <2>2. Table(t).name = t /\ Table("lore").name = "lore" /\ Table("context7").name = "context7"
    BY Kinds
  <2> QED  BY <2>1, <2>2, Kinds DEF Runtime
<1>7. \A i \in h + 1 .. e - 1 : ~IsHead(b[i])  BY <1>1 DEF LastTable, Plain
<1>8. e \in 1 .. Len(b) => IsHead(b[e])  BY <1>1 DEF LastTable
<1>9. ~IsKey(b[a]) /\ ~IsHead(b[a]) /\ \A i \in a + 1 .. a + j : ~IsHead(b[i])
  BY <1>2, Kinds DEF IsKey, IsHead
<1>10. h < a \/ a + j + 5 < h
  <2> SUFFICES ASSUME a <= h, h <= a + j + 5 PROVE FALSE  BY <1>1, <1>2
  <2>1. \/ h = a \/ h \in a + 1 .. a + j \/ h = a + j + 1 \/ h = a + j + 2
        \/ h = a + j + 3 \/ h = a + j + 4 \/ h = a + j + 5
    BY <1>1, <1>2
  <2>2. h # a /\ h # a + j + 1 /\ h # a + j + 3 /\ h # a + j + 5  BY <1>2, <1>6
  <2>3. h # a + j + 2 /\ h # a + j + 4  BY <1>2, <1>6, Kinds
  <2>4. h \notin a + 1 .. a + j  BY <1>2, <1>6
  <2> QED  BY <2>1, <2>2, <2>3, <2>4
<1>11. h < a => e < a \/ e = a + j + 1
  <2> HAVE h < a
  <2>1. ~(a + j + 1 < e)
    <3> SUFFICES ASSUME a + j + 1 < e PROVE FALSE  OBVIOUS
    <3>1. a + j + 1 \in h + 1 .. e - 1  BY <1>1, <1>2
    <3>2. IsHead(b[a + j + 1])  BY <1>2, Kinds
    <3> QED  BY <1>7, <3>1, <3>2
  <2>2. e \in 1 .. Len(b)  BY <1>1, <1>2, <2>1
  <2>3. e # a /\ e \notin a + 1 .. a + j  BY <1>8, <1>9, <2>2
  <2> QED  BY <1>1, <1>2, <2>1, <2>2, <2>3
<1>12. CASE h < a /\ e < a
  <2>1. \A i \in a .. Len(b) : r[i + k] = b[i]
    <3> TAKE i \in a .. Len(b)
    <3>1. i \in e .. Len(b)  BY <1>1, <1>2, <1>12
    <3> QED  BY <3>1 DEF Filled
  <2>2. \A i \in 1 .. Len(b) : Move(i, e, k) < a + k => i < a  BY <1>1, <1>2, <1>12 DEF Move
  <2>3. /\ a + k \in Nat \ {0} /\ (a + k) + j + 5 <= Len(r)  BY <1>1, <1>2
  <2>4. \A l \in 1 .. (a + k) - 1 : r[l] # Start /\ r[l] # End
    <3>1. a + k <= Len(r)  BY <1>1, <1>2
    <3> QED  BY <1>1, <1>5, <2>2, <3>1
  <2>5. \A i \in (a + k) + 1 .. (a + k) + j : IsKey(r[i])
    <3> TAKE i \in (a + k) + 1 .. (a + k) + j
    <3>1. i - k \in a + 1 .. a + j /\ i - k \in a .. Len(b) /\ (i - k) + k = i  BY <1>1, <1>2
    <3>2. r[(i - k) + k] = b[i - k]  BY <2>1, <3>1
    <3> QED  BY <1>2, <3>1, <3>2
  <2>6. /\ a \in a .. Len(b) /\ a + j + 1 \in a .. Len(b) /\ a + j + 2 \in a .. Len(b)
        /\ a + j + 3 \in a .. Len(b) /\ a + j + 4 \in a .. Len(b) /\ a + j + 5 \in a .. Len(b)
    BY <1>1, <1>2
  <2>7. /\ r[a + k] = b[a] /\ r[(a + j + 1) + k] = b[a + j + 1] /\ r[(a + j + 2) + k] = b[a + j + 2]
        /\ r[(a + j + 3) + k] = b[a + j + 3] /\ r[(a + j + 4) + k] = b[a + j + 4]
        /\ r[(a + j + 5) + k] = b[a + j + 5]
    BY <2>1, <2>6
  <2>8. /\ (a + j + 1) + k = (a + k) + j + 1 /\ (a + j + 2) + k = (a + k) + j + 2
        /\ (a + j + 3) + k = (a + k) + j + 3 /\ (a + j + 4) + k = (a + k) + j + 4
        /\ (a + j + 5) + k = (a + k) + j + 5
    BY <1>1, <1>2
  <2>9. Enclosed(r, s, a + k, j)
    BY <1>2, <1>4, <2>3, <2>4, <2>5, <2>7, <2>8 DEF Enclosed
  <2> QED  BY <1>12, <2>9
<1>13. CASE h < a /\ e = a + j + 1
  <2>1. \A i \in 1 .. a + j : /\ i \in 1 .. Len(b) /\ Move(i, e, k) = i
                              /\ (IsKey(r[i]) <=> IsKey(b[i])) /\ (~IsKey(b[i]) => r[i] = b[i])
    <3> TAKE i \in 1 .. a + j
    <3>1. i \in 1 .. Len(b) /\ Move(i, e, k) = i  BY <1>1, <1>2, <1>13 DEF Move
    <3> QED  BY <3>1, Heads
  <2>2. \A i \in a + j + 1 .. Len(b) : r[i + k] = b[i]  BY <1>13 DEF Filled
  <2>3. \A i \in e .. e + k - 1 : IsKey(r[i])  BY Heads
  <2>4. r[a] = Start
    <3>1. a \in 1 .. a + j  BY <1>2
    <3> QED  BY <1>2, <1>9, <2>1, <3>1
  <2>5. \A l \in 1 .. a - 1 : r[l] # Start /\ r[l] # End
    <3>1. \A i \in 1 .. Len(b) : Move(i, e, k) < a + 0 => i < a
      BY <1>1, <1>2, <1>13 DEF Move
    <3>2. a + 0 <= Len(r) /\ 0 \in Nat /\ (a + 0) - 1 = a - 1  BY <1>1, <1>2
    <3>3. \A l \in 1 .. (a + 0) - 1 : r[l] # Start /\ r[l] # End  BY <1>5, <3>1, <3>2
    <3> QED  BY <3>2, <3>3
  <2>6. \A i \in a + 1 .. a + (j + k) : IsKey(r[i])
    <3> TAKE i \in a + 1 .. a + (j + k)
    <3>1. CASE i <= a + j
      <4>1. i \in a + 1 .. a + j /\ i \in 1 .. a + j  BY <1>1, <1>2, <3>1
      <4> QED  BY <1>2, <2>1, <4>1
    <3>2. CASE ~(i <= a + j)
      <4>1. i \in e .. e + k - 1  BY <1>1, <1>2, <1>13, <3>2
      <4> QED  BY <2>3, <4>1
    <3> QED  BY <3>1, <3>2
  <2>7. /\ a + j + 1 \in a + j + 1 .. Len(b) /\ a + j + 2 \in a + j + 1 .. Len(b)
        /\ a + j + 3 \in a + j + 1 .. Len(b) /\ a + j + 4 \in a + j + 1 .. Len(b)
        /\ a + j + 5 \in a + j + 1 .. Len(b)
    BY <1>1, <1>2
  <2>8. /\ r[(a + j + 1) + k] = b[a + j + 1] /\ r[(a + j + 2) + k] = b[a + j + 2]
        /\ r[(a + j + 3) + k] = b[a + j + 3] /\ r[(a + j + 4) + k] = b[a + j + 4]
        /\ r[(a + j + 5) + k] = b[a + j + 5]
    BY <2>2, <2>7
  <2>9. /\ (a + j + 1) + k = a + (j + k) + 1 /\ (a + j + 2) + k = a + (j + k) + 2
        /\ (a + j + 3) + k = a + (j + k) + 3 /\ (a + j + 4) + k = a + (j + k) + 4
        /\ (a + j + 5) + k = a + (j + k) + 5 /\ a + (j + k) + 5 <= Len(r) /\ j + k \in Nat
    BY <1>1, <1>2
  <2>10. Enclosed(r, s, a, j + k)
    BY <1>2, <1>4, <2>4, <2>5, <2>6, <2>8, <2>9 DEF Enclosed
  <2> QED  BY <1>13, <2>10
<1>14. CASE a + j + 5 < h
  <2>1. \A i \in 1 .. a + j + 5 : i \in 1 .. Len(b) /\ Move(i, e, k) = i /\ r[i] = b[i]
    <3> TAKE i \in 1 .. a + j + 5
    <3>1. i \in 1 .. Len(b) /\ Move(i, e, k) = i /\ i \notin h + 1 .. e - 1
      BY <1>1, <1>2, <1>14 DEF Move
    <3> QED  BY <3>1, Filling
  <2>2. \A i \in 1 .. a - 1 : i \in 1 .. a + j + 5  BY <1>2
  <2>3. \A i \in a + 1 .. a + j : i \in 1 .. a + j + 5  BY <1>2
  <2>4. /\ a \in 1 .. a + j + 5 /\ a + j + 1 \in 1 .. a + j + 5 /\ a + j + 2 \in 1 .. a + j + 5
        /\ a + j + 3 \in 1 .. a + j + 5 /\ a + j + 4 \in 1 .. a + j + 5
        /\ a + j + 5 \in 1 .. a + j + 5 /\ a + j + 5 <= Len(r)
    BY <1>1, <1>2
  <2>5. /\ r[a] = b[a] /\ r[a + j + 1] = b[a + j + 1] /\ r[a + j + 2] = b[a + j + 2]
        /\ r[a + j + 3] = b[a + j + 3] /\ r[a + j + 4] = b[a + j + 4]
        /\ r[a + j + 5] = b[a + j + 5]
    BY <2>1, <2>4
  <2>6. \A i \in 1 .. a - 1 : r[i] # Start /\ r[i] # End  BY <1>2, <2>1, <2>2
  <2>7. \A i \in a + 1 .. a + j : IsKey(r[i])  BY <1>2, <2>1, <2>3
  <2>8. Enclosed(r, s, a, j)  BY <1>2, <1>4, <2>4, <2>5, <2>6, <2>7 DEF Enclosed
  <2> QED  BY <1>14, <2>8
<1> QED  BY <1>10, <1>11, <1>12, <1>13, <1>14

\* A header appended at the end does not disturb the block.
LEMMA BasedEnclosed ==
  ASSUME NEW c \in Seq(Line), NEW t \in Runtime, NEW b, Based(b, c, t),
         NEW s \in Words, NEW a, NEW j, Enclosed(c, s, a, j)
  PROVE  Enclosed(b, s, a, j)
<1>1. CASE Has(c, Table(t))  BY <1>1 DEF Based
<1>2. CASE ~Has(c, Table(t))
  <2>1. b = c \o << Table(t) >>  BY <1>2 DEF Based
  <2>2. /\ b \in Seq(Line) /\ Len(b) = Len(c) + 1 /\ b[Len(c) + 1] = Table(t)
        /\ \A i \in 1 .. Len(c) : b[i] = c[i]
    BY <1>2, <2>1, BasedLines
  <2>3. /\ Len(c) \in Nat /\ a \in Nat \ {0} /\ j \in Nat /\ a + j + 5 <= Len(c)
        /\ c[a] = Start /\ \A i \in 1 .. a - 1 : c[i] # Start /\ c[i] # End
        /\ \A i \in a + 1 .. a + j : IsKey(c[i])
        /\ c[a + j + 1] = Table("lore") /\ c[a + j + 2] = Key("url", s)
        /\ c[a + j + 3] = Table("context7") /\ c[a + j + 4] = Key("url", "hosted")
        /\ c[a + j + 5] = End
        /\ \A i \in 1 .. Len(c) : c[i] # Table("env")
    BY Doc DEF Enclosed
  <2>4. /\ a \in 1 .. Len(c) /\ a + j + 1 \in 1 .. Len(c) /\ a + j + 2 \in 1 .. Len(c)
        /\ a + j + 3 \in 1 .. Len(c) /\ a + j + 4 \in 1 .. Len(c) /\ a + j + 5 \in 1 .. Len(c)
        /\ a + j + 5 <= Len(b)
    <3>1. Len(c) \in Nat /\ a \in Nat \ {0} /\ j \in Nat /\ a + j + 5 <= Len(c)  BY <2>3
    <3>2. Len(b) = Len(c) + 1  BY <2>2
    <3> QED  BY <3>1, <3>2
  <2>5. \A i \in 1 .. a - 1 : i \in 1 .. Len(c)  BY <2>3
  <2>6. \A i \in a + 1 .. a + j : i \in 1 .. Len(c)  BY <2>3
  <2>7. \A i \in 1 .. Len(b) : b[i] # Table("env")
    <3> TAKE i \in 1 .. Len(b)
    <3>1. i \in 1 .. Len(c) \/ i = Len(c) + 1
      <4>1. Len(c) \in Nat /\ Len(b) = Len(c) + 1  BY <2>2, <2>3
      <4> QED  BY <4>1
    <3>2. Table(t).name = t /\ Table("env").name = "env"  BY Kinds
    <3>3. Table(t) # Table("env")  BY <3>2 DEF Runtime
    <3> QED  BY <2>2, <2>3, <3>1, <3>3
  <2>8. \A i \in 1 .. a - 1 : b[i] # Start /\ b[i] # End  BY <2>2, <2>3, <2>5
  <2>9. \A i \in a + 1 .. a + j : IsKey(b[i])  BY <2>2, <2>3, <2>6
  <2>10. /\ b[a] = Start /\ b[a + j + 1] = Table("lore") /\ b[a + j + 2] = Key("url", s)
         /\ b[a + j + 3] = Table("context7") /\ b[a + j + 4] = Key("url", "hosted")
         /\ b[a + j + 5] = End
    BY <2>2, <2>3, <2>4
  <2> QED  BY <2>3, <2>4, <2>7, <2>8, <2>9, <2>10 DEF Enclosed
<1> QED  BY <1>1, <1>2

\* Where the block of r begins, when that of the document r was merged from,
\* with j keys below its marker, began at line a.
BlockAfter(r, s, a, j, h, e, k) ==
  \/ e < a /\ Enclosed(r, s, a + k, j)
  \/ h < a /\ e = a + j + 1 /\ Enclosed(r, s, a, j + k)
  \/ a + j + 5 < h /\ Enclosed(r, s, a, j)

\* The block after the merge of a table, header and all.
LEMMA MergeMoves ==
  ASSUME NEW c \in Seq(Line), NEW t \in Runtime, NEW force \in BOOLEAN,
         MergeTable(c, t, force) # Refused,
         NEW s \in Words, NEW a, NEW j, Enclosed(c, s, a, j)
  PROVE  \E b, h, e, k : /\ Based(b, c, t) /\ b \in Seq(Line)
                         /\ Filled(b, MergeTable(c, t, force), t, force, h, e, k)
                         /\ BlockAfter(MergeTable(c, t, force), s, a, j, h, e, k)
<1> DEFINE r == MergeTable(c, t, force)
<1>1. PICK b, h, e, k : Based(b, c, t) /\ b \in Seq(Line) /\ Filled(b, r, t, force, h, e, k)
  BY MergedTable
<1>2. Enclosed(b, s, a, j)  BY <1>1, BasedEnclosed
<1> HIDE DEF r
<1>3. BlockAfter(r, s, a, j, h, e, k)
  <2>1. \/ e < a /\ Enclosed(r, s, a + k, j)
        \/ h < a /\ e = a + j + 1 /\ Enclosed(r, s, a, j + k)
        \/ a + j + 5 < h /\ Enclosed(r, s, a, j)
    BY <1>1, <1>2, BlockMoves
  <2> QED  BY <2>1 DEF BlockAfter
<1> QED  BY <1>1, <1>3 DEF r

\* Lines without line a + 1.
LEMMA LineOut ==
  ASSUME NEW r \in Seq(Line), NEW a \in 1 .. Len(r) - 1
  PROVE  \E d \in Seq(Line) : /\ Len(d) + 1 = Len(r) /\ \A i \in 1 .. a : d[i] = r[i]
                              /\ \A i \in a + 1 .. Len(d) : d[i] = r[i + 1]
<1> DEFINE n == Len(r)
           x == SubSeq(r, 1, a)
           y == SubSeq(r, a + 2, n)
           d == x \o y
<1>1. n \in Nat /\ a \in Nat /\ a + 1 <= n  BY Doc
<1>2. /\ x \in Seq(Line) /\ Len(x) = a /\ \A i \in 1 .. a : x[i] = r[i]
  <2>1. 1 \in 1 .. n + 1 /\ a \in 1 - 1 .. n /\ a - 1 + 1 = a  BY <1>1
  <2>2. /\ x \in Seq(Line) /\ Len(x) = a - 1 + 1
        /\ \A i \in 1 .. a - 1 + 1 : x[i] = r[1 + i - 1]
    BY <2>1, Slice
  <2>3. \A i \in 1 .. a : 1 + i - 1 = i  BY <1>1
  <2> HIDE DEF x
  <2> QED  BY <2>1, <2>2, <2>3
<1>3. /\ y \in Seq(Line) /\ Len(y) = n - (a + 1)
      /\ \A i \in 1 .. n - (a + 1) : y[i] = r[a + 1 + i]
  <2>1. a + 2 \in 1 .. n + 1 /\ n \in (a + 2) - 1 .. n /\ n - (a + 2) + 1 = n - (a + 1)
    BY <1>1
  <2>2. /\ y \in Seq(Line) /\ Len(y) = n - (a + 2) + 1
        /\ \A i \in 1 .. n - (a + 2) + 1 : y[i] = r[(a + 2) + i - 1]
    BY <2>1, Slice
  <2>3. \A i \in 1 .. n - (a + 1) : (a + 2) + i - 1 = a + 1 + i  BY <1>1
  <2> HIDE DEF y
  <2> QED  BY <2>1, <2>2, <2>3
<1> HIDE DEF x, y
<1>4. /\ d \in Seq(Line) /\ Len(d) = Len(x) + Len(y)
      /\ \A i \in 1 .. Len(x) : d[i] = x[i]
      /\ \A i \in 1 .. Len(y) : d[Len(x) + i] = y[i]
  BY <1>2, <1>3, Joined
<1> HIDE DEF d
<1>5. Len(d) = n - 1  BY <1>1, <1>2, <1>3, <1>4
<1>6. Len(d) + 1 = n  BY <1>1, <1>5
<1>7. \A i \in 1 .. a : d[i] = r[i]  BY <1>2, <1>4
<1>8. \A i \in a + 1 .. Len(d) : d[i] = r[i + 1]
  <2> TAKE i \in a + 1 .. Len(d)
  <2>1. i - a \in 1 .. Len(y) /\ i - a \in 1 .. n - (a + 1)  BY <1>1, <1>3, <1>5
  <2>2. Len(x) + (i - a) = i /\ a + 1 + (i - a) = i + 1  BY <1>1, <1>2
  <2>3. d[Len(x) + (i - a)] = y[i - a]  BY <1>4, <2>1
  <2>4. y[i - a] = r[a + 1 + (i - a)]  BY <1>3, <2>1
  <2> QED  BY <2>2, <2>3, <2>4
<1> QED  BY <1>4, <1>6, <1>7, <1>8

\* What is wanted of [features] is one key.
LEMMA WantedFeature ==
  /\ 1 \in DOMAIN Wanted("features") /\ Wanted("features")[1] = Key("multi_agent", "true")
  /\ \A n \in DOMAIN Wanted("features") : Wanted("features")[n] = Key("multi_agent", "true")
<1>1. Wanted("features") = << Key("multi_agent", "true") >>  BY DEF Wanted
<1> DEFINE one == Key("multi_agent", "true")
<1>2. Wanted("features") = << one >>  BY <1>1
<1> HIDE DEF one
<1>3. DOMAIN << one >> = 1 .. 1 /\ << one >>[1] = one  OBVIOUS
<1>4. \A n \in 1 .. 1 : n = 1  OBVIOUS
<1> QED  BY <1>2, <1>3, <1>4 DEF one

\* A key of [features] that came to stand inside the block: merging the block
\* takes it out, and merging [features] puts it back where it was.
LEMMA SpillAgain ==
  ASSUME NEW r \in Seq(Line), NEW s \in Words, NEW a, NEW h \in 1 .. Len(r),
         Enclosed(r, s, a, 1), h < a, LastTable(r, "features", h, a + 2),
         r[a + 1] = Key("multi_agent", "true"),
         \A i \in h + 1 .. a : IsKey(r[i]) => r[i].name # "multi_agent",
         \A i \in 1 .. Len(r) : IsKey(r[i]) => r[i].name # "features"
  PROVE  \E d : MergeBlock(r, TRUE, s) = d /\ MergeTable(d, "features", TRUE) = r
<1> DEFINE w == Key("multi_agent", "true")
<1>1. /\ Len(r) \in Nat /\ DOMAIN r = 1 .. Len(r) /\ a \in Nat \ {0} /\ a + 1 + 5 <= Len(r)
      /\ r[a + 1 + 1] = Table("lore") /\ 1 \in Nat
  BY Doc DEF Enclosed
<1>2. a \in 1 .. Len(r) - 1  BY <1>1
<1>3. PICK d \in Seq(Line) : /\ Len(d) + 1 = Len(r) /\ \A i \in 1 .. a : d[i] = r[i]
                             /\ \A i \in a + 1 .. Len(d) : d[i] = r[i + 1]
  BY <1>2, LineOut
<1>4. MergeBlock(r, TRUE, s) = d
  <2>1. Without(r, d, a, 1)  BY <1>3 DEF Without
  <2> QED  BY <2>1, BlockAgain
<1>5. Len(d) \in Nat /\ DOMAIN d = 1 .. Len(d) /\ Len(d) = Len(r) - 1 /\ a + 5 <= Len(d)
  <2>1. Len(d) \in Nat /\ DOMAIN d = 1 .. Len(d)  BY Doc
  <2>2. Len(d) + 1 = Len(r) /\ a \in Nat /\ a + 1 + 5 <= Len(r)  BY <1>1, <1>3
  <2>3. Len(d) = Len(r) - 1 /\ a + 5 <= Len(d)  BY <2>1, <2>2
  <2> QED  BY <2>1, <2>3
<1>6. \A i \in 1 .. Len(d) : \/ i \in 1 .. a /\ d[i] = r[i] /\ i \in 1 .. Len(r)
                             \/ i \in a + 1 .. Len(d) /\ d[i] = r[i + 1] /\ i + 1 \in 1 .. Len(r)
  <2> TAKE i \in 1 .. Len(d)
  <2>1. CASE i <= a
    <3>1. i \in 1 .. a /\ i \in 1 .. Len(r)  BY <1>1, <1>5, <2>1
    <3> QED  BY <1>3, <3>1
  <2>2. CASE ~(i <= a)
    <3>1. i \in a + 1 .. Len(d) /\ i + 1 \in 1 .. Len(r)  BY <1>1, <1>5, <2>2
    <3> QED  BY <1>3, <3>1
  <2> QED  BY <2>1, <2>2
<1>7. h \in 1 .. Len(d) /\ a + 1 \in h + 1 .. Len(d) + 1 /\ h \in 1 .. a  BY <1>1, <1>5
<1>8. LastTable(d, "features", h, a + 1)
  <2>1. /\ r[h] = Table("features") /\ \A i \in h + 1 .. Len(r) : r[i] # Table("features")
        /\ \A i \in h + 1 .. (a + 2) - 1 : ~IsHead(r[i])
    BY DEF LastTable, Plain
  <2>2. d[h] = Table("features")  BY <1>3, <1>7, <2>1
  <2>3. \A i \in h + 1 .. Len(d) : d[i] # Table("features")
    <3> TAKE i \in h + 1 .. Len(d)
    <3>1. i \in 1 .. Len(d) /\ i \in h + 1 .. Len(r) /\ i + 1 \in h + 1 .. Len(r)
      BY <1>1, <1>5
    <3> QED  BY <1>6, <2>1, <3>1
  <2>4. \A i \in h + 1 .. (a + 1) - 1 : ~IsHead(d[i])
    <3> TAKE i \in h + 1 .. (a + 1) - 1
    <3>1. i \in 1 .. a /\ i \in h + 1 .. (a + 2) - 1  BY <1>1
    <3> QED  BY <1>3, <2>1, <3>1
  <2>5. IsHead(d[a + 1])
    <3>1. a + 1 \in a + 1 .. Len(d)  BY <1>1, <1>5
    <3>2. d[a + 1] = r[a + 1 + 1]  BY <1>3, <3>1
    <3> QED  BY <1>1, <3>2, Kinds
  <2>6. Plain(d, h + 1, (a + 1) - 1)  BY <2>4 DEF Plain
  <2> QED  BY <2>2, <2>3, <2>5, <2>6 DEF LastTable
<1>9. \A i \in 1 .. Len(d) : IsKey(d[i]) => d[i].name # "features"
  <2> TAKE i \in 1 .. Len(d)
  <2> QED  BY <1>6
<1> DEFINE y == MergeTable(d, "features", TRUE)
           k == Len(Missing(d, h + 1, (a + 1) - 1, "features"))
<1>10. Filled(d, y, "features", TRUE, h, a + 1, k)
  BY <1>7, <1>8, <1>9, MergeFills DEF Runtime
<1> HIDE DEF y, k
<1>11. /\ y \in Seq(Line) /\ k \in Nat /\ Len(y) = Len(d) + k  BY <1>10 DEF Filled
<1>12. \A i \in 1 .. a : y[i] = r[i]
  <2> SUFFICES ASSUME NEW i \in 1 .. a, y[i] # r[i] PROVE FALSE  OBVIOUS
  <2>1. i \in 1 .. (a + 1) - 1 /\ d[i] = r[i]  BY <1>1, <1>3
  <2>2. /\ i \in h + 1 .. (a + 1) - 1 /\ IsKey(d[i])
        /\ \E n \in DOMAIN Wanted("features") : Wanted("features")[n].name = d[i].name
    BY <1>10, <2>1 DEF Filled
  <2>3. d[i].name = "multi_agent"  BY <2>2, WantedFeature, Kinds
  <2>4. i \in h + 1 .. a  BY <1>1, <2>2
  <2> QED  BY <2>1, <2>2, <2>3, <2>4
<1>13. \A j \in a + 1 .. a + k : y[j] = w /\ y[j].name = "multi_agent"
  <2> TAKE j \in a + 1 .. a + k
  <2>1. j \in a + 1 .. (a + 1) + k - 1  BY <1>1, <1>11
  <2>2. \E n \in DOMAIN Wanted("features") : y[j] = Wanted("features")[n]
    BY <1>10, <2>1 DEF Filled
  <2> QED  BY <2>2, WantedFeature, Kinds
<1>14. k = 1
  <2>1. k # 0
    <3> SUFFICES ASSUME k = 0 PROVE FALSE  OBVIOUS
    <3>1. Sets(y, h + 1, (a + 1) + k - 1, Wanted("features")[1])
      BY <1>10, WantedFeature DEF Filled
    <3>2. (a + 1) + k - 1 = a  BY <1>1
    <3>3. PICK i \in h + 1 .. a : IsKey(y[i]) /\ y[i].name = Wanted("features")[1].name
      BY <3>1, <3>2 DEF Sets
    <3>4. i \in 1 .. a /\ y[i].name = "multi_agent"  BY <1>1, <3>3, WantedFeature, Kinds
    <3>5. y[i] = r[i]  BY <1>12, <3>4
    <3> QED  BY <3>3, <3>4, <3>5
  <2>2. ~(1 < k)
    <3> SUFFICES ASSUME 1 < k PROVE FALSE  OBVIOUS
    <3>1. /\ a + 1 \in a + 1 .. a + k /\ a + 2 \in a + 1 .. a + k
          /\ a + 1 \in a + 1 .. (a + 1) + k - 1 /\ a + 2 \in a + 1 .. (a + 1) + k - 1
      BY <1>1, <1>11
    <3>2. y[a + 1].name = y[a + 2].name  BY <1>13, <3>1
    <3>3. a + 1 = a + 2  BY <1>10, <3>1, <3>2 DEF Filled
    <3> QED  BY <1>1, <3>3
  <2> QED  BY <1>11, <2>1, <2>2
<1>15. Len(y) = Len(r)  BY <1>3, <1>11, <1>14
<1>16. \A i \in 1 .. Len(y) : y[i] = r[i]
  <2> TAKE i \in 1 .. Len(y)
  <2>1. CASE i \in 1 .. a  BY <1>12, <2>1
  <2>2. CASE i = a + 1
    <3>1. a + 1 \in a + 1 .. a + k  BY <1>1, <1>14
    <3> QED  BY <1>13, <2>2, <3>1
  <2>3. CASE a + 1 < i
    <3>1. i - 1 \in a + 1 .. Len(d) /\ (i - 1) + 1 = i  BY <1>1, <1>5, <1>15, <2>3
    <3>2. y[(i - 1) + 1] = d[i - 1]  BY <1>10, <1>14, <3>1 DEF Filled
    <3>3. d[i - 1] = r[(i - 1) + 1]  BY <1>3, <3>1
    <3> QED  BY <3>1, <3>2, <3>3
  <2>4. i \in 1 .. a \/ i = a + 1 \/ a + 1 < i  BY <1>1, <1>11
  <2> QED  BY <2>1, <2>2, <2>3, <2>4
<1>17. y = r  BY <1>11, <1>15, <1>16, Same
<1> QED  BY <1>4, <1>17 DEF y

\* A merge of a document that the manifest lists.
LEMMA MergeOwned ==
  ASSUME NEW c, NEW s, NEW d, MergeBlock(c, TRUE, s) = d
  PROVE  Merge(c, TRUE, s) = MergeTable(MergeTable(d, "features", TRUE), "agents", FALSE)
<1>1. Owned(c, TRUE) = TRUE  BY DEF Owned
<1> QED  BY <1>1 DEF Merge

\* The merge of [features] left the block as it was.
LEMMA AgainApart ==
  ASSUME NEW n \in Seq(Line), NEW s \in Words, NEW a, Enclosed(n, s, a, 0),
         Done(n, "features", TRUE),
         NEW r, r = MergeTable(n, "agents", FALSE), r # Refused
  PROVE  Merge(r, TRUE, s) = r
<1>0. "features" \in Runtime /\ "agents" \in Runtime /\ "features" # "agents"
      /\ TRUE \in BOOLEAN /\ FALSE \in BOOLEAN
  BY DEF Runtime
<1>1. PICK b, h, e, k : /\ Based(b, n, "agents") /\ b \in Seq(Line)
                        /\ Filled(b, r, "agents", FALSE, h, e, k) /\ BlockAfter(r, s, a, 0, h, e, k)
  BY <1>0, MergeMoves
<1>3. /\ r \in Seq(Line) /\ k \in Nat /\ Len(r) = Len(b) + k
      /\ h \in 1 .. Len(b) /\ e \in h + 1 .. Len(b) + 1 /\ LastTable(b, "agents", h, e)
  BY <1>1 DEF Filled
<1>4. a \in Nat \ {0} /\ Len(n) \in Nat /\ a + 0 + 5 <= Len(n)  BY Doc DEF Enclosed
<1>5. Done(r, "agents", FALSE)  BY <1>0, <1>1, FilledDone
<1>6. Done(r, "features", TRUE)  BY <1>0, OtherDone
<1>7. MergeTable(r, "agents", FALSE) = r /\ MergeTable(r, "features", TRUE) = r
  BY <1>0, <1>3, <1>5, <1>6, DoneStays
<1>8. \/ e < a /\ Enclosed(r, s, a + k, 0)
      \/ h < a /\ e = a + 0 + 1 /\ Enclosed(r, s, a, 0 + k)
      \/ a + 0 + 5 < h /\ Enclosed(r, s, a, 0)
  BY <1>1 DEF BlockAfter
<1>9. ASSUME NEW i, Enclosed(r, s, i, 0)  PROVE Merge(r, TRUE, s) = r
  <2>1. \A j \in i + 1 .. Len(r) : j + 0 = j  BY <1>3, <1>9, Doc DEF Enclosed
  <2>2. /\ Len(r) + 0 = Len(r) /\ \A j \in 1 .. i : r[j] = r[j]
        /\ \A j \in i + 1 .. Len(r) : r[j] = r[j + 0]
    BY <1>3, <2>1, Doc
  <2>3. MergeBlock(r, TRUE, s) = r
    <3>1. Without(r, r, i, 0)  BY <2>2 DEF Without
    <3> QED  BY <1>3, <1>9, <3>1, BlockAgain
  <2>4. Merge(r, TRUE, s) = MergeTable(MergeTable(r, "features", TRUE), "agents", FALSE)
    BY <2>3, MergeOwned
  <2> QED  BY <1>7, <2>4
<1>10. CASE h < a /\ e = a + 0 + 1 /\ Enclosed(r, s, a, 0 + k)
  <2>1. b = n
    <3> SUFFICES ASSUME ~Has(n, Table("agents")) PROVE FALSE  BY <1>1 DEF Based
    <3>1. b = n \o << Table("agents") >>  BY <1>1 DEF Based
    <3>2. Len(b) = Len(n) + 1 /\ LastTable(b, "agents", Len(n) + 1, Len(n) + 2)
      BY <1>0, <3>1, BasedLines
    <3>3. Len(n) + 1 \in 1 .. Len(b) /\ Len(n) + 2 \in (Len(n) + 1) + 1 .. Len(b) + 1
      BY <1>4, <3>2
    <3>4. h = Len(n) + 1  BY <1>1, <1>3, <3>2, <3>3, TableOnce
    <3> QED  BY <1>4, <1>10, <3>4
  <2>2. 0 + k = k /\ e = a + 1  BY <1>3, <1>4, <1>10
  <2>3. Len(n) + k = Len(r)  BY <1>3, <2>1
  <2>4. \A i \in 1 .. a : n[i] = r[i]
    <3> TAKE i \in 1 .. a
    <3>1. i \in 1 .. e - 1  BY <1>4, <2>2
    <3> QED  BY <1>1, <2>1, <3>1 DEF Filled
  <2>5. \A i \in a + 1 .. Len(n) : n[i] = r[i + k]  BY <1>1, <2>1, <2>2 DEF Filled
  <2>6. Enclosed(r, s, a, k)  BY <1>10, <2>2
  <2>7. MergeBlock(r, TRUE, s) = n
    <3>1. Without(r, n, a, k)  BY <2>3, <2>4, <2>5 DEF Without
    <3> QED  BY <1>3, <2>6, <3>1, BlockAgain
  <2>8. MergeTable(n, "features", TRUE) = n  BY <1>0, DoneStays
  <2> QED  BY <2>7, <2>8, MergeOwned
<1> QED  BY <1>8, <1>9, <1>10

\* The merge of [features] put its key below the start marker.
LEMMA AgainInside ==
  ASSUME NEW n \in Seq(Line), NEW s \in Words, NEW a, NEW h \in 1 .. Len(n),
         Enclosed(n, s, a, 1), h < a, LastTable(n, "features", h, a + 2),
         n[a + 1] = Key("multi_agent", "true"),
         \A i \in h + 1 .. a : IsKey(n[i]) => n[i].name # "multi_agent",
         Done(n, "features", TRUE),
         NEW r, r = MergeTable(n, "agents", FALSE), r # Refused
  PROVE  Merge(r, TRUE, s) = r
<1>0. "features" \in Runtime /\ "agents" \in Runtime /\ "features" # "agents"
      /\ TRUE \in BOOLEAN /\ FALSE \in BOOLEAN
  BY DEF Runtime
<1>1. PICK b, g, e, k : /\ Based(b, n, "agents") /\ b \in Seq(Line)
                        /\ Filled(b, r, "agents", FALSE, g, e, k) /\ BlockAfter(r, s, a, 1, g, e, k)
  BY <1>0, MergeMoves
<1>3. /\ r \in Seq(Line) /\ k \in Nat /\ Len(r) = Len(b) + k
      /\ g \in 1 .. Len(b) /\ e \in g + 1 .. Len(b) + 1
  BY <1>1 DEF Filled
<1>4. a \in Nat \ {0} /\ Len(n) \in Nat /\ Len(b) \in Nat /\ a + 1 + 5 <= Len(n)
  BY <1>1, Doc DEF Enclosed
<1>5. Done(r, "agents", FALSE)  BY <1>0, <1>1, FilledDone
<1>6. Done(r, "features", TRUE)  BY <1>0, OtherDone
<1>7. MergeTable(r, "agents", FALSE) = r  BY <1>0, <1>3, <1>5, DoneStays
<1>8. a + 2 \in h + 1 .. Len(n) + 1  BY <1>4
<1>9. /\ Len(n) <= Len(b) /\ \A i \in 1 .. Len(n) : b[i] = n[i]
      /\ h \in 1 .. Len(b) /\ a + 2 \in h + 1 .. Len(b) + 1
      /\ LastTable(b, "features", h, a + 2)
  BY <1>0, <1>1, <1>8, BasedTables
<1>10. PICK z : MovedBy(b, r, "features", h, a + 2, e, k, z)
  BY <1>0, <1>1, <1>9, Untouched
<1>11. /\ z \in Nat /\ ((z = k /\ e <= h) \/ (z = 0 /\ a + 2 < e))
       /\ h + z \in 1 .. Len(r) /\ LastTable(r, "features", h + z, (a + 2) + z)
       /\ \A i \in h .. (a + 2) - 1 : r[i + z] = b[i]
  BY <1>10 DEF MovedBy
<1>12. \/ e < a /\ Enclosed(r, s, a + k, 1)
       \/ g < a /\ e = a + 1 + 1 /\ Enclosed(r, s, a, 1 + k)
       \/ a + 1 + 5 < g /\ Enclosed(r, s, a, 1)
  BY <1>1 DEF BlockAfter
<1>13. Enclosed(r, s, a + z, 1)
  <2>1. CASE e < a /\ Enclosed(r, s, a + k, 1)
    <3>1. z = k  BY <1>3, <1>4, <1>11, <2>1
    <3> QED  BY <2>1, <3>1
  <2>2. ~(g < a /\ e = a + 1 + 1)  BY <1>3, <1>4, <1>11
  <2>3. CASE a + 1 + 5 < g /\ Enclosed(r, s, a, 1)
    <3>1. z = 0 /\ a + 0 = a  BY <1>3, <1>4, <1>11, <2>3
    <3> QED  BY <2>3, <3>1
  <2> QED  BY <1>12, <2>1, <2>2, <2>3
<1>14. h + z < a + z /\ (a + 2) + z = (a + z) + 2  BY <1>4, <1>11
<1>15. r[(a + z) + 1] = Key("multi_agent", "true")
  <2>1. a + 1 \in h .. (a + 2) - 1 /\ (a + 1) + z = (a + z) + 1 /\ a + 1 \in 1 .. Len(n)
    BY <1>4, <1>11
  <2>2. r[(a + 1) + z] = b[a + 1]  BY <1>11, <2>1
  <2>3. b[a + 1] = n[a + 1]  BY <1>9, <2>1
  <2> QED  BY <2>1, <2>2, <2>3
<1>16. \A i \in (h + z) + 1 .. a + z : IsKey(r[i]) => r[i].name # "multi_agent"
  <2> TAKE i \in (h + z) + 1 .. a + z
  <2>1. /\ i - z \in h + 1 .. a /\ i - z \in h .. (a + 2) - 1 /\ i - z \in 1 .. Len(n)
        /\ (i - z) + z = i
    BY <1>4, <1>11
  <2>2. r[(i - z) + z] = b[i - z]  BY <1>11, <2>1
  <2>3. b[i - z] = n[i - z]  BY <1>9, <2>1
  <2>4. r[i] = n[i - z]  BY <2>1, <2>2, <2>3
  <2> QED  BY <2>1, <2>4
<1>17. \A i \in 1 .. Len(r) : IsKey(r[i]) => r[i].name # "features"  BY <1>6 DEF Done
<1>18. LastTable(r, "features", h + z, (a + z) + 2)  BY <1>11, <1>14
<1>19. PICK d : MergeBlock(r, TRUE, s) = d /\ MergeTable(d, "features", TRUE) = r
  BY <1>3, <1>11, <1>13, <1>14, <1>15, <1>16, <1>17, <1>18, SpillAgain
<1>20. Merge(r, TRUE, s) = MergeTable(MergeTable(d, "features", TRUE), "agents", FALSE)
  BY <1>19, MergeOwned
<1> QED  BY <1>7, <1>19, <1>20

\* Whatever a merge returned, merging it again returns it.
LEMMA MergeAgain ==
  ASSUME NEW c \in Seq(Line), NEW l \in BOOLEAN, NEW s \in Words, Merge(c, l, s) # Refused
  PROVE  Merge(Merge(c, l, s), TRUE, s) = Merge(c, l, s)
<1> DEFINE m == Blocked(c, l, s)
           n == Featured(c, l, s)
           r == Merge(c, l, s)
<1>0. "features" \in Runtime /\ TRUE \in BOOLEAN  BY DEF Runtime
<1>1. /\ m # Refused /\ m \in Seq(Line) /\ n # Refused /\ n \in Seq(Line)
      /\ r = MergeTable(n, "agents", FALSE) /\ r # Refused /\ Owned(c, l) \in BOOLEAN
  BY MergeParts
<1>2. n = MergeTable(m, "features", TRUE)  BY DEF Featured
<1>3. PICK p, q, x, y, f, g : Framed(c, s, m, p, q, x, y, f, g)
  BY <1>1, BlockIsFramed DEF Blocked
<1>4. PICK a : Enclosed(m, s, a, 0)  BY <1>3, FramedEnclosed
<1> HIDE DEF m, n, r
<1>5. PICK b, h, e, k : /\ Based(b, m, "features") /\ b \in Seq(Line)
                        /\ Filled(b, n, "features", TRUE, h, e, k) /\ BlockAfter(n, s, a, 0, h, e, k)
  BY <1>0, <1>1, <1>2, <1>4, MergeMoves
<1>6. a \in Nat \ {0}  BY <1>4 DEF Enclosed
<1>7. Done(n, "features", TRUE)  BY <1>0, <1>5, FilledDone
<1>8. \/ e < a /\ Enclosed(n, s, a + k, 0)
      \/ h < a /\ e = a + 0 + 1 /\ Enclosed(n, s, a, 0 + k)
      \/ a + 0 + 5 < h /\ Enclosed(n, s, a, 0)
  BY <1>5 DEF BlockAfter
<1>9. ASSUME NEW i, Enclosed(n, s, i, 0)  PROVE Merge(r, TRUE, s) = r
  BY <1>1, <1>7, <1>9, AgainApart
<1>10. ASSUME h < a, e = a + 0 + 1, Enclosed(n, s, a, 0 + k)
       PROVE  Merge(r, TRUE, s) = r
  <2>1. /\ k \in Nat /\ Len(n) = Len(b) + k /\ Len(b) \in Nat
        /\ h \in 1 .. Len(b) /\ e \in h + 1 .. Len(b) + 1
    BY <1>5, Doc DEF Filled
  <2>2. 0 + k = k /\ a \in Nat \ {0} /\ a + 0 + 1 = a + 1  BY <1>6, <2>1
  <2>3. CASE k = 0  BY <1>9, <1>10, <2>2, <2>3
  <2>4. CASE k # 0
    <3>1. \A j \in a + 1 .. a + k :
            n[j] = Key("multi_agent", "true") /\ n[j].name = "multi_agent"
      <4> TAKE j \in a + 1 .. a + k
      <4>1. j \in e .. e + k - 1  BY <1>10, <2>1, <2>2
      <4>2. \E i \in DOMAIN Wanted("features") : n[j] = Wanted("features")[i]
        BY <1>5, <4>1 DEF Filled
      <4> QED  BY <4>2, WantedFeature, Kinds
    <3>2. k = 1
      <4> SUFFICES ASSUME 1 < k PROVE FALSE  BY <2>1, <2>4
      <4>1. /\ a + 1 \in a + 1 .. a + k /\ a + 2 \in a + 1 .. a + k
            /\ a + 1 \in e .. e + k - 1 /\ a + 2 \in e .. e + k - 1
        BY <1>10, <2>1, <2>2
      <4>2. n[a + 1].name = n[a + 2].name  BY <3>1, <4>1
      <4>3. a + 1 = a + 2  BY <1>5, <4>1, <4>2 DEF Filled
      <4> QED  BY <2>2, <4>3
    <3>3. n[a + 1] = Key("multi_agent", "true") /\ e = a + 1
      <4>1. a + 1 \in a + 1 .. a + k  BY <2>2, <3>2
      <4> QED  BY <1>10, <2>2, <3>1, <4>1
    <3>4. \A i \in h + 1 .. a : IsKey(n[i]) => n[i].name # "multi_agent"
      <4>1. e \in e .. e + k - 1  BY <2>1, <3>2
      <4>2. PICK i \in DOMAIN Wanted("features") : ~Sets(b, h + 1, e - 1, Wanted("features")[i])
        BY <1>5, <4>1 DEF Filled
      <4>3. Wanted("features")[i].name = "multi_agent"  BY WantedFeature, Kinds
      <4>4. \A j \in h + 1 .. e - 1 : ~(IsKey(b[j]) /\ b[j].name = "multi_agent")
        BY <4>2, <4>3 DEF Sets
      <4> TAKE j \in h + 1 .. a
      <4>5. j \in h + 1 .. e - 1 /\ j \in 1 .. e - 1  BY <2>1, <2>2, <3>3
      <4>6. n[j].kind = b[j].kind /\ n[j].name = b[j].name  BY <1>5, <4>5 DEF Filled
      <4> QED  BY <4>4, <4>5, <4>6 DEF IsKey
    <3>5. LastTable(n, "features", h, e + k) /\ h \in 1 .. Len(n)  BY <1>0, <1>5, Region
    <3>6. e + k = a + 2  BY <2>2, <3>2, <3>3
    <3>7. LastTable(n, "features", h, a + 2)  BY <3>5, <3>6
    <3>8. Enclosed(n, s, a, 1)  BY <1>10, <2>2, <3>2
    <3> QED  BY <1>1, <1>7, <1>10, <3>3, <3>4, <3>5, <3>7, <3>8, AgainInside
  <2> QED  BY <2>3, <2>4
<1>11. Merge(r, TRUE, s) = r  BY <1>8, <1>9, <1>10
<1> QED  BY <1>11 DEF r

-----------------------------------------------------------------------------
(* A second install.                                                        *)

\* What an install left, with nothing changed since, is a fixed point.
Settled == last = "ok" => listed = TRUE /\ Merge(config, TRUE, server) = config

\* Installs end in a fixed point, and any change ends the claim to one.
LEMMA SettledStays ==
  ASSUME TypeOK, Settled, [Next]_vars
  PROVE  Settled'
<1>0. config \in Seq(Line) /\ listed \in BOOLEAN /\ server \in Words /\ server \in Servers
  BY DocumentsAreLines DEF TypeOK
<1>1. CASE Install
  <2> DEFINE r == Merge(config, listed, server)
  <2>1. CASE r = Refused
    <3>1. last' = "refused"  BY <1>1, <2>1 DEF Install
    <3> QED  BY <3>1 DEF Settled
  <2>2. CASE r # Refused
    <3>1. config' = r /\ listed' = TRUE /\ server' = server  BY <1>1, <2>2 DEF Install
    <3>2. Merge(r, TRUE, server) = r  BY <1>0, <2>2, MergeAgain
    <3> HIDE DEF r
    <3>3. Merge(config', TRUE, server') = config'  BY <3>1, <3>2
    <3> QED  BY <3>1, <3>3 DEF Settled
  <2> QED  BY <2>1, <2>2
<1>2. CASE \E c \in Seq(Line) : Edited(c)
  <2>1. last' = ""  BY <1>2 DEF Edited
  <2> QED  BY <2>1 DEF Settled
<1>3. CASE AddSection \/ Delete \/ Change \/ Login \/ Forget
  <2>1. last' = ""  BY <1>3 DEF AddSection, Delete, Change, Edited, Login, Forget
  <2> QED  BY <2>1 DEF Settled
<1>4. CASE UNCHANGED vars  BY <1>4 DEF Settled, vars
<1> QED  BY <1>1, <1>3, <1>4 DEF Next

\* The invariant that makes a second install change nothing.
LEMMA SettledAlways == Spec => []Settled
<1>1. Init => Settled  BY DEF Init, Settled
<1>2. TypeOK /\ Settled /\ [Next]_vars => Settled'  BY SettledStays
<1>3. Spec => []TypeOK  BY CodexTypeOK
<1> QED  BY <1>1, <1>2, <1>3, PTL DEF Spec

\* Installing again with nothing changed in between changes no line: the three
\* merges agree on one fixed point, whatever the user has edited before.
THEOREM SecondInstallStays == Spec => SecondInstallChangesNothing
<1>1. ASSUME TypeOK, Settled, [Next]_vars
      PROVE  [(Installs /\ last = "ok") => config' = config]_vars
  <2> SUFFICES ASSUME Installs, last = "ok", ~UNCHANGED vars  PROVE config' = config
    OBVIOUS
  <2>1. Install  BY <1>1, InstallsMerge
  <2>2. listed = TRUE /\ Merge(config, TRUE, server) = config  BY <1>1 DEF Settled
  <2>3. Merge(config, listed, server) = config  BY <2>2
  <2>4. CASE Merge(config, listed, server) = Refused  BY <2>1, <2>4 DEF Install
  <2>5. CASE Merge(config, listed, server) # Refused
    <3>1. config' = Merge(config, listed, server)  BY <2>1, <2>5 DEF Install
    <3> QED  BY <2>3, <3>1
  <2> QED  BY <2>4, <2>5
<1>2. Spec => []TypeOK  BY CodexTypeOK
<1>3. Spec => []Settled  BY SettledAlways
<1> QED  BY <1>1, <1>2, <1>3, PTL DEF Spec, SecondInstallChangesNothing

\* All of it: the merge of config.toml keeps what is the user's, refuses what is
\* not lore's, parses, says what was asked for and is a fixed point.
THEOREM CodexMerges == Spec => CodexIsMerged
BY UserLinesStay, ForeignLoreStays, ParseableStays, ProjectionHolds, SecondInstallStays
   DEF CodexIsMerged
=============================================================================
