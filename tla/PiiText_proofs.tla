--------------------------- MODULE PiiText_proofs ---------------------------
(***************************************************************************)
(* The way of a text and back (PiiText), for any texts, recognizers and    *)
(* hits.  The output is a sequence of pieces, letters and tags; what it    *)
(* spells, which letters are in it and what Restore makes of it are all    *)
(* gathered piece by piece, so that a replacement, which puts one piece in *)
(* the place of some, changes one summand of each.                         *)
(***************************************************************************)
EXTENDS PiiText, WellFoundedInduction, SequenceTheorems, TLAPS

-----------------------------------------------------------------------------
(* Sequences of sequences *)

\* Of some natural numbers one is the least.
LEMMA LeastNatural ==
  ASSUME NEW T \in SUBSET Nat, T # {}
  PROVE  \E m \in T : \A n \in T : m <= n
<1>1. PICK R : R = OpToRel(<, Nat)
  OBVIOUS
<1>2. IsWellFoundedOn(R, Nat)
  BY <1>1, NatLessThanWellFounded
<1>3. PICK m \in T : \A n \in T : ~(<<n, m>> \in R)
  BY <1>2, WFMin
<1>4. \A n \in T : ~(n < m)
  BY <1>1, <1>3 DEF OpToRel
<1>. QED
  BY <1>4

\* Induction over the naturals, for a property given as a set.
LEMMA NatSetInduction ==
  ASSUME NEW P, 0 \in P, \A n \in Nat : n \in P => n + 1 \in P
  PROVE  Nat \subseteq P
<1>1. SUFFICES ASSUME NEW T \in SUBSET Nat, T = Nat \ P, T # {} PROVE FALSE
  OBVIOUS
<1>2. PICK m \in T : \A n \in T : m <= n
  BY <1>1, LeastNatural
<1>3. m # 0 /\ m - 1 \in Nat
  BY <1>1
<1>4. m - 1 \in P
  BY <1>1, <1>2, <1>3
<1>5. (m - 1) + 1 \in P
  BY <1>3, <1>4
<1>. QED
  BY <1>1, <1>5

\* And over the sequences, by their last element.
LEMMA SeqSetInduction ==
  ASSUME NEW S, NEW P, <<>> \in P,
         \A s \in Seq(S), e \in S : s \in P => Append(s, e) \in P
  PROVE  Seq(S) \subseteq P
<1>1. PICK Q : Q = {n \in Nat : \A s \in Seq(S) : Len(s) = n => s \in P}
  OBVIOUS
<1>2. 0 \in Q
  BY <1>1, EmptySeq
<1>3. ASSUME NEW n \in Nat, n \in Q PROVE n + 1 \in Q
  <2>1. SUFFICES ASSUME NEW s \in Seq(S), Len(s) = n + 1 PROVE s \in P
    BY <1>1
  <2>2. s # <<>>
    BY <2>1, EmptySeq
  <2>3. PICK r \in Seq(S), e \in S : s = Append(r, e)
    BY <2>2, SequenceEmptyOrAppend
  <2>4. Len(r) = n
    BY <2>1, <2>3, AppendProperties, LenProperties
  <2>5. r \in P
    BY <1>1, <1>3, <2>4
  <2>. QED
    BY <2>3, <2>5
<1>4. Nat \subseteq Q
  BY <1>2, <1>3, NatSetInduction
<1>. QED
  BY <1>1, <1>4, LenProperties

\* The results of FlattenSeq on the first n parts.
Flattens(g, seqs, n) == g = [i \in 1..n |-> IF i = 1 THEN seqs[i] ELSE g[i - 1] \o seqs[i]]

LEMMA FlattenUnique ==
  ASSUME NEW T, NEW seqs \in Seq(Seq(T)), NEW g, NEW h,
         NEW n \in Nat, NEW m \in Nat, n <= Len(seqs), m <= Len(seqs),
         Flattens(g, seqs, n), Flattens(h, seqs, m)
  PROVE  \A i \in 1..n : i <= m => g[i] = h[i] /\ g[i] \in Seq(T)
<1>. USE DEF Flattens
<1>1. PICK P : P = {i \in Nat : i \in 1..n /\ i <= m => g[i] = h[i] /\ g[i] \in Seq(T)}
  OBVIOUS
<1>2. 0 \in P
  BY <1>1
<1>3. ASSUME NEW i \in Nat, i \in P PROVE i + 1 \in P
  <2>1. SUFFICES ASSUME i + 1 \in 1..n, i + 1 <= m
                 PROVE  g[i + 1] = h[i + 1] /\ g[i + 1] \in Seq(T)
    BY <1>1
  <2>2. i + 1 \in 1..Len(seqs) /\ seqs[i + 1] \in Seq(T)
    BY <2>1, ElementOfSeq, LenProperties
  <2>3. CASE i = 0
    <3>1. g[i + 1] = seqs[i + 1] /\ h[i + 1] = seqs[i + 1]
      BY <2>1, <2>3
    <3>. QED
      BY <3>1, <2>2
  <2>4. CASE i # 0
    <3>1. i \in 1..n /\ i <= m
      BY <2>1, <2>4
    <3>2. g[i] = h[i] /\ g[i] \in Seq(T)
      BY <1>1, <1>3, <3>1
    <3>3. /\ g[i + 1] = g[i] \o seqs[i + 1]
          /\ h[i + 1] = h[i] \o seqs[i + 1]
      <4>1. (i + 1) - 1 = i /\ i + 1 # 1 /\ i + 1 \in 1..m
        BY <2>1, <2>4
      <4>. QED
        BY <2>1, <4>1
    <3>4. g[i] \o seqs[i + 1] \in Seq(T)
      BY <2>2, <3>2, ConcatProperties
    <3>. QED
      BY <3>2, <3>3, <3>4
  <2>. QED
    BY <2>3, <2>4
<1>4. \A i \in Nat : i \in P
  BY <1>2, <1>3, NatSetInduction
<1>5. SUFFICES ASSUME NEW i \in 1..n, i <= m PROVE g[i] = h[i] /\ g[i] \in Seq(T)
  OBVIOUS
<1>6. i \in P
  BY <1>4
<1>. QED
  BY <1>1, <1>5, <1>6

LEMMA FlattenExists ==
  ASSUME NEW T, NEW seqs \in Seq(Seq(T))
  PROVE  \E g : Flattens(g, seqs, Len(seqs))
<1>. DEFINE Partly(n) ==
       \E g : g = [i \in 1..n |-> IF i = 1 THEN seqs[i] ELSE g[i - 1] \o seqs[i]]
<1>1. PICK P : P = {n \in Nat : n <= Len(seqs) => Partly(n)}
  OBVIOUS
<1>2. 0 \in P
  <2>1. PICK g : g = [i \in 1..0 |-> seqs[i]]
    OBVIOUS
  <2>2. g = [i \in 1..0 |-> IF i = 1 THEN seqs[i] ELSE g[i - 1] \o seqs[i]]
    BY <2>1
  <2>3. Partly(0)
    BY <2>2
  <2>. HIDE DEF Partly
  <2>. QED
    BY <1>1, <2>3
<1>3. ASSUME NEW n \in Nat, n \in P PROVE n + 1 \in P
  <2>1. SUFFICES ASSUME n + 1 <= Len(seqs), Partly(n) PROVE Partly(n + 1)
    <3>. HIDE DEF Partly
    <3>. QED
      BY <1>1, <1>3, LenProperties
  <2>2. PICK g : g = [i \in 1..n |-> IF i = 1 THEN seqs[i] ELSE g[i - 1] \o seqs[i]]
    BY <2>1
  <2>3. PICK h : h = [i \in 1..(n + 1) |-> IF i = 1 THEN seqs[i] ELSE g[i - 1] \o seqs[i]]
    OBVIOUS
  <2>4. ASSUME NEW i \in 1..(n + 1), i # 1 PROVE g[i - 1] = h[i - 1]
    <3>1. i - 1 \in 1..n /\ i - 1 \in 1..(n + 1)
      BY <2>4
    <3>2. g[i - 1] = IF i - 1 = 1 THEN seqs[i - 1] ELSE g[(i - 1) - 1] \o seqs[i - 1]
      BY <2>2, <3>1
    <3>3. h[i - 1] = IF i - 1 = 1 THEN seqs[i - 1] ELSE g[(i - 1) - 1] \o seqs[i - 1]
      BY <2>3, <3>1
    <3>. QED
      BY <3>2, <3>3
  <2>5. h = [i \in 1..(n + 1) |-> IF i = 1 THEN seqs[i] ELSE h[i - 1] \o seqs[i]]
    BY <2>3, <2>4
  <2>. QED
    BY <2>5
<1>4. Nat \subseteq P
  BY <1>2, <1>3, NatSetInduction
<1>5. Len(seqs) \in Nat
  BY LenProperties
<1>6. Partly(Len(seqs))
  <2>. HIDE DEF Partly
  <2>. QED
    BY <1>1, <1>4, <1>5
<1>. QED
  BY <1>6 DEF Flattens

LEMMA FlattenIs ==
  ASSUME NEW T, NEW seqs \in Seq(Seq(T)), Len(seqs) # 0
  PROVE  \E g : Flattens(g, seqs, Len(seqs)) /\ FlattenSeq(seqs) = g[Len(seqs)]
<1>1. PICK g : g = CHOOSE f : f = [i \in 1..Len(seqs) |-> IF i = 1 THEN seqs[i]
                                                       ELSE f[i - 1] \o seqs[i]]
  OBVIOUS
<1>2. Flattens(g, seqs, Len(seqs))
  BY <1>1, FlattenExists DEF Flattens
<1>3. FlattenSeq(seqs) = g[Len(seqs)]
  BY <1>1 DEF FlattenSeq
<1>. QED
  BY <1>2, <1>3

LEMMA FlattenEmpty == FlattenSeq(<<>>) = <<>>
  BY DEF FlattenSeq

LEMMA FlattenType ==
  ASSUME NEW T, NEW seqs \in Seq(Seq(T))
  PROVE  FlattenSeq(seqs) \in Seq(T)
<1>1. CASE Len(seqs) = 0
  <2>1. seqs = <<>>
    BY <1>1, EmptySeq
  <2>. QED
    BY <2>1, FlattenEmpty, EmptySeq
<1>2. CASE Len(seqs) # 0
  <2>1. PICK g : Flattens(g, seqs, Len(seqs)) /\ FlattenSeq(seqs) = g[Len(seqs)]
    BY <1>2, FlattenIs
  <2>2. PICK n \in Nat : n = Len(seqs)
    BY LenProperties
  <2>3. Flattens(g, seqs, n)
    BY <2>1, <2>2
  <2>4. n <= Len(seqs) /\ n \in 1..n
    BY <1>2, <2>2
  <2>5. \A i \in 1..n : i <= n => g[i] = g[i] /\ g[i] \in Seq(T)
    BY <2>3, <2>4, FlattenUnique
  <2>. QED
    BY <2>1, <2>2, <2>4, <2>5
<1>. QED
  BY <1>1, <1>2

LEMMA FlattenAppend ==
  ASSUME NEW T, NEW seqs \in Seq(Seq(T)), NEW x \in Seq(T)
  PROVE  FlattenSeq(Append(seqs, x)) = FlattenSeq(seqs) \o x
<1>1. PICK n \in Nat : n = Len(seqs)
  BY LenProperties
<1>2. PICK more \in Seq(Seq(T)) : more = Append(seqs, x)
  BY AppendProperties
<1>3. /\ Len(more) = n + 1 /\ more[n + 1] = x
      /\ \A i \in 1..n : more[i] = seqs[i]
  BY <1>1, <1>2, AppendProperties
<1>4. PICK g : Flattens(g, more, n + 1) /\ FlattenSeq(more) = g[n + 1]
  BY <1>3, FlattenIs
<1>5. g = [i \in 1..(n + 1) |-> IF i = 1 THEN more[i] ELSE g[i - 1] \o more[i]]
  BY <1>3, <1>4 DEF Flattens
<1>6. CASE n = 0
  <2>1. g[1] = x
    BY <1>3, <1>5, <1>6
  <2>2. seqs = <<>>
    BY <1>1, <1>6, EmptySeq
  <2>. QED
    BY <1>2, <1>4, <1>6, <2>1, <2>2, FlattenEmpty, ConcatEmptySeq
<1>7. CASE n # 0
  <2>1. g[n + 1] = g[n] \o x
    <3>1. (n + 1) - 1 = n /\ n + 1 # 1 /\ n + 1 \in 1..(n + 1)
      BY <1>7
    <3>. QED
      BY <1>3, <1>5, <3>1
  <2>2. PICK h : Flattens(h, seqs, n) /\ FlattenSeq(seqs) = h[n]
    BY <1>1, <1>7, FlattenIs
  <2>3. Flattens(h, more, n)
    BY <1>1, <1>3, <2>2 DEF Flattens
  <2>4. n \in 1..n /\ n <= n + 1 /\ n <= Len(more) /\ n + 1 <= Len(more)
    BY <1>3, <1>7
  <2>5. PICK m \in Nat : m = n + 1
    OBVIOUS
  <2>6. Flattens(g, more, m)
    BY <1>4, <2>5
  <2>7. n <= Len(more) /\ m <= Len(more)
    BY <2>4, <2>5
  <2>8. \A i \in 1..n : i <= m => h[i] = g[i] /\ h[i] \in Seq(T)
    BY <2>3, <2>6, <2>7, FlattenUnique
  <2>9. h[n] = g[n]
    BY <2>4, <2>5, <2>8
  <2>. QED
    BY <1>2, <1>4, <2>1, <2>2, <2>9
<1>. QED
  BY <1>6, <1>7

LEMMA FlattenOne ==
  ASSUME NEW T, NEW x \in Seq(T)
  PROVE  FlattenSeq(<<x>>) = x
<1>1. <<>> \in Seq(Seq(T))
  BY EmptySeq
<1>2. <<x>> = Append(<<>>, x)
  OBVIOUS
<1>3. FlattenSeq(Append(<<>>, x)) = FlattenSeq(<<>>) \o x
  BY <1>1, FlattenAppend
<1>. QED
  BY <1>2, <1>3, FlattenEmpty, ConcatEmptySeq

LEMMA ConcatAppend ==
  ASSUME NEW S, NEW r \in Seq(S), NEW s \in Seq(S), NEW e \in S
  PROVE  r \o Append(s, e) = Append(r \o s, e)
<1>1. <<e>> \in Seq(S) /\ r \o s \in Seq(S)
  BY ConcatProperties
<1>2. (r \o s) \o <<e>> = r \o (s \o <<e>>)
  BY <1>1, ConcatAssociative
<1>. QED
  BY <1>1, <1>2, AppendIsConcat

LEMMA FlattenConcat ==
  ASSUME NEW T, NEW r \in Seq(Seq(T)), NEW s \in Seq(Seq(T))
  PROVE  FlattenSeq(r \o s) = FlattenSeq(r) \o FlattenSeq(s)
<1>1. PICK P : P = {t \in Seq(Seq(T)) : FlattenSeq(r \o t) = FlattenSeq(r) \o FlattenSeq(t)}
  OBVIOUS
<1>2. <<>> \in P
  <2>1. r \o <<>> = r /\ <<>> \in Seq(Seq(T))
    BY ConcatEmptySeq, EmptySeq
  <2>2. FlattenSeq(r) \o <<>> = FlattenSeq(r)
    BY FlattenType, ConcatEmptySeq
  <2>. QED
    BY <1>1, <2>1, <2>2, FlattenEmpty
<1>3. ASSUME NEW t \in Seq(Seq(T)), NEW x \in Seq(T), t \in P PROVE Append(t, x) \in P
  <2>1. r \o t \in Seq(Seq(T)) /\ Append(t, x) \in Seq(Seq(T))
    BY ConcatProperties, AppendProperties
  <2>2. FlattenSeq(r \o Append(t, x)) = FlattenSeq(r \o t) \o x
    <3>1. r \o Append(t, x) = Append(r \o t, x)
      BY ConcatAppend
    <3>2. FlattenSeq(Append(r \o t, x)) = FlattenSeq(r \o t) \o x
      BY <2>1, FlattenAppend
    <3>. QED
      BY <3>1, <3>2
  <2>3. FlattenSeq(r \o t) = FlattenSeq(r) \o FlattenSeq(t)
    BY <1>1, <1>3
  <2>4. (FlattenSeq(r) \o FlattenSeq(t)) \o x = FlattenSeq(r) \o (FlattenSeq(t) \o x)
    <3>1. FlattenSeq(r) \in Seq(T) /\ FlattenSeq(t) \in Seq(T)
      BY FlattenType
    <3>. QED
      BY <3>1, ConcatAssociative
  <2>5. FlattenSeq(Append(t, x)) = FlattenSeq(t) \o x
    BY FlattenAppend
  <2>. QED
    BY <1>1, <2>1, <2>2, <2>3, <2>4, <2>5
<1>4. Seq(Seq(T)) \subseteq P
  BY <1>2, <1>3, SeqSetInduction
<1>. QED
  BY <1>1, <1>4

Has(s, y) == \E i \in DOMAIN s : s[i] = y

LEMMA HasConcat ==
  ASSUME NEW T, NEW f \in Seq(T), NEW x \in Seq(T), NEW y
  PROVE  Has(f \o x, y) <=> Has(f, y) \/ Has(x, y)
<1>1. PICK h \in Seq(T) : h = f \o x
  BY ConcatProperties
<1>2. /\ Len(f) \in Nat /\ DOMAIN f = 1..Len(f)
      /\ Len(x) \in Nat /\ DOMAIN x = 1..Len(x)
      /\ DOMAIN h = 1..(Len(f) + Len(x))
  BY <1>1, LenProperties, ConcatProperties
<1>3. \A i \in 1..(Len(f) + Len(x)) : h[i] = IF i <= Len(f) THEN f[i] ELSE x[i - Len(f)]
  BY <1>1, ConcatProperties
<1>4. ASSUME Has(f, y) PROVE Has(h, y)
  BY <1>2, <1>3, <1>4 DEF Has
<1>5. ASSUME Has(x, y) PROVE Has(h, y)
  <2>1. PICK i \in DOMAIN x : x[i] = y
    BY <1>5 DEF Has
  <2>2. Len(f) + i \in DOMAIN h /\ ~(Len(f) + i <= Len(f)) /\ (Len(f) + i) - Len(f) = i
    BY <1>2
  <2>3. h[Len(f) + i] = y
    BY <1>2, <1>3, <2>1, <2>2
  <2>. QED
    BY <2>2, <2>3 DEF Has
<1>6. ASSUME Has(h, y) PROVE Has(f, y) \/ Has(x, y)
  <2>1. PICK i \in DOMAIN h : h[i] = y
    BY <1>6 DEF Has
  <2>2. CASE i <= Len(f)
    BY <1>2, <1>3, <2>1, <2>2 DEF Has
  <2>3. CASE ~(i <= Len(f))
    <3>1. i - Len(f) \in DOMAIN x /\ x[i - Len(f)] = y
      BY <1>2, <1>3, <2>1, <2>3
    <3>. QED
      BY <3>1 DEF Has
  <2>. QED
    BY <2>2, <2>3
<1>. QED
  BY <1>1, <1>4, <1>5, <1>6

\* What is in the flattened sequence is in one of its parts.
LEMMA FlattenElements ==
  ASSUME NEW T, NEW seqs \in Seq(Seq(T)), NEW y
  PROVE  Has(FlattenSeq(seqs), y) <=> \E k \in DOMAIN seqs : Has(seqs[k], y)
<1>. DEFINE In(s) == Has(s, y)
            Inside(s) == \E k \in DOMAIN s : In(s[k])
<1>1. PICK P : P = {s \in Seq(Seq(T)) : In(FlattenSeq(s)) <=> Inside(s)}
  OBVIOUS
<1>2. <<>> \in P
  <2>1. ~In(<<>>) /\ ~Inside(<<>>)
    BY DEF Has
  <2>2. <<>> \in Seq(Seq(T))
    BY EmptySeq
  <2>. HIDE DEF In, Inside
  <2>. QED
    BY <1>1, <2>1, <2>2, FlattenEmpty
<1>3. ASSUME NEW s \in Seq(Seq(T)), NEW x \in Seq(T), s \in P PROVE Append(s, x) \in P
  <2>1. PICK f \in Seq(T) : f = FlattenSeq(s)
    BY FlattenType
  <2>2. PICK h \in Seq(T) : h = f \o x
    BY ConcatProperties
  <2>3. In(h) <=> In(f) \/ In(x)
    BY <2>2, HasConcat
  <2>4. Inside(Append(s, x)) <=> Inside(s) \/ In(x)
    <3>1. /\ Len(s) \in Nat /\ DOMAIN s = 1..Len(s)
          /\ DOMAIN Append(s, x) = 1..(Len(s) + 1)
      BY LenProperties, AppendProperties
    <3>2. /\ \A k \in 1..Len(s) : Append(s, x)[k] = s[k]
          /\ Append(s, x)[Len(s) + 1] = x
      BY AppendProperties
    <3>3. \A k \in 1..(Len(s) + 1) : k \in 1..Len(s) \/ k = Len(s) + 1
      BY <3>1
    <3>4. 1..Len(s) \subseteq 1..(Len(s) + 1) /\ Len(s) + 1 \in 1..(Len(s) + 1)
      BY <3>1
    <3>. HIDE DEF In
    <3>. QED
      BY <3>1, <3>2, <3>3, <3>4
  <2>5. Append(s, x) \in Seq(Seq(T)) /\ FlattenSeq(Append(s, x)) = h
    BY <2>1, <2>2, AppendProperties, FlattenAppend
  <2>. HIDE DEF In, Inside
  <2>. QED
    BY <1>1, <1>3, <2>1, <2>3, <2>4, <2>5
<1>4. Seq(Seq(T)) \subseteq P
  <2>. HIDE DEF In, Inside
  <2>. QED
    BY <1>2, <1>3, SeqSetInduction
<1>5. In(FlattenSeq(seqs)) <=> Inside(seqs)
  <2>. HIDE DEF In, Inside
  <2>. QED
    BY <1>1, <1>4
<1>. QED
  BY <1>5

(* Sequences of what the elements of a sequence stand for *)

Mapped(f, items) == [i \in DOMAIN items |-> f[items[i]]]

Gather(f, items) == FlattenSeq(Mapped(f, items))

LEMMA MappedIsSeq ==
  ASSUME NEW S, NEW T, NEW f \in [S -> Seq(T)], NEW items \in Seq(S)
  PROVE  /\ Mapped(f, items) \in Seq(Seq(T))
         /\ Len(Mapped(f, items)) = Len(items)
<1>1. PICK m : m = Mapped(f, items)
  OBVIOUS
<1>2. PICK n \in Nat : n = Len(items)
  BY LenProperties
<1>3. DOMAIN items = 1..n
  BY <1>2, LenProperties
<1>4. \A i \in 1..n : f[items[i]] \in Seq(T)
  BY <1>2, ElementOfSeq
<1>5. m \in [1..n -> Seq(T)]
  BY <1>1, <1>3, <1>4 DEF Mapped
<1>6. m \in Seq(Seq(T)) /\ Len(m) = n
  BY <1>5
<1>. QED
  BY <1>1, <1>2, <1>6

LEMMA GatherType ==
  ASSUME NEW S, NEW T, NEW f \in [S -> Seq(T)], NEW items \in Seq(S)
  PROVE  Gather(f, items) \in Seq(T)
BY MappedIsSeq, FlattenType DEF Gather

LEMMA GatherConcat ==
  ASSUME NEW S, NEW T, NEW f \in [S -> Seq(T)], NEW r \in Seq(S), NEW s \in Seq(S)
  PROVE  Gather(f, r \o s) = Gather(f, r) \o Gather(f, s)
<1>0. ASSUME NEW q \in Seq(S)
      PROVE  Mapped(f, q) \in Seq(Seq(T)) /\ Len(Mapped(f, q)) = Len(q)
  <2>1. Mapped(f, q) \in Seq(Seq(T))
    BY MappedIsSeq, Zenon
  <2>2. DOMAIN Mapped(f, q) = DOMAIN q
    BY DEF Mapped
  <2>3. 1..Len(Mapped(f, q)) = 1..Len(q) /\ Len(Mapped(f, q)) \in Nat /\ Len(q) \in Nat
    BY <2>1, <2>2, LenProperties
  <2>. QED
    BY <2>1, <2>3
<1>1. PICK mr : mr = Mapped(f, r)
  OBVIOUS
<1>2. PICK ms : ms = Mapped(f, s)
  OBVIOUS
<1>3. PICK t \in Seq(S) : t = r \o s
  BY ConcatProperties
<1>4. PICK mt : mt = Mapped(f, t)
  OBVIOUS
<1>5. /\ mr \in Seq(Seq(T)) /\ Len(mr) = Len(r)
      /\ ms \in Seq(Seq(T)) /\ Len(ms) = Len(s)
      /\ mt \in Seq(Seq(T)) /\ Len(mt) = Len(t)
  BY <1>0, <1>1, <1>2, <1>4
<1>6. PICK a \in Nat, b \in Nat : a = Len(r) /\ b = Len(s)
  BY LenProperties
<1>7. DOMAIN r = 1..a /\ DOMAIN s = 1..b /\ DOMAIN t = 1..(a + b) /\ Len(t) = a + b
  BY <1>3, <1>6, LenProperties, ConcatProperties
<1>8. \A i \in 1..(a + b) : t[i] = IF i <= a THEN r[i] ELSE s[i - a]
  BY <1>3, <1>6, ConcatProperties
<1>9. PICK c \in Seq(Seq(T)) : c = mr \o ms
  BY <1>5, ConcatProperties
<1>10. /\ Len(c) = a + b
       /\ \A i \in 1..(a + b) : c[i] = IF i <= a THEN mr[i] ELSE ms[i - a]
  <2>1. Len(mr) = a /\ Len(ms) = b
    BY <1>5, <1>6
  <2>2. /\ Len(mr \o ms) = Len(mr) + Len(ms)
        /\ \A i \in 1..(Len(mr) + Len(ms)) :
             (mr \o ms)[i] = IF i <= Len(mr) THEN mr[i] ELSE ms[i - Len(mr)]
    BY <1>5, ConcatProperties
  <2>. QED
    BY <1>9, <2>1, <2>2
<1>11. ASSUME NEW i \in 1..(a + b) PROVE c[i] = mt[i]
  <2>1. mt[i] = f[t[i]]
    BY <1>4, <1>7 DEF Mapped
  <2>2. CASE i <= a
    <3>1. i \in 1..a
      BY <2>2
    <3>2. mr[i] = f[r[i]]
      BY <1>1, <1>7, <3>1 DEF Mapped
    <3>. QED
      BY <1>8, <1>10, <2>1, <2>2, <3>2
  <2>3. CASE ~(i <= a)
    <3>1. i - a \in 1..b
      BY <2>3
    <3>2. ms[i - a] = f[s[i - a]]
      BY <1>2, <1>7, <3>1 DEF Mapped
    <3>. QED
      BY <1>8, <1>10, <2>1, <2>3, <3>2
  <2>. QED
    BY <2>2, <2>3
<1>12. c = mt
  BY <1>5, <1>7, <1>10, <1>11, SeqEqual
<1>13. FlattenSeq(c) = FlattenSeq(mr) \o FlattenSeq(ms)
  BY <1>5, <1>9, FlattenConcat
<1>. QED
  BY <1>1, <1>2, <1>3, <1>4, <1>12, <1>13 DEF Gather

LEMMA GatherEmpty ==
  ASSUME NEW f
  PROVE  Gather(f, <<>>) = <<>>
<1>1. Mapped(f, <<>>) = <<>>
  BY DEF Mapped
<1>. QED
  BY <1>1, FlattenEmpty DEF Gather

LEMMA GatherOne ==
  ASSUME NEW S, NEW T, NEW f \in [S -> Seq(T)], NEW x \in S
  PROVE  Gather(f, <<x>>) = f[x]
<1>1. Mapped(f, <<x>>) = <<f[x]>>
  BY DEF Mapped
<1>2. f[x] \in Seq(T)
  OBVIOUS
<1>. QED
  BY <1>1, <1>2, FlattenOne DEF Gather

LEMMA GatherAppend ==
  ASSUME NEW S, NEW T, NEW f \in [S -> Seq(T)], NEW items \in Seq(S), NEW x \in S
  PROVE  Gather(f, Append(items, x)) = Gather(f, items) \o f[x]
<1>1. PICK one \in Seq(S) : one = <<x>>
  <2>1. <<x>> \in Seq(S)
    OBVIOUS
  <2>. QED
    BY <2>1
<1>2. Append(items, x) = items \o one
  BY <1>1, AppendIsConcat
<1>3. Gather(f, items \o one) = Gather(f, items) \o Gather(f, one)
  BY GatherConcat
<1>4. Gather(f, one) = f[x]
  BY <1>1, GatherOne
<1>. QED
  BY <1>2, <1>3, <1>4

LEMMA GatherElements ==
  ASSUME NEW S, NEW T, NEW f \in [S -> Seq(T)], NEW items \in Seq(S), NEW y
  PROVE  Has(Gather(f, items), y) <=> \E k \in DOMAIN items : Has(f[items[k]], y)
<1>1. PICK m \in Seq(Seq(T)) : m = Mapped(f, items)
  BY MappedIsSeq
<1>2. Has(FlattenSeq(m), y) <=> \E k \in DOMAIN m : Has(m[k], y)
  BY FlattenElements
<1>3. DOMAIN m = DOMAIN items /\ \A k \in DOMAIN items : m[k] = f[items[k]]
  BY <1>1 DEF Mapped
<1>. QED
  BY <1>1, <1>2, <1>3 DEF Gather

-----------------------------------------------------------------------------
(* PiiText: letters, tags and what they spell *)

Pieces == {p \in [type : Types \cup {"letter"}, word : Seq(Chars)] :
             p.type = "letter" => Len(p.word) = 1}

LEMMA LetterIsPiece ==
  ASSUME NEW c \in Chars
  PROVE  Letter(c) \in Pieces /\ IsLetter(Letter(c)) /\ Letter(c).word = <<c>>
<1>1. <<c>> \in Seq(Chars) /\ Len(<<c>>) = 1
  OBVIOUS
<1>. QED
  BY <1>1 DEF Letter, Pieces, IsLetter

LEMMA PieceIsLetter ==
  ASSUME NEW p \in Pieces, IsLetter(p)
  PROVE  \E c \in Chars : p = Letter(c)
<1>1. p.word \in Seq(Chars) /\ Len(p.word) = 1 /\ p = [type |-> "letter", word |-> p.word]
  BY DEF Pieces, IsLetter
<1>2. p.word[1] \in Chars
  BY <1>1, ElementOfSeq
<1>3. p.word = <<p.word[1]>>
  BY <1>1
<1>. QED
  BY <1>1, <1>2, <1>3 DEF Letter

LEMMA LettersType ==
  ASSUME NEW t \in Seq(Chars)
  PROVE  /\ Letters(t) \in Seq(Pieces)
         /\ Len(Letters(t)) = Len(t)
         /\ \A i \in 1..Len(t) : Letters(t)[i] = Letter(t[i])
<1>1. PICK n \in Nat : n = Len(t)
  BY LenProperties
<1>2. DOMAIN t = 1..n
  BY <1>1, LenProperties
<1>3. \A i \in 1..n : Letter(t[i]) \in Pieces
  BY <1>1, ElementOfSeq, LetterIsPiece
<1>4. Letters(t) \in [1..n -> Pieces] /\ \A i \in 1..n : Letters(t)[i] = Letter(t[i])
  BY <1>2, <1>3 DEF Letters
<1>5. Letters(t) \in Seq(Pieces) /\ Len(Letters(t)) = n
  BY <1>4
<1>. QED
  BY <1>1, <1>4, <1>5

LEMMA LettersConcat ==
  ASSUME NEW r \in Seq(Chars), NEW s \in Seq(Chars)
  PROVE  Letters(r \o s) = Letters(r) \o Letters(s)
<1>1. PICK t \in Seq(Chars) : t = r \o s
  BY ConcatProperties
<1>2. PICK a \in Nat, b \in Nat : a = Len(r) /\ b = Len(s)
  BY LenProperties
<1>3. /\ Len(t) = a + b
      /\ \A i \in 1..(a + b) : t[i] = IF i <= a THEN r[i] ELSE s[i - a]
  BY <1>1, <1>2, ConcatProperties
<1>4. PICK lr \in Seq(Pieces), ls \in Seq(Pieces) : lr = Letters(r) /\ ls = Letters(s)
  BY LettersType
<1>5. /\ Len(lr) = a /\ \A i \in 1..a : lr[i] = Letter(r[i])
      /\ Len(ls) = b /\ \A i \in 1..b : ls[i] = Letter(s[i])
  BY <1>2, <1>4, LettersType
<1>6. PICK c \in Seq(Pieces) : c = lr \o ls
  BY ConcatProperties
<1>7. /\ Len(c) = a + b
      /\ \A i \in 1..(a + b) : c[i] = IF i <= a THEN lr[i] ELSE ls[i - a]
  <2>1. /\ Len(lr \o ls) = Len(lr) + Len(ls)
        /\ \A i \in 1..(Len(lr) + Len(ls)) :
             (lr \o ls)[i] = IF i <= Len(lr) THEN lr[i] ELSE ls[i - Len(lr)]
    BY ConcatProperties
  <2>. QED
    BY <1>5, <1>6, <2>1
<1>8. ASSUME NEW i \in 1..(a + b) PROVE c[i] = Letter(t[i])
  <2>1. CASE i <= a
    BY <1>3, <1>5, <1>7, <2>1
  <2>2. CASE ~(i <= a)
    <3>1. i - a \in 1..b
      BY <2>2
    <3>. QED
      BY <1>3, <1>5, <1>7, <2>2, <3>1
  <2>. QED
    BY <2>1, <2>2
<1>9. /\ Letters(t) \in Seq(Pieces) /\ Len(Letters(t)) = a + b
      /\ \A i \in 1..(a + b) : Letters(t)[i] = Letter(t[i])
  BY <1>3, LettersType
<1>10. Letters(t) = c
  BY <1>7, <1>8, <1>9, SeqEqual
<1>. QED
  BY <1>1, <1>4, <1>6, <1>10

\* What a piece spells, the letter it is, and what Restore makes of it.
Spelling == [p \in Pieces |-> p.word]
Lettering == [p \in Pieces |-> IF IsLetter(p) THEN <<p>> ELSE <<>>]
Restoring(words) == [p \in Pieces |-> IF p.word \in words THEN Letters(p.word) ELSE <<p>>]

LEMMA PieceFunctions ==
  ASSUME NEW words
  PROVE  /\ Spelling \in [Pieces -> Seq(Chars)]
         /\ Lettering \in [Pieces -> Seq(Pieces)]
         /\ Restoring(words) \in [Pieces -> Seq(Pieces)]
<1>1. \A p \in Pieces : p.word \in Seq(Chars)
  BY DEF Pieces
<1>2. \A p \in Pieces : <<p>> \in Seq(Pieces) /\ Letters(p.word) \in Seq(Pieces)
  BY <1>1, LettersType
<1>3. <<>> \in Seq(Pieces)
  BY EmptySeq
<1>4. Spelling \in [Pieces -> Seq(Chars)]
  BY <1>1 DEF Spelling
<1>5. Lettering \in [Pieces -> Seq(Pieces)]
  BY <1>2, <1>3 DEF Lettering
<1>6. Restoring(words) \in [Pieces -> Seq(Pieces)]
  BY <1>2 DEF Restoring
<1>. QED
  BY <1>4, <1>5, <1>6

LEMMA PieceGathers ==
  ASSUME NEW items \in Seq(Pieces), NEW words
  PROVE  /\ Spelled(items) = Gather(Spelling, items)
         /\ LettersIn(items) = Gather(Lettering, items)
         /\ Restore(items, words) = Gather(Restoring(words), items)
<1>1. \A i \in DOMAIN items : items[i] \in Pieces
  BY LenProperties
<1>2. Mapped(Spelling, items) = [i \in DOMAIN items |-> items[i].word]
  BY <1>1 DEF Mapped, Spelling
<1>3. Mapped(Lettering, items)
        = [i \in DOMAIN items |-> IF IsLetter(items[i]) THEN <<items[i]>> ELSE <<>>]
  BY <1>1 DEF Mapped, Lettering
<1>4. Mapped(Restoring(words), items)
        = [i \in DOMAIN items |-> IF items[i].word \in words THEN Letters(items[i].word)
                                                             ELSE <<items[i]>>]
  BY <1>1 DEF Mapped, Restoring
<1>. QED
  BY <1>2, <1>3, <1>4 DEF Gather, Spelled, LettersIn, Restore

LEMMA SpelledFacts ==
  ASSUME NEW r \in Seq(Pieces), NEW s \in Seq(Pieces), NEW p \in Pieces
  PROVE  /\ Spelled(r) \in Seq(Chars)
         /\ Spelled(r \o s) = Spelled(r) \o Spelled(s)
         /\ Spelled(Append(r, p)) = Spelled(r) \o p.word
         /\ Spelled(<<p>>) = p.word
         /\ Spelled(<<>>) = <<>>
<1>1. PICK f \in [Pieces -> Seq(Chars)] : f = Spelling
  BY PieceFunctions
<1>2. \A q \in Seq(Pieces) : Spelled(q) = Gather(f, q)
  BY <1>1, PieceGathers
<1>3. r \o s \in Seq(Pieces) /\ Append(r, p) \in Seq(Pieces)
  BY ConcatProperties, AppendProperties
<1>4. <<p>> \in Seq(Pieces)
  OBVIOUS
<1>5. <<>> \in Seq(Pieces)
  BY EmptySeq
<1>6. f[p] = p.word
  BY <1>1 DEF Spelling
<1>7. Gather(f, r) \in Seq(Chars)
  BY GatherType
<1>8. Gather(f, r \o s) = Gather(f, r) \o Gather(f, s)
  BY GatherConcat
<1>9. Gather(f, Append(r, p)) = Gather(f, r) \o f[p]
  BY GatherAppend
<1>10. Gather(f, <<p>>) = f[p]
  BY GatherOne
<1>11. Gather(f, <<>>) = <<>>
  BY GatherEmpty
<1>. QED
  BY <1>2, <1>3, <1>4, <1>5, <1>6, <1>7, <1>8, <1>9, <1>10, <1>11

LEMMA LettersInFacts ==
  ASSUME NEW r \in Seq(Pieces), NEW s \in Seq(Pieces), NEW p \in Pieces
  PROVE  /\ LettersIn(r) \in Seq(Pieces)
         /\ LettersIn(r \o s) = LettersIn(r) \o LettersIn(s)
         /\ LettersIn(Append(r, p)) = LettersIn(r) \o (IF IsLetter(p) THEN <<p>> ELSE <<>>)
         /\ LettersIn(<<p>>) = IF IsLetter(p) THEN <<p>> ELSE <<>>
         /\ LettersIn(<<>>) = <<>>
<1>1. PICK f \in [Pieces -> Seq(Pieces)] : f = Lettering
  BY PieceFunctions
<1>2. \A q \in Seq(Pieces) : LettersIn(q) = Gather(f, q)
  BY <1>1, PieceGathers
<1>3. r \o s \in Seq(Pieces) /\ Append(r, p) \in Seq(Pieces)
  BY ConcatProperties, AppendProperties
<1>4. <<p>> \in Seq(Pieces)
  OBVIOUS
<1>5. <<>> \in Seq(Pieces)
  BY EmptySeq
<1>6. f[p] = IF IsLetter(p) THEN <<p>> ELSE <<>>
  BY <1>1 DEF Lettering
<1>7. Gather(f, r) \in Seq(Pieces)
  BY GatherType
<1>8. Gather(f, r \o s) = Gather(f, r) \o Gather(f, s)
  <2>1. \A T : \A g \in [Pieces -> Seq(T)] : \A a, b \in Seq(Pieces) :
          Gather(g, a \o b) = Gather(g, a) \o Gather(g, b)
    BY GatherConcat
  <2>2. \A g \in [Pieces -> Seq(Pieces)] : \A a, b \in Seq(Pieces) :
          Gather(g, a \o b) = Gather(g, a) \o Gather(g, b)
    BY <2>1
  <2>. QED
    BY <2>2
<1>9. Gather(f, Append(r, p)) = Gather(f, r) \o f[p]
  BY GatherAppend
<1>10. Gather(f, <<p>>) = f[p]
  BY GatherOne
<1>11. Gather(f, <<>>) = <<>>
  BY GatherEmpty
<1>. QED
  BY <1>2, <1>3, <1>4, <1>5, <1>6, <1>7, <1>8, <1>9, <1>10, <1>11

LEMMA RestoreFacts ==
  ASSUME NEW words, NEW r \in Seq(Pieces), NEW p \in Pieces
  PROVE  /\ Restore(r, words) \in Seq(Pieces)
         /\ Restore(Append(r, p), words)
              = Restore(r, words) \o (IF p.word \in words THEN Letters(p.word) ELSE <<p>>)
         /\ Restore(<<>>, words) = <<>>
<1>1. PICK f \in [Pieces -> Seq(Pieces)] : f = Restoring(words)
  BY PieceFunctions
<1>2. \A q \in Seq(Pieces) : Restore(q, words) = Gather(f, q)
  BY <1>1, PieceGathers
<1>3. Append(r, p) \in Seq(Pieces)
  BY AppendProperties
<1>4. <<>> \in Seq(Pieces)
  BY EmptySeq
<1>5. f[p] = IF p.word \in words THEN Letters(p.word) ELSE <<p>>
  BY <1>1 DEF Restoring
<1>6. Gather(f, r) \in Seq(Pieces)
  BY GatherType
<1>7. Gather(f, Append(r, p)) = Gather(f, r) \o f[p]
  BY GatherAppend
<1>8. Gather(f, <<>>) = <<>>
  BY GatherEmpty
<1>. QED
  BY <1>2, <1>3, <1>4, <1>5, <1>6, <1>7, <1>8

LEMMA RestoreAppend ==
  ASSUME NEW words, NEW r \in Seq(Pieces), NEW p \in Pieces
  PROVE  Restore(Append(r, p), words)
           = Restore(r, words) \o (IF p.word \in words THEN Letters(p.word) ELSE <<p>>)
BY RestoreFacts

\* A text in letters spells itself and is all letters.
LEMMA LettersSpell ==
  ASSUME NEW t \in Seq(Chars)
  PROVE  Spelled(Letters(t)) = t /\ LettersIn(Letters(t)) = Letters(t)
<1>1. PICK P : P = {s \in Seq(Chars) : /\ Spelled(Letters(s)) = s
                                       /\ LettersIn(Letters(s)) = Letters(s)}
  OBVIOUS
<1>2. <<>> \in P
  <2>1. Letters(<<>>) = <<>>
    BY DEF Letters
  <2>2. Spelled(<<>>) = <<>> /\ LettersIn(<<>>) = <<>>
    BY FlattenEmpty DEF Spelled, LettersIn
  <2>. QED
    BY <1>1, <2>1, <2>2, EmptySeq
<1>3. ASSUME NEW s \in Seq(Chars), NEW c \in Chars, s \in P PROVE Append(s, c) \in P
  <2>1. PICK u \in Seq(Chars) : u = Append(s, c)
    BY AppendProperties
  <2>2. PICK p \in Pieces : p = Letter(c) /\ IsLetter(p) /\ p.word = <<c>>
    BY LetterIsPiece
  <2>3. PICK items \in Seq(Pieces) : items = Letters(s)
    BY LettersType
  <2>4. PICK more \in Seq(Pieces) : more = Append(items, p)
    BY AppendProperties
  <2>5. Letters(u) = more
    <3>1. PICK n \in Nat : n = Len(s)
      BY LenProperties
    <3>2. /\ Len(u) = n + 1 /\ u[n + 1] = c
          /\ \A i \in 1..n : u[i] = s[i]
      BY <2>1, <3>1, AppendProperties
    <3>3. Len(items) = n /\ \A i \in 1..n : items[i] = Letter(s[i])
      BY <2>3, <3>1, LettersType
    <3>4. /\ Len(more) = n + 1 /\ more[n + 1] = p
          /\ \A i \in 1..n : more[i] = items[i]
      <4>1. /\ Len(Append(items, p)) = Len(items) + 1 /\ Append(items, p)[Len(items) + 1] = p
            /\ \A i \in 1..Len(items) : Append(items, p)[i] = items[i]
        BY AppendProperties
      <4>. QED
        BY <2>4, <3>3, <4>1
    <3>5. /\ Letters(u) \in Seq(Pieces) /\ Len(Letters(u)) = n + 1
          /\ \A i \in 1..(n + 1) : Letters(u)[i] = Letter(u[i])
      BY <3>2, LettersType
    <3>6. \A i \in 1..(n + 1) : i \in 1..n \/ i = n + 1
      OBVIOUS
    <3>7. \A i \in 1..(n + 1) : Letters(u)[i] = more[i]
      BY <2>2, <3>2, <3>3, <3>4, <3>5, <3>6
    <3>. QED
      BY <3>4, <3>5, <3>7, SeqEqual
  <2>6. Spelled(items) = s /\ LettersIn(items) = items
    BY <1>1, <1>3, <2>3
  <2>7. Spelled(more) = s \o <<c>>
    <3>1. Spelled(Append(items, p)) = Spelled(items) \o p.word
      BY SpelledFacts
    <3>. QED
      BY <2>2, <2>4, <2>6, <3>1
  <2>8. LettersIn(more) = items \o <<p>>
    <3>1. LettersIn(Append(items, p))
            = LettersIn(items) \o (IF IsLetter(p) THEN <<p>> ELSE <<>>)
      BY LettersInFacts
    <3>. QED
      BY <2>2, <2>4, <2>6, <3>1
  <2>9. u = s \o <<c>>
    BY <2>1, AppendIsConcat
  <2>10. more = items \o <<p>>
    BY <2>4, AppendIsConcat
  <2>. QED
    BY <1>1, <2>1, <2>5, <2>7, <2>8, <2>9, <2>10
<1>4. Seq(Chars) \subseteq P
  BY <1>2, <1>3, SeqSetInduction
<1>. QED
  BY <1>1, <1>4

\* Turning tags back changes no word.
LEMMA RestoreSpells ==
  ASSUME NEW words, NEW items \in Seq(Pieces)
  PROVE  Spelled(Restore(items, words)) = Spelled(items)
<1>1. PICK P : P = {s \in Seq(Pieces) : Spelled(Restore(s, words)) = Spelled(s)}
  OBVIOUS
<1>2. <<>> \in P
  BY <1>1, EmptySeq, FlattenEmpty DEF Restore
<1>3. ASSUME NEW s \in Seq(Pieces), NEW p \in Pieces, s \in P PROVE Append(s, p) \in P
  <2>1. PICK back \in Seq(Pieces) : back = IF p.word \in words THEN Letters(p.word) ELSE <<p>>
    <3>1. Letters(p.word) \in Seq(Pieces) /\ <<p>> \in Seq(Pieces)
      BY LettersType DEF Pieces
    <3>. QED
      BY <3>1
  <2>2. Spelled(back) = p.word
    <3>1. p.word \in Seq(Chars)
      BY DEF Pieces
    <3>2. Spelled(Letters(p.word)) = p.word
      BY <3>1, LettersSpell
    <3>3. Spelled(<<p>>) = p.word
      BY SpelledFacts
    <3>. QED
      BY <2>1, <3>2, <3>3
  <2>3. PICK done \in Seq(Pieces) : done = Restore(s, words)
    BY RestoreFacts
  <2>4. Restore(Append(s, p), words) = done \o back
    <3>1. Restore(Append(s, p), words)
            = Restore(s, words) \o (IF p.word \in words THEN Letters(p.word) ELSE <<p>>)
      BY RestoreAppend
    <3>. QED
      BY <2>1, <2>3, <3>1
  <2>5. Spelled(done \o back) = Spelled(done) \o Spelled(back)
    BY SpelledFacts
  <2>6. Spelled(Append(s, p)) = Spelled(s) \o p.word
    BY SpelledFacts
  <2>7. Spelled(done) = Spelled(s)
    BY <1>1, <1>3, <2>3
  <2>8. Append(s, p) \in Seq(Pieces)
    BY AppendProperties
  <2>. QED
    BY <1>1, <2>2, <2>4, <2>5, <2>6, <2>7, <2>8
<1>4. Seq(Pieces) \subseteq P
  BY <1>2, <1>3, SeqSetInduction
<1>. QED
  BY <1>1, <1>4

\* With the words of all its tags, the text comes back.
LEMMA RestoreAll ==
  ASSUME NEW words, NEW items \in Seq(Pieces),
         \A i \in DOMAIN items : IsLetter(items[i]) \/ items[i].word \in words
  PROVE  Restore(items, words) = Letters(Spelled(items))
<1>. DEFINE Known(s) == \A i \in DOMAIN s : IsLetter(s[i]) \/ s[i].word \in words
<1>1. PICK P : P = {s \in Seq(Pieces) : Known(s) => Restore(s, words) = Letters(Spelled(s))}
  OBVIOUS
<1>2. <<>> \in P
  <2>1. Restore(<<>>, words) = <<>> /\ Spelled(<<>>) = <<>> /\ Letters(<<>>) = <<>>
    BY FlattenEmpty DEF Restore, Spelled, Letters
  <2>. HIDE DEF Known
  <2>. QED
    BY <1>1, <2>1, EmptySeq
<1>3. ASSUME NEW s \in Seq(Pieces), NEW p \in Pieces, s \in P PROVE Append(s, p) \in P
  <2>1. PICK more \in Seq(Pieces) : more = Append(s, p)
    BY AppendProperties
  <2>2. SUFFICES ASSUME Known(more) PROVE Restore(more, words) = Letters(Spelled(more))
    BY <1>1, <2>1
  <2>3. /\ Len(s) \in Nat /\ DOMAIN s = 1..Len(s) /\ DOMAIN more = 1..(Len(s) + 1)
        /\ more[Len(s) + 1] = p /\ \A i \in 1..Len(s) : more[i] = s[i]
    BY <2>1, LenProperties, AppendProperties
  <2>4. Known(s) /\ (IsLetter(p) \/ p.word \in words)
    <3>1. 1..Len(s) \subseteq DOMAIN more /\ Len(s) + 1 \in DOMAIN more
      BY <2>3
    <3>. QED
      BY <2>2, <2>3, <3>1
  <2>5. Restore(s, words) = Letters(Spelled(s))
    <3>. HIDE DEF Known
    <3>. QED
      BY <1>1, <1>3, <2>4
  <2>6. p.word \in Seq(Chars)
    BY DEF Pieces
  <2>7. (IF p.word \in words THEN Letters(p.word) ELSE <<p>>) = Letters(p.word)
    <3>1. ASSUME IsLetter(p) PROVE <<p>> = Letters(p.word)
      <4>1. PICK c \in Chars : p = Letter(c)
        BY <3>1, PieceIsLetter
      <4>2. p.word = <<c>>
        BY <4>1 DEF Letter
      <4>3. Letters(<<c>>) = <<Letter(c)>>
        BY DEF Letters
      <4>. QED
        BY <4>1, <4>2, <4>3
    <3>. QED
      BY <2>4, <3>1
  <2>8. Restore(more, words) = Letters(Spelled(s)) \o Letters(p.word)
    <3>1. Restore(Append(s, p), words)
            = Restore(s, words) \o (IF p.word \in words THEN Letters(p.word) ELSE <<p>>)
      BY RestoreAppend
    <3>. QED
      BY <2>1, <2>5, <2>7, <3>1
  <2>9. Spelled(s) \in Seq(Chars) /\ Spelled(more) = Spelled(s) \o p.word
    BY <2>1, SpelledFacts
  <2>10. Letters(Spelled(s) \o p.word) = Letters(Spelled(s)) \o Letters(p.word)
    BY <2>6, <2>9, LettersConcat
  <2>. QED
    BY <2>8, <2>9, <2>10
<1>4. Seq(Pieces) \subseteq P
  <2>. HIDE DEF Known
  <2>. QED
    BY <1>2, <1>3, SeqSetInduction
<1>. QED
  BY <1>1, <1>4

\* The tags that are left are those whose words are not among the words given.
LEMMA RestoredTags ==
  ASSUME NEW words, NEW items \in Seq(Pieces), NEW y, ~IsLetter(y)
  PROVE  Has(Restore(items, words), y) <=> Has(items, y) /\ y.word \notin words
<1>1. PICK f \in [Pieces -> Seq(Pieces)] : f = Restoring(words)
  BY PieceFunctions
<1>2. Restore(items, words) = Gather(f, items)
  BY <1>1, PieceGathers
<1>3. Has(Gather(f, items), y) <=> \E k \in DOMAIN items : Has(f[items[k]], y)
  BY GatherElements
<1>4. ASSUME NEW k \in DOMAIN items
      PROVE  Has(f[items[k]], y) <=> items[k] = y /\ y.word \notin words
  <2>1. PICK p \in Pieces : p = items[k]
    BY LenProperties
  <2>2. f[p] = IF p.word \in words THEN Letters(p.word) ELSE <<p>>
    BY <1>1 DEF Restoring
  <2>3. ~Has(Letters(p.word), y)
    <3>1. \A i \in DOMAIN Letters(p.word) : Letters(p.word)[i] = Letter(p.word[i])
      BY DEF Letters
    <3>2. \A c : IsLetter(Letter(c))
      BY DEF IsLetter, Letter
    <3>. QED
      BY <3>1, <3>2 DEF Has
  <2>4. Has(<<p>>, y) <=> p = y
    BY DEF Has
  <2>. QED
    BY <2>1, <2>2, <2>3, <2>4
<1>. QED
  BY <1>2, <1>3, <1>4 DEF Has

LEMMA TagsAreIn ==
  ASSUME NEW items, NEW t
  PROVE  t \in TagsIn(items) <=> Has(items, t) /\ ~IsLetter(t)
BY DEF TagsIn, Has

-----------------------------------------------------------------------------
(* PiiText: the letters no hit covers *)

Spans(t) == {h \in Hits(t) : h.from <= h.to}

Covered(K, i) == \E h \in K : i \in h.from..h.to

Cuts(t, K) == [i \in DOMAIN t |-> IF Covered(K, i) THEN <<>> ELSE <<t[i]>>]

Uncovered(t, K) == FlattenSeq(Cuts(t, K))

LEMMA SpanType ==
  ASSUME NEW t \in Seq(Chars), NEW h \in Spans(t)
  PROVE  /\ h.from \in 1..Len(t) /\ h.to \in 1..Len(t) /\ h.from <= h.to
         /\ h.type \in Types
         /\ h.from \in Nat /\ h.to \in Nat /\ Len(t) \in Nat
         /\ SubSeq(t, h.from, h.to) \in Seq(Chars)
<1>1. /\ h.from \in 1..Len(t) /\ h.to \in 1..Len(t) /\ h.from <= h.to
      /\ h.type \in Types
  BY DEF Spans, Hits, Types
<1>2. Len(t) \in Nat /\ \A i \in 1..Len(t) : t[i] \in Chars
  BY LenProperties, ElementOfSeq
<1>3. \A i \in h.from..h.to : t[i] \in Chars
  BY <1>1, <1>2
<1>4. SubSeq(t, h.from, h.to) \in Seq(Chars)
  BY <1>1, <1>2, <1>3, SubSeqProperties
<1>. QED
  BY <1>1, <1>2, <1>4

LEMMA CutsType ==
  ASSUME NEW t \in Seq(Chars), NEW K
  PROVE  Cuts(t, K) \in Seq(Seq(Chars)) /\ Len(Cuts(t, K)) = Len(t)
<1>1. PICK n \in Nat : n = Len(t) /\ DOMAIN t = 1..n
  BY LenProperties
<1>2. \A i \in 1..n : <<t[i]>> \in Seq(Chars) /\ <<>> \in Seq(Chars)
  BY <1>1, ElementOfSeq, EmptySeq
<1>3. Cuts(t, K) \in [1..n -> Seq(Chars)]
  BY <1>1, <1>2 DEF Cuts
<1>4. Cuts(t, K) \in Seq(Seq(Chars)) /\ Len(Cuts(t, K)) = n
  BY <1>3
<1>. QED
  BY <1>1, <1>4

\* Cut into letters, a text is whole.
LEMMA FlattenSingles ==
  ASSUME NEW t \in Seq(Chars)
  PROVE  FlattenSeq([i \in DOMAIN t |-> <<t[i]>>]) = t
<1>1. PICK f : f = [c \in Chars |-> <<c>>]
  OBVIOUS
<1>2. f \in [Chars -> Seq(Chars)]
  BY <1>1
<1>3. PICK P : P = {s \in Seq(Chars) : Gather(f, s) = s}
  OBVIOUS
<1>4. <<>> \in P
  BY <1>3, GatherEmpty, EmptySeq
<1>5. ASSUME NEW s \in Seq(Chars), NEW c \in Chars, s \in P PROVE Append(s, c) \in P
  <2>1. Gather(f, Append(s, c)) = Gather(f, s) \o f[c]
    BY <1>2, GatherAppend
  <2>2. f[c] = <<c>> /\ Gather(f, s) = s
    BY <1>1, <1>3, <1>5
  <2>3. Append(s, c) = s \o <<c>> /\ Append(s, c) \in Seq(Chars)
    BY AppendIsConcat, AppendProperties
  <2>. QED
    BY <1>3, <2>1, <2>2, <2>3
<1>6. Seq(Chars) \subseteq P
  BY <1>4, <1>5, SeqSetInduction
<1>7. Gather(f, t) = t
  BY <1>3, <1>6
<1>8. \A i \in DOMAIN t : t[i] \in Chars
  BY LenProperties
<1>9. Mapped(f, t) = [i \in DOMAIN t |-> <<t[i]>>]
  BY <1>1, <1>8 DEF Mapped
<1>. QED
  BY <1>7, <1>9 DEF Gather

LEMMA FlattenNothing ==
  ASSUME NEW T, NEW seqs \in Seq(Seq(T)), \A k \in DOMAIN seqs : seqs[k] = <<>>
  PROVE  FlattenSeq(seqs) = <<>>
<1>1. PICK f \in Seq(T) : f = FlattenSeq(seqs)
  BY FlattenType
<1>2. SUFFICES ASSUME f # <<>> PROVE FALSE
  BY <1>1
<1>3. Len(f) \in Nat \ {0} /\ DOMAIN f = 1..Len(f)
  BY <1>2, EmptySeq, LenProperties
<1>4. Has(f, f[1])
  BY <1>3 DEF Has
<1>5. PICK k \in DOMAIN seqs : Has(seqs[k], f[1])
  BY <1>1, <1>4, FlattenElements
<1>. QED
  BY <1>5 DEF Has

\* A sequence is what comes before a part of it, the part, and the rest.
LEMMA AroundPart ==
  ASSUME NEW S, NEW s \in Seq(S), NEW a \in Nat, NEW b \in Nat, NEW n \in Nat,
         a <= b, b <= n, n = Len(s)
  PROVE  /\ SubSeq(s, 1, a) \in Seq(S) /\ Len(SubSeq(s, 1, a)) = a
         /\ SubSeq(s, a + 1, b) \in Seq(S) /\ Len(SubSeq(s, a + 1, b)) = b - a
         /\ SubSeq(s, b + 1, n) \in Seq(S) /\ Len(SubSeq(s, b + 1, n)) = n - b
         /\ \A i \in 1..a : SubSeq(s, 1, a)[i] = s[i]
         /\ \A i \in 1..(b - a) : SubSeq(s, a + 1, b)[i] = s[a + i]
         /\ \A i \in 1..(n - b) : SubSeq(s, b + 1, n)[i] = s[b + i]
         /\ s = SubSeq(s, 1, a) \o (SubSeq(s, a + 1, b) \o SubSeq(s, b + 1, n))
<1>1. \A i \in 1..n : s[i] \in S
  BY ElementOfSeq
<1>2. /\ SubSeq(s, 1, a) \in Seq(S)
      /\ Len(SubSeq(s, 1, a)) = IF 1 <= a THEN a - 1 + 1 ELSE 0
      /\ \A i \in 1..(a - 1 + 1) : SubSeq(s, 1, a)[i] = s[1 + i - 1]
  <2>1. \A i \in 1..a : s[i] \in S
    BY <1>1
  <2>. QED
    BY <2>1, SubSeqProperties
<1>3. /\ SubSeq(s, a + 1, b) \in Seq(S)
      /\ Len(SubSeq(s, a + 1, b)) = IF a + 1 <= b THEN b - (a + 1) + 1 ELSE 0
      /\ \A i \in 1..(b - (a + 1) + 1) : SubSeq(s, a + 1, b)[i] = s[(a + 1) + i - 1]
  <2>1. \A i \in (a + 1)..b : s[i] \in S
    BY <1>1
  <2>. QED
    BY <2>1, SubSeqProperties
<1>4. /\ SubSeq(s, b + 1, n) \in Seq(S)
      /\ Len(SubSeq(s, b + 1, n)) = IF b + 1 <= n THEN n - (b + 1) + 1 ELSE 0
      /\ \A i \in 1..(n - (b + 1) + 1) : SubSeq(s, b + 1, n)[i] = s[(b + 1) + i - 1]
  <2>1. \A i \in (b + 1)..n : s[i] \in S
    BY <1>1
  <2>. QED
    BY <2>1, SubSeqProperties
<1>5. SubSeq(s, a + 1, b) \o SubSeq(s, b + 1, n) = SubSeq(s, a + 1, n)
  <2>1. a + 1 \in 1..(Len(s) + 1) /\ b \in (a + 1) - 1..Len(s) /\ n \in b..Len(s)
    OBVIOUS
  <2>. QED
    BY <2>1, ConcatAdjacentSubSeq
<1>6. SubSeq(s, 1, a) \o SubSeq(s, a + 1, n) = SubSeq(s, 1, n)
  <2>1. 1 \in 1..(Len(s) + 1) /\ a \in 1 - 1..Len(s) /\ n \in a..Len(s)
    OBVIOUS
  <2>. QED
    BY <2>1, ConcatAdjacentSubSeq
<1>7. SubSeq(s, 1, n) = s
  BY SubSeqFull
<1>8. \A i \in 1..a : SubSeq(s, 1, a)[i] = s[i]
  BY <1>2
<1>9. \A i \in 1..(b - a) : SubSeq(s, a + 1, b)[i] = s[a + i]
  <2>1. ASSUME NEW i \in 1..(b - a) PROVE i \in 1..(b - (a + 1) + 1) /\ (a + 1) + i - 1 = a + i
    OBVIOUS
  <2>. QED
    BY <1>3, <2>1
<1>10. \A i \in 1..(n - b) : SubSeq(s, b + 1, n)[i] = s[b + i]
  <2>1. ASSUME NEW i \in 1..(n - b) PROVE i \in 1..(n - (b + 1) + 1) /\ (b + 1) + i - 1 = b + i
    OBVIOUS
  <2>. QED
    BY <1>4, <2>1
<1>11. /\ Len(SubSeq(s, 1, a)) = a
       /\ Len(SubSeq(s, a + 1, b)) = b - a
       /\ Len(SubSeq(s, b + 1, n)) = n - b
  BY <1>2, <1>3, <1>4
<1>. QED
  BY <1>2, <1>3, <1>4, <1>5, <1>6, <1>7, <1>8, <1>9, <1>10, <1>11

Parts(s, a, b, n, s1, s2, s3) ==
  /\ s1 = SubSeq(s, 1, a) /\ s2 = SubSeq(s, a + 1, b) /\ s3 = SubSeq(s, b + 1, n)
  /\ s = s1 \o (s2 \o s3)
  /\ Len(s1) = a /\ Len(s2) = b - a /\ Len(s3) = n - b
  /\ \A i \in 1..a : s1[i] = s[i]
  /\ \A i \in 1..(b - a) : s2[i] = s[a + i]
  /\ \A i \in 1..(n - b) : s3[i] = s[b + i]

LEMMA ThreeParts ==
  ASSUME NEW S, NEW s \in Seq(S), NEW a \in Nat, NEW b \in Nat, NEW n \in Nat,
         a <= b, b <= n, Len(s) = n
  PROVE  \E s1, s2, s3 \in Seq(S) : Parts(s, a, b, n, s1, s2, s3)
<1>1. /\ SubSeq(s, 1, a) \in Seq(S) /\ SubSeq(s, a + 1, b) \in Seq(S)
      /\ SubSeq(s, b + 1, n) \in Seq(S)
  BY AroundPart
<1>2. s = SubSeq(s, 1, a) \o (SubSeq(s, a + 1, b) \o SubSeq(s, b + 1, n))
  BY AroundPart
<1>3. /\ Len(SubSeq(s, 1, a)) = a /\ Len(SubSeq(s, a + 1, b)) = b - a
      /\ Len(SubSeq(s, b + 1, n)) = n - b
  BY AroundPart
<1>4. /\ \A i \in 1..a : SubSeq(s, 1, a)[i] = s[i]
      /\ \A i \in 1..(b - a) : SubSeq(s, a + 1, b)[i] = s[a + i]
      /\ \A i \in 1..(n - b) : SubSeq(s, b + 1, n)[i] = s[b + i]
  BY AroundPart
<1>5. Parts(s, a, b, n, SubSeq(s, 1, a), SubSeq(s, a + 1, b), SubSeq(s, b + 1, n))
  BY <1>2, <1>3, <1>4 DEF Parts
<1>. QED
  BY <1>1, <1>5

\* Where the positions before, in and after a part lie.
Placed(a, b, n) ==
  /\ a <= b
  /\ \A i \in 1..a : i \in 1..b /\ i \in 1..n /\ i \notin (a + 1)..b
  /\ \A i \in 1..b : i \in 1..n
  /\ \A i \in (a + 1)..b : i \in 1..n
  /\ \A i \in 1..(b - a) : a + i \in (a + 1)..b /\ a + i \in 1..b
  /\ \A i \in 1..(n - b) : b + i \in 1..n /\ b + i \notin (a + 1)..b

LEMMA Positions ==
  ASSUME NEW a \in Nat, NEW b \in Nat, NEW n \in Nat, a < b, b <= n
  PROVE  Placed(a, b, n)
BY DEF Placed

\* A part that nothing covers is whole.
LEMMA FlattenPart ==
  ASSUME NEW part \in Seq(Seq(Chars)), NEW r \in Seq(Chars), Len(part) = Len(r),
         \A i \in 1..Len(r) : part[i] = <<r[i]>>
  PROVE  FlattenSeq(part) = r
<1>1. DOMAIN r = 1..Len(r) /\ DOMAIN part = 1..Len(r)
  BY LenProperties
<1>2. PICK n \in Nat : n = Len(r)
  BY LenProperties
<1>3. part \in [1..n -> Seq(Chars)]
  BY <1>2, LenProperties
<1>4. part = [i \in DOMAIN r |-> <<r[i]>>]
  BY <1>1, <1>2, <1>3
<1>. QED
  BY <1>4, FlattenSingles

\* What one more hit, to the left of the others, takes away.
LEMMA UncoveredStep ==
  ASSUME NEW t \in Seq(Chars), NEW K \in SUBSET Spans(t), NEW h \in Spans(t),
         \A k \in K : h.to < k.from
  PROVE  \E z \in Seq(Chars) :
           /\ Uncovered(t, K) = SubSeq(t, 1, h.from - 1) \o (SubSeq(t, h.from, h.to) \o z)
           /\ Uncovered(t, K \cup {h}) = SubSeq(t, 1, h.from - 1) \o z
<1>1. PICK n \in Nat : n = Len(t) /\ DOMAIN t = 1..n
  BY LenProperties
<1>2. PICK a \in Nat, b \in Nat : a = h.from - 1 /\ b = h.to /\ a + 1 = h.from /\ a < b /\ b <= n
  BY <1>1, SpanType
<1>21. /\ a <= b
       /\ \A i \in 1..a : i \in 1..b /\ i \in 1..n /\ i \notin (a + 1)..b
       /\ \A i \in 1..b : i \in 1..n
       /\ \A i \in (a + 1)..b : i \in 1..n
       /\ \A i \in 1..(b - a) : a + i \in (a + 1)..b /\ a + i \in 1..b
       /\ \A i \in 1..(n - b) : b + i \in 1..n /\ b + i \notin (a + 1)..b
  <2>1. Placed(a, b, n)
    BY <1>2, Positions
  <2>. QED
    BY <2>1 DEF Placed
<1>3. \A i \in 1..b : ~Covered(K, i)
  <2>1. \A k \in K : k.from \in Nat /\ k.to \in Nat
    BY SpanType
  <2>. QED
    BY <1>2, <2>1 DEF Covered
<1>4. \A i \in 1..n : Covered(K \cup {h}, i) <=> Covered(K, i) \/ i \in (a + 1)..b
  BY <1>2 DEF Covered
<1>5. PICK c \in Seq(Seq(Chars)) : c = Cuts(t, K) /\ Len(c) = n
  BY <1>1, CutsType
<1>6. PICK d \in Seq(Seq(Chars)) : d = Cuts(t, K \cup {h}) /\ Len(d) = n
  BY <1>1, CutsType
<1>7. \A i \in 1..b : c[i] = <<t[i]>>
  BY <1>1, <1>3, <1>5, <1>21 DEF Cuts
<1>8. \A i \in 1..n : i \notin (a + 1)..b => d[i] = c[i]
  BY <1>1, <1>4, <1>5, <1>6 DEF Cuts
<1>9. \A i \in (a + 1)..b : d[i] = <<>>
  BY <1>1, <1>4, <1>6, <1>21 DEF Cuts
<1>10. PICK c1, c2, c3 \in Seq(Seq(Chars)) : Parts(c, a, b, n, c1, c2, c3)
  BY <1>2, <1>5, <1>21, ThreeParts
<1>11. PICK d1, d2, d3 \in Seq(Seq(Chars)) : Parts(d, a, b, n, d1, d2, d3)
  BY <1>2, <1>6, <1>21, ThreeParts
<1>22. /\ c = c1 \o (c2 \o c3)
       /\ Len(c1) = a /\ Len(c2) = b - a /\ Len(c3) = n - b
  BY <1>10 DEF Parts
<1>23. /\ \A i \in 1..a : c1[i] = c[i]
       /\ \A i \in 1..(b - a) : c2[i] = c[a + i]
       /\ \A i \in 1..(n - b) : c3[i] = c[b + i]
  BY <1>10 DEF Parts
<1>24. /\ d = d1 \o (d2 \o d3)
       /\ Len(d1) = a /\ Len(d2) = b - a /\ Len(d3) = n - b
  BY <1>11 DEF Parts
<1>25. /\ \A i \in 1..a : d1[i] = d[i]
       /\ \A i \in 1..(b - a) : d2[i] = d[a + i]
       /\ \A i \in 1..(n - b) : d3[i] = d[b + i]
  BY <1>11 DEF Parts
<1>12. d1 = c1
  <2>1. \A i \in 1..a : d1[i] = c1[i]
    BY ONLY <1>8, <1>21, <1>23, <1>25
  <2>. QED
    BY <1>22, <1>24, <2>1, SeqEqual
<1>13. d3 = c3
  <2>1. \A i \in 1..(n - b) : d3[i] = c3[i]
    BY ONLY <1>8, <1>21, <1>23, <1>25
  <2>. QED
    BY <1>22, <1>24, <2>1, SeqEqual
<1>14. FlattenSeq(d2) = <<>>
  <2>1. DOMAIN d2 = 1..(b - a)
    BY <1>24, LenProperties
  <2>2. \A i \in DOMAIN d2 : d2[i] = <<>>
    BY ONLY <1>9, <1>21, <1>25, <2>1
  <2>. QED
    BY <2>2, FlattenNothing
<1>15. PICK t1, t2, t3 \in Seq(Chars) : Parts(t, a, b, n, t1, t2, t3)
  BY <1>1, <1>2, <1>21, ThreeParts
<1>26. /\ t1 = SubSeq(t, 1, a) /\ t2 = SubSeq(t, a + 1, b)
       /\ Len(t1) = a /\ Len(t2) = b - a
  BY <1>15 DEF Parts
<1>27. /\ \A i \in 1..a : t1[i] = t[i]
       /\ \A i \in 1..(b - a) : t2[i] = t[a + i]
  BY <1>15 DEF Parts
<1>16. FlattenSeq(c1) = t1
  <2>1. \A i \in 1..a : c1[i] = <<t1[i]>>
    BY ONLY <1>7, <1>21, <1>23, <1>27
  <2>2. Len(c1) = Len(t1) /\ \A i \in 1..Len(t1) : c1[i] = <<t1[i]>>
    BY <1>22, <1>26, <2>1
  <2>. QED
    BY <2>2, FlattenPart
<1>17. FlattenSeq(c2) = t2
  <2>1. \A i \in 1..(b - a) : c2[i] = <<t2[i]>>
    BY ONLY <1>7, <1>21, <1>23, <1>27
  <2>2. Len(c2) = Len(t2) /\ \A i \in 1..Len(t2) : c2[i] = <<t2[i]>>
    BY <1>22, <1>26, <2>1
  <2>. QED
    BY <2>2, FlattenPart
<1>18. PICK z \in Seq(Chars) : z = FlattenSeq(c3)
  BY FlattenType
<1>19. FlattenSeq(c) = t1 \o (t2 \o z)
  <2>1. c2 \o c3 \in Seq(Seq(Chars))
    BY ConcatProperties
  <2>2. FlattenSeq(c1 \o (c2 \o c3)) = FlattenSeq(c1) \o FlattenSeq(c2 \o c3)
    BY <2>1, FlattenConcat
  <2>3. FlattenSeq(c2 \o c3) = FlattenSeq(c2) \o FlattenSeq(c3)
    BY FlattenConcat
  <2>. QED
    BY <1>16, <1>17, <1>18, <1>22, <2>2, <2>3
<1>20. FlattenSeq(d) = t1 \o z
  <2>1. d2 \o c3 \in Seq(Seq(Chars))
    BY ConcatProperties
  <2>2. FlattenSeq(c1 \o (d2 \o c3)) = FlattenSeq(c1) \o FlattenSeq(d2 \o c3)
    BY <2>1, FlattenConcat
  <2>3. FlattenSeq(d2 \o c3) = FlattenSeq(d2) \o FlattenSeq(c3)
    BY FlattenConcat
  <2>4. <<>> \o z = z
    BY ConcatEmptySeq
  <2>. QED
    BY <1>12, <1>13, <1>14, <1>16, <1>18, <1>24, <2>2, <2>3, <2>4
<1>. QED
  BY <1>2, <1>5, <1>6, <1>19, <1>20, <1>26 DEF Uncovered

LEMMA CancelLeft ==
  ASSUME NEW S, NEW s \in Seq(S), NEW t \in Seq(S), NEW v \in Seq(S), s \o t = s \o v
  PROVE  t = v
<1>1. \A x, y, z \in Seq(S) : x \o y = x \o z => y = z
  BY ConcatSimplifications
<1>. QED
  BY <1>1

Regroups(r, s, t) == (r \o s) \o t = r \o (s \o t)

LEMMA RegroupRight ==
  ASSUME NEW S, NEW r \in Seq(S), NEW s \in Seq(S), NEW t \in Seq(S)
  PROVE  Regroups(r, s, t)
BY ConcatAssociative DEF Regroups

\* Up to the end of h, the pieces are still the letters of the text.
Untouched(t, out, h) == h.to <= Len(out) /\ \A i \in 1..h.to : out[i] = Letter(t[i])

ReplacedBy(out, h, item, new) ==
  new = SubSeq(out, 1, h.from - 1) \o <<item>> \o SubSeq(out, h.to + 1, Len(out))

ReplaceEffect(t, out, h, item, new) ==
  /\ new \in Seq(Pieces)
  /\ \A K \in SUBSET Spans(t) :
       /\ \A k \in K : h.to < k.from
       /\ LettersIn(out) = Letters(Uncovered(t, K))
       => LettersIn(new) = Letters(Uncovered(t, K \cup {h}))
  /\ item.word = SubSeq(t, h.from, h.to) => Spelled(new) = Spelled(out)
  /\ h.from - 1 <= Len(new)
  /\ \A i \in 1..(h.from - 1) : new[i] = Letter(t[i])
  /\ \A y : ~IsLetter(y) => (Has(new, y) <=> y = item \/ Has(out, y))
  /\ \A y : Has(new, y) => y = item \/ Has(out, y)

\* What a replacement does to pieces that are untouched up to the end of the hit.
LEMMA ReplaceStep ==
  ASSUME NEW t \in Seq(Chars), NEW out \in Seq(Pieces), NEW h \in Spans(t),
         Untouched(t, out, h), NEW item \in Pieces, ~IsLetter(item),
         NEW new, ReplacedBy(out, h, item, new)
  PROVE  ReplaceEffect(t, out, h, item, new)
<1>. USE DEF Untouched, ReplacedBy
<1>1. PICK m \in Nat, n \in Nat : m = Len(t) /\ n = Len(out) /\ Len(t) = m /\ Len(out) = n
  BY LenProperties
<1>2. PICK a \in Nat, b \in Nat :
        a = h.from - 1 /\ b = h.to /\ a + 1 = h.from /\ a < b /\ a <= b /\ b <= m /\ b <= n
  BY <1>1, SpanType
<1>3. /\ \A i \in 1..a : i \in 1..b
      /\ \A i \in 1..(b - a) : a + i \in 1..b
  <2>1. Placed(a, b, m)
    BY <1>2, Positions
  <2>. QED
    BY <2>1 DEF Placed
<1>4. PICK o1, o2, o3 \in Seq(Pieces) : Parts(out, a, b, n, o1, o2, o3)
  BY <1>1, <1>2, ThreeParts
<1>5. PICK t1, t2, t3 \in Seq(Chars) : Parts(t, a, b, m, t1, t2, t3)
  BY <1>1, <1>2, ThreeParts
<1>6. o1 = Letters(t1)
  <2>1. Len(o1) = a /\ \A i \in 1..a : o1[i] = out[i]
    BY <1>4 DEF Parts
  <2>2. Len(t1) = a /\ \A i \in 1..a : t1[i] = t[i]
    BY <1>5 DEF Parts
  <2>3. /\ Letters(t1) \in Seq(Pieces) /\ Len(Letters(t1)) = a
        /\ \A i \in 1..a : Letters(t1)[i] = Letter(t1[i])
    BY <2>2, LettersType
  <2>4. \A i \in 1..a : o1[i] = Letters(t1)[i]
    BY <1>2, <1>3, <2>1, <2>2, <2>3
  <2>. QED
    BY <2>1, <2>3, <2>4, SeqEqual
<1>7. o2 = Letters(t2)
  <2>1. Len(o2) = b - a /\ \A i \in 1..(b - a) : o2[i] = out[a + i]
    BY <1>4 DEF Parts
  <2>2. Len(t2) = b - a /\ \A i \in 1..(b - a) : t2[i] = t[a + i]
    BY <1>5 DEF Parts
  <2>3. /\ Letters(t2) \in Seq(Pieces) /\ Len(Letters(t2)) = b - a
        /\ \A i \in 1..(b - a) : Letters(t2)[i] = Letter(t2[i])
    BY <2>2, LettersType
  <2>4. ASSUME NEW i \in 1..(b - a) PROVE o2[i] = Letters(t2)[i]
    <3>1. a + i \in 1..h.to
      BY <1>2, <1>3
    <3>2. out[a + i] = Letter(t[a + i])
      BY <3>1
    <3>. QED
      BY <2>1, <2>2, <2>3, <3>2
  <2>. QED
    BY <2>1, <2>3, <2>4, SeqEqual
<1>8. PICK one \in Seq(Pieces) : one = <<item>>
  <2>1. <<item>> \in Seq(Pieces)
    OBVIOUS
  <2>. QED
    BY <2>1
<1>9. PICK rest \in Seq(Pieces) : rest = one \o o3
  BY ConcatProperties
<1>10. PICK old \in Seq(Pieces) : old = o2 \o o3
  BY ConcatProperties
<1>11. out = o1 \o old
  BY <1>4, <1>10 DEF Parts
<1>12. new = o1 \o rest
  <2>1. new = (o1 \o one) \o o3
    BY <1>1, <1>2, <1>4, <1>8 DEF Parts
  <2>2. (o1 \o one) \o o3 = o1 \o (one \o o3)
    <3>1. Regroups(o1, one, o3)
      BY RegroupRight
    <3>. QED
      BY <3>1, Zenon DEF Regroups
  <2>. QED
    BY <1>9, <2>1, <2>2
<1>13. new \in Seq(Pieces)
  <2>1. o1 \o rest \in Seq(Pieces)
    BY ConcatProperties
  <2>. QED
    BY <1>12, <2>1
<1>14. ASSUME NEW K \in SUBSET Spans(t), \A k \in K : h.to < k.from,
              LettersIn(out) = Letters(Uncovered(t, K))
       PROVE  LettersIn(new) = Letters(Uncovered(t, K \cup {h}))
  <2>1. PICK z \in Seq(Chars) : /\ Uncovered(t, K) = t1 \o (t2 \o z)
                                 /\ Uncovered(t, K \cup {h}) = t1 \o z
    <3>1. PICK z \in Seq(Chars) :
            /\ Uncovered(t, K) = SubSeq(t, 1, h.from - 1) \o (SubSeq(t, h.from, h.to) \o z)
            /\ Uncovered(t, K \cup {h}) = SubSeq(t, 1, h.from - 1) \o z
      BY <1>14, UncoveredStep
    <3>2. t1 = SubSeq(t, 1, h.from - 1) /\ t2 = SubSeq(t, h.from, h.to)
      BY <1>2, <1>5 DEF Parts
    <3>. QED
      BY <3>1, <3>2
  <2>2. PICK l3 \in Seq(Pieces), lz \in Seq(Pieces) : l3 = LettersIn(o3) /\ lz = Letters(z)
    BY LettersInFacts, LettersType
  <2>3. LettersIn(o1) = o1 /\ LettersIn(o2) = o2 /\ LettersIn(one) = <<>>
    BY <1>6, <1>7, <1>8, LettersSpell, LettersInFacts
  <2>4. LettersIn(out) = o1 \o (o2 \o l3)
    <3>1. LettersIn(o1 \o old) = LettersIn(o1) \o LettersIn(old)
      BY LettersInFacts
    <3>2. LettersIn(o2 \o o3) = LettersIn(o2) \o LettersIn(o3)
      BY LettersInFacts
    <3>. QED
      BY <1>10, <1>11, <2>2, <2>3, <3>1, <3>2
  <2>5. LettersIn(new) = o1 \o l3
    <3>1. LettersIn(o1 \o rest) = LettersIn(o1) \o LettersIn(rest)
      BY LettersInFacts
    <3>2. LettersIn(one \o o3) = LettersIn(one) \o LettersIn(o3)
      BY LettersInFacts
    <3>3. <<>> \o l3 = l3
      BY ConcatEmptySeq
    <3>. QED
      BY <1>9, <1>12, <2>2, <2>3, <3>1, <3>2, <3>3
  <2>6. Letters(t1 \o (t2 \o z)) = o1 \o (o2 \o lz)
    <3>1. t2 \o z \in Seq(Chars)
      BY ConcatProperties
    <3>2. Letters(t1 \o (t2 \o z)) = Letters(t1) \o Letters(t2 \o z)
      BY <3>1, LettersConcat
    <3>3. Letters(t2 \o z) = Letters(t2) \o Letters(z)
      BY LettersConcat
    <3>. QED
      BY <1>6, <1>7, <2>2, <3>2, <3>3
  <2>7. Letters(t1 \o z) = o1 \o lz
    BY <1>6, <2>2, LettersConcat
  <2>8. o1 \o (o2 \o l3) = o1 \o (o2 \o lz)
    BY <1>14, <2>1, <2>4, <2>6
  <2>9. o2 \o l3 = o2 \o lz
    <3>1. o2 \o l3 \in Seq(Pieces) /\ o2 \o lz \in Seq(Pieces)
      BY ConcatProperties
    <3>. QED
      BY <2>8, <3>1, CancelLeft
  <2>10. l3 = lz
    BY <2>9, CancelLeft
  <2>. QED
    BY <2>1, <2>5, <2>7, <2>10
<1>15. ASSUME item.word = SubSeq(t, h.from, h.to) PROVE Spelled(new) = Spelled(out)
  <2>1. item.word = t2
    BY <1>2, <1>5, <1>15 DEF Parts
  <2>2. Spelled(one) = t2 /\ Spelled(o2) = t2
    BY <1>7, <1>8, <2>1, SpelledFacts, LettersSpell
  <2>3. Spelled(rest) = t2 \o Spelled(o3) /\ Spelled(old) = t2 \o Spelled(o3)
    <3>1. Spelled(one \o o3) = Spelled(one) \o Spelled(o3)
      BY SpelledFacts
    <3>2. Spelled(o2 \o o3) = Spelled(o2) \o Spelled(o3)
      BY SpelledFacts
    <3>. QED
      BY <1>9, <1>10, <2>2, <3>1, <3>2
  <2>4. Spelled(o1 \o rest) = Spelled(o1) \o Spelled(rest)
    BY SpelledFacts
  <2>5. Spelled(o1 \o old) = Spelled(o1) \o Spelled(old)
    BY SpelledFacts
  <2>. QED
    BY <1>11, <1>12, <2>3, <2>4, <2>5
<1>16. h.from - 1 <= Len(new) /\ \A i \in 1..(h.from - 1) : new[i] = Letter(t[i])
  <2>1. Len(o1) = a /\ \A i \in 1..a : o1[i] = out[i]
    BY <1>4 DEF Parts
  <2>2. PICK q \in Nat : q = Len(rest)
    BY LenProperties
  <2>3. /\ Len(o1 \o rest) = Len(o1) + Len(rest)
        /\ \A i \in 1..(Len(o1) + Len(rest)) :
             (o1 \o rest)[i] = IF i <= Len(o1) THEN o1[i] ELSE rest[i - Len(o1)]
    BY ConcatProperties
  <2>4. \A i \in 1..a : i \in 1..(a + q) /\ i <= a
    OBVIOUS
  <2>5. \A i \in 1..a : new[i] = out[i]
    BY <1>12, <2>1, <2>2, <2>3, <2>4
  <2>6. a <= Len(new)
    <3>1. Len(new) = a + q
      BY <1>12, <2>1, <2>2, <2>3
    <3>2. a <= a + q
      BY ONLY a \in Nat, q \in Nat
    <3>. QED
      BY <3>1, <3>2
  <2>. QED
    BY <1>2, <1>3, <2>5, <2>6
<1>17. ASSUME NEW y
       PROVE  /\ Has(new, y) <=> Has(o1, y) \/ y = item \/ Has(o3, y)
              /\ Has(out, y) <=> Has(o1, y) \/ Has(o2, y) \/ Has(o3, y)
  <2>1. Has(one, y) <=> y = item
    BY <1>8 DEF Has
  <2>2. Has(o1 \o rest, y) <=> Has(o1, y) \/ Has(rest, y)
    BY HasConcat
  <2>3. Has(one \o o3, y) <=> Has(one, y) \/ Has(o3, y)
    BY HasConcat
  <2>4. Has(o1 \o old, y) <=> Has(o1, y) \/ Has(old, y)
    BY HasConcat
  <2>5. Has(o2 \o o3, y) <=> Has(o2, y) \/ Has(o3, y)
    BY HasConcat
  <2>. QED
    BY <1>9, <1>10, <1>11, <1>12, <2>1, <2>2, <2>3, <2>4, <2>5
<1>18. ASSUME NEW y, ~IsLetter(y) PROVE ~Has(o2, y)
  <2>1. \A i \in DOMAIN Letters(t2) : Letters(t2)[i] = Letter(t2[i])
    BY DEF Letters
  <2>2. \A c : IsLetter(Letter(c))
    BY DEF IsLetter, Letter
  <2>. QED
    BY <1>7, <1>18, <2>1, <2>2 DEF Has
<1>19. \A y : ~IsLetter(y) => (Has(new, y) <=> y = item \/ Has(out, y))
  BY <1>17, <1>18
<1>20. \A y : Has(new, y) => y = item \/ Has(out, y)
  BY <1>17
<1>. QED
  BY <1>13, <1>14, <1>15, <1>16, <1>19, <1>20 DEF ReplaceEffect

-----------------------------------------------------------------------------
(* PiiText: the replacement *)

\* What the output is when of the kept hits K the hits L are still to be replaced: up to
\* each of those it is the text, its letters are those the others do not cover, and with
\* tags it spells the text, has words of K only, and one tag at least for each hit done.
Rewritten(t, K, L, out, tagged) ==
  /\ out \in Seq(Pieces)
  /\ \A h \in L : Untouched(t, out, h)
  /\ \A g \in L : \A k \in K \ L : g.to < k.from
  /\ LettersIn(out) = Letters(Uncovered(t, K \ L))
  /\ tagged =>
       /\ Spelled(out) = t
       /\ \A y : Has(out, y) => IsLetter(y) \/ \E h \in K : y.word = SubSeq(t, h.from, h.to)
       /\ \A h \in K \ L :
            \E y : Has(out, y) /\ ~IsLetter(y) /\ y.word = SubSeq(t, h.from, h.to)

\* Before the first replacement.
LEMMA RewrittenAtFirst ==
  ASSUME NEW t \in Seq(Chars), NEW K \in SUBSET Spans(t), NEW tagged \in BOOLEAN
  PROVE  Rewritten(t, K, K, Letters(t), tagged)
<1>1. PICK out \in Seq(Pieces) : out = Letters(t)
  BY LettersType
<1>2. /\ Len(out) = Len(t) /\ Len(t) \in Nat
      /\ \A i \in 1..Len(t) : out[i] = Letter(t[i])
  BY <1>1, LettersType, LenProperties
<1>3. ASSUME NEW h \in K PROVE h.to <= Len(out) /\ \A i \in 1..h.to : out[i] = Letter(t[i])
  <2>1. h.to \in 1..Len(t)
    BY SpanType
  <2>. QED
    BY <1>2, <2>1
<1>4. K \ K = {}
  OBVIOUS
<1>5. Uncovered(t, {}) = t
  <2>1. Cuts(t, {}) = [i \in DOMAIN t |-> <<t[i]>>]
    BY DEF Cuts, Covered
  <2>. QED
    BY <2>1, FlattenSingles DEF Uncovered
<1>6. Spelled(out) = t /\ LettersIn(out) = out
  BY <1>1, LettersSpell
<1>7. \A y : Has(out, y) => IsLetter(y)
  <2>1. \A i \in DOMAIN out : out[i] = Letter(t[i])
    BY <1>1 DEF Letters
  <2>. QED
    BY <2>1 DEF Has, IsLetter, Letter
<1>. QED
  BY <1>1, <1>3, <1>4, <1>5, <1>6, <1>7 DEF Rewritten, Untouched

\* One replacement, of the rightmost hit that is left.
LEMMA RewriteStep ==
  ASSUME NEW t \in Seq(Chars), NEW K \in SUBSET Spans(t), NEW L \in SUBSET K, NEW out,
         NEW tagged \in BOOLEAN, Rewritten(t, K, L, out, tagged),
         \A f, g \in K : f # g => ~Overlap(f, g),
         NEW h \in L, \A g \in L : g.from <= h.from,
         NEW item \in Pieces, ~IsLetter(item),
         tagged => item.word = SubSeq(t, h.from, h.to),
         NEW new,
         new = SubSeq(out, 1, h.from - 1) \o <<item>> \o SubSeq(out, h.to + 1, Len(out))
  PROVE  Rewritten(t, K, L \ {h}, new, tagged)
<1>1. /\ out \in Seq(Pieces)
      /\ \A g \in L : g.to <= Len(out) /\ \A i \in 1..g.to : out[i] = Letter(t[i])
      /\ \A g \in L : \A k \in K \ L : g.to < k.from
      /\ LettersIn(out) = Letters(Uncovered(t, K \ L))
  BY DEF Rewritten, Untouched
<1>2. h \in Spans(t) /\ h.to <= Len(out) /\ \A i \in 1..h.to : out[i] = Letter(t[i])
  BY <1>1
<1>3. /\ new \in Seq(Pieces)
      /\ \A M \in SUBSET Spans(t) :
           /\ \A k \in M : h.to < k.from
           /\ LettersIn(out) = Letters(Uncovered(t, M))
           => LettersIn(new) = Letters(Uncovered(t, M \cup {h}))
      /\ item.word = SubSeq(t, h.from, h.to) => Spelled(new) = Spelled(out)
      /\ h.from - 1 <= Len(new)
      /\ \A i \in 1..(h.from - 1) : new[i] = Letter(t[i])
      /\ \A y : ~IsLetter(y) => (Has(new, y) <=> y = item \/ Has(out, y))
      /\ \A y : Has(new, y) => y = item \/ Has(out, y)
  <2>1. Untouched(t, out, h) /\ ReplacedBy(out, h, item, new) /\ out \in Seq(Pieces)
    BY <1>1, <1>2 DEF Untouched, ReplacedBy
  <2>2. ReplaceEffect(t, out, h, item, new)
    BY <1>2, <2>1, ReplaceStep
  <2>. QED
    BY <2>2 DEF ReplaceEffect
<1>4. ASSUME NEW g \in L \ {h} PROVE g.to < h.from /\ g.to <= h.from - 1
  <2>1. g \in Spans(t) /\ h \in Spans(t) /\ g \in K /\ h \in K /\ g # h
    OBVIOUS
  <2>2. /\ g.from \in Nat /\ g.to \in Nat /\ g.from <= g.to
        /\ h.from \in Nat /\ h.to \in Nat /\ h.from <= h.to
    BY <2>1, SpanType
  <2>3. g.from <= h.from /\ ~(g.from <= h.to /\ h.from <= g.to)
    BY <2>1 DEF Overlap
  <2>. QED
    BY <2>2, <2>3
<1>5. \A g \in L \ {h} : g.to <= Len(new) /\ \A i \in 1..g.to : new[i] = Letter(t[i])
  <2>1. SUFFICES ASSUME NEW g \in L \ {h}
                 PROVE  g.to <= Len(new) /\ \A i \in 1..g.to : new[i] = Letter(t[i])
    OBVIOUS
  <2>2. g.to \in Nat /\ h.from \in Nat
    BY SpanType
  <2>3. Len(new) \in Nat
    BY <1>3, LenProperties
  <2>4. g.to <= h.from - 1
    BY <1>4
  <2>5. h.from - 1 <= Len(new) /\ \A i \in 1..(h.from - 1) : new[i] = Letter(t[i])
    BY <1>3
  <2>. QED
    BY ONLY <2>2, <2>3, <2>4, <2>5
<1>6. (K \ L) \cup {h} = K \ (L \ {h}) /\ K \ L \in SUBSET Spans(t)
  OBVIOUS
<1>7. \A g \in L \ {h} : \A k \in K \ (L \ {h}) : g.to < k.from
  BY <1>1, <1>4, <1>6
<1>8. LettersIn(new) = Letters(Uncovered(t, K \ (L \ {h})))
  <2>1. \A k \in K \ L : h.to < k.from
    BY <1>1
  <2>. QED
    BY <1>1, <1>3, <1>6, <2>1
<1>9. ASSUME tagged
      PROVE  /\ Spelled(new) = t
             /\ \A y : Has(new, y) =>
                  IsLetter(y) \/ \E k \in K : y.word = SubSeq(t, k.from, k.to)
             /\ \A k \in K \ (L \ {h}) :
                  \E y : Has(new, y) /\ ~IsLetter(y) /\ y.word = SubSeq(t, k.from, k.to)
  <2>1. /\ Spelled(out) = t
        /\ \A y : Has(out, y) =>
             IsLetter(y) \/ \E k \in K : y.word = SubSeq(t, k.from, k.to)
        /\ \A k \in K \ L :
             \E y : Has(out, y) /\ ~IsLetter(y) /\ y.word = SubSeq(t, k.from, k.to)
    BY <1>9 DEF Rewritten
  <2>2. item.word = SubSeq(t, h.from, h.to)
    BY <1>9
  <2>3. Spelled(new) = t
    BY <1>3, <2>1, <2>2
  <2>4. \A y : Has(new, y) => IsLetter(y) \/ \E k \in K : y.word = SubSeq(t, k.from, k.to)
    BY <1>3, <2>1, <2>2, Zenon
  <2>5. ASSUME NEW k \in K \ (L \ {h})
        PROVE  \E y : Has(new, y) /\ ~IsLetter(y) /\ y.word = SubSeq(t, k.from, k.to)
    <3>1. CASE k = h
      BY <1>3, <2>2, <3>1
    <3>2. CASE k # h
      <4>1. PICK y : Has(out, y) /\ ~IsLetter(y) /\ y.word = SubSeq(t, k.from, k.to)
        BY <2>1, <3>2
      <4>. QED
        BY <1>3, <4>1
    <3>. QED
      BY <3>1, <3>2
  <2>. QED
    BY <2>3, <2>4, <2>5
<1>. QED
  BY <1>3, <1>5, <1>7, <1>8, <1>9 DEF Rewritten, Untouched

\* Of hits in a text, one comes last and one first.
LEMMA LastAndFirst ==
  ASSUME NEW t \in Seq(Chars), NEW K \in SUBSET Spans(t), K # {}
  PROVE  /\ \E g \in K : \A k \in K : k.from <= g.from
         /\ \E g \in K : \A k \in K : g.from <= k.from
<1>1. PICK n \in Nat : n = Len(t)
  BY LenProperties
<1>2. \A k \in K : k.from \in Nat /\ k.from <= n
  BY <1>1, SpanType
<1>3. PICK A : A = {n - k.from : k \in K}
  OBVIOUS
<1>4. A \in SUBSET Nat /\ A # {}
  BY <1>2, <1>3
<1>5. PICK a \in A : \A b \in A : a <= b
  BY <1>4, LeastNatural
<1>6. PICK g \in K : a = n - g.from
  BY <1>3
<1>7. \A k \in K : k.from <= g.from
  <2>1. \A k \in K : n - g.from <= n - k.from
    BY <1>3, <1>5, <1>6
  <2>. QED
    BY <1>2, <2>1
<1>8. PICK F : F = {k.from : k \in K}
  OBVIOUS
<1>9. F \in SUBSET Nat /\ F # {}
  BY <1>2, <1>8
<1>10. PICK f \in F : \A b \in F : f <= b
  BY <1>9, LeastNatural
<1>11. PICK e \in K : f = e.from
  BY <1>8
<1>12. \A k \in K : e.from <= k.from
  BY <1>8, <1>10, <1>11
<1>. QED
  BY <1>7, <1>12

-----------------------------------------------------------------------------
(* PiiText: the invariant *)

\* What is known of the hits at each stage.
HitsKnown ==
  /\ text \in Seq(Chars)
  /\ hits \subseteq Spans(text)
  /\ left \subseteq hits /\ kept \subseteq hits /\ flagged \subseteq kept
  /\ \A g, h \in kept : g # h => ~Overlap(g, h)
  /\ use \in {"chat", "log", "vault"}
  /\ stage \in {"given", "ranking", "scanned", "decided", "replacing", "done"}
  /\ withheld \subseteq Types
  /\ stage \in {"given", "ranking"} => flagged = {}
  /\ stage = "given" => kept = {}

TextUntouched == stage \in {"given", "ranking", "scanned", "decided"} => output = Letters(text)

TextRewritten ==
  stage = "replacing" =>
    /\ flagged # {} /\ left \subseteq kept
    /\ Rewritten(text, kept, left, output, use # "log")

TextInv == HitsKnown /\ TextUntouched /\ TextRewritten /\ TextsAreRestored

LEMMA TextInitially == PiiTextInit => TextInv
<1>. SUFFICES ASSUME PiiTextInit PROVE TextInv
  OBVIOUS
<1>. USE DEF PiiTextInit
<1>1. text \in Seq(Chars)
  BY PiiTextAssumption
<1>2. HitsKnown
  BY <1>1 DEF HitsKnown
<1>3. TextUntouched /\ TextRewritten /\ TextsAreRestored
  BY DEF TextUntouched, TextRewritten, TextsAreRestored
<1>. QED
  BY <1>2, <1>3 DEF TextInv

\* The scan: what is ranked and kept does not overlap, and the text is left alone.
LEMMA ScanStep ==
  ASSUME TextInv,
         \/ Analyze \/ EndScan \/ VerifyHits \/ SkipVerifier
         \/ \E h \in hits : Rank(h)
  PROVE  TextInv'
<1>. USE DEF TextInv
<1>1. CASE Analyze
  <2>1. stage = "given" /\ stage' = "ranking" /\ hits' \in Scans(text) /\ left' = hits'
        /\ UNCHANGED <<text, use, kept, flagged, output, withheld, returned>>
    BY <1>1 DEF Analyze
  <2>2. hits' \subseteq Spans(text)
    <3>1. \A f \in [1..MaxHits -> Spans(text)] : {f[n] : n \in 1..MaxHits} \subseteq Spans(text)
      OBVIOUS
    <3>. QED
      BY <2>1, <3>1 DEF Scans, Spans
  <2>3. kept = {} /\ flagged = {} /\ output = Letters(text)
    BY <2>1 DEF HitsKnown, TextUntouched
  <2>4. HitsKnown'
    BY <2>1, <2>2, <2>3 DEF HitsKnown
  <2>. QED
    BY <2>1, <2>3, <2>4 DEF TextUntouched, TextRewritten, TextsAreRestored
<1>2. CASE EndScan
  <2>1. stage = "ranking" /\ flagged' = kept /\ stage' = "scanned"
        /\ UNCHANGED <<text, hits, use, left, kept, output, withheld, returned>>
    BY <1>2 DEF EndScan
  <2>2. HitsKnown'
    BY <2>1 DEF HitsKnown
  <2>. QED
    BY <2>1, <2>2 DEF TextUntouched, TextRewritten, TextsAreRestored
<1>3. CASE VerifyHits
  <2>1. stage = "scanned" /\ flagged' \subseteq flagged /\ stage' = "decided"
        /\ UNCHANGED <<text, hits, use, left, kept, output, withheld, returned>>
    BY <1>3 DEF VerifyHits
  <2>2. HitsKnown'
    BY <2>1 DEF HitsKnown
  <2>. QED
    BY <2>1, <2>2 DEF TextUntouched, TextRewritten, TextsAreRestored
<1>4. CASE SkipVerifier
  <2>1. stage = "scanned" /\ stage' = "decided"
        /\ UNCHANGED <<text, hits, use, left, kept, flagged, output, withheld, returned>>
    BY <1>4 DEF SkipVerifier
  <2>2. HitsKnown'
    BY <2>1 DEF HitsKnown
  <2>. QED
    BY <2>1, <2>2 DEF TextUntouched, TextRewritten, TextsAreRestored
<1>5. ASSUME NEW h \in hits, Rank(h) PROVE TextInv'
  <2>1. /\ stage = "ranking" /\ h \in left /\ left' = left \ {h}
        /\ kept' = IF \E g \in kept : Overlap(g, h) THEN kept ELSE kept \cup {h}
        /\ UNCHANGED <<text, hits, use, stage, flagged, output, withheld, returned>>
    BY <1>5 DEF Rank
  <2>2. \A f, g \in kept' : f # g => ~Overlap(f, g)
    <3>1. \A f, g \in kept : f # g => ~Overlap(f, g)
      BY DEF HitsKnown
    <3>2. CASE \E g \in kept : Overlap(g, h)
      BY <2>1, <3>1, <3>2
    <3>3. CASE ~\E g \in kept : Overlap(g, h)
      <4>1. kept' = kept \cup {h}
        BY <2>1, <3>3
      <4>2. \A f, g : Overlap(f, g) <=> Overlap(g, f)
        BY DEF Overlap
      <4>. QED
        BY <3>1, <3>3, <4>1, <4>2
    <3>. QED
      BY <3>2, <3>3
  <2>3. flagged = {}
    BY <2>1 DEF HitsKnown
  <2>4. HitsKnown'
    <3>1. kept' \subseteq hits
      BY <2>1 DEF HitsKnown
    <3>. QED
      BY <2>1, <2>2, <2>3, <3>1 DEF HitsKnown, Overlap
  <2>. QED
    BY <2>1, <2>4 DEF TextUntouched, TextRewritten, TextsAreRestored
<1>. QED
  BY <1>1, <1>2, <1>3, <1>4, <1>5

\* The replacement: each step is one of RewriteStep.
LEMMA ReplacementStep ==
  ASSUME TextInv,
         AnalyzeAgain \/ \E h \in hits : Pseudonymize(h) \/ Mask(h)
  PROVE  TextInv'
<1>. USE DEF TextInv
<1>1. /\ text \in Seq(Chars) /\ kept \in SUBSET Spans(text)
      /\ \A g, h \in kept : g # h => ~Overlap(g, h)
  BY DEF HitsKnown
<1>2. CASE AnalyzeAgain
  <2>1. /\ stage = "decided" /\ flagged # {} /\ left' = kept /\ stage' = "replacing"
        /\ UNCHANGED <<text, hits, use, kept, flagged, output, withheld, returned>>
    BY <1>2 DEF AnalyzeAgain
  <2>2. HitsKnown'
    BY <2>1 DEF HitsKnown
  <2>3. output = Letters(text)
    BY <2>1 DEF TextUntouched
  <2>4. Rewritten(text, kept, kept, output, use # "log")
    BY <1>1, <2>3, RewrittenAtFirst
  <2>5. TextRewritten'
    BY <2>1, <2>4 DEF TextRewritten
  <2>. QED
    BY <2>1, <2>2, <2>5 DEF TextUntouched, TextsAreRestored
<1>3. ASSUME NEW h \in hits, NEW item \in Pieces, ~IsLetter(item),
             use # "log" => item.word = SubSeq(text, h.from, h.to),
             Replace(h, item)
      PROVE  TextInv'
  <2>1. /\ stage = "replacing" /\ h \in left /\ Rightmost(h)
        /\ ReplacedBy(output, h, item, output')
        /\ left' = left \ {h}
        /\ UNCHANGED <<text, hits, use, stage, kept, flagged, withheld, returned>>
    BY <1>3 DEF Replace, ReplacedBy
  <2>2. /\ flagged # {} /\ left \in SUBSET kept
        /\ Rewritten(text, kept, left, output, use # "log")
    BY <2>1 DEF TextRewritten
  <2>3. \A g \in left : g.from <= h.from
    BY <2>1 DEF Rightmost
  <2>4. PICK new : new = output'
    OBVIOUS
  <2>5. Rewritten(text, kept, left \ {h}, new, use # "log")
    <3>1. ReplacedBy(output, h, item, new)
      BY <2>1, <2>4
    <3>. QED
      BY <1>1, <1>3, <2>1, <2>2, <2>3, <3>1, RewriteStep DEF ReplacedBy
  <2>6. TextRewritten'
    BY <2>1, <2>2, <2>4, <2>5 DEF TextRewritten
  <2>7. HitsKnown'
    BY <2>1 DEF HitsKnown
  <2>. QED
    BY <2>1, <2>6, <2>7 DEF TextUntouched, TextsAreRestored
<1>4. ASSUME NEW h \in hits, Pseudonymize(h) PROVE TextInv'
  <2>1. Replace(h, Tag(h))
    BY <1>4 DEF Pseudonymize
  <2>2. h \in kept
    BY <2>1 DEF Replace, TextRewritten
  <2>3. Tag(h) \in Pieces /\ ~IsLetter(Tag(h)) /\ Tag(h).word = SubSeq(text, h.from, h.to)
    <3>1. PICK K : K = {k \in kept : Word(k) = Word(h)}
      OBVIOUS
    <3>2. K \in SUBSET Spans(text) /\ K # {}
      BY <1>1, <2>2, <3>1
    <3>3. \E g \in K : \A k \in K : k.from <= g.from
      BY <1>1, <3>2, LastAndFirst
    <3>4. \E g \in kept : Word(g) = Word(h) /\ \A k \in kept : Word(k) = Word(h) => k.from <= g.from
      BY <3>1, <3>3
    <3>5. PICK last : last = CHOOSE g \in kept : /\ Word(g) = Word(h)
                                  /\ \A k \in kept : Word(k) = Word(h) => k.from <= g.from
      OBVIOUS
    <3>6. last \in kept
      BY <3>4, <3>5
    <3>7. last.type \in Types /\ SubSeq(text, h.from, h.to) \in Seq(Chars)
      BY <1>1, <2>2, <3>6, SpanType
    <3>8. Tag(h) = [type |-> last.type, word |-> SubSeq(text, h.from, h.to)]
      BY <3>5 DEF Tag, Word
    <3>9. last.type # "letter"
      BY <3>7, PiiTextAssumption
    <3>. QED
      BY <3>7, <3>8, <3>9 DEF Pieces, IsLetter
  <2>. QED
    BY <1>3, <2>1, <2>3
<1>5. ASSUME NEW h \in hits, Mask(h) PROVE TextInv'
  <2>1. Replace(h, Placeholder(h)) /\ use = "log"
    BY <1>5 DEF Mask
  <2>2. h \in kept
    BY <2>1 DEF Replace, TextRewritten
  <2>3. Placeholder(h) \in Pieces /\ ~IsLetter(Placeholder(h))
    <3>1. h.type \in Types
      BY <1>1, <2>2, SpanType
    <3>2. h.type # "letter"
      BY <3>1, PiiTextAssumption
    <3>3. <<>> \in Seq(Chars)
      BY EmptySeq
    <3>. QED
      BY <3>1, <3>2, <3>3 DEF Placeholder, Pieces, IsLetter
  <2>. QED
    BY <1>3, <2>1, <2>3
<1>. QED
  BY <1>2, <1>4, <1>5

\* Once every kept hit is replaced, what stays of the text is what none of them covers.
LEMMA AllReplaced ==
  ASSUME TextInv, Replaced
  PROVE  /\ ReplacesWholeHits
         /\ Rewritten(text, kept, {}, output, use # "log")
<1>1. stage = "replacing" /\ left = {}
  BY DEF Replaced
<1>2. Rewritten(text, kept, {}, output, use # "log")
  BY <1>1 DEF TextInv, TextRewritten
<1>3. LettersIn(output) = Letters(Uncovered(text, kept))
  <2>1. kept \ {} = kept
    OBVIOUS
  <2>. QED
    BY <1>2, <2>1 DEF Rewritten
<1>4. use # "log" => Spelled(output) = text
  BY <1>2 DEF Rewritten
<1>5. LettersIn(output) = LettersOutside(kept)
  BY <1>3 DEF LettersOutside, Uncovered, Cuts, Covered
<1>6. flagged \subseteq kept
  BY DEF TextInv, HitsKnown
<1>. QED
  BY <1>2, <1>4, <1>5, <1>6 DEF ReplacesWholeHits, LettersOutside

\* The vault gives back a word when a type the scan result has for it says so, and only then.
LEMMA VaultAnswers ==
  ASSUME NEW w, NEW F \in SUBSET Spans(text), F = flagged, text \in Seq(Chars)
  PROVE  /\ Recovered(w) => RowType(w) \in {h.type : h \in {g \in F : Word(g) = w}}
         /\ {h.type : h \in {g \in F : Word(g) = w}} # {} =>
              /\ Recovered(w)
              /\ RowType(w) \in {h.type : h \in {g \in F : Word(g) = w}}
<1>1. PICK S : S = {h \in F : Word(h) = w}
  OBVIOUS
<1>2. ASSUME Recovered(w) PROVE RowType(w) \in {h.type : h \in S}
  BY <1>1, <1>2 DEF Recovered
<1>3. ASSUME S # {} PROVE Recovered(w) /\ RowType(w) \in {h.type : h \in S}
  <2>1. \E h \in S : \A g \in S : h.from <= g.from
    BY <1>1, <1>3, LastAndFirst
  <2>2. PICK first : first = CHOOSE h \in S : \A g \in S : h.from <= g.from
    OBVIOUS
  <2>3. first \in S
    BY <2>1, <2>2
  <2>4. RowType(w) = first.type
    BY <1>1, <1>3, <2>2 DEF RowType
  <2>. QED
    BY <1>1, <2>3, <2>4 DEF Recovered
<1>. QED
  BY <1>1, <1>2, <1>3

\* The way back.
LEMMA RestoreStep ==
  ASSUME TextInv, LeaveText \/ KeepMasked \/ RestoreChat \/ ResolveFromVault
  PROVE  TextInv'
<1>1. /\ text \in Seq(Chars) /\ kept \in SUBSET Spans(text) /\ flagged \in SUBSET Spans(text)
      /\ HitsKnown
  BY DEF TextInv, HitsKnown
<1>2. CASE LeaveText
  <2>1. /\ stage = "decided" /\ flagged = {} /\ stage' = "done" /\ returned' = output
        /\ UNCHANGED <<text, hits, use, left, kept, flagged, output, withheld>>
    BY <1>2 DEF LeaveText
  <2>2. returned' = Letters(text) /\ Spelled(returned') = text
    BY <1>1, <2>1, LettersSpell DEF TextInv, TextUntouched
  <2>3. ReplacesWholeHits'
    BY <2>1 DEF ReplacesWholeHits, LettersOutside
  <2>4. TextsAreRestored'
    <3>1. \A w : VaultReturns(w)'
      BY <2>1 DEF VaultReturns
    <3>. QED
      BY <2>1, <2>2, <2>3, <3>1 DEF TextsAreRestored
  <2>5. HitsKnown'
    BY <1>1, <2>1 DEF HitsKnown
  <2>. QED
    BY <2>1, <2>4, <2>5 DEF TextInv, TextUntouched, TextRewritten
<1>3. CASE KeepMasked
  <2>1. /\ Replaced /\ use = "log" /\ stage' = "done"
        /\ UNCHANGED <<text, hits, use, left, kept, flagged, output, withheld>>
    BY <1>3 DEF KeepMasked
  <2>2. ReplacesWholeHits
    BY <2>1, AllReplaced
  <2>3. ReplacesWholeHits'
    BY <2>1, <2>2 DEF ReplacesWholeHits, LettersOutside
  <2>4. TextsAreRestored'
    BY <2>1, <2>3 DEF TextsAreRestored
  <2>5. HitsKnown'
    BY <1>1, <2>1 DEF HitsKnown
  <2>. QED
    BY <2>1, <2>4, <2>5 DEF TextInv, TextUntouched, TextRewritten
<1>4. CASE RestoreChat
  <2>1. /\ Replaced /\ use = "chat" /\ stage' = "done"
        /\ returned' = Restore(output, {Word(h) : h \in kept})
        /\ UNCHANGED <<text, hits, use, left, kept, flagged, output, withheld>>
    BY <1>4 DEF RestoreChat
  <2>2. /\ ReplacesWholeHits
        /\ Rewritten(text, kept, {}, output, use # "log")
    BY <2>1, AllReplaced
  <2>3. /\ output \in Seq(Pieces) /\ Spelled(output) = text
        /\ \A y : Has(output, y) =>
             IsLetter(y) \/ \E h \in kept : y.word = SubSeq(text, h.from, h.to)
    BY <2>1, <2>2 DEF Rewritten
  <2>4. PICK words : words = {Word(h) : h \in kept}
    OBVIOUS
  <2>5. \A i \in DOMAIN output : IsLetter(output[i]) \/ output[i].word \in words
    BY <2>3, <2>4 DEF Has, Word
  <2>6. Restore(output, words) = Letters(text)
    BY <2>3, <2>5, RestoreAll
  <2>7. ReplacesWholeHits'
    BY <2>1, <2>2 DEF ReplacesWholeHits, LettersOutside
  <2>8. TextsAreRestored'
    BY <2>1, <2>4, <2>6, <2>7 DEF TextsAreRestored
  <2>9. HitsKnown'
    BY <1>1, <2>1 DEF HitsKnown
  <2>. QED
    BY <2>1, <2>8, <2>9 DEF TextInv, TextUntouched, TextRewritten
<1>5. CASE ResolveFromVault
  <2>1. /\ Replaced /\ use = "vault" /\ stage' = "done" /\ withheld' \in SUBSET Types
        /\ returned' = Restore(output, {w \in {Word(h) : h \in kept} :
                                          Recovered(w) /\ RowType(w) \notin withheld'})
        /\ UNCHANGED <<text, hits, use, left, kept, flagged, output>>
    BY <1>5 DEF ResolveFromVault
  <2>2. /\ ReplacesWholeHits
        /\ Rewritten(text, kept, {}, output, use # "log")
    BY <2>1, AllReplaced
  <2>3. /\ output \in Seq(Pieces) /\ Spelled(output) = text
        /\ \A h \in kept :
             \E y : Has(output, y) /\ ~IsLetter(y) /\ y.word = SubSeq(text, h.from, h.to)
    BY <2>1, <2>2 DEF Rewritten
  <2>4. PICK hidden : hidden = withheld'
    OBVIOUS
  <2>5. PICK words : words = {w \in {Word(h) : h \in kept} :
                                Recovered(w) /\ RowType(w) \notin hidden}
    OBVIOUS
  <2>6. PICK back : back = Restore(output, words)
    OBVIOUS
  <2>7. returned' = back
    BY <2>1, <2>4, <2>5, <2>6
  <2>8. Spelled(back) = text
    BY <2>3, <2>6, RestoreSpells
  <2>9. ASSUME NEW h \in kept
        PROVE  LET types == {e.type : e \in {g \in flagged : Word(g) = Word(h)}}
                   given == \A t \in TagsIn(back) : t.word # Word(h)
               IN types # {} => /\ given => types \ hidden # {}
                                /\ types \cap hidden = {} => given
    <3>1. PICK types : types = {e.type : e \in {g \in flagged : Word(g) = Word(h)}}
      OBVIOUS
    <3>2. /\ Recovered(Word(h)) => RowType(Word(h)) \in types
          /\ types # {} => Recovered(Word(h)) /\ RowType(Word(h)) \in types
      <4>1. PICK F \in SUBSET Spans(text) : F = flagged
        BY <1>1
      <4>. QED
        BY <1>1, <3>1, <4>1, VaultAnswers
    <3>3. Word(h) \in words <=> Recovered(Word(h)) /\ RowType(Word(h)) \notin hidden
      BY <2>5
    <3>4. PICK y : Has(output, y) /\ ~IsLetter(y) /\ y.word = Word(h)
      BY <2>3 DEF Word
    <3>5. ASSUME NEW t PROVE t \in TagsIn(back) <=>
                               Has(output, t) /\ ~IsLetter(t) /\ t.word \notin words
      <4>1. t \in TagsIn(back) <=> Has(back, t) /\ ~IsLetter(t)
        BY TagsAreIn
      <4>2. ~IsLetter(t) => (Has(back, t) <=> Has(output, t) /\ t.word \notin words)
        BY <2>3, <2>6, RestoredTags
      <4>. QED
        BY <4>1, <4>2
    <3>6. (\A t \in TagsIn(back) : t.word # Word(h)) <=> Word(h) \in words
      BY <3>4, <3>5, Zenon
    <3>7. (\A t \in TagsIn(back) : t.word # Word(h)) => types \ hidden # {}
      BY <3>2, <3>3, <3>6
    <3>8. types # {} /\ types \cap hidden = {} => \A t \in TagsIn(back) : t.word # Word(h)
      BY <3>2, <3>3, <3>6
    <3>. QED
      BY <3>1, <3>7, <3>8
  <2>10. ReplacesWholeHits'
    BY <2>1, <2>2 DEF ReplacesWholeHits, LettersOutside
  <2>11. TextsAreRestored'
    <3>1. use' = "vault" /\ use' # "chat" /\ Spelled(returned') = text'
      BY <2>1, <2>7, <2>8
    <3>2. ASSUME NEW w \in {Word(h) : h \in kept} PROVE VaultReturns(w)'
      BY <2>1, <2>4, <2>7, <2>9 DEF VaultReturns, Word
    <3>3. \A w \in {Word(h) : h \in kept}' : VaultReturns(w)'
      BY <2>1, <3>2 DEF Word
    <3>. QED
      BY <2>10, <3>1, <3>3 DEF TextsAreRestored
  <2>12. HitsKnown'
    BY <1>1, <2>1 DEF HitsKnown
  <2>. QED
    BY <2>1, <2>11, <2>12 DEF TextInv, TextUntouched, TextRewritten
<1>. QED
  BY <1>2, <1>3, <1>4, <1>5

LEMMA TextUnchanged ==
  ASSUME TextInv, UNCHANGED textVars
  PROVE  TextInv'
<1>. USE DEF TextInv, textVars
<1>1. HitsKnown'
  BY DEF HitsKnown
<1>2. TextUntouched'
  BY DEF TextUntouched
<1>3. TextRewritten'
  BY DEF TextRewritten
<1>4. TextsAreRestored'
  BY DEF TextsAreRestored, ReplacesWholeHits, LettersOutside, VaultReturns, Word
<1>. QED
  BY <1>1, <1>2, <1>3, <1>4

\* However the hits lie, what is done with the text of a request, a log line or a chunk is
\* undone as far as it may be: the user of the chat gets the text of the request back, the
\* vault gives a caller the words of the types that are not withheld and none whose types
\* all are, and the letters outside the words that were replaced stay as they were.
THEOREM TextsComeBack == PiiTextSpec => []TextsAreRestored
<1>1. TextInv /\ [PiiTextNext]_textVars => TextInv'
  BY ScanStep, ReplacementStep, RestoreStep, TextUnchanged DEF PiiTextNext
<1>2. TextInv => TextsAreRestored
  BY DEF TextInv
<1>. QED
  BY TextInitially, <1>1, <1>2, PTL DEF PiiTextSpec

=============================================================================
