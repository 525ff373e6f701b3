------------------------- MODULE StudioCompare_proofs -------------------------
(***************************************************************************)
(* Proofs about the metrics file, its readers and the comparison with the  *)
(* Studio, for any labels, catalogs, contents of the Studio and number of  *)
(* benchmark runs, merges and comparisons.                                 *)
(***************************************************************************)
EXTENDS StudioCompare, SequenceTheorems, WellFoundedInduction, TLAPS

-----------------------------------------------------------------------------
(* Induction, and what FlattenSeq and Among compute.                       *)

\* A set of natural numbers that is not empty has a least element.
LEMMA LeastNatural ==
    ASSUME NEW S \in SUBSET Nat, S # {}
    PROVE  \E n \in S : \A m \in S : n <= m
<1> DEFINE R == {ss \in Nat \X Nat : ss[1] < ss[2]}
<1>1. IsWellFoundedOn(R, Nat)
  BY NatLessThanWellFounded DEF OpToRel
<1>2. \A x, y \in Nat : y < x => <<y, x>> \in R
  OBVIOUS
<1> HIDE DEF R
<1>3. PICK x \in S : \A y \in S : ~(<<y, x>> \in R)
  BY <1>1, WFMin
<1>4. ASSUME NEW y \in S PROVE x <= y
  <2>1. x \in Nat /\ y \in Nat /\ ~(y < x)
    BY <1>2, <1>3
  <2> QED BY <2>1
<1> QED BY <1>3, <1>4

\* Induction on the natural numbers, about a set and not about a formula, so
\* that a first-order prover can use it.
LEMMA SetInduction ==
    ASSUME NEW S, 0 \in S, \A n \in Nat : n \in S => n + 1 \in S
    PROVE  \A n \in Nat : n \in S
<1> DEFINE B == {n \in Nat : n \notin S}
<1>1. SUFFICES ASSUME B # {} PROVE FALSE
  OBVIOUS
<1>2. PICK n \in B : \A m \in B : n <= m
  BY <1>1, LeastNatural
<1>3. n \in Nat /\ n # 0 /\ n - 1 \in Nat
  BY <1>2
<1>4. n - 1 \in S
  BY <1>2, <1>3
<1> QED BY <1>2, <1>3, <1>4

\* f concatenates the first n sequences of s, as FlattenSeq does.
Chains(f, s, n) ==
    \A i \in 1 .. n : f[i] = IF i = 1 THEN s[i] ELSE f[i - 1] \o s[i]

\* Such a function exists.
LEMMA FlattenChain ==
    ASSUME NEW S, NEW s \in Seq(Seq(S)), NEW n \in Nat, n <= Len(s)
    PROVE  \E f \in [1 .. n -> Seq(S)] : Chains(f, s, n)
<1> DEFINE Good(k) == k <= Len(s) => \E f \in [1 .. k -> Seq(S)] : Chains(f, s, k)
           G == {k \in Nat : Good(k)}
<1>0. Len(s) \in Nat /\ \A i \in 1 .. Len(s) : s[i] \in Seq(S)
  OBVIOUS
<1>1. Good(0)
  <2>1. [i \in 1 .. 0 |-> <<>>] \in [1 .. 0 -> Seq(S)]
    OBVIOUS
  <2>2. Chains([i \in 1 .. 0 |-> <<>>], s, 0)
    BY DEF Chains
  <2> QED BY <2>1, <2>2
<1>2. ASSUME NEW k \in Nat, Good(k) PROVE Good(k + 1)
  <2>1. SUFFICES ASSUME k + 1 <= Len(s)
                 PROVE  \E f \in [1 .. k + 1 -> Seq(S)] : Chains(f, s, k + 1)
    OBVIOUS
  <2>2. PICK f \in [1 .. k -> Seq(S)] : Chains(f, s, k)
    <3>1. k <= Len(s)
      BY <2>1, <1>0
    <3> QED BY <3>1, <1>2
  <2> DEFINE last == IF k = 0 THEN s[1] ELSE f[k] \o s[k + 1]
             g == [i \in 1 .. k + 1 |-> IF i <= k THEN f[i] ELSE last]
  <2>3. last \in Seq(S)
    BY <2>1, <1>0, ConcatProperties
  <2>4. g \in [1 .. k + 1 -> Seq(S)]
    BY <2>3
  <2>5. ASSUME NEW i \in 1 .. k + 1
        PROVE  g[i] = IF i = 1 THEN s[i] ELSE g[i - 1] \o s[i]
    <3>1. CASE i <= k
      <4>1. /\ i \in 1 .. k /\ g[i] = f[i]
            /\ i # 1 => i - 1 \in 1 .. k /\ g[i - 1] = f[i - 1]
        BY <3>1
      <4> HIDE DEF g
      <4> QED BY <2>2, <4>1 DEF Chains
    <3>2. CASE i = k + 1
      <4>1. g[i] = last /\ (i # 1 => g[i - 1] = f[k])
        BY <3>2
      <4> HIDE DEF g
      <4> QED BY <3>2, <4>1
    <3> QED BY <3>1, <3>2
  <2> HIDE DEF g
  <2>6. Chains(g, s, k + 1)
    BY <2>5 DEF Chains
  <2> QED BY <2>4, <2>6
<1> HIDE DEF Good
<1>3. 0 \in G /\ \A k \in Nat : k \in G => k + 1 \in G
  BY <1>1, <1>2
<1> HIDE DEF G
<1>4. \A k \in Nat : k \in G
  BY <1>3, SetInduction
<1>5. Good(n)
  BY <1>4 DEF G
<1> QED BY <1>5 DEF Good

\* FlattenSeq concatenates from left to right.
LEMMA FlattenSteps ==
    ASSUME NEW S, NEW s \in Seq(Seq(S))
    PROVE  \E f \in [0 .. Len(s) -> Seq(S)] :
              /\ f[0] = <<>>
              /\ \A i \in 1 .. Len(s) : f[i] = f[i - 1] \o s[i]
              /\ FlattenSeq(s) = f[Len(s)]
<1> DEFINE n == Len(s)
           F == CHOOSE f : f = [i \in 1 .. n |-> IF i = 1 THEN s[i] ELSE f[i - 1] \o s[i]]
<1>0. n \in Nat /\ n <= n /\ \A i \in 1 .. n : s[i] \in Seq(S)
  OBVIOUS
<1>1. CASE n = 0
  <2>1. s = <<>> /\ <<>> \in Seq(S)
    BY <1>1, EmptySeq
  <2>2. FlattenSeq(s) = <<>>
    BY <1>1, <2>1 DEF FlattenSeq
  <2> DEFINE h == [i \in 0 .. n |-> <<>>]
  <2>3. h \in [0 .. n -> Seq(S)] /\ h[0] = <<>> /\ h[n] = <<>>
    BY <1>1, <2>1
  <2>4. \A i \in 1 .. n : h[i] = h[i - 1] \o s[i]
    BY <1>1
  <2> HIDE DEF h
  <2> QED BY <2>2, <2>3, <2>4
<1>2. CASE n # 0
  <2>1. FlattenSeq(s) = F[n]
    BY <1>2 DEF FlattenSeq
  <2> HIDE DEF n
  <2>2. PICK g \in [1 .. n -> Seq(S)] : Chains(g, s, n)
    BY <1>0, FlattenChain DEF n
  <2>3. g = [i \in 1 .. n |-> IF i = 1 THEN s[i] ELSE g[i - 1] \o s[i]]
    BY <2>2 DEF Chains
  <2>4. F = [i \in 1 .. n |-> IF i = 1 THEN s[i] ELSE F[i - 1] \o s[i]]
    BY <2>3
  <2> HIDE DEF F
  <2>0. \A i \in 1 .. n : F[i] = IF i = 1 THEN s[i] ELSE F[i - 1] \o s[i]
    BY <2>4
  <2> DEFINE h == [i \in 0 .. n |-> IF i = 0 THEN <<>> ELSE F[i]]
             Typed(k) == k \in 1 .. n => F[k] \in Seq(S)
             T == {k \in Nat : Typed(k)}
  <2>5. ASSUME NEW k \in Nat, Typed(k) PROVE Typed(k + 1)
    <3>1. SUFFICES ASSUME k + 1 \in 1 .. n PROVE F[k + 1] \in Seq(S)
      OBVIOUS
    <3>2. CASE k = 0
      <4>1. F[k + 1] = s[1]
        BY <2>0, <3>1, <3>2
      <4> QED BY <4>1, <3>1, <3>2, <1>0
    <3>3. CASE k # 0
      <4>1. k \in 1 .. n /\ (k + 1) - 1 = k /\ k + 1 # 1
        BY <3>1, <3>3, <1>0
      <4>2. F[k + 1] = F[(k + 1) - 1] \o s[k + 1]
        BY <2>0, <3>1, <4>1, Zenon
      <4> QED BY <4>1, <4>2, <2>5, <3>1, <1>0, ConcatProperties
    <3> QED BY <3>2, <3>3
  <2>6. \A k \in 1 .. n : F[k] \in Seq(S)
    <3>1. Typed(0)
      OBVIOUS
    <3> HIDE DEF Typed
    <3>2. 0 \in T /\ \A k \in Nat : k \in T => k + 1 \in T
      BY <2>5, <3>1
    <3> HIDE DEF T
    <3>3. \A k \in Nat : k \in T
      BY <3>2, SetInduction
    <3>4. \A k \in Nat : Typed(k)
      BY <3>3 DEF T
    <3> QED BY <3>4, <1>0 DEF Typed
  <2>7. h \in [0 .. n -> Seq(S)]
    BY <2>6
  <2>8. ASSUME NEW i \in 1 .. n PROVE h[i] = h[i - 1] \o s[i]
    <3>1. h[i] = F[i] /\ i - 1 \in 0 .. n
      BY <1>0
    <3>2. CASE i = 1
      <4>1. h[i - 1] = <<>> /\ F[i] = s[i]
        BY <2>0, <3>1, <3>2, <1>0
      <4> QED BY <3>1, <4>1, <1>0, ConcatEmptySeq
    <3>3. CASE i # 1
      <4>1. h[i - 1] = F[i - 1]
        BY <3>1, <3>3, <1>0
      <4>2. F[i] = F[i - 1] \o s[i]
        <5> HIDE DEF h
        <5> QED BY <2>0, <3>3
      <4> QED BY <3>1, <4>1, <4>2
    <3> QED BY <3>2, <3>3
  <2>9. h[0] = <<>> /\ h[n] = F[n]
    BY <1>0, <1>2
  <2> HIDE DEF h
  <2> QED BY <2>1, <2>7, <2>8, <2>9 DEF n
<1> QED BY <1>1, <1>2
\* Induction on a sequence.
LEMMA SeqInduction ==
    ASSUME NEW T, NEW G, <<>> \in G,
           \A s \in Seq(T) : \A x \in T : s \in G => Append(s, x) \in G
    PROVE  \A s \in Seq(T) : s \in G
<1> DEFINE Good(n) == \A s \in Seq(T) : Len(s) = n => s \in G
           N == {n \in Nat : Good(n)}
<1>1. Good(0)
  <2>1. \A s \in Seq(T) : Len(s) = 0 => s = <<>>
    BY EmptySeq
  <2> QED BY <2>1
<1>2. ASSUME NEW n \in Nat, Good(n) PROVE Good(n + 1)
  <2>1. SUFFICES ASSUME NEW s \in Seq(T), Len(s) = n + 1 PROVE s \in G
    OBVIOUS
  <2>2. PICK f \in Seq(T), x \in T : s = Append(f, x)
    <3>1. s # <<>>
      BY <2>1
    <3> QED BY <3>1, SequenceEmptyOrAppend
  <2>3. Len(f) = n
    BY <2>1, <2>2
  <2> QED BY <1>2, <2>2, <2>3
<1> HIDE DEF Good
<1>3. 0 \in N /\ \A n \in Nat : n \in N => n + 1 \in N
  BY <1>1, <1>2
<1> HIDE DEF N
<1>4. \A n \in Nat : n \in N
  BY <1>3, SetInduction
<1>5. ASSUME NEW s \in Seq(T) PROVE s \in G
  <2>1. Len(s) \in Nat
    OBVIOUS
  <2> QED BY <1>4, <2>1 DEF N, Good
<1> QED BY <1>5

\* Nothing flattens to nothing.
LEMMA FlattenEmpty == FlattenSeq(<<>>) = <<>>
BY DEF FlattenSeq

\* FlattenSeq of a sequence and one more.
LEMMA FlattenAppend ==
    ASSUME NEW S, NEW ss \in Seq(Seq(S)), NEW t \in Seq(S)
    PROVE  /\ FlattenSeq(ss) \in Seq(S)
           /\ FlattenSeq(Append(ss, t)) = FlattenSeq(ss) \o t
<1> DEFINE n == Len(ss)
           tt == Append(ss, t)
<1>1. /\ n \in Nat /\ tt \in Seq(Seq(S)) /\ Len(tt) = n + 1
      /\ tt[n + 1] = t /\ \A i \in 1 .. n : tt[i] = ss[i]
  BY AppendProperties
<1> HIDE DEF tt
<1>2. PICK f \in [0 .. n -> Seq(S)] :
          /\ f[0] = <<>>
          /\ \A i \in 1 .. n : f[i] = f[i - 1] \o ss[i]
          /\ FlattenSeq(ss) = f[n]
  BY FlattenSteps
<1>a. \E g \in [0 .. Len(tt) -> Seq(S)] :
         /\ g[0] = <<>>
         /\ \A i \in 1 .. Len(tt) : g[i] = g[i - 1] \o tt[i]
         /\ FlattenSeq(tt) = g[Len(tt)]
  BY FlattenSteps, <1>1
<1>3. PICK g \in [0 .. n + 1 -> Seq(S)] :
          /\ g[0] = <<>>
          /\ \A i \in 1 .. n + 1 : g[i] = g[i - 1] \o tt[i]
          /\ FlattenSeq(tt) = g[n + 1]
  BY <1>a, <1>1
<1> HIDE DEF n
<1> DEFINE Same(k) == k \in 0 .. n => f[k] = g[k]
           G == {k \in Nat : Same(k)}
<1>4. Same(0)
  BY <1>2, <1>3
<1>5. ASSUME NEW k \in Nat, Same(k) PROVE Same(k + 1)
  <2>1. SUFFICES ASSUME k + 1 \in 0 .. n PROVE f[k + 1] = g[k + 1]
    OBVIOUS
  <2>2. k \in 0 .. n /\ k + 1 \in 1 .. n /\ k + 1 \in 1 .. n + 1 /\ (k + 1) - 1 = k
    BY <1>1, <2>1
  <2>3. f[k + 1] = f[k] \o ss[k + 1]
    BY <1>2, <2>2
  <2>4. g[k + 1] = g[k] \o tt[k + 1]
    BY <1>3, <2>2
  <2> QED BY <1>1, <1>5, <2>2, <2>3, <2>4
<1> HIDE DEF Same
<1>6. 0 \in G /\ \A k \in Nat : k \in G => k + 1 \in G
  BY <1>4, <1>5
<1> HIDE DEF G
<1>7. \A k \in Nat : k \in G
  BY <1>6, SetInduction
<1>8. f[n] = g[n]
  BY <1>1, <1>7 DEF G, Same
<1>9. g[n + 1] = g[n] \o t
  <2>1. n + 1 \in 1 .. n + 1 /\ (n + 1) - 1 = n
    BY <1>1
  <2> QED BY <1>1, <1>3, <2>1
<1>10. f[n] \in Seq(S)
  BY <1>1
<1> QED BY <1>2, <1>3, <1>8, <1>9, <1>10 DEF tt

\* The elements of a sequence with one more.
LEMMA ToSetAppend ==
    ASSUME NEW T, NEW s \in Seq(T), NEW x \in T
    PROVE  ToSet(Append(s, x)) = ToSet(s) \cup {x}
<1>1. /\ Append(s, x) \in Seq(T) /\ Len(Append(s, x)) = Len(s) + 1
      /\ \A i \in 1 .. Len(s) : Append(s, x)[i] = s[i]
      /\ Append(s, x)[Len(s) + 1] = x
      /\ Len(s) \in Nat
  BY AppendProperties
<1>2. DOMAIN s = 1 .. Len(s) /\ DOMAIN Append(s, x) = 1 .. Len(s) + 1
  BY <1>1, LenProperties
<1> DEFINE t == Append(s, x)
<1> HIDE DEF t
<1>3. ToSet(t) \subseteq ToSet(s) \cup {x}
  BY <1>1, <1>2 DEF ToSet, t
<1>4. x \in ToSet(t)
  <2>1. Len(s) + 1 \in DOMAIN t
    BY <1>1, <1>2 DEF t
  <2> QED BY <1>1, <2>1 DEF ToSet, t
<1>5. ToSet(s) \subseteq ToSet(t)
  BY <1>1, <1>2 DEF ToSet, t
<1> QED BY <1>3, <1>4, <1>5 DEF t

\* The elements of two sequences put together.
LEMMA ToSetConcat ==
    ASSUME NEW T, NEW s \in Seq(T), NEW t \in Seq(T)
    PROVE  ToSet(s \o t) = ToSet(s) \cup ToSet(t)
<1> DEFINE u == s \o t
<1>1. /\ u \in Seq(T) /\ Len(u) = Len(s) + Len(t)
      /\ \A i \in 1 .. Len(s) + Len(t) :
            u[i] = IF i <= Len(s) THEN s[i] ELSE t[i - Len(s)]
      /\ Len(s) \in Nat /\ Len(t) \in Nat
  BY ConcatProperties
<1>2. /\ DOMAIN s = 1 .. Len(s) /\ DOMAIN t = 1 .. Len(t)
      /\ DOMAIN u = 1 .. Len(s) + Len(t)
  BY <1>1, LenProperties
<1> HIDE DEF u
<1>3. ASSUME NEW x \in ToSet(u) PROVE x \in ToSet(s) \cup ToSet(t)
  <2>1. PICK i \in 1 .. Len(s) + Len(t) : x = u[i]
    BY <1>2 DEF ToSet
  <2>2. i <= Len(s) => i \in DOMAIN s /\ x = s[i]
    BY <1>1, <1>2, <2>1
  <2>3. ~(i <= Len(s)) => i - Len(s) \in DOMAIN t /\ x = t[i - Len(s)]
    BY <1>1, <1>2, <2>1
  <2> QED BY <2>2, <2>3 DEF ToSet
<1>4. ASSUME NEW x \in ToSet(s) PROVE x \in ToSet(u)
  <2>1. PICK i \in 1 .. Len(s) : x = s[i]
    BY <1>2 DEF ToSet
  <2>2. i \in DOMAIN u /\ u[i] = x
    BY <1>1, <1>2, <2>1
  <2> QED BY <2>2 DEF ToSet
<1>5. ASSUME NEW x \in ToSet(t) PROVE x \in ToSet(u)
  <2>1. PICK i \in 1 .. Len(t) : x = t[i]
    BY <1>2 DEF ToSet
  <2>2. Len(s) + i \in 1 .. Len(s) + Len(t) /\ ~(Len(s) + i <= Len(s))
        /\ (Len(s) + i) - Len(s) = i
    BY <1>1, <2>1
  <2>3. u[Len(s) + i] = x
    BY <1>1, <2>1, <2>2
  <2> QED BY <1>2, <2>2, <2>3 DEF ToSet
<1>6. u = s \o t
  BY DEF u
<1> QED BY <1>3, <1>4, <1>5, <1>6

-----------------------------------------------------------------------------
(* Among.                                                                  *)

\* Nothing is chosen from nothing.
LEMMA AmongEmpty == \A S : Among(<<>>, S) = <<>>
<1> SUFFICES ASSUME NEW S PROVE Among(<<>>, S) = <<>>
  OBVIOUS
<1>1. [k \in DOMAIN <<>> |-> IF <<>>[k] \in S THEN << <<>>[k] >> ELSE <<>>] = <<>>
  OBVIOUS
<1> QED BY <1>1, FlattenEmpty DEF Among

\* Among of a sequence and one more element.
LEMMA AmongAppend ==
    ASSUME NEW T, NEW S, NEW s \in Seq(T), NEW x \in T
    PROVE  /\ Among(s, S) \in Seq(T)
           /\ Among(Append(s, x), S) =
                 IF x \in S THEN Append(Among(s, S), x) ELSE Among(s, S)
<1> DEFINE part(e) == IF e \in S THEN <<e>> ELSE <<>>
           ss == [k \in DOMAIN s |-> part(s[k])]
           sx == Append(s, x)
           ssx == [k \in DOMAIN sx |-> part(sx[k])]
<1>1. /\ sx \in Seq(T) /\ Len(sx) = Len(s) + 1
      /\ \A i \in 1 .. Len(s) : sx[i] = s[i]
      /\ sx[Len(s) + 1] = x
      /\ Len(s) \in Nat
  BY AppendProperties
<1>2. DOMAIN s = 1 .. Len(s) /\ DOMAIN sx = 1 .. Len(s) + 1
      /\ \A i \in 1 .. Len(s) : s[i] \in T
  BY <1>1, LenProperties
<1>3. \A e \in T : part(e) \in Seq(T)
  OBVIOUS
<1> HIDE DEF part, sx
<1>4. ss \in Seq(Seq(T)) /\ Len(ss) = Len(s) /\ \A i \in 1 .. Len(s) : ss[i] = part(s[i])
  BY <1>1, <1>2, <1>3
<1>5. ssx \in Seq(Seq(T)) /\ Len(ssx) = Len(s) + 1
      /\ \A i \in 1 .. Len(s) + 1 : ssx[i] = part(sx[i])
  <2>1. \A i \in 1 .. Len(s) + 1 : sx[i] \in T
    BY <1>1, <1>2
  <2> QED BY <1>1, <1>2, <1>3, <2>1
<1> HIDE DEF ss, ssx
<1>6. ssx = Append(ss, part(x))
  <2>1. part(x) \in Seq(T)
    BY <1>3
  <2> DEFINE app == Append(ss, part(x))
  <2>2. /\ app \in Seq(Seq(T)) /\ Len(app) = Len(s) + 1
        /\ \A i \in 1 .. Len(s) : app[i] = ss[i]
        /\ app[Len(s) + 1] = part(x)
    BY <1>4, <2>1, AppendProperties
  <2> HIDE DEF app
  <2>3. ASSUME NEW i \in 1 .. Len(ssx) PROVE ssx[i] = app[i]
    <3>1. CASE i \in 1 .. Len(s)
      <4>1. ssx[i] = part(sx[i]) /\ sx[i] = s[i] /\ ss[i] = part(s[i]) /\ app[i] = ss[i]
        BY <1>1, <1>4, <1>5, <2>2, <3>1
      <4> QED BY <4>1
    <3>2. CASE i = Len(s) + 1
      <4>1. ssx[i] = part(sx[i])
        BY <1>5
      <4> QED BY <1>1, <2>2, <3>2, <4>1
    <3> QED BY <1>1, <1>5, <3>1, <3>2
  <2>4. ssx = app
    BY <1>5, <2>2, <2>3, SeqEqual
  <2> QED BY <2>4 DEF app
<1>7. FlattenSeq(ss) \in Seq(T) /\ FlattenSeq(ssx) = FlattenSeq(ss) \o part(x)
  BY <1>3, <1>4, <1>6, FlattenAppend
<1>8. FlattenSeq(ss) = Among(s, S) /\ FlattenSeq(ssx) = Among(Append(s, x), S)
  BY DEF Among, ss, ssx, sx, part
<1>9. x \in S => FlattenSeq(ss) \o part(x) = Append(FlattenSeq(ss), x)
  <2>1. Append(FlattenSeq(ss), x) = FlattenSeq(ss) \o <<x>>
    BY <1>7, AppendIsConcat
  <2> QED BY <2>1 DEF part
<1>10. x \notin S => FlattenSeq(ss) \o part(x) = FlattenSeq(ss)
  BY <1>7, ConcatEmptySeq DEF part
<1> QED BY <1>7, <1>8, <1>9, <1>10

\* What is chosen of a sequence is a sequence of the same type.
LEMMA AmongType ==
    ASSUME NEW T, NEW S, NEW s \in Seq(T)
    PROVE  Among(s, S) \in Seq(T)
<1> DEFINE G == {u \in Seq(T) : Among(u, S) \in Seq(T)}
<1>1. <<>> \in G
  BY AmongEmpty, EmptySeq
<1>2. ASSUME NEW u \in Seq(T), NEW x \in T, u \in G PROVE Append(u, x) \in G
  <2>1. Append(u, x) \in Seq(T)
    OBVIOUS
  <2> QED BY <2>1, AmongAppend
<1> HIDE DEF G
<1>3. \A u \in Seq(T) : u \in G
  BY <1>1, <1>2, SeqInduction
<1> QED BY <1>3 DEF G

\* Exactly the elements in S are chosen.
LEMMA AmongMembers ==
    ASSUME NEW T, NEW S, NEW s \in Seq(T)
    PROVE  ToSet(Among(s, S)) = ToSet(s) \cap S
<1> DEFINE G == {u \in Seq(T) : ToSet(Among(u, S)) = ToSet(u) \cap S}
<1>1. <<>> \in G
  BY AmongEmpty, EmptySeq DEF ToSet
<1>2. ASSUME NEW u \in Seq(T), NEW x \in T, u \in G PROVE Append(u, x) \in G
  <2>1. Append(u, x) \in Seq(T) /\ Among(u, S) \in Seq(T)
    BY AmongType
  <2>2. ToSet(Append(u, x)) = ToSet(u) \cup {x}
    BY ToSetAppend
  <2>3. ToSet(Append(Among(u, S), x)) = ToSet(Among(u, S)) \cup {x}
    BY <2>1, ToSetAppend
  <2>4. ToSet(Among(u, S)) = ToSet(u) \cap S
    BY <1>2
  <2>5. ToSet(Among(Append(u, x), S)) = ToSet(Append(u, x)) \cap S
    <3>1. CASE x \in S
      <4>1. Among(Append(u, x), S) = Append(Among(u, S), x)
        BY <3>1, AmongAppend
      <4> QED BY <2>2, <2>3, <2>4, <3>1, <4>1
    <3>2. CASE x \notin S
      <4>1. Among(Append(u, x), S) = Among(u, S)
        BY <3>2, AmongAppend
      <4> QED BY <2>2, <2>4, <3>2, <4>1
    <3> QED BY <3>1, <3>2
  <2> QED BY <2>1, <2>5
<1> HIDE DEF G
<1>3. \A u \in Seq(T) : u \in G
  BY <1>1, <1>2, SeqInduction
<1> QED BY <1>3 DEF G

\* All or none of the elements are wanted.
LEMMA AmongAll ==
    ASSUME NEW T, NEW S, NEW s \in Seq(T)
    PROVE  /\ ToSet(s) \subseteq S => Among(s, S) = s
           /\ ToSet(s) \cap S = {} => Among(s, S) = <<>>
<1> DEFINE Good(u) == /\ ToSet(u) \subseteq S => Among(u, S) = u
                      /\ ToSet(u) \cap S = {} => Among(u, S) = <<>>
           G == {u \in Seq(T) : Good(u)}
<1>1. Good(<<>>)
  BY AmongEmpty
<1>2. ASSUME NEW u \in Seq(T), NEW x \in T, Good(u) PROVE Good(Append(u, x))
  <2>1. ToSet(Append(u, x)) = ToSet(u) \cup {x}
    BY ToSetAppend
  <2>2. Among(Append(u, x), S) =
           IF x \in S THEN Append(Among(u, S), x) ELSE Among(u, S)
    BY AmongAppend
  <2>3. ToSet(Append(u, x)) \subseteq S => Among(Append(u, x), S) = Append(u, x)
    BY <1>2, <2>1, <2>2
  <2>4. ToSet(Append(u, x)) \cap S = {} => Among(Append(u, x), S) = <<>>
    BY <1>2, <2>1, <2>2
  <2> QED BY <2>3, <2>4
<1> HIDE DEF Good
<1>3. <<>> \in G
  BY <1>1, EmptySeq
<1>4. ASSUME NEW u \in Seq(T), NEW x \in T, u \in G PROVE Append(u, x) \in G
  <2>1. Append(u, x) \in Seq(T)
    OBVIOUS
  <2> QED BY <2>1, <1>2, <1>4
<1> HIDE DEF G
<1>5. \A u \in Seq(T) : u \in G
  BY <1>3, <1>4, SeqInduction
<1> QED BY <1>5 DEF G, Good

\* Only the elements that occur matter.
LEMMA AmongSame ==
    ASSUME NEW T, NEW S, NEW U, NEW s \in Seq(T), ToSet(s) \cap S = ToSet(s) \cap U
    PROVE  Among(s, S) = Among(s, U)
<1>1. \A k \in DOMAIN s : s[k] \in S <=> s[k] \in U
  BY DEF ToSet
<1>2. [k \in DOMAIN s |-> IF s[k] \in S THEN <<s[k]>> ELSE <<>>]
      = [k \in DOMAIN s |-> IF s[k] \in U THEN <<s[k]>> ELSE <<>>]
  BY <1>1
<1> QED BY <1>2 DEF Among

\* Choosing twice is choosing what is in both sets.
LEMMA AmongTwice ==
    ASSUME NEW T, NEW S, NEW U, NEW s \in Seq(T)
    PROVE  Among(Among(s, S), U) = Among(s, S \cap U)
<1> DEFINE Good(u) == Among(Among(u, S), U) = Among(u, S \cap U)
           G == {u \in Seq(T) : Good(u)}
<1>1. Good(<<>>)
  BY AmongEmpty
<1>2. ASSUME NEW u \in Seq(T), NEW x \in T, Good(u) PROVE Good(Append(u, x))
  <2>1. Among(u, S) \in Seq(T)
    BY AmongType
  <2>2. Among(Append(u, x), S) =
           IF x \in S THEN Append(Among(u, S), x) ELSE Among(u, S)
    BY AmongAppend
  <2>3. Among(Append(u, x), S \cap U) =
           IF x \in S \cap U THEN Append(Among(u, S \cap U), x)
           ELSE Among(u, S \cap U)
    BY AmongAppend
  <2>4. Among(Append(Among(u, S), x), U) =
           IF x \in U THEN Append(Among(Among(u, S), U), x)
           ELSE Among(Among(u, S), U)
    BY <2>1, AmongAppend
  <2>5. CASE x \in S
    <3>1. Among(Append(u, x), S) = Append(Among(u, S), x)
      BY <2>2, <2>5
    <3>2. x \in S \cap U <=> x \in U
      BY <2>5
    <3> QED BY <1>2, <2>3, <2>4, <3>1, <3>2
  <2>6. CASE x \notin S
    <3>1. Among(Append(u, x), S) = Among(u, S) /\ x \notin S \cap U
      BY <2>2, <2>6
    <3> QED BY <1>2, <2>3, <3>1
  <2> QED BY <2>5, <2>6
<1> HIDE DEF Good
<1>3. <<>> \in G
  BY <1>1, EmptySeq
<1>4. ASSUME NEW u \in Seq(T), NEW x \in T, u \in G PROVE Append(u, x) \in G
  <2>1. Append(u, x) \in Seq(T)
    OBVIOUS
  <2> QED BY <2>1, <1>2, <1>4
<1> HIDE DEF G
<1>5. \A u \in Seq(T) : u \in G
  BY <1>3, <1>4, SeqInduction
<1> QED BY <1>5 DEF G, Good

\* An element appended to the second of two sequences.
LEMMA ConcatAppend ==
    ASSUME NEW T, NEW s \in Seq(T), NEW u \in Seq(T), NEW x \in T
    PROVE  s \o Append(u, x) = Append(s \o u, x)
<1>1. s \o u \in Seq(T) /\ <<x>> \in Seq(T)
  BY ConcatProperties
<1>2. Append(u, x) = u \o <<x>> /\ Append(s \o u, x) = (s \o u) \o <<x>>
  BY <1>1, AppendIsConcat
<1> QED BY <1>1, <1>2, ConcatAssociative

\* Choosing goes part by part.
LEMMA AmongConcat ==
    ASSUME NEW T, NEW S, NEW s \in Seq(T), NEW t \in Seq(T)
    PROVE  Among(s \o t, S) = Among(s, S) \o Among(t, S)
<1> DEFINE Good(u) == Among(s \o u, S) = Among(s, S) \o Among(u, S)
           G == {u \in Seq(T) : Good(u)}
<1>0. Among(s, S) \in Seq(T)
  BY AmongType
<1>1. Good(<<>>)
  BY <1>0, AmongEmpty, ConcatEmptySeq
<1>2. ASSUME NEW u \in Seq(T), NEW x \in T, Good(u) PROVE Good(Append(u, x))
  <2>1. Among(u, S) \in Seq(T) /\ s \o u \in Seq(T)
    BY AmongType, ConcatProperties
  <2>2. s \o Append(u, x) = Append(s \o u, x)
    BY ConcatAppend
  <2>3. Among(Append(s \o u, x), S) =
           IF x \in S THEN Append(Among(s \o u, S), x) ELSE Among(s \o u, S)
    <3> DEFINE v == s \o u
    <3>1. v \in Seq(T)
      BY <2>1
    <3> HIDE DEF v
    <3>2. Among(Append(v, x), S) =
             IF x \in S THEN Append(Among(v, S), x) ELSE Among(v, S)
      BY <3>1, AmongAppend
    <3> QED BY <3>2 DEF v
  <2>4. Among(Append(u, x), S) =
           IF x \in S THEN Append(Among(u, S), x) ELSE Among(u, S)
    BY AmongAppend
  <2>5. Among(s, S) \o Append(Among(u, S), x) = Append(Among(s, S) \o Among(u, S), x)
    BY <1>0, <2>1, ConcatAppend
  <2> QED BY <1>2, <2>2, <2>3, <2>4, <2>5
<1> HIDE DEF Good
<1>3. <<>> \in G
  BY <1>1, EmptySeq
<1>4. ASSUME NEW u \in Seq(T), NEW x \in T, u \in G PROVE Append(u, x) \in G
  <2>1. Append(u, x) \in Seq(T)
    OBVIOUS
  <2> QED BY <2>1, <1>2, <1>4
<1> HIDE DEF G
<1>5. \A u \in Seq(T) : u \in G
  BY <1>3, <1>4, SeqInduction
<1> QED BY <1>5 DEF G, Good

-----------------------------------------------------------------------------
(* The order of the elements.                                              *)

\* Whenever x comes before y in s, <<x, y>> is in R.
Ordered(s, R) == \A j, k \in DOMAIN s : j < k => <<s[j], s[k]>> \in R

\* Two ordered sequences, the first before the second.
LEMMA OrderedConcat ==
    ASSUME NEW T, NEW R, NEW s \in Seq(T), NEW t \in Seq(T),
           Ordered(s, R), Ordered(t, R),
           \A x \in ToSet(s), y \in ToSet(t) : <<x, y>> \in R
    PROVE  Ordered(s \o t, R)
<1> DEFINE u == s \o t
<1>1. /\ Len(u) = Len(s) + Len(t)
      /\ \A i \in 1 .. Len(s) + Len(t) :
            u[i] = IF i <= Len(s) THEN s[i] ELSE t[i - Len(s)]
      /\ Len(s) \in Nat /\ Len(t) \in Nat /\ u \in Seq(T)
  BY ConcatProperties
<1>2. /\ DOMAIN s = 1 .. Len(s) /\ DOMAIN t = 1 .. Len(t)
      /\ DOMAIN u = 1 .. Len(s) + Len(t)
  BY <1>1, LenProperties
<1> HIDE DEF u
<1>3. ASSUME NEW j \in DOMAIN u, NEW k \in DOMAIN u, j < k
      PROVE  <<u[j], u[k]>> \in R
  <2>1. CASE k <= Len(s)
    <3>1. u[j] = s[j] /\ u[k] = s[k] /\ j \in DOMAIN s /\ k \in DOMAIN s
      BY <1>1, <1>2, <1>3, <2>1
    <3> QED BY <1>3, <3>1 DEF Ordered
  <2>2. CASE ~(j <= Len(s))
    <3>1. /\ u[j] = t[j - Len(s)] /\ u[k] = t[k - Len(s)]
          /\ j - Len(s) \in DOMAIN t /\ k - Len(s) \in DOMAIN t
          /\ j - Len(s) < k - Len(s)
      BY <1>1, <1>2, <1>3, <2>2
    <3> QED BY <3>1 DEF Ordered
  <2>3. CASE j <= Len(s) /\ ~(k <= Len(s))
    <3>1. /\ u[j] = s[j] /\ u[k] = t[k - Len(s)]
          /\ j \in DOMAIN s /\ k - Len(s) \in DOMAIN t
      BY <1>1, <1>2, <1>3, <2>3
    <3>2. u[j] \in ToSet(s) /\ u[k] \in ToSet(t)
      BY <3>1 DEF ToSet
    <3> QED BY <3>2
  <2> QED BY <1>1, <1>2, <2>1, <2>2, <2>3
<1>4. Ordered(u, R)
  BY <1>3 DEF Ordered
<1> QED BY <1>4 DEF u

\* What is known of a sequence of sequences is known of its concatenation: of
\* its elements, and of their order.
LEMMA FlattenOrdered ==
    ASSUME NEW T, NEW R, NEW ss \in Seq(Seq(T))
    PROVE  /\ FlattenSeq(ss) \in Seq(T)
           /\ ToSet(FlattenSeq(ss)) = UNION {ToSet(ss[k]) : k \in DOMAIN ss}
           /\ (/\ \A k \in DOMAIN ss : Ordered(ss[k], R)
               /\ \A j, k \in DOMAIN ss : j < k =>
                     \A x \in ToSet(ss[j]), y \in ToSet(ss[k]) : <<x, y>> \in R)
              => Ordered(FlattenSeq(ss), R)
<1> DEFINE Within(u) == \A k \in DOMAIN u : Ordered(u[k], R)
           Across(u) == \A j, k \in DOMAIN u : j < k =>
                           \A x \in ToSet(u[j]), y \in ToSet(u[k]) : <<x, y>> \in R
           Typed(u) == FlattenSeq(u) \in Seq(T)
           Holds(u) == ToSet(FlattenSeq(u)) = UNION {ToSet(u[k]) : k \in DOMAIN u}
           Sorts(u) == Within(u) /\ Across(u) => Ordered(FlattenSeq(u), R)
           Good(u) == Typed(u) /\ Holds(u) /\ Sorts(u)
           G == {u \in Seq(Seq(T)) : Good(u)}
<1>1. Good(<<>>)
  <2>1. FlattenSeq(<<>>) = <<>> /\ <<>> \in Seq(T) /\ DOMAIN <<>> = {} /\ ToSet(<<>>) = {}
    BY FlattenEmpty, EmptySeq DEF ToSet
  <2>2. Holds(<<>>)
    BY <2>1
  <2>3. Sorts(<<>>)
    BY <2>1 DEF Ordered
  <2> QED BY <2>1, <2>2, <2>3
<1>2. ASSUME NEW u \in Seq(Seq(T)), NEW t \in Seq(T), Good(u)
      PROVE  Good(Append(u, t))
  <2> DEFINE v == Append(u, t)
  <2>1. /\ Len(v) = Len(u) + 1 /\ v[Len(u) + 1] = t
        /\ \A i \in 1 .. Len(u) : v[i] = u[i]
        /\ Len(u) \in Nat /\ v \in Seq(Seq(T))
    BY AppendProperties
  <2>2. DOMAIN u = 1 .. Len(u) /\ DOMAIN v = 1 .. Len(u) + 1
    BY <2>1, LenProperties
  <2>3. FlattenSeq(u) \in Seq(T) /\ FlattenSeq(v) = FlattenSeq(u) \o t
    BY FlattenAppend
  <2> HIDE DEF v
  <2>4. Typed(v)
    BY <2>3, ConcatProperties
  <2>5. Holds(v)
    <3>1. ToSet(FlattenSeq(v)) = ToSet(FlattenSeq(u)) \cup ToSet(t)
      BY <2>3, ToSetConcat
    <3>2. ToSet(FlattenSeq(u)) = UNION {ToSet(u[k]) : k \in DOMAIN u}
      BY <1>2
    <3>3. UNION {ToSet(v[k]) : k \in DOMAIN v}
          = (UNION {ToSet(u[k]) : k \in DOMAIN u}) \cup ToSet(t)
      <4>1. Len(u) + 1 \in DOMAIN v
        BY <2>1, <2>2
      <4>2. \A k \in DOMAIN u : k \in DOMAIN v /\ v[k] = u[k]
        BY <2>1, <2>2
      <4>3. \A k \in DOMAIN v : k \in DOMAIN u \/ k = Len(u) + 1
        BY <2>1, <2>2
      <4> QED BY <2>1, <4>1, <4>2, <4>3
    <3> QED BY <3>1, <3>2, <3>3
  <2>6. Sorts(v)
    <3>1. SUFFICES ASSUME Within(v), Across(v) PROVE Ordered(FlattenSeq(v), R)
      OBVIOUS
    <3>2. Within(u) /\ Across(u)
      <4>1. \A k \in DOMAIN u : k \in DOMAIN v /\ v[k] = u[k]
        BY <2>1, <2>2
      <4> QED BY <3>1, <4>1
    <3>3. Ordered(FlattenSeq(u), R)
      BY <1>2, <3>2
    <3>4. Ordered(t, R)
      <4>1. Len(u) + 1 \in DOMAIN v
        BY <2>1, <2>2
      <4>2. Ordered(v[Len(u) + 1], R)
        BY <3>1, <4>1
      <4> QED BY <2>1, <4>2
    <3>5. ASSUME NEW x \in ToSet(FlattenSeq(u)), NEW y \in ToSet(t)
          PROVE  <<x, y>> \in R
      <4>1. ToSet(FlattenSeq(u)) = UNION {ToSet(u[k]) : k \in DOMAIN u}
        BY <1>2
      <4>2. PICK k \in DOMAIN u : x \in ToSet(u[k])
        BY <4>1, <3>5
      <4>3. /\ k \in DOMAIN v /\ Len(u) + 1 \in DOMAIN v /\ k < Len(u) + 1
            /\ v[k] = u[k] /\ v[Len(u) + 1] = t
        BY <2>1, <2>2
      <4>4. x \in ToSet(v[k]) /\ y \in ToSet(v[Len(u) + 1])
        BY <3>5, <4>2, <4>3
      <4> QED BY <3>1, <4>3, <4>4
    <3> QED BY <2>3, <3>3, <3>4, <3>5, OrderedConcat
  <2> QED BY <2>4, <2>5, <2>6 DEF v
<1>3. Good(ss)
  <2> HIDE DEF Good
  <2>1. <<>> \in G
    BY <1>1, EmptySeq
  <2>2. ASSUME NEW u \in Seq(Seq(T)), NEW t \in Seq(T), u \in G
        PROVE  Append(u, t) \in G
    <3>1. Append(u, t) \in Seq(Seq(T))
      OBVIOUS
    <3> QED BY <3>1, <1>2, <2>2
  <2> HIDE DEF G
  <2>3. \A u \in Seq(Seq(T)) : u \in G
    BY <2>1, <2>2, SeqInduction
  <2> QED BY <2>3 DEF G
<1> QED BY <1>3

\* Choosing keeps the order.
LEMMA AmongOrdered ==
    ASSUME NEW T, NEW R, NEW S, NEW s \in Seq(T), Ordered(s, R)
    PROVE  Ordered(Among(s, S), R)
<1> DEFINE ss == [k \in DOMAIN s |-> IF s[k] \in S THEN <<s[k]>> ELSE <<>>]
<1>1. Len(s) \in Nat /\ DOMAIN s = 1 .. Len(s) /\ \A k \in DOMAIN s : s[k] \in T
  BY LenProperties
<1>2. ss \in Seq(Seq(T)) /\ DOMAIN ss = DOMAIN s
  <2>1. \A k \in 1 .. Len(s) : ss[k] \in Seq(T)
    BY <1>1
  <2> QED BY <1>1, <2>1
<1>3. \A k \in DOMAIN ss : ToSet(ss[k]) \subseteq {s[k]}
  BY <1>2 DEF ToSet
<1>4. \A k \in DOMAIN ss : Ordered(ss[k], R)
  BY <1>2 DEF Ordered
<1> HIDE DEF ss
<1>5. \A j, k \in DOMAIN ss : j < k =>
         \A x \in ToSet(ss[j]), y \in ToSet(ss[k]) : <<x, y>> \in R
  BY <1>2, <1>3 DEF Ordered
<1>6. Ordered(FlattenSeq(ss), R)
  BY <1>2, <1>4, <1>5, FlattenOrdered
<1> QED BY <1>6 DEF Among, ss

-----------------------------------------------------------------------------
(* The metrics file.                                                       *)

USE LabelsAssumption

Doc == [label : ToSet(Labels), run : Nat, failed : SUBSET (DOMAIN Lane)]

Engines == {"pytorch", "onnx", "coreml", "tensorrt", "torch", "numpy"}

Row == [label : ToSet(Labels), precision : {"FP32", "FP16", "INT8"},
        validator : {"ultralytics", "yolo-validator"}, engine : Engines,
        run : Nat \ {0}]

StoreType ==
    /\ device \in DOMAIN LanesOn
    /\ runs \in Nat
    /\ dirs \in [Precisions -> Seq(Doc)]
    /\ file \in Seq(Row)
    /\ merged \in [Precisions -> Seq(Doc)]

\* x is an NMS-free head and y the classic one of the same model.
HeadsSwapped(x, y) ==
    x.label \in NmsFree /\ y.label \notin NmsFree /\ Model[x.label] = Model[y.label]

\* A later document of a directory is of a later run.
RunOrder == {p \in Doc \X Doc : p[1].run <= p[2].run}

\* In the order of their names, documents of a label go by their runs, and the
\* classic head of a model comes first.
NameOrder ==
    {p \in Doc \X Doc : /\ p[1].label = p[2].label => p[1].run <= p[2].run
                        /\ ~HeadsSwapped(p[1], p[2])}

\* So do the rows of a precision.
RowOrder ==
    {p \in Row \X Row :
        p[1].precision = p[2].precision =>
            /\ p[1].label = p[2].label => p[1].run <= p[2].run
            /\ ~HeadsSwapped(p[1], p[2])}

DirsOrdered ==
    \A q \in Precisions :
        /\ Ordered(dirs[q], RunOrder)
        /\ \A d \in ToSet(dirs[q]) : d.run <= runs
        /\ \A d \in ToSet(dirs[q]) \cup ToSet(merged[q]) : d.run # 0

FileOrdered == NoAnchors => Ordered(file, RowOrder)

StoreInv == StoreType /\ DirsOrdered /\ FileOrdered /\ LastNormalizeOwns

\* The row of a lane of a document.
LaneRow(d, x, q) ==
    [label |-> d.label, precision |-> RowPrecision(x, q),
     validator |-> Lane[x].validator, engine |-> Lane[x].engine, run |-> d.run]

\* The lanes, device by device.
LEMMA LaneNames ==
    /\ DOMAIN LanesOn = {"cpu", "cuda", "coreml", "tensorrt"}
    /\ ToSet(LanesOn["cpu"]) = {"ult-pt", "ult-onnx", "yv-torch", "yv-numpy"}
    /\ ToSet(LanesOn["cuda"]) = {"ult-pt", "ult-onnx", "yv-torch", "yv-numpy"}
    /\ ToSet(LanesOn["coreml"]) = {"ult-onnx", "ult-coreml", "yv-torch", "yv-numpy"}
    /\ ToSet(LanesOn["tensorrt"]) = {"ult-engine", "yv-tensorrt"}
<1>1. /\ DOMAIN LanesOn = {"cpu", "cuda", "coreml", "tensorrt"}
      /\ LanesOn["cpu"] = <<"ult-pt", "ult-onnx", "yv-torch", "yv-numpy">>
      /\ LanesOn["cuda"] = <<"ult-pt", "ult-onnx", "yv-torch", "yv-numpy">>
      /\ LanesOn["coreml"] = <<"ult-onnx", "ult-coreml", "yv-torch", "yv-numpy">>
      /\ LanesOn["tensorrt"] = <<"ult-engine", "yv-tensorrt">>
  BY DEF LanesOn
<1>2. ASSUME NEW a, NEW b, NEW c, NEW d
      PROVE  ToSet(<<a, b, c, d>>) = {a, b, c, d}
  BY DEF ToSet
<1>3. ASSUME NEW a, NEW b PROVE ToSet(<<a, b>>) = {a, b}
  BY DEF ToSet
<1>4. ToSet(LanesOn["cpu"]) = {"ult-pt", "ult-onnx", "yv-torch", "yv-numpy"}
  BY <1>1, <1>2
<1>5. ToSet(LanesOn["cuda"]) = {"ult-pt", "ult-onnx", "yv-torch", "yv-numpy"}
  BY <1>1, <1>2
<1>6. ToSet(LanesOn["coreml"]) = {"ult-onnx", "ult-coreml", "yv-torch", "yv-numpy"}
  BY <1>1, <1>2
<1>7. ToSet(LanesOn["tensorrt"]) = {"ult-engine", "yv-tensorrt"}
  BY <1>1, <1>3
<1> QED BY <1>1, <1>4, <1>5, <1>6, <1>7

\* The lanes of the benchmark by validator and engine.
LEMMA LaneType ==
    /\ DOMAIN Lane = {"ult-pt", "ult-onnx", "ult-coreml", "ult-engine",
                      "yv-torch", "yv-numpy", "yv-tensorrt"}
    /\ \A x \in DOMAIN Lane : /\ Lane[x].validator \in {"ultralytics", "yolo-validator"}
                              /\ Lane[x].engine \in Engines
    /\ Lane["ult-pt"].validator = "ultralytics" /\ Lane["ult-pt"].engine = "pytorch"
    /\ Lane["ult-onnx"].validator = "ultralytics" /\ Lane["ult-onnx"].engine = "onnx"
    /\ Lane["ult-engine"].validator = "ultralytics"
    /\ Lane["ult-engine"].engine = "tensorrt"
<1> DEFINE X == UNION {ToSet(LanesOn[d]) : d \in DOMAIN LanesOn}
           Names == {"ult-pt", "ult-onnx", "ult-coreml", "ult-engine",
                     "yv-torch", "yv-numpy", "yv-tensorrt"}
<1>1. X = Names
  <2>1. X = ToSet(LanesOn["cpu"]) \cup ToSet(LanesOn["cuda"])
            \cup ToSet(LanesOn["coreml"]) \cup ToSet(LanesOn["tensorrt"])
    BY LaneNames
  <2> HIDE DEF X
  <2> QED BY <2>1, LaneNames
<1> HIDE DEF X
<1>2. Lane = LET In(v, e) == [validator |-> v, engine |-> e]
             IN  [x \in X |->
                    CASE x = "ult-pt" -> In("ultralytics", "pytorch")
                      [] x = "ult-onnx" -> In("ultralytics", "onnx")
                      [] x = "ult-coreml" -> In("ultralytics", "coreml")
                      [] x = "ult-engine" -> In("ultralytics", "tensorrt")
                      [] x = "yv-torch" -> In("yolo-validator", "torch")
                      [] x = "yv-numpy" -> In("yolo-validator", "numpy")
                      [] x = "yv-tensorrt" -> In("yolo-validator", "tensorrt")]
  BY DEF Lane, X
<1>3. DOMAIN Lane = Names
  BY <1>1, <1>2
<1>4. /\ Lane["ult-pt"] = [validator |-> "ultralytics", engine |-> "pytorch"]
      /\ Lane["ult-onnx"] = [validator |-> "ultralytics", engine |-> "onnx"]
      /\ Lane["ult-coreml"] = [validator |-> "ultralytics", engine |-> "coreml"]
      /\ Lane["ult-engine"] = [validator |-> "ultralytics", engine |-> "tensorrt"]
      /\ Lane["yv-torch"] = [validator |-> "yolo-validator", engine |-> "torch"]
      /\ Lane["yv-numpy"] = [validator |-> "yolo-validator", engine |-> "numpy"]
      /\ Lane["yv-tensorrt"] = [validator |-> "yolo-validator", engine |-> "tensorrt"]
  BY <1>1, <1>2
<1>5. ASSUME NEW x \in Names
      PROVE  /\ Lane[x].validator \in {"ultralytics", "yolo-validator"}
             /\ Lane[x].engine \in Engines
  <2> DEFINE Typed(e) == /\ e.validator \in {"ultralytics", "yolo-validator"}
                         /\ e.engine \in Engines
  <2>a. Typed([validator |-> "ultralytics", engine |-> "pytorch"])
    BY DEF Engines
  <2>b. Typed([validator |-> "ultralytics", engine |-> "onnx"])
    BY DEF Engines
  <2>c. Typed([validator |-> "ultralytics", engine |-> "coreml"])
    BY DEF Engines
  <2>d. Typed([validator |-> "ultralytics", engine |-> "tensorrt"])
    BY DEF Engines
  <2>e. Typed([validator |-> "yolo-validator", engine |-> "torch"])
    BY DEF Engines
  <2>f. Typed([validator |-> "yolo-validator", engine |-> "numpy"])
    BY DEF Engines
  <2>g. Typed([validator |-> "yolo-validator", engine |-> "tensorrt"])
    BY DEF Engines
  <2> HIDE DEF Typed
  <2>3. Typed(Lane[x])
    BY <1>4, <2>a, <2>b, <2>c, <2>d, <2>e, <2>f, <2>g
  <2> QED BY <2>3 DEF Typed
<1> QED BY <1>3, <1>4, <1>5

\* The lanes of a device.
LEMMA DeviceLanes ==
    ASSUME NEW d \in DOMAIN LanesOn
    PROVE  /\ LanesOn[d] \in Seq(DOMAIN Lane)
           /\ PrecisionsOn[d] \subseteq {"FP32", "FP16", "INT8"}
           /\ "ult-onnx" \in ToSet(LanesOn[d]) \/ "ult-engine" \in ToSet(LanesOn[d])
<1>1. LanesOn[d] \in Seq(DOMAIN Lane)
  <2>1. CASE d = "cpu"
    BY <2>1, LaneType DEF LanesOn
  <2>2. CASE d = "cuda"
    BY <2>2, LaneType DEF LanesOn
  <2>3. CASE d = "coreml"
    BY <2>3, LaneType DEF LanesOn
  <2>4. CASE d = "tensorrt"
    BY <2>4, LaneType DEF LanesOn
  <2> QED BY <2>1, <2>2, <2>3, <2>4, LaneNames
<1>2. PrecisionsOn[d] \subseteq {"FP32", "FP16", "INT8"}
  BY LaneNames DEF PrecisionsOn
<1>3. "ult-onnx" \in ToSet(LanesOn[d]) \/ "ult-engine" \in ToSet(LanesOn[d])
  BY LaneNames
<1> QED BY <1>1, <1>2, <1>3

\* The documents of a directory in the order of their names.
LEMMA NamesInOrder ==
    ASSUME NEW docs \in Seq(Doc)
    PROVE  /\ InNameOrder(docs) \in Seq(Doc)
           /\ ToSet(InNameOrder(docs)) = ToSet(docs)
           /\ Ordered(docs, RunOrder) => Ordered(InNameOrder(docs), NameOrder)
<1> DEFINE Of(k) == {d \in ToSet(docs) : d.label = Labels[k]}
           ss == [k \in 1 .. Len(Labels) |-> Among(docs, Of(k))]
<1>1. /\ Labels \in Seq(ToSet(Labels)) /\ Len(Labels) \in Nat
      /\ DOMAIN Labels = 1 .. Len(Labels)
      /\ \A k \in 1 .. Len(Labels) : Labels[k] \in ToSet(Labels)
  BY LenProperties DEF ToSet
<1>2. \A k \in 1 .. Len(Labels) :
         /\ Among(docs, Of(k)) \in Seq(Doc)
         /\ ToSet(Among(docs, Of(k))) = Of(k)
         /\ Ordered(docs, RunOrder) => Ordered(Among(docs, Of(k)), RunOrder)
  BY AmongType, AmongMembers, AmongOrdered
<1>3. \A d \in ToSet(docs) : d \in Doc /\ d.label \in ToSet(Labels)
  <2>1. \A d \in ToSet(docs) : d \in Doc
    BY LenProperties DEF ToSet
  <2>2. \A d \in Doc : d.label \in ToSet(Labels)
    BY DEF Doc
  <2> QED BY <2>1, <2>2
<1>4. /\ ss \in Seq(Seq(Doc)) /\ DOMAIN ss = 1 .. Len(Labels)
      /\ \A k \in DOMAIN ss : ss[k] = Among(docs, Of(k))
  BY <1>1, <1>2
<1>5. InNameOrder(docs) = FlattenSeq(ss)
  BY DEF InNameOrder
<1>6. UNION {ToSet(ss[k]) : k \in DOMAIN ss} = ToSet(docs)
  <2>1. ASSUME NEW d \in ToSet(docs) PROVE \E k \in DOMAIN ss : d \in ToSet(ss[k])
    <3>1. PICK k \in 1 .. Len(Labels) : d.label = Labels[k]
      BY <1>1, <1>3 DEF ToSet
    <3>2. d \in Of(k)
      BY <3>1
    <3> QED BY <1>2, <1>4, <3>2
  <2>2. \A k \in DOMAIN ss : ToSet(ss[k]) \subseteq ToSet(docs)
    BY <1>2, <1>4
  <2> HIDE DEF ss
  <2> QED BY <2>1, <2>2
<1>7. ASSUME Ordered(docs, RunOrder) PROVE Ordered(FlattenSeq(ss), NameOrder)
  <2>1. ASSUME NEW k \in DOMAIN ss PROVE Ordered(ss[k], NameOrder)
    <3> DEFINE t == ss[k]
    <3>1. t \in Seq(Doc) /\ ToSet(t) = Of(k) /\ Ordered(t, RunOrder)
      BY <1>2, <1>4, <1>7
    <3> HIDE DEF t
    <3>2. \A j \in DOMAIN t : t[j] \in Doc /\ t[j].label = Labels[k]
      <4>1. \A j \in DOMAIN t : t[j] \in Of(k)
        BY <3>1 DEF ToSet
      <4> QED BY <1>3, <4>1
    <3>3. ASSUME NEW i \in DOMAIN t, NEW j \in DOMAIN t, i < j
          PROVE  <<t[i], t[j]>> \in NameOrder
      <4>1. <<t[i], t[j]>> \in RunOrder
        BY <3>1, <3>3 DEF Ordered
      <4>2. t[i].run <= t[j].run
        BY <4>1 DEF RunOrder
      <4> QED BY <3>2, <4>2 DEF NameOrder, HeadsSwapped
    <3> QED BY <3>3 DEF Ordered, t
  <2>2. ASSUME NEW j \in DOMAIN ss, NEW k \in DOMAIN ss, j < k,
               NEW x \in ToSet(ss[j]), NEW y \in ToSet(ss[k])
        PROVE  <<x, y>> \in NameOrder
    <3>1. /\ x \in Doc /\ x.label = Labels[j]
          /\ y \in Doc /\ y.label = Labels[k]
      BY <1>2, <1>3, <1>4
    <3>2. j \in DOMAIN Labels /\ k \in DOMAIN Labels /\ ~(k < j) /\ j # k
      BY <1>1, <1>4, <2>2
    <3>3. Labels[j] # Labels[k]
      BY <3>2 DEF IsInjective
    <3>4. ~HeadsSwapped(x, y)
      BY <3>1, <3>2 DEF HeadsSwapped
    <3> QED BY <3>1, <3>3, <3>4 DEF NameOrder
  <2> HIDE DEF ss
  <2> QED BY <1>4, <2>1, <2>2, FlattenOrdered
<1>8. FlattenSeq(ss) \in Seq(Doc) /\ ToSet(FlattenSeq(ss)) = ToSet(docs)
  <2> HIDE DEF ss
  <2> QED BY <1>4, <1>6, FlattenOrdered
<1> QED BY <1>5, <1>7, <1>8

\* The rows of a document.
LEMMA DocRows ==
    ASSUME device \in DOMAIN LanesOn, NEW q \in Precisions,
           NEW d \in Doc, d.run # 0
    PROVE  /\ RowsOfDoc(d, q) \in Seq(Row)
           /\ ToSet(RowsOfDoc(d, q)) =
                 {LaneRow(d, x, q) : x \in ToSet(LanesOn[device]) \ d.failed}
           /\ Ordered(RowsOfDoc(d, q), RowOrder)
<1> DEFINE scored == Among(LanesOn[device], ToSet(LanesOn[device]) \ d.failed)
           rows == RowsOfDoc(d, q)
<1>1. /\ LanesOn[device] \in Seq(DOMAIN Lane)
      /\ q \in {"FP32", "FP16", "INT8"}
  BY DeviceLanes DEF Precisions
<1>2. /\ scored \in Seq(DOMAIN Lane)
      /\ ToSet(scored) = ToSet(LanesOn[device]) \ d.failed
  <2>1. ToSet(scored) = ToSet(LanesOn[device])
                           \cap (ToSet(LanesOn[device]) \ d.failed)
    BY <1>1, AmongMembers
  <2> QED BY <1>1, <2>1, AmongType
<1>3. \A x \in DOMAIN Lane : LaneRow(d, x, q) \in Row
  <2>1. d.label \in ToSet(Labels) /\ d.run \in Nat \ {0}
    BY DEF Doc
  <2> QED BY <1>1, <2>1, LaneType DEF LaneRow, Row, RowPrecision
<1>4. rows = [k \in 1 .. Len(scored) |-> LaneRow(d, scored[k], q)]
  BY DEF RowsOfDoc, LaneRow
<1> HIDE DEF scored, rows
<1>5. /\ Len(scored) \in Nat /\ DOMAIN scored = 1 .. Len(scored)
      /\ \A k \in DOMAIN scored : scored[k] \in DOMAIN Lane
  BY <1>2, LenProperties
<1>6. rows \in Seq(Row) /\ DOMAIN rows = DOMAIN scored
      /\ \A k \in DOMAIN scored : rows[k] = LaneRow(d, scored[k], q)
  BY <1>3, <1>4, <1>5
<1>7. ToSet(rows) = {LaneRow(d, x, q) : x \in ToSet(scored)}
  BY <1>6 DEF ToSet
<1>8. Ordered(rows, RowOrder)
  <2>1. ASSUME NEW j \in DOMAIN rows, NEW k \in DOMAIN rows
        PROVE  <<rows[j], rows[k]>> \in RowOrder
    <3>1. /\ rows[j] \in Row /\ rows[j].label = d.label /\ rows[j].run = d.run
          /\ rows[k] \in Row /\ rows[k].label = d.label /\ rows[k].run = d.run
      BY <1>3, <1>5, <1>6 DEF LaneRow
    <3>2. d.run \in Nat
      BY DEF Doc
    <3> QED BY <3>1, <3>2 DEF RowOrder, HeadsSwapped
  <2> QED BY <2>1 DEF Ordered
<1> QED BY <1>2, <1>6, <1>7, <1>8 DEF rows

\* The rows of a directory.
LEMMA DirRows ==
    ASSUME device \in DOMAIN LanesOn, NEW q \in Precisions,
           NEW docs \in Seq(Doc), \A d \in ToSet(docs) : d.run # 0
    PROVE  /\ RowsOf(docs, q) \in Seq(Row)
           /\ ToSet(RowsOf(docs, q)) =
                 UNION {{LaneRow(d, x, q) : x \in ToSet(LanesOn[device]) \ d.failed}
                          : d \in ToSet(docs)}
           /\ Ordered(docs, RunOrder) => Ordered(RowsOf(docs, q), RowOrder)
<1> DEFINE sorted == InNameOrder(docs)
           ss == [k \in DOMAIN sorted |-> RowsOfDoc(sorted[k], q)]
           Own(d) == {LaneRow(d, x, q) : x \in ToSet(LanesOn[device]) \ d.failed}
<1>1. RowsOf(docs, q) = FlattenSeq(ss)
  BY DEF RowsOf
<1>2. /\ sorted \in Seq(Doc) /\ ToSet(sorted) = ToSet(docs)
      /\ Ordered(docs, RunOrder) => Ordered(sorted, NameOrder)
  BY NamesInOrder
<1> HIDE DEF sorted
<1>3. /\ DOMAIN sorted = 1 .. Len(sorted) /\ Len(sorted) \in Nat
      /\ \A k \in DOMAIN sorted : /\ sorted[k] \in Doc /\ sorted[k].run # 0
                                  /\ sorted[k] \in ToSet(docs)
  BY <1>2, LenProperties DEF ToSet
<1>4. \A k \in DOMAIN sorted :
         /\ RowsOfDoc(sorted[k], q) \in Seq(Row)
         /\ ToSet(RowsOfDoc(sorted[k], q)) = Own(sorted[k])
         /\ Ordered(RowsOfDoc(sorted[k], q), RowOrder)
  BY <1>3, DocRows
<1> HIDE DEF Own
<1>5. /\ ss \in Seq(Seq(Row)) /\ DOMAIN ss = DOMAIN sorted
      /\ \A k \in DOMAIN ss : /\ ToSet(ss[k]) = Own(sorted[k])
                              /\ Ordered(ss[k], RowOrder)
  BY <1>3, <1>4
<1> HIDE DEF ss
<1>6. UNION {ToSet(ss[k]) : k \in DOMAIN ss} = UNION {Own(d) : d \in ToSet(docs)}
  <2>1. \A d \in ToSet(docs) : \E k \in DOMAIN sorted : sorted[k] = d
    BY <1>2 DEF ToSet
  <2>2. ASSUME NEW r \in UNION {Own(d) : d \in ToSet(docs)}
        PROVE  \E k \in DOMAIN ss : r \in ToSet(ss[k])
    BY <1>5, <2>1
  <2>3. ASSUME NEW k \in DOMAIN ss, NEW r \in ToSet(ss[k])
        PROVE  \E d \in ToSet(docs) : r \in Own(d)
    BY <1>3, <1>5
  <2> QED BY <2>2, <2>3
<1>7. ASSUME Ordered(docs, RunOrder) PROVE Ordered(FlattenSeq(ss), RowOrder)
  <2>1. ASSUME NEW j \in DOMAIN ss, NEW k \in DOMAIN ss, j < k,
               NEW x \in ToSet(ss[j]), NEW y \in ToSet(ss[k])
        PROVE  <<x, y>> \in RowOrder
    <3>1. /\ x \in Row /\ x.label = sorted[j].label /\ x.run = sorted[j].run
          /\ y \in Row /\ y.label = sorted[k].label /\ y.run = sorted[k].run
      <4>1. x \in Own(sorted[j]) /\ y \in Own(sorted[k])
        BY <1>5, <2>1
      <4>2. \A i \in DOMAIN ss : ToSet(ss[i]) \subseteq Row
        BY <1>5, LenProperties DEF ToSet
      <4> QED BY <2>1, <4>1, <4>2 DEF Own, LaneRow
    <3>2. <<sorted[j], sorted[k]>> \in NameOrder
      BY <1>2, <1>5, <1>7, <2>1 DEF Ordered
    <3> QED BY <3>1, <3>2 DEF NameOrder, RowOrder, HeadsSwapped
  <2> QED BY <1>5, <2>1, FlattenOrdered
<1>8. FlattenSeq(ss) \in Seq(Row) /\ ToSet(FlattenSeq(ss)) = UNION {Own(d) : d \in ToSet(docs)}
  BY <1>5, <1>6, FlattenOrdered
<1> QED BY <1>1, <1>7, <1>8 DEF Own

\* The empty metrics file satisfies the invariant.
LEMMA InitStore == Init => StoreInv
<1> SUFFICES ASSUME Init PROVE StoreInv
  OBVIOUS
<1>1. StoreType
  BY EmptySeq DEF Init, StoreType
<1>2. \A q \in Precisions : dirs[q] = <<>> /\ merged[q] = <<>>
  BY DEF Init
<1>3. ToSet(<<>>) = {} /\ \A R : Ordered(<<>>, R)
  BY DEF ToSet, Ordered
<1>4. DirsOrdered
  BY <1>2, <1>3 DEF DirsOrdered
<1>5. FileOrdered
  BY <1>3 DEF FileOrdered, Init
<1>6. LastNormalizeOwns
  <2>1. SUFFICES ASSUME NEW q \in Precisions
                 PROVE  Among(<<>>, {r \in ToSet(<<>>) : r.precision = q}) = RowsOf(<<>>, q)
    BY <1>2 DEF LastNormalizeOwns, Init
  <2>2. <<>> \in Seq(Doc)
    BY EmptySeq
  <2>3. RowsOf(<<>>, q) \in Seq(Row) /\ ToSet(RowsOf(<<>>, q)) = {}
    <3> DEFINE none == <<>>
    <3>1. none \in Seq(Doc) /\ ToSet(none) = {}
      BY <1>3, <2>2
    <3> HIDE DEF none
    <3>2. /\ RowsOf(none, q) \in Seq(Row)
          /\ ToSet(RowsOf(none, q)) =
                UNION {{LaneRow(d, x, q) : x \in ToSet(LanesOn[device]) \ d.failed}
                         : d \in ToSet(none)}
      BY <1>1, <3>1, DirRows DEF StoreType
    <3>3. ToSet(RowsOf(none, q)) = {}
      BY <3>1, <3>2
    <3> QED BY <3>2, <3>3 DEF none
  <2>4. RowsOf(<<>>, q) = <<>>
    <3> DEFINE t == RowsOf(<<>>, q)
    <3>1. t \in Seq(Row) /\ ToSet(t) = {}
      BY <2>3
    <3> HIDE DEF t
    <3>2. Len(t) \in Nat /\ DOMAIN t = 1 .. Len(t)
      BY <3>1, LenProperties
    <3>3. Len(t) = 0
      <4>1. 1 \in DOMAIN t => t[1] \in ToSet(t)
        BY DEF ToSet
      <4> QED BY <3>1, <3>2, <4>1
    <3>4. t = <<>>
      BY <3>1, <3>3, EmptySeq
    <3> QED BY <3>4 DEF t
  <2> QED BY <2>4, AmongEmpty
<1> QED BY <1>1, <1>4, <1>5, <1>6 DEF StoreInv

\* What depends on the device alone.
LEMMA SameDevice ==
    ASSUME device' = device
    PROVE  /\ Precisions' = Precisions /\ NoAnchors' = NoAnchors
           /\ \A docs, q : RowsOf(docs, q)' = RowsOf(docs, q)
<1>1. Precisions' = Precisions
  BY DEF Precisions
<1>2. NoAnchors' = NoAnchors
  BY <1>1 DEF NoAnchors
<1>3. ASSUME NEW docs, NEW q PROVE RowsOf(docs, q)' = RowsOf(docs, q)
  BY DEF RowsOf, RowsOfDoc
<1> QED BY <1>1, <1>2, <1>3

\* A benchmark run leaves the file alone; its documents are the newest.
LEMMA BenchStep ==
    ASSUME StoreInv, NEW q \in Precisions, Bench(q)
    PROVE  StoreInv'
<1>0. StoreType /\ DirsOrdered /\ FileOrdered /\ LastNormalizeOwns
  BY DEF StoreInv
<1>1. /\ runs' = runs + 1 /\ runs \in Nat
      /\ device' = device /\ file' = file /\ merged' = merged
  BY <1>0 DEF Bench, StoreType
<1> DEFINE Ran(some) == Among(Labels, some)
           New(some, failed) ==
               [k \in 1 .. Len(Ran(some)) |->
                  [label |-> Ran(some)[k], run |-> runs', failed |->
                      IF k = 1 THEN failed ELSE {}]]
<1>2. PICK fresh \in BOOLEAN, some \in SUBSET ToSet(Labels) \ {{}},
           failed \in {{}} \cup {{x} : x \in ToSet(LanesOn[device])} :
         dirs' = [dirs EXCEPT ![q] =
                     IF fresh THEN New(some, failed) ELSE @ \o New(some, failed)]
  BY DEF Bench
<1> DEFINE new == New(some, failed)
<1>3. new \in Seq(Doc) /\ \A d \in ToSet(new) : d.run = runs'
  <2> DEFINE ran == Ran(some)
  <2>1. ran \in Seq(ToSet(Labels))
    BY AmongType
  <2>2. Len(ran) \in Nat /\ \A k \in 1 .. Len(ran) : ran[k] \in ToSet(Labels)
    BY <2>1
  <2>3. failed \subseteq DOMAIN Lane
    <3>1. LanesOn[device] \in Seq(DOMAIN Lane)
      BY <1>0, DeviceLanes DEF StoreType
    <3>2. ToSet(LanesOn[device]) \subseteq DOMAIN Lane
      BY <3>1, LenProperties DEF ToSet
    <3> QED BY <3>2
  <2>4. new = [k \in 1 .. Len(ran) |->
                  [label |-> ran[k], run |-> runs', failed |->
                      IF k = 1 THEN failed ELSE {}]]
    OBVIOUS
  <2> HIDE DEF ran, new
  <2>5. DOMAIN new = 1 .. Len(ran)
        /\ \A k \in 1 .. Len(ran) : new[k] \in Doc /\ new[k].run = runs'
    BY <1>1, <2>2, <2>3, <2>4 DEF Doc
  <2>6. new \in Seq(Doc)
    BY <2>2, <2>4, <2>5
  <2> QED BY <2>5, <2>6 DEF ToSet
<1> HIDE DEF new
<1>4. Ordered(new, RunOrder)
  <2>1. \A k \in DOMAIN new : new[k] \in Doc /\ new[k].run = runs'
    BY <1>3, LenProperties DEF ToSet
  <2> QED BY <1>1, <2>1 DEF Ordered, RunOrder
<1>5. dirs \in [Precisions -> Seq(Doc)] /\ dirs[q] \in Seq(Doc)
  BY <1>0 DEF StoreType
<1>6. /\ dirs' \in [Precisions -> Seq(Doc)]
      /\ dirs'[q] = new \/ dirs'[q] = dirs[q] \o new
      /\ \A p \in Precisions : p # q => dirs'[p] = dirs[p]
  <2>1. dirs[q] \o new \in Seq(Doc)
    BY <1>3, <1>5, ConcatProperties
  <2>2. \/ dirs' = [dirs EXCEPT ![q] = new]
        \/ dirs' = [dirs EXCEPT ![q] = @ \o new]
    BY <1>2 DEF new
  <2> QED BY <1>3, <1>5, <2>1, <2>2
<1>7. StoreType'
  BY <1>0, <1>1, <1>6 DEF StoreType, Precisions
<1>8. DirsOrdered'
  <2>1. SUFFICES ASSUME NEW p \in Precisions
                 PROVE  /\ Ordered(dirs'[p], RunOrder)
                        /\ \A d \in ToSet(dirs'[p]) : d.run <= runs'
                        /\ \A d \in ToSet(dirs'[p]) \cup ToSet(merged[p]) : d.run # 0
    BY <1>1 DEF DirsOrdered, Precisions
  <2>2. /\ Ordered(dirs[p], RunOrder)
        /\ \A d \in ToSet(dirs[p]) : d.run <= runs /\ d.run # 0
        /\ \A d \in ToSet(merged[p]) : d.run # 0
    BY <1>0 DEF DirsOrdered
  <2>3. dirs[p] \in Seq(Doc)
    BY <1>5
  <2>4. \A d \in ToSet(dirs[p]) : d \in Doc /\ d.run \in Nat
    <3>1. \A d \in ToSet(dirs[p]) : d \in Doc
      BY <2>3, LenProperties DEF ToSet
    <3> QED BY <3>1 DEF Doc
  <2>5. CASE dirs'[p] = dirs[p]
    BY <1>1, <2>2, <2>4, <2>5
  <2>6. CASE dirs'[p] = new
    BY <1>1, <1>3, <1>4, <2>2, <2>6
  <2>7. CASE dirs'[p] = dirs[p] \o new
    <3>1. ToSet(dirs'[p]) = ToSet(dirs[p]) \cup ToSet(new)
      BY <1>3, <2>3, <2>7, ToSetConcat
    <3>2. \A d \in ToSet(new) : d \in Doc
      BY <1>3, LenProperties DEF ToSet
    <3>3. \A x \in ToSet(dirs[p]), y \in ToSet(new) : <<x, y>> \in RunOrder
      BY <1>1, <1>3, <2>2, <2>4, <3>2 DEF RunOrder
    <3>4. Ordered(dirs'[p], RunOrder)
      BY <1>3, <1>4, <2>2, <2>3, <2>7, <3>3, OrderedConcat
    <3> QED BY <1>1, <1>3, <2>2, <2>4, <3>1, <3>4
  <2> QED BY <1>6, <2>5, <2>6, <2>7
<1>9. FileOrdered' /\ LastNormalizeOwns'
  BY <1>0, <1>1, SameDevice DEF FileOrdered, LastNormalizeOwns
<1> QED BY <1>7, <1>8, <1>9 DEF StoreInv

\* Merging a directory takes the rows of its precision away and appends those of
\* its documents.
LEMMA NormalizeStep ==
    ASSUME StoreInv, NEW q \in Precisions, Normalize(q)
    PROVE  StoreInv'
<1>0. StoreType /\ DirsOrdered /\ FileOrdered /\ LastNormalizeOwns
  BY DEF StoreInv
<1> DEFINE Others == {r \in ToSet(file) : r.precision # q}
           kept == Among(file, Others)
           new == RowsOf(dirs[q], q)
<1>1. /\ file' = kept \o new
      /\ merged' = [merged EXCEPT ![q] = dirs[q]]
      /\ device' = device /\ dirs' = dirs /\ runs' = runs
  BY DEF Normalize, Kept
<1>2. /\ device \in DOMAIN LanesOn /\ dirs[q] \in Seq(Doc) /\ file \in Seq(Row)
      /\ Ordered(dirs[q], RunOrder)
      /\ \A d \in ToSet(dirs[q]) : d.run # 0
  BY <1>0 DEF StoreType, DirsOrdered
<1>3. /\ kept \in Seq(Row) /\ ToSet(kept) = Others
      /\ \A R : Ordered(file, R) => Ordered(kept, R)
  BY <1>2, AmongType, AmongMembers, AmongOrdered
<1>4. /\ new \in Seq(Row)
      /\ ToSet(new) = UNION {{LaneRow(d, x, q) : x \in ToSet(LanesOn[device]) \ d.failed}
                               : d \in ToSet(dirs[q])}
      /\ Ordered(new, RowOrder)
  BY <1>2, DirRows
<1>5. NoAnchors => \A r \in ToSet(new) : r.precision = q
  <2>1. SUFFICES ASSUME NoAnchors, NEW r \in ToSet(new) PROVE r.precision = q
    OBVIOUS
  <2>2. PICK d \in ToSet(dirs[q]) :
           r \in {LaneRow(d, x, q) : x \in ToSet(LanesOn[device]) \ d.failed}
    BY <1>4
  <2>3. PICK x \in ToSet(LanesOn[device]) : r = LaneRow(d, x, q)
    BY <2>2
  <2>4. q = "FP32" \/ x \notin Anchors
    BY <2>1 DEF NoAnchors
  <2>5. RowPrecision(x, q) = q
    BY <2>4 DEF RowPrecision
  <2> QED BY <2>3, <2>5 DEF LaneRow
<1>6. file' \in Seq(Row)
  BY <1>1, <1>3, <1>4, ConcatProperties
<1>7. StoreType'
  BY <1>0, <1>1, <1>2, <1>6 DEF StoreType, Precisions
<1>8. DirsOrdered'
  <2>1. \A p \in Precisions : merged'[p] = IF p = q THEN dirs[q] ELSE merged[p]
    BY <1>0, <1>1 DEF StoreType
  <2>2. SUFFICES ASSUME NEW p \in Precisions
                 PROVE  /\ Ordered(dirs[p], RunOrder)
                        /\ \A d \in ToSet(dirs[p]) : d.run <= runs
                        /\ \A d \in ToSet(dirs[p]) \cup ToSet(merged'[p]) : d.run # 0
    BY <1>1 DEF DirsOrdered, Precisions
  <2>3. CASE p = q
    BY <1>0, <2>1, <2>3 DEF DirsOrdered
  <2>4. CASE p # q
    <3>1. merged'[p] = merged[p]
      BY <2>1, <2>4
    <3> QED BY <1>0, <3>1 DEF DirsOrdered
  <2> QED BY <2>3, <2>4
<1>9. FileOrdered'
  <2>1. SUFFICES ASSUME NoAnchors PROVE Ordered(file', RowOrder)
    BY <1>1, SameDevice DEF FileOrdered
  <2>2. Ordered(kept, RowOrder)
    BY <1>0, <1>3, <2>1 DEF FileOrdered
  <2>3. \A x \in ToSet(kept), y \in ToSet(new) : <<x, y>> \in RowOrder
    <3>1. ASSUME NEW x \in ToSet(kept), NEW y \in ToSet(new)
          PROVE  <<x, y>> \in RowOrder
      <4>1. x.precision # q /\ y.precision = q
        BY <1>3, <1>5, <2>1
      <4>2. x \in Row /\ y \in Row
        BY <1>3, <1>4, LenProperties DEF ToSet
      <4> QED BY <4>1, <4>2 DEF RowOrder
    <3> QED BY <3>1
  <2> HIDE DEF kept, new
  <2> QED BY <1>1, <1>3, <1>4, <2>2, <2>3, OrderedConcat
<1>10. LastNormalizeOwns'
  <2>1. SUFFICES ASSUME NoAnchors, NEW p \in Precisions
                 PROVE  Among(file', {r \in ToSet(file') : r.precision = p})
                        = RowsOf(merged'[p], p)
    <3>1. SUFFICES ASSUME NoAnchors', NEW p \in Precisions'
                   PROVE  (Among(file, {r \in ToSet(file) : r.precision = p})
                           = RowsOf(merged[p], p))'
      BY DEF LastNormalizeOwns
    <3>2. NoAnchors /\ p \in Precisions
      BY <1>1, <3>1, SameDevice
    <3>3. RowsOf(merged[p], p)' = RowsOf(merged'[p], p)
      BY <1>1 DEF RowsOf, RowsOfDoc
    <3> QED BY <3>2, <3>3
  <2> DEFINE Of(t) == {r \in ToSet(t) : r.precision = p}
             P == {r \in Row : r.precision = p}
  <2>2. ASSUME NEW t \in Seq(Row) PROVE Among(t, Of(t)) = Among(t, P)
    <3>1. ToSet(t) \subseteq Row
      BY LenProperties DEF ToSet
    <3>2. ToSet(t) \cap Of(t) = ToSet(t) \cap P
      BY <3>1
    <3> HIDE DEF P, Of
    <3> QED BY <3>2, AmongSame
  <2>3. ToSet(kept) \subseteq Row /\ ToSet(new) \subseteq Row /\ ToSet(file) \subseteq Row
    BY <1>2, <1>3, <1>4, LenProperties DEF ToSet
  <2>4. Among(file', Of(file')) = Among(kept, P) \o Among(new, P)
    <3>1. Among(file', Of(file')) = Among(file', P)
      BY <1>6, <2>2
    <3>2. Among(kept \o new, P) = Among(kept, P) \o Among(new, P)
      <4> HIDE DEF kept, new, P
      <4> QED BY <1>3, <1>4, AmongConcat
    <3> QED BY <1>1, <3>1, <3>2
  <2>5. CASE p = q
    <3>1. ToSet(kept) \cap P = {}
      BY <1>3, <2>5
    <3>2. ToSet(new) \subseteq P
      BY <1>5, <2>1, <2>3, <2>5
    <3> HIDE DEF P, kept, new
    <3>3. Among(kept, P) = <<>> /\ Among(new, P) = new
      BY <1>3, <1>4, <3>1, <3>2, AmongAll
    <3>4. Among(kept, P) \o Among(new, P) = new
      BY <1>4, <3>3, ConcatEmptySeq
    <3>5. merged'[p] = dirs[q]
      BY <1>0, <1>1, <2>5 DEF StoreType
    <3> QED BY <2>4, <2>5, <3>4, <3>5 DEF new
  <2>6. CASE p # q
    <3>1. ToSet(new) \cap P = {}
      BY <1>5, <2>1, <2>6
    <3>2. Among(new, P) = <<>>
      <4> HIDE DEF P, new
      <4> QED BY <1>4, <3>1, AmongAll
    <3>3. ToSet(file) \cap (Others \cap P) = ToSet(file) \cap P
      BY <2>6
    <3>4. Among(kept, P) = Among(file, P)
      <4> HIDE DEF P, Others
      <4>1. Among(Among(file, Others), P) = Among(file, Others \cap P)
        BY <1>2, AmongTwice
      <4>2. Among(file, Others \cap P) = Among(file, P)
        BY <1>2, <3>3, AmongSame
      <4> QED BY <4>1, <4>2
    <3>5. Among(kept, P) \in Seq(Row)
      <4> HIDE DEF P, kept
      <4> QED BY <1>3, AmongType
    <3>6. Among(kept, P) \o Among(new, P) = Among(file, P)
      <4> HIDE DEF P, kept, new
      <4> QED BY <3>2, <3>4, <3>5, ConcatEmptySeq
    <3>7. merged'[p] = merged[p]
      BY <1>0, <1>1, <2>6 DEF StoreType
    <3>8. Among(file, Of(file)) = RowsOf(merged[p], p)
      BY <1>0, <2>1 DEF LastNormalizeOwns
    <3>9. Among(file, P) = Among(file, Of(file))
      BY <1>2, <2>2
    <3> QED BY <2>4, <3>6, <3>7, <3>8, <3>9
  <2> QED BY <2>5, <2>6
<1> QED BY <1>7, <1>8, <1>9, <1>10 DEF StoreInv

\* So does a step that leaves the store alone.
LEMMA SameStore ==
    ASSUME StoreInv, UNCHANGED vars
    PROVE  StoreInv'
<1>1. device' = device /\ dirs' = dirs /\ runs' = runs /\ file' = file /\ merged' = merged
  BY DEF vars
<1>2. StoreType' /\ DirsOrdered'
  BY <1>1, SameDevice DEF StoreInv, StoreType, DirsOrdered
<1>3. FileOrdered' /\ LastNormalizeOwns'
  BY <1>1, SameDevice DEF StoreInv, FileOrdered, LastNormalizeOwns
<1> QED BY <1>2, <1>3 DEF StoreInv

\* Every step of the store keeps its invariant.
LEMMA StoreStep == StoreInv /\ [Next]_vars => StoreInv'
BY BenchStep, NormalizeStep, SameStore DEF Next

\* StoreInv holds in every reachable state of the metrics store.
THEOREM StoreInvariance == Spec => []StoreInv
BY InitStore, StoreStep, PTL DEF Spec

\* Where no lane is filed under another precision, normalize() replaces the rows
\* of its precision, all of them and nothing else: what the file holds of a
\* precision is what its last directory held, in order.
THEOREM LastNormalizeOwnsSafety == Spec => []LastNormalizeOwns
<1>1. StoreInv => LastNormalizeOwns
  BY DEF StoreInv
<1> QED BY <1>1, StoreInvariance, PTL

-----------------------------------------------------------------------------
(* The readers.                                                            *)

\* The first and the last of a sequence that is not empty.
LEMMA NotEmpty ==
    ASSUME NEW T, NEW s \in Seq(T), s # <<>>
    PROVE  /\ Len(s) \in Nat /\ DOMAIN s = 1 .. Len(s)
           /\ 1 \in DOMAIN s /\ Len(s) \in DOMAIN s
           /\ s[1] \in ToSet(s) /\ s[Len(s)] \in ToSet(s)
<1>1. Len(s) \in Nat \ {0} /\ DOMAIN s = 1 .. Len(s)
  BY EmptySeq, LenProperties
<1>2. 1 \in DOMAIN s /\ Len(s) \in DOMAIN s
  BY <1>1
<1> QED BY <1>1, <1>2 DEF ToSet

\* The rows a reader chooses from are all those of one engine of its list, and
\* there are some if any row is of an engine of the list.
LEMMA PreferredRows ==
    ASSUME NEW rows \in Seq(Row), NEW prefs \in Seq(Engines)
    PROVE  /\ Preferred(rows, prefs) \in Seq(Row)
           /\ Ordered(rows, RowOrder) => Ordered(Preferred(rows, prefs), RowOrder)
           /\ Preferred(rows, prefs) # <<>> =>
                 \E e : ToSet(Preferred(rows, prefs)) =
                           {r \in ToSet(rows) : r.engine = e}
           /\ (\E r \in ToSet(rows) : r.engine \in ToSet(prefs))
              => Preferred(rows, prefs) # <<>>
<1> DEFINE E == {r.engine : r \in ToSet(rows)}
           found == Among(prefs, E)
           Of(e) == {r \in ToSet(rows) : r.engine = e}
           P == Preferred(rows, prefs)
<1>1. found \in Seq(Engines) /\ ToSet(found) = ToSet(prefs) \cap E
  <2> HIDE DEF E
  <2> QED BY AmongType, AmongMembers
<1>2. P = IF found = <<>> THEN <<>> ELSE Among(rows, Of(found[1]))
  BY DEF Preferred
<1> HIDE DEF found, P
<1>3. CASE found = <<>>
  <2>1. P = <<>>
    BY <1>2, <1>3
  <2>2. Ordered(<<>>, RowOrder) /\ <<>> \in Seq(Row) /\ ToSet(<<>>) = {}
    BY EmptySeq DEF Ordered, ToSet
  <2>3. ToSet(prefs) \cap E = {}
    BY <1>1, <1>3, <2>2
  <2>4. ~(\E r \in ToSet(rows) : r.engine \in ToSet(prefs))
    BY <2>3
  <2> QED BY <2>1, <2>2, <2>4 DEF P
<1>4. CASE found # <<>>
  <2> DEFINE e == found[1]
  <2>1. P = Among(rows, Of(e))
    BY <1>2, <1>4
  <2>2. found[1] \in ToSet(found)
    BY <1>1, <1>4, NotEmpty
  <2>3. PICK r \in ToSet(rows) : r.engine = e
    BY <1>1, <2>2
  <2> HIDE DEF e
  <2>4. /\ P \in Seq(Row) /\ ToSet(P) = Of(e)
        /\ Ordered(rows, RowOrder) => Ordered(P, RowOrder)
    <3>1. ToSet(Among(rows, Of(e))) = ToSet(rows) \cap Of(e)
      BY AmongMembers
    <3> QED BY <2>1, <3>1, AmongType, AmongOrdered
  <2>5. P # <<>>
    <3>1. ToSet(<<>>) = {}
      BY DEF ToSet
    <3> QED BY <2>3, <2>4, <3>1
  <2> QED BY <2>4, <2>5 DEF P
<1> QED BY <1>3, <1>4

\* In a file in the order of RowOrder the summary shows the newest run.
LEMMA NewestShown == StoreInv => AggregateNewest
<1> SUFFICES ASSUME StoreInv, NoAnchors, NEW q \in Precisions,
                    NEW label \in ToSet(Labels),
                    AggregateShows(label, q) # NoRow,
                    NEW k \in 1 .. Len(file),
                    file[k].label = label, file[k].precision = q,
                    file[k].engine = AggregateShows(label, q).engine,
                    file[k].validator = AggregateShows(label, q).validator
             PROVE  file[k].run <= AggregateShows(label, q).run
  BY DEF AggregateNewest
<1> DEFINE W == {r \in ToSet(file) : /\ r.label = label /\ r.precision = q
                                     /\ r.validator = "ultralytics"}
           rows == Among(file, W)
           P == Preferred(rows, UltOfAggregate)
           row == AggregateShows(label, q)
<1>1. file \in Seq(Row) /\ Ordered(file, RowOrder)
  BY DEF StoreInv, StoreType, FileOrdered
<1>2. rows \in Seq(Row) /\ Ordered(rows, RowOrder) /\ ToSet(rows) = W
  <2>1. ToSet(rows) = ToSet(file) \cap W
    BY <1>1, AmongMembers
  <2>2. ToSet(file) \cap W = W
    OBVIOUS
  <2> HIDE DEF W
  <2> QED BY <1>1, <2>1, <2>2, AmongType, AmongOrdered
<1>3. UltOfAggregate \in Seq(Engines)
  BY DEF UltOfAggregate, Engines
<1>4. row = IF P = <<>> THEN NoRow ELSE P[Len(P)]
  BY DEF AggregateShows, AggregatePick
<1> HIDE DEF rows
<1>5. /\ P \in Seq(Row) /\ Ordered(P, RowOrder)
      /\ P # <<>> => \E e : ToSet(P) = {r \in ToSet(rows) : r.engine = e}
  BY <1>2, <1>3, PreferredRows
<1> HIDE DEF P, row
<1>6. P # <<>> /\ row = P[Len(P)]
  BY <1>4 DEF row
<1>7. PICK e : ToSet(P) = {r \in ToSet(rows) : r.engine = e}
  BY <1>5, <1>6
<1>8. /\ Len(P) \in Nat /\ DOMAIN P = 1 .. Len(P)
      /\ Len(P) \in DOMAIN P /\ row \in ToSet(P)
  BY <1>5, <1>6, NotEmpty
<1>9. row.engine = e /\ row.validator = "ultralytics" /\ row \in Row
  <2>1. row \in ToSet(rows) /\ row.engine = e
    BY <1>7, <1>8
  <2>2. row \in W
    BY <1>2, <2>1
  <2>3. ToSet(file) \subseteq Row
    BY <1>1, LenProperties DEF ToSet
  <2> QED BY <2>1, <2>2, <2>3
<1>10. file[k] \in ToSet(P)
  <2>1. file[k] \in ToSet(file)
    BY <1>1, LenProperties DEF ToSet
  <2>2. file[k] \in W
    BY <1>9, <2>1 DEF row
  <2> QED BY <1>2, <1>7, <1>9, <2>2 DEF row
<1>11. PICK i \in DOMAIN P : P[i] = file[k]
  BY <1>10 DEF ToSet
<1>12. CASE i = Len(P)
  <2>1. file[k] = row /\ row.run \in Nat
    BY <1>6, <1>9, <1>11, <1>12 DEF Row
  <2> QED BY <2>1 DEF row
<1>13. CASE i # Len(P)
  <2>1. i < Len(P)
    BY <1>8, <1>13
  <2>2. <<P[i], P[Len(P)]>> \in RowOrder
    BY <1>5, <1>8, <2>1 DEF Ordered
  <2>3. <<file[k], row>> \in RowOrder
    BY <1>6, <1>11, <2>2
  <2>4. row.label = label /\ row.precision = q
    BY <1>2, <1>7, <1>8
  <2> QED BY <2>3, <2>4 DEF RowOrder, row
<1> QED BY <1>12, <1>13

\* Where no lane is filed under another precision, the summary shows the newest
\* run that scored the engine it prefers, although a directory and so the file
\* hold several runs of a variant: _pick keeps the last row of an engine.
THEOREM AggregateNewestSafety == Spec => []AggregateNewest
BY NewestShown, StoreInvariance, PTL

\* The comparison reads the classic head if the last merge has it whole.
LEMMA ClassicCompared == StoreInv => ComparesClassicHead
<1> SUFFICES ASSUME StoreInv, NoAnchors, NEW q \in Precisions,
                    NEW label \in ToSet(Labels) \ NmsFree,
                    \E k \in 1 .. Len(merged[q]) : merged[q][k].label = label,
                    \A k \in 1 .. Len(merged[q]) : merged[q][k].failed = {}
             PROVE  Reference(file, Model[label], q).label \notin NmsFree
  BY DEF ComparesClassicHead
<1> DEFINE K == {r \in ToSet(file) : Model[r.label] = Model[label] /\ r.precision = q}
           keyed == Among(file, K)
           U == {r \in ToSet(keyed) : r.validator = "ultralytics"}
           rows == Among(keyed, U)
           P == Preferred(rows, UltOfCompare)
<1>1. /\ device \in DOMAIN LanesOn
      /\ file \in Seq(Row) /\ Ordered(file, RowOrder)
      /\ merged[q] \in Seq(Doc) /\ \A d \in ToSet(merged[q]) : d.run # 0
      /\ Among(file, {r \in ToSet(file) : r.precision = q}) = RowsOf(merged[q], q)
  BY DEF StoreInv, StoreType, FileOrdered, DirsOrdered, LastNormalizeOwns
<1>2. keyed \in Seq(Row) /\ Ordered(keyed, RowOrder) /\ ToSet(keyed) = K
  <2>1. ToSet(keyed) = ToSet(file) \cap K
    BY <1>1, AmongMembers
  <2>2. ToSet(file) \cap K = K
    OBVIOUS
  <2> HIDE DEF K
  <2> QED BY <1>1, <2>1, <2>2, AmongType, AmongOrdered
<1>3. Reference(file, Model[label], q) = IF P = <<>> THEN NoRow ELSE P[1]
  BY DEF Reference, RowsOfKey, ComparePick
<1> HIDE DEF keyed
<1>4. rows \in Seq(Row) /\ Ordered(rows, RowOrder) /\ ToSet(rows) = U
  <2>1. ToSet(rows) = ToSet(keyed) \cap U
    BY <1>2, AmongMembers
  <2>2. ToSet(keyed) \cap U = U
    OBVIOUS
  <2> HIDE DEF U
  <2> QED BY <1>2, <2>1, <2>2, AmongType, AmongOrdered
<1>5. UltOfCompare \in Seq(Engines) /\ ToSet(UltOfCompare) = Engines \ {"torch", "numpy"}
  BY DEF UltOfCompare, Engines, ToSet
<1> HIDE DEF rows
<1>6. /\ P \in Seq(Row) /\ Ordered(P, RowOrder)
      /\ P # <<>> => \E e : ToSet(P) = {r \in ToSet(rows) : r.engine = e}
      /\ (\E r \in ToSet(rows) : r.engine \in ToSet(UltOfCompare)) => P # <<>>
  BY <1>4, <1>5, PreferredRows
<1> HIDE DEF P
\* The classic head has a row of every lane of the device.
<1>7. PICK d \in ToSet(merged[q]) : d.label = label /\ d.failed = {}
  <2>1. DOMAIN merged[q] = 1 .. Len(merged[q])
    BY <1>1, LenProperties
  <2> QED BY <2>1 DEF ToSet
<1>8. ASSUME NEW x \in ToSet(LanesOn[device]), Lane[x].validator = "ultralytics"
      PROVE  LaneRow(d, x, q) \in ToSet(rows)
  <2> DEFINE r == LaneRow(d, x, q)
             Q == {t \in ToSet(file) : t.precision = q}
  <2>1. r \in ToSet(RowsOf(merged[q], q))
    <3>1. ToSet(RowsOf(merged[q], q)) =
             UNION {{LaneRow(c, y, q) : y \in ToSet(LanesOn[device]) \ c.failed}
                      : c \in ToSet(merged[q])}
      BY <1>1, DirRows
    <3>2. r \in {LaneRow(d, y, q) : y \in ToSet(LanesOn[device]) \ d.failed}
      BY <1>7
    <3> HIDE DEF r
    <3> QED BY <3>1, <3>2
  <2>2. ToSet(Among(file, Q)) = ToSet(file) \cap Q
    BY <1>1, AmongMembers
  <2>3. r \in ToSet(file) /\ r.precision = q
    BY <1>1, <2>1, <2>2
  <2>4. r.label = label /\ r.validator = "ultralytics"
    BY <1>7, <1>8 DEF LaneRow
  <2> HIDE DEF r
  <2>5. r \in K
    BY <2>3, <2>4
  <2>6. r \in U
    BY <1>2, <2>4, <2>5
  <2> QED BY <1>4, <2>6 DEF r
<1>9. P # <<>>
  <2>1. PICK x \in ToSet(LanesOn[device]) : x \in {"ult-onnx", "ult-engine"}
    BY <1>1, DeviceLanes
  <2>2. Lane[x].validator = "ultralytics" /\ Lane[x].engine \in Engines \ {"torch", "numpy"}
    BY <2>1, LaneType DEF Engines
  <2>3. LaneRow(d, x, q) \in ToSet(rows)
    BY <1>8, <2>2
  <2>4. LaneRow(d, x, q).engine \in ToSet(UltOfCompare)
    BY <1>5, <2>2 DEF LaneRow
  <2> QED BY <1>6, <2>3, <2>4
<1>10. PICK e : ToSet(P) = {r \in ToSet(rows) : r.engine = e}
  BY <1>6, <1>9
<1>11. 1 \in DOMAIN P /\ P[1] \in ToSet(P) /\ DOMAIN P = 1 .. Len(P) /\ Len(P) \in Nat
  BY <1>6, <1>9, NotEmpty
<1>12. /\ P[1] \in Row /\ P[1].engine = e /\ P[1].validator = "ultralytics"
       /\ P[1].precision = q /\ Model[P[1].label] = Model[label]
       /\ P[1] \in ToSet(file)
  <2>1. P[1] \in ToSet(rows) /\ P[1].engine = e
    BY <1>10, <1>11
  <2>2. P[1] \in U /\ P[1] \in K
    BY <1>2, <1>4, <2>1
  <2>3. P[1] \in Row
    BY <1>6, <1>11
  <2> QED BY <2>1, <2>2, <2>3
\* So it has one of the engine chosen.
<1>13. \E r \in ToSet(P) : r.label = label /\ r.precision = q
  <2> DEFINE Q == {t \in ToSet(file) : t.precision = q}
  <2>1. P[1] \in ToSet(RowsOf(merged[q], q))
    <3>1. ToSet(Among(file, Q)) = ToSet(file) \cap Q
      BY <1>1, AmongMembers
    <3>2. P[1] \in Q
      BY <1>12
    <3> QED BY <1>1, <3>1, <3>2
  <2>2. PICK c \in ToSet(merged[q]), x \in ToSet(LanesOn[device]) : P[1] = LaneRow(c, x, q)
    <3>1. ToSet(RowsOf(merged[q], q)) =
             UNION {{LaneRow(b, y, q) : y \in ToSet(LanesOn[device]) \ b.failed}
                      : b \in ToSet(merged[q])}
      BY <1>1, DirRows
    <3>2. PICK c \in ToSet(merged[q]) :
             P[1] \in {LaneRow(c, y, q) : y \in ToSet(LanesOn[device]) \ c.failed}
      BY <2>1, <3>1
    <3> QED BY <3>2
  <2>3. Lane[x].validator = "ultralytics" /\ Lane[x].engine = e
    BY <1>12, <2>2 DEF LaneRow
  <2>4. LaneRow(d, x, q) \in ToSet(rows)
    BY <1>8, <2>3
  <2>5. LaneRow(d, x, q).engine = e /\ LaneRow(d, x, q).label = label
    BY <1>7, <2>3 DEF LaneRow
  <2>6. LaneRow(d, x, q).precision = q
    BY <1>12, <2>2 DEF LaneRow
  <2>7. LaneRow(d, x, q) \in ToSet(P)
    BY <1>10, <2>4, <2>5
  <2> QED BY <2>5, <2>6, <2>7
<1>14. P[1].label \notin NmsFree
  <2>1. PICK i \in DOMAIN P : P[i].label = label /\ P[i].precision = q
    BY <1>13 DEF ToSet
  <2>2. CASE i = 1
    BY <2>1, <2>2
  <2>3. CASE i # 1
    <3>1. 1 < i
      BY <1>11, <2>3
    <3>2. <<P[1], P[i]>> \in RowOrder
      BY <1>6, <1>11, <3>1 DEF Ordered
    <3> QED BY <1>12, <2>1, <3>2 DEF RowOrder, HeadsSwapped
  <2> QED BY <2>2, <2>3
<1> QED BY <1>3, <1>9, <1>14

\* Where no lane is filed under another precision, the reference row of the
\* comparison is the classic head's when the last merge has it and no lane
\* failed, although its NMS-free variant has rows under the same key: pick
\* takes the first row of an engine, and the classic file sorts first.
THEOREM ComparesClassicHeadSafety == Spec => []ComparesClassicHead
BY ClassicCompared, StoreInvariance, PTL

-----------------------------------------------------------------------------
(* The comparison.                                                         *)

USE CatalogAssumption

CatalogRecord == [session : Sessions, ours : BOOLEAN, model : STRING,
                  precision : {"FP32", "FP16", "INT8"}]

Result == [ap : Nat \cup {NoAP}, timed : BOOLEAN, fps : BOOLEAN]

Entry == [error : BOOLEAN, ap : Nat \cup {NoAP}, fps : BOOLEAN]

Entries == UNION {[D -> Entry] : D \in SUBSET Sessions}

StudioType ==
    /\ studio \in [Sessions -> Result]
    /\ cache \in [file : {"none", "torn", "whole"}, held : Entries]
    /\ cmp \in [at : {"idle", "fetch", "report"}, refresh : BOOLEAN,
                rows : Seq(Row), matched : Seq(CatalogRecord),
                found : Entries, todo : Seq(CatalogRecord)]
    /\ \A l \in shown : l.session \in Sessions

\* A number of an entry is the Studio's.
OwnEntries(f, st) ==
    \A s \in DOMAIN f : /\ f[s].ap # NoAP => f[s].ap = st[s].ap
                        /\ f[s].fps => st[s].fps

\* Every matched session is found or still to fetch.
Covers(matched, found, todo) ==
    \A r \in ToSet(matched) :
        \/ r.session \in DOMAIN found
        \/ \E t \in ToSet(todo) : t.session = r.session

OnePerKey(matched) == \A x, y \in ToSet(matched) : Key(x) = Key(y) => x = y

InHand ==
    /\ OwnEntries(cache.held, studio)
    /\ OwnEntries(cmp.found, studio)
    /\ Covers(cmp.matched, cmp.found, cmp.todo)
    /\ cmp.at = "report" => cmp.todo = <<>>
    /\ OnePerKey(cmp.matched)

\* What was found holds what the cache held, and nothing of it is fetched.
Carries(held, found, todo) ==
    /\ \A s \in DOMAIN held : s \in DOMAIN found /\ found[s] = held[s]
    /\ \A t \in ToSet(todo) : t.session \notin DOMAIN held

Carried ==
    cmp.at = "fetch" /\ ~cmp.refresh =>
        cache.file # "torn" /\ Carries(cache.held, cmp.found, cmp.todo)

CompareInv == StoreInv /\ StudioType /\ InHand /\ Carried /\ LinesAreOwn

\* A line per key, and all of them records of the catalog.
LEMMA MatchedOnce ==
    ASSUME NEW catalog \in Seq(CatalogRecord), NEW rows
    PROVE  Matched(catalog, rows) \in Seq(CatalogRecord) /\ OnePerKey(Matched(catalog, rows))
<1> DEFINE u == Usable(catalog, rows)
           seen(k) == \E j \in 1 .. k - 1 : Key(u[j]) = Key(u[k])
           ss == [k \in DOMAIN u |-> IF seen(k) THEN <<>> ELSE <<u[k]>>]
<1>1. u \in Seq(CatalogRecord)
  BY AmongType DEF Usable
<1>2. Matched(catalog, rows) = FlattenSeq(ss)
  BY DEF Matched
<1> HIDE DEF u
<1>3. /\ Len(u) \in Nat /\ DOMAIN u = 1 .. Len(u)
      /\ \A k \in DOMAIN u : u[k] \in CatalogRecord
  BY <1>1, LenProperties
<1>4. /\ DOMAIN ss = DOMAIN u
      /\ \A k \in DOMAIN ss : \A x \in ToSet(ss[k]) : ~seen(k) /\ x = u[k]
  <2>1. ToSet(<<>>) = {} /\ \A x : ToSet(<<x>>) = {x}
    BY DEF ToSet
  <2> QED BY <2>1
<1>5. ss \in Seq(Seq(CatalogRecord))
  <2>1. \A k \in 1 .. Len(u) : ss[k] \in Seq(CatalogRecord)
    <3> HIDE DEF seen
    <3> QED BY <1>3
  <2> HIDE DEF seen
  <2> QED BY <1>3, <2>1
<1> HIDE DEF ss
<1>6. /\ FlattenSeq(ss) \in Seq(CatalogRecord)
      /\ ToSet(FlattenSeq(ss)) = UNION {ToSet(ss[k]) : k \in DOMAIN ss}
  BY <1>5, FlattenOrdered
<1>7. ASSUME NEW x \in ToSet(FlattenSeq(ss)), NEW y \in ToSet(FlattenSeq(ss)),
             Key(x) = Key(y)
      PROVE  x = y
  <2>1. PICK j \in DOMAIN u : ~seen(j) /\ x = u[j]
    BY <1>4, <1>6
  <2>2. PICK k \in DOMAIN u : ~seen(k) /\ y = u[k]
    BY <1>4, <1>6
  <2> HIDE DEF Key
  <2>3. ~(j < k) /\ ~(k < j)
    BY <1>3, <1>7, <2>1, <2>2
  <2>4. j = k
    BY <1>3, <2>3
  <2> QED BY <2>1, <2>2, <2>4
<1> QED BY <1>2, <1>6, <1>7 DEF OnePerKey

\* The sessions to fetch are the matched ones without an entry.
LEMMA FetchedOnly ==
    ASSUME NEW matched \in Seq(CatalogRecord), NEW held
    PROVE  /\ ToFetch(matched, held) \in Seq(CatalogRecord)
           /\ Covers(matched, held, ToFetch(matched, held))
           /\ Carries(held, held, ToFetch(matched, held))
<1> DEFINE S == {r \in ToSet(matched) : r.session \notin DOMAIN held}
<1>1. Among(matched, S) \in Seq(CatalogRecord)
      /\ ToSet(Among(matched, S)) = ToSet(matched) \cap S
  <2> HIDE DEF S
  <2> QED BY AmongType, AmongMembers
<1>2. ToFetch(matched, held) = Among(matched, S)
  BY DEF ToFetch
<1> QED BY <1>1, <1>2 DEF Covers, Carries

\* A reference row is of the model and the precision asked for.
LEMMA ReferenceOwn ==
    ASSUME NEW rows \in Seq(Row), NEW model, NEW q, Reference(rows, model, q) # NoRow
    PROVE  /\ Model[Reference(rows, model, q).label] = model
           /\ Reference(rows, model, q).precision = q
<1> DEFINE K == {r \in ToSet(rows) : Model[r.label] = model /\ r.precision = q}
           keyed == Among(rows, K)
           U == {r \in ToSet(keyed) : r.validator = "ultralytics"}
           ult == Among(keyed, U)
           P == Preferred(ult, UltOfCompare)
<1>1. Reference(rows, model, q) = IF P = <<>> THEN NoRow ELSE P[1]
  BY DEF Reference, RowsOfKey, ComparePick
<1>2. keyed \in Seq(Row) /\ ToSet(keyed) \subseteq K
  <2> HIDE DEF K
  <2> QED BY AmongType, AmongMembers
<1> HIDE DEF keyed
<1>3. ult \in Seq(Row) /\ ToSet(ult) \subseteq ToSet(keyed)
  <2> HIDE DEF U
  <2> QED BY <1>2, AmongType, AmongMembers
<1> HIDE DEF ult
<1>4. UltOfCompare \in Seq(Engines)
  BY DEF UltOfCompare, Engines
<1>5. P \in Seq(Row) /\ (P # <<>> => \E e : ToSet(P) = {r \in ToSet(ult) : r.engine = e})
  BY <1>3, <1>4, PreferredRows
<1> HIDE DEF P
<1>6. P # <<>> /\ Reference(rows, model, q) = P[1]
  BY <1>1
<1>7. P[1] \in ToSet(P)
  BY <1>5, <1>6, NotEmpty
<1>8. P[1] \in K
  BY <1>2, <1>3, <1>5, <1>6, <1>7
<1> QED BY <1>6, <1>8

\* Before the first comparison the invariant holds.
LEMMA InitCompare == CompareInit => CompareInv
<1> SUFFICES ASSUME CompareInit PROVE CompareInv
  OBVIOUS
<1>1. StoreInv
  BY InitStore DEF CompareInit
<1>2. Nothing \in Entries /\ DOMAIN Nothing = {}
  <2>1. Nothing \in [{} -> Entry]
    BY DEF Nothing
  <2> QED BY <2>1 DEF Entries
<1>3. /\ Blank \in Result
      /\ <<>> \in Seq(Row) /\ <<>> \in Seq(CatalogRecord) /\ ToSet(<<>>) = {}
  BY EmptySeq DEF Blank, Result, NoAP, ToSet
<1>4. /\ cache = [file |-> "none", held |-> Nothing] /\ cmp = Idle /\ shown = {}
      /\ studio \in [Sessions -> Result]
  BY <1>3 DEF CompareInit
<1>5. StudioType
  BY <1>2, <1>3, <1>4 DEF StudioType, Idle
<1>6. InHand /\ Carried /\ LinesAreOwn
  BY <1>2, <1>3, <1>4 DEF InHand, Carried, LinesAreOwn, Idle, OwnEntries, Covers, OnePerKey
<1> QED BY <1>1, <1>5, <1>6 DEF CompareInv

\* A step that leaves the comparison alone.
LEMMA StoreMoves ==
    ASSUME CompareInv, StoreInv', UNCHANGED studioVars
    PROVE  CompareInv'
BY DEF CompareInv, studioVars, StudioType, InHand, Carried, LinesAreOwn

\* What holds of a blank session holds of any number.
LEMMA PublishStep ==
    ASSUME CompareInv, StoreInv', NEW s \in Sessions, Publish(s)
    PROVE  CompareInv'
<1>1. PICK c \in Contents : studio' = [studio EXCEPT ![s] = c]
  BY DEF Publish
<1>2. /\ cache' = cache /\ cmp' = cmp /\ shown' = shown
      /\ studio[s] = Blank /\ studio \in [Sessions -> Result]
      /\ \A l \in shown : l.session \in Sessions
  BY DEF Publish, CompareInv, StudioType
<1>3. c \in Result
  BY DEF Result
<1>4. StudioType'
  BY <1>1, <1>2, <1>3 DEF CompareInv, StudioType
<1>5. \A t \in Sessions : t # s => studio'[t] = studio[t]
  BY <1>1, <1>2
<1>6. studio[s].ap = NoAP /\ ~studio[s].fps
  BY <1>2 DEF Blank
<1>7. ASSUME NEW f \in Entries, OwnEntries(f, studio) PROVE OwnEntries(f, studio')
  <2>1. DOMAIN f \subseteq Sessions
    BY <1>7 DEF Entries
  <2>2. SUFFICES ASSUME NEW t \in DOMAIN f
                 PROVE  /\ f[t].ap # NoAP => f[t].ap = studio'[t].ap
                        /\ f[t].fps => studio'[t].fps
    BY DEF OwnEntries
  <2>3. /\ f[t].ap # NoAP => f[t].ap = studio[t].ap
        /\ f[t].fps => studio[t].fps
    BY <1>7 DEF OwnEntries
  <2>4. CASE t = s
    BY <1>6, <2>3, <2>4
  <2>5. CASE t # s
    <3>1. studio'[t] = studio[t]
      BY <1>5, <2>1, <2>5
    <3> QED BY <2>3, <3>1
  <2> QED BY <2>4, <2>5
<1>8. cache.held \in Entries /\ cmp.found \in Entries
  BY DEF CompareInv, StudioType
<1>9. InHand' /\ Carried'
  BY <1>2, <1>7, <1>8 DEF CompareInv, InHand, Carried
<1>10. LinesAreOwn'
  <2>1. ASSUME NEW l \in shown
        PROVE  /\ l.ap # NoAP => l.ap = studio'[l.session].ap
               /\ l.speedup => studio'[l.session].fps
    <3>1. /\ l.ap # NoAP => l.ap = studio[l.session].ap
          /\ l.speedup => studio[l.session].fps
          /\ l.session \in Sessions
      BY <1>2 DEF CompareInv, LinesAreOwn
    <3>2. CASE l.session = s
      BY <1>6, <3>1, <3>2
    <3>3. CASE l.session # s
      <4>1. studio'[l.session] = studio[l.session]
        BY <1>5, <3>1, <3>3
      <4> QED BY <3>1, <4>1
    <3> QED BY <3>2, <3>3
  <2>2. /\ \A l \in shown : l.ap # NoAP \/ l.speedup =>
              Model[l.row.label] = l.model /\ l.row.precision = l.precision
        /\ \A l, m \in shown : Key(l) = Key(m) => l = m
    BY DEF CompareInv, LinesAreOwn
  <2> HIDE DEF Key
  <2> QED BY <1>2, <2>1, <2>2 DEF LinesAreOwn
<1> QED BY <1>4, <1>9, <1>10 DEF CompareInv

\* The parts that a step of the comparison which leaves the Studio and the
\* report alone can disturb.
LEMMA CmpMoves ==
    ASSUME CompareInv, StoreInv',
           UNCHANGED <<studio, shown>>,
           cache' \in [file : {"none", "torn", "whole"}, held : Entries],
           cmp' \in [at : {"idle", "fetch", "report"}, refresh : BOOLEAN,
                     rows : Seq(Row), matched : Seq(CatalogRecord),
                     found : Entries, todo : Seq(CatalogRecord)],
           InHand', Carried'
    PROVE  CompareInv'
<1>1. StudioType'
  BY DEF CompareInv, StudioType
<1>2. LinesAreOwn'
  BY DEF CompareInv, LinesAreOwn
<1> QED BY <1>1, <1>2 DEF CompareInv

\* The catalog's numbers are the Studio's.
LEMMA StartOfflineStep ==
    ASSUME CompareInv, StoreInv', StartOffline
    PROVE  CompareInv'
<1>1. PICK catalog \in Catalogs :
         cmp' = [at |-> "report", refresh |-> FALSE, rows |-> file,
                 matched |-> Matched(catalog, file),
                 found |-> [s \in {r.session : r \in ToSet(Matched(catalog, file))} |->
                              FromCatalog(s)],
                 todo |-> <<>>]
  BY DEF StartOffline
<1> DEFINE matched == Matched(catalog, file)
           D == {r.session : r \in ToSet(matched)}
           found == [s \in D |-> FromCatalog(s)]
<1>2. /\ studio' = studio /\ cache' = cache /\ shown' = shown
      /\ studio \in [Sessions -> Result]
      /\ cache \in [file : {"none", "torn", "whole"}, held : Entries]
      /\ OwnEntries(cache.held, studio) /\ file \in Seq(Row)
  BY DEF StartOffline, CompareInv, StudioType, InHand, StoreInv, StoreType
<1>3. catalog \in Seq(CatalogRecord)
  BY DEF CatalogRecord
<1>4. matched \in Seq(CatalogRecord) /\ OnePerKey(matched)
  BY <1>3, MatchedOnce
<1> HIDE DEF matched
<1>5. D \subseteq Sessions
  <2>1. \A r \in ToSet(matched) : r \in CatalogRecord
    BY <1>4, LenProperties DEF ToSet
  <2> QED BY <2>1 DEF CatalogRecord
<1>6. found \in Entries /\ OwnEntries(found, studio)
  <2>1. \A s \in D : /\ FromCatalog(s) \in Entry
                     /\ FromCatalog(s).ap = studio[s].ap
                     /\ FromCatalog(s).fps = studio[s].fps
    BY <1>2, <1>5 DEF FromCatalog, Entry, Result
  <2> HIDE DEF D
  <2>2. found \in [D -> Entry] /\ DOMAIN found = D /\ \A s \in D : found[s] = FromCatalog(s)
    BY <2>1
  <2>3. found \in Entries
    BY <1>5, <2>2 DEF Entries
  <2> HIDE DEF found
  <2> QED BY <2>1, <2>2, <2>3 DEF OwnEntries
<1>7. Covers(matched, found, <<>>)
  BY DEF Covers
<1>8. <<>> \in Seq(CatalogRecord)
  BY EmptySeq
<1> HIDE DEF found
<1>9. cmp' = [at |-> "report", refresh |-> FALSE, rows |-> file,
              matched |-> matched, found |-> found, todo |-> <<>>]
  BY <1>1 DEF matched, found
<1>10. InHand' /\ Carried'
  BY <1>2, <1>4, <1>6, <1>7, <1>9 DEF InHand, Carried
<1>11. cmp' \in [at : {"idle", "fetch", "report"}, refresh : BOOLEAN,
                 rows : Seq(Row), matched : Seq(CatalogRecord),
                 found : Entries, todo : Seq(CatalogRecord)]
  BY <1>2, <1>4, <1>6, <1>8, <1>9
<1> QED BY <1>2, <1>10, <1>11, CmpMoves

\* What the cache holds is found already, unless it is refreshed.
LEMMA StartStep ==
    ASSUME CompareInv, StoreInv', Start
    PROVE  CompareInv'
<1>1. PICK catalog \in Catalogs, refresh \in BOOLEAN :
         LET matched == Matched(catalog, file)
             held == IF refresh THEN Nothing ELSE cache.held
         IN  /\ refresh \/ cache.file # "torn"
             /\ cmp' = [at |-> "fetch", refresh |-> refresh, rows |-> file,
                        matched |-> matched, found |-> held,
                        todo |-> ToFetch(matched, held)]
  BY DEF Start
<1> DEFINE matched == Matched(catalog, file)
           held == IF refresh THEN Nothing ELSE cache.held
           todo == ToFetch(matched, held)
<1>2. /\ studio' = studio /\ cache' = cache /\ shown' = shown
      /\ cache \in [file : {"none", "torn", "whole"}, held : Entries]
      /\ OwnEntries(cache.held, studio) /\ file \in Seq(Row)
  BY DEF Start, CompareInv, StudioType, InHand, StoreInv, StoreType
<1>3. catalog \in Seq(CatalogRecord)
  BY DEF CatalogRecord
<1>4. matched \in Seq(CatalogRecord) /\ OnePerKey(matched)
  BY <1>3, MatchedOnce
<1>5. held \in Entries /\ OwnEntries(held, studio)
  <2>1. Nothing \in [{} -> Entry] /\ DOMAIN Nothing = {}
    BY DEF Nothing
  <2>2. Nothing \in Entries /\ OwnEntries(Nothing, studio)
    BY <2>1 DEF Entries, OwnEntries
  <2> QED BY <1>2, <2>2
<1>6. cmp' = [at |-> "fetch", refresh |-> refresh, rows |-> file,
              matched |-> matched, found |-> held, todo |-> todo]
      /\ (refresh \/ cache.file # "torn")
  BY <1>1
<1>7. refresh \/ held = cache.held
  OBVIOUS
<1> HIDE DEF matched, held
<1>8. /\ todo \in Seq(CatalogRecord)
      /\ Covers(matched, held, todo) /\ Carries(held, held, todo)
  BY <1>4, FetchedOnly
<1> HIDE DEF todo
<1>9. InHand' /\ Carried'
  BY <1>2, <1>4, <1>5, <1>6, <1>7, <1>8 DEF InHand, Carried
<1>10. cmp' \in [at : {"idle", "fetch", "report"}, refresh : BOOLEAN,
                 rows : Seq(Row), matched : Seq(CatalogRecord),
                 found : Entries, todo : Seq(CatalogRecord)]
  BY <1>2, <1>4, <1>5, <1>6, <1>8
<1> QED BY <1>2, <1>9, <1>10, CmpMoves

\* The entry of the next session joins the others.
LEMMA FoundStep ==
    ASSUME CompareInv, StoreInv', NEW entry \in Entry, Found(entry),
           LET next == Head(cmp.todo).session
           IN  /\ entry.ap # NoAP => entry.ap = studio[next].ap
               /\ entry.fps => studio[next].fps
    PROVE  CompareInv'
<1> DEFINE next == Head(cmp.todo).session
           found == [s \in DOMAIN cmp.found \cup {next} |->
                       IF s = next THEN entry ELSE cmp.found[s]]
<1>1. /\ studio' = studio /\ cache' = cache /\ shown' = shown
      /\ cmp' = [cmp EXCEPT !.found = found, !.todo = Tail(@)]
      /\ cmp.at = "fetch" /\ cmp.todo # <<>>
  BY DEF Found
<1>2. /\ cmp \in [at : {"idle", "fetch", "report"}, refresh : BOOLEAN,
                  rows : Seq(Row), matched : Seq(CatalogRecord),
                  found : Entries, todo : Seq(CatalogRecord)]
      /\ cache \in [file : {"none", "torn", "whole"}, held : Entries]
      /\ InHand /\ Carried
  BY DEF CompareInv, StudioType
<1>3. /\ cmp.todo \in Seq(CatalogRecord) /\ Tail(cmp.todo) \in Seq(CatalogRecord)
      /\ Head(cmp.todo) \in CatalogRecord
      /\ ToSet(cmp.todo) = {Head(cmp.todo)} \cup ToSet(Tail(cmp.todo))
  <2> DEFINE t == cmp.todo
  <2>1. t \in Seq(CatalogRecord) /\ t # <<>>
    BY <1>1, <1>2
  <2> HIDE DEF t
  <2>2. /\ Head(t) \in CatalogRecord /\ Tail(t) \in Seq(CatalogRecord) /\ Head(t) = t[1]
        /\ Len(Tail(t)) = Len(t) - 1
        /\ \A i \in 1 .. Len(Tail(t)) : Tail(t)[i] = t[i + 1]
    BY <2>1, HeadTailProperties
  <2>3. /\ Len(t) \in Nat \ {0} /\ DOMAIN t = 1 .. Len(t)
        /\ DOMAIN Tail(t) = 1 .. Len(t) - 1
    BY <2>1, <2>2, EmptySeq, LenProperties
  <2>4. ASSUME NEW x \in ToSet(t) PROVE x \in {Head(t)} \cup ToSet(Tail(t))
    <3>1. PICK i \in 1 .. Len(t) : x = t[i]
      BY <2>3 DEF ToSet
    <3>2. CASE i = 1
      BY <2>2, <3>1, <3>2
    <3>3. CASE i # 1
      <4>1. i - 1 \in 1 .. Len(t) - 1 /\ (i - 1) + 1 = i
        BY <2>3, <3>3
      <4>2. Tail(t)[i - 1] = x
        BY <2>2, <3>1, <4>1
      <4> QED BY <2>3, <4>1, <4>2 DEF ToSet
    <3> QED BY <3>2, <3>3
  <2>5. Head(t) \in ToSet(t)
    BY <2>2, <2>3 DEF ToSet
  <2>6. ToSet(Tail(t)) \subseteq ToSet(t)
    <3>1. ASSUME NEW i \in DOMAIN Tail(t) PROVE Tail(t)[i] \in ToSet(t)
      <4>1. i + 1 \in DOMAIN t /\ Tail(t)[i] = t[i + 1]
        BY <2>2, <2>3
      <4> QED BY <4>1 DEF ToSet
    <3> QED BY <3>1 DEF ToSet
  <2>7. ToSet(t) = {Head(t)} \cup ToSet(Tail(t))
    BY <2>4, <2>5, <2>6
  <2> QED BY <2>1, <2>2, <2>7 DEF t
<1>4. cmp.found \in Entries /\ OwnEntries(cmp.found, studio)
  BY <1>2 DEF InHand
<1>5. next \in Sessions
  BY <1>3 DEF CatalogRecord
<1> HIDE DEF next
<1>6. /\ DOMAIN found = DOMAIN cmp.found \cup {next} /\ found[next] = entry
      /\ \A s \in DOMAIN cmp.found : s # next => found[s] = cmp.found[s]
      /\ found \in Entries
  <2>1. PICK D \in SUBSET Sessions : cmp.found \in [D -> Entry]
    BY <1>4 DEF Entries
  <2>2. found \in [D \cup {next} -> Entry]
    BY <2>1
  <2>3. D \cup {next} \in SUBSET Sessions
    BY <1>5
  <2>4. found \in Entries
    <3> HIDE DEF found
    <3> QED BY <2>2, <2>3 DEF Entries
  <2> QED BY <2>4
<1>7. OwnEntries(found, studio)
  <2> HIDE DEF found
  <2> QED BY <1>4, <1>6 DEF OwnEntries, next
<1> HIDE DEF found
<1>8. /\ cmp'.at = "fetch" /\ cmp'.refresh = cmp.refresh /\ cmp'.rows = cmp.rows
      /\ cmp'.matched = cmp.matched /\ cmp'.found = found
      /\ cmp'.todo = Tail(cmp.todo)
  BY <1>1, <1>2
<1>9. Covers(cmp.matched, found, Tail(cmp.todo))
  <2>1. Covers(cmp.matched, cmp.found, cmp.todo)
    BY <1>2 DEF InHand
  <2> QED BY <1>3, <1>6, <2>1 DEF Covers, next
<1>10. InHand'
  BY <1>1, <1>2, <1>7, <1>8, <1>9 DEF InHand
<1>11. Carried'
  <2>1. SUFFICES ASSUME ~cmp.refresh
                 PROVE  /\ cache.file # "torn"
                        /\ Carries(cache.held, found, Tail(cmp.todo))
    BY <1>1, <1>8 DEF Carried
  <2>2. cache.file # "torn" /\ Carries(cache.held, cmp.found, cmp.todo)
    BY <1>1, <1>2, <2>1 DEF Carried
  <2>3. next \notin DOMAIN cache.held
    BY <1>3, <2>2 DEF Carries, next
  <2> QED BY <1>3, <1>6, <2>2, <2>3 DEF Carries
<1>12. cmp' \in [at : {"idle", "fetch", "report"}, refresh : BOOLEAN,
                 rows : Seq(Row), matched : Seq(CatalogRecord),
                 found : Entries, todo : Seq(CatalogRecord)]
  BY <1>1, <1>2, <1>3, <1>6
<1> QED BY <1>1, <1>2, <1>10, <1>11, <1>12, CmpMoves

\* A fetch: an average precision of zero is dropped, never another's taken.
LEMMA FetchStep ==
    ASSUME CompareInv, StoreInv', Fetch
    PROVE  CompareInv'
<1> DEFINE next == Head(cmp.todo).session
           m == FetchMetrics(next)
           entry == Canonical(m)
<1>1. Found(entry)
  BY DEF Fetch
<1>2. next \in Sessions
  <2>1. cmp.todo \in Seq(CatalogRecord) /\ cmp.todo # <<>>
    BY <1>1 DEF Found, CompareInv, StudioType
  <2>2. Head(cmp.todo) \in CatalogRecord
    BY <2>1, HeadTailProperties
  <2> QED BY <2>2 DEF CatalogRecord
<1>3. studio[next] \in Result
  BY <1>2 DEF CompareInv, StudioType
<1> HIDE DEF next
<1>4. /\ m.ap \in Nat \cup {NoAP} /\ (m.ap # NoAP => m.ap = studio[next].ap)
      /\ m.fps = studio[next].fps /\ m.timed = studio[next].timed
  BY <1>3 DEF FetchMetrics, Result
<1> HIDE DEF m
<1>5. /\ entry.ap = m.ap /\ entry.fps = (m.timed /\ m.fps)
      /\ entry \in Entry
  BY <1>3, <1>4 DEF Canonical, Entry, Result
<1> HIDE DEF entry
<1>6. /\ entry.ap # NoAP => entry.ap = studio[next].ap
      /\ entry.fps => studio[next].fps
  BY <1>4, <1>5
<1> QED BY <1>1, <1>5, <1>6, FoundStep DEF next

\* An error entry holds no number.
LEMMA FetchFailsStep ==
    ASSUME CompareInv, StoreInv', FetchFails
    PROVE  CompareInv'
<1>1. Found(ErrorEntry)
  BY DEF FetchFails
<1>2. ErrorEntry \in Entry /\ ErrorEntry.ap = NoAP /\ ErrorEntry.fps = FALSE
  BY DEF ErrorEntry, Entry
<1> QED BY <1>1, <1>2, FoundStep

\* The cache is written whole, from numbers that are the Studio's.
LEMMA SaveCacheStep ==
    ASSUME CompareInv, StoreInv', SaveCache
    PROVE  CompareInv'
<1>1. /\ studio' = studio /\ shown' = shown /\ cmp.todo = <<>>
      /\ cache' = [file |-> "whole", held |-> cmp.found]
      /\ cmp' = [cmp EXCEPT !.at = "report"]
  BY DEF SaveCache
<1>2. /\ cmp \in [at : {"idle", "fetch", "report"}, refresh : BOOLEAN,
                  rows : Seq(Row), matched : Seq(CatalogRecord),
                  found : Entries, todo : Seq(CatalogRecord)]
      /\ InHand
  BY DEF CompareInv, StudioType
<1>3. /\ cmp'.at = "report" /\ cmp'.matched = cmp.matched
      /\ cmp'.found = cmp.found /\ cmp'.todo = cmp.todo
      /\ cache'.held = cmp.found
      /\ cmp' \in [at : {"idle", "fetch", "report"}, refresh : BOOLEAN,
                   rows : Seq(Row), matched : Seq(CatalogRecord),
                   found : Entries, todo : Seq(CatalogRecord)]
      /\ cache' \in [file : {"none", "torn", "whole"}, held : Entries]
  BY <1>1, <1>2
<1>4. InHand' /\ Carried'
  BY <1>1, <1>2, <1>3 DEF InHand, Carried
<1> QED BY <1>1, <1>3, <1>4, CmpMoves

\* Nothing is in the hands of an idle comparison.
LEMMA IdleType ==
    /\ Idle \in [at : {"idle", "fetch", "report"}, refresh : BOOLEAN,
                 rows : Seq(Row), matched : Seq(CatalogRecord),
                 found : Entries, todo : Seq(CatalogRecord)]
    /\ Idle.at = "idle" /\ OwnEntries(Idle.found, studio)
    /\ Covers(Idle.matched, Idle.found, Idle.todo) /\ OnePerKey(Idle.matched)
    /\ Nothing \in Entries /\ OwnEntries(Nothing, studio)
<1>1. Nothing \in [{} -> Entry] /\ DOMAIN Nothing = {}
  BY DEF Nothing
<1>2. Nothing \in Entries /\ OwnEntries(Nothing, studio)
  BY <1>1 DEF Entries, OwnEntries
<1>3. <<>> \in Seq(Row) /\ <<>> \in Seq(CatalogRecord) /\ ToSet(<<>>) = {}
  BY EmptySeq DEF ToSet
<1>4. Covers(<<>>, Nothing, <<>>) /\ OnePerKey(<<>>)
  BY <1>3 DEF Covers, OnePerKey
<1> QED BY <1>2, <1>3, <1>4 DEF Idle

\* A comparison killed leaves the old cache or a torn one.
LEMMA KilledStep ==
    ASSUME CompareInv, StoreInv', Killed
    PROVE  CompareInv'
<1>1. /\ studio' = studio /\ shown' = shown /\ cmp' = Idle
      /\ cache' = cache \/ cache' = [file |-> "torn", held |-> Nothing]
  BY DEF Killed
<1>2. /\ cache \in [file : {"none", "torn", "whole"}, held : Entries]
      /\ OwnEntries(cache.held, studio)
  BY DEF CompareInv, StudioType, InHand
<1>3. /\ cache' \in [file : {"none", "torn", "whole"}, held : Entries]
      /\ OwnEntries(cache'.held, studio)
  BY <1>1, <1>2, IdleType
<1>4. InHand' /\ Carried'
  BY <1>1, <1>3, IdleType DEF InHand, Carried
<1> QED BY <1>1, <1>3, <1>4, IdleType, CmpMoves

\* The lines of a report.
LEMMA ReportStep ==
    ASSUME CompareInv, StoreInv', Report
    PROVE  CompareInv'
<1> DEFINE RefOf(r) == Reference(cmp.rows, r.model, r.precision)
           Line(r) ==
               [session |-> r.session, model |-> r.model,
                precision |-> r.precision, row |-> RefOf(r),
                ap |-> ReportedAP(cmp.found[r.session], RefOf(r)),
                speedup |-> Speedup(cmp.found[r.session], RefOf(r))]
<1>1. /\ studio' = studio /\ cache' = cache /\ cmp' = Idle /\ cmp.at = "report"
      /\ shown' = {Line(r) : r \in ToSet(cmp.matched)}
  BY DEF Report
<1>2. /\ cmp.rows \in Seq(Row) /\ cmp.matched \in Seq(CatalogRecord)
      /\ cache \in [file : {"none", "torn", "whole"}, held : Entries]
      /\ studio \in [Sessions -> Result]
  BY DEF CompareInv, StudioType
<1>3. /\ OwnEntries(cache.held, studio) /\ OwnEntries(cmp.found, studio)
      /\ Covers(cmp.matched, cmp.found, <<>>) /\ OnePerKey(cmp.matched)
  BY <1>1 DEF CompareInv, InHand
<1>4. ASSUME NEW r \in ToSet(cmp.matched)
      PROVE  /\ r.session \in DOMAIN cmp.found /\ r.session \in Sessions
             /\ Key(Line(r)) = Key(r) /\ Line(r).session = r.session
             /\ Line(r).ap # NoAP => Line(r).ap = studio[r.session].ap
             /\ Line(r).speedup => studio[r.session].fps
             /\ Line(r).ap # NoAP \/ Line(r).speedup =>
                   /\ Model[Line(r).row.label] = r.model
                   /\ Line(r).row.precision = r.precision
  <2> DEFINE e == cmp.found[r.session]
             row == RefOf(r)
             line == Line(r)
  <2>1. r.session \in DOMAIN cmp.found
    <3>1. ToSet(<<>>) = {}
      BY DEF ToSet
    <3> QED BY <1>3, <3>1 DEF Covers
  <2>2. r.session \in Sessions
    <3>1. r \in CatalogRecord
      BY <1>2, LenProperties DEF ToSet
    <3> QED BY <3>1 DEF CatalogRecord
  <2>3. /\ e.ap # NoAP => e.ap = studio[r.session].ap
        /\ e.fps => studio[r.session].fps
    BY <1>3, <2>1 DEF OwnEntries
  <2>4. row # NoRow => Model[row.label] = r.model /\ row.precision = r.precision
    <3> HIDE DEF Reference
    <3> QED BY <1>2, ReferenceOwn
  <2> HIDE DEF row, e
  <2>5. /\ line.session = r.session /\ line.model = r.model
        /\ line.precision = r.precision /\ line.row = row
        /\ line.ap = ReportedAP(e, row) /\ line.speedup = Speedup(e, row)
    BY DEF row, e
  <2>6. Key(line) = Key(r)
    BY <2>5 DEF Key
  <2> HIDE DEF line
  <2>7. /\ line.ap # NoAP => row # NoRow /\ line.ap = e.ap
        /\ line.speedup => row # NoRow /\ e.fps
    BY <2>5 DEF ReportedAP, Speedup
  <2> QED BY <2>1, <2>2, <2>3, <2>4, <2>5, <2>6, <2>7 DEF line
<1>5. ASSUME NEW l \in shown'
      PROVE  \E r \in ToSet(cmp.matched) : l = Line(r)
  BY <1>1
<1> HIDE DEF Line
<1>6. \A l \in shown' : l.session \in Sessions
  BY <1>4, <1>5
<1>7. LinesAreOwn'
  <2>1. ASSUME NEW l \in shown'
        PROVE  /\ l.ap # NoAP => l.ap = studio[l.session].ap
               /\ l.speedup => studio[l.session].fps
               /\ l.ap # NoAP \/ l.speedup =>
                     Model[l.row.label] = l.model /\ l.row.precision = l.precision
    <3>1. PICK r \in ToSet(cmp.matched) : l = Line(r)
      BY <1>5
    <3>2. l.model = r.model /\ l.precision = r.precision
      BY <3>1 DEF Line
    <3> QED BY <1>4, <3>1, <3>2
  <2>2. ASSUME NEW l \in shown', NEW m \in shown', Key(l) = Key(m)
        PROVE  l = m
    <3>1. PICK r \in ToSet(cmp.matched) : l = Line(r)
      BY <1>5
    <3>2. PICK t \in ToSet(cmp.matched) : m = Line(t)
      BY <1>5
    <3>3. Key(r) = Key(t)
      <4> HIDE DEF Key
      <4> QED BY <1>4, <2>2, <3>1, <3>2
    <3>4. r = t
      BY <1>3, <3>3 DEF OnePerKey
    <3> QED BY <3>1, <3>2, <3>4
  <2> HIDE DEF Key
  <2> QED BY <1>1, <2>1, <2>2 DEF LinesAreOwn
<1>8. StudioType'
  BY <1>1, <1>2, <1>6, IdleType DEF StudioType
<1>9. InHand' /\ Carried'
  BY <1>1, <1>3, IdleType DEF InHand, Carried
<1> QED BY <1>7, <1>8, <1>9 DEF CompareInv

\* The comparison never writes the metrics file.
LEMMA ComparisonReads == [CompareNext]_allVars => [Next]_vars
BY DEF CompareNext, Comparison, Publish, Fetch, FetchFails, Found, StartOffline, Start,
   StartOnTornCache, SaveCache, Killed, Report, allVars

\* Every step of the store or of a comparison keeps the invariant of both.
LEMMA CompareStep == CompareInv /\ [CompareNext]_allVars => CompareInv'
<1> SUFFICES ASSUME CompareInv, [CompareNext]_allVars PROVE CompareInv'
  OBVIOUS
<1>1. StoreInv'
  BY ComparisonReads, StoreStep DEF CompareInv
<1>2. CASE \E s \in Sessions : Publish(s)
  BY <1>1, <1>2, PublishStep
<1>3. CASE Fetch
  BY <1>1, <1>3, FetchStep
<1>4. CASE FetchFails
  BY <1>1, <1>4, FetchFailsStep
<1>5. CASE StartOffline
  BY <1>1, <1>5, StartOfflineStep
<1>6. CASE Start
  BY <1>1, <1>6, StartStep
<1>7. CASE StartOnTornCache
  <2>1. UNCHANGED <<studio, cache, cmp, shown>>
    BY <1>7 DEF StartOnTornCache
  <2> QED BY <1>1, <2>1 DEF CompareInv, StudioType, InHand, Carried, LinesAreOwn
<1>8. CASE SaveCache
  BY <1>1, <1>8, SaveCacheStep
<1>9. CASE Killed
  BY <1>1, <1>9, KilledStep
<1>10. CASE Report
  BY <1>1, <1>10, ReportStep
<1>11. CASE UNCHANGED studioVars
  BY <1>1, <1>11, StoreMoves
<1> QED BY <1>2, <1>3, <1>4, <1>5, <1>6, <1>7, <1>8, <1>9, <1>10, <1>11
    DEF CompareNext, Comparison, allVars

\* CompareInv holds in every reachable state, whatever is benchmarked and merged
\* while comparisons run.
THEOREM CompareInvariance == CompareSpec => []CompareInv
BY InitCompare, CompareStep, PTL DEF CompareSpec

\* A number of the report is the Studio's own for the session of its line, next
\* to a row of the line's model and precision, and no lane has two lines,
\* whatever came from the cache, the Studio or the catalog, whichever fetches
\* failed and wherever earlier comparisons were killed.
THEOREM LinesAreOwnSafety == CompareSpec => []LinesAreOwn
<1>1. CompareInv => LinesAreOwn
  BY DEF CompareInv
<1> QED BY <1>1, CompareInvariance, PTL

\* A comparison without --refresh keeps the entries of the cache and never
\* replaces a torn one.
THEOREM CacheEntriesStandSafety == CompareSpec => CacheEntriesStand
<1> DEFINE Stands ==
        ~cmp.refresh /\ cache'.file = "whole" /\ cache' # cache =>
          /\ cache.file # "torn"
          /\ \A s \in DOMAIN cache.held :
                s \in DOMAIN cache'.held /\ cache'.held[s] = cache.held[s]
<1>1. CompareInv /\ [CompareNext]_allVars => [Stands]_allVars
  <2>1. SUFFICES ASSUME CompareInv, CompareNext, ~cmp.refresh,
                        cache'.file = "whole", cache' # cache
                 PROVE  /\ cache.file # "torn"
                        /\ \A s \in DOMAIN cache.held :
                              s \in DOMAIN cache'.held /\ cache'.held[s] = cache.held[s]
    OBVIOUS
  <2>2. SaveCache
    <3>1. CASE Killed
      BY <2>1, <3>1 DEF Killed
    <3>2. CASE ~Killed
      BY <2>1, <3>2 DEF CompareNext, Comparison, Publish, Fetch, FetchFails, Found,
         StartOffline, Start, StartOnTornCache, Report, studioVars
    <3> QED BY <3>1, <3>2
  <2>3. cache'.held = cmp.found /\ cmp.at = "fetch"
    BY <2>2 DEF SaveCache
  <2>4. cache.file # "torn" /\ Carries(cache.held, cmp.found, cmp.todo)
    BY <2>1, <2>3 DEF CompareInv, Carried
  <2> QED BY <2>3, <2>4 DEF Carries
<1> QED BY <1>1, CompareInvariance, PTL DEF CompareSpec, CacheEntriesStand

=============================================================================
