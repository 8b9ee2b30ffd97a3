---------------------------- MODULE CommandIPCProofs ----------------------------
(***************************************************************************)
(* Commands on their way from a client to a session: the proofs, for every *)
(* set of requests and lists of commands, every number of runs and every   *)
(* capacity of the input buffer, that a reply says what happened, that     *)
(* requests are written in their order, none twice, and that a command is  *)
(* given the keystrokes that were asked for.                               *)
(***************************************************************************)
EXTENDS CommandIPC, SequenceTheorems, WellFoundedInduction, TLAPS

-----------------------------------------------------------------------------
(* Sequences: FlattenSeq by induction, suffixes, thinning, the newest elements.      *)

\* What holds for 0, and for n + 1 when it holds for n, holds for every number: the set of
\* those for which it does not would have a least element.
LEMMA Induction ==
    ASSUME NEW T, 0 \in T, \A n \in Nat : n \in T => n + 1 \in T
    PROVE  Nat \subseteq T
<1> DEFINE Less == {ss \in Nat \X Nat : ss[1] < ss[2]}
           Rest == Nat \ T
<1>1. SUFFICES ASSUME Rest # {} PROVE FALSE
  OBVIOUS
<1>2. \A m, n \in Nat : <<m, n>> \in Less <=> m < n
  OBVIOUS
<1>3. IsWellFoundedOn(Less, Nat)
  BY NatLessThanWellFounded DEF OpToRel
<1> HIDE DEF Less
<1>4. PICK n \in Rest : \A m \in Rest : <<m, n>> \notin Less
  BY <1>1, <1>3, WFMin
<1>5. n # 0 /\ n - 1 \in Nat /\ <<n - 1, n>> \in Less
  BY <1>2
<1>6. n - 1 \in T
  BY <1>4, <1>5
<1> QED
  BY <1>5, <1>6

\* g[i] is the concatenation of the first i sequences of s, for i up to n, as FlattenSeq
\* defines it ...
Flat(s, n, g) == g = [i \in 1..n |-> IF i = 1 THEN s[i] ELSE g[i - 1] \o s[i]]

LEMMA FlattenSeqDef ==
    ASSUME NEW s
    PROVE  FlattenSeq(s) = IF Len(s) = 0 THEN s ELSE (CHOOSE g : Flat(s, Len(s), g))[Len(s)]
BY DEF FlattenSeq, Flat

\* ... and the recursion that it satisfies.
Steps(s, n, g) == \A i \in 1..n : g[i] = IF i = 1 THEN s[i] ELSE g[i - 1] \o s[i]

LEMMA FlatSteps ==
    ASSUME NEW s, NEW n, NEW g, Flat(s, n, g)
    PROVE  Steps(s, n, g)
<1> DEFINE F == [i \in 1..n |-> IF i = 1 THEN s[i] ELSE g[i - 1] \o s[i]]
<1>1. g = F
  BY DEF Flat
<1>2. \A i \in 1..n : F[i] = IF i = 1 THEN s[i] ELSE g[i - 1] \o s[i]
  OBVIOUS
<1> HIDE DEF F
<1>3. ASSUME NEW i \in 1..n
      PROVE  g[i] = IF i = 1 THEN s[i] ELSE g[i - 1] \o s[i]
  <2>1. g[i] = F[i]
    BY <1>1
  <2> QED
    BY <1>2, <2>1
<1> QED
  BY <1>3 DEF Steps

\* The recursion has one solution at most, ...
LEMMA FlatUnique ==
    ASSUME NEW s, NEW m \in Nat, NEW n \in Nat, m <= n,
           NEW g, NEW h, Flat(s, m, g), Flat(s, n, h)
    PROVE  \A i \in 1..m : g[i] = h[i]
<1> DEFINE T == {k \in Nat : k \in 1..m => g[k] = h[k]}
<1>1. \A i \in 1..m : /\ g[i] = IF i = 1 THEN s[i] ELSE g[i - 1] \o s[i]
                      /\ h[i] = IF i = 1 THEN s[i] ELSE h[i - 1] \o s[i]
  <2>1. \A i \in 1..m : i \in 1..n
    OBVIOUS
  <2> QED
    BY <2>1, FlatSteps DEF Steps
<1>2. 0 \in T
  OBVIOUS
<1>3. ASSUME NEW k \in Nat, k \in T PROVE k + 1 \in T
  <2>1. ASSUME k + 1 \in 1..m PROVE g[k + 1] = h[k + 1]
    <3>1. CASE k = 0
      BY <1>1, <2>1, <3>1
    <3>2. CASE k # 0
      <4>1. k \in 1..m /\ g[k] = h[k] /\ k + 1 # 1 /\ (k + 1) - 1 = k
        BY <1>3, <2>1, <3>2
      <4>2. g[k + 1] = g[k] \o s[k + 1] /\ h[k + 1] = h[k] \o s[k + 1]
        BY <1>1, <2>1, <4>1
      <4> QED
        BY <4>1, <4>2
    <3> QED
      BY <3>1, <3>2
  <2> QED
    BY <2>1
<1> HIDE DEF T
<1>4. Nat \subseteq T
  BY <1>2, <1>3, Induction
<1> QED
  BY <1>4 DEF T

\* ... and has one.
LEMMA FlatExists ==
    ASSUME NEW S, NEW s \in Seq(Seq(S))
    PROVE  \A n \in 0..Len(s) :
               \E g : Flat(s, n, g) /\ \A i \in 1..n : g[i] \in Seq(S)
<1> DEFINE T == {n \in Nat : n <= Len(s) =>
                   \E g : Flat(s, n, g) /\ \A i \in 1..n : g[i] \in Seq(S)}
<1>1. 0 \in T
  <2> DEFINE g == [i \in 1..0 |-> <<>>]
  <2>1. g = [i \in 1..0 |-> IF i = 1 THEN s[i] ELSE g[i - 1] \o s[i]]
    OBVIOUS
  <2>2. Flat(s, 0, g) /\ \A i \in 1..0 : g[i] \in Seq(S)
    BY <2>1 DEF Flat
  <2> HIDE DEF g
  <2> QED
    BY <2>2
<1>2. ASSUME NEW n \in Nat, n \in T PROVE n + 1 \in T
  <2> SUFFICES ASSUME n + 1 <= Len(s)
               PROVE  \E h : Flat(s, n + 1, h) /\ \A i \in 1..(n + 1) : h[i] \in Seq(S)
    OBVIOUS
  <2>1. PICK g : Flat(s, n, g) /\ \A i \in 1..n : g[i] \in Seq(S)
    BY <1>2
  <2>0. Flat(s, n, g)
    BY <2>1
  <2>2. \A i \in 1..n : g[i] = IF i = 1 THEN s[i] ELSE g[i - 1] \o s[i]
    <3>1. Steps(s, n, g)
      BY <2>0, FlatSteps, Zenon
    <3> QED
      BY <3>1 DEF Steps
  <2> DEFINE h == [i \in 1..(n + 1) |-> IF i <= n THEN g[i]
                                        ELSE IF i = 1 THEN s[i] ELSE g[n] \o s[i]]
  <2>3. \A i \in 1..(n + 1) : h[i] = IF i = 1 THEN s[i] ELSE h[i - 1] \o s[i]
    <3> SUFFICES ASSUME NEW i \in 1..(n + 1)
                 PROVE  h[i] = IF i = 1 THEN s[i] ELSE h[i - 1] \o s[i]
      OBVIOUS
    <3>1. CASE i <= n
      <4>1. i \in 1..n /\ h[i] = g[i] /\ (i # 1 => h[i - 1] = g[i - 1])
        BY <3>1
      <4> QED
        BY <2>2, <4>1
    <3>2. CASE i = n + 1 /\ i # 1
      <4>1. ~(i <= n) /\ i - 1 \in 1..(n + 1) /\ i - 1 <= n /\ i - 1 = n
        BY <3>2
      <4>2. h[i] = g[n] \o s[i] /\ h[i - 1] = g[n]
        BY <3>2, <4>1
      <4> QED
        BY <3>2, <4>2
    <3>3. CASE i = n + 1 /\ i = 1
      BY <3>3
    <3> QED
      BY <3>1, <3>2, <3>3
  <2>4. h = [i \in 1..(n + 1) |-> IF i = 1 THEN s[i] ELSE h[i - 1] \o s[i]]
    BY <2>3
  <2>5. \A i \in 1..(n + 1) : h[i] \in Seq(S)
    <3> SUFFICES ASSUME NEW i \in 1..(n + 1) PROVE h[i] \in Seq(S)
      OBVIOUS
    <3>1. s[i] \in Seq(S)
      BY ElementOfSeq
    <3>2. CASE i <= n
      BY <2>1, <3>2
    <3>3. CASE i = n + 1 /\ i # 1
      <4>1. n \in 1..n /\ ~(i <= n)
        BY <3>3
      <4>2. g[n] \in Seq(S) /\ h[i] = g[n] \o s[i]
        BY <2>1, <3>3, <4>1
      <4> QED
        BY <3>1, <4>2, ConcatProperties
    <3>4. CASE i = n + 1 /\ i = 1
      BY <3>1, <3>4
    <3> QED
      BY <3>2, <3>3, <3>4
  <2> QED
    BY <2>4, <2>5 DEF Flat
<1> HIDE DEF T
<1>3. Nat \subseteq T
  BY <1>1, <1>2, Induction
<1> QED
  BY <1>3 DEF T

LEMMA FlattenSeqIs ==
    ASSUME NEW S, NEW s \in Seq(Seq(S)), NEW g, Flat(s, Len(s), g), s # <<>>
    PROVE  FlattenSeq(s) = g[Len(s)]
<1>1. Len(s) \in Nat /\ Len(s) # 0
  OBVIOUS
<1>2. Flat(s, Len(s), CHOOSE h : Flat(s, Len(s), h))
  OBVIOUS
<1>3. (CHOOSE h : Flat(s, Len(s), h))[Len(s)] = g[Len(s)]
  <2> DEFINE h == CHOOSE x : Flat(s, Len(s), x)
  <2>1. Flat(s, Len(s), h)
    BY <1>2
  <2> HIDE DEF h
  <2>2. \A i \in 1..Len(s) : h[i] = g[i]
    BY <1>1, <2>1, FlatUnique
  <2> QED
    BY <1>1, <2>2 DEF h
<1> QED
  BY <1>1, <1>3, FlattenSeqDef

\* FlattenSeq from left to right.
LEMMA FlattenSeqAppend ==
    ASSUME NEW S, NEW s \in Seq(Seq(S)), NEW x \in Seq(S)
    PROVE  /\ FlattenSeq(s) \in Seq(S)
           /\ FlattenSeq(Append(s, x)) = FlattenSeq(s) \o x
<1> DEFINE t == Append(s, x)
           n == Len(s)
<1>1. /\ t \in Seq(Seq(S)) /\ Len(t) = n + 1 /\ t[n + 1] = x
      /\ \A i \in 1..n : t[i] = s[i]
      /\ n \in Nat
  BY AppendProperties
<1> HIDE DEF t
<1>2. PICK g : Flat(t, n + 1, g) /\ \A i \in 1..(n + 1) : g[i] \in Seq(S)
  BY <1>1, FlatExists
<1>3. \A i \in 1..(n + 1) : g[i] = IF i = 1 THEN t[i] ELSE g[i - 1] \o t[i]
  BY <1>2, FlatSteps DEF Steps
<1>4. t # <<>>
  BY <1>1
<1>5. FlattenSeq(t) = g[n + 1]
  BY <1>1, <1>2, <1>4, FlattenSeqIs
<1>6. CASE s = <<>>
  <2>1. FlattenSeq(s) = <<>>
    BY <1>6, FlattenSeqDef
  <2>2. n + 1 = 1 /\ g[1] = x
    BY <1>1, <1>3, <1>6
  <2> QED
    BY <1>5, <2>1, <2>2, ConcatEmptySeq DEF t
<1>7. CASE s # <<>>
  <2> DEFINE h == [i \in 1..n |-> g[i]]
  <2>1. n # 0
    BY <1>7
  <2>2. \A i \in 1..n : h[i] = IF i = 1 THEN s[i] ELSE h[i - 1] \o s[i]
    <3> SUFFICES ASSUME NEW i \in 1..n
                 PROVE  h[i] = IF i = 1 THEN s[i] ELSE h[i - 1] \o s[i]
      OBVIOUS
    <3>1. h[i] = g[i] /\ (i # 1 => h[i - 1] = g[i - 1]) /\ i \in 1..(n + 1) /\ t[i] = s[i]
      BY <1>1
    <3> QED
      BY <1>3, <3>1
  <2>3. Flat(s, n, h)
    BY <2>2 DEF Flat
  <2>4. FlattenSeq(s) = h[n]
    BY <1>7, <2>3, FlattenSeqIs
  <2>5. h[n] = g[n]
    BY <1>1, <2>1
  <2> HIDE DEF h
  <2>6. n + 1 \in 1..(n + 1) /\ n + 1 # 1 /\ (n + 1) - 1 = n /\ n \in 1..(n + 1)
    BY <1>1, <2>1
  <2>7. g[n + 1] = g[n] \o x
    BY <1>1, <1>3, <2>6
  <2>8. g[n] \in Seq(S)
    BY <1>2, <2>6
  <2> QED
    BY <1>5, <2>4, <2>5, <2>7, <2>8 DEF t
<1> QED
  BY <1>6, <1>7

\* Suffixes by index: SequencesExt compares the reversed sequences.
LEMMA SuffixIs ==
    ASSUME NEW S, NEW s \in Seq(S), NEW t \in Seq(S)
    PROVE  IsSuffix(s, t) <=>
             /\ Len(s) <= Len(t)
             /\ \A i \in 1..Len(s) : s[i] = t[Len(t) - Len(s) + i]
<1> DEFINE m == Len(s)
           n == Len(t)
           rs == Reverse(s)
           rt == Reverse(t)
<1>1. m \in Nat /\ n \in Nat
  OBVIOUS
<1>2. /\ rs \in Seq(S) /\ Len(rs) = m /\ \A i \in 1..m : rs[i] = s[m - i + 1]
      /\ rt \in Seq(S) /\ Len(rt) = n /\ \A i \in 1..n : rt[i] = t[n - i + 1]
  BY IsASeq, ElementOfSeq DEF Reverse
<1>3. IsSuffix(s, t) <=> m <= n /\ SubSeq(rs, 1, m) = SubSeq(rt, 1, m)
  BY <1>2 DEF IsSuffix, IsPrefix
<1> HIDE DEF rs, rt
<1>4. ASSUME m <= n
      PROVE  /\ SubSeq(rs, 1, m) \in Seq(S) /\ Len(SubSeq(rs, 1, m)) = m
             /\ SubSeq(rt, 1, m) \in Seq(S) /\ Len(SubSeq(rt, 1, m)) = m
             /\ \A i \in 1..m : SubSeq(rs, 1, m)[i] = s[m - i + 1]
             /\ \A i \in 1..m : SubSeq(rt, 1, m)[i] = t[n - i + 1]
  <2>1. \A i \in 1..m : rs[i] \in S /\ rt[i] \in S
    BY <1>1, <1>2, <1>4, ElementOfSeq
  <2>2. \A i \in 1..m : i \in 1..n /\ 1 + i - 1 = i
    BY <1>1, <1>4
  <2> QED
    BY <1>1, <1>2, <2>1, <2>2, SubSeqProperties
<1>5. ASSUME IsSuffix(s, t), NEW i \in 1..m
      PROVE  s[i] = t[n - m + i]
  <2>1. m <= n /\ SubSeq(rs, 1, m) = SubSeq(rt, 1, m)
    BY <1>3, <1>5
  <2>2. m - i + 1 \in 1..m /\ m - (m - i + 1) + 1 = i /\ n - (m - i + 1) + 1 = n - m + i
    BY <1>1
  <2> QED
    BY <1>4, <2>1, <2>2
<1>6. ASSUME m <= n, \A i \in 1..m : s[i] = t[n - m + i]
      PROVE  IsSuffix(s, t)
  <2>1. \A i \in 1..m : SubSeq(rs, 1, m)[i] = SubSeq(rt, 1, m)[i]
    <3> SUFFICES ASSUME NEW i \in 1..m PROVE s[m - i + 1] = t[n - i + 1]
      BY <1>4, <1>6
    <3>1. m - i + 1 \in 1..m /\ n - m + (m - i + 1) = n - i + 1
      BY <1>1
    <3> QED
      BY <1>6, <3>1
  <2>2. SubSeq(rs, 1, m) = SubSeq(rt, 1, m)
    BY <1>4, <1>6, <2>1, SeqEqual
  <2> QED
    BY <1>3, <1>6, <2>2
<1> QED
  BY <1>3, <1>5, <1>6

LEMMA EmptySuffix ==
    ASSUME NEW S, NEW t \in Seq(S)
    PROVE  IsSuffix(<<>>, t)
<1> DEFINE e == <<>>
<1>1. e \in Seq(S) /\ Len(e) = 0 /\ Len(t) \in Nat
  OBVIOUS
<1> HIDE DEF e
<1>2. IsSuffix(e, t) <=>
        /\ Len(e) <= Len(t)
        /\ \A i \in 1..Len(e) : e[i] = t[Len(t) - Len(e) + i]
  BY <1>1, SuffixIs
<1> QED
  BY <1>1, <1>2 DEF e

\* Thinning, and what an append does to it.
LEMMA ThinnedItself ==
    ASSUME NEW S, NEW s \in Seq(S)
    PROVE  IsThinned(s, s)
<1> DEFINE f == [i \in DOMAIN s |-> i]
<1>1. /\ f \in [DOMAIN s -> DOMAIN s]
      /\ \A i, j \in DOMAIN s : i < j => f[i] < f[j]
      /\ \A i \in DOMAIN s : s[i] = s[f[i]]
  OBVIOUS
<1> HIDE DEF f
<1> QED
  BY <1>1 DEF IsThinned

LEMMA ThinnedConcat ==
    ASSUME NEW S, NEW s \in Seq(S), NEW t \in Seq(S), NEW x \in Seq(S), IsThinned(s, t)
    PROVE  IsThinned(s \o x, t \o x)
<1> DEFINE sx == s \o x
           tx == t \o x
<1>1. PICK f \in [DOMAIN s -> DOMAIN t] :
          /\ \A i, j \in DOMAIN s : i < j => f[i] < f[j]
          /\ \A i \in DOMAIN s : s[i] = t[f[i]]
  BY DEF IsThinned
<1>2. /\ Len(s) \in Nat /\ Len(t) \in Nat /\ Len(x) \in Nat
      /\ DOMAIN s = 1..Len(s) /\ DOMAIN t = 1..Len(t)
      /\ DOMAIN sx = 1..(Len(s) + Len(x)) /\ DOMAIN tx = 1..(Len(t) + Len(x))
      /\ \A i \in DOMAIN sx : sx[i] = IF i <= Len(s) THEN s[i] ELSE x[i - Len(s)]
      /\ \A i \in DOMAIN tx : tx[i] = IF i <= Len(t) THEN t[i] ELSE x[i - Len(t)]
  BY ConcatProperties, LenProperties
<1> HIDE DEF sx, tx
<1> DEFINE g == [i \in DOMAIN sx |-> IF i <= Len(s) THEN f[i] ELSE i - Len(s) + Len(t)]
<1>3. \A i \in DOMAIN sx : \/ i \in DOMAIN s /\ i <= Len(s) /\ g[i] = f[i] /\ f[i] \in 1..Len(t)
                           \/ ~(i <= Len(s)) /\ g[i] = i - Len(s) + Len(t) /\ i \in Nat
                              /\ i - Len(s) \in 1..Len(x)
  BY <1>2
<1> HIDE DEF g
<1>4. \A i \in DOMAIN sx : g[i] \in DOMAIN tx
  BY <1>2, <1>3
<1>5. g \in [DOMAIN sx -> DOMAIN tx]
  BY <1>4 DEF g
<1>6. ASSUME NEW i \in DOMAIN sx, NEW j \in DOMAIN sx, i < j PROVE g[i] < g[j]
  <2>1. CASE j <= Len(s)
    <3>1. i \in DOMAIN s /\ j \in DOMAIN s /\ g[i] = f[i] /\ g[j] = f[j]
      BY <1>2, <1>3, <1>6, <2>1
    <3> QED
      BY <1>1, <1>6, <3>1
  <2>2. CASE ~(j <= Len(s))
    BY <1>2, <1>3, <1>6, <2>2
  <2> QED
    BY <2>1, <2>2
<1>7. ASSUME NEW i \in DOMAIN sx PROVE sx[i] = tx[g[i]]
  <2>1. CASE i <= Len(s)
    <3>1. i \in DOMAIN s /\ g[i] = f[i] /\ f[i] \in 1..Len(t) /\ sx[i] = s[i]
      BY <1>2, <1>3, <2>1
    <3>2. f[i] \in DOMAIN tx /\ f[i] <= Len(t)
      BY <1>2, <3>1
    <3>3. tx[f[i]] = t[f[i]]
      BY <1>2, <3>2
    <3> QED
      BY <1>1, <3>1, <3>3
  <2>2. CASE ~(i <= Len(s))
    <3>1. g[i] = i - Len(s) + Len(t) /\ i - Len(s) \in 1..Len(x) /\ sx[i] = x[i - Len(s)]
      BY <1>2, <1>3, <2>2
    <3>2. ~(g[i] <= Len(t)) /\ g[i] \in DOMAIN tx /\ g[i] - Len(t) = i - Len(s)
      BY <1>2, <1>4, <3>1
    <3> QED
      BY <1>2, <3>1, <3>2
  <2> QED
    BY <2>1, <2>2
<1> QED
  BY <1>5, <1>6, <1>7 DEF IsThinned, sx, tx

\* A ring's newest elements are a suffix, and all of them while there is room.
LEMMA NewestIs ==
    ASSUME NEW S, NEW s \in Seq(S)
    PROVE  /\ Newest(s) \in Seq(S)
           /\ Len(Newest(s)) = IF Len(s) > InputCap THEN InputCap ELSE Len(s)
           /\ \A i \in 1..Len(Newest(s)) : Newest(s)[i] = s[Len(s) - Len(Newest(s)) + i]
           /\ Len(s) <= InputCap => Newest(s) = s
<1> DEFINE a == IF Len(s) > InputCap THEN Len(s) - InputCap + 1 ELSE 1
           n == Len(s)
           w == SubSeq(s, a, n)
<1>1. InputCap \in Nat /\ n \in Nat /\ a \in Int /\ Newest(s) = w
  BY IPCAssumption DEF Newest
<1>2. /\ n > InputCap => a = n - InputCap + 1
      /\ n <= InputCap => a = 1
      /\ a >= 1
  BY <1>1
<1>3. n <= InputCap => w = s
  BY <1>1, <1>2, SubSeqFull
<1> HIDE DEF a
<1>4. \A i \in a..n : s[i] \in S
  BY <1>1, <1>2, ElementOfSeq
<1>5. /\ w \in Seq(S)
      /\ Len(w) = IF a <= n THEN n - a + 1 ELSE 0
      /\ \A i \in 1..(n - a + 1) : w[i] = s[a + i - 1]
  BY <1>1, <1>4, SubSeqProperties
<1> HIDE DEF w, n
<1>6. Len(w) = IF n > InputCap THEN InputCap ELSE n
  BY <1>1, <1>2, <1>5
<1>7. n - a + 1 = Len(w) /\ a - 1 = n - Len(w)
  BY <1>1, <1>2, <1>6
<1>8. \A i \in 1..Len(w) : w[i] = s[n - Len(w) + i]
  <2> SUFFICES ASSUME NEW i \in 1..Len(w) PROVE w[i] = s[n - Len(w) + i]
    OBVIOUS
  <2>1. i \in 1..(n - a + 1) /\ a + i - 1 = n - Len(w) + i
    BY <1>1, <1>6, <1>7
  <2> QED
    BY <1>5, <2>1
<1> QED
  BY <1>1, <1>3, <1>5, <1>6, <1>8 DEF n

\* What the ring overwrites is missing, the rest is in order.
LEMMA ThinnedNewest ==
    ASSUME NEW S, NEW s \in Seq(S), NEW b \in Seq(S), NEW t \in Seq(S), IsThinned(s \o b, t)
    PROVE  IsThinned(s \o Newest(b), t)
<1> DEFINE c == Newest(b)
           sb == s \o b
           sc == s \o c
           d == Len(b) - Len(c)
<1>1. c \in Seq(S) /\ Len(c) <= Len(b) /\ \A i \in 1..Len(c) : c[i] = b[d + i]
  BY NewestIs
<1> HIDE DEF c
<1>2. /\ Len(s) \in Nat /\ Len(b) \in Nat /\ Len(c) \in Nat /\ d \in Nat
      /\ DOMAIN sb = 1..(Len(s) + Len(b)) /\ DOMAIN sc = 1..(Len(s) + Len(c))
      /\ \A i \in DOMAIN sb : sb[i] = IF i <= Len(s) THEN s[i] ELSE b[i - Len(s)]
      /\ \A i \in DOMAIN sc : sc[i] = IF i <= Len(s) THEN s[i] ELSE c[i - Len(s)]
  BY <1>1, ConcatProperties, LenProperties
<1>3. PICK f \in [DOMAIN sb -> DOMAIN t] :
          /\ \A i, j \in DOMAIN sb : i < j => f[i] < f[j]
          /\ \A i \in DOMAIN sb : sb[i] = t[f[i]]
  BY DEF IsThinned
<1> HIDE DEF sb, sc
<1> DEFINE at(i) == IF i <= Len(s) THEN i ELSE d + i
           g == [i \in DOMAIN sc |-> f[at(i)]]
<1>4. \A i \in DOMAIN sc : at(i) \in DOMAIN sb
  BY <1>1, <1>2
<1>5. \A i, j \in DOMAIN sc : i < j => at(i) < at(j)
  BY <1>2
<1>6. \A i \in DOMAIN sc : sc[i] = sb[at(i)]
  <2> SUFFICES ASSUME NEW i \in DOMAIN sc PROVE sc[i] = sb[at(i)]
    OBVIOUS
  <2>1. CASE i <= Len(s)
    BY <1>2, <1>4, <2>1
  <2>2. CASE ~(i <= Len(s))
    <3>1. i - Len(s) \in 1..Len(c) /\ sc[i] = c[i - Len(s)]
      BY <1>2, <2>2
    <3>2. ~(d + i <= Len(s)) /\ d + i \in DOMAIN sb /\ (d + i) - Len(s) = d + (i - Len(s))
      BY <1>1, <1>2, <2>2
    <3>3. sb[d + i] = b[d + (i - Len(s))]
      BY <1>2, <3>2
    <3> QED
      BY <1>1, <2>2, <3>1, <3>3
  <2> QED
    BY <2>1, <2>2
<1> HIDE DEF at
<1>7. /\ g \in [DOMAIN sc -> DOMAIN t]
      /\ \A i, j \in DOMAIN sc : i < j => g[i] < g[j]
      /\ \A i \in DOMAIN sc : sc[i] = t[g[i]]
  BY <1>3, <1>4, <1>5, <1>6
<1> HIDE DEF g
<1> QED
  BY <1>7 DEF IsThinned, sc, c

LEMMA SuffixNewest ==
    ASSUME NEW S, NEW b \in Seq(S), NEW t \in Seq(S), NEW x \in Seq(S), IsSuffix(b, t)
    PROVE  IsSuffix(Newest(b \o x), t \o x)
<1> DEFINE bx == b \o x
           tx == t \o x
           c == Newest(bx)
<1>1. /\ bx \in Seq(S) /\ Len(bx) = Len(b) + Len(x)
      /\ tx \in Seq(S) /\ Len(tx) = Len(t) + Len(x)
      /\ \A i \in 1..Len(bx) : bx[i] = IF i <= Len(b) THEN b[i] ELSE x[i - Len(b)]
      /\ \A i \in 1..Len(tx) : tx[i] = IF i <= Len(t) THEN t[i] ELSE x[i - Len(t)]
      /\ Len(b) \in Nat /\ Len(t) \in Nat /\ Len(x) \in Nat
  BY ConcatProperties
<1> HIDE DEF bx, tx
<1>2. c \in Seq(S) /\ Len(c) \in Nat /\ Len(c) <= Len(bx)
      /\ \A i \in 1..Len(c) : c[i] = bx[Len(bx) - Len(c) + i]
  BY <1>1, NewestIs, IPCAssumption
<1> HIDE DEF c
<1>3. Len(b) <= Len(t) /\ \A i \in 1..Len(b) : b[i] = t[Len(t) - Len(b) + i]
  BY SuffixIs
<1>4. \A i \in 1..Len(bx) : bx[i] = tx[Len(tx) - Len(bx) + i]
  <2> SUFFICES ASSUME NEW i \in 1..Len(bx) PROVE bx[i] = tx[Len(tx) - Len(bx) + i]
    OBVIOUS
  <2>1. CASE i <= Len(b)
    <3>1. /\ i \in 1..Len(b) /\ Len(tx) - Len(bx) + i = Len(t) - Len(b) + i
          /\ Len(t) - Len(b) + i \in 1..Len(tx) /\ Len(t) - Len(b) + i <= Len(t)
      BY <1>1, <1>3, <2>1
    <3> QED
      BY <1>1, <1>3, <2>1, <3>1
  <2>2. CASE ~(i <= Len(b))
    <3>1. /\ Len(tx) - Len(bx) + i \in 1..Len(tx) /\ ~(Len(tx) - Len(bx) + i <= Len(t))
          /\ Len(tx) - Len(bx) + i - Len(t) = i - Len(b)
      BY <1>1, <1>3, <2>2
    <3> QED
      BY <1>1, <2>2, <3>1
  <2> QED
    BY <2>1, <2>2
<1>5. Len(bx) <= Len(tx)
  BY <1>1, <1>3
<1>6. \A i \in 1..Len(c) : c[i] = tx[Len(tx) - Len(c) + i]
  <2> SUFFICES ASSUME NEW i \in 1..Len(c) PROVE c[i] = tx[Len(tx) - Len(c) + i]
    OBVIOUS
  <2>1. /\ Len(bx) - Len(c) + i \in 1..Len(bx)
        /\ Len(tx) - Len(bx) + (Len(bx) - Len(c) + i) = Len(tx) - Len(c) + i
    BY <1>1, <1>2
  <2> QED
    BY <1>2, <1>4, <2>1
<1>7. Len(c) <= Len(tx)
  BY <1>1, <1>2, <1>5
<1> QED
  BY <1>1, <1>2, <1>6, <1>7, SuffixIs DEF bx, tx, c

-----------------------------------------------------------------------------
USE IPCAssumption

(* The inductive invariant: where a request is on its way.                          *)

\* The requests that were taken off the session's queue.
Taken == Len(pushed) - Len(queue)

\* A request is pushed once, ...
PushedOnce ==
    /\ \A i, j \in DOMAIN pushed : pushed[i] = pushed[j] => i = j
    /\ \A i \in DOMAIN pushed : client[pushed[i]] \notin {"new", "checked"}

\* ... stays in its place until it is taken, ...
QueueIsRest ==
    /\ Len(queue) <= Len(pushed)
    /\ \A i \in DOMAIN queue : queue[i] = pushed[Taken + i]

\* ... and is then the only one on its way.
HandIsLatest ==
    /\ ctx => ipc # "off"
    /\ ipc \in {"submit", "await", "reply"} =>
          hand \in Requests /\ Taken # 0 /\ hand = pushed[Taken]
    /\ ipc = "submit" => result = "none"

TaskIsLatest ==
    /\ \A i \in DOMAIN tasks : tasks[i] \in Requests =>
          /\ Taken # 0 /\ tasks[i] = pushed[Taken]
          /\ ipc \in {"await", "reply", "off"}
          /\ ctx => ipc = "await" /\ result = "none"
    /\ \A i, j \in DOMAIN tasks : tasks[i] \in Requests /\ tasks[j] \in Requests => i = j

\* What was written was taken before, and what is on its way was not written.
WrittenWasTaken ==
    /\ \A i \in DOMAIN wrote : \E a \in 1..Taken : pushed[a] = wrote[i]
    /\ ipc = "submit" => ~Written(hand)
    /\ \A i \in DOMAIN tasks : tasks[i] \in Requests => ~Written(tasks[i])

\* The result is that of the request in hand, unless the context has ended.
ResultIsTrue ==
    ipc \in {"await", "reply"} =>
        /\ result = "ok" => Written(hand)
        /\ result = "err" /\ ctx => ~Written(hand) /\ ~Contains(tasks, hand)

\* What is refused is over.
Over(q) ==
    /\ ~Written(q) /\ ~Contains(tasks, q)
    /\ \E a \in 1..Taken : pushed[a] = q
    /\ ipc = "submit" => hand # q

RepliesAreTrue ==
    \A q \in Requests :
        /\ reply[q] = "ok" \/ client[q] = "ok" => Written(q)
        /\ reply[q] = "err" \/ client[q] = "refused" => Over(q)

FlowInv ==
    /\ PushedOnce
    /\ QueueIsRest
    /\ HandIsLatest
    /\ TaskIsLatest
    /\ WrittenWasTaken
    /\ ResultIsTrue
    /\ RepliesAreTrue
    /\ WrittenInOrder

-----------------------------------------------------------------------------
(* Queues.                                                                          *)

\* The elements of a queue that is appended to.
LEMMA AppendNth ==
    ASSUME NEW S, NEW q \in Seq(S), NEW e \in S
    PROVE  /\ Append(q, e) \in Seq(S)
           /\ Len(Append(q, e)) = Len(q) + 1 /\ Len(q) \in Nat
           /\ DOMAIN q = 1..Len(q) /\ DOMAIN Append(q, e) = 1..(Len(q) + 1)
           /\ Append(q, e)[Len(q) + 1] = e
           /\ \A i \in DOMAIN q : Append(q, e)[i] = q[i]
  OBVIOUS

\* The elements of a queue whose head is taken.
LEMMA TailNth ==
    ASSUME NEW S, NEW q \in Seq(S), q # <<>>
    PROVE  /\ Head(q) = q[1] /\ 1 \in DOMAIN q /\ Head(q) \in S
           /\ Tail(q) \in Seq(S)
           /\ Len(q) \in Nat /\ Len(Tail(q)) = Len(q) - 1
           /\ DOMAIN q = 1..Len(q) /\ DOMAIN Tail(q) = 1..(Len(q) - 1)
           /\ \A i \in DOMAIN Tail(q) : i + 1 \in DOMAIN q /\ Tail(q)[i] = q[i + 1]
  OBVIOUS

\* A queue contains what one of its elements is.
LEMMA ContainsNth ==
    ASSUME NEW S, NEW q \in Seq(S), NEW e
    PROVE  Contains(q, e) <=> \E i \in DOMAIN q : q[i] = e
  BY DEF Contains

\* A queue that is appended to contains the new element besides.
LEMMA ContainsAppend ==
    ASSUME NEW S, NEW q \in Seq(S), NEW d \in S
    PROVE  \A e : Contains(Append(q, d), e) <=> Contains(q, e) \/ e = d
<1> TAKE e
<1> DEFINE p == Append(q, d)
<1>1. p \in Seq(S)
  BY AppendNth
<1>2. Contains(p, e) <=> \E i \in DOMAIN p : p[i] = e
  BY <1>1, ContainsNth
<1>3. Contains(q, e) <=> \E i \in DOMAIN q : q[i] = e
  BY ContainsNth
<1>4. QED
  BY <1>2, <1>3, AppendNth

\* Taking the head of a queue brings nothing new.
LEMMA ContainsTail ==
    ASSUME NEW S, NEW q \in Seq(S), q # <<>>
    PROVE  \A e : Contains(Tail(q), e) => Contains(q, e)
<1> TAKE e
<1> DEFINE p == Tail(q)
<1>1. p \in Seq(S)
  BY TailNth
<1>2. Contains(p, e) <=> \E i \in DOMAIN p : p[i] = e
  BY <1>1, ContainsNth
<1>3. Contains(q, e) <=> \E i \in DOMAIN q : q[i] = e
  BY ContainsNth
<1>4. QED
  BY <1>2, <1>3, TailNth

-----------------------------------------------------------------------------
(* Types.                                                                           *)

Tasks == {"start", "stop"} \cup Requests

\* The places of requests and threads keep their types.
LEMMA NextTypes == FlowTypeOK /\ HandIsLatest /\ [Next]_vars => FlowTypeOK'
<1> SUFFICES ASSUME FlowTypeOK, HandIsLatest, [Next]_vars PROVE FlowTypeOK'
  OBVIOUS
<1> USE DEF FlowTypeOK
<1>0. tasks # <<>> => Head(tasks) \in Tasks /\ Tail(tasks) \in Seq(Tasks)
  BY TailNth DEF Tasks
<1>1. queue # <<>> => Head(queue) \in Requests /\ Tail(queue) \in Seq(Requests)
  BY TailNth
<1>2. ASSUME NEW q \in Requests, RequesterStep(q) PROVE FlowTypeOK'
  <2>1. Append(queue, q) \in Seq(Requests) /\ Append(pushed, q) \in Seq(Requests)
    BY AppendNth
  <2>2. UNCHANGED <<row, run, ctx, cached, tasks, worker, ipc, hand, result, pipe, lost,
                    wrote, mark>>
    BY <1>2 DEF RequesterStep, CheckReady, PushRight, ReceiveReply, GiveUp, ReplyExpires,
                clientVars, threadVars, workVars, inputVars
  <2>3. client' \in [Requests -> {"new", "checked", "waiting", "ok", "refused", "failed"}]
    BY <1>2 DEF RequesterStep, CheckReady, PushRight, ReceiveReply, GiveUp, ReplyExpires,
                Becomes, clientVars
  <2>4. reply' \in [Requests -> {"none", "ok", "err"}]
    BY <1>2 DEF RequesterStep, CheckReady, PushRight, ReceiveReply, GiveUp, ReplyExpires
  <2>5. pushed' \in Seq(Requests) /\ queue' \in Seq(Requests)
    BY <1>2, <2>1 DEF RequesterStep, CheckReady, PushRight, ReceiveReply, GiveUp,
                      ReplyExpires, clientVars
  <2>6. QED
    BY <2>2, <2>3, <2>4, <2>5
<1>3. CASE StartRun \/ RequestStop \/ CancelRun \/ CopyInput
  <2>1. <<"start">> \in Seq(Tasks) /\ Append(tasks, "stop") \in Seq(Tasks)
    BY AppendNth DEF Tasks
  <2>2. CASE StartRun
    BY <2>1, <2>2 DEF StartRun, clientVars, inputVars, Tasks
  <2>3. CASE RequestStop
    BY <2>1, <2>3 DEF RequestStop, clientVars, threadVars, inputVars, Tasks
  <2>4. CASE CancelRun \/ CopyInput
    BY <2>4 DEF CancelRun, CopyInput, clientVars, threadVars, inputVars
  <2>5. QED
    BY <1>3, <2>2, <2>3, <2>4
<1>4. CASE StartDriver \/ StartDriverFails \/ StopDriver \/ WorkerEnds
  <2>1. Len(wrote) \in 0..Len(wrote) /\ <<>> \in Seq(Tasks)
    OBVIOUS
  <2>2. QED
    BY <1>0, <1>4, <2>1 DEF StartDriver, StartDriverFails, StopDriver, WorkerEnds, Take,
                            StartsTyping, clientVars, threadVars, inputVars, Tasks
<1>5. ASSUME NEW q \in Requests, WriteCommands(q) \/ RefuseCommands(q) PROVE FlowTypeOK'
  <2>1. /\ Append(wrote, q) \in Seq(Requests)
        /\ mark \in 0..Len(Append(wrote, q))
    BY AppendNth
  <2>2. result' \in {"none", "ok", "err"}
    BY <1>5 DEF WriteCommands, RefuseCommands, Report
  <2>3. lost' \in BOOLEAN
    BY <1>5 DEF WriteCommands, RefuseCommands, inputVars
  <2>4. QED
    BY <1>0, <1>5, <2>1, <2>2, <2>3 DEF WriteCommands, RefuseCommands, Take, clientVars,
                                        inputVars, Tasks
<1>6. CASE ThreadStep
  <2>1. ipc = "submit" => Append(tasks, hand) \in Seq(Tasks)
    BY AppendNth DEF Tasks, HandIsLatest
  <2>2. CASE PopRequest \/ SkipMalformed \/ EndThread
    BY <1>1, <2>2 DEF PopRequest, SkipMalformed, EndThread, ReadOn, clientVars, workVars,
                      inputVars
  <2>3. CASE SubmitCommands
    BY <2>1, <2>3 DEF SubmitCommands, clientVars, inputVars, Tasks
  <2>4. CASE AwaitResult \/ SendReply
    BY <2>4 DEF AwaitResult, SendReply, ReadOn, clientVars, workVars, inputVars
  <2>5. QED
    BY <1>6, <2>2, <2>3, <2>4 DEF ThreadStep
<1>7. CASE UNCHANGED vars
  BY <1>7 DEF vars, clientVars, threadVars, workVars, inputVars
<1>8. QED
  BY <1>2, <1>3, <1>4, <1>5, <1>6, <1>7 DEF Next, WorkerStep

-----------------------------------------------------------------------------
(* The requester.                                                                   *)

\* A request is taken from those that were pushed.
LEMMA TakenTypes ==
    ASSUME FlowTypeOK, QueueIsRest
    PROVE  /\ Taken \in 0..Len(pushed) /\ Len(pushed) \in Nat /\ Len(queue) \in Nat
           /\ Taken + Len(queue) = Len(pushed)
           /\ DOMAIN pushed = 1..Len(pushed) /\ DOMAIN queue = 1..Len(queue)
<1>1. /\ Len(pushed) \in Nat /\ Len(queue) \in Nat
      /\ DOMAIN pushed = 1..Len(pushed) /\ DOMAIN queue = 1..Len(queue)
  BY DEF FlowTypeOK
<1>2. QED
  BY <1>1 DEF Taken, QueueIsRest

LEMMA PushedTypes == FlowTypeOK => \A i \in DOMAIN pushed : pushed[i] \in Requests
  BY DEF FlowTypeOK

\* What is on its way, and what was written, does not depend on the requesters.
OnItsWay == HandIsLatest /\ TaskIsLatest /\ WrittenWasTaken /\ ResultIsTrue /\ WrittenInOrder

wayVars == <<pushed, queue, tasks, ctx, ipc, hand, result, wrote>>

LEMMA WayFrame == OnItsWay /\ UNCHANGED wayVars => OnItsWay'
  BY DEF wayVars, OnItsWay, HandIsLatest, TaskIsLatest, WrittenWasTaken, ResultIsTrue,
         WrittenInOrder, Written, Contains, Taken

LEMMA OverFrame ==
    ASSUME NEW q, UNCHANGED wayVars, Over(q)
    PROVE  Over(q)'
  BY DEF wayVars, Over, Written, Contains, Taken

\* A request that is pushed takes its place behind all others.
LEMMA PushRightInv ==
    ASSUME FlowTypeOK, FlowInv, NEW q \in Requests, PushRight(q)
    PROVE  FlowInv'
<1> USE DEF FlowInv
<1>1. /\ pushed' = Append(pushed, q) /\ queue' = Append(queue, q)
      /\ client[q] = "checked" /\ client' = [client EXCEPT ![q] = "waiting"]
      /\ UNCHANGED <<reply, tasks, ctx, ipc, hand, result, wrote>>
  BY DEF PushRight, Becomes, threadVars, workVars, inputVars
<1>2. /\ pushed' \in Seq(Requests) /\ Len(pushed') = Len(pushed) + 1
      /\ DOMAIN pushed' = 1..(Len(pushed) + 1) /\ pushed'[Len(pushed) + 1] = q
      /\ \A i \in 1..Len(pushed) : pushed'[i] = pushed[i]
      /\ Len(queue') = Len(queue) + 1 /\ DOMAIN queue' = 1..(Len(queue) + 1)
      /\ queue'[Len(queue) + 1] = q
      /\ \A i \in 1..Len(queue) : queue'[i] = queue[i]
  BY <1>1, AppendNth DEF FlowTypeOK
<1>3. /\ Taken \in 0..Len(pushed) /\ Len(pushed) \in Nat /\ Len(queue) \in Nat
      /\ Taken + Len(queue) = Len(pushed)
      /\ DOMAIN pushed = 1..Len(pushed) /\ DOMAIN queue = 1..Len(queue)
  BY TakenTypes
<1>4. Taken' = Taken
  BY <1>2, <1>3 DEF Taken
<1>5. \A i \in 1..Taken : pushed'[i] = pushed[i]
  BY <1>2, <1>3
<1>6. \A i \in DOMAIN pushed : pushed[i] # q
  BY <1>1 DEF PushedOnce
<1>7. PushedOnce'
  <2>1. \A i \in DOMAIN pushed' : \/ i \in DOMAIN pushed /\ pushed'[i] = pushed[i]
                                  \/ i = Len(pushed) + 1 /\ pushed'[i] = q
    BY <1>2, <1>3
  <2>2. \A i \in DOMAIN pushed : pushed[i] \in Requests
    BY PushedTypes
  <2>3. \A i, j \in DOMAIN pushed' : pushed'[i] = pushed'[j] => i = j
    BY <1>6, <2>1 DEF PushedOnce
  <2>4. client'[q] = "waiting" /\ \A r \in Requests : r # q => client'[r] = client[r]
    BY <1>1 DEF FlowTypeOK
  <2>5. \A i \in DOMAIN pushed' : client'[pushed'[i]] \notin {"new", "checked"}
    BY <2>1, <2>2, <2>4 DEF PushedOnce
  <2>6. QED
    BY <2>3, <2>5 DEF PushedOnce
<1>8. QueueIsRest'
  <2>1. Len(queue') <= Len(pushed')
    BY <1>2, <1>3
  <2>2. ASSUME NEW i \in DOMAIN queue' PROVE queue'[i] = pushed'[Taken + i]
    <3>1. CASE i \in 1..Len(queue)
      <4>1. Taken + i \in 1..Len(pushed)
        BY <1>3, <3>1
      <4>2. QED
        BY <1>2, <1>3, <3>1, <4>1 DEF QueueIsRest
    <3>2. CASE i = Len(queue) + 1
      BY <1>2, <1>3, <3>2
    <3>3. QED
      BY <1>2, <1>3, <2>2, <3>1, <3>2
  <2>3. QED
    BY <1>4, <2>1, <2>2 DEF QueueIsRest
<1>9. HandIsLatest' /\ TaskIsLatest'
  <2>1. Taken # 0 => pushed'[Taken] = pushed[Taken]
    BY <1>3, <1>5
  <2>2. QED
    BY <1>1, <1>4, <2>1 DEF HandIsLatest, TaskIsLatest
<1>10. WrittenWasTaken'
  <2>1. \A i \in DOMAIN wrote : \E a \in 1..Taken : pushed'[a] = wrote[i]
    BY <1>5 DEF WrittenWasTaken
  <2>2. QED
    BY <1>1, <1>4, <2>1 DEF WrittenWasTaken, Written, Contains
<1>11. ResultIsTrue'
  BY <1>1 DEF ResultIsTrue, Written, Contains
<1>12. RepliesAreTrue'
  <2>1. ASSUME NEW r, Over(r) PROVE Over(r)'
    BY <1>1, <1>4, <1>5, <2>1 DEF Over, Written, Contains
  <2>2. \A r \in Requests : client'[r] \in {"ok", "refused"} => client'[r] = client[r]
    BY <1>1 DEF FlowTypeOK
  <2>3. \A r \in Requests : Written(r)' <=> Written(r)
    BY <1>1 DEF Written, Contains
  <2>4. QED
    BY <1>1, <2>1, <2>2, <2>3 DEF RepliesAreTrue
<1>13. WrittenInOrder'
  <2> SUFFICES ASSUME NEW i \in DOMAIN wrote, NEW j \in DOMAIN wrote, i < j
               PROVE  \E a, b \in DOMAIN pushed' :
                         a < b /\ pushed'[a] = wrote[i] /\ pushed'[b] = wrote[j]
    BY <1>1 DEF WrittenInOrder
  <2>1. PICK a \in DOMAIN pushed, b \in DOMAIN pushed :
           a < b /\ pushed[a] = wrote[i] /\ pushed[b] = wrote[j]
    BY DEF WrittenInOrder
  <2>2. a \in DOMAIN pushed' /\ b \in DOMAIN pushed'
    BY <1>2, <1>3
  <2>3. QED
    BY <1>2, <1>3, <2>1, <2>2
<1>14. QED
  BY <1>7, <1>8, <1>9, <1>10, <1>11, <1>12, <1>13

\* The other steps of the requester move nothing; it takes what the reply says.
LEMMA RequesterInv ==
    ASSUME FlowTypeOK, FlowInv, NEW q \in Requests, RequesterStep(q)
    PROVE  FlowInv'
<1>1. CASE PushRight(q)
  BY <1>1, PushRightInv
<1>2. CASE CheckReady(q) \/ ReceiveReply(q) \/ GiveUp(q) \/ ReplyExpires(q)
  <2>1. UNCHANGED wayVars
    BY <1>2 DEF CheckReady, ReceiveReply, GiveUp, ReplyExpires, wayVars, clientVars,
                threadVars, workVars, inputVars
  <2>2. OnItsWay' /\ QueueIsRest'
    BY <2>1, WayFrame DEF FlowInv, OnItsWay, QueueIsRest, wayVars, Taken
  <2>3. \A r \in Requests :
           /\ client'[r] \in {"new", "checked"} => client[r] \in {"new", "checked"}
           /\ reply'[r] # "none" => reply'[r] = reply[r]
           /\ client'[r] = "ok" => client[r] = "ok" \/ reply[r] = "ok"
           /\ client'[r] = "refused" => client[r] = "refused" \/ reply[r] = "err"
    BY <1>2 DEF CheckReady, ReceiveReply, GiveUp, ReplyExpires, Becomes, clientVars,
                FlowTypeOK
  <2>4. PushedOnce'
    <3>1. \A i \in DOMAIN pushed : pushed[i] \in Requests
      BY PushedTypes
    <3>2. QED
      BY <2>1, <2>3, <3>1 DEF FlowInv, PushedOnce, wayVars
  <2>5. RepliesAreTrue'
    <3>1. \A r \in Requests : (Written(r)' <=> Written(r)) /\ (Over(r) => Over(r)')
      BY <2>1, OverFrame DEF Written, Contains, wayVars
    <3>2. QED
      BY <2>3, <3>1 DEF FlowInv, RepliesAreTrue
  <2>6. QED
    BY <2>2, <2>4, <2>5 DEF FlowInv, OnItsWay
<1>3. QED
  BY <1>1, <1>2 DEF RequesterStep

-----------------------------------------------------------------------------
(* The manager and the worker.                                                      *)

\* What the requesters see, when neither they nor the queue move.
LEMMA QueueFrame ==
    ASSUME UNCHANGED <<client, pushed, queue>>
    PROVE  /\ PushedOnce => PushedOnce'
           /\ QueueIsRest => QueueIsRest'
           /\ Taken' = Taken
           /\ wrote' = wrote /\ WrittenInOrder => WrittenInOrder'
  BY DEF PushedOnce, QueueIsRest, Taken, WrittenInOrder

\* The worker's queue gets a stop, loses its head, or is replaced: no request comes in.
LEMMA FewerTasks ==
    ASSUME FlowTypeOK, FlowInv, UNCHANGED <<client, pushed, queue, reply, wrote, hand>>,
           \A i \in DOMAIN tasks' : tasks'[i] \in Requests =>
               \E k \in DOMAIN tasks : tasks'[i] = tasks[k],
           \A i, j \in DOMAIN tasks' : tasks'[i] \in Requests /\ tasks'[j] \in Requests => i = j,
           tasks' \in Seq(Tasks),
           \/ UNCHANGED <<ctx, ipc, result>>
           \/ UNCHANGED <<ipc, result>> /\ ~ctx'
           \/ ipc = "off" /\ ipc' = "poll" /\ tasks' = <<"start">> /\ result' = result
    PROVE  FlowInv'
<1> USE DEF FlowInv
<1>1. PushedOnce' /\ QueueIsRest' /\ WrittenInOrder' /\ Taken' = Taken
  BY QueueFrame
<1>2. \A q \in Requests : Contains(tasks', q) => Contains(tasks, q)
  <2>1. tasks \in Seq(Tasks)
    BY DEF FlowTypeOK, Tasks
  <2>2. QED
    BY <2>1, ContainsNth
<1>3. "start" \notin Requests
  OBVIOUS
<1>4. tasks' = <<"start">> => \A i \in DOMAIN tasks' : tasks'[i] \notin Requests
  BY <1>3
<1>5. HandIsLatest' /\ TaskIsLatest'
  BY <1>1, <1>4 DEF HandIsLatest, TaskIsLatest
<1>6. \A q : Written(q)' <=> Written(q)
  BY DEF Written, Contains
<1>7. WrittenWasTaken'
  BY <1>1, <1>6 DEF WrittenWasTaken
<1>8. ResultIsTrue'
  BY <1>2, <1>6 DEF ResultIsTrue, HandIsLatest
<1>9. RepliesAreTrue'
  BY <1>1, <1>2, <1>6 DEF RepliesAreTrue, Over
<1>10. QED
  BY <1>1, <1>5, <1>7, <1>8, <1>9

\* The manager, and the driver's daemon, put no request anywhere.
LEMMA ManagerInv ==
    ASSUME FlowTypeOK, FlowInv, StartRun \/ RequestStop \/ CancelRun \/ CopyInput
    PROVE  FlowInv'
<1>0. tasks \in Seq(Tasks) /\ {"start", "stop"} \cap Requests = {}
  BY DEF FlowTypeOK, Tasks
<1>1. CASE StartRun
  <2>1. tasks' = <<"start">> /\ tasks' \in Seq(Tasks)
    BY <1>1 DEF StartRun, Tasks
  <2>2. \A i \in DOMAIN tasks' : tasks'[i] \notin Requests
    BY <1>0, <2>1
  <2>3. QED
    BY <1>1, <2>1, <2>2, FewerTasks DEF StartRun, clientVars, inputVars
<1>2. CASE RequestStop
  <2>1. tasks' = Append(tasks, "stop") /\ tasks' \in Seq(Tasks)
    BY <1>0, <1>2, AppendNth DEF RequestStop, Tasks
  <2>2. \A i \in DOMAIN tasks' : tasks'[i] \in Requests => i \in DOMAIN tasks /\ tasks'[i] = tasks[i]
    BY <1>0, <2>1, AppendNth DEF Tasks
  <2>3. \A i, j \in DOMAIN tasks' : tasks'[i] \in Requests /\ tasks'[j] \in Requests => i = j
    BY <2>2 DEF FlowInv, TaskIsLatest
  <2>4. QED
    BY <1>2, <2>1, <2>2, <2>3, FewerTasks DEF RequestStop, clientVars, threadVars, inputVars
<1>3. CASE CancelRun
  BY <1>0, <1>3, FewerTasks DEF CancelRun, clientVars, threadVars, inputVars, FlowInv,
                                TaskIsLatest
<1>4. CASE CopyInput
  BY <1>0, <1>4, FewerTasks DEF CopyInput, clientVars, threadVars, FlowInv, TaskIsLatest
<1>5. QED
  BY <1>1, <1>2, <1>3, <1>4

\* What is left of the worker's queue when its head is taken.
LEMMA TakeFacts ==
    ASSUME FlowTypeOK, TaskIsLatest, NEW task, Take(task)
    PROVE  /\ tasks \in Seq(Tasks) /\ tasks' \in Seq(Tasks)
           /\ 1 \in DOMAIN tasks /\ tasks[1] = task
           /\ \A i \in DOMAIN tasks' : \E k \in DOMAIN tasks : k # 1 /\ tasks'[i] = tasks[k]
           /\ \A i, j \in DOMAIN tasks' : tasks'[i] \in Requests /\ tasks'[j] \in Requests => i = j
<1>1. /\ tasks \in Seq(Tasks) /\ tasks # <<>> /\ tasks' = Tail(tasks) /\ Head(tasks) = task
  BY DEF Take, FlowTypeOK, Tasks
<1>2. /\ Head(tasks) = tasks[1] /\ 1 \in DOMAIN tasks /\ Tail(tasks) \in Seq(Tasks)
      /\ Len(tasks) \in Nat /\ DOMAIN Tail(tasks) = 1..(Len(tasks) - 1)
      /\ \A i \in DOMAIN Tail(tasks) : i + 1 \in DOMAIN tasks /\ Tail(tasks)[i] = tasks[i + 1]
  BY <1>1, TailNth
<1>3. \A i \in DOMAIN tasks' : i \in Nat /\ i + 1 # 1
  BY <1>1, <1>2
<1>4. \A i, j \in DOMAIN tasks' : i + 1 = j + 1 => i = j
  BY <1>3
<1>5. QED
  BY <1>1, <1>2, <1>3, <1>4 DEF TaskIsLatest

\* The worker's other tasks, and its end.
LEMMA WorkerInv ==
    ASSUME FlowTypeOK, FlowInv, StartDriver \/ StartDriverFails \/ StopDriver \/ WorkerEnds
    PROVE  FlowInv'
<1>1. CASE WorkerEnds
  <2>1. <<>> \in Seq(Tasks)
    OBVIOUS
  <2>2. QED
    BY <1>1, <2>1, FewerTasks DEF WorkerEnds, clientVars, threadVars, inputVars
<1>2. CASE StartDriver \/ StartDriverFails \/ StopDriver
  <2>1. PICK task : Take(task)
    BY <1>2 DEF StartDriver, StartDriverFails, StopDriver
  <2>2. UNCHANGED <<client, pushed, queue, reply, wrote, hand, ctx, ipc, result>>
    BY <1>2 DEF StartDriver, StartDriverFails, StopDriver, StartsTyping, clientVars,
                threadVars, inputVars
  <2>3. QED
    BY <2>1, <2>2, TakeFacts, FewerTasks DEF FlowInv
<1>3. QED
  BY <1>1, <1>2

\* A request that the worker takes is the latest one, it is nowhere else, and its result
\* is told to the thread only while it waits for it.
LEMMA CommandsInv ==
    ASSUME FlowTypeOK, FlowInv, NEW q \in Requests, WriteCommands(q) \/ RefuseCommands(q)
    PROVE  FlowInv'
<1> USE DEF FlowInv
<1>1. /\ UNCHANGED <<client, pushed, queue, reply, ctx, ipc, hand>>
      /\ Take(q)
      /\ \/ wrote' = wrote /\ Report(q, "err")
         \/ wrote' = Append(wrote, q) /\ Report(q, "ok")
  BY DEF WriteCommands, RefuseCommands, clientVars, inputVars
<1>2. /\ tasks \in Seq(Tasks) /\ tasks' \in Seq(Tasks)
      /\ 1 \in DOMAIN tasks /\ tasks[1] = q
      /\ \A i \in DOMAIN tasks' : \E k \in DOMAIN tasks : k # 1 /\ tasks'[i] = tasks[k]
  BY <1>1, TakeFacts
<1>3. /\ Taken # 0 /\ q = pushed[Taken]
      /\ ipc \in {"await", "reply", "off"}
      /\ ctx => ipc = "await" /\ result = "none"
      /\ ~Written(q)
  BY <1>2 DEF TaskIsLatest, WrittenWasTaken
<1>4. \A i \in DOMAIN tasks' : tasks'[i] \notin Requests
  BY <1>2 DEF TaskIsLatest
<1>5. \A r \in Requests : ~Contains(tasks', r)
  BY <1>2, <1>4, ContainsNth
<1>6. PushedOnce' /\ QueueIsRest' /\ Taken' = Taken
  BY <1>1, QueueFrame
<1>7. \/ Report(q, "err") /\ \A r : Written(r)' <=> Written(r)
      \/ Report(q, "ok") /\ \A r : Written(r)' <=> Written(r) \/ r = q
  <2>1. wrote \in Seq(Requests)
    BY DEF FlowTypeOK
  <2>2. CASE wrote' = Append(wrote, q) /\ Report(q, "ok")
    BY <2>1, <2>2, ContainsAppend DEF Written
  <2>3. QED
    BY <1>1, <2>2 DEF Written
<1>8. HandIsLatest' /\ TaskIsLatest'
  BY <1>1, <1>3, <1>4, <1>6 DEF HandIsLatest, TaskIsLatest
<1>9. Taken \in 1..Len(pushed) /\ Len(pushed) \in Nat /\ DOMAIN pushed = 1..Len(pushed)
  BY <1>3, TakenTypes
<1>10. \A i \in DOMAIN wrote' : \/ i \in DOMAIN wrote /\ wrote'[i] = wrote[i]
                                \/ i = Len(wrote) + 1 /\ wrote'[i] = q
  <2>1. wrote \in Seq(Requests)
    BY DEF FlowTypeOK
  <2>2. /\ DOMAIN wrote = 1..Len(wrote) /\ DOMAIN Append(wrote, q) = 1..(Len(wrote) + 1)
        /\ Append(wrote, q)[Len(wrote) + 1] = q /\ Len(wrote) \in Nat
        /\ \A i \in DOMAIN wrote : Append(wrote, q)[i] = wrote[i]
    BY <2>1, AppendNth
  <2>3. CASE wrote' = Append(wrote, q)
    BY <2>2, <2>3
  <2>4. QED
    BY <1>1, <2>3
<1>11. \A i \in DOMAIN wrote : i \in Nat /\ i < Len(wrote) + 1 /\ Written(wrote[i])
  BY DEF FlowTypeOK, Written, Contains
<1>12. WrittenWasTaken'
  <2>1. \A i \in DOMAIN wrote' : \E a \in 1..Taken : pushed[a] = wrote'[i]
    BY <1>3, <1>9, <1>10 DEF WrittenWasTaken
  <2>2. QED
    BY <1>1, <1>3, <1>4, <1>6, <2>1 DEF WrittenWasTaken
<1>13. WrittenInOrder'
  <2> SUFFICES ASSUME NEW i \in DOMAIN wrote', NEW j \in DOMAIN wrote', i < j
               PROVE  \E a, b \in DOMAIN pushed :
                         a < b /\ pushed[a] = wrote'[i] /\ pushed[b] = wrote'[j]
    BY <1>1 DEF WrittenInOrder
  <2>1. CASE /\ i \in DOMAIN wrote /\ wrote'[i] = wrote[i]
             /\ j \in DOMAIN wrote /\ wrote'[j] = wrote[j]
    BY <2>1 DEF WrittenInOrder
  <2>2. CASE i \in DOMAIN wrote /\ wrote'[i] = wrote[i] /\ wrote'[j] = q
    <3>1. PICK a \in 1..Taken : pushed[a] = wrote[i]
      BY <2>2 DEF WrittenWasTaken
    <3>2. a # Taken
      BY <1>3, <1>11, <2>2, <3>1
    <3>3. a < Taken /\ a \in DOMAIN pushed /\ Taken \in DOMAIN pushed
      BY <1>9, <3>1, <3>2
    <3>4. QED
      BY <1>3, <2>2, <3>1, <3>3
  <2>3. CASE i = Len(wrote) + 1
    <3>1. j \in DOMAIN wrote \/ j = Len(wrote) + 1
      BY <1>10
    <3>2. Len(wrote) \in Nat
      BY DEF FlowTypeOK
    <3>3. QED
      BY <1>11, <2>3, <3>1, <3>2
  <2>4. QED
    BY <1>10, <2>1, <2>2, <2>3
<1>14. ResultIsTrue'
  <2>1. CASE ipc = "await" /\ hand = q
    BY <1>1, <1>3, <1>5, <1>7, <2>1 DEF ResultIsTrue, Report
  <2>2. CASE ~(ipc = "await" /\ hand = q)
    <3>1. result' = result /\ ~ctx
      BY <1>1, <1>3, <2>2 DEF Report, HandIsLatest
    <3>2. QED
      BY <1>1, <1>7, <3>1 DEF ResultIsTrue
  <2>3. QED
    BY <2>1, <2>2
<1>15. RepliesAreTrue'
  <2>1. Contains(tasks, q)
    BY <1>2, ContainsNth
  <2>2. ASSUME NEW r \in Requests, Over(r) PROVE Over(r)'
    BY <1>1, <1>5, <1>6, <1>7, <2>1, <2>2 DEF Over
  <2>3. QED
    BY <1>1, <1>7, <2>2 DEF RepliesAreTrue
<1>16. QED
  BY <1>6, <1>8, <1>12, <1>13, <1>14, <1>15

-----------------------------------------------------------------------------
(* The IPC thread.                                                                  *)

\* The thread takes the next request, or drops it.
LEMMA PopInv ==
    ASSUME FlowTypeOK, FlowInv, PopRequest \/ SkipMalformed
    PROVE  FlowInv'
<1> USE DEF FlowInv
<1>1. /\ queue # <<>> /\ queue' = Tail(queue) /\ ipc = "poll"
      /\ UNCHANGED <<client, pushed, reply, tasks, ctx, wrote>>
      /\ \/ ipc' = "submit" /\ hand' = Head(queue) /\ result' = "none"
         \/ UNCHANGED <<hand, result>> /\ ipc' = IF ctx THEN "poll" ELSE "off"
  BY DEF PopRequest, SkipMalformed, ReadOn, clientVars, workVars, inputVars
<1>2. /\ Head(queue) = queue[1] /\ 1 \in DOMAIN queue /\ Head(queue) \in Requests
      /\ Len(queue) \in Nat /\ Len(queue') = Len(queue) - 1
      /\ DOMAIN queue' = 1..(Len(queue) - 1)
      /\ \A i \in DOMAIN queue' : i + 1 \in DOMAIN queue /\ queue'[i] = queue[i + 1]
  BY <1>1, TailNth DEF FlowTypeOK
<1>3. /\ Taken \in 0..Len(pushed) /\ Len(pushed) \in Nat
      /\ Taken + Len(queue) = Len(pushed) /\ DOMAIN pushed = 1..Len(pushed)
      /\ DOMAIN queue = 1..Len(queue)
  BY TakenTypes
<1>4. Taken' = Taken + 1 /\ Taken + 1 \in DOMAIN pushed /\ pushed[Taken + 1] = Head(queue)
  BY <1>1, <1>2, <1>3 DEF Taken, QueueIsRest
<1>5. \A i \in DOMAIN tasks : tasks[i] \notin Requests
  BY <1>1 DEF TaskIsLatest
<1>6. \A q \in Requests : ~Contains(tasks, q)
  <2>1. tasks \in Seq(Tasks)
    BY DEF FlowTypeOK, Tasks
  <2>2. QED
    BY <1>5, <2>1, ContainsNth
<1>7. \A a \in 1..Taken : a \in DOMAIN pushed /\ pushed[a] # pushed[Taken + 1]
  <2>1. \A a \in 1..Taken : a \in DOMAIN pushed /\ a # Taken + 1
    BY <1>3
  <2>2. QED
    BY <1>4, <2>1 DEF PushedOnce
<1>8. PushedOnce'
  BY <1>1 DEF PushedOnce
<1>9. QueueIsRest'
  <2>1. Len(queue') <= Len(pushed)
    BY <1>2, <1>3
  <2>2. ASSUME NEW i \in DOMAIN queue' PROVE queue'[i] = pushed[Taken + 1 + i]
    <3>1. i + 1 \in DOMAIN queue /\ queue'[i] = queue[i + 1]
      BY <1>2, <2>2
    <3>2. Taken + (i + 1) = Taken + 1 + i
      BY <1>2, <1>3, <2>2
    <3>3. QED
      BY <3>1, <3>2 DEF QueueIsRest
  <2>3. QED
    BY <1>1, <1>4, <2>1, <2>2 DEF QueueIsRest
<1>10. HandIsLatest' /\ TaskIsLatest'
  BY <1>1, <1>2, <1>3, <1>4, <1>5 DEF HandIsLatest, TaskIsLatest
<1>11. \A q : Written(q)' <=> Written(q)
  BY <1>1 DEF Written, Contains
<1>12. ~Written(Head(queue))
  <2>1. ASSUME NEW i \in DOMAIN wrote PROVE wrote[i] # pushed[Taken + 1]
    BY <1>7 DEF WrittenWasTaken
  <2>2. QED
    BY <1>4, <2>1, ContainsNth DEF Written, FlowTypeOK
<1>13. \A a \in 1..Taken : a \in 1..(Taken + 1)
  BY <1>3
<1>14. WrittenWasTaken'
  <2>1. \A i \in DOMAIN wrote' : \E a \in 1..(Taken + 1) : pushed[a] = wrote'[i]
    BY <1>1, <1>13 DEF WrittenWasTaken
  <2>2. ipc' = "submit" => ~Written(hand')
    BY <1>1, <1>12
  <2>3. QED
    BY <1>1, <1>4, <1>5, <1>11, <2>1, <2>2 DEF WrittenWasTaken
<1>15. ResultIsTrue'
  BY <1>1 DEF ResultIsTrue
<1>16. RepliesAreTrue'
  <2>1. ASSUME NEW q \in Requests, Over(q) PROVE Over(q)'
    <3>1. PICK a \in 1..Taken : pushed[a] = q
      BY <2>1 DEF Over
    <3>2. q # Head(queue) /\ a \in 1..(Taken + 1)
      BY <1>4, <1>7, <1>13, <3>1
    <3>3. ~Written(q)' /\ ~Contains(tasks', q)
      BY <1>1, <1>11, <2>1 DEF Over
    <3>4. ipc' = "submit" => hand' # q
      BY <1>1, <3>2
    <3>5. QED
      BY <1>1, <1>4, <3>1, <3>2, <3>3, <3>4 DEF Over
  <2>2. QED
    BY <1>1, <1>11, <2>1 DEF RepliesAreTrue
<1>17. WrittenInOrder'
  BY <1>1 DEF WrittenInOrder
<1>18. QED
  BY <1>8, <1>9, <1>10, <1>14, <1>15, <1>16, <1>17

\* The request goes to the worker, as the only one there.
LEMMA SubmitInv ==
    ASSUME FlowTypeOK, FlowInv, SubmitCommands
    PROVE  FlowInv'
<1> USE DEF FlowInv
<1>1. /\ ipc = "submit"
      /\ UNCHANGED <<client, pushed, queue, reply, ctx, hand, wrote>>
      /\ \/ tasks' = Append(tasks, hand) /\ ipc' = "await" /\ UNCHANGED result
         \/ ~ctx /\ ipc' = "reply" /\ result' = "err" /\ UNCHANGED tasks
  BY DEF SubmitCommands, clientVars, inputVars
<1>2. /\ tasks \in Seq(Tasks) /\ hand \in Requests /\ hand \in Tasks
      /\ Taken # 0 /\ hand = pushed[Taken]
  BY <1>1 DEF FlowTypeOK, Tasks, HandIsLatest
<1>3. PushedOnce' /\ QueueIsRest' /\ WrittenInOrder' /\ Taken' = Taken
  BY <1>1, QueueFrame
<1>4. HandIsLatest'
  BY <1>1, <1>2, <1>3 DEF HandIsLatest
<1>5. \A i \in DOMAIN tasks : tasks[i] \notin Requests
  BY <1>1 DEF TaskIsLatest
<1>6. \A q : Written(q)' <=> Written(q)
  BY <1>1 DEF Written, Contains
<1>7. ~Written(hand)
  BY <1>1 DEF WrittenWasTaken
<1>8. CASE tasks' = Append(tasks, hand) /\ ipc' = "await" /\ result' = result
  <2>0. result = "none"
    BY <1>1 DEF HandIsLatest
  <2>1. \A i \in DOMAIN tasks' : \/ i \in DOMAIN tasks /\ tasks'[i] \notin Requests
                                 \/ i = Len(tasks) + 1 /\ tasks'[i] = hand
    <3>1. /\ DOMAIN tasks' = 1..(Len(tasks) + 1) /\ DOMAIN tasks = 1..Len(tasks)
          /\ tasks'[Len(tasks) + 1] = hand /\ Len(tasks) \in Nat
          /\ \A i \in DOMAIN tasks : tasks'[i] = tasks[i]
      BY <1>2, <1>8, AppendNth
    <3>2. QED
      BY <1>5, <3>1
  <2>2. \A q : Contains(tasks', q) <=> Contains(tasks, q) \/ q = hand
    BY <1>2, <1>8, ContainsAppend
  <2>3. TaskIsLatest'
    BY <1>1, <1>2, <1>3, <1>8, <2>0, <2>1 DEF TaskIsLatest
  <2>4. WrittenWasTaken'
    BY <1>1, <1>3, <1>6, <1>7, <1>8, <2>1 DEF WrittenWasTaken
  <2>5. ResultIsTrue'
    BY <1>8, <2>0 DEF ResultIsTrue
  <2>6. RepliesAreTrue'
    <3>1. ASSUME NEW q \in Requests, Over(q) PROVE Over(q)'
      BY <1>1, <1>3, <1>6, <1>8, <2>2, <3>1 DEF Over
    <3>2. QED
      BY <1>1, <1>6, <3>1 DEF RepliesAreTrue
  <2>7. QED
    BY <1>3, <1>4, <2>3, <2>4, <2>5, <2>6
<1>9. CASE ~ctx /\ ipc' = "reply" /\ result' = "err" /\ tasks' = tasks
  <2>1. TaskIsLatest' /\ WrittenWasTaken' /\ ResultIsTrue'
    BY <1>1, <1>3, <1>5, <1>6, <1>9 DEF TaskIsLatest, WrittenWasTaken, ResultIsTrue
  <2>2. RepliesAreTrue'
    BY <1>1, <1>3, <1>6, <1>9 DEF RepliesAreTrue, Over
  <2>3. QED
    BY <1>3, <1>4, <2>1, <2>2
<1>10. QED
  BY <1>1, <1>8, <1>9

\* The thread waits, replies while its context lives, and ends with its context.
LEMMA ReplyInv ==
    ASSUME FlowTypeOK, FlowInv, AwaitResult \/ SendReply \/ EndThread
    PROVE  FlowInv'
<1> USE DEF FlowInv
<1>1. UNCHANGED <<client, pushed, queue, tasks, ctx, wrote>>
  BY DEF AwaitResult, SendReply, EndThread, clientVars, workVars, inputVars
<1>2. PushedOnce' /\ QueueIsRest' /\ WrittenInOrder' /\ Taken' = Taken
  BY <1>1, QueueFrame
<1>3. \A q : (Written(q)' <=> Written(q)) /\ (Contains(tasks, q)' <=> Contains(tasks, q))
  BY <1>1 DEF Written, Contains
<1>4. CASE AwaitResult
  <2>1. /\ ipc = "await" /\ ipc' = "reply" /\ UNCHANGED <<reply, hand>>
        /\ \/ result # "none" /\ UNCHANGED result
           \/ ~ctx /\ result' = "err"
    BY <1>4 DEF AwaitResult
  <2>2. HandIsLatest' /\ TaskIsLatest' /\ WrittenWasTaken' /\ ResultIsTrue'
    BY <1>1, <1>2, <1>3, <2>1
       DEF HandIsLatest, TaskIsLatest, WrittenWasTaken, ResultIsTrue
  <2>3. RepliesAreTrue'
    BY <1>1, <1>2, <1>3, <2>1 DEF RepliesAreTrue, Over
  <2>4. QED
    BY <1>2, <2>2, <2>3
<1>5. CASE SendReply
  <2>1. /\ ipc = "reply" /\ ipc' = IF ctx THEN "poll" ELSE "off"
        /\ reply' = IF ctx THEN [reply EXCEPT ![hand] = result] ELSE reply
    BY <1>5 DEF SendReply, ReadOn
  <2>2. HandIsLatest' /\ TaskIsLatest' /\ WrittenWasTaken' /\ ResultIsTrue'
    BY <1>1, <1>2, <1>3, <2>1
       DEF HandIsLatest, TaskIsLatest, WrittenWasTaken, ResultIsTrue
  <2>3. ASSUME NEW q \in Requests, Over(q) PROVE Over(q)'
    BY <1>1, <1>2, <1>3, <2>1, <2>3 DEF Over
  <2>4. ASSUME NEW q \in Requests
        PROVE  /\ reply'[q] = "ok" => Written(q)
               /\ reply'[q] = "err" => Over(q)
    <3>1. CASE reply'[q] = reply[q]
      BY <3>1 DEF RepliesAreTrue
    <3>2. CASE ctx /\ q = hand /\ reply'[q] = result
      <4>1. result = "ok" => Written(q)
        BY <2>1, <3>2 DEF ResultIsTrue
      <4>2. result = "err" => ~Written(q) /\ ~Contains(tasks, q)
        BY <2>1, <3>2 DEF ResultIsTrue
      <4>3. \E a \in 1..Taken : pushed[a] = q
        <5>1. Taken # 0 /\ q = pushed[Taken] /\ Taken \in 0..Len(pushed) /\ Len(pushed) \in Nat
          BY <2>1, <3>2, TakenTypes DEF HandIsLatest
        <5>2. Taken \in 1..Taken
          BY <5>1
        <5>3. QED
          BY <5>1, <5>2
      <4>4. QED
        BY <2>1, <3>2, <4>1, <4>2, <4>3 DEF Over
    <3>3. QED
      BY <2>1, <3>1, <3>2 DEF FlowTypeOK
  <2>5. RepliesAreTrue'
    BY <1>1, <1>3, <2>3, <2>4 DEF RepliesAreTrue
  <2>6. QED
    BY <1>2, <2>2, <2>5
<1>6. CASE EndThread
  <2>1. ipc = "poll" /\ ~ctx /\ ipc' = "off" /\ UNCHANGED <<reply, hand, result>>
    BY <1>6 DEF EndThread
  <2>2. HandIsLatest' /\ TaskIsLatest' /\ WrittenWasTaken' /\ ResultIsTrue'
    BY <1>1, <1>2, <1>3, <2>1
       DEF HandIsLatest, TaskIsLatest, WrittenWasTaken, ResultIsTrue
  <2>3. RepliesAreTrue'
    BY <1>1, <1>2, <1>3, <2>1 DEF RepliesAreTrue, Over
  <2>4. QED
    BY <1>2, <2>2, <2>3
<1>7. QED
  BY <1>4, <1>5, <1>6

-----------------------------------------------------------------------------
\* With the types, FlowInv is inductive.
LEMMA NextFlow == FlowTypeOK /\ FlowInv /\ [Next]_vars => FlowInv'
<1> SUFFICES ASSUME FlowTypeOK, FlowInv, [Next]_vars PROVE FlowInv'
  OBVIOUS
<1>1. CASE UNCHANGED vars
  <2>1. UNCHANGED wayVars /\ UNCHANGED <<client, reply>>
    BY <1>1 DEF vars, wayVars, clientVars, threadVars, workVars, inputVars
  <2>2. OnItsWay' /\ PushedOnce' /\ QueueIsRest'
    BY <2>1, WayFrame, QueueFrame DEF FlowInv, OnItsWay, wayVars
  <2>3. RepliesAreTrue'
    BY <2>1, OverFrame DEF FlowInv, RepliesAreTrue, Written, Contains, wayVars
  <2>4. QED
    BY <2>2, <2>3 DEF FlowInv, OnItsWay
<1>2. QED
  BY <1>1, RequesterInv, ManagerInv, WorkerInv, CommandsInv, PopInv, SubmitInv, ReplyInv
     DEF Next, WorkerStep, ThreadStep

LEMMA InitFlow == Init => FlowTypeOK /\ FlowInv
<1> SUFFICES ASSUME Init PROVE FlowTypeOK /\ FlowInv
  OBVIOUS
<1>1. /\ <<>> \in Seq(Requests) /\ <<>> \in Seq({"start", "stop"} \cup Requests)
      /\ 0 \in 0..MaxRuns /\ 0 \in 0..Len(<<>>)
  OBVIOUS
<1>2. FlowTypeOK
  BY <1>1 DEF Init, FlowTypeOK
<1>3. Len(pushed) = 0 /\ Len(queue) = 0 /\ Len(tasks) = 0 /\ Len(wrote) = 0
  BY DEF Init
<1>4. FlowInv
  BY <1>3 DEF Init, FlowInv, PushedOnce, QueueIsRest, HandIsLatest, TaskIsLatest,
         WrittenWasTaken, ResultIsTrue, RepliesAreTrue, Over, WrittenInOrder, Written,
         Contains, Taken
<1>5. QED
  BY <1>2, <1>4

\* Requests, replies, threads and the worker's tasks are of their types.
THEOREM FlowTyped == Spec => []FlowTypeOK
<1>1. FlowTypeOK /\ FlowInv /\ [Next]_vars => FlowTypeOK'
  BY NextTypes DEF FlowInv
<1>2. QED
  BY <1>1, InitFlow, NextFlow, PTL DEF Spec

\* A requester that is told "ok" has had its commands written, one that is refused never
\* will, however the runner is stopped and started while the request is handled.
THEOREM RepliesTellTheTruth == Spec => []ReplyIsTrue
<1>1. FlowTypeOK /\ FlowInv /\ [Next]_vars => FlowTypeOK'
  BY NextTypes DEF FlowInv
<1>2. FlowInv => ReplyIsTrue
  BY DEF FlowInv, RepliesAreTrue, Over, ReplyIsTrue
<1>3. QED
  BY <1>1, <1>2, InitFlow, NextFlow, PTL DEF Spec

\* Requests are written in the order in which they were pushed, none twice, across any
\* number of runs of the session.
THEOREM OrderIsKept == Spec => []WrittenInOrder
<1>1. FlowTypeOK /\ FlowInv /\ [Next]_vars => FlowTypeOK'
  BY NextTypes DEF FlowInv
<1>2. FlowInv => WrittenInOrder
  BY DEF FlowInv
<1>3. QED
  BY <1>1, <1>2, InitFlow, NextFlow, PTL DEF Spec

-----------------------------------------------------------------------------
(* What the command is given: the inductive invariant.                              *)

\* The bytes of the requests that were written since this run's driver started.
Chunks == [i \in 1..Len(wrote) - mark |-> BuildStdinInput(CommandsOf[wrote[mark + i]])]

\* The buffer holds no more than its capacity, and nothing but bytes.
BytesTypeOK ==
    /\ buffer \in Seq(Bytes) /\ Len(buffer) <= InputCap
    /\ typed \in Seq(Bytes)

\* What was written parsed.
WrittenIsValid == \A i \in DOMAIN wrote : AllValid(CommandsOf[wrote[i]])

\* The invariant: TypedAsAsked, with the thinning also where nothing was lost.
InputIsAsked ==
    pipe =>
        /\ IsThinned(typed \o buffer, Asked)
        /\ ~lost => typed \o buffer = Asked
        /\ IsSuffix(buffer, Asked)

TypedInv == BytesTypeOK /\ WrittenIsValid /\ InputIsAsked

\* The mask 0x1f gives the number of a letter in the alphabet, of either case.
LEMMA LetterMask ==
    ASSUME NEW b \in Int, b \in 65..90 \/ b \in 97..122
    PROVE  /\ CtrlMask(b) \in Bytes
           /\ (CHOOSE k \in 1..26 : b \in {64 + k, 96 + k}) = CtrlMask(b)
<1> DEFINE d == CtrlMask(b)
<1>1. b \in 65..90 => d = b - 64
  BY DEF CtrlMask
<1>2. b \in 97..122 => d = b - 96
  BY DEF CtrlMask
<1> HIDE DEF d
<1>3. d \in 1..26 /\ \A k \in 1..26 : b \in {64 + k, 96 + k} <=> k = d
  <2>1. CASE b \in 65..90
    <3>1. d = b - 64
      BY <1>1, <2>1
    <3> QED
      BY <2>1, <3>1
  <2>2. CASE b \in 97..122
    <3>1. d = b - 96
      BY <1>2, <2>2
    <3> QED
      BY <2>2, <3>1
  <2> QED
    BY <2>1, <2>2
<1>4. (CHOOSE k \in 1..26 : b \in {64 + k, 96 + k}) = d
  BY <1>3
<1> QED
  BY <1>3, <1>4 DEF d, Bytes

\* The bytes of a command that is valid are its keystrokes, ...
LEMMA StdinIsKeystrokes ==
    ASSUME NEW c \in SessionInputCommand, IsValid(c)
    PROVE  StdinOf(c) \in Seq(Bytes) /\ Keystrokes(c) = StdinOf(c)
<1>1. CASE c.type = "ENTER"
  <2>1. StdinOf(c) = <<13>> /\ Keystrokes(c) = <<13>>
    BY <1>1 DEF StdinOf, Keystrokes, AsciiCR
  <2> QED
    BY <2>1 DEF Bytes
<1>2. CASE c.type = "CTRL"
  <2> DEFINE b == c.content[1]
  <2>1. c.content \in Seq(Bytes) /\ Len(c.content) = 1 /\ isASCIILetter(b)
    BY <1>2 DEF SessionInputCommand, IsValid
  <2>2. b \in Int /\ (b \in 65..90 \/ b \in 97..122)
    <3>1. b \in Int
      <4>1. 1 \in 1..Len(c.content)
        BY <2>1
      <4>2. b \in Bytes
        BY <2>1, <4>1, ElementOfSeq
      <4>3. Bytes \subseteq Int
        BY DEF Bytes
      <4> QED
        BY <4>2, <4>3
    <3> HIDE DEF b
    <3> QED
      BY <2>1, <3>1 DEF isASCIILetter
  <2>3. /\ StdinOf(c) = <<CtrlMask(b)>>
        /\ Keystrokes(c) = <<CHOOSE k \in 1..26 : b \in {64 + k, 96 + k}>>
    BY <1>2 DEF StdinOf, Keystrokes
  <2> HIDE DEF b
  <2>4. CtrlMask(b) \in Bytes /\ Keystrokes(c) = <<CtrlMask(b)>>
    BY <2>2, <2>3, LetterMask
  <2> QED
    BY <2>3, <2>4
<1>3. CASE c.type \in {"TEXT", "RAW"}
  <2>1. c.content \in Seq(Bytes)
    BY <1>3 DEF SessionInputCommand, IsValid
  <2>2. StdinOf(c) = c.content /\ Keystrokes(c) = c.content
    BY <1>3 DEF StdinOf, Keystrokes
  <2> QED
    BY <2>1, <2>2
<1> QED
  BY <1>1, <1>2, <1>3 DEF IsValid

\* ... and those of a list that is valid are the keystrokes of its commands.
LEMMA ListIsKeystrokes ==
    ASSUME NEW q \in Requests, AllValid(CommandsOf[q])
    PROVE  /\ BuildStdinInput(CommandsOf[q]) \in Seq(Bytes)
           /\ FlattenSeq([i \in DOMAIN CommandsOf[q] |-> Keystrokes(CommandsOf[q][i])])
                = BuildStdinInput(CommandsOf[q])
<1> DEFINE cmds == CommandsOf[q]
           s == [i \in DOMAIN cmds |-> StdinOf(cmds[i])]
           k == [i \in DOMAIN cmds |-> Keystrokes(cmds[i])]
<1>1. cmds \in Seq(SessionInputCommand)
  BY DEF IPCAssumption
<1>2. \A i \in DOMAIN cmds : cmds[i] \in SessionInputCommand /\ IsValid(cmds[i])
  BY <1>1, ElementOfSeq DEF AllValid
<1>3. DOMAIN cmds = 1..Len(cmds) /\ Len(cmds) \in Nat
  BY <1>1
<1> HIDE DEF cmds
<1>4. \A i \in DOMAIN cmds : StdinOf(cmds[i]) \in Seq(Bytes) /\ Keystrokes(cmds[i]) = StdinOf(cmds[i])
  BY <1>2, StdinIsKeystrokes
<1>5. k = s
  BY <1>4
<1>6. s \in Seq(Seq(Bytes))
  BY <1>3, <1>4, IsASeq
<1> HIDE DEF s, k
<1>7. FlattenSeq(s) \in Seq(Bytes)
  <2>1. <<>> \in Seq(Bytes)
    OBVIOUS
  <2> QED
    BY <1>6, <2>1, FlattenSeqAppend
<1>8. FlattenSeq(k) = FlattenSeq(s)
  BY <1>5
<1> QED
  BY <1>7, <1>8 DEF BuildStdinInput, cmds, s, k

\* So what was asked for is the concatenation of what was written.
AskedIsFlat ==
    Asked = FlattenSeq(Chunks) /\ Chunks \in Seq(Seq(Bytes)) /\ Asked \in Seq(Bytes)

LEMMA AskedIs == FlowTypeOK /\ WrittenIsValid => AskedIsFlat
<1> SUFFICES ASSUME FlowTypeOK, WrittenIsValid
             PROVE  Asked = FlattenSeq(Chunks) /\ Chunks \in Seq(Seq(Bytes)) /\ Asked \in Seq(Bytes)
  BY DEF AskedIsFlat
<1> DEFINE n == Len(wrote) - mark
           lists == [i \in 1..n |-> CommandsOf[wrote[mark + i]]]
           keys(cmds) == FlattenSeq([i \in DOMAIN cmds |-> Keystrokes(cmds[i])])
           typing == [i \in DOMAIN lists |-> keys(lists[i])]
<1>1. n \in Nat /\ mark \in Nat /\ wrote \in Seq(Requests)
  BY DEF FlowTypeOK
<1>2. \A i \in 1..n : wrote[mark + i] \in Requests /\ AllValid(CommandsOf[wrote[mark + i]])
  <2> SUFFICES ASSUME NEW i \in 1..n
               PROVE  wrote[mark + i] \in Requests /\ AllValid(CommandsOf[wrote[mark + i]])
    OBVIOUS
  <2>1. mark + i \in 1..Len(wrote)
    BY <1>1
  <2> QED
    BY <1>1, <2>1, ElementOfSeq DEF WrittenIsValid
<1>3. Asked = FlattenSeq(typing)
  BY DEF Asked
<1>4. \A i \in 1..n : keys(lists[i]) = BuildStdinInput(CommandsOf[wrote[mark + i]])
  BY <1>2, ListIsKeystrokes
<1>5. typing = Chunks
  <2>1. DOMAIN lists = 1..n
    OBVIOUS
  <2> HIDE DEF lists, keys
  <2> QED
    BY <1>4, <2>1 DEF Chunks
<1>6. Chunks \in Seq(Seq(Bytes))
  <2>1. \A i \in 1..n : BuildStdinInput(CommandsOf[wrote[mark + i]]) \in Seq(Bytes)
    BY <1>2, ListIsKeystrokes
  <2> QED
    BY <1>1, <2>1, IsASeq DEF Chunks
<1> HIDE DEF typing
<1>7. FlattenSeq(Chunks) \in Seq(Bytes)
  <2>1. <<>> \in Seq(Bytes)
    OBVIOUS
  <2> QED
    BY <1>6, <2>1, FlattenSeqAppend
<1> QED
  BY <1>3, <1>5, <1>6, <1>7


-----------------------------------------------------------------------------
\* The steps that touch the input buffer and its histories; the others may stop the copying.
LEMMA InputSteps ==
    ASSUME FlowTypeOK, [Next]_vars
    PROVE  \/ StartDriver
           \/ CopyInput
           \/ \E q \in Requests : WriteCommands(q)
           \/ UNCHANGED inputVars /\ (pipe' => pipe)
<1>1. CASE StartRun \/ RequestStop \/ CancelRun \/ CopyInput
  BY <1>1 DEF StartRun, RequestStop, CancelRun, FlowTypeOK
<1>2. CASE WorkerStep
  BY <1>2 DEF WorkerStep, StartDriverFails, StopDriver, WorkerEnds, RefuseCommands, inputVars
<1>3. CASE ThreadStep
  BY <1>3 DEF ThreadStep, PopRequest, SkipMalformed, SubmitCommands, AwaitResult, SendReply,
       EndThread, workVars
<1>4. ASSUME NEW q \in Requests, RequesterStep(q)
      PROVE  UNCHANGED inputVars /\ (pipe' => pipe)
  BY <1>4 DEF RequesterStep, CheckReady, PushRight, ReceiveReply, GiveUp, ReplyExpires, workVars
<1>5. CASE UNCHANGED vars
  BY <1>5 DEF vars, workVars
<1> QED
  BY <1>1, <1>2, <1>3, <1>4, <1>5 DEF Next

LEMMA TypedFrame ==
    ASSUME TypedInv, UNCHANGED inputVars, pipe' => pipe
    PROVE  TypedInv'
<1>1. UNCHANGED <<buffer, typed, lost, wrote, mark>>
  BY DEF inputVars
<1>2. Asked' = Asked
  BY <1>1 DEF Asked
<1>3. BytesTypeOK'
  BY <1>1 DEF TypedInv, BytesTypeOK
<1>4. WrittenIsValid'
  BY <1>1 DEF TypedInv, WrittenIsValid
<1>5. InputIsAsked'
  <2>1. IsThinned(typed \o buffer, Asked)' = IsThinned(typed \o buffer, Asked)
    BY <1>1, <1>2 DEF IsThinned
  <2>2. IsSuffix(buffer, Asked)' = IsSuffix(buffer, Asked)
    BY <1>1, <1>2
  <2> QED
    BY <1>1, <1>2, <2>1, <2>2 DEF TypedInv, InputIsAsked
<1> QED
  BY <1>3, <1>4, <1>5 DEF TypedInv

LEMMA StartTyped ==
    ASSUME FlowTypeOK, FlowTypeOK', TypedInv, StartDriver
    PROVE  TypedInv'
<1>1. buffer' = <<>> /\ typed' = <<>> /\ mark' = Len(wrote) /\ UNCHANGED wrote
  BY DEF StartDriver, StartsTyping
<1>2. BytesTypeOK'
  BY <1>1, IPCAssumption DEF BytesTypeOK
<1>3. WrittenIsValid'
  BY <1>1 DEF TypedInv, WrittenIsValid
<1>4. Asked' = <<>>
  <2>1. Asked' = FlattenSeq(Chunks')
    <3>1. AskedIsFlat'
      BY <1>3, AskedIs, PTL
    <3> QED
      BY <3>1 DEF AskedIsFlat
  <2>2. Chunks' = <<>>
    <3>1. Len(wrote') - mark' = 0
      BY <1>1 DEF FlowTypeOK
    <3> QED
      BY <3>1 DEF Chunks
  <2> QED
    BY <2>1, <2>2, FlattenSeqDef
<1>5. (typed \o buffer)' = <<>>
  BY <1>1
<1>6. IsThinned(<<>>, <<>>) /\ IsSuffix(<<>>, <<>>)
  <2>1. <<>> \in Seq(Bytes) /\ Len(<<>>) = 0
    OBVIOUS
  <2>2. IsThinned(<<>>, <<>>)
    BY <2>1, ThinnedItself
  <2>3. IsSuffix(<<>>, <<>>)
    BY <2>1, EmptySuffix
  <2> QED
    BY <2>2, <2>3
<1> QED
  BY <1>1, <1>2, <1>3, <1>4, <1>5, <1>6 DEF TypedInv, InputIsAsked

LEMMA CopyTyped ==
    ASSUME FlowTypeOK, TypedInv, CopyInput
    PROVE  TypedInv'
<1>1. buffer' = <<>> /\ typed' = typed \o buffer /\ UNCHANGED <<lost, wrote, mark>> /\ pipe
  BY DEF CopyInput
<1>2. buffer \in Seq(Bytes) /\ typed \in Seq(Bytes) /\ Asked \in Seq(Bytes)
  BY AskedIs DEF AskedIsFlat, TypedInv, BytesTypeOK
<1>3. typed \o buffer \in Seq(Bytes) /\ (typed \o buffer) \o <<>> = typed \o buffer
  BY <1>2, ConcatProperties, ConcatEmptySeq
<1>4. BytesTypeOK'
  BY <1>1, <1>3, IPCAssumption DEF BytesTypeOK
<1>5. WrittenIsValid'
  BY <1>1 DEF TypedInv, WrittenIsValid
<1>6. Asked' = Asked
  BY <1>1 DEF Asked
<1>7. IsSuffix(<<>>, Asked)
  BY <1>2, EmptySuffix
<1>8. (typed \o buffer)' = typed \o buffer
  BY <1>1, <1>3
<1>9. InputIsAsked'
  <2>1. IsThinned(typed \o buffer, Asked) /\ (~lost => typed \o buffer = Asked)
    BY <1>1 DEF TypedInv, InputIsAsked
  <2> QED
    BY <1>1, <1>6, <1>7, <1>8, <2>1 DEF InputIsAsked
<1> QED
  BY <1>4, <1>5, <1>9 DEF TypedInv

LEMMA WriteTyped ==
    ASSUME FlowTypeOK, FlowTypeOK', TypedInv, NEW q \in Requests, WriteCommands(q)
    PROVE  TypedInv'
<1> DEFINE x == BuildStdinInput(CommandsOf[q])
           all == buffer \o x
<1>1. /\ AllValid(CommandsOf[q]) /\ wrote' = Append(wrote, q)
      /\ buffer' = Newest(all) /\ lost' = (lost \/ Len(all) > InputCap)
      /\ UNCHANGED <<pipe, typed, mark>>
  BY DEF WriteCommands
<1>2. /\ buffer \in Seq(Bytes) /\ typed \in Seq(Bytes) /\ Len(buffer) <= InputCap
      /\ x \in Seq(Bytes)
  BY <1>1, ListIsKeystrokes DEF TypedInv, BytesTypeOK
<1> HIDE DEF x
<1>3. all \in Seq(Bytes)
  BY <1>2, ConcatProperties
<1>4. BytesTypeOK'
  <2> HIDE DEF all
  <2>1. InputCap \in Nat /\ Len(all) \in Nat
    BY <1>3, IPCAssumption
  <2>2. Newest(all) \in Seq(Bytes) /\ Len(Newest(all)) <= InputCap
    BY <1>3, <2>1, NewestIs
  <2> QED
    BY <1>1, <1>2, <2>2 DEF BytesTypeOK
<1>5. wrote \in Seq(Requests) /\ mark \in 0..Len(wrote) /\ Len(wrote) \in Nat
  BY DEF FlowTypeOK
<1>6. /\ Len(wrote') = Len(wrote) + 1
      /\ \A i \in 1..Len(wrote) : wrote'[i] = wrote[i]
      /\ wrote'[Len(wrote) + 1] = q
  BY <1>1, <1>5, AppendProperties
<1>7. WrittenIsValid'
  <2> SUFFICES ASSUME NEW i \in 1..(Len(wrote) + 1)
               PROVE  AllValid(CommandsOf[wrote'[i]])
    BY <1>1, <1>5, <1>6, AppendProperties DEF WrittenIsValid
  <2>1. CASE i \in 1..Len(wrote)
    BY <1>6, <2>1 DEF TypedInv, WrittenIsValid
  <2>2. CASE i = Len(wrote) + 1
    BY <1>1, <1>6, <2>2
  <2> QED
    BY <1>5, <2>1, <2>2
<1>8. Asked \in Seq(Bytes) /\ Asked' = Asked \o x
  <2>1. Asked = FlattenSeq(Chunks) /\ Chunks \in Seq(Seq(Bytes)) /\ Asked \in Seq(Bytes)
    BY AskedIs DEF AskedIsFlat, TypedInv
  <2>2. Asked' = FlattenSeq(Chunks') /\ Chunks' \in Seq(Seq(Bytes))
    <3>1. AskedIsFlat'
      BY <1>7, AskedIs, PTL
    <3> QED
      BY <3>1 DEF AskedIsFlat
  <2>3. Chunks' = Append(Chunks, x)
    <3> DEFINE n == Len(wrote) - mark
    <3>1. n \in Nat /\ Len(wrote') - mark' = n + 1
      BY <1>1, <1>5, <1>6
    <3>2. /\ Len(Chunks) = n
          /\ \A i \in 1..n : Chunks[i] = BuildStdinInput(CommandsOf[wrote[mark + i]])
      BY <3>1 DEF Chunks
    <3>5. Chunks' = [i \in 1..(n + 1) |-> BuildStdinInput(CommandsOf[wrote'[mark + i]])]
      BY <1>1, <3>1 DEF Chunks
    <3>6. /\ Len(Chunks') = n + 1
          /\ \A i \in 1..(n + 1) : Chunks'[i] = BuildStdinInput(CommandsOf[wrote'[mark + i]])
      BY <3>1, <3>5
    <3> HIDE DEF n
    <3>3. /\ Append(Chunks, x) \in Seq(Seq(Bytes)) /\ Len(Append(Chunks, x)) = n + 1
          /\ \A i \in 1..n : Append(Chunks, x)[i] = Chunks[i]
          /\ Append(Chunks, x)[n + 1] = x
      BY <1>2, <2>1, <3>2, AppendProperties
    <3>4. ASSUME NEW i \in 1..(n + 1) PROVE Chunks'[i] = Append(Chunks, x)[i]
      <4>1. CASE i \in 1..n
        <5>1. mark + i \in 1..Len(wrote)
          BY <1>5, <3>1, <4>1 DEF n
        <5>2. wrote'[mark + i] = wrote[mark + i]
          BY <1>6, <5>1
        <5> QED
          BY <3>2, <3>3, <3>6, <4>1, <5>2
      <4>2. CASE i = n + 1
        <5>1. mark + i = Len(wrote) + 1
          BY <1>5, <3>1, <4>2 DEF n
        <5> QED
          BY <1>6, <3>3, <3>6, <4>2, <5>1 DEF x
      <4>3. i \in 1..n \/ i = n + 1
        BY <3>1
      <4> QED
        BY <4>1, <4>2, <4>3, Zenon
    <3> QED
      BY <2>2, <3>3, <3>4, <3>6, SeqEqual
  <2> QED
    BY <1>2, <2>1, <2>2, <2>3, FlattenSeqAppend
<1>9. ASSUME pipe' PROVE InputIsAsked'
  <2>1. IsThinned(typed \o buffer, Asked) /\ (~lost => typed \o buffer = Asked) /\ IsSuffix(buffer, Asked)
    BY <1>1, <1>9 DEF TypedInv, InputIsAsked
  <2>2. typed \o buffer \in Seq(Bytes) /\ (typed \o buffer) \o x = typed \o all
    BY <1>2, ConcatProperties, ConcatAssociative
  <2>3. IsThinned(typed \o all, Asked \o x)
    BY <1>2, <1>8, <2>1, <2>2, ThinnedConcat
  <2>4. IsThinned(typed \o Newest(all), Asked \o x)
    <3>1. Asked \o x \in Seq(Bytes)
      BY <1>2, <1>8, ConcatProperties
    <3> QED
      BY <1>2, <1>3, <2>3, <3>1, ThinnedNewest
  <2>5. ~lost' => typed \o Newest(all) = Asked \o x
    <3> SUFFICES ASSUME ~lost' PROVE typed \o Newest(all) = Asked \o x
      OBVIOUS
    <3> HIDE DEF all
    <3>1. ~lost /\ Len(all) <= InputCap
      <4>1. InputCap \in Nat /\ Len(all) \in Nat
        BY <1>3, IPCAssumption
      <4>2. ~lost /\ ~(Len(all) > InputCap)
        BY <1>1, Zenon
      <4> QED
        BY <4>1, <4>2
    <3>2. Newest(all) = all
      BY <1>3, <3>1, NewestIs
    <3> QED
      BY <2>1, <2>2, <3>1, <3>2
  <2>6. IsSuffix(Newest(all), Asked \o x)
    BY <1>2, <1>8, <2>1, SuffixNewest
  <2> HIDE DEF all
  <2>7. (typed \o buffer)' = typed \o Newest(all)
    BY <1>1
  <2> QED
    BY <1>1, <1>8, <2>4, <2>5, <2>6, <2>7 DEF InputIsAsked
<1> QED
  BY <1>4, <1>7, <1>9 DEF TypedInv, InputIsAsked

LEMMA NextTyped == FlowTypeOK /\ FlowTypeOK' /\ TypedInv /\ [Next]_vars => TypedInv'
<1> SUFFICES ASSUME FlowTypeOK, FlowTypeOK', TypedInv, [Next]_vars PROVE TypedInv'
  OBVIOUS
<1> QED
  BY InputSteps, TypedFrame, StartTyped, CopyTyped, WriteTyped

LEMMA InitTyped == Init => TypedInv
<1>1. <<>> \in Seq(Bytes) /\ Len(<<>>) = 0
  OBVIOUS
<1> QED
  BY <1>1, IPCAssumption DEF Init, TypedInv, BytesTypeOK, WrittenIsValid, InputIsAsked

LEMMA TypedInvariant == Spec => [](FlowTypeOK /\ TypedInv)
<1>1. FlowTypeOK /\ FlowInv /\ [Next]_vars => FlowTypeOK'
  BY NextTypes DEF FlowInv
<1> QED
  BY <1>1, InitFlow, NextFlow, InitTyped, NextTyped, PTL DEF Spec

\* All variables are of their types; the input buffer never holds more than its capacity.
THEOREM CommandsTyped == Spec => []IPCTypeOK
<1>1. FlowTypeOK /\ TypedInv => IPCTypeOK
  BY DEF TypedInv, BytesTypeOK, IPCTypeOK
<1> QED
  BY <1>1, TypedInvariant, PTL

\* While a run's driver copies, its command has been given, or has yet to read, the
\* keystrokes of the requests that were written since it started, in their order; only bytes
\* that an overflow of the ring dropped are missing, and what is unread is the newest.
THEOREM CommandIsTyped == Spec => []TypedAsAsked
<1>1. TypedInv => TypedAsAsked
  BY DEF TypedInv, InputIsAsked, TypedAsAsked
<1> QED
  BY <1>1, TypedInvariant, PTL

=============================================================================
