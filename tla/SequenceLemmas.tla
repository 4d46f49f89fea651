--------------------------- MODULE SequenceLemmas ---------------------------
(***************************************************************************)
(* Facts that several proofs need and the library does not state: what     *)
(* RemoveAt leaves of a queue that somebody left, the elements of the      *)
(* sequences that are made from others, and, from the fact that a set of   *)
(* naturals has a least element, what a loop that is written as a          *)
(* recursive function computes.                                            *)
(***************************************************************************)
EXTENDS SequencesExt, SequenceTheorems, WellFoundedInduction, TLAPS

\* What RemoveAt yields, element by element.
LEMMA RemoveAtElements ==
  ASSUME NEW S, NEW s \in Seq(S), NEW i \in 1..Len(s)
  PROVE  /\ RemoveAt(s, i) \in Seq(S)
         /\ Len(RemoveAt(s, i)) = Len(s) - 1
         /\ \A j \in 1..(Len(s) - 1) :
               RemoveAt(s, i)[j] = IF j < i THEN s[j] ELSE s[j + 1]
<1> DEFINE before == SubSeq(s, 1, i - 1)
           after  == SubSeq(s, i + 1, Len(s))
<1>0. Len(s) \in Nat /\ \A j \in 1..Len(s) : s[j] \in S
  BY ElementOfSeq, LenProperties
<1>1. /\ before \in Seq(S)
      /\ Len(before) = i - 1
      /\ \A j \in 1..(i - 1) : before[j] = s[j]
  <2>1. i - 1 \in Int /\ \A j \in 1..(i - 1) : s[j] \in S
    BY <1>0
  <2>2. /\ before \in Seq(S)
        /\ Len(before) = IF 1 <= i - 1 THEN (i - 1) - 1 + 1 ELSE 0
        /\ \A j \in 1..((i - 1) - 1 + 1) : before[j] = s[1 + j - 1]
    BY <2>1, SubSeqProperties
  <2> HIDE DEF before
  <2> QED
    BY <2>2, <1>0
<1>2. /\ after \in Seq(S)
      /\ Len(after) = Len(s) - i
      /\ \A j \in 1..(Len(s) - i) : after[j] = s[i + j]
  <2>1. i + 1 \in Int /\ Len(s) \in Int /\ \A j \in (i + 1)..Len(s) : s[j] \in S
    BY <1>0
  <2>2. /\ after \in Seq(S)
        /\ Len(after) = IF i + 1 <= Len(s) THEN Len(s) - (i + 1) + 1 ELSE 0
        /\ \A j \in 1..(Len(s) - (i + 1) + 1) : after[j] = s[(i + 1) + j - 1]
    BY <2>1, SubSeqProperties
  <2> HIDE DEF after
  <2> QED
    BY <2>2, <1>0
<1>3. RemoveAt(s, i) = before \o after
  BY DEF RemoveAt
<1> HIDE DEF before, after
<1>4. /\ before \o after \in Seq(S)
      /\ Len(before \o after) = Len(before) + Len(after)
      /\ \A j \in 1..(Len(before) + Len(after)) :
            (before \o after)[j] = IF j <= Len(before) THEN before[j]
                                   ELSE after[j - Len(before)]
  BY <1>1, <1>2, ConcatProperties
<1> QED
  BY <1>0, <1>1, <1>2, <1>3, <1>4

\* Who was there and was not removed is there still; nobody is added.
LEMMA RemoveAtMembers ==
  ASSUME NEW S, NEW s \in Seq(S), NEW i \in 1..Len(s)
  PROVE  /\ \A j \in 1..Len(s) : j # i =>
               \E n \in 1..Len(RemoveAt(s, i)) : RemoveAt(s, i)[n] = s[j]
         /\ \A n \in 1..Len(RemoveAt(s, i)) :
               \E j \in 1..Len(s) : RemoveAt(s, i)[n] = s[j]
<1> DEFINE r == RemoveAt(s, i)
<1>0. Len(s) \in Nat
  BY LenProperties
<1>1. /\ Len(r) = Len(s) - 1
      /\ \A j \in 1..(Len(s) - 1) : r[j] = IF j < i THEN s[j] ELSE s[j + 1]
  BY RemoveAtElements
<1> HIDE DEF r
<1>2. ASSUME NEW j \in 1..Len(s), j # i PROVE \E n \in 1..Len(r) : r[n] = s[j]
  <2>1. CASE j < i
    BY <1>0, <1>1, <2>1
  <2>2. CASE j > i
    <3>1. j - 1 \in 1..Len(r) /\ r[j - 1] = s[j]
      BY <1>0, <1>1, <2>2
    <3> QED
      BY <3>1
  <2> QED
    BY <1>0, <1>2, <2>1, <2>2
<1>3. ASSUME NEW n \in 1..Len(r) PROVE \E j \in 1..Len(s) : r[n] = s[j]
  <2>1. CASE n < i
    BY <1>0, <1>1, <2>1
  <2>2. CASE ~(n < i)
    <3>1. n + 1 \in 1..Len(s) /\ r[n] = s[n + 1]
      BY <1>0, <1>1, <2>2
    <3> QED
      BY <3>1
  <2> QED
    BY <2>1, <2>2
<1> QED
  BY <1>2, <1>3 DEF r

\* Removing from the tail of a sequence is removing from the sequence.
LEMMA RemoveAtTail ==
  ASSUME NEW S, NEW b \in S, NEW s \in Seq(S), NEW i \in 1..Len(s)
  PROVE  /\ i + 1 \in 1..Len(<<b>> \o s)
         /\ (<<b>> \o s)[i + 1] = s[i]
         /\ <<b>> \o RemoveAt(s, i) = RemoveAt(<<b>> \o s, i + 1)
<1> DEFINE q == <<b>> \o s
           r == RemoveAt(s, i)
           p == <<b>> \o r
<1>0. Len(s) \in Nat /\ <<b>> \in Seq(S) /\ Len(<<b>>) = 1 /\ <<b>>[1] = b
  BY LenProperties
<1>1. /\ q \in Seq(S) /\ Len(q) = 1 + Len(s)
      /\ \A j \in 1..(1 + Len(s)) : q[j] = IF j <= 1 THEN <<b>>[j] ELSE s[j - 1]
  BY <1>0, ConcatProperties
<1>2. /\ r \in Seq(S) /\ Len(r) = Len(s) - 1
      /\ \A j \in 1..(Len(s) - 1) : r[j] = IF j < i THEN s[j] ELSE s[j + 1]
  BY RemoveAtElements
<1> HIDE DEF q, r
<1>3. /\ p \in Seq(S) /\ Len(p) = 1 + Len(r)
      /\ \A j \in 1..(1 + Len(r)) : p[j] = IF j <= 1 THEN <<b>>[j] ELSE r[j - 1]
  BY <1>0, <1>2, ConcatProperties
<1>4. i + 1 \in 1..Len(q) /\ q[i + 1] = s[i]
  BY <1>0, <1>1
<1>5. /\ RemoveAt(q, i + 1) \in Seq(S)
      /\ Len(RemoveAt(q, i + 1)) = Len(q) - 1
      /\ \A j \in 1..(Len(q) - 1) :
            RemoveAt(q, i + 1)[j] = IF j < i + 1 THEN q[j] ELSE q[j + 1]
  BY <1>1, <1>4, RemoveAtElements
<1> HIDE DEF p
<1>6. Len(p) = Len(RemoveAt(q, i + 1))
  BY <1>0, <1>1, <1>2, <1>3, <1>5
<1>7. ASSUME NEW j \in 1..Len(p) PROVE p[j] = RemoveAt(q, i + 1)[j]
  <2>1. CASE j = 1
    BY <1>0, <1>1, <1>2, <1>3, <1>5, <2>1
  <2>2. CASE j # 1
    <3>1. j - 1 \in 1..(Len(s) - 1) /\ j \in 1..(1 + Len(r)) /\ j \in 1..(Len(q) - 1)
      BY <1>0, <1>1, <1>2, <1>3, <2>2
    <3>2. p[j] = IF j - 1 < i THEN s[j - 1] ELSE s[j]
      BY <3>1, <1>0, <1>2, <1>3, <2>2
    <3>3. q[j] = s[j - 1] /\ q[j + 1] = s[j]
      BY <3>1, <1>0, <1>1, <2>2
    <3>4. RemoveAt(q, i + 1)[j] = IF j < i + 1 THEN q[j] ELSE q[j + 1]
      BY <3>1, <1>5
    <3> QED
      BY <3>2, <3>3, <3>4, <1>0
  <2> QED
    BY <2>1, <2>2
<1>8. p = RemoveAt(q, i + 1)
  BY <1>3, <1>5, <1>6, <1>7, SeqEqual
<1> QED
  BY <1>4, <1>8 DEF p, q, r

\* A sequence is its head and its tail.
LEMMA HeadAndTail ==
  ASSUME NEW S, NEW s \in Seq(S), s # <<>>
  PROVE  <<Head(s)>> \o Tail(s) = s
<1>1. Len(s) \in Nat /\ Len(s) # 0 /\ Head(s) = s[1]
  BY LenProperties, EmptySeq
<1>2. /\ Head(s) \in S /\ Tail(s) \in Seq(S) /\ Len(Tail(s)) = Len(s) - 1
      /\ \A i \in 1..Len(Tail(s)) : Tail(s)[i] = s[i + 1]
  BY HeadTailProperties
<1>3. <<Head(s)>> \in Seq(S) /\ Len(<<Head(s)>>) = 1 /\ <<Head(s)>>[1] = Head(s)
  BY <1>2
<1> DEFINE c == <<Head(s)>> \o Tail(s)
<1>4. /\ c \in Seq(S) /\ Len(c) = 1 + Len(Tail(s))
      /\ \A i \in 1..(1 + Len(Tail(s))) :
            c[i] = IF i <= 1 THEN <<Head(s)>>[i] ELSE Tail(s)[i - 1]
  BY <1>2, <1>3, ConcatProperties
<1> HIDE DEF c
<1>5. Len(c) = Len(s)
  BY <1>1, <1>2, <1>4
<1>6. ASSUME NEW i \in 1..Len(c) PROVE c[i] = s[i]
  <2>1. CASE i = 1
    BY <1>1, <1>3, <1>4, <1>5, <1>2, <2>1
  <2>2. CASE i # 1
    <3>1. i - 1 \in 1..Len(Tail(s)) /\ i \in 1..(1 + Len(Tail(s))) /\ ~(i <= 1)
      BY <1>1, <1>2, <1>5, <2>2
    <3> QED
      BY <1>1, <1>2, <1>4, <3>1
  <2> QED
    BY <2>1, <2>2
<1>7. c = s
  BY <1>4, <1>5, <1>6, SeqEqual
<1> QED
  BY <1>7 DEF c

\* A new element comes last in a sequence of distinct ones.
LEMMA AppendNew ==
  ASSUME NEW S, NEW s \in Seq(S), IsInjective(s), NEW e \in S, ~Contains(s, e)
  PROVE  /\ Append(s, e) \in Seq(S)
         /\ IsInjective(Append(s, e))
         /\ \A x : Contains(Append(s, e), x) <=> Contains(s, x) \/ x = e
         /\ Len(Append(s, e)) = Len(s) + 1
<1> DEFINE more == Append(s, e)
           N == Len(s)
<1>1. /\ N \in Nat /\ more \in Seq(S) /\ Len(more) = N + 1
      /\ \A i \in 1..N : more[i] = s[i]
      /\ more[N + 1] = e
  BY LenProperties, AppendProperties
<1>2. DOMAIN more = 1..(N + 1) /\ DOMAIN s = 1..N
  BY <1>1, LenProperties
<1>3. \A i \in 1..(N + 1) : i \in 1..N \/ i = N + 1
  BY <1>1
<1>4. N + 1 \in 1..(N + 1) /\ \A i \in 1..N : i \in 1..(N + 1)
  BY <1>1
<1> HIDE DEF more
<1>5. IsInjective(more)
  BY <1>1, <1>2, <1>3 DEF IsInjective, Contains
<1>6. \A x : Contains(more, x) <=> Contains(s, x) \/ x = e
  BY <1>1, <1>3, <1>4 DEF Contains
<1> QED
  BY <1>1, <1>5, <1>6 DEF more

\* One of them leaves.
LEMMA RemoveAtOnce ==
  ASSUME NEW S, NEW s \in Seq(S), IsInjective(s), NEW p \in 1..Len(s)
  PROVE  /\ IsInjective(RemoveAt(s, p))
         /\ \A x : Contains(RemoveAt(s, p), x) <=> Contains(s, x) /\ x # s[p]
<1> DEFINE rest == RemoveAt(s, p)
           N == Len(s)
<1>6. /\ rest \in Seq(S) /\ Len(rest) = N - 1 /\ N \in Nat
      /\ \A j \in 1..(N - 1) : rest[j] = IF j < p THEN s[j] ELSE s[j + 1]
  BY RemoveAtElements, LenProperties
<1>8. DOMAIN rest = 1..(N - 1) /\ DOMAIN s = 1..N
  BY <1>6, LenProperties
<1> DEFINE at(j) == IF j < p THEN j ELSE j + 1
<1>9. /\ \A j \in 1..(N - 1) : at(j) \in 1..N /\ at(j) # p /\ rest[j] = s[at(j)]
      /\ \A i1, j \in 1..(N - 1) : at(i1) = at(j) => i1 = j
      /\ \A j \in 1..N : j # p => \E n \in 1..(N - 1) : at(n) = j
  <2>1. \A j \in 1..(N - 1) : at(j) \in 1..N /\ at(j) # p /\ rest[j] = s[at(j)]
    BY <1>6
  <2>2. \A i1, j \in 1..(N - 1) : at(i1) = at(j) => i1 = j
    BY <1>6
  <2>3. ASSUME NEW j \in 1..N, j # p PROVE \E n \in 1..(N - 1) : at(n) = j
    <3>1. CASE j < p
      BY <1>6, <3>1
    <3>2. CASE j > p
      <4>1. j - 1 \in 1..(N - 1) /\ at(j - 1) = j
        BY <1>6, <3>2
      <4> QED
        BY <4>1
    <3> QED
      BY <1>6, <2>3, <3>1, <3>2
  <2> QED
    BY <2>1, <2>2, <2>3
<1> HIDE DEF rest, at
<1>10. IsInjective(rest)
  <2> SUFFICES ASSUME NEW i1 \in 1..(N - 1), NEW j \in 1..(N - 1), rest[i1] = rest[j]
               PROVE  i1 = j
    BY <1>8, Zenon DEF IsInjective
  <2>1. s[at(i1)] = s[at(j)] /\ at(i1) \in DOMAIN s /\ at(j) \in DOMAIN s
    BY <1>8, <1>9
  <2>2. at(i1) = at(j)
    BY <2>1, Zenon DEF IsInjective
  <2> QED
    BY <1>9, <2>2
<1>11. \A x : Contains(rest, x) <=> Contains(s, x) /\ x # s[p]
  <2>1. ASSUME NEW x, Contains(rest, x) PROVE Contains(s, x) /\ x # s[p]
    <3>1. PICK n \in 1..(N - 1) : rest[n] = x
      BY <1>6, <2>1 DEF Contains
    <3>2. x = s[at(n)] /\ at(n) \in 1..N /\ at(n) # p
      BY <1>9, <3>1
    <3>3. at(n) \in DOMAIN s /\ p \in DOMAIN s
      BY <1>8, <3>2
    <3>4. x # s[p]
      BY <3>2, <3>3 DEF IsInjective
    <3> QED
      BY <3>2, <3>4 DEF Contains
  <2>2. ASSUME NEW x, Contains(s, x), x # s[p] PROVE Contains(rest, x)
    <3>1. PICK i1 \in 1..N : s[i1] = x
      BY <2>2 DEF Contains
    <3>2. PICK n \in 1..(N - 1) : at(n) = i1
      BY <1>9, <2>2, <3>1
    <3>3. rest[n] = x /\ n \in 1..Len(rest)
      BY <1>6, <1>9, <3>1, <3>2
    <3> QED
      BY <3>3 DEF Contains
  <2> QED
    BY <2>1, <2>2
<1> QED
  BY <1>10, <1>11 DEF rest

\* Tail removes the first.
LEMMA TailRemoves ==
  ASSUME NEW S, NEW s \in Seq(S), s # <<>>
  PROVE  /\ 1 \in 1..Len(s) /\ Head(s) = s[1] /\ Tail(s) \in Seq(S)
         /\ Tail(s) = RemoveAt(s, 1)
<1>1. /\ Len(s) \in Nat /\ Len(s) # 0 /\ Tail(s) \in Seq(S) /\ Len(Tail(s)) = Len(s) - 1
      /\ \A j \in 1..Len(Tail(s)) : Tail(s)[j] = s[j + 1]
  BY HeadTailProperties, LenProperties, EmptySeq
<1>2. 1 \in 1..Len(s) /\ Head(s) = s[1]
  BY <1>1
<1> DEFINE r == RemoveAt(s, 1)
           t == Tail(s)
<1>3. /\ r \in Seq(S) /\ Len(r) = Len(s) - 1
      /\ \A j \in 1..(Len(s) - 1) : r[j] = IF j < 1 THEN s[j] ELSE s[j + 1]
  BY <1>2, RemoveAtElements
<1> HIDE DEF r, t
<1>4. t \in Seq(S) /\ Len(t) = Len(r) /\ \A j \in 1..Len(t) : t[j] = r[j]
  BY <1>1, <1>3 DEF t
<1>5. t = r
  BY <1>3, <1>4, SeqEqual
<1> QED
  BY <1>1, <1>2, <1>5 DEF r, t

-----------------------------------------------------------------------------
(* Induction.                                                               *)

\* The order of the naturals, as a relation.
Below == {ss \in Nat \X Nat : ss[1] < ss[2]}

\* A set of naturals with an element has a least one.
LEMMA LeastElement ==
  ASSUME NEW T, T \subseteq Nat, T # {}
  PROVE  \E n \in T : \A m \in T : ~(m < n)
<1>1. IsWellFoundedOn(Below, Nat)
  BY NatLessThanWellFounded DEF OpToRel, Below
<1>2. \E n \in T : \A m \in T : ~(<<m, n>> \in Below)
  BY <1>1, WFMin
<1>3. \A i, j \in Nat : <<i, j>> \in Below <=> i < j
  BY DEF Below
<1> QED
  BY <1>2, <1>3

\* A set of naturals that has 0, and n when it has n - 1, has them all up to N.
LEMMA Induction ==
  ASSUME NEW N \in Nat, NEW T, 0 \in T, \A n \in 1..N : n - 1 \in T => n \in T
  PROVE  0..N \subseteq T
<1> DEFINE missing == {n \in 0..N : n \notin T}
<1> SUFFICES ASSUME missing # {} PROVE FALSE
  OBVIOUS
<1>1. missing \subseteq Nat
  OBVIOUS
<1>2. PICK n \in missing : \A m \in missing : ~(m < n)
  BY <1>1, LeastElement
<1>3. n \in 1..N /\ n - 1 \in 0..N /\ n - 1 < n
  BY <1>2
<1>4. n - 1 \notin missing
  BY <1>2, <1>3
<1> QED
  BY <1>2, <1>3, <1>4

\* The states of a loop of N rounds: f[n] is the one after round n.
IsHistory(f, N, S, base, step) ==
    /\ f \in [0..N -> S]
    /\ f[0] = base
    /\ \A n \in 1..N : f[n] = step[<<n, f[n - 1]>>]

\* Every loop has a history.
LEMMA Loop ==
  ASSUME NEW N \in Nat, NEW S, NEW base \in S, NEW step \in [(1..N) \X S -> S]
  PROVE  \E f : IsHistory(f, N, S, base, step)
<1> DEFINE T == {m \in 0..N : \E f : IsHistory(f, m, S, base, step)}
<1>1. 0 \in T
  <2>1. IsHistory([i \in 0..0 |-> base], 0, S, base, step)
    BY DEF IsHistory
  <2>2. 0 \in 0..N
    OBVIOUS
  <2> QED
    BY <2>1, <2>2
<1>2. ASSUME NEW m \in 1..N, m - 1 \in T PROVE m \in T
  <2>1. PICK f : IsHistory(f, m - 1, S, base, step)
    <3>1. \E f : IsHistory(f, m - 1, S, base, step)
      BY <1>2
    <3> QED
      BY <3>1
  <2> DEFINE g == [i \in 0..m |-> IF i = m THEN step[<<m, f[m - 1]>>] ELSE f[i]]
  <2>2. f[m - 1] \in S /\ step[<<m, f[m - 1]>>] \in S
    <3>1. m - 1 \in 0..(m - 1) /\ m \in 1..N
      BY <1>2
    <3> QED
      BY <2>1, <3>1 DEF IsHistory
  <2>3. g \in [0..m -> S] /\ g[0] = base
    BY <2>1, <2>2 DEF IsHistory
  <2>4. ASSUME NEW n \in 1..m PROVE g[n] = step[<<n, g[n - 1]>>]
    <3>0. n - 1 \in 0..m /\ n - 1 # m
      OBVIOUS
    <3>1. g[n - 1] = f[n - 1]
      BY <3>0
    <3>2. CASE n = m
      <4>1. g[n] = step[<<n, f[n - 1]>>]
        BY <3>2
      <4> QED
        BY <3>1, <4>1
    <3>3. CASE n # m
      <4>1. n \in 1..(m - 1)
        BY <3>3
      <4>2. g[n] = f[n]
        BY <3>3
      <4> QED
        BY <4>1, <4>2, <3>1, <2>1 DEF IsHistory
    <3> QED
      BY <3>2, <3>3
  <2> HIDE DEF g
  <2>5. IsHistory(g, m, S, base, step)
    BY <2>3, <2>4 DEF IsHistory
  <2> QED
    BY <2>5
<1> HIDE DEF T
<1>3. N \in T
  BY <1>1, <1>2, Induction
<1> QED
  BY <1>3 DEF T

\* The elements of a sequence, and of the sequences that are made from others.
LEMMA ToSetOfSeq ==
  ASSUME NEW S, NEW s \in Seq(S)
  PROVE  /\ ToSet(s) = {s[i] : i \in 1..Len(s)}
         /\ ToSet(s) \subseteq S
         /\ ToSet(s) = {} <=> s = <<>>
<1>1. Len(s) \in Nat /\ DOMAIN s = 1..Len(s) /\ \A i \in 1..Len(s) : s[i] \in S
  BY LenProperties, ElementOfSeq
<1>2. s # <<>> => Len(s) # 0
  BY EmptySeq
<1>3. s = <<>> => Len(s) = 0
  BY EmptySeq
<1>4. s # <<>> => 1 \in 1..Len(s)
  BY <1>1, <1>2
<1>5. s = <<>> => 1..Len(s) = {}
  BY <1>3
<1>6. ToSet(s) = {s[i] : i \in 1..Len(s)}
  BY <1>1 DEF ToSet
<1> QED
  BY <1>1, <1>4, <1>5, <1>6

LEMMA ToSetOfAppend ==
  ASSUME NEW S, NEW s \in Seq(S), NEW x \in S
  PROVE  ToSet(Append(s, x)) = ToSet(s) \cup {x}
<1>1. Len(s) \in Nat
  BY LenProperties
<1>2. /\ Append(s, x) \in Seq(S)
      /\ Len(Append(s, x)) = Len(s) + 1
      /\ \A i \in 1..Len(s) : Append(s, x)[i] = s[i]
      /\ Append(s, x)[Len(s) + 1] = x
  BY AppendProperties
<1> DEFINE a == Append(s, x)
<1> HIDE DEF a
<1>3. ToSet(a) = {a[i] : i \in 1..Len(a)} /\ ToSet(s) = {s[i] : i \in 1..Len(s)}
  BY <1>2, ToSetOfSeq DEF a
<1>4. 1..Len(a) = (1..Len(s)) \cup {Len(s) + 1}
  BY <1>1, <1>2 DEF a
<1>5. \A i \in 1..Len(s) : a[i] = s[i]
  BY <1>2 DEF a
<1>6. a[Len(s) + 1] = x
  BY <1>2 DEF a
<1>7. ToSet(a) = ToSet(s) \cup {x}
  BY <1>3, <1>4, <1>5, <1>6
<1> QED
  BY <1>7 DEF a

LEMMA ToSetOfConcat ==
  ASSUME NEW S, NEW s \in Seq(S), NEW t \in Seq(S)
  PROVE  ToSet(s \o t) = ToSet(s) \cup ToSet(t)
<1>1. \A u : ToSet(u) = Range(u)
  BY DEF ToSet, Range
<1> QED
  BY <1>1, RangeConcatenation

\* FlattenSeq joins the sequences of a sequence.
LEMMA FlattenSeqMembers ==
  ASSUME NEW S, NEW ss \in Seq(Seq(S))
  PROVE  /\ FlattenSeq(ss) \in Seq(S)
         /\ ToSet(FlattenSeq(ss)) = UNION {ToSet(ss[i]) : i \in 1..Len(ss)}
<1> DEFINE N == Len(ss)
           Joins(n, s) == /\ s \in Seq(S)
                          /\ ToSet(s) = UNION {ToSet(ss[i]) : i \in 1..n}
           flatten[i \in 1..N] == IF i = 1 THEN ss[i] ELSE flatten[i - 1] \o ss[i]
<1>1. N \in Nat /\ \A i \in 1..N : ss[i] \in Seq(S)
  BY LenProperties, ElementOfSeq
<1>2. CASE N = 0
  <2>1. ss = <<>> /\ FlattenSeq(ss) = ss
    BY <1>2, EmptySeq, Zenon DEF FlattenSeq
  <2>2. ToSet(<<>>) = {} /\ <<>> \in Seq(S)
    BY EmptySeq, ToSetOfSeq
  <2>3. UNION {ToSet(ss[i]) : i \in 1..N} = {}
    BY <1>2
  <2> QED
    BY <2>1, <2>2, <2>3
<1>3. CASE N # 0
  <2>1. FlattenSeq(ss) = flatten[N]
    BY <1>3, Zenon DEF FlattenSeq
  <2>2. \E f : f = [i \in 1..N |-> IF i = 1 THEN ss[i] ELSE f[i - 1] \o ss[i]]
    <3> DEFINE step == [p \in (1..N) \X Seq(S) |-> p[2] \o ss[p[1]]]
    <3>1. step \in [(1..N) \X Seq(S) -> Seq(S)]
      BY <1>1, ConcatProperties
    <3>2. PICK f : IsHistory(f, N, Seq(S), <<>>, step)
      <4>1. <<>> \in Seq(S) /\ N \in Nat
        BY <1>1, EmptySeq
      <4> HIDE DEF step, N
      <4> QED
        BY <3>1, <4>1, Loop
    <3>3. ASSUME NEW n \in 1..N PROVE f[n - 1] \in Seq(S) /\ f[n] = f[n - 1] \o ss[n]
      <4>1. n - 1 \in 0..N
        BY <1>1
      <4>2. f[n - 1] \in Seq(S) /\ f[n] = step[<<n, f[n - 1]>>]
        BY <3>2, <4>1 DEF IsHistory
      <4> QED
        BY <4>2
    <3>4. f[1] = ss[1]
      <4>1. 1 \in 1..N /\ 1 - 1 = 0
        BY <1>1, <1>3
      <4>2. f[0] = <<>>
        BY <3>2 DEF IsHistory
      <4>3. f[1] = f[0] \o ss[1]
        <5> HIDE DEF N
        <5> QED
          BY <3>3, <4>1
      <4>4. ss[1] \in Seq(S)
        BY <1>1, <4>1
      <4>5. <<>> \o ss[1] = ss[1]
        BY <4>4, ConcatEmptySeq
      <4> QED
        BY <4>2, <4>3, <4>5
    <3> DEFINE g == [i \in 1..N |-> f[i]]
    <3>5. ASSUME NEW i \in 1..N PROVE g[i] = IF i = 1 THEN ss[i] ELSE g[i - 1] \o ss[i]
      <4>1. CASE i = 1
        BY <3>4, <4>1
      <4>2. CASE i # 1
        <5>1. i - 1 \in 1..N
          BY <1>1, <4>2
        <5> QED
          BY <3>3, <4>2, <5>1
      <4> QED
        BY <4>1, <4>2
    <3>6. g = [i \in 1..N |-> IF i = 1 THEN ss[i] ELSE g[i - 1] \o ss[i]]
      <4>1. DOMAIN g = 1..N /\ g = [i \in 1..N |-> g[i]]
        OBVIOUS
      <4> HIDE DEF g
      <4> QED
        BY <3>5, <4>1, Zenon
    <3> QED
      BY <3>6
  <2>3. flatten = [i \in 1..N |-> IF i = 1 THEN ss[i] ELSE flatten[i - 1] \o ss[i]]
    BY <2>2, Zenon
  <2> HIDE DEF flatten
  <2> DEFINE T == {n \in 0..N : n = 0 \/ Joins(n, flatten[n])}
  <2>4. ASSUME NEW n \in 1..N, n - 1 \in T PROVE n \in T
    <3>1. flatten[n] = IF n = 1 THEN ss[n] ELSE flatten[n - 1] \o ss[n]
      BY <2>3
    <3>2. CASE n = 1
      BY <1>1, <3>1, <3>2
    <3>3. CASE n # 1
      <4>1. Joins(n - 1, flatten[n - 1]) /\ ss[n] \in Seq(S)
        BY <1>1, <2>4, <3>3
      <4>2. flatten[n] \in Seq(S)
        BY <3>1, <3>3, <4>1, ConcatProperties
      <4>3. ToSet(flatten[n]) = ToSet(flatten[n - 1]) \cup ToSet(ss[n])
        BY <3>1, <3>3, <4>1, ToSetOfConcat
      <4>4. \A i : i \in 1..n <=> i \in 1..(n - 1) \/ i = n
        BY <1>1
      <4>5. ToSet(flatten[n]) = UNION {ToSet(ss[i]) : i \in 1..n}
        BY <4>1, <4>3, <4>4
      <4>6. Joins(n, flatten[n]) /\ n \in 0..N
        BY <4>2, <4>5
      <4> QED
        BY <4>6
    <3> QED
      BY <3>2, <3>3
  <2> HIDE DEF T
  <2>5. N \in T
    <3>1. 0 \in T
      BY <1>1 DEF T
    <3>2. \A n \in 1..N : n - 1 \in T => n \in T
      BY <2>4
    <3> HIDE DEF N
    <3>3. 0..N \subseteq T
      BY <1>1, <3>1, <3>2, Induction
    <3> QED
      BY <1>1, <3>3
  <2> QED
    BY <1>3, <2>1, <2>5 DEF T
<1> QED
  BY <1>2, <1>3

\* RemoveFirst removes one of the places of an element.
LEMMA RemoveFirstElement ==
  ASSUME NEW S, NEW s \in Seq(S), NEW e, NEW i \in 1..Len(s), s[i] = e
  PROVE  \E j \in 1..Len(s) : s[j] = e /\ RemoveFirst(s, e) = RemoveAt(s, j)
<1> DEFINE I == {j \in 1..Len(s) : s[j] = e}
           first == CHOOSE j \in I : \A k \in I : j <= k
<1>1. Len(s) \in Nat
  BY LenProperties
<1>2. I \subseteq Nat /\ I # {}
  BY <1>1
<1>3. \E j \in I : \A k \in I : j <= k
  <2>1. PICK j \in I : \A k \in I : ~(k < j)
    <3> HIDE DEF I
    <3> QED
      BY <1>2, LeastElement
  <2> QED
    BY <1>2, <2>1
<1>4. first \in I
  <2> HIDE DEF I
  <2> QED
    BY <1>3
<1>5. RemoveFirst(s, e) = RemoveAt(s, first)
  <2>1. RemoveFirst(s, e) = RemoveAt(s, SelectInSeq(s, LAMBDA v : v = e))
    BY DEF RemoveFirst
  <2>2. SelectInSeq(s, LAMBDA v : v = e) = first
    BY <1>2, Zenon DEF SelectInSeq, Min
  <2> QED
    BY <2>1, <2>2
<1> QED
  BY <1>4, <1>5

=============================================================================
