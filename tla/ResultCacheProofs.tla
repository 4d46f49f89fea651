------------------------- MODULE ResultCacheProofs --------------------------
(***************************************************************************)
(* Proofs about ResultCache, for every set of tasks, requests, results and *)
(* limits: no result with credentials is retained, an artifact is served   *)
(* only under its own digest, an address is given out only for what was    *)
(* retained, memory holds only what the store has accepted or returned,    *)
(* and the bytes it accounts for are those of its entries.                 *)
(*                                                                         *)
(* Memory: every entry is valid under its key (Clean), and the order and   *)
(* the bytes are those of the entries (Consistent), within the limits.     *)
(* BytesOf is a sum over the order, taken one key at a time by induction;  *)
(* what is touched, popped or evicted leaves the summands of the other     *)
(* keys alone, and the loop of evictions ends because the empty order is   *)
(* within every limit. Tasks: what each awaits tells what it was called    *)
(* with, and the store operation that is outstanding for it (Expected);    *)
(* there is one of them, in the queue or completed, and a completed one    *)
(* that succeeded was published (Accepted). That there is only one is why  *)
(* a task that resumes, or times out, leaves nothing behind that a later   *)
(* step could take for its next operation.                                 *)
(*                                                                         *)
(* The last sections prove that over OrderedStore the cache does only what *)
(* ResultCache allows.  Seen through the views of CacheOverStore, a step   *)
(* of a task is one of its two shapes with a new entry at the end of the   *)
(* queue or a refusal among the completions; a step of the service takes   *)
(* an operation from the head of the queue or one that was given up, or    *)
(* changes nothing that is seen.  ServiceInv says why the views show each  *)
(* operation once: what is in line has not ended, and a caller that was    *)
(* told nothing still waits at its place.                                  *)
(***************************************************************************)
EXTENDS CacheOverStore, SequenceLemmas, SequenceTheorems, TLAPS

-----------------------------------------------------------------------------
(* The memory.                                                              *)

\* The keys of a memory are those it holds something under, once each, and
\* current_bytes is what they hold.
Consistent(m) ==
    /\ m = [order |-> m.order, body |-> m.body, bytes |-> m.bytes]
    /\ m.body \in [Keys -> Bodies \cup {Absent}]
    /\ m.order \in Seq(Keys)
    /\ IsInjective(m.order)
    /\ \A k \in Keys : Holds(m, k) <=> Contains(m.order, k)
    /\ m.bytes = BytesOf(m, m.order)

WithinLimits(m) ==
    /\ Len(m.order) <= MaxSize
    /\ MaxBytes > 0 => m.bytes <= MaxBytes

Memory(m) == Consistent(m) /\ WithinLimits(m)

\* Every entry may be served under its key.
Clean(m) == Memory(m) /\ \A k \in Keys : Holds(m, k) => ~Invalid(k, m.body[k])

\* b is in the shared store, or there is none, or it was just read from it.
Shared(k, b) ==
    \/ ~persistent
    \/ <<k, b>> \in published
    \/ \E e \in ready : e.ok /\ e.value = b /\ call[e.task].key = k

\* m is a memory to which a step may change mem.
Acceptable(m) ==
    /\ Clean(m)
    /\ \A k \in Keys : m.body[k] \notin {mem.body[k], Absent} => Shared(k, m.body[k])

\* The sums of the first n of the keys.
Sums(sum, m, keys) ==
    /\ sum \in [0..Len(keys) -> Int]
    /\ sum[0] = 0
    /\ \A n \in 1..Len(keys) : sum[n] = sum[n - 1] + Size[m.body[keys[n]]]

\* m holds something under each of the keys.
Weighs(m, keys) == \A i \in 1..Len(keys) : m.body[keys[i]] \in Bodies

\* BytesOf is the last of these sums.
LEMMA BytesSummed ==
  ASSUME NEW m, NEW keys \in Seq(Keys), Weighs(m, keys)
  PROVE  \E sum : Sums(sum, m, keys) /\ BytesOf(m, keys) = sum[Len(keys)]
<1> DEFINE N == Len(keys)
           w(n) == Size[m.body[keys[n]]]
           sum[n \in 0..N] == IF n = 0 THEN 0 ELSE sum[n - 1] + w(n)
           step == [p \in (1..N) \X Int |-> p[2] + w(p[1])]
<1>1. N \in Nat /\ \A n \in 1..N : w(n) \in Nat
  BY CacheAssumption, LenProperties DEF Weighs, CacheAssumption
<1>2. BytesOf(m, keys) = sum[N]
  BY Zenon DEF BytesOf
<1>3. PICK f : IsHistory(f, N, Int, 0, step)
  <2>1. step \in [(1..N) \X Int -> Int] /\ 0 \in Int
    BY <1>1
  <2> HIDE DEF step, N
  <2> QED
    BY <1>1, <2>1, Loop
<1>4. \A n \in 1..N : f[n] = f[n - 1] + w(n)
  <2> SUFFICES ASSUME NEW n \in 1..N PROVE f[n] = f[n - 1] + w(n)
    OBVIOUS
  <2>1. n - 1 \in 0..N
    BY <1>1
  <2>2. f[n - 1] \in Int /\ f[n] = step[<<n, f[n - 1]>>]
    BY <1>3, <2>1 DEF IsHistory
  <2> QED
    BY <2>2
<1>5. f \in [0..N -> Int] /\ f = [n \in 0..N |-> f[n]] /\ f[0] = 0
  BY <1>3 DEF IsHistory
<1>6. \A n \in 0..N : f[n] = IF n = 0 THEN 0 ELSE f[n - 1] + w(n)
  <2>1. \A n \in 0..N : n = 0 \/ n \in 1..N
    BY <1>1
  <2> QED
    BY <1>4, <1>5, <2>1
<1>7. f = [n \in 0..N |-> IF n = 0 THEN 0 ELSE f[n - 1] + w(n)]
  BY <1>5, <1>6, Zenon
<1>8. sum = [n \in 0..N |-> IF n = 0 THEN 0 ELSE sum[n - 1] + w(n)]
  BY <1>7, Zenon
<1> HIDE DEF sum
<1>9. sum[0] = 0 /\ \A n \in 1..N : sum[n] = sum[n - 1] + w(n)
  <2>1. 0 \in 0..N /\ \A n \in 1..N : n \in 0..N /\ n # 0
    BY <1>1
  <2>2. \A n \in 0..N : sum[n] = IF n = 0 THEN 0 ELSE sum[n - 1] + w(n)
    BY <1>8, Zenon
  <2> QED
    BY <2>1, <2>2
<1>10. \A n \in 0..N : sum[n] \in Int
  <2> DEFINE T == {n \in 0..N : sum[n] \in Int}
  <2>1. 0 \in T
    BY <1>1, <1>9
  <2>2. \A n \in 1..N : n - 1 \in T => n \in T
    BY <1>1, <1>9
  <2>3. 0..N \subseteq T
    <3> HIDE DEF T, N
    <3> QED
      BY <1>1, <2>1, <2>2, Induction
  <2> QED
    BY <2>3
<1>11. sum \in [0..N -> Int]
  <2>1. DOMAIN sum = 0..N
    BY <1>8, Zenon
  <2>2. sum = [n \in 0..N |-> sum[n]]
    BY <1>8, <2>1, Zenon
  <2> QED
    BY <1>10, <2>2
<1> QED
  BY <1>2, <1>9, <1>11 DEF Sums

\* Every sum is that of one key less, and what is held under the key.
LEMMA Summands ==
  ASSUME NEW m, NEW keys \in Seq(Keys), Weighs(m, keys), NEW sum, Sums(sum, m, keys)
  PROVE  /\ \A n \in 0..Len(keys) : sum[n] \in Int
         /\ \A n \in 1..Len(keys) :
               /\ Size[m.body[keys[n]]] \in Int /\ sum[n - 1] \in Int
               /\ sum[n] = sum[n - 1] + Size[m.body[keys[n]]]
<1>1. \A b \in Bodies : Size[b] \in Int
  BY CacheAssumption DEF CacheAssumption
<1>2. \A n \in 1..Len(keys) : n - 1 \in 0..Len(keys)
  BY LenProperties
<1>3. \A n \in 1..Len(keys) : m.body[keys[n]] \in Bodies
  BY DEF Weighs
<1> QED
  BY <1>1, <1>2, <1>3 DEF Sums

\* Whatever adds the keys up gets BytesOf.
LEMMA BytesAre ==
  ASSUME NEW m, NEW keys \in Seq(Keys), Weighs(m, keys), NEW sum, Sums(sum, m, keys)
  PROVE  BytesOf(m, keys) = sum[Len(keys)]
<1> DEFINE N == Len(keys)
<1>1. N \in Nat
  BY LenProperties
<1>2. PICK f : Sums(f, m, keys) /\ BytesOf(m, keys) = f[N]
  BY BytesSummed
<1> DEFINE T == {n \in 0..N : f[n] = sum[n]}
<1>3. 0 \in T
  BY <1>1, <1>2 DEF Sums
<1>4. \A n \in 1..N : n - 1 \in T => n \in T
  BY <1>2 DEF Sums
<1>5. 0..N \subseteq T
  <2> HIDE DEF T, N
  <2> QED
    BY <1>1, <1>3, <1>4, Induction
<1> QED
  BY <1>1, <1>2, <1>5

\* What a memory that holds the same adds up to the same.
LEMMA BytesAgree ==
  ASSUME NEW m, NEW e, NEW keys \in Seq(Keys), Weighs(m, keys),
         \A i \in 1..Len(keys) : e.body[keys[i]] = m.body[keys[i]]
  PROVE  BytesOf(e, keys) = BytesOf(m, keys)
<1>1. PICK sum : Sums(sum, m, keys) /\ BytesOf(m, keys) = sum[Len(keys)]
  BY BytesSummed
<1>2. Weighs(e, keys) /\ Sums(sum, e, keys)
  BY <1>1 DEF Weighs, Sums
<1> QED
  BY <1>1, <1>2, BytesAre

\* One more key.
LEMMA BytesAppended ==
  ASSUME NEW m, NEW keys \in Seq(Keys), Weighs(m, keys),
         NEW k \in Keys, m.body[k] \in Bodies
  PROVE  /\ Weighs(m, Append(keys, k))
         /\ BytesOf(m, Append(keys, k)) = BytesOf(m, keys) + Size[m.body[k]]
<1> DEFINE N == Len(keys)
           more == Append(keys, k)
<1>1. /\ N \in Nat /\ more \in Seq(Keys) /\ Len(more) = N + 1
      /\ \A i \in 1..N : more[i] = keys[i]
      /\ more[N + 1] = k
  BY LenProperties, AppendProperties
<1>2. PICK sum : Sums(sum, m, keys) /\ BytesOf(m, keys) = sum[N]
  BY BytesSummed
<1>3. Size[m.body[k]] \in Int
  BY CacheAssumption DEF CacheAssumption
<1> DEFINE f == [n \in 0..(N + 1) |-> IF n = N + 1 THEN sum[N] + Size[m.body[k]] ELSE sum[n]]
<1> HIDE DEF more
<1>4. Weighs(m, more)
  BY <1>1 DEF Weighs
<1>5. Sums(f, m, more)
  <2>1. f \in [0..(N + 1) -> Int] /\ f[0] = 0
    BY <1>1, <1>2, <1>3 DEF Sums
  <2>2. ASSUME NEW n \in 1..(N + 1) PROVE f[n] = f[n - 1] + Size[m.body[more[n]]]
    <3>1. CASE n = N + 1
      BY <1>1, <3>1
    <3>2. CASE n # N + 1
      BY <1>1, <1>2, <3>2 DEF Sums
    <3> QED
      BY <3>1, <3>2
  <2> QED
    BY <1>1, <2>1, <2>2 DEF Sums
<1>6. BytesOf(m, more) = f[N + 1]
  BY <1>1, <1>4, <1>5, BytesAre
<1> QED
  BY <1>1, <1>2, <1>4, <1>6 DEF more

\* One key fewer.
LEMMA BytesRemoved ==
  ASSUME NEW m, NEW keys \in Seq(Keys), Weighs(m, keys), NEW i \in 1..Len(keys)
  PROVE  /\ Weighs(m, RemoveAt(keys, i))
         /\ BytesOf(m, RemoveAt(keys, i)) = BytesOf(m, keys) - Size[m.body[keys[i]]]
<1> DEFINE N == Len(keys)
           rest == RemoveAt(keys, i)
           w == Size[m.body[keys[i]]]
<1>1. /\ N \in Nat /\ rest \in Seq(Keys) /\ Len(rest) = N - 1
      /\ \A j \in 1..(N - 1) : rest[j] = IF j < i THEN keys[j] ELSE keys[j + 1]
  BY LenProperties, RemoveAtElements
<1>2. PICK sum : Sums(sum, m, keys) /\ BytesOf(m, keys) = sum[N]
  BY BytesSummed
<1>3. /\ \A n \in 0..N : sum[n] \in Int
      /\ \A n \in 1..N : /\ Size[m.body[keys[n]]] \in Int /\ sum[n - 1] \in Int
                        /\ sum[n] = sum[n - 1] + Size[m.body[keys[n]]]
  BY <1>2, Summands
<1>8. w \in Int /\ sum[i] = sum[i - 1] + w /\ sum[0] = 0
  BY <1>2, <1>3 DEF Sums
<1> DEFINE f == [n \in 0..(N - 1) |-> IF n < i THEN sum[n] ELSE sum[n + 1] - w]
<1> HIDE DEF rest, w
<1>4. Weighs(m, rest)
  BY <1>1 DEF Weighs
<1>5. Sums(f, m, rest)
  <2>1. f \in [0..(N - 1) -> Int] /\ f[0] = 0
    <3>1. \A n \in 0..(N - 1) : n \in 0..N /\ n + 1 \in 0..N
      BY <1>1
    <3>2. \A n \in 0..(N - 1) : sum[n] \in Int /\ sum[n + 1] - w \in Int
      BY <1>3, <1>8, <3>1
    <3>3. 0 < i /\ 0 \in 0..(N - 1)
      BY <1>1
    <3> QED
      BY <1>8, <3>2, <3>3
  <2>2. ASSUME NEW n \in 1..(N - 1) PROVE f[n] = f[n - 1] + Size[m.body[rest[n]]]
    <3>1. CASE n < i
      <4>1. /\ f[n] = sum[n] /\ f[n - 1] = sum[n - 1]
            /\ rest[n] = keys[n] /\ n \in 1..N
        BY <1>1, <3>1
      <4> QED
        BY <1>3, <4>1
    <3>2. CASE n = i
      <4>1. /\ f[n] = sum[n + 1] - w /\ f[n - 1] = sum[n - 1]
            /\ rest[n] = keys[n + 1]
            /\ n + 1 \in 1..N /\ (n + 1) - 1 = n
        BY <1>1, <3>2
      <4>2. /\ sum[n + 1] = sum[n] + Size[m.body[keys[n + 1]]]
            /\ sum[n] = sum[n - 1] + w
            /\ Size[m.body[keys[n + 1]]] \in Int /\ sum[n - 1] \in Int
        BY <1>3, <1>8, <3>2, <4>1
      <4> QED
        BY <1>8, <4>1, <4>2
    <3>3. CASE n > i
      <4>1. /\ f[n] = sum[n + 1] - w /\ f[n - 1] = sum[n] - w
            /\ rest[n] = keys[n + 1]
            /\ n + 1 \in 1..N /\ (n + 1) - 1 = n
        BY <1>1, <3>3
      <4>2. /\ sum[n + 1] = sum[n] + Size[m.body[keys[n + 1]]]
            /\ Size[m.body[keys[n + 1]]] \in Int /\ sum[n] \in Int
        BY <1>3, <4>1
      <4> QED
        BY <1>8, <4>1, <4>2
    <3> QED
      BY <1>1, <3>1, <3>2, <3>3
  <2> QED
    BY <1>1, <2>1, <2>2 DEF Sums
<1>6. BytesOf(m, rest) = f[N - 1]
  BY <1>1, <1>4, <1>5, BytesAre
<1>7. f[N - 1] = sum[N] - w
  <2>1. CASE i = N
    <3>1. f[N - 1] = sum[N - 1] /\ sum[N] = sum[N - 1] + w /\ sum[N - 1] \in Int
      BY <1>1, <1>3, <1>8, <2>1
    <3> QED
      BY <1>8, <3>1
  <2>2. CASE i # N
    BY <1>1, <2>2
  <2> QED
    BY <2>1, <2>2
<1> QED
  BY <1>2, <1>4, <1>6, <1>7 DEF rest, w

\* The oldest keys and the rest.
LEMMA BytesSplit ==
  ASSUME NEW m, NEW keys \in Seq(Keys), Weighs(m, keys), NEW n \in 0..Len(keys)
  PROVE  /\ Weighs(m, SubSeq(keys, n + 1, Len(keys)))
         /\ BytesOf(m, SubSeq(keys, n + 1, Len(keys))) =
               BytesOf(m, keys) - BytesOf(m, SubSeq(keys, 1, n))
<1> DEFINE N == Len(keys)
           gone == SubSeq(keys, 1, n)
           rest == SubSeq(keys, n + 1, N)
<1>1. N \in Nat
  BY LenProperties
<1>2. /\ gone \in Seq(Keys) /\ Len(gone) = n /\ \A i \in 1..n : gone[i] = keys[i]
      /\ rest \in Seq(Keys) /\ Len(rest) = N - n
      /\ \A i \in 1..(N - n) : rest[i] = keys[n + i]
  BY <1>1
<1>3. PICK sum : Sums(sum, m, keys) /\ BytesOf(m, keys) = sum[N]
  BY BytesSummed
<1> DEFINE f == [i \in 0..n |-> sum[i]]
           g == [i \in 0..(N - n) |-> sum[n + i] - sum[n]]
<1>8. /\ \A i \in 0..N : sum[i] \in Int
      /\ \A i \in 1..N : /\ Size[m.body[keys[i]]] \in Int /\ sum[i - 1] \in Int
                        /\ sum[i] = sum[i - 1] + Size[m.body[keys[i]]]
      /\ sum[0] = 0
  BY <1>3, Summands DEF Sums
<1> HIDE DEF gone, rest
<1>4. Weighs(m, gone) /\ Weighs(m, rest)
  <2>1. \A i \in 1..n : i \in 1..N
    BY <1>1
  <2>2. \A i \in 1..(N - n) : n + i \in 1..N
    BY <1>1
  <2>3. \A i \in 1..N : m.body[keys[i]] \in Bodies
    BY DEF Weighs
  <2> HIDE DEF N
  <2>4. \A i \in 1..n : m.body[gone[i]] \in Bodies
    BY <1>2, <2>1, <2>3
  <2>5. \A i \in 1..(N - n) : m.body[rest[i]] \in Bodies
    BY <1>2, <2>2, <2>3
  <2> QED
    BY <1>2, <2>4, <2>5 DEF Weighs
<1>5. BytesOf(m, gone) = f[n]
  <2>1. Sums(f, m, gone)
    <3>1. f \in [0..n -> Int] /\ f[0] = 0
      BY <1>1, <1>8
    <3>2. ASSUME NEW i \in 1..n PROVE f[i] = f[i - 1] + Size[m.body[gone[i]]]
      <4>1. /\ f[i] = sum[i] /\ f[i - 1] = sum[i - 1]
            /\ gone[i] = keys[i] /\ i \in 1..N
        BY <1>1, <1>2
      <4> QED
        BY <1>8, <4>1
    <3> QED
      BY <1>2, <3>1, <3>2 DEF Sums
  <2> QED
    BY <1>2, <1>4, <2>1, BytesAre
<1>6. BytesOf(m, rest) = g[N - n]
  <2>1. g \in [0..(N - n) -> Int] /\ g[0] = 0
    <3>1. \A i \in 0..(N - n) : n + i \in 0..N
      BY <1>1
    <3>2. \A i \in 0..(N - n) : sum[n + i] - sum[n] \in Int
      BY <1>8, <3>1
    <3> QED
      BY <1>1, <1>8, <3>2
  <2>2. ASSUME NEW i \in 1..(N - n) PROVE g[i] = g[i - 1] + Size[m.body[rest[i]]]
    <3>1. /\ i \in 0..(N - n) /\ i - 1 \in 0..(N - n)
          /\ n + i \in 1..N /\ n + (i - 1) = (n + i) - 1
      BY <1>1
    <3> DEFINE p == n + i
               w == Size[m.body[keys[p]]]
    <3>2. p \in 1..N /\ n + (i - 1) = p - 1 /\ rest[i] = keys[p]
      BY <1>2, <3>1
    <3>3. g[i] = sum[p] - sum[n] /\ g[i - 1] = sum[p - 1] - sum[n]
      BY <3>1
    <3> HIDE DEF p, g
    <3>4. sum[p] = sum[p - 1] + w /\ w \in Int /\ sum[p - 1] \in Int
      BY <1>8, <3>2
    <3>5. sum[n] \in Int
      BY <1>8
    <3> HIDE DEF w
    <3>6. g[i] = g[i - 1] + w
      BY <3>3, <3>4, <3>5
    <3> QED
      BY <3>2, <3>6 DEF w
  <2> HIDE DEF g
  <2>3. Sums(g, m, rest)
    <3> DEFINE M == N - n
    <3>1. g \in [0..M -> Int] /\ g[0] = 0 /\ Len(rest) = M
      BY <1>2, <2>1
    <3>2. \A i \in 1..M : g[i] = g[i - 1] + Size[m.body[rest[i]]]
      BY <2>2, Zenon
    <3> HIDE DEF M
    <3> QED
      BY <3>1, <3>2 DEF Sums
  <2> QED
    BY <1>2, <1>4, <2>3, BytesAre
<1>7. f[n] = sum[n] /\ g[N - n] = sum[N] - sum[n]
  BY <1>1
<1> QED
  BY <1>3, <1>4, <1>5, <1>6, <1>7 DEF gone, rest

-----------------------------------------------------------------------------
(* The operations of the memory.                                            *)

\* Every entry of a memory has a body.
LEMMA ConsistentWeighs ==
  ASSUME NEW m, Consistent(m)
  PROVE  /\ Weighs(m, m.order)
         /\ Len(m.order) \in Nat /\ BytesOf(m, m.order) \in Int
<1>1. /\ m.order \in Seq(Keys) /\ m.body \in [Keys -> Bodies \cup {Absent}]
      /\ \A k \in Keys : Holds(m, k) <=> Contains(m.order, k)
  BY DEF Consistent
<1>2. \A i \in 1..Len(m.order) : m.order[i] \in Keys
  BY <1>1, ElementOfSeq
<1>3. \A i \in 1..Len(m.order) : Contains(m.order, m.order[i])
  BY DEF Contains
<1>4. Weighs(m, m.order)
  BY <1>1, <1>2, <1>3 DEF Weighs, Holds
<1>5. PICK o \in Seq(Keys) : o = m.order
  BY <1>1
<1>6. PICK sum : Sums(sum, m, o) /\ BytesOf(m, o) = sum[Len(o)]
  BY <1>4, <1>5, BytesSummed
<1>7. Len(o) \in Nat /\ sum \in [0..Len(o) -> Int]
  BY <1>6, LenProperties DEF Sums
<1> QED
  BY <1>4, <1>5, <1>6, <1>7

\* The order without a key that is held: the other keys, once each.
LEMMA WithoutKey ==
  ASSUME NEW m, Consistent(m), NEW k \in Keys, Holds(m, k)
  PROVE  /\ Without(m.order, k) \in Seq(Keys)
         /\ IsInjective(Without(m.order, k))
         /\ \A j \in Keys : Contains(Without(m.order, k), j) <=> Holds(m, j) /\ j # k
         /\ Len(Without(m.order, k)) = Len(m.order) - 1
         /\ Weighs(m, Without(m.order, k))
         /\ BytesOf(m, Without(m.order, k)) = m.bytes - Size[m.body[k]]
<1>1. PICK o \in Seq(Keys) : o = m.order
  BY DEF Consistent
<1>2. /\ IsInjective(o) /\ m.bytes = BytesOf(m, o) /\ Weighs(m, o)
      /\ \A j \in Keys : Holds(m, j) <=> Contains(o, j)
  BY <1>1, ConsistentWeighs DEF Consistent
<1>3. PICK i \in 1..Len(o) : o[i] = k
  BY <1>2 DEF Contains
<1>4. PICK p \in 1..Len(o) : o[p] = k /\ RemoveFirst(o, k) = RemoveAt(o, p)
  BY <1>3, RemoveFirstElement
<1> DEFINE rest == RemoveAt(o, p)
           N == Len(o)
<1>5. Without(m.order, k) = rest
  BY <1>1, <1>4 DEF Without
<1>6. rest \in Seq(Keys) /\ Len(rest) = N - 1
  BY RemoveAtElements
<1>7. /\ Weighs(m, rest)
      /\ BytesOf(m, rest) = BytesOf(m, o) - Size[m.body[o[p]]]
  BY <1>2, BytesRemoved
<1>8. /\ IsInjective(rest)
      /\ \A j : Contains(rest, j) <=> Contains(o, j) /\ j # k
  BY <1>2, <1>4, RemoveAtOnce
<1> HIDE DEF rest
<1> QED
  BY <1>1, <1>2, <1>4, <1>5, <1>6, <1>7, <1>8

\* pop() removes one entry.
LEMMA PoppedBody ==
  ASSUME NEW m, Memory(m), NEW k \in Keys
  PROVE  /\ Memory(Popped(m, k))
         /\ \A j \in Keys : Popped(m, k).body[j] = IF j = k THEN Absent ELSE m.body[j]
<1>0. ~Holds(m, k) => Popped(m, k) = m /\ m.body[k] = Absent
  BY DEF Popped, Holds
<1>1. CASE Holds(m, k)
  <2> DEFINE body == [m.body EXCEPT ![k] = Absent]
             order == Without(m.order, k)
             bytes == m.bytes - Size[m.body[k]]
             p == [order |-> order, body |-> body, bytes |-> bytes]
  <2>1. Popped(m, k) = p
    BY <1>1 DEF Popped
  <2>2. /\ body \in [Keys -> Bodies \cup {Absent}]
        /\ \A j \in Keys : body[j] = IF j = k THEN Absent ELSE m.body[j]
    BY DEF Memory, Consistent
  <2>3. /\ order \in Seq(Keys) /\ IsInjective(order)
        /\ \A j \in Keys : Contains(order, j) <=> Holds(m, j) /\ j # k
        /\ Len(order) = Len(m.order) - 1
        /\ Weighs(m, order) /\ BytesOf(m, order) = bytes
    BY <1>1, WithoutKey DEF Memory
  <2>4. /\ m.body[k] \in Bodies /\ Len(m.order) \in Nat /\ m.bytes \in Int
        /\ Len(m.order) <= MaxSize /\ (MaxBytes > 0 => m.bytes <= MaxBytes)
    BY <1>1, ConsistentWeighs DEF Memory, Consistent, WithinLimits, Holds
  <2>5. Size[m.body[k]] \in Nat /\ MaxSize \in Nat /\ MaxBytes \in Nat
    BY <2>4, CacheAssumption DEF CacheAssumption
  <2>6. bytes <= m.bytes
    BY <2>4, <2>5
  <2>7. Len(order) <= MaxSize /\ (MaxBytes > 0 => bytes <= MaxBytes)
    <3>1. bytes \in Int
      BY <2>4, <2>5
    <3> HIDE DEF bytes, order
    <3> QED
      BY <2>3, <2>4, <2>5, <2>6, <3>1
  <2> HIDE DEF body, order, bytes
  <2>8. p.order = order /\ p.body = body /\ p.bytes = bytes
    OBVIOUS
  <2>9. \A i \in 1..Len(order) : order[i] \in Keys /\ Contains(order, order[i])
    BY <2>3, ElementOfSeq DEF Contains
  <2>10. \A i \in 1..Len(order) : p.body[order[i]] = m.body[order[i]]
    BY <2>2, <2>3, <2>8, <2>9
  <2>11. p = [order |-> p.order, body |-> p.body, bytes |-> p.bytes]
    BY <2>8
  <2> HIDE DEF p
  <2>12. BytesOf(p, order) = BytesOf(m, order)
    BY <2>3, <2>10, BytesAgree
  <2>13. \A j \in Keys : Holds(p, j) <=> Contains(p.order, j)
    BY <2>2, <2>3, <2>8 DEF Holds
  <2>14. Memory(p)
    BY <2>2, <2>3, <2>7, <2>8, <2>11, <2>12, <2>13 DEF Memory, Consistent, WithinLimits
  <2> QED
    BY <2>1, <2>2, <2>8, <2>14
<1>2. CASE ~Holds(m, k)
  BY <1>0, <1>2
<1> QED
  BY <1>1, <1>2

\* move_to_end() changes no entry.
LEMMA TouchedBody ==
  ASSUME NEW m, Memory(m), NEW k \in Keys, Holds(m, k)
  PROVE  Memory(Touched(m, k)) /\ Touched(m, k).body = m.body
<1> DEFINE rest == Without(m.order, k)
           o == Append(rest, k)
           e == [order |-> o, body |-> m.body, bytes |-> m.bytes]
<1>1. PICK n, body, bytes : m = [order |-> n, body |-> body, bytes |-> bytes]
  BY DEF Memory, Consistent
<1>2. Touched(m, k) = e
  <2> HIDE DEF o
  <2> QED
    BY <1>1 DEF Touched, o
<1>3. e.order = o /\ e.body = m.body /\ e.bytes = m.bytes
  OBVIOUS
<1>4. /\ rest \in Seq(Keys) /\ IsInjective(rest)
      /\ \A j \in Keys : Contains(rest, j) <=> Holds(m, j) /\ j # k
      /\ Len(rest) = Len(m.order) - 1
      /\ Weighs(m, rest) /\ BytesOf(m, rest) = m.bytes - Size[m.body[k]]
  BY WithoutKey DEF Memory
<1>5. /\ m.body[k] \in Bodies /\ Len(m.order) \in Nat /\ m.bytes \in Int
  BY ConsistentWeighs DEF Memory, Consistent, Holds
<1>6. Size[m.body[k]] \in Nat
  BY <1>5, CacheAssumption DEF CacheAssumption
<1> HIDE DEF rest
<1>7. /\ o \in Seq(Keys) /\ IsInjective(o)
      /\ \A j \in Keys : Contains(o, j) <=> Contains(rest, j) \/ j = k
      /\ Len(o) = Len(rest) + 1
  BY <1>4, AppendNew
<1>8. Weighs(m, o) /\ BytesOf(m, o) = BytesOf(m, rest) + Size[m.body[k]]
  BY <1>4, <1>5, BytesAppended
<1>9. BytesOf(m, o) = m.bytes /\ Len(o) = Len(m.order)
  BY <1>4, <1>5, <1>6, <1>7, <1>8
<1> HIDE DEF o
<1>10. e = [order |-> e.order, body |-> e.body, bytes |-> e.bytes]
  BY <1>3
<1> HIDE DEF e
<1>11. BytesOf(e, o) = BytesOf(m, o)
  BY <1>3, <1>7, <1>8, BytesAgree
<1>12. \A j \in Keys : Holds(e, j) <=> Contains(e.order, j)
  BY <1>3, <1>4, <1>7 DEF Holds
<1>13. Memory(e)
  BY <1>3, <1>7, <1>9, <1>10, <1>11, <1>12 DEF Memory, Consistent, WithinLimits
<1> QED
  BY <1>2, <1>3, <1>13

\* The loop of lines 293-295 ends within the limits.
LEMMA EvictionsFit ==
  ASSUME NEW m, Consistent(m)
  PROVE  Evictions(m) \in 0..Len(m.order) /\ Fits(m, Evictions(m))
<1> DEFINE T == {i \in 0..Len(m.order) : Fits(m, i)}
<1>1. /\ m.order \in Seq(Keys) /\ Len(m.order) \in Nat
      /\ m.bytes = BytesOf(m, m.order) /\ m.bytes \in Int
  BY ConsistentWeighs DEF Consistent
<1>2. MaxSize \in Nat /\ MaxBytes \in Nat
  BY CacheAssumption DEF CacheAssumption
<1>3. SubSeq(m.order, 1, Len(m.order)) = m.order
  BY <1>1
<1>4. Len(m.order) \in T
  <2>1. Len(m.order) - Len(m.order) = 0 /\ m.bytes - m.bytes = 0
    BY <1>1
  <2>2. m.bytes - BytesOf(m, SubSeq(m.order, 1, Len(m.order))) = 0
    BY <1>1, <1>3, <2>1
  <2>3. Fits(m, Len(m.order))
    BY <1>2, <2>1, <2>2 DEF Fits
  <2> QED
    BY <1>1, <2>3
<1>5. T \subseteq Nat /\ T # {}
  BY <1>1, <1>4
<1>6. PICK n \in T : \A i \in T : ~(i < n)
  <2> HIDE DEF T
  <2> QED
    BY <1>5, LeastElement
<1>7. n \in 0..Len(m.order) /\ Fits(m, n) /\ \A j \in 0..(n - 1) : ~Fits(m, j)
  <2>1. \A j \in 0..(n - 1) : j \in 0..Len(m.order) /\ j < n
    BY <1>1
  <2> QED
    BY <1>6, <2>1
<1> QED
  BY <1>7, Zenon DEF Evictions

\* Eviction removes the oldest entries until the limits are met.
LEMMA EvictedBody ==
  ASSUME NEW m, Consistent(m)
  PROVE  /\ Memory(Evicted(m))
         /\ \A j \in Keys : Evicted(m).body[j] \in {m.body[j], Absent}
<1>1. PICK n \in 0..Len(m.order) : n = Evictions(m) /\ Fits(m, n)
  BY EvictionsFit
<1> DEFINE gone == SubSeq(m.order, 1, n)
           order == SubSeq(m.order, n + 1, Len(m.order))
           body == [k \in Keys |-> IF Contains(gone, k) THEN Absent ELSE m.body[k]]
           bytes == m.bytes - BytesOf(m, gone)
           e == [order |-> order, body |-> body, bytes |-> bytes]
<1>2. Evicted(m) = e
  BY <1>1 DEF Evicted
<1>3. PICK o \in Seq(Keys) : o = m.order
  BY DEF Consistent
<1>4. /\ Weighs(m, o) /\ m.bytes = BytesOf(m, o) /\ IsInjective(o)
      /\ \A k \in Keys : Holds(m, k) <=> Contains(o, k)
      /\ m.body \in [Keys -> Bodies \cup {Absent}]
  BY <1>3, ConsistentWeighs DEF Consistent
<1>5. Weighs(m, order) /\ BytesOf(m, order) = bytes
  BY <1>1, <1>3, <1>4, BytesSplit
<1>6. /\ Len(o) \in Nat /\ DOMAIN o = 1..Len(o)
      /\ gone \in Seq(Keys) /\ Len(gone) = n /\ \A i \in 1..n : gone[i] = o[i]
      /\ order \in Seq(Keys) /\ Len(order) = Len(o) - n
      /\ \A i \in 1..(Len(o) - n) : order[i] = o[n + i]
  BY <1>1, <1>3, LenProperties
<1>7. Len(order) <= MaxSize /\ (MaxBytes > 0 => bytes <= MaxBytes)
  BY <1>1, <1>3, <1>6 DEF Fits
<1> HIDE DEF gone, order, bytes
<1>8. /\ body \in [Keys -> Bodies \cup {Absent}]
      /\ \A j \in Keys : body[j] = IF Contains(gone, j) THEN Absent ELSE m.body[j]
  BY <1>4
<1> HIDE DEF body
<1>9. e.order = order /\ e.body = body /\ e.bytes = bytes
  OBVIOUS
<1>10. e = [order |-> e.order, body |-> e.body, bytes |-> e.bytes]
  BY <1>9
<1> HIDE DEF e
<1>11. /\ \A i \in 1..n : i \in 1..Len(o)
       /\ \A i \in 1..(Len(o) - n) : n + i \in 1..Len(o) /\ n + i \notin 1..n
       /\ \A i \in 1..Len(o) : i \in 1..n \/ \E j \in 1..(Len(o) - n) : i = n + j
  <2>1. ASSUME NEW i \in 1..Len(o), i \notin 1..n
        PROVE  \E j \in 1..(Len(o) - n) : i = n + j
    <3>1. i - n \in 1..(Len(o) - n) /\ i = n + (i - n)
      BY <1>6, <2>1
    <3> QED
      BY <3>1
  <2> QED
    BY <1>6, <2>1
<1>12. IsInjective(order)
  <2>1. DOMAIN order = 1..(Len(o) - n)
    BY <1>6, LenProperties
  <2>2. \A i, j \in 1..(Len(o) - n) : n + i = n + j => i = j
    BY <1>6
  <2>3. ASSUME NEW i \in 1..(Len(o) - n), NEW j \in 1..(Len(o) - n), order[i] = order[j]
        PROVE  i = j
    <3>1. o[n + i] = o[n + j]
      BY <1>6, <2>3
    <3>2. n + i \in DOMAIN o /\ n + j \in DOMAIN o
      BY <1>6, <1>11
    <3>3. n + i = n + j
      BY <1>4, <3>1, <3>2 DEF IsInjective
    <3> QED
      BY <2>2, <3>3
  <2> QED
    BY <2>1, <2>3 DEF IsInjective
<1>13. \A k \in Keys : Contains(order, k) <=> Contains(o, k) /\ ~Contains(gone, k)
  <2>1. ASSUME NEW k, Contains(order, k) PROVE Contains(o, k) /\ ~Contains(gone, k)
    <3>1. PICK i \in 1..(Len(o) - n) : order[i] = k
      BY <1>6, <2>1 DEF Contains
    <3>2. o[n + i] = k /\ n + i \in 1..Len(o) /\ n + i \notin 1..n
      BY <1>6, <1>11, <3>1
    <3>3. ASSUME NEW j \in 1..n, gone[j] = k PROVE FALSE
      <4>1. o[j] = o[n + i] /\ j \in DOMAIN o /\ n + i \in DOMAIN o
        BY <1>6, <1>11, <3>2, <3>3
      <4>2. j = n + i
        BY <1>4, <4>1 DEF IsInjective
      <4> QED
        BY <3>2, <4>2
    <3> QED
      BY <1>6, <3>2, <3>3 DEF Contains
  <2>2. ASSUME NEW k, Contains(o, k), ~Contains(gone, k) PROVE Contains(order, k)
    <3>1. PICK i \in 1..Len(o) : o[i] = k
      BY <2>2 DEF Contains
    <3>2. i \notin 1..n
      BY <1>6, <2>2, <3>1 DEF Contains
    <3>3. PICK j \in 1..(Len(o) - n) : i = n + j
      BY <1>11, <3>2
    <3>4. order[j] = k /\ j \in 1..Len(order)
      BY <1>6, <3>1, <3>3
    <3> QED
      BY <3>4 DEF Contains
  <2> QED
    BY <2>1, <2>2
<1>14. \A k \in Keys : Holds(e, k) <=> Contains(e.order, k)
  BY <1>4, <1>8, <1>9, <1>13 DEF Holds
<1>15. \A i \in 1..Len(order) : e.body[order[i]] = m.body[order[i]]
  <2>1. \A i \in 1..Len(order) : order[i] \in Keys /\ Contains(order, order[i])
    BY <1>6, ElementOfSeq DEF Contains
  <2> QED
    BY <1>8, <1>9, <1>13, <2>1
<1>16. BytesOf(e, order) = BytesOf(m, order)
  BY <1>5, <1>6, <1>15, BytesAgree
<1>17. Memory(e)
  BY <1>5, <1>6, <1>7, <1>8, <1>9, <1>10, <1>12, <1>14, <1>16
     DEF Memory, Consistent, WithinLimits
<1> QED
  BY <1>2, <1>8, <1>9, <1>17

\* remember_memory() adds at most one entry, and none with credentials.
LEMMA RememberedBody ==
  ASSUME NEW m, Memory(m), NEW k \in Keys, NEW b \in Bodies
  PROVE  /\ Memory(Remembered(m, k, b))
         /\ \A j \in Keys :
               \/ Remembered(m, k, b).body[j] \in {m.body[j], Absent}
               \/ j = k /\ b \notin Secret /\ Remembered(m, k, b).body[j] = b
         /\ Remembered(m, k, b).body[k] \in {b, Absent}
<1> DEFINE p == Popped(m, k)
           o == Append(p.order, k)
           body == [p.body EXCEPT ![k] = b]
           e == [order |-> o, body |-> body, bytes |-> p.bytes + Size[b]]
<1>1. /\ Memory(p)
      /\ \A j \in Keys : p.body[j] = IF j = k THEN Absent ELSE m.body[j]
  BY PoppedBody
<1>2. CASE b \in Secret \/ (MaxBytes > 0 /\ Size[b] > MaxBytes)
  BY <1>1, <1>2 DEF Remembered
<1>3. CASE ~(b \in Secret \/ (MaxBytes > 0 /\ Size[b] > MaxBytes))
  <2>1. Remembered(m, k, b) = Evicted(e)
    BY <1>3 DEF Remembered
  <2> HIDE DEF p
  <2>2. PICK q \in Seq(Keys) : q = p.order
    BY <1>1 DEF Memory, Consistent
  <2>3. /\ IsInjective(q) /\ Weighs(p, q) /\ p.bytes = BytesOf(p, q)
        /\ p.body \in [Keys -> Bodies \cup {Absent}]
        /\ \A j \in Keys : Holds(p, j) <=> Contains(q, j)
    BY <1>1, <2>2, ConsistentWeighs DEF Memory, Consistent
  <2>4. ~Contains(q, k)
    BY <1>1, <2>3 DEF Holds
  <2>5. /\ o \in Seq(Keys) /\ IsInjective(o)
        /\ \A j \in Keys : Contains(o, j) <=> Contains(q, j) \/ j = k
    BY <2>2, <2>3, <2>4, AppendNew
  <2>6. /\ body \in [Keys -> Bodies \cup {Absent}]
        /\ \A j \in Keys : body[j] = IF j = k THEN b ELSE p.body[j]
    BY <2>3
  <2> HIDE DEF body
  <2>7. e.order = o /\ e.body = body /\ e.bytes = p.bytes + Size[b]
    OBVIOUS
  <2>8. e = [order |-> e.order, body |-> e.body, bytes |-> e.bytes]
    BY <2>7
  <2> HIDE DEF e
  <2>9. \A i \in 1..Len(q) : e.body[q[i]] = p.body[q[i]]
    <3>1. \A i \in 1..Len(q) : q[i] \in Keys /\ Contains(q, q[i])
      BY ElementOfSeq DEF Contains
    <3> QED
      BY <2>4, <2>6, <2>7, <3>1
  <2>10. Weighs(e, q) /\ BytesOf(e, q) = p.bytes
    <3>1. Weighs(e, q)
      BY <2>3, <2>9 DEF Weighs
    <3>2. BytesOf(e, q) = BytesOf(p, q)
      BY <2>3, <2>9, BytesAgree
    <3> QED
      BY <2>3, <3>1, <3>2
  <2>11. e.body[k] = b
    BY <2>6, <2>7
  <2>12. BytesOf(e, Append(q, k)) = BytesOf(e, q) + Size[e.body[k]]
    BY <2>10, <2>11, BytesAppended
  <2>13. \A j \in Keys : Holds(e, j) <=> Contains(e.order, j)
    <3>1. b # Absent
      BY CacheAssumption DEF CacheAssumption
    <3> QED
      BY <2>3, <2>5, <2>6, <2>7, <3>1 DEF Holds
  <2>14. Consistent(e)
    BY <2>2, <2>5, <2>6, <2>7, <2>8, <2>10, <2>11, <2>12, <2>13 DEF Consistent
  <2>15. \A j \in Keys : e.body[j] = IF j = k THEN b ELSE m.body[j]
    BY <1>1, <2>6, <2>7
  <2>16. /\ Memory(Evicted(e))
         /\ \A j \in Keys : Evicted(e).body[j] \in {e.body[j], Absent}
    BY <2>14, EvictedBody
  <2> QED
    BY <1>3, <2>1, <2>15, <2>16
<1> QED
  BY <1>2, <1>3

\* The keys of requests are not those of artifacts.
LEMMA KeyKinds ==
  /\ \A r \in Requests : RequestKey(r) \in Keys /\ ~IsArtifact(RequestKey(r))
  /\ \A b \in Bodies : ResolveKey(b) \in Keys /\ IsArtifact(ResolveKey(b))
BY DEF Keys, RequestKey, ResolveKey, IsArtifact

\* A result without credentials is valid under the key of a request and under
\* its own.
LEMMA ValidKeys ==
  ASSUME NEW b \in Bodies \ Secret
  PROVE  /\ ~Invalid(ResolveKey(b), b)
         /\ \A k \in Keys : ~IsArtifact(k) => ~Invalid(k, b)
BY CacheAssumption DEF Invalid, CacheAssumption

\* The memory itself, and what pop() and move_to_end() make of a memory.
LEMMA AcceptableMemory ==
  ASSUME Clean(mem)
  PROVE  /\ Acceptable(mem)
         /\ \A m : Acceptable(m) => \A k \in Keys : Acceptable(Popped(m, k))
         /\ \A m : Acceptable(m) =>
               \A k \in Keys : Holds(m, k) => Acceptable(Touched(m, k))
<1>1. Acceptable(mem)
  BY DEF Acceptable
<1>2. ASSUME NEW m, Acceptable(m), NEW k \in Keys
      PROVE  /\ Acceptable(Popped(m, k))
             /\ Holds(m, k) => Acceptable(Touched(m, k))
  <2>1. Memory(m)
    BY <1>2 DEF Acceptable, Clean
  <2>2. Acceptable(Popped(m, k))
    <3>1. /\ Memory(Popped(m, k))
          /\ \A j \in Keys :
                Popped(m, k).body[j] = IF j = k THEN Absent ELSE m.body[j]
      BY <2>1, PoppedBody
    <3> QED
      BY <1>2, <3>1 DEF Acceptable, Clean, Holds
  <2>3. ASSUME Holds(m, k) PROVE Acceptable(Touched(m, k))
    <3>1. Memory(Touched(m, k)) /\ Touched(m, k).body = m.body
      BY <2>1, <2>3, TouchedBody
    <3> QED
      BY <1>2, <3>1 DEF Acceptable, Clean, Holds
  <2> QED
    BY <2>2, <2>3
<1> QED
  BY <1>1, <1>2

\* What remember_memory() makes of one.
LEMMA AcceptableRemembered ==
  ASSUME NEW m, Acceptable(m), NEW k \in Keys, NEW b \in Bodies,
         b \notin Secret => ~Invalid(k, b), Shared(k, b)
  PROVE  Acceptable(Remembered(m, k, b))
<1>1. Memory(m)
  BY DEF Acceptable, Clean
<1>2. /\ Memory(Remembered(m, k, b))
      /\ \A j \in Keys :
            \/ Remembered(m, k, b).body[j] \in {m.body[j], Absent}
            \/ j = k /\ b \notin Secret /\ Remembered(m, k, b).body[j] = b
  BY <1>1, RememberedBody
<1> QED
  BY <1>2 DEF Acceptable, Clean, Holds

-----------------------------------------------------------------------------
(* The tasks and the store operations outstanding for them.                 *)

CallTypes == [kind : {"none", "remember", "lookup"}, key : Keys \cup {Absent},
              body : Bodies \cup {Absent}, retain : BOOLEAN]

\* What a task at l was called with.
Called(l, c) ==
    /\ c \in CallTypes
    /\ l # "idle" => c.key \in Keys /\ c.kind \in {"remember", "lookup"}
    /\ l # "idle" /\ c.kind = "remember" => c.body \in Bodies /\ ~IsArtifact(c.key)
    /\ l \in {"read", "discard"} => c.kind = "lookup"
    /\ l \in {"store-request", "drop-request", "drop-artifact"} => c.kind = "remember"
    /\ l \in {"store-request", "store-artifact"} => c.body \in Bodies \ Secret
    /\ l = "store-artifact" /\ c.kind = "lookup" => ~IsArtifact(c.key)

CallsInv == \A t \in Tasks : Called(pc[t], call[t]) /\ (pc[t] \in Waiting => persistent)

\* What the task of c may answer.
Honest(c, a) ==
    /\ a.body \in Bodies \cup {Absent} /\ a.advertised \in BOOLEAN
    /\ a.body \in Secret => c.kind = "remember" /\ ~a.advertised
    /\ c.kind = "lookup" /\ IsArtifact(c.key) /\ a.body # Absent =>
          c.key = ResolveKey(a.body)

AnswersInv ==
    \A t \in Tasks : answer[t] = Unanswered \/ (pc[t] = "done" /\ Honest(call[t], answer[t]))

\* Operations in the queue, and completed ones.
Operations == [task : Tasks, kind : {"get", "set", "delete"}, key : Keys,
               value : Bodies \cup {Absent}, awaited : BOOLEAN]

Completed == [task : Tasks, ok : BOOLEAN, value : StoredValues]

\* Only valid results are published; other operations have no value.
Publishable(o) ==
    /\ o.kind = "set" => o.value \in Bodies \ (Secret \cup Oversized)
    /\ o.kind # "set" => o.value = Absent

\* What a task at l awaits.
Expected(l, c, o) ==
    /\ l \in Waiting
    /\ l = "store-request" => o.kind = "set" /\ o.key = c.key /\ o.value = c.body
    /\ l = "store-artifact" => o.kind = "set" /\ o.key = ResolveKey(c.body) /\ o.value = c.body

\* What is published once it has succeeded.
Accepted(p, l, c) ==
    /\ l = "store-request" => <<c.key, c.body>> \in p
    /\ l = "store-artifact" => <<ResolveKey(c.body), c.body>> \in p

\* The operations q and the completed ones r are those that tasks await, or
\* that nobody awaits any more.
Outstanding(q, r) ==
    /\ q \in Seq(Operations) /\ r \subseteq Completed
    /\ \A i \in 1..Len(q) :
          /\ Publishable(q[i])
          /\ q[i].awaited => Expected(pc[q[i].task], call[q[i].task], q[i])
    /\ \A e \in r :
          /\ pc[e.task] \in Waiting
          /\ e.ok => Accepted(published, pc[e.task], call[e.task])

\* A task awaits one operation.
Single(q, r) ==
    /\ \A i, j \in 1..Len(q) :
          i # j /\ q[i].awaited /\ q[j].awaited => q[i].task # q[j].task
    /\ \A e, f \in r : e # f => e.task # f.task
    /\ \A i \in 1..Len(q), e \in r : q[i].awaited => q[i].task # e.task

\* Nothing is outstanding for a task.
Free(t, q, r) ==
    /\ \A i \in 1..Len(q) : q[i].awaited => q[i].task # t
    /\ \A e \in r : e.task # t

StateInv ==
    /\ persistent \in BOOLEAN
    /\ store \in [Keys -> StoredValues]
    /\ pc \in [Tasks -> Labels] /\ call \in [Tasks -> CallTypes]
    /\ answer \in [Tasks -> [status : {"pending", "response"},
                             body : Bodies \cup {Absent}, advertised : BOOLEAN]]

IInv ==
    /\ StateInv /\ Clean(mem) /\ CallsInv /\ AnswersInv
    /\ Outstanding(queue, ready) /\ Single(queue, ready)

-----------------------------------------------------------------------------
(* The pieces of the tasks.                                                 *)

\* The piece p of t gives a response that is honest and whose address is that
\* of something retained.
Responds(t, p) ==
    /\ p.next = "done" /\ p.kind # "set"
    /\ p.answer \in [status : {"response"}, body : Bodies \cup {Absent}, advertised : BOOLEAN]
    /\ Honest(call[t], p.answer)
    /\ p.answer.advertised /\ (call[t].kind = "remember" \/ ~IsArtifact(call[t].key)) =>
          LET b == p.answer.body
          IN  IF persistent THEN <<ResolveKey(b), b>> \in published
                            ELSE p.mem.body[ResolveKey(b)] = b

\* The operation of a piece p of t, and what t was called for then.
Submitted(t, p) == [task |-> t, kind |-> p.kind, key |-> p.key, value |-> p.value,
                    awaited |-> TRUE]

CalledFor(t, p) == IF p.kind = "set" THEN [call[t] EXCEPT !.body = p.value] ELSE call[t]

\* The piece p of t leads to where an operation is awaited.
Awaits(t, p) ==
    /\ persistent /\ p.next \in Waiting
    /\ Called(p.next, CalledFor(t, p))
    /\ Submitted(t, p) \in Operations /\ Publishable(Submitted(t, p))
    /\ Expected(p.next, CalledFor(t, p), Submitted(t, p))

\* What each piece of a task t comes down to.
Proceeds(t, p) == Acceptable(p.mem) /\ (Responds(t, p) \/ Awaits(t, p))

\* A response.
LEMMA RespondProceeds ==
  ASSUME NEW t \in Tasks, NEW m, NEW b \in Bodies \cup {Absent},
         NEW advertised \in BOOLEAN, Acceptable(m),
         Honest(call[t], [body |-> b, advertised |-> advertised]),
         advertised /\ (call[t].kind = "remember" \/ ~IsArtifact(call[t].key)) =>
            IF persistent THEN <<ResolveKey(b), b>> \in published
                          ELSE m.body[ResolveKey(b)] = b
  PROVE  Proceeds(t, Respond(m, b, advertised))
<1> DEFINE p == Respond(m, b, advertised)
<1>1. /\ p.next = "done" /\ p.kind # "set" /\ p.mem = m
      /\ p.answer \in [status : {"response"}, body : Bodies \cup {Absent},
                       advertised : BOOLEAN]
      /\ p.answer.body = b /\ p.answer.advertised = advertised
  BY DEF Respond
<1> HIDE DEF p
<1>2. Honest(call[t], p.answer)
  BY <1>1 DEF Honest
<1> QED
  BY <1>1, <1>2 DEF Proceeds, Responds, p

\* An operation that is awaited: a get or a delete.
LEMMA AwaitProceeds ==
  ASSUME NEW t \in Tasks, NEW l \in {"read", "discard", "drop-request", "drop-artifact"},
         NEW m, NEW kind \in {"get", "delete"}, NEW k \in Keys,
         Acceptable(m), persistent, Called(l, call[t])
  PROVE  Proceeds(t, Await(l, m, kind, k, Absent))
<1> DEFINE p == Await(l, m, kind, k, Absent)
<1>1. /\ p.next = l /\ p.kind = kind /\ p.key = k /\ p.value = Absent /\ p.mem = m
      /\ CalledFor(t, p) = call[t]
  BY DEF Await, CalledFor
<1> HIDE DEF p
<1>2. /\ Submitted(t, p) \in Operations /\ Publishable(Submitted(t, p))
      /\ Expected(l, call[t], Submitted(t, p)) /\ l \in Waiting
  BY <1>1 DEF Submitted, Operations, Publishable, Expected, Waiting
<1> QED
  BY <1>1, <1>2 DEF Proceeds, Awaits, p

\* A publication.
LEMMA PublishProceeds ==
  ASSUME IInv, NEW t \in Tasks, NEW l \in {"store-request", "store-artifact"},
         NEW m, NEW b \in Bodies \ (Secret \cup Oversized), NEW k \in Keys,
         Acceptable(m), persistent, Called(l, [call[t] EXCEPT !.body = b]),
         k = IF l = "store-request" THEN call[t].key ELSE ResolveKey(b)
  PROVE  Proceeds(t, Publish(l, m, k, b))
<1> DEFINE p == Publish(l, m, k, b)
           c == [call[t] EXCEPT !.body = b]
<1>0. call[t] \in CallTypes
  BY DEF IInv, StateInv
<1>1. /\ p.next = l /\ p.kind = "set" /\ p.key = k /\ p.value = b
      /\ p.mem = Popped(m, k) /\ CalledFor(t, p) = c
  BY DEF Publish, Await, CalledFor
<1>2. c \in CallTypes /\ c.body = b /\ c.key = call[t].key
  BY <1>0 DEF CallTypes
<1>3. Called(l, c) /\ Acceptable(Popped(m, k))
  BY AcceptableMemory DEF IInv
<1> HIDE DEF c, p
<1>4. /\ Submitted(t, p) \in Operations /\ Publishable(Submitted(t, p))
      /\ Expected(l, c, Submitted(t, p)) /\ l \in Waiting
  BY <1>1, <1>2 DEF Submitted, Operations, Publishable, Expected, Waiting
<1> QED
  BY <1>1, <1>3, <1>4 DEF Proceeds, Awaits, p

\* store_entry() under the artifact's key, and the response or the await.
LEMMA StoreArtifactProceeds ==
  ASSUME IInv, NEW t \in Tasks, NEW m, NEW b \in Bodies, Acceptable(m),
         pc[t] # "idle",
         call[t].kind = "remember" => call[t].body = b,
         call[t].kind = "lookup" => b \notin Secret /\ ~IsArtifact(call[t].key)
  PROVE  Proceeds(t, StoreArtifact(m, b))
<1> DEFINE k == ResolveKey(b)
           p == StoreArtifact(m, b)
<1>1. k \in Keys /\ Called(pc[t], call[t]) /\ call[t].kind \in {"remember", "lookup"}
  BY KeyKinds DEF IInv, CallsInv, Called
<1>2. Acceptable(Popped(m, k))
  BY <1>1, AcceptableMemory DEF IInv
<1>3. \A adv \in BOOLEAN : (b \in Secret => ~adv) =>
          Honest(call[t], [body |-> b, advertised |-> adv])
  BY <1>1 DEF Honest
<1>4. CASE b \in Secret /\ persistent
  <2>1. p = Await("drop-artifact", Popped(m, k), "delete", k, Absent)
    BY <1>4 DEF StoreArtifact
  <2>2. Called("drop-artifact", call[t])
    BY <1>1, <1>4 DEF Called
  <2> HIDE DEF p
  <2>3. Proceeds(t, p)
    BY <1>1, <1>2, <1>4, <2>1, <2>2, AwaitProceeds
  <2> QED
    BY <2>3 DEF p
<1>5. CASE b \in Secret /\ ~persistent
  <2>1. p = Respond(Popped(m, k), b, FALSE)
    BY <1>5 DEF StoreArtifact
  <2> HIDE DEF p
  <2>2. Proceeds(t, p)
    BY <1>2, <1>3, <2>1, RespondProceeds
  <2> QED
    BY <2>2 DEF p
<1>6. CASE b \notin Secret /\ ~persistent
  <2> DEFINE after == Remembered(m, k, b)
             adv == Holds(after, k)
  <2>1. p = Respond(after, b, adv)
    BY <1>6 DEF StoreArtifact
  <2>2. Acceptable(after)
    BY <1>1, <1>6, ValidKeys, AcceptableRemembered DEF Shared
  <2>3. adv \in BOOLEAN /\ (adv => after.body[k] = b)
    BY <1>1, RememberedBody DEF Acceptable, Clean, Holds
  <2>4. Honest(call[t], [body |-> b, advertised |-> adv])
    BY <1>3, <1>6, <2>3
  <2> HIDE DEF after, adv, p
  <2>5. Proceeds(t, p)
    BY <1>6, <2>1, <2>2, <2>3, <2>4, RespondProceeds
  <2> QED
    BY <2>5 DEF p
<1>7. CASE b \notin Secret /\ persistent /\ b \in Oversized
  <2>1. p = Respond(Popped(m, k), b, FALSE)
    BY <1>7 DEF StoreArtifact
  <2> HIDE DEF p
  <2>2. Proceeds(t, p)
    BY <1>2, <1>3, <2>1, RespondProceeds
  <2> QED
    BY <2>2 DEF p
<1>8. CASE b \notin Secret /\ persistent /\ b \notin Oversized
  <2> DEFINE c == [call[t] EXCEPT !.body = b]
  <2>1. p = Publish("store-artifact", m, k, b)
    BY <1>8 DEF StoreArtifact
  <2>2. call[t] \in CallTypes
    BY DEF IInv, StateInv
  <2>3. /\ c \in CallTypes /\ c.key = call[t].key /\ c.kind = call[t].kind
        /\ c.body = b
    BY <2>2 DEF CallTypes
  <2>4. Called("store-artifact", c)
    <3> HIDE DEF c
    <3> QED
      BY <1>1, <1>8, <2>3 DEF Called
  <2> HIDE DEF p
  <2>5. Proceeds(t, p)
    BY <1>1, <1>8, <2>1, <2>4, PublishProceeds
  <2> QED
    BY <2>5 DEF p
<1> QED
  BY <1>4, <1>5, <1>6, <1>7, <1>8

\* The same under the key of the request, then under the artifact's.
LEMMA StoreRequestProceeds ==
  ASSUME IInv, NEW t \in Tasks, NEW m, NEW b \in Bodies, NEW k,
         Acceptable(m), pc[t] = "called", call[t].kind = "remember",
         call[t].body = b, call[t].key = k
  PROVE  Proceeds(t, StoreRequest(m, k, b))
<1> DEFINE p == StoreRequest(m, k, b)
<1>1. Called(pc[t], call[t]) /\ k \in Keys /\ ~IsArtifact(k)
  BY DEF IInv, CallsInv, Called
<1>2. Acceptable(Popped(m, k))
  BY <1>1, AcceptableMemory DEF IInv
<1>3. \A n : Acceptable(n) => Proceeds(t, StoreArtifact(n, b))
  BY StoreArtifactProceeds
<1>4. CASE b \in Secret /\ persistent
  <2>1. p = Await("drop-request", Popped(m, k), "delete", k, Absent)
    BY <1>4 DEF StoreRequest
  <2>2. Called("drop-request", call[t])
    BY <1>1 DEF Called
  <2> HIDE DEF p
  <2>3. Proceeds(t, p)
    BY <1>1, <1>2, <1>4, <2>1, <2>2, AwaitProceeds
  <2> QED
    BY <2>3 DEF p
<1>5. CASE b \in Secret /\ ~persistent
  BY <1>2, <1>3, <1>5 DEF StoreRequest
<1>6. CASE b \notin Secret /\ ~persistent
  <2>1. Acceptable(Remembered(m, k, b))
    BY <1>1, <1>6, ValidKeys, AcceptableRemembered DEF Shared
  <2> QED
    BY <1>3, <1>6, <2>1 DEF StoreRequest
<1>7. CASE b \notin Secret /\ persistent /\ b \in Oversized
  BY <1>2, <1>3, <1>7 DEF StoreRequest
<1>8. CASE b \notin Secret /\ persistent /\ b \notin Oversized
  <2> DEFINE c == [call[t] EXCEPT !.body = b]
  <2>1. p = Publish("store-request", m, k, b)
    BY <1>8 DEF StoreRequest
  <2>2. call[t] \in CallTypes
    BY DEF IInv, StateInv
  <2>3. /\ c \in CallTypes /\ c.key = call[t].key /\ c.kind = call[t].kind
        /\ c.body = b
    BY <2>2 DEF CallTypes
  <2>4. Called("store-request", c)
    <3> HIDE DEF c
    <3> QED
      BY <1>1, <1>8, <2>3 DEF Called
  <2> HIDE DEF p
  <2>5. Proceeds(t, p)
    BY <1>1, <1>8, <2>1, <2>4, PublishProceeds
  <2> QED
    BY <2>5 DEF p
<1> QED
  BY <1>4, <1>5, <1>6, <1>7, <1>8

\* get_response() with a valid result.
LEMMA FoundProceeds ==
  ASSUME IInv, NEW t \in Tasks, NEW m, NEW b \in Bodies,
         Acceptable(m), pc[t] # "idle", call[t].kind = "lookup",
         ~Invalid(call[t].key, b)
  PROVE  Proceeds(t, Found(t, m, b))
<1>1. b \notin Secret /\ (IsArtifact(call[t].key) => call[t].key = ResolveKey(b))
  BY DEF Invalid
<1>2. CASE IsArtifact(call[t].key)
  <2>1. Found(t, m, b) = Respond(m, b, TRUE)
    BY <1>2 DEF Found, Immutable
  <2>2. Honest(call[t], [body |-> b, advertised |-> TRUE])
    BY <1>1 DEF Honest
  <2>3. Proceeds(t, Respond(m, b, TRUE))
    BY <1>2, <2>2, RespondProceeds
  <2> QED
    BY <2>1, <2>3
<1>3. CASE ~IsArtifact(call[t].key)
  <2>1. Found(t, m, b) = StoreArtifact(m, b)
    BY <1>3 DEF Found, Immutable
  <2>2. Proceeds(t, StoreArtifact(m, b))
    BY <1>1, <1>3, StoreArtifactProceeds
  <2> QED
    BY <2>1, <2>2
<1> QED
  BY <1>2, <1>3

\* A lookup that discards an invalid entry.
LEMMA DiscardProceeds ==
  ASSUME IInv, NEW t \in Tasks, NEW m, Acceptable(m),
         pc[t] # "idle", call[t].kind = "lookup"
  PROVE  Proceeds(t, DiscardInvalid(m, call[t].key))
<1>1. call[t].key \in Keys /\ Called("discard", call[t])
  BY DEF IInv, CallsInv, Called
<1>2. Honest(call[t], [body |-> Absent, advertised |-> FALSE])
  BY CacheAssumption DEF Honest, CacheAssumption
<1>3. CASE persistent
  BY <1>1, <1>3, AwaitProceeds DEF DiscardInvalid
<1>4. CASE ~persistent
  BY <1>2, <1>4, RespondProceeds DEF DiscardInvalid
<1> QED
  BY <1>3, <1>4

\* remember() up to its first await.
LEMMA RememberProceeds ==
  ASSUME IInv, NEW t \in Tasks, pc[t] = "called", call[t].kind = "remember"
  PROVE  Proceeds(t, Remembering(t))
<1>1. Acceptable(mem)
  BY AcceptableMemory DEF IInv
<1>2. call[t].body \in Bodies
  BY DEF IInv, CallsInv, Called
<1>3. CASE call[t].retain
  BY <1>1, <1>2, <1>3, StoreRequestProceeds DEF Remembering
<1>4. CASE ~call[t].retain
  <2>1. Remembering(t) = Respond(mem, call[t].body, FALSE)
    BY <1>4 DEF Remembering
  <2>2. Honest(call[t], [body |-> call[t].body, advertised |-> FALSE])
    BY <1>2 DEF Honest
  <2>3. Proceeds(t, Respond(mem, call[t].body, FALSE))
    BY <1>1, <1>2, <2>2, RespondProceeds
  <2> QED
    BY <2>1, <2>3
<1> QED
  BY <1>3, <1>4

\* get_response() up to its first await.
LEMMA LookupProceeds ==
  ASSUME IInv, NEW t \in Tasks, pc[t] = "called", call[t].kind = "lookup"
  PROVE  Proceeds(t, LookingUp(t))
<1> DEFINE k == call[t].key
           b == mem.body[k]
           p == LookingUp(t)
<1>1. Acceptable(mem)
  BY AcceptableMemory DEF IInv
<1>2. k \in Keys
  BY DEF IInv, CallsInv, Called
<1>3. Holds(mem, k) => Acceptable(Touched(mem, k))
  BY <1>1, <1>2, AcceptableMemory DEF IInv
<1>4. CASE Holds(mem, k)
  <2>1. ~Invalid(k, b) /\ b \in Bodies
    BY <1>2, <1>4 DEF IInv, Clean, Memory, Consistent, Holds
  <2>2. p = Found(t, Touched(mem, k), b)
    BY <1>4, <2>1 DEF LookingUp
  <2>3. Proceeds(t, Found(t, Touched(mem, k), b))
    BY <1>3, <1>4, <2>1, FoundProceeds
  <2> QED
    BY <2>2, <2>3
<1>5. CASE ~Holds(mem, k) /\ persistent
  <2>1. p = Await("read", mem, "get", k, Absent)
    BY <1>5 DEF LookingUp
  <2>2. Called("read", call[t])
    BY <1>2 DEF IInv, CallsInv, Called
  <2>3. Proceeds(t, Await("read", mem, "get", k, Absent))
    BY <1>1, <1>2, <1>5, <2>2, AwaitProceeds
  <2> QED
    BY <2>1, <2>3
<1>6. CASE ~Holds(mem, k) /\ ~persistent
  <2>1. p = Respond(mem, Absent, FALSE)
    BY <1>6 DEF LookingUp
  <2>2. Honest(call[t], [body |-> Absent, advertised |-> FALSE])
    BY CacheAssumption DEF Honest, CacheAssumption
  <2>3. Proceeds(t, Respond(mem, Absent, FALSE))
    BY <1>1, <2>2, RespondProceeds
  <2> QED
    BY <2>1, <2>3
<1> QED
  BY <1>4, <1>5, <1>6

LEMMA BeginProceeds ==
  ASSUME IInv, NEW t \in Tasks, pc[t] = "called"
  PROVE  Proceeds(t, Begin(t))
<1>1. call[t].kind \in {"remember", "lookup"}
  BY DEF IInv, CallsInv, Called
<1> QED
  BY <1>1, RememberProceeds, LookupProceeds DEF Begin

\* A task that resumes: v comes from the store, and what it awaited has been
\* published if it succeeded.
LEMMA ContinueProceeds ==
  ASSUME IInv, NEW t \in Tasks, NEW ok \in BOOLEAN, NEW v \in StoredValues,
         pc[t] \in Waiting, ok => Accepted(published, pc[t], call[t]),
         ok => \E e \in ready : e.ok /\ e.value = v /\ e.task = t
  PROVE  Proceeds(t, Continue(t, ok, v))
<1> DEFINE k == call[t].key
           b == call[t].body
           p == Continue(t, ok, v)
<1>1. Acceptable(mem)
  BY AcceptableMemory DEF IInv
<1>2. Called(pc[t], call[t]) /\ k \in Keys /\ persistent /\ pc[t] # "idle"
  BY DEF IInv, CallsInv, Called, Waiting
<1>3. call[t].kind = "lookup" => Honest(call[t], [body |-> Absent, advertised |-> FALSE])
  BY CacheAssumption DEF Honest, CacheAssumption
<1>4. CASE pc[t] = "read"
  <2>1. call[t].kind = "lookup"
    BY <1>2, <1>4 DEF Called
  <2>2. CASE ~ok \/ v = Absent
    <3>1. p = Respond(mem, Absent, FALSE)
      BY <1>4, <2>2 DEF Continue
    <3>2. Proceeds(t, Respond(mem, Absent, FALSE))
      BY <1>1, <1>3, <2>1, RespondProceeds
    <3> QED
      BY <3>1, <3>2
  <2>3. CASE ok /\ v # Absent /\ Invalid(k, v)
    <3>1. p = DiscardInvalid(mem, k)
      BY <1>4, <2>3 DEF Continue
    <3>2. Proceeds(t, DiscardInvalid(mem, k))
      BY <1>1, <1>2, <2>1, DiscardProceeds
    <3> QED
      BY <3>1, <3>2
  <2>4. CASE ok /\ v # Absent /\ ~Invalid(k, v) /\ Holds(mem, k)
    <3>1. p = Found(t, Touched(mem, k), mem.body[k])
      BY <1>4, <2>4 DEF Continue
    <3>2. mem.body[k] \in Bodies /\ ~Invalid(k, mem.body[k])
      BY <1>2, <2>4 DEF IInv, Clean, Memory, Consistent, Holds
    <3>3. Acceptable(Touched(mem, k))
      BY <1>1, <1>2, <2>4, AcceptableMemory DEF IInv
    <3>4. Proceeds(t, Found(t, Touched(mem, k), mem.body[k]))
      BY <1>2, <2>1, <3>2, <3>3, FoundProceeds
    <3> QED
      BY <3>1, <3>4
  <2>5. CASE ok /\ v # Absent /\ ~Invalid(k, v) /\ ~Holds(mem, k)
    <3>1. p = Found(t, Remembered(mem, k, v), v)
      BY <1>4, <2>5 DEF Continue
    <3>2. v \in Bodies
      BY <2>5 DEF StoredValues, Invalid
    <3>3. Shared(k, v)
      BY <2>5 DEF Shared
    <3>4. Acceptable(Remembered(mem, k, v))
      BY <1>1, <1>2, <2>5, <3>2, <3>3, AcceptableRemembered
    <3>5. Proceeds(t, Found(t, Remembered(mem, k, v), v))
      BY <1>2, <2>1, <2>5, <3>2, <3>4, FoundProceeds
    <3> QED
      BY <3>1, <3>5
  <2> QED
    BY <2>2, <2>3, <2>4, <2>5
<1>5. CASE pc[t] = "discard"
  <2>1. p = Respond(mem, Absent, FALSE)
    BY <1>5 DEF Continue
  <2>2. call[t].kind = "lookup"
    BY <1>2, <1>5 DEF Called
  <2>3. Proceeds(t, Respond(mem, Absent, FALSE))
    BY <1>1, <1>3, <2>2, RespondProceeds
  <2> QED
    BY <2>1, <2>3
<1>6. CASE pc[t] = "store-request"
  <2> DEFINE m == IF ok THEN Remembered(mem, k, b) ELSE mem
  <2>1. p = StoreArtifact(m, b)
    BY <1>6 DEF Continue
  <2>2. /\ b \in Bodies \ Secret /\ call[t].kind = "remember" /\ ~IsArtifact(k)
    BY <1>2, <1>6 DEF Called
  <2>3. ok => Shared(k, b)
    BY <1>6 DEF Accepted, Shared
  <2>4. Acceptable(m)
    BY <1>1, <1>2, <2>2, <2>3, ValidKeys, AcceptableRemembered
  <2> HIDE DEF m
  <2>5. Proceeds(t, StoreArtifact(m, b))
    BY <1>2, <2>2, <2>4, StoreArtifactProceeds
  <2> QED
    BY <2>1, <2>5
<1>7. CASE pc[t] = "drop-request"
  <2>1. p = StoreArtifact(mem, b)
    BY <1>7 DEF Continue
  <2>2. b \in Bodies /\ call[t].kind = "remember"
    BY <1>2, <1>7 DEF Called
  <2>3. Proceeds(t, StoreArtifact(mem, b))
    BY <1>1, <1>2, <2>2, StoreArtifactProceeds
  <2> QED
    BY <2>1, <2>3
<1>8. CASE pc[t] = "store-artifact"
  <2> DEFINE m == IF ok THEN Remembered(mem, ResolveKey(b), b) ELSE mem
  <2>1. p = Respond(m, b, ok)
    BY <1>8 DEF Continue
  <2>2. b \in Bodies \ Secret
    BY <1>2, <1>8 DEF Called
  <2>3. ok => <<ResolveKey(b), b>> \in published
    BY <1>8 DEF Accepted
  <2>4. Acceptable(m)
    BY <1>1, <2>2, <2>3, KeyKinds, ValidKeys, AcceptableRemembered DEF Shared
  <2>5. Honest(call[t], [body |-> b, advertised |-> ok])
    BY <1>2, <1>8, <2>2 DEF Called, Honest
  <2> HIDE DEF m
  <2>6. Proceeds(t, Respond(m, b, ok))
    BY <1>2, <2>2, <2>3, <2>4, <2>5, RespondProceeds
  <2> QED
    BY <2>1, <2>6
<1>9. CASE pc[t] = "drop-artifact"
  <2>1. p = Respond(mem, b, FALSE)
    BY <1>9 DEF Continue
  <2>2. b \in Bodies /\ call[t].kind = "remember"
    BY <1>2, <1>9 DEF Called
  <2>3. Honest(call[t], [body |-> b, advertised |-> FALSE])
    BY <2>2 DEF Honest
  <2>4. Proceeds(t, Respond(mem, b, FALSE))
    BY <1>1, <2>2, <2>3, RespondProceeds
  <2> QED
    BY <2>1, <2>4
<1> QED
  BY <1>4, <1>5, <1>6, <1>7, <1>8, <1>9 DEF Waiting

-----------------------------------------------------------------------------
(* The queue and the completed operations.                                  *)

\* s2 is the elements of s, without that at i.
Picks(s2, s, i) ==
    \E f \in [1..Len(s2) -> 1..Len(s)] :
        /\ \A j, n \in 1..Len(s2) : j # n => f[j] # f[n]
        /\ \A j \in 1..Len(s2) : f[j] # i /\ s2[j] = s[f[j]]

\* RemoveAt removes one operation from a sequence of them.
LEMMA RemovalMap ==
  ASSUME NEW S, NEW s \in Seq(S), NEW i \in 1..Len(s)
  PROVE  Picks(RemoveAt(s, i), s, i)
<1> DEFINE r == RemoveAt(s, i)
           f == [j \in 1..Len(r) |-> IF j < i THEN j ELSE j + 1]
<1>1. /\ Len(s) \in Nat /\ Len(r) = Len(s) - 1
      /\ \A j \in 1..(Len(s) - 1) : r[j] = IF j < i THEN s[j] ELSE s[j + 1]
  BY RemoveAtElements, LenProperties
<1> HIDE DEF r
<1>2. f \in [1..Len(r) -> 1..Len(s)]
  BY <1>1
<1>3. \A j, n \in 1..Len(r) : j # n => f[j] # f[n]
  BY <1>1
<1>4. \A j \in 1..Len(r) : f[j] # i /\ r[j] = s[f[j]]
  BY <1>1
<1> HIDE DEF f
<1> QED
  BY <1>2, <1>3, <1>4 DEF r, Picks

\* Tail removes the first.
LEMMA TailMap ==
  ASSUME NEW S, NEW s \in Seq(S), s # <<>>
  PROVE  /\ Tail(s) \in Seq(S) /\ 1 \in 1..Len(s) /\ Head(s) = s[1]
         /\ Picks(Tail(s), s, 1)
BY TailRemoves, RemovalMap

\* An operation leaves the queue; if it was awaited, nothing else was
\* outstanding for its task.
LEMMA LeaveQueue ==
  ASSUME NEW q, NEW r, Outstanding(q, r), Single(q, r), NEW i \in 1..Len(q),
         NEW q2 \in Seq(Operations), Picks(q2, q, i)
  PROVE  /\ Outstanding(q2, r) /\ Single(q2, r)
         /\ q[i].awaited => Free(q[i].task, q2, r)
<1>0. PICK f \in [1..Len(q2) -> 1..Len(q)] :
        /\ \A j, n \in 1..Len(q2) : j # n => f[j] # f[n]
        /\ \A j \in 1..Len(q2) : f[j] # i /\ q2[j] = q[f[j]]
  BY DEF Picks
<1>1. ASSUME NEW j \in 1..Len(q2)
      PROVE  /\ Publishable(q2[j])
             /\ q2[j].awaited => Expected(pc[q2[j].task], call[q2[j].task], q2[j])
             /\ q[i].awaited /\ q2[j].awaited => q2[j].task # q[i].task
             /\ \A e \in r : q2[j].awaited => q2[j].task # e.task
  <2>1. f[j] \in 1..Len(q) /\ f[j] # i /\ q2[j] = q[f[j]]
    BY <1>0
  <2> QED
    BY <2>1 DEF Outstanding, Single
<1>2. ASSUME NEW j \in 1..Len(q2), NEW n \in 1..Len(q2),
             j # n, q2[j].awaited, q2[n].awaited
      PROVE  q2[j].task # q2[n].task
  <2>1. /\ f[j] \in 1..Len(q) /\ f[n] \in 1..Len(q) /\ f[j] # f[n]
        /\ q2[j] = q[f[j]] /\ q2[n] = q[f[n]]
    BY <1>0, <1>2
  <2> QED
    BY <1>2, <2>1 DEF Single
<1>3. /\ Outstanding(q2, r)
      /\ \A e, f2 \in r : e # f2 => e.task # f2.task
  BY <1>1 DEF Outstanding, Single
<1>4. q[i].awaited => \A e \in r : e.task # q[i].task
  BY DEF Single
<1> QED
  BY <1>1, <1>2, <1>3, <1>4 DEF Single, Free

\* The completed operations of the others.
LEMMA OthersReady ==
  ASSUME IInv, NEW t \in Tasks, NEW q, Outstanding(q, ready), Single(q, ready),
         \A i \in 1..Len(q) : q[i].awaited => q[i].task # t
  PROVE  Outstanding(q, ReadyBut(t)) /\ Single(q, ReadyBut(t)) /\ Free(t, q, ReadyBut(t))
BY DEF Outstanding, Single, Free, ReadyBut

\* A completed operation of a task for which nothing was outstanding.
LEMMA JoinReady ==
  ASSUME NEW t \in Tasks, NEW q, NEW r, Outstanding(q, r), Single(q, r), Free(t, q, r),
         pc[t] \in Waiting, NEW e \in Completed, e.task = t,
         e.ok => Accepted(published, pc[t], call[t])
  PROVE  Outstanding(q, r \cup {e}) /\ Single(q, r \cup {e})
<1>1. Outstanding(q, r \cup {e})
  BY DEF Outstanding
<1>2. Single(q, r \cup {e})
  BY DEF Single, Free
<1> QED
  BY <1>1, <1>2

\* An operation stays in the queue for nobody.
LEMMA Disowned ==
  ASSUME NEW q, NEW r, Outstanding(q, r), Single(q, r), NEW i \in 1..Len(q),
         q[i].awaited
  PROVE  LET q2 == [q EXCEPT ![i].awaited = FALSE]
         IN  Outstanding(q2, r) /\ Single(q2, r) /\ Free(q[i].task, q2, r)
<1> DEFINE o == [q[i] EXCEPT !.awaited = FALSE]
           q2 == [q EXCEPT ![i] = o]
<1>1. q \in Seq(Operations) /\ q[i] \in Operations
  BY ElementOfSeq DEF Outstanding
<1>2. /\ o \in Operations /\ o.task = q[i].task /\ o.kind = q[i].kind
      /\ o.key = q[i].key /\ o.value = q[i].value /\ o.awaited = FALSE
  BY <1>1 DEF Operations
<1> HIDE DEF o
<1>3. q2 \in Seq(Operations) /\ Len(q2) = Len(q)
  BY <1>1, <1>2, ExceptSeq
<1>4. \A j \in 1..Len(q) : q2[j] = IF j = i THEN o ELSE q[j]
  BY <1>1
<1> HIDE DEF q2
<1>5. Outstanding(q2, r)
  BY <1>2, <1>3, <1>4 DEF Outstanding, Publishable
<1>6. Single(q2, r) /\ Free(q[i].task, q2, r)
  BY <1>2, <1>3, <1>4 DEF Single, Free
<1> QED
  BY <1>5, <1>6 DEF q2, o

-----------------------------------------------------------------------------
(* The invariant holds at first and every step keeps it.                    *)

\* The initial state: any store, an empty memory, nobody called.
LEMMA IInvInit == Init => IInv
<1> SUFFICES ASSUME Init PROVE IInv
  OBVIOUS
<1>1. StateInv
  <2>1. store \in [Keys -> StoredValues]
    BY DEF Init, StoredValues
  <2>2. NoCall \in CallTypes /\ Unanswered \in
            [status : {"pending", "response"}, body : Bodies \cup {Absent},
             advertised : BOOLEAN]
    BY DEF NoCall, CallTypes, Unanswered
  <2> QED
    BY <2>1, <2>2 DEF Init, StateInv, Labels
<1>2. Clean(mem)
  <2>1. EmptyMemory.body = [k \in Keys |-> Absent]
    BY DEF EmptyMemory
  <2>2. Memory(EmptyMemory)
    <3>1. /\ EmptyMemory.order = <<>> /\ EmptyMemory.bytes = 0
          /\ EmptyMemory = [order |-> <<>>, body |-> EmptyMemory.body, bytes |-> 0]
      BY DEF EmptyMemory
    <3>2. <<>> \in Seq(Keys) /\ Len(<<>>) = 0 /\ IsInjective(<<>>)
          /\ \A k : ~Contains(<<>>, k)
      BY EmptySeq DEF IsInjective, Contains
    <3>3. Weighs(EmptyMemory, <<>>) /\ Sums([n \in 0..0 |-> 0], EmptyMemory, <<>>)
      BY <3>2 DEF Weighs, Sums
    <3>4. BytesOf(EmptyMemory, <<>>) = 0
      <4>1. BytesOf(EmptyMemory, <<>>) = [n \in 0..0 |-> 0][Len(<<>>)]
        BY <3>2, <3>3, BytesAre
      <4> QED
        BY <3>2, <4>1
    <3>5. \A k \in Keys : ~Holds(EmptyMemory, k)
      BY <2>1 DEF Holds
    <3>6. Consistent(EmptyMemory)
      BY <2>1, <3>1, <3>2, <3>4, <3>5 DEF Consistent
    <3> QED
      BY <3>1, <3>2, <3>6, CacheAssumption DEF Memory, WithinLimits, CacheAssumption
  <2> QED
    BY <2>1, <2>2 DEF Init, Clean, Holds
<1>3. CallsInv /\ AnswersInv
  BY DEF Init, CallsInv, AnswersInv, Called, NoCall, CallTypes, Waiting
<1>4. Outstanding(queue, ready) /\ Single(queue, ready)
  BY EmptySeq DEF Init, Outstanding, Single
<1> QED
  BY <1>1, <1>2, <1>3, <1>4 DEF IInv

\* A task that awaits nothing is Free.
LEMMA CalledIsFree ==
  ASSUME IInv, NEW t \in Tasks, pc[t] \notin Waiting
  PROVE  Free(t, queue, ready)
BY DEF IInv, Outstanding, Expected, Free

\* The step of a task leaves what is outstanding for the others as it was.
LEMMA Moved ==
  ASSUME NEW t \in Tasks, NEW q, NEW r, Outstanding(q, r), Free(t, q, r),
         \A u \in Tasks : u # t => pc'[u] = pc[u] /\ call'[u] = call[u]
  PROVE  /\ \A i \in 1..Len(q) :
               q[i].awaited => Expected(pc'[q[i].task], call'[q[i].task], q[i])
         /\ \A e \in r :
               /\ pc'[e.task] \in Waiting
               /\ e.ok => Accepted(published, pc'[e.task], call'[e.task])
<1>1. ASSUME NEW i \in 1..Len(q), q[i].awaited
      PROVE  Expected(pc'[q[i].task], call'[q[i].task], q[i])
  <2>1. q[i] \in Operations /\ q[i].task # t
    BY <1>1, ElementOfSeq DEF Outstanding, Free
  <2>2. q[i].task \in Tasks
    BY <2>1 DEF Operations
  <2> QED
    BY <1>1, <2>1, <2>2 DEF Outstanding
<1>2. ASSUME NEW e \in r
      PROVE  /\ pc'[e.task] \in Waiting
             /\ e.ok => Accepted(published, pc'[e.task], call'[e.task])
  <2>1. e \in Completed /\ e.task # t
    BY DEF Outstanding, Free
  <2>2. e.task \in Tasks
    BY <2>1 DEF Completed
  <2> QED
    BY <2>1, <2>2 DEF Outstanding
<1> QED
  BY <1>1, <1>2

\* A response keeps the invariant.
LEMMA RespondsStep ==
  ASSUME IInv, NEW t \in Tasks, NEW p, Takes(t, p), Responds(t, p), Acceptable(p.mem),
         Free(t, queue, ReadyBut(t)), pc[t] \notin {"idle", "done"}
  PROVE  IInv'
<1>1. /\ mem' = p.mem /\ pc' = [pc EXCEPT ![t] = "done"] /\ UNCHANGED call
      /\ answer' = [answer EXCEPT ![t] = p.answer]
      /\ queue' = queue /\ ready' = ReadyBut(t)
      /\ UNCHANGED <<persistent, store, published>>
  BY DEF Takes, Carries, Submits, Responds
<1>2. /\ p.answer \in [status : {"response"}, body : Bodies \cup {Absent}, advertised : BOOLEAN]
      /\ Honest(call[t], p.answer)
  BY DEF Responds
<1>3. StateInv /\ CallsInv /\ AnswersInv
  BY DEF IInv
<1>4. pc'[t] = "done" /\ \A u \in Tasks : u # t => pc'[u] = pc[u]
  BY <1>1, <1>3 DEF StateInv
<1>5. StateInv'
  BY <1>1, <1>2, <1>3 DEF StateInv, Labels
<1>6. CallsInv'
  <2>1. Called("done", call[t])
    BY <1>3 DEF CallsInv, Called
  <2>2. "done" \notin Waiting
    BY DEF Waiting
  <2> QED
    BY <1>1, <1>3, <1>4, <2>1, <2>2 DEF CallsInv
<1>7. AnswersInv'
  BY <1>1, <1>2, <1>3, <1>4 DEF AnswersInv, StateInv
<1>8. Outstanding(queue, ReadyBut(t)) /\ Single(queue, ReadyBut(t))
  BY OthersReady DEF IInv, Free
<1>9. Outstanding(queue, ready)'
  <2>1. /\ \A i \in 1..Len(queue) : queue[i].awaited =>
              Expected(pc'[queue[i].task], call'[queue[i].task], queue[i])
        /\ \A e \in ReadyBut(t) :
              /\ pc'[e.task] \in Waiting
              /\ e.ok => Accepted(published, pc'[e.task], call'[e.task])
    BY <1>1, <1>4, <1>8, Moved
  <2> QED
    BY <1>1, <1>8, <2>1 DEF Outstanding
<1>10. Single(queue, ready)' /\ Clean(mem)'
  BY <1>1, <1>8 DEF Single, Acceptable
<1> QED
  BY <1>5, <1>6, <1>7, <1>9, <1>10 DEF IInv

\* So does an operation that a task submits.
LEMMA AwaitsStep ==
  ASSUME IInv, NEW t \in Tasks, NEW p, Takes(t, p), Awaits(t, p), Acceptable(p.mem),
         Free(t, queue, ReadyBut(t)), pc[t] \notin {"idle", "done"}
  PROVE  IInv'
<1> DEFINE o == Submitted(t, p)
           c == CalledFor(t, p)
<1>1. StateInv /\ CallsInv /\ AnswersInv
  BY DEF IInv
<1>2. /\ persistent /\ p.next \in Waiting /\ p.next # "done"
      /\ Called(p.next, c) /\ c \in CallTypes
      /\ o \in Operations /\ Publishable(o) /\ Expected(p.next, c, o)
      /\ o.task = t /\ o.awaited
  BY DEF Awaits, Called, Waiting, Submitted
<1>3. /\ mem' = p.mem /\ pc' = [pc EXCEPT ![t] = p.next] /\ UNCHANGED answer
      /\ call' = [call EXCEPT ![t] = c]
      /\ UNCHANGED <<persistent, store, published>>
  BY <1>1, <1>2 DEF Takes, Carries, CalledFor, StateInv
<1>4. \/ queue' = Append(queue, o) /\ ready' = ReadyBut(t)
      \/ queue' = queue /\ ready' = ReadyBut(t) \cup {NotCompleted(t)}
  BY <1>2 DEF Takes, Submits, Submitted
<1> HIDE DEF o, c
<1>5. /\ pc'[t] = p.next /\ call'[t] = c
      /\ \A u \in Tasks : u # t => pc'[u] = pc[u] /\ call'[u] = call[u]
  BY <1>1, <1>3 DEF StateInv
<1>6. StateInv'
  BY <1>1, <1>2, <1>3 DEF StateInv, Labels
<1>7. CallsInv'
  BY <1>1, <1>2, <1>3, <1>5 DEF CallsInv
<1>8. AnswersInv'
  BY <1>1, <1>3, <1>5 DEF AnswersInv
<1>9. /\ Outstanding(queue, ReadyBut(t)) /\ Single(queue, ReadyBut(t))
      /\ queue \in Seq(Operations) /\ ReadyBut(t) \subseteq Completed
  BY OthersReady DEF IInv, Free, Outstanding
<1>10. /\ \A i \in 1..Len(queue) : queue[i].awaited =>
              Expected(pc'[queue[i].task], call'[queue[i].task], queue[i])
       /\ \A e \in ReadyBut(t) :
              /\ pc'[e.task] \in Waiting
              /\ e.ok => Accepted(published, pc'[e.task], call'[e.task])
  BY <1>5, <1>9, Moved
<1>11. ASSUME queue' = Append(queue, o) /\ ready' = ReadyBut(t)
       PROVE  Outstanding(queue, ready)' /\ Single(queue, ready)'
  <2>1. /\ queue' \in Seq(Operations) /\ Len(queue') = Len(queue) + 1
        /\ \A i \in 1..Len(queue) : queue'[i] = queue[i]
        /\ queue'[Len(queue) + 1] = o /\ Len(queue) \in Nat
    BY <1>2, <1>9, <1>11, AppendProperties, LenProperties
  <2>2. \A i \in 1..Len(queue') : i \in 1..Len(queue) \/ i = Len(queue) + 1
    BY <2>1
  <2>3. \A i \in 1..Len(queue') : Publishable(queue'[i])
    BY <1>2, <1>9, <2>1, <2>2 DEF Outstanding
  <2>4. ASSUME NEW i \in 1..Len(queue'), queue'[i].awaited
        PROVE  Expected(pc'[queue'[i].task], call'[queue'[i].task], queue'[i])
    BY <1>2, <1>5, <1>10, <2>1, <2>2, <2>4
  <2>5. Outstanding(queue, ready)'
    BY <1>3, <1>9, <1>10, <1>11, <2>1, <2>3, <2>4 DEF Outstanding
  <2>6. ASSUME NEW i \in 1..Len(queue'), NEW j \in 1..Len(queue'),
               i # j, queue'[i].awaited, queue'[j].awaited
        PROVE  queue'[i].task # queue'[j].task
    BY <1>2, <1>9, <2>1, <2>2, <2>6 DEF Single, Free
  <2>7. ASSUME NEW i \in 1..Len(queue'), NEW e \in ready', queue'[i].awaited
        PROVE  queue'[i].task # e.task
    BY <1>2, <1>9, <1>11, <2>1, <2>2, <2>7 DEF Single, Free
  <2>8. \A e, f \in ready' : e # f => e.task # f.task
    BY <1>9, <1>11 DEF Single
  <2>9. Single(queue, ready)'
    BY <2>6, <2>7, <2>8 DEF Single
  <2> QED
    BY <2>5, <2>9
<1>12. ASSUME queue' = queue /\ ready' = ReadyBut(t) \cup {NotCompleted(t)}
       PROVE  Outstanding(queue, ready)' /\ Single(queue, ready)'
  <2>1. NotCompleted(t) \in Completed /\ NotCompleted(t).task = t /\ ~NotCompleted(t).ok
    BY DEF NotCompleted, Completion, Completed, StoredValues
  <2>2. Outstanding(queue, ready)'
    BY <1>2, <1>3, <1>5, <1>9, <1>10, <1>12, <2>1 DEF Outstanding
  <2>3. Single(queue, ready)'
    BY <1>9, <1>12, <2>1 DEF Single, Free
  <2> QED
    BY <2>2, <2>3
<1>13. Clean(mem)'
  BY <1>3 DEF Acceptable
<1> QED
  BY <1>4, <1>6, <1>7, <1>8, <1>11, <1>12, <1>13 DEF IInv

\* The pieces that tasks take.
LEMMA TaskProceeds ==
  ASSUME IInv, NEW t \in Tasks, Start(t) \/ Resume(t)
  PROVE  /\ pc[t] \notin {"idle", "done"} /\ Free(t, queue, ReadyBut(t))
         /\ \E p : Takes(t, p) /\ Proceeds(t, p)
<1>1. CASE Start(t)
  <2>1. pc[t] = "called" /\ Takes(t, Begin(t))
    BY <1>1 DEF Start
  <2>2. Free(t, queue, ready) /\ Proceeds(t, Begin(t))
    BY <2>1, CalledIsFree, BeginProceeds DEF Waiting
  <2> QED
    BY <2>1, <2>2 DEF Free, ReadyBut
<1>2. CASE Resume(t)
  <2>1. PICK e \in ready : e.task = t /\ Takes(t, Continue(t, e.ok, e.value))
    BY <1>2 DEF Resume
  <2>2. /\ e \in Completed /\ pc[t] \in Waiting
        /\ e.ok => Accepted(published, pc[t], call[t])
        /\ \A i \in 1..Len(queue) : queue[i].awaited => queue[i].task # t
    BY <2>1 DEF IInv, Outstanding, Single
  <2>3. Proceeds(t, Continue(t, e.ok, e.value))
    BY <2>1, <2>2, ContinueProceeds DEF Completed
  <2>4. Free(t, queue, ReadyBut(t))
    BY <2>2 DEF Free, ReadyBut
  <2> QED
    BY <2>1, <2>2, <2>3, <2>4 DEF Waiting
<1> QED
  BY <1>1, <1>2

\* What a timeout leaves: the operation has left the queue, or nobody awaits
\* it, or its completion is dropped.
LEMMA TimeOutStep ==
  ASSUME IInv, NEW t \in Tasks, TimeOut(t)
  PROVE  IInv'
<1>1. /\ pc[t] \in Waiting /\ ready' = ReadyBut(t) \cup {NotCompleted(t)}
      /\ UNCHANGED <<persistent, mem, store, pc, call, answer, published>>
  BY DEF TimeOut
<1>2. queue \in Seq(Operations) /\ Outstanding(queue, ready) /\ Single(queue, ready)
  BY DEF IInv, Outstanding
<1> DEFINE Left == /\ Outstanding(queue', ready) /\ Single(queue', ready)
                  /\ \A i \in 1..Len(queue') : queue'[i].awaited => queue'[i].task # t
<1>3. Left
  <2>1. ASSUME NEW i \in 1..Len(queue), queue[i].task = t, queue[i].awaited,
               queue' = RemoveAt(queue, i)
        PROVE  Left
    <3>1. RemoveAt(queue, i) \in Seq(Operations) /\ Picks(RemoveAt(queue, i), queue, i)
      BY <1>2, RemoveAtElements, RemovalMap
    <3>2. /\ Outstanding(RemoveAt(queue, i), ready) /\ Single(RemoveAt(queue, i), ready)
          /\ Free(t, RemoveAt(queue, i), ready)
      BY <1>2, <2>1, <3>1, LeaveQueue
    <3> QED
      BY <2>1, <3>2 DEF Free
  <2>2. ASSUME NEW i \in 1..Len(queue), queue[i].task = t, queue[i].awaited,
               queue' = [queue EXCEPT ![i].awaited = FALSE]
        PROVE  Left
    <3>1. LET q2 == [queue EXCEPT ![i].awaited = FALSE]
          IN  Outstanding(q2, ready) /\ Single(q2, ready) /\ Free(queue[i].task, q2, ready)
      BY <1>2, <2>2, Disowned
    <3> QED
      BY <2>2, <3>1 DEF Free
  <2>3. ASSUME NEW e \in ready, e.task = t, UNCHANGED queue
        PROVE  Left
    BY <1>2, <2>3 DEF Single
  <2> QED
    BY <2>1, <2>2, <2>3 DEF TimeOut
<1>4. /\ Outstanding(queue', ReadyBut(t)) /\ Single(queue', ReadyBut(t))
      /\ Free(t, queue', ReadyBut(t))
  BY <1>3, OthersReady
<1>5. NotCompleted(t) \in Completed /\ NotCompleted(t).task = t /\ ~NotCompleted(t).ok
  BY DEF NotCompleted, Completion, Completed, StoredValues
<1>6. Outstanding(queue', ready') /\ Single(queue', ready')
  BY <1>1, <1>4, <1>5, JoinReady
<1>7. StateInv' /\ CallsInv' /\ AnswersInv' /\ Clean(mem)'
  BY <1>1 DEF IInv, StateInv, CallsInv, AnswersInv
<1>8. Outstanding(queue, ready)' /\ Single(queue, ready)'
  BY <1>1, <1>6 DEF Outstanding, Single
<1> QED
  BY <1>7, <1>8 DEF IInv

\* A task is called.
LEMMA CallStep ==
  ASSUME IInv, NEW t \in Tasks, NEW c \in Calls, Call(t, c)
  PROVE  IInv'
<1>1. /\ c \in CallTypes /\ c.kind \in {"remember", "lookup"} /\ c.key \in Keys
      /\ c.kind = "remember" => c.body \in Bodies /\ ~IsArtifact(c.key)
  BY KeyKinds DEF Calls, CallTypes
<1>2. /\ pc[t] = "idle" /\ pc' = [pc EXCEPT ![t] = "called"]
      /\ call' = [call EXCEPT ![t] = c]
      /\ UNCHANGED <<persistent, mem, store, queue, ready, answer, published>>
  BY DEF Call
<1>3. StateInv /\ CallsInv /\ AnswersInv /\ Outstanding(queue, ready) /\ Free(t, queue, ready)
  BY <1>2, CalledIsFree DEF IInv, Waiting
<1>4. /\ pc'[t] = "called" /\ call'[t] = c
      /\ \A u \in Tasks : u # t => pc'[u] = pc[u] /\ call'[u] = call[u]
  BY <1>2, <1>3 DEF StateInv
<1>5. StateInv'
  BY <1>1, <1>2, <1>3 DEF StateInv, Labels
<1>6. CallsInv'
  <2>1. Called("called", c) /\ "called" \notin Waiting
    BY <1>1 DEF Called, Waiting
  <2> QED
    BY <1>2, <1>3, <1>4, <2>1 DEF CallsInv
<1>7. AnswersInv'
  BY <1>2, <1>3, <1>4 DEF AnswersInv
<1>8. Outstanding(queue, ready)'
  <2>1. /\ \A i \in 1..Len(queue) : queue[i].awaited =>
              Expected(pc'[queue[i].task], call'[queue[i].task], queue[i])
        /\ \A e \in ready :
              /\ pc'[e.task] \in Waiting
              /\ e.ok => Accepted(published, pc'[e.task], call'[e.task])
    BY <1>3, <1>4, Moved
  <2> QED
    BY <1>2, <1>3, <2>1 DEF Outstanding
<1>9. Single(queue, ready)' /\ Clean(mem)'
  BY <1>2 DEF IInv, Single
<1> QED
  BY <1>5, <1>6, <1>7, <1>8, <1>9 DEF IInv

\* The store completes the first operation of the queue.
LEMMA CompleteStep ==
  ASSUME IInv, queue # <<>>, NEW ok \in BOOLEAN, NEW v \in StoredValues,
         Complete(Head(queue), ok, v),
         store' \in [Keys -> StoredValues], published \subseteq published',
         ok /\ Head(queue).kind # "get" =>
            <<Head(queue).key, Head(queue).value>> \in published',
         UNCHANGED <<persistent, mem, pc, call, answer>>
  PROVE  IInv'
<1>1. queue \in Seq(Operations) /\ Outstanding(queue, ready) /\ Single(queue, ready)
  BY DEF IInv, Outstanding
<1>2. PICK o : o = Head(queue)
  OBVIOUS
<1>3. PICK done : done = Completion(o.task, ok, v)
  OBVIOUS
<1>4. Tail(queue) \in Seq(Operations) /\ 1 \in 1..Len(queue) /\ o = queue[1]
  BY <1>1, <1>2, TailMap
<1>5. Picks(Tail(queue), queue, 1)
  BY <1>1, TailMap
<1>6. /\ Outstanding(Tail(queue), ready) /\ Single(Tail(queue), ready)
      /\ o.awaited => Free(o.task, Tail(queue), ready)
  BY <1>1, <1>4, <1>5, LeaveQueue
<1>7. o \in Operations /\ (o.awaited => Expected(pc[o.task], call[o.task], o))
  BY <1>1, <1>4, ElementOfSeq DEF Outstanding
<1>8. /\ done \in Completed /\ done.task = o.task /\ done.ok = ok
      /\ o.awaited => pc[done.task] \in Waiting
  BY <1>3, <1>7 DEF Completed, Completion, Operations, Expected
<1>9. o.awaited /\ ok => Accepted(published', pc[done.task], call[done.task])
  BY <1>2, <1>7, <1>8 DEF Expected, Accepted
<1>10. queue' = Tail(queue) /\ ready' = IF o.awaited THEN ready \cup {done} ELSE ready
  BY <1>2, <1>3 DEF Complete
<1>11. StateInv'
  BY DEF IInv, StateInv
<1>12. CallsInv' /\ AnswersInv' /\ Clean(mem)'
  BY DEF IInv, CallsInv, AnswersInv
<1>13. \A l, c : Accepted(published, l, c) => Accepted(published', l, c)
  BY DEF Accepted
<1>14. \A e \in ready' :
          /\ e \in Completed /\ pc[e.task] \in Waiting
          /\ e.ok => Accepted(published', pc[e.task], call[e.task])
  BY <1>1, <1>8, <1>9, <1>10, <1>13 DEF Outstanding
<1>15. Outstanding(queue, ready)'
  BY <1>6, <1>10, <1>14 DEF Outstanding
<1>16. Single(queue, ready)'
  BY <1>6, <1>8, <1>10 DEF Single, Free
<1> QED
  BY <1>11, <1>12, <1>15, <1>16 DEF IInv

\* The store applies the first operation, or fails.
LEMMA ApplyStep ==
  ASSUME IInv, Apply
  PROVE  IInv'
<1> DEFINE o == Head(queue)
<1>0. PICK ok \in BOOLEAN, v \in StoredValues : ApplyWith(ok, v)
  BY DEF Apply
<1>1. /\ queue # <<>> /\ UNCHANGED <<persistent, mem, pc, call, answer>>
      /\ Performed(o, ok, v) /\ Complete(o, ok, v)
  BY <1>0 DEF ApplyWith
<1>2. o \in Operations /\ Publishable(o)
  <2>1. queue \in Seq(Operations) /\ \A i \in 1..Len(queue) : Publishable(queue[i])
    BY DEF IInv, Outstanding
  <2>2. 1 \in 1..Len(queue) /\ o = queue[1]
    BY <1>1, <2>1, TailMap
  <2> QED
    BY <2>1, <2>2, ElementOfSeq
<1>3. /\ store \in [Keys -> StoredValues] /\ o.key \in Keys
      /\ Absent \in StoredValues
      /\ o.kind # "get" => o.value \in StoredValues
  BY <1>2 DEF IInv, StateInv, Operations, Publishable, StoredValues
<1> HIDE DEF o
<1>4. /\ store' \in [Keys -> StoredValues] /\ published \subseteq published'
      /\ ok /\ o.kind # "get" => <<o.key, o.value>> \in published'
  BY <1>1, <1>3 DEF Performed
<1> QED
  BY <1>1, <1>4, CompleteStep DEF o

\* Steps that change nothing that the invariant is about, but the store.
LEMMA QuietStep ==
  ASSUME IInv, store' \in [Keys -> StoredValues],
         UNCHANGED <<persistent, mem, queue, ready, pc, call, answer, published>>
  PROVE  IInv'
<1>1. StateInv'
  BY DEF IInv, StateInv
<1>2. CallsInv' /\ Clean(mem)'
  BY DEF IInv, CallsInv
<1>3. AnswersInv'
  BY DEF IInv, AnswersInv
<1>4. Outstanding(queue, ready)'
  BY DEF IInv, Outstanding
<1>5. Single(queue, ready)'
  BY DEF IInv
<1> QED
  BY <1>1, <1>2, <1>3, <1>4, <1>5 DEF IInv

\* The invariant is inductive.
LEMMA IInvStep == IInv /\ [Next]_vars => IInv'
<1> SUFFICES ASSUME IInv, [Next]_vars PROVE IInv'
  OBVIOUS
<1>1. ASSUME NEW t \in Tasks, Start(t) \/ Resume(t)
      PROVE  IInv'
  <2>1. /\ pc[t] \notin {"idle", "done"} /\ Free(t, queue, ReadyBut(t))
        /\ \E p : Takes(t, p) /\ Proceeds(t, p)
    BY <1>1, TaskProceeds
  <2> QED
    BY <2>1, RespondsStep, AwaitsStep DEF Proceeds
<1>2. ASSUME NEW t \in Tasks, NEW c \in Calls, Call(t, c)
      PROVE  IInv'
  BY <1>2, CallStep
<1>3. CASE Apply
  BY <1>3, ApplyStep
<1>4. CASE Write
  <2> DEFINE o == Head(queue)
  <2>1. /\ queue # <<>> /\ o.kind = "set"
        /\ store' = [store EXCEPT ![o.key] = o.value]
        /\ UNCHANGED <<persistent, mem, queue, ready, pc, call, answer, published>>
    BY <1>4 DEF Write
  <2>2. o \in Operations /\ Publishable(o)
    <3>1. queue \in Seq(Operations) /\ \A i \in 1..Len(queue) : Publishable(queue[i])
      BY DEF IInv, Outstanding
    <3>2. 1 \in 1..Len(queue) /\ o = queue[1]
      BY <2>1, <3>1, TailMap
    <3> QED
      BY <3>1, <3>2, ElementOfSeq
  <2> HIDE DEF o
  <2>3. store' \in [Keys -> StoredValues]
    BY <2>1, <2>2 DEF IInv, StateInv, Operations, Publishable, StoredValues
  <2> QED
    BY <2>1, <2>3, QuietStep
<1>7. ASSUME NEW k \in Keys, Expire(k)
      PROVE  IInv'
  <2>1. store' \in [Keys -> StoredValues]
    BY <1>7 DEF Expire, IInv, StateInv, StoredValues
  <2> QED
    BY <1>7, <2>1, QuietStep DEF Expire
<1>8. ASSUME NEW t \in Tasks, TimeOut(t)
      PROVE  IInv'
  BY <1>8, TimeOutStep
<1>5. CASE UNCHANGED vars
  <2>1. store' \in [Keys -> StoredValues]
    BY <1>5 DEF vars, IInv, StateInv
  <2> QED
    BY <1>5, <2>1, QuietStep DEF vars
<1>6. CASE Terminated
  BY <1>5, <1>6 DEF Terminated
<1> QED
  BY <1>1, <1>2, <1>3, <1>4, <1>5, <1>6, <1>7, <1>8 DEF Next

LEMMA Invariant == Spec => []IInv
BY IInvInit, IInvStep, PTL DEF Spec

-----------------------------------------------------------------------------
(* The theorems.                                                            *)

\* The variables keep their types: results and keys in memory, complete answers,
\* and store operations of the three kinds.
THEOREM CacheTyped == Spec => []TypeOK
<1>1. ASSUME IInv PROVE TypeOK
  <2>1. /\ mem.body \in [Keys -> Bodies \cup {Absent}] /\ mem.order \in Seq(Keys)
        /\ mem.bytes \in Int
    BY <1>1, ConsistentWeighs DEF IInv, Clean, Memory, Consistent
  <2>2. \A i \in DOMAIN mem.order : mem.order[i] \in Keys
    <3>1. DOMAIN mem.order = 1..Len(mem.order)
      BY <2>1, LenProperties
    <3> QED
      BY <2>1, <3>1, ElementOfSeq
  <2>3. \A i \in DOMAIN queue : queue[i].kind \in {"get", "set", "delete"}
    <3>1. queue \in Seq(Operations)
      BY <1>1 DEF IInv, Outstanding
    <3>2. \A i \in DOMAIN queue : queue[i] \in Operations
      BY <3>1, ElementOfSeq, LenProperties
    <3> QED
      BY <3>2 DEF Operations
  <2>4. \A e \in ready : e.ok \in BOOLEAN
    BY <1>1 DEF IInv, Outstanding, Completed
  <2> QED
    BY <1>1, <2>1, <2>2, <2>3, <2>4 DEF IInv, StateInv, TypeOK
<1> QED
  BY <1>1, Invariant, PTL

\* cache.py:271-298: current_bytes is what the entries hold, each key is in the
\* order once, and the limits are met, whatever was replaced, evicted, touched
\* and popped while tasks awaited the store.
THEOREM AccountsExactly == Spec => []Accounting
<1>1. IInv => Accounting
  BY DEF IInv, Clean, Memory, Consistent, WithinLimits, Accounting
<1> QED
  BY <1>1, Invariant, PTL

\* cache.py:321 and 411: a result with credentials is not in memory, not on
\* its way to the store, not served by a lookup, and its address not given.
THEOREM SecretsNeverCached == Spec => []SecretsAreNotRetained
<1>1. IInv => SecretsAreNotRetained
  <2> SUFFICES ASSUME IInv PROVE SecretsAreNotRetained
    OBVIOUS
  <2>1. ASSUME NEW k \in Keys
        PROVE  mem.body[k] \notin Secret
    BY CacheAssumption DEF IInv, Clean, Holds, Invalid, CacheAssumption
  <2>2. ASSUME NEW i \in DOMAIN queue, queue[i].kind = "set"
        PROVE  queue[i].value \notin Secret
    <3>1. queue \in Seq(Operations) /\ \A n \in 1..Len(queue) : Publishable(queue[n])
      BY DEF IInv, Outstanding
    <3>2. i \in 1..Len(queue)
      BY <3>1, LenProperties
    <3> QED
      BY <2>2, <3>1, <3>2 DEF Publishable
  <2>3. ASSUME NEW t \in Tasks, answer[t].body \in Secret
        PROVE  call[t].kind = "remember" /\ ~answer[t].advertised
    <3>1. answer[t] # Unanswered
      BY <2>3, CacheAssumption DEF Unanswered, CacheAssumption
    <3> QED
      BY <2>3, <3>1 DEF IInv, AnswersInv, Honest
  <2> QED
    BY <2>1, <2>2, <2>3 DEF SecretsAreNotRetained
<1> QED
  BY <1>1, Invariant, PTL

\* cache.py:335: whatever the store holds, a lookup of an artifact answers with
\* the bytes of its digest.
THEOREM ArtifactsExact == Spec => []ArtifactsAreExact
<1>1. IInv => ArtifactsAreExact
  BY DEF IInv, AnswersInv, Honest, Unanswered, ArtifactsAreExact
<1> QED
  BY <1>1, Invariant, PTL

\* What a step of a task does to the answers and to memory.
Advertises ==
    \A t \in Tasks :
        /\ ~answer[t].advertised /\ answer'[t].advertised
        /\ call[t].kind = "remember" \/ ~IsArtifact(call[t].key)
        => LET k == ResolveKey(answer'[t].body)
           IN  IF persistent THEN <<k, answer'[t].body>> \in published
                             ELSE mem'.body[k] = answer'[t].body

Shares ==
    \A k \in Keys :
        LET b == mem'.body[k]
        IN  persistent /\ b # Absent /\ b # mem.body[k] =>
               \/ <<k, b>> \in published
               \/ \E e \in ready : e.ok /\ e.value = b /\ call[e.task].key = k

LEMMA StepAdvertisesAndShares ==
  ASSUME IInv, Next
  PROVE  Advertises /\ Shares
<1>1. ASSUME NEW t \in Tasks, Start(t) \/ Resume(t)
      PROVE  Advertises /\ Shares
  <2>1. PICK p : Takes(t, p) /\ Proceeds(t, p)
    BY <1>1, TaskProceeds
  <2>2. /\ mem' = p.mem
        /\ answer' = IF p.next = "done" THEN [answer EXCEPT ![t] = p.answer] ELSE answer
    BY <2>1 DEF Takes, Carries
  <2>3. Shares
    BY <2>1, <2>2 DEF Proceeds, Acceptable, Shared, Shares
  <2>4. CASE Awaits(t, p)
    <3>1. UNCHANGED answer
      BY <2>2, <2>4 DEF Awaits, Waiting
    <3> QED
      BY <2>3, <3>1 DEF Advertises
  <2>5. CASE Responds(t, p)
    <3>1. /\ answer' = [answer EXCEPT ![t] = p.answer]
          /\ p.answer.advertised /\ (call[t].kind = "remember" \/ ~IsArtifact(call[t].key)) =>
                IF persistent THEN <<ResolveKey(p.answer.body), p.answer.body>> \in published
                              ELSE mem'.body[ResolveKey(p.answer.body)] = p.answer.body
      BY <2>2, <2>5 DEF Responds
    <3>2. /\ answer'[t] = p.answer
          /\ \A u \in Tasks : u # t => answer'[u] = answer[u]
      BY <3>1 DEF IInv, StateInv
    <3> QED
      BY <2>3, <3>1, <3>2 DEF Advertises
  <2> QED
    BY <2>1, <2>4, <2>5 DEF Proceeds
<1>2. UNCHANGED <<mem, answer>> => Advertises /\ Shares
  BY DEF Advertises, Shares
<1>3. ASSUME NEW t \in Tasks, NEW c \in Calls, Call(t, c)
      PROVE  Advertises /\ Shares
  BY <1>2, <1>3 DEF Call
<1>4. CASE Apply \/ Write \/ (\E k \in Keys : Expire(k)) \/ Terminated
  BY <1>2, <1>4 DEF Apply, ApplyWith, Write, Expire, Terminated, vars
<1>5. ASSUME NEW t \in Tasks, TimeOut(t)
      PROVE  Advertises /\ Shares
  BY <1>2, <1>5 DEF TimeOut
<1> QED
  BY <1>1, <1>3, <1>4, <1>5 DEF Next

\* docs/reference/cache.md: the address of an artifact is advertised only once
\* it has been published or, without a store, while it is in memory.
THEOREM AdvertisedOnlyRetained == Spec => AdvertisedWasRetained
<1>1. IInv /\ [Next]_vars => [Advertises]_vars
  BY StepAdvertisesAndShares
<1> QED
  BY <1>1, Invariant, PTL DEF Spec, AdvertisedWasRetained, Advertises

\* cache.py:419: a publication that failed does not become a local hit.
THEOREM HitsShared == Spec => HitsAreShared
<1>1. IInv /\ [Next]_vars => [Shares]_vars
  BY StepAdvertisesAndShares
<1> QED
  BY <1>1, Invariant, PTL DEF Spec, HitsAreShared, Shares

-----------------------------------------------------------------------------
(* The cache over the store.  First what a line of callers, and what the    *)
(* cache sees of it, become when one caller joins, leaves or is served.     *)

Line(l, c) == IF c = NoCaller THEN l ELSE <<c>> \o l

\* What f says of each caller in s: its operation, as the cache sees it.
SeenOperations ==
    [task : Tasks, kind : {"none", "get", "set", "delete"}, key : Keys \cup {Absent},
     value : StoredValues, awaited : BOOLEAN]

Seen(s, f) == [i \in 1..Len(s) |-> f[s[i]]]

LEMMA LineShape ==
  ASSUME NEW l \in Seq(Callers), NEW c \in Callers \cup {NoCaller}
  PROVE  /\ Line(l, c) \in Seq(Callers)
         /\ c = NoCaller => Line(l, c) = l
         /\ c # NoCaller => /\ Line(l, c) = <<c>> \o l
                            /\ Line(l, c) # <<>>
                            /\ Head(Line(l, c)) = c /\ Tail(Line(l, c)) = l
<1>1. CASE c = NoCaller
  BY <1>1 DEF Line
<1>2. CASE c # NoCaller
  <2>1. c \in Callers /\ <<c>> \in Seq(Callers) /\ Len(<<c>>) = 1
    BY <1>2
  <2>2. <<c>> \o l \in Seq(Callers)
    BY <2>1, ConcatProperties
  <2>3. /\ <<c>> \o l # <<>>
        /\ Head(<<c>> \o l) = c /\ Tail(<<c>> \o l) = l
    BY <2>1, ConcatSimplifications, ConcatEqualIffEmpty
  <2> QED
    BY <1>2, <2>2, <2>3 DEF Line
<1> QED
  BY <1>1, <1>2

\* A caller that joins a line, or is served at once, comes last.
LEMMA LineJoined ==
  ASSUME NEW l \in Seq(Callers), NEW c \in Callers \cup {NoCaller}, NEW d \in Callers
  PROVE  /\ Line(Append(l, d), c) = Append(Line(l, c), d)
         /\ l = <<>> /\ c = NoCaller => Line(l, d) = Append(Line(l, c), d)
<1>1. Append(l, d) = l \o <<d>> /\ Append(<<>>, d) = <<d>> /\ <<d>> \o <<>> = <<d>>
  BY AppendIsConcat, ConcatEmptySeq
<1>2. c # NoCaller => <<c>> \o (l \o <<d>>) = (<<c>> \o l) \o <<d>>
  <2>1. <<d>> \in Seq(Callers) /\ (c # NoCaller => <<c>> \in Seq(Callers))
    OBVIOUS
  <2> QED
    BY <2>1, ConcatAssociative
<1>3. c # NoCaller => Append(<<c>> \o l, d) = (<<c>> \o l) \o <<d>>
  <2>1. c # NoCaller => <<c>> \o l \in Seq(Callers)
    BY LineShape DEF Line
  <2> QED
    BY <2>1, AppendIsConcat
<1>4. d # NoCaller
  BY DEF Callers, NoCaller, Waiting
<1> QED
  BY <1>1, <1>2, <1>3, <1>4 DEF Line

\* A caller that leaves the line leaves the callers that are served, too.
LEMMA LineLeft ==
  ASSUME NEW l \in Seq(Callers), NEW c \in Callers \cup {NoCaller}, NEW i \in 1..Len(l)
  PROVE  \E j \in 1..Len(Line(l, c)) :
            Line(l, c)[j] = l[i] /\ Line(RemoveAt(l, i), c) = RemoveAt(Line(l, c), j)
<1>1. CASE c = NoCaller
  BY <1>1 DEF Line
<1>2. CASE c # NoCaller
  BY <1>2, RemoveAtTail DEF Line
<1> QED
  BY <1>1, <1>2

\* The head of the line begins.
LEMMA LineBegun ==
  ASSUME NEW l \in Seq(Callers), l # <<>>
  PROVE  Line(Tail(l), Head(l)) = Line(l, NoCaller) /\ Head(l) \in Callers
<1>1. <<Head(l)>> \o Tail(l) = l /\ Head(l) \in Callers
  BY HeadAndTail, HeadTailProperties
<1>2. Head(l) # NoCaller
  BY <1>1 DEF Callers, NoCaller, Waiting
<1> QED
  BY <1>1, <1>2 DEF Line

LEMMA SeenElements ==
  ASSUME NEW s \in Seq(Callers), NEW f \in [Callers -> SeenOperations]
  PROVE  /\ Seen(s, f) \in Seq(SeenOperations) /\ Len(Seen(s, f)) = Len(s)
         /\ \A i \in 1..Len(s) : Seen(s, f)[i] = f[s[i]]
<1>1. Len(s) \in Nat /\ \A i \in 1..Len(s) : s[i] \in Callers
  BY LenProperties, ElementOfSeq
<1>2. \A i \in 1..Len(s) : f[s[i]] \in SeenOperations
  BY <1>1
<1> DEFINE n == Len(s)
           v == [i \in 1..n |-> f[s[i]]]
<1>3. n \in Nat /\ \A i \in 1..n : v[i] = f[s[i]] /\ f[s[i]] \in SeenOperations
  BY <1>1, <1>2
<1>4. v \in [1..n -> SeenOperations]
  BY <1>3
<1>5. v \in Seq(SeenOperations) /\ Len(v) = n
  BY <1>3, <1>4
<1> QED
  BY <1>3, <1>5 DEF Seen

LEMMA SeenJoined ==
  ASSUME NEW s \in Seq(Callers), NEW f \in [Callers -> SeenOperations],
         NEW g \in [Callers -> SeenOperations],
         NEW c \in Callers, ~Contains(s, c), \A d \in Callers \ {c} : g[d] = f[d]
  PROVE  Seen(Append(s, c), g) = Append(Seen(s, f), g[c])
<1> DEFINE a == Append(s, c)
           v == Seen(s, f)
           w == Append(v, g[c])
           u == Seen(a, g)
<1>1. /\ Len(s) \in Nat /\ a \in Seq(Callers) /\ Len(a) = Len(s) + 1
      /\ \A i \in 1..Len(s) : a[i] = s[i] /\ s[i] \in Callers \ {c}
      /\ a[Len(s) + 1] = c
  BY AppendProperties, LenProperties, ElementOfSeq DEF Contains
<1>2. v \in Seq(SeenOperations) /\ Len(v) = Len(s) /\ \A i \in 1..Len(s) : v[i] = f[s[i]]
  BY SeenElements
<1> HIDE DEF a, v
<1>3. u \in Seq(SeenOperations) /\ Len(u) = Len(a) /\ \A i \in 1..Len(a) : u[i] = g[a[i]]
  BY <1>1, SeenElements
<1>4. /\ w \in Seq(SeenOperations) /\ Len(w) = Len(v) + 1
      /\ \A i \in 1..Len(v) : w[i] = v[i]
      /\ w[Len(v) + 1] = g[c]
  BY <1>2, AppendProperties
<1> HIDE DEF u, w
<1>5. ASSUME NEW i \in 1..Len(u) PROVE u[i] = w[i]
  <2>1. i \in 1..Len(s) \/ i = Len(s) + 1
    BY <1>1, <1>3
  <2> QED
    BY <1>1, <1>2, <1>3, <1>4, <2>1
<1>6. u = w
  BY <1>1, <1>2, <1>3, <1>4, <1>5, SeqEqual
<1> QED
  BY <1>6 DEF u, w, a, v

LEMMA SeenLeft ==
  ASSUME NEW s \in Seq(Callers), NEW f \in [Callers -> SeenOperations],
         NEW g \in [Callers -> SeenOperations],
         NEW i \in 1..Len(s), IsInjective(s), \A d \in Callers \ {s[i]} : g[d] = f[d]
  PROVE  Seen(RemoveAt(s, i), g) = RemoveAt(Seen(s, f), i)
<1> DEFINE r == RemoveAt(s, i)
           v == Seen(s, f)
           w == RemoveAt(v, i)
           u == Seen(r, g)
<1>1. /\ Len(s) \in Nat /\ r \in Seq(Callers) /\ Len(r) = Len(s) - 1
      /\ \A j \in 1..(Len(s) - 1) : r[j] = IF j < i THEN s[j] ELSE s[j + 1]
      /\ \A j \in 1..Len(s) : s[j] \in Callers
      /\ DOMAIN s = 1..Len(s)
  BY RemoveAtElements, LenProperties, ElementOfSeq
<1>2. v \in Seq(SeenOperations) /\ Len(v) = Len(s) /\ \A j \in 1..Len(s) : v[j] = f[s[j]]
  BY SeenElements
<1> HIDE DEF r, v
<1>3. u \in Seq(SeenOperations) /\ Len(u) = Len(r) /\ \A j \in 1..Len(r) : u[j] = g[r[j]]
  BY <1>1, SeenElements
<1>4. /\ w \in Seq(SeenOperations) /\ Len(w) = Len(v) - 1
      /\ \A j \in 1..(Len(v) - 1) : w[j] = IF j < i THEN v[j] ELSE v[j + 1]
  BY <1>2, RemoveAtElements
<1> HIDE DEF u, w
<1>5. ASSUME NEW j \in 1..Len(u) PROVE u[j] = w[j]
  <2> DEFINE at == IF j < i THEN j ELSE j + 1
  <2>1. j \in 1..(Len(s) - 1) /\ at \in 1..Len(s) /\ at # i
    BY <1>1, <1>3
  <2>2. r[j] = s[at] /\ w[j] = v[at]
    BY <1>1, <1>2, <1>4, <2>1
  <2> HIDE DEF at
  <2>3. s[at] \in Callers \ {s[i]}
    BY <1>1, <2>1 DEF IsInjective
  <2> QED
    BY <1>1, <1>2, <1>3, <2>1, <2>2, <2>3
<1>6. u = w
  BY <1>1, <1>2, <1>3, <1>4, <1>5, SeqEqual
<1> QED
  BY <1>6 DEF u, w, r, v

LEMMA SeenChanged ==
  ASSUME NEW s \in Seq(Callers), NEW f \in [Callers -> SeenOperations],
         NEW g \in [Callers -> SeenOperations],
         NEW i \in 1..Len(s), IsInjective(s), \A d \in Callers \ {s[i]} : g[d] = f[d]
  PROVE  Seen(s, g) = [Seen(s, f) EXCEPT ![i] = g[s[i]]]
<1>1. \A j \in 1..Len(s) : j # i => s[j] \in Callers \ {s[i]}
  BY LenProperties, ElementOfSeq DEF IsInjective
<1> QED
  BY <1>1 DEF Seen

LEMMA SeenSame ==
  ASSUME NEW s \in Seq(Callers), NEW f, NEW g,
         \A d \in Callers : Contains(s, d) => g[d] = f[d]
  PROVE  Seen(s, g) = Seen(s, f)
<1>1. \A i \in 1..Len(s) : s[i] \in Callers /\ Contains(s, s[i])
  BY ElementOfSeq DEF Contains
<1> QED
  BY <1>1 DEF Seen

\* What callers submit, and are told.
Submissions ==
    [kind : {"get", "delete"}, key : Keys, value : {Absent}]
    \cup [kind : {"set"}, key : Keys, value : StoredValues \ {Absent}]

Outcomes ==
    {Pending, Coordinator!Failed, Coordinator!GaveUp, Coordinator!Refused}
    \cup {Coordinator!Outcome("done", v) : v \in StoredValues}

Asked(c) == op[c] # Coordinator!NoOperation

ServiceTypes ==
    /\ line \in Seq(Callers) /\ current \in Callers \cup {NoCaller}
    /\ op \in [Callers -> Submissions \cup {Coordinator!NoOperation}]
    /\ result \in [Callers -> Outcomes] /\ told \in [Callers -> Outcomes]

\* Operations are in line once each until they are over, and a task that awaits
\* the store has submitted one, which is in line, or over.
ServiceInv ==
    /\ ServiceTypes /\ IsInjective(InLine)
    /\ \A c \in Callers :
          /\ Contains(InLine, c) => Asked(c) /\ result[c] = Pending
          /\ Asked(c) \/ (told[c] = Pending /\ result[c] = Pending)
          /\ Asked(c) /\ told[c] = Pending => pc[c[1]] = c[2]
          /\ Asked(c) /\ told[c] = Pending /\ result[c] = Pending => Contains(InLine, c)
    /\ \A t \in Tasks : pc[t] \in Waiting => Asked(Caller(t))

Views ==
    /\ persistent
    /\ queue = QueueView /\ ready = ReadyView /\ published = PublishedView

Composed == IInv /\ ServiceInv /\ Views

\* Every step shows the cache what has become of the service.
Shows ==
    /\ UNCHANGED persistent
    /\ queue' = QueueView' /\ ready' = ReadyView' /\ published' = PublishedView'

LEMMA OutcomeFacts ==
  /\ Pending \in Outcomes /\ Coordinator!Failed \in Outcomes
  /\ Coordinator!GaveUp \in Outcomes /\ Coordinator!Refused \in Outcomes
  /\ Pending.status # "done" /\ Coordinator!Failed.status # "done"
  /\ Coordinator!GaveUp.status # "done" /\ Coordinator!Refused.status # "done"
  /\ Pending # Coordinator!Failed /\ Pending # Coordinator!GaveUp
  /\ Pending # Coordinator!Refused
  /\ \A v \in StoredValues :
        /\ Coordinator!Outcome("done", v) \in Outcomes
        /\ Coordinator!Outcome("done", v) # Pending
        /\ Coordinator!Outcome("done", v).status = "done"
        /\ Coordinator!Outcome("done", v).value = v
  /\ \A o \in Outcomes : o.value \in StoredValues /\ (o.status # "done" => o.value = Absent)
<1>1. Absent \in StoredValues
  BY DEF StoredValues
<1>2. /\ Pending = [status |-> "pending", value |-> Absent]
      /\ Coordinator!Failed = [status |-> "failed", value |-> Absent]
      /\ Coordinator!GaveUp = [status |-> "gave-up", value |-> Absent]
      /\ Coordinator!Refused = [status |-> "refused", value |-> Absent]
      /\ \A v : Coordinator!Outcome("done", v) = [status |-> "done", value |-> v]
  BY DEF Pending, Coordinator!Pending, Coordinator!Failed, Coordinator!GaveUp,
         Coordinator!Refused, Coordinator!Outcome
<1> QED
  BY <1>1, <1>2 DEF Outcomes

LEMMA LearnedFacts ==
  ASSUME NEW t \in Tasks, NEW o \in Outcomes
  PROVE  /\ Learned(t, o).task = t /\ Learned(t, o).value = o.value
         /\ Learned(t, o).ok = (o.status = "done") /\ Learned(t, o).ok \in BOOLEAN
         /\ o.status # "done" => Learned(t, o) = NotCompleted(t)
<1>1. Learned(t, o) = [task |-> t, ok |-> o.status = "done", value |-> o.value]
  BY DEF Learned, Completion
<1>2. o.status # "done" => o.value = Absent
  BY OutcomeFacts
<1>3. o.status # "done" => (o.status = "done") = FALSE
  OBVIOUS
<1>4. NotCompleted(t) = [task |-> t, ok |-> FALSE, value |-> Absent]
  BY DEF NotCompleted, Completion
<1>5. o.status # "done" => Learned(t, o) = NotCompleted(t)
  BY <1>1, <1>2, <1>3, <1>4
<1>6. (o.status = "done") \in BOOLEAN
  OBVIOUS
<1> QED
  BY <1>1, <1>5, <1>6

\* What a task will hear of the operation that it awaits.
Heard(t) == IF pc[t] \in Waiting THEN Known(Caller(t)) ELSE Pending

LEMMA ReadyChanges ==
  ASSUME NEW t \in Tasks, \A u \in Tasks \ {t} : Heard(u)' = Heard(u)
  PROVE  ReadyView' = {e \in ReadyView : e.task # t}
                      \cup IF Heard(t)' = Pending THEN {} ELSE {Learned(t, Heard(t)')}
<1>1. ReadyView = {Learned(u, Heard(u)) : u \in {w \in Tasks : Heard(w) # Pending}}
  BY DEF ReadyView, Heard
<1>2. ReadyView' = {Learned(u, Heard(u)') : u \in {w \in Tasks : Heard(w)' # Pending}}
  BY DEF ReadyView, Heard
<1>3. \A u, o : Learned(u, o).task = u
  BY DEF Learned, Completion
<1> QED
  BY <1>1, <1>2, <1>3

LEMMA ReadySame ==
  ASSUME \A u \in Tasks : Heard(u)' = Heard(u)
  PROVE  ReadyView' = ReadyView
BY DEF ReadyView, Heard

LEMMA PublishedSame ==
  ASSUME \A c \in Callers : /\ result'[c] = result[c]
                            /\ result[c].status = "done" => op'[c] = op[c]
  PROVE  PublishedView' = PublishedView
BY DEF PublishedView

OpsSeen == [c \in Callers |-> OperationOf(c)]

Sight ==
    /\ InLine \in Seq(Callers) /\ InLine = Line(line, current)
    /\ OpsSeen \in [Callers -> SeenOperations]
    /\ QueueView = Seen(InLine, OpsSeen)

LEMMA InSight == ServiceTypes => Sight
<1> SUFFICES ASSUME ServiceTypes PROVE Sight
  OBVIOUS
<1>1. InLine = Line(line, current) /\ InLine \in Seq(Callers)
  BY LineShape DEF InLine, Line, ServiceTypes
<1>2. ASSUME NEW c \in Callers PROVE OperationOf(c) \in SeenOperations
  <2>1. c[1] \in Tasks /\ op[c] \in Submissions \cup {Coordinator!NoOperation}
    BY DEF Callers, ServiceTypes
  <2> QED
    BY <2>1 DEF OperationOf, SeenOperations, Submissions, Coordinator!NoOperation,
                StoredValues
<1>3. QueueView = Seen(InLine, OpsSeen)
  <2>1. \A i \in 1..Len(InLine) : InLine[i] \in Callers
    BY <1>1, ElementOfSeq
  <2> QED
    BY <2>1 DEF QueueView, Seen, OpsSeen
<1> QED
  BY <1>1, <1>2, <1>3 DEF Sight, OpsSeen

LEMMA InSightNext == ServiceTypes' => Sight'
<1>1. ServiceTypes => Sight
  BY InSight
<1> QED
  BY <1>1, PTL

-----------------------------------------------------------------------------
(* The steps of the tasks.                                                  *)

\* A caller whose operation has no part in a step is as it was.
LEMMA Unmoved ==
  ASSUME ServiceInv, NEW t \in Tasks, NEW u \in Tasks, u # t,
         pc'[u] = pc[u],
         \A c \in Callers : c[1] # t => told'[c] = told[c] /\ result'[c] = result[c]
  PROVE  Heard(u)' = Heard(u)
<1>1. CASE pc[u] \in Waiting
  <2>1. <<u, pc[u]>> \in Callers /\ <<u, pc[u]>>[1] # t
    BY <1>1 DEF Callers
  <2> QED
    BY <1>1, <2>1 DEF Heard, Known, Caller
<1>2. CASE pc[u] \notin Waiting
  BY <1>2 DEF Heard
<1> QED
  BY <1>1, <1>2

\* Nothing that t has submitted is left for it to be told.
Settled(t) == \A c \in Callers : c[1] = t /\ Asked(c) => told[c] # Pending

\* A task that answers.
LEMMA AnswerCovered ==
  ASSUME Composed, NEW t \in Tasks, NEW p, Carries(t, p), p.next = "done",
         Settled(t), UNCHANGED <<store, serviceVars>>, Shows
  PROVE  Takes(t, p) /\ ServiceInv'
<1>1. /\ pc' = [pc EXCEPT ![t] = "done"] /\ pc \in [Tasks -> Labels]
      /\ ServiceInv /\ "done" \notin Waiting
      /\ UNCHANGED <<line, current, op, result, told>>
  BY DEF Carries, Composed, IInv, StateInv, Waiting, serviceVars
<1>2. pc'[t] = "done" /\ \A u \in Tasks : u # t => pc'[u] = pc[u]
  BY <1>1
<1>3. queue' = queue /\ published' = published
  <2>1. QueueView' = QueueView
    BY <1>1 DEF QueueView, InLine, OperationOf
  <2>2. PublishedView' = PublishedView
    BY <1>1 DEF PublishedView
  <2> QED
    BY <2>1, <2>2 DEF Composed, Views, Shows
<1>4. ready' = ReadyBut(t)
  <2>1. \A u \in Tasks \ {t} : Heard(u)' = Heard(u)
    BY <1>1, <1>2, Unmoved
  <2>2. Heard(t)' = Pending
    BY <1>1, <1>2 DEF Heard, Pending, Coordinator!Pending
  <2>3. ReadyView' = {e \in ReadyView : e.task # t}
    BY <2>1, <2>2, ReadyChanges
  <2> QED
    BY <2>3 DEF Composed, Views, Shows, ReadyBut
<1>5. Takes(t, p)
  BY <1>3, <1>4 DEF Takes, Submits, Shows
<1>6. ServiceInv'
  <2>1. ServiceTypes' /\ IsInjective(InLine)' /\ InLine' = InLine
    BY <1>1 DEF ServiceInv, ServiceTypes, InLine
  <2>2. \A c \in Callers : Asked(c)' = Asked(c)
    BY <1>1 DEF Asked
  <2>3. ASSUME NEW c \in Callers, Asked(c), told[c] = Pending
        PROVE  pc'[c[1]] = c[2]
    <3>1. c[1] \in Tasks /\ c[1] # t
      BY <2>3 DEF Settled, Callers
    <3> QED
      BY <1>1, <1>2, <2>3, <3>1 DEF ServiceInv
  <2>4. ASSUME NEW u \in Tasks, pc'[u] \in Waiting PROVE Asked(Caller(u))'
    <3>1. u # t /\ pc'[u] = pc[u]
      BY <1>1, <1>2, <2>4
    <3> QED
      BY <1>1, <2>4, <3>1 DEF ServiceInv, Asked, Caller
  <2>5. Pending' = Pending
    BY DEF Pending, Coordinator!Pending, Coordinator!Outcome
  <2> QED
    BY <1>1, <2>1, <2>2, <2>3, <2>4, <2>5 DEF ServiceInv
<1> QED
  BY <1>5, <1>6

\* A task whose operation is accepted.
LEMMA AcceptCovered ==
  ASSUME Composed, NEW t \in Tasks, NEW p, Carries(t, p), Awaits(t, p), Settled(t),
         Coordinator!Accept(<<t, p.next>>,
                            [kind |-> p.kind, key |-> p.key, value |-> p.value]),
         Shows
  PROVE  Takes(t, p) /\ ServiceInv'
<1> DEFINE c == <<t, p.next>>
           o == [kind |-> p.kind, key |-> p.key, value |-> p.value]
<1>1. /\ pc' = [pc EXCEPT ![t] = p.next] /\ pc \in [Tasks -> Labels]
      /\ p.next \in Waiting /\ p.next # "done" /\ ServiceInv /\ ServiceTypes
  BY DEF Carries, Awaits, Composed, IInv, StateInv, Waiting, ServiceInv
<1>2. pc'[t] = p.next /\ \A u \in Tasks : u # t => pc'[u] = pc[u]
  BY <1>1
<1>3. c \in Callers /\ c[1] = t /\ c[2] = p.next
  BY <1>1 DEF Callers
<1>4. o \in Submissions /\ o # Coordinator!NoOperation
  <2>1. Submitted(t, p) \in Operations /\ Publishable(Submitted(t, p))
    BY DEF Awaits
  <2>2. /\ p.kind \in {"get", "set", "delete"} /\ p.key \in Keys
        /\ p.kind = "set" => p.value \in StoredValues \ {Absent}
        /\ p.kind # "set" => p.value = Absent
    BY <2>1, CacheAssumption
    DEF Submitted, Operations, Publishable, StoredValues, CacheAssumption
  <2> QED
    BY <2>2 DEF Submissions, Coordinator!NoOperation
<1> HIDE DEF c, o
<1>5. /\ ~Asked(c) /\ op' = [op EXCEPT ![c] = o]
      /\ \/ line' = Append(line, c) /\ UNCHANGED current
         \/ line = <<>> /\ current = NoCaller /\ current' = c /\ UNCHANGED line
      /\ UNCHANGED <<store, result, told>>
  BY DEF Coordinator!Accept, Asked, c, o
<1>6. /\ line \in Seq(Callers) /\ current \in Callers \cup {NoCaller}
      /\ op \in [Callers -> Submissions \cup {Coordinator!NoOperation}]
      /\ result \in [Callers -> Outcomes] /\ told \in [Callers -> Outcomes]
      /\ InLine \in Seq(Callers) /\ InLine = Line(line, current)
  BY <1>1, InSight DEF ServiceTypes, Sight
<1>7. result[c] = Pending /\ told[c] = Pending /\ ~Contains(InLine, c)
  BY <1>1, <1>3, <1>5 DEF ServiceInv
<1>8. /\ op'[c] = o /\ \A d \in Callers \ {c} : op'[d] = op[d]
      /\ Asked(c)' /\ \A d \in Callers \ {c} : Asked(d)' = Asked(d)
  BY <1>3, <1>4, <1>5, <1>6 DEF Asked
<1>9. ServiceTypes'
  <2>1. Append(line, c) \in Seq(Callers)
    BY <1>3, <1>6, AppendProperties
  <2> QED
    BY <1>3, <1>4, <1>5, <1>6, <2>1 DEF ServiceTypes
<1>10. InLine' = Append(InLine, c)
  <2>1. InLine' = Line(line', current')
    BY DEF InLine, Line
  <2> QED
    BY <1>3, <1>5, <1>6, <2>1, LineJoined
<1>11. /\ IsInjective(InLine')
       /\ \A d : Contains(InLine', d) <=> Contains(InLine, d) \/ d = c
  BY <1>1, <1>3, <1>6, <1>7, <1>10, AppendNew DEF ServiceInv
<1>12. Pending' = Pending
  BY DEF Pending, Coordinator!Pending, Coordinator!Outcome
<1>13. ServiceInv'
  <2>1. ASSUME NEW d \in Callers
        PROVE  /\ Contains(InLine', d) => Asked(d)' /\ result'[d] = Pending
               /\ Asked(d)' \/ (told'[d] = Pending /\ result'[d] = Pending)
               /\ Asked(d)' /\ told'[d] = Pending => pc'[d[1]] = d[2]
               /\ Asked(d)' /\ told'[d] = Pending /\ result'[d] = Pending =>
                     Contains(InLine', d)
    <3>1. CASE d = c
      BY <1>2, <1>3, <1>5, <1>7, <1>8, <1>11, <3>1
    <3>2. CASE d # c
      <4>1. Asked(d)' = Asked(d) /\ (Contains(InLine', d) <=> Contains(InLine, d))
        BY <1>8, <1>11, <3>2
      <4>2. /\ Contains(InLine, d) => Asked(d) /\ result[d] = Pending
            /\ Asked(d) \/ (told[d] = Pending /\ result[d] = Pending)
            /\ Asked(d) /\ told[d] = Pending => pc[d[1]] = d[2]
            /\ Asked(d) /\ told[d] = Pending /\ result[d] = Pending => Contains(InLine, d)
        BY <1>1 DEF ServiceInv
      <4>3. Asked(d) /\ told[d] = Pending => pc'[d[1]] = pc[d[1]]
        <5>1. d[1] \in Tasks
          BY DEF Callers
        <5> QED
          BY <1>2, <5>1 DEF Settled
      <4> QED
        BY <1>5, <4>1, <4>2, <4>3
    <3> QED
      BY <3>1, <3>2
  <2>2. ASSUME NEW u \in Tasks, pc'[u] \in Waiting PROVE Asked(Caller(u))'
    <3>1. CASE u = t
      BY <1>2, <1>8, <3>1 DEF Caller, Asked, c
    <3>2. CASE u # t
      <4>1. pc'[u] = pc[u] /\ <<u, pc[u]>> \in Callers \ {c}
        BY <1>2, <1>3, <2>2, <3>2 DEF Callers
      <4>2. Asked(Caller(u))
        BY <1>1, <2>2, <4>1 DEF ServiceInv
      <4> QED
        BY <1>8, <4>1, <4>2 DEF Caller, Asked
    <3> QED
      BY <3>1, <3>2
  <2> QED
    BY <1>9, <1>11, <1>12, <2>1, <2>2 DEF ServiceInv
<1>14. queue' = Append(queue, Submitted(t, p))
  <2>1. Sight /\ Sight'
    BY <1>1, <1>9, InSight, InSightNext
  <2>2. \A d \in Callers \ {c} : OpsSeen'[d] = OpsSeen[d]
    BY <1>5, <1>8, <1>12 DEF OpsSeen, OperationOf
  <2>3. OpsSeen'[c] = Submitted(t, p)
    <3>1. /\ op'[c].kind = p.kind /\ op'[c].key = p.key /\ op'[c].value = p.value
          /\ (told'[c] = Pending') = TRUE
      BY <1>5, <1>7, <1>8, <1>12 DEF o
    <3>2. OpsSeen'[c] = [task |-> c[1], kind |-> op'[c].kind, key |-> op'[c].key,
                         value |-> op'[c].value, awaited |-> (told'[c] = Pending')]
      BY <1>3 DEF OpsSeen, OperationOf
    <3>3. OpsSeen'[c] = [task |-> t, kind |-> p.kind, key |-> p.key,
                         value |-> p.value, awaited |-> TRUE]
      BY <1>3, <3>1, <3>2, Zenon
    <3> QED
      BY <3>3 DEF Submitted
  <2>4. Seen(Append(InLine, c), OpsSeen') = Append(Seen(InLine, OpsSeen), OpsSeen'[c])
    <3>1. /\ OpsSeen \in [Callers -> SeenOperations]
          /\ OpsSeen' \in [Callers -> SeenOperations]
          /\ InLine \in Seq(Callers)
      BY <2>1 DEF Sight
    <3> QED
      BY <1>3, <1>7, <2>2, <3>1, SeenJoined
  <2> QED
    BY <1>10, <2>1, <2>3, <2>4 DEF Sight, Composed, Views, Shows
<1>15. ready' = ReadyBut(t)
  <2>1. \A u \in Tasks \ {t} : Heard(u)' = Heard(u)
    BY <1>1, <1>2, <1>5, Unmoved
  <2>2. Heard(t)' = Pending
    BY <1>1, <1>2, <1>5, <1>7, <1>12 DEF Heard, Known, Caller, c
  <2>3. ReadyView' = {e \in ReadyView : e.task # t}
    BY <2>1, <2>2, <1>12, ReadyChanges
  <2> QED
    BY <2>3 DEF Composed, Views, Shows, ReadyBut
<1>16. published' = published
  <2>1. Pending.status # "done"
    BY OutcomeFacts
  <2>2. PublishedView' = PublishedView
    BY <1>5, <1>7, <1>8, <2>1, PublishedSame
  <2> QED
    BY <2>2 DEF Composed, Views, Shows
<1>17. Takes(t, p)
  BY <1>1, <1>5, <1>14, <1>15, <1>16 DEF Takes, Submits, Submitted, Shows
<1> QED
  BY <1>13, <1>17

\* A task whose operation is refused.
LEMMA RefuseCovered ==
  ASSUME Composed, NEW t \in Tasks, NEW p, Carries(t, p), Awaits(t, p), Settled(t),
         Coordinator!Refuse(<<t, p.next>>,
                            [kind |-> p.kind, key |-> p.key, value |-> p.value]),
         Shows
  PROVE  Takes(t, p) /\ ServiceInv'
<1> DEFINE c == <<t, p.next>>
           o == [kind |-> p.kind, key |-> p.key, value |-> p.value]
<1>1. /\ pc' = [pc EXCEPT ![t] = p.next] /\ pc \in [Tasks -> Labels]
      /\ p.next \in Waiting /\ p.next # "done" /\ ServiceInv /\ ServiceTypes
  BY DEF Carries, Awaits, Composed, IInv, StateInv, Waiting, ServiceInv
<1>2. pc'[t] = p.next /\ \A u \in Tasks : u # t => pc'[u] = pc[u]
  BY <1>1
<1>3. c \in Callers /\ c[1] = t /\ c[2] = p.next
  BY <1>1 DEF Callers
<1>4. o \in Submissions /\ o # Coordinator!NoOperation
  <2>1. Submitted(t, p) \in Operations /\ Publishable(Submitted(t, p))
    BY DEF Awaits
  <2>2. /\ p.kind \in {"get", "set", "delete"} /\ p.key \in Keys
        /\ p.kind = "set" => p.value \in StoredValues \ {Absent}
        /\ p.kind # "set" => p.value = Absent
    BY <2>1, CacheAssumption
    DEF Submitted, Operations, Publishable, StoredValues, CacheAssumption
  <2> QED
    BY <2>2 DEF Submissions, Coordinator!NoOperation
<1> HIDE DEF c, o
<1>5. PICK a \in {Coordinator!Refused, Coordinator!GaveUp} :
        /\ ~Asked(c) /\ op' = [op EXCEPT ![c] = o] /\ told' = [told EXCEPT ![c] = a]
        /\ UNCHANGED <<store, line, current, result>>
  BY DEF Coordinator!Refuse, Asked, c, o
<1>6. /\ line \in Seq(Callers) /\ current \in Callers \cup {NoCaller}
      /\ op \in [Callers -> Submissions \cup {Coordinator!NoOperation}]
      /\ result \in [Callers -> Outcomes] /\ told \in [Callers -> Outcomes]
      /\ a \in Outcomes /\ a # Pending /\ a.status # "done"
  BY <1>1, OutcomeFacts DEF ServiceTypes
<1>7. result[c] = Pending /\ told[c] = Pending /\ ~Contains(InLine, c) /\ InLine' = InLine
  BY <1>1, <1>3, <1>5 DEF ServiceInv, InLine
<1>8. /\ op'[c] = o /\ \A d \in Callers \ {c} : op'[d] = op[d]
      /\ told'[c] = a /\ \A d \in Callers \ {c} : told'[d] = told[d]
      /\ Asked(c)' /\ \A d \in Callers \ {c} : Asked(d)' = Asked(d)
  BY <1>3, <1>4, <1>5, <1>6 DEF Asked
<1>9. ServiceTypes'
  BY <1>3, <1>4, <1>5, <1>6 DEF ServiceTypes
<1>12. Pending' = Pending
  BY DEF Pending, Coordinator!Pending, Coordinator!Outcome
<1>13. ServiceInv'
  <2>1. ASSUME NEW d \in Callers
        PROVE  /\ Contains(InLine', d) => Asked(d)' /\ result'[d] = Pending
               /\ Asked(d)' \/ (told'[d] = Pending /\ result'[d] = Pending)
               /\ Asked(d)' /\ told'[d] = Pending => pc'[d[1]] = d[2]
               /\ Asked(d)' /\ told'[d] = Pending /\ result'[d] = Pending =>
                     Contains(InLine', d)
    <3>1. CASE d = c
      BY <1>6, <1>7, <1>8, <3>1
    <3>2. CASE d # c
      <4>1. Asked(d)' = Asked(d) /\ told'[d] = told[d]
        BY <1>8, <3>2
      <4>2. /\ Contains(InLine, d) => Asked(d) /\ result[d] = Pending
            /\ Asked(d) \/ (told[d] = Pending /\ result[d] = Pending)
            /\ Asked(d) /\ told[d] = Pending => pc[d[1]] = d[2]
            /\ Asked(d) /\ told[d] = Pending /\ result[d] = Pending => Contains(InLine, d)
        BY <1>1 DEF ServiceInv
      <4>3. Asked(d) /\ told[d] = Pending => pc'[d[1]] = pc[d[1]]
        <5>1. d[1] \in Tasks
          BY DEF Callers
        <5> QED
          BY <1>2, <5>1 DEF Settled
      <4> QED
        BY <1>5, <1>7, <4>1, <4>2, <4>3
    <3> QED
      BY <3>1, <3>2
  <2>2. ASSUME NEW u \in Tasks, pc'[u] \in Waiting PROVE Asked(Caller(u))'
    <3>1. CASE u = t
      BY <1>2, <1>8, <3>1 DEF Caller, Asked, c
    <3>2. CASE u # t
      <4>1. pc'[u] = pc[u] /\ <<u, pc[u]>> \in Callers \ {c}
        BY <1>2, <1>3, <2>2, <3>2 DEF Callers
      <4>2. Asked(Caller(u))
        BY <1>1, <2>2, <4>1 DEF ServiceInv
      <4> QED
        BY <1>8, <4>1, <4>2 DEF Caller, Asked
    <3> QED
      BY <3>1, <3>2
  <2> QED
    BY <1>1, <1>7, <1>9, <1>12, <2>1, <2>2 DEF ServiceInv
<1>14. queue' = queue
  <2>1. Sight /\ Sight'
    BY <1>1, <1>9, InSight, InSightNext
  <2>2. \A d \in Callers \ {c} : OpsSeen'[d] = OpsSeen[d]
    BY <1>8, <1>12 DEF OpsSeen, OperationOf
  <2>3. Seen(InLine, OpsSeen') = Seen(InLine, OpsSeen)
    BY <1>7, <2>1, <2>2, SeenSame DEF Sight
  <2> QED
    BY <1>7, <2>1, <2>3 DEF Sight, Composed, Views, Shows
<1>15. ready' = ReadyBut(t) \cup {NotCompleted(t)}
  <2>1. \A u \in Tasks \ {t} : Heard(u)' = Heard(u)
    <3>1. \A d \in Callers : d[1] # t => told'[d] = told[d] /\ result'[d] = result[d]
      BY <1>3, <1>5, <1>8
    <3> QED
      BY <1>1, <1>2, <3>1, Unmoved
  <2>2. Heard(t)' = a
    BY <1>1, <1>2, <1>6, <1>8, <1>12 DEF Heard, Known, Caller, c
  <2>3. ReadyView' = {e \in ReadyView : e.task # t} \cup {Learned(t, a)}
    BY <1>6, <1>12, <2>1, <2>2, ReadyChanges
  <2>4. Learned(t, a) = NotCompleted(t)
    BY <1>6, LearnedFacts
  <2> QED
    BY <2>3, <2>4 DEF Composed, Views, Shows, ReadyBut
<1>16. published' = published
  <2>1. Pending.status # "done"
    BY OutcomeFacts
  <2>2. PublishedView' = PublishedView
    BY <1>5, <1>7, <1>8, <2>1, PublishedSame
  <2> QED
    BY <2>2 DEF Composed, Views, Shows
<1>17. Takes(t, p)
  BY <1>1, <1>5, <1>14, <1>15, <1>16 DEF Takes, Submits, Shows
<1> QED
  BY <1>13, <1>17

\* A task that takes a piece over OrderedStore takes it in ResultCache.
LEMMA AsksCovered ==
  ASSUME Composed, NEW t \in Tasks, NEW p, Proceeds(t, p), Carries(t, p), Asks(t, p),
         Settled(t), Shows
  PROVE  Takes(t, p) /\ ServiceInv'
<1>1. CASE Responds(t, p)
  BY <1>1, AnswerCovered DEF Responds, Asks
<1>2. CASE Awaits(t, p)
  <2>1. p.next # "done"
    BY <1>2 DEF Awaits, Waiting
  <2> QED
    BY <1>2, <2>1, AcceptCovered, RefuseCovered DEF Asks
<1> QED
  BY <1>1, <1>2 DEF Proceeds

LEMMA StartingCovered ==
  ASSUME Composed, NEW t \in Tasks, Starting(t), Shows
  PROVE  Start(t) /\ ServiceInv'
<1>1. pc[t] = "called" /\ Carries(t, Begin(t)) /\ Asks(t, Begin(t))
  BY DEF Starting
<1>2. Settled(t)
  <2>1. ASSUME NEW c \in Callers, c[1] = t, Asked(c), told[c] = Pending
        PROVE  FALSE
    <3>1. pc[t] = c[2] /\ c[2] \in Waiting
      BY <2>1 DEF Composed, ServiceInv, Callers
    <3> QED
      BY <1>1, <3>1 DEF Waiting
  <2> QED
    BY <2>1 DEF Settled
<1>3. Proceeds(t, Begin(t))
  BY <1>1, BeginProceeds DEF Composed
<1> QED
  BY <1>1, <1>2, <1>3, AsksCovered DEF Start

LEMMA ContinuingCovered ==
  ASSUME Composed, NEW t \in Tasks, Continuing(t), Shows
  PROVE  Resume(t) /\ ServiceInv'
<1>1. PICK outcome : outcome = told[Caller(t)]
  OBVIOUS
<1>2. PICK p : p = Continue(t, outcome.status = "done", outcome.value)
  OBVIOUS
<1>3. pc[t] \in Waiting /\ outcome # Pending /\ Carries(t, p) /\ Asks(t, p)
  BY <1>1, <1>2, Zenon DEF Continuing
<1>4. Caller(t) \in Callers /\ outcome \in Outcomes
  BY <1>1, <1>3 DEF Caller, Callers, Composed, ServiceInv, ServiceTypes
<1>5. Settled(t)
  <2>1. ASSUME NEW c \in Callers, c[1] = t, Asked(c), told[c] = Pending
        PROVE  FALSE
    <3>1. c[2] = pc[t]
      BY <2>1 DEF Composed, ServiceInv
    <3>2. c = <<t, pc[t]>>
      BY <2>1, <3>1 DEF Callers
    <3> QED
      BY <1>1, <1>3, <2>1, <3>2 DEF Caller
  <2> QED
    BY <2>1 DEF Settled
<1>6. PICK e : e = Learned(t, outcome)
  OBVIOUS
<1>7. /\ e.task = t /\ e.ok = (outcome.status = "done") /\ e.ok \in BOOLEAN
      /\ e.value = outcome.value
  BY <1>4, <1>6, LearnedFacts
<1>8. e \in ready
  <2>1. Known(Caller(t)) = outcome
    BY <1>1, <1>3 DEF Known
  <2> QED
    BY <1>3, <1>6, <2>1 DEF Composed, Views, ReadyView
<1>9. p = Continue(t, e.ok, e.value)
  BY <1>2, <1>7, Zenon
<1>10. Proceeds(t, p)
  <2>1. e \in Completed /\ (e.ok => Accepted(published, pc[t], call[t]))
    BY <1>7, <1>8 DEF Composed, IInv, Outstanding
  <2>2. e.value \in StoredValues /\ IInv
    BY <2>1 DEF Completed, Composed
  <2> QED
    BY <1>3, <1>7, <1>8, <1>9, <2>1, <2>2, ContinueProceeds
<1>11. Takes(t, p) /\ ServiceInv'
  BY <1>3, <1>5, <1>10, AsksCovered
<1> QED
  BY <1>7, <1>8, <1>9, <1>11 DEF Resume

\* Nobody submits anything when a task is called.
LEMMA CallingCovered ==
  ASSUME Composed, NEW t \in Tasks, NEW c \in Calls, Call(t, c), UNCHANGED serviceVars
  PROVE  ServiceInv'
<1>1. /\ pc[t] = "idle" /\ pc' = [pc EXCEPT ![t] = "called"] /\ pc \in [Tasks -> Labels]
      /\ ServiceInv /\ "called" \notin Waiting /\ "idle" \notin Waiting
      /\ UNCHANGED <<line, current, op, result, told>>
  BY DEF Call, Composed, IInv, StateInv, Waiting, serviceVars
<1>2. pc'[t] = "called" /\ \A u \in Tasks : u # t => pc'[u] = pc[u]
  BY <1>1
<1>3. ServiceTypes' /\ IsInjective(InLine)' /\ InLine' = InLine
  BY <1>1 DEF ServiceInv, ServiceTypes, InLine
<1>4. \A d \in Callers : Asked(d)' = Asked(d)
  BY <1>1 DEF Asked
<1>5. ASSUME NEW d \in Callers, Asked(d), told[d] = Pending
      PROVE  pc'[d[1]] = d[2]
  <2>1. d[1] \in Tasks /\ d[2] \in Waiting /\ pc[d[1]] = d[2]
    BY <1>1, <1>5 DEF Callers, ServiceInv
  <2> QED
    BY <1>1, <1>2, <2>1
<1>6. ASSUME NEW u \in Tasks, pc'[u] \in Waiting PROVE Asked(Caller(u))'
  <2>1. u # t /\ pc'[u] = pc[u]
    BY <1>1, <1>2, <1>6
  <2> QED
    BY <1>1, <1>6, <2>1 DEF ServiceInv, Asked, Caller
<1>7. Pending' = Pending
  BY DEF Pending, Coordinator!Pending, Coordinator!Outcome
<1> QED
  BY <1>1, <1>3, <1>4, <1>5, <1>6, <1>7 DEF ServiceInv

-----------------------------------------------------------------------------
(* The steps of the service.                                                *)

\* A caller that gives up.
LEMMA GiveUpCovered ==
  ASSUME Composed, NEW c \in Callers, Coordinator!GiveUp(c),
         UNCHANGED <<mem, pc, call, answer>>, Shows
  PROVE  TimeOut(c[1]) /\ ServiceInv'
<1> DEFINE t == c[1]
<1>1. /\ Asked(c) /\ told[c] = Pending
      /\ told' = [told EXCEPT ![c] = Coordinator!GaveUp]
      /\ UNCHANGED <<store, current, op, result>>
      /\ \/ UNCHANGED line
         \/ \E i \in 1..Len(line) : line[i] = c /\ line' = RemoveAt(line, i)
  BY DEF Coordinator!GiveUp, Asked, Coordinator!RemoveAt, RemoveAt, Pending
<1>2. /\ ServiceInv /\ ServiceTypes /\ Sight
      /\ line \in Seq(Callers) /\ current \in Callers \cup {NoCaller}
      /\ told \in [Callers -> Outcomes] /\ result \in [Callers -> Outcomes]
  BY InSight DEF Composed, ServiceInv, ServiceTypes
<1>3. t \in Tasks /\ c[2] \in Waiting /\ pc[t] = c[2] /\ Caller(t) = c
  <2>1. t \in Tasks /\ c[2] \in Waiting /\ c = <<t, c[2]>>
    BY DEF Callers
  <2> QED
    BY <1>1, <1>2, <2>1 DEF ServiceInv, Caller
<1> HIDE DEF t
<1>4. /\ told'[c] = Coordinator!GaveUp /\ told'[c] # Pending
      /\ \A d \in Callers \ {c} : told'[d] = told[d]
  BY <1>1, <1>2, OutcomeFacts
<1>5. Pending' = Pending
  BY DEF Pending, Coordinator!Pending, Coordinator!Outcome
<1>6. ServiceTypes'
  <2>1. line' \in Seq(Callers)
    BY <1>1, <1>2, RemoveAtElements
  <2> QED
    BY <1>1, <1>2, <2>1, OutcomeFacts DEF ServiceTypes
<1>7. InLine \in Seq(Callers) /\ IsInjective(InLine) /\ Sight'
  BY <1>2, <1>6, InSightNext DEF Sight, ServiceInv
<1>8. \/ InLine' = InLine
      \/ \E j \in 1..Len(InLine) : InLine[j] = c /\ InLine' = RemoveAt(InLine, j)
  <2>1. InLine = Line(line, current) /\ InLine' = Line(line', current')
    BY DEF InLine, Line
  <2>2. CASE UNCHANGED line
    BY <1>1, <2>1, <2>2
  <2>3. ASSUME NEW i \in 1..Len(line), line[i] = c, line' = RemoveAt(line, i)
        PROVE  \E j \in 1..Len(InLine) : InLine[j] = c /\ InLine' = RemoveAt(InLine, j)
    <3>1. PICK j \in 1..Len(Line(line, current)) :
            /\ Line(line, current)[j] = line[i]
            /\ Line(RemoveAt(line, i), current) = RemoveAt(Line(line, current), j)
      BY <1>2, LineLeft
    <3> QED
      BY <1>1, <2>1, <2>3, <3>1
  <2> QED
    BY <1>1, <2>2, <2>3
<1>9. /\ IsInjective(InLine')
      /\ \A d : Contains(InLine', d) => Contains(InLine, d)
      /\ \A d : Contains(InLine, d) /\ d # c => Contains(InLine', d)
  <2>1. CASE InLine' = InLine
    BY <1>7, <2>1
  <2>2. ASSUME NEW j \in 1..Len(InLine), InLine[j] = c, InLine' = RemoveAt(InLine, j)
        PROVE  /\ IsInjective(InLine')
               /\ \A d : Contains(InLine', d) => Contains(InLine, d)
               /\ \A d : Contains(InLine, d) /\ d # c => Contains(InLine', d)
    BY <1>7, <2>2, RemoveAtOnce
  <2> QED
    BY <1>8, <2>1, <2>2
<1>10. ServiceInv'
  <2>1. \A d \in Callers : Asked(d)' = Asked(d)
    BY <1>1 DEF Asked
  <2>2. ASSUME NEW d \in Callers
        PROVE  /\ Contains(InLine', d) => Asked(d)' /\ result'[d] = Pending
               /\ Asked(d)' \/ (told'[d] = Pending /\ result'[d] = Pending)
               /\ Asked(d)' /\ told'[d] = Pending => pc'[d[1]] = d[2]
               /\ Asked(d)' /\ told'[d] = Pending /\ result'[d] = Pending =>
                     Contains(InLine', d)
    BY <1>1, <1>2, <1>4, <1>9, <2>1 DEF ServiceInv
  <2>3. ASSUME NEW u \in Tasks, pc'[u] \in Waiting PROVE Asked(Caller(u))'
    BY <1>1, <1>2, <2>3 DEF ServiceInv, Asked, Caller
  <2> QED
    BY <1>5, <1>6, <1>9, <2>2, <2>3 DEF ServiceInv
<1>11. ready' = ReadyBut(t) \cup {NotCompleted(t)}
  <2>1. \A u \in Tasks \ {t} : Heard(u)' = Heard(u)
    <3>1. \A d \in Callers : d[1] # t => told'[d] = told[d] /\ result'[d] = result[d]
      BY <1>1, <1>4 DEF t
    <3> QED
      BY <1>2, <1>3, <3>1, Unmoved
  <2>2. Heard(t)' = Coordinator!GaveUp
    <3>1. Caller(t)' = c
      BY <1>3 DEF Caller
    <3> QED
      BY <1>3, <1>4, <1>5, <3>1 DEF Heard, Known
  <2>3. ReadyView' = {e \in ReadyView : e.task # t} \cup {Learned(t, Coordinator!GaveUp)}
    BY <1>3, <1>5, <2>1, <2>2, OutcomeFacts, ReadyChanges
  <2>4. Learned(t, Coordinator!GaveUp) = NotCompleted(t)
    BY <1>3, OutcomeFacts, LearnedFacts
  <2> QED
    BY <2>3, <2>4 DEF Composed, Views, Shows, ReadyBut
<1>12. published' = published
  <2>1. PublishedView' = PublishedView
    BY <1>1 DEF PublishedView
  <2> QED
    BY <2>1 DEF Composed, Views, Shows
<1>13. /\ queue = Seen(InLine, OpsSeen) /\ queue' = Seen(InLine', OpsSeen')
       /\ OpsSeen \in [Callers -> SeenOperations] /\ OpsSeen' \in [Callers -> SeenOperations]
       /\ \A d \in Callers \ {c} : OpsSeen'[d] = OpsSeen[d]
  <2>1. \A d \in Callers \ {c} : OpsSeen'[d] = OpsSeen[d]
    BY <1>1, <1>4, <1>5 DEF OpsSeen, OperationOf
  <2> QED
    BY <1>2, <1>7, <2>1 DEF Sight, Composed, Views, Shows
<1>14. OpsSeen[c].task = t /\ OpsSeen[c].awaited
  BY <1>1 DEF OpsSeen, OperationOf, t
<1>15. \/ \E i \in 1..Len(queue) :
             /\ queue[i].task = t /\ queue[i].awaited
             /\ \/ queue' = RemoveAt(queue, i)
                \/ queue' = [queue EXCEPT ![i].awaited = FALSE]
       \/ (\E e \in ready : e.task = t) /\ UNCHANGED queue
  <2>1. ASSUME NEW j \in 1..Len(InLine), InLine[j] = c
        PROVE  j \in 1..Len(queue) /\ queue[j] = OpsSeen[c]
    BY <1>7, <1>13, <2>1, SeenElements
  <2>2. ASSUME NEW j \in 1..Len(InLine), InLine[j] = c, InLine' = RemoveAt(InLine, j)
        PROVE  queue' = RemoveAt(queue, j)
    BY <1>7, <1>13, <2>2, SeenLeft
  <2>3. ASSUME NEW j \in 1..Len(InLine), InLine[j] = c, InLine' = InLine
        PROVE  queue' = [queue EXCEPT ![j].awaited = FALSE]
    <3>1. queue' = [queue EXCEPT ![j] = OpsSeen'[c]]
      BY <1>7, <1>13, <2>3, SeenChanged
    <3>2. OpsSeen'[c] = [OpsSeen[c] EXCEPT !.awaited = FALSE]
      <4>1. OpsSeen[c] = [task |-> c[1], kind |-> op[c].kind, key |-> op[c].key,
                          value |-> op[c].value, awaited |-> (told[c] = Pending)]
        BY DEF OpsSeen, OperationOf
      <4>2. OpsSeen'[c] = [task |-> c[1], kind |-> op[c].kind, key |-> op[c].key,
                           value |-> op[c].value, awaited |-> (told'[c] = Pending)]
        BY <1>1, <1>5 DEF OpsSeen, OperationOf
      <4>3. (told'[c] = Pending) = FALSE
        BY <1>4
      <4>4. ~OpsSeen'[c].awaited
        <5>1. OpsSeen'[c].awaited = (told'[c] = Pending)
          BY <4>2
        <5> QED
          BY <4>3, <5>1, Zenon
      <4>5. /\ OpsSeen'[c].task = OpsSeen[c].task /\ OpsSeen'[c].kind = OpsSeen[c].kind
            /\ OpsSeen'[c].key = OpsSeen[c].key /\ OpsSeen'[c].value = OpsSeen[c].value
        BY <4>1, <4>2
      <4>6. OpsSeen[c] \in SeenOperations /\ OpsSeen'[c] \in SeenOperations
        BY <1>13
      <4> QED
        BY <4>4, <4>5, <4>6 DEF SeenOperations
    <3>3. queue[j] = OpsSeen[c]
      BY <2>1, <2>3
    <3> QED
      BY <3>1, <3>2, <3>3
  <2>4. CASE ~Contains(InLine, c)
    <3>1. InLine' = InLine
      BY <1>8, <2>4 DEF Contains
    <3>2. \A d \in Callers : Contains(InLine, d) => OpsSeen'[d] = OpsSeen[d]
      BY <1>13, <2>4
    <3>3. queue' = queue
      BY <1>7, <1>13, <3>1, <3>2, SeenSame
    <3>4. result[c] # Pending
      BY <1>1, <1>2, <2>4 DEF ServiceInv
    <3>5. Learned(t, result[c]) \in ready
      BY <1>1, <1>3, <3>4 DEF Composed, Views, ReadyView, Known
    <3>6. Learned(t, result[c]).task = t
      BY DEF Learned, Completion
    <3> QED
      BY <3>3, <3>5, <3>6
  <2>5. CASE Contains(InLine, c)
    <3>1. PICK j \in 1..Len(InLine) : InLine[j] = c
      BY <2>5 DEF Contains
    <3>2. CASE InLine' = InLine
      BY <1>14, <2>1, <2>3, <3>1, <3>2
    <3>3. ASSUME NEW i \in 1..Len(InLine), InLine[i] = c, InLine' = RemoveAt(InLine, i)
          PROVE  /\ i \in 1..Len(queue) /\ queue[i].task = t /\ queue[i].awaited
                 /\ queue' = RemoveAt(queue, i)
      BY <1>14, <2>1, <2>2, <3>3
    <3> QED
      BY <1>8, <3>2, <3>3
  <2> QED
    BY <2>4, <2>5
<1>16. TimeOut(t)
  BY <1>1, <1>3, <1>11, <1>12, <1>15 DEF TimeOut, Shows
<1> QED
  BY <1>10, <1>16 DEF t

\* A caller is told what has happened to its operation.
LEMMA TellCovered ==
  ASSUME Composed, NEW c \in Callers, Coordinator!Tell(c),
         UNCHANGED <<mem, pc, call, answer>>, Shows
  PROVE  UNCHANGED vars /\ ServiceInv'
<1>1. /\ result[c] # Pending /\ told[c] = Pending /\ told' = [told EXCEPT ![c] = result[c]]
      /\ UNCHANGED <<store, line, current, op, result>>
  BY DEF Coordinator!Tell, Pending
<1>2. /\ ServiceInv /\ ServiceTypes /\ Sight
      /\ told \in [Callers -> Outcomes] /\ result \in [Callers -> Outcomes]
  BY InSight DEF Composed, ServiceInv, ServiceTypes
<1>3. told'[c] = result[c] /\ \A d \in Callers \ {c} : told'[d] = told[d]
  BY <1>1, <1>2
<1>4. Pending' = Pending
  BY DEF Pending, Coordinator!Pending, Coordinator!Outcome
<1>5. ServiceTypes' /\ InLine' = InLine
  BY <1>1, <1>2 DEF ServiceTypes, InLine
<1>6. ServiceInv'
  <2>1. \A d \in Callers : Asked(d)' = Asked(d)
    BY <1>1 DEF Asked
  <2>2. ASSUME NEW d \in Callers
        PROVE  /\ Contains(InLine', d) => Asked(d)' /\ result'[d] = Pending
               /\ Asked(d)' \/ (told'[d] = Pending /\ result'[d] = Pending)
               /\ Asked(d)' /\ told'[d] = Pending => pc'[d[1]] = d[2]
               /\ Asked(d)' /\ told'[d] = Pending /\ result'[d] = Pending =>
                     Contains(InLine', d)
    BY <1>1, <1>2, <1>3, <1>5, <2>1 DEF ServiceInv
  <2>3. ASSUME NEW u \in Tasks, pc'[u] \in Waiting PROVE Asked(Caller(u))'
    BY <1>1, <1>2, <2>3 DEF ServiceInv, Asked, Caller
  <2> QED
    BY <1>2, <1>4, <1>5, <2>2, <2>3 DEF ServiceInv
<1>7. queue' = queue
  <2>1. ~Contains(InLine, c) /\ Sight'
    BY <1>1, <1>2, <1>5, InSightNext DEF ServiceInv
  <2>2. \A d \in Callers : Contains(InLine, d) => OpsSeen'[d] = OpsSeen[d]
    BY <1>1, <1>3, <1>4, <2>1 DEF OpsSeen, OperationOf
  <2>3. Seen(InLine, OpsSeen') = Seen(InLine, OpsSeen)
    BY <1>2, <2>2, SeenSame DEF Sight
  <2> QED
    BY <1>2, <1>5, <2>1, <2>3 DEF Sight, Composed, Views, Shows
<1>8. ready' = ready
  <2>1. \A d \in Callers : Known(d)' = Known(d)
    BY <1>1, <1>3, <1>4 DEF Known
  <2>2. ASSUME NEW u \in Tasks PROVE Heard(u)' = Heard(u)
    <3>1. CASE pc[u] \in Waiting
      <4>1. Caller(u) \in Callers /\ Caller(u)' = Caller(u)
        BY <3>1 DEF Caller, Callers
      <4> QED
        BY <1>4, <2>1, <3>1, <4>1 DEF Heard, Known
    <3>2. CASE pc[u] \notin Waiting
      BY <1>4, <3>2 DEF Heard
    <3> QED
      BY <3>1, <3>2
  <2>3. ReadyView' = ReadyView
    BY <2>2, ReadySame
  <2> QED
    BY <2>3 DEF Composed, Views, Shows
<1>9. published' = published
  <2>1. PublishedView' = PublishedView
    BY <1>1 DEF PublishedView
  <2> QED
    BY <2>1 DEF Composed, Views, Shows
<1> QED
  BY <1>1, <1>6, <1>7, <1>8, <1>9 DEF vars, Shows

\* What changes neither the line nor what callers are told.
LEMMA ServiceKept ==
  ASSUME Composed, ServiceTypes', InLine' = InLine, UNCHANGED <<op, result, told, pc>>, Shows
  PROVE  UNCHANGED <<queue, ready, published>> /\ ServiceInv'
<1>1. Pending' = Pending
  BY DEF Pending, Coordinator!Pending, Coordinator!Outcome
<1>2. QueueView' = QueueView /\ ReadyView' = ReadyView /\ PublishedView' = PublishedView
  BY <1>1 DEF QueueView, OperationOf, ReadyView, Known, Caller, PublishedView
<1>3. ServiceInv'
  BY <1>1 DEF Composed, ServiceInv, Asked, Caller
<1> QED
  BY <1>2, <1>3 DEF Composed, Views, Shows

LEMMA BeginCovered ==
  ASSUME Composed, Coordinator!Begin, UNCHANGED <<mem, pc, call, answer>>, Shows
  PROVE  UNCHANGED vars /\ ServiceInv'
<1>1. /\ current = NoCaller /\ line # <<>> /\ current' = Head(line) /\ line' = Tail(line)
      /\ UNCHANGED <<store, op, result, told>>
  BY DEF Coordinator!Begin
<1>2. ServiceTypes /\ line \in Seq(Callers)
  BY DEF Composed, ServiceInv, ServiceTypes
<1>3. InLine = Line(line, current) /\ InLine' = Line(line', current')
  BY DEF InLine, Line
<1>4. Line(Tail(line), Head(line)) = Line(line, NoCaller) /\ Head(line) \in Callers
  BY <1>1, <1>2, LineBegun
<1>5. InLine' = InLine
  BY <1>1, <1>3, <1>4
<1>6. Tail(line) \in Seq(Callers)
  BY <1>1, <1>2, HeadTailProperties
<1>7. ServiceTypes'
  BY <1>1, <1>2, <1>4, <1>6 DEF ServiceTypes
<1> QED
  BY <1>1, <1>5, <1>7, ServiceKept DEF vars, Shows

\* The operation under way is the first of the queue.
LEMMA UnderWay ==
  ASSUME Composed, current # NoCaller
  PROVE  /\ current \in Callers /\ Contains(InLine, current)
         /\ InLine \in Seq(Callers) /\ InLine # <<>>
         /\ Head(InLine) = current /\ Tail(InLine) = line
         /\ queue # <<>> /\ Head(queue) = OperationOf(current)
         /\ op[current] \in Submissions
<1>1. ServiceInv /\ ServiceTypes /\ Sight
  BY InSight DEF Composed, ServiceInv
<1>2. /\ InLine \in Seq(Callers) /\ InLine # <<>>
      /\ Head(InLine) = current /\ Tail(InLine) = line
      /\ current \in Callers
  BY <1>1, LineShape DEF Sight, ServiceTypes
<1>3. 1 \in 1..Len(InLine) /\ InLine[1] = current
  BY <1>2, TailRemoves
<1>4. Contains(InLine, current)
  BY <1>3 DEF Contains
<1>5. /\ queue = Seen(InLine, OpsSeen) /\ OpsSeen \in [Callers -> SeenOperations]
      /\ OpsSeen[current] = OperationOf(current)
  BY <1>1, <1>2 DEF Sight, Composed, Views, OpsSeen
<1>6. /\ queue \in Seq(SeenOperations) /\ Len(queue) = Len(InLine)
      /\ queue[1] = OperationOf(current)
  BY <1>2, <1>3, <1>5, SeenElements
<1>7. queue # <<>>
  BY <1>3, <1>6, EmptySeq
<1>8. Head(queue) = OperationOf(current)
  BY <1>6, <1>7, TailRemoves
<1>9. op[current] \in Submissions
  BY <1>1, <1>2, <1>4 DEF ServiceInv, ServiceTypes, Asked
<1> QED
  BY <1>2, <1>4, <1>7, <1>8, <1>9

LEMMA WriteCovered ==
  ASSUME Composed, Coordinator!Write, UNCHANGED <<mem, pc, call, answer>>, Shows
  PROVE  Write /\ ServiceInv'
<1>1. /\ current # NoCaller /\ op[current].kind = "set"
      /\ store' = [store EXCEPT ![op[current].key] = op[current].value]
      /\ UNCHANGED <<line, current, op, result, told>>
  BY DEF Coordinator!Write, Coordinator!Put
<1>2. /\ queue # <<>> /\ Head(queue).kind = op[current].kind
      /\ Head(queue).key = op[current].key /\ Head(queue).value = op[current].value
  BY <1>1, UnderWay DEF OperationOf
<1>3. UNCHANGED <<queue, ready, published>> /\ ServiceInv'
  <2>1. ServiceTypes' /\ InLine' = InLine
    BY <1>1 DEF Composed, ServiceInv, ServiceTypes, InLine
  <2> QED
    BY <1>1, <2>1, ServiceKept
<1> QED
  BY <1>1, <1>2, <1>3 DEF Write, Shows

LEMMA ExpireCovered ==
  ASSUME Composed, NEW k \in Keys, Coordinator!Expire(k),
         UNCHANGED <<mem, pc, call, answer>>, Shows
  PROVE  (Expire(k) \/ UNCHANGED vars) /\ ServiceInv'
<1>1. /\ store' = [j \in Keys |-> IF j \in {k} THEN Absent ELSE store[j]]
      /\ UNCHANGED <<line, current, op, result, told>>
  BY DEF Coordinator!Expire, Coordinator!Discard
<1>2. store \in [Keys -> StoredValues]
  BY DEF Composed, IInv, StateInv
<1>3. store' = [store EXCEPT ![k] = Absent]
  BY <1>1, <1>2
<1>4. UNCHANGED <<queue, ready, published>> /\ ServiceInv'
  <2>1. ServiceTypes' /\ InLine' = InLine
    BY <1>1 DEF Composed, ServiceInv, ServiceTypes, InLine
  <2> QED
    BY <1>1, <2>1, ServiceKept
<1>5. CASE store[k] = Absent
  <2>1. store' = store
    BY <1>2, <1>3, <1>5
  <2> QED
    BY <1>4, <2>1 DEF vars, Shows
<1>6. CASE store[k] # Absent
  BY <1>3, <1>4, <1>6 DEF Expire, Shows
<1> QED
  BY <1>4, <1>5, <1>6

\* What the end of an operation does to the store.
LEMMA FinishWorks ==
  ASSUME store \in [Keys -> StoredValues], NEW o \in Submissions, NEW v \in StoredValues
  PROVE  /\ Coordinator!Succeed(o, v) =>
              \/ o.kind = "get" /\ v = store[o.key] /\ UNCHANGED store
              \/ /\ o.kind \in {"set", "delete"} /\ v = Absent
                 /\ store' = [store EXCEPT ![o.key] = o.value]
         /\ Coordinator!Fail(o) =>
              \/ UNCHANGED store
              \/ /\ o.kind # "get"
                 /\ \E left \in {Absent, o.value} : store' = [store EXCEPT ![o.key] = left]
<1>1. /\ o.key \in Keys /\ o.kind \in {"get", "set", "delete"}
      /\ o.kind # "set" => o.value = Absent
  BY DEF Submissions
<1>2. Coordinator!Discard({o.key}) => store' = [store EXCEPT ![o.key] = Absent]
  BY <1>1 DEF Coordinator!Discard
<1>3. Coordinator!Put(o.key, o.value) => store' = [store EXCEPT ![o.key] = o.value]
  BY DEF Coordinator!Put
<1>4. ASSUME Coordinator!Succeed(o, v)
      PROVE  \/ o.kind = "get" /\ v = store[o.key] /\ UNCHANGED store
             \/ /\ o.kind \in {"set", "delete"} /\ v = Absent
                /\ store' = [store EXCEPT ![o.key] = o.value]
  <2>1. CASE o.kind = "get"
    BY <1>4, <2>1 DEF Coordinator!Succeed
  <2>2. CASE o.kind = "delete"
    BY <1>1, <1>2, <1>4, <2>2 DEF Coordinator!Succeed
  <2>3. CASE o.kind = "set"
    <3>1. /\ v = Absent
          /\ IF verified THEN store[o.key] = o.value /\ UNCHANGED store
                         ELSE Coordinator!Put(o.key, o.value)
      BY <1>4, <2>3 DEF Coordinator!Succeed
    <3>2. store[o.key] = o.value => store = [store EXCEPT ![o.key] = o.value]
      BY <1>1
    <3>3. store' = [store EXCEPT ![o.key] = o.value]
      BY <1>3, <3>1, <3>2
    <3> QED
      BY <2>3, <3>1, <3>3
  <2> QED
    BY <1>1, <2>1, <2>2, <2>3
<1>5. ASSUME Coordinator!Fail(o)
      PROVE  \/ UNCHANGED store
             \/ /\ o.kind # "get"
                /\ \E left \in {Absent, o.value} : store' = [store EXCEPT ![o.key] = left]
  BY <1>1, <1>2, <1>3, <1>5 DEF Coordinator!Fail
<1> QED
  BY <1>4, <1>5

\* The operation under way is over.
LEMMA FinishCovered ==
  ASSUME Composed, Coordinator!Finish, UNCHANGED <<mem, pc, call, answer>>, Shows
  PROVE  Apply /\ ServiceInv'
<1> DEFINE c == current
           o == Head(queue)
<1>1. current # NoCaller /\ current' = NoCaller /\ UNCHANGED <<line, op, told>>
  BY DEF Coordinator!Finish
<1>2. /\ c \in Callers /\ Contains(InLine, c) /\ InLine \in Seq(Callers) /\ InLine # <<>>
      /\ Head(InLine) = c /\ Tail(InLine) = line
      /\ queue # <<>> /\ o = OperationOf(c) /\ op[c] \in Submissions
  BY <1>1, UnderWay
<1>3. /\ ServiceInv /\ ServiceTypes /\ Sight /\ store \in [Keys -> StoredValues]
      /\ told \in [Callers -> Outcomes] /\ result \in [Callers -> Outcomes]
  BY InSight DEF Composed, ServiceInv, ServiceTypes, IInv, StateInv
<1>4. PICK out \in Outcomes :
        /\ result' = [result EXCEPT ![c] = out] /\ out # Pending
        /\ \/ out.status = "done" /\ Coordinator!Succeed(op[c], out.value)
           \/ out = Coordinator!Failed /\ Coordinator!Fail(op[c])
  <2>1. CASE \E v \in (StoredValues \ {Absent}) \cup {Absent} :
               /\ Coordinator!Succeed(op[c], v)
               /\ result' = [result EXCEPT ![c] = Coordinator!Outcome("done", v)]
    <3>1. PICK v \in StoredValues :
            /\ Coordinator!Succeed(op[c], v)
            /\ result' = [result EXCEPT ![c] = Coordinator!Outcome("done", v)]
      BY <2>1 DEF StoredValues
    <3>2. PICK out : out = Coordinator!Outcome("done", v)
      OBVIOUS
    <3>3. out \in Outcomes /\ out # Pending /\ out.status = "done" /\ out.value = v
      BY <3>2, OutcomeFacts
    <3> QED
      BY <3>1, <3>2, <3>3
  <2>2. CASE /\ Coordinator!Fail(op[c])
             /\ result' = [result EXCEPT ![c] = Coordinator!Failed]
    BY <2>2, OutcomeFacts
  <2> QED
    BY <2>1, <2>2, Zenon DEF Coordinator!Finish
<1> HIDE DEF c, o
<1>5. /\ result[c] = Pending /\ Asked(c)
      /\ result'[c] = out /\ \A d \in Callers \ {c} : result'[d] = result[d]
  BY <1>2, <1>3, <1>4 DEF ServiceInv
<1>6. Pending' = Pending
  BY DEF Pending, Coordinator!Pending, Coordinator!Outcome
<1>7. ServiceTypes'
  BY <1>1, <1>2, <1>3, <1>4 DEF ServiceTypes
<1>8. InLine' = RemoveAt(InLine, 1) /\ 1 \in 1..Len(InLine) /\ InLine[1] = c
  <2>1. InLine' = line
    BY <1>1 DEF InLine
  <2> QED
    BY <1>2, <2>1, TailRemoves
<1>9. /\ IsInjective(InLine')
      /\ \A d : Contains(InLine', d) <=> Contains(InLine, d) /\ d # c
  <2>1. IsInjective(InLine)
    BY <1>3 DEF ServiceInv
  <2> QED
    BY <1>2, <1>8, <2>1, RemoveAtOnce
<1>10. ServiceInv'
  <2>1. \A d \in Callers : Asked(d)' = Asked(d)
    BY <1>1 DEF Asked
  <2>2. ASSUME NEW d \in Callers
        PROVE  /\ Contains(InLine', d) => Asked(d)' /\ result'[d] = Pending
               /\ Asked(d)' \/ (told'[d] = Pending /\ result'[d] = Pending)
               /\ Asked(d)' /\ told'[d] = Pending => pc'[d[1]] = d[2]
               /\ Asked(d)' /\ told'[d] = Pending /\ result'[d] = Pending =>
                     Contains(InLine', d)
    <3>1. CASE d = c
      BY <1>1, <1>3, <1>4, <1>5, <1>9, <2>1, <3>1 DEF ServiceInv
    <3>2. CASE d # c
      BY <1>1, <1>3, <1>5, <1>9, <2>1, <3>2 DEF ServiceInv
    <3> QED
      BY <3>1, <3>2
  <2>3. ASSUME NEW u \in Tasks, pc'[u] \in Waiting PROVE Asked(Caller(u))'
    BY <1>1, <1>3, <2>3 DEF ServiceInv, Asked, Caller
  <2> QED
    BY <1>6, <1>7, <1>9, <2>2, <2>3 DEF ServiceInv
<1>11. queue' = Tail(queue)
  <2>1. Sight'
    BY <1>7, InSightNext
  <2>2. OpsSeen' = OpsSeen
    BY <1>1, <1>6 DEF OpsSeen, OperationOf
  <2>3. /\ queue = Seen(InLine, OpsSeen) /\ queue' = Seen(RemoveAt(InLine, 1), OpsSeen)
        /\ OpsSeen \in [Callers -> SeenOperations]
    BY <1>3, <1>8, <2>1, <2>2 DEF Sight, Composed, Views, Shows
  <2>4. IsInjective(InLine)
    BY <1>3 DEF ServiceInv
  <2>5. queue' = RemoveAt(queue, 1)
    BY <1>2, <1>8, <2>3, <2>4, SeenLeft
  <2>6. queue \in Seq(SeenOperations)
    BY <1>2, <2>3, SeenElements
  <2> QED
    BY <1>2, <2>5, <2>6, TailRemoves
<1>12. o = [task |-> c[1], kind |-> op[c].kind, key |-> op[c].key, value |-> op[c].value,
            awaited |-> (told[c] = Pending)]
  BY <1>2 DEF OperationOf
<1>13. ready' = IF told[c] = Pending THEN ready \cup {Learned(c[1], out)} ELSE ready
  <2>1. CASE told[c] = Pending
    <3>1. PICK t \in Tasks : t = c[1] /\ c = <<t, c[2]>> /\ pc[t] = c[2] /\ pc[t] \in Waiting
      BY <1>2, <1>3, <1>5, <2>1 DEF ServiceInv, Callers
    <3>2. Caller(t) = c /\ Caller(t)' = c
      BY <3>1 DEF Caller
    <3>3. Heard(t) = Pending /\ Heard(t)' = out
      BY <1>1, <1>5, <1>6, <2>1, <3>1, <3>2 DEF Heard, Known
    <3>4. \A u \in Tasks \ {t} : Heard(u)' = Heard(u)
      <4>1. \A d \in Callers : d[1] # t => told'[d] = told[d] /\ result'[d] = result[d]
        BY <1>1, <1>5, <3>1
      <4> QED
        BY <1>3, <4>1, Unmoved
    <3>5. ReadyView' = {e \in ReadyView : e.task # t} \cup {Learned(t, out)}
      BY <1>4, <1>6, <3>3, <3>4, ReadyChanges
    <3>6. \A e \in ReadyView : e.task # t
      BY <3>3 DEF ReadyView, Heard, Learned, Completion
    <3> QED
      BY <2>1, <3>1, <3>5, <3>6 DEF Composed, Views, Shows
  <2>2. CASE told[c] # Pending
    <3>1. \A d \in Callers : Known(d)' = Known(d)
      BY <1>1, <1>5, <1>6, <2>2 DEF Known
    <3>2. ASSUME NEW u \in Tasks PROVE Heard(u)' = Heard(u)
      <4>1. CASE pc[u] \in Waiting
        <5>1. Caller(u) \in Callers /\ Caller(u)' = Caller(u)
          BY <4>1 DEF Caller, Callers
        <5> QED
          BY <1>6, <3>1, <4>1, <5>1 DEF Heard, Known
      <4>2. CASE pc[u] \notin Waiting
        BY <1>6, <4>2 DEF Heard
      <4> QED
        BY <4>1, <4>2
    <3>3. ReadyView' = ReadyView
      BY <3>2, ReadySame
    <3> QED
      BY <2>2, <3>3 DEF Composed, Views, Shows
  <2> QED
    BY <2>1, <2>2
<1>14. published' = IF op[c].kind \in {"set", "delete"} /\ out.status = "done"
                    THEN published \cup {<<op[c].key, op[c].value>>} ELSE published
  <2>1. Pending.status # "done"
    BY OutcomeFacts
  <2>2. PublishedView' = IF op[c].kind \in {"set", "delete"} /\ out.status = "done"
                         THEN PublishedView \cup {<<op[c].key, op[c].value>>}
                         ELSE PublishedView
    BY <1>1, <1>2, <1>5, <2>1 DEF PublishedView
  <2> QED
    BY <2>2 DEF Composed, Views, Shows
<1>15. PICK ok \in BOOLEAN : ok = (out.status = "done")
  OBVIOUS
<1>16. PICK v \in StoredValues : v = out.value
  BY <1>4, OutcomeFacts
<1>17. Complete(o, ok, v)
  <2>1. Learned(c[1], out) = Completion(o.task, ok, v)
    BY <1>12, <1>15, <1>16 DEF Learned
  <2>2. o.awaited <=> told[c] = Pending
    BY <1>12
  <2> QED
    BY <1>11, <1>13, <2>1, <2>2 DEF Complete
<1>18. Performed(o, ok, v)
  <2>1. /\ o.kind = op[c].kind /\ o.key = op[c].key /\ o.value = op[c].value
        /\ op[c].kind \in {"get", "set", "delete"}
    BY <1>2, <1>12 DEF Submissions
  <2>2. CASE out.status = "done"
    <3>1. \/ o.kind = "get" /\ v = store[o.key] /\ UNCHANGED store
          \/ /\ o.kind \in {"set", "delete"} /\ v = Absent
             /\ store' = [store EXCEPT ![o.key] = o.value]
      <4>1. Coordinator!Succeed(op[c], v)
        BY <1>4, <1>16, <2>2, OutcomeFacts
      <4> QED
        BY <1>2, <1>3, <2>1, <4>1, FinishWorks
    <3> QED
      BY <1>14, <1>15, <2>1, <2>2, <3>1 DEF Performed
  <2>3. CASE out.status # "done"
    <3>1. ~ok /\ v = Absent /\ UNCHANGED published
      BY <1>4, <1>14, <1>15, <1>16, <2>3, OutcomeFacts
    <3>2. \/ UNCHANGED store
          \/ /\ o.kind # "get"
             /\ \E left \in {Absent, o.value} : store' = [store EXCEPT ![o.key] = left]
      <4>1. Coordinator!Fail(op[c])
        BY <1>4, <2>3
      <4> QED
        BY <1>2, <1>3, <1>16, <2>1, <4>1, FinishWorks
    <3> QED
      BY <3>1, <3>2 DEF Performed
  <2> QED
    BY <2>2, <2>3
<1>19. ApplyWith(ok, v)
  BY <1>2, <1>17, <1>18 DEF ApplyWith, Shows, o
<1> QED
  BY <1>10, <1>19 DEF Apply

-----------------------------------------------------------------------------
(* The implementation of ResultCache.                                       *)

LEMMA ComposedInitially == ComposedInit => Composed
<1> SUFFICES ASSUME ComposedInit PROVE Composed
  OBVIOUS
<1>1. /\ Init /\ persistent /\ line = <<>> /\ current = NoCaller
      /\ op = [c \in Callers |-> Coordinator!NoOperation]
      /\ result = [c \in Callers |-> Pending] /\ told = [c \in Callers |-> Pending]
  BY DEF ComposedInit
<1>2. InLine = <<>> /\ <<>> \in Seq(Callers) /\ Len(InLine) = 0
  BY <1>1, EmptySeq DEF InLine
<1>3. ServiceTypes
  BY <1>1, <1>2, OutcomeFacts DEF ServiceTypes
<1>4. ServiceInv
  <2>1. IsInjective(InLine) /\ \A c : ~Contains(InLine, c)
    BY <1>2 DEF IsInjective, Contains
  <2>2. \A c \in Callers : ~Asked(c) /\ told[c] = Pending /\ result[c] = Pending
    BY <1>1 DEF Asked
  <2>3. \A t \in Tasks : pc[t] \notin Waiting
    BY <1>1 DEF Init, Waiting
  <2> QED
    BY <1>3, <2>1, <2>2, <2>3 DEF ServiceInv
<1>5. queue = QueueView
  <2>1. QueueView = [i \in 1..0 |-> OperationOf(InLine[i])]
    BY <1>2 DEF QueueView
  <2>2. QueueView = <<>>
    BY <2>1
  <2> QED
    BY <1>1, <2>2 DEF Init
<1>6. ready = ReadyView
  BY <1>1 DEF Init, ReadyView, Waiting
<1>7. published = PublishedView
  <2>1. Pending.status # "done"
    BY OutcomeFacts
  <2> QED
    BY <1>1, <2>1 DEF Init, PublishedView
<1>8. IInv
  BY <1>1, IInvInit
<1> QED
  BY <1>1, <1>4, <1>5, <1>6, <1>7, <1>8 DEF Composed, Views

\* Every step over OrderedStore is one of ResultCache, or changes nothing of it.
LEMMA ComposedStep ==
  ASSUME Composed, [ComposedNext]_composedVars
  PROVE  [Next]_vars /\ Composed'
<1>1. CASE UNCHANGED composedVars
  <2>1. UNCHANGED vars /\ UNCHANGED <<line, current, op, result, told>>
    BY <1>1 DEF composedVars, serviceVars
  <2>2. IInv'
    BY <2>1, IInvStep DEF Composed
  <2>3. Pending' = Pending
    BY DEF Pending, Coordinator!Pending, Coordinator!Outcome
  <2>4. InLine' = InLine /\ ServiceTypes'
    BY <2>1 DEF InLine, ServiceTypes, Composed, ServiceInv
  <2>5. ServiceInv'
    BY <2>1, <2>3, <2>4 DEF Composed, ServiceInv, Asked, Caller, vars
  <2>6. QueueView' = QueueView /\ ReadyView' = ReadyView /\ PublishedView' = PublishedView
    BY <2>1, <2>3, <2>4
    DEF QueueView, OperationOf, ReadyView, Known, Caller, PublishedView, vars
  <2>7. Views'
    BY <2>1, <2>6 DEF Composed, Views, vars
  <2> QED
    BY <2>1, <2>2, <2>5, <2>7 DEF Composed
<1>2. CASE ComposedNext
  <2>1. Shows
    BY <1>2 DEF ComposedNext, Shows
  <2>2. [Next]_vars /\ ServiceInv'
    <3>1. CASE Calling
      <4>1. PICK t \in Tasks, c \in Calls : Call(t, c)
        BY <3>1 DEF Calling
      <4> QED
        BY <3>1, <4>1, CallingCovered DEF Calling, Next
    <3>2. ASSUME NEW t \in Tasks, Starting(t)
          PROVE  [Next]_vars /\ ServiceInv'
      BY <2>1, <3>2, StartingCovered DEF Next
    <3>3. ASSUME NEW t \in Tasks, Continuing(t)
          PROVE  [Next]_vars /\ ServiceInv'
      BY <2>1, <3>3, ContinuingCovered DEF Next
    <3>4. CASE Serving
      <4>0. UNCHANGED <<mem, pc, call, answer>>
        BY <3>4 DEF Serving
      <4>1. ASSUME NEW c \in Callers, Coordinator!GiveUp(c)
            PROVE  [Next]_vars /\ ServiceInv'
        <5>1. c[1] \in Tasks
          BY DEF Callers
        <5> QED
          BY <2>1, <4>0, <4>1, <5>1, GiveUpCovered DEF Next
      <4>2. ASSUME NEW c \in Callers, Coordinator!Tell(c)
            PROVE  [Next]_vars /\ ServiceInv'
        BY <2>1, <4>0, <4>2, TellCovered
      <4>3. CASE Coordinator!Begin
        BY <2>1, <4>0, <4>3, BeginCovered
      <4>4. CASE Coordinator!Write
        BY <2>1, <4>0, <4>4, WriteCovered DEF Next
      <4>5. CASE Coordinator!Finish
        BY <2>1, <4>0, <4>5, FinishCovered DEF Next
      <4>6. ASSUME NEW k \in Keys, Coordinator!Expire(k)
            PROVE  [Next]_vars /\ ServiceInv'
        BY <2>1, <4>0, <4>6, ExpireCovered DEF Next
      <4> QED
        BY <3>4, <4>1, <4>2, <4>3, <4>4, <4>5, <4>6 DEF Serving
    <3> QED
      BY <1>2, <3>1, <3>2, <3>3, <3>4 DEF ComposedNext
  <2>3. IInv'
    BY <2>2, IInvStep DEF Composed
  <2>4. Views'
    BY <2>1 DEF Shows, Composed, Views
  <2> QED
    BY <2>2, <2>3, <2>4 DEF Composed
<1> QED
  BY <1>1, <1>2

\* cache.py relies on no more than storage.py provides: over OrderedStore, the
\* cache is a behaviour of ResultCache, whatever OrderedStore does to it.
THEOREM StoreIsCovered == ComposedSpec => StoreIsAsAssumed
<1>1. ComposedInit => Init
  BY DEF ComposedInit
<1>2. Composed /\ [ComposedNext]_composedVars => [Next]_vars /\ Composed'
  BY ComposedStep
<1> QED
  BY <1>1, <1>2, ComposedInitially, PTL DEF ComposedSpec, StoreIsAsAssumed, Spec

=============================================================================
