--------------------------- MODULE RequestsProofs ---------------------------
(***************************************************************************)
(* Theorems of Requests, for every document, selector, limit and request.  *)
(* First what the loops of the selections compute, by induction over their *)
(* rounds: which pairs they plan, and that a manifest and its lock plan    *)
(* the same.  Then the steps of a request: what was parsed, solved and     *)
(* answered is always what FromPath and Jobs make of the request.          *)
(***************************************************************************)
EXTENDS Requests, SequenceLemmas, SequenceTheorems, FiniteSetTheorems, TLAPS

-----------------------------------------------------------------------------
(* Sequences without repetitions.                                           *)

NoRepeat(s) == \A i, j \in 1..Len(s) : s[i] = s[j] => i = j

\* The positions of a sequence.
LEMMA Positions ==
  ASSUME NEW N \in Nat
  PROVE  IsFiniteSet(1..N) /\ Cardinality(1..N) = N
<1>1. /\ IsFiniteSet(1..N)
      /\ Cardinality(1..N) = IF 1 > N THEN 0 ELSE N - 1 + 1
  BY FS_Interval
<1> QED
  BY <1>1

\* What a round of the selections adds.
LEMMA AddedSeq ==
  ASSUME NEW S, NEW s \in Seq(S), NEW x \in S
  PROVE  /\ Added(s, x) \in Seq(S)
         /\ ToSet(Added(s, x)) = ToSet(s) \cup {x}
         /\ NoRepeat(s) => NoRepeat(Added(s, x))
<1> DEFINE a == Append(s, x)
<1>1. CASE x \in ToSet(s)
  BY <1>1 DEF Added
<1>2. CASE x \notin ToSet(s)
  <2>1. Added(s, x) = a
    BY <1>2 DEF Added
  <2>2. ToSet(a) = ToSet(s) \cup {x}
    BY ToSetOfAppend
  <2>3. /\ a \in Seq(S)
        /\ Len(a) = Len(s) + 1
        /\ \A i \in 1..Len(s) : a[i] = s[i]
        /\ a[Len(s) + 1] = x
    BY AppendProperties
  <2> HIDE DEF a
  <2>4. Len(s) \in Nat /\ \A i \in 1..Len(s) : s[i] # x
    BY <1>2, ToSetOfSeq, LenProperties
  <2>5. ASSUME NoRepeat(s), NEW i \in 1..Len(a), NEW j \in 1..Len(a), a[i] = a[j]
        PROVE  i = j
    <3>1. /\ i \in 1..Len(s) \/ i = Len(s) + 1
          /\ j \in 1..Len(s) \/ j = Len(s) + 1
      BY <2>3, <2>4
    <3> QED
      BY <2>3, <2>4, <2>5, <3>1 DEF NoRepeat
  <2>6. NoRepeat(s) => NoRepeat(a)
    BY <2>5, Zenon DEF NoRepeat
  <2> QED
    BY <2>1, <2>2, <2>3, <2>6
<1> QED
  BY <1>1, <1>2

\* The elements of a sequence are finitely many, and as many as its positions
\* exactly if it repeats none.
LEMMA ToSetFinite ==
  ASSUME NEW S, NEW s \in Seq(S)
  PROVE  /\ IsFiniteSet(ToSet(s))
         /\ NoRepeat(s) <=> Cardinality(ToSet(s)) = Len(s)
<1> DEFINE f == [i \in 1..Len(s) |-> s[i]]
<1>1. Len(s) \in Nat /\ IsFiniteSet(1..Len(s)) /\ Cardinality(1..Len(s)) = Len(s)
  BY LenProperties, Positions
<1>2. f \in Surjection(1..Len(s), ToSet(s))
  <2>1. ToSet(s) = {s[i] : i \in 1..Len(s)}
    BY ToSetOfSeq
  <2> QED
    BY <2>1 DEF Surjection
<1>3. /\ IsFiniteSet(ToSet(s))
      /\ Cardinality(ToSet(s)) = Len(s) <=> f \in Injection(1..Len(s), ToSet(s))
  BY <1>1, <1>2, FS_Surjection
<1>4. f \in Injection(1..Len(s), ToSet(s)) <=> NoRepeat(s)
  BY <1>2 DEF Surjection, Injection, IsInjective, NoRepeat
<1> QED
  BY <1>3, <1>4

\* dict.fromkeys keeps every element.
LEMMA DistinctSeq ==
  ASSUME NEW S, NEW s \in Seq(S)
  PROVE  Distinct(s) \in Seq(S) /\ ToSet(Distinct(s)) = ToSet(s)
<1> DEFINE N == Len(s)
           seen[n \in 0..N] == IF n = 0 THEN <<>> ELSE Added(seen[n - 1], s[n])
           T == {n \in 0..N : /\ seen[n] \in Seq(S)
                              /\ ToSet(seen[n]) = {s[i] : i \in 1..n}}
<1>1. N \in Nat /\ \A i \in 1..N : s[i] \in S
  BY LenProperties, ElementOfSeq
<1>2. Distinct(s) = seen[N]
  BY Zenon DEF Distinct
<1>3. \E f : f = [n \in 0..N |-> IF n = 0 THEN <<>> ELSE Added(f[n - 1], s[n])]
  <2> DEFINE step == [p \in (1..N) \X Seq(S) |-> Added(p[2], s[p[1]])]
  <2>1. step \in [(1..N) \X Seq(S) -> Seq(S)]
    BY <1>1, AddedSeq
  <2>2. PICK f : IsHistory(f, N, Seq(S), <<>>, step)
    <3>1. <<>> \in Seq(S) /\ N \in Nat
      BY <1>1, EmptySeq
    <3> HIDE DEF step, N
    <3> QED
      BY <2>1, <3>1, Loop
  <2>3. ASSUME NEW n \in 1..N PROVE f[n] = Added(f[n - 1], s[n])
    <3>1. n - 1 \in 0..N
      BY <1>1
    <3>2. f[n - 1] \in Seq(S) /\ f[n] = step[<<n, f[n - 1]>>]
      BY <2>2, <3>1 DEF IsHistory
    <3> QED
      BY <3>2
  <2>4. f = [n \in 0..N |-> f[n]] /\ f[0] = <<>>
    BY <2>2 DEF IsHistory
  <2>5. \A n \in 0..N : n = 0 \/ n \in 1..N
    BY <1>1
  <2>6. \A n \in 0..N : f[n] = IF n = 0 THEN <<>> ELSE Added(f[n - 1], s[n])
    BY <2>3, <2>4, <2>5
  <2>7. f = [n \in 0..N |-> IF n = 0 THEN <<>> ELSE Added(f[n - 1], s[n])]
    BY <2>4, <2>6, Zenon
  <2> QED
    BY <2>7
<1>4. seen = [n \in 0..N |-> IF n = 0 THEN <<>> ELSE Added(seen[n - 1], s[n])]
  BY <1>3, Zenon
<1> HIDE DEF seen
<1>5. 0 \in T
  <2>1. 0 \in 0..N
    BY <1>1
  <2>2. seen[0] = <<>>
    BY <1>4, <2>1
  <2>3. <<>> \in Seq(S) /\ ToSet(<<>>) = {}
    <3>1. <<>> \in Seq(S) /\ Len(<<>>) = 0
      BY EmptySeq
    <3>2. PICK e \in Seq(S) : e = <<>> /\ Len(e) = 0
      BY <3>1
    <3>3. ToSet(e) = {e[i] : i \in 1..Len(e)}
      BY ToSetOfSeq
    <3>4. ToSet(e) = {}
      BY <3>2, <3>3
    <3> QED
      BY <3>2, <3>4
  <2>4. {s[i] : i \in 1..0} = {}
    OBVIOUS
  <2> QED
    BY <2>1, <2>2, <2>3, <2>4
<1>6. ASSUME NEW n \in 1..N, n - 1 \in T PROVE n \in T
  <2>1. seen[n] = Added(seen[n - 1], s[n]) /\ s[n] \in S
    BY <1>1, <1>4
  <2>2. /\ seen[n] \in Seq(S)
        /\ ToSet(seen[n]) = ToSet(seen[n - 1]) \cup {s[n]}
    <3>1. seen[n - 1] \in Seq(S)
      BY <1>6
    <3> QED
      BY <2>1, <3>1, AddedSeq
  <2>3. \A i : i \in 1..n <=> i \in 1..(n - 1) \/ i = n
    BY <1>1
  <2>4. ToSet(seen[n]) = {s[i] : i \in 1..n}
    BY <1>6, <2>2, <2>3
  <2> QED
    BY <2>2, <2>4
<1>7. N \in T
  <2> HIDE DEF T, N
  <2>1. 0..N \subseteq T
    BY <1>1, <1>5, <1>6, Induction
  <2> QED
    BY <1>1, <2>1
<1> QED
  BY <1>2, <1>7, ToSetOfSeq

-----------------------------------------------------------------------------
(* The rounds of the selections.                                            *)

\* The platforms requested for an environment.
AskedOf(doc, name, platforms) ==
    IF platforms = None THEN ToSet(doc.targets[name]) ELSE ToSet(platforms)

\* One environment has a round for every platform requested for it.
LEMMA AskedRounds ==
  ASSUME NEW doc, IsDocument(doc), NEW name \in ToSet(doc.names),
         NEW platforms, platforms # None => platforms \in Seq(Targets)
  PROVE  /\ Asked(doc, name, platforms) \in Seq(ToSet(doc.names) \X Targets)
         /\ ToSet(Asked(doc, name, platforms)) =
               {<<name, a>> : a \in AskedOf(doc, name, platforms)}
<1> DEFINE asked == IF platforms = None THEN doc.targets[name] ELSE platforms
           rounds == [j \in 1..Len(asked) |-> <<name, asked[j]>>]
<1>1. asked \in Seq(Targets)
  BY DEF IsDocument
<1>2. Asked(doc, name, platforms) = rounds
  BY DEF Asked
<1>3. AskedOf(doc, name, platforms) = ToSet(asked)
  BY DEF AskedOf
<1> HIDE DEF asked
<1>4. Len(asked) \in Nat /\ \A j \in 1..Len(asked) : asked[j] \in Targets
  BY <1>1, LenProperties, ElementOfSeq
<1>5. /\ rounds \in Seq(ToSet(doc.names) \X Targets)
      /\ Len(rounds) = Len(asked)
      /\ \A j \in 1..Len(asked) : rounds[j] = <<name, asked[j]>>
  BY <1>4
<1> HIDE DEF rounds
<1>6. ToSet(asked) = {asked[j] : j \in 1..Len(asked)}
  BY <1>1, ToSetOfSeq
<1>7. ToSet(rounds) = {rounds[j] : j \in 1..Len(rounds)}
  BY <1>5, ToSetOfSeq
<1>8. ToSet(rounds) = {<<name, a>> : a \in ToSet(asked)}
  BY <1>5, <1>6, <1>7
<1> QED
  BY <1>2, <1>3, <1>5, <1>8

\* Requested goes through every selected environment and, for each of them,
\* every platform requested for it.
LEMMA RequestedRounds ==
  ASSUME NEW doc, IsDocument(doc), NEW names \in Seq(ToSet(doc.names)),
         NEW platforms, platforms # None => platforms \in Seq(Targets)
  PROVE  /\ Requested(doc, names, platforms) \in Seq(ToSet(doc.names) \X Targets)
         /\ \A r : r \in ToSet(Requested(doc, names, platforms)) <=>
               \E n \in ToSet(names) : \E a \in AskedOf(doc, n, platforms) : r = <<n, a>>
<1> DEFINE S == ToSet(doc.names) \X Targets
           ss == [i \in 1..Len(names) |-> Asked(doc, names[i], platforms)]
<1>1. Len(names) \in Nat /\ \A i \in 1..Len(names) : names[i] \in ToSet(doc.names)
  BY LenProperties, ElementOfSeq
<1>2. \A i \in 1..Len(names) :
         /\ ss[i] \in Seq(S)
         /\ ToSet(ss[i]) = {<<names[i], a>> : a \in AskedOf(doc, names[i], platforms)}
  BY <1>1, AskedRounds
<1>3. ss \in Seq(Seq(S)) /\ Len(ss) = Len(names)
  <2>1. \A i \in 1..Len(names) : ss[i] \in Seq(S)
    BY <1>2
  <2>2. ss = [i \in 1..Len(names) |-> ss[i]]
    OBVIOUS
  <2> HIDE DEF ss, S
  <2> QED
    BY <1>1, <2>1, <2>2
<1>4. Requested(doc, names, platforms) = FlattenSeq(ss)
  BY DEF Requested
<1> HIDE DEF ss, S
<1>5. /\ FlattenSeq(ss) \in Seq(S)
      /\ ToSet(FlattenSeq(ss)) = UNION {ToSet(ss[i]) : i \in 1..Len(ss)}
  BY <1>3, FlattenSeqMembers
<1>6. ToSet(names) = {names[i] : i \in 1..Len(names)}
  BY ToSetOfSeq
<1>7. \A r : r \in ToSet(FlattenSeq(ss)) <=>
         \E n \in ToSet(names) : \E a \in AskedOf(doc, n, platforms) : r = <<n, a>>
  <2>1. \A r : r \in ToSet(FlattenSeq(ss)) <=> \E i \in 1..Len(names) : r \in ToSet(ss[i])
    BY <1>3, <1>5
  <2>2. \A i \in 1..Len(names) : \A r :
           r \in ToSet(ss[i]) <=>
              \E a \in AskedOf(doc, names[i], platforms) : r = <<names[i], a>>
    BY <1>2
  <2>3. \A r : r \in ToSet(FlattenSeq(ss)) <=>
           \E i \in 1..Len(names) :
              \E a \in AskedOf(doc, names[i], platforms) : r = <<names[i], a>>
    BY <2>1, <2>2
  <2> QED
    BY <1>6, <2>3
<1> QED
  BY <1>4, <1>5, <1>7 DEF S

\* A pair means one target: by the definition of Denotes, no other.
Means(doc, r, t) ==
    t \in Targets /\ \A u \in Targets : Denotes(doc, r[1], r[2], u) <=> u = t

Matches(doc, r) ==
    IF doc.targets[r[1]] = <<>> THEN {r[2]} ELSE Named(doc, r[1], r[2])

\* What a selection matches is what the pair denotes.
LEMMA MatchesDenotes ==
  ASSUME NEW doc, IsDocument(doc), NEW r \in ToSet(doc.names) \X Targets
  PROVE  /\ IsFiniteSet(Matches(doc, r))
         /\ Matches(doc, r) \subseteq Targets
         /\ Matches(doc, r) = {u \in Targets : Denotes(doc, r[1], r[2], u)}
         /\ doc.targets[r[1]] = <<>> => Named(doc, r[1], r[2]) = {}
<1> DEFINE declared == ToSet(doc.targets[r[1]])
<1>1. doc.targets[r[1]] \in Seq(Targets)
  BY DEF IsDocument
<1>2. IsFiniteSet(declared) /\ declared \subseteq Targets
  BY <1>1, ToSetFinite, ToSetOfSeq
<1>3. declared = {} <=> doc.targets[r[1]] = <<>>
  BY <1>1, ToSetOfSeq
<1>4. Named(doc, r[1], r[2]) =
         IF r[2] \in declared THEN {r[2]}
         ELSE {t \in declared : doc.subdir[t] = r[2]}
  BY DEF Named
<1>5. \A t : Denotes(doc, r[1], r[2], t) <=>
         IF doc.targets[r[1]] = <<>> THEN t = r[2]
         ELSE /\ t \in declared
              /\ t = r[2] \/ (r[2] \notin declared /\ doc.subdir[t] = r[2])
  BY DEF Denotes
<1> HIDE DEF declared
<1>6. Named(doc, r[1], r[2]) \subseteq declared
  BY <1>4
<1>7. Matches(doc, r) = {u \in Targets : Denotes(doc, r[1], r[2], u)}
  BY <1>2, <1>4, <1>5 DEF Matches
<1>8. IsFiniteSet(Matches(doc, r))
  <2>1. IsFiniteSet({r[2]}) /\ IsFiniteSet(Named(doc, r[1], r[2]))
    BY <1>2, <1>6, FS_Singleton, FS_Subset
  <2> QED
    BY <2>1 DEF Matches
<1> QED
  BY <1>3, <1>6, <1>7, <1>8

\* A single match is the target that the pair means.
LEMMA SingleMatch ==
  ASSUME NEW doc, IsDocument(doc), NEW r \in ToSet(doc.names) \X Targets,
         Cardinality(Matches(doc, r)) = 1
  PROVE  \E t \in Targets : /\ Matches(doc, r) = {t}
                            /\ (CHOOSE u \in Matches(doc, r) : TRUE) = t
                            /\ Means(doc, r, t)
<1>1. PICK t : Matches(doc, r) = {t}
  BY MatchesDenotes, FS_Singleton
<1>2. (CHOOSE u \in Matches(doc, r) : TRUE) = t
  BY <1>1
<1>3. t \in Targets /\ Means(doc, r, t)
  BY <1>1, MatchesDenotes DEF Means
<1> QED
  BY <1>1, <1>2, <1>3

-----------------------------------------------------------------------------
(* What the selections plan.                                                *)

\* The environments of a document are environments.
LEMMA NamesAreEnvironments ==
  ASSUME NEW doc, IsDocument(doc)
  PROVE  ToSet(doc.names) \subseteq Environments
BY ToSetOfSeq DEF IsDocument

\* A round that is not refused adds the target that the pair means.
PlansOne(doc, p, r, q) ==
    /\ p # Rejected
    /\ \E t \in Targets : Means(doc, r, t) /\ q = Added(p, <<r[1], t>>)

\* One round of the selection of a manifest.
LEMMA ManifestRound ==
  ASSUME NEW doc, IsDocument(doc), NEW r \in ToSet(doc.names) \X Targets,
         NEW p \in Seq(Pairs) \cup {Rejected},
         ManifestPlanned(doc, p, r) # Rejected
  PROVE  /\ p \in Seq(Pairs) /\ p # Rejected
         /\ ManifestPlanned(doc, p, r) \in Seq(Pairs)
         /\ Len(ManifestPlanned(doc, p, r)) <= MaxTargets
         /\ \E t \in Targets :
               /\ Matches(doc, r) = {t} /\ Means(doc, r, t)
               /\ ManifestPlanned(doc, p, r) = Added(p, <<r[1], t>>)
               /\ doc.subdir[t] \in KnownSubdirs
<1> DEFINE target == CHOOSE t \in Matches(doc, r) : TRUE
           more == Added(p, <<r[1], target>>)
<1>1. ManifestPlanned(doc, p, r) =
         IF \/ p = Rejected
            \/ Cardinality(Matches(doc, r)) # 1
            \/ doc.subdir[target] \notin KnownSubdirs
            \/ Len(more) > MaxTargets
         THEN Rejected ELSE more
  BY Zenon DEF ManifestPlanned, Matches
<1> HIDE DEF more, target
<1>2. /\ p # Rejected
      /\ Cardinality(Matches(doc, r)) = 1
      /\ doc.subdir[target] \in KnownSubdirs
      /\ ~(Len(more) > MaxTargets)
      /\ ManifestPlanned(doc, p, r) = more
  BY <1>1
<1>3. PICK t \in Targets : Matches(doc, r) = {t} /\ target = t /\ Means(doc, r, t)
  BY <1>2, SingleMatch DEF target
<1>4. more = Added(p, <<r[1], t>>)
  BY <1>3 DEF more
<1>5. <<r[1], t>> \in Pairs /\ p \in Seq(Pairs)
  BY <1>2, NamesAreEnvironments DEF Pairs
<1>6. more \in Seq(Pairs) /\ Len(more) <= MaxTargets
  <2>1. more \in Seq(Pairs)
    BY <1>4, <1>5, AddedSeq
  <2> QED
    BY <1>2, <2>1, LenProperties, LimitsAssumption
<1> QED
  BY <1>2, <1>3, <1>4, <1>5, <1>6

\* One round of the selection of a lock.
LEMMA LockRound ==
  ASSUME NEW doc, IsDocument(doc), NEW r \in ToSet(doc.names) \X Targets,
         NEW p \in Seq(Pairs) \cup {Rejected},
         LockPlanned(doc, p, r) # Rejected
  PROVE  /\ p \in Seq(Pairs) /\ p # Rejected
         /\ LockPlanned(doc, p, r) \in Seq(Pairs)
         /\ doc.targets[r[1]] # <<>>
         /\ \E t \in Targets :
               Means(doc, r, t) /\ LockPlanned(doc, p, r) = Added(p, <<r[1], t>>)
<1> DEFINE matches == Named(doc, r[1], r[2])
           more == Added(p, <<r[1], CHOOSE t \in matches : TRUE>>)
<1>1. LockPlanned(doc, p, r) =
         IF p = Rejected \/ Cardinality(matches) # 1 THEN Rejected ELSE more
  BY Zenon DEF LockPlanned
<1> HIDE DEF more, matches
<1>2. p # Rejected /\ Cardinality(matches) = 1 /\ LockPlanned(doc, p, r) = more
  BY <1>1
<1>3. matches # {}
  <2>1. Cardinality({}) = 0
    BY FS_EmptySet
  <2>2. Cardinality(matches) # Cardinality({})
    BY <1>2, <2>1
  <2> QED
    BY <2>2, Zenon
<1>4. doc.targets[r[1]] # <<>> /\ matches = Matches(doc, r)
  BY <1>3, MatchesDenotes DEF Matches, matches
<1>5. PICK t \in Targets : (CHOOSE u \in Matches(doc, r) : TRUE) = t /\ Means(doc, r, t)
  BY <1>2, <1>4, SingleMatch
<1>6. more = Added(p, <<r[1], t>>)
  BY <1>4, <1>5 DEF more
<1>7. <<r[1], t>> \in Pairs /\ p \in Seq(Pairs)
  BY <1>2, NamesAreEnvironments DEF Pairs
<1>8. more \in Seq(Pairs)
  BY <1>6, <1>7, AddedSeq
<1> QED
  BY <1>2, <1>4, <1>5, <1>6, <1>7, <1>8

\* What the manifest plans in a round for declared targets, its lock plans.
LEMMA RoundsAgree ==
  ASSUME NEW doc, NEW r, NEW p, doc.targets[r[1]] # <<>>,
         ManifestPlanned(doc, p, r) # Rejected
  PROVE  LockPlanned(doc, p, r) = ManifestPlanned(doc, p, r)
<1> DEFINE matches == Matches(doc, r)
           target == CHOOSE t \in matches : TRUE
           more == Added(p, <<r[1], target>>)
<1>1. ManifestPlanned(doc, p, r) =
         IF \/ p = Rejected
            \/ Cardinality(matches) # 1
            \/ doc.subdir[target] \notin KnownSubdirs
            \/ Len(more) > MaxTargets
         THEN Rejected ELSE more
  BY Zenon DEF ManifestPlanned, Matches
<1>2. LockPlanned(doc, p, r) =
         IF p = Rejected \/ Cardinality(matches) # 1 THEN Rejected ELSE more
  <2>1. Named(doc, r[1], r[2]) = matches
    BY DEF Matches
  <2>2. LockPlanned(doc, p, r) =
           IF p = Rejected \/ Cardinality(Named(doc, r[1], r[2])) # 1 THEN Rejected
           ELSE Added(p, <<r[1], CHOOSE t \in Named(doc, r[1], r[2]) : TRUE>>)
    BY Zenon DEF LockPlanned
  <2> HIDE DEF matches
  <2> QED
    BY <2>1, <2>2, Zenon
<1> HIDE DEF more, matches, target
<1> QED
  BY <1>1, <1>2

\* The rounds up to n have planned exactly the targets that they mean.
Covers(doc, requested, n, p) ==
    /\ p \in Seq(Pairs)
    /\ NoRepeat(p)
    /\ \A i \in 1..n : \E t \in Targets : Means(doc, requested[i], t)
    /\ \A q : q \in ToSet(p) <=>
          \E i \in 1..n : \E t \in Targets :
             Means(doc, requested[i], t) /\ q = <<requested[i][1], t>>

\* The same for the selections of both documents, whose rounds only differ in
\* what they refuse.
LEMMA RoundsCover ==
  ASSUME NEW doc, IsDocument(doc),
         NEW requested \in Seq(ToSet(doc.names) \X Targets), NEW plans,
         plans[0] = <<>>,
         \A n \in 1..Len(requested) : plans[n] # Rejected =>
            PlansOne(doc, plans[n - 1], requested[n], plans[n]),
         plans[Len(requested)] # Rejected
  PROVE  Covers(doc, requested, Len(requested), plans[Len(requested)])
<1> DEFINE N == Len(requested)
           T == {n \in 0..N : plans[n] # Rejected => Covers(doc, requested, n, plans[n])}
<1>1. N \in Nat /\ \A n \in 1..N : requested[n] \in ToSet(doc.names) \X Targets
  BY LenProperties, ElementOfSeq
<1>2. 0 \in T
  <2>1. <<>> \in Seq(Pairs) /\ Len(<<>>) = 0 /\ ToSet(<<>>) = {}
    BY EmptySeq, ToSetOfSeq
  <2>2. Covers(doc, requested, 0, <<>>)
    BY <2>1 DEF Covers, NoRepeat
  <2> QED
    BY <1>1, <2>2
<1>3. ASSUME NEW n \in 1..N, n - 1 \in T PROVE n \in T
  <2> SUFFICES ASSUME plans[n] # Rejected PROVE Covers(doc, requested, n, plans[n])
    BY <1>1
  <2> DEFINE r == requested[n]
             p == plans[n - 1]
  <2>1. PICK t \in Targets : Means(doc, r, t) /\ plans[n] = Added(p, <<r[1], t>>)
    BY DEF PlansOne
  <2>2. Covers(doc, requested, n - 1, p)
    BY <1>3 DEF PlansOne
  <2>3. <<r[1], t>> \in Pairs
    BY <1>1, NamesAreEnvironments DEF Pairs
  <2>4. /\ plans[n] \in Seq(Pairs)
        /\ ToSet(plans[n]) = ToSet(p) \cup {<<r[1], t>>}
        /\ NoRepeat(plans[n])
    <3>1. p \in Seq(Pairs) /\ NoRepeat(p)
      BY <2>2 DEF Covers
    <3>2. PICK x : x = <<r[1], t>>
      OBVIOUS
    <3> HIDE DEF p, r
    <3>3. /\ Added(p, x) \in Seq(Pairs)
          /\ ToSet(Added(p, x)) = ToSet(p) \cup {x}
          /\ NoRepeat(Added(p, x))
      <4>1. x \in Pairs
        BY <2>3, <3>2
      <4> QED
        BY <3>1, <4>1, AddedSeq, Zenon
    <3> QED
      BY <2>1, <3>2, <3>3
  <2>5. \A i : i \in 1..n <=> i \in 1..(n - 1) \/ i = n
    BY <1>1
  <2>6. \A u \in Targets : Means(doc, r, u) => u = t
    BY <2>1 DEF Means
  <2>7. ASSUME NEW i \in 1..n PROVE \E u \in Targets : Means(doc, requested[i], u)
    BY <2>1, <2>2, <2>5 DEF Covers
  <2>8. ASSUME NEW q
        PROVE  q \in ToSet(plans[n]) <=>
                  \E i \in 1..n : \E u \in Targets :
                     Means(doc, requested[i], u) /\ q = <<requested[i][1], u>>
    <3>1. q \in ToSet(p) <=>
             \E i \in 1..(n - 1) : \E u \in Targets :
                Means(doc, requested[i], u) /\ q = <<requested[i][1], u>>
      BY <2>2 DEF Covers
    <3>2. q = <<r[1], t>> <=>
             \E u \in Targets : Means(doc, r, u) /\ q = <<r[1], u>>
      BY <2>1, <2>6
    <3> HIDE DEF p
    <3> QED
      BY <2>4, <2>5, <3>1, <3>2
  <2> HIDE DEF p, r
  <2> QED
    BY <2>4, <2>7, <2>8 DEF Covers
<1>4. N \in T
  <2> HIDE DEF T, N
  <2>1. 0..N \subseteq T
    BY <1>1, <1>2, <1>3, Induction
  <2> QED
    BY <1>1, <2>1
<1> QED
  BY <1>4

\* The history of the loop over a manifest.
LEMMA ManifestHistory ==
  ASSUME NEW doc, IsDocument(doc),
         NEW requested \in Seq(ToSet(doc.names) \X Targets)
  PROVE  \E plans :
            /\ plans[0] = <<>>
            /\ \A n \in 0..Len(requested) : plans[n] \in Seq(Pairs) \cup {Rejected}
            /\ \A n \in 1..Len(requested) :
                  plans[n] = ManifestPlanned(doc, plans[n - 1], requested[n])
            /\ ManifestPlans(doc, requested) = plans[Len(requested)]
<1> DEFINE N == Len(requested)
           S == Seq(Pairs) \cup {Rejected}
           plans[n \in 0..N] ==
              IF n = 0 THEN <<>> ELSE ManifestPlanned(doc, plans[n - 1], requested[n])
           step == [q \in (1..N) \X S |-> ManifestPlanned(doc, q[2], requested[q[1]])]
<1>1. N \in Nat /\ \A n \in 1..N : requested[n] \in ToSet(doc.names) \X Targets
  BY LenProperties, ElementOfSeq
<1>2. ManifestPlans(doc, requested) = plans[N]
  BY Zenon DEF ManifestPlans
<1>3. step \in [(1..N) \X S -> S]
  <2>1. \A n \in 1..N, p \in S : ManifestPlanned(doc, p, requested[n]) \in S
    BY <1>1, ManifestRound
  <2> QED
    BY <2>1
<1>4. PICK f : IsHistory(f, N, S, <<>>, step)
  <2>1. <<>> \in S
    BY EmptySeq
  <2> HIDE DEF S, N, step
  <2> QED
    BY <1>1, <1>3, <2>1, Loop
<1>5. ASSUME NEW n \in 1..N PROVE f[n] = ManifestPlanned(doc, f[n - 1], requested[n])
  <2>1. n - 1 \in 0..N
    BY <1>1
  <2>2. f[n - 1] \in S /\ f[n] = step[<<n, f[n - 1]>>]
    BY <1>4, <2>1 DEF IsHistory
  <2> QED
    BY <2>2
<1>6. f = [n \in 0..N |-> f[n]] /\ f[0] = <<>> /\ \A n \in 0..N : f[n] \in S
  BY <1>4 DEF IsHistory
<1>7. \A n \in 0..N : f[n] = IF n = 0 THEN <<>>
                             ELSE ManifestPlanned(doc, f[n - 1], requested[n])
  <2>1. \A n \in 0..N : n = 0 \/ n \in 1..N
    BY <1>1
  <2> QED
    BY <1>5, <1>6, <2>1
<1>8. f = [n \in 0..N |-> IF n = 0 THEN <<>>
                          ELSE ManifestPlanned(doc, f[n - 1], requested[n])]
  BY <1>6, <1>7, Zenon
<1>9. plans = [n \in 0..N |-> IF n = 0 THEN <<>>
                              ELSE ManifestPlanned(doc, plans[n - 1], requested[n])]
  BY <1>8, Zenon
<1> HIDE DEF plans
<1> DEFINE T == {n \in 0..N : plans[n] \in S}
<1>10. plans[0] = <<>>
  BY <1>1, <1>9
<1>11. \A n \in 1..N : plans[n] = ManifestPlanned(doc, plans[n - 1], requested[n])
  BY <1>1, <1>9
<1>12. 0 \in T
  <2>1. <<>> \in Seq(Pairs) /\ 0 \in 0..N
    BY <1>1, EmptySeq
  <2> QED
    BY <1>10, <2>1
<1>13. ASSUME NEW n \in 1..N, n - 1 \in T PROVE n \in T
  <2>1. plans[n - 1] \in S
    BY <1>13
  <2>2. ManifestPlanned(doc, plans[n - 1], requested[n]) \in S
    BY <1>1, <2>1, ManifestRound
  <2> QED
    BY <1>11, <2>2
<1> HIDE DEF T, N
<1>14. 0..N \subseteq T
  BY <1>1, <1>12, <1>13, Induction
<1>15. \A n \in 0..N : plans[n] \in S
  BY <1>14 DEF T
<1> QED
  BY <1>2, <1>10, <1>11, <1>15 DEF N

\* The history of the loop over a lock.
LEMMA LockHistory ==
  ASSUME NEW doc, IsDocument(doc),
         NEW requested \in Seq(ToSet(doc.names) \X Targets)
  PROVE  \E plans :
            /\ plans[0] = <<>>
            /\ \A n \in 0..Len(requested) : plans[n] \in Seq(Pairs) \cup {Rejected}
            /\ \A n \in 1..Len(requested) :
                  plans[n] = LockPlanned(doc, plans[n - 1], requested[n])
            /\ LockPlans(doc, requested) = plans[Len(requested)]
<1> DEFINE N == Len(requested)
           S == Seq(Pairs) \cup {Rejected}
           plans[n \in 0..N] ==
              IF n = 0 THEN <<>> ELSE LockPlanned(doc, plans[n - 1], requested[n])
           step == [q \in (1..N) \X S |-> LockPlanned(doc, q[2], requested[q[1]])]
<1>1. N \in Nat /\ \A n \in 1..N : requested[n] \in ToSet(doc.names) \X Targets
  BY LenProperties, ElementOfSeq
<1>2. LockPlans(doc, requested) = plans[N]
  BY Zenon DEF LockPlans
<1>3. step \in [(1..N) \X S -> S]
  <2>1. \A n \in 1..N, p \in S : LockPlanned(doc, p, requested[n]) \in S
    BY <1>1, LockRound
  <2> QED
    BY <2>1
<1>4. PICK f : IsHistory(f, N, S, <<>>, step)
  <2>1. <<>> \in S
    BY EmptySeq
  <2> HIDE DEF S, N, step
  <2> QED
    BY <1>1, <1>3, <2>1, Loop
<1>5. ASSUME NEW n \in 1..N PROVE f[n] = LockPlanned(doc, f[n - 1], requested[n])
  <2>1. n - 1 \in 0..N
    BY <1>1
  <2>2. f[n - 1] \in S /\ f[n] = step[<<n, f[n - 1]>>]
    BY <1>4, <2>1 DEF IsHistory
  <2> QED
    BY <2>2
<1>6. f = [n \in 0..N |-> f[n]] /\ f[0] = <<>> /\ \A n \in 0..N : f[n] \in S
  BY <1>4 DEF IsHistory
<1>7. \A n \in 0..N : f[n] = IF n = 0 THEN <<>>
                             ELSE LockPlanned(doc, f[n - 1], requested[n])
  <2>1. \A n \in 0..N : n = 0 \/ n \in 1..N
    BY <1>1
  <2> QED
    BY <1>5, <1>6, <2>1
<1>8. f = [n \in 0..N |-> IF n = 0 THEN <<>>
                          ELSE LockPlanned(doc, f[n - 1], requested[n])]
  BY <1>6, <1>7, Zenon
<1>9. plans = [n \in 0..N |-> IF n = 0 THEN <<>>
                              ELSE LockPlanned(doc, plans[n - 1], requested[n])]
  BY <1>8, Zenon
<1> HIDE DEF plans
<1> DEFINE T == {n \in 0..N : plans[n] \in S}
<1>10. plans[0] = <<>>
  BY <1>1, <1>9
<1>11. \A n \in 1..N : plans[n] = LockPlanned(doc, plans[n - 1], requested[n])
  BY <1>1, <1>9
<1>12. 0 \in T
  <2>1. <<>> \in Seq(Pairs) /\ 0 \in 0..N
    BY <1>1, EmptySeq
  <2> QED
    BY <1>10, <2>1
<1>13. ASSUME NEW n \in 1..N, n - 1 \in T PROVE n \in T
  <2>1. plans[n - 1] \in S
    BY <1>13
  <2>2. LockPlanned(doc, plans[n - 1], requested[n]) \in S
    BY <1>1, <2>1, LockRound
  <2> QED
    BY <1>11, <2>2
<1> HIDE DEF T, N
<1>14. 0..N \subseteq T
  BY <1>1, <1>12, <1>13, Induction
<1>15. \A n \in 0..N : plans[n] \in S
  BY <1>14 DEF T
<1> QED
  BY <1>2, <1>10, <1>11, <1>15 DEF N

\* What the loop over a manifest plans, unless it refuses.
LEMMA ManifestPlansCover ==
  ASSUME NEW doc, IsDocument(doc),
         NEW requested \in Seq(ToSet(doc.names) \X Targets),
         ManifestPlans(doc, requested) # Rejected
  PROVE  /\ Covers(doc, requested, Len(requested), ManifestPlans(doc, requested))
         /\ Len(ManifestPlans(doc, requested)) <= MaxTargets
         /\ \A q \in ToSet(ManifestPlans(doc, requested)) : doc.subdir[q[2]] \in KnownSubdirs
<1> DEFINE N == Len(requested)
<1>1. N \in Nat /\ \A n \in 1..N : requested[n] \in ToSet(doc.names) \X Targets
  BY LenProperties, ElementOfSeq
<1>2. PICK plans :
         /\ plans[0] = <<>>
         /\ \A n \in 0..N : plans[n] \in Seq(Pairs) \cup {Rejected}
         /\ \A n \in 1..N : plans[n] = ManifestPlanned(doc, plans[n - 1], requested[n])
         /\ ManifestPlans(doc, requested) = plans[N]
  BY ManifestHistory
<1> DEFINE Round(n) ==
             /\ plans[n] \in Seq(Pairs)
             /\ Len(plans[n]) <= MaxTargets
             /\ plans[n - 1] \in Seq(Pairs)
             /\ plans[n - 1] # Rejected
             /\ \E t \in Targets :
                   /\ Means(doc, requested[n], t)
                   /\ plans[n] = Added(plans[n - 1], <<requested[n][1], t>>)
                   /\ doc.subdir[t] \in KnownSubdirs
<1>3. ASSUME NEW n \in 1..N, plans[n] # Rejected PROVE Round(n)
  <2>1. n - 1 \in 0..N
    BY <1>1
  <2>2. PICK r, p : r = requested[n] /\ p = plans[n - 1]
    OBVIOUS
  <2>3. /\ r \in ToSet(doc.names) \X Targets
        /\ p \in Seq(Pairs) \cup {Rejected}
        /\ plans[n] = ManifestPlanned(doc, p, r)
    BY <1>1, <1>2, <2>1, <2>2
  <2>4. /\ p \in Seq(Pairs) /\ p # Rejected
        /\ ManifestPlanned(doc, p, r) \in Seq(Pairs)
        /\ Len(ManifestPlanned(doc, p, r)) <= MaxTargets
        /\ \E t \in Targets :
              /\ Matches(doc, r) = {t} /\ Means(doc, r, t)
              /\ ManifestPlanned(doc, p, r) = Added(p, <<r[1], t>>)
              /\ doc.subdir[t] \in KnownSubdirs
    BY <1>3, <2>3, ManifestRound
  <2> QED
    BY <2>2, <2>3, <2>4
<1>4. \A n \in 1..N : plans[n] # Rejected =>
         PlansOne(doc, plans[n - 1], requested[n], plans[n])
  BY <1>3 DEF PlansOne
<1>5. Covers(doc, requested, N, plans[N])
  BY <1>2, <1>4, RoundsCover
<1> DEFINE Known(p) == /\ Len(p) <= MaxTargets
                       /\ \A q \in ToSet(p) : doc.subdir[q[2]] \in KnownSubdirs
           T == {n \in 0..N : plans[n] # Rejected => Known(plans[n])}
<1>6. 0 \in T
  <2>1. <<>> \in Seq(Pairs) /\ Len(<<>>) = 0 /\ ToSet(<<>>) = {}
    BY EmptySeq, ToSetOfSeq
  <2>2. Known(<<>>)
    BY <2>1, LimitsAssumption
  <2> QED
    BY <1>1, <1>2, <2>2
<1>7. ASSUME NEW n \in 1..N, n - 1 \in T PROVE n \in T
  <2> SUFFICES ASSUME plans[n] # Rejected PROVE Known(plans[n])
    BY <1>1
  <2>1. Round(n)
    BY <1>3
  <2>2. PICK t \in Targets : /\ plans[n] = Added(plans[n - 1], <<requested[n][1], t>>)
                             /\ doc.subdir[t] \in KnownSubdirs
    BY <2>1
  <2>3. PICK x, p : x = <<requested[n][1], t>> /\ p = plans[n - 1]
    OBVIOUS
  <2>4. x \in Pairs /\ p \in Seq(Pairs) /\ x[2] = t
    BY <1>1, <2>1, <2>3, NamesAreEnvironments DEF Pairs
  <2>5. ToSet(Added(p, x)) = ToSet(p) \cup {x}
    BY <2>4, AddedSeq
  <2>6. \A q \in ToSet(p) : doc.subdir[q[2]] \in KnownSubdirs
    BY <1>7, <2>1, <2>3
  <2> QED
    BY <2>1, <2>2, <2>3, <2>4, <2>5, <2>6
<1>8. N \in T
  <2> HIDE DEF T, N
  <2>1. 0..N \subseteq T
    BY <1>1, <1>6, <1>7, Induction
  <2> QED
    BY <1>1, <2>1
<1>9. Known(plans[N])
  BY <1>2, <1>8
<1> QED
  BY <1>2, <1>5, <1>9

\* What the loop over a lock plans, unless it refuses.
LEMMA LockPlansCover ==
  ASSUME NEW doc, IsDocument(doc),
         NEW requested \in Seq(ToSet(doc.names) \X Targets),
         LockPlans(doc, requested) # Rejected
  PROVE  /\ Covers(doc, requested, Len(requested), LockPlans(doc, requested))
         /\ \A r \in ToSet(requested) : doc.targets[r[1]] # <<>>
<1> DEFINE N == Len(requested)
<1>1. N \in Nat /\ \A n \in 1..N : requested[n] \in ToSet(doc.names) \X Targets
  BY LenProperties, ElementOfSeq
<1>2. PICK plans :
         /\ plans[0] = <<>>
         /\ \A n \in 0..N : plans[n] \in Seq(Pairs) \cup {Rejected}
         /\ \A n \in 1..N : plans[n] = LockPlanned(doc, plans[n - 1], requested[n])
         /\ LockPlans(doc, requested) = plans[N]
  BY LockHistory
<1>3. ASSUME NEW n \in 1..N, plans[n] # Rejected
      PROVE  /\ PlansOne(doc, plans[n - 1], requested[n], plans[n])
             /\ doc.targets[requested[n][1]] # <<>>
  <2>1. n - 1 \in 0..N
    BY <1>1
  <2>2. PICK r, p : r = requested[n] /\ p = plans[n - 1]
    OBVIOUS
  <2>3. /\ r \in ToSet(doc.names) \X Targets
        /\ p \in Seq(Pairs) \cup {Rejected}
        /\ plans[n] = LockPlanned(doc, p, r)
    BY <1>1, <1>2, <2>1, <2>2
  <2>4. /\ p # Rejected
        /\ doc.targets[r[1]] # <<>>
        /\ \E t \in Targets :
              Means(doc, r, t) /\ LockPlanned(doc, p, r) = Added(p, <<r[1], t>>)
    BY <1>3, <2>3, LockRound
  <2> QED
    BY <2>2, <2>3, <2>4 DEF PlansOne
<1>4. Covers(doc, requested, N, plans[N])
  BY <1>2, <1>3, RoundsCover
<1> DEFINE T == {n \in 0..N : plans[n] # Rejected =>
                    \A i \in 1..n : doc.targets[requested[i][1]] # <<>>}
<1>5. 0 \in T
  BY <1>1
<1>6. ASSUME NEW n \in 1..N, n - 1 \in T PROVE n \in T
  <2> SUFFICES ASSUME plans[n] # Rejected, NEW i \in 1..n
               PROVE  doc.targets[requested[i][1]] # <<>>
    BY <1>1
  <2>1. PlansOne(doc, plans[n - 1], requested[n], plans[n])
        /\ doc.targets[requested[n][1]] # <<>>
    BY <1>3
  <2>2. i \in 1..(n - 1) \/ i = n
    BY <1>1
  <2> QED
    BY <1>6, <2>1, <2>2 DEF PlansOne
<1>7. N \in T
  <2> HIDE DEF T, N
  <2>1. 0..N \subseteq T
    BY <1>1, <1>5, <1>6, Induction
  <2> QED
    BY <1>1, <2>1
<1>8. \A i \in 1..N : doc.targets[requested[i][1]] # <<>>
  BY <1>2, <1>7
<1>9. ToSet(requested) = {requested[i] : i \in 1..N}
  BY ToSetOfSeq
<1> QED
  BY <1>2, <1>4, <1>8, <1>9

\* Whatever the manifest plans for declared targets, its lock plans.
LEMMA PlansAgree ==
  ASSUME NEW doc, IsDocument(doc),
         NEW requested \in Seq(ToSet(doc.names) \X Targets),
         \A r \in ToSet(requested) : doc.targets[r[1]] # <<>>,
         ManifestPlans(doc, requested) # Rejected
  PROVE  LockPlans(doc, requested) = ManifestPlans(doc, requested)
<1> DEFINE N == Len(requested)
<1>1. N \in Nat /\ \A n \in 1..N : requested[n] \in ToSet(doc.names) \X Targets
  BY LenProperties, ElementOfSeq
<1>2. PICK plans :
         /\ plans[0] = <<>>
         /\ \A n \in 0..N : plans[n] \in Seq(Pairs) \cup {Rejected}
         /\ \A n \in 1..N : plans[n] = ManifestPlanned(doc, plans[n - 1], requested[n])
         /\ ManifestPlans(doc, requested) = plans[N]
  BY ManifestHistory
<1>3. PICK saved :
         /\ saved[0] = <<>>
         /\ \A n \in 0..N : saved[n] \in Seq(Pairs) \cup {Rejected}
         /\ \A n \in 1..N : saved[n] = LockPlanned(doc, saved[n - 1], requested[n])
         /\ LockPlans(doc, requested) = saved[N]
  BY LockHistory
<1>4. \A n \in 1..N : doc.targets[requested[n][1]] # <<>>
  BY ToSetOfSeq
<1> DEFINE T == {n \in 0..N : plans[n] # Rejected => saved[n] = plans[n]}
<1>5. 0 \in T
  BY <1>1, <1>2, <1>3
<1>6. ASSUME NEW n \in 1..N, n - 1 \in T PROVE n \in T
  <2> SUFFICES ASSUME plans[n] # Rejected PROVE saved[n] = plans[n]
    BY <1>1
  <2>1. PICK r, p : r = requested[n] /\ p = plans[n - 1]
    OBVIOUS
  <2>2. n - 1 \in 0..N
    BY <1>1
  <2>3. /\ r \in ToSet(doc.names) \X Targets
        /\ p \in Seq(Pairs) \cup {Rejected}
        /\ ManifestPlanned(doc, p, r) # Rejected
        /\ doc.targets[r[1]] # <<>>
    BY <1>1, <1>2, <1>4, <2>1, <2>2
  <2>4. p # Rejected
    BY <2>3, ManifestRound
  <2>5. saved[n - 1] = p
    BY <1>6, <2>1, <2>4
  <2>6. LockPlanned(doc, p, r) = ManifestPlanned(doc, p, r)
    BY <2>3, RoundsAgree
  <2> QED
    BY <1>2, <1>3, <2>1, <2>5, <2>6
<1>7. N \in T
  <2> HIDE DEF T, N
  <2>1. 0..N \subseteq T
    BY <1>1, <1>5, <1>6, Induction
  <2> QED
    BY <1>1, <2>1
<1> QED
  BY <1>2, <1>3, <1>7

-----------------------------------------------------------------------------
(* The selections.                                                          *)

IsSelectors(environments, platforms) ==
    /\ environments # None => environments \in Seq(Environments)
    /\ platforms # None => platforms \in Seq(Targets)

NamesOf(doc, environments) ==
    Distinct(IF environments = None THEN doc.names ELSE environments)

\* The names that a selection goes through.
LEMMA NamesSeq ==
  ASSUME NEW doc, IsDocument(doc), NEW environments, NEW platforms,
         IsSelectors(environments, platforms)
  PROVE  /\ NamesOf(doc, environments) \in Seq(Environments)
         /\ ToSet(NamesOf(doc, environments)) =
               ToSet(IF environments = None THEN doc.names ELSE environments)
         /\ ToSet(NamesOf(doc, environments)) \subseteq ToSet(doc.names) =>
               NamesOf(doc, environments) \in Seq(ToSet(doc.names))
<1> DEFINE given == IF environments = None THEN doc.names ELSE environments
           names == Distinct(given)
<1>1. given \in Seq(Environments)
  BY DEF IsSelectors, IsDocument
<1> HIDE DEF given
<1>2. names \in Seq(Environments) /\ ToSet(names) = ToSet(given)
  BY <1>1, DistinctSeq
<1> HIDE DEF names
<1>3. names \in Seq(ToSet(names))
  <2>1. /\ Len(names) \in Nat
        /\ names = [i \in 1..Len(names) |-> names[i]]
        /\ \A i \in 1..Len(names) : names[i] \in ToSet(names)
    BY <1>2, LenProperties, ToSetOfSeq
  <2> QED
    BY <2>1
<1>4. ToSet(names) \subseteq ToSet(doc.names) => names \in Seq(ToSet(doc.names))
  BY <1>3, SeqMonotonic
<1>5. NamesOf(doc, environments) = names
  BY DEF NamesOf, names, given
<1> QED
  BY <1>2, <1>4, <1>5 DEF given

\* The rounds for these names.
RoundsOf(doc, environments, platforms) ==
    Requested(doc, NamesOf(doc, environments), platforms)

\* What from_config has checked when it accepts selectors.
LEMMA ManifestSelected ==
  ASSUME NEW doc, IsDocument(doc), NEW environments, NEW platforms,
         IsSelectors(environments, platforms),
         ~(environments = None /\ platforms = None),
         ManifestSelection(doc, environments, platforms) # Rejected
  PROVE  /\ environments # <<>> /\ platforms # <<>>
         /\ ToSet(NamesOf(doc, environments)) \subseteq ToSet(doc.names)
         /\ platforms = None =>
               \A n \in ToSet(NamesOf(doc, environments)) : doc.targets[n] # <<>>
         /\ ManifestPlans(doc, RoundsOf(doc, environments, platforms)) # Rejected
         /\ ManifestSelection(doc, environments, platforms) =
               ManifestPlans(doc, RoundsOf(doc, environments, platforms))
<1> DEFINE names == NamesOf(doc, environments)
           plans == ManifestPlans(doc, RoundsOf(doc, environments, platforms))
<1>1. ManifestSelection(doc, environments, platforms) =
         IF environments = None /\ platforms = None THEN <<>>
         ELSE IF \/ environments = <<>> \/ platforms = <<>>
                 \/ ~(ToSet(names) \subseteq ToSet(doc.names))
                 \/ platforms = None /\ \E n \in ToSet(names) : doc.targets[n] = <<>>
                 \/ plans = Rejected
                 \/ \E pair \in ToSet(plans) : ~Composes(doc, pair)
              THEN Rejected
              ELSE plans
  BY Zenon DEF ManifestSelection, NamesOf, RoundsOf
<1> HIDE DEF names, plans
<1> QED
  BY <1>1 DEF names, plans

\* What from_path has checked when it accepts the selectors of a lock.
LEMMA LockSelected ==
  ASSUME NEW doc, NEW environments, NEW platforms, NEW all, NEW empty,
         LockSelection(doc, environments, platforms, all, empty) # Rejected
  PROVE  /\ platforms # <<>>
         /\ ToSet(NamesOf(doc, environments)) \subseteq ToSet(doc.names)
         /\ LockPlans(doc, RoundsOf(doc, environments, platforms)) # Rejected
         /\ ~(Len(LockPlans(doc, RoundsOf(doc, environments, platforms))) > MaxTargets)
         /\ LockSelection(doc, environments, platforms, all, empty) =
               IF all \/ environments # None \/ platforms # None
               THEN LockPlans(doc, RoundsOf(doc, environments, platforms)) ELSE <<>>
<1> DEFINE names == NamesOf(doc, environments)
           plans == LockPlans(doc, RoundsOf(doc, environments, platforms))
<1>1. LockSelection(doc, environments, platforms, all, empty) =
         IF \/ (names = <<>> /\ ~empty) \/ platforms = <<>>
            \/ ~(ToSet(names) \subseteq ToSet(doc.names))
            \/ plans = Rejected
            \/ Len(plans) > MaxTargets
            \/ TooManyChannels(doc, IF empty THEN DOMAIN doc.records ELSE ToSet(plans))
         THEN Rejected
         ELSE IF all \/ environments # None \/ platforms # None THEN plans ELSE <<>>
  BY Zenon DEF LockSelection, NamesOf, RoundsOf
<1> HIDE DEF names, plans
<1> QED
  BY <1>1 DEF names, plans

\* What a selection holds: the target that each pair of selectors means, once.
Exact(doc, environments, platforms, selected) ==
    LET names == ToSet(NamesOf(doc, environments))
    IN /\ selected \in Seq(Pairs)
       /\ NoRepeat(selected)
       /\ \A n \in names : \A a \in AskedOf(doc, n, platforms) :
             \E t \in Targets : Means(doc, <<n, a>>, t)
       /\ \A q : q \in ToSet(selected) <=>
             \E n \in names : \E a \in AskedOf(doc, n, platforms) : \E t \in Targets :
                Means(doc, <<n, a>>, t) /\ q = <<n, t>>

\* The rounds cover the selectors.
LEMMA CoversIsExact ==
  ASSUME NEW doc, IsDocument(doc), NEW environments, NEW platforms, NEW plans,
         IsSelectors(environments, platforms),
         ToSet(NamesOf(doc, environments)) \subseteq ToSet(doc.names),
         Covers(doc, RoundsOf(doc, environments, platforms),
                Len(RoundsOf(doc, environments, platforms)), plans)
  PROVE  Exact(doc, environments, platforms, plans)
<1> DEFINE names == NamesOf(doc, environments)
           rounds == RoundsOf(doc, environments, platforms)
<1>1. names \in Seq(ToSet(doc.names))
  BY NamesSeq
<1>2. /\ rounds \in Seq(ToSet(doc.names) \X Targets)
      /\ \A r : r \in ToSet(rounds) <=>
            \E n \in ToSet(names) : \E a \in AskedOf(doc, n, platforms) : r = <<n, a>>
  <2> HIDE DEF names
  <2>1. platforms # None => platforms \in Seq(Targets)
    BY DEF IsSelectors
  <2> QED
    BY <1>1, <2>1, RequestedRounds DEF RoundsOf, names
<1> HIDE DEF rounds, names
<1>3. ToSet(rounds) = {rounds[i] : i \in 1..Len(rounds)}
  BY <1>2, ToSetOfSeq
<1>4. Covers(doc, rounds, Len(rounds), plans)
  BY DEF rounds
<1>5. ASSUME NEW n \in ToSet(names), NEW a \in AskedOf(doc, n, platforms)
      PROVE  \E t \in Targets : Means(doc, <<n, a>>, t)
  <2>1. PICK i \in 1..Len(rounds) : rounds[i] = <<n, a>>
    BY <1>2, <1>3
  <2> QED
    BY <1>4, <2>1 DEF Covers
<1>6. ASSUME NEW q
      PROVE  q \in ToSet(plans) <=>
                \E n \in ToSet(names) : \E a \in AskedOf(doc, n, platforms) :
                   \E t \in Targets : Means(doc, <<n, a>>, t) /\ q = <<n, t>>
  <2>1. q \in ToSet(plans) <=>
           \E r \in ToSet(rounds) : \E t \in Targets :
              Means(doc, r, t) /\ q = <<r[1], t>>
    BY <1>3, <1>4 DEF Covers
  <2>2. ASSUME NEW r \in ToSet(rounds), NEW t \in Targets,
               Means(doc, r, t), q = <<r[1], t>>
        PROVE  \E n \in ToSet(names) : \E a \in AskedOf(doc, n, platforms) :
                  \E u \in Targets : Means(doc, <<n, a>>, u) /\ q = <<n, u>>
    <3>1. PICK n \in ToSet(names) : \E a \in AskedOf(doc, n, platforms) : r = <<n, a>>
      BY <1>2
    <3>2. PICK a \in AskedOf(doc, n, platforms) : r = <<n, a>>
      BY <3>1
    <3>3. r[1] = n
      BY <3>2
    <3> QED
      BY <2>2, <3>2, <3>3
  <2>3. ASSUME NEW n \in ToSet(names), NEW a \in AskedOf(doc, n, platforms),
               NEW t \in Targets, Means(doc, <<n, a>>, t), q = <<n, t>>
        PROVE  q \in ToSet(plans)
    <3>1. PICK r : r = <<n, a>>
      OBVIOUS
    <3>2. r \in ToSet(rounds) /\ r[1] = n
      BY <1>2, <3>1
    <3> QED
      BY <2>1, <2>3, <3>1, <3>2
  <2> QED
    BY <2>1, <2>2, <2>3
<1> QED
  BY <1>4, <1>5, <1>6 DEF Exact, Covers, names

\* An accepted selection of a manifest.
LEMMA ManifestExact ==
  ASSUME NEW doc, IsDocument(doc), NEW environments, NEW platforms,
         IsSelectors(environments, platforms),
         ManifestSelection(doc, environments, platforms) # Rejected
  PROVE  /\ ManifestSelection(doc, environments, platforms) \in Seq(Pairs)
         /\ \A q \in ToSet(ManifestSelection(doc, environments, platforms)) :
               q[1] \in ToSet(doc.names) /\ doc.subdir[q[2]] \in KnownSubdirs
         /\ Len(ManifestSelection(doc, environments, platforms)) <= MaxTargets
         /\ environments # None \/ platforms # None =>
               Exact(doc, environments, platforms,
                     ManifestSelection(doc, environments, platforms))
<1> DEFINE selected == ManifestSelection(doc, environments, platforms)
           rounds == RoundsOf(doc, environments, platforms)
<1>1. CASE environments = None /\ platforms = None
  <2>1. selected = <<>>
    BY <1>1, Zenon DEF ManifestSelection
  <2>2. <<>> \in Seq(Pairs) /\ ToSet(<<>>) = {} /\ Len(<<>>) = 0
    BY EmptySeq, ToSetOfSeq
  <2> QED
    BY <1>1, <2>1, <2>2, LimitsAssumption
<1>2. CASE ~(environments = None /\ platforms = None)
  <2>1. /\ ToSet(NamesOf(doc, environments)) \subseteq ToSet(doc.names)
        /\ ManifestPlans(doc, rounds) # Rejected
        /\ selected = ManifestPlans(doc, rounds)
    BY <1>2, ManifestSelected
  <2>2. rounds \in Seq(ToSet(doc.names) \X Targets)
    <3>1. NamesOf(doc, environments) \in Seq(ToSet(doc.names))
      BY <2>1, NamesSeq
    <3> QED
      BY <3>1, RequestedRounds DEF RoundsOf, IsSelectors
  <2> HIDE DEF selected, rounds
  <2>3. /\ Covers(doc, rounds, Len(rounds), selected)
        /\ Len(selected) <= MaxTargets
        /\ \A q \in ToSet(selected) : doc.subdir[q[2]] \in KnownSubdirs
    BY <2>1, <2>2, ManifestPlansCover
  <2>4. Exact(doc, environments, platforms, selected)
    BY <2>1, <2>3, CoversIsExact DEF rounds
  <2>5. ASSUME NEW q \in ToSet(selected) PROVE q[1] \in ToSet(doc.names)
    <3>1. PICK n \in ToSet(NamesOf(doc, environments)), t \in Targets : q = <<n, t>>
      BY <2>4 DEF Exact
    <3> QED
      BY <2>1, <3>1
  <2>6. selected \in Seq(Pairs)
    BY <2>4 DEF Exact
  <2> QED
    BY <2>3, <2>4, <2>5, <2>6 DEF selected
<1> QED
  BY <1>1, <1>2

\* An accepted selection of a lock.
LEMMA LockExact ==
  ASSUME NEW doc, IsDocument(doc), NEW environments, NEW platforms,
         IsSelectors(environments, platforms), NEW all, NEW empty,
         LockSelection(doc, environments, platforms, all, empty) # Rejected
  PROVE  /\ LockSelection(doc, environments, platforms, all, empty) \in Seq(Pairs)
         /\ Len(LockSelection(doc, environments, platforms, all, empty)) <= MaxTargets
         /\ environments # None \/ platforms # None =>
               Exact(doc, environments, platforms,
                     LockSelection(doc, environments, platforms, all, empty))
<1> DEFINE selected == LockSelection(doc, environments, platforms, all, empty)
           rounds == RoundsOf(doc, environments, platforms)
           plans == LockPlans(doc, rounds)
<1>1. /\ ToSet(NamesOf(doc, environments)) \subseteq ToSet(doc.names)
      /\ plans # Rejected
      /\ ~(Len(plans) > MaxTargets)
      /\ selected = IF all \/ environments # None \/ platforms # None
                    THEN plans ELSE <<>>
  BY LockSelected
<1>2. rounds \in Seq(ToSet(doc.names) \X Targets)
  <2>1. NamesOf(doc, environments) \in Seq(ToSet(doc.names))
    BY <1>1, NamesSeq
  <2> QED
    BY <2>1, RequestedRounds DEF RoundsOf, IsSelectors
<1> HIDE DEF rounds
<1>3. Covers(doc, rounds, Len(rounds), plans)
  BY <1>1, <1>2, LockPlansCover
<1> HIDE DEF plans, selected
<1>4. Exact(doc, environments, platforms, plans)
  BY <1>1, <1>3, CoversIsExact DEF rounds
<1>5. plans \in Seq(Pairs) /\ <<>> \in Seq(Pairs) /\ Len(<<>>) = 0
  BY <1>4, EmptySeq DEF Exact
<1>6. Len(plans) <= MaxTargets
  BY <1>1, <1>5, LenProperties, LimitsAssumption
<1>7. selected \in Seq(Pairs) /\ Len(selected) <= MaxTargets
  BY <1>1, <1>5, <1>6, LimitsAssumption
<1>8. environments # None \/ platforms # None =>
         Exact(doc, environments, platforms, selected)
  BY <1>1, <1>4
<1> QED
  BY <1>7, <1>8 DEF selected

\* In terms of the sets of targets that the selectors mean.
LEMMA ExactMeans ==
  ASSUME NEW doc, IsDocument(doc), NEW environments, NEW platforms, NEW selected,
         IsSelectors(environments, platforms), platforms # None,
         Exact(doc, environments, platforms, selected)
  PROVE  LET names == IF environments = None THEN ToSet(doc.names)
                      ELSE ToSet(environments)
             asked == ToSet(platforms)
             means(n, a) == {t \in DOMAIN doc.subdir : Denotes(doc, n, a, t)}
         IN /\ ToSet(selected) =
                  UNION {{<<n, t>> : t \in UNION {means(n, a) : a \in asked}} : n \in names}
            /\ Cardinality(ToSet(selected)) = Len(selected)
            /\ \A n \in names, a \in asked : Cardinality(means(n, a)) = 1
<1> DEFINE names == IF environments = None THEN ToSet(doc.names) ELSE ToSet(environments)
           asked == ToSet(platforms)
           means(n, a) == {t \in DOMAIN doc.subdir : Denotes(doc, n, a, t)}
<1>1. ToSet(NamesOf(doc, environments)) = names
  BY NamesSeq
<1>2. \A n : AskedOf(doc, n, platforms) = asked
  BY DEF AskedOf
<1>3. DOMAIN doc.subdir = Targets
  BY DEF IsDocument
<1> HIDE DEF names, asked
<1>4. /\ selected \in Seq(Pairs) /\ NoRepeat(selected)
      /\ \A n \in names : \A a \in asked : \E t \in Targets : Means(doc, <<n, a>>, t)
      /\ \A q : q \in ToSet(selected) <=>
            \E n \in names : \E a \in asked : \E t \in Targets :
               Means(doc, <<n, a>>, t) /\ q = <<n, t>>
  <2>1. PICK list : list = NamesOf(doc, environments) /\ ToSet(list) = names
    BY <1>1
  <2>2. selected \in Seq(Pairs) /\ NoRepeat(selected)
    BY DEF Exact
  <2>3. \A n \in names : \A a \in AskedOf(doc, n, platforms) :
           \E t \in Targets : Means(doc, <<n, a>>, t)
    BY <2>1, Zenon DEF Exact
  <2>4. \A q : q \in ToSet(selected) <=>
           \E n \in names : \E a \in AskedOf(doc, n, platforms) : \E t \in Targets :
              Means(doc, <<n, a>>, t) /\ q = <<n, t>>
    BY <2>1, Zenon DEF Exact
  <2>5. \A n \in names : \A a \in asked : \E t \in Targets : Means(doc, <<n, a>>, t)
    BY <1>2, <2>3
  <2> QED
    BY <1>2, <2>2, <2>4, <2>5
<1>5. \A n, a, t : Means(doc, <<n, a>>, t) => t \in Targets /\ means(n, a) = {t}
  BY <1>3 DEF Means
<1>6. \A n \in names, a \in asked : \E t \in Targets :
         Means(doc, <<n, a>>, t) /\ means(n, a) = {t}
  BY <1>4, <1>5
<1>7. \A n \in names, a \in asked : \A t : t \in means(n, a) <=>
         t \in Targets /\ Means(doc, <<n, a>>, t)
  <2> SUFFICES ASSUME NEW n \in names, NEW a \in asked, NEW t
               PROVE  t \in means(n, a) <=> t \in Targets /\ Means(doc, <<n, a>>, t)
    OBVIOUS
  <2>1. PICK u \in Targets : Means(doc, <<n, a>>, u) /\ means(n, a) = {u}
    BY <1>6
  <2> QED
    BY <1>5, <2>1
<1>8. \A n \in names, a \in asked : Cardinality(means(n, a)) = 1
  <2> SUFFICES ASSUME NEW n \in names, NEW a \in asked
               PROVE  Cardinality(means(n, a)) = 1
    OBVIOUS
  <2>1. PICK u : means(n, a) = {u}
    BY <1>6
  <2>2. Cardinality({u}) = 1
    BY FS_Singleton
  <2> QED
    BY <2>1, <2>2, Zenon
<1>9. Cardinality(ToSet(selected)) = Len(selected)
  BY <1>4, ToSetFinite
<1> HIDE DEF means
<1>10. ToSet(selected) =
          UNION {{<<n, t>> : t \in UNION {means(n, a) : a \in asked}} : n \in names}
  <2>1. ASSUME NEW q \in ToSet(selected)
        PROVE  q \in UNION {{<<n, t>> : t \in UNION {means(n, a) : a \in asked}} : n \in names}
    <3>1. PICK n \in names, a \in asked, t \in Targets :
             Means(doc, <<n, a>>, t) /\ q = <<n, t>>
      BY <1>4
    <3>2. t \in means(n, a)
      BY <1>7, <3>1
    <3> QED
      BY <3>1, <3>2
  <2>2. ASSUME NEW n \in names, NEW a \in asked, NEW t \in means(n, a)
        PROVE  <<n, t>> \in ToSet(selected)
    <3>1. PICK q : q = <<n, t>>
      OBVIOUS
    <3>2. t \in Targets /\ Means(doc, <<n, a>>, t)
      BY <1>7
    <3>3. q \in ToSet(selected)
      BY <1>4, <3>1, <3>2
    <3> QED
      BY <3>1, <3>3
  <2> QED
    BY <2>1, <2>2
<1> QED
  BY <1>8, <1>9, <1>10 DEF names, asked, means

\* Select passes the environments of the document where none are given.
LEMMA SelectIs ==
  ASSUME NEW doc, IsDocument(doc), NEW environments, NEW platforms,
         IsSelectors(environments, platforms)
  PROVE  \E given : /\ given # None
                    /\ IsSelectors(given, platforms)
                    /\ given = IF environments = None THEN doc.names ELSE environments
                    /\ Select(doc, environments, platforms) =
                          ManifestSelection(doc, given, platforms)
                    /\ NamesOf(doc, given) = NamesOf(doc, environments)
<1> DEFINE given == IF environments = None THEN doc.names ELSE environments
<1>1. given \in Seq(Environments)
  BY DEF IsSelectors, IsDocument
<1>2. given # None
  BY <1>1, NoneAssumption
<1>3. Select(doc, environments, platforms) = ManifestSelection(doc, given, platforms)
  BY Zenon DEF Select
<1>4. NamesOf(doc, given) = NamesOf(doc, environments)
  BY <1>2 DEF NamesOf
<1> QED
  BY <1>1, <1>2, <1>3, <1>4 DEF IsSelectors

\* A selection that Select accepts.
LEMMA SelectExact ==
  ASSUME NEW doc, IsDocument(doc), NEW environments, NEW platforms,
         IsSelectors(environments, platforms),
         Select(doc, environments, platforms) # Rejected
  PROVE  /\ Select(doc, environments, platforms) \in Seq(Pairs)
         /\ \A q \in ToSet(Select(doc, environments, platforms)) :
               q[1] \in ToSet(doc.names) /\ doc.subdir[q[2]] \in KnownSubdirs
         /\ Len(Select(doc, environments, platforms)) <= MaxTargets
         /\ Select(doc, environments, platforms) # <<>> \/ platforms = None
<1>1. PICK given : /\ given # None
                   /\ IsSelectors(given, platforms)
                   /\ given = IF environments = None THEN doc.names ELSE environments
                   /\ Select(doc, environments, platforms) =
                         ManifestSelection(doc, given, platforms)
  BY SelectIs
<1> DEFINE selected == ManifestSelection(doc, given, platforms)
<1>2. /\ selected \in Seq(Pairs)
      /\ \A q \in ToSet(selected) :
            q[1] \in ToSet(doc.names) /\ doc.subdir[q[2]] \in KnownSubdirs
      /\ Len(selected) <= MaxTargets
      /\ Exact(doc, given, platforms, selected)
  BY <1>1, ManifestExact
<1>3. given # <<>> /\ platforms # <<>>
  BY <1>1, ManifestSelected
<1> HIDE DEF selected
<1>4. ASSUME platforms # None PROVE selected # <<>>
  <2>1. ToSet(NamesOf(doc, given)) = ToSet(given)
    BY <1>1, NamesSeq
  <2>2. PICK n : n \in ToSet(given)
    BY <1>1, <1>3, ToSetOfSeq DEF IsSelectors
  <2>3. PICK a : a \in AskedOf(doc, n, platforms)
    BY <1>3, <1>4, <1>1, ToSetOfSeq DEF IsSelectors, AskedOf
  <2>4. PICK t \in Targets : Means(doc, <<n, a>>, t)
    BY <1>2, <2>1, <2>2, <2>3 DEF Exact
  <2>5. PICK q : q = <<n, t>>
    OBVIOUS
  <2>6. q \in ToSet(selected)
    BY <1>2, <2>1, <2>2, <2>3, <2>4, <2>5 DEF Exact
  <2>7. ToSet(<<>>) = {}
    BY EmptySeq, ToSetOfSeq
  <2> QED
    BY <2>6, <2>7
<1> QED
  BY <1>1, <1>2, <1>4 DEF selected

\* LockSelectsLikeManifest, for any document and selectors.
LEMMA SelectionsAgree ==
  ASSUME NEW doc, IsDocument(doc), NEW environments, NEW platforms,
         IsSelectors(environments, platforms),
         Select(doc, environments, platforms) # Rejected,
         ~TooManyChannels(doc, ToSet(Select(doc, environments, platforms))),
         \A n \in ToSet(doc.names) : doc.targets[n] # <<>>
  PROVE  LockSelection(doc, environments, platforms, TRUE, FALSE) =
            Select(doc, environments, platforms)
<1>1. PICK given : /\ given # None
                   /\ IsSelectors(given, platforms)
                   /\ given = IF environments = None THEN doc.names ELSE environments
                   /\ Select(doc, environments, platforms) =
                         ManifestSelection(doc, given, platforms)
                   /\ NamesOf(doc, given) = NamesOf(doc, environments)
  BY SelectIs
<1> DEFINE names == NamesOf(doc, environments)
           rounds == RoundsOf(doc, environments, platforms)
<1>2. rounds = RoundsOf(doc, given, platforms)
  BY <1>1 DEF RoundsOf
<1>3. /\ given # <<>> /\ platforms # <<>>
      /\ ToSet(names) \subseteq ToSet(doc.names)
      /\ ManifestPlans(doc, rounds) # Rejected
      /\ ManifestSelection(doc, given, platforms) = ManifestPlans(doc, rounds)
  BY <1>1, <1>2, ManifestSelected
<1>4. names \in Seq(ToSet(doc.names)) /\ names \in Seq(Environments)
  BY <1>3, NamesSeq
<1>5. names # <<>>
  <2>1. ToSet(names) = ToSet(given)
    BY <1>1, NamesSeq
  <2>2. ToSet(given) # {} /\ ToSet(<<>>) = {}
    BY <1>1, <1>3, EmptySeq, ToSetOfSeq DEF IsSelectors
  <2> QED
    BY <2>1, <2>2
<1> HIDE DEF names
<1>6. /\ rounds \in Seq(ToSet(doc.names) \X Targets)
      /\ \A r \in ToSet(rounds) : doc.targets[r[1]] # <<>>
  <2>1. platforms # None => platforms \in Seq(Targets)
    BY DEF IsSelectors
  <2>2. rounds = Requested(doc, names, platforms)
    BY DEF RoundsOf, names
  <2> HIDE DEF rounds
  <2>3. rounds \in Seq(ToSet(doc.names) \X Targets)
    BY <1>4, <2>1, <2>2, RequestedRounds
  <2>4. \A r \in ToSet(rounds) : r[1] \in ToSet(doc.names)
    BY <2>3, ToSetOfSeq
  <2> QED
    BY <2>3, <2>4
<1> HIDE DEF rounds
<1> DEFINE plans == LockPlans(doc, rounds)
<1>7. plans = ManifestPlans(doc, rounds)
  BY <1>3, <1>6, PlansAgree
<1>8. plans \in Seq(Pairs) /\ Len(plans) <= MaxTargets
  BY <1>3, <1>6, <1>7, ManifestPlansCover DEF Covers
<1>9. LockSelection(doc, environments, platforms, TRUE, FALSE) =
         IF \/ (names = <<>> /\ ~FALSE) \/ platforms = <<>>
            \/ ~(ToSet(names) \subseteq ToSet(doc.names))
            \/ plans = Rejected
            \/ Len(plans) > MaxTargets
            \/ TooManyChannels(doc, IF FALSE THEN DOMAIN doc.records ELSE ToSet(plans))
         THEN Rejected
         ELSE IF TRUE \/ environments # None \/ platforms # None THEN plans ELSE <<>>
  BY Zenon DEF LockSelection, NamesOf, RoundsOf, plans, rounds, names
<1> HIDE DEF plans
<1>10. ~(Len(plans) > MaxTargets)
  BY <1>8, LenProperties, LimitsAssumption
<1> QED
  BY <1>1, <1>3, <1>5, <1>7, <1>9, <1>10

\* What represents its targets keeps them apart: as many subdirs as targets
\* leave no two of them the same one.
LEMMA RepresentsApart ==
  ASSUME NEW doc, NEW selected \in Seq(Pairs), NEW format,
         Represents(doc, selected, format)
  PROVE  /\ \A i, j \in 1..Len(selected) : selected[i][1] = selected[j][1]
         /\ \A i, j \in 1..Len(selected) :
               doc.subdir[selected[i][2]] = doc.subdir[selected[j][2]] => i = j
         /\ format \in Multiplatform \/ Len(selected) = 1
<1> DEFINE N == Len(selected)
           environments == {p[1] : p \in ToSet(selected)}
           f == [i \in 1..N |-> doc.subdir[selected[i][2]]]
           g == [i \in 1..N |-> selected[i][1]]
<1>1. N \in Nat /\ IsFiniteSet(1..N) /\ Cardinality(1..N) = N
  BY LenProperties, Positions
<1>2. ToSet(selected) = {selected[i] : i \in 1..N}
  BY ToSetOfSeq
<1>3. f \in Surjection(1..N, SubdirsOf(doc, selected))
  BY <1>2 DEF Surjection, SubdirsOf
<1>4. g \in Surjection(1..N, environments)
  BY <1>2 DEF Surjection
<1>5. f \in Injection(1..N, SubdirsOf(doc, selected))
  BY <1>1, <1>3, FS_Surjection DEF Represents
<1>6. IsFiniteSet(environments) /\ Cardinality(environments) = 1
  BY <1>1, <1>4, FS_Surjection DEF Represents
<1> HIDE DEF environments
<1>7. PICK e : environments = {e}
  BY <1>6, FS_Singleton
<1>8. \A i \in 1..N : selected[i][1] = e
  <2>1. \A i \in 1..N : g[i] \in environments
    BY <1>4 DEF Surjection
  <2> QED
    BY <1>7, <2>1
<1>9. \A i, j \in 1..N : f[i] = f[j] => i = j
  BY <1>5 DEF Injection, IsInjective
<1> QED
  BY <1>8, <1>9 DEF Represents

-----------------------------------------------------------------------------
(* What from_path makes of an admitted request.                             *)

\* The selectors of a request.
LEMMA RequestSelectors ==
  ASSUME NEW r, IsRequest(r)
  PROVE  IsSelectors(EnvironmentsOf(r), PlatformsOf(r))
BY DEF IsRequest, IsSelectors, EnvironmentsOf, PlatformsOf

\* A whole workspace has its file and its manifest, and one target to update.
LEMMA WholeWorkspace ==
  ASSUME NEW r, IsRequest(r), Admits(r), r.operation \in {"validate", "update"}
  PROVE  /\ r.file # "none" /\ r.companion # None /\ IsDocument(r.companion)
         /\ PlatformsOf(r) = None /\ EnvironmentsOf(r) = None
         /\ r.operation = "update" => Pair(r) \in Pairs
<1>1. r.file # "none" /\ r.companion # None
  BY DEF Admits, CliAdmits, HttpAdmits, ValidateAdmits, UpdateAdmits, CliParseAdmits,
         CliUpdateAdmits
<1>2. ASSUME r.operation = "update" PROVE Pair(r) \in Pairs
  <2>1. /\ r.environments # None /\ Len(r.environments) = 1
        /\ r.platforms # None /\ Len(r.platforms) = 1
    BY <1>2 DEF Admits, CliAdmits, CliUpdateAdmits, Given, IsRequest
  <2>2. r.environments \in Seq(Environments) /\ r.platforms \in Seq(Targets)
    BY <2>1 DEF IsRequest
  <2>3. r.environments[1] \in Environments /\ r.platforms[1] \in Targets
    BY <2>1, <2>2, ElementOfSeq
  <2> QED
    BY <2>3 DEF Pair, Pairs
<1> QED
  BY <1>1, <1>2 DEF IsRequest, PlatformsOf, EnvironmentsOf

\* The declared target that a saved one is compared with.
LEMMA CompanionIsDeclared ==
  ASSUME NEW manifest, IsDocument(manifest), manifest # None, NEW pair \in Pairs,
         Companion(manifest, pair) # Rejected
  PROVE  /\ Companion(manifest, pair) \in Pairs
         /\ Companion(manifest, pair)[1] \in ToSet(manifest.names)
         /\ manifest.subdir[Companion(manifest, pair)[2]] \in KnownSubdirs
<1> DEFINE found == Select(manifest, <<pair[1]>>, <<pair[2]>>)
<1>1. Companion(manifest, pair) = IF found = Rejected THEN Rejected ELSE found[1]
  BY Zenon DEF Companion
<1>2. found # Rejected /\ Companion(manifest, pair) = found[1]
  BY <1>1
<1>3. <<pair[1]>> \in Seq(Environments) /\ <<pair[2]>> \in Seq(Targets)
  BY DEF Pairs
<1>4. IsSelectors(<<pair[1]>>, <<pair[2]>>) /\ <<pair[2]>> # None
  BY <1>3, NoneAssumption DEF IsSelectors
<1>5. /\ found \in Seq(Pairs) /\ found # <<>>
      /\ \A q \in ToSet(found) :
            q[1] \in ToSet(manifest.names) /\ manifest.subdir[q[2]] \in KnownSubdirs
  BY <1>2, <1>4, SelectExact
<1> HIDE DEF found
<1>6. 1 \in 1..Len(found)
  BY <1>5, EmptySeq, LenProperties
<1>7. found[1] \in Pairs /\ found[1] \in ToSet(found)
  BY <1>5, <1>6, ElementOfSeq, ToSetOfSeq
<1> QED
  BY <1>2, <1>5, <1>7

\* Mismatches are declared targets.
LEMMA MismatchesArePairs ==
  ASSUME NEW lock, NEW manifest, IsDocument(manifest),
         CheckConsistency(lock, manifest) # Rejected
  PROVE  CheckConsistency(lock, manifest) \subseteq Pairs
<1> DEFINE declared == Select(manifest, None, None)
<1>1. CheckConsistency(lock, manifest) =
         IF \/ declared \in {Rejected, <<>>}
            \/ \E p \in ToSet(declared) : p[1] \in manifest.pypi \cup manifest.archspec
            \/ lock.malformed
         THEN Rejected
         ELSE {p \in ToSet(declared) :
                  p \notin DOMAIN lock.records \/ lock.records[p] # "good"}
  BY Zenon DEF CheckConsistency
<1>2. IsSelectors(None, None)
  BY DEF IsSelectors
<1>3. declared # Rejected => declared \in Seq(Pairs)
  BY <1>2, SelectExact
<1> HIDE DEF declared
<1>4. declared # Rejected /\ CheckConsistency(lock, manifest) \subseteq ToSet(declared)
  BY <1>1
<1> QED
  BY <1>3, <1>4, ToSetOfSeq

\* A manifest whose selectors select nothing has no environment to export.
LEMMA NothingSelected ==
  ASSUME NEW doc, IsDocument(doc), NEW environments, NEW platforms, platforms # None,
         IsSelectors(environments, platforms),
         ManifestSelection(doc, environments, platforms) # Rejected,
         ManifestSelection(doc, environments, platforms) = <<>>
  PROVE  Select(doc, None, None) = Rejected
<1> SUFFICES ASSUME Select(doc, None, None) # Rejected PROVE FALSE
  OBVIOUS
<1>1. IsSelectors(None, None)
  BY DEF IsSelectors
<1>2. PICK given : /\ given # None
                   /\ IsSelectors(given, None)
                   /\ given = doc.names
                   /\ Select(doc, None, None) = ManifestSelection(doc, given, None)
  BY <1>1, SelectIs
<1>3. doc.names # <<>>
  BY <1>2, ManifestSelected
<1>4. environments # <<>> /\ platforms # <<>>
  BY ManifestSelected
<1>5. Exact(doc, environments, platforms, <<>>)
  BY ManifestExact
<1>6. ToSet(NamesOf(doc, environments)) =
         ToSet(IF environments = None THEN doc.names ELSE environments)
  BY NamesSeq
<1> DEFINE asked == IF environments = None THEN doc.names ELSE environments
<1>7. asked \in Seq(Environments) /\ asked # <<>>
  BY <1>3, <1>4 DEF IsSelectors, IsDocument
<1>8. PICK n : n \in ToSet(NamesOf(doc, environments))
  BY <1>6, <1>7, ToSetOfSeq
<1>9. PICK a : a \in AskedOf(doc, n, platforms)
  BY <1>4, ToSetOfSeq DEF IsSelectors, AskedOf
<1>10. PICK t \in Targets : Means(doc, <<n, a>>, t)
  BY <1>5, <1>8, <1>9 DEF Exact
<1>11. PICK q : q = <<n, t>>
  OBVIOUS
<1>12. q \in ToSet(<<>>)
  BY <1>5, <1>8, <1>9, <1>10, <1>11 DEF Exact
<1> QED
  BY <1>12, EmptySeq, ToSetOfSeq

\* The formats of an export are those of the request.
LEMMA FormatOfRequest ==
  ASSUME NEW r, ~LockedSbom(r), ExportFormat(r) # None
  PROVE  r.format = ExportFormat(r) /\ r.format # None
BY DEF ExportFormat

\* What a manifest was parsed to.
LEMMA ManifestParsed ==
  ASSUME NEW r, IsRequest(r), r.file = "manifest", FromPath(r) # Rejected
  PROVE  /\ IsParsed(FromPath(r))
         /\ r.companion = None
         /\ ManifestSelection(r.doc, EnvironmentsOf(r), PlatformsOf(r)) # Rejected
         /\ PlatformsOf(r) # None => FromPath(r).selected =
               ManifestSelection(r.doc, EnvironmentsOf(r), PlatformsOf(r))
         /\ FromPath(r).content # None =>
               /\ FromPath(r).content \in Seq(Pairs)
               /\ Represents(r.doc, FromPath(r).content, r.format)
<1> DEFINE selected == ManifestSelection(r.doc, EnvironmentsOf(r), PlatformsOf(r))
           exported == IF selected = <<>> THEN Select(r.doc, None, None) ELSE selected
           format == ExportFormat(r)
<1>1. FromPath(r) = FromManifest(r)
  BY DEF FromPath
<1>2. FromManifest(r) =
         IF \/ selected = Rejected \/ r.companion # None
         THEN Rejected
         ELSE IF format = None \/ r.operation = "transcode"
              THEN [ParsedFile EXCEPT !.selected = selected]
              ELSE IF exported = Rejected \/ ~ExportsManifest(r.doc, exported, format)
                   THEN Rejected
                   ELSE [ParsedFile EXCEPT !.selected = exported, !.content = exported]
  BY Zenon DEF FromManifest
<1>3. IsDocument(r.doc) /\ IsSelectors(EnvironmentsOf(r), PlatformsOf(r))
  BY RequestSelectors DEF IsRequest
<1>4. selected # Rejected => selected \in Seq(Pairs)
  BY <1>3, ManifestExact
<1>5. exported # Rejected /\ selected # Rejected => exported \in Seq(Pairs)
  <2>1. IsSelectors(None, None)
    BY DEF IsSelectors
  <2>2. Select(r.doc, None, None) # Rejected => Select(r.doc, None, None) \in Seq(Pairs)
    BY <1>3, <2>1, SelectExact
  <2> QED
    BY <1>4, <2>2
<1>6. PlatformsOf(r) # None /\ selected # Rejected /\ exported # Rejected =>
         exported = selected
  BY <1>3, NothingSelected
<1>7. ~LockedSbom(r)
  BY DEF LockedSbom
<1> HIDE DEF selected, exported, format
<1>8. CASE format = None \/ r.operation = "transcode"
  <2>1. /\ selected # Rejected /\ r.companion = None
        /\ FromPath(r) = [ParsedFile EXCEPT !.selected = selected]
    BY <1>1, <1>2, <1>8
  <2>2. /\ DOMAIN FromPath(r) = DOMAIN ParsedFile
        /\ FromPath(r).selected = selected
        /\ FromPath(r).specs = 0 /\ FromPath(r).channels = {}
        /\ FromPath(r).content = None /\ FromPath(r).mismatches = None
        /\ FromPath(r).target = None
    BY <2>1 DEF ParsedFile
  <2> QED
    BY <1>4, <2>1, <2>2 DEF IsParsed, selected
<1>9. CASE ~(format = None \/ r.operation = "transcode")
  <2>1. /\ selected # Rejected /\ r.companion = None
        /\ exported # Rejected /\ ExportsManifest(r.doc, exported, format)
        /\ FromPath(r) = [ParsedFile EXCEPT !.selected = exported, !.content = exported]
    BY <1>1, <1>2, <1>9
  <2>2. /\ DOMAIN FromPath(r) = DOMAIN ParsedFile
        /\ FromPath(r).selected = exported
        /\ FromPath(r).specs = 0 /\ FromPath(r).channels = {}
        /\ FromPath(r).content = exported /\ FromPath(r).mismatches = None
        /\ FromPath(r).target = None
    BY <2>1 DEF ParsedFile
  <2>3. r.format = format /\ format # None
    BY <1>7, <1>9, FormatOfRequest DEF format
  <2>4. Represents(r.doc, exported, format)
    BY <2>1, <2>3 DEF ExportsManifest, ValidOutput, Lockfiles
  <2>5. exported \in Seq(Pairs) /\ (PlatformsOf(r) # None => exported = selected)
    BY <1>5, <1>6, <2>1
  <2> QED
    BY <2>1, <2>2, <2>3, <2>4, <2>5 DEF IsParsed, selected
<1> QED
  BY <1>8, <1>9

\* What a lock was parsed to.
LEMMA LockParsed ==
  ASSUME NEW r, IsRequest(r), Admits(r), r.file = "lock", FromPath(r) # Rejected
  PROVE  /\ IsParsed(FromPath(r))
         /\ LockSelection(r.doc, EnvironmentsOf(r), PlatformsOf(r), ExportFormat(r) # None,
                          r.operation \in {"validate", "update"}) # Rejected
         /\ FromPath(r).selected =
               LockSelection(r.doc, EnvironmentsOf(r), PlatformsOf(r),
                             ExportFormat(r) # None, r.operation \in {"validate", "update"})
         /\ FromPath(r).content # None /\ ~LockedSbom(r) =>
               /\ FromPath(r).content \in Seq(Pairs)
               /\ r.format = "workspace-lock"
                  \/ Represents(Resolved(r.doc, r.companion), FromPath(r).content, r.format)
         /\ r.operation = "update" =>
               /\ FromPath(r).target = Pair(r)
               /\ CheckConsistency(r.doc, r.companion) = {}
               /\ Pair(r)[1] \in ToSet(r.companion.names)
               /\ r.companion.subdir[Pair(r)[2]] \in KnownSubdirs
               /\ ToSet(r.packages) \subseteq Dependencies(r.companion, Pair(r))
<1> DEFINE whole == r.operation \in {"validate", "update"}
           format == ExportFormat(r)
           selected == LockSelection(r.doc, EnvironmentsOf(r), PlatformsOf(r),
                                     format # None, whole)
           renders == IF LockedSbom(r)
                      THEN RendersEach(r.doc, r.companion, selected, format)
                      ELSE RendersLock(r.doc, r.companion, selected, format)
           check == IF whole THEN CheckConsistency(r.doc, r.companion) ELSE {}
           target == IF r.operation = "update" THEN Updates(r) ELSE None
           file == [ParsedFile EXCEPT
                       !.selected   = selected,
                       !.content    = IF format = None THEN None ELSE selected,
                       !.mismatches = IF r.operation = "validate" THEN check ELSE None,
                       !.target     = target]
<1>1. FromPath(r) = FromLock(r)
  BY DEF FromPath
<1>2. FromLock(r) = IF \/ selected = Rejected \/ check = Rejected \/ target = Rejected
                       \/ format # None /\ ~renders
                       \/ format = None /\ r.companion # None /\ ~whole
                    THEN Rejected ELSE file
  BY Zenon DEF FromLock
<1>3. IsDocument(r.doc) /\ IsSelectors(EnvironmentsOf(r), PlatformsOf(r))
  BY RequestSelectors DEF IsRequest
<1>4. selected # Rejected => selected \in Seq(Pairs)
  BY <1>3, LockExact
<1>5. whole => r.companion # None /\ IsDocument(r.companion)
  BY WholeWorkspace
<1>6. whole /\ check # Rejected => check \subseteq Pairs
  BY <1>5, MismatchesArePairs
<1>7. ASSUME r.operation = "update", target # Rejected
      PROVE  /\ target = Pair(r) /\ Pair(r) \in Pairs
             /\ CheckConsistency(r.doc, r.companion) = {}
             /\ Pair(r)[1] \in ToSet(r.companion.names)
             /\ r.companion.subdir[Pair(r)[2]] \in KnownSubdirs
             /\ ToSet(r.packages) \subseteq Dependencies(r.companion, Pair(r))
  <2> DEFINE declared == Companion(r.companion, Pair(r))
  <2>1. Updates(r) = PrepareUpdate(r.doc, r.companion, Pair(r), r.packages)
    BY Zenon DEF Updates
  <2>2. PrepareUpdate(r.doc, r.companion, Pair(r), r.packages) =
           IF \/ CheckConsistency(r.doc, r.companion) # {}
              \/ Len(r.packages) > MaxSpecs
              \/ declared = Rejected
              \/ declared # Pair(r)
              \/ ~(ToSet(r.packages) \subseteq Dependencies(r.companion, declared))
           THEN Rejected ELSE declared
    BY Zenon DEF PrepareUpdate
  <2>3. Pair(r) \in Pairs /\ r.companion # None /\ IsDocument(r.companion)
    BY <1>7, WholeWorkspace
  <2> HIDE DEF declared
  <2>4. /\ target = declared /\ declared # Rejected /\ declared = Pair(r)
        /\ CheckConsistency(r.doc, r.companion) = {}
        /\ ToSet(r.packages) \subseteq Dependencies(r.companion, declared)
    BY <1>7, <2>1, <2>2
  <2> QED
    BY <2>3, <2>4, CompanionIsDeclared DEF declared
<1> HIDE DEF selected, renders, check, target, format, whole
<1>8. /\ selected # Rejected /\ check # Rejected /\ target # Rejected
      /\ format # None => renders
      /\ FromPath(r) = file
  BY <1>1, <1>2
<1>9. /\ DOMAIN file = DOMAIN ParsedFile
      /\ file.selected = selected
      /\ file.specs = 0 /\ file.channels = {}
      /\ file.content = IF format = None THEN None ELSE selected
      /\ file.mismatches = IF r.operation = "validate" THEN check ELSE None
      /\ file.target = target
  BY DEF ParsedFile
<1>10. r.operation = "validate" => whole
  BY DEF whole
<1>11. r.operation # "update" => target = None
  BY DEF target
<1> HIDE DEF file
<1>12. IsParsed(file)
  BY <1>4, <1>6, <1>7, <1>8, <1>9, <1>10, <1>11 DEF IsParsed
<1>13. ASSUME file.content # None, ~LockedSbom(r)
       PROVE  /\ file.content \in Seq(Pairs)
              /\ r.format = "workspace-lock"
                 \/ Represents(Resolved(r.doc, r.companion), file.content, r.format)
  <2>1. format # None /\ file.content = selected
    BY <1>9, <1>13
  <2>2. r.format = format
    BY <1>13, <2>1, FormatOfRequest DEF format
  <2>3. RendersLock(r.doc, r.companion, selected, format)
    BY <1>8, <1>13, <2>1 DEF renders
  <2> QED
    BY <1>4, <1>8, <2>1, <2>2, <2>3 DEF RendersLock
<1> QED
  BY <1>7, <1>8, <1>9, <1>12, <1>13 DEF selected, format, whole

\* What any file was parsed to.
LEMMA FileParsed ==
  ASSUME NEW r, IsRequest(r), Admits(r), FromPath(r) # Rejected, r.file # "none"
  PROVE  IsParsed(FromPath(r))
<1>1. CASE r.file = "manifest"
  BY <1>1, ManifestParsed
<1>2. CASE r.file = "lock"
  BY <1>2, LockParsed
<1>3. CASE r.file = "ordinary-lock"
  <2>1. FromPath(r) = FromOrdinaryLock(r)
    BY <1>3 DEF FromPath
  <2>2. r.fileChannels \subseteq Channels /\ <<>> \in Seq(Pairs)
    BY EmptySeq DEF IsRequest
  <2> QED
    BY <2>1, <2>2 DEF FromOrdinaryLock, IsParsed, ParsedFile
<1>4. CASE r.file = "environment"
  <2>1. FromPath(r) = FromEnvironment(r)
    BY <1>4 DEF FromPath
  <2>2. r.fileChannels \subseteq Channels /\ <<>> \in Seq(Pairs)
    BY EmptySeq DEF IsRequest
  <2> QED
    BY <2>1, <2>2 DEF FromEnvironment, IsParsed, ParsedFile
<1> QED
  BY <1>1, <1>2, <1>3, <1>4 DEF IsRequest

\* Only a lock is updated, and nothing else is checked.
LEMMA OnlyLocksAreWhole ==
  ASSUME NEW r, IsRequest(r), Admits(r), FromPath(r) # Rejected,
         r.operation \in {"validate", "update"}, r.file # "none"
  PROVE  r.file = "lock"
<1>1. r.companion # None
  BY WholeWorkspace
<1>2. r.file # "manifest"
  BY <1>1, ManifestParsed
<1>3. r.file \notin {"environment", "ordinary-lock"}
  BY DEF FromPath
<1> QED
  BY <1>2, <1>3 DEF IsRequest

-----------------------------------------------------------------------------
(* The solves that a request asks for.                                      *)

\* The requirements are counted.
LEMMA SpecsAreCounted ==
  ASSUME NEW r, IsRequest(r)
  PROVE  SpecsOf(r) \in Nat
BY NoneAssumption DEF IsRequest, SpecsOf

\* A target of a document that is solved, or updated.
LEMMA TargetJobs ==
  ASSUME NEW doc, IsDocument(doc), NEW pair \in Pairs,
         pair[1] \in ToSet(doc.names), doc.subdir[pair[2]] \in KnownSubdirs,
         NEW packages \in SUBSET Dependencies(doc, pair)
  PROVE  /\ TargetJob(doc, pair, packages) \in AllJobs
         /\ TargetJob(doc, pair, packages).platform = doc.subdir[pair[2]]
         /\ TargetJob(doc, pair, packages).pair = pair
<1>1. Cardinality(Dependencies(doc, pair)) \in Nat
  BY FS_CardinalityType DEF IsDocument, Dependencies
<1>2. \A p \in packages : doc.roots[pair[1]][p] \subseteq Channels
  BY DEF IsDocument, Dependencies
<1>3. ToSet(doc.channels[pair]) \subseteq Channels
  <2>1. pair \in ToSet(doc.names) \X Targets
    BY DEF Pairs
  <2>2. doc.channels[pair] \in Seq(Channels)
    BY <2>1 DEF IsDocument
  <2> QED
    BY <2>2, ToSetOfSeq
<1>4. SolveChannels(doc, pair, packages) \subseteq Channels
  BY <1>2, <1>3 DEF SolveChannels
<1> QED
  BY <1>1, <1>4 DEF TargetJob, Job, AllJobs

\* The check of its channels covers those that the document names.
LEMMA NamesAreChecked ==
  ASSUME NEW doc, NEW pair, NEW packages,
         TargetJob(doc, pair, packages).channels \subseteq Allowed
  PROVE  NamesAllowed(doc, pair, packages)
<1>1. SolveChannels(doc, pair, packages) \subseteq Allowed
  BY DEF TargetJob, Job
<1>2. ToSet(doc.channels[pair]) \subseteq Allowed
  BY <1>1 DEF SolveChannels
<1>3. ASSUME NEW p \in packages PROVE doc.roots[pair[1]][p] \subseteq Allowed
  BY <1>1 DEF SolveChannels
<1> QED
  BY <1>2, <1>3 DEF NamesAllowed

\* A sequence of one element.
LEMMA ToSetOfOne ==
  ASSUME NEW x
  PROVE  ToSet(<<x>>) = {x}
<1>1. PICK s : s = <<x>>
  OBVIOUS
<1>2. s \in Seq({x}) /\ Len(s) = 1 /\ s[1] = x
  BY <1>1
<1>3. ToSet(s) = {s[i] : i \in 1..Len(s)}
  BY <1>2, ToSetOfSeq
<1> QED
  BY <1>1, <1>2, <1>3

\* What the limits say of the platform of a job.
LEMMA CapsOfJob ==
  ASSUME NEW specs, NEW channels, NEW platform,
         WithinCaps(specs, channels, <<platform>>)
  PROVE  /\ specs <= MaxSpecs /\ Cardinality(channels) <= MaxChannels
         /\ channels \subseteq Allowed /\ platform \in KnownSubdirs
BY ToSetOfOne DEF WithinCaps, AreAllowed

\* A job that the server may solve for a client.
Limited(job) == /\ job.specs <= MaxSpecs
                /\ Cardinality(job.channels) <= MaxChannels
                /\ job.channels \subseteq Allowed
                /\ job.platform \in KnownSubdirs

\* With the channels that a document names.
LimitedOf(job, doc) ==
    /\ Limited(job)
    /\ job.pair # None => NamesAllowed(doc, job.pair, Dependencies(doc, job.pair))

\* The solves of a manifest: its selected targets, which the output keeps apart.
LEMMA WorkspaceJobsAre ==
  ASSUME NEW r, IsRequest(r), r.file = "manifest", WorkspaceJobs(r) # Rejected
  PROVE  /\ WorkspaceJobs(r) \in Seq(AllJobs)
         /\ ~r.cli => \A i \in 1..Len(WorkspaceJobs(r)) :
               LimitedOf(WorkspaceJobs(r)[i], r.doc)
         /\ r.format \notin {None, "workspace-lock"} =>
               LET jobs == WorkspaceJobs(r)
               IN /\ \A i, j \in 1..Len(jobs) : jobs[i].pair[1] = jobs[j].pair[1]
                  /\ \A i, j \in 1..Len(jobs) :
                        jobs[i].platform = jobs[j].platform => i = j
                  /\ r.format \in Multiplatform \/ Len(jobs) = 1
<1> DEFINE selected == Select(r.doc, EnvironmentsOf(r), PlatformsOf(r))
           jobs == [i \in 1..Len(selected) |-> WholeJob(r.doc, selected[i])]
<1>1. WorkspaceJobs(r) =
         IF \/ r.operation # "resolve" \/ SpecsOf(r) # 0 \/ r.channels # {}
            \/ selected = Rejected
         THEN Rejected
         ELSE IF \/ ~ValidOutput(r.doc, selected, r.format)
                 \/ ~r.cli /\ \E i \in DOMAIN jobs :
                       ~WithinCaps(jobs[i].specs, jobs[i].channels, <<jobs[i].platform>>)
              THEN Rejected
              ELSE jobs
  BY Zenon DEF WorkspaceJobs
<1> HIDE DEF jobs, selected
<1>2. /\ selected # Rejected
      /\ ValidOutput(r.doc, selected, r.format)
      /\ ~r.cli => \A i \in DOMAIN jobs :
            WithinCaps(jobs[i].specs, jobs[i].channels, <<jobs[i].platform>>)
      /\ WorkspaceJobs(r) = jobs
  BY <1>1
<1>3. IsDocument(r.doc) /\ IsSelectors(EnvironmentsOf(r), PlatformsOf(r))
  BY RequestSelectors DEF IsRequest
<1>4. /\ selected \in Seq(Pairs)
      /\ \A q \in ToSet(selected) :
            q[1] \in ToSet(r.doc.names) /\ r.doc.subdir[q[2]] \in KnownSubdirs
  BY <1>2, <1>3, SelectExact DEF selected
<1>5. Len(selected) \in Nat /\ \A i \in 1..Len(selected) :
         selected[i] \in Pairs /\ selected[i] \in ToSet(selected)
  BY <1>4, LenProperties, ElementOfSeq, ToSetOfSeq
<1>6. \A i \in 1..Len(selected) :
         /\ jobs[i] = TargetJob(r.doc, selected[i], Dependencies(r.doc, selected[i]))
         /\ jobs[i] \in AllJobs
         /\ jobs[i].platform = r.doc.subdir[selected[i][2]]
         /\ jobs[i].pair = selected[i]
  BY <1>3, <1>4, <1>5, TargetJobs DEF jobs, WholeJob
<1>7. jobs \in Seq(AllJobs) /\ Len(jobs) = Len(selected) /\ DOMAIN jobs = 1..Len(selected)
  <2>1. jobs = [i \in 1..Len(selected) |-> jobs[i]]
    BY DEF jobs
  <2> QED
    BY <1>5, <1>6, <2>1
<1>8. ASSUME ~r.cli, NEW i \in 1..Len(jobs) PROVE LimitedOf(jobs[i], r.doc)
  <2>1. Limited(jobs[i])
    BY <1>2, <1>7, <1>8, CapsOfJob DEF Limited
  <2>2. NamesAllowed(r.doc, jobs[i].pair, Dependencies(r.doc, jobs[i].pair))
    BY <1>6, <1>7, <2>1, NamesAreChecked DEF Limited
  <2> QED
    BY <2>1, <2>2 DEF LimitedOf
<1>9. ASSUME r.format \notin {None, "workspace-lock"}
      PROVE  /\ \A i, j \in 1..Len(jobs) : jobs[i].pair[1] = jobs[j].pair[1]
             /\ \A i, j \in 1..Len(jobs) : jobs[i].platform = jobs[j].platform => i = j
             /\ r.format \in Multiplatform \/ Len(jobs) = 1
  <2>1. Represents(r.doc, selected, r.format)
    BY <1>2, <1>9 DEF ValidOutput
  <2>2. /\ \A i, j \in 1..Len(selected) : selected[i][1] = selected[j][1]
        /\ \A i, j \in 1..Len(selected) :
              r.doc.subdir[selected[i][2]] = r.doc.subdir[selected[j][2]] => i = j
        /\ r.format \in Multiplatform \/ Len(selected) = 1
    BY <1>4, <2>1, RepresentsApart
  <2> QED
    BY <1>6, <1>7, <2>2
<1> QED
  BY <1>2, <1>7, <1>8, <1>9

\* The solves of requirements.
LEMMA OrdinaryJobsAre ==
  ASSUME NEW r, IsRequest(r), parsed # None => IsParsed(parsed),
         OrdinaryJobs(r) # Rejected
  PROVE  /\ OrdinaryJobs(r) \in Seq(AllJobs)
         /\ ~r.cli => \A i \in 1..Len(OrdinaryJobs(r)) :
               LimitedOf(OrdinaryJobs(r)[i], r.doc)
<1> DEFINE specs == SpecsOf(r) + IF parsed = None THEN 0 ELSE parsed.specs
           channels == IF r.channels # {} THEN r.channels
                       ELSE IF parsed # None /\ parsed.channels # {} THEN parsed.channels
                       ELSE Defaults
           asked == IF Given(r.platforms) THEN r.platforms ELSE <<>>
           platforms == IF r.operation = "sbom" THEN Distinct(asked)
                        ELSE IF asked = <<>> THEN <<Native>>
                        ELSE asked
           jobs == [i \in 1..Len(platforms) |-> Job(specs, channels, platforms[i], None)]
<1>1. OrdinaryJobs(r) =
         IF \/ EnvironmentsOf(r) # None
            \/ r.operation = "sbom" /\ r.file = "ordinary-lock"
            \/ specs = 0
            \/ ~r.cli /\ ~WithinCaps(specs, channels, asked)
         THEN Rejected ELSE jobs
  BY Zenon DEF OrdinaryJobs
<1>2. specs \in Nat
  BY SpecsAreCounted DEF IsParsed
<1>3. channels \subseteq Channels
  BY LimitsAssumption DEF IsRequest, IsParsed
<1>4. asked \in Seq(Targets)
  BY EmptySeq DEF IsRequest, Given
<1> HIDE DEF specs, channels, asked, jobs
<1>5. /\ OrdinaryJobs(r) = jobs
      /\ ~r.cli => WithinCaps(specs, channels, asked)
  BY <1>1
<1>6. platforms \in Seq(Targets \cup KnownSubdirs) /\ ToSet(platforms) \subseteq ToSet(asked) \cup {Native}
  <2>1. Distinct(asked) \in Seq(Targets) /\ ToSet(Distinct(asked)) = ToSet(asked)
    BY <1>4, DistinctSeq
  <2>2. <<Native>> \in Seq(KnownSubdirs)
    BY LimitsAssumption
  <2>3. ToSet(<<Native>>) = {Native}
    BY ToSetOfOne
  <2>4. /\ Seq(Targets) \subseteq Seq(Targets \cup KnownSubdirs)
        /\ Seq(KnownSubdirs) \subseteq Seq(Targets \cup KnownSubdirs)
    BY SeqMonotonic
  <2> QED
    BY <1>4, <2>1, <2>2, <2>3, <2>4
<1> HIDE DEF platforms
<1>7. Len(platforms) \in Nat /\ \A i \in 1..Len(platforms) :
         platforms[i] \in Targets \cup KnownSubdirs /\ platforms[i] \in ToSet(platforms)
  BY <1>6, LenProperties, ElementOfSeq, ToSetOfSeq
<1>8. \A i \in 1..Len(platforms) :
         jobs[i] = [specs |-> specs, channels |-> channels, platform |-> platforms[i],
                    pair |-> None]
  BY DEF jobs, Job
<1>9. ASSUME NEW i \in 1..Len(platforms) PROVE jobs[i] \in AllJobs
  <2>1. PICK p : p = platforms[i] /\ p \in Targets \cup KnownSubdirs
    BY <1>7
  <2>2. jobs[i] = [specs |-> specs, channels |-> channels, platform |-> p, pair |-> None]
    BY <1>8, <2>1
  <2> QED
    BY <1>2, <1>3, <2>1, <2>2 DEF AllJobs
<1>10. jobs \in Seq(AllJobs) /\ Len(jobs) = Len(platforms)
  <2>1. jobs = [i \in 1..Len(platforms) |-> jobs[i]]
    BY DEF jobs
  <2> QED
    BY <1>7, <1>9, <2>1
<1>11. ASSUME ~r.cli, NEW i \in 1..Len(jobs) PROVE LimitedOf(jobs[i], r.doc)
  <2>1. platforms[i] \in KnownSubdirs
    BY <1>5, <1>6, <1>7, <1>10, <1>11, LimitsAssumption DEF WithinCaps
  <2>2. PICK p : p = platforms[i] /\ p \in KnownSubdirs
    BY <2>1
  <2>3. jobs[i] = [specs |-> specs, channels |-> channels, platform |-> p, pair |-> None]
    BY <1>8, <1>10, <2>2
  <2> QED
    BY <1>5, <1>11, <2>2, <2>3 DEF LimitedOf, Limited, WithinCaps, AreAllowed
<1> QED
  BY <1>5, <1>10, <1>11

\* The solves of any request.
LEMMA JobsAre ==
  ASSUME NEW r, IsRequest(r), parsed # None => IsParsed(parsed), Jobs(r) # Rejected
  PROVE  /\ Jobs(r) \in Seq(AllJobs)
         /\ r.file # "lock"
         /\ ~r.cli => \A i \in 1..Len(Jobs(r)) : LimitedOf(Jobs(r)[i], r.doc)
<1>1. CASE r.file = "manifest"
  BY <1>1, WorkspaceJobsAre DEF Jobs
<1>2. CASE r.file \notin {"manifest", "lock"}
  BY <1>2, OrdinaryJobsAre DEF Jobs
<1> QED
  BY <1>1, <1>2 DEF Jobs
-----------------------------------------------------------------------------
(* The inductive invariant.                                                 *)

\* What is known at every stage of a request.
StagesInv ==
    /\ stage \in {"received", "parsing", "parsed", "solving", "updating", "answered"}
    /\ stage \in {"received", "parsing"} => parsed = None
    /\ stage \in {"received", "parsing", "parsed"} => pending = <<>> /\ results = <<>>
    /\ stage # "answered" => answer = [status |-> None, body |-> None]
    /\ stage \notin {"received", "answered"} => Admits(request)
    /\ stage = "parsing" => request.file # "none"
    /\ stage \in {"parsed", "solving", "updating"} =>
          (parsed = None <=> request.file = "none")
    /\ stage = "solving" => request.operation \in {"resolve", "sbom"}
    /\ stage = "updating" => request.operation = "update"

\* What was parsed is what from_path makes of the request.
ParsedInv ==
    parsed # None =>
        /\ Admits(request) /\ request.file # "none"
        /\ parsed = FromPath(request) /\ parsed # Rejected

JobsOf(made) == [i \in DOMAIN made |-> made[i].job]

\* The solves that were made and those that are pending.
AllSolves == JobsOf(results) \o pending

\* They are those that the request asks for, in order.
Solves ==
    /\ request.operation \in {"resolve", "sbom"}
    /\ Jobs(request) # Rejected
    /\ AllSolves = Jobs(request)
    /\ Complete(request) => \A i \in DOMAIN results : results[i].solved

\* The solve of an update is that of its target.
UpdateSolve ==
    LET job == TargetJob(request.companion, parsed.target, ToSet(request.packages))
    IN /\ request.operation = "update" /\ parsed # None
       /\ pending = <<job>> /\ results = <<>>
       /\ ~request.cli => WithinCaps(job.specs, job.channels, <<job.platform>>)

SolvesInv ==
    /\ pending \in Seq(AllJobs)
    /\ results \in Seq([job : AllJobs, solved : BOOLEAN])
    /\ (pending = <<>> /\ results = <<>>) \/ Solves \/ UpdateSolve
    /\ stage = "solving" => Solves

\* The status that was sent, and that a failure sends nothing with it.
AnswerInv ==
    /\ answer.status \in {None, 0, 1, 2, 200, 400, 500, 504}
    /\ AnswersAreComplete
    /\ RefusalsAreExplained
    /\ UpdatesAreConsistent
    /\ ExitStatusTells

Inv ==
    /\ request \in Requests
    /\ StagesInv
    /\ ParsedInv
    /\ SolvesInv
    /\ AnswerInv

\* A solve that is made is no longer pending.
LEMMA SolveMoves ==
  ASSUME NEW S, NEW todo \in Seq(S), todo # <<>>,
         NEW made \in Seq([job : S, solved : BOOLEAN]),
         NEW one \in [job : S, solved : BOOLEAN], one.job = Head(todo)
  PROVE  /\ Append(made, one) \in Seq([job : S, solved : BOOLEAN])
         /\ Tail(todo) \in Seq(S)
         /\ JobsOf(Append(made, one)) \o Tail(todo) = JobsOf(made) \o todo
         /\ \A i \in DOMAIN Append(made, one) :
               Append(made, one)[i] = one
               \/ (i \in DOMAIN made /\ Append(made, one)[i] = made[i])
<1> DEFINE R == [job : S, solved : BOOLEAN]
           rest == Tail(todo)
<1>0. PICK more : more = Append(made, one)
  OBVIOUS
<1>1. Len(made) \in Nat /\ Len(todo) \in Nat /\ Len(todo) # 0 /\ DOMAIN made = 1..Len(made)
  BY LenProperties, EmptySeq
<1>2. Head(todo) \in S /\ Head(todo) = todo[1]
  BY <1>1, ElementOfSeq
<1>3. /\ rest \in Seq(S) /\ Len(rest) = Len(todo) - 1
      /\ \A i \in 1..Len(rest) : rest[i] = todo[i + 1]
  BY HeadTailProperties
<1>4. one \in R /\ one.job = todo[1]
  BY <1>2
<1>5. /\ more \in Seq(R) /\ Len(more) = Len(made) + 1
      /\ \A i \in 1..Len(made) : more[i] = made[i]
      /\ more[Len(made) + 1] = one
      /\ DOMAIN more = 1..(Len(made) + 1)
  <2>1. /\ Append(made, one) \in Seq(R) /\ Len(Append(made, one)) = Len(made) + 1
        /\ \A i \in 1..Len(made) : Append(made, one)[i] = made[i]
        /\ Append(made, one)[Len(made) + 1] = one
    BY <1>4, AppendProperties
  <2>2. DOMAIN more = 1..Len(more)
    BY <1>0, <2>1, LenProperties
  <2> QED
    BY <1>0, <2>1, <2>2
<1> HIDE DEF rest
<1>6. \A i \in 1..Len(made) : made[i].job \in S
  <2>1. \A i \in 1..Len(made) : made[i] \in R
    BY ElementOfSeq
  <2> QED
    BY <2>1
<1>7. /\ JobsOf(made) \in Seq(S) /\ Len(JobsOf(made)) = Len(made)
      /\ \A i \in 1..Len(made) : JobsOf(made)[i] = made[i].job
  BY <1>1, <1>6 DEF JobsOf
<1>8. /\ JobsOf(more) \in Seq(S) /\ Len(JobsOf(more)) = Len(made) + 1
      /\ \A i \in 1..(Len(made) + 1) : JobsOf(more)[i] = more[i].job
  <2>1. \A i \in 1..(Len(made) + 1) : more[i] \in R
    BY <1>5, ElementOfSeq
  <2>2. \A i \in 1..(Len(made) + 1) : more[i].job \in S
    BY <2>1
  <2> QED
    BY <1>1, <1>5, <2>2 DEF JobsOf
<1> HIDE DEF R
<1> DEFINE before == JobsOf(made) \o todo
           after == JobsOf(more) \o rest
<1>9. /\ before \in Seq(S) /\ Len(before) = Len(made) + Len(todo)
      /\ \A i \in 1..(Len(made) + Len(todo)) :
            before[i] = IF i <= Len(made) THEN JobsOf(made)[i] ELSE todo[i - Len(made)]
  <2>1. PICK s : s = JobsOf(made)
    OBVIOUS
  <2>2. s \in Seq(S) /\ Len(s) = Len(made)
    BY <1>7, <2>1
  <2>3. /\ s \o todo \in Seq(S) /\ Len(s \o todo) = Len(s) + Len(todo)
        /\ \A i \in 1..(Len(s) + Len(todo)) :
              (s \o todo)[i] = IF i <= Len(s) THEN s[i] ELSE todo[i - Len(s)]
    BY <2>2, ConcatProperties
  <2> QED
    BY <2>1, <2>2, <2>3
<1>10. /\ after \in Seq(S) /\ Len(after) = Len(made) + 1 + Len(rest)
       /\ \A i \in 1..(Len(made) + 1 + Len(rest)) :
             after[i] = IF i <= Len(made) + 1 THEN JobsOf(more)[i]
                        ELSE rest[i - (Len(made) + 1)]
  <2>1. PICK s : s = JobsOf(more)
    OBVIOUS
  <2>2. s \in Seq(S) /\ Len(s) = Len(made) + 1
    BY <1>8, <2>1
  <2>3. /\ s \o rest \in Seq(S) /\ Len(s \o rest) = Len(s) + Len(rest)
        /\ \A i \in 1..(Len(s) + Len(rest)) :
              (s \o rest)[i] = IF i <= Len(s) THEN s[i] ELSE rest[i - Len(s)]
    BY <1>3, <2>2, ConcatProperties
  <2> QED
    BY <2>1, <2>2, <2>3
<1> HIDE DEF before, after
<1>11. Len(after) = Len(before)
  BY <1>1, <1>3, <1>9, <1>10
<1>12. ASSUME NEW i \in 1..Len(after) PROVE after[i] = before[i]
  <2>0. Len(after) = Len(made) + Len(todo) /\ Len(made) + 1 + Len(rest) = Len(after)
    BY <1>1, <1>3, <1>10
  <2>1. CASE i <= Len(made)
    <3>1. i \in 1..Len(made) /\ i \in 1..(Len(made) + 1)
      BY <1>1, <2>1
    <3>2. after[i] = more[i].job /\ before[i] = made[i].job
      <4>1. after[i] = JobsOf(more)[i] /\ JobsOf(more)[i] = more[i].job
        BY <1>8, <1>10, <2>0, <3>1
      <4>2. before[i] = JobsOf(made)[i] /\ JobsOf(made)[i] = made[i].job
        BY <1>7, <1>9, <2>0, <2>1, <3>1
      <4> QED
        BY <4>1, <4>2
    <3> QED
      BY <1>5, <3>1, <3>2
  <2>2. CASE i = Len(made) + 1
    <3>1. i \in 1..(Len(made) + 1) /\ ~(i <= Len(made)) /\ i - Len(made) = 1
      BY <1>1, <2>2
    <3>2. after[i] = more[i].job /\ before[i] = todo[1]
      BY <1>1, <1>8, <1>9, <1>10, <2>0, <3>1
    <3> QED
      BY <1>4, <1>5, <2>2, <3>2
  <2>3. CASE i > Len(made) + 1
    <3>1. /\ ~(i <= Len(made)) /\ ~(i <= Len(made) + 1)
          /\ i - (Len(made) + 1) \in 1..Len(rest)
          /\ (i - (Len(made) + 1)) + 1 = i - Len(made)
      BY <1>1, <1>3, <2>0, <2>3
    <3>2. after[i] = rest[i - (Len(made) + 1)] /\ before[i] = todo[i - Len(made)]
      BY <1>9, <1>10, <2>0, <3>1
    <3> QED
      BY <1>3, <3>1, <3>2
  <2> QED
    BY <1>1, <2>0, <2>1, <2>2, <2>3
<1>13. after = before
  BY <1>9, <1>10, <1>11, <1>12, SeqEqual
<1>14. ASSUME NEW i \in DOMAIN more
       PROVE  more[i] = one \/ (i \in DOMAIN made /\ more[i] = made[i])
  <2>1. i \in 1..Len(made) \/ i = Len(made) + 1
    BY <1>1, <1>5
  <2> QED
    BY <1>1, <1>4, <1>5, <2>1
<1> QED
  BY <1>0, <1>3, <1>5, <1>13, <1>14 DEF R, rest, before, after

\* The status of every outcome.
LEMMA Statuses ==
  ASSUME NEW r, r.cli \in BOOLEAN
  PROVE  /\ Status(r, "ok") = IF r.cli THEN 0 ELSE 200
         /\ Status(r, "mismatch") = IF r.cli THEN 1 ELSE 200
         /\ Status(r, "refused") =
               IF r.cli THEN IF r.operation \in {"validate", "update"} THEN 2 ELSE 1
               ELSE 400
         /\ Status(r, "timeout") = IF r.cli THEN 1 ELSE 504
         /\ Status(r, "failed") = IF r.cli THEN 1 ELSE 500
BY DEF Status

\* What is refused for a reason that the code finds has one.
LEMMA RefusedForAReason ==
  ASSUME NEW r, IsRequest(r), r.file = "none" \/ parsed.content = None
  PROVE  Reasons(r) # {}
<1> DEFINE only == r.operation = "transcode"
           lock == r.file \in {"lock", "ordinary-lock"}
           pure == SpecsOf(r) = 0 /\ r.channels = {}
           Holds(reason) ==
              CASE reason = "no file"          -> r.file = "none"
                [] reason = "not a lockfile"   -> r.file # "none" /\ only /\ ~lock
                [] reason = "missing platforms" -> r.file = "ordinary-lock" /\ Missing(r) # {}
                [] reason = "input format"     ->
                      /\ r.file # "none" /\ parsed.content = None /\ r.format # None
                      /\ IF lock THEN /\ r.file = "ordinary-lock" => Missing(r) = {}
                                      /\ pure /\ (only => r.format \in Lockfiles)
                         ELSE ~only
                [] reason = "no output format" -> r.format = None
                [] reason = "output format"    ->
                      r.format # None /\ only /\ r.format \notin Lockfiles
                [] reason = "specs"            -> SpecsOf(r) > 0
                [] reason = "channels"         -> r.channels # {}
           all == {"no file", "not a lockfile", "missing platforms", "input format",
                   "no output format", "output format", "specs", "channels"}
<1>1. Reasons(r) = {reason \in all : Holds(reason)}
  BY Zenon DEF Reasons
<1>2. SpecsOf(r) > 0 \/ SpecsOf(r) = 0
  <2>1. SpecsOf(r) \in Nat
    BY SpecsAreCounted
  <2> QED
    BY <2>1
<1>3. /\ Holds("no file") <=> r.file = "none"
      /\ Holds("not a lockfile") <=> r.file # "none" /\ only /\ ~lock
      /\ Holds("missing platforms") <=> r.file = "ordinary-lock" /\ Missing(r) # {}
      /\ Holds("no output format") <=> r.format = None
      /\ Holds("output format") <=> r.format # None /\ only /\ r.format \notin Lockfiles
      /\ Holds("specs") <=> SpecsOf(r) > 0
      /\ Holds("channels") <=> r.channels # {}
  OBVIOUS
<1>4. Holds("input format") <=>
         /\ r.file # "none" /\ parsed.content = None /\ r.format # None
         /\ IF lock THEN /\ r.file = "ordinary-lock" => Missing(r) = {}
                         /\ pure /\ (only => r.format \in Lockfiles)
            ELSE ~only
  OBVIOUS
<1> HIDE DEF Holds
<1>5. \/ Holds("no file") \/ Holds("not a lockfile") \/ Holds("missing platforms")
      \/ Holds("input format") \/ Holds("no output format") \/ Holds("output format")
      \/ Holds("specs") \/ Holds("channels")
  <2> SUFFICES ASSUME ~Holds("no file"), ~Holds("not a lockfile"),
                      ~Holds("missing platforms"), ~Holds("no output format"),
                      ~Holds("output format"), ~Holds("specs"), ~Holds("channels")
               PROVE  Holds("input format")
    OBVIOUS
  <2>1. r.file # "none" /\ parsed.content = None /\ r.format # None
    BY <1>3
  <2>2. r.channels = {} /\ ~(SpecsOf(r) > 0)
    BY <1>3
  <2>3. pure
    BY <1>2, <2>2
  <2>4. only => lock /\ r.format \in Lockfiles
    BY <1>3, <2>1
  <2>5. r.file = "ordinary-lock" => Missing(r) = {}
    BY <1>3
  <2> HIDE DEF pure, only, lock
  <2> QED
    BY <1>4, <2>1, <2>3, <2>4, <2>5
<1> QED
  BY <1>1, <1>5

\* The invariant holds at first.
LEMMA InvInit ==
  ASSUME Init
  PROVE  Inv
<1>1. <<>> \in Seq(AllJobs) /\ <<>> \in Seq([job : AllJobs, solved : BOOLEAN])
  BY EmptySeq
<1>2. StagesInv
  BY DEF Init, StagesInv
<1>3. ParsedInv /\ SolvesInv
  BY <1>1 DEF Init, ParsedInv, SolvesInv
<1>4. answer.status = None /\ stage # "answered"
  BY DEF Init
<1>5. AnswerInv
  BY <1>4, NoneAssumption DEF AnswerInv, AnswersAreComplete, RefusalsAreExplained,
     UpdatesAreConsistent, ExitStatusTells
<1> QED
  BY <1>2, <1>3, <1>5 DEF Init, Inv

\* What was parsed has its type.
LEMMA ParsedHasType ==
  ASSUME Inv
  PROVE  /\ IsRequest(request)
         /\ parsed # None => IsParsed(parsed)
BY RequestsAssumption, FileParsed DEF Inv, ParsedInv

\* Every step keeps it.
LEMMA InvNext ==
  ASSUME Inv, [Next]_vars
  PROVE  Inv'
<1> DEFINE blank == [status |-> None, body |-> None]
           solveless == request.operation \notin {"validate", "update"}
<1>1. /\ IsRequest(request)
      /\ request.cli \in BOOLEAN
      /\ request.operation \in {"resolve", "export", "transcode", "parse", "sbom",
                                "validate", "update"}
      /\ parsed # None => IsParsed(parsed)
  BY ParsedHasType DEF IsRequest
<1>2. ASSUME request' = request, stage' # "answered", answer' = blank PROVE AnswerInv'
  <2>1. answer'.status = None
    BY <1>2
  <2> QED
    BY <1>2, <2>1, NoneAssumption DEF AnswerInv, AnswersAreComplete,
       RefusalsAreExplained, UpdatesAreConsistent, ExitStatusTells
<1>3. ASSUME NEW outcome \in {"refused", "timeout", "failed"}, request' = request,
             Answer(outcome, None),
             request.cli /\ request.operation = "validate" => outcome = "refused",
             request.cli /\ request.operation = "update" =>
                (outcome = "refused" <=> parsed' = None),
             \/ request.operation \notin {"export", "transcode"} \/ ~Admits(request)
             \/ parsed' = None /\ request.file # "none"
             \/ parsed' # None /\ ~ExportWithinCaps(request)'
      PROVE  AnswerInv'
  <2>1. /\ stage' = "answered" /\ answer'.body = None
        /\ answer'.status = Status(request, outcome)
    BY <1>3 DEF Answer
  <2>2. /\ answer'.status \in {1, 2, 400, 500, 504}
        /\ request.cli => answer'.status =
              IF outcome = "refused" /\ ~solveless THEN 2 ELSE 1
    BY <1>1, <2>1, Statuses
  <2>3. answer'.status \notin {0, 200}
    BY <2>2
  <2>4. RefusalsAreExplained'
    BY <1>3 DEF RefusalsAreExplained
  <2>5. ExitStatusTells'
    <3>1. ASSUME request.cli, request.operation = "validate"
          PROVE  answer'.status = 2
      BY <1>3, <2>2, <3>1
    <3>2. ASSUME request.cli, request.operation = "update"
          PROVE  answer'.status = 1 <=> parsed' # None
      BY <1>3, <2>2, <3>2
    <3> HIDE DEF solveless
    <3> QED
      BY <1>3, <2>1, <3>1, <3>2, NoneAssumption DEF ExitStatusTells
  <2>6. AnswersAreComplete' /\ UpdatesAreConsistent'
    BY <2>3 DEF AnswersAreComplete, UpdatesAreConsistent
  <2>7. answer'.status \in {None, 0, 1, 2, 200, 400, 500, 504}
    BY <2>2
  <2> QED
    BY <2>4, <2>5, <2>6, <2>7 DEF AnswerInv
<1>4. ASSUME NEW body, request' = request, Answer("ok", body), solveless,
             request.operation = "resolve" \/ (request.operation = "sbom" /\ ~LockedSbom(request))
                => Transcodes(request)
      PROVE  AnswerInv'
  <2>1. answer'.status = Status(request, "ok")
    BY <1>4 DEF Answer
  <2>2. answer'.status \in {0, 200}
    BY <1>1, <2>1, Statuses
  <2>3. answer'.status \notin {1, 400}
    BY <2>2
  <2>4. AnswersAreComplete'
    BY <1>4 DEF AnswersAreComplete
  <2>5. UpdatesAreConsistent' /\ ExitStatusTells'
    BY <1>4 DEF UpdatesAreConsistent, ExitStatusTells
  <2>6. RefusalsAreExplained'
    BY <2>3 DEF RefusalsAreExplained
  <2> QED
    BY <2>2, <2>4, <2>5, <2>6 DEF AnswerInv
<1>5. request' = request /\ parsed' = parsed => ParsedInv'
  BY DEF Inv, ParsedInv
<1>6. request' = request /\ parsed' = parsed => Jobs(request)' = Jobs(request)
  BY DEF Jobs, OrdinaryJobs
<1>7. ASSUME request' = request, parsed' = parsed, pending' = pending, results' = results,
             stage' = "solving" => stage = "solving"
      PROVE  SolvesInv'
  <2>1. Solves => Solves'
    BY <1>6, <1>7 DEF Solves, AllSolves, JobsOf
  <2>2. UpdateSolve => UpdateSolve'
    BY <1>7 DEF UpdateSolve
  <2> QED
    BY <1>7, <2>1, <2>2 DEF Inv, SolvesInv
<1>8. ASSUME pending' = <<>>, results' = <<>>, stage' # "solving" PROVE SolvesInv'
  BY <1>8, EmptySeq DEF SolvesInv
<1>9. CASE UNCHANGED vars
  <2>1. /\ request' = request /\ stage' = stage /\ parsed' = parsed
        /\ pending' = pending /\ results' = results /\ answer' = answer
    BY <1>9 DEF vars
  <2>2. SolvesInv' /\ ParsedInv'
    BY <1>5, <1>7, <2>1
  <2>3. StagesInv'
    BY <2>1 DEF Inv, StagesInv
  <2>4. AnswersAreComplete'
    BY <1>6, <2>1 DEF Inv, AnswerInv, AnswersAreComplete
  <2>5. /\ ExportWithinCaps(request)' <=> ExportWithinCaps(request)
        /\ Reasons(request)' = Reasons(request)
    BY <2>1 DEF ExportWithinCaps, Reasons
  <2>6. RefusalsAreExplained'
    BY <2>1, <2>5 DEF Inv, AnswerInv, RefusalsAreExplained
  <2>7. AnswerInv'
    BY <2>1, <2>4, <2>6 DEF Inv, AnswerInv, UpdatesAreConsistent, ExitStatusTells
  <2> QED
    BY <2>1, <2>2, <2>3, <2>7 DEF Inv
<1>10. CASE Receive
  <2>1. /\ stage = "received" /\ request' = request /\ parsed' = parsed /\ parsed = None
        /\ pending' = <<>> /\ results' = <<>> /\ answer = blank
    BY <1>10 DEF Receive, Inv, StagesInv
  <2>2. CASE ~Admits(request)
    <3>1. Answer("refused", None)
      BY <1>10, <2>2 DEF Receive
    <3>2. stage' = "answered"
      BY <3>1 DEF Answer
    <3>3. StagesInv'
      BY <2>1, <3>2 DEF StagesInv
    <3>4. AnswerInv'
      BY <1>3, <2>1, <2>2, <3>1
    <3> QED
      BY <1>5, <1>8, <2>1, <3>2, <3>3, <3>4 DEF Inv
  <2>3. CASE Admits(request)
    <3>1. /\ stage' = IF request.file = "none" THEN "parsed" ELSE "parsing"
          /\ answer' = blank
      BY <1>10, <2>1, <2>3 DEF Receive
    <3>2. StagesInv'
      BY <2>1, <2>3, <3>1 DEF StagesInv
    <3>3. AnswerInv' /\ SolvesInv'
      BY <1>2, <1>8, <2>1, <3>1
    <3> QED
      BY <1>5, <2>1, <3>2, <3>3 DEF Inv
  <2> QED
    BY <2>2, <2>3
<1>11. CASE Parse
  <2>1. /\ stage = "parsing" /\ request' = request /\ parsed = None
        /\ pending' = <<>> /\ results' = <<>> /\ answer = blank
        /\ Admits(request) /\ request.file # "none"
    BY <1>11 DEF Parse, Inv, StagesInv
  <2>2. CASE FromPath(request) = Rejected
    <3>1. Answer("refused", None) /\ parsed' = parsed
      BY <1>11, <2>2 DEF Parse
    <3>2. stage' = "answered"
      BY <3>1 DEF Answer
    <3>3. StagesInv'
      BY <2>1, <3>2 DEF StagesInv
    <3>4. AnswerInv'
      BY <1>3, <2>1, <3>1
    <3> QED
      BY <1>5, <1>8, <2>1, <3>1, <3>2, <3>3, <3>4 DEF Inv
  <2>3. CASE FromPath(request) # Rejected
    <3>1. stage' = "parsed" /\ parsed' = FromPath(request) /\ answer' = blank
      BY <1>11, <2>1, <2>3 DEF Parse
    <3>2. parsed' # None
      BY <2>1, <3>1, ParsedAssumption DEF Inv
    <3>3. StagesInv'
      BY <2>1, <3>1, <3>2 DEF StagesInv
    <3>4. ParsedInv'
      BY <2>1, <2>3, <3>1 DEF ParsedInv
    <3>5. AnswerInv' /\ SolvesInv'
      BY <1>2, <1>8, <2>1, <3>1
    <3> QED
      BY <2>1, <3>3, <3>4, <3>5 DEF Inv
  <2> QED
    BY <2>2, <2>3
<1>12. CASE ParseFails
  <2>1. /\ stage = "parsing" /\ request' = request /\ parsed' = parsed /\ parsed = None
        /\ pending' = <<>> /\ results' = <<>> /\ request.file # "none"
    BY <1>12 DEF ParseFails, Inv, StagesInv
  <2>2. PICK outcome \in {"refused", "timeout", "failed"} :
           /\ Answer(outcome, None)
           /\ request.cli => outcome = "refused"
    BY <1>12 DEF ParseFails
  <2>3. stage' = "answered"
    BY <2>2 DEF Answer
  <2>4. StagesInv'
    BY <2>1, <2>3 DEF StagesInv
  <2>5. AnswerInv'
    BY <1>3, <2>1, <2>2
  <2> QED
    BY <1>5, <1>8, <2>1, <2>3, <2>4, <2>5 DEF Inv
<1>13. CASE AnswerExport
  <2>1. /\ stage = "parsed" /\ request' = request /\ parsed' = parsed
        /\ pending' = <<>> /\ results' = <<>>
        /\ parsed = None <=> request.file = "none"
        /\ request.operation \in {"export", "transcode"}
    BY <1>13 DEF AnswerExport, Inv, StagesInv
  <2>2. \/ parsed # None /\ ~ExportWithinCaps(request) /\ Answer("refused", None)
        \/ \E body : Answer("ok", body)
        \/ /\ parsed = None \/ parsed.content = None
           /\ \E body : /\ ~request.cli => body = Reasons(request)
                        /\ Answer("refused", body)
    BY <1>13 DEF AnswerExport
  <2>3. stage' = "answered"
    BY <2>2 DEF Answer
  <2>4. StagesInv'
    BY <2>1, <2>3 DEF StagesInv
  <2>5. ASSUME parsed # None, ~ExportWithinCaps(request), Answer("refused", None)
        PROVE  AnswerInv'
    <3>1. parsed' # None /\ ~ExportWithinCaps(request)'
      BY <2>1, <2>5 DEF ExportWithinCaps
    <3> QED
      BY <1>3, <2>1, <2>5, <3>1
  <2>6. ASSUME \E body : Answer("ok", body) PROVE AnswerInv'
    BY <1>4, <2>1, <2>6
  <2>7. ASSUME parsed = None \/ parsed.content = None, NEW body,
               ~request.cli => body = Reasons(request), Answer("refused", body)
        PROVE  AnswerInv'
    <3>1. answer'.body = body /\ answer'.status = Status(request, "refused")
      BY <2>7 DEF Answer
    <3>2. /\ answer'.status \in {1, 2, 400}
          /\ answer'.status = 400 => ~request.cli
      BY <1>1, <3>1, Statuses
    <3>3. AnswersAreComplete' /\ UpdatesAreConsistent' /\ ExitStatusTells'
      BY <2>1 DEF AnswersAreComplete, UpdatesAreConsistent, ExitStatusTells
    <3>4. Reasons(request) # {}
      BY <1>1, <2>1, <2>7, RefusedForAReason
    <3>5. Reasons(request)' = Reasons(request)
      BY <2>1 DEF Reasons
    <3>6. RefusalsAreExplained'
      BY <2>1, <2>7, <3>1, <3>2, <3>4, <3>5 DEF RefusalsAreExplained
    <3> QED
      BY <3>2, <3>3, <3>6 DEF AnswerInv
  <2>8. AnswerInv'
    BY <2>2, <2>5, <2>6, <2>7
  <2> QED
    BY <1>5, <1>8, <2>1, <2>3, <2>4, <2>8 DEF Inv
<1>14. CASE AnswerLockedSbom \/ AnswerParse
  <2>1. /\ stage = "parsed" /\ request' = request /\ parsed' = parsed
        /\ pending' = <<>> /\ results' = <<>>
        /\ \/ request.operation = "sbom" /\ LockedSbom(request)
           \/ request.operation = "parse"
        /\ Answer("refused", None) \/ \E body : Answer("ok", body)
    BY <1>14 DEF AnswerLockedSbom, AnswerParse, LockedSbom, Inv, StagesInv
  <2>2. stage' = "answered"
    BY <2>1 DEF Answer
  <2>3. StagesInv'
    BY <2>1, <2>2 DEF StagesInv
  <2>4. ASSUME Answer("refused", None) PROVE AnswerInv'
    BY <1>3, <2>1, <2>4
  <2>5. ASSUME \E body : Answer("ok", body) PROVE AnswerInv'
    BY <1>4, <2>1, <2>5
  <2>6. AnswerInv'
    BY <2>1, <2>4, <2>5
  <2> QED
    BY <1>5, <1>8, <2>1, <2>2, <2>3, <2>6 DEF Inv
<1>15. CASE AnswerValidate
  <2>1. /\ stage = "parsed" /\ request' = request /\ parsed' = parsed
        /\ pending' = <<>> /\ results' = <<>>
        /\ request.operation = "validate" /\ Admits(request)
        /\ Answer(IF parsed.mismatches = {} THEN "ok" ELSE "mismatch", parsed.mismatches)
    BY <1>15 DEF AnswerValidate, Inv, StagesInv
  <2>2. stage' = "answered"
    BY <2>1 DEF Answer
  <2>3. StagesInv'
    BY <2>1, <2>2 DEF StagesInv
  <2>4. request.file # "none"
    BY <1>1, <2>1, WholeWorkspace
  <2>5. parsed # None
    BY <2>1, <2>4 DEF Inv, StagesInv
  <2>6. parsed.mismatches # None
    BY <2>1, <2>4, <2>5, ParsedAssumption DEF Inv, ParsedInv
  <2>7. /\ answer'.body = parsed.mismatches
        /\ answer'.status = IF parsed.mismatches = {} THEN Status(request, "ok")
                            ELSE Status(request, "mismatch")
    BY <2>1 DEF Answer
  <2>8. /\ answer'.status \in {0, 1, 200}
        /\ request.cli => answer'.status = IF parsed.mismatches = {} THEN 0 ELSE 1
    BY <1>1, <2>7, Statuses
  <2>9. AnswersAreComplete' /\ UpdatesAreConsistent' /\ RefusalsAreExplained'
    BY <2>1 DEF AnswersAreComplete, UpdatesAreConsistent, RefusalsAreExplained
  <2>10. ExitStatusTells'
    BY <2>1, <2>6, <2>7, <2>8, NoneAssumption DEF ExitStatusTells
  <2>11. AnswerInv'
    BY <2>8, <2>9, <2>10 DEF AnswerInv
  <2> QED
    BY <1>5, <1>8, <2>1, <2>2, <2>3, <2>11 DEF Inv
<1>16. CASE Decide
  <2>1. /\ stage = "parsed" /\ request' = request /\ parsed' = parsed
        /\ pending = <<>> /\ results' = <<>> /\ answer = blank /\ Admits(request)
        /\ parsed = None <=> request.file = "none"
        /\ request.operation = "resolve"
           \/ (request.operation = "sbom" /\ ~LockedSbom(request))
    BY <1>16 DEF Decide, Inv, StagesInv
  <2>2. CASE parsed # None /\ Transcodes(request)
    <3>1. Answer("ok", request.platforms) /\ pending' = <<>>
      BY <1>16, <2>1, <2>2 DEF Decide
    <3>2. stage' = "answered"
      BY <3>1 DEF Answer
    <3>3. StagesInv'
      BY <2>1, <3>2 DEF StagesInv
    <3>4. AnswerInv'
      BY <1>4, <2>1, <2>2, <3>1
    <3> QED
      BY <1>5, <1>8, <2>1, <3>1, <3>2, <3>3, <3>4 DEF Inv
  <2>3. CASE ~(parsed # None /\ Transcodes(request)) /\ Jobs(request) = Rejected
    <3>1. Answer("refused", None) /\ pending' = <<>>
      BY <1>16, <2>1, <2>3 DEF Decide
    <3>2. stage' = "answered"
      BY <3>1 DEF Answer
    <3>3. StagesInv'
      BY <2>1, <3>2 DEF StagesInv
    <3>4. AnswerInv'
      BY <1>3, <2>1, <3>1
    <3> QED
      BY <1>5, <1>8, <2>1, <3>1, <3>2, <3>3, <3>4 DEF Inv
  <2>4. CASE ~(parsed # None /\ Transcodes(request)) /\ Jobs(request) # Rejected
    <3>1. stage' = "solving" /\ pending' = Jobs(request) /\ answer' = blank
      BY <1>16, <2>1, <2>4 DEF Decide
    <3>2. StagesInv'
      BY <2>1, <3>1 DEF StagesInv
    <3>3. AnswerInv'
      BY <1>2, <2>1, <3>1
    <3>4. Jobs(request) \in Seq(AllJobs)
      BY <1>1, <2>4, JobsAre
    <3>5. JobsOf(<<>>) = <<>>
      <4>1. JobsOf(<<>>) \in Seq(AllJobs) /\ Len(JobsOf(<<>>)) = 0
        BY DEF JobsOf
      <4> QED
        BY <4>1, EmptySeq
    <3>6. AllSolves' = Jobs(request)
      BY <2>1, <3>1, <3>4, <3>5, ConcatEmptySeq DEF AllSolves
    <3>7. DOMAIN results' = {}
      BY <2>1
    <3>8. Solves'
      BY <1>6, <2>1, <2>4, <3>6, <3>7 DEF Solves
    <3>9. SolvesInv'
      BY <2>1, <3>1, <3>4, <3>8, EmptySeq DEF SolvesInv
    <3> QED
      BY <1>5, <2>1, <3>2, <3>3, <3>9 DEF Inv
  <2> QED
    BY <2>2, <2>3, <2>4
<1>17. CASE DecideUpdate
  <2> DEFINE job == TargetJob(request.companion, parsed.target, ToSet(request.packages))
  <2>1. /\ stage = "parsed" /\ request' = request /\ parsed' = parsed
        /\ pending = <<>> /\ results' = <<>> /\ answer = blank
        /\ request.operation = "update" /\ Admits(request)
        /\ parsed = None <=> request.file = "none"
    BY <1>17 DEF DecideUpdate, Inv, StagesInv
  <2>2. parsed # None
    BY <1>1, <2>1, WholeWorkspace
  <2>3. parsed = FromPath(request) /\ parsed # Rejected
    BY <2>2 DEF Inv, ParsedInv
  <2>4. CASE ~request.cli /\ ~WithinCaps(job.specs, job.channels, <<job.platform>>)
    <3>1. Answer("refused", None) /\ pending' = <<>>
      BY <1>17, <2>1, <2>4 DEF DecideUpdate
    <3>2. stage' = "answered"
      BY <3>1 DEF Answer
    <3>3. StagesInv'
      BY <2>1, <3>2 DEF StagesInv
    <3>4. AnswerInv'
      BY <1>3, <2>1, <2>4, <3>1
    <3> QED
      BY <1>5, <1>8, <2>1, <3>1, <3>2, <3>3, <3>4 DEF Inv
  <2>5. CASE ~(~request.cli /\ ~WithinCaps(job.specs, job.channels, <<job.platform>>))
    <3>1. stage' = "updating" /\ pending' = <<job>> /\ answer' = blank
      BY <1>17, <2>1, <2>5 DEF DecideUpdate
    <3>2. StagesInv'
      BY <2>1, <3>1 DEF StagesInv
    <3>3. AnswerInv'
      BY <1>2, <2>1, <3>1
    <3>4. job \in AllJobs
      <4>1. request.file = "lock"
        BY <1>1, <2>1, <2>2, <2>3, OnlyLocksAreWhole
      <4>2. /\ parsed.target = Pair(request)
            /\ Pair(request)[1] \in ToSet(request.companion.names)
            /\ request.companion.subdir[Pair(request)[2]] \in KnownSubdirs
            /\ ToSet(request.packages) \subseteq
                  Dependencies(request.companion, Pair(request))
        BY <1>1, <2>1, <2>3, <4>1, LockParsed
      <4>3. Pair(request) \in Pairs /\ IsDocument(request.companion)
        BY <1>1, <2>1, WholeWorkspace
      <4> QED
        BY <4>2, <4>3, TargetJobs
    <3>5. UpdateSolve'
      BY <2>1, <2>2, <2>5, <3>1 DEF UpdateSolve
    <3> HIDE DEF job
    <3>6. pending' \in Seq(AllJobs)
      BY <3>1, <3>4
    <3>7. SolvesInv'
      BY <2>1, <3>1, <3>5, <3>6, EmptySeq DEF SolvesInv
    <3> QED
      BY <1>5, <2>1, <3>2, <3>3, <3>7 DEF Inv
  <2> QED
    BY <2>4, <2>5
<1>18. CASE SolveNext
  <2>1. /\ stage = "solving" /\ pending # <<>> /\ request' = request /\ parsed' = parsed
        /\ answer = blank /\ Solves
        /\ request.operation \in {"resolve", "sbom"}
    BY <1>18 DEF SolveNext, Inv, StagesInv, SolvesInv
  <2>2. PICK solved \in BOOLEAN :
           IF ~solved /\ Complete(request)
           THEN Answer("failed", None) /\ pending' = pending /\ results' = results
           ELSE /\ pending' = Tail(pending)
                /\ results' = Append(results, [job |-> Head(pending), solved |-> solved])
                /\ stage' = stage /\ answer' = answer
    BY <1>18 DEF SolveNext
  <2>3. CASE ~solved /\ Complete(request)
    <3>1. Answer("failed", None) /\ pending' = pending /\ results' = results
      BY <2>2, <2>3
    <3>2. stage' = "answered"
      BY <3>1 DEF Answer
    <3>3. StagesInv'
      BY <2>1, <3>2 DEF StagesInv
    <3>4. AnswerInv'
      BY <1>3, <2>1, <3>1
    <3>5. SolvesInv'
      BY <1>7, <2>1, <3>1, <3>2
    <3> QED
      BY <1>5, <2>1, <3>3, <3>4, <3>5 DEF Inv
  <2>4. CASE solved \/ ~Complete(request)
    <3>1. /\ pending' = Tail(pending)
          /\ results' = Append(results, [job |-> Head(pending), solved |-> solved])
          /\ stage' = "solving" /\ answer' = blank
      BY <2>1, <2>2, <2>4
    <3>2. StagesInv'
      BY <2>1, <3>1 DEF Inv, StagesInv
    <3>3. AnswerInv'
      BY <1>2, <2>1, <3>1
    <3>4. PICK one : one = [job |-> Head(pending), solved |-> solved]
      OBVIOUS
    <3>5. /\ pending \in Seq(AllJobs)
          /\ results \in Seq([job : AllJobs, solved : BOOLEAN])
          /\ one \in [job : AllJobs, solved : BOOLEAN]
          /\ one.job = Head(pending) /\ one.solved = solved
      <4>1. /\ pending \in Seq(AllJobs)
            /\ results \in Seq([job : AllJobs, solved : BOOLEAN])
        BY DEF Inv, SolvesInv
      <4>2. Head(pending) \in AllJobs
        BY <2>1, <4>1, HeadTailProperties
      <4> QED
        BY <3>4, <4>1, <4>2
    <3>6. PICK more : more = Append(results, one)
      OBVIOUS
    <3>7. /\ more \in Seq([job : AllJobs, solved : BOOLEAN])
          /\ Tail(pending) \in Seq(AllJobs)
          /\ JobsOf(more) \o Tail(pending) = JobsOf(results) \o pending
          /\ \A i \in DOMAIN more : more[i] = one
                                    \/ (i \in DOMAIN results /\ more[i] = results[i])
      BY <2>1, <3>5, <3>6, SolveMoves
    <3>8. results' = more
      BY <3>1, <3>4, <3>6
    <3>9. AllSolves' = AllSolves
      BY <3>1, <3>7, <3>8 DEF AllSolves, JobsOf
    <3>10. Complete(request) => \A i \in DOMAIN results' : results'[i].solved
      BY <2>1, <2>4, <3>5, <3>7, <3>8 DEF Solves
    <3>11. Solves'
      BY <1>6, <2>1, <3>9, <3>10 DEF Solves
    <3>12. SolvesInv'
      BY <3>1, <3>7, <3>8, <3>11 DEF SolvesInv
    <3> QED
      BY <1>5, <2>1, <3>2, <3>3, <3>12 DEF Inv
  <2> QED
    BY <2>3, <2>4
<1>19. CASE AnswerSolve
  <2>1. /\ stage = "solving" /\ pending = <<>> /\ request' = request /\ parsed' = parsed
        /\ pending' = pending /\ results' = results /\ Solves
        /\ request.operation \in {"resolve", "sbom"}
        /\ Answer("ok", results)
    BY <1>19 DEF AnswerSolve, Inv, StagesInv, SolvesInv
  <2>2. stage' = "answered" /\ answer'.status = Status(request, "ok")
    BY <2>1 DEF Answer
  <2>3. StagesInv'
    BY <2>1, <2>2 DEF StagesInv
  <2>4. JobsOf(results) = Jobs(request)
    <3>1. JobsOf(results) \in Seq(AllJobs)
      <4>1. /\ results \in Seq([job : AllJobs, solved : BOOLEAN])
            /\ DOMAIN results = 1..Len(results) /\ Len(results) \in Nat
        BY LenProperties DEF Inv, SolvesInv
      <4>2. \A i \in 1..Len(results) : results[i] \in [job : AllJobs, solved : BOOLEAN]
        BY <4>1, ElementOfSeq
      <4>3. \A i \in 1..Len(results) : results[i].job \in AllJobs
        BY <4>2
      <4> QED
        BY <4>1, <4>3 DEF JobsOf
    <3>2. JobsOf(results) \o <<>> = JobsOf(results)
      BY <3>1, ConcatEmptySeq
    <3> QED
      BY <2>1, <3>2 DEF Solves, AllSolves
  <2>5. AnswersAreComplete'
    BY <1>6, <2>1, <2>4 DEF AnswersAreComplete, Solves, JobsOf
  <2>6. answer'.status \in {0, 200}
    BY <1>1, <2>2, Statuses
  <2>7. RefusalsAreExplained' /\ UpdatesAreConsistent' /\ ExitStatusTells'
    BY <2>1 DEF RefusalsAreExplained, UpdatesAreConsistent, ExitStatusTells
  <2>8. AnswerInv'
    BY <2>5, <2>6, <2>7 DEF AnswerInv
  <2>9. SolvesInv'
    BY <1>7, <2>1, <2>2
  <2> QED
    BY <1>5, <2>1, <2>3, <2>8, <2>9 DEF Inv
<1>20. CASE Update
  <2>1. /\ stage = "updating" /\ request' = request /\ parsed' = parsed
        /\ pending' = pending /\ results' = results
        /\ request.operation = "update" /\ Admits(request)
        /\ parsed = None <=> request.file = "none"
    BY <1>20 DEF Update, Inv, StagesInv
  <2>2. parsed # None
    BY <1>1, <2>1, WholeWorkspace
  <2>3. PICK updated : IF CheckConsistency(updated, request.companion) = {}
                       THEN Answer("ok", updated) ELSE Answer("failed", None)
    BY <1>20 DEF Update
  <2>4. stage' = "answered"
    BY <2>3 DEF Answer
  <2>5. StagesInv'
    BY <2>1, <2>4 DEF StagesInv
  <2>6. ASSUME Answer("failed", None) PROVE AnswerInv'
    BY <1>3, <2>1, <2>2, <2>6
  <2>7. ASSUME CheckConsistency(updated, request.companion) = {} /\ Answer("ok", updated)
        PROVE  AnswerInv'
    <3>1. answer'.status = Status(request, "ok") /\ answer'.body = updated
      BY <2>7 DEF Answer
    <3>2. answer'.status \in {0, 200} /\ (request.cli => answer'.status = 0)
      BY <1>1, <3>1, Statuses
    <3>3. parsed = FromPath(request) /\ parsed # Rejected
      BY <2>2 DEF Inv, ParsedInv
    <3>4. request.file = "lock"
      BY <1>1, <2>1, <2>2, <3>3, OnlyLocksAreWhole
    <3>5. parsed.target = Pair(request)
          /\ CheckConsistency(request.doc, request.companion) = {}
      BY <1>1, <2>1, <3>3, <3>4, LockParsed
    <3>6. UpdatesAreConsistent'
      BY <2>1, <2>7, <3>1, <3>5 DEF UpdatesAreConsistent
    <3>7. AnswersAreComplete' /\ RefusalsAreExplained'
      BY <2>1 DEF AnswersAreComplete, RefusalsAreExplained
    <3>8. ExitStatusTells'
      BY <2>1, <3>2 DEF ExitStatusTells
    <3> QED
      BY <3>2, <3>6, <3>7, <3>8 DEF AnswerInv
  <2>8. AnswerInv'
    BY <2>3, <2>6, <2>7
  <2>9. SolvesInv'
    BY <1>7, <2>1, <2>4
  <2> QED
    BY <1>5, <2>1, <2>5, <2>8, <2>9 DEF Inv
<1>21. CASE SolveFails
  <2>1. /\ stage \in {"solving", "updating"} /\ request' = request /\ parsed' = parsed
        /\ pending' = pending /\ results' = results
        /\ stage = "solving" => request.operation \in {"resolve", "sbom"}
        /\ stage = "updating" => request.operation = "update"
        /\ Admits(request)
        /\ parsed = None <=> request.file = "none"
    BY <1>21 DEF SolveFails, Inv, StagesInv
  <2>2. PICK outcome \in {"timeout", "failed"} : Answer(outcome, None)
    BY <1>21 DEF SolveFails
  <2>3. stage' = "answered"
    BY <2>2 DEF Answer
  <2>4. StagesInv'
    BY <2>1, <2>3 DEF StagesInv
  <2>5. request.operation = "update" => parsed # None
    BY <1>1, <2>1, WholeWorkspace
  <2>6. AnswerInv'
    BY <1>3, <2>1, <2>2, <2>5
  <2>7. SolvesInv'
    BY <1>7, <2>1, <2>3
  <2> QED
    BY <1>5, <2>1, <2>4, <2>6, <2>7 DEF Inv
<1>22. CASE Answered
  BY <1>9, <1>22 DEF Answered
<1> QED
  BY <1>9, <1>10, <1>11, <1>12, <1>13, <1>14, <1>15, <1>16, <1>17, <1>18, <1>19, <1>20,
     <1>21, <1>22 DEF Next

-----------------------------------------------------------------------------
(* What the invariant implies.                                              *)

\* Every variable has its type.
LEMMA InvTypeOK ==
  ASSUME Inv
  PROVE  TypeOK
BY ParsedHasType DEF Inv, StagesInv, SolvesInv, AnswerInv, TypeOK

\* The selection of a file holds the targets that its selectors mean.
LEMMA InvSelectionIsExact ==
  ASSUME Inv
  PROVE  SelectionIsExact
<1> DEFINE doc == request.doc
           given == EnvironmentsOf(request)
           platforms == PlatformsOf(request)
           selected == parsed.selected
           means(n, a) == {t \in DOMAIN doc.subdir : Denotes(doc, n, a, t)}
           Goal(names, asked) ==
              /\ ToSet(selected) =
                   UNION {{<<n, t>> : t \in UNION {means(n, a) : a \in asked}} : n \in names}
              /\ Cardinality(ToSet(selected)) = Len(selected)
              /\ Len(selected) <= MaxTargets
              /\ \A n \in names, a \in asked : Cardinality(means(n, a)) = 1
<1> SUFFICES ASSUME parsed # None, Documented, platforms # None
             PROVE  Goal(IF given = None THEN ToSet(doc.names) ELSE ToSet(request.environments),
                         ToSet(request.platforms))
  BY Zenon DEF SelectionIsExact
<1>1. /\ IsRequest(request) /\ Admits(request)
      /\ parsed = FromPath(request) /\ parsed # Rejected
  BY ParsedHasType DEF Inv, ParsedInv
<1>2. IsDocument(doc) /\ IsSelectors(given, platforms)
  BY <1>1, RequestSelectors DEF IsRequest, Documented
<1>3. platforms = request.platforms
  BY DEF PlatformsOf
<1>4. given # None => given = request.environments
  BY DEF EnvironmentsOf
<1>5. Exact(doc, given, platforms, selected) /\ Len(selected) <= MaxTargets
  <2>1. CASE request.file = "manifest"
    <3>1. /\ ManifestSelection(doc, given, platforms) # Rejected
          /\ selected = ManifestSelection(doc, given, platforms)
      BY <1>1, <2>1, ManifestParsed
    <3> HIDE DEF doc, given, platforms, selected
    <3> QED
      BY <1>2, <3>1, ManifestExact
  <2>2. CASE request.file = "lock"
    <3>1. PICK all, empty :
             /\ LockSelection(doc, given, platforms, all, empty) # Rejected
             /\ selected = LockSelection(doc, given, platforms, all, empty)
      BY <1>1, <2>2, LockParsed
    <3> HIDE DEF doc, given, platforms, selected
    <3> QED
      BY <1>2, <3>1, LockExact
  <2> QED
    BY <2>1, <2>2 DEF Documented
<1> HIDE DEF doc, given, platforms, selected
<1>6. Goal(IF given = None THEN ToSet(doc.names) ELSE ToSet(given), ToSet(platforms))
  BY <1>2, <1>5, ExactMeans
<1> HIDE DEF Goal
<1> QED
  BY <1>3, <1>4, <1>6

\* A manifest and its lock select the same.
LEMMA InvLockSelectsLikeManifest ==
  ASSUME Inv
  PROVE  LockSelectsLikeManifest
<1>1. IsRequest(request)
  BY ParsedHasType
<1>2. request.file = "manifest" =>
         IsDocument(request.doc) /\ IsSelectors(EnvironmentsOf(request), PlatformsOf(request))
  BY <1>1, RequestSelectors DEF IsRequest
<1> QED
  BY <1>2, SelectionsAgree DEF LockSelectsLikeManifest

\* What represents its targets is faithful.
LEMMA RepresentsFaithfully ==
  ASSUME NEW doc, NEW selected \in Seq(Pairs), NEW format, NEW subdirs,
         Represents(doc, selected, format),
         \A i \in 1..Len(selected) : subdirs[i] = doc.subdir[selected[i][2]]
  PROVE  Faithful(subdirs, selected, format)
<1>1. DOMAIN selected = 1..Len(selected)
  BY LenProperties
<1>2. /\ \A i, j \in 1..Len(selected) : selected[i][1] = selected[j][1]
      /\ \A i, j \in 1..Len(selected) :
            doc.subdir[selected[i][2]] = doc.subdir[selected[j][2]] => i = j
      /\ format \in Multiplatform \/ Len(selected) = 1
  BY RepresentsApart
<1> QED
  BY <1>1, <1>2 DEF Faithful

\* What is rendered and what is solved for an output loses no target.
LEMMA InvOutputsLoseNothing ==
  ASSUME Inv
  PROVE  OutputsLoseNothing
<1>1. IsRequest(request) /\ (parsed # None => IsParsed(parsed))
  BY ParsedHasType
<1>2. ASSUME parsed # None, Documented, parsed.content # None, ~LockedSbom(request)
      PROVE  Faithful([i \in DOMAIN parsed.content |->
                         Resolved(request.doc, request.companion).subdir[parsed.content[i][2]]],
                      parsed.content, request.format)
  <2> DEFINE content == parsed.content
             lock == Resolved(request.doc, request.companion)
             subdirs == [i \in DOMAIN content |-> lock.subdir[content[i][2]]]
  <2>1. Admits(request) /\ parsed = FromPath(request) /\ parsed # Rejected
    BY <1>2 DEF Inv, ParsedInv
  <2>2. IsDocument(request.doc)
    BY <1>1, <1>2 DEF IsRequest, Documented
  <2>3. CASE request.file = "manifest"
    <3>1. /\ request.companion = None /\ content \in Seq(Pairs)
          /\ Represents(request.doc, content, request.format)
      BY <1>1, <1>2, <2>1, <2>3, ManifestParsed
    <3>2. \A t \in Targets : lock.subdir[t] = request.doc.subdir[t]
      <4>1. DOMAIN request.doc.subdir = Targets
        BY <2>2 DEF IsDocument
      <4>2. PICK found : found = [t \in Targets |-> request.doc.subdir[t]]
        OBVIOUS
      <4>3. lock = [request.doc EXCEPT !.subdir = found]
        BY <3>1, <4>1, <4>2, Zenon DEF Resolved
      <4>4. "subdir" \in DOMAIN request.doc
        BY <2>2 DEF IsDocument
      <4>5. lock.subdir = found
        BY <4>3, <4>4
      <4> QED
        BY <4>2, <4>5
    <3>3. \A i \in 1..Len(content) : subdirs[i] = request.doc.subdir[content[i][2]]
      <4>1. \A i \in 1..Len(content) : content[i] \in Pairs
        BY <3>1, ElementOfSeq
      <4>2. DOMAIN content = 1..Len(content)
        BY <3>1, LenProperties
      <4> QED
        BY <3>2, <4>1, <4>2 DEF Pairs
    <3> HIDE DEF content, lock, subdirs
    <3>4. Faithful(subdirs, content, request.format)
      BY <3>1, <3>3, RepresentsFaithfully
    <3> QED
      BY <3>4 DEF content, lock, subdirs
  <2>4. CASE request.file = "lock"
    <3>1. /\ content \in Seq(Pairs)
          /\ request.format = "workspace-lock" \/ Represents(lock, content, request.format)
      BY <1>1, <1>2, <2>1, <2>4, LockParsed
    <3>2. CASE request.format = "workspace-lock"
      BY <3>2 DEF Faithful
    <3>3. CASE Represents(lock, content, request.format)
      <4>1. \A i \in 1..Len(content) : subdirs[i] = lock.subdir[content[i][2]]
        BY <3>1, LenProperties
      <4> HIDE DEF content, lock, subdirs
      <4>2. Faithful(subdirs, content, request.format)
        BY <3>1, <3>3, <4>1, RepresentsFaithfully
      <4> QED
        BY <4>2 DEF content, lock, subdirs
    <3> QED
      BY <3>1, <3>2, <3>3
  <2> QED
    BY <1>2, <2>3, <2>4 DEF Documented
<1>3. ASSUME stage = "solving", request.file = "manifest", request.format # None
      PROVE  Faithful([i \in DOMAIN AllSolves |-> AllSolves[i].platform],
                      [i \in DOMAIN AllSolves |-> AllSolves[i].pair], request.format)
  <2> DEFINE jobs == AllSolves
             pairs == [i \in DOMAIN jobs |-> jobs[i].pair]
             subdirs == [i \in DOMAIN jobs |-> jobs[i].platform]
  <2>1. jobs = WorkspaceJobs(request) /\ WorkspaceJobs(request) # Rejected
    BY <1>3 DEF Inv, SolvesInv, Solves, Jobs
  <2>2. /\ jobs \in Seq(AllJobs)
        /\ request.format # "workspace-lock" =>
              /\ \A i, j \in 1..Len(jobs) : jobs[i].pair[1] = jobs[j].pair[1]
              /\ \A i, j \in 1..Len(jobs) : jobs[i].platform = jobs[j].platform => i = j
              /\ request.format \in Multiplatform \/ Len(jobs) = 1
    BY <1>1, <1>3, <2>1, WorkspaceJobsAre
  <2> HIDE DEF jobs
  <2>3. DOMAIN jobs = 1..Len(jobs) /\ DOMAIN pairs = 1..Len(jobs)
    BY <2>2, LenProperties
  <2>4. Len(pairs) = Len(jobs)
    BY <2>2, <2>3, LenProperties
  <2>5. \A i \in 1..Len(jobs) : pairs[i] = jobs[i].pair /\ subdirs[i] = jobs[i].platform
    BY <2>3
  <2> HIDE DEF pairs, subdirs
  <2>6. Faithful(subdirs, pairs, request.format)
    BY <2>2, <2>3, <2>4, <2>5 DEF Faithful
  <2> QED
    BY <2>6 DEF jobs, pairs, subdirs
<1> QED
  BY <1>2, <1>3, Zenon DEF OutputsLoseNothing, AllSolves, JobsOf

\* The solves that are left and those that were made.
LEMMA SolvedJobs ==
  ASSUME Inv, Solves
  PROVE  /\ Jobs(request) \in Seq(AllJobs)
         /\ ToSet(pending) \cup {results[i].job : i \in DOMAIN results} =
               {Jobs(request)[i] : i \in 1..Len(Jobs(request))}
<1>1. Jobs(request) \in Seq(AllJobs)
  BY ParsedHasType, JobsAre DEF Solves
<1>2. /\ pending \in Seq(AllJobs)
      /\ results \in Seq([job : AllJobs, solved : BOOLEAN])
  BY DEF Inv, SolvesInv
<1>3. Len(results) \in Nat /\ DOMAIN results = 1..Len(results)
  BY <1>2, LenProperties
<1>4. \A i \in 1..Len(results) : results[i].job \in AllJobs
  <2>1. \A i \in 1..Len(results) : results[i] \in [job : AllJobs, solved : BOOLEAN]
    BY <1>2, ElementOfSeq
  <2> QED
    BY <2>1
<1>5. /\ JobsOf(results) \in Seq(AllJobs) /\ Len(JobsOf(results)) = Len(results)
      /\ \A i \in 1..Len(results) : JobsOf(results)[i] = results[i].job
  BY <1>3, <1>4 DEF JobsOf
<1>6. ToSet(JobsOf(results)) = {results[i].job : i \in DOMAIN results}
  <2>1. ToSet(JobsOf(results)) = {JobsOf(results)[i] : i \in 1..Len(JobsOf(results))}
    BY <1>5, ToSetOfSeq
  <2> QED
    BY <1>3, <1>5, <2>1
<1>7. ToSet(Jobs(request)) = ToSet(JobsOf(results)) \cup ToSet(pending)
  <2>1. Jobs(request) = JobsOf(results) \o pending
    BY DEF Solves, AllSolves
  <2>2. PICK s \in Seq(AllJobs), t \in Seq(AllJobs) : s = JobsOf(results) /\ t = pending
    BY <1>2, <1>5
  <2>3. ToSet(s \o t) = ToSet(s) \cup ToSet(t)
    BY ToSetOfConcat
  <2> QED
    BY <2>1, <2>2, <2>3
<1>8. ToSet(Jobs(request)) = {Jobs(request)[i] : i \in 1..Len(Jobs(request))}
  BY <1>1, ToSetOfSeq
<1> QED
  BY <1>1, <1>6, <1>7, <1>8

\* Nothing is solved beyond the limits.
LEMMA InvSolvesAreWithinLimits ==
  ASSUME Inv
  PROVE  SolvesAreWithinLimits
<1> DEFINE jobs == ToSet(pending) \cup {results[i].job : i \in DOMAIN results}
<1> SUFFICES ASSUME NEW job \in jobs
             PROVE  /\ request.file = "lock" => request.operation = "update"
                    /\ ~request.cli /\ request.operation # "update" =>
                          LimitedOf(job, request.doc)
                    /\ ~request.cli /\ request.operation = "update" =>
                          /\ Limited(job)
                          /\ NamesAllowed(request.companion, job.pair,
                                          ToSet(request.packages))
  BY DEF SolvesAreWithinLimits, LimitedOf, Limited
<1>1. IsRequest(request) /\ (parsed # None => IsParsed(parsed))
  BY ParsedHasType
<1>2. results = <<>> => {results[i].job : i \in DOMAIN results} = {}
  OBVIOUS
<1>3. CASE pending = <<>> /\ results = <<>>
  <2>1. ToSet(<<>>) = {}
    BY EmptySeq, ToSetOfSeq
  <2> QED
    BY <1>2, <1>3, <2>1
<1>4. CASE Solves
  <2>1. PICK i \in 1..Len(Jobs(request)) : job = Jobs(request)[i]
    BY <1>4, SolvedJobs
  <2>2. Jobs(request) # Rejected /\ request.operation # "update"
    BY <1>4 DEF Solves
  <2> QED
    BY <1>1, <2>1, <2>2, JobsAre
<1>5. CASE UpdateSolve
  <2> DEFINE update == TargetJob(request.companion, parsed.target, ToSet(request.packages))
  <2>1. /\ request.operation = "update" /\ pending = <<update>> /\ results = <<>>
        /\ ~request.cli => WithinCaps(update.specs, update.channels, <<update.platform>>)
    BY <1>5 DEF UpdateSolve
  <2>2. ~request.cli =>
           Limited(update) /\ NamesAllowed(request.companion, update.pair,
                                           ToSet(request.packages))
    <3>1. ~request.cli => Limited(update)
      BY <2>1, CapsOfJob DEF Limited
    <3>2. update.pair = parsed.target
      BY DEF TargetJob, Job
    <3> QED
      BY <3>1, <3>2, NamesAreChecked DEF Limited
  <2> HIDE DEF update
  <2>3. job = update
    BY <1>2, <2>1, ToSetOfOne
  <2> QED
    BY <2>1, <2>2, <2>3
<1> QED
  BY <1>3, <1>4, <1>5 DEF Inv, SolvesInv

-----------------------------------------------------------------------------
(* The theorems.                                                            *)

\* What was parsed, solved and answered follows from the request at every step.
THEOREM Inductive == Spec => []Inv
<1>1. Init => Inv
  BY InvInit
<1>2. Inv /\ [Next]_vars => Inv'
  BY InvNext
<1> QED
  BY <1>1, <1>2, PTL DEF Spec

\* Requests, parsed files, solves and answers are of the kinds that the handlers
\* of app.py and the commands of cli.py pass on.
THEOREM RequestsTyped == Spec => []TypeOK
<1>1. Inv => TypeOK
  BY InvTypeOK
<1> QED
  BY <1>1, Inductive, PTL

\* workspace.py and workspace_lock.py: whatever the order and the repetitions of
\* the selectors, exactly the targets that they mean are selected, once each
\* and within the limit.
THEOREM ExactSelection == Spec => []SelectionIsExact
<1>1. Inv => SelectionIsExact
  BY InvSelectionIsExact
<1> QED
  BY <1>1, Inductive, PTL

\* A manifest and the lock saved from it answer the same selectors with the same
\* pairs in the same order.
THEOREM AgreeingSelections == Spec => []LockSelectsLikeManifest
<1>1. Inv => LockSelectsLikeManifest
  BY InvLockSelectsLikeManifest
<1> QED
  BY <1>1, Inductive, PTL

\* No output that is accepted merges or drops a selected target, in any of the
\* three places that check it.
THEOREM NothingLost == Spec => []OutputsLoseNothing
<1>1. Inv => OutputsLoseNothing
  BY InvOutputsLoseNothing
<1> QED
  BY <1>1, Inductive, PTL

\* app.py: what a client has solved is within the limits on requirements,
\* channels and platforms, whichever way it was asked for, and saved records are
\* solved again by an update only.
THEOREM WithinLimits == Spec => []SolvesAreWithinLimits
<1>1. Inv => SolvesAreWithinLimits
  BY InvSolvesAreWithinLimits
<1> QED
  BY <1>1, Inductive, PTL

\* The answer of a solve holds every target that was asked for, in order; an
\* output or SBOMs are sent only if all were solved.
THEOREM CompleteAnswers == Spec => []AnswersAreComplete
<1>1. Inv => AnswersAreComplete
  BY DEF Inv, AnswerInv
<1> QED
  BY <1>1, Inductive, PTL

\* docs/reference/http-api.md:146: a refused conversion gives its reasons.
THEOREM ExplainedRefusals == Spec => []RefusalsAreExplained
<1>1. Inv => RefusalsAreExplained
  BY DEF Inv, AnswerInv
<1> QED
  BY <1>1, Inductive, PTL

\* An updated lock agreed with its manifest before and agrees with it again, and
\* the target that was updated is the one asked for.
THEOREM ConsistentUpdates == Spec => []UpdatesAreConsistent
<1>1. Inv => UpdatesAreConsistent
  BY DEF Inv, AnswerInv
<1> QED
  BY <1>1, Inductive, PTL

\* docs/reference/cli.md:274: the exit status of a validation or an update says
\* how it ended.
THEOREM TellingExitStatus == Spec => []ExitStatusTells
<1>1. Inv => ExitStatusTells
  BY DEF Inv, AnswerInv
<1> QED
  BY <1>1, Inductive, PTL
=============================================================================
