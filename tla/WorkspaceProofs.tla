--------------------------- MODULE WorkspaceProofs ---------------------------
(***************************************************************************)
(* The file provider's paths, for every set of names, every path and every *)
(* working directory of whatever length.                                   *)
(*                                                                         *)
(* Walk and Kept are recursive functions: that they have values, and what  *)
(* these are, is by induction over a set of numbers (see ProvidersProofs). *)
(***************************************************************************)
EXTENDS Workspace, SequenceTheorems, FiniteSetTheorems, WellFoundedInduction, TLAPS

-----------------------------------------------------------------------------
(* Induction and recursion.                                                 *)

LEMMA Induction ==
  ASSUME NEW T, 0 \in T, \A n \in Nat : n \in T => n + 1 \in T
  PROVE  \A n \in Nat : n \in T
<1> DEFINE F == Nat \ T
           R == {ss \in Nat \X Nat : ss[1] < ss[2]}
<1> SUFFICES ASSUME F # {} PROVE FALSE
  OBVIOUS
<1>1. IsWellFoundedOn(R, Nat)
  BY NatLessThanWellFounded DEF OpToRel
<1>2. PICK m \in F : \A k \in F : ~(<<k, m>> \in R)
  <2>1. F \subseteq Nat
    OBVIOUS
  <2> HIDE DEF F, R
  <2> QED
    BY <1>1, <2>1, WFMin
<1>3. m # 0 /\ m - 1 \in Nat
  BY <1>2
<1>4. m - 1 \in T
  <2>1. <<m - 1, m>> \in R
    BY <1>3
  <2> QED
    BY <1>2, <1>3, <2>1
<1> QED
  BY <1>2, <1>3, <1>4

\* What each step of a recursion makes of a value of D is one again.
LEMMA Recursion ==
  ASSUME NEW D, NEW a \in D, NEW N \in Nat, NEW step \in [1..N -> [D -> D]]
  PROVE  \E f \in [0..N -> D] : f[0] = a /\ \A n \in 1..N : f[n] = step[n][f[n - 1]]
<1> DEFINE Runs(f, m) == f \in [0..m -> D] /\ f[0] = a /\ \A n \in 1..m : f[n] = step[n][f[n - 1]]
           T == {m \in Nat : m <= N => \E f : Runs(f, m)}
<1>1. 0 \in T
  <2>1. Runs([n \in 0..0 |-> a], 0)
    OBVIOUS
  <2> QED
    BY <2>1
<1>2. ASSUME NEW m \in Nat, m \in T PROVE m + 1 \in T
  <2> SUFFICES ASSUME m + 1 <= N PROVE \E g : Runs(g, m + 1)
    OBVIOUS
  <2>1. PICK f : Runs(f, m)
    BY <1>2
  <2> DEFINE g == [n \in 0..m + 1 |-> IF n = m + 1 THEN step[m + 1][f[m]] ELSE f[n]]
  <2>2. step[m + 1][f[m]] \in D
    BY <2>1
  <2>3. g \in [0..m + 1 -> D] /\ g[0] = a
    BY <2>1, <2>2
  <2>4. ASSUME NEW n \in 1..m + 1 PROVE g[n] = step[n][g[n - 1]]
    <3>1. CASE n = m + 1
      BY <3>1
    <3>2. CASE n # m + 1
      <4>1. n \in 1..m /\ n - 1 \in 0..m + 1 /\ n - 1 # m + 1
        BY <3>2
      <4>2. g[n] = f[n] /\ g[n - 1] = f[n - 1] /\ f[n] = step[n][f[n - 1]]
        BY <2>1, <3>2, <4>1
      <4> HIDE DEF g
      <4> QED
        BY <4>2
    <3> QED
      BY <3>1, <3>2
  <2> QED
    BY <2>3, <2>4
<1>3. \A m \in Nat : m \in T
  <2> HIDE DEF T
  <2> QED
    BY <1>1, <1>2, Induction
<1> QED
  BY <1>3

-----------------------------------------------------------------------------
(* The walk along the segments of a path.                                   *)

Targets == Seq(Names) \cup {Outside}

LEMMA NamesApart == Names \cap {"", ".", ".."} = {} /\ Outside \notin Seq(Names)
<1>1. Names \subseteq Names \cup Backslashed
  OBVIOUS
<1>2. Seq(Names) \subseteq Seq(Names \cup Backslashed)
  BY <1>1, SeqMonotonic
<1> QED
  BY <1>2, WorkspaceAssumption

LEMMA NamesAreSegments == Names \subseteq Segments /\ Seq(Names) \subseteq Seq(Segments)
BY SeqMonotonic DEF Segments

LEMMA FrontOf ==
  ASSUME NEW S, NEW s \in Seq(S), s # <<>>
  PROVE  /\ Front(s) \in Seq(S)
         /\ Len(Front(s)) = Len(s) - 1
         /\ \A k \in 1..Len(s) - 1 : Front(s)[k] = s[k]
<1> DEFINE n == Len(s) - 1
<1>1. n \in Nat /\ 1 \in Int /\ n \in Int
  BY EmptySeq
<1>2. \A i \in 1..n : s[i] \in S
  BY <1>1, ElementOfSeq
<1>3. Front(s) = SubSeq(s, 1, n)
  BY DEF Front
<1> HIDE DEF n
<1>4. /\ SubSeq(s, 1, n) \in Seq(S)
      /\ Len(SubSeq(s, 1, n)) = IF 1 <= n THEN n - 1 + 1 ELSE 0
      /\ \A i \in 1..n - 1 + 1 : SubSeq(s, 1, n)[i] = s[1 + i - 1]
  BY <1>1, <1>2, SubSeqProperties
<1>5. \A k \in 1..n : 1 + k - 1 = k /\ k \in 1..n - 1 + 1
  BY <1>1
<1>6. Len(Front(s)) = n /\ \A k \in 1..n : Front(s)[k] = s[k]
  <2>1. Len(Front(s)) = n
    BY <1>1, <1>3, <1>4
  <2>2. ASSUME NEW k \in 1..n PROVE Front(s)[k] = s[k]
    BY <1>3, <1>4, <1>5
  <2> QED
    BY <2>1, <2>2
<1> QED
  BY <1>3, <1>4, <1>6 DEF n

LEMMA DescendType ==
  ASSUME NEW rel \in Targets, NEW segment \in Segments
  PROVE  Descend(rel, segment) \in Targets
<1>1. CASE rel = Outside
  BY <1>1 DEF Descend, Targets
<1>2. CASE rel \in Seq(Names)
  <2>1. rel # <<>> => Front(rel) \in Seq(Names)
    BY <1>2, FrontOf
  <2>2. segment \in Names => Append(rel, segment) \in Seq(Names)
    BY <1>2, AppendProperties
  <2> QED
    BY <1>2, <2>1, <2>2 DEF Descend, Targets, Segments
<1> QED
  BY <1>1, <1>2 DEF Targets

\* The recursion, unfolded at each place.
LEMMA WalkSteps ==
  ASSUME NEW segments \in Seq(Segments)
  PROVE  /\ Walk(segments)[0] = <<>>
         /\ \A n \in 1..Len(segments) :
              Walk(segments)[n] = Descend(Walk(segments)[n - 1], segments[n])
<1> DEFINE N == Len(segments)
           step == [n \in 1..N |-> [rel \in Targets |-> Descend(rel, segments[n])]]
           Is(f) == f = [n \in 0..N |-> IF n = 0 THEN <<>> ELSE Descend(f[n - 1], segments[n])]
<1>0. N \in Nat /\ \A n \in 1..N : segments[n] \in Segments
  BY LenProperties, ElementOfSeq
<1>1. <<>> \in Targets
  BY EmptySeq DEF Targets
<1>2. step \in [1..N -> [Targets -> Targets]]
  BY <1>0, DescendType
<1>3. PICK f \in [0..N -> Targets] : f[0] = <<>> /\ \A n \in 1..N : f[n] = step[n][f[n - 1]]
  <2>1. N \in Nat
    BY <1>0
  <2> DEFINE start == <<>>
  <2>2. start \in Targets
    BY <1>1
  <2> HIDE DEF step, N, start
  <2>3. \E f \in [0..N -> Targets] : f[0] = start /\ \A n \in 1..N : f[n] = step[n][f[n - 1]]
    BY <1>2, <2>1, <2>2, Recursion
  <2> QED
    BY <2>3 DEF start
<1>4. Is(f)
  <2>1. ASSUME NEW n \in 0..N
        PROVE  f[n] = IF n = 0 THEN <<>> ELSE Descend(f[n - 1], segments[n])
    <3>1. CASE n = 0
      BY <1>3, <3>1
    <3>2. CASE n # 0
      <4>1. n \in 1..N /\ n - 1 \in 0..N
        BY <1>0, <3>2
      <4>2. f[n - 1] \in Targets
        BY <4>1
      <4> QED
        BY <1>3, <3>2, <4>1, <4>2
    <3> QED
      BY <3>1, <3>2
  <2> QED
    BY <2>1
<1>5. Is(Walk(segments))
  BY <1>4 DEF Walk
<1> DEFINE at == Walk(segments)
<1>6. \A n \in 0..N : at[n] = IF n = 0 THEN <<>> ELSE Descend(at[n - 1], segments[n])
  <2> HIDE DEF at
  <2> QED
    BY <1>5 DEF at
<1> QED
  BY <1>0, <1>6

LEMMA WalkType ==
  ASSUME NEW segments \in Seq(Segments)
  PROVE  \A n \in 0..Len(segments) : Walk(segments)[n] \in Targets
<1> DEFINE at == Walk(segments)
           T == {n \in Nat : n <= Len(segments) => at[n] \in Targets}
<1>0. Len(segments) \in Nat /\ \A n \in 1..Len(segments) : segments[n] \in Segments
  BY LenProperties, ElementOfSeq
<1>1. 0 \in T
  BY WalkSteps, EmptySeq DEF Targets
<1>2. ASSUME NEW n \in Nat, n \in T, n + 1 <= Len(segments) PROVE at[n + 1] \in Targets
  <2>1. at[n + 1] = Descend(at[n], segments[n + 1])
    BY <1>0, <1>2, WalkSteps
  <2>2. at[n] \in Targets /\ segments[n + 1] \in Segments
    BY <1>0, <1>2
  <2> QED
    BY <2>1, <2>2, DescendType
<1>3. \A n \in Nat : n \in T
  <2>1. \A n \in Nat : n \in T => n + 1 \in T
    BY <1>2
  <2> HIDE DEF T
  <2> QED
    BY <1>1, <2>1, Induction
<1> QED
  BY <1>0, <1>3

\* A name leads one down.
LEMMA DescendName ==
  ASSUME NEW rel \in Seq(Names), NEW name \in Names
  PROVE  Descend(rel, name) = Append(rel, name)
BY NamesApart DEF Descend

\* A path of names only leads to itself.
LEMMA FollowNames ==
  ASSUME NEW names \in Seq(Names)
  PROVE  Follow(names) = names
<1> DEFINE at == Walk(names)
           N == Len(names)
           T == {n \in Nat : n <= N => at[n] = SubSeq(names, 1, n)}
<1>0. N \in Nat /\ names \in Seq(Segments) /\ \A n \in 1..N : names[n] \in Names
  BY LenProperties, ElementOfSeq, NamesAreSegments
<1>1. 0 \in T
  <2>1. at[0] = <<>>
    BY <1>0, WalkSteps
  <2>2. SubSeq(names, 1, 0) = <<>>
    BY SubSeqEmpty
  <2> QED
    BY <2>1, <2>2
<1>2. ASSUME NEW n \in Nat, n \in T, n + 1 <= N PROVE at[n + 1] = SubSeq(names, 1, n + 1)
  <2>0. n + 1 \in 1..N /\ (n + 1) - 1 = n /\ n <= N /\ names[n + 1] \in Names
    BY <1>0, <1>2
  <2>1. at[n + 1] = Descend(SubSeq(names, 1, n), names[n + 1])
    <3>1. at[n + 1] = Descend(at[(n + 1) - 1], names[n + 1])
      BY <1>0, <2>0, WalkSteps
    <3>2. at[n] = SubSeq(names, 1, n)
      BY <1>2, <2>0
    <3> QED
      BY <2>0, <3>1, <3>2
  <2>2. SubSeq(names, 1, n) \in Seq(Names)
    BY <1>0, <1>2, SubSeqProperties
  <2>3. at[n + 1] = Append(SubSeq(names, 1, n), names[n + 1])
    BY <2>0, <2>1, <2>2, DescendName
  <2>4. SubSeq(names, 1, n + 1) = SubSeq(names, 1, n) \o <<names[n + 1]>>
    <3>1. 1 \in 1..N /\ n + 1 \in 1..N /\ n + 1 - 1 = n
      BY <1>0, <1>2
    <3> QED
      BY <3>1, SubSeqRecursiveSecond
  <2> QED
    BY <1>0, <1>2, <2>2, <2>3, <2>4, AppendIsConcat
<1>3. \A n \in Nat : n \in T
  <2>1. \A n \in Nat : n \in T => n + 1 \in T
    BY <1>2
  <2> HIDE DEF T
  <2> QED
    BY <1>1, <2>1, Induction
<1>4. at[N] = SubSeq(names, 1, N)
  BY <1>0, <1>3
<1> QED
  BY <1>4, SubSeqFull DEF Follow

\* Two walks that meet and go the same way from there end at the same place.
LEMMA WalksMeet ==
  ASSUME NEW a \in Seq(Segments), NEW b \in Seq(Segments), NEW i \in 0..Len(a), NEW j \in 0..Len(b),
         NEW m \in Nat, i + m <= Len(a), j + m <= Len(b),
         Walk(a)[i] = Walk(b)[j],
         \A k \in 1..m : a[i + k] = b[j + k]
  PROVE  Walk(a)[i + m] = Walk(b)[j + m]
<1> DEFINE T == {k \in Nat : k <= m => Walk(a)[i + k] = Walk(b)[j + k]}
<1>0. Len(a) \in Nat /\ Len(b) \in Nat /\ i \in Nat /\ j \in Nat
  BY LenProperties
<1>1. 0 \in T
  BY <1>0
<1>2. ASSUME NEW k \in Nat, k \in T, k + 1 <= m
      PROVE  Walk(a)[i + (k + 1)] = Walk(b)[j + (k + 1)]
  <2>1. /\ i + (k + 1) \in 1..Len(a) /\ (i + (k + 1)) - 1 = i + k
        /\ j + (k + 1) \in 1..Len(b) /\ (j + (k + 1)) - 1 = j + k
        /\ k + 1 \in 1..m
    BY <1>0, <1>2
  <2>2. Walk(a)[i + (k + 1)] = Descend(Walk(a)[i + k], a[i + (k + 1)])
    BY <2>1, WalkSteps
  <2>3. Walk(b)[j + (k + 1)] = Descend(Walk(b)[j + k], b[j + (k + 1)])
    BY <2>1, WalkSteps
  <2>4. Walk(a)[i + k] = Walk(b)[j + k]
    <3>1. k <= m
      BY <1>2
    <3> QED
      BY <1>2, <3>1
  <2>5. a[i + (k + 1)] = b[j + (k + 1)]
    BY <2>1
  <2> QED
    BY <2>2, <2>3, <2>4, <2>5
<1>3. \A k \in Nat : k \in T
  <2>1. \A k \in Nat : k \in T => k + 1 \in T
    BY <1>2
  <2> HIDE DEF T
  <2> QED
    BY <1>1, <2>1, Induction
<1> QED
  BY <1>3

LEMMA WalksAgree ==
  ASSUME NEW a \in Seq(Segments), NEW b \in Seq(Segments), NEW m \in Nat,
         m <= Len(a), m <= Len(b), \A k \in 1..m : a[k] = b[k]
  PROVE  Walk(a)[m] = Walk(b)[m]
<1>1. 0 \in 0..Len(a) /\ 0 \in 0..Len(b) /\ 0 + m = m
  BY LenProperties
<1>2. Walk(a)[0] = Walk(b)[0]
  BY WalkSteps
<1>3. \A k \in 1..m : a[0 + k] = b[0 + k]
  OBVIOUS
<1>4. Walk(a)[0 + m] = Walk(b)[0 + m]
  <2>1. 0 + m <= Len(a) /\ 0 + m <= Len(b)
    BY <1>1
  <2> QED
    BY <1>1, <1>2, <1>3, <2>1, WalksMeet
<1> QED
  BY <1>1, <1>4

\* A path taken from the place that another one leads to is the two in a row.
LEMMA FollowOn ==
  ASSUME NEW a \in Seq(Segments), NEW b \in Seq(Segments), Follow(a) # Outside
  PROVE  Follow(Follow(a) \o b) = Follow(a \o b)
<1> DEFINE rel == Follow(a)
           la == Len(a)
           lb == Len(b)
           lr == Len(rel)
<1>0. la \in Nat /\ lb \in Nat
  BY LenProperties
<1>1. rel \in Seq(Names) /\ rel \in Seq(Segments) /\ lr \in Nat
  <2>1. rel \in Targets
    BY <1>0, WalkType DEF Follow
  <2>2. rel \in Seq(Names)
    BY <2>1 DEF Targets
  <2> QED
    BY <2>2, NamesAreSegments, LenProperties
<1>2. /\ a \o b \in Seq(Segments) /\ Len(a \o b) = la + lb
      /\ rel \o b \in Seq(Segments) /\ Len(rel \o b) = lr + lb
      /\ \A k \in 1..la + lb : (a \o b)[k] = IF k <= la THEN a[k] ELSE b[k - la]
      /\ \A k \in 1..lr + lb : (rel \o b)[k] = IF k <= lr THEN rel[k] ELSE b[k - lr]
  BY <1>1, ConcatProperties
<1> HIDE DEF rel, la, lb, lr
<1>3. Walk(a \o b)[la] = rel
  <2>1. \A k \in 1..la : (a \o b)[k] = a[k]
    BY <1>0, <1>2
  <2>2. la <= Len(a \o b) /\ la <= Len(a)
    BY <1>0, <1>2 DEF la
  <2>3. Walk(a \o b)[la] = Walk(a)[la]
    BY <1>0, <1>2, <2>1, <2>2, WalksAgree
  <2> QED
    BY <2>3 DEF rel, la, Follow
<1>4. Walk(rel \o b)[lr] = rel
  <2>1. \A k \in 1..lr : (rel \o b)[k] = rel[k]
    BY <1>1, <1>0, <1>2
  <2>2. lr <= Len(rel \o b) /\ lr <= Len(rel)
    BY <1>0, <1>1, <1>2 DEF lr
  <2>3. Walk(rel \o b)[lr] = Walk(rel)[lr]
    BY <1>1, <1>2, <2>1, <2>2, WalksAgree
  <2>4. Walk(rel)[lr] = rel
    BY <1>1, FollowNames DEF Follow, lr
  <2> QED
    BY <2>3, <2>4
<1>5. Walk(rel \o b)[lr + lb] = Walk(a \o b)[la + lb]
  <2>1. ASSUME NEW k \in 1..lb PROVE (rel \o b)[lr + k] = (a \o b)[la + k]
    <3>1. lr + k \in 1..lr + lb /\ la + k \in 1..la + lb
      BY <1>0, <1>1
    <3>2. ~(lr + k <= lr) /\ ~(la + k <= la) /\ (lr + k) - lr = k /\ (la + k) - la = k
      BY <1>0, <1>1
    <3> QED
      BY <1>2, <3>1, <3>2
  <2>2. /\ lr \in 0..Len(rel \o b) /\ la \in 0..Len(a \o b)
        /\ lr + lb <= Len(rel \o b) /\ la + lb <= Len(a \o b)
    BY <1>0, <1>1, <1>2
  <2>3. Walk(rel \o b)[lr] = Walk(a \o b)[la]
    BY <1>3, <1>4
  <2>4. rel \o b \in Seq(Segments) /\ a \o b \in Seq(Segments)
    BY <1>2
  <2> QED
    BY <1>0, <2>1, <2>2, <2>3, <2>4, WalksMeet
<1> QED
  BY <1>2, <1>5 DEF Follow, rel

-----------------------------------------------------------------------------
(* The walk against the reference: how deep it is, and what is left of it.  *)

LEMMA CountStep ==
  ASSUME NEW T, NEW n \in Nat
  PROVE  /\ Cardinality({j \in 1..n : j \in T}) \in Nat
         /\ Cardinality({j \in 1..n + 1 : j \in T}) =
              Cardinality({j \in 1..n : j \in T}) + (IF n + 1 \in T THEN 1 ELSE 0)
<1> DEFINE S == {j \in 1..n : j \in T}
<1>1. IsFiniteSet(S)
  <2>1. IsFiniteSet(1..n)
    BY FS_Interval
  <2> QED
    BY <2>1, FS_Subset
<1>2. Cardinality(S) \in Nat
  BY <1>1, FS_CardinalityType
<1>3. CASE n + 1 \in T
  <2>1. {j \in 1..n + 1 : j \in T} = S \cup {n + 1}
    BY <1>3
  <2>2. n + 1 \notin S
    OBVIOUS
  <2> HIDE DEF S
  <2>3. Cardinality(S \cup {n + 1}) = Cardinality(S) + 1
    BY <1>1, <2>2, FS_AddElement
  <2> QED
    BY <1>2, <1>3, <2>1, <2>3 DEF S
<1>4. CASE n + 1 \notin T
  <2>1. {j \in 1..n + 1 : j \in T} = S
    BY <1>4
  <2> HIDE DEF S
  <2> QED
    BY <1>2, <1>4, <2>1 DEF S
<1> QED
  BY <1>3, <1>4

\* Each name leads one down, and each ".." one up.
LEMMA DepthSteps ==
  ASSUME NEW segments, NEW n \in Nat
  PROVE  /\ Depth(segments, n) \in Int
         /\ Depth(segments, 0) = 0
         /\ IsName(segments[n + 1]) =>
              Depth(segments, n + 1) = Depth(segments, n) + 1
         /\ segments[n + 1] = ".." => Depth(segments, n + 1) = Depth(segments, n) - 1
         /\ segments[n + 1] \in {"", "."} => Depth(segments, n + 1) = Depth(segments, n)
<1> DEFINE Down == {j \in Nat : IsName(segments[j])}
           Up == {j \in Nat : segments[j] = ".."}
<1>1. \A m \in Nat :
        Depth(segments, m) =
          Cardinality({j \in 1..m : j \in Down}) - Cardinality({j \in 1..m : j \in Up})
  <2> SUFFICES ASSUME NEW m \in Nat
               PROVE  Depth(segments, m) =
                        Cardinality({j \in 1..m : j \in Down})
                          - Cardinality({j \in 1..m : j \in Up})
    OBVIOUS
  <2>1. {j \in 1..m : IsName(segments[j])} = {j \in 1..m : j \in Down}
    OBVIOUS
  <2>2. {j \in 1..m : segments[j] = ".."} = {j \in 1..m : j \in Up}
    OBVIOUS
  <2> QED
    BY <2>1, <2>2 DEF Depth
<1>2. n + 1 \in Nat /\ 0 \in Nat
  OBVIOUS
<1>3. /\ n + 1 \in Down <=> IsName(segments[n + 1])
      /\ n + 1 \in Up <=> segments[n + 1] = ".."
  OBVIOUS
<1>4. {j \in 1..0 : j \in Down} = {} /\ {j \in 1..0 : j \in Up} = {}
  OBVIOUS
<1>5. Depth(segments, 0) = 0
  <2> HIDE DEF Down, Up
  <2>1. Cardinality({j \in 1..0 : j \in Down}) = 0 /\ Cardinality({j \in 1..0 : j \in Up}) = 0
    BY <1>4, FS_EmptySet
  <2> QED
    BY <1>1, <1>2, <2>1
<1> DEFINE down(m) == Cardinality({j \in 1..m : j \in Down})
           up(m) == Cardinality({j \in 1..m : j \in Up})
<1>6. down(n) \in Nat /\ down(n + 1) = down(n) + (IF n + 1 \in Down THEN 1 ELSE 0)
  <2> HIDE DEF Down
  <2> QED
    BY CountStep
<1>7. up(n) \in Nat /\ up(n + 1) = up(n) + (IF n + 1 \in Up THEN 1 ELSE 0)
  <2> HIDE DEF Up
  <2> QED
    BY CountStep
<1>8. Depth(segments, n) = down(n) - up(n) /\ Depth(segments, n + 1) = down(n + 1) - up(n + 1)
  BY <1>1, <1>2
<1>9. /\ IsName(segments[n + 1]) => n + 1 \in Down /\ n + 1 \notin Up
      /\ segments[n + 1] = ".." => n + 1 \notin Down /\ n + 1 \in Up
      /\ segments[n + 1] \in {"", "."} => n + 1 \notin Down /\ n + 1 \notin Up
  <2>1. IsName(segments[n + 1]) => segments[n + 1] # ".."
    BY DEF IsName
  <2>2. segments[n + 1] = ".." => ~IsName(segments[n + 1])
    BY DEF IsName
  <2>3. segments[n + 1] \in {"", "."} => ~IsName(segments[n + 1]) /\ segments[n + 1] # ".."
    BY DEF IsName
  <2> HIDE DEF Down, Up
  <2> QED
    BY <1>3, <2>1, <2>2, <2>3
<1> DEFINE here == Depth(segments, n)
           next == Depth(segments, n + 1)
<1> HIDE DEF down, up, Down, Up, here, next
<1>10. /\ n + 1 \in Down /\ n + 1 \notin Up => next = here + 1
       /\ n + 1 \notin Down /\ n + 1 \in Up => next = here - 1
       /\ n + 1 \notin Down /\ n + 1 \notin Up => next = here
       /\ here \in Int
  BY <1>6, <1>7, <1>8 DEF here, next
<1> QED
  BY <1>5, <1>9, <1>10 DEF here, next

\* After n segments the k-th name is that of the i-th: it went k deep, and the
\* path has stayed there or below.
Placed(segments, n, i, k) ==
  /\ IsName(segments[i])
  /\ Depth(segments, i) = k
  /\ \A j \in i+1..n : Depth(segments, j) >= k

LEMMA PlacedStays ==
  ASSUME NEW segments, NEW n \in Nat, NEW i \in 1..n, NEW k, Placed(segments, n, i, k),
         Depth(segments, n + 1) >= k
  PROVE  i \in 1..n + 1 /\ Placed(segments, n + 1, i, k)
<1>1. ASSUME NEW j \in i+1..n + 1 PROVE Depth(segments, j) >= k
  <2>1. j \in i+1..n \/ j = n + 1
    OBVIOUS
  <2> QED
    BY <2>1 DEF Placed
<1> QED
  BY <1>1 DEF Placed

\* What the walk has come to after n segments, in the reference's words.
Inside(segments, n) ==
  /\ \A i \in 1..n : Depth(segments, i) >= 0
  /\ Walk(segments)[n] \in Seq(Names)
  /\ Len(Walk(segments)[n]) = Depth(segments, n)
  /\ \A k \in 1..Depth(segments, n) : \E i \in 1..n :
       Placed(segments, n, i, k) /\ Walk(segments)[n][k] = segments[i]

Gone(segments, n) ==
  /\ \E i \in 1..n : Depth(segments, i) < 0
  /\ Walk(segments)[n] = Outside

LEMMA InsideStep ==
  ASSUME NEW segments \in Seq(Segments), NEW n \in Nat, n + 1 <= Len(segments),
         Inside(segments, n)
  PROVE  Inside(segments, n + 1) \/ Gone(segments, n + 1)
<1> DEFINE rel == Walk(segments)[n]
           next == Walk(segments)[n + 1]
           segment == segments[n + 1]
           d == Depth(segments, n)
           e == Depth(segments, n + 1)
<1>0. /\ n + 1 \in 1..Len(segments) /\ (n + 1) - 1 = n
      /\ segment \in Segments
  BY ElementOfSeq, LenProperties
<1>1. next = Descend(rel, segment)
  BY <1>0, WalkSteps
<1>2. /\ d \in Int
      /\ IsName(segment) => e = d + 1
      /\ segment = ".." => e = d - 1
      /\ segment \in {"", "."} => e = d
  BY DepthSteps
<1>3. rel \in Seq(Names) /\ rel # Outside /\ Len(rel) = d /\ d \in Nat
  BY NamesApart, LenProperties DEF Inside
<1>4. ASSUME NEW k \in 1..d, k <= e
      PROVE  \E i \in 1..n + 1 : Placed(segments, n + 1, i, k) /\ rel[k] = segments[i]
  <2>1. PICK i \in 1..n : Placed(segments, n, i, k) /\ rel[k] = segments[i]
    BY DEF Inside
  <2>2. e >= k
    BY <1>2, <1>3, <1>4
  <2> QED
    BY <2>1, <2>2, PlacedStays
<1>5. ASSUME e >= 0
      PROVE  \A i \in 1..n + 1 : Depth(segments, i) >= 0
  <2>1. \A i \in 1..n + 1 : i \in 1..n \/ i = n + 1
    OBVIOUS
  <2> QED
    BY <1>5, <2>1 DEF Inside
<1>6. CASE segment \in {"", "."}
  <2>1. next = rel /\ e = d
    BY <1>1, <1>2, <1>3, <1>6 DEF Descend
  <2>2. \A k \in 1..e : \E i \in 1..n + 1 :
          Placed(segments, n + 1, i, k) /\ next[k] = segments[i]
    BY <1>3, <1>4, <2>1
  <2> QED
    BY <1>3, <1>5, <2>1, <2>2 DEF Inside
<1>7. CASE segment = ".." /\ rel = <<>>
  <2>1. next = Outside
    BY <1>1, <1>3, <1>7 DEF Descend
  <2>2. d = 0
    BY <1>3, <1>7, EmptySeq
  <2>3. e < 0 /\ n + 1 \in 1..n + 1
    BY <1>2, <1>7, <2>2
  <2> QED
    BY <2>1, <2>3 DEF Gone
<1>8. CASE segment = ".." /\ rel # <<>>
  <2>1. next = Front(rel) /\ e = d - 1
    BY <1>1, <1>2, <1>3, <1>8 DEF Descend
  <2>2. /\ Front(rel) \in Seq(Names) /\ Len(Front(rel)) = Len(rel) - 1
        /\ \A k \in 1..Len(rel) - 1 : Front(rel)[k] = rel[k]
    BY <1>3, <1>8, FrontOf
  <2>3. next \in Seq(Names) /\ Len(next) = e /\ e \in Nat
    BY <1>3, <2>1, <2>2, LenProperties
  <2>4. ASSUME NEW k \in 1..e
        PROVE  \E i \in 1..n + 1 : Placed(segments, n + 1, i, k) /\ next[k] = segments[i]
    <3>1. k \in 1..d /\ k <= e /\ k \in 1..Len(rel) - 1
      BY <1>3, <2>1, <2>3
    <3>2. next[k] = rel[k]
      BY <2>1, <2>2, <3>1
    <3> QED
      BY <1>4, <3>1, <3>2
  <2> QED
    BY <1>5, <2>3, <2>4 DEF Inside
<1>9. CASE segment \in Names
  <2>1. IsName(segment) /\ e = d + 1
    <3>1. IsName(segment)
      BY <1>9, NamesApart DEF IsName
    <3> QED
      BY <1>2, <3>1
  <2>2. next = Append(rel, segment)
    BY <1>1, <1>3, <1>9, DescendName
  <2>3. /\ next \in Seq(Names) /\ Len(next) = d + 1 /\ next[d + 1] = segment
        /\ \A k \in 1..d : next[k] = rel[k]
    BY <1>3, <1>9, <2>2, AppendProperties
  <2>4. ASSUME NEW k \in 1..e
        PROVE  \E i \in 1..n + 1 : Placed(segments, n + 1, i, k) /\ next[k] = segments[i]
    <3>1. CASE k = e
      <4>1. Placed(segments, n + 1, n + 1, k)
        BY <2>1, <3>1 DEF Placed
      <4>2. next[k] = segments[n + 1] /\ n + 1 \in 1..n + 1
        BY <2>1, <2>3, <3>1
      <4> QED
        BY <4>1, <4>2
    <3>2. CASE k # e
      <4>1. k \in 1..d /\ k <= e
        BY <1>3, <2>1, <3>2
      <4> QED
        BY <1>4, <2>3, <4>1
    <3> QED
      BY <3>1, <3>2
  <2> QED
    BY <1>3, <1>5, <2>1, <2>3, <2>4 DEF Inside
<1> QED
  BY <1>0, <1>6, <1>7, <1>8, <1>9 DEF Segments

LEMMA GoneStep ==
  ASSUME NEW segments \in Seq(Segments), NEW n \in Nat, n + 1 <= Len(segments),
         Gone(segments, n)
  PROVE  Gone(segments, n + 1)
<1>1. n + 1 \in 1..Len(segments) /\ (n + 1) - 1 = n
  BY LenProperties
<1>2. Walk(segments)[n + 1] = Descend(Walk(segments)[n], segments[n + 1])
  BY <1>1, WalkSteps
<1>3. Walk(segments)[n + 1] = Outside
  BY <1>2 DEF Gone, Descend
<1> QED
  BY <1>3 DEF Gone

LEMMA WalkIsLexical ==
  ASSUME NEW segments \in Seq(Segments)
  PROVE  Inside(segments, Len(segments)) \/ Gone(segments, Len(segments))
<1> DEFINE T == {n \in Nat : n <= Len(segments) => Inside(segments, n) \/ Gone(segments, n)}
<1>1. 0 \in T
  <2>1. Depth(segments, 0) = 0 /\ Walk(segments)[0] = <<>>
    BY DepthSteps, WalkSteps
  <2>2. 1..0 = {} /\ <<>> \in Seq(Names) /\ Len(<<>>) = 0
    BY EmptySeq
  <2>3. Inside(segments, 0)
    BY <2>1, <2>2 DEF Inside
  <2> QED
    BY <2>3
<1>2. ASSUME NEW n \in Nat, n \in T PROVE n + 1 \in T
  <2> SUFFICES ASSUME n + 1 <= Len(segments)
               PROVE  Inside(segments, n + 1) \/ Gone(segments, n + 1)
    OBVIOUS
  <2>1. Inside(segments, n) \/ Gone(segments, n)
    BY <1>2, LenProperties
  <2> QED
    BY <2>1, InsideStep, GoneStep
<1>3. \A n \in Nat : n \in T
  <2> HIDE DEF T
  <2> QED
    BY <1>1, <1>2, Induction
<1> QED
  BY <1>3, LenProperties

\* Two places cannot both have gone k deep last.
LEMMA PlacedOnce ==
  ASSUME NEW segments, NEW n \in Nat, NEW i \in 1..n, NEW j \in 1..n, NEW k,
         Placed(segments, n, i, k), Placed(segments, n, j, k)
  PROVE  ~(i < j)
<1> SUFFICES ASSUME i < j PROVE FALSE
  OBVIOUS
<1>1. j - 1 \in Nat /\ (j - 1) + 1 = j
  OBVIOUS
<1>2. Depth(segments, j - 1) \in Int /\ Depth(segments, j) = Depth(segments, j - 1) + 1
  BY <1>1, DepthSteps DEF Placed
<1>3. CASE j - 1 = i
  BY <1>2, <1>3 DEF Placed
<1>4. CASE j - 1 # i
  <2>1. j - 1 \in i+1..n
    BY <1>4
  <2> QED
    BY <1>2, <2>1 DEF Placed
<1> QED
  BY <1>3, <1>4

\* The lexical meaning of a path is where the walk along it ends.
LEMMA FollowIsLexical ==
  ASSUME NEW segments \in Seq(Segments)
  PROVE  Follow(segments) = Lexical(segments)
<1> DEFINE N == Len(segments)
           rel == Walk(segments)[N]
           d == Depth(segments, N)
<1>0. N \in Nat /\ DOMAIN segments = 1..N
  BY LenProperties
<1>1. CASE Gone(segments, N)
  BY <1>0, <1>1 DEF Gone, Lexical, Follow
<1>2. CASE Inside(segments, N)
  <2>1. \A i \in 1..N : Depth(segments, i) \in Int /\ Depth(segments, i) >= 0
    <3>1. \A i \in Nat : Depth(segments, i) \in Int
      BY DepthSteps
    <3>2. \A i \in 1..N : i \in Nat
      OBVIOUS
    <3> QED
      BY <1>2, <3>1, <3>2 DEF Inside
  <2>2. rel \in Seq(Names) /\ Len(rel) = d
    BY <1>2 DEF Inside
  <2>3. ASSUME NEW k \in 1..d
        PROVE  rel[k] = segments[CHOOSE i \in DOMAIN segments :
                                   Lasting(segments, i) /\ Depth(segments, i) = k]
    <3>1. PICK i \in 1..N : Placed(segments, N, i, k) /\ rel[k] = segments[i]
      BY <1>2 DEF Inside
    <3>2. \A j \in 1..N : Lasting(segments, j) /\ Depth(segments, j) = k <=> Placed(segments, N, j, k)
      BY DEF Lasting, Placed
    <3> DEFINE c == CHOOSE j \in DOMAIN segments : Lasting(segments, j) /\ Depth(segments, j) = k
    <3>3. c \in 1..N /\ Placed(segments, N, c, k)
      BY <1>0, <3>1, <3>2
    <3>4. c = i
      <4> HIDE DEF c
      <4>1. ~(c < i) /\ ~(i < c)
        BY <1>0, <3>1, <3>3, PlacedOnce
      <4> QED
        BY <3>3, <4>1
    <3> QED
      BY <3>1, <3>4
  <2>4. Lexical(segments) =
          [k \in 1..d |-> segments[CHOOSE i \in DOMAIN segments :
                                     Lasting(segments, i) /\ Depth(segments, i) = k]]
    BY <1>0, <2>1 DEF Lexical
  <2>5. rel = [k \in 1..d |-> rel[k]]
    BY <2>2, LenProperties
  <2> QED
    BY <2>3, <2>4, <2>5 DEF Follow
<1> QED
  BY <1>1, <1>2, WalkIsLexical

-----------------------------------------------------------------------------
(* The bridge's rule.                                                       *)

LEMMA KeptSteps ==
  ASSUME NEW S, NEW segments \in Seq(S)
  PROVE  /\ Kept(segments)[0] = <<>>
         /\ \A n \in 1..Len(segments) :
              Kept(segments)[n] = IF segments[n] = "" THEN Kept(segments)[n - 1]
                                  ELSE Append(Kept(segments)[n - 1], segments[n])
<1> DEFINE N == Len(segments)
           D == Seq(S)
           step == [n \in 1..N |-> [kept \in D |->
                      IF segments[n] = "" THEN kept ELSE Append(kept, segments[n])]]
           Is(f) == f = [n \in 0..N |-> CASE n = 0 -> <<>>
                                          [] n # 0 /\ segments[n] = "" -> f[n - 1]
                                          [] OTHER -> Append(f[n - 1], segments[n])]
<1>0. N \in Nat /\ \A n \in 1..N : segments[n] \in S
  BY LenProperties, ElementOfSeq
<1>1. <<>> \in D
  BY EmptySeq
<1>2. step \in [1..N -> [D -> D]]
  <2>1. \A n \in 1..N, kept \in D : Append(kept, segments[n]) \in D
    BY <1>0, AppendProperties
  <2> HIDE DEF D
  <2> QED
    BY <2>1
<1>3. PICK f \in [0..N -> D] : f[0] = <<>> /\ \A n \in 1..N : f[n] = step[n][f[n - 1]]
  <2>1. N \in Nat
    BY <1>0
  <2> DEFINE start == <<>>
  <2>2. start \in D
    BY <1>1
  <2> HIDE DEF step, N, start, D
  <2>3. \E f \in [0..N -> D] : f[0] = start /\ \A n \in 1..N : f[n] = step[n][f[n - 1]]
    BY <1>2, <2>1, <2>2, Recursion
  <2> QED
    BY <2>3 DEF start
<1>4. Is(f)
  <2>1. ASSUME NEW n \in 0..N
        PROVE  f[n] = CASE n = 0 -> <<>>
                        [] n # 0 /\ segments[n] = "" -> f[n - 1]
                        [] OTHER -> Append(f[n - 1], segments[n])
    <3>1. CASE n = 0
      BY <1>3, <3>1
    <3>2. CASE n # 0
      <4>1. n \in 1..N /\ n - 1 \in 0..N
        BY <1>0, <3>2
      <4>2. f[n - 1] \in D
        BY <4>1
      <4>3. f[n] = IF segments[n] = "" THEN f[n - 1] ELSE Append(f[n - 1], segments[n])
        BY <1>3, <4>1, <4>2
      <4> QED
        BY <3>2, <4>3
    <3> QED
      BY <3>1, <3>2
  <2> HIDE DEF D
  <2> QED
    BY <2>1
<1>5. Is(Kept(segments))
  BY <1>4 DEF Kept
<1> DEFINE kept == Kept(segments)
<1>6. \A n \in 0..N : kept[n] = CASE n = 0 -> <<>>
                                  [] n # 0 /\ segments[n] = "" -> kept[n - 1]
                                  [] OTHER -> Append(kept[n - 1], segments[n])
  <2> HIDE DEF kept
  <2> QED
    BY <1>5 DEF kept
<1>7. kept[0] = <<>>
  <2>1. 0 \in 0..N
    BY <1>0
  <2> HIDE DEF kept, N
  <2>2. kept[0] = CASE 0 = 0 -> <<>>
                   [] 0 # 0 /\ segments[0] = "" -> kept[0 - 1]
                   [] OTHER -> Append(kept[0 - 1], segments[0])
    BY <1>6, <2>1
  <2> QED
    BY <2>2
<1>8. ASSUME NEW n \in 1..N
      PROVE  kept[n] = IF segments[n] = "" THEN kept[n - 1] ELSE Append(kept[n - 1], segments[n])
  <2>1. n \in 0..N /\ n # 0
    BY <1>0
  <2> HIDE DEF kept
  <2> QED
    BY <1>6, <2>1
<1> QED
  BY <1>7, <1>8

LEMMA KeptType ==
  ASSUME NEW S, NEW segments \in Seq(S)
  PROVE  \A n \in 0..Len(segments) : Kept(segments)[n] \in Seq(S)
<1> DEFINE kept == Kept(segments)
           T == {n \in Nat : n <= Len(segments) => kept[n] \in Seq(S)}
<1>0. Len(segments) \in Nat /\ \A n \in 1..Len(segments) : segments[n] \in S
  BY LenProperties, ElementOfSeq
<1>1. 0 \in T
  BY <1>0, KeptSteps, EmptySeq
<1>2. ASSUME NEW n \in Nat, n \in T, n + 1 <= Len(segments) PROVE kept[n + 1] \in Seq(S)
  <2>0. n + 1 \in 1..Len(segments) /\ (n + 1) - 1 = n /\ n <= Len(segments)
    BY <1>0, <1>2
  <2>1. kept[n + 1] = IF segments[n + 1] = "" THEN kept[(n + 1) - 1]
                      ELSE Append(kept[(n + 1) - 1], segments[n + 1])
    BY <1>0, <2>0, KeptSteps
  <2>2. kept[n] \in Seq(S)
    BY <1>2, <2>0
  <2>3. Append(kept[n], segments[n + 1]) \in Seq(S)
    BY <1>0, <2>0, <2>2, AppendProperties
  <2> HIDE DEF kept
  <2> QED
    BY <2>0, <2>1, <2>2, <2>3
<1>3. \A n \in Nat : n \in T
  <2>1. \A n \in Nat : n \in T => n + 1 \in T
    BY <1>2
  <2> HIDE DEF T
  <2> QED
    BY <1>1, <2>1, Induction
<1> QED
  BY <1>0, <1>3

Dotted(segments) == \E i \in DOMAIN segments : segments[i] \in {".", ".."}

LEMMA DottedAppend ==
  ASSUME NEW segments \in Seq(Segments), NEW segment \in Segments
  PROVE  /\ Dotted(segments) => Dotted(Append(segments, segment))
         /\ segment \in {".", ".."} => Dotted(Append(segments, segment))
<1> DEFINE longer == Append(segments, segment)
           n == Len(segments)
<1>1. /\ n \in Nat /\ DOMAIN segments = 1..n
      /\ longer \in Seq(Segments) /\ Len(longer) = n + 1
      /\ \A i \in 1..n : longer[i] = segments[i]
      /\ longer[n + 1] = segment
  BY LenProperties, AppendProperties
<1>2. DOMAIN longer = 1..n + 1
  BY <1>1, LenProperties
<1> HIDE DEF longer, n
<1>3. ASSUME NEW i \in 1..n, segments[i] \in {".", ".."} PROVE Dotted(longer)
  <2>1. i \in 1..n + 1
    BY <1>1
  <2> QED
    BY <1>1, <1>2, <1>3, <2>1 DEF Dotted
<1>4. segment \in {".", ".."} => Dotted(longer)
  <2>1. n + 1 \in 1..n + 1
    BY <1>1
  <2> QED
    BY <1>1, <1>2, <2>1 DEF Dotted
<1> QED
  BY <1>1, <1>3, <1>4 DEF longer, Dotted

\* What the bridge does not refuse, the walk leads to too.
LEMMA KeptIsFollow ==
  ASSUME NEW segments \in Seq(Segments), ~Dotted(Kept(segments)[Len(segments)])
  PROVE  Kept(segments)[Len(segments)] = Follow(segments)
<1> DEFINE kept == Kept(segments)
           at == Walk(segments)
           T == {n \in Nat : n <= Len(segments) =>
                   Dotted(kept[n]) \/ (kept[n] = at[n] /\ at[n] \in Seq(Names))}
<1>0. Len(segments) \in Nat /\ \A n \in 1..Len(segments) : segments[n] \in Segments
  BY LenProperties, ElementOfSeq
<1>1. 0 \in T
  BY <1>0, KeptSteps, WalkSteps, EmptySeq
<1>2. ASSUME NEW n \in Nat, n \in T, n + 1 <= Len(segments)
      PROVE  Dotted(kept[n + 1]) \/ (kept[n + 1] = at[n + 1] /\ at[n + 1] \in Seq(Names))
  <2> DEFINE segment == segments[n + 1]
  <2>0. n + 1 \in 1..Len(segments) /\ (n + 1) - 1 = n /\ n \in 0..Len(segments) /\ segment \in Segments
    BY <1>0, <1>2
  <2>1. kept[n + 1] = IF segment = "" THEN kept[n] ELSE Append(kept[n], segment)
    <3>1. kept[n + 1] = IF segment = "" THEN kept[(n + 1) - 1] ELSE Append(kept[(n + 1) - 1], segment)
      BY <2>0, KeptSteps
    <3> HIDE DEF kept, segment
    <3> QED
      BY <2>0, <3>1
  <2>2. at[n + 1] = Descend(at[n], segment)
    BY <2>0, WalkSteps
  <2>3. kept[n] \in Seq(Segments)
    BY <2>0, KeptType
  <2>4. Dotted(kept[n]) \/ (kept[n] = at[n] /\ at[n] \in Seq(Names))
    BY <1>2, <2>0
  <2> HIDE DEF kept, at, segment
  <2>5. CASE Dotted(kept[n]) \/ segment \in {".", ".."}
    <3>1. Dotted(Append(kept[n], segment))
      BY <2>0, <2>3, <2>5, DottedAppend
    <3>2. segment = "" => Dotted(kept[n])
      BY <2>5
    <3> QED
      BY <2>1, <3>1, <3>2
  <2>6. CASE ~Dotted(kept[n]) /\ segment = ""
    <3>1. kept[n] = at[n] /\ at[n] \in Seq(Names) /\ at[n] # Outside
      BY <2>4, <2>6, NamesApart
    <3>2. Descend(at[n], segment) = at[n]
      BY <2>6, <3>1 DEF Descend
    <3> QED
      BY <2>1, <2>2, <2>6, <3>1, <3>2
  <2>7. CASE ~Dotted(kept[n]) /\ segment \in Names
    <3>1. kept[n] = at[n] /\ at[n] \in Seq(Names)
      BY <2>4, <2>7
    <3>2. Descend(at[n], segment) = Append(at[n], segment) /\ Append(at[n], segment) \in Seq(Names)
      BY <2>7, <3>1, DescendName, AppendProperties
    <3>3. segment # ""
      BY <2>7, NamesApart
    <3> QED
      BY <2>1, <2>2, <3>1, <3>2, <3>3
  <2> QED
    BY <2>0, <2>5, <2>6, <2>7 DEF Segments
<1>3. \A n \in Nat : n \in T
  <2>1. \A n \in Nat : n \in T => n + 1 \in T
    BY <1>2
  <2> HIDE DEF T
  <2> QED
    BY <1>1, <2>1, Induction
<1> QED
  BY <1>0, <1>3 DEF Follow

-----------------------------------------------------------------------------
(* The way from one directory to another.                                   *)

LEMMA Greatest ==
  ASSUME NEW M, M \subseteq Nat, M # {}, NEW N \in Nat, \A k \in M : k <= N
  PROVE  \E m \in M : \A k \in M : k <= m
<1> DEFINE T == {n \in Nat : (\A k \in M : k <= n) => \E m \in M : \A k \in M : k <= m}
<1>1. 0 \in T
  <2> SUFFICES ASSUME \A k \in M : k <= 0 PROVE \E m \in M : \A k \in M : k <= m
    OBVIOUS
  <2>1. PICK m \in M : TRUE
    OBVIOUS
  <2>2. \A k \in M : k <= m
    OBVIOUS
  <2> QED
    BY <2>2
<1>2. ASSUME NEW n \in Nat, n \in T, \A k \in M : k <= n + 1
      PROVE  \E m \in M : \A k \in M : k <= m
  <2>1. CASE n + 1 \in M
    BY <1>2, <2>1
  <2>2. CASE n + 1 \notin M
    <3>1. \A k \in M : k <= n
      BY <1>2, <2>2
    <3> QED
      BY <1>2, <3>1
  <2> QED
    BY <2>1, <2>2
<1>3. \A n \in Nat : n \in T
  <2>1. \A n \in Nat : n \in T => n + 1 \in T
    BY <1>2
  <2> HIDE DEF T
  <2> QED
    BY <1>1, <2>1, Induction
<1> QED
  BY <1>3

Shared(from, to) == Len(LongestCommonPrefix({from, to}))

\* Of two paths, the one is a prefix of the other when they share all of it.
LEMMA SharedIsPrefix ==
  ASSUME NEW S, NEW from \in Seq(S), NEW to \in Seq(S)
  PROVE  /\ Shared(from, to) \in 0..Len(from)
         /\ Shared(from, to) = Len(from) <=> IsPrefix(from, to)
<1> DEFINE C == CommonPrefixes({from, to})
           longest == LongestCommonPrefix({from, to})
<1>0. Len(from) \in Nat /\ Len(to) \in Nat
  BY LenProperties
<1>1. \A prefix \in C : IsPrefix(prefix, from) /\ IsPrefix(prefix, to)
  BY DEF CommonPrefixes
<1>2. \A l \in 0..Len(from) :
        IsPrefix(SubSeq(from, 1, l), from) /\ IsPrefix(SubSeq(from, 1, l), to)
          => SubSeq(from, 1, l) \in C
  BY DEF CommonPrefixes, Prefixes
<1>3. ASSUME NEW prefix \in C
      PROVE  prefix \in Seq(S) /\ Len(prefix) \in Nat /\ Len(prefix) <= Len(from)
  <2>1. PICK s \in {from, to} : \E l \in 0..Len(s) : prefix = SubSeq(s, 1, l)
    BY DEF CommonPrefixes, Prefixes
  <2>2. PICK l \in 0..Len(s) : prefix = SubSeq(s, 1, l)
    BY <2>1
  <2>3. s \in Seq(S)
    BY <2>1
  <2>4. \A i \in 1..l : s[i] \in S
    BY <2>3, LenProperties
  <2>5. 1 \in Int /\ l \in Int
    BY <2>3, LenProperties
  <2>6. SubSeq(s, 1, l) \in Seq(S)
    BY <2>4, <2>5, SubSeqProperties
  <2> QED
    BY <1>1, <2>2, <2>6, LenProperties DEF IsPrefix
<1>4. longest \in C /\ \A other \in C : Len(other) <= Len(longest)
  <2> DEFINE M == {Len(prefix) : prefix \in C}
  <2>1. M \subseteq Nat /\ \A k \in M : k <= Len(from)
    BY <1>3
  <2>2. M # {}
    <3>1. SubSeq(from, 1, 0) = <<>>
      BY SubSeqEmpty
    <3>2. \A s : SubSeq(s, 1, 0) = <<>>
      BY SubSeqEmpty
    <3>3. Len(<<>>) = 0
      BY EmptySeq
    <3>4. IsPrefix(<<>>, from) /\ IsPrefix(<<>>, to)
      BY <1>0, <3>2, <3>3 DEF IsPrefix
    <3>5. 0 \in 0..Len(from)
      BY <1>0
    <3>6. SubSeq(from, 1, 0) \in C
      BY <1>2, <3>1, <3>4, <3>5
    <3> QED
      BY <3>6
  <2>3. \E m \in M : \A k \in M : k <= m
    <3> HIDE DEF M
    <3> QED
      BY <1>0, <2>1, <2>2, Greatest
  <2>4. \E prefix \in C : \A other \in C : Len(other) <= Len(prefix)
    BY <2>3
  <2> HIDE DEF C
  <2> QED
    BY <2>4 DEF LongestCommonPrefix, C
<1> HIDE DEF C, longest
<1>5. Len(longest) \in 0..Len(from)
  BY <1>0, <1>3, <1>4
<1>6. ASSUME IsPrefix(from, to) PROVE Len(longest) = Len(from)
  <2>1. SubSeq(from, 1, Len(from)) = from
    BY SubSeqFull
  <2>2. IsPrefix(from, from)
    BY <1>0 DEF IsPrefix
  <2>3. Len(from) \in 0..Len(from)
    BY <1>0
  <2>4. from \in C
    BY <1>2, <1>6, <2>1, <2>2, <2>3
  <2> QED
    BY <1>0, <1>4, <1>5, <2>4
<1>7. ASSUME Len(longest) = Len(from) PROVE IsPrefix(from, to)
  <2>1. IsPrefix(longest, from) /\ IsPrefix(longest, to)
    BY <1>1, <1>4
  <2> QED
    BY <1>7, <2>1 DEF IsPrefix
<1> QED
  BY <1>5, <1>6, <1>7 DEF Shared, longest

\* The way down has only names, and any other begins with "..".
LEMMA ContainsPathIsPrefix ==
  ASSUME NEW S, ".." \notin S, NEW from \in Seq(S), NEW to \in Seq(S)
  PROVE  ContainsPath(from, to) <=> IsPrefix(from, to)
<1> DEFINE shared == Shared(from, to)
           up == [i \in 1..Len(from) - shared |-> ".."]
           down == SubSeq(to, shared + 1, Len(to))
           way == up \o down
           T == S \cup {".."}
<1>0. /\ Len(from) \in Nat /\ Len(to) \in Nat /\ shared \in 0..Len(from)
      /\ shared = Len(from) <=> IsPrefix(from, to)
  BY LenProperties, SharedIsPrefix
<1>1. ContainsPath(from, to) <=> way = <<>> \/ way[1] # ".."
  BY DEF ContainsPath, Relative, Shared
<1>2. down \in Seq(T) /\ down \in Seq(S)
  <2>1. \A i \in shared + 1..Len(to) : to[i] \in S
    BY <1>0, LenProperties
  <2>2. shared + 1 \in Int /\ Len(to) \in Int
    BY <1>0
  <2> HIDE DEF shared
  <2>3. down \in Seq(S)
    BY <2>1, <2>2, SubSeqProperties
  <2>4. S \subseteq T
    OBVIOUS
  <2> HIDE DEF down, T
  <2> QED
    BY <2>3, <2>4, SeqMonotonic
<1>3. up \in Seq(T) /\ Len(up) = Len(from) - shared
      /\ (Len(from) - shared >= 1 => up[1] = "..")
  <2> DEFINE m == Len(from) - shared
  <2>1. m \in Nat
    BY <1>0
  <2> HIDE DEF m, shared
  <2>2. [i \in 1..m |-> ".."] \in [1..m -> T]
    OBVIOUS
  <2>3. [i \in 1..m |-> ".."] \in Seq(T)
    BY <2>1, <2>2, SeqDef
  <2>4. DOMAIN [i \in 1..m |-> ".."] = 1..m
    OBVIOUS
  <2>5. Len([i \in 1..m |-> ".."]) = m
    BY <2>1, <2>3
  <2>6. m >= 1 => [i \in 1..m |-> ".."][1] = ".."
    BY <2>1
  <2> QED
    BY <2>3, <2>5, <2>6 DEF m
<1> HIDE DEF shared, up, down, T
<1>4. /\ Len(way) = Len(up) + Len(down)
      /\ \A i \in 1..Len(up) + Len(down) :
           way[i] = IF i <= Len(up) THEN up[i] ELSE down[i - Len(up)]
      /\ Len(down) \in Nat
  BY <1>2, <1>3, ConcatProperties, LenProperties
<1> HIDE DEF way
<1>5. ASSUME shared # Len(from) PROVE ~(way = <<>> \/ way[1] # "..")
  <2>1. Len(up) >= 1 /\ Len(up) \in Nat
    BY <1>0, <1>3, <1>5
  <2>2. 1 \in 1..Len(up) + Len(down)
    BY <1>4, <2>1
  <2>3. way[1] = ".."
    BY <1>0, <1>3, <1>4, <2>1, <2>2
  <2>4. Len(way) # 0
    BY <1>4, <2>1
  <2>5. way # <<>>
    BY <2>4, EmptySeq
  <2> QED
    BY <2>3, <2>5
<1>6. ASSUME shared = Len(from) PROVE way = <<>> \/ way[1] # ".."
  <2>1. up = <<>>
    <3>1. Len(up) = 0
      BY <1>0, <1>3, <1>6
    <3> QED
      BY <1>3, <3>1, EmptySeq
  <2>2. way = down
    BY <1>2, <2>1, ConcatEmptySeq DEF way
  <2>3. CASE down = <<>>
    BY <2>2, <2>3
  <2>4. CASE down # <<>>
    <3>1. 1 \in 1..Len(down)
      BY <1>2, <2>4, EmptySeq
    <3>2. down[1] \in S
      BY <1>2, <3>1, ElementOfSeq
    <3> QED
      BY <2>2, <3>2
  <2> QED
    BY <2>3, <2>4
<1> QED
  BY <1>0, <1>1, <1>5, <1>6

-----------------------------------------------------------------------------
(* A backslash is a slash.                                                  *)

Written == Names \cup Backslashed

LEMMA WrittenApart ==
  /\ Written \cap {"", ".", ".."} = {} /\ Outside \notin Seq(Written)
  /\ Seq(Written) \subseteq Seq(Segments \cup Backslashed)
  /\ Seq(Names) \subseteq Seq(Written) /\ Seq(Segments) \subseteq Seq(Segments \cup Backslashed)
<1>1. /\ Written \subseteq Segments \cup Backslashed
      /\ Names \subseteq Written /\ Segments \subseteq Segments \cup Backslashed
  BY DEF Written, Segments
<1> HIDE DEF Written
<1>2. /\ Seq(Written) \subseteq Seq(Segments \cup Backslashed)
      /\ Seq(Names) \subseteq Seq(Written)
      /\ Seq(Segments) \subseteq Seq(Segments \cup Backslashed)
  BY <1>1, SeqMonotonic
<1> QED
  BY <1>2, WorkspaceAssumption DEF Written

Recurs(f, D, a, N, step) ==
  f \in [0..N -> D] /\ f[0] = a /\ \A n \in 1..N : f[n] = step[n][f[n - 1]]

LEMMA RecursionRuns ==
  ASSUME NEW D, NEW a \in D, NEW N \in Nat, NEW step \in [1..N -> [D -> D]]
  PROVE  \E f : Recurs(f, D, a, N, step)
<1>1. \E f \in [0..N -> D] : f[0] = a /\ \A n \in 1..N : f[n] = step[n][f[n - 1]]
  BY Recursion
<1> QED
  BY <1>1 DEF Recurs

Gathers(g, D, N, seqs) ==
  /\ g \in [0..N -> D] /\ g[0] = <<>>
  /\ \A n \in 1..N : g[n] = g[n - 1] \o seqs[n]

LEMMA ConcatSteps ==
  ASSUME NEW S, NEW N \in Nat, NEW seqs \in [1..N -> Seq(S)]
  PROVE  \E g : Gathers(g, Seq(S), N, seqs)
<1> DEFINE D == Seq(S)
           step == [n \in 1..N |-> [s \in D |-> s \o seqs[n]]]
           start == <<>>
<1>1. step \in [1..N -> [D -> D]]
  <2>1. \A n \in 1..N, s \in D : s \o seqs[n] \in D
    BY ConcatProperties
  <2> HIDE DEF D
  <2> QED
    BY <2>1
<1>2. start \in D
  BY EmptySeq
<1>3. PICK f : Recurs(f, D, start, N, step)
  <2> HIDE DEF step, start, D
  <2> QED
    BY <1>1, <1>2, RecursionRuns
<1>4. f \in [0..N -> D] /\ f[0] = start /\ \A n \in 1..N : f[n] = step[n][f[n - 1]]
  BY <1>3 DEF Recurs
<1>5. ASSUME NEW n \in 1..N PROVE f[n] = f[n - 1] \o seqs[n]
  <2>1. n - 1 \in 0..N
    OBVIOUS
  <2>2. f[n - 1] \in D /\ f[n] = step[n][f[n - 1]]
    BY <1>4, <2>1
  <2> QED
    BY <2>2
<1> QED
  BY <1>4, <1>5 DEF Gathers

\* The sequences put one after the other, unfolded at each.
Flattens(f, seqs) ==
  /\ f[1] = seqs[1]
  /\ \A n \in 2..Len(seqs) : f[n] = f[n - 1] \o seqs[n]
  /\ FlattenSeq(seqs) = f[Len(seqs)]

LEMMA FlattenSteps ==
  ASSUME NEW S, NEW seqs \in Seq(Seq(S)), Len(seqs) # 0
  PROVE  \E f : Flattens(f, seqs)
<1> DEFINE N == Len(seqs)
           D == Seq(S)
           Is(f) == f = [n \in 1..N |-> IF n = 1 THEN seqs[n] ELSE f[n - 1] \o seqs[n]]
<1>0. N \in Nat /\ N # 0 /\ \A n \in 1..N : seqs[n] \in D
  BY LenProperties, ElementOfSeq
<1>1. seqs \in [1..N -> D]
  BY <1>0
<1>2. PICK g : g \in [0..N -> D] /\ g[0] = <<>> /\ \A n \in 1..N : g[n] = g[n - 1] \o seqs[n]
  <2>1. PICK g : Gathers(g, Seq(S), N, seqs)
    <3> HIDE DEF N
    <3> QED
      BY <1>0, <1>1, ConcatSteps DEF D
  <2> QED
    BY <2>1 DEF Gathers
<1>3. Is([n \in 1..N |-> g[n]])
  <2> DEFINE f == [n \in 1..N |-> g[n]]
  <2>1. ASSUME NEW n \in 1..N PROVE f[n] = IF n = 1 THEN seqs[n] ELSE f[n - 1] \o seqs[n]
    <3>0. n - 1 \in 0..N /\ n \in Int
      BY <1>0
    <3>1. g[n] = g[n - 1] \o seqs[n]
      BY <1>2
    <3>2. CASE n = 1
      <4>1. g[1 - 1] = <<>> /\ seqs[n] \in Seq(S)
        BY <1>0, <1>2
      <4>2. g[n] = <<>> \o seqs[n]
        BY <3>1, <3>2, <4>1
      <4> QED
        BY <3>2, <4>1, <4>2, ConcatEmptySeq
    <3>3. CASE n # 1
      <4>1. n - 1 \in 1..N
        BY <1>0, <3>3
      <4> QED
        BY <3>1, <3>3, <4>1
    <3> QED
      BY <3>2, <3>3
  <2> QED
    BY <2>1
<1>4. \E f : Is(f) /\ FlattenSeq(seqs) = f[N]
  BY <1>0, <1>3 DEF FlattenSeq
<1>5. PICK f : Is(f) /\ FlattenSeq(seqs) = f[N]
  BY <1>4
<1>6. \A n \in 1..N : f[n] = IF n = 1 THEN seqs[n] ELSE f[n - 1] \o seqs[n]
  BY <1>5
<1>7. f[1] = seqs[1] /\ \A n \in 2..N : f[n] = f[n - 1] \o seqs[n]
  <2>1. 1 \in 1..N /\ \A n \in 2..N : n \in 1..N /\ n # 1
    BY <1>0
  <2> HIDE DEF N
  <2> QED
    BY <1>6, <2>1
<1> QED
  BY <1>5, <1>7 DEF Flattens

Parted(segments) ==
  [i \in DOMAIN segments |->
     IF segments[i] \in Backslashed THEN Slashed[segments[i]] ELSE <<segments[i]>>]

LEMMA PartedType ==
  ASSUME NEW segments \in Seq(Segments \cup Backslashed)
  PROVE  /\ Parted(segments) \in Seq(Seq(Segments)) /\ Len(Parted(segments)) = Len(segments)
         /\ Slashes(segments) = FlattenSeq(Parted(segments))
<1> DEFINE N == Len(segments)
           D == Seq(Segments)
<1>1. N \in Nat /\ DOMAIN segments = 1..N /\ \A i \in 1..N : segments[i] \in Segments \cup Backslashed
  BY LenProperties, ElementOfSeq
<1>2. ASSUME NEW i \in 1..N PROVE Parted(segments)[i] \in D
  <2>1. segments[i] \in Backslashed => Slashed[segments[i]] \in D
    BY WorkspaceAssumption
  <2>2. segments[i] \notin Backslashed => <<segments[i]>> \in D
    BY <1>1
  <2> QED
    BY <1>1, <2>1, <2>2 DEF Parted
<1>3. Parted(segments) \in [1..N -> D]
  BY <1>1, <1>2 DEF Parted
<1> HIDE DEF D
<1>4. Parted(segments) \in Seq(D)
  BY <1>1, <1>3, SeqDef
<1>5. Len(Parted(segments)) = N
  BY <1>1, <1>3, <1>4, LenProperties
<1>6. Slashes(segments) = FlattenSeq(Parted(segments))
  BY DEF Slashes, Parted
<1> QED
  BY <1>4, <1>5, <1>6 DEF D

\* Without its backslashes a path is one of names and dots.
LEMMA SlashesType ==
  ASSUME NEW segments \in Seq(Segments \cup Backslashed)
  PROVE  Slashes(segments) \in Seq(Segments)
<1> DEFINE parted == Parted(segments)
           N == Len(parted)
           D == Seq(Segments)
<1>0. parted \in Seq(D) /\ N \in Nat /\ Slashes(segments) = FlattenSeq(parted)
      /\ \A n \in 1..N : parted[n] \in D
  BY PartedType, LenProperties
<1> HIDE DEF parted
<1>1. CASE N = 0
  <2>1. FlattenSeq(parted) = <<>>
    BY <1>0, <1>1, EmptySeq DEF FlattenSeq
  <2> QED
    BY <1>0, <2>1, EmptySeq
<1>2. CASE N # 0
  <2>1. PICK f : /\ f[1] = parted[1]
                 /\ \A n \in 2..N : f[n] = f[n - 1] \o parted[n]
                 /\ FlattenSeq(parted) = f[N]
    <3>1. PICK f : Flattens(f, parted)
      BY <1>0, <1>2, FlattenSteps
    <3> QED
      BY <3>1 DEF Flattens
  <2>2. N \in 1..N
    BY <1>0, <1>2
  <2> DEFINE T == {n \in Nat : n \in 1..N => f[n] \in D}
  <2>3. 0 \in T
    OBVIOUS
  <2>4. ASSUME NEW n \in Nat, n \in T PROVE n + 1 \in T
    <3> SUFFICES ASSUME n + 1 \in 1..N PROVE f[n + 1] \in D
      OBVIOUS
    <3>1. CASE n = 0
      BY <1>0, <2>1, <3>1
    <3>2. CASE n # 0
      <4>1. n \in 1..N /\ n + 1 \in 2..N /\ (n + 1) - 1 = n
        BY <1>0, <3>2
      <4>2. f[n] \in D /\ parted[n + 1] \in D
        BY <1>0, <2>4, <4>1
      <4>3. f[n + 1] = f[n] \o parted[n + 1]
        BY <2>1, <4>1
      <4> QED
        BY <4>2, <4>3, ConcatProperties
    <3> QED
      BY <3>1, <3>2
  <2>5. \A n \in Nat : n \in T
    <3> HIDE DEF T
    <3> QED
      BY <2>3, <2>4, Induction
  <2> QED
    BY <1>0, <2>1, <2>2, <2>5
<1> QED
  BY <1>1, <1>2

\* A path that has none stays as it is.
LEMMA SlashesKeep ==
  ASSUME NEW segments \in Seq(Segments)
  PROVE  Slashes(segments) = segments
<1> DEFINE parted == Parted(segments)
           N == Len(segments)
<1>0. /\ segments \in Seq(Segments \cup Backslashed) /\ N \in Nat
      /\ DOMAIN segments = 1..N /\ \A n \in 1..N : segments[n] \in Segments
  BY WrittenApart, LenProperties, ElementOfSeq
<1>1. parted \in Seq(Seq(Segments)) /\ Len(parted) = N /\ Slashes(segments) = FlattenSeq(parted)
  BY <1>0, PartedType
<1>2. \A n \in 1..N : parted[n] = <<segments[n]>>
  <2>1. Segments \cap Backslashed = {}
    BY WorkspaceAssumption DEF Segments
  <2> QED
    BY <1>0, <2>1 DEF Parted
<1> HIDE DEF parted
<1>3. CASE N = 0
  <2>1. parted = <<>> /\ segments = <<>>
    BY <1>1, <1>3, EmptySeq
  <2>2. FlattenSeq(parted) = <<>>
    BY <2>1, EmptySeq DEF FlattenSeq
  <2> QED
    BY <1>1, <2>1, <2>2
<1>4. CASE N # 0
  <2>1. PICK f : /\ f[1] = parted[1]
                 /\ \A n \in 2..N : f[n] = f[n - 1] \o parted[n]
                 /\ FlattenSeq(parted) = f[N]
    <3>1. PICK f : Flattens(f, parted)
      BY <1>1, <1>4, FlattenSteps
    <3> QED
      BY <1>1, <3>1 DEF Flattens
  <2> DEFINE T == {n \in Nat : n \in 1..N => f[n] = SubSeq(segments, 1, n)}
  <2>2. 0 \in T
    OBVIOUS
  <2>3. ASSUME NEW n \in Nat, n \in T PROVE n + 1 \in T
    <3> SUFFICES ASSUME n + 1 \in 1..N PROVE f[n + 1] = SubSeq(segments, 1, n + 1)
      OBVIOUS
    <3>1. SubSeq(segments, 1, n + 1) = SubSeq(segments, 1, n) \o <<segments[n + 1]>>
      <4>1. 1 \in 1..N /\ n + 1 \in 1..N /\ n + 1 - 1 = n
        BY <1>0
      <4> QED
        BY <4>1, SubSeqRecursiveSecond
    <3>2. CASE n = 0
      <4>1. SubSeq(segments, 1, n) = <<>> /\ <<segments[n + 1]>> \in Seq(Segments) /\ n + 1 = 1
        BY <1>0, <3>2, SubSeqEmpty
      <4>2. SubSeq(segments, 1, n + 1) = <<segments[n + 1]>>
        BY <3>1, <4>1, ConcatEmptySeq
      <4> QED
        BY <1>2, <2>1, <4>1, <4>2
    <3>3. CASE n # 0
      <4>1. n \in 1..N /\ n + 1 \in 2..N /\ (n + 1) - 1 = n
        BY <1>0, <3>3
      <4>2. f[n] = SubSeq(segments, 1, n)
        BY <2>3, <4>1
      <4>3. f[n + 1] = f[n] \o <<segments[n + 1]>>
        BY <1>2, <2>1, <4>1
      <4> QED
        BY <3>1, <4>2, <4>3
    <3> QED
      BY <3>2, <3>3
  <2>4. \A n \in Nat : n \in T
    <3> HIDE DEF T
    <3> QED
      BY <2>2, <2>3, Induction
  <2>5. f[N] = SubSeq(segments, 1, N)
    BY <1>0, <1>4, <2>4
  <2> QED
    BY <1>1, <2>1, <2>5, SubSeqFull
<1> QED
  BY <1>3, <1>4

-----------------------------------------------------------------------------
(* Paths, working directories and what they are resolved to.                *)

LEMMA PathsTyped ==
  ASSUME NEW n, NEW p \in PathsUpTo(n)
  PROVE  p \in [root: Roots, segments: Seq(Segments)]
<1>1. p \in [root: Roots, segments: BoundedSeq(Segments, n)]
  BY DEF PathsUpTo
<1>2. BoundedSeq(Segments, n) \subseteq Seq(Segments)
  <2> SUFFICES ASSUME NEW s \in BoundedSeq(Segments, n) PROVE s \in Seq(Segments)
    OBVIOUS
  <2>1. PICK m \in 0..n : s \in [1..m -> Segments]
    BY DEF BoundedSeq, SeqOf
  <2>2. m \in Nat
    OBVIOUS
  <2> QED
    BY <2>1, <2>2, SeqDef
<1> QED
  BY <1>1, <1>2

LEMMA FollowType ==
  ASSUME NEW segments \in Seq(Segments)
  PROVE  Follow(segments) \in Targets
BY WalkType, LenProperties DEF Follow

Typed == [root: Roots, segments: Seq(Segments \cup Backslashed)]

Way(p) == Slashes(p.segments)

LEMMA WayType ==
  ASSUME NEW p \in Typed
  PROVE  p.root \in Roots /\ Way(p) \in Seq(Segments)
BY SlashesType DEF Typed, Way

LEMMA PathsAreTyped ==
  ASSUME NEW n, NEW p \in PathsUpTo(n)
  PROVE  p \in Typed /\ Way(p) = p.segments
<1>1. p \in [root: Roots, segments: Seq(Segments)]
  BY PathsTyped
<1>2. p.segments \in Seq(Segments)
  BY <1>1
<1> QED
  BY <1>1, <1>2, WrittenApart, SlashesKeep DEF Typed, Way

\* A working directory that leads nowhere counts as the root.
LEMMA CwdBaseIs ==
  ASSUME NEW dir \in Typed
  PROVE  /\ CwdBase(dir) = IF dir.root = "elsewhere" \/ Follow(Way(dir)) = Outside THEN <<>>
                           ELSE Follow(Way(dir))
         /\ CwdBase(dir) \in Seq(Names)
<1>1. Way(dir) \in Seq(Segments) /\ dir.root \in Roots
  BY WayType
<1>2. <<>> \o Way(dir) = Way(dir)
  BY <1>1, ConcatEmptySeq
<1>3. WorkspaceRel(dir, <<>>) = IF dir.root = "elsewhere" THEN Outside ELSE Follow(Way(dir))
  BY <1>1, <1>2 DEF WorkspaceRel, Roots, Way
<1>4. Follow(Way(dir)) \in Targets /\ <<>> \in Seq(Names)
  BY <1>1, FollowType, EmptySeq
<1>5. CwdBase(dir) = IF WorkspaceRel(dir, <<>>) = Outside THEN <<>> ELSE WorkspaceRel(dir, <<>>)
  BY DEF CwdBase
<1> QED
  BY <1>3, <1>4, <1>5 DEF Targets

LEMMA ResolveType ==
  ASSUME NEW p \in Typed, NEW dir \in Typed
  PROVE  Resolve(p, dir) \in Targets
<1>1. Way(p) \in Seq(Segments) /\ p.root \in Roots
  BY WayType
<1>2. CwdBase(dir) \in Seq(Segments)
  BY CwdBaseIs, NamesAreSegments
<1>3. CwdBase(dir) \o Way(p) \in Seq(Segments)
  BY <1>1, <1>2, ConcatProperties
<1>4. /\ Follow(Way(p)) \in Targets
      /\ Follow(CwdBase(dir) \o Way(p)) \in Targets
      /\ Outside \in Targets
  BY <1>1, <1>3, FollowType DEF Targets
<1> QED
  BY <1>1, <1>4 DEF Resolve, WorkspaceRel, Roots, Way

\* The path shown for a file leads where its names do, from whatever directory:
\* back to it when none of them has a backslash.
LEMMA ShownPathLeads ==
  ASSUME NEW names, NEW dir
  PROVE  Resolve(DisplayPath(names), dir) = Follow(Slashes(names))
<1>1. ~Blank(DisplayPath(names))
  BY DEF Blank, DisplayPath
<1>2. WorkspaceRel(DisplayPath(names), CwdBase(dir)) = Follow(Slashes(names))
  BY DEF WorkspaceRel, DisplayPath
<1> QED
  BY <1>1, <1>2 DEF Resolve

LEMMA ShownPathLeadsBack ==
  ASSUME NEW names \in Seq(Names), NEW dir
  PROVE  Resolve(DisplayPath(names), dir) = names
<1>1. names \in Seq(Segments)
  BY NamesAreSegments
<1> QED
  BY <1>1, ShownPathLeads, SlashesKeep, FollowNames

-----------------------------------------------------------------------------
(* The type, which is inductive as it stands: a path that is resolved is    *)
(* converted first, and so ends at names without a backslash.               *)

LEMMA WorkspaceInit == Init => TypeOK
<1> SUFFICES ASSUME Init PROVE TypeOK
  OBVIOUS
<1>1. path \in Typed /\ cwd \in Typed /\ cwd \in Cwds
  BY PathsAreTyped DEF Init, Paths, Cwds
<1>2. Resolve(path, cwd) \in Targets
  BY <1>1, ResolveType
<1> QED
  BY <1>1, <1>2, WrittenApart DEF Init, TypeOK, Typed, Targets, Written

LEMMA WorkspaceStep == TypeOK /\ [Next]_vars => TypeOK'
<1> SUFFICES ASSUME TypeOK, [Next]_vars PROVE TypeOK'
  OBVIOUS
<1>1. ASSUME NEW names \in Seq(Written) PROVE DisplayPath(names) \in Typed
  BY WrittenApart DEF DisplayPath, Roots, Typed
<1>2. CASE UseShownPath
  <2>1. target \in Seq(Written) /\ path' = DisplayPath(target) /\ cwd' \in Cwds
    BY <1>2 DEF UseShownPath, TypeOK, Written
  <2>2. path' \in Typed /\ cwd' \in Typed
    BY <1>1, <2>1, PathsAreTyped DEF Cwds
  <2>3. target' \in Targets
    <3>1. target' = Resolve(path', cwd')
      BY <1>2 DEF UseShownPath
    <3> QED
      BY <2>2, <3>1, ResolveType
  <2> QED
    BY <2>1, <2>2, <2>3, WrittenApart DEF TypeOK, Typed, Targets, Written
<1>3. CASE ListDir
  <2>1. target \in Seq(Written)
    BY <1>3 DEF ListDir, TypeOK, Written
  <2>2. target' \in Seq(Written)
    BY <1>3, <2>1, AppendProperties DEF ListDir, Written
  <2>3. path' \in Typed
    BY <1>1, <1>3, <2>2 DEF ListDir
  <2> QED
    BY <1>3, <2>2, <2>3 DEF ListDir, TypeOK, Typed, Written
<1>4. CASE UNCHANGED vars
  BY <1>4 DEF vars, TypeOK
<1> QED
  BY <1>2, <1>3, <1>4 DEF Next

\* Every path has its segments, and what a path is resolved to is refused or a
\* sequence of names, none of them empty or made of dots, however long
\* (workspaceRel, bridge.js).
THEOREM WorkspaceTypeCorrect == Spec => []TypeOK
BY WorkspaceInit, WorkspaceStep, PTL DEF Spec

\* workspaceRel follows a path from segment to segment, taking back the last
\* name at "..": where it ends, and when it refuses, is what the path means as
\* a whole, the working directory's segments before its own.
THEOREM LexicalCorrect == Spec => []PathsResolveLexically
<1>1. TypeOK => PathsResolveLexically
  <2> SUFFICES ASSUME TypeOK PROVE PathsResolveLexically
    OBVIOUS
  <2> DEFINE p == Way(path)
             c == cwd.segments
             below == CASE path.root = "workspace" \/ cwd.root = "elsewhere" -> <<>>
                        [] Lexical(cwd.segments) = Outside -> <<>>
                        [] OTHER -> cwd.segments
  <2>1. path \in Typed /\ cwd \in Typed /\ Way(cwd) = c
    BY PathsAreTyped DEF TypeOK, Cwds, Typed
  <2>2. p \in Seq(Segments) /\ c \in Seq(Segments) /\ path.root \in Roots
    BY <2>1, WayType
  <2>3. <<>> \o p = p /\ c \o p \in Seq(Segments)
    BY <2>2, ConcatEmptySeq, ConcatProperties
  <2>4. Follow(p) = Lexical(p) /\ Follow(c) = Lexical(c) /\ Follow(c \o p) = Lexical(c \o p)
    BY <2>2, <2>3, FollowIsLexical
  <2>5. CwdBase(cwd) = IF cwd.root = "elsewhere" \/ Follow(c) = Outside THEN <<>> ELSE Follow(c)
    BY <2>1, CwdBaseIs
  <2>6. Follow(c) # Outside => Follow(Follow(c) \o p) = Follow(c \o p)
    BY <2>2, FollowOn
  <2>7. CASE path.root = "workspace"
    <3>1. below = <<>> /\ Resolve(path, cwd) = Follow(p) /\ ~Blank(path)
      BY <2>7 DEF Resolve, WorkspaceRel, Blank, Way
    <3> QED
      BY <2>3, <2>4, <2>7, <3>1 DEF PathsResolveLexically, Way
  <2>8. CASE path.root = "elsewhere"
    BY <2>8 DEF PathsResolveLexically, Resolve, WorkspaceRel
  <2>9. CASE path.root = "none"
    <3>1. Resolve(path, cwd) = IF Blank(path) THEN Outside ELSE Follow(CwdBase(cwd) \o p)
      BY <2>9 DEF Resolve, WorkspaceRel, Way
    <3>2. CASE cwd.root = "elsewhere" \/ Follow(c) = Outside
      <4>1. CwdBase(cwd) = <<>> /\ below = <<>>
        BY <2>4, <2>5, <2>9, <3>2
      <4> QED
        BY <2>3, <2>4, <2>9, <3>1, <4>1 DEF PathsResolveLexically, Way
    <3>3. CASE ~(cwd.root = "elsewhere" \/ Follow(c) = Outside)
      <4>1. CwdBase(cwd) = Follow(c) /\ below = c
        BY <2>4, <2>5, <2>9, <3>3
      <4> QED
        BY <2>4, <2>6, <2>9, <3>1, <3>3, <4>1 DEF PathsResolveLexically, Way
    <3> QED
      BY <3>2, <3>3
  <2> QED
    BY <2>2, <2>7, <2>8, <2>9 DEF Roots
<1> QED
  BY <1>1, WorkspaceTypeCorrect, PTL

\* What the bridge makes of a key that it does not refuse is where the walk
\* along it leads; a key of names only is not refused.
LEMMA SentIsFollow ==
  ASSUME NEW names \in Seq(Written)
  PROVE  LET sent == RelativePath([root |-> "none", segments |-> names])
         IN sent \in {Follow(Slashes(names)), Outside}
<1> DEFINE p == [root |-> "none", segments |-> names]
           way == Slashes(names)
           kept == Kept(way)[Len(way)]
<1>1. way \in Seq(Segments)
  BY WrittenApart, SlashesType
<1>2. Parts(p) = kept
  BY <1>1, ConcatEmptySeq DEF Parts, Leading
<1>3. RelativePath(p) = IF Dotted(kept) THEN Outside ELSE kept
  BY <1>2 DEF RelativePath, Dotted
<1>4. ~Dotted(kept) => kept = Follow(way)
  BY <1>1, KeptIsFollow
<1> QED
  BY <1>3, <1>4

LEMMA RelativePathOfNames ==
  ASSUME NEW names \in Seq(Names)
  PROVE  RelativePath([root |-> "none", segments |-> names]) = names
<1> DEFINE p == [root |-> "none", segments |-> names]
           kept == Kept(names)[Len(names)]
<1>1. names \in Seq(Segments)
  BY NamesAreSegments
<1>2. Parts(p) = kept
  BY <1>1, SlashesKeep, ConcatEmptySeq DEF Parts, Leading
<1>3. kept \in Seq(Names)
  BY KeptType, LenProperties
<1> HIDE DEF kept, p
<1>4. ~Dotted(kept)
  <2>1. \A i \in DOMAIN kept : kept[i] \in Names
    BY <1>3, LenProperties
  <2> QED
    BY <2>1, NamesApart DEF Dotted
<1>5. RelativePath(p) = kept
  BY <1>2, <1>4 DEF RelativePath, Dotted
<1>6. kept = names
  <2>1. kept = Follow(names)
    BY <1>1, <1>4, KeptIsFollow DEF kept
  <2> QED
    BY <2>1, FollowNames
<1> QED
  BY <1>5, <1>6 DEF p

\* The path the model is shown for a file without a backslash in its names
\* names that file from whatever directory it is used in, and the bridge, whose
\* relativePath follows another rule than workspaceRel, takes its key as it is.
\* With one neither does; and what the bridge does not refuse then is the file
\* that the shown path means, though the two rules differ on dots.
THEOREM MeaningCorrect == Spec => []TargetKeepsItsMeaning
<1>1. TypeOK => TargetKeepsItsMeaning
  <2> DEFINE shown == Resolve(DisplayPath(target), cwd)
             sent == RelativePath([root |-> "none", segments |-> target])
  <2> SUFFICES ASSUME TypeOK, target # Outside
               PROVE  IF target \in Seq(Names) THEN shown = target /\ sent = target
                      ELSE shown # target /\ sent \in {shown, Outside}
    BY DEF TargetKeepsItsMeaning
  <2>1. CASE target \in Seq(Names)
    BY <2>1, ShownPathLeadsBack, RelativePathOfNames
  <2>2. CASE target \notin Seq(Names)
    <3>1. target \in Seq(Written) /\ target \in Seq(Segments \cup Backslashed)
      BY WrittenApart DEF TypeOK, Written
    <3>2. shown = Follow(Slashes(target))
      BY ShownPathLeads
    <3>3. Follow(Slashes(target)) \in Targets
      BY <3>1, SlashesType, FollowType
    <3>4. shown # target
      BY <2>2, <3>2, <3>3 DEF Targets
    <3>5. sent \in {Follow(Slashes(target)), Outside}
      BY <3>1, SentIsFollow
    <3> QED
      BY <2>2, <3>2, <3>4, <3>5
  <2> QED
    BY <2>1, <2>2
<1> QED
  BY <1>1, WorkspaceTypeCorrect, PTL

\* containsPath, which looks at the first segment of the way alone, tells what
\* lies at a directory or below it from everything else.
THEOREM ContainsCorrect == Spec => []ContainsIsBelow
<1>1. TypeOK => ContainsIsBelow
  <2> SUFFICES ASSUME TypeOK, target # Outside
               PROVE  ContainsPath(CwdBase(cwd), target) <=> IsPrefix(CwdBase(cwd), target)
    BY DEF ContainsIsBelow
  <2>1. cwd \in Typed /\ target \in Seq(Written)
    BY PathsAreTyped DEF TypeOK, Cwds, Written
  <2>2. CwdBase(cwd) \in Seq(Written)
    BY <2>1, CwdBaseIs, WrittenApart
  <2>3. ".." \notin Written
    BY WrittenApart
  <2> QED
    BY <2>1, <2>2, <2>3, ContainsPathIsPrefix
<1> QED
  BY <1>1, WorkspaceTypeCorrect, PTL

\* What stands before a path, without empty segments, stays before what is kept
\* of it.
Pushes(a, b, e) == Append(a \o b, e) = a \o Append(b, e)

LEMMA AppendOn ==
  ASSUME NEW S, NEW a \in Seq(S), NEW b \in Seq(S), NEW e \in S
  PROVE  Pushes(a, b, e)
BY DEF Pushes

Full(segments) == \A i \in 1..Len(segments) : segments[i] \notin {""}

LEMMA KeptBelow ==
  ASSUME NEW S, NEW above \in Seq(S), NEW segments \in Seq(S), Full(above)
  PROVE  Kept(above \o segments)[Len(above) + Len(segments)] = above \o Kept(segments)[Len(segments)]
<1> DEFINE L == Len(above)
           N == Len(segments)
           all == above \o segments
           kept == Kept(segments)
           below == Kept(all)
<1>0. L \in Nat /\ N \in Nat
  BY LenProperties
<1>1. /\ all \in Seq(S) /\ Len(all) = L + N
      /\ \A i \in 1..L + N : all[i] = IF i <= L THEN above[i] ELSE segments[i - L]
  BY ConcatProperties
<1>2. below[0] = <<>> /\ \A n \in 1..L + N :
        below[n] = IF all[n] = "" THEN below[n - 1] ELSE Append(below[n - 1], all[n])
  <2> HIDE DEF all, L, N
  <2> QED
    BY <1>1, KeptSteps
<1>3. kept[0] = <<>> /\ \A n \in 1..N :
        kept[n] = IF segments[n] = "" THEN kept[n - 1] ELSE Append(kept[n - 1], segments[n])
  BY KeptSteps
<1>4. \A n \in 0..N : kept[n] \in Seq(S)
  BY KeptType
<1> HIDE DEF kept, below, all
<1>5. below[L] = above
  <2> DEFINE T == {n \in Nat : n <= L => below[n] = SubSeq(above, 1, n)}
  <2>1. 0 \in T
    <3>1. SubSeq(above, 1, 0) = <<>>
      BY SubSeqEmpty
    <3> QED
      BY <1>2, <3>1
  <2>2. ASSUME NEW n \in Nat, n \in T PROVE n + 1 \in T
    <3> SUFFICES ASSUME n + 1 <= L PROVE below[n + 1] = SubSeq(above, 1, n + 1)
      OBVIOUS
    <3>1. n + 1 \in 1..L + N /\ n + 1 \in 1..L /\ n + 1 <= L /\ (n + 1) - 1 = n /\ n <= L
      BY <1>0
    <3>2. all[n + 1] = above[n + 1] /\ above[n + 1] # "" /\ above[n + 1] \in S
      BY <1>1, <3>1, ElementOfSeq DEF Full
    <3>3. below[n + 1] = Append(below[n], above[n + 1])
      <4>1. below[n + 1] = IF all[n + 1] = "" THEN below[(n + 1) - 1]
                           ELSE Append(below[(n + 1) - 1], all[n + 1])
        BY <1>2, <3>1
      <4> QED
        BY <3>1, <3>2, <4>1
    <3>4. below[n] = SubSeq(above, 1, n)
      BY <2>2, <3>1
    <3>5. SubSeq(above, 1, n + 1) = SubSeq(above, 1, n) \o <<above[n + 1]>>
      <4>1. 1 \in 1..L /\ n + 1 \in 1..L
        BY <3>1
      <4> QED
        BY <3>1, <4>1, SubSeqRecursiveSecond
    <3>6. SubSeq(above, 1, n) \in Seq(S)
      BY <1>0, <3>1, SubSeqProperties
    <3> QED
      BY <3>2, <3>3, <3>4, <3>5, <3>6, AppendIsConcat
  <2>3. \A n \in Nat : n \in T
    <3> HIDE DEF T
    <3> QED
      BY <2>1, <2>2, Induction
  <2>4. below[L] = SubSeq(above, 1, L)
    BY <1>0, <2>3
  <2> QED
    BY <2>4, SubSeqFull
<1> DEFINE T == {n \in Nat : n <= N => below[L + n] = above \o kept[n]}
<1>6. 0 \in T
  <2>1. above \o <<>> = above /\ L + 0 = L
    BY <1>0, ConcatEmptySeq
  <2> QED
    BY <1>3, <1>5, <2>1
<1>7. ASSUME NEW n \in Nat, n \in T PROVE n + 1 \in T
  <2> SUFFICES ASSUME n + 1 <= N PROVE below[L + (n + 1)] = above \o kept[n + 1]
    OBVIOUS
  <2>1. /\ n + 1 \in 1..N /\ (n + 1) - 1 = n /\ n \in 0..N /\ n <= N
        /\ L + (n + 1) \in 1..L + N /\ (L + (n + 1)) - 1 = L + n
        /\ ~(L + (n + 1) <= L) /\ (L + (n + 1)) - L = n + 1
    BY <1>0
  <2> DEFINE segment == segments[n + 1]
  <2>2. all[L + (n + 1)] = segment /\ segment \in S
    BY <1>1, <2>1, ElementOfSeq
  <2>3. below[L + n] = above \o kept[n] /\ kept[n] \in Seq(S)
    BY <1>4, <1>7, <2>1
  <2> HIDE DEF L
  <2>4. below[L + (n + 1)] = IF segment = "" THEN below[L + n] ELSE Append(below[L + n], segment)
    <3>1. below[L + (n + 1)] =
            IF all[L + (n + 1)] = "" THEN below[(L + (n + 1)) - 1]
            ELSE Append(below[(L + (n + 1)) - 1], all[L + (n + 1)])
      BY <1>2, <2>1
    <3> HIDE DEF segment
    <3> QED
      BY <2>1, <2>2, <3>1
  <2>5. kept[n + 1] = IF segment = "" THEN kept[n] ELSE Append(kept[n], segment)
    <3>1. kept[n + 1] = IF segments[n + 1] = "" THEN kept[(n + 1) - 1]
                        ELSE Append(kept[(n + 1) - 1], segments[n + 1])
      BY <1>3, <2>1
    <3> QED
      BY <2>1, <3>1
  <2> HIDE DEF segment
  <2>6. Append(above \o kept[n], segment) = above \o Append(kept[n], segment)
    <3>1. Pushes(above, kept[n], segment)
      BY <2>2, <2>3, AppendOn
    <3> QED
      BY <3>1 DEF Pushes
  <2> QED
    BY <2>3, <2>4, <2>5, <2>6
<1>8. \A n \in Nat : n \in T
  <2> HIDE DEF T
  <2> QED
    BY <1>6, <1>7, Induction
<1>9. below[L + N] = above \o kept[N]
  BY <1>0, <1>8
<1> QED
  BY <1>9 DEF below, kept, all

\* A dot among the parts of what follows is one among all.
LEMMA DottedBelow ==
  ASSUME NEW S, NEW above \in Seq(S), NEW parts \in Seq(S), Dotted(parts)
  PROVE  Dotted(above \o parts)
<1> DEFINE all == above \o parts
<1>1. Len(above) \in Nat /\ Len(parts) \in Nat /\ DOMAIN parts = 1..Len(parts)
  BY LenProperties
<1>2. /\ all \in Seq(S) /\ Len(all) = Len(above) + Len(parts)
      /\ \A i \in 1..Len(above) + Len(parts) :
           all[i] = IF i <= Len(above) THEN above[i] ELSE parts[i - Len(above)]
  BY ConcatProperties
<1> HIDE DEF all
<1>3. DOMAIN all = 1..Len(above) + Len(parts)
  BY <1>2, LenProperties
<1>4. PICK i \in 1..Len(parts) : parts[i] \in {".", ".."}
  BY <1>1 DEF Dotted
<1>5. /\ Len(above) + i \in 1..Len(above) + Len(parts)
      /\ ~(Len(above) + i <= Len(above)) /\ (Len(above) + i) - Len(above) = i
  BY <1>1
<1>6. all[Len(above) + i] = parts[i]
  BY <1>2, <1>5
<1> QED
  BY <1>3, <1>4, <1>5, <1>6 DEF Dotted, all

LEMMA RootTyped ==
  LET S == Segments \cup {"home", "rakazo"}
  IN /\ WorkspaceRoot \in Seq(S) /\ Seq(Segments) \subseteq Seq(S)
     /\ Full(WorkspaceRoot)
<1> DEFINE S == Segments \cup {"home", "rakazo"}
<1>0. Len(WorkspaceRoot) = 2 /\ WorkspaceRoot[1] = "home" /\ WorkspaceRoot[2] = "rakazo"
  BY DEF WorkspaceRoot
<1>1. WorkspaceRoot \in Seq(S)
  BY DEF WorkspaceRoot
<1>4. Full(WorkspaceRoot)
  <2>1. \A i \in 1..2 : i = 1 \/ i = 2
    OBVIOUS
  <2> QED
    BY <1>0, <2>1 DEF Full
<1>2. Segments \subseteq S
  OBVIOUS
<1>3. Seq(Segments) \subseteq Seq(S)
  <2> HIDE DEF S
  <2> QED
    BY <1>2, SeqMonotonic
<1> QED
  BY <1>1, <1>3, <1>4

\* Where relativePath and workspaceRel both take a path, it is the same file to
\* the two of them, below the root's two names if the path begins with the root.
THEOREM RulesCorrect == Spec => []BothRulesAgree
<1>1. TypeOK => BothRulesAgree
  <2> DEFINE way == Way(path)
             rel == Resolve(path, DisplayPath(<<>>))
             kept == Kept(way)[Len(way)]
  <2> SUFFICES ASSUME TypeOK, rel # Outside, RelativePath(path) # Outside
               PROVE  RelativePath(path) = Leading(path) \o rel
    BY DEF BothRulesAgree
  <2>1. way \in Seq(Segments) /\ path.root \in Roots /\ <<>> \o way = way
    <3>1. path \in Typed
      BY DEF TypeOK, Typed
    <3> QED
      BY <3>1, WayType, ConcatEmptySeq
  <2>2. CwdBase(DisplayPath(<<>>)) = <<>>
    <3>1. <<>> \in Seq(Segments) /\ <<>> \in Seq(Names)
      BY EmptySeq
    <3>2. WorkspaceRel(DisplayPath(<<>>), <<>>) = Follow(Slashes(<<>>))
      BY DEF WorkspaceRel, DisplayPath
    <3>3. Follow(Slashes(<<>>)) = <<>>
      BY <3>1, SlashesKeep, FollowNames
    <3> QED
      BY <3>2, <3>3 DEF CwdBase
  <2>3. path.root # "elsewhere" /\ rel = Follow(way)
    BY <2>1, <2>2 DEF Resolve, WorkspaceRel, Roots, Way
  <2>4. ~Dotted(Parts(path)) /\ RelativePath(path) = Parts(path)
    BY DEF RelativePath, Dotted
  <2>5. kept \in Seq(Segments)
    BY <2>1, KeptType, LenProperties
  <2>6. CASE path.root = "workspace"
    <3> DEFINE S == Segments \cup {"home", "rakazo"}
    <3>0. /\ WorkspaceRoot \in Seq(S) /\ way \in Seq(S) /\ kept \in Seq(S)
          /\ Full(WorkspaceRoot)
      BY <2>1, <2>5, RootTyped
    <3>1. Parts(path) = WorkspaceRoot \o kept
      <4> DEFINE all == WorkspaceRoot \o way
      <4>1. Parts(path) = Kept(all)[Len(all)]
        BY <2>6 DEF Parts, Leading, Way
      <4> HIDE DEF S, way
      <4>2. Len(all) = Len(WorkspaceRoot) + Len(way)
        BY <3>0, ConcatProperties
      <4>3. Kept(all)[Len(WorkspaceRoot) + Len(way)] = WorkspaceRoot \o Kept(way)[Len(way)]
        BY <3>0, KeptBelow
      <4> QED
        BY <4>1, <4>2, <4>3
    <3>2. ~Dotted(kept)
      <4> HIDE DEF S, kept
      <4> QED
        BY <2>4, <3>0, <3>1, DottedBelow
    <3>3. kept = Follow(way)
      BY <2>1, <3>2, KeptIsFollow
    <3> QED
      BY <2>3, <2>4, <2>6, <3>1, <3>3 DEF Leading
  <2>7. CASE path.root = "none"
    <3>1. Parts(path) = kept
      BY <2>1, <2>7 DEF Parts, Leading, Way
    <3>2. kept = Follow(way)
      BY <2>1, <2>4, <3>1, KeptIsFollow
    <3>3. Leading(path) = <<>> /\ Follow(way) \in Seq(Names)
      BY <2>1, <2>3, <2>7, FollowType DEF Leading, Targets
    <3> QED
      BY <2>3, <2>4, <3>1, <3>2, <3>3, ConcatEmptySeq
  <2> QED
    BY <2>1, <2>3, <2>6, <2>7 DEF Roots
<1> QED
  BY <1>1, WorkspaceTypeCorrect, PTL
=============================================================================
