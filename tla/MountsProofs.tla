----------------------------- MODULE MountsProofs -----------------------------
(***************************************************************************)
(* Proofs about Mounts, for every mount table of the host, every list of   *)
(* mounts in the OCI configuration and every rootfsPropagation.            *)
(***************************************************************************)
EXTENDS Mounts, WellFoundedInduction, TLAPS

Less == {p \in Nat \X Nat : p[1] < p[2]}

\* A set of natural numbers has a least element: what stands for induction here.
LEMMA LeastNat ==
    ASSUME NEW S \in SUBSET Nat, S # {}
    PROVE  \E i \in S : \A j \in S : i <= j
<1>1. IsWellFoundedOn(Less, Nat)
  BY NatLessThanWellFounded, Zenon DEF OpToRel, Less
<1>2. PICK i \in S : \A j \in S : <<j, i>> \notin Less
  BY <1>1, WFMin, Zenon
<1>3. ASSUME NEW j \in S PROVE i <= j
  <2>1. <<j, i>> \notin Less
    BY <1>2
  <2>2. i \in Nat /\ j \in Nat
    OBVIOUS
  <2>3. ~(j < i)
    BY <2>1, <2>2 DEF Less
  <2> QED
    BY <2>2, <2>3
<1> QED
  BY <1>3

\* What holds at 0 and is handed on by every step holds up to N.
LEMMA UpTo ==
    ASSUME NEW N \in Nat, NEW Good \in SUBSET (0..N), 0 \in Good,
           \A n \in 1..N : n - 1 \in Good => n \in Good
    PROVE  Good = 0..N
<1> DEFINE Bad == (0..N) \ Good
<1> SUFFICES ASSUME Bad # {} PROVE FALSE
  OBVIOUS
<1>0. Bad \in SUBSET Nat
  OBVIOUS
<1>1. PICK b \in Bad : \A j \in Bad : b <= j
  <2> HIDE DEF Bad
  <2> QED
    BY <1>0, LeastNat
<1>2. b \in 1..N
  BY <1>1
<1>3. b - 1 \in 0..N /\ ~(b <= b - 1)
  BY <1>2
<1>4. b - 1 \in Good
  BY <1>1, <1>3
<1> QED
  BY <1>1, <1>2, <1>4

\* A bounded set of natural numbers has a greatest element.
LEMMA GreatestNat ==
    ASSUME NEW N \in Nat, NEW S \in SUBSET (0..N), S # {}
    PROVE  \E i \in S : \A j \in S : j <= i
<1> DEFINE T == {N - i : i \in S}
<1>0. ASSUME NEW i \in S PROVE i \in Nat /\ N - i \in Nat
  OBVIOUS
<1>1. T \in SUBSET Nat
  BY <1>0
<1>7. T # {}
  OBVIOUS
<1>2. PICK d \in T : \A e \in T : d <= e
  <2> HIDE DEF T
  <2> QED
    BY <1>1, <1>7, LeastNat
<1>3. PICK i \in S : d = N - i
  BY <1>2
<1>4. ASSUME NEW j \in S PROVE j <= i
  <2>1. N - j \in T
    OBVIOUS
  <2>2. N - i <= N - j
    BY <1>2, <1>3, <2>1
  <2> QED
    BY <2>2
<1> QED
  BY <1>4

\* A loop over 1..N has a result: the recursive functions of the module are
\* functions that satisfy their equations.
IsRun(g, S, base, N, body) ==
    g \in [0..N -> S] /\ g[0] = base /\ \A n \in 1..N : g[n] = body[n][g[n - 1]]

LEMMA LoopExists ==
    ASSUME NEW S, NEW base \in S, NEW N \in Nat, NEW body \in [1..N -> [S -> S]]
    PROVE  \E g : IsRun(g, S, base, N, body)
<1> DEFINE Good == {m \in 0..N : \E g \in [0..m -> S] :
                      g[0] = base /\ \A n \in 1..m : g[n] = body[n][g[n - 1]]}
<1>1. 0 \in Good
  <2> DEFINE g == [i \in 0..0 |-> base]
  <2>1. g \in [0..0 -> S] /\ g[0] = base /\ \A n \in 1..0 : g[n] = body[n][g[n - 1]]
    OBVIOUS
  <2>2. 0 \in 0..N
    OBVIOUS
  <2> HIDE DEF g
  <2>3. \E h \in [0..0 -> S] : h[0] = base /\ \A n \in 1..0 : h[n] = body[n][h[n - 1]]
    BY <2>1
  <2> QED
    BY <2>2, <2>3
<1>2. ASSUME NEW n \in 1..N, n - 1 \in Good PROVE n \in Good
  <2>1. PICK g \in [0..(n - 1) -> S] :
          g[0] = base /\ \A i \in 1..(n - 1) : g[i] = body[i][g[i - 1]]
    BY <1>2
  <2> DEFINE h == [i \in 0..n |-> IF i < n THEN g[i] ELSE body[n][g[n - 1]]]
  <2>2. g[n - 1] \in S /\ body[n][g[n - 1]] \in S
    OBVIOUS
  <2>3. h \in [0..n -> S]
    BY <2>2
  <2>4. h[0] = base
    BY <2>1
  <2>5. ASSUME NEW i \in 1..n PROVE h[i] = body[i][h[i - 1]]
    <3>1. i - 1 \in 0..n /\ i - 1 < n /\ h[i - 1] = g[i - 1]
      OBVIOUS
    <3>2. CASE i = n
      BY <3>1, <3>2
    <3>3. CASE i < n
      <4>1. i \in 1..(n - 1) /\ h[i] = g[i]
        BY <3>3
      <4> QED
        BY <2>1, <3>1, <4>1
    <3> QED
      BY <3>2, <3>3
  <2>6. n \in 0..N
    OBVIOUS
  <2> HIDE DEF h
  <2> QED
    BY <2>3, <2>4, <2>5, <2>6
<1>3. Good \in SUBSET (0..N)
  OBVIOUS
<1> HIDE DEF Good
<1>4. Good = 0..N
  BY <1>1, <1>2, <1>3, UpTo
<1>5. N \in Good
  BY <1>4
<1> QED
  BY <1>5 DEF Good, IsRun

-----------------------------------------------------------------------------
(* Paths.                                                                  *)

\* A path is a prefix of another if it is as far as it goes.
LEMMA PrefixIs ==
    ASSUME NEW s \in Path, NEW p \in Path
    PROVE  IsPrefix(s, p) <=> Len(s) <= Len(p) /\ \A i \in 1..Len(s) : s[i] = p[i]
<1>1. Len(s) \in Nat /\ Len(p) \in Nat
  BY DEF Path
<1>2. SubSeq(s, 1, Len(s)) = s
  BY DEF Path
<1>3. ASSUME Len(s) <= Len(p)
      PROVE  SubSeq(p, 1, Len(s)) = s <=> \A i \in 1..Len(s) : s[i] = p[i]
  <2>1. /\ SubSeq(p, 1, Len(s)) \in Seq(Names)
        /\ Len(SubSeq(p, 1, Len(s))) = Len(s)
        /\ \A i \in 1..Len(s) : SubSeq(p, 1, Len(s))[i] = p[i]
    BY <1>1, <1>3 DEF Path
  <2>2. ASSUME \A i \in 1..Len(s) : s[i] = p[i] PROVE SubSeq(p, 1, Len(s)) = s
    BY <2>1, <2>2 DEF Path
  <2> QED
    BY <2>1, <2>2
<1> QED
  BY <1>2, <1>3 DEF IsPrefix

\* Two prefixes of a path: the shorter is one of the longer, and as long ones
\* are the same.
LEMMA PrefixesNest ==
    ASSUME NEW s \in Path, NEW r \in Path, NEW p \in Path,
           IsPrefix(s, p), IsPrefix(r, p), Len(s) <= Len(r)
    PROVE  IsPrefix(s, r) /\ (Len(s) = Len(r) => s = r)
<1>1. Len(s) \in Nat /\ Len(p) \in Nat /\ Len(r) \in Nat
  BY DEF Path
<1>2. /\ \A i \in 1..Len(s) : s[i] = p[i]
      /\ \A i \in 1..Len(r) : r[i] = p[i]
  BY PrefixIs
<1>3. \A i \in 1..Len(s) : s[i] = r[i]
  BY <1>1, <1>2
<1>4. IsPrefix(s, r)
  BY <1>3, PrefixIs
<1>5. Len(s) = Len(r) => s = r
  BY <1>3 DEF Path
<1> QED
  BY <1>4, <1>5

LEMMA PrefixTrans ==
    ASSUME NEW s \in Path, NEW r \in Path, NEW p \in Path, IsPrefix(s, r), IsPrefix(r, p)
    PROVE  IsPrefix(s, p)
<1>1. Len(s) \in Nat /\ Len(p) \in Nat /\ Len(r) \in Nat
  BY DEF Path
<1>2. /\ Len(s) <= Len(r) /\ \A i \in 1..Len(s) : s[i] = r[i]
      /\ Len(r) <= Len(p) /\ \A i \in 1..Len(r) : r[i] = p[i]
  BY PrefixIs
<1>3. Len(s) <= Len(p) /\ \A i \in 1..Len(s) : s[i] = p[i]
  BY <1>1, <1>2
<1> QED
  BY <1>3, PrefixIs

LEMMA ConcatIs ==
    ASSUME NEW s \in Path, NEW d \in Path
    PROVE  /\ s \o d \in Path
           /\ Len(s \o d) = Len(s) + Len(d) /\ Len(s) \in Nat /\ Len(d) \in Nat
           /\ \A i \in 1..Len(s) : (s \o d)[i] = s[i]
           /\ \A i \in 1..Len(d) : (s \o d)[i + Len(s)] = d[i]
<1>3. s \o d \in Path /\ \A i \in 1..Len(s) : (s \o d)[i] = s[i]
  BY DEF Path
<1>1. Len(s \o d) = Len(s) + Len(d) /\ Len(s) \in Nat /\ Len(d) \in Nat
  BY DEF Path
<1>2. ASSUME NEW i \in 1..Len(d) PROVE (s \o d)[i + Len(s)] = d[i]
  <2>1. i + Len(s) \in 1..(Len(s) + Len(d)) /\ ~(i + Len(s) <= Len(s)) /\ (i + Len(s)) - Len(s) = i
    BY <1>1
  <2>2. (s \o d)[i + Len(s)] = d[(i + Len(s)) - Len(s)]
    BY <1>1, <2>1 DEF Path
  <2> QED
    BY <2>1, <2>2
<1> QED
  BY <1>1, <1>2, <1>3

\* The root is above every path, and every path is above what is in it.
LEMMA PrefixConcat ==
    ASSUME NEW s \in Path, NEW d \in Path
    PROVE  s \o d \in Path /\ IsPrefix(<<>>, s) /\ IsPrefix(s, s \o d)
<1>1. /\ s \o d \in Path
      /\ Len(s \o d) = Len(s) + Len(d)
      /\ \A i \in 1..Len(s) : (s \o d)[i] = s[i]
      /\ Len(s) \in Nat /\ Len(d) \in Nat
  BY DEF Path
<1>2. <<>> \in Path /\ Len(<<>>) = 0
  BY DEF Path
<1>3. IsPrefix(<<>>, s)
  BY <1>1, <1>2, PrefixIs
<1>4. IsPrefix(s, s \o d)
  <2>1. Len(s) <= Len(s \o d) /\ \A i \in 1..Len(s) : s[i] = (s \o d)[i]
    BY <1>1
  <2> QED
    BY <1>1, <2>1, PrefixIs
<1> QED
  BY <1>1, <1>3, <1>4

-----------------------------------------------------------------------------
(* The options of a mount.                                                 *)

LEMMA ApplyOptionFlags ==
    ASSUME NEW flags \in SUBSET VFSFlags, NEW o PROVE ApplyOption(flags, o) \in SUBSET VFSFlags
  BY DEF ApplyOption

\* The loop of splitMountOptions over the VFS flags.
LEMMA SplitLoop ==
    ASSUME NEW opts \in Seq(Names)
    PROVE  \E f \in [0..Len(opts) -> SUBSET VFSFlags] :
             /\ f[0] = {}
             /\ \A n \in 1..Len(opts) : f[n] = ApplyOption(f[n - 1], opts[n])
             /\ SplitVFSFlags(opts) = f[Len(opts)]
<1> DEFINE N == Len(opts)
           S == SUBSET VFSFlags
           body == [n \in 1..N |-> [x \in S |-> ApplyOption(x, opts[n])]]
           IsLoop(h) == h = [n \in 0..N |-> IF n = 0 THEN {} ELSE ApplyOption(h[n - 1], opts[n])]
           f == CHOOSE h : IsLoop(h)
<1>1. N \in Nat /\ {} \in S
  OBVIOUS
<1>2. body \in [1..N -> [S -> S]]
  BY ApplyOptionFlags
<1>3. \A n \in 1..N, x \in S : body[n][x] = ApplyOption(x, opts[n])
  OBVIOUS
<1>4. SplitVFSFlags(opts) = f[N]
  BY DEF SplitVFSFlags
<1> HIDE DEF body, N, S, f, IsLoop
<1>5. PICK g : IsRun(g, S, {}, N, body)
  BY <1>1, <1>2, LoopExists
<1>17. g \in [0..N -> S] /\ g[0] = {} /\ \A n \in 1..N : g[n] = body[n][g[n - 1]]
  BY <1>5 DEF IsRun
<1>6. \A n \in 1..N : g[n] = ApplyOption(g[n - 1], opts[n])
  <2> TAKE n \in 1..N
  <2>1. g[n - 1] \in S
    BY <1>1, <1>17
  <2> QED
    BY <1>3, <1>17, <2>1
<1>7. IsLoop(g)
  BY <1>1, <1>6, <1>17 DEF IsLoop
<1>8. IsLoop(f)
  BY <1>7 DEF f
<1>9. f = [n \in 0..N |-> IF n = 0 THEN {} ELSE ApplyOption(f[n - 1], opts[n])]
  BY <1>8 DEF IsLoop
<1> DEFINE Step(n) == IF n = 0 THEN {} ELSE ApplyOption(f[n - 1], opts[n])
<1> HIDE DEF Step
<1>13. f = [n \in 0..N |-> Step(n)]
  BY <1>9 DEF Step
<1>14. \A n \in 0..N : f[n] = Step(n)
  BY <1>13
<1>15. f[0] = {}
  BY <1>1, <1>14 DEF Step
<1>16. ASSUME NEW n \in 1..N PROVE f[n] = ApplyOption(f[n - 1], opts[n])
  BY <1>1, <1>14 DEF Step
<1>10. f[0] = {} /\ \A n \in 1..N : f[n] = ApplyOption(f[n - 1], opts[n])
  BY <1>15, <1>16
<1>11. {n \in 0..N : f[n] \in S} = 0..N
  <2> DEFINE Good == {n \in 0..N : f[n] \in S}
  <2>1. 0 \in Good
    <3>1. f[0] \in S
      BY <1>1, <1>15
    <3> QED
      BY <1>1, <3>1
  <2>2. ASSUME NEW n \in 1..N, n - 1 \in Good PROVE n \in Good
    <3>1. n \in 0..N /\ f[n - 1] \in S
      BY <1>1, <2>2
    <3>2. ApplyOption(f[n - 1], opts[n]) \in S
      BY <3>1, ApplyOptionFlags DEF S
    <3> QED
      BY <1>10, <3>1, <3>2
  <2>3. Good \in SUBSET (0..N)
    OBVIOUS
  <2> HIDE DEF Good
  <2>4. Good = 0..N
    BY <1>1, <2>1, <2>2, <2>3, UpTo
  <2> QED
    BY <2>4 DEF Good
<1>12. f \in [0..N -> S]
  BY <1>9, <1>11
<1> QED
  BY <1>4, <1>10, <1>12 DEF N, S

\* The last option about a flag decides.
LEMMA SplitIsLastWord ==
    ASSUME NEW opts \in Seq(Names), NEW flag \in VFSFlags
    PROVE  flag \in SplitVFSFlags(opts) <=> LastWord(opts, flag) = flag
<1> DEFINE N == Len(opts)
           About(i) == opts[i] = flag \/ (opts[i] \in DOMAIN Clears /\ Clears[opts[i]] = flag)
           about == {i \in DOMAIN opts : About(i)}
<1>1. PICK f \in [0..N -> SUBSET VFSFlags] :
        /\ f[0] = {}
        /\ \A n \in 1..N : f[n] = ApplyOption(f[n - 1], opts[n])
        /\ SplitVFSFlags(opts) = f[N]
  BY SplitLoop
<1>2. N \in Nat /\ DOMAIN opts = 1..N
  OBVIOUS
<1>3. ASSUME NEW n \in 1..N, ~About(n) PROVE flag \in f[n] <=> flag \in f[n - 1]
  BY <1>1, <1>3 DEF ApplyOption
<1>4. ASSUME NEW n \in 1..N, About(n) PROVE flag \in f[n] <=> opts[n] = flag
  BY <1>1, <1>4 DEF ApplyOption, Clears, VFSFlags
<1>5. LastWord(opts, flag) =
        IF about = {} THEN "none" ELSE opts[CHOOSE i \in about : \A j \in about : j <= i]
  BY DEF LastWord
<1>6. ASSUME NEW k \in 0..N, \A n \in 1..N : n > k => ~About(n)
      PROVE  flag \in f[N] <=> flag \in f[k]
  <2> DEFINE Good == {d \in 0..(N - k) : flag \in f[k + d] <=> flag \in f[k]}
  <2>1. N - k \in Nat /\ 0 \in Good
    BY <1>2
  <2>2. ASSUME NEW d \in 1..(N - k), d - 1 \in Good PROVE d \in Good
    <3>1. k + d \in 1..N /\ k + d > k /\ (k + d) - 1 = k + (d - 1)
      BY <1>2
    <3>2. flag \in f[k + d] <=> flag \in f[k + (d - 1)]
      BY <1>3, <1>6, <3>1
    <3> QED
      BY <2>2, <3>2
  <2>3. Good \in SUBSET (0..(N - k))
    OBVIOUS
  <2> HIDE DEF Good
  <2>4. Good = 0..(N - k)
    BY <2>1, <2>2, <2>3, UpTo
  <2>5. N - k \in Good /\ k + (N - k) = N
    BY <1>2, <2>1, <2>4
  <2> QED
    BY <2>5 DEF Good
<1> HIDE DEF N
<1>7. CASE about = {}
  <2>1. \A n \in 1..N : n > 0 => ~About(n)
    BY <1>2, <1>7
  <2>2. flag \notin f[N]
    <3> HIDE DEF About, about
    <3> QED
      BY <1>1, <1>2, <1>6, <2>1
  <2>3. LastWord(opts, flag) # flag
    BY <1>5, <1>7 DEF VFSFlags
  <2> QED
    BY <1>1, <2>2, <2>3
<1>8. CASE about # {}
  <2>1. about \in SUBSET (0..N)
    BY <1>2
  <2> DEFINE k == CHOOSE i \in about : \A j \in about : j <= i
  <2>2. k \in about /\ \A j \in about : j <= k
    <3> HIDE DEF about
    <3> QED
      BY <1>2, <1>8, <2>1, GreatestNat
  <2>3. LastWord(opts, flag) = opts[k]
    BY <1>5, <1>8
  <2> HIDE DEF k
  <2>4. k \in 1..N /\ About(k) /\ k \in 0..N
    BY <1>2, <2>2
  <2>5. \A n \in 1..N : n > k => ~About(n)
    BY <1>2, <2>2, <2>4
  <2> HIDE DEF About, about
  <2>6. flag \in f[N] <=> opts[k] = flag
    BY <1>4, <1>6, <2>4, <2>5
  <2> QED
    BY <1>1, <2>3, <2>6
<1> QED
  BY <1>7, <1>8

\* Options that leave a peer of the host's what it is.
AllShared(opts) == LeftShared(opts, DOMAIN Propagation)

LEMMA MadeOf ==
    ASSUME NEW a, NEW w, NEW g, NEW b, NEW f
    PROVE  LET R(x, y) == [at |-> a, what |-> w, group |-> x, bindable |-> y, flags |-> f]
           IN  /\ g = "none" => Make(R(g, b), "shared") = R("own", TRUE)
               /\ g # "none" => Make(R(g, b), "shared") = R(g, TRUE)
               /\ Make(R(g, b), "slave") = R("none", b)
               /\ Make(R(g, b), "private") = R("none", TRUE)
               /\ Make(R(g, b), "unbindable") = R("none", FALSE)
<1> DEFINE R(x, y) == [at |-> a, what |-> w, group |-> x, bindable |-> y, flags |-> f]
<1>1. ASSUME g = "none" PROVE Make(R(g, b), "shared") = R("own", TRUE)
  BY <1>1 DEF Make
<1>2. ASSUME g # "none" PROVE Make(R(g, b), "shared") = R(g, TRUE)
  BY <1>2 DEF Make
<1>3. Make(R(g, b), "slave") = R("none", b)
  BY DEF Make
<1>4. Make(R(g, b), "private") = R("none", TRUE)
  BY DEF Make
<1>5. Make(R(g, b), "unbindable") = R("none", FALSE)
  BY DEF Make
<1> QED
  BY <1>1, <1>2, <1>3, <1>4, <1>5, Zenon

LEMMA MakeIs ==
    ASSUME NEW m \in Mounted, NEW kind \in {"private", "slave", "shared", "unbindable"}
    PROVE  /\ Make(m, kind) \in Mounted
           /\ Make(m, kind).at = m.at /\ Make(m, kind).what = m.what
           /\ Make(m, kind).flags = m.flags
           /\ IsHosts(Make(m, kind).group) => IsHosts(m.group) /\ kind = "shared"
           /\ kind # "shared" => Make(m, kind).group = "none"
<1> DEFINE R(g, b) == [at |-> m.at, what |-> m.what, group |-> g, bindable |-> b, flags |-> m.flags]
<1>1. \A g \in Names, b \in BOOLEAN :
        /\ R(g, b) \in Mounted
        /\ R(g, b).at = m.at /\ R(g, b).what = m.what /\ R(g, b).flags = m.flags
        /\ R(g, b).group = g
  BY DEF Mounted
<1>2. m.group \in Names /\ m.bindable \in BOOLEAN
  BY DEF Mounted
<1>3. m = R(m.group, m.bindable)
  BY DEF Mounted
<1>4. /\ m.group = "none" => Make(R(m.group, m.bindable), "shared") = R("own", TRUE)
      /\ m.group # "none" => Make(R(m.group, m.bindable), "shared") = R(m.group, TRUE)
      /\ Make(R(m.group, m.bindable), "slave") = R("none", m.bindable)
      /\ Make(R(m.group, m.bindable), "private") = R("none", TRUE)
      /\ Make(R(m.group, m.bindable), "unbindable") = R("none", FALSE)
  <2> DEFINE a == m.at
             w == m.what
             g == m.group
             b == m.bindable
             f == m.flags
  <2> HIDE DEF a, w, g, b, f
  <2>1. LET Q(x, y) == [at |-> a, what |-> w, group |-> x, bindable |-> y, flags |-> f]
        IN  /\ g = "none" => Make(Q(g, b), "shared") = Q("own", TRUE)
            /\ g # "none" => Make(Q(g, b), "shared") = Q(g, TRUE)
            /\ Make(Q(g, b), "slave") = Q("none", b)
            /\ Make(Q(g, b), "private") = Q("none", TRUE)
            /\ Make(Q(g, b), "unbindable") = Q("none", FALSE)
    BY MadeOf
  <2> QED
    BY <2>1 DEF a, w, g, b, f
<1> HIDE DEF R
<1>5. PICK g \in Names, b \in BOOLEAN :
        /\ Make(m, kind) = R(g, b)
        /\ IsHosts(g) => IsHosts(m.group) /\ kind = "shared"
        /\ kind # "shared" => g = "none"
  <2>1. "own" \in Names /\ "none" \in Names
    BY NamesAssumption DEF OwnNames
  <2>2. ~IsHosts("own") /\ ~IsHosts("none")
    BY Zenon DEF IsHosts
  <2>3. TRUE \in BOOLEAN /\ FALSE \in BOOLEAN
    OBVIOUS
  <2>4. CASE kind = "shared" /\ m.group = "none"
    BY <1>3, <1>4, <2>1, <2>2, <2>3, <2>4, Zenon
  <2>5. CASE kind = "shared" /\ m.group # "none"
    BY <1>2, <1>3, <1>4, <2>3, <2>5, Zenon
  <2>6. CASE kind = "slave"
    BY <1>2, <1>3, <1>4, <2>1, <2>2, <2>6, Zenon
  <2>7. CASE kind = "private"
    BY <1>3, <1>4, <2>1, <2>2, <2>3, <2>7, Zenon
  <2>8. CASE kind = "unbindable"
    BY <1>3, <1>4, <2>1, <2>2, <2>3, <2>8, Zenon
  <2> QED
    BY <2>4, <2>5, <2>6, <2>7, <2>8, Zenon
<1>6. /\ R(g, b) \in Mounted
      /\ R(g, b).at = m.at /\ R(g, b).what = m.what /\ R(g, b).flags = m.flags
      /\ R(g, b).group = g
  BY <1>1, Zenon
<1> QED
  BY <1>5, <1>6, Zenon

LEMMA PropagationKinds ==
    \A o \in DOMAIN Propagation : Propagation[o] \in {"private", "slave", "shared", "unbindable"}
  BY DEF Propagation

\* One option of Spread.
Spread1(m, o, reach) == IF o \in reach THEN Make(m, Propagation[o]) ELSE m

LEMMA Spread1Is ==
    ASSUME NEW m \in Mounted, NEW o, NEW reach \in SUBSET DOMAIN Propagation
    PROVE  /\ Spread1(m, o, reach) \in Mounted
           /\ Spread1(m, o, reach).at = m.at /\ Spread1(m, o, reach).what = m.what
           /\ Spread1(m, o, reach).flags = m.flags
           /\ IsHosts(Spread1(m, o, reach).group) =>
                IsHosts(m.group) /\ (o \in reach => Propagation[o] = "shared")
<1>1. CASE o \in reach
  <2> DEFINE kind == Propagation[o]
  <2>1. kind \in {"private", "slave", "shared", "unbindable"} /\ Spread1(m, o, reach) = Make(m, kind)
    BY <1>1, PropagationKinds, Zenon DEF Spread1
  <2> HIDE DEF kind
  <2>2. /\ Make(m, kind) \in Mounted
        /\ Make(m, kind).at = m.at /\ Make(m, kind).what = m.what /\ Make(m, kind).flags = m.flags
        /\ IsHosts(Make(m, kind).group) => IsHosts(m.group) /\ kind = "shared"
    BY <2>1, MakeIs
  <2> QED
    BY <2>1, <2>2, Zenon DEF kind
<1>2. CASE o \notin reach
  BY <1>2, Zenon DEF Spread1
<1> QED
  BY <1>1, <1>2

\* The loop of applyMount over the propagation flags.
LEMMA SpreadLoop ==
    ASSUME NEW m \in Mounted, NEW opts \in Seq(Names), NEW reach \in SUBSET DOMAIN Propagation
    PROVE  \E f \in [0..Len(opts) -> Mounted] :
             /\ f[0] = m
             /\ \A n \in 1..Len(opts) : f[n] = Spread1(f[n - 1], opts[n], reach)
             /\ Spread(m, opts, reach) = f[Len(opts)]
<1> DEFINE N == Len(opts)
           body == [n \in 1..N |-> [x \in Mounted |-> Spread1(x, opts[n], reach)]]
           IsLoop(h) == h = [n \in 0..N |->
                               IF n = 0 THEN m
                               ELSE IF opts[n] \in reach
                               THEN Make(h[n - 1], Propagation[opts[n]]) ELSE h[n - 1]]
           f == CHOOSE h : IsLoop(h)
<1>1. N \in Nat
  OBVIOUS
<1>2. body \in [1..N -> [Mounted -> Mounted]]
  BY Spread1Is
<1>3. \A n \in 1..N, x \in Mounted : body[n][x] = Spread1(x, opts[n], reach)
  OBVIOUS
<1>4. Spread(m, opts, reach) = f[N]
  BY DEF Spread
<1> HIDE DEF body, N, f, IsLoop
<1>5. PICK g : IsRun(g, Mounted, m, N, body)
  BY <1>1, <1>2, LoopExists
<1>17. g \in [0..N -> Mounted] /\ g[0] = m /\ \A n \in 1..N : g[n] = body[n][g[n - 1]]
  BY <1>5 DEF IsRun
<1>6. \A n \in 1..N : g[n] = Spread1(g[n - 1], opts[n], reach)
  <2> TAKE n \in 1..N
  <2>1. g[n - 1] \in Mounted
    BY <1>1, <1>17
  <2> QED
    BY <1>3, <1>17, <2>1
<1>7. IsLoop(g)
  <2>1. ASSUME NEW n \in 0..N
        PROVE  g[n] = IF n = 0 THEN m ELSE Spread1(g[n - 1], opts[n], reach)
    BY <1>1, <1>6, <1>17
  <2>2. g = [n \in 0..N |-> IF n = 0 THEN m ELSE Spread1(g[n - 1], opts[n], reach)]
    BY <1>17, <2>1
  <2> QED
    BY <2>2, Zenon DEF IsLoop, Spread1
<1>8. IsLoop(f)
  BY <1>7 DEF f
<1> DEFINE Step(n) == IF n = 0 THEN m ELSE Spread1(f[n - 1], opts[n], reach)
<1> HIDE DEF Step
<1>9. f = [n \in 0..N |-> Step(n)]
  BY <1>8 DEF Step, IsLoop, Spread1
<1>10. \A n \in 0..N : f[n] = Step(n)
  BY <1>9
<1>11. f[0] = m
  BY <1>1, <1>10 DEF Step
<1>12. ASSUME NEW n \in 1..N PROVE f[n] = Spread1(f[n - 1], opts[n], reach)
  BY <1>1, <1>10 DEF Step
<1>13. {n \in 0..N : f[n] \in Mounted} = 0..N
  <2> DEFINE Good == {n \in 0..N : f[n] \in Mounted}
  <2>1. 0 \in Good
    BY <1>1, <1>11
  <2>2. ASSUME NEW n \in 1..N, n - 1 \in Good PROVE n \in Good
    <3>1. n \in 0..N /\ f[n - 1] \in Mounted
      BY <1>1, <2>2
    <3>2. Spread1(f[n - 1], opts[n], reach) \in Mounted
      BY <3>1, Spread1Is
    <3> QED
      BY <1>12, <3>1, <3>2
  <2>3. Good \in SUBSET (0..N)
    OBVIOUS
  <2> HIDE DEF Good
  <2>4. Good = 0..N
    BY <1>1, <2>1, <2>2, <2>3, UpTo
  <2> QED
    BY <2>4 DEF Good
<1>14. f \in [0..N -> Mounted]
  BY <1>9, <1>13
<1> QED
  BY <1>4, <1>11, <1>12, <1>14 DEF N

\* The propagation flags change a mount's group and nothing else, and only a
\* mount that all options that reach it leave shared stays a peer of the host's.
LEMMA SpreadIs ==
    ASSUME NEW m \in Mounted, NEW opts \in Seq(Names), NEW reach \in SUBSET DOMAIN Propagation
    PROVE  /\ Spread(m, opts, reach) \in Mounted
           /\ Spread(m, opts, reach).at = m.at /\ Spread(m, opts, reach).what = m.what
           /\ Spread(m, opts, reach).flags = m.flags
           /\ IsHosts(Spread(m, opts, reach).group) => IsHosts(m.group) /\ LeftShared(opts, reach)
<1> DEFINE N == Len(opts)
           Shared(j) == opts[j] \in reach => Propagation[opts[j]] = "shared"
<1>1. PICK f \in [0..N -> Mounted] :
        /\ f[0] = m
        /\ \A n \in 1..N : f[n] = Spread1(f[n - 1], opts[n], reach)
        /\ Spread(m, opts, reach) = f[N]
  BY SpreadLoop
<1>2. N \in Nat /\ DOMAIN opts = 1..N
  OBVIOUS
<1> DEFINE Kept(n) == /\ f[n].at = m.at /\ f[n].what = m.what /\ f[n].flags = m.flags
                      /\ IsHosts(f[n].group) => IsHosts(m.group) /\ \A j \in 1..n : Shared(j)
           Good == {n \in 0..N : Kept(n)}
<1>3. 0 \in Good
  BY <1>1, <1>2
<1>4. ASSUME NEW n \in 1..N, n - 1 \in Good PROVE n \in Good
  <2>1. n \in 0..N /\ n - 1 \in 0..N /\ f[n - 1] \in Mounted /\ Kept(n - 1)
    BY <1>2, <1>4
  <2>2. f[n] = Spread1(f[n - 1], opts[n], reach)
    BY <1>1
  <2>3. /\ f[n].at = f[n - 1].at /\ f[n].what = f[n - 1].what /\ f[n].flags = f[n - 1].flags
        /\ IsHosts(f[n].group) => IsHosts(f[n - 1].group) /\ Shared(n)
    BY <2>1, <2>2, Spread1Is
  <2>4. \A j \in 1..n : j \in 1..(n - 1) \/ j = n
    BY <1>2
  <2> HIDE DEF Shared
  <2>5. Kept(n)
    BY <2>1, <2>3, <2>4
  <2> QED
    BY <2>1, <2>5
<1>5. Good \in SUBSET (0..N)
  OBVIOUS
<1> HIDE DEF Good
<1>6. Good = 0..N
  BY <1>2, <1>3, <1>4, <1>5, UpTo
<1>7. Kept(N)
  BY <1>2, <1>6 DEF Good
<1>8. f[N] \in Mounted
  BY <1>2
<1> QED
  BY <1>1, <1>2, <1>7, <1>8 DEF LeftShared, ToSet

-----------------------------------------------------------------------------
(* The container's mounts.                                                 *)

MountSpecs == [type : Names, src : Path, dest : Path, opts : Seq(Names)]
BindLists == {q \in Seq(MountSpecs) : \A i \in DOMAIN q : IsBindMount(q[i])}

\* One mount of onlyBindMounts.
OnlyBind1(q, m) == IF IsBindMount(m) /\ ~IsHostKernelFS(m.src) THEN Append(q, m) ELSE q

LEMMA OnlyBind1Is ==
    ASSUME NEW q \in BindLists, NEW m \in MountSpecs PROVE OnlyBind1(q, m) \in BindLists
<1>1. CASE OnlyBind1(q, m) = q
  BY <1>1
<1>2. CASE IsBindMount(m) /\ OnlyBind1(q, m) = Append(q, m)
  <2>1. q \in Seq(MountSpecs) /\ Append(q, m) \in Seq(MountSpecs)
    BY DEF BindLists
  <2>2. ASSUME NEW i \in DOMAIN Append(q, m) PROVE IsBindMount(Append(q, m)[i])
    <3>1. i \in 1..Len(q) \/ i = Len(q) + 1
      BY <2>1
    <3>2. CASE i \in 1..Len(q)
      <4>1. Append(q, m)[i] = q[i] /\ i \in DOMAIN q
        BY <2>1, <3>2
      <4> QED
        BY <4>1, Zenon DEF BindLists
    <3>3. CASE i = Len(q) + 1
      <4>1. Append(q, m)[i] = m
        BY <2>1, <3>3
      <4> QED
        BY <1>2, <4>1, Zenon
    <3> QED
      BY <3>1, <3>2, <3>3
  <2>3. Append(q, m) \in BindLists
    BY <2>1, <2>2, Zenon DEF BindLists
  <2> QED
    BY <1>2, <2>3, Zenon
<1> QED
  BY <1>1, <1>2 DEF OnlyBind1

\* The volumes are bind mounts.
LEMMA OnlyBindMountsIs ==
    ASSUME NEW mounts \in Seq(MountSpecs) PROVE OnlyBindMounts(mounts) \in BindLists
<1> DEFINE N == Len(mounts)
           body == [n \in 1..N |-> [x \in BindLists |-> OnlyBind1(x, mounts[n])]]
           IsLoop(h) == h = [n \in 0..N |->
                               IF n = 0 THEN <<>>
                               ELSE IF IsBindMount(mounts[n]) /\ ~IsHostKernelFS(mounts[n].src)
                               THEN Append(h[n - 1], mounts[n]) ELSE h[n - 1]]
           f == CHOOSE h : IsLoop(h)
<1>1. N \in Nat /\ <<>> \in BindLists /\ \A n \in 1..N : mounts[n] \in MountSpecs
  BY DEF BindLists
<1>2. body \in [1..N -> [BindLists -> BindLists]]
  BY <1>1, OnlyBind1Is
<1>3. \A n \in 1..N, x \in BindLists : body[n][x] = OnlyBind1(x, mounts[n])
  OBVIOUS
<1>4. OnlyBindMounts(mounts) = f[N]
  BY DEF OnlyBindMounts
<1> HIDE DEF body, N, f, IsLoop
<1>5. PICK g : IsRun(g, BindLists, <<>>, N, body)
  BY <1>1, <1>2, LoopExists
<1>17. g \in [0..N -> BindLists] /\ g[0] = <<>> /\ \A n \in 1..N : g[n] = body[n][g[n - 1]]
  BY <1>5 DEF IsRun
<1>6. \A n \in 1..N : g[n] = OnlyBind1(g[n - 1], mounts[n])
  <2> TAKE n \in 1..N
  <2>1. g[n - 1] \in BindLists
    BY <1>1, <1>17
  <2> QED
    BY <1>3, <1>17, <2>1
<1>7. IsLoop(g)
  <2>1. ASSUME NEW n \in 0..N
        PROVE  g[n] = IF n = 0 THEN <<>> ELSE OnlyBind1(g[n - 1], mounts[n])
    BY <1>1, <1>6, <1>17
  <2>2. g = [n \in 0..N |-> IF n = 0 THEN <<>> ELSE OnlyBind1(g[n - 1], mounts[n])]
    BY <1>17, <2>1
  <2> QED
    BY <2>2, Zenon DEF IsLoop, OnlyBind1
<1>8. IsLoop(f)
  BY <1>7 DEF f
<1> DEFINE Step(n) == IF n = 0 THEN <<>> ELSE OnlyBind1(f[n - 1], mounts[n])
<1> HIDE DEF Step
<1>9. f = [n \in 0..N |-> Step(n)]
  BY <1>8 DEF Step, IsLoop, OnlyBind1
<1>10. \A n \in 0..N : f[n] = Step(n)
  BY <1>9
<1>11. f[0] = <<>>
  BY <1>1, <1>10 DEF Step
<1>12. ASSUME NEW n \in 1..N PROVE f[n] = OnlyBind1(f[n - 1], mounts[n])
  BY <1>1, <1>10 DEF Step
<1> DEFINE Good == {n \in 0..N : f[n] \in BindLists}
<1>13. 0 \in Good
  <2>1. f[0] \in BindLists
    BY <1>1, <1>11
  <2> QED
    BY <1>1, <2>1
<1>14. ASSUME NEW n \in 1..N, n - 1 \in Good PROVE n \in Good
  <2>1. n \in 0..N /\ f[n - 1] \in BindLists
    BY <1>1, <1>14
  <2>2. OnlyBind1(f[n - 1], mounts[n]) \in BindLists
    BY <1>1, <2>1, OnlyBind1Is
  <2> QED
    BY <1>12, <2>1, <2>2
<1>15. Good \in SUBSET (0..N)
  OBVIOUS
<1> HIDE DEF Good
<1>16. Good = 0..N
  BY <1>1, <1>13, <1>14, <1>15, UpTo
<1> QED
  BY <1>1, <1>4, <1>16 DEF Good

-----------------------------------------------------------------------------
(* What mount a path is on.                                                *)

Placed(t) ==
    /\ \E N \in Nat : DOMAIN t \subseteq 1..N
    /\ \A k \in DOMAIN t : t[k].at \in Path
OnSome(t, p) == \E k \in DOMAIN t : IsPrefix(t[k].at, p)

\* Some mount is the last.
LEMMA CoversSome ==
    ASSUME NEW t, Placed(t), NEW p \in Path, OnSome(t, p)
    PROVE  \E k \in DOMAIN t : Covers(t, k, p)
<1>1. PICK N \in Nat : DOMAIN t \subseteq 1..N
  BY DEF Placed
<1> DEFINE Ks == {k \in DOMAIN t : IsPrefix(t[k].at, p)}
<1>2. Ks \in SUBSET (0..N) /\ Ks # {}
  BY <1>1 DEF OnSome
<1>3. PICK k \in Ks : \A j \in Ks : j <= k
  <2> HIDE DEF Ks
  <2> QED
    BY <1>2, GreatestNat
<1> QED
  BY <1>3 DEF Covers

LEMMA CoversOne ==
    ASSUME NEW t, Placed(t), NEW p, NEW k \in DOMAIN t, NEW j \in DOMAIN t,
           Covers(t, k, p), Covers(t, j, p)
    PROVE  j = k
<1>1. j <= k /\ k <= j
  BY Zenon DEF Covers
<1>2. j \in Nat /\ k \in Nat
  BY DEF Placed
<1> QED
  BY <1>1, <1>2

LEMMA CoveringIs ==
    ASSUME NEW t, Placed(t), NEW p \in Path, OnSome(t, p)
    PROVE  Covering(t, p) \in DOMAIN t /\ Covers(t, Covering(t, p), p)
  BY CoversSome, Zenon DEF Covering

LEMMA CoveringEq ==
    ASSUME NEW t, Placed(t), NEW p, NEW k \in DOMAIN t, Covers(t, k, p)
    PROVE  Covering(t, p) = k
<1>1. Covering(t, p) \in DOMAIN t /\ Covers(t, Covering(t, p), p)
  BY Zenon DEF Covering
<1> QED
  BY <1>1, CoversOne

\* What a mount is and who its peers are does not matter.
LEMMA CoveringSame ==
    ASSUME NEW t, NEW u, Placed(t), NEW p \in Path, OnSome(t, p),
           DOMAIN u = DOMAIN t, \A k \in DOMAIN t : u[k].at = t[k].at
    PROVE  Covering(u, p) = Covering(t, p)
<1>1. Placed(u)
  BY Zenon DEF Placed
<1> DEFINE k == Covering(t, p)
<1>2. k \in DOMAIN t /\ Covers(t, k, p)
  BY CoveringIs
<1> HIDE DEF k
<1>3. k \in DOMAIN u /\ Covers(u, k, p)
  BY <1>2, Zenon DEF Covers
<1>4. Covering(u, p) = k
  BY <1>1, <1>3, CoveringEq
<1> QED
  BY <1>4 DEF k

\* A part of the table that has the mount of a path.
LEMMA CoveringPart ==
    ASSUME NEW t, NEW u, Placed(t), NEW p \in Path, OnSome(t, p),
           DOMAIN u \subseteq DOMAIN t, \A k \in DOMAIN u : u[k] = t[k],
           Covering(t, p) \in DOMAIN u
    PROVE  Covering(u, p) = Covering(t, p)
<1>1. Placed(u)
  BY DEF Placed
<1> DEFINE k == Covering(t, p)
<1>2. k \in DOMAIN t /\ Covers(t, k, p)
  BY CoveringIs
<1>3. k \in DOMAIN u
  OBVIOUS
<1> HIDE DEF k
<1>4. Covers(u, k, p)
  BY <1>2, <1>3 DEF Covers
<1>5. Covering(u, p) = k
  BY <1>1, <1>3, <1>4, CoveringEq
<1> QED
  BY <1>5 DEF k

\* Mount tables that begin with a root: every path is on one of their mounts.
Tables == {t \in Seq(Mounted) : 1 \in DOMAIN t /\ t[1].at = <<>>}

LEMMA TablePlaced ==
    ASSUME NEW t \in Tables
    PROVE  Placed(t) /\ \A p \in Path : OnSome(t, p)
<1>1. t \in Seq(Mounted) /\ Len(t) \in Nat /\ DOMAIN t = 1..Len(t)
  BY DEF Tables
<1>2. \A k \in DOMAIN t : t[k].at \in Path
  <2>1. \A k \in DOMAIN t : t[k] \in Mounted
    BY <1>1
  <2>2. \A m \in Mounted : m.at \in Path
    BY DEF Mounted
  <2> QED
    BY <2>1, <2>2, Zenon
<1>3. 1 \in DOMAIN t /\ t[1].at = <<>>
  BY DEF Tables
<1>4. ASSUME NEW p \in Path PROVE OnSome(t, p)
  BY <1>3, PrefixConcat DEF OnSome
<1> QED
  BY <1>1, <1>2, <1>4 DEF Placed

LEMMA CoveringTable ==
    ASSUME NEW t \in Tables, NEW p \in Path
    PROVE  /\ Covering(t, p) \in 1..Len(t) /\ Covers(t, Covering(t, p), p)
           /\ t[Covering(t, p)] \in Mounted /\ Len(t) \in Nat
           /\ IsPrefix(t[Covering(t, p)].at, p)
<1>1. t \in Seq(Mounted) /\ Len(t) \in Nat /\ DOMAIN t = 1..Len(t)
  BY DEF Tables
<1>2. Covering(t, p) \in DOMAIN t /\ Covers(t, Covering(t, p), p)
  BY TablePlaced, CoveringIs
<1> QED
  BY <1>1, <1>2 DEF Covers

LEMMA AtIs ==
    ASSUME NEW m \in Mounted PROVE m.at \in Path /\ Len(m.at) \in Nat
  BY DEF Mounted, Path

\* One mount more.
LEMMA AppendTable ==
    ASSUME NEW t \in Tables, NEW m \in Mounted
    PROVE  /\ Append(t, m) \in Tables /\ Len(Append(t, m)) = Len(t) + 1
           /\ Append(t, m)[Len(t) + 1] = m
           /\ \A k \in 1..Len(t) : Append(t, m)[k] = t[k]
<1>1. t \in Seq(Mounted) /\ Len(t) \in Nat /\ DOMAIN t = 1..Len(t)
  BY DEF Tables
<1>2. /\ Append(t, m) \in Seq(Mounted) /\ Len(Append(t, m)) = Len(t) + 1
      /\ DOMAIN Append(t, m) = 1..(Len(t) + 1)
      /\ Append(t, m)[Len(t) + 1] = m
      /\ \A k \in 1..Len(t) : Append(t, m)[k] = t[k]
  BY <1>1
<1>3. 1 \in DOMAIN t /\ t[1].at = <<>>
  BY DEF Tables
<1>4. 1 \in DOMAIN Append(t, m) /\ Append(t, m)[1].at = <<>>
  BY <1>1, <1>2, <1>3
<1> QED
  BY <1>2, <1>4 DEF Tables

LEMMA CoveringAppend ==
    ASSUME NEW t \in Tables, NEW m \in Mounted, NEW p \in Path
    PROVE  /\ IsPrefix(m.at, p) => Covering(Append(t, m), p) = Len(t) + 1
           /\ ~IsPrefix(m.at, p) => Covering(Append(t, m), p) = Covering(t, p)
<1> DEFINE u == Append(t, m)
           k == Covering(t, p)
           n == Len(t) + 1
<1>1. u \in Tables /\ Len(u) = n /\ u[n] = m /\ \A j \in 1..Len(t) : u[j] = t[j]
  BY AppendTable
<1>2. k \in 1..Len(t) /\ Covers(t, k, p) /\ Len(t) \in Nat
  BY CoveringTable
<1>3. Placed(u)
  <2> HIDE DEF u
  <2> QED
    BY <1>1, TablePlaced
<1>4. DOMAIN t = 1..Len(t) /\ DOMAIN u = 1..n
  <2> HIDE DEF u, n
  <2> QED
    BY <1>1 DEF Tables
<1> HIDE DEF u, k
<1>5. \A j \in DOMAIN t : j \in DOMAIN u /\ u[j] = t[j]
  BY <1>1, <1>2, <1>4
<1>6. \A j \in DOMAIN u : (j \in DOMAIN t \/ j = n) /\ j <= n
  BY <1>2, <1>4
<1>7. n \in DOMAIN u /\ k \in DOMAIN t /\ k \in DOMAIN u /\ u[k] = t[k]
  BY <1>2, <1>4, <1>5
<1> HIDE DEF n
<1>8. ASSUME ~IsPrefix(m.at, p) PROVE Covering(u, p) = k
  <2>1. Covers(u, k, p)
    BY <1>1, <1>2, <1>5, <1>6, <1>7, <1>8, Zenon DEF Covers
  <2> QED
    BY <1>3, <1>7, <2>1, CoveringEq
<1>9. ASSUME IsPrefix(m.at, p) PROVE Covering(u, p) = n
  <2>1. Covers(u, n, p)
    BY <1>1, <1>6, <1>9, Zenon DEF Covers
  <2> QED
    BY <1>3, <1>7, <2>1, CoveringEq
<1> QED
  BY <1>8, <1>9 DEF u, k, n

\* A table whose mounts have been changed where they are.
IsChange(t, u) ==
    /\ u = [k \in DOMAIN t |-> u[k]]
    /\ \A k \in DOMAIN t : u[k] \in Mounted /\ u[k].at = t[k].at

LEMMA ChangedTable ==
    ASSUME NEW t \in Tables, NEW u, IsChange(t, u)
    PROVE  /\ u \in Tables /\ Len(u) = Len(t) /\ DOMAIN u = 1..Len(t)
           /\ \A p \in Path : Covering(u, p) = Covering(t, p)
<1>1. t \in Seq(Mounted) /\ Len(t) \in Nat /\ DOMAIN t = 1..Len(t)
  BY DEF Tables
<1>2. u \in [1..Len(t) -> Mounted]
  BY <1>1 DEF IsChange
<1>3. u \in Seq(Mounted) /\ Len(u) = Len(t) /\ DOMAIN u = DOMAIN t
  BY <1>1, <1>2
<1>6. \A k \in DOMAIN t : u[k].at = t[k].at
  BY Zenon DEF IsChange
<1>4. u \in Tables
  <2>1. 1 \in DOMAIN t /\ t[1].at = <<>>
    BY DEF Tables
  <2> QED
    BY <1>3, <1>6, <2>1 DEF Tables
<1>5. ASSUME NEW p \in Path PROVE Covering(u, p) = Covering(t, p)
  BY <1>3, <1>6, TablePlaced, CoveringSame
<1> QED
  BY <1>1, <1>3, <1>4, <1>5

IsSet(t, u, i, m) == u = [t EXCEPT ![i] = m]

LEMMA SetTable ==
    ASSUME NEW t \in Tables, NEW i \in 1..Len(t), NEW m \in Mounted, m.at = t[i].at,
           NEW u, IsSet(t, u, i, m)
    PROVE  /\ u \in Tables /\ Len(u) = Len(t) /\ DOMAIN u = 1..Len(t)
           /\ u[i] = m /\ \A k \in 1..Len(t) : k # i => u[k] = t[k]
           /\ \A p \in Path : Covering(u, p) = Covering(t, p)
<1>1. t \in Seq(Mounted) /\ Len(t) \in Nat /\ DOMAIN t = 1..Len(t)
  BY DEF Tables
<1>2. u = [k \in DOMAIN t |-> u[k]] /\ u[i] = m /\ \A k \in 1..Len(t) : k # i => u[k] = t[k]
  BY <1>1 DEF IsSet
<1>3. \A k \in DOMAIN t : u[k] \in Mounted /\ u[k].at = t[k].at
  BY <1>1, <1>2
<1>4. IsChange(t, u)
  BY <1>2, <1>3, Zenon DEF IsChange
<1>5. /\ u \in Tables /\ Len(u) = Len(t) /\ DOMAIN u = 1..Len(t)
      /\ \A p \in Path : Covering(u, p) = Covering(t, p)
  BY <1>4, ChangedTable, Zenon
<1> QED
  BY <1>2, <1>5

-----------------------------------------------------------------------------
(* The monitor's rootfs.                                                   *)

LEMMA MonIs ==
    /\ MonRootfs \in Path /\ Len(MonRootfs) = 2
    /\ MonRootfs[1] = "run" /\ MonRootfs[2] = "mon"
  BY NamesAssumption DEF MonRootfs, Path, OwnNames

LEMMA BelowMon ==
    ASSUME NEW d \in Path
    PROVE  /\ MonRootfs \o d \in Path /\ IsBelow(MonRootfs \o d)
           /\ Len(MonRootfs \o d) = Len(d) + 2
           /\ \A i \in 1..Len(d) : (MonRootfs \o d)[i + 2] = d[i]
<1>1. MonRootfs \o d \in Path /\ IsBelow(MonRootfs \o d)
  BY MonIs, PrefixConcat DEF IsBelow
<1>2. /\ Len(MonRootfs \o d) = Len(d) + 2
      /\ \A i \in 1..Len(d) : (MonRootfs \o d)[i + 2] = d[i]
  <2>1. /\ Len(MonRootfs \o d) = Len(MonRootfs) + Len(d) /\ Len(d) \in Nat
        /\ \A i \in 1..Len(d) : (MonRootfs \o d)[i + Len(MonRootfs)] = d[i]
    BY MonIs, ConcatIs, Zenon
  <2>2. Len(MonRootfs) = 2
    BY MonIs
  <2>3. \A i \in 1..Len(d) : (MonRootfs \o d)[i + 2] = d[i]
    BY <2>1, <2>2, Zenon
  <2>4. Len(MonRootfs \o d) = 2 + Len(d)
    BY <2>1, <2>2, Zenon
  <2> QED
    BY <2>1, <2>3, <2>4
<1> QED
  BY <1>1, <1>2

\* What is below the monitor's rootfs is not above a path that is not.
LEMMA NotAbove ==
    ASSUME NEW r \in Path, NEW p \in Path, IsBelow(r), ~IsBelow(p)
    PROVE  ~IsPrefix(r, p)
  BY MonIs, PrefixTrans DEF IsBelow

\* A path below the monitor's rootfs is on the mount of it or a later one.
LEMMA CoveringBelow ==
    ASSUME NEW t \in Tables, NEW r \in 1..Len(t), t[r].at = MonRootfs,
           \A k \in 1..Len(t) : k < r <=> ~IsBelow(t[k].at),
           NEW p \in Path, IsBelow(p)
    PROVE  Covering(t, p) >= r /\ IsBelow(t[Covering(t, p)].at)
<1> DEFINE k == Covering(t, p)
<1>1. k \in 1..Len(t) /\ Covers(t, k, p) /\ Len(t) \in Nat /\ DOMAIN t = 1..Len(t)
  BY CoveringTable DEF Tables
<1> HIDE DEF k
<1>2. r <= k
  BY <1>1, Zenon DEF Covers, IsBelow
<1>3. ~(k < r)
  BY <1>1, <1>2
<1> QED
  BY <1>1, <1>2, <1>3 DEF k

LEMMA NotOver ==
    ASSUME NEW p \in Path, NEW q \in Path, NEW i \in 1..Len(p), i <= Len(q), p[i] # q[i]
    PROVE  ~IsPrefix(MonRootfs \o p, MonRootfs \o q)
<1>1. /\ MonRootfs \o p \in Path /\ Len(MonRootfs \o p) = Len(p) + 2
      /\ (MonRootfs \o p)[i + 2] = p[i]
  BY BelowMon
<1>2. Len(p) \in Nat /\ Len(q) \in Nat
  BY DEF Path
<1>3. MonRootfs \o q \in Path /\ (MonRootfs \o q)[i + 2] = q[i]
  BY <1>2, BelowMon
<1>4. i + 2 \in 1..Len(MonRootfs \o p)
  BY <1>1, <1>2
<1> QED
  BY <1>1, <1>3, <1>4, PrefixIs

\* A mount in a directory of the monitor's rootfs is not over the rootfs.
LEMMA NotOverMon ==
    ASSUME NEW d \in Path, d # <<>> PROVE ~IsPrefix(MonRootfs \o d, MonRootfs)
<1>1. Len(d) \in Nat /\ Len(d) # 0
  BY DEF Path
<1>2. MonRootfs \o d \in Path /\ Len(MonRootfs \o d) = Len(d) + 2
  BY BelowMon
<1>3. ~(Len(MonRootfs \o d) <= Len(MonRootfs))
  BY <1>1, <1>2, MonIs
<1> QED
  BY <1>2, <1>3, MonIs, PrefixIs

-----------------------------------------------------------------------------
(* The lists of mounts.                                                    *)

\* A bind mount that is no peer of the host's afterwards.
HasPrivate(m) == \E j \in DOMAIN m.opts : m.opts[j] = "private"

LEMMA PrivateNotShared ==
    ASSUME NEW m, HasPrivate(m) PROVE ~AllShared(m.opts)
  BY DEF HasPrivate, AllShared, LeftShared, ToSet, Propagation

\* Options without an rbind.
Plain(opts) == \A j \in 1..Len(opts) : opts[j] # "rbind"

LEMMA PlainConcat ==
    ASSUME NEW s \in Path, NEW d \in Path, Plain(s), Plain(d)
    PROVE  s \o d \in Path /\ Plain(s \o d)
<1>1. /\ s \o d \in Path /\ Len(s \o d) = Len(s) + Len(d) /\ Len(s) \in Nat /\ Len(d) \in Nat
      /\ \A i \in 1..Len(s) : (s \o d)[i] = s[i]
      /\ \A i \in 1..Len(d) : (s \o d)[i + Len(s)] = d[i]
  BY ConcatIs
<1> DEFINE w == s \o d
<1> HIDE DEF w
<1>2. ASSUME NEW j \in 1..Len(w) PROVE w[j] # "rbind"
  <2>1. j \in 1..Len(s) \/ (j - Len(s) \in 1..Len(d) /\ (j - Len(s)) + Len(s) = j)
    BY <1>1 DEF w
  <2>2. \A i \in 1..Len(d) : w[i + Len(s)] = d[i]
    BY <1>1 DEF w
  <2>3. \A i \in 1..Len(s) : w[i] = s[i]
    BY <1>1 DEF w
  <2>4. CASE j \in 1..Len(s)
    BY <2>3, <2>4 DEF Plain
  <2>5. CASE j - Len(s) \in 1..Len(d) /\ (j - Len(s)) + Len(s) = j
    <3> DEFINE i == j - Len(s)
    <3> HIDE DEF i
    <3>1. i \in 1..Len(d) /\ i + Len(s) = j
      BY <2>5 DEF i
    <3>2. w[j] = d[i]
      BY <2>2, <3>1
    <3> QED
      BY <3>1, <3>2 DEF Plain
  <2> QED
    BY <2>1, <2>4, <2>5
<1> QED
  BY <1>1, <1>2 DEF w, Plain

LEMMA BindMountIs ==
    ASSUME NEW src \in Path, NEW dest \in Path, NEW private \in BOOLEAN, NEW ro \in BOOLEAN,
           NEW extra \in Seq(Names), \A j \in 1..Len(extra) : extra[j] # "rbind"
    PROVE  /\ BindMount(src, dest, private, ro, extra) \in MountSpecs
           /\ BindMount(src, dest, private, ro, extra).src = src
           /\ BindMount(src, dest, private, ro, extra).dest = dest
           /\ IsBindMount(BindMount(src, dest, private, ro, extra))
           /\ ~IsRecursiveBind(BindMount(src, dest, private, ro, extra))
           /\ private => HasPrivate(BindMount(src, dest, private, ro, extra))
<1> DEFINE a == IF private THEN <<"private">> ELSE <<>>
           b == IF ro THEN <<"ro">> ELSE <<>>
           o == <<"bind">> \o a \o b \o extra
           m == BindMount(src, dest, private, ro, extra)
<1>1. m = [type |-> "bind", src |-> src, dest |-> dest, opts |-> o]
  BY DEF BindMount
<1>2. {"bind", "private", "ro"} \subseteq Names
  BY NamesAssumption DEF OwnNames
<1>3. <<"bind">> \in Seq(Names) /\ Len(<<"bind">>) = 1 /\ <<"bind">>[1] = "bind"
  BY <1>2
<1>4. a \in Seq(Names) /\ b \in Seq(Names) /\ (private => Len(a) = 1 /\ a[1] = "private")
  BY <1>2
<1>10. Plain(<<"bind">>) /\ Plain(a) /\ Plain(b) /\ Plain(extra)
  BY DEF Plain
<1>11. ASSUME NEW j \in 1..Len(o) PROVE o[j] # "rbind"
  <2> HIDE DEF a, b
  <2>1. <<"bind">> \in Path /\ a \in Path /\ b \in Path /\ extra \in Path
    BY <1>3, <1>4 DEF Path
  <2> DEFINE c == <<"bind">>
  <2>2. c \in Path /\ Plain(c)
    BY <1>10, <2>1
  <2> HIDE DEF c
  <2>3. c \o a \in Path /\ Plain(c \o a)
    BY <1>10, <2>1, <2>2, PlainConcat, Zenon
  <2>4. (c \o a) \o b \in Path /\ Plain((c \o a) \o b)
    BY <1>10, <2>1, <2>3, PlainConcat, Zenon
  <2>5. Plain(((c \o a) \o b) \o extra)
    BY <1>10, <2>1, <2>4, PlainConcat, Zenon
  <2> QED
    BY <2>5 DEF c, Plain
<1>5. o \in Seq(Names) /\ Len(o) \in Nat /\ Len(o) >= 1 /\ o[1] = "bind"
  <2> HIDE DEF a, b
  <2> QED
    BY <1>3, <1>4
<1>6. ASSUME private PROVE 2 \in 1..Len(o) /\ o[2] = "private"
  <2> HIDE DEF a, b
  <2>1. Len(a) = 1 /\ a[1] = "private"
    BY <1>4, <1>6
  <2> DEFINE c == <<"bind">> \o a
             d == c \o b
  <2>2. <<"bind">> \in Path /\ a \in Path /\ b \in Path /\ extra \in Path
    BY <1>3, <1>4 DEF Path
  <2>3. c \in Path /\ Len(c) = 2 /\ c[2] = "private"
    <3>1. /\ c \in Path /\ Len(c) = Len(<<"bind">>) + Len(a)
          /\ \A i \in 1..Len(a) : c[i + Len(<<"bind">>)] = a[i]
      BY <2>2, ConcatIs, Zenon
    <3>2. Len(c) = 1 + 1 /\ \A i \in 1..1 : c[i + 1] = a[i]
      <4> HIDE DEF c
      <4> QED
        BY <1>3, <2>1, <3>1, Zenon
    <3> HIDE DEF c
    <3> QED
      BY <2>1, <3>1, <3>2
  <2> HIDE DEF c
  <2>4. d \in Path /\ Len(d) = 2 + Len(b) /\ Len(b) \in Nat /\ d[2] = "private"
    <3>1. /\ d \in Path /\ Len(d) = Len(c) + Len(b) /\ Len(b) \in Nat
          /\ \A i \in 1..Len(c) : d[i] = c[i]
      BY <2>2, <2>3, ConcatIs, Zenon
    <3> HIDE DEF d
    <3> QED
      BY <2>3, <3>1
  <2> HIDE DEF d
  <2>5. Len(d \o extra) = Len(d) + Len(extra) /\ Len(extra) \in Nat /\ (d \o extra)[2] = d[2]
    <3>1. /\ Len(d \o extra) = Len(d) + Len(extra) /\ Len(extra) \in Nat
          /\ \A i \in 1..Len(d) : (d \o extra)[i] = d[i]
      BY <2>2, <2>4, ConcatIs, Zenon
    <3> QED
      BY <2>4, <3>1
  <2>6. o = d \o extra
    BY DEF c, d
  <2> QED
    BY <2>4, <2>5, <2>6
<1> HIDE DEF o
<1>7. m \in MountSpecs /\ m.src = src /\ m.dest = dest /\ m.opts = o
  BY <1>1, <1>2, <1>5 DEF MountSpecs
<1>8. 1 \in DOMAIN o /\ (private => 2 \in DOMAIN o)
  BY <1>5, <1>6
<1> HIDE DEF m
<1>9. IsBindMount(m) /\ (private => HasPrivate(m))
  BY <1>5, <1>6, <1>7, <1>8 DEF IsBindMount, HasPrivate
<1>12. ~IsRecursiveBind(m)
  BY <1>5, <1>7, <1>11 DEF IsRecursiveBind
<1> QED
  BY <1>7, <1>9, <1>12 DEF m

LEMMA ConcatSeq ==
    ASSUME NEW s \in Seq(MountSpecs), NEW d \in Seq(MountSpecs)
    PROVE  /\ s \o d \in Seq(MountSpecs)
           /\ Len(s \o d) = Len(s) + Len(d) /\ Len(s) \in Nat /\ Len(d) \in Nat
           /\ \A i \in 1..Len(s) : (s \o d)[i] = s[i]
           /\ \A i \in 1..Len(d) : (s \o d)[i + Len(s)] = d[i]
<1>1. s \o d \in Seq(MountSpecs) /\ \A i \in 1..Len(s) : (s \o d)[i] = s[i]
  OBVIOUS
<1>2. Len(s \o d) = Len(s) + Len(d) /\ Len(s) \in Nat /\ Len(d) \in Nat
  OBVIOUS
<1>3. ASSUME NEW i \in 1..Len(d) PROVE (s \o d)[i + Len(s)] = d[i]
  <2>1. i + Len(s) \in 1..(Len(s) + Len(d)) /\ ~(i + Len(s) <= Len(s)) /\ (i + Len(s)) - Len(s) = i
    BY <1>2
  <2>2. (s \o d)[i + Len(s)] = d[(i + Len(s)) - Len(s)]
    BY <1>2, <2>1
  <2> QED
    BY <2>1, <2>2
<1> QED
  BY <1>1, <1>2, <1>3

\* A mount that is not over the monitor's rootfs, brings no other along and, if
\* it is a bind mount, is no peer of the host's afterwards.
Tame(m) ==
    /\ m \in MountSpecs /\ m.dest # <<>>
    /\ IsBindMount(m) => HasPrivate(m)
    /\ ~IsRecursiveBind(m)

LEMMA RecursiveIsBind ==
    ASSUME NEW m, IsRecursiveBind(m) PROVE IsBindMount(m)
  BY DEF IsRecursiveBind, IsBindMount

LEMMA MonitorMountsIs ==
    /\ MountsForMonitor \in Seq(MountSpecs) /\ Len(MountsForMonitor) = 4
    /\ \A i \in 1..4 : Tame(MountsForMonitor[i])
<1> DEFINE a == [type |-> "proc", src |-> <<>>, dest |-> <<"proc">>, opts |-> <<>>]
           b == [type |-> "tmpfs", src |-> <<>>, dest |-> <<"dev">>,
                 opts |-> <<"nosuid", "strictatime", "private">>]
           c == [type |-> "devpts", src |-> <<>>, dest |-> <<"dev", "pts">>,
                 opts |-> <<"nosuid", "noexec">>]
           d == BindMount(<<"usr">>, <<"usr">>, TRUE, TRUE, <<>>)
<1>1. Tame(a)
  <2>1. a \in MountSpecs /\ a.dest # <<>>
    BY NamesAssumption DEF MountSpecs, Path, OwnNames
  <2>2. ~IsBindMount(a)
    BY DEF IsBindMount
  <2> HIDE DEF a
  <2> QED
    BY <2>1, <2>2, RecursiveIsBind DEF Tame
<1>2. Tame(b)
  <2>1. b \in MountSpecs /\ b.dest # <<>>
    BY NamesAssumption DEF MountSpecs, Path, OwnNames
  <2>2. ~IsBindMount(b)
    BY DEF IsBindMount
  <2> HIDE DEF b
  <2> QED
    BY <2>1, <2>2, RecursiveIsBind DEF Tame
<1>3. Tame(c)
  <2>1. c \in MountSpecs /\ c.dest # <<>>
    BY NamesAssumption DEF MountSpecs, Path, OwnNames
  <2>2. ~IsBindMount(c)
    BY DEF IsBindMount
  <2> HIDE DEF c
  <2> QED
    BY <2>1, <2>2, RecursiveIsBind DEF Tame
<1>4. Tame(d)
  <2>1. <<"usr">> \in Path /\ <<"usr">> # <<>> /\ <<>> \in Seq(Names) /\ TRUE \in BOOLEAN
    BY NamesAssumption DEF Path, OwnNames
  <2> DEFINE u == <<"usr">>
             e == <<>>
             y == TRUE
  <2>2. /\ u \in Path /\ u # <<>> /\ e \in Seq(Names) /\ y \in BOOLEAN
        /\ \A j \in 1..Len(e) : e[j] # "rbind"
    BY <2>1
  <2> HIDE DEF u, e, y
  <2>3. LET m == BindMount(u, u, y, y, e)
        IN  m \in MountSpecs /\ m.dest = u /\ (y => HasPrivate(m)) /\ ~IsRecursiveBind(m)
    BY <2>1, <2>2, BindMountIs
  <2>4. y /\ d = BindMount(u, u, y, y, e)
    BY DEF u, e, y
  <2> HIDE DEF d
  <2> QED
    BY <2>2, <2>3, <2>4, Zenon DEF Tame
<1>5. MountsForMonitor = <<a, b, c, d>>
  BY DEF MountsForMonitor
<1> HIDE DEF a, b, c, d
<1>6. a \in MountSpecs /\ b \in MountSpecs /\ c \in MountSpecs /\ d \in MountSpecs
  BY <1>1, <1>2, <1>3, <1>4 DEF Tame
<1>7. <<a, b, c, d>> \in Seq(MountSpecs) /\ Len(<<a, b, c, d>>) = 4
  BY <1>6
<1>8. ASSUME NEW i \in 1..4 PROVE Tame(<<a, b, c, d>>[i])
  <2>1. i = 1 \/ i = 2 \/ i = 3 \/ i = 4
    OBVIOUS
  <2> QED
    BY <1>1, <1>2, <1>3, <1>4, <2>1
<1> QED
  BY <1>5, <1>7, <1>8

\* The volumes follow the container's rootfs and /tmp.
LEMMA RootfsMountsIs ==
    ASSUME NEW v \in BindLists
    PROVE  /\ RootfsMounts(v) \in Seq(MountSpecs) /\ Len(RootfsMounts(v)) = Len(v) + 2
           /\ Len(v) \in Nat /\ DOMAIN v = 1..Len(v)
           /\ Tame(RootfsMounts(v)[1]) /\ Tame(RootfsMounts(v)[2])
           /\ \A i \in 1..Len(v) :
                LET m == RootfsMounts(v)[i + 2]
                IN  /\ m \in MountSpecs /\ m.src = v[i].src /\ m.opts = v[i].opts
                    /\ v[i].dest \in Path /\ m.dest = containerRootfsMountPath \o v[i].dest
                    /\ IsBindMount(m)
<1> DEFINE a == BindMount(CntrRootfs, containerRootfsMountPath, TRUE, FALSE,
                          <<"nodev", "nosuid", "noexec">>)
           b == TmpfsMount(<<"tmp">>)
           w == [i \in DOMAIN v |->
                   [v[i] EXCEPT !.dest = containerRootfsMountPath \o v[i].dest]]
<1>1. v \in Seq(MountSpecs) /\ Len(v) \in Nat /\ DOMAIN v = 1..Len(v)
  BY DEF BindLists
<1>2. containerRootfsMountPath \in Path /\ containerRootfsMountPath # <<>> /\ CntrRootfs \in Path
  BY NamesAssumption DEF containerRootfsMountPath, CntrRootfs, Path, OwnNames
<1>3. Tame(a)
  <2> DEFINE e == <<"nodev", "nosuid", "noexec">>
             c == CntrRootfs
             d == containerRootfsMountPath
             y == TRUE
             z == FALSE
  <2>1. c \in Path /\ d \in Path /\ e \in Seq(Names) /\ y \in BOOLEAN /\ z \in BOOLEAN
    BY <1>2, NamesAssumption DEF OwnNames
  <2>4. \A j \in 1..Len(e) : e[j] # "rbind"
    OBVIOUS
  <2> HIDE DEF c, d, e, y, z
  <2>2. LET m == BindMount(c, d, y, z, e)
        IN  m \in MountSpecs /\ m.dest = d /\ (y => HasPrivate(m)) /\ ~IsRecursiveBind(m)
    BY <2>1, <2>4, BindMountIs
  <2>3. y /\ d # <<>> /\ a = BindMount(c, d, y, z, e)
    BY <1>2 DEF c, d, e, y, z
  <2> HIDE DEF a
  <2> QED
    BY <2>2, <2>3, Zenon DEF Tame
<1>4. Tame(b)
  <2>1. b \in MountSpecs /\ b.dest # <<>>
    BY NamesAssumption DEF TmpfsMount, MountSpecs, Path, OwnNames
  <2>2. ~IsBindMount(b)
    BY DEF TmpfsMount, IsBindMount
  <2> HIDE DEF b
  <2> QED
    BY <2>1, <2>2, RecursiveIsBind DEF Tame
<1>5. ASSUME NEW i \in 1..Len(v)
      PROVE  /\ w[i] \in MountSpecs /\ w[i].src = v[i].src /\ w[i].opts = v[i].opts
             /\ v[i].dest \in Path /\ w[i].dest = containerRootfsMountPath \o v[i].dest
             /\ IsBindMount(w[i])
  <2>1. v[i] \in MountSpecs /\ IsBindMount(v[i])
    BY <1>1 DEF BindLists
  <2>2. v[i].dest \in Path
    BY <2>1 DEF MountSpecs
  <2>3. containerRootfsMountPath \o v[i].dest \in Path
    BY <1>2, <2>2, ConcatIs
  <2> DEFINE q == containerRootfsMountPath \o v[i].dest
  <2>4. w[i] = [v[i] EXCEPT !.dest = q]
    BY <1>1
  <2> HIDE DEF q
  <2>5. /\ w[i] \in MountSpecs /\ w[i].src = v[i].src /\ w[i].opts = v[i].opts
        /\ w[i].dest = q
    BY <2>1, <2>3, <2>4 DEF MountSpecs, q
  <2>6. IsBindMount(w[i])
    BY <2>1, <2>5 DEF IsBindMount
  <2> QED
    BY <2>2, <2>5, <2>6 DEF q
<1>6. w \in Seq(MountSpecs) /\ Len(w) = Len(v)
  <2>1. DOMAIN w = 1..Len(v) /\ \A i \in 1..Len(v) : w[i] \in MountSpecs
    BY <1>1, <1>5
  <2>2. w \in [1..Len(v) -> MountSpecs]
    BY <2>1
  <2> HIDE DEF w
  <2> QED
    BY <1>1, <2>2
<1>7. RootfsMounts(v) = <<a, b>> \o w
  BY DEF RootfsMounts
<1> HIDE DEF a, b, w
<1>8. a \in MountSpecs /\ b \in MountSpecs
  BY <1>3, <1>4 DEF Tame
<1>9. /\ <<a, b>> \in Seq(MountSpecs) /\ Len(<<a, b>>) = 2
      /\ <<a, b>>[1] = a /\ <<a, b>>[2] = b
  BY <1>8
<1> DEFINE h == <<a, b>>
<1> HIDE DEF h
<1>10. h \in Seq(MountSpecs) /\ Len(h) = 2 /\ h[1] = a /\ h[2] = b
  BY <1>9 DEF h
<1>11. /\ h \o w \in Seq(MountSpecs) /\ Len(h \o w) = Len(h) + Len(w)
       /\ \A i \in 1..Len(h) : (h \o w)[i] = h[i]
       /\ \A i \in 1..Len(w) : (h \o w)[i + Len(h)] = w[i]
  BY <1>6, <1>10, ConcatSeq, Zenon
<1>12. (h \o w)[1] = a /\ (h \o w)[2] = b
  BY <1>10, <1>11
<1>13. \A i \in 1..Len(v) : (h \o w)[i + 2] = w[i]
  BY <1>6, <1>10, <1>11, Zenon
<1>14. Len(h \o w) = Len(v) + 2
  BY <1>1, <1>6, <1>10, <1>11
<1>15. RootfsMounts(v) = h \o w
  BY <1>7 DEF h
<1>16. Tame(RootfsMounts(v)[1]) /\ Tame(RootfsMounts(v)[2])
  BY <1>3, <1>4, <1>12, <1>15, Zenon
<1>17. \A i \in 1..Len(v) : RootfsMounts(v)[i + 2] = w[i]
  BY <1>13, <1>15, Zenon
<1>18. ASSUME NEW i \in 1..Len(v)
       PROVE  LET m == RootfsMounts(v)[i + 2]
              IN  /\ m \in MountSpecs /\ m.src = v[i].src /\ m.opts = v[i].opts
                  /\ v[i].dest \in Path /\ m.dest = containerRootfsMountPath \o v[i].dest
                  /\ IsBindMount(m)
  BY <1>5, <1>17, Zenon
<1>19. RootfsMounts(v) \in Seq(MountSpecs) /\ Len(RootfsMounts(v)) = Len(v) + 2
  BY <1>11, <1>14, <1>15, Zenon
<1> QED
  BY <1>1, <1>16, <1>18, <1>19

ListOf(v) == MountsForMonitor \o RootfsMounts(v)

LEMMA ListIs ==
    ASSUME NEW v \in BindLists
    PROVE  /\ ListOf(v) \in Seq(MountSpecs) /\ Len(ListOf(v)) = Len(v) + 6 /\ Len(v) \in Nat
           /\ \A i \in 1..6 : Tame(ListOf(v)[i])
           /\ \A i \in 1..Len(v) : ListOf(v)[i + 6] = RootfsMounts(v)[i + 2]
           /\ \A i \in 1..Len(ListOf(v)) : ListOf(v)[i].dest # <<>>
<1> DEFINE f == MountsForMonitor
           r == RootfsMounts(v)
           L == ListOf(v)
<1>1. f \in Seq(MountSpecs) /\ Len(f) = 4 /\ \A i \in 1..4 : Tame(f[i])
  BY MonitorMountsIs
<1>2. r \in Seq(MountSpecs) /\ Len(r) = Len(v) + 2 /\ Len(v) \in Nat /\ Tame(r[1]) /\ Tame(r[2])
  BY RootfsMountsIs
<1>3. \A i \in 1..Len(v) :
        v[i].dest \in Path /\ r[i + 2].dest = containerRootfsMountPath \o v[i].dest
  BY RootfsMountsIs, Zenon
<1>4. L = f \o r
  BY DEF ListOf
<1> HIDE DEF f, r, L
<1>5. /\ L \in Seq(MountSpecs) /\ Len(L) = Len(f) + Len(r)
      /\ \A i \in 1..Len(f) : L[i] = f[i]
      /\ \A i \in 1..Len(r) : L[i + Len(f)] = r[i]
  BY <1>1, <1>2, <1>4, ConcatSeq, Zenon
<1>6. Len(L) = Len(v) + 6
  BY <1>1, <1>2, <1>5
<1>7. \A i \in 1..Len(r) : L[i + 4] = r[i]
  BY <1>1, <1>5, Zenon
<1>8. ASSUME NEW i \in 1..6 PROVE Tame(L[i])
  <2>1. CASE i \in 1..4
    BY <1>1, <1>5, <2>1
  <2>2. CASE i = 5
    <3>1. L[1 + 4] = r[1]
      BY <1>2, <1>7
    <3> QED
      BY <1>2, <2>2, <3>1
  <2>3. CASE i = 6
    <3>1. L[2 + 4] = r[2]
      BY <1>2, <1>7
    <3> QED
      BY <1>2, <2>3, <3>1
  <2> QED
    BY <2>1, <2>2, <2>3
<1>9. ASSUME NEW i \in 1..Len(v) PROVE L[i + 6] = r[i + 2]
  <2>1. i + 2 \in 1..Len(r) /\ (i + 2) + 4 = i + 6
    BY <1>2
  <2> QED
    BY <1>7, <2>1
<1>10. ASSUME NEW i \in 1..Len(L) PROVE L[i].dest # <<>>
  <2>1. CASE i \in 1..6
    BY <1>8, <2>1 DEF Tame
  <2>2. CASE i \notin 1..6
    <3>1. i - 6 \in 1..Len(v) /\ (i - 6) + 6 = i
      BY <1>2, <1>6, <2>2
    <3> DEFINE j == i - 6
    <3> HIDE DEF j
    <3>2. j \in 1..Len(v) /\ j + 6 = i
      BY <3>1 DEF j
    <3>3. L[i] = r[j + 2]
      BY <1>9, <3>2
    <3>4. v[j].dest \in Path /\ L[i].dest = containerRootfsMountPath \o v[j].dest
      BY <1>3, <3>2, <3>3, Zenon
    <3>5. containerRootfsMountPath \in Path /\ Len(containerRootfsMountPath) = 1
      BY NamesAssumption DEF containerRootfsMountPath, Path, OwnNames
    <3>6. /\ Len(containerRootfsMountPath \o v[j].dest)
               = Len(containerRootfsMountPath) + Len(v[j].dest)
          /\ Len(v[j].dest) \in Nat
      BY <3>4, <3>5, ConcatIs, Zenon
    <3>7. Len(L[i].dest) # 0
      BY <3>4, <3>5, <3>6
    <3> QED
      BY <3>7
  <2> QED
    BY <2>1, <2>2
<1> QED
  BY <1>2, <1>5, <1>6, <1>8, <1>9, <1>10 DEF L, r

-----------------------------------------------------------------------------
(* What the kernel does with a mount.                                      *)

\* A remount leaves one flag about atime.
LEMMA RemountedFlags ==
    ASSUME NEW m, m.flags \in MountFlags, NEW asked \in SUBSET VFSFlags
    PROVE  Remounted(m, asked) \in MountFlags
<1> DEFINE rest == IF asked \cap AtimeFlags = {} THEN m.flags \cap AtimeFlags
                   ELSE IF "strictatime" \in asked THEN {"strictatime"}
                   ELSE IF "noatime" \in asked THEN {"noatime"} ELSE {"relatime"}
<1>1. Remounted(m, asked) = (asked \ AtimeFlags) \cup rest
  BY DEF Remounted
<1>2. PICK a \in AtimeFlags : rest = {a}
  <2>1. CASE asked \cap AtimeFlags = {}
    BY <2>1 DEF MountFlags
  <2>2. CASE asked \cap AtimeFlags # {}
    BY <2>2 DEF AtimeFlags
  <2> QED
    BY <2>1, <2>2
<1> HIDE DEF rest
<1>3. AtimeFlags \subseteq VFSFlags
  BY DEF AtimeFlags, VFSFlags
<1>4. Remounted(m, asked) \in SUBSET VFSFlags
  BY <1>1, <1>2, <1>3
<1>5. Remounted(m, asked) \cap AtimeFlags = {a}
  BY <1>1, <1>2
<1> QED
  BY <1>4, <1>5 DEF MountFlags

\* The mounts that have come along with others.
Along == [with : Nat, mount : Mounted]

\* What a path is on: a mount of the table, or one that came along with it.
LEMMA OnIs ==
    ASSUME table \in Tables, along \subseteq Along, NEW p \in Path
    PROVE  /\ On(p) \in Mounted
           /\ \/ On(p) = table[Covering(table, p)]
              \/ \E a \in along : /\ a.with = Covering(table, p) /\ IsPrefix(a.mount.at, p)
                                  /\ On(p) = a.mount
<1> DEFINE k == Covering(table, p)
           over == {a \in along : a.with = k /\ IsPrefix(a.mount.at, p)}
           Deepest(a) == \A b \in over : Len(b.mount.at) <= Len(a.mount.at)
<1>1. On(p) = IF over = {} THEN table[k] ELSE (CHOOSE a \in over : Deepest(a)).mount
  BY DEF On
<1>2. table[k] \in Mounted
  BY CoveringTable
<1>3. CASE over = {}
  BY <1>1, <1>2, <1>3
<1>4. CASE over # {}
  <2> DEFINE lens == {Len(a.mount.at) : a \in over}
  <2>1. Len(p) \in Nat
    BY DEF Path
  <2>2. ASSUME NEW a \in over PROVE Len(a.mount.at) \in 0..Len(p)
    <3>1. a.mount \in Mounted /\ IsPrefix(a.mount.at, p)
      BY DEF Along
    <3>2. a.mount.at \in Path /\ Len(a.mount.at) \in Nat
      BY <3>1, AtIs
    <3>3. Len(a.mount.at) <= Len(p)
      BY <3>1, <3>2, PrefixIs
    <3> QED
      BY <2>1, <3>2, <3>3
  <2>3. lens \in SUBSET (0..Len(p)) /\ lens # {}
    BY <1>4, <2>2
  <2>4. PICK l \in lens : \A j \in lens : j <= l
    <3> HIDE DEF lens
    <3> QED
      BY <2>1, <2>3, GreatestNat
  <2>5. \E a \in over : Deepest(a)
    BY <2>4
  <2>6. PICK a \in over : On(p) = a.mount
    <3> HIDE DEF over, Deepest
    <3> QED
      BY <1>1, <1>4, <2>5, Zenon
  <2>7. a \in along /\ a.with = k /\ IsPrefix(a.mount.at, p) /\ a.mount \in Mounted
    BY DEF Along
  <2> QED
    BY <2>6, <2>7
<1> QED
  BY <1>3, <1>4

\* Outside of the monitor's rootfs nothing came along.
LEMMA OnOutside ==
    ASSUME table \in Tables, along \subseteq Along, \A a \in along : IsBelow(a.mount.at),
           NEW p \in Path, ~IsBelow(p)
    PROVE  On(p) = table[Covering(table, p)]
<1>1. ASSUME NEW a \in along PROVE ~IsPrefix(a.mount.at, p)
  <2>1. a.mount \in Mounted
    BY DEF Along
  <2>2. a.mount.at \in Path /\ IsBelow(a.mount.at)
    BY <2>1, AtIs
  <2> QED
    BY <2>2, NotAbove
<1> QED
  BY <1>1, OnIs

\* Without a peer of the host's, no path is on one.
Sealed ==
    /\ \A k \in DOMAIN table : ~IsHosts(table[k].group)
    /\ \A a \in along : ~IsHosts(a.mount.group)

LEMMA OnSealed ==
    ASSUME table \in Tables, along \subseteq Along, Sealed, NEW p \in Path
    PROVE  ~IsHosts(On(p).group)
<1>1. Covering(table, p) \in DOMAIN table
  BY CoveringTable DEF Tables
<1> QED
  BY <1>1, OnIs DEF Sealed

LEMMA JoinedIs ==
    ASSUME NEW m \in Mounted, NEW parent \in Mounted
    PROVE  /\ Joined(m, parent) \in Mounted /\ Joined(m, parent).at = m.at
           /\ Joined(m, parent).what = m.what /\ Joined(m, parent).flags = m.flags
           /\ Joined(m, parent).group = m.group \/ Joined(m, parent).group = parent.group
           /\ parent.group = "none" => Joined(m, parent).group = m.group
<1>1. CASE m.group = "none" /\ parent.group # "none"
  <2>1. Joined(m, parent) = [m EXCEPT !.group = parent.group] /\ parent.group \in Names
    BY <1>1 DEF Joined, Mounted
  <2> QED
    BY <1>1, <2>1 DEF Mounted
<1>2. CASE ~(m.group = "none" /\ parent.group # "none")
  BY <1>2 DEF Joined
<1> QED
  BY <1>1, <1>2

\* What a submount becomes below the mount it comes along with.
LEMMA MovedIs ==
    ASSUME NEW m \in Mounted, NEW src \in Path, NEW dest \in Path
    PROVE  /\ Moved(m, src, dest) \in Mounted /\ Moved(m, src, dest).group = m.group
           /\ IsPrefix(dest, Moved(m, src, dest).at)
<1> DEFINE rest == SubSeq(m.at, Len(src) + 1, Len(m.at))
<1>1. m.at \in Path /\ Len(m.at) \in Nat /\ Len(src) \in Nat
  BY AtIs DEF Path
<1>2. rest \in Path
  BY <1>1 DEF Path
<1>3. dest \o rest \in Path /\ IsPrefix(dest, dest \o rest)
  BY <1>2, PrefixConcat
<1>4. Moved(m, src, dest) = [m EXCEPT !.at = dest \o rest]
  BY DEF Moved
<1> DEFINE q == dest \o rest
<1> HIDE DEF rest, q
<1>5. Moved(m, src, dest) = [m EXCEPT !.at = q] /\ q \in Path /\ IsPrefix(dest, q)
  BY <1>3, <1>4 DEF q
<1> QED
  BY <1>5 DEF Mounted

LEMMA SubmountsAre ==
    ASSUME table \in Tables, along \subseteq Along, NEW p \in Path
    PROVE  /\ Submounts(p) \subseteq Mounted
           /\ Sealed => \A m \in Submounts(p) : ~IsHosts(m.group)
<1>1. MountPoints \subseteq Path
  <2>1. \A k \in DOMAIN table : table[k].at \in Path
    BY TablePlaced DEF Placed
  <2>2. \A a \in along : a.mount.at \in Path
    <3>1. \A a \in along : a.mount \in Mounted
      BY DEF Along
    <3> QED
      BY <3>1, AtIs
  <2> QED
    BY <2>1, <2>2 DEF MountPoints
<1>2. \A m \in Submounts(p) : \E q \in MountPoints : m = On(q)
  BY Zenon DEF Submounts
<1>3. \A q \in MountPoints : On(q) \in Mounted
  BY <1>1, OnIs
<1>4. Sealed => \A q \in MountPoints : ~IsHosts(On(q).group)
  BY <1>1, OnSealed
<1> QED
  BY <1>2, <1>3, <1>4, Zenon

\* A mount is made where it is asked for, in its own group or its parent's, and
\* so are the ones that come along.
LEMMA AttachIs ==
    ASSUME table \in Tables, along \subseteq Along, NEW m \in Mounted,
           NEW submounts \in SUBSET Mounted, Attach(m, submounts)
    PROVE  /\ \E x \in Mounted :
                /\ table' = Append(table, x)
                /\ x.at = m.at /\ x.what = m.what /\ x.flags = m.flags
                /\ x.group = m.group \/ x.group = On(m.at).group
                /\ On(m.at).group = "none" => x.group = m.group
           /\ along \subseteq along' /\ along' \subseteq Along
           /\ submounts = {} => along' = along
           /\ \A a \in along' : a \in along \/
                (/\ a.with = Len(table) + 1
                 /\ \E y \in submounts :
                      /\ a.mount.at = y.at
                      /\ a.mount.group = y.group \/ a.mount.group = On(m.at).group)
           /\ \/ leaked' = leaked
              \/ /\ leaked' = leaked \cup {m.at}
                 /\ ~cfg.mntns \/ IsHosts(On(m.at).group)
<1> DEFINE parent == On(m.at)
           x == Joined(m, parent)
           New(y) == [with |-> Len(table) + 1, mount |-> Joined(y, parent)]
<1>1. m.at \in Path
  BY AtIs
<1>2. parent \in Mounted
  BY <1>1, OnIs
<1>3. /\ table' = Append(table, x)
      /\ along' = along \cup {New(y) : y \in submounts}
      /\ leaked' = IF ~cfg.mntns \/ IsHosts(parent.group) THEN leaked \cup {m.at} ELSE leaked
  BY DEF Attach
<1> HIDE DEF parent
<1>4. /\ x \in Mounted /\ x.at = m.at /\ x.what = m.what /\ x.flags = m.flags
      /\ x.group = m.group \/ x.group = parent.group
      /\ parent.group = "none" => x.group = m.group
  BY <1>2, JoinedIs
<1> HIDE DEF x
<1>5. leaked' = leaked \/ (leaked' = leaked \cup {m.at} /\ (~cfg.mntns \/ IsHosts(parent.group)))
  BY <1>3
<1>6. ASSUME NEW y \in submounts
      PROVE  /\ New(y) \in Along /\ New(y).with = Len(table) + 1 /\ New(y).mount.at = y.at
             /\ New(y).mount.group = y.group \/ New(y).mount.group = parent.group
  <2> DEFINE j == Joined(y, parent)
             l == Len(table) + 1
  <2>1. j \in Mounted /\ j.at = y.at /\ (j.group = y.group \/ j.group = parent.group)
    BY <1>2, JoinedIs
  <2>2. l \in Nat
    BY DEF Tables
  <2>3. New(y) = [with |-> l, mount |-> j]
    OBVIOUS
  <2> HIDE DEF j, l, New
  <2>4. New(y) \in Along /\ New(y).with = l /\ New(y).mount = j
    BY <2>1, <2>2, <2>3 DEF Along
  <2> QED
    BY <2>1, <2>4, Zenon DEF l
<1> HIDE DEF New
<1>7. \A a \in along' : a \in along \/ \E y \in submounts : a = New(y)
  BY <1>3
<1>8. along \subseteq along' /\ (submounts = {} => along' = along)
  BY <1>3
<1>9. along' \subseteq Along
  BY <1>6, <1>7
<1>10. ASSUME NEW a \in along', a \notin along
       PROVE  /\ a.with = Len(table) + 1
              /\ \E y \in submounts :
                   /\ a.mount.at = y.at
                   /\ a.mount.group = y.group \/ a.mount.group = parent.group
  <2>1. PICK y \in submounts : a = New(y)
    BY <1>7, <1>10, Zenon
  <2>2. /\ New(y).with = Len(table) + 1 /\ New(y).mount.at = y.at
        /\ New(y).mount.group = y.group \/ New(y).mount.group = parent.group
    BY <1>6, Zenon
  <2> QED
    BY <2>1, <2>2, Zenon
<1> QED
  BY <1>3, <1>4, <1>5, <1>8, <1>9, <1>10, Zenon DEF parent

-----------------------------------------------------------------------------
(* The invariant.                                                          *)

Early == {"propagate", "private", "rbind"}
Quiet == {"rslave", "rprivate", "runbindable"}

\* What applyMounts is called with, how far it has come, and the mount of the
\* monitor's rootfs on itself, which the others follow.
List == ListOf(cfg.volumes)
Done == Len(List) - Len(todo)
Begun == IF step = "mount" THEN 0 ELSE 1
NewRoot == Covering(table, MonRootfs)

\* What create has decided.
ConfInv ==
    /\ cfg.mntns \in BOOLEAN /\ cfg.userns \in BOOLEAN /\ cfg.tap \in BOOLEAN
    /\ cfg.vaccel \in BOOLEAN
    /\ cfg.prop \in {""} \cup DOMAIN Propagation
    /\ cfg.volumes \in BindLists

\* Every path is on a mount, before and after the change of the root.
TableInv ==
    /\ pc \in Early \cup Phases => table \in Tables
    /\ pc \in {"oldslave", "unmount"} =>
         /\ Placed(old) /\ \A k \in DOMAIN old : old[k] \in Mounted
         /\ 1 \in DOMAIN old /\ old[1].at = <<>>
    /\ pc = "unmount" => \A k \in DOMAIN old : old[k].group = "none"

\* The mounts to come, in each of the phases.
DeviceMount(p) == BindMount(p, p, FALSE, FALSE, <<>>)
SocketMount == BindMount(<<"vaccel">>, vAccelMountPath, TRUE, TRUE, <<>>)
TodoInv ==
    /\ todo \in Seq(MountSpecs) /\ lost = {}
    /\ pc \in Early => todo = <<>> /\ nodes = {} /\ leaked = {}
    /\ pc \in Early \cup Phases /\ todo = <<>> => step = "mount"
    /\ pc = "mounts" =>
         /\ Len(todo) <= Len(List) /\ \A j \in 1..Len(todo) : todo[j] = List[Done + j]
         /\ nodes = {}
    /\ pc \in {"devices", "vdevices"} /\ todo # <<>> => cfg.userns
    /\ pc = "devices" =>
         \A j \in DOMAIN todo : \E p \in ToSet(DevicePaths(TRUE)) : todo[j] = DeviceMount(p)
    /\ pc = "vsock" => \A j \in DOMAIN todo : todo[j] = SocketMount
    /\ pc = "vdevices" =>
         \A j \in DOMAIN todo : \E p \in ToSet(VSockDevices) : todo[j] = DeviceMount(p)

\* The device nodes.
NodePaths == {Console} \cup ToSet(DevicePaths(TRUE)) \cup ToSet(VSockDevices)
NodesInv ==
    /\ \A n \in nodes : n.path \in NodePaths
    /\ cfg.userns => \A n \in nodes : n.path = Console
    /\ cfg.userns /\ pc = "devices" => nodes = {}
    /\ NodesVisible

\* The monitor's rootfs is a mount that pivot_root takes: the host's mounts come
\* before it, and all that follow it are in it.
Pivotable(t) ==
    LET r == Covering(t, MonRootfs)
    IN  /\ t[r].at = MonRootfs /\ t[r].group = "none"
        /\ 1 < r /\ ParentOf(t, r).group = "none"
        /\ \A k \in DOMAIN t : k < r <=> ~IsBelow(t[k].at)
RootInv ==
    /\ pc \in Early => \A k \in DOMAIN table : ~IsBelow(table[k].at)
    /\ pc = "rbind" => table[NewRoot].group = "none"
    /\ pc \in Phases =>
         /\ Pivotable(table)
         /\ IF pc = "mounts" THEN Top = NewRoot + Done + Begun
            ELSE Top >= NewRoot + Len(List) + Begun

\* The mount of a volume is at its place, with the flags its options ask for.
FlagsFrom(userns, L, m) ==
    IF SplitVFSFlags(m.opts) = {} THEN L
    ELSE Remounted([flags |-> L], SplitVFSFlags(m.opts) \cup (IF userns THEN L ELSE {}))
Flagged(userns, t, m, k) ==
    /\ t[k].at = Target(m) /\ t[k].what = m.src
    /\ \E L \in MountFlags :
         /\ t[k].flags = FlagsFrom(userns, L, m)
         /\ ~IsBelow(m.src) => L = t[Covering(t, m.src)].flags
FlagsInv ==
    pc \in Phases =>
        /\ step # "mount" => table[Top].at = Target(Head(todo))
        /\ step = "remount" /\ IsBindMount(Head(todo)) =>
             /\ table[Top].what = Head(todo).src
             /\ ~IsPrefix(Target(Head(todo)), Head(todo).src) =>
                  table[Top].flags = On(Head(todo).src).flags
        /\ \A i \in DOMAIN cfg.volumes :
             MadeFor(i) \in DOMAIN table /\ (step = "remount" => MadeFor(i) # Top) =>
               Flagged(cfg.userns, table, Volume(i), MadeFor(i))

\* What a bind mount of a volume brought along is below it, and once applyMount
\* is through with the volume no recursive option has taken it out of its group.
CameAlong(a, r, v, settled) ==
    \E i \in DOMAIN v :
        /\ a.with = r + 6 + i
        /\ IsPrefix(MonRootfs \o RootfsMounts(v)[i + 2].dest, a.mount.at)
        /\ settled /\ IsHosts(a.mount.group) => LeftShared(v[i].opts, Recursive)
Settled(k) == ~(step # "mount" /\ k = Top)
AlongInv ==
    /\ pc \in Early => along = {}
    /\ pc \in Phases =>
         /\ along \subseteq Along
         /\ \A a \in along : CameAlong(a, NewRoot, cfg.volumes, Settled(a.with))

\* Who is a peer of a mount of the host's: a volume, or a device in a user
\* namespace.
Peer(at, k, r, v) ==
    \/ \E i \in DOMAIN v : k = r + 6 + i /\ AllShared(v[i].opts)
    \/ k > r + 6 + Len(v) /\ \E p \in NodePaths : at = MonRootfs \o p
GroupInv ==
    /\ pc \in {"private", "rbind"} \cup Phases /\ RootPropagation \in Quiet => Sealed
    /\ pc \in Phases =>
         \A k \in DOMAIN table : k >= NewRoot /\ IsHosts(table[k].group) =>
             IF Settled(k) THEN Peer(table[k].at, k, NewRoot, cfg.volumes)
             ELSE IsBindMount(Head(todo))

\* No device is mounted twice, and so none on another.
Later(where) ==
    IF where = "devices" THEN {vAccelMountPath} \cup ToSet(VSockDevices)
    ELSE IF where = "vsock" THEN ToSet(VSockDevices) ELSE {}
Distinct(q, S) ==
    /\ \A i, j \in DOMAIN q : q[i].dest = q[j].dest => i = j
    /\ \A i \in DOMAIN q : q[i].dest \notin S
Clear(at, q, S) ==
    /\ \A j \in DOMAIN q : at # MonRootfs \o q[j].dest
    /\ \A p \in S : at # MonRootfs \o p
ClearInv ==
    pc \in Phases \ {"mounts"} =>
        /\ Distinct(todo, Later(pc))
        /\ \A k \in DOMAIN table : k > NewRoot + 6 + Len(cfg.volumes) /\ Settled(k) =>
             Clear(table[k].at, todo, Later(pc))

\* The exception that HostUntouched makes.
Excused(p) ==
    /\ RootPropagation \notin Quiet
    /\ \E i \in DOMAIN cfg.volumes :
         \/ /\ \/ IsStrictPrefix(Target(Volume(i)), p)
               \/ /\ Target(Volume(i)) = p
                  /\ \E j \in DOMAIN cfg.volumes \ {i} : Target(Volume(j)) = p
            /\ AllShared(cfg.volumes[i].opts)
         \/ /\ \E a \in along : a.with = MadeFor(i) /\ IsPrefix(a.mount.at, p)
            /\ LeftShared(cfg.volumes[i].opts, Recursive)

MountsInv ==
    /\ TypeOK /\ ConfInv /\ TableInv /\ TodoInv
    /\ NodesInv /\ RootInv /\ FlagsInv /\ AlongInv /\ GroupInv /\ ClearInv
    /\ HostUntouched

-----------------------------------------------------------------------------
\* What pivot_root looks at is settled once the rootfs is mounted.
LEMMA PivotableKept ==
    ASSUME NEW t \in Tables, NEW u \in Tables, Pivotable(t),
           Covering(u, MonRootfs) = Covering(t, MonRootfs), Len(t) <= Len(u),
           \A k \in 1..Covering(t, MonRootfs) : u[k] = t[k],
           \A k \in 1..Len(u) : k > Covering(t, MonRootfs) => IsBelow(u[k].at)
    PROVE  Pivotable(u)
<1> DEFINE r == Covering(t, MonRootfs)
           b == Before(t, r)
           c == Covering(b, t[r].at)
<1>1. /\ t \in Seq(Mounted) /\ Len(t) \in Nat /\ DOMAIN t = 1..Len(t)
      /\ u \in Seq(Mounted) /\ Len(u) \in Nat /\ DOMAIN u = 1..Len(u)
  BY DEF Tables
<1>2. r \in 1..Len(t) /\ Covering(u, MonRootfs) = r
  BY MonIs, CoveringTable
<1>3. /\ t[r].at = MonRootfs /\ t[r].group = "none" /\ 1 < r /\ t[c].group = "none"
      /\ \A k \in DOMAIN t : k < r <=> ~IsBelow(t[k].at)
  BY Zenon DEF Pivotable, ParentOf
<1>4. /\ \A k \in 1..r : u[k] = t[k]
      /\ \A k \in 1..Len(u) : k > r => IsBelow(u[k].at)
  OBVIOUS
<1>15. t[1].at = <<>>
  BY DEF Tables
<1>16. \A k \in DOMAIN t : t[k].at \in Path
  BY TablePlaced DEF Placed
<1> HIDE DEF r
<1>5. {i \in DOMAIN u : i < r} = 1..(r - 1) /\ {i \in DOMAIN t : i < r} = 1..(r - 1)
  BY <1>1, <1>2
<1>6. b = [j \in 1..(r - 1) |-> t[j]] /\ Before(u, r) = [j \in 1..(r - 1) |-> u[j]]
  BY <1>5, Zenon DEF Before
<1>7. \A j \in 1..(r - 1) : u[j] = t[j]
  BY <1>1, <1>2, <1>4
<1>8. Before(u, r) = b
  BY <1>6, <1>7
<1> HIDE DEF b
<1>9. c \in 1..(r - 1)
  <2>1. DOMAIN b = 1..(r - 1) /\ \A j \in 1..(r - 1) : b[j] = t[j]
    BY <1>6
  <2>2. 1 \in 1..(r - 1) /\ r - 1 \in Nat /\ 1..(r - 1) \subseteq DOMAIN t
    BY <1>1, <1>2, <1>3
  <2>3. Placed(b)
    <3>1. \A k \in DOMAIN b : b[k].at \in Path
      BY <1>16, <2>1, <2>2
    <3>2. \E N \in Nat : DOMAIN b \subseteq 1..N
      BY <2>1, <2>2
    <3> QED
      BY <3>1, <3>2 DEF Placed
  <2>4. OnSome(b, MonRootfs)
    <3>1. b[1].at = <<>> /\ 1 \in DOMAIN b
      BY <1>15, <2>1, <2>2
    <3>2. IsPrefix(<<>>, MonRootfs)
      BY MonIs, PrefixConcat
    <3> QED
      BY <3>1, <3>2 DEF OnSome
  <2>5. Covering(b, MonRootfs) \in DOMAIN b
    BY <2>3, <2>4, MonIs, CoveringIs
  <2> QED
    BY <1>3, <2>1, <2>5
<1> HIDE DEF c
<1>10. /\ u[r].at = MonRootfs /\ u[r].group = "none" /\ u[r].at = t[r].at
       /\ u[c].group = "none"
  BY <1>1, <1>2, <1>3, <1>4, <1>9
<1>11. ParentOf(u, r) = u[c]
  BY <1>8, <1>10 DEF ParentOf, c
<1>12. \A k \in DOMAIN u : k < r <=> ~IsBelow(u[k].at)
  <2> TAKE k \in DOMAIN u
  <2>1. k \in 1..r \/ k > r
    BY <1>1, <1>2
  <2>2. CASE k \in 1..r
    <3>1. k \in DOMAIN t /\ u[k] = t[k]
      BY <1>1, <1>2, <1>4, <2>2
    <3> QED
      BY <1>3, <3>1
  <2>3. CASE k > r
    <3>1. IsBelow(u[k].at) /\ ~(k < r)
      BY <1>1, <1>2, <1>4, <2>3
    <3> QED
      BY <3>1
  <2> QED
    BY <2>1, <2>2, <2>3
<1>13. ParentOf(u, r).group = "none"
  BY <1>10, <1>11
<1> QED
  BY <1>2, <1>3, <1>10, <1>12, <1>13, Zenon DEF Pivotable

LEMMA HostTableIs ==
    ASSUME NEW t \in HostTables
    PROVE  t \in Tables /\ \A k \in DOMAIN t : ~IsBelow(t[k].at)
  BY HostAssumption, Zenon DEF Tables, IsBelow

LEMMA MountsInvInit == Init => MountsInv
<1> SUFFICES ASSUME Init PROVE MountsInv
  OBVIOUS
<1>1. /\ pc = "propagate" /\ todo = <<>> /\ step = "mount" /\ old = <<>>
      /\ along = {} /\ nodes = {} /\ leaked = {} /\ lost = {}
  BY DEF Init
<1>2. table \in HostTables
  BY DEF Init
<1>7. table \in Tables /\ \A k \in DOMAIN table : ~IsBelow(table[k].at) /\ table[k] \in Mounted
  BY <1>2, HostTableIs DEF Tables
<1>8. ConfInv
  <2>1. /\ cfg.mntns \in BOOLEAN /\ cfg.userns \in BOOLEAN /\ cfg.tap \in BOOLEAN
        /\ cfg.vaccel \in BOOLEAN /\ cfg.prop \in {""} \cup DOMAIN Propagation
        /\ cfg.volumes \in {OnlyBindMounts(m) : m \in {x \in ContainerMounts : ~BindWithoutOption(x)}}
    BY DEF Init
  <2>2. PICK m \in ContainerMounts : cfg.volumes = OnlyBindMounts(m)
    BY <2>1
  <2>3. m \in Seq(MountSpecs)
    BY ContainerAssumption DEF MountSpecs
  <2>4. cfg.volumes \in BindLists
    BY <2>2, <2>3, OnlyBindMountsIs
  <2> QED
    BY <2>1, <2>4 DEF ConfInv
<1>9. pc \notin Phases /\ pc \in Early /\ pc \notin {"oldslave", "unmount", "mounts", "devices", "vsock", "vdevices", "rbind"}
  BY <1>1 DEF Phases, Early
<1>10. TypeOK
  BY <1>1, <1>7 DEF TypeOK
<1>11. TableInv
  BY <1>7, <1>9 DEF TableInv
<1>12. TodoInv
  BY <1>1, <1>9 DEF TodoInv
<1>13. NodesInv
  BY <1>1 DEF NodesInv, NodesVisible
<1>14. RootInv
  BY <1>7, <1>9 DEF RootInv
<1>15. FlagsInv /\ ClearInv
  BY <1>9 DEF FlagsInv, ClearInv
<1>16. GroupInv /\ AlongInv
  BY <1>1, <1>9 DEF GroupInv, AlongInv
<1>17. HostUntouched
  BY <1>1 DEF HostUntouched
<1> QED
  BY <1>8, <1>10, <1>11, <1>12, <1>13, <1>14, <1>15, <1>16, <1>17 DEF MountsInv

-----------------------------------------------------------------------------
(* What the invariant says in one of the phases.                           *)

LEMMA PhaseFacts ==
    ASSUME MountsInv, pc \in Phases
    PROVE  /\ table \in Tables /\ Len(table) \in Nat /\ DOMAIN table = 1..Len(table)
           /\ NewRoot \in 1..Len(table)
           /\ table[NewRoot].at = MonRootfs /\ table[NewRoot].group = "none"
           /\ \A k \in 1..Len(table) : k < NewRoot <=> ~IsBelow(table[k].at)
           /\ along \subseteq Along /\ (\A a \in along : a.with \in 1..Len(table))
           /\ cfg.volumes \in BindLists
           /\ List \in Seq(MountSpecs) /\ Len(List) = Len(cfg.volumes) + 6
           /\ Len(cfg.volumes) \in Nat /\ DOMAIN cfg.volumes = 1..Len(cfg.volumes)
           /\ todo \in Seq(MountSpecs)
           /\ \A i \in DOMAIN cfg.volumes : MadeFor(i) = NewRoot + 6 + i
<1>1. table \in Tables /\ cfg.volumes \in BindLists /\ todo \in Seq(MountSpecs) /\ Pivotable(table)
  BY DEF MountsInv, TableInv, ConfInv, TodoInv, RootInv
<1>2. Len(table) \in Nat /\ DOMAIN table = 1..Len(table)
  BY <1>1 DEF Tables
<1>3. NewRoot \in 1..Len(table)
  BY <1>1, MonIs, CoveringTable DEF NewRoot
<1>4. /\ table[NewRoot].at = MonRootfs /\ table[NewRoot].group = "none"
      /\ \A k \in DOMAIN table : k < NewRoot <=> ~IsBelow(table[k].at)
  BY <1>1, Zenon DEF Pivotable, NewRoot
<1>8. along \subseteq Along /\ \A a \in along : a.with \in DOMAIN table
  BY DEF MountsInv, AlongInv, TypeOK
<1>5. List \in Seq(MountSpecs) /\ Len(List) = Len(cfg.volumes) + 6 /\ Len(cfg.volumes) \in Nat
  BY <1>1, ListIs, Zenon DEF List
<1>6. DOMAIN cfg.volumes = 1..Len(cfg.volumes)
  BY <1>1 DEF BindLists
<1>7. ASSUME NEW i \in DOMAIN cfg.volumes PROVE MadeFor(i) = NewRoot + 6 + i
  <2>1. MadeFor(i) = NewRoot + Len(MountsForMonitor) + 2 + i
    BY DEF MadeFor, NewRoot
  <2>2. Len(MountsForMonitor) = 4
    BY MonitorMountsIs
  <2>3. i \in Nat /\ NewRoot \in Nat
    BY <1>2, <1>3, <1>5, <1>6
  <2> QED
    BY <2>1, <2>2, <2>3
<1> QED
  BY <1>1, <1>2, <1>3, <1>4, <1>5, <1>6, <1>7, <1>8

LEMMA VolumeFacts ==
    ASSUME cfg.volumes \in BindLists, NEW i \in DOMAIN cfg.volumes
    PROVE  /\ Volume(i) \in MountSpecs /\ IsBindMount(Volume(i))
           /\ Volume(i).opts = cfg.volumes[i].opts
           /\ Volume(i) = List[i + 6]
           /\ Volume(i).dest \in Path /\ Volume(i).dest # <<>>
           /\ 1 \in 1..Len(Volume(i).dest) /\ Volume(i).dest[1] = "cntrRootfs"
           /\ Target(Volume(i)) = MonRootfs \o RootfsMounts(cfg.volumes)[i + 2].dest
<1> DEFINE v == cfg.volumes
           c == containerRootfsMountPath
<1>1. i \in 1..Len(v)
  BY DEF BindLists
<1>2. /\ Volume(i) \in MountSpecs /\ Volume(i).opts = v[i].opts
      /\ v[i].dest \in Path /\ Volume(i).dest = c \o v[i].dest
      /\ IsBindMount(Volume(i))
  BY <1>1, RootfsMountsIs, Zenon DEF Volume
<1>3. Volume(i) = List[i + 6]
  BY <1>1, ListIs, Zenon DEF Volume, List
<1>4. c \in Path /\ Len(c) = 1 /\ c[1] = "cntrRootfs"
  BY NamesAssumption DEF containerRootfsMountPath, Path, OwnNames
<1> HIDE DEF v, c
<1>5. /\ c \o v[i].dest \in Path /\ Len(c \o v[i].dest) = Len(c) + Len(v[i].dest)
      /\ Len(v[i].dest) \in Nat /\ \A j \in 1..Len(c) : (c \o v[i].dest)[j] = c[j]
  BY <1>2, <1>4, ConcatIs, Zenon
<1> DEFINE d == c \o v[i].dest
<1>6. d \in Path /\ 1 \in 1..Len(d) /\ d[1] = "cntrRootfs"
  BY <1>4, <1>5
<1> HIDE DEF d
<1>7. d # <<>>
  BY <1>6
<1>8. Volume(i).dest = d
  BY <1>2 DEF d
<1>9. Target(Volume(i)) = MonRootfs \o RootfsMounts(cfg.volumes)[i + 2].dest
  BY DEF Target, Volume
<1> QED
  BY <1>2, <1>3, <1>6, <1>7, <1>8, <1>9 DEF v

\* What came along with a volume is in its place, and so below the monitor's
\* rootfs.
LEMMA AlongFacts ==
    ASSUME MountsInv, pc \in Phases, NEW a \in along
    PROVE  /\ a.mount \in Mounted /\ a.mount.at \in Path /\ IsBelow(a.mount.at)
           /\ \E i \in DOMAIN cfg.volumes :
                /\ a.with = MadeFor(i) /\ IsPrefix(Target(Volume(i)), a.mount.at)
                /\ Settled(a.with) /\ IsHosts(a.mount.group) =>
                     LeftShared(cfg.volumes[i].opts, Recursive)
<1>1. /\ cfg.volumes \in BindLists /\ along \subseteq Along
      /\ \A i \in DOMAIN cfg.volumes : MadeFor(i) = NewRoot + 6 + i
  BY PhaseFacts
<1>2. CameAlong(a, NewRoot, cfg.volumes, Settled(a.with))
  BY DEF MountsInv, AlongInv
<1>3. PICK i \in DOMAIN cfg.volumes :
        /\ a.with = NewRoot + 6 + i
        /\ IsPrefix(MonRootfs \o RootfsMounts(cfg.volumes)[i + 2].dest, a.mount.at)
        /\ Settled(a.with) /\ IsHosts(a.mount.group) => LeftShared(cfg.volumes[i].opts, Recursive)
  BY <1>2, Zenon DEF CameAlong
<1>4. a.with = MadeFor(i) /\ IsPrefix(Target(Volume(i)), a.mount.at)
  BY <1>1, <1>3, VolumeFacts
<1>5. a.mount \in Mounted /\ a.mount.at \in Path
  <2>1. a.mount \in Mounted
    BY <1>1 DEF Along
  <2> QED
    BY <2>1, AtIs
<1>6. Target(Volume(i)) \in Path /\ IsBelow(Target(Volume(i)))
  BY <1>1, VolumeFacts, BelowMon DEF Target
<1>7. IsBelow(a.mount.at)
  BY <1>4, <1>5, <1>6, MonIs, PrefixTrans DEF IsBelow
<1> QED
  BY <1>3, <1>4, <1>5, <1>7

LEMMA SocketIs ==
    /\ SocketMount \in MountSpecs /\ SocketMount.dest \in Path /\ SocketMount.dest # <<>>
    /\ IsBindMount(SocketMount) /\ HasPrivate(SocketMount) /\ ~IsRecursiveBind(SocketMount)
    /\ SocketMount.dest = vAccelMountPath
    /\ 1 \in 1..Len(SocketMount.dest) /\ SocketMount.dest[1] = "tmp"
<1> DEFINE a == <<"vaccel">>
           e == <<>>
<1>1. /\ a \in Path /\ e \in Seq(Names) /\ TRUE \in BOOLEAN
      /\ \A j \in 1..Len(e) : e[j] # "rbind"
  BY NamesAssumption DEF Path, OwnNames
<1>2. /\ vAccelMountPath \in Path /\ Len(vAccelMountPath) = 2 /\ vAccelMountPath[1] = "tmp"
      /\ vAccelMountPath # <<>>
  BY NamesAssumption DEF vAccelMountPath, Path, OwnNames
<1>3. SocketMount = BindMount(a, vAccelMountPath, TRUE, TRUE, e)
  BY DEF SocketMount
<1> HIDE DEF a, e
<1>4. LET m == BindMount(a, vAccelMountPath, TRUE, TRUE, e)
      IN  /\ m \in MountSpecs /\ m.dest = vAccelMountPath /\ IsBindMount(m) /\ HasPrivate(m)
          /\ ~IsRecursiveBind(m)
  <2> DEFINE d == vAccelMountPath
             y == TRUE
  <2>1. /\ a \in Path /\ d \in Path /\ e \in Seq(Names) /\ y \in BOOLEAN
        /\ \A j \in 1..Len(e) : e[j] # "rbind"
    BY <1>1, <1>2
  <2> HIDE DEF d, y
  <2>2. LET m == BindMount(a, d, y, y, e)
        IN  /\ m \in MountSpecs /\ m.src = a /\ m.dest = d
            /\ IsBindMount(m) /\ (y => HasPrivate(m)) /\ ~IsRecursiveBind(m)
    BY <2>1, BindMountIs
  <2> QED
    BY <2>2 DEF d, y
<1>5. SocketMount.dest = vAccelMountPath
  BY <1>3, <1>4, Zenon
<1>6. 1 \in 1..Len(vAccelMountPath)
  BY <1>2
<1> QED
  BY <1>2, <1>3, <1>4, <1>5, <1>6, Zenon

LEMMA ConcatPaths ==
    ASSUME NEW s \in Seq(Path), NEW d \in Seq(Path)
    PROVE  /\ s \o d \in Seq(Path)
           /\ Len(s \o d) = Len(s) + Len(d) /\ Len(s) \in Nat /\ Len(d) \in Nat
           /\ \A i \in 1..Len(s) : (s \o d)[i] = s[i]
           /\ \A i \in 1..Len(d) : (s \o d)[i + Len(s)] = d[i]
<1>1. s \o d \in Seq(Path) /\ \A i \in 1..Len(s) : (s \o d)[i] = s[i]
  OBVIOUS
<1>2. Len(s \o d) = Len(s) + Len(d) /\ Len(s) \in Nat /\ Len(d) \in Nat
  OBVIOUS
<1>3. ASSUME NEW i \in 1..Len(d) PROVE (s \o d)[i + Len(s)] = d[i]
  <2>1. i + Len(s) \in 1..(Len(s) + Len(d)) /\ ~(i + Len(s) <= Len(s)) /\ (i + Len(s)) - Len(s) = i
    BY <1>2
  <2>2. (s \o d)[i + Len(s)] = d[(i + Len(s)) - Len(s)]
    BY <1>2, <2>1
  <2> QED
    BY <2>1, <2>2
<1> QED
  BY <1>1, <1>2, <1>3

LEMMA TwoAndOne ==
    ASSUME NEW s \in Seq(Path), NEW u \in Seq(Path), Len(s) = 2, Len(u) = 1
    PROVE  DOMAIN (s \o u) = 1..3 /\ (s \o u)[1] = s[1] /\ (s \o u)[2] = s[2] /\ (s \o u)[3] = u[1]
<1> DEFINE w == s \o u
<1>1. /\ w \in Seq(Path) /\ Len(w) = Len(s) + Len(u)
      /\ \A i \in 1..Len(s) : w[i] = s[i]
      /\ \A i \in 1..Len(u) : w[i + Len(s)] = u[i]
  BY ConcatPaths, Zenon
<1> HIDE DEF w
<1>2. \A i \in 1..1 : w[i + 2] = u[i]
  BY <1>1, Zenon
<1>3. Len(w) = 3 /\ DOMAIN w = 1..3 /\ w[1] = s[1] /\ w[2] = s[2] /\ w[1 + 2] = u[1]
  BY <1>1, <1>2
<1> QED
  BY <1>3 DEF w

\* The node of a name, in its directory.
NodeOf(x) == IF x = "net" THEN <<"dev", "net", "tun">> ELSE <<"dev", x>>

LEMMA NodePathsIs ==
    /\ \A p \in NodePaths : p \in Path /\ p # <<>> /\ Len(p) >= 2 /\ p[1] = "dev"
    /\ \A p \in NodePaths : p = NodeOf(p[2])
    /\ \A p \in ToSet(VSockDevices) : p[2] # Console[2]
    /\ \A p \in ToSet(DevicePaths(TRUE)) : p \notin ToSet(VSockDevices)
    /\ Console \in NodePaths /\ ToSet(VSockDevices) \subseteq NodePaths
    /\ ToSet(DevicePaths(TRUE)) \subseteq NodePaths
<1> DEFINE D == {<<"dev", "null">>, <<"dev", "kvm">>, <<"dev", "net", "tun">>}
           V == {<<"dev", "vsock">>, <<"dev", "vhost-vsock">>}
<1>1. ToSet(VSockDevices) = V
  <2>1. DOMAIN VSockDevices = 1..2
    BY DEF VSockDevices
  <2>2. VSockDevices[1] = <<"dev", "vsock">> /\ VSockDevices[2] = <<"dev", "vhost-vsock">>
    BY DEF VSockDevices
  <2>3. \A i \in 1..2 : i = 1 \/ i = 2
    OBVIOUS
  <2> QED
    BY <2>1, <2>2, <2>3 DEF ToSet
<1>2. ToSet(DevicePaths(TRUE)) = D
  <2> DEFINE s == <<<<"dev", "null">>, <<"dev", "kvm">>>>
             u == <<<<"dev", "net", "tun">>>>
  <2>1. DevicePaths(TRUE) = s \o u
    BY DEF DevicePaths
  <2>2. <<"dev", "null">> \in Path /\ <<"dev", "kvm">> \in Path /\ <<"dev", "net", "tun">> \in Path
    BY NamesAssumption DEF Path, OwnNames
  <2>3. /\ s \in Seq(Path) /\ u \in Seq(Path) /\ Len(s) = 2 /\ Len(u) = 1
        /\ s[1] = <<"dev", "null">> /\ s[2] = <<"dev", "kvm">> /\ u[1] = <<"dev", "net", "tun">>
    BY <2>2
  <2> HIDE DEF s, u
  <2>4. /\ DOMAIN (s \o u) = 1..3 /\ (s \o u)[1] = s[1] /\ (s \o u)[2] = s[2] /\ (s \o u)[3] = u[1]
    BY <2>3, TwoAndOne
  <2>5. \A i \in 1..3 : i = 1 \/ i = 2 \/ i = 3
    OBVIOUS
  <2> DEFINE w == s \o u
  <2> HIDE DEF w
  <2>6. /\ DOMAIN w = 1..3
        /\ w[1] = <<"dev", "null">> /\ w[2] = <<"dev", "kvm">> /\ w[3] = <<"dev", "net", "tun">>
    BY <2>3, <2>4 DEF w
  <2>7. ToSet(w) = D
    BY <2>5, <2>6 DEF ToSet
  <2> QED
    BY <2>1, <2>7 DEF w
<1>3. \A p \in {Console} \cup D \cup V : p \in Path /\ p # <<>> /\ Len(p) >= 2 /\ p[1] = "dev"
  <2> DEFINE Good(p) == p \in Path /\ p # <<>> /\ Len(p) >= 2 /\ p[1] = "dev"
  <2>1. Good(Console)
    BY NamesAssumption DEF Path, OwnNames, Console
  <2>2. Good(<<"dev", "null">>)
    BY NamesAssumption DEF Path, OwnNames
  <2>3. Good(<<"dev", "kvm">>)
    BY NamesAssumption DEF Path, OwnNames
  <2>4. Good(<<"dev", "net", "tun">>)
    BY NamesAssumption DEF Path, OwnNames
  <2>5. Good(<<"dev", "vsock">>)
    BY NamesAssumption DEF Path, OwnNames
  <2>6. Good(<<"dev", "vhost-vsock">>)
    BY NamesAssumption DEF Path, OwnNames
  <2> HIDE DEF Good
  <2>7. \A p \in {Console} \cup D \cup V : Good(p)
    BY <2>1, <2>2, <2>3, <2>4, <2>5, <2>6, Zenon
  <2> QED
    BY <2>7 DEF Good
<1>4. \A p \in V : p[2] # Console[2]
  BY DEF Console
<1>5. \A p \in {Console} \cup D \cup V : p = NodeOf(p[2])
  <2> DEFINE Good(p) == p = NodeOf(p[2])
  <2>1. Good(Console)
    BY DEF Console, NodeOf
  <2>2. Good(<<"dev", "null">>)
    BY DEF NodeOf
  <2>3. Good(<<"dev", "kvm">>)
    BY DEF NodeOf
  <2>4. Good(<<"dev", "net", "tun">>)
    BY DEF NodeOf
  <2>5. Good(<<"dev", "vsock">>)
    BY DEF NodeOf
  <2>6. Good(<<"dev", "vhost-vsock">>)
    BY DEF NodeOf
  <2> HIDE DEF Good
  <2>7. \A p \in {Console} \cup D \cup V : Good(p)
    BY <2>1, <2>2, <2>3, <2>4, <2>5, <2>6, Zenon
  <2> QED
    BY <2>7 DEF Good
<1>6. \A p \in D : p \notin V
  <2>1. \A p \in D : p[2] \in {"null", "kvm", "net"}
    OBVIOUS
  <2>2. \A p \in V : p[2] \in {"vsock", "vhost-vsock"}
    OBVIOUS
  <2> HIDE DEF D, V
  <2> QED
    BY <2>1, <2>2
<1> HIDE DEF D, V
<1> QED
  BY <1>1, <1>2, <1>3, <1>4, <1>5, <1>6 DEF NodePaths

\* The socket is no node, and a node is on nothing but itself.
LEMMA NodesApart ==
    /\ vAccelMountPath \notin NodePaths /\ vAccelMountPath \in Path
    /\ \A q \in NodePaths, p \in NodePaths \cup {vAccelMountPath} :
         IsPrefix(MonRootfs \o q, MonRootfs \o p) => q = p
<1>1. /\ vAccelMountPath \in Path /\ Len(vAccelMountPath) = 2 /\ vAccelMountPath[1] = "tmp"
  BY NamesAssumption DEF vAccelMountPath, Path, OwnNames
<1>2. vAccelMountPath \notin NodePaths
  BY <1>1, NodePathsIs
<1>3. ASSUME NEW q \in NodePaths, NEW p \in NodePaths \cup {vAccelMountPath},
             IsPrefix(MonRootfs \o q, MonRootfs \o p)
      PROVE  q = p
  <2>1. q \in Path /\ Len(q) >= 2 /\ q[1] = "dev" /\ q = NodeOf(q[2]) /\ Len(q) \in Nat
    BY NodePathsIs DEF Path
  <2>2. p \in Path /\ Len(p) >= 2 /\ Len(p) \in Nat
    <3>1. vAccelMountPath \in Path /\ Len(vAccelMountPath) >= 2
      BY <1>1
    <3>2. p \in Path /\ Len(p) >= 2
      BY <3>1, NodePathsIs
    <3> QED
      BY <3>2 DEF Path
  <2>3. 1 \in 1..Len(q) /\ 2 \in 1..Len(q) /\ 1 <= Len(p) /\ 2 <= Len(p)
    BY <2>1, <2>2
  <2>4. q[1] = p[1] /\ q[2] = p[2]
    BY <1>3, <2>1, <2>2, <2>3, NotOver
  <2>5. p \in NodePaths
    BY <1>1, <2>1, <2>4
  <2>6. p = NodeOf(p[2])
    BY <2>5, NodePathsIs
  <2> QED
    BY <2>1, <2>4, <2>6, Zenon
<1> QED
  BY <1>1, <1>2, <1>3

\* The place of a path below the monitor's rootfs is its own.
LEMMA OwnPlace ==
    ASSUME NEW p \in Path, NEW q \in Path, MonRootfs \o p = MonRootfs \o q PROVE p = q
<1>1. /\ Len(MonRootfs \o p) = Len(p) + 2 /\ Len(MonRootfs \o q) = Len(q) + 2
      /\ \A i \in 1..Len(p) : (MonRootfs \o p)[i + 2] = p[i]
      /\ \A i \in 1..Len(q) : (MonRootfs \o q)[i + 2] = q[i]
  BY BelowMon
<1>2. Len(p) \in Nat /\ Len(q) \in Nat /\ p \in Seq(Names) /\ q \in Seq(Names)
  BY DEF Path
<1>3. Len(p) + 2 = Len(q) + 2
  BY <1>1, Zenon
<1>4. Len(p) = Len(q)
  BY <1>2, <1>3
<1>5. \A i \in 1..Len(p) : p[i] = q[i]
  BY <1>1, <1>4, Zenon
<1> QED
  BY <1>2, <1>4, <1>5

\* What came along with a volume is not over a node.
LEMMA AlongOff ==
    ASSUME NEW v \in BindLists, NEW i \in DOMAIN v, NEW q \in Path,
           IsPrefix(MonRootfs \o RootfsMounts(v)[i + 2].dest, q), NEW p \in NodePaths
    PROVE  ~IsPrefix(q, MonRootfs \o p)
<1> DEFINE c == containerRootfsMountPath
           d == RootfsMounts(v)[i + 2].dest
<1>1. i \in 1..Len(v)
  BY DEF BindLists
<1>2. v[i].dest \in Path /\ d = c \o v[i].dest
  BY <1>1, RootfsMountsIs, Zenon
<1>3. c \in Path /\ Len(c) = 1 /\ c[1] = "cntrRootfs"
  BY NamesAssumption DEF containerRootfsMountPath, Path, OwnNames
<1> HIDE DEF c, d
<1>4. /\ d \in Path /\ Len(d) = Len(c) + Len(v[i].dest) /\ Len(v[i].dest) \in Nat
      /\ \A j \in 1..Len(c) : d[j] = c[j]
  BY <1>2, <1>3, ConcatIs, Zenon
<1>5. d \in Path /\ 1 \in 1..Len(d) /\ d[1] = "cntrRootfs"
  BY <1>3, <1>4
<1>6. p \in Path /\ 1 <= Len(p) /\ p[1] = "dev"
  BY NodePathsIs DEF Path
<1>7. ~IsPrefix(MonRootfs \o d, MonRootfs \o p)
  BY <1>5, <1>6, NotOver
<1>8. MonRootfs \o d \in Path /\ MonRootfs \o p \in Path /\ IsPrefix(MonRootfs \o d, q)
  BY <1>5, <1>6, BelowMon DEF d
<1> QED
  BY <1>7, <1>8, PrefixTrans

LEMMA DeviceMountIs ==
    ASSUME NEW p \in NodePaths
    PROVE  /\ DeviceMount(p) \in MountSpecs /\ IsBindMount(DeviceMount(p))
           /\ DeviceMount(p).src = p /\ DeviceMount(p).dest = p
           /\ ~IsRecursiveBind(DeviceMount(p))
<1> DEFINE e == <<>>
           f == FALSE
           m == BindMount(p, p, f, f, e)
<1>1. p \in Path
  BY NodePathsIs
<1>2. e \in Seq(Names) /\ (\A j \in 1..Len(e) : e[j] # "rbind") /\ f \in BOOLEAN
  OBVIOUS
<1>3. DeviceMount(p) = m
  BY DEF DeviceMount
<1> HIDE DEF e, f
<1>4. /\ m \in MountSpecs /\ m.src = p /\ m.dest = p /\ IsBindMount(m)
      /\ ~IsRecursiveBind(m)
  BY <1>1, <1>2, BindMountIs
<1> HIDE DEF m
<1> QED
  BY <1>3, <1>4, Zenon

\* The arguments of setupDevices.
IsPathList(q, S) ==
    \E N \in Nat : /\ DOMAIN q = 1..N /\ \A i \in 1..N : q[i] \in S
                   /\ \A i, j \in 1..N : q[i] = q[j] => i = j

LEMMA DeviceLists ==
    /\ IsPathList(DevicePaths(TRUE), ToSet(DevicePaths(TRUE)))
    /\ IsPathList(DevicePaths(FALSE), ToSet(DevicePaths(TRUE)))
    /\ IsPathList(VSockDevices, ToSet(VSockDevices))
    /\ IsPathList(<<>>, ToSet(VSockDevices))
<1> DEFINE a == <<"dev", "null">>
           b == <<"dev", "kvm">>
           d == <<"dev", "net", "tun">>
           s == <<a, b>>
           u == <<d>>
           e == <<>>
<1>1. DevicePaths(TRUE) = s \o u /\ DevicePaths(FALSE) = s \o e
  BY DEF DevicePaths
<1>2. a \in Path /\ b \in Path /\ d \in Path
  BY NamesAssumption DEF Path, OwnNames
<1>13. a # b /\ a # d /\ b # d
  <2>1. a[2] = "null" /\ b[2] = "kvm" /\ d[2] = "net"
    OBVIOUS
  <2> HIDE DEF a, b, d
  <2> QED
    BY <2>1
<1> HIDE DEF a, b, d
<1>14. s[1] = a /\ s[2] = b /\ u[1] = d
  OBVIOUS
<1>3. s \in Seq(Path) /\ u \in Seq(Path) /\ e \in Seq(Path) /\ Len(s) = 2 /\ Len(u) = 1 /\ Len(e) = 0
  BY <1>2
<1> HIDE DEF s, u, e
<1>4. DOMAIN (s \o u) = 1..3 /\ (s \o u)[1] = s[1] /\ (s \o u)[2] = s[2] /\ (s \o u)[3] = u[1]
  BY <1>3, TwoAndOne
<1>5. /\ s \o e \in Seq(Path) /\ Len(s \o e) = Len(s) + Len(e)
      /\ \A i \in 1..Len(s) : (s \o e)[i] = s[i]
  BY <1>3, ConcatPaths, Zenon
<1> DEFINE w == s \o u
           v == s \o e
<1>6. DOMAIN w = 1..3 /\ w[1] = s[1] /\ w[2] = s[2] /\ w[3] = u[1]
  BY <1>4
<1>7. v \in Seq(Path) /\ Len(v) = 2 + 0 /\ \A i \in 1..2 : v[i] = s[i]
  BY <1>3, <1>5, Zenon
<1>8. DevicePaths(TRUE) = w /\ DevicePaths(FALSE) = v
  BY <1>1
<1> HIDE DEF w, v
<1>9. IsPathList(w, ToSet(w))
  <2>1. \A i \in 1..3 : w[i] \in ToSet(w)
    BY <1>6 DEF ToSet
  <2>2. ASSUME NEW i \in 1..3, NEW j \in 1..3, w[i] = w[j] PROVE i = j
    <3>1. (i = 1 \/ i = 2 \/ i = 3) /\ (j = 1 \/ j = 2 \/ j = 3)
      OBVIOUS
    <3>2. w[1] = a /\ w[2] = b /\ w[3] = d
      BY <1>6, <1>14
    <3> QED
      BY <1>13, <2>2, <3>1, <3>2
  <2>3. 3 \in Nat
    OBVIOUS
  <2> QED
    BY <1>6, <2>1, <2>2, <2>3, Zenon DEF IsPathList
<1>10. IsPathList(v, ToSet(w))
  <2>1. DOMAIN v = 1..2
    BY <1>7
  <2>2. s[1] \in ToSet(w) /\ s[2] \in ToSet(w)
    BY <1>6 DEF ToSet
  <2>3. \A i \in 1..2 : i = 1 \/ i = 2
    OBVIOUS
  <2>4. \A i \in 1..2 : v[i] \in ToSet(w)
    BY <1>7, <2>2, <2>3, Zenon
  <2>5. ASSUME NEW i \in 1..2, NEW j \in 1..2, v[i] = v[j] PROVE i = j
    <3>1. v[1] = a /\ v[2] = b
      BY <1>7, <1>14
    <3> QED
      BY <1>13, <2>3, <2>5, <3>1
  <2>6. 2 \in Nat
    OBVIOUS
  <2> QED
    BY <2>1, <2>4, <2>5, <2>6, Zenon DEF IsPathList
<1>11. IsPathList(VSockDevices, ToSet(VSockDevices))
  <2> DEFINE q == VSockDevices
  <2>1. DOMAIN q = 1..2
    BY DEF VSockDevices
  <2>4. q[1] # q[2]
    <3>1. q[1][2] = "vsock" /\ q[2][2] = "vhost-vsock"
      BY DEF VSockDevices
    <3> HIDE DEF q
    <3> QED
      BY <3>1
  <2> HIDE DEF q
  <2>2. \A i \in 1..2 : q[i] \in ToSet(q)
    BY <2>1 DEF ToSet
  <2>5. ASSUME NEW i \in 1..2, NEW j \in 1..2, q[i] = q[j] PROVE i = j
    <3>1. (i = 1 \/ i = 2) /\ (j = 1 \/ j = 2)
      OBVIOUS
    <3> QED
      BY <2>4, <2>5, <3>1
  <2>6. 2 \in Nat
    OBVIOUS
  <2>3. IsPathList(q, ToSet(q))
    BY <2>1, <2>2, <2>5, <2>6, Zenon DEF IsPathList
  <2> QED
    BY <2>3 DEF q
<1>12. IsPathList(<<>>, ToSet(VSockDevices))
  BY DEF IsPathList
<1> QED
  BY <1>8, <1>9, <1>10, <1>11, <1>12

\* The bind mounts that it asks for in a user namespace.
DeviceList(paths) == [i \in DOMAIN paths |-> BindMount(paths[i], paths[i], FALSE, FALSE, <<>>)]

LEMMA DeviceMounts ==
    ASSUME NEW S, S \subseteq NodePaths, NEW paths, IsPathList(paths, S)
    PROVE  /\ DeviceList(paths) \in Seq(MountSpecs)
           /\ \A j \in DOMAIN DeviceList(paths) : \E p \in S : DeviceList(paths)[j] = DeviceMount(p)
           /\ \A i, j \in DOMAIN DeviceList(paths) :
                DeviceList(paths)[i].dest = DeviceList(paths)[j].dest => i = j
<1> DEFINE q == [i \in DOMAIN paths |-> DeviceMount(paths[i])]
<1>1. q = DeviceList(paths)
  BY DEF DeviceMount, DeviceList
<1>2. PICK N \in Nat : /\ DOMAIN paths = 1..N /\ \A i \in 1..N : paths[i] \in S
                      /\ \A i, j \in 1..N : paths[i] = paths[j] => i = j
  BY DEF IsPathList
<1>3. \A i \in 1..N : DeviceMount(paths[i]) \in MountSpecs
  BY <1>2, DeviceMountIs
<1>4. q \in Seq(MountSpecs)
  BY <1>2, <1>3
<1>5. \A j \in DOMAIN q : \E p \in S : q[j] = DeviceMount(p)
  BY <1>2
<1>6. ASSUME NEW i \in DOMAIN q, NEW j \in DOMAIN q, q[i].dest = q[j].dest PROVE i = j
  <2>1. i \in 1..N /\ j \in 1..N /\ q[i] = DeviceMount(paths[i]) /\ q[j] = DeviceMount(paths[j])
    BY <1>2
  <2>2. paths[i] \in NodePaths /\ paths[j] \in NodePaths
    BY <1>2, <2>1
  <2>3. q[i].dest = paths[i] /\ q[j].dest = paths[j]
    <3> HIDE DEF q
    <3> QED
      BY <2>1, <2>2, DeviceMountIs, Zenon
  <2>4. paths[i] = paths[j]
    <3> HIDE DEF q
    <3> QED
      BY <1>6, <2>3, Zenon
  <2> QED
    BY <1>2, <2>1, <2>4
<1> HIDE DEF q
<1> QED
  BY <1>1, <1>4, <1>5, <1>6, Zenon

LEMMA HeadIs ==
    ASSUME NEW q \in Seq(MountSpecs), q # <<>>
    PROVE  /\ Head(q) = q[1] /\ Head(q) \in MountSpecs /\ Len(q) \in Nat /\ Len(q) >= 1
           /\ 1 \in DOMAIN q /\ Tail(q) \in Seq(MountSpecs) /\ Len(Tail(q)) = Len(q) - 1
           /\ \A j \in 1..(Len(q) - 1) : Tail(q)[j] = q[j + 1]
<1>1. Len(q) \in Nat /\ Len(q) >= 1 /\ DOMAIN q = 1..Len(q)
  OBVIOUS
<1> QED
  BY <1>1

LEMMA SpecIs ==
    ASSUME NEW m \in MountSpecs
    PROVE  /\ m.src \in Path /\ m.dest \in Path /\ m.opts \in Seq(Names) /\ m.type \in Names
           /\ Target(m) \in Path /\ IsBelow(Target(m))
           /\ m.dest # <<>> => ~IsPrefix(Target(m), MonRootfs)
<1>1. m.src \in Path /\ m.dest \in Path /\ m.opts \in Seq(Names) /\ m.type \in Names
  BY DEF MountSpecs
<1> QED
  BY <1>1, BelowMon, NotOverMon DEF Target

\* The mount that is next.
LEMMA HeadFacts ==
    ASSUME MountsInv, pc \in Phases, todo # <<>>
    PROVE  /\ Head(todo) \in MountSpecs /\ Head(todo).dest # <<>>
           /\ pc = "mounts" => /\ Done \in Nat /\ Done + 1 \in 1..Len(List)
                               /\ Head(todo) = List[Done + 1]
           /\ pc # "mounts" => /\ IsBindMount(Head(todo)) /\ ~IsRecursiveBind(Head(todo))
                               /\ \/ Head(todo) = SocketMount
                                  \/ \E p \in NodePaths : Head(todo) = DeviceMount(p)
                               /\ Head(todo).dest \in NodePaths \cup {vAccelMountPath}
<1>1. /\ todo \in Seq(MountSpecs) /\ Len(List) \in Nat /\ cfg.volumes \in BindLists
      /\ Len(List) = Len(cfg.volumes) + 6
  BY PhaseFacts
<1>2. /\ Head(todo) = todo[1] /\ Head(todo) \in MountSpecs /\ Len(todo) \in Nat
      /\ Len(todo) >= 1 /\ 1 \in DOMAIN todo
  BY <1>1, HeadIs
<1>3. CASE pc = "mounts"
  <2>1. Len(todo) <= Len(List) /\ \A j \in 1..Len(todo) : todo[j] = List[Done + j]
    BY <1>3 DEF MountsInv, TodoInv
  <2>2. Done \in Nat /\ Done + 1 \in 1..Len(List)
    BY <1>1, <1>2, <2>1 DEF Done
  <2>3. todo[1] = List[Done + 1]
    BY <1>2, <2>1
  <2>4. List[Done + 1].dest # <<>>
    BY <1>1, <2>2, ListIs, Zenon DEF List
  <2> QED
    BY <1>2, <1>3, <2>2, <2>3, <2>4
<1>4. CASE pc = "vsock"
  <2>1. Head(todo) = SocketMount
    BY <1>2, <1>4 DEF MountsInv, TodoInv
  <2> QED
    BY <1>2, <1>4, <2>1, SocketIs
<1>5. CASE pc \in {"devices", "vdevices"}
  <2>2. \E p \in NodePaths : todo[1] = DeviceMount(p)
    <3>1. \/ \E p \in ToSet(DevicePaths(TRUE)) : todo[1] = DeviceMount(p)
          \/ \E p \in ToSet(VSockDevices) : todo[1] = DeviceMount(p)
      BY <1>2, <1>5 DEF MountsInv, TodoInv
    <3> QED
      BY <3>1, NodePathsIs
  <2>3. PICK p \in NodePaths : Head(todo) = DeviceMount(p)
    BY <1>2, <2>2
  <2>4. IsBindMount(Head(todo)) /\ ~IsRecursiveBind(Head(todo)) /\ Head(todo).dest = p /\ p # <<>>
    BY <2>3, DeviceMountIs, NodePathsIs
  <2> QED
    BY <1>2, <1>5, <2>3, <2>4
<1> QED
  BY <1>3, <1>4, <1>5 DEF Phases

\* Where the mounts of the list are.
LEMMA PositionFacts ==
    ASSUME MountsInv, pc \in Phases, todo # <<>>
    PROVE  /\ step # "mount" => NewRoot < Len(table)
           /\ pc = "mounts" /\ step = "mount" => Len(table) = NewRoot + Done
           /\ pc = "mounts" /\ step # "mount" => Len(table) = NewRoot + Done + 1
           /\ \A i \in DOMAIN cfg.volumes :
                /\ MadeFor(i) \in Nat /\ MadeFor(i) > NewRoot
                /\ pc # "mounts" /\ step = "mount" => MadeFor(i) <= Len(table)
                /\ pc # "mounts" /\ step # "mount" => MadeFor(i) < Len(table)
                /\ pc = "mounts" /\ MadeFor(i) = NewRoot + Done + 1 => Head(todo) = Volume(i)
<1>1. /\ Len(table) \in Nat /\ NewRoot \in 1..Len(table) /\ cfg.volumes \in BindLists
      /\ Len(List) = Len(cfg.volumes) + 6 /\ Len(cfg.volumes) \in Nat
      /\ DOMAIN cfg.volumes = 1..Len(cfg.volumes)
      /\ \A i \in DOMAIN cfg.volumes : MadeFor(i) = NewRoot + 6 + i
  BY PhaseFacts
<1>2. IF pc = "mounts" THEN Len(table) = NewRoot + Done + Begun
      ELSE Len(table) >= NewRoot + Len(List) + Begun
  BY DEF MountsInv, RootInv, Top
<1>3. Begun \in 0..1 /\ (step = "mount" <=> Begun = 0)
  BY DEF Begun
<1>4. pc = "mounts" => Done \in Nat /\ Head(todo) = List[Done + 1]
  BY HeadFacts
<1>5. step # "mount" => NewRoot < Len(table)
  BY <1>1, <1>2, <1>3, <1>4
<1>6. /\ pc = "mounts" /\ step = "mount" => Len(table) = NewRoot + Done
      /\ pc = "mounts" /\ step # "mount" => Len(table) = NewRoot + Done + 1
  BY <1>1, <1>2, <1>3, <1>4
<1>7. ASSUME NEW i \in DOMAIN cfg.volumes
      PROVE  /\ MadeFor(i) \in Nat /\ MadeFor(i) > NewRoot
             /\ pc # "mounts" /\ step = "mount" => MadeFor(i) <= Len(table)
             /\ pc # "mounts" /\ step # "mount" => MadeFor(i) < Len(table)
             /\ pc = "mounts" /\ MadeFor(i) = NewRoot + Done + 1 => Head(todo) = Volume(i)
  <2>1. i \in 1..Len(cfg.volumes) /\ MadeFor(i) = NewRoot + 6 + i
    BY <1>1
  <2>2. ASSUME pc = "mounts", MadeFor(i) = NewRoot + Done + 1 PROVE Head(todo) = Volume(i)
    <3>1. Done + 1 = i + 6
      BY <1>1, <1>4, <2>1, <2>2
    <3>2. Volume(i) = List[i + 6]
      BY <1>1, VolumeFacts
    <3> QED
      BY <1>4, <2>2, <3>1, <3>2
  <2>3. ASSUME pc # "mounts"
        PROVE  /\ step = "mount" => MadeFor(i) <= Len(table)
               /\ step # "mount" => MadeFor(i) < Len(table)
    BY <1>1, <1>2, <1>3, <2>1, <2>3
  <2>4. MadeFor(i) \in Nat /\ MadeFor(i) > NewRoot
    BY <1>1, <2>1
  <2> QED
    BY <2>2, <2>3, <2>4
<1> QED
  BY <1>5, <1>6, <1>7

-----------------------------------------------------------------------------
(* The steps before the mounts.                                            *)

LEMMA RootPropagationIs ==
    ASSUME ConfInv
    PROVE  /\ RootPropagation \in DOMAIN Propagation
           /\ Propagation[RootPropagation] \in {"private", "slave", "shared", "unbindable"}
           /\ RootPropagation \in Quiet => /\ RootPropagation \in Recursive
                                           /\ Propagation[RootPropagation] # "shared"
<1>1. RootPropagation \in DOMAIN Propagation
  BY DEF ConfInv, RootPropagation, Propagation
<1>2. Propagation[RootPropagation] \in {"private", "slave", "shared", "unbindable"}
  BY <1>1, PropagationKinds
<1>3. Quiet \subseteq Recursive /\ \A q \in Quiet : Propagation[q] # "shared"
  BY DEF Quiet, Recursive, Propagation
<1> QED
  BY <1>1, <1>2, <1>3

LEMMA ConfKept == ASSUME ConfInv, cfg' = cfg PROVE ConfInv'
  BY DEF ConfInv

LEMMA EarlyFacts ==
    ASSUME MountsInv, pc \in Early
    PROVE  /\ table \in Tables /\ Len(table) \in Nat /\ DOMAIN table = 1..Len(table)
           /\ todo = <<>> /\ nodes = {} /\ leaked = {} /\ lost = {} /\ step = "mount"
           /\ along = {} /\ \A k \in DOMAIN table : ~IsBelow(table[k].at)
           /\ NewRoot \in 1..Len(table) /\ table[NewRoot] \in Mounted
<1>1. /\ table \in Tables /\ todo = <<>> /\ nodes = {} /\ leaked = {} /\ lost = {}
      /\ along = {} /\ step = "mount" /\ \A k \in DOMAIN table : ~IsBelow(table[k].at)
  BY DEF MountsInv, TableInv, TodoInv, RootInv, AlongInv
<1>2. Len(table) \in Nat /\ DOMAIN table = 1..Len(table)
  BY <1>1 DEF Tables
<1>3. NewRoot \in 1..Len(table) /\ table[NewRoot] \in Mounted
  BY <1>1, MonIs, CoveringTable DEF NewRoot
<1> QED
  BY <1>1, <1>2, <1>3

\* A step before the mounts that changes the mounts where they are.
LEMMA EarlyKept ==
    ASSUME MountsInv, pc \in Early, pc' \in {"private", "rbind"}, IsChange(table, table'),
           cfg' = cfg, todo' = todo, step' = step, nodes' = nodes, leaked' = leaked, lost' = lost,
           along' = along,
           pc' = "rbind" => table'[NewRoot].group = "none",
           RootPropagation \in Quiet => \A k \in DOMAIN table : ~IsHosts(table'[k].group)
    PROVE  MountsInv'
<1>1. /\ table \in Tables /\ Len(table) \in Nat /\ DOMAIN table = 1..Len(table)
      /\ todo = <<>> /\ nodes = {} /\ leaked = {} /\ lost = {} /\ step = "mount" /\ along = {}
      /\ \A k \in DOMAIN table : ~IsBelow(table[k].at)
  BY EarlyFacts
<1>2. /\ table' \in Tables /\ Len(table') = Len(table) /\ DOMAIN table' = DOMAIN table
      /\ \A p \in Path : Covering(table', p) = Covering(table, p)
  BY <1>1, ChangedTable
<1>3. \A k \in DOMAIN table : table'[k] \in Mounted /\ table'[k].at = table[k].at
  BY Zenon DEF IsChange
<1>4. pc' \in Early /\ pc' \notin Phases /\ pc' \notin {"mounts", "devices", "vsock", "vdevices", "oldslave", "unmount"}
  BY DEF Early, Phases
<1>5. NewRoot' = NewRoot
  BY <1>2, MonIs DEF NewRoot
<1>6. ConfInv'
  BY ConfKept DEF MountsInv
<1>7. TypeOK'
  BY <1>1, <1>2, <1>3 DEF TypeOK
<1>8. TableInv'
  BY <1>2, <1>4 DEF TableInv
<1>9. TodoInv'
  BY <1>1, <1>4 DEF TodoInv
<1>10. NodesInv'
  BY <1>1 DEF NodesInv, NodesVisible
<1>11. RootInv'
  BY <1>1, <1>2, <1>3, <1>4, <1>5 DEF RootInv
<1>12. FlagsInv' /\ AlongInv' /\ ClearInv'
  BY <1>1, <1>4 DEF FlagsInv, AlongInv, ClearInv
<1>13. GroupInv'
  <2>1. RootPropagation' = RootPropagation
    BY DEF RootPropagation
  <2>2. RootPropagation \in Quiet => Sealed'
    BY <1>1, <1>2 DEF Sealed
  <2> QED
    BY <1>4, <2>1, <2>2 DEF GroupInv
<1>14. HostUntouched'
  BY <1>1 DEF HostUntouched
<1> QED
  BY <1>6, <1>7, <1>8, <1>9, <1>10, <1>11, <1>12, <1>13, <1>14 DEF MountsInv

LEMMA PrepareRootKeeps == ASSUME MountsInv, PrepareRoot PROVE MountsInv'
<1> DEFINE kind == Propagation[RootPropagation]
           All == RootPropagation \in Recursive
<1>1. pc = "propagate" /\ pc \in Early /\ pc' = "private"
  BY DEF PrepareRoot, Goto, Early
<1>2. /\ cfg' = cfg /\ todo' = todo /\ step' = step /\ nodes' = nodes
      /\ leaked' = leaked /\ lost' = lost /\ along' = along
  BY DEF PrepareRoot, Goto
<1>3. table' = [k \in DOMAIN table |-> IF All \/ k = Covering(table, <<>>)
                                       THEN Make(table[k], kind) ELSE table[k]]
  BY DEF PrepareRoot
<1>4. /\ kind \in {"private", "slave", "shared", "unbindable"}
      /\ RootPropagation \in Quiet => All /\ kind # "shared"
  BY RootPropagationIs DEF MountsInv
<1>5. table \in Tables /\ \A k \in DOMAIN table : table[k] \in Mounted
  BY <1>1, EarlyFacts DEF Tables
<1> HIDE DEF kind, All
<1>6. /\ DOMAIN table' = DOMAIN table
      /\ \A k \in DOMAIN table : \/ table'[k] = Make(table[k], kind)
                                 \/ ~All /\ table'[k] = table[k]
  BY <1>3
<1>7. ASSUME NEW k \in DOMAIN table
      PROVE  /\ table'[k] \in Mounted /\ table'[k].at = table[k].at
             /\ IsHosts(table'[k].group) =>
                  IsHosts(table[k].group) /\ (All => kind = "shared")
  <2>1. CASE table'[k] = Make(table[k], kind)
    BY <1>4, <1>5, <2>1, MakeIs
  <2>2. CASE ~All /\ table'[k] = table[k]
    BY <1>5, <2>2
  <2> QED
    BY <1>6, <2>1, <2>2
<1>8. IsChange(table, table')
  <2>1. table' = [k \in DOMAIN table |-> table'[k]]
    BY <1>3
  <2> QED
    BY <1>7, <2>1 DEF IsChange
<1>9. ASSUME RootPropagation \in Quiet, NEW k \in DOMAIN table
      PROVE  ~IsHosts(table'[k].group)
  BY <1>4, <1>7, <1>9
<1> QED
  BY <1>1, <1>2, <1>8, <1>9, EarlyKept

LEMMA RootfsParentKeeps == ASSUME MountsInv, RootfsParentMountPrivate PROVE MountsInv'
<1> DEFINE m == Make(table[NewRoot], "private")
<1>1. pc = "private" /\ pc \in Early /\ pc' = "rbind"
  BY DEF RootfsParentMountPrivate, Goto, Early
<1>2. /\ cfg' = cfg /\ todo' = todo /\ step' = step /\ nodes' = nodes
      /\ leaked' = leaked /\ lost' = lost /\ along' = along
  BY DEF RootfsParentMountPrivate, Goto
<1>3. table \in Tables /\ NewRoot \in DOMAIN table /\ \A k \in DOMAIN table : table[k] \in Mounted
  BY <1>1, EarlyFacts DEF Tables
<1>4. table' = [table EXCEPT ![NewRoot] = m]
  BY DEF RootfsParentMountPrivate, NewRoot
<1>5. m \in Mounted /\ m.at = table[NewRoot].at /\ m.group = "none"
  BY <1>3, MakeIs
<1> HIDE DEF m
<1>6. /\ table' = [k \in DOMAIN table |-> table'[k]]
      /\ table'[NewRoot] = m
      /\ \A k \in DOMAIN table : k = NewRoot \/ table'[k] = table[k]
  <2>1. table = [k \in DOMAIN table |-> table[k]]
    BY <1>3 DEF Tables
  <2> QED
    BY <1>3, <1>4, <2>1
<1>7. IsChange(table, table')
  BY <1>3, <1>5, <1>6 DEF IsChange
<1>8. ASSUME RootPropagation \in Quiet, NEW k \in DOMAIN table
      PROVE  ~IsHosts(table'[k].group)
  <2>1. ~IsHosts(table[k].group)
    BY <1>1, <1>8 DEF MountsInv, GroupInv, Sealed
  <2> QED
    BY <1>5, <1>6, <2>1 DEF IsHosts
<1> QED
  BY <1>1, <1>2, <1>5, <1>6, <1>7, <1>8, EarlyKept

\* Before the mounts, nothing comes along with the monitor's rootfs.
LEMMA NothingBelow ==
    ASSUME MountsInv, pc \in Early
    PROVE  Submounts(MonRootfs) = {} /\ On(MonRootfs) = table[NewRoot]
<1>1. /\ table \in Tables /\ along = {} /\ \A k \in DOMAIN table : ~IsBelow(table[k].at)
  BY EarlyFacts
<1>2. \A r \in MountPoints : ~IsStrictPrefix(MonRootfs, r)
  BY <1>1 DEF MountPoints, IsBelow, IsStrictPrefix
<1>3. Submounts(MonRootfs) = {}
  BY <1>2, Zenon DEF Submounts
<1>4. along \subseteq Along
  BY <1>1
<1>5. On(MonRootfs) = table[Covering(table, MonRootfs)]
  BY <1>1, <1>4, MonIs, OnIs
<1> QED
  BY <1>3, <1>5 DEF NewRoot

\* The bind mount of the monitor's rootfs is the new root.
LEMMA PrepareRootBindKeeps == ASSUME MountsInv, PrepareRootBind PROVE MountsInv'
<1> DEFINE n == Len(table)
           m == [table[NewRoot] EXCEPT !.at = MonRootfs, !.what = MonRootfs]
           none == {}
<1>1. pc = "rbind" /\ pc \in Early /\ pc' = "mounts"
  BY DEF PrepareRootBind, Goto, Early
<1>25. Submounts(MonRootfs) = {} /\ On(MonRootfs) = table[NewRoot]
  BY <1>1, NothingBelow
<1>2. /\ cfg' = cfg /\ step' = step /\ nodes' = nodes /\ lost' = lost
      /\ Attach(m, none) /\ todo' = ListOf(cfg.volumes)
  <2>1. /\ cfg' = cfg /\ step' = step /\ nodes' = nodes /\ lost' = lost
        /\ todo' = ListOf(cfg.volumes) /\ Bind(MonRootfs, MonRootfs, TRUE)
    BY DEF PrepareRootBind, Goto, ListOf
  <2>2. {Moved(x, MonRootfs, MonRootfs) : x \in Submounts(MonRootfs)} = {}
    BY <1>25
  <2>3. Attach(m, none)
    BY <1>25, <2>1, <2>2, Zenon DEF Bind
  <2> QED
    BY <2>1, <2>3
<1>3. /\ table \in Tables /\ n \in Nat /\ DOMAIN table = 1..n
      /\ nodes = {} /\ leaked = {} /\ lost = {} /\ step = "mount" /\ along = {}
      /\ \A k \in DOMAIN table : ~IsBelow(table[k].at)
      /\ NewRoot \in 1..n /\ table[NewRoot] \in Mounted
  BY <1>1, EarlyFacts
<1>4. table[NewRoot].group = "none" /\ ConfInv /\ cfg.volumes \in BindLists
  BY <1>1 DEF MountsInv, RootInv, ConfInv
<1>5. m \in Mounted /\ m.at = MonRootfs /\ m.group = "none"
  BY <1>3, <1>4, MonIs DEF Mounted
<1>6. On(m.at).group = "none"
  BY <1>4, <1>5, <1>25
<1>26. none \in SUBSET Mounted /\ along \subseteq Along /\ none = {}
  BY <1>3
<1> HIDE DEF m, none
<1>7. PICK x \in Mounted :
        /\ table' = Append(table, x) /\ x.at = MonRootfs /\ x.group = "none"
        /\ \/ leaked' = leaked
           \/ /\ leaked' = leaked \cup {m.at}
              /\ ~cfg.mntns \/ IsHosts(On(m.at).group)
  BY <1>2, <1>3, <1>5, <1>6, <1>26, AttachIs
<1>27. along' = {}
  BY <1>2, <1>3, <1>5, <1>26, AttachIs
<1>8. /\ table' \in Tables /\ Len(table') = n + 1 /\ table'[n + 1] = x
      /\ \A k \in 1..n : table'[k] = table[k]
  BY <1>3, <1>7, AppendTable
<1>9. NewRoot' = n + 1
  <2>1. IsPrefix(x.at, MonRootfs)
    BY <1>7, MonIs, PrefixIs
  <2>2. Covering(Append(table, x), MonRootfs) = n + 1
    BY <1>3, <2>1, MonIs, CoveringAppend
  <2> QED
    BY <1>7, <2>2 DEF NewRoot
<1>10. DOMAIN table' = 1..(n + 1)
  BY <1>8 DEF Tables
<1>11. cfg.mntns => leaked' = {}
  BY <1>3, <1>6, <1>7 DEF IsHosts
<1>12. /\ List' = ListOf(cfg.volumes) /\ todo' = List' /\ todo' \in Seq(MountSpecs)
       /\ Len(List') \in Nat /\ Len(List') = Len(cfg.volumes) + 6 /\ Len(cfg.volumes) \in Nat
  BY <1>2, <1>4, ListIs DEF List
<1> HIDE DEF n
<1>13. Done' = 0 /\ Begun' = 0 /\ Top' = n + 1 /\ todo' # <<>>
  <2>1. Done' = Len(List') - Len(todo')
    BY DEF Done
  <2>2. Begun' = 0
    BY <1>2, <1>3 DEF Begun
  <2>3. Len(todo') # 0
    BY <1>12
  <2>4. todo' # <<>>
    BY <2>3
  <2> QED
    BY <1>8, <1>12, <2>1, <2>2, <2>4 DEF Top
<1>14. Pivotable(table')
  <2>1. Before(table', n + 1) = table
    <3>1. {i \in DOMAIN table' : i < n + 1} = 1..n
      BY <1>3, <1>10
    <3>2. Before(table', n + 1) = [j \in 1..n |-> table'[j]]
      BY <3>1, Zenon DEF Before
    <3>3. table = [j \in 1..n |-> table[j]]
      BY <1>3 DEF Tables
    <3> QED
      BY <1>8, <3>2, <3>3
  <2>2. table'[NewRoot].group = "none"
    BY <1>3, <1>4, <1>8
  <2>3. Covering(table', MonRootfs) = n + 1
    BY <1>9 DEF NewRoot
  <2>4. table'[n + 1].at = MonRootfs /\ table'[n + 1].group = "none" /\ 1 < n + 1
    BY <1>3, <1>7, <1>8
  <2>5. ParentOf(table', n + 1) = table'[NewRoot]
    BY <2>1, <2>4 DEF ParentOf, NewRoot
  <2>6. \A k \in DOMAIN table' : k < n + 1 <=> ~IsBelow(table'[k].at)
    <3>1. IsBelow(table'[n + 1].at)
      BY <2>4, MonIs, PrefixIs DEF IsBelow
    <3>2. \A k \in 1..n : ~IsBelow(table'[k].at) /\ k < n + 1
      BY <1>3, <1>8
    <3>3. \A k \in 1..(n + 1) : k \in 1..n \/ k = n + 1
      BY <1>3
    <3>4. ~(n + 1 < n + 1)
      BY <1>3
    <3> QED
      BY <1>10, <3>1, <3>2, <3>3, <3>4
  <2>7. ParentOf(table', n + 1).group = "none"
    BY <2>2, <2>5
  <2> QED
    BY <2>3, <2>4, <2>6, <2>7, Zenon DEF Pivotable
<1>15. pc' \in Phases /\ pc' \notin Early /\ pc' \notin {"devices", "vsock", "vdevices", "oldslave", "unmount", "rbind"}
  BY <1>1 DEF Phases, Early
<1>16. ConfInv'
  BY <1>2, <1>4, ConfKept
<1>17. TypeOK'
  <2>1. \A k \in DOMAIN table' : table'[k] \in Mounted
    BY <1>8 DEF Tables
  <2> QED
    BY <1>2, <1>3, <1>15, <1>27, <2>1 DEF TypeOK
<1>18. TableInv'
  BY <1>8, <1>15 DEF TableInv
<1>19. TodoInv'
  <2>1. ASSUME NEW j \in 1..Len(todo') PROVE todo'[j] = List'[Done' + j]
    <3>1. Done' + j = j
      BY <1>12, <1>13
    <3> QED
      BY <1>12, <3>1
  <2>2. Len(todo') <= Len(List')
    BY <1>12
  <2> QED
    BY <1>2, <1>3, <1>12, <1>13, <1>15, <2>1, <2>2 DEF TodoInv
<1>20. NodesInv'
  BY <1>2, <1>3 DEF NodesInv, NodesVisible
<1>21. RootInv'
  BY <1>1, <1>3, <1>9, <1>13, <1>14, <1>15 DEF RootInv
<1>22. FlagsInv'
  <2>1. ASSUME NEW i \in DOMAIN cfg.volumes PROVE MadeFor(i)' \notin DOMAIN table'
    <3>1. MadeFor(i)' = NewRoot' + Len(MountsForMonitor) + 2 + i
      BY DEF MadeFor, NewRoot
    <3>2. Len(MountsForMonitor) = 4
      BY MonitorMountsIs
    <3>3. i \in Nat
      BY <1>4 DEF BindLists
    <3> QED
      BY <1>3, <1>9, <1>10, <3>1, <3>2, <3>3
  <2> QED
    BY <1>2, <1>3, <2>1 DEF FlagsInv
<1>23. GroupInv'
  <2>1. RootPropagation' = RootPropagation
    BY <1>2 DEF RootPropagation
  <2>2. ASSUME RootPropagation \in Quiet PROVE Sealed'
    <3>1. \A k \in 1..n : ~IsHosts(table'[k].group)
      BY <1>1, <1>3, <1>8, <2>2 DEF MountsInv, GroupInv, Sealed
    <3>2. ~IsHosts(table'[n + 1].group)
      BY <1>7, <1>8 DEF IsHosts
    <3>3. \A k \in 1..(n + 1) : k \in 1..n \/ k = n + 1
      BY <1>3
    <3>4. \A k \in DOMAIN table' : ~IsHosts(table'[k].group)
      BY <1>10, <3>1, <3>2, <3>3, Zenon
    <3> QED
      BY <1>27, <3>4 DEF Sealed
  <2>3. ASSUME NEW k \in DOMAIN table', k >= NewRoot' PROVE ~IsHosts(table'[k].group)
    <3>1. k = n + 1
      BY <1>3, <1>9, <1>10, <2>3
    <3> QED
      BY <1>7, <1>8, <3>1 DEF IsHosts
  <2> QED
    BY <1>2, <2>1, <2>2, <2>3 DEF GroupInv
<1>28. AlongInv' /\ ClearInv'
  BY <1>1, <1>15, <1>27 DEF AlongInv, ClearInv
<1>24. HostUntouched'
  BY <1>2, <1>3, <1>11 DEF HostUntouched
<1> QED
  BY <1>16, <1>17, <1>18, <1>19, <1>20, <1>21, <1>22, <1>23, <1>24, <1>28 DEF MountsInv

-----------------------------------------------------------------------------
(* applyMount.                                                             *)

LEMMA SplitFlags ==
    ASSUME NEW opts \in Seq(Names) PROVE SplitVFSFlags(opts) \in SUBSET VFSFlags
<1>1. PICK f \in [0..Len(opts) -> SUBSET VFSFlags] : SplitVFSFlags(opts) = f[Len(opts)]
  BY SplitLoop
<1>2. Len(opts) \in 0..Len(opts)
  OBVIOUS
<1> QED
  BY <1>1, <1>2

\* What a bind mount, or another, brings along.
Brings(dest) ==
    /\ along \subseteq along' /\ along' \subseteq Along
    /\ \A a \in along' : a \in along \/
         (/\ a.with = Len(table) + 1 /\ IsPrefix(dest, a.mount.at)
          /\ Sealed => ~IsHosts(a.mount.group))

\* The mount that a bind makes.
LEMMA BindIs ==
    ASSUME table \in Tables, along \subseteq Along, NEW src \in Path, NEW dest \in Path,
           NEW recursive \in BOOLEAN, Bind(src, dest, recursive)
    PROVE  /\ \E x \in Mounted :
                /\ table' = Append(table, x)
                /\ x.at = dest /\ x.what = src /\ x.flags = On(src).flags
                /\ x.group = On(src).group \/ x.group = On(dest).group
           /\ \/ leaked' = leaked
              \/ leaked' = leaked \cup {dest} /\ (~cfg.mntns \/ IsHosts(On(dest).group))
           /\ Brings(dest) /\ (~recursive => along' = along)
<1> DEFINE o == On(src)
           m == [o EXCEPT !.at = dest, !.what = src]
           S == IF recursive THEN {Moved(x, src, dest) : x \in Submounts(src)} ELSE {}
<1>1. Attach(m, S)
  BY DEF Bind
<1>2. o \in Mounted
  BY OnIs
<1> HIDE DEF o
<1>3. m \in Mounted /\ m.at = dest /\ m.what = src /\ m.flags = o.flags /\ m.group = o.group
  BY <1>2 DEF Mounted
<1> HIDE DEF m
<1>4. Submounts(src) \subseteq Mounted /\ (Sealed => \A x \in Submounts(src) : ~IsHosts(x.group))
  BY SubmountsAre
<1>5. \A y \in S : \E x \in Submounts(src) : y = Moved(x, src, dest)
  OBVIOUS
<1>6. ~recursive => S = {}
  OBVIOUS
<1> HIDE DEF S
<1>7. ASSUME NEW y \in S
      PROVE  y \in Mounted /\ IsPrefix(dest, y.at) /\ (Sealed => ~IsHosts(y.group))
  <2>1. PICK x \in Submounts(src) : y = Moved(x, src, dest)
    BY <1>5
  <2>2. x \in Mounted /\ (Sealed => ~IsHosts(x.group))
    BY <1>4
  <2>3. /\ Moved(x, src, dest) \in Mounted /\ Moved(x, src, dest).group = x.group
        /\ IsPrefix(dest, Moved(x, src, dest).at)
    BY <2>2, MovedIs
  <2> QED
    BY <2>1, <2>2, <2>3, Zenon
<1>8. S \in SUBSET Mounted
  BY <1>7
<1>9. /\ \E x \in Mounted :
           /\ table' = Append(table, x)
           /\ x.at = m.at /\ x.what = m.what /\ x.flags = m.flags
           /\ x.group = m.group \/ x.group = On(m.at).group
      /\ along \subseteq along' /\ along' \subseteq Along
      /\ S = {} => along' = along
      /\ \A a \in along' : a \in along \/
           (/\ a.with = Len(table) + 1
            /\ \E y \in S :
                 /\ a.mount.at = y.at
                 /\ a.mount.group = y.group \/ a.mount.group = On(m.at).group)
      /\ \/ leaked' = leaked
         \/ /\ leaked' = leaked \cup {m.at}
            /\ ~cfg.mntns \/ IsHosts(On(m.at).group)
  BY <1>1, <1>3, <1>8, AttachIs, Zenon
<1>10. Sealed => ~IsHosts(On(dest).group)
  BY OnSealed
<1>11. ASSUME NEW a \in along', a \notin along
       PROVE  /\ a.with = Len(table) + 1 /\ IsPrefix(dest, a.mount.at)
              /\ Sealed => ~IsHosts(a.mount.group)
  <2>1. PICK y \in S : /\ a.with = Len(table) + 1 /\ a.mount.at = y.at
                       /\ a.mount.group = y.group \/ a.mount.group = On(m.at).group
    BY <1>9, <1>11
  <2> QED
    BY <1>3, <1>7, <1>10, <2>1, Zenon
<1>12. Brings(dest)
  BY <1>9, <1>11, Zenon DEF Brings
<1> QED
  BY <1>3, <1>6, <1>9, <1>12, Zenon DEF o

\* The mount that applyMount makes.
LEMMA ApplyMountIs ==
    ASSUME MountsInv, ApplyMount
    PROVE  /\ \E x \in Mounted :
                /\ table' = Append(table, x) /\ x.at = Target(Head(todo))
                /\ IsBindMount(Head(todo)) =>
                     x.what = Head(todo).src /\ x.flags = On(Head(todo).src).flags
                /\ IsHosts(x.group) =>
                     \/ IsBindMount(Head(todo)) /\ IsHosts(On(Head(todo).src).group)
                     \/ IsHosts(On(Target(Head(todo))).group)
           /\ \/ leaked' = leaked
              \/ /\ leaked' = leaked \cup {Target(Head(todo))}
                 /\ ~cfg.mntns \/ IsHosts(On(Target(Head(todo))).group)
           /\ Brings(Target(Head(todo)))
           /\ ~IsRecursiveBind(Head(todo)) => along' = along
<1> DEFINE h == Head(todo)
           f == Remounted(Mount(<<>>, <<>>, "none", {"relatime"}), SplitVFSFlags(h.opts))
           b == Mount(Target(h), <<h.type>>, "none", f)
           none == {}
<1>1. /\ pc \in Phases /\ todo # <<>>
      /\ IF IsBindMount(h) THEN Bind(h.src, Target(h), IsRecursiveBind(h)) ELSE Attach(b, none)
  BY DEF ApplyMount
<1>2. table \in Tables /\ h \in MountSpecs /\ along \subseteq Along
  BY <1>1, PhaseFacts, HeadFacts
<1>3. h.src \in Path /\ Target(h) \in Path /\ h.opts \in Seq(Names) /\ h.type \in Names
  BY <1>2, SpecIs
<1>4. SUFFICES /\ \E x \in Mounted :
                     /\ table' = Append(table, x) /\ x.at = Target(h)
                     /\ IsBindMount(h) => x.what = h.src /\ x.flags = On(h.src).flags
                     /\ IsHosts(x.group) => \/ IsBindMount(h) /\ IsHosts(On(h.src).group)
                                            \/ IsHosts(On(Target(h)).group)
               /\ \/ leaked' = leaked
                  \/ /\ leaked' = leaked \cup {Target(h)}
                     /\ ~cfg.mntns \/ IsHosts(On(Target(h)).group)
               /\ Brings(Target(h)) /\ (~IsRecursiveBind(h) => along' = along)
  BY Zenon
<1> HIDE DEF h
<1>5. CASE IsBindMount(h)
  <2> DEFINE d == Target(h)
             r == IsRecursiveBind(h)
             q == h.src
  <2>1. Bind(q, d, r) /\ q \in Path /\ d \in Path
    BY <1>1, <1>3, <1>5
  <2>2. r \in BOOLEAN
    BY DEF IsRecursiveBind
  <2> HIDE DEF d, r, q
  <2>3. /\ \E x \in Mounted :
             /\ table' = Append(table, x)
             /\ x.at = d /\ x.what = q /\ x.flags = On(q).flags
             /\ x.group = On(q).group \/ x.group = On(d).group
        /\ \/ leaked' = leaked
           \/ leaked' = leaked \cup {d} /\ (~cfg.mntns \/ IsHosts(On(d).group))
        /\ Brings(d) /\ (~r => along' = along)
    BY <1>2, <2>1, <2>2, BindIs
  <2> QED
    BY <1>5, <2>3, Zenon DEF d, r, q
<1>6. CASE ~IsBindMount(h)
  <2>1. f \in MountFlags
    <3> DEFINE e == Mount(<<>>, <<>>, "none", {"relatime"})
    <3>1. e.flags = {"relatime"}
      BY DEF Mount
    <3>2. {"relatime"} \in MountFlags
      BY DEF MountFlags, AtimeFlags, VFSFlags
    <3>3. SplitVFSFlags(h.opts) \in SUBSET VFSFlags
      BY <1>3, SplitFlags
    <3> HIDE DEF e
    <3>4. Remounted(e, SplitVFSFlags(h.opts)) \in MountFlags
      BY <3>1, <3>2, <3>3, RemountedFlags
    <3> QED
      BY <3>4 DEF e
  <2> HIDE DEF f
  <2>2. <<h.type>> \in Path /\ "none" \in Names
    BY <1>3, NamesAssumption DEF Path, OwnNames
  <2>3. b \in Mounted /\ b.at = Target(h) /\ b.group = "none"
    BY <1>3, <2>1, <2>2 DEF Mounted, Mount
  <2>4. Attach(b, none) /\ none \in SUBSET Mounted /\ none = {}
    BY <1>1, <1>6
  <2> HIDE DEF b, none
  <2>5. /\ \E x \in Mounted :
             /\ table' = Append(table, x) /\ x.at = b.at
             /\ x.group = b.group \/ x.group = On(b.at).group
        /\ along' = along
        /\ \/ leaked' = leaked
           \/ leaked' = leaked \cup {b.at} /\ (~cfg.mntns \/ IsHosts(On(b.at).group))
    BY <1>2, <2>3, <2>4, AttachIs, Zenon
  <2>6. ~IsHosts("none")
    BY DEF IsHosts
  <2>7. Brings(Target(h))
    BY <1>2, <2>5 DEF Brings
  <2>8. PICK x \in Mounted :
          /\ table' = Append(table, x) /\ x.at = b.at
          /\ x.group = b.group \/ x.group = On(b.at).group
    BY <2>5
  <2>9. x.at = Target(h) /\ (IsHosts(x.group) => IsHosts(On(Target(h)).group))
    BY <2>3, <2>6, <2>8, Zenon
  <2>10. \/ leaked' = leaked
         \/ leaked' = leaked \cup {Target(h)} /\ (~cfg.mntns \/ IsHosts(On(Target(h)).group))
    BY <2>3, <2>5, Zenon
  <2> QED
    BY <1>6, <2>5, <2>7, <2>8, <2>9, <2>10, Zenon
<1> QED
  BY <1>5, <1>6

\* No mount is made over one of the device nodes.
LEMMA NodesClear ==
    ASSUME MountsInv, pc \in Phases, todo # <<>>, NEW n \in nodes
    PROVE  ~IsPrefix(Target(Head(todo)), MonRootfs \o n.path)
<1> DEFINE h == Head(todo)
<1>1. todo \in Seq(MountSpecs) /\ h = todo[1] /\ 1 \in DOMAIN todo
  BY PhaseFacts, HeadIs
<1>2. n.path \in NodePaths /\ n.path \in Path /\ Len(n.path) >= 2 /\ n.path[1] = "dev"
  BY NodePathsIs DEF MountsInv, NodesInv
<1>3. pc # "mounts"
  BY DEF MountsInv, TodoInv
<1>4. pc # "devices"
  BY DEF MountsInv, TodoInv, NodesInv
<1>5. CASE pc = "vsock"
  <2>1. h = SocketMount
    BY <1>1, <1>5 DEF MountsInv, TodoInv
  <2>2. h.dest \in Path /\ 1 \in 1..Len(h.dest) /\ h.dest[1] = "tmp"
    BY <2>1, SocketIs
  <2>3. 1 <= Len(n.path) /\ h.dest[1] # n.path[1]
    BY <1>2, <2>2 DEF Path
  <2> QED
    BY <1>2, <2>2, <2>3, NotOver DEF Target
<1>6. CASE pc = "vdevices"
  <2>1. cfg.userns /\ n.path = Console
    BY <1>6 DEF MountsInv, TodoInv, NodesInv
  <2>2. PICK p \in ToSet(VSockDevices) : h = DeviceMount(p)
    BY <1>1, <1>6 DEF MountsInv, TodoInv
  <2>3. p \in NodePaths /\ p \in Path /\ Len(p) >= 2 /\ p[2] # Console[2]
    BY NodePathsIs
  <2>4. h.dest = p
    BY <2>2, <2>3, DeviceMountIs
  <2>5. 2 \in 1..Len(p) /\ 2 <= Len(n.path) /\ p[2] # n.path[2]
    BY <1>2, <2>1, <2>3 DEF Path
  <2> QED
    BY <1>2, <2>3, <2>4, <2>5, NotOver DEF Target
<1> QED
  BY <1>3, <1>4, <1>5, <1>6 DEF Phases

LEMMA ConfSame ==
    ASSUME cfg' = cfg
    PROVE  /\ List' = List /\ RootPropagation' = RootPropagation
           /\ \A i : Volume(i)' = Volume(i)
  BY DEF List, RootPropagation, Volume

\* HostUntouched in terms of Excused.
LEMMA ExcusedIs ==
    ASSUME NEW p
    PROVE  Excused(p) <=>
             /\ RootPropagation \notin {"rslave", "rprivate", "runbindable"}
             /\ \E i \in DOMAIN cfg.volumes :
                  \/ /\ \/ IsStrictPrefix(Target(Volume(i)), p)
                        \/ /\ Target(Volume(i)) = p
                           /\ \E j \in DOMAIN cfg.volumes \ {i} : Target(Volume(j)) = p
                     /\ LeftShared(cfg.volumes[i].opts, DOMAIN Propagation)
                  \/ /\ \E a \in along : a.with = MadeFor(i) /\ IsPrefix(a.mount.at, p)
                     /\ LeftShared(cfg.volumes[i].opts, Recursive)
  BY Zenon DEF Excused, Quiet, AllShared

LEMMA UntouchedKept ==
    ASSUME HostUntouched, cfg' = cfg, lost' = lost,
           \A i \in DOMAIN cfg.volumes : MadeFor(i)' = MadeFor(i),
           \A a \in along : \E b \in along' : b.with = a.with /\ b.mount.at = a.mount.at,
           cfg.mntns => \A p \in leaked' : p \in leaked \/ Excused(p)
    PROVE  HostUntouched'
<1>1. cfg.mntns => lost = {} /\ \A p \in leaked : Excused(p)
  BY ExcusedIs, Zenon DEF HostUntouched
<1>2. cfg.mntns => \A p \in leaked' : Excused(p)
  BY <1>1
<1>3. cfg'.mntns = cfg.mntns /\ RootPropagation' = RootPropagation /\ cfg'.volumes = cfg.volumes
  BY DEF RootPropagation
<1>4. \A i : Target(Volume(i))' = Target(Volume(i))
  BY DEF Target, Volume
<1>5. ASSUME cfg'.mntns, NEW p \in leaked'
      PROVE  /\ RootPropagation' \notin {"rslave", "rprivate", "runbindable"}
             /\ \E i \in DOMAIN cfg'.volumes :
                  \/ /\ \/ IsStrictPrefix(Target(Volume(i))', p)
                        \/ /\ Target(Volume(i))' = p
                           /\ \E j \in DOMAIN cfg'.volumes \ {i} : Target(Volume(j))' = p
                     /\ LeftShared(cfg'.volumes[i].opts, DOMAIN Propagation)
                  \/ /\ \E a \in along' : a.with = MadeFor(i)' /\ IsPrefix(a.mount.at, p)
                     /\ LeftShared(cfg'.volumes[i].opts, Recursive)
  <2>1. Excused(p)
    BY <1>2, <1>3, <1>5
  <2>2. RootPropagation \notin {"rslave", "rprivate", "runbindable"}
    BY <2>1, ExcusedIs, Zenon
  <2>3. PICK i \in DOMAIN cfg.volumes :
          \/ /\ \/ IsStrictPrefix(Target(Volume(i)), p)
                \/ /\ Target(Volume(i)) = p
                   /\ \E j \in DOMAIN cfg.volumes \ {i} : Target(Volume(j)) = p
             /\ LeftShared(cfg.volumes[i].opts, DOMAIN Propagation)
          \/ /\ \E a \in along : a.with = MadeFor(i) /\ IsPrefix(a.mount.at, p)
             /\ LeftShared(cfg.volumes[i].opts, Recursive)
    BY <2>1, ExcusedIs, Zenon
  <2>4. MadeFor(i)' = MadeFor(i)
    OBVIOUS
  <2>5. ASSUME NEW a \in along, a.with = MadeFor(i), IsPrefix(a.mount.at, p)
        PROVE  \E b \in along' : b.with = MadeFor(i)' /\ IsPrefix(b.mount.at, p)
    <3>1. PICK b \in along' : b.with = a.with /\ b.mount.at = a.mount.at
      OBVIOUS
    <3> QED
      BY <2>4, <2>5, <3>1, Zenon
  <2>6. LeftShared(cfg'.volumes[i].opts, DOMAIN Propagation) = LeftShared(cfg.volumes[i].opts, DOMAIN Propagation)
    BY <1>3
  <2>7. LeftShared(cfg'.volumes[i].opts, Recursive) = LeftShared(cfg.volumes[i].opts, Recursive)
    BY <1>3
  <2> QED
    BY <1>3, <1>4, <2>2, <2>3, <2>5, <2>6, <2>7, Zenon
<1> QED
  BY <1>1, <1>3, <1>5, Zenon DEF HostUntouched

\* The mount of a volume stays what it is, and so does the one of its source.
LEMMA FlaggedKept ==
    ASSUME NEW userns, NEW t, NEW u, NEW m, NEW k, Flagged(userns, t, m, k),
           u[k].at = t[k].at, u[k].what = t[k].what, u[k].flags = t[k].flags,
           ~IsBelow(m.src) => u[Covering(u, m.src)].flags = t[Covering(t, m.src)].flags
    PROVE  Flagged(userns, u, m, k)
  BY Zenon DEF Flagged

\* After the mounts of the list, none is made on or below a volume.
LEMMA OffVolumes ==
    ASSUME MountsInv, pc \in Phases, pc # "mounts", todo # <<>>, NEW i \in DOMAIN cfg.volumes
    PROVE  ~IsPrefix(Target(Volume(i)), Target(Head(todo)))
<1> DEFINE d == Head(todo).dest
           v == Volume(i).dest
<1>1. v \in Path /\ 1 \in 1..Len(v) /\ v[1] = "cntrRootfs"
  BY PhaseFacts, VolumeFacts
<1>2. d \in NodePaths \cup {vAccelMountPath}
  BY HeadFacts
<1>3. /\ vAccelMountPath \in Path /\ Len(vAccelMountPath) = 2 /\ vAccelMountPath[1] = "tmp"
  BY NamesAssumption DEF vAccelMountPath, Path, OwnNames
<1>4. \A q \in NodePaths : q \in Path /\ Len(q) >= 2 /\ q[1] = "dev"
  BY NodePathsIs
<1> HIDE DEF d, v
<1>5. d \in Path /\ Len(d) >= 2 /\ d[1] \in {"dev", "tmp"}
  BY <1>2, <1>3, <1>4
<1>6. 1 <= Len(d) /\ v[1] # d[1]
  BY <1>1, <1>5 DEF Path
<1>7. ~IsPrefix(MonRootfs \o v, MonRootfs \o d)
  BY <1>1, <1>5, <1>6, NotOver
<1> QED
  BY <1>7 DEF Target, v, d

\* In the list, a mount past the sixth is one of a volume.
LEMMA VolumeNext ==
    ASSUME MountsInv, pc = "mounts", todo # <<>>, Done >= 6
    PROVE  Done - 5 \in DOMAIN cfg.volumes /\ Head(todo) = Volume(Done - 5)
<1>1. pc \in Phases
  BY DEF Phases
<1>2. /\ cfg.volumes \in BindLists /\ DOMAIN cfg.volumes = 1..Len(cfg.volumes)
      /\ Len(List) = Len(cfg.volumes) + 6 /\ Len(cfg.volumes) \in Nat
  BY <1>1, PhaseFacts
<1>3. Done \in Nat /\ Head(todo) = List[Done + 1] /\ Done + 1 \in 1..Len(List)
  BY <1>1, HeadFacts
<1>4. Done - 5 \in 1..Len(cfg.volumes) /\ (Done - 5) + 6 = Done + 1
  BY <1>2, <1>3
<1>5. Volume(Done - 5) = List[(Done - 5) + 6]
  BY <1>2, <1>4, VolumeFacts
<1> QED
  BY <1>2, <1>3, <1>4, <1>5

\* Only a volume is mounted with what is below its source.
LEMMA RecursiveHead ==
    ASSUME MountsInv, pc \in Phases, todo # <<>>, step = "mount", IsRecursiveBind(Head(todo))
    PROVE  \E i \in DOMAIN cfg.volumes :
             MadeFor(i) = Len(table) + 1 /\ Target(Volume(i)) = Target(Head(todo))
<1>1. pc = "mounts"
  BY HeadFacts
<1>2. /\ Len(table) \in Nat /\ NewRoot \in 1..Len(table) /\ cfg.volumes \in BindLists
      /\ \A i \in DOMAIN cfg.volumes : MadeFor(i) = NewRoot + 6 + i
  BY PhaseFacts
<1>3. Done \in Nat /\ Head(todo) = List[Done + 1]
  BY <1>1, HeadFacts
<1>4. Done >= 6
  <2>1. \A j \in 1..6 : Tame(List[j])
    BY <1>2, ListIs, Zenon DEF List
  <2>2. Done < 6 => Done + 1 \in 1..6
    BY <1>3
  <2>3. ~(Done < 6)
    BY <1>3, <2>1, <2>2 DEF Tame
  <2> QED
    BY <1>3, <2>3
<1>5. Done - 5 \in DOMAIN cfg.volumes /\ Head(todo) = Volume(Done - 5)
  BY <1>1, <1>4, VolumeNext
<1>6. Len(table) = NewRoot + Done
  BY <1>1, PositionFacts
<1>7. MadeFor(Done - 5) = Len(table) + 1
  <2>1. MadeFor(Done - 5) = NewRoot + 6 + (Done - 5)
    BY <1>2, <1>5
  <2> QED
    BY <1>2, <1>3, <1>6, <2>1
<1> QED
  BY <1>5, <1>7

\* A mount that reaches the host is one on a volume, and excused.
LEMMA ParentPeer ==
    ASSUME MountsInv, pc \in Phases, todo # <<>>, step = "mount",
           IsHosts(On(Target(Head(todo))).group)
    PROVE  Excused(Target(Head(todo))) /\ IsBindMount(Head(todo))
<1> DEFINE h == Head(todo)
           n == Len(table)
           t == Target(h)
           c == Covering(table, t)
<1>1. /\ table \in Tables /\ n \in Nat /\ DOMAIN table = 1..n /\ along \subseteq Along
      /\ NewRoot \in 1..n /\ table[NewRoot].at = MonRootfs
      /\ \A k \in 1..n : k < NewRoot <=> ~IsBelow(table[k].at)
      /\ cfg.volumes \in BindLists /\ DOMAIN cfg.volumes = 1..Len(cfg.volumes)
      /\ Len(List) = Len(cfg.volumes) + 6 /\ Len(cfg.volumes) \in Nat
      /\ \A i \in DOMAIN cfg.volumes : MadeFor(i) = NewRoot + 6 + i
  BY PhaseFacts
<1>2. h \in MountSpecs /\ h.dest \in Path /\ t \in Path /\ IsBelow(t)
  BY HeadFacts, SpecIs
<1>3. c \in 1..n /\ c >= NewRoot /\ IsPrefix(table[c].at, t)
  BY <1>1, <1>2, CoveringBelow, CoveringTable
<1>4. /\ IsHosts(On(t).group)
      /\ \/ On(t) = table[c]
         \/ \E a \in along : a.with = c /\ IsPrefix(a.mount.at, t) /\ On(t) = a.mount
  BY <1>1, <1>2, OnIs
<1>5. RootPropagation \notin Quiet
  <2>1. RootPropagation \in Quiet => Sealed
    BY DEF MountsInv, GroupInv
  <2> QED
    BY <1>1, <1>2, <1>4, <2>1, OnSealed
<1>6. t = MonRootfs \o h.dest
  BY DEF Target
<1>7. \A k \in 1..n : Settled(k)
  BY DEF Settled
<1>8. SUFFICES Excused(t) /\ IsBindMount(h)
  OBVIOUS
<1> HIDE DEF h, n, t, c
\* The volume that the mount is on, or that what it is on came along with.
<1>9. \E i \in DOMAIN cfg.volumes :
        /\ c = MadeFor(i) /\ IsPrefix(Target(Volume(i)), t)
        /\ \/ AllShared(cfg.volumes[i].opts)
           \/ /\ \E a \in along : a.with = MadeFor(i) /\ IsPrefix(a.mount.at, t)
              /\ LeftShared(cfg.volumes[i].opts, Recursive)
  <2>1. CASE On(t) = table[c]
    <3>1. Peer(table[c].at, c, NewRoot, cfg.volumes)
      BY <1>1, <1>3, <1>4, <1>7, <2>1 DEF MountsInv, GroupInv
    <3>2. CASE \E i \in DOMAIN cfg.volumes : c = NewRoot + 6 + i /\ AllShared(cfg.volumes[i].opts)
      <4>1. PICK i \in DOMAIN cfg.volumes : c = NewRoot + 6 + i /\ AllShared(cfg.volumes[i].opts)
        BY <3>2
      <4>2. c = MadeFor(i)
        BY <1>1, <4>1
      <4>3. table[c].at = Target(Volume(i))
        BY <1>1, <1>3, <4>2 DEF MountsInv, FlagsInv, Flagged
      <4> QED
        BY <1>3, <4>1, <4>2, <4>3
    <3>3. ASSUME c > NewRoot + 6 + Len(cfg.volumes), NEW p \in NodePaths, table[c].at = MonRootfs \o p
          PROVE  FALSE
      <4>1. pc # "mounts"
        <5>1. SUFFICES ASSUME pc = "mounts" PROVE FALSE
          OBVIOUS
        <5>2. Done \in Nat /\ Done + 1 \in 1..Len(List) /\ n = NewRoot + Done
          BY <5>1, HeadFacts, PositionFacts DEF n
        <5> DEFINE L == Len(cfg.volumes)
                   M == Len(List)
        <5>3. c \in 1..n /\ n \in Nat
          BY <1>1, <1>3
        <5>4. M = L + 6 /\ L \in Nat /\ NewRoot \in 1..n
          BY <1>1
        <5>5. c > NewRoot + 6 + L /\ Done \in Nat /\ Done + 1 \in 1..M /\ n = NewRoot + Done
          BY <3>3, <5>2
        <5> HIDE DEF L, M
        <5> QED
          BY <5>3, <5>4, <5>5
      <4>2. h.dest \in NodePaths \cup {vAccelMountPath}
        BY <4>1, HeadFacts DEF h
      <4>3. p = h.dest
        BY <1>3, <1>6, <3>3, <4>2, NodesApart
      <4>4. Clear(table[c].at, todo, Later(pc))
        <5>1. pc \in Phases \ {"mounts"}
          BY <4>1
        <5>2. \A k \in DOMAIN table : k > NewRoot + 6 + Len(cfg.volumes) /\ Settled(k) =>
                 Clear(table[k].at, todo, Later(pc))
          BY <5>1, Zenon DEF MountsInv, ClearInv
        <5> QED
          BY <1>1, <1>3, <1>7, <3>3, <5>2
      <4>5. 1 \in DOMAIN todo /\ h = todo[1]
        BY PhaseFacts, HeadIs DEF h
      <4>6. table[c].at # MonRootfs \o todo[1].dest
        BY <4>4, <4>5, Zenon DEF Clear
      <4> QED
        BY <3>3, <4>3, <4>5, <4>6
    <3> QED
      BY <3>1, <3>2, <3>3, Zenon DEF Peer
  <2>2. CASE \E a \in along : a.with = c /\ IsPrefix(a.mount.at, t) /\ On(t) = a.mount
    <3>1. PICK a \in along : a.with = c /\ IsPrefix(a.mount.at, t) /\ On(t) = a.mount
      BY <2>2
    <3>2. a.mount.at \in Path
      BY AlongFacts
    <3>3. PICK i \in DOMAIN cfg.volumes :
            /\ a.with = MadeFor(i) /\ IsPrefix(Target(Volume(i)), a.mount.at)
            /\ Settled(a.with) /\ IsHosts(a.mount.group) => LeftShared(cfg.volumes[i].opts, Recursive)
      BY AlongFacts
    <3>4. LeftShared(cfg.volumes[i].opts, Recursive)
      BY <1>3, <1>4, <1>7, <3>1, <3>3
    <3>5. Target(Volume(i)) \in Path
      BY <1>1, VolumeFacts, BelowMon DEF Target
    <3>6. IsPrefix(Target(Volume(i)), t)
      BY <1>2, <3>1, <3>2, <3>3, <3>5, PrefixTrans
    <3> QED
      BY <3>1, <3>3, <3>4, <3>6
  <2> QED
    BY <1>4, <2>1, <2>2
<1>10. PICK i \in DOMAIN cfg.volumes :
         /\ c = MadeFor(i) /\ IsPrefix(Target(Volume(i)), t)
         /\ \/ AllShared(cfg.volumes[i].opts)
            \/ /\ \E a \in along : a.with = MadeFor(i) /\ IsPrefix(a.mount.at, t)
               /\ LeftShared(cfg.volumes[i].opts, Recursive)
  BY <1>9
<1>11. pc = "mounts"
  BY <1>10, OffVolumes DEF t, h
<1>12. Done \in Nat /\ n = NewRoot + Done
  BY <1>11, HeadFacts, PositionFacts DEF n
<1>13. Done >= 6 /\ Done - 5 # i
  <2>1. c = NewRoot + 6 + i /\ i \in 1..Len(cfg.volumes)
    BY <1>1, <1>10
  <2> QED
    BY <1>1, <1>3, <1>12, <2>1
<1>14. Done - 5 \in DOMAIN cfg.volumes /\ h = Volume(Done - 5)
  BY <1>11, <1>13, VolumeNext DEF h
<1>15. IsBindMount(h)
  BY <1>1, <1>14, VolumeFacts
<1>16. Done - 5 \in DOMAIN cfg.volumes \ {i} /\ Target(Volume(Done - 5)) = t
  BY <1>13, <1>14 DEF t
<1>17. Target(Volume(i)) = t \/ IsStrictPrefix(Target(Volume(i)), t)
  BY <1>10 DEF IsStrictPrefix
<1> QED
  BY <1>5, <1>10, <1>15, <1>16, <1>17, Zenon DEF Excused

\* What a path is on, of the mounts of a table and those that came along.
OnIn(t, came, q) ==
    LET k == Covering(t, q)
        over == {a \in came : a.with = k /\ IsPrefix(a.mount.at, q)}
    IN  IF over = {} THEN t[k]
        ELSE (CHOOSE a \in over : \A b \in over : Len(b.mount.at) <= Len(a.mount.at)).mount

LEMMA OnInSame ==
    ASSUME NEW t, NEW u, NEW came, NEW more, NEW q, Covering(u, q) = Covering(t, q),
           u[Covering(t, q)] = t[Covering(t, q)],
           \A a : a.with = Covering(t, q) => (a \in came <=> a \in more)
    PROVE  OnIn(u, more, q) = OnIn(t, came, q)
<1> DEFINE k == Covering(t, q)
           over == {a \in came : a.with = k /\ IsPrefix(a.mount.at, q)}
           more1 == {a \in more : a.with = k /\ IsPrefix(a.mount.at, q)}
<1>1. more1 = over
  <2>1. \A a : a.with = k => (a \in came <=> a \in more)
    OBVIOUS
  <2> HIDE DEF k
  <2> QED
    BY <2>1, Zenon
<1>2. Covering(u, q) = k /\ u[k] = t[k]
  OBVIOUS
<1>3. OnIn(t, came, q) = IF over = {} THEN t[k]
                         ELSE (CHOOSE a \in over : \A b \in over : Len(b.mount.at) <= Len(a.mount.at)).mount
  BY DEF OnIn
<1>4. OnIn(u, more, q) = IF more1 = {} THEN t[k]
                         ELSE (CHOOSE a \in more1 : \A b \in more1 : Len(b.mount.at) <= Len(a.mount.at)).mount
  <2> HIDE DEF k
  <2> QED
    BY <1>2 DEF OnIn
<1> HIDE DEF over, more1
<1> QED
  BY <1>1, <1>3, <1>4

LEMMA ApplyMountKeeps == ASSUME MountsInv, ApplyMount PROVE MountsInv'
<1> DEFINE h == Head(todo)
           n == Len(table)
<1>1. pc \in Phases /\ todo # <<>> /\ step = "mount" /\ step' = "remount"
  BY DEF ApplyMount
<1>2. cfg' = cfg /\ pc' = pc /\ todo' = todo /\ nodes' = nodes /\ lost' = lost
  BY DEF ApplyMount, Goto
<1>3. /\ table \in Tables /\ n \in Nat /\ DOMAIN table = 1..n
      /\ along \subseteq Along /\ \A a \in along : a.with \in 1..n
      /\ NewRoot \in 1..n /\ table[NewRoot].at = MonRootfs
      /\ \A k \in 1..n : k < NewRoot <=> ~IsBelow(table[k].at)
      /\ cfg.volumes \in BindLists /\ DOMAIN cfg.volumes = 1..Len(cfg.volumes)
      /\ Len(List) = Len(cfg.volumes) + 6 /\ Len(cfg.volumes) \in Nat
      /\ \A i \in DOMAIN cfg.volumes : MadeFor(i) = NewRoot + 6 + i
  BY <1>1, PhaseFacts
<1>4. /\ h \in MountSpecs /\ h.src \in Path /\ Target(h) \in Path /\ IsBelow(Target(h))
      /\ ~IsPrefix(Target(h), MonRootfs)
  BY <1>1, HeadFacts, SpecIs
<1>5. PICK x \in Mounted :
        /\ table' = Append(table, x) /\ x.at = Target(h)
        /\ IsBindMount(h) => x.what = h.src /\ x.flags = On(h.src).flags
        /\ IsHosts(x.group) => \/ IsBindMount(h) /\ IsHosts(On(h.src).group)
                               \/ IsHosts(On(Target(h)).group)
  BY ApplyMountIs, Zenon
<1>9. /\ \/ leaked' = leaked
         \/ leaked' = leaked \cup {Target(h)} /\ (~cfg.mntns \/ IsHosts(On(Target(h)).group))
      /\ Brings(Target(h)) /\ (~IsRecursiveBind(h) => along' = along)
  BY ApplyMountIs, Zenon
<1>6. /\ table' \in Tables /\ Len(table') = n + 1 /\ table'[n + 1] = x
      /\ \A k \in 1..n : table'[k] = table[k]
  BY <1>3, <1>5, AppendTable
<1>7. DOMAIN table' = 1..(n + 1)
  BY <1>6 DEF Tables
<1>8. ASSUME NEW p \in Path
      PROVE  /\ Covering(table', p) \in {Covering(table, p), n + 1}
             /\ ~IsPrefix(Target(h), p) => Covering(table', p) = Covering(table, p)
  BY <1>3, <1>5, CoveringAppend
<1>10. /\ along \subseteq along' /\ along' \subseteq Along
       /\ \A a \in along' : a \in along \/
            (/\ a.with = n + 1 /\ IsPrefix(Target(h), a.mount.at) /\ IsRecursiveBind(h)
             /\ Sealed => ~IsHosts(a.mount.group))
  BY <1>9, Zenon DEF Brings
<1>11. ConfInv /\ Pivotable(table)
  BY <1>1 DEF MountsInv, RootInv
<1>27. IsHosts(On(Target(h)).group) => Excused(Target(h)) /\ IsBindMount(h)
  BY <1>1, ParentPeer
<1>28. IsRecursiveBind(h) =>
         \E i \in DOMAIN cfg.volumes : MadeFor(i) = n + 1 /\ Target(Volume(i)) = Target(h)
  BY <1>1, RecursiveHead
<1> HIDE DEF h, n
<1>12. NewRoot' = NewRoot
  BY <1>4, <1>8, MonIs DEF NewRoot
<1>13. List' = List /\ RootPropagation' = RootPropagation /\ \A i : Volume(i)' = Volume(i)
  BY <1>2, ConfSame
<1>14. Done' = Done /\ Begun = 0 /\ Begun' = 1 /\ Top' = n + 1 /\ Top = n
  BY <1>1, <1>2, <1>6, <1>13 DEF Done, Begun, Top, n
<1>15. \A i : MadeFor(i)' = MadeFor(i)
  BY <1>12 DEF MadeFor, NewRoot
<1>29. \A k \in 1..(n + 1) : k \in 1..n \/ k = n + 1
  BY <1>3
<1>30. \A k : /\ Settled(k) <=> TRUE
              /\ Settled(k)' <=> k # n + 1
  BY <1>1, <1>14 DEF Settled
<1>31. n + 1 \notin 1..n
  BY <1>3
<1>16. Pivotable(table')
  <2>1. n <= n + 1
    BY <1>3
  <2>2. \A k \in 1..NewRoot : table'[k] = table[k]
    <3>1. 1..NewRoot \subseteq 1..n
      BY <1>3
    <3> QED
      BY <1>6, <3>1
  <2>3. Covering(table', MonRootfs) = Covering(table, MonRootfs)
    BY <1>12 DEF NewRoot
  <2>4. ASSUME NEW k \in 1..(n + 1), k > NewRoot PROVE IsBelow(table'[k].at)
    <3>1. CASE k \in 1..n
      <4>1. ~(k < NewRoot)
        BY <1>3, <2>4, <3>1
      <4> QED
        BY <1>3, <1>6, <3>1, <4>1
    <3>2. CASE k = n + 1
      BY <1>4, <1>5, <1>6, <3>2
    <3> QED
      BY <1>29, <3>1, <3>2
  <2> QED
    BY <1>3, <1>6, <1>11, <2>1, <2>2, <2>3, <2>4, PivotableKept DEF NewRoot, n
<1>17. pc' \in Phases /\ pc' \notin Early /\ pc' \notin {"oldslave", "unmount", "rbind", "propagate"}
  BY <1>1, <1>2 DEF Phases, Early
<1>18. ConfInv'
  BY <1>2, <1>11, ConfKept
<1>19. TypeOK'
  <2>1. \A k \in DOMAIN table' : table'[k] \in Mounted
    BY <1>6 DEF Tables
  <2>2. \A y \in nodes : y.on \in DOMAIN table'
    <3>1. \A y \in nodes : y.on \in DOMAIN table
      BY DEF MountsInv, TypeOK
    <3>2. DOMAIN table \subseteq DOMAIN table'
      BY <1>3, <1>7
    <3> QED
      BY <3>1, <3>2
  <2>3. \A a \in along' : a.with \in DOMAIN table' /\ a.mount \in Mounted
    <3>1. \A a \in along' : a.mount \in Mounted
      BY <1>10 DEF Along
    <3>2. 1..n \subseteq 1..(n + 1) /\ n + 1 \in 1..(n + 1)
      BY <1>3
    <3>3. \A a \in along' : a.with \in 1..(n + 1)
      BY <1>3, <1>10, <3>2
    <3> QED
      BY <1>7, <3>1, <3>3
  <2> QED
    BY <1>1, <1>2, <1>17, <2>1, <2>2, <2>3 DEF TypeOK
<1>20. TableInv'
  BY <1>6, <1>17 DEF TableInv
<1>21. TodoInv'
  <2>1. TodoInv
    BY DEF MountsInv
  <2> QED
    BY <1>1, <1>2, <1>13, <1>14, <1>17, <2>1 DEF TodoInv
<1>32. ASSUME NEW a \in along' PROVE CameAlong(a, NewRoot, cfg.volumes, Settled(a.with)')
  <2> DEFINE was == Settled(a.with)
             is == Settled(a.with)'
  <2>1. CASE a \in along
    <3>1. CameAlong(a, NewRoot, cfg.volumes, was)
      BY <1>1, <2>1 DEF MountsInv, AlongInv
    <3>2. was
      BY <1>30
    <3> HIDE DEF was, is
    <3>3. CameAlong(a, NewRoot, cfg.volumes, is)
      BY <3>1, <3>2, Zenon DEF CameAlong
    <3> QED
      BY <3>3 DEF is
  <2>2. CASE a \notin along
    <3>1. a.with = n + 1 /\ IsPrefix(Target(h), a.mount.at) /\ IsRecursiveBind(h)
      BY <1>10, <2>2
    <3>2. PICK i \in DOMAIN cfg.volumes : MadeFor(i) = n + 1 /\ Target(Volume(i)) = Target(h)
      BY <1>28, <3>1
    <3>3. a.with = NewRoot + 6 + i
      BY <1>3, <3>1, <3>2
    <3>4. IsPrefix(MonRootfs \o RootfsMounts(cfg.volumes)[i + 2].dest, a.mount.at)
      BY <1>3, <3>1, <3>2, VolumeFacts
    <3>5. is = FALSE
      <4>1. Settled(a.with)' <=> a.with # n + 1
        BY <1>1, <1>14 DEF Settled
      <4> QED
        BY <3>1, <4>1 DEF Settled
    <3> HIDE DEF is
    <3>6. CameAlong(a, NewRoot, cfg.volumes, is)
      BY <3>3, <3>4, <3>5, Zenon DEF CameAlong
    <3> QED
      BY <3>6 DEF is
  <2> QED
    BY <2>1, <2>2
<1>33. AlongInv'
  <2>1. along' \subseteq Along
    BY <1>10
  <2>2. \A a \in along' : CameAlong(a, NewRoot', cfg'.volumes, Settled(a.with)')
    BY <1>2, <1>12, <1>32, Zenon
  <2> QED
    BY <1>17, <2>1, <2>2, Zenon DEF AlongInv
<1>22. NodesInv'
  <2>1. NodesInv
    BY DEF MountsInv
  <2>2. ASSUME NEW y \in nodes PROVE Covering(table', MonRootfs \o y.path) = y.on
    <3>1. MonRootfs \o y.path \in Path
      BY <2>1, NodePathsIs, BelowMon DEF NodesInv
    <3>2. ~IsPrefix(Target(h), MonRootfs \o y.path)
      BY <1>1, NodesClear DEF h
    <3>3. Covering(table, MonRootfs \o y.path) = y.on
      BY <2>1 DEF NodesInv, NodesVisible
    <3> QED
      BY <1>8, <3>1, <3>2, <3>3
  <2>3. ASSUME NEW y \in nodes, NEW a \in along' PROVE ~IsPrefix(a.mount.at, MonRootfs \o y.path)
    <3>1. y.path \in NodePaths
      BY <2>1 DEF NodesInv
    <3>2. a.mount \in Mounted
      BY <1>10 DEF Along
    <3>3. PICK i \in DOMAIN cfg.volumes :
            IsPrefix(MonRootfs \o RootfsMounts(cfg.volumes)[i + 2].dest, a.mount.at)
      BY <1>32, Zenon DEF CameAlong
    <3>4. a.mount.at \in Path
      BY <3>2, AtIs
    <3> QED
      BY <1>3, <3>1, <3>3, <3>4, AlongOff
  <2> QED
    BY <1>2, <2>1, <2>2, <2>3 DEF NodesInv, NodesVisible
<1>23. RootInv'
  <2>1. IF pc = "mounts" THEN Top = NewRoot + Done + Begun ELSE Top >= NewRoot + Len(List) + Begun
    BY <1>1 DEF MountsInv, RootInv
  <2>2. pc = "mounts" => Done \in Nat
    BY <1>1, HeadFacts
  <2>3. IF pc' = "mounts" THEN Top' = NewRoot' + Done' + Begun'
        ELSE Top' >= NewRoot' + Len(List') + Begun'
    BY <1>2, <1>3, <1>12, <1>13, <1>14, <2>1, <2>2
  <2> QED
    BY <1>16, <1>17, <2>3 DEF RootInv
<1>24. FlagsInv'
  <2>1. Head(todo') = h /\ Target(h)' = Target(h)
    BY <1>2 DEF h, Target
  <2>2. table'[Top'].at = Target(h)
    BY <1>5, <1>6, <1>14
  <2>3. ASSUME IsBindMount(h)
        PROVE  /\ table'[Top'].what = h.src
               /\ ~IsPrefix(Target(h), h.src) => table'[Top'].flags = On(Head(todo).src)'.flags
    <3>1. table'[Top'].what = h.src /\ table'[Top'].flags = On(h.src).flags
      BY <1>5, <1>6, <1>14, <2>3
    <3>2. ASSUME ~IsPrefix(Target(h), h.src) PROVE On(Head(todo).src)' = On(h.src)
      <4> DEFINE q == h.src
                 k == Covering(table, q)
      <4>1. k \in 1..n
        BY <1>3, <1>4, CoveringTable DEF n
      <4>2. Covering(table', q) = k
        BY <1>4, <1>8, <3>2
      <4>3. table'[k] = table[k]
        BY <1>6, <4>1
      <4>4. \A a : a.with = k => (a \in along <=> a \in along')
        BY <1>10, <1>31, <4>1, Zenon
      <4>7. On(Head(todo).src)' = OnIn(table', along', Head(todo').src)
        BY Zenon DEF On, OnIn
      <4>8. On(h.src) = OnIn(table, along, h.src)
        BY Zenon DEF On, OnIn
      <4>5. On(Head(todo).src)' = OnIn(table', along', q) /\ On(h.src) = OnIn(table, along, q)
        BY <2>1, <4>7, <4>8, Zenon
      <4> HIDE DEF q
      <4>6. OnIn(table', along', q) = OnIn(table, along, q)
        BY <4>2, <4>3, <4>4, OnInSame
      <4> QED
        BY <4>5, <4>6
    <3> QED
      BY <3>1, <3>2
  <2>4. ASSUME NEW i \in DOMAIN cfg.volumes, MadeFor(i) \in 1..(n + 1), MadeFor(i) # n + 1
        PROVE  Flagged(cfg.userns, table', Volume(i), MadeFor(i))
    <3>2. MadeFor(i) \in 1..n
      BY <1>29, <2>4, Zenon
    <3> DEFINE m == Volume(i)
               k == MadeFor(i)
    <3>3. Flagged(cfg.userns, table, m, k)
      BY <1>1, <1>3, <3>2 DEF MountsInv, FlagsInv
    <3>4. m.src \in Path
      BY <1>3, VolumeFacts, SpecIs
    <3> HIDE DEF m, k
    <3>5. ASSUME ~IsBelow(m.src)
          PROVE  table'[Covering(table', m.src)] = table[Covering(table, m.src)]
      <4>1. ~IsPrefix(Target(h), m.src)
        BY <1>4, <3>4, <3>5, NotAbove
      <4>2. Covering(table', m.src) = Covering(table, m.src)
        BY <1>8, <3>4, <4>1
      <4>3. Covering(table, m.src) \in 1..n
        BY <1>3, <3>4, CoveringTable DEF n
      <4> QED
        BY <1>6, <4>2, <4>3
    <3>6. table'[k] = table[k]
      BY <1>6, <3>2 DEF k
    <3>7. Flagged(cfg.userns, table', m, k)
      BY <3>3, <3>5, <3>6, FlaggedKept
    <3> QED
      BY <3>7 DEF m, k
  <2>5. ASSUME NEW i \in DOMAIN cfg'.volumes, MadeFor(i)' \in DOMAIN table', MadeFor(i)' # Top'
        PROVE  Flagged(cfg'.userns, table', Volume(i)', MadeFor(i)')
    <3>1. MadeFor(i)' = MadeFor(i) /\ Volume(i)' = Volume(i)
      BY <1>13, <1>15
    <3>2. MadeFor(i) \in 1..(n + 1) /\ MadeFor(i) # n + 1
      BY <1>7, <1>14, <2>5, <3>1, Zenon
    <3>3. Flagged(cfg.userns, table', Volume(i), MadeFor(i))
      BY <1>2, <2>4, <3>2
    <3> QED
      BY <1>2, <3>1, <3>3, Zenon
  <2>6. /\ table'[Top'].at = Target(Head(todo))'
        /\ IsBindMount(Head(todo))' =>
             /\ table'[Top'].what = Head(todo').src
             /\ ~IsPrefix(Target(Head(todo))', Head(todo').src) =>
                  table'[Top'].flags = On(Head(todo).src)'.flags
    <3>1. Target(Head(todo))' = Target(h) /\ IsBindMount(Head(todo))' = IsBindMount(h)
      BY <2>1 DEF Target, IsBindMount
    <3> QED
      BY <2>1, <2>2, <2>3, <3>1, Zenon
  <2> QED
    BY <1>1, <2>5, <2>6, Zenon DEF FlagsInv
<1>25. GroupInv'
  <2>1. ASSUME Sealed PROVE Sealed'
    <3>1. ~IsHosts(On(Target(h)).group) /\ ~IsHosts(On(h.src).group)
      BY <1>3, <1>4, <2>1, OnSealed
    <3>2. ~IsHosts(x.group)
      BY <1>5, <3>1
    <3>3. \A k \in DOMAIN table' : ~IsHosts(table'[k].group)
      BY <1>3, <1>6, <1>7, <1>29, <2>1, <3>2 DEF Sealed
    <3>4. \A a \in along' : ~IsHosts(a.mount.group)
      BY <1>10, <2>1 DEF Sealed
    <3> QED
      BY <3>3, <3>4 DEF Sealed
  <2>2. RootPropagation' \in Quiet => Sealed'
    BY <1>1, <1>13, <2>1 DEF MountsInv, GroupInv
  <2>3. ASSUME NEW k \in 1..(n + 1), k >= NewRoot, IsHosts(table'[k].group)
        PROVE  IF k # n + 1 THEN Peer(table'[k].at, k, NewRoot, cfg.volumes) ELSE IsBindMount(h)
    <3>1. CASE k = n + 1
      BY <1>5, <1>6, <1>27, <2>3, <3>1
    <3>2. CASE k # n + 1
      <4>1. k \in 1..n
        BY <1>29, <3>2
      <4>2. IsHosts(table[k].group) /\ table'[k] = table[k]
        BY <1>6, <2>3, <4>1
      <4>3. Peer(table[k].at, k, NewRoot, cfg.volumes)
        BY <1>1, <1>3, <1>30, <2>3, <4>1, <4>2 DEF MountsInv, GroupInv
      <4> QED
        BY <3>2, <4>2, <4>3
    <3> QED
      BY <3>1, <3>2
  <2>4. IsBindMount(Head(todo))' = IsBindMount(h)
    BY <1>2 DEF IsBindMount, h
  <2>5. \A k \in DOMAIN table' : k >= NewRoot' /\ IsHosts(table'[k].group) =>
             IF Settled(k)' THEN Peer(table'[k].at, k, NewRoot', cfg'.volumes)
             ELSE IsBindMount(Head(todo))'
    BY <1>2, <1>7, <1>12, <1>30, <2>3, <2>4, Zenon
  <2> QED
    BY <2>2, <2>5, Zenon DEF GroupInv
<1>34. ClearInv'
  <2>1. SUFFICES ASSUME pc' \in Phases \ {"mounts"}
                 PROVE  /\ Distinct(todo', Later(pc'))
                        /\ \A k \in DOMAIN table' :
                             k > NewRoot' + 6 + Len(cfg'.volumes) /\ Settled(k)' =>
                               Clear(table'[k].at, todo', Later(pc'))
    BY Zenon DEF ClearInv
  <2>2. /\ Distinct(todo, Later(pc))
        /\ \A k \in 1..n : k > NewRoot + 6 + Len(cfg.volumes) /\ Settled(k) =>
             Clear(table[k].at, todo, Later(pc))
    BY <1>2, <1>3, <2>1, Zenon DEF MountsInv, ClearInv
  <2>3. ASSUME NEW k \in 1..(n + 1), k > NewRoot + 6 + Len(cfg.volumes), Settled(k)'
        PROVE  Clear(table'[k].at, todo, Later(pc))
    <3>1. k \in 1..n
      BY <1>29, <1>30, <2>3
    <3> QED
      BY <1>6, <1>30, <2>2, <2>3, <3>1
  <2> QED
    BY <1>2, <1>7, <1>12, <2>2, <2>3, Zenon
<1>26. HostUntouched'
  <2>1. cfg.mntns => \A p \in leaked' : p \in leaked \/ Excused(p)
    BY <1>9, <1>27
  <2>2. HostUntouched
    BY DEF MountsInv
  <2>3. \A a \in along : \E b \in along' : b.with = a.with /\ b.mount.at = a.mount.at
    BY <1>10, Zenon
  <2> QED
    BY <1>2, <1>15, <2>1, <2>2, <2>3, UntouchedKept
<1> QED
  BY <1>18, <1>19, <1>20, <1>21, <1>22, <1>23, <1>24, <1>25, <1>26, <1>33, <1>34 DEF MountsInv

\* The later steps of applyMount change the mount that the first has made.
LEMMA TopChanged ==
    ASSUME MountsInv, pc \in Phases, todo # <<>>, step # "mount",
           NEW x \in Mounted, x.at = table[Top].at, IsSet(table, table', Top, x),
           cfg' = cfg, pc' = pc, nodes' = nodes, leaked' = leaked, lost' = lost,
           step' \in {"mount", "remount", "spread"}, along' \subseteq Along,
           \A a \in along : \E b \in along' : b.with = a.with /\ b.mount.at = a.mount.at,
           \A b \in along' : \E a \in along : b.with = a.with /\ b.mount.at = a.mount.at
    PROVE  /\ Len(table) \in Nat /\ Len(table) \in 1..Len(table) /\ NewRoot < Len(table)
           /\ table' \in Tables /\ Len(table') = Len(table) /\ DOMAIN table' = 1..Len(table)
           /\ table'[Len(table)] = x
           /\ \A k \in 1..Len(table) : k # Len(table) => table'[k] = table[k]
           /\ \A p \in Path : Covering(table', p) = Covering(table, p)
           /\ NewRoot' = NewRoot /\ List' = List /\ RootPropagation' = RootPropagation
           /\ \A i : MadeFor(i)' = MadeFor(i) /\ Volume(i)' = Volume(i)
           /\ Top' = Len(table) /\ Pivotable(table')
           /\ TypeOK' /\ ConfInv' /\ TableInv' /\ NodesInv' /\ HostUntouched'
<1> DEFINE n == Len(table)
<1>1. /\ table \in Tables /\ n \in Nat /\ DOMAIN table = 1..n /\ NewRoot \in 1..n
      /\ \A k \in 1..n : k < NewRoot <=> ~IsBelow(table[k].at)
      /\ \A a \in along : a.with \in 1..n
  BY PhaseFacts
<1>2. NewRoot < n
  BY PositionFacts
<1>3. n \in 1..n
  BY <1>1
<1>4. x.at = table[n].at /\ IsSet(table, table', n, x)
  BY DEF Top
<1>5. /\ table' \in Tables /\ Len(table') = n /\ DOMAIN table' = 1..n /\ table'[n] = x
      /\ \A k \in 1..n : k # n => table'[k] = table[k]
      /\ \A p \in Path : Covering(table', p) = Covering(table, p)
  BY <1>1, <1>3, <1>4, SetTable
<1> HIDE DEF n
<1>6. NewRoot' = NewRoot
  BY <1>5, MonIs DEF NewRoot
<1>7. List' = List /\ RootPropagation' = RootPropagation /\ \A i : Volume(i)' = Volume(i)
  BY ConfSame
<1>8. \A i : MadeFor(i)' = MadeFor(i)
  BY <1>6 DEF MadeFor, NewRoot
<1>9. Top' = n
  BY <1>5 DEF Top
<1>10. Pivotable(table')
  <2>1. Pivotable(table)
    BY DEF MountsInv, RootInv
  <2>2. \A k \in 1..NewRoot : table'[k] = table[k]
    BY <1>1, <1>2, <1>5
  <2>3. Covering(table', MonRootfs) = Covering(table, MonRootfs)
    BY <1>5, MonIs
  <2>4. n <= n
    BY <1>1
  <2>5. Len(table) <= Len(table')
    BY <1>5, <2>4 DEF n
  <2>6. ASSUME NEW k \in 1..n, k > NewRoot PROVE IsBelow(table'[k].at)
    <3>1. ~(k < NewRoot)
      BY <1>1, <2>6
    <3>2. table'[k].at = table[k].at
      BY <1>4, <1>5
    <3> QED
      BY <1>1, <3>1, <3>2
  <2>7. \A k \in 1..Len(table') : k > Covering(table, MonRootfs) => IsBelow(table'[k].at)
    BY <1>5, <2>6 DEF NewRoot
  <2>8. \A k \in 1..Covering(table, MonRootfs) : table'[k] = table[k]
    BY <2>2 DEF NewRoot
  <2> QED
    BY <1>1, <1>5, <2>1, <2>3, <2>5, <2>7, <2>8, PivotableKept
<1>11. pc' \in Phases /\ pc' \notin {"oldslave", "unmount"}
  BY DEF Phases
<1>12. ConfInv'
  BY ConfKept DEF MountsInv
<1>13. TypeOK'
  <2>1. \A k \in DOMAIN table' : table'[k] \in Mounted
    BY <1>5 DEF Tables
  <2>2. \A y \in nodes : y.on \in DOMAIN table'
    BY <1>1, <1>5 DEF MountsInv, TypeOK
  <2>3. \A a \in along' : a.with \in DOMAIN table' /\ a.mount \in Mounted
    BY <1>1, <1>5 DEF Along
  <2> QED
    BY <1>11, <2>1, <2>2, <2>3 DEF TypeOK
<1>14. TableInv'
  BY <1>5, <1>11 DEF TableInv
<1>15. NodesInv'
  <2>1. NodesInv
    BY DEF MountsInv
  <2>2. ASSUME NEW y \in nodes PROVE Covering(table', MonRootfs \o y.path) = y.on
    <3>1. MonRootfs \o y.path \in Path
      BY <2>1, NodePathsIs, BelowMon DEF NodesInv
    <3>2. Covering(table, MonRootfs \o y.path) = y.on
      BY <2>1 DEF NodesInv, NodesVisible
    <3> QED
      BY <1>5, <3>1, <3>2
  <2>3. ASSUME NEW y \in nodes, NEW b \in along' PROVE ~IsPrefix(b.mount.at, MonRootfs \o y.path)
    <3>1. PICK a \in along : b.mount.at = a.mount.at
      OBVIOUS
    <3>2. ~IsPrefix(a.mount.at, MonRootfs \o y.path)
      BY <2>1 DEF NodesInv, NodesVisible
    <3> QED
      BY <3>1, <3>2
  <2> QED
    BY <2>1, <2>2, <2>3 DEF NodesInv, NodesVisible
<1>16. HostUntouched'
  <2>1. HostUntouched /\ cfg.mntns => \A p \in leaked' : p \in leaked \/ Excused(p)
    BY DEF MountsInv
  <2> QED
    BY <1>8, <2>1, UntouchedKept DEF MountsInv
<1> QED
  BY <1>1, <1>2, <1>3, <1>5, <1>6, <1>7, <1>8, <1>9, <1>10, <1>12, <1>13, <1>14, <1>15, <1>16 DEF n

\* What a remount leaves only depends on the flags there were.
LEMMA RemountedOf ==
    ASSUME NEW m, NEW asked PROVE Remounted(m, asked) = Remounted([flags |-> m.flags], asked)
  BY DEF Remounted

\* Nor on those, if something is asked about atime.
LEMMA RemountedAny ==
    ASSUME NEW m, NEW z, NEW asked, asked \cap AtimeFlags # {}
    PROVE  Remounted(m, asked) = Remounted(z, asked)
  BY DEF Remounted

\* The flags of the mount that a remount has changed: they come from the source,
\* or, if the mount has hidden that, from what is there now.
LEMMA RemountBindIs ==
    ASSUME MountsInv, RemountBind
    PROVE  \E x \in Mounted :
             /\ IsSet(table, table', Top, x)
             /\ x.at = table[Top].at /\ x.what = table[Top].what /\ x.group = table[Top].group
             /\ IsBindMount(Head(todo)) =>
                  \E L \in MountFlags :
                    /\ x.flags = FlagsFrom(cfg.userns, L, Head(todo))
                    /\ ~IsBelow(Head(todo).src) => L = table[Covering(table, Head(todo).src)].flags
<1> DEFINE h == Head(todo)
           y == table[Top]
           S == On(h.src).flags
           F == table[Covering(table, h.src)].flags
           r == Remounted(y, AskedFlags(h))
           z == [y EXCEPT !.flags = r]
           Comes(f) == \E L \in MountFlags : /\ f = FlagsFrom(cfg.userns, L, h)
                                             /\ ~IsBelow(h.src) => L = F
<1>1. pc \in Phases /\ todo # <<>> /\ step = "remount"
  BY DEF RemountBind
<1>2. table' = IF NeedsRemount(h) THEN [table EXCEPT ![Top].flags = r] ELSE table
  BY DEF RemountBind
<1>3. /\ table \in Tables /\ Len(table) \in Nat /\ DOMAIN table = 1..Len(table)
      /\ NewRoot \in 1..Len(table) /\ along \subseteq Along
  BY <1>1, PhaseFacts
<1>4. /\ h \in MountSpecs /\ h.src \in Path /\ h.opts \in Seq(Names)
      /\ Target(h) \in Path /\ IsBelow(Target(h))
  BY <1>1, HeadFacts, SpecIs
<1>5. Top \in 1..Len(table) /\ Top \in DOMAIN table
  BY <1>3 DEF Top
<1>6. table \in Seq(Mounted)
  BY <1>3 DEF Tables
<1>7. y \in Mounted
  BY <1>5, <1>6
<1>8. S \in MountFlags /\ y.flags \in MountFlags
  <2>1. On(h.src) \in Mounted
    BY <1>3, <1>4, OnIs
  <2> QED
    BY <1>7, <2>1 DEF Mounted
<1>9. SplitVFSFlags(h.opts) \in SUBSET VFSFlags
  BY <1>4, SplitFlags
<1>10. AskedFlags(h) = SplitVFSFlags(h.opts) \cup (IF cfg.userns THEN S ELSE {})
  BY DEF AskedFlags, UnprivilegedMountFlags
<1>11. ~IsBelow(h.src) => S = F /\ (IsBindMount(h) => y.flags = F)
  <2>1. SUFFICES ASSUME ~IsBelow(h.src) PROVE S = F /\ (IsBindMount(h) => y.flags = F)
    OBVIOUS
  <2>2. \A a \in along : IsBelow(a.mount.at)
    BY <1>1, AlongFacts
  <2>3. S = F
    BY <1>3, <1>4, <2>1, <2>2, OnOutside
  <2>4. ~IsPrefix(Target(h), h.src)
    BY <1>4, <2>1, NotAbove
  <2>5. IsBindMount(h) => y.flags = S
    BY <1>1, <2>4 DEF MountsInv, FlagsInv
  <2> QED
    BY <2>3, <2>5
<1>16. cfg.userns \in BOOLEAN
  BY DEF MountsInv, ConfInv
<1>17. SUFFICES \E x \in Mounted :
             /\ IsSet(table, table', Top, x)
             /\ x.at = y.at /\ x.what = y.what /\ x.group = y.group
             /\ IsBindMount(h) => Comes(x.flags)
  BY Zenon
<1> HIDE DEF h, S, F
<1>12. r \in MountFlags
  <2>1. AskedFlags(h) \in SUBSET VFSFlags
    BY <1>8, <1>9, <1>10 DEF MountFlags
  <2> HIDE DEF y
  <2> QED
    BY <1>8, <2>1, RemountedFlags
<1>13. IsBindMount(h) => IF NeedsRemount(h) THEN Comes(r) ELSE Comes(y.flags)
  <2>1. SUFFICES ASSUME IsBindMount(h) PROVE IF NeedsRemount(h) THEN Comes(r) ELSE Comes(y.flags)
    BY Zenon
  <2> DEFINE Y == y.flags
             opts == SplitVFSFlags(h.opts)
             asked == AskedFlags(h)
  <2>2. Y \in MountFlags /\ (~IsBelow(h.src) => Y = F /\ S = F)
    BY <1>8, <1>11, <2>1
  <2>3. r = Remounted([flags |-> Y], asked)
    BY RemountedOf, Zenon
  <2>4. NeedsRemount(h) <=> opts # {}
    BY <2>1 DEF NeedsRemount
  <2>5. \A L : FlagsFrom(cfg.userns, L, h) =
                 IF opts = {} THEN L ELSE Remounted([flags |-> L], opts \cup (IF cfg.userns THEN L ELSE {}))
    BY Zenon DEF FlagsFrom
  <2>6. CASE ~NeedsRemount(h)
    <3>1. Y = FlagsFrom(cfg.userns, Y, h)
      BY <2>4, <2>5, <2>6, Zenon
    <3> HIDE DEF Y
    <3>2. Comes(Y)
      BY <2>2, <3>1, Zenon
    <3> QED
      BY <2>6, <3>2 DEF Y
  <2>7. CASE NeedsRemount(h) /\ ~cfg.userns
    <3>1. asked = opts \cup {} /\ (IF cfg.userns THEN Y ELSE {}) = {}
      BY <1>10, <2>7
    <3>2. r = FlagsFrom(cfg.userns, Y, h)
      <4> HIDE DEF Y, opts, asked, r
      <4> QED
        BY <2>3, <2>4, <2>5, <2>7, <3>1, Zenon
    <3> HIDE DEF Y, r
    <3>3. Comes(r)
      BY <2>2, <3>2, Zenon
    <3> QED
      BY <2>7, <3>3
  <2>8. CASE NeedsRemount(h) /\ cfg.userns
    <3>1. asked = opts \cup S /\ (IF cfg.userns THEN S ELSE {}) = S
      BY <1>10, <2>8
    <3>2. asked \cap AtimeFlags # {}
      BY <1>8, <3>1 DEF MountFlags
    <3> DEFINE u == [flags |-> Y]
               w == [flags |-> S]
    <3>3. Remounted(u, asked) = Remounted(w, asked)
      <4> HIDE DEF u, w, asked
      <4> QED
        BY <3>2, RemountedAny
    <3>4. r = FlagsFrom(cfg.userns, S, h)
      <4> HIDE DEF Y, opts, asked, r
      <4> QED
        BY <2>3, <2>4, <2>5, <2>8, <3>1, <3>3, Zenon
    <3> HIDE DEF Y, r
    <3>5. Comes(r)
      BY <1>8, <2>2, <3>4, Zenon
    <3> QED
      BY <2>8, <3>5
  <2> HIDE DEF Comes, r, Y
  <2> QED
    BY <1>16, <2>6, <2>7, <2>8
<1> HIDE DEF Comes
<1>14. CASE NeedsRemount(h)
  <2> HIDE DEF r
  <2>1. z \in Mounted /\ z.at = y.at /\ z.what = y.what /\ z.group = y.group /\ z.flags = r
    <3> HIDE DEF y
    <3> QED
      BY <1>7, <1>12 DEF Mounted
  <2>2. IsBindMount(h)
    BY <1>14 DEF NeedsRemount
  <2>3. table' = [table EXCEPT ![Top] = z]
    BY <1>2, <1>5, <1>14
  <2>4. IsSet(table, table', Top, z)
    BY <2>3 DEF IsSet
  <2> HIDE DEF z, y
  <2> QED
    BY <1>13, <1>14, <2>1, <2>2, <2>4
<1>15. CASE ~NeedsRemount(h)
  <2>1. table' = [table EXCEPT ![Top] = y]
    BY <1>2, <1>5, <1>6, <1>15
  <2>2. IsSet(table, table', Top, y)
    BY <2>1 DEF IsSet
  <2> HIDE DEF y, r
  <2> QED
    BY <1>7, <1>13, <1>15, <2>2
<1> QED
  BY <1>14, <1>15

LEMMA RemountBindKeeps == ASSUME MountsInv, RemountBind PROVE MountsInv'
<1> DEFINE h == Head(todo)
           n == Len(table)
           Comes(f) == \E L \in MountFlags :
                         /\ f = FlagsFrom(cfg.userns, L, h)
                         /\ ~IsBelow(h.src) => L = table[Covering(table, h.src)].flags
<1>1. pc \in Phases /\ todo # <<>> /\ step = "remount" /\ step' = "spread"
  BY DEF RemountBind
<1>2. /\ cfg' = cfg /\ pc' = pc /\ todo' = todo /\ nodes' = nodes /\ leaked' = leaked
      /\ lost' = lost /\ along' = along
  BY DEF RemountBind, Goto
<1>3. PICK x \in Mounted :
        /\ IsSet(table, table', Top, x)
        /\ x.at = table[Top].at /\ x.what = table[Top].what /\ x.group = table[Top].group
        /\ IsBindMount(h) => Comes(x.flags)
  BY RemountBindIs, Zenon
<1> HIDE DEF Comes
<1>4. step # "mount" /\ step' \in {"mount", "remount", "spread"} /\ along' \subseteq Along
  BY <1>1, <1>2, PhaseFacts
<1>5. /\ n \in Nat /\ n \in 1..n /\ NewRoot < n
      /\ table' \in Tables /\ DOMAIN table' = 1..n /\ table'[n] = x
      /\ \A k \in 1..n : k # n => table'[k] = table[k]
      /\ \A p \in Path : Covering(table', p) = Covering(table, p)
      /\ NewRoot' = NewRoot /\ List' = List /\ RootPropagation' = RootPropagation
      /\ \A i : MadeFor(i)' = MadeFor(i) /\ Volume(i)' = Volume(i)
      /\ Top' = n /\ Pivotable(table')
      /\ TypeOK' /\ ConfInv' /\ TableInv' /\ NodesInv' /\ HostUntouched'
  <2>1. /\ \A a \in along : \E b \in along' : b.with = a.with /\ b.mount.at = a.mount.at
        /\ \A b \in along' : \E a \in along : b.with = a.with /\ b.mount.at = a.mount.at
    BY <1>2, Zenon
  <2>2. x.at = table[Top].at /\ IsSet(table, table', Top, x)
    BY <1>3
  <2> QED
    BY <1>1, <1>2, <1>4, <2>1, <2>2, TopChanged
<1>6. /\ table \in Tables /\ DOMAIN table = 1..n /\ NewRoot \in 1..n /\ cfg.volumes \in BindLists
      /\ Top = n
  BY <1>1, PhaseFacts DEF Top
<1>7. /\ h \in MountSpecs /\ h.src \in Path /\ Target(h) \in Path /\ IsBelow(Target(h))
  BY <1>1, HeadFacts, SpecIs
<1>8. table[n].at = Target(h) /\ (IsBindMount(h) => table[n].what = h.src)
  BY <1>1, <1>6 DEF MountsInv, FlagsInv
<1> HIDE DEF n, h
<1>9. Done' = Done /\ Begun = 1 /\ Begun' = 1
  BY <1>1, <1>2, <1>5 DEF Done, Begun
<1>10. pc' \in Phases /\ pc' \notin Early /\ pc' \notin {"rbind", "propagate"}
  BY <1>1, <1>2 DEF Phases, Early
<1>11. TodoInv'
  <2>1. TodoInv
    BY DEF MountsInv
  <2> QED
    BY <1>1, <1>2, <1>5, <1>9, <1>10, <2>1 DEF TodoInv
<1>12. RootInv'
  <2>1. IF pc = "mounts" THEN Top = NewRoot + Done + Begun ELSE Top >= NewRoot + Len(List) + Begun
    BY <1>1 DEF MountsInv, RootInv
  <2>2. IF pc' = "mounts" THEN Top' = NewRoot' + Done' + Begun'
        ELSE Top' >= NewRoot' + Len(List') + Begun'
    BY <1>2, <1>5, <1>6, <1>9, <2>1
  <2> QED
    BY <1>5, <1>10, <2>2 DEF RootInv
\* The mount of a source outside of the rootfs is not the one that is changed.
<1>13. ASSUME NEW p \in Path, ~IsBelow(p)
       PROVE  table'[Covering(table', p)] = table[Covering(table, p)]
  <2>1. Covering(table, p) \in 1..n /\ IsPrefix(table[Covering(table, p)].at, p)
    BY <1>6, <1>13, CoveringTable DEF n
  <2>2. ~IsPrefix(Target(h), p)
    BY <1>7, <1>13, NotAbove
  <2>3. Covering(table, p) # n
    BY <1>8, <2>1, <2>2
  <2> QED
    BY <1>5, <1>13, <2>1, <2>3
<1>14. FlagsInv'
  <2>1. ASSUME NEW i \in DOMAIN cfg.volumes, MadeFor(i) \in 1..n
        PROVE  Flagged(cfg.userns, table', Volume(i), MadeFor(i))
    <3> DEFINE m == Volume(i)
               k == MadeFor(i)
    <3> SUFFICES Flagged(cfg.userns, table', m, k)
      OBVIOUS
    <3>1. m \in MountSpecs /\ IsBindMount(m) /\ m.src \in Path
      BY <1>6, VolumeFacts, SpecIs
    <3>2. ASSUME ~IsBelow(m.src)
          PROVE  table'[Covering(table', m.src)] = table[Covering(table, m.src)]
      BY <1>13, <3>1, <3>2
    <3>3. CASE k # n
      <4>1. Flagged(cfg.userns, table, m, k)
        BY <1>1, <1>6, <2>1, <3>3 DEF MountsInv, FlagsInv
      <4>2. table'[k] = table[k]
        BY <1>5, <2>1, <3>3
      <4> HIDE DEF m, k
      <4> QED
        BY <3>2, <4>1, <4>2, FlaggedKept
    <3>4. CASE k = n
      <4>1. pc = "mounts"
        BY <1>1, <1>4, <1>5, <3>4, PositionFacts DEF n
      <4>2. n = NewRoot + Done + 1
        BY <1>1, <1>4, <4>1, PositionFacts DEF n
      <4>3. h = m
        BY <1>1, <3>4, <4>1, <4>2, PositionFacts DEF h
      <4>4. Comes(x.flags)
        BY <1>3, <3>1, <4>3
      <4>5. PICK L \in MountFlags :
              /\ x.flags = FlagsFrom(cfg.userns, L, m)
              /\ ~IsBelow(m.src) => L = table[Covering(table, m.src)].flags
        BY <4>3, <4>4, Zenon DEF Comes
      <4>6. table'[k].at = Target(m) /\ table'[k].what = m.src /\ table'[k].flags = x.flags
        BY <1>3, <1>5, <1>6, <1>8, <3>1, <3>4, <4>3, Zenon
      <4>7. ~IsBelow(m.src) => L = table'[Covering(table', m.src)].flags
        BY <3>2, <4>5
      <4> HIDE DEF m, k
      <4> QED
        BY <4>5, <4>6, <4>7, Zenon DEF Flagged
    <3> QED
      BY <3>3, <3>4
  <2>2. ASSUME NEW i \in DOMAIN cfg'.volumes, MadeFor(i)' \in DOMAIN table'
        PROVE  Flagged(cfg'.userns, table', Volume(i)', MadeFor(i)')
    <3>1. MadeFor(i)' = MadeFor(i) /\ Volume(i)' = Volume(i)
      BY <1>5
    <3>2. MadeFor(i) \in 1..n
      BY <1>5, <2>2, <3>1, Zenon
    <3>3. Flagged(cfg.userns, table', Volume(i), MadeFor(i))
      BY <1>2, <2>1, <3>2
    <3> QED
      BY <1>2, <3>1, <3>3, Zenon
  <2>3. step' # "remount" /\ table'[Top'].at = Target(Head(todo))'
    <3>1. Target(Head(todo))' = Target(h)
      BY <1>2 DEF Target, h
    <3> QED
      BY <1>1, <1>3, <1>5, <1>6, <1>8, <3>1
  <2> QED
    BY <2>2, <2>3, Zenon DEF FlagsInv
<1>15. \A k \in 1..n : table'[k].group = table[k].group /\ table'[k].at = table[k].at
  BY <1>3, <1>5, <1>6
<1>17. \A k : Settled(k)' = Settled(k)
  BY <1>1, <1>5, <1>6 DEF Settled
<1>16. GroupInv'
  <2>1. GroupInv
    BY DEF MountsInv
  <2>2. RootPropagation' \in Quiet => Sealed'
    <3>1. RootPropagation \in Quiet => Sealed
      BY <1>1, <2>1 DEF GroupInv
    <3>2. Sealed => Sealed'
      BY <1>2, <1>5, <1>6, <1>15 DEF Sealed
    <3> QED
      BY <1>5, <3>1, <3>2
  <2>3. \A k \in 1..n : k >= NewRoot /\ IsHosts(table[k].group) =>
          IF Settled(k) THEN Peer(table[k].at, k, NewRoot, cfg.volumes) ELSE IsBindMount(Head(todo))
    BY <1>1, <1>6, <2>1, Zenon DEF GroupInv
  <2>4. IsBindMount(Head(todo))' = IsBindMount(Head(todo))
    BY <1>2 DEF IsBindMount
  <2>5. \A k \in DOMAIN table' : k >= NewRoot' /\ IsHosts(table'[k].group) =>
          IF Settled(k)' THEN Peer(table'[k].at, k, NewRoot', cfg'.volumes)
          ELSE IsBindMount(Head(todo))'
    <3>1. SUFFICES ASSUME NEW k \in 1..n, k >= NewRoot, IsHosts(table'[k].group)
                   PROVE  IF Settled(k)' THEN Peer(table'[k].at, k, NewRoot', cfg'.volumes)
                          ELSE IsBindMount(Head(todo))'
      BY <1>5, Zenon
    <3>2. table'[k].group = table[k].group /\ table'[k].at = table[k].at
      BY <1>15
    <3> QED
      BY <1>2, <1>5, <1>17, <2>3, <2>4, <3>1, <3>2, Zenon
  <2> QED
    BY <2>2, <2>5, Zenon DEF GroupInv
<1>18. AlongInv'
  <2>1. \A a \in along : CameAlong(a, NewRoot, cfg.volumes, Settled(a.with))
    BY <1>1 DEF MountsInv, AlongInv
  <2>2. ASSUME NEW a \in along' PROVE CameAlong(a, NewRoot', cfg'.volumes, Settled(a.with)')
    <3>1. Settled(a.with)' = Settled(a.with)
      BY <1>1, <1>5, <1>6 DEF Settled
    <3> QED
      BY <1>2, <1>5, <2>1, <3>1, Zenon
  <2> QED
    BY <1>4, <1>10, <2>2, Zenon DEF AlongInv
<1>19. ClearInv'
  <2>1. SUFFICES ASSUME pc' \in Phases \ {"mounts"}
                 PROVE  /\ Distinct(todo', Later(pc'))
                        /\ \A k \in DOMAIN table' :
                             k > NewRoot' + 6 + Len(cfg'.volumes) /\ Settled(k)' =>
                               Clear(table'[k].at, todo', Later(pc'))
    BY Zenon DEF ClearInv
  <2>2. /\ Distinct(todo, Later(pc))
        /\ \A k \in 1..n : k > NewRoot + 6 + Len(cfg.volumes) /\ Settled(k) =>
             Clear(table[k].at, todo, Later(pc))
    BY <1>2, <1>6, <2>1, Zenon DEF MountsInv, ClearInv
  <2>3. ASSUME NEW k \in 1..n, k > NewRoot + 6 + Len(cfg.volumes), Settled(k)'
        PROVE  Clear(table'[k].at, todo, Later(pc))
    BY <1>15, <1>17, <2>2, <2>3
  <2> QED
    BY <1>2, <1>5, <2>2, <2>3, Zenon
<1> QED
  BY <1>5, <1>11, <1>12, <1>14, <1>16, <1>18, <1>19 DEF MountsInv

\* One device less to mount.
LEMMA LaterPaths == ASSUME NEW where PROVE Later(where) \in SUBSET Path
<1>1. vAccelMountPath \in Path /\ ToSet(VSockDevices) \subseteq Path
  BY NodesApart, NodePathsIs
<1> QED
  BY <1>1 DEF Later

LEMMA ClearTail ==
    ASSUME NEW q \in Seq(MountSpecs), q # <<>>, NEW S \in SUBSET Path, Distinct(q, S)
    PROVE  /\ Distinct(Tail(q), S) /\ Clear(MonRootfs \o q[1].dest, Tail(q), S)
           /\ \A at : Clear(at, q, S) => Clear(at, Tail(q), S)
<1>1. /\ Len(q) \in Nat /\ Len(q) >= 1 /\ 1 \in DOMAIN q /\ Tail(q) \in Seq(MountSpecs)
      /\ Len(Tail(q)) = Len(q) - 1 /\ \A j \in 1..(Len(q) - 1) : Tail(q)[j] = q[j + 1]
  BY HeadIs
<1> DEFINE r == Tail(q)
<1>2. ASSUME NEW j \in DOMAIN r PROVE j + 1 \in DOMAIN q /\ r[j] = q[j + 1] /\ j + 1 # 1 /\ j \in Nat
  <2>1. DOMAIN r = 1..(Len(q) - 1) /\ DOMAIN q = 1..Len(q)
    BY <1>1
  <2> QED
    BY <1>1, <2>1
<1> HIDE DEF r
<1>3. /\ \A i, j \in DOMAIN q : q[i].dest = q[j].dest => i = j
      /\ \A i \in DOMAIN q : q[i].dest \notin S
  BY Zenon DEF Distinct
<1>4. Distinct(r, S)
  <2>1. ASSUME NEW i \in DOMAIN r, NEW j \in DOMAIN r, r[i].dest = r[j].dest PROVE i = j
    <3>1. i + 1 \in DOMAIN q /\ r[i] = q[i + 1] /\ i \in Nat
      BY <1>2
    <3>2. j + 1 \in DOMAIN q /\ r[j] = q[j + 1] /\ j \in Nat
      BY <1>2
    <3>3. q[i + 1].dest = q[j + 1].dest
      BY <2>1, <3>1, <3>2, Zenon
    <3>4. i + 1 = j + 1
      BY <1>3, <3>1, <3>2, <3>3, Zenon
    <3> QED
      BY <3>1, <3>2, <3>4
  <2>2. \A i \in DOMAIN r : r[i].dest \notin S
    BY <1>2, <1>3, Zenon
  <2> QED
    BY <2>1, <2>2, Zenon DEF Distinct
<1>5. \A i \in DOMAIN q : q[i].dest \in Path
  <2>1. \A i \in DOMAIN q : q[i] \in MountSpecs
    OBVIOUS
  <2> QED
    BY <2>1, SpecIs
<1>6. Clear(MonRootfs \o q[1].dest, r, S)
  <2>1. ASSUME NEW j \in DOMAIN r PROVE MonRootfs \o q[1].dest # MonRootfs \o r[j].dest
    <3>1. j + 1 \in DOMAIN q /\ r[j] = q[j + 1] /\ j + 1 # 1
      BY <1>2
    <3>2. q[1].dest # q[j + 1].dest
      BY <1>1, <1>3, <3>1, Zenon
    <3>3. q[1].dest \in Path /\ q[j + 1].dest \in Path
      BY <1>1, <1>5, <3>1
    <3> QED
      BY <3>1, <3>2, <3>3, OwnPlace
  <2>2. ASSUME NEW d \in S PROVE MonRootfs \o q[1].dest # MonRootfs \o d
    <3>1. q[1].dest \in Path /\ d \in Path /\ q[1].dest # d
      BY <1>1, <1>3, <1>5
    <3> QED
      BY <3>1, OwnPlace
  <2> QED
    BY <2>1, <2>2, Zenon DEF Clear
<1>7. ASSUME NEW at, Clear(at, q, S) PROVE Clear(at, r, S)
  BY <1>2, <1>7, Zenon DEF Clear
<1> QED
  BY <1>4, <1>6, <1>7 DEF r

LEMMA SetPropagationKeeps == ASSUME MountsInv, SetPropagation PROVE MountsInv'
<1> DEFINE h == Head(todo)
           n == Len(table)
           x == Spread(table[n], h.opts, DOMAIN Propagation)
           After(a) == IF a.with = Top THEN [a EXCEPT !.mount = Spread(@, h.opts, Recursive)] ELSE a
<1>1. pc \in Phases /\ todo # <<>> /\ step = "spread" /\ step' = "mount" /\ todo' = Tail(todo)
  BY DEF SetPropagation
<1>2. cfg' = cfg /\ pc' = pc /\ nodes' = nodes /\ leaked' = leaked /\ lost' = lost
  BY DEF SetPropagation, Goto
<1>3. step # "mount" /\ step' \in {"mount", "remount", "spread"} /\ Top = n
  BY <1>1 DEF Top
<1>4. /\ table \in Tables /\ n \in Nat /\ DOMAIN table = 1..n /\ NewRoot \in 1..n
      /\ cfg.volumes \in BindLists /\ todo \in Seq(MountSpecs) /\ along \subseteq Along
      /\ Len(List) = Len(cfg.volumes) + 6 /\ Len(cfg.volumes) \in Nat
      /\ DOMAIN cfg.volumes = 1..Len(cfg.volumes)
      /\ \A i \in DOMAIN cfg.volumes : MadeFor(i) = NewRoot + 6 + i
  BY <1>1, PhaseFacts
<1>5. h \in MountSpecs /\ h.opts \in Seq(Names) /\ h.dest \in Path
  BY <1>1, HeadFacts, SpecIs
<1>20. Recursive \in SUBSET DOMAIN Propagation
  BY DEF Recursive, Propagation
<1>6. table[n] \in Mounted
  <2>1. n \in DOMAIN table /\ table \in Seq(Mounted)
    BY <1>4 DEF Tables
  <2> QED
    BY <2>1
<1>7. /\ x \in Mounted /\ x.at = table[n].at /\ x.what = table[n].what /\ x.flags = table[n].flags
      /\ IsHosts(x.group) => IsHosts(table[n].group) /\ AllShared(h.opts)
  <2> DEFINE y == table[n]
             o == h.opts
             D == DOMAIN Propagation
  <2>1. y \in Mounted /\ o \in Seq(Names) /\ D \in SUBSET DOMAIN Propagation
    BY <1>5, <1>6
  <2> HIDE DEF y, o, D
  <2>2. /\ Spread(y, o, D) \in Mounted /\ Spread(y, o, D).at = y.at
        /\ Spread(y, o, D).what = y.what /\ Spread(y, o, D).flags = y.flags
        /\ IsHosts(Spread(y, o, D).group) => IsHosts(y.group) /\ LeftShared(o, D)
    BY <2>1, SpreadIs, Zenon
  <2> QED
    BY <2>2, Zenon DEF y, o, D, AllShared
<1>8. IsSet(table, table', Top, x)
  BY <1>3 DEF SetPropagation, SpreadTree, IsSet
<1>21. along' = {After(a) : a \in along}
  BY DEF SetPropagation, SpreadTree
<1>22. ASSUME NEW a \in along
       PROVE  /\ After(a) \in Along /\ After(a).with = a.with /\ After(a).mount.at = a.mount.at
              /\ IsHosts(After(a).mount.group) =>
                   IsHosts(a.mount.group) /\ (a.with = n => LeftShared(h.opts, Recursive))
  <2>1. CASE a.with = Top
    <3> DEFINE y == a.mount
               o == h.opts
               z == Spread(y, o, Recursive)
    <3>1. y \in Mounted /\ o \in Seq(Names) /\ a \in Along
      BY <1>4, <1>5 DEF Along
    <3>2. After(a) = [a EXCEPT !.mount = z]
      BY <2>1
    <3> HIDE DEF y, o
    <3>3. z \in Mounted /\ z.at = y.at /\ (IsHosts(z.group) => IsHosts(y.group) /\ LeftShared(o, Recursive))
      BY <1>20, <3>1, SpreadIs, Zenon
    <3> HIDE DEF z, After
    <3>4. After(a) \in Along /\ After(a).with = a.with /\ After(a).mount = z
      BY <3>1, <3>2, <3>3 DEF Along
    <3> QED
      BY <3>3, <3>4, Zenon DEF y, o
  <2>2. CASE a.with # Top
    <3>1. After(a) = a /\ a \in Along
      BY <1>4, <2>2
    <3> HIDE DEF After
    <3> QED
      BY <1>3, <2>2, <3>1
  <2> QED
    BY <2>1, <2>2
<1> HIDE DEF x, After
<1>23. /\ along' \subseteq Along
       /\ \A a \in along : \E b \in along' : b.with = a.with /\ b.mount.at = a.mount.at
       /\ \A b \in along' : \E a \in along :
            /\ b.with = a.with /\ b.mount.at = a.mount.at
            /\ IsHosts(b.mount.group) =>
                 IsHosts(a.mount.group) /\ (a.with = n => LeftShared(h.opts, Recursive))
  <2>1. /\ \A a \in along : After(a) \in along'
        /\ \A b \in along' : \E a \in along : b = After(a)
    BY <1>21
  <2> QED
    BY <1>22, <2>1
<1>24. table[n].at = Target(h)
  BY <1>1, <1>3 DEF MountsInv, FlagsInv
<1>9. /\ n \in 1..n /\ NewRoot < n
      /\ table' \in Tables /\ DOMAIN table' = 1..n /\ table'[n] = x
      /\ \A k \in 1..n : k # n => table'[k] = table[k]
      /\ \A p \in Path : Covering(table', p) = Covering(table, p)
      /\ NewRoot' = NewRoot /\ List' = List /\ RootPropagation' = RootPropagation
      /\ \A i : MadeFor(i)' = MadeFor(i) /\ Volume(i)' = Volume(i)
      /\ Top' = n /\ Pivotable(table')
      /\ TypeOK' /\ ConfInv' /\ TableInv' /\ NodesInv' /\ HostUntouched'
  <2>1. x \in Mounted /\ x.at = table[Top].at
    BY <1>3, <1>7
  <2>2. \A b \in along' : \E a \in along : b.with = a.with /\ b.mount.at = a.mount.at
    BY <1>23
  <2> QED
    BY <1>1, <1>2, <1>3, <1>8, <1>23, <2>1, <2>2, TopChanged
<1>10. /\ Len(todo) \in Nat /\ Len(todo) >= 1 /\ Tail(todo) \in Seq(MountSpecs)
       /\ Len(Tail(todo)) = Len(todo) - 1 /\ h = todo[1]
       /\ \A j \in 1..(Len(todo) - 1) : Tail(todo)[j] = todo[j + 1]
  BY <1>1, <1>4, HeadIs
<1> HIDE DEF n, h
<1>11. Done' = Done + 1 /\ Begun = 1 /\ Begun' = 0 /\ Done \in Int
  <2>1. Len(todo') = Len(todo) - 1 /\ Len(List') = Len(List) /\ Len(List) \in Nat
    BY <1>1, <1>4, <1>9, <1>10
  <2>2. Done' = Len(List) - (Len(todo) - 1)
    BY <2>1 DEF Done
  <2>3. Done = Len(List) - Len(todo)
    BY DEF Done
  <2>4. Begun = 1 /\ Begun' = 0
    BY <1>1 DEF Begun
  <2> QED
    BY <1>10, <2>1, <2>2, <2>3, <2>4
<1>12. pc' \in Phases /\ pc' \notin Early /\ pc' \notin {"rbind", "propagate"}
  BY <1>1, <1>2 DEF Phases, Early
<1>13. pc = "mounts" => /\ Done \in Nat /\ Done + 1 \in 1..Len(List) /\ h = List[Done + 1]
                        /\ n = NewRoot + Done + 1
  BY <1>1, <1>3, HeadFacts, PositionFacts DEF h, n
<1>14. TodoInv'
  <2>1. TodoInv
    BY DEF MountsInv
  <2>2. ASSUME NEW j \in DOMAIN todo' PROVE j + 1 \in DOMAIN todo /\ todo'[j] = todo[j + 1]
    <3>1. DOMAIN todo' = 1..(Len(todo) - 1) /\ DOMAIN todo = 1..Len(todo)
      BY <1>1, <1>4, <1>10
    <3> QED
      BY <1>1, <1>10, <2>2, <3>1
  <2>3. ASSUME pc = "mounts"
        PROVE  /\ Len(todo') <= Len(List) /\ nodes = {}
               /\ \A j \in 1..Len(todo') : todo'[j] = List[Done' + j]
    <3>1. Len(todo) <= Len(List) /\ nodes = {} /\ \A j \in 1..Len(todo) : todo[j] = List[Done + j]
      BY <2>1, <2>3 DEF TodoInv
    <3>2. Len(todo') = Len(todo) - 1
      BY <1>1, <1>10
    <3>3. ASSUME NEW j \in 1..Len(todo') PROVE todo'[j] = List[Done' + j]
      <4>1. j + 1 \in 1..Len(todo) /\ todo'[j] = todo[j + 1]
        BY <1>1, <1>10, <3>2
      <4>2. Done + (j + 1) = Done' + j
        BY <1>10, <1>11, <3>2
      <4> QED
        BY <3>1, <4>1, <4>2
    <3>4. Len(todo') <= Len(List)
      BY <1>4, <1>10, <3>1, <3>2
    <3> QED
      BY <3>1, <3>3, <3>4
  <2>4. pc \in {"devices", "vdevices"} => cfg.userns
    BY <1>1, <2>1 DEF TodoInv
  <2>5. pc = "devices" =>
          \A j \in DOMAIN todo' : \E p \in ToSet(DevicePaths(TRUE)) : todo'[j] = DeviceMount(p)
    <3>1. pc = "devices" => \A j \in DOMAIN todo : \E p \in ToSet(DevicePaths(TRUE)) : todo[j] = DeviceMount(p)
      BY <2>1 DEF TodoInv
    <3> QED
      BY <2>2, <3>1
  <2>6. pc = "vsock" => \A j \in DOMAIN todo' : todo'[j] = SocketMount
    BY <2>1, <2>2, Zenon DEF TodoInv
  <2>7. pc = "vdevices" =>
          \A j \in DOMAIN todo' : \E p \in ToSet(VSockDevices) : todo'[j] = DeviceMount(p)
    <3>1. pc = "vdevices" => \A j \in DOMAIN todo : \E p \in ToSet(VSockDevices) : todo[j] = DeviceMount(p)
      BY <2>1 DEF TodoInv
    <3> QED
      BY <2>2, <3>1
  <2>8. todo' \in Seq(MountSpecs) /\ lost' = {} /\ (pc \in Early => FALSE)
    BY <1>1, <1>2, <1>10, <1>12, <2>1 DEF TodoInv
  <2> QED
    BY <1>1, <1>2, <1>9, <2>3, <2>4, <2>5, <2>6, <2>7, <2>8, Zenon DEF TodoInv
<1>15. RootInv'
  <2>1. IF pc = "mounts" THEN Top = NewRoot + Done + Begun ELSE Top >= NewRoot + Len(List) + Begun
    BY <1>1 DEF MountsInv, RootInv
  <2>2. IF pc' = "mounts" THEN Top' = NewRoot' + Done' + Begun'
        ELSE Top' >= NewRoot' + Len(List') + Begun'
    BY <1>2, <1>3, <1>4, <1>9, <1>11, <2>1
  <2> QED
    BY <1>9, <1>12, <2>2 DEF RootInv
<1>16. \A k \in 1..n : /\ table'[k].at = table[k].at /\ table'[k].what = table[k].what
                       /\ table'[k].flags = table[k].flags
  BY <1>7, <1>9
<1>17. FlagsInv'
  <2>1. ASSUME NEW i \in DOMAIN cfg.volumes, MadeFor(i) \in 1..n
        PROVE  Flagged(cfg.userns, table', Volume(i), MadeFor(i))
    <3> DEFINE m == Volume(i)
               k == MadeFor(i)
    <3> SUFFICES Flagged(cfg.userns, table', m, k)
      OBVIOUS
    <3>1. m.src \in Path
      BY <1>4, VolumeFacts, SpecIs
    <3>2. table'[Covering(table', m.src)].flags = table[Covering(table, m.src)].flags
      <4>1. Covering(table, m.src) \in 1..n /\ Covering(table', m.src) = Covering(table, m.src)
        BY <1>4, <1>9, <3>1, CoveringTable DEF n
      <4> QED
        BY <1>16, <4>1
    <3>3. Flagged(cfg.userns, table, m, k)
      BY <1>1, <1>4, <2>1 DEF MountsInv, FlagsInv
    <3>4. table'[k].at = table[k].at /\ table'[k].what = table[k].what /\ table'[k].flags = table[k].flags
      BY <1>16, <2>1
    <3> HIDE DEF m, k
    <3> QED
      BY <3>2, <3>3, <3>4, FlaggedKept
  <2>2. ASSUME NEW i \in DOMAIN cfg'.volumes, MadeFor(i)' \in DOMAIN table'
        PROVE  Flagged(cfg'.userns, table', Volume(i)', MadeFor(i)')
    <3>1. MadeFor(i)' = MadeFor(i) /\ Volume(i)' = Volume(i)
      BY <1>9
    <3>2. MadeFor(i) \in 1..n
      BY <1>9, <2>2, <3>1, Zenon
    <3>3. Flagged(cfg.userns, table', Volume(i), MadeFor(i))
      BY <1>2, <2>1, <3>2
    <3> QED
      BY <1>2, <3>1, <3>3, Zenon
  <2>3. step' = "mount"
    BY <1>1
  <2> QED
    BY <2>2, <2>3, Zenon DEF FlagsInv
<1>18. \A k \in 1..n : IsHosts(table'[k].group) => IsHosts(table[k].group)
  BY <1>7, <1>9
<1>25. \A k : Settled(k)' <=> TRUE
  BY <1>1 DEF Settled
<1>26. \A k \in 1..n : k # n => Settled(k)
  BY <1>3 DEF Settled
<1>19. GroupInv'
  <2>1. GroupInv
    BY DEF MountsInv
  <2>2. RootPropagation' \in Quiet => Sealed'
    <3>1. RootPropagation \in Quiet => Sealed
      BY <1>1, <2>1 DEF GroupInv
    <3>2. ASSUME Sealed PROVE Sealed'
      <4>1. \A k \in DOMAIN table' : ~IsHosts(table'[k].group)
        BY <1>4, <1>9, <1>18, <3>2 DEF Sealed
      <4>2. \A b \in along' : ~IsHosts(b.mount.group)
        BY <1>23, <3>2, Zenon DEF Sealed
      <4> QED
        BY <4>1, <4>2 DEF Sealed
    <3> QED
      BY <1>9, <3>1, <3>2
  <2>4. ASSUME NEW k \in 1..n, k >= NewRoot, IsHosts(table'[k].group)
        PROVE  Peer(table[k].at, k, NewRoot, cfg.volumes)
    <3>1. IsHosts(table[k].group)
      BY <1>18, <2>4
    <3>2. CASE k # n
      BY <1>1, <1>4, <1>26, <2>1, <2>4, <3>1, <3>2 DEF GroupInv
    <3>3. CASE k = n
      <4>1. AllShared(h.opts) /\ ~HasPrivate(h)
        <5>1. AllShared(h.opts)
          BY <1>7, <1>9, <2>4, <3>3
        <5> QED
          BY <5>1, PrivateNotShared
      <4>8. IsBindMount(h)
        <5>1. ~Settled(n)
          BY <1>3 DEF Settled
        <5> QED
          BY <1>1, <1>4, <2>1, <2>4, <3>1, <3>3, <5>1 DEF GroupInv, h
      <4>2. CASE pc = "mounts"
        <5>1. Done + 1 \notin 1..6
          <6>1. \A j \in 1..6 : Tame(List[j])
            BY <1>4, ListIs, Zenon DEF List
          <6>2. ASSUME Done + 1 \in 1..6 PROVE Tame(h)
            BY <1>13, <4>2, <6>1, <6>2
          <6> QED
            BY <4>1, <4>8, <6>2 DEF Tame
        <5>2. Done >= 6 /\ Done \in Nat /\ n = NewRoot + Done + 1
          BY <1>13, <4>2, <5>1
        <5>3. Done - 5 \in DOMAIN cfg.volumes /\ h = Volume(Done - 5)
          BY <1>1, <4>2, <5>2, VolumeNext DEF h
        <5>4. Volume(Done - 5).opts = cfg.volumes[Done - 5].opts
          BY <1>4, <5>3, VolumeFacts
        <5>5. n = NewRoot + 6 + (Done - 5)
          BY <1>4, <5>2
        <5> QED
          BY <3>3, <4>1, <5>3, <5>4, <5>5, Zenon DEF Peer
      <4>3. CASE pc # "mounts"
        <5>1. PICK q \in NodePaths : h = DeviceMount(q)
          BY <1>1, <4>1, <4>3, HeadFacts, SocketIs DEF h
        <5>2. table[n].at = MonRootfs \o q
          BY <1>24, <5>1, DeviceMountIs DEF Target
        <5>3. n > NewRoot + 6 + Len(cfg.volumes)
          <6>1. Top >= NewRoot + Len(List) + Begun
            BY <1>1, <4>3 DEF MountsInv, RootInv
          <6>2. n >= NewRoot + Len(List) + 1
            BY <1>3, <1>11, <6>1
          <6> DEFINE l == Len(cfg.volumes)
          <6>3. Len(List) = l + 6 /\ l \in Nat /\ NewRoot \in 1..n /\ n \in Nat
            BY <1>4
          <6> HIDE DEF l
          <6>4. n > NewRoot + 6 + l
            BY <6>2, <6>3
          <6> QED
            BY <6>4 DEF l
        <5> QED
          BY <3>3, <5>2, <5>3, Zenon DEF Peer
      <4> QED
        BY <4>2, <4>3
    <3> QED
      BY <3>2, <3>3
  <2>5. \A k \in DOMAIN table' : k >= NewRoot' /\ IsHosts(table'[k].group) =>
             IF Settled(k)' THEN Peer(table'[k].at, k, NewRoot', cfg'.volumes)
             ELSE IsBindMount(Head(todo))'
    <3>1. SUFFICES ASSUME NEW k \in 1..n, k >= NewRoot, IsHosts(table'[k].group)
                   PROVE  Peer(table'[k].at, k, NewRoot', cfg'.volumes)
      BY <1>9, <1>25, Zenon
    <3>2. Peer(table[k].at, k, NewRoot, cfg.volumes) /\ table'[k].at = table[k].at
      BY <1>16, <2>4, <3>1
    <3> QED
      BY <1>2, <1>9, <3>2, Zenon
  <2> QED
    BY <2>2, <2>5, Zenon DEF GroupInv
<1>27. AlongInv'
  <2>1. ASSUME NEW b \in along' PROVE CameAlong(b, NewRoot, cfg.volumes, TRUE)
    <3>1. PICK a \in along :
            /\ b.with = a.with /\ b.mount.at = a.mount.at
            /\ IsHosts(b.mount.group) =>
                 IsHosts(a.mount.group) /\ (a.with = n => LeftShared(h.opts, Recursive))
      BY <1>23
    <3>2. CameAlong(a, NewRoot, cfg.volumes, Settled(a.with))
      BY <1>1 DEF MountsInv, AlongInv
    <3>3. PICK i \in DOMAIN cfg.volumes :
            /\ a.with = NewRoot + 6 + i
            /\ IsPrefix(MonRootfs \o RootfsMounts(cfg.volumes)[i + 2].dest, a.mount.at)
            /\ Settled(a.with) /\ IsHosts(a.mount.group) => LeftShared(cfg.volumes[i].opts, Recursive)
      BY <3>2, Zenon DEF CameAlong
    <3>4. ASSUME IsHosts(b.mount.group) PROVE LeftShared(cfg.volumes[i].opts, Recursive)
      <4>1. CASE a.with # n
        <5>1. Settled(a.with)
          BY <1>3, <4>1 DEF Settled
        <5> QED
          BY <3>1, <3>3, <3>4, <5>1
      <4>2. CASE a.with = n
        <5>1. MadeFor(i) = n
          BY <1>4, <3>3, <4>2
        <5>2. pc = "mounts"
          <6>1. pc # "mounts" => MadeFor(i) < n
            BY <1>1, <1>3, PositionFacts DEF n
          <6> QED
            BY <1>4, <5>1, <6>1
        <5>3. h = Volume(i)
          BY <1>1, <1>3, <5>1, <5>2, PositionFacts DEF h, n
        <5>4. h.opts = cfg.volumes[i].opts
          BY <1>4, <5>3, VolumeFacts
        <5> QED
          BY <3>1, <3>4, <4>2, <5>4
      <4> QED
        BY <4>1, <4>2
    <3> QED
      BY <3>1, <3>3, <3>4, Zenon DEF CameAlong
  <2>2. ASSUME NEW b \in along' PROVE CameAlong(b, NewRoot', cfg'.volumes, Settled(b.with)')
    <3>1. Settled(b.with)' = TRUE
      BY <1>1 DEF Settled
    <3> QED
      BY <1>2, <1>9, <2>1, <3>1, Zenon
  <2> QED
    BY <1>12, <1>23, <2>2, Zenon DEF AlongInv
<1>28. ClearInv'
  <2>1. SUFFICES ASSUME pc' \in Phases \ {"mounts"}
                 PROVE  /\ Distinct(todo', Later(pc'))
                        /\ \A k \in DOMAIN table' :
                             k > NewRoot' + 6 + Len(cfg'.volumes) /\ Settled(k)' =>
                               Clear(table'[k].at, todo', Later(pc'))
    BY Zenon DEF ClearInv
  <2>2. /\ Distinct(todo, Later(pc))
        /\ \A k \in 1..n : k > NewRoot + 6 + Len(cfg.volumes) /\ Settled(k) =>
             Clear(table[k].at, todo, Later(pc))
    BY <1>2, <1>4, <2>1, Zenon DEF MountsInv, ClearInv
  <2> DEFINE S == Later(pc)
  <2>3. S \in SUBSET Path
    BY LaterPaths
  <2> HIDE DEF S
  <2>4. /\ Distinct(Tail(todo), S) /\ Clear(MonRootfs \o todo[1].dest, Tail(todo), S)
        /\ \A at : Clear(at, todo, S) => Clear(at, Tail(todo), S)
    BY <1>1, <1>4, <2>2, <2>3, ClearTail DEF S
  <2>5. table[n].at = MonRootfs \o todo[1].dest
    BY <1>10, <1>24 DEF Target
  <2>6. ASSUME NEW k \in 1..n, k > NewRoot + 6 + Len(cfg.volumes)
        PROVE  Clear(table'[k].at, Tail(todo), S)
    <3>1. CASE k = n
      BY <1>16, <2>4, <2>5, <3>1
    <3>2. CASE k # n
      <4>1. Clear(table[k].at, todo, S)
        BY <1>26, <2>2, <2>6, <3>2 DEF S
      <4> QED
        BY <1>16, <2>4, <4>1
    <3> QED
      BY <3>1, <3>2
  <2> QED
    BY <1>1, <1>2, <1>9, <2>4, <2>6, Zenon DEF S
<1> QED
  BY <1>9, <1>14, <1>15, <1>17, <1>19, <1>27, <1>28 DEF MountsInv

-----------------------------------------------------------------------------
(* The devices, and the steps that only move on.                           *)

\* The end: a call has failed, or the monitor is next.
LEMMA StopKeeps ==
    ASSUME MountsInv, pc' \in {"failed", "ready"}, cfg' = cfg, lost' = lost, todo' = todo,
           step' = step, table' = table, along' = along, nodes' = nodes, leaked' = leaked
    PROVE  MountsInv'
<1>1. /\ pc' \in {"failed", "ready"} /\ cfg' = cfg /\ lost' = lost /\ todo' = todo /\ step' = step
      /\ table' = table /\ along' = along /\ nodes' = nodes /\ leaked' = leaked
  OBVIOUS
<1>2. /\ pc' \notin Early \cup Phases
      /\ pc' \notin {"mounts", "devices", "vsock", "vdevices", "oldslave", "unmount", "private", "rbind"}
  BY <1>1 DEF Early, Phases
<1>3. ConfInv'
  BY <1>1, ConfKept DEF MountsInv
<1>4. TypeOK'
  BY <1>1 DEF MountsInv, TypeOK
<1>5. TableInv'
  BY <1>2 DEF TableInv
<1>6. TodoInv'
  BY <1>1, <1>2 DEF MountsInv, TodoInv
<1>7. NodesInv'
  <2>1. pc' # "devices"
    BY <1>2
  <2> QED
    BY <1>1, <2>1 DEF MountsInv, NodesInv, NodesVisible
<1>8. RootInv' /\ FlagsInv' /\ GroupInv' /\ AlongInv' /\ ClearInv'
  BY <1>2 DEF RootInv, FlagsInv, GroupInv, AlongInv, ClearInv
<1>9. HostUntouched'
  <2>1. \A i \in DOMAIN cfg.volumes : MadeFor(i)' = MadeFor(i)
    BY <1>1 DEF MadeFor
  <2> QED
    BY <1>1, <2>1, UntouchedKept DEF MountsInv
<1> QED
  BY <1>3, <1>4, <1>5, <1>6, <1>7, <1>8, <1>9 DEF MountsInv

\* A call that fails leaves all as it is.
LEMMA FailKeeps == ASSUME MountsInv, Fail PROVE MountsInv'
  BY StopKeeps DEF Fail, Goto

\* A step from one phase to the next, which makes device nodes or has a list of
\* further mounts.
LEMMA PhaseKept ==
    ASSUME MountsInv, pc \in Phases, todo = <<>>, pc' \in Phases \ {"mounts"},
           cfg' = cfg, table' = table, along' = along, step' = step, leaked' = leaked, lost' = lost,
           TodoInv', ClearInv',
           \A y \in nodes' : y \in nodes \/ (y.path \in NodePaths /\ y.on = Covering(table, MonRootfs \o y.path)),
           cfg.userns => \A y \in nodes' : y.path = Console,
           cfg.userns /\ pc' = "devices" => nodes' = {}
    PROVE  MountsInv'
<1>1. /\ table \in Tables /\ Len(table) \in Nat /\ DOMAIN table = 1..Len(table)
      /\ NewRoot \in 1..Len(table) /\ cfg.volumes \in BindLists
      /\ Len(List) = Len(cfg.volumes) + 6 /\ Len(cfg.volumes) \in Nat
  BY PhaseFacts
<1>2. step = "mount" /\ Begun = 0 /\ Begun' = 0
  BY DEF MountsInv, TodoInv, Begun
<1>3. List' = List /\ RootPropagation' = RootPropagation /\ \A i : Volume(i)' = Volume(i)
  BY ConfSame
<1>4. NewRoot' = NewRoot /\ Top' = Top
  BY DEF NewRoot, Top
<1>5. \A i : MadeFor(i)' = MadeFor(i)
  BY DEF MadeFor
<1>6. /\ pc' \notin Early /\ pc' # "mounts" /\ pc' \notin {"oldslave", "unmount", "rbind", "propagate"}
      /\ pc' \in Phases
  BY DEF Early, Phases
<1>7. ConfInv'
  BY ConfKept DEF MountsInv
<1>8. \A y \in nodes' : /\ y.path \in NodePaths /\ y.on \in DOMAIN table
                        /\ Covering(table, MonRootfs \o y.path) = y.on
  <2>1. TAKE y \in nodes'
  <2>2. CASE y \in nodes
    BY <2>2 DEF MountsInv, TypeOK, NodesInv, NodesVisible
  <2>3. CASE y.path \in NodePaths /\ y.on = Covering(table, MonRootfs \o y.path)
    <3>1. MonRootfs \o y.path \in Path
      BY <2>3, NodePathsIs, BelowMon
    <3>2. Covering(table, MonRootfs \o y.path) \in DOMAIN table
      BY <1>1, <3>1, CoveringTable
    <3> QED
      BY <2>3, <3>2
  <2> QED
    BY <2>2, <2>3
<1>9. TypeOK'
  <2>1. /\ \A k \in DOMAIN table : table[k] \in Mounted
        /\ \A a \in along : a.with \in DOMAIN table /\ a.mount \in Mounted
    BY DEF MountsInv, TypeOK
  <2> QED
    BY <1>2, <1>6, <1>8, <2>1 DEF TypeOK
<1>10. TableInv'
  BY <1>1, <1>6 DEF TableInv
<1>11. NodesInv'
  <2>1. ASSUME NEW y \in nodes', NEW a \in along PROVE ~IsPrefix(a.mount.at, MonRootfs \o y.path)
    <3>1. a.mount.at \in Path /\ y.path \in NodePaths
      BY <1>8, AlongFacts
    <3>2. PICK i \in DOMAIN cfg.volumes : IsPrefix(Target(Volume(i)), a.mount.at)
      BY AlongFacts
    <3>3. IsPrefix(MonRootfs \o RootfsMounts(cfg.volumes)[i + 2].dest, a.mount.at)
      BY <1>1, <3>2, VolumeFacts
    <3> QED
      BY <1>1, <3>1, <3>3, AlongOff
  <2> QED
    BY <1>8, <2>1 DEF NodesInv, NodesVisible
<1>12. RootInv'
  <2>1. Pivotable(table)
    BY DEF MountsInv, RootInv
  <2>2. IF pc = "mounts" THEN Top = NewRoot + Done + Begun ELSE Top >= NewRoot + Len(List) + Begun
    BY DEF MountsInv, RootInv
  <2>3. Done = Len(List)
    <3>1. Done = Len(List) - Len(todo) /\ Len(todo) = 0
      BY DEF Done
    <3> QED
      BY <1>1, <3>1
  <2>4. Top \in Nat
    BY <1>1 DEF Top
  <2>5. Top >= NewRoot + Len(List) + 0
    BY <1>1, <1>2, <2>2, <2>3, <2>4
  <2> QED
    BY <1>2, <1>3, <1>4, <1>6, <2>1, <2>5 DEF RootInv
<1>13. FlagsInv'
  <2>1. \A i \in DOMAIN cfg.volumes :
          MadeFor(i) \in DOMAIN table => Flagged(cfg.userns, table, Volume(i), MadeFor(i))
    BY <1>2 DEF MountsInv, FlagsInv
  <2>2. \A i \in DOMAIN cfg'.volumes :
          MadeFor(i)' \in DOMAIN table' => Flagged(cfg'.userns, table', Volume(i)', MadeFor(i)')
    BY <1>3, <1>5, <2>1, Zenon
  <2>3. step' # "remount" /\ step' = "mount"
    BY <1>2
  <2> QED
    BY <2>2, <2>3, Zenon DEF FlagsInv
<1>16. \A k : Settled(k) = TRUE /\ Settled(k)' = TRUE
  BY <1>2 DEF Settled
<1>14. GroupInv'
  <2>1. RootPropagation \in Quiet => Sealed
    BY DEF MountsInv, GroupInv
  <2>2. Sealed' = Sealed
    BY DEF Sealed
  <2>3. \A k \in DOMAIN table : k >= NewRoot /\ IsHosts(table[k].group) =>
          Peer(table[k].at, k, NewRoot, cfg.volumes)
    BY <1>16 DEF MountsInv, GroupInv
  <2>4. \A k \in DOMAIN table' : k >= NewRoot' /\ IsHosts(table'[k].group) =>
          Peer(table'[k].at, k, NewRoot', cfg'.volumes)
    BY <1>4, <2>3, Zenon
  <2>5. RootPropagation' \in Quiet => Sealed'
    BY <1>3, <2>1, <2>2, Zenon
  <2> QED
    BY <1>16, <2>4, <2>5, Zenon DEF GroupInv
<1>17. AlongInv'
  <2>1. along \subseteq Along /\ \A a \in along : CameAlong(a, NewRoot, cfg.volumes, TRUE)
    <3>1. along \subseteq Along /\ \A a \in along : CameAlong(a, NewRoot, cfg.volumes, Settled(a.with))
      BY DEF MountsInv, AlongInv
    <3> QED
      BY <1>16, <3>1, Zenon
  <2>2. \A a \in along' : CameAlong(a, NewRoot', cfg'.volumes, Settled(a.with)')
    <3> TAKE a \in along'
    <3>1. Settled(a.with)' = TRUE
      BY <1>2 DEF Settled
    <3> QED
      BY <1>4, <2>1, <3>1, Zenon
  <2> QED
    BY <1>6, <2>1, <2>2, Zenon DEF AlongInv
<1>15. HostUntouched'
  <2>1. \A i \in DOMAIN cfg.volumes : MadeFor(i)' = MadeFor(i)
    BY <1>5
  <2> QED
    BY <2>1, UntouchedKept DEF MountsInv
<1> QED
  BY <1>7, <1>9, <1>10, <1>11, <1>12, <1>13, <1>14, <1>15, <1>17 DEF MountsInv

\* What is at none of the places to come is at none of those that come first.
LEMMA ClearEnter ==
    ASSUME NEW q, NEW S, NEW T, T \subseteq S, NEW at, Clear(at, <<>>, S),
           \A j \in DOMAIN q : q[j].dest \in S
    PROVE  Clear(at, q, T)
  BY Zenon DEF Clear

LEMMA SetupDevicesIs ==
    ASSUME todo = <<>>, NEW S, S \subseteq NodePaths, NEW paths, IsPathList(paths, S),
           SetupDevices(paths)
    PROVE  /\ step' = step /\ table' = table /\ along' = along /\ leaked' = leaked
           /\ todo' \in Seq(MountSpecs) /\ (todo' # <<>> => cfg.userns)
           /\ \A j \in DOMAIN todo' : \E p \in S : todo'[j] = DeviceMount(p)
           /\ \A i, j \in DOMAIN todo' : todo'[i].dest = todo'[j].dest => i = j
           /\ cfg.userns => nodes' = nodes
           /\ \A y \in nodes' : \/ y \in nodes
                                \/ y.path \in NodePaths /\ y.on = Covering(table, MonRootfs \o y.path)
<1> DEFINE q == DeviceList(paths)
<1>1. /\ q \in Seq(MountSpecs) /\ \A j \in DOMAIN q : \E p \in S : q[j] = DeviceMount(p)
      /\ \A i, j \in DOMAIN q : q[i].dest = q[j].dest => i = j
  BY DeviceMounts, Zenon
<1>2. step' = step /\ table' = table /\ along' = along /\ leaked' = leaked
  BY DEF SetupDevices
<1>3. CASE cfg.userns
  <2>1. todo' = q /\ nodes' = nodes
    BY <1>3 DEF SetupDevices, DeviceList
  <2> HIDE DEF q
  <2> QED
    BY <1>1, <1>2, <1>3, <2>1
<1>4. CASE ~cfg.userns
  <2>1. /\ todo' = <<>>
        /\ nodes' = nodes \cup
             {[path |-> paths[i], on |-> Covering(table, MonRootfs \o paths[i])] : i \in DOMAIN paths}
    BY <1>4 DEF SetupDevices
  <2>2. \A i \in DOMAIN paths : paths[i] \in NodePaths
    BY DEF IsPathList
  <2>3. ASSUME NEW y \in nodes', y \notin nodes
        PROVE  y.path \in NodePaths /\ y.on = Covering(table, MonRootfs \o y.path)
    <3>1. PICK i \in DOMAIN paths : y = [path |-> paths[i], on |-> Covering(table, MonRootfs \o paths[i])]
      BY <2>1, <2>3
    <3>2. y.path = paths[i] /\ y.on = Covering(table, MonRootfs \o paths[i])
      BY <3>1
    <3> QED
      BY <2>2, <3>2
  <2>4. todo' \in Seq(MountSpecs) /\ \A j \in DOMAIN todo' : FALSE
    BY <2>1
  <2> QED
    BY <1>2, <1>4, <2>1, <2>3, <2>4
<1> QED
  BY <1>3, <1>4

LEMMA MonitorDevicesKeeps == ASSUME MountsInv, MonitorDevices PROVE MountsInv'
<1>1. pc = "mounts" /\ todo = <<>> /\ SetupDevices(DevicePaths(cfg.tap))
  BY DEF MonitorDevices
<1>2. pc' = "devices" /\ cfg' = cfg /\ lost' = lost
  BY DEF MonitorDevices, Goto
<1>3. IsPathList(DevicePaths(cfg.tap), ToSet(DevicePaths(TRUE)))
  <2>1. cfg.tap = TRUE \/ cfg.tap = FALSE
    BY DEF MountsInv, ConfInv
  <2> QED
    BY <2>1, DeviceLists, Zenon
<1>4. /\ step' = step /\ table' = table /\ along' = along /\ leaked' = leaked
      /\ todo' \in Seq(MountSpecs) /\ (todo' # <<>> => cfg.userns)
      /\ \A j \in DOMAIN todo' : \E p \in ToSet(DevicePaths(TRUE)) : todo'[j] = DeviceMount(p)
      /\ \A i, j \in DOMAIN todo' : todo'[i].dest = todo'[j].dest => i = j
      /\ cfg.userns => nodes' = nodes
      /\ \A y \in nodes' : \/ y \in nodes
                           \/ y.path \in NodePaths /\ y.on = Covering(table, MonRootfs \o y.path)
  BY <1>1, <1>3, NodePathsIs, SetupDevicesIs
<1>5. pc \in Phases /\ pc' \in Phases \ {"mounts"} /\ pc' \notin Early
  BY <1>1, <1>2 DEF Phases, Early
<1>6. nodes = {} /\ lost = {} /\ step = "mount"
  BY <1>1, <1>5 DEF MountsInv, TodoInv
<1>7. TodoInv'
  BY <1>2, <1>4, <1>5, <1>6 DEF TodoInv
\* The list has been mounted, and nothing else yet.
<1>8. ClearInv'
  <2>1. \A k \in DOMAIN table : ~(k > NewRoot + 6 + Len(cfg.volumes))
    <3> DEFINE l == Len(cfg.volumes)
               n == Len(table)
    <3>1. DOMAIN table = 1..n /\ n \in Nat /\ NewRoot \in 1..n /\ Len(List) = l + 6 /\ l \in Nat
      BY <1>5, PhaseFacts
    <3>2. n = NewRoot + Done + Begun
      BY <1>1, <1>5 DEF MountsInv, RootInv, Top
    <3>3. Begun = 0
      BY <1>6 DEF Begun
    <3>4. Done = Len(List) - 0
      BY <1>1 DEF Done
    <3> HIDE DEF l, n
    <3>5. n = NewRoot + 6 + l
      BY <3>1, <3>2, <3>3, <3>4
    <3>6. \A k \in DOMAIN table : ~(k > NewRoot + 6 + l)
      BY <3>1, <3>5
    <3> QED
      BY <3>6 DEF l
  <2>2. NewRoot' = NewRoot
    BY <1>4 DEF NewRoot
  <2>3. \A k \in DOMAIN table' : ~(k > NewRoot' + 6 + Len(cfg'.volumes))
    BY <1>2, <1>4, <2>1, <2>2, Zenon
  <2>4. Distinct(todo', Later(pc'))
    <3>1. Later(pc') = {vAccelMountPath} \cup ToSet(VSockDevices)
      BY <1>2 DEF Later
    <3>2. ASSUME NEW j \in DOMAIN todo' PROVE todo'[j].dest \notin Later(pc')
      <4>1. PICK q \in ToSet(DevicePaths(TRUE)) : todo'[j] = DeviceMount(q)
        BY <1>4
      <4>2. q \in NodePaths /\ q \notin ToSet(VSockDevices)
        BY NodePathsIs
      <4>3. todo'[j].dest = q /\ q # vAccelMountPath
        BY <4>1, <4>2, DeviceMountIs, NodesApart
      <4> QED
        BY <3>1, <4>2, <4>3
    <3> QED
      BY <1>4, <3>2, Zenon DEF Distinct
  <2> QED
    BY <2>3, <2>4, Zenon DEF ClearInv
<1> QED
  BY <1>1, <1>2, <1>4, <1>5, <1>6, <1>7, <1>8, PhaseKept

LEMMA PrepareVSockKeeps == ASSUME MountsInv, PrepareVSockEnvironment PROVE MountsInv'
<1> DEFINE c == [path |-> Console, on |-> Covering(table, MonRootfs \o Console)]
<1>1. /\ pc = "devices" /\ todo = <<>> /\ nodes' = nodes \cup {c}
      /\ step' = step /\ table' = table /\ along' = along /\ leaked' = leaked
      /\ todo' = IF cfg.vaccel THEN <<SocketMount>> ELSE <<>>
  BY DEF PrepareVSockEnvironment, SocketMount
<1>2. pc' = "vsock" /\ cfg' = cfg /\ lost' = lost
  BY DEF PrepareVSockEnvironment, Goto
<1>3. c.path = Console /\ c.on = Covering(table, MonRootfs \o Console) /\ Console \in NodePaths
  BY NodePathsIs
<1> HIDE DEF c
<1>4. /\ pc \in Phases /\ pc' \in Phases \ {"mounts"} /\ pc' \notin Early
      /\ pc \in Phases \ {"mounts"}
  BY <1>1, <1>2 DEF Phases, Early
<1>5. lost = {} /\ step = "mount"
  BY <1>1, <1>4 DEF MountsInv, TodoInv
<1>6. todo' \in Seq(MountSpecs) /\ \A j \in DOMAIN todo' : todo'[j] = SocketMount
  <2>1. CASE cfg.vaccel
    <3> DEFINE m == SocketMount
    <3>1. m \in MountSpecs /\ todo' = <<m>>
      BY <1>1, <2>1, SocketIs
    <3> HIDE DEF m
    <3>2. todo' \in Seq(MountSpecs) /\ \A j \in DOMAIN todo' : todo'[j] = m
      BY <3>1
    <3> QED
      BY <3>2 DEF m
  <2>2. CASE ~cfg.vaccel
    BY <1>1, <2>2
  <2> QED
    BY <2>1, <2>2
<1>7. TodoInv'
  BY <1>1, <1>2, <1>4, <1>5, <1>6 DEF TodoInv
<1>8. \A y \in nodes' : \/ y \in nodes
                        \/ y.path \in NodePaths /\ y.on = Covering(table, MonRootfs \o y.path)
  BY <1>1, <1>3
<1>9. cfg.userns => \A y \in nodes' : y.path = Console
  BY <1>1, <1>3 DEF MountsInv, NodesInv
<1>10. pc' # "devices"
  BY <1>2
<1>11. ClearInv'
  <2> DEFINE S == {vAccelMountPath} \cup ToSet(VSockDevices)
  <2>1. Later(pc) = S /\ Later(pc') = ToSet(VSockDevices)
    BY <1>1, <1>2 DEF Later
  <2>2. \A j \in DOMAIN todo' : todo'[j].dest = vAccelMountPath
    BY <1>6, SocketIs
  <2>3. vAccelMountPath \notin ToSet(VSockDevices)
    BY NodesApart, NodePathsIs
  <2>4. Distinct(todo', Later(pc'))
    <3>1. \A i, j \in DOMAIN todo' : i = j
      <4>1. Len(todo') = 0 \/ Len(todo') = 1
        BY <1>1
      <4>2. DOMAIN todo' = 1..Len(todo')
        BY <1>6
      <4>3. DOMAIN todo' = 1..0 \/ DOMAIN todo' = 1..1
        BY <4>1, <4>2
      <4> QED
        BY <4>3
    <3> QED
      BY <2>1, <2>2, <2>3, <3>1, Zenon DEF Distinct
  <2>5. ASSUME NEW k \in DOMAIN table, k > NewRoot + 6 + Len(cfg.volumes)
        PROVE  Clear(table[k].at, todo', Later(pc'))
    <3>1. Settled(k)
      BY <1>5 DEF Settled
    <3>2. Clear(table[k].at, <<>>, S)
      BY <1>1, <1>4, <2>1, <2>5, <3>1, Zenon DEF MountsInv, ClearInv
    <3>3. ToSet(VSockDevices) \subseteq S /\ \A j \in DOMAIN todo' : todo'[j].dest \in S
      BY <2>2
    <3> HIDE DEF S
    <3> QED
      BY <2>1, <3>2, <3>3, ClearEnter
  <2>6. NewRoot' = NewRoot
    BY <1>1 DEF NewRoot
  <2> QED
    BY <1>1, <1>2, <2>4, <2>5, <2>6, Zenon DEF ClearInv
<1> QED
  BY <1>1, <1>2, <1>4, <1>7, <1>8, <1>9, <1>10, <1>11, PhaseKept

LEMMA VAccelDevicesKeeps == ASSUME MountsInv, VAccelDevices PROVE MountsInv'
<1> DEFINE paths == IF cfg.vaccel THEN VSockDevices ELSE <<>>
<1>1. pc = "vsock" /\ todo = <<>> /\ SetupDevices(paths)
  BY DEF VAccelDevices
<1>2. pc' = "vdevices" /\ cfg' = cfg /\ lost' = lost
  BY DEF VAccelDevices, Goto
<1>3. IsPathList(paths, ToSet(VSockDevices))
  BY DeviceLists
<1> HIDE DEF paths
<1>4. /\ step' = step /\ table' = table /\ along' = along /\ leaked' = leaked
      /\ todo' \in Seq(MountSpecs) /\ (todo' # <<>> => cfg.userns)
      /\ \A j \in DOMAIN todo' : \E p \in ToSet(VSockDevices) : todo'[j] = DeviceMount(p)
      /\ \A i, j \in DOMAIN todo' : todo'[i].dest = todo'[j].dest => i = j
      /\ cfg.userns => nodes' = nodes
      /\ \A y \in nodes' : \/ y \in nodes
                           \/ y.path \in NodePaths /\ y.on = Covering(table, MonRootfs \o y.path)
  BY <1>1, <1>3, NodePathsIs, SetupDevicesIs
<1>5. /\ pc \in Phases /\ pc' \in Phases \ {"mounts"} /\ pc' \notin Early
      /\ pc \in Phases \ {"mounts"}
  BY <1>1, <1>2 DEF Phases, Early
<1>6. lost = {} /\ step = "mount"
  BY <1>1, <1>5 DEF MountsInv, TodoInv
<1>7. TodoInv'
  BY <1>2, <1>4, <1>5, <1>6 DEF TodoInv
<1>8. cfg.userns => \A y \in nodes' : y.path = Console
  BY <1>4 DEF MountsInv, NodesInv
<1>9. pc' # "devices"
  BY <1>2
<1>10. ClearInv'
  <2> DEFINE S == ToSet(VSockDevices)
  <2>1. Later(pc) = S /\ Later(pc') = {}
    BY <1>1, <1>2 DEF Later
  <2>2. ASSUME NEW j \in DOMAIN todo' PROVE todo'[j].dest \in S
    <3>1. PICK q \in S : todo'[j] = DeviceMount(q)
      BY <1>4
    <3>2. q \in NodePaths
      BY NodePathsIs
    <3> QED
      BY <3>1, <3>2, DeviceMountIs
  <2>3. Distinct(todo', Later(pc'))
    BY <1>4, <2>1 DEF Distinct
  <2>4. ASSUME NEW k \in DOMAIN table, k > NewRoot + 6 + Len(cfg.volumes)
        PROVE  Clear(table[k].at, todo', Later(pc'))
    <3>1. Settled(k)
      BY <1>6 DEF Settled
    <3>2. Clear(table[k].at, <<>>, S)
      BY <1>1, <1>5, <2>1, <2>4, <3>1, Zenon DEF MountsInv, ClearInv
    <3> HIDE DEF S
    <3> QED
      BY <2>1, <2>2, <3>2, ClearEnter
  <2>5. NewRoot' = NewRoot
    BY <1>4 DEF NewRoot
  <2> QED
    BY <1>2, <1>4, <2>3, <2>4, <2>5, Zenon DEF ClearInv
<1> QED
  BY <1>1, <1>2, <1>4, <1>5, <1>7, <1>8, <1>9, <1>10, PhaseKept

-----------------------------------------------------------------------------
(* changeRoot.                                                             *)

LEMMA PivotRootKeeps == ASSUME MountsInv, PivotRoot PROVE MountsInv'
<1> DEFINE n == Len(table)
           D == {j \in DOMAIN table : IsBelow(table[j].at)}
           E == {j \in DOMAIN table : ~IsBelow(table[j].at)}
<1>1. pc = "vdevices" /\ pc' = "oldslave"
  BY DEF PivotRoot
<1>2. table' = [k \in D |-> table[k]] /\ old' = [k \in E |-> table[k]]
  BY DEF PivotRoot
<1>3. /\ cfg' = cfg /\ todo' = todo /\ step' = step /\ nodes' = nodes /\ leaked' = leaked
      /\ lost' = lost /\ along' = along
  BY DEF PivotRoot
<1>4. pc \in Phases
  BY <1>1 DEF Phases
<1>5. /\ table \in Tables /\ n \in Nat /\ DOMAIN table = 1..n /\ NewRoot \in 1..n
      /\ table[NewRoot].at = MonRootfs
      /\ \A k \in 1..n : k < NewRoot <=> ~IsBelow(table[k].at)
  BY <1>4, PhaseFacts
<1>6. D \subseteq 1..n /\ E \subseteq 1..n /\ D \subseteq DOMAIN table
  BY <1>5
<1>7. \A k \in 1..n : table[k] \in Mounted /\ table[k].at \in Path
  <2>1. table \in Seq(Mounted)
    BY <1>5 DEF Tables
  <2>2. \A k \in 1..n : table[k] \in Mounted
    BY <1>5, <2>1
  <2> QED
    BY <2>2, AtIs
<1>8. 1 \in E /\ table[1].at = <<>>
  <2>1. Pivotable(table)
    BY <1>4 DEF MountsInv, RootInv
  <2>2. 1 < NewRoot
    BY <2>1, Zenon DEF Pivotable, NewRoot
  <2>3. 1 \in DOMAIN table /\ table[1].at = <<>>
    BY <1>5 DEF Tables
  <2> QED
    BY <1>5, <2>2, <2>3
\* So are those that came along with others.
<1>20. ASSUME NEW a \in along PROVE a.with \in D
  <2>1. PICK i \in DOMAIN cfg.volumes : a.with = MadeFor(i)
    BY <1>4, AlongFacts
  <2>2. MadeFor(i) = NewRoot + 6 + i /\ i \in Nat /\ a.with \in 1..n
    BY <1>4, PhaseFacts
  <2>3. ~(a.with < NewRoot)
    BY <1>5, <2>1, <2>2
  <2> QED
    BY <1>5, <2>2, <2>3
<1>21. NewRoot \in D
  <2>1. ~(NewRoot < NewRoot)
    BY <1>5
  <2> QED
    BY <1>5, <2>1
\* The device nodes are on mounts that stay.
<1>9. ASSUME NEW y \in nodes
      PROVE  /\ MonRootfs \o y.path \in Path /\ Covering(table, MonRootfs \o y.path) = y.on
             /\ y.on \in D
  <2>1. MonRootfs \o y.path \in Path /\ IsBelow(MonRootfs \o y.path)
    BY NodePathsIs, BelowMon DEF MountsInv, NodesInv
  <2>2. Covering(table, MonRootfs \o y.path) = y.on /\ y.on \in DOMAIN table
    BY DEF MountsInv, NodesInv, NodesVisible, TypeOK
  <2>3. IsBelow(table[Covering(table, MonRootfs \o y.path)].at)
    BY <1>5, <2>1, CoveringBelow
  <2> QED
    BY <2>1, <2>2, <2>3
<1>10. \A k \in D : IsBelow(table[k].at)
  OBVIOUS
<1> HIDE DEF D, E
<1>11. /\ DOMAIN table' = D /\ \A k \in D : table'[k] = table[k]
       /\ DOMAIN old' = E /\ \A k \in E : old'[k] = table[k]
  BY <1>2
<1>12. /\ pc' \notin Early \cup Phases
       /\ pc' \notin {"mounts", "devices", "vsock", "vdevices", "unmount", "private", "rbind"}
  BY <1>1 DEF Early, Phases
<1>13. ConfInv'
  BY <1>3, ConfKept DEF MountsInv
<1>14. TypeOK'
  <2>1. \A k \in DOMAIN table' : table'[k] \in Mounted
    BY <1>6, <1>7, <1>11
  <2>2. \A y \in nodes' : y.on \in DOMAIN table'
    BY <1>3, <1>9, <1>11
  <2>3. step \in {"mount", "remount", "spread"}
    BY DEF MountsInv, TypeOK
  <2>4. \A a \in along' : a.with \in DOMAIN table' /\ a.mount \in Mounted
    <3>1. \A a \in along : a.mount \in Mounted
      BY DEF MountsInv, TypeOK
    <3> QED
      BY <1>3, <1>11, <1>20, <3>1
  <2> QED
    BY <1>1, <1>3, <2>1, <2>2, <2>3, <2>4 DEF TypeOK
<1>15. TableInv'
  <2>1. Placed(old')
    <3>1. \E N \in Nat : DOMAIN old' \subseteq 1..N
      BY <1>5, <1>6, <1>11
    <3>2. \A k \in DOMAIN old' : old'[k].at \in Path
      BY <1>6, <1>7, <1>11
    <3> QED
      BY <3>1, <3>2 DEF Placed
  <2>2. \A k \in DOMAIN old' : old'[k] \in Mounted
    BY <1>6, <1>7, <1>11
  <2>3. 1 \in DOMAIN old' /\ old'[1].at = <<>>
    BY <1>8, <1>11
  <2> QED
    BY <1>12, <2>1, <2>2, <2>3 DEF TableInv
<1>16. TodoInv'
  BY <1>3, <1>12 DEF MountsInv, TodoInv
<1>17. NodesInv'
  <2>1. NodesInv
    BY DEF MountsInv
  <2>2. ASSUME NEW y \in nodes PROVE Covering(table', MonRootfs \o y.path) = y.on
    <3> DEFINE p == MonRootfs \o y.path
    <3>1. p \in Path /\ Covering(table, p) \in DOMAIN table' /\ Covering(table, p) = y.on
      BY <1>9, <1>11
    <3>2. Placed(table) /\ OnSome(table, p)
      BY <1>5, <3>1, TablePlaced
    <3>3. DOMAIN table' \subseteq DOMAIN table /\ \A k \in DOMAIN table' : table'[k] = table[k]
      BY <1>6, <1>11
    <3> HIDE DEF p
    <3>4. Covering(table', p) = Covering(table, p)
      BY <3>1, <3>2, <3>3, CoveringPart
    <3> QED
      BY <3>1, <3>4 DEF p
  <2>3. pc' # "devices"
    BY <1>12
  <2> QED
    BY <1>3, <2>1, <2>2, <2>3 DEF NodesInv, NodesVisible
<1>18. RootInv' /\ FlagsInv' /\ GroupInv' /\ AlongInv' /\ ClearInv'
  BY <1>12 DEF RootInv, FlagsInv, GroupInv, AlongInv, ClearInv
<1>19. HostUntouched'
  <2>1. Placed(table) /\ OnSome(table, MonRootfs) /\ MonRootfs \in Path
    BY <1>5, MonIs, TablePlaced
  <2>2. DOMAIN table' \subseteq DOMAIN table /\ \A k \in DOMAIN table' : table'[k] = table[k]
    BY <1>6, <1>11
  <2>3. Covering(table, MonRootfs) \in DOMAIN table'
    BY <1>11, <1>21 DEF NewRoot
  <2>4. Covering(table', MonRootfs) = Covering(table, MonRootfs)
    BY <2>1, <2>2, <2>3, CoveringPart
  <2>5. \A i \in DOMAIN cfg.volumes : MadeFor(i)' = MadeFor(i)
    BY <2>4 DEF MadeFor
  <2> QED
    BY <1>3, <2>5, UntouchedKept DEF MountsInv
<1> QED
  BY <1>13, <1>14, <1>15, <1>16, <1>17, <1>18, <1>19 DEF MountsInv

LEMMA OldRootSlaveKeeps == ASSUME MountsInv, OldRootSlave PROVE MountsInv'
<1>1. pc = "oldslave" /\ pc' = "unmount"
  BY DEF OldRootSlave
<1>2. old' = [k \in DOMAIN old |-> Make(old[k], "slave")]
  BY DEF OldRootSlave
<1>3. /\ cfg' = cfg /\ todo' = todo /\ step' = step /\ table' = table /\ nodes' = nodes
      /\ leaked' = leaked /\ lost' = lost /\ along' = along
  BY DEF OldRootSlave
<1>4. /\ Placed(old) /\ (\A k \in DOMAIN old : old[k] \in Mounted)
      /\ 1 \in DOMAIN old /\ old[1].at = <<>>
  BY <1>1 DEF MountsInv, TableInv
<1>5. DOMAIN old' = DOMAIN old /\ \A k \in DOMAIN old : old'[k] = Make(old[k], "slave")
  BY <1>2
<1>6. \A k \in DOMAIN old : old'[k] \in Mounted /\ old'[k].at = old[k].at /\ old'[k].group = "none"
  BY <1>4, <1>5, MakeIs
<1>7. /\ pc' \notin Early \cup Phases
      /\ pc' \notin {"mounts", "devices", "vsock", "vdevices", "private", "rbind"}
  BY <1>1 DEF Early, Phases
<1>8. TableInv'
  <2>1. Placed(old')
    BY <1>4, <1>5, <1>6 DEF Placed
  <2>2. 1 \in DOMAIN old' /\ old'[1].at = <<>>
    BY <1>4, <1>5, <1>6
  <2>3. \A k \in DOMAIN old' : old'[k] \in Mounted /\ old'[k].group = "none"
    BY <1>5, <1>6
  <2> QED
    BY <1>7, <2>1, <2>2, <2>3 DEF TableInv
<1>9. ConfInv'
  BY <1>3, ConfKept DEF MountsInv
<1>10. TypeOK'
  BY <1>1, <1>3 DEF MountsInv, TypeOK
<1>11. TodoInv'
  BY <1>3, <1>7 DEF MountsInv, TodoInv
<1>12. NodesInv'
  <2>1. pc' # "devices"
    BY <1>7
  <2> QED
    BY <1>3, <2>1 DEF MountsInv, NodesInv, NodesVisible
<1>13. RootInv' /\ FlagsInv' /\ GroupInv' /\ AlongInv' /\ ClearInv'
  BY <1>7 DEF RootInv, FlagsInv, GroupInv, AlongInv, ClearInv
<1>14. HostUntouched'
  <2>1. \A i \in DOMAIN cfg.volumes : MadeFor(i)' = MadeFor(i)
    BY <1>3 DEF MadeFor
  <2> QED
    BY <1>3, <2>1, UntouchedKept DEF MountsInv
<1> QED
  BY <1>8, <1>9, <1>10, <1>11, <1>12, <1>13, <1>14 DEF MountsInv

LEMMA UnmountOldRootKeeps == ASSUME MountsInv, UnmountOldRoot PROVE MountsInv'
<1>1. pc = "unmount" /\ pc' = "ready"
  BY DEF UnmountOldRoot
<1>2. /\ cfg' = cfg /\ todo' = todo /\ step' = step /\ table' = table /\ nodes' = nodes
      /\ leaked' = leaked /\ along' = along
  BY DEF UnmountOldRoot
<1>3. /\ Placed(old) /\ (\A k \in DOMAIN old : old[k] \in Mounted /\ old[k].group = "none")
      /\ 1 \in DOMAIN old /\ old[1].at = <<>>
  BY <1>1 DEF MountsInv, TableInv
\* None of the parents is a peer of the host's any more.
<1>4. ASSUME NEW j \in DOMAIN old, old[j].at # <<>> PROVE ~IsHosts(ParentOf(old, j).group)
  <2> DEFINE b == Before(old, j)
             p == old[j].at
  <2>1. p \in Path /\ j \in Nat /\ 1 < j
    <3>1. PICK N \in Nat : DOMAIN old \subseteq 1..N
      BY <1>3 DEF Placed
    <3>2. j \in 1..N /\ j # 1
      BY <1>3, <1>4, <3>1
    <3> QED
      BY <1>3, <3>2, AtIs
  <2>2. /\ DOMAIN b = {i \in DOMAIN old : i < j} /\ \A i \in DOMAIN b : b[i] = old[i]
    BY DEF Before
  <2> HIDE DEF b, p
  <2>3. DOMAIN b \subseteq DOMAIN old /\ 1 \in DOMAIN b
    BY <1>3, <2>1, <2>2
  <2>4. Placed(b)
    BY <1>3, <2>2, <2>3 DEF Placed
  <2>5. OnSome(b, p)
    <3>1. b[1].at = <<>>
      BY <1>3, <2>2, <2>3
    <3>2. IsPrefix(<<>>, p)
      BY <2>1, PrefixConcat
    <3> QED
      BY <2>3, <3>1, <3>2 DEF OnSome
  <2>6. Covering(b, p) \in DOMAIN b
    BY <2>1, <2>4, <2>5, CoveringIs
  <2>7. ParentOf(old, j) = old[Covering(b, p)]
    BY DEF ParentOf, b, p
  <2>8. ParentOf(old, j).group = "none"
    BY <1>3, <2>3, <2>6, <2>7
  <2> QED
    BY <2>8 DEF IsHosts
<1>5. lost' = {} /\ lost = {}
  <2>1. lost' = {old[k].at : k \in {j \in DOMAIN old : old[j].at # <<>> /\ IsHosts(ParentOf(old, j).group)}}
    BY DEF UnmountOldRoot
  <2>2. {j \in DOMAIN old : old[j].at # <<>> /\ IsHosts(ParentOf(old, j).group)} = {}
    BY <1>4
  <2>3. lost' = {}
    BY <2>1, <2>2
  <2> QED
    BY <2>3 DEF MountsInv, TodoInv
<1> QED
  BY <1>1, <1>2, <1>5, StopKeeps

LEMMA ChrootKeeps == ASSUME MountsInv, Chroot PROVE MountsInv'
  BY StopKeeps DEF Chroot, Goto

LEMMA MountsInvNext == ASSUME MountsInv, [Next]_vars PROVE MountsInv'
<1>1. CASE PrepareRoot
  BY <1>1, PrepareRootKeeps
<1>2. CASE RootfsParentMountPrivate
  BY <1>2, RootfsParentKeeps
<1>3. CASE PrepareRootBind
  BY <1>3, PrepareRootBindKeeps
<1>4. CASE ApplyMount
  BY <1>4, ApplyMountKeeps
<1>5. CASE BindRefused \/ RemountRefused \/ StepFails
  BY <1>5, FailKeeps DEF BindRefused, RemountRefused, StepFails
<1>6. CASE RemountBind
  BY <1>6, RemountBindKeeps
<1>7. CASE SetPropagation
  BY <1>7, SetPropagationKeeps
<1>8. CASE MonitorDevices
  BY <1>8, MonitorDevicesKeeps
<1>9. CASE PrepareVSockEnvironment
  BY <1>9, PrepareVSockKeeps
<1>10. CASE VAccelDevices
  BY <1>10, VAccelDevicesKeeps
<1>11. CASE PivotRoot
  BY <1>11, PivotRootKeeps
<1>12. CASE OldRootSlave
  BY <1>12, OldRootSlaveKeeps
<1>13. CASE UnmountOldRoot
  BY <1>13, UnmountOldRootKeeps
<1>14. CASE Chroot
  BY <1>14, ChrootKeeps
<1>15. CASE UNCHANGED vars
  <2>1. /\ cfg' = cfg /\ pc' = pc /\ todo' = todo /\ step' = step /\ table' = table
        /\ along' = along /\ old' = old /\ nodes' = nodes /\ leaked' = leaked /\ lost' = lost
    BY <1>15 DEF vars
  <2>2. TypeOK' /\ ConfInv'
    BY <2>1, ConfKept DEF MountsInv, TypeOK
  <2>3. TableInv'
    BY <2>1 DEF MountsInv, TableInv
  <2>4. NodesInv'
    BY <2>1 DEF MountsInv, NodesInv, NodesVisible
  <2>5. TodoInv' /\ RootInv'
    BY <2>1 DEF MountsInv, TodoInv, RootInv, Done, List, Begun, NewRoot, Top
  <2>6. /\ Top' = Top /\ NewRoot' = NewRoot /\ Sealed' = Sealed /\ RootPropagation' = RootPropagation
        /\ \A i : MadeFor(i)' = MadeFor(i) /\ Volume(i)' = Volume(i)
        /\ \A k : Settled(k)' = Settled(k)
    BY <2>1 DEF Top, NewRoot, Sealed, RootPropagation, MadeFor, Volume, Settled
  <2>7. FlagsInv'
    <3>1. Target(Head(todo))' = Target(Head(todo)) /\ IsBindMount(Head(todo))' = IsBindMount(Head(todo))
      BY <2>1 DEF Target, IsBindMount
    <3>2. On(Head(todo).src)' = On(Head(todo).src)
      BY <2>1 DEF On
    <3> QED
      BY <2>1, <2>6, <3>1, <3>2, Zenon DEF MountsInv, FlagsInv
  <2>8. GroupInv'
    <3>1. IsBindMount(Head(todo))' = IsBindMount(Head(todo))
      BY <2>1 DEF IsBindMount
    <3> QED
      BY <2>1, <2>6, <3>1, Zenon DEF MountsInv, GroupInv
  <2>9. AlongInv' /\ ClearInv'
    BY <2>1, <2>6, Zenon DEF MountsInv, AlongInv, ClearInv
  <2>10. HostUntouched'
    <3>1. \A i \in DOMAIN cfg.volumes : MadeFor(i)' = MadeFor(i)
      BY <2>6
    <3> QED
      BY <2>1, <3>1, UntouchedKept DEF MountsInv
  <2> QED
    BY <2>2, <2>3, <2>4, <2>5, <2>7, <2>8, <2>9, <2>10 DEF MountsInv
<1> QED
  BY <1>1, <1>2, <1>3, <1>4, <1>5, <1>6, <1>7, <1>8, <1>9, <1>10, <1>11, <1>12, <1>13,
     <1>14, <1>15 DEF Next

-----------------------------------------------------------------------------
(* The theorems.                                                           *)

LEMMA MountsInvariant == Spec => []MountsInv
<1>1. Init => MountsInv
  BY MountsInvInit
<1>2. MountsInv /\ [Next]_vars => MountsInv'
  BY MountsInvNext
<1> QED
  BY <1>1, <1>2, PTL DEF Spec

\* The mount table of the reexec process is one of mounts, whatever the host and
\* the OCI configuration have, and a device node is on a mount of it, and what
\* came along came with one, after pivot_root too.
THEOREM MountsTyped == Spec => []TypeOK
<1>1. MountsInv => TypeOK
  BY DEF MountsInv
<1> QED
  BY <1>1, MountsInvariant, PTL

\* Nothing that setupMonitorRootfs, the vAccel socket and changeRoot mount or
\* unmount in a mount namespace happens in the host, but for two cases that
\* rootfsPropagation, left without a recursive private, slave or unbindable, lets
\* happen: a volume on or below another one whose options left it a peer of the
\* host's, and a volume on or below a submount that the rbind of another one has
\* brought along as a peer, which only that one's recursive options could end.
THEOREM HostLeftAlone == Spec => []HostUntouched
<1>1. MountsInv => HostUntouched
  BY DEF MountsInv
<1> QED
  BY <1>1, MountsInvariant, PTL

\* changeRoot's pivot_root is never refused: prepareRoot has left the rootfs and
\* its parent private, and no mount of the lists is over the rootfs.
THEOREM PivotNeverRefused == Spec => []PivotAllowed
<1>1. MountsInv => PivotAllowed
  <2>1. SUFFICES ASSUME MountsInv, pc = "vdevices" PROVE PivotPermitted
    BY DEF PivotAllowed
  <2>2. Pivotable(table)
    BY <2>1 DEF MountsInv, RootInv, Phases
  <2> QED
    BY <2>2, Zenon DEF Pivotable, PivotPermitted
<1> QED
  BY <1>1, MountsInvariant, PTL

\* The VFS flags that a remount leaves.
LEMMA RemountedVFS ==
    ASSUME NEW m, NEW asked
    PROVE  Remounted(m, asked) \ AtimeFlags = asked \ AtimeFlags
  BY DEF Remounted, AtimeFlags

\* applyMount gives the bind mount of a volume the flags of its options, of which
\* the last about a flag decides, and otherwise those of its source.
THEOREM VolumeOptionsHold == Spec => []OptionsHold
<1>1. ASSUME MountsInv PROVE OptionsHold
  <2>1. SUFFICES ASSUME pc \in Phases, NEW i \in DOMAIN cfg.volumes,
                        MadeFor(i) \in DOMAIN table, step = "remount" => MadeFor(i) # Top
                 PROVE  LET k == MadeFor(i)
                            m == Volume(i)
                            asked == {f \in VFSFlags : LastWord(m.opts, f) = f}
                            set == asked \ AtimeFlags
                            source == On(m.src).flags
                        IN  /\ table[k].at = Target(m) /\ table[k].what = m.src
                            /\ set \subseteq table[k].flags
                            /\ ~IsBelow(m.src) =>
                                 IF asked = {} THEN table[k].flags = source
                                 ELSE table[k].flags \ AtimeFlags \subseteq
                                          set \cup (IF cfg.userns THEN source ELSE {})
    BY DEF OptionsHold
  <2> DEFINE k == MadeFor(i)
             m == Volume(i)
             S == SplitVFSFlags(m.opts)
  <2>2. m.opts \in Seq(Names) /\ m.src \in Path
    BY <1>1, <2>1, PhaseFacts, VolumeFacts, SpecIs
  \* Nothing that came along is over a source outside of the monitor's rootfs.
  <2>10. ~IsBelow(m.src) => On(m.src) = table[Covering(table, m.src)]
    <3>1. table \in Tables /\ along \subseteq Along
      BY <1>1, <2>1, PhaseFacts
    <3>2. \A a \in along : IsBelow(a.mount.at)
      BY <1>1, <2>1, AlongFacts
    <3> HIDE DEF m
    <3> QED
      BY <2>2, <3>1, <3>2, OnOutside
  <2>3. Flagged(cfg.userns, table, m, k)
    BY <1>1, <2>1 DEF MountsInv, FlagsInv
  <2> HIDE DEF k, m
  <2>4. {f \in VFSFlags : LastWord(m.opts, f) = f} = S
    <3>1. S \subseteq VFSFlags
      BY <2>2, SplitFlags
    <3>2. \A f \in VFSFlags : f \in S <=> LastWord(m.opts, f) = f
      BY <2>2, SplitIsLastWord
    <3> HIDE DEF S
    <3> QED
      BY <3>1, <3>2
  <2>5. PICK L \in MountFlags :
          /\ table[k].flags = FlagsFrom(cfg.userns, L, m)
          /\ ~IsBelow(m.src) => L = table[Covering(table, m.src)].flags
    BY <2>3 DEF Flagged
  <2>6. table[k].at = Target(m) /\ table[k].what = m.src
    BY <2>3 DEF Flagged
  <2> DEFINE U == S \cup (IF cfg.userns THEN L ELSE {})
  <2>7. IF S = {} THEN table[k].flags = L ELSE table[k].flags \ AtimeFlags = U \ AtimeFlags
    <3>1. table[k].flags = IF S = {} THEN L ELSE Remounted([flags |-> L], U)
      BY <2>5 DEF FlagsFrom
    <3>2. Remounted([flags |-> L], U) \ AtimeFlags = U \ AtimeFlags
      BY RemountedVFS, Zenon
    <3> HIDE DEF S, U
    <3> QED
      BY <3>1, <3>2, Zenon
  <2> HIDE DEF S
  <2>8. S \ AtimeFlags \subseteq table[k].flags
    BY <2>7
  <2>9. ASSUME ~IsBelow(m.src)
        PROVE  LET source == On(m.src).flags
               IN  IF S = {} THEN table[k].flags = source
                   ELSE table[k].flags \ AtimeFlags \subseteq
                            (S \ AtimeFlags) \cup (IF cfg.userns THEN source ELSE {})
    <3>1. L = On(m.src).flags
      BY <2>5, <2>9, <2>10
    <3>2. IF S = {} THEN table[k].flags = L
          ELSE table[k].flags \ AtimeFlags \subseteq (S \ AtimeFlags) \cup (IF cfg.userns THEN L ELSE {})
      BY <2>7
    <3> QED
      BY <3>1, <3>2, Zenon
  <2> QED
    BY <2>4, <2>6, <2>8, <2>9, Zenon DEF k, m
<1> QED
  BY <1>1, MountsInvariant, PTL

\* In a user namespace the remount of a bind mount asks for all that the kernel
\* has locked, since getUnprivilegedMountFlags adds the flags of the source, and
\* is not refused unless the options ask for another atime, or the mount hides the
\* source whose flags it asks for.
THEOREM RootlessRemountsAllowed == Spec => []RootlessRemounts
<1>1. ASSUME MountsInv PROVE RootlessRemounts
  <2> DEFINE h == Head(todo)
             y == table[Top]
             S == SplitVFSFlags(h.opts)
  <2>1. SUFFICES ASSUME pc \in Phases, todo # <<>>, step = "remount", NeedsRemount(h),
                        S \cap AtimeFlags = {}, ~IsPrefix(Target(h), h.src), cfg.userns
                 PROVE  /\ y.flags \ AtimeFlags \subseteq AskedFlags(h)
                        /\ Remounted(y, AskedFlags(h)) \cap AtimeFlags = y.flags \cap AtimeFlags
    BY Zenon DEF RootlessRemounts, MayRemount
  <2>2. IsBindMount(h)
    BY <2>1 DEF NeedsRemount
  <2>3. y.flags = On(h.src).flags
    BY <1>1, <2>1, <2>2 DEF MountsInv, FlagsInv
  <2>4. AskedFlags(h) = S \cup y.flags
    BY <2>1, <2>3 DEF AskedFlags, UnprivilegedMountFlags
  <2>5. y \in Mounted
    <3>1. table \in Tables /\ Len(table) \in Nat /\ NewRoot \in 1..Len(table)
      BY <1>1, <2>1, PhaseFacts
    <3>2. table \in Seq(Mounted) /\ Top \in 1..Len(table)
      BY <3>1 DEF Tables, Top
    <3> QED
      BY <3>2
  <2>6. PICK a \in AtimeFlags : y.flags \cap AtimeFlags = {a}
    BY <2>5 DEF Mounted, MountFlags
  <2> DEFINE A == AskedFlags(h)
  <2>7. A \cap AtimeFlags = {a}
    BY <2>1, <2>4, <2>6
  <2> HIDE DEF A, S, y
  <2>8. Remounted(y, A) \cap AtimeFlags = {a}
    BY <2>6, <2>7 DEF Remounted, AtimeFlags
  <2> QED
    BY <2>4, <2>6, <2>8 DEF A
<1> QED
  BY <1>1, MountsInvariant, PTL

\* A device node and the console stay visible at their path: no later mount, nor
\* one that came along with it, is over one of them, and pivot_root keeps the
\* mount that each is on.
THEOREM NodesStayVisible == Spec => []NodesVisible
<1>1. MountsInv => NodesVisible
  BY DEF MountsInv, NodesInv
<1> QED
  BY <1>1, MountsInvariant, PTL

=============================================================================
