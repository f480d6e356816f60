------------------------ MODULE WorkspaceFolderProofs ------------------------
(***************************************************************************)
(* WorkspaceIsMounted for any workspace, repositories, configurations,     *)
(* flags and number of commands and changes: the paths that the code walks *)
(* and substitutes name by name are followed by induction over their       *)
(* length.                                                                 *)
(***************************************************************************)
EXTENDS WorkspaceFolder, TLAPS, SequenceTheorems, WellFoundedInduction

---------------------------------------------------------------------------
(* Induction over the natural numbers, as a fact about sets of them.       *)
LEMMA Least ==
  ASSUME NEW T \in SUBSET Nat, T # {}
  PROVE  \E x \in T : \A y \in T : x <= y
  <1>1. PICK x \in T : \A y \in T : ~(<<y, x>> \in OpToRel(<, Nat))
    BY NatLessThanWellFounded, WFMin, Zenon
  <1>2. \A y \in T : ~(y < x)
    BY <1>1 DEF OpToRel
  <1>3. QED
    BY <1>2

LEMMA EveryNumber ==
  ASSUME NEW S \in SUBSET Nat, 0 \in S, \A n \in S : n + 1 \in S
  PROVE  S = Nat
  <1>1. SUFFICES ASSUME S # Nat PROVE FALSE
    OBVIOUS
  <1> DEFINE T == Nat \ S
  <1>2. T # {} /\ T \in SUBSET Nat
    BY <1>1
  <1>3. PICK x \in T : \A y \in T : x <= y
    <2> HIDE DEF T
    <2>1. QED
      BY <1>2, Least
  <1>4. x # 0 /\ x - 1 \in Nat /\ x - 1 \notin T
    BY <1>3
  <1>5. QED
    BY <1>3, <1>4

(* A set of numbers up to a bound has a greatest.                          *)
LEMMA Greatest ==
  ASSUME NEW k \in Nat, NEW T \in SUBSET (0 .. k), T # {}
  PROVE  /\ Max(T) \in T /\ \A n \in T : n <= Max(T)
         /\ \A n \in T : (\A m \in T : m <= n) => n = Max(T)
  <1> DEFINE U == {k - n : n \in T}
  <1>1. U \in SUBSET Nat /\ U # {}
    <2>1. \A n \in T : n \in 0 .. k /\ k - n \in Nat
      OBVIOUS
    <2>2. QED
      BY <2>1
  <1>2. PICK x \in U : \A y \in U : x <= y
    <2> HIDE DEF U
    <2>1. QED
      BY <1>1, Least
  <1>3. PICK n \in T : x = k - n
    BY <1>2
  <1>4. \A m \in T : n >= m
    <2>1. TAKE m \in T
    <2>2. k - m \in U /\ m \in 0 .. k /\ n \in 0 .. k
      OBVIOUS
    <2>3. x <= k - m
      BY <1>2, <2>2
    <2>4. QED
      BY <1>3, <2>2, <2>3
  <1>5. Max(T) \in T /\ \A m \in T : Max(T) >= m
    <2>1. \E l \in T : \A m \in T : l >= m
      BY <1>4
    <2>2. QED
      BY <2>1, Zenon DEF Max
  <1>6. QED
    <2>1. \A a, b \in T : a >= b /\ b >= a => a = b
      OBVIOUS
    <2>2. \A a, b \in T : a >= b <=> b <= a
      OBVIOUS
    <2>3. QED
      BY <1>5, <2>1, <2>2

---------------------------------------------------------------------------
(* Paths: what is above and below a place of one.                          *)
LEMMA Same ==
  ASSUME NEW p \in Path, NEW q \in Path, Len(p) = Len(q), \A i \in 1 .. Len(p) : p[i] = q[i]
  PROVE  p = q
  BY SeqEqual DEF Path

LEMMA Joined ==
  ASSUME NEW p \in Path, NEW q \in Path
  PROVE  /\ p \o q \in Path /\ Len(p \o q) = Len(p) + Len(q)
         /\ \A i \in 1 .. Len(p) : (p \o q)[i] = p[i]
         /\ \A i \in 1 .. Len(q) : (p \o q)[Len(p) + i] = q[i]
  <1>1. Len(p) \in Nat /\ Len(q) \in Nat
    BY LenProperties DEF Path
  <1>2. /\ p \o q \in Path /\ Len(p \o q) = Len(p) + Len(q)
        /\ \A i \in 1 .. Len(p) + Len(q) : (p \o q)[i] = IF i <= Len(p) THEN p[i] ELSE q[i - Len(p)]
    BY ConcatProperties DEF Path
  <1>3. \A i \in 1 .. Len(q) : (p \o q)[Len(p) + i] = q[i]
    <2>1. TAKE i \in 1 .. Len(q)
    <2>2. Len(p) + i \in 1 .. Len(p) + Len(q) /\ ~(Len(p) + i <= Len(p)) /\ Len(p) + i - Len(p) = i
      BY <1>1
    <2>3. QED
      BY <1>2, <2>2
  <1>4. QED
    BY <1>1, <1>2, <1>3

LEMMA Parts ==
  ASSUME NEW p \in Path, NEW n \in 0 .. Len(p)
  PROVE  /\ Len(p) \in Nat
         /\ Above(p, n) \in Path /\ Len(Above(p, n)) = n
         /\ \A i \in 1 .. n : Above(p, n)[i] = p[i]
         /\ Below(p, n) \in Path /\ Len(Below(p, n)) = Len(p) - n
         /\ \A i \in 1 .. Len(p) - n : Below(p, n)[i] = p[n + i]
         /\ Above(p, n) \o Below(p, n) = p
  <1>1. Len(p) \in Nat /\ \A i \in 1 .. Len(p) : p[i] \in Names
    BY LenProperties, ElementOfSeq DEF Path
  <1>2. /\ Above(p, n) \in Path /\ Len(Above(p, n)) = n
        /\ \A i \in 1 .. n : Above(p, n)[i] = p[i]
    BY <1>1, SubSeqProperties DEF Above, Path
  <1>3. /\ Below(p, n) \in Path /\ Len(Below(p, n)) = Len(p) - n
        /\ \A i \in 1 .. Len(p) - n : Below(p, n)[i] = p[n + i]
    <2>1. \A i \in n + 1 .. Len(p) : p[i] \in Names
      BY <1>1
    <2>2. /\ Below(p, n) \in Path /\ Len(Below(p, n)) = IF n + 1 <= Len(p) THEN Len(p) - (n + 1) + 1 ELSE 0
          /\ \A i \in 1 .. Len(p) - (n + 1) + 1 : Below(p, n)[i] = p[n + 1 + i - 1]
      <3>1. n + 1 \in Int /\ Len(p) \in Int
        BY <1>1
      <3>2. QED
        BY <2>1, <3>1, SubSeqProperties DEF Below, Path
    <2>3. QED
      BY <1>1, <2>2
  <1>4. Above(p, n) \o Below(p, n) = p
    <2> DEFINE a == Above(p, n)
               b == Below(p, n)
    <2> HIDE DEF a, b
    <2>1. /\ a \in Path /\ Len(a) = n /\ b \in Path /\ Len(b) = Len(p) - n
          /\ \A i \in 1 .. n : a[i] = p[i]
          /\ \A i \in 1 .. Len(p) - n : b[i] = p[n + i]
      BY <1>2, <1>3 DEF a, b
    <2>2. a \o b \in Path /\ Len(a \o b) = Len(p)
      <3>1. a \o b \in Path /\ Len(a \o b) = Len(a) + Len(b)
        BY <2>1, Joined
      <3>2. QED
        BY <3>1, <2>1, <1>1
    <2>3. \A i \in 1 .. Len(p) : (a \o b)[i] = p[i]
      <3>1. TAKE i \in 1 .. Len(p)
      <3>2. CASE i <= n
        BY <3>2, <2>1, Joined
      <3>3. CASE i > n
        <4>1. i - n \in 1 .. Len(b) /\ i = n + (i - n)
          BY <3>3, <2>1, <1>1
        <4>2. QED
          BY <4>1, <2>1, Joined
      <3>4. i <= n \/ i > n
        BY <1>1
      <3>5. QED
        BY <3>2, <3>3, <3>4
    <2>4. QED
      BY <2>2, <2>3, Same DEF a, b
  <1>5. QED
    BY <1>1, <1>2, <1>3, <1>4

---------------------------------------------------------------------------
(* Walk: the places on the way are those that the code goes through.       *)
Walks(at, from, path) ==
  /\ at[0] = from
  /\ \A i \in 1 .. Len(path) : at[i] = Towards(at[i - 1], path[i])

LEMMA WalkGoes ==
  ASSUME NEW from, NEW path \in Path
  PROVE  \E at : Walks(at, from, path) /\ Walk(from, path) = at[Len(path)]
  <1> DEFINE Way(g, n) == g = [i \in 0 .. n |-> IF i = 0 THEN from ELSE Towards(g[i - 1], path[i])]
             S == {n \in Nat : \E g : Way(g, n)}
  <1>1. Len(path) \in Nat
    BY LenProperties DEF Path
  <1>2. 0 \in S
    <2>1. Way([i \in 0 .. 0 |-> from], 0)
      OBVIOUS
    <2>2. QED
      BY <2>1
  <1>3. ASSUME NEW n \in S PROVE n + 1 \in S
    <2>1. PICK g : Way(g, n)
      OBVIOUS
    <2> DEFINE h == [i \in 0 .. n + 1 |-> IF i \in 0 .. n THEN g[i] ELSE Towards(g[n], path[n + 1])]
    <2>2. \A i \in 0 .. n + 1 : h[i] = IF i = 0 THEN from ELSE Towards(h[i - 1], path[i])
      <3> TAKE i \in 0 .. n + 1
      <3>1. CASE i = 0
        BY <3>1, <2>1
      <3>2. CASE i \in 1 .. n
        BY <3>2, <2>1
      <3>3. CASE i = n + 1
        BY <3>3
      <3>4. QED
        BY <3>1, <3>2, <3>3
    <2>3. Way(h, n + 1)
      BY <2>2
    <2> HIDE DEF h
    <2>4. \E f : Way(f, n + 1)
      BY <2>3
    <2> HIDE DEF Way
    <2>5. n + 1 \in Nat
      OBVIOUS
    <2>6. QED
      BY <2>4, <2>5
  <1>4. \E g : Way(g, Len(path))
    <2>1. S = Nat
      <3> HIDE DEF S
      <3>1. S \in SUBSET Nat
        BY DEF S
      <3>2. QED
        BY <3>1, <1>2, <1>3, EveryNumber
    <2>2. QED
      BY <2>1, <1>1
  <1> DEFINE at == CHOOSE g : Way(g, Len(path))
  <1>5. Walk(from, path) = at[Len(path)]
    BY DEF Walk
  <1>6. Way(at, Len(path))
    BY <1>4, Zenon
  <1> HIDE DEF at
  <1>7. Walks(at, from, path)
    BY <1>1, <1>6 DEF Walks
  <1>8. QED
    BY <1>5, <1>7

LEMMA AboveAbove ==
  ASSUME NEW p \in Path, NEW n \in 0 .. Len(p), NEW m \in 0 .. n
  PROVE  Above(Above(p, n), m) = Above(p, m)
  <1> DEFINE q == Above(p, n)
  <1>1. /\ Len(p) \in Nat /\ q \in Path /\ Len(q) = n
        /\ \A i \in 1 .. n : q[i] = p[i]
    BY Parts
  <1> HIDE DEF q
  <1>2. m \in 0 .. Len(q) /\ m \in 0 .. Len(p)
    BY <1>1
  <1>3. /\ Above(q, m) \in Path /\ Len(Above(q, m)) = m /\ \A i \in 1 .. m : Above(q, m)[i] = q[i]
        /\ Above(p, m) \in Path /\ Len(Above(p, m)) = m /\ \A i \in 1 .. m : Above(p, m)[i] = p[i]
    BY <1>1, <1>2, Parts
  <1>4. \A i \in 1 .. m : Above(q, m)[i] = Above(p, m)[i]
    BY <1>1, <1>3
  <1>5. Above(q, m) = Above(p, m)
    BY <1>3, <1>4, Same
  <1>6. QED
    BY <1>5 DEF q

(* What a path is that begins with p and goes on with q.                   *)
Meets(r, p, q) ==
  /\ r \in Path /\ Len(r) = Len(p) + Len(q)
  /\ \A i \in 1 .. Len(p) : r[i] = p[i]
  /\ \A i \in 1 .. Len(q) : r[Len(p) + i] = q[i]

LEMMA MeetsOne ==
  ASSUME NEW p \in Path, NEW q \in Path, NEW r, Meets(r, p, q)
  PROVE  r = p \o q
  <1> DEFINE s == p \o q
  <1>1. Len(p) \in Nat /\ Len(q) \in Nat
    BY LenProperties DEF Path
  <1>2. Meets(s, p, q)
    BY Joined DEF Meets
  <1> HIDE DEF s
  <1>3. ASSUME NEW i \in 1 .. Len(r) PROVE r[i] = s[i]
    <2>1. CASE i \in 1 .. Len(p)
      BY <2>1, <1>2 DEF Meets
    <2>2. CASE i > Len(p)
      <3> DEFINE c == i - Len(p)
      <3>1. c \in 1 .. Len(q) /\ i = Len(p) + c
        BY <2>2, <1>1 DEF Meets
      <3> HIDE DEF c
      <3>2. QED
        BY <3>1, <1>2 DEF Meets
    <2>3. i \in 1 .. Len(p) \/ i > Len(p)
      BY <1>1 DEF Meets
    <2>4. QED
      BY <2>1, <2>2, <2>3
  <1>4. r = s
    BY <1>2, <1>3, Same DEF Meets
  <1>5. QED
    BY <1>4 DEF s

(* As long as it climbs it is above from, and where it goes down it is     *)
(* below the place it came from.                                           *)
LEMMA Climbs ==
  ASSUME NEW at, NEW from \in Path, NEW path \in Path, Walks(at, from, path),
         NEW up \in 0 .. Len(from), up <= Len(path), \A i \in 1 .. up : path[i] = ".."
  PROVE  at[up] = Above(from, Len(from) - up)
  <1>1. Len(path) \in Nat /\ Len(from) \in Nat
    BY LenProperties DEF Path
  <1> DEFINE S == {n \in Nat : n <= up => at[n] = Above(from, Len(from) - n)}
  <1>2. 0 \in S
    <2>1. Above(from, Len(from)) = from
      BY SubSeqFull DEF Above, Path
    <2>2. QED
      BY <2>1, <1>1 DEF Walks
  <1>3. ASSUME NEW n \in S PROVE n + 1 \in S
    <2>1. SUFFICES ASSUME n + 1 <= up PROVE at[n + 1] = Above(from, Len(from) - (n + 1))
      OBVIOUS
    <2>2. at[n] = Above(from, Len(from) - n) /\ n \in 0 .. Len(from) - 1 /\ n \in Nat
      BY <2>1, <1>1
    <2>3. n + 1 \in 1 .. Len(path) /\ n + 1 \in 1 .. up /\ (n + 1) - 1 = n
      BY <2>1, <2>2, <1>1
    <2>4. at[n + 1] = Towards(at[n], "..")
      BY <2>3 DEF Walks
    <2> DEFINE e == Len(from) - n
    <2>5. e \in 0 .. Len(from) /\ e - 1 \in 0 .. e /\ Len(from) - (n + 1) = e - 1
      BY <2>2, <1>1
    <2> HIDE DEF e
    <2>6. Above(from, e) # <<>> /\ Len(Above(from, e)) = e
      BY <2>5, Parts
    <2>7. Towards(Above(from, e), "..") = Above(Above(from, e), e - 1)
      BY <2>6 DEF Towards, Front, Above
    <2>8. Above(Above(from, e), e - 1) = Above(from, e - 1)
      BY <2>5, AboveAbove
    <2>9. QED
      BY <2>2, <2>4, <2>5, <2>7, <2>8 DEF e
  <1> HIDE DEF S
  <1>4. S = Nat
    <2>1. S \in SUBSET Nat
      BY DEF S
    <2>2. QED
      BY <2>1, <1>2, <1>3, EveryNumber
  <1>5. QED
    BY <1>4, <1>1 DEF S

LEMMA Piece ==
  ASSUME NEW p \in Path, NEW m \in 0 .. Len(p), NEW n \in m .. Len(p)
  PROVE  /\ SubSeq(p, m + 1, n) \in Path /\ Len(SubSeq(p, m + 1, n)) = n - m
         /\ \A i \in 1 .. n - m : SubSeq(p, m + 1, n)[i] = p[m + i]
  <1>1. Len(p) \in Nat /\ \A i \in 1 .. Len(p) : p[i] \in Names
    BY LenProperties, ElementOfSeq DEF Path
  <1>2. \A i \in m + 1 .. n : p[i] \in Names
    BY <1>1
  <1>3. m + 1 \in Int /\ n \in Int
    BY <1>1
  <1>4. /\ SubSeq(p, m + 1, n) \in Path
        /\ Len(SubSeq(p, m + 1, n)) = IF m + 1 <= n THEN n - (m + 1) + 1 ELSE 0
        /\ \A i \in 1 .. n - (m + 1) + 1 : SubSeq(p, m + 1, n)[i] = p[m + 1 + i - 1]
    BY <1>2, <1>3, SubSeqProperties DEF Path
  <1>5. QED
    BY <1>1, <1>4

LEMMA Descends ==
  ASSUME NEW at, NEW from, NEW path \in Path, Walks(at, from, path),
         NEW k \in 0 .. Len(path), NEW n \in k .. Len(path), at[k] \in Path,
         \A i \in k + 1 .. n : path[i] # ".."
  PROVE  at[n] = at[k] \o SubSeq(path, k + 1, n)
  <1> DEFINE here == at[k]
             l == Len(here)
             Way(p, j) == /\ p \in Path /\ Len(p) = l + j
                          /\ \A i \in 1 .. l : p[i] = here[i]
                          /\ \A i \in 1 .. j : p[l + i] = path[k + i]
             S == {j \in Nat : k + j <= n => Way(at[k + j], j)}
  <1>1. /\ Len(path) \in Nat /\ l \in Nat /\ \A i \in 1 .. Len(path) : path[i] \in Names
        /\ k \in Nat /\ n \in Nat /\ k <= n /\ n <= Len(path) /\ here \in Path /\ at[k] = here
    BY LenProperties, ElementOfSeq DEF Path
  <1>2. \A i \in 1 .. Len(path) : at[i] = Towards(at[i - 1], path[i])
    BY DEF Walks
  <1> HIDE DEF here
  <1>3. 0 \in S
    BY <1>1
  <1>4. ASSUME NEW j \in S PROVE j + 1 \in S
    <2>1. j \in Nat /\ j + 1 \in Nat
      OBVIOUS
    <2>2. ASSUME k + (j + 1) <= n PROVE Way(at[k + (j + 1)], j + 1)
      <3>1. Way(at[k + j], j)
        BY <2>1, <2>2, <1>1
      <3>2. k + j + 1 \in k + 1 .. n /\ k + j + 1 \in 1 .. Len(path) /\ (k + j + 1) - 1 = k + j
        BY <2>1, <2>2, <1>1
      <3> DEFINE p == at[k + j]
                 name == path[k + j + 1]
      <3>3. at[k + j + 1] = Append(p, name) /\ name \in Names
        BY <3>2, <1>1, <1>2 DEF Towards
      <3> HIDE DEF p, name
      <3>4. /\ Append(p, name) \in Path /\ Len(Append(p, name)) = Len(p) + 1
            /\ \A i \in 1 .. Len(p) : Append(p, name)[i] = p[i]
            /\ Append(p, name)[Len(p) + 1] = name
        BY <3>1, <3>3, AppendProperties DEF Path, p
      <3>5. Way(p, j)
        BY <3>1 DEF p
      <3>6. \A i \in 1 .. l : i \in 1 .. Len(p)
        BY <3>5, <2>1, <1>1
      <3>7. ASSUME NEW i \in 1 .. j + 1 PROVE Append(p, name)[l + i] = path[k + i]
        <4>1. CASE i \in 1 .. j
          <5>1. l + i \in 1 .. Len(p)
            BY <4>1, <3>5, <2>1, <1>1
          <5>2. QED
            BY <4>1, <5>1, <3>4, <3>5
        <4>2. CASE i = j + 1
          <5>1. l + i = Len(p) + 1 /\ k + i = k + j + 1
            BY <4>2, <3>5, <2>1, <1>1
          <5>2. QED
            BY <5>1, <3>4 DEF name
        <4>3. i \in 1 .. j \/ i = j + 1
          BY <2>1
        <4>4. QED
          BY <4>1, <4>2, <4>3
      <3>8. Way(Append(p, name), j + 1)
        <4>1. Len(Append(p, name)) = l + (j + 1)
          BY <3>4, <3>5, <2>1, <1>1
        <4>2. QED
          BY <4>1, <3>4, <3>5, <3>6, <3>7
      <3>9. k + (j + 1) = k + j + 1
        BY <1>1, <2>1
      <3>10. QED
        BY <3>3, <3>8, <3>9
    <2> HIDE DEF Way
    <2>3. QED
      BY <2>1, <2>2
  <1>5. S = Nat
    <2> HIDE DEF S
    <2>1. S \in SUBSET Nat
      BY DEF S
    <2>2. QED
      BY <2>1, <1>3, <1>4, EveryNumber
  <1>6. Way(at[n], n - k)
    <2> HIDE DEF Way
    <2>1. n - k \in Nat /\ k + (n - k) = n
      BY <1>1
    <2>2. Way(at[k + (n - k)], n - k)
      BY <2>1, <1>1, <1>5
    <2>3. QED
      BY <2>1, <2>2
  <1> DEFINE rest == SubSeq(path, k + 1, n)
  <1>7. rest \in Path /\ Len(rest) = n - k /\ \A i \in 1 .. n - k : rest[i] = path[k + i]
    BY Piece
  <1> HIDE DEF rest
  <1>8. Meets(at[n], here, rest)
    BY <1>1, <1>6, <1>7 DEF Meets
  <1>9. QED
    BY <1>1, <1>7, <1>8, MeetsOne DEF rest, here

(* Where a gitdir leads that climbs up folders and then goes down, and     *)
(* where two levels above it is.                                           *)
LEMMA GitdirLeads ==
  ASSUME NEW from \in Path, NEW to \in Path, NEW up \in 0 .. Len(from), up + 2 <= Len(to),
         \A i \in 1 .. up : to[i] = "..", \A i \in up + 1 .. Len(to) : to[i] # ".."
  PROVE  /\ Walk(from, to) = Above(from, Len(from) - up) \o SubSeq(to, up + 1, Len(to))
         /\ Walk(from, to \o Upwards(2)) = Above(from, Len(from) - up) \o SubSeq(to, up + 1, Len(to) - 2)
  <1> DEFINE n == Len(to)
             top == Above(from, Len(from) - up)
             down == SubSeq(to, up + 1, n)
             part == SubSeq(to, up + 1, n - 2)
  <1>1. /\ n \in Nat /\ Len(from) \in Nat /\ up \in Nat /\ up <= Len(from) /\ up + 2 <= n
        /\ up \in 0 .. n /\ n \in up .. n /\ n - 2 \in up .. n
    BY LenProperties DEF Path
  <1>2. top \in Path /\ Len(top) \in Nat /\ Len(top) = Len(from) - up
    <2> DEFINE e == Len(from) - up
    <2>1. e \in 0 .. Len(from) /\ e \in Nat
      BY <1>1
    <2> HIDE DEF e
    <2>2. Above(from, e) \in Path /\ Len(Above(from, e)) = e
      BY <2>1, Parts
    <2>3. QED
      BY <2>1, <2>2 DEF e
  <1>3. /\ down \in Path /\ Len(down) = n - up /\ \A i \in 1 .. n - up : down[i] = to[up + i]
        /\ part \in Path /\ Len(part) = n - 2 - up /\ \A i \in 1 .. n - 2 - up : part[i] = to[up + i]
    <2>1. /\ down \in Path /\ Len(down) = n - up /\ \A i \in 1 .. n - up : down[i] = to[up + i]
      BY <1>1, Piece
    <2>2. /\ part \in Path /\ Len(part) = n - 2 - up /\ \A i \in 1 .. n - 2 - up : part[i] = to[up + i]
      BY <1>1, Piece
    <2>3. QED
      BY <2>1, <2>2
  <1>4. Walk(from, to) = top \o down
    <2>1. PICK at : Walks(at, from, to) /\ Walk(from, to) = at[n]
      BY WalkGoes
    <2>2. at[up] = top
      BY <2>1, <1>1, Climbs
    <2>3. at[n] = at[up] \o down
      <3>1. at[up] \in Path
        BY <2>2, <1>2
      <3>2. QED
        BY <2>1, <1>1, <3>1, Descends
    <2>4. QED
      BY <2>1, <2>2, <2>3
  <1> DEFINE path == to \o Upwards(2)
  <1>5. /\ path \in Path /\ Len(path) = n + 2
        /\ \A i \in 1 .. n : path[i] = to[i]
        /\ path[n + 1] = ".." /\ path[n + 2] = ".."
    <2>1. Upwards(2) \in Path /\ Len(Upwards(2)) = 2 /\ Upwards(2)[1] = ".." /\ Upwards(2)[2] = ".."
      <3>1. Upwards(2) \in [1 .. 2 -> Names]
        BY FolderAssumption DEF Upwards
      <3>2. Upwards(2) \in Path
        BY <3>1, SeqDef DEF Path
      <3>3. Len(Upwards(2)) \in Nat /\ DOMAIN Upwards(2) = 1 .. Len(Upwards(2)) /\ DOMAIN Upwards(2) = 1 .. 2
        BY <3>1, <3>2, LenProperties DEF Path
      <3>4. Len(Upwards(2)) = 2
        BY <3>3
      <3>5. Upwards(2)[1] = ".." /\ Upwards(2)[2] = ".."
        BY DEF Upwards
      <3>6. QED
        BY <3>2, <3>4, <3>5
    <2> DEFINE u == Upwards(2)
    <2> HIDE DEF u
    <2>2. /\ to \o u \in Path /\ Len(to \o u) = n + Len(u)
          /\ \A i \in 1 .. n : (to \o u)[i] = to[i]
          /\ \A i \in 1 .. Len(u) : (to \o u)[n + i] = u[i]
      BY <2>1, Joined DEF u
    <2>3. 1 \in 1 .. Len(u) /\ 2 \in 1 .. Len(u)
      BY <2>1 DEF u
    <2>4. QED
      BY <2>1, <2>2, <2>3 DEF u
  <1> HIDE DEF n, top, down, part, path
  <1>6. PICK at : Walks(at, from, path) /\ Walk(from, path) = at[n + 2]
    BY <1>5, WalkGoes
  <1>7. at[up] = top
    <2>1. up <= Len(path) /\ \A i \in 1 .. up : path[i] = ".."
      BY <1>1, <1>5
    <2>2. QED
      BY <2>1, <1>1, <1>5, <1>6, Climbs DEF top
  <1>8. at[n] = top \o down
    <2>1. /\ up \in 0 .. Len(path) /\ n \in up .. Len(path) /\ n \in 0 .. Len(path)
          /\ \A i \in up + 1 .. n : i \in 1 .. n
      BY <1>1, <1>5
    <2>2. \A i \in up + 1 .. n : path[i] # ".."
      BY <2>1, <1>5 DEF n
    <2>3. at[n] = at[up] \o SubSeq(path, up + 1, n)
      <3>1. path \in Path /\ Walks(at, from, path) /\ at[up] \in Path
        BY <1>2, <1>5, <1>6, <1>7
      <3>2. up \in 0 .. Len(path) /\ n \in up .. Len(path)
        BY <2>1
      <3>3. QED
        BY <2>2, <3>1, <3>2, Descends
    <2> DEFINE same == SubSeq(path, up + 1, n)
    <2>4. same \in Path /\ Len(same) = n - up /\ \A i \in 1 .. n - up : same[i] = path[up + i]
      BY <2>1, <1>5, Piece
    <2>5. \A i \in 1 .. n - up : up + i \in 1 .. n
      BY <1>1
    <2> HIDE DEF same
    <2>6. \A i \in 1 .. Len(same) : same[i] = down[i]
      BY <2>4, <2>5, <1>3, <1>5
    <2>7. same = down
      BY <2>4, <2>6, <1>3, Same
    <2>8. QED
      BY <2>3, <2>7, <1>7 DEF same
  <1> DEFINE r == top \o down
             l == Len(r)
  <1>9. /\ r \in Path /\ l = Len(top) + (n - up) /\ l - 1 \in Nat /\ l - 2 \in Nat /\ l \in Nat
        /\ \A i \in 1 .. Len(top) : r[i] = top[i]
        /\ \A i \in 1 .. n - up : r[Len(top) + i] = down[i]
    <2>1. /\ r \in Path /\ l = Len(top) + Len(down)
          /\ \A i \in 1 .. Len(top) : r[i] = top[i]
          /\ \A i \in 1 .. Len(down) : r[Len(top) + i] = down[i]
      BY <1>2, <1>3, Joined
    <2> HIDE DEF r
    <2>2. QED
      BY <2>1, <1>1, <1>2, <1>3
  <1> HIDE DEF r
  <1>10. at[n + 2] = Above(r, l - 2)
    <2>1. n + 1 \in 1 .. Len(path) /\ n + 2 \in 1 .. Len(path) /\ (n + 1) - 1 = n /\ (n + 2) - 1 = n + 1
      BY <1>1, <1>5
    <2>2. at[n + 1] = Towards(at[n], "..") /\ at[n + 2] = Towards(at[n + 1], "..")
      BY <2>1, <1>5, <1>6 DEF Walks
    <2>3. l - 1 \in 0 .. l /\ l - 2 \in 0 .. l - 1 /\ (l - 1) - 1 = l - 2 /\ l # 0 /\ l - 1 # 0
      BY <1>1, <1>2, <1>9
    <2>4. r # <<>> /\ Towards(r, "..") = Above(r, l - 1)
      BY <2>3 DEF Towards, Front, Above
    <2>5. Len(Above(r, l - 1)) = l - 1 /\ Above(r, l - 1) # <<>>
      BY <2>3, <1>9, Parts
    <2>6. Towards(Above(r, l - 1), "..") = Above(Above(r, l - 1), l - 2)
      BY <2>3, <2>5 DEF Towards, Front, Above
    <2>7. Above(Above(r, l - 1), l - 2) = Above(r, l - 2)
      BY <2>3, <1>9, AboveAbove
    <2>8. QED
      BY <2>2, <2>4, <2>6, <2>7, <1>8 DEF r
  <1>11. Above(r, l - 2) = top \o part
    <2>1. l - 2 \in 0 .. l /\ l - 2 = Len(top) + Len(part)
      BY <1>1, <1>2, <1>3, <1>9
    <2>2. /\ Above(r, l - 2) \in Path /\ Len(Above(r, l - 2)) = l - 2
          /\ \A i \in 1 .. l - 2 : Above(r, l - 2)[i] = r[i]
      BY <2>1, <1>9, Parts
    <2> DEFINE a == Above(r, l - 2)
    <2> HIDE DEF a
    <2>3. /\ \A i \in 1 .. Len(top) : i \in 1 .. l - 2
          /\ \A i \in 1 .. Len(part) : Len(top) + i \in 1 .. l - 2 /\ i \in 1 .. n - up /\ i \in 1 .. n - 2 - up
      BY <2>1, <1>1, <1>2, <1>3
    <2>4. \A i \in 1 .. Len(part) : a[Len(top) + i] = part[i]
      BY <2>2, <2>3, <1>3, <1>9 DEF a
    <2>5. Meets(a, top, part)
      BY <2>1, <2>2, <2>3, <2>4, <1>9 DEF Meets, a
    <2>6. QED
      BY <2>5, <1>2, <1>3, MeetsOne DEF a
  <1>12. QED
    BY <1>4, <1>6, <1>10, <1>11 DEF n, top, down, part, path

---------------------------------------------------------------------------
(* Substitute, name by name.                                               *)
Makes(made, path, values) ==
  /\ made[0] = <<>>
  /\ \A i \in 1 .. Len(path) : made[i] = made[i - 1] \o Replaced(path[i], values)

LEMMA SubstituteGoes ==
  ASSUME NEW path \in Path, NEW values
  PROVE  \E made : Makes(made, path, values) /\ Substitute(path, values) = made[Len(path)]
  <1> DEFINE Made(g, n) == g = [i \in 0 .. n |-> IF i = 0 THEN <<>>
                                                 ELSE g[i - 1] \o Replaced(path[i], values)]
             S == {n \in Nat : \E g : Made(g, n)}
  <1>1. Len(path) \in Nat
    BY LenProperties DEF Path
  <1>2. 0 \in S
    <2>1. Made([i \in 0 .. 0 |-> <<>>], 0)
      OBVIOUS
    <2>2. QED
      BY <2>1
  <1>3. ASSUME NEW n \in S PROVE n + 1 \in S
    <2>1. PICK g : Made(g, n)
      OBVIOUS
    <2> DEFINE h == [i \in 0 .. n + 1 |-> IF i \in 0 .. n THEN g[i]
                                          ELSE g[n] \o Replaced(path[n + 1], values)]
    <2>2. \A i \in 0 .. n + 1 : h[i] = IF i = 0 THEN <<>> ELSE h[i - 1] \o Replaced(path[i], values)
      <3> TAKE i \in 0 .. n + 1
      <3>1. CASE i = 0
        BY <3>1, <2>1
      <3>2. CASE i \in 1 .. n
        BY <3>2, <2>1
      <3>3. CASE i = n + 1
        BY <3>3
      <3>4. QED
        BY <3>1, <3>2, <3>3
    <2>3. Made(h, n + 1)
      BY <2>2
    <2> HIDE DEF h
    <2>4. \E f : Made(f, n + 1)
      BY <2>3
    <2> HIDE DEF Made
    <2>5. n + 1 \in Nat
      OBVIOUS
    <2>6. QED
      BY <2>4, <2>5
  <1>4. \E g : Made(g, Len(path))
    <2>1. S = Nat
      <3> HIDE DEF S
      <3>1. S \in SUBSET Nat
        BY DEF S
      <3>2. QED
        BY <3>1, <1>2, <1>3, EveryNumber
    <2>2. QED
      BY <2>1, <1>1
  <1> DEFINE made == CHOOSE g : Made(g, Len(path))
  <1>5. Substitute(path, values) = made[Len(path)]
    BY DEF Substitute
  <1>6. Made(made, Len(path))
    BY <1>4, Zenon
  <1> HIDE DEF made
  <1>7. Makes(made, path, values)
    BY <1>1, <1>6 DEF Makes
  <1>8. QED
    BY <1>5, <1>7

(* It is made of what its names are replaced by, ...                       *)
LEMMA SubstituteIn ==
  ASSUME NEW T, NEW path \in Path, NEW values,
         \A i \in 1 .. Len(path) : Replaced(path[i], values) \in Seq(T)
  PROVE  Substitute(path, values) \in Seq(T)
  <1>1. Len(path) \in Nat
    BY LenProperties DEF Path
  <1>2. PICK made : Makes(made, path, values) /\ Substitute(path, values) = made[Len(path)]
    BY SubstituteGoes
  <1> DEFINE S == {n \in Nat : n <= Len(path) => made[n] \in Seq(T)}
  <1>3. 0 \in S
    <2>1. made[0] \in Seq(T)
      BY <1>2, EmptySeq DEF Makes
    <2>2. QED
      BY <2>1
  <1>4. ASSUME NEW n \in S PROVE n + 1 \in S
    <2>1. n \in Nat /\ n + 1 \in Nat
      OBVIOUS
    <2>2. ASSUME n + 1 <= Len(path) PROVE made[n + 1] \in Seq(T)
      <3>1. made[n] \in Seq(T) /\ n + 1 \in 1 .. Len(path) /\ (n + 1) - 1 = n
        BY <2>1, <2>2, <1>1
      <3>2. made[n + 1] = made[n] \o Replaced(path[n + 1], values)
        BY <3>1, <1>2 DEF Makes
      <3>3. QED
        BY <3>1, <3>2, ConcatProperties
    <2>3. QED
      BY <2>1, <2>2
  <1>5. S = Nat
    <2> HIDE DEF S
    <2>1. S \in SUBSET Nat
      BY DEF S
    <2>2. QED
      BY <2>1, <1>3, <1>4, EveryNumber
  <1>6. QED
    BY <1>1, <1>2, <1>5

(* ... depends on nothing else, ...                                        *)
LEMMA SubstituteLike ==
  ASSUME NEW path \in Path, NEW values, NEW others,
         \A i \in 1 .. Len(path) : Replaced(path[i], values) = Replaced(path[i], others)
  PROVE  Substitute(path, values) = Substitute(path, others)
  <1>1. Len(path) \in Nat
    BY LenProperties DEF Path
  <1>2. PICK made : Makes(made, path, values) /\ Substitute(path, values) = made[Len(path)]
    BY SubstituteGoes
  <1>3. PICK again : Makes(again, path, others) /\ Substitute(path, others) = again[Len(path)]
    BY SubstituteGoes
  <1> DEFINE S == {n \in Nat : n <= Len(path) => made[n] = again[n]}
  <1>4. 0 \in S
    BY <1>2, <1>3 DEF Makes
  <1>5. ASSUME NEW n \in S PROVE n + 1 \in S
    <2>1. n \in Nat /\ n + 1 \in Nat
      OBVIOUS
    <2>2. ASSUME n + 1 <= Len(path) PROVE made[n + 1] = again[n + 1]
      <3>1. made[n] = again[n] /\ n + 1 \in 1 .. Len(path) /\ (n + 1) - 1 = n
        BY <2>1, <2>2, <1>1
      <3>2. /\ made[n + 1] = made[n] \o Replaced(path[n + 1], values)
            /\ again[n + 1] = again[n] \o Replaced(path[n + 1], others)
        BY <3>1, <1>2, <1>3 DEF Makes
      <3>3. QED
        BY <3>1, <3>2
    <2>3. QED
      BY <2>1, <2>2
  <1>6. S = Nat
    <2> HIDE DEF S
    <2>1. S \in SUBSET Nat
      BY DEF S
    <2>2. QED
      BY <2>1, <1>4, <1>5, EveryNumber
  <1>7. QED
    BY <1>1, <1>2, <1>3, <1>6

(* ... and is the path itself if none of its names is a variable.          *)
LEMMA SubstituteNone ==
  ASSUME NEW path \in Path, NEW values, \A i \in 1 .. Len(path) : path[i] \notin DOMAIN values
  PROVE  Substitute(path, values) = path
  <1>1. Len(path) \in Nat /\ \A i \in 1 .. Len(path) : path[i] \in Names
    BY LenProperties, ElementOfSeq DEF Path
  <1>2. PICK made : Makes(made, path, values) /\ Substitute(path, values) = made[Len(path)]
    BY SubstituteGoes
  <1> DEFINE So(p, n) == p \in Path /\ Len(p) = n /\ \A i \in 1 .. n : p[i] = path[i]
             S == {n \in Nat : n <= Len(path) => So(made[n], n)}
  <1>3. 0 \in S
    <2>1. So(<<>>, 0)
      BY DEF Path
    <2>2. QED
      BY <2>1, <1>2 DEF Makes
  <1>4. ASSUME NEW n \in S PROVE n + 1 \in S
    <2>1. n \in Nat /\ n + 1 \in Nat
      OBVIOUS
    <2>2. ASSUME n + 1 <= Len(path) PROVE So(made[n + 1], n + 1)
      <3>1. So(made[n], n) /\ n + 1 \in 1 .. Len(path) /\ (n + 1) - 1 = n
        BY <2>1, <2>2, <1>1
      <3> DEFINE name == path[n + 1]
                 one == <<name>>
                 p == made[n]
      <3>2. made[n + 1] = p \o one
        BY <3>1, <1>2 DEF Makes, Replaced
      <3>3. name \in Names
        BY <3>1, <1>1
      <3> HIDE DEF p, name
      <3>4. one \in Path /\ Len(one) = 1 /\ one[1] = name
        BY <3>3 DEF Path
      <3>5. p \in Path /\ Len(p) = n /\ \A i \in 1 .. n : p[i] = path[i]
        BY <3>1 DEF p
      <3> HIDE DEF one
      <3>6. /\ p \o one \in Path /\ Len(p \o one) = n + 1
            /\ \A i \in 1 .. n : (p \o one)[i] = p[i]
            /\ (p \o one)[n + 1] = one[1]
        <4>1. /\ p \o one \in Path /\ Len(p \o one) = Len(p) + Len(one)
              /\ \A i \in 1 .. Len(p) : (p \o one)[i] = p[i]
              /\ \A i \in 1 .. Len(one) : (p \o one)[Len(p) + i] = one[i]
          BY <3>4, <3>5, Joined
        <4>2. QED
          BY <4>1, <3>4, <3>5
      <3>7. \A i \in 1 .. n + 1 : i \in 1 .. n \/ i = n + 1
        BY <2>1
      <3>8. QED
        BY <3>2, <3>4, <3>5, <3>6, <3>7 DEF name
    <2> HIDE DEF So
    <2>3. QED
      BY <2>1, <2>2
  <1>5. S = Nat
    <2> HIDE DEF S
    <2>1. S \in SUBSET Nat
      BY DEF S
    <2>2. QED
      BY <2>1, <1>3, <1>4, EveryNumber
  <1>6. So(made[Len(path)], Len(path))
    BY <1>1, <1>5
  <1>7. QED
    BY <1>2, <1>6, Same

---------------------------------------------------------------------------
(* The phases.  A path without variables is left as it is.                 *)
Plain(path) == path \in Path /\ \A i \in 1 .. Len(path) : path[i] \notin Variables

LEMMA WorkspaceNamed ==
  /\ Workspace \in Path /\ Workspace # <<>> /\ Len(Workspace) \in Nat \ {0} /\ Plain(Workspace)
  /\ Last(Workspace) \in Names \ Variables
  <1>1. Workspace \in Path /\ Workspace # <<>> /\ Range(Workspace) \cap Variables = {}
    BY FolderAssumption
  <1>2. Len(Workspace) \in Nat \ {0}
    BY <1>1, EmptySeq DEF Path
  <1>3. DOMAIN Workspace = 1 .. Len(Workspace) /\ \A i \in 1 .. Len(Workspace) : Workspace[i] \in Names
    BY <1>1, LenProperties, ElementOfSeq DEF Path
  <1>4. \A i \in 1 .. Len(Workspace) : Workspace[i] \notin Variables
    BY <1>1, <1>3 DEF Range
  <1>5. QED
    BY <1>1, <1>2, <1>3, <1>4 DEF Last, Plain

Own == [x \in {Basename} |-> <<Last(Workspace)>>]
All(folder) ==
  [x \in {Basename, ContainerFolder} |-> IF x = Basename THEN Own[x] ELSE Substitute(folder, Own)]
Ids == [x \in {Identity} |-> <<"id">>]

LEMMA VariablesDiffer ==
  /\ Basename # ContainerFolder /\ Basename # Identity /\ ContainerFolder # Identity
  /\ Basename \in Names /\ ContainerFolder \in Names /\ Identity \in Names /\ "id" \in Names
  <1>1. Basename # ContainerFolder /\ Basename # Identity /\ ContainerFolder # Identity
    BY DEF Basename, ContainerFolder, Identity
  <1>2. QED
    BY <1>1, FolderAssumption DEF Variables

LEMMA HostPhaseIs ==
  ASSUME NEW path, NEW folder
  PROVE  HostPhase(path, folder) = Substitute(path, All(folder))
  BY DEF HostPhase, All, Own

LEMMA PhasesLeave ==
  ASSUME NEW path \in Path, NEW folder
  PROVE  /\ (\A i \in 1 .. Len(path) : path[i] \notin {Basename, ContainerFolder})
              => HostPhase(path, folder) = path
         /\ (\A i \in 1 .. Len(path) : path[i] # Identity) => IdentityPhase(path) = path
         /\ Plain(path) => HostPhase(path, folder) = path /\ IdentityPhase(path) = path
  <1>1. DOMAIN All(folder) = {Basename, ContainerFolder} /\ DOMAIN Ids = {Identity}
    BY DEF All, Ids
  <1>2. (\A i \in 1 .. Len(path) : path[i] \notin {Basename, ContainerFolder})
           => HostPhase(path, folder) = path
    BY <1>1, HostPhaseIs, SubstituteNone
  <1>3. (\A i \in 1 .. Len(path) : path[i] # Identity) => IdentityPhase(path) = path
    BY <1>1, SubstituteNone DEF IdentityPhase, Ids
  <1>4. QED
    BY <1>2, <1>3 DEF Plain, Variables

(* What the host phase makes of a folder holds no variable of that phase.  *)
LEMMA OwnFolder ==
  ASSUME NEW folder \in Path
  PROVE  /\ Substitute(folder, Own) \in Path
         /\ ContainerFolder \notin Range(folder) =>
              \A i \in 1 .. Len(Substitute(folder, Own)) :
                Substitute(folder, Own)[i] \notin {Basename, ContainerFolder}
  <1>1. DOMAIN folder = 1 .. Len(folder) /\ \A i \in 1 .. Len(folder) : folder[i] \in Names
    BY LenProperties, ElementOfSeq DEF Path
  <1>2. \A x : Replaced(x, Own) = IF x = Basename THEN <<Last(Workspace)>> ELSE <<x>>
    BY DEF Replaced, Own
  <1>3. \A T, x : x \in T => <<x>> \in Seq(T)
    OBVIOUS
  <1>4. Substitute(folder, Own) \in Path
    <2>1. \A i \in 1 .. Len(folder) : Replaced(folder[i], Own) \in Seq(Names)
      BY <1>1, <1>2, <1>3, WorkspaceNamed
    <2>2. QED
      BY <2>1, SubstituteIn DEF Path
  <1>5. ASSUME ContainerFolder \notin Range(folder)
        PROVE  \A i \in 1 .. Len(Substitute(folder, Own)) :
                 Substitute(folder, Own)[i] \notin {Basename, ContainerFolder}
    <2> DEFINE T == Names \ {Basename, ContainerFolder}
    <2>1. \A i \in 1 .. Len(folder) : folder[i] # ContainerFolder
      BY <1>1, <1>5 DEF Range
    <2>2. Last(Workspace) \in T
      BY WorkspaceNamed DEF Variables
    <2>3. \A i \in 1 .. Len(folder) : Replaced(folder[i], Own) \in Seq(T)
      <3>1. TAKE i \in 1 .. Len(folder)
      <3>2. CASE folder[i] = Basename
        BY <3>2, <2>2, <1>2, <1>3
      <3>3. CASE folder[i] # Basename
        <4>1. folder[i] \in T
          BY <3>3, <2>1, <1>1
        <4> HIDE DEF T
        <4>2. QED
          BY <4>1, <3>3, <1>2, <1>3
      <3>4. QED
        BY <3>2, <3>3
    <2>4. Substitute(folder, Own) \in Seq(T)
      BY <2>3, SubstituteIn
    <2>5. QED
      BY <2>4, ElementOfSeq
  <1>6. QED
    BY <1>4, <1>5

(* A folder that is not defined by itself, and ${containerWorkspaceFolder} *)
(* are the same to the host phase.                                         *)
LEMMA FolderInHostPhase ==
  ASSUME NEW folder \in Path
  PROVE  /\ HostPhase(<<ContainerFolder>>, folder) = Substitute(folder, Own)
         /\ ContainerFolder \notin Range(folder) => HostPhase(folder, folder) = Substitute(folder, Own)
  <1>1. DOMAIN folder = 1 .. Len(folder)
    BY LenProperties DEF Path
  <1>2. /\ \A x : Replaced(x, Own) = IF x = Basename THEN <<Last(Workspace)>> ELSE <<x>>
        /\ \A x : x # ContainerFolder => Replaced(x, All(folder)) = Replaced(x, Own)
        /\ Replaced(ContainerFolder, All(folder)) = Substitute(folder, Own)
    BY VariablesDiffer DEF Replaced, Own, All
  <1>3. HostPhase(<<ContainerFolder>>, folder) = Substitute(folder, Own)
    <2> DEFINE path == <<ContainerFolder>>
    <2>1. path \in Path /\ Len(path) = 1 /\ path[1] = ContainerFolder
      BY VariablesDiffer DEF Path
    <2> HIDE DEF path
    <2>2. PICK made : Makes(made, path, All(folder)) /\ Substitute(path, All(folder)) = made[Len(path)]
      BY <2>1, SubstituteGoes
    <2>3. made[1] = <<>> \o Substitute(folder, Own)
      <3>1. made[0] = <<>> /\ made[1] = made[1 - 1] \o Replaced(path[1], All(folder)) /\ 1 - 1 = 0
        BY <2>1, <2>2 DEF Makes
      <3>2. QED
        BY <3>1, <2>1, <1>2
    <2>4. <<>> \o Substitute(folder, Own) = Substitute(folder, Own)
      BY OwnFolder, ConcatEmptySeq DEF Path
    <2>5. QED
      BY <2>1, <2>2, <2>3, <2>4, HostPhaseIs DEF path
  <1>4. ASSUME ContainerFolder \notin Range(folder)
        PROVE  HostPhase(folder, folder) = Substitute(folder, Own)
    <2>1. \A i \in 1 .. Len(folder) : folder[i] # ContainerFolder
      BY <1>1, <1>4 DEF Range
    <2>2. QED
      BY <2>1, <1>2, SubstituteLike, HostPhaseIs
  <1>5. QED
    BY <1>3, <1>4

---------------------------------------------------------------------------
(* A worktree whose common folder is mounted.                              *)
LEMMA Middle ==
  ASSUME NEW p \in Path, NEW n \in 0 .. Len(p), NEW d \in n .. Len(p), NEW q \in Path
  PROVE  /\ Above(p, d) = Above(p, n) \o SubSeq(p, n + 1, d)
         /\ q \o Below(p, n) \in Path /\ Len(q \o Below(p, n)) = Len(q) + (Len(p) - n)
         /\ Above(q \o Below(p, n), Len(q) + (d - n)) = q \o SubSeq(p, n + 1, d)
  <1> DEFINE mid == SubSeq(p, n + 1, d)
             a == Above(p, d)
             b == Above(p, n)
             c == Below(p, n)
  <1>1. /\ Len(p) \in Nat /\ Len(q) \in Nat /\ n \in Nat /\ d \in Nat /\ n <= d /\ d <= Len(p)
        /\ d \in 0 .. Len(p) /\ d - n \in Nat
    BY LenProperties DEF Path
  <1>2. mid \in Path /\ Len(mid) = d - n /\ \A i \in 1 .. d - n : mid[i] = p[n + i]
    BY <1>1, Piece
  <1>3. /\ a \in Path /\ Len(a) = d /\ \A i \in 1 .. d : a[i] = p[i]
        /\ b \in Path /\ Len(b) = n /\ \A i \in 1 .. n : b[i] = p[i]
        /\ c \in Path /\ Len(c) = Len(p) - n /\ \A i \in 1 .. Len(p) - n : c[i] = p[n + i]
    BY <1>1, Parts
  <1> HIDE DEF mid, a, b, c
  <1>4. a = b \o mid
    <2>1. /\ \A i \in 1 .. Len(b) : i \in 1 .. d /\ i \in 1 .. n
          /\ \A i \in 1 .. Len(mid) : Len(b) + i \in 1 .. d /\ i \in 1 .. d - n /\ Len(b) + i = n + i
          /\ Len(a) = Len(b) + Len(mid)
      BY <1>1, <1>2, <1>3
    <2>2. Meets(a, b, mid)
      BY <2>1, <1>2, <1>3 DEF Meets
    <2>3. QED
      BY <2>2, <1>2, <1>3, MeetsOne
  <1> DEFINE t == q \o c
             e == Len(q) + (d - n)
  <1>5. /\ t \in Path /\ Len(t) = Len(q) + (Len(p) - n)
        /\ \A i \in 1 .. Len(q) : t[i] = q[i]
        /\ \A i \in 1 .. Len(p) - n : t[Len(q) + i] = c[i]
    <2>1. /\ t \in Path /\ Len(t) = Len(q) + Len(c)
          /\ \A i \in 1 .. Len(q) : t[i] = q[i]
          /\ \A i \in 1 .. Len(c) : t[Len(q) + i] = c[i]
      BY <1>3, Joined
    <2> HIDE DEF t
    <2>2. QED
      BY <2>1, <1>3
  <1> HIDE DEF t
  <1>6. e \in 0 .. Len(t) /\ e \in Nat
    BY <1>1, <1>5
  <1>7. Above(t, e) = q \o mid
    <2> DEFINE u == Above(t, e)
    <2>1. u \in Path /\ Len(u) = e /\ \A i \in 1 .. e : u[i] = t[i]
      BY <1>5, <1>6, Parts
    <2> HIDE DEF u
    <2>2. /\ \A i \in 1 .. Len(q) : i \in 1 .. e
          /\ \A i \in 1 .. Len(mid) : Len(q) + i \in 1 .. e /\ i \in 1 .. Len(p) - n /\ i \in 1 .. d - n
          /\ Len(u) = Len(q) + Len(mid)
      BY <2>1, <1>1, <1>2, <1>6
    <2>3. \A i \in 1 .. Len(mid) : u[Len(q) + i] = mid[i]
      <3>1. TAKE i \in 1 .. Len(mid)
      <3>2. u[Len(q) + i] = t[Len(q) + i]
        BY <2>1, <2>2
      <3>3. t[Len(q) + i] = c[i]
        BY <2>2, <1>5
      <3>4. c[i] = p[n + i] /\ mid[i] = p[n + i]
        BY <2>2, <1>2, <1>3
      <3>5. QED
        BY <3>2, <3>3, <3>4
    <2>4. Meets(u, q, mid)
      BY <2>1, <2>2, <2>3, <1>5 DEF Meets
    <2>5. QED
      BY <2>4, <1>2, MeetsOne DEF u
  <1>8. QED
    BY <1>4, <1>5, <1>7 DEF mid, a, b, c, t

Root == <<"workspaces">>

LEMMA RootIs == Root \in Path /\ Len(Root) = 1 /\ Plain(Root)
  <1>1. Root \in Path
    <2>1. "workspaces" \in Names
      BY FolderAssumption
    <2>2. \A name \in Names : <<name>> \in Seq(Names)
      OBVIOUS
    <2>3. QED
      BY <2>1, <2>2 DEF Root, Path
  <1>2. Len(Root) = 1 /\ Root[1] = "workspaces"
    BY DEF Root
  <1>3. "workspaces" \notin Variables
    BY DEF Variables, Basename, ContainerFolder, Identity
  <1>4. QED
    BY <1>1, <1>2, <1>3 DEF Plain

(* Segments keeps at least as much of the host's path as the gitdir climbs, *)
(* so that below some folder above the worktree the container shows the    *)
(* host's tree under /workspaces.                                          *)
LEMMA SegmentsSuffice ==
  ASSUME NEW root \in Path, NEW g, g[root].to \in Path, NEW up \in 0 .. Len(root),
         up + 2 <= Len(g[root].to), up > 0 => g[root].to[up + 1] # root[Len(root) - up + 1],
         CommonDir(root, g)
           = Above(root, Len(root) - up) \o SubSeq(g[root].to, up + 1, Len(g[root].to) - 2)
  PROVE  \E n \in 0 .. Len(root) - up : Segments(root, g) = Below(root, n)
  <1> DEFINE to == g[root].to
             d == Len(root) - up
             a == Above(root, d)
             x == SubSeq(to, up + 1, Len(to) - 2)
             common == CommonDir(root, g)
             T == {n \in 0 .. Len(root) : n = 0 \/ IsStrictPrefix(Above(root, n), common)}
  <1>1. /\ Len(root) \in Nat /\ Len(to) \in Nat /\ up \in Nat /\ d \in Nat /\ d \in 0 .. Len(root)
        /\ up \in 0 .. Len(to) /\ Len(to) - 2 \in up .. Len(to)
    BY LenProperties DEF Path
  <1>2. a \in Path /\ Len(a) = d /\ \A i \in 1 .. d : a[i] = root[i]
    BY <1>1, Parts
  <1>3. /\ x \in Path /\ Len(x) = Len(to) - 2 - up
        /\ \A i \in 1 .. Len(to) - 2 - up : x[i] = to[up + i]
    BY <1>1, Piece
  <1> HIDE DEF a, x, to
  <1>4. /\ common \in Path /\ Len(common) = d + Len(x) /\ \A i \in 1 .. Len(x) : common[d + i] = x[i]
    <2>1. common = a \o x
      BY DEF a, x, to
    <2> HIDE DEF common
    <2>2. /\ a \o x \in Path /\ Len(a \o x) = Len(a) + Len(x)
          /\ \A i \in 1 .. Len(x) : (a \o x)[Len(a) + i] = x[i]
      BY <1>2, <1>3, Joined
    <2>3. QED
      BY <2>1, <2>2, <1>2
  <1> HIDE DEF common
  <1>5. ASSUME NEW n \in T PROVE n <= d
    <2>1. SUFFICES ASSUME n > d PROVE FALSE
      BY <1>1
    <2>2. n \in 0 .. Len(root) /\ IsPrefix(Above(root, n), common) /\ d < Len(root)
      BY <2>1, <1>1 DEF IsStrictPrefix
    <2> DEFINE b == Above(root, n)
    <2>3. b \in Path /\ Len(b) = n /\ \A i \in 1 .. n : b[i] = root[i]
      BY <2>2, Parts
    <2>4. Len(b) <= Len(common) /\ SubSeq(b, 1, Len(b)) = SubSeq(common, 1, Len(b))
      BY <2>2 DEF IsPrefix
    <2> HIDE DEF b
    <2>5. SubSeq(b, 1, Len(b)) = b
      BY <2>3, SubSeqFull DEF Path
    <2>6. b = Above(common, n) /\ n \in 0 .. Len(common)
      BY <2>2, <2>3, <2>4, <2>5, <1>1 DEF Above
    <2>7. \A i \in 1 .. n : Above(common, n)[i] = common[i]
      BY <2>6, <1>4, Parts
    <2>8. d + 1 \in 1 .. n /\ 1 \in 1 .. Len(x) /\ up > 0
      BY <2>1, <2>2, <2>6, <1>1, <1>3, <1>4
    <2>9. common[d + 1] = root[d + 1]
      BY <2>3, <2>6, <2>7, <2>8
    <2>10. common[d + 1] = x[1] /\ x[1] = to[up + 1]
      BY <2>8, <1>3, <1>4
    <2>11. QED
      BY <2>8, <2>9, <2>10 DEF to
  <1>6. Max(T) \in T
    <2>1. 0 \in T /\ T \in SUBSET (0 .. Len(root))
      BY <1>1
    <2> HIDE DEF T
    <2>2. QED
      BY <2>1, <1>1, Greatest
  <1>7. Segments(root, g) = Below(root, Max(T))
    BY DEF Segments, common
  <1>8. Max(T) \in 0 .. d
    <2>1. Max(T) <= d /\ Max(T) \in 0 .. Len(root)
      BY <1>5, <1>6
    <2> HIDE DEF T
    <2>2. QED
      BY <2>1, <1>1
  <1>9. QED
    BY <1>7, <1>8

LEMMA Associative ==
  ASSUME NEW p \in Path, NEW q \in Path, NEW r \in Path
  PROVE  (p \o q) \o r = p \o (q \o r)
  BY ConcatAssociative DEF Path

LEMMA PlainJoined ==
  ASSUME NEW p \in Path, NEW q \in Path,
         \A i \in 1 .. Len(p) : p[i] \notin Variables, \A i \in 1 .. Len(q) : q[i] \notin Variables
  PROVE  Plain(p \o q)
  <1>1. Len(p) \in Nat /\ Len(q) \in Nat
    BY LenProperties DEF Path
  <1> DEFINE r == p \o q
  <1>2. /\ r \in Path /\ Len(r) = Len(p) + Len(q)
        /\ \A i \in 1 .. Len(p) : r[i] = p[i]
        /\ \A i \in 1 .. Len(q) : r[Len(p) + i] = q[i]
    BY Joined
  <1> HIDE DEF r
  <1>3. ASSUME NEW i \in 1 .. Len(r) PROVE r[i] \notin Variables
    <2>1. CASE i \in 1 .. Len(p)
      BY <2>1, <1>2
    <2>2. CASE i > Len(p)
      <3> DEFINE c == i - Len(p)
      <3>1. c \in 1 .. Len(q) /\ i = Len(p) + c
        BY <2>2, <1>1, <1>2
      <3> HIDE DEF c
      <3>2. QED
        BY <3>1, <1>2
    <2>3. i \in 1 .. Len(p) \/ i > Len(p)
      BY <1>1
    <2>4. QED
      BY <2>1, <2>2, <2>3
  <1>4. QED
    BY <1>2, <1>3 DEF Plain, r

LeadsAlike(root, g, n, y, z) ==
  /\ Plain(y) /\ Segments(root, g) = Below(root, n)
  /\ CommonDir(root, g) = Above(root, n) \o y
  /\ Walk(Root \o Below(root, n), g[root].to \o Upwards(2)) = Root \o y
  /\ Walk(root, g[root].to) = Above(root, n) \o (y \o z)
  /\ Walk(Root \o Below(root, n), g[root].to) = Root \o (y \o z)

LEMMA RemapKeepsTree ==
  ASSUME NEW root, Plain(root), NEW g, g[root].to \in Path, Shortest(root, g[root].to)
  PROVE  \E n \in 0 .. Len(root), y \in Path, z \in Path : LeadsAlike(root, g, n, y, z)
  <1> DEFINE to == g[root].to
  <1>1. PICK up \in 0 .. Len(root) :
          /\ up + 2 <= Len(to)
          /\ \A i \in 1 .. up : to[i] = ".."
          /\ \A i \in up + 1 .. Len(to) : to[i] # ".." /\ to[i] \notin Variables
          /\ up > 0 => to[up + 1] # root[Len(root) - up + 1]
    BY DEF Shortest
  <1> DEFINE d == Len(root) - up
             x == SubSeq(to, up + 1, Len(to) - 2)
             z == SubSeq(to, Len(to) - 1, Len(to))
             down == SubSeq(to, up + 1, Len(to))
  <1>2. /\ root \in Path /\ Len(root) \in Nat /\ Len(to) \in Nat /\ up \in Nat /\ d \in 0 .. Len(root) /\ d \in Nat
        /\ up \in 0 .. Len(to) /\ Len(to) - 2 \in up .. Len(to) /\ Len(to) - 2 \in 0 .. Len(to)
        /\ Len(to) \in Len(to) - 2 .. Len(to) /\ (Len(to) - 2) + 1 = Len(to) - 1
        /\ Len(root) - d = up
    <2>1. root \in Path /\ Len(root) \in Nat /\ Len(to) \in Nat
      BY LenProperties DEF Path, Plain
    <2> HIDE DEF to
    <2>2. up + 2 <= Len(to) /\ up \in Nat /\ up <= Len(root)
      BY <1>1, <2>1
    <2>3. QED
      BY <2>1, <2>2
  <1>3. /\ Walk(root, to) = Above(root, d) \o down
        /\ CommonDir(root, g) = Above(root, d) \o x
    BY <1>1, <1>2, GitdirLeads DEF CommonDir
  <1>4. PICK n \in 0 .. d : Segments(root, g) = Below(root, n)
    BY <1>1, <1>2, <1>3, SegmentsSuffice
  <1> DEFINE mid == SubSeq(root, n + 1, d)
             t == Root \o Below(root, n)
             y == mid \o x
  <1>5. n \in 0 .. Len(root) /\ d \in n .. Len(root) /\ n \in Nat
    BY <1>2
  <1>6. /\ x \in Path /\ Len(x) = Len(to) - 2 - up /\ \A i \in 1 .. Len(to) - 2 - up : x[i] = to[up + i]
    BY <1>2, Piece
  <1>7. z \in Path /\ down = x \o z
    <2>1. SubSeq(to, (Len(to) - 2) + 1, Len(to)) \in Path
      BY <1>2, Piece
    <2>2. down = x \o SubSeq(to, (Len(to) - 2) + 1, Len(to))
      <3>1. up + 1 \in 1 .. Len(to) + 1 /\ Len(to) - 2 \in (up + 1) - 1 .. Len(to)
        BY <1>1, <1>2
      <3>2. QED
        BY <3>1, <1>2, ConcatAdjacentSubSeq DEF Path
    <2>3. QED
      BY <2>1, <2>2, <1>2
  <1>8. mid \in Path /\ Len(mid) = d - n /\ \A i \in 1 .. d - n : mid[i] = root[n + i]
    BY <1>2, <1>5, Piece
  <1> HIDE DEF x, z, down, mid
  <1>9. /\ Above(root, d) = Above(root, n) \o mid
        /\ t \in Path /\ Len(t) = 1 + (Len(root) - n) /\ Above(t, 1 + (d - n)) = Root \o mid
    <2>1. root \in Path /\ n \in 0 .. Len(root) /\ d \in n .. Len(root) /\ Root \in Path /\ Len(Root) = 1
      BY <1>2, <1>5, RootIs
    <2>2. Above(root, d) = Above(root, n) \o mid
      BY <2>1, Middle DEF mid
    <2>3. t \in Path /\ Len(t) = Len(Root) + (Len(root) - n)
      BY <2>1, Middle
    <2>4. Above(t, Len(Root) + (d - n)) = Root \o mid
      BY <2>1, Middle DEF mid
    <2>5. QED
      BY <2>1, <2>2, <2>3, <2>4
  <1>10. y \in Path /\ Above(root, n) \in Path
    <2>1. y \in Path
      BY <1>6, <1>8, Joined
    <2>2. QED
      BY <2>1, <1>2, <1>5, Parts
  <1>11. /\ Walk(t, to) = Above(t, 1 + (d - n)) \o down
         /\ Walk(t, to \o Upwards(2)) = Above(t, 1 + (d - n)) \o x
    <2> HIDE DEF t
    <2>1. up \in 0 .. Len(t) /\ Len(t) - up = 1 + (d - n)
      BY <1>2, <1>5, <1>9
    <2>2. /\ Walk(t, to) = Above(t, Len(t) - up) \o down
          /\ Walk(t, to \o Upwards(2)) = Above(t, Len(t) - up) \o x
      BY <1>1, <2>1, <1>9, GitdirLeads DEF down, x
    <2>3. QED
      BY <2>1, <2>2
  <1>12. /\ CommonDir(root, g) = Above(root, n) \o y
         /\ Walk(t, to \o Upwards(2)) = Root \o y
    <2>1. (Above(root, n) \o mid) \o x = Above(root, n) \o y
      BY <1>6, <1>8, <1>10, Associative, Zenon
    <2>2. (Root \o mid) \o x = Root \o y
      BY <1>6, <1>8, RootIs, Associative
    <2>3. CommonDir(root, g) = (Above(root, n) \o mid) \o x
      BY <1>3, <1>9
    <2>4. Walk(t, to \o Upwards(2)) = (Root \o mid) \o x
      BY <1>9, <1>11
    <2>5. QED
      BY <2>1, <2>2, <2>3, <2>4
  <1>13. /\ Walk(root, to) = Above(root, n) \o (y \o z)
         /\ Walk(t, to) = Root \o (y \o z)
    <2>1. mid \o (x \o z) = y \o z
      BY <1>6, <1>7, <1>8, Associative
    <2>2. down \in Path
      BY <1>6, <1>7, Joined
    <2>3. (Above(root, n) \o mid) \o down = Above(root, n) \o (mid \o down)
      BY <2>2, <1>8, <1>10, Associative, Zenon
    <2>4. (Root \o mid) \o down = Root \o (mid \o down)
      BY <2>2, <1>8, RootIs, Associative
    <2>5. mid \o down = y \o z
      BY <2>1, <1>7
    <2>6. Walk(root, to) = (Above(root, n) \o mid) \o down /\ Walk(t, to) = (Root \o mid) \o down
      BY <1>3, <1>9, <1>11
    <2> HIDE DEF y, t, to
    <2>7. QED
      BY <2>3, <2>4, <2>5, <2>6
  <1>14. Plain(y)
    <2>1. \A i \in 1 .. Len(mid) : mid[i] \notin Variables
      <3>1. \A i \in 1 .. d - n : n + i \in 1 .. Len(root)
        BY <1>2, <1>5
      <3>2. QED
        BY <3>1, <1>8 DEF Plain
    <2>2. \A i \in 1 .. Len(x) : x[i] \notin Variables
      <3>1. \A i \in 1 .. Len(to) - 2 - up : up + i \in up + 1 .. Len(to)
        BY <1>2
      <3> HIDE DEF to
      <3>2. QED
        BY <3>1, <1>1, <1>6
    <2>3. QED
      BY <2>1, <2>2, <1>6, <1>8, <1>10, PlainJoined
  <1>15. LeadsAlike(root, g, n, y, z)
    BY <1>4, <1>12, <1>13, <1>14 DEF LeadsAlike
  <1> HIDE DEF y
  <1>16. QED
    BY <1>5, <1>7, <1>10, <1>15

---------------------------------------------------------------------------
(* Shows: mounts that all keep the host's tree below a folder show it.     *)
LEMMA Begins ==
  ASSUME NEW p \in Path, NEW q \in Path
  PROVE  IsPrefix(p, p \o q) /\ Len(p) \in Nat /\ Len(p) <= Len(p)
  <1> DEFINE r == p \o q
  <1>1. Len(p) \in Nat /\ Len(q) \in Nat
    BY LenProperties DEF Path
  <1>2. /\ r \in Path /\ Len(r) = Len(p) + Len(q)
        /\ \A i \in 1 .. Len(p) : r[i] = p[i]
    BY Joined
  <1> HIDE DEF r
  <1>3. Len(p) \in 0 .. Len(r) /\ Len(p) <= Len(r)
    BY <1>1, <1>2
  <1>4. /\ Above(r, Len(p)) \in Path /\ Len(Above(r, Len(p))) = Len(p)
        /\ \A i \in 1 .. Len(p) : Above(r, Len(p))[i] = r[i]
    BY <1>2, <1>3, Parts
  <1>5. Above(r, Len(p)) = p
    BY <1>2, <1>4, Same
  <1>6. SubSeq(p, 1, Len(p)) = p
    BY SubSeqFull DEF Path
  <1>7. QED
    BY <1>1, <1>3, <1>5, <1>6 DEF IsPrefix, Above, r

LEMMA PrefixTail ==
  ASSUME NEW r \in Path, NEW y \in Path, NEW z \in Path, IsPrefix(r \o y, r \o z)
  PROVE  /\ Len(y) \in 0 .. Len(z)
         /\ y \o Below(r \o z, Len(r \o y)) = z
         /\ Below(r \o z, Len(r \o y)) \in Path
  <1> DEFINE p == r \o y
             q == r \o z
             tail == Below(q, Len(p))
  <1>1. Len(r) \in Nat /\ Len(y) \in Nat /\ Len(z) \in Nat
    BY LenProperties DEF Path
  <1>2. /\ p \in Path /\ Len(p) = Len(r) + Len(y) /\ \A i \in 1 .. Len(y) : p[Len(r) + i] = y[i]
    BY Joined
  <1>3. /\ q \in Path /\ Len(q) = Len(r) + Len(z) /\ \A i \in 1 .. Len(z) : q[Len(r) + i] = z[i]
    BY Joined
  <1>4. Len(p) <= Len(q) /\ SubSeq(p, 1, Len(p)) = SubSeq(q, 1, Len(p))
    BY DEF IsPrefix
  <1> HIDE DEF p, q
  <1>5. Len(y) <= Len(z) /\ Len(p) \in 0 .. Len(q) /\ Len(p) \in Nat
    BY <1>1, <1>2, <1>3, <1>4
  <1>6. p = Above(q, Len(p))
    BY <1>2, <1>4, SubSeqFull DEF Above, Path
  <1>7. \A i \in 1 .. Len(p) : p[i] = q[i]
    <2>1. \A i \in 1 .. Len(p) : Above(q, Len(p))[i] = q[i]
      BY <1>3, <1>5, Parts
    <2>2. QED
      BY <2>1, <1>6
  <1>8. /\ tail \in Path /\ Len(tail) = Len(q) - Len(p) /\ \A i \in 1 .. Len(q) - Len(p) : tail[i] = q[Len(p) + i]
    BY <1>3, <1>5, Parts
  <1> HIDE DEF tail
  <1>9. Len(q) - Len(p) = Len(z) - Len(y)
    BY <1>1, <1>2, <1>3
  <1>10. ASSUME NEW i \in 1 .. Len(y) PROVE z[i] = y[i]
    <2>1. Len(r) + i \in 1 .. Len(p) /\ i \in 1 .. Len(z)
      BY <1>1, <1>2, <1>5
    <2>2. QED
      BY <2>1, <1>2, <1>3, <1>7
  <1>11. ASSUME NEW i \in 1 .. Len(tail) PROVE z[Len(y) + i] = tail[i]
    <2>1. i \in 1 .. Len(q) - Len(p) /\ Len(p) + i = Len(r) + (Len(y) + i) /\ Len(y) + i \in 1 .. Len(z)
      BY <1>1, <1>2, <1>5, <1>8, <1>9
    <2>2. QED
      BY <2>1, <1>3, <1>8
  <1>12. Meets(z, y, tail)
    <2>1. Len(z) = Len(y) + Len(tail)
      BY <1>1, <1>8, <1>9
    <2>2. QED
      BY <2>1, <1>10, <1>11 DEF Meets
  <1>13. QED
    BY <1>1, <1>5, <1>8, <1>12, MeetsOne DEF p, q, tail

Keeps(m, host, box) == \E y \in Path : m.source = host \o y /\ m.target = box \o y

LEMMA ShowsTree ==
  ASSUME NEW host \in Path, NEW box \in Path, NEW z \in Path, NEW mounts,
         \A m \in mounts : Keeps(m, host, box),
         \E m \in mounts :
           /\ IsPrefix(m.target, box \o z)
           /\ \A o \in mounts : IsPrefix(o.target, box \o z) => Len(o.target) <= Len(m.target)
  PROVE  Shows(mounts, box \o z) = {host \o z}
  <1> DEFINE path == box \o z
             around == {m \in mounts : IsPrefix(m.target, path)}
             longest == {n \in around : \A o \in around : Len(o.target) <= Len(n.target)}
  <1>1. Shows(mounts, path) = {m.source \o Below(path, Len(m.target)) : m \in longest}
    BY DEF Shows
  <1>2. \E m \in longest : TRUE
    OBVIOUS
  <1>3. ASSUME NEW m \in mounts, IsPrefix(m.target, path)
        PROVE  m.source \o Below(path, Len(m.target)) = host \o z
    <2>1. PICK y \in Path : m.source = host \o y /\ m.target = box \o y
      BY DEF Keeps
    <2> DEFINE tail == Below(path, Len(box \o y))
    <2>2. y \o tail = z /\ tail \in Path
      BY <1>3, <2>1, PrefixTail
    <2> HIDE DEF tail
    <2>3. (host \o y) \o tail = host \o (y \o tail)
      <3>1. y \in Path /\ tail \in Path
        BY <2>1, <2>2
      <3>2. QED
        BY <3>1, Associative
    <2>4. QED
      BY <2>1, <2>2, <2>3 DEF tail
  <1>4. \A m \in longest : m.source \o Below(path, Len(m.target)) = host \o z
    BY <1>3
  <1> HIDE DEF longest, path
  <1>5. Shows(mounts, path) = {host \o z}
    BY <1>1, <1>2, <1>4
  <1>6. QED
    BY <1>5 DEF path

(* One mount shows what is below its target; of two, the longer shows.     *)
LEMMA ShowsOne ==
  ASSUME NEW host \in Path, NEW box \in Path, NEW z \in Path, NEW m,
         m.source = host, m.target = box
  PROVE  Shows({m}, box \o z) = {host \o z}
  <1>1. <<>> \in Path /\ host \o <<>> = host /\ box \o <<>> = box
    BY ConcatEmptySeq, EmptySeq DEF Path
  <1>2. Keeps(m, host, box)
    BY <1>1 DEF Keeps
  <1>3. IsPrefix(box, box \o z) /\ Len(box) <= Len(box)
    BY Begins
  <1>4. QED
    BY <1>2, <1>3, ShowsTree

LEMMA ShowsAt ==
  ASSUME NEW host \in Path, NEW box \in Path, NEW m, m.source = host, m.target = box
  PROVE  Shows({m}, box) = {host}
  <1>1. <<>> \in Path /\ host \o <<>> = host /\ box \o <<>> = box
    BY ConcatEmptySeq, EmptySeq DEF Path
  <1> DEFINE none == <<>>
  <1>2. none \in Path
    BY <1>1
  <1> HIDE DEF none
  <1>3. Shows({m}, box \o none) = {host \o none}
    BY <1>2, ShowsOne
  <1>4. QED
    BY <1>1, <1>3 DEF none

LEMMA ShowsTwo ==
  ASSUME NEW host \in Path, NEW box \in Path, NEW z \in Path, NEW m, NEW o,
         Keeps(m, host, box), Keeps(o, host, box), IsPrefix(m.target, box \o z)
  PROVE  Shows({m, o}, box \o z) = {host \o z}
  <1>1. Len(m.target) \in Nat /\ Len(o.target) \in Nat
    <2>1. m.target \in Path /\ o.target \in Path
      BY Joined DEF Keeps
    <2>2. QED
      BY <2>1, LenProperties DEF Path
  <1>2. CASE IsPrefix(o.target, box \o z) /\ Len(o.target) > Len(m.target)
    <2>1. \A n \in {m, o} : Len(n.target) <= Len(o.target)
      BY <1>1, <1>2
    <2>2. QED
      BY <2>1, <1>2, ShowsTree
  <1>3. CASE ~(IsPrefix(o.target, box \o z) /\ Len(o.target) > Len(m.target))
    <2>1. \A n \in {m, o} : IsPrefix(n.target, box \o z) => Len(n.target) <= Len(m.target)
      BY <1>1, <1>3
    <2>2. QED
      BY <2>1, ShowsTree
  <1>4. QED
    BY <1>2, <1>3

---------------------------------------------------------------------------
(* What is computed for a configuration that leaves all to the CLI.        *)
LEMMA SourceIs ==
  ASSUME NEW f, NEW g \in GitHosts
  PROVE  \E k \in 1 .. Len(Workspace) :
           /\ Source(f, g) = Above(Workspace, k) /\ Len(Source(f, g)) = k
           /\ Plain(Source(f, g)) /\ Last(Source(f, g)) \in Names \ Variables
  <1>1. \E k \in 1 .. Len(Workspace) : Source(f, g) = Above(Workspace, k)
    <2>1. CASE f.gitRoot /\ GitRoots(g) # {}
      <3>1. GitRoots(g) \in SUBSET (0 .. Len(Workspace)) /\ Len(Workspace) \in Nat
        BY WorkspaceNamed DEF GitRoots
      <3>2. Max(GitRoots(g)) \in GitRoots(g)
        BY <2>1, <3>1, Greatest
      <3>3. <<>> \notin DOMAIN g
        BY FolderAssumption
      <3>4. Above(Workspace, 0) = <<>>
        BY SubSeqEmpty DEF Above
      <3>5. Max(GitRoots(g)) \in 0 .. Len(Workspace) /\ Above(Workspace, Max(GitRoots(g))) \in DOMAIN g
        BY <3>2 DEF GitRoots
      <3>6. Max(GitRoots(g)) # 0
        BY <3>3, <3>4, <3>5
      <3>7. QED
        BY <2>1, <3>5, <3>6 DEF Source
    <2>2. CASE ~(f.gitRoot /\ GitRoots(g) # {})
      <3>1. Above(Workspace, Len(Workspace)) = Workspace
        BY WorkspaceNamed, SubSeqFull DEF Above, Path
      <3>2. Len(Workspace) \in 1 .. Len(Workspace)
        BY WorkspaceNamed
      <3>3. QED
        BY <2>2, <3>1, <3>2 DEF Source
    <2>3. QED
      BY <2>1, <2>2
  <1>2. PICK k \in 1 .. Len(Workspace) : Source(f, g) = Above(Workspace, k)
    BY <1>1
  <1> DEFINE root == Above(Workspace, k)
  <1>3. root \in Path /\ Len(root) = k /\ \A i \in 1 .. k : root[i] = Workspace[i]
    BY WorkspaceNamed, Parts
  <1> HIDE DEF root
  <1>4. k \in 1 .. k /\ \A i \in 1 .. k : i \in 1 .. Len(Workspace)
    BY WorkspaceNamed
  <1>5. Plain(root)
    BY <1>3, <1>4, WorkspaceNamed DEF Plain
  <1>6. Last(root) \in Names \ Variables
    <2>1. root[k] \in Names
      BY <1>3, <1>4, ElementOfSeq DEF Path
    <2>2. QED
      BY <2>1, <1>3, <1>4, <1>5 DEF Plain, Last
  <1>7. QED
    BY <1>2, <1>3, <1>5, <1>6 DEF root

LEMMA TailIsPlain ==
  ASSUME NEW k \in 0 .. Len(Workspace)
  PROVE  Plain(Below(Workspace, k)) /\ Len(Below(Workspace, k)) = Len(Workspace) - k
  <1> DEFINE tail == Below(Workspace, k)
  <1>1. /\ tail \in Path /\ Len(tail) = Len(Workspace) - k
        /\ \A i \in 1 .. Len(Workspace) - k : tail[i] = Workspace[k + i]
    BY WorkspaceNamed, Parts
  <1> HIDE DEF tail
  <1>2. \A i \in 1 .. Len(Workspace) - k : k + i \in 1 .. Len(Workspace)
    BY WorkspaceNamed
  <1>3. \A i \in 1 .. Len(tail) : tail[i] \notin Variables
    BY <1>1, <1>2, WorkspaceNamed DEF Plain
  <1>4. QED
    BY <1>1, <1>3 DEF Plain, tail

(* Its mounts keep the host's tree below host, under box, and its folder   *)
(* is the workspace's place there.                                         *)
ShowsWorkspace(conf, f, g) ==
  LET made == Computed(conf, f, g)
      root == Source(f, g)
      target == Target(conf, f, g)
  IN /\ made = [folder |-> made.folder, mounts |-> made.mounts]
     /\ made.folder = target \o Below(Workspace, Len(root))
     /\ Len(root) \in 0 .. Len(Workspace)
     /\ Plain(target) /\ Plain(made.folder)
     /\ \A m \in made.mounts : m \in Mount /\ Plain(m.target)
     /\ Shows(made.mounts, made.folder) = {Workspace}
     /\ Remaps(conf, f, g) =>
          Shows(made.mounts, Walk(target, g[root].to)) = {Walk(root, g[root].to)}

LEMMA FreeComputed ==
  ASSUME NEW conf, DOMAIN conf = {}, NEW f, NEW g \in GitHosts
  PROVE  ShowsWorkspace(conf, f, g)
  <1> DEFINE made == Computed(conf, f, g)
             root == Source(f, g)
             target == Target(conf, f, g)
             w == [source |-> root, target |-> target]
             c == [source |-> CommonDir(root, g), target |-> Walk(target, g[root].to \o Upwards(2))]
  <1>1. PICK k \in 1 .. Len(Workspace) :
          root = Above(Workspace, k) /\ Len(root) = k /\ Plain(root) /\ Last(root) \in Names \ Variables
    BY SourceIs
  <1> DEFINE tail == Below(Workspace, k)
  <1>2. /\ made = [folder |-> target \o tail, mounts |-> {w} \cup (IF Remaps(conf, f, g) THEN {c} ELSE {})]
    BY <1>1 DEF Computed
  <1>3. k \in 0 .. Len(Workspace) /\ Len(Workspace) \in Nat
    BY WorkspaceNamed
  <1>4. Plain(tail) /\ tail \in Path /\ root \in Path /\ root \o tail = Workspace
    BY <1>1, <1>3, TailIsPlain, WorkspaceNamed, Parts DEF Plain
  <1> HIDE DEF made, root, target, w, c, tail
  <1>5. ASSUME Plain(target), w \in Mount,
               Remaps(conf, f, g) => c \in Mount /\ Plain(c.target),
               Shows(made.mounts, target \o tail) = {Workspace},
               Remaps(conf, f, g) =>
                 Shows(made.mounts, Walk(target, g[root].to)) = {Walk(root, g[root].to)}
        PROVE  /\ made = [folder |-> made.folder, mounts |-> made.mounts]
               /\ made.folder = target \o Below(Workspace, Len(root))
               /\ Len(root) \in 0 .. Len(Workspace)
               /\ Plain(target) /\ Plain(made.folder)
               /\ \A m \in made.mounts : m \in Mount /\ Plain(m.target)
               /\ Shows(made.mounts, made.folder) = {Workspace}
               /\ Remaps(conf, f, g) =>
                    Shows(made.mounts, Walk(target, g[root].to)) = {Walk(root, g[root].to)}
    <2>1. made = [folder |-> made.folder, mounts |-> made.mounts] /\ made.folder = target \o tail
      BY <1>2
    <2>2. Plain(target \o tail)
      BY <1>4, <1>5, PlainJoined DEF Plain
    <2>3. \A m \in made.mounts : m = w \/ (Remaps(conf, f, g) /\ m = c)
      BY <1>2
    <2>4. w.target = target
      BY DEF w
    <2>5. QED
      BY <2>1, <2>2, <2>3, <2>4, <1>1, <1>3, <1>5 DEF tail
  <1>6. CASE Remaps(conf, f, g)
    <2>1. g[root].kind = "relative" /\ root \in DOMAIN g
      BY <1>6 DEF Remaps, root
    <2>2. g[root].to \in Path /\ Shortest(root, g[root].to)
      BY <2>1, FolderAssumption
    <2>2a. PICK n \in 0 .. Len(root), y \in Path, z \in Path : LeadsAlike(root, g, n, y, z)
      BY <2>2, <1>1, RemapKeepsTree
    <2>3. /\ Plain(y) /\ Segments(root, g) = Below(root, n)
          /\ CommonDir(root, g) = Above(root, n) \o y
          /\ Walk(Root \o Below(root, n), g[root].to \o Upwards(2)) = Root \o y
          /\ Walk(root, g[root].to) = Above(root, n) \o (y \o z)
          /\ Walk(Root \o Below(root, n), g[root].to) = Root \o (y \o z)
      BY <2>2a DEF LeadsAlike
    <2> DEFINE host == Above(root, n)
               rest == Below(root, n)
    <2>4. target = Root \o rest
      BY <2>3, <1>6 DEF Target, target, root, Root
    <2>5. host \in Path /\ rest \in Path /\ host \o rest = root /\ Len(rest) = k - n
          /\ \A i \in 1 .. k - n : rest[i] = root[n + i]
      <3>1. /\ host \in Path /\ rest \in Path /\ host \o rest = root /\ Len(rest) = Len(root) - n
            /\ \A i \in 1 .. Len(root) - n : rest[i] = root[n + i]
        BY <1>4, Parts
      <3>2. QED
        BY <3>1, <1>1
    <2>6. Plain(target)
      <3>1. \A i \in 1 .. Len(rest) : n + i \in 1 .. k /\ i \in 1 .. k - n
        BY <2>5, <1>1, <1>3
      <3>2. \A i \in 1 .. Len(rest) : rest[i] \notin Variables
        BY <3>1, <2>5, <1>1 DEF Plain
      <3> HIDE DEF rest
      <3>3. QED
        BY <3>2, <2>4, <2>5, RootIs, PlainJoined DEF Plain
    <2> HIDE DEF host, rest
    <2>7. c = [source |-> host \o y, target |-> Root \o y] /\ w = [source |-> host \o rest, target |-> Root \o rest]
      BY <2>3, <2>4, <2>5 DEF c, w, host, rest
    <2>8. Root \o y \in Path /\ host \o y \in Path /\ Plain(Root \o y)
      BY <2>3, <2>5, RootIs, Joined, PlainJoined DEF Plain
    <2>9. w \in Mount /\ c \in Mount /\ Plain(c.target)
      BY <2>4, <2>5, <2>6, <2>7, <2>8, <1>4 DEF Mount, Plain
    <2>10. Keeps(w, host, Root) /\ Keeps(c, host, Root)
      BY <2>3, <2>5, <2>7 DEF Keeps
    <2>11. made.mounts = {w, c}
      BY <1>2, <1>6
    <2>12. Shows(made.mounts, target \o tail) = {Workspace}
      <3>1. rest \o tail \in Path /\ target \o tail = Root \o (rest \o tail)
        <4>1. rest \o tail \in Path
          BY <2>5, <1>4, Joined
        <4>2. Root \in Path /\ rest \in Path /\ tail \in Path
          BY <2>5, <1>4, RootIs
        <4>3. (Root \o rest) \o tail = Root \o (rest \o tail)
          BY <4>2, Associative
        <4>4. QED
          BY <4>1, <4>3, <2>4
      <3>2. host \o (rest \o tail) = Workspace
        <4>1. host \in Path /\ rest \in Path /\ tail \in Path
          BY <2>5, <1>4
        <4>2. (host \o rest) \o tail = host \o (rest \o tail)
          BY <4>1, Associative
        <4>3. QED
          BY <4>2, <2>5, <1>4
      <3>3. IsPrefix(w.target, target \o tail)
        BY <2>4, <2>6, <2>7, <1>4, Begins DEF Plain
      <3> DEFINE v == rest \o tail
      <3>0. host \in Path /\ Root \in Path /\ Keeps(w, host, Root) /\ Keeps(c, host, Root)
        BY <2>5, <2>10, RootIs
      <3>4. IsPrefix(w.target, Root \o v) /\ v \in Path
        BY <3>1, <3>3
      <3> HIDE DEF v
      <3>5. Shows({w, c}, Root \o v) = {host \o v}
        BY <3>4, <3>0, ShowsTwo
      <3>6. QED
        BY <3>1, <3>2, <3>5, <2>11 DEF v
    <2>13. Shows(made.mounts, Walk(target, g[root].to)) = {Walk(root, g[root].to)}
      <3>1. /\ Walk(target, g[root].to) = Root \o (y \o z)
            /\ Walk(root, g[root].to) = host \o (y \o z)
            /\ y \o z \in Path
        BY <2>3, <2>4, Joined DEF host, rest
      <3>2. IsPrefix(c.target, Root \o (y \o z))
        <4>1. (Root \o y) \o z = Root \o (y \o z)
          BY <2>3, RootIs, Associative
        <4>2. IsPrefix(Root \o y, (Root \o y) \o z)
          BY <2>3, <2>8, Begins
        <4>3. QED
          BY <4>1, <4>2, <2>7
      <3>3. made.mounts = {c, w}
        BY <2>11
      <3> DEFINE v == y \o z
      <3>0. host \in Path /\ Root \in Path /\ Keeps(w, host, Root) /\ Keeps(c, host, Root)
        BY <2>5, <2>10, RootIs
      <3>4. IsPrefix(c.target, Root \o v) /\ v \in Path
        BY <3>1, <3>2
      <3> HIDE DEF v
      <3>5. Shows({c, w}, Root \o v) = {host \o v}
        BY <3>4, <3>0, ShowsTwo
      <3>6. QED
        BY <3>1, <3>3, <3>5 DEF v
    <2>14. QED
      BY <2>6, <2>9, <2>12, <2>13, <1>5 DEF made, root, target, ShowsWorkspace
  <1>7. CASE ~Remaps(conf, f, g)
    <2> DEFINE one == <<Last(root)>>
    <2>1. target = Root \o one
      BY <1>7 DEF Target, target, root, Root
    <2>2. one \in Path /\ Len(one) = 1 /\ one[1] \notin Variables
      BY <1>1 DEF Path
    <2> HIDE DEF one
    <2>3. Plain(target)
      BY <2>1, <2>2, RootIs, PlainJoined DEF Plain
    <2>4. w \in Mount
      BY <2>3, <1>4 DEF w, Mount, Plain
    <2>5. made.mounts = {w}
      BY <1>2, <1>7
    <2>6. Shows(made.mounts, target \o tail) = {Workspace}
      <3>1. w.source = root /\ w.target = target /\ target \in Path /\ root \in Path /\ tail \in Path
        BY <2>3, <1>4 DEF w, Plain
      <3>2. Shows({w}, target \o tail) = {root \o tail}
        BY <3>1, ShowsOne
      <3>3. QED
        BY <3>2, <2>5, <1>4
    <2>7. QED
      BY <2>3, <2>4, <2>6, <1>5, <1>7 DEF made, root, target, ShowsWorkspace
  <1>8. QED
    BY <1>6, <1>7

---------------------------------------------------------------------------
(* What up and the other commands make of it.                              *)
LEMMA PlainStays ==
  ASSUME NEW conf, NEW f, NEW g, NEW made, made = Computed(conf, f, g),
         made = [folder |-> made.folder, mounts |-> made.mounts], Plain(made.folder),
         \A m \in made.mounts : m \in Mount /\ Plain(m.target)
  PROVE  WorkspaceConfig(conf, f, g) = made /\ UpWorkspace(conf, f, g) = made
  <1> DEFINE F == made.folder
             M == made.mounts
  <1>1. F \in Path /\ HostPhase(F, F) = F /\ IdentityPhase(F) = F
    BY PhasesLeave DEF Plain
  <1>2. ASSUME NEW m \in M
        PROVE  [m EXCEPT !.target = HostPhase(@, F)] = m /\ [m EXCEPT !.target = IdentityPhase(HostPhase(@, F))] = m
    <2>1. m.target \in Path /\ HostPhase(m.target, F) = m.target /\ IdentityPhase(m.target) = m.target
      BY PhasesLeave DEF Plain
    <2>2. m = [source |-> m.source, target |-> m.target]
      BY DEF Mount
    <2>3. QED
      BY <2>1, <2>2
  <1>3. WorkspaceConfig(conf, f, g)
          = [folder |-> HostPhase(F, F), mounts |-> {[m EXCEPT !.target = HostPhase(@, F)] : m \in M}]
    BY DEF WorkspaceConfig
  <1>4. {[m EXCEPT !.target = HostPhase(@, F)] : m \in M} = M
    <2> HIDE DEF F, M
    <2>1. QED
      BY <1>2
  <1>5. WorkspaceConfig(conf, f, g) = made
    BY <1>1, <1>3, <1>4
  <1>6. UpWorkspace(conf, f, g)
          = [folder |-> IdentityPhase(HostPhase(F, F)),
             mounts |-> {[m EXCEPT !.target = IdentityPhase(HostPhase(@, F))] : m \in M}]
    BY <1>5 DEF UpWorkspace
  <1>7. {[m EXCEPT !.target = IdentityPhase(HostPhase(@, F))] : m \in M} = M
    <2> HIDE DEF F, M
    <2>1. QED
      BY <1>2
  <1>8. QED
    BY <1>1, <1>5, <1>6, <1>7

(* A configuration that mounts the workspace at its folder.                *)
LEMMA OwnComputed ==
  ASSUME NEW conf, Legal(conf), DOMAIN conf = {"folder", "mount"},
         ContainerFolder \notin Range(conf.folder),
         \E m \in Range(conf.mount) : m.source = Workspace /\ m.target = <<ContainerFolder>>,
         NEW f, NEW g
  PROVE  \E one \in Path, two \in Path :
           /\ ~Remaps(conf, f, g)
           /\ WorkspaceConfig(conf, f, g) = [folder |-> one, mounts |-> {[source |-> Workspace, target |-> one]}]
           /\ UpWorkspace(conf, f, g) = [folder |-> two, mounts |-> {[source |-> Workspace, target |-> two]}]
           /\ Identity \notin Range(one) => one = two
  <1> DEFINE F == conf.folder
             one == Substitute(F, Own)
             two == IdentityPhase(one)
             at(p) == [source |-> Workspace, target |-> p]
  <1>1. F \in Path /\ conf.mount \in Seq(Mount) /\ Len(conf.mount) <= 1 /\ Remaps(conf, f, g) = FALSE
    BY DEF Legal, Remaps
  <1>2. Range(conf.mount) = {at(<<ContainerFolder>>)}
    <2>1. DOMAIN conf.mount = 1 .. Len(conf.mount) /\ Len(conf.mount) \in Nat
          /\ \A i \in 1 .. Len(conf.mount) : conf.mount[i] \in Mount
      BY <1>1, LenProperties, ElementOfSeq
    <2>2. PICK i \in 1 .. Len(conf.mount) :
            conf.mount[i].source = Workspace /\ conf.mount[i].target = <<ContainerFolder>>
      BY <2>1 DEF Range
    <2>3. i = 1 /\ 1 .. Len(conf.mount) = {1}
      BY <1>1, <2>1, <2>2
    <2>4. Range(conf.mount) = {conf.mount[1]}
      BY <2>1, <2>3 DEF Range
    <2>5. conf.mount[1] = at(<<ContainerFolder>>)
      BY <2>1, <2>2, <2>3 DEF Mount
    <2>6. QED
      BY <2>4, <2>5
  <1>3. Computed(conf, f, g) = [folder |-> F, mounts |-> {at(<<ContainerFolder>>)}]
    <2>1. "compose" \notin DOMAIN conf /\ "folder" \in DOMAIN conf /\ "mount" \in DOMAIN conf
      OBVIOUS
    <2>2. QED
      BY <2>1, <1>1, <1>2 DEF Computed
  <1>4. one \in Path /\ HostPhase(F, F) = one /\ HostPhase(<<ContainerFolder>>, F) = one
    BY <1>1, OwnFolder, FolderInHostPhase
  <1>5. \A i \in 1 .. Len(one) : one[i] \notin {Basename, ContainerFolder}
    BY <1>1, OwnFolder
  <1> HIDE DEF F, one
  <1>6. HostPhase(one, one) = one /\ ((\A i \in 1 .. Len(one) : one[i] # Identity) => two = one)
    BY <1>4, <1>5, PhasesLeave
  <1>7. two \in Path
    <2>1. \A i \in 1 .. Len(one) : one[i] \in Names
      BY <1>4, ElementOfSeq DEF Path
    <2>2. \A x \in Names : <<x>> \in Seq(Names) /\ <<"id">> \in Seq(Names)
      BY VariablesDiffer
    <2>3. \A i \in 1 .. Len(one) : Replaced(one[i], Ids) \in Seq(Names)
      BY <2>1, <2>2 DEF Replaced, Ids
    <2>4. Substitute(one, Ids) \in Seq(Names)
      BY <2>3, <1>4, SubstituteIn
    <2>5. QED
      BY <2>4 DEF Path, Ids, IdentityPhase
  <1>8. Identity \notin Range(one) => one = two
    <2>1. DOMAIN one = 1 .. Len(one)
      BY <1>4, LenProperties DEF Path
    <2>2. QED
      BY <2>1, <1>6 DEF Range
  <1> HIDE DEF two
  <1>9. WorkspaceConfig(conf, f, g) = [folder |-> one, mounts |-> {at(one)}]
    <2>1. WorkspaceConfig(conf, f, g)
            = [folder |-> HostPhase(F, F),
               mounts |-> {[m EXCEPT !.target = HostPhase(@, F)] : m \in {at(<<ContainerFolder>>)}}]
      BY <1>3 DEF WorkspaceConfig
    <2>2. {[m EXCEPT !.target = HostPhase(@, F)] : m \in {at(<<ContainerFolder>>)}} = {at(one)}
      BY <1>4
    <2>3. QED
      BY <2>1, <2>2, <1>4
  <1>10. UpWorkspace(conf, f, g) = [folder |-> two, mounts |-> {at(two)}]
    <2>1. UpWorkspace(conf, f, g)
            = [folder |-> IdentityPhase(HostPhase(one, one)),
               mounts |-> {[m EXCEPT !.target = IdentityPhase(HostPhase(@, one))] : m \in {at(one)}}]
      BY <1>9 DEF UpWorkspace
    <2>2. {[m EXCEPT !.target = IdentityPhase(HostPhase(@, one))] : m \in {at(one)}} = {at(two)}
      BY <1>6 DEF two
    <2>3. QED
      BY <2>1, <2>2, <1>6 DEF two
  <1>11. QED
    BY <1>1, <1>4, <1>7, <1>8, <1>9, <1>10

LEMMA AboveJoined ==
  ASSUME NEW p \in Path, NEW q \in Path
  PROVE  Above(p \o q, Len(p)) = p
  <1>1. IsPrefix(p, p \o q)
    BY Begins
  <1>2. SubSeq(p, 1, Len(p)) = p
    BY SubSeqFull DEF Path
  <1>3. QED
    BY <1>1, <1>2 DEF IsPrefix, Above

(* Only two of a command's flags matter for it.                            *)
LEMMA FlagsThatMatter ==
  ASSUME NEW conf, NEW f, NEW h, NEW g, f.gitRoot = h.gitRoot, f.commonDir = h.commonDir
  PROVE  /\ Source(f, g) = Source(h, g) /\ Remaps(conf, f, g) = Remaps(conf, h, g)
         /\ WorkspaceConfig(conf, f, g) = WorkspaceConfig(conf, h, g)
         /\ UpWorkspace(conf, f, g) = UpWorkspace(conf, h, g)
  <1>1. Source(f, g) = Source(h, g)
    BY DEF Source
  <1>2. Remaps(conf, f, g) = Remaps(conf, h, g)
    BY <1>1 DEF Remaps
  <1>3. Target(conf, f, g) = Target(conf, h, g)
    BY <1>1, <1>2 DEF Target
  <1>4. Computed(conf, f, g) = Computed(conf, h, g)
    BY <1>1, <1>2, <1>3 DEF Computed
  <1>5. WorkspaceConfig(conf, f, g) = WorkspaceConfig(conf, h, g)
    BY <1>4 DEF WorkspaceConfig
  <1>6. QED
    BY <1>1, <1>2, <1>5 DEF UpWorkspace

---------------------------------------------------------------------------
(* The mounts that up makes of a coherent configuration show the workspace *)
(* at the folder of up, and at that of the other commands if it is one     *)
(* without ${devcontainerId}.                                              *)
BoxShowsWorkspace(conf, f, g) ==
  LET box == UpWorkspace(conf, f, g)
      asked == WorkspaceConfig(conf, f, g)
      root == Source(f, g)
      target == Above(box.folder, Len(box.folder) - Len(Workspace) + Len(root))
  IN /\ Shows(box.mounts, box.folder) = {Workspace}
     /\ Identity \notin Range(asked.folder) => asked.folder = box.folder
     /\ Remaps(conf, f, g) =>
          Shows(box.mounts, Walk(target, g[root].to)) = {Walk(root, g[root].to)}

LEMMA CoherentIsMounted ==
  ASSUME NEW conf, Legal(conf), Coherent(conf), NEW f, NEW g \in GitHosts
  PROVE  BoxShowsWorkspace(conf, f, g)
  <1> DEFINE box == UpWorkspace(conf, f, g)
             asked == WorkspaceConfig(conf, f, g)
             root == Source(f, g)
             target == Above(box.folder, Len(box.folder) - Len(Workspace) + Len(root))
             made == Computed(conf, f, g)
  <1>1. CASE DOMAIN conf \cap {"folder", "mount", "compose"} = {}
    <2>1. DOMAIN conf = {}
      BY <1>1 DEF Legal
    <2>2. /\ made = [folder |-> made.folder, mounts |-> made.mounts]
          /\ made.folder = Target(conf, f, g) \o Below(Workspace, Len(root))
          /\ Len(root) \in 0 .. Len(Workspace)
          /\ Plain(Target(conf, f, g)) /\ Plain(made.folder)
          /\ \A m \in made.mounts : m \in Mount /\ Plain(m.target)
          /\ Shows(made.mounts, made.folder) = {Workspace}
          /\ Remaps(conf, f, g) =>
               Shows(made.mounts, Walk(Target(conf, f, g), g[root].to)) = {Walk(root, g[root].to)}
      <3>1. ShowsWorkspace(conf, f, g)
        BY <2>1, FreeComputed
      <3>2. QED
        BY <3>1 DEF ShowsWorkspace
    <2>3. asked = made /\ box = made
      <3>1. made = Computed(conf, f, g)
        OBVIOUS
      <3>2. /\ made = [folder |-> made.folder, mounts |-> made.mounts] /\ Plain(made.folder)
            /\ \A m \in made.mounts : m \in Mount /\ Plain(m.target)
        BY <2>2
      <3> HIDE DEF made
      <3>3. QED
        BY <3>1, <3>2, PlainStays
    <2>4. target = Target(conf, f, g)
      <3> DEFINE to == Target(conf, f, g)
                 tail == Below(Workspace, Len(root))
      <3>1. to \in Path /\ tail \in Path /\ Len(tail) = Len(Workspace) - Len(root)
        BY <2>2, TailIsPlain DEF Plain
      <3>2. Len(to) \in Nat /\ Len(root) \in Nat /\ Len(Workspace) \in Nat
        BY <3>1, <2>2, WorkspaceNamed, LenProperties DEF Path
      <3>3. box.folder = to \o tail
        BY <2>2, <2>3
      <3> HIDE DEF to, tail, box, root
      <3>4. Len(to \o tail) = Len(to) + Len(tail) /\ Above(to \o tail, Len(to)) = to
        BY <3>1, Joined, AboveJoined
      <3>5. Len(to \o tail) - Len(Workspace) + Len(root) = Len(to)
        BY <3>1, <3>2, <3>4
      <3>6. QED
        BY <3>3, <3>4, <3>5 DEF to
    <2>5. QED
      BY <2>2, <2>3, <2>4 DEF BoxShowsWorkspace
  <1>2. CASE /\ DOMAIN conf = {"folder", "mount"} /\ ContainerFolder \notin Range(conf.folder)
             /\ \E m \in Range(conf.mount) : m.source = Workspace /\ m.target = <<ContainerFolder>>
    <2>1. PICK one \in Path, two \in Path :
            /\ ~Remaps(conf, f, g)
            /\ asked = [folder |-> one, mounts |-> {[source |-> Workspace, target |-> one]}]
            /\ box = [folder |-> two, mounts |-> {[source |-> Workspace, target |-> two]}]
            /\ Identity \notin Range(one) => one = two
      BY <1>2, OwnComputed
    <2> DEFINE m == [source |-> Workspace, target |-> two]
    <2>2. m.source = Workspace /\ m.target = two /\ Workspace \in Path
      BY WorkspaceNamed
    <2> HIDE DEF m
    <2>3. Shows({m}, two) = {Workspace}
      BY <2>2, ShowsAt
    <2>4. box.folder = two /\ box.mounts = {m} /\ asked.folder = one
      BY <2>1 DEF m
    <2> HIDE DEF box, asked
    <2>5. QED
      BY <2>1, <2>3, <2>4 DEF box, asked, BoxShowsWorkspace
  <1>3. QED
    BY <1>1, <1>2 DEF Coherent

---------------------------------------------------------------------------
(* The steps: a container is what its up computed, and the last command's  *)
(* folder is what it computed of what it read.                             *)
MadeByUp(b) ==
  /\ b.git \in GitHosts /\ Legal(b.conf)
  /\ b.folder = UpWorkspace(b.conf, b.flags, b.git).folder
  /\ b.mounts = UpWorkspace(b.conf, b.flags, b.git).mounts
Reported(r) ==
  \/ r.verb = "none"
  \/ r.verb = "up" /\ r.folder = UpWorkspace(r.conf, r.flags, r.git).folder
  \/ /\ r.verb \in {"exec", "run-user-commands"}
     /\ r.folder = WorkspaceConfig(r.conf, Defaults(r.flags), r.git).folder
  \/ /\ r.verb = "read-configuration"
     /\ r.folder = WorkspaceConfig(r.conf, r.flags, r.git).folder
FolderInv ==
  /\ git \in GitHosts /\ override \in Documents
  /\ \A x \in DOMAIN documents : documents[x] \in Documents
  /\ \A x \in DOMAIN boxes : MadeByUp(boxes[x])
  /\ Reported(ran)

LEMMA LoadedIsLegal ==
  ASSUME FolderInv, NEW f, Loads(f)
  PROVE  Legal(Loaded(f))
  <1> DEFINE base == IF ConfFile(f) \in DOMAIN documents
                     THEN documents[ConfFile(f)].conf ELSE [k \in {} |-> 0]
  <1>1. Legal(base)
    <2>1. CASE ConfFile(f) \in DOMAIN documents
      BY <2>1, FolderAssumption DEF FolderInv, Loads
    <2>2. CASE ConfFile(f) \notin DOMAIN documents
      BY <2>2 DEF Legal
    <2>3. QED
      BY <2>1, <2>2
  <1>2. CASE f.override
    <2>1. Legal(override.conf)
      BY <1>2, FolderAssumption DEF FolderInv, Loads
    <2> HIDE DEF base
    <2> DEFINE over == override.conf
               merged == Merged(base, over)
    <2>2. /\ DOMAIN merged = DOMAIN base \cup DOMAIN over
          /\ \A k \in DOMAIN merged : merged[k] = IF k \in DOMAIN over THEN over[k] ELSE base[k]
      BY DEF Merged
    <2> HIDE DEF merged, over
    <2>3. Legal(merged)
      BY <2>1, <2>2, <1>1 DEF Legal, over
    <2>4. QED
      BY <2>3, <1>2 DEF Loaded, merged, over, base
  <1>3. CASE ~f.override
    BY <1>1, <1>3 DEF Loaded
  <1>4. QED
    BY <1>2, <1>3

LEMMA FolderInitial == FolderInit => FolderInv
  BY DEF FolderInit, FolderInv, Reported, Idle

LEMMA FolderInductive == FolderInv /\ [FolderNext]_folderVars => FolderInv'
  <1> SUFFICES ASSUME FolderInv, [FolderNext]_folderVars PROVE FolderInv'
    OBVIOUS
  <1>1. ASSUME NEW f \in Flags, UpRuns(f) PROVE FolderInv'
    <2>1. Loads(f) /\ Legal(Loaded(f))
      BY <1>1, LoadedIsLegal DEF UpRuns
    <2> DEFINE made == UpWorkspace(Loaded(f), f, git)
               b == [folder |-> made.folder, mounts |-> made.mounts, flags |-> f,
                     git |-> git, conf |-> Loaded(f)]
               r == [verb |-> "up", flags |-> f, file |-> ConfFile(f),
                     folder |-> made.folder, mounts |-> made.mounts, git |-> git, conf |-> Loaded(f)]
    <2>2. /\ ran' = r
          /\ git' = git /\ documents' = documents /\ override' = override
          /\ boxes' = IF ConfFile(f) \in DOMAIN boxes THEN boxes
                      ELSE [x \in DOMAIN boxes \cup {ConfFile(f)} |-> IF x # ConfFile(f) THEN boxes[x] ELSE b]
      BY <1>1 DEF UpRuns, Run
    <2>3. MadeByUp(b)
      BY <2>1 DEF MadeByUp, FolderInv
    <2>4. Reported(r)
      BY DEF Reported
    <2> HIDE DEF b, r
    <2>5. \A x \in DOMAIN boxes' : boxes'[x] = b \/ (x \in DOMAIN boxes /\ boxes'[x] = boxes[x])
      BY <2>2
    <2>6. \A x \in DOMAIN boxes' : MadeByUp(boxes'[x])
      BY <2>3, <2>5 DEF FolderInv
    <2>7. QED
      BY <2>2, <2>4, <2>6 DEF FolderInv, MadeByUp, Reported
  <1>2. ASSUME NEW f \in Flags, CommandRuns(f) PROVE FolderInv'
    <2>1. PICK verb \in {"exec", "run-user-commands"} :
            Run(verb, f, WorkspaceConfig(Loaded(f), Defaults(f), git))
      BY <1>2 DEF CommandRuns
    <2> DEFINE made == WorkspaceConfig(Loaded(f), Defaults(f), git)
               r == [verb |-> verb, flags |-> f, file |-> ConfFile(f),
                     folder |-> made.folder, mounts |-> made.mounts, git |-> git, conf |-> Loaded(f)]
    <2>2. /\ ran' = r
          /\ git' = git /\ documents' = documents /\ override' = override /\ boxes' = boxes
      BY <1>2, <2>1 DEF CommandRuns, Run
    <2>3. Reported(r)
      BY DEF Reported
    <2> HIDE DEF r
    <2>4. QED
      BY <2>2, <2>3 DEF FolderInv, MadeByUp, Reported
  <1>3. ASSUME NEW f \in Flags, ReadRuns(f) PROVE FolderInv'
    <2> DEFINE made == WorkspaceConfig(Loaded(f), f, git)
               r == [verb |-> "read-configuration", flags |-> f, file |-> ConfFile(f),
                     folder |-> made.folder, mounts |-> made.mounts, git |-> git, conf |-> Loaded(f)]
    <2>1. /\ ran' = r
          /\ git' = git /\ documents' = documents /\ override' = override /\ boxes' = boxes
      BY <1>3 DEF ReadRuns, Run
    <2>2. Reported(r)
      BY DEF Reported
    <2> HIDE DEF r
    <2>3. QED
      BY <2>1, <2>2 DEF FolderInv, MadeByUp, Reported
  <1>4. ASSUME NEW x \in DOMAIN boxes, RemoveBox(x) PROVE FolderInv'
    BY <1>4 DEF RemoveBox, FolderInv, MadeByUp, Reported
  <1>5. ASSUME NEW x, NEW d \in Documents, EditDocument(x, d) PROVE FolderInv'
    <2>1. \A y \in DOMAIN documents' : documents'[y] = d \/ (y \in DOMAIN documents /\ documents'[y] = documents[y])
      BY <1>5 DEF EditDocument, Merged
    <2>2. \A y \in DOMAIN documents' : documents'[y] \in Documents
      BY <2>1 DEF FolderInv
    <2>3. git' = git /\ override' = override /\ boxes' = boxes /\ ran' = ran
      BY <1>5 DEF EditDocument
    <2>4. QED
      BY <2>2, <2>3 DEF FolderInv, MadeByUp, Reported
  <1>6. ASSUME NEW x \in DOMAIN documents, RemoveDocument(x) PROVE FolderInv'
    BY <1>6 DEF RemoveDocument, FolderInv, MadeByUp, Reported
  <1>7. ASSUME NEW g \in GitHosts, ChangeGit(g) PROVE FolderInv'
    BY <1>7 DEF ChangeGit, FolderInv, MadeByUp, Reported
  <1>8. CASE UNCHANGED folderVars
    BY <1>8 DEF folderVars, FolderInv, MadeByUp, Reported
  <1>9. QED
    BY <1>1, <1>2, <1>3, <1>4, <1>5, <1>6, <1>7, <1>8 DEF FolderNext, FolderRest

LEMMA FolderInvSuffices == FolderInv => WorkspaceIsMounted
  <1> SUFFICES ASSUME FolderInv, Current, Coherent(Box.conf), SameFlags,
                      ran.verb \in {"exec", "run-user-commands"} => Defaults(ran.flags) = ran.flags,
                      ran.verb = "up" \/ Identity \notin Range(ran.folder)
               PROVE  /\ Shows(Box.mounts, ran.folder) = {Workspace}
                      /\ Remaps(Box.conf, Box.flags, git) =>
                           LET root == Source(Box.flags, git)
                               target == Above(Box.folder, Len(Box.folder) - Len(Workspace) + Len(root))
                           IN Shows(Box.mounts, Walk(target, git[root].to)) = {Walk(root, git[root].to)}
    BY DEF WorkspaceIsMounted
  <1> DEFINE conf == Box.conf
             f == Box.flags
             made == UpWorkspace(conf, f, git)
             asked == WorkspaceConfig(conf, f, git)
  <1>1. /\ ran.verb # "none" /\ Box.git = git /\ ran.git = git /\ ran.conf = conf /\ MadeByUp(Box) /\ Reported(ran)
        /\ f.gitRoot = ran.flags.gitRoot /\ f.commonDir = ran.flags.commonDir
    BY DEF FolderInv, Current, Box, SameFlags
  <1>2. git \in GitHosts /\ Legal(conf) /\ Box.folder = made.folder /\ Box.mounts = made.mounts
    BY <1>1 DEF MadeByUp
  <1>3. /\ UpWorkspace(conf, ran.flags, git) = made
        /\ WorkspaceConfig(conf, ran.flags, git) = asked
    BY <1>1, FlagsThatMatter
  <1>4. \/ ran.verb = "up" /\ ran.folder = made.folder
        \/ ran.verb # "up" /\ ran.folder = asked.folder
    BY <1>1, <1>3 DEF Reported
  <1> HIDE DEF conf, f
  <1>5. BoxShowsWorkspace(conf, f, git)
    <2>1. Coherent(conf)
      BY DEF conf
    <2>2. QED
      BY <2>1, <1>2, CoherentIsMounted
  <1>6. ran.folder = made.folder
    BY <1>4, <1>5 DEF BoxShowsWorkspace
  <1>7. QED
    BY <1>2, <1>5, <1>6 DEF conf, f, BoxShowsWorkspace

(* WorkspaceIsMounted, of every workspace, every .git that git may write   *)
(* around it and every legal configuration: what up computes and mounts    *)
(* (computeWorkspaceConfig, gitWorktreeCommonDirMount, upWorkspaceMounts)  *)
(* shows the workspace at the folder that the commands compute again, and  *)
(* a worktree's gitdir leads to the same folder there as on the host.      *)
THEOREM WorkspaceMounted == FolderSpec => []WorkspaceIsMounted
  <1>1. FolderInv /\ [FolderNext]_folderVars => FolderInv'
    BY FolderInductive
  <1>2. QED
    BY <1>1, FolderInitial, FolderInvSuffices, PTL DEF FolderSpec
=============================================================================
