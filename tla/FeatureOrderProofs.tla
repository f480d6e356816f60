-------------------------- MODULE FeatureOrderProofs --------------------------
(***************************************************************************)
(* What the run shows on small graphs of FeatureOrder and a few builds and *)
(* runs of FeatureStaging and FeatureTests, proved for every graph and for *)
(* any builds and runs.                                                    *)
(***************************************************************************)
EXTENDS FeatureOrder, FeatureStaging, FeatureTests, FiniteSetTheorems, SequenceTheorems, TLAPS

(* The elements of a concatenation are those of its parts.                 *)
LEMMA RangeOfConcat ==
  ASSUME NEW S, NEW s \in Seq(S), NEW t \in Seq(S)
  PROVE  Range(s \o t) = Range(s) \cup Range(t)
  <1>1. /\ Len(s) \in Nat /\ Len(t) \in Nat
        /\ DOMAIN s = 1..Len(s) /\ DOMAIN t = 1..Len(t)
        /\ DOMAIN (s \o t) = 1..(Len(s) + Len(t))
        /\ \A i \in 1..Len(s) : (s \o t)[i] = s[i]
        /\ \A i \in 1..Len(t) : (s \o t)[Len(s) + i] = t[i]
    BY LenProperties, ConcatProperties
  <1>2. \A i \in 1..(Len(s) + Len(t)) : i \in 1..Len(s) \/ \E k \in 1..Len(t) : i = Len(s) + k
    <2> SUFFICES ASSUME NEW i \in 1..(Len(s) + Len(t)), i \notin 1..Len(s)
                 PROVE  \E k \in 1..Len(t) : i = Len(s) + k
      OBVIOUS
    <2>1. i - Len(s) \in 1..Len(t) /\ i = Len(s) + (i - Len(s))
      BY <1>1
    <2>2. QED
      BY <2>1
  <1>3. \A i \in 1..Len(t) : Len(s) + i \in 1..(Len(s) + Len(t))
    BY <1>1
  <1>4. \A i \in 1..Len(s) : i \in 1..(Len(s) + Len(t))
    BY <1>1
  <1>5. \A x \in Range(s \o t) : x \in Range(s) \cup Range(t)
    <2> SUFFICES ASSUME NEW i \in 1..(Len(s) + Len(t)) PROVE (s \o t)[i] \in Range(s) \cup Range(t)
      BY <1>1 DEF Range
    <2>1. CASE i \in 1..Len(s)
      BY <1>1, <2>1 DEF Range
    <2>2. CASE i \notin 1..Len(s)
      <3>1. PICK k \in 1..Len(t) : i = Len(s) + k
        BY <1>2, <2>2
      <3>2. (s \o t)[i] = t[k] /\ k \in DOMAIN t
        BY <1>1, <3>1
      <3>3. QED
        BY <3>2 DEF Range
    <2>3. QED
      BY <2>1, <2>2
  <1>6. \A i \in DOMAIN s : s[i] \in Range(s \o t)
    BY <1>1, <1>4, Zenon DEF Range
  <1>7. \A i \in DOMAIN t : t[i] \in Range(s \o t)
    BY <1>1, <1>3, Zenon DEF Range
  <1>8. QED
    BY <1>5, <1>6, <1>7 DEF Range

(* Appending adds one element.                                             *)
LEMMA RangeOfAppend ==
  ASSUME NEW S, NEW s \in Seq(S), NEW e \in S
  PROVE  Append(s, e) \in Seq(S) /\ Range(Append(s, e)) = Range(s) \cup {e}
  <1>1. /\ Len(s) \in Nat /\ DOMAIN s = 1..Len(s)
        /\ Append(s, e) \in Seq(S)
        /\ DOMAIN Append(s, e) = 1..(Len(s) + 1)
        /\ \A i \in 1..Len(s) : Append(s, e)[i] = s[i]
        /\ Append(s, e)[Len(s) + 1] = e
    BY LenProperties, AppendProperties
  <1>2. \A i \in 1..(Len(s) + 1) : i \in 1..Len(s) \/ i = Len(s) + 1
    BY <1>1
  <1>3. /\ \A i \in 1..Len(s) : i \in 1..(Len(s) + 1)
        /\ Len(s) + 1 \in 1..(Len(s) + 1)
    BY <1>1
  <1>4. QED
    BY <1>1, <1>2, <1>3, Zenon DEF Range

(* Every element is the head or in the tail.                               *)
LEMMA RangeOfTail ==
  ASSUME NEW S, NEW s \in Seq(S), s # << >>
  PROVE  Head(s) \in S /\ Tail(s) \in Seq(S) /\ Range(s) = {Head(s)} \cup Range(Tail(s))
  <1>1. /\ Len(s) \in Nat \ {0} /\ DOMAIN s = 1..Len(s)
        /\ Head(s) \in S /\ Tail(s) \in Seq(S)
        /\ DOMAIN Tail(s) = 1..(Len(s) - 1)
        /\ Head(s) = s[1]
        /\ \A i \in 1..(Len(s) - 1) : Tail(s)[i] = s[i + 1]
    BY LenProperties, HeadTailProperties, EmptySeq
  <1>2. \A i \in 1..Len(s) : i = 1 \/ \E k \in 1..(Len(s) - 1) : i = k + 1
    <2> SUFFICES ASSUME NEW i \in 1..Len(s), i # 1
                 PROVE  \E k \in 1..(Len(s) - 1) : i = k + 1
      OBVIOUS
    <2>1. i - 1 \in 1..(Len(s) - 1) /\ i = (i - 1) + 1
      BY <1>1
    <2>2. QED
      BY <2>1
  <1>3. 1 \in 1..Len(s) /\ \A i \in 1..(Len(s) - 1) : i + 1 \in 1..Len(s)
    BY <1>1
  <1>4. \A i \in DOMAIN s : s[i] \in {Head(s)} \cup Range(Tail(s))
    <2> SUFFICES ASSUME NEW i \in 1..Len(s), i # 1 PROVE s[i] \in Range(Tail(s))
      BY <1>1
    <2>1. PICK k \in 1..(Len(s) - 1) : i = k + 1
      BY <1>2
    <2>2. k \in DOMAIN Tail(s) /\ Tail(s)[k] = s[i]
      BY <1>1, <2>1
    <2>3. QED
      BY <2>2, Zenon DEF Range
  <1>5. \A k \in DOMAIN Tail(s) : Tail(s)[k] \in Range(s)
    <2> SUFFICES ASSUME NEW k \in 1..(Len(s) - 1) PROVE Tail(s)[k] \in Range(s)
      BY <1>1
    <2>1. k + 1 \in DOMAIN s /\ Tail(s)[k] = s[k + 1]
      BY <1>1, <1>3
    <2>2. QED
      BY <2>1, Zenon DEF Range
  <1>6. Head(s) \in Range(s)
    BY <1>1, <1>3, Zenon DEF Range
  <1>7. Range(s) \subseteq {Head(s)} \cup Range(Tail(s))
    BY <1>4, Zenon DEF Range
  <1>8. Range(Tail(s)) \subseteq Range(s)
    BY <1>5, Zenon DEF Range
  <1>9. QED
    BY <1>1, <1>6, <1>7, <1>8

(* The elements of a sequence over a set are in it.                        *)
LEMMA RangeType ==
  ASSUME NEW S, NEW s \in Seq(S)
  PROVE  Range(s) \subseteq S
  BY LenProperties, ElementOfSeq DEF Range

(* The empty sequence has no elements.                                     *)
LEMMA RangeOfEmpty == Range(<< >>) = {}
  BY DEF Range

(* A round, listed, is a sequence of what can be installed.                *)
LEMMA RoundType ==
  ASSUME left \subseteq Refs, NEW s \in [1..Cardinality(InRound) -> InRound]
  PROVE  s \in Seq(Refs) /\ Range(s) \subseteq InRound /\ InRound \subseteq left
  <1>1. InRound \subseteq left
    BY DEF InRound, Ready
  <1>2. Cardinality(InRound) \in Nat
    BY <1>1, RelationsAssumption, FS_Subset, FS_CardinalityType
  <1>3. s \in Seq(Refs)
    BY <1>1, <1>2, SeqDef
  <1>4. \A i \in DOMAIN s : s[i] \in InRound
    OBVIOUS
  <1>5. Range(s) \subseteq InRound
    BY <1>4, Zenon DEF Range
  <1>6. QED
    BY <1>1, <1>3, <1>5
-----------------------------------------------------------------------------
(* The variables have their types at first.                                *)
LEMMA TypeInit == Init => TypeOK
  <1> SUFFICES ASSUME Init PROVE TypeOK
    OBVIOUS
  <1>1. input \in InputsOf
    BY InputsAssumption DEF Init
  <1>2. Len(input.overrides) \in Nat /\ worklist \in Seq(Refs)
    BY <1>1, LenProperties DEF Init, InputsOf
  <1>3. << >> \in Seq(Refs) /\ << >> \in Seq(SUBSET Refs)
    BY EmptySeq
  <1>4. turn \in 0..Len(input.overrides) /\ priority \in [Refs -> 0..Len(input.overrides)]
    BY <1>2 DEF Init
  <1>5. QED
    BY <1>1, <1>2, <1>3, <1>4 DEF Init, TypeOK

(* Every step keeps the types.                                             *)
LEMMA TypeStep == TypeOK /\ [Next]_vars => TypeOK'
  <1> SUFFICES ASSUME TypeOK, [Next]_vars PROVE TypeOK'
    OBVIOUS
  <1> USE DEF TypeOK, Outcomes
  <1>0. Len(input.overrides) \in Nat /\ input.overrides \in Seq(Refs)
    BY LenProperties DEF InputsOf
  <1>1. CASE Process
    <2>1. worklist # << >> /\ Head(worklist) \in Refs /\ Tail(worklist) \in Seq(Refs)
      BY <1>1, RangeOfTail DEF Process
    <2>2. /\ Tail(worklist) \o input.hard[Head(worklist)] \in Seq(Refs)
          /\ Append(acc, Head(worklist)) \in Seq(Refs)
      BY <2>1, ConcatProperties, AppendProperties DEF InputsOf
    <2>3. worklist' \in Seq(Refs) /\ acc' \in Seq(Refs)
      BY <1>1, <2>1, <2>2 DEF Process
    <2>4. QED
      BY <1>1, <2>3 DEF Process
  <1>2. CASE Resolved
    BY <1>2 DEF Resolved
  <1>3. CASE Override
    <2> DEFINE value == Len(input.overrides) - turn + 1
    <2>1. turn \in 1..Len(input.overrides) /\ value \in 0..Len(input.overrides)
          /\ turn - 1 \in 0..Len(input.overrides)
      BY <1>0, <1>3 DEF Override
    <2> HIDE DEF value
    <2>2. priority' \in [Refs -> 0..Len(input.overrides)] /\ turn' \in 0..Len(input.overrides)
      <3>1. CASE input.overrides[turn] \in input.broken
        BY <1>3, <3>1 DEF Override
      <3>2. CASE input.overrides[turn] \notin input.broken
        <4>1. /\ priority' = [r \in Refs |-> IF r \in Nodes /\ Meets(r, input.overrides[turn]) /\ value > priority[r]
                                             THEN value ELSE priority[r]]
              /\ turn' = turn - 1
          BY <1>3, <3>2 DEF Override, value
        <4>2. QED
          BY <2>1, <4>1
      <3>3. QED
        BY <3>1, <3>2
    <2>3. pc' \in {"unprocessed", pc} /\ UNCHANGED <<input, worklist, acc, waits, left, order, rounds>>
      BY <1>3 DEF Override
    <2>4. QED
      BY <2>2, <2>3
  <1>4. CASE Prune
    <2>1. Nodes \subseteq Refs
      BY RangeType DEF Nodes
    <2>2. waits' \in [Refs -> SUBSET Refs]
      BY <1>4 DEF Prune, InputsOf
    <2>3. QED
      BY <1>4, <2>1, <2>2 DEF Prune
  <1>5. CASE Round
    <2>1. PICK s \in [1..Cardinality(InRound) -> InRound] : order' = order \o s
      BY <1>5 DEF Round
    <2>2. s \in Seq(Refs) /\ InRound \subseteq Refs
      BY RoundType
    <2>3. order' \in Seq(Refs) /\ rounds' \in Seq(SUBSET Refs)
      BY <1>5, <2>1, <2>2, ConcatProperties, AppendProperties DEF Round
    <2>4. QED
      BY <1>5, <2>3 DEF Round
  <1>6. CASE Circular
    BY <1>6 DEF Circular
  <1>7. CASE Finished
    BY <1>7 DEF Finished
  <1>8. CASE Rest
    BY <1>8 DEF Rest, vars
  <1>9. CASE UNCHANGED vars
    BY <1>9 DEF vars
  <1>10. QED
    BY <1>1, <1>2, <1>3, <1>4, <1>5, <1>6, <1>7, <1>8, <1>9 DEF Next

(* Every state of graph.go and order.go has the types of its variables:    *)
(* priorities stay within the number of override entries.                  *)
THEOREM TypeCorrect == Spec => []TypeOK
  BY TypeInit, TypeStep, PTL DEF Spec
-----------------------------------------------------------------------------
(* Equal is reflexive and symmetric.                                       *)
LEMMA EqualProperties ==
  /\ \A r \in Refs : Equal(r, r)
  /\ \A a, b \in Refs : Equal(a, b) => Equal(b, a)
  BY RelationsAssumption DEF Equal

(* GraphInv holds at first.                                                *)
LEMMA GraphInit == Init => GraphInv
  <1> SUFFICES ASSUME Init PROVE GraphInv
    OBVIOUS
  <1>1. Nodes = {}
    BY RangeOfEmpty DEF Init, Nodes
  <1>2. Range(worklist) = Range(input.users)
    BY DEF Init
  <1>3. pc = "resolve"
    BY DEF Init
  <1>4. QED
    BY <1>1, <1>2, <1>3 DEF GraphInv

(* No step of the resolution loses or doubles a reference.                 *)
LEMMA GraphStep == TypeOK /\ GraphInv /\ [Next]_vars => GraphInv'
  <1> SUFFICES ASSUME TypeOK, GraphInv, [Next]_vars PROVE GraphInv'
    OBVIOUS
  <1>1. CASE Process
    <2> DEFINE current == Head(worklist)
    <2>0. input.hard[current] \in Seq(Refs) /\ input' = input
      BY <1>1, RangeOfTail DEF Process, TypeOK, InputsOf
    <2>1. /\ current \in Refs /\ Tail(worklist) \in Seq(Refs)
          /\ Range(worklist) = {current} \cup Range(Tail(worklist))
      BY <1>1, RangeOfTail DEF Process, TypeOK
    <2>2. Nodes \subseteq Refs
      BY RangeType DEF Nodes, TypeOK
    <2>3. CASE pc' = "unprocessed"
      <3>1. Nodes' = Nodes
        BY <1>1, <2>3 DEF Process, Nodes
      <3>2. QED
        BY <2>3, <3>1 DEF GraphInv
    <2>4. CASE pc' = "resolve" /\ (\E n \in Nodes : Equal(n, current))
      <3>1. worklist' = Tail(worklist) /\ acc' = acc
        BY <1>1, <2>4 DEF Process
      <3>2. Nodes' = Nodes /\ Range(worklist) = {current} \cup Range(worklist')
        BY <2>1, <3>1 DEF Nodes
      <3>3. pc = "resolve"
        BY <1>1 DEF Process
      <3>4. QED
        BY <2>0, <2>4, <3>2, <3>3 DEF GraphInv
    <2>5. CASE pc' = "resolve" /\ ~(\E n \in Nodes : Equal(n, current))
      <3>1. worklist' = Tail(worklist) \o input.hard[current] /\ acc' = Append(acc, current)
        BY <1>1, <2>5 DEF Process
      <3>2. Nodes' = Nodes \cup {current}
        <4>1. Range(Append(acc, current)) = Range(acc) \cup {current}
          BY <2>1, RangeOfAppend DEF TypeOK
        <4>2. QED
          BY <3>1, <4>1, Zenon DEF Nodes
      <3>3. Range(worklist') = Range(Tail(worklist)) \cup Range(input.hard[current])
        <4>1. Range(Tail(worklist) \o input.hard[current]) = Range(Tail(worklist)) \cup Range(input.hard[current])
          <5>1. \A s, t \in Seq(Refs) : Range(s \o t) = Range(s) \cup Range(t)
            BY RangeOfConcat
          <5>2. QED
            BY <2>0, <2>1, <5>1, Zenon
        <4>2. worklist' = Tail(worklist) \o input.hard[current]
          BY <3>1
        <4>3. QED
          BY <4>1, <4>2, Zenon
      <3>4. \A m, n \in Nodes' : Equal(m, n) => m = n
        BY <2>1, <2>2, <2>5, <3>2, EqualProperties DEF GraphInv
      <3>5. Equal(current, current)
        BY <2>1, EqualProperties
      <3>6. ASSUME NEW r \in Range(input.users) \cup UNION {Range(input.hard[n]) : n \in Nodes'}
            PROVE  r \in Range(worklist') \/ \E n \in Nodes' : Equal(n, r)
        <4>1. CASE r \in Range(input.hard[current])
          BY <3>3, <4>1
        <4>2. CASE r \in Range(input.users) \cup UNION {Range(input.hard[n]) : n \in Nodes}
          <5>1. r \in Range(worklist) \/ \E n \in Nodes : Equal(n, r)
            BY <1>1, <4>2 DEF GraphInv, Process
          <5>2. QED
            BY <2>1, <3>2, <3>3, <3>5, <5>1
        <4>3. QED
          BY <3>2, <4>1, <4>2
      <3>7. QED
        BY <2>0, <2>5, <3>4, <3>6 DEF GraphInv
    <2>6. pc' \in {"resolve", "unprocessed"}
      BY <1>1 DEF Process
    <2>7. QED
      BY <2>3, <2>4, <2>5, <2>6
  <1>2. CASE Resolved
    BY <1>2 DEF Resolved, GraphInv, Nodes
  <1>3. CASE Override
    BY <1>3 DEF Override, GraphInv, Nodes
  <1>4. CASE Prune
    BY <1>4 DEF Prune, GraphInv, Nodes
  <1>5. CASE Round
    BY <1>5 DEF Round, GraphInv, Nodes
  <1>6. CASE Circular
    BY <1>6 DEF Circular, GraphInv, Nodes
  <1>7. CASE Finished
    BY <1>7 DEF Finished, GraphInv, Nodes
  <1>8. CASE Rest
    BY <1>8 DEF Rest, vars, GraphInv, Nodes
  <1>9. CASE UNCHANGED vars
    BY <1>9 DEF vars, GraphInv, Nodes
  <1>10. QED
    BY <1>1, <1>2, <1>3, <1>4, <1>5, <1>6, <1>7, <1>8, <1>9 DEF Next
-----------------------------------------------------------------------------
(* OrderInv and DependenciesFirst hold at first.                           *)
LEMMA OrderInit == Init => OrderInv /\ DependenciesFirst
  <1> SUFFICES ASSUME Init PROVE OrderInv /\ DependenciesFirst
    OBVIOUS
  <1>1. order = << >> /\ left = {} /\ pc = "resolve" /\ DOMAIN order = {}
    BY DEF Init
  <1>2. QED
    BY <1>1 DEF OrderInv, DependenciesFirst

(* While nothing is installed, there is no order to go wrong.              *)
LEMMA NothingInstalled ==
  ASSUME OrderInv, order' = << >>, left' = {}, pc' \in {"resolve", "override", "unprocessed"}
  PROVE  OrderInv' /\ DependenciesFirst'
  <1>1. DOMAIN order' = {} /\ Installed' = {}
    BY RangeOfEmpty DEF Installed
  <1>2. QED
    BY <1>1 DEF OrderInv, DependenciesFirst

(* A round installs only what can be installed, after all before it.       *)
LEMMA RoundStep ==
  ASSUME TypeOK, GraphInv, OrderInv, DependenciesFirst, Round
  PROVE  OrderInv' /\ DependenciesFirst'
  <1> DEFINE old == Len(order)
  <1>1. PICK s \in [1..Cardinality(InRound) -> InRound] : Sorted(InRound, s) /\ order' = order \o s
    BY DEF Round
  <1>2. /\ s \in Seq(Refs) /\ order \in Seq(Refs) /\ left \subseteq Refs
        /\ Range(s) \subseteq InRound /\ InRound \subseteq left
    BY RoundType DEF TypeOK
  <1>3. Range(s) = InRound
    BY <1>1, <1>2, Zenon DEF Sorted, Range
  <1>4. Installed' = Installed \cup InRound
    BY <1>1, <1>2, <1>3, RangeOfConcat DEF Installed
  <1>5. /\ UNCHANGED <<input, pc, acc, waits>> /\ Nodes' = Nodes /\ pc = "round"
        /\ left' = {n \in left : ~\E r \in InRound : Equal(n, r)}
    BY DEF Round, Nodes
  <1>6. Nodes = Installed \cup left /\ Installed \cap left = {} /\ Nodes \subseteq Refs
    BY <1>5, RangeType DEF OrderInv, Nodes, TypeOK
  <1>7. left' = left \ InRound
    BY <1>2, <1>5, <1>6, EqualProperties DEF GraphInv
  <1>8. /\ DOMAIN order = 1..old /\ old \in Nat /\ DOMAIN s = 1..Len(s) /\ Len(s) \in Nat
        /\ DOMAIN order' = 1..(old + Len(s))
        /\ \A i \in 1..old : order'[i] = order[i]
        /\ \A i \in 1..Len(s) : order'[old + i] = s[i]
    <2>1. /\ DOMAIN (order \o s) = 1..(old + Len(s))
          /\ \A i \in 1..old : (order \o s)[i] = order[i]
          /\ \A i \in 1..Len(s) : (order \o s)[old + i] = s[i]
      BY <1>2, LenProperties, ConcatProperties
    <2>2. QED
      BY <1>1, <1>2, <2>1, LenProperties
  <1> HIDE DEF old
  <1>9. ASSUME NEW i \in DOMAIN order', i \notin 1..old
        PROVE  \E k \in DOMAIN s : i = old + k /\ order'[i] = s[k]
    <2>1. i - old \in 1..Len(s) /\ i = old + (i - old)
      BY <1>8, <1>9
    <2>2. QED
      BY <1>8, <2>1
  <1>10. \A i \in 1..old : order[i] \in Installed
    BY <1>8, Zenon DEF Installed, Range
  <1>11. \A k \in DOMAIN s : s[k] \in InRound
    OBVIOUS
  <1>12. ASSUME NEW i \in DOMAIN order', NEW j \in DOMAIN order', i # j
         PROVE  order'[i] # order'[j]
    <2>1. CASE i \in 1..old /\ j \in 1..old
      BY <1>8, <1>12, <2>1 DEF OrderInv
    <2>2. CASE i \in 1..old /\ j \notin 1..old
      BY <1>2, <1>6, <1>8, <1>9, <1>10, <1>11, <2>2
    <2>3. CASE i \notin 1..old /\ j \in 1..old
      BY <1>2, <1>6, <1>8, <1>9, <1>10, <1>11, <2>3
    <2>4. CASE i \notin 1..old /\ j \notin 1..old
      <3>1. PICK k \in DOMAIN s : i = old + k /\ order'[i] = s[k]
        BY <1>9, <2>4
      <3>2. PICK l \in DOMAIN s : j = old + l /\ order'[j] = s[l]
        BY <1>9, <2>4
      <3>3. k < l \/ l < k
        BY <1>8, <1>12, <3>1, <3>2
      <3>4. \A a, b \in DOMAIN s : a < b => s[a] # s[b]
        BY <1>1 DEF Sorted
      <3>5. QED
        BY <3>1, <3>2, <3>3, <3>4
    <2>5. QED
      BY <2>1, <2>2, <2>3, <2>4
  <1>13. OrderInv'
    <2>1. Nodes' = Installed' \cup left' /\ Installed' \cap left' = {}
      BY <1>2, <1>4, <1>5, <1>6, <1>7
    <2>2. \A r \in Nodes' : waits'[r] = {x \in input'.soft[r] : \E n \in Nodes' : Meets(n, x)}
      BY <1>5 DEF OrderInv
    <2>3. QED
      BY <1>5, <1>12, <2>1, <2>2 DEF OrderInv
  <1>14. ASSUME NEW i \in DOMAIN order'
         PROVE  /\ \A d \in Range(input.hard[order'[i]]) : \E n \in Before(i)' : Equal(n, d)
                /\ \A x \in input.soft[order'[i]] :
                     (\E n \in Nodes : Meets(n, x)) => \E n \in Before(i)' : Meets(n, x)
    <2>1. CASE i \in 1..old
      <3>1. Before(i)' = Before(i)
        BY <1>8, <2>1 DEF Before
      <3>2. order'[i] = order[i] /\ i \in DOMAIN order
        BY <1>8, <2>1
      <3>3. QED
        BY <3>1, <3>2 DEF DependenciesFirst
    <2>2. CASE i \notin 1..old
      <3>1. PICK k \in DOMAIN s : i = old + k /\ order'[i] = s[k]
        BY <1>9, <2>2
      <3>2. s[k] \in left /\ CanInstall(s[k])
        BY <1>11 DEF InRound, Ready
      <3>3. \A m \in 1..old : m \in 1..(i - 1) /\ order'[m] = order[m]
        BY <1>8, <3>1
      <3>4. Installed \subseteq Before(i)'
        BY <1>8, <3>3, Zenon DEF Installed, Range, Before
      <3>5. waits[s[k]] = {x \in input.soft[s[k]] : \E n \in Nodes : Meets(n, x)}
        BY <1>5, <1>6, <3>2 DEF OrderInv
      <3>6. QED
        BY <3>1, <3>2, <3>4, <3>5 DEF CanInstall
    <2>3. QED
      BY <2>1, <2>2
  <1>15. DependenciesFirst'
    BY <1>5, <1>14 DEF DependenciesFirst
  <1>16. QED
    BY <1>13, <1>15

(* Every step of the rounds keeps installed and left apart and the         *)
(* dependencies first.                                                     *)
LEMMA OrderStep ==
  TypeOK /\ GraphInv /\ OrderInv /\ DependenciesFirst /\ [Next]_vars => (OrderInv /\ DependenciesFirst)'
  <1> SUFFICES ASSUME TypeOK, GraphInv, OrderInv, DependenciesFirst, [Next]_vars
               PROVE  (OrderInv /\ DependenciesFirst)'
    OBVIOUS
  <1>1. CASE Process
    <2>1. order' = << >> /\ left' = {} /\ pc' \in {"resolve", "unprocessed"}
      BY <1>1 DEF Process, OrderInv
    <2>2. QED
      BY <2>1, NothingInstalled
  <1>2. CASE Resolved
    <2>1. order' = << >> /\ left' = {} /\ pc' = "override"
      BY <1>2 DEF Resolved, OrderInv
    <2>2. QED
      BY <2>1, NothingInstalled
  <1>3. CASE Override
    <2>1. order' = << >> /\ left' = {} /\ pc' \in {"override", "unprocessed"}
      BY <1>3 DEF Override, OrderInv
    <2>2. QED
      BY <2>1, NothingInstalled
  <1>4. CASE Prune
    <2>1. /\ order' = << >> /\ DOMAIN order' = {} /\ Installed' = {} /\ left' = Nodes' /\ Nodes' = Nodes
          /\ pc' = "round" /\ input' = input
      BY <1>4, RangeOfEmpty DEF Prune, OrderInv, Installed, Nodes
    <2>2. Nodes \subseteq Refs
      BY RangeType DEF Nodes, TypeOK
    <2>3. \A r \in Nodes' : waits'[r] = {x \in input'.soft[r] : \E n \in Nodes' : Meets(n, x)}
      BY <1>4, <2>1, <2>2 DEF Prune
    <2>4. QED
      BY <2>1, <2>3 DEF OrderInv, DependenciesFirst
  <1>5. CASE Round
    BY <1>5, RoundStep
  <1>6. CASE Circular
    <2>1. UNCHANGED <<input, acc, waits, left, order>> /\ pc' = "circular" /\ pc = "round" /\ left # {} /\ Ready = {}
      BY <1>6 DEF Circular
    <2>2. Ready' = Ready /\ Installed' = Installed /\ Nodes' = Nodes
      BY <2>1 DEF Ready, CanInstall, Installed, Nodes
    <2>3. OrderInv'
      BY <2>1, <2>2 DEF OrderInv
    <2>4. QED
      BY <2>1, <2>2, <2>3 DEF DependenciesFirst, Before
  <1>7. CASE Finished
    <2>1. UNCHANGED <<input, acc, waits, left, order>> /\ pc' = "done" /\ pc = "round" /\ left = {}
      BY <1>7 DEF Finished
    <2>2. Installed' = Installed /\ Nodes' = Nodes
      BY <2>1 DEF Installed, Nodes
    <2>3. OrderInv'
      BY <2>1, <2>2 DEF OrderInv
    <2>4. QED
      BY <2>1, <2>2, <2>3 DEF DependenciesFirst, Before
  <1>8. CASE UNCHANGED vars
    <2>1. UNCHANGED <<input, pc, acc, waits, left, order>>
      BY <1>8 DEF vars
    <2>2. Ready' = Ready /\ Installed' = Installed /\ Nodes' = Nodes
      BY <2>1 DEF Ready, CanInstall, Installed, Nodes
    <2>3. OrderInv'
      BY <2>1, <2>2 DEF OrderInv
    <2>4. QED
      BY <2>1, <2>2, <2>3 DEF DependenciesFirst, Before
  <1>9. CASE Rest
    BY <1>8, <1>9 DEF Rest
  <1>10. QED
    BY <1>1, <1>2, <1>3, <1>4, <1>5, <1>6, <1>7, <1>8, <1>9 DEF Next

(* graph.go and order.go: IInv, from which the theorems below follow, is   *)
(* an invariant of every resolution and ordering.                          *)
THEOREM Inductive == Spec => []IInv
  <1>1. Init => IInv
    BY TypeInit, GraphInit, OrderInit DEF IInv
  <1>2. IInv /\ [Next]_vars => IInv'
    BY TypeStep, GraphStep, OrderStep DEF IInv
  <1>3. QED
    BY <1>1, <1>2, PTL DEF Spec

(* order.go canInstall: for every graph, a Feature is installed after all  *)
(* it depends on and after one Feature that meets each soft dependency     *)
(* that some Feature of the graph meets.                                   *)
THEOREM DependenciesInstalledFirst == Spec => []DependenciesFirst
  <1>1. IInv => DependenciesFirst
    BY DEF IInv
  <1>2. QED
    BY <1>1, Inductive, PTL

(* graph.go and order.go: for every graph, the order that is returned has  *)
(* all that is asked for, and no Feature with the same options twice.      *)
THEOREM EverythingInstalledOnce == Spec => []CompleteOnce
  <1>1. IInv => CompleteOnce
    <2> SUFFICES ASSUME IInv, pc = "done"
                 PROVE  /\ \A r \in Range(input.users) \cup UNION {Range(input.hard[n]) : n \in Installed} :
                             \E n \in Installed : Equal(n, r)
                        /\ \A i, j \in DOMAIN order : i < j => ~Equal(order[i], order[j])
      BY DEF CompleteOnce
    <2>1. Installed = Nodes /\ Range(worklist) = {}
      BY RangeOfEmpty DEF IInv, OrderInv, GraphInv
    <2>2. ASSUME NEW i \in DOMAIN order, NEW j \in DOMAIN order, i < j
          PROVE  ~Equal(order[i], order[j])
      <3>1. order[i] \in Nodes /\ order[j] \in Nodes
        BY <2>1, Zenon DEF Installed, Range
      <3>2. i # j
        BY <2>2, LenProperties DEF IInv, TypeOK
      <3>3. QED
        BY <3>1, <3>2 DEF IInv, OrderInv, GraphInv
    <2>3. QED
      BY <2>1, <2>2 DEF IInv, GraphInv
  <1>2. QED
    BY <1>1, Inductive, PTL

(* order.go: for every graph, the Features reported as circular each wait  *)
(* for another of them, so a graph without a cycle is never refused.       *)
THEOREM ReportedCyclesAreReal == Spec => []CircularIsReal
  <1>1. IInv => CircularIsReal
    <2> SUFFICES ASSUME IInv, pc = "circular", NEW r \in left
                 PROVE  left # {} /\ Blocks(r) # {}
      BY DEF CircularIsReal, IInv, OrderInv
    <2>1. left # {} /\ ~CanInstall(r)
      BY DEF IInv, OrderInv, Ready
    <2>2. Nodes = Installed \cup left /\ r \in Nodes /\ Range(worklist) = {}
      BY RangeOfEmpty DEF IInv, OrderInv, GraphInv
    <2>3. CASE \E d \in Range(input.hard[r]) : ~\E n \in Installed : Equal(n, d)
      <3>1. PICK d \in Range(input.hard[r]) : ~\E n \in Installed : Equal(n, d)
        BY <2>3
      <3>2. \E n \in Nodes : Equal(n, d)
        BY <2>2 DEF IInv, GraphInv
      <3>3. QED
        BY <2>1, <2>2, <3>1, <3>2 DEF Blocks
    <2>4. CASE \E x \in waits[r] : ~\E n \in Installed : Meets(n, x)
      <3>1. PICK x \in waits[r] : ~\E n \in Installed : Meets(n, x)
        BY <2>4
      <3>2. \E n \in Nodes : Meets(n, x)
        BY <2>2 DEF IInv, OrderInv
      <3>3. QED
        BY <2>1, <2>2, <3>1, <3>2 DEF Blocks
    <2>5. QED
      BY <2>1, <2>3, <2>4 DEF CanInstall
  <1>2. QED
    BY <1>1, Inductive, PTL

-----------------------------------------------------------------------------
(***************************************************************************)
(* OverrideHonoured: what a node was raised to by the entries seen so far, *)
(* and what kept it out of the rounds that are made.                       *)
(***************************************************************************)
Entries == Len(input.overrides)

(* The entries after t have been seen: the first of them that r meets      *)
(* decides its priority.                                                   *)
RaisedAfter(t, r) ==
  /\ \A i \in (t + 1)..Entries : Meets(r, input.overrides[i]) => priority[r] >= Entries + 1 - i
  /\ priority[r] = 0
     \/ \E i \in (t + 1)..Entries : Meets(r, input.overrides[i]) /\ priority[r] = Entries + 1 - i

InRoundsBefore(i) == UNION {rounds[k] : k \in 1..(i - 1)}

(* With only S installed, y cannot be.                                     *)
HeldBack(y, S) ==
  \/ \E d \in Range(input.hard[y]) : ~\E n \in S : Equal(n, d)
  \/ \E s \in input.soft[y] : (\E n \in Nodes : Meets(n, s)) /\ ~\E n \in S : Meets(n, s)

PriorityInv ==
  /\ pc = "resolve" => turn = Entries /\ priority = [r \in Refs |-> 0]
  /\ pc = "override" => \A r \in Nodes : RaisedAfter(turn, r)
  /\ pc \in {"round", "done", "circular"} => \A r \in Nodes : RaisedAfter(0, r)

(* What is left had to wait for each round made without it that has a      *)
(* Feature of a lower priority.                                            *)
RoundsInv ==
  /\ pc \in {"resolve", "override", "unprocessed"} => rounds = << >>
  /\ Installed = UNION {rounds[k] : k \in DOMAIN rounds}
  /\ \A i \in DOMAIN rounds : \A x \in rounds[i], y \in left :
       Asked(x) < Asked(y) => HeldBack(y, InRoundsBefore(i))
  /\ OverrideHonoured

(* The priority a node ends with is the one that was asked for.            *)
LEMMA AskedFor ==
  ASSUME TypeOK, NEW r \in Refs, RaisedAfter(0, r)
  PROVE  Asked(r) = priority[r]
<1> DEFINE entries == {i \in DOMAIN input.overrides : Meets(r, input.overrides[i])}
           First(c) == c \in entries /\ \A j \in entries : c <= j
<1>1. Entries \in Nat /\ DOMAIN input.overrides = 1..Entries /\ priority[r] \in 0..Entries
  BY LenProperties DEF TypeOK, InputsOf, Entries
<1>2. CASE entries = {}
  <2>1. \A i \in 1..Entries : ~Meets(r, input.overrides[i])
    BY <1>1, <1>2
  <2>2. priority[r] = 0
    BY <1>1, <2>1 DEF RaisedAfter
  <2> QED BY <1>2, <2>2 DEF Asked
<1>3. CASE entries # {}
  <2>1. PICK i \in 1..Entries : Meets(r, input.overrides[i]) /\ priority[r] = Entries + 1 - i
    BY <1>1, <1>3 DEF RaisedAfter
  <2>2. First(i)
    BY <1>1, <2>1 DEF RaisedAfter
  <2>3. \A c : First(c) => c = i
    BY <1>1, <2>2
  <2>4. (CHOOSE c \in entries : \A j \in entries : c <= j) = i
    BY <2>2, <2>3
  <2> QED BY <1>3, <2>1, <2>4 DEF Asked, Entries
<1> QED BY <1>2, <1>3

(* An entry raises the nodes that meet it, above what later ones did.      *)
LEMMA PriorityStep ==
  ASSUME TypeOK, PriorityInv, [Next]_vars
  PROVE  PriorityInv'
<1>1. Entries \in Nat /\ turn \in 0..Entries /\ DOMAIN input.overrides = 1..Entries
      /\ priority \in [Refs -> 0..Entries] /\ Nodes \subseteq Refs
  BY LenProperties, RangeType DEF TypeOK, InputsOf, Entries, Nodes
<1>2. ASSUME UNCHANGED <<input, priority, turn>>
      PROVE  Entries' = Entries /\ \A t, r : RaisedAfter(t, r)' <=> RaisedAfter(t, r)
  BY <1>2 DEF RaisedAfter, Entries
<1>3. CASE Process
  BY <1>2, <1>3 DEF Process, PriorityInv
<1>4. CASE Resolved
  <2>1. UNCHANGED <<input, priority, turn, acc>> /\ pc = "resolve" /\ pc' = "override" /\ Nodes' = Nodes
    BY <1>4 DEF Resolved, Nodes
  <2>2. \A r \in Nodes : RaisedAfter(turn, r)
    BY <1>1, <2>1 DEF PriorityInv, RaisedAfter
  <2> QED BY <1>2, <2>1, <2>2 DEF PriorityInv
<1>5. CASE Override
  <2> DEFINE value == Entries - turn + 1
  <2>1. pc = "override" /\ UNCHANGED <<input, acc>> /\ turn \in 1..Entries /\ Entries' = Entries /\ Nodes' = Nodes
    BY <1>1, <1>5 DEF Override, Entries, Nodes
  <2>2. CASE input.overrides[turn] \in input.broken
    BY <1>5, <2>2 DEF Override, PriorityInv
  <2>3. CASE input.overrides[turn] \notin input.broken
    <3>1. /\ priority' = [r \in Refs |-> IF r \in Nodes /\ Meets(r, input.overrides[turn]) /\ value > priority[r]
                                         THEN value ELSE priority[r]]
          /\ turn' = turn - 1 /\ pc' = "override"
      BY <1>5, <2>1, <2>3 DEF Override, Entries
    <3>2. ASSUME NEW r \in Nodes PROVE RaisedAfter(turn, r)'
      <4>1. RaisedAfter(turn, r) /\ priority[r] \in 0..Entries
        BY <1>1, <2>1 DEF PriorityInv
      <4>2. priority[r] < value
        BY <1>1, <2>1, <4>1 DEF RaisedAfter
      <4>3. priority'[r] = IF Meets(r, input.overrides[turn]) THEN value ELSE priority[r]
        BY <1>1, <3>1, <4>2
      <4>4. \A i \in ((turn - 1) + 1)..Entries : i = turn \/ i \in (turn + 1)..Entries
        BY <2>1
      <4>5. turn \in ((turn - 1) + 1)..Entries /\ \A i \in (turn + 1)..Entries : i \in ((turn - 1) + 1)..Entries
        BY <2>1
      <4>6. CASE Meets(r, input.overrides[turn])
        BY <1>1, <2>1, <3>1, <4>1, <4>2, <4>3, <4>4, <4>5, <4>6 DEF RaisedAfter, Meets
      <4>7. CASE ~Meets(r, input.overrides[turn])
        BY <1>1, <2>1, <3>1, <4>1, <4>3, <4>4, <4>5, <4>7 DEF RaisedAfter, Meets
      <4> QED BY <4>6, <4>7
    <3> QED BY <2>1, <3>1, <3>2 DEF PriorityInv
  <2> QED BY <2>2, <2>3
<1>6. CASE Prune
  <2>1. UNCHANGED <<input, priority, turn, acc>> /\ pc = "override" /\ pc' = "round" /\ turn = 0 /\ Nodes' = Nodes
    BY <1>6 DEF Prune, Nodes
  <2> QED BY <1>2, <2>1 DEF PriorityInv
<1>7. ASSUME Round \/ Circular \/ Finished \/ Rest \/ UNCHANGED vars
      PROVE  PriorityInv'
  <2>1. UNCHANGED <<input, priority, turn, acc>> /\ Nodes' = Nodes
        /\ (pc' = pc \/ (pc = "round" /\ pc' \in {"circular", "done"}))
    BY <1>7 DEF Round, Circular, Finished, Rest, vars, Nodes
  <2> QED BY <1>2, <2>1 DEF PriorityInv
<1> QED BY <1>3, <1>4, <1>5, <1>6, <1>7 DEF Next

(* A round leaves out only what has no higher priority or has to wait.     *)
LEMMA RoundHonours ==
  ASSUME IInv, PriorityInv, RoundsInv, Round
  PROVE  RoundsInv'
<1> DEFINE last == Len(rounds) + 1
<1>1. PICK s \in [1..Cardinality(InRound) -> InRound] : Sorted(InRound, s) /\ order' = order \o s
  BY DEF Round
<1>2. /\ s \in Seq(Refs) /\ order \in Seq(Refs) /\ left \subseteq Refs
      /\ Range(s) \subseteq InRound /\ InRound \subseteq left
  BY <1>1, RoundType DEF IInv, TypeOK
<1>3. Range(s) = InRound
  BY <1>1, <1>2, Zenon DEF Sorted, Range
<1>4. Installed' = Installed \cup InRound
  BY <1>1, <1>2, <1>3, RangeOfConcat DEF Installed
<1>5. /\ UNCHANGED <<input, pc, acc, waits, priority>> /\ Nodes' = Nodes /\ pc = "round"
      /\ left' \subseteq left /\ rounds' = Append(rounds, InRound)
  BY DEF Round, Nodes
<1>6. rounds \in Seq(SUBSET Refs) /\ InRound \in SUBSET Refs
  BY <1>2 DEF IInv, TypeOK
<1>7. /\ Len(rounds) \in Nat /\ DOMAIN rounds = 1..Len(rounds) /\ DOMAIN rounds' = 1..last
      /\ rounds'[last] = InRound /\ \A i \in 1..Len(rounds) : rounds'[i] = rounds[i]
  BY <1>5, <1>6, LenProperties, AppendProperties
<1> HIDE DEF last
<1>8. last = Len(rounds) + 1
  BY DEF last
<1>9. \A i \in 1..last : InRoundsBefore(i)' = InRoundsBefore(i)
  <2> SUFFICES ASSUME NEW i \in 1..last PROVE InRoundsBefore(i)' = InRoundsBefore(i)
    OBVIOUS
  <2>1. \A k \in 1..(i - 1) : rounds'[k] = rounds[k]
    BY <1>7, <1>8
  <2> QED BY <2>1 DEF InRoundsBefore
<1>10. InRoundsBefore(last) = Installed
  <2>1. 1..(last - 1) = DOMAIN rounds
    BY <1>7, <1>8
  <2> QED BY <2>1 DEF InRoundsBefore, RoundsInv
<1>11. \A x : Asked(x)' = Asked(x)
  BY <1>5 DEF Asked
<1>12. \A y, S : HeldBack(y, S)' <=> HeldBack(y, S)
  BY <1>5 DEF HeldBack
<1>13. Installed' = UNION {rounds'[k] : k \in DOMAIN rounds'}
  <2>1. Installed = UNION {rounds[k] : k \in 1..Len(rounds)}
    BY <1>7 DEF RoundsInv
  <2>2. \A k : k \in 1..last <=> k = last \/ k \in 1..Len(rounds)
    BY <1>7, <1>8
  <2> QED BY <1>4, <1>7, <2>1, <2>2
<1>14. ASSUME NEW x \in InRound, NEW y \in left, Asked(x) < Asked(y)
       PROVE  HeldBack(y, Installed)
  <2>1. left \subseteq Nodes /\ waits[y] = {d \in input.soft[y] : \E n \in Nodes : Meets(n, d)}
    BY <1>5 DEF IInv, OrderInv
  <2>2. Asked(x) = priority[x] /\ Asked(y) = priority[y]
    BY <1>2, <1>5, <2>1, AskedFor DEF IInv, PriorityInv
  <2>3. priority[x] \in Int /\ priority[y] \in Int
    BY <1>2 DEF IInv, TypeOK
  <2>4. ~CanInstall(y)
    BY <1>14, <2>2, <2>3 DEF InRound, Ready
  <2> QED BY <2>1, <2>4 DEF CanInstall, HeldBack
<1>15. ASSUME NEW i \in DOMAIN rounds', NEW x \in rounds'[i], NEW y \in left', Asked(x) < Asked(y)
       PROVE  HeldBack(y, InRoundsBefore(i)')
  <2>1. CASE i = last
    BY <1>5, <1>7, <1>9, <1>10, <1>14, <1>15, <2>1
  <2>2. CASE i # last
    <3>1. i \in 1..Len(rounds)
      BY <1>7, <1>8, <2>2
    <3> QED BY <1>5, <1>7, <1>9, <1>15, <3>1 DEF RoundsInv
  <2> QED BY <2>1, <2>2
<1>16. ASSUME NEW i \in DOMAIN rounds', NEW j \in DOMAIN rounds', i < j,
              NEW x \in rounds'[i], NEW y \in rounds'[j], Asked(x) < Asked(y)
       PROVE  HeldBack(y, InRoundsBefore(i)')
  <2>1. i \in 1..Len(rounds) /\ (j = last \/ j \in 1..Len(rounds))
    BY <1>7, <1>8, <1>16
  <2>2. CASE j = last
    BY <1>2, <1>7, <1>9, <1>16, <2>1, <2>2 DEF RoundsInv
  <2>3. CASE j \in 1..Len(rounds)
    <3>1. HeldBack(y, InRoundsBefore(i))
      BY <1>7, <1>16, <2>1, <2>3 DEF RoundsInv, OverrideHonoured, HeldBack, InRoundsBefore
    <3> QED BY <1>7, <1>9, <3>1
  <2> QED BY <2>1, <2>2, <2>3
<1>17. OverrideHonoured'
  BY <1>11, <1>12, <1>16 DEF OverrideHonoured, HeldBack, InRoundsBefore
<1> QED BY <1>5, <1>11, <1>12, <1>13, <1>15, <1>17 DEF RoundsInv

(* Every other step makes no round.                                        *)
LEMMA RoundsStep ==
  ASSUME IInv, PriorityInv, RoundsInv, [Next]_vars
  PROVE  RoundsInv'
<1>1. CASE Round
  BY <1>1, RoundHonours
<1>2. CASE Process \/ Resolved \/ Override \/ Prune
  <2>1. pc \in {"resolve", "override"} /\ UNCHANGED <<order, rounds>>
    BY <1>2 DEF Process, Resolved, Override, Prune
  <2>2. rounds' = << >> /\ order' = << >> /\ DOMAIN rounds' = {}
    BY <2>1 DEF RoundsInv, IInv, OrderInv
  <2>3. Installed' = {} /\ UNION {rounds'[k] : k \in DOMAIN rounds'} = {}
    BY <2>2, RangeOfEmpty DEF Installed
  <2> QED BY <2>2, <2>3 DEF RoundsInv, OverrideHonoured
<1>3. CASE Circular \/ Finished \/ Rest \/ UNCHANGED vars
  <2>1. UNCHANGED <<input, acc, left, order, rounds>>
        /\ (pc' = pc \/ (pc = "round" /\ pc' \in {"circular", "done"}))
    BY <1>3 DEF Circular, Finished, Rest, vars
  <2>2. Installed' = Installed /\ Nodes' = Nodes /\ (\A x : Asked(x)' = Asked(x))
        /\ (\A i : InRoundsBefore(i)' = InRoundsBefore(i))
    BY <2>1 DEF Installed, Nodes, Asked, InRoundsBefore
  <2>3. \A y, S : HeldBack(y, S)' <=> HeldBack(y, S)
    BY <2>1, <2>2 DEF HeldBack
  <2>4. OverrideHonoured'
    BY <2>1, <2>2 DEF RoundsInv, OverrideHonoured
  <2> QED BY <2>1, <2>2, <2>3, <2>4 DEF RoundsInv
<1> QED BY <1>1, <1>2, <1>3 DEF Next

(* graph.go applyOverrideFeatureInstallOrder and order.go: for every       *)
(* graph, a Feature that overrideFeatureInstallOrder puts before another   *)
(* is in a later round only when one of its dependencies made it wait.     *)
THEOREM OverridesAreHonoured == Spec => []OverrideHonoured
<1>1. Init => PriorityInv /\ RoundsInv
  <2> SUFFICES ASSUME Init PROVE PriorityInv /\ RoundsInv
    OBVIOUS
  <2>1. rounds = << >> /\ order = << >> /\ left = {} /\ pc = "resolve" /\ DOMAIN rounds = {}
    BY DEF Init
  <2>2. Installed = {} /\ UNION {rounds[k] : k \in DOMAIN rounds} = {}
    BY <2>1, RangeOfEmpty DEF Installed
  <2> QED BY <2>1, <2>2 DEF Init, PriorityInv, Entries, RoundsInv, OverrideHonoured
<1>2. IInv /\ PriorityInv /\ RoundsInv /\ [Next]_vars => (PriorityInv /\ RoundsInv)'
  BY PriorityStep, RoundsStep DEF IInv
<1>3. RoundsInv => OverrideHonoured
  BY DEF RoundsInv
<1> QED BY <1>1, <1>2, <1>3, Inductive, PTL DEF Spec

-----------------------------------------------------------------------------
(***************************************************************************)
(* `features test`: what a run's exit code says.                           *)
(***************************************************************************)
RunFields == {"opts", "pc", "folders", "tests", "of", "project", "results", "doomed", "exit"}

(* A step changes the fields it names of its run, and no other run.        *)
LEMMA ToEffect ==
  ASSUME NEW r \in TestRuns, NEW changes, To(r, changes), DOMAIN changes \subseteq RunFields,
         DOMAIN run = TestRuns, DOMAIN run[r] = RunFields
  PROVE  /\ DOMAIN run' = TestRuns /\ DOMAIN run'[r] = RunFields
         /\ \A q \in TestRuns \ {r} : run'[q] = run[q]
         /\ \A x \in RunFields : run'[r][x] = IF x \in DOMAIN changes THEN changes[x] ELSE run[r][x]
  <1> DEFINE new == [x \in DOMAIN run[r] |-> IF x \in DOMAIN changes THEN changes[x] ELSE run[r][x]]
  <1>1. run' = [run EXCEPT ![r] = new]
    BY DEF To
  <1>2. DOMAIN new = RunFields /\ \A x \in RunFields : new[x] = IF x \in DOMAIN changes THEN changes[x] ELSE run[r][x]
    OBVIOUS
  <1> HIDE DEF new
  <1>3. run'[r] = new /\ (\A q \in TestRuns \ {r} : run'[q] = run[q]) /\ DOMAIN run' = TestRuns
    BY <1>1
  <1>4. QED
    BY <1>2, <1>3

(* The state of the runs: which tests a run still owes.                    *)
Good(r) == \A x \in run[r].results : x.status \notin Bad
Autos(o) == {AutoTest(f) : f \in IF o.globalOnly \/ o.skipAuto THEN {} ELSE TestedBy(o)} \cap Scripts
Scens(d, o) == {<<d, s>> : s \in Scenarios[d] \cap o.filter} \cap Scripts

InFolder == {"scenarios", "stage", "scenario up"}
WithProject == {"auto staged", "auto test", "stage", "scenario up"}

OwesAuto(r, t) == \/ run[r].pc \in {"auto", "auto staged"}
                  \/ run[r].pc = "auto test" /\ t \in run[r].tests
OwesFolder(r, d) ==
  \/ d \in run[r].folders
  \/ /\ d \notin Garbled
     /\ \A t \in Scens(d, run[r].opts) : <<r, t>> \in earned \/ (run[r].pc \in InFolder /\ t \in run[r].tests)

Shape(r) == DOMAIN run[r] = RunFields /\ run[r].opts \in TestOptions
OneProject(r) ==
  \A p \in projects : p.at[1] = r => p.stuck \/ (p = FolderAt(Here(r)) /\ run[r].pc \in WithProject)
AtHand(r) ==
  /\ run[r].pc \in {"stage", "scenario up"} => run[r].of \in run[r].tests
  /\ run[r].pc \in {"clean", "report"} => run[r].folders = {}

(* Unless a result is bad, what a run was asked is done or still to come.  *)
Owed(r) ==
  Good(r) /\ run[r].pc \notin {"new", "done"} =>
    /\ \A t \in Autos(run[r].opts) : <<r, t>> \in earned \/ OwesAuto(r, t)
    /\ \A d \in Folders(run[r].opts) \cap DOMAIN Scenarios : OwesFolder(r, d)
Verdict(r) ==
  run[r].pc = "done" /\ run[r].exit = 0 =>
    /\ \A t \in Selected(run[r].opts) : <<r, t>> \in earned
    /\ Garbled \cap Folders(run[r].opts) = {}

TestsInv ==
  /\ DOMAIN run = TestRuns
  /\ \A r \in TestRuns : Shape(r) /\ OneProject(r) /\ AtHand(r) /\ Owed(r) /\ Verdict(r)

(* At first nothing is there, and nothing is claimed.                      *)
LEMMA TestsInitInv == TestsInit => TestsInv
  <1> SUFFICES ASSUME TestsInit PROVE TestsInv
    OBVIOUS
  <1>1. DOMAIN run = TestRuns
    BY DEF TestsInit
  <1>2. ASSUME NEW r \in TestRuns PROVE Shape(r) /\ run[r].pc = "new" /\ projects = {}
    <2>1. PICK o \in TestOptions : run[r] = NewRun(o)
      BY DEF TestsInit
    <2>2. QED
      BY <2>1 DEF NewRun, Shape, RunFields, TestsInit
  <1>3. QED
    BY <1>1, <1>2 DEF TestsInv, OneProject, AtHand, Owed, Verdict

(* A bad result makes a run bad; a run that is good was.                   *)
LEMMA GoodWas ==
  ASSUME NEW r \in TestRuns, NEW test, NEW status, run'[r].results = Result(r, test, status)
  PROVE  Good(r)' => Good(r) /\ status \notin Bad
  <1>1. run[r].results \subseteq run'[r].results /\ [test |-> test, status |-> status] \in run'[r].results
    BY DEF Result
  <1> DEFINE x == [test |-> test, status |-> status]
  <1>2. x \in run'[r].results /\ x.status = status
    BY <1>1
  <1> HIDE DEF x
  <1>3. QED
    BY <1>1, <1>2 DEF Good

(* What a step has to do for TestsInv to hold after it.                    *)
LEMMA Advance ==
  ASSUME TestsInv, NEW r \in TestRuns,
         DOMAIN run' = TestRuns, \A q \in TestRuns \ {r} : run'[q] = run[q],
         DOMAIN run'[r] = RunFields, run'[r].opts = run[r].opts,
         \/ /\ projects' = projects /\ run'[r].project = run[r].project
            /\ run[r].pc \in WithProject => run'[r].pc \in WithProject
         \/ /\ projects' = projects \cup {FolderAt(Here(r)')}
            /\ run[r].pc \notin WithProject /\ run'[r].pc \in WithProject
         \/ DropProject(r) /\ run'[r].project = run[r].project,
         earned \subseteq earned', AtHand(r)', Owed(r)', Verdict(r)'
  PROVE  TestsInv'
  <1>1. ASSUME NEW q \in TestRuns \ {r} PROVE (Shape(q) /\ OneProject(q) /\ AtHand(q) /\ Owed(q) /\ Verdict(q))'
    <2>1. run'[q] = run[q] /\ Shape(q) /\ OneProject(q) /\ AtHand(q) /\ Owed(q) /\ Verdict(q)
      BY DEF TestsInv
    <2>2. Here(r)[1] = r /\ Here(r)'[1] = r
      BY DEF Here
    <2>3. \A p \in projects' : p.at[1] = q => p \in projects
      BY <2>2 DEF DropProject, FolderAt
    <2>4. OneProject(q)'
      BY <2>1, <2>3 DEF OneProject, Here, FolderAt
    <2>5. Owed(q)'
      BY <2>1 DEF Owed, Good, OwesAuto, OwesFolder
    <2>6. QED
      BY <2>1, <2>4, <2>5 DEF Shape, AtHand, Verdict
  <1>2. OneProject(r)'
    <2>1. OneProject(r)
      BY DEF TestsInv
    <2>2. CASE /\ projects' = projects /\ run'[r].project = run[r].project
               /\ run[r].pc \in WithProject => run'[r].pc \in WithProject
      BY <2>1, <2>2 DEF OneProject, Here, FolderAt
    <2>3. CASE projects' = projects \cup {FolderAt(Here(r)')} /\ run[r].pc \notin WithProject /\ run'[r].pc \in WithProject
      BY <2>1, <2>3 DEF OneProject, FolderAt, Here
    <2>4. CASE DropProject(r) /\ run'[r].project = run[r].project
      BY <2>1, <2>4 DEF OneProject, DropProject, Here, FolderAt
    <2>5. QED
      BY <2>2, <2>3, <2>4
  <1>3. Shape(r)'
    BY DEF TestsInv, Shape
  <1>4. QED
    BY <1>1, <1>2, <1>3 DEF TestsInv

(* Every step of a run keeps TestsInv.                                     *)
LEMMA TestsStep ==
  ASSUME TestsInv, NEW r \in TestRuns, Step(r)
  PROVE  TestsInv'
  <1>1. Shape(r) /\ AtHand(r) /\ Owed(r) /\ Verdict(r) /\ DOMAIN run = TestRuns
    BY DEF TestsInv
  <1>2. DOMAIN run[r] = RunFields /\ run[r].opts \in TestOptions
    BY <1>1 DEF Shape
  <1>3. CASE AutoProject(r)
    <2>1. /\ run[r].pc = "auto" /\ projects' = projects \cup {FolderAt(<<r, run[r].project + 1>>)} /\ earned' = earned
          /\ To(r, [pc |-> "auto staged", project |-> run[r].project + 1])
      BY <1>3 DEF AutoProject, MakeProject, At
    <2> DEFINE c == [pc |-> "auto staged", project |-> run[r].project + 1]
    <2>2. DOMAIN c = {"pc", "project"} /\ To(r, c)
         /\ c.pc = "auto staged"
         /\ c.project = run[r].project + 1
      BY <2>1
    <2> HIDE DEF c
    <2>3. /\ DOMAIN run' = TestRuns /\ (\A q \in TestRuns \ {r} : run'[q] = run[q])
           /\ DOMAIN run'[r] = RunFields
           /\ \A x \in RunFields : run'[r][x] = IF x \in DOMAIN c THEN c[x] ELSE run[r][x]
      BY <1>1, <1>2, <2>2, ToEffect DEF RunFields
    <2>4. /\ run'[r].pc = "auto staged"
           /\ run'[r].project = run[r].project + 1
           /\ run'[r].opts = run[r].opts /\ run'[r].folders = run[r].folders /\ run'[r].tests = run[r].tests
           /\ run'[r].results = run[r].results
      BY <2>2, <2>3 DEF RunFields
    <2>5. Owed(r)'
      BY <1>1, <2>1, <2>4 DEF Owed, Good, OwesAuto, OwesFolder, InFolder
    <2>6. QED
      BY <1>1, <2>3, <2>1, <2>4, <2>5, Advance DEF AtHand, Verdict, WithProject, Here
  <1>4. CASE AutoFails(r)
    <2>1. /\ run[r].pc \in {"auto", "auto staged"} /\ earned' = earned
          /\ (run[r].pc = "auto" /\ projects' = projects) \/ DropProject(r)
          /\ To(r, [pc |-> "folders", results |-> Result(r, Setup, "error")])
      BY <1>4 DEF AutoFails, At
    <2> DEFINE c == [pc |-> "folders", results |-> Result(r, Setup, "error")]
    <2>2. DOMAIN c = {"pc", "results"} /\ To(r, c)
         /\ c.pc = "folders"
         /\ c.results = Result(r, Setup, "error")
      BY <2>1
    <2> HIDE DEF c
    <2>3. /\ DOMAIN run' = TestRuns /\ (\A q \in TestRuns \ {r} : run'[q] = run[q])
           /\ DOMAIN run'[r] = RunFields
           /\ \A x \in RunFields : run'[r][x] = IF x \in DOMAIN c THEN c[x] ELSE run[r][x]
      BY <1>1, <1>2, <2>2, ToEffect DEF RunFields
    <2>4. /\ run'[r].pc = "folders"
           /\ run'[r].results = Result(r, Setup, "error")
           /\ run'[r].opts = run[r].opts /\ run'[r].project = run[r].project /\ run'[r].folders = run[r].folders
           /\ run'[r].tests = run[r].tests
      BY <2>2, <2>3 DEF RunFields
    <2>5. Owed(r)'
      BY <2>4, GoodWas DEF Owed, Bad
    <2>6. QED
      BY <1>1, <2>3, <2>1, <2>4, <2>5, Advance DEF AtHand, Verdict, WithProject
  <1>5. CASE AutoUp(r)
    <2>1. /\ run[r].pc = "auto staged" /\ projects' = projects /\ earned' = earned
          /\ To(r, [pc |-> "auto test", tests |-> {AutoTest(f) : f \in TestedBy(run[r].opts)}])
      BY <1>5 DEF AutoUp, At
    <2> DEFINE c == [pc |-> "auto test", tests |-> {AutoTest(f) : f \in TestedBy(run[r].opts)}]
    <2>2. DOMAIN c = {"pc", "tests"} /\ To(r, c)
         /\ c.pc = "auto test"
         /\ c.tests = {AutoTest(f) : f \in TestedBy(run[r].opts)}
      BY <2>1
    <2> HIDE DEF c
    <2>3. /\ DOMAIN run' = TestRuns /\ (\A q \in TestRuns \ {r} : run'[q] = run[q])
           /\ DOMAIN run'[r] = RunFields
           /\ \A x \in RunFields : run'[r][x] = IF x \in DOMAIN c THEN c[x] ELSE run[r][x]
      BY <1>1, <1>2, <2>2, ToEffect DEF RunFields
    <2>4. /\ run'[r].pc = "auto test"
           /\ run'[r].tests = {AutoTest(f) : f \in TestedBy(run[r].opts)}
           /\ run'[r].opts = run[r].opts /\ run'[r].project = run[r].project /\ run'[r].folders = run[r].folders
           /\ run'[r].results = run[r].results
      BY <2>2, <2>3 DEF RunFields
    <2>5. Owed(r)'
      BY <1>1, <2>1, <2>4 DEF Owed, Good, OwesAuto, OwesFolder, InFolder, Autos
    <2>6. QED
      BY <1>1, <2>3, <2>1, <2>4, <2>5, Advance DEF AtHand, Verdict, WithProject
  <1>6. CASE AutoUpFails(r)
    <2>1. /\ run[r].pc = "auto staged" /\ DropProject(r) /\ earned' = earned
          /\ To(r, [pc |-> "folders", results |-> Result(r, Setup, "error")])
      BY <1>6 DEF AutoUpFails, At
    <2> DEFINE c == [pc |-> "folders", results |-> Result(r, Setup, "error")]
    <2>2. DOMAIN c = {"pc", "results"} /\ To(r, c)
         /\ c.pc = "folders"
         /\ c.results = Result(r, Setup, "error")
      BY <2>1
    <2> HIDE DEF c
    <2>3. /\ DOMAIN run' = TestRuns /\ (\A q \in TestRuns \ {r} : run'[q] = run[q])
           /\ DOMAIN run'[r] = RunFields
           /\ \A x \in RunFields : run'[r][x] = IF x \in DOMAIN c THEN c[x] ELSE run[r][x]
      BY <1>1, <1>2, <2>2, ToEffect DEF RunFields
    <2>4. /\ run'[r].pc = "folders"
           /\ run'[r].results = Result(r, Setup, "error")
           /\ run'[r].opts = run[r].opts /\ run'[r].project = run[r].project /\ run'[r].folders = run[r].folders
           /\ run'[r].tests = run[r].tests
      BY <2>2, <2>3 DEF RunFields
    <2>5. Owed(r)'
      BY <2>4, GoodWas DEF Owed, Bad
    <2>6. QED
      BY <1>1, <2>3, <2>1, <2>4, <2>5, Advance DEF AtHand, Verdict, WithProject
  <1>7. CASE EndAuto(r)
    <2>1. /\ run[r].pc = "auto test" /\ run[r].tests = {} /\ DropProject(r) /\ earned' = earned
          /\ To(r, [pc |-> "folders"])
      BY <1>7 DEF EndAuto, At
    <2> DEFINE c == [pc |-> "folders"]
    <2>2. DOMAIN c = {"pc"} /\ To(r, c)
         /\ c.pc = "folders"
      BY <2>1
    <2> HIDE DEF c
    <2>3. /\ DOMAIN run' = TestRuns /\ (\A q \in TestRuns \ {r} : run'[q] = run[q])
           /\ DOMAIN run'[r] = RunFields
           /\ \A x \in RunFields : run'[r][x] = IF x \in DOMAIN c THEN c[x] ELSE run[r][x]
      BY <1>1, <1>2, <2>2, ToEffect DEF RunFields
    <2>4. /\ run'[r].pc = "folders"
           /\ run'[r].opts = run[r].opts /\ run'[r].project = run[r].project /\ run'[r].folders = run[r].folders
           /\ run'[r].tests = run[r].tests /\ run'[r].results = run[r].results
      BY <2>2, <2>3 DEF RunFields
    <2>5. Owed(r)'
      BY <1>1, <2>1, <2>4 DEF Owed, Good, OwesAuto, OwesFolder, InFolder
    <2>6. QED
      BY <1>1, <2>3, <2>1, <2>4, <2>5, Advance DEF AtHand, Verdict, WithProject
  <1>8. ASSUME NEW test, NEW status \in {"passed", "failed"}, Runs(r, test, status, "auto test"),
               At(r, "auto test"), UNCHANGED projects
        PROVE  TestsInv'
    <2>1. /\ run[r].pc = "auto test" /\ projects' = projects
          /\ earned' = (IF status = "passed" THEN earned \cup {<<r, test>>} ELSE earned)
          /\ To(r, [pc |-> "auto test", tests |-> run[r].tests \ {test}, results |-> Result(r, test, status)])
      BY <1>8 DEF Runs, At
    <2> DEFINE c == [pc |-> "auto test", tests |-> run[r].tests \ {test}, results |-> Result(r, test, status)]
    <2>2. DOMAIN c = {"pc", "tests", "results"} /\ To(r, c)
         /\ c.pc = "auto test"
         /\ c.tests = run[r].tests \ {test}
         /\ c.results = Result(r, test, status)
      BY <2>1
    <2> HIDE DEF c
    <2>3. /\ DOMAIN run' = TestRuns /\ (\A q \in TestRuns \ {r} : run'[q] = run[q])
           /\ DOMAIN run'[r] = RunFields
           /\ \A x \in RunFields : run'[r][x] = IF x \in DOMAIN c THEN c[x] ELSE run[r][x]
      BY <1>1, <1>2, <2>2, ToEffect DEF RunFields
    <2>4. /\ run'[r].pc = "auto test"
           /\ run'[r].tests = run[r].tests \ {test}
           /\ run'[r].results = Result(r, test, status)
           /\ run'[r].opts = run[r].opts /\ run'[r].project = run[r].project /\ run'[r].folders = run[r].folders
      BY <2>2, <2>3 DEF RunFields
    <2>5. Owed(r)'
      BY <1>1, <2>1, <2>4, GoodWas DEF Owed, OwesAuto, OwesFolder, InFolder, Bad
    <2>6. QED
      BY <1>1, <2>3, <2>1, <2>4, <2>5, Advance DEF AtHand, Verdict, WithProject
  <1>9. ASSUME NEW test, NEW status \in {"skipped", "error"}, At(r, "auto test"),
               test \in Scripts => status = "error",
               To(r, [tests |-> run[r].tests \ {test}, results |-> Result(r, test, status)]),
               UNCHANGED <<projects, earned>>
        PROVE  TestsInv'
    <2>1. /\ run[r].pc = "auto test" /\ projects' = projects /\ earned' = earned
          /\ (test \in Scripts => status = "error")
          /\ To(r, [tests |-> run[r].tests \ {test}, results |-> Result(r, test, status)])
      BY <1>9 DEF At
    <2> DEFINE c == [tests |-> run[r].tests \ {test}, results |-> Result(r, test, status)]
    <2>2. DOMAIN c = {"tests", "results"} /\ To(r, c)
         /\ c.tests = run[r].tests \ {test}
         /\ c.results = Result(r, test, status)
      BY <2>1
    <2> HIDE DEF c
    <2>3. /\ DOMAIN run' = TestRuns /\ (\A q \in TestRuns \ {r} : run'[q] = run[q])
           /\ DOMAIN run'[r] = RunFields
           /\ \A x \in RunFields : run'[r][x] = IF x \in DOMAIN c THEN c[x] ELSE run[r][x]
      BY <1>1, <1>2, <2>2, ToEffect DEF RunFields
    <2>4. /\ run'[r].tests = run[r].tests \ {test}
           /\ run'[r].results = Result(r, test, status)
           /\ run'[r].opts = run[r].opts /\ run'[r].project = run[r].project /\ run'[r].pc = run[r].pc
           /\ run'[r].folders = run[r].folders
      BY <2>2, <2>3 DEF RunFields
    <2>5. Owed(r)'
      BY <1>1, <2>1, <2>4, GoodWas DEF Owed, OwesAuto, OwesFolder, InFolder, Bad, Autos
    <2>6. QED
      BY <1>1, <2>3, <2>1, <2>4, <2>5, Advance DEF AtHand, Verdict, WithProject
  <1>10. ASSUME NEW d, d \notin Garbled, At(r, "folders"), UNCHANGED <<projects, earned>>,
               To(r, [pc |-> "scenarios", folders |-> run[r].folders \ {d},
                      tests |-> {<<d, s>> : s \in Scenarios[d] \cap run[r].opts.filter}])
        PROVE  TestsInv'
    <2>1. /\ run[r].pc = "folders" /\ projects' = projects /\ earned' = earned
          /\ To(r, [pc |-> "scenarios", folders |-> run[r].folders \ {d},
                     tests |-> {<<d, s>> : s \in Scenarios[d] \cap run[r].opts.filter}])
      BY <1>10 DEF At
    <2> DEFINE c == [pc |-> "scenarios", folders |-> run[r].folders \ {d},
                     tests |-> {<<d, s>> : s \in Scenarios[d] \cap run[r].opts.filter}]
    <2>2. DOMAIN c = {"pc", "folders", "tests"} /\ To(r, c)
         /\ c.pc = "scenarios"
         /\ c.folders = run[r].folders \ {d}
         /\ c.tests = {<<d, s>> : s \in Scenarios[d] \cap run[r].opts.filter}
      BY <2>1
    <2> HIDE DEF c
    <2>3. /\ DOMAIN run' = TestRuns /\ (\A q \in TestRuns \ {r} : run'[q] = run[q])
           /\ DOMAIN run'[r] = RunFields
           /\ \A x \in RunFields : run'[r][x] = IF x \in DOMAIN c THEN c[x] ELSE run[r][x]
      BY <1>1, <1>2, <2>2, ToEffect DEF RunFields
    <2>4. /\ run'[r].pc = "scenarios"
           /\ run'[r].folders = run[r].folders \ {d}
           /\ run'[r].tests = {<<d, s>> : s \in Scenarios[d] \cap run[r].opts.filter}
           /\ run'[r].opts = run[r].opts /\ run'[r].project = run[r].project /\ run'[r].results = run[r].results
      BY <2>2, <2>3 DEF RunFields
    <2>5. Owed(r)'
      <3>1. Scens(d, run[r].opts) \subseteq run'[r].tests
        BY <2>4 DEF Scens
      <3>2. Good(r)' => /\ \A t \in Autos(run[r].opts) : <<r, t>> \in earned
                        /\ \A e \in Folders(run[r].opts) \cap DOMAIN Scenarios : OwesFolder(r, e)
        BY <1>1, <2>1, <2>4 DEF Owed, Good, OwesAuto
      <3>3. OwesFolder(r, d)'
        BY <1>10, <2>4, <3>1 DEF OwesFolder, InFolder
      <3>4. \A e : e # d /\ OwesFolder(r, e) => OwesFolder(r, e)'
        BY <2>1, <2>4 DEF OwesFolder, InFolder
      <3>5. QED
        BY <2>1, <2>4, <3>2, <3>3, <3>4 DEF Owed
    <2>6. QED
      BY <1>1, <2>3, <2>1, <2>4, <2>5, Advance DEF AtHand, Verdict, WithProject
  <1>11. ASSUME NEW d, At(r, "folders"), UNCHANGED <<projects, earned>>,
               To(r, [folders |-> run[r].folders \ {d}, results |-> Result(r, <<d, "scenarios">>, "error")])
        PROVE  TestsInv'
    <2>1. /\ run[r].pc = "folders" /\ projects' = projects /\ earned' = earned
          /\ To(r, [folders |-> run[r].folders \ {d}, results |-> Result(r, <<d, "scenarios">>, "error")])
      BY <1>11 DEF At
    <2> DEFINE c == [folders |-> run[r].folders \ {d}, results |-> Result(r, <<d, "scenarios">>, "error")]
    <2>2. DOMAIN c = {"folders", "results"} /\ To(r, c)
         /\ c.folders = run[r].folders \ {d}
         /\ c.results = Result(r, <<d, "scenarios">>, "error")
      BY <2>1
    <2> HIDE DEF c
    <2>3. /\ DOMAIN run' = TestRuns /\ (\A q \in TestRuns \ {r} : run'[q] = run[q])
           /\ DOMAIN run'[r] = RunFields
           /\ \A x \in RunFields : run'[r][x] = IF x \in DOMAIN c THEN c[x] ELSE run[r][x]
      BY <1>1, <1>2, <2>2, ToEffect DEF RunFields
    <2>4. /\ run'[r].folders = run[r].folders \ {d}
           /\ run'[r].results = Result(r, <<d, "scenarios">>, "error")
           /\ run'[r].opts = run[r].opts /\ run'[r].project = run[r].project /\ run'[r].pc = run[r].pc
           /\ run'[r].tests = run[r].tests
      BY <2>2, <2>3 DEF RunFields
    <2>5. Owed(r)'
      BY <2>4, GoodWas DEF Owed, Bad
    <2>6. QED
      BY <1>1, <2>3, <2>1, <2>4, <2>5, Advance DEF AtHand, Verdict, WithProject
  <1>12. CASE EndFolder(r)
    <2>1. /\ run[r].pc = "scenarios" /\ run[r].tests = {} /\ projects' = projects /\ earned' = earned
          /\ To(r, [pc |-> "folders"])
      BY <1>12 DEF EndFolder, At
    <2> DEFINE c == [pc |-> "folders"]
    <2>2. DOMAIN c = {"pc"} /\ To(r, c)
         /\ c.pc = "folders"
      BY <2>1
    <2> HIDE DEF c
    <2>3. /\ DOMAIN run' = TestRuns /\ (\A q \in TestRuns \ {r} : run'[q] = run[q])
           /\ DOMAIN run'[r] = RunFields
           /\ \A x \in RunFields : run'[r][x] = IF x \in DOMAIN c THEN c[x] ELSE run[r][x]
      BY <1>1, <1>2, <2>2, ToEffect DEF RunFields
    <2>4. /\ run'[r].pc = "folders"
           /\ run'[r].opts = run[r].opts /\ run'[r].project = run[r].project /\ run'[r].folders = run[r].folders
           /\ run'[r].tests = run[r].tests /\ run'[r].results = run[r].results
      BY <2>2, <2>3 DEF RunFields
    <2>5. Owed(r)'
      BY <1>1, <2>1, <2>4 DEF Owed, Good, OwesAuto, OwesFolder, InFolder
    <2>6. QED
      BY <1>1, <2>3, <2>1, <2>4, <2>5, Advance DEF AtHand, Verdict, WithProject
  <1>13. ASSUME NEW test, NEW status \in {"skipped", "error"}, At(r, "scenarios"),
               test \in Scripts => status = "error",
               To(r, [tests |-> run[r].tests \ {test}, results |-> Result(r, test, status)]),
               UNCHANGED <<projects, earned>>
        PROVE  TestsInv'
    <2>1. /\ run[r].pc = "scenarios" /\ projects' = projects /\ earned' = earned
          /\ (test \in Scripts => status = "error")
          /\ To(r, [tests |-> run[r].tests \ {test}, results |-> Result(r, test, status)])
      BY <1>13 DEF At
    <2> DEFINE c == [tests |-> run[r].tests \ {test}, results |-> Result(r, test, status)]
    <2>2. DOMAIN c = {"tests", "results"} /\ To(r, c)
         /\ c.tests = run[r].tests \ {test}
         /\ c.results = Result(r, test, status)
      BY <2>1
    <2> HIDE DEF c
    <2>3. /\ DOMAIN run' = TestRuns /\ (\A q \in TestRuns \ {r} : run'[q] = run[q])
           /\ DOMAIN run'[r] = RunFields
           /\ \A x \in RunFields : run'[r][x] = IF x \in DOMAIN c THEN c[x] ELSE run[r][x]
      BY <1>1, <1>2, <2>2, ToEffect DEF RunFields
    <2>4. /\ run'[r].tests = run[r].tests \ {test}
           /\ run'[r].results = Result(r, test, status)
           /\ run'[r].opts = run[r].opts /\ run'[r].project = run[r].project /\ run'[r].pc = run[r].pc
           /\ run'[r].folders = run[r].folders
      BY <2>2, <2>3 DEF RunFields
    <2>5. Owed(r)'
      BY <1>1, <2>1, <2>4, GoodWas DEF Owed, OwesAuto, OwesFolder, InFolder, Bad, Scens
    <2>6. QED
      BY <1>1, <2>3, <2>1, <2>4, <2>5, Advance DEF AtHand, Verdict, WithProject
  <1>14. ASSUME NEW test, OpenScenario(r, test) PROVE TestsInv'
    <2>1. /\ run[r].pc = "scenarios" /\ projects' = projects \cup {FolderAt(<<r, run[r].project + 1>>)} /\ earned' = earned
          /\ test \in run[r].tests
          /\ To(r, [pc |-> "stage", project |-> run[r].project + 1, of |-> test])
      BY <1>14 DEF OpenScenario, At
    <2> DEFINE c == [pc |-> "stage", of |-> test, project |-> run[r].project + 1]
    <2>2. DOMAIN c = {"pc", "of", "project"} /\ To(r, c)
         /\ c.pc = "stage"
         /\ c.of = test
         /\ c.project = run[r].project + 1
      BY <2>1
    <2> HIDE DEF c
    <2>3. /\ DOMAIN run' = TestRuns /\ (\A q \in TestRuns \ {r} : run'[q] = run[q])
           /\ DOMAIN run'[r] = RunFields
           /\ \A x \in RunFields : run'[r][x] = IF x \in DOMAIN c THEN c[x] ELSE run[r][x]
      BY <1>1, <1>2, <2>2, ToEffect DEF RunFields
    <2>4. /\ run'[r].pc = "stage"
           /\ run'[r].of = test
           /\ run'[r].project = run[r].project + 1
           /\ run'[r].opts = run[r].opts /\ run'[r].folders = run[r].folders /\ run'[r].tests = run[r].tests
           /\ run'[r].results = run[r].results
      BY <2>2, <2>3 DEF RunFields
    <2>5. Owed(r)'
      BY <1>1, <2>1, <2>4 DEF Owed, Good, OwesAuto, OwesFolder, InFolder
    <2>6. QED
      BY <1>1, <2>3, <2>1, <2>4, <2>5, Advance DEF AtHand, Verdict, WithProject, Here
  <1>15. CASE ScenarioFails(r) \/ ScenarioUpFails(r)
    <2>1. /\ run[r].pc \in {"stage", "scenario up"} /\ DropProject(r) /\ earned' = earned
          /\ To(r, [pc |-> "scenarios", tests |-> run[r].tests \ {run[r].of},
                     results |-> Result(r, run[r].of, "error")])
      BY <1>15 DEF ScenarioFails, ScenarioUpFails, EndScenario, At
    <2> DEFINE c == [pc |-> "scenarios", tests |-> run[r].tests \ {run[r].of},
                     results |-> Result(r, run[r].of, "error")]
    <2>2. DOMAIN c = {"pc", "tests", "results"} /\ To(r, c)
         /\ c.pc = "scenarios"
         /\ c.tests = run[r].tests \ {run[r].of}
         /\ c.results = Result(r, run[r].of, "error")
      BY <2>1
    <2> HIDE DEF c
    <2>3. /\ DOMAIN run' = TestRuns /\ (\A q \in TestRuns \ {r} : run'[q] = run[q])
           /\ DOMAIN run'[r] = RunFields
           /\ \A x \in RunFields : run'[r][x] = IF x \in DOMAIN c THEN c[x] ELSE run[r][x]
      BY <1>1, <1>2, <2>2, ToEffect DEF RunFields
    <2>4. /\ run'[r].pc = "scenarios"
           /\ run'[r].tests = run[r].tests \ {run[r].of}
           /\ run'[r].results = Result(r, run[r].of, "error")
           /\ run'[r].opts = run[r].opts /\ run'[r].project = run[r].project /\ run'[r].folders = run[r].folders
      BY <2>2, <2>3 DEF RunFields
    <2>5. Owed(r)'
      BY <2>4, GoodWas DEF Owed, Bad
    <2>6. QED
      BY <1>1, <2>3, <2>1, <2>4, <2>5, Advance DEF AtHand, Verdict, WithProject
  <1>16. CASE StagingFails(r)
    <2>1. /\ run[r].pc = "stage" /\ DropProject(r) /\ earned' = earned
          /\ To(r, [pc |-> "folders", tests |-> {}, results |-> Result(r, run[r].of, "error")])
      BY <1>16 DEF StagingFails, At
    <2> DEFINE c == [pc |-> "folders", tests |-> {}, results |-> Result(r, run[r].of, "error")]
    <2>2. DOMAIN c = {"pc", "tests", "results"} /\ To(r, c)
         /\ c.pc = "folders"
         /\ c.tests = {}
         /\ c.results = Result(r, run[r].of, "error")
      BY <2>1
    <2> HIDE DEF c
    <2>3. /\ DOMAIN run' = TestRuns /\ (\A q \in TestRuns \ {r} : run'[q] = run[q])
           /\ DOMAIN run'[r] = RunFields
           /\ \A x \in RunFields : run'[r][x] = IF x \in DOMAIN c THEN c[x] ELSE run[r][x]
      BY <1>1, <1>2, <2>2, ToEffect DEF RunFields
    <2>4. /\ run'[r].pc = "folders"
           /\ run'[r].tests = {}
           /\ run'[r].results = Result(r, run[r].of, "error")
           /\ run'[r].opts = run[r].opts /\ run'[r].project = run[r].project /\ run'[r].folders = run[r].folders
      BY <2>2, <2>3 DEF RunFields
    <2>5. Owed(r)'
      BY <2>4, GoodWas DEF Owed, Bad
    <2>6. QED
      BY <1>1, <2>3, <2>1, <2>4, <2>5, Advance DEF AtHand, Verdict, WithProject
  <1>17. CASE ScenarioUp(r)
    <2>1. /\ run[r].pc = "stage" /\ projects' = projects /\ earned' = earned
          /\ To(r, [pc |-> "scenario up"])
      BY <1>17 DEF ScenarioUp, At
    <2> DEFINE c == [pc |-> "scenario up"]
    <2>2. DOMAIN c = {"pc"} /\ To(r, c)
         /\ c.pc = "scenario up"
      BY <2>1
    <2> HIDE DEF c
    <2>3. /\ DOMAIN run' = TestRuns /\ (\A q \in TestRuns \ {r} : run'[q] = run[q])
           /\ DOMAIN run'[r] = RunFields
           /\ \A x \in RunFields : run'[r][x] = IF x \in DOMAIN c THEN c[x] ELSE run[r][x]
      BY <1>1, <1>2, <2>2, ToEffect DEF RunFields
    <2>4. /\ run'[r].pc = "scenario up"
           /\ run'[r].opts = run[r].opts /\ run'[r].project = run[r].project /\ run'[r].folders = run[r].folders
           /\ run'[r].tests = run[r].tests /\ run'[r].results = run[r].results /\ run'[r].of = run[r].of
      BY <2>2, <2>3 DEF RunFields
    <2>5. Owed(r)'
      BY <1>1, <2>1, <2>4 DEF Owed, Good, OwesAuto, OwesFolder, InFolder
    <2>6. QED
      BY <1>1, <2>3, <2>1, <2>4, <2>5, Advance DEF AtHand, Verdict, WithProject
  <1>18. ASSUME NEW status \in {"passed", "failed"}, Runs(r, run[r].of, status, "scenarios"),
               At(r, "scenario up"), DropProject(r)
        PROVE  TestsInv'
    <2>1. /\ run[r].pc = "scenario up" /\ DropProject(r)
          /\ earned' = (IF status = "passed" THEN earned \cup {<<r, run[r].of>>} ELSE earned)
          /\ To(r, [pc |-> "scenarios", tests |-> run[r].tests \ {run[r].of},
                     results |-> Result(r, run[r].of, status)])
      BY <1>18 DEF Runs, At
    <2> DEFINE c == [pc |-> "scenarios", tests |-> run[r].tests \ {run[r].of},
                     results |-> Result(r, run[r].of, status)]
    <2>2. DOMAIN c = {"pc", "tests", "results"} /\ To(r, c)
         /\ c.pc = "scenarios"
         /\ c.tests = run[r].tests \ {run[r].of}
         /\ c.results = Result(r, run[r].of, status)
      BY <2>1
    <2> HIDE DEF c
    <2>3. /\ DOMAIN run' = TestRuns /\ (\A q \in TestRuns \ {r} : run'[q] = run[q])
           /\ DOMAIN run'[r] = RunFields
           /\ \A x \in RunFields : run'[r][x] = IF x \in DOMAIN c THEN c[x] ELSE run[r][x]
      BY <1>1, <1>2, <2>2, ToEffect DEF RunFields
    <2>4. /\ run'[r].pc = "scenarios"
           /\ run'[r].tests = run[r].tests \ {run[r].of}
           /\ run'[r].results = Result(r, run[r].of, status)
           /\ run'[r].opts = run[r].opts /\ run'[r].project = run[r].project /\ run'[r].folders = run[r].folders
      BY <2>2, <2>3 DEF RunFields
    <2>5. Owed(r)'
      BY <1>1, <2>1, <2>4, GoodWas DEF Owed, OwesAuto, OwesFolder, InFolder, Bad
    <2>6. QED
      BY <1>1, <2>3, <2>1, <2>4, <2>5, Advance DEF AtHand, Verdict, WithProject
  <1>19. ASSUME At(r, "folders"), run[r].folders = {},
               UNCHANGED <<projects, earned>>, To(r, [pc |-> "clean", doomed |-> Listed(r)])
        PROVE  TestsInv'
    <2>1. /\ run[r].pc = "folders" /\ run[r].folders = {} /\ projects' = projects /\ earned' = earned
          /\ To(r, [pc |-> "clean", doomed |-> Listed(r)])
      BY <1>19 DEF At
    <2> DEFINE c == [pc |-> "clean", doomed |-> Listed(r)]
    <2>2. DOMAIN c = {"pc", "doomed"} /\ To(r, c)
         /\ c.pc = "clean"
         /\ c.doomed = Listed(r)
      BY <2>1
    <2> HIDE DEF c
    <2>3. /\ DOMAIN run' = TestRuns /\ (\A q \in TestRuns \ {r} : run'[q] = run[q])
           /\ DOMAIN run'[r] = RunFields
           /\ \A x \in RunFields : run'[r][x] = IF x \in DOMAIN c THEN c[x] ELSE run[r][x]
      BY <1>1, <1>2, <2>2, ToEffect DEF RunFields
    <2>4. /\ run'[r].pc = "clean"
           /\ run'[r].doomed = Listed(r)
           /\ run'[r].opts = run[r].opts /\ run'[r].project = run[r].project /\ run'[r].folders = run[r].folders
           /\ run'[r].tests = run[r].tests /\ run'[r].results = run[r].results
      BY <2>2, <2>3 DEF RunFields
    <2>5. Owed(r)'
      BY <1>1, <2>1, <2>4 DEF Owed, Good, OwesAuto, OwesFolder, InFolder
    <2>6. QED
      BY <1>1, <2>3, <2>1, <2>4, <2>5, Advance DEF AtHand, Verdict, WithProject
  <1>20. ASSUME (At(r, "folders") /\ run[r].folders = {}) \/ (At(r, "clean") /\ AtHand(r)),
               UNCHANGED <<projects, earned>>, To(r, [pc |-> "report"])
        PROVE  TestsInv'
    <2>1. /\ run[r].pc \in {"folders", "clean"} /\ run[r].folders = {} /\ projects' = projects /\ earned' = earned
          /\ To(r, [pc |-> "report"])
      BY <1>20 DEF At, AtHand
    <2> DEFINE c == [pc |-> "report"]
    <2>2. DOMAIN c = {"pc"} /\ To(r, c)
         /\ c.pc = "report"
      BY <2>1
    <2> HIDE DEF c
    <2>3. /\ DOMAIN run' = TestRuns /\ (\A q \in TestRuns \ {r} : run'[q] = run[q])
           /\ DOMAIN run'[r] = RunFields
           /\ \A x \in RunFields : run'[r][x] = IF x \in DOMAIN c THEN c[x] ELSE run[r][x]
      BY <1>1, <1>2, <2>2, ToEffect DEF RunFields
    <2>4. /\ run'[r].pc = "report"
           /\ run'[r].opts = run[r].opts /\ run'[r].project = run[r].project /\ run'[r].folders = run[r].folders
           /\ run'[r].tests = run[r].tests /\ run'[r].results = run[r].results
      BY <2>2, <2>3 DEF RunFields
    <2>5. Owed(r)'
      BY <1>1, <2>1, <2>4 DEF Owed, Good, OwesAuto, OwesFolder, InFolder
    <2>6. QED
      BY <1>1, <2>3, <2>1, <2>4, <2>5, Advance DEF AtHand, Verdict, WithProject
  <1>21. ASSUME NEW box, Remove(r, box) PROVE TestsInv'
    <2>1. /\ run[r].pc = "clean" /\ projects' = projects /\ earned' = earned
          /\ To(r, [doomed |-> run[r].doomed \ {box}])
      BY <1>21 DEF Remove, At
    <2> DEFINE c == [doomed |-> run[r].doomed \ {box}]
    <2>2. DOMAIN c = {"doomed"} /\ To(r, c)
         /\ c.doomed = run[r].doomed \ {box}
      BY <2>1
    <2> HIDE DEF c
    <2>3. /\ DOMAIN run' = TestRuns /\ (\A q \in TestRuns \ {r} : run'[q] = run[q])
           /\ DOMAIN run'[r] = RunFields
           /\ \A x \in RunFields : run'[r][x] = IF x \in DOMAIN c THEN c[x] ELSE run[r][x]
      BY <1>1, <1>2, <2>2, ToEffect DEF RunFields
    <2>4. /\ run'[r].doomed = run[r].doomed \ {box}
           /\ run'[r].opts = run[r].opts /\ run'[r].project = run[r].project /\ run'[r].pc = run[r].pc
           /\ run'[r].folders = run[r].folders /\ run'[r].tests = run[r].tests /\ run'[r].results = run[r].results
      BY <2>2, <2>3 DEF RunFields
    <2>5. Owed(r)'
      BY <1>1, <2>1, <2>4 DEF Owed, Good, OwesAuto, OwesFolder, InFolder
    <2>6. QED
      BY <1>1, <2>3, <2>1, <2>4, <2>5, Advance DEF AtHand, Verdict, WithProject
  <1>22. CASE Report(r)
    <2> DEFINE exit == IF \E x \in run[r].results : x.status \in Bad THEN 1 ELSE 0
    <2>1. /\ run[r].pc = "report" /\ run[r].folders = {} /\ projects' = projects /\ earned' = earned
          /\ To(r, [pc |-> "done", exit |-> exit])
      BY <1>1, <1>22 DEF Report, At, AtHand
    <2> DEFINE c == [pc |-> "done", exit |-> exit]
    <2>2. DOMAIN c = {"pc", "exit"} /\ To(r, c)
         /\ c.pc = "done"
         /\ c.exit = exit
      BY <2>1
    <2> HIDE DEF c
    <2>3. /\ DOMAIN run' = TestRuns /\ (\A q \in TestRuns \ {r} : run'[q] = run[q])
           /\ DOMAIN run'[r] = RunFields
           /\ \A x \in RunFields : run'[r][x] = IF x \in DOMAIN c THEN c[x] ELSE run[r][x]
      BY <1>1, <1>2, <2>2, ToEffect DEF RunFields
    <2>4. /\ run'[r].pc = "done"
           /\ run'[r].exit = exit
           /\ run'[r].opts = run[r].opts /\ run'[r].project = run[r].project /\ run'[r].folders = run[r].folders
           /\ run'[r].tests = run[r].tests /\ run'[r].results = run[r].results
      BY <2>2, <2>3 DEF RunFields
    <2>5. Verdict(r)'
      <3> SUFFICES ASSUME exit = 0
                   PROVE  /\ \A t \in Selected(run[r].opts) : <<r, t>> \in earned
                          /\ Garbled \cap Folders(run[r].opts) = {}
        BY <2>1, <2>4 DEF Verdict
      <3>1. Good(r)
        BY DEF Good
      <3>2. \A t \in Autos(run[r].opts) : <<r, t>> \in earned
        BY <1>1, <2>1, <3>1 DEF Owed, OwesAuto
      <3>3. \A d \in Folders(run[r].opts) \cap DOMAIN Scenarios :
              d \notin Garbled /\ \A t \in Scens(d, run[r].opts) : <<r, t>> \in earned
        BY <1>1, <2>1, <3>1 DEF Owed, OwesFolder, InFolder
      <3>4. Selected(run[r].opts) \subseteq
              Autos(run[r].opts) \cup UNION {Scens(d, run[r].opts) : d \in Folders(run[r].opts) \cap DOMAIN Scenarios}
        BY DEF Selected, Autos, Scens
      <3>5. QED
        BY <3>2, <3>3, <3>4, FeatureTestsAssumption
    <2>6. QED
      BY <1>1, <2>1, <2>3, <2>4, <2>5, Advance DEF AtHand, Owed, WithProject
  <1>23. CASE Start(r)
    <2>1. CASE To(r, [pc |-> "done", exit |-> 1])
      <3>1. run[r].pc = "new" /\ projects' = projects /\ earned' = earned
        BY <1>23 DEF Start, At
      <3> DEFINE c == [pc |-> "done", exit |-> 1]
      <3>2. DOMAIN c = {"pc", "exit"} /\ To(r, c)
           /\ c.pc = "done"
           /\ c.exit = 1
        BY <2>1
      <3> HIDE DEF c
      <3>3. /\ DOMAIN run' = TestRuns /\ (\A q \in TestRuns \ {r} : run'[q] = run[q])
             /\ DOMAIN run'[r] = RunFields
             /\ \A x \in RunFields : run'[r][x] = IF x \in DOMAIN c THEN c[x] ELSE run[r][x]
        BY <1>1, <1>2, <3>2, ToEffect DEF RunFields
      <3>4. /\ run'[r].pc = "done"
             /\ run'[r].exit = 1
             /\ run'[r].opts = run[r].opts /\ run'[r].project = run[r].project /\ run'[r].folders = run[r].folders
             /\ run'[r].tests = run[r].tests /\ run'[r].results = run[r].results
        BY <3>2, <3>3 DEF RunFields
      <3>5. AtHand(r)' /\ Owed(r)' /\ Verdict(r)'
        BY <3>4 DEF AtHand, Owed, Verdict
      <3>6. QED
        BY <1>1, <3>1, <3>3, <3>4, <3>5, Advance DEF WithProject
    <2>2. ASSUME NEW where \in {"folders", "auto"},
                 where = "folders" <=> run[r].opts.globalOnly \/ run[r].opts.skipAuto,
                 To(r, [pc |-> where, folders |-> Folders(run[r].opts) \cap DOMAIN Scenarios])
          PROVE  TestsInv'
      <3>1. run[r].pc = "new" /\ projects' = projects /\ earned' = earned
        BY <1>23 DEF Start, At
      <3> DEFINE c == [pc |-> where, folders |-> Folders(run[r].opts) \cap DOMAIN Scenarios]
      <3>2. DOMAIN c = {"pc", "folders"} /\ To(r, c)
           /\ c.pc = where
           /\ c.folders = Folders(run[r].opts) \cap DOMAIN Scenarios
        BY <2>2
      <3> HIDE DEF c
      <3>3. /\ DOMAIN run' = TestRuns /\ (\A q \in TestRuns \ {r} : run'[q] = run[q])
             /\ DOMAIN run'[r] = RunFields
             /\ \A x \in RunFields : run'[r][x] = IF x \in DOMAIN c THEN c[x] ELSE run[r][x]
        BY <1>1, <1>2, <3>2, ToEffect DEF RunFields
      <3>4. /\ run'[r].pc = where
             /\ run'[r].folders = Folders(run[r].opts) \cap DOMAIN Scenarios
             /\ run'[r].opts = run[r].opts /\ run'[r].project = run[r].project /\ run'[r].tests = run[r].tests
             /\ run'[r].results = run[r].results
        BY <3>2, <3>3 DEF RunFields
      <3>5. Owed(r)'
        BY <2>2, <3>1, <3>4 DEF Owed, OwesAuto, OwesFolder, Autos
      <3>6. QED
        BY <1>1, <2>2, <3>1, <3>3, <3>4, <3>5, Advance DEF AtHand, Verdict, WithProject
    <2>3. QED
      BY <1>23, <2>1, <2>2 DEF Start
  <1>24. CASE \E test \in run[r].tests : RunAuto(r, test) \/ PassOver(r, test)
    <2>1. ASSUME NEW test, RunAuto(r, test) PROVE TestsInv'
      BY <2>1, <1>8 DEF RunAuto
    <2>2. ASSUME NEW test, PassOver(r, test) PROVE TestsInv'
      <3>1. At(r, "auto test") /\ UNCHANGED <<projects, earned>>
        BY <2>2 DEF PassOver
      <3>2. CASE test \notin Scripts /\ To(r, [tests |-> run[r].tests \ {test}, results |-> Result(r, test, "skipped")])
        BY <3>1, <3>2, <1>9
      <3>3. CASE test \in Scripts /\ To(r, [tests |-> run[r].tests \ {test}, results |-> Result(r, test, "error")])
        BY <3>1, <3>3, <1>9
      <3>4. QED
        BY <2>2, <3>2, <3>3 DEF PassOver
    <2>3. QED
      BY <1>24, <2>1, <2>2
  <1>25. CASE \E d \in run[r].folders : OpenFolder(r, d)
    <2> SUFFICES ASSUME NEW d, OpenFolder(r, d) PROVE TestsInv'
      BY <1>25
    <2>1. At(r, "folders") /\ UNCHANGED <<projects, earned>>
      BY DEF OpenFolder
    <2>2. CASE /\ d \notin Garbled
               /\ To(r, [pc |-> "scenarios", folders |-> run[r].folders \ {d},
                         tests |-> {<<d, s>> : s \in Scenarios[d] \cap run[r].opts.filter}])
      BY <2>1, <2>2, <1>10
    <2>3. CASE To(r, [folders |-> run[r].folders \ {d}, results |-> Result(r, <<d, "scenarios">>, "error")])
      BY <2>1, <2>3, <1>11
    <2>4. QED
      BY <2>2, <2>3 DEF OpenFolder
  <1>26. CASE \E test \in run[r].tests : SkipScenario(r, test) \/ OpenScenario(r, test) \/ NoProject(r, test)
    <2>1. ASSUME NEW test, SkipScenario(r, test) PROVE TestsInv'
      BY <2>1, <1>13 DEF SkipScenario
    <2>2. ASSUME NEW test, NoProject(r, test) PROVE TestsInv'
      BY <2>2, <1>13 DEF NoProject
    <2>3. QED
      BY <1>26, <1>14, <2>1, <2>2
  <1>27. CASE RunScenario(r)
    BY <1>1, <1>27, <1>18 DEF RunScenario
  <1>28. CASE CleanUp(r) \/ Cleaned(r)
    BY <1>1, <1>28, <1>19, <1>20 DEF CleanUp, Cleaned
  <1>29. QED
    BY <1>3, <1>4, <1>5, <1>6, <1>7, <1>12, <1>15, <1>16, <1>17, <1>21, <1>22, <1>23,
       <1>24, <1>25, <1>26, <1>27, <1>28 DEF Step

(* reportTestResults: whatever scripts, ups, disks and removals do, and    *)
(* whichever runs of the machine clean up each other's containers, a run   *)
(* that exits with 0 earned it, and leaves no temporary folder but one     *)
(* that could not be removed.                                              *)
THEOREM VerdictsAreEarned == TestsSpec => []VerdictEarned
  <1>1. TestsInv /\ UNCHANGED testsVars => TestsInv'
    BY DEF TestsInv, testsVars, Shape, OneProject, AtHand, Owed, Verdict, Good, OwesAuto, OwesFolder, Here, FolderAt
  <1>2. TestsInv /\ [TestsNext]_testsVars => TestsInv'
    BY <1>1, TestsStep DEF TestsNext
  <1>3. TestsInv => VerdictEarned
    BY DEF TestsInv, OneProject, Verdict, VerdictEarned, WithProject
  <1>4. QED
    BY <1>2, <1>3, TestsInitInv, PTL DEF TestsSpec

(***************************************************************************)
(* FeatureStaging: what each stage folder holds of the Feature it was      *)
(* fetched for, and then what each place of the order does.                *)
(***************************************************************************)
(* What folder x holds of the Feature s: the metadata it was resolved to,  *)
(* or none, and then, unless its author may edit it, the scripts of that   *)
(* version and of the one pinned.                                          *)
StagedAs(s, x) ==
  /\ x = [ref |-> s.ref, json |-> x.json, scripts |-> x.scripts, env |-> x.env]
  /\ x.json \in {0, s.meta}
  /\ Kind[s.ref] # "local" /\ x.json # 0 => x.scripts = s.meta /\ pinned[s.ref] \in {0, s.meta}
AFeature(s) == s = [ref |-> s.ref, meta |-> s.meta, path |-> s.path, probe |-> s.probe]

Resolving == at \in {"resolve", "copy", "pull"}
Halfway ==
  /\ at = "copy" => Kind[half[1]] = "local"
  /\ at = "pull" => pinned[half[1]] \in {0, half[2]}
InStages ==
  Resolving =>
    /\ image = NoImage
    /\ \E S : sets \in Seq(S)
    /\ \A n \in 1 .. Len(sets) :
         /\ AFeature(sets[n]) /\ sets[n].path = Stage(n) /\ Stage(n) \in DOMAIN folder
         /\ StagedAs(sets[n], folder[Stage(n)])
InPlaces ==
  at \in {"ordered", "pinned", "staged"} =>
    \A i \in DOMAIN arranged :
      /\ arranged[i].path = Place(arranged[i], i) /\ Place(arranged[i], i) \in DOMAIN folder
      /\ StagedAs(arranged[i], folder[Place(arranged[i], i)])
      /\ at = "staged" => LET x == folder[Place(arranged[i], i)] IN
           x.json # 0 /\ x.env = Options(x.ref, arranged[i].meta)
StagingInv == Halfway /\ InStages /\ InPlaces /\ LayersAsResolved

(* A sequence of anything takes an element of any kind.                    *)
LEMMA AppendTo ==
  ASSUME NEW S, NEW s \in Seq(S), NEW x
  PROVE  /\ \E T : Append(s, x) \in Seq(T)
         /\ Len(Append(s, x)) = Len(s) + 1 /\ Len(s) \in Nat
         /\ Append(s, x)[Len(s) + 1] = x
         /\ \A n \in 1 .. Len(s) : Append(s, x)[n] = s[n]
<1>1. s \in Seq(S \cup {x})
  BY SeqMonotonic
<1> QED BY <1>1, AppendProperties, LenProperties

(* One more Feature in the next stage folder disturbs none before it.      *)
LEMMA StagedKeeps ==
  ASSUME StagingInv, Resolving, at' = "resolve", UNCHANGED <<pinned, arranged, image>>,
         NEW r, NEW json, NEW scripts, NEW meta, Staged(r, json, scripts, meta),
         json \in {0, meta},
         Kind[r] # "local" /\ json # 0 => scripts = meta /\ pinned[r] \in {0, meta}
  PROVE  StagingInv'
<1> USE DEF StagingInv
<1>1. PICK probe \in BOOLEAN :
        /\ folder' = [p \in DOMAIN folder \cup {StageAt} |->
             IF p = StageAt THEN [ref |-> r, json |-> json, scripts |-> scripts, env |-> Nothing]
             ELSE folder[p]]
        /\ sets' = Append(sets, [ref |-> r, meta |-> meta, path |-> StageAt, probe |-> probe])
  BY DEF Staged
<1> DEFINE new == [ref |-> r, meta |-> meta, path |-> StageAt, probe |-> probe]
           got == [ref |-> r, json |-> json, scripts |-> scripts, env |-> Nothing]
<1>2. PICK S : sets \in Seq(S)
  BY DEF InStages
<1>3. /\ sets' = Append(sets, new)
      /\ folder'[StageAt] = got
      /\ \A p : p \in DOMAIN folder' <=> p \in DOMAIN folder \/ p = StageAt
      /\ \A p \in DOMAIN folder : p # StageAt => folder'[p] = folder[p]
  BY <1>1
<1>4. AFeature(new) /\ new.path = StageAt /\ StagedAs(new, got)
  BY DEF AFeature, StagedAs
<1> HIDE DEF new, got
<1>5. /\ \E T : sets' \in Seq(T)
      /\ Len(sets') = Len(sets) + 1 /\ Len(sets) \in Nat
      /\ sets'[Len(sets) + 1] = new
      /\ \A n \in 1 .. Len(sets) : sets'[n] = sets[n]
  BY <1>2, <1>3, AppendTo
<1>6. StageAt = Stage(Len(sets) + 1) /\ \A n \in 1 .. Len(sets) : Stage(n) # StageAt
  BY <1>5 DEF Stage, StageAt
<1>7. \A s, x : StagedAs(s, x)' <=> StagedAs(s, x)
  BY DEF StagedAs
<1>8. ASSUME NEW n \in 1 .. Len(sets')
      PROVE  /\ AFeature(sets'[n]) /\ sets'[n].path = Stage(n) /\ Stage(n) \in DOMAIN folder'
             /\ StagedAs(sets'[n], folder'[Stage(n)])
  <2>1. CASE n \in 1 .. Len(sets)
    <3>1. folder'[Stage(n)] = folder[Stage(n)] /\ Stage(n) \in DOMAIN folder'
      BY <1>3, <1>6, <2>1 DEF InStages
    <3> QED BY <1>5, <2>1, <3>1 DEF InStages
  <2>2. CASE n = Len(sets) + 1
    BY <1>3, <1>4, <1>5, <1>6, <2>2
  <2> QED BY <1>5, <2>1, <2>2
<1>9. InStages'
  BY <1>5, <1>7, <1>8 DEF InStages, AFeature, Stage, StagedAs
<1> QED BY <1>9 DEF Halfway, InPlaces, InStages, LayersAsResolved, NoImage

(* From the stage folders to the places and from there into the image.     *)
LEMMA StagingStep ==
  ASSUME StagingInv, [StagingNext]_stagingVars
  PROVE  StagingInv'
<1> USE DEF StagingInv
<1>1. ASSUME UNCHANGED <<at, pinned, folder, half, sets, arranged, image>>
      PROVE  StagingInv'
  BY <1>1 DEF Halfway, InStages, InPlaces, LayersAsResolved, Resolving, StagedAs, AFeature
<1>2. CASE BeginBuild
  <2>1. at' = "resolve" /\ sets' = <<>> /\ image' = NoImage
    BY <1>2 DEF BeginBuild
  <2>2. sets' \in Seq({}) /\ Len(sets') = 0
    BY <2>1, EmptySeq
  <2> QED BY <2>1, <2>2 DEF Halfway, InStages, InPlaces, LayersAsResolved, NoImage
<1>3. CASE Abandon
  BY <1>3 DEF Abandon, Halfway, InStages, InPlaces, LayersAsResolved, Resolving
<1>4. ASSUME NEW r \in FeatureRefs, CopyMetadata(r) PROVE StagingInv'
  <2>1. /\ at = "resolve" /\ at' = "copy" /\ half' = <<r, published[r]>> /\ Kind[r] = "local"
        /\ UNCHANGED <<pinned, folder, sets, arranged, image>>
    BY <1>4 DEF CopyMetadata, Asks
  <2> QED BY <2>1 DEF Halfway, InStages, InPlaces, LayersAsResolved, Resolving, StagedAs, AFeature
<1>5. ASSUME NEW r \in FeatureRefs, PullManifest(r) PROVE StagingInv'
  <2>1. /\ at = "resolve" /\ at' = "pull" /\ half' = <<r, Reference(r)>>
        /\ UNCHANGED <<pinned, folder, sets, arranged, image>>
    BY <1>5 DEF PullManifest, Asks
  <2>2. pinned[r] \in {0, Reference(r)}
    BY DEF Reference
  <2> QED BY <2>1, <2>2 DEF Halfway, InStages, InPlaces, LayersAsResolved, Resolving, StagedAs, AFeature
<1>6. CASE CopyScripts
  <2>1. Staged(half[1], half[2], published[half[1]], half[2])
    BY <1>6 DEF CopyScripts, MetadataRead
  <2> QED BY <1>6, <2>1, StagedKeeps DEF CopyScripts, Halfway, Resolving
<1>7. CASE PullBlob
  <2>1. PICK json \in {half[2]} \cup {0} : Staged(half[1], json, half[2], half[2])
    BY <1>7 DEF PullBlob, Blob
  <2> QED BY <1>7, <2>1, StagedKeeps DEF PullBlob, Halfway, Resolving
<1>8. ASSUME NEW r \in FeatureRefs, Download(r), ~Abandon PROVE StagingInv'
  <2>1. PICK v \in {published[r], 0} :
          /\ Matches(r, published[r]) /\ Staged(r, v, published[r], v)
          /\ UNCHANGED <<published, pins, at, pinned, half, arranged, image, builds>>
    BY <1>8 DEF Download, Published
  <2> QED BY <1>8, <2>1, StagedKeeps DEF Download, Asks, Resolving, Matches
<1>9. CASE Arrange
  <2>1. PICK f \in Orders : Realign(f)
    BY <1>9 DEF Arrange
  <2>2. PICK n \in 1 .. Len(sets) : f \in [1 .. n -> 1 .. Len(sets)]
    BY <2>1 DEF Orders
  <2>3. /\ at = "resolve" /\ at' = "ordered" /\ UNCHANGED <<pinned, image>> /\ image = NoImage
    BY <1>9 DEF Arrange, InStages, Resolving
  <2>4. /\ DOMAIN arranged' = 1 .. n
        /\ \A i \in 1 .. n : arranged'[i] = [sets[f[i]] EXCEPT !.path = Place(sets[f[i]], i)]
    BY <2>1, <2>2 DEF Realign
  <2>5. ASSUME NEW i \in 1 .. n
        PROVE  /\ arranged'[i].path = Place(arranged'[i], i)
               /\ Place(arranged'[i], i) \in DOMAIN folder'
               /\ StagedAs(arranged'[i], folder'[Place(arranged'[i], i)])
    <3>1. /\ AFeature(sets[f[i]]) /\ sets[f[i]].path = Stage(f[i])
          /\ StagedAs(sets[f[i]], folder[Stage(f[i])])
      BY <2>2, <2>3 DEF InStages, Resolving
    <3>2. /\ arranged'[i].ref = sets[f[i]].ref /\ arranged'[i].meta = sets[f[i]].meta
          /\ arranged'[i].path = Place(sets[f[i]], i)
      BY <2>4, <3>1 DEF AFeature
    <3>3. Place(arranged'[i], i) = Place(sets[f[i]], i) /\ Place(sets[f[i]], i)[2] = i
      BY <3>2 DEF Place
    <3>4. /\ Place(sets[f[i]], i) \in DOMAIN folder'
          /\ folder'[Place(sets[f[i]], i)] = folder[Stage(f[i])]
      BY <2>1, <2>2, <3>1, <3>2, <3>3 DEF Realign, Source
    <3> QED BY <3>1, <3>2, <3>3, <3>4 DEF StagedAs
  <2>6. InPlaces'
    BY <2>3, <2>4, <2>5 DEF InPlaces, StagedAs
  <2> QED BY <2>3, <2>6 DEF Halfway, InStages, Resolving, LayersAsResolved, NoImage
<1>10. CASE SaveLockfile
  <2>1. /\ at = "ordered" /\ at' = "pinned" /\ UNCHANGED <<pinned, folder, arranged, image>>
    BY <1>10 DEF SaveLockfile
  <2> QED BY <2>1 DEF Halfway, InStages, Resolving, InPlaces, LayersAsResolved, StagedAs
<1>11. CASE StageFiles
  <2>1. at = "pinned" /\ UNCHANGED <<pinned, arranged, image>>
    BY <1>11 DEF StageFiles
  <2>2. CASE at' = "idle"
    BY <2>1, <2>2 DEF Halfway, InStages, Resolving, InPlaces, LayersAsResolved
  <2>3. CASE at' # "idle"
    <3>1. /\ at' = "staged" /\ \A i \in DOMAIN arranged : folder[arranged[i].path].json # 0
          /\ folder' = [p \in DOMAIN folder |->
               [folder[p] EXCEPT !.env = Options(folder[p].ref, arranged[p[2]].meta)]]
      BY <1>11, <2>3 DEF StageFiles
    <3>2. ASSUME NEW i \in DOMAIN arranged
          PROVE  LET p == Place(arranged[i], i) IN
                 /\ arranged[i].path = p /\ p \in DOMAIN folder'
                 /\ StagedAs(arranged[i], folder'[p])
                 /\ folder'[p].json # 0
                 /\ folder'[p].env = Options(folder'[p].ref, arranged[i].meta)
      <4> DEFINE p == Place(arranged[i], i)
      <4>1. arranged[i].path = p /\ p \in DOMAIN folder /\ StagedAs(arranged[i], folder[p]) /\ p[2] = i
        BY <2>1 DEF InPlaces, Place
      <4> HIDE DEF p
      <4>2. folder'[p] = [folder[p] EXCEPT !.env = Options(folder[p].ref, arranged[i].meta)]
        BY <3>1, <4>1
      <4>3. /\ folder'[p].ref = folder[p].ref /\ folder'[p].json = folder[p].json
            /\ folder'[p].scripts = folder[p].scripts
            /\ folder'[p].env = Options(folder[p].ref, arranged[i].meta)
            /\ folder'[p] = [ref |-> folder'[p].ref, json |-> folder'[p].json,
                             scripts |-> folder'[p].scripts, env |-> folder'[p].env]
        BY <4>1, <4>2 DEF StagedAs
      <4>4. StagedAs(arranged[i], folder'[p])
        BY <4>1, <4>3 DEF StagedAs
      <4>5. folder'[p].json # 0 /\ p \in DOMAIN folder'
        BY <3>1, <4>1, <4>3
      <4> QED BY <4>1, <4>3, <4>4, <4>5 DEF p
    <3>3. \A s, x : StagedAs(s, x)' <=> StagedAs(s, x)
      BY <2>1 DEF StagedAs
    <3>4. ASSUME NEW i \in DOMAIN arranged
          PROVE  LET p == Place(arranged[i], i) IN
                 /\ arranged'[i].path = Place(arranged'[i], i) /\ Place(arranged'[i], i) \in DOMAIN folder'
                 /\ StagedAs(arranged[i], folder[p])'
                 /\ folder'[p].json # 0
                 /\ folder'[p].env = Options(folder'[p].ref, arranged[i].meta)
      <4> DEFINE p == Place(arranged[i], i)
      <4>1. arranged'[i] = arranged[i] /\ StagedAs(arranged[i], folder[p])'
        BY <2>1, <3>2, <3>3
      <4> QED BY <3>2, <4>1
    <3>5. InPlaces'
      <4>1. DOMAIN arranged' = DOMAIN arranged /\ \A i \in DOMAIN arranged : arranged'[i] = arranged[i]
        BY <2>1
      <4>2. \A i \in DOMAIN arranged : Place(arranged[i], i)' = Place(arranged[i], i)
        BY <4>1 DEF Place
      <4>3. \A r, m : Options(r, m)' = Options(r, m)
        OBVIOUS
      <4> QED BY <3>4, <4>1, <4>2, <4>3 DEF InPlaces
    <3>6. LayersAsResolved'
      BY <2>1 DEF LayersAsResolved
    <3>7. Halfway' /\ InStages'
      BY <3>1 DEF Halfway, InStages, Resolving
    <3> QED BY <3>5, <3>6, <3>7
  <2> QED BY <2>2, <2>3
<1>12. CASE BuildImage
  <2>1. /\ at = "staged" /\ at' = "idle" /\ UNCHANGED <<pinned, folder, arranged>>
        /\ image' = [layers |-> [i \in DOMAIN arranged |-> Layer(i)],
                     label |-> [i \in DOMAIN arranged |-> <<arranged[i].ref, arranged[i].meta>>]]
    BY <1>12 DEF BuildImage
  <2>2. ASSUME NEW i \in DOMAIN arranged
        PROVE  LET l == Layer(i) IN
               /\ l.ref = arranged[i].ref /\ l.json = arranged[i].meta
               /\ Kind[l.ref] # "local" => l.scripts = l.json /\ pinned[l.ref] \in {0, l.json}
               /\ \A o \in DOMAIN l.env :
                    l.env[o] = IF o \in Given(l.ref) THEN User ELSE l.json
    <3>1. StagedAs(arranged[i], Layer(i)) /\ Layer(i).json # 0
          /\ Layer(i).env = Options(Layer(i).ref, arranged[i].meta)
      BY <2>1 DEF InPlaces, Layer
    <3> QED BY <3>1 DEF StagedAs, Options
  <2>3. LayersAsResolved'
    BY <2>1, <2>2 DEF LayersAsResolved, Given
  <2> QED BY <2>1, <2>3 DEF Halfway, InStages, Resolving, InPlaces
<1>13. CASE FailBuild
  <2>1. at' = "idle" /\ UNCHANGED <<pinned, arranged, image>>
    BY <1>13 DEF FailBuild
  <2> QED BY <2>1 DEF Halfway, InStages, Resolving, InPlaces, LayersAsResolved
<1>14. ASSUME FailResolution \/ FailRealign \/ \E r \in FeatureRefs : Refuse(r) PROVE Abandon
  BY <1>14 DEF FailResolution, FailRealign, Refuse
<1>15. ASSUME UNCHANGED stagingVars \/ \E r \in FeatureRefs : Republish(r)
       PROVE  UNCHANGED <<at, pinned, folder, half, sets, arranged, image>>
  BY <1>15 DEF stagingVars, Republish
<1> QED BY <1>1, <1>2, <1>3, <1>4, <1>5, <1>6, <1>7, <1>8, <1>9, <1>10, <1>11, <1>12, <1>13,
     <1>14, <1>15 DEF StagingNext

LEMMA StagingStart == StagingInit => StagingInv
BY DEF StagingInit, StagingInv, Halfway, InStages, Resolving, InPlaces, LayersAsResolved, NoImage

(* Every layer of a built image installs what was resolved for its place,  *)
(* for any Features, kinds and options and however their sources move.     *)
THEOREM LayersInstallTheResolved == StagingSpec => []LayersAsResolved
<1>1. StagingInv => LayersAsResolved
  BY DEF StagingInv
<1> QED BY <1>1, StagingStart, StagingStep, PTL DEF StagingSpec
===============================================================================
