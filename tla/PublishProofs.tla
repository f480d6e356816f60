---------------------------- MODULE PublishProofs ----------------------------
(***************************************************************************)
(* What publishing leaves in the registry, for any number of jobs and any  *)
(* collections: CollectionIsBacked, ImmutableVersions and FloatsHighest.   *)
(* And the way of a Template to it and from it: PackageIsWhole and         *)
(* AppliedAsMeant.                                                         *)
(***************************************************************************)
EXTENDS Publish, Templates, FiniteSetTheorems, SequenceTheorems, TLAPS

(* A version is there, or its own tag was refused.                         *)
Arrived(r, v) == v \in DOMAIN tags[r] \/ <<r, v>> \in lost
Backed(x) == x.version # NoVersion => x.id \in Repos /\ Arrived(x.id, x.version)
InQueue(j) == \E n \in 1 .. Len(queue[j]) : queue[j][n] = Version(j)

Types ==
  /\ tags = [r \in Repos |-> tags[r]]
  /\ pc \in [Jobs -> Labels]
  /\ packaged \in [Jobs -> Collections \cup {<<>>}]
  /\ at \in [Jobs -> Nat \ {0}]
  /\ aliases \in [Jobs -> Seq(STRING)]
  /\ main \in [Jobs -> BOOLEAN]
  /\ queue \in [Jobs -> Seq(Seq(Nat))]
  /\ pushed \in [Jobs -> BOOLEAN]
  /\ calm \in BOOLEAN

(* What a job has in hand, and that the items before it are backed.        *)
Place(j) ==
  /\ pc[j] \in {"list", "upload", "push", "aliases", "next"} =>
       ItemsLeft(j) /\ Version(j) # NoVersion /\ Item(j).id \in Repos
  /\ pc[j] = "metadata" => ~ItemsLeft(j)
  /\ pc[j] = "idle" => at[j] = 1
  /\ ~main[j] => /\ pc[j] \in {"list", "upload", "push", "next"}
                 /\ aliases[j] # <<>> /\ Head(aliases[j]) \in Repos
Earlier(j) == \A i \in 1 .. Len(packaged[j]) : i < at[j] => Backed(packaged[j][i])
Present(j) ==
  /\ (pc[j] \in {"aliases", "next"} \/ ~main[j]) => Backed(Item(j))
  /\ pc[j] = "upload" => InQueue(j)
  /\ pc[j] = "push" => InQueue(j) \/ Arrived(Target(j), Version(j))

(* The one tag of a full version that a job has yet to push is its own.    *)
Pushing(j) ==
  pc[j] \in {"upload", "push"} =>
    /\ Semantic(Version(j))
    /\ \A n \in 1 .. Len(queue[j]) : Semantic(queue[j][n]) => queue[j][n] = Version(j)
    /\ \A m, n \in 1 .. Len(queue[j]) : queue[j][m] = Version(j) /\ queue[j][n] = Version(j) => m = n
    /\ calm /\ InQueue(j) => Version(j) \notin DOMAIN tags[Target(j)]
Alone == calm => \A j, k \in Jobs : Active(j) /\ Active(k) => j = k

IInv ==
  /\ Types
  /\ \A j \in Jobs : Place(j) /\ Earlier(j) /\ Present(j) /\ Pushing(j)
  /\ \A i \in DOMAIN collection : Backed(collection[i])
  /\ Alone

-----------------------------------------------------------------------------
(* No tag of x is a full version.                                          *)
Floats(x) == x \in Seq(Seq(Nat)) /\ \A n \in 1 .. Len(x) : ~Semantic(x[n])

(* One floating tag, or none.                                              *)
LEMMA OneFloat ==
  ASSUME NEW t \in Seq(Nat), Len(t) # 3, NEW x \in {<<>>, <<t>>}
  PROVE  Floats(x)
  <1>1. CASE x = <<>>
    BY <1>1 DEF Floats
  <1>2. CASE x = <<t>>
    <2>1. x \in Seq(Seq(Nat)) /\ Len(x) = 1 /\ x[1] = t
      BY <1>2
    <2>2. ~Semantic(x[1])
      BY <2>1 DEF Semantic
    <2>3. QED
      BY <2>1, <2>2 DEF Floats
  <1>3. QED
    BY <1>1, <1>2

(* SemanticTags: the version itself is among the tags, once, and no other  *)
(* of them is a full version.                                              *)
LEMMA TagsOfVersion ==
  ASSUME NEW v \in Seq(Nat), Semantic(v), NEW P
  PROVE  LET Q == SemanticTags(v, P) IN
           /\ Q \in Seq(Seq(Nat))
           /\ \E n \in 1 .. Len(Q) : Q[n] = v
           /\ \A n \in 1 .. Len(Q) : Semantic(Q[n]) => Q[n] = v
           /\ \A m, n \in 1 .. Len(Q) : Q[m] = v /\ Q[n] = v => m = n
  <1> DEFINE Float(t) == IF Advances(v, t, P) THEN <<t>> ELSE <<>>
             a == Float(Major(v))
             b == Float(Minor(v))
             c == Float(Latest)
             s == a \o b
             w == s \o <<v>>
             Q == SemanticTags(v, P)
  <1>1. Q = a \o b \o <<v>> \o c
    BY DEF SemanticTags
  <1>2. /\ Major(v) \in Seq(Nat) /\ Len(Major(v)) # 3
        /\ Minor(v) \in Seq(Nat) /\ Len(Minor(v)) # 3
        /\ Latest \in Seq(Nat) /\ Len(Latest) # 3
    BY DEF Major, Minor, Latest, Semantic
  <1>3. a \in {<<>>, <<Major(v)>>} /\ b \in {<<>>, <<Minor(v)>>} /\ c \in {<<>>, <<Latest>>}
    OBVIOUS
  <1> HIDE DEF a, b, c
  <1>4. Floats(a) /\ Floats(b) /\ Floats(c)
    BY <1>2, <1>3, OneFloat
  <1> USE DEF Floats
  <1>5. Floats(s)
    BY <1>4, ConcatProperties
  <1>6. /\ <<v>> \in Seq(Seq(Nat)) /\ Len(<<v>>) = 1 /\ <<v>>[1] = v
    OBVIOUS
  <1> HIDE DEF s
  <1>7. /\ w \in Seq(Seq(Nat)) /\ Len(w) = Len(s) + 1
        /\ \A n \in 1 .. Len(s) + 1 : w[n] = IF n <= Len(s) THEN s[n] ELSE v
    <2>1. /\ w \in Seq(Seq(Nat)) /\ Len(w) = Len(s) + Len(<<v>>)
          /\ \A n \in 1 .. Len(s) + Len(<<v>>) : w[n] = IF n <= Len(s) THEN s[n] ELSE <<v>>[n - Len(s)]
      BY <1>5, <1>6, ConcatProperties
    <2>2. ASSUME NEW n \in 1 .. Len(s) + 1, ~(n <= Len(s)) PROVE n - Len(s) = 1
      BY <1>5, <2>2, LenProperties
    <2>3. QED
      BY <1>6, <2>1, <2>2
  <1> HIDE DEF w
  <1>8. Q = w \o c
    BY <1>1 DEF w, s
  <1> HIDE DEF Q
  <1>9. /\ Q \in Seq(Seq(Nat)) /\ Len(Q) = Len(w) + Len(c)
        /\ \A n \in 1 .. Len(w) + Len(c) : Q[n] = IF n <= Len(w) THEN w[n] ELSE c[n - Len(w)]
    BY <1>4, <1>7, <1>8, ConcatProperties
  <1>10. Len(s) \in Nat /\ Len(c) \in Nat
    BY <1>4, <1>5, LenProperties
  <1>11. Q[Len(s) + 1] = v /\ Len(s) + 1 \in 1 .. Len(Q)
    BY <1>7, <1>9, <1>10
  <1>12. ASSUME NEW n \in 1 .. Len(Q), n # Len(s) + 1 PROVE ~Semantic(Q[n])
    <2>1. CASE n <= Len(s)
      <3>1. n \in 1 .. Len(s) /\ n <= Len(w) /\ n \in 1 .. Len(s) + 1 /\ n \in 1 .. Len(w) + Len(c)
        BY <1>7, <1>9, <1>10, <2>1
      <3>2. Q[n] = s[n]
        BY <1>7, <1>9, <2>1, <3>1
      <3>3. QED
        BY <1>5, <3>1, <3>2
    <2>2. CASE n > Len(s) + 1
      <3>1. n - Len(w) \in 1 .. Len(c) /\ ~(n <= Len(w)) /\ n \in 1 .. Len(w) + Len(c)
        BY <1>7, <1>9, <1>10, <2>2
      <3>2. QED
        BY <1>4, <1>9, <3>1
    <2>3. QED
      BY <1>10, <1>12, <2>1, <2>2
  <1>13. QED
    BY <1>9, <1>11, <1>12 DEF Q

(* A job that a step leaves alone keeps its part of the invariant.         *)
LEMMA Frame ==
  ASSUME Types, Types', NEW k \in Jobs,
         Place(k), Earlier(k), Present(k), Pushing(k),
         pc'[k] = pc[k], packaged'[k] = packaged[k], at'[k] = at[k], aliases'[k] = aliases[k],
         main'[k] = main[k], queue'[k] = queue[k],
         \A r \in Repos : DOMAIN tags[r] \subseteq DOMAIN tags'[r],
         lost \subseteq lost',
         calm' => calm /\ (pc[k] \in {"upload", "push"} => tags' = tags)
  PROVE  Place(k)' /\ Earlier(k)' /\ Present(k)' /\ Pushing(k)'
  <1>1. /\ Item(k)' = Item(k) /\ Version(k)' = Version(k) /\ Target(k)' = Target(k)
        /\ ItemsLeft(k)' = ItemsLeft(k) /\ InQueue(k)' = InQueue(k)
    BY DEF Item, Version, Target, ItemsLeft, InQueue
  <1>2. ASSUME NEW r \in Repos, NEW v, Arrived(r, v) PROVE Arrived(r, v)'
    BY <1>2 DEF Arrived
  <1>3. \A x : Backed(x) => Backed(x)'
    BY <1>2 DEF Backed
  <1>4. Place(k)'
    BY <1>1 DEF Place
  <1>5. Earlier(k)'
    BY <1>3 DEF Earlier
  <1>6. pc[k] = "push" => Target(k) \in Repos
    BY DEF Place, Target
  <1>7. Present(k)'
    BY <1>1, <1>2, <1>3, <1>6 DEF Present
  <1>8. Pushing(k)'
    BY <1>1 DEF Pushing
  <1>9. QED
    BY <1>4, <1>5, <1>7, <1>8

(* IInv holds at first.                                                    *)
LEMMA Initial == Init => IInv
  <1> SUFFICES ASSUME Init PROVE IInv
    OBVIOUS
  <1>1. Types
    <2>1. <<>> \in Seq(STRING) /\ <<>> \in Seq(Seq(Nat))
      OBVIOUS
    <2>2. tags = [r \in Repos |-> tags[r]]
      BY DEF Init
    <2>3. /\ packaged \in [Jobs -> Collections \cup {<<>>}] /\ at \in [Jobs -> Nat \ {0}]
          /\ aliases \in [Jobs -> Seq(STRING)] /\ queue \in [Jobs -> Seq(Seq(Nat))]
      BY <2>1 DEF Init
    <2>4. pc \in [Jobs -> Labels]
      BY DEF Init, Labels
    <2>5. main \in [Jobs -> BOOLEAN] /\ pushed \in [Jobs -> BOOLEAN] /\ calm \in BOOLEAN
      BY Zenon DEF Init
    <2>6. QED
      BY <2>2, <2>3, <2>4, <2>5 DEF Types
  <1>2. ASSUME NEW j \in Jobs PROVE Place(j) /\ Earlier(j) /\ Present(j) /\ Pushing(j) /\ ~Active(j)
    BY DEF Init, Place, Earlier, Present, Pushing, Active
  <1>3. DOMAIN collection = {}
    BY DEF Init
  <1>4. QED
    BY <1>1, <1>2, <1>3 DEF IInv, Alone

(* What a job has packaged is a sequence of items.                         *)
LEMMA PackagedSeq ==
  ASSUME Types, NEW j \in Jobs
  PROVE  /\ packaged[j] \in Seq([id: STRING, version: Seq(Nat), legacyIds: Seq(STRING)])
         /\ Len(packaged[j]) \in Nat /\ DOMAIN packaged[j] = 1 .. Len(packaged[j])
         /\ ItemsLeft(j) => Item(j) \in [id: STRING, version: Seq(Nat), legacyIds: Seq(STRING)]
  <1> DEFINE S == [id: STRING, version: Seq(Nat), legacyIds: Seq(STRING)]
  <1>1. packaged[j] \in Seq(S)
    <2>1. packaged[j] \in Collections \/ packaged[j] = <<>>
      BY DEF Types
    <2>2. <<>> \in Seq(S)
      OBVIOUS
    <2>3. QED
      BY <2>1, <2>2, CollectionsAssumption
  <1> HIDE DEF S
  <1>2. Len(packaged[j]) \in Nat /\ DOMAIN packaged[j] = 1 .. Len(packaged[j])
    BY <1>1, LenProperties
  <1>3. ASSUME ItemsLeft(j) PROVE Item(j) \in S
    <2>1. at[j] \in 1 .. Len(packaged[j])
      BY <1>2, <1>3 DEF ItemsLeft, Types
    <2>2. QED
      BY <1>1, <2>1, ElementOfSeq DEF Item
  <1>4. QED
    BY <1>1, <1>2, <1>3 DEF S

(* A step of one job leaves the others' parts, the metadata and Alone true. *)
LEMMA Others ==
  ASSUME IInv, Types', NEW j \in Jobs,
         \A k \in Jobs \ {j} :
           /\ pc'[k] = pc[k] /\ packaged'[k] = packaged[k] /\ at'[k] = at[k]
           /\ aliases'[k] = aliases[k] /\ main'[k] = main[k] /\ queue'[k] = queue[k],
         \A r \in Repos : DOMAIN tags[r] \subseteq DOMAIN tags'[r],
         lost \subseteq lost',
         calm' => calm,
         tags' = tags \/ Active(j),
         collection' = collection \/ (collection' = packaged[j] /\ pc[j] = "metadata"),
         (pc'[j] \in {"done", "failed", "killed"} \/ Active(j)) \/ (calm' => \A k \in Jobs : ~Active(k)),
         (Place(j) /\ Earlier(j) /\ Present(j) /\ Pushing(j))'
  PROVE  IInv'
  <1>1. ASSUME NEW k \in Jobs PROVE (Place(k) /\ Earlier(k) /\ Present(k) /\ Pushing(k))'
    <2>1. CASE k # j
      <3>1. calm' => calm /\ (pc[k] \in {"upload", "push"} => tags' = tags)
        BY <2>1 DEF IInv, Alone, Active
      <3>2. Types /\ Place(k) /\ Earlier(k) /\ Present(k) /\ Pushing(k)
        BY DEF IInv
      <3>3. QED
        BY <2>1, <3>1, <3>2, Frame
    <2>2. QED
      BY <2>1
  <1>2. \A x : Backed(x) => Backed(x)'
    BY DEF Backed, Arrived
  <1>3. (\A i \in DOMAIN collection : Backed(collection[i]))'
    <2>1. CASE collection' = collection
      BY <1>2, <2>1 DEF IInv
    <2>2. CASE collection' = packaged[j] /\ pc[j] = "metadata"
      <3>1. at[j] \in Nat /\ Len(packaged[j]) \in Nat /\ DOMAIN packaged[j] = 1 .. Len(packaged[j])
        BY PackagedSeq DEF IInv, Types
      <3>2. at[j] > Len(packaged[j])
        BY <2>2, <3>1 DEF IInv, Place, ItemsLeft
      <3>3. \A i \in DOMAIN packaged[j] : Backed(packaged[j][i])
        BY <3>1, <3>2 DEF IInv, Earlier
      <3>4. QED
        BY <1>2, <2>2, <3>3
    <2>3. QED
      BY <2>1, <2>2
  <1>4. Alone'
    BY DEF IInv, Alone, Active
  <1>5. QED
    BY <1>1, <1>3, <1>4 DEF IInv

(* A job that has ended has nothing in hand.                               *)
LEMMA Ended ==
  ASSUME Types, NEW j \in Jobs, NEW how \in {"done", "failed", "killed"}, End(j, how)
  PROVE  /\ (Place(j) /\ Earlier(j) /\ Present(j) /\ Pushing(j))'
         /\ pc' \in [Jobs -> Labels] /\ pc'[j] = how
         /\ packaged' \in [Jobs -> Collections \cup {<<>>}] /\ at' \in [Jobs -> Nat \ {0}]
         /\ aliases' \in [Jobs -> Seq(STRING)] /\ main' \in [Jobs -> BOOLEAN]
         /\ queue' \in [Jobs -> Seq(Seq(Nat))] /\ pushed' \in [Jobs -> BOOLEAN]
         /\ \A k \in Jobs \ {j} :
              /\ pc'[k] = pc[k] /\ packaged'[k] = packaged[k] /\ at'[k] = at[k]
              /\ aliases'[k] = aliases[k] /\ main'[k] = main[k] /\ queue'[k] = queue[k]
  <1>1. pc'[j] = how /\ packaged'[j] = <<>> /\ main'[j] = TRUE /\ at'[j] = 1
    BY DEF End, Goto, Types
  <1>2. (Place(j) /\ Earlier(j) /\ Present(j) /\ Pushing(j))'
    BY <1>1 DEF Place, Earlier, Present, Pushing
  <1>3. pc' \in [Jobs -> Labels] /\ at' \in [Jobs -> Nat \ {0}]
    BY DEF End, Goto, Types, Labels
  <1>4. main' \in [Jobs -> BOOLEAN] /\ pushed' \in [Jobs -> BOOLEAN]
    BY Zenon DEF End, Types
  <1>5. <<>> \in Seq(STRING) /\ <<>> \in Seq(Seq(Nat)) /\ <<>> \in Collections \cup {<<>>}
    OBVIOUS
  <1>6. /\ packaged' \in [Jobs -> Collections \cup {<<>>}] /\ aliases' \in [Jobs -> Seq(STRING)]
        /\ queue' \in [Jobs -> Seq(Seq(Nat))]
    BY <1>5 DEF End, Types
  <1>7. \A k \in Jobs \ {j} :
              /\ pc'[k] = pc[k] /\ packaged'[k] = packaged[k] /\ at'[k] = at[k]
              /\ aliases'[k] = aliases[k] /\ main'[k] = main[k] /\ queue'[k] = queue[k]
    BY DEF End, Goto, Types
  <1>8. QED
    BY <1>1, <1>2, <1>3, <1>4, <1>6, <1>7

-----------------------------------------------------------------------------
(* Begin keeps IInv.                                                       *)
LEMMA BeginKeeps == ASSUME IInv, NEW j \in Jobs, Begin(j) PROVE IInv'
  <1>1. PICK c \in Collections : packaged' = [packaged EXCEPT ![j] = c]
    BY DEF Begin
  <1>2. /\ pc' = [pc EXCEPT ![j] = "item"] /\ pc[j] = "idle"
        /\ UNCHANGED <<tags, collection, at, aliases, main, queue, pushed, lost>>
        /\ calm' = (calm /\ \A k \in Jobs : ~Active(k))
    BY DEF Begin, Goto, registry
  <1>3. Types'
    <2>1. calm' \in BOOLEAN
      BY <1>2 DEF IInv, Types
    <2>2. QED
      BY <1>1, <1>2, <2>1 DEF IInv, Types, Labels
  <1>4. main[j] = TRUE
    BY <1>2 DEF IInv, Types, Place
  <1>5. (Place(j) /\ Present(j) /\ Pushing(j))'
    BY <1>2, <1>4 DEF IInv, Types, Place, Present, Pushing
  <1>6. at[j] = 1
    BY <1>2 DEF IInv, Place
  <1>7. Earlier(j)'
    BY <1>1, <1>2, <1>6 DEF Earlier, IInv, Types
  <1>8. QED
    BY <1>1, <1>2, <1>3, <1>5, <1>7, Others DEF IInv, Types

(* Once the item in hand is backed, so are all before the next one.        *)
LEMMA Further ==
  ASSUME Types, NEW j \in Jobs, Earlier(j), Backed(Item(j)), at' = [at EXCEPT ![j] = at[j] + 1],
         packaged' = packaged, \A x : Backed(x) => Backed(x)'
  PROVE  Earlier(j)'
  <1>1. at[j] \in Nat /\ at'[j] = at[j] + 1 /\ Len(packaged[j]) \in Nat
    BY PackagedSeq DEF Types
  <1>2. \A i \in 1 .. Len(packaged[j]) : i < at'[j] => i < at[j] \/ i = at[j]
    BY <1>1
  <1>3. \A i \in 1 .. Len(packaged[j]) : i < at'[j] => Backed(packaged[j][i])
    BY <1>2 DEF Earlier, Item
  <1>4. QED
    BY <1>3 DEF Earlier

(* NextItem keeps IInv.                                                    *)
LEMMA NextItemKeeps == ASSUME IInv, NEW j \in Jobs, NextItem(j) PROVE IInv'
  <1> USE DEF registry, history, work
  <1>1. Active(j) /\ UNCHANGED <<tags, collection, lost, calm>> /\ main[j] = TRUE
    BY DEF NextItem, Active, IInv, Types, Place
  <1>2. Version(j) \in Seq(Nat) \/ ~ItemsLeft(j)
    BY PackagedSeq DEF IInv, Version
  <1>3. CASE ~ItemsLeft(j) /\ Goto(j, "metadata") /\ UNCHANGED work
    <2>1. Types' /\ pc' = [pc EXCEPT ![j] = "metadata"]
      BY <1>1, <1>3 DEF IInv, Types, Labels, Goto
    <2>2. (Place(j) /\ Earlier(j) /\ Present(j) /\ Pushing(j))'
      BY <1>1, <1>3, <2>1 DEF IInv, Types, Place, Earlier, Present, Pushing, Backed, Arrived, ItemsLeft
    <2>3. QED
      BY <1>1, <1>3, <2>1, <2>2, Others DEF IInv, Types
  <1>4. CASE /\ ItemsLeft(j) /\ Version(j) = NoVersion
             /\ Drop(j) /\ UNCHANGED <<pc, packaged, aliases, main, queue, pushed>>
    <2>1. Types' /\ at' = [at EXCEPT ![j] = at[j] + 1] /\ pc[j] = "item"
      BY <1>1, <1>4 DEF IInv, Types, Drop, NextItem
    <2>2. Backed(Item(j))
      BY <1>4 DEF Backed, Version
    <2>3. Earlier(j)'
      <3>1. \A x : Backed(x) => Backed(x)'
        BY <1>1 DEF Backed, Arrived
      <3>2. QED
        BY <1>4, <2>1, <2>2, <3>1, Further DEF IInv
    <2>4. (Place(j) /\ Present(j) /\ Pushing(j))'
      BY <1>1, <1>4, <2>1 DEF Place, Present, Pushing
    <2>5. QED
      BY <1>1, <1>4, <2>1, <2>3, <2>4, Others DEF IInv, Types
  <1>5. CASE /\ ItemsLeft(j) /\ Version(j) # NoVersion /\ Item(j).id \in Repos
             /\ Goto(j, "list") /\ UNCHANGED work
    <2>1. Types' /\ pc' = [pc EXCEPT ![j] = "list"] /\ pc'[j] = "list"
      BY <1>1, <1>5 DEF IInv, Types, Labels, Goto
    <2>2. (Place(j) /\ Earlier(j) /\ Present(j) /\ Pushing(j))'
      BY <1>1, <1>5, <2>1 DEF IInv, Types, Place, Earlier, Present, Pushing, Backed, Arrived, ItemsLeft, Item, Version
    <2>3. QED
      BY <1>1, <1>5, <2>1, <2>2, Others DEF IInv, Types
  <1>6. CASE End(j, "failed")
    <2>1. Types'
      BY <1>1, <1>6, Ended DEF IInv, Types
    <2>2. QED
      BY <1>1, <1>6, <2>1, Ended, Others DEF IInv
  <1>7. QED
    BY <1>3, <1>4, <1>5, <1>6 DEF NextItem

(* ListTags keeps IInv.                                                    *)
LEMMA ListTagsKeeps == ASSUME IInv, NEW j \in Jobs, ListTags(j) PROVE IInv'
  <1> USE DEF registry, history, work
  <1>1. Active(j) /\ UNCHANGED <<tags, collection, lost, calm>> /\ pc[j] = "list"
    BY DEF ListTags, Active
  <1>2. /\ ItemsLeft(j) /\ Version(j) # NoVersion /\ Item(j).id \in Repos
        /\ Version(j) \in Seq(Nat) /\ Target(j) \in Repos
    BY <1>1, PackagedSeq DEF IInv, Place, Version, Target
  <1>3. CASE Version(j) \in Published(Target(j)) /\ Goto(j, "next") /\ UNCHANGED work
    <2>1. Types' /\ pc' = [pc EXCEPT ![j] = "next"] /\ pc'[j] = "next"
      BY <1>1, <1>3 DEF IInv, Types, Labels, Goto
    <2>2. Backed(Item(j))
      BY <1>1, <1>2, <1>3 DEF IInv, Present, Backed, Arrived, Target, Version, Published
    <2>3. (Place(j) /\ Earlier(j) /\ Present(j) /\ Pushing(j))'
      BY <1>1, <1>2, <1>3, <2>1, <2>2 DEF IInv, Types, Place, Earlier, Present, Pushing, Backed, Arrived, ItemsLeft, Item, Version
    <2>4. QED
      BY <1>1, <1>3, <2>1, <2>3, Others DEF IInv, Types
  <1>4. CASE End(j, "failed")
    <2>1. Types'
      BY <1>1, <1>4, Ended DEF IInv, Types
    <2>2. QED
      BY <1>1, <1>4, <2>1, Ended, Others DEF IInv
  <1>5. CASE /\ Version(j) \notin Published(Target(j)) /\ Semantic(Version(j))
             /\ queue' = [queue EXCEPT ![j] = SemanticTags(Version(j), Published(Target(j)))]
             /\ Goto(j, "upload") /\ UNCHANGED <<packaged, at, aliases, main, pushed>>
    <2> DEFINE v == Version(j)
               Q == SemanticTags(v, Published(Target(j)))
    <2>1. /\ Q \in Seq(Seq(Nat))
          /\ \E n \in 1 .. Len(Q) : Q[n] = v
          /\ \A n \in 1 .. Len(Q) : Semantic(Q[n]) => Q[n] = v
          /\ \A m, n \in 1 .. Len(Q) : Q[m] = v /\ Q[n] = v => m = n
      BY <1>2, <1>5, TagsOfVersion
    <2> HIDE DEF Q
    <2>2. queue' = [queue EXCEPT ![j] = Q]
      BY <1>5 DEF Q
    <2>3. Types' /\ pc' = [pc EXCEPT ![j] = "upload"] /\ pc'[j] = "upload" /\ queue'[j] = Q
      BY <1>1, <1>5, <2>1, <2>2 DEF IInv, Types, Labels, Goto
    <2>4. Item(j)' = Item(j) /\ Version(j)' = v /\ Target(j)' = Target(j) /\ ItemsLeft(j)' = ItemsLeft(j)
      BY <1>5 DEF Item, Version, Target, ItemsLeft
    <2>5. Place(j)' /\ Earlier(j)'
      BY <1>1, <1>2, <1>5, <2>3, <2>4 DEF IInv, Place, Earlier, Backed, Arrived
    <2>6. Present(j)'
      BY <1>1, <1>5, <2>1, <2>3, <2>4 DEF IInv, Present, Backed, Arrived, InQueue
    <2>7. Pushing(j)'
      BY <1>1, <1>5, <2>1, <2>3, <2>4 DEF Pushing, Published
    <2>8. QED
      BY <1>1, <1>5, <2>2, <2>3, <2>5, <2>6, <2>7, Others DEF IInv, Types
  <1>6. QED
    BY <1>3, <1>4, <1>5 DEF ListTags

(* RequestFails keeps IInv.                                                *)
LEMMA RequestFailsKeeps == ASSUME IInv, NEW j \in Jobs, RequestFails(j) PROVE IInv'
  <1>1. /\ Active(j) /\ UNCHANGED <<tags, collection, lost, calm>> /\ End(j, "failed")
    BY DEF RequestFails, Active, registry, history
  <1>2. Types'
    BY <1>1, Ended DEF IInv, Types
  <1>3. QED
    BY <1>1, <1>2, Ended, Others DEF IInv

(* Upload keeps IInv.                                                      *)
LEMMA UploadKeeps == ASSUME IInv, NEW j \in Jobs, Upload(j) PROVE IInv'
  <1> USE DEF registry, history, work
  <1>1. /\ Active(j) /\ pc[j] = "upload" /\ UNCHANGED <<tags, collection, lost, calm>> /\ UNCHANGED work
        /\ pc' = [pc EXCEPT ![j] = "push"]
    BY DEF Upload, Goto, Active
  <1>2. Types' /\ pc'[j] = "push"
    BY <1>1 DEF IInv, Types, Labels
  <1>3. Item(j)' = Item(j) /\ Version(j)' = Version(j) /\ Target(j)' = Target(j) /\ ItemsLeft(j)' = ItemsLeft(j)
    BY <1>1 DEF Item, Version, Target, ItemsLeft
  <1>4. Place(j)' /\ Earlier(j)'
    BY <1>1, <1>2, <1>3 DEF IInv, Place, Earlier, Backed, Arrived
  <1>5. Present(j)' /\ Pushing(j)'
    BY <1>1, <1>2, <1>3 DEF IInv, Present, Pushing, Backed, Arrived, InQueue
  <1>6. QED
    BY <1>1, <1>2, <1>4, <1>5, Others DEF IInv, Types

(* The head of a queue is the version, or the version is further back.     *)
LEMMA HeadOfQueue ==
  ASSUME NEW Q \in Seq(Seq(Nat)), Q # <<>>, NEW v,
         \A m, n \in 1 .. Len(Q) : Q[m] = v /\ Q[n] = v => m = n
  PROVE  LET R == Tail(Q) IN
         /\ Head(Q) \in Seq(Nat) /\ Head(Q) = Q[1] /\ 1 \in 1 .. Len(Q)
         /\ R \in Seq(Seq(Nat))
         /\ \A n \in 1 .. Len(R) : n + 1 \in 1 .. Len(Q) /\ R[n] = Q[n + 1]
         /\ (\E n \in 1 .. Len(Q) : Q[n] = v) => Head(Q) = v \/ \E n \in 1 .. Len(R) : R[n] = v
         /\ Head(Q) = v => \A n \in 1 .. Len(R) : R[n] # v
         /\ \A m, n \in 1 .. Len(R) : R[m] = v /\ R[n] = v => m = n
  <1> DEFINE R == Tail(Q)
  <1>1. /\ Head(Q) \in Seq(Nat) /\ Head(Q) = Q[1] /\ R \in Seq(Seq(Nat))
        /\ Len(R) = Len(Q) - 1 /\ Len(Q) \in Nat /\ Len(Q) > 0
        /\ \A n \in 1 .. Len(R) : R[n] = Q[n + 1]
    <2> DEFINE S == Seq(Nat)
    <2>1. Q \in Seq(S)
      OBVIOUS
    <2> HIDE DEF S
    <2>2. Len(Q) \in Nat \ {0}
      BY <2>1, EmptySeq
    <2>3. Head(Q) \in S /\ R \in Seq(S) /\ Len(R) = Len(Q) - 1 /\ \A n \in 1 .. Len(R) : R[n] = Q[n + 1]
      BY <2>1, HeadTailProperties
    <2>4. Head(Q) = Q[1]
      BY <2>1, <2>2
    <2>5. QED
      BY <2>2, <2>3, <2>4 DEF S
  <1> HIDE DEF R
  <1>2. \A n \in 1 .. Len(R) : n + 1 \in 1 .. Len(Q) /\ n + 1 # 1
    BY <1>1
  <1>3. \A n \in 1 .. Len(Q) : n = 1 \/ (n - 1 \in 1 .. Len(R) /\ R[n - 1] = Q[n])
    BY <1>1
  <1>4. 1 \in 1 .. Len(Q)
    BY <1>1
  <1>5. (\E n \in 1 .. Len(Q) : Q[n] = v) => Head(Q) = v \/ \E n \in 1 .. Len(R) : R[n] = v
    BY <1>1, <1>3
  <1>6. Head(Q) = v => \A n \in 1 .. Len(R) : R[n] # v
    BY <1>1, <1>2, <1>4
  <1>7. ASSUME NEW m \in 1 .. Len(R), NEW n \in 1 .. Len(R), R[m] = v, R[n] = v PROVE m = n
    <2>1. Q[m + 1] = v /\ Q[n + 1] = v /\ m + 1 \in 1 .. Len(Q) /\ n + 1 \in 1 .. Len(Q)
      BY <1>1, <1>2, <1>7
    <2>2. m + 1 = n + 1
      BY <2>1
    <2>3. QED
      BY <1>1, <2>2
  <1>8. QED
    BY <1>1, <1>2, <1>4, <1>5, <1>6, <1>7 DEF R

(* The push of a tag, accepted or refused: its parts but for the tags.     *)
LEMMA Popped ==
  ASSUME IInv, NEW j \in Jobs, pc[j] = "push", queue[j] # <<>>,
         queue' = [queue EXCEPT ![j] = Tail(@)],
         UNCHANGED <<pc, packaged, at, aliases, main, calm>>,
         pushed' \in [Jobs -> BOOLEAN], tags' = [r \in Repos |-> tags'[r]],
         \A r \in Repos : DOMAIN tags[r] \subseteq DOMAIN tags'[r],
         \A r \in Repos : Version(j) \in DOMAIN tags'[r] =>
           Version(j) \in DOMAIN tags[r] \/ Head(queue[j]) = Version(j),
         lost \subseteq lost',
         Head(queue[j]) \in DOMAIN tags'[Target(j)] \/ <<Target(j), Head(queue[j])>> \in lost'
  PROVE  /\ Types' /\ (Place(j) /\ Earlier(j) /\ Present(j) /\ Pushing(j))'
         /\ \A k \in Jobs \ {j} : queue'[k] = queue[k]
  <1> DEFINE Q == queue[j]
             v == Version(j)
  <1>1. Q \in Seq(Seq(Nat)) /\ queue'[j] = Tail(Q) /\ Target(j) \in Repos
    BY DEF IInv, Types, Place, Target
  <1>2. /\ Semantic(v)
        /\ \A n \in 1 .. Len(Q) : Semantic(Q[n]) => Q[n] = v
        /\ \A m, n \in 1 .. Len(Q) : Q[m] = v /\ Q[n] = v => m = n
        /\ calm /\ InQueue(j) => v \notin DOMAIN tags[Target(j)]
        /\ InQueue(j) \/ Arrived(Target(j), v)
    BY DEF IInv, Pushing, Present
  <1>3. /\ Tail(Q) \in Seq(Seq(Nat)) /\ Head(Q) = Q[1] /\ 1 \in 1 .. Len(Q)
        /\ \A n \in 1 .. Len(Tail(Q)) : n + 1 \in 1 .. Len(Q) /\ Tail(Q)[n] = Q[n + 1]
        /\ InQueue(j) => Head(Q) = v \/ \E n \in 1 .. Len(Tail(Q)) : Tail(Q)[n] = v
        /\ Head(Q) = v => \A n \in 1 .. Len(Tail(Q)) : Tail(Q)[n] # v
        /\ \A m, n \in 1 .. Len(Tail(Q)) : Tail(Q)[m] = v /\ Tail(Q)[n] = v => m = n
    BY <1>1, <1>2, HeadOfQueue DEF InQueue
  <1>4. Types'
    BY <1>3 DEF IInv, Types
  <1>5. Item(j)' = Item(j) /\ Version(j)' = v /\ Target(j)' = Target(j) /\ ItemsLeft(j)' = ItemsLeft(j)
    BY DEF Item, Version, Target, ItemsLeft
  <1>6. InQueue(j)' <=> \E n \in 1 .. Len(Tail(Q)) : Tail(Q)[n] = v
    BY <1>1, <1>5 DEF InQueue
  <1>7. \A x : Backed(x) => Backed(x)'
    BY DEF Backed, Arrived
  <1>8. Place(j)' /\ Earlier(j)'
    BY <1>5, <1>7 DEF IInv, Place, Earlier
  <1>9. Present(j)'
    <2>1. InQueue(j) => Head(Q) = v \/ InQueue(j)'
      BY <1>3, <1>6 DEF InQueue
    <2>2. Arrived(Target(j), v) \/ Head(Q) = v => Arrived(Target(j), v)'
      BY <1>1, <1>5 DEF Arrived
    <2>3. InQueue(j)' \/ Arrived(Target(j), v)'
      BY <1>2, <2>1, <2>2
    <2>4. QED
      BY <1>5, <1>7, <2>3 DEF IInv, Present
  <1>10. InQueue(j)' => InQueue(j) /\ Head(Q) # v
    BY <1>3, <1>6 DEF InQueue
  <1>11. Pushing(j)'
    <2>1. \A n \in 1 .. Len(Tail(Q)) : Semantic(Tail(Q)[n]) => Tail(Q)[n] = v
      BY <1>2, <1>3
    <2>2. calm' /\ InQueue(j)' => v \notin DOMAIN tags'[Target(j)]
      BY <1>1, <1>2, <1>5, <1>10
    <2>3. QED
      BY <1>1, <1>2, <1>3, <1>5, <2>1, <2>2 DEF Pushing
  <1>12. QED
    BY <1>4, <1>8, <1>9, <1>11 DEF IInv, Types

(* PushTag keeps IInv.                                                     *)
LEMMA PushTagKeeps == ASSUME IInv, NEW j \in Jobs, PushTag(j) PROVE IInv'
  <1> USE DEF history
  <1>1. /\ pc[j] = "push" /\ queue[j] # <<>> /\ Active(j)
        /\ queue' = [queue EXCEPT ![j] = Tail(@)]
        /\ UNCHANGED <<pc, packaged, at, aliases, main, calm, lost, collection>>
    BY DEF PushTag, Active
  <1>2. pushed' \in [Jobs -> BOOLEAN]
    BY Zenon DEF PushTag, IInv, Types
  <1>3. Target(j) \in Repos
    BY <1>1 DEF IInv, Place, Target
  <1>4. /\ tags' = [r \in Repos |-> tags'[r]]
        /\ DOMAIN tags'[Target(j)] = DOMAIN tags[Target(j)] \cup {Head(queue[j])}
        /\ \A r \in Repos \ {Target(j)} : tags'[r] = tags[r]
    BY <1>3 DEF PushTag, IInv, Types
  <1>5. /\ Types' /\ (Place(j) /\ Earlier(j) /\ Present(j) /\ Pushing(j))'
        /\ \A k \in Jobs \ {j} : queue'[k] = queue[k]
    BY <1>1, <1>2, <1>3, <1>4, Popped
  <1>6. \A r \in Repos : DOMAIN tags[r] \subseteq DOMAIN tags'[r]
    BY <1>4
  <1>7. QED
    BY <1>1, <1>5, <1>6, Others

(* PushTagFails keeps IInv.                                                *)
LEMMA PushTagFailsKeeps == ASSUME IInv, NEW j \in Jobs, PushTagFails(j) PROVE IInv'
  <1> USE DEF registry
  <1>1. /\ pc[j] = "push" /\ queue[j] # <<>> /\ Active(j)
        /\ queue' = [queue EXCEPT ![j] = Tail(@)]
        /\ UNCHANGED <<tags, pc, packaged, at, aliases, main, pushed, calm, collection>>
        /\ lost' = lost \cup {<<Target(j), Head(queue[j])>>}
    BY DEF PushTagFails, Active
  <1>2. /\ Types' /\ (Place(j) /\ Earlier(j) /\ Present(j) /\ Pushing(j))'
        /\ \A k \in Jobs \ {j} : queue'[k] = queue[k]
    BY <1>1, Popped DEF IInv, Types
  <1>3. QED
    BY <1>1, <1>2, Others

(* EndPush keeps IInv.                                                     *)
LEMMA EndPushKeeps == ASSUME IInv, NEW j \in Jobs, EndPush(j) PROVE IInv'
  <1> USE DEF registry, history
  <1>1. /\ pc[j] = "push" /\ queue[j] = <<>> /\ Active(j) /\ UNCHANGED <<tags, collection, lost, calm>>
    BY DEF EndPush, Active
  <1>2. CASE End(j, "failed")
    <2>1. Types'
      BY <1>1, <1>2, Ended DEF IInv, Types
    <2>2. QED
      BY <1>1, <1>2, <2>1, Ended, Others DEF IInv
  <1>3. CASE /\ Goto(j, IF main[j] THEN "aliases" ELSE "next")
             /\ aliases' = [aliases EXCEPT ![j] = IF main[j] THEN Item(j).legacyIds ELSE @]
             /\ pushed' = [pushed EXCEPT ![j] = FALSE]
             /\ UNCHANGED <<packaged, at, main, queue>>
    <2> DEFINE ids == IF main[j] THEN Item(j).legacyIds ELSE aliases[j]
               where == IF main[j] THEN "aliases" ELSE "next"
    <2>1. /\ ItemsLeft(j) /\ Version(j) # NoVersion /\ Item(j).id \in Repos
          /\ ids \in Seq(STRING) /\ where \in {"aliases", "next"} /\ where \in Labels
      BY <1>1, PackagedSeq DEF IInv, Types, Place, Labels
    <2>2. aliases' = [aliases EXCEPT ![j] = ids] /\ pc' = [pc EXCEPT ![j] = where]
      BY <1>3 DEF Goto
    <2> HIDE DEF ids
    <2>3. Types' /\ pc'[j] = where
      <3>1. pushed' \in [Jobs -> BOOLEAN]
        BY <1>3, Zenon DEF IInv, Types
      <3>2. QED
        BY <1>1, <1>3, <2>1, <2>2, <3>1 DEF IInv, Types
    <2>4. ~InQueue(j)
      BY <1>1, EmptySeq DEF InQueue
    <2>5. Arrived(Target(j), Version(j))
      BY <1>1, <2>4 DEF IInv, Present
    <2>6. Backed(Item(j))
      BY <2>1, <2>5 DEF IInv, Present, Backed, Target, Version
    <2>7. \A x : Backed(x) => Backed(x)'
      BY <1>1 DEF Backed, Arrived
    <2>8. Item(j)' = Item(j) /\ Version(j)' = Version(j) /\ ItemsLeft(j)' = ItemsLeft(j)
      BY <1>3 DEF Item, Version, ItemsLeft
    <2>9. Place(j)'
      <3>1. ~main[j] => where = "next" /\ aliases'[j] = aliases[j]
        BY <2>2 DEF IInv, Types, ids
      <3>2. QED
        BY <1>3, <2>1, <2>3, <2>8, <3>1 DEF IInv, Place
    <2>10. Earlier(j)' /\ Present(j)' /\ Pushing(j)'
      BY <1>3, <2>1, <2>3, <2>6, <2>7, <2>8 DEF IInv, Earlier, Present, Pushing
    <2>11. QED
      BY <1>1, <1>3, <2>2, <2>3, <2>9, <2>10, Others DEF IInv, Types
  <1>4. QED
    BY <1>2, <1>3 DEF EndPush

(* NextAlias keeps IInv.                                                   *)
LEMMA NextAliasKeeps == ASSUME IInv, NEW j \in Jobs, NextAlias(j) PROVE IInv'
  <1> USE DEF registry, history, work
  <1>1. /\ pc[j] = "aliases" /\ Active(j) /\ UNCHANGED <<tags, collection, lost, calm>>
        /\ ItemsLeft(j) /\ Version(j) # NoVersion /\ Item(j).id \in Repos
        /\ Backed(Item(j)) /\ main[j] = TRUE
    BY DEF NextAlias, Active, IInv, Types, Place, Present
  <1>2. \A x : Backed(x) => Backed(x)'
    BY <1>1 DEF Backed, Arrived
  <1>3. CASE Goto(j, "item") /\ Drop(j) /\ UNCHANGED <<packaged, aliases, main, queue, pushed>>
    <2>1. /\ Types' /\ at' = [at EXCEPT ![j] = at[j] + 1]
          /\ pc' = [pc EXCEPT ![j] = "item"] /\ pc'[j] = "item"
      BY <1>1, <1>3 DEF IInv, Types, Drop, Goto, Labels
    <2>2. Earlier(j)'
      BY <1>1, <1>2, <1>3, <2>1, Further DEF IInv
    <2>3. (Place(j) /\ Present(j) /\ Pushing(j))'
      BY <1>1, <1>3, <2>1 DEF Place, Present, Pushing
    <2>4. QED
      BY <1>1, <1>3, <2>1, <2>2, <2>3, Others DEF IInv, Types
  <1>4. CASE /\ aliases[j] # <<>> /\ Head(aliases[j]) \in Repos
             /\ Goto(j, "list") /\ main' = [main EXCEPT ![j] = FALSE]
             /\ UNCHANGED <<packaged, at, aliases, queue, pushed>>
    <2>1. Types' /\ pc' = [pc EXCEPT ![j] = "list"] /\ pc'[j] = "list"
      <3>1. main' \in [Jobs -> BOOLEAN]
        BY <1>4, Zenon DEF IInv, Types
      <3>2. QED
        BY <1>1, <1>4, <3>1 DEF IInv, Types, Goto, Labels
    <2>2. Item(j)' = Item(j) /\ Version(j)' = Version(j) /\ ItemsLeft(j)' = ItemsLeft(j)
      BY <1>4 DEF Item, Version, ItemsLeft
    <2>3. (Place(j) /\ Earlier(j) /\ Present(j) /\ Pushing(j))'
      BY <1>1, <1>2, <1>4, <2>1, <2>2 DEF IInv, Place, Earlier, Present, Pushing
    <2>4. \A k \in Jobs \ {j} : main'[k] = main[k]
      BY <1>4 DEF IInv, Types
    <2>5. QED
      BY <1>1, <1>4, <2>1, <2>3, <2>4, Others DEF IInv, Types
  <1>5. CASE End(j, "failed")
    <2>1. Types'
      BY <1>1, <1>5, Ended DEF IInv, Types
    <2>2. QED
      BY <1>1, <1>5, <2>1, Ended, Others DEF IInv
  <1>6. QED
    BY <1>3, <1>4, <1>5 DEF NextAlias

(* EndItem keeps IInv.                                                     *)
LEMMA EndItemKeeps == ASSUME IInv, NEW j \in Jobs, EndItem(j) PROVE IInv'
  <1> USE DEF registry, history
  <1>1. /\ pc[j] = "next" /\ Active(j) /\ UNCHANGED <<tags, collection, lost, calm, packaged, queue, pushed>>
        /\ ItemsLeft(j) /\ Version(j) # NoVersion /\ Item(j).id \in Repos
        /\ Backed(Item(j))
    BY DEF EndItem, Active, IInv, Types, Place, Present
  <1>2. \A x : Backed(x) => Backed(x)'
    BY <1>1 DEF Backed, Arrived
  <1>3. CASE main[j] /\ Goto(j, "item") /\ Drop(j) /\ UNCHANGED <<aliases, main>>
    <2>1. /\ Types' /\ at' = [at EXCEPT ![j] = at[j] + 1]
          /\ pc' = [pc EXCEPT ![j] = "item"] /\ pc'[j] = "item"
      BY <1>1, <1>3 DEF IInv, Types, Drop, Goto, Labels
    <2>2. Earlier(j)'
      BY <1>1, <1>2, <1>3, <2>1, Further DEF IInv
    <2>3. (Place(j) /\ Present(j) /\ Pushing(j))'
      BY <1>1, <1>3, <2>1 DEF Place, Present, Pushing
    <2>4. QED
      BY <1>1, <1>3, <2>1, <2>2, <2>3, Others DEF IInv, Types
  <1>4. CASE /\ ~main[j] /\ Goto(j, "aliases") /\ UNCHANGED at
             /\ aliases' = [aliases EXCEPT ![j] = Tail(@)] /\ main' = [main EXCEPT ![j] = TRUE]
    <2>1. aliases[j] \in Seq(STRING) /\ Tail(aliases[j]) \in Seq(STRING)
      BY <1>1, <1>4, HeadTailProperties DEF IInv, Types, Place
    <2>2. Types' /\ pc' = [pc EXCEPT ![j] = "aliases"] /\ pc'[j] = "aliases"
      <3>1. main' \in [Jobs -> BOOLEAN]
        BY <1>4, Zenon DEF IInv, Types
      <3>2. QED
        BY <1>1, <1>4, <2>1, <3>1 DEF IInv, Types, Goto, Labels
    <2>3. Item(j)' = Item(j) /\ Version(j)' = Version(j) /\ ItemsLeft(j)' = ItemsLeft(j) /\ main'[j]
      BY <1>1, <1>4 DEF Item, Version, ItemsLeft, IInv, Types
    <2>4. (Place(j) /\ Earlier(j) /\ Present(j) /\ Pushing(j))'
      BY <1>1, <1>2, <1>4, <2>2, <2>3 DEF IInv, Place, Earlier, Present, Pushing
    <2>5. \A k \in Jobs \ {j} : main'[k] = main[k] /\ aliases'[k] = aliases[k]
      BY <1>4 DEF IInv, Types
    <2>6. QED
      BY <1>1, <1>4, <2>2, <2>4, <2>5, Others DEF IInv, Types
  <1>5. QED
    BY <1>3, <1>4 DEF EndItem

(* PushCollection keeps IInv.                                              *)
LEMMA PushCollectionKeeps == ASSUME IInv, NEW j \in Jobs, PushCollection(j) PROVE IInv'
  <1>1. /\ Active(j) /\ UNCHANGED <<tags, lost, calm>> /\ End(j, "done")
        /\ collection' = packaged[j] /\ pc[j] = "metadata"
    BY DEF PushCollection, Active, history
  <1>2. Types'
    BY <1>1, Ended DEF IInv, Types
  <1>3. QED
    BY <1>1, <1>2, Ended, Others DEF IInv

(* Kill keeps IInv.                                                        *)
LEMMA KillKeeps == ASSUME IInv, NEW j \in Jobs, Kill(j) PROVE IInv'
  <1>1. /\ Active(j) /\ UNCHANGED <<tags, collection, lost, calm>> /\ End(j, "killed")
    BY DEF Kill, registry
  <1>2. Types'
    BY <1>1, Ended DEF IInv, Types
  <1>3. QED
    BY <1>1, <1>2, Ended, Others DEF IInv

(* IInv is inductive, hence an invariant.                                  *)
LEMMA Invariant == Spec => []IInv
  <1>1. IInv /\ [Next]_vars => IInv'
    <2> SUFFICES ASSUME IInv, [Next]_vars PROVE IInv'
      OBVIOUS
    <2>1. CASE UNCHANGED vars
      <3> USE <2>1 DEF vars, Item, Version, ItemsLeft, Target
      <3>1. Types' /\ Alone'
        BY DEF IInv, Types, Alone, Active
      <3>2. collection' = collection /\ \A x : Backed(x) => Backed(x)'
        BY DEF Backed, Arrived
      <3>3. ASSUME NEW j \in Jobs PROVE Place(j)' /\ Earlier(j)' /\ Present(j)' /\ Pushing(j)'
        <4>1. Place(j)' /\ Earlier(j)'
          BY <3>2 DEF IInv, Place, Earlier
        <4>2. Present(j)' /\ Pushing(j)'
          BY <3>2 DEF IInv, Present, Pushing, InQueue, Arrived
        <4>3. QED
          BY <4>1, <4>2
      <3>4. QED
        BY <3>1, <3>2, <3>3 DEF IInv
    <2>2. CASE Next
      BY <2>2, BeginKeeps, NextItemKeeps, ListTagsKeeps, RequestFailsKeeps, UploadKeeps, PushTagKeeps,
         PushTagFailsKeeps, EndPushKeeps, NextAliasKeeps, EndItemKeeps, PushCollectionKeeps, KillKeeps DEF Next
    <2>3. QED
      BY <2>1, <2>2
  <1>2. QED
    BY <1>1, Initial, PTL DEF Spec

(* The collection's metadata lists no version that was not published,      *)
(* unless the registry refused its own tag (publishCollectionWith), of any *)
(* collections and however many jobs overlap, fail or are killed.          *)
THEOREM CollectionBacked == Spec => []CollectionIsBacked
  <1>1. IInv => CollectionIsBacked
    BY DEF IInv, CollectionIsBacked, Backed, Arrived
  <1>2. QED
    BY <1>1, Invariant, PTL

(* A published version is never replaced while jobs do not overlap         *)
(* (publishOne), whatever tags are refused and jobs killed.                *)
THEOREM VersionsImmutable == Spec => ImmutableVersions
  <1> DEFINE A == calm => \A r \in Repos : \A v \in Exact(r) : v \in DOMAIN tags'[r] /\ tags'[r][v] = tags[r][v]
  <1>1. IInv /\ [Next]_vars => [A]_vars
    <2> SUFFICES ASSUME IInv, Next, calm, NEW r \in Repos, NEW v \in Exact(r)
                 PROVE  v \in DOMAIN tags'[r] /\ tags'[r][v] = tags[r][v]
      BY DEF vars
    <2>1. CASE tags' = tags
      BY <2>1 DEF Exact
    <2>2. ASSUME NEW j \in Jobs, PushTag(j) PROVE v \in DOMAIN tags'[r] /\ tags'[r][v] = tags[r][v]
      <3> DEFINE t == Head(queue[j])
      <3>1. tags' = [tags EXCEPT ![Target(j)] = [u \in DOMAIN @ \cup {t} |-> IF u = t THEN Manifest(j) ELSE @[u]]]
        BY <2>2 DEF PushTag
      <3>2. CASE r # Target(j) \/ v # t
        BY <3>1, <3>2 DEF IInv, Types, Exact
      <3>3. CASE r = Target(j) /\ v = t
        <4>1. pc[j] = "push" /\ queue[j] # <<>> /\ queue[j] \in Seq(Seq(Nat))
          BY <2>2 DEF PushTag, IInv, Types
        <4>2. t = queue[j][1] /\ 1 \in 1 .. Len(queue[j])
          BY <4>1, EmptySeq
        <4>3. t = Version(j) /\ InQueue(j)
          BY <3>3, <4>1, <4>2 DEF IInv, Pushing, Exact, InQueue
        <4>4. QED
          BY <3>3, <4>1, <4>3 DEF IInv, Pushing, Exact
      <3>4. QED
        BY <3>2, <3>3
    <2>3. ASSUME NEW j \in Jobs, ~PushTag(j),
                 \/ Begin(j) \/ NextItem(j) \/ ListTags(j) \/ Upload(j) \/ RequestFails(j)
                 \/ PushTagFails(j) \/ EndPush(j) \/ NextAlias(j) \/ EndItem(j)
                 \/ PushCollection(j) \/ Kill(j)
          PROVE  tags' = tags
      BY <2>3 DEF Begin, NextItem, ListTags, Upload, RequestFails, PushTagFails, EndPush, NextAlias, EndItem,
                  PushCollection, Kill, registry
    <2>4. QED
      BY <2>1, <2>2, <2>3 DEF Next
  <1>2. QED
    BY <1>1, Invariant, PTL DEF Spec, ImmutableVersions

(***************************************************************************)
(* The floating tags.                                                      *)
(***************************************************************************)
Floating(v) == {Latest, Major(v), Minor(v)}

(* A version is three numbers, and its floating tags the first of them.    *)
LEMMA ThreeNumbers ==
  ASSUME NEW v \in Versions
  PROVE  /\ v \in Seq(Nat) /\ Len(v) = 3 /\ v[1] \in Nat /\ v[2] \in Nat /\ v[3] \in Nat
         /\ Floating(v) = {SubSeq(v, 1, k) : k \in 0 .. 2}
         /\ \A k \in 0 .. 2 : SubSeq(v, 1, k) \in Seq(Nat) /\ Len(SubSeq(v, 1, k)) = k
  <1>1. v \in Seq(Nat) /\ Len(v) = 3
    BY DEF Versions, Tag, Semantic
  <1>2. \A i \in 1 .. 3 : v[i] \in Nat
    BY <1>1, ElementOfSeq
  <1>3. SubSeq(v, 1, 0) = <<>>
    BY SubSeqEmpty
  <1>4. Floating(v) = {SubSeq(v, 1, k) : k \in 0 .. 2}
    <2>1. 0 .. 2 = {0, 1, 2}
      OBVIOUS
    <2>2. QED
      BY <1>3, <2>1 DEF Floating, Latest, Major, Minor
  <1>5. ASSUME NEW k \in 0 .. 2 PROVE SubSeq(v, 1, k) \in Seq(Nat) /\ Len(SubSeq(v, 1, k)) = k
    <2>1. k \in Int /\ 1 \in Int /\ (\A i \in 1 .. k : v[i] \in Nat) /\ k = IF 1 <= k THEN k - 1 + 1 ELSE 0
      BY <1>2
    <2>2. QED
      BY <2>1, SubSeqProperties
  <1>6. QED
    BY <1>1, <1>2, <1>4, <1>5

(* A floating tag with w in its range is one of w's.                       *)
LEMMA FloatsInRange ==
  ASSUME NEW u \in Versions, NEW t \in Floating(u)
  PROVE  /\ t \in Seq(Nat) /\ ~Semantic(t)
         /\ \A w \in Versions : IsPrefix(t, w) => t \in Floating(w)
  <1>1. PICK k \in 0 .. 2 : t = SubSeq(u, 1, k)
    BY ThreeNumbers
  <1>2. t \in Seq(Nat) /\ Len(t) = k
    BY <1>1, ThreeNumbers
  <1>3. SubSeq(t, 1, Len(t)) = t
    BY <1>2, SubSeqFull
  <1>4. \A w \in Versions : IsPrefix(t, w) => t = SubSeq(w, 1, k)
    BY <1>2, <1>3 DEF IsPrefix
  <1>5. \A w \in Versions : SubSeq(w, 1, k) \in Floating(w)
    BY ThreeNumbers
  <1>6. ~Semantic(t)
    BY <1>2 DEF Semantic
  <1>7. QED
    BY <1>2, <1>4, <1>5, <1>6

(* Versions are in a total order.                                          *)
LEMMA Ordered ==
  /\ \A v, w \in Versions : v = w \/ Newer(v, w) \/ Newer(w, v)
  /\ \A v, w, x \in Versions : Newer(x, w) /\ Newer(w, v) => Newer(x, v)
  <1>1. ASSUME NEW v \in Versions, NEW w \in Versions PROVE v = w \/ Newer(v, w) \/ Newer(w, v)
    <2>1. /\ v \in Seq(Nat) /\ Len(v) = 3 /\ v[1] \in Nat /\ v[2] \in Nat /\ v[3] \in Nat
          /\ w \in Seq(Nat) /\ Len(w) = 3 /\ w[1] \in Nat /\ w[2] \in Nat /\ w[3] \in Nat
      BY ThreeNumbers
    <2>2. CASE v[1] = w[1] /\ v[2] = w[2] /\ v[3] = w[3]
      <3>1. \A i \in 1 .. 3 : v[i] = w[i]
        BY <2>2
      <3>2. QED
        BY <2>1, <3>1, SeqEqual
    <2>3. CASE ~(v[1] = w[1] /\ v[2] = w[2] /\ v[3] = w[3])
      BY <2>1, <2>3 DEF Newer
    <2>4. QED
      BY <2>2, <2>3
  <1>2. ASSUME NEW v \in Versions, NEW w \in Versions, NEW x \in Versions, Newer(x, w), Newer(w, v)
        PROVE  Newer(x, v)
    <2>1. /\ v[1] \in Nat /\ v[2] \in Nat /\ v[3] \in Nat
          /\ w[1] \in Nat /\ w[2] \in Nat /\ w[3] \in Nat
          /\ x[1] \in Nat /\ x[2] \in Nat /\ x[3] \in Nat
      BY ThreeNumbers
    <2>2. QED
      BY <1>2, <2>1 DEF Newer
  <1>3. QED
    BY <1>1, <1>2

(* The tags SemanticTags gives: the version's own and those of its         *)
(* floating tags in whose range nothing published is newer.                *)
TagsToPush(v, P) == {v} \cup {t \in Floating(v) : Advances(v, t, P)}

LEMMA ElementsToPush ==
  ASSUME NEW v \in Versions, NEW P
  PROVE  Range(SemanticTags(v, P)) = TagsToPush(v, P)
  <1> DEFINE S == Seq(Nat)
             Float(t) == IF Advances(v, t, P) THEN <<t>> ELSE <<>>
             Given(t) == {x \in {t} : Advances(v, x, P)}
  <1>1. \A t \in S : <<t>> \in Seq(S) /\ Range(<<t>>) = {t}
    <2>1. ASSUME NEW t \in S PROVE <<t>> \in Seq(S) /\ Len(<<t>>) = 1 /\ <<t>>[1] = t
      BY <2>1
    <2>2. ASSUME NEW t \in S PROVE Range(<<t>>) = {<<t>>[i] : i \in 1 .. 1}
      BY <2>1, <2>2, RangeEquality
    <2>3. QED
      BY <2>1, <2>2
  <1>2. <<>> \in Seq(S) /\ Range(<<>>) = {}
    <2>1. <<>> \in Seq(S) /\ Len(<<>>) = 0
      BY EmptySeq
    <2>2. Range(<<>>) = {<<>>[i] : i \in 1 .. Len(<<>>)}
      BY <2>1, RangeEquality
    <2>3. 1 .. Len(<<>>) = {}
      BY <2>1
    <2>4. QED
      BY <2>1, <2>2, <2>3
  <1>3. \A t \in S : Float(t) \in Seq(S) /\ Range(Float(t)) = Given(t)
    BY <1>1, <1>2
  <1>4. v \in S /\ Major(v) \in S /\ Minor(v) \in S /\ Latest \in S
    BY ThreeNumbers DEF Major, Minor, Latest
  <1>5. SemanticTags(v, P) = Float(Major(v)) \o Float(Minor(v)) \o <<v>> \o Float(Latest)
    BY DEF SemanticTags
  <1>6. TagsToPush(v, P) = Given(Major(v)) \cup Given(Minor(v)) \cup {v} \cup Given(Latest)
    BY DEF TagsToPush, Floating
  <1> DEFINE a == Float(Major(v))
             b == Float(Minor(v))
             c == Float(Latest)
             e == <<v>>
  <1>7. /\ a \in Seq(S) /\ Range(a) = Given(Major(v))
        /\ b \in Seq(S) /\ Range(b) = Given(Minor(v))
        /\ c \in Seq(S) /\ Range(c) = Given(Latest)
        /\ e \in Seq(S) /\ Range(e) = {v}
    BY <1>1, <1>3, <1>4
  <1>8. SemanticTags(v, P) = a \o b \o e \o c
    BY <1>5
  <1> HIDE DEF S, a, b, c, e, Given
  <1>9. a \o b \in Seq(S) /\ Range(a \o b) = Range(a) \cup Range(b)
    BY <1>7, ConcatProperties, RangeConcatenation
  <1> DEFINE ab == a \o b
             d == ab \o e
  <1>10. d \in Seq(S) /\ Range(d) = Range(a) \cup Range(b) \cup {v}
    <2>1. ab \in Seq(S) /\ Range(ab) = Range(a) \cup Range(b)
      BY <1>9
    <2> HIDE DEF ab
    <2>2. d \in Seq(S) /\ Range(d) = Range(ab) \cup Range(e)
      BY <1>7, <2>1, ConcatProperties, RangeConcatenation
    <2>3. QED
      BY <1>7, <2>1, <2>2
  <1> HIDE DEF d
  <1>11. Range(d \o c) = Range(d) \cup Range(c)
    BY <1>7, <1>10, RangeConcatenation
  <1>12. QED
    BY <1>6, <1>7, <1>8, <1>10, <1>11 DEF d

-----------------------------------------------------------------------------
(* What a tag names is the highest of versions E in its range.             *)
Tops(r, t, E) ==
  /\ t \in DOMAIN tags[r]
  /\ \A w \in E : IsPrefix(t, w) => tags[r][t].version = w \/ Newer(tags[r][t].version, w)
Highest(r) == \A u \in Exact(r) : \A t \in Floating(u) : Tops(r, t, Exact(r))

(* While a job pushes v, the floating tags are as if v were there already, *)
(* but for those it has yet to push; and those are for v to have.          *)
ToPush(j) == Range(queue[j])
Coming(j) == Exact(Target(j)) \cup {Version(j)}
Halfway(j) ==
  /\ \A u \in Coming(j) : \A t \in Floating(u) : t \in ToPush(j) \/ Tops(Target(j), t, Coming(j))
  /\ \A t \in ToPush(j) : t # Version(j) => \A w \in Coming(j) :
       IsPrefix(t, w) => w = Version(j) \/ Newer(Version(j), w)

(* What tags name are versions; and as long as jobs do not overlap, none   *)
(* was killed amid its tags and no tag was refused, the floating tags of a *)
(* repository are right but for the ones a job is at.                      *)
NameVersions ==
  \A r \in Repos : \A t \in DOMAIN tags[r] : t \in Seq(Nat) /\ tags[r][t].version \in Versions
Orderly == calm /\ whole /\ lost = {}
Settled(r) == (\A j \in Jobs : pc[j] = "push" => Target(j) # r) => Highest(r)
Tagging(j) ==
  /\ pc[j] = "upload" => ToPush(j) = TagsToPush(Version(j), Published(Target(j)))
  /\ pc[j] = "push" => Halfway(j)
FloatInv ==
  /\ NameVersions
  /\ Orderly => (\A r \in Repos : Settled(r)) /\ (\A j \in Jobs : Tagging(j))

(* The versions of a repository, and the one a job pushes, are versions.   *)
LEMMA ExactVersions ==
  ASSUME NameVersions, NEW r \in Repos
  PROVE  Exact(r) \subseteq Versions /\ \A t \in DOMAIN tags[r] : tags[r][t].version \in Versions
BY DEF NameVersions, Exact, Versions, Tag, Semantic

(* What is semantic is a version; so is what a job pushes.                 *)
LEMMA SemanticVersion ==
  ASSUME NEW v \in Seq(Nat), Semantic(v)
  PROVE  v \in Versions
  <1>1. Len(v) = 3
    BY DEF Semantic
  <1>2. Len(v) <= 3
    BY <1>1
  <1>3. QED
    BY <1>2, Zenon DEF Versions, Tag

LEMMA PushedVersion ==
  ASSUME IInv, NEW j \in Jobs, pc[j] \in {"list", "upload", "push"}
  PROVE  /\ Target(j) \in Repos /\ Version(j) \in Seq(Nat)
         /\ pc[j] # "list" => Version(j) \in Versions
  <1>1. Version(j) \in Seq(Nat) /\ Target(j) \in Repos
    BY PackagedSeq DEF IInv, Place, Version, Target
  <1>2. pc[j] # "list" => Semantic(Version(j))
    BY DEF IInv, Pushing
  <1>3. QED
    BY <1>1, <1>2, SemanticVersion

(* Before its first tag is pushed a job is halfway: a floating tag of v it *)
(* will not push names a version newer than v.                             *)
LEMMA HalfwayAtFirst ==
  ASSUME NameVersions, NEW r \in Repos, Highest(r), NEW v \in Versions, v \notin DOMAIN tags[r],
         NEW u \in Exact(r) \cup {v}, NEW t \in Floating(u)
  PROVE  t \in TagsToPush(v, DOMAIN tags[r]) \/ Tops(r, t, Exact(r) \cup {v})
  <1>1. CASE t \in Floating(v)
    <2>1. CASE Advances(v, t, DOMAIN tags[r])
      BY <1>1, <2>1 DEF TagsToPush
    <2>2. CASE ~Advances(v, t, DOMAIN tags[r])
      <3>1. PICK w \in Exact(r) : IsPrefix(t, w) /\ ~Newer(v, w)
        BY <2>2 DEF Advances, Exact
      <3>2. w \in Versions /\ Newer(w, v)
        BY <3>1, ExactVersions, Ordered DEF Exact
      <3>3. Tops(r, t, Exact(r))
        BY <1>1, <3>1, <3>2, FloatsInRange DEF Highest
      <3>4. tags[r][t].version = v \/ Newer(tags[r][t].version, v)
        BY <3>1, <3>2, <3>3, ExactVersions, Ordered DEF Tops
      <3>5. QED
        BY <3>3, <3>4 DEF Tops
    <2>3. QED
      BY <2>1, <2>2
  <1>2. CASE t \notin Floating(v)
    <2>1. u \in Exact(r) /\ u \in Versions
      BY <1>2, ExactVersions
    <2>2. ~IsPrefix(t, v)
      BY <1>2, <2>1, FloatsInRange
    <2>3. QED
      BY <2>1, <2>2 DEF Highest, Tops
  <1>3. QED
    BY <1>1, <1>2

(* And when nothing is left to push, the floating tags are right.          *)
LEMMA HalfwayAtLast ==
  ASSUME IInv, NEW j \in Jobs, pc[j] = "push", Halfway(j), queue[j] = <<>>, lost = {}
  PROVE  Highest(Target(j))
  <1>1. Len(queue[j]) = 0 /\ queue[j] \in Seq(Seq(Nat))
    BY EmptySeq DEF IInv, Types
  <1>2. ~InQueue(j) /\ ToPush(j) = {}
    <2>1. Range(queue[j]) = {queue[j][i] : i \in 1 .. Len(queue[j])}
      BY <1>1, RangeEquality
    <2>2. 1 .. Len(queue[j]) = {}
      BY <1>1
    <2>3. QED
      BY <2>1, <2>2 DEF InQueue, ToPush
  <1>3. Version(j) \in DOMAIN tags[Target(j)]
    BY <1>2 DEF IInv, Present, Arrived
  <1>4. Version(j) \in Exact(Target(j))
    BY <1>3 DEF IInv, Pushing, Exact
  <1>5. Coming(j) = Exact(Target(j))
    BY <1>4 DEF Coming
  <1>6. QED
    BY <1>2, <1>5 DEF Halfway, Highest

(* The job that takes a step is the only one that may be at its tags.      *)
LEMMA OnlyOne ==
  ASSUME IInv, NEW j \in Jobs, calm', Active(j) \/ (calm' => \A k \in Jobs : ~Active(k)),
         calm' => calm, \A k \in Jobs \ {j} : pc'[k] = pc[k]
  PROVE  \A k \in Jobs \ {j} : pc[k] \notin {"upload", "push"} /\ pc'[k] \notin {"upload", "push"}
BY DEF IInv, Alone, Active

(* A step after which the job is not at its tags keeps the tags right.     *)
LEMMA NotTagging ==
  ASSUME IInv, FloatInv, NEW j \in Jobs, Active(j) \/ (calm' => \A k \in Jobs : ~Active(k)),
         Orderly' => Orderly, \A k \in Jobs \ {j} : pc'[k] = pc[k], tags' = tags,
         pc'[j] \notin {"upload", "push"}, Orderly' /\ pc[j] = "push" => queue[j] = <<>>
  PROVE  FloatInv'
  <1>1. NameVersions'
    BY DEF FloatInv, NameVersions
  <1>2. \A r : Highest(r) => Highest(r)'
    BY DEF Highest, Tops, Exact
  <1>3. ASSUME Orderly' PROVE \A r \in Repos : Highest(r)
    <2>1. \A k \in Jobs \ {j} : pc[k] # "push"
      BY <1>3, OnlyOne DEF Orderly
    <2>2. pc[j] = "push" => Highest(Target(j))
      BY <1>3, HalfwayAtLast DEF FloatInv, Tagging, Orderly
    <2>3. QED
      BY <1>3, <2>1, <2>2 DEF FloatInv, Settled
  <1>4. ASSUME Orderly' PROVE \A k \in Jobs : Tagging(k)'
    BY <1>4, OnlyOne DEF Tagging, Orderly
  <1>5. QED
    BY <1>1, <1>2, <1>3, <1>4 DEF FloatInv, Settled

(* A sequence holds its head and what its tail holds.                      *)
LEMMA HeadAndTail ==
  ASSUME NEW S, NEW Q \in Seq(S), Q # <<>>
  PROVE  /\ Head(Q) \in S /\ Head(Q) = Q[1] /\ 1 \in 1 .. Len(Q)
         /\ Range(Q) = {Head(Q)} \cup Range(Tail(Q))
  <1> DEFINE R == Tail(Q)
  <1>1. /\ Head(Q) \in S /\ Head(Q) = Q[1] /\ Len(Q) \in Nat \ {0}
        /\ R \in Seq(S) /\ Len(R) = Len(Q) - 1 /\ \A i \in 1 .. Len(R) : R[i] = Q[i + 1]
    BY HeadTailProperties, EmptySeq
  <1> HIDE DEF R
  <1>2. /\ \A i \in 1 .. Len(R) : i + 1 \in 1 .. Len(Q)
        /\ \A i \in 1 .. Len(Q) : i = 1 \/ (i - 1 \in 1 .. Len(R) /\ R[i - 1] = Q[i])
        /\ 1 \in 1 .. Len(Q)
    BY <1>1
  <1>3. Range(Q) = {Q[i] : i \in 1 .. Len(Q)}
    BY RangeEquality
  <1>4. Range(R) = {R[i] : i \in 1 .. Len(R)}
    BY <1>1, RangeEquality
  <1>5. ASSUME NEW x \in Range(Q) PROVE x = Head(Q) \/ x \in Range(R)
    <2>1. PICK i \in 1 .. Len(Q) : x = Q[i]
      BY <1>3
    <2>2. QED
      BY <1>1, <1>2, <1>4, <2>1
  <1>6. ASSUME NEW x \in Range(R) PROVE x \in Range(Q)
    BY <1>1, <1>2, <1>3, <1>4
  <1>7. Head(Q) \in Range(Q)
    BY <1>1, <1>2, <1>3
  <1>8. QED
    BY <1>1, <1>2, <1>5, <1>6, <1>7 DEF R

(* The one step that moves a tag.                                          *)
LEMMA PushTagFloats ==
  ASSUME IInv, FloatInv, NEW j \in Jobs, PushTag(j)
  PROVE  FloatInv'
  <1> DEFINE v == Version(j)
             r == Target(j)
             h == Head(queue[j])
  <1>1. /\ pc[j] = "push" /\ queue[j] # <<>> /\ Active(j)
        /\ queue' = [queue EXCEPT ![j] = Tail(@)]
        /\ tags' = [tags EXCEPT ![r] = [u \in DOMAIN @ \cup {h} |-> IF u = h THEN Manifest(j) ELSE @[u]]]
        /\ UNCHANGED <<pc, packaged, at, aliases, main, lost, calm, whole>>
    BY DEF PushTag, Active, history
  <1>2. v \in Versions /\ r \in Repos
    BY <1>1, PushedVersion
  <1>3. /\ DOMAIN tags'[r] = DOMAIN tags[r] \cup {h}
        /\ tags'[r][h].version = v
        /\ \A t \in DOMAIN tags[r] : t # h => tags'[r][t] = tags[r][t]
        /\ \A q \in Repos \ {r} : tags'[q] = tags[q]
    BY <1>1, <1>2 DEF IInv, Types, Manifest
  <1>4. queue[j] \in Seq(Seq(Nat)) /\ queue'[j] = Tail(queue[j])
    BY <1>1 DEF IInv, Types
  <1>5. /\ h \in Seq(Nat) /\ h \in ToPush(j) /\ ToPush(j) = {h} \cup ToPush(j)'
        /\ h = queue[j][1] /\ 1 \in 1 .. Len(queue[j])
    <2> DEFINE S == Seq(Nat)
               Q == queue[j]
    <2>1. Q \in Seq(S) /\ Q # <<>> /\ queue'[j] = Tail(Q)
      BY <1>1, <1>4
    <2> HIDE DEF S, Q
    <2>2. /\ Head(Q) \in S /\ Head(Q) = Q[1] /\ 1 \in 1 .. Len(Q)
          /\ Range(Q) = {Head(Q)} \cup Range(Tail(Q))
      BY <2>1, HeadAndTail
    <2>3. QED
      BY <2>1, <2>2 DEF ToPush, Q, S
  <1>6. Semantic(h) => h = v
    BY <1>1, <1>5 DEF IInv, Pushing
  <1> HIDE DEF h
  <1>7. Version(j)' = v /\ Target(j)' = r
    BY <1>1 DEF Version, Target, Item
  <1>8. Coming(j)' = Coming(j)
    <2>1. Exact(r)' = Exact(r) \cup {x \in {h} : Semantic(x)}
      BY <1>3, <1>7 DEF Exact
    <2>2. Semantic(v)
      BY <1>2 DEF Versions
    <2>3. QED
      BY <1>6, <1>7, <2>1, <2>2 DEF Coming, Exact
  <1>9. NameVersions'
    BY <1>2, <1>3, <1>5 DEF FloatInv, NameVersions
  <1>10. ASSUME Orderly' PROVE Tagging(j)'
    <2>1. Halfway(j)
      BY <1>1, <1>10 DEF FloatInv, Tagging, Orderly
    <2>2. ASSUME NEW u \in Coming(j), NEW t \in Floating(u), t \notin ToPush(j)'
          PROVE  Tops(r, t, Coming(j))'
      <3>1. u \in Versions
        BY <1>2, ExactVersions DEF FloatInv, Coming
      <3>2. t # v
        BY <1>2, <3>1, FloatsInRange DEF Versions
      <3>3. CASE t = h
        <4>1. \A w \in Coming(j) : IsPrefix(h, w) => v = w \/ Newer(v, w)
          BY <1>5, <2>1, <3>2, <3>3 DEF Halfway
        <4>2. QED
          BY <1>3, <1>7, <1>8, <3>3, <4>1 DEF Tops
      <3>4. CASE t # h
        <4>1. Tops(r, t, Coming(j))
          BY <1>5, <2>1, <2>2, <3>4 DEF Halfway
        <4>2. tags'[r][t] = tags[r][t] /\ t \in DOMAIN tags'[r]
          BY <1>3, <3>4, <4>1 DEF Tops
        <4>3. QED
          BY <1>7, <1>8, <4>1, <4>2 DEF Tops
      <3>5. QED
        BY <3>3, <3>4
    <2>3. Halfway(j)'
      BY <1>5, <1>7, <1>8, <2>1, <2>2 DEF Halfway
    <2>4. QED
      BY <1>1, <2>3 DEF Tagging
  <1>11. ASSUME Orderly' PROVE \A k \in Jobs \ {j} : Tagging(k)' /\ pc'[k] # "push" /\ pc[k] # "push"
    BY <1>1, <1>11, OnlyOne DEF Tagging, Orderly
  <1>12. ASSUME Orderly', NEW q \in Repos PROVE Settled(q)'
    <2>1. CASE q = r
      BY <1>1, <1>7, <2>1 DEF Settled
    <2>2. CASE q # r
      <3>1. Highest(q)
        BY <1>1, <1>11, <1>12, <2>2 DEF FloatInv, Settled, Orderly
      <3>2. Highest(q)'
        BY <1>3, <2>2, <3>1 DEF Highest, Tops, Exact
      <3>3. QED
        BY <3>2 DEF Settled
    <2>3. QED
      BY <2>1, <2>2
  <1>13. QED
    BY <1>9, <1>10, <1>11, <1>12 DEF FloatInv

(* A listing says which tags a push will move.                             *)
LEMMA ListTagsFloats ==
  ASSUME IInv, FloatInv, NEW j \in Jobs, ListTags(j)
  PROVE  FloatInv'
  <1>1. /\ pc[j] = "list" /\ Active(j) /\ UNCHANGED <<tags, lost, calm, whole>>
        /\ \A k \in Jobs \ {j} : pc'[k] = pc[k]
    BY DEF ListTags, Active, registry, history, Goto, End, IInv, Types
  <1>2. CASE pc'[j] \notin {"upload", "push"}
    BY <1>1, <1>2, NotTagging DEF Orderly
  <1>3. CASE pc'[j] \in {"upload", "push"}
    <2>1. /\ pc'[j] = "upload" /\ Semantic(Version(j))
          /\ queue' = [queue EXCEPT ![j] = SemanticTags(Version(j), Published(Target(j)))]
          /\ UNCHANGED <<packaged, at, aliases, main>>
      BY <1>1, <1>3 DEF ListTags, Goto, End, work, IInv, Types
    <2>2. Version(j) \in Versions
      BY <1>1, <2>1, PushedVersion, SemanticVersion
    <2>3. ToPush(j)' = TagsToPush(Version(j), Published(Target(j)))
      BY <2>1, <2>2, ElementsToPush DEF ToPush, IInv, Types
    <2>4. Version(j)' = Version(j) /\ Target(j)' = Target(j) /\ Published(Target(j))' = Published(Target(j))
      BY <1>1, <2>1 DEF Version, Target, Item, Published
    <2>5. Tagging(j)'
      BY <2>1, <2>3, <2>4 DEF Tagging, TagsToPush, Floating
    <2>6. NameVersions' /\ \A r : Highest(r) => Highest(r)'
      BY <1>1 DEF FloatInv, NameVersions, Highest, Tops, Exact
    <2>7. ASSUME Orderly' PROVE \A k \in Jobs \ {j} : Tagging(k)' /\ pc[k] # "push"
      BY <1>1, <2>7, OnlyOne DEF Tagging, Orderly
    <2>8. ASSUME Orderly', NEW r \in Repos PROVE Settled(r)'
      BY <1>1, <2>6, <2>7, <2>8 DEF FloatInv, Settled, Orderly
    <2>9. QED
      BY <2>5, <2>6, <2>7, <2>8 DEF FloatInv
  <1>4. QED
    BY <1>2, <1>3

(* Before the first tag of a push all is as it was.                        *)
LEMMA UploadFloats ==
  ASSUME IInv, FloatInv, NEW j \in Jobs, Upload(j)
  PROVE  FloatInv'
  <1>1. /\ pc[j] = "upload" /\ pc'[j] = "push" /\ Active(j)
        /\ UNCHANGED <<tags, lost, calm, whole, packaged, at, aliases, main, queue>>
        /\ \A k \in Jobs \ {j} : pc'[k] = pc[k]
    BY DEF Upload, Active, registry, history, work, Goto, IInv, Types
  <1>2. Version(j) \in Versions /\ Target(j) \in Repos
    BY <1>1, PushedVersion
  <1>3. Version(j)' = Version(j) /\ Target(j)' = Target(j) /\ Coming(j)' = Coming(j) /\ ToPush(j)' = ToPush(j)
    BY <1>1 DEF Version, Target, Item, Coming, Exact, ToPush
  <1>4. NameVersions'
    BY <1>1 DEF FloatInv, NameVersions
  <1>5. \A r : (Highest(r) => Highest(r)') /\ \A t, E : Tops(r, t, E) => Tops(r, t, E)'
    BY <1>1 DEF Highest, Tops, Exact
  <1>6. ASSUME Orderly' PROVE /\ \A r \in Repos : Highest(r)
                              /\ \A k \in Jobs \ {j} : Tagging(k)'
                              /\ ToPush(j) = TagsToPush(Version(j), DOMAIN tags[Target(j)])
    BY <1>1, <1>6, OnlyOne DEF FloatInv, Settled, Tagging, Orderly, Published
  <1>7. Version(j) \notin DOMAIN tags[Target(j)] \/ ~Orderly'
    BY <1>1 DEF IInv, Present, Pushing, Orderly
  <1>8. ASSUME Orderly' PROVE Halfway(j)
    <2>1. \A u \in Coming(j) : \A t \in Floating(u) : t \in ToPush(j) \/ Tops(Target(j), t, Coming(j))
      BY <1>2, <1>6, <1>7, <1>8, HalfwayAtFirst DEF Coming, FloatInv
    <2>2. ASSUME NEW t \in ToPush(j), t # Version(j), NEW w \in Coming(j), IsPrefix(t, w)
          PROVE  w = Version(j) \/ Newer(Version(j), w)
      <3>1. Advances(Version(j), t, DOMAIN tags[Target(j)])
        BY <1>6, <1>8, <2>2 DEF TagsToPush
      <3>2. QED
        BY <2>2, <3>1 DEF Advances, Coming, Exact
    <2>3. QED
      BY <2>1, <2>2 DEF Halfway
  <1>9. ASSUME Orderly' PROVE Tagging(j)'
    <2>1. Halfway(j)'
      BY <1>3, <1>5, <1>8, <1>9 DEF Halfway
    <2>2. QED
      BY <1>1, <2>1 DEF Tagging
  <1>10. QED
    BY <1>4, <1>5, <1>6, <1>9 DEF FloatInv, Settled

(* FloatInv is inductive.                                                  *)
LEMMA StepFloats ==
  ASSUME IInv, FloatInv, [Next]_vars
  PROVE  FloatInv'
  <1>1. CASE UNCHANGED vars
    <2>1. UNCHANGED <<tags, pc, packaged, at, aliases, main, queue, lost, calm, whole>>
      BY <1>1 DEF vars
    <2>2. \A j : Version(j)' = Version(j) /\ Target(j)' = Target(j) /\ Coming(j)' = Coming(j) /\ ToPush(j)' = ToPush(j)
      BY <2>1 DEF Version, Target, Item, Coming, Exact, ToPush
    <2>3. NameVersions' /\ (Orderly' => Orderly)
      BY <2>1 DEF FloatInv, NameVersions, Orderly
    <2>4. \A r : (Highest(r) => Highest(r)') /\ \A t, E : Tops(r, t, E) => Tops(r, t, E)'
      BY <2>1 DEF Highest, Tops, Exact
    <2>5. \A r : Settled(r) => Settled(r)'
      BY <2>1, <2>2, <2>4 DEF Settled
    <2>6. \A j : Halfway(j) => Halfway(j)'
      BY <2>2, <2>4 DEF Halfway
    <2>7. \A j : Tagging(j) => Tagging(j)'
      BY <2>1, <2>2, <2>6 DEF Tagging, Published
    <2>8. QED
      BY <2>3, <2>5, <2>7 DEF FloatInv
  <1>2. ASSUME NEW j \in Jobs, PushTagFails(j) PROVE FloatInv'
    <2>1. lost' # {} /\ tags' = tags
      BY <1>2 DEF PushTagFails, registry
    <2>2. QED
      BY <2>1 DEF FloatInv, NameVersions, Orderly
  <1>3. ASSUME NEW j \in Jobs, Begin(j) PROVE FloatInv'
    <2>1. /\ pc'[j] = "item" /\ pc[j] = "idle" /\ UNCHANGED <<tags, lost, whole>>
          /\ \A k \in Jobs \ {j} : pc'[k] = pc[k]
          /\ calm' = (calm /\ \A k \in Jobs : ~Active(k))
      BY <1>3 DEF Begin, Goto, registry, IInv, Types
    <2>2. (calm' => \A k \in Jobs : ~Active(k)) /\ (Orderly' => Orderly)
      BY <2>1 DEF Orderly
    <2>3. QED
      BY <2>1, <2>2, NotTagging
  <1>4. ASSUME NEW j \in Jobs,
               \/ NextItem(j) \/ RequestFails(j) \/ EndPush(j) \/ NextAlias(j) \/ EndItem(j) \/ PushCollection(j)
        PROVE  FloatInv'
    <2>1. /\ Active(j) /\ UNCHANGED <<tags, lost, calm, whole>> /\ pc'[j] \notin {"upload", "push"}
          /\ \A k \in Jobs \ {j} : pc'[k] = pc[k]
          /\ pc[j] = "push" => queue[j] = <<>>
      BY <1>4 DEF NextItem, RequestFails, EndPush, NextAlias, EndItem, PushCollection, Active, End, Goto,
                  registry, history, work, IInv, Types
    <2>2. QED
      BY <2>1, NotTagging DEF Orderly
  <1>5. ASSUME NEW j \in Jobs, Kill(j) PROVE FloatInv'
    <2>1. /\ Active(j) /\ UNCHANGED <<tags, lost, calm>> /\ pc'[j] \notin {"upload", "push"}
          /\ \A k \in Jobs \ {j} : pc'[k] = pc[k]
          /\ whole' = (whole /\ (pc[j] = "push" => queue[j] = <<>>))
      BY <1>5 DEF Kill, End, Goto, registry, IInv, Types
    <2>2. QED
      BY <2>1, NotTagging DEF Orderly
  <1>6. QED
    BY <1>1, <1>2, <1>3, <1>4, <1>5, ListTagsFloats, UploadFloats, PushTagFloats DEF Next

LEMMA StartFloats == Init => FloatInv
  <1> SUFFICES ASSUME Init PROVE FloatInv
    OBVIOUS
  <1>1. \A r \in Repos : DOMAIN tags[r] = {}
    BY DEF Init
  <1>2. NameVersions /\ \A r \in Repos : Highest(r)
    BY <1>1 DEF NameVersions, Highest, Exact
  <1>3. QED
    BY <1>2 DEF Init, FloatInv, Settled, Tagging

(* The floating tags name the highest versions once the tags of a job are  *)
(* all pushed (SemanticTags), for any collections and any number of jobs   *)
(* that fail, as long as they do not overlap, none is killed amid its tags *)
(* and the registry refuses none of these.                                 *)
THEOREM FloatsAreHighest == Spec => []FloatsHighest
  <1>1. IInv /\ FloatInv => FloatsHighest
    <2> SUFFICES ASSUME IInv, FloatInv, calm /\ whole /\ lost = {},
                        \A j \in Jobs : pc[j] = "push" => queue[j] = <<>>, NEW r \in Repos
                 PROVE  Highest(r)
      BY DEF FloatsHighest, Highest, Floating, Tops
    <2>1. \A j \in Jobs : pc[j] = "push" => Highest(Target(j))
      BY HalfwayAtLast DEF FloatInv, Tagging, Orderly
    <2>2. QED
      BY <2>1 DEF FloatInv, Settled, Orderly
  <1>2. Spec => []IInv
    BY Invariant
  <1>3. QED
    BY <1>1, <1>2, StartFloats, StepFloats, PTL DEF Spec

(***************************************************************************)
(* Templates.  Packages, for any collection and any faults.                *)
(***************************************************************************)
Items == UNION {{c[f] : f \in DOMAIN c} : c \in Authored}
FolderNames == {Folders[i] : i \in DOMAIN Folders}
Shelf == UNION {UNION {Archives(i, f) : f \in FolderNames} : i \in Items}
Publications == [archive : Shelf, listed : Shelf]

Shapes ==
  /\ source \in Authored
  /\ out = [exists |-> out.exists, archives |-> out.archives, listed |-> out.listed]
  /\ pack = [pc |-> pack.pc, at |-> pack.at, metas |-> pack.metas, ended |-> pack.ended]
  /\ pack.pc = "items" => pack.at \in Nat \ {0} /\ pack.ended = "running"
  /\ out.archives = [n \in DOMAIN out.archives |-> out.archives[n]]

(* What is archived, listed and gathered, and what a tag has ever named,   *)
(* is an archive of some item the author wrote.                            *)
Shelved ==
  /\ \A n \in DOMAIN out.archives : out.archives[n] \in Shelf
  /\ out.listed \subseteq Shelf /\ pack.metas \subseteq Shelf
  /\ tagged \in Seq(Publications)

(* An archive that publish will look for under its id is there.            *)
Findable(a, archives) ==
  Single \/ a.item.id = a.from => a.item.id \in DOMAIN archives /\ archives[a.item.id] = a

(* As long as no item failed, what the run has gathered is what it has     *)
(* archived, in folders that come before the one it is at.                 *)
GatheredSoFar ==
  pack.pc = "items" =>
    /\ pack.metas = {out.archives[n] : n \in DOMAIN out.archives}
    /\ \A a \in pack.metas : Findable(a, out.archives)
    /\ Single => (pack.at = 1 => out.archives = NoFiles)
    /\ ~Single => \A n \in DOMAIN out.archives : \E i \in 1 .. pack.at - 1 : n = Folders[i]

PackInv == Shapes /\ Shelved /\ GatheredSoFar /\ PackageIsWhole

(* The item that is next is one of the author's, and so is what is         *)
(* archived of it.                                                         *)
LEMMA ItemIsAuthored ==
  ASSUME Shapes, AtItem
  PROVE  /\ ItemAt \in Items /\ pack.at \in DOMAIN Folders
         /\ \A a \in ArchivesAt : a \in Shelf /\ a.item = ItemAt /\ a.from = Folders[pack.at]
<1>1. pack.at \in DOMAIN Folders
  BY TemplatesAssumption, LenProperties DEF Shapes, AtItem
<1>2. Folders[pack.at] \in DOMAIN source /\ Folders[pack.at] \in FolderNames
  <2>1. DOMAIN source = {Folders[i] : i \in DOMAIN Folders}
    BY TemplatesAssumption DEF Shapes
  <2> QED BY <1>1, <2>1 DEF FolderNames
<1>3. ItemAt \in Items
  BY <1>2 DEF Shapes, ItemAt, Items
<1>4. \A a \in ArchivesAt : a.item = ItemAt /\ a.from = Folders[pack.at]
  BY DEF Archives, ArchivesAt
<1>5. ASSUME NEW i \in Items, NEW f \in FolderNames, NEW a \in Archives(i, f) PROVE a \in Shelf
  <2>1. a \in UNION {Archives(i, g) : g \in FolderNames}
    BY Zenon
  <2> QED BY <2>1, Zenon DEF Shelf
<1> QED BY <1>1, <1>2, <1>3, <1>4, <1>5, Zenon DEF ArchivesAt

(* Another archive keeps those beside it.                                  *)
LEMMA ArchivedKeeps ==
  ASSUME Shapes, NEW a
  PROVE  /\ Archived(a) = [n \in DOMAIN Archived(a) |-> Archived(a)[n]]
         /\ DOMAIN Archived(a) = DOMAIN out.archives \cup {ArchiveName}
         /\ Archived(a)[ArchiveName] = a
         /\ \A n \in DOMAIN out.archives : n # ArchiveName => Archived(a)[n] = out.archives[n]
BY DEF Archived

(* The name of the next archive is not taken.                              *)
LEMMA NameIsNew ==
  ASSUME Shapes, GatheredSoFar, AtItem
  PROVE  ArchiveName \notin DOMAIN out.archives
<1>1. pack.at \in DOMAIN Folders /\ pack.at \in 1 .. Len(Folders)
  BY ItemIsAuthored, TemplatesAssumption, LenProperties
<1>2. CASE Single
  <2>1. pack.at = 1
    BY <1>1, <1>2, TemplatesAssumption
  <2> QED BY <1>2, <2>1 DEF GatheredSoFar, AtItem, NoFiles
<1>3. CASE ~Single
  <2>1. \A i \in 1 .. pack.at - 1 : i \in DOMAIN Folders /\ i # pack.at
    BY <1>1, TemplatesAssumption, LenProperties
  <2>2. \A i \in 1 .. pack.at - 1 : Folders[i] # Folders[pack.at]
    BY <1>1, <2>1, TemplatesAssumption
  <2> QED BY <1>3, <2>2 DEF GatheredSoFar, AtItem, ArchiveName
<1> QED BY <1>2, <1>3

(* An item that is archived is gathered as well.                           *)
LEMMA ItemIsGathered ==
  ASSUME PackInv, PackItem
  PROVE  GatheredSoFar'
<1> USE DEF PackInv
<1>1. PICK a \in ArchivesAt : /\ out' = [out EXCEPT !.archives = Archived(a)]
                              /\ pack' = [pack EXCEPT !.at = @ + 1, !.metas = @ \cup {a}]
  BY DEF PackItem
<1>2. /\ AtItem /\ out'.archives = Archived(a) /\ pack'.metas = pack.metas \cup {a}
      /\ pack'.at = pack.at + 1 /\ pack.at \in Nat \ {0}
  BY <1>1 DEF PackItem, Shapes, AtItem
<1>3. ArchiveName \notin DOMAIN out.archives
  BY <1>2, NameIsNew
<1>4. /\ DOMAIN Archived(a) = DOMAIN out.archives \cup {ArchiveName} /\ Archived(a)[ArchiveName] = a
      /\ \A n \in DOMAIN out.archives : Archived(a)[n] = out.archives[n]
  BY <1>3, ArchivedKeeps
<1>5. a.item = ItemAt /\ a.from = Folders[pack.at]
  BY <1>2, ItemIsAuthored
<1>6. pack'.metas = {out'.archives[n] : n \in DOMAIN out'.archives}
  BY <1>2, <1>4 DEF GatheredSoFar, AtItem
<1>7. \A b \in pack'.metas : Findable(b, out'.archives)
  <2>1. Findable(a, Archived(a))
    BY <1>4, <1>5 DEF Findable, ArchiveName
  <2>2. \A b \in pack.metas : Findable(b, Archived(a))
    BY <1>2, <1>4 DEF GatheredSoFar, AtItem, Findable
  <2> QED BY <1>2, <2>1, <2>2
<1>8. ~Single => \A n \in DOMAIN out'.archives : \E i \in 1 .. pack'.at - 1 : n = Folders[i]
  <2> SUFFICES ASSUME ~Single, NEW n \in DOMAIN Archived(a)
               PROVE  \E i \in 1 .. pack.at : n = Folders[i]
    BY <1>2
  <2>1. CASE n = ArchiveName
    BY <1>2, <2>1 DEF ArchiveName
  <2>2. CASE n \in DOMAIN out.archives
    <3>1. PICK i \in 1 .. pack.at - 1 : n = Folders[i]
      BY <1>2, <2>2 DEF GatheredSoFar, AtItem
    <3>2. i \in 1 .. pack.at
      BY <1>2, <3>1
    <3> QED BY <3>1, <3>2
  <2> QED BY <1>4, <2>1, <2>2
<1> QED BY <1>2, <1>6, <1>7, <1>8 DEF GatheredSoFar

(* Every step of the author, of package and of publishing keeps it; an     *)
(* apply touches none of it.                                               *)
LEMMA PackStep ==
  ASSUME PackInv, [TemplatesNext]_templatesVars
  PROVE  PackInv'
<1> USE DEF PackInv
<1>1. CASE UNCHANGED templatesVars
  BY <1>1 DEF templatesVars, Shapes, Shelved, GatheredSoFar, PackageIsWhole
<1>2. ASSUME NEW c \in Authored, Edit(c) PROVE PackInv'
  BY <1>2 DEF Edit, applyVars, Shapes, Shelved, GatheredSoFar, PackageIsWhole
<1>3. ASSUME NEW force \in BOOLEAN, Package(force) PROVE PackInv'
  <2>1. CASE out.exists /\ ~force
    <3>1. /\ pack' = [pc |-> "idle", at |-> 0, metas |-> {}, ended |-> "refused"]
          /\ UNCHANGED <<out, source, tagged>>
      BY <1>3, <2>1 DEF Package, EndPackage
    <3> QED BY <3>1 DEF Shapes, Shelved, GatheredSoFar, PackageIsWhole
  <2>2. CASE ~(out.exists /\ ~force)
    <3>1. /\ out' = [exists |-> TRUE, archives |-> NoFiles, listed |-> {}]
          /\ pack' = [pc |-> "items", at |-> 1, metas |-> {}, ended |-> "running"]
          /\ UNCHANGED <<source, tagged>>
      BY <1>3, <2>2 DEF Package
    <3>2. DOMAIN NoFiles = {} /\ NoFiles = [n \in DOMAIN NoFiles |-> NoFiles[n]]
      BY DEF NoFiles
    <3> QED BY <3>1, <3>2 DEF Shapes, Shelved, GatheredSoFar, PackageIsWhole
  <2> QED BY <2>1, <2>2
<1>4. CASE PassItem
  <2>1. /\ pack.pc = "items" /\ pack.at \in Nat \ {0} /\ pack.ended = "running"
        /\ pack' = [pack EXCEPT !.at = @ + 1] /\ UNCHANGED <<out, source, tagged>>
    BY <1>4 DEF PassItem, AtItem, Shapes
  <2>2. /\ pack'.at = pack.at + 1 /\ pack'.pc = "items" /\ pack'.metas = pack.metas
        /\ pack'.ended = "running"
    BY <2>1 DEF Shapes
  <2>3. Shapes' /\ Shelved' /\ PackageIsWhole'
    BY <2>1, <2>2 DEF Shapes, Shelved, PackageIsWhole
  <2>4. 1 .. pack.at - 1 \subseteq 1 .. pack'.at - 1 /\ pack'.at # 1
    BY <2>1, <2>2
  <2> QED BY <2>1, <2>2, <2>3, <2>4 DEF GatheredSoFar
<1>5. CASE PackItem
  <2>1. PICK a \in ArchivesAt : /\ out' = [out EXCEPT !.archives = Archived(a)]
                                /\ pack' = [pack EXCEPT !.at = @ + 1, !.metas = @ \cup {a}]
    BY <1>5 DEF PackItem
  <2>2. /\ AtItem /\ pack.ended = "running" /\ pack.at \in Nat \ {0}
        /\ UNCHANGED <<source, tagged>>
    BY <1>5 DEF PackItem, AtItem, Shapes
  <2>3. out'.archives = Archived(a) /\ a \in Shelf /\ out'.listed = out.listed
    BY <2>1, <2>2, ItemIsAuthored DEF Shapes
  <2>4. Shapes'
    <3>1. /\ out' = [exists |-> out'.exists, archives |-> out'.archives, listed |-> out'.listed]
          /\ out'.archives = [n \in DOMAIN out'.archives |-> out'.archives[n]]
      BY <2>1, <2>3, ArchivedKeeps DEF Shapes
    <3>2. pack' = [pc |-> "items", at |-> pack.at + 1, metas |-> pack.metas \cup {a}, ended |-> "running"]
      BY <2>1, <2>2 DEF Shapes, AtItem
    <3> QED BY <2>2, <3>1, <3>2 DEF Shapes
  <2>5. Shelved'
    <3>1. \A n \in DOMAIN Archived(a) : Archived(a)[n] \in Shelf
      BY <2>3, ArchivedKeeps DEF Shelved
    <3> QED BY <2>1, <2>2, <2>3, <3>1 DEF Shelved, Shapes
  <2>6. PackageIsWhole'
    BY <2>1, <2>2 DEF PackageIsWhole, Shapes, AtItem
  <2> QED BY <1>5, <2>4, <2>5, <2>6, ItemIsGathered
<1>6. CASE FailItem
  <2>1. /\ AtItem /\ pack' = [pc |-> "idle", at |-> 0, metas |-> {}, ended |-> "failed"]
        /\ UNCHANGED <<source, tagged>>
    BY <1>6 DEF FailItem, EndPackage
  <2>2. \/ UNCHANGED out
        \/ \E a \in ArchivesAt : out' = [out EXCEPT !.archives = Archived(a)]
    BY <1>6 DEF FailItem
  <2>3. CASE UNCHANGED out
    BY <2>1, <2>3 DEF Shapes, Shelved, GatheredSoFar, PackageIsWhole
  <2>4. ASSUME NEW a \in ArchivesAt, out' = [out EXCEPT !.archives = Archived(a)]
        PROVE  PackInv'
    <3>1. out'.archives = Archived(a) /\ a \in Shelf /\ out'.listed = out.listed
      BY <2>1, <2>4, ItemIsAuthored DEF Shapes
    <3>2. Shapes'
      BY <2>1, <2>4, <3>1, ArchivedKeeps DEF Shapes
    <3>3. \A n \in DOMAIN Archived(a) : Archived(a)[n] \in Shelf
      BY <3>1, ArchivedKeeps DEF Shelved
    <3> QED BY <2>1, <3>1, <3>2, <3>3 DEF Shelved, GatheredSoFar, PackageIsWhole
  <2> QED BY <2>2, <2>3, <2>4
<1>7. CASE ListArchives
  <2>1. /\ pack.pc = "items" /\ UNCHANGED <<source, tagged>>
        /\ pack' = [pc |-> "idle", at |-> 0, metas |-> {}, ended |-> pack'.ended]
    BY <1>7 DEF ListArchives, EndPackage
  <2>2. CASE pack'.ended = "ok"
    <3>1. out' = [out EXCEPT !.listed = pack.metas]
      BY <1>7, <2>2 DEF ListArchives, EndPackage
    <3>2. out'.listed = pack.metas /\ out'.archives = out.archives
      BY <3>1 DEF Shapes
    <3>3. out' = [exists |-> out'.exists, archives |-> out'.archives, listed |-> out'.listed]
      BY <3>1 DEF Shapes
    <3>4. PackageIsWhole'
      BY <2>1, <3>2 DEF PackageIsWhole, GatheredSoFar, Findable
    <3> QED BY <2>1, <3>2, <3>3, <3>4 DEF Shapes, Shelved, GatheredSoFar
  <2>3. CASE pack'.ended # "ok"
    <3>1. UNCHANGED out
      BY <1>7, <2>3 DEF ListArchives, EndPackage
    <3> QED BY <2>1, <2>3, <3>1 DEF Shapes, Shelved, GatheredSoFar, PackageIsWhole
  <2> QED BY <2>2, <2>3
<1>8. ASSUME NEW m \in out.listed, PublishTemplate(m) PROVE PackInv'
  <2>1. /\ tagged' = Append(tagged, [archive |-> out.archives[m.item.id], listed |-> m])
        /\ m.item.id \in DOMAIN out.archives /\ UNCHANGED packageVars
    BY <1>8 DEF PublishTemplate
  <2>2. [archive |-> out.archives[m.item.id], listed |-> m] \in Publications
    BY <2>1 DEF Publications, Shelved
  <2>3. tagged' \in Seq(Publications)
    BY <2>1, <2>2, AppendProperties DEF Shelved
  <2> QED BY <2>1, <2>3 DEF packageVars, Shapes, Shelved, GatheredSoFar, PackageIsWhole
<1>9. ASSUME UNCHANGED <<packageVars, tagged>> PROVE PackInv'
  BY <1>9 DEF packageVars, Shapes, Shelved, GatheredSoFar, PackageIsWhole
<1>10. ASSUME \/ \E q \in Requests : Start(q)
              \/ FetchTemplate \/ Extract \/ MergeFeatures \/ ApplyFails
              \/ \E p \in apply.todo : WriteFile(p)
       PROVE  UNCHANGED <<packageVars, tagged>>
  BY <1>10 DEF Start, FetchTemplate, Extract, MergeFeatures, ApplyFails, WriteFile, Rest
<1> QED BY <1>1, <1>2, <1>3, <1>4, <1>5, <1>6, <1>7, <1>8, <1>9, <1>10 DEF TemplatesNext

LEMMA PackStart == TemplatesInit => PackInv
<1> SUFFICES ASSUME TemplatesInit PROVE PackInv
  OBVIOUS
<1>1. DOMAIN NoFiles = {} /\ NoFiles = [n \in DOMAIN NoFiles |-> NoFiles[n]]
  BY DEF NoFiles
<1> QED BY <1>1 DEF TemplatesInit, PackInv, Shapes, Shelved, GatheredSoFar, PackageIsWhole

(* A package that succeeds is whole: its collection file lists the items   *)
(* of the archives beside it and no other, however often and with whatever *)
(* faults the collection is packaged, edited and published in between, and *)
(* whatever the items' ids; and publish finds the archive of every item    *)
(* that is single or whose folder is named by its id.                      *)
THEOREM PackagesAreWhole == TemplatesSpec => []PackageIsWhole
<1>1. PackInv => PackageIsWhole
  BY DEF PackInv
<1> QED BY <1>1, PackStart, PackStep, PTL DEF TemplatesSpec

(***************************************************************************)
(* Applying.                                                               *)
(***************************************************************************)

(* What is left out of an archive that is published with its own metadata  *)
(* is what the author means by the optional paths left out, unless one of  *)
(* them was narrowed to a file outside of its folder.                      *)
LEMMA OmitsAsMeant ==
  ASSUME CollectionType = "template",
         NEW n, tagged[n] \in Publications, OwnMetadata(n),
         NEW left, StaysInFolder(n, left), NEW p \in DOMAIN ItemOf(n).files
  PROVE  Omitted(p, Omits(n, left)) <=> p \in Docs \/ p \in Meant(ItemOf(n), left)
<1> DEFINE optional == Offered(n)
           item == ItemOf(n)
           Sole(d, x) == Begins(item, d) = {x}
<1>1. tagged[n].listed = tagged[n].archive /\ tagged[n].archive \in Shelf
  BY DEF OwnMetadata, Publications
<1>2. PICK i \in Items, f \in FolderNames : tagged[n].archive \in Archives(i, f)
  BY <1>1 DEF Shelf
<1>3. /\ item = i
      /\ \/ optional = Narrowed(item)
         \/ optional = [o \in item.optional |-> o]
  BY <1>1, <1>2 DEF Archives, ItemOf, Offered
<1>4. IsFiniteSet(DOMAIN item.files) /\ \A o \in item.optional : o = <<o[1], o[2]>>
  BY <1>3, TemplatesAssumption DEF Items
<1>5. \A d : Cardinality(Begins(item, d)) = 1 => \E x : Sole(d, x)
  <2>1. \A d : Begins(item, d) \subseteq DOMAIN item.files /\ IsFiniteSet(Begins(item, d))
    BY <1>4, FS_Subset DEF Begins
  <2> QED BY <2>1, FS_Singleton
<1>6. /\ DOMAIN optional = item.optional
      /\ \A o \in item.optional :
           \/ optional[o] = o
           \/ o[2] = "*" /\ Sole(o[1], optional[o])
  <2>1. CASE optional = [o \in item.optional |-> o]
    BY <2>1
  <2>2. CASE optional = Narrowed(item)
    <3> SUFFICES ASSUME NEW o \in item.optional, optional[o] # o
                 PROVE  o[2] = "*" /\ Sole(o[1], optional[o])
      BY <2>2 DEF Narrowed
    <3>1. /\ o[2] = "*" /\ Cardinality(Begins(item, o[1])) = 1
          /\ optional[o] = CHOOSE x \in Begins(item, o[1]) : TRUE
      BY <2>2 DEF Narrowed
    <3>2. PICK x : Sole(o[1], x)
      BY <3>1, <1>5
    <3> QED BY <3>1, <3>2
  <2> QED BY <1>3, <2>1, <2>2
<1>7. ASSUME NEW o \in item.optional, o[2] = "*", Sole(o[1], optional[o])
      PROVE  o = All(o[1]) /\ \A q \in DOMAIN item.files : q[1] = o[1] => q = optional[o]
  <2>1. o = All(o[1])
    BY <1>4, <1>7 DEF All
  <2>2. \A q \in DOMAIN item.files : q[1] = o[1] => q \in Begins(item, o[1])
    BY DEF Begins
  <2> QED BY <1>7, <2>1, <2>2
<1>8. \A o \in left \cap item.optional : optional[o] = o \/ optional[o][1] = o[1]
  BY <1>6 DEF StaysInFolder
<1>9. \A d, e : All(d) = All(e) => d = e
  BY DEF All
<1>10. \A d : All(d)[1] = d /\ All(d)[2] = "*"
  BY DEF All
<1> DEFINE named == {p, All(p[1])}
<1> HIDE DEF optional, item, Sole
<1>11. ASSUME NEW o \in left \cap item.optional, optional[o] \in named
       PROVE  named \cap item.optional \cap left # {}
  <2>1. CASE optional[o] = o
    BY <1>11, <2>1
  <2>2. CASE optional[o] # o
    <3>1. o = All(o[1]) /\ optional[o][1] = o[1]
      BY <1>6, <1>7, <1>8, <2>2
    <3>2. optional[o][1] = p[1]
      BY <1>10, <1>11
    <3> QED BY <3>1, <3>2, <1>11
  <2> QED BY <2>1, <2>2
<1>12. ASSUME NEW o \in named, o \in item.optional, o \in left
       PROVE  \E x \in left \cap item.optional : optional[x] \in named
  <2>1. CASE optional[o] = o
    BY <1>12, <2>1
  <2>2. CASE o[2] = "*" /\ Sole(o[1], optional[o])
    <3>1. \A q \in DOMAIN item.files : q[1] = o[1] => q = optional[o]
      BY <1>7, <1>12, <2>2
    <3>2. o[1] = p[1]
      BY <1>10, <1>12
    <3>3. p = optional[o]
      BY <3>1, <3>2 DEF item
    <3> QED BY <3>3, <1>12
  <2> QED BY <1>6, <1>12, <2>1, <2>2
<1>13. Omits(n, left) = {optional[o] : o \in left \cap item.optional}
  BY <1>6 DEF Omits, optional
<1>14. Omitted(p, Omits(n, left)) <=> p \in Docs \/ \E o \in left \cap item.optional : optional[o] \in named
  BY <1>13 DEF Omitted
<1>15. p \in Meant(item, left) <=> named \cap item.optional \cap left # {}
  BY DEF Meant, item
<1>16. (\E o \in left \cap item.optional : optional[o] \in named) <=> named \cap item.optional \cap left # {}
  BY <1>11, <1>12
<1> QED BY <1>14, <1>15, <1>16 DEF item

Fetched == ItemOf(apply.tag)
TextOf(p) ==
  [tag |-> apply.tag, features |-> Fetched.files[p].features,
   values |-> [o \in Fetched.files[p].mentions |-> Value(apply.tag, apply.request, o)]]

(* The applies the property is about.                                      *)
Clean ==
  /\ apply.folder = Layer(apply.tag)
  /\ OwnMetadata(apply.tag) /\ StaysInFolder(apply.tag, apply.request.left)

(* An apply under way: until it writes the workspace is as it was found,   *)
(* and then as it was found but for the files written so far.              *)
Fetching ==
  /\ apply.pc \in {"manifest", "blob"} => workspace = found /\ tagged # <<>>
  /\ apply.pc \in {"blob", "files", "done"} => apply.tag \in 1 .. Len(tagged)
WrittenSoFar ==
  apply.pc = "files" /\ Clean =>
    /\ apply.todo \subseteq ToWrite
    /\ DOMAIN workspace = (ToWrite \ apply.todo) \cup DOMAIN found
    /\ \A p \in DOMAIN workspace :
         workspace[p] = IF p \in ToWrite \ apply.todo THEN TextOf(p) ELSE found[p]
(* What is done has the Features as well.                                  *)
Merged ==
  apply.pc = "done" /\ Clean =>
    /\ DOMAIN workspace = ToWrite \cup DOMAIN found
    /\ \A p \in DOMAIN workspace :
         LET text == IF p \in ToWrite THEN TextOf(p) ELSE found[p] IN
         workspace[p] = IF p \in Opens(workspace)
                        THEN [text EXCEPT !.features = @ \cup apply.request.features]
                        ELSE text
ApplyShape ==
  apply = [pc |-> apply.pc, request |-> apply.request, tag |-> apply.tag,
           folder |-> apply.folder, todo |-> apply.todo]

ApplyInv == ApplyShape /\ Fetching /\ WrittenSoFar /\ Merged

(* That is what is meant.                                                  *)
LEMMA MergedIsMeant == Merged => AppliedAsMeant
<1> SUFFICES ASSUME Merged, apply.pc = "done" /\ Clean
             PROVE  AppliedAsMeant
  BY DEF AppliedAsMeant, Clean
<1> DEFINE made == [p \in ToWrite \cup DOMAIN found |-> IF p \in ToWrite THEN TextOf(p) ELSE found[p]]
<1>1. Opens(workspace) = Opens(made)
  BY DEF Opens, Merged
<1> QED BY <1>1 DEF Merged, AppliedAsMeant, TextOf, Fetched

(* A step that leaves the apply, what it has written and its archive alone *)
(* keeps what is known of them.                                            *)
LEMMA SameApply ==
  ASSUME ApplyInv, UNCHANGED <<workspace, found, apply>>, Fetching',
         apply.pc \in {"files", "done"} => tagged'[apply.tag] = tagged[apply.tag]
  PROVE  ApplyInv'
<1> USE DEF ApplyInv
<1>1. ApplyShape'
  BY DEF ApplyShape
<1>2. CASE apply.pc \notin {"files", "done"}
  BY <1>1, <1>2 DEF WrittenSoFar, Merged
<1>3. CASE apply.pc \in {"files", "done"}
  <2>1. Layer(apply.tag)' = Layer(apply.tag) /\ Fetched' = Fetched /\ Clean' = Clean
    BY <1>3 DEF Layer, Fetched, ItemOf, Clean, OwnMetadata, StaysInFolder, Offered
  <2>2. ToWrite' = ToWrite
    BY <2>1 DEF ToWrite, Fetched
  <2>3. \A p : TextOf(p)' = TextOf(p)
    BY <1>3, <2>1 DEF TextOf, Value, Fetched
  <2>4. Opens(workspace)' = Opens(workspace)
    BY DEF Opens
  <2> QED BY <1>1, <2>1, <2>2, <2>3, <2>4 DEF WrittenSoFar, Merged
<1> QED BY <1>2, <1>3

(* An archive that is published changes nothing of the one being applied.  *)
LEMMA TagsAreKept ==
  ASSUME tagged \in Seq(Publications), NEW a, a \in Publications, tagged' = Append(tagged, a)
  PROVE  Len(tagged') = Len(tagged) + 1 /\ \A i \in 1 .. Len(tagged) : tagged'[i] = tagged[i]
BY AppendProperties

(* The steps of an apply; of the others only publishing touches what it    *)
(* reads.                                                                  *)
LEMMA ApplyStep ==
  ASSUME CollectionType = "template", PackInv, ApplyInv, [TemplatesNext]_templatesVars
  PROVE  ApplyInv'
<1> USE DEF ApplyInv
<1>1. ASSUME UNCHANGED <<tagged, applyVars>> PROVE ApplyInv'
  BY <1>1, SameApply DEF applyVars, Fetching
<1>2. ASSUME NEW m \in out.listed, PublishTemplate(m) PROVE ApplyInv'
  <2>1. UNCHANGED <<workspace, found, apply>>
    BY <1>2 DEF PublishTemplate, applyVars
  <2> DEFINE new == [archive |-> out.archives[m.item.id], listed |-> m]
  <2>5. tagged' = Append(tagged, new) /\ new \in Publications
    BY <1>2 DEF PublishTemplate, Publications, PackInv, Shelved
  <2>2. Len(tagged') = Len(tagged) + 1 /\ \A i \in 1 .. Len(tagged) : tagged'[i] = tagged[i]
    BY <2>5, TagsAreKept DEF PackInv, Shelved
  <2>3. Len(tagged) \in Nat /\ tagged' # <<>>
    BY <2>5, AppendProperties, LenProperties DEF PackInv, Shelved
  <2>4. Fetching'
    BY <2>1, <2>2, <2>3 DEF Fetching
  <2> QED BY <2>1, <2>2, <2>4, SameApply DEF Fetching
<1>3. ASSUME NEW q \in Requests, Start(q) PROVE ApplyInv'
  <2>1. apply'.pc = "manifest" /\ ApplyShape'
    BY <1>3 DEF Start, NoApply, ApplyShape
  <2>2. found' = workspace /\ workspace' = workspace /\ tagged' = tagged /\ tagged # <<>>
    BY <1>3 DEF Start
  <2> QED BY <2>1, <2>2 DEF Fetching, WrittenSoFar, Merged
<1>4. CASE FetchTemplate
  <2>1. apply'.pc = "blob" /\ apply'.tag = Len(tagged) /\ ApplyShape' /\ apply.pc = "manifest"
    BY <1>4 DEF FetchTemplate, ApplyShape
  <2>2. UNCHANGED <<tagged, workspace, found>>
    BY <1>4 DEF FetchTemplate, Rest
  <2>3. Len(tagged) \in 1 .. Len(tagged)
    BY <2>1, EmptySeq, LenProperties DEF Fetching, PackInv, Shelved
  <2> QED BY <2>1, <2>2, <2>3 DEF Fetching, WrittenSoFar, Merged
<1>5. CASE Extract
  <2>1. UNCHANGED <<tagged, workspace, found>> /\ apply.pc = "blob"
    BY <1>5 DEF Extract, Rest
  <2>2. /\ apply'.pc = "files" /\ apply'.tag = apply.tag /\ apply'.request = apply.request
        /\ apply'.todo = {p \in DOMAIN apply'.folder :
                            ~Omitted(p, Omits(apply.tag, apply.request.left))}
        /\ ApplyShape'
    BY <1>5 DEF Extract, ApplyShape
  <2>3. tagged[apply.tag] \in Publications
    BY <2>1, ElementOfSeq DEF Fetching, PackInv, Shelved
  <2>4. /\ Layer(apply.tag)' = Layer(apply.tag) /\ DOMAIN Layer(apply.tag) = DOMAIN Fetched.files
        /\ OwnMetadata(apply.tag)' = OwnMetadata(apply.tag)
        /\ StaysInFolder(apply.tag, apply.request.left)' = StaysInFolder(apply.tag, apply.request.left)
        /\ ToWrite' = ToWrite
    BY <2>1, <2>2 DEF Layer, Fetched, ItemOf, OwnMetadata, StaysInFolder, Offered, ToWrite
  <2>5. Clean' => ToWrite = {p \in DOMAIN Fetched.files : ~Omitted(p, Omits(apply.tag, apply.request.left))}
    BY <2>3, <2>4, OmitsAsMeant DEF ToWrite, Fetched, Clean
  <2>6. WrittenSoFar'
    BY <2>1, <2>2, <2>4, <2>5 DEF WrittenSoFar, Fetching, Clean
  <2> QED BY <2>1, <2>2, <2>6 DEF Fetching, Merged
<1>6. ASSUME NEW p \in apply.todo, WriteFile(p) PROVE ApplyInv'
  <2>1. UNCHANGED <<tagged, found>> /\ apply.pc = "files"
    BY <1>6 DEF WriteFile, Rest
  <2>2. /\ apply'.pc = "files" /\ apply'.tag = apply.tag /\ apply'.request = apply.request
        /\ apply'.todo = apply.todo \ {p} /\ apply'.folder = apply.folder
        /\ ApplyShape'
    BY <1>6, <2>1 DEF WriteFile, ApplyShape
  <2>3. workspace' = Over([x \in {p} |-> Written(apply.folder[p])], workspace)
    BY <1>6 DEF WriteFile
  <2>4. /\ DOMAIN workspace' = {p} \cup DOMAIN workspace
        /\ \A x \in DOMAIN workspace' :
             workspace'[x] = IF x = p THEN Written(apply.folder[p]) ELSE workspace[x]
    BY <2>3 DEF Over
  <2>5. Layer(apply.tag)' = Layer(apply.tag) /\ ToWrite' = ToWrite /\ \A x : TextOf(x)' = TextOf(x)
    BY <2>1, <2>2 DEF Layer, ToWrite, TextOf, Fetched, Value, ItemOf
  <2>8. Clean' = Clean
    BY <2>1, <2>2, <2>5 DEF Clean, OwnMetadata, StaysInFolder, Offered
  <2>6. ASSUME Clean PROVE WrittenSoFar'
    <3>1. p \in ToWrite /\ p \in DOMAIN Fetched.files
      BY <2>1, <2>6 DEF WrittenSoFar, ToWrite, Fetched
    <3>2. apply.folder[p] = [tag |-> apply.tag, file |-> Fetched.files[p]]
      BY <2>6, <3>1 DEF Layer, Fetched, Clean
    <3>3. Written(apply.folder[p]) = TextOf(p)
      BY <3>2 DEF Written, TextOf
    <3> QED BY <2>1, <2>2, <2>4, <2>5, <2>6, <2>8, <3>1, <3>3 DEF WrittenSoFar
  <2>7. ~Clean => WrittenSoFar'
    BY <2>8 DEF WrittenSoFar
  <2> QED BY <2>1, <2>2, <2>6, <2>7 DEF Fetching, Merged
<1>7. CASE MergeFeatures
  <2>1. UNCHANGED <<tagged, found>> /\ apply.pc = "files" /\ apply.todo = {}
    BY <1>7 DEF MergeFeatures, Rest
  <2>2. /\ apply'.pc = "done" /\ apply'.tag = apply.tag /\ apply'.request = apply.request
        /\ apply'.folder = apply.folder /\ ApplyShape'
    BY <1>7 DEF MergeFeatures, Goes, ApplyShape
  <2>3. workspace' = [p \in DOMAIN workspace |->
                        IF p \in Opens(workspace)
                        THEN [workspace[p] EXCEPT !.features = @ \cup apply.request.features]
                        ELSE workspace[p]]
    BY <1>7 DEF MergeFeatures
  <2>4. Opens(workspace') = Opens(workspace)
    BY <2>3 DEF Opens
  <2>5. Layer(apply.tag)' = Layer(apply.tag) /\ ToWrite' = ToWrite /\ \A x : TextOf(x)' = TextOf(x)
    BY <2>1, <2>2 DEF Layer, ToWrite, TextOf, Fetched, Value, ItemOf
  <2>7. Clean' = Clean
    BY <2>1, <2>2, <2>5 DEF Clean, OwnMetadata, StaysInFolder, Offered
  <2>6. Merged'
    BY <2>1, <2>2, <2>3, <2>4, <2>5, <2>7 DEF WrittenSoFar, Merged
  <2> QED BY <2>1, <2>2, <2>6 DEF Fetching, WrittenSoFar
<1>8. CASE ApplyFails
  <2>1. apply'.pc = "failed" /\ ApplyShape'
    BY <1>8 DEF ApplyFails, Goes, ApplyShape
  <2> QED BY <2>1 DEF Fetching, WrittenSoFar, Merged
<1>9. ASSUME \/ UNCHANGED templatesVars
             \/ \E c \in Authored : Edit(c)
             \/ \E force \in BOOLEAN : Package(force)
             \/ PassItem \/ PackItem \/ FailItem \/ ListArchives
      PROVE  UNCHANGED <<tagged, applyVars>>
  BY <1>9 DEF templatesVars, applyVars, Edit, Package, PassItem, PackItem, FailItem, ListArchives
<1> QED BY <1>1, <1>2, <1>3, <1>4, <1>5, <1>6, <1>7, <1>8, <1>9 DEF TemplatesNext

LEMMA ApplyStart == TemplatesInit => ApplyInv
BY DEF TemplatesInit, NoApply, ApplyInv, ApplyShape, Fetching, WrittenSoFar, Merged

(* An apply that succeeds makes of the workspace what the author and the   *)
(* user meant, for any Templates and requests, however they are packaged,  *)
(* edited, published and applied in between: of an archive published with  *)
(* its own metadata, and unless the user leaves out a path that packaging  *)
(* took for a file outside of its folder.                                  *)
THEOREM AppliesAreMeant ==
  CollectionType = "template" => (TemplatesSpec => []AppliedAsMeant)
<1> SUFFICES ASSUME CollectionType = "template"
             PROVE  TemplatesSpec => []AppliedAsMeant
  OBVIOUS
<1>1. PackInv /\ ApplyInv /\ [TemplatesNext]_templatesVars => (PackInv /\ ApplyInv)'
  BY PackStep, ApplyStep
<1>2. ApplyInv => AppliedAsMeant
  BY MergedIsMeant DEF ApplyInv
<1> QED BY <1>1, <1>2, PackStart, ApplyStart, PTL DEF TemplatesSpec
=============================================================================
