---------------------------- MODULE QosStoreProofs ----------------------------
(***************************************************************************)
(* Theorems about the QoS store, for every set of names, texts and files.  *)
(*                                                                         *)
(* First the operations on texts: a text that loads names a profile once,  *)
(* so the tag the helpers find is the one the DDS library reads, and the   *)
(* chain of a profile begins with its own settings.  Then the invariant of *)
(* the store, in parts, and the theorems that follow from it.              *)
(***************************************************************************)
EXTENDS QosStore, DataLemmas

-------------------------------------------------------------------------------
(***************************************************************************)
(* Tags.                                                                   *)
(***************************************************************************)
Attribute == [kind : {"name", "base"}, value : Profile]

LEMMA TagParts ==
  ASSUME NEW p \in Tag
  PROVE  /\ p = [attrs |-> p.attrs, body |-> p.body]
         /\ p.attrs \in Seq(Attribute) /\ p.body \in Body
         /\ \A i, j \in DOMAIN p.attrs : p.attrs[i].kind = p.attrs[j].kind => i = j
<1>1. /\ p \in [attrs : Seq(Attribute), body : Body]
      /\ IsInjective([i \in DOMAIN p.attrs |-> p.attrs[i].kind])
  BY DEF Tag, Attribute
<1>2. \A i, j \in DOMAIN p.attrs : p.attrs[i].kind = p.attrs[j].kind => i = j
  BY <1>1 DEF IsInjective
<1> QED BY <1>1, <1>2

LEMMA AttrAt ==
  ASSUME NEW p \in Tag, NEW i \in DOMAIN p.attrs
  PROVE  Attr(p, p.attrs[i].kind) = p.attrs[i].value
<1> DEFINE kind == p.attrs[i].kind
           I == {j \in 1..Len(p.attrs) : p.attrs[j].kind = kind}
<1>1. Len(p.attrs) \in Nat /\ DOMAIN p.attrs = 1..Len(p.attrs)
  BY TagParts
<1>2. i \in I /\ I \in SUBSET (1..Len(p.attrs))
  BY <1>1
<1>3. Min(I) \in I
  <2> HIDE DEF I
  <2> QED BY <1>1, <1>2, MinOfPositions
<1>4. Min(I) = i
  BY <1>1, <1>3, TagParts
<1>5. SelectInSeq(p.attrs, LAMBDA a : a.kind = kind) = i
  BY <1>2, <1>4 DEF SelectInSeq
<1>6. i # 0
  BY <1>1
<1>7. Attr(p, kind) = p.attrs[i].value
  <2> HIDE DEF kind
  <2> QED BY <1>5, <1>6 DEF Attr
<1> QED BY <1>7

LEMMA AttrFound ==
  ASSUME NEW p \in Tag, NEW kind, Attr(p, kind) # None
  PROVE  \E i \in DOMAIN p.attrs : p.attrs[i].kind = kind /\ p.attrs[i].value = Attr(p, kind)
<1> DEFINE I == {j \in 1..Len(p.attrs) : p.attrs[j].kind = kind}
<1>1. Len(p.attrs) \in Nat /\ DOMAIN p.attrs = 1..Len(p.attrs)
  BY TagParts
<1>2. SelectInSeq(p.attrs, LAMBDA a : a.kind = kind) = IF I # {} THEN Min(I) ELSE 0
  BY DEF SelectInSeq
<1>3. I # {}
  BY <1>2 DEF Attr
<1>4. Min(I) \in I
  <2>1. I \in SUBSET (1..Len(p.attrs)) OBVIOUS
  <2> HIDE DEF I
  <2> QED BY <1>1, <1>3, <2>1, MinOfPositions
<1>5. Min(I) # 0
  BY <1>1, <1>4
<1>6. Attr(p, kind) = p.attrs[Min(I)].value
  BY <1>2, <1>3, <1>5 DEF Attr
<1> QED BY <1>1, <1>4, <1>6

LEMMA AttrInProfile ==
  ASSUME NEW p \in Tag, NEW kind, Attr(p, kind) # None
  PROVE  Attr(p, kind) \in Profile
<1>1. PICK i \in DOMAIN p.attrs : p.attrs[i].value = Attr(p, kind)
  BY AttrFound
<1>2. p.attrs[i] \in Attribute
  BY TagParts
<1> QED BY <1>1, <1>2 DEF Attribute

\* With the name first, the helpers and the DDS library agree.
LEMMA FoundFirst ==
  ASSUME NEW p \in Tag, WellOrdered(p), Attr(p, "name") # None
  PROVE  FoundName(p) = Attr(p, "name")
<1>1. p.attrs \in Seq(Attribute)
  BY TagParts
<1>2. p.attrs # << >> /\ 1 \in DOMAIN p.attrs
  BY <1>1, AttrFound
<1>3. p.attrs[1].kind = "name"
  BY <1>2 DEF WellOrdered
<1>4. Attr(p, "name") = p.attrs[1].value
  BY <1>2, <1>3, AttrAt
<1> QED BY <1>2, <1>4 DEF FoundName

LEMMA FoundNameType ==
  ASSUME NEW p \in Tag
  PROVE  FoundName(p) \in Profile \cup {None}
<1>1. p.attrs \in Seq(Attribute)
  BY TagParts
<1>2. p.attrs # << >> => p.attrs[1] \in Attribute
  BY <1>1
<1> QED BY <1>2 DEF FoundName, Attribute

-------------------------------------------------------------------------------
(***************************************************************************)
(* What a merge makes of the snippet.                                      *)
(***************************************************************************)
LEMMA RenamedIs ==
  ASSUME NEW s \in Tag, NEW n \in Profile
  PROVE  /\ Renamed(s, n) \in Tag
         /\ Renamed(s, n).body = s.body
         /\ FoundName(Renamed(s, n)) = n
         /\ WellOrdered(s) => /\ WellOrdered(Renamed(s, n))
                              /\ Attr(Renamed(s, n), "name") = n
         /\ ~WellOrdered(s) => Attr(Renamed(s, n), "base") = n
<1> DEFINE new == IF s.attrs = << >> THEN <<[kind |-> "name", value |-> n]>>
                                     ELSE [s.attrs EXCEPT ![1].value = n]
           p == Renamed(s, n)
<1>1. /\ s = [attrs |-> s.attrs, body |-> s.body] /\ s.attrs \in Seq(Attribute)
      /\ s.body \in Body
      /\ \A i, j \in DOMAIN s.attrs : s.attrs[i].kind = s.attrs[j].kind => i = j
  BY TagParts
<1>2. p = [attrs |-> new, body |-> s.body]
  BY <1>1 DEF Renamed
<1>3. /\ new \in Seq(Attribute) /\ new # << >> /\ 1 \in DOMAIN new /\ new[1].value = n
      /\ \A i, j \in DOMAIN new : new[i].kind = new[j].kind => i = j
      /\ s.attrs = << >> => new[1].kind = "name"
      /\ s.attrs # << >> => new[1].kind = s.attrs[1].kind
  <2>1. CASE s.attrs = << >>
    BY <2>1 DEF Attribute
  <2>2. CASE s.attrs # << >>
    <3> DEFINE e == [s.attrs EXCEPT ![1].value = n]
    <3>1. /\ Len(s.attrs) \in Nat \ {0} /\ DOMAIN s.attrs = 1..Len(s.attrs)
          /\ s.attrs[1] \in Attribute
      BY <1>1, <2>2
    <3>2. /\ DOMAIN e = 1..Len(s.attrs) /\ e[1] = [s.attrs[1] EXCEPT !.value = n]
          /\ \A i \in 1..Len(s.attrs) : i # 1 => e[i] = s.attrs[i]
      BY <1>1, <3>1
    <3>3. e[1] \in Attribute /\ e[1].value = n /\ e[1].kind = s.attrs[1].kind
      BY <3>1, <3>2 DEF Attribute
    <3>4. \A i \in 1..Len(s.attrs) : e[i] \in Attribute /\ e[i].kind = s.attrs[i].kind
      BY <1>1, <3>1, <3>2, <3>3
    <3>5. e = [i \in 1..Len(s.attrs) |-> e[i]]
      BY <3>1
    <3> HIDE DEF e
    <3>6. e \in Seq(Attribute)
      <4> DEFINE m == Len(s.attrs)
      <4> HIDE DEF m
      <4>1. e \in [1..m -> Attribute] /\ m \in Nat
        BY <3>1, <3>4, <3>5 DEF m
      <4> QED BY <4>1
    <3>7. new = e
      BY <2>2 DEF e
    <3>8. 1 \in DOMAIN e /\ e # << >>
      BY <3>1, <3>2
    <3> HIDE DEF new
    <3>9. \A i, j \in DOMAIN e : e[i].kind = e[j].kind => i = j
      BY <1>1, <3>1, <3>2, <3>4
    <3> QED BY <2>2, <3>3, <3>6, <3>7, <3>8, <3>9
  <2> QED BY <2>1, <2>2
<1> HIDE DEF new
<1>4. p.attrs = new /\ p.body = s.body
  BY <1>2
<1>5. p \in Tag
  <2>1. p \in [attrs : Seq(Attribute), body : Body]
    BY <1>1, <1>2, <1>3
  <2>2. IsInjective([i \in DOMAIN p.attrs |-> p.attrs[i].kind])
    BY <1>3, <1>4 DEF IsInjective
  <2> HIDE DEF p
  <2> QED BY <2>1, <2>2 DEF Tag, Attribute
<1> HIDE DEF p
<1>6. FoundName(p) = n
  BY <1>3, <1>4 DEF FoundName
<1>7. Attr(p, new[1].kind) = n
  BY <1>3, <1>4, <1>5, AttrAt
<1>8. ASSUME WellOrdered(s) PROVE WellOrdered(p) /\ Attr(p, "name") = n
  <2>1. new[1].kind = "name"
    BY <1>3, <1>8 DEF WellOrdered
  <2> QED BY <1>4, <1>7, <2>1 DEF WellOrdered
<1>9. ASSUME ~WellOrdered(s) PROVE Attr(p, "base") = n
  <2>1. s.attrs # << >> /\ s.attrs[1].kind # "name" /\ s.attrs[1] \in Attribute
    BY <1>1, <1>9 DEF WellOrdered
  <2>2. new[1].kind = "base"
    BY <1>3, <2>1 DEF Attribute
  <2> QED BY <1>7, <2>2
<1> QED BY <1>4, <1>5, <1>6, <1>8, <1>9 DEF p

-------------------------------------------------------------------------------
(***************************************************************************)
(* Texts that load.                                                        *)
(***************************************************************************)
Good(doc) == IsText(doc) /\ Loads(doc)

\* Position j of library l is a profile of that name, as the DDS library reads it.
Names(doc, l, j, name) == j \in DOMAIN doc[l] /\ Attr(doc[l][j], "name") = name

LEMMA GoodParts ==
  ASSUME NEW doc, Good(doc), NEW l \in DOMAIN doc
  PROVE  /\ l \in Library /\ doc[l] \in Seq(Tag)
         /\ \A i \in DOMAIN doc[l] :
              /\ Attr(doc[l][i], "name") \in Profile
              /\ Attr(doc[l][i], "name") # None
              /\ \A j \in 1..(i - 1) : Attr(doc[l][j], "name") # Attr(doc[l][i], "name")
              /\ Attr(doc[l][i], "base") # None =>
                   \E j \in 1..(i - 1) : Attr(doc[l][j], "name") = Attr(doc[l][i], "base")
<1>1. l \in Library /\ doc[l] \in Seq(Tag)
  BY DEF Good, IsText
<1>2. ASSUME NEW i \in DOMAIN doc[l]
      PROVE  /\ Attr(doc[l][i], "name") # None
             /\ \A j \in 1..(i - 1) : Attr(doc[l][j], "name") # Attr(doc[l][i], "name")
             /\ Attr(doc[l][i], "base") # None =>
                   \E j \in 1..(i - 1) : Attr(doc[l][j], "name") = Attr(doc[l][i], "base")
  BY Zenon DEF Good, Loads
<1>3. ASSUME NEW i \in DOMAIN doc[l] PROVE Attr(doc[l][i], "name") \in Profile
  <2>1. doc[l][i] \in Tag
    BY <1>1
  <2> QED BY <1>2, <2>1, AttrInProfile
<1> QED BY <1>1, <1>2, <1>3

\* A profile is named once.
LEMMA NamedOnce ==
  ASSUME NEW doc, Good(doc), NEW l \in DOMAIN doc, NEW name, NEW i, NEW j,
         Names(doc, l, i, name), Names(doc, l, j, name)
  PROVE  i = j
<1>1. /\ doc[l] \in Seq(Tag) /\ i \in DOMAIN doc[l] /\ j \in DOMAIN doc[l]
      /\ Attr(doc[l][i], "name") = name /\ Attr(doc[l][j], "name") = name
  BY GoodParts DEF Names
<1>2. i \in Nat \ {0} /\ j \in Nat \ {0}
  BY <1>1
<1>3. ~(i < j)
  <2>1. i < j => i \in 1..(j - 1)
    BY <1>2
  <2> QED BY <1>1, <2>1, GoodParts
<1>4. ~(j < i)
  <2>1. j < i => j \in 1..(i - 1)
    BY <1>2
  <2> QED BY <1>1, <2>1, GoodParts
<1> QED BY <1>2, <1>3, <1>4

\* Nothing before a profile has its name, for a name or for a base.
LEMMA NothingBefore ==
  ASSUME NEW doc, Good(doc), NEW l \in DOMAIN doc, NEW name, name # None, NEW j,
         Names(doc, l, j, name), NEW i \in 1..(j - 1)
  PROVE  Attr(doc[l][i], "name") # name /\ Attr(doc[l][i], "base") # name
<1>1. /\ doc[l] \in Seq(Tag) /\ j \in DOMAIN doc[l] /\ Attr(doc[l][j], "name") = name
  BY GoodParts DEF Names
<1>2. j \in Nat /\ i \in DOMAIN doc[l]
  BY <1>1
<1>3. Attr(doc[l][i], "name") # name
  BY <1>1, GoodParts
<1>4. ASSUME Attr(doc[l][i], "base") = name PROVE FALSE
  <2>1. PICK h \in 1..(i - 1) : Attr(doc[l][h], "name") = name
    BY <1>2, <1>4, GoodParts
  <2>2. h \in 1..(j - 1)
    BY <1>2
  <2> QED BY <1>1, <2>1, <2>2, GoodParts
<1> QED BY <1>3, <1>4

\* Where a name stands, or 0.
At(ps, name) == SelectInSeq(ps, LAMBDA p : Attr(p, "name") = name)

LEMMA AtIs ==
  ASSUME NEW ps \in Seq(Tag), NEW name
  PROVE  /\ At(ps, name) \in 0..Len(ps)
         /\ At(ps, name) = 0 <=> \A j \in 1..Len(ps) : Attr(ps[j], "name") # name
         /\ At(ps, name) # 0 => Attr(ps[At(ps, name)], "name") = name
         /\ \A j \in 1..Len(ps) : Attr(ps[j], "name") = name => At(ps, name) <= j
<1> DEFINE I == {i \in 1..Len(ps) : Attr(ps[i], "name") = name}
<1>1. At(ps, name) = IF I # {} THEN Min(I) ELSE 0
  BY DEF At, SelectInSeq
<1>2. I \in SUBSET (1..Len(ps)) /\ Len(ps) \in Nat
  OBVIOUS
<1>3. I # {} => Min(I) \in I /\ \A j \in I : Min(I) <= j
  <2> HIDE DEF I
  <2> QED BY <1>2, MinOfPositions
<1>4. CASE I = {}
  BY <1>1, <1>2, <1>4
<1>5. CASE I # {}
  <2>1. At(ps, name) \in I /\ \A j \in I : At(ps, name) <= j
    BY <1>1, <1>3, <1>5
  <2>2. At(ps, name) \in 1..Len(ps) /\ Attr(ps[At(ps, name)], "name") = name
    BY <2>1
  <2> QED BY <1>2, <2>1, <2>2
<1> QED BY <1>4, <1>5

-------------------------------------------------------------------------------
(***************************************************************************)
(* The chain of a profile (QosOf).                                         *)
(***************************************************************************)
IsChain(c, ps) ==
  c = [i \in 0..Len(ps) |->
         IF i = 0 THEN << >>
         ELSE <<ps[i].body>> \o (IF Attr(ps[i], "base") = None THEN << >>
                                 ELSE c[At(ps, Attr(ps[i], "base"))])]

Chain(ps) == CHOOSE c : IsChain(c, ps)

LEMMA QosOfIsChain ==
  ASSUME NEW doc, NEW l \in DOMAIN doc, NEW name
  PROVE  QosOf(doc, l, name) = Chain(doc[l])[At(doc[l], name)]
BY DEF QosOf, Chain, IsChain, At

\* In a text that loads the definition of the chain by itself has a solution.
LEMMA ChainSolves ==
  ASSUME NEW doc, Good(doc), NEW l \in DOMAIN doc
  PROVE  /\ IsChain(Chain(doc[l]), doc[l])
         /\ \A i \in 0..Len(doc[l]) : Chain(doc[l])[i] \in Seq(Body)
<1> DEFINE ps == doc[l]
           n == Len(ps)
           b == [i \in 1..n |-> ps[i].body]
           prev == [i \in 1..n |-> IF Attr(ps[i], "base") = None THEN 0
                                   ELSE At(ps, Attr(ps[i], "base"))]
<1>1. ps \in Seq(Tag) /\ n \in Nat /\ DOMAIN ps = 1..n
  BY GoodParts
<1>2. b \in [1..n -> Body]
  BY <1>1, TagParts
<1>3. ASSUME NEW i \in 1..n PROVE prev[i] \in Nat /\ prev[i] < i
  <2>1. CASE Attr(ps[i], "base") = None
    BY <2>1
  <2>2. CASE Attr(ps[i], "base") # None
    <3>1. PICK j \in 1..(i - 1) : Attr(ps[j], "name") = Attr(ps[i], "base")
      BY <1>1, <2>2, GoodParts
    <3>2. j \in 1..n /\ j < i
      BY <1>1
    <3> DEFINE a == At(ps, Attr(ps[i], "base"))
    <3>3. a \in 0..n /\ a <= j
      BY <1>1, <3>1, <3>2, AtIs
    <3>4. prev[i] = a
      BY <2>2
    <3> HIDE DEF a, prev, ps, n
    <3> QED BY <1>1, <3>2, <3>3, <3>4
  <2> QED BY <2>1, <2>2
<1>4. PICK c \in [0..n -> Seq(Body)] : Chained(c, n, b, prev)
  <2>1. prev \in [1..n -> Nat] /\ \A i \in 1..n : prev[i] < i
    BY <1>3
  <2>2. n \in Nat
    BY <1>1
  <2> HIDE DEF prev, b, n
  <2> QED BY <1>2, <2>1, <2>2, ChainExists
<1>a. \A i \in 0..n : c[i] = IF i = 0 THEN << >> ELSE <<b[i]>> \o c[prev[i]]
  BY <1>4 DEF Chained
<1>5. ASSUME NEW i \in 0..n
      PROVE  c[i] = IF i = 0 THEN << >>
                    ELSE <<ps[i].body>> \o (IF Attr(ps[i], "base") = None THEN << >>
                                            ELSE c[At(ps, Attr(ps[i], "base"))])
  <2>1. CASE i = 0
    BY <1>a, <2>1
  <2>2. CASE i # 0
    <3>1. i \in 1..n
      BY <2>2
    <3>2. c[i] = <<ps[i].body>> \o c[prev[i]]
      BY <1>a, <2>2, <3>1
    <3>3. c[0] = << >>
      <4>1. 0 \in 0..n
        BY <1>1
      <4> HIDE DEF prev, b, n
      <4> QED BY <1>a, <4>1
    <3>4. c[prev[i]] = IF Attr(ps[i], "base") = None THEN << >>
                       ELSE c[At(ps, Attr(ps[i], "base"))]
      BY <3>1, <3>3
    <3> HIDE DEF prev, ps
    <3> QED BY <2>2, <3>2, <3>4
  <2> QED BY <2>1, <2>2
<1>6. IsChain(c, ps)
  <2>1. c = [i \in 0..n |-> c[i]]
    OBVIOUS
  <2> HIDE DEF ps
  <2> QED BY <1>5, <2>1 DEF IsChain
<1>7. IsChain(Chain(ps), ps)
  <2> HIDE DEF ps
  <2> QED BY <1>6, Zenon DEF Chain
<1>8. \A i \in 0..n : Chain(ps)[i] \in Seq(Body)
  <2> DEFINE d == Chain(ps)
             Bad == {i \in 0..n : d[i] # c[i]}
  <2> HIDE DEF d
  <2>1. IsChain(d, ps)
    BY <1>7 DEF d
  <2>2. \A i \in 0..n : d[i] = IF i = 0 THEN << >>
              ELSE <<ps[i].body>> \o (IF Attr(ps[i], "base") = None THEN << >>
                                      ELSE d[At(ps, Attr(ps[i], "base"))])
    <3> HIDE DEF ps
    <3> QED BY <2>1 DEF IsChain
  <2>3. ASSUME NEW i \in Bad PROVE \E j \in Bad : j < i
    <3>1. i # 0 /\ i \in 1..n
      <4>1. i \in 0..n /\ d[i] # c[i] /\ 0 \in 0..n
        BY <1>1
      <4> HIDE DEF ps, n
      <4>2. d[0] = << >> /\ c[0] = << >>
        BY <1>5, <2>2, <4>1
      <4> QED BY <1>1, <4>1, <4>2
    <3>2. CASE Attr(ps[i], "base") = None
      <4> HIDE DEF ps, n
      <4> QED BY <1>5, <2>2, <3>1, <3>2
    <3>3. CASE Attr(ps[i], "base") # None
      <4> DEFINE a == At(ps, Attr(ps[i], "base"))
      <4>1. a \in Nat /\ a < i
        BY <1>3, <3>1, <3>3
      <4>2. d[i] = <<ps[i].body>> \o d[a] /\ c[i] = <<ps[i].body>> \o c[a]
        <5> HIDE DEF ps, n
        <5> QED BY <1>5, <2>2, <3>1, <3>3
      <4>3. d[a] # c[a]
        <5> HIDE DEF ps, n, a
        <5> QED BY <4>2
      <4>4. a \in 0..n
        <5> HIDE DEF ps, n, a
        <5> QED BY <1>1, <3>1, <4>1
      <4>5. a \in Bad
        BY <4>3, <4>4
      <4> HIDE DEF a, Bad
      <4> QED BY <4>1, <4>5
    <3> QED BY <3>2, <3>3
  <2>4. Bad = {}
    <3>1. Bad \in SUBSET Nat
      BY <1>1
    <3> HIDE DEF Bad
    <3> QED BY <2>3, <3>1, Descent
  <2>5. ASSUME NEW i \in 0..n PROVE d[i] \in Seq(Body)
    <3>1. d[i] = c[i]
      BY <2>4
    <3> QED BY <3>1
  <2> QED BY <2>5 DEF d
<1> QED BY <1>7, <1>8

LEMMA QosOfFound ==
  ASSUME NEW doc, Good(doc), NEW l \in DOMAIN doc, NEW name, NEW j, Names(doc, l, j, name)
  PROVE  /\ QosOf(doc, l, name) \in Seq(Body) /\ QosOf(doc, l, name) # << >>
         /\ Head(QosOf(doc, l, name)) = doc[l][j].body
<1> DEFINE ps == doc[l]
           c == Chain(ps)
           a == At(ps, name)
<1>1. ps \in Seq(Tag) /\ j \in 1..Len(ps) /\ Attr(ps[j], "name") = name
  BY GoodParts DEF Names
<1>2. a \in 1..Len(ps) /\ Attr(ps[a], "name") = name
  <2>1. Len(ps) \in Nat
    BY <1>1
  <2> QED BY <1>1, <2>1, AtIs
<1>3. a = j
  <2>1. Names(doc, l, a, name)
    BY <1>1, <1>2 DEF Names
  <2> HIDE DEF a
  <2> QED BY <2>1, NamedOnce
<1> HIDE DEF a, c
<1>4. IsChain(c, ps) /\ \A i \in 0..Len(ps) : c[i] \in Seq(Body)
  BY ChainSolves DEF c
<1>5. c[j] \in Seq(Body)
  BY <1>1, <1>4
<1> DEFINE rest == IF Attr(ps[j], "base") = None THEN << >> ELSE c[At(ps, Attr(ps[j], "base"))]
<1>6. c[j] = <<ps[j].body>> \o rest
  <2>1. j # 0 /\ j \in 0..Len(ps)
    BY <1>1
  <2> HIDE DEF ps
  <2> QED BY <1>4, <2>1 DEF IsChain
<1>7. rest \in Seq(Body)
  <2>1. Attr(ps[j], "base") # None => At(ps, Attr(ps[j], "base")) \in 0..Len(ps)
    BY <1>1, AtIs
  <2> HIDE DEF ps
  <2> QED BY <1>4, <2>1
<1>8. ps[j].body \in Body
  BY <1>1, TagParts
<1>9. c[j] # << >> /\ Head(c[j]) = ps[j].body
  <2> HIDE DEF ps, rest
  <2> QED BY <1>6, <1>7, <1>8
<1>10. QosOf(doc, l, name) = c[j]
  BY <1>3, QosOfIsChain DEF a, c
<1> QED BY <1>5, <1>9, <1>10

LEMMA QosOfMissing ==
  ASSUME NEW doc, Good(doc), NEW l, NEW name,
         l \in DOMAIN doc => \A j \in DOMAIN doc[l] : Attr(doc[l][j], "name") # name
  PROVE  QosOf(doc, l, name) = << >>
<1>1. CASE l \notin DOMAIN doc
  BY <1>1 DEF QosOf
<1>2. CASE l \in DOMAIN doc
  <2>1. doc[l] \in Seq(Tag) /\ IsChain(Chain(doc[l]), doc[l])
    BY <1>2, GoodParts, ChainSolves
  <2>2. At(doc[l], name) = 0
    BY <1>2, <2>1, AtIs
  <2>3. Chain(doc[l])[0] = << >>
    <3> DEFINE c == Chain(doc[l])
    <3> HIDE DEF c
    <3>1. IsChain(c, doc[l]) /\ 0 \in 0..Len(doc[l])
      BY <2>1 DEF c
    <3>2. c[0] = << >>
      BY <3>1 DEF IsChain
    <3> QED BY <3>2 DEF c
  <2> QED BY <1>2, <2>2, <2>3, QosOfIsChain
<1> QED BY <1>1, <1>2

-------------------------------------------------------------------------------
(***************************************************************************)
(* What the helpers find in a text.                                        *)
(***************************************************************************)

\* In a text that loads, the tag that is taken for a profile is its own.
LEMMA ExtractFound ==
  ASSUME NEW doc, Good(doc), NEW l \in DOMAIN doc, NEW name \in Profile, NEW j,
         Names(doc, l, j, name)
  PROVE  ExtractProfile(doc, l, name) = doc[l][j].body
<1> DEFINE T == Tagged(doc, l, name)
<1>1. /\ doc[l] \in Seq(Tag) /\ j \in DOMAIN doc[l] /\ Attr(doc[l][j], "name") = name
      /\ name # None /\ doc # None
  BY GoodParts, ConstantsAssumption DEF Names, Good, Loads
<1>2. T = {i \in DOMAIN doc[l] : \E a \in ToSet(doc[l][i].attrs) : a.value = name}
  BY <1>1 DEF Tagged
<1>3. j \in T
  <2>1. doc[l][j] \in Tag
    BY <1>1
  <2>2. PICK h \in DOMAIN doc[l][j].attrs : doc[l][j].attrs[h].value = name
    BY <1>1, <2>1, AttrFound
  <2>3. doc[l][j].attrs[h] \in ToSet(doc[l][j].attrs)
    BY DEF ToSet
  <2> HIDE DEF T
  <2> QED BY <1>1, <1>2, <2>2, <2>3
<1>4. ASSUME NEW i \in T PROVE ~(i < j)
  <2> SUFFICES ASSUME i < j PROVE FALSE
    OBVIOUS
  <2>1. i \in DOMAIN doc[l]
    BY <1>2
  <2>2. doc[l][i] \in Tag /\ i \in 1..(j - 1)
    BY <1>1, <2>1
  <2>3. PICK h \in DOMAIN doc[l][i].attrs : doc[l][i].attrs[h].value = name
    BY <1>2 DEF ToSet
  <2>4. Attr(doc[l][i], doc[l][i].attrs[h].kind) = name
    BY <2>2, <2>3, AttrAt
  <2>5. doc[l][i].attrs[h].kind \in {"name", "base"}
    <3>1. doc[l][i].attrs \in Seq(Attribute)
      BY <2>2, TagParts
    <3>2. doc[l][i].attrs[h] \in Attribute
      BY <2>3, <3>1
    <3> QED BY <3>2 DEF Attribute
  <2> QED BY <1>1, <2>2, <2>4, <2>5, NothingBefore
<1>5. Min(T) = j
  <2>1. T \in SUBSET (1..Len(doc[l])) /\ Len(doc[l]) \in Nat
    BY <1>1, <1>2
  <2> HIDE DEF T
  <2>2. Min(T) \in T /\ Min(T) <= j
    BY <1>3, <2>1, MinOfPositions
  <2>3. Min(T) \in Nat /\ j \in Nat
    <3> DEFINE n == Len(doc[l])
    <3>1. n \in Nat /\ Min(T) \in 1..n /\ j \in 1..n
      BY <1>3, <2>1, <2>2
    <3> HIDE DEF n
    <3> QED BY <3>1
  <2> QED BY <1>4, <2>2, <2>3
<1> HIDE DEF T
<1> QED BY <1>3, <1>5 DEF ExtractProfile, T

LEMMA ExtractMissing ==
  ASSUME NEW doc, Good(doc), NEW l \in DOMAIN doc, NEW name \in Profile,
         \A j \in DOMAIN doc[l] : Attr(doc[l][j], "name") # name
  PROVE  ExtractProfile(doc, l, name) = None
<1>1. doc[l] \in Seq(Tag) /\ name # None /\ doc # None
  BY GoodParts, ConstantsAssumption DEF Good, Loads
<1>2. ASSUME NEW i \in Tagged(doc, l, name) PROVE FALSE
  <2>1. i \in DOMAIN doc[l] /\ \E a \in ToSet(doc[l][i].attrs) : a.value = name
    BY <1>1 DEF Tagged
  <2>2. doc[l][i] \in Tag
    BY <1>1, <2>1
  <2>3. PICK h \in DOMAIN doc[l][i].attrs : doc[l][i].attrs[h].value = name
    BY <2>1 DEF ToSet
  <2>4. Attr(doc[l][i], doc[l][i].attrs[h].kind) = name
    BY <2>2, <2>3, AttrAt
  <2>5. doc[l][i].attrs[h].kind \in {"name", "base"}
    <3>1. doc[l][i].attrs \in Seq(Attribute)
      BY <2>2, TagParts
    <3>2. doc[l][i].attrs[h] \in Attribute
      BY <2>3, <3>1
    <3> QED BY <3>2 DEF Attribute
  <2>6. Attr(doc[l][i], "base") = name
    BY <2>1, <2>4, <2>5
  <2>7. PICK h2 \in 1..(i - 1) : Attr(doc[l][h2], "name") = name
    BY <1>1, <2>1, <2>6, GoodParts
  <2>8. h2 \in DOMAIN doc[l]
    BY <1>1, <2>1
  <2> QED BY <2>7, <2>8
<1> QED BY <1>2 DEF ExtractProfile

LEMMA ParseHas ==
  ASSUME NEW doc, doc # None, NEW l \in DOMAIN doc, NEW j \in DOMAIN doc[l],
         FoundName(doc[l][j]) # None
  PROVE  <<l, FoundName(doc[l][j])>> \in ParseProfiles(doc)
<1>1. doc[l][j] \in ToSet(doc[l])
  BY DEF ToSet
<1> DEFINE S(m) == {<<m, FoundName(p)>> : p \in ToSet(doc[m])}
<1>2. <<l, FoundName(doc[l][j])>> \in S(l)
  BY <1>1
<1>3. <<l, FoundName(doc[l][j])>> \in UNION {S(m) : m \in DOMAIN doc}
  <2> HIDE DEF S
  <2> QED BY <1>2
<1>4. <<l, FoundName(doc[l][j])>> \notin Library \X {None}
  OBVIOUS
<1>5. ParseProfiles(doc) = (UNION {S(m) : m \in DOMAIN doc}) \ (Library \X {None})
  BY DEF ParseProfiles
<1> HIDE DEF S
<1> QED BY <1>3, <1>4, <1>5

LEMMA ParseOnly ==
  ASSUME NEW doc, IsText(doc), NEW k \in ParseProfiles(doc)
  PROVE  /\ k \in Key /\ k[1] \in DOMAIN doc
         /\ \E j \in DOMAIN doc[k[1]] : FoundName(doc[k[1]][j]) = k[2]
<1>1. doc # None
  BY DEF ParseProfiles
<1> DEFINE S(m) == {<<m, FoundName(p)>> : p \in ToSet(doc[m])}
<1>a. ParseProfiles(doc) = (UNION {S(m) : m \in DOMAIN doc}) \ (Library \X {None})
  BY <1>1 DEF ParseProfiles
<1>2. PICK l \in DOMAIN doc : k \in S(l)
  <2> HIDE DEF S
  <2> QED BY <1>a
<1>3. PICK p \in ToSet(doc[l]) : k = <<l, FoundName(p)>>
  BY <1>2
<1>4. l \in Library /\ doc[l] \in Seq(Tag)
  BY DEF IsText
<1>5. PICK j \in DOMAIN doc[l] : p = doc[l][j]
  BY DEF ToSet
<1>6. FoundName(p) \in Profile \cup {None}
  BY <1>4, <1>5, FoundNameType
<1>7. FoundName(p) # None
  <2>1. k \notin Library \X {None}
    <3> HIDE DEF S
    <3> QED BY <1>a
  <2> QED BY <1>3, <1>4, <2>1
<1> QED BY <1>3, <1>4, <1>5, <1>6, <1>7 DEF Key

-------------------------------------------------------------------------------
(***************************************************************************)
(* Packs.                                                                  *)
(***************************************************************************)
PackType == [qos : Seq(Body), origin : File \cup {Dynamic}]

LEMMA PackFound ==
  ASSUME NEW doc, Good(doc), NEW k \in Key, k[1] \in DOMAIN doc, NEW j,
         Names(doc, k[1], j, k[2]), NEW origin \in File \cup {Dynamic}
  PROVE  /\ Pack(doc, k, origin) \in PackType /\ Pack(doc, k, origin) # None
         /\ Pack(doc, k, origin).origin = origin
         /\ Own(Pack(doc, k, origin)) = doc[k[1]][j].body
<1> DEFINE qos == QosOf(doc, k[1], k[2])
<1>1. qos \in Seq(Body) /\ qos # << >> /\ Head(qos) = doc[k[1]][j].body
  BY QosOfFound
<1>2. Pack(doc, k, origin) = [qos |-> qos, origin |-> origin]
  <2> HIDE DEF qos
  <2> QED BY <1>1 DEF Pack, qos
<1> HIDE DEF qos
<1>3. [qos |-> qos, origin |-> origin] \in PackType
  BY <1>1 DEF PackType
<1>4. None \notin PackType
  BY ConstantsAssumption DEF PackType
<1> QED BY <1>1, <1>2, <1>3, <1>4 DEF Own

LEMMA PackMissing ==
  ASSUME NEW doc, Good(doc), NEW k \in Key, NEW origin,
         k[1] \in DOMAIN doc => \A j \in DOMAIN doc[k[1]] : Attr(doc[k[1]][j], "name") # k[2]
  PROVE  Pack(doc, k, origin) = None /\ QosOf(doc, k[1], k[2]) = << >>
BY QosOfMissing DEF Pack

\* A pack is of a profile that the DDS library reads.
LEMMA PackOf ==
  ASSUME NEW doc, Good(doc), NEW k \in Key, NEW origin,
         Pack(doc, k, origin) # None \/ QosOf(doc, k[1], k[2]) # << >>
  PROVE  k[1] \in DOMAIN doc /\ \E j : Names(doc, k[1], j, k[2])
BY PackMissing DEF Names

-------------------------------------------------------------------------------
(***************************************************************************)
(* A text holds a profile with some settings, with the name first.  A      *)
(* merge leaves the other profiles held, and those it does not make were   *)
(* held before.                                                            *)
(***************************************************************************)
HeldAt(doc, k, b, j) ==
  Names(doc, k[1], j, k[2]) /\ WellOrdered(doc[k[1]][j]) /\ doc[k[1]][j].body = b

Held(doc, k, b) ==
  Good(doc) /\ k[1] \in DOMAIN doc /\ \E j \in DOMAIN doc[k[1]] : HeldAt(doc, k, b, j)

LEMMA OffersHeld ==
  ASSUME NEW doc, IsText(doc), NEW k
  PROVE  Offers(doc, k) <=> \E b : Held(doc, k, b)
<1>1. ASSUME Offers(doc, k) PROVE \E b : Held(doc, k, b)
  <2>1. PICK p \in ToSet(doc[k[1]]) : Attr(p, "name") = k[2] /\ WellOrdered(p)
    BY <1>1 DEF Offers
  <2>2. PICK j \in DOMAIN doc[k[1]] : p = doc[k[1]][j]
    BY DEF ToSet
  <2>3. HeldAt(doc, k, p.body, j)
    BY <2>1, <2>2 DEF HeldAt, Names
  <2> QED BY <1>1, <2>3 DEF Held, Good, Offers
<1>2. ASSUME NEW b, Held(doc, k, b) PROVE Offers(doc, k)
  <2>1. PICK j : HeldAt(doc, k, b, j)
    BY <1>2 DEF Held, HeldAt, Names
  <2>2. doc[k[1]][j] \in ToSet(doc[k[1]])
    BY <2>1 DEF HeldAt, Names, ToSet
  <2> QED BY <1>2, <2>1, <2>2 DEF Held, HeldAt, Names, Good, Offers
<1> QED BY <1>1, <1>2

LEMMA HeldParts ==
  ASSUME NEW doc, NEW k \in Key, NEW b, Held(doc, k, b), NEW j, HeldAt(doc, k, b, j)
  PROVE  /\ Names(doc, k[1], j, k[2]) /\ doc[k[1]][j].body = b
         /\ doc[k[1]][j] \in Tag /\ FoundName(doc[k[1]][j]) = k[2]
<1>2. Good(doc) /\ k[1] \in DOMAIN doc /\ doc[k[1]] \in Seq(Tag) /\ k[2] # None
  BY GoodParts, ConstantsAssumption DEF Held, Key
<1>3. j \in DOMAIN doc[k[1]] /\ Attr(doc[k[1]][j], "name") = k[2] /\ WellOrdered(doc[k[1]][j])
  BY DEF HeldAt, Names
<1>4. doc[k[1]][j] \in Tag
  BY <1>2, <1>3
<1>5. FoundName(doc[k[1]][j]) = k[2]
  BY <1>2, <1>3, <1>4, FoundFirst
<1> QED BY <1>3, <1>4, <1>5 DEF HeldAt

\* What a held profile is resolved to, from any origin.
LEMMA HeldPack ==
  ASSUME NEW doc, NEW k \in Key, NEW b, Held(doc, k, b), NEW origin \in File \cup {Dynamic}
  PROVE  /\ Pack(doc, k, origin) # None /\ Own(Pack(doc, k, origin)) = b
         /\ ExtractProfile(doc, k[1], k[2]) = b
         /\ QosOf(doc, k[1], k[2]) # << >>
         /\ k \in ParseProfiles(doc)
<1>a. PICK j : HeldAt(doc, k, b, j)
  BY DEF Held, HeldAt, Names
<1>1. /\ Names(doc, k[1], j, k[2]) /\ doc[k[1]][j].body = b
      /\ FoundName(doc[k[1]][j]) = k[2]
  BY <1>a, HeldParts
<1>2. Good(doc) /\ k[1] \in DOMAIN doc /\ k[2] \in Profile /\ k[2] # None /\ k = <<k[1], k[2]>>
  BY ConstantsAssumption DEF Held, Key
<1>3. doc # None /\ j \in DOMAIN doc[k[1]]
  BY <1>1, <1>2 DEF Good, Loads, Names
<1>4. Pack(doc, k, origin) # None /\ Own(Pack(doc, k, origin)) = b
  BY <1>1, <1>2, PackFound
<1>5. ExtractProfile(doc, k[1], k[2]) = b
  BY <1>1, <1>2, ExtractFound
<1>6. <<k[1], FoundName(doc[k[1]][j])>> \in ParseProfiles(doc)
  BY <1>1, <1>2, <1>3, ParseHas
<1>7. k \in ParseProfiles(doc)
  BY <1>1, <1>2, <1>6
<1>8. QosOf(doc, k[1], k[2]) # << >>
  BY <1>1, <1>2, QosOfFound
<1> QED BY <1>4, <1>5, <1>7, <1>8

LEMMA MergeIs ==
  ASSUME NEW doc, IsText(doc), NEW l \in DOMAIN doc, NEW s \in Tag, s # None,
         NEW n \in Profile, NEW new, new = MergeProfile(doc, l, n, s)
  PROVE  /\ IsText(new) /\ DOMAIN new = DOMAIN doc
         /\ \A m \in DOMAIN doc : m # l => new[m] = doc[m]
         /\ \E i \in DOMAIN new[l] :
              /\ new[l][i] = Renamed(s, n)
              /\ \A j \in DOMAIN new[l] : j # i => /\ j \in DOMAIN doc[l]
                                                   /\ new[l][j] = doc[l][j]
              /\ \A j \in DOMAIN doc[l] : /\ j # i => /\ j \in DOMAIN new[l]
                                                      /\ new[l][j] = doc[l][j]
                                          /\ FoundName(doc[l][j]) = n => i <= j
                                          /\ j = i => FoundName(doc[l][j]) = n
<1> DEFINE ps == doc[l]
           p == Renamed(s, n)
           I == {i \in 1..Len(ps) : FoundName(ps[i]) = n}
           qs == IF I = {} THEN Append(ps, p) ELSE [ps EXCEPT ![Min(I)] = p]
           at == IF I = {} THEN Len(ps) + 1 ELSE Min(I)
<1>1. ps \in Seq(Tag) /\ p \in Tag /\ Len(ps) \in Nat /\ DOMAIN ps = 1..Len(ps)
  BY RenamedIs DEF IsText
<1>2. I # {} => Min(I) \in I /\ \A j \in I : Min(I) <= j
  <2>1. I \in SUBSET (1..Len(ps)) OBVIOUS
  <2> HIDE DEF I
  <2> QED BY <1>1, <2>1, MinOfPositions
<1>3. SelectInSeq(ps, LAMBDA q : FoundName(q) = n) = IF I # {} THEN Min(I) ELSE 0
  BY DEF SelectInSeq
<1>4. I # {} => Min(I) # 0
  BY <1>1, <1>2
<1>5. new = [doc EXCEPT ![l] = qs]
  <2> DEFINE i == SelectInSeq(ps, LAMBDA q : FoundName(q) = n)
  <2>1. new = [doc EXCEPT ![l] = IF i = 0 THEN Append(@, p) ELSE [@ EXCEPT ![i] = p]]
    BY DEF MergeProfile
  <2> HIDE DEF I, p
  <2>2. i = IF I # {} THEN Min(I) ELSE 0
    BY <1>3
  <2> HIDE DEF i
  <2> QED BY <1>4, <2>1, <2>2
<1> HIDE DEF p
<1>6. /\ qs \in Seq(Tag) /\ at \in DOMAIN qs /\ qs[at] = p
      /\ \A j \in DOMAIN qs : j # at => j \in DOMAIN ps /\ qs[j] = ps[j]
      /\ \A j \in DOMAIN ps : /\ j # at => j \in DOMAIN qs /\ qs[j] = ps[j]
                              /\ FoundName(ps[j]) = n => at <= j
                              /\ j = at => FoundName(ps[j]) = n
  <2>1. CASE I = {}
    <3>1. qs = Append(ps, p) /\ at = Len(ps) + 1
      BY <2>1
    <3>2. \A j \in DOMAIN ps : FoundName(ps[j]) # n
      BY <1>1, <2>1
    <3>3. \A j \in DOMAIN ps : j # at
      <4> DEFINE m == Len(ps)
      <4>1. m \in Nat /\ DOMAIN ps = 1..m /\ at = m + 1
        BY <1>1, <3>1
      <4> HIDE DEF m, at, ps
      <4> QED BY <4>1
    <3> HIDE DEF I, qs, at, ps
    <3> QED BY <1>1, <3>1, <3>2, <3>3
  <2>2. CASE I # {}
    <3>1. qs = [ps EXCEPT ![at] = p] /\ at \in I /\ \A j \in I : at <= j
      BY <1>2, <2>2
    <3>2. at \in 1..Len(ps) /\ FoundName(ps[at]) = n /\ \A j \in DOMAIN ps : FoundName(ps[j]) = n => at <= j
      BY <1>1, <3>1
    <3> HIDE DEF I, qs, at, ps
    <3>3. qs \in Seq(Tag) /\ DOMAIN qs = DOMAIN ps
      BY <1>1, <3>1, <3>2
    <3> QED BY <1>1, <3>1, <3>2, <3>3
  <2> QED BY <2>1, <2>2
<1> HIDE DEF qs, at, I
<1>7. DOMAIN new = DOMAIN doc /\ new[l] = qs /\ \A m \in DOMAIN doc : m # l => new[m] = doc[m]
  BY <1>5 DEF IsText
<1>8. IsText(new)
  <2>1. new = [m \in DOMAIN doc |-> new[m]]
    BY <1>5 DEF IsText
  <2>2. \A m \in DOMAIN doc : new[m] \in Seq(Tag)
    BY <1>6, <1>7 DEF IsText
  <2> QED BY <1>7, <2>1, <2>2 DEF IsText
<1> QED BY <1>6, <1>7, <1>8 DEF p

\* The profile of the request is held, if its snippet has the name first.
LEMMA MergeHolds ==
  ASSUME NEW doc, IsText(doc), NEW k \in Key, k[1] \in DOMAIN doc, NEW s \in Tag, s # None,
         NEW new, new = MergeProfile(doc, k[1], k[2], s), Loads(new), WellOrdered(s)
  PROVE  Held(new, k, s.body)
<1>1. k[2] \in Profile
  BY DEF Key
<1>2. PICK i \in DOMAIN new[k[1]] : new[k[1]][i] = Renamed(s, k[2])
  BY <1>1, MergeIs
<1>3. Good(new) /\ k[1] \in DOMAIN new
  BY <1>1, MergeIs DEF Good
<1>4. HeldAt(new, k, s.body, i)
  BY <1>1, <1>2, RenamedIs DEF HeldAt, Names
<1> QED BY <1>3, <1>4 DEF Held, HeldAt, Names

\* What was held under another key still is, and nothing else is.
LEMMA MergeKeeps ==
  ASSUME NEW doc, NEW x \in Key, x[1] \in DOMAIN doc, NEW s \in Tag, s # None,
         NEW new, new = MergeProfile(doc, x[1], x[2], s), Good(doc), Loads(new),
         NEW k \in Key, k # x, NEW b
  PROVE  Held(doc, k, b) <=> Held(new, k, b)
<1> DEFINE l == x[1]
           n == x[2]
<1>1. n \in Profile /\ IsText(doc) /\ n # None
  BY ConstantsAssumption DEF Key, Good
<1>2. IsText(new) /\ DOMAIN new = DOMAIN doc /\ \A m \in DOMAIN doc : m # l => new[m] = doc[m]
  BY <1>1, MergeIs
<1>3. PICK i \in DOMAIN new[l] :
         /\ new[l][i] = Renamed(s, n)
         /\ \A j \in DOMAIN new[l] : j # i => j \in DOMAIN doc[l] /\ new[l][j] = doc[l][j]
         /\ \A j \in DOMAIN doc[l] : /\ j # i => j \in DOMAIN new[l] /\ new[l][j] = doc[l][j]
                                     /\ j = i => FoundName(doc[l][j]) = n
  BY <1>1, MergeIs
<1>4. Good(new)
  BY <1>2 DEF Good
<1>5. CASE k[1] # l
  <2>1. k[1] \in DOMAIN doc => new[k[1]] = doc[k[1]]
    BY <1>2, <1>5
  <2>2. k[1] \in DOMAIN doc => \A j : HeldAt(doc, k, b, j) <=> HeldAt(new, k, b, j)
    BY <2>1 DEF HeldAt, Names
  <2> QED BY <1>2, <1>4, <2>2 DEF Held, HeldAt, Names
<1>6. CASE k[1] = l
  <2>1. k[2] # n
    BY <1>6 DEF Key
  <2>2. ASSUME Held(doc, k, b) PROVE Held(new, k, b)
    <3>a. PICK j : HeldAt(doc, k, b, j)
      BY <2>2 DEF Held, HeldAt, Names
    <3>1. /\ Names(doc, k[1], j, k[2]) /\ doc[k[1]][j].body = b
          /\ WellOrdered(doc[k[1]][j]) /\ FoundName(doc[k[1]][j]) = k[2]
      BY <2>2, <3>a, HeldParts DEF HeldAt
    <3>2. j \in DOMAIN doc[l] /\ j # i
      BY <1>3, <1>6, <2>1, <3>1 DEF Names
    <3>3. HeldAt(new, k, b, j)
      BY <1>3, <1>6, <3>1, <3>2 DEF HeldAt, Names
    <3> QED BY <1>2, <1>4, <1>6, <3>3 DEF Held, HeldAt, Names
  <2>3. ASSUME Held(new, k, b) PROVE Held(doc, k, b)
    <3>a. PICK j : HeldAt(new, k, b, j)
      BY <2>3 DEF Held, HeldAt, Names
    <3>1. /\ Names(new, k[1], j, k[2]) /\ new[k[1]][j].body = b
          /\ WellOrdered(new[k[1]][j]) /\ FoundName(new[k[1]][j]) = k[2]
      BY <2>3, <3>a, HeldParts DEF HeldAt
    <3>2. j \in DOMAIN new[l] /\ j # i
      BY <1>1, <1>3, <1>6, <2>1, <3>1, RenamedIs DEF Names
    <3>3. HeldAt(doc, k, b, j)
      BY <1>3, <1>6, <3>1, <3>2 DEF HeldAt, Names
    <3> QED BY <1>6, <3>3 DEF Held, HeldAt, Names
  <2> QED BY <2>2, <2>3
<1> QED BY <1>5, <1>6

\* A snippet with the base first does not load in the place of a profile that
\* is held: it would inherit from the one it replaces.
LEMMA MergeRefused ==
  ASSUME NEW doc, NEW k \in Key, NEW b, Held(doc, k, b), NEW s \in Tag, s # None,
         ~WellOrdered(s), NEW new, new = MergeProfile(doc, k[1], k[2], s)
  PROVE  ~Loads(new)
<1> SUFFICES ASSUME Loads(new) PROVE FALSE
  OBVIOUS
<1> DEFINE l == k[1]
           n == k[2]
<1>1. n \in Profile /\ n # None /\ Good(doc) /\ IsText(doc) /\ l \in DOMAIN doc
  BY ConstantsAssumption DEF Key, Held, Good
<1>2. IsText(new) /\ DOMAIN new = DOMAIN doc
  BY <1>1, MergeIs
<1>3. PICK i \in DOMAIN new[l] :
         /\ new[l][i] = Renamed(s, n)
         /\ \A j \in DOMAIN new[l] : j # i => j \in DOMAIN doc[l] /\ new[l][j] = doc[l][j]
         /\ \A j \in DOMAIN doc[l] : FoundName(doc[l][j]) = n => i <= j
  BY <1>1, MergeIs
<1>a. PICK j : HeldAt(doc, k, b, j)
  BY DEF Held, HeldAt, Names
<1>4. Names(doc, l, j, n) /\ FoundName(doc[l][j]) = n
  <2>1. Held(doc, k, b) /\ k \in Key
    OBVIOUS
  <2>2. HeldAt(doc, k, b, j)
    BY <1>a
  <2>3. Names(doc, k[1], j, k[2])
    BY <2>1, <2>2, HeldParts
  <2>4. FoundName(doc[k[1]][j]) = k[2]
    BY <2>1, <2>2, HeldParts
  <2> QED BY <2>3, <2>4
<1>5. new[l] \in Seq(Tag) /\ doc[l] \in Seq(Tag) /\ Good(new)
  BY <1>1, <1>2 DEF IsText, Good
<1>6. i \in Nat /\ j \in Nat /\ i <= j
  BY <1>3, <1>4, <1>5 DEF Names
<1>7. Attr(new[l][i], "base") = n
  BY <1>1, <1>3, RenamedIs
<1>8. PICK h \in 1..(i - 1) : Attr(new[l][h], "name") = n
  <2>1. l \in DOMAIN new /\ i \in DOMAIN new[l]
    BY <1>1, <1>2, <1>3
  <2>2. Attr(new[l][i], "base") # None =>
          \E h \in 1..(i - 1) : Attr(new[l][h], "name") = Attr(new[l][i], "base")
    BY <1>5, <2>1, GoodParts
  <2> QED BY <1>1, <1>7, <2>2
<1>9. h \in DOMAIN new[l] /\ h # i /\ h < i
  BY <1>3, <1>5, <1>6
<1>10. Names(doc, l, h, n)
  BY <1>3, <1>8, <1>9 DEF Names
<1>11. h = j
  BY <1>1, <1>4, <1>10, NamedOnce
<1> QED BY <1>6, <1>9, <1>11

-------------------------------------------------------------------------------
(***************************************************************************)
(* The invariant of the store.                                             *)
(***************************************************************************)
LoadedEntry ==
  {e \in [file : File, doc : Document, text : Document \cup {None}, names : SUBSET Key,
          time : Nat] : Loads(e.doc)}

InOrder(es) == \A i, j \in DOMAIN es : i < j => Rank(es[i].file) < Rank(es[j].file)

DiskOK == disk \in [File -> [text : Document \cup {None}, time : Nat \ {0}]]

ProvidersOK == providers \in Seq(LoadedEntry) /\ InOrder(providers)

AtFile == {"text", "names", "time"}

\* The entries made so far are of files before those that are left; the last is
\* of the file the call is at.
CallOK ==
  /\ call \in [at : {"idle", "scan", "load", "retry"} \cup AtFile, key : Key \cup {None},
               todo : SUBSET File, loaded : Seq(LoadedEntry)]
  /\ call.at = "retry" => call.key \in Key
  /\ call.at = "scan" => call.loaded = << >>
  /\ InOrder(call.loaded)
  /\ \A i \in DOMAIN call.loaded, f \in call.todo :
       /\ Rank(call.loaded[i].file) <= Rank(f)
       /\ call.at \notin AtFile => Rank(call.loaded[i].file) < Rank(f)
  /\ call.at \in AtFile => /\ call.todo # {} /\ call.loaded # << >>
                           /\ call.loaded[Len(call.loaded)].file = Current

DynOK ==
  /\ dyn = [l \in Library |-> dyn[l]]
  /\ \A l \in Library : dyn[l] = None \/ (Good(dyn[l]) /\ l \in DOMAIN dyn[l])
  /\ index \subseteq {k \in Key : dyn[k[1]] # None}

\* A pack in the cache has its source, and the settings of its source.
CacheOK ==
  /\ cache \in [Key -> PackType \cup {None}]
  /\ \A k \in Key : cache[k] # None =>
       IF cache[k].origin = Dynamic
       THEN /\ dyn[k[1]] # None
            /\ \A b \in Body : Held(dyn[k[1]], k, b) => Own(cache[k]) = b
       ELSE \E i \in DOMAIN providers :
              cache[k] = Pack(providers[i].doc, k, providers[i].file)

\* What an update gave is held by its library, and no call that looks for it in
\* the files is under way.
GivenOK ==
  /\ given = [k \in Key |-> given[k]]
  /\ \A k \in Key : given[k] # None =>
       /\ given[k] \in Body /\ Held(dyn[k[1]], k, given[k]) /\ k \in index
       /\ cache[k] # None => Own(cache[k]) = given[k]
  /\ call.at # "idle" /\ call.key \in Key => given[call.key] = None

\* A file that nobody has edited since the first look is still to come, or has
\* an entry of what it holds.
Made(e, f) == e.file = f /\ e.doc = disk[f].text /\ e.names = ParseProfiles(e.doc)

MadeOK ==
  /\ steady \subseteq File
  /\ call.at \in {"load"} \cup AtFile => \A f \in steady : Loads(disk[f].text) =>
       f \in call.todo \/ \E i \in DOMAIN call.loaded : Made(call.loaded[i], f)
  /\ call.at \in AtFile /\ Current \in steady =>
       /\ call.loaded[Len(call.loaded)].doc = disk[Current].text
       /\ call.at = "time" =>
            call.loaded[Len(call.loaded)].names = ParseProfiles(disk[Current].text)
  /\ call.at = "retry" => \A f \in steady : Loads(disk[f].text) =>
       \E i \in DOMAIN providers : Made(providers[i], f)

StoreInv ==
  /\ DiskOK /\ ProvidersOK /\ CallOK /\ DynOK /\ CacheOK /\ GivenOK /\ MadeOK
  /\ updates \in 0..MaxUpdates

-------------------------------------------------------------------------------
(***************************************************************************)
(* The order of the files.                                                 *)
(***************************************************************************)
LEMMA RankIs ==
  ASSUME NEW f \in File
  PROVE  Rank(f) \in Nat /\ FileOrder[Rank(f)] = f
<1>1. \E i \in DOMAIN FileOrder : FileOrder[i] = f
  BY DEF File, ToSet
<1>2. Rank(f) \in DOMAIN FileOrder /\ FileOrder[Rank(f)] = f
  BY <1>1 DEF Rank
<1> QED BY <1>2, ConstantsAssumption

LEMMA FirstIs ==
  ASSUME NEW fs \in SUBSET File, fs # {}
  PROVE  First(fs) \in fs /\ \A g \in fs : /\ Rank(First(fs)) <= Rank(g)
                                           /\ g # First(fs) => Rank(First(fs)) < Rank(g)
<1> DEFINE T == {Rank(g) : g \in fs}
<1>1. T \in SUBSET Nat /\ T # {}
  BY RankIs
<1>2. PICK x \in T : \A y \in T : x <= y
  <2> HIDE DEF T
  <2> QED BY <1>1, Least
<1>3. \E f \in fs : \A g \in fs : Rank(f) <= Rank(g)
  BY <1>2
<1>4. First(fs) \in fs /\ \A g \in fs : Rank(First(fs)) <= Rank(g)
  BY <1>3 DEF First
<1>5. ASSUME NEW g \in fs, g # First(fs) PROVE Rank(First(fs)) < Rank(g)
  <2>1. /\ Rank(g) \in Nat /\ FileOrder[Rank(g)] = g
        /\ Rank(First(fs)) \in Nat /\ FileOrder[Rank(First(fs))] = First(fs)
    BY <1>4, RankIs
  <2>2. Rank(g) # Rank(First(fs))
    BY <1>5, <2>1
  <2> QED BY <1>4, <2>1, <2>2
<1> QED BY <1>4, <1>5

-------------------------------------------------------------------------------
(***************************************************************************)
(* Looking in the files.                                                   *)
(***************************************************************************)
LEMMA DocumentType ==
  ASSUME NEW doc \in Document
  PROVE  IsText(doc) /\ doc # None /\ ParseProfiles(doc) \in SUBSET Key
<1>1. IsText(doc) /\ doc # None
  BY ConstantsAssumption
<1> QED BY <1>1, ParseOnly

LEMMA EntryParts ==
  ASSUME NEW e \in LoadedEntry
  PROVE  /\ e.file \in File /\ e.doc \in Document /\ Good(e.doc) /\ e.names \in SUBSET Key
         /\ e.text \in Document \cup {None} /\ e.time \in Nat
<1>1. e.file \in File /\ e.doc \in Document /\ Loads(e.doc) /\ e.names \in SUBSET Key
      /\ e.text \in Document \cup {None} /\ e.time \in Nat
  BY DEF LoadedEntry
<1> QED BY <1>1, DocumentType DEF Good

LEMMA RefreshedIs ==
  ASSUME DiskOK, NEW e \in LoadedEntry, NEW k
  PROVE  /\ Refreshed(e, k) \in LoadedEntry
         /\ Refreshed(e, k).file = e.file /\ Refreshed(e, k).doc = e.doc
<1> DEFINE f == disk[e.file]
<1>1. f \in [text : Document \cup {None}, time : Nat \ {0}]
  BY EntryParts DEF DiskOK
<1>2. f.text # None => ParseProfiles(f.text) \in SUBSET Key
  BY <1>1, DocumentType
<1> DEFINE r == [e EXCEPT !.names = ParseProfiles(f.text), !.time = f.time]
<1>3. f.text # None => r \in LoadedEntry /\ r.file = e.file /\ r.doc = e.doc
  <2> HIDE DEF f
  <2> QED BY <1>1, <1>2 DEF LoadedEntry
<1>4. Refreshed(e, k) = IF k \in e.names \/ f.text = None \/ f.time = e.time THEN e ELSE r
  BY DEF Refreshed
<1> HIDE DEF r, f
<1> QED BY <1>3, <1>4

\* Entry i answers a look for k.
AnswersAt(i, k) == /\ k \in Refreshed(providers[i], k).names
                   /\ Pack(providers[i].doc, k, providers[i].file) # None

LEMMA ResolveIs ==
  ASSUME ProvidersOK, NEW k
  PROVE  /\ ResolvedAt(k) \in 0..Len(providers)
         /\ Resolve(k) # None =>
              /\ ResolvedAt(k) \in DOMAIN providers
              /\ Resolve(k) = Pack(providers[ResolvedAt(k)].doc, k, providers[ResolvedAt(k)].file)
         /\ Resolve(k) = None => \A i \in DOMAIN providers : ~AnswersAt(i, k)
         /\ Resolve(k) # None => AnswersAt(ResolvedAt(k), k)
<1> DEFINE n == Len(providers)
           I == {i \in 1..n : AnswersAt(i, k)}
<1>1. n \in Nat /\ DOMAIN providers = 1..n /\ I \in SUBSET (1..n)
  BY DEF ProvidersOK
<1>2. ResolvedAt(k) = IF I # {} THEN Max(I) ELSE 0
  BY DEF ResolvedAt, SelectLastInSeq, AnswersAt
<1>3. I # {} => Max(I) \in I
  <2> HIDE DEF I, n
  <2> QED BY <1>1, MaxOfPositions
<1>4. Resolve(k) = IF ResolvedAt(k) = 0 THEN None
                   ELSE Pack(providers[ResolvedAt(k)].doc, k, providers[ResolvedAt(k)].file)
  BY DEF Resolve
<1>5. CASE I = {}
  BY <1>1, <1>2, <1>4, <1>5
<1>6. CASE I # {}
  <2>1. ResolvedAt(k) \in 1..n /\ AnswersAt(ResolvedAt(k), k)
    BY <1>2, <1>3, <1>6
  <2>2. ResolvedAt(k) # 0
    BY <1>1, <2>1
  <2>3. Resolve(k) = Pack(providers[ResolvedAt(k)].doc, k, providers[ResolvedAt(k)].file)
    BY <1>4, <2>2
  <2>4. Resolve(k) # None
    BY <2>1, <2>3 DEF AnswersAt
  <2>5. ResolvedAt(k) \in 0..n
    BY <1>1, <2>1
  <2> QED BY <1>1, <2>1, <2>3, <2>4, <2>5
<1> QED BY <1>5, <1>6

\* A look may read names again; files and documents of the providers stay.
LEMMA RefreshKeeps ==
  ASSUME DiskOK, ProvidersOK, NEW k, RefreshVisited(k)
  PROVE  /\ ProvidersOK' /\ DOMAIN providers' = DOMAIN providers
         /\ \A i \in DOMAIN providers : /\ providers'[i].file = providers[i].file
                                        /\ providers'[i].doc = providers[i].doc
<1> DEFINE n == Len(providers)
<1>1. n \in Nat /\ DOMAIN providers = 1..n /\ providers \in Seq(LoadedEntry)
  BY DEF ProvidersOK
<1>2. providers' = [i \in 1..n |-> IF i < ResolvedAt(k) THEN providers[i]
                                   ELSE Refreshed(providers[i], k)]
  BY <1>1 DEF RefreshVisited
<1>3. ASSUME NEW i \in 1..n
      PROVE  /\ providers'[i] \in LoadedEntry
             /\ providers'[i].file = providers[i].file /\ providers'[i].doc = providers[i].doc
  <2>1. providers[i] \in LoadedEntry
    BY <1>1
  <2> QED BY <1>2, <2>1, RefreshedIs
<1>4. DOMAIN providers' = 1..n
  BY <1>2
<1>5. providers' \in Seq(LoadedEntry)
  <2>1. providers' = [i \in 1..n |-> providers'[i]]
    BY <1>2
  <2> HIDE DEF n
  <2>2. providers' \in [1..n -> LoadedEntry]
    BY <1>3, <2>1
  <2> QED BY <1>1, <2>2
<1>6. InOrder(providers)'
  BY <1>1, <1>3, <1>4 DEF InOrder, ProvidersOK
<1> QED BY <1>1, <1>3, <1>4, <1>5, <1>6 DEF ProvidersOK

LEMMA ResolvePack ==
  ASSUME ProvidersOK, NEW k \in Key, Resolve(k) # None
  PROVE  Resolve(k) \in PackType /\ Resolve(k).origin # Dynamic
<1> DEFINE e == providers[ResolvedAt(k)]
<1>1. ResolvedAt(k) \in DOMAIN providers /\ Resolve(k) = Pack(e.doc, k, e.file)
  BY ResolveIs
<1>2. e \in LoadedEntry
  BY <1>1 DEF ProvidersOK
<1> HIDE DEF e
<1>3. Good(e.doc) /\ e.file \in File /\ e.file # Dynamic
  BY <1>2, EntryParts, ConstantsAssumption
<1>4. k[1] \in DOMAIN e.doc /\ \E j : Names(e.doc, k[1], j, k[2])
  BY <1>1, <1>3, PackOf
<1> QED BY <1>1, <1>3, <1>4, PackFound

\* A look in the files leaves the cache right: what it enters is of a provider.
LEMMA CacheFromFiles ==
  ASSUME StoreInv, NEW k \in Key, RefreshVisited(k), dyn' = dyn,
         cache' = [x \in Key |-> cache'[x]],
         \A x \in Key : \/ cache'[x] \in {cache[x], None}
                        \/ x = k /\ Resolve(k) # None /\ cache'[x] = Resolve(k)
  PROVE  CacheOK'
<1>1. DiskOK /\ ProvidersOK /\ CacheOK
  BY DEF StoreInv
<1>2. /\ DOMAIN providers' = DOMAIN providers
      /\ \A i \in DOMAIN providers : /\ providers'[i].file = providers[i].file
                                     /\ providers'[i].doc = providers[i].doc
  BY <1>1, RefreshKeeps
<1>3. ASSUME NEW x \in Key
      PROVE  /\ cache'[x] \in PackType \cup {None}
             /\ cache'[x] # None =>
                  IF cache'[x].origin = Dynamic
                  THEN /\ dyn[x[1]] # None
                       /\ \A b \in Body : Held(dyn[x[1]], x, b) => Own(cache'[x]) = b
                  ELSE \E i \in DOMAIN providers :
                         cache'[x] = Pack(providers[i].doc, x, providers[i].file)
  <2>1. CASE cache'[x] = None
    BY <2>1
  <2>2. CASE cache'[x] = cache[x] /\ cache[x] # None
    BY <1>1, <2>2 DEF CacheOK
  <2>3. CASE x = k /\ Resolve(k) # None /\ cache'[x] = Resolve(k)
    <3>1. Resolve(k) \in PackType /\ Resolve(k).origin # Dynamic
      BY <1>1, <2>3, ResolvePack
    <3>2. \E i \in DOMAIN providers : Resolve(k) = Pack(providers[i].doc, k, providers[i].file)
      BY <1>1, <2>3, ResolveIs
    <3> QED BY <2>3, <3>1, <3>2
  <2> QED BY <2>1, <2>2, <2>3
<1>4. cache' \in [Key -> PackType \cup {None}]
  BY <1>3
<1>5. ASSUME NEW x \in Key, cache'[x] # None, cache'[x].origin # Dynamic
      PROVE  \E i \in DOMAIN providers' :
               cache'[x] = Pack(providers'[i].doc, x, providers'[i].file)
  BY <1>2, <1>3, <1>5
<1>6. ASSUME NEW x \in Key, cache'[x] # None, cache'[x].origin = Dynamic
      PROVE  /\ dyn'[x[1]] # None
             /\ \A b \in Body : Held(dyn'[x[1]], x, b) => Own(cache'[x]) = b
  BY <1>3, <1>6
<1> QED BY <1>4, <1>5, <1>6, Zenon DEF CacheOK

LEMMA NotGiven ==
  ASSUME StoreInv, NEW k \in Key, FromDynamic(k) = None
  PROVE  given[k] = None
<1> SUFFICES ASSUME given[k] # None PROVE FALSE
  OBVIOUS
<1>1. Held(dyn[k[1]], k, given[k])
  BY DEF StoreInv, GivenOK
<1>2. dyn[k[1]] # None
  BY <1>1 DEF Held, Good, Loads
<1>3. Pack(dyn[k[1]], k, Dynamic) # None
  BY <1>1, HeldPack
<1> QED BY <1>2, <1>3 DEF FromDynamic

\* A step that changes neither what was given nor the dynamic libraries and
\* enters no pack of a profile that was given.
LEMMA GivenStays ==
  ASSUME StoreInv, given' = given, dyn' = dyn, index' = index,
         \A x \in Key : given[x] # None => cache'[x] \in {cache[x], None},
         call'.at # "idle" /\ call'.key \in Key => given[call'.key] = None
  PROVE  GivenOK'
<1>1. GivenOK
  BY DEF StoreInv
<1>2. ASSUME NEW x \in Key, given[x] # None
      PROVE  /\ given[x] \in Body /\ Held(dyn[x[1]], x, given[x]) /\ x \in index
             /\ cache'[x] # None => Own(cache'[x]) = given[x]
  BY <1>1, <1>2 DEF GivenOK
<1> QED BY <1>1, <1>2 DEF GivenOK

-------------------------------------------------------------------------------
(***************************************************************************)
(* Every step keeps the invariant.                                         *)
(***************************************************************************)
LEMMA StoreInit == Init => StoreInv
<1> SUFFICES ASSUME Init PROVE StoreInv
  OBVIOUS
<1> USE DEF Init, Idle
<1>1. DiskOK
  BY DEF DiskOK
<1>2. ProvidersOK /\ InOrder(call.loaded)
  BY DEF ProvidersOK, InOrder
<1>3. CallOK
  <2>1. call = [at |-> "scan", key |-> None, todo |-> {}, loaded |-> << >>]
    OBVIOUS
  <2>2. << >> \in Seq(LoadedEntry)
    OBVIOUS
  <2> QED BY <1>2, <2>1, <2>2 DEF CallOK, AtFile
<1>4. DynOK
  BY DEF DynOK
<1>5. CacheOK
  BY DEF CacheOK
<1>7. GivenOK
  BY DEF GivenOK
<1>8. MadeOK
  BY DEF MadeOK, AtFile
<1>9. updates \in 0..MaxUpdates
  BY ConstantsAssumption
<1> QED BY <1>1, <1>2, <1>3, <1>4, <1>5, <1>7, <1>8, <1>9 DEF StoreInv

LEMMA StepEdit ==
  ASSUME StoreInv, NEW f \in File, NEW doc \in Document \cup {None}, Edit(f, doc)
  PROVE  StoreInv'
<1> USE DEF StoreInv
<1>1. /\ disk' = [disk EXCEPT ![f] = [text |-> doc, time |-> disk[f].time + 1]]
      /\ steady' = steady \ {f} /\ UNCHANGED <<store, call>>
  BY DEF Edit
<1>2. DiskOK'
  <2>1. disk[f].time + 1 \in Nat \ {0}
    BY DEF DiskOK
  <2> QED BY <1>1, <2>1 DEF DiskOK
<1>3. ProvidersOK' /\ CallOK' /\ DynOK' /\ CacheOK' /\ GivenOK' /\ (updates \in 0..MaxUpdates)'
  <2>1. providers' = providers /\ cache' = cache /\ dyn' = dyn /\ index' = index
        /\ given' = given /\ updates' = updates /\ call' = call
    BY <1>1 DEF store
  <2>2. ProvidersOK'
    BY <2>1 DEF ProvidersOK
  <2>3. CallOK'
    BY <2>1 DEF CallOK, Current
  <2>4. DynOK'
    BY <2>1 DEF DynOK
  <2>5. CacheOK'
    BY <2>1, Zenon DEF CacheOK
  <2>6. GivenOK'
    BY <2>1 DEF GivenOK
  <2> QED BY <2>1, <2>2, <2>3, <2>4, <2>5, <2>6
<1>4. MadeOK'
  <2>1. \A g \in steady' : g \in steady /\ disk'[g] = disk[g]
    BY <1>1 DEF DiskOK, MadeOK
  <2>2. providers' = providers /\ call' = call /\ Current' = Current
    BY <1>1 DEF store, Current
  <2>3. \A e, g : g \in steady' => (Made(e, g)' <=> Made(e, g))
    BY <2>1 DEF Made
  <2> QED BY <2>1, <2>2, <2>3 DEF MadeOK
<1> QED BY <1>2, <1>3, <1>4

LEMMA StepFindDynamic ==
  ASSUME StoreInv, NEW k \in Key, FindDynamic(k)
  PROVE  StoreInv'
<1> USE DEF StoreInv
<1>1. /\ FromDynamic(k) # None /\ cache' = [cache EXCEPT ![k] = FromDynamic(k)]
      /\ UNCHANGED <<disk, providers, dyn, index, call, given, steady, updates>>
  BY DEF FindDynamic
<1>2. /\ dyn[k[1]] # None /\ FromDynamic(k) = Pack(dyn[k[1]], k, Dynamic) /\ Good(dyn[k[1]])
  <2>1. k[1] \in Library
    BY DEF Key
  <2> QED BY <1>1, <2>1 DEF FromDynamic, DynOK
<1>3. PICK j : k[1] \in DOMAIN dyn[k[1]] /\ Names(dyn[k[1]], k[1], j, k[2])
  BY <1>1, <1>2, PackOf
<1>4. FromDynamic(k) \in PackType /\ FromDynamic(k).origin = Dynamic
  <2>1. Dynamic \in File \cup {Dynamic}
    OBVIOUS
  <2>2. /\ Pack(dyn[k[1]], k, Dynamic) \in PackType
        /\ Pack(dyn[k[1]], k, Dynamic).origin = Dynamic
    BY <1>2, <1>3, <2>1, PackFound
  <2> QED BY <1>2, <2>2
<1>5. ASSUME NEW b, Held(dyn[k[1]], k, b) PROVE Own(FromDynamic(k)) = b
  BY <1>2, <1>5, HeldPack
<1>6. CacheOK'
  <2>1. cache' \in [Key -> PackType \cup {None}]
    BY <1>1, <1>4 DEF CacheOK
  <2>2. ASSUME NEW x \in Key, cache'[x] # None
        PROVE  IF cache'[x].origin = Dynamic
               THEN /\ dyn[x[1]] # None
                    /\ \A b \in Body : Held(dyn[x[1]], x, b) => Own(cache'[x]) = b
               ELSE \E i \in DOMAIN providers :
                      cache'[x] = Pack(providers[i].doc, x, providers[i].file)
    <3>1. CASE x = k
      <4>1. cache'[x] = FromDynamic(k)
        BY <1>1, <3>1 DEF CacheOK
      <4> QED BY <1>2, <1>4, <1>5, <3>1, <4>1
    <3>2. CASE x # k
      <4>1. cache'[x] = cache[x]
        BY <1>1, <3>2 DEF CacheOK
      <4> QED BY <2>2, <4>1 DEF CacheOK
    <3> QED BY <3>1, <3>2
  <2> QED BY <1>1, <2>1, <2>2, Zenon DEF CacheOK
<1>7. GivenOK'
  <2>1. ASSUME NEW x \in Key, given[x] # None, cache'[x] # None
        PROVE  Own(cache'[x]) = given[x]
    <3>1. Held(dyn[x[1]], x, given[x])
      BY <2>1 DEF GivenOK
    <3>2. x = k => cache'[x] = FromDynamic(k)
      BY <1>1 DEF CacheOK
    <3>3. x # k => cache'[x] = cache[x]
      BY <1>1 DEF CacheOK
    <3> QED BY <1>5, <2>1, <3>1, <3>2, <3>3 DEF GivenOK
  <2> QED BY <1>1, <2>1 DEF GivenOK
<1>8. DiskOK' /\ ProvidersOK' /\ (updates \in 0..MaxUpdates)'
  BY <1>1 DEF DiskOK, ProvidersOK
<1>9. CallOK' /\ DynOK'
  BY <1>1 DEF CallOK, Current, DynOK
<1>10. MadeOK'
  BY <1>1 DEF MadeOK, Current, Made
<1> QED BY <1>6, <1>7, <1>8, <1>9, <1>10

LEMMA StepFindInFiles ==
  ASSUME StoreInv, NEW k \in Key, FindInFiles(k)
  PROVE  StoreInv'
<1> USE DEF StoreInv
<1>1. /\ FromDynamic(k) = None /\ Resolve(k) # None /\ RefreshVisited(k) /\ call.at = "idle"
      /\ cache' = [cache EXCEPT ![k] = Resolve(k)]
      /\ UNCHANGED <<disk, dyn, index, call, given, steady, updates>>
  BY DEF FindInFiles
<1>2. \A x \in Key : cache'[x] = IF x = k THEN Resolve(k) ELSE cache[x]
  BY <1>1 DEF CacheOK
<1>3. ProvidersOK'
  BY <1>1, RefreshKeeps
<1>4. CacheOK'
  <2>1. cache' = [x \in Key |-> cache'[x]]
    BY <1>1 DEF CacheOK
  <2> QED BY <1>1, <1>2, <2>1, CacheFromFiles
<1>5. GivenOK'
  <2>1. given[k] = None
    BY <1>1, NotGiven
  <2>2. \A x \in Key : given[x] # None => cache'[x] \in {cache[x], None}
    BY <1>2, <2>1
  <2> QED BY <1>1, <2>2, GivenStays
<1>6. DiskOK' /\ CallOK' /\ DynOK' /\ (updates \in 0..MaxUpdates)'
  BY <1>1 DEF DiskOK, CallOK, Current, DynOK
<1>7. MadeOK'
  BY <1>1 DEF MadeOK, AtFile
<1> QED BY <1>3, <1>4, <1>5, <1>6, <1>7

LEMMA StepFindMissed ==
  ASSUME StoreInv, NEW k \in Key, FindMissed(k)
  PROVE  StoreInv'
<1> USE DEF StoreInv
<1>1. /\ FromDynamic(k) = None /\ RefreshVisited(k)
      /\ call' = [at |-> "scan", key |-> k, todo |-> {}, loaded |-> << >>]
      /\ steady' = File
      /\ UNCHANGED <<disk, cache, dyn, index, given, updates>>
  BY DEF FindMissed, Idle
<1>2. ProvidersOK'
  BY <1>1, RefreshKeeps
<1>3. CacheOK'
  <2>1. cache' = [x \in Key |-> cache'[x]]
    BY <1>1 DEF CacheOK
  <2> QED BY <1>1, <2>1, CacheFromFiles
<1>4. GivenOK'
  <2>1. given[k] = None
    BY <1>1, NotGiven
  <2> QED BY <1>1, <2>1, GivenStays
<1>5. CallOK'
  <2>1. << >> \in Seq(LoadedEntry)
    OBVIOUS
  <2> QED BY <1>1, <2>1 DEF CallOK, AtFile, InOrder
<1>6. DiskOK' /\ DynOK' /\ (updates \in 0..MaxUpdates)'
  BY <1>1 DEF DiskOK, DynOK
<1>7. MadeOK'
  BY <1>1 DEF MadeOK, AtFile
<1> QED BY <1>2, <1>3, <1>4, <1>5, <1>6, <1>7

\* The steps of the call that reads the directory change only the call.
LEMMA OnlyCall ==
  ASSUME StoreInv, UNCHANGED <<disk, store, steady>>, call'.key = call.key,
         call.at # "idle", CallOK', MadeOK'
  PROVE  StoreInv'
<1>1. providers' = providers /\ cache' = cache /\ dyn' = dyn /\ index' = index
      /\ given' = given /\ updates' = updates /\ disk' = disk
  BY DEF store
<1>2. DiskOK' /\ ProvidersOK' /\ DynOK' /\ (updates \in 0..MaxUpdates)'
  BY <1>1 DEF StoreInv, DiskOK, ProvidersOK, DynOK
<1>3. CacheOK'
  BY <1>1, Zenon DEF StoreInv, CacheOK
<1>4. GivenOK'
  <2>1. call.key \in Key => given[call.key] = None
    BY DEF StoreInv, GivenOK
  <2> QED BY <1>1, <2>1, GivenStays
<1> QED BY <1>2, <1>3, <1>4 DEF StoreInv

LEMMA StepScanDir == ASSUME StoreInv, ScanDir PROVE StoreInv'
<1>1. /\ call.at = "scan"
      /\ call' = [call EXCEPT !.at = "load", !.todo = {f \in File : disk[f].text # None}]
      /\ UNCHANGED <<disk, store, steady>>
  BY DEF ScanDir
<1>2. /\ CallOK /\ MadeOK /\ DiskOK
  BY DEF StoreInv
<1>3. /\ call'.at = "load" /\ call'.todo = {f \in File : disk[f].text # None}
      /\ call'.key = call.key /\ call'.loaded = << >>
      /\ call' \in [at : {"idle", "scan", "load", "retry"} \cup AtFile, key : Key \cup {None},
                    todo : SUBSET File, loaded : Seq(LoadedEntry)]
  BY <1>1, <1>2 DEF CallOK
<1>4. CallOK'
  BY <1>3 DEF CallOK, AtFile, InOrder
<1>5. MadeOK'
  <2>1. \A f \in steady : Loads(disk[f].text) => f \in call'.todo
    BY <1>2, <1>3 DEF MadeOK, Loads
  <2> QED BY <1>1, <1>2, <1>3, <2>1 DEF MadeOK, AtFile
<1> QED BY <1>1, <1>3, <1>4, <1>5, OnlyCall

CallType == [at : {"idle", "scan", "load", "retry"} \cup AtFile, key : Key \cup {None},
             todo : SUBSET File, loaded : Seq(LoadedEntry)]

LEMMA StepLoadProvider == ASSUME StoreInv, LoadProvider PROVE StoreInv'
<1> DEFINE f == Current
           doc == disk[f].text
           entry == [file |-> f, doc |-> doc, text |-> None, names |-> {}, time |-> 0]
           n == Len(call.loaded)
<1>1. /\ call.at = "load" /\ call.todo # {} /\ UNCHANGED <<disk, store, steady>>
      /\ call' = IF Loads(doc)
                 THEN [call EXCEPT !.at = "text", !.loaded = Append(call.loaded, entry)]
                 ELSE [call EXCEPT !.todo = call.todo \ {f}]
  BY DEF LoadProvider, Load
<1>2. CallOK /\ MadeOK /\ DiskOK
  BY DEF StoreInv
<1>3. /\ call \in CallType /\ call.loaded \in Seq(LoadedEntry) /\ n \in Nat
      /\ DOMAIN call.loaded = 1..n /\ call.todo \in SUBSET File
  BY <1>2 DEF CallOK, CallType
<1>4. /\ f \in call.todo
      /\ \A g \in call.todo : /\ Rank(f) <= Rank(g) /\ (g # f => Rank(f) < Rank(g))
  <2>1. First(call.todo) \in call.todo
    BY <1>1, <1>3, FirstIs
  <2>2. \A g \in call.todo : /\ Rank(First(call.todo)) <= Rank(g)
                             /\ g # First(call.todo) => Rank(First(call.todo)) < Rank(g)
    BY <1>1, <1>3, FirstIs
  <2> QED BY <2>1, <2>2 DEF Current
<1>5. \A i \in 1..n, g \in call.todo : Rank(call.loaded[i].file) < Rank(g)
  BY <1>1, <1>2, <1>3 DEF CallOK, AtFile
<1>6. CASE Loads(doc)
  <2>1. entry \in LoadedEntry
    <3>1. doc \in Document
      <4>1. disk[f] \in [text : Document \cup {None}, time : Nat \ {0}]
        BY <1>2, <1>3, <1>4 DEF DiskOK
      <4> HIDE DEF f
      <4> QED BY <1>6, <4>1 DEF Loads
    <3>2. f \in File
      BY <1>3, <1>4
    <3> HIDE DEF doc, f
    <3> QED BY <1>6, <3>1, <3>2 DEF LoadedEntry
  <2>2. entry.file = f /\ entry.doc = doc
    OBVIOUS
  <2> HIDE DEF entry, doc
  <2>3. /\ call' \in CallType /\ call'.at = "text" /\ call'.key = call.key
        /\ call'.todo = call.todo /\ call'.loaded = Append(call.loaded, entry)
    <3> DEFINE es == Append(call.loaded, entry)
    <3>1. es \in Seq(LoadedEntry)
      BY <1>3, <2>1
    <3>2. call' = [call EXCEPT !.at = "text", !.loaded = es]
      BY <1>1, <1>6
    <3> HIDE DEF es
    <3>3. /\ call' \in CallType /\ call'.at = "text" /\ call'.key = call.key
          /\ call'.todo = call.todo /\ call'.loaded = es
      BY <1>3, <3>1, <3>2 DEF CallType, AtFile
    <3> QED BY <3>3 DEF es
  <2>4. /\ Len(call'.loaded) = n + 1 /\ DOMAIN call'.loaded = 1..(n + 1)
        /\ call'.loaded[n + 1] = entry
        /\ \A i \in 1..n : call'.loaded[i] = call.loaded[i]
    BY <1>3, <2>1, <2>3
  <2>5. Current' = f
    BY <2>3 DEF Current
  <2> HIDE DEF n, f
  <2>6. ASSUME NEW i \in 1..(n + 1), NEW j \in 1..(n + 1), i < j
        PROVE  Rank(call'.loaded[i].file) < Rank(call'.loaded[j].file)
    <3>1. i \in 1..n
      BY <1>3, <2>6
    <3>2. CASE j = n + 1
      BY <1>4, <1>5, <2>2, <2>4, <3>1, <3>2
    <3>3. CASE j \in 1..n
      BY <1>2, <1>3, <2>4, <2>6, <3>1, <3>3 DEF CallOK, InOrder
    <3> QED BY <1>3, <3>2, <3>3
  <2>7. ASSUME NEW i \in 1..(n + 1), NEW g \in call.todo
        PROVE  Rank(call'.loaded[i].file) <= Rank(g)
    <3>1. CASE i = n + 1
      BY <1>4, <2>2, <2>4, <3>1
    <3>2. CASE i \in 1..n
      BY <1>2, <1>3, <2>4, <3>2 DEF CallOK
    <3> QED BY <1>3, <3>1, <3>2
  <2>8. CallOK'
    <3>1. InOrder(call.loaded)'
      BY <2>4, <2>6 DEF InOrder
    <3>2. call'.loaded # << >> /\ call'.todo # {}
      BY <1>1, <1>3, <2>1, <2>3
    <3> QED BY <2>2, <2>3, <2>4, <2>5, <2>7, <3>1, <3>2 DEF CallOK, CallType, AtFile
  <2>9. MadeOK'
    <3>1. ASSUME NEW g \in steady, Loads(disk[g].text)
          PROVE  g \in call'.todo \/ \E i \in DOMAIN call'.loaded : Made(call'.loaded[i], g)
      <4>1. CASE g \in call.todo
        BY <2>3, <4>1
      <4>2. CASE \E i \in 1..n : Made(call.loaded[i], g)
        <5>1. PICK i \in 1..n : Made(call.loaded[i], g)
          BY <4>2
        <5>2. i \in DOMAIN call'.loaded /\ Made(call'.loaded[i], g)
          BY <1>3, <2>4, <5>1
        <5> QED BY <5>2
      <4> QED BY <1>1, <1>2, <1>3, <3>1, <4>1, <4>2 DEF MadeOK
    <3>2. call'.loaded[Len(call'.loaded)].doc = disk[f].text
      BY <2>2, <2>4 DEF doc
    <3>3. \A g, e : Made(e, g)' <=> Made(e', g)
      BY <1>1 DEF Made
    <3> QED BY <1>1, <1>2, <2>3, <2>5, <3>1, <3>2, <3>3 DEF MadeOK, AtFile, Made
  <2> QED BY <1>1, <2>3, <2>8, <2>9, OnlyCall
<1>7. CASE ~Loads(doc)
  <2>1. /\ call' \in CallType /\ call'.at = "load" /\ call'.key = call.key
        /\ call'.todo = call.todo \ {f} /\ call'.loaded = call.loaded
    BY <1>1, <1>3, <1>7 DEF CallType, AtFile
  <2> HIDE DEF n
  <2>2. CallOK'
    BY <1>2, <1>3, <1>5, <2>1 DEF CallOK, CallType, AtFile
  <2>3. MadeOK'
    <3>1. ASSUME NEW g \in steady, Loads(disk[g].text)
          PROVE  g \in call'.todo \/ \E i \in DOMAIN call'.loaded : Made(call'.loaded[i], g)
      <4>1. g # f
        BY <1>7, <3>1
      <4> QED BY <1>1, <1>2, <2>1, <3>1, <4>1 DEF MadeOK
    <3> HIDE DEF f, doc
    <3> QED BY <1>1, <1>2, <2>1, <3>1 DEF MadeOK, AtFile, Made
  <2> QED BY <1>1, <2>1, <2>2, <2>3, OnlyCall
<1> QED BY <1>6, <1>7

\* A step that completes the entry of the file at hand.
Completed(es) ==
  /\ es \in Seq(LoadedEntry) /\ Len(es) = Len(call.loaded)
  /\ \A i \in DOMAIN call.loaded : /\ es[i].file = call.loaded[i].file
                                   /\ i # Len(call.loaded) => es[i] = call.loaded[i]

LEMMA Completes ==
  ASSUME StoreInv, call.at \in AtFile, UNCHANGED <<disk, store, steady>>,
         NEW es, Completed(es), NEW at \in AtFile \cup {"load"},
         NEW todo, todo = IF at = "load" THEN call.todo \ {Current} ELSE call.todo,
         call' = [call EXCEPT !.at = at, !.todo = todo, !.loaded = es],
         Current \in steady => /\ es[Len(es)].doc = call.loaded[Len(es)].doc
                               /\ at \in {"time", "load"} =>
                                    es[Len(es)].names = ParseProfiles(disk[Current].text)
  PROVE  StoreInv'
<1> DEFINE n == Len(es)
<1>1. CallOK /\ MadeOK
  BY DEF StoreInv
<1>2. /\ call \in CallType /\ call.loaded \in Seq(LoadedEntry) /\ n \in Nat \ {0}
      /\ n = Len(call.loaded) /\ DOMAIN call.loaded = 1..n /\ DOMAIN es = 1..n
      /\ call.todo \in SUBSET File /\ call.todo # {}
      /\ call.loaded[n].file = Current
  BY <1>1 DEF CallOK, CallType, Completed
<1>3. /\ Current \in call.todo
      /\ \A g \in call.todo : g # Current => Rank(Current) < Rank(g)
  <2>1. First(call.todo) \in call.todo
    BY <1>2, FirstIs
  <2>2. \A g \in call.todo : g # First(call.todo) => Rank(First(call.todo)) < Rank(g)
    BY <1>2, FirstIs
  <2> QED BY <2>1, <2>2 DEF Current
<1>4. /\ call' \in CallType /\ call'.at = at /\ call'.key = call.key
      /\ call'.todo = todo /\ call'.loaded = es
  <2>1. todo \in SUBSET File
    BY <1>2
  <2> QED BY <1>2, <2>1 DEF CallType, Completed, AtFile
<1>5. \A i \in 1..n : /\ es[i].file = call.loaded[i].file /\ es[i].file \in File
                      /\ i # n => es[i] = call.loaded[i]
  <2>1. ASSUME NEW i \in 1..n PROVE es[i].file \in File
    <3>1. es[i] \in LoadedEntry
      BY <1>2 DEF Completed
    <3> QED BY <3>1, EntryParts
  <2> QED BY <1>2, <2>1 DEF Completed
<1> HIDE DEF n
<1>6. ASSUME NEW i \in 1..n, NEW g \in todo
      PROVE  /\ Rank(es[i].file) <= Rank(g)
             /\ at = "load" => Rank(es[i].file) < Rank(g)
  <2>1. Rank(es[i].file) <= Rank(Current) /\ Rank(es[i].file) <= Rank(g)
    BY <1>1, <1>2, <1>3, <1>5 DEF CallOK
  <2>2. Rank(es[i].file) \in Nat /\ Rank(Current) \in Nat /\ Rank(g) \in Nat
    BY <1>2, <1>3, <1>5, RankIs
  <2>3. at = "load" => Rank(Current) < Rank(g)
    BY <1>3
  <2> QED BY <2>1, <2>2, <2>3
<1>7. CallOK'
  <2>1. InOrder(call.loaded)'
    BY <1>1, <1>2, <1>4, <1>5 DEF CallOK, InOrder
  <2>2. at \in AtFile => todo = call.todo /\ Current' = Current
    BY <1>4 DEF AtFile, Current
  <2>3. es # << >> /\ n \in 1..n
    BY <1>2 DEF n
  <2> QED BY <1>2, <1>4, <1>5, <1>6, <2>1, <2>2, <2>3 DEF CallOK, CallType, AtFile, n
<1>8. MadeOK'
  <2>1. steady' = steady /\ disk' = disk /\ steady \subseteq File
    BY <1>1 DEF MadeOK
  <2>2. ASSUME NEW g \in steady, Loads(disk[g].text)
        PROVE  g \in todo \/ \E i \in 1..n : Made(es[i], g)
    <3>1. CASE g \in call.todo /\ (g # Current \/ at # "load")
      BY <3>1
    <3>2. CASE g = Current /\ at = "load"
      <4>1. call.loaded[n].doc = disk[Current].text
        BY <1>1, <1>2, <2>2, <3>2 DEF MadeOK
      <4>2. Made(es[n], g)
        BY <1>2, <1>5, <2>2, <3>2, <4>1 DEF Made, n
      <4> QED BY <1>2, <4>2
    <3>3. CASE g \notin call.todo
      <4>1. PICK i \in 1..n : Made(call.loaded[i], g)
        BY <1>1, <1>2, <2>2, <3>3 DEF MadeOK
      <4>2. CASE i # n
        BY <1>5, <4>1, <4>2
      <4>3. CASE i = n
        BY <1>2, <1>3, <3>3, <4>1, <4>3 DEF Made
      <4> QED BY <4>2, <4>3
    <3> QED BY <3>1, <3>2, <3>3
  <2>3. ASSUME at \in AtFile, Current \in steady
        PROVE  /\ Current' = Current /\ es[n].doc = disk[Current].text
               /\ at = "time" => es[n].names = ParseProfiles(disk[Current].text)
    <3>1. call.loaded[n].doc = disk[Current].text
      BY <1>1, <1>2, <2>3 DEF MadeOK
    <3>2. Current' = Current
      BY <1>4, <2>3 DEF AtFile, Current
    <3> QED BY <2>3, <3>1, <3>2 DEF n
  <2>4. at \in AtFile => Current' = Current
    BY <1>4 DEF AtFile, Current
  <2>5. \A e, g : Made(e, g)' <=> Made(e', g)
    BY <2>1 DEF Made
  <2> QED BY <1>2, <1>4, <2>1, <2>2, <2>3, <2>4 DEF MadeOK, AtFile, Made, n
<1> QED BY <1>4, <1>7, <1>8, OnlyCall DEF AtFile

LEMMA CompletedBy ==
  ASSUME StoreInv, call.at \in AtFile, NEW r \in LoadedEntry,
         r.file = call.loaded[Len(call.loaded)].file,
         NEW es, es = [call.loaded EXCEPT ![Len(call.loaded)] = r]
  PROVE  Completed(es) /\ Len(es) = Len(call.loaded) /\ es[Len(es)] = r
<1> DEFINE n == Len(call.loaded)
<1>1. call.loaded \in Seq(LoadedEntry) /\ n \in Nat \ {0} /\ DOMAIN call.loaded = 1..n
  BY DEF StoreInv, CallOK
<1>2. n \in 1..n
  BY <1>1
<1>3. /\ DOMAIN es = 1..n /\ es[n] = r
      /\ \A i \in 1..n : i # n => es[i] = call.loaded[i]
  BY <1>1, <1>2
<1>4. es \in Seq(LoadedEntry) /\ Len(es) = n
  <2> HIDE DEF n
  <2>1. es = [i \in 1..n |-> es[i]]
    BY <1>1 DEF n
  <2>2. \A i \in 1..n : es[i] \in LoadedEntry
    BY <1>1, <1>3
  <2>3. es \in [1..n -> LoadedEntry]
    BY <2>1, <2>2
  <2> QED BY <1>1, <2>3
<1> QED BY <1>1, <1>3, <1>4 DEF Completed

\* The file at hand, as it is now, and the entry being made of it.
LEMMA AtHand ==
  ASSUME StoreInv, call.at \in AtFile
  PROVE  /\ Current \in File /\ Current \in call.todo
         /\ disk[Current].text \in Document \cup {None} /\ disk[Current].time \in Nat
         /\ Len(call.loaded) \in DOMAIN call.loaded
         /\ call.loaded[Len(call.loaded)] \in LoadedEntry
         /\ call = [at |-> call.at, key |-> call.key, todo |-> call.todo, loaded |-> call.loaded]
<1>1. CallOK /\ DiskOK
  BY DEF StoreInv
<1>2. call.todo \in SUBSET File /\ call.todo # {} /\ call \in CallType
  BY <1>1 DEF CallOK, CallType
<1>3. Current \in call.todo
  BY <1>2, FirstIs DEF Current
<1>4. disk[Current] \in [text : Document \cup {None}, time : Nat \ {0}]
  BY <1>1, <1>2, <1>3 DEF DiskOK
<1>5. call.loaded \in Seq(LoadedEntry) /\ call.loaded # << >>
  BY <1>1 DEF CallOK
<1>6. Len(call.loaded) \in DOMAIN call.loaded /\ call.loaded[Len(call.loaded)] \in LoadedEntry
  BY <1>5
<1>7. call = [at |-> call.at, key |-> call.key, todo |-> call.todo, loaded |-> call.loaded]
  BY <1>2 DEF CallType
<1> QED BY <1>2, <1>3, <1>4, <1>6, <1>7

LEMMA StepLoadText == ASSUME StoreInv, LoadText PROVE StoreInv'
<1> DEFINE n == Len(call.loaded)
           v == disk[Current].text
           e == call.loaded[n]
           r == [e EXCEPT !.text = v]
           es == [call.loaded EXCEPT ![n] = r]
<1>1. /\ call.at = "text" /\ UNCHANGED <<disk, store, steady>>
      /\ call' = [call EXCEPT !.at = "names", !.loaded = [call.loaded EXCEPT ![n].text = v]]
  BY DEF LoadText
<1>2. call.at \in AtFile
  BY <1>1 DEF AtFile
<1>3. e \in LoadedEntry /\ v \in Document \cup {None} /\ n \in DOMAIN call.loaded
      /\ call = [at |-> call.at, key |-> call.key, todo |-> call.todo, loaded |-> call.loaded]
  BY <1>2, AtHand
<1>4. r \in LoadedEntry /\ r.file = e.file /\ r.doc = e.doc
  <2> HIDE DEF v, e
  <2> QED BY <1>3 DEF LoadedEntry
<1>5. call' = [call EXCEPT !.at = "names", !.loaded = es]
  BY <1>1
<1> HIDE DEF v, r
<1>6. Completed(es) /\ Len(es) = n /\ es[Len(es)] = r
  <2> HIDE DEF es
  <2>1. es = [call.loaded EXCEPT ![Len(call.loaded)] = r]
    BY DEF es
  <2> QED BY <1>2, <1>4, <2>1, CompletedBy
<1> HIDE DEF es
<1>7. call' = [call EXCEPT !.at = "names", !.todo = call.todo, !.loaded = es]
  BY <1>3, <1>5
<1>8. es[Len(es)].doc = call.loaded[Len(es)].doc
  BY <1>4, <1>6
<1>9. "names" \in AtFile \cup {"load"} /\ "names" \notin {"time", "load"}
  BY DEF AtFile
<1> QED BY <1>1, <1>2, <1>6, <1>7, <1>8, <1>9, Completes

LEMMA StepLoadNames == ASSUME StoreInv, LoadNames PROVE StoreInv'
<1> DEFINE n == Len(call.loaded)
           v == ParseProfiles(disk[Current].text)
           e == call.loaded[n]
           r == [e EXCEPT !.names = v]
           es == [call.loaded EXCEPT ![n] = r]
<1>1. /\ call.at = "names" /\ UNCHANGED <<disk, store, steady>>
      /\ call' = [call EXCEPT !.at = "time", !.loaded = [call.loaded EXCEPT ![n].names = v]]
  BY DEF LoadNames
<1>2. call.at \in AtFile
  BY <1>1 DEF AtFile
<1>3. e \in LoadedEntry /\ n \in DOMAIN call.loaded
      /\ call = [at |-> call.at, key |-> call.key, todo |-> call.todo, loaded |-> call.loaded]
  BY <1>2, AtHand
<1>a. v \in SUBSET Key
  <2>1. disk[Current].text \in Document \cup {None}
    BY <1>2, AtHand
  <2>2. ParseProfiles(None) = {}
    BY DEF ParseProfiles
  <2> QED BY <2>1, <2>2, DocumentType
<1>4. r \in LoadedEntry /\ r.file = e.file /\ r.doc = e.doc /\ r.names = v
  <2> HIDE DEF v, e
  <2> QED BY <1>3, <1>a DEF LoadedEntry
<1>5. call' = [call EXCEPT !.at = "time", !.loaded = es]
  BY <1>1
<1> HIDE DEF v, r
<1>6. Completed(es) /\ Len(es) = n /\ es[Len(es)] = r
  <2> HIDE DEF es
  <2>1. es = [call.loaded EXCEPT ![Len(call.loaded)] = r]
    BY DEF es
  <2> QED BY <1>2, <1>4, <2>1, CompletedBy
<1> HIDE DEF es
<1>7. call' = [call EXCEPT !.at = "time", !.todo = call.todo, !.loaded = es]
  BY <1>3, <1>5
<1>8. es[Len(es)].doc = call.loaded[Len(es)].doc
      /\ es[Len(es)].names = ParseProfiles(disk[Current].text)
  BY <1>4, <1>6 DEF v
<1>9. "time" \in AtFile \cup {"load"} /\ "time" # "load"
  BY DEF AtFile
<1> QED BY <1>1, <1>2, <1>6, <1>7, <1>8, <1>9, Completes

LEMMA StepLoadTime == ASSUME StoreInv, LoadTime PROVE StoreInv'
<1> DEFINE n == Len(call.loaded)
           f == disk[Current]
           v == IF f.text = None THEN 0 ELSE f.time
           e == call.loaded[n]
           r == [e EXCEPT !.time = v]
           es == [call.loaded EXCEPT ![n] = r]
           todo == call.todo \ {Current}
<1>1. /\ call.at = "time" /\ UNCHANGED <<disk, store, steady>>
      /\ call' = [call EXCEPT !.at = "load", !.todo = todo,
                              !.loaded = [call.loaded EXCEPT ![n].time = v]]
  BY DEF LoadTime
<1>2. call.at \in AtFile
  BY <1>1 DEF AtFile
<1>3. e \in LoadedEntry /\ v \in Nat /\ n \in DOMAIN call.loaded
  BY <1>2, AtHand
<1>4. r \in LoadedEntry /\ r.file = e.file /\ r.doc = e.doc /\ r.names = e.names
  <2> HIDE DEF v, e
  <2> QED BY <1>3 DEF LoadedEntry
<1>5. call' = [call EXCEPT !.at = "load", !.todo = todo, !.loaded = es]
  BY <1>1
<1> HIDE DEF v, r
<1>6. Completed(es) /\ Len(es) = n /\ es[Len(es)] = r
  <2> HIDE DEF es
  <2>1. es = [call.loaded EXCEPT ![Len(call.loaded)] = r]
    BY DEF es
  <2> QED BY <1>2, <1>4, <2>1, CompletedBy
<1> HIDE DEF es
<1>7. Current \in steady => e.names = ParseProfiles(disk[Current].text)
  BY <1>1, <1>2 DEF StoreInv, MadeOK
<1>8. Current \in steady => /\ es[Len(es)].doc = call.loaded[Len(es)].doc
                            /\ es[Len(es)].names = ParseProfiles(disk[Current].text)
  BY <1>4, <1>6, <1>7
<1>9. "load" \in AtFile \cup {"load"} /\ todo = IF "load" = "load" THEN call.todo \ {Current} ELSE call.todo
  OBVIOUS
<1> HIDE DEF todo
<1> QED BY <1>1, <1>2, <1>5, <1>6, <1>8, <1>9, Completes

LEMMA StepInstall == ASSUME StoreInv, Install PROVE StoreInv'
<1>1. /\ call.at = "load" /\ call.todo = {} /\ providers' = call.loaded
      /\ call' = IF call.key = None THEN [at |-> "idle", key |-> None, todo |-> {}, loaded |-> << >>]
                 ELSE [at |-> "retry", key |-> call.key, todo |-> {}, loaded |-> << >>]
      /\ cache' = [k \in Key |-> None]
      /\ UNCHANGED <<disk, dyn, index, given, steady, updates>>
  <2>1. /\ call.key = None => call' = Idle
        /\ call.key # None => call' = [Idle EXCEPT !.at = "retry", !.key = call.key]
    BY DEF Install, Exchange
  <2>2. CASE call.key = None
    BY <2>1, <2>2 DEF Install, Exchange, Idle
  <2>3. CASE call.key # None
    <3>1. call' = [at |-> "retry", key |-> call.key, todo |-> {}, loaded |-> << >>]
      BY <2>1, <2>3 DEF Idle
    <3> QED BY <2>3, <3>1 DEF Install, Exchange
  <2> QED BY <2>2, <2>3
<1>2. CallOK /\ MadeOK /\ GivenOK
  BY DEF StoreInv
<1>3. ProvidersOK'
  BY <1>1, <1>2 DEF ProvidersOK, CallOK
<1>4. /\ call' \in CallType /\ call'.at \in {"idle", "retry"}
      /\ call'.todo = {} /\ call'.loaded = << >>
      /\ call'.at = "retry" => call'.key = call.key /\ call.key \in Key
  <2>1. call.key \in Key \cup {None} /\ << >> \in Seq(LoadedEntry)
    BY <1>2 DEF CallOK
  <2>2. CASE call.key = None
    BY <1>1, <2>1, <2>2 DEF CallType, AtFile
  <2>3. CASE call.key # None
    BY <1>1, <2>1, <2>3 DEF CallType, AtFile
  <2> QED BY <2>2, <2>3
<1>5. CallOK'
  BY <1>4 DEF CallOK, CallType, AtFile, InOrder
<1>6. CacheOK'
  BY <1>1 DEF CacheOK
<1>7. GivenOK'
  <2>1. call'.at # "idle" => given[call'.key] = None
    BY <1>1, <1>2, <1>4 DEF GivenOK
  <2>2. \A x \in Key : cache'[x] = None
    BY <1>1
  <2> QED BY <1>1, <2>1, <2>2, GivenStays
<1>8. MadeOK'
  <2>1. \A f \in steady : Loads(disk[f].text) => \E i \in DOMAIN providers' : Made(providers'[i], f)
    BY <1>1, <1>2 DEF MadeOK, AtFile
  <2> QED BY <1>1, <1>2, <1>4, <2>1 DEF MadeOK, AtFile, Made
<1>9. DiskOK' /\ DynOK' /\ (updates \in 0..MaxUpdates)'
  BY <1>1 DEF StoreInv, DiskOK, DynOK
<1> QED BY <1>3, <1>5, <1>6, <1>7, <1>8, <1>9 DEF StoreInv

\* The second look ends the call.
LEMMA CallEnds ==
  ASSUME StoreInv, NEW k \in Key, RefreshVisited(k), call' = Idle, steady' = {},
         UNCHANGED <<disk, dyn, index, given, updates>>,
         cache' = [x \in Key |-> cache'[x]],
         \A x \in Key : \/ cache'[x] \in {cache[x], None}
                        \/ x = k /\ Resolve(k) # None /\ cache'[x] = Resolve(k),
         given[k] = None
  PROVE  StoreInv'
<1>1. call' = [at |-> "idle", key |-> None, todo |-> {}, loaded |-> << >>]
  BY DEF Idle
<1>2. ProvidersOK'
  BY RefreshKeeps DEF StoreInv
<1>3. CallOK'
  <2>1. << >> \in Seq(LoadedEntry)
    OBVIOUS
  <2> QED BY <1>1, <2>1 DEF CallOK, AtFile, InOrder
<1>4. CacheOK'
  BY CacheFromFiles
<1>5. GivenOK'
  BY <1>1, GivenStays
<1>6. MadeOK'
  BY <1>1 DEF MadeOK, AtFile
<1>7. DiskOK' /\ DynOK' /\ (updates \in 0..MaxUpdates)'
  BY DEF StoreInv, DiskOK, DynOK
<1> QED BY <1>2, <1>3, <1>4, <1>5, <1>6, <1>7 DEF StoreInv

LEMMA StepRetry == ASSUME StoreInv, RetryHit \/ RetryMiss PROVE StoreInv'
<1>1. call.at = "retry" /\ call.key \in Key /\ given[call.key] = None
  BY DEF StoreInv, CallOK, GivenOK, RetryHit, RetryMiss
<1>2. CASE RetryHit
  <2> DEFINE k == call.key
  <2>1. /\ Resolve(k) # None /\ RefreshVisited(k)
        /\ cache' = [x \in Key |-> IF x = k THEN Resolve(k) ELSE None]
        /\ call' = Idle /\ steady' = {} /\ UNCHANGED <<disk, dyn, index, given, updates>>
    BY <1>2 DEF RetryHit
  <2> HIDE DEF k
  <2>2. k \in Key /\ given[k] = None
    BY <1>1 DEF k
  <2>3. cache' = [x \in Key |-> cache'[x]]
    BY <2>1
  <2>4. \A x \in Key : \/ cache'[x] \in {cache[x], None}
                       \/ x = k /\ Resolve(k) # None /\ cache'[x] = Resolve(k)
    BY <2>1
  <2> QED BY <2>1, <2>2, <2>3, <2>4, CallEnds
<1>3. CASE RetryMiss
  <2> DEFINE k == call.key
  <2>1. /\ RefreshVisited(k) /\ call' = Idle /\ steady' = {}
        /\ UNCHANGED <<disk, cache, dyn, index, given, updates>>
    BY <1>3 DEF RetryMiss
  <2> HIDE DEF k
  <2>2. k \in Key /\ given[k] = None
    BY <1>1 DEF k
  <2>3. cache' = [x \in Key |-> cache'[x]]
    BY <2>1 DEF StoreInv, CacheOK
  <2>4. \A x \in Key : cache'[x] \in {cache[x], None}
    BY <2>1
  <2> QED BY <2>1, <2>2, <2>3, <2>4, CallEnds
<1> QED BY <1>2, <1>3

LEMMA BaseTextIs ==
  ASSUME StoreInv, NEW l \in Library
  PROVE  /\ IsText(BaseText(l)) /\ l \in DOMAIN BaseText(l)
         /\ dyn[l] # None => BaseText(l) = dyn[l] /\ Good(dyn[l])
<1> DEFINE n == Len(providers)
           I == {i \in 1..n : providers[i].text # None /\ l \in DOMAIN providers[i].text}
           at == IF I # {} THEN Min(I) ELSE 0
<1>1. BaseText(l) = IF dyn[l] # None THEN dyn[l]
                    ELSE IF at # 0 THEN providers[at].text ELSE Template(l)
  BY DEF BaseText, SelectInSeq
<1>2. CASE dyn[l] # None
  BY <1>1, <1>2 DEF StoreInv, DynOK, Good
<1>3. CASE dyn[l] = None /\ at # 0
  <2>1. I \in SUBSET (1..n) /\ n \in Nat /\ providers \in Seq(LoadedEntry)
    BY DEF StoreInv, ProvidersOK
  <2>2. I # {}
    BY <1>3
  <2>3. at \in I
    <3>1. Min(I) \in I
      <4> HIDE DEF I, n
      <4> QED BY <2>1, <2>2, MinOfPositions
    <3> QED BY <2>2, <3>1
  <2> HIDE DEF at
  <2>4. providers[at] \in LoadedEntry /\ providers[at].text # None /\ l \in DOMAIN providers[at].text
    BY <2>1, <2>3
  <2>5. providers[at].text \in Document
    BY <2>4, EntryParts
  <2> QED BY <1>1, <1>3, <2>4, <2>5, DocumentType
<1>4. CASE dyn[l] = None /\ at = 0
  <2>1. BaseText(l) = [x \in {l} |-> << >>]
    BY <1>1, <1>4 DEF Template
  <2>2. << >> \in Seq(Tag)
    OBVIOUS
  <2> QED BY <1>4, <2>1, <2>2 DEF IsText
<1> QED BY <1>2, <1>3, <1>4

LEMMA StepUpdate ==
  ASSUME StoreInv, NEW k \in Key, NEW snippet \in Snippet, Update(k, snippet)
  PROVE  StoreInv'
<1> DEFINE l == k[1]
           base == BaseText(l)
           new == MergeProfile(base, l, k[2], snippet)
<1>1. /\ call.at = "idle" /\ updates < MaxUpdates /\ Loads(new)
      /\ dyn' = [dyn EXCEPT ![l] = new]
      /\ given' = [given EXCEPT ![k] = IF WellOrdered(snippet) THEN snippet.body ELSE given[k]]
      /\ updates' = updates + 1
      /\ index' = index \cup {k}
      /\ cache' = [cache EXCEPT ![k] = None]
      /\ UNCHANGED <<disk, providers, call, steady>>
  BY DEF Update, Write
<1>2. l \in Library /\ k[2] \in Profile
  BY DEF Key
<1>3. IsText(base) /\ l \in DOMAIN base
  BY <1>2, BaseTextIs
<1>4. dyn[l] # None => base = dyn[l] /\ Good(dyn[l])
  BY <1>2, BaseTextIs
<1>5. snippet # None /\ snippet \in Tag
  <2>1. new # None
    BY <1>1 DEF Loads
  <2>2. snippet # None
    BY <2>1 DEF MergeProfile
  <2> QED BY <2>2, ConstantsAssumption
<1>6. new = MergeProfile(base, k[1], k[2], snippet)
  OBVIOUS
<1> HIDE DEF new, base
<1>7. IsText(new) /\ DOMAIN new = DOMAIN base /\ new # None
  BY <1>1, <1>2, <1>3, <1>5, <1>6, MergeIs DEF Loads
<1>8. Good(new) /\ l \in DOMAIN new
  BY <1>1, <1>3, <1>7 DEF Good
<1>9. WellOrdered(snippet) => Held(new, k, snippet.body)
  BY <1>1, <1>3, <1>5, <1>6, MergeHolds
\* What the library held under another key it holds, and no more.
<1>10. ASSUME NEW x \in Key, x # k, x[1] = l, dyn[l] # None, NEW b
       PROVE  Held(dyn[l], x, b) <=> Held(new, x, b)
  <2>1. Good(dyn[l]) /\ base = dyn[l] /\ k[1] \in DOMAIN base
    BY <1>3, <1>4, <1>10
  <2> QED BY <1>1, <1>5, <1>6, <1>10, <2>1, MergeKeeps
<1>11. \A x \in Key : x[1] \in Library
  BY DEF Key
<1>12. \A m \in Library : dyn'[m] = IF m = l THEN new ELSE dyn[m]
  BY <1>1, <1>2 DEF StoreInv, DynOK
<1>13. \A x \in Key : cache'[x] = IF x = k THEN None ELSE cache[x]
  BY <1>1 DEF StoreInv, CacheOK
<1> HIDE DEF l
<1>14. DynOK'
  <2>1. dyn' = [m \in Library |-> dyn'[m]]
    BY <1>1 DEF StoreInv, DynOK
  <2>2. ASSUME NEW m \in Library PROVE dyn'[m] = None \/ (Good(dyn'[m]) /\ m \in DOMAIN dyn'[m])
    <3>1. CASE m = l
      BY <1>8, <1>12, <3>1
    <3>2. CASE m # l
      BY <1>12, <3>2 DEF StoreInv, DynOK
    <3> QED BY <3>1, <3>2
  <2>3. ASSUME NEW x \in index' PROVE x \in Key /\ dyn'[x[1]] # None
    <3>1. x \in Key /\ (x = k \/ dyn[x[1]] # None)
      BY <1>1 DEF StoreInv, DynOK
    <3>2. x = k => x[1] = l
      BY DEF l
    <3> QED BY <1>7, <1>11, <1>12, <3>1, <3>2
  <2> QED BY <2>1, <2>2, <2>3 DEF DynOK
<1>15. CacheOK'
  <2>1. cache' \in [Key -> PackType \cup {None}]
    BY <1>1 DEF StoreInv, CacheOK
  <2>2. ASSUME NEW x \in Key, cache'[x] # None
        PROVE  IF cache'[x].origin = Dynamic
               THEN /\ dyn'[x[1]] # None
                    /\ \A b \in Body : Held(dyn'[x[1]], x, b) => Own(cache'[x]) = b
               ELSE \E i \in DOMAIN providers' :
                      cache'[x] = Pack(providers'[i].doc, x, providers'[i].file)
    <3>1. x # k /\ cache'[x] = cache[x] /\ cache[x] # None
      BY <1>13, <2>2
    <3>2. CASE cache[x].origin = Dynamic
      <4>1. dyn[x[1]] # None /\ \A b \in Body : Held(dyn[x[1]], x, b) => Own(cache[x]) = b
        BY <3>1, <3>2 DEF StoreInv, CacheOK
      <4>2. CASE x[1] = l
        <5>1. \A b \in Body : Held(new, x, b) => Own(cache[x]) = b
          BY <1>10, <3>1, <4>1, <4>2
        <5>2. dyn'[x[1]] = new
          BY <1>11, <1>12, <4>2
        <5> QED BY <1>7, <3>1, <3>2, <5>1, <5>2
      <4>3. CASE x[1] # l
        <5>1. dyn'[x[1]] = dyn[x[1]]
          BY <1>11, <1>12, <4>3
        <5> QED BY <3>1, <3>2, <4>1, <5>1
      <4> QED BY <4>2, <4>3
    <3>3. CASE cache[x].origin # Dynamic
      <4>1. \E i \in DOMAIN providers : cache[x] = Pack(providers[i].doc, x, providers[i].file)
        BY <3>1, <3>3 DEF StoreInv, CacheOK
      <4> QED BY <1>1, <3>1, <3>3, <4>1
    <3> QED BY <3>2, <3>3
  <2> QED BY <2>1, <2>2, Zenon DEF CacheOK
<1>16. GivenOK'
  <2>1. given' = [x \in Key |-> given'[x]]
    BY <1>1 DEF StoreInv, GivenOK
  <2>2. ASSUME NEW x \in Key, given'[x] # None
        PROVE  /\ given'[x] \in Body /\ Held(dyn'[x[1]], x, given'[x]) /\ x \in index'
               /\ cache'[x] # None => Own(cache'[x]) = given'[x]
    <3>1. CASE x = k
      <4>1. dyn'[x[1]] = new /\ cache'[x] = None /\ x \in index'
        BY <1>1, <1>2, <1>12, <1>13, <3>1 DEF l
      <4>2. given'[x] = IF WellOrdered(snippet) THEN snippet.body ELSE given[k]
        BY <1>1, <3>1 DEF StoreInv, GivenOK
      <4>3. CASE WellOrdered(snippet)
        <5>1. snippet.body \in Body
          BY <1>5, TagParts
        <5> QED BY <1>9, <3>1, <4>1, <4>2, <4>3, <5>1
      <4>4. CASE ~WellOrdered(snippet)
        <5>1. Held(dyn[l], k, given[k])
          BY <2>2, <3>1, <4>2, <4>4 DEF StoreInv, GivenOK, l
        <5>2. base = dyn[l]
          <6>1. dyn[l] # None
            BY <5>1 DEF Held, Good, Loads
          <6> QED BY <1>4, <6>1
        <5>3. Held(base, k, given[k])
          BY <5>1, <5>2
        <5>4. ~Loads(new)
          BY <1>5, <1>6, <4>4, <5>3, MergeRefused
        <5> QED BY <1>1, <5>4
      <4> QED BY <4>3, <4>4
    <3>2. CASE x # k
      <4>1. given'[x] = given[x] /\ cache'[x] = cache[x] /\ given[x] # None
        BY <1>1, <1>13, <2>2, <3>2 DEF StoreInv, GivenOK
      <4>2. /\ given[x] \in Body /\ Held(dyn[x[1]], x, given[x]) /\ x \in index
            /\ cache[x] # None => Own(cache[x]) = given[x]
        BY <4>1 DEF StoreInv, GivenOK
      <4>3. Held(dyn'[x[1]], x, given[x])
        <5>1. CASE x[1] = l
          <6>1. dyn[l] # None
            BY <4>2, <5>1 DEF Held, Good, Loads
          <6> QED BY <1>2, <1>10, <1>12, <3>2, <4>2, <5>1, <6>1
        <5>2. CASE x[1] # l
          BY <1>11, <1>12, <4>2, <5>2
        <5> QED BY <5>1, <5>2
      <4> QED BY <1>1, <4>1, <4>2, <4>3
    <3> QED BY <3>1, <3>2
  <2> QED BY <1>1, <2>1, <2>2, Zenon DEF GivenOK
<1>17. DiskOK' /\ ProvidersOK' /\ CallOK' /\ MadeOK' /\ (updates \in 0..MaxUpdates)'
  <2>1. DiskOK' /\ ProvidersOK'
    BY <1>1 DEF StoreInv, DiskOK, ProvidersOK
  <2>2. CallOK'
    BY <1>1 DEF StoreInv, CallOK, Current
  <2>3. MadeOK'
    BY <1>1 DEF StoreInv, MadeOK, Current, Made
  <2>4. (updates \in 0..MaxUpdates)'
    BY <1>1, ConstantsAssumption DEF StoreInv
  <2> QED BY <2>1, <2>2, <2>3, <2>4
<1> QED BY <1>14, <1>15, <1>16, <1>17 DEF StoreInv

LEMMA StoreNext == ASSUME StoreInv, [Next]_vars PROVE StoreInv'
<1>1. CASE Next
  <2>1. ASSUME NEW f \in File, NEW doc \in Document \cup {None}, Edit(f, doc) PROVE StoreInv'
    BY <2>1, StepEdit
  <2>2. ASSUME NEW k \in Key, FindDynamic(k) \/ FindInFiles(k) \/ FindMissed(k) PROVE StoreInv'
    BY <2>2, StepFindDynamic, StepFindInFiles, StepFindMissed
  <2>3. ASSUME ScanDir \/ LoadProvider \/ LoadText \/ LoadNames \/ LoadTime \/ Install
        PROVE  StoreInv'
    BY <2>3, StepScanDir, StepLoadProvider, StepLoadText, StepLoadNames, StepLoadTime,
       StepInstall
  <2>4. ASSUME RetryHit \/ RetryMiss PROVE StoreInv'
    BY <2>4, StepRetry
  <2>5. ASSUME NEW k \in Key, NEW snippet \in Snippet, Update(k, snippet) PROVE StoreInv'
    BY <2>5, StepUpdate
  <2> QED BY <1>1, <2>1, <2>2, <2>3, <2>4, <2>5 DEF Next
<1>2. CASE UNCHANGED vars
  <2>1. /\ disk' = disk /\ providers' = providers /\ cache' = cache /\ dyn' = dyn
        /\ index' = index /\ call' = call /\ given' = given /\ steady' = steady
        /\ updates' = updates
    BY <1>2 DEF vars
  <2>2. DiskOK' /\ ProvidersOK' /\ DynOK' /\ (updates \in 0..MaxUpdates)'
    BY <2>1 DEF StoreInv, DiskOK, ProvidersOK, DynOK
  <2>3. CallOK' /\ MadeOK'
    BY <2>1 DEF StoreInv, CallOK, MadeOK, Made, Current
  <2>4. CacheOK'
    BY <2>1, Zenon DEF StoreInv, CacheOK
  <2>5. GivenOK'
    BY <2>1 DEF StoreInv, GivenOK
  <2> QED BY <2>2, <2>3, <2>4, <2>5 DEF StoreInv
<1> QED BY <1>1, <1>2

-------------------------------------------------------------------------------
(***************************************************************************)
(* The theorems.                                                           *)
(***************************************************************************)

\* The invariant holds in every reachable state.
THEOREM StoreInvariant == Spec => []StoreInv
<1> QED BY StoreInit, StoreNext, PTL DEF Spec

\* The variables keep their types, the providers are of texts that loaded and
\* stand in the order of their files (load_providers_from_dir_nothrow()), and a
\* profile in the index has a dynamic library (add_or_update_profile()).
THEOREM StoreTypeCorrect == Spec => []TypeOK
<1>1. ASSUME StoreInv PROVE TypeOK
  <2> USE <1>1 DEF StoreInv
  <2>1. \A f \in File : disk[f].text \in Document \cup {None} /\ disk[f].time \in Nat \ {0}
    BY DEF DiskOK
  <2>2. \A k \in Key : cache[k] = None \/ cache[k].origin \in File \cup {Dynamic}
    <3>1. \A k \in Key : cache[k] = None \/ cache[k] \in PackType
      BY DEF CacheOK
    <3> QED BY <3>1 DEF PackType
  <2>3. \A l \in Library : dyn[l] = None \/ Loads(dyn[l])
    BY DEF DynOK, Good
  <2>4. \A i \in DOMAIN providers : Loads(providers[i].doc)
    <3>1. \A i \in DOMAIN providers : providers[i] \in LoadedEntry
      BY DEF ProvidersOK
    <3> QED BY <3>1 DEF LoadedEntry
  <2>5. \A i, j \in DOMAIN providers :
          i < j => Rank(providers[i].file) < Rank(providers[j].file)
    BY DEF ProvidersOK, InOrder
  <2>6. call.at \in {"text", "names", "time"} => call.todo # {}
    BY DEF CallOK, AtFile
  <2>7. index \subseteq {k \in Key : dyn[k[1]] # None}
    BY DEF DynOK
  <2> QED BY <2>1, <2>2, <2>3, <2>4, <2>5, <2>6, <2>7 DEF TypeOK
<1> QED BY <1>1, StoreInvariant, PTL

\* What find_or_reload() answers of a profile that its dynamic library holds.
LEMMA FindHeld ==
  ASSUME StoreInv, NEW k \in Key, given[k] # None
  PROVE  /\ Find(k) # None /\ Own(Find(k)) = given[k] /\ k \in index
         /\ dyn[k[1]] # None /\ Held(dyn[k[1]], k, given[k]) /\ FromDynamic(k) # None
<1>1. /\ Held(dyn[k[1]], k, given[k]) /\ k \in index
      /\ cache[k] # None => Own(cache[k]) = given[k]
  BY DEF StoreInv, GivenOK
<1>2. dyn[k[1]] # None
  BY <1>1 DEF Held, Good, Loads
<1>3. FromDynamic(k) # None /\ Own(FromDynamic(k)) = given[k]
  BY <1>1, <1>2, HeldPack DEF FromDynamic
<1>4. Find(k) = IF cache[k] # None THEN cache[k] ELSE FromDynamic(k)
  BY <1>3 DEF Find
<1> QED BY <1>1, <1>2, <1>3, <1>4

\* An accepted update is what lookups answer with from then on, and the list
\* names it, whatever is cached, reloaded, edited on disk or updated next to it
\* (add_or_update_profile(), find_or_reload(), list_profiles()).
THEOREM UpdatesTakeEffect == Spec => []UpdateTakesEffect
<1>1. ASSUME StoreInv PROVE UpdateTakesEffect
  BY <1>1, FindHeld DEF UpdateTakesEffect, ListProfiles
<1> QED BY <1>1, StoreInvariant, PTL

\* A pack in the cache is that of a provider loaded now, or has the settings of
\* the dynamic library as last written, for a profile with its name first (the
\* invalidations of reload_all() and add_or_update_profile()).
THEOREM CacheIsCurrent == Spec => []CacheMatchesSources
<1>1. ASSUME StoreInv PROVE CacheMatchesSources
  <2>1. ASSUME NEW k \in Key, cache[k] # None, cache[k].origin = Dynamic, Offers(dyn[k[1]], k)
        PROVE  Own(cache[k]) = Own(FromDynamic(k))
    <3>1. dyn[k[1]] # None /\ \A b \in Body : Held(dyn[k[1]], k, b) => Own(cache[k]) = b
      BY <1>1, <2>1 DEF StoreInv, CacheOK
    <3>2. Good(dyn[k[1]])
      BY <1>1, <3>1 DEF StoreInv, DynOK, Key
    <3>3. PICK b : Held(dyn[k[1]], k, b)
      BY <2>1, <3>2, OffersHeld DEF Good
    <3>4. PICK j : HeldAt(dyn[k[1]], k, b, j)
      BY <3>3 DEF Held
    <3>5. dyn[k[1]][k[1]][j] \in Tag /\ dyn[k[1]][k[1]][j].body = b
      <4> DEFINE doc == dyn[k[1]]
      <4>1. Held(doc, k, b) /\ HeldAt(doc, k, b, j)
        BY <3>3, <3>4
      <4> HIDE DEF doc
      <4>2. doc[k[1]][j] \in Tag
        BY <4>1, HeldParts
      <4>3. doc[k[1]][j].body = b
        BY <4>1 DEF HeldAt
      <4> QED BY <4>2, <4>3 DEF doc
    <3>6. b \in Body
      BY <3>5, TagParts
    <3>7. Own(Pack(dyn[k[1]], k, Dynamic)) = b
      BY <3>3, HeldPack
    <3> QED BY <3>1, <3>3, <3>6, <3>7 DEF FromDynamic
  <2>2. ASSUME NEW k \in Key, cache[k] # None, cache[k].origin # Dynamic
        PROVE  \E e \in ToSet(providers) : cache[k] = Pack(e.doc, k, e.file)
    <3>1. PICK i \in DOMAIN providers : cache[k] = Pack(providers[i].doc, k, providers[i].file)
      BY <1>1, <2>2 DEF StoreInv, CacheOK
    <3>2. providers[i] \in ToSet(providers)
      BY DEF ToSet
    <3> QED BY <3>1, <3>2
  <2> QED BY <2>1, <2>2 DEF CacheMatchesSources
<1> QED BY <1>1, StoreInvariant, PTL

\* A profile reported missing after a reload was offered by no file from the
\* first look to the last (find_or_reload()).
THEOREM MissesAreHonest == Spec => []MissIsHonest
<1>1. ASSUME StoreInv PROVE MissIsHonest
  <2> SUFFICES ASSUME call.at = "retry", Resolve(call.key) = None, NEW f \in steady,
                      Offers(disk[f].text, call.key)
               PROVE  FALSE
    BY DEF MissIsHonest
  <2> DEFINE k == call.key
             doc == disk[f].text
  <2>1. k \in Key /\ ProvidersOK /\ f \in File
    BY <1>1 DEF StoreInv, CallOK, MadeOK
  <2>2. Loads(doc)
    BY DEF Offers
  <2>3. doc \in Document
    <3>1. disk[f] \in [text : Document \cup {None}, time : Nat \ {0}]
      BY <1>1, <2>1 DEF StoreInv, DiskOK
    <3> QED BY <2>2, <3>1 DEF Loads
  <2>4. PICK i \in DOMAIN providers : Made(providers[i], f)
    BY <1>1, <2>2 DEF StoreInv, MadeOK
  <2>5. providers[i].file = f /\ providers[i].doc = doc /\ providers[i].names = ParseProfiles(doc)
    BY <2>4 DEF Made
  <2> HIDE DEF k, doc
  <2>6. PICK b : Held(doc, k, b)
    <3>1. Offers(doc, k)
      BY DEF doc, k
    <3> QED BY <2>3, <3>1, DocumentType, OffersHeld
  <2>7. Pack(doc, k, f) # None /\ k \in ParseProfiles(doc)
    BY <2>1, <2>6, HeldPack
  <2>8. Refreshed(providers[i], k) = providers[i]
    BY <2>5, <2>7 DEF Refreshed
  <2>9. AnswersAt(i, k)
    BY <2>5, <2>7, <2>8 DEF AnswersAt
  <2> QED BY <2>1, <2>9, ResolveIs DEF k
<1> QED BY <1>1, StoreInvariant, PTL

\* What qos.get shows of a profile is what a lookup applies
\* (detail_profiles() against find_or_reload()).
THEOREM DetailIsWhatIsUsed == Spec => []DetailShowsWhatIsUsed
<1>1. ASSUME StoreInv, NEW k \in Key, given[k] # None
      PROVE  Detail(k) = [kind |-> "dynamic", xml |-> Own(Find(k))]
  <2>1. /\ Own(Find(k)) = given[k] /\ k \in index /\ FromDynamic(k) # None
        /\ Held(dyn[k[1]], k, given[k])
    BY <1>1, FindHeld
  <2>2. DetailDynamic(k) = given[k]
    BY <2>1, HeldPack DEF DetailDynamic
  <2> QED BY <2>1, <2>2 DEF Detail
<1>2. ASSUME StoreInv, NEW k \in Key, NEW e \in FileOf(k), dyn[k[1]] = None,
             FileOf(k) = {e}, \A x \in ToSet(providers) : Unchanged(x),
             \A p \in ToSet(e.doc[k[1]]) : WellOrdered(p)
      PROVE  Detail(k) = IF Find(k) = None THEN None
                         ELSE [kind |-> "external", xml |-> Own(Find(k))]
  <2> DEFINE l == k[1]
             doc == e.doc
             n == Len(providers)
  <2>1. ProvidersOK /\ DynOK /\ CacheOK /\ n \in Nat /\ DOMAIN providers = 1..n
    BY <1>2 DEF StoreInv, ProvidersOK
  <2>2. e \in ToSet(providers) /\ l \in DOMAIN doc
    BY DEF FileOf
  <2>3. PICK h \in DOMAIN providers : providers[h] = e
    BY <2>2 DEF ToSet
  <2>4. e \in LoadedEntry
    BY <2>1, <2>3 DEF ProvidersOK
  <2>5. Good(doc) /\ e.file \in File /\ doc # None
    BY <2>4, EntryParts DEF Good, Loads
  <2>6. k \notin index /\ FromDynamic(k) = None
    BY <1>2, <2>1 DEF DynOK, FromDynamic
  \* Any entry with the library is e, as are the names and the text of its file.
  <2>7. ASSUME NEW i \in DOMAIN providers
        PROVE  /\ l \in DOMAIN providers[i].doc => providers[i] = e
               /\ providers[i].names = ParseProfiles(providers[i].doc)
               /\ disk[providers[i].file].text = providers[i].doc
               /\ Refreshed(providers[i], k) = providers[i]
               /\ Good(providers[i].doc) /\ providers[i].file \in File
    <3>1. providers[i] \in ToSet(providers)
      BY DEF ToSet
    <3>2. Unchanged(providers[i])
      BY <1>2, <3>1
    <3>3. l \in DOMAIN providers[i].doc => providers[i] \in FileOf(k)
      BY <3>1 DEF FileOf
    <3>4. providers[i] \in LoadedEntry
      BY <2>1 DEF ProvidersOK
    <3>5. /\ disk[providers[i].file] = [text |-> providers[i].doc, time |-> providers[i].time]
          /\ providers[i].names = ParseProfiles(providers[i].doc)
      BY <3>2 DEF Unchanged
    <3>6. Refreshed(providers[i], k) = providers[i]
      BY <3>5 DEF Refreshed
    <3> QED BY <1>2, <3>3, <3>4, <3>5, <3>6, EntryParts
  <2>8. CASE \E j : Names(doc, l, j, k[2])
    <3>1. PICK j : Names(doc, l, j, k[2])
      BY <2>8
    <3> DEFINE b == doc[l][j].body
    <3>2. doc[l][j] \in ToSet(doc[l])
      BY <3>1 DEF Names, ToSet
    <3>3. Held(doc, k, b)
      <4>1. HeldAt(doc, k, b, j)
        BY <1>2, <3>1, <3>2 DEF HeldAt
      <4> QED BY <2>2, <2>5, <3>1, <4>1 DEF Held, Names
    <3> HIDE DEF b
    <3>4. /\ Pack(doc, k, e.file) # None /\ Own(Pack(doc, k, e.file)) = b
          /\ ExtractProfile(doc, l, k[2]) = b /\ QosOf(doc, l, k[2]) # << >>
          /\ k \in ParseProfiles(doc)
      BY <2>5, <3>3, HeldPack
    \* Whatever the lookup answers, it is of e.
    <3>5. Find(k) = Pack(doc, k, e.file)
      <4>1. CASE cache[k] # None
        <5>1. cache[k].origin # Dynamic
          BY <1>2, <2>1, <4>1 DEF CacheOK
        <5>2. PICK i \in DOMAIN providers :
                cache[k] = Pack(providers[i].doc, k, providers[i].file)
          BY <2>1, <4>1, <5>1 DEF CacheOK
        <5>3. l \in DOMAIN providers[i].doc
          BY <2>7, <4>1, <5>2, PackOf
        <5> QED BY <2>7, <4>1, <5>2, <5>3 DEF Find
      <4>2. CASE cache[k] = None
        <5>1. AnswersAt(h, k)
          BY <2>3, <2>7, <3>4 DEF AnswersAt
        <5>2. Resolve(k) # None
          BY <2>1, <2>3, <5>1, ResolveIs
        <5>3. PICK i \in DOMAIN providers :
                Resolve(k) = Pack(providers[i].doc, k, providers[i].file)
          BY <2>1, <5>2, ResolveIs
        <5>4. l \in DOMAIN providers[i].doc
          BY <2>7, <5>2, <5>3, PackOf
        <5> QED BY <2>6, <2>7, <4>2, <5>3, <5>4 DEF Find
      <4> QED BY <4>1, <4>2
    <3> DEFINE I == {i \in 1..n : /\ k \in ParseProfiles(disk[providers[i].file].text)
                                  /\ QosOf(providers[i].doc, k[1], k[2]) # << >>}
    <3>6. DetailAt(k) = IF I # {} THEN Min(I) ELSE 0
      BY DEF DetailAt, SelectInSeq
    <3>7. h \in I
      BY <2>1, <2>3, <2>7, <3>4
    <3>8. DetailAt(k) \in I
      <4>1. I \in SUBSET (1..n) OBVIOUS
      <4> HIDE DEF I, n
      <4> QED BY <2>1, <3>6, <3>7, <4>1, MinOfPositions
    <3>9. DetailAt(k) # 0 /\ providers[DetailAt(k)] = e
      <4>1. DetailAt(k) \in DOMAIN providers /\ DetailAt(k) # 0
        BY <2>1, <3>8
      <4>2. QosOf(providers[DetailAt(k)].doc, k[1], k[2]) # << >>
        BY <3>8
      <4>3. l \in DOMAIN providers[DetailAt(k)].doc
        BY <2>7, <4>1, <4>2, PackOf
      <4> QED BY <2>7, <4>1, <4>3
    <3> HIDE DEF I
    <3>10. disk[e.file].text = doc
      BY <2>3, <2>7
    <3>11. Detail(k) = [kind |-> "external", xml |-> b]
      BY <2>6, <3>4, <3>9, <3>10 DEF Detail
    <3> QED BY <3>4, <3>5, <3>11
  <2>9. CASE ~\E j : Names(doc, l, j, k[2])
    \* No entry has the profile: none answers.
    <3>1. ASSUME NEW i \in DOMAIN providers
          PROVE  /\ Pack(providers[i].doc, k, providers[i].file) = None
                 /\ QosOf(providers[i].doc, k[1], k[2]) = << >>
      <4>1. l \in DOMAIN providers[i].doc =>
              \A j \in DOMAIN providers[i].doc[l] : Attr(providers[i].doc[l][j], "name") # k[2]
        BY <2>7, <2>9 DEF Names
      <4> QED BY <2>7, <4>1, PackMissing
    <3>2. cache[k] = None
      BY <1>2, <2>1, <3>1 DEF CacheOK
    <3>3. Resolve(k) = None
      BY <2>1, <3>1, ResolveIs
    <3>4. DetailAt(k) = 0
      BY <2>1, <3>1 DEF DetailAt, SelectInSeq
    <3> QED BY <2>6, <3>2, <3>3, <3>4 DEF Find, Detail
  <2> QED BY <2>8, <2>9
<1>3. ASSUME StoreInv PROVE DetailShowsWhatIsUsed
  BY <1>1, <1>2, <1>3 DEF DetailShowsWhatIsUsed
<1> QED BY <1>3, StoreInvariant, PTL
===============================================================================
