------------------------ MODULE FigmaVariablesProofs ------------------------
(***************************************************************************)
(* Proofs about FigmaVariables, for any payload and any collections, and   *)
(* for names of any depth: what toDtcgFiles refuses, and that a token is   *)
(* read back with its own type wherever hoistTypes has moved it.           *)
(***************************************************************************)
EXTENDS FigmaVariables, SequenceTheorems, WellFoundedInduction, TLAPS

-----------------------------------------------------------------------------
(* Paths.                                                                  *)

Path == Seq(STRING)

\* What an induction over the naturals stands on.
LEMMA Least ==
  ASSUME NEW T, T \subseteq Nat, T # {}
  PROVE  \E n \in T : \A m \in T : n <= m
<1>1. IsWellFoundedOn({p \in Nat \X Nat : p[1] < p[2]}, Nat)
  BY NatLessThanWellFounded DEF OpToRel
<1>2. PICK n \in T : \A m \in T : ~ (<<m, n>> \in {p \in Nat \X Nat : p[1] < p[2]})
  BY <1>1, WFMin
<1>3. \A m \in T : <<m, n>> \in Nat \X Nat
  OBVIOUS
<1>4. \A m \in T : ~ (m < n)
  BY <1>2, <1>3
<1>5. QED
  BY <1>4, SMT

LEMMA FirstItems ==
  ASSUME NEW q \in Path, NEW n \in 0 .. Len(q)
  PROVE  /\ SubSeq(q, 1, n) \in Path /\ Len(SubSeq(q, 1, n)) = n
         /\ \A i \in 1 .. n : SubSeq(q, 1, n)[i] = q[i]
<1>1. q \in Seq(STRING) /\ Len(q) \in Nat /\ n \in Nat
  BY DEF Path
<1>2. \A i \in 1 .. n : i \in 1 .. Len(q)
  BY <1>1
<1>3. SubSeq(q, 1, n) \in Seq(STRING) /\ Len(SubSeq(q, 1, n)) = n /\ \A i \in 1 .. n : SubSeq(q, 1, n)[i] = q[i]
  BY <1>1, <1>2
<1>4. QED
  BY <1>3 DEF Path

LEMMA SamePath ==
  ASSUME NEW p \in Path, NEW q \in Path, Len(p) = Len(q), \A i \in 1 .. Len(p) : p[i] = q[i]
  PROVE  p = q
BY DEF Path

LEMMA PrefixByItems ==
  ASSUME NEW p \in Path, NEW q \in Path
  PROVE  IsPrefix(p, q) <=> Len(p) <= Len(q) /\ \A i \in 1 .. Len(p) : p[i] = q[i]
<1>1. Len(p) \in Nat /\ Len(q) \in Nat
  BY DEF Path
<1>2. CASE Len(p) <= Len(q)
  <2>1. Len(p) \in 0 .. Len(p) /\ Len(p) \in 0 .. Len(q)
    BY <1>1, <1>2
  <2>2. /\ SubSeq(p, 1, Len(p)) \in Path /\ Len(SubSeq(p, 1, Len(p))) = Len(p)
        /\ \A i \in 1 .. Len(p) : SubSeq(p, 1, Len(p))[i] = p[i]
    BY <2>1, FirstItems
  <2>3. /\ SubSeq(q, 1, Len(p)) \in Path /\ Len(SubSeq(q, 1, Len(p))) = Len(p)
        /\ \A i \in 1 .. Len(p) : SubSeq(q, 1, Len(p))[i] = q[i]
    BY <2>1, FirstItems
  <2>4. SubSeq(p, 1, Len(p)) = SubSeq(q, 1, Len(p)) <=> \A i \in 1 .. Len(p) : p[i] = q[i]
    <3>1. ASSUME \A i \in 1 .. Len(p) : p[i] = q[i]
          PROVE  SubSeq(p, 1, Len(p)) = SubSeq(q, 1, Len(p))
      BY <2>2, <2>3, <3>1, SamePath
    <3>2. QED
      BY <2>2, <2>3, <3>1
  <2>5. QED
    BY <1>2, <2>4 DEF IsPrefix
<1>3. CASE ~ (Len(p) <= Len(q))
  BY <1>3 DEF IsPrefix
<1>4. QED
  BY <1>2, <1>3

\* Below, IsPrefix is only an order that is linear below a path.
LEMMA PrefixOrder ==
  /\ \A p \in Path : Len(p) \in Nat /\ IsPrefix(p, p)
  /\ \A p, q \in Path : IsPrefix(p, q) => Len(p) <= Len(q)
  /\ \A p, q \in Path : IsPrefix(p, q) /\ Len(p) = Len(q) => p = q
  /\ \A p, q, r \in Path : IsPrefix(p, q) /\ IsPrefix(q, r) => IsPrefix(p, r)
  /\ \A p, q, r \in Path : IsPrefix(p, r) /\ IsPrefix(q, r) /\ Len(p) <= Len(q) => IsPrefix(p, q)
<1>1. \A p \in Path : Len(p) \in Nat
  BY DEF Path
<1>2. \A p \in Path : IsPrefix(p, p)
  BY <1>1, PrefixByItems
<1>3. ASSUME NEW p \in Path, NEW q \in Path, IsPrefix(p, q)
      PROVE  Len(p) <= Len(q) /\ (Len(p) = Len(q) => p = q)
  BY <1>3, PrefixByItems, SamePath
<1>4. ASSUME NEW p \in Path, NEW q \in Path, NEW r \in Path, IsPrefix(p, q), IsPrefix(q, r)
      PROVE  IsPrefix(p, r)
  BY <1>1, <1>4, PrefixByItems
<1>5. ASSUME NEW p \in Path, NEW q \in Path, NEW r \in Path, IsPrefix(p, r), IsPrefix(q, r), Len(p) <= Len(q)
      PROVE  IsPrefix(p, q)
  BY <1>1, <1>5, PrefixByItems
<1>6. QED
  BY <1>1, <1>2, <1>3, <1>4, <1>5

LEMMA PrefixOfLength ==
  ASSUME NEW q \in Path, NEW n \in 0 .. Len(q)
  PROVE  \E p \in Path : Len(p) = n /\ IsPrefix(p, q)
<1>1. SubSeq(q, 1, n) \in Path /\ Len(SubSeq(q, 1, n)) = n /\ \A i \in 1 .. n : SubSeq(q, 1, n)[i] = q[i]
  BY FirstItems
<1>2. n <= Len(q)
  BY PrefixOrder
<1>3. QED
  BY <1>1, <1>2, PrefixByItems

LEMMA PrefixesArePrefixes ==
  ASSUME NEW q \in Path, NEW p
  PROVE  p \in Prefixes(q) <=> p \in Path /\ IsPrefix(p, q)
<1>1. ASSUME p \in Prefixes(q) PROVE p \in Path /\ IsPrefix(p, q)
  <2>1. PICK n \in 0 .. Len(q) : p = SubSeq(q, 1, n)
    BY <1>1 DEF Prefixes
  <2>2. p \in Path /\ Len(p) = n /\ \A i \in 1 .. n : p[i] = q[i]
    BY <2>1, FirstItems
  <2>3. n <= Len(q)
    BY <2>1, PrefixOrder
  <2>4. QED
    BY <2>2, <2>3, PrefixByItems
<1>2. ASSUME p \in Path, IsPrefix(p, q) PROVE p \in Prefixes(q)
  <2>1. Len(p) \in 0 .. Len(q)
    BY <1>2, PrefixOrder
  <2>2. Len(SubSeq(q, 1, Len(p))) = Len(p) /\ SubSeq(q, 1, Len(p)) \in Path
          /\ \A i \in 1 .. Len(p) : SubSeq(q, 1, Len(p))[i] = q[i]
    BY <2>1, FirstItems
  <2>3. p = SubSeq(q, 1, Len(p))
    BY <1>2, <2>2, PrefixByItems, SamePath
  <2>4. QED
    BY <2>1, <2>3 DEF Prefixes
<1>3. QED
  BY <1>1, <1>2

LEMMA RootIsPrefix == <<>> \in Path /\ Len(<<>>) = 0 /\ \A q \in Path : IsPrefix(<<>>, q) /\ (Len(q) = 0 => q = <<>>)
<1>1. <<>> \in Path /\ Len(<<>>) = 0
  BY DEF Path
<1>2. QED
  BY <1>1, PrefixByItems, PrefixOrder

-----------------------------------------------------------------------------
(* The tree of a file.                                                     *)

WellGrown(tree) ==
  /\ DOMAIN tree \subseteq Path /\ <<>> \in DOMAIN tree
  /\ \A q \in DOMAIN tree : \A p \in Path : IsPrefix(p, q) => p \in DOMAIN tree
  /\ \A q \in DOMAIN tree :
       IF IsToken(tree[q]) THEN tree[q] = Leaf(tree[q].type, tree[q].value) /\ tree[q].type # Untyped
       ELSE tree[q] = Group
  /\ \A q, r \in DOMAIN tree : IsPrefix(q, r) /\ IsToken(tree[q]) => q = r
  /\ \A q \in DOMAIN tree : q # <<>> => TokensOf(tree, q) # {}

\* Along a chain of only children, everything is below the end of the chain.
LEMMA LandingIsAbove ==
  ASSUME NEW tree, WellGrown(tree), NEW p \in DOMAIN tree, NEW home \in DOMAIN tree,
         Lands(tree, p, home), NEW q \in TokensOf(tree, p)
  PROVE  IsPrefix(home, q)
<1> SUFFICES ASSUME ~ IsPrefix(home, q) PROVE FALSE
  OBVIOUS
<1>1. p \in Path /\ home \in Path /\ q \in DOMAIN tree /\ q \in Path /\ IsPrefix(p, q) /\ IsToken(tree[q])
        /\ IsPrefix(p, home)
  BY DEF TokensOf, WellGrown, Lands
<1> DEFINE Off(r) == IsPrefix(p, r) /\ IsPrefix(r, home) /\ ~ IsPrefix(r, q)
           T == {n \in Nat : \E r \in DOMAIN tree : Off(r) /\ Len(r) = n}
<1>2. Len(home) \in T
  BY <1>1, PrefixOrder
<1>3. PICK n \in T : \A m \in T : n <= m
  BY <1>2, Least
<1>4. PICK r \in DOMAIN tree : Off(r) /\ Len(r) = n
  BY <1>3
<1>5. r \in Path /\ Len(r) \in Nat /\ Len(p) \in Nat /\ n \in Nat
  BY <1>1, <1>4, PrefixOrder DEF WellGrown
<1>6. Len(p) < Len(r)
  <2>1. Len(p) <= Len(r) /\ (Len(p) = Len(r) => p = r)
    BY <1>1, <1>4, <1>5, PrefixOrder
  <2>2. p # r
    BY <1>1, <1>4
  <2>3. QED
    BY <1>5, <2>1, <2>2
<1>7. PICK s \in Path : Len(s) = Len(r) - 1 /\ IsPrefix(s, r)
  <2>1. Len(r) - 1 \in 0 .. Len(r)
    BY <1>5, <1>6
  <2>2. QED
    BY <1>5, <2>1, PrefixOfLength
<1>8. s \in DOMAIN tree /\ IsPrefix(p, s) /\ IsPrefix(s, home) /\ s # home
  <2>1. s \in DOMAIN tree
    BY <1>4, <1>7 DEF WellGrown
  <2>2. Len(p) <= Len(s)
    BY <1>5, <1>6, <1>7
  <2>3. IsPrefix(p, s)
    BY <1>1, <1>4, <1>5, <1>7, <2>2, PrefixOrder
  <2>4. IsPrefix(s, home)
    BY <1>1, <1>4, <1>5, <1>7, PrefixOrder
  <2>5. Len(r) <= Len(home)
    BY <1>1, <1>4, <1>5, PrefixOrder
  <2>6. s # home
    BY <1>5, <1>7, <2>5
  <2>7. QED
    BY <2>1, <2>3, <2>4, <2>6
<1>9. OneGroup(tree, s)
  BY <1>8 DEF Lands, IsStrictPrefix
<1>10. r \in Children(tree, s)
  BY <1>4, <1>5, <1>7 DEF Children
<1>11. IsPrefix(s, q)
  <2>1. CASE ~ IsPrefix(s, q)
    <3>1. Len(s) \in T
      BY <1>5, <1>6, <1>7, <1>8, <2>1
    <3>2. QED
      BY <1>3, <1>4, <1>5, <1>7, <3>1
  <2>2. QED
    BY <2>1
<1>12. Len(s) < Len(q)
  <2>1. s # q
    BY <1>1, <1>4, <1>5, <1>7, <1>8 DEF WellGrown
  <2>2. Len(s) <= Len(q) /\ Len(s) # Len(q) /\ Len(q) \in Nat /\ Len(s) \in Nat
    BY <1>1, <1>7, <1>11, <2>1, PrefixOrder
  <2>3. QED
    BY <2>2
<1>13. PICK c \in Path : Len(c) = Len(r) /\ IsPrefix(c, q)
  <2>1. Len(q) \in Nat
    BY <1>1, PrefixOrder
  <2>2. Len(r) \in 0 .. Len(q)
    BY <1>5, <1>7, <1>12, <2>1
  <2>3. QED
    BY <1>1, <2>2, PrefixOfLength
<1>14. c \in Children(tree, s)
  <2>1. c \in DOMAIN tree
    BY <1>1, <1>13 DEF WellGrown
  <2>2. Len(s) <= Len(c)
    BY <1>5, <1>7, <1>13
  <2>3. IsPrefix(s, c)
    BY <1>1, <1>7, <1>11, <1>13, <2>2, PrefixOrder
  <2>4. Len(c) = Len(s) + 1
    BY <1>5, <1>7, <1>13
  <2>5. QED
    BY <2>1, <2>3, <2>4 DEF Children
<1>15. c = r
  BY <1>9, <1>10, <1>14 DEF OneGroup
<1>16. QED
  BY <1>4, <1>13, <1>15

LEMMA HomesOfTokens ==
  ASSUME NEW tree, WellGrown(tree), NEW home \in Homes(tree)
  PROVE  /\ ~ IsToken(tree[home])
         /\ \A q \in TokensOf(tree, home) : tree[CHOOSE t \in TokensOf(tree, home) : TRUE].type = tree[q].type
<1>1. PICK p \in Shared(tree) : Lands(tree, p, home)
  BY DEF Homes
<1>2. p \in DOMAIN tree /\ home \in DOMAIN tree /\ Shares(tree, p) /\ p \in Path /\ home \in Path
  BY DEF Shared, Homes, WellGrown
<1>3. \A q \in TokensOf(tree, p) : IsPrefix(home, q)
  BY <1>1, <1>2, LandingIsAbove
<1>4. PICK q \in TokensOf(tree, p), r \in TokensOf(tree, p) : q # r
  BY <1>2 DEF Shares
<1>5. q \in DOMAIN tree /\ r \in DOMAIN tree
  BY DEF TokensOf
<1>6. ~ IsToken(tree[home])
  BY <1>2, <1>3, <1>4, <1>5 DEF WellGrown
<1>7. TokensOf(tree, home) \subseteq TokensOf(tree, p)
  <2>1. IsPrefix(p, home)
    BY <1>1 DEF Lands
  <2>2. ASSUME NEW t \in TokensOf(tree, home) PROVE IsPrefix(p, t)
    <3>1. t \in Path /\ IsPrefix(home, t)
      BY DEF TokensOf, WellGrown
    <3>2. QED
      BY <1>2, <2>1, <3>1, PrefixOrder
  <2>3. QED
    BY <2>2 DEF TokensOf
<1>8. \A t, u \in TokensOf(tree, home) : tree[t].type = tree[u].type
  BY <1>2, <1>7 DEF Shares
<1>9. QED
  BY <1>6, <1>8

LEMMA OneHome ==
  ASSUME NEW tree, WellGrown(tree), NEW q \in TokensOf(tree, <<>>), NEW g \in Homes(tree), NEW h \in Homes(tree),
         IsPrefix(g, q), IsPrefix(h, q)
  PROVE  g = h
<1>1. PICK p \in Shared(tree) : Lands(tree, p, g)
  BY DEF Homes
<1>2. PICK r \in Shared(tree) : Lands(tree, r, h)
  BY DEF Homes
<1>3. /\ g \in DOMAIN tree /\ h \in DOMAIN tree /\ p \in DOMAIN tree /\ r \in DOMAIN tree
      /\ g \in Path /\ h \in Path /\ p \in Path /\ r \in Path /\ q \in Path
      /\ IsPrefix(p, g) /\ IsPrefix(r, h) /\ Shares(tree, p) /\ Shares(tree, r)
  BY <1>1, <1>2 DEF Homes, Shared, Lands, WellGrown, TokensOf
<1>4. Len(p) \in Nat /\ Len(r) \in Nat /\ Len(g) \in Nat /\ Len(h) \in Nat
  BY <1>3, PrefixOrder
<1>5. IsPrefix(p, q) /\ IsPrefix(r, q)
  BY <1>3, PrefixOrder
<1>6. p = r
  <2>1. IsPrefix(p, r) \/ IsPrefix(r, p)
    <3>1. Len(p) <= Len(r) \/ Len(r) <= Len(p)
      BY <1>4
    <3>2. QED
      BY <1>3, <1>5, <3>1, PrefixOrder
  <2>2. QED
    BY <1>3, <2>1 DEF Shared, IsStrictPrefix
<1>7. IsPrefix(g, h) \/ IsPrefix(h, g)
  <2>1. Len(g) <= Len(h) \/ Len(h) <= Len(g)
    BY <1>4
  <2>2. QED
    BY <1>3, <2>1, PrefixOrder
<1>8. QED
  BY <1>1, <1>2, <1>3, <1>6, <1>7 DEF Lands, IsStrictPrefix

LEMMA HoistedNodes ==
  ASSUME NEW tree, WellGrown(tree)
  PROVE  /\ DOMAIN HoistTypes(tree) = DOMAIN tree
         /\ \A q \in DOMAIN tree :
              /\ IsToken(HoistTypes(tree)[q]) <=> IsToken(tree[q])
              /\ HoistTypes(tree)[q].value = tree[q].value
              /\ q \in Homes(tree) =>
                   HoistTypes(tree)[q].type = tree[CHOOSE t \in TokensOf(tree, q) : TRUE].type
              /\ q \notin Homes(tree) /\ ~ IsToken(tree[q]) => HoistTypes(tree)[q].type = Untyped
              /\ IsToken(tree[q]) => HoistTypes(tree)[q].type =
                   IF \E home \in Homes(tree) : IsPrefix(home, q) THEN Untyped ELSE tree[q].type
<1>1. DOMAIN HoistTypes(tree) = DOMAIN tree
  BY DEF HoistTypes
<1>2. ASSUME NEW q \in DOMAIN tree
      PROVE  /\ IsToken(HoistTypes(tree)[q]) <=> IsToken(tree[q])
             /\ HoistTypes(tree)[q].value = tree[q].value
             /\ q \in Homes(tree) =>
                  HoistTypes(tree)[q].type = tree[CHOOSE t \in TokensOf(tree, q) : TRUE].type
             /\ q \notin Homes(tree) /\ ~ IsToken(tree[q]) => HoistTypes(tree)[q].type = Untyped
             /\ IsToken(tree[q]) => HoistTypes(tree)[q].type =
                  IF \E home \in Homes(tree) : IsPrefix(home, q) THEN Untyped ELSE tree[q].type
  <2> DEFINE above == \E home \in Homes(tree) : IsPrefix(home, q)
             given == tree[CHOOSE t \in TokensOf(tree, q) : TRUE].type
             new == HoistTypes(tree)[q]
  <2>1. new = CASE q \in Homes(tree) -> [tree[q] EXCEPT !.type = given]
                [] IsToken(tree[q]) /\ above -> [tree[q] EXCEPT !.type = Untyped]
                [] OTHER -> tree[q]
    BY DEF HoistTypes
  <2>2. q \in Homes(tree) => ~ IsToken(tree[q])
    BY HomesOfTokens
  <2>3. IF IsToken(tree[q]) THEN tree[q] = Leaf(tree[q].type, tree[q].value) ELSE tree[q] = Group
    BY DEF WellGrown
  <2> HIDE DEF above, given, new
  <2>4. CASE q \in Homes(tree)
    <3>1. new = [Group EXCEPT !.type = given] /\ tree[q] = Group
      BY <2>1, <2>2, <2>3, <2>4
    <3>2. new.kind = "group" /\ new.value = NoRaw /\ new.type = given
      BY <3>1 DEF Group
    <3>3. ~ IsToken(new) /\ ~ IsToken(tree[q]) /\ new.value = tree[q].value
      BY <3>1, <3>2 DEF IsToken, Group
    <3>4. QED
      BY <2>4, <3>2, <3>3 DEF new, given
  <2>5. CASE q \notin Homes(tree) /\ IsToken(tree[q]) /\ above
    <3>1. new = [Leaf(tree[q].type, tree[q].value) EXCEPT !.type = Untyped]
      BY <2>1, <2>3, <2>5
    <3>2. new.kind = "token" /\ new.type = Untyped /\ new.value = tree[q].value
      BY <3>1 DEF Leaf
    <3>3. IsToken(new)
      BY <3>2 DEF IsToken
    <3>4. QED
      BY <2>5, <3>2, <3>3 DEF new, above
  <2>6. CASE q \notin Homes(tree) /\ ~ (IsToken(tree[q]) /\ above)
    <3>1. new = tree[q]
      BY <2>1, <2>6
    <3>2. ~ IsToken(tree[q]) => new.type = Untyped
      BY <2>3, <3>1 DEF Group
    <3>3. QED
      BY <2>6, <3>1, <3>2 DEF new, above
  <2>7. QED
    BY <2>4, <2>5, <2>6
<1>3. QED
  BY <1>1, <1>2

LEMMA HoistedTypes ==
  ASSUME NEW tree, WellGrown(tree), NEW q \in TokensOf(tree, <<>>)
  PROVE  TypeAt(HoistTypes(tree), q) = tree[q].type
<1> DEFINE hoisted == HoistTypes(tree)
           typed == {p \in DOMAIN hoisted : IsPrefix(p, q) /\ hoisted[p].type # Untyped}
<1>1. q \in DOMAIN tree /\ q \in Path /\ IsToken(tree[q]) /\ tree[q].type # Untyped /\ IsPrefix(q, q)
  <2>1. q \in DOMAIN tree /\ q \in Path /\ IsToken(tree[q]) /\ tree[q].type # Untyped
    BY DEF TokensOf, WellGrown
  <2>2. QED
    BY <2>1, PrefixOrder
<1>2. ASSUME NEW p \in DOMAIN tree, IsPrefix(p, q), p # q
      PROVE  ~ IsToken(tree[p])
  BY <1>1, <1>2 DEF WellGrown
<1>3. \E p : typed = {p} /\ hoisted[p].type = tree[q].type
  <2>1. CASE \E home \in Homes(tree) : IsPrefix(home, q)
    <3>1. PICK home \in Homes(tree) : IsPrefix(home, q)
      BY <2>1
    <3>2. home \in DOMAIN tree
      BY DEF Homes
    <3>3. q \in TokensOf(tree, home)
      BY <1>1, <3>1 DEF TokensOf
    <3>4. hoisted[home].type = tree[q].type
      BY <3>2, <3>3, HoistedNodes, HomesOfTokens
    <3>5. ASSUME NEW p \in DOMAIN tree, IsPrefix(p, q), p # home
          PROVE  hoisted[p].type = Untyped
      <4>1. p \notin Homes(tree)
        BY <3>1, <3>5, OneHome
      <4>2. CASE p = q
        BY <1>1, <2>1, <4>2, HoistedNodes
      <4>3. CASE p # q
        BY <1>2, <3>5, <4>1, <4>3, HoistedNodes
      <4>4. QED
        BY <4>2, <4>3
    <3>6. DOMAIN hoisted = DOMAIN tree
      BY HoistedNodes
    <3>7. typed = {home}
      BY <1>1, <3>1, <3>2, <3>4, <3>5, <3>6
    <3>8. QED
      BY <3>4, <3>7
  <2>2. CASE ~ \E home \in Homes(tree) : IsPrefix(home, q)
    <3>1. hoisted[q].type = tree[q].type
      BY <1>1, <2>2, HoistedNodes
    <3>2. ASSUME NEW p \in DOMAIN tree, IsPrefix(p, q), p # q
          PROVE  hoisted[p].type = Untyped
      BY <1>2, <2>2, <3>2, HoistedNodes
    <3>3. DOMAIN hoisted = DOMAIN tree
      BY HoistedNodes
    <3>4. typed = {q}
      BY <1>1, <3>1, <3>2, <3>3
    <3>5. QED
      BY <3>1, <3>4
  <2>3. QED
    BY <2>1, <2>2
<1>4. PICK p : typed = {p} /\ hoisted[p].type = tree[q].type
  BY <1>3
<1>5. (CHOOSE s \in typed : \A r \in typed : Len(r) <= Len(s)) = p
  <2>1. p \in DOMAIN tree /\ p \in Path
    BY <1>4, HoistedNodes DEF WellGrown
  <2>2. Len(p) <= Len(p)
    BY <2>1, PrefixOrder
  <2>3. p \in typed /\ (\A r \in typed : Len(r) <= Len(p)) /\ \A s \in typed : s = p
    BY <1>4, <2>2
  <2>4. QED
    BY <2>3
<1>6. TypeAt(hoisted, q) = IF typed = {} THEN "undefined"
                           ELSE hoisted[CHOOSE s \in typed : \A r \in typed : Len(r) <= Len(s)].type
  BY DEF TypeAt
<1>7. typed # {}
  BY <1>4
<1> HIDE DEF typed, hoisted
<1>8. TypeAt(hoisted, q) = tree[q].type
  BY <1>4, <1>5, <1>6, <1>7
<1>9. QED
  BY <1>8 DEF hoisted

\* Reading a tree after hoistTypes gives every token the type it was placed with.
LEMMA HoistingKeepsTypes ==
  ASSUME NEW tree, WellGrown(tree)
  PROVE  TokensIn(HoistTypes(tree)) =
           {[path |-> q, type |-> tree[q].type, value |-> tree[q].value] : q \in TokensOf(tree, <<>>)}
<1>1. TokensOf(HoistTypes(tree), <<>>) = TokensOf(tree, <<>>)
  BY HoistedNodes DEF TokensOf
<1>2. \A q \in TokensOf(tree, <<>>) :
        /\ TypeAt(HoistTypes(tree), q) = tree[q].type
        /\ HoistTypes(tree)[q].value = tree[q].value
  BY HoistedTypes, HoistedNodes DEF TokensOf
<1>3. QED
  BY <1>1, <1>2 DEF TokensIn

-----------------------------------------------------------------------------
(* What place does to a tree.                                              *)

LEMMA EmptyTreeIsGrown == WellGrown(EmptyTree) /\ TokensOf(EmptyTree, <<>>) = {}
<1>1. DOMAIN EmptyTree = {<<>>} /\ EmptyTree[<<>>] = Group /\ ~ IsToken(Group)
  BY DEF EmptyTree, Group, IsToken
<1>2. \A p \in Path : IsPrefix(p, <<>>) => p = <<>>
  <2>1. ASSUME NEW p \in Path, IsPrefix(p, <<>>) PROVE p = <<>>
    <3>1. Len(p) <= 0 /\ Len(p) \in Nat
      BY <2>1, RootIsPrefix, PrefixOrder
    <3>2. QED
      BY <3>1, RootIsPrefix
  <2>2. QED
    BY <2>1
<1>3. WellGrown(EmptyTree)
  BY <1>1, <1>2, RootIsPrefix DEF WellGrown
<1>4. QED
  BY <1>1, <1>3 DEF TokensOf

LEMMA TakenMeans ==
  ASSUME NEW tree, WellGrown(tree), NEW path \in Path, path # <<>>
  PROVE  Taken(tree, path) <=> \E t \in TokensOf(tree, <<>>) : IsPrefix(t, path) \/ IsPrefix(path, t)
<1>1. \A p \in DOMAIN tree : p \in Path /\ IsPrefix(<<>>, p)
  BY RootIsPrefix DEF WellGrown
<1>2. ASSUME Taken(tree, path)
      PROVE  \E t \in TokensOf(tree, <<>>) : IsPrefix(t, path) \/ IsPrefix(path, t)
  <2>1. CASE path \in DOMAIN tree
    <3>1. PICK t \in TokensOf(tree, path) : TRUE
      BY <2>1 DEF WellGrown
    <3>2. QED
      BY <1>1, <3>1 DEF TokensOf
  <2>2. CASE \E p \in DOMAIN tree : IsPrefix(p, path) /\ IsToken(tree[p])
    BY <1>1, <2>2 DEF TokensOf
  <2>3. QED
    BY <1>2, <2>1, <2>2 DEF Taken
<1>3. ASSUME NEW t \in TokensOf(tree, <<>>), IsPrefix(t, path) \/ IsPrefix(path, t)
      PROVE  Taken(tree, path)
  <2>1. t \in DOMAIN tree /\ IsToken(tree[t])
    BY DEF TokensOf
  <2>2. CASE IsPrefix(t, path)
    BY <2>1, <2>2 DEF Taken
  <2>3. CASE IsPrefix(path, t)
    BY <2>1, <2>3 DEF Taken, WellGrown
  <2>4. QED
    BY <1>3, <2>2, <2>3
<1>4. QED
  BY <1>2, <1>3

LEMMA PlacedNodes ==
  ASSUME NEW tree, WellGrown(tree), NEW path \in Path, path # <<>>, ~ Taken(tree, path), NEW node
  PROVE  LET placed == Place(tree, path, node)
         IN  /\ \A q : q \in DOMAIN placed <=> q \in DOMAIN tree \/ (q \in Path /\ IsPrefix(q, path))
             /\ placed[path] = node /\ path \in DOMAIN placed
             /\ \A q \in DOMAIN tree : placed[q] = tree[q]
             /\ \A q \in DOMAIN placed : q \notin DOMAIN tree /\ q # path => placed[q] = Group
<1> DEFINE placed == Place(tree, path, node)
<1>1. placed = [p \in DOMAIN tree \union Prefixes(path) |->
                  IF p = path THEN node ELSE IF p \in DOMAIN tree THEN tree[p] ELSE Group]
  BY DEF Place
<1>2. \A q : q \in DOMAIN placed <=> q \in DOMAIN tree \/ (q \in Path /\ IsPrefix(q, path))
  BY <1>1, PrefixesArePrefixes
<1>3. path \in DOMAIN placed
  BY <1>2, PrefixOrder
<1>4. path \notin DOMAIN tree
  BY DEF Taken
<1>5. \A q \in DOMAIN tree : q \in DOMAIN placed
  BY <1>2
<1> HIDE DEF placed
<1>6. placed[path] = node
  BY <1>1, <1>3
<1>7. \A q \in DOMAIN tree : placed[q] = tree[q]
  BY <1>1, <1>4, <1>5
<1>8. \A q \in DOMAIN placed : q \notin DOMAIN tree /\ q # path => placed[q] = Group
  BY <1>1
<1>9. QED
  BY <1>2, <1>3, <1>6, <1>7, <1>8 DEF placed

LEMMA PlacingGrows ==
  ASSUME NEW tree, WellGrown(tree), NEW path \in Path, path # <<>>, ~ Taken(tree, path),
         NEW type, type # Untyped, NEW value
  PROVE  LET placed == Place(tree, path, Leaf(type, value))
         IN  /\ WellGrown(placed)
             /\ TokensOf(placed, <<>>) = TokensOf(tree, <<>>) \union {path}
             /\ placed[path] = Leaf(type, value)
             /\ \A q \in TokensOf(tree, <<>>) : placed[q] = tree[q]
<1> DEFINE leaf == Leaf(type, value)
           placed == Place(tree, path, leaf)
<1>1. /\ \A q : q \in DOMAIN placed <=> q \in DOMAIN tree \/ (q \in Path /\ IsPrefix(q, path))
      /\ placed[path] = leaf /\ path \in DOMAIN placed
      /\ \A q \in DOMAIN tree : placed[q] = tree[q]
      /\ \A q \in DOMAIN placed : q \notin DOMAIN tree /\ q # path => placed[q] = Group
  BY PlacedNodes
<1>2. IsToken(leaf) /\ leaf = Leaf(leaf.type, leaf.value) /\ leaf.type # Untyped /\ ~ IsToken(Group)
  BY DEF Leaf, IsToken, Group
<1> HIDE DEF placed, leaf
<1>3. path \notin DOMAIN tree /\ \A p \in DOMAIN tree : IsPrefix(p, path) => ~ IsToken(tree[p])
  BY DEF Taken
<1>4. DOMAIN tree \subseteq Path /\ <<>> \in DOMAIN tree
  BY DEF WellGrown
<1>5. DOMAIN placed \subseteq Path /\ <<>> \in DOMAIN placed
  BY <1>1, <1>4
<1>6. ASSUME NEW q \in DOMAIN placed, NEW p \in Path, IsPrefix(p, q)
      PROVE  p \in DOMAIN placed
  <2>1. CASE q \in DOMAIN tree
    BY <1>1, <1>6, <2>1 DEF WellGrown
  <2>2. CASE q \in Path /\ IsPrefix(q, path)
    BY <1>1, <1>6, <2>2, PrefixOrder
  <2>3. QED
    BY <1>1, <2>1, <2>2
<1>7. ASSUME NEW q \in DOMAIN placed
      PROVE  IF IsToken(placed[q]) THEN placed[q] = Leaf(placed[q].type, placed[q].value) /\ placed[q].type # Untyped
             ELSE placed[q] = Group
  <2>1. CASE q \in DOMAIN tree
    BY <1>1, <2>1 DEF WellGrown
  <2>2. CASE q = path
    BY <1>1, <1>2, <2>2
  <2>3. CASE q \notin DOMAIN tree /\ q # path
    BY <1>1, <1>2, <2>3
  <2>4. QED
    BY <2>1, <2>2, <2>3
<1>8. \A q \in DOMAIN placed : IsToken(placed[q]) <=> q = path \/ (q \in DOMAIN tree /\ IsToken(tree[q]))
  BY <1>1, <1>2, <1>3
<1>9. ASSUME NEW q \in DOMAIN placed, NEW r \in DOMAIN placed, IsPrefix(q, r), IsToken(placed[q])
      PROVE  q = r
  <2>1. q \in Path /\ r \in Path
    BY <1>5
  <2>2. CASE q = path
    <3>1. r \notin DOMAIN tree
      BY <1>3, <1>9, <2>2 DEF WellGrown
    <3>2. IsPrefix(r, path)
      BY <1>1, <3>1
    <3>3. Len(r) <= Len(q) /\ Len(q) <= Len(r) /\ Len(r) \in Nat /\ Len(q) \in Nat
      BY <1>9, <2>1, <2>2, <3>2, PrefixOrder
    <3>4. Len(q) = Len(r)
      BY <3>3
    <3>5. QED
      BY <1>9, <2>1, <3>4, PrefixOrder
  <2>3. CASE q \in DOMAIN tree /\ IsToken(tree[q])
    <3>1. CASE r \in DOMAIN tree
      BY <1>9, <2>3, <3>1 DEF WellGrown
    <3>2. CASE IsPrefix(r, path)
      BY <1>3, <1>9, <2>1, <2>3, <3>2, PrefixOrder
    <3>3. QED
      BY <1>1, <3>1, <3>2
  <2>4. QED
    BY <1>8, <1>9, <2>2, <2>3
<1>10. ASSUME NEW q \in DOMAIN placed, q # <<>>
       PROVE  TokensOf(placed, q) # {}
  <2>1. CASE q \in DOMAIN tree
    <3>1. PICK t \in TokensOf(tree, q) : TRUE
      BY <1>10, <2>1 DEF WellGrown
    <3>2. t \in TokensOf(placed, q)
      BY <1>1, <3>1 DEF TokensOf
    <3>3. QED
      BY <3>2
  <2>2. CASE IsPrefix(q, path)
    <3>1. path \in TokensOf(placed, q)
      BY <1>1, <1>2, <2>2 DEF TokensOf
    <3>2. QED
      BY <3>1
  <2>3. QED
    BY <1>1, <2>1, <2>2
<1>11. WellGrown(placed)
  BY <1>5, <1>6, <1>7, <1>9, <1>10 DEF WellGrown
<1>12. TokensOf(placed, <<>>) = TokensOf(tree, <<>>) \union {path}
  <2>1. \A q \in DOMAIN placed : IsPrefix(<<>>, q)
    BY <1>5, RootIsPrefix
  <2>2. \A q : q \in TokensOf(placed, <<>>) <=> q \in TokensOf(tree, <<>>) \/ q = path
    BY <1>1, <1>8, <2>1 DEF TokensOf
  <2>3. QED
    BY <2>2
<1>13. \A q \in TokensOf(tree, <<>>) : placed[q] = tree[q]
  BY <1>1 DEF TokensOf
<1>14. QED
  BY <1>1, <1>11, <1>12, <1>13 DEF placed, leaf

LEMMA TypesAreTypes ==
  ASSUME NEW variable, variable.scopes \in Seq(STRING),
         variable.resolvedType \in {"COLOR", "FLOAT", "STRING", "BOOLEAN"}
  PROVE  DtcgType(variable) # Untyped
<1> DEFINE telling == {i \in DOMAIN variable.scopes : variable.scopes[i] \in DOMAIN ScopeTypes}
           first == CHOOSE i \in telling : \A j \in telling : i <= j
<1>1. DtcgType(variable) = IF telling = {} THEN ResolvedTypes[variable.resolvedType]
                           ELSE ScopeTypes[variable.scopes[first]]
  BY DEF DtcgType
<1>2. ResolvedTypes[variable.resolvedType] # Untyped
  BY DEF ResolvedTypes, Untyped
<1>3. ASSUME telling # {} PROVE first \in telling
  <2>1. telling \subseteq Nat
    OBVIOUS
  <2>2. \E i \in telling : \A j \in telling : i <= j
    BY <1>3, <2>1, Least
  <2>3. QED
    BY <2>2
<1>4. \A scope \in DOMAIN ScopeTypes : ScopeTypes[scope] # Untyped
  BY DEF ScopeTypes, Untyped
<1>5. QED
  BY <1>1, <1>2, <1>3, <1>4

-----------------------------------------------------------------------------
(* The inductive invariant.                                                *)

NameOf(g) == payload[g[1]].name
LeafOf(g) == Leaf(DtcgType(payload[g[1]]), ValueOf(g))

\* What has been placed, and what has been placed into a file.
Placed == {g \in Given : g[1] < at \/ (g[1] = at /\ g[2] \notin Range(modes))}
PlacedIn(f) == {g \in Placed : InFile(g) = f}

\* The tokens of a tree are those of the values S.
TreeHolds(tree, S) ==
  /\ WellGrown(tree)
  /\ TokensOf(tree, <<>>) = {NameOf(g) : g \in S}
  /\ \A g \in S : tree[NameOf(g)] = LeafOf(g)

\* The loops go through the payload in order, and through every mode once.
LoopInv ==
  /\ payload \in Payloads /\ at \in 0 .. Len(payload)
  /\ modes # <<>> => at # 0 /\ modes \in Seq(Range(Collections[payload[at].collection]))
  /\ \A i, j \in DOMAIN modes : modes[i] = modes[j] => i = j
  /\ \A i \in 1 .. at : payload[i].collection \in DOMAIN Collections

\* What has been placed is fine, and is what the files hold.
PlacedInv ==
  /\ \A g \in Placed : ValueOf(g).form # "error"
  /\ \A g, h \in Placed : g # h /\ InFile(g) = InFile(h) => ~ IsPrefix(NameOf(g), NameOf(h))
  /\ DOMAIN files = {InFile(g) : g \in Placed}
  /\ Placed = {} => files = <<>>
  /\ \A f \in DOMAIN files : TreeHolds(files[f], PlacedIn(f))

FigmaInv ==
  /\ result = "placing" => LoopInv /\ PlacedInv
  /\ result # "placing" => TypesSurviveHoisting

-----------------------------------------------------------------------------
(* Steps.                                                                  *)

LEMMA Variables ==
  ASSUME payload \in Payloads
  PROVE  /\ Len(payload) \in Nat /\ DOMAIN payload = 1 .. Len(payload)
         /\ \A i \in DOMAIN payload :
              /\ payload[i].name \in Path /\ payload[i].name # <<>>
              /\ DtcgType(payload[i]) # Untyped
BY PayloadsAssumption, TypesAreTypes DEF Path

LEMMA GivenElements ==
  \A i, m : <<i, m>> \in Given <=>
    /\ i \in DOMAIN payload /\ payload[i].collection \in DOMAIN Collections
    /\ m \in ModesOf(i) /\ payload[i].raw[m] # NoRaw
BY DEF Given, ModesOf

LEMMA GivenArePairs ==
  \A g \in Given : g = <<g[1], g[2]>> /\ g[1] \in DOMAIN payload
BY DEF Given

\* The payload does not change, and so nothing that is said about it alone.
LEMMA PayloadStays ==
  ASSUME payload' = payload
  PROVE  /\ \A g : InFile(g)' = InFile(g) /\ ValueOf(g)' = ValueOf(g) /\ NameOf(g)' = NameOf(g) /\ LeafOf(g)' = LeafOf(g)
         /\ \A i : ModesOf(i)' = ModesOf(i)
         /\ Given' = Given /\ (Convertible' <=> Convertible)
         /\ \A tree, S : TreeHolds(tree, S)' <=> TreeHolds(tree, S)
<1>1. \A g : InFile(g)' = InFile(g) /\ ValueOf(g)' = ValueOf(g) /\ NameOf(g)' = NameOf(g)
  BY DEF InFile, ValueOf, NameOf, Converted
<1>2. \A i : ModesOf(i)' = ModesOf(i)
  BY DEF ModesOf
<1>3. Given' = Given
  BY <1>2 DEF Given
<1>4. Convertible' <=> Convertible
  BY <1>1, <1>3 DEF Convertible
<1>5. \A g : LeafOf(g)' = LeafOf(g)
  BY <1>1 DEF LeafOf
<1>6. \A tree, S : TreeHolds(tree, S)' <=> TreeHolds(tree, S)
  BY <1>1, <1>5 DEF TreeHolds
<1>7. QED
  BY <1>1, <1>2, <1>3, <1>4, <1>5, <1>6

LEMMA RefusedPayloads ==
  ASSUME ~ Convertible, NEW error, error \notin {"placing", "done"}, FigmaThrow(error)
  PROVE  FigmaInv'
<1>1. payload' = payload /\ result' = error
  BY DEF FigmaThrow
<1>2. ~ Convertible'
  BY <1>1, PayloadStays
<1>3. QED
  BY <1>1, <1>2 DEF FigmaInv, TypesSurviveHoisting

LEMMA PlacedStay ==
  ASSUME payload' = payload, files' = files, Placed' = Placed, PlacedInv
  PROVE  PlacedInv'
<1>1. \A f : PlacedIn(f)' = PlacedIn(f)
  BY PayloadStays DEF PlacedIn
<1>2. QED
  BY <1>1, PayloadStays DEF PlacedInv

LEMMA FigmaStarts ==
  ASSUME FigmaInit
  PROVE  FigmaInv
<1>1. payload \in Payloads /\ at = 0 /\ modes = <<>> /\ files = <<>> /\ result = "placing"
  BY DEF FigmaInit
<1>2. DOMAIN payload = 1 .. Len(payload) /\ Len(payload) \in Nat
  BY <1>1, Variables
<1>3. LoopInv
  BY <1>1, <1>2 DEF LoopInv
<1>4. Placed = {}
  <2>1. \A g \in Given : g[1] \in 1 .. Len(payload)
    BY <1>2, GivenArePairs
  <2>2. QED
    BY <1>1, <1>2, <2>1 DEF Placed
<1>5. PlacedInv
  BY <1>1, <1>4 DEF PlacedInv
<1>6. QED
  BY <1>1, <1>3, <1>5 DEF FigmaInv

LEMMA NextVariablePreserves ==
  ASSUME LoopInv, PlacedInv, NextVariable
  PROVE  FigmaInv'
<1> DEFINE collection == payload[at + 1].collection
<1>1. payload \in Payloads /\ at \in Nat /\ modes = <<>> /\ at + 1 \in DOMAIN payload /\ result = "placing"
        /\ DOMAIN payload = 1 .. Len(payload) /\ Len(payload) \in Nat
  <2>1. payload \in Payloads /\ at \in 0 .. Len(payload)
    BY DEF LoopInv
  <2>2. at < Len(payload) /\ modes = <<>> /\ result = "placing"
    BY DEF NextVariable
  <2>3. DOMAIN payload = 1 .. Len(payload) /\ Len(payload) \in Nat
    BY <2>1, Variables
  <2>4. QED
    BY <2>1, <2>2, <2>3
<1>2. CASE collection \notin DOMAIN Collections
  <2>1. ~ Convertible
    BY <1>1, <1>2 DEF Convertible
  <2>2. FigmaThrow("unknown collection")
    BY <1>2 DEF NextVariable
  <2>3. QED
    BY <2>1, <2>2, RefusedPayloads
<1>3. CASE collection \in DOMAIN Collections
  <2>1. at' = at + 1 /\ modes' = Collections[collection] /\ UNCHANGED <<payload, files, result>>
    BY <1>3 DEF NextVariable
  <2>2. modes' \in Seq(Range(Collections[collection])) /\ \A i, j \in DOMAIN modes' : modes'[i] = modes'[j] => i = j
    BY <1>3, <2>1, CollectionsAssumption
  <2>3. payload'[at'].collection = collection
    BY <2>1
  <2>4. \A i \in 1 .. at + 1 : i \in 1 .. at \/ i = at + 1
    BY <1>1
  <2>5. LoopInv'
    <3>1. at' \in 0 .. Len(payload') /\ at' # 0
      BY <1>1, <2>1
    <3>2. \A i \in 1 .. at' : payload'[i].collection \in DOMAIN Collections
      BY <1>3, <2>1, <2>4 DEF LoopInv
    <3>3. QED
      BY <1>1, <2>1, <2>2, <2>3, <3>1, <3>2 DEF LoopInv
  <2>6. Placed' = Placed
    <3>1. Range(modes') = ModesOf(at + 1) /\ Range(modes) = {}
      BY <1>1, <2>1 DEF ModesOf, Range
    <3>2. Given' = Given
      BY <2>1, PayloadStays
    <3>3. ASSUME NEW g \in Given
          PROVE  (g[1] < at' \/ (g[1] = at' /\ g[2] \notin Range(modes')))
                   <=> (g[1] < at \/ (g[1] = at /\ g[2] \notin Range(modes)))
      <4>1. g[1] \in Nat /\ (g[1] = at + 1 => g[2] \in ModesOf(at + 1))
        BY <1>1, GivenArePairs, GivenElements
      <4>2. QED
        BY <1>1, <2>1, <3>1, <4>1
    <3>4. QED
      BY <3>2, <3>3 DEF Placed
  <2>7. PlacedInv'
    BY <2>1, <2>6, PlacedStay
  <2>8. QED
    BY <1>1, <2>1, <2>5, <2>7 DEF FigmaInv
<1>4. QED
  BY <1>2, <1>3

\* The value that PlaceNext is at.
LEMMA NextValue ==
  ASSUME LoopInv, modes # <<>>, NEW g, g = <<at, Head(modes)>>
  PROVE  /\ at \in DOMAIN payload /\ at \in Nat /\ g \notin Placed
         /\ InFile(g) = <<payload[at].collection, Head(modes)>>
         /\ NameOf(g) = payload[at].name /\ LeafOf(g) = Leaf(DtcgType(payload[at]), ValueOf(g))
         /\ ValueOf(g) = Converted(payload[at], payload[at].raw[Head(modes)])
         /\ g \in Given <=> payload[at].raw[Head(modes)] # NoRaw
<1>1. at \in 1 .. Len(payload) /\ at \in Nat /\ DOMAIN payload = 1 .. Len(payload)
  <2>1. payload \in Payloads /\ at \in 0 .. Len(payload) /\ at # 0
    BY DEF LoopInv
  <2>2. DOMAIN payload = 1 .. Len(payload) /\ Len(payload) \in Nat
    BY <2>1, Variables
  <2>3. QED
    BY <2>1, <2>2
<1> DEFINE range == Range(Collections[payload[at].collection])
<1>2. modes \in Seq(range)
  BY DEF LoopInv
<1>3. payload[at].collection \in DOMAIN Collections
  BY <1>1 DEF LoopInv
<1> HIDE DEF range
<1>4. Head(modes) \in range /\ Head(modes) = modes[1] /\ 1 \in DOMAIN modes
  BY <1>2
<1>5. g \in Given <=> payload[at].raw[Head(modes)] # NoRaw
  BY <1>1, <1>3, <1>4, GivenElements DEF range, ModesOf
<1>6. g \notin Placed
  BY <1>1, <1>4 DEF Placed, Range
<1>7. QED
  BY <1>1, <1>5, <1>6 DEF InFile, NameOf, LeafOf, ValueOf

\* The loop after it.
LEMMA ValueIsNext ==
  ASSUME LoopInv, modes # <<>>,
         payload' = payload, at' = at, modes' = Tail(modes), NEW g, g = <<at, Head(modes)>>
  PROVE  LoopInv' /\ Placed' = IF g \in Given THEN Placed \union {g} ELSE Placed
<1>1. at \in DOMAIN payload /\ at \in Nat
  BY NextValue
<1> DEFINE range == Range(Collections[payload[at].collection])
<1>2. modes \in Seq(range) /\ \A i, j \in DOMAIN modes : modes[i] = modes[j] => i = j
  BY DEF LoopInv
<1> HIDE DEF range
<1>4. /\ Head(modes) \in range /\ Head(modes) = modes[1] /\ 1 \in DOMAIN modes
      /\ Tail(modes) \in Seq(range)
      /\ Len(modes) \in Nat /\ Len(modes) >= 1 /\ DOMAIN modes = 1 .. Len(modes)
      /\ Len(Tail(modes)) = Len(modes) - 1 /\ DOMAIN Tail(modes) = 1 .. Len(modes) - 1
      /\ \A i \in DOMAIN Tail(modes) : Tail(modes)[i] = modes[i + 1]
  BY <1>2
<1>5. \A i, j \in DOMAIN Tail(modes) : Tail(modes)[i] = Tail(modes)[j] => i = j
  BY <1>2, <1>4
<1>6. /\ \A m \in Range(modes) : m = Head(modes) \/ m \in Range(Tail(modes))
      /\ \A m \in Range(Tail(modes)) : m \in Range(modes) /\ m # Head(modes)
      /\ Head(modes) \in Range(modes)
  <2>1. ASSUME NEW m \in Range(modes), m # Head(modes) PROVE m \in Range(Tail(modes))
    <3>1. PICK i \in DOMAIN modes : m = modes[i]
      BY DEF Range
    <3>2. i - 1 \in DOMAIN Tail(modes) /\ Tail(modes)[i - 1] = m
      BY <1>4, <2>1, <3>1
    <3>3. QED
      BY <3>2 DEF Range
  <2>2. ASSUME NEW m \in Range(Tail(modes)) PROVE m \in Range(modes) /\ m # Head(modes)
    <3>1. PICK i \in DOMAIN Tail(modes) : m = Tail(modes)[i]
      BY DEF Range
    <3>2. i + 1 \in DOMAIN modes /\ m = modes[i + 1] /\ i + 1 # 1
      BY <1>4, <3>1
    <3>3. QED
      BY <1>2, <1>4, <3>2 DEF Range
  <2>3. QED
    BY <1>4, <2>1, <2>2 DEF Range
<1>7. LoopInv'
  <2>1. payload' \in Payloads /\ at' \in 0 .. Len(payload') /\ at' # 0
    BY DEF LoopInv
  <2>2. modes' \in Seq(Range(Collections[payload'[at'].collection]))
    BY <1>4 DEF range
  <2>3. \A i \in 1 .. at' : payload'[i].collection \in DOMAIN Collections
    BY DEF LoopInv
  <2>4. \A i, j \in DOMAIN modes' : modes'[i] = modes'[j] => i = j
    BY <1>5
  <2>5. QED
    BY <2>1, <2>2, <2>3, <2>4 DEF LoopInv
<1>8. Placed' = IF g \in Given THEN Placed \union {g} ELSE Placed
  <2>1. Given' = Given
    BY PayloadStays
  <2>2. ASSUME NEW h \in Given
        PROVE  (h[1] < at' \/ (h[1] = at' /\ h[2] \notin Range(modes')))
                 <=> h = g \/ h[1] < at \/ (h[1] = at /\ h[2] \notin Range(modes))
    <3>1. h = <<h[1], h[2]>>
      BY GivenArePairs
    <3>2. h = g <=> h[1] = at /\ h[2] = Head(modes)
      BY <3>1
    <3>3. QED
      BY <1>1, <1>6, <3>2
  <2>3. QED
    BY <2>1, <2>2 DEF Placed
<1>9. QED
  BY <1>7, <1>8

\* The tree a value goes into.
TreeOf(f) == IF f \in DOMAIN files THEN files[f] ELSE EmptyTree

LEMMA TreesHold ==
  ASSUME PlacedInv, NEW f
  PROVE  TreeHolds(TreeOf(f), PlacedIn(f))
<1>1. CASE f \in DOMAIN files
  BY <1>1 DEF PlacedInv, TreeOf
<1>2. CASE f \notin DOMAIN files
  <2>1. PlacedIn(f) = {}
    BY <1>2 DEF PlacedInv, PlacedIn
  <2>2. QED
    BY <1>2, <2>1, EmptyTreeIsGrown DEF TreeOf, TreeHolds
<1>3. QED
  BY <1>1, <1>2

LEMMA TreesGrow ==
  ASSUME payload \in Payloads, NEW g, g[1] \in DOMAIN payload, NEW tree, NEW S, TreeHolds(tree, S),
         ~ Taken(tree, NameOf(g))
  PROVE  TreeHolds(Place(tree, NameOf(g), LeafOf(g)), S \union {g})
<1> DEFINE placed == Place(tree, NameOf(g), LeafOf(g))
<1>1. NameOf(g) \in Path /\ NameOf(g) # <<>> /\ DtcgType(payload[g[1]]) # Untyped
  BY Variables DEF NameOf
<1>2. /\ WellGrown(placed)
      /\ TokensOf(placed, <<>>) = TokensOf(tree, <<>>) \union {NameOf(g)}
      /\ placed[NameOf(g)] = LeafOf(g)
      /\ \A q \in TokensOf(tree, <<>>) : placed[q] = tree[q]
  BY <1>1, PlacingGrows DEF TreeHolds, LeafOf
<1> HIDE DEF placed
<1>3. TokensOf(placed, <<>>) = {NameOf(h) : h \in S \union {g}}
  BY <1>2 DEF TreeHolds
<1>4. \A h \in S \union {g} : placed[NameOf(h)] = LeafOf(h)
  BY <1>2 DEF TreeHolds
<1>5. QED
  BY <1>2, <1>3, <1>4 DEF TreeHolds, placed

LEMMA PlaceNextPreserves ==
  ASSUME LoopInv, PlacedInv, PlaceNext
  PROVE  FigmaInv'
<1> DEFINE v == payload[at]
           raw == v.raw[Head(modes)]
           file == <<v.collection, Head(modes)>>
           g == <<at, Head(modes)>>
           node == Leaf(DtcgType(v), Converted(v, raw))
<1>1. result = "placing" /\ modes # <<>> /\ payload \in Payloads
  BY DEF PlaceNext, LoopInv
<1>2. /\ at \in DOMAIN payload /\ at \in Nat /\ g \notin Placed
      /\ InFile(g) = file /\ NameOf(g) = v.name /\ LeafOf(g) = node
      /\ ValueOf(g) = Converted(v, raw)
      /\ g \in Given <=> raw # NoRaw
  BY <1>1, NextValue
<1>3. node.value = ValueOf(g) /\ g[1] = at
  BY <1>2 DEF Leaf
<1>4. \/ raw = NoRaw /\ modes' = Tail(modes) /\ UNCHANGED <<payload, at, files, result>>
      \/ raw # NoRaw /\ node.value.form = "error" /\ FigmaThrow("value")
      \/ raw # NoRaw /\ node.value.form # "error" /\ Taken(TreeOf(file), v.name) /\ FigmaThrow("defined twice")
      \/ /\ raw # NoRaw /\ node.value.form # "error" /\ ~ Taken(TreeOf(file), v.name)
         /\ files' = [f \in DOMAIN files \union {file} |-> IF f = file THEN Place(TreeOf(file), v.name, node) ELSE files[f]]
         /\ modes' = Tail(modes)
         /\ UNCHANGED <<payload, at, result>>
  BY DEF PlaceNext, TreeOf
<1>5. TreeHolds(TreeOf(file), PlacedIn(file))
  BY TreesHold
<1> HIDE DEF v, raw, file, node, g
<1>6. CASE raw = NoRaw /\ modes' = Tail(modes) /\ UNCHANGED <<payload, at, files, result>>
  <2>1. LoopInv' /\ Placed' = Placed
    BY <1>1, <1>2, <1>6, ValueIsNext DEF g
  <2>2. PlacedInv'
    BY <1>6, <2>1, PlacedStay
  <2>3. QED
    BY <1>1, <1>6, <2>1, <2>2 DEF FigmaInv
<1>7. CASE raw # NoRaw /\ node.value.form = "error" /\ FigmaThrow("value")
  <2>1. ~ Convertible
    BY <1>2, <1>3, <1>7 DEF Convertible
  <2>2. QED
    BY <1>7, <2>1, RefusedPayloads
<1>8. CASE raw # NoRaw /\ node.value.form # "error" /\ Taken(TreeOf(file), v.name) /\ FigmaThrow("defined twice")
  <2>1. v.name \in Path /\ v.name # <<>>
    BY <1>1, <1>2, Variables DEF v
  <2>2. PICK t \in TokensOf(TreeOf(file), <<>>) : IsPrefix(t, v.name) \/ IsPrefix(v.name, t)
    BY <1>5, <1>8, <2>1, TakenMeans DEF TreeHolds
  <2>3. PICK h \in PlacedIn(file) : t = NameOf(h)
    BY <1>5, <2>2 DEF TreeHolds
  <2>4. h \in Given /\ h # g /\ g \in Given /\ InFile(h) = InFile(g)
    BY <1>2, <1>8, <2>3 DEF PlacedIn, Placed
  <2>5. IsPrefix(NameOf(h), NameOf(g)) \/ IsPrefix(NameOf(g), NameOf(h))
    BY <1>2, <2>2, <2>3
  <2>6. ~ Convertible
    BY <2>4, <2>5 DEF Convertible, NameOf
  <2>7. QED
    BY <1>8, <2>6, RefusedPayloads
<1>9. CASE /\ raw # NoRaw /\ node.value.form # "error" /\ ~ Taken(TreeOf(file), v.name)
           /\ files' = [f \in DOMAIN files \union {file} |-> IF f = file THEN Place(TreeOf(file), v.name, node) ELSE files[f]]
           /\ modes' = Tail(modes)
           /\ UNCHANGED <<payload, at, result>>
  <2>1. LoopInv' /\ Placed' = Placed \union {g} /\ g \in Given
    BY <1>1, <1>2, <1>9, ValueIsNext DEF g
  <2>2. DOMAIN files' = DOMAIN files \union {file} /\ files'[file] = Place(TreeOf(file), v.name, node)
          /\ \A f \in DOMAIN files : f # file => files'[f] = files[f]
    BY <1>9
  <2>3. \A f : PlacedIn(f)' = IF f = file THEN PlacedIn(f) \union {g} ELSE PlacedIn(f)
    BY <1>2, <1>9, <2>1, PayloadStays DEF PlacedIn
  <2>4. TreeHolds(files'[file], PlacedIn(file) \union {g})
    BY <1>1, <1>2, <1>3, <1>5, <1>9, <2>2, TreesGrow
  <2>5. \A f \in DOMAIN files' : TreeHolds(files'[f], PlacedIn(f)')
    BY <2>2, <2>3, <2>4 DEF PlacedInv
  <2>6. \A h \in PlacedIn(file) : ~ IsPrefix(NameOf(h), NameOf(g)) /\ ~ IsPrefix(NameOf(g), NameOf(h))
    <3>1. v.name \in Path /\ v.name # <<>>
      BY <1>1, <1>2, Variables DEF v
    <3>2. \A h \in PlacedIn(file) : NameOf(h) \in TokensOf(TreeOf(file), <<>>)
      BY <1>5 DEF TreeHolds
    <3>3. QED
      BY <1>2, <1>5, <1>9, <3>1, <3>2, TakenMeans DEF TreeHolds
  <2>7. \A h, k \in Placed \union {g} : h # k /\ InFile(h) = InFile(k) => ~ IsPrefix(NameOf(h), NameOf(k))
    BY <1>2, <2>6 DEF PlacedInv, PlacedIn
  <2>8. \A h \in Placed \union {g} : ValueOf(h).form # "error"
    BY <1>3, <1>9 DEF PlacedInv
  <2>9. DOMAIN files' = {InFile(h) : h \in Placed \union {g}}
    BY <1>2, <2>2 DEF PlacedInv
  <2>10. \A h : InFile(h)' = InFile(h) /\ NameOf(h)' = NameOf(h) /\ ValueOf(h)' = ValueOf(h)
    BY <1>9, PayloadStays
  <2>11. \A tree, S : TreeHolds(tree, S)' <=> TreeHolds(tree, S)
    BY <1>9, PayloadStays
  <2>12. PlacedInv'
    <3>1. \A f \in DOMAIN files' : TreeHolds(files[f], PlacedIn(f))'
      BY <2>5, <2>11
    <3>2. QED
      BY <2>1, <2>7, <2>8, <2>9, <2>10, <3>1 DEF PlacedInv
  <2>13. QED
    BY <1>1, <1>9, <2>1, <2>12 DEF FigmaInv
<1>10. QED
  BY <1>4, <1>6, <1>7, <1>8, <1>9

LEMMA FinishPreserves ==
  ASSUME LoopInv, PlacedInv, Finish
  PROVE  FigmaInv'
<1>1. payload \in Payloads /\ modes = <<>> /\ at = Len(payload) /\ result = "placing"
  BY DEF LoopInv, Finish
<1>2. DOMAIN payload = 1 .. Len(payload) /\ Len(payload) \in Nat
  BY <1>1, Variables
<1>3. Placed = Given
  <2>1. Range(modes) = {}
    BY <1>1 DEF Range
  <2>2. ASSUME NEW g \in Given PROVE g[1] < at \/ (g[1] = at /\ g[2] \notin Range(modes))
    <3>1. g[1] \in 1 .. Len(payload)
      BY <1>2, GivenArePairs
    <3>2. QED
      BY <1>1, <1>2, <2>1, <3>1
  <2>3. QED
    BY <2>2 DEF Placed
<1>4. CASE files = <<>>
  <2>1. Given = {}
    <3>1. DOMAIN files = {}
      BY <1>4
    <3>2. QED
      BY <1>3, <3>1 DEF PlacedInv
  <2>2. ~ Convertible
    BY <2>1 DEF Convertible
  <2>3. FigmaThrow("no variables")
    BY <1>4 DEF Finish
  <2>4. QED
    BY <2>2, <2>3, RefusedPayloads
<1>5. CASE files # <<>>
  <2>1. files' = [f \in DOMAIN files |-> HoistTypes(files[f])] /\ result' = "done" /\ payload' = payload
    BY <1>5 DEF Finish
  <2>2. Convertible
    <3>1. Given # {}
      BY <1>3, <1>5 DEF PlacedInv
    <3>2. \A i \in DOMAIN payload : payload[i].collection \in DOMAIN Collections
      BY <1>1, <1>2 DEF LoopInv
    <3>3. QED
      BY <1>3, <3>1, <3>2 DEF Convertible, PlacedInv, NameOf
  <2>3. DOMAIN files' = {InFile(g) : g \in Given}
    BY <1>3, <2>1 DEF PlacedInv
  <2>4. ASSUME NEW f \in DOMAIN files'
        PROVE  TokensIn(files'[f]) =
                 {[path |-> payload[g[1]].name, type |-> DtcgType(payload[g[1]]), value |-> ValueOf(g)]
                    : g \in {h \in Given : InFile(h) = f}}
    <3> DEFINE tree == files[f]
               S == {h \in Given : InFile(h) = f}
    <3>1. TreeHolds(tree, S) /\ files'[f] = HoistTypes(tree)
      BY <1>3, <2>1 DEF PlacedInv, PlacedIn
    <3> HIDE DEF tree, S
    <3>2. TokensIn(files'[f]) =
            {[path |-> q, type |-> tree[q].type, value |-> tree[q].value] : q \in {NameOf(g) : g \in S}}
      BY <3>1, HoistingKeepsTypes DEF TreeHolds
    <3>3. \A g \in S : tree[NameOf(g)].type = DtcgType(payload[g[1]]) /\ tree[NameOf(g)].value = ValueOf(g)
      <4>1. ASSUME NEW g \in S
            PROVE  tree[NameOf(g)].type = DtcgType(payload[g[1]]) /\ tree[NameOf(g)].value = ValueOf(g)
        <5>1. tree[NameOf(g)] = Leaf(DtcgType(payload[g[1]]), ValueOf(g))
          BY <3>1 DEF TreeHolds, LeafOf
        <5>2. QED
          BY <5>1 DEF Leaf
      <4>2. QED
        BY <4>1
    <3>4. {[path |-> q, type |-> tree[q].type, value |-> tree[q].value] : q \in {NameOf(g) : g \in S}}
            = {[path |-> NameOf(g), type |-> DtcgType(payload[g[1]]), value |-> ValueOf(g)] : g \in S}
      BY <3>3
    <3>5. QED
      BY <3>2, <3>4 DEF S, NameOf
  <2>5. Given' = Given /\ (Convertible' <=> Convertible)
          /\ \A g : InFile(g)' = InFile(g) /\ ValueOf(g)' = ValueOf(g)
    BY <2>1, PayloadStays
  <2>6. TypesSurviveHoisting'
    BY <2>1, <2>2, <2>3, <2>4, <2>5 DEF TypesSurviveHoisting
  <2>7. QED
    BY <2>1, <2>6 DEF FigmaInv
<1>6. QED
  BY <1>4, <1>5

LEMMA FigmaInvIsInductive ==
  ASSUME FigmaInv, [FigmaNext]_figmaVars
  PROVE  FigmaInv'
<1>1. CASE FigmaNext
  <2>1. result = "placing"
    BY <1>1 DEF FigmaNext, NextVariable, PlaceNext, Finish
  <2>2. LoopInv /\ PlacedInv
    BY <2>1 DEF FigmaInv
  <2>3. QED
    BY <1>1, <2>2, NextVariablePreserves, PlaceNextPreserves, FinishPreserves DEF FigmaNext
<1>2. CASE UNCHANGED figmaVars
  <2>1. UNCHANGED <<payload, at, modes, files, result>>
    BY <1>2 DEF figmaVars
  <2>2. LoopInv => LoopInv'
    BY <2>1 DEF LoopInv
  <2>3. Placed' = Placed
    BY <2>1, PayloadStays DEF Placed
  <2>4. PlacedInv => PlacedInv'
    BY <2>1, <2>3, PlacedStay
  <2>5. TypesSurviveHoisting => TypesSurviveHoisting'
    <3>1. Given' = Given /\ (Convertible' <=> Convertible)
            /\ \A g : InFile(g)' = InFile(g) /\ ValueOf(g)' = ValueOf(g)
      BY <2>1, PayloadStays
    <3>2. QED
      BY <2>1, <3>1 DEF TypesSurviveHoisting
  <2>6. result' = result
    BY <2>1
  <2>7. QED
    BY <2>2, <2>4, <2>5, <2>6 DEF FigmaInv
<1>3. QED
  BY <1>1, <1>2

\* For any payload and any collections, however deep the names: toDtcgFiles
\* (variables.ts) makes files of exactly the payloads that fit into trees, and
\* tokensIn (dtcg.ts) reads every variable back from them with its own type and
\* value, however far hoistTypes moved the types that groups share.
THEOREM ReadBackAsGiven == FigmaSpec => []TypesSurviveHoisting
<1>1. FigmaInv => TypesSurviveHoisting
  BY DEF FigmaInv, TypesSurviveHoisting
<1>2. QED
  BY <1>1, FigmaStarts, FigmaInvIsInductive, PTL DEF FigmaSpec
=============================================================================
