----------------------------- MODULE TotalsProofs -----------------------------
(***************************************************************************)
(* What the totals of Totals obey: a total is a number, one more item adds *)
(* its amount, and fewer or smaller items never make more.                 *)
(***************************************************************************)
EXTENDS Totals, Integers, FiniteSetTheorems, TLAPS

\* A unit belongs to one item.
LEMMA UnitsMembers ==
  ASSUME NEW amount, NEW u
  PROVE  u \in Units(amount) <=>
           \E x \in DOMAIN amount : \E i \in 1 .. amount[x] : u = <<x, i>>
BY DEF Units

\* Finitely many items have finitely many units: a total is a natural number.
LEMMA TotalType ==
  ASSUME NEW S, IsFiniteSet(S), NEW amount \in [S -> Nat]
  PROVE  IsFiniteSet(Units(amount)) /\ Total(amount) \in Nat
<1> DEFINE parts == {{x} \X (1 .. amount[x]) : x \in S}
           part == [x \in S |-> {x} \X (1 .. amount[x])]
<1>1. part \in Surjection(S, parts)
  BY DEF Surjection
<1>2. IsFiniteSet(parts)
  <2> HIDE DEF parts, part
  <2> QED BY <1>1, FS_Surjection
<1>3. ASSUME NEW P \in parts PROVE IsFiniteSet(P)
  <2>1. PICK x \in S : P = {x} \X (1 .. amount[x])
    OBVIOUS
  <2>2. IsFiniteSet({x})
    BY FS_Singleton
  <2>3. IsFiniteSet(1 .. amount[x])
    BY FS_Interval
  <2> QED BY <2>1, <2>2, <2>3, FS_Product
<1>4. IsFiniteSet(UNION parts)
  <2> HIDE DEF parts
  <2> QED BY <1>2, <1>3, FS_UNION
<1>5. Units(amount) = UNION parts
  BY DEF Units
<1> QED BY <1>4, <1>5, FS_CardinalityType DEF Total

\* Fewer items of smaller amounts make no more.
LEMMA TotalMonotone ==
  ASSUME NEW S, NEW T, IsFiniteSet(T), S \subseteq T,
         NEW small \in [S -> Nat], NEW large \in [T -> Nat],
         \A x \in S : small[x] <= large[x]
  PROVE  Total(small) <= Total(large)
<1>1. Units(small) \subseteq Units(large)
  <2> SUFFICES ASSUME NEW u \in Units(small) PROVE u \in Units(large)
    OBVIOUS
  <2>1. PICK x \in S : \E i \in 1 .. small[x] : u = <<x, i>>
    BY UnitsMembers
  <2>2. PICK i \in 1 .. small[x] : u = <<x, i>>
    BY <2>1
  <2>3. i \in 1 .. large[x]
    OBVIOUS
  <2> QED BY <2>2, <2>3, UnitsMembers
<1>2. IsFiniteSet(Units(large))
  BY TotalType
<1> QED BY <1>1, <1>2, FS_Subset DEF Total

\* One more item adds its amount.
LEMMA TotalWithOneMore ==
  ASSUME NEW S, IsFiniteSet(S), NEW e, e \notin S,
         NEW T, T = S \cup {e},
         NEW old \in [S -> Nat], NEW new \in [T -> Nat],
         \A x \in S : new[x] = old[x]
  PROVE  Total(new) = Total(old) + new[e]
<1> DEFINE extra == {e} \X (1 .. new[e])
<1>1. Units(new) = Units(old) \cup extra
  <2>1. ASSUME NEW u PROVE u \in Units(new) <=> u \in Units(old) \cup extra
    <3>1. u \in Units(new) <=>
            \E x \in S \cup {e} : \E i \in 1 .. new[x] : u = <<x, i>>
      BY UnitsMembers
    <3>2. u \in Units(old) <=> \E x \in S : \E i \in 1 .. old[x] : u = <<x, i>>
      BY UnitsMembers
    <3>3. u \in extra <=> \E i \in 1 .. new[e] : u = <<e, i>>
      OBVIOUS
    <3> HIDE DEF extra
    <3> QED BY <3>1, <3>2, <3>3
  <2> QED BY <2>1
<1>2. Units(old) \cap extra = {}
  <2> SUFFICES ASSUME NEW u, u \in Units(old), u \in extra PROVE FALSE
    OBVIOUS
  <2>1. PICK x \in S : \E i \in 1 .. old[x] : u = <<x, i>>
    BY UnitsMembers
  <2>2. \E i \in 1 .. new[e] : u = <<e, i>>
    OBVIOUS
  <2> QED BY <2>1, <2>2
<1>3. IsFiniteSet(Units(old)) /\ Cardinality(Units(old)) \in Nat
  BY TotalType, FS_CardinalityType
<1>4. IsFiniteSet(extra) /\ Cardinality(extra) = new[e]
  <2>1. IsFiniteSet({e}) /\ Cardinality({e}) = 1
    BY FS_Singleton
  <2>2. new[e] \in Nat
    OBVIOUS
  <2>3. IsFiniteSet(1 .. new[e]) /\ Cardinality(1 .. new[e]) = new[e]
    BY <2>2, FS_Interval
  <2>4. IsFiniteSet(extra) /\ Cardinality(extra) = 1 * new[e]
    <3> DEFINE units == 1 .. new[e]  items == {e}
    <3>1. IsFiniteSet(units) /\ Cardinality(units) = new[e]
      BY <2>3
    <3>2. IsFiniteSet(items) /\ Cardinality(items) = 1
      BY <2>1
    <3> HIDE DEF units, items
    <3>3. /\ IsFiniteSet(items \X units)
          /\ Cardinality(items \X units) = Cardinality(items) * Cardinality(units)
      BY <3>1, <3>2, FS_Product
    <3>4. Cardinality(items \X units) = 1 * new[e]
      BY <3>1, <3>2, <3>3
    <3> QED BY <3>3, <3>4 DEF units, items
  <2> QED BY <2>2, <2>4
<1>5. Cardinality(Units(new)) = Cardinality(Units(old)) + new[e]
  <2> HIDE DEF extra
  <2>1. Cardinality(Units(old) \cup extra) =
          Cardinality(Units(old)) + Cardinality(extra)
            - Cardinality(Units(old) \cap extra)
    BY <1>3, <1>4, FS_Union
  <2>2. Cardinality(Units(old) \cap extra) = 0
    BY <1>2, FS_EmptySet
  <2> QED BY <1>1, <1>3, <1>4, <2>1, <2>2
<1> QED BY <1>5 DEF Total

\* Nothing has no amount.
LEMMA TotalOfNone ==
  ASSUME NEW amount, DOMAIN amount = {}
  PROVE  Total(amount) = 0
<1>1. Units(amount) = {}
  BY DEF Units
<1> QED BY <1>1, FS_EmptySet DEF Total

\* Items that go to different larger ones make no more than those.
LEMMA TotalInjection ==
  ASSUME NEW S, NEW T, IsFiniteSet(S), IsFiniteSet(T),
         NEW small \in [S -> Nat], NEW large \in [T -> Nat],
         NEW to \in [S -> T], \A x, y \in S : to[x] = to[y] => x = y,
         \A x \in S : small[x] <= large[to[x]]
  PROVE  Total(small) <= Total(large)
<1> DEFINE unit == [u \in Units(small) |-> <<to[u[1]], u[2]>>]
<1>1. ASSUME NEW u \in Units(small)
      PROVE  \E x \in S : \E i \in 1 .. small[x] :
               u = <<x, i>> /\ i \in 1 .. large[to[x]]
  <2>1. PICK x \in S : \E i \in 1 .. small[x] : u = <<x, i>>
    BY UnitsMembers
  <2>2. PICK i \in 1 .. small[x] : u = <<x, i>>
    BY <2>1
  <2>3. small[x] \in Nat /\ large[to[x]] \in Nat /\ small[x] <= large[to[x]]
    OBVIOUS
  <2>4. i \in 1 .. large[to[x]]
    BY <2>3
  <2> QED BY <2>2, <2>4
<1>2. ASSUME NEW u \in Units(small) PROVE unit[u] \in Units(large)
  <2>1. PICK x \in S : \E i \in 1 .. small[x] : u = <<x, i>> /\ i \in 1 .. large[to[x]]
    BY <1>1
  <2>2. PICK i \in 1 .. large[to[x]] : unit[u] = <<to[x], i>>
    BY <2>1
  <2>3. to[x] \in DOMAIN large
    OBVIOUS
  <2> QED BY <2>2, <2>3, UnitsMembers
<1>3. ASSUME NEW u \in Units(small), NEW v \in Units(small), unit[u] = unit[v]
      PROVE  u = v
  <2>1. PICK x \in S : \E i \in 1 .. small[x] : u = <<x, i>>
    BY <1>1
  <2>2. PICK i \in 1 .. small[x] : u = <<x, i>>
    BY <2>1
  <2>3. PICK y \in S : \E j \in 1 .. small[y] : v = <<y, j>>
    BY <1>1
  <2>4. PICK j \in 1 .. small[y] : v = <<y, j>>
    BY <2>3
  <2>5. unit[u] = <<to[x], i>> /\ unit[v] = <<to[y], j>>
    BY <2>2, <2>4
  <2>6. to[x] = to[y] /\ i = j
    BY <1>3, <2>5
  <2> QED BY <2>2, <2>4, <2>6
<1>4. unit \in Injection(Units(small), Units(large))
  <2>1. unit \in [Units(small) -> Units(large)]
    BY <1>2
  <2> HIDE DEF unit
  <2> QED BY <1>3, <2>1 DEF Injection, IsInjective
<1>5. /\ IsFiniteSet(Units(large))
      /\ Total(small) \in Nat /\ Total(large) \in Nat
  BY TotalType
<1> HIDE DEF unit
<1> QED BY <1>4, <1>5, FS_Injection DEF Total
==============================================================================
